------------------------------ MODULE UartPort ------------------------------
(***************************************************************************)
(* The FIFOs of rtl/periph/uart_wb.v with sw/lib/uart.c on one side and    *)
(* the serial line on the other, and programs that run one after the       *)
(* other: each starts with uart_init_div, which empties the FIFOs, and     *)
(* ends with uart_wait_tx_idle, as the bootloader's jump_to does.          *)
(*                                                                         *)
(* A step is a clock with at most one register access.  Bytes are numbers: *)
(* the next one on either side is always one more than the last.           *)
(***************************************************************************)
EXTENDS Naturals, Sequences

CONSTANT Depth          \* of each FIFO

ASSUME UartAssumption == Depth \in Nat \ {0}

VARIABLES
    tx, rx,         \* FIFOs: see Empty
    tx_state,       \* "IDLE" or "BUSY": a byte is on the line
    tx_shift,       \* that byte, or the last one
    rx_shift,       \* the byte that comes in, or the next one
    overrun_error,
    pc,             \* where the program is
    got,            \* the byte uart_getc has returned last
    said, heard     \* next byte for uart_putc; next byte for the line
uartVars == <<tx, rx, tx_state, tx_shift, rx_shift, overrun_error,
              pc, got, said, heard>>

\* Bound: byte numbers wrap around after as many as a FIFO and the line hold.
Bytes == 0 .. Depth
After(b) == (b + 1) % (Depth + 1)

Empty == [mem |-> [i \in 0..Depth-1 |-> 0], rd_ptr |-> 0, wr_ptr |-> 0, count |-> 0]
Cleared(fifo) == [fifo EXCEPT !.rd_ptr = 0, !.wr_ptr = 0, !.count = 0]
\* A byte goes in, one comes out, or both in the same clock.
\* Mutant: a byte that comes out counts though another goes in.
MovedTwice(fifo, in, byte, outs) ==
    [mem |-> IF in THEN [fifo.mem EXCEPT ![fifo.wr_ptr] = byte] ELSE fifo.mem,
     wr_ptr |-> IF in THEN (fifo.wr_ptr + 1) % Depth ELSE fifo.wr_ptr,
     rd_ptr |-> IF outs THEN (fifo.rd_ptr + 1) % Depth ELSE fifo.rd_ptr,
     count |-> IF outs THEN fifo.count - 1 ELSE IF in THEN fifo.count + 1 ELSE fifo.count]
Moved(fifo, in, byte, outs) ==
    [mem |-> IF in THEN [fifo.mem EXCEPT ![fifo.wr_ptr] = byte] ELSE fifo.mem,
     wr_ptr |-> IF in THEN (fifo.wr_ptr + 1) % Depth ELSE fifo.wr_ptr,
     rd_ptr |-> IF outs THEN (fifo.rd_ptr + 1) % Depth ELSE fifo.rd_ptr,
     count |-> CASE in /\ ~outs -> fifo.count + 1
                 [] outs /\ ~in -> fifo.count - 1
                 [] OTHER -> fifo.count]

tx_fifo_full == tx.count = Depth
transmit_pending == tx_state # "IDLE" \/ tx.count # 0

\* The byte on the line ends, and the next one is taken out of the FIFO.
Transmits(tx_fifo_pop_fire, ends) ==
    /\ ends => tx_state = "BUSY"
    /\ tx_state' = CASE tx_fifo_pop_fire -> "BUSY"
                     [] ends -> "IDLE"
                     [] OTHER -> tx_state
    /\ tx_shift' = IF tx_fifo_pop_fire THEN tx.mem[tx.rd_ptr] ELSE tx_shift
    /\ heard' = IF tx_fifo_pop_fire THEN After(heard) ELSE heard
\* A byte has come in completely and finds room or not.  Clearing and reading
\* the status win over the event of the same clock.
Receives(acc, arrives, room) ==
    /\ rx_shift' = IF arrives THEN After(rx_shift) ELSE rx_shift
    /\ overrun_error' = (/\ acc \notin {"clear", "read STATUS"}
                         /\ (overrun_error \/ (arrives /\ ~room)))

\* A clock with the access acc.
Clock(acc, ends, arrives) ==
    LET tx_fifo_pop_fire == tx_state = "IDLE" /\ tx.count # 0
        tx_fifo_write_fire == acc = "write TX" /\ (~tx_fifo_full \/ tx_fifo_pop_fire)
        rx_fifo_read_fire == acc = "read RX" /\ rx.count # 0
        room == rx.count # Depth \/ rx_fifo_read_fire
        push == arrives /\ room
        txMoved == Moved(tx, tx_fifo_write_fire, said, tx_fifo_pop_fire)
        rxMoved == Moved(rx, push, rx_shift, rx_fifo_read_fire)
    IN  /\ Transmits(tx_fifo_pop_fire, ends)
        /\ Receives(acc, arrives, room)
        /\ said' = IF acc = "write TX" THEN After(said) ELSE said
        /\ tx' = IF acc = "clear" THEN Cleared(txMoved) ELSE txMoved
        /\ rx' = IF acc = "clear" THEN Cleared(rxMoved) ELSE rxMoved
        /\ got' = IF rx_fifo_read_fire THEN rx.mem[rx.rd_ptr] ELSE got

UartInit ==
    /\ tx = Empty /\ rx = Empty /\ tx_state = "IDLE"
    /\ tx_shift = 0 /\ rx_shift = 0 /\ overrun_error = FALSE
    /\ pc = "init" /\ got = 0 /\ said = 0 /\ heard = 0

\* pc: the function the program is in; "store" and "load" behind the poll.
Goes(from, acc, to, ends, arrives) ==
    pc = from /\ pc' = to /\ Clock(acc, ends, arrives)

uart_init_div(ends, arrives) == Goes("init", "clear", "run", ends, arrives)
Computes(ends, arrives) ==
    \/ pc' = pc /\ Clock("none", ends, arrives)
    \/ \E f \in {"putc", "getc", "wait"} : Goes("run", "none", f, ends, arrives)
uart_putc(ends, arrives) ==
    \/ Goes("putc", "read STATUS", IF tx_fifo_full THEN "putc" ELSE "store", ends, arrives)
    \/ Goes("store", "write TX", "run", ends, arrives)
uart_getc(ends, arrives) ==
    \/ Goes("getc", "read STATUS", IF rx.count = 0 THEN "run" ELSE "load", ends, arrives)
    \/ Goes("load", "read RX", "run", ends, arrives)
\* Mutant: an empty FIFO is enough.
uart_wait_tx_empty(ends, arrives) ==
    Goes("wait", "read STATUS", IF tx.count # 0 THEN "wait" ELSE "init", ends, arrives)
uart_wait_tx_idle(ends, arrives) ==
    Goes("wait", "read STATUS",
         IF tx.count # 0 \/ transmit_pending THEN "wait" ELSE "init", ends, arrives)

UartNext ==
    \E ends, arrives \in BOOLEAN :
        \/ uart_init_div(ends, arrives)
        \/ Computes(ends, arrives)
        \/ uart_putc(ends, arrives)
        \/ uart_getc(ends, arrives)
        \/ uart_wait_tx_idle(ends, arrives)

UartSpec == UartInit /\ [][UartNext]_uartVars

-----------------------------------------------------------------------------
Contents(fifo) ==
    [i \in 1..fifo.count |-> fifo.mem[(fifo.rd_ptr + i - 1) % Depth]]
TxQueue == INSTANCE BoundedFifo
             WITH Items <- Bytes, queue <- Contents(tx), given <- tx_shift
RxQueue == INSTANCE BoundedFifo
             WITH Items <- Bytes, queue <- Contents(rx), given <- got

\* uart_wb.v:89, 400: both FIFOs are queues, whatever the program and the line
\* do in the same clock: a full one that gives and takes, an empty one that
\* takes, a clear on top of either.
FifosAreQueues == TxQueue!QueueSpec /\ RxQueue!QueueSpec

\* uart.c:45, 70: a program that waits for the transmitter has every byte it
\* wrote on the line to its end; what the next one's uart_init_div throws away
\* is nothing of it.
EverythingSaid == pc = "init" => heard = said /\ tx_state = "IDLE"
=============================================================================
