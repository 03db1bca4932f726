----------------------------- MODULE I2cMaster -----------------------------
(***************************************************************************)
(* i2c_wb.v writing bytes for sw/lib/i2c.c, and one receiver on the bus.   *)
(* A step of the master is a tick of its clock divider.  The bus is the    *)
(* wired AND of who pulls a line low; something else on it may pull SDA    *)
(* low for a bit.  The receiver is external: the PCF8574 of the display    *)
(* module, which takes any number of bytes after its address.              *)
(***************************************************************************)
EXTENDS Integers, Sequences

CONSTANTS Address          \* of the receiver, 7 bits

VARIABLES
    state,       \* of the master's FSM, "ST_" left out
    cmd,         \* the command's flags, a subset of Commands
    shifter, bit_count, scl_low, sda_low, rxack, arbitration_lost,
    receiver,    \* see Receiver
    pulled,      \* SDA is held low by something else
    taken        \* the last byte the receiver has acknowledged, NoByte before
masterVars == <<state, cmd, shifter, bit_count, scl_low, sda_low, rxack,
                arbitration_lost>>
i2cVars == <<masterVars, receiver, pulled, taken>>

Commands == {"start", "stop", "write"}
NoByte == -1
TopBit(v) == v \div 128       \* of a byte
transfer_in_progress == state # "IDLE"

-----------------------------------------------------------------------------
(* The receiver: at is "idle", "addr" or "data" between START and STOP, or   *)
(* "skip" until the next START; n bits of byte are in; n = 9 from the rising *)
(* edge of the acknowledge clock on; ack: it pulls SDA low.                  *)

Receiver == [at |-> "idle", n |-> 0, byte |-> 0, ack |-> FALSE]
Line(low, rcv, pull) == ~low /\ ~rcv.ack /\ ~pull

Rise(rcv, sda) ==
    IF rcv.n < 8 THEN [rcv EXCEPT !.n = @ + 1, !.byte = 2 * @ + IF sda THEN 1 ELSE 0]
    ELSE [rcv EXCEPT !.n = 9]
Wanted(rcv) == rcv.at = "data" \/ rcv.byte = 2 * Address
Fall(rcv, accepts) ==
    CASE rcv.n = 9 -> [Receiver EXCEPT !.at = "data"]
      [] rcv.n = 8 -> IF accepts /\ Wanted(rcv) THEN [rcv EXCEPT !.ack = TRUE]
                      ELSE [Receiver EXCEPT !.at = "skip"]
      [] OTHER -> rcv
\* What it makes of SCL and SDA going from 0 to 1 (as BOOLEANs).
Observe(rcv, scl0, sda0, scl1, sda1, accepts) ==
    CASE scl0 /\ scl1 /\ sda0 /\ ~sda1 -> [Receiver EXCEPT !.at = "addr"]
      [] scl0 /\ scl1 /\ ~sda0 /\ sda1 -> Receiver
      [] ~scl0 /\ scl1 /\ rcv.at \in {"addr", "data"} -> Rise(rcv, sda1)
      [] scl0 /\ ~scl1 /\ rcv.at \in {"addr", "data"} -> Fall(rcv, accepts)
      [] OTHER -> rcv

\* The lines after the master has set its two; accepts: the receiver is there
\* and ready to acknowledge.
BusMoves(accepts) ==
    /\ receiver' = Observe(receiver, ~scl_low, Line(sda_low, receiver, pulled),
                           ~scl_low', Line(sda_low', receiver, pulled'), accepts)
    /\ taken' = IF receiver'.ack /\ ~receiver.ack THEN receiver.byte ELSE taken
\* Both lines are released: SCL rises first, or SDA does.
BusReleased ==
    LET sda0 == Line(sda_low, receiver, pulled)
        sda1 == ~receiver.ack
    IN  receiver' \in
            {Observe(Observe(receiver, ~scl_low, sda0, TRUE, sda0, FALSE),
                     TRUE, sda0, TRUE, sda1, FALSE),
             Observe(receiver, ~scl_low, sda1, TRUE, sda1, FALSE)}

-----------------------------------------------------------------------------
(* The master *)

I2cInit ==
    /\ state = "IDLE" /\ cmd = {} /\ shifter = 0 /\ bit_count = 7
    /\ scl_low = FALSE /\ sda_low = FALSE
    /\ rxack = TRUE /\ arbitration_lost = FALSE
    /\ receiver = Receiver /\ pulled = FALSE /\ taken = NoByte
\* The receiver is not reset.
I2cReset ==
    /\ state' = "IDLE" /\ cmd' = {} /\ shifter' = 0 /\ bit_count' = 7
    /\ scl_low' = FALSE /\ sda_low' = FALSE
    /\ rxack' = TRUE /\ arbitration_lost' = FALSE
    /\ BusReleased /\ pulled' = FALSE /\ taken' = NoByte

\* The lines and the flags a state sets.
Drives(scl, sda) == scl_low' = scl /\ sda_low' = sda
Go(next) == state' = next
Flags == UNCHANGED <<rxack, arbitration_lost>>
Shift == UNCHANGED <<cmd, shifter, bit_count>>

START_A == state = "START_A" /\ Drives(FALSE, FALSE) /\ Go("START_B") /\ Flags /\ Shift
START_B == state = "START_B" /\ Drives(scl_low, TRUE) /\ Go("START_C") /\ Flags /\ Shift
START_C(txr) ==
    /\ state = "START_C" /\ Drives(TRUE, sda_low) /\ Go("WRITE_LOW")
    /\ shifter' = txr /\ bit_count' = 7
    /\ Flags /\ UNCHANGED cmd
WRITE_LOW ==
    /\ state = "WRITE_LOW" /\ Drives(TRUE, TopBit(shifter) = 0) /\ Go("WRITE_HI")
    /\ Flags /\ Shift
sda_i == Line(sda_low, receiver, pulled)
\* Mutant: a lost arbitration is not seen.
WRITE_HI_blind ==
    /\ state = "WRITE_HI" /\ Drives(FALSE, sda_low)
    /\ Go(IF bit_count = 0 THEN "WACK_LOW" ELSE "WRITE_LOW")
    /\ shifter' = (2 * shifter) % 256
    /\ bit_count' = IF bit_count = 0 THEN 0 ELSE bit_count - 1
    /\ UNCHANGED <<cmd, rxack, arbitration_lost>>
WRITE_HI ==
    /\ state = "WRITE_HI" /\ Drives(FALSE, sda_low)
    /\ arbitration_lost' = (arbitration_lost \/ (TopBit(shifter) = 1 /\ ~sda_i))
    /\ Go(IF bit_count = 0 THEN "WACK_LOW" ELSE "WRITE_LOW")
    /\ shifter' = (2 * shifter) % 256
    /\ bit_count' = IF bit_count = 0 THEN 0 ELSE bit_count - 1
    /\ UNCHANGED <<cmd, rxack>>
WACK_LOW == state = "WACK_LOW" /\ Drives(TRUE, FALSE) /\ Go("WACK_HI") /\ Flags /\ Shift
WACK_HI ==
    /\ state = "WACK_HI" /\ Drives(FALSE, sda_low)
    /\ Go(IF "stop" \in cmd THEN "STOP_A" ELSE "DONE")
    /\ rxack' = sda_i
    /\ UNCHANGED arbitration_lost /\ Shift
STOP_A == state = "STOP_A" /\ Drives(TRUE, TRUE) /\ Go("STOP_B") /\ Flags /\ Shift
STOP_B == state = "STOP_B" /\ Drives(FALSE, TRUE) /\ Go("STOP_C") /\ Flags /\ Shift
STOP_C == state = "STOP_C" /\ Drives(scl_low, FALSE) /\ Go("DONE") /\ Flags /\ Shift
\* finish_command; after a STOP the lines are released already.
DONE == state = "DONE" /\ Drives(scl_low, sda_low) /\ Go("IDLE") /\ Flags /\ Shift

\* Something else may pull SDA low while a data bit is out, until SCL falls.
Tick(txr, pull, accepts) ==
    /\ \/ START_A \/ START_B \/ START_C(txr)
       \/ WRITE_LOW \/ WRITE_HI \/ WACK_LOW \/ WACK_HI
       \/ STOP_A \/ STOP_B \/ STOP_C \/ DONE
    /\ IF pull THEN state = "WRITE_LOW" /\ pulled' = TRUE
       ELSE pulled' = (pulled /\ ~(scl_low' /\ ~scl_low))
    /\ BusMoves(accepts)

\* REG_CR_SR, with the transmit register as the driver has just set it.
Command(flags, txr) ==
    /\ ~transfer_in_progress
    /\ cmd' = flags
    /\ arbitration_lost' = FALSE /\ taken' = NoByte
    /\ Go(IF "start" \in flags THEN "START_A" ELSE "WRITE_LOW")
    /\ \/ "start" \in flags /\ UNCHANGED <<shifter, bit_count>>
       \/ "start" \notin flags /\ shifter' = txr /\ bit_count' = 7
    /\ UNCHANGED <<scl_low, sda_low, rxack, receiver, pulled>>

\* i2c_write_cmd: what it returns once TIP is down.  Its time-out is far longer
\* than a transfer.
WriteResult == IF arbitration_lost THEN -2 ELSE IF rxack THEN -3 ELSE 0
=============================================================================
