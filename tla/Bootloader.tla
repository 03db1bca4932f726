----------------------------- MODULE Bootloader -----------------------------
(***************************************************************************)
(* sw/apps/uart_bootloader/main.c on the receive FIFO of uart_wb.v and the *)
(* functions of sw/lib/uart.c, one received byte a step.  What it prints   *)
(* is a sequence of messages.  A word of the binary packet has 2*HalfBytes *)
(* bytes (4 in the code), the address of an Intel HEX record HalfBytes.    *)
(***************************************************************************)
EXTENDS Integers, Sequences

CONSTANTS
    HalfBytes,
    ImemBase, BootEnd, SramBase, SramEnd,      \* the loadable regions
    Depth                                      \* of the receive FIFO (32)

WordBytes == 2 * HalfBytes           \* sizeof(uint32_t)
Power[n \in 0..WordBytes] == IF n = 0 THEN 1 ELSE 256 * Power[n-1]    \* 256^n
Word == Power[WordBytes]
ASSUME RegionsAssumption ==
    /\ {HalfBytes, Depth} \subseteq Nat \ {0}
    /\ {ImemBase, BootEnd, SramBase, SramEnd} \subseteq Nat
    /\ 0 < ImemBase /\ ImemBase < BootEnd /\ BootEnd <= SramBase
    /\ SramBase < SramEnd /\ SramEnd < Word

VARIABLES
    rx,        \* the receive FIFO
    tx,        \* messages on their way to the host
    pc,        \* what the next byte is, or what is done before it is read
    buf,       \* bytes of the packet's current part, or of the record
    hi,        \* the first digit of a pair, NoDigit before it
    pkt,       \* the header: dst, len, entry, expected_sum
    ihex,      \* the locals of handle_ihex_stream
    target,    \* where jump_to goes
    mem        \* the bytes written so far
locals == <<buf, hi, pkt, ihex>>
bootVars == <<rx, tx, pc, locals, target, mem>>

NoDigit == -2
NoPacket == [dst |-> 0, len |-> 0, entry |-> 0, expected_sum |-> 0]
NoStream == [upper |-> 0, entry |-> 0, entry_seen |-> FALSE,
             first_addr |-> 0, first_data_seen |-> FALSE]

Total(s) == LET t[i \in 0..Len(s)] == IF i = 0 THEN 0 ELSE t[i-1] + s[i] IN t[Len(s)]
LittleEndian(s) == Total([i \in DOMAIN s |-> s[i] * Power[i-1]])
BigEndian(s)    == Total([i \in DOMAIN s |-> s[i] * Power[Len(s) - i]])

\* "BL1", and the other characters by their codes.
Magic == <<66, 76, 49>>
LetterK == 75
Colon == 58
Question == 63

is_space(c) == c \in {32, 13, 10, 9}
hex_nibble(c) == CASE c \in 48..57  -> c - 48
                   [] c \in 97..102 -> c - 87
                   [] c \in 65..70  -> c - 55
                   [] OTHER         -> -1

\* Mutant: the end of the range may wrap around.
range_valid_wraps(addr, len) ==
    LET end == (addr + len - 1) % Word
    IN  \/ len = 0
        \/ addr >= ImemBase /\ end < BootEnd
        \/ addr >= SramBase /\ end < SramEnd
range_valid(addr, len) ==
    LET end == (addr + len - 1) % Word
    IN  \/ len = 0
        \/ /\ end >= addr
           /\ \/ addr >= ImemBase /\ end < BootEnd
              \/ addr >= SramBase /\ end < SramEnd

\* write_payload_byte for each of the bytes.  Its own check, with the errors 18
\* and 38, cannot fail behind the one of the whole range
\* (UartLoadProofs!ByteCheckIsRedundant).
Stored(addr, bytes) ==
    LET at == {(addr + i - 1) % Word : i \in DOMAIN bytes}
    IN  [a \in at \cup DOMAIN mem |->
            IF a \in at THEN bytes[((a - addr) % Word) + 1] ELSE mem[a]]

-----------------------------------------------------------------------------
BootInit ==
    /\ rx = <<>> /\ tx = <<>> /\ pc = "start"
    /\ buf = <<>> /\ hi = NoDigit /\ pkt = NoPacket /\ ihex = NoStream
    /\ target = 0 /\ mem = <<>>

\* A message repeated at once counts once: the host looks for one, not how many.
Say(message) ==
    tx' = IF tx # <<>> /\ tx[Len(tx)] = message THEN tx ELSE Append(tx, message)
To(next) == pc' = next /\ buf' = <<>> /\ hi' = NoDigit

\* uart_init_div empties the FIFOs before the banner is printed.
BootStart ==
    /\ pc = "start"
    /\ rx' = <<>> /\ Say("ready")
    /\ To("main") /\ UNCHANGED <<pkt, ihex, target, mem>>

\* report_error: nothing is received while the message is printed.  Of its
\* codes the host tells 1 from the others.
Error(code) == IF code = 1 THEN "ERR 1" ELSE "ERR"
report_error(code) ==
    /\ Say(Error(code))
    /\ To("print") /\ UNCHANGED <<pkt, ihex, target, mem>>
BootPrinted ==
    /\ pc = "print" /\ To("main")
    /\ UNCHANGED <<rx, tx, pkt, ihex, target, mem>>

\* The message and, behind it, the one of jump_to; the jump follows when both
\* are sent (uart_wait_tx_idle).
jump_to(message, entry) ==
    /\ tx' = tx \o <<message, "JMP">>
    /\ target' = entry - (entry % 2)
    /\ To("jump") /\ UNCHANGED <<pkt, ihex>>
BootJump ==
    /\ pc = "jump" /\ To("firmware")
    /\ UNCHANGED <<rx, tx, pkt, ihex, target, mem>>

\* Mutant: a stream goes on with what the one before has left.
BootMainKeeps(c) ==
    /\ pc = "main"
    /\ \/ is_space(c) /\ UNCHANGED <<tx, pc, locals, target, mem>>
       \/ c = LetterK /\ To("magic") /\ UNCHANGED <<tx, pkt, ihex, target, mem>>
       \/ c = Colon /\ To("hex") /\ UNCHANGED <<tx, pkt, ihex, target, mem>>
       \/ ~is_space(c) /\ c \notin {LetterK, Colon} /\ report_error(1)
BootMain(c) ==
    /\ pc = "main"
    /\ \/ is_space(c) /\ UNCHANGED <<tx, pc, locals, target, mem>>
       \/ c = LetterK /\ To("magic") /\ UNCHANGED <<tx, pkt, ihex, target, mem>>
       \/ /\ c = Colon /\ To("hex") /\ ihex' = NoStream
          /\ UNCHANGED <<tx, pkt, target, mem>>
       \/ ~is_space(c) /\ c \notin {LetterK, Colon} /\ report_error(1)

-----------------------------------------------------------------------------
(* handle_binary_packet *)

BootMagic(c) ==
    /\ pc = "magic"
    /\ IF c # Magic[Len(buf) + 1] THEN report_error(16)
       ELSE /\ IF Len(buf) < 2
               THEN buf' = Append(buf, c) /\ UNCHANGED <<pc, hi>>
               ELSE To("header")
            /\ UNCHANGED <<tx, pkt, ihex, target, mem>>

\* The payload is summed up when it is complete, in the order it was stored.
\* Mutant: the sum is not compared.
FinishUnchecked(p, payload) == jump_to("OK", p.entry) /\ mem' = mem
Finish(p, payload) ==
    IF Total(payload) % Word # p.expected_sum THEN report_error(19)
    ELSE jump_to("OK", p.entry) /\ mem' = mem
BootHeader(c) ==
    /\ pc = "header"
    /\ LET all == Append(buf, c)
           word(i) == LittleEndian(SubSeq(all, i * WordBytes + 1, (i + 1) * WordBytes))
           p == [dst |-> word(0), len |-> word(1), entry |-> word(2),
                 expected_sum |-> word(3)]
       IN  CASE Len(all) < 4 * WordBytes ->
                    buf' = all /\ UNCHANGED <<tx, pc, hi, pkt, ihex, target, mem>>
             [] Len(all) = 4 * WordBytes
                /\ ~(range_valid(p.dst, p.len) /\ range_valid(p.entry, 1)) ->
                    report_error(17)
             [] OTHER ->
                    IF p.len = 0 THEN Finish(p, <<>>)
                    ELSE To("payload") /\ pkt' = p /\ UNCHANGED <<tx, ihex, target, mem>>
BootPayload(c) ==
    /\ pc = "payload"
    /\ mem' = Stored(pkt.dst + Len(buf), <<c>>)
    /\ buf' = Append(buf, c)
    /\ pc' = IF Len(buf) + 1 = pkt.len THEN "sum" ELSE pc
    /\ UNCHANGED <<tx, hi, pkt, ihex, target>>
BootSum ==
    /\ pc = "sum" /\ Finish(pkt, buf) /\ UNCHANGED rx

-----------------------------------------------------------------------------
(* handle_ihex_stream *)

BootColon(c) ==
    /\ pc = "colon"
    /\ \/ is_space(c) /\ UNCHANGED <<tx, pc, locals, target, mem>>
       \/ c = Colon /\ To("hex") /\ UNCHANGED <<tx, pkt, ihex, target, mem>>
       \/ ~is_space(c) /\ c # Colon /\ report_error(32)

\* Byte n of a record has a bad digit: len, address and type, then data, then
\* checksum.
DigitError(n) ==
    CASE n <= HalfBytes + 2 -> 33
      [] n > HalfBytes + 2 /\ n <= HalfBytes + 2 + buf[1] -> 34
      [] OTHER -> 35

RecordType(r) == r[HalfBytes + 2]
RecordData(r) == SubSeq(r, HalfBytes + 3, HalfBytes + 2 + r[1])
RecordAddr(r) == ihex.upper + BigEndian(SubSeq(r, 2, HalfBytes + 1))
EntryAddr == IF ihex.entry_seen THEN ihex.entry ELSE ihex.first_addr
RecordError(r) ==
    CASE Total(r) % 256 # 0 -> 36
      [] RecordType(r) = 0 /\ ~range_valid(RecordAddr(r), r[1]) -> 37
      [] RecordType(r) = 1
         /\ ~(ihex.first_data_seen /\ range_valid(EntryAddr, 1)) -> 39
      [] RecordType(r) = 4 /\ r[1] # HalfBytes -> 40
      [] RecordType(r) = 5 /\ r[1] # WordBytes -> 41
      [] OTHER -> 0

\* What the record changes of the locals; records of another type are skipped.
Records(r) ==
    CASE RecordType(r) = 0 ->
           [ihex EXCEPT !.first_data_seen = TRUE,
                        !.first_addr = IF ihex.first_data_seen THEN @
                                       ELSE RecordAddr(r)]
      [] RecordType(r) = 4 ->
           [ihex EXCEPT !.upper = BigEndian(RecordData(r)) * Power[HalfBytes]]
      [] RecordType(r) = 5 ->
           [ihex EXCEPT !.entry = BigEndian(RecordData(r)), !.entry_seen = TRUE]
      [] OTHER -> ihex

Record(r) ==
    \/ RecordError(r) # 0 /\ report_error(RecordError(r))
    \/ RecordError(r) = 0 /\ RecordType(r) = 1 /\ jump_to("OK", EntryAddr) /\ mem' = mem
    \/ /\ RecordError(r) = 0 /\ RecordType(r) # 1
       /\ mem' = IF RecordType(r) = 0 THEN Stored(RecordAddr(r), RecordData(r)) ELSE mem
       /\ ihex' = Records(r)
       /\ To("colon") /\ UNCHANGED <<tx, pkt, target>>

\* read_hex_byte takes both digits before it looks at either.
BootHex(c) ==
    /\ pc = "hex"
    /\ LET lo == hex_nibble(c)
           all == Append(buf, 16 * hi + lo)
       IN  \/ /\ hi = NoDigit
              /\ hi' = lo /\ UNCHANGED <<tx, pc, buf, pkt, ihex, target, mem>>
           \/ /\ hi # NoDigit /\ (hi < 0 \/ lo < 0)
              /\ report_error(DigitError(Len(buf) + 1))
           \/ /\ hi >= 0 /\ lo >= 0
              /\ IF Len(all) = HalfBytes + 3 + all[1] THEN Record(all)
                 ELSE /\ buf' = all /\ hi' = NoDigit
                      /\ UNCHANGED <<tx, pc, pkt, ihex, target, mem>>

\* recv_byte, once uart_getc finds the FIFO not empty.
BootByte ==
    /\ rx # <<>> /\ rx' = Tail(rx)
    /\ LET c == Head(rx)
       IN  BootMain(c) \/ BootMagic(c) \/ BootHeader(c) \/ BootPayload(c)
           \/ BootColon(c) \/ BootHex(c)
BootNext == BootStart \/ BootPrinted \/ BootByte \/ BootSum \/ BootJump
=============================================================================
