------------------------------ MODULE UartLoad ------------------------------
(***************************************************************************)
(* sw/tools/uart_loader.py and the bootloader at the two ends of a serial  *)
(* line.  The line may lose or garble a byte; the user may press reset,    *)
(* stop the loader in the middle, and start it again.  The loader's time-  *)
(* outs, and the time it takes to start, are far longer than any answer    *)
(* takes: they end only when no answer is to come.                         *)
(***************************************************************************)
EXTENDS Bootloader, FiniteSets

CONSTANTS
    Files,             \* what a user may load: see BinFile
    PrintTime,         \* bytes that may come while an error is printed (17)
    MaxAttempts,       \* times the user starts the loader
    MaxFaults          \* bytes lost, resets and loaders stopped, together

ASSUME FilesAssumption == \A f \in Files : f.data \in Seq(0..255)

VARIABLES
    stage,             \* of the loader: "off" when it does not run
    file,              \* the payload it was given
    left,              \* tx_data not yet sent
    seen,              \* what it has read of the board's output
    exit,              \* its exit code, NoExit while it runs or was stopped
    doubt,             \* about the transfer: see Doubts
    attempts, faults,
    came               \* bytes that came while the board prints
loadVars == <<stage, file, left, seen, exit, doubt, attempts, faults>>
vars == <<bootVars, loadVars, came>>

NoExit == -1
Errors == {"ERR 1", "ERR"}
Messages == {"ready", "OK", "JMP"} \cup Errors

\* "none": the handshake succeeded and nothing went wrong since.  "misread": the
\* loader's probe has become part of an unfinished packet, or the board was reset
\* between the records of a HEX file.  Else "fault".
Doubtful == doubt' = IF doubt = "misread" THEN doubt ELSE "fault"
BoardMisses == IF file.format = "ihex" THEN doubt' = "misread" ELSE Doubtful

Bytes(value) == [i \in 1..WordBytes |-> (value \div Power[i-1]) % 256]

make_binary_packet(payload, dst, entry) ==
    <<LetterK>> \o Magic \o Bytes(dst) \o Bytes(Len(payload)) \o Bytes(entry)
        \o Bytes(Total(payload) % Word) \o payload

\* A file by what is sent and what must be in memory when it is started.
BinFile(payload, dst, entry) ==
    [data |-> make_binary_packet(payload, dst, entry),
     image |-> [a \in dst..dst + Len(payload) - 1 |-> payload[a - dst + 1]],
     entry |-> entry, format |-> "bin"]

Valid(f) == \A a \in DOMAIN f.image \cup {f.entry} : range_valid(a, 1)
Loaded(f) == \A a \in DOMAIN f.image : a \in DOMAIN mem /\ mem[a] = f.image[a]

-----------------------------------------------------------------------------
Init ==
    /\ BootInit
    /\ stage = "off" /\ file \in Files /\ left = <<>> /\ seen = {}
    /\ exit = NoExit /\ doubt = "fault"
    /\ attempts = 0 /\ faults = 0 /\ came = 0

\* Nothing is on its way to the board, nothing about to be printed; or on its
\* way back either.
Settled == rx = <<>> /\ pc \notin {"print", "sum", "jump"}
Quiet == Settled /\ tx = <<>> /\ pc # "start"

(* The line *)

\* The bootloader polls faster than bytes come, except while it prints, at
\* their own rate; then a byte that finds the FIFO full is dropped.
Prints == pc \in {"start", "print", "jump"}
Comes ==
    /\ rx = <<>> \/ Prints
    /\ IF pc = "print" THEN came < PrintTime /\ came' = came + 1 ELSE came' = came
Arrives(c) ==
    /\ Comes /\ Len(rx) < Depth /\ rx' = Append(rx, c)
    /\ UNCHANGED <<tx, pc, locals, target, mem>>
Overrun ==
    /\ Comes /\ Len(rx) = Depth /\ UNCHANGED bootVars

(* The loader *)

\* reset_input_buffer drops what has come so far.
LoaderStart ==
    /\ stage = "off" /\ attempts < MaxAttempts /\ Settled
    /\ attempts' = attempts + 1
    /\ stage' = "banner" /\ left' = file.data /\ seen' = {}
    /\ exit' = NoExit /\ Doubtful
    /\ tx' = <<>>
    /\ UNCHANGED <<rx, pc, locals, target, mem, file, faults, came>>

Goto(next) ==
    /\ stage' = next
    /\ UNCHANGED <<file, left, exit, attempts, faults>>
\* wait_for_any_text: a message is read, and kept unless it is one looked for.
Reads(needles) ==
    /\ tx # <<>> /\ Head(tx) \in needles
    /\ tx' = Tail(tx)
    /\ UNCHANGED <<rx, pc, locals, target, mem, came>>
Needles == CASE stage = "banner" -> {"ready"}
             [] stage = "probe" -> {"ready", "ERR 1"}
             [] stage = "response" -> {"OK", "JMP"}
             [] OTHER -> {}
LoaderReads ==
    /\ stage \in {"banner", "probe", "response"}
    /\ Reads(Messages \ Needles) /\ seen' = seen \cup {Head(tx)}
    /\ UNCHANGED doubt
    /\ Goto(stage)

\* wait_for_bootloader.  A board that is in reset again will miss what is sent.
LoaderReady ==
    /\ stage \in {"banner", "probe"}
    /\ Reads(Needles) /\ seen' = {}
    /\ IF pc = "start" THEN BoardMisses ELSE doubt' = "none"
    /\ Goto("send")
LoaderProbe ==
    /\ stage = "banner" /\ Quiet
    /\ Arrives(Question)
    /\ doubt' = IF pc \in {"header", "payload"} THEN "misread" ELSE doubt
    /\ Goto("probe") /\ UNCHANGED seen

LoaderSend ==
    /\ stage = "send" /\ left # <<>>
    /\ left' = Tail(left)
    /\ \/ Arrives(Head(left)) /\ UNCHANGED doubt
       \/ Overrun /\ Doubtful
    /\ UNCHANGED <<stage, file, seen, exit, attempts, faults>>
\* Nothing is read before everything is sent.
LoaderFlush ==
    /\ stage = "send" /\ left = <<>>
    /\ Goto("response")
    /\ UNCHANGED <<bootVars, seen, doubt, came>>

Exit(code) ==
    /\ stage' = "off" /\ exit' = code
    /\ left' = <<>> /\ seen' = {}
    /\ UNCHANGED <<file, doubt, attempts, faults>>
LoaderNoAnswer ==
    /\ stage = "probe" /\ Quiet
    /\ Exit(2) /\ UNCHANGED <<bootVars, came>>
Failed == seen \cap Errors # {}
LoaderAnswered ==
    /\ stage = "response" /\ Reads(Needles)
    /\ Exit(IF Failed THEN 3 ELSE 0)
\* Mutant: the time runs only once something has come.
LoaderGivesUpLate ==
    /\ stage = "response" /\ Quiet /\ seen # {}
    /\ Exit(IF Failed THEN 3 ELSE 4) /\ UNCHANGED <<bootVars, came>>
LoaderGivesUp ==
    /\ stage = "response" /\ Quiet
    /\ Exit(IF Failed THEN 3 ELSE 4) /\ UNCHANGED <<bootVars, came>>

(* What goes wrong *)

Fault == faults < MaxFaults /\ faults' = faults + 1

LineLoses ==
    /\ stage = "send" /\ left # <<>> /\ Fault /\ Doubtful
    /\ left' = Tail(left)
    /\ UNCHANGED <<bootVars, stage, file, seen, exit, attempts, came>>
\* Bit 0 of a character of a record, or of a payload byte, is flipped: the part
\* the checksums cover.  Once only, as a second error may cancel the first.
LineGarbles ==
    /\ stage = "send" /\ left # <<>> /\ faults = 0 /\ Fault /\ Doubtful
    /\ file.format = "bin" => Len(left) <= Cardinality(DOMAIN file.image)
    /\ LET c == Head(left)
       IN  Arrives(IF c % 2 = 0 THEN c + 1 ELSE c - 1)
    /\ left' = Tail(left)
    /\ UNCHANGED <<stage, file, seen, exit, attempts>>
UserStops ==
    /\ stage # "off" /\ Fault /\ Doubtful
    /\ stage' = "off" /\ left' = <<>> /\ seen' = {}
    /\ UNCHANGED <<bootVars, file, exit, attempts, came>>
\* CPU_RESET: memory keeps its contents, what is not yet printed is not.
Reset ==
    /\ Fault
    /\ IF stage = "send" THEN BoardMisses ELSE Doubtful
    /\ pc' = "start" /\ rx' = <<>>
    /\ \E n \in 0..Len(tx) : tx' = SubSeq(tx, 1, n)
    /\ buf' = <<>> /\ hi' = NoDigit /\ pkt' = NoPacket /\ ihex' = NoStream
    /\ came' = 0
    /\ UNCHANGED <<target, mem, stage, file, left, seen, exit, attempts>>
\* The program that was started has the UART now.
FirmwareReads ==
    /\ pc = "firmware" /\ rx # <<>> /\ rx' = Tail(rx)
    /\ UNCHANGED <<tx, pc, locals, target, mem>>

Board ==
    /\ BootNext \/ FirmwareReads
    /\ came' = IF pc = "print" THEN 0 ELSE came
    /\ UNCHANGED loadVars
Loader ==
    \/ LoaderReads
    \/ LoaderReady
    \/ LoaderProbe
    \/ LoaderSend
    \/ LoaderFlush
    \/ LoaderNoAnswer
    \/ LoaderAnswered
    \/ LoaderGivesUp
Next ==
    \/ Board
    \/ Loader
    \/ LoaderStart
    \/ LineLoses
    \/ LineGarbles
    \/ UserStops
    \/ Reset
Spec == Init /\ [][Next]_vars

\* Both programs run; the user need not do anything.
FairSpec == Spec /\ WF_vars(Board) /\ WF_vars(Loader)

-----------------------------------------------------------------------------
\* Only the loadable regions are written: neither a header that lost a byte
\* nor a record's address lets a byte into the ROM or past the end
\* (main.c:81, 91).
LoadableOnly ==
    \A a \in DOMAIN mem : a \in ImemBase..BootEnd-1 \cup SramBase..SramEnd-1

\* When the bootloader starts a packet's program, the program's bytes are in
\* memory as sent and it is started at its entry, though bytes may have been
\* lost, the board reset or an earlier transfer left half done.  The exception
\* is a packet that the loader's probe has completed (main.c:148).  A HEX file
\* has no such protection: after a damaged record the next one starts a new
\* stream (main.c:295).
StartsWhatWasSent ==
    [][pc # "jump" /\ pc' = "jump" /\ file.format = "bin" /\ doubt # "misread"
        => Loaded(file)' /\ target' = file.entry]_vars

\* Once the handshake has succeeded and nothing goes wrong after it, the file
\* is loaded, and an invalid one is refused, whatever state an earlier attempt
\* has left the bootloader in; and after lost bytes, overruns and stopped
\* loaders exit code 0 still means that the program has been loaded and
\* started, HEX records that were lost included (uart_loader.py:204, 231).
ExitCodeTells ==
    /\ doubt = "none" /\ exit # NoExit => exit = IF Valid(file) THEN 0 ELSE 3
    /\ exit = 0 /\ doubt # "misread" => Loaded(file) /\ target = file.entry

\* An attempt ends.
AttemptEnds == stage # "off" ~> stage = "off"

\* uart_loader.py:150: "This provides a nondestructive liveness handshake."
\* The probe leaves the memory as it is.
ProbeNondestructive == [][stage = "probe" => mem' = mem]_vars
=============================================================================
