---------------------------- MODULE KyberDriver ----------------------------
(***************************************************************************)
(* sw/lib/kyber.c over kyber_wb_slave.v: kyber_keygen, kyber_encaps and    *)
(* kyber_decaps called one after the other by a program that may take any  *)
(* time between two bus accesses and that may call again after a timeout,  *)
(* while the accelerator still works on the call that was given up.        *)
(* In mode "other" the bus belongs to a program that does not use the      *)
(* driver: any sequence of accesses.                                       *)
(*                                                                         *)
(* A call is a list of bus accesses (todo), the polling loop of            *)
(* kyber_wait_done, and a second list of accesses that collects results.   *)
(***************************************************************************)
EXTENDS KyberSlave, Sequences

CONSTANTS MaxCalls,        \* bound: number of calls the program makes
          OtherRequests    \* what the program without the driver asks for

ASSUME MaxCallsAssumption == MaxCalls \in Nat /\ Calls = 1 .. MaxCalls
ASSUME OtherRequestsAssumption == OtherRequests \subseteq AnyRequest

VARIABLES mode,        \* where the current call is
          op,          \* its opcode
          n,           \* calls made so far; the data of call n is token n
          todo,        \* accesses still to make before the next mode
          got          \* tokens the call has read back

driverVars == <<mode, op, n, todo, got>>
allVars == <<vars, driverVars>>

Modes == {"idle", "setup", "poll", "collect", "trapped", "other"}

Reset        == WriteCtrl([NoCtrl EXCEPT !.reset = TRUE])
StartOp(o)   == WriteCtrl([NoCtrl EXCEPT !.start = TRUE, !.op = o])
AckIrq       == WriteBit("IRQ_STATUS", TRUE)

Inputs(o) == CASE o = OPCODE_KEYGEN -> <<"SEED">>
               [] o = OPCODE_ENCAPS -> <<"PK", "SEED">>
               [] o = OPCODE_DECAPS -> <<"SK", "CT">>
Outputs(o) == CASE o = OPCODE_KEYGEN -> <<"PK", "SK">>
                [] o = OPCODE_ENCAPS -> <<"CT", "SS">>
                [] o = OPCODE_DECAPS -> <<"SS">>

InputWrites(o, k) == [i \in DOMAIN Inputs(o) |-> Write(Inputs(o)[i], k)]
\* mutants: no soft reset; a pending interrupt acknowledged after the start
SetupNoReset(o, k) == InputWrites(o, k) \o <<StartOp(o)>>
SetupAckLate(o, k) == <<Reset>> \o InputWrites(o, k) \o <<StartOp(o), AckIrq>>
Setup(o, k) ==
  <<Reset>> \o InputWrites(o, k) \o <<StartOp(o)>>
Collect(o) == <<AckIrq>> \o [i \in DOMAIN Outputs(o) |-> Read(Outputs(o)[i])]

DriverInit ==
  /\ Init
  /\ mode \in {"idle", "other"} /\ op = OPCODE_KEYGEN /\ n = 0 /\ todo = <<>> /\ got = {}

(***************************************************************************)
(* Steps of the driver in a clock cycle.                                   *)
(***************************************************************************)
answered == req.cyc /\ reply.ack

\* Nothing for the processor to do on this bus: it waits for the answer, or
\* computes, or fetches instructions.
Elsewhere ==
  /\ mode # "other" /\ ~answered
  /\ UNCHANGED <<req, driverVars>>

Call(o) ==
  /\ mode = "idle" /\ n < MaxCalls
  /\ mode' = "setup" /\ op' = o /\ n' = n + 1 /\ got' = {}
  /\ todo' = Setup(o, n + 1)
  /\ UNCHANGED req

Issue ==
  /\ ~req.cyc
  /\ \/ mode \in {"setup", "collect"} /\ req' = Head(todo)
     \/ mode = "poll" /\ req' = Read("STATUS")
  /\ UNCHANGED driverVars

\* A bus error is a trap of the core (RvPipeline) the program does not survive.
Then(m) == mode' = IF reply.err THEN "trapped" ELSE m

SetupAccess ==
  /\ mode = "setup" /\ answered
  /\ req' = NoRequest
  /\ todo' = Tail(todo)
  /\ Then(IF Tail(todo) = <<>> THEN "poll" ELSE mode)
  /\ UNCHANGED <<op, n, got>>

\* kyber_wait_done: one turn of the loop.
PollDone ==
  /\ mode = "poll" /\ answered /\ ~reply.dat.error /\ reply.dat.done
  /\ req' = NoRequest
  /\ Then("collect") /\ todo' = Collect(op)
  /\ UNCHANGED <<op, n, got>>

PollAgain ==
  /\ mode = "poll" /\ answered /\ ~reply.dat.error /\ ~reply.dat.done
  /\ req' = NoRequest
  /\ Then(mode)
  /\ UNCHANGED <<op, n, todo, got>>

\* KYBER_ERR_HW or KYBER_ERR_TIMEOUT: the accelerator is not told.
PollGivesUp ==
  /\ mode = "poll" /\ answered /\ (reply.dat.error \/ ~reply.dat.done)
  /\ req' = NoRequest
  /\ Then("idle")
  /\ UNCHANGED <<op, n, todo, got>>

CollectAccess ==
  /\ mode = "collect" /\ answered
  /\ req' = NoRequest
  /\ got' = IF req.we THEN got ELSE got \cup {reply.dat.tok}
  /\ todo' = Tail(todo)
  /\ Then(IF Tail(todo) = <<>> THEN "idle" ELSE mode)
  /\ UNCHANGED <<op, n>>

\* A program that does not use the driver has the bus.
OtherRuns ==
  /\ mode = "other"
  /\ AnyMaster /\ req' \in OtherRequests \cup {NoRequest}
  /\ UNCHANGED driverVars

DriverActs == \/ \E o \in {OPCODE_KEYGEN, OPCODE_ENCAPS, OPCODE_DECAPS} : Call(o)
              \/ Issue \/ SetupAccess
              \/ PollDone \/ PollAgain \/ PollGivesUp \/ CollectAccess

\* The program that uses the driver is started.  The accelerator is not reset and
\* may be in the middle of an operation.
HandOver ==
  /\ mode = "other" /\ ~req.cyc
  /\ mode' = "idle"
  /\ UNCHANGED <<req, op, n, todo, got>>

DriverNext == SlaveClock /\ (DriverActs \/ Elsewhere \/ OtherRuns \/ HandOver)
DriverSpec == DriverInit /\ [][DriverNext]_allVars

(***************************************************************************)
(* The clock runs, every stage of the core ends, and the processor reaches *)
(* its next access.                                                        *)
(***************************************************************************)
CoreRuns   == Respond /\ WrapperStep /\ CoreAdvances /\ (DriverActs \/ Elsewhere)
DriverRuns == SlaveClock /\ DriverActs
FairDriverSpec == DriverSpec /\ WF_allVars(CoreRuns) /\ WF_allVars(DriverRuns)

-----------------------------------------------------------------------------
\* kyber.c:127, 148, 170: whatever a call hands back was computed from what
\* this very call wrote, although the accelerator may have been interrupted in
\* the middle of an earlier call and left half-written regions behind.
ResultsOfThisCall == got \subseteq {n}

\* kyber.c:120, 141, 163 and 98: the accelerator refuses the driver nothing.
\* The input writes that follow the soft reset of a working core are never
\* answered by wb_err_o, which the program would not survive, and no start
\* reaches a busy core, so KYBER_ERR_HW is never returned.
NeverRefused == mode # "trapped" /\ (mode = "poll" => ~ctl.error_latched)

\* kyber_wb_slave.v:235 and 295: a completion raises the done interrupt; no
\* acknowledgement the driver makes takes it away in the same cycle (one of
\* another program, made while an operation runs, may).
CompletionRaisesIrq ==
  [][core.done /\ mode # "other"
       => ctl'.irq_status_done \/ ctl'.core_rst_pulse]_allVars

\* kyber.c:95: every call returns, also one without a timeout: no start and no
\* completion is lost.
CallReturns == mode \in {"setup", "poll", "collect"} ~> mode = "idle"
=============================================================================
