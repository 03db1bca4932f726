-------------------------- MODULE KyberDriverProofs --------------------------
(***************************************************************************)
(* Theorems about the wrapper of the accelerator for any master that keeps *)
(* one request at a time, and about the driver on top of it for any number *)
(* of calls; for any set of call identities and any duration of the core's *)
(* stages.                                                                 *)
(***************************************************************************)
EXTENDS KyberDriver, TLAPS

(***************************************************************************)
(* The wrapper: types.                                                     *)
(***************************************************************************)
LEMMA ControlOps ==
  ASSUME NEW l \in Control, NEW c \in CtrlWord
  PROVE  /\ Cleared(l) \in Control /\ SoftReset(l, c) \in Control
         /\ Opcode(l, c) \in Control /\ Start(l, c) \in Control
<1>1. \A k \in Control : Cleared(k) \in Control
  BY DEF Cleared, Control
<1>2. SoftReset(l, c) \in Control
  <2>1. [Cleared(l) EXCEPT !.core_rst_pulse = TRUE] \in Control
    BY <1>1 DEF Control
  <2>2. QED
    BY <2>1 DEF SoftReset
<1>3. Opcode(l, c) \in Control
  BY DEF Opcode, Control, CtrlWord, Opcodes, valid_opcode, OPCODE_KEYGEN,
     OPCODE_ENCAPS, OPCODE_DECAPS
<1>4. Start(l, c) \in Control
  <2>1. [Cleared(l) EXCEPT !.core_start = TRUE] \in Control
    BY <1>1 DEF Control
  <2>2. [l EXCEPT !.error_latched = TRUE] \in Control
    BY DEF Control
  <2>3. QED
    BY <2>1, <2>2 DEF Start
<1>5. QED
  BY <1>1, <1>2, <1>3, <1>4

LEMMA LatchedType == ctl \in Control /\ core \in Core => Latched \in Control
  BY DEF Latched, Control, Core

LEMMA NoWriteType == NoWrite \in WindowWrites
<1>1. NoWrite \in [{} -> Tokens]
  BY DEF NoWrite
<1>2. {} \in SUBSET Windows
  OBVIOUS
<1>3. QED
  BY <1>1, <1>2 DEF WindowWrites

LEMMA CoreResetType == CoreReset \in Core
  BY NoWriteType DEF CoreReset, Core, States, Tokens

LEMMA DataAfterCoreType == TypeOK => DataAfterCore \in [Windows -> Tokens]
<1> SUFFICES ASSUME TypeOK, NEW w \in Windows
             PROVE  (IF w \in DOMAIN core.we THEN core.we[w] ELSE data[w]) \in Tokens
  BY DEF DataAfterCore
<1>1. PICK W \in SUBSET Windows : core.we \in [W -> Tokens]
  BY DEF TypeOK, Core, WindowWrites
<1>2. data[w] \in Tokens
  BY DEF TypeOK
<1>3. QED
  BY <1>1, <1>2

LEMMA WrittenType ==
  ASSUME NEW s \in States, NEW t \in Tokens
  PROVE  Written(s, t) \in WindowWrites
<1>1. Targets(s) \in SUBSET Windows
  BY DEF Targets, Windows
<1>2. Written(s, t) \in [Targets(s) -> Tokens]
  BY DEF Written, Tokens
<1>3. QED
  BY <1>1, <1>2 DEF WindowWrites

LEMMA AccType == ASSUME TypeOK, NEW s \in States PROVE Acc(s) \in Tokens
<1>1. Source(s) \in Tokens
  BY DataAfterCoreType DEF Source, TypeOK, Windows, Tokens
<1>2. core.acc \in Tokens /\ Torn \in Tokens
  BY DEF TypeOK, Core, Tokens
<1>3. QED
  BY <1>1, <1>2 DEF Acc

LEMMA CoreType ==
  ASSUME TypeOK, CoreAdvances \/ CoreWorks
  PROVE  core' \in Core
<1>0. core \in Core /\ ctl \in Control
  BY DEF TypeOK
<1>1. CASE CoreIdle
  <2>1. FirstState(ctl.core_opcode) \in States
    BY DEF FirstState, States
  <2>2. [CoreReset EXCEPT !.busy = TRUE, !.state = FirstState(ctl.core_opcode)] \in Core
    BY <2>1, CoreResetType DEF Core
  <2>3. [core EXCEPT !.busy = FALSE, !.done = FALSE, !.we = NoWrite] \in Core
    BY <1>0, NoWriteType DEF Core
  <2>4. QED
    BY <1>1, <2>2, <2>3 DEF CoreIdle
<1>2. CASE CoreStage
  <2> DEFINE s == core.state
             m == NextState(s, ctl.core_opcode)
  <2>1. s \in States /\ m \in States
    BY <1>0 DEF NextState, States, Core
  <2>2. Acc(s) \in Tokens /\ Written(s, Acc(s)) \in WindowWrites
    BY <2>1, AccType, WrittenType
  <2>3. core.first \in BOOLEAN /\ Reads(s) \in BOOLEAN
    BY <1>0 DEF Core, Reads
  <2>4. (core.first /\ ~Reads(s)) \in BOOLEAN /\ (m = "S_IDLE") \in BOOLEAN
    BY <2>3
  <2>5. core' = [state |-> m, busy |-> TRUE, done |-> m = "S_IDLE",
                 first |-> core.first /\ ~Reads(s), acc |-> Acc(s),
                 we |-> Written(s, Acc(s))]
    BY <1>2 DEF CoreStage
  <2> HIDE DEF s, m
  <2>6. QED
    BY <2>1, <2>2, <2>4, <2>5 DEF Core
<1>3. CASE CoreInReset
  BY <1>3, CoreResetType DEF CoreInReset
<1>4. CASE CoreWorks
  <2>1. Written(core.state, Torn) \in WindowWrites
    BY <1>0, WrittenType DEF Core, Tokens
  <2>2. QED
    BY <1>0, <1>4, <2>1 DEF CoreWorks, Core
<1>5. QED
  BY <1>1, <1>2, <1>3, <1>4 DEF CoreAdvances

LEMMA RespondType ==
  ASSUME TypeOK, Respond
  PROVE  /\ pending' \in [on: BOOLEAN, err: BOOLEAN, dat: DataOut]
         /\ reply' \in [ack: BOOLEAN, err: BOOLEAN, dat: DataOut]
<1>1. NoData \in DataOut
  BY DEF NoData, DataOut, Tokens
<1>2. build_wb_read_data \in DataOut
  <2>1. core \in Core /\ ctl \in Control /\ seed \in Tokens /\ req.adr \in Addrs
    BY DEF TypeOK, Request
  <2>2. req.adr \in Windows => DataAfterCore[req.adr] \in Tokens
    BY DataAfterCoreType
  <2>3. QED
    BY <1>1, <2>1, <2>2 DEF build_wb_read_data, DataOut, Core, Control
<1>3. (~wb_addr_valid \/ wb_busy_write_blocked) \in BOOLEAN
  OBVIOUS
<1>4. QED
  BY <1>1, <1>2, <1>3 DEF Respond, TypeOK

LEMMA WrapperType ==
  ASSUME TypeOK, WrapperStep
  PROVE  ctl' \in Control /\ data' \in [Windows -> Tokens] /\ seed' \in Tokens
<1>1. /\ Latched \in Control /\ DataAfterCore \in [Windows -> Tokens]
      /\ seed \in Tokens /\ req.tok \in Tokens /\ req.bit \in BOOLEAN
      /\ req.ctrl \in CtrlWord
  BY LatchedType, DataAfterCoreType DEF TypeOK, Request
<1>2. CASE WriteControl
  BY <1>1, <1>2, ControlOps DEF WriteControl
<1>3. CASE WriteIrqEnable
  BY <1>1, <1>3 DEF WriteIrqEnable, Control
<1>4. CASE WriteIrqStatus
  BY <1>1, <1>4 DEF WriteIrqStatus, Control
<1>5. CASE WriteSeed
  BY <1>1, <1>5 DEF WriteSeed
<1>6. CASE WriteData
  BY <1>1, <1>6 DEF WriteData
<1>7. CASE WriteNothing
  BY <1>1, <1>7 DEF WriteNothing
<1>8. QED
  BY <1>2, <1>3, <1>4, <1>5, <1>6, <1>7 DEF WrapperStep

LEMMA NoRequestType == NoRequest \in Request /\ NoCtrl \in CtrlWord
  BY DEF NoRequest, NoCtrl, Request, CtrlWord, Addrs, Csrs, Windows, Tokens, Opcodes

LEMMA MasterType == TypeOK /\ AnyMaster => req' \in Request
<1> SUFFICES ASSUME TypeOK, AnyMaster PROVE req' \in Request
  OBVIOUS
<1>1. \A a \in Addrs : Read(a) \in Request
  BY NoRequestType DEF Read, Request
<1>2. \A a \in Addrs, t \in Tokens : Write(a, t) \in Request
  BY NoRequestType DEF Write, Request
<1>3. \A a \in Addrs, b \in BOOLEAN : WriteBit(a, b) \in Request
  BY NoRequestType DEF WriteBit, Request
<1>4. \A c \in CtrlWord : WriteCtrl(c) \in Request
  BY NoRequestType DEF WriteCtrl, Request, Addrs, Csrs
<1>5. /\ Windows \cup {"IRQ_ENABLE", "IRQ_STATUS", "SEED", "STATUS", "unmapped"} \subseteq Addrs
      /\ Calls \subseteq Tokens
  BY DEF Addrs, Csrs, Tokens
<1>6. AnyRequest \subseteq Request
  BY <1>1, <1>2, <1>3, <1>4, <1>5 DEF AnyRequest
<1>7. QED
  BY <1>6, NoRequestType DEF AnyMaster, TypeOK

LEMMA SlaveTypeInit == Init => TypeOK
  BY NoRequestType, CoreResetType
  DEF Init, SlaveInit, TypeOK, NoData, DataOut, Tokens, Control, Opcodes, OPCODE_KEYGEN

\* A clock in which the master's lines are any request.
LEMMA SlaveTypeClock == TypeOK /\ SlaveClock /\ req' \in Request => TypeOK'
  BY CoreType, RespondType, WrapperType DEF SlaveClock, TypeOK

LEMMA SlaveTypeStep == TypeOK /\ [Next]_vars => TypeOK'
  BY SlaveTypeClock, MasterType DEF Next, vars, slaveVars, TypeOK

\* Every register of the wrapper keeps a value its width allows; an opcode the
\* core does not implement is never latched (kyber_wb_slave.v:274).
THEOREM SlaveTypeCorrect == Spec => []TypeOK
  BY SlaveTypeInit, SlaveTypeStep, PTL DEF Spec

(***************************************************************************)
(* The inductive invariant.  What the properties themselves lack is the    *)
(* spacing of accesses: a start pulse is out only while the access that    *)
(* made it is pending, so that no other access can be accepted before busy *)
(* has risen.                                                              *)
(***************************************************************************)
Spaced ==
  /\ core.state # "S_IDLE" => core.busy
  /\ core.done => core.state = "S_IDLE" /\ core.busy
  /\ ctl.core_start => pending.on

SlaveInv == TypeOK /\ Spaced /\ DoneMeansIdle /\ StartMeetsIdleCore /\ IrqMeansDone

LEMMA SlaveInvInit == Init => SlaveInv
  BY SlaveTypeInit DEF Init, SlaveInit, SlaveInv, Spaced, DoneMeansIdle,
     StartMeetsIdleCore, IrqMeansDone, CoreReset

\* What an access makes of the control registers.
LEMMA ControlStep ==
  ASSUME SlaveInv, WrapperStep
  PROVE  /\ ctl'.core_start => wb_fire /\ ~core.busy /\ ~ctl'.done_latched
         /\ ctl'.done_latched => ctl.done_latched \/ core.done
         /\ ctl'.irq_status_done => ctl'.done_latched
<1>0. TypeOK /\ ctl \in Control /\ core \in Core /\ Latched \in Control
  BY LatchedType DEF SlaveInv, TypeOK
<1>1. /\ Latched.core_start = FALSE
      /\ Latched.done_latched = (ctl.done_latched \/ core.done)
      /\ Latched.irq_status_done = (ctl.irq_status_done \/ core.done)
  BY <1>0 DEF Latched, Control
<1>2. Latched.irq_status_done => Latched.done_latched
  BY <1>1 DEF SlaveInv, IrqMeansDone
<1>3. CASE WriteControl
  <2> DEFINE c == req.ctrl
             r == SoftReset(Latched, c)
             o == Opcode(r, c)
  <2>0. c \in CtrlWord /\ r \in Control /\ o \in Control
    BY <1>0, ControlOps DEF TypeOK, Request
  <2>1. /\ r.core_start = FALSE
        /\ r.done_latched => ctl.done_latched \/ core.done
        /\ r.irq_status_done => r.done_latched
    BY <1>0, <1>1, <1>2 DEF SoftReset, Cleared, Control
  <2> HIDE DEF r
  <2>2. /\ o.core_start = FALSE
        /\ o.done_latched = r.done_latched /\ o.irq_status_done = r.irq_status_done
    BY <2>0, <2>1 DEF Opcode, Control
  <2>3. ctl' = Start(o, c)
    BY <1>3 DEF WriteControl, r
  <2> HIDE DEF o
  <2>4. CASE start_accepted(c)
    <3>1. ctl' = [Cleared(o) EXCEPT !.core_start = TRUE]
      BY <2>3, <2>4 DEF Start
    <3>2. ctl'.done_latched = FALSE /\ ctl'.irq_status_done = FALSE
      BY <2>0, <3>1 DEF Cleared, Control
    <3>3. wb_fire /\ ~core.busy
      BY <1>3, <2>4 DEF WriteControl, accepted, start_accepted
    <3>4. QED
      BY <3>2, <3>3
  <2>5. CASE ~start_accepted(c)
    <3>1. /\ ctl'.core_start = o.core_start /\ ctl'.done_latched = o.done_latched
          /\ ctl'.irq_status_done = o.irq_status_done
      BY <2>0, <2>3, <2>5 DEF Start, Control
    <3>2. QED
      BY <2>1, <2>2, <3>1
  <2>6. QED
    BY <2>4, <2>5
<1>4. CASE WriteIrqEnable
  BY <1>0, <1>1, <1>2, <1>4 DEF WriteIrqEnable, Control
<1>5. CASE WriteIrqStatus
  BY <1>0, <1>1, <1>2, <1>5 DEF WriteIrqStatus, Control
<1>6. CASE WriteSeed \/ WriteData \/ WriteNothing
  BY <1>1, <1>2, <1>6 DEF WriteSeed, WriteData, WriteNothing
<1>7. QED
  BY <1>3, <1>4, <1>5, <1>6 DEF WrapperStep

\* What a cycle makes of the core.
LEMMA CoreStep ==
  ASSUME SlaveInv, CoreAdvances \/ CoreWorks
  PROVE  /\ core'.state # "S_IDLE" => core'.busy
         /\ core'.done => core'.state = "S_IDLE" /\ core'.busy
         /\ core.state = "S_IDLE" /\ ~ctl.core_start
              => core'.state = "S_IDLE" /\ ~core'.busy /\ ~core'.done
<1>0. core \in Core
  BY DEF SlaveInv, TypeOK
<1>1. CASE CoreIdle
  BY <1>0, <1>1 DEF CoreIdle, CoreReset, Core
<1>2. CASE CoreStage
  BY <1>2 DEF CoreStage
<1>3. CASE CoreInReset
  BY <1>3 DEF CoreInReset, CoreReset
<1>4. CASE CoreWorks
  BY <1>0, <1>4 DEF CoreWorks, Core, SlaveInv, Spaced
<1>5. QED
  BY <1>1, <1>2, <1>3, <1>4 DEF CoreAdvances

LEMMA SlaveInvClock == SlaveInv /\ SlaveClock /\ req' \in Request => SlaveInv'
<1> SUFFICES ASSUME SlaveInv, SlaveClock, req' \in Request PROVE SlaveInv'
  OBVIOUS
<1>1. Respond /\ WrapperStep /\ (CoreAdvances \/ CoreWorks)
  BY DEF SlaveClock
<1>2. ctl'.core_start => pending'.on
  BY <1>1, ControlStep DEF Respond
<1>3. Spaced'
  BY <1>1, <1>2, CoreStep DEF Spaced
<1>4. DoneMeansIdle'
  <2>1. ASSUME ctl'.done_latched
        PROVE  ~ctl'.core_start /\ core.state = "S_IDLE" /\ ~ctl.core_start
    BY <1>1, <2>1, ControlStep DEF SlaveInv, Spaced, DoneMeansIdle, StartMeetsIdleCore
  <2>2. QED
    BY <1>1, <2>1, CoreStep DEF DoneMeansIdle
<1>5. StartMeetsIdleCore'
  <2>1. ASSUME ctl'.core_start
        PROVE  core.state = "S_IDLE" /\ ~ctl.core_start
    BY <1>1, <2>1, ControlStep DEF SlaveInv, Spaced, wb_fire
  <2>2. QED
    BY <1>1, <2>1, CoreStep DEF StartMeetsIdleCore
<1>6. IrqMeansDone'
  BY <1>1, ControlStep DEF IrqMeansDone
<1>7. TypeOK'
  BY SlaveTypeClock DEF SlaveInv
<1>8. QED
  BY <1>3, <1>4, <1>5, <1>6, <1>7 DEF SlaveInv

LEMMA SlaveInvStep == SlaveInv /\ [Next]_vars => SlaveInv'
<1> SUFFICES ASSUME SlaveInv, [Next]_vars PROVE SlaveInv'
  OBVIOUS
<1>1. CASE Next
  BY <1>1, SlaveInvClock, MasterType DEF Next, SlaveInv
<1>2. CASE UNCHANGED vars
  BY <1>2, SlaveTypeStep DEF vars, slaveVars, SlaveInv, Spaced, DoneMeansIdle,
     StartMeetsIdleCore, IrqMeansDone
<1>3. QED
  BY <1>1, <1>2

\* No completion is latched while an operation is starting or running.
THEOREM DoneIsIdle == Spec => []DoneMeansIdle
<1>1. SlaveInv => DoneMeansIdle
  BY DEF SlaveInv
<1>2. QED
  BY <1>1, SlaveInvInit, SlaveInvStep, PTL DEF Spec

\* No start pulse is lost to a core that is still working.
THEOREM StartIsSeen == Spec => []StartMeetsIdleCore
<1>1. SlaveInv => StartMeetsIdleCore
  BY DEF SlaveInv
<1>2. QED
  BY <1>1, SlaveInvInit, SlaveInvStep, PTL DEF Spec

\* The interrupt is never up without the done bit (tb_kyber_wb_slave.sv:229).
THEOREM IrqImpliesDone == Spec => []IrqMeansDone
<1>1. SlaveInv => IrqMeansDone
  BY DEF SlaveInv
<1>2. QED
  BY <1>1, SlaveInvInit, SlaveInvStep, PTL DEF Spec

\* The step of the next theorem, with any lines of the master.
LEMMA InputsHeldClock ==
  ASSUME SlaveInv, SlaveClock, core.state # "S_IDLE" \/ ctl.core_start
  PROVE  seed' = seed /\ data' = DataAfterCore
<1>1. ~accepted \/ req.adr \notin Windows \cup {"SEED"}
  BY DEF SlaveInv, Spaced, accepted, wb_fire, wb_busy_write_blocked
<1>2. WrapperStep /\ ~WriteSeed /\ ~WriteData
  BY <1>1 DEF SlaveClock, WriteSeed, WriteData
<1>3. QED
  BY <1>2 DEF WrapperStep, WriteControl, WriteIrqEnable, WriteIrqStatus, WriteNothing

\* No master changes the inputs of an operation from its start pulse to its end.
THEOREM InputsAreHeld == Spec => InputsHeldWhileBusy
<1>1. SlaveInv /\ [Next]_vars
        => [core.state # "S_IDLE" \/ ctl.core_start
              => seed' = seed /\ data' = DataAfterCore]_vars
  BY InputsHeldClock DEF Next
<1>2. QED
  BY <1>1, SlaveInvInit, SlaveInvStep, PTL DEF Spec, InputsHeldWhileBusy

(***************************************************************************)
(* The driver: its inductive invariant.                                    *)
(***************************************************************************)
\* An access is held until it is answered: accepted in its first clock, ready
\* in the second, answered in the third.
Lines ==
  /\ pending.on => req.cyc /\ ~reply.ack
  /\ reply.ack => req.cyc
made == pending.on \/ reply.ack        \* the current access has had its effect

\* The operations, and the regions a call writes and those it reads back.
Operations == {OPCODE_KEYGEN, OPCODE_ENCAPS, OPCODE_DECAPS}
InputsOf(o) == CASE o = OPCODE_KEYGEN -> {"SEED"}
                 [] o = OPCODE_ENCAPS -> {"PK", "SEED"}
                 [] o = OPCODE_DECAPS -> {"SK", "CT"}
OutputsOf(o) == CASE o = OPCODE_KEYGEN -> {"PK", "SK"}
                  [] o = OPCODE_ENCAPS -> {"CT", "SS"}
                  [] o = OPCODE_DECAPS -> {"SS"}
Holds(a, k) == IF a = "SEED" THEN seed = k ELSE DataAfterCore[a] = k

\* The r-th last access of a call's setup.
SetupLength(o) == IF o = OPCODE_KEYGEN THEN 3 ELSE 4
InputAt(o, r) == IF r = 2 THEN IF o = OPCODE_DECAPS THEN "CT" ELSE "SEED"
                 ELSE IF o = OPCODE_ENCAPS THEN "PK" ELSE "SK"
SetupAt(o, k, r) == IF r = 1 THEN StartOp(o)
                    ELSE IF r = SetupLength(o) THEN Reset ELSE Write(InputAt(o, r), k)
CollectRequests(o) == {AckIrq} \cup {Read(w) : w \in OutputsOf(o)}

DriverTypes ==
  /\ mode \in Modes
  /\ op \in Operations
  /\ n \in 0 .. MaxCalls
  /\ mode \in {"setup", "poll", "collect"} => n \in Calls
  /\ mode = "setup" =>
       /\ todo \in Seq(Request) /\ Len(todo) \in 1 .. SetupLength(op)
       /\ \A i \in 1 .. Len(todo) : todo[i] = SetupAt(op, n, Len(todo) + 1 - i)
       /\ req.cyc => req = SetupAt(op, n, Len(todo))
  /\ mode = "poll" /\ req.cyc => req = Read("STATUS")
  /\ mode = "collect" =>
       /\ todo \in Seq(CollectRequests(op)) /\ todo # <<>>
       /\ req.cyc => req \in CollectRequests(op)
  /\ mode = "idle" => ~req.cyc

\* The core is idle and has nothing left to write.
Quiet ==
  /\ core.state = "S_IDLE" /\ ~core.busy /\ ~core.done /\ core.we = NoWrite
  /\ ~ctl.core_rst_pulse

\* From the soft reset to the start: the r-th last access is current.
Prepared(o, k, r) ==
  /\ ~ctl.error_latched /\ ~ctl.core_start
  /\ IF r = SetupLength(o) /\ pending.on THEN ctl.core_rst_pulse ELSE Quiet
  /\ \A i \in 2 .. SetupLength(o) - 1 : i > r \/ (i = r /\ made) => Holds(InputAt(o, i), k)

\* The stages of an operation on the data k.
StatesOf(o) ==
  CASE o = OPCODE_KEYGEN -> {"S_KG_LOAD_SEED", "S_KG_PACK", "S_KG_HASH_PK", "S_KG_WRITE_REST"}
    [] o = OPCODE_ENCAPS -> {"S_ENC_READ_PK", "S_KG_HASH_PK", "S_ENC_LOAD_COINS",
                             "S_ENC_PACK", "S_ENC_WRITE_SS"}
    [] o = OPCODE_DECAPS -> {"S_DEC_READ", "S_DEC_READ_REST", "S_DEC_READ_CT", "S_DEC_PACK"}
Stage(o, k) ==
  /\ core.state \in StatesOf(o)
  /\ IF core.first THEN core.state = FirstState(o) ELSE core.acc = k
  /\ core.state = FirstState(o) => core.first
  /\ o = OPCODE_KEYGEN /\ core.state \in {"S_KG_HASH_PK", "S_KG_WRITE_REST"} => Holds("PK", k)
  /\ core.state = "S_ENC_WRITE_SS" => Holds("CT", k)
Results(o, k) == \A w \in OutputsOf(o) : Holds(w, k)

\* From the start pulse on: the operation is started, in a stage, in its last
\* clock, or complete.
Operating(o, k) ==
  /\ ctl.core_opcode = o /\ ~ctl.core_rst_pulse /\ ~ctl.error_latched
  /\ \A a \in InputsOf(o) : Holds(a, k)
  /\ \/ ctl.core_start /\ Quiet /\ ~ctl.done_latched
     \/ ~ctl.core_start /\ core.state # "S_IDLE" /\ ~ctl.done_latched /\ Stage(o, k)
     \/ ~ctl.core_start /\ core.state = "S_IDLE" /\ core.done /\ ~ctl.done_latched /\ Results(o, k)
     \/ ~ctl.core_start /\ Quiet /\ ctl.done_latched /\ Results(o, k)

\* The r-th last access of the setup is current.
SettingUp(o, k, r) ==
  \/ r = SetupLength(o) /\ ~made
  \/ (r < SetupLength(o) \/ made) /\ (r > 1 \/ ~made) /\ Prepared(o, k, r)
  \/ r = 1 /\ made /\ Operating(o, k)

\* What an access has returned, or is about to.
Answers(on, err, dat) ==
  /\ on /\ mode \in {"setup", "poll", "collect"} => ~err
  /\ on /\ mode = "poll" => ~dat.error /\ (dat.done => ctl.done_latched)
  /\ on /\ mode = "collect" /\ ~req.we => dat.tok = n

AnswersInv == /\ Answers(pending.on, pending.err, pending.dat)
              /\ Answers(reply.ack, reply.err, reply.dat)

\* The call and the accelerator agree on what is being done with which data.
CallInv ==
  /\ mode # "trapped"
  /\ got \subseteq {n}
  /\ mode = "collect" => ctl.done_latched
  /\ \A o \in Operations, k \in Calls : op = o /\ n = k =>
       /\ \A r \in 1 .. 4 : mode = "setup" /\ Len(todo) = r => SettingUp(o, k, r)
       /\ mode \in {"poll", "collect"} => Operating(o, k)

DriverInv == SlaveInv /\ Lines /\ DriverTypes /\ CallInv /\ AnswersInv

-----------------------------------------------------------------------------
(* The core and the data window under the driver's accesses. *)

\* A clock in which no access writes a register, a seed or the window.
LEMMA LatchClock ==
  ASSUME SlaveInv, WrapperStep, ~accepted \/ req.adr = "IRQ_STATUS"
  PROVE  /\ seed' = seed /\ data' = DataAfterCore
         /\ ctl'.core_opcode = ctl.core_opcode /\ ~ctl'.core_start
         /\ ~ctl'.core_rst_pulse /\ ctl'.error_latched = ctl.error_latched
         /\ ctl'.done_latched = (ctl.done_latched \/ core.done)
<1>1. ctl \in Control /\ core \in Core
  BY DEF SlaveInv, TypeOK
<1>2. WriteIrqStatus \/ WriteNothing
  BY DEF WrapperStep, WriteControl, WriteIrqEnable, WriteSeed, WriteData, Windows
<1>3. /\ Latched.core_opcode = ctl.core_opcode /\ ~Latched.core_start
      /\ ~Latched.core_rst_pulse /\ Latched.error_latched = ctl.error_latched
      /\ Latched.done_latched = (ctl.done_latched \/ core.done)
      /\ Latched \in Control
  BY <1>1, LatchedType DEF Latched, Control
<1>4. QED
  BY <1>2, <1>3 DEF WriteIrqStatus, WriteNothing, Control

\* What the window holds after a clock in which only the core writes it.
LEMMA HeldAfter ==
  ASSUME TypeOK', data' = DataAfterCore, seed' = seed,
         NEW a \in Windows \cup {"SEED"}, NEW k,
         a \in DOMAIN core'.we => core'.we[a] = k,
         a \notin DOMAIN core'.we => Holds(a, k), a # "SEED" \/ Holds(a, k)
  PROVE  Holds(a, k)'
<1>1. CASE a = "SEED"
  BY <1>1 DEF Holds
<1>2. CASE a \in Windows
  <2>1. DataAfterCore' = [w \in Windows |-> IF w \in DOMAIN core'.we THEN core'.we[w]
                                            ELSE data'[w]]
    BY DEF DataAfterCore
  <2>2. a # "SEED"
    BY <1>2 DEF Windows
  <2>3. QED
    BY <1>2, <2>1, <2>2 DEF Holds
<1>3. QED
  BY <1>1, <1>2

\* An operation goes on with the same data, whatever the driver reads meanwhile.
LEMMA OperatingClock ==
  ASSUME SlaveInv, SlaveClock, TypeOK', NEW o \in Operations, NEW k, Operating(o, k),
         ~accepted \/ req.adr = "IRQ_STATUS"
  PROVE  Operating(o, k)' /\ (ctl.done_latched => ctl'.done_latched)
<1> USE DEF OPCODE_KEYGEN, OPCODE_ENCAPS, OPCODE_DECAPS
<1>1. /\ seed' = seed /\ data' = DataAfterCore
      /\ ctl'.core_opcode = o /\ ~ctl'.core_start
      /\ ~ctl'.core_rst_pulse /\ ~ctl'.error_latched
      /\ ctl'.done_latched = (ctl.done_latched \/ core.done)
  BY LatchClock DEF SlaveClock, Operating
<1>2. core \in Core /\ ctl \in Control /\ core' \in Core /\ ctl' \in Control
  BY DEF SlaveInv, TypeOK
<1>3. InputsOf(o) \subseteq Windows \cup {"SEED"} /\ OutputsOf(o) \subseteq Windows
  BY DEF Operations, InputsOf, OutputsOf, Windows
<1>4. CoreIdle \/ CoreStage \/ CoreWorks
  BY DEF SlaveClock, CoreAdvances, CoreInReset, Operating
<1>5. CASE core.state = "S_IDLE"
  <2>1. /\ core'.we = NoWrite /\ ~core'.done
        /\ core' = IF ctl.core_start
                     THEN [CoreReset EXCEPT !.busy = TRUE, !.state = FirstState(o)]
                     ELSE [core EXCEPT !.busy = FALSE, !.done = FALSE, !.we = NoWrite]
    BY <1>2, <1>4, <1>5 DEF CoreIdle, CoreStage, CoreWorks, CoreReset, Core, Operating
  <2>2. \A a \in Windows \cup {"SEED"} : Holds(a, k) => Holds(a, k)'
    BY <1>1, <2>1, HeldAfter DEF NoWrite
  <2>3. \A a \in InputsOf(o) : Holds(a, k)'
    BY <1>3, <2>2 DEF Operating
  <2>4. CASE ctl.core_start
    <3>1. /\ core'.state = FirstState(o) /\ core'.state # "S_IDLE" /\ core'.first
          /\ core'.state \in StatesOf(o)
      BY <2>1, <2>4 DEF CoreReset, FirstState, StatesOf, Operations
    <3>2. Stage(o, k)'
      BY <3>1 DEF Stage, FirstState
    <3>3. ~ctl'.done_latched
      BY <1>1, <2>4 DEF Operating, Quiet
    <3>4. QED
      BY <1>1, <2>3, <3>1, <3>2, <3>3, <2>4 DEF Operating
  <2>5. CASE ~ctl.core_start
    <3>1. Results(o, k)
      BY <1>5, <2>5 DEF Operating
    <3>2. Results(o, k)'
      BY <1>3, <2>2, <3>1 DEF Results
    <3>3. Quiet'
      BY <1>1, <1>2, <1>5, <2>1, <2>5 DEF Quiet, Core
    <3>4. ctl'.done_latched
      BY <1>1, <1>5, <2>5 DEF Operating
    <3>5. QED
      BY <1>1, <2>3, <3>2, <3>3, <3>4 DEF Operating
  <2>6. QED
    BY <2>4, <2>5
<1>6. CASE core.state # "S_IDLE"
  <2> DEFINE s == core.state
  <2>1. s \in StatesOf(o) /\ Stage(o, k) /\ ~ctl.done_latched /\ ~core.done
    <3>1. Stage(o, k) /\ ~ctl.done_latched
      BY <1>6 DEF Operating, Quiet
    <3>2. ~core.done
      BY <1>6 DEF SlaveInv, Spaced
    <3>3. QED
      BY <3>1, <3>2 DEF Stage
  <2>2. ~ctl'.done_latched
    BY <1>1, <2>1
  <2>3. \A t \in Tokens : DOMAIN Written(s, t) = Targets(s)
    BY DEF Written
  <2>4. InputsOf(o) \cap Targets(s) = {}
    BY <2>1 DEF InputsOf, Targets, StatesOf, Operations
  <2>5. CASE CoreWorks
    <3>1. core' = [core EXCEPT !.we = Written(s, Torn)]
      BY <2>5 DEF CoreWorks
    <3>2. /\ core'.we = Written(s, Torn) /\ core'.state = s
          /\ core'.first = core.first /\ core'.acc = core.acc
      BY <1>2, <3>1 DEF Core
    <3>3. DOMAIN core'.we = Targets(s)
      BY <3>2, <2>3 DEF Tokens
    <3>4. \A a \in Windows \cup {"SEED"} : a \notin Targets(s) /\ Holds(a, k) => Holds(a, k)'
      BY <1>1, <3>3, HeldAfter
    <3>5. \A a \in InputsOf(o) : Holds(a, k)'
      BY <1>3, <2>4, <3>4 DEF Operating
    <3>6. Stage(o, k)'
      <4>1. o = OPCODE_KEYGEN /\ s \in {"S_KG_HASH_PK", "S_KG_WRITE_REST"} => Holds("PK", k)'
        BY <2>1, <3>4 DEF Stage, Targets, Windows
      <4>2. s = "S_ENC_WRITE_SS" => Holds("CT", k)'
        BY <2>1, <3>4 DEF Stage, Targets, Windows
      <4>3. QED
        BY <2>1, <3>2, <4>1, <4>2 DEF Stage
    <3>7. QED
      BY <1>1, <1>6, <2>2, <3>2, <3>5, <3>6 DEF Operating
  <2>6. CASE CoreStage
    <3> DEFINE m == NextState(s, o)
    <3>1. core' = [state |-> m, busy |-> TRUE, done |-> m = "S_IDLE",
                   first |-> core.first /\ ~Reads(s), acc |-> Acc(s),
                   we |-> Written(s, Acc(s))]
      BY <2>6 DEF CoreStage, Operating
    <3>2. /\ core'.state = m /\ core'.busy /\ core'.done = (m = "S_IDLE")
          /\ core'.first = (core.first /\ ~Reads(s)) /\ core'.acc = Acc(s)
          /\ core'.we = Written(s, Acc(s))
      BY <3>1
    <3>3. ~core'.first
      BY <2>1, <3>2 DEF Stage, Reads, FirstState, Operations
    <3>4. Reads(s) => Source(s) = k
      BY <2>1 DEF Reads, Source, Operating, Holds, InputsOf, StatesOf, Stage, Operations
    <3>5. Acc(s) = k
      BY <2>1, <3>4 DEF Acc, Stage, Reads, FirstState, Operations
    <3>6. /\ DOMAIN core'.we = Targets(s)
          /\ \A w \in Targets(s) : core'.we[w] = IF s = "S_KG_PACK" /\ w = "SK" THEN Torn ELSE k
      BY <3>2, <3>5 DEF Written
    <3>7. \A a \in Windows \cup {"SEED"} :
             a \notin Targets(s) /\ Holds(a, k) => Holds(a, k)'
      BY <1>1, <3>6, HeldAfter
    <3>8. \A a \in Targets(s) : a # "SK" \/ s # "S_KG_PACK" => Holds(a, k)'
      <4> SUFFICES ASSUME NEW a \in Targets(s), a # "SK" \/ s # "S_KG_PACK"
                   PROVE  Holds(a, k)'
        OBVIOUS
      <4>1. a \in Windows
        BY DEF Targets, Windows
      <4>2. QED
        BY <1>1, <3>6, <4>1, HeldAfter DEF Windows
    <3>9. \A a \in InputsOf(o) : Holds(a, k)'
      BY <1>3, <2>4, <3>7 DEF Operating
    <3>10. m \in StatesOf(o) \/ m = "S_IDLE"
      BY <2>1 DEF NextState, StatesOf, Operations
    <3>11. CASE m # "S_IDLE"
      <4>1. m # FirstState(o)
        BY <2>1 DEF NextState, FirstState, StatesOf, Operations
      <4>2. o = OPCODE_KEYGEN /\ m \in {"S_KG_HASH_PK", "S_KG_WRITE_REST"} => Holds("PK", k)'
        BY <2>1, <3>7, <3>8 DEF NextState, StatesOf, Operations, Targets, Stage, Windows
      <4>3. m = "S_ENC_WRITE_SS" => Holds("CT", k)'
        BY <2>1, <3>8 DEF NextState, StatesOf, Operations, Targets
      <4>4. Stage(o, k)'
        BY <3>2, <3>3, <3>5, <3>10, <3>11, <4>1, <4>2, <4>3 DEF Stage
      <4>5. QED
        BY <1>1, <2>2, <3>2, <3>9, <3>11, <4>4 DEF Operating
    <3>12. CASE m = "S_IDLE"
      <4>1. Results(o, k)'
        BY <2>1, <3>7, <3>8, <3>12
           DEF NextState, StatesOf, Operations, Targets, Stage, Windows, Results, OutputsOf
      <4>2. QED
        BY <1>1, <2>2, <3>2, <3>9, <3>12, <4>1 DEF Operating
    <3>13. QED
      BY <3>11, <3>12
  <2>7. QED
    BY <1>4, <1>6, <2>5, <2>6 DEF CoreIdle
<1>7. QED
  BY <1>1, <1>5, <1>6

\* The three clocks of an access, and those between two.
LEMMA AccessClock ==
  ASSUME TypeOK, Lines, Respond
  PROVE  /\ wb_fire <=> req.cyc /\ ~made
         /\ pending'.on <=> wb_fire
         /\ reply'.ack <=> pending.on
         /\ pending.on => reply'.err = pending.err /\ reply'.dat = pending.dat
         /\ wb_fire => /\ pending'.err = (~wb_addr_valid \/ wb_busy_write_blocked)
                       /\ pending'.dat = IF req.we THEN NoData ELSE build_wb_read_data
         /\ made' <=> wb_fire \/ pending.on
         /\ accepted => wb_fire
<1>1. /\ wb_fire <=> req.cyc /\ ~made
      /\ pending'.on <=> wb_fire
      /\ reply'.ack <=> pending.on
  BY DEF TypeOK, Lines, Respond, wb_fire, made
<1>2. pending.on => reply'.err = pending.err /\ reply'.dat = pending.dat
  BY DEF Respond
<1>3. wb_fire => /\ pending'.err = (~wb_addr_valid \/ wb_busy_write_blocked)
                 /\ pending'.dat = IF req.we THEN NoData ELSE build_wb_read_data
  BY DEF Respond
<1>4. QED
  BY <1>1, <1>2, <1>3 DEF made, accepted

LEMMA LinesClock ==
  ASSUME TypeOK, Lines, Respond, answered => ~req'.cyc, req.cyc /\ ~answered => req' = req
  PROVE  Lines'
BY AccessClock DEF Lines, answered, wb_fire

LEMMA QuietClock ==
  ASSUME SlaveInv, SlaveClock, ctl.core_rst_pulse \/ (Quiet /\ ~ctl.core_start)
  PROVE  /\ core'.state = "S_IDLE" /\ ~core'.busy /\ ~core'.done /\ core'.we = NoWrite
         /\ \A a \in Windows : \A k : data'[a] = k => Holds(a, k)'
<1>1. core \in Core
  BY DEF SlaveInv, TypeOK
<1>2. CoreInReset \/ (CoreIdle /\ ~ctl.core_start /\ ~ctl.core_rst_pulse)
  <2>1. CoreIdle \/ CoreStage \/ CoreInReset \/ CoreWorks
    BY DEF SlaveClock, CoreAdvances
  <2>2. ctl.core_rst_pulse => CoreInReset
    BY <2>1 DEF CoreIdle, CoreStage, CoreWorks
  <2>3. ~ctl.core_rst_pulse => CoreIdle /\ ~ctl.core_start
    BY <2>1 DEF CoreInReset, CoreStage, CoreWorks, Quiet
  <2>4. ctl.core_rst_pulse \in BOOLEAN
    BY DEF SlaveInv, TypeOK, Control
  <2>5. QED
    BY <2>2, <2>3, <2>4
<1>3. /\ core'.state = "S_IDLE" /\ ~core'.busy /\ ~core'.done /\ core'.we = NoWrite
  <2>1. CASE CoreInReset
    BY <2>1 DEF CoreInReset, CoreReset
  <2>2. CASE CoreIdle /\ ~ctl.core_start
    BY <1>1, <2>2 DEF CoreIdle, Core
  <2>3. QED
    BY <1>2, <2>1, <2>2
<1>4. DataAfterCore' = [w \in Windows |-> IF w \in DOMAIN core'.we THEN core'.we[w] ELSE data'[w]]
  BY DEF DataAfterCore
<1>5. DOMAIN core'.we = {}
  BY <1>3 DEF NoWrite
<1>6. QED
  BY <1>3, <1>4, <1>5 DEF Holds, Windows

\* A write of CTRL by the driver: the soft reset, and the start of an idle core.
LEMMA ControlClock ==
  ASSUME WrapperStep, wb_fire, NEW c, req = WriteCtrl(c)
  PROVE  /\ ctl' = Start(Opcode(SoftReset(Latched, c), c), c)
         /\ seed' = seed /\ data' = DataAfterCore
<1>1. req.we /\ req.adr = "CTRL" /\ req.ctrl = c
  BY DEF WriteCtrl, NoRequest
<1>2. WriteControl
  BY <1>1 DEF WrapperStep, WriteIrqEnable, WriteIrqStatus, WriteSeed, WriteData,
     WriteNothing, accepted, wb_addr_valid, wb_busy_write_blocked, Windows
<1>3. QED
  BY <1>1, <1>2 DEF WriteControl

LEMMA ResetClock ==
  ASSUME SlaveInv, WrapperStep, wb_fire, req = Reset
  PROVE  ctl'.core_rst_pulse /\ ~ctl'.core_start /\ ~ctl'.error_latched
<1> DEFINE c == [NoCtrl EXCEPT !.reset = TRUE]
<1>1. c.reset = TRUE /\ c.start = FALSE /\ c.op = 0
  BY DEF NoCtrl
<1>2. ctl' = Start(Opcode(SoftReset(Latched, c), c), c)
  BY ControlClock DEF Reset
<1> HIDE DEF c
<1>3. ctl' = [Cleared(Latched) EXCEPT !.core_rst_pulse = TRUE]
  BY <1>1, <1>2 DEF Start, Opcode, SoftReset, start_accepted, valid_opcode,
     OPCODE_KEYGEN, OPCODE_ENCAPS, OPCODE_DECAPS
<1>4. Latched \in Control /\ ~Latched.core_start
  BY LatchedType DEF Latched, SlaveInv, TypeOK, Control
<1>5. QED
  BY <1>3, <1>4 DEF Cleared, Control

LEMMA StartClock ==
  ASSUME SlaveInv, WrapperStep, wb_fire, NEW o \in Operations, req = StartOp(o),
         Quiet, ~ctl.core_start
  PROVE  /\ ctl'.core_start /\ ctl'.core_opcode = o /\ ~ctl'.core_rst_pulse
         /\ ~ctl'.error_latched /\ ~ctl'.done_latched
         /\ seed' = seed /\ data' = DataAfterCore
<1> USE DEF OPCODE_KEYGEN, OPCODE_ENCAPS, OPCODE_DECAPS
<1> DEFINE c == [NoCtrl EXCEPT !.start = TRUE, !.op = o]
           l == [Latched EXCEPT !.core_opcode = o]
<1>1. c.reset = FALSE /\ c.start = TRUE /\ c.op = o
  BY DEF NoCtrl
<1>2. ctl' = Start(Opcode(SoftReset(Latched, c), c), c) /\ seed' = seed /\ data' = DataAfterCore
  BY ControlClock DEF StartOp
<1> HIDE DEF c
<1>3. valid_opcode(o) /\ start_accepted(c)
  BY <1>1 DEF valid_opcode, start_accepted, Operations, Quiet
<1>4. ctl' = [Cleared(l) EXCEPT !.core_start = TRUE]
  BY <1>1, <1>2, <1>3 DEF Start, Opcode, SoftReset
<1>5. l \in Control /\ l.core_opcode = o /\ ~l.core_rst_pulse
  <2>1. Latched \in Control /\ Latched.core_rst_pulse = FALSE
    BY LatchedType DEF Latched, SlaveInv, TypeOK, Control
  <2>2. QED
    BY <2>1 DEF Control, Operations, Opcodes
<1> HIDE DEF l
<1>6. QED
  BY <1>2, <1>4, <1>5 DEF Cleared, Control

\* An input write to an idle core takes effect.
LEMMA InputClock ==
  ASSUME SlaveInv, WrapperStep, wb_fire, Quiet, ~ctl.core_start,
         NEW a \in {"SEED", "PK", "SK", "CT"}, NEW k, req = Write(a, k)
  PROVE  /\ IF a = "SEED" THEN seed' = k /\ data' = data
            ELSE seed' = seed /\ data' = [data EXCEPT ![a] = k]
         /\ ~ctl'.core_start /\ ~ctl'.core_rst_pulse
         /\ ctl'.error_latched = ctl.error_latched
         /\ ~(~wb_addr_valid \/ wb_busy_write_blocked)
<1>1. req.we /\ req.adr = a /\ req.tok = k
  BY DEF Write, NoRequest
<1>2. accepted /\ wb_addr_valid /\ ~wb_busy_write_blocked
  BY <1>1 DEF accepted, wb_addr_valid, wb_busy_write_blocked, Quiet
<1>3. IF a = "SEED" THEN WriteSeed ELSE WriteData
  BY <1>1, <1>2 DEF WrapperStep, WriteControl, WriteIrqEnable, WriteIrqStatus, WriteSeed,
     WriteData, WriteNothing, Windows
<1>4. DataAfterCore = data
  BY DEF DataAfterCore, Quiet, NoWrite, SlaveInv, TypeOK
<1>5. /\ ~Latched.core_start /\ ~Latched.core_rst_pulse
      /\ Latched.error_latched = ctl.error_latched
  BY DEF Latched, SlaveInv, TypeOK, Control
<1>6. QED
  BY <1>1, <1>2, <1>3, <1>4, <1>5 DEF WriteSeed, WriteData

-----------------------------------------------------------------------------
(* Setting up a call. *)

\* Inputs written stay written while the core is quiet.
LEMMA HeldWhenQuiet ==
  ASSUME SlaveInv, SlaveClock, Quiet, ~ctl.core_start, seed' = seed, data' = DataAfterCore,
         NEW a \in {"SEED", "PK", "SK", "CT"}, NEW k, Holds(a, k)
  PROVE  Holds(a, k)'
BY QuietClock DEF Holds, Windows

\* A clock of the setup: the access goes on, or the next one begins.
LEMMA SetupClock ==
  ASSUME SlaveInv, SlaveClock, TypeOK', Lines, NEW o \in Operations, NEW k,
         NEW r \in 1 .. SetupLength(o), SettingUp(o, k, r),
         req.cyc => req = SetupAt(o, k, r)
  PROVE  /\ ~reply.ack => SettingUp(o, k, r)'
         /\ reply.ack /\ r > 1 => SettingUp(o, k, r - 1)'
         /\ reply.ack /\ r = 1 => Operating(o, k)'
         /\ wb_fire => ~pending'.err
<1> USE DEF OPCODE_KEYGEN, OPCODE_ENCAPS, OPCODE_DECAPS
<1>1. /\ WrapperStep /\ Respond /\ TypeOK
      /\ SetupLength(o) \in {3, 4} /\ r \in 1 .. 4
      /\ \A i \in 2 .. SetupLength(o) - 1 : InputAt(o, i) \in {"SEED", "PK", "SK", "CT"}
  BY DEF SlaveClock, SlaveInv, SetupLength, InputAt
<1>2. /\ wb_fire <=> req.cyc /\ ~made
      /\ reply'.ack <=> pending.on
      /\ pending'.on <=> wb_fire
      /\ wb_fire => pending'.err = (~wb_addr_valid \/ wb_busy_write_blocked)
      /\ made' <=> wb_fire \/ pending.on
      /\ reply.ack => made /\ ~pending.on /\ ~made'
      /\ accepted => wb_fire
  BY <1>1, AccessClock DEF made, Lines
<1>3. ~wb_fire => /\ seed' = seed /\ data' = DataAfterCore
                  /\ ~ctl'.core_start /\ ~ctl'.core_rst_pulse
                  /\ ctl'.error_latched = ctl.error_latched
  BY <1>1, <1>2, LatchClock
<1>4. CASE r = SetupLength(o) /\ ~made
  <2>1. CASE ~wb_fire
    <3>1. ~made' /\ ~reply.ack
      BY <1>2, <1>4, <2>1 DEF made
    <3>2. QED
      BY <1>4, <2>1, <3>1 DEF SettingUp
  <2>2. CASE wb_fire
    <3>1. req = Reset
      BY <1>2, <1>4, <2>2 DEF SetupAt, SetupLength
    <3>2. ctl'.core_rst_pulse /\ ~ctl'.core_start /\ ~ctl'.error_latched
      BY <1>1, <2>2, <3>1, ResetClock
    <3>3. made' /\ pending'.on /\ ~reply.ack
      BY <1>2, <1>4, <2>2 DEF made
    <3>4. Prepared(o, k, r)'
      BY <1>1, <1>4, <3>2, <3>3 DEF Prepared
    <3>5. ~pending'.err
      BY <1>2, <2>2, <3>1 DEF Reset, WriteCtrl, NoRequest, wb_addr_valid,
         wb_busy_write_blocked, Windows
    <3>6. QED
      BY <1>1, <1>4, <3>3, <3>4, <3>5 DEF SettingUp
  <2>3. QED
    BY <2>1, <2>2
<1>5. CASE r = SetupLength(o) /\ made
  <2>1. Prepared(o, k, r) /\ ~wb_fire
    BY <1>1, <1>2, <1>5 DEF SettingUp
  <2>2. ctl.core_rst_pulse \/ (Quiet /\ ~ctl.core_start)
    BY <1>5, <2>1 DEF Prepared
  <2>3. Quiet' /\ ~ctl'.error_latched /\ ~ctl'.core_start
    BY <1>3, <2>1, <2>2, QuietClock DEF Prepared, Quiet
  <2>4. CASE reply.ack
    <3>1. Prepared(o, k, r - 1)'
      BY <1>1, <1>2, <1>5, <2>3, <2>4 DEF Prepared
    <3>2. QED
      BY <1>1, <1>2, <1>5, <2>1, <2>4, <3>1 DEF SettingUp
  <2>5. CASE ~reply.ack
    <3>1. made' /\ ~pending'.on
      BY <1>2, <1>5, <2>1, <2>5 DEF made
    <3>2. Prepared(o, k, r)'
      BY <1>1, <1>5, <2>3, <3>1 DEF Prepared
    <3>3. QED
      BY <1>1, <1>5, <2>1, <2>5, <3>1, <3>2 DEF SettingUp
  <2>6. QED
    BY <2>4, <2>5
<1>6. CASE r < SetupLength(o) /\ (r > 1 \/ ~made)
  <2>1. Prepared(o, k, r)
    BY <1>6 DEF SettingUp
  <2>2. Quiet /\ ~ctl.core_start /\ ~ctl.error_latched
    BY <1>1, <1>6, <2>1 DEF Prepared
  <2>3. CASE ~wb_fire
    <3>1. Quiet' /\ ~ctl'.error_latched /\ ~ctl'.core_start
      BY <1>3, <2>2, <2>3, QuietClock DEF Quiet
    <3>2. \A i \in 2 .. SetupLength(o) - 1 :
             i > r \/ (i = r /\ made) => Holds(InputAt(o, i), k)'
      BY <1>1, <1>3, <2>1, <2>2, <2>3, HeldWhenQuiet DEF Prepared
    <3>3. CASE reply.ack
      <4>1. Prepared(o, k, r - 1)'
        BY <1>1, <1>2, <1>6, <3>1, <3>2, <3>3 DEF Prepared
      <4>2. QED
        BY <1>1, <1>2, <1>6, <2>3, <3>3, <4>1 DEF SettingUp
    <3>4. CASE ~reply.ack
      <4>1. made' <=> made
        BY <1>2, <2>3, <3>4 DEF made
      <4>2. Prepared(o, k, r)'
        BY <1>1, <1>6, <3>1, <3>2, <4>1 DEF Prepared
      <4>3. QED
        BY <1>1, <1>6, <2>3, <3>4, <4>1, <4>2 DEF SettingUp
    <3>5. QED
      BY <3>3, <3>4
  <2>4. CASE wb_fire /\ r = 1
    <3>1. req = StartOp(o) /\ made' /\ ~reply.ack
      BY <1>1, <1>2, <2>4 DEF SetupAt, made
    <3>2. /\ ctl'.core_start /\ ctl'.core_opcode = o /\ ~ctl'.core_rst_pulse
          /\ ~ctl'.error_latched /\ ~ctl'.done_latched
          /\ seed' = seed /\ data' = DataAfterCore
      BY <1>1, <2>2, <2>4, <3>1, StartClock
    <3>3. Quiet'
      BY <2>2, <3>2, QuietClock DEF Quiet
    <3>4. ASSUME NEW i \in 2 .. SetupLength(o) - 1
          PROVE  Holds(InputAt(o, i), k)'
      <4>1. Holds(InputAt(o, i), k) /\ InputAt(o, i) \in {"SEED", "PK", "SK", "CT"}
        BY <1>1, <2>1, <2>4 DEF Prepared
      <4>2. QED
        BY <2>2, <3>2, <4>1, HeldWhenQuiet
    <3>5. \A a \in InputsOf(o) : Holds(a, k)'
      <4>1. InputsOf(o) \subseteq {InputAt(o, i) : i \in 2 .. SetupLength(o) - 1}
        BY DEF InputsOf, InputAt, SetupLength, Operations
      <4>2. QED
        BY <3>4, <4>1
    <3>6. Operating(o, k)'
      BY <3>2, <3>3, <3>5 DEF Operating
    <3>7. ~pending'.err
      BY <1>2, <2>4, <3>1 DEF StartOp, WriteCtrl, NoRequest, wb_addr_valid,
         wb_busy_write_blocked, Windows
    <3>8. QED
      BY <2>4, <3>1, <3>6, <3>7 DEF SettingUp
  <2>5. CASE wb_fire /\ r > 1
    <3> DEFINE b == InputAt(o, r)
    <3>1. b \in {"SEED", "PK", "SK", "CT"} /\ req = Write(b, k) /\ made' /\ ~reply.ack
      BY <1>1, <1>2, <1>6, <2>5 DEF SetupAt, made
    <3> HIDE DEF b
    <3>2. /\ IF b = "SEED" THEN seed' = k /\ data' = data
             ELSE seed' = seed /\ data' = [data EXCEPT ![b] = k]
          /\ ~ctl'.core_start /\ ~ctl'.core_rst_pulse
          /\ ctl'.error_latched = ctl.error_latched
          /\ ~pending'.err
      BY <1>1, <1>2, <2>2, <2>5, <3>1, InputClock
    <3>3. Quiet' /\ ~ctl'.error_latched /\ ~ctl'.core_start
      BY <2>2, <3>2, QuietClock DEF Quiet
    <3>4. data \in [Windows -> Tokens] /\ DataAfterCore = data
      BY <2>2 DEF DataAfterCore, Quiet, NoWrite, SlaveInv, TypeOK
    <3>5. ASSUME NEW a \in {"SEED", "PK", "SK", "CT"}, a = b \/ Holds(a, k)
          PROVE  Holds(a, k)'
      <4>1. IF a = "SEED" THEN seed' = k ELSE data'[a] = k
        BY <3>1, <3>2, <3>4, <3>5 DEF Holds, Windows
      <4>2. QED
        BY <2>2, <4>1, QuietClock DEF Holds, Windows
    <3>6. ASSUME NEW i \in 2 .. SetupLength(o) - 1, i > r \/ i = r
          PROVE  Holds(InputAt(o, i), k)'
      <4>1. InputAt(o, i) = b \/ Holds(InputAt(o, i), k)
        BY <1>1, <2>1, <3>6 DEF Prepared, b
      <4>2. InputAt(o, i) \in {"SEED", "PK", "SK", "CT"}
        BY <1>1
      <4>3. QED
        BY <3>5, <4>1, <4>2
    <3>7. Prepared(o, k, r)'
      BY <1>1, <1>6, <3>3, <3>6 DEF Prepared
    <3>8. QED
      BY <1>1, <1>6, <2>5, <3>1, <3>2, <3>7 DEF SettingUp
  <2>6. QED
    BY <1>1, <2>3, <2>4, <2>5
<1>7. CASE r = 1 /\ made
  <2>1. Operating(o, k) /\ ~wb_fire
    BY <1>1, <1>2, <1>7 DEF SettingUp
  <2>2. Operating(o, k)'
    BY <1>2, <2>1, OperatingClock
  <2>3. ~reply.ack => made'
    BY <1>2, <1>7 DEF made
  <2>4. QED
    BY <1>7, <2>1, <2>2, <2>3 DEF SettingUp
<1>8. QED
  BY <1>1, <1>4, <1>5, <1>6, <1>7

-----------------------------------------------------------------------------
(* The accesses of a call. *)

LEMMA DriverRequests ==
  ASSUME NEW o \in Operations, NEW k \in Calls
  PROVE  /\ Read("STATUS") \in Request
         /\ CollectRequests(o) \subseteq Request
         /\ \A r \in 1 .. 4 : SetupAt(o, k, r) \in Request
<1> USE DEF OPCODE_KEYGEN, OPCODE_ENCAPS, OPCODE_DECAPS
<1>1. \A w \in Windows \cup {"SEED", "STATUS"} : Read(w) \in Request /\ Write(w, k) \in Request
  BY NoRequestType DEF Read, Write, Request, Addrs, Csrs, Tokens
<1>2. AckIrq \in Request
  BY NoRequestType DEF AckIrq, WriteBit, Request, Addrs, Csrs
<1>3. \A c \in CtrlWord : WriteCtrl(c) \in Request
  BY NoRequestType DEF WriteCtrl, Request, Addrs, Csrs
<1>4. Reset \in Request /\ StartOp(o) \in Request
  <2>1. [NoCtrl EXCEPT !.reset = TRUE] \in CtrlWord
    BY NoRequestType DEF CtrlWord
  <2>2. [NoCtrl EXCEPT !.start = TRUE, !.op = o] \in CtrlWord
    <3>1. o \in Opcodes /\ NoCtrl \in CtrlWord
      BY NoRequestType DEF Opcodes, Operations
    <3>2. [NoCtrl EXCEPT !.start = TRUE] \in CtrlWord
      BY <3>1 DEF CtrlWord
    <3>3. [[NoCtrl EXCEPT !.start = TRUE] EXCEPT !.op = o] \in CtrlWord
      BY <3>1, <3>2 DEF CtrlWord
    <3>4. QED
      BY <3>1, <3>3 DEF CtrlWord
  <2>3. QED
    BY <1>3, <2>1, <2>2 DEF Reset, StartOp
<1>5. OutputsOf(o) \subseteq Windows
  BY DEF OutputsOf, Windows, Operations
<1>6. \A r \in 1 .. 4 : InputAt(o, r) \in Windows \cup {"SEED"}
  BY DEF InputAt, Windows
<1>7. QED
  BY <1>1, <1>2, <1>4, <1>5, <1>6 DEF CollectRequests, SetupAt

\* The list a call starts with, and the list that collects its results.
LEMMA Between ==
  ASSUME NEW S, NEW a \in S, NEW b \in S, NEW s \in Seq(S)
  PROVE  LET t == <<a>> \o s \o <<b>>
         IN  /\ t \in Seq(S) /\ Len(t) = Len(s) + 2
             /\ t[1] = a /\ t[Len(s) + 2] = b
             /\ \A i \in 1 .. Len(s) : t[i + 1] = s[i]
<1>1. /\ <<a>> \o s \in Seq(S) /\ Len(<<a>> \o s) = Len(s) + 1
      /\ \A i \in 1 .. Len(s) + 1 : (<<a>> \o s)[i] = IF i = 1 THEN a ELSE s[i - 1]
  OBVIOUS
<1>2. QED
  BY <1>1

LEMMA SetupList ==
  ASSUME NEW o \in Operations, NEW k \in Calls
  PROVE  /\ Setup(o, k) \in Seq(Request)
         /\ Len(Setup(o, k)) = SetupLength(o)
         /\ \A i \in 1 .. SetupLength(o) : Setup(o, k)[i] = SetupAt(o, k, SetupLength(o) + 1 - i)
<1> USE DEF OPCODE_KEYGEN, OPCODE_ENCAPS, OPCODE_DECAPS
<1> DEFINE s == InputWrites(o, k)
<1>1. /\ s \in Seq(Request) /\ Len(s) = SetupLength(o) - 2
      /\ \A i \in 1 .. Len(s) : s[i] = SetupAt(o, k, SetupLength(o) - i)
  <2>1. \A w \in Windows \cup {"SEED"} : Write(w, k) \in Request
    BY NoRequestType DEF Write, Request, Addrs, Tokens
  <2>2. CASE o = OPCODE_KEYGEN
    <3>1. s = <<Write("SEED", k)>>
      BY <2>2 DEF InputWrites, Inputs
    <3>2. Write("SEED", k) \in Request /\ SetupLength(o) = 3
      BY <2>1, <2>2 DEF SetupLength
    <3>3. SetupAt(o, k, 2) = Write("SEED", k)
      BY <2>2, <3>2 DEF SetupAt, InputAt
    <3>4. QED
      BY <3>1, <3>2, <3>3
  <2>3. CASE o = OPCODE_ENCAPS
    <3>1. s = <<Write("PK", k), Write("SEED", k)>>
      BY <2>3 DEF InputWrites, Inputs
    <3>2. /\ Write("PK", k) \in Request /\ Write("SEED", k) \in Request
          /\ SetupLength(o) = 4
      BY <2>1, <2>3 DEF SetupLength, Windows
    <3>3. SetupAt(o, k, 3) = Write("PK", k) /\ SetupAt(o, k, 2) = Write("SEED", k)
      BY <2>3, <3>2 DEF SetupAt, InputAt
    <3>4. QED
      BY <3>1, <3>2, <3>3
  <2>4. CASE o = OPCODE_DECAPS
    <3>1. s = <<Write("SK", k), Write("CT", k)>>
      BY <2>4 DEF InputWrites, Inputs
    <3>2. /\ Write("SK", k) \in Request /\ Write("CT", k) \in Request
          /\ SetupLength(o) = 4
      BY <2>1, <2>4 DEF SetupLength, Windows
    <3>3. SetupAt(o, k, 3) = Write("SK", k) /\ SetupAt(o, k, 2) = Write("CT", k)
      BY <2>4, <3>2 DEF SetupAt, InputAt
    <3>4. QED
      BY <3>1, <3>2, <3>3
  <2>5. QED
    BY <2>2, <2>3, <2>4 DEF Operations
<1>2. /\ Reset \in Request /\ SetupAt(o, k, SetupLength(o)) = Reset
      /\ StartOp(o) \in Request /\ SetupAt(o, k, 1) = StartOp(o)
      /\ SetupLength(o) \in {3, 4}
  <2>1. /\ SetupLength(o) \in {3, 4}
        /\ SetupAt(o, k, SetupLength(o)) = Reset /\ SetupAt(o, k, 1) = StartOp(o)
    BY DEF SetupLength, SetupAt
  <2>2. QED
    BY <2>1, DriverRequests
<1>3. Setup(o, k) = <<Reset>> \o s \o <<StartOp(o)>>
  BY DEF Setup
<1> HIDE DEF s
<1>4. /\ Setup(o, k) \in Seq(Request) /\ Len(Setup(o, k)) = SetupLength(o)
      /\ Setup(o, k)[1] = Reset /\ Setup(o, k)[SetupLength(o)] = StartOp(o)
      /\ \A i \in 1 .. Len(s) : Setup(o, k)[i + 1] = s[i]
  <2> DEFINE t == <<Reset>> \o s \o <<StartOp(o)>>
  <2>1. /\ t \in Seq(Request) /\ Len(t) = Len(s) + 2
        /\ t[1] = Reset /\ t[Len(s) + 2] = StartOp(o)
        /\ \A i \in 1 .. Len(s) : t[i + 1] = s[i]
    BY <1>1, <1>2, Between
  <2> HIDE DEF t
  <2>2. Setup(o, k) = t /\ Len(s) + 2 = SetupLength(o)
    BY <1>1, <1>2, <1>3 DEF t
  <2>3. QED
    BY <2>1, <2>2
<1>5. ASSUME NEW i \in 1 .. SetupLength(o)
      PROVE  Setup(o, k)[i] = SetupAt(o, k, SetupLength(o) + 1 - i)
  <2>1. CASE i = 1
    BY <1>2, <1>4, <2>1
  <2>2. CASE i = SetupLength(o)
    BY <1>2, <1>4, <2>2
  <2>3. CASE i # 1 /\ i # SetupLength(o)
    <3>1. /\ i - 1 \in 1 .. Len(s) /\ (i - 1) + 1 = i
          /\ SetupLength(o) - (i - 1) = SetupLength(o) + 1 - i
      BY <1>1, <1>2, <2>3
    <3>2. QED
      BY <1>1, <1>4, <3>1
  <2>4. QED
    BY <2>1, <2>2, <2>3
<1>6. QED
  BY <1>4, <1>5

LEMMA CollectList ==
  ASSUME NEW o \in Operations
  PROVE  Collect(o) \in Seq(CollectRequests(o)) /\ Collect(o) # <<>>
<1> USE DEF OPCODE_KEYGEN, OPCODE_ENCAPS, OPCODE_DECAPS
<1> DEFINE results == [i \in DOMAIN Outputs(o) |-> Read(Outputs(o)[i])]
<1>1. results \in Seq({Read(w) : w \in OutputsOf(o)})
  <2>1. Outputs(o) \in Seq(OutputsOf(o))
    <3>1. CASE o = OPCODE_KEYGEN
      BY <3>1 DEF Outputs, OutputsOf
    <3>2. CASE o = OPCODE_ENCAPS
      BY <3>2 DEF Outputs, OutputsOf
    <3>3. CASE o = OPCODE_DECAPS
      BY <3>3 DEF Outputs, OutputsOf
    <3>4. QED
      BY <3>1, <3>2, <3>3 DEF Operations
  <2>2. QED
    BY <2>1
<1> HIDE DEF results
<1>2. results \in Seq(CollectRequests(o)) /\ <<AckIrq>> \in Seq(CollectRequests(o))
  BY <1>1 DEF CollectRequests
<1>3. Collect(o) = <<AckIrq>> \o results
  BY DEF Collect, results
<1>4. QED
  BY <1>2, <1>3

-----------------------------------------------------------------------------
(* Every step of the driver keeps the invariant. *)

LEMMA PollAnswer ==
  ASSUME SlaveInv, Lines, Respond, NEW o, NEW k, Operating(o, k), ctl' \in Control,
         wb_fire, req = Read("STATUS"), ctl.done_latched => ctl'.done_latched
  PROVE  /\ ~pending'.err /\ ~pending'.dat.error
         /\ pending'.dat.done => ctl'.done_latched
<1>1. req.adr = "STATUS" /\ ~req.we
  BY DEF Read, NoRequest
<1>2. pending'.err = FALSE /\ pending'.dat = build_wb_read_data
  BY <1>1, AccessClock DEF SlaveInv, wb_addr_valid, wb_busy_write_blocked
<1>3. /\ build_wb_read_data.error = ctl.error_latched
      /\ build_wb_read_data.done = ctl.done_latched
  BY <1>1 DEF build_wb_read_data, NoData
<1>4. QED
  BY <1>2, <1>3 DEF Operating

LEMMA CollectAnswer ==
  ASSUME SlaveInv, Lines, Respond, NEW o \in Operations, NEW k, Operating(o, k),
         ctl.done_latched, wb_fire, req \in CollectRequests(o)
  PROVE  ~pending'.err /\ (~req.we => pending'.dat.tok = k)
<1>1. CASE req = AckIrq
  <2>1. req.adr = "IRQ_STATUS" /\ req.we
    BY <1>1 DEF AckIrq, WriteBit, NoRequest
  <2>2. QED
    BY <2>1, AccessClock DEF SlaveInv, wb_addr_valid, wb_busy_write_blocked, Windows
<1>2. ASSUME NEW w \in OutputsOf(o), req = Read(w)
      PROVE  ~pending'.err /\ pending'.dat.tok = k
  <2>1. req.adr = w /\ ~req.we /\ w \in Windows
    BY <1>2 DEF Read, NoRequest, OutputsOf, Windows, Operations, OPCODE_KEYGEN,
       OPCODE_ENCAPS, OPCODE_DECAPS
  <2>2. pending'.err = FALSE /\ pending'.dat = build_wb_read_data
    BY <2>1, AccessClock DEF SlaveInv, wb_addr_valid, wb_busy_write_blocked, Windows
  <2>3. build_wb_read_data.tok = DataAfterCore[w]
    BY <2>1 DEF build_wb_read_data, NoData, Windows
  <2>4. Holds(w, k)
    BY <1>2 DEF Operating, Results
  <2>5. QED
    BY <2>1, <2>2, <2>3, <2>4 DEF Holds, Windows
<1>3. QED
  BY <1>1, <1>2 DEF CollectRequests

\* The lines of the master.
LEMMA RequestClock ==
  ASSUME DriverInv, DriverNext
  PROVE  /\ req' \in Request
         /\ answered => ~req'.cyc
         /\ req.cyc /\ ~answered => req' = req
<1>1. TypeOK /\ DriverTypes /\ req \in Request /\ NoRequest.cyc = FALSE
  BY DEF DriverInv, SlaveInv, TypeOK, NoRequest
<1>2. CASE Issue
  <2>1. CASE mode = "setup"
    BY <1>1, <1>2, <2>1 DEF Issue, DriverTypes, answered
  <2>2. CASE mode = "collect"
    BY <1>1, <1>2, <2>2, DriverRequests DEF Issue, DriverTypes, answered
  <2>3. CASE mode = "poll"
    BY <1>1, <1>2, <2>3, DriverRequests DEF Issue, DriverTypes, answered
  <2>4. QED
    BY <1>2, <2>1, <2>2, <2>3 DEF Issue
<1>3. CASE SetupAccess \/ PollDone \/ PollAgain \/ PollGivesUp \/ CollectAccess
  BY <1>1, <1>3, NoRequestType DEF SetupAccess, PollDone, PollAgain, PollGivesUp,
     CollectAccess
<1>4. CASE Elsewhere \/ HandOver
  BY <1>1, <1>4 DEF Elsewhere, HandOver, answered
<1>5. ASSUME NEW o, Call(o) PROVE req' = req /\ ~answered
  BY <1>1, <1>5 DEF Call, DriverTypes, answered
<1>6. CASE OtherRuns
  BY <1>1, <1>6, MasterType DEF OtherRuns, AnyMaster, answered
<1>7. QED
  BY <1>1, <1>2, <1>3, <1>4, <1>5, <1>6 DEF DriverNext, DriverActs

\* An answered access, or none, leaves no answer behind.
LEMMA NoAnswer ==
  ASSUME DriverInv, DriverNext, answered \/ ~req.cyc
  PROVE  ~pending'.on /\ ~reply'.ack /\ ~wb_fire /\ ~accepted /\ AnswersInv'
<1>1. ~pending'.on /\ ~reply'.ack /\ ~wb_fire /\ ~accepted
  BY AccessClock DEF DriverInv, SlaveInv, DriverNext, SlaveClock, Lines, answered, made
<1>2. QED
  BY <1>1 DEF AnswersInv, Answers

\* The shape of the call, and where the master's request stands in it.
LEMMA TypesClock ==
  ASSUME DriverInv, DriverNext
  PROVE  DriverTypes'
<1> USE DEF DriverTypes
<1>1. DriverTypes /\ TypeOK /\ mode # "trapped" /\ NoRequest.cyc = FALSE
  BY DEF DriverInv, SlaveInv, CallInv, NoRequest
<1>2. (answered => ~req'.cyc) /\ (req.cyc /\ ~answered => req' = req)
  BY RequestClock
<1>3. ASSUME NEW o \in Operations, Call(o) PROVE DriverTypes'
  <2>1. /\ mode' = "setup" /\ op' = o /\ n' = n + 1 /\ todo' = Setup(o, n + 1)
        /\ n + 1 \in Calls /\ n + 1 \in 0 .. MaxCalls /\ ~req'.cyc
    BY <1>1, <1>3, MaxCallsAssumption DEF Call
  <2>2. /\ Setup(o, n + 1) \in Seq(Request) /\ Len(Setup(o, n + 1)) = SetupLength(o)
        /\ \A i \in 1 .. SetupLength(o) :
              Setup(o, n + 1)[i] = SetupAt(o, n + 1, SetupLength(o) + 1 - i)
    BY <2>1, SetupList
  <2>3. SetupLength(o) \in {3, 4}
    BY DEF SetupLength
  <2>4. QED
    BY <2>1, <2>2, <2>3 DEF Modes
<1>4. CASE Issue
  <2>1. UNCHANGED <<mode, op, n, todo>>
    BY <1>4 DEF Issue, driverVars
  <2>2. mode = "setup" => req' = SetupAt(op, n, Len(todo))
    BY <1>1, <1>4 DEF Issue
  <2>3. mode = "collect" => req' \in CollectRequests(op)
    BY <1>1, <1>4 DEF Issue
  <2>4. mode = "poll" => req' = Read("STATUS")
    BY <1>4 DEF Issue
  <2>5. mode # "idle"
    BY <1>4 DEF Issue
  <2>6. QED
    BY <1>1, <2>1, <2>2, <2>3, <2>4, <2>5
<1>5. CASE SetupAccess
  <2>1. /\ mode = "setup" /\ UNCHANGED <<op, n>> /\ todo' = Tail(todo) /\ ~req'.cyc
        /\ mode' \in {"setup", "poll", "trapped"} /\ (mode' = "setup" => Tail(todo) # <<>>)
    BY <1>1, <1>5 DEF SetupAccess, Then
  <2>2. /\ Tail(todo) \in Seq(Request) /\ Len(Tail(todo)) = Len(todo) - 1
        /\ \A i \in 1 .. Len(todo) - 1 : Tail(todo)[i] = todo[i + 1]
        /\ Tail(todo) # <<>> => Len(todo) > 1
    BY <1>1, <2>1
  <2>3. mode' = "setup" => /\ Len(todo') \in 1 .. SetupLength(op)
                           /\ \A i \in 1 .. Len(todo') : todo'[i] = SetupAt(op, n, Len(todo') + 1 - i)
    <3>1. SUFFICES ASSUME mode' = "setup" PROVE
                   /\ Len(todo') \in 1 .. SetupLength(op)
                   /\ \A i \in 1 .. Len(todo') : todo'[i] = SetupAt(op, n, Len(todo') + 1 - i)
      OBVIOUS
    <3>2. Len(todo) > 1 /\ Len(todo) \in 1 .. SetupLength(op) /\ SetupLength(op) \in {3, 4}
      BY <1>1, <2>1, <2>2, <3>1 DEF SetupLength
    <3>3. ASSUME NEW i \in 1 .. Len(todo) - 1
          PROVE  todo[i + 1] = SetupAt(op, n, Len(todo) - 1 + 1 - i)
      <4>1. /\ i + 1 \in 1 .. Len(todo)
            /\ Len(todo) + 1 - (i + 1) = Len(todo) - 1 + 1 - i
        BY <3>2
      <4>2. QED
        BY <1>1, <2>1, <4>1
    <3>4. QED
      BY <2>1, <2>2, <3>2, <3>3
  <2>4. QED
    BY <1>1, <2>1, <2>2, <2>3 DEF Modes
<1>6. CASE PollDone
  <2>1. Collect(op) \in Seq(CollectRequests(op)) /\ Collect(op) # <<>>
    BY <1>1, CollectList
  <2>2. QED
    BY <1>1, <1>6, <2>1 DEF PollDone, Then, Modes
<1>7. CASE PollAgain \/ PollGivesUp
  BY <1>1, <1>7 DEF PollAgain, PollGivesUp, Then, Modes
<1>8. CASE CollectAccess
  <2>1. /\ mode = "collect" /\ UNCHANGED <<op, n>> /\ todo' = Tail(todo) /\ ~req'.cyc
        /\ mode' \in {"collect", "idle", "trapped"} /\ (mode' = "collect" => Tail(todo) # <<>>)
    BY <1>1, <1>8 DEF CollectAccess, Then
  <2>2. Tail(todo) \in Seq(CollectRequests(op))
    BY <1>1, <2>1
  <2>3. QED
    BY <1>1, <2>1, <2>2 DEF Modes
<1>9. CASE Elsewhere \/ OtherRuns \/ HandOver
  <2>1. /\ UNCHANGED <<op, n, todo>>
        /\ mode' = mode \/ (mode' = "idle" /\ ~req'.cyc)
        /\ req' = req \/ mode = "other"
    BY <1>9 DEF Elsewhere, OtherRuns, HandOver, driverVars
  <2>2. QED
    BY <1>1, <2>1 DEF Modes
<1>10. QED
  BY <1>3, <1>4, <1>5, <1>6, <1>7, <1>8, <1>9 DEF DriverNext, DriverActs, Operations

LEMMA SetupLengths == ASSUME NEW o, NEW l \in 1 .. SetupLength(o) PROVE l \in 1 .. 4
BY DEF SetupLength

\* What the driver reads while the accelerator works does not disturb it.
LEMMA WorkingClock ==
  ASSUME DriverInv, DriverNext, TypeOK', mode \in {"poll", "collect"},
         NEW o \in Operations, NEW k \in Calls, op = o, n = k
  PROVE  /\ Operating(o, k) /\ Operating(o, k)'
         /\ ctl.done_latched => ctl'.done_latched
<1>1. SlaveInv /\ SlaveClock /\ DriverTypes /\ Operating(o, k)
  BY DEF DriverInv, DriverNext, CallInv
<1>2. ~accepted \/ req.adr = "IRQ_STATUS"
  <2>1. req.cyc => req = Read("STATUS") \/ req \in CollectRequests(o)
    BY <1>1 DEF DriverTypes
  <2>2. req.cyc => ~req.we \/ req.adr = "IRQ_STATUS"
    BY <2>1 DEF CollectRequests, AckIrq, WriteBit, Read, NoRequest
  <2>3. QED
    BY <2>2 DEF accepted, wb_fire
<1>3. QED
  BY <1>1, <1>2, OperatingClock

\* What the call and the accelerator are doing.
LEMMA CallClock ==
  ASSUME DriverInv, DriverNext, TypeOK'
  PROVE  CallInv'
<1>1. /\ SlaveInv /\ SlaveClock /\ Lines /\ DriverTypes /\ CallInv /\ WrapperStep /\ Respond
      /\ Answers(reply.ack, reply.err, reply.dat)
  BY DEF DriverInv, AnswersInv, DriverNext, SlaveClock
<1>2. ASSUME mode' \in {"idle", "other"}, got' \subseteq {n'} PROVE CallInv'
  BY <1>2 DEF CallInv
\* while the accelerator works on a call
<1>3. ASSUME mode \in {"poll", "collect"}, NEW o \in Operations, NEW k \in Calls, op = o, n = k
      PROVE  Operating(o, k)' /\ (ctl.done_latched => ctl'.done_latched)
  BY <1>3, WorkingClock
<1>4. ASSUME mode \in {"poll", "collect"}, mode' \in {"poll", "collect"}, op' = op, n' = n,
             got' \subseteq {n}, mode' = "collect" => ctl.done_latched
      PROVE  CallInv'
  <2>1. op \in Operations /\ n \in Calls
    BY <1>1, <1>4 DEF DriverTypes
  <2>2. ctl.done_latched => ctl'.done_latched
    BY <1>3, <1>4, <2>1
  <2>3. QED
    BY <1>3, <1>4, <2>2 DEF CallInv
\* while a call is set up
<1>5. ASSUME mode = "setup", NEW o \in Operations, NEW k \in Calls, op = o, n = k,
             NEW r \in 1 .. 4, Len(todo) = r
      PROVE  /\ ~reply.ack => SettingUp(o, k, r)'
             /\ reply.ack /\ r > 1 => SettingUp(o, k, r - 1)'
             /\ reply.ack /\ r = 1 => Operating(o, k)'
  <2>1. SettingUp(o, k, r) /\ r \in 1 .. SetupLength(o)
    BY <1>1, <1>5 DEF CallInv, DriverTypes
  <2>2. req.cyc => req = SetupAt(o, k, r)
    BY <1>1, <1>5 DEF DriverTypes
  <2>3. QED
    BY <1>1, <2>1, <2>2, SetupClock
<1>6. ASSUME mode = "setup", mode' = "setup", ~answered, op' = op, n' = n, todo' = todo, got' = got
      PROVE  CallInv'
  <2>1. ~reply.ack
    BY <1>1, <1>6 DEF Lines, answered
  <2>2. QED
    BY <1>1, <1>5, <1>6, <2>1 DEF CallInv
<1>7. ASSUME NEW o \in Operations, Call(o) PROVE CallInv'
  <2>1. /\ mode' = "setup" /\ op' = o /\ n' = n + 1 /\ todo' = Setup(o, n + 1)
        /\ got' = {} /\ n + 1 \in Calls /\ ~req.cyc
    BY <1>1, <1>7, MaxCallsAssumption DEF Call, DriverTypes
  <2>2. Len(todo') = SetupLength(o)
    BY <2>1, SetupList
  <2>3. ~pending'.on /\ ~reply'.ack
    BY <2>1, NoAnswer
  <2>4. \A k : SettingUp(o, k, SetupLength(o))'
    BY <2>3 DEF SettingUp, made
  <2>5. QED
    BY <2>1, <2>2, <2>4 DEF CallInv
<1>8. CASE Issue
  <2>1. ~answered /\ UNCHANGED <<mode, op, n, todo, got>> /\ mode \in {"setup", "collect", "poll"}
    BY <1>8 DEF Issue, driverVars, answered
  <2>2. QED
    BY <1>1, <1>4, <1>6, <2>1 DEF CallInv
<1>9. CASE SetupAccess
  <2>1. /\ mode = "setup" /\ reply.ack /\ op' = op /\ n' = n /\ got' = got
        /\ todo' = Tail(todo) /\ op \in Operations /\ n \in Calls
        /\ ~reply.err /\ mode' = IF Tail(todo) = <<>> THEN "poll" ELSE "setup"
    BY <1>1, <1>9 DEF SetupAccess, Then, Answers, answered, DriverTypes
  <2>2. /\ Len(todo) \in 1 .. 4 /\ Len(Tail(todo)) = Len(todo) - 1
        /\ Tail(todo) = <<>> <=> Len(todo) = 1
    <3>1. todo \in Seq(Request) /\ Len(todo) \in 1 .. 4
      <4>1. todo \in Seq(Request) /\ Len(todo) \in 1 .. SetupLength(op)
        BY <1>1, <2>1 DEF DriverTypes
      <4>2. QED
        BY <4>1, SetupLengths, Zenon
    <3>2. Tail(todo) \in Seq(Request) /\ Len(Tail(todo)) = Len(todo) - 1
      BY <3>1
    <3>3. \A t \in Seq(Request) : t = <<>> <=> Len(t) = 0
      OBVIOUS
    <3>4. QED
      BY <3>1, <3>2, <3>3
  <2>3. ASSUME NEW o \in Operations, NEW k \in Calls, op = o, n = k,
               NEW r \in 1 .. 4, Len(todo) = r
        PROVE  /\ mode' = "setup" => SettingUp(o, k, r - 1)' /\ Len(todo') = r - 1
               /\ mode' = "poll" => Operating(o, k)'
    BY <1>5, <2>1, <2>2, <2>3
  <2>4. QED
    BY <1>1, <2>1, <2>2, <2>3 DEF CallInv
<1>10. CASE PollDone
  <2>1. /\ mode = "poll" /\ mode' = "collect" /\ op' = op /\ n' = n /\ got' = got
        /\ ctl.done_latched
    BY <1>1, <1>10 DEF PollDone, Then, Answers, answered
  <2>2. QED
    BY <1>1, <1>4, <2>1 DEF CallInv
<1>11. CASE PollAgain
  <2>1. mode = "poll" /\ mode' = "poll" /\ op' = op /\ n' = n /\ got' = got
    BY <1>1, <1>11 DEF PollAgain, Then, Answers, answered
  <2>2. QED
    BY <1>1, <1>4, <2>1 DEF CallInv
<1>12. CASE PollGivesUp
  BY <1>1, <1>2, <1>12 DEF PollGivesUp, Then, Answers, answered, CallInv
<1>13. CASE CollectAccess
  <2>1. /\ mode = "collect" /\ op' = op /\ n' = n /\ ctl.done_latched
        /\ mode' = IF Tail(todo) = <<>> THEN "idle" ELSE "collect"
        /\ got' \subseteq {n}
    BY <1>1, <1>13 DEF CollectAccess, Then, Answers, answered, CallInv
  <2>2. QED
    BY <1>2, <1>4, <2>1
<1>14. CASE Elsewhere
  <2>1. UNCHANGED <<mode, op, n, todo, got>> /\ mode # "other" /\ ~answered
    BY <1>14 DEF Elsewhere, driverVars
  <2>2. QED
    BY <1>1, <1>2, <1>4, <1>6, <2>1 DEF CallInv, DriverTypes, Modes
<1>15. CASE OtherRuns \/ HandOver
  BY <1>1, <1>2, <1>15 DEF OtherRuns, HandOver, driverVars, CallInv
<1>16. QED
  BY <1>7, <1>8, <1>9, <1>10, <1>11, <1>12, <1>13, <1>14, <1>15
     DEF DriverNext, DriverActs, Operations

\* What an access has returned, or is about to, is what the call expects.
LEMMA AnswersClock ==
  ASSUME DriverInv, DriverNext, TypeOK', CallInv'
  PROVE  AnswersInv'
<1>1. /\ SlaveInv /\ SlaveClock /\ Lines /\ DriverTypes /\ CallInv /\ Respond /\ TypeOK
      /\ Answers(pending.on, pending.err, pending.dat)
  BY DEF DriverInv, AnswersInv, SlaveInv, DriverNext, SlaveClock
<1>2. CASE answered \/ ~req.cyc
  BY <1>2, NoAnswer
<1>3. CASE ~answered /\ req.cyc
  <2>1. CASE OtherRuns
    BY <2>1 DEF OtherRuns, driverVars, AnswersInv, Answers
  <2>2. CASE ~OtherRuns
    <3>1. Elsewhere
      BY <1>1, <1>3, <2>2 DEF DriverNext, DriverActs, Issue, SetupAccess, PollDone, PollAgain,
         PollGivesUp, CollectAccess, HandOver, Call, DriverTypes
    <3>2. UNCHANGED <<req, mode, op, n>> /\ mode \in {"setup", "poll", "collect"}
      BY <1>1, <1>3, <3>1 DEF Elsewhere, driverVars, DriverTypes, CallInv, Modes
    <3>3. /\ op \in Operations /\ n \in Calls
          /\ mode = "setup" => Len(todo) \in 1 .. 4 /\ Len(todo) \in 1 .. SetupLength(op)
      <4>1. /\ op \in Operations /\ n \in Calls
            /\ mode = "setup" => Len(todo) \in 1 .. SetupLength(op)
        BY <1>1, <3>2 DEF DriverTypes
      <4>2. QED
        BY <4>1, SetupLengths, Zenon
    <3>4. ctl.done_latched => mode = "setup" \/ ctl'.done_latched
      BY <3>2, <3>3, WorkingClock
    <3>5. ASSUME wb_fire PROVE Answers(pending.on, pending.err, pending.dat)'
      <4>1. CASE mode = "setup"
        <5>1. PICK o \in Operations, k \in Calls, r \in 1 .. 4 : op = o /\ n = k /\ Len(todo) = r
          BY <3>3, <4>1
        <5>2. /\ SettingUp(o, k, r) /\ r \in 1 .. SetupLength(o)
              /\ req.cyc => req = SetupAt(o, k, r)
          BY <1>1, <3>3, <4>1, <5>1 DEF CallInv, DriverTypes
        <5>3. ~pending'.err
          BY <1>1, <3>5, <5>2, SetupClock
        <5>4. QED
          BY <3>2, <4>1, <5>3 DEF Answers
      <4>2. CASE mode = "poll"
        <5>1. PICK o \in Operations, k \in Calls : op = o /\ n = k
          BY <3>3
        <5>2. Operating(o, k) /\ req = Read("STATUS") /\ ctl' \in Control
          BY <1>1, <1>3, <4>2, <5>1 DEF CallInv, DriverTypes, TypeOK
        <5>3. /\ ~pending'.err /\ ~pending'.dat.error
              /\ pending'.dat.done => ctl'.done_latched
          BY <1>1, <3>4, <3>5, <4>2, <5>2, PollAnswer
        <5>4. QED
          BY <3>2, <4>2, <5>3 DEF Answers
      <4>3. CASE mode = "collect"
        <5>1. ~pending'.err /\ (~req.we => pending'.dat.tok = n)
          BY <1>1, <1>3, <3>3, <3>5, <4>3, CollectAnswer DEF CallInv, DriverTypes
        <5>2. QED
          BY <3>2, <4>3, <5>1 DEF Answers
      <4>4. QED
        BY <3>2, <4>1, <4>2, <4>3
    <3>6. ASSUME pending.on PROVE Answers(reply.ack, reply.err, reply.dat)'
      BY <1>1, <3>2, <3>4, <3>6, AccessClock DEF Answers
    <3>7. QED
      BY <1>1, <3>5, <3>6, AccessClock DEF AnswersInv, Answers
  <2>3. QED
    BY <2>1, <2>2
<1>4. QED
  BY <1>2, <1>3

LEMMA DriverInvInit == DriverInit => DriverInv
<1> SUFFICES ASSUME DriverInit PROVE DriverInv
  OBVIOUS
<1>1. /\ SlaveInv /\ mode \in {"idle", "other"} /\ op \in Operations /\ n = 0 /\ got = {}
      /\ pending.on = FALSE /\ reply.ack = FALSE /\ req.cyc = FALSE
  BY SlaveInvInit DEF DriverInit, Operations, Init, SlaveInit, NoRequest
<1>2. DriverTypes
  BY <1>1, MaxCallsAssumption DEF DriverTypes, Modes
<1>3. Lines /\ AnswersInv
  BY <1>1 DEF Lines, AnswersInv, Answers
<1>4. CallInv
  BY <1>1 DEF CallInv
<1>5. QED
  BY <1>1, <1>2, <1>3, <1>4 DEF DriverInv

LEMMA DriverInvStep == DriverInv /\ [DriverNext]_allVars => DriverInv'
<1>1. CASE DriverInv /\ DriverNext
  <2>1. /\ SlaveInv /\ Lines /\ TypeOK /\ SlaveClock /\ Respond
    BY <1>1 DEF DriverInv, SlaveInv, DriverNext, SlaveClock
  <2>2. SlaveInv'
    BY <1>1, <2>1, RequestClock, SlaveInvClock
  <2>3. Lines'
    BY <1>1, <2>1, RequestClock, LinesClock
  <2>4. DriverTypes'
    BY <1>1, TypesClock
  <2>5. TypeOK' /\ CallInv'
    BY <1>1, <2>2, CallClock DEF SlaveInv
  <2>6. AnswersInv'
    BY <1>1, <2>5, AnswersClock
  <2>7. QED
    BY <2>2, <2>3, <2>4, <2>5, <2>6 DEF DriverInv
<1>2. CASE DriverInv /\ UNCHANGED allVars
  <2>1. UNCHANGED vars /\ UNCHANGED driverVars
    BY <1>2 DEF allVars
  <2>2. SlaveInv'
    BY <1>2, <2>1, SlaveInvStep DEF DriverInv
  <2>3. Lines' /\ DriverTypes' /\ AnswersInv'
    BY <1>2, <2>1 DEF DriverInv, Lines, DriverTypes, AnswersInv, Answers, vars, slaveVars,
       driverVars
  <2>4. DataAfterCore' = DataAfterCore
    BY <2>1 DEF DataAfterCore, vars, slaveVars
  <2>5. \A a, k : Holds(a, k)' <=> Holds(a, k)
    BY <2>1, <2>4 DEF Holds, vars, slaveVars
  <2>6. ASSUME NEW o, NEW k PROVE Operating(o, k)' <=> Operating(o, k)
    <3>1. (Stage(o, k)' <=> Stage(o, k)) /\ (Results(o, k)' <=> Results(o, k))
      BY <2>1, <2>5 DEF Stage, Results, vars, slaveVars
    <3>2. Quiet' <=> Quiet
      BY <2>1 DEF Quiet, vars, slaveVars
    <3>3. QED
      BY <2>1, <2>5, <3>1, <3>2 DEF Operating, vars, slaveVars
  <2>7. ASSUME NEW o, NEW k, NEW r PROVE SettingUp(o, k, r)' <=> SettingUp(o, k, r)
    <3>1. (made' <=> made) /\ (Quiet' <=> Quiet)
      BY <2>1 DEF made, Quiet, vars, slaveVars
    <3>2. Prepared(o, k, r)' <=> Prepared(o, k, r)
      BY <2>1, <2>5, <3>1 DEF Prepared, vars, slaveVars
    <3>3. QED
      BY <2>6, <3>1, <3>2 DEF SettingUp
  <2>8. CallInv'
    BY <1>2, <2>1, <2>6, <2>7 DEF DriverInv, CallInv, vars, slaveVars, driverVars
  <2>9. QED
    BY <2>2, <2>3, <2>8 DEF DriverInv
<1>3. QED
  BY <1>1, <1>2

\* Whatever a call hands back was computed from what this very call wrote, also
\* when it interrupts an operation that was given up or that another program
\* started.
THEOREM ResultsAreOfThisCall == DriverSpec => []ResultsOfThisCall
<1>1. DriverInv => ResultsOfThisCall
  BY DEF DriverInv, CallInv, ResultsOfThisCall
<1>2. QED
  BY <1>1, DriverInvInit, DriverInvStep, PTL DEF DriverSpec

\* Between setup and results the accelerator neither answers the driver with a bus
\* error nor raises its error flag.
THEOREM DriverNeverRefused == DriverSpec => []NeverRefused
<1>1. DriverInv => NeverRefused
  <2>1. SUFFICES ASSUME DriverInv, mode = "poll" PROVE ~ctl.error_latched
    BY DEF NeverRefused, DriverInv, CallInv
  <2>2. PICK o \in Operations, k \in Calls : op = o /\ n = k
    BY <2>1 DEF DriverInv, DriverTypes
  <2>3. Operating(o, k)
    BY <2>1, <2>2 DEF DriverInv, CallInv
  <2>4. QED
    BY <2>3 DEF Operating
<1>2. QED
  BY <1>1, DriverInvInit, DriverInvStep, PTL DEF DriverSpec

\* What the wrapper promises any master it keeps under the driver, whoever had the
\* bus before.
THEOREM DriverKeepsWrapper ==
  DriverSpec => [](DoneMeansIdle /\ StartMeetsIdleCore) /\ InputsHeldWhileBusy
<1>1. DriverInv => DoneMeansIdle /\ StartMeetsIdleCore
  BY DEF DriverInv, SlaveInv
<1>2. DriverInv /\ [DriverNext]_allVars
        => [core.state # "S_IDLE" \/ ctl.core_start
              => seed' = seed /\ data' = DataAfterCore]_vars
  BY InputsHeldClock DEF DriverInv, DriverNext, allVars
<1>3. QED
  BY <1>1, <1>2, DriverInvInit, DriverInvStep, PTL DEF DriverSpec, InputsHeldWhileBusy

\* No completion of an operation is lost on its way to the interrupt line.
THEOREM CompletionIsSeen == DriverSpec => CompletionRaisesIrq
<1>1. ASSUME DriverInv, DriverNext, core.done, mode # "other"
      PROVE  ctl'.irq_status_done \/ ctl'.core_rst_pulse
  <2>1. /\ WrapperStep /\ ctl \in Control /\ core \in Core /\ core.busy /\ core.state = "S_IDLE"
        /\ Latched \in Control /\ Latched.irq_status_done /\ DriverTypes /\ ~ctl.done_latched
    <3>1. SlaveInv /\ DriverTypes /\ WrapperStep /\ ctl \in Control /\ core \in Core
      BY <1>1 DEF DriverInv, SlaveInv, TypeOK, DriverNext, SlaveClock
    <3>2. Latched \in Control /\ Latched.irq_status_done
      BY <1>1, <3>1, LatchedType DEF Latched, Control
    <3>3. QED
      BY <1>1, <3>1, <3>2 DEF SlaveInv, Spaced, DoneMeansIdle
  <2>2. accepted => req.adr # "IRQ_STATUS"
    <3>1. mode \in {"setup", "poll", "idle"}
      BY <1>1, <2>1 DEF DriverInv, CallInv, DriverTypes, Modes
    <3>2. \A w \in Windows \cup {"SEED"} : Write(w, n).adr = w
      BY DEF Write, NoRequest
    <3>3. /\ Reset.adr = "CTRL" /\ StartOp(op).adr = "CTRL"
          /\ Read("STATUS").adr = "STATUS"
      BY DEF Reset, StartOp, WriteCtrl, Read, NoRequest
    <3>4. \A r : SetupAt(op, n, r).adr # "IRQ_STATUS"
      BY <3>2, <3>3 DEF SetupAt, InputAt, Windows
    <3>5. QED
      BY <2>1, <3>1, <3>3, <3>4 DEF DriverTypes, accepted, wb_fire
  <2>3. CASE WriteControl
    <3> DEFINE c == req.ctrl
               l == Opcode(SoftReset(Latched, c), c)
    <3>1. ctl' = Start(l, c) /\ ~start_accepted(c)
      BY <2>1, <2>3 DEF WriteControl, start_accepted
    <3>2. ctl' = l \/ ctl' = [l EXCEPT !.error_latched = TRUE]
      BY <3>1 DEF Start
    <3>3. l = SoftReset(Latched, c) \/ l = [SoftReset(Latched, c) EXCEPT !.core_opcode = c.op]
      BY DEF Opcode
    <3>4. /\ SoftReset(Latched, c) \in Control
          /\ SoftReset(Latched, c).irq_status_done \/ SoftReset(Latched, c).core_rst_pulse
      <4>1. c \in CtrlWord
        BY <1>1 DEF DriverInv, SlaveInv, TypeOK, Request
      <4>2. Cleared(Latched) \in Control /\ SoftReset(Latched, c) \in Control
        BY <2>1, <4>1, ControlOps
      <4>3. QED
        BY <2>1, <4>2 DEF SoftReset, Control
    <3> HIDE DEF l
    <3>5. l.irq_status_done \/ l.core_rst_pulse
      BY <3>3, <3>4 DEF Control
    <3>6. l.irq_status_done = ctl'.irq_status_done /\ l.core_rst_pulse = ctl'.core_rst_pulse
      <4>1. DOMAIN l = DOMAIN SoftReset(Latched, c)
        BY <3>3
      <4>2. QED
        BY <3>2, <3>4, <4>1 DEF Control
    <3>7. QED
      BY <3>5, <3>6
  <2>4. CASE ~WriteControl
    <3>1. ctl' = Latched \/ ctl' = [Latched EXCEPT !.irq_enable_done = req.bit]
      BY <2>1, <2>2, <2>4 DEF WrapperStep, WriteIrqEnable, WriteIrqStatus, WriteSeed, WriteData,
         WriteNothing
    <3>2. QED
      BY <2>1, <3>1 DEF Control
  <2>5. QED
    BY <2>3, <2>4
<1>2. QED
  BY <1>1, DriverInvInit, DriverInvStep, PTL DEF DriverSpec, CompletionRaisesIrq
=============================================================================
