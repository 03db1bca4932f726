----------------------------- MODULE KyberSlave -----------------------------
(***************************************************************************)
(* rtl/kyber/kyber_wb_slave.v: the Wishbone wrapper of the accelerator,    *)
(* clock by clock, with the core reduced to what the wrapper can see of    *)
(* it: the stages at which it reads an input region, writes an output      *)
(* region or samples the opcode again.  Every stage may take any number of *)
(* cycles.                                                                 *)
(*                                                                         *)
(* A region of the data window, or the seed window, holds a token: which   *)
(* call's data it is, or Torn when it mixes the data of several calls.     *)
(***************************************************************************)
EXTENDS Naturals

CONSTANTS Calls,      \* identities of the data a master writes
          Torn        \* content derived from the data of several calls

ASSUME CallsAssumption == Torn \notin Calls

Tokens == Calls \cup {Torn}

Windows == {"PK", "SK", "CT", "SS"}          \* addr_in_data
Csrs    == {"CTRL", "STATUS", "IRQ_ENABLE", "IRQ_STATUS"}
Addrs   == Windows \cup Csrs \cup {"SEED", "unmapped"}

OPCODE_KEYGEN == 1
OPCODE_ENCAPS == 2
OPCODE_DECAPS == 3
Opcodes       == 0 .. 3
valid_opcode(op) == op \in {OPCODE_KEYGEN, OPCODE_ENCAPS, OPCODE_DECAPS}

\* What a write carries: a token for a window, a bit for the interrupt
\* registers, the three fields of CTRL.
CtrlWord == [reset: BOOLEAN, start: BOOLEAN, op: Opcodes]
Request  == [cyc: BOOLEAN, we: BOOLEAN, adr: Addrs,
             tok: Tokens, bit: BOOLEAN, ctrl: CtrlWord]
NoCtrl   == [reset |-> FALSE, start |-> FALSE, op |-> 0]
NoRequest == [cyc |-> FALSE, we |-> FALSE, adr |-> "unmapped", tok |-> Torn,
              bit |-> FALSE, ctrl |-> NoCtrl]

Read(adr)       == [NoRequest EXCEPT !.cyc = TRUE, !.adr = adr]
Write(adr, t)   == [NoRequest EXCEPT !.cyc = TRUE, !.we = TRUE, !.adr = adr, !.tok = t]
WriteBit(adr, b) == [NoRequest EXCEPT !.cyc = TRUE, !.we = TRUE, !.adr = adr, !.bit = b]
WriteCtrl(c)    == [NoRequest EXCEPT !.cyc = TRUE, !.we = TRUE, !.adr = "CTRL", !.ctrl = c]

VARIABLES
  req,       \* the master's lines
  pending,   \* [on, err, dat]: the access accepted in the previous cycle
  reply,     \* [ack, err, dat]: wb_ack_o, wb_err_o, wb_dat_o
  ctl,       \* the wrapper's registers
  core,      \* the core's visible registers
  data,      \* the data window
  seed       \* the seed window

slaveVars == <<pending, reply, ctl, core, data, seed>>

\* What a read returns, as far as a master can act on it.
NoData == [busy |-> FALSE, done |-> FALSE, error |-> FALSE, irq |-> FALSE, tok |-> Torn]
DataOut == [busy: BOOLEAN, done: BOOLEAN, error: BOOLEAN, irq: BOOLEAN, tok: Tokens]

Control == [core_opcode: Opcodes \ {0}, core_start: BOOLEAN, core_rst_pulse: BOOLEAN,
            done_latched: BOOLEAN, error_latched: BOOLEAN,
            irq_enable_done: BOOLEAN, irq_status_done: BOOLEAN]

States == {"S_IDLE", "S_KG_LOAD_SEED", "S_KG_PACK", "S_KG_HASH_PK",
           "S_KG_WRITE_REST", "S_ENC_READ_PK", "S_ENC_LOAD_COINS",
           "S_ENC_PACK", "S_ENC_WRITE_SS", "S_DEC_READ", "S_DEC_READ_REST",
           "S_DEC_READ_CT", "S_DEC_PACK"}
WindowWrites == UNION {[W -> Tokens] : W \in SUBSET Windows}
NoWrite == [w \in {} |-> Torn]
Core == [state: States, busy: BOOLEAN, done: BOOLEAN,
         first: BOOLEAN,           \* nothing read yet
         acc: Tokens,              \* what has been read
         we: WindowWrites]         \* ext_we, one cycle

CoreReset == [state |-> "S_IDLE", busy |-> FALSE, done |-> FALSE,
              first |-> TRUE, acc |-> Torn, we |-> NoWrite]

SlaveInit ==
  /\ pending = [on |-> FALSE, err |-> FALSE, dat |-> NoData]
  /\ reply = [ack |-> FALSE, err |-> FALSE, dat |-> NoData]
  /\ ctl = [core_opcode |-> OPCODE_KEYGEN, core_start |-> FALSE,
            core_rst_pulse |-> FALSE, done_latched |-> FALSE,
            error_latched |-> FALSE, irq_enable_done |-> FALSE,
            irq_status_done |-> FALSE]
  /\ core = CoreReset
  /\ data = [w \in Windows |-> Torn]
  /\ seed = Torn

Init == SlaveInit /\ req = NoRequest

(***************************************************************************)
(* The core.                                                               *)
(***************************************************************************)
FirstState(op) ==
  CASE op = OPCODE_KEYGEN -> "S_KG_LOAD_SEED"
    [] op = OPCODE_ENCAPS -> "S_ENC_READ_PK"
    [] op = OPCODE_DECAPS -> "S_DEC_READ"
    [] OTHER              -> "S_IDLE"

\* Two stages are shared between operations and look at opcode again.
NextState(s, op) ==
  CASE s = "S_KG_LOAD_SEED"   -> "S_KG_PACK"
    [] s = "S_KG_PACK"        -> "S_KG_HASH_PK"
    [] s = "S_KG_HASH_PK"     -> IF op = OPCODE_ENCAPS THEN "S_ENC_LOAD_COINS"
                                                       ELSE "S_KG_WRITE_REST"
    [] s \in {"S_ENC_READ_PK", "S_DEC_READ"}
                              -> IF op = OPCODE_ENCAPS THEN "S_KG_HASH_PK"
                                                       ELSE "S_DEC_READ_REST"
    [] s = "S_ENC_LOAD_COINS" -> "S_ENC_PACK"
    [] s = "S_ENC_PACK"       -> "S_ENC_WRITE_SS"
    [] s = "S_DEC_READ_REST"  -> "S_DEC_READ_CT"
    [] s = "S_DEC_READ_CT"    -> "S_DEC_PACK"
    [] OTHER                  -> "S_IDLE"

\* Writes reach the data window half a cycle after ext_we.
DataAfterCore == [w \in Windows |-> IF w \in DOMAIN core.we THEN core.we[w] ELSE data[w]]

\* The token a stage reads; Torn when it reads none.
Reads(s)  == s \in {"S_KG_LOAD_SEED", "S_KG_HASH_PK", "S_KG_WRITE_REST", "S_ENC_READ_PK",
                    "S_ENC_LOAD_COINS", "S_DEC_READ", "S_DEC_READ_REST", "S_DEC_READ_CT"}
Source(s) == CASE s \in {"S_KG_LOAD_SEED", "S_ENC_LOAD_COINS"} -> seed
               [] s \in {"S_KG_HASH_PK", "S_KG_WRITE_REST", "S_ENC_READ_PK"} -> DataAfterCore["PK"]
               [] s \in {"S_DEC_READ", "S_DEC_READ_REST"} -> DataAfterCore["SK"]
               [] s = "S_DEC_READ_CT" -> DataAfterCore["CT"]
               [] OTHER -> Torn
Targets(s) == CASE s = "S_KG_PACK"       -> {"PK", "SK"}
                [] s = "S_KG_WRITE_REST" -> {"SK"}
                [] s = "S_ENC_PACK"      -> {"CT"}
                [] s \in {"S_ENC_WRITE_SS", "S_DEC_PACK"} -> {"SS"}
                [] OTHER                 -> {}

Acc(s) == IF ~Reads(s) THEN core.acc
          ELSE IF core.first THEN Source(s)
          ELSE IF Source(s) = core.acc THEN core.acc ELSE Torn

\* S_KG_PACK writes the head of SK, S_KG_WRITE_REST the rest.
Written(s, t) == [w \in Targets(s) |-> IF s = "S_KG_PACK" /\ w = "SK" THEN Torn ELSE t]

CoreIdle ==
  /\ core.state = "S_IDLE" /\ ~ctl.core_rst_pulse
  /\ core' = IF ctl.core_start
               THEN [CoreReset EXCEPT !.busy = TRUE, !.state = FirstState(ctl.core_opcode)]
               ELSE [core EXCEPT !.busy = FALSE, !.done = FALSE, !.we = NoWrite]

\* A stage ends: its last read, its last write and the choice of the next.
CoreStage ==
  /\ core.state # "S_IDLE" /\ ~ctl.core_rst_pulse
  /\ LET s == core.state
         n == NextState(s, ctl.core_opcode)
     IN  core' = [state |-> n, busy |-> TRUE, done |-> n = "S_IDLE",
                  first |-> core.first /\ ~Reads(s), acc |-> Acc(s),
                  we |-> Written(s, Acc(s))]

\* A stage goes on; its earlier writes leave the target half written.
CoreWorks ==
  /\ core.state # "S_IDLE" /\ ~ctl.core_rst_pulse
  /\ core' = [core EXCEPT !.we = Written(core.state, Torn)]

CoreInReset ==
  /\ ctl.core_rst_pulse
  /\ core' = CoreReset

(***************************************************************************)
(* The wrapper.                                                            *)
(***************************************************************************)
fire_in_pending == req.cyc /\ ~reply.ack                         \* mutant

wb_fire == req.cyc /\ ~reply.ack /\ ~pending.on
wb_addr_valid == req.adr # "unmapped"
only_windows_blocked == core.busy /\ req.we /\ req.adr \in Windows      \* mutant
wb_busy_write_blocked == core.busy /\ req.we /\ req.adr \in Windows \cup {"SEED"}

accepted == wb_fire /\ req.we /\ wb_addr_valid /\ ~wb_busy_write_blocked

build_wb_read_data ==
  IF req.adr = "STATUS"
    THEN [NoData EXCEPT !.busy = core.busy, !.done = ctl.done_latched,
                        !.error = ctl.error_latched]
  ELSE IF req.adr = "IRQ_STATUS" THEN [NoData EXCEPT !.irq = ctl.irq_status_done]
  ELSE IF req.adr = "IRQ_ENABLE" THEN [NoData EXCEPT !.irq = ctl.irq_enable_done]
  ELSE IF req.adr \in Windows    THEN [NoData EXCEPT !.tok = DataAfterCore[req.adr]]
  ELSE IF req.adr = "SEED"       THEN [NoData EXCEPT !.tok = seed]
  ELSE NoData

Respond ==
  /\ reply' = IF pending.on THEN [ack |-> TRUE, err |-> pending.err, dat |-> pending.dat]
                            ELSE [reply EXCEPT !.ack = FALSE, !.err = FALSE]
  /\ pending' = IF wb_fire
                  THEN [on |-> TRUE, err |-> ~wb_addr_valid \/ wb_busy_write_blocked,
                        dat |-> IF req.we THEN NoData ELSE build_wb_read_data]
                  ELSE [pending EXCEPT !.on = FALSE]

\* mutant: done is not latched
LatchIrqOnly ==
  [ctl EXCEPT !.core_start = FALSE, !.core_rst_pulse = FALSE,
              !.irq_status_done = @ \/ core.done]

\* The latches before any write of this cycle.
Latched ==
  [ctl EXCEPT !.core_start = FALSE, !.core_rst_pulse = FALSE,
              !.done_latched = @ \/ core.done,
              !.irq_status_done = @ \/ core.done]

start_accepted(c) == c.start /\ ~core.busy /\ valid_opcode(c.op)

ClearIrqOnly(l) == [l EXCEPT !.error_latched = FALSE, !.irq_status_done = FALSE]  \* mutant
Cleared(l) == [l EXCEPT !.done_latched = FALSE, !.error_latched = FALSE,
                        !.irq_status_done = FALSE]

\* The two fields of CTRL, in the order of the code.
SoftReset(l, c) == IF c.reset THEN [Cleared(l) EXCEPT !.core_rst_pulse = TRUE] ELSE l
Opcode(l, c)    == IF valid_opcode(c.op) THEN [l EXCEPT !.core_opcode = c.op] ELSE l
Start(l, c)     == IF start_accepted(c) THEN [Cleared(l) EXCEPT !.core_start = TRUE]
                   ELSE IF c.start THEN [l EXCEPT !.error_latched = TRUE]
                   ELSE l

WriteControl ==
  /\ accepted /\ req.adr = "CTRL"
  /\ ctl' = Start(Opcode(SoftReset(Latched, req.ctrl), req.ctrl), req.ctrl)
  /\ data' = DataAfterCore
  /\ UNCHANGED seed

WriteIrqEnable ==
  /\ accepted /\ req.adr = "IRQ_ENABLE"
  /\ ctl' = [Latched EXCEPT !.irq_enable_done = req.bit]
  /\ data' = DataAfterCore
  /\ UNCHANGED seed

WriteIrqStatus ==
  /\ accepted /\ req.adr = "IRQ_STATUS"
  /\ ctl' = IF req.bit THEN [Latched EXCEPT !.irq_status_done = FALSE] ELSE Latched
  /\ data' = DataAfterCore
  /\ UNCHANGED seed

WriteSeed ==
  /\ accepted /\ req.adr = "SEED"
  /\ seed' = req.tok
  /\ ctl' = Latched
  /\ data' = DataAfterCore

WriteData ==
  /\ accepted /\ req.adr \in Windows
  /\ data' = [DataAfterCore EXCEPT ![req.adr] = req.tok]
  /\ ctl' = Latched
  /\ UNCHANGED seed

\* No write is accepted: no access, a read, a bad address, a blocked write,
\* or a write of the read-only STATUS.
WriteNothing ==
  /\ ~accepted \/ req.adr = "STATUS"
  /\ ctl' = Latched
  /\ data' = DataAfterCore
  /\ UNCHANGED seed

WrapperStep == WriteControl \/ WriteIrqEnable \/ WriteIrqStatus \/ WriteSeed
               \/ WriteData \/ WriteNothing
CoreAdvances == CoreIdle \/ CoreStage \/ CoreInReset
SlaveClock   == Respond /\ WrapperStep /\ (CoreAdvances \/ CoreWorks)

irq_o == ctl.irq_enable_done /\ ctl.irq_status_done

(***************************************************************************)
(* Any master: requests of any kind, one at a time, held until ack.        *)
(***************************************************************************)
AnyRequest ==
  {Read(a) : a \in Addrs} \cup {WriteCtrl(c) : c \in CtrlWord}
  \cup {WriteBit(a, b) : a \in {"IRQ_ENABLE", "IRQ_STATUS"}, b \in BOOLEAN}
  \cup {Write(a, t) : a \in Windows \cup {"SEED", "STATUS", "unmapped"}, t \in Calls}

AnyMaster ==
  \/ req.cyc /\ ~reply.ack /\ UNCHANGED req
  \/ req.cyc /\ reply.ack /\ req' = NoRequest
  \/ ~req.cyc /\ \E r \in AnyRequest \cup {NoRequest} : req' = r

vars == <<req, slaveVars>>
Next == SlaveClock /\ AnyMaster
Spec == Init /\ [][Next]_vars

-----------------------------------------------------------------------------
TypeOK ==
  /\ req \in Request
  /\ pending \in [on: BOOLEAN, err: BOOLEAN, dat: DataOut]
  /\ reply \in [ack: BOOLEAN, err: BOOLEAN, dat: DataOut]
  /\ ctl \in Control
  /\ core \in Core
  /\ data \in [Windows -> Tokens]
  /\ seed \in Tokens

\* Everything visible of an operation in one place at a time: while the start
\* pulse is out or the core is working, no completion is latched.  A second
\* start, an access in the cycle in which core_done is up and the one-cycle
\* lag of busy behind core_start are what could break it.
DoneMeansIdle ==
  ctl.done_latched =>
    /\ ~ctl.core_start
    /\ core.state = "S_IDLE" /\ ~core.busy

\* A start pulse never meets a working core, which would ignore it.
StartMeetsIdleCore ==
  ctl.core_start => core.state = "S_IDLE" /\ ~core.busy /\ ~core.done

\* tb_kyber_wb_slave.sv:229: when the interrupt is up, STATUS shows done.
IrqMeansDone == ctl.irq_status_done => ctl.done_latched

\* The inputs of an operation belong to the core from the start pulse on: no
\* write of the master changes the seed or the data window until it is done,
\* although busy, which blocks them, rises only a cycle after the pulse.
InputsHeldWhileBusy ==
  [][core.state # "S_IDLE" \/ ctl.core_start
       => seed' = seed /\ data' = DataAfterCore]_vars
=============================================================================
