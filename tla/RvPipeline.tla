----------------------------- MODULE RvPipeline -----------------------------
(***************************************************************************)
(* rtl/cpu/rv32i_2stage_wb.v: the two-stage RV32I core and its single      *)
(* Wishbone master port.  A step is the clock edge of a cycle in which     *)
(* something happens: a bus transaction ends (wb_done) or the pipeline is  *)
(* idle.  Cycles that only wait for the bus are stuttering steps, so a     *)
(* slave may take any number of cycles.  irq_i changes at any time.        *)
(***************************************************************************)
EXTENDS RvInstr

CONSTANT Programs    \* the instruction memories considered

ASSUME ProgramsAssumption == Programs \subseteq [Words -> Instr]

VARIABLES
  pc, fetch_pc,                  \* next address to fetch, address in flight
  fetch_pending, data_pending,
  bus,                           \* [active, is_data, adr, we, dat]
  if_id,                         \* [valid, pc, instr]
  id_ex,                         \* [valid, pc, instr, a, b]
  csr, regs,
  mem, prog,                     \* the memories behind the bus
  irq                            \* irq_i

stageVars == <<pc, fetch_pc, fetch_pending, data_pending, bus, if_id, id_ex>>
vars == <<stageVars, csr, regs, mem, prog, irq>>

NoInstr == [op |-> "illegal", rd |-> 0, rs1 |-> 0, rs2 |-> 0, imm |-> 0,
            csr |-> "mstatus", csrop |-> "read"]
NoBus   == [active |-> FALSE, is_data |-> FALSE, adr |-> 0, we |-> FALSE, dat |-> 0]
NoIfId  == [valid |-> FALSE, pc |-> 0, instr |-> NoInstr]
NoIdEx  == [valid |-> FALSE, pc |-> 0, instr |-> NoInstr, a |-> 0, b |-> 0]

Init ==
  /\ pc = ResetVector /\ fetch_pc = ResetVector
  /\ fetch_pending = FALSE /\ data_pending = FALSE
  /\ bus = NoBus /\ if_id = NoIfId /\ id_ex = NoIdEx
  /\ csr = CsrReset
  /\ regs = [r \in RegIds |-> 0]
  /\ mem = [w \in DataWords |-> 0]
  /\ prog \in Programs
  /\ irq = FALSE

(***************************************************************************)
(* Combinational signals.                                                  *)
(***************************************************************************)
fetch_done == fetch_pending /\ bus.active /\ ~bus.is_data
mem_done   == data_pending /\ bus.active /\ bus.is_data
wb_err     == IF bus.is_data THEN WordOf(bus.adr) \notin DataWords
                             ELSE prog[WordOf(bus.adr)].op = "fault"
pipeline_idle == ~fetch_pending /\ ~data_pending /\ ~bus.active

EX        == id_ex.instr
alu_out   == AluOut(EX, id_ex.a, id_ex.b)
exec_active == fetch_done /\ id_ex.valid
exec_sync_exception ==
  exec_active /\ (EX.op = "illegal" \/ (IsMem(EX) /\ Misaligned(alu_out)))
exec_data_access == exec_active /\ ~exec_sync_exception /\ IsMem(EX)
exec_control_redirect ==
  /\ exec_active /\ ~exec_sync_exception
  /\ IsJump(EX, id_ex.a, id_ex.b) \/ EX.op = "mret"
\* mutants: a taken jump does not hold the interrupt back; it is sampled
\* only while EX is empty
irq_ignores_redirect ==
  /\ exec_active /\ ~exec_sync_exception /\ ~exec_data_access
  /\ irq /\ IrqEnabled(csr)
irq_when_empty == fetch_done /\ ~id_ex.valid /\ irq /\ IrqEnabled(csr)

exec_irq_pending ==
  /\ exec_active /\ ~exec_sync_exception /\ ~exec_data_access
  /\ ~exec_control_redirect
  /\ irq /\ IrqEnabled(csr)

\* The trap priority chain, as <<cause, trap_pc>>; <<>> when none is pending.
Trap ==
  CASE exec_active /\ EX.op = "illegal" -> <<CAUSE_ILLEGAL, id_ex.pc>>
    [] exec_sync_exception /\ EX.op # "illegal" -> <<CAUSE_MISALIGNED, id_ex.pc>>
    [] fetch_done /\ ~exec_sync_exception /\ wb_err /\ ~exec_control_redirect
         -> <<CAUSE_INSTR_BUS, fetch_pc>>
    [] mem_done /\ wb_err -> <<CAUSE_DATA_BUS, id_ex.pc>>
    [] exec_irq_pending /\ ~wb_err -> <<MCAUSE_EXT_IRQ, fetch_pc>>
    [] pipeline_idle /\ Misaligned(pc) -> <<CAUSE_MISALIGNED, pc>>
    [] pipeline_idle /\ ~Misaligned(pc) /\ irq /\ IrqEnabled(csr)
         -> <<MCAUSE_EXT_IRQ, pc>>
    [] OTHER -> <<>>

trap_taken == Trap # <<>>

\* Register write-back of the instruction in EX, also in a trap's cycle.
RegsNext ==
  IF exec_active /\ RegWrite(EX) /\ ~IsMem(EX)
    THEN WriteReg(regs, EX.rd, WriteBackValue(EX, id_ex.pc, id_ex.a, id_ex.b, csr))
  ELSE IF mem_done /\ EX.op = "load" /\ ~wb_err
    THEN WriteReg(regs, EX.rd, mem[WordOf(bus.adr)])
  ELSE regs

\* mutant: the register file's read ports without the bypass
DecodeStale(ipc, i) ==
  id_ex' = [valid |-> TRUE, pc |-> ipc, instr |-> i,
            a |-> regs[i.rs1], b |-> regs[i.rs2]]

\* Decode: the operands are read with the write-back of this cycle bypassed.
DecodeInto(ipc, i) ==
  id_ex' = [valid |-> TRUE, pc |-> ipc, instr |-> i,
            a |-> RegsNext[i.rs1], b |-> RegsNext[i.rs2]]

FetchAt(a) == [active |-> TRUE, is_data |-> FALSE, adr |-> a, we |-> FALSE, dat |-> 0]
KeepCycle == [bus EXCEPT !.we = FALSE]    \* mutant: cyc and stb stay up
BusRelease == [bus EXCEPT !.active = FALSE, !.we = FALSE]

\* Present the next fetch on the bus and move pc past it.
StartFetch ==
  /\ fetch_pc' = pc
  /\ bus' = FetchAt(pc)
  /\ pc' = Plus4(pc)
  /\ fetch_pending' = TRUE
  /\ data_pending' = FALSE

\* mutant: the instruction in EX survives a flush
FlushKeepsEx(target) ==
  /\ pc' = target /\ fetch_pc' = target
  /\ if_id' = [if_id EXCEPT !.valid = FALSE]
  /\ fetch_pending' = FALSE /\ data_pending' = FALSE
  /\ bus' = BusRelease
  /\ UNCHANGED id_ex

\* Drop what is in flight and continue at the given address.
Flush(target) ==
  /\ pc' = target /\ fetch_pc' = target
  /\ if_id' = [if_id EXCEPT !.valid = FALSE]
  /\ id_ex' = [id_ex EXCEPT !.valid = FALSE]
  /\ fetch_pending' = FALSE /\ data_pending' = FALSE
  /\ bus' = BusRelease

(***************************************************************************)
(* Clock edges.                                                            *)
(***************************************************************************)
\* A trap at the end of a fetch: no CSR write of EX is made.
TrapAtFetch ==
  /\ fetch_done /\ trap_taken
  /\ csr' = TrapEntry(csr, Trap[1], Trap[2])
  /\ regs' = RegsNext
  /\ Flush(csr.mtvec)
  /\ UNCHANGED <<mem, prog, irq>>

\* A taken jump, branch or mret in EX: the word just fetched is discarded.
Redirect ==
  /\ fetch_done /\ ~trap_taken /\ exec_control_redirect
  /\ csr' = IF EX.op = "mret" THEN MretCsr(csr) ELSE csr
  /\ regs' = RegsNext
  /\ Flush(IF EX.op = "mret" THEN csr.mepc ELSE JumpTarget(EX, id_ex.pc, id_ex.a))
  /\ UNCHANGED <<mem, prog, irq>>

\* A load or store in EX takes the bus; the fetched word waits in IF/ID.
DataAccess ==
  /\ fetch_done /\ ~trap_taken /\ exec_data_access
  /\ if_id' = [valid |-> TRUE, pc |-> fetch_pc, instr |-> prog[WordOf(bus.adr)]]
  /\ bus' = [active |-> TRUE, is_data |-> TRUE, adr |-> alu_out,
             we |-> EX.op = "store", dat |-> id_ex.b]
  /\ fetch_pending' = FALSE /\ data_pending' = TRUE
  /\ UNCHANGED <<pc, fetch_pc, id_ex, csr, regs, mem, prog, irq>>

\* The steady state: EX retires, the fetched word is decoded, the next
\* fetch is issued.
Advance ==
  /\ fetch_done /\ ~trap_taken /\ ~exec_control_redirect /\ ~exec_data_access
  /\ csr' = IF exec_active /\ CsrWriteRequested(EX) THEN CsrWrite(csr, EX, id_ex.a)
                                                    ELSE csr
  /\ regs' = RegsNext
  /\ if_id' = [valid |-> FALSE, pc |-> fetch_pc, instr |-> prog[WordOf(bus.adr)]]
  /\ DecodeInto(fetch_pc, prog[WordOf(bus.adr)])
  /\ StartFetch
  /\ UNCHANGED <<mem, prog, irq>>

\* A load or store ended with wb_err.
TrapAtMem ==
  /\ mem_done /\ trap_taken
  /\ csr' = TrapEntry(csr, Trap[1], Trap[2])
  /\ Flush(csr.mtvec)
  /\ UNCHANGED <<regs, mem, prog, irq>>

\* A load or store ended: the word waiting in IF/ID is decoded.
AdvanceAfterMem ==
  /\ mem_done /\ ~trap_taken /\ if_id.valid
  /\ regs' = RegsNext
  /\ mem' = IF bus.we THEN [mem EXCEPT ![WordOf(bus.adr)] = bus.dat] ELSE mem
  /\ DecodeInto(if_id.pc, if_id.instr)
  /\ if_id' = [if_id EXCEPT !.valid = FALSE]
  /\ StartFetch
  /\ UNCHANGED <<csr, prog, irq>>

TrapWhenIdle ==
  /\ pipeline_idle /\ trap_taken
  /\ csr' = TrapEntry(csr, Trap[1], Trap[2])
  /\ Flush(csr.mtvec)
  /\ UNCHANGED <<regs, mem, prog, irq>>

IssueWhenIdle ==
  /\ pipeline_idle /\ ~trap_taken
  /\ id_ex' = [id_ex EXCEPT !.valid = FALSE]
  /\ if_id' = [if_id EXCEPT !.valid = FALSE]
  /\ StartFetch
  /\ UNCHANGED <<csr, regs, mem, prog, irq>>

\* The interrupt controller raises or drops its line.
IrqLine ==
  /\ irq' = ~irq
  /\ UNCHANGED <<stageVars, csr, regs, mem, prog>>

Clock == \/ TrapAtFetch \/ Redirect \/ DataAccess \/ Advance
         \/ TrapAtMem \/ AdvanceAfterMem \/ TrapWhenIdle \/ IssueWhenIdle

Next == Clock \/ IrqLine

Spec == Init /\ [][Next]_vars

\* Every slave answers, and the clock runs.
FairSpec == Spec /\ WF_vars(Clock)

(***************************************************************************)
(* The programmer's view: the instruction in EX has not happened yet.      *)
(***************************************************************************)
ArchPc == CASE id_ex.valid                    -> id_ex.pc
            [] ~id_ex.valid /\ fetch_pending  -> fetch_pc
            [] OTHER                          -> pc

Arch == [pc |-> ArchPc, regs |-> regs, csr |-> csr, mem |-> mem]

Machine == INSTANCE RvIsa
         WITH arch <- [pc |-> ArchPc, regs |-> regs, csr |-> csr, mem |-> mem]

\* The programmer's view of a trap that is not EX's own and drops a load, a
\* store or a CSR write in EX: behind it as after the whole instruction, a CSR
\* instruction's result register included, but without the access or the write.
DroppedEx == [pc |-> Plus4(id_ex.pc), csr |-> csr, mem |-> mem,
              regs |-> IF IsMem(EX) THEN regs ELSE Machine!NextRegs(Arch)]
TrapDropsEx ==
  /\ id_ex.valid
  /\ \/ /\ IsMem(EX) \/ CsrWriteRequested(EX)
        /\ Machine!FetchFault(DroppedEx)
        /\ Arch' = Machine!EnterTrap(DroppedEx, CAUSE_INSTR_BUS, DroppedEx.pc)
     \/ /\ CsrWriteRequested(EX)
        /\ irq /\ IrqEnabled(csr)
        /\ Arch' = Machine!EnterTrap(DroppedEx, MCAUSE_EXT_IRQ, DroppedEx.pc)
  /\ UNCHANGED <<prog, irq>>

-----------------------------------------------------------------------------
(***************************************************************************)
(* Properties.                                                             *)
(***************************************************************************)
TypeOK ==
  /\ pc \in Addr /\ fetch_pc \in Addr
  /\ fetch_pending \in BOOLEAN /\ data_pending \in BOOLEAN
  /\ bus \in [active: BOOLEAN, is_data: BOOLEAN, adr: Addr, we: BOOLEAN, dat: Nat]
  /\ if_id \in [valid: BOOLEAN, pc: Addr, instr: Instr]
  /\ id_ex \in [valid: BOOLEAN, pc: Addr, instr: Instr, a: Nat, b: Nat]
  /\ csr \in CsrFile
  /\ regs \in [RegIds -> Nat]
  /\ mem \in [DataWords -> Nat]
  /\ prog \in Programs
  /\ irq \in BOOLEAN

\* The single bus port carries exactly what the pending flags say, so an
\* answer is never taken for the other kind of access.
BusMatchesPending ==
  /\ bus.active <=> fetch_pending \/ data_pending
  /\ ~(fetch_pending /\ data_pending)
  /\ bus.active => bus.is_data = data_pending
  /\ fetch_pending => bus.adr = fetch_pc /\ ~bus.we

\* What is in flight is consecutive: IF/ID and the fetch follow EX, and EX
\* holds the instruction stored at its pc.  While a data access is under way
\* the next instruction is always held in IF/ID (the code's branch for an
\* empty IF/ID at mem_done is never taken).
InOrder ==
  /\ id_ex.valid =>
       /\ fetch_pending \/ data_pending
       /\ ~Misaligned(id_ex.pc)
       /\ EX = prog[WordOf(id_ex.pc)] /\ EX.op # "fault"
  /\ fetch_pending =>
       /\ pc = Plus4(fetch_pc) /\ ~Misaligned(fetch_pc)
       /\ id_ex.valid => fetch_pc = Plus4(id_ex.pc)
  /\ data_pending =>
       /\ id_ex.valid /\ if_id.valid
       /\ if_id.pc = Plus4(id_ex.pc) /\ pc = Plus4(if_id.pc)
       /\ if_id.instr = prog[WordOf(if_id.pc)] /\ if_id.instr.op # "fault"
       /\ ~Misaligned(if_id.pc)
       /\ IsMem(EX) /\ bus.adr = alu_out /\ ~Misaligned(alu_out)
       /\ bus.we = (EX.op = "store") /\ bus.dat = id_ex.b

\* Forwarding suffices: the operands captured at decode are the registers'
\* values when EX commits, for every producer, load results included.
OperandsFresh ==
  id_ex.valid => /\ id_ex.a = regs[EX.rs1]
                 /\ id_ex.b = regs[EX.rs2]

\* The pipeline implements the sequential machine in every step but those in
\* which a trap for the next instruction drops EX, and these lose the effect of
\* EX on memory or CSRs and nothing else.
PreciseSteps == [][Machine!Next \/ TrapDropsEx]_(Machine!isaVars)

\* rv32i_2stage_wb.v:118: "External interrupts are sampled at instruction
\* boundaries": an interrupt entry leaves no instruction half done.
InterruptAtBoundary ==
  [][TrapAtFetch /\ Trap[1] = MCAUSE_EXT_IRQ => Machine!Next]_vars

\* rv32i_2stage_wb.v:396: an enabled interrupt whose line stays up is taken; it
\* does not miss every sampling point for ever.  (A program of loads and stores
\* only has no such point, and never leaves them where the pc wraps.)
HasSamplingPoint == \E w \in Words : ~IsMem(prog[w])
IrqNotIgnored == ~<>[](irq /\ IrqEnabled(csr) /\ HasSamplingPoint)
=============================================================================
