-------------------------- MODULE RvPipelineProofs --------------------------
(***************************************************************************)
(* Proofs about the two-stage pipeline: type correctness, the bus-port,    *)
(* ordering and forwarding invariants, and precise execution.              *)
(***************************************************************************)
EXTENDS RvPipeline, TLAPS

-----------------------------------------------------------------------------
(***************************************************************************)
(* Addresses.                                                              *)
(***************************************************************************)

LEMMA AddrIsNat == Addr \subseteq Nat
  BY CpuConstants DEF Addr, AddrSpace

\* An adder's result wraps into the address space.
LEMMA WrapInAddr == \A n \in Nat : Wrap(n) \in Addr
  BY CpuConstants DEF Wrap, Addr, AddrSpace

LEMMA WordOfInWords == \A a \in Addr : WordOf(a) \in Words
  BY CpuConstants DEF WordOf, Addr, AddrSpace, Words

\* pc + 4 is an address, and aligned when pc is.
LEMMA Plus4Addr == \A a \in Addr : Plus4(a) \in Addr
  BY CpuConstants, WrapInAddr DEF Plus4, Addr, AddrSpace

LEMMA Plus4Aligned == \A a \in Addr : ~Misaligned(a) => ~Misaligned(Plus4(a))
  BY CpuConstants DEF Plus4, Wrap, Misaligned, Addr, AddrSpace

-----------------------------------------------------------------------------
(***************************************************************************)
(* Types of what the stages compute.                                       *)
(***************************************************************************)

LEMMA NoInstrType == NoInstr \in Instr
  BY CpuConstants DEF NoInstr, Instr, Ops, Csrs, CsrOps, Addr, AddrSpace

LEMMA ProgType ==
  ASSUME TypeOK
  PROVE  \A a \in Addr : prog[WordOf(a)] \in Instr
  BY ProgramsAssumption, WordOfInWords DEF TypeOK

LEMMA TrapEntryType ==
  ASSUME NEW c \in CsrFile, NEW cause \in Nat, NEW epc \in Addr
  PROVE  TrapEntry(c, cause, epc) \in CsrFile
  BY DEF TrapEntry, CsrFile

LEMMA MretCsrType ==
  ASSUME NEW c \in CsrFile
  PROVE  MretCsr(c) \in CsrFile
  BY DEF MretCsr, CsrFile

LEMMA CsrWriteType ==
  ASSUME NEW c \in CsrFile, NEW i \in Instr, NEW a \in Nat
  PROVE  CsrWrite(c, i, a) \in CsrFile
<1>1. Wrap(a) \in Addr
  BY WrapInAddr
<1>2. Wrap(a) - (a % 2) \in Addr
  BY CpuConstants DEF Wrap, Addr, AddrSpace
<1>3. QED
  BY <1>1, <1>2 DEF CsrWrite, CsrFile

LEMMA AluOutType ==
  ASSUME NEW i \in Instr, NEW a \in Nat, NEW b \in Nat
  PROVE  AluOut(i, a, b) \in Addr
<1>1. i.imm \in Nat
  BY CpuConstants DEF Instr, Addr, AddrSpace
<1>2. QED
  BY <1>1, WrapInAddr DEF AluOut

LEMMA JumpTargetType ==
  ASSUME NEW i \in Instr, NEW ipc \in Addr, NEW a \in Nat
  PROVE  JumpTarget(i, ipc, a) \in Addr
<1>1. i.imm \in Nat /\ ipc \in Nat
  BY CpuConstants DEF Instr, Addr, AddrSpace
<1>2. QED
  BY <1>1, WrapInAddr DEF JumpTarget

LEMMA WriteBackType ==
  ASSUME NEW i \in Instr, NEW ipc \in Addr, NEW a \in Nat, NEW b \in Nat,
         NEW c \in CsrFile
  PROVE  WriteBackValue(i, ipc, a, b, c) \in Nat
<1>1. AluOut(i, a, b) \in Addr /\ Plus4(ipc) \in Addr
  BY AluOutType, Plus4Addr
<1>2. CsrOldValue(c, i) \in Nat
  BY CpuConstants DEF CsrOldValue, CsrFile, Addr, AddrSpace
<1>3. QED
  BY <1>1, <1>2, AddrIsNat DEF WriteBackValue

LEMMA WriteRegType ==
  ASSUME NEW f \in [RegIds -> Nat], NEW rd \in RegIds, NEW v \in Nat
  PROVE  WriteReg(f, rd, v) \in [RegIds -> Nat]
  BY DEF WriteReg

LEMMA RegsNextType ==
  ASSUME TypeOK
  PROVE  RegsNext \in [RegIds -> Nat]
<1>1. EX \in Instr /\ id_ex.pc \in Addr /\ id_ex.a \in Nat /\ id_ex.b \in Nat
      /\ csr \in CsrFile /\ regs \in [RegIds -> Nat]
  BY DEF TypeOK, EX
<1>2. EX.rd \in RegIds
  BY <1>1 DEF Instr
<1>3. WriteBackValue(EX, id_ex.pc, id_ex.a, id_ex.b, csr) \in Nat
  BY <1>1, WriteBackType
<1>4. mem_done /\ ~wb_err => mem[WordOf(bus.adr)] \in Nat
  BY DEF mem_done, wb_err, TypeOK
<1>5. QED
  BY <1>1, <1>2, <1>3, <1>4, WriteRegType DEF RegsNext

LEMMA TrapType ==
  ASSUME TypeOK, trap_taken
  PROVE  Trap[1] \in Nat /\ Trap[2] \in Addr
<1>1. pc \in Addr /\ fetch_pc \in Addr /\ id_ex.pc \in Addr
  BY DEF TypeOK
<1>2. QED
  BY <1>1 DEF trap_taken, Trap, CAUSE_INSTR_BUS, CAUSE_DATA_BUS, CAUSE_ILLEGAL,
     CAUSE_MISALIGNED, MCAUSE_EXT_IRQ

-----------------------------------------------------------------------------
(***************************************************************************)
(* What the absence of a trap says about a cycle.                          *)
(***************************************************************************)
LEMMA NoTrap ==
  ASSUME ~trap_taken
  PROVE  /\ ~exec_sync_exception
         /\ fetch_done /\ ~exec_control_redirect => ~wb_err
         /\ mem_done => ~wb_err
         /\ pipeline_idle => ~Misaligned(pc)
<1>1. Trap = <<>>
  BY DEF trap_taken
<1>2. ~(exec_active /\ EX.op = "illegal")
  BY <1>1 DEF Trap
<1>3. ~(exec_sync_exception /\ EX.op # "illegal")
  BY <1>1, <1>2 DEF Trap
<1>4. ~exec_sync_exception
  BY <1>2, <1>3 DEF exec_sync_exception
<1>5. ~(fetch_done /\ wb_err /\ ~exec_control_redirect)
  BY <1>1, <1>2, <1>4 DEF Trap
<1>6. ~(mem_done /\ wb_err)
  BY <1>1, <1>2, <1>4, <1>5 DEF Trap
<1>7. ~(pipeline_idle /\ Misaligned(pc))
  BY <1>1, <1>2, <1>4, <1>5, <1>6 DEF Trap
<1>8. QED
  BY <1>4, <1>5, <1>6, <1>7

-----------------------------------------------------------------------------
(***************************************************************************)
(* Type correctness.                                                       *)
(***************************************************************************)
LEMMA TypeInit == Init => TypeOK
<1>1. ResetVector \in Addr /\ IrqVector \in Addr /\ 0 \in Addr /\ 0 \in RegIds
  BY CpuConstants DEF Addr, AddrSpace
<1>2. CsrReset \in CsrFile
  BY <1>1 DEF CsrReset, CsrFile
<1>3. NoBus \in [active: BOOLEAN, is_data: BOOLEAN, adr: Addr, we: BOOLEAN, dat: Nat]
  BY <1>1 DEF NoBus
<1>4. NoIfId \in [valid: BOOLEAN, pc: Addr, instr: Instr]
  BY <1>1, NoInstrType DEF NoIfId
<1>5. NoIdEx \in [valid: BOOLEAN, pc: Addr, instr: Instr, a: Nat, b: Nat]
  BY <1>1, NoInstrType DEF NoIdEx
<1>6. [r \in RegIds |-> 0] \in [RegIds -> Nat] /\ [w \in DataWords |-> 0] \in [DataWords -> Nat]
  OBVIOUS
<1>7. SUFFICES ASSUME Init PROVE TypeOK
  OBVIOUS
<1>8. bus = NoBus /\ if_id = NoIfId /\ id_ex = NoIdEx /\ csr = CsrReset
  BY <1>7 DEF Init
<1>9. QED
  BY <1>1, <1>2, <1>3, <1>4, <1>5, <1>6, <1>7, <1>8, Zenon DEF Init, TypeOK

\* A flush keeps the registers of the stages typed.
LEMMA FlushType ==
  ASSUME TypeOK, NEW t \in Addr, Flush(t)
  PROVE  /\ pc' \in Addr /\ fetch_pc' \in Addr
         /\ fetch_pending' \in BOOLEAN /\ data_pending' \in BOOLEAN
         /\ bus' \in [active: BOOLEAN, is_data: BOOLEAN, adr: Addr, we: BOOLEAN, dat: Nat]
         /\ if_id' \in [valid: BOOLEAN, pc: Addr, instr: Instr]
         /\ id_ex' \in [valid: BOOLEAN, pc: Addr, instr: Instr, a: Nat, b: Nat]
  BY DEF Flush, BusRelease, TypeOK

LEMMA StartFetchType ==
  ASSUME TypeOK, StartFetch
  PROVE  /\ pc' \in Addr /\ fetch_pc' \in Addr
         /\ fetch_pending' \in BOOLEAN /\ data_pending' \in BOOLEAN
         /\ bus' \in [active: BOOLEAN, is_data: BOOLEAN, adr: Addr, we: BOOLEAN, dat: Nat]
<1>1. pc \in Addr
  BY DEF TypeOK
<1>2. QED
  BY <1>1, Plus4Addr DEF StartFetch, FetchAt

LEMMA DecodeType ==
  ASSUME TypeOK, NEW ipc \in Addr, NEW i \in Instr, DecodeInto(ipc, i)
  PROVE  id_ex' \in [valid: BOOLEAN, pc: Addr, instr: Instr, a: Nat, b: Nat]
<1>1. i.rs1 \in RegIds /\ i.rs2 \in RegIds
  BY DEF Instr
<1>2. QED
  BY <1>1, RegsNextType DEF DecodeInto

LEMMA TypeStep == TypeOK /\ [Next]_vars => TypeOK'
<1> SUFFICES ASSUME TypeOK, [Next]_vars
             PROVE  TypeOK'
  OBVIOUS
<1>a. csr \in CsrFile /\ csr.mtvec \in Addr /\ csr.mepc \in Addr
  BY DEF TypeOK, CsrFile
<1>b. EX \in Instr /\ id_ex.pc \in Addr /\ id_ex.a \in Nat /\ id_ex.b \in Nat
  BY DEF TypeOK, EX
<1>c. alu_out \in Addr
  BY <1>b, AluOutType DEF alu_out
<1>d. prog[WordOf(bus.adr)] \in Instr
  BY ProgType DEF TypeOK
<1>e. trap_taken => TrapEntry(csr, Trap[1], Trap[2]) \in CsrFile
  BY <1>a, TrapType, TrapEntryType
<1>1. CASE TrapAtFetch
  BY <1>1, <1>a, <1>e, FlushType, RegsNextType DEF TrapAtFetch, TypeOK
<1>2. CASE Redirect
  <2>1. JumpTarget(EX, id_ex.pc, id_ex.a) \in Addr
    BY <1>b, JumpTargetType
  <2>2. MretCsr(csr) \in CsrFile
    BY <1>a, MretCsrType
  <2>3. QED
    BY <1>2, <1>a, <2>1, <2>2, FlushType, RegsNextType DEF Redirect, TypeOK
<1>3. CASE DataAccess
  BY <1>3, <1>b, <1>c, <1>d DEF DataAccess, TypeOK
<1>4. CASE Advance
  <2>1. CsrWrite(csr, EX, id_ex.a) \in CsrFile
    BY <1>a, <1>b, CsrWriteType
  <2>2. fetch_pc \in Addr
    BY DEF TypeOK
  <2>3. QED
    BY <1>4, <1>d, <2>1, <2>2, StartFetchType, DecodeType, RegsNextType
       DEF Advance, TypeOK
<1>5. CASE TrapAtMem
  BY <1>5, <1>a, <1>e, FlushType DEF TrapAtMem, TypeOK
<1>6. CASE AdvanceAfterMem
  <2>1. if_id.pc \in Addr /\ if_id.instr \in Instr
    BY DEF TypeOK
  <2>2. mem' \in [DataWords -> Nat]
    BY <1>6 DEF AdvanceAfterMem, TypeOK
  <2>3. QED
    BY <1>6, <2>1, <2>2, StartFetchType, DecodeType, RegsNextType
       DEF AdvanceAfterMem, TypeOK
<1>7. CASE TrapWhenIdle
  BY <1>7, <1>a, <1>e, FlushType DEF TrapWhenIdle, TypeOK
<1>8. CASE IssueWhenIdle
  BY <1>8, StartFetchType DEF IssueWhenIdle, TypeOK
<1>9. CASE IrqLine
  BY <1>9 DEF IrqLine, TypeOK, stageVars
<1>10. CASE UNCHANGED vars
  BY <1>10 DEF vars, stageVars, TypeOK
<1>11. QED
  BY <1>1, <1>2, <1>3, <1>4, <1>5, <1>6, <1>7, <1>8, <1>9, <1>10 DEF Next, Clock

\* Every register of the core keeps its type.
THEOREM TypeCorrect == Spec => []TypeOK
<1>1. QED
  BY TypeInit, TypeStep, PTL DEF Spec

-----------------------------------------------------------------------------
(***************************************************************************)
(* The inductive invariant.                                                *)
(***************************************************************************)
PipeInv == TypeOK /\ BusMatchesPending /\ InOrder /\ OperandsFresh

LEMMA PipeInit == Init => PipeInv
  BY TypeInit DEF Init, PipeInv, BusMatchesPending, InOrder, OperandsFresh,
     NoBus, NoIfId, NoIdEx

\* After a flush nothing is in flight.
LEMMA FlushInv ==
  ASSUME NEW t, Flush(t)
  PROVE  BusMatchesPending' /\ InOrder' /\ OperandsFresh'
  BY DEF Flush, BusRelease, BusMatchesPending, InOrder, OperandsFresh

LEMMA PipeStep == PipeInv /\ [Next]_vars => PipeInv'
<1> SUFFICES ASSUME PipeInv, [Next]_vars
             PROVE  BusMatchesPending' /\ InOrder' /\ OperandsFresh'
  BY TypeStep DEF PipeInv
<1>a. TypeOK /\ BusMatchesPending /\ InOrder /\ OperandsFresh
  BY DEF PipeInv
<1>1. CASE TrapAtFetch
  BY <1>1, FlushInv DEF TrapAtFetch
<1>2. CASE Redirect
  BY <1>2, FlushInv DEF Redirect
<1>3. CASE DataAccess
  <2>1. fetch_pending /\ bus.adr = fetch_pc /\ id_ex.valid /\ IsMem(EX)
    BY <1>3, <1>a DEF DataAccess, fetch_done, exec_data_access, exec_active,
       BusMatchesPending
  <2>2. ~Misaligned(alu_out)
    BY <1>3, NoTrap DEF DataAccess, exec_data_access, exec_sync_exception
  <2>3. ~wb_err
    BY <1>3, NoTrap, <2>1 DEF DataAccess, exec_control_redirect, IsMem, IsJump
  <2>4. prog[WordOf(fetch_pc)].op # "fault"
    BY <1>3, <2>1, <2>3 DEF DataAccess, fetch_done, wb_err
  <2>5. BusMatchesPending'
    BY <1>3, <2>1 DEF DataAccess, BusMatchesPending
  <2>6. InOrder'
    BY <1>3, <1>a, <2>1, <2>2, <2>4 DEF DataAccess, InOrder, EX, alu_out
  <2>7. OperandsFresh'
    BY <1>3, <1>a DEF DataAccess, OperandsFresh, EX
  <2>8. QED
    BY <2>5, <2>6, <2>7
<1>4. CASE Advance
  <2>1. fetch_pending /\ bus.adr = fetch_pc /\ ~Misaligned(fetch_pc)
        /\ pc = Plus4(fetch_pc) /\ ~bus.is_data
    BY <1>4, <1>a DEF Advance, fetch_done, BusMatchesPending, InOrder
  <2>2. prog[WordOf(fetch_pc)].op # "fault"
    BY <1>4, NoTrap, <2>1 DEF Advance, wb_err
  <2>3. ~Misaligned(pc)
    BY <2>1, <1>a, Plus4Aligned DEF TypeOK
  <2>4. BusMatchesPending'
    BY <1>4 DEF Advance, StartFetch, FetchAt, BusMatchesPending
  <2>5. InOrder'
    BY <1>4, <2>1, <2>2, <2>3
       DEF Advance, StartFetch, DecodeInto, InOrder, EX
  <2>6. OperandsFresh'
    BY <1>4 DEF Advance, DecodeInto, OperandsFresh, EX
  <2>7. QED
    BY <2>4, <2>5, <2>6
<1>5. CASE TrapAtMem
  BY <1>5, FlushInv DEF TrapAtMem
<1>6. CASE AdvanceAfterMem
  <2>1. if_id.instr = prog[WordOf(if_id.pc)] /\ if_id.instr.op # "fault"
        /\ ~Misaligned(if_id.pc) /\ pc = Plus4(if_id.pc)
    BY <1>6, <1>a DEF AdvanceAfterMem, mem_done, InOrder
  <2>2. ~Misaligned(pc)
    BY <2>1, <1>a, Plus4Aligned DEF TypeOK
  <2>3. BusMatchesPending'
    BY <1>6 DEF AdvanceAfterMem, StartFetch, FetchAt, BusMatchesPending
  <2>4. InOrder'
    BY <1>6, <2>1, <2>2 DEF AdvanceAfterMem, StartFetch, DecodeInto, InOrder, EX
  <2>5. OperandsFresh'
    BY <1>6 DEF AdvanceAfterMem, DecodeInto, OperandsFresh, EX
  <2>6. QED
    BY <2>3, <2>4, <2>5
<1>7. CASE TrapWhenIdle
  BY <1>7, FlushInv DEF TrapWhenIdle
<1>8. CASE IssueWhenIdle
  <2>1. ~Misaligned(pc)
    BY <1>8, NoTrap DEF IssueWhenIdle
  <2>2. ~id_ex'.valid /\ fetch_pending' = TRUE /\ data_pending' = FALSE
        /\ fetch_pc' = pc /\ pc' = Plus4(pc) /\ bus' = FetchAt(pc)
    BY <1>8, <1>a DEF IssueWhenIdle, StartFetch, TypeOK
  <2>3. BusMatchesPending'
    BY <2>2 DEF FetchAt, BusMatchesPending
  <2>4. InOrder'
    BY <2>1, <2>2 DEF InOrder
  <2>5. OperandsFresh'
    BY <2>2 DEF OperandsFresh
  <2>6. QED
    BY <2>3, <2>4, <2>5
<1>9. CASE IrqLine
  BY <1>9, <1>a DEF IrqLine, stageVars, BusMatchesPending, InOrder, OperandsFresh,
     EX, alu_out
<1>10. CASE UNCHANGED vars
  BY <1>10, <1>a DEF vars, stageVars, BusMatchesPending, InOrder, OperandsFresh,
     EX, alu_out
<1>11. QED
  BY <1>1, <1>2, <1>3, <1>4, <1>5, <1>6, <1>7, <1>8, <1>9, <1>10 DEF Next, Clock

\* For every address space, register file and program: the bus port carries
\* what the pending flags say, ...
THEOREM BusPortCorrect == Spec => []BusMatchesPending
<1>1. QED
  BY PipeInit, PipeStep, PTL DEF Spec, PipeInv

\* ... what is in flight is consecutive program text, ...
THEOREM InOrderCorrect == Spec => []InOrder
<1>1. QED
  BY PipeInit, PipeStep, PTL DEF Spec, PipeInv

\* ... and forwarding delivers the operands EX would read.
THEOREM ForwardingCorrect == Spec => []OperandsFresh
<1>1. QED
  BY PipeInit, PipeStep, PTL DEF Spec, PipeInv

-----------------------------------------------------------------------------
(***************************************************************************)
(* Precise execution.  Arch is the state the sequential machine is in.     *)
(***************************************************************************)
\* The instance's copies of the shared operators are the shared operators.
LEMMA SameAdders ==
  /\ \A a : Machine!WordOf(a) = WordOf(a)
  /\ \A a : Machine!Misaligned(a) = Misaligned(a)
  /\ \A a : Machine!Wrap(a) = Wrap(a)
  /\ \A a : Machine!Plus4(a) = Plus4(a)
  /\ \A i, a, b : Machine!AluOut(i, a, b) = AluOut(i, a, b)
  /\ \A i, ipc, a : Machine!JumpTarget(i, ipc, a) = JumpTarget(i, ipc, a)
<1>1. Machine!AddrSpace = AddrSpace
  BY DEF AddrSpace, Machine!AddrSpace
<1>2. \A a : Machine!Wrap(a) = Wrap(a)
  BY <1>1 DEF Wrap, Machine!Wrap
<1>3. QED
  BY <1>2 DEF WordOf, Machine!WordOf, Misaligned, Machine!Misaligned, Plus4,
     Machine!Plus4, AluOut, Machine!AluOut, JumpTarget, Machine!JumpTarget

LEMMA SameClasses ==
  /\ \A i : Machine!IsMem(i) = IsMem(i)
  /\ \A i : Machine!RegWrite(i) = RegWrite(i)
  /\ \A i : Machine!CsrWriteRequested(i) = CsrWriteRequested(i)
  /\ \A i, a, b : Machine!IsJump(i, a, b) = IsJump(i, a, b)
  BY DEF IsMem, Machine!IsMem, RegWrite, Machine!RegWrite, CsrWriteRequested,
     Machine!CsrWriteRequested, IsJump, Machine!IsJump

LEMMA SameCsrs ==
  /\ \A c : Machine!IrqEnabled(c) = IrqEnabled(c)
  /\ \A c : Machine!MretCsr(c) = MretCsr(c)
  /\ \A c, i, a : Machine!CsrWrite(c, i, a) = CsrWrite(c, i, a)
  /\ \A c, cause, epc : Machine!TrapEntry(c, cause, epc) = TrapEntry(c, cause, epc)
  BY SameAdders DEF IrqEnabled, Machine!IrqEnabled, MretCsr, Machine!MretCsr,
     CsrWrite, Machine!CsrWrite, TrapEntry, Machine!TrapEntry

LEMMA SameWriteBack ==
  /\ \A i, ipc, a, b, c :
       Machine!WriteBackValue(i, ipc, a, b, c) = WriteBackValue(i, ipc, a, b, c)
  /\ \A f, rd, v : Machine!WriteReg(f, rd, v) = WriteReg(f, rd, v)
<1>1. \A c, i : Machine!CsrOldValue(c, i) = CsrOldValue(c, i)
  BY DEF CsrOldValue, Machine!CsrOldValue
<1>2. QED
  BY <1>1, SameAdders DEF WriteBackValue, Machine!WriteBackValue, WriteReg,
     Machine!WriteReg

\* The sequential machine is at the instruction in EX, with EX's operands.
LEMMA ArchAtEx ==
  ASSUME PipeInv, id_ex.valid
  PROVE  /\ Arch = [pc |-> id_ex.pc, regs |-> regs, csr |-> csr, mem |-> mem]
         /\ Machine!InstrAt(Arch) = EX
         /\ Machine!OpA(Arch) = id_ex.a /\ Machine!OpB(Arch) = id_ex.b
         /\ Machine!DataAddr(Arch) = alu_out
         /\ ~Misaligned(id_ex.pc) /\ EX.op # "fault"
<1>1. ArchPc = id_ex.pc
  BY DEF ArchPc
<1>2. /\ EX = prog[WordOf(id_ex.pc)]
      /\ ~Misaligned(id_ex.pc) /\ EX.op # "fault"
  BY DEF PipeInv, InOrder
<1>3. id_ex.a = regs[EX.rs1] /\ id_ex.b = regs[EX.rs2]
  BY DEF PipeInv, OperandsFresh
<1>4. Machine!InstrAt(Arch) = EX
  BY <1>1, <1>2, SameAdders DEF Machine!InstrAt, Arch
<1>5. Machine!OpA(Arch) = id_ex.a /\ Machine!OpB(Arch) = id_ex.b
  BY <1>1, <1>3, <1>4 DEF Machine!OpA, Machine!OpB, Arch
<1>6. Machine!DataAddr(Arch) = alu_out
  BY <1>4, <1>5, SameAdders DEF Machine!DataAddr, alu_out
<1>7. QED
  BY <1>1, <1>2, <1>4, <1>5, <1>6 DEF Arch

\* An instruction that is not a memory access and not illegal has no
\* exception, and its effect is what the write-back stage computes.
LEMMA ExecNonMem ==
  ASSUME PipeInv, fetch_done, id_ex.valid, ~IsMem(EX), EX.op # "illegal"
  PROVE  /\ Machine!SyncCause(Arch) = <<>>
         /\ Machine!NextRegs(Arch) = RegsNext
         /\ Machine!NextMem(Arch) = mem
<1>1. Arch.pc = id_ex.pc /\ Arch.regs = regs /\ Arch.csr = csr /\ Arch.mem = mem
  BY ArchAtEx
<1>2. Machine!SyncCause(Arch) = <<>>
  BY ArchAtEx, <1>1, SameAdders, SameClasses DEF Machine!SyncCause
<1>3. Machine!NextMem(Arch) = mem
  BY ArchAtEx, <1>1 DEF Machine!NextMem, IsMem
<1>4. exec_active /\ EX.op # "load"
  BY DEF exec_active, IsMem
<1>5. Machine!NextRegs(Arch) = RegsNext
  <2>1. ~mem_done \/ EX.op # "load"
    BY <1>4
  <2>2. QED
    BY ArchAtEx, <1>1, <1>4, SameClasses, SameWriteBack
       DEF Machine!NextRegs, RegsNext
<1>6. QED
  BY <1>2, <1>3, <1>5

\* Without a redirect the sequential machine goes on to the fetched word.
LEMMA ExecInLine ==
  ASSUME PipeInv, fetch_done, id_ex.valid, ~IsMem(EX), EX.op # "illegal",
         ~exec_control_redirect
  PROVE  Machine!NextPc(Arch) = fetch_pc /\ EX.op # "mret"
<1>1. ~IsJump(EX, id_ex.a, id_ex.b) /\ EX.op # "mret"
  BY DEF exec_control_redirect, exec_active, exec_sync_exception
<1>2. fetch_pc = Plus4(id_ex.pc)
  BY DEF PipeInv, InOrder, fetch_done
<1>3. Arch.pc = id_ex.pc
  BY ArchAtEx
<1>4. QED
  BY <1>1, <1>2, <1>3, ArchAtEx, SameAdders, SameClasses DEF Machine!NextPc

LEMMA StutterDataAccess ==
  ASSUME PipeInv, DataAccess
  PROVE  UNCHANGED Machine!isaVars
<1>1. id_ex.valid
  BY DEF DataAccess, exec_data_access, exec_active
<1>2. ArchPc' = ArchPc
  BY <1>1 DEF DataAccess, ArchPc
<1>3. QED
  BY <1>2 DEF DataAccess, Machine!isaVars

LEMMA PreciseAdvance ==
  ASSUME PipeInv, Advance
  PROVE  Machine!Next \/ UNCHANGED Machine!isaVars
<1>1. ArchPc' = fetch_pc
  BY DEF Advance, DecodeInto, ArchPc
<1>2. regs' = RegsNext /\ mem' = mem /\ prog' = prog /\ irq' = irq
  BY DEF Advance
<1>3. CASE id_ex.valid
  <2>1. fetch_done /\ ~IsMem(EX) /\ EX.op # "illegal" /\ ~exec_control_redirect
    BY <1>3, NoTrap DEF Advance, exec_data_access, exec_active,
       exec_sync_exception
  <2>2. csr' = Machine!NextCsr(Arch)
    BY <1>3, <2>1, ArchAtEx, ExecInLine, SameClasses, SameCsrs
       DEF Advance, exec_active, Machine!NextCsr
  <2>3. Arch' = Machine!Exec(Arch)
    BY <1>1, <1>2, <1>3, <2>1, <2>2, ExecNonMem, ExecInLine DEF Machine!Exec, Arch
  <2>4. Machine!Execute
    BY <1>2, <1>3, <2>1, <2>3, ExecNonMem DEF Machine!Execute, Arch
  <2>5. QED
    BY <2>4 DEF Machine!Next
<1>4. CASE ~id_ex.valid
  <2>1. ArchPc = fetch_pc
    BY <1>4 DEF ArchPc, Advance, fetch_done
  <2>2. csr' = csr /\ RegsNext = regs
    BY <1>4 DEF Advance, exec_active, RegsNext, fetch_done, mem_done
  <2>3. QED
    BY <1>1, <1>2, <2>1, <2>2 DEF Machine!isaVars
<1>5. QED
  BY <1>3, <1>4

LEMMA PreciseRedirect ==
  ASSUME PipeInv, Redirect
  PROVE  Machine!Execute
<1>1. /\ id_ex.valid /\ ~IsMem(EX) /\ EX.op # "illegal" /\ fetch_done
      /\ IsJump(EX, id_ex.a, id_ex.b) \/ EX.op = "mret"
  BY DEF Redirect, exec_control_redirect, exec_active, exec_sync_exception,
     IsMem, IsJump
<1>2. Arch.pc = id_ex.pc /\ Arch.csr = csr
  BY <1>1, ArchAtEx
<1>3. ArchPc' = pc'
  BY DEF Redirect, Flush, ArchPc
<1>4. pc' = Machine!NextPc(Arch)
  <2>1. Machine!InstrAt(Arch) = EX /\ Machine!OpA(Arch) = id_ex.a
        /\ Machine!OpB(Arch) = id_ex.b
    BY <1>1, ArchAtEx
  <2>2. CASE EX.op = "mret"
    BY <1>2, <2>1, <2>2 DEF Redirect, Flush, Machine!NextPc, Machine!IsJump
  <2>3. CASE EX.op # "mret"
    <3>1. IsJump(EX, id_ex.a, id_ex.b)
      BY <1>1, <2>3
    <3>2. pc' = JumpTarget(EX, id_ex.pc, id_ex.a)
      BY <2>3 DEF Redirect, Flush
    <3>3. Machine!NextPc(Arch) = Machine!JumpTarget(EX, Arch.pc, id_ex.a)
      BY <2>1, <2>3, <3>1, SameClasses DEF Machine!NextPc
    <3>4. QED
      BY <1>2, <3>2, <3>3, SameAdders
  <2>4. QED
    BY <2>2, <2>3
<1>5. csr' = Machine!NextCsr(Arch)
  BY <1>1, <1>2, ArchAtEx, SameClasses, SameCsrs
     DEF Redirect, Machine!NextCsr, IsJump, CsrWriteRequested
<1>6. regs' = RegsNext /\ mem' = mem /\ prog' = prog /\ irq' = irq
  BY DEF Redirect
<1>7. Arch' = Machine!Exec(Arch)
  BY <1>1, <1>3, <1>4, <1>5, <1>6, ExecNonMem DEF Machine!Exec, Arch
<1>8. QED
  BY <1>1, <1>6, <1>7, ExecNonMem DEF Machine!Execute, Arch

\* At the end of a data access the sequential machine is at the load or
\* store in EX, whose only possible exception is the bus error.
LEMMA MemAtEx ==
  ASSUME PipeInv, mem_done
  PROVE  /\ id_ex.valid /\ IsMem(EX) /\ Arch.pc = id_ex.pc
         /\ bus.adr = alu_out /\ bus.we = (EX.op = "store") /\ bus.dat = id_ex.b
         /\ Machine!SyncCause(Arch) = IF wb_err THEN <<CAUSE_DATA_BUS>> ELSE <<>>
<1>1. /\ id_ex.valid /\ IsMem(EX) /\ bus.adr = alu_out /\ ~Misaligned(alu_out)
      /\ bus.we = (EX.op = "store") /\ bus.dat = id_ex.b
  BY DEF mem_done, PipeInv, InOrder
<1>2. Arch.pc = id_ex.pc
  BY <1>1, ArchAtEx
<1>3. wb_err <=> WordOf(alu_out) \notin DataWords
  BY <1>1 DEF mem_done, wb_err
<1>4. Machine!SyncCause(Arch) = IF wb_err THEN <<CAUSE_DATA_BUS>> ELSE <<>>
  BY <1>1, <1>2, <1>3, ArchAtEx, SameAdders, SameClasses
     DEF Machine!SyncCause, IsMem, CAUSE_DATA_BUS, Machine!CAUSE_DATA_BUS
<1>5. QED
  BY <1>1, <1>2, <1>4

LEMMA PreciseAdvanceAfterMem ==
  ASSUME PipeInv, AdvanceAfterMem
  PROVE  Machine!Execute
<1>1. mem_done /\ ~wb_err
  BY NoTrap DEF AdvanceAfterMem
<1>2. /\ id_ex.valid /\ IsMem(EX) /\ Arch.pc = id_ex.pc
      /\ bus.adr = alu_out /\ bus.we = (EX.op = "store") /\ bus.dat = id_ex.b
      /\ Machine!SyncCause(Arch) = <<>>
  BY <1>1, MemAtEx
<1>3. ArchPc' = if_id.pc /\ if_id.pc = Plus4(id_ex.pc)
  BY <1>1 DEF AdvanceAfterMem, DecodeInto, ArchPc, mem_done, PipeInv, InOrder
<1>4. ArchPc' = Machine!NextPc(Arch)
  BY <1>2, <1>3, ArchAtEx, SameAdders, SameClasses DEF Machine!NextPc, IsMem, IsJump
<1>5. csr' = Machine!NextCsr(Arch)
  BY <1>2, ArchAtEx, SameClasses
     DEF AdvanceAfterMem, Machine!NextCsr, IsMem, CsrWriteRequested, Arch
<1>6. Arch.regs = regs /\ Arch.mem = mem
  BY DEF Arch
<1>7. mem' = Machine!NextMem(Arch)
  BY <1>2, <1>6, ArchAtEx, SameAdders DEF AdvanceAfterMem, Machine!NextMem
<1>8. ~exec_active
  BY <1>1 DEF exec_active, fetch_done, mem_done
<1>9. RegsNext = IF EX.op = "load" THEN WriteReg(regs, EX.rd, mem[WordOf(alu_out)])
                                   ELSE regs
  BY <1>1, <1>2, <1>8 DEF RegsNext
<1>10. RegsNext = Machine!NextRegs(Arch)
  BY <1>2, <1>6, <1>9, ArchAtEx, SameAdders, SameClasses, SameWriteBack
     DEF Machine!NextRegs, IsMem, RegWrite
<1>11. regs' = RegsNext /\ prog' = prog /\ irq' = irq
  BY DEF AdvanceAfterMem
<1>12. Arch' = Machine!Exec(Arch)
  BY <1>4, <1>5, <1>7, <1>10, <1>11 DEF Machine!Exec, Arch
<1>13. QED
  BY <1>2, <1>11, <1>12 DEF Machine!Execute, Arch

\* Every trap entry moves the sequential machine to the handler.
LEMMA EnterTrapArch ==
  ASSUME NEW s, NEW cause, NEW epc,
         s = [pc |-> s.pc, regs |-> regs', csr |-> csr, mem |-> mem'],
         csr' = TrapEntry(csr, cause, epc), Flush(csr.mtvec)
  PROVE  Arch' = Machine!EnterTrap(s, cause, epc)
<1>1. ArchPc' = csr.mtvec
  BY DEF Flush, ArchPc
<1>2. Machine!EnterTrap(s, cause, epc)
        = [pc |-> s.csr.mtvec, regs |-> regs',
           csr |-> TrapEntry(s.csr, cause, epc), mem |-> mem']
  <2>1. DEFINE r == [pc |-> s.pc, regs |-> regs', csr |-> csr, mem |-> mem']
  <2>2. s = r /\ s.csr = csr
    OBVIOUS
  <2>3. Machine!EnterTrap(s, cause, epc)
          = [s EXCEPT !.pc = csr.mtvec, !.csr = TrapEntry(csr, cause, epc)]
    BY <2>2, SameCsrs DEF Machine!EnterTrap
  <2>4. @ = [r EXCEPT !.pc = csr.mtvec, !.csr = TrapEntry(csr, cause, epc)]
    BY <2>2
  <2>5. QED
    BY <2>2, <2>3, <2>4
<1>3. s.csr = csr
  OBVIOUS
<1>4. QED
  BY <1>1, <1>2, <1>3 DEF Arch

LEMMA PreciseTrapAtMem ==
  ASSUME PipeInv, TrapAtMem
  PROVE  Machine!SyncTrap
<1>1. mem_done /\ ~exec_active /\ ~fetch_done /\ ~pipeline_idle
  BY DEF TrapAtMem, mem_done, exec_active, fetch_done, pipeline_idle
<1>2. Trap = <<CAUSE_DATA_BUS, id_ex.pc>> /\ wb_err
  BY <1>1 DEF TrapAtMem, Trap, trap_taken, exec_sync_exception, exec_irq_pending
<1>3. Arch.pc = id_ex.pc /\ Machine!SyncCause(Arch) = <<CAUSE_DATA_BUS>>
  BY <1>1, <1>2, MemAtEx
<1>4. csr' = TrapEntry(csr, CAUSE_DATA_BUS, id_ex.pc) /\ Flush(csr.mtvec)
      /\ regs' = regs /\ mem' = mem /\ prog' = prog /\ irq' = irq
  BY <1>2 DEF TrapAtMem
<1>5. Arch' = Machine!EnterTrap(Arch, CAUSE_DATA_BUS, id_ex.pc)
  <2>1. Arch = [pc |-> Arch.pc, regs |-> regs', csr |-> csr, mem |-> mem']
    BY <1>4 DEF Arch
  <2>2. QED
    BY <1>4, <2>1, EnterTrapArch
<1>6. QED
  BY <1>3, <1>4, <1>5 DEF Machine!SyncTrap, Arch

LEMMA PreciseTrapWhenIdle ==
  ASSUME PipeInv, TrapWhenIdle
  PROVE  Machine!SyncTrap \/ Machine!Interrupt
<1>1. pipeline_idle /\ ~exec_active /\ ~fetch_done /\ ~mem_done
  BY DEF TrapWhenIdle, mem_done, exec_active, fetch_done, pipeline_idle
<1>2. Arch.pc = pc /\ Arch.csr = csr
  BY <1>1 DEF Arch, ArchPc, pipeline_idle, PipeInv, InOrder
<1>3. csr' = TrapEntry(csr, Trap[1], Trap[2]) /\ Flush(csr.mtvec)
      /\ regs' = regs /\ mem' = mem /\ prog' = prog /\ irq' = irq
  BY DEF TrapWhenIdle
<1>4. Arch' = Machine!EnterTrap(Arch, Trap[1], Trap[2])
  <2>1. Arch = [pc |-> Arch.pc, regs |-> regs', csr |-> csr, mem |-> mem']
    BY <1>3 DEF Arch
  <2>2. QED
    BY <1>3, <2>1, EnterTrapArch
<1>5. CASE Misaligned(pc)
  <2>1. Trap = <<CAUSE_MISALIGNED, pc>>
    BY <1>1, <1>5 DEF Trap, exec_sync_exception, exec_irq_pending
  <2>2. Machine!SyncCause(Arch) = <<CAUSE_MISALIGNED>>
    <3>1. Machine!Misaligned(Arch.pc)
      BY <1>2, <1>5, SameAdders
    <3>2. QED
      BY <3>1 DEF Machine!SyncCause, CAUSE_MISALIGNED, Machine!CAUSE_MISALIGNED
  <2>3. QED
    BY <1>2, <1>3, <1>4, <2>1, <2>2 DEF Machine!SyncTrap, Arch
<1>6. CASE ~Misaligned(pc)
  <2>1. Trap = <<MCAUSE_EXT_IRQ, pc>> /\ irq /\ IrqEnabled(csr)
    BY <1>1, <1>6 DEF TrapWhenIdle, trap_taken, Trap, exec_sync_exception,
       exec_irq_pending
  <2>2. QED
    BY <1>2, <1>3, <1>4, <2>1, SameCsrs
       DEF Machine!Interrupt, Arch, MCAUSE_EXT_IRQ, Machine!MCAUSE_EXT_IRQ
<1>7. QED
  BY <1>5, <1>6

\* A trap at the end of a fetch while EX is empty: the failed fetch is the
\* sequential machine's own instruction.
LEMMA PreciseTrapEmpty ==
  ASSUME PipeInv, TrapAtFetch, ~id_ex.valid
  PROVE  Machine!SyncTrap
<1>1. fetch_done /\ ~mem_done /\ ~pipeline_idle /\ ~exec_active
  BY DEF TrapAtFetch, mem_done, exec_active, fetch_done, pipeline_idle
<1>2. Trap = <<CAUSE_INSTR_BUS, fetch_pc>> /\ wb_err
  BY <1>1 DEF TrapAtFetch, Trap, trap_taken, exec_sync_exception,
     exec_irq_pending, exec_control_redirect
<1>3. /\ Arch.pc = fetch_pc /\ ~Misaligned(fetch_pc)
      /\ prog[WordOf(fetch_pc)].op = "fault"
  BY <1>1, <1>2 DEF Arch, ArchPc, fetch_done, wb_err, PipeInv,
     BusMatchesPending, InOrder
<1>4. Machine!SyncCause(Arch) = <<CAUSE_INSTR_BUS>>
  <2>1. Machine!InstrAt(Arch).op = "fault" /\ ~Machine!Misaligned(Arch.pc)
    BY <1>3, SameAdders DEF Machine!InstrAt, Arch
  <2>2. QED
    BY <2>1 DEF Machine!SyncCause, Machine!IsMem, CAUSE_INSTR_BUS, Machine!CAUSE_INSTR_BUS
<1>5. csr' = TrapEntry(csr, CAUSE_INSTR_BUS, fetch_pc) /\ Flush(csr.mtvec)
      /\ mem' = mem /\ prog' = prog /\ irq' = irq
  BY <1>2 DEF TrapAtFetch
<1>6. regs' = regs
  BY <1>1 DEF TrapAtFetch, RegsNext
<1>7. Arch' = Machine!EnterTrap(Arch, CAUSE_INSTR_BUS, fetch_pc)
  <2>1. Arch = [pc |-> Arch.pc, regs |-> regs', csr |-> csr, mem |-> mem']
    BY <1>5, <1>6 DEF Arch
  <2>2. QED
    BY <1>5, <2>1, EnterTrapArch
<1>8. QED
  BY <1>3, <1>4, <1>5, <1>7 DEF Machine!SyncTrap, Arch

\* EX's own exception: nothing of EX is done.
LEMMA PreciseTrapOwn ==
  ASSUME PipeInv, TrapAtFetch, exec_sync_exception
  PROVE  Machine!SyncTrap
<1>1. /\ exec_active /\ fetch_done /\ id_ex.valid /\ ~mem_done /\ ~pipeline_idle
      /\ EX.op = "illegal" \/ (IsMem(EX) /\ Misaligned(alu_out))
  BY DEF TrapAtFetch, mem_done, exec_active, fetch_done, pipeline_idle,
     exec_sync_exception
<1>2. PICK c : Trap = <<c, id_ex.pc>> /\ Machine!SyncCause(Arch) = <<c>>
  <2>1. /\ Arch.pc = id_ex.pc /\ ~Machine!Misaligned(Arch.pc)
        /\ Machine!InstrAt(Arch) = EX /\ EX.op # "fault"
        /\ Machine!DataAddr(Arch) = alu_out
    BY <1>1, ArchAtEx, SameAdders
  <2>2. CASE EX.op = "illegal"
    <3>1. Trap = <<CAUSE_ILLEGAL, id_ex.pc>>
      BY <1>1, <2>2 DEF Trap, exec_irq_pending
    <3>2. Machine!SyncCause(Arch) = <<CAUSE_ILLEGAL>>
      BY <2>1, <2>2 DEF Machine!SyncCause, Machine!IsMem, CAUSE_ILLEGAL,
         Machine!CAUSE_ILLEGAL
    <3>3. QED
      BY <3>1, <3>2
  <2>3. CASE EX.op # "illegal"
    <3>1. Trap = <<CAUSE_MISALIGNED, id_ex.pc>>
      BY <1>1, <2>3 DEF Trap, exec_irq_pending
    <3>2. Machine!IsMem(EX) /\ Machine!Misaligned(alu_out)
      BY <1>1, <2>3, SameAdders, SameClasses
    <3>3. Machine!SyncCause(Arch) = <<CAUSE_MISALIGNED>>
      BY <2>1, <2>3, <3>2 DEF Machine!SyncCause, CAUSE_MISALIGNED,
         Machine!CAUSE_MISALIGNED
    <3>4. QED
      BY <3>1, <3>3
  <2>4. QED
    BY <2>2, <2>3
<1>3. csr' = TrapEntry(csr, c, id_ex.pc) /\ Flush(csr.mtvec)
      /\ mem' = mem /\ prog' = prog /\ irq' = irq
  BY <1>2 DEF TrapAtFetch
<1>4. regs' = regs
  <2>1. ~(RegWrite(EX) /\ ~IsMem(EX))
    BY <1>1 DEF RegWrite
  <2>2. QED
    BY <1>1, <2>1 DEF TrapAtFetch, RegsNext
<1>5. Arch' = Machine!EnterTrap(Arch, c, id_ex.pc)
  <2>1. Arch = [pc |-> Arch.pc, regs |-> regs', csr |-> csr, mem |-> mem']
    BY <1>3, <1>4 DEF Arch
  <2>2. QED
    BY <1>3, <2>1, EnterTrapArch
<1>6. Arch.pc = id_ex.pc
  BY <1>1, ArchAtEx
<1>7. QED
  BY <1>2, <1>3, <1>5, <1>6 DEF Machine!SyncTrap, Arch

\* A trap for the next instruction that meets a memory access or a CSR write in
\* EX: registers, mepc and the handler are those of the whole instruction.
LEMMA DropsOnlyEffect ==
  ASSUME PipeInv, TrapAtFetch, fetch_done, id_ex.valid, EX.op # "illegal",
         IsMem(EX) \/ CsrWriteRequested(EX),
         \/ Trap = <<CAUSE_INSTR_BUS, fetch_pc>> /\ wb_err
         \/ Trap = <<MCAUSE_EXT_IRQ, fetch_pc>> /\ exec_irq_pending
  PROVE  TrapDropsEx
<1> DEFINE s == DroppedEx
<1>1. fetch_pc = Plus4(id_ex.pc) /\ ~Misaligned(fetch_pc)
  BY DEF PipeInv, InOrder, fetch_done
<1>2. mem' = mem /\ regs' = RegsNext /\ UNCHANGED <<prog, irq>>
  BY DEF TrapAtFetch
<1>3. s.regs = regs'
  <2>1. CASE IsMem(EX)
    <3>1. RegsNext = regs
      BY <2>1 DEF RegsNext, mem_done, fetch_done
    <3> QED BY <1>2, <2>1, <3>1 DEF DroppedEx
  <2>2. CASE ~IsMem(EX)
    BY <1>2, <2>2, ExecNonMem DEF DroppedEx
  <2> QED BY <2>1, <2>2
<1>4. s.pc = fetch_pc /\ s = [pc |-> s.pc, regs |-> regs', csr |-> csr, mem |-> mem']
  BY <1>1, <1>2, <1>3 DEF DroppedEx
<1>5. ASSUME NEW c, Trap = <<c, fetch_pc>>
      PROVE  Arch' = Machine!EnterTrap(s, c, fetch_pc)
  <2>1. csr' = TrapEntry(csr, c, fetch_pc) /\ Flush(csr.mtvec)
    BY <1>5 DEF TrapAtFetch
  <2> HIDE DEF s
  <2> QED BY <1>4, <2>1, EnterTrapArch
<1>6. CASE Trap = <<CAUSE_INSTR_BUS, fetch_pc>> /\ wb_err
  <2>1. prog[WordOf(fetch_pc)].op = "fault"
    BY <1>6 DEF fetch_done, wb_err, PipeInv, BusMatchesPending
  <2>2. Machine!FetchFault(s)
    BY <1>1, <1>4, <2>1, SameAdders DEF Machine!FetchFault, Machine!InstrAt
  <2> QED BY <1>2, <1>4, <1>5, <1>6, <2>2 DEF TrapDropsEx
<1>7. CASE Trap = <<MCAUSE_EXT_IRQ, fetch_pc>> /\ exec_irq_pending
  <2>1. irq /\ IrqEnabled(csr) /\ ~IsMem(EX)
    BY <1>7 DEF exec_irq_pending, exec_data_access
  <2> QED BY <1>2, <1>4, <1>5, <1>7, <2>1 DEF TrapDropsEx
<1> QED BY <1>6, <1>7

\* Any other trap at the end of a fetch: EX, if it is neither a memory access
\* nor a CSR write, is done, and the trap is taken at the instruction after it.
LEMMA PreciseTrapNext ==
  ASSUME PipeInv, TrapAtFetch, id_ex.valid, ~exec_sync_exception
  PROVE  Machine!Next \/ TrapDropsEx
<1>1. fetch_done /\ exec_active /\ ~mem_done /\ ~pipeline_idle
      /\ EX.op # "illegal"
  BY DEF TrapAtFetch, mem_done, exec_active, fetch_done, pipeline_idle,
     exec_sync_exception
<1>2. \/ Trap = <<CAUSE_INSTR_BUS, fetch_pc>> /\ wb_err /\ ~exec_control_redirect
      \/ /\ Trap = <<MCAUSE_EXT_IRQ, fetch_pc>> /\ ~wb_err
         /\ exec_irq_pending
  BY <1>1 DEF TrapAtFetch, Trap, trap_taken
<1>3. ~exec_control_redirect
  BY <1>2 DEF exec_irq_pending
<1>4. CASE IsMem(EX) \/ CsrWriteRequested(EX)
  BY <1>1, <1>2, <1>4, DropsOnlyEffect
<1>5. CASE ~IsMem(EX) /\ ~CsrWriteRequested(EX)
  <2> DEFINE s == Machine!Exec(Arch)
  <2>1. Machine!SyncCause(Arch) = <<>> /\ regs' = RegsNext /\ mem' = mem
        /\ prog' = prog /\ irq' = irq
    BY <1>1, <1>5, ExecNonMem DEF TrapAtFetch
  <2>2. Machine!NextCsr(Arch) = csr
    BY <1>1, <1>3, <1>5, ArchAtEx, ExecInLine, SameClasses
       DEF Machine!NextCsr, exec_active
  <2>3. s = [pc |-> fetch_pc, regs |-> regs', csr |-> csr, mem |-> mem']
    BY <1>1, <1>3, <1>5, <2>1, <2>2, ExecNonMem, ExecInLine DEF Machine!Exec
  <2>4. s.pc = fetch_pc /\ s.csr = csr
        /\ s = [pc |-> s.pc, regs |-> regs', csr |-> csr, mem |-> mem']
    BY <2>3
  <2>5. ASSUME NEW c, Trap = <<c, fetch_pc>>
        PROVE  Arch' = Machine!EnterTrap(s, c, fetch_pc)
    <3>1. csr' = TrapEntry(csr, c, fetch_pc) /\ Flush(csr.mtvec)
      BY <2>5 DEF TrapAtFetch
    <3> HIDE DEF s
    <3>2. QED
      BY <2>4, <3>1, EnterTrapArch
  <2>6. CASE Trap = <<CAUSE_INSTR_BUS, fetch_pc>> /\ wb_err
    <3>1. prog[WordOf(fetch_pc)].op = "fault" /\ ~Misaligned(fetch_pc)
      BY <1>1, <2>6 DEF fetch_done, wb_err, PipeInv, BusMatchesPending, InOrder
    <3>2. Machine!FetchFault(s)
      BY <2>4, <3>1, SameAdders DEF Machine!FetchFault, Machine!InstrAt
    <3>3. Arch' = Machine!EnterTrap(s, Machine!CAUSE_INSTR_BUS, s.pc)
      BY <2>4, <2>5, <2>6 DEF CAUSE_INSTR_BUS, Machine!CAUSE_INSTR_BUS
    <3>4. Machine!ExecuteThenFetchFault
      BY <2>1, <3>2, <3>3 DEF Machine!ExecuteThenFetchFault, Arch
    <3>5. QED
      BY <3>4 DEF Machine!Next
  <2>7. CASE Trap = <<MCAUSE_EXT_IRQ, fetch_pc>> /\ exec_irq_pending
    <3>1. irq /\ Machine!IrqEnabled(s.csr)
      BY <2>4, <2>7, SameCsrs DEF exec_irq_pending
    <3>2. Arch' = Machine!EnterTrap(s, Machine!MCAUSE_EXT_IRQ, s.pc)
      BY <2>4, <2>5, <2>7 DEF MCAUSE_EXT_IRQ, Machine!MCAUSE_EXT_IRQ
    <3>3. Machine!ExecuteThenInterrupt
      BY <2>1, <3>1, <3>2 DEF Machine!ExecuteThenInterrupt, Arch
    <3>4. QED
      BY <3>3 DEF Machine!Next
  <2>8. QED
    BY <1>2, <2>6, <2>7
<1>6. QED
  BY <1>4, <1>5

LEMMA PreciseIssue ==
  ASSUME PipeInv, IssueWhenIdle
  PROVE  UNCHANGED Machine!isaVars
<1>1. ArchPc' = pc /\ ArchPc = pc
  BY DEF IssueWhenIdle, StartFetch, ArchPc, pipeline_idle, PipeInv, InOrder
<1>2. QED
  BY <1>1 DEF IssueWhenIdle, Machine!isaVars

LEMMA PreciseStep ==
  PipeInv /\ [Next]_vars => [Machine!Next \/ TrapDropsEx]_(Machine!isaVars)
<1> SUFFICES ASSUME PipeInv, [Next]_vars
             PROVE  Machine!Next \/ TrapDropsEx \/ UNCHANGED Machine!isaVars
  OBVIOUS
<1>1. CASE TrapAtFetch
  <2>1. CASE ~id_ex.valid
    BY <1>1, <2>1, PreciseTrapEmpty DEF Machine!Next
  <2>2. CASE exec_sync_exception
    BY <1>1, <2>2, PreciseTrapOwn DEF Machine!Next
  <2>3. CASE id_ex.valid /\ ~exec_sync_exception
    BY <1>1, <2>3, PreciseTrapNext
  <2>4. QED
    BY <2>1, <2>2, <2>3
<1>2. CASE Redirect
  BY <1>2, PreciseRedirect DEF Machine!Next
<1>3. CASE DataAccess
  BY <1>3, StutterDataAccess
<1>4. CASE Advance
  BY <1>4, PreciseAdvance
<1>5. CASE TrapAtMem
  BY <1>5, PreciseTrapAtMem DEF Machine!Next
<1>6. CASE AdvanceAfterMem
  BY <1>6, PreciseAdvanceAfterMem DEF Machine!Next
<1>7. CASE TrapWhenIdle
  BY <1>7, PreciseTrapWhenIdle DEF Machine!Next
<1>8. CASE IssueWhenIdle
  BY <1>8, PreciseIssue
<1>9. CASE IrqLine
  <2>1. ArchPc' = ArchPc
    BY <1>9 DEF IrqLine, stageVars, ArchPc
  <2>2. Machine!IrqLine
    BY <1>9, <2>1 DEF IrqLine, stageVars, Machine!IrqLine
  <2>3. QED
    BY <2>2 DEF Machine!Next
<1>10. CASE UNCHANGED vars
  <2>1. ArchPc' = ArchPc
    BY <1>10 DEF vars, stageVars, ArchPc
  <2>2. QED
    BY <1>10, <2>1 DEF vars, Machine!isaVars
<1>11. QED
  BY <1>1, <1>2, <1>3, <1>4, <1>5, <1>6, <1>7, <1>8, <1>9, <1>10
     DEF Next, Clock

(***************************************************************************)
(* The pipeline, for every program, address space and slave latency, does  *)
(* in each cycle what one step of the sequential machine does, or nothing  *)
(* visible; the only exception is TrapDropsEx: a trap entry (lines 405-439 *)
(* and 684-712) that loses the load, the store or the CSR write in EX.     *)
(***************************************************************************)
THEOREM PrecisePipeline == Spec => PreciseSteps
<1>1. PipeInv /\ [Next]_vars => [Machine!Next \/ TrapDropsEx]_(Machine!isaVars)
  BY PreciseStep
<1>2. QED
  BY <1>1, PipeInit, PipeStep, PTL DEF Spec, PreciseSteps
=============================================================================
