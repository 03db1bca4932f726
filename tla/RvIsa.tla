-------------------------------- MODULE RvIsa --------------------------------
(***************************************************************************)
(* What the RV32I core promises a programmer: instructions take effect     *)
(* whole, once and in program order, and a trap separates the instructions *)
(* before mepc, all done, from those at and after it, none started.        *)
(*                                                                         *)
(* arch is the programmer-visible state.  Because the pipeline commits the *)
(* instruction in EX in the cycle in which it takes a trap for the next    *)
(* one, a step may also be an instruction followed by a trap entry.        *)
(***************************************************************************)
EXTENDS RvInstr

CONSTANT Programs    \* the instruction memories considered

VARIABLES arch,      \* [pc, regs, csr, mem]
          prog,      \* instruction memory
          irq        \* level of irq_i

isaVars == <<arch, prog, irq>>

ArchState == [pc: Addr, regs: [RegIds -> Nat], csr: CsrFile,
              mem: [DataWords -> Nat]]

InstrAt(s) == prog[WordOf(s.pc)]
OpA(s)     == s.regs[InstrAt(s).rs1]
OpB(s)     == s.regs[InstrAt(s).rs2]
DataAddr(s) == AluOut(InstrAt(s), OpA(s), OpB(s))

EnterTrap(s, cause, epc) ==
  [s EXCEPT !.pc = s.csr.mtvec, !.csr = TrapEntry(s.csr, cause, epc)]

(***************************************************************************)
(* The synchronous exceptions of the instruction at s.pc, as <<cause>> or  *)
(* <<>> when it has none.                                                  *)
(***************************************************************************)
FetchFault(s) == ~Misaligned(s.pc) /\ InstrAt(s).op = "fault"

SyncCause(s) ==
  IF Misaligned(s.pc) THEN <<CAUSE_MISALIGNED>>
  ELSE CASE InstrAt(s).op = "fault"   -> <<CAUSE_INSTR_BUS>>
         [] InstrAt(s).op = "illegal" -> <<CAUSE_ILLEGAL>>
         [] IsMem(InstrAt(s)) /\ Misaligned(DataAddr(s)) -> <<CAUSE_MISALIGNED>>
         [] /\ IsMem(InstrAt(s)) /\ ~Misaligned(DataAddr(s))
            /\ WordOf(DataAddr(s)) \notin DataWords -> <<CAUSE_DATA_BUS>>
         [] OTHER -> <<>>

NextPc(s) ==
  LET i == InstrAt(s)
  IN  CASE i.op = "mret"                -> s.csr.mepc
        [] IsJump(i, OpA(s), OpB(s))    -> JumpTarget(i, s.pc, OpA(s))
        [] OTHER                        -> Plus4(s.pc)

NextRegs(s) ==
  LET i == InstrAt(s)
  IN  IF ~RegWrite(i) THEN s.regs
      ELSE WriteReg(s.regs, i.rd,
             IF i.op = "load" THEN s.mem[WordOf(DataAddr(s))]
             ELSE WriteBackValue(i, s.pc, OpA(s), OpB(s), s.csr))

NextCsr(s) ==
  LET i == InstrAt(s)
  IN  CASE i.op = "mret"         -> MretCsr(s.csr)
        [] CsrWriteRequested(i)  -> CsrWrite(s.csr, i, OpA(s))
        [] OTHER                 -> s.csr

NextMem(s) ==
  IF InstrAt(s).op = "store"
    THEN [s.mem EXCEPT ![WordOf(DataAddr(s))] = OpB(s)]
    ELSE s.mem

\* The instruction at s.pc, whole.
Exec(s) == [pc |-> NextPc(s), regs |-> NextRegs(s),
            csr |-> NextCsr(s), mem |-> NextMem(s)]

(***************************************************************************)
(* Steps.                                                                  *)
(***************************************************************************)
Init ==
  /\ arch = [pc |-> ResetVector, regs |-> [r \in RegIds |-> 0],
             csr |-> CsrReset, mem |-> [w \in DataWords |-> 0]]
  /\ prog \in Programs
  /\ irq = FALSE

Execute ==
  /\ SyncCause(arch) = <<>>
  /\ arch' = Exec(arch)
  /\ UNCHANGED <<prog, irq>>

SyncTrap ==
  /\ SyncCause(arch) # <<>>
  /\ arch' = EnterTrap(arch, SyncCause(arch)[1], arch.pc)
  /\ UNCHANGED <<prog, irq>>

Interrupt ==
  /\ irq /\ IrqEnabled(arch.csr)
  /\ arch' = EnterTrap(arch, MCAUSE_EXT_IRQ, arch.pc)
  /\ UNCHANGED <<prog, irq>>

\* The instruction commits and the next boundary takes the interrupt.
ExecuteThenInterrupt ==
  /\ SyncCause(arch) = <<>>
  /\ LET s == Exec(arch)
     IN  /\ irq /\ IrqEnabled(s.csr)
         /\ arch' = EnterTrap(s, MCAUSE_EXT_IRQ, s.pc)
  /\ UNCHANGED <<prog, irq>>

\* The instruction commits and the fetch of the next one has failed.
ExecuteThenFetchFault ==
  /\ SyncCause(arch) = <<>>
  /\ LET s == Exec(arch)
     IN  /\ FetchFault(s)
         /\ arch' = EnterTrap(s, CAUSE_INSTR_BUS, s.pc)
  /\ UNCHANGED <<prog, irq>>

IrqLine ==
  /\ irq' = ~irq
  /\ UNCHANGED <<arch, prog>>

Next == \/ Execute \/ SyncTrap \/ Interrupt
        \/ ExecuteThenInterrupt \/ ExecuteThenFetchFault \/ IrqLine

Spec == Init /\ [][Next]_isaVars
=============================================================================
