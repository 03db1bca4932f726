------------------------------- MODULE RvInstr -------------------------------
(***************************************************************************)
(* The instruction-level operators of rtl/cpu/rv32i_2stage_wb.v that the   *)
(* two-stage pipeline (RvPipeline) and the sequential machine it is meant  *)
(* to implement (RvIsa) share: the classes the decoder tells apart, the    *)
(* ALU and target adders, the CSR file and trap entry.                     *)
(*                                                                         *)
(* An instruction is a record of the decoder's outputs, not a bit pattern: *)
(* [op, rd, rs1, rs2, imm, csr, csrop].  Addresses count half-words, so    *)
(* that bit 0 of a program counter, which the code always clears, does not *)
(* exist and bit 1, which the code checks, is the parity.                  *)
(***************************************************************************)
EXTENDS Naturals

CONSTANTS
  NumWords,    \* words in the address space (2^30 in the core)
  RegIds,      \* register numbers; 0 is x0
  DataWords,   \* words at which a load or a store is answered without error
  IrqVector,   \* reset value of mtvec
  ResetVector  \* reset value of pc

AddrSpace == 2 * NumWords
Addr      == 0 .. AddrSpace - 1
Words     == 0 .. NumWords - 1

ASSUME CpuConstants ==
  /\ NumWords \in Nat \ {0}
  /\ 0 \in RegIds
  /\ DataWords \subseteq Words
  /\ IrqVector \in Addr /\ IrqVector % 2 = 0
  /\ ResetVector \in Addr

WordOf(a)     == a \div 2
Misaligned(a) == a % 2 = 1
Wrap(n)       == n % AddrSpace
Plus4(a)      == Wrap(a + 2)

Ops    == {"alui", "alur", "load", "store", "jal", "jalr", "branch",
           "csr", "mret", "fence", "illegal", "fault"}
Csrs   == {"mstatus", "mie", "mtvec", "mepc", "mcause"}
CsrOps == {"read", "write", "set", "clear"}

\* "fault" is no instruction: it marks a word whose fetch ends in wb_err_i.
\* CSR writes are the forms the firmware has: csrs and csrc of one bit of
\* mstatus or mie (irq.c), csrw of the others (crt0.S).
Instr ==
  { i \in [op: Ops, rd: RegIds, rs1: RegIds, rs2: RegIds, imm: Addr,
           csr: Csrs, csrop: CsrOps] :
      /\ i.csrop \in {"set", "clear"} => i.csr \in {"mstatus", "mie"}
      /\ i.csrop = "write" => i.csr \in {"mtvec", "mepc", "mcause"} }

CAUSE_INSTR_BUS  == 1
CAUSE_DATA_BUS   == 2
CAUSE_ILLEGAL    == 3
CAUSE_MISALIGNED == 4
MCAUSE_EXT_IRQ   == 11   \* 32'h8000_000B; the top bit is dropped

(***************************************************************************)
(* Decoder classes and execute-stage arithmetic.                           *)
(***************************************************************************)
IsMem(i)     == i.op \in {"load", "store"}
RegWrite(i)  == i.op \in {"alui", "alur", "load", "jal", "jalr", "csr"}
IsJump(i, a, b) == \/ i.op \in {"jal", "jalr"}
                   \/ i.op = "branch" /\ a = b

AluOut(i, a, b) == Wrap(a + (IF i.op = "alur" THEN b ELSE i.imm))

JumpTarget(i, ipc, a) ==
  IF i.op = "jalr" THEN Wrap(a + i.imm) ELSE Wrap(ipc + i.imm)

(***************************************************************************)
(* The CSR file.  mstatus keeps the two bits the hardware reads (mie is    *)
(* bit 3, mpie bit 7) and mie keeps meie (bit 11); csrs/csrc on them act   *)
(* on the bit irq.c names.  A "read" is csrr: CSR_SET with a zero source.  *)
(***************************************************************************)
CsrFile == [mie: BOOLEAN, mpie: BOOLEAN, meie: BOOLEAN,
            mtvec: Addr, mepc: Addr, mcause: Nat]

CsrReset == [mie |-> FALSE, mpie |-> FALSE, meie |-> FALSE,
             mtvec |-> IrqVector, mepc |-> 0, mcause |-> 0]

IrqEnabled(csr) == csr.mie /\ csr.meie

CsrWriteRequested(i) == i.op = "csr" /\ i.csrop # "read"

CsrOldValue(csr, i) ==
  CASE i.csr = "mtvec"  -> csr.mtvec
    [] i.csr = "mepc"   -> csr.mepc
    [] i.csr = "mcause" -> csr.mcause
    [] OTHER            -> 0   \* mstatus and mie are read into x0 only

CsrWrite(csr, i, a) ==
  CASE i.csr = "mstatus" -> [csr EXCEPT !.mie = (i.csrop = "set")]
    [] i.csr = "mie"     -> [csr EXCEPT !.meie = (i.csrop = "set")]
    [] i.csr = "mtvec"   -> [csr EXCEPT !.mtvec = Wrap(a) - (a % 2)]
    [] i.csr = "mepc"    -> [csr EXCEPT !.mepc = Wrap(a)]
    [] OTHER             -> [csr EXCEPT !.mcause = a]

TrapEntry(csr, cause, epc) ==
  [csr EXCEPT !.mepc = epc, !.mcause = cause, !.mpie = csr.mie, !.mie = FALSE]

MretCsr(csr) == [csr EXCEPT !.mie = csr.mpie, !.mpie = TRUE]

(***************************************************************************)
(* Write-back.  x0 is never written.                                       *)
(***************************************************************************)
WriteBackValue(i, ipc, a, b, csr) ==
  CASE i.op \in {"jal", "jalr"} -> Plus4(ipc)
    [] i.op = "csr"             -> CsrOldValue(csr, i)
    [] OTHER                    -> AluOut(i, a, b)

WriteReg(regs, rd, v) == IF rd = 0 THEN regs ELSE [regs EXCEPT ![rd] = v]
=============================================================================
