---------------------------- MODULE MCRvPipeline ----------------------------
(***************************************************************************)
(* Small instances of RvPipeline: an address space of three words, x0 and  *)
(* x1, and every program over a set of instructions that covers each       *)
(* class of the decoder.                                                   *)
(***************************************************************************)
EXTENDS RvPipeline

I(op, rd, rs1, rs2, imm) ==
  [op |-> op, rd |-> rd, rs1 |-> rs1, rs2 |-> rs2, imm |-> imm,
   csr |-> "mstatus", csrop |-> "read"]

C(csrop, c, rd, rs1) ==
  [op |-> "csr", rd |-> rd, rs1 |-> rs1, rs2 |-> 0, imm |-> 0,
   csr |-> c, csrop |-> csrop]

MCRegs == {0, 1}

\* x1 := x1 + 1;  x1 := x1 + x1
DataInstrs == {I("alui", 1, 1, 0, 1), I("alur", 1, 1, 1, 0),
               I("load", 1, 0, 0, 0), I("store", 0, 1, 1, 0)}

JumpInstrs == {I("jal", 1, 0, 0, 4), I("jalr", 0, 1, 0, 0),
               I("branch", 0, 1, 0, 4)}

SystemInstrs == {I("mret", 0, 0, 0, 0), I("illegal", 0, 0, 0, 0),
                 I("fault", 0, 0, 0, 0), I("fence", 0, 0, 0, 0)}

IrqInstrs == {C("set", "mstatus", 0, 0), C("clear", "mstatus", 0, 0),
              C("set", "mie", 0, 0), C("write", "mepc", 1, 1),
              C("read", "mcause", 1, 0), C("write", "mtvec", 0, 1)}

MCInstrs == DataInstrs \cup JumpInstrs \cup SystemInstrs \cup IrqInstrs

AllPrograms == [0 .. NumWords - 1 -> MCInstrs]
=============================================================================
