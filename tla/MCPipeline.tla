----------------------------- MODULE MCPipeline -----------------------------
(***************************************************************************)
(* Small instances of Pipeline for TLC: words of W bits, registers x0..x2  *)
(* and every program that a chosen set of instruction words can form.      *)
(***************************************************************************)
EXTENDS Pipeline

CONSTANTS W

A == INSTANCE ALU

AluTable == [op \in AluOps, a \in Word, b \in Word |-> A!ALUResult(op, a, b)]
MCAlu(op, a, b) == AluTable[op, a, b]
MCWordSize == A!M

Encode(opcode, f3, f7, rd, rs1, rs2, imm) ==
  [opcode |-> opcode, funct3 |-> f3, funct7 |-> f7,
   rd |-> rd, rs1 |-> rs1, rs2 |-> rs2, imm |-> imm % WordSize]

addi(rd, rs1, imm)   == Encode("OP_IMM", FUNCT3_ADD_SUB, 0, rd, rs1, 0, imm)
lw(rd, rs1, imm)     == Encode("LOAD", FUNCT3_LW_SW, 0, rd, rs1, 0, imm)
sw(rs2, rs1, imm)    == Encode("STORE", FUNCT3_LW_SW, 0, 1, rs1, rs2, imm)
bne(rs1, rs2, imm)   == Encode("BRANCH", FUNCT3_BNE, 0, 2, rs1, rs2, imm)
jal(rd, imm)         == Encode("JAL", 0, 0, rd, 0, 0, imm)
jalr(rd, rs1, imm)   == Encode("JALR", FUNCT3_JALR, 0, rd, rs1, 0, imm)

\* Chains of dependences through the ALU, the data memory and a branch, every
\* kind of transfer among writes that a flush must cancel, and an illegal word.
MixedInstr ==
  { addi(1, 1, 4), lw(2, 1, 4), sw(1, 2, 4), bne(1, 2, 8), jal(1, 8), jalr(1, 1, 3),
    Encode("LOAD", 0, 0, 1, 1, 1, 1) }
=============================================================================
