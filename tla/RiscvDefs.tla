------------------------------ MODULE RiscvDefs ------------------------------
(***************************************************************************)
(* What rtl_pipeline/ and the sequential machine it implements share: the  *)
(* word, the instruction fields and the two memories' index functions.     *)
(* An instruction is a record of the fields the RTL slices out of the      *)
(* 32-bit word; "imm" is the sign-extended immediate of the format the     *)
(* opcode has, as ImmGen.v gathers it.                                     *)
(***************************************************************************)
EXTENDS Integers

CONSTANTS
  WordSize,      \* the number of values of a 32-bit register: 2^32 in the RTL
  RegIds,        \* the register numbers, 0..31 in the RTL; 0 is x0
  IMEM_DEPTH,    \* words in the instruction memory
  DMEM_DEPTH,    \* words in the data memory
  Instr,         \* the instruction words a program may hold
  Alu(_, _, _)   \* Alu(op, a, b): what the ALU returns (module ALU)

ASSUME WordSizeAssumption == WordSize \in Nat \ {0}
ASSUME RegIdsAssumption   == RegIds \subseteq Nat /\ 0 \in RegIds
ASSUME DepthAssumption    == IMEM_DEPTH \in Nat \ {0} /\ DMEM_DEPTH \in Nat \ {0}

Word == 0 .. (WordSize - 1)

Opcodes == {"OP", "OP_IMM", "LOAD", "STORE", "BRANCH", "JAL", "JALR", "OTHER"}
AluOps  == {"ADD", "SUB", "AND", "OR", "SLL", "SRL", "XOR", "SRA"}

FUNCT3_ADD_SUB == 0
FUNCT3_SLL     == 1
FUNCT3_LW_SW   == 2
FUNCT3_XOR     == 4
FUNCT3_SRL     == 5
FUNCT3_OR      == 6
FUNCT3_AND     == 7
FUNCT3_BEQ     == 0
FUNCT3_BNE     == 1
FUNCT3_JALR    == 0

FUNCT7_ADD == 0     \* also and, or, xor, sll, srl
FUNCT7_SUB == 32    \* also sra

InstrRecord == [opcode : Opcodes, funct3 : 0 .. 7, funct7 : 0 .. 127,
                rd : RegIds, rs1 : RegIds, rs2 : RegIds, imm : Word]

ASSUME InstrAssumption == Instr \subseteq InstrRecord

ASSUME AluAssumption ==
  /\ \A op \in AluOps, a, b \in Word : Alu(op, a, b) \in Word
  /\ \A a, b \in Word : Alu("ADD", a, b) = (a + b) % WordSize

RESET_PC == 0

NOP_INSTR == [opcode |-> "OP_IMM", funct3 |-> 0, funct7 |-> 0,
              rd |-> 0, rs1 |-> 0, rs2 |-> 0, imm |-> 0]

\* A 32-bit sum, and the sum with bit 0 cleared (the "& 32'hffff_fffe").
Plus(a, b) == (a + b) % WordSize
Even(a)    == a - (a % 2)

\* word_addr = addr[ADDR_W+1:2]: the low two bits and the high bits are ignored.
IMemIndex(a) == (a \div 4) % IMEM_DEPTH
DMemIndex(a) == (a \div 4) % DMEM_DEPTH

\* A register-file read: x0 reads as zero, and a write to x0 is dropped.
ReadReg(rf, r)     == IF r = 0 THEN 0 ELSE rf[r]
WriteReg(rf, r, v) == IF r = 0 THEN rf ELSE [rf EXCEPT ![r] = v]
=============================================================================
