--------------------------------- MODULE ISA ---------------------------------
(***************************************************************************)
(* What riscv_pipeline promises to a program: the sequential machine that  *)
(* executes one instruction per step, at pc, with the whole effect of each *)
(* instruction before the next one starts.  The instructions are those the *)
(* decoder accepts; any other word is skipped, since the core has no trap. *)
(*                                                                         *)
(* Reset may arrive between any two instructions.  It moves pc and nothing *)
(* else, except that the store at pc, if there is one, may still reach the *)
(* memory: the core gates no memory write with rst.                        *)
(***************************************************************************)
EXTENDS RiscvDefs

VARIABLES
  prog,    \* the program: instruction-memory words, never written
  pc,      \* the address of the next instruction
  regs,    \* the register file
  mem      \* the data memory

vars == <<prog, pc, regs, mem>>

ins == prog[IMemIndex(pc)]

Rs1 == ReadReg(regs, ins.rs1)
Rs2 == ReadReg(regs, ins.rs2)
Writes(v) == regs' = WriteReg(regs, ins.rd, v)
GoesOn    == pc' = Plus(pc, 4)

\* add, sub, sll, xor, srl, sra, or, and
RegisterOps ==
  { <<FUNCT3_ADD_SUB, FUNCT7_ADD, "ADD">>, <<FUNCT3_ADD_SUB, FUNCT7_SUB, "SUB">>,
    <<FUNCT3_SLL, FUNCT7_ADD, "SLL">>, <<FUNCT3_XOR, FUNCT7_ADD, "XOR">>,
    <<FUNCT3_SRL, FUNCT7_ADD, "SRL">>, <<FUNCT3_SRL, FUNCT7_SUB, "SRA">>,
    <<FUNCT3_OR, FUNCT7_ADD, "OR">>, <<FUNCT3_AND, FUNCT7_ADD, "AND">> }

\* addi, ori
ImmediateOps == { <<FUNCT3_ADD_SUB, "ADD">>, <<FUNCT3_OR, "OR">> }

IsRegisterOp(o)  == ins.opcode = "OP" /\ ins.funct3 = o[1] /\ ins.funct7 = o[2]
IsImmediateOp(o) == ins.opcode = "OP_IMM" /\ ins.funct3 = o[1]
IsLw     == ins.opcode = "LOAD"   /\ ins.funct3 = FUNCT3_LW_SW
IsSw     == ins.opcode = "STORE"  /\ ins.funct3 = FUNCT3_LW_SW
IsBeq    == ins.opcode = "BRANCH" /\ ins.funct3 = FUNCT3_BEQ
IsBne    == ins.opcode = "BRANCH" /\ ins.funct3 = FUNCT3_BNE
IsJal    == ins.opcode = "JAL"
IsJalr   == ins.opcode = "JALR"   /\ ins.funct3 = FUNCT3_JALR
IsLegal  == \/ \E o \in RegisterOps  : IsRegisterOp(o)
            \/ \E o \in ImmediateOps : IsImmediateOp(o)
            \/ IsLw \/ IsSw \/ IsBeq \/ IsBne \/ IsJal \/ IsJalr

Stored == [mem EXCEPT ![DMemIndex(Plus(Rs1, ins.imm))] = Rs2]

RegisterOp == \E o \in RegisterOps :
  IsRegisterOp(o) /\ Writes(Alu(o[3], Rs1, Rs2)) /\ GoesOn /\ UNCHANGED mem

ImmediateOp == \E o \in ImmediateOps :
  IsImmediateOp(o) /\ Writes(Alu(o[2], Rs1, ins.imm)) /\ GoesOn /\ UNCHANGED mem

Lw == /\ IsLw
      /\ Writes(mem[DMemIndex(Plus(Rs1, ins.imm))])
      /\ GoesOn
      /\ UNCHANGED mem

Sw == IsSw /\ mem' = Stored /\ GoesOn /\ UNCHANGED regs

Branch ==
  /\ IsBeq \/ IsBne
  /\ IF (IsBeq /\ Rs1 = Rs2) \/ (IsBne /\ Rs1 # Rs2)
     THEN pc' = Plus(pc, ins.imm)
     ELSE GoesOn
  /\ UNCHANGED <<regs, mem>>

Jal == /\ IsJal
       /\ Writes(Plus(pc, 4))
       /\ pc' = Plus(pc, ins.imm)
       /\ UNCHANGED mem

\* The target is computed from rs1 as it was before the link is written.
Jalr == /\ IsJalr
        /\ Writes(Plus(pc, 4))
        /\ pc' = Even(Plus(Rs1, ins.imm))
        /\ UNCHANGED mem

Skip == ~IsLegal /\ GoesOn /\ UNCHANGED <<regs, mem>>

Step == RegisterOp \/ ImmediateOp \/ Lw \/ Sw \/ Branch \/ Jal \/ Jalr \/ Skip

Reset == /\ pc' = RESET_PC
         /\ UNCHANGED regs
         /\ mem' = mem \/ (IsSw /\ mem' = Stored)

Init == /\ prog \in [0 .. IMEM_DEPTH - 1 -> Instr]
        /\ pc = RESET_PC
        /\ regs = [r \in RegIds |-> 0]
        /\ mem = [i \in 0 .. DMEM_DEPTH - 1 |-> 0]

Next == (Step \/ Reset) /\ UNCHANGED prog

Spec == Init /\ [][Next]_vars
=============================================================================
