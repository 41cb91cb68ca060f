--------------------------- MODULE PipelineProofs ---------------------------
(***************************************************************************)
(* Theorems about Pipeline, for every word size, register file, memory     *)
(* depth and ALU: its types, its inductive invariant and the refinement of *)
(* the sequential machine.                                                 *)
(***************************************************************************)
EXTENDS Pipeline, TLAPS

USE DEF RESET_PC, Arch!RESET_PC

-----------------------------------------------------------------------------
(* Words and the helpers.                                                  *)

\* Arithmetic on words stays in a word: the RTL truncates to 32 bits.
LEMMA PlusWord == ASSUME NEW a \in Nat, NEW b \in Nat PROVE Plus(a, b) \in Word
  BY WordSizeAssumption, SMT DEF Plus, Word

\* The words are naturals and include zero, what x0 and a reset register hold.
LEMMA WordNat == /\ 0 \in Word
                 /\ \A a \in Word : a \in Nat
  BY WordSizeAssumption DEF Word

\* Clearing bit 0 of a jalr target leaves a word.
LEMMA EvenWord == ASSUME NEW a \in Word PROVE Even(a) \in Word
  BY WordSizeAssumption DEF Even, Word

\* The word address of IM and DM selects an existing entry of the memory.
LEMMA IndexInRange ==
  ASSUME NEW a \in Word
  PROVE  IMemIndex(a) \in 0 .. IMEM_DEPTH - 1 /\ DMemIndex(a) \in 0 .. DMEM_DEPTH - 1
<1>1. a \div 4 \in Nat
  BY WordNat
<1>2. QED
  BY <1>1, DepthAssumption DEF IMemIndex, DMemIndex

\* A read port of the register file delivers a word; x0 reads as zero.
LEMMA ReadRegWord ==
  ASSUME NEW rf \in [RegIds -> Word], NEW r \in RegIds
  PROVE  ReadReg(rf, r) \in Word
  BY WordNat DEF ReadReg

\* Writing a word leaves the register file an array of words.
LEMMA WriteRegType ==
  ASSUME NEW rf \in [RegIds -> Word], NEW r \in RegIds, NEW v \in Word
  PROVE  WriteReg(rf, r, v) \in [RegIds -> Word]
  BY DEF WriteReg

\* The NOP that reset and flush put into IF_ID is an instruction word.
LEMMA NopType == NOP_INSTR \in InstrRecord
  BY WordNat, RegIdsAssumption DEF NOP_INSTR, InstrRecord, Opcodes

-----------------------------------------------------------------------------
(* The decoder and the wires.                                              *)

ControlType ==
  [reg_write : BOOLEAN, mem_write : BOOLEAN, mem_read : BOOLEAN, use_imm : BOOLEAN,
   wb_sel : {"WB_ALU", "WB_MEM", "WB_PC4"}, branch_type : {"BR_NONE", "BR_EQ", "BR_NE"},
   jump_type : {"JMP_NONE", "JMP_JAL", "JMP_JALR"}, alu_op : AluOps]

\* Every word decodes to control signals the datapath has a meaning for.
LEMMA DecoderType ==
  ASSUME NEW i \in InstrRecord PROVE Decoder(i) \in ControlType /\ illegal(i) \in BOOLEAN
<1>1. OpAlu(i.funct3, i.funct7) \in AluOps \cup {"NONE"}
  BY DEF OpAlu, AluOps
<1>2. OpImmAlu(i.funct3) \in AluOps \cup {"NONE"}
  BY DEF OpImmAlu, AluOps
<1>3. illegal(i) \in BOOLEAN
  BY DEF illegal
<1>4. CASE illegal(i)
  BY <1>3, <1>4 DEF Decoder, NoControl, ControlType, AluOps
<1>5. CASE ~illegal(i)
  <2> DEFINE ws == CASE i.opcode = "LOAD" -> "WB_MEM"
                     [] i.opcode \in {"JAL", "JALR"} -> "WB_PC4"
                     [] OTHER -> "WB_ALU"
             bt == CASE i.opcode = "BRANCH" /\ i.funct3 = FUNCT3_BEQ -> "BR_EQ"
                     [] i.opcode = "BRANCH" /\ i.funct3 = FUNCT3_BNE -> "BR_NE"
                     [] OTHER -> "BR_NONE"
             jt == CASE i.opcode = "JAL"  -> "JMP_JAL"
                     [] i.opcode = "JALR" -> "JMP_JALR"
                     [] OTHER -> "JMP_NONE"
             ao == CASE i.opcode = "OP" -> OpAlu(i.funct3, i.funct7)
                     [] i.opcode = "OP_IMM" -> OpImmAlu(i.funct3)
                     [] OTHER -> "ADD"
  <2>1. ws \in {"WB_ALU", "WB_MEM", "WB_PC4"}
    OBVIOUS
  <2>2. bt \in {"BR_NONE", "BR_EQ", "BR_NE"}
    OBVIOUS
  <2>3. jt \in {"JMP_NONE", "JMP_JAL", "JMP_JALR"}
    OBVIOUS
  <2>4. ao \in AluOps
    BY <1>1, <1>2, <1>5 DEF illegal, AluOps
  <2> HIDE DEF ws, bt, jt, ao
  <2>5. Decoder(i) = [reg_write   |-> i.opcode \in {"OP", "OP_IMM", "LOAD", "JAL", "JALR"},
                      mem_write   |-> i.opcode = "STORE",
                      mem_read    |-> i.opcode = "LOAD",
                      use_imm     |-> i.opcode \in {"OP_IMM", "LOAD", "STORE", "JALR"},
                      wb_sel      |-> ws, branch_type |-> bt, jump_type |-> jt, alu_op |-> ao]
    BY <1>5 DEF Decoder, ws, bt, jt, ao
  <2> QED BY <1>3, <2>1, <2>2, <2>3, <2>4, <2>5 DEF ControlType
<1> QED BY <1>4, <1>5

\* The values on the wires of the execute and write-back stages are words.
LEMMA WireTypes ==
  ASSUME TypeOK
  PROVE  /\ dec \in ControlType
         /\ stage_valid \in BOOLEAN
         /\ wb_data \in Word
         /\ operand_a \in Word
         /\ operand_b_raw \in Word
         /\ alu_result \in Word
         /\ redirect_valid \in BOOLEAN
         /\ redirect_pc \in Word
         /\ pc_next \in Word
<1> USE DEF TypeOK
<1>1. ins \in InstrRecord /\ ins.rs1 \in RegIds /\ ins.rs2 \in RegIds /\ ins.imm \in Word
  BY DEF ins, InstrRecord
<1>2. dec \in ControlType /\ illegal(ins) \in BOOLEAN
  BY <1>1, DecoderType DEF dec
<1>3. stage_valid \in BOOLEAN
  BY <1>2 DEF stage_valid
<1>4. wb_data \in Word
  BY DEF wb_data
<1>5. ASSUME NEW r \in RegIds PROVE operand(r) \in Word
  BY <1>4, ReadRegWord DEF operand
<1>6. operand_a \in Word /\ operand_b_raw \in Word
  BY <1>1, <1>5 DEF operand_a, operand_b_raw
<1>7. alu_result \in Word
  <2>1. alu_src_b \in Word
    BY <1>1, <1>6 DEF alu_src_b
  <2>2. dec.alu_op \in AluOps
    BY <1>2 DEF ControlType
  <2> QED BY <2>1, <2>2, <1>6, AluAssumption DEF alu_result
<1>8. redirect_valid \in BOOLEAN
  BY <1>3 DEF redirect_valid, branch_taken, jump_taken
<1>9. redirect_pc \in Word
  <2>1. if_id.pc \in Word
    OBVIOUS
  <2>2. Plus(operand_a, ins.imm) \in Word /\ Plus(if_id.pc, ins.imm) \in Word
    BY <1>1, <1>6, <2>1, PlusWord, WordNat
  <2> QED BY <2>2, EvenWord DEF redirect_pc
<1>10. pc_next \in Word
  BY <1>9, PlusWord, WordNat DEF pc_next
<1> QED BY <1>2, <1>3, <1>4, <1>6, <1>7, <1>8, <1>9, <1>10

-----------------------------------------------------------------------------
(* Type correctness.                                                       *)

\* The registers start with values of their types.
LEMMA InitType == Init => TypeOK
<1> SUFFICES ASSUME Init PROVE TypeOK
  OBVIOUS
<1> USE WordNat, NopType, RegIdsAssumption, InstrAssumption
<1>1. Plus(RESET_PC, 4) \in Word
  BY PlusWord
<1>2. memory \in [0 .. IMEM_DEPTH - 1 -> InstrRecord] /\ ins_q \in InstrRecord
  BY DEF Init
<1>3. if_id \in [valid : BOOLEAN, pc : Word, pc4 : Word, ins : InstrRecord]
  BY <1>1 DEF Init, IfIdReset
<1> QED BY <1>2, <1>3 DEF Init, TypeOK, WbReset

\* A clock edge, with or without reset, keeps every register in its type.
LEMMA EdgeType == ASSUME TypeOK, NEW rst \in BOOLEAN, Edge(rst) PROVE TypeOK'
<1> USE DEF TypeOK
<1> USE WordNat, NopType, RegIdsAssumption, WireTypes
<1>1. memory' = memory
  BY DEF Edge
<1>2. pc_q' \in Word
  BY DEF Edge, U_PC
<1>3. ins_q' \in InstrRecord
  BY IndexInRange DEF Edge, U_IM
<1>4. im_req' \in [valid : BOOLEAN, pc : Word]
  BY DEF Edge, StageRegs
<1>5. if_id' \in [valid : BOOLEAN, pc : Word, pc4 : Word, ins : InstrRecord]
  <2>1. Plus(RESET_PC, 4) \in Word /\ Plus(im_req.pc, 4) \in Word
    BY PlusWord
  <2> QED BY <2>1 DEF Edge, U_IF_ID, IfIdReset, IfIdClear
<1>6. wb' \in [valid : BOOLEAN, reg_write : BOOLEAN, sel : {"WB_ALU", "WB_MEM", "WB_PC4"},
               rd : RegIds, pc4 : Word, alu_result : Word]
  <2>1. ins.rd \in RegIds
    BY DEF ins, InstrRecord
  <2>2. dec.reg_write \in BOOLEAN /\ dec.wb_sel \in {"WB_ALU", "WB_MEM", "WB_PC4"}
    BY DEF ControlType
  <2> QED BY <2>1, <2>2 DEF Edge, StageRegs, WbReset, WbOf
<1>7. regs' \in [RegIds -> Word]
  BY WriteRegType DEF Edge, U_RF
<1>8. dmem' \in [0 .. DMEM_DEPTH - 1 -> Word] /\ rd_q' \in Word
  BY IndexInRange DEF Edge, U_DM
<1> QED BY <1>1, <1>2, <1>3, <1>4, <1>5, <1>6, <1>7, <1>8

\* Every register of the pipeline holds a value of its type, after any
\* sequence of clock edges and resets.
THEOREM TypeCorrect == Spec => []TypeOK
<1>1. Init => TypeOK
  BY InitType
<1>2. TypeOK /\ [Next]_vars => TypeOK'
  <2> SUFFICES ASSUME TypeOK, [Next]_vars PROVE TypeOK'
    OBVIOUS
  <2>1. CASE Clock
    BY <2>1, EdgeType DEF Clock
  <2>2. CASE Reset
    BY <2>2, EdgeType DEF Reset
  <2>3. CASE UNCHANGED vars
    BY <2>3 DEF vars, TypeOK
  <2> QED BY <2>1, <2>2, <2>3 DEF Next
<1> QED BY <1>1, <1>2, PTL DEF Spec

-----------------------------------------------------------------------------
(* The path invariant.                                                     *)

\* The path invariant holds of the empty pipeline after power-up.
LEMMA InitPath == Init => PathInv
  BY DEF Init, PathInv, RequestMatchesFetch, ExecuteFollowsFetch, IfIdReset

\* A clock edge, with a flush, a reset or neither, keeps the path invariant.
LEMMA EdgePath == ASSUME TypeOK, PathInv, NEW rst \in BOOLEAN, Edge(rst) PROVE PathInv'
<1>1. CASE rst
  BY <1>1 DEF Edge, U_IF_ID, StageRegs, IfIdReset, PathInv, RequestMatchesFetch,
              ExecuteFollowsFetch
<1>2. CASE ~rst
  <2>1. im_req' = [valid |-> ~redirect_valid, pc |-> pc_q]
    BY <1>2 DEF Edge, StageRegs
  <2>2. memory' = memory /\ ins_q' = memory[IMemIndex(pc_q)]
    BY DEF Edge, U_IM
  <2>3. RequestMatchesFetch'
    BY <1>2, <2>1, <2>2 DEF Edge, U_PC, pc_next, RequestMatchesFetch, IMemIndex, Plus
  <2>4. CASE redirect_valid
    <3>1. if_id'.valid = FALSE
      BY <1>2, <2>4 DEF Edge, U_IF_ID, IfIdClear
    <3> QED BY <2>3, <3>1 DEF PathInv, ExecuteFollowsFetch
  <2>5. CASE ~redirect_valid
    <3>1. if_id' = [valid |-> im_req.valid, pc |-> im_req.pc,
                    pc4 |-> Plus(im_req.pc, 4), ins |-> ins_q]
      BY <1>2, <2>5 DEF Edge, U_IF_ID
    <3>2. ExecuteFollowsFetch'
      BY <2>1, <2>2, <2>5, <3>1
         DEF ExecuteFollowsFetch, PathInv, RequestMatchesFetch, IMemIndex, Plus
    <3> QED BY <2>3, <3>2 DEF PathInv
  <2> QED BY <2>4, <2>5
<1> QED BY <1>1, <1>2

\* In every reachable state the stages hold consecutive words of one path.
THEOREM PathCorrect == Spec => []PathInv
<1>1. TypeOK /\ PathInv /\ [Next]_vars => PathInv'
  <2> SUFFICES ASSUME TypeOK, PathInv, [Next]_vars PROVE PathInv'
    OBVIOUS
  <2>1. CASE Clock
    BY <2>1, EdgePath DEF Clock
  <2>2. CASE Reset
    BY <2>2, EdgePath DEF Reset
  <2>3. CASE UNCHANGED vars
    BY <2>3 DEF vars, PathInv, RequestMatchesFetch, ExecuteFollowsFetch, IMemIndex, Plus
  <2> QED BY <2>1, <2>2, <2>3 DEF Next
<1> QED BY <1>1, InitPath, TypeCorrect, PTL DEF Spec

-----------------------------------------------------------------------------
(* The refinement of the sequential machine.                               *)

\* Forwarding: the execute stage reads what the registers hold once the
\* instruction in the write-back stage has written its own.
LEMMA Forwarding ==
  ASSUME TypeOK, NEW r \in RegIds
  PROVE  operand(r) = ReadReg(ArchRegs, r)
<1>1. wb.rd \in RegIds /\ regs \in [RegIds -> Word] /\ wb.reg_write \in BOOLEAN
      /\ wb.valid \in BOOLEAN
  BY DEF TypeOK
<1> QED BY <1>1 DEF operand, forward_hit, ReadReg, WriteReg, ArchRegs, rf_we

\* The pipeline starts in the initial state of the sequential machine.
LEMMA InitRefines == Init => Arch!Init
<1> SUFFICES ASSUME Init PROVE Arch!Init
  OBVIOUS
<1>1. ArchPc = RESET_PC
  BY DEF Init, ArchPc, IfIdReset
<1>2. ArchRegs = [r \in RegIds |-> 0]
  BY DEF Init, ArchRegs, rf_we, WbReset
<1> QED BY <1>1, <1>2 DEF Init, Arch!Init

\* A bubble in the execute stage is a stutter of the sequential machine.
LEMMA BubbleStutters ==
  ASSUME TypeOK, PathInv, Edge(FALSE), ~if_id.valid
  PROVE  UNCHANGED Arch!vars
<1>1. ~stage_valid /\ ~redirect_valid
  BY DEF stage_valid, redirect_valid, branch_taken, jump_taken
<1>2. dmem' = dmem /\ memory' = memory
  BY <1>1 DEF Edge, U_DM, dmem_we
<1>3. ArchRegs' = ArchRegs
  BY <1>1 DEF Edge, StageRegs, WbOf, U_RF, ArchRegs, rf_we
<1>4. ArchPc' = ArchPc
  BY <1>1 DEF Edge, StageRegs, U_IF_ID, ArchPc, PathInv, RequestMatchesFetch, TypeOK
<1> QED BY <1>2, <1>3, <1>4 DEF Arch!vars

\* What an edge does to the architectural state when an instruction executes,
\* in the terms of the datapath.
LEMMA ExecuteEffect ==
  ASSUME TypeOK, PathInv, Edge(FALSE), if_id.valid
  PROVE  /\ ins = memory[IMemIndex(ArchPc)]
         /\ ArchPc = if_id.pc
         /\ ArchPc' = IF redirect_valid THEN redirect_pc ELSE Plus(ArchPc, 4)
         /\ dmem' = IF dmem_we THEN [dmem EXCEPT ![DMemIndex(alu_result)] = operand_b_raw]
                    ELSE dmem
         /\ ArchRegs' = IF stage_valid /\ dec.reg_write
                        THEN WriteReg(ArchRegs, ins.rd,
                               CASE dec.wb_sel = "WB_MEM" ->
                                      IF dmem_re /\ ~dmem_we THEN dmem[DMemIndex(alu_result)]
                                      ELSE rd_q
                                 [] dec.wb_sel = "WB_PC4" -> Plus(ArchPc, 4)
                                 [] OTHER -> alu_result)
                        ELSE ArchRegs
         /\ memory' = memory
<1>1. ins = memory[IMemIndex(ArchPc)] /\ ArchPc = if_id.pc
  BY DEF ins, ArchPc, PathInv, ExecuteFollowsFetch
<1>2. ArchPc' = IF redirect_valid THEN redirect_pc ELSE Plus(ArchPc, 4)
  <2>1. CASE redirect_valid
    <3>1. if_id'.valid = FALSE /\ im_req'.valid = FALSE /\ pc_q' = redirect_pc
      BY <2>1 DEF Edge, U_IF_ID, IfIdClear, StageRegs, U_PC, pc_next
    <3> QED BY <2>1, <3>1 DEF ArchPc
  <2>2. CASE ~redirect_valid
    <3>1. if_id'.valid = im_req.valid /\ if_id'.pc = im_req.pc
      BY <2>2 DEF Edge, U_IF_ID
    <3> QED BY <1>1, <2>2, <3>1 DEF ArchPc, PathInv, ExecuteFollowsFetch, Plus
  <2> QED BY <2>1, <2>2
<1>3. dmem' = IF dmem_we THEN [dmem EXCEPT ![DMemIndex(alu_result)] = operand_b_raw]
              ELSE dmem
  BY DEF Edge, U_DM
<1>4. regs' = ArchRegs
  BY DEF Edge, U_RF, ArchRegs
<1>5. wb' = [valid |-> stage_valid, reg_write |-> stage_valid /\ dec.reg_write,
             sel |-> dec.wb_sel, rd |-> ins.rd, pc4 |-> if_id.pc4,
             alu_result |-> alu_result]
  BY DEF Edge, StageRegs, WbOf
<1>6. rd_q' = IF dmem_re /\ ~dmem_we THEN dmem[DMemIndex(alu_result)] ELSE rd_q
  BY DEF Edge, U_DM
<1>7. if_id.pc4 = Plus(ArchPc, 4)
  BY <1>1 DEF PathInv, ExecuteFollowsFetch
<1>8. dec \in ControlType /\ stage_valid \in BOOLEAN
  BY WireTypes
<1>9. ArchRegs' = IF rf_we' THEN WriteReg(regs', wb'.rd, wb_data') ELSE regs'
  BY DEF ArchRegs, WriteReg
<1>10. wb_data' = CASE dec.wb_sel = "WB_MEM" ->
                        IF dmem_re /\ ~dmem_we THEN dmem[DMemIndex(alu_result)]
                        ELSE rd_q
                    [] dec.wb_sel = "WB_PC4" -> Plus(ArchPc, 4)
                    [] OTHER -> alu_result
  BY <1>5, <1>6, <1>7 DEF wb_data
<1>11. rf_we' = (stage_valid /\ dec.reg_write)
  BY <1>5, <1>8 DEF rf_we, ControlType
<1>12. wb'.rd = ins.rd
  BY <1>5
<1>13. memory' = memory
  BY DEF Edge
<1> QED BY <1>1, <1>2, <1>3, <1>4, <1>9, <1>10, <1>11, <1>12, <1>13

\* The instruction the sequential machine is about to execute, and its operands.
LEMMA SameInstruction ==
  ASSUME TypeOK, PathInv, if_id.valid
  PROVE  /\ Arch!ins = ins
         /\ ins \in InstrRecord
         /\ Arch!Rs1 = operand_a
         /\ Arch!Rs2 = operand_b_raw
         /\ operand_a \in Word /\ operand_b_raw \in Word
<1>1. ArchPc = if_id.pc /\ ins = memory[IMemIndex(if_id.pc)]
  BY DEF ins, ArchPc, PathInv, ExecuteFollowsFetch
<1>2. Arch!ins = ins
  BY <1>1 DEF Arch!ins, Arch!IMemIndex, IMemIndex
<1>3. ins \in InstrRecord /\ ins.rs1 \in RegIds /\ ins.rs2 \in RegIds
  BY DEF ins, InstrRecord, TypeOK
<1>4. ReadReg(ArchRegs, ins.rs1) = operand_a /\ ReadReg(ArchRegs, ins.rs2) = operand_b_raw
  BY <1>3, Forwarding DEF operand_a, operand_b_raw
<1>5. Arch!Rs1 = operand_a /\ Arch!Rs2 = operand_b_raw
  BY <1>2, <1>4 DEF Arch!Rs1, Arch!Rs2, Arch!ReadReg, ReadReg
<1> QED BY <1>2, <1>3, <1>5, WireTypes

\* The decoder's illegal is the complement of the sequential machine's set of
\* instructions, and a legal R-type or immediate word selects its operation.
LEMMA Legality ==
  ASSUME TypeOK, PathInv, if_id.valid
  PROVE  /\ Arch!IsLegal <=> ~illegal(ins)
         /\ (ins.opcode = "OP" /\ ~illegal(ins)) =>
               \E o \in Arch!RegisterOps : Arch!IsRegisterOp(o) /\ o[3] = dec.alu_op
         /\ (ins.opcode = "OP_IMM" /\ ~illegal(ins)) =>
               \E o \in Arch!ImmediateOps : Arch!IsImmediateOp(o) /\ o[2] = dec.alu_op
<1> USE SameInstruction
<1> DEFINE f3 == ins.funct3
           f7 == ins.funct7
<1>1. ASSUME NEW o \in Arch!RegisterOps
      PROVE  /\ o[3] \in AluOps
             /\ (f3 = o[1] /\ f7 = o[2]) => OpAlu(f3, f7) = o[3]
  BY <1>1 DEF Arch!RegisterOps, OpAlu, AluOps, FUNCT3_ADD_SUB, FUNCT3_SLL, FUNCT3_XOR,
         FUNCT3_SRL, FUNCT3_OR, FUNCT3_AND, FUNCT7_ADD, FUNCT7_SUB,
         Arch!FUNCT3_ADD_SUB, Arch!FUNCT3_SLL, Arch!FUNCT3_XOR, Arch!FUNCT3_SRL,
         Arch!FUNCT3_OR, Arch!FUNCT3_AND, Arch!FUNCT7_ADD, Arch!FUNCT7_SUB
<1>2. OpAlu(f3, f7) # "NONE" =>
        \E o \in Arch!RegisterOps : f3 = o[1] /\ f7 = o[2] /\ o[3] = OpAlu(f3, f7)
  BY DEF Arch!RegisterOps, OpAlu, FUNCT3_ADD_SUB, FUNCT3_SLL, FUNCT3_XOR,
         FUNCT3_SRL, FUNCT3_OR, FUNCT3_AND, FUNCT7_ADD, FUNCT7_SUB,
         Arch!FUNCT3_ADD_SUB, Arch!FUNCT3_SLL, Arch!FUNCT3_XOR, Arch!FUNCT3_SRL,
         Arch!FUNCT3_OR, Arch!FUNCT3_AND, Arch!FUNCT7_ADD, Arch!FUNCT7_SUB
<1>3. ASSUME NEW o \in Arch!ImmediateOps
      PROVE  o[2] # "NONE" /\ (f3 = o[1] => OpImmAlu(f3) = o[2])
  BY <1>3 DEF Arch!ImmediateOps, OpImmAlu, FUNCT3_ADD_SUB, FUNCT3_OR,
              Arch!FUNCT3_ADD_SUB, Arch!FUNCT3_OR
<1>4. OpImmAlu(f3) # "NONE" =>
        \E o \in Arch!ImmediateOps : f3 = o[1] /\ o[2] = OpImmAlu(f3)
  BY DEF Arch!ImmediateOps, OpImmAlu, FUNCT3_ADD_SUB, FUNCT3_OR,
         Arch!FUNCT3_ADD_SUB, Arch!FUNCT3_OR
<1>5. (ins.opcode = "OP" /\ ~illegal(ins)) => dec.alu_op = OpAlu(f3, f7)
  BY DEF dec, Decoder
<1>6. (ins.opcode = "OP_IMM" /\ ~illegal(ins)) => dec.alu_op = OpImmAlu(f3)
  BY DEF dec, Decoder
<1>7. (ins.opcode = "OP" /\ ~illegal(ins)) =>
        \E o \in Arch!RegisterOps : Arch!IsRegisterOp(o) /\ o[3] = dec.alu_op
  BY <1>2, <1>5 DEF illegal, Arch!IsRegisterOp
<1>8. (ins.opcode = "OP_IMM" /\ ~illegal(ins)) =>
        \E o \in Arch!ImmediateOps : Arch!IsImmediateOp(o) /\ o[2] = dec.alu_op
  BY <1>4, <1>6 DEF illegal, Arch!IsImmediateOp
<1>9. Arch!IsLegal => ~illegal(ins)
  <2>1. ASSUME NEW o \in Arch!RegisterOps, Arch!IsRegisterOp(o) PROVE ~illegal(ins)
    BY <1>1, <2>1 DEF Arch!IsRegisterOp, illegal, AluOps
  <2>2. ASSUME NEW o \in Arch!ImmediateOps, Arch!IsImmediateOp(o) PROVE ~illegal(ins)
    BY <1>3, <2>2 DEF Arch!IsImmediateOp, illegal
  <2>3. (Arch!IsLw \/ Arch!IsSw \/ Arch!IsBeq \/ Arch!IsBne \/ Arch!IsJal \/ Arch!IsJalr)
          => ~illegal(ins)
    BY DEF Arch!IsLw, Arch!IsSw, Arch!IsBeq, Arch!IsBne, Arch!IsJal, Arch!IsJalr, illegal,
           FUNCT3_LW_SW, FUNCT3_BEQ, FUNCT3_BNE, FUNCT3_JALR,
           Arch!FUNCT3_LW_SW, Arch!FUNCT3_BEQ, Arch!FUNCT3_BNE, Arch!FUNCT3_JALR
  <2> QED BY <2>1, <2>2, <2>3 DEF Arch!IsLegal
<1>10. ~illegal(ins) => Arch!IsLegal
  BY <1>7, <1>8 DEF illegal, Arch!IsLegal, InstrRecord, Opcodes,
     Arch!IsLw, Arch!IsSw, Arch!IsBeq, Arch!IsBne, Arch!IsJal, Arch!IsJalr,
     FUNCT3_LW_SW, FUNCT3_BEQ, FUNCT3_BNE, FUNCT3_JALR,
     Arch!FUNCT3_LW_SW, Arch!FUNCT3_BEQ, Arch!FUNCT3_BNE, Arch!FUNCT3_JALR
<1> QED BY <1>7, <1>8, <1>9, <1>10

\* An instruction leaving the execute stage is a step of the sequential machine:
\* one case per opcode, and one for the words the decoder refuses.
LEMMA ExecuteRefines ==
  ASSUME TypeOK, PathInv, Edge(FALSE), if_id.valid
  PROVE  Arch!Step
<1> USE SameInstruction, ExecuteEffect
<1>1. CASE illegal(ins)
  <2>1. ~stage_valid /\ ~redirect_valid /\ ~dmem_we
    BY <1>1 DEF stage_valid, redirect_valid, branch_taken, jump_taken, dmem_we
  <2>2. Arch!Skip
    BY <1>1, <2>1, Legality DEF Arch!Skip, Arch!GoesOn, Arch!Plus, Plus
  <2> QED BY <2>2 DEF Arch!Step
<1>2. CASE ~illegal(ins)
  <2>1. stage_valid
    BY <1>2 DEF stage_valid, ins
  <2>2. /\ dec.reg_write = (ins.opcode \in {"OP", "OP_IMM", "LOAD", "JAL", "JALR"})
        /\ dec.use_imm = (ins.opcode \in {"OP_IMM", "LOAD", "STORE", "JALR"})
        /\ dec.mem_write = (ins.opcode = "STORE")
        /\ dec.mem_read = (ins.opcode = "LOAD")
    BY <1>2 DEF dec, Decoder
  <2>3. /\ dec.reg_write = (ins.opcode \in {"OP", "OP_IMM", "LOAD", "JAL", "JALR"})
        /\ dec.use_imm = (ins.opcode \in {"OP_IMM", "LOAD", "STORE", "JALR"})
        /\ dmem_we = (ins.opcode = "STORE")
        /\ dmem_re = (ins.opcode = "LOAD")
    BY <2>1, <2>2, Zenon DEF dmem_we, dmem_re
  <2>4. /\ ins.opcode = "LOAD" => dec.wb_sel = "WB_MEM"
        /\ ins.opcode \in {"JAL", "JALR"} => dec.wb_sel = "WB_PC4"
        /\ ins.opcode \in {"OP", "OP_IMM"} => dec.wb_sel = "WB_ALU"
    BY <1>2 DEF dec, Decoder
  <2>5. /\ ins.opcode = "JAL" => dec.jump_type = "JMP_JAL"
        /\ ins.opcode = "JALR" => dec.jump_type = "JMP_JALR"
        /\ ins.opcode \notin {"JAL", "JALR"} => dec.jump_type = "JMP_NONE"
    BY <1>2 DEF dec, Decoder
  <2>6. ins.opcode \notin {"OP", "OP_IMM"} => dec.alu_op = "ADD"
    BY <1>2 DEF dec, Decoder
  <2>7. ins.opcode # "BRANCH" => dec.branch_type = "BR_NONE"
    BY <1>2 DEF dec, Decoder
  <2>8. ins.opcode \notin {"BRANCH", "JAL", "JALR"} => ~redirect_valid
    BY <2>5, <2>7 DEF redirect_valid, branch_taken, jump_taken
  <2>9. ins.opcode \in {"LOAD", "STORE"} => alu_result = Arch!Plus(operand_a, ins.imm)
    <3>1. ins.imm \in Word
      BY DEF InstrRecord
    <3> QED BY <2>3, <2>6, <3>1, AluAssumption DEF alu_result, alu_src_b, Arch!Plus
  <2>10. CASE ins.opcode = "OP"
    <3>1. PICK o \in Arch!RegisterOps : Arch!IsRegisterOp(o) /\ o[3] = dec.alu_op
      BY <1>2, <2>10, Legality
    <3>2. ArchRegs' = WriteReg(ArchRegs, ins.rd, Alu(o[3], operand_a, operand_b_raw))
      BY <2>1, <2>3, <2>4, <2>10, <3>1 DEF alu_result, alu_src_b
    <3>3. Arch!RegisterOp
      BY <2>3, <2>8, <2>10, <3>1, <3>2
         DEF Arch!RegisterOp, Arch!Writes, Arch!WriteReg, WriteReg, Arch!GoesOn, Arch!Plus, Plus
    <3> QED BY <3>3 DEF Arch!Step
  <2>11. CASE ins.opcode = "OP_IMM"
    <3>1. PICK o \in Arch!ImmediateOps : Arch!IsImmediateOp(o) /\ o[2] = dec.alu_op
      BY <1>2, <2>11, Legality
    <3>2. ArchRegs' = WriteReg(ArchRegs, ins.rd, Alu(o[2], operand_a, ins.imm))
      BY <2>1, <2>3, <2>4, <2>11, <3>1 DEF alu_result, alu_src_b
    <3>3. Arch!ImmediateOp
      BY <2>3, <2>8, <2>11, <3>1, <3>2
         DEF Arch!ImmediateOp, Arch!Writes, Arch!WriteReg, WriteReg, Arch!GoesOn, Arch!Plus, Plus
    <3> QED BY <3>3 DEF Arch!Step
  <2>12. CASE ins.opcode = "LOAD"
    <3>1. Arch!IsLw
      BY <1>2, <2>12 DEF illegal, Arch!IsLw, FUNCT3_LW_SW, Arch!FUNCT3_LW_SW
    <3>2. ArchRegs' = WriteReg(ArchRegs, ins.rd, dmem[DMemIndex(alu_result)])
      BY <2>1, <2>3, <2>4, <2>12
    <3>3. Arch!Lw
      BY <2>3, <2>8, <2>9, <2>12, <3>1, <3>2
         DEF Arch!Lw, Arch!Writes, Arch!WriteReg, WriteReg, Arch!GoesOn, Arch!Plus, Plus,
             Arch!DMemIndex, DMemIndex
    <3> QED BY <3>3 DEF Arch!Step
  <2>13. CASE ins.opcode = "STORE"
    <3>1. Arch!IsSw
      BY <1>2, <2>13 DEF illegal, Arch!IsSw, FUNCT3_LW_SW, Arch!FUNCT3_LW_SW
    <3>2. Arch!Sw
      BY <2>3, <2>8, <2>9, <2>13, <3>1
         DEF Arch!Sw, Arch!Stored, Arch!GoesOn, Arch!Plus, Plus, Arch!DMemIndex, DMemIndex
    <3> QED BY <3>2 DEF Arch!Step
  <2>14. CASE ins.opcode = "BRANCH"
    <3>1. Arch!IsBeq \/ Arch!IsBne
      BY <1>2, <2>14 DEF illegal, Arch!IsBeq, Arch!IsBne, FUNCT3_BEQ, FUNCT3_BNE,
                         Arch!FUNCT3_BEQ, Arch!FUNCT3_BNE
    <3>2. /\ Arch!IsBeq <=> dec.branch_type = "BR_EQ"
          /\ Arch!IsBne <=> dec.branch_type = "BR_NE"
      BY <1>2, <2>14 DEF dec, Decoder, illegal, Arch!IsBeq, Arch!IsBne, FUNCT3_BEQ, FUNCT3_BNE,
                         Arch!FUNCT3_BEQ, Arch!FUNCT3_BNE
    <3>3. redirect_valid <=> \/ Arch!IsBeq /\ operand_a = operand_b_raw
                             \/ Arch!IsBne /\ operand_a # operand_b_raw
      BY <2>1, <2>5, <2>14, <3>2 DEF redirect_valid, branch_taken, jump_taken
    <3>4. redirect_pc = Plus(ArchPc, ins.imm)
      BY <2>5, <2>14 DEF redirect_pc
    <3>5. Arch!Branch
      BY <2>3, <2>14, <3>1, <3>3, <3>4
         DEF Arch!Branch, Arch!GoesOn, Arch!Plus, Plus
    <3> QED BY <3>5 DEF Arch!Step
  <2>15. CASE ins.opcode = "JAL"
    <3>1. redirect_valid /\ redirect_pc = Plus(ArchPc, ins.imm)
      BY <2>1, <2>5, <2>15 DEF redirect_valid, jump_taken, redirect_pc
    <3>2. ArchRegs' = WriteReg(ArchRegs, ins.rd, Plus(ArchPc, 4))
      BY <2>1, <2>3, <2>4, <2>15
    <3>3. Arch!Jal
      BY <2>3, <2>15, <3>1, <3>2
         DEF Arch!Jal, Arch!IsJal, Arch!Writes, Arch!WriteReg, WriteReg, Arch!Plus, Plus
    <3> QED BY <3>3 DEF Arch!Step
  <2>16. CASE ins.opcode = "JALR"
    <3>1. redirect_valid /\ redirect_pc = Even(Plus(operand_a, ins.imm))
      BY <2>1, <2>5, <2>16 DEF redirect_valid, jump_taken, redirect_pc
    <3>2. ArchRegs' = WriteReg(ArchRegs, ins.rd, Plus(ArchPc, 4))
      BY <2>1, <2>3, <2>4, <2>16
    <3>3. Arch!IsJalr
      BY <1>2, <2>16 DEF illegal, Arch!IsJalr, FUNCT3_JALR, Arch!FUNCT3_JALR
    <3>4. Arch!Jalr
      BY <2>3, <2>16, <3>1, <3>2, <3>3
         DEF Arch!Jalr, Arch!Writes, Arch!WriteReg, WriteReg, Arch!Plus, Plus, Arch!Even, Even
    <3> QED BY <3>4 DEF Arch!Step
  <2> QED BY <1>2, <2>10, <2>11, <2>12, <2>13, <2>14, <2>15, <2>16
             DEF illegal, InstrRecord, Opcodes
<1> QED BY <1>1, <1>2

\* A reset edge is the sequential machine's reset: what was in the execute stage
\* is lost, except a store, which the data memory takes; what was in the
\* write-back stage still reaches the register file.
LEMMA ResetRefines ==
  ASSUME TypeOK, PathInv, Edge(TRUE)
  PROVE  Arch!Reset
<1>1. ArchPc' = RESET_PC
  BY DEF Edge, U_IF_ID, StageRegs, U_PC, IfIdReset, ArchPc
<1>2. ArchRegs' = ArchRegs
  BY DEF Edge, U_RF, StageRegs, WbReset, ArchRegs, rf_we
<1>3. CASE ~dmem_we
  <2>1. dmem' = dmem
    BY <1>3 DEF Edge, U_DM
  <2> QED BY <1>1, <1>2, <2>1 DEF Arch!Reset
<1>4. CASE dmem_we
  <2>1. if_id.valid /\ ~illegal(ins) /\ dec.mem_write
    BY <1>4 DEF dmem_we, stage_valid
  <2> USE SameInstruction
  <2>2. ins.opcode = "STORE" /\ dec.use_imm /\ dec.alu_op = "ADD"
    BY <2>1 DEF dec, Decoder
  <2>3. Arch!IsSw
    BY <2>1, <2>2 DEF illegal, Arch!IsSw, FUNCT3_LW_SW, Arch!FUNCT3_LW_SW
  <2>4. alu_result = Arch!Plus(operand_a, ins.imm)
    <3>1. ins.imm \in Word
      BY <2>1 DEF InstrRecord
    <3> QED BY <2>1, <2>2, <3>1, AluAssumption DEF alu_result, alu_src_b, Arch!Plus
  <2>5. dmem' = Arch!Stored
    BY <1>4, <2>1, <2>4 DEF Edge, U_DM, Arch!Stored, Arch!DMemIndex, DMemIndex
  <2> QED BY <1>1, <1>2, <2>3, <2>5 DEF Arch!Reset
<1> QED BY <1>3, <1>4

\* The pipeline implements the sequential machine: for every program, every
\* word size, register file and memory size and every ALU, its stages, its
\* forwarding, its flushes and its resets are invisible to the program.
THEOREM Refinement == Spec => RefinesISA
<1>1. TypeOK /\ PathInv /\ [Next]_vars => [Arch!Next]_(Arch!vars)
  <2> SUFFICES ASSUME TypeOK, PathInv, [Next]_vars PROVE [Arch!Next]_(Arch!vars)
    OBVIOUS
  <2>1. CASE Clock
    <3>1. Edge(FALSE) /\ memory' = memory
      BY <2>1 DEF Clock, Edge
    <3>2. CASE if_id.valid
      BY <3>1, <3>2, ExecuteRefines DEF Arch!Next
    <3>3. CASE ~if_id.valid
      BY <3>1, <3>3, BubbleStutters
    <3> QED BY <3>2, <3>3
  <2>2. CASE Reset
    <3>1. Edge(TRUE) /\ memory' = memory
      BY <2>2 DEF Reset, Edge
    <3> QED BY <3>1, ResetRefines DEF Arch!Next
  <2>3. CASE UNCHANGED vars
    BY <2>3 DEF vars, Arch!vars, ArchPc, ArchRegs, rf_we, wb_data, WriteReg
  <2> QED BY <2>1, <2>2, <2>3 DEF Next
<1> QED BY <1>1, InitRefines, TypeCorrect, PathCorrect, PTL DEF Spec, RefinesISA, Arch!Spec
=============================================================================
