------------------------------ MODULE Pipeline ------------------------------
(***************************************************************************)
(* rtl_pipeline/riscv_pipeline.v and the modules it instantiates (PC, IM,  *)
(* IF_ID, Decoder, RF, DM): the state is the registers of the RTL, a step  *)
(* is one rising clock edge, and the combinational wires are operators of  *)
(* the same names.  Every edge moves three instructions at once: one is    *)
(* being fetched (pc_q, then im_req and ins_q), one executes (if_id) and   *)
(* one writes back (wb).                                                   *)
(***************************************************************************)
EXTENDS RiscvDefs

VARIABLES
  memory,   \* IM: the program, loaded before the first edge, never written
  pc_q,     \* PC: the address presented to the IM
  ins_q,    \* IM: its registered read data
  im_req,   \* im_req_valid_q, im_req_pc_q: the request ins_q answers
  if_id,    \* IF_ID: the instruction in the execute stage
  wb,       \* the write-back stage registers
  regs,     \* RF
  dmem,     \* DM: the array
  rd_q      \* DM: its registered read data

vars == <<memory, pc_q, ins_q, im_req, if_id, wb, regs, dmem, rd_q>>

-----------------------------------------------------------------------------
(* Decoder.v: the control signals of one instruction.                      *)

\* The alu_op of an R-type word, "NONE" where the decoder raises illegal.
OpAlu(f3, f7) ==
  CASE f3 = FUNCT3_ADD_SUB /\ f7 = FUNCT7_ADD -> "ADD"
    [] f3 = FUNCT3_ADD_SUB /\ f7 = FUNCT7_SUB -> "SUB"
    [] f3 = FUNCT3_AND     /\ f7 = FUNCT7_ADD -> "AND"
    [] f3 = FUNCT3_OR      /\ f7 = FUNCT7_ADD -> "OR"
    [] f3 = FUNCT3_SLL     /\ f7 = FUNCT7_ADD -> "SLL"
    [] f3 = FUNCT3_XOR     /\ f7 = FUNCT7_ADD -> "XOR"
    [] f3 = FUNCT3_SRL     /\ f7 = FUNCT7_ADD -> "SRL"
    [] f3 = FUNCT3_SRL     /\ f7 = FUNCT7_SUB -> "SRA"
    [] OTHER -> "NONE"

OpImmAlu(f3) ==
  CASE f3 = FUNCT3_ADD_SUB -> "ADD" [] f3 = FUNCT3_OR -> "OR" [] OTHER -> "NONE"

illegal(i) ==
  CASE i.opcode = "OP"     -> OpAlu(i.funct3, i.funct7) = "NONE"
    [] i.opcode = "OP_IMM" -> OpImmAlu(i.funct3) = "NONE"
    [] i.opcode = "LOAD"   -> i.funct3 # FUNCT3_LW_SW
    [] i.opcode = "STORE"  -> i.funct3 # FUNCT3_LW_SW
    [] i.opcode = "BRANCH" -> i.funct3 \notin {FUNCT3_BEQ, FUNCT3_BNE}
    [] i.opcode = "JAL"    -> FALSE
    [] i.opcode = "JALR"   -> i.funct3 # FUNCT3_JALR
    [] OTHER               -> TRUE

\* An illegal word gets the defaults: nothing written, read or jumped to.
NoControl == [reg_write |-> FALSE, mem_write |-> FALSE, mem_read |-> FALSE,
              use_imm |-> FALSE, wb_sel |-> "WB_ALU", branch_type |-> "BR_NONE",
              jump_type |-> "JMP_NONE", alu_op |-> "ADD"]

Decoder(i) ==
  IF illegal(i) THEN NoControl
  ELSE [reg_write   |-> i.opcode \in {"OP", "OP_IMM", "LOAD", "JAL", "JALR"},
        mem_write   |-> i.opcode = "STORE",
        mem_read    |-> i.opcode = "LOAD",
        use_imm     |-> i.opcode \in {"OP_IMM", "LOAD", "STORE", "JALR"},
        wb_sel      |-> CASE i.opcode = "LOAD" -> "WB_MEM"
                          [] i.opcode \in {"JAL", "JALR"} -> "WB_PC4"
                          [] OTHER -> "WB_ALU",
        branch_type |-> CASE i.opcode = "BRANCH" /\ i.funct3 = FUNCT3_BEQ -> "BR_EQ"
                          [] i.opcode = "BRANCH" /\ i.funct3 = FUNCT3_BNE -> "BR_NE"
                          [] OTHER -> "BR_NONE",
        jump_type   |-> CASE i.opcode = "JAL"  -> "JMP_JAL"
                          [] i.opcode = "JALR" -> "JMP_JALR"
                          [] OTHER -> "JMP_NONE",
        alu_op      |-> CASE i.opcode = "OP" -> OpAlu(i.funct3, i.funct7)
                          [] i.opcode = "OP_IMM" -> OpImmAlu(i.funct3)
                          [] OTHER -> "ADD"]

-----------------------------------------------------------------------------
(* The wires of riscv_pipeline.v.                                          *)

ins == if_id.ins
dec == Decoder(ins)

stage_valid == if_id.valid /\ ~illegal(ins)
rf_we       == wb.valid /\ wb.reg_write

wb_data == CASE wb.sel = "WB_MEM" -> rd_q
             [] wb.sel = "WB_PC4" -> wb.pc4
             [] OTHER -> wb.alu_result

\* rs1_forward_hit and rs2_forward_hit: the write-back value bypasses the RF.
forward_hit_any_rd(rs) == wb.valid /\ wb.rd # 0 /\ wb.rd = rs     \* mutant
forward_hit(rs) == wb.valid /\ wb.reg_write /\ wb.rd # 0 /\ wb.rd = rs
operand(rs)     == IF forward_hit(rs) THEN wb_data ELSE ReadReg(regs, rs)

operand_a     == operand(ins.rs1)
operand_b_raw == operand(ins.rs2)
alu_src_b     == IF dec.use_imm THEN ins.imm ELSE operand_b_raw
alu_result    == Alu(dec.alu_op, operand_a, alu_src_b)

branch_taken == /\ stage_valid
                /\ \/ dec.branch_type = "BR_EQ" /\ operand_a = operand_b_raw
                   \/ dec.branch_type = "BR_NE" /\ operand_a # operand_b_raw
jump_taken     == stage_valid /\ dec.jump_type # "JMP_NONE"
redirect_valid == branch_taken \/ jump_taken
redirect_pc    == IF dec.jump_type = "JMP_JALR"
                  THEN Even(Plus(operand_a, ins.imm))
                  ELSE Plus(if_id.pc, ins.imm)
pc_next_33_bits == IF redirect_valid THEN redirect_pc ELSE pc_q + 4     \* mutant
pc_next        == IF redirect_valid THEN redirect_pc ELSE Plus(pc_q, 4)

dmem_re == stage_valid /\ dec.mem_read
dmem_we == stage_valid /\ dec.mem_write

-----------------------------------------------------------------------------
(* The clocked blocks.  rst reaches the PC, IF_ID and the stage registers; *)
(* the IM, the RF and the DM have no reset and take every edge.            *)

U_PC(rst) == pc_q' = IF rst THEN RESET_PC ELSE pc_next

U_IM == ins_q' = memory[IMemIndex(pc_q)]

IfIdReset == [valid |-> FALSE, pc |-> RESET_PC, pc4 |-> Plus(RESET_PC, 4), ins |-> NOP_INSTR]
IfIdClear == [valid |-> FALSE, pc |-> 0, pc4 |-> 0, ins |-> NOP_INSTR]

U_IF_ID_not_cleared(rst) ==     \* mutant
  if_id' = IF rst THEN IfIdReset
           ELSE [valid |-> im_req.valid, pc |-> im_req.pc,
                 pc4 |-> Plus(im_req.pc, 4), ins |-> ins_q]

U_IF_ID(rst) ==
  if_id' = IF rst THEN IfIdReset
           ELSE IF redirect_valid THEN IfIdClear
           ELSE [valid |-> im_req.valid, pc |-> im_req.pc,
                 pc4 |-> Plus(im_req.pc, 4), ins |-> ins_q]

U_RF == regs' = IF rf_we THEN WriteReg(regs, wb.rd, wb_data) ELSE regs

U_DM ==
  LET word_addr == DMemIndex(alu_result)
  IN  /\ dmem' = IF dmem_we THEN [dmem EXCEPT ![word_addr] = operand_b_raw] ELSE dmem
      /\ rd_q' = IF dmem_re /\ ~dmem_we THEN dmem[word_addr] ELSE rd_q

WbReset == [valid |-> FALSE, reg_write |-> FALSE, sel |-> "WB_ALU",
            rd |-> 0, pc4 |-> 0, alu_result |-> 0]

WbOf == [valid |-> stage_valid, reg_write |-> stage_valid /\ dec.reg_write,
         sel |-> dec.wb_sel, rd |-> ins.rd, pc4 |-> if_id.pc4, alu_result |-> alu_result]

StageRegs_sticky(rst) ==     \* mutant
  /\ im_req' = [valid |-> im_req.valid /\ ~rst /\ ~redirect_valid,
                pc |-> IF rst THEN RESET_PC ELSE pc_q]
  /\ wb' = IF rst THEN WbReset ELSE WbOf

StageRegs(rst) ==
  /\ im_req' = IF rst THEN [valid |-> FALSE, pc |-> RESET_PC]
               ELSE [valid |-> ~redirect_valid, pc |-> pc_q]
  /\ wb' = IF rst THEN WbReset ELSE WbOf

Edge(rst) ==
  /\ U_PC(rst) /\ U_IM /\ U_IF_ID(rst) /\ U_RF /\ U_DM /\ StageRegs(rst)
  /\ UNCHANGED memory

Clock == Edge(FALSE)     \* a rising edge with rst low
Reset == Edge(TRUE)      \* a rising edge with rst high

\* The state after the first edge with rst high: the testbenches hold rst for
\* two.  That edge read the IM at an undefined address, so ins_q is any word.
Init ==
  /\ memory \in [0 .. IMEM_DEPTH - 1 -> Instr]
  /\ pc_q = RESET_PC
  /\ ins_q \in Instr
  /\ im_req = [valid |-> FALSE, pc |-> RESET_PC]
  /\ if_id = IfIdReset
  /\ wb = WbReset
  /\ regs = [r \in RegIds |-> 0]
  /\ dmem = [i \in 0 .. DMEM_DEPTH - 1 |-> 0]
  /\ rd_q = 0

Next == Clock \/ Reset

Spec == Init /\ [][Next]_vars

\* The clock of the testbenches never stops.
FairSpec == Spec /\ WF_vars(Next)
-----------------------------------------------------------------------------
(* Properties.                                                             *)

TypeOK ==
  /\ memory \in [0 .. IMEM_DEPTH - 1 -> InstrRecord]
  /\ pc_q \in Word
  /\ ins_q \in InstrRecord
  /\ im_req \in [valid : BOOLEAN, pc : Word]
  /\ if_id \in [valid : BOOLEAN, pc : Word, pc4 : Word, ins : InstrRecord]
  /\ wb \in [valid : BOOLEAN, reg_write : BOOLEAN, sel : {"WB_ALU", "WB_MEM", "WB_PC4"},
             rd : RegIds, pc4 : Word, alu_result : Word]
  /\ regs \in [RegIds -> Word]
  /\ dmem \in [0 .. DMEM_DEPTH - 1 -> Word]
  /\ rd_q \in Word

\* The stages hold consecutive instructions of one path: what IM returned is
\* the word at the address recorded with it, the execute stage holds the word
\* at its pc, and the address behind a valid stage is the next one.  So no
\* flush leaves a word paired with another word's pc (riscv_pipeline.v:94-113).
RequestMatchesFetch ==
  im_req.valid => /\ ins_q = memory[IMemIndex(im_req.pc)]
                  /\ pc_q = Plus(im_req.pc, 4)
ExecuteFollowsFetch ==
  if_id.valid => /\ if_id.ins = memory[IMemIndex(if_id.pc)]
                 /\ if_id.pc4 = Plus(if_id.pc, 4)
                 /\ im_req.valid
                 /\ im_req.pc = Plus(if_id.pc, 4)
PathInv == RequestMatchesFetch /\ ExecuteFollowsFetch

\* Once resets stop, an instruction executes again and again: no program, not
\* even one that redirects on every instruction, leaves the execute stage empty
\* for ever (riscv_pipeline.v:176-196).
Progress == <>[][Clock]_vars => []<>(if_id.valid)

\* The architectural state: an instruction takes effect when it leaves the
\* execute stage, so the register in the write-back stage counts as written,
\* and pc is the oldest instruction that has not executed.
ArchRegs == IF rf_we THEN WriteReg(regs, wb.rd, wb_data) ELSE regs
ArchPc   == IF if_id.valid THEN if_id.pc
            ELSE IF im_req.valid THEN im_req.pc ELSE pc_q

Arch == INSTANCE ISA WITH prog <- memory, pc <- ArchPc, regs <- ArchRegs, mem <- dmem

\* The pipeline, with its forwarding and its flushes, executes exactly what
\* the sequential machine executes, whatever the program and wherever the
\* resets fall (riscv_pipeline.v:70-196).
RefinesISA == Arch!Spec
=============================================================================
