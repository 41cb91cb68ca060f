------------------------------ MODULE ALUBench ------------------------------
(***************************************************************************)
(* The ALU testbenches (alu/tb, uvm_alu*/tb/top_tb.sv): each clock edge    *)
(* drives operands and an operation, and the outputs of the devices are    *)
(* compared with an expected value.  Here the operands range over every    *)
(* word of W bits, and the expected value is arithmetic on integers; that  *)
(* of a bitwise operation is the sum of the weights of the bits it sets.   *)
(***************************************************************************)
EXTENDS ALU, E203Dpath, ALU16, FiniteSetsExt

VARIABLES a, b, op     \* what the testbench drives
vars == <<a, b, op>>

E203Op == [ADD |-> "add", SUB |-> "sub", AND |-> "and", OR |-> "or",
           SLL |-> "sll", SRL |-> "srl", XOR |-> "xor", SRA |-> "sra"]
OP16   == [ADD |-> "OP_ADD", SUB |-> "OP_SUB", AND |-> "OP_AND", OR |-> "OP_OR",
           SLL |-> "OP_SLL", SRL |-> "OP_SRL", XOR |-> "OP_XOR", SRA |-> "none"]

Init  == a = 0 /\ b = 0 /\ op = "ADD"
Drive == a' \in Words /\ b' \in Words /\ op' \in Ops
Spec  == Init /\ [][Drive]_vars
-----------------------------------------------------------------------------
(* The expected values.                                                    *)

Signed(x) == IF x >= pow2[W - 1] THEN x - M ELSE x

\* A bitwise operation, from its truth table: the sum of the weights of the
\* bits that are set.
FromBits(s) == MapThenSumSet(LAMBDA i : pow2[i], s)

expected ==
  CASE op = "ADD" -> (Signed(a) + Signed(b)) % M
    [] op = "SUB" -> (Signed(a) - Signed(b)) % M
    [] op = "AND" -> FromBits(Bits(a) \cap Bits(b))
    [] op = "OR"  -> FromBits(Bits(a) \cup Bits(b))
    [] op = "XOR" -> FromBits((Bits(a) \cup Bits(b)) \ (Bits(a) \cap Bits(b)))
    [] op = "SLL" -> (a * pow2[b % W]) % M
    [] op = "SRL" -> a \div pow2[b % W]
    [] op = "SRA" -> (Signed(a) \div pow2[b % W]) % M

\* The pipeline's ALU computes what the testbench expects, zero flag included:
\* its one adder serves SUB too (ALU.v:25-46).
PipelineALUCorrect ==
  /\ ALUResult(op, a, b) = expected
  /\ zero(op, a, b) <=> expected = 0

\* The E203 comparisons, taken from bit W of a subtraction of extended words,
\* order the words: cmp_gt is "not less" (e203_exu_alu_dpath.v:234-358).
Comparisons ==
  /\ cmp_res("cmp_eq", a, b)  <=> a = b
  /\ cmp_res("cmp_ne", a, b)  <=> a # b
  /\ cmp_res("cmp_lt", a, b)  <=> Signed(a) < Signed(b)
  /\ cmp_res("cmp_gt", a, b)  <=> Signed(a) >= Signed(b)
  /\ cmp_res("cmp_ltu", a, b) <=> a < b
  /\ cmp_res("cmp_gtu", a, b) <=> a >= b
  /\ alu_dpath_res("slt", a, b)  = IF Signed(a) < Signed(b) THEN 1 ELSE 0
  /\ alu_dpath_res("sltu", a, b) = IF a < b THEN 1 ELSE 0
  /\ alu_dpath_res("max", a, b)  = IF Signed(a) >= Signed(b) THEN a ELSE b
  /\ alu_dpath_res("min", a, b)  = IF Signed(a) < Signed(b) THEN a ELSE b
  /\ alu_dpath_res("maxu", a, b) = IF a >= b THEN a ELSE b
  /\ alu_dpath_res("minu", a, b) = IF a < b THEN a ELSE b

\* The E203 datapath, the second reference of uvm_alu_e203, agrees with it,
\* comparisons included: its one left shifter serves the right shifts and its
\* one adder the comparisons (e203_exu_alu_dpath.v:184-358).
E203Agrees ==
  /\ alu_dpath_res(E203Op[op], a, b) = expected
  /\ Comparisons

\* The flags of alu.v, which its testbench never compares: carry is the carry
\* out of ADD and the borrow of SUB, overflow says that the signed result is
\* not the integer sum or difference (alu/rtl/alu.v:33-46, 68-74).
FlagsCorrect ==
  LET r == y(OP16[op], a, b)
  IN  /\ op # "SRA" => r = expected
      /\ carry(OP16[op], a, b) <=>
           (op = "ADD" /\ a + b >= M) \/ (op = "SUB" /\ a < b)
      /\ overflow(OP16[op], a, b) <=>
           \/ op = "ADD" /\ Signed(r) # Signed(a) + Signed(b)
           \/ op = "SUB" /\ Signed(r) # Signed(a) - Signed(b)
=============================================================================
