--------------------------------- MODULE ALU ---------------------------------
(***************************************************************************)
(* rtl_pipeline/ALU.v on words of W bits (32 in the RTL).  The RTL has one *)
(* adder for ADD and SUB: SUB complements B and carries a one in.          *)
(***************************************************************************)
EXTENDS Bits

Ops == {"ADD", "SUB", "AND", "OR", "SLL", "SRL", "XOR", "SRA"}

sub_sel(op)         == op = "SUB"
adder_b(op, b)      == IF sub_sel(op) THEN b ^^ (M - 1) ELSE b
adder_sum_no_carry(op, a, b) == a + adder_b(op, b)     \* mutant
adder_sum(op, a, b) == a + adder_b(op, b) + (IF sub_sel(op) THEN 1 ELSE 0)

\* $signed(A) >>> n: the vacated high bits take the sign bit.
ArithShiftRight(a, n) ==
  LET fill == IF MSB(a) = 1 THEN M - pow2[W - n] ELSE 0
  IN  (a \div pow2[n]) + fill

ALUResult(op, a, b) ==
  CASE op = "ADD" -> adder_sum(op, a, b) % M
    [] op = "SUB" -> adder_sum(op, a, b) % M
    [] op = "AND" -> a & b
    [] op = "OR"  -> a | b
    [] op = "XOR" -> a ^^ b
    [] op = "SLL" -> (a * pow2[Shamt(b)]) % M
    [] op = "SRL" -> a \div pow2[Shamt(b)]
    [] op = "SRA" -> ArithShiftRight(a, Shamt(b))
    [] OTHER      -> 0

zero(op, a, b) == ALUResult(op, a, b) = 0
=============================================================================
