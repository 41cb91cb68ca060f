-------------------------------- MODULE ALU16 --------------------------------
(***************************************************************************)
(* alu/rtl/alu.v on words of W bits (16 in the RTL): the result, carry and *)
(* overflow; zero and sign repeat the result.  The carry of SUB is the     *)
(* borrow, bit W of the W+1-bit difference.                                *)
(***************************************************************************)
EXTENDS Bits

tmp17(op, a, b) ==
  CASE op = "OP_ADD" -> (a + b) % pow2[W + 1]
    [] op = "OP_SUB" -> (a - b) % pow2[W + 1]
    [] OTHER         -> 0

y(op, a, b) ==
  CASE op \in {"OP_ADD", "OP_SUB"} -> tmp17(op, a, b) % M
    [] op = "OP_AND" -> a & b
    [] op = "OP_OR"  -> a | b
    [] op = "OP_XOR" -> a ^^ b
    [] op = "OP_SLL" -> (a * pow2[Shamt(b)]) % M
    [] op = "OP_SRL" -> a \div pow2[Shamt(b)]
    [] OTHER         -> 0

carry(op, a, b) == bit(tmp17(op, a, b), W) = 1

overflow_of_add(op, a, b) ==     \* mutant
  LET r == MSB(y(op, a, b))
  IN  op \in {"OP_ADD", "OP_SUB"} /\ MSB(a) = MSB(b) /\ r # MSB(a)
overflow(op, a, b) ==
  LET r == MSB(y(op, a, b))
  IN  \/ op = "OP_ADD" /\ MSB(a) = MSB(b) /\ r # MSB(a)
      \/ op = "OP_SUB" /\ MSB(a) # MSB(b) /\ r # MSB(a)
=============================================================================
