------------------------------ MODULE E203Dpath ------------------------------
(***************************************************************************)
(* e203_exu_alu_dpath.v on words of W bits (32 in the RTL): one adder for  *)
(* additions, subtractions, comparisons and min/max, one left shifter for  *)
(* the three shifts (right shifts reverse the operand and the result).     *)
(***************************************************************************)
EXTENDS Bits

Ones == M - 1

op_unsigned == {"sltu", "cmp_ltu", "cmp_gtu", "maxu", "minu"}
op_compare  == {"slt", "sltu", "cmp_lt", "cmp_ltu", "cmp_gt", "cmp_gtu",
                "max", "min", "maxu", "minu"}

reverse(a) == Word({i \in Index : bit(a, W - 1 - i) = 1})

shifter_in1(op, a) == IF op \in {"sra", "srl"} THEN reverse(a) ELSE a
shifter_res(op, a, b) == (shifter_in1(op, a) * pow2[Shamt(b)]) % M

sll_res(a, b) == shifter_res("sll", a, b)
srl_res(a, b) == reverse(shifter_res("srl", a, b))
eff_mask(b)   == Ones \div pow2[Shamt(b)]
sra_res_unmasked(a, b) == srl_res(a, b) | (MSB(a) * eff_mask(b))     \* mutant
sra_res(a, b) == (srl_res(a, b) & eff_mask(b)) | ((MSB(a) * Ones) & Not(eff_mask(b)))

\* The adder is wider than a word: three bits of sign or zero extension.
ADDER == pow2[W + 3]
extend(op, a) == IF op \in op_unsigned THEN a ELSE a + MSB(a) * (ADDER - M)
adder_sub(op) == op = "sub" \/ op \in op_compare
adder_in2(op, b) == IF adder_sub(op) THEN (ADDER - 1) - extend(op, b) ELSE extend(op, b)
adder_res(op, a, b) ==
  (extend(op, a) + adder_in2(op, b) + (IF adder_sub(op) THEN 1 ELSE 0)) % ADDER

lt(op, a, b)         == bit(adder_res(op, a, b), W) = 1
op1_gt_op2(op, a, b) == ~lt(op, a, b)
maxmin_sel_op1(op, a, b) ==
  \/ op \in {"max", "maxu"} /\ op1_gt_op2(op, a, b)
  \/ op \in {"min", "minu"} /\ ~op1_gt_op2(op, a, b)

alu_dpath_res(op, a, b) ==
  CASE op = "or"  -> a | b
    [] op = "and" -> a & b
    [] op = "xor" -> a ^^ b
    [] op \in {"add", "sub"}  -> adder_res(op, a, b) % M
    [] op = "srl" -> srl_res(a, b)
    [] op = "sll" -> sll_res(a, b)
    [] op = "sra" -> sra_res(a, b)
    [] op = "mvop2" -> b
    [] op \in {"slt", "sltu"} -> IF lt(op, a, b) THEN 1 ELSE 0
    [] op \in {"max", "min", "maxu", "minu"} -> IF maxmin_sel_op1(op, a, b) THEN a ELSE b
    [] OTHER -> 0

cmp_res(op, a, b) ==
  CASE op = "cmp_eq" -> (a ^^ b) = 0
    [] op = "cmp_ne" -> (a ^^ b) # 0
    [] op \in {"cmp_lt", "cmp_ltu"} -> lt(op, a, b)
    [] op \in {"cmp_gt", "cmp_gtu"} -> op1_gt_op2(op, a, b)
    [] OTHER -> FALSE
=============================================================================
