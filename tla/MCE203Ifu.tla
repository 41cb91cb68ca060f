----------------------------- MODULE MCE203Ifu -----------------------------
(***************************************************************************)
(* Programs for E203Ifu.                                                   *)
(***************************************************************************)
EXTENDS E203Ifu, TLC

I(len, op, off, rs1, rd) == [len |-> len, op |-> op, off |-> off, rs1 |-> rs1, rd |-> rd]
N(len) == I(len, "N", 0, "x0", "x0")
U(len) == I(len, "N", 0, "xn", "x0")
J(len, off) == I(len, "J", off, "x0", "x0")
JR(len, r) == I(len, "JR", 0, r, "x0")
S(len, r, s) == I(len, "S", 0, s, r)
L(len, r) == I(len, "L", 0, "x1", r)
WFI == I(2, "WFI", 0, "x0", "x0")

\* Both lanes of the ITCM, crossed by a long instruction, and a jump back.
Crossing ==
    [code |-> 0 :> N(1) @@ 1 :> N(2) @@ 3 :> N(2) @@ 5 :> N(2) @@ 7 :> J(1, -6),
     flush |-> {0, 3}]

\* From the ITCM to the bus and back, lanes of both crossed.
TwoMemories ==
    [code |-> 0 :> N(2) @@ 2 :> J(1, 5) @@ 7 :> N(2) @@ 9 :> N(2) @@ 11 :> N(2) @@ 1 :> J(1, 7)
               @@ 8 :> N(1),
     flush |-> {0, 7}]

\* Jumps through x1 and xn, written at once and by loads.
Jumps(f) ==
    [code |-> 0 :> S(2, "x1", "xn") @@ 2 :> JR(1, "x1") @@ 3 :> S(2, "xn", "x1") @@ 5 :> JR(1, "xn")
               @@ 6 :> L(1, "xn") @@ 7 :> J(1, -3) @@ 4 :> U(1),
     flush |-> f]

\* WFI before and in front of the lane boundary, the first one behind a load; the
\* handler starts with an instruction in two lanes.
Sleeping ==
    [code |-> 0 :> L(1, "xn") @@ 1 :> WFI @@ 3 :> N(2) @@ 5 :> WFI @@ 7 :> J(1, -7),
     flush |-> {3}]

\* Jumps through two registers, the second one where a flush goes.
TwoRegisters ==
    [code |-> 0 :> S(2, "xm", "x0") @@ 2 :> JR(1, "xn") @@ 4 :> JR(1, "xm"), flush |-> {0, 4}]

AllPrograms == {Crossing, TwoMemories, Jumps({0, 6}), Jumps({3, 6}), Sleeping}
SleepPrograms == {Sleeping}
TwoRegisterPrograms == {TwoRegisters}
=============================================================================
