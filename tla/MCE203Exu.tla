----------------------------- MODULE MCE203Exu -----------------------------
(***************************************************************************)
(* Small instances of E203Exu for TLC: two registers and a few             *)
(* instructions of each kind.                                              *)
(***************************************************************************)
EXTENDS E203Exu

CONSTANTS a0, a1

I(k, s1, s2, d) == [kind |-> k, rs1 |-> s1, rs2 |-> s2, rd |-> d]
Other(k) == I(k, NoReg, NoReg, NoReg)

\* What each unit holds in flight, readers and writers of the results, and what
\* may trap, sleep, flush or lock the bus among them.
MixedInstr ==
  { I("ALU", a0, a1, a0), I("LOAD", a0, NoReg, a1), I("STORE", a0, a1, NoReg),
    I("AMO", a0, a1, a1), I("LBUF", a0, NoReg, NoReg), I("ROWSUM", a0, NoReg, a1) }
  \cup { Other(k) : k \in {"CSR", "WFI", "BJP", "ECALL"} }

LiveInstr ==
  { I("LOAD", a0, NoReg, a1), I("AMO", a0, a1, a1) }
  \cup { Other(k) : k \in {"WFI", "CSR", "BJP", "ECALL", "FENCE", "FENCEI"} }

\* A sleeping core with a load outstanding.
SleepInstr == { I("LOAD", a0, NoReg, a1), Other("WFI"), Other("CSR"), Other("BJP") }

\* The co-unit with a custom encoding it does not implement.
NiceInstr ==
  { I("LBUF", a0, NoReg, NoReg), I("NICE_BAD", a0, NoReg, a1), I("ALU", a0, a1, a0),
    Other("CSR") }
=============================================================================
