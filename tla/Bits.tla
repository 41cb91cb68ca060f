-------------------------------- MODULE Bits --------------------------------
(***************************************************************************)
(* Verilog's operators on words of W bits, as the three ALUs use them: a   *)
(* word is a number, bit(x, i) is x[i], and the bitwise operators and      *)
(* concatenations are the words that have the bits they say.               *)
(***************************************************************************)
EXTENDS Integers

CONSTANT W

pow2[n \in Nat] == 2^n

\* 32 in the pipeline and in the E203, 16 in alu.v: a shift amount is a slice
\* of the operand, so the width is a power of two.
ASSUME WidthAssumption == W \in Nat \ {0} /\ \E n \in 0 .. W : W = pow2[n]

M     == pow2[W]
Words == 0 .. M - 1
Index == 0 .. W - 1

bit(x, i) == (x \div pow2[i]) % 2
MSB(x)    == bit(x, W - 1)
Bits(x)   == {i \in Index : bit(x, i) = 1}

\* The word that has exactly these bits set.
Word(s) == CHOOSE x \in Words : Bits(x) = s

x & z  == Word(Bits(x) \cap Bits(z))
x | z  == Word(Bits(x) \cup Bits(z))
x ^^ z == Word((Bits(x) \cup Bits(z)) \ (Bits(x) \cap Bits(z)))
Not(x) == Word(Index \ Bits(x))

\* The slice that a shift takes of its second operand: B[4:0] of 32 bits.
ShamtBits == CHOOSE n \in 0 .. W : pow2[n] = W
Shamt(x)  == x % pow2[ShamtBits]
=============================================================================
