------------------------------ MODULE ALUProofs ------------------------------
(***************************************************************************)
(* The three ALUs compute what the testbench expects, for every width that *)
(* is a power of two: TLC looks at four bits, the RTL has 16 and 32.       *)
(***************************************************************************)
EXTENDS ALUBench, FiniteSetTheorems, TLAPS

-----------------------------------------------------------------------------
(* Integers.                                                               *)

\* A set of numbers that is not empty has a least one.
LEMMA LeastOf ==
  ASSUME NEW S \in SUBSET Nat, S # {}
  PROVE  \E m \in S : \A k \in S : m <= k
<1>. DEFINE Upto(k) == 0..k
            T == {Upto(k) : k \in S}
            R == StrictSubsetOrdering(Nat)
<1>1. T \subseteq FiniteSubsetsOf(Nat)
  <2>1. \A k \in S : Upto(k) \subseteq Nat
    OBVIOUS
  <2>2. \A k \in S : IsFiniteSet(Upto(k))
    BY FS_Interval
  <2>. QED
    BY <2>1, <2>2 DEF FiniteSubsetsOf
<1>2. T # {}
  OBVIOUS
<1>3. PICK x \in T : \A z \in T : <<z, x>> \notin R
  BY <1>1, <1>2, FS_StrictSubsetOrderingWellFounded, WFMin, Zenon
<1>4. PICK m \in S : x = Upto(m)
  OBVIOUS
<1>5. ASSUME NEW k \in S, k < m PROVE FALSE
  <2>1. Upto(k) \subseteq Upto(m) /\ Upto(k) # Upto(m) /\ Upto(m) \subseteq Nat
    BY <1>5
  <2>2. <<Upto(k), Upto(m)>> \in R
    BY <2>1 DEF StrictSubsetOrdering
  <2>. QED
    BY <1>3, <1>4, <2>2
<1>. QED
  BY <1>5

LEMMA Induction ==
  ASSUME NEW S \in SUBSET Nat, 0 \in S, \A n \in S : n + 1 \in S
  PROVE  S = Nat
<1>. DEFINE Bad == Nat \ S
<1>. SUFFICES ASSUME Bad # {} PROVE FALSE
  OBVIOUS
<1>1. PICK m \in Bad : \A k \in Bad : m <= k
  <2>1. Bad \in SUBSET Nat
    OBVIOUS
  <2>. HIDE DEF Bad
  <2>. QED
    BY <2>1, LeastOf
<1>2. m \in Nat /\ m # 0 /\ m - 1 \in Nat
  OBVIOUS
<1>3. m - 1 \in S
  BY <1>1, <1>2
<1>4. m \in S
  BY <1>2, <1>3
<1>. QED
  BY <1>4

\* A set with one more element has twice as many subsets.
LEMMA PowStep ==
  ASSUME NEW n \in Nat
  PROVE  pow2[n] \in Nat /\ pow2[n + 1] = 2 * pow2[n]
<1>. DEFINE m == n + 1
            A == SUBSET (1..n)
            f == [T \in A |-> T \cup {m}]
            B == {T \cup {m} : T \in A}
<1>1. /\ IsFiniteSet(1..n) /\ Cardinality(1..n) = n
      /\ IsFiniteSet(1..m) /\ Cardinality(1..m) = m
  BY FS_Interval
<1>2. /\ IsFiniteSet(A) /\ Cardinality(A) = pow2[n]
      /\ Cardinality(SUBSET (1..m)) = pow2[m]
  <2>1. pow2[n] = 2^n /\ pow2[m] = 2^m
    <3>1. m \in Nat /\ pow2 = [k \in Nat |-> 2^k]
      BY DEF pow2
    <3>. HIDE DEF m
    <3>. QED
      BY <3>1, Zenon
  <2>2. IsFiniteSet(A) /\ Cardinality(A) = 2^Cardinality(1..n)
    BY <1>1, FS_SUBSET, Zenon
  <2>3. Cardinality(SUBSET (1..m)) = 2^Cardinality(1..m)
    BY <1>1, FS_SUBSET, Zenon
  <2>. QED
    BY <1>1, <2>1, <2>2, <2>3, Zenon
<1>3. m \notin 1..n /\ 1..m = (1..n) \cup {m}
  OBVIOUS
<1>4. SUBSET (1..m) = A \cup B
  <2>. HIDE DEF m
  <2>1. ASSUME NEW T \in SUBSET (1..m) PROVE T \in A \cup B
    <3>1. CASE m \in T
      <4>1. T \ {m} \in A /\ T = (T \ {m}) \cup {m}
        BY <1>3, <3>1
      <4>. QED
        BY <4>1
    <3>2. CASE m \notin T
      BY <1>3, <3>2
    <3>. QED
      BY <3>1, <3>2
  <2>2. A \cup B \subseteq SUBSET (1..m)
    BY <1>3
  <2>. QED
    BY <2>1, <2>2
<1>5. A \cap B = {}
  BY <1>3
<1>6. IsFiniteSet(B) /\ Cardinality(B) = Cardinality(A)
  <2>1. f \in Bijection(A, B)
    <3>1. \A T, U \in A : f[T] = f[U] => T = U
      <4>. SUFFICES ASSUME NEW T \in A, NEW U \in A, f[T] = f[U] PROVE T = U
        OBVIOUS
      <4>. HIDE DEF m
      <4>1. T \cup {m} = U \cup {m} /\ m \notin T /\ m \notin U
        BY <1>3
      <4>. QED
        BY <4>1
    <3>2. f \in [A -> B] /\ \A z \in B : \E T \in A : f[T] = z
      OBVIOUS
    <3>. HIDE DEF f, A, B
    <3>. QED
      BY <3>1, <3>2 DEF Bijection, Injection, Surjection, IsInjective
  <2>. HIDE DEF A, B, f
  <2>. QED
    BY <1>2, <2>1, FS_Bijection DEF ExistsBijection
<1>. HIDE DEF A, B
<1>7. Cardinality(A \cup B) = Cardinality(A) + Cardinality(B)
  <2>1. Cardinality(A \cup B) = Cardinality(A) + Cardinality(B) - Cardinality(A \cap B)
    BY <1>2, <1>6, FS_Union
  <2>2. Cardinality(A \cap B) = 0 /\ Cardinality(A) \in Nat
    BY <1>2, <1>5, FS_EmptySet, FS_CardinalityType
  <2>. QED
    BY <1>6, <2>1, <2>2
<1>8. Cardinality(A) \in Nat
  BY <1>2, FS_CardinalityType
<1>9. pow2[m] = pow2[n] + pow2[n]
  BY <1>2, <1>4, <1>6, <1>7, Zenon
<1>. QED
  BY <1>2, <1>8, <1>9

LEMMA PowZero == pow2[0] = 1
BY DEF pow2

LEMMA Division ==
  ASSUME NEW x \in Int, NEW d \in Nat \ {0}
  PROVE  x \div d \in Int /\ x % d \in 0..(d - 1) /\ x = d * (x \div d) + (x % d)
<1>1. x \div d \in Int /\ x % d \in Nat
  OBVIOUS
<1>2. x % d < d
  OBVIOUS
<1>3. x = d * (x \div d) + (x % d)
  BY Z3
<1>4. x % d \in 0..(d - 1)
  BY <1>1, <1>2
<1>. QED
  BY <1>1, <1>3, <1>4, Zenon

LEMMA Monotone ==
  ASSUME NEW u \in Int, NEW v \in Int, NEW k \in Nat, u <= v
  PROVE  k * u <= k * v
<1>1. k * (v - u) >= 0
  BY SMT
<1>. QED
  BY <1>1, SMT

LEMMA Times ==
  ASSUME NEW u \in Int, NEW v \in Int, NEW w \in Int
  PROVE  /\ u * v \in Int /\ u * v = v * u
         /\ u * (v + w) = u * v + u * w /\ u * (v - w) = u * v - u * w
         /\ (u * v) * w = u * (v * w) /\ (u + w) * v = u * v + w * v
BY SMT

\* Quotient and remainder are the only numbers of their kind.
LEMMA Quotient ==
  ASSUME NEW d \in Nat \ {0}, NEW q \in Int, NEW r \in 0..(d - 1)
  PROVE  (d * q + r) \div d = q /\ (d * q + r) % d = r
<1>. DEFINE x == d * q + r
            k == x \div d
            e == x % d
<1>1. x \in Int /\ d * q \in Int
  BY SMT
<1>2. k \in Int /\ e \in 0..(d - 1) /\ x = d * k + e
  <2>. HIDE DEF x
  <2>. QED
    BY <1>1, Division
<1>3. d * k + e = d * q + r
  BY <1>2
<1>. HIDE DEF k, e, x
<1>4. ASSUME NEW u \in Int, NEW v \in Int, NEW s \in 0..(d - 1), NEW t \in 0..(d - 1),
             d * u + s = d * v + t, u <= v - 1
      PROVE  FALSE
  <2>1. d * u <= d * (v - 1)
    BY <1>4, Monotone
  <2>2. d * (v - 1) = d * v - d /\ d * v \in Int /\ d * u \in Int
    BY SMT
  <2>. QED
    BY <1>4, <2>1, <2>2
<1>5. ~(k <= q - 1) /\ ~(q <= k - 1)
  BY <1>2, <1>3, <1>4
<1>6. k = q
  BY <1>2, <1>5
<1>7. d * k = d * q
  BY <1>6
<1>8. e = r
  BY <1>1, <1>2, <1>3, <1>7
<1>. QED
  BY <1>6, <1>8 DEF k, e, x

-----------------------------------------------------------------------------
(* Powers of two and bits.                                                 *)

LEMMA Pow ==
  ASSUME NEW n \in Nat
  PROVE  pow2[n] \in Nat \ {0} /\ pow2[n + 1] = 2 * pow2[n]
<1>. DEFINE S == {k \in Nat : pow2[k] > 0}
<1>1. 0 \in S
  BY PowZero
<1>2. ASSUME NEW k \in S PROVE k + 1 \in S
  BY PowStep
<1>3. S = Nat
  <2>. HIDE DEF S
  <2>1. S \in SUBSET Nat
    BY DEF S
  <2>. QED
    BY <1>1, <1>2, <2>1, Induction
<1>. QED
  BY <1>3, PowStep

LEMMA PowSum ==
  ASSUME NEW m \in Nat, NEW n \in Nat
  PROVE  pow2[m + n] = pow2[m] * pow2[n]
<1>. DEFINE S == {k \in Nat : pow2[m + k] = pow2[m] * pow2[k]}
<1>1. 0 \in S
  <2>1. m + 0 = m /\ pow2[m] * 1 = pow2[m]
    BY Pow
  <2>. QED
    BY <2>1, PowZero
<1>2. ASSUME NEW k \in S PROVE k + 1 \in S
  <2>1. PICK u \in Nat : u = pow2[m]
    BY Pow
  <2>2. PICK v \in Nat : v = pow2[k]
    BY Pow
  <2>3. pow2[m + k] = u * v
    BY <2>1, <2>2
  <2>4. pow2[(m + k) + 1] = 2 * (u * v)
    BY <2>3, Pow
  <2>5. pow2[k + 1] = 2 * v
    BY <2>2, Pow
  <2>6. 2 * (u * v) = u * (2 * v)
    BY SMT
  <2>7. (m + k) + 1 = m + (k + 1)
    OBVIOUS
  <2>8. pow2[m + (k + 1)] = pow2[m] * pow2[k + 1]
    BY <2>1, <2>4, <2>5, <2>6, <2>7
  <2>. QED
    BY <2>8
<1>3. S = Nat
  <2>. HIDE DEF S
  <2>1. S \in SUBSET Nat
    BY DEF S
  <2>. QED
    BY <1>1, <1>2, <2>1, Induction
<1>. QED
  BY <1>3

\* A number is found bit by bit: what is above bit i, the bit, what is below.
LEMMA BitFound ==
  ASSUME NEW i \in Nat, NEW h \in Int, NEW t \in {0, 1}, NEW r \in 0..(pow2[i] - 1)
  PROVE  bit(pow2[i + 1] * h + pow2[i] * t + r, i) = t
<1>1. PICK u \in Nat \ {0} : u = pow2[i] /\ pow2[i + 1] = 2 * u
  BY Pow
<1>2. PICK z \in Int : z = 2 * h + t
  OBVIOUS
<1>3. (2 * u) * h + u * t = u * z
  <2>1. (2 * u) * h = u * (2 * h)
    BY SMT
  <2>2. u * (2 * h) + u * t = u * (2 * h + t)
    BY Times
  <2>. QED
    BY <1>2, <2>1, <2>2
<1>4. (u * z + r) \div u = z
  BY <1>1, Quotient
<1>5. z % 2 = t
  BY <1>2
<1>. QED
  BY <1>1, <1>3, <1>4, <1>5 DEF bit

LEMMA BitParts ==
  ASSUME NEW x \in Int, NEW i \in Nat
  PROVE  /\ bit(x, i) \in {0, 1}
         /\ \E h \in Int, r \in 0..(pow2[i] - 1) :
               x = pow2[i + 1] * h + pow2[i] * bit(x, i) + r
<1>1. PICK u \in Nat \ {0} : u = pow2[i] /\ pow2[i + 1] = 2 * u
  BY Pow
<1>2. PICK q \in Int, r \in 0..(u - 1) : x = u * q + r /\ q = x \div u
  <2>1. x \div u \in Int /\ x % u \in 0..(u - 1) /\ x = u * (x \div u) + (x % u)
    BY Division
  <2>. QED
    BY <2>1
<1>3. PICK h \in Int, t \in {0, 1} : q = 2 * h + t /\ t = q % 2
  <2>1. 2 \in Nat \ {0} /\ 2 - 1 = 1
    OBVIOUS
  <2>2. q \div 2 \in Int /\ q % 2 \in 0..1 /\ q = 2 * (q \div 2) + (q % 2)
    BY <2>1, Division
  <2>. QED
    BY <2>2
<1>4. bit(x, i) = t
  BY <1>1, <1>2, <1>3 DEF bit
<1>5. u * q = (2 * u) * h + u * t
  <2>1. (2 * u) * h = u * (2 * h)
    BY SMT
  <2>2. u * (2 * h) + u * t = u * (2 * h + t)
    BY Times
  <2>. QED
    BY <1>3, <2>1, <2>2
<1>6. x = pow2[i + 1] * h + pow2[i] * bit(x, i) + r
  BY <1>1, <1>2, <1>4, <1>5
<1>. QED
  BY <1>1, <1>4, <1>6

\* The powers below and above bit i of n bits.
LEMMA PowApart ==
  ASSUME NEW n \in Nat, NEW i \in 0..(n - 1)
  PROVE  /\ i \in Nat /\ n - 1 - i \in Nat
         /\ pow2[n] = pow2[i + 1] * pow2[n - 1 - i]
<1>1. i \in Nat /\ i + 1 \in Nat /\ n - 1 - i \in Nat /\ (i + 1) + (n - 1 - i) = n
  OBVIOUS
<1>. QED
  BY <1>1, PowSum

\* A multiple of 2^n has no part in the bits below n.
LEMMA LowBits ==
  ASSUME NEW x \in Int, NEW h \in Int, NEW n \in Nat, NEW i \in 0..(n - 1)
  PROVE  bit(x + pow2[n] * h, i) = bit(x, i)
<1>1. i \in Nat /\ n - 1 - i \in Nat /\ pow2[n] = pow2[i + 1] * pow2[n - 1 - i]
  BY PowApart
<1>2. PICK u \in Nat : u = pow2[i + 1]
  BY <1>1, Pow
<1>3. PICK k \in Nat : k = pow2[n - 1 - i]
  BY <1>1, Pow
<1>4. PICK g \in Int, r \in 0..(pow2[i] - 1) :
          x = pow2[i + 1] * g + pow2[i] * bit(x, i) + r
  BY <1>1, BitParts
<1>5. bit(x, i) \in {0, 1}
  BY <1>1, BitParts
<1>6. PICK t \in {0, 1} : t = bit(x, i)
  BY <1>5
<1>7. PICK z \in Int : z = pow2[i] * t
  BY <1>1, Pow
<1>8. pow2[n] * h = u * (k * h) /\ k * h \in Int
  BY <1>1, <1>2, <1>3, Times
<1>9. u * g + u * (k * h) = u * (g + k * h) /\ g + k * h \in Int /\ u * g \in Int
      /\ u * (k * h) \in Int /\ u * (g + k * h) \in Int
  BY <1>8, Times
<1>10. r \in Int
  BY <1>1, Pow
<1>11. x + pow2[n] * h = u * (g + k * h) + z + r
  <2>1. x = u * g + z + r
    BY <1>2, <1>4, <1>6, <1>7
  <2>. QED
    BY <1>8, <1>9, <1>10, <2>1
<1>12. bit(pow2[i + 1] * (g + k * h) + pow2[i] * t + r, i) = t
  BY <1>1, <1>9, BitFound
<1>. QED
  BY <1>2, <1>6, <1>7, <1>11, <1>12

\* Dividing by 2^n drops the lower bits.
LEMMA HighBits ==
  ASSUME NEW x \in Int, NEW n \in Nat, NEW i \in Nat
  PROVE  bit(x, n + i) = bit(x \div pow2[n], i)
<1>1. PICK u \in Nat \ {0} : u = pow2[n]
  BY Pow
<1>2. PICK v \in Nat \ {0} : v = pow2[i]
  BY Pow
<1>3. PICK q \in Int, r \in 0..(u - 1) : x = u * q + r /\ q = x \div pow2[n]
  BY <1>1, Division
<1>4. PICK h \in Int, s \in 0..(v - 1) : q = pow2[i + 1] * h + v * bit(q, i) + s
  BY <1>2, <1>3, BitParts
<1>5. PICK t \in {0, 1} : t = bit(q, i)
  BY <1>3, BitParts
<1>6. pow2[n + i] = u * v /\ pow2[(n + i) + 1] = 2 * (u * v) /\ pow2[i + 1] = 2 * v
  <2>1. pow2[n + i] = u * v
    BY <1>1, <1>2, PowSum
  <2>2. n + i \in Nat
    OBVIOUS
  <2>3. pow2[(n + i) + 1] = 2 * pow2[n + i]
    BY <2>2, Pow
  <2>4. pow2[i + 1] = 2 * pow2[i]
    BY Pow
  <2>. QED
    BY <1>2, <2>1, <2>3, <2>4
<1>7. u * s + r \in 0..(u * v - 1)
  <2>1. u * s <= u * (v - 1) /\ u * 0 <= u * s
    BY Monotone
  <2>2. u * (v - 1) = u * v - u /\ u * 0 = 0 /\ u * v \in Int /\ u * s \in Int
    BY SMT
  <2>. QED
    BY <1>3, <2>1, <2>2
<1>8. x = (2 * (u * v)) * h + (u * v) * t + (u * s + r)
  <2>1. q = (2 * v) * h + v * t + s
    BY <1>4, <1>5, <1>6
  <2>2. u * ((2 * v) * h + v * t + s) = u * ((2 * v) * h) + u * (v * t) + u * s
    BY SMT
  <2>3. u * ((2 * v) * h) = (2 * (u * v)) * h
    BY SMT
  <2>4. u * (v * t) = (u * v) * t
    BY SMT
  <2>5. u * q = (2 * (u * v)) * h + (u * v) * t + u * s
    BY <2>1, <2>2, <2>3, <2>4, Zenon
  <2>6. PICK l \in Int : l = (2 * (u * v)) * h + (u * v) * t
    OBVIOUS
  <2>7. PICK g \in Int : g = u * s
    OBVIOUS
  <2>8. x = (l + g) + r
    BY <1>3, <2>5, <2>6, <2>7, Zenon
  <2>9. (l + g) + r = l + (g + r)
    BY <1>3
  <2>. QED
    BY <2>6, <2>7, <2>8, <2>9, Zenon
<1>9. bit(pow2[(n + i) + 1] * h + pow2[n + i] * t + (u * s + r), n + i) = t
  <2>1. n + i \in Nat /\ u * s + r \in 0..(pow2[n + i] - 1)
    BY <1>6, <1>7
  <2>. QED
    BY <2>1, BitFound
<1>. QED
  BY <1>3, <1>5, <1>6, <1>8, <1>9

LEMMA BitOfZero ==
  ASSUME NEW i \in Nat
  PROVE  bit(0, i) = 0
<1>1. PICK u \in Nat \ {0} : u = pow2[i]
  BY Pow
<1>2. 0 \div u = 0
  <2>1. 0 \in 0..(u - 1) /\ u * 0 + 0 = 0
    OBVIOUS
  <2>. QED
    BY <2>1, Quotient
<1>. QED
  BY <1>1, <1>2 DEF bit

\* A number below 2^n has no bit from n on.
LEMMA BitsAbove ==
  ASSUME NEW n \in Nat, NEW x \in 0..(pow2[n] - 1), NEW i \in Nat, i >= n
  PROVE  bit(x, i) = 0
<1>1. pow2[n] \in Nat \ {0} /\ x \in Int /\ i - n \in Nat /\ n + (i - n) = i
  BY Pow
<1>2. x \div pow2[n] = 0
  <2>1. PICK u \in Nat \ {0} : u = pow2[n]
    BY <1>1
  <2>2. u * 0 + x = x /\ x \in 0..(u - 1)
    BY <2>1
  <2>. QED
    BY <2>1, <2>2, Quotient
<1>. QED
  <2>1. bit(x, n + (i - n)) = bit(x \div pow2[n], i - n)
    BY <1>1, HighBits
  <2>2. bit(0, i - n) = 0
    BY <1>1, BitOfZero
  <2>. QED
    BY <1>1, <1>2, <2>1, <2>2, Zenon

\* Shifting left, and what remains of it in a word.
LEMMA BitsOfShift ==
  ASSUME NEW x \in Int, NEW n \in Nat, NEW i \in Nat
  PROVE  bit(x * pow2[n], i) = IF i < n THEN 0 ELSE bit(x, i - n)
<1>1. PICK u \in Nat \ {0} : u = pow2[n]
  BY Pow
<1>2. x * u = 0 + u * x /\ x * u \in Int
  BY SMT
<1>3. CASE i < n
  <2>1. i \in 0..(n - 1)
    BY <1>3
  <2>2. bit(0 + pow2[n] * x, i) = bit(0, i)
    BY <2>1, LowBits
  <2>. QED
    BY <1>1, <1>2, <1>3, <2>2, BitOfZero
<1>4. CASE ~(i < n)
  <2>1. i - n \in Nat /\ n + (i - n) = i
    BY <1>4
  <2>2. (x * u) \div u = x
    <3>1. 0 \in 0..(u - 1) /\ x * u = u * x + 0
      BY SMT
    <3>. QED
      BY <3>1, Quotient
  <2>3. bit(x * u, n + (i - n)) = bit((x * u) \div pow2[n], i - n)
    BY <1>2, <2>1, HighBits
  <2>. QED
    BY <1>1, <1>4, <2>1, <2>2, <2>3
<1>. QED
  BY <1>3, <1>4

LEMMA BitsOfRest ==
  ASSUME NEW x \in Int, NEW n \in Nat, NEW i \in 0..(n - 1)
  PROVE  bit(x % pow2[n], i) = bit(x, i)
<1>1. PICK u \in Nat \ {0} : u = pow2[n]
  BY Pow
<1>2. x \div u \in Int /\ x % u \in Int /\ x = u * (x \div u) + (x % u)
  BY Division
<1>3. PICK q \in Int, r \in Int : x = r + u * q /\ r = x % u
  <2>1. PICK q \in Int : q = x \div u
    BY <1>2
  <2>2. PICK r \in Int : r = x % u
    BY <1>2
  <2>3. x = u * q + r /\ u * q \in Int
    BY <1>2, <2>1, <2>2
  <2>4. x = r + u * q
    BY <2>3
  <2>. QED
    BY <2>2, <2>4, Zenon
<1>4. bit(r + pow2[n] * q, i) = bit(r, i)
  BY <1>3, LowBits
<1>. QED
  BY <1>1, <1>3, <1>4

\* The complement of n bits.
LEMMA BitsOfComplement ==
  ASSUME NEW x \in Int, NEW n \in Nat, NEW i \in 0..(n - 1)
  PROVE  bit((pow2[n] - 1) - x, i) = 1 - bit(x, i)
<1>1. i \in Nat /\ n - 1 - i \in Nat /\ pow2[n] = pow2[i + 1] * pow2[n - 1 - i]
  BY PowApart
<1>2. PICK u \in Nat \ {0} : u = pow2[i] /\ pow2[i + 1] = 2 * u
  BY <1>1, Pow
<1>3. PICK k \in Nat : k = pow2[n - 1 - i]
  BY <1>1, Pow
<1>4. PICK h \in Int, r \in 0..(u - 1) : x = (2 * u) * h + u * bit(x, i) + r
  <2>1. \E h \in Int, r \in 0..(pow2[i] - 1) :
           x = pow2[i + 1] * h + pow2[i] * bit(x, i) + r
    BY <1>1, BitParts
  <2>. QED
    BY <1>2, <2>1, Zenon
<1>5. PICK t \in {0, 1} : t = bit(x, i)
  BY <1>1, BitParts
<1>6. (pow2[n] - 1) - x = (2 * u) * (k - 1 - h) + u * (1 - t) + (u - 1 - r)
  <2>1. pow2[n] = (2 * u) * k /\ x = (2 * u) * h + u * t + r
    BY <1>1, <1>2, <1>3, <1>4, <1>5
  <2>2. (2 * u) * (k - 1 - h) = (2 * u) * k - 2 * u - (2 * u) * h
    BY SMT
  <2>3. u * (1 - t) = u - u * t /\ u * t \in Int /\ (2 * u) * h \in Int /\ (2 * u) * k \in Int
    BY SMT
  <2>. QED
    BY <2>1, <2>2, <2>3
<1>7. 1 - t \in {0, 1} /\ u - 1 - r \in 0..(u - 1) /\ k - 1 - h \in Int
  OBVIOUS
<1>8. bit(pow2[i + 1] * (k - 1 - h) + pow2[i] * (1 - t) + (u - 1 - r), i) = 1 - t
  BY <1>1, <1>2, <1>7, BitFound
<1>. QED
  BY <1>2, <1>5, <1>6, <1>8

-----------------------------------------------------------------------------
(* A word is determined by its bits.                                       *)

\* The top bit of n + 1 bits, and the rest.
LEMMA TopBit ==
  ASSUME NEW n \in Nat, NEW x \in 0..(pow2[n + 1] - 1)
  PROVE  /\ x % pow2[n] \in 0..(pow2[n] - 1)
         /\ x = pow2[n] * bit(x, n) + (x % pow2[n])
<1>1. PICK u \in Nat \ {0} : u = pow2[n] /\ pow2[n + 1] = 2 * u
  BY Pow
<1>2. PICK q \in Int : q = x \div u
  OBVIOUS
<1>3. x % u \in 0..(u - 1) /\ x = u * q + (x % u)
  <2>1. x \in Int
    BY <1>1
  <2>2. x % u \in 0..(u - 1) /\ x = u * (x \div u) + (x % u)
    BY <2>1, Division
  <2>. QED
    BY <1>2, <2>2, Zenon
<1>4. PICK r \in 0..(u - 1) : r = x % u
  BY <1>3
<1>5. x \in 0..(2 * u - 1) /\ x = u * q + r
  BY <1>1, <1>3, <1>4
<1>6. q \in {0, 1}
  <2>1. CASE q >= 2
    <3>1. u * 2 <= u * q /\ u * q \in Int
      BY <2>1, Monotone
    <3>. QED
      BY <1>5, <3>1
  <2>2. CASE q <= -1
    <3>1. u * q <= u * (-1) /\ u * q \in Int /\ u * (-1) = -u
      BY <2>2, Monotone
    <3>. QED
      BY <1>5, <3>1
  <2>. QED
    BY <2>1, <2>2
<1>7. bit(x, n) = q
  <2>1. q % 2 = q
    BY <1>6
  <2>. QED
    BY <1>1, <1>2, <2>1 DEF bit
<1>. QED
  BY <1>1, <1>3, <1>7

LEMMA SameBits ==
  ASSUME NEW n \in Nat, NEW x \in 0..(pow2[n] - 1), NEW z \in 0..(pow2[n] - 1),
         \A i \in 0..(n - 1) : bit(x, i) = bit(z, i)
  PROVE  x = z
<1>. DEFINE Same(k) == \A u, v \in 0..(pow2[k] - 1) :
                          (\A i \in 0..(k - 1) : bit(u, i) = bit(v, i)) => u = v
            S == {k \in Nat : Same(k)}
<1>1. 0 \in S
  <2>1. \A u \in 0..(pow2[0] - 1) : u = 0
    BY PowZero
  <2>. QED
    BY <2>1
<1>2. ASSUME NEW k \in S PROVE k + 1 \in S
  <2>1. k \in Nat /\ Same(k)
    OBVIOUS
  <2>2. ASSUME NEW u \in 0..(pow2[k + 1] - 1), NEW v \in 0..(pow2[k + 1] - 1),
               \A i \in 0..k : bit(u, i) = bit(v, i)
        PROVE  u = v
    <3>1. bit(u, k) = bit(v, k)
      BY <2>1, <2>2
    <3>2. /\ u % pow2[k] \in 0..(pow2[k] - 1) /\ u = pow2[k] * bit(u, k) + (u % pow2[k])
          /\ v % pow2[k] \in 0..(pow2[k] - 1) /\ v = pow2[k] * bit(v, k) + (v % pow2[k])
      BY <2>1, TopBit
    <3>3. u \in Int /\ v \in Int
      BY <2>1, Pow
    <3>4. \A i \in 0..(k - 1) : bit(u % pow2[k], i) = bit(v % pow2[k], i)
      <4>. SUFFICES ASSUME NEW i \in 0..(k - 1)
                    PROVE  bit(u % pow2[k], i) = bit(v % pow2[k], i)
        OBVIOUS
      <4>1. bit(u % pow2[k], i) = bit(u, i) /\ bit(v % pow2[k], i) = bit(v, i)
        BY <2>1, <3>3, BitsOfRest
      <4>2. i \in 0..k
        OBVIOUS
      <4>. QED
        BY <2>2, <4>1, <4>2, Zenon
    <3>5. u % pow2[k] = v % pow2[k]
      BY <2>1, <3>2, <3>4, Zenon
    <3>. QED
      BY <3>1, <3>2, <3>5, Zenon
  <2>3. Same(k + 1)
    <3>1. (k + 1) - 1 = k
      BY <2>1
    <3>. QED
      BY <2>2, <3>1
  <2>. QED
    BY <2>1, <2>3
<1>3. S = Nat
  <2>. HIDE DEF S
  <2>1. S \in SUBSET Nat
    BY DEF S
  <2>. QED
    BY <1>1, <1>2, <2>1, Induction
<1>4. Same(n)
  BY <1>3
<1>. QED
  BY <1>4

\* Any set of bits makes a number.
LEMMA SomeNumber ==
  ASSUME NEW n \in Nat, NEW s \in SUBSET (0..(n - 1))
  PROVE  \E x \in 0..(pow2[n] - 1) : \A i \in 0..(n - 1) : bit(x, i) = 1 <=> i \in s
<1>. DEFINE Has(k, x) == \A i \in 0..(k - 1) : bit(x, i) = 1 <=> i \in s
            S == {k \in Nat : \E x \in 0..(pow2[k] - 1) : Has(k, x)}
<1>1. 0 \in S
  <2>1. 0 \in 0..(pow2[0] - 1)
    BY PowZero
  <2>. QED
    BY <2>1
<1>2. ASSUME NEW k \in S PROVE k + 1 \in S
  <2>0. k \in Nat
    OBVIOUS
  <2>1. PICK u \in Nat \ {0} : u = pow2[k] /\ pow2[k + 1] = 2 * u
    BY <2>0, Pow
  <2>2. PICK x \in 0..(u - 1) : Has(k, x)
    BY <2>1
  <2>3. PICK t \in {0, 1} : t = 1 <=> k \in s
    <3>1. CASE k \in s
      BY <3>1
    <3>2. CASE k \notin s
      BY <3>2
    <3>. QED
      BY <3>1, <3>2
  <2>4. PICK z : z = u * t + x
    OBVIOUS
  <2>5. z \in 0..(2 * u - 1) /\ z \in Int
    BY <2>4
  <2>6. bit(z, k) = t
    <3>1. pow2[k + 1] * 0 + pow2[k] * t + x = z
      BY <2>1, <2>4
    <3>2. bit(pow2[k + 1] * 0 + pow2[k] * t + x, k) = t
      <4>1. 0 \in Int /\ x \in 0..(pow2[k] - 1)
        BY <2>1
      <4>. QED
        BY <2>0, <4>1, BitFound
    <3>. QED
      BY <3>1, <3>2
  <2>7. \A i \in 0..(k - 1) : bit(z, i) = bit(x, i)
    <3>. SUFFICES ASSUME NEW i \in 0..(k - 1) PROVE bit(z, i) = bit(x, i)
      OBVIOUS
    <3>1. x + pow2[k] * t = z
      BY <2>1, <2>4
    <3>2. bit(x + pow2[k] * t, i) = bit(x, i)
      BY <2>0, LowBits
    <3>. QED
      BY <3>1, <3>2
  <2>8. Has(k + 1, z)
    <3>. SUFFICES ASSUME NEW i \in 0..((k + 1) - 1) PROVE bit(z, i) = 1 <=> i \in s
      OBVIOUS
    <3>1. CASE i = k
      BY <2>3, <2>6, <3>1
    <3>2. CASE i # k
      <4>1. i \in 0..(k - 1)
        BY <2>0, <3>2
      <4>. QED
        BY <2>2, <2>7, <4>1
    <3>. QED
      BY <3>1, <3>2
  <2>. HIDE DEF Has
  <2>. QED
    BY <2>0, <2>1, <2>5, <2>8
<1>3. S = Nat
  <2>. HIDE DEF S
  <2>1. S \in SUBSET Nat
    BY DEF S
  <2>. QED
    BY <1>1, <1>2, <2>1, Induction
<1>. QED
  BY <1>3

LEMMA Width ==
  /\ W \in Nat \ {0} /\ M \in Nat \ {0} /\ Words = 0..(pow2[W] - 1) /\ Index = 0..(W - 1)
  /\ M = 2 * pow2[W - 1] /\ pow2[W - 1] \in Nat \ {0} /\ W - 1 \in Index /\ W - 1 \in Nat
<1>1. W \in Nat \ {0} /\ W - 1 \in Nat /\ (W - 1) + 1 = W
  BY WidthAssumption
<1>2. pow2[(W - 1) + 1] = 2 * pow2[W - 1] /\ pow2[W - 1] \in Nat \ {0} /\ pow2[W] \in Nat \ {0}
  BY <1>1, Pow
<1>. QED
  BY <1>1, <1>2 DEF M, Words, Index

LEMMA WordFacts ==
  ASSUME NEW s \in SUBSET Index
  PROVE  /\ Word(s) \in Words /\ Bits(Word(s)) = s
         /\ \A x \in Words : Bits(x) = s => Word(s) = x
<1>1. PICK x \in Words : \A i \in Index : bit(x, i) = 1 <=> i \in s
  BY Width, SomeNumber
<1>2. Bits(x) = s
  BY <1>1 DEF Bits
<1>3. Word(s) \in Words /\ Bits(Word(s)) = s
  BY <1>2 DEF Word
<1>4. ASSUME NEW u \in Words, NEW v \in Words, Bits(u) = Bits(v)
      PROVE  u = v
  <2>1. \A i \in Index : bit(u, i) \in {0, 1} /\ bit(v, i) \in {0, 1}
    <3>1. u \in Int /\ v \in Int /\ Index \subseteq Nat
      BY Width
    <3>. QED
      BY <3>1, BitParts
  <2>2. \A i \in Index : bit(u, i) = bit(v, i)
    BY <1>4, <2>1 DEF Bits
  <2>. QED
    BY <2>2, Width, SameBits
<1>. QED
  BY <1>3, <1>4

LEMMA WordType ==
  ASSUME NEW x \in Words
  PROVE  /\ x \in Nat /\ x < M /\ Bits(x) \in SUBSET Index /\ Word(Bits(x)) = x
         /\ \A i \in Index : bit(x, i) \in {0, 1}
<1>1. x \in Nat /\ x < M /\ Index \subseteq Nat
  BY Width DEF Words
<1>2. Bits(x) \in SUBSET Index
  BY DEF Bits
<1>3. Word(Bits(x)) = x
  BY <1>2, WordFacts
<1>4. \A i \in Index : bit(x, i) \in {0, 1}
  BY <1>1, BitParts
<1>. QED
  BY <1>1, <1>2, <1>3, <1>4

\* Words with the same bits are the same.
LEMMA Extensional ==
  ASSUME NEW x \in Words, NEW z \in Words, \A i \in Index : bit(x, i) = 1 <=> bit(z, i) = 1
  PROVE  x = z
<1>1. Bits(x) = Bits(z)
  BY DEF Bits
<1>. QED
  BY <1>1, WordType

LEMMA Logic ==
  ASSUME NEW x, NEW z
  PROVE  /\ (x & z) \in Words /\ (x | z) \in Words /\ (x ^^ z) \in Words /\ Not(x) \in Words
         /\ \A i \in Index : /\ bit(x & z, i) = 1 <=> bit(x, i) = 1 /\ bit(z, i) = 1
                             /\ bit(x | z, i) = 1 <=> bit(x, i) = 1 \/ bit(z, i) = 1
                             /\ bit(x ^^ z, i) = 1 <=> ~(bit(x, i) = 1 <=> bit(z, i) = 1)
                             /\ bit(Not(x), i) = 1 <=> bit(x, i) # 1
<1>1. Bits(x) \in SUBSET Index /\ Bits(z) \in SUBSET Index
  BY DEF Bits
<1>2. (x & z) \in Words /\ Bits(x & z) = Bits(x) \cap Bits(z)
  BY <1>1, WordFacts DEF &
<1>3. (x | z) \in Words /\ Bits(x | z) = Bits(x) \cup Bits(z)
  BY <1>1, WordFacts DEF |
<1>4. (x ^^ z) \in Words /\ Bits(x ^^ z) = (Bits(x) \cup Bits(z)) \ (Bits(x) \cap Bits(z))
  BY <1>1, WordFacts DEF ^^
<1>5. Not(x) \in Words /\ Bits(Not(x)) = Index \ Bits(x)
  BY <1>1, WordFacts DEF Not
<1>6. ASSUME NEW i \in Index
      PROVE  /\ bit(x & z, i) = 1 <=> bit(x, i) = 1 /\ bit(z, i) = 1
             /\ bit(x | z, i) = 1 <=> bit(x, i) = 1 \/ bit(z, i) = 1
             /\ bit(x ^^ z, i) = 1 <=> ~(bit(x, i) = 1 <=> bit(z, i) = 1)
             /\ bit(Not(x), i) = 1 <=> bit(x, i) # 1
  <2>1. \A u : i \in Bits(u) <=> bit(u, i) = 1
    BY DEF Bits
  <2>. QED
    BY <1>2, <1>3, <1>4, <1>5, <2>1, Zenon
<1>. QED
  BY <1>2, <1>3, <1>4, <1>5, <1>6

\* Complementing a word, either way, is subtracting it from all ones.
LEMMA Complement ==
  ASSUME NEW x \in Words
  PROVE  /\ (M - 1) - x \in Words
         /\ \A i \in Index : bit((M - 1) - x, i) = 1 <=> bit(x, i) # 1
         /\ x ^^ (M - 1) = (M - 1) - x /\ Not(x) = (M - 1) - x
<1>1. (M - 1) - x \in Words /\ M - 1 \in Words /\ 0 \in Words /\ x \in Int
  BY Width, WordType DEF Words
<1>2. ASSUME NEW z \in Int, NEW i \in Index
      PROVE  bit((M - 1) - z, i) = 1 - bit(z, i) /\ bit(z, i) \in {0, 1}
  <2>1. W \in Nat /\ i \in 0..(W - 1) /\ i \in Nat
    BY Width
  <2>. QED
    BY <2>1, BitsOfComplement, BitParts DEF M
<1>3. ASSUME NEW i \in Index
      PROVE  bit((M - 1) - x, i) = 1 <=> bit(x, i) # 1
  BY <1>1, <1>2
<1>4. ASSUME NEW i \in Index
      PROVE  bit(M - 1, i) = 1
  <2>1. bit((M - 1) - 0, i) = 1 - bit(0, i)
    BY <1>2
  <2>2. (M - 1) - 0 = M - 1 /\ i \in Nat
    BY Width
  <2>3. bit(0, i) = 0
    BY <2>2, BitOfZero
  <2>. QED
    BY <2>1, <2>2, <2>3
<1>5. x ^^ (M - 1) = (M - 1) - x
  <2>1. (x ^^ (M - 1)) \in Words
    BY Logic
  <2>2. \A i \in Index : bit(x ^^ (M - 1), i) = 1 <=> bit((M - 1) - x, i) = 1
    BY <1>3, <1>4, Logic
  <2>. QED
    BY <1>1, <2>1, <2>2, Extensional
<1>6. Not(x) = (M - 1) - x
  <2>1. Not(x) \in Words
    BY Logic
  <2>2. \A i \in Index : bit(Not(x), i) = 1 <=> bit((M - 1) - x, i) = 1
    BY <1>3, Logic
  <2>. QED
    BY <1>1, <2>1, <2>2, Extensional
<1>. QED
  BY <1>1, <1>3, <1>5, <1>6

\* The shift amount of a word, which is a slice of it.
LEMMA ShiftAmount ==
  ASSUME NEW x \in Words
  PROVE  Shamt(x) = x % W /\ Shamt(x) \in 0..(W - 1) /\ Shamt(x) \in Nat
<1>1. pow2[ShamtBits] = W
  BY WidthAssumption DEF ShamtBits
<1>2. W \in Nat \ {0} /\ x \in Int
  BY Width, WordType
<1>3. x % W \in 0..(W - 1)
  BY <1>2, Division
<1>. QED
  BY <1>1, <1>2, <1>3 DEF Shamt

LEMMA Reversed ==
  ASSUME NEW x
  PROVE  /\ reverse(x) \in Words
         /\ \A i \in Index : bit(reverse(x), i) = 1 <=> bit(x, W - 1 - i) = 1
<1>. DEFINE s == {i \in Index : bit(x, W - 1 - i) = 1}
<1>1. s \in SUBSET Index /\ reverse(x) = Word(s)
  BY DEF reverse
<1>2. reverse(x) \in Words /\ Bits(reverse(x)) = s
  <2>. HIDE DEF s
  <2>. QED
    BY <1>1, WordFacts
<1>3. \A i \in Index : i \in s <=> bit(x, W - 1 - i) = 1
  OBVIOUS
<1>4. \A i \in Index : i \in Bits(reverse(x)) <=> bit(reverse(x), i) = 1
  BY DEF Bits
<1>. QED
  BY <1>2, <1>3, <1>4

-----------------------------------------------------------------------------
(* Shifts.                                                                 *)

LEMMA Cut ==
  ASSUME NEW n \in 0..(W - 1)
  PROVE  /\ n \in Nat /\ W - n \in Nat /\ pow2[W - n] \in Nat \ {0} /\ pow2[n] \in Nat \ {0}
         /\ M = pow2[n] * pow2[W - n] /\ M = pow2[W - n] * pow2[n] /\ pow2[W - n] <= M
<1>1. n \in Nat /\ W - n \in Nat /\ n + (W - n) = W
  BY Width
<1>2. PICK u \in Nat \ {0} : u = pow2[n]
  BY <1>1, Pow
<1>3. PICK v \in Nat \ {0} : v = pow2[W - n]
  BY <1>1, Pow
<1>4. M = u * v
  BY <1>1, <1>2, <1>3, PowSum DEF M
<1>5. u * v = v * u
  BY SMT
<1>6. v <= v * u
  <2>1. v * 1 <= v * u
    BY Monotone
  <2>. QED
    BY <2>1
<1>. QED
  BY <1>1, <1>2, <1>3, <1>4, <1>5, <1>6

\* A word shifted right.
LEMMA Dropped ==
  ASSUME NEW x \in Words, NEW n \in 0..(W - 1)
  PROVE  /\ x \div pow2[n] \in 0..(pow2[W - n] - 1) /\ x \div pow2[n] \in Words
         /\ \A i \in Index : bit(x \div pow2[n], i) = 1 <=> n + i \in Index /\ bit(x, n + i) = 1
<1>1. PICK u \in Nat \ {0} : u = pow2[n]
  BY Cut
<1>2. PICK v \in Nat \ {0} : v = pow2[W - n]
  BY Cut
<1>3. M = u * v /\ v <= M
  BY <1>1, <1>2, Cut
<1>4. x \in Nat /\ x < u * v
  BY <1>3, WordType
<1>5. PICK q \in Int, r \in 0..(u - 1) : x = u * q + r /\ q = x \div u
  <2>1. x \in Int
    BY <1>4
  <2>2. x \div u \in Int /\ x % u \in 0..(u - 1) /\ x = u * (x \div u) + (x % u)
    BY <2>1, Division
  <2>. QED
    BY <2>2, Zenon
<1>6. q \in 0..(v - 1)
  <2>1. u * q \in Int /\ u * v \in Int
    BY SMT
  <2>2. CASE q <= -1
    <3>1. u * q <= u * (-1) /\ u * (-1) = -u
      BY <2>2, Monotone
    <3>. QED
      BY <1>4, <1>5, <2>1, <3>1
  <2>3. CASE v <= q
    <3>1. u * v <= u * q
      BY <2>3, Monotone
    <3>. QED
      BY <1>4, <1>5, <2>1, <3>1
  <2>. QED
    BY <2>2, <2>3
<1>7. x \div pow2[n] \in Words
  <2>1. q \in 0..(M - 1)
    BY <1>3, <1>6, Width
  <2>. QED
    BY <1>1, <1>5, <2>1, Zenon DEF Words
<1>8. ASSUME NEW i \in Index
      PROVE  bit(x \div pow2[n], i) = 1 <=> n + i \in Index /\ bit(x, n + i) = 1
  <2>1. i \in Nat /\ n \in Nat /\ x \in Int /\ n + i \in Nat
    BY <1>4, Width
  <2>2. bit(x, n + i) = bit(x \div pow2[n], i)
    BY <2>1, HighBits
  <2>3. CASE n + i \in Index
    BY <2>2, <2>3
  <2>4. CASE n + i \notin Index
    <3>1. n + i >= W /\ W \in Nat /\ x \in 0..(pow2[W] - 1)
      BY <2>1, <2>4, Width
    <3>2. bit(x, n + i) = 0
      BY <2>1, <3>1, BitsAbove
    <3>. QED
      BY <2>2, <2>4, <3>2
  <2>. QED
    BY <2>3, <2>4
<1>. QED
  BY <1>1, <1>2, <1>5, <1>6, <1>7, <1>8

\* Reversing, shifting left and reversing again is shifting right.
LEMMA RightShift ==
  ASSUME NEW x \in Words, NEW z \in Words
  PROVE  srl_res(x, z) = x \div pow2[Shamt(z)]
<1>. DEFINE n == Shamt(z)
            v == reverse(x)
            w == (v * pow2[n]) % M
<1>1. n \in 0..(W - 1) /\ n \in Nat
  BY ShiftAmount
<1>. HIDE DEF n
<1>2. srl_res(x, z) = reverse(w)
  BY DEF srl_res, shifter_res, shifter_in1, n
<1>3. v \in Words /\ v \in Int
  BY Reversed, WordType
<1>4. \A i \in Index : bit(v, i) = 1 <=> bit(x, W - 1 - i) = 1
  BY Reversed
<1>. HIDE DEF v
<1>5. v * pow2[n] \in Int
  BY <1>1, <1>3, Pow
<1>6. ASSUME NEW i \in Index
      PROVE  bit(w, i) = IF i < n THEN 0 ELSE bit(v, i - n)
  <2>1. i \in Nat /\ W \in Nat /\ i \in 0..(W - 1)
    BY Width
  <2>2. bit(w, i) = bit(v * pow2[n], i)
    BY <1>5, <2>1, BitsOfRest DEF M
  <2>3. bit(v * pow2[n], i) = IF i < n THEN 0 ELSE bit(v, i - n)
    BY <1>1, <1>3, <2>1, BitsOfShift
  <2>. QED
    BY <2>2, <2>3
<1>. HIDE DEF w
<1>7. ASSUME NEW i \in Index
      PROVE  bit(reverse(w), i) = 1 <=> bit(x \div pow2[n], i) = 1
  <2>1. W - 1 - i \in Index /\ i \in Nat
    BY Width
  <2>2. bit(reverse(w), i) = 1 <=> bit(w, W - 1 - i) = 1
    BY Reversed
  <2>3. bit(w, W - 1 - i) = IF W - 1 - i < n THEN 0 ELSE bit(v, (W - 1 - i) - n)
    BY <1>6, <2>1
  <2>4. bit(x \div pow2[n], i) = 1 <=> n + i \in Index /\ bit(x, n + i) = 1
    BY <1>1, Dropped
  <2>5. CASE W - 1 - i < n
    <3>1. n + i \notin Index
      BY <1>1, <2>1, <2>5, Width
    <3>. QED
      BY <2>2, <2>3, <2>4, <2>5, <3>1
  <2>6. CASE ~(W - 1 - i < n)
    <3>1. n + i \in Index /\ (W - 1 - i) - n \in Index /\ W - 1 - ((W - 1 - i) - n) = n + i
      BY <1>1, <2>1, <2>6, Width
    <3>2. bit(v, (W - 1 - i) - n) = 1 <=> bit(x, n + i) = 1
      BY <1>4, <3>1
    <3>. QED
      BY <2>2, <2>3, <2>4, <2>6, <3>1, <3>2
  <2>. QED
    BY <2>5, <2>6
<1>8. x \div pow2[n] \in Words /\ reverse(w) \in Words
  BY <1>1, Dropped, Reversed
<1>9. reverse(w) = x \div pow2[n]
  BY <1>7, <1>8, Extensional
<1>. QED
  BY <1>2, <1>9 DEF n

\* The arithmetic shift fills with the sign.
LEMMA Filled ==
  ASSUME NEW x \in Words, NEW n \in 0..(W - 1)
  PROVE  /\ ArithShiftRight(x, n) \in Words
         /\ \A i \in Index : bit(ArithShiftRight(x, n), i) = 1 <=>
               IF n + i \in Index THEN bit(x, n + i) = 1 ELSE MSB(x) = 1
<1>1. PICK u \in Nat \ {0} : u = pow2[n]
  BY Cut
<1>2. PICK v \in Nat \ {0} : v = pow2[W - n]
  BY Cut
<1>3. M = v * u /\ v <= M /\ n \in Nat /\ W - n \in Nat /\ W \in Nat
  BY <1>1, <1>2, Cut, Width
<1>4. PICK q \in 0..(v - 1) : q = x \div pow2[n]
  BY <1>2, Dropped
<1>5. q \in Words /\ \A i \in Index : bit(q, i) = 1 <=> n + i \in Index /\ bit(x, n + i) = 1
  BY <1>4, Dropped
<1>6. CASE MSB(x) # 1
  <2>1. ArithShiftRight(x, n) = q
    BY <1>4, <1>6 DEF ArithShiftRight
  <2>. QED
    BY <1>5, <1>6, <2>1
<1>7. CASE MSB(x) = 1
  <2>1. v * (u - 1) = M - v /\ v * (u - 1) \in Int /\ u - 1 \in Nat
    BY <1>3, SMT
  <2>2. ArithShiftRight(x, n) = q + v * (u - 1)
    <3>1. ArithShiftRight(x, n) = q + (M - v)
      BY <1>2, <1>4, <1>7 DEF ArithShiftRight
    <3>. QED
      BY <2>1, <3>1
  <2>3. q + v * (u - 1) \in Words
    BY <1>3, <2>1, Width DEF Words
  <2>4. ASSUME NEW i \in Index, n + i \in Index
        PROVE  bit(q + v * (u - 1), i) = bit(q, i)
    <3>1. i \in 0..((W - n) - 1)
      BY <1>3, <2>4, Width
    <3>. QED
      BY <1>2, <1>3, <2>1, <3>1, LowBits
  <2>5. ASSUME NEW i \in Index, n + i \notin Index
        PROVE  bit(q + v * (u - 1), i) = 1
    <3>1. PICK j \in 0..(n - 1) : (W - n) + j = i /\ j \in Nat
      <4>1. i - (W - n) \in 0..(n - 1) /\ (W - n) + (i - (W - n)) = i /\ i - (W - n) \in Nat
        BY <1>3, <2>5, Width
      <4>. QED
        BY <4>1
    <3>2. (q + v * (u - 1)) \div v = u - 1
      <4>1. q + v * (u - 1) = v * (u - 1) + q
        BY <2>1
      <4>2. (v * (u - 1) + q) \div v = u - 1
        <5>1. PICK g \in Int : g = u - 1
          BY <2>1
        <5>2. (v * g + q) \div v = g
          BY Quotient
        <5>. QED
          BY <5>1, <5>2
      <4>. QED
        BY <4>1, <4>2, Zenon
    <3>3. q + v * (u - 1) \in Int
      BY <2>1
    <3>4. bit(q + v * (u - 1), (W - n) + j) = bit((q + v * (u - 1)) \div pow2[W - n], j)
      BY <1>3, <3>1, <3>3, HighBits
    <3>5. bit(u - 1, j) = 1
      <4>1. bit((pow2[n] - 1) - 0, j) = 1 - bit(0, j)
        BY <1>3, <3>1, BitsOfComplement
      <4>2. (pow2[n] - 1) - 0 = u - 1 /\ bit(0, j) = 0
        BY <1>1, <3>1, BitOfZero
      <4>. QED
        BY <4>1, <4>2
    <3>. QED
      BY <1>2, <3>1, <3>2, <3>4, <3>5
  <2>. HIDE DEF bit
  <2>6. ASSUME NEW i \in Index
        PROVE  bit(q + v * (u - 1), i) = 1 <=> IF n + i \in Index THEN bit(x, n + i) = 1 ELSE TRUE
    BY <1>5, <2>4, <2>5
  <2>. QED
    BY <1>7, <2>2, <2>3, <2>6
<1>. QED
  BY <1>6, <1>7

LEMMA AllOnes ==
  /\ 0 \in Words /\ Ones \in Words /\ Ones = M - 1
  /\ \A i \in Index : bit(0, i) = 0 /\ bit(Ones, i) = 1
<1>1. 0 \in Words /\ M - 1 \in Words /\ (M - 1) - 0 = M - 1
  BY Width DEF Words
<1>2. ASSUME NEW i \in Index
      PROVE  bit(0, i) = 0 /\ bit(M - 1, i) = 1
  <2>1. i \in Nat
    BY Width
  <2>2. bit(0, i) = 0
    BY <2>1, BitOfZero
  <2>3. bit((M - 1) - 0, i) = 1 <=> bit(0, i) # 1
    BY <1>1, Complement
  <2>. QED
    BY <1>1, <2>2, <2>3
<1>. QED
  BY <1>1, <1>2 DEF Ones

\* Masking what was shifted in, and putting the sign in its place.
LEMMA MaskedShift ==
  ASSUME NEW x \in Words, NEW z \in Words
  PROVE  sra_res(x, z) = ArithShiftRight(x, Shamt(z))
<1>. DEFINE n == Shamt(z)
            E == eff_mask(z)
            s == MSB(x) * Ones
            q == srl_res(x, z)
            k == q & E
            f == s & Not(E)
<1>1. n \in 0..(W - 1)
  BY ShiftAmount
<1>2. \A i \in Index : bit(E, i) = 1 <=> n + i \in Index
  BY <1>1, AllOnes, Dropped DEF eff_mask
<1>3. \A i \in Index : bit(s, i) = 1 <=> MSB(x) = 1
  <2>1. MSB(x) \in {0, 1}
    BY Width, WordType DEF MSB
  <2>2. Ones \in Int
    BY AllOnes, WordType
  <2>3. CASE MSB(x) = 0
    <3>1. s = 0
      BY <2>2, <2>3
    <3>. HIDE DEF s
    <3>. QED
      BY <2>3, <3>1, AllOnes
  <2>4. CASE MSB(x) = 1
    <3>1. s = Ones
      BY <2>2, <2>4
    <3>. HIDE DEF s
    <3>. QED
      BY <2>4, <3>1, AllOnes
  <2>. QED
    BY <2>1, <2>3, <2>4
<1>4. \A i \in Index : bit(q, i) = 1 <=> n + i \in Index /\ bit(x, n + i) = 1
  BY <1>1, RightShift, Dropped
<1>5. sra_res(x, z) = k | f
  BY DEF sra_res
<1>6. \A i \in Index : bit(k, i) = 1 <=> bit(q, i) = 1 /\ bit(E, i) = 1
  BY Logic
<1>7. \A i \in Index : bit(f, i) = 1 <=> bit(s, i) = 1 /\ bit(E, i) # 1
  BY Logic
<1>. HIDE DEF k, f, q, s, E, n
<1>8. \A i \in Index : bit(k | f, i) = 1 <=> bit(k, i) = 1 \/ bit(f, i) = 1
  BY Logic
<1>9. \A i \in Index : bit(ArithShiftRight(x, n), i) = 1 <=>
                          IF n + i \in Index THEN bit(x, n + i) = 1 ELSE MSB(x) = 1
  BY <1>1, Filled
<1>10. (k | f) \in Words /\ ArithShiftRight(x, n) \in Words
  BY <1>1, Logic, Filled
<1>11. \A i \in Index : bit(k | f, i) = 1 <=> bit(ArithShiftRight(x, n), i) = 1
  BY <1>2, <1>3, <1>4, <1>6, <1>7, <1>8, <1>9, Zenon
<1>12. k | f = ArithShiftRight(x, n)
  BY <1>10, <1>11, Extensional
<1>. QED
  BY <1>5, <1>12 DEF n

-----------------------------------------------------------------------------
(* Signs, and arithmetic that wraps.                                       *)

LEMMA Sign ==
  ASSUME NEW x \in Words
  PROVE  /\ MSB(x) \in {0, 1} /\ (MSB(x) = 1 <=> x >= pow2[W - 1])
         /\ Signed(x) = x - M * MSB(x) /\ Signed(x) \in Int
<1>1. PICK u \in Nat \ {0} : u = pow2[W - 1] /\ M = 2 * u
  BY Width
<1>2. MSB(x) \in {0, 1}
  BY Width, WordType DEF MSB
<1>3. x \in 0..(2 * u - 1)
  BY <1>1, WordType
<1>4. PICK r \in 0..(u - 1) : x = u * MSB(x) + r
  <2>1. (W - 1) + 1 = W /\ W - 1 \in Nat /\ x \in 0..(pow2[(W - 1) + 1] - 1)
    BY <1>3, Width
  <2>2. x % pow2[W - 1] \in 0..(pow2[W - 1] - 1) /\ x = pow2[W - 1] * bit(x, W - 1) + (x % pow2[W - 1])
    BY <2>1, TopBit
  <2>. QED
    BY <1>1, <2>2, Zenon DEF MSB
<1>5. MSB(x) = 1 <=> x >= u
  BY <1>2, <1>4
<1>6. Signed(x) = x - M * MSB(x) /\ Signed(x) \in Int
  <2>1. CASE MSB(x) = 0
    BY <1>1, <1>3, <1>5, <2>1 DEF Signed
  <2>2. CASE MSB(x) = 1
    BY <1>1, <1>3, <1>5, <2>2 DEF Signed
  <2>. QED
    BY <1>2, <2>1, <2>2
<1>. QED
  BY <1>1, <1>2, <1>5, <1>6

LEMMA Wrap ==
  ASSUME NEW x \in Int, NEW k \in Int
  PROVE  (x + M * k) % M = x % M /\ x % M \in Words
<1>1. M \in Nat \ {0}
  BY Width
<1>2. PICK q \in Int, r \in 0..(M - 1) : x = M * q + r /\ r = x % M
  BY <1>1, Division, Zenon
<1>3. x + M * k = M * (q + k) + r
  <2>1. M * (q + k) = M * q + M * k /\ M * q \in Int /\ M * k \in Int /\ M * (q + k) \in Int
    BY <1>1, Times
  <2>. QED
    BY <1>1, <1>2, <2>1
<1>4. (M * (q + k) + r) % M = r
  <2>1. q + k \in Int
    OBVIOUS
  <2>. QED
    BY <1>1, <2>1, Quotient
<1>. QED
  BY <1>2, <1>3, <1>4 DEF Words

\* A word is its own remainder.
LEMMA Rest ==
  ASSUME NEW x \in Words
  PROVE  x % M = x
<1>1. M \in Nat \ {0} /\ x \in 0..(M - 1) /\ M * 0 + x = x
  BY Width, WordType
<1>. QED
  BY <1>1, Quotient

\* Shifting the signed number is shifting the word and filling with the sign.
LEMMA SignedShift ==
  ASSUME NEW x \in Words, NEW n \in 0..(W - 1)
  PROVE  (Signed(x) \div pow2[n]) % M = ArithShiftRight(x, n)
<1>1. PICK u \in Nat \ {0} : u = pow2[n]
  BY Cut
<1>2. PICK v \in Nat \ {0} : v = pow2[W - n]
  BY Cut
<1>3. M = u * v /\ M \in Nat \ {0}
  BY <1>1, <1>2, Cut, Width
<1>4. PICK q \in Int, r \in 0..(u - 1) : x = u * q + r /\ q = x \div u
  <2>1. x \in Int
    BY WordType
  <2>2. x \div u \in Int /\ x % u \in 0..(u - 1) /\ x = u * (x \div u) + (x % u)
    BY <2>1, Division
  <2>. QED
    BY <2>2, Zenon
<1>5. PICK t \in {0, 1} : t = MSB(x) /\ Signed(x) = x - M * t
  BY Sign
<1>6. Signed(x) = u * (q - v * t) + r
  <2>1. u * (q - v * t) = u * q - (u * v) * t /\ u * q \in Int /\ (u * v) * t \in Int
    BY SMT
  <2>2. PICK g \in Int : g = u * q
    BY <2>1
  <2>3. PICK k \in Int : k = (u * v) * t
    BY <2>1
  <2>4. Signed(x) = (g + r) - k
    BY <1>3, <1>4, <1>5, <2>2, <2>3, Zenon
  <2>5. u * (q - v * t) = g - k
    BY <2>1, <2>2, <2>3, Zenon
  <2>6. (g + r) - k = (g - k) + r
    BY <2>2, <2>3
  <2>. QED
    BY <2>4, <2>5, <2>6, Zenon
<1>7. Signed(x) \div u = q - v * t
  <2>1. PICK g \in Int : g = q - v * t
    OBVIOUS
  <2>2. (u * g + r) \div u = g
    BY Quotient
  <2>. QED
    BY <1>6, <2>1, <2>2
<1>8. ArithShiftRight(x, n) = (q - v * t) + M * t
  <2>1. CASE t = 0
    <3>1. ArithShiftRight(x, n) = q
      BY <1>1, <1>4, <1>5, <2>1 DEF ArithShiftRight
    <3>2. v * t = 0 /\ M * t = 0
      BY <1>3, <2>1
    <3>. QED
      BY <3>1, <3>2
  <2>2. CASE t = 1
    <3>1. ArithShiftRight(x, n) = q + (M - v)
      BY <1>1, <1>2, <1>4, <1>5, <2>2 DEF ArithShiftRight
    <3>2. v * t = v /\ M * t = M
      BY <1>3, <2>2
    <3>. QED
      BY <1>3, <3>1, <3>2
  <2>. QED
    BY <2>1, <2>2
<1>9. ArithShiftRight(x, n) % M = (q - v * t) % M
  <2>1. q - v * t \in Int /\ t \in Int
    OBVIOUS
  <2>2. ((q - v * t) + M * t) % M = (q - v * t) % M
    BY <2>1, Wrap
  <2>. QED
    BY <1>8, <2>2, Zenon
<1>10. ArithShiftRight(x, n) % M = ArithShiftRight(x, n)
  BY Filled, Rest
<1>. QED
  BY <1>1, <1>7, <1>9, <1>10, Zenon

-----------------------------------------------------------------------------
(* The adder of the E203: what it adds and what bit W says.                *)

Value(o, x) == IF o \in op_unsigned THEN x ELSE Signed(x)

\* A small integer on the wide adder.
LEMMA WideSum ==
  ASSUME NEW s \in Int, -M <= s, s < M, NEW k \in Int
  PROVE  /\ ADDER = 8 * M
         /\ (s + ADDER * k) % ADDER = IF s >= 0 THEN s ELSE ADDER + s
         /\ ((s + ADDER * k) % ADDER) % M = s % M
         /\ bit((s + ADDER * k) % ADDER, W) = IF s >= 0 THEN 0 ELSE 1
<1>1. M \in Nat \ {0} /\ W \in Nat /\ M = pow2[W]
  BY Width DEF M
<1>2. ADDER = 8 * M
  <2>1. pow2[W + 1] = 2 * M /\ W + 1 \in Nat
    BY <1>1, Pow
  <2>2. pow2[(W + 1) + 1] = 2 * (2 * M) /\ (W + 1) + 1 \in Nat
    BY <2>1, Pow
  <2>3. pow2[((W + 1) + 1) + 1] = 2 * (2 * (2 * M))
    BY <2>2, Pow
  <2>4. ((W + 1) + 1) + 1 = W + 3
    BY <1>1
  <2>. QED
    BY <1>1, <2>3, <2>4 DEF ADDER
<1>3. PICK d \in Nat \ {0} : d = ADDER
  BY <1>1, <1>2
<1>4. PICK r \in Int : r = IF s >= 0 THEN s ELSE ADDER + s
  BY <1>3
<1>5. r \in 0..(d - 1)
  BY <1>1, <1>2, <1>3, <1>4
<1>6. (s + d * k) % d = r
  <2>1. CASE s >= 0
    <3>1. d * k + r = s + d * k
      BY <1>4, <2>1, SMT
    <3>2. (d * k + r) % d = r
      BY <1>5, Quotient
    <3>. QED
      BY <3>1, <3>2, Zenon
  <2>2. CASE ~(s >= 0)
    <3>1. d * (k - 1) + r = s + d * k
      <4>1. d * (k - 1) = d * k - d /\ d * k \in Int
        BY SMT
      <4>. QED
        BY <1>3, <1>4, <2>2, <4>1
    <3>2. PICK j \in Int : j = k - 1
      OBVIOUS
    <3>3. (d * j + r) % d = r
      BY <1>5, Quotient
    <3>. QED
      BY <3>1, <3>2, <3>3, Zenon
  <2>. QED
    BY <2>1, <2>2
<1>7. r % M = s % M
  <2>1. CASE s >= 0
    BY <1>4, <2>1
  <2>2. CASE ~(s >= 0)
    <3>1. r = s + M * 8
      BY <1>1, <1>2, <1>4, <2>2
    <3>. QED
      BY <3>1, Wrap
  <2>. QED
    BY <2>1, <2>2
<1>8. bit(r, W) = IF s >= 0 THEN 0 ELSE 1
  <2>1. CASE s >= 0
    <3>1. r \in 0..(pow2[W] - 1) /\ W >= W
      BY <1>1, <1>4, <2>1
    <3>. QED
      BY <1>1, <2>1, <3>1, BitsAbove
  <2>2. CASE ~(s >= 0)
    <3>1. M + s \in 0..(M - 1) /\ r = M * 7 + (M + s)
      BY <1>1, <1>2, <1>4, <2>2
    <3>2. (M * 7 + (M + s)) \div M = 7
      BY <1>1, <3>1, Quotient
    <3>3. bit(r, W) = 7 % 2
      BY <1>1, <3>1, <3>2, Zenon DEF bit
    <3>. QED
      BY <2>2, <3>3
  <2>. QED
    BY <2>1, <2>2
<1>. QED
  BY <1>2, <1>3, <1>4, <1>6, <1>7, <1>8, Zenon

LEMMA ValueType ==
  ASSUME NEW x \in Words, NEW o
  PROVE  /\ Value(o, x) \in Int /\ -M <= 2 * Value(o, x)
         /\ Value(o, x) < M /\ (o \notin op_unsigned => 2 * Value(o, x) < M)
         /\ (o \in op_unsigned => Value(o, x) >= 0)
         /\ \E k \in {0, 1} : extend(o, x) = Value(o, x) + ADDER * k
<1>1. /\ M \in Nat \ {0} /\ M = 2 * pow2[W - 1] /\ pow2[W - 1] \in Nat
      /\ x \in Nat /\ x < M
  BY Width, WordType
<1>2. PICK t \in {0, 1} : t = MSB(x) /\ Signed(x) = x - M * t /\ (t = 1 <=> x >= pow2[W - 1])
  BY Sign
<1>3. ADDER = 8 * M
  BY <1>1, WideSum
<1>4. CASE o \in op_unsigned
  <2>1. Value(o, x) = x /\ extend(o, x) = x
    BY <1>4 DEF Value, extend
  <2>2. x = x + ADDER * 0
    BY <1>1, <1>3
  <2>. QED
    BY <1>1, <1>4, <2>1, <2>2
<1>5. CASE o \notin op_unsigned
  <2>1. Value(o, x) = x - M * t /\ extend(o, x) = x + t * (ADDER - M)
    BY <1>2, <1>5 DEF Value, extend
  <2>2. t * (ADDER - M) = ADDER * t - M * t
    BY <1>1, <1>2, <1>3
  <2>3. CASE t = 0
    BY <1>1, <1>2, <1>3, <1>5, <2>1, <2>2, <2>3
  <2>4. CASE t = 1
    BY <1>1, <1>2, <1>3, <1>5, <2>1, <2>2, <2>4
  <2>. QED
    BY <1>2, <2>3, <2>4
<1>. QED
  BY <1>4, <1>5

\* A subtraction leaves the difference, and bit W says whether it is negative.
LEMMA Subtracted ==
  ASSUME NEW x \in Words, NEW z \in Words, NEW o, adder_sub(o)
  PROVE  /\ adder_res(o, x, z) % M = (Value(o, x) - Value(o, z)) % M
         /\ lt(o, x, z) <=> Value(o, x) < Value(o, z)
<1>1. PICK u \in Int : u = Value(o, x)
  BY ValueType
<1>2. PICK v \in Int : v = Value(o, z)
  BY ValueType
<1>3. PICK j \in {0, 1} : extend(o, x) = u + ADDER * j
  BY <1>1, ValueType
<1>4. PICK k \in {0, 1} : extend(o, z) = v + ADDER * k
  BY <1>2, ValueType
<1>5. M \in Nat \ {0} /\ ADDER = 8 * M
  <2>1. M \in Nat \ {0}
    BY Width
  <2>. QED
    BY <2>1, WideSum
<1>6. PICK s \in Int : s = u - v
  OBVIOUS
<1>7. -M <= s /\ s < M
  <2>1. CASE o \in op_unsigned
    <3>1. u >= 0 /\ u < M /\ v >= 0 /\ v < M
      BY <1>1, <1>2, <2>1, ValueType
    <3>. QED
      BY <1>5, <1>6, <3>1
  <2>2. CASE o \notin op_unsigned
    <3>1. -M <= 2 * u /\ 2 * u < M /\ -M <= 2 * v /\ 2 * v < M
      BY <1>1, <1>2, <2>2, ValueType
    <3>. QED
      BY <1>5, <1>6, <3>1
  <2>. QED
    BY <2>1, <2>2
<1>8. adder_res(o, x, z) = (s + ADDER * (1 + j - k)) % ADDER
  <2>1. adder_res(o, x, z) = (extend(o, x) + ((ADDER - 1) - extend(o, z)) + 1) % ADDER
    BY Zenon DEF adder_res, adder_in2
  <2>2. extend(o, x) + ((ADDER - 1) - extend(o, z)) + 1 = s + ADDER * (1 + j - k)
    BY <1>3, <1>4, <1>5, <1>6
  <2>. QED
    BY <2>1, <2>2, Zenon
<1>9. PICK i \in Int : i = 1 + j - k
  OBVIOUS
<1>10. /\ ((s + ADDER * i) % ADDER) % M = s % M
       /\ bit((s + ADDER * i) % ADDER, W) = IF s >= 0 THEN 0 ELSE 1
  BY <1>7, WideSum
<1>11. adder_res(o, x, z) = (s + ADDER * i) % ADDER
  BY <1>8, <1>9, Zenon
<1>12. lt(o, x, z) <=> s < 0
  BY <1>10, <1>11 DEF lt
<1>. QED
  BY <1>1, <1>2, <1>6, <1>10, <1>11, <1>12

LEMMA Added ==
  ASSUME NEW x \in Words, NEW z \in Words
  PROVE  adder_res("add", x, z) % M = (Signed(x) + Signed(z)) % M
<1>1. "add" \notin op_unsigned /\ ~adder_sub("add") /\ \A v : Value("add", v) = Signed(v)
  BY DEF op_unsigned, op_compare, adder_sub, Value
<1>2. PICK u \in Int : u = Signed(x) /\ -M <= 2 * u /\ 2 * u < M
  BY <1>1, ValueType
<1>3. PICK v \in Int : v = Signed(z) /\ -M <= 2 * v /\ 2 * v < M
  BY <1>1, ValueType
<1>4. PICK j \in {0, 1} : extend("add", x) = u + ADDER * j
  BY <1>1, <1>2, ValueType
<1>5. PICK k \in {0, 1} : extend("add", z) = v + ADDER * k
  BY <1>1, <1>3, ValueType
<1>6. M \in Nat \ {0} /\ ADDER = 8 * M
  <2>1. M \in Nat \ {0}
    BY Width
  <2>. QED
    BY <2>1, WideSum
<1>7. PICK s \in Int : s = u + v /\ -M <= s /\ s < M
  BY <1>2, <1>3, <1>6
<1>8. PICK i \in Int : i = j + k
  OBVIOUS
<1>9. adder_res("add", x, z) = (s + ADDER * i) % ADDER
  <2>1. adder_res("add", x, z) = (extend("add", x) + extend("add", z) + 0) % ADDER
    BY <1>1, Zenon DEF adder_res, adder_in2
  <2>2. extend("add", x) + extend("add", z) + 0 = s + ADDER * i
    BY <1>4, <1>5, <1>6, <1>7, <1>8
  <2>. QED
    BY <2>1, <2>2, Zenon
<1>10. ((s + ADDER * i) % ADDER) % M = s % M
  BY <1>7, WideSum
<1>. QED
  BY <1>2, <1>3, <1>7, <1>9, <1>10, Zenon

\* The exclusive or of two words is zero only when they are the same.
LEMMA Equal ==
  ASSUME NEW x \in Words, NEW z \in Words
  PROVE  (x ^^ z) = 0 <=> x = z
<1>1. \A i \in Index : bit(x ^^ z, i) = 1 <=> ~(bit(x, i) = 1 <=> bit(z, i) = 1)
  BY Logic
<1>2. (x ^^ z) \in Words
  BY Logic
<1>3. ASSUME (x ^^ z) = 0 PROVE x = z
  <2>1. \A i \in Index : bit(x ^^ z, i) = 0
    BY <1>3, AllOnes
  <2>2. \A i \in Index : bit(x, i) = 1 <=> bit(z, i) = 1
    BY <1>1, <2>1
  <2>. QED
    BY <2>2, Extensional
<1>4. ASSUME x = z PROVE (x ^^ z) = 0
  <2>1. \A i \in Index : bit(x ^^ z, i) # 1 /\ bit(0, i) = 0
    BY <1>1, <1>4, AllOnes
  <2>2. 0 \in Words /\ \A i \in Index : bit(x ^^ z, i) = 1 <=> bit(0, i) = 1
    BY <2>1, AllOnes
  <2>. QED
    BY <1>2, <2>2, Extensional
<1>. QED
  BY <1>3, <1>4

-----------------------------------------------------------------------------
(* The weights of the bits of a word add up to the word.                   *)

\* Clearing a bit that is set subtracts its weight.
LEMMA Cleared ==
  ASSUME NEW s \in SUBSET Index, NEW j \in s
  PROVE  Word(s) = pow2[j] + Word(s \ {j})
<1>1. PICK x \in Words : x = Word(s \ {j})
  BY WordFacts
<1>2. Bits(x) = s \ {j}
  BY <1>1, WordFacts
<1>3. \A i \in Index : bit(x, i) \in {0, 1} /\ (bit(x, i) = 1 <=> i \in s /\ i # j)
  BY <1>2, WordType DEF Bits
<1>4. j \in 0..(W - 1) /\ j \in Nat /\ W \in Nat /\ x \in Int /\ x \in Nat /\ x < M
  BY Width, WordType
<1>5. PICK u \in Nat \ {0} : u = pow2[j] /\ pow2[j + 1] = 2 * u
  BY <1>4, Pow
<1>6. PICK h \in Int, r \in 0..(u - 1) : x = (2 * u) * h + r
  <2>1. \E h \in Int, r \in 0..(pow2[j] - 1) : x = pow2[j + 1] * h + pow2[j] * bit(x, j) + r
    BY <1>4, BitParts
  <2>2. PICK h \in Int, r \in 0..(u - 1) : x = (2 * u) * h + u * bit(x, j) + r
    BY <1>5, <2>1, Zenon
  <2>3. bit(x, j) = 0
    BY <1>3
  <2>4. x = (2 * u) * h + r
    BY <2>2, <2>3
  <2>. QED
    BY <2>4
<1>7. PICK v \in Nat \ {0} : v = pow2[j + 1] /\ v = 2 * u
  BY <1>5
<1>8. x = v * h + r /\ x + u = v * h + (u + r) /\ r \in 0..(v - 1) /\ u + r \in 0..(v - 1)
  <2>1. v * h \in Int
    BY SMT
  <2>. QED
    BY <1>6, <1>7, <2>1
<1>9. x \div v = h /\ (x + u) \div v = h
  BY <1>8, Quotient
<1>10. x + u \in Words
  <2>1. W - 1 - j \in Nat /\ M = pow2[j + 1] * pow2[W - 1 - j]
    BY <1>4, PowApart DEF M
  <2>2. PICK k \in Nat : k = pow2[W - 1 - j] /\ M = v * k
    BY <1>7, <2>1, Pow
  <2>3. v * h \in Int /\ v * k \in Int /\ v * (k - 1) = v * k - v
    BY SMT
  <2>4. CASE h <= k - 1
    <3>1. v * h <= v * (k - 1)
      BY <2>4, Monotone
    <3>2. x + u < M
      BY <1>8, <2>2, <2>3, <3>1
    <3>. QED
      BY <1>4, <3>2, Width DEF Words
  <2>5. CASE k <= h
    <3>1. v * k <= v * h
      BY <2>5, Monotone
    <3>. QED
      BY <1>4, <1>8, <2>2, <2>3, <3>1
  <2>. QED
    BY <2>4, <2>5
<1>11. ASSUME NEW i \in Index
       PROVE  bit(x + u, i) = 1 <=> i \in s
  <2>1. i \in Nat
    BY Width
  <2>2. CASE i = j
    <3>1. bit(pow2[j + 1] * h + pow2[j] * 1 + r, j) = 1
      BY <1>4, <1>5, BitFound
    <3>2. pow2[j + 1] * h + pow2[j] * 1 + r = x + u
      <4>1. v * h \in Int
        BY SMT
      <4>. QED
        BY <1>5, <1>7, <1>8, <4>1
    <3>. QED
      BY <2>2, <3>1, <3>2
  <2>3. CASE i < j
    <3>1. i \in 0..(j - 1)
      BY <2>1, <2>3
    <3>2. bit(x + pow2[j] * 1, i) = bit(x, i)
      BY <1>4, <3>1, LowBits
    <3>3. x + pow2[j] * 1 = x + u
      BY <1>5
    <3>. QED
      BY <1>3, <1>4, <2>1, <2>3, <3>2, <3>3
  <2>4. CASE j < i
    <3>1. PICK k \in Nat : k = i - (j + 1) /\ (j + 1) + k = i
      BY <1>4, <2>1, <2>4
    <3>2. j + 1 \in Nat /\ x + u \in Int
      BY <1>4
    <3>3. bit(x, (j + 1) + k) = bit(x \div pow2[j + 1], k)
      BY <1>4, <3>2, HighBits
    <3>4. bit(x + u, (j + 1) + k) = bit((x + u) \div pow2[j + 1], k)
      BY <3>2, HighBits
    <3>5. bit(x, i) = bit(x + u, i)
      BY <1>7, <1>9, <3>1, <3>3, <3>4, Zenon
    <3>. QED
      BY <1>3, <1>4, <2>1, <2>4, <3>5
  <2>. QED
    BY <1>4, <2>1, <2>2, <2>3, <2>4
<1>12. Bits(x + u) = s
  BY <1>11 DEF Bits
<1>13. Word(s) = x + u
  BY <1>10, <1>12, WordFacts
<1>. QED
  BY <1>1, <1>4, <1>5, <1>13

\* Functions f and g of sets are equal on a set whenever they are on the set
\* without the element that ch chooses.
Agree(D, f, g, ch) ==
    /\ f[{}] = g[{}]
    /\ \A s \in SUBSET D : s # {} =>
          /\ ch[s] \in s
          /\ f[s \ {ch[s]}] = g[s \ {ch[s]}] => f[s] = g[s]

LEMMA Unique ==
  ASSUME NEW D, IsFiniteSet(D), NEW f, NEW g, NEW ch, Agree(D, f, g, ch)
  PROVE  \A s \in SUBSET D : f[s] = g[s]
<1>. USE DEF Agree
<1>. DEFINE Bad == {n \in Nat : \E s \in SUBSET D : Cardinality(s) = n /\ f[s] # g[s]}
<1>. SUFFICES ASSUME NEW s0 \in SUBSET D, f[s0] # g[s0] PROVE FALSE
  OBVIOUS
<1>1. Cardinality(s0) \in Bad
  BY FS_CardinalityType, FS_Subset
<1>2. PICK n \in Bad : \A k \in Bad : n <= k
  <2>1. Bad \in SUBSET Nat
    OBVIOUS
  <2>. HIDE DEF Bad
  <2>. QED
    BY <1>1, <2>1, LeastOf
<1>3. PICK s \in SUBSET D : Cardinality(s) = n /\ f[s] # g[s]
  BY <1>2
<1>4. s # {}
  BY <1>3
<1>. DEFINE r == s \ {ch[s]}
<1>5. IsFiniteSet(s) /\ Cardinality(s) \in Nat
  BY FS_Subset, FS_CardinalityType
<1>6. IsFiniteSet(r) /\ Cardinality(r) = Cardinality(s) - 1 /\ Cardinality(r) \in Nat
  <2>1. IsFiniteSet(r) /\ Cardinality(r) = Cardinality(s) - 1
    BY <1>4, <1>5, FS_RemoveElement
  <2>. QED
    BY <2>1, FS_CardinalityType
<1>7. f[r] # g[r] /\ r \in SUBSET D
  BY <1>3, <1>4
<1>. HIDE DEF r
<1>8. Cardinality(r) \in Bad
  BY <1>6, <1>7
<1>9. n <= Cardinality(r)
  <2>. HIDE DEF Bad
  <2>. QED
    BY <1>2, <1>8
<1>. QED
  BY <1>3, <1>5, <1>6, <1>9

\* The sums of FromBits, over the bits in any order.
WeightSums(S) ==
    LET iter[s \in SUBSET S] ==
            IF s = {} THEN 0
            ELSE LET x == CHOOSE z \in s : TRUE IN pow2[x] + iter[s \ {x}]
    IN  iter

LEMMA SumOfWeights ==
  ASSUME NEW S \in SUBSET Index
  PROVE  FromBits(S) = Word(S)
<1>. DEFINE ch == [s \in SUBSET S |-> CHOOSE z \in s : TRUE]
            Is(f) == f = [s \in SUBSET S |->
                             IF s = {} THEN 0
                             ELSE pow2[CHOOSE z \in s : TRUE] + f[s \ {CHOOSE z \in s : TRUE}]]
            g == [s \in SUBSET S |-> Word(s)]
<1>1. ASSUME NEW s \in SUBSET S, s # {}
      PROVE  /\ ch[s] \in s /\ ch[s] = CHOOSE z \in s : TRUE
             /\ g[s] = pow2[ch[s]] + g[s \ {ch[s]}]
  <2>1. ch[s] = CHOOSE z \in s : TRUE
    OBVIOUS
  <2>2. ch[s] \in s
    BY <1>1
  <2>. HIDE DEF ch
  <2>3. Word(s) = pow2[ch[s]] + Word(s \ {ch[s]})
    BY <2>2, Cleared
  <2>. QED
    BY <2>1, <2>2, <2>3
<1>2. g[{}] = 0
  <2>1. 0 \in Words /\ Bits(0) = {}
    BY AllOnes DEF Bits
  <2>2. Word({}) = 0
    BY <2>1, WordFacts
  <2>. QED
    BY <2>2
<1>. HIDE DEF ch
<1>3. Is(g)
  <2>1. \A s \in SUBSET S : g[s] = IF s = {} THEN 0
                                   ELSE pow2[CHOOSE z \in s : TRUE] + g[s \ {CHOOSE z \in s : TRUE}]
    BY <1>1, <1>2
  <2>2. g = [s \in SUBSET S |-> g[s]]
    OBVIOUS
  <2>. HIDE DEF g
  <2>. QED
    BY <2>1, <2>2
<1>. DEFINE f == WeightSums(S)
<1>4. f = CHOOSE h : Is(h)
  BY Zenon DEF WeightSums
<1>. HIDE DEF f, g
<1>5. Is(f)
  <2>. HIDE DEF Is
  <2>. QED
    BY <1>3, <1>4
<1>6. f[{}] = g[{}]
  BY <1>2, <1>5
<1>7. \A s \in SUBSET S : s # {} => /\ ch[s] \in s
                                    /\ f[s \ {ch[s]}] = g[s \ {ch[s]}] => f[s] = g[s]
  <2>1. ASSUME NEW s \in SUBSET S, s # {}
        PROVE  f[s] = pow2[ch[s]] + f[s \ {ch[s]}]
    BY <1>1, <1>5, <2>1
  <2>. QED
    BY <1>1, <2>1
<1>8. IsFiniteSet(S)
  <2>1. IsFiniteSet(Index)
    BY Width, FS_Interval
  <2>. QED
    BY <2>1, FS_Subset
<1>9. f[S] = g[S]
  <2>1. Agree(S, f, g, ch)
    BY <1>6, <1>7 DEF Agree
  <2>. QED
    BY <1>8, <2>1, Unique
<1>10. FromBits(S) = WeightSums(S)[S]
  BY Zenon DEF FromBits, MapThenSumSet, MapThenFoldSet, WeightSums
<1>. QED
  BY <1>9, <1>10 DEF f, g

-----------------------------------------------------------------------------
(* The three ALUs.                                                         *)

TypeInv == a \in Words /\ b \in Words /\ op \in Ops

LEMMA TypeHolds == Spec => []TypeInv
<1>1. Init => TypeInv
  BY AllOnes DEF Init, TypeInv, Ops
<1>2. TypeInv /\ [Drive]_vars => TypeInv'
  BY DEF TypeInv, Drive, vars
<1>. QED
  BY <1>1, <1>2, PTL DEF Spec

\* What is expected of each operation, in terms of words.
LEMMA Expected ==
  ASSUME TypeInv
  PROVE  /\ op = "ADD" => expected = (a + b) % M
         /\ op = "SUB" => expected = (a - b) % M
         /\ op = "AND" => expected = a & b
         /\ op = "OR"  => expected = a | b
         /\ op = "XOR" => expected = a ^^ b
         /\ op = "SLL" => expected = (a * pow2[Shamt(b)]) % M
         /\ op = "SRL" => expected = a \div pow2[Shamt(b)]
         /\ op = "SRA" => expected = ArithShiftRight(a, Shamt(b))
<1>. USE DEF TypeInv
<1>1. PICK s \in {0, 1} : Signed(a) = a - M * s
  BY Sign
<1>2. PICK t \in {0, 1} : Signed(b) = b - M * t
  BY Sign
<1>3. a \in Nat /\ b \in Nat /\ M \in Nat \ {0}
  BY Width, WordType
<1>4. ASSUME op = "ADD" PROVE expected = (a + b) % M
  <2>1. expected = (Signed(a) + Signed(b)) % M
    BY <1>4 DEF expected
  <2>2. PICK k \in Int : k = -(s + t)
    OBVIOUS
  <2>3. Signed(a) + Signed(b) = (a + b) + M * k
    BY <1>1, <1>2, <1>3, <2>2
  <2>4. a + b \in Int
    BY <1>3
  <2>. QED
    BY <2>1, <2>3, <2>4, Wrap
<1>5. ASSUME op = "SUB" PROVE expected = (a - b) % M
  <2>1. expected = (Signed(a) - Signed(b)) % M
    BY <1>5 DEF expected
  <2>2. PICK k \in Int : k = t - s
    OBVIOUS
  <2>3. Signed(a) - Signed(b) = (a - b) + M * k
    BY <1>1, <1>2, <1>3, <2>2
  <2>4. a - b \in Int
    BY <1>3
  <2>. QED
    BY <2>1, <2>3, <2>4, Wrap
<1>6. \A z, w : Bits(z) \cap Bits(w) \in SUBSET Index /\ Bits(z) \cup Bits(w) \in SUBSET Index
                /\ (Bits(z) \cup Bits(w)) \ (Bits(z) \cap Bits(w)) \in SUBSET Index
  BY DEF Bits
<1>7. ASSUME op = "AND" PROVE expected = a & b
  <2>1. expected = FromBits(Bits(a) \cap Bits(b))
    BY <1>7 DEF expected
  <2>. QED
    BY <1>6, <2>1, SumOfWeights DEF &
<1>8. ASSUME op = "OR" PROVE expected = a | b
  <2>1. expected = FromBits(Bits(a) \cup Bits(b))
    BY <1>8 DEF expected
  <2>. QED
    BY <1>6, <2>1, SumOfWeights DEF |
<1>9. ASSUME op = "XOR" PROVE expected = a ^^ b
  <2>1. expected = FromBits((Bits(a) \cup Bits(b)) \ (Bits(a) \cap Bits(b)))
    BY <1>9 DEF expected
  <2>. QED
    BY <1>6, <2>1, SumOfWeights DEF ^^
<1>10. b % W = Shamt(b) /\ Shamt(b) \in 0..(W - 1)
  BY ShiftAmount
<1>11. ASSUME op = "SLL" PROVE expected = (a * pow2[Shamt(b)]) % M
  BY <1>10, <1>11 DEF expected
<1>12. ASSUME op = "SRL" PROVE expected = a \div pow2[Shamt(b)]
  BY <1>10, <1>12 DEF expected
<1>13. ASSUME op = "SRA" PROVE expected = ArithShiftRight(a, Shamt(b))
  <2>1. expected = (Signed(a) \div pow2[Shamt(b)]) % M
    BY <1>10, <1>13 DEF expected
  <2>. QED
    BY <1>10, <2>1, SignedShift
<1>. QED
  BY <1>4, <1>5, <1>7, <1>8, <1>9, <1>11, <1>12, <1>13

\* The one adder of the pipeline's ALU adds and subtracts.
LEMMA OneAdder ==
  ASSUME NEW x \in Words, NEW z \in Words
  PROVE  /\ adder_sum("ADD", x, z) % M = (x + z) % M
         /\ adder_sum("SUB", x, z) % M = (x - z) % M
<1>1. x \in Int /\ z \in Int /\ M \in Nat \ {0}
  BY Width, WordType
<1>2. adder_sum("ADD", x, z) = x + z
  BY <1>1 DEF adder_sum, adder_b, sub_sel
<1>3. adder_sum("SUB", x, z) = (x - z) + M * 1
  <2>1. adder_sum("SUB", x, z) = x + ((M - 1) - z) + 1
    BY Complement DEF adder_sum, adder_b, sub_sel
  <2>. QED
    BY <1>1, <2>1
<1>4. x - z \in Int /\ 1 \in Int
  BY <1>1
<1>5. ((x - z) + M * 1) % M = (x - z) % M
  BY <1>4, Wrap
<1>. QED
  BY <1>2, <1>3, <1>5, Zenon

LEMMA PipelineALU == TypeInv => PipelineALUCorrect
<1>. SUFFICES ASSUME TypeInv PROVE ALUResult(op, a, b) = expected
  BY DEF PipelineALUCorrect, zero
<1>1. a \in Words /\ b \in Words /\ op \in Ops
  BY DEF TypeInv
<1>2. CASE op = "ADD"
  <2>1. ALUResult(op, a, b) = adder_sum("ADD", a, b) % M
    BY <1>2 DEF ALUResult
  <2>. QED
    BY <1>1, <1>2, <2>1, OneAdder, Expected, Zenon
<1>3. CASE op = "SUB"
  <2>1. ALUResult(op, a, b) = adder_sum("SUB", a, b) % M
    BY <1>3 DEF ALUResult
  <2>. QED
    BY <1>1, <1>3, <2>1, OneAdder, Expected, Zenon
<1>4. CASE op \in Ops \ {"ADD", "SUB"}
  BY <1>4, Expected DEF ALUResult, Ops
<1>. QED
  BY <1>1, <1>2, <1>3, <1>4

LEMMA E203Compares == TypeInv => Comparisons
<1>. SUFFICES ASSUME TypeInv PROVE Comparisons
  OBVIOUS
<1>1. a \in Words /\ b \in Words
  BY DEF TypeInv
<1>2. ASSUME NEW o \in op_compare
      PROVE  lt(o, a, b) <=> IF o \in op_unsigned THEN a < b ELSE Signed(a) < Signed(b)
  <2>1. adder_sub(o)
    BY DEF adder_sub
  <2>. QED
    BY <1>1, <2>1, Subtracted DEF Value
<1>3. \A o \in {"slt", "cmp_lt", "cmp_gt", "max", "min"} : lt(o, a, b) <=> Signed(a) < Signed(b)
  BY <1>2 DEF op_compare, op_unsigned
<1>4. \A o \in {"sltu", "cmp_ltu", "cmp_gtu", "maxu", "minu"} : lt(o, a, b) <=> a < b
  BY <1>2 DEF op_compare, op_unsigned
<1>5. a \in Nat /\ b \in Nat /\ Signed(a) \in Int /\ Signed(b) \in Int
  BY <1>1, WordType, Sign
<1>. HIDE DEF lt
<1>6. /\ cmp_res("cmp_eq", a, b) <=> a = b
      /\ cmp_res("cmp_ne", a, b) <=> a # b
  BY <1>1, Equal DEF cmp_res
<1>7. /\ cmp_res("cmp_lt", a, b)  <=> Signed(a) < Signed(b)
      /\ cmp_res("cmp_ltu", a, b) <=> a < b
  BY <1>3, <1>4 DEF cmp_res
<1>8. /\ cmp_res("cmp_gt", a, b)  <=> Signed(a) >= Signed(b)
      /\ cmp_res("cmp_gtu", a, b) <=> a >= b
  BY <1>3, <1>4, <1>5 DEF cmp_res, op1_gt_op2
<1>9. /\ alu_dpath_res("slt", a, b)  = IF Signed(a) < Signed(b) THEN 1 ELSE 0
      /\ alu_dpath_res("sltu", a, b) = IF a < b THEN 1 ELSE 0
  BY <1>3, <1>4 DEF alu_dpath_res
<1>10. /\ alu_dpath_res("max", a, b)  = IF Signed(a) >= Signed(b) THEN a ELSE b
       /\ alu_dpath_res("min", a, b)  = IF Signed(a) < Signed(b) THEN a ELSE b
  BY <1>3, <1>5 DEF alu_dpath_res, maxmin_sel_op1, op1_gt_op2
<1>11. /\ alu_dpath_res("maxu", a, b) = IF a >= b THEN a ELSE b
       /\ alu_dpath_res("minu", a, b) = IF a < b THEN a ELSE b
  BY <1>4, <1>5 DEF alu_dpath_res, maxmin_sel_op1, op1_gt_op2
<1>. QED
  BY <1>6, <1>7, <1>8, <1>9, <1>10, <1>11, Zenon DEF Comparisons

LEMMA E203Computes == TypeInv => alu_dpath_res(E203Op[op], a, b) = expected
<1>. SUFFICES ASSUME TypeInv PROVE alu_dpath_res(E203Op[op], a, b) = expected
  OBVIOUS
<1>1. a \in Words /\ b \in Words /\ op \in Ops
  BY DEF TypeInv
<1>2. CASE op = "ADD"
  <2>1. E203Op[op] = "add"
    BY <1>2 DEF E203Op
  <2>2. alu_dpath_res("add", a, b) = adder_res("add", a, b) % M
    BY DEF alu_dpath_res
  <2>3. expected = (Signed(a) + Signed(b)) % M
    BY <1>2 DEF expected
  <2>. QED
    BY <1>1, <2>1, <2>2, <2>3, Added, Zenon
<1>3. CASE op = "SUB"
  <2>1. E203Op[op] = "sub"
    BY <1>3 DEF E203Op
  <2>2. alu_dpath_res("sub", a, b) = adder_res("sub", a, b) % M
    BY DEF alu_dpath_res
  <2>3. expected = (Signed(a) - Signed(b)) % M
    BY <1>3 DEF expected
  <2>4. adder_sub("sub") /\ Value("sub", a) = Signed(a) /\ Value("sub", b) = Signed(b)
    BY DEF adder_sub, Value, op_unsigned
  <2>5. adder_res("sub", a, b) % M = (Value("sub", a) - Value("sub", b)) % M
    BY <1>1, <2>4, Subtracted, Zenon
  <2>. QED
    BY <2>1, <2>2, <2>3, <2>4, <2>5, Zenon
<1>4. CASE op = "SLL"
  <2>1. E203Op[op] = "sll"
    BY <1>4 DEF E203Op
  <2>2. alu_dpath_res("sll", a, b) = (a * pow2[Shamt(b)]) % M
    BY DEF alu_dpath_res, sll_res, shifter_res, shifter_in1
  <2>. QED
    BY <1>4, <2>1, <2>2, Expected
<1>5. CASE op = "SRL"
  <2>1. E203Op[op] = "srl"
    BY <1>5 DEF E203Op
  <2>2. alu_dpath_res("srl", a, b) = srl_res(a, b)
    BY DEF alu_dpath_res
  <2>. QED
    BY <1>1, <1>5, <2>1, <2>2, RightShift, Expected
<1>6. CASE op = "SRA"
  <2>1. E203Op[op] = "sra"
    BY <1>6 DEF E203Op
  <2>2. alu_dpath_res("sra", a, b) = sra_res(a, b)
    BY DEF alu_dpath_res
  <2>. QED
    BY <1>1, <1>6, <2>1, <2>2, MaskedShift, Expected
<1>7. CASE op = "AND"
  <2>1. E203Op[op] = "and"
    BY <1>7 DEF E203Op
  <2>. QED
    BY <1>7, <2>1, Expected DEF alu_dpath_res
<1>8. CASE op = "OR"
  <2>1. E203Op[op] = "or"
    BY <1>8 DEF E203Op
  <2>. QED
    BY <1>8, <2>1, Expected DEF alu_dpath_res
<1>9. CASE op = "XOR"
  <2>1. E203Op[op] = "xor"
    BY <1>9 DEF E203Op
  <2>. QED
    BY <1>9, <2>1, Expected DEF alu_dpath_res
<1>. QED
  BY <1>1, <1>2, <1>3, <1>4, <1>5, <1>6, <1>7, <1>8, <1>9 DEF Ops

-----------------------------------------------------------------------------
(* The flags of alu.v.                                                     *)

\* A sum or difference of words in one bit more.
LEMMA OneBitMore ==
  ASSUME NEW s \in Int, -M < s, s < 2 * M
  PROVE  /\ s % pow2[W + 1] = IF s >= 0 THEN s ELSE 2 * M + s
         /\ (s % pow2[W + 1]) % M = s % M
         /\ bit(s % pow2[W + 1], W) = 1 <=> s < 0 \/ s >= M
         /\ s % M = IF s < 0 THEN s + M ELSE IF s >= M THEN s - M ELSE s
<1>1. M \in Nat \ {0} /\ W \in Nat /\ M = pow2[W] /\ pow2[W + 1] = 2 * M
  <2>1. M \in Nat \ {0} /\ W \in Nat /\ M = pow2[W]
    BY Width DEF M
  <2>. QED
    BY <2>1, Pow
<1>2. PICK d \in Nat \ {0} : d = 2 * M
  BY <1>1
<1>3. PICK r \in 0..(d - 1) : r = IF s >= 0 THEN s ELSE d + s
  BY <1>1, <1>2
<1>4. s % d = r
  <2>1. CASE s >= 0
    <3>1. (d * 0 + r) % d = r /\ d * 0 + r = s
      BY <1>3, <2>1, Quotient
    <3>. QED
      BY <3>1
  <2>2. CASE ~(s >= 0)
    <3>1. (d * (-1) + r) % d = r
      BY Quotient
    <3>2. d * (-1) + r = s
      BY <1>3, <2>2
    <3>. QED
      BY <3>1, <3>2
  <2>. QED
    BY <2>1, <2>2
<1>5. PICK k \in {-1, 0, 1} : k = IF s < 0 THEN -1 ELSE IF s >= M THEN 1 ELSE 0
  OBVIOUS
<1>6. PICK e \in 0..(M - 1) : e = s - M * k /\ s = M * k + e
  BY <1>1, <1>5
<1>7. s % M = e
  <2>1. k \in Int
    OBVIOUS
  <2>2. (M * k + e) % M = e
    BY <1>1, <2>1, Quotient
  <2>. QED
    BY <1>6, <2>2, Zenon
<1>8. PICK j \in {0, 1} : j = (IF s < 0 \/ s >= M THEN 1 ELSE 0) /\ r = M * j + e
  BY <1>1, <1>2, <1>3, <1>5, <1>6
<1>9. r \div M = j /\ r % M = e
  <2>1. j \in Int
    OBVIOUS
  <2>. QED
    BY <1>1, <1>8, <2>1, Quotient
<1>10. bit(r, W) = j
  <2>1. j % 2 = j
    OBVIOUS
  <2>. QED
    BY <1>1, <1>9, <2>1 DEF bit
<1>11. s % pow2[W + 1] = r
  BY <1>1, <1>2, <1>4
<1>. QED
  BY <1>1, <1>2, <1>3, <1>5, <1>6, <1>7, <1>8, <1>9, <1>10, <1>11


LEMMA FlagsOfAlu == TypeInv => FlagsCorrect
<1>. SUFFICES ASSUME TypeInv PROVE FlagsCorrect
  OBVIOUS
<1>1. a \in Words /\ b \in Words /\ op \in Ops
  BY DEF TypeInv
<1>2. PICK h \in Nat \ {0} : h = pow2[W - 1] /\ M = 2 * h
  BY Width
<1>3. a \in Nat /\ b \in Nat /\ a < M /\ b < M
  BY <1>1, WordType
<1>4. PICK s \in {0, 1} : s = MSB(a) /\ Signed(a) = a - M * s /\ (s = 1 <=> a >= h)
  BY <1>1, <1>2, Sign
<1>5. PICK t \in {0, 1} : t = MSB(b) /\ Signed(b) = b - M * t /\ (t = 1 <=> b >= h)
  BY <1>1, <1>2, Sign
<1>6. PICK o : o = OP16[op]
  OBVIOUS
<1>7. PICK r : r = y(o, a, b)
  OBVIOUS
<1>8. /\ op = "ADD" => o = "OP_ADD"
      /\ op = "SUB" => o = "OP_SUB"
      /\ op = "AND" => o = "OP_AND"
      /\ op = "OR"  => o = "OP_OR"
      /\ op = "XOR" => o = "OP_XOR"
      /\ op = "SLL" => o = "OP_SLL"
      /\ op = "SRL" => o = "OP_SRL"
      /\ op = "SRA" => o = "none"
  BY <1>6 DEF OP16
<1>9. SUFFICES /\ op # "SRA" => r = expected
               /\ carry(o, a, b) <=> (op = "ADD" /\ a + b >= M) \/ (op = "SUB" /\ a < b)
               /\ overflow(o, a, b) <=>
                    \/ op = "ADD" /\ Signed(r) # Signed(a) + Signed(b)
                    \/ op = "SUB" /\ Signed(r) # Signed(a) - Signed(b)
  BY <1>6, <1>7, Zenon DEF FlagsCorrect
<1>10. ASSUME r \in Words
       PROVE  \E q \in {0, 1} : /\ q = MSB(r) /\ Signed(r) = r - M * q
                                /\ (q = 1 <=> r >= h) /\ r \in Nat /\ r < M
  BY <1>2, <1>10, Sign, WordType
<1>11. CASE op = "ADD"
  <2>1. PICK c \in Int : c = a + b /\ -M < c /\ c < 2 * M
    BY <1>2, <1>3
  <2>2. r = (c % pow2[W + 1]) % M /\ (carry(o, a, b) <=> bit(c % pow2[W + 1], W) = 1)
    BY <1>7, <1>8, <1>11, <2>1 DEF y, carry, tmp17
  <2>3. r = c % M /\ r = (IF c >= M THEN c - M ELSE c) /\ (carry(o, a, b) <=> c >= M)
    <3>1. ~(c < 0)
      BY <1>3, <2>1
    <3>. QED
      BY <2>1, <2>2, <3>1, OneBitMore
  <2>4. expected = r
    BY <1>11, <2>1, <2>3, Expected
  <2>5. r \in Words
    BY <2>1, <2>3, Wrap
  <2>6. PICK q \in {0, 1} : q = MSB(r) /\ Signed(r) = r - M * q /\ (q = 1 <=> r >= h)
    BY <1>10, <2>5
  <2>7. overflow(o, a, b) <=> s = t /\ q # s
    BY <1>4, <1>5, <1>7, <1>8, <1>11, <2>6 DEF overflow
  <2>8. overflow(o, a, b) <=> Signed(r) # Signed(a) + Signed(b)
    <3>1. /\ Signed(a) = IF a >= h THEN a - M ELSE a
          /\ Signed(b) = IF b >= h THEN b - M ELSE b
          /\ Signed(r) = IF r >= h THEN r - M ELSE r
      BY <1>2 DEF Signed
    <3>2. overflow(o, a, b) <=> (a >= h <=> b >= h) /\ ~(r >= h <=> a >= h)
      <4>1. (s = 1 <=> a >= h) /\ (t = 1 <=> b >= h) /\ (q = 1 <=> r >= h)
        BY <1>4, <1>5, <2>6
      <4>2. s \in {0, 1} /\ t \in {0, 1} /\ q \in {0, 1}
        BY <1>4, <1>5, <2>6
      <4>. QED
        BY <2>7, <4>1, <4>2
    <3>3. PICK i \in Int, j \in Int, k \in Int : i = Signed(a) /\ j = Signed(b) /\ k = Signed(r)
      BY <1>1, <2>5, Sign
    <3>4. /\ i = IF a >= h THEN a - M ELSE a
          /\ j = IF b >= h THEN b - M ELSE b
          /\ k = IF r >= h THEN r - M ELSE r
      BY <3>1, <3>3, Zenon
    <3>5. r = IF c >= M THEN c - M ELSE c
      BY <2>3
    <3>6. PICK f \in Nat, g \in Nat : f = a /\ g = b /\ f < M /\ g < M
      BY <1>3
    <3>7. k # i + j <=> (f >= h <=> g >= h) /\ ~(r >= h <=> f >= h)
      BY <1>2, <2>1, <3>4, <3>5, <3>6
    <3>8. overflow(o, a, b) <=> k # i + j
      BY <3>2, <3>6, <3>7, Zenon
    <3>. QED
      BY <3>3, <3>8, Zenon
  <2>. QED
    BY <1>11, <2>1, <2>3, <2>4, <2>8
<1>12. CASE op = "SUB"
  <2>1. PICK c \in Int : c = a - b /\ -M < c /\ c < 2 * M
    BY <1>2, <1>3
  <2>2. r = (c % pow2[W + 1]) % M /\ (carry(o, a, b) <=> bit(c % pow2[W + 1], W) = 1)
    BY <1>7, <1>8, <1>12, <2>1 DEF y, carry, tmp17
  <2>3. r = c % M /\ r = (IF c < 0 THEN c + M ELSE c) /\ (carry(o, a, b) <=> c < 0)
    <3>1. ~(c >= M)
      BY <1>2, <1>3, <2>1
    <3>. QED
      BY <2>1, <2>2, <3>1, OneBitMore
  <2>4. expected = r
    BY <1>12, <2>1, <2>3, Expected
  <2>5. r \in Words
    BY <2>1, <2>3, Wrap
  <2>6. PICK q \in {0, 1} : q = MSB(r) /\ Signed(r) = r - M * q /\ (q = 1 <=> r >= h)
    BY <1>10, <2>5
  <2>7. overflow(o, a, b) <=> s # t /\ q # s
    BY <1>4, <1>5, <1>7, <1>8, <1>12, <2>6 DEF overflow
  <2>8. overflow(o, a, b) <=> Signed(r) # Signed(a) - Signed(b)
    <3>1. /\ Signed(a) = IF a >= h THEN a - M ELSE a
          /\ Signed(b) = IF b >= h THEN b - M ELSE b
          /\ Signed(r) = IF r >= h THEN r - M ELSE r
      BY <1>2 DEF Signed
    <3>2. overflow(o, a, b) <=> ~(a >= h <=> b >= h) /\ ~(r >= h <=> a >= h)
      <4>1. (s = 1 <=> a >= h) /\ (t = 1 <=> b >= h) /\ (q = 1 <=> r >= h)
        BY <1>4, <1>5, <2>6
      <4>2. s \in {0, 1} /\ t \in {0, 1} /\ q \in {0, 1}
        BY <1>4, <1>5, <2>6
      <4>. QED
        BY <2>7, <4>1, <4>2
    <3>3. PICK i \in Int, j \in Int, k \in Int : i = Signed(a) /\ j = Signed(b) /\ k = Signed(r)
      BY <1>1, <2>5, Sign
    <3>4. /\ i = IF a >= h THEN a - M ELSE a
          /\ j = IF b >= h THEN b - M ELSE b
          /\ k = IF r >= h THEN r - M ELSE r
      BY <3>1, <3>3, Zenon
    <3>5. r = IF c < 0 THEN c + M ELSE c
      BY <2>3
    <3>6. PICK f \in Nat, g \in Nat : f = a /\ g = b /\ f < M /\ g < M
      BY <1>3
    <3>7. k # i - j <=> ~(f >= h <=> g >= h) /\ ~(r >= h <=> f >= h)
      BY <1>2, <2>1, <3>4, <3>5, <3>6
    <3>8. overflow(o, a, b) <=> k # i - j
      BY <3>2, <3>6, <3>7, Zenon
    <3>. QED
      BY <3>3, <3>8, Zenon
  <2>9. c < 0 <=> a < b
    BY <1>3, <2>1
  <2>. QED
    BY <1>12, <2>3, <2>4, <2>8, <2>9
<1>13. CASE op \in Ops \ {"ADD", "SUB"}
  <2>1. o \notin {"OP_ADD", "OP_SUB"}
    BY <1>8, <1>13 DEF Ops
  <2>2. ~overflow(o, a, b)
    BY <2>1 DEF overflow
  <2>3. ~carry(o, a, b)
    <3>1. tmp17(o, a, b) = 0
      BY <2>1 DEF tmp17
    <3>2. bit(0, W) = 0
      BY Width, BitOfZero
    <3>. QED
      BY <3>1, <3>2 DEF carry
  <2>4. ASSUME op # "SRA" PROVE r = expected
    BY <1>7, <1>8, <1>13, <2>4, Expected DEF y, Ops
  <2>. QED
    BY <1>13, <2>2, <2>3, <2>4
<1>. QED
  BY <1>1, <1>11, <1>12, <1>13

-----------------------------------------------------------------------------
\* The pipeline's ALU computes what the testbench expects of every operation
\* and operand, for every width (rtl_pipeline/ALU.v:22-46).
THEOREM PipelineALUIsCorrect == Spec => []PipelineALUCorrect
BY TypeHolds, PipelineALU, PTL

\* So does the E203 datapath, and its comparisons order the words
\* (e203_exu_alu_dpath.v:184-373).
THEOREM E203IsCorrect == Spec => []E203Agrees
<1>1. TypeInv => E203Agrees
  BY E203Compares, E203Computes DEF E203Agrees
<1>. QED
  BY <1>1, TypeHolds, PTL

\* So does alu.v, and its carry and overflow say what happened
\* (alu/rtl/alu.v:26-80).
THEOREM FlagsAreCorrect == Spec => []FlagsCorrect
BY TypeHolds, FlagsOfAlu, PTL

\* The pipeline's ALU returns words, and adds: what RiscvDefs assumes of Alu.  A
\* code that is none of its operations gives 0 (rtl_pipeline/ALU.v:32-44).
THEOREM ALUClosed ==
  /\ \A o \in Ops, x, z \in Words : ALUResult(o, x, z) \in Words
  /\ \A x, z \in Words : ALUResult("ADD", x, z) = (x + z) % M
  /\ \A o, x, z : o \notin Ops => ALUResult(o, x, z) = 0
<1>1. ASSUME NEW x \in Words, NEW z \in Words
      PROVE  ALUResult("ADD", x, z) = (x + z) % M
  BY OneAdder DEF ALUResult
<1>2. ASSUME NEW o \in Ops, NEW x \in Words, NEW z \in Words
      PROVE  ALUResult(o, x, z) \in Words
  <2>1. Shamt(z) \in 0..(W - 1) /\ x \in Int /\ z \in Int
    BY ShiftAmount, WordType
  <2>2. \A u \in Int : u % M \in Words
    BY Wrap
  <2>3. CASE o = "ADD"
    <3>1. x + z \in Int
      BY <2>1
    <3>. QED
      BY <1>1, <2>2, <2>3, <3>1
  <2>4. CASE o = "SUB"
    <3>1. ALUResult(o, x, z) = (x - z) % M
      BY <2>4, OneAdder DEF ALUResult
    <3>2. x - z \in Int
      BY <2>1
    <3>. QED
      BY <2>2, <3>1, <3>2
  <2>5. CASE o = "SLL"
    <3>1. ALUResult(o, x, z) = (x * pow2[Shamt(z)]) % M
      BY <2>5 DEF ALUResult
    <3>2. x * pow2[Shamt(z)] \in Int
      BY <2>1, Cut
    <3>. QED
      BY <2>2, <3>1, <3>2
  <2>6. CASE o = "SRL"
    BY <2>1, <2>6, Dropped DEF ALUResult
  <2>7. CASE o = "SRA"
    BY <2>1, <2>7, Filled DEF ALUResult
  <2>8. CASE o \in {"AND", "OR", "XOR"}
    BY <2>8, Logic DEF ALUResult
  <2>. QED
    BY <2>3, <2>4, <2>5, <2>6, <2>7, <2>8 DEF Ops
<1>3. ASSUME NEW o, NEW x, NEW z, o \notin Ops
      PROVE  ALUResult(o, x, z) = 0
  BY <1>3 DEF ALUResult, Ops
<1>. QED
  BY <1>1, <1>2, <1>3
=============================================================================
