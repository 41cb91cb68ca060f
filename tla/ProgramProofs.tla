----------------------------- MODULE ProgramProofs -----------------------------
(***************************************************************************)
(* Proofs about two of the programs: the allocator (TinyMalloc) and the    *)
(* virtual-memory environment (VmEnv).                                     *)
(***************************************************************************)
EXTENDS TinyMalloc, VmEnv, FiniteSetTheorems, SequenceTheorems, TLAPS

(***************************************************************************)
(* The allocator.  The invariant HeapOK says that the free list            *)
(* is in order (Sorted), that the blocks on it and the blocks in use tile  *)
(* the heap (Tiling), that no two free blocks touch and none is in use     *)
(* (Fair), and that each chunk in use serves its request.  The proof has   *)
(* four layers: sequences of blocks (RemoveAt, InsertAt and replacement    *)
(* keep the order), sets of blocks (Recut: what may replace blocks of a    *)
(* tiling), free lists (the ways to take a block off, to make the list     *)
(* longer and to give a block back), and the routines on a heap.           *)
(* Last, the sums of mallinfo, as numbers of bytes.                        *)
(***************************************************************************)

Block == {b \in [at : Nat, size : Nat] : b.size >= FLE /\ b.at % WORD = 0 /\ b.size % WORD = 0}

Limit == MallocLimit - MALLOC_MINIMUM_GAP

Edges(B, e) == {b.at : b \in B} \cup {e}

Disjoint(b, c) == EndOf(b) <= c.at \/ EndOf(c) <= b.at

\* A set of blocks fills the heap up to e.
Tiling(B, e) ==
    /\ B \subseteq Block
    /\ e \in Nat /\ e % WORD = 0
    /\ MallocStart \in Edges(B, e) /\ MallocStart <= e
    /\ \A b \in B : MallocStart <= b.at /\ EndOf(b) <= e /\ EndOf(b) \in Edges(B, e)
    /\ \A b, c \in B : b # c => Disjoint(b, c)

Sorted(list) == \A i, j \in 1..Len(list) : i < j => list[i].at < list[j].at

\* Free blocks F among blocks in use V.
Fair(F, V, e) ==
    /\ \A f, g \in F : EndOf(f) # g.at
    /\ \A f \in F, u \in V : f.at # u.at
    /\ Tiling(F \cup V, e)

Good(list, V, e) ==
    /\ list \in Seq(Block) /\ Sorted(list)
    /\ Fair(ToSet(list), V, e)
    /\ e <= Limit

UsedRec == [size : Nat, asked : Sizes, align : Aligns \cup {WORD}]

HeapOK(h) ==
    /\ h = [free |-> h.free, used |-> h.used, end |-> h.end]
    /\ h.used = [a \in DOMAIN h.used |-> h.used[a]]
    /\ \A a \in DOMAIN h.used : h.used[a] \in UsedRec
    /\ Good(h.free, InUse(h), h.end)
    /\ \A a \in DOMAIN h.used :
          /\ h.used[a].size - WORD >= h.used[a].asked
          /\ (a + WORD) % h.used[a].align = 0

MallocInv == HeapOK(heap)

-----------------------------------------------------------------------------
LEMMA BlockFacts ==
  ASSUME NEW b \in Block
  PROVE  /\ b.at \in Nat /\ b.size \in Nat /\ b.size >= 8 /\ b.at % 4 = 0 /\ b.size % 4 = 0
         /\ b = [at |-> b.at, size |-> b.size] /\ EndOf(b) = b.at + b.size
BY DEF Block, FLE, WORD, EndOf

LEMMA EntryFacts ==
  ASSUME NEW a, NEW n
  PROVE  /\ Entry(a, n).at = a /\ Entry(a, n).size = n /\ EndOf(Entry(a, n)) = a + n
         /\ a \in Nat /\ n \in Nat /\ n >= 8 /\ a % 4 = 0 /\ n % 4 = 0 => Entry(a, n) \in Block
BY DEF Entry, EndOf, Block, FLE, WORD

\* Elements of a sorted list differ by their address.
LEMMA SortedApart ==
  ASSUME NEW list \in Seq(Block), Sorted(list), NEW i \in 1..Len(list), NEW j \in 1..Len(list),
         list[i].at = list[j].at
  PROVE  i = j
<1>1. \A k \in 1..Len(list) : list[k].at \in Nat
  BY ElementOfSeq, BlockFacts
<1>2. Len(list) \in Nat
  BY LenProperties
<1>3. ~(i < j) /\ ~(j < i)
  BY <1>1 DEF Sorted
<1>. QED
  BY <1>2, <1>3

LEMMA RemoveAtFacts ==
  ASSUME NEW S, NEW s \in Seq(S), NEW i \in 1..Len(s)
  PROVE  /\ RemoveAt(s, i) \in Seq(S) /\ Len(RemoveAt(s, i)) = Len(s) - 1
         /\ \A j \in 1..(Len(s) - 1) : RemoveAt(s, i)[j] = IF j < i THEN s[j] ELSE s[j + 1]
<1>1. Len(s) \in Nat /\ i \in Nat
  BY LenProperties
<1>2. \A j \in 1..Len(s) : s[j] \in S
  BY ElementOfSeq
<1>. DEFINE a == SubSeq(s, 1, i - 1)
            b == SubSeq(s, i + 1, Len(s))
<1>3. a \in Seq(S) /\ Len(a) = i - 1 /\ \A j \in 1..(i - 1) : a[j] = s[j]
  <2>1. 1 \in Int /\ i - 1 \in Int /\ \A j \in 1..(i - 1) : s[j] \in S
    BY <1>1, <1>2
  <2>2. /\ a \in Seq(S) /\ Len(a) = IF 1 <= i - 1 THEN (i - 1) - 1 + 1 ELSE 0
        /\ \A j \in 1..((i - 1) - 1 + 1) : a[j] = s[1 + j - 1]
    BY <2>1, SubSeqProperties
  <2>. QED
    BY <1>1, <2>2
<1>4. b \in Seq(S) /\ Len(b) = Len(s) - i /\ \A j \in 1..(Len(s) - i) : b[j] = s[i + j]
  <2>1. i + 1 \in Int /\ Len(s) \in Int /\ \A j \in (i + 1)..Len(s) : s[j] \in S
    BY <1>1, <1>2
  <2>2. /\ b \in Seq(S) /\ Len(b) = IF i + 1 <= Len(s) THEN Len(s) - (i + 1) + 1 ELSE 0
        /\ \A j \in 1..(Len(s) - (i + 1) + 1) : b[j] = s[(i + 1) + j - 1]
    BY <2>1, SubSeqProperties
  <2>. QED
    BY <1>1, <2>2
<1>5. RemoveAt(s, i) = a \o b
  BY DEF RemoveAt
<1>. HIDE DEF a, b
<1>6. /\ a \o b \in Seq(S) /\ Len(a \o b) = Len(a) + Len(b)
      /\ \A j \in 1..(Len(a) + Len(b)) : (a \o b)[j] = IF j <= Len(a) THEN a[j] ELSE b[j - Len(a)]
  BY <1>3, <1>4, ConcatProperties
<1>. QED
  BY <1>1, <1>3, <1>4, <1>5, <1>6

LEMMA InsertAtFacts ==
  ASSUME NEW S, NEW s \in Seq(S), NEW i \in 1..(Len(s) + 1), NEW e \in S
  PROVE  /\ InsertAt(s, i, e) \in Seq(S) /\ Len(InsertAt(s, i, e)) = Len(s) + 1
         /\ \A j \in 1..(Len(s) + 1) :
               InsertAt(s, i, e)[j] = IF j < i THEN s[j] ELSE IF j = i THEN e ELSE s[j - 1]
<1>1. Len(s) \in Nat /\ i \in Nat
  BY LenProperties
<1>2. \A j \in 1..Len(s) : s[j] \in S
  BY ElementOfSeq
<1>. DEFINE a == SubSeq(s, 1, i - 1)
            b == SubSeq(s, i, Len(s))
            m == <<e>>
<1>3. a \in Seq(S) /\ Len(a) = i - 1 /\ \A j \in 1..(i - 1) : a[j] = s[j]
  <2>1. 1 \in Int /\ i - 1 \in Int /\ \A j \in 1..(i - 1) : s[j] \in S
    BY <1>1, <1>2
  <2>2. /\ a \in Seq(S) /\ Len(a) = IF 1 <= i - 1 THEN (i - 1) - 1 + 1 ELSE 0
        /\ \A j \in 1..((i - 1) - 1 + 1) : a[j] = s[1 + j - 1]
    BY <2>1, SubSeqProperties
  <2>. QED
    BY <1>1, <2>2
<1>4. b \in Seq(S) /\ Len(b) = Len(s) - i + 1 /\ \A j \in 1..(Len(s) - i + 1) : b[j] = s[i + j - 1]
  <2>1. i \in Int /\ Len(s) \in Int /\ \A j \in i..Len(s) : s[j] \in S
    BY <1>1, <1>2
  <2>2. /\ b \in Seq(S) /\ Len(b) = IF i <= Len(s) THEN Len(s) - i + 1 ELSE 0
        /\ \A j \in 1..(Len(s) - i + 1) : b[j] = s[i + j - 1]
    BY <2>1, SubSeqProperties
  <2>. QED
    BY <1>1, <2>2
<1>5. m \in Seq(S) /\ Len(m) = 1 /\ m[1] = e
  OBVIOUS
<1>6. InsertAt(s, i, e) = (a \o m) \o b
  BY DEF InsertAt
<1>. HIDE DEF a, b, m
<1>7. /\ a \o m \in Seq(S) /\ Len(a \o m) = i
      /\ \A j \in 1..i : (a \o m)[j] = IF j < i THEN s[j] ELSE e
  <2>1. /\ a \o m \in Seq(S) /\ Len(a \o m) = Len(a) + Len(m)
        /\ \A j \in 1..(Len(a) + Len(m)) : (a \o m)[j] = IF j <= Len(a) THEN a[j] ELSE m[j - Len(a)]
    BY <1>3, <1>5, ConcatProperties
  <2>. QED
    BY <1>1, <1>3, <1>5, <2>1
<1>8. PICK am : am = a \o m
  OBVIOUS
<1>9. am \in Seq(S) /\ Len(am) = i /\ \A j \in 1..i : am[j] = IF j < i THEN s[j] ELSE e
  BY <1>7, <1>8
<1>10. /\ am \o b \in Seq(S) /\ Len(am \o b) = Len(am) + Len(b)
       /\ \A j \in 1..(Len(am) + Len(b)) : (am \o b)[j] = IF j <= Len(am) THEN am[j] ELSE b[j - Len(am)]
  BY <1>4, <1>9, ConcatProperties
<1>11. InsertAt(s, i, e) = am \o b
  BY <1>6, <1>8
<1>12. PICK r : r = InsertAt(s, i, e)
  OBVIOUS
<1>13. r \in Seq(S) /\ Len(r) = Len(s) + 1
  BY <1>1, <1>4, <1>9, <1>10, <1>11, <1>12
<1>14. ASSUME NEW j \in 1..(Len(s) + 1)
       PROVE  r[j] = IF j < i THEN s[j] ELSE IF j = i THEN e ELSE s[j - 1]
  <2>1. j \in 1..(Len(am) + Len(b)) /\ r[j] = IF j <= i THEN am[j] ELSE b[j - i]
    BY <1>1, <1>4, <1>9, <1>10, <1>11, <1>12
  <2>2. CASE j <= i
    BY <1>1, <1>9, <2>1, <2>2
  <2>3. CASE ~(j <= i)
    <3>1. j - i \in 1..(Len(s) - i + 1) /\ i + (j - i) - 1 = j - 1
      BY <1>1, <2>3
    <3>2. b[j - i] = s[j - 1]
      BY <1>4, <3>1
    <3>. QED
      BY <1>1, <2>1, <2>3, <3>2
  <2>. QED
    BY <2>2, <2>3
<1>. QED
  BY <1>12, <1>13, <1>14

LEMMA ToSetFacts ==
  ASSUME NEW S, NEW s \in Seq(S)
  PROVE  /\ ToSet(s) \subseteq S
         /\ \A i \in 1..Len(s) : s[i] \in ToSet(s)
         /\ \A x \in ToSet(s) : \E i \in 1..Len(s) : x = s[i]
<1>1. DOMAIN s = 1..Len(s) /\ \A i \in 1..Len(s) : s[i] \in S
  BY LenProperties, ElementOfSeq
<1>. QED
  BY <1>1 DEF ToSet

IsRemoved(new, list, i) ==
    /\ new \in Seq(Block) /\ Len(new) = Len(list) - 1
    /\ \A j \in 1..(Len(list) - 1) : new[j] = IF j < i THEN list[j] ELSE list[j + 1]

LEMMA Gap ==
  ASSUME NEW list \in Seq(Block), Sorted(list), NEW i \in 1..Len(list),
         NEW new, IsRemoved(new, list, i)
  PROVE  new \in Seq(Block) /\ Sorted(new) /\ ToSet(new) = ToSet(list) \ {list[i]}
<1>1. /\ new \in Seq(Block) /\ Len(new) = Len(list) - 1 /\ Len(list) \in Nat
      /\ \A j \in 1..(Len(list) - 1) : new[j] = IF j < i THEN list[j] ELSE list[j + 1]
  BY LenProperties DEF IsRemoved
<1>2. Sorted(new)
  <2>. SUFFICES ASSUME NEW m \in 1..Len(new), NEW n \in 1..Len(new), m < n
                PROVE  new[m].at < new[n].at
    BY DEF Sorted
  <2>1. PICK k : k = IF m < i THEN m ELSE m + 1
    OBVIOUS
  <2>2. PICK l : l = IF n < i THEN n ELSE n + 1
    OBVIOUS
  <2>3. k \in 1..Len(list) /\ l \in 1..Len(list) /\ k < l
    BY <1>1, <2>1, <2>2
  <2>4. new[m] = list[k] /\ new[n] = list[l]
    BY <1>1, <2>1, <2>2
  <2>. QED
    BY <2>3, <2>4 DEF Sorted
<1>3. ToSet(new) = ToSet(list) \ {list[i]}
  <2>1. ASSUME NEW x \in ToSet(new) PROVE x \in ToSet(list) /\ x # list[i]
    <3>1. PICK j \in 1..Len(new) : x = new[j]
      BY <1>1, ToSetFacts
    <3>2. PICK k : k = IF j < i THEN j ELSE j + 1
      OBVIOUS
    <3>3. k \in 1..Len(list) /\ x = list[k] /\ k # i
      BY <1>1, <3>1, <3>2
    <3>. QED
      BY <3>3, ToSetFacts, SortedApart
  <2>2. ASSUME NEW x \in ToSet(list), x # list[i] PROVE x \in ToSet(new)
    <3>1. PICK j \in 1..Len(list) : x = list[j]
      BY ToSetFacts
    <3>2. j # i
      BY <2>2, <3>1
    <3>3. PICK k : k = IF j < i THEN j ELSE j - 1
      OBVIOUS
    <3>4. k \in 1..Len(new) /\ x = new[k]
      BY <1>1, <3>1, <3>2, <3>3
    <3>. QED
      BY <1>1, <3>4, ToSetFacts
  <2>. QED
    BY <2>1, <2>2
<1>. QED
  BY <1>1, <1>2, <1>3

LEMMA Removed ==
  ASSUME NEW list \in Seq(Block), Sorted(list), NEW i \in 1..Len(list)
  PROVE  /\ RemoveAt(list, i) \in Seq(Block) /\ Sorted(RemoveAt(list, i))
         /\ ToSet(RemoveAt(list, i)) = ToSet(list) \ {list[i]}
<1>1. IsRemoved(RemoveAt(list, i), list, i)
  BY RemoveAtFacts DEF IsRemoved
<1>. QED
  BY <1>1, Gap

IsReplaced(new, list, i, b) ==
    /\ new \in Seq(Block) /\ Len(new) = Len(list)
    /\ \A j \in 1..Len(list) : new[j] = IF j = i THEN b ELSE list[j]

\* A block fits into the order in place of the i-th of the list.
FitsAt(list, i, b) ==
    \A j \in 1..Len(list) : (j < i => list[j].at < b.at) /\ (i < j => b.at < list[j].at)

LEMMA Exchange ==
  ASSUME NEW list \in Seq(Block), Sorted(list), NEW i \in 1..Len(list), NEW b \in Block,
         FitsAt(list, i, b), NEW new, IsReplaced(new, list, i, b)
  PROVE  new \in Seq(Block) /\ Sorted(new) /\ ToSet(new) = (ToSet(list) \ {list[i]}) \cup {b}
<1>1. /\ new \in Seq(Block) /\ Len(new) = Len(list) /\ Len(list) \in Nat
      /\ \A j \in 1..Len(list) : new[j] = IF j = i THEN b ELSE list[j]
  BY LenProperties DEF IsReplaced
<1>2. Sorted(new)
  <2>. SUFFICES ASSUME NEW m \in 1..Len(new), NEW n \in 1..Len(new), m < n
                PROVE  new[m].at < new[n].at
    BY DEF Sorted
  <2>1. CASE m # i /\ n # i
    BY <1>1, <2>1 DEF Sorted
  <2>2. CASE m = i
    BY <1>1, <2>2 DEF FitsAt
  <2>3. CASE n = i
    BY <1>1, <2>3 DEF FitsAt
  <2>. QED
    BY <2>1, <2>2, <2>3
<1>3. ToSet(new) = (ToSet(list) \ {list[i]}) \cup {b}
  <2>1. ASSUME NEW x \in ToSet(new) PROVE x \in (ToSet(list) \ {list[i]}) \cup {b}
    <3>1. PICK j \in 1..Len(new) : x = new[j]
      BY <1>1, ToSetFacts
    <3>2. CASE j = i
      BY <1>1, <3>1, <3>2
    <3>3. CASE j # i
      <4>1. x = list[j] /\ j \in 1..Len(list)
        BY <1>1, <3>1, <3>3
      <4>2. list[j] # list[i]
        BY <3>3, <4>1, SortedApart
      <4>. QED
        BY <4>1, <4>2, ToSetFacts
    <3>. QED
      BY <3>2, <3>3
  <2>2. ASSUME NEW x \in ToSet(list), x # list[i] PROVE x \in ToSet(new)
    <3>1. PICK j \in 1..Len(list) : x = list[j]
      BY ToSetFacts
    <3>2. x = new[j] /\ j \in 1..Len(new)
      BY <1>1, <2>2, <3>1
    <3>. QED
      BY <1>1, <3>2, ToSetFacts
  <2>3. b \in ToSet(new)
    <3>1. b = new[i] /\ i \in 1..Len(new)
      BY <1>1
    <3>. QED
      BY <1>1, <3>1, ToSetFacts
  <2>. QED
    BY <2>1, <2>2, <2>3
<1>. QED
  BY <1>1, <1>2, <1>3

LEMMA Replaced ==
  ASSUME NEW list \in Seq(Block), Sorted(list), NEW i \in 1..Len(list), NEW b \in Block,
         FitsAt(list, i, b)
  PROVE  /\ [list EXCEPT ![i] = b] \in Seq(Block) /\ Sorted([list EXCEPT ![i] = b])
         /\ Len([list EXCEPT ![i] = b]) = Len(list)
         /\ \A j \in 1..Len(list) : [list EXCEPT ![i] = b][j] = IF j = i THEN b ELSE list[j]
         /\ ToSet([list EXCEPT ![i] = b]) = (ToSet(list) \ {list[i]}) \cup {b}
<1>1. PICK new : new = [list EXCEPT ![i] = b]
  OBVIOUS
<1>2. IsReplaced(new, list, i, b)
  BY <1>1, ExceptSeq DEF IsReplaced
<1>3. new \in Seq(Block) /\ Sorted(new) /\ ToSet(new) = (ToSet(list) \ {list[i]}) \cup {b}
  BY <1>2, Exchange
<1>. QED
  BY <1>1, <1>2, <1>3 DEF IsReplaced

\* A block at addr fits into the order in front of the i-th of the list.
Fits(list, i, b) ==
    \A j \in 1..Len(list) : (j < i => list[j].at < b.at) /\ (i <= j => b.at < list[j].at)

IsInserted(new, list, i, b) ==
    /\ new \in Seq(Block) /\ Len(new) = Len(list) + 1
    /\ \A j \in 1..(Len(list) + 1) :
          new[j] = IF j < i THEN list[j] ELSE IF j = i THEN b ELSE list[j - 1]

LEMMA Spread ==
  ASSUME NEW list \in Seq(Block), Sorted(list), NEW i \in 1..(Len(list) + 1), NEW b \in Block,
         Fits(list, i, b), NEW new, IsInserted(new, list, i, b)
  PROVE  new \in Seq(Block) /\ Sorted(new) /\ ToSet(new) = ToSet(list) \cup {b}
<1>1. /\ new \in Seq(Block) /\ Len(new) = Len(list) + 1 /\ Len(list) \in Nat
      /\ \A j \in 1..(Len(list) + 1) :
            new[j] = IF j < i THEN list[j] ELSE IF j = i THEN b ELSE list[j - 1]
  BY LenProperties DEF IsInserted
<1>2. Sorted(new)
  <2>. SUFFICES ASSUME NEW m \in 1..Len(new), NEW n \in 1..Len(new), m < n
                PROVE  new[m].at < new[n].at
    BY DEF Sorted
  <2>1. CASE n < i
    <3>1. m \in 1..Len(list) /\ n \in 1..Len(list) /\ new[m] = list[m] /\ new[n] = list[n]
      BY <1>1, <2>1
    <3>. QED
      BY <3>1 DEF Sorted
  <2>2. CASE n = i
    <3>1. m \in 1..Len(list) /\ m < i /\ new[m] = list[m] /\ new[n] = b
      BY <1>1, <2>2
    <3>. QED
      BY <3>1 DEF Fits
  <2>3. CASE i < n /\ m < i
    <3>1. m \in 1..Len(list) /\ n - 1 \in 1..Len(list) /\ m < n - 1
          /\ new[m] = list[m] /\ new[n] = list[n - 1]
      BY <1>1, <2>3
    <3>. QED
      BY <3>1 DEF Sorted
  <2>4. CASE i < n /\ m = i
    <3>1. n - 1 \in 1..Len(list) /\ i <= n - 1 /\ new[m] = b /\ new[n] = list[n - 1]
      BY <1>1, <2>4
    <3>. QED
      BY <3>1 DEF Fits
  <2>5. CASE i < m
    <3>1. m - 1 \in 1..Len(list) /\ n - 1 \in 1..Len(list) /\ m - 1 < n - 1
          /\ new[m] = list[m - 1] /\ new[n] = list[n - 1]
      BY <1>1, <2>5
    <3>. QED
      BY <3>1 DEF Sorted
  <2>. QED
    BY <1>1, <2>1, <2>2, <2>3, <2>4, <2>5
<1>3. ToSet(new) = ToSet(list) \cup {b}
  <2>1. ASSUME NEW x \in ToSet(new) PROVE x \in ToSet(list) \cup {b}
    <3>1. PICK j \in 1..Len(new) : x = new[j]
      BY <1>1, ToSetFacts
    <3>2. x = b \/ \E k \in 1..Len(list) : x = list[k]
      BY <1>1, <3>1
    <3>. QED
      BY <3>2, ToSetFacts
  <2>2. ASSUME NEW x \in ToSet(list) PROVE x \in ToSet(new)
    <3>1. PICK j \in 1..Len(list) : x = list[j]
      BY ToSetFacts
    <3>2. PICK k : k = IF j < i THEN j ELSE j + 1
      OBVIOUS
    <3>3. x = new[k] /\ k \in 1..Len(new)
      BY <1>1, <3>1, <3>2
    <3>. QED
      BY <1>1, <3>3, ToSetFacts
  <2>3. b \in ToSet(new)
    <3>1. b = new[i] /\ i \in 1..Len(new)
      BY <1>1
    <3>. QED
      BY <1>1, <3>1, ToSetFacts
  <2>. QED
    BY <2>1, <2>2, <2>3
<1>. QED
  BY <1>1, <1>2, <1>3

LEMMA Inserted ==
  ASSUME NEW list \in Seq(Block), Sorted(list), NEW i \in 1..(Len(list) + 1), NEW b \in Block,
         Fits(list, i, b)
  PROVE  /\ InsertAt(list, i, b) \in Seq(Block) /\ Sorted(InsertAt(list, i, b))
         /\ ToSet(InsertAt(list, i, b)) = ToSet(list) \cup {b}
<1>1. IsInserted(InsertAt(list, i, b), list, i, b)
  BY InsertAtFacts DEF IsInserted
<1>. QED
  BY <1>1, Spread

LEMMA Appended ==
  ASSUME NEW list \in Seq(Block), Sorted(list), NEW b \in Block,
         \A j \in 1..Len(list) : list[j].at < b.at
  PROVE  /\ Append(list, b) \in Seq(Block) /\ Sorted(Append(list, b))
         /\ Len(Append(list, b)) = Len(list) + 1
         /\ Append(list, b)[Len(list) + 1] = b
         /\ ToSet(Append(list, b)) = ToSet(list) \cup {b}
<1>1. PICK new : new = Append(list, b)
  OBVIOUS
<1>2. /\ new \in Seq(Block) /\ Len(new) = Len(list) + 1 /\ Len(list) \in Nat
      /\ \A j \in 1..Len(list) : new[j] = list[j]
      /\ new[Len(list) + 1] = b
  BY <1>1, AppendProperties, LenProperties
<1>3. PICK i : i = Len(list) + 1
  OBVIOUS
<1>4. i \in 1..(Len(list) + 1) /\ Fits(list, i, b) /\ IsInserted(new, list, i, b)
  BY <1>2, <1>3 DEF Fits, IsInserted
<1>5. Sorted(new) /\ ToSet(new) = ToSet(list) \cup {b}
  BY <1>4, Spread
<1>. QED
  BY <1>1, <1>2, <1>5

LEMMA FrontIsRemoveAt ==
  ASSUME NEW list \in Seq(Block), list # <<>>, NEW b \in Block
  PROVE  /\ Len(list) \in 1..Len(list)
         /\ RemoveAt(list, Len(list)) = Front(list)
         /\ RemoveAt([list EXCEPT ![Len(list)] = b], Len(list)) = Front(list)
<1>1. Len(list) \in Nat \ {0}
  BY EmptySeq
<1>2. \A j \in 1..Len(list) : list[j] \in Block
  BY ElementOfSeq
<1>3. PICK front : front = SubSeq(list, 1, Len(list) - 1)
  OBVIOUS
<1>4. /\ front \in Seq(Block) /\ Len(front) = Len(list) - 1
      /\ \A j \in 1..(Len(list) - 1) : front[j] = list[j]
  <2>1. 1 \in Int /\ Len(list) - 1 \in Int /\ \A j \in 1..(Len(list) - 1) : list[j] \in Block
    BY <1>1, <1>2
  <2>2. /\ front \in Seq(Block)
        /\ Len(front) = IF 1 <= Len(list) - 1 THEN (Len(list) - 1) - 1 + 1 ELSE 0
        /\ \A j \in 1..((Len(list) - 1) - 1 + 1) : front[j] = list[1 + j - 1]
    BY <1>3, <2>1, SubSeqProperties
  <2>3. PICK n : n = Len(list) - 1
    OBVIOUS
  <2>4. n \in Nat /\ (n - 1) + 1 = n /\ (1 <= n => n - 1 + 1 = n) /\ (~(1 <= n) => n = 0)
    BY <1>1, <2>3
  <2>5. Len(front) = n
    BY <2>2, <2>3, <2>4
  <2>6. \A j \in 1..n : front[j] = list[j]
    <3>1. \A j \in 1..n : 1 + j - 1 = j
      BY <2>4
    <3>. QED
      BY <2>2, <2>3, <2>4, <3>1
  <2>. QED
    BY <2>2, <2>3, <2>5, <2>6
<1>5. ASSUME NEW s \in Seq(Block), Len(s) = Len(list), \A j \in 1..(Len(list) - 1) : s[j] = list[j]
      PROVE  RemoveAt(s, Len(list)) = front
  <2>1. PICK i : i = Len(list)
    OBVIOUS
  <2>2. PICK r : r = RemoveAt(s, i)
    OBVIOUS
  <2>3. i \in 1..Len(s)
    BY <1>1, <1>5, <2>1
  <2>4. /\ r \in Seq(Block) /\ Len(r) = Len(s) - 1
        /\ \A j \in 1..(Len(s) - 1) : r[j] = IF j < i THEN s[j] ELSE s[j + 1]
    BY <2>2, <2>3, RemoveAtFacts
  <2>5. Len(r) = Len(front) /\ \A j \in 1..Len(r) : r[j] = front[j]
    BY <1>1, <1>4, <1>5, <2>1, <2>4
  <2>. QED
    BY <1>4, <2>1, <2>2, <2>4, <2>5, SeqEqual
<1>6. PICK s : s = [list EXCEPT ![Len(list)] = b]
  OBVIOUS
<1>7. s \in Seq(Block) /\ Len(s) = Len(list) /\ \A j \in 1..(Len(list) - 1) : s[j] = list[j]
  BY <1>1, <1>6, ExceptSeq
<1>8. RemoveAt(s, Len(list)) = front
  BY <1>5, <1>7
<1>9. RemoveAt(list, Len(list)) = front
  BY <1>5
<1>10. front = Front(list)
  BY <1>3 DEF Front
<1>11. Len(list) \in 1..Len(list)
  BY <1>1
<1>. QED
  BY <1>6, <1>8, <1>9, <1>10, <1>11

-----------------------------------------------------------------------------
\* The blocks New cover x..y in place of the blocks Old.
Covers(New, x, y) ==
    /\ New \subseteq Block
    /\ \E n \in New : n.at = x
    /\ \A n \in New : x <= n.at /\ EndOf(n) <= y /\ (EndOf(n) = y \/ \E m \in New : EndOf(n) = m.at)
    /\ \A m, n \in New : m # n => Disjoint(m, n)

LEMMA Recut ==
  ASSUME NEW B, NEW e, Tiling(B, e), NEW Old \in SUBSET B, NEW New, NEW x \in Nat, NEW y \in Nat,
         x < y, Covers(New, x, y),
         \E o \in Old : o.at = x,
         \A o \in Old : x <= o.at /\ EndOf(o) <= y,
         \A b \in B \ Old : EndOf(b) <= x \/ y <= b.at,
         y \in Edges(B \ Old, e)
  PROVE  Tiling((B \ Old) \cup New, e)
<1>. DEFINE C == (B \ Old) \cup New
<1>1. e \in Nat /\ B \subseteq Block /\ C \subseteq Block
  BY DEF Tiling, Covers
<1>2. \A b \in Block : b.at \in Nat /\ EndOf(b) \in Nat /\ b.at < EndOf(b)
  BY BlockFacts
<1>3. MallocStart \in Nat
  BY MallocAssumption
<1>4. MallocStart <= x /\ y <= e
  <2>1. MallocStart <= x
    BY DEF Tiling
  <2>2. y <= e
    BY <1>1, <1>2 DEF Tiling, Edges
  <2>. QED
    BY <2>1, <2>2
<1>5. \A b \in B \ Old : b.at \in Edges(C, e)
  BY DEF Edges
<1>6. x \in Edges(C, e) /\ y \in Edges(C, e)
  BY DEF Covers, Edges
<1>7. \A z \in Edges(B, e) : z <= x \/ y <= z => z \in Edges(C, e)
  <2>. SUFFICES ASSUME NEW z \in Edges(B, e), z <= x \/ y <= z PROVE z \in Edges(C, e)
    OBVIOUS
  <2>1. CASE z = e
    BY <2>1 DEF Edges
  <2>2. CASE z # e
    <3>1. PICK b \in B : z = b.at
      BY <2>2 DEF Edges
    <3>2. CASE b \notin Old
      BY <1>5, <3>1, <3>2
    <3>3. CASE b \in Old
      <4>1. x <= z /\ z < y /\ z \in Nat
        BY <1>1, <1>2, <3>1, <3>3
      <4>2. z = x
        BY <2>1, <4>1
      <4>. QED
        BY <1>6, <4>2
    <3>. QED
      BY <3>2, <3>3
  <2>. QED
    BY <2>1, <2>2
<1>8. MallocStart \in Edges(C, e)
  BY <1>4, <1>7 DEF Tiling
<1>9. ASSUME NEW b \in C
      PROVE  MallocStart <= b.at /\ EndOf(b) <= e /\ EndOf(b) \in Edges(C, e)
  <2>1. CASE b \in B \ Old
    <3>1. EndOf(b) \in Edges(B, e) /\ MallocStart <= b.at /\ EndOf(b) <= e
      BY <2>1 DEF Tiling
    <3>2. EndOf(b) <= x \/ y <= EndOf(b)
      BY <1>1, <1>2, <2>1
    <3>. QED
      BY <1>7, <3>1, <3>2
  <2>2. CASE b \in New
    <3>1. x <= b.at /\ EndOf(b) <= y /\ (EndOf(b) = y \/ \E m \in New : EndOf(b) = m.at)
      BY <2>2 DEF Covers
    <3>2. EndOf(b) \in Edges(C, e)
      BY <1>6, <3>1 DEF Edges
    <3>. QED
      BY <1>1, <1>2, <1>3, <1>4, <3>1, <3>2
  <2>. QED
    BY <2>1, <2>2
<1>10. ASSUME NEW b \in C, NEW c \in C, b # c PROVE Disjoint(b, c)
  <2>1. CASE b \in B \ Old /\ c \in B \ Old
    BY <1>10, <2>1 DEF Tiling
  <2>2. CASE b \in New /\ c \in New
    BY <1>10, <2>2 DEF Covers
  <2>3. CASE b \in B \ Old /\ c \in New
    <3>1. (EndOf(b) <= x \/ y <= b.at) /\ x <= c.at /\ EndOf(c) <= y
      BY <2>3 DEF Covers
    <3>. QED
      BY <1>1, <1>2, <3>1 DEF Disjoint
  <2>4. CASE c \in B \ Old /\ b \in New
    <3>1. (EndOf(c) <= x \/ y <= c.at) /\ x <= b.at /\ EndOf(b) <= y
      BY <2>4 DEF Covers
    <3>. QED
      BY <1>1, <1>2, <3>1 DEF Disjoint
  <2>. QED
    BY <2>1, <2>2, <2>3, <2>4
<1>. QED
  BY <1>1, <1>8, <1>9, <1>10 DEF Tiling

\* One block is cut into several.
LEMMA Cut ==
  ASSUME NEW B, NEW e, Tiling(B, e), NEW b \in B, NEW New, Covers(New, b.at, EndOf(b))
  PROVE  Tiling((B \ {b}) \cup New, e)
<1>1. b \in Block /\ B \subseteq Block /\ \A c \in Block : c.at \in Nat /\ EndOf(c) \in Nat /\ c.at < EndOf(c)
  BY BlockFacts DEF Tiling
<1>2. PICK x : x = b.at
  OBVIOUS
<1>3. PICK y : y = EndOf(b)
  OBVIOUS
<1>4. \A c \in B \ {b} : EndOf(c) <= x \/ y <= c.at
  BY <1>2, <1>3 DEF Tiling, Disjoint
<1>5. y \in Edges(B \ {b}, e)
  <2>1. y \in Edges(B, e) /\ y # b.at
    BY <1>1, <1>3 DEF Tiling
  <2>. QED
    BY <2>1 DEF Edges
<1>6. PICK Old : Old = {b}
  OBVIOUS
<1>7. /\ Old \in SUBSET B /\ x \in Nat /\ y \in Nat /\ x < y /\ \E o \in Old : o.at = x
      /\ \A o \in Old : x <= o.at /\ EndOf(o) <= y
  BY <1>1, <1>2, <1>3, <1>6
<1>8. Tiling((B \ Old) \cup New, e)
  BY <1>2, <1>3, <1>4, <1>5, <1>6, <1>7, Recut
<1>. QED
  BY <1>6, <1>8

\* Two blocks that touch become one.
LEMMA Merge ==
  ASSUME NEW B, NEW e, Tiling(B, e), NEW b \in B, NEW c \in B, EndOf(b) = c.at
  PROVE  Tiling((B \ {b, c}) \cup {Entry(b.at, b.size + c.size)}, e)
<1>1. /\ b \in Block /\ c \in Block /\ B \subseteq Block
      /\ \A d \in Block : d.at \in Nat /\ EndOf(d) \in Nat /\ d.at < EndOf(d)
  BY BlockFacts DEF Tiling
<1>2. PICK x : x = b.at
  OBVIOUS
<1>3. PICK y : y = EndOf(c)
  OBVIOUS
<1>4. PICK n : n = Entry(b.at, b.size + c.size)
  OBVIOUS
<1>5. n \in Block /\ n.at = x /\ EndOf(n) = y
  <2>1. EndOf(c) = b.at + (b.size + c.size)
    BY <1>1, BlockFacts
  <2>2. b.size + c.size \in Nat /\ b.size + c.size >= 8 /\ (b.size + c.size) % 4 = 0
        /\ b.at \in Nat /\ b.at % 4 = 0
    BY <1>1, BlockFacts
  <2>. QED
    BY <1>2, <1>3, <1>4, <2>1, <2>2, EntryFacts
<1>6. ASSUME NEW d \in B \ {b, c} PROVE EndOf(d) <= x \/ y <= d.at
  <2>1. Disjoint(d, b) /\ Disjoint(d, c) /\ d \in Block
    BY <1>1 DEF Tiling
  <2>. QED
    BY <1>1, <1>2, <1>3, <2>1 DEF Disjoint
<1>7. y \in Edges(B \ {b, c}, e)
  <2>1. y \in Edges(B, e) /\ y # b.at /\ y # c.at
    BY <1>1, <1>3 DEF Tiling
  <2>. QED
    BY <2>1 DEF Edges
<1>8. PICK Old : Old = {b, c}
  OBVIOUS
<1>9. /\ Old \in SUBSET B /\ x \in Nat /\ y \in Nat /\ x < y /\ \E o \in Old : o.at = x
      /\ \A o \in Old : x <= o.at /\ EndOf(o) <= y
  BY <1>1, <1>2, <1>3, <1>8
<1>10. Covers({n}, x, y)
  BY <1>1, <1>5 DEF Covers
<1>11. Tiling((B \ Old) \cup {n}, e)
  BY <1>6, <1>7, <1>8, <1>9, <1>10, Recut
<1>. QED
  BY <1>4, <1>8, <1>11

\* The heap grows by a block.
LEMMA GrowNew ==
  ASSUME NEW B, NEW e, Tiling(B, e), NEW n \in Nat, n >= 8, n % 4 = 0
  PROVE  /\ Entry(e, n) \in Block /\ Entry(e, n) \notin B /\ Tiling(B \cup {Entry(e, n)}, e + n)
         /\ \A b \in B : EndOf(b) <= e /\ b.at < e
<1>1. B \subseteq Block /\ \A d \in Block : d.at \in Nat /\ EndOf(d) \in Nat /\ d.at < EndOf(d)
  BY BlockFacts DEF Tiling
<1>2. e \in Nat /\ e % 4 = 0 /\ MallocStart \in Nat /\ MallocStart <= e
  BY MallocAssumption DEF Tiling, WORD
<1>3. PICK m : m = Entry(e, n)
  OBVIOUS
<1>4. m \in Block /\ m.at = e /\ EndOf(m) = e + n
  BY <1>2, <1>3, EntryFacts
<1>5. \A b \in B : EndOf(b) <= e /\ b.at < e /\ MallocStart <= b.at
  BY <1>1, <1>2 DEF Tiling
<1>6. m \notin B
  BY <1>1, <1>2, <1>4, <1>5
<1>7. \A z \in Edges(B, e) : z \in Edges(B \cup {m}, e + n)
  BY <1>4 DEF Edges
<1>8. Tiling(B \cup {m}, e + n)
  <2>1. e + n \in Nat /\ (e + n) % WORD = 0 /\ MallocStart <= e + n
    BY <1>2 DEF WORD
  <2>2. MallocStart \in Edges(B \cup {m}, e + n)
    BY <1>7 DEF Tiling
  <2>3. ASSUME NEW b \in B \cup {m}
        PROVE  MallocStart <= b.at /\ EndOf(b) <= e + n /\ EndOf(b) \in Edges(B \cup {m}, e + n)
    <3>1. CASE b \in B
      <4>1. EndOf(b) \in Edges(B, e)
        BY <3>1 DEF Tiling
      <4>2. MallocStart <= b.at /\ EndOf(b) <= e /\ EndOf(b) \in Nat
        BY <1>1, <1>5, <3>1
      <4>3. EndOf(b) <= e + n
        BY <1>2, <4>2
      <4>. QED
        BY <1>7, <4>1, <4>2, <4>3
    <3>2. CASE b = m
      <4>1. e + n \in Edges(B \cup {m}, e + n)
        BY DEF Edges
      <4>. QED
        BY <1>2, <1>4, <3>2, <4>1
    <3>. QED
      BY <3>1, <3>2
  <2>4. \A b, c \in B \cup {m} : b # c => Disjoint(b, c)
    BY <1>4, <1>5 DEF Tiling, Disjoint
  <2>5. B \cup {m} \subseteq Block
    BY <1>1, <1>4
  <2>. QED
    BY <2>1, <2>2, <2>3, <2>4, <2>5 DEF Tiling
<1>. QED
  BY <1>3, <1>4, <1>5, <1>6, <1>8

\* The last block grows.
LEMMA GrowLast ==
  ASSUME NEW B, NEW e, Tiling(B, e), NEW b \in B, EndOf(b) = e,
         NEW n \in Nat, n >= b.size, n % 4 = 0
  PROVE  Entry(b.at, n) \in Block /\ Tiling((B \ {b}) \cup {Entry(b.at, n)}, b.at + n)
<1>1. b \in Block /\ B \subseteq Block /\ \A d \in Block : d.at \in Nat /\ EndOf(d) \in Nat /\ d.at < EndOf(d)
  BY BlockFacts DEF Tiling
<1>2. e \in Nat /\ e % 4 = 0 /\ MallocStart \in Nat /\ MallocStart <= e /\ MallocStart <= b.at
  BY MallocAssumption DEF Tiling, WORD
<1>3. b.at \in Nat /\ b.at % 4 = 0 /\ b.size \in Nat /\ b.size >= 8 /\ e = b.at + b.size
  BY <1>1, BlockFacts
<1>4. PICK m : m = Entry(b.at, n)
  OBVIOUS
<1>5. PICK f : f = b.at + n
  OBVIOUS
<1>6. m \in Block /\ m.at = b.at /\ EndOf(m) = f /\ f \in Nat /\ f % 4 = 0 /\ e <= f
  <2>1. n >= 8 /\ f \in Nat /\ f % 4 = 0 /\ e <= f
    BY <1>3, <1>5
  <2>. QED
    BY <1>3, <1>4, <1>5, <2>1, EntryFacts
<1>7. PICK C : C = (B \ {b}) \cup {m}
  OBVIOUS
<1>8. \A z \in Edges(B, e) : z # e => z \in Edges(C, f)
  BY <1>6, <1>7 DEF Edges
<1>9. \A c \in B \ {b} : EndOf(c) <= b.at
  <2>. SUFFICES ASSUME NEW c \in B \ {b} PROVE EndOf(c) <= b.at
    OBVIOUS
  <2>1. Disjoint(c, b) /\ EndOf(c) <= e /\ c \in Block
    BY <1>1 DEF Tiling
  <2>. QED
    BY <1>1, <1>2, <2>1 DEF Disjoint
<1>10. MallocStart \in Edges(C, f)
  <2>1. MallocStart # e
    BY <1>2, <1>3
  <2>. QED
    BY <1>8, <2>1 DEF Tiling
<1>11. ASSUME NEW c \in C
       PROVE  MallocStart <= c.at /\ EndOf(c) <= f /\ EndOf(c) \in Edges(C, f)
  <2>1. CASE c \in B \ {b}
    <3>1. EndOf(c) \in Edges(B, e) /\ MallocStart <= c.at /\ EndOf(c) <= b.at
      BY <1>9, <2>1 DEF Tiling
    <3>2. c \in Block /\ EndOf(c) # e /\ EndOf(c) <= f
      BY <1>1, <1>3, <1>6, <2>1, <3>1
    <3>. QED
      BY <1>8, <3>1, <3>2
  <2>2. CASE c = m
    <3>1. f \in Edges(C, f)
      BY DEF Edges
    <3>. QED
      BY <1>2, <1>6, <2>2, <3>1
  <2>. QED
    BY <1>7, <2>1, <2>2
<1>12. ASSUME NEW c \in C, NEW d \in C, c # d PROVE Disjoint(c, d)
  <2>1. CASE c \in B /\ d \in B
    BY <1>12, <2>1 DEF Tiling
  <2>2. CASE c \in B \ {b} /\ d = m
    BY <1>6, <1>9, <2>2 DEF Disjoint
  <2>3. CASE d \in B \ {b} /\ c = m
    BY <1>6, <1>9, <2>3 DEF Disjoint
  <2>. QED
    BY <1>7, <1>12, <2>1, <2>2, <2>3
<1>13. C \subseteq Block /\ f % WORD = 0 /\ MallocStart <= f
  BY <1>1, <1>2, <1>6, <1>7 DEF WORD
<1>14. Tiling(C, f)
  BY <1>6, <1>10, <1>11, <1>12, <1>13 DEF Tiling
<1>. QED
  BY <1>4, <1>5, <1>6, <1>7, <1>14

\* A set of numbers that is not empty has a least one.
LEMMA LeastOf ==
  ASSUME NEW S \in SUBSET Nat, S # {}
  PROVE  \E m \in S : \A k \in S : m <= k
<1>. DEFINE Upto(k) == 0..k
            T == {Upto(k) : k \in S}
            R == StrictSubsetOrdering(Nat)
<1>1. T \subseteq FiniteSubsetsOf(Nat)
  <2>1. \A k \in S : Upto(k) \subseteq Nat
    OBVIOUS
  <2>2. \A k \in S : IsFiniteSet(Upto(k))
    BY FS_Interval
  <2>. QED
    BY <2>1, <2>2 DEF FiniteSubsetsOf
<1>2. T # {}
  OBVIOUS
<1>3. PICK x \in T : \A y \in T : <<y, x>> \notin R
  BY <1>1, <1>2, FS_StrictSubsetOrderingWellFounded, WFMin, Zenon
<1>4. PICK m \in S : x = Upto(m)
  OBVIOUS
<1>5. ASSUME NEW k \in S, k < m PROVE FALSE
  <2>1. Upto(k) \subseteq Upto(m) /\ Upto(k) # Upto(m) /\ Upto(m) \subseteq Nat
    BY <1>5
  <2>2. <<Upto(k), Upto(m)>> \in R
    BY <2>1 DEF StrictSubsetOrdering
  <2>. QED
    BY <1>3, <1>4, <2>2
<1>. QED
  BY <1>5

LEMMA LeastFacts ==
  ASSUME NEW S \in SUBSET Nat, S # {}
  PROVE  Least(S) \in S /\ \A k \in S : Least(S) <= k
BY LeastOf DEF Least

-----------------------------------------------------------------------------
\* Blocks of a tiling are apart or the same.
LEMMA Apart ==
  ASSUME NEW F, NEW V, NEW e, Fair(F, V, e), NEW b \in F \cup V, NEW c \in F \cup V
  PROVE  /\ b \in Block /\ b.at \in Nat /\ EndOf(b) \in Nat /\ b.at < EndOf(b)
         /\ b = c \/ EndOf(b) <= c.at \/ EndOf(c) <= b.at
         /\ MallocStart <= b.at /\ EndOf(b) <= e
BY BlockFacts DEF Fair, Tiling, Disjoint

\* A free block becomes free blocks P and blocks in use Q.
LEMMA Split ==
  ASSUME NEW F, NEW V, NEW e, Fair(F, V, e), NEW b \in F, NEW P, NEW Q,
         Covers(P \cup Q, b.at, EndOf(b)),
         \A p, q \in P : EndOf(p) # q.at,
         \A p \in P, q \in Q : p.at # q.at
  PROVE  Fair((F \ {b}) \cup P, V \cup Q, e)
<1>. DEFINE F1 == (F \ {b}) \cup P
            V1 == V \cup Q
<1>1. \A d \in Block : d.at \in Nat /\ EndOf(d) \in Nat /\ d.at < EndOf(d)
  BY BlockFacts
<1>2. \A d \in P \cup Q : d \in Block /\ b.at <= d.at /\ EndOf(d) <= EndOf(b)
  BY DEF Covers
<1>3. b \in Block
  BY Apart
<1>4. \A d \in F \cup V : d \in Block /\ (d = b \/ EndOf(d) <= b.at \/ EndOf(b) <= d.at)
  BY Apart
<1>5. b \notin V
  BY DEF Fair
<1>6. ASSUME NEW f \in F1, NEW g \in F1 PROVE EndOf(f) # g.at
  <2>1. CASE f \in F /\ g \in F
    BY <2>1 DEF Fair
  <2>2. CASE f \in P /\ g \in P
    BY <2>2
  <2>3. CASE f \in F \ {b} /\ g \in P
    <3>1. EndOf(f) # b.at
      BY <2>3 DEF Fair
    <3>2. EndOf(f) <= b.at \/ EndOf(b) <= f.at
      BY <1>4, <2>3
    <3>3. f \in Block /\ g \in Block /\ b.at <= g.at /\ EndOf(g) <= EndOf(b)
      BY <1>2, <1>4, <2>3
    <3>. QED
      BY <1>1, <1>3, <3>1, <3>2, <3>3
  <2>4. CASE f \in P /\ g \in F \ {b}
    <3>1. EndOf(b) # g.at
      BY <2>4 DEF Fair
    <3>2. EndOf(g) <= b.at \/ EndOf(b) <= g.at
      BY <1>4, <2>4
    <3>3. f \in Block /\ g \in Block /\ b.at <= f.at /\ EndOf(f) <= EndOf(b)
      BY <1>2, <1>4, <2>4
    <3>. QED
      BY <1>1, <1>3, <3>1, <3>2, <3>3
  <2>. QED
    BY <2>1, <2>2, <2>3, <2>4
<1>7. ASSUME NEW f \in F1, NEW u \in V1 PROVE f.at # u.at
  <2>1. CASE f \in F /\ u \in V
    BY <2>1 DEF Fair
  <2>2. CASE f \in P /\ u \in Q
    BY <2>2
  <2>3. CASE f \in F \ {b} /\ u \in Q
    <3>1. EndOf(f) <= b.at \/ EndOf(b) <= f.at
      BY <1>4, <2>3
    <3>2. f \in Block /\ u \in Block /\ b.at <= u.at /\ EndOf(u) <= EndOf(b)
      BY <1>2, <1>4, <2>3
    <3>. QED
      BY <1>1, <1>3, <3>1, <3>2
  <2>4. CASE f \in P /\ u \in V
    <3>1. EndOf(u) <= b.at \/ EndOf(b) <= u.at
      BY <1>4, <1>5, <2>4
    <3>2. f \in Block /\ u \in Block /\ b.at <= f.at /\ EndOf(f) <= EndOf(b)
      BY <1>2, <1>4, <2>4
    <3>. QED
      BY <1>1, <1>3, <3>1, <3>2
  <2>. QED
    BY <2>1, <2>2, <2>3, <2>4
<1>8. Tiling(F1 \cup V1, e)
  <2>1. PICK B : B = F \cup V
    OBVIOUS
  <2>2. Tiling(B, e) /\ b \in B
    BY <2>1 DEF Fair
  <2>3. Tiling((B \ {b}) \cup (P \cup Q), e)
    BY <2>2, Cut
  <2>4. (B \ {b}) \cup (P \cup Q) = F1 \cup V1
    BY <1>5, <2>1
  <2>. QED
    BY <2>3, <2>4
<1>. QED
  BY <1>6, <1>7, <1>8 DEF Fair

\* The heap grows by a block in use.
LEMMA GrowUsed ==
  ASSUME NEW F, NEW V, NEW e, Fair(F, V, e), NEW n \in Nat, n >= 8, n % 4 = 0
  PROVE  Fair(F, V \cup {Entry(e, n)}, e + n)
<1>1. PICK B : B = F \cup V
  OBVIOUS
<1>2. PICK m : m = Entry(e, n)
  OBVIOUS
<1>3. Tiling(B, e)
  BY <1>1 DEF Fair
<1>4. Tiling(B \cup {m}, e + n) /\ \A b \in B : b.at < e
  BY <1>2, <1>3, GrowNew
<1>5. m.at = e /\ e \in Nat /\ \A b \in B : b.at \in Nat
  BY <1>2, <1>3, EntryFacts, BlockFacts DEF Tiling
<1>6. \A f \in F : f.at # m.at
  BY <1>1, <1>4, <1>5
<1>7. B \cup {m} = F \cup (V \cup {m})
  BY <1>1
<1>. QED
  BY <1>2, <1>4, <1>6, <1>7 DEF Fair

\* The heap grows by a free block.
LEMMA GrowFree ==
  ASSUME NEW F, NEW V, NEW e, Fair(F, V, e), \A f \in F : EndOf(f) # e,
         NEW n \in Nat, n >= 8, n % 4 = 0
  PROVE  Fair(F \cup {Entry(e, n)}, V, e + n) /\ \A f \in F : f.at < e
<1>1. PICK B : B = F \cup V
  OBVIOUS
<1>2. PICK m : m = Entry(e, n)
  OBVIOUS
<1>3. Tiling(B, e)
  BY <1>1 DEF Fair
<1>4. Tiling(B \cup {m}, e + n) /\ \A b \in B : b.at < e
  BY <1>2, <1>3, GrowNew
<1>5. m.at = e /\ EndOf(m) = e + n /\ e \in Nat /\ \A b \in B : b.at \in Nat
  BY <1>2, <1>3, EntryFacts, BlockFacts DEF Tiling
<1>6. \A u \in V : u.at # m.at
  BY <1>1, <1>4, <1>5
<1>7. B \cup {m} = (F \cup {m}) \cup V
  BY <1>1
<1>8. \A f \in F : EndOf(m) # f.at /\ EndOf(f) # m.at
  BY <1>1, <1>4, <1>5
<1>9. EndOf(m) # m.at
  BY <1>5
<1>. QED
  BY <1>1, <1>2, <1>4, <1>6, <1>7, <1>8, <1>9 DEF Fair

\* The last block, which is free, is made larger.
LEMMA GrowFreeLast ==
  ASSUME NEW F, NEW V, NEW e, Fair(F, V, e), NEW b \in F, EndOf(b) = e,
         NEW n \in Nat, n >= b.size, n % 4 = 0
  PROVE  Entry(b.at, n) \in Block /\ Fair((F \ {b}) \cup {Entry(b.at, n)}, V, b.at + n)
<1>1. PICK B : B = F \cup V
  OBVIOUS
<1>2. PICK m : m = Entry(b.at, n)
  OBVIOUS
<1>3. Tiling(B, e) /\ b \in B
  BY <1>1 DEF Fair
<1>4. m \in Block /\ Tiling((B \ {b}) \cup {m}, b.at + n)
  BY <1>2, <1>3, GrowLast
<1>5. m.at = b.at /\ EndOf(m) = b.at + n /\ b \in Block
  BY <1>2, EntryFacts, Apart
<1>6. b \notin V
  BY DEF Fair
<1>7. (B \ {b}) \cup {m} = ((F \ {b}) \cup {m}) \cup V
  BY <1>1, <1>6
<1>8. \A f \in F \ {b} : EndOf(f) <= b.at /\ f.at \in Nat /\ EndOf(f) \in Nat /\ f.at < EndOf(f)
  <2>. SUFFICES ASSUME NEW f \in F \ {b}
                PROVE  EndOf(f) <= b.at /\ f.at \in Nat /\ EndOf(f) \in Nat /\ f.at < EndOf(f)
    OBVIOUS
  <2>1. /\ f.at \in Nat /\ EndOf(f) \in Nat /\ f.at < EndOf(f) /\ EndOf(f) <= e
        /\ EndOf(f) <= b.at \/ EndOf(b) <= f.at
    BY Apart
  <2>2. e \in Nat
    BY DEF Fair, Tiling
  <2>. QED
    BY <2>1, <2>2
<1>9. b.at \in Nat /\ b.at < EndOf(m)
  BY <1>5, BlockFacts
<1>10. ASSUME NEW f \in (F \ {b}) \cup {m}, NEW g \in (F \ {b}) \cup {m} PROVE EndOf(f) # g.at
  <2>1. CASE f \in F \ {b} /\ g \in F \ {b}
    BY <2>1 DEF Fair
  <2>2. CASE f \in F \ {b} /\ g = m
    BY <1>5, <2>2 DEF Fair
  <2>3. CASE f = m /\ g \in F \ {b}
    BY <1>8, <1>9, <2>3
  <2>4. CASE f = m /\ g = m
    BY <1>5, <1>9, <2>4
  <2>. QED
    BY <2>1, <2>2, <2>3, <2>4
<1>11. \A f \in (F \ {b}) \cup {m}, u \in V : f.at # u.at
  BY <1>5 DEF Fair
<1>. QED
  BY <1>2, <1>4, <1>7, <1>10, <1>11 DEF Fair

\* A block in use is given back and touches no free block.
LEMMA BackAlone ==
  ASSUME NEW F, NEW V, NEW e, Fair(F, V, e), NEW b \in V,
         \A f \in F : EndOf(f) # b.at /\ EndOf(b) # f.at
  PROVE  Fair(F \cup {b}, V \ {b}, e)
<1>1. F \cup V = (F \cup {b}) \cup (V \ {b})
  OBVIOUS
<1>2. Tiling((F \cup {b}) \cup (V \ {b}), e)
  BY <1>1 DEF Fair
<1>3. b.at \in Nat /\ EndOf(b) \in Nat /\ b.at < EndOf(b)
  BY Apart
<1>4. \A f, g \in F \cup {b} : EndOf(f) # g.at
  BY <1>3 DEF Fair
<1>5. ASSUME NEW u \in V \ {b} PROVE b.at # u.at
  <2>1. /\ u.at \in Nat /\ EndOf(u) \in Nat /\ u.at < EndOf(u)
        /\ EndOf(u) <= b.at \/ EndOf(b) <= u.at
    BY Apart
  <2>. QED
    BY <1>3, <2>1
<1>6. \A f \in F \cup {b}, u \in V \ {b} : f.at # u.at
  BY <1>5 DEF Fair
<1>. QED
  BY <1>2, <1>4, <1>6 DEF Fair

\* It touches the free block p in front of it.
LEMMA BackAfter ==
  ASSUME NEW F, NEW V, NEW e, Fair(F, V, e), NEW b \in V, NEW p \in F, EndOf(p) = b.at,
         \A f \in F : EndOf(b) # f.at
  PROVE  /\ Entry(p.at, p.size + b.size) \in Block
         /\ Fair((F \ {p}) \cup {Entry(p.at, p.size + b.size)}, V \ {b}, e)
<1>1. PICK B : B = F \cup V
  OBVIOUS
<1>2. PICK m : m = Entry(p.at, p.size + b.size)
  OBVIOUS
<1>3. Tiling(B, e) /\ p \in B /\ b \in B
  BY <1>1 DEF Fair
<1>4. Tiling((B \ {p, b}) \cup {m}, e)
  BY <1>2, <1>3, Merge
<1>5. p \notin V /\ b \notin F
  BY DEF Fair
<1>6. (B \ {p, b}) \cup {m} = ((F \ {p}) \cup {m}) \cup (V \ {b})
  BY <1>1, <1>5
<1>7. p \in Block /\ b \in Block
  BY Apart
<1>8. m.at = p.at /\ EndOf(m) = EndOf(b)
  <2>1. m.at = p.at /\ EndOf(m) = p.at + (p.size + b.size)
    BY <1>2, EntryFacts
  <2>. QED
    BY <1>7, <2>1, BlockFacts
<1>9. p.at \in Nat /\ b.at \in Nat /\ p.at < EndOf(p) /\ EndOf(b) \in Nat /\ b.at < EndOf(b)
  BY Apart
<1>10. ASSUME NEW f \in (F \ {p}) \cup {m}, NEW g \in (F \ {p}) \cup {m} PROVE EndOf(f) # g.at
  <2>1. CASE f \in F \ {p} /\ g \in F \ {p}
    BY <2>1 DEF Fair
  <2>2. CASE f \in F \ {p} /\ g = m
    BY <1>8, <2>2 DEF Fair
  <2>3. CASE f = m /\ g \in F \ {p}
    BY <1>8, <2>3
  <2>4. CASE f = m /\ g = m
    BY <1>8, <1>9, <2>4
  <2>. QED
    BY <2>1, <2>2, <2>3, <2>4
<1>11. \A f \in (F \ {p}) \cup {m}, u \in V \ {b} : f.at # u.at
  BY <1>8 DEF Fair
<1>12. m \in Block
  BY <1>4 DEF Tiling
<1>. QED
  BY <1>2, <1>4, <1>6, <1>10, <1>11, <1>12 DEF Fair

\* It touches the free block s behind it.
LEMMA BackBefore ==
  ASSUME NEW F, NEW V, NEW e, Fair(F, V, e), NEW b \in V, NEW s \in F, EndOf(b) = s.at,
         \A f \in F : EndOf(f) # b.at
  PROVE  /\ Entry(b.at, b.size + s.size) \in Block
         /\ Fair((F \ {s}) \cup {Entry(b.at, b.size + s.size)}, V \ {b}, e)
<1>1. PICK B : B = F \cup V
  OBVIOUS
<1>2. PICK m : m = Entry(b.at, b.size + s.size)
  OBVIOUS
<1>3. Tiling(B, e) /\ s \in B /\ b \in B
  BY <1>1 DEF Fair
<1>4. Tiling((B \ {b, s}) \cup {m}, e)
  BY <1>2, <1>3, Merge
<1>5. s \notin V /\ b \notin F
  BY DEF Fair
<1>6. (B \ {b, s}) \cup {m} = ((F \ {s}) \cup {m}) \cup (V \ {b})
  BY <1>1, <1>5
<1>7. s \in Block /\ b \in Block
  BY Apart
<1>8. m.at = b.at /\ EndOf(m) = EndOf(s)
  <2>1. m.at = b.at /\ EndOf(m) = b.at + (b.size + s.size)
    BY <1>2, EntryFacts
  <2>. QED
    BY <1>7, <2>1, BlockFacts
<1>9. /\ s.at \in Nat /\ b.at \in Nat /\ s.at < EndOf(s) /\ EndOf(b) \in Nat /\ b.at < EndOf(b)
      /\ EndOf(s) \in Nat
  BY Apart
<1>10. ASSUME NEW f \in (F \ {s}) \cup {m}, NEW g \in (F \ {s}) \cup {m} PROVE EndOf(f) # g.at
  <2>1. CASE f \in F \ {s} /\ g \in F \ {s}
    BY <2>1 DEF Fair
  <2>2. CASE f \in F \ {s} /\ g = m
    BY <1>8, <2>2
  <2>3. CASE f = m /\ g \in F \ {s}
    BY <1>8, <2>3 DEF Fair
  <2>4. CASE f = m /\ g = m
    BY <1>8, <1>9, <2>4
  <2>. QED
    BY <2>1, <2>2, <2>3, <2>4
<1>11. ASSUME NEW u \in V \ {b} PROVE b.at # u.at
  <2>1. /\ u.at \in Nat /\ EndOf(u) \in Nat /\ u.at < EndOf(u)
        /\ EndOf(u) <= b.at \/ EndOf(b) <= u.at
    BY Apart
  <2>. QED
    BY <1>9, <2>1
<1>12. \A f \in (F \ {s}) \cup {m}, u \in V \ {b} : f.at # u.at
  BY <1>8, <1>11 DEF Fair
<1>13. m \in Block
  BY <1>4 DEF Tiling
<1>. QED
  BY <1>2, <1>4, <1>6, <1>10, <1>12, <1>13 DEF Fair

\* It closes the gap between the free blocks p and s.
LEMMA BackBetween ==
  ASSUME NEW F, NEW V, NEW e, Fair(F, V, e), NEW b \in V, NEW p \in F, NEW s \in F,
         EndOf(p) = b.at, EndOf(b) = s.at
  PROVE  /\ Entry(p.at, (p.size + b.size) + s.size) \in Block
         /\ Fair((F \ {p, s}) \cup {Entry(p.at, (p.size + b.size) + s.size)}, V \ {b}, e)
<1>1. PICK B : B = F \cup V
  OBVIOUS
<1>2. PICK m : m = Entry(p.at, p.size + b.size)
  OBVIOUS
<1>3. Tiling(B, e) /\ p \in B /\ b \in B /\ s \in B
  BY <1>1 DEF Fair
<1>4. PICK C : C = (B \ {p, b}) \cup {m}
  OBVIOUS
<1>5. Tiling(C, e)
  BY <1>2, <1>3, <1>4, Merge
<1>6. p \in Block /\ b \in Block /\ s \in Block
  BY Apart
<1>7. m.at = p.at /\ m.size = p.size + b.size /\ EndOf(m) = EndOf(b)
  <2>1. m.at = p.at /\ m.size = p.size + b.size /\ EndOf(m) = p.at + (p.size + b.size)
    BY <1>2, EntryFacts
  <2>. QED
    BY <1>6, <2>1, BlockFacts
<1>8. /\ p.at \in Nat /\ EndOf(p) \in Nat /\ p.at < EndOf(p)
      /\ b.at \in Nat /\ EndOf(b) \in Nat /\ b.at < EndOf(b)
      /\ s.at \in Nat /\ EndOf(s) \in Nat /\ s.at < EndOf(s)
  BY Apart
<1>9. p # s /\ b # s /\ m # s /\ m \in C /\ s \in C
  BY <1>3, <1>4, <1>7, <1>8
<1>10. PICK n : n = Entry(p.at, (p.size + b.size) + s.size)
  OBVIOUS
<1>11. Tiling((C \ {m, s}) \cup {n}, e)
  BY <1>5, <1>7, <1>9, <1>10, Merge
<1>12. p \notin V /\ b \notin F /\ s \notin V
  BY DEF Fair
<1>13. ASSUME NEW d \in F \cup V, d # p PROVE d # m
  <2>1. /\ d.at \in Nat /\ EndOf(d) \in Nat /\ d.at < EndOf(d)
        /\ EndOf(d) <= p.at \/ EndOf(p) <= d.at
    BY <1>13, Apart
  <2>. QED
    BY <1>7, <1>8, <2>1
<1>14. (C \ {m, s}) \cup {n} = ((F \ {p, s}) \cup {n}) \cup (V \ {b})
  BY <1>1, <1>4, <1>9, <1>12, <1>13
<1>15. n.at = p.at /\ EndOf(n) = EndOf(s)
  <2>1. n.at = p.at /\ EndOf(n) = p.at + ((p.size + b.size) + s.size)
    BY <1>10, EntryFacts
  <2>. QED
    BY <1>6, <2>1, BlockFacts
<1>16. ASSUME NEW f \in (F \ {p, s}) \cup {n}, NEW g \in (F \ {p, s}) \cup {n} PROVE EndOf(f) # g.at
  <2>1. CASE f \in F \ {p, s} /\ g \in F \ {p, s}
    BY <2>1 DEF Fair
  <2>2. CASE f \in F \ {p, s} /\ g = n
    BY <1>15, <2>2 DEF Fair
  <2>3. CASE f = n /\ g \in F \ {p, s}
    BY <1>15, <2>3 DEF Fair
  <2>4. CASE f = n /\ g = n
    BY <1>8, <1>15, <2>4
  <2>. QED
    BY <2>1, <2>2, <2>3, <2>4
<1>17. \A f \in (F \ {p, s}) \cup {n}, u \in V \ {b} : f.at # u.at
  BY <1>15 DEF Fair
<1>18. n \in Block
  BY <1>11 DEF Tiling
<1>. QED
  BY <1>10, <1>11, <1>14, <1>16, <1>17, <1>18 DEF Fair

LEMMA FreeFacts ==
  ASSUME NEW list, NEW V, NEW e, Good(list, V, e)
  PROVE  /\ list \in Seq(Block) /\ Sorted(list) /\ Len(list) \in Nat /\ DOMAIN list = 1..Len(list)
         /\ \A i \in 1..Len(list) :
               /\ list[i] \in ToSet(list) /\ list[i] \in Block
               /\ list[i].at \in Nat /\ EndOf(list[i]) \in Nat /\ list[i].at < EndOf(list[i])
         /\ \A i, j \in 1..Len(list) : i < j => EndOf(list[i]) < list[j].at
<1>1. /\ list \in Seq(Block) /\ Sorted(list) /\ Len(list) \in Nat /\ DOMAIN list = 1..Len(list)
      /\ \A i \in 1..Len(list) : list[i] \in ToSet(list) /\ list[i] \in Block
  BY LenProperties, ToSetFacts, ElementOfSeq DEF Good
<1>2. \A i \in 1..Len(list) :
         list[i].at \in Nat /\ EndOf(list[i]) \in Nat /\ list[i].at < EndOf(list[i])
  BY <1>1, BlockFacts
<1>3. ASSUME NEW i \in 1..Len(list), NEW j \in 1..Len(list), i < j
      PROVE  EndOf(list[i]) < list[j].at
  <2>1. PICK f : f = list[i]
    OBVIOUS
  <2>2. PICK g : g = list[j]
    OBVIOUS
  <2>3. f.at < g.at
    BY <1>1, <1>3, <2>1, <2>2 DEF Sorted
  <2>4. f \in ToSet(list) /\ g \in ToSet(list) /\ Fair(ToSet(list), V, e)
    BY <1>1, <2>1, <2>2 DEF Good
  <2>5. f = g \/ EndOf(f) <= g.at \/ EndOf(g) <= f.at
    BY <2>4, Apart
  <2>6. EndOf(f) # g.at
    BY <2>4 DEF Fair
  <2>. QED
    BY <1>2, <2>1, <2>2, <2>3, <2>5, <2>6
<1>. QED
  BY <1>1, <1>2, <1>3

\* The list walked by Joined, where it stops, and what it makes of the list.
LEMMA JoinedGood ==
  ASSUME NEW h, NEW V, NEW e, Good(h.free, V, e), NEW b \in V
  PROVE  Good(Joined(h, b), V \ {b}, e)
<1>. DEFINE list == h.free
            after(k) == EndOf(list[k]) = b.at
            before(k) == list[k].at = EndOf(b)
            stops == {k \in DOMAIN list : after(k) \/ before(k) \/ list[k].at > b.at}
            i == Least(stops)
            joined == Entry(list[i].at, list[i].size + b.size)
            both == i < Len(list) /\ EndOf(b) = list[i + 1].at
            F == ToSet(list)
<1>1. Joined(h, b) =
        IF stops = {} THEN Append(list, b)
        ELSE IF after(i)
        THEN IF both
             THEN RemoveAt([list EXCEPT ![i] = Entry(@.at, joined.size + list[i + 1].size)], i + 1)
             ELSE [list EXCEPT ![i] = joined]
        ELSE IF before(i) THEN [list EXCEPT ![i] = Entry(b.at, joined.size)]
        ELSE InsertAt(list, i, b)
  BY DEF Joined
<1>2. /\ list \in Seq(Block) /\ Sorted(list) /\ Len(list) \in Nat /\ DOMAIN list = 1..Len(list)
      /\ \A k \in 1..Len(list) :
            /\ list[k] \in F /\ list[k] \in Block
            /\ list[k].at \in Nat /\ EndOf(list[k]) \in Nat /\ list[k].at < EndOf(list[k])
      /\ \A k, j \in 1..Len(list) : k < j => EndOf(list[k]) < list[j].at
  BY FreeFacts
<1>3. Fair(F, V, e) /\ e <= Limit
  BY DEF Good
<1>4. b \in Block /\ b.at \in Nat /\ EndOf(b) \in Nat /\ b.at < EndOf(b) /\ b.size \in Nat
  BY <1>3, Apart, BlockFacts
<1>5. \A f \in F : f.at # b.at /\ (EndOf(f) <= b.at \/ EndOf(b) <= f.at)
  BY <1>3, Apart DEF Fair
<1>6. \A f \in F : \E k \in 1..Len(list) : f = list[k]
  BY <1>2, ToSetFacts
<1>7. ASSUME stops # {}
      PROVE  i \in 1..Len(list) /\ i \in stops /\ \A k \in stops : i <= k
  <2>1. stops \in SUBSET Nat /\ stops \subseteq 1..Len(list)
    BY <1>2
  <2>. HIDE DEF stops
  <2>2. i \in stops /\ \A k \in stops : i <= k
    BY <1>7, <2>1, LeastFacts
  <2>. QED
    BY <2>1, <2>2
<1>8. \A k \in 1..Len(list) : k \notin stops => list[k].at < b.at /\ ~after(k) /\ ~before(k)
  BY <1>2, <1>4, <1>5
<1>9. \A k \in stops : after(k) \/ before(k) \/ list[k].at > b.at
  OBVIOUS
<1>10. \A k \in 1..Len(list) : k \in stops <=> after(k) \/ before(k) \/ list[k].at > b.at
  BY <1>2
<1>. HIDE DEF list, stops, i
<1>11. CASE stops = {}
  <2>1. \A k \in 1..Len(list) : list[k].at < b.at
    BY <1>8, <1>11
  <2>2. Append(list, b) \in Seq(Block) /\ Sorted(Append(list, b)) /\ ToSet(Append(list, b)) = F \cup {b}
    BY <1>2, <1>4, <2>1, Appended
  <2>3. \A f \in F : EndOf(f) # b.at /\ EndOf(b) # f.at
    BY <1>6, <1>8, <1>11
  <2>4. Fair(F \cup {b}, V \ {b}, e)
    BY <1>3, <2>3, BackAlone
  <2>. QED
    BY <1>1, <1>3, <1>11, <2>2, <2>4 DEF Good
<1>12. CASE stops # {} /\ after(i)
  <2>1. PICK p : p = list[i]
    OBVIOUS
  <2>2. i \in 1..Len(list) /\ p \in F /\ EndOf(p) = b.at /\ p \in Block /\ joined = Entry(p.at, p.size + b.size)
    BY <1>2, <1>7, <1>12, <2>1
  <2>3. ASSUME NEW k \in 1..Len(list), EndOf(b) = list[k].at
        PROVE  i < Len(list) /\ k = i + 1
    <3>1. i < k
      <4>1. p.at < b.at /\ p.at \in Nat
        BY <1>2, <2>1, <2>2
      <4>2. k # i
        BY <1>4, <2>1, <2>3, <4>1
      <4>3. CASE k < i
        <5>1. EndOf(list[k]) < p.at /\ list[k].at < EndOf(list[k])
          BY <1>2, <2>1, <2>2, <4>3
        <5>. QED
          BY <1>2, <1>4, <2>3, <4>1, <5>1
      <4>. QED
        BY <1>2, <2>2, <4>2, <4>3
    <3>2. CASE i + 1 < k
      <4>1. i + 1 \in 1..Len(list)
        BY <1>2, <2>2, <3>2
      <4>2. PICK q : q = list[i + 1]
        OBVIOUS
      <4>3. b.at < q.at /\ EndOf(q) < EndOf(b) /\ q \in F /\ q.at \in Nat /\ EndOf(q) \in Nat /\ q.at < EndOf(q)
        BY <1>2, <2>1, <2>2, <2>3, <3>2, <4>1, <4>2
      <4>. QED
        BY <1>4, <1>5, <4>3
    <3>. QED
      BY <1>2, <2>2, <3>1, <3>2
  <2>4. CASE both
    <3>1. PICK j : j = i + 1
      OBVIOUS
    <3>2. PICK s : s = list[j]
      OBVIOUS
    <3>3. j \in 1..Len(list) /\ s \in F /\ EndOf(b) = s.at /\ s \in Block /\ i < j
      BY <1>2, <2>2, <2>4, <3>1, <3>2
    <3>4. PICK m : m = Entry(p.at, (p.size + b.size) + s.size)
      OBVIOUS
    <3>5. m \in Block /\ Fair((F \ {p, s}) \cup {m}, V \ {b}, e)
      BY <1>3, <2>2, <3>3, <3>4, BackBetween
    <3>6. m.at = p.at
      BY <3>4, EntryFacts
    <3>7. FitsAt(list, i, m)
      BY <1>2, <2>1, <2>2, <3>6 DEF FitsAt, Sorted
    <3>8. PICK new : new = [list EXCEPT ![i] = m]
      OBVIOUS
    <3>9. /\ new \in Seq(Block) /\ Sorted(new) /\ Len(new) = Len(list) /\ new[j] = s
          /\ ToSet(new) = (F \ {p}) \cup {m}
      <4>1. /\ new \in Seq(Block) /\ Sorted(new) /\ Len(new) = Len(list)
            /\ \A k \in 1..Len(list) : new[k] = IF k = i THEN m ELSE list[k]
            /\ ToSet(new) = (F \ {list[i]}) \cup {m}
        BY <1>2, <2>2, <3>5, <3>7, <3>8, Replaced
      <4>. QED
        BY <2>1, <2>2, <3>2, <3>3, <4>1
    <3>10. /\ RemoveAt(new, j) \in Seq(Block) /\ Sorted(RemoveAt(new, j))
           /\ ToSet(RemoveAt(new, j)) = ((F \ {p}) \cup {m}) \ {s}
      BY <3>3, <3>9, Removed
    <3>11. m # s
      BY <1>2, <2>1, <2>2, <3>2, <3>3, <3>6
    <3>12. ((F \ {p}) \cup {m}) \ {s} = (F \ {p, s}) \cup {m}
      BY <3>11
    <3>13. Joined(h, b) = RemoveAt(new, j)
      <4>1. joined.size = p.size + b.size
        BY <2>2, EntryFacts
      <4>2. Entry(list[i].at, joined.size + list[i + 1].size) = m
        BY <2>1, <3>1, <3>2, <3>4, <4>1
      <4>3. Joined(h, b) = RemoveAt([list EXCEPT ![i] = Entry(list[i].at, joined.size + list[i + 1].size)], i + 1)
        BY <1>1, <1>2, <1>12, <2>2, <2>4
      <4>. QED
        BY <3>1, <3>8, <4>2, <4>3
    <3>. QED
      BY <1>3, <3>5, <3>10, <3>12, <3>13 DEF Good
  <2>5. CASE ~both
    <3>1. \A f \in F : EndOf(b) # f.at
      BY <1>6, <2>3, <2>5
    <3>2. joined \in Block /\ Fair((F \ {p}) \cup {joined}, V \ {b}, e)
      BY <1>3, <2>2, <3>1, BackAfter
    <3>3. joined.at = p.at
      BY <2>2, EntryFacts
    <3>4. PICK m : m = joined
      OBVIOUS
    <3>5. m \in Block /\ m = joined /\ FitsAt(list, i, m)
      BY <1>2, <2>1, <2>2, <3>2, <3>3, <3>4 DEF FitsAt, Sorted
    <3>6. /\ [list EXCEPT ![i] = m] \in Seq(Block) /\ Sorted([list EXCEPT ![i] = m])
          /\ ToSet([list EXCEPT ![i] = m]) = (F \ {p}) \cup {m}
      <4>1. list \in Seq(Block) /\ Sorted(list) /\ i \in 1..Len(list)
        BY <1>2, <2>2
      <4>2. m \in Block /\ FitsAt(list, i, m)
        BY <3>5
      <4>3. PICK new : new = [list EXCEPT ![i] = m]
        OBVIOUS
      <4>4. new \in Seq(Block) /\ Sorted(new) /\ ToSet(new) = (F \ {list[i]}) \cup {m}
        BY <4>1, <4>2, <4>3, Replaced
      <4>. QED
        BY <2>1, <4>3, <4>4
    <3>7. Joined(h, b) = [list EXCEPT ![i] = m]
      BY <1>1, <1>12, <2>5, <3>5
    <3>. QED
      BY <1>3, <3>2, <3>5, <3>6, <3>7 DEF Good
  <2>. QED
    BY <2>4, <2>5
<1>13. CASE stops # {} /\ ~after(i) /\ before(i)
  <2>1. PICK s : s = list[i]
    OBVIOUS
  <2>2. i \in 1..Len(list) /\ s \in F /\ s.at = EndOf(b) /\ s \in Block
    BY <1>2, <1>7, <1>13, <2>1
  <2>3. ASSUME NEW k \in 1..Len(list), EndOf(list[k]) = b.at PROVE FALSE
    <3>1. k \in stops
      BY <1>10, <2>3
    <3>2. i < k
      BY <1>2, <1>7, <1>13, <2>2, <2>3, <3>1
    <3>3. EndOf(s) < list[k].at /\ list[k].at < EndOf(list[k]) /\ s.at < EndOf(s) /\ EndOf(s) \in Nat
      BY <1>2, <2>1, <2>2, <3>2
    <3>. QED
      BY <1>2, <1>4, <2>2, <2>3, <3>3
  <2>4. PICK m : m = Entry(b.at, b.size + s.size)
    OBVIOUS
  <2>5. \A f \in F : EndOf(f) # b.at
    BY <1>6, <2>3
  <2>6. m \in Block /\ Fair((F \ {s}) \cup {m}, V \ {b}, e)
    BY <1>3, <2>2, <2>4, <2>5, BackBefore
  <2>7. FitsAt(list, i, m)
    <3>. SUFFICES ASSUME NEW k \in 1..Len(list)
                  PROVE  (k < i => list[k].at < b.at) /\ (i < k => b.at < list[k].at)
      BY <2>4, EntryFacts DEF FitsAt
    <3>1. ASSUME k < i PROVE list[k].at < b.at
      <4>1. k \notin stops
        BY <1>7, <1>2, <1>13, <2>2, <3>1
      <4>. QED
        BY <1>8, <4>1
    <3>2. ASSUME i < k PROVE b.at < list[k].at
      <4>1. EndOf(s) < list[k].at /\ s.at < EndOf(s) /\ EndOf(s) \in Nat
        BY <1>2, <2>1, <2>2, <3>2
      <4>. QED
        BY <1>2, <1>4, <2>2, <4>1
    <3>. QED
      BY <3>1, <3>2
  <2>8. /\ [list EXCEPT ![i] = m] \in Seq(Block) /\ Sorted([list EXCEPT ![i] = m])
        /\ ToSet([list EXCEPT ![i] = m]) = (F \ {s}) \cup {m}
    BY <1>2, <2>1, <2>2, <2>6, <2>7, Replaced
  <2>9. Joined(h, b) = [list EXCEPT ![i] = m]
    <3>1. Joined(h, b) = [list EXCEPT ![i] = Entry(b.at, joined.size)]
      BY <1>1, <1>13
    <3>2. joined.size = s.size + b.size
      BY <2>1, EntryFacts
    <3>3. s.size + b.size = b.size + s.size
      BY <1>4, <2>2, BlockFacts
    <3>. QED
      BY <2>4, <3>1, <3>2, <3>3
  <2>. QED
    BY <1>3, <2>6, <2>8, <2>9 DEF Good
<1>14. CASE stops # {} /\ ~after(i) /\ ~before(i)
  <2>1. i \in 1..Len(list) /\ b.at < list[i].at
    BY <1>2, <1>4, <1>7, <1>9, <1>14
  <2>2. \A k \in 1..Len(list) : k < i => list[k].at < b.at /\ ~after(k) /\ ~before(k)
    BY <1>2, <1>7, <1>8, <1>14, <2>1
  <2>3. \A k \in 1..Len(list) : i < k => EndOf(list[i]) < list[k].at
    BY <1>2, <2>1
  <2>4. EndOf(b) < list[i].at
    BY <1>2, <1>4, <1>5, <1>14, <2>1
  <2>5. ASSUME NEW k \in 1..Len(list), i <= k PROVE EndOf(b) < list[k].at
    <3>1. CASE i = k
      BY <2>4, <3>1
    <3>2. CASE i < k
      BY <1>2, <1>4, <2>1, <2>3, <2>4, <3>2
    <3>. QED
      BY <1>2, <2>1, <2>5, <3>1, <3>2
  <2>6. Fits(list, i, b)
    BY <1>2, <1>4, <2>1, <2>2, <2>5 DEF Fits
  <2>7. ASSUME NEW f \in F PROVE EndOf(f) # b.at /\ EndOf(b) # f.at
    <3>1. PICK k \in 1..Len(list) : f = list[k]
      BY <1>6
    <3>2. CASE k < i
      BY <2>2, <3>1, <3>2
    <3>3. CASE i <= k
      BY <1>2, <1>4, <2>5, <3>1, <3>3
    <3>. QED
      BY <1>2, <2>1, <3>2, <3>3
  <2>8. Fair(F \cup {b}, V \ {b}, e)
    BY <1>3, <2>7, BackAlone
  <2>9. i \in 1..(Len(list) + 1)
    BY <1>2, <2>1
  <2>10. InsertAt(list, i, b) \in Seq(Block) /\ Sorted(InsertAt(list, i, b))
         /\ ToSet(InsertAt(list, i, b)) = F \cup {b}
    BY <1>2, <1>4, <2>6, <2>9, Inserted
  <2>11. Joined(h, b) = InsertAt(list, i, b)
    BY <1>1, <1>14
  <2>. QED
    BY <1>3, <2>8, <2>10, <2>11 DEF Good
<1>. QED
  BY <1>11, <1>12, <1>13, <1>14

-----------------------------------------------------------------------------
LEMMA Cutting ==
  ASSUME NEW b \in Block, NEW n \in Nat, n % 4 = 0, n >= 8, b.size - n >= 8
  PROVE  LET head == Entry(b.at, n)
             tail == Entry(b.at + n, b.size - n)
         IN  /\ head \in Block /\ head.at = b.at /\ EndOf(head) = b.at + n
             /\ tail \in Block /\ tail.at = b.at + n /\ EndOf(tail) = EndOf(b)
             /\ b.at \in Nat /\ b.at + n \in Nat /\ EndOf(b) \in Nat
             /\ b.at < b.at + n /\ b.at + n < EndOf(b)
<1>1. PICK x : x = b.at
  OBVIOUS
<1>2. PICK y : y = b.size
  OBVIOUS
<1>3. x \in Nat /\ y \in Nat /\ x % 4 = 0 /\ y % 4 = 0 /\ y - n >= 8 /\ EndOf(b) = x + y
  BY <1>1, <1>2, BlockFacts
<1>4. x + n \in Nat /\ (x + n) % 4 = 0 /\ y - n \in Nat /\ (x + n) + (y - n) = x + y
      /\ x < x + n /\ x + n < x + y /\ x + y \in Nat
  BY <1>3
<1>5. (y - n) % 4 = 0
  BY <1>3
<1>6. Entry(x, n) \in Block /\ Entry(x, n).at = x /\ EndOf(Entry(x, n)) = x + n
  BY <1>3, EntryFacts
<1>7. Entry(x + n, y - n) \in Block /\ Entry(x + n, y - n).at = x + n
      /\ EndOf(Entry(x + n, y - n)) = (x + n) + (y - n)
  BY <1>3, <1>4, <1>5, EntryFacts
<1>. QED
  BY <1>1, <1>2, <1>3, <1>4, <1>6, <1>7

\* The whole i-th block of the list is handed out.
LEMMA TakeWhole ==
  ASSUME NEW list, NEW V, NEW e, Good(list, V, e), NEW i \in 1..Len(list)
  PROVE  Good(RemoveAt(list, i), V \cup {list[i]}, e)
<1>1. PICK b : b = list[i]
  OBVIOUS
<1>2. PICK F : F = ToSet(list)
  OBVIOUS
<1>3. list \in Seq(Block) /\ Sorted(list) /\ b \in F /\ Fair(F, V, e) /\ e <= Limit
  BY <1>1, <1>2, FreeFacts DEF Good
<1>4. b \in Block /\ b.at \in Nat /\ EndOf(b) \in Nat /\ b.at < EndOf(b)
  BY <1>3, Apart
<1>5. Covers({} \cup {b}, b.at, EndOf(b))
  BY <1>4 DEF Covers
<1>6. Fair((F \ {b}) \cup {}, V \cup {b}, e)
  <2>1. PICK P : P = {}
    OBVIOUS
  <2>2. PICK Q : Q = {b}
    OBVIOUS
  <2>3. /\ Covers(P \cup Q, b.at, EndOf(b)) /\ \A p, q \in P : EndOf(p) # q.at
        /\ \A p \in P, q \in Q : p.at # q.at
    BY <1>5, <2>1, <2>2
  <2>4. Fair((F \ {b}) \cup P, V \cup Q, e)
    BY <1>3, <2>3, Split
  <2>. QED
    BY <2>1, <2>2, <2>4
<1>7. /\ RemoveAt(list, i) \in Seq(Block) /\ Sorted(RemoveAt(list, i))
      /\ ToSet(RemoveAt(list, i)) = F \ {b}
  BY <1>1, <1>2, <1>3, Removed
<1>8. (F \ {b}) \cup {} = F \ {b}
  OBVIOUS
<1>. QED
  BY <1>1, <1>3, <1>6, <1>7, <1>8 DEF Good

\* Its first part is handed out and the rest stays.
LEMMA TakeHead ==
  ASSUME NEW list, NEW V, NEW e, Good(list, V, e), NEW i \in 1..Len(list), NEW real \in Nat,
         real >= 8, real % 4 = 0, list[i].size - real >= 8
  PROVE  Good([list EXCEPT ![i] = Entry(list[i].at + real, list[i].size - real)],
              V \cup {Entry(list[i].at, real)}, e)
<1>1. PICK b : b = list[i]
  OBVIOUS
<1>2. PICK F : F = ToSet(list)
  OBVIOUS
<1>3. list \in Seq(Block) /\ Sorted(list) /\ b \in F /\ Fair(F, V, e) /\ e <= Limit
  BY <1>1, <1>2, FreeFacts DEF Good
<1>4. /\ b \in Block /\ b.at \in Nat /\ EndOf(b) \in Nat /\ b.at < EndOf(b)
      /\ b.size \in Nat /\ b.at % 4 = 0 /\ b.size % 4 = 0 /\ EndOf(b) = b.at + b.size
  BY <1>3, Apart, BlockFacts
<1>5. PICK m : m = Entry(b.at + real, b.size - real)
  OBVIOUS
<1>6. PICK u : u = Entry(b.at, real)
  OBVIOUS
<1>7. m \in Block /\ m.at = b.at + real /\ EndOf(m) = EndOf(b)
  BY <1>1, <1>4, <1>5, Cutting
<1>8. u \in Block /\ u.at = b.at /\ EndOf(u) = m.at
  BY <1>1, <1>4, <1>6, <1>7, Cutting
<1>9. b.at < m.at /\ m.at < EndOf(b) /\ m.at \in Nat
  BY <1>1, <1>4, <1>7, Cutting
<1>10. Covers({m} \cup {u}, b.at, EndOf(b))
  <2>1. Disjoint(m, u) /\ Disjoint(u, m)
    BY <1>8, <1>9 DEF Disjoint
  <2>2. \A n \in {m} \cup {u} : b.at <= n.at /\ EndOf(n) <= EndOf(b)
    BY <1>4, <1>7, <1>8, <1>9
  <2>3. \A n \in {m} \cup {u} : EndOf(n) = EndOf(b) \/ \E k \in {m} \cup {u} : EndOf(n) = k.at
    BY <1>7, <1>8
  <2>4. \A k, n \in {m} \cup {u} : k # n => Disjoint(k, n)
    BY <2>1
  <2>5. {m} \cup {u} \subseteq Block /\ \E n \in {m} \cup {u} : n.at = b.at
    BY <1>7, <1>8
  <2>. QED
    BY <2>2, <2>3, <2>4, <2>5 DEF Covers
<1>11. Fair((F \ {b}) \cup {m}, V \cup {u}, e)
  <2>1. PICK P : P = {m}
    OBVIOUS
  <2>2. PICK Q : Q = {u}
    OBVIOUS
  <2>3. /\ Covers(P \cup Q, b.at, EndOf(b)) /\ \A p, q \in P : EndOf(p) # q.at
        /\ \A p \in P, q \in Q : p.at # q.at
    <3>1. Covers(P \cup Q, b.at, EndOf(b))
      BY <1>10, <2>1, <2>2, Zenon
    <3>2. \A p, q \in P : EndOf(p) # q.at
      BY <1>4, <1>7, <1>9, <2>1
    <3>3. \A p \in P, q \in Q : p.at # q.at
      BY <1>4, <1>8, <1>9, <2>1, <2>2
    <3>. QED
      BY <3>1, <3>2, <3>3, Zenon
  <2>4. Fair((F \ {b}) \cup P, V \cup Q, e)
    BY <1>3, <2>3, Split
  <2>. QED
    BY <2>1, <2>2, <2>4
<1>12. FitsAt(list, i, m)
  <2>. SUFFICES ASSUME NEW j \in 1..Len(list)
                PROVE  (j < i => list[j].at < m.at) /\ (i < j => m.at < list[j].at)
    BY DEF FitsAt
  <2>1. list[j].at \in Nat /\ (j < i => list[j].at < b.at) /\ (i < j => EndOf(b) < list[j].at)
    BY <1>1, <1>3, FreeFacts DEF Sorted
  <2>. QED
    BY <1>4, <1>9, <2>1
<1>13. PICK new : new = [list EXCEPT ![i] = m]
  OBVIOUS
<1>14. new \in Seq(Block) /\ Sorted(new) /\ ToSet(new) = (F \ {b}) \cup {m}
  BY <1>1, <1>2, <1>3, <1>7, <1>12, <1>13, Replaced
<1>15. Good(new, V \cup {u}, e)
  BY <1>3, <1>11, <1>14 DEF Good
<1>. QED
  BY <1>1, <1>5, <1>6, <1>13, <1>15

\* Its last part is handed out, and what lies in front of it stays.
LEMMA TakeTail ==
  ASSUME NEW list, NEW V, NEW e, Good(list, V, e), NEW i \in 1..Len(list), NEW n \in Nat,
         n >= 8, n % 4 = 0, list[i].size - n >= 8
  PROVE  Good([list EXCEPT ![i] = Entry(list[i].at, n)],
              V \cup {Entry(list[i].at + n, list[i].size - n)}, e)
<1>1. PICK b : b = list[i]
  OBVIOUS
<1>2. PICK F : F = ToSet(list)
  OBVIOUS
<1>3. list \in Seq(Block) /\ Sorted(list) /\ b \in F /\ Fair(F, V, e) /\ e <= Limit
  BY <1>1, <1>2, FreeFacts DEF Good
<1>4. /\ b \in Block /\ b.at \in Nat /\ EndOf(b) \in Nat /\ b.at < EndOf(b)
      /\ b.size \in Nat /\ b.at % 4 = 0 /\ b.size % 4 = 0 /\ EndOf(b) = b.at + b.size
  BY <1>3, Apart, BlockFacts
<1>5. PICK u : u = Entry(b.at + n, b.size - n)
  OBVIOUS
<1>6. PICK m : m = Entry(b.at, n)
  OBVIOUS
<1>7. u \in Block /\ u.at = b.at + n /\ EndOf(u) = EndOf(b)
  BY <1>1, <1>4, <1>5, Cutting
<1>8. m \in Block /\ m.at = b.at /\ EndOf(m) = u.at
  BY <1>1, <1>4, <1>6, <1>7, Cutting
<1>9. b.at < u.at /\ u.at < EndOf(b) /\ u.at \in Nat
  BY <1>1, <1>4, <1>7, Cutting
<1>10. Covers({m} \cup {u}, b.at, EndOf(b))
  <2>1. Disjoint(m, u) /\ Disjoint(u, m)
    BY <1>8, <1>9 DEF Disjoint
  <2>2. \A k \in {m} \cup {u} : b.at <= k.at /\ EndOf(k) <= EndOf(b)
    BY <1>4, <1>7, <1>8, <1>9
  <2>3. \A j \in {m} \cup {u} : EndOf(j) = EndOf(b) \/ \E k \in {m} \cup {u} : EndOf(j) = k.at
    BY <1>7, <1>8
  <2>4. \A j, k \in {m} \cup {u} : j # k => Disjoint(j, k)
    BY <2>1
  <2>5. {m} \cup {u} \subseteq Block /\ \E k \in {m} \cup {u} : k.at = b.at
    BY <1>7, <1>8
  <2>. QED
    BY <2>2, <2>3, <2>4, <2>5 DEF Covers
<1>11. Fair((F \ {b}) \cup {m}, V \cup {u}, e)
  <2>1. PICK P : P = {m}
    OBVIOUS
  <2>2. PICK Q : Q = {u}
    OBVIOUS
  <2>3. /\ Covers(P \cup Q, b.at, EndOf(b)) /\ \A p, q \in P : EndOf(p) # q.at
        /\ \A p \in P, q \in Q : p.at # q.at
    <3>1. EndOf(m) # m.at /\ m.at # u.at
      BY <1>4, <1>8, <1>9
    <3>. QED
      BY <1>10, <2>1, <2>2, <3>1
  <2>4. Fair((F \ {b}) \cup P, V \cup Q, e)
    BY <1>3, <2>3, Split
  <2>. QED
    BY <2>1, <2>2, <2>4
<1>12. FitsAt(list, i, m)
  BY <1>1, <1>3, <1>8 DEF FitsAt, Sorted
<1>13. PICK new : new = [list EXCEPT ![i] = m]
  OBVIOUS
<1>14. new \in Seq(Block) /\ Sorted(new) /\ ToSet(new) = (F \ {b}) \cup {m}
  <2>1. m \in Block
    BY <1>8
  <2>2. new \in Seq(Block) /\ Sorted(new) /\ ToSet(new) = (ToSet(list) \ {list[i]}) \cup {m}
    BY <1>3, <1>12, <1>13, <2>1, Replaced
  <2>. QED
    BY <1>1, <1>2, <2>2
<1>15. Good(new, V \cup {u}, e)
  BY <1>3, <1>11, <1>14 DEF Good
<1>. QED
  BY <1>1, <1>5, <1>6, <1>13, <1>15

\* A part from the middle is handed out: what lies on both sides stays.
LEMMA TakeMiddle ==
  ASSUME NEW list, NEW V, NEW e, Good(list, V, e), NEW i \in 1..Len(list), NEW n \in Nat,
         n >= 8, n % 4 = 0, NEW real \in Nat, real >= 8, real % 4 = 0,
         (list[i].size - n) - real >= 8
  PROVE  Good(InsertAt([list EXCEPT ![i] = Entry(list[i].at, n)], i + 1,
                       Entry((list[i].at + n) + real, (list[i].size - n) - real)),
              V \cup {Entry(list[i].at + n, real)}, e)
<1>1. PICK b : b = list[i]
  OBVIOUS
<1>2. PICK F : F = ToSet(list)
  OBVIOUS
<1>3. list \in Seq(Block) /\ Sorted(list) /\ b \in F /\ Fair(F, V, e) /\ e <= Limit
  BY <1>1, <1>2, FreeFacts DEF Good
<1>4. /\ b \in Block /\ b.at \in Nat /\ EndOf(b) \in Nat /\ b.at < EndOf(b)
      /\ b.size \in Nat /\ b.at % 4 = 0 /\ b.size % 4 = 0 /\ EndOf(b) = b.at + b.size
  BY <1>3, Apart, BlockFacts
<1>5. PICK m : m = Entry(b.at, n)
  OBVIOUS
<1>6. PICK t : t = Entry(b.at + n, b.size - n)
  OBVIOUS
<1>7. PICK u : u = Entry(t.at, real)
  OBVIOUS
<1>8. PICK r : r = Entry(t.at + real, t.size - real)
  OBVIOUS
<1>9. b.size - n >= 8
  BY <1>1, <1>4
<1>10. /\ m \in Block /\ m.at = b.at /\ EndOf(m) = b.at + n
       /\ t \in Block /\ t.at = b.at + n /\ EndOf(t) = EndOf(b) /\ b.at < b.at + n
       /\ t.at \in Nat /\ t.size = b.size - n
  <2>1. m \in Block /\ m.at = b.at /\ EndOf(m) = b.at + n
    BY <1>4, <1>5, <1>9, Cutting
  <2>2. t \in Block /\ t.at = b.at + n /\ EndOf(t) = EndOf(b)
    BY <1>4, <1>6, <1>9, Cutting
  <2>3. t.size = b.size - n
    BY <1>6, EntryFacts, Zenon
  <2>4. b.at < b.at + n /\ b.at + n \in Nat
    BY <1>4
  <2>. QED
    BY <2>1, <2>2, <2>3, <2>4, Zenon
<1>11. t.size - real >= 8
  BY <1>1, <1>10
<1>12. /\ u \in Block /\ u.at = t.at /\ EndOf(u) = t.at + real
       /\ r \in Block /\ r.at = t.at + real /\ EndOf(r) = EndOf(t)
       /\ t.at < t.at + real /\ t.at + real < EndOf(t) /\ t.at + real \in Nat
  BY <1>7, <1>8, <1>10, <1>11, Cutting
<1>13. /\ m.at = b.at /\ EndOf(m) = u.at /\ EndOf(u) = r.at /\ EndOf(r) = EndOf(b)
       /\ m.at < u.at /\ u.at < r.at /\ r.at < EndOf(b)
       /\ m.at \in Nat /\ u.at \in Nat /\ r.at \in Nat /\ EndOf(b) \in Nat
  BY <1>4, <1>10, <1>12
<1>14. Covers({m, r} \cup {u}, b.at, EndOf(b))
  <2>1. {m, r} \cup {u} \subseteq Block /\ \E k \in {m, r} \cup {u} : k.at = b.at
    BY <1>10, <1>12
  <2>2. \A k \in {m, r} \cup {u} : b.at <= k.at /\ EndOf(k) <= EndOf(b)
    BY <1>13
  <2>3. \A j \in {m, r} \cup {u} : EndOf(j) = EndOf(b) \/ \E k \in {m, r} \cup {u} : EndOf(j) = k.at
    BY <1>13
  <2>4. /\ Disjoint(m, u) /\ Disjoint(u, m) /\ Disjoint(m, r) /\ Disjoint(r, m)
        /\ Disjoint(u, r) /\ Disjoint(r, u)
    BY <1>13 DEF Disjoint
  <2>5. \A j, k \in {m, r} \cup {u} : j # k => Disjoint(j, k)
    BY <2>4
  <2>. QED
    BY <2>1, <2>2, <2>3, <2>5 DEF Covers
<1>15. Fair((F \ {b}) \cup {m, r}, V \cup {u}, e)
  <2>1. PICK P : P = {m, r}
    OBVIOUS
  <2>2. PICK Q : Q = {u}
    OBVIOUS
  <2>3. EndOf(m) # m.at /\ EndOf(m) # r.at /\ EndOf(r) # m.at /\ EndOf(r) # r.at
        /\ m.at # u.at /\ r.at # u.at
    BY <1>13
  <2>4. /\ Covers(P \cup Q, b.at, EndOf(b)) /\ \A p, q \in P : EndOf(p) # q.at
        /\ \A p \in P, q \in Q : p.at # q.at
    BY <1>14, <2>1, <2>2, <2>3
  <2>5. Fair((F \ {b}) \cup P, V \cup Q, e)
    BY <1>3, <2>4, Split
  <2>. QED
    BY <2>1, <2>2, <2>5
<1>16. /\ Len(list) \in Nat
       /\ \A j \in 1..Len(list) :
            list[j].at \in Nat /\ (j < i => list[j].at < b.at) /\ (i < j => EndOf(b) < list[j].at)
  BY <1>1, <1>3, FreeFacts DEF Sorted
<1>17. FitsAt(list, i, m)
  BY <1>1, <1>3, <1>10 DEF FitsAt, Sorted
<1>18. PICK mid : mid = [list EXCEPT ![i] = m]
  OBVIOUS
<1>19. /\ mid \in Seq(Block) /\ Sorted(mid) /\ Len(mid) = Len(list)
       /\ \A j \in 1..Len(list) : mid[j] = IF j = i THEN m ELSE list[j]
       /\ ToSet(mid) = (ToSet(list) \ {list[i]}) \cup {m}
  <2>1. m \in Block
    BY <1>10
  <2>2. mid \in Seq(Block) /\ Sorted(mid) /\ ToSet(mid) = (ToSet(list) \ {list[i]}) \cup {m}
    BY <1>3, <1>17, <1>18, <2>1, Replaced
  <2>3. Len(mid) = Len(list) /\ \A j \in 1..Len(list) : mid[j] = IF j = i THEN m ELSE list[j]
    BY <1>3, <1>18, <2>1, ExceptSeq
  <2>. QED
    BY <2>2, <2>3
<1>20. PICK k : k = i + 1
  OBVIOUS
<1>21. k \in 1..(Len(mid) + 1)
  BY <1>16, <1>19, <1>20
<1>22. Fits(mid, k, r)
  <2>. SUFFICES ASSUME NEW j \in 1..Len(mid)
                PROVE  (j < k => mid[j].at < r.at) /\ (k <= j => r.at < mid[j].at)
    BY DEF Fits
  <2>1. CASE j < i
    <3>1. mid[j] = list[j] /\ list[j].at < b.at /\ list[j].at \in Nat /\ j < k
      BY <1>16, <1>19, <1>20, <2>1
    <3>. QED
      BY <1>13, <1>16, <1>19, <1>20, <2>1, <3>1
  <2>2. CASE j = i
    <3>1. mid[j] = m /\ ~(k <= j)
      BY <1>16, <1>19, <1>20, <2>2
    <3>. QED
      BY <1>13, <3>1
  <2>3. CASE i < j
    <3>1. mid[j] = list[j] /\ EndOf(b) < list[j].at /\ list[j].at \in Nat /\ ~(j < k)
      BY <1>16, <1>19, <1>20, <2>3
    <3>. QED
      BY <1>13, <3>1
  <2>. QED
    BY <1>16, <1>19, <2>1, <2>2, <2>3
<1>23. PICK new : new = InsertAt(mid, k, r)
  OBVIOUS
<1>24. new \in Seq(Block) /\ Sorted(new) /\ ToSet(new) = ToSet(mid) \cup {r}
  BY <1>12, <1>19, <1>21, <1>22, <1>23, Inserted
<1>25. ToSet(new) = (F \ {b}) \cup {m, r}
  BY <1>1, <1>2, <1>19, <1>24
<1>26. Good(new, V \cup {u}, e)
  BY <1>3, <1>15, <1>24, <1>25 DEF Good
<1>27. u = Entry(b.at + n, real) /\ r = Entry((b.at + n) + real, (b.size - n) - real)
  BY <1>7, <1>8, <1>10
<1>. QED
  BY <1>1, <1>5, <1>18, <1>20, <1>23, <1>26, <1>27

\* The heap grows by a block that is handed out.
LEMMA TakeNew ==
  ASSUME NEW list, NEW V, NEW e, Good(list, V, e), NEW n \in Nat, n >= 8, n % 4 = 0, e + n <= Limit
  PROVE  Good(list, V \cup {Entry(e, n)}, e + n)
BY GrowUsed DEF Good

\* The last block of the heap, which is free, is made larger.
LEMMA Enlarged ==
  ASSUME NEW list, NEW V, NEW e, Good(list, V, e), list # <<>>, EndOf(Last(list)) = e,
         NEW n \in Nat, n >= list[Len(list)].size, n % 4 = 0, list[Len(list)].at + n <= Limit
  PROVE  /\ Len(list) \in 1..Len(list) /\ Entry(list[Len(list)].at, n) \in Block
         /\ Good([list EXCEPT ![Len(list)] = Entry(list[Len(list)].at, n)], V,
                 list[Len(list)].at + n)
<1>1. PICK i : i = Len(list)
  OBVIOUS
<1>2. PICK b : b = list[i]
  OBVIOUS
<1>3. PICK F : F = ToSet(list)
  OBVIOUS
<1>4. list \in Seq(Block) /\ Sorted(list) /\ Fair(F, V, e)
  BY <1>3 DEF Good
<1>5. i \in 1..Len(list) /\ i \in Nat
  BY <1>1, <1>4, EmptySeq
<1>6. b \in F /\ EndOf(b) = e
  BY <1>1, <1>2, <1>3, <1>5, FreeFacts DEF Last
<1>7. PICK m : m = Entry(b.at, n)
  OBVIOUS
<1>8. m \in Block /\ Fair((F \ {b}) \cup {m}, V, b.at + n)
  <2>1. n >= b.size
    BY <1>1, <1>2
  <2>. QED
    BY <1>4, <1>6, <1>7, <2>1, GrowFreeLast
<1>9. m.at = b.at
  BY <1>7, EntryFacts
<1>10. FitsAt(list, i, m)
  BY <1>2, <1>4, <1>5, <1>9 DEF FitsAt, Sorted
<1>11. PICK new : new = [list EXCEPT ![i] = m]
  OBVIOUS
<1>12. new \in Seq(Block) /\ Sorted(new) /\ ToSet(new) = (ToSet(list) \ {list[i]}) \cup {m}
  <2>1. m \in Block
    BY <1>8
  <2>. QED
    BY <1>4, <1>5, <1>10, <1>11, <2>1, Replaced
<1>13. b.at + n <= Limit
  BY <1>1, <1>2
<1>14. ToSet(new) = (F \ {b}) \cup {m}
  BY <1>2, <1>3, <1>12
<1>15. Good(new, V, b.at + n)
  BY <1>8, <1>12, <1>13, <1>14 DEF Good
<1>. QED
  BY <1>1, <1>2, <1>5, <1>7, <1>8, <1>11, <1>15

\* The heap grows by a block for the end of the free list.
LEMMA Lengthened ==
  ASSUME NEW list, NEW V, NEW e, Good(list, V, e), ~(list # <<>> /\ EndOf(Last(list)) = e),
         NEW n \in Nat, n >= 8, n % 4 = 0, e + n <= Limit
  PROVE  /\ Good(Append(list, Entry(e, n)), V, e + n)
         /\ Len(Append(list, Entry(e, n))) = Len(list) + 1
         /\ Append(list, Entry(e, n))[Len(list) + 1] = Entry(e, n)
         /\ \A j \in 1..Len(list) : Append(list, Entry(e, n))[j] = list[j]
<1>1. PICK F : F = ToSet(list)
  OBVIOUS
<1>2. list \in Seq(Block) /\ Sorted(list) /\ Fair(F, V, e) /\ Len(list) \in Nat
  BY <1>1, LenProperties DEF Good
<1>3. PICK m : m = Entry(e, n)
  OBVIOUS
<1>4. ASSUME NEW f \in F PROVE EndOf(f) # e
  <2>1. PICK j \in 1..Len(list) : f = list[j]
    BY <1>1, <1>2, ToSetFacts
  <2>2. PICK k : k = Len(list)
    OBVIOUS
  <2>3. k \in 1..Len(list) /\ list # <<>>
    BY <1>2, <2>1, <2>2, EmptySeq
  <2>4. EndOf(list[k]) # e
    BY <2>2, <2>3 DEF Last
  <2>5. CASE j = k
    BY <2>1, <2>4, <2>5
  <2>6. CASE j # k
    <3>1. j < k
      BY <1>2, <2>2, <2>6
    <3>2. EndOf(f) < list[k].at /\ list[k].at < EndOf(list[k]) /\ list[k] \in F
          /\ EndOf(f) \in Nat /\ list[k].at \in Nat
      BY <1>1, <2>1, <2>3, <3>1, FreeFacts
    <3>3. EndOf(list[k]) <= e /\ EndOf(list[k]) \in Nat
      BY <1>2, <3>2, Apart
    <3>4. e \in Nat
      BY <1>2 DEF Fair, Tiling
    <3>. QED
      BY <3>2, <3>3, <3>4
  <2>. QED
    BY <2>5, <2>6
<1>5. Fair(F \cup {m}, V, e + n) /\ \A f \in F : f.at < e
  BY <1>2, <1>3, <1>4, GrowFree
<1>6. m \in Block /\ m.at = e
  BY <1>3, <1>5, EntryFacts DEF Fair, Tiling
<1>7. \A j \in 1..Len(list) : list[j].at < m.at
  BY <1>1, <1>2, <1>5, <1>6, ToSetFacts
<1>8. PICK new : new = Append(list, m)
  OBVIOUS
<1>9. /\ new \in Seq(Block) /\ Sorted(new) /\ Len(new) = Len(list) + 1 /\ new[Len(list) + 1] = m
      /\ ToSet(new) = ToSet(list) \cup {m}
  BY <1>2, <1>6, <1>7, <1>8, Appended
<1>10. \A j \in 1..Len(list) : new[j] = list[j]
  BY <1>2, <1>6, <1>8, AppendProperties
<1>11. Good(new, V, e + n)
  BY <1>1, <1>5, <1>9 DEF Good
<1>. QED
  BY <1>3, <1>8, <1>9, <1>10, <1>11

-----------------------------------------------------------------------------
\* Numbers: the sizes and alignments of the code.
LEMMA RealSize ==
  ASSUME NEW sz \in Nat
  PROVE  REAL_SIZE(sz) \in Nat /\ REAL_SIZE(sz) >= 8 /\ REAL_SIZE(sz) % 4 = 0 /\ REAL_SIZE(sz) >= sz + 4
BY DEF REAL_SIZE, M_ALIGN, FLE, WORD

\* x = align * q + r with r below align.
LEMMA Division ==
  ASSUME NEW x \in Int, NEW align \in Nat \ {0}
  PROVE  \E q \in Int : x = align * q + (x % align) /\ x % align \in Nat /\ x % align < align
<1>1. x \div align \in Int /\ x % align \in Nat
  OBVIOUS
<1>2. x % align < align
  OBVIOUS
<1>3. x = align * (x \div align) + (x % align)
  OBVIOUS
<1>. QED
  BY <1>1, <1>2, <1>3

LEMMA NoMultiple ==
  ASSUME NEW a \in Nat \ {0}, NEW k \in Int, NEW s \in Nat, s < a, a * k = s
  PROVE  s = 0
<1>1. CASE k >= 1
  <2>1. a * k >= a
    BY <1>1
  <2>. QED
    BY <2>1
<1>2. CASE k <= -1
  <2>1. a * k <= -a
    BY <1>2
  <2>. QED
    BY <2>1
<1>3. CASE k = 0
  BY <1>3
<1>. QED
  BY <1>1, <1>2, <1>3

LEMMA Multiple ==
  ASSUME NEW a \in Nat \ {0}, NEW p \in Int
  PROVE  (a * p) % a = 0
<1>1. PICK x : x = a * p
  OBVIOUS
<1>2. x \in Int
  BY <1>1
<1>3. PICK q \in Int : x = a * q + (x % a) /\ x % a \in Nat /\ x % a < a
  BY <1>2, Division
<1>4. PICK s : s = x % a
  OBVIOUS
<1>5. a * (p - q) = s
  BY <1>1, <1>3, <1>4
<1>6. PICK k : k = p - q
  OBVIOUS
<1>7. s = 0
  BY <1>3, <1>4, <1>5, <1>6, NoMultiple
<1>. QED
  BY <1>1, <1>4, <1>7

\* M_ALIGN is the distance to the next multiple.
LEMMA Aligned ==
  ASSUME NEW x \in Int, NEW align \in Nat \ {0}
  PROVE  M_ALIGN(x, align) \in Nat /\ (x + M_ALIGN(x, align)) % align = 0
<1>1. PICK y : y = -x
  OBVIOUS
<1>2. y \in Int
  BY <1>1
<1>3. PICK q \in Int : y = align * q + (y % align) /\ y % align \in Nat /\ y % align < align
  BY <1>2, Division
<1>4. PICK r : r = y % align
  OBVIOUS
<1>5. x + r = align * (-q)
  BY <1>1, <1>3, <1>4
<1>6. PICK p : p = -q
  OBVIOUS
<1>7. (align * p) % align = 0 /\ p \in Int
  BY <1>6, Multiple
<1>. QED
  BY <1>1, <1>3, <1>4, <1>5, <1>6, <1>7 DEF M_ALIGN

\* The distance of a multiple of the word size is one.
LEMMA AlignedWord ==
  ASSUME NEW x \in Int, x % 4 = 0, NEW align \in Aligns
  PROVE  M_ALIGN(x, align) % 4 = 0
<1>1. align \in Nat \ {0} /\ (align \in {1, 2} \/ align % 4 = 0)
  BY MallocAssumption DEF WORD
<1>2. CASE align \in {1, 2}
  BY <1>2 DEF M_ALIGN
<1>3. CASE align % 4 = 0
  <2>1. PICK k \in Int : align = 4 * k
    BY <1>1, <1>3
  <2>2. PICK y : y = -x
    OBVIOUS
  <2>3. PICK q \in Int : y = align * q + (y % align) /\ y % align \in Nat
    <3>1. y \in Int
      BY <2>2
    <3>. QED
      BY <1>1, <3>1, Division
  <2>4. PICK r : r = y % align
    OBVIOUS
  <2>5. PICK p : p = k * q
    OBVIOUS
  <2>6. p \in Int /\ align * q = 4 * p
    BY <2>1, <2>5
  <2>7. r \in Nat /\ y = 4 * p + r
    BY <2>3, <2>4, <2>6
  <2>8. r % 4 = 0
    BY <2>2, <2>6, <2>7
  <2>. QED
    BY <2>2, <2>4, <2>8 DEF M_ALIGN
<1>. QED
  BY <1>1, <1>2, <1>3

\* What stays in front of the aligned chunk is nothing or holds a list entry.
LEMMA Before ==
  ASSUME NEW b \in Block, NEW align \in Aligns
  PROVE  LET n == BeforeSize(b, align)
         IN  /\ n \in Nat /\ n % 4 = 0 /\ (n = 0 \/ n >= 8)
             /\ ((b.at + n) + WORD) % align = 0
<1>1. align \in Nat \ {0}
  BY MallocAssumption
<1>2. b.at \in Nat /\ b.at % 4 = 0
  BY BlockFacts
<1>3. CASE M_ALIGN(b.at + WORD, align) = 0
  <2>1. BeforeSize(b, align) = 0
    BY <1>3 DEF BeforeSize
  <2>2. PICK x : x = b.at + WORD
    OBVIOUS
  <2>3. x \in Int
    BY <1>2, <2>2 DEF WORD
  <2>4. M_ALIGN(x, align) = 0 /\ (x + M_ALIGN(x, align)) % align = 0
    BY <1>1, <1>3, <2>2, <2>3, Aligned
  <2>5. (b.at + 0) + WORD = x /\ x + 0 = x
    BY <1>2, <2>2, <2>3
  <2>. QED
    BY <2>1, <2>4, <2>5
<1>4. CASE M_ALIGN(b.at + WORD, align) # 0
  <2>1. PICK x : x = b.at + FLE + WORD
    OBVIOUS
  <2>2. x \in Int /\ x % 4 = 0
    BY <1>2, <2>1 DEF FLE, WORD
  <2>3. PICK r : r = M_ALIGN(x, align)
    OBVIOUS
  <2>4. r \in Nat /\ (x + r) % align = 0 /\ r % 4 = 0
    BY <1>1, <2>2, <2>3, Aligned, AlignedWord
  <2>5. BeforeSize(b, align) = 8 + r
    BY <1>4, <2>1, <2>3 DEF BeforeSize, FLE
  <2>6. (b.at + (8 + r)) + WORD = x + r
    BY <1>2, <2>1, <2>4 DEF FLE, WORD
  <2>7. 8 + r \in Nat /\ (8 + r) % 4 = 0 /\ 8 + r >= 8
    BY <2>4
  <2>. QED
    BY <2>4, <2>5, <2>6, <2>7
<1>. QED
  BY <1>3, <1>4

-----------------------------------------------------------------------------
\* An address inside a free block, or at the end of the heap, is in no use.
LEMMA Inside ==
  ASSUME NEW list, NEW V, NEW e, Good(list, V, e), NEW i \in 1..Len(list), NEW x \in Nat,
         list[i].at <= x, x < EndOf(list[i])
  PROVE  \A u \in V : u.at # x
<1>1. PICK f : f = list[i]
  OBVIOUS
<1>2. f \in ToSet(list) /\ Fair(ToSet(list), V, e)
  BY <1>1, FreeFacts DEF Good
<1>. SUFFICES ASSUME NEW u \in V PROVE u.at # x
  OBVIOUS
<1>3. /\ f.at \in Nat /\ EndOf(f) \in Nat /\ u.at \in Nat /\ EndOf(u) \in Nat /\ u.at < EndOf(u)
      /\ f = u \/ EndOf(f) <= u.at \/ EndOf(u) <= f.at
  BY <1>2, Apart
<1>4. f # u
  BY <1>2 DEF Fair
<1>. QED
  BY <1>1, <1>3, <1>4

LEMMA Outside ==
  ASSUME NEW list, NEW V, NEW e, Good(list, V, e)
  PROVE  \A u \in V : u.at # e
<1>1. Fair(ToSet(list), V, e)
  BY DEF Good
<1>2. \A u \in V : u.at \in Nat /\ EndOf(u) \in Nat /\ u.at < EndOf(u) /\ EndOf(u) <= e
  BY <1>1, Apart
<1>3. e \in Nat
  BY <1>1 DEF Fair, Tiling
<1>. QED
  BY <1>2, <1>3

LEMMA UseFacts ==
  ASSUME NEW h, HeapOK(h)
  PROVE  /\ \A a \in DOMAIN h.used :
               /\ UsedBlock(h, a) \in InUse(h) /\ UsedBlock(h, a) \in Block
               /\ UsedBlock(h, a).at = a /\ UsedBlock(h, a).size = h.used[a].size
               /\ a \in Nat /\ h.used[a].size \in Nat /\ h.used[a].size % 4 = 0 /\ a % 4 = 0
         /\ \A u \in InUse(h) : u.at \in DOMAIN h.used /\ u = UsedBlock(h, u.at)
         /\ Good(h.free, InUse(h), h.end)
<1>1. Good(h.free, InUse(h), h.end)
  BY DEF HeapOK
<1>2. \A u \in InUse(h) : u \in Block
  BY <1>1 DEF Good, Fair, Tiling
<1>3. ASSUME NEW a \in DOMAIN h.used
      PROVE  /\ UsedBlock(h, a) \in InUse(h) /\ UsedBlock(h, a) \in Block
             /\ UsedBlock(h, a).at = a /\ UsedBlock(h, a).size = h.used[a].size
             /\ a \in Nat /\ h.used[a].size \in Nat /\ h.used[a].size % 4 = 0 /\ a % 4 = 0
  <2>1. UsedBlock(h, a) \in InUse(h)
    BY DEF InUse
  <2>2. UsedBlock(h, a).at = a /\ UsedBlock(h, a).size = h.used[a].size
    BY EntryFacts DEF UsedBlock
  <2>3. UsedBlock(h, a) \in Block
    BY <1>2, <2>1
  <2>4. /\ UsedBlock(h, a).at \in Nat /\ UsedBlock(h, a).size \in Nat
        /\ UsedBlock(h, a).at % 4 = 0 /\ UsedBlock(h, a).size % 4 = 0
    BY <2>3, BlockFacts
  <2>. QED
    BY <2>1, <2>2, <2>3, <2>4
<1>4. ASSUME NEW u \in InUse(h) PROVE u.at \in DOMAIN h.used /\ u = UsedBlock(h, u.at)
  <2>1. PICK a \in DOMAIN h.used : u = UsedBlock(h, a)
    BY DEF InUse
  <2>. QED
    BY <1>3, <2>1
<1>. QED
  BY <1>1, <1>3, <1>4

\* The block b can be handed out if that leaves the free list and the end given.
CanGet(h, list, e, b, sz, align) ==
    /\ b \in Block /\ sz \in Sizes /\ align \in Aligns \cup {WORD}
    /\ Good(list, InUse(h) \cup {b}, e)
    /\ \A u \in InUse(h) : u.at # b.at
    /\ b.size >= sz + 4 /\ (b.at + WORD) % align = 0

\* A heap that is left well-formed, with all that was in use still in use.
Leaves(h, k) == HeapOK(k) /\ \A a \in DOMAIN h.used : a \in DOMAIN k.used

LEMMA GotOK ==
  ASSUME NEW h, HeapOK(h), NEW list, NEW e, NEW b, NEW sz, NEW align,
         CanGet(h, list, e, b, sz, align),
         NEW g, g = [free |-> list, used |-> h.used, end |-> e]
  PROVE  Leaves(h, Got(g, b, sz, align).heap)
<1>0. /\ b \in Block /\ sz \in Sizes /\ align \in Aligns \cup {WORD}
      /\ Good(list, InUse(h) \cup {b}, e)
      /\ \A u \in InUse(h) : u.at # b.at
      /\ b.size >= sz + 4 /\ (b.at + WORD) % align = 0
  BY DEF CanGet
<1>1. PICK rec : rec = [size |-> b.size, asked |-> sz, align |-> align]
  OBVIOUS
<1>2. PICK used : used = [a \in DOMAIN h.used \cup {b.at} |-> IF a = b.at THEN rec ELSE h.used[a]]
  OBVIOUS
<1>3. PICK k : k = Got(g, b, sz, align).heap
  OBVIOUS
<1>4. k = [free |-> list, used |-> used, end |-> e]
  <2>1. g.used = h.used
    OBVIOUS
  <2>2. k = [g EXCEPT !.used = used]
    BY <1>1, <1>2, <1>3, <2>1 DEF Got
  <2>. QED
    BY <2>2
<1>5. /\ DOMAIN used = DOMAIN h.used \cup {b.at}
      /\ used = [a \in DOMAIN used |-> used[a]]
      /\ used[b.at] = rec
      /\ \A a \in DOMAIN h.used : a # b.at => used[a] = h.used[a]
  BY <1>2
<1>6. b.at \notin DOMAIN h.used
  BY <1>0, UseFacts
<1>7. b.size \in Nat /\ b = [at |-> b.at, size |-> b.size]
  BY <1>0, BlockFacts
<1>8. rec \in UsedRec /\ rec.size = b.size /\ rec.asked = sz /\ rec.align = align
  BY <1>0, <1>1, <1>7 DEF UsedRec
<1>9. sz \in Nat
  BY <1>0, MallocAssumption
<1>10. \A a \in DOMAIN used : /\ used[a] \in UsedRec
                              /\ used[a].size - WORD >= used[a].asked
                              /\ (a + WORD) % used[a].align = 0
  <2>. SUFFICES ASSUME NEW a \in DOMAIN used
                PROVE  /\ used[a] \in UsedRec
                       /\ used[a].size - WORD >= used[a].asked
                       /\ (a + WORD) % used[a].align = 0
    OBVIOUS
  <2>1. CASE a = b.at
    <3>1. used[a] = rec
      BY <1>5, <2>1
    <3>2. b.size - WORD >= sz
      BY <1>0, <1>7, <1>9 DEF WORD
    <3>. QED
      BY <1>0, <1>8, <2>1, <3>1, <3>2
  <2>2. CASE a # b.at
    <3>1. a \in DOMAIN h.used /\ used[a] = h.used[a]
      BY <1>5, <2>2
    <3>. QED
      BY <3>1 DEF HeapOK
  <2>. QED
    BY <2>1, <2>2
<1>11. InUse(k) = InUse(h) \cup {b}
  <2>1. \A a \in DOMAIN h.used : UsedBlock(k, a) = UsedBlock(h, a)
    BY <1>4, <1>5, <1>6 DEF UsedBlock
  <2>2. UsedBlock(k, b.at) = b
    BY <1>4, <1>5, <1>7, <1>8 DEF UsedBlock, Entry
  <2>3. DOMAIN k.used = DOMAIN h.used \cup {b.at}
    BY <1>4, <1>5
  <2>. QED
    BY <2>1, <2>2, <2>3 DEF InUse
<1>12. k.free = list /\ k.used = used /\ k.end = e
  BY <1>4
<1>13. HeapOK(k)
  BY <1>0, <1>4, <1>5, <1>10, <1>11, <1>12 DEF HeapOK
<1>. QED
  BY <1>3, <1>5, <1>12, <1>13 DEF Leaves

LEMMA FreeOK ==
  ASSUME NEW h, HeapOK(h), NEW a \in DOMAIN h.used
  PROVE  HeapOK(free(h, a))
<1>1. PICK b : b = UsedBlock(h, a)
  OBVIOUS
<1>2. b \in InUse(h) /\ b.at = a /\ Good(h.free, InUse(h), h.end)
  BY <1>1, UseFacts
<1>3. PICK used : used = [x \in DOMAIN h.used \ {a} |-> h.used[x]]
  OBVIOUS
<1>4. PICK list : list = Joined(h, b)
  OBVIOUS
<1>5. PICK k : k = free(h, a)
  OBVIOUS
<1>6. k = [free |-> list, used |-> used, end |-> h.end]
  <2>1. h = [free |-> h.free, used |-> h.used, end |-> h.end]
    BY DEF HeapOK
  <2>2. k = [h EXCEPT !.free = list, !.used = used]
    BY <1>1, <1>3, <1>4, <1>5 DEF free
  <2>. QED
    BY <2>1, <2>2
<1>7. k.free = list /\ k.used = used /\ k.end = h.end
  BY <1>6
<1>8. DOMAIN used = DOMAIN h.used \ {a} /\ \A x \in DOMAIN used : used[x] = h.used[x]
  BY <1>3
<1>9. Good(list, InUse(h) \ {b}, h.end)
  BY <1>2, <1>4, JoinedGood
<1>10. InUse(k) = InUse(h) \ {b}
  <2>1. \A x \in DOMAIN used : UsedBlock(k, x) = UsedBlock(h, x)
    BY <1>7, <1>8 DEF UsedBlock
  <2>2. \A x \in DOMAIN used : UsedBlock(h, x).at = x /\ UsedBlock(h, x) \in InUse(h)
    BY <1>8, UseFacts
  <2>3. \A u \in InUse(h) : u.at \in DOMAIN h.used /\ u = UsedBlock(h, u.at)
    BY UseFacts
  <2>4. ASSUME NEW u \in InUse(k) PROVE u \in InUse(h) \ {b}
    <3>1. PICK x \in DOMAIN used : u = UsedBlock(k, x)
      BY <1>7 DEF InUse
    <3>. QED
      BY <1>2, <1>8, <2>1, <2>2, <3>1
  <2>5. ASSUME NEW u \in InUse(h), u # b PROVE u \in InUse(k)
    <3>1. u.at \in DOMAIN used /\ u = UsedBlock(h, u.at)
      BY <1>1, <1>8, <2>3, <2>5
    <3>2. u = UsedBlock(k, u.at)
      BY <2>1, <3>1
    <3>. QED
      BY <1>7, <3>1, <3>2 DEF InUse
  <2>. QED
    BY <2>4, <2>5
<1>11. \A x \in DOMAIN used : /\ used[x] \in UsedRec
                              /\ used[x].size - WORD >= used[x].asked
                              /\ (x + WORD) % used[x].align = 0
  BY <1>8 DEF HeapOK
<1>12. used = [x \in DOMAIN used |-> used[x]]
  BY <1>3
<1>13. HeapOK(k)
  BY <1>6, <1>7, <1>9, <1>10, <1>11, <1>12 DEF HeapOK
<1>. QED
  BY <1>5, <1>13

-----------------------------------------------------------------------------
\* Block i leaves the list, in part or as a whole, and is handed out.
LEMMA CutOK ==
  ASSUME NEW h, HeapOK(h), NEW i \in 1..Len(h.free), NEW sz \in Sizes,
         NEW real, real = REAL_SIZE(sz), h.free[i].size >= real,
         NEW whole, ~whole => h.free[i].size - real >= 8,
         NEW align \in Aligns \cup {WORD}, (h.free[i].at + WORD) % align = 0
  PROVE  Leaves(h, Got(CutAt(h, i, real, whole), Kept(h.free[i], real, whole), sz, align).heap)
<1>1. PICK b : b = h.free[i]
  OBVIOUS
<1>2. Good(h.free, InUse(h), h.end) /\ h = [free |-> h.free, used |-> h.used, end |-> h.end]
  BY DEF HeapOK
<1>3. b \in Block /\ b.at \in Nat /\ EndOf(b) \in Nat /\ b.at < EndOf(b)
  BY <1>1, <1>2, FreeFacts
<1>4. \A u \in InUse(h) : u.at # b.at
  BY <1>1, <1>2, <1>3, Inside
<1>5. sz \in Nat
  BY MallocAssumption
<1>6. real \in Nat /\ real >= 8 /\ real % 4 = 0 /\ real >= sz + 4
  BY <1>5, RealSize
<1>7. CASE whole
  <2>1. PICK list : list = RemoveAt(h.free, i)
    OBVIOUS
  <2>2. Good(list, InUse(h) \cup {b}, h.end)
    BY <1>1, <1>2, <2>1, TakeWhole
  <2>3. PICK g : g = CutAt(h, i, real, whole)
    OBVIOUS
  <2>4. g = [free |-> list, used |-> h.used, end |-> h.end]
    <3>1. g = [h EXCEPT !.free = list]
      BY <1>7, <2>1, <2>3 DEF CutAt
    <3>. QED
      BY <1>2, <3>1
  <2>5. Kept(b, real, whole) = b
    BY <1>3, <1>7, BlockFacts DEF Kept, Entry
  <2>6. b.size >= sz + 4
    BY <1>1, <1>3, <1>5, <1>6, BlockFacts
  <2>7. CanGet(h, list, h.end, b, sz, align)
    <3>1. (b.at + WORD) % align = 0
      BY <1>1
    <3>. QED
      BY <1>3, <1>4, <2>2, <2>6, <3>1 DEF CanGet
  <2>8. Leaves(h, Got(g, b, sz, align).heap)
    BY <2>4, <2>7, GotOK
  <2>. QED
    BY <1>1, <2>3, <2>5, <2>8
<1>8. CASE ~whole
  <2>1. PICK list : list = [h.free EXCEPT ![i] = Entry(b.at + real, b.size - real)]
    OBVIOUS
  <2>2. PICK u : u = Entry(b.at, real)
    OBVIOUS
  <2>3. Good(list, InUse(h) \cup {u}, h.end)
    BY <1>1, <1>2, <1>6, <1>8, <2>1, <2>2, TakeHead
  <2>4. PICK g : g = CutAt(h, i, real, whole)
    OBVIOUS
  <2>5. g = [free |-> list, used |-> h.used, end |-> h.end]
    <3>1. g = [h EXCEPT !.free = list]
      BY <1>1, <1>2, <1>8, <2>1, <2>4 DEF CutAt
    <3>. QED
      BY <1>2, <3>1
  <2>6. Kept(b, real, whole) = u
    BY <1>8, <2>2 DEF Kept
  <2>7. u \in Block /\ u.at = b.at /\ u.size = real
    BY <1>1, <1>3, <1>6, <1>8, <2>2, Cutting, EntryFacts
  <2>8. CanGet(h, list, h.end, u, sz, align)
    <3>1. (u.at + WORD) % align = 0 /\ u.size >= sz + 4 /\ \A v \in InUse(h) : v.at # u.at
      BY <1>1, <1>4, <1>6, <2>7
    <3>. QED
      BY <2>3, <2>7, <3>1 DEF CanGet
  <2>9. Leaves(h, Got(g, u, sz, align).heap)
    BY <2>5, <2>8, GotOK
  <2>. QED
    BY <1>1, <2>4, <2>6, <2>9
<1>. QED
  BY <1>7, <1>8

LEMMA MallocOK ==
  ASSUME NEW h, HeapOK(h), NEW sz \in Sizes
  PROVE  Leaves(h, malloc(h, sz).heap)
<1>1. PICK real : real = REAL_SIZE(sz)
  OBVIOUS
<1>2. PICK fits : fits = {i \in DOMAIN h.free : h.free[i].size >= real}
  OBVIOUS
<1>3. /\ Good(h.free, InUse(h), h.end) /\ h = [free |-> h.free, used |-> h.used, end |-> h.end]
      /\ DOMAIN h.free = 1..Len(h.free) /\ Len(h.free) \in Nat /\ h.free \in Seq(Block)
      /\ \A i \in 1..Len(h.free) : h.free[i] \in Block
  BY FreeFacts DEF HeapOK
<1>4. sz \in Nat /\ real \in Nat /\ real >= 8 /\ real % 4 = 0 /\ real >= sz + 4
  BY <1>1, MallocAssumption, RealSize
<1>5. h.end \in Nat /\ h.end % 4 = 0
  BY <1>3 DEF Good, Fair, Tiling, WORD
<1>6. WORD \in Aligns \cup {WORD}
  OBVIOUS
<1>7. PICK m : m = malloc(h, sz)
  OBVIOUS
<1>8. ASSUME m = Failed(h) PROVE Leaves(h, m.heap)
  BY <1>8 DEF Failed, Leaves
<1>9. CASE fits # {}
  <2>1. PICK i : i = Least(fits)
    OBVIOUS
  <2>2. i \in fits
    <3>1. fits \in SUBSET Nat
      BY <1>2, <1>3
    <3>. QED
      BY <1>9, <2>1, <3>1, LeastFacts
  <2>3. i \in 1..Len(h.free) /\ h.free[i].size >= real
    BY <1>2, <1>3, <2>2
  <2>4. PICK whole : whole = (h.free[i].size < real + FLE)
    OBVIOUS
  <2>5. h.free[i].at \in Nat /\ h.free[i].at % 4 = 0 /\ h.free[i].size \in Nat
    BY <1>3, <2>3, BlockFacts
  <2>6. ASSUME ~whole PROVE h.free[i].size - real >= 8
    <3>1. ~(h.free[i].size < real + FLE)
      BY <2>4, <2>6, Zenon
    <3>. QED
      BY <1>4, <2>5, <3>1 DEF FLE
  <2>7. (h.free[i].at + WORD) % WORD = 0
    BY <2>5 DEF WORD
  <2>8. m = Got(CutAt(h, i, real, whole), Kept(h.free[i], real, whole), sz, WORD)
    BY <1>1, <1>2, <1>7, <1>9, <2>1, <2>4 DEF malloc
  <2>. QED
    BY <1>1, <1>6, <1>7, <2>3, <2>6, <2>7, <2>8, CutOK
<1>10. CASE fits = {} /\ AtEnd(h) /\ CAN_ALLOC_P(h, real - Last(h.free).size)
  <2>1. PICK n : n = Len(h.free)
    OBVIOUS
  <2>2. PICK last : last = h.free[n]
    OBVIOUS
  <2>3. h.free # <<>> /\ EndOf(Last(h.free)) = h.end /\ Last(h.free) = last
    BY <1>10, <2>1, <2>2 DEF AtEnd, Last
  <2>4. n \in 1..Len(h.free)
    BY <1>3, <2>1, <2>3, EmptySeq
  <2>5. last \in Block /\ last.at \in Nat /\ last.at % 4 = 0 /\ last.size \in Nat /\ h.end = last.at + last.size
    BY <1>3, <2>2, <2>3, <2>4, BlockFacts
  <2>6. real > last.size
    BY <1>2, <1>3, <1>4, <1>10, <2>2, <2>4, <2>5
  <2>7. last.at + real <= Limit
    <3>1. MallocLimit \in Nat
      BY MallocAssumption
    <3>. QED
      BY <1>4, <1>10, <2>3, <2>5, <3>1 DEF CAN_ALLOC_P, Limit, MALLOC_MINIMUM_GAP
  <2>8. PICK u : u = Entry(last.at, real)
    OBVIOUS
  <2>9. PICK mid : mid = [h.free EXCEPT ![n] = u]
    OBVIOUS
  <2>10. u \in Block /\ Good(mid, InUse(h), last.at + real)
    <3>1. real >= last.size
      BY <1>4, <2>5, <2>6
    <3>. QED
      BY <1>3, <1>4, <2>1, <2>2, <2>3, <2>7, <2>8, <2>9, <3>1, Enlarged
  <2>11. Len(mid) = Len(h.free) /\ mid[n] = u
    BY <1>3, <2>4, <2>9, <2>10, ExceptSeq
  <2>12. PICK list : list = RemoveAt(mid, n)
    OBVIOUS
  <2>13. Good(list, InUse(h) \cup {u}, last.at + real)
    BY <2>4, <2>10, <2>11, <2>12, TakeWhole
  <2>14. list = Front(h.free)
    BY <1>3, <2>1, <2>3, <2>9, <2>10, <2>12, FrontIsRemoveAt
  <2>15. PICK g : g = [h EXCEPT !.free = list, !.end = last.at + real]
    OBVIOUS
  <2>16. g = [free |-> list, used |-> h.used, end |-> last.at + real]
    BY <1>3, <2>15
  <2>17. m = Got(g, u, sz, WORD)
    <3>1. g = [h EXCEPT !.free = Front(@), !.end = last.at + real]
      BY <1>3, <2>14, <2>15
    <3>. QED
      BY <1>1, <1>2, <1>7, <1>10, <2>3, <2>8, <3>1 DEF malloc
  <2>18. u.at = last.at /\ u.size = real
    BY <2>8, EntryFacts
  <2>19. \A v \in InUse(h) : v.at # u.at
    <3>1. last.at <= last.at /\ last.at < EndOf(last)
      BY <2>5, BlockFacts
    <3>. QED
      BY <1>3, <2>2, <2>4, <2>5, <2>18, <3>1, Inside
  <2>20. (u.at + WORD) % WORD = 0 /\ u.size >= sz + 4
    BY <1>4, <2>5, <2>18 DEF WORD
  <2>21. CanGet(h, list, last.at + real, u, sz, WORD)
    BY <1>6, <2>10, <2>13, <2>19, <2>20 DEF CanGet
  <2>22. Leaves(h, Got(g, u, sz, WORD).heap)
    BY <2>16, <2>21, GotOK
  <2>. QED
    BY <1>7, <2>17, <2>22
<1>11. CASE fits = {} /\ ~AtEnd(h) /\ CAN_ALLOC_P(h, real)
  <2>1. PICK u : u = Entry(h.end, real)
    OBVIOUS
  <2>2. PICK f : f = h.end + real
    OBVIOUS
  <2>3. f <= Limit
    <3>1. MallocLimit \in Nat
      BY MallocAssumption
    <3>. QED
      BY <1>4, <1>5, <1>11, <2>2, <3>1 DEF CAN_ALLOC_P, Limit, MALLOC_MINIMUM_GAP
  <2>4. Good(h.free, InUse(h) \cup {u}, f)
    BY <1>3, <1>4, <2>1, <2>2, <2>3, TakeNew
  <2>5. u \in Block /\ u.at = h.end /\ u.size = real
    BY <1>4, <1>5, <2>1, EntryFacts
  <2>6. \A v \in InUse(h) : v.at # u.at
    BY <1>3, <2>5, Outside
  <2>7. PICK g : g = [h EXCEPT !.end = f]
    OBVIOUS
  <2>8. g = [free |-> h.free, used |-> h.used, end |-> f]
    BY <1>3, <2>7
  <2>9. m = Got(g, u, sz, WORD)
    <3>1. g = [h EXCEPT !.end = @ + real]
      BY <1>3, <2>2, <2>7
    <3>. QED
      BY <1>1, <1>2, <1>7, <1>11, <2>1, <3>1 DEF malloc
  <2>10. (u.at + WORD) % WORD = 0 /\ u.size >= sz + 4
    BY <1>4, <1>5, <2>5 DEF WORD
  <2>11. CanGet(h, h.free, f, u, sz, WORD)
    BY <1>6, <2>4, <2>5, <2>6, <2>10 DEF CanGet
  <2>12. Leaves(h, Got(g, u, sz, WORD).heap)
    BY <2>8, <2>11, GotOK
  <2>. QED
    BY <1>7, <2>9, <2>12
<1>12. CASE fits = {} /\ AtEnd(h) /\ ~CAN_ALLOC_P(h, real - Last(h.free).size)
  <2>1. m = Failed(h)
    BY <1>1, <1>2, <1>7, <1>12 DEF malloc
  <2>. QED
    BY <1>7, <1>8, <2>1
<1>13. CASE fits = {} /\ ~AtEnd(h) /\ ~CAN_ALLOC_P(h, real)
  <2>1. m = Failed(h)
    BY <1>1, <1>2, <1>7, <1>13 DEF malloc
  <2>. QED
    BY <1>7, <1>8, <2>1
<1>. QED
  BY <1>9, <1>10, <1>11, <1>12, <1>13

\* A block in use is cut into blocks in use.
LEMMA SplitUsed ==
  ASSUME NEW F, NEW V, NEW e, Fair(F, V, e), NEW u \in V, NEW Q, Covers(Q, u.at, EndOf(u))
  PROVE  Fair(F, (V \ {u}) \cup Q, e)
<1>1. PICK B : B = F \cup V
  OBVIOUS
<1>2. Tiling(B, e) /\ u \in B /\ u \notin F
  BY <1>1 DEF Fair
<1>3. Tiling((B \ {u}) \cup Q, e)
  BY <1>2, Cut
<1>4. (B \ {u}) \cup Q = F \cup ((V \ {u}) \cup Q)
  BY <1>1, <1>2
<1>5. ASSUME NEW f \in F, NEW q \in Q PROVE f.at # q.at
  <2>1. /\ f.at \in Nat /\ EndOf(f) \in Nat /\ f.at < EndOf(f)
        /\ f = u \/ EndOf(f) <= u.at \/ EndOf(u) <= f.at
    BY Apart
  <2>2. q \in Block /\ u.at <= q.at /\ EndOf(q) <= EndOf(u)
    BY DEF Covers
  <2>3. q.at \in Nat /\ EndOf(q) \in Nat /\ q.at < EndOf(q) /\ u.at \in Nat /\ EndOf(u) \in Nat
    BY <2>2, BlockFacts, Apart
  <2>. QED
    BY <1>2, <2>1, <2>2, <2>3
<1>6. \A f \in F, v \in (V \ {u}) \cup Q : f.at # v.at
  BY <1>5 DEF Fair
<1>. QED
  BY <1>3, <1>4, <1>6 DEF Fair

LEMMA ReallocOK ==
  ASSUME NEW h, HeapOK(h), NEW a \in DOMAIN h.used, NEW sz \in Sizes
  PROVE  HeapOK(realloc(h, a, sz).heap)
<1>1. PICK real : real = REAL_SIZE(sz)
  OBVIOUS
<1>2. PICK old : old = h.used[a].size
  OBVIOUS
<1>3. sz \in Nat /\ real \in Nat /\ real >= 8 /\ real % 4 = 0 /\ real >= sz + 4
  BY <1>1, MallocAssumption, RealSize
<1>4. PICK V : V = InUse(h)
  OBVIOUS
<1>5. PICK u : u = UsedBlock(h, a)
  OBVIOUS
<1>6. /\ u \in V /\ u \in Block /\ u.at = a /\ u.size = old /\ a \in Nat /\ old \in Nat /\ old % 4 = 0
      /\ Good(h.free, V, h.end)
  BY <1>2, <1>4, <1>5, UseFacts
<1>7. /\ h = [free |-> h.free, used |-> h.used, end |-> h.end]
      /\ h.used = [x \in DOMAIN h.used |-> h.used[x]]
      /\ \A x \in DOMAIN h.used : /\ h.used[x] \in UsedRec
                                  /\ h.used[x].size - WORD >= h.used[x].asked
                                  /\ (x + WORD) % h.used[x].align = 0
  BY DEF HeapOK
<1>8. PICK align : align = h.used[a].align
  OBVIOUS
<1>9. align \in Aligns \cup {WORD} /\ (a + WORD) % align = 0
  BY <1>7, <1>8 DEF UsedRec
<1>10. PICK m : m = realloc(h, a, sz)
  OBVIOUS
<1>11. CASE old < real
  <2>1. PICK moved : moved = malloc(h, sz)
    OBVIOUS
  <2>2. HeapOK(moved.heap) /\ a \in DOMAIN moved.heap.used
    BY <2>1, MallocOK DEF Leaves
  <2>3. HeapOK(free(moved.heap, a))
    BY <2>2, FreeOK
  <2>4. m = IF moved.block = NULL THEN moved ELSE [block |-> moved.block, heap |-> free(moved.heap, a)]
    BY <1>1, <1>2, <1>10, <1>11, <2>1 DEF realloc
  <2>. QED
    BY <1>10, <2>2, <2>3, <2>4
<1>12. ASSUME NEW size, size \in {real, old}, size >= real, NEW list,
              NEW k, k = [h EXCEPT !.free = list, !.used[a] = [size |-> size, asked |-> sz, align |-> align]],
              Good(list, (V \ {u}) \cup {Entry(a, size)}, h.end)
       PROVE  HeapOK(k)
  <2>1. PICK rec : rec = [size |-> size, asked |-> sz, align |-> align]
    OBVIOUS
  <2>2. PICK used : used = [h.used EXCEPT ![a] = rec]
    OBVIOUS
  <2>3. k = [free |-> list, used |-> used, end |-> h.end]
    BY <1>7, <1>12, <2>1, <2>2
  <2>4. k.free = list /\ k.used = used /\ k.end = h.end
    BY <2>3
  <2>5. DOMAIN used = DOMAIN h.used /\ used[a] = rec /\ \A x \in DOMAIN used : x # a => used[x] = h.used[x]
    BY <2>2
  <2>6. used = [x \in DOMAIN used |-> used[x]]
    BY <2>2
  <2>7. rec \in UsedRec /\ rec.size = size /\ rec.asked = sz /\ rec.align = align
    BY <1>3, <1>6, <1>9, <1>12, <2>1 DEF UsedRec
  <2>8. size - WORD >= sz
    BY <1>3, <1>6, <1>12 DEF WORD
  <2>9. \A x \in DOMAIN used : /\ used[x] \in UsedRec
                               /\ used[x].size - WORD >= used[x].asked
                               /\ (x + WORD) % used[x].align = 0
    BY <1>7, <1>9, <2>5, <2>7, <2>8
  <2>10. InUse(k) = (V \ {u}) \cup {Entry(a, size)}
    <3>1. \A x \in DOMAIN used : x # a => UsedBlock(k, x) = UsedBlock(h, x)
      BY <2>4, <2>5 DEF UsedBlock
    <3>2. UsedBlock(k, a) = Entry(a, size)
      BY <2>4, <2>5, <2>7 DEF UsedBlock
    <3>3. \A x \in DOMAIN used : UsedBlock(h, x).at = x /\ UsedBlock(h, x) \in V
      BY <1>4, <2>5, UseFacts
    <3>4. \A v \in V : v.at \in DOMAIN used /\ v = UsedBlock(h, v.at)
      BY <1>4, <2>5, UseFacts
    <3>5. ASSUME NEW v \in InUse(k) PROVE v \in (V \ {u}) \cup {Entry(a, size)}
      <4>1. PICK x \in DOMAIN used : v = UsedBlock(k, x)
        BY <2>4 DEF InUse
      <4>2. CASE x = a
        BY <3>2, <4>1, <4>2
      <4>3. CASE x # a
        BY <1>6, <3>1, <3>3, <4>1, <4>3
      <4>. QED
        BY <4>2, <4>3
    <3>6. ASSUME NEW v \in V, v # u PROVE v \in InUse(k)
      <4>1. v.at \in DOMAIN used /\ v.at # a
        BY <1>5, <3>4, <3>6
      <4>2. v = UsedBlock(k, v.at)
        BY <3>1, <3>4, <4>1
      <4>. QED
        BY <2>4, <4>1, <4>2 DEF InUse
    <3>7. Entry(a, size) \in InUse(k)
      BY <2>4, <2>5, <3>2 DEF InUse
    <3>. QED
      BY <3>5, <3>6, <3>7
  <2>. QED
    BY <1>12, <2>3, <2>4, <2>6, <2>9, <2>10 DEF HeapOK
<1>13. CASE ~(old < real) /\ old - real >= FLE
  <2>1. PICK rest : rest = Entry(a + real, old - real)
    OBVIOUS
  <2>2. PICK kept : kept = Entry(a, real)
    OBVIOUS
  <2>3. old - real >= 8
    BY <1>13 DEF FLE
  <2>4. /\ kept \in Block /\ kept.at = a /\ EndOf(kept) = a + real
        /\ rest \in Block /\ rest.at = a + real /\ EndOf(rest) = EndOf(u)
        /\ a < a + real /\ a + real < EndOf(u) /\ EndOf(u) \in Nat /\ a + real \in Nat
    BY <1>3, <1>6, <2>1, <2>2, <2>3, Cutting
  <2>5. Covers({kept, rest}, u.at, EndOf(u))
    <3>1. {kept, rest} \subseteq Block /\ \E n \in {kept, rest} : n.at = u.at
      BY <1>6, <2>4
    <3>2. \A n \in {kept, rest} : u.at <= n.at /\ EndOf(n) <= EndOf(u)
      BY <1>6, <2>4
    <3>3. \A n \in {kept, rest} : EndOf(n) = EndOf(u) \/ \E j \in {kept, rest} : EndOf(n) = j.at
      BY <2>4
    <3>4. Disjoint(kept, rest) /\ Disjoint(rest, kept)
      BY <2>4 DEF Disjoint
    <3>5. \A j, n \in {kept, rest} : j # n => Disjoint(j, n)
      BY <3>4
    <3>. QED
      BY <3>1, <3>2, <3>3, <3>5 DEF Covers
  <2>6. PICK W : W = (V \ {u}) \cup {kept, rest}
    OBVIOUS
  <2>7. Good(h.free, W, h.end)
    <3>1. Fair(ToSet(h.free), V, h.end)
      BY <1>6 DEF Good
    <3>2. Fair(ToSet(h.free), W, h.end)
      BY <1>6, <2>5, <2>6, <3>1, SplitUsed
    <3>. QED
      BY <1>6, <3>2 DEF Good
  <2>8. PICK list : list = Joined(h, rest)
    OBVIOUS
  <2>9. rest \in W
    BY <2>6
  <2>10. Good(list, W \ {rest}, h.end)
    BY <2>7, <2>8, <2>9, JoinedGood
  <2>11. rest \notin V \ {u} /\ rest # kept
    <3>1. rest # kept
      BY <2>4
    <3>2. ASSUME NEW v \in V \ {u}, v = rest PROVE FALSE
      <4>1. Fair(ToSet(h.free), V, h.end)
        BY <1>6 DEF Good
      <4>2. EndOf(v) <= u.at \/ EndOf(u) <= v.at
        BY <1>6, <3>2, <4>1, Apart
      <4>. QED
        BY <1>6, <2>4, <3>2, <4>2
    <3>. QED
      BY <3>1, <3>2
  <2>12. W \ {rest} = (V \ {u}) \cup {kept}
    BY <2>6, <2>11
  <2>13. m.heap = [h EXCEPT !.free = list, !.used[a] = [size |-> real, asked |-> sz, align |-> align]]
    BY <1>1, <1>2, <1>8, <1>10, <1>13, <2>1, <2>8 DEF realloc
  <2>14. real >= real /\ real \in {real, old}
    BY <1>3
  <2>. QED
    BY <1>10, <1>12, <2>2, <2>10, <2>12, <2>13, <2>14
<1>14. CASE ~(old < real) /\ ~(old - real >= FLE)
  <2>1. PICK list : list = h.free
    OBVIOUS
  <2>2. m.heap = [h EXCEPT !.free = list, !.used[a] = [size |-> old, asked |-> sz, align |-> align]]
    BY <1>1, <1>2, <1>8, <1>10, <1>14, <2>1 DEF realloc
  <2>3. u = Entry(a, old)
    BY <1>2, <1>5 DEF UsedBlock
  <2>4. (V \ {u}) \cup {Entry(a, old)} = V
    BY <1>6, <2>3
  <2>5. old >= real /\ old \in {real, old}
    BY <1>3, <1>6, <1>14
  <2>6. Good(list, (V \ {u}) \cup {Entry(a, old)}, h.end)
    BY <1>6, <2>1, <2>4
  <2>. QED
    BY <1>10, <1>12, <2>2, <2>5, <2>6
<1>. QED
  BY <1>11, <1>13, <1>14

LEMMA TakeAlignedOK ==
  ASSUME NEW h, HeapOK(h), NEW i \in 1..Len(h.free), NEW sz \in Sizes, NEW align \in Aligns,
         NEW real, real = REAL_SIZE(sz), h.free[i].size >= real + BeforeSize(h.free[i], align)
  PROVE  HeapOK(TakeAligned(h, i, real, align, sz).heap)
<1>1. PICK b : b = h.free[i]
  OBVIOUS
<1>2. PICK n : n = BeforeSize(b, align)
  OBVIOUS
<1>3. /\ Good(h.free, InUse(h), h.end) /\ h = [free |-> h.free, used |-> h.used, end |-> h.end]
      /\ Len(h.free) \in Nat /\ h.free \in Seq(Block)
  BY FreeFacts DEF HeapOK
<1>4. /\ b \in Block /\ b.at \in Nat /\ EndOf(b) \in Nat /\ b.size \in Nat /\ b.at % 4 = 0 /\ b.size % 4 = 0
      /\ EndOf(b) = b.at + b.size
  BY <1>1, <1>3, FreeFacts, BlockFacts
<1>5. n \in Nat /\ n % 4 = 0 /\ (n = 0 \/ n >= 8) /\ ((b.at + n) + WORD) % align = 0
  BY <1>2, <1>4, Before
<1>6. sz \in Nat /\ real \in Nat /\ real >= 8 /\ real % 4 = 0 /\ real >= sz + 4
  BY MallocAssumption, RealSize
<1>7. b.size >= real + n /\ align \in Aligns \cup {WORD}
  BY <1>1, <1>2
<1>8. PICK left : left = b.size - n
  OBVIOUS
<1>9. left \in Nat /\ left >= real /\ left >= 8 /\ left % 4 = 0
  <2>1. PICK s : s = b.size
    OBVIOUS
  <2>2. s \in Nat /\ s % 4 = 0 /\ s >= real + n /\ left = s - n
    BY <1>4, <1>7, <1>8, <2>1
  <2>3. left \in Nat /\ left >= real
    BY <1>5, <1>6, <2>2
  <2>4. left % 4 = 0
    BY <1>5, <2>2
  <2>. QED
    BY <1>6, <2>3, <2>4
<1>10. PICK whole : whole = (left <= real + FLE)
  OBVIOUS
<1>11. ASSUME ~whole PROVE left - real >= 8
  <2>1. ~(left <= real + FLE)
    BY <1>10, <1>11, Zenon
  <2>. QED
    BY <1>6, <1>9, <2>1 DEF FLE
<1>12. PICK m : m = TakeAligned(h, i, real, align, sz)
  OBVIOUS
<1>13. CASE n = 0
  <2>1. m = Got(CutAt(h, i, real, whole), Kept(b, real, whole), sz, align)
    BY <1>1, <1>2, <1>8, <1>10, <1>12, <1>13 DEF TakeAligned
  <2>2. left = b.size /\ (b.at + WORD) % align = 0
    <3>1. \A s \in Nat : s - 0 = s /\ s + 0 = s
      OBVIOUS
    <3>2. b.size - 0 = b.size /\ b.at + 0 = b.at
      BY <1>4, <3>1
    <3>. QED
      BY <1>5, <1>8, <1>13, <3>2
  <2>3. h.free[i].size >= real /\ (~whole => h.free[i].size - real >= 8)
    BY <1>1, <1>9, <1>11, <2>2
  <2>4. Leaves(h, Got(CutAt(h, i, real, whole), Kept(h.free[i], real, whole), sz, align).heap)
    BY <1>1, <1>7, <2>2, <2>3, CutOK
  <2>. QED
    BY <1>1, <1>12, <2>1, <2>4 DEF Leaves
<1>14. CASE n # 0
  <2>1. n >= 8
    BY <1>5, <1>14
  <2>2. b.size - n >= 8
    BY <1>8, <1>9
  <2>3. PICK x : x = b.at + n
    OBVIOUS
  <2>4. x \in Nat /\ x % 4 = 0 /\ (x + WORD) % align = 0 /\ b.at <= x /\ x < EndOf(b)
    <3>1. x \in Nat /\ b.at <= x /\ x < EndOf(b) /\ x % 4 = 0
      <4>1. PICK y : y = b.at
        OBVIOUS
      <4>2. PICK s : s = b.size
        OBVIOUS
      <4>3. /\ y \in Nat /\ s \in Nat /\ y % 4 = 0 /\ x = y + n /\ EndOf(b) = y + s
            /\ s - n >= 8
        BY <1>4, <2>2, <2>3, <4>1, <4>2
      <4>4. n \in Nat
        BY <1>5
      <4>5. y \in Nat /\ s \in Nat /\ x = y + n /\ s - n >= 8
        BY <4>3
      <4>6. x \in Nat /\ y <= x
        BY ONLY <4>4, <4>5
      <4>7. x < y + s
        BY ONLY <4>4, <4>5
      <4>8. n % 4 = 0 /\ y % 4 = 0
        BY <1>5, <4>3
      <4>9. x % 4 = 0
        BY ONLY <4>4, <4>5, <4>8
      <4>. QED
        BY <4>1, <4>3, <4>6, <4>7, <4>9
    <3>3. (x + WORD) % align = 0
      BY <1>5, <2>3
    <3>. QED
      BY <3>1, <3>3
  <2>5. \A u \in InUse(h) : u.at # x
    BY <1>1, <1>3, <2>4, Inside
  <2>6. PICK mid : mid = [h.free EXCEPT ![i] = Entry(b.at, n)]
    OBVIOUS
  <2>7. PICK front : front = [h EXCEPT !.free = mid]
    OBVIOUS
  <2>8. front = [free |-> mid, used |-> h.used, end |-> h.end] /\ front.free = mid
    BY <1>3, <2>7
  <2>9. [h EXCEPT !.free[i] = Entry(b.at, n)] = front
    BY <1>3, <2>6, <2>7
  <2>10. CASE whole
    <3>1. PICK u : u = Entry(x, left)
      OBVIOUS
    <3>2. u \in Block /\ u.at = x /\ u.size = left
      BY <1>9, <2>4, <3>1, EntryFacts
    <3>3. Good(mid, InUse(h) \cup {u}, h.end)
      BY <1>1, <1>3, <1>5, <1>8, <2>1, <2>2, <2>3, <2>6, <3>1, TakeTail
    <3>4. m = Got(front, u, sz, align)
      <4>1. Kept(Entry(b.at + n, left), real, whole) = u
        BY <2>3, <2>10, <3>1 DEF Kept, Entry
      <4>. QED
        BY <1>1, <1>2, <1>8, <1>10, <1>12, <1>14, <2>9, <2>10, <4>1 DEF TakeAligned
    <3>5. CanGet(h, mid, h.end, u, sz, align)
      <4>1. u.size >= sz + 4
        BY <1>6, <1>9, <3>2
      <4>. QED
        BY <1>7, <2>4, <2>5, <3>2, <3>3, <4>1 DEF CanGet
    <3>6. Leaves(h, Got(front, u, sz, align).heap)
      BY <2>8, <3>5, GotOK
    <3>. QED
      BY <1>12, <3>4, <3>6 DEF Leaves
  <2>11. CASE ~whole
    <3>1. PICK u : u = Entry(x, real)
      OBVIOUS
    <3>2. u \in Block /\ u.at = x /\ u.size = real
      BY <1>6, <2>4, <3>1, EntryFacts
    <3>3. PICK list : list = InsertAt(mid, i + 1, Entry(x + real, left - real))
      OBVIOUS
    <3>4. Good(list, InUse(h) \cup {u}, h.end)
      <4>1. (b.size - n) - real >= 8
        BY <1>8, <1>11, <2>11
      <4>. QED
        BY <1>1, <1>3, <1>5, <1>6, <1>8, <2>1, <2>3, <2>6, <3>1, <3>3, <4>1, TakeMiddle
    <3>5. PICK g : g = [front EXCEPT !.free = list]
      OBVIOUS
    <3>6. g = [free |-> list, used |-> h.used, end |-> h.end]
      BY <2>8, <3>5
    <3>7. m = Got(g, u, sz, align)
      <4>1. Kept(Entry(b.at + n, left), real, whole) = u
        BY <2>3, <2>11, <3>1, EntryFacts DEF Kept
      <4>2. [front EXCEPT !.free = InsertAt(@, i + 1, Entry(b.at + n + real, left - real))] = g
        BY <2>3, <2>8, <3>3, <3>5
      <4>. QED
        BY <1>1, <1>2, <1>8, <1>10, <1>12, <1>14, <2>9, <2>11, <4>1, <4>2 DEF TakeAligned
    <3>8. CanGet(h, list, h.end, u, sz, align)
      BY <1>6, <1>7, <2>4, <2>5, <3>2, <3>4 DEF CanGet
    <3>9. Leaves(h, Got(g, u, sz, align).heap)
      BY <3>6, <3>8, GotOK
    <3>. QED
      BY <1>12, <3>7, <3>9 DEF Leaves
  <2>. QED
    BY <2>10, <2>11
<1>. QED
  BY <1>13, <1>14

\* The first block that is large enough is taken, or the last one once it is.
LEMMA FirstAlignedOK ==
  ASSUME NEW h, HeapOK(h), NEW sz \in Sizes, NEW align \in Aligns,
         NEW real, real = REAL_SIZE(sz),
         AtEnd(h) \/ \E i \in DOMAIN h.free : h.free[i].size >= real + BeforeSize(h.free[i], align)
  PROVE  HeapOK(FirstAligned(h, real, align, sz).heap)
<1>. DEFINE need(i) == real + BeforeSize(h.free[i], align)
            fits == {i \in DOMAIN h.free : h.free[i].size >= need(i)}
            n == Len(h.free)
            last == h.free[n]
            larger == [h EXCEPT !.free[n].size = need(n), !.end = last.at + need(n)]
<1>1. FirstAligned(h, real, align, sz) =
        IF fits # {} THEN TakeAligned(h, Least(fits), real, align, sz)
        ELSE IF CAN_ALLOC_P(h, need(n) - last.size)
        THEN TakeAligned(larger, n, real, align, sz)
        ELSE Failed(h)
  BY DEF FirstAligned
<1>2. /\ Good(h.free, InUse(h), h.end) /\ h = [free |-> h.free, used |-> h.used, end |-> h.end]
      /\ Len(h.free) \in Nat /\ h.free \in Seq(Block) /\ DOMAIN h.free = 1..Len(h.free)
      /\ \A i \in 1..Len(h.free) : h.free[i] \in Block
  BY FreeFacts DEF HeapOK
<1>3. real \in Nat /\ real >= 8 /\ real % 4 = 0
  BY MallocAssumption, RealSize
<1>4. CASE fits # {}
  <2>1. PICK i : i = Least(fits)
    OBVIOUS
  <2>2. i \in 1..Len(h.free) /\ h.free[i].size >= need(i)
    <3>1. fits \in SUBSET Nat /\ \A j \in fits : j \in 1..Len(h.free) /\ h.free[j].size >= need(j)
      BY <1>2
    <3>. HIDE DEF fits
    <3>2. i \in fits
      BY <1>4, <2>1, <3>1, LeastFacts
    <3>. QED
      BY <3>1, <3>2
  <2>3. HeapOK(TakeAligned(h, i, real, align, sz).heap)
    BY <2>2, TakeAlignedOK
  <2>. QED
    BY <1>1, <1>4, <2>1, <2>3
<1>5. CASE fits = {} /\ ~CAN_ALLOC_P(h, need(n) - last.size)
  <2>1. FirstAligned(h, real, align, sz) = Failed(h)
    BY <1>1, <1>5
  <2>. QED
    BY <2>1 DEF Failed
<1>6. CASE fits = {} /\ CAN_ALLOC_P(h, need(n) - last.size)
  <2>1. PICK k : k = Len(h.free)
    OBVIOUS
  <2>2. PICK b : b = h.free[k]
    OBVIOUS
  <2>3. PICK s : s = real + BeforeSize(b, align)
    OBVIOUS
  <2>4. AtEnd(h)
    BY <1>6
  <2>5. h.free # <<>> /\ EndOf(Last(h.free)) = h.end
    BY <2>4 DEF AtEnd
  <2>6. k \in 1..Len(h.free) /\ Last(h.free) = b
    BY <1>2, <2>1, <2>2, <2>5, EmptySeq DEF Last
  <2>7. b \in Block /\ b.at \in Nat /\ b.size \in Nat /\ h.end = b.at + b.size
    BY <1>2, <2>2, <2>5, <2>6, BlockFacts
  <2>8. s \in Nat /\ s % 4 = 0
    <3>1. BeforeSize(b, align) \in Nat /\ BeforeSize(b, align) % 4 = 0
      BY <2>7, Before
    <3>. QED
      BY <1>3, <2>3, <3>1
  <2>9. s >= b.size
    <3>1. k \notin fits /\ k \in DOMAIN h.free
      BY <1>2, <1>6, <2>6
    <3>2. ~(b.size >= s)
      BY <2>2, <2>3, <3>1
    <3>. QED
      BY <2>7, <2>8, <3>2
  <2>10. b.at + s <= Limit
    <3>1. MallocLimit \in Nat
      BY MallocAssumption
    <3>2. CAN_ALLOC_P(h, s - b.size)
      BY <1>6, <2>1, <2>2, <2>3
    <3>. QED
      BY <2>7, <2>8, <3>1, <3>2 DEF CAN_ALLOC_P, Limit, MALLOC_MINIMUM_GAP
  <2>11. PICK u : u = Entry(b.at, s)
    OBVIOUS
  <2>12. PICK list : list = [h.free EXCEPT ![k] = u]
    OBVIOUS
  <2>13. u \in Block /\ Good(list, InUse(h), b.at + s)
    BY <1>2, <2>1, <2>2, <2>5, <2>8, <2>9, <2>10, <2>11, <2>12, Enlarged
  <2>14. PICK g : g = larger
    OBVIOUS
  <2>15. g = [free |-> list, used |-> h.used, end |-> b.at + s]
    <3>1. [b EXCEPT !.size = s] = u
      BY <2>7, <2>11, BlockFacts DEF Entry
    <3>2. g = [h EXCEPT !.free[k].size = s, !.end = b.at + s]
      BY <2>1, <2>2, <2>3, <2>14
    <3>3. [h.free EXCEPT ![k].size = s] = list
      BY <2>2, <2>12, <3>1
    <3>. QED
      BY <1>2, <3>2, <3>3
  <2>16. HeapOK(g)
    <3>1. g.free = list /\ g.used = h.used /\ g.end = b.at + s
      BY <2>15
    <3>2. InUse(g) = InUse(h)
      BY <3>1 DEF InUse, UsedBlock
    <3>. QED
      BY <2>13, <2>15, <3>1, <3>2 DEF HeapOK
  <2>17. k \in 1..Len(g.free) /\ g.free[k] = u
    BY <1>2, <2>6, <2>12, <2>13, <2>15, ExceptSeq
  <2>18. g.free[k].size >= real + BeforeSize(g.free[k], align)
    <3>1. u.at = b.at /\ u.size = s
      BY <2>11, EntryFacts
    <3>2. BeforeSize(u, align) = BeforeSize(b, align)
      BY <3>1 DEF BeforeSize
    <3>. QED
      BY <2>3, <2>8, <2>17, <3>1, <3>2
  <2>19. HeapOK(TakeAligned(g, k, real, align, sz).heap)
    BY <2>16, <2>17, <2>18, TakeAlignedOK
  <2>20. FirstAligned(h, real, align, sz) = TakeAligned(g, k, real, align, sz)
    BY <1>1, <1>6, <2>1, <2>14
  <2>. QED
    BY <2>19, <2>20
<1>. QED
  BY <1>4, <1>5, <1>6

LEMMA MemalignOK ==
  ASSUME NEW h, HeapOK(h), NEW align \in Aligns, NEW sz \in Sizes
  PROVE  HeapOK(memalign(h, align, sz).heap)
<1>1. PICK real : real = REAL_SIZE(sz)
  OBVIOUS
<1>2. PICK fresh : fresh = real + M_ALIGN(h.end + WORD, align)
  OBVIOUS
<1>3. PICK some \in BOOLEAN : some <=> \E i \in DOMAIN h.free :
                    h.free[i].size >= real + BeforeSize(h.free[i], align)
  OBVIOUS
<1>4. PICK grown : grown = [h EXCEPT !.free = Append(@, Entry(h.end, fresh)), !.end = @ + fresh]
  OBVIOUS
<1>5. PICK m : m = memalign(h, align, sz)
  OBVIOUS
<1>6. m = IF some \/ AtEnd(h) THEN FirstAligned(h, real, align, sz)
          ELSE IF CAN_ALLOC_P(h, fresh) THEN FirstAligned(grown, real, align, sz)
          ELSE Failed(h)
  BY <1>1, <1>2, <1>3, <1>4, <1>5 DEF memalign
<1>7. CASE some \/ AtEnd(h)
  <2>1. HeapOK(FirstAligned(h, real, align, sz).heap)
    BY <1>1, <1>3, <1>7, FirstAlignedOK
  <2>. QED
    BY <1>5, <1>6, <1>7, <2>1
<1>8. CASE ~(some \/ AtEnd(h)) /\ CAN_ALLOC_P(h, fresh)
  <2>1. /\ Good(h.free, InUse(h), h.end) /\ h = [free |-> h.free, used |-> h.used, end |-> h.end]
        /\ Len(h.free) \in Nat
    BY FreeFacts DEF HeapOK
  <2>2. h.end \in Nat /\ h.end % 4 = 0
    BY <2>1 DEF Good, Fair, Tiling, WORD
  <2>3. real \in Nat /\ real >= 8 /\ real % 4 = 0
    BY <1>1, MallocAssumption, RealSize
  <2>4. fresh \in Nat /\ fresh >= 8 /\ fresh % 4 = 0
    <3>1. align \in Nat \ {0}
      BY MallocAssumption
    <3>2. PICK x : x = h.end + WORD
      OBVIOUS
    <3>3. x \in Int /\ x % 4 = 0
      BY <2>2, <3>2 DEF WORD
    <3>4. PICK r : r = M_ALIGN(x, align)
      OBVIOUS
    <3>5. r \in Nat /\ r % 4 = 0
      BY <3>1, <3>3, <3>4, Aligned, AlignedWord
    <3>. QED
      BY <1>2, <2>3, <3>2, <3>4, <3>5
  <2>5. h.end + fresh <= Limit
    <3>1. MallocLimit \in Nat
      BY MallocAssumption
    <3>. QED
      BY <1>8, <2>2, <2>4, <3>1 DEF CAN_ALLOC_P, Limit, MALLOC_MINIMUM_GAP
  <2>6. PICK u : u = Entry(h.end, fresh)
    OBVIOUS
  <2>7. PICK list : list = Append(h.free, u)
    OBVIOUS
  <2>8. PICK f : f = h.end + fresh
    OBVIOUS
  <2>9. /\ Good(list, InUse(h), f) /\ Len(list) = Len(h.free) + 1 /\ list[Len(h.free) + 1] = u
    <3>1. ~(h.free # <<>> /\ EndOf(Last(h.free)) = h.end)
      BY <1>8 DEF AtEnd
    <3>. QED
      BY <2>1, <2>4, <2>5, <2>6, <2>7, <2>8, <3>1, Lengthened
  <2>10. grown = [free |-> list, used |-> h.used, end |-> f]
    BY <1>4, <2>1, <2>6, <2>7, <2>8
  <2>11. grown.free = list /\ grown.used = h.used /\ grown.end = f
    BY <2>10
  <2>12. HeapOK(grown)
    <3>1. InUse(grown) = InUse(h)
      BY <2>11 DEF InUse, UsedBlock
    <3>. QED
      BY <2>9, <2>10, <2>11, <3>1 DEF HeapOK
  <2>13. AtEnd(grown)
    <3>1. EndOf(u) = f
      BY <2>6, <2>8, EntryFacts
    <3>2. Last(list) = u
      BY <2>9 DEF Last
    <3>3. list # <<>>
      <4>1. Len(list) # 0 /\ list \in Seq(Block)
        BY <2>1, <2>9 DEF Good
      <4>. QED
        BY <4>1, EmptySeq
    <3>. QED
      BY <2>11, <3>1, <3>2, <3>3 DEF AtEnd
  <2>14. HeapOK(FirstAligned(grown, real, align, sz).heap)
    BY <1>1, <2>12, <2>13, FirstAlignedOK
  <2>. QED
    BY <1>5, <1>6, <1>8, <2>14
<1>9. CASE ~(some \/ AtEnd(h)) /\ ~CAN_ALLOC_P(h, fresh)
  <2>1. m = Failed(h)
    BY <1>6, <1>9
  <2>. QED
    BY <1>5, <2>1 DEF Failed
<1>. QED
  BY <1>7, <1>8, <1>9

-----------------------------------------------------------------------------
LEMMA InitOK ==
  ASSUME MallocInit
  PROVE  MallocInv
<1>1. heap = [free |-> <<>>, used |-> <<>>, end |-> MallocStart]
  BY DEF MallocInit
<1>2. heap.free = <<>> /\ heap.used = <<>> /\ heap.end = MallocStart
  BY <1>1
<1>3. DOMAIN heap.used = {} /\ InUse(heap) = {}
  BY <1>2 DEF InUse
<1>4. ToSet(<<>>) = {} /\ <<>> \in Seq(Block) /\ Len(<<>>) = 0
  BY EmptySeq DEF ToSet
<1>5. Sorted(<<>>)
  BY <1>4 DEF Sorted
<1>6. MallocStart \in Nat /\ MallocLimit \in Nat /\ MallocStart % 4 = 0 /\ MallocStart + 32 <= MallocLimit
  BY MallocAssumption DEF WORD, MALLOC_MINIMUM_GAP
<1>7. Tiling({} \cup {}, MallocStart)
  BY <1>6 DEF Tiling, Edges, WORD
<1>8. Good(<<>>, {}, MallocStart)
  <2>1. Fair({}, {}, MallocStart)
    BY <1>7 DEF Fair
  <2>2. MallocStart <= Limit
    BY <1>6 DEF Limit, MALLOC_MINIMUM_GAP
  <2>. QED
    BY <1>4, <1>5, <2>1, <2>2 DEF Good
<1>9. heap.used = [a \in DOMAIN heap.used |-> heap.used[a]]
  BY <1>2
<1>. QED
  BY <1>1, <1>2, <1>3, <1>8, <1>9 DEF MallocInv, HeapOK

LEMMA StepOK ==
  ASSUME MallocInv, [MallocNext]_heap
  PROVE  MallocInv'
<1>1. HeapOK(heap)
  BY DEF MallocInv
<1>2. CASE \E sz \in Sizes : Malloc(sz)
  BY <1>1, <1>2, MallocOK DEF Malloc, Leaves, MallocInv
<1>3. CASE \E align \in Aligns, sz \in Sizes : Memalign(align, sz)
  BY <1>1, <1>3, MemalignOK DEF Memalign, MallocInv
<1>4. CASE \E a \in DOMAIN heap.used : Free(a)
  BY <1>1, <1>4, FreeOK DEF Free, MallocInv
<1>5. CASE \E a \in DOMAIN heap.used, sz \in Sizes : Realloc(a, sz)
  BY <1>1, <1>5, ReallocOK DEF Realloc, MallocInv
<1>6. CASE UNCHANGED heap
  BY <1>1, <1>6 DEF MallocInv
<1>. QED
  BY <1>2, <1>3, <1>4, <1>5, <1>6 DEF MallocNext

LEMMA TiledFromInv ==
  ASSUME MallocInv
  PROVE  Tiled
<1>. DEFINE list == heap.free
            V == InUse(heap)
            B == Blocks(list, V)
<1>1. Good(list, V, heap.end)
  BY DEF MallocInv, HeapOK
<1>2. B = ToSet(list) \cup V
  BY DEF Blocks
<1>3. Tiling(B, heap.end) /\ Fair(ToSet(list), V, heap.end) /\ heap.end <= Limit
  BY <1>1, <1>2 DEF Good, Fair
<1>4. MallocStart \in Edges(B, heap.end)
  BY <1>3 DEF Tiling
<1>5. \A b \in B : b.size >= FLE /\ EndOf(b) \in Edges(B, heap.end)
  BY <1>3 DEF Tiling, Block
<1>6. \A b, c \in B : b # c => (EndOf(b) <= c.at \/ EndOf(c) <= b.at)
  BY <1>3 DEF Tiling, Disjoint
<1>7. ASSUME NEW i \in DOMAIN list PROVE list[i].at \notin DOMAIN heap.used
  <2>1. list[i] \in ToSet(list)
    BY <1>1, FreeFacts
  <2>2. \A a \in DOMAIN heap.used : UsedBlock(heap, a) \in V /\ UsedBlock(heap, a).at = a
    BY UseFacts DEF MallocInv
  <2>. QED
    BY <1>3, <2>1, <2>2 DEF Fair
<1>8. ASSUME NEW i \in 2..Len(list) PROVE EndOf(list[i - 1]) < list[i].at
  <2>1. Len(list) \in Nat
    BY <1>1, FreeFacts
  <2>2. PICK j : j = i - 1
    OBVIOUS
  <2>3. j \in 1..Len(list) /\ i \in 1..Len(list) /\ j < i
    BY <2>1, <2>2
  <2>4. EndOf(list[j]) < list[i].at
    BY <1>1, <2>3, FreeFacts
  <2>. QED
    BY <2>2, <2>4
<1>9. heap.end <= MallocLimit - MALLOC_MINIMUM_GAP
  BY <1>3 DEF Limit
<1>10. Edges(B, heap.end) = {b.at : b \in B} \cup {heap.end}
  BY DEF Edges
<1>. QED
  BY <1>4, <1>5, <1>6, <1>7, <1>8, <1>9, <1>10 DEF Tiled

LEMMA ServedFromInv ==
  ASSUME MallocInv
  PROVE  Served
BY DEF MallocInv, HeapOK, Served, malloc_usable_size

\* The heap is well-formed at every time: an inductive invariant of the
\* allocator (tiny-malloc.c:133-548).
THEOREM HeapWellFormed == MallocSpec => []MallocInv
<1>1. MallocInit => MallocInv
  BY InitOK
<1>2. MallocInv /\ [MallocNext]_heap => MallocInv'
  BY StepOK
<1>. QED
  BY <1>1, <1>2, PTL DEF MallocSpec

\* Free blocks and blocks in use tile the heap, whatever is asked for and given
\* back in whatever order: no two overlap, no byte is lost, and free blocks that
\* touch have been joined (tiny-malloc.c:133-270, 344-488).
THEOREM BlocksTile == MallocSpec => []Tiled
<1>1. MallocInv => Tiled
  BY TiledFromInv
<1>. QED
  BY <1>1, HeapWellFormed, PTL

\* Every chunk in use holds what was asked for, at the alignment asked for
\* (tiny-malloc.c:17-35).
THEOREM ChunksServe == MallocSpec => []Served
<1>1. MallocInv => Served
  BY ServedFromInv
<1>. QED
  BY <1>1, HeapWellFormed, PTL

-----------------------------------------------------------------------------
\* The size of a block is the number of its bytes, and sizes of blocks that are
\* apart add up like the numbers of bytes that they cover: that is how the sums
\* of mallinfo are found without an induction over the list.
Bytes(b) == b.at..(EndOf(b) - 1)

Covered(S) == UNION {Bytes(b) : b \in S}

LEMMA BytesFacts ==
  ASSUME NEW b \in Block
  PROVE  IsFiniteSet(Bytes(b)) /\ Cardinality(Bytes(b)) = b.size
<1>1. b.at \in Int /\ EndOf(b) - 1 \in Int /\ ~(b.at > EndOf(b) - 1)
      /\ (EndOf(b) - 1) - b.at + 1 = b.size
  BY BlockFacts
<1>. QED
  BY <1>1, FS_Interval DEF Bytes

LEMMA CoveredSplit ==
  ASSUME NEW S, NEW b \in S
  PROVE  Covered(S) = Bytes(b) \cup Covered(S \ {b})
BY DEF Covered

LEMMA CoveredInside ==
  ASSUME NEW B, NEW e, Tiling(B, e), NEW S \in SUBSET B
  PROVE  /\ Covered(S) \subseteq MallocStart..(e - 1)
         /\ IsFiniteSet(Covered(S))
<1>1. MallocStart \in Int /\ e - 1 \in Int
  BY MallocAssumption DEF Tiling
<1>2. Covered(S) \subseteq MallocStart..(e - 1)
  <2>. SUFFICES ASSUME NEW b \in S, NEW x \in Bytes(b) PROVE x \in MallocStart..(e - 1)
    BY DEF Covered
  <2>1. b \in Block /\ MallocStart <= b.at /\ EndOf(b) <= e /\ e \in Nat
    BY DEF Tiling
  <2>. QED
    BY <1>1, <2>1, BlockFacts DEF Bytes
<1>3. IsFiniteSet(MallocStart..(e - 1))
  BY <1>1, FS_Interval
<1>. QED
  BY <1>2, <1>3, FS_Subset

LEMMA CoveredApart ==
  ASSUME NEW B, NEW e, Tiling(B, e), NEW S \in SUBSET B, NEW T \in SUBSET B, S \cap T = {}
  PROVE  Covered(S) \cap Covered(T) = {}
<1>. SUFFICES ASSUME NEW b \in S, NEW c \in T, NEW x \in Bytes(b), x \in Bytes(c)
              PROVE  FALSE
  BY DEF Covered
<1>1. b \in Block /\ c \in Block /\ Disjoint(b, c)
  BY DEF Tiling
<1>. QED
  BY <1>1, BlockFacts DEF Bytes, Disjoint

LEMMA CoveredSum ==
  ASSUME NEW B, NEW e, Tiling(B, e), NEW S \in SUBSET B, NEW b \in S
  PROVE  /\ Cardinality(Covered(S)) = b.size + Cardinality(Covered(S \ {b}))
         /\ Cardinality(Covered(S)) = Cardinality(Covered(S \ {b})) + b.size
<1>. DEFINE P == Bytes(b)
            Q == Covered(S \ {b})
<1>1. b \in Block
  BY DEF Tiling
<1>2. IsFiniteSet(P) /\ Cardinality(P) = b.size /\ b.size \in Nat
  BY <1>1, BytesFacts, BlockFacts
<1>3. IsFiniteSet(Q) /\ Cardinality(Q) \in Nat
  <2>1. S \ {b} \in SUBSET B
    OBVIOUS
  <2>2. IsFiniteSet(Q)
    BY <2>1, CoveredInside
  <2>. QED
    BY <2>2, FS_CardinalityType
<1>4. P \cap Q = {}
  <2>1. {b} \in SUBSET B /\ S \ {b} \in SUBSET B /\ {b} \cap (S \ {b}) = {}
    OBVIOUS
  <2>2. Covered({b}) = P
    BY DEF Covered
  <2>. QED
    BY <2>1, <2>2, CoveredApart
<1>5. Covered(S) = P \cup Q
  BY CoveredSplit
<1>. HIDE DEF P, Q
<1>6. Cardinality(P \cap Q) = 0
  BY <1>4, FS_EmptySet
<1>7. Cardinality(P \cup Q) = Cardinality(P) + Cardinality(Q) - Cardinality(P \cap Q)
  BY <1>2, <1>3, FS_Union
<1>. QED
  BY <1>2, <1>3, <1>5, <1>6, <1>7 DEF Q

\* Every byte of a heap that is tiled belongs to a block: to the last one that
\* does not start behind it.
LEMMA CoveredAll ==
  ASSUME NEW B, NEW e, Tiling(B, e)
  PROVE  Covered(B) = MallocStart..(e - 1)
<1>. SUFFICES ASSUME NEW x \in MallocStart..(e - 1) PROVE x \in Covered(B)
  BY CoveredInside
<1>1. MallocStart \in Nat /\ e \in Nat /\ x \in Nat /\ MallocStart <= x /\ x < e
  BY MallocAssumption DEF Tiling
<1>2. \A b \in B : b.at \in Nat /\ EndOf(b) \in Nat /\ b.at < EndOf(b)
  BY BlockFacts DEF Tiling
<1>. DEFINE D == {x - b.at : b \in {c \in B : c.at <= x}}
<1>3. D \in SUBSET Nat
  BY <1>1, <1>2
<1>4. D # {}
  <2>1. MallocStart \in Edges(B, e)
    BY DEF Tiling
  <2>2. PICK b \in B : b.at = MallocStart
    BY <1>1, <2>1 DEF Edges
  <2>. QED
    BY <1>1, <2>2
<1>5. PICK m \in D : \A k \in D : m <= k
  <2>. HIDE DEF D
  <2>. QED
    BY <1>3, <1>4, LeastOf
<1>6. PICK b \in B : b.at <= x /\ m = x - b.at
  BY <1>5
<1>7. x < EndOf(b)
  <2>. SUFFICES ASSUME EndOf(b) <= x PROVE FALSE
    BY <1>1, <1>2
  <2>1. EndOf(b) \in Edges(B, e)
    BY DEF Tiling
  <2>2. PICK c \in B : c.at = EndOf(b)
    BY <1>1, <1>2, <2>1 DEF Edges
  <2>3. x - c.at \in D
    BY <2>2
  <2>4. m <= x - c.at
    BY <1>5, <2>3
  <2>. QED
    BY <1>1, <1>2, <1>6, <2>2, <2>4
<1>8. x \in Bytes(b)
  BY <1>1, <1>2, <1>6, <1>7 DEF Bytes
<1>. QED
  BY <1>8 DEF Covered

\* The free blocks and the blocks in use make up the heap.
LEMMA Total ==
  ASSUME NEW F, NEW V, NEW e, Fair(F, V, e)
  PROVE  Cardinality(Covered(V)) = (e - MallocStart) - Cardinality(Covered(F))
<1>. DEFINE B == F \cup V
            P == Covered(F)
            Q == Covered(V)
<1>1. Tiling(B, e) /\ F \in SUBSET B /\ V \in SUBSET B
  BY DEF Fair
<1>2. F \cap V = {}
  BY DEF Fair
<1>3. IsFiniteSet(P) /\ IsFiniteSet(Q) /\ P \cap Q = {}
  BY <1>1, <1>2, CoveredInside, CoveredApart
<1>4. P \cup Q = MallocStart..(e - 1)
  <2>1. P \cup Q = Covered(B)
    BY DEF Covered
  <2>. QED
    BY <1>1, <2>1, CoveredAll
<1>5. MallocStart \in Nat /\ e \in Nat /\ MallocStart <= e
  BY <1>1, MallocAssumption DEF Tiling
<1>6. Cardinality(MallocStart..(e - 1)) = e - MallocStart
  <2>1. MallocStart \in Int /\ e - 1 \in Int
    BY <1>5
  <2>2. Cardinality(MallocStart..(e - 1)) =
            IF MallocStart > e - 1 THEN 0 ELSE (e - 1) - MallocStart + 1
    BY <2>1, FS_Interval
  <2>. QED
    BY <1>5, <2>2
<1>. HIDE DEF P, Q
<1>7. Cardinality(P) \in Nat /\ Cardinality(Q) \in Nat /\ Cardinality(P \cap Q) = 0
  BY <1>3, FS_CardinalityType, FS_EmptySet
<1>8. Cardinality(P \cup Q) = Cardinality(P) + Cardinality(Q) - Cardinality(P \cap Q)
  BY <1>3, FS_Union
<1>9. Cardinality(Q) = (e - MallocStart) - Cardinality(P)
  <2>1. e - MallocStart = Cardinality(P) + Cardinality(Q) - 0
    BY <1>4, <1>6, <1>7, <1>8, Zenon
  <2>2. PICK p \in Nat : p = Cardinality(P)
    BY <1>7
  <2>3. PICK q \in Nat : q = Cardinality(Q)
    BY <1>7
  <2>. QED
    BY <1>5, <2>1, <2>2, <2>3
<1>. QED
  BY <1>9 DEF P, Q

\* Functions f and g of sets are equal on a set whenever they are on the set
\* without the element that ch chooses.
Agree(D, f, g, ch) ==
    /\ f[{}] = g[{}]
    /\ \A s \in SUBSET D : s # {} =>
          /\ ch[s] \in s
          /\ f[s \ {ch[s]}] = g[s \ {ch[s]}] => f[s] = g[s]

LEMMA Unique ==
  ASSUME NEW D, IsFiniteSet(D), NEW f, NEW g, NEW ch, Agree(D, f, g, ch)
  PROVE  f[D] = g[D]
<1>. USE DEF Agree
<1>. DEFINE Bad == {n \in Nat : \E s \in SUBSET D : Cardinality(s) = n /\ f[s] # g[s]}
<1>. SUFFICES ASSUME f[D] # g[D] PROVE FALSE
  OBVIOUS
<1>1. Cardinality(D) \in Bad
  BY FS_CardinalityType
<1>2. PICK n \in Bad : \A k \in Bad : n <= k
  <2>1. Bad \in SUBSET Nat
    OBVIOUS
  <2>. HIDE DEF Bad
  <2>. QED
    BY <1>1, <2>1, LeastOf
<1>3. PICK s \in SUBSET D : Cardinality(s) = n /\ f[s] # g[s]
  BY <1>2
<1>4. s # {}
  BY <1>3
<1>. DEFINE r == s \ {ch[s]}
<1>5. IsFiniteSet(s) /\ Cardinality(s) \in Nat
  BY FS_Subset, FS_CardinalityType
<1>6. IsFiniteSet(r) /\ Cardinality(r) = Cardinality(s) - 1 /\ Cardinality(r) \in Nat
  <2>1. IsFiniteSet(r) /\ Cardinality(r) = Cardinality(s) - 1
    BY <1>4, <1>5, FS_RemoveElement
  <2>. QED
    BY <2>1, FS_CardinalityType
<1>7. f[r] # g[r] /\ r \in SUBSET D
  BY <1>3, <1>4
<1>. HIDE DEF r
<1>8. Cardinality(r) \in Bad
  BY <1>6, <1>7
<1>9. n <= Cardinality(r)
  <2>. HIDE DEF Bad
  <2>. QED
    BY <1>2, <1>8
<1>. QED
  BY <1>3, <1>5, <1>6, <1>9

-----------------------------------------------------------------------------
\* The sums of mallinfo, over the indices of the free list, from the last one,
\* and of Counted, over the blocks in use in any order.
FreeSums(list) ==
    LET iter[s \in SUBSET DOMAIN list] ==
            IF s = {} THEN 0
            ELSE LET x == Max(s) IN iter[s \ {x}] + list[x].size
    IN  iter

UsedSums(S) ==
    LET iter[s \in SUBSET S] ==
            IF s = {} THEN 0
            ELSE LET x == CHOOSE y \in s : TRUE IN x.size + iter[s \ {x}]
    IN  iter

LEMMA FreeSize ==
  ASSUME NEW list
  PROVE  FoldLeft(LAMBDA n, b : n + b.size, 0, list) = FreeSums(list)[DOMAIN list]
BY Zenon DEF FoldLeft, MapThenFoldSet, FreeSums

LEMMA UsedSize ==
  ASSUME NEW S
  PROVE  MapThenSumSet(LAMBDA b : b.size, S) = UsedSums(S)[S]
BY Zenon DEF MapThenSumSet, MapThenFoldSet, UsedSums

LEMMA UsedTotal ==
  ASSUME NEW B, NEW e, Tiling(B, e), NEW S \in SUBSET B, IsFiniteSet(S)
  PROVE  UsedSums(S)[S] = Cardinality(Covered(S))
<1>. DEFINE ch == [s \in SUBSET S |-> CHOOSE y \in s : TRUE]
            Is(f) == f = [s \in SUBSET S |->
                             IF s = {} THEN 0
                             ELSE (CHOOSE y \in s : TRUE).size + f[s \ {CHOOSE y \in s : TRUE}]]
            g == [s \in SUBSET S |-> Cardinality(Covered(s))]
<1>1. ASSUME NEW s \in SUBSET S, s # {}
      PROVE  /\ ch[s] \in s /\ ch[s] = CHOOSE y \in s : TRUE
             /\ g[s] = ch[s].size + g[s \ {ch[s]}]
  <2>1. ch[s] = CHOOSE y \in s : TRUE
    OBVIOUS
  <2>2. ch[s] \in s
    BY <1>1
  <2>. HIDE DEF ch
  <2>0. s \in SUBSET B
    OBVIOUS
  <2>3. Cardinality(Covered(s)) = ch[s].size + Cardinality(Covered(s \ {ch[s]}))
    BY <2>0, <2>2, CoveredSum
  <2>. QED
    BY <2>1, <2>2, <2>3
<1>2. g[{}] = 0
  BY FS_EmptySet DEF Covered
<1>. HIDE DEF ch
<1>3. Is(g)
  <2>1. \A s \in SUBSET S : g[s] = IF s = {} THEN 0
                                   ELSE (CHOOSE y \in s : TRUE).size + g[s \ {CHOOSE y \in s : TRUE}]
    BY <1>1, <1>2
  <2>2. g = [s \in SUBSET S |-> g[s]]
    OBVIOUS
  <2>. HIDE DEF g
  <2>. QED
    BY <2>1, <2>2
<1>. DEFINE f == UsedSums(S)
<1>4. f = CHOOSE h : Is(h)
  BY Zenon DEF UsedSums
<1>. HIDE DEF f, g
<1>5. Is(f)
  <2>. HIDE DEF Is
  <2>. QED
    BY <1>3, <1>4
<1>6. f[{}] = g[{}]
  BY <1>2, <1>5
<1>7. \A s \in SUBSET S : s # {} => /\ ch[s] \in s
                                    /\ f[s \ {ch[s]}] = g[s \ {ch[s]}] => f[s] = g[s]
  <2>1. ASSUME NEW s \in SUBSET S, s # {}
        PROVE  f[s] = ch[s].size + f[s \ {ch[s]}]
    BY <1>1, <1>5, <2>1
  <2>. QED
    BY <1>1, <2>1
<1>8. f[S] = g[S]
  <2>1. Agree(S, f, g, ch)
    BY <1>6, <1>7 DEF Agree
  <2>. QED
    BY <2>1, Unique
<1>. QED
  BY <1>8 DEF f, g

LEMMA FreeTotal ==
  ASSUME NEW list, NEW V, NEW e, Good(list, V, e)
  PROVE  FreeSums(list)[DOMAIN list] = Cardinality(Covered(ToSet(list)))
<1>. DEFINE D == DOMAIN list
            On(s) == {list[i] : i \in s}
            ch == [s \in SUBSET D |-> Max(s)]
            Is(f) == f = [s \in SUBSET D |->
                             IF s = {} THEN 0 ELSE f[s \ {Max(s)}] + list[Max(s)].size]
            g == [s \in SUBSET D |-> Cardinality(Covered(On(s)))]
<1>1. /\ D = 1..Len(list) /\ Len(list) \in Nat
      /\ \A i, j \in D : list[i] = list[j] => i = j
  <2>1. /\ list \in Seq(Block) /\ Sorted(list) /\ Len(list) \in Nat /\ D = 1..Len(list)
    BY FreeFacts
  <2>. QED
    BY <2>1, SortedApart
<1>2. IsFiniteSet(D)
  BY <1>1, FS_Interval
<1>3. Tiling(ToSet(list) \cup V, e) /\ On(D) = ToSet(list)
  BY DEF Good, Fair, ToSet
<1>4. ASSUME NEW s \in SUBSET D, s # {}
      PROVE  Max(s) \in s
  <2>. DEFINE T == {Len(list) - i : i \in s}
  <2>1. T \in SUBSET Nat /\ T # {}
    BY <1>1, <1>4
  <2>2. PICK m \in T : \A k \in T : m <= k
    <3>. HIDE DEF T
    <3>. QED
      BY <2>1, LeastOf
  <2>3. PICK i \in s : m = Len(list) - i
    BY <2>2
  <2>4. \A j \in s : i >= j
    <3>. SUFFICES ASSUME NEW j \in s PROVE i >= j
      OBVIOUS
    <3>1. m <= Len(list) - j
      BY <2>2
    <3>. QED
      BY <1>1, <2>3, <3>1
  <2>. HIDE DEF T
  <2>. QED
    BY <2>4 DEF Max
<1>5. ASSUME NEW s \in SUBSET D, s # {}
      PROVE  /\ ch[s] \in s /\ ch[s] = Max(s)
             /\ g[s] = g[s \ {ch[s]}] + list[ch[s]].size
  <2>1. ch[s] = Max(s) /\ ch[s] \in s
    BY <1>4, <1>5
  <2>. HIDE DEF ch
  <2>2. On(s) \in SUBSET (ToSet(list) \cup V) /\ list[ch[s]] \in On(s)
    BY <1>3, <2>1
  <2>3. On(s) \ {list[ch[s]]} = On(s \ {ch[s]})
    BY <1>1, <2>1
  <2>. HIDE DEF On
  <2>4. Cardinality(Covered(On(s))) =
            Cardinality(Covered(On(s) \ {list[ch[s]]})) + list[ch[s]].size
    BY <1>3, <2>2, CoveredSum
  <2>. QED
    BY <2>1, <2>3, <2>4
<1>6. g[{}] = 0
  BY FS_EmptySet DEF Covered
<1>. HIDE DEF ch
<1>7. Is(g)
  <2>1. \A s \in SUBSET D : g[s] = IF s = {} THEN 0 ELSE g[s \ {Max(s)}] + list[Max(s)].size
    <3>. HIDE DEF g, D
    <3>. QED
      BY <1>5, <1>6
  <2>2. g = [s \in SUBSET D |-> g[s]]
    OBVIOUS
  <2>. HIDE DEF g
  <2>. QED
    BY <2>1, <2>2
<1>. DEFINE f == FreeSums(list)
<1>8. f = CHOOSE h : Is(h)
  BY Zenon DEF FreeSums
<1>. HIDE DEF f, g
<1>9. Is(f)
  <2>. HIDE DEF Is
  <2>. QED
    BY <1>7, <1>8
<1>10. f[{}] = g[{}]
  BY <1>6, <1>9
<1>11. \A s \in SUBSET D : s # {} => /\ ch[s] \in s
                                     /\ f[s \ {ch[s]}] = g[s \ {ch[s]}] => f[s] = g[s]
  <2>1. ASSUME NEW s \in SUBSET D, s # {}
        PROVE  f[s] = f[s \ {ch[s]}] + list[ch[s]].size
    BY <1>5, <1>9, <2>1
  <2>. QED
    BY <1>5, <2>1
<1>12. f[D] = g[D]
  <2>. HIDE DEF D
  <2>1. Agree(D, f, g, ch)
    BY <1>10, <1>11 DEF Agree
  <2>. QED
    BY <1>2, <2>1, Unique
<1>. QED
  BY <1>3, <1>12 DEF f, g

LEMMA CountedFromInv ==
  ASSUME MallocInv
  PROVE  Counted
<1>. DEFINE list == heap.free
            V == InUse(heap)
            e == heap.end
<1>1. Good(list, V, e) /\ Fair(ToSet(list), V, e) /\ Tiling(ToSet(list) \cup V, e)
  BY DEF MallocInv, HeapOK, Good, Fair
<1>2. IsFiniteSet(V)
  <2>. DEFINE f == [u \in V |-> u.at]
  <2>1. e \in Nat /\ \A u \in V : u.at \in 0..e
    <3>1. e \in Nat
      BY <1>1 DEF Tiling
    <3>2. \A u \in V : u.at \in Nat /\ EndOf(u) \in Nat /\ u.at < EndOf(u) /\ EndOf(u) <= e
      BY <1>1, Apart
    <3>. QED
      BY <3>1, <3>2
  <2>2. \A u, v \in V : u.at = v.at => u = v
    BY UseFacts DEF MallocInv
  <2>3. f \in Injection(V, 0..e)
    <3>. HIDE DEF V, e
    <3>. QED
      BY <2>1, <2>2 DEF Injection, IsInjective
  <2>4. IsFiniteSet(0..e)
    BY <2>1, FS_Interval
  <2>. QED
    BY <2>3, <2>4, FS_Injection DEF ExistsInjection
<1>3. UsedSums(V)[V] = Cardinality(Covered(V))
  <2>1. V \in SUBSET (ToSet(list) \cup V)
    OBVIOUS
  <2>. QED
    BY <1>1, <1>2, <2>1, UsedTotal
<1>4. FreeSums(list)[DOMAIN list] = Cardinality(Covered(ToSet(list)))
  BY <1>1, FreeTotal
<1>5. mallinfo(heap).uordblks = (e - MallocStart) - FreeSums(list)[DOMAIN list]
  <2>1. mallinfo(heap).uordblks = (e - MallocStart) - FoldLeft(LAMBDA n, b : n + b.size, 0, list)
    BY DEF mallinfo
  <2>. QED
    BY <2>1, FreeSize, Zenon
<1>6. mallinfo(heap).uordblks = UsedSums(V)[V]
  <2>1. Cardinality(Covered(V)) = (e - MallocStart) - Cardinality(Covered(ToSet(list)))
    BY <1>1, Total
  <2>. QED
    BY <1>3, <1>4, <1>5, <2>1, Zenon
<1>7. MapThenSumSet(LAMBDA b : b.size, V) = UsedSums(V)[V]
  BY UsedSize
<1>. QED
  BY <1>6, <1>7, Zenon DEF Counted

\* What mallinfo reports in use is the sum of the sizes of the blocks in use
\* (tiny-malloc.c:515-559).
THEOREM UseCounted == MallocSpec => []Counted
<1>1. MallocInv => Counted
  BY CountedFromInv
<1>. QED
  BY <1>1, HeapWellFormed, PTL

-----------------------------------------------------------------------------
(***************************************************************************)
(* The virtual-memory environment is invisible to the program and none of  *)
(* its assertions fails, for every length of the LFSR that runs through    *)
(* all its addresses.                                                      *)
(*                                                                         *)
(* The invariant relates four things.  The frames taken are the first ones *)
(* of the free list, as many as pages are mapped (ListInv); each mapped    *)
(* page has one of them for itself (FrameInv); a translation the processor *)
(* keeps is the table's entry (TlbInv); and the frame of a page holds what *)
(* the program has in memory, with the bits telling what happened (MemInv, *)
(* AccessInv).  The end of the test runs over all pages: EvictLoopDef says *)
(* that its recursive function exists, EvictOne is the step of the         *)
(* induction, and LeastOf stands for the induction itself.                 *)
(***************************************************************************)
\* EvictLoop is what its recursive definition says.
LEMMA EvictLoopDef ==
  ASSUME NEW now
  PROVE  EvictLoop(now) = [p \in 0..(MAX_TEST_PAGES - 1) |->
                             IF p = 0 THEN now ELSE evict(EvictLoop(now)[p - 1], p)]
<1>. DEFINE Def(f, p) == IF p = 0 THEN now ELSE evict(f[p - 1], p)
            Is(f, n) == f = [p \in 0..n |-> Def(f, p)]
            Bad == {n \in Nat : ~\E f : Is(f, n)}
<1>1. Bad = {}
  <2>. SUFFICES ASSUME Bad # {} PROVE FALSE
    OBVIOUS
  <2>1. PICK m \in Bad : \A k \in Bad : m <= k
    <3>1. Bad \in SUBSET Nat
      OBVIOUS
    <3>. HIDE DEF Bad
    <3>. QED
      BY <3>1, LeastOf
  <2>2. m \in Nat /\ ~\E f : Is(f, m)
    BY <2>1
  <2>3. CASE m = 0
    <3>. DEFINE f == [p \in 0..0 |-> now]
    <3>1. f = [p \in 0..0 |-> Def(f, p)]
      OBVIOUS
    <3>. QED
      BY <2>2, <2>3, <3>1
  <2>4. CASE m # 0
    <3>1. m - 1 \in Nat /\ m - 1 \notin Bad
      <4>1. m \in Nat
        BY <2>2
      <4>. HIDE DEF Bad
      <4>. QED
        BY <4>1, <2>1, <2>4
    <3>2. PICK g : Is(g, m - 1)
      BY <3>1
    <3>. DEFINE h == [p \in 0..m |-> Def(g, p)]
    <3>3. ASSUME NEW p \in 0..m PROVE Def(g, p) = Def(h, p)
      <4>1. CASE p = 0
        BY <4>1
      <4>2. CASE p # 0
        <5>1. p - 1 \in 0..(m - 1) /\ p - 1 \in 0..m
          BY <2>2, <4>2
        <5>2. g[p - 1] = Def(g, p - 1)
          BY <3>2, <5>1
        <5>3. h[p - 1] = Def(g, p - 1)
          BY <5>1
        <5>. QED
          BY <5>2, <5>3, <4>2
      <4>. QED
        BY <4>1, <4>2
    <3>4. h = [p \in 0..m |-> Def(h, p)]
      BY <3>3
    <3>. QED
      BY <2>2, <3>4
  <2>. QED
    BY <2>3, <2>4
<1>2. MAX_TEST_PAGES - 1 \in Nat
  BY VmAssumption
<1>3. \E f : Is(f, MAX_TEST_PAGES - 1)
  BY <1>1, <1>2
<1>4. EvictLoop(now) = CHOOSE f : Is(f, MAX_TEST_PAGES - 1)
  BY Zenon DEF EvictLoop
<1>5. Is(EvictLoop(now), MAX_TEST_PAGES - 1)
  BY <1>3, <1>4, Zenon
<1>. QED
  BY <1>5, Zenon

-----------------------------------------------------------------------------
PteSet == [v : BOOLEAN, ppn : 0..MAX_TEST_PAGES, a : BOOLEAN, d : BOOLEAN]

Mapped == {p \in Pages : user_l3pt[p].v}

\* The free list: its nodes never move, and as many have been taken as there
\* are pages with a frame.
ListInv ==
    /\ naddr \in [Nodes -> 0..MAX_TEST_PAGES]
    /\ DOMAIN nnext = Nodes
    /\ \A i \in Frames : i < MAX_TEST_PAGES => nnext[FreeNode(i)] = FreeNode(i + 1)
    /\ \A i \in Frames : naddr[FreeNode(i)] \in Frames
    /\ \A i, j \in Frames : naddr[FreeNode(i)] = naddr[FreeNode(j)] => i = j
    /\ freelist_head = FreeNode(Cardinality(Mapped) + 1)

\* A mapped page has a frame from the taken part of the list, and no other
\* page has it.
FrameInv ==
    /\ user_l3pt \in [Pages -> PteSet]
    /\ \A p \in Pages : naddr[MapNode(p)] = IF user_l3pt[p].v THEN user_l3pt[p].ppn ELSE 0
    /\ \A p \in Mapped : \E i \in 1..Cardinality(Mapped) : user_l3pt[p].ppn = naddr[FreeNode(i)]
    /\ \A p, q \in Mapped : user_l3pt[p].ppn = user_l3pt[q].ppn => p = q

\* What the processor keeps is what the table says.
TlbInv == \A e \in tlb : e.page \in Pages /\ e.pte = user_l3pt[e.page] /\ e.pte.v

\* Memory is what the program wrote, and the bits say what happened to it.
MemInv ==
    /\ DOMAIN frame = Frames /\ DOMAIN umem = Pages
    /\ \A p \in Pages :
          umem[p] = IF user_l3pt[p].v THEN frame[user_l3pt[p].ppn] ELSE kva[p]
    /\ \A p \in Mapped : ~user_l3pt[p].d => frame[user_l3pt[p].ppn] = kva[p]
    /\ \A p \in Mapped : ~user_l3pt[p].a => access.page = p

\* A fault is about an access that the table does not allow.
AccessInv ==
    /\ access = NoAccess \/ (access.page \in Pages /\ access.kind \in Kinds)
    /\ running \in {"user", "fault"}
    /\ running = "fault" => /\ access # NoAccess
                            /\ ~Allows(user_l3pt[access.page], access.kind)

Running == ListInv /\ FrameInv /\ TlbInv /\ MemInv /\ AccessInv

VmInv == running = "end" \/ Running

-----------------------------------------------------------------------------
\* Two nodes of the lists are different.
LEMMA NodeFacts ==
  /\ \A i \in Frames : FreeNode(i) \in Nodes
  /\ \A p \in Pages : MapNode(p) \in Nodes
  /\ \A x \in Nodes : (\E i \in Frames : x = FreeNode(i)) \/ (\E p \in Pages : x = MapNode(p))
  /\ \A i, p : FreeNode(i) # MapNode(p)
  /\ \A i, j : FreeNode(i) = FreeNode(j) => i = j
  /\ \A p, q : MapNode(p) = MapNode(q) => p = q
  /\ \A i : FreeNode(i) # NoNode
BY DEF Nodes, FreeNode, MapNode, NoNode

\* There is one frame more than there are pages.
LEMMA FrameFacts ==
  /\ MAX_TEST_PAGES \in Nat \ {0}
  /\ Frames = 1..MAX_TEST_PAGES /\ Pages = 1..(MAX_TEST_PAGES - 1)
  /\ Frames \subseteq Nat /\ Pages \subseteq Frames /\ 0 \notin Frames
  /\ IsFiniteSet(Pages) /\ Cardinality(Pages) = MAX_TEST_PAGES - 1
<1>1. MAX_TEST_PAGES \in Nat \ {0}
  BY VmAssumption
<1>. HIDE DEF MAX_TEST_PAGES
<1>2. IsFiniteSet(Pages) /\ Cardinality(Pages) = MAX_TEST_PAGES - 1
  <2>1. 1 \in Int /\ MAX_TEST_PAGES - 1 \in Int
    BY <1>1
  <2>2. IsFiniteSet(Pages)
    BY <2>1, FS_Interval, Zenon DEF Pages
  <2>3. Cardinality(Pages) = IF 1 > MAX_TEST_PAGES - 1 THEN 0 ELSE (MAX_TEST_PAGES - 1) - 1 + 1
    BY <2>1, FS_Interval, Zenon DEF Pages
  <2>. QED
    BY <1>1, <2>2, <2>3
<1>. QED
  BY <1>1, <1>2 DEF Frames, Pages

\* The pages with a frame are at most all of them.
LEMMA MappedCount ==
  /\ IsFiniteSet(Mapped)
  /\ Cardinality(Mapped) \in 0..(MAX_TEST_PAGES - 1)
  /\ \A p \in Pages \ Mapped : Cardinality(Mapped) < MAX_TEST_PAGES - 1
<1>1. Mapped \in SUBSET Pages
  BY DEF Mapped
<1>2. IsFiniteSet(Mapped) /\ Cardinality(Mapped) <= Cardinality(Pages)
      /\ (Cardinality(Mapped) = Cardinality(Pages) => Mapped = Pages)
  <2>1. IsFiniteSet(Pages)
    BY FrameFacts, Zenon
  <2>. QED
    BY <1>1, <2>1, FS_Subset, Zenon
<1>3. Cardinality(Mapped) \in Nat
  BY <1>2, FS_CardinalityType, Zenon
<1>. HIDE DEF MAX_TEST_PAGES, Pages, Mapped
<1>. QED
  BY <1>1, <1>2, <1>3, FrameFacts

-----------------------------------------------------------------------------
\* vm_boot leaves a list of as many frames as there are, in their order.
LEMMA InitRunning == VmInit => Running
<1>. SUFFICES ASSUME VmInit PROVE Running
  OBVIOUS
<1>. HIDE DEF MAX_TEST_PAGES
<1>1. PICK start \in Frames : vm_boot(start)
  BY DEF VmInit
<1>2. Mapped = {} /\ Cardinality(Mapped) = 0
  <2>1. Mapped = {}
    BY <1>1 DEF vm_boot, Mapped, NoPte
  <2>. QED
    BY <2>1, FS_EmptySet, Zenon
<1>3. \A i \in Frames : naddr[FreeNode(i)] = Lfsr(start)[i]
  <2>1. \A i : FreeNode(i)[1] = "free" /\ FreeNode(i)[2] = i
    BY DEF FreeNode
  <2>. QED
    BY <1>1, <2>1, NodeFacts DEF vm_boot
<1>4. \A p \in Pages : naddr[MapNode(p)] = 0
  <2>1. \A p : MapNode(p)[1] = "map"
    BY DEF MapNode
  <2>. QED
    BY <1>1, <2>1, NodeFacts DEF vm_boot
<1>5. ListInv
  <2>1. naddr \in [Nodes -> 0..MAX_TEST_PAGES]
    <3>1. DOMAIN naddr = Nodes /\ naddr = [x \in Nodes |-> naddr[x]]
      BY <1>1 DEF vm_boot
    <3>2. \A x \in Nodes : naddr[x] \in 0..MAX_TEST_PAGES
      BY <1>3, <1>4, NodeFacts, VmAssumption DEF Frames
    <3>. QED
      BY <3>1, <3>2
  <2>2. DOMAIN nnext = Nodes
    BY <1>1 DEF vm_boot
  <2>3. \A i \in Frames : i < MAX_TEST_PAGES => nnext[FreeNode(i)] = FreeNode(i + 1)
    <3>1. \A i : FreeNode(i)[1] = "free" /\ FreeNode(i)[2] = i
      BY DEF FreeNode
    <3>. QED
      BY <1>1, <3>1, NodeFacts DEF vm_boot
  <2>4. freelist_head = FreeNode(Cardinality(Mapped) + 1)
    BY <1>1, <1>2 DEF vm_boot
  <2>. QED
    BY <1>3, <2>1, <2>2, <2>3, <2>4, VmAssumption DEF ListInv
<1>6. user_l3pt = [p \in Pages |-> NoPte] /\ NoPte \in PteSet /\ ~NoPte.v
  BY <1>1, VmAssumption DEF vm_boot, NoPte, PteSet
<1>7. FrameInv
  BY <1>2, <1>4, <1>6 DEF FrameInv
<1>8. TlbInv /\ AccessInv
  BY DEF VmInit, TlbInv, AccessInv
<1>9. MemInv
  BY <1>2, <1>6 DEF VmInit, MemInv
<1>. QED
  BY <1>5, <1>7, <1>8, <1>9 DEF Running
-----------------------------------------------------------------------------
\* While the table and the list stay, so does what they say.
LEMMA SameTable ==
  ASSUME Running, UNCHANGED <<user_l3pt, naddr, nnext, freelist_head>>
  PROVE  ListInv' /\ FrameInv' /\ Mapped' = Mapped
<1>1. Mapped' = Mapped
  BY DEF Mapped
<1>. QED
  BY <1>1 DEF Running, ListInv, FrameInv

\* An access begins: no bit is missing outside of an access.
LEMMA RequestStep ==
  ASSUME Running, NEW p \in Pages, NEW kind \in Kinds, NEW val, Request(p, kind, val)
  PROVE  Running'
<1>1. ListInv' /\ FrameInv' /\ Mapped' = Mapped
  BY SameTable DEF Request
<1>2. TlbInv'
  BY DEF Running, TlbInv, Request
<1>3. access'.page = p /\ access'.kind = kind /\ access = NoAccess
  BY DEF Request
<1>4. MemInv'
  <2>1. \A q \in Mapped : user_l3pt[q].a
    <3>1. NoAccess.page \notin Pages
      BY FrameFacts DEF NoAccess
    <3>. QED
      BY <1>3, <3>1 DEF Running, MemInv, Mapped
  <2>. QED
    BY <1>1, <2>1 DEF Running, MemInv, Request
<1>5. AccessInv'
  BY <1>3 DEF AccessInv, Request
<1>. QED
  BY <1>1, <1>2, <1>4, <1>5 DEF Running

\* What the processor keeps is the table: it faults on what the table forbids.
LEMMA FaultStep ==
  ASSUME Running, Fault
  PROVE  Running'
<1>1. ListInv' /\ FrameInv' /\ Mapped' = Mapped
  BY SameTable DEF Fault
<1>2. TlbInv' /\ MemInv'
  BY <1>1 DEF Running, TlbInv, MemInv, Fault
<1>3. AccessInv'
  <2>1. \A pte \in Usable(access.page) : pte = user_l3pt[access.page]
    BY DEF Usable, Running, TlbInv
  <2>. QED
    BY <2>1 DEF Running, AccessInv, Fault, Allows
<1>. QED
  BY <1>1, <1>2, <1>3 DEF Running

\* A mapped page has a frame that was taken.
LEMMA MappedFrame ==
  ASSUME Running, NEW p \in Mapped
  PROVE  /\ p \in Pages /\ user_l3pt[p].ppn \in Frames /\ user_l3pt[p].v
         /\ \E i \in 1..Cardinality(Mapped) : i \in Frames /\ user_l3pt[p].ppn = naddr[FreeNode(i)]
<1>. HIDE DEF MAX_TEST_PAGES
<1>1. p \in Pages /\ user_l3pt[p].v
  BY DEF Mapped
<1>2. PICK i \in 1..Cardinality(Mapped) : user_l3pt[p].ppn = naddr[FreeNode(i)]
  BY DEF Running, FrameInv
<1>3. i \in Frames
  BY MappedCount, FrameFacts
<1>. QED
  BY <1>1, <1>2, <1>3 DEF Running, ListInv

\* There is one translation of a page that the processor can use.
LEMMA UsableIsTable ==
  ASSUME Running, NEW p \in Pages, NEW pte \in Usable(p)
  PROVE  pte = user_l3pt[p]
BY DEF Running, TlbInv, Usable

\* A store reaches one frame, which belongs to one page.
LEMMA CompleteStep ==
  ASSUME Running, Complete
  PROVE  Running'
<1>1. ListInv' /\ FrameInv' /\ Mapped' = Mapped
  BY SameTable DEF Complete
<1>2. PICK p : p = access.page
  OBVIOUS
<1>3. p \in Pages
  BY <1>2 DEF Running, AccessInv, Complete
<1>4. PICK pte \in Usable(p) :
        /\ Allows(pte, access.kind)
        /\ tlb' = tlb \cup {Cached(p, pte)}
        /\ frame' = IF access.kind = "store" THEN [frame EXCEPT ![pte.ppn] = access.val]
                    ELSE frame
  BY <1>2 DEF Complete
<1>5. pte = user_l3pt[p] /\ p \in Mapped /\ pte.v /\ pte.a /\ (access.kind = "store" => pte.d)
  BY <1>3, <1>4, UsableIsTable DEF Allows, Mapped
<1>6. TlbInv'
  BY <1>3, <1>4, <1>5 DEF Running, TlbInv, Complete, Cached
<1>7. AccessInv'
  BY DEF Running, AccessInv, Complete
<1>8. MemInv'
  <2>1. \A q \in Mapped : user_l3pt[q].a
    BY <1>2, <1>5 DEF Running, MemInv
  <2>2. CASE access.kind # "store"
    <3>1. frame' = frame /\ umem' = umem /\ kva' = kva /\ user_l3pt' = user_l3pt
      BY <1>4, <2>2 DEF Complete
    <3>. QED
      BY <1>1, <2>1, <3>1 DEF Running, MemInv
  <2>3. CASE access.kind = "store"
    <3>1. frame' = [frame EXCEPT ![pte.ppn] = access.val] /\ umem' = [umem EXCEPT ![p] = access.val]
          /\ kva' = kva /\ user_l3pt' = user_l3pt
      BY <1>2, <1>4, <2>3 DEF Complete
    <3>2. pte.ppn \in Frames /\ \A q \in Mapped : user_l3pt[q].ppn \in Frames
      BY <1>5, MappedFrame
    <3>3. \A q \in Mapped : q # p => user_l3pt[q].ppn # pte.ppn
      BY <1>5 DEF Running, FrameInv
    <3>4. \A q \in Mapped : q # p => frame'[user_l3pt[q].ppn] = frame[user_l3pt[q].ppn]
      BY <3>1, <3>2, <3>3 DEF Running, MemInv
    <3>5. frame'[pte.ppn] = access.val
      BY <3>1, <3>2 DEF Running, MemInv
    <3>6. DOMAIN frame' = Frames /\ DOMAIN umem' = Pages
      BY <3>1 DEF Running, MemInv
    <3>7. ASSUME NEW q \in Pages
          PROVE  umem'[q] = IF user_l3pt[q].v THEN frame'[user_l3pt[q].ppn] ELSE kva[q]
      BY <1>3, <1>5, <3>1, <3>4, <3>5 DEF Running, MemInv, Mapped
    <3>8. \A q \in Mapped : ~user_l3pt[q].d => frame'[user_l3pt[q].ppn] = kva[q]
      BY <1>5, <2>3, <3>4 DEF Running, MemInv
    <3>. QED
      BY <1>1, <2>1, <3>1, <3>6, <3>7, <3>8 DEF MemInv
  <2>. QED
    BY <2>2, <2>3
<1>. QED
  BY <1>1, <1>6, <1>7, <1>8 DEF Running
-----------------------------------------------------------------------------
\* The step changes the bits of the page of the access, and its translations go.
Touched(pte) ==
    /\ pte \in PteSet /\ pte.v /\ pte.ppn = user_l3pt[access.page].ppn /\ pte.a
    /\ user_l3pt[access.page].d => pte.d
    /\ user_l3pt[access.page].v
    /\ user_l3pt' = [user_l3pt EXCEPT ![access.page] = pte]
    /\ tlb' = flush_page(tlb, access.page)
    /\ UNCHANGED <<naddr, nnext, freelist_head, frame, kva, umem, access>>

\* Setting bits of an entry changes nothing else, and no stale copy stays.
LEMMA TouchedStep ==
  ASSUME Running, access.page \in Pages, NEW pte, Touched(pte)
  PROVE  ListInv' /\ FrameInv' /\ TlbInv' /\ MemInv'
<1>1. PICK p : p = access.page
  OBVIOUS
<1>2. p \in Pages /\ user_l3pt[p].v /\ user_l3pt'[p] = pte
      /\ \A q \in Pages : q # p => user_l3pt'[q] = user_l3pt[q]
  BY <1>1 DEF Touched, Running, FrameInv
<1>3. \A q \in Pages : user_l3pt'[q].v = user_l3pt[q].v /\ user_l3pt'[q].ppn = user_l3pt[q].ppn
                       /\ (user_l3pt[q].d => user_l3pt'[q].d)
  <2>1. user_l3pt[p] \in PteSet /\ pte \in PteSet
    BY <1>2 DEF Touched, Running, FrameInv
  <2>2. user_l3pt'[p].v = user_l3pt[p].v
    BY <1>1, <1>2, <2>1 DEF Touched, PteSet
  <2>. QED
    BY <1>1, <1>2, <2>2 DEF Touched
<1>4. Mapped' = Mapped
  BY <1>3 DEF Mapped
<1>5. ListInv'
  BY <1>4 DEF Running, ListInv, Touched
<1>6. FrameInv'
  <2>1. user_l3pt' \in [Pages -> PteSet]
    BY <1>2 DEF Running, FrameInv, Touched
  <2>. QED
    BY <1>3, <1>4, <2>1 DEF Running, FrameInv, Touched, Mapped
<1>7. TlbInv'
  BY <1>1, <1>2 DEF Running, TlbInv, Touched, flush_page
<1>8. MemInv'
  <2>1. \A q \in Mapped : ~user_l3pt'[q].a => access'.page = q
    BY <1>1, <1>2 DEF Running, MemInv, Touched, Mapped
  <2>. QED
    BY <1>3, <1>4, <2>1 DEF Running, MemInv, Touched, Mapped
<1>. QED
  BY <1>5, <1>6, <1>7, <1>8

\* The processor sets the bits itself.
LEMMA SetBitsStep ==
  ASSUME Running, SetBits
  PROVE  Running'
<1>1. PICK p : p = access.page
  OBVIOUS
<1>2. p \in Pages /\ access # NoAccess
  BY <1>1 DEF Running, AccessInv, SetBits
<1>3. PICK pte : pte = [user_l3pt[p] EXCEPT !.a = TRUE, !.d = @ \/ access.kind = "store"]
  OBVIOUS
<1>4. Touched(pte)
  <2>1. user_l3pt[p] \in PteSet
    BY <1>2 DEF Running, FrameInv
  <2>2. pte \in PteSet /\ pte.v = user_l3pt[p].v /\ pte.ppn = user_l3pt[p].ppn /\ pte.a
        /\ (user_l3pt[p].d => pte.d)
    BY <1>3, <2>1 DEF PteSet
  <2>3. user_l3pt' = [user_l3pt EXCEPT ![p] = pte]
    BY <1>1, <1>2, <1>3, <2>1 DEF SetBits, Running, FrameInv, PteSet
  <2>. QED
    BY <1>1, <2>2, <2>3 DEF Touched, SetBits
<1>5. AccessInv'
  BY DEF Running, AccessInv, SetBits
<1>. QED
  BY <1>1, <1>2, <1>4, <1>5, TouchedStep DEF Running

\* The fault of a mapped page is one for a clear bit, and sets it.
LEMMA MarkPageStep ==
  ASSUME Running, MarkPage
  PROVE  Running'
<1>1. PICK p : p = access.page
  OBVIOUS
<1>2. p \in Pages /\ access # NoAccess /\ user_l3pt[p].v /\ ~Allows(user_l3pt[p], access.kind)
  BY <1>1 DEF Running, AccessInv, MarkPage
<1>3. PICK pte : pte = IF user_l3pt[p].a THEN [user_l3pt[p] EXCEPT !.d = TRUE]
                       ELSE [user_l3pt[p] EXCEPT !.a = TRUE]
  OBVIOUS
<1>4. Touched(pte)
  <2>1. user_l3pt[p] \in PteSet
    BY <1>2 DEF Running, FrameInv
  <2>2. pte \in PteSet /\ pte.v = user_l3pt[p].v /\ pte.ppn = user_l3pt[p].ppn /\ pte.a
        /\ (user_l3pt[p].d => pte.d)
    BY <1>3, <2>1 DEF PteSet
  <2>3. user_l3pt' = [user_l3pt EXCEPT ![p] = pte]
    BY <1>1, <1>3 DEF MarkPage
  <2>. QED
    BY <1>1, <1>2, <2>2, <2>3 DEF Touched, MarkPage
<1>5. running' = "user"
  BY <1>1, <1>2 DEF MarkPage, KernelAssert, Allows
<1>6. AccessInv'
  BY <1>5 DEF Running, AccessInv, MarkPage
<1>. QED
  BY <1>1, <1>2, <1>4, <1>6, TouchedStep DEF Running

-----------------------------------------------------------------------------
\* There is a frame for the page, the first of the list; nobody else has it.
LEMMA BringInStep ==
  ASSUME Running, BringIn
  PROVE  Running'
<1>. HIDE DEF MAX_TEST_PAGES
<1>1. PICK p : p = access.page
  OBVIOUS
<1>2. PICK k : k = Cardinality(Mapped)
  OBVIOUS
<1>3. PICK node : node = freelist_head
  OBVIOUS
<1>4. PICK f : f = naddr[node]
  OBVIOUS
<1>5. p \in Pages /\ p \notin Mapped /\ access # NoAccess /\ running = "fault"
  BY <1>1 DEF Running, AccessInv, BringIn, Mapped
<1>6. k \in Nat /\ k + 1 \in Frames /\ k + 1 < MAX_TEST_PAGES /\ \A i \in 1..k : i \in Frames /\ i # k + 1
  BY <1>2, <1>5, MappedCount, FrameFacts
<1>7. node = FreeNode(k + 1) /\ node \in Nodes /\ node # NoNode /\ \A q \in Pages : node # MapNode(q)
  BY <1>2, <1>3, <1>6, NodeFacts DEF Running, ListInv
<1>8. f \in Frames /\ naddr[MapNode(p)] = 0
      /\ \A q \in Mapped : user_l3pt[q].ppn # f
  <2>1. f \in Frames /\ \A i \in 1..k : naddr[FreeNode(i)] # f
    BY <1>4, <1>6, <1>7 DEF Running, ListInv
  <2>2. naddr[MapNode(p)] = 0
    BY <1>5 DEF Running, FrameInv, Mapped
  <2>. QED
    BY <1>2, <2>1, <2>2 DEF Running, FrameInv
<1>9. /\ freelist_head' = nnext[node]
      /\ naddr' = [naddr EXCEPT ![MapNode(p)] = f]
      /\ nnext' = [nnext EXCEPT ![MapNode(p)] = nnext[node]]
      /\ frame' = [frame EXCEPT ![f] = kva[p]]
      /\ user_l3pt' = [user_l3pt EXCEPT ![p] = Pte(f, FALSE)]
      /\ tlb' = flush_page(flush_page(tlb, p) \cup {Cached(p, Pte(f, TRUE))}, p)
      /\ running' = "user"
  BY <1>1, <1>3, <1>4, <1>7, <1>8 DEF BringIn, PopHead, KernelAssert
<1>10. kva' = kva /\ access' = access /\ umem' = umem
  BY DEF BringIn
<1>11. /\ \A i \in Frames : naddr'[FreeNode(i)] = naddr[FreeNode(i)] /\ nnext'[FreeNode(i)] = nnext[FreeNode(i)]
       /\ naddr'[MapNode(p)] = f
       /\ \A q \in Pages : q # p => naddr'[MapNode(q)] = naddr[MapNode(q)]
  BY <1>5, <1>9, NodeFacts DEF Running, ListInv
<1>12. /\ user_l3pt'[p] = Pte(f, FALSE) /\ Pte(f, FALSE) \in PteSet
       /\ \A q \in Pages : q # p => user_l3pt'[q] = user_l3pt[q]
       /\ user_l3pt' \in [Pages -> PteSet]
  <2>1. Pte(f, FALSE) \in PteSet
    BY <1>8, FrameFacts DEF Pte, PteSet
  <2>. QED
    BY <1>5, <1>9, <2>1 DEF Running, FrameInv
<1>13. Pte(f, FALSE).v /\ Pte(f, FALSE).ppn = f /\ ~Pte(f, FALSE).a /\ ~Pte(f, FALSE).d
  BY DEF Pte
<1>14. Mapped' = Mapped \cup {p} /\ Cardinality(Mapped') = k + 1
  <2>1. Mapped' = Mapped \cup {p}
    BY <1>5, <1>12, <1>13 DEF Mapped
  <2>2. Cardinality(Mapped \cup {p}) = Cardinality(Mapped) + 1
    BY <1>5, MappedCount, FS_AddElement, Zenon
  <2>. QED
    BY <1>2, <2>1, <2>2
<1>15. ListInv'
  <2>1. naddr' \in [Nodes -> 0..MAX_TEST_PAGES]
    <3>1. f \in 0..MAX_TEST_PAGES
      BY <1>8, FrameFacts
    <3>. QED
      BY <1>9, <3>1 DEF Running, ListInv
  <2>2. DOMAIN nnext' = Nodes
    BY <1>9 DEF Running, ListInv
  <2>3. freelist_head' = FreeNode(Cardinality(Mapped') + 1)
    BY <1>6, <1>7, <1>9, <1>14 DEF Running, ListInv
  <2>. QED
    BY <1>11, <2>1, <2>2, <2>3 DEF Running, ListInv
<1>16. FrameInv'
  <2>1. \A q \in Pages :
          naddr'[MapNode(q)] = IF user_l3pt'[q].v THEN user_l3pt'[q].ppn ELSE 0
    <3>1. naddr'[MapNode(p)] = IF user_l3pt'[p].v THEN user_l3pt'[p].ppn ELSE 0
      BY <1>11, <1>12, <1>13
    <3>2. ASSUME NEW q \in Pages, q # p
          PROVE  naddr'[MapNode(q)] = IF user_l3pt'[q].v THEN user_l3pt'[q].ppn ELSE 0
      <4>1. naddr'[MapNode(q)] = naddr[MapNode(q)] /\ user_l3pt'[q] = user_l3pt[q]
        BY <1>11, <1>12, <3>2
      <4>. QED
        BY <4>1 DEF Running, FrameInv
    <3>. QED
      BY <3>1, <3>2
  <2>2. \A q \in Mapped' : \E i \in 1..(k + 1) : user_l3pt'[q].ppn = naddr'[FreeNode(i)]
    <3>1. k + 1 \in 1..(k + 1) /\ user_l3pt'[p].ppn = naddr'[FreeNode(k + 1)]
      <4>1. k + 1 \in 1..(k + 1)
        BY <1>6
      <4>2. naddr'[FreeNode(k + 1)] = f
        BY <1>4, <1>6, <1>7, <1>11
      <4>3. user_l3pt'[p].ppn = f
        BY <1>12, <1>13
      <4>. QED
        BY <4>1, <4>2, <4>3
    <3>2. ASSUME NEW q \in Mapped PROVE \E i \in 1..(k + 1) : user_l3pt'[q].ppn = naddr'[FreeNode(i)]
      <4>1. PICK i \in 1..k : user_l3pt[q].ppn = naddr[FreeNode(i)]
        BY <1>2 DEF Running, FrameInv
      <4>2. q \in Pages /\ q # p
        BY <1>5 DEF Mapped
      <4>3. i \in 1..(k + 1)
        BY <1>6
      <4>. QED
        BY <1>6, <1>11, <1>12, <4>1, <4>2, <4>3
    <3>. QED
      BY <1>14, <3>1, <3>2
  <2>3. \A q, r \in Mapped' : user_l3pt'[q].ppn = user_l3pt'[r].ppn => q = r
    <3>1. \A q \in Mapped : q \in Pages /\ q # p
      BY <1>5 DEF Mapped
    <3>. QED
      <4>1. ASSUME NEW q \in Mapped, NEW r \in Mapped, user_l3pt'[q].ppn = user_l3pt'[r].ppn
            PROVE  q = r
        <5>1. user_l3pt[q].ppn = user_l3pt[r].ppn
          BY <1>12, <3>1, <4>1
        <5>. QED
          BY <5>1 DEF Running, FrameInv
      <4>2. \A q \in Mapped : user_l3pt'[q].ppn # user_l3pt'[p].ppn
        BY <1>8, <1>12, <1>13, <3>1
      <4>. QED
        BY <1>14, <4>1, <4>2
  <2>. QED
    BY <1>12, <1>14, <2>1, <2>2, <2>3 DEF FrameInv
<1>17. TlbInv'
  <2>1. Cached(p, Pte(f, TRUE)).page = p
    BY DEF Cached
  <2>2. \A e \in tlb' : e \in tlb /\ e.page # p
    BY <1>9, <2>1 DEF flush_page
  <2>. QED
    BY <1>12, <2>2 DEF Running, TlbInv
<1>18. MemInv'
  <2>1. DOMAIN frame' = Frames /\ DOMAIN umem' = Pages
    BY <1>9, <1>10 DEF Running, MemInv
  <2>2. frame'[f] = kva[p] /\ \A q \in Mapped : frame'[user_l3pt[q].ppn] = frame[user_l3pt[q].ppn]
    <3>1. \A q \in Mapped : user_l3pt[q].ppn \in Frames
      BY MappedFrame
    <3>. QED
      BY <1>8, <1>9, <3>1 DEF Running, MemInv
  <2>3. umem[p] = kva[p]
    BY <1>5 DEF Running, MemInv, Mapped
  <2>4. \A q \in Pages :
          umem'[q] = IF user_l3pt'[q].v THEN frame'[user_l3pt'[q].ppn] ELSE kva'[q]
    <3>1. ASSUME NEW q \in Pages, q # p
          PROVE  umem'[q] = IF user_l3pt'[q].v THEN frame'[user_l3pt'[q].ppn] ELSE kva'[q]
      <4>1. user_l3pt'[q] = user_l3pt[q] /\ umem'[q] = umem[q] /\ kva'[q] = kva[q]
        BY <1>10, <1>12, <3>1
      <4>2. user_l3pt[q].v => frame'[user_l3pt[q].ppn] = frame[user_l3pt[q].ppn]
        BY <2>2 DEF Mapped
      <4>3. umem[q] = IF user_l3pt[q].v THEN frame[user_l3pt[q].ppn] ELSE kva[q]
        BY DEF Running, MemInv
      <4>. QED
        BY <4>1, <4>2, <4>3
    <3>2. umem'[p] = IF user_l3pt'[p].v THEN frame'[user_l3pt'[p].ppn] ELSE kva'[p]
      BY <1>10, <1>12, <1>13, <2>2, <2>3
    <3>. QED
      BY <3>1, <3>2
  <2>5. \A q \in Mapped' : ~user_l3pt'[q].d => frame'[user_l3pt'[q].ppn] = kva'[q]
    <3>1. ASSUME NEW q \in Mapped, ~user_l3pt'[q].d
          PROVE  frame'[user_l3pt'[q].ppn] = kva'[q]
      <4>1. q \in Pages /\ q # p /\ user_l3pt'[q] = user_l3pt[q]
        BY <1>5, <1>12 DEF Mapped
      <4>2. frame[user_l3pt[q].ppn] = kva[q]
        BY <3>1, <4>1 DEF Running, MemInv
      <4>. QED
        BY <1>10, <2>2, <4>1, <4>2
    <3>2. frame'[user_l3pt'[p].ppn] = kva'[p]
      BY <1>10, <1>12, <1>13, <2>2
    <3>. QED
      BY <1>14, <3>1, <3>2
  <2>6. \A q \in Mapped' : ~user_l3pt'[q].a => access'.page = q
    BY <1>1, <1>5, <1>10, <1>12, <1>14 DEF Running, MemInv, Mapped
  <2>. QED
    BY <2>1, <2>4, <2>5, <2>6 DEF MemInv
<1>19. AccessInv'
  BY <1>9, <1>10 DEF Running, AccessInv
<1>. QED
  BY <1>15, <1>16, <1>17, <1>18, <1>19 DEF Running

-----------------------------------------------------------------------------
\* A state of the kernel during the loop over all pages.
KernelState(s) ==
    /\ s = [ok |-> s.ok, frame |-> s.frame, addr |-> s.addr, next |-> s.next,
            head |-> s.head, tail |-> s.tail]
    /\ DOMAIN s.frame = Frames /\ DOMAIN s.addr = Nodes

\* Page p is as it was when the loop began.
Untouched(s, p) ==
    /\ s.addr[MapNode(p)] = naddr[MapNode(p)]
    /\ p \in Mapped => s.frame[user_l3pt[p].ppn] = frame[user_l3pt[p].ppn]

\* The checks of evict succeed, and it leaves the other pages alone.
LEMMA EvictOne ==
  ASSUME Running, access = NoAccess, NEW p \in Pages,
         NEW s, KernelState(s), s.ok = TRUE, Untouched(s, p)
  PROVE  /\ KernelState(evict(s, p)) /\ evict(s, p).ok = TRUE
         /\ \A q \in Pages : q # p /\ Untouched(s, q) => Untouched(evict(s, p), q)
<1>. HIDE DEF MAX_TEST_PAGES
<1>1. PICK node : node = MapNode(p)
  OBVIOUS
<1>2. node \in Nodes /\ \A q \in Pages : q # p => MapNode(q) \in Nodes /\ MapNode(q) # node
  BY <1>1, NodeFacts
<1>3. CASE s.addr[node] = 0
  BY <1>1, <1>3 DEF evict
<1>4. CASE s.addr[node] # 0
  <2>1. p \in Mapped /\ s.addr[node] = user_l3pt[p].ppn
    BY <1>1, <1>4 DEF Running, FrameInv, Mapped, Untouched
  <2>2. PICK f : f = s.addr[node]
    OBVIOUS
  <2>3. f \in Frames /\ f = user_l3pt[p].ppn
        /\ \A q \in Mapped : q # p => user_l3pt[q].ppn \in Frames /\ user_l3pt[q].ppn # f
    BY <2>1, <2>2, MappedFrame DEF Running, FrameInv
  <2>4. user_l3pt[p].a /\ (s.frame[f] # kva[p] => user_l3pt[p].d)
    <3>1. NoAccess.page \notin Pages
      BY FrameFacts DEF NoAccess
    <3>. QED
      BY <2>1, <2>3, <3>1 DEF Running, MemInv, Untouched
  <2>5. PICK gone : gone = [s EXCEPT
                    !.ok = @ /\ user_l3pt[p].a /\ (s.frame[s.addr[node]] # kva[p] => user_l3pt[p].d),
                    !.frame[s.addr[node]] = kva[p],
                    !.addr[node] = 0,
                    !.tail = node]
    OBVIOUS
  <2>6. gone = [ok |-> TRUE, frame |-> [s.frame EXCEPT ![f] = kva[p]],
                addr |-> [s.addr EXCEPT ![node] = 0], next |-> s.next,
                head |-> s.head, tail |-> node]
    BY <2>2, <2>4, <2>5 DEF KernelState
  <2>7. PICK r : r = evict(s, p)
    OBVIOUS
  <2>8. \/ r = [gone EXCEPT !.head = node]
        \/ r = [gone EXCEPT !.next[s.tail] = node]
    BY <1>1, <1>4, <2>5, <2>7 DEF evict
  <2>9. r = [ok |-> TRUE, frame |-> [s.frame EXCEPT ![f] = kva[p]],
             addr |-> [s.addr EXCEPT ![node] = 0], next |-> r.next,
             head |-> r.head, tail |-> r.tail]
    BY <2>6, <2>8
  <2>10. r.ok = TRUE /\ r.frame = [s.frame EXCEPT ![f] = kva[p]]
         /\ r.addr = [s.addr EXCEPT ![node] = 0]
    BY <2>9
  <2>11. KernelState(r)
    BY <2>9, <2>10 DEF KernelState
  <2>12. ASSUME NEW q \in Pages, q # p, Untouched(s, q) PROVE Untouched(r, q)
    <3>1. r.addr[MapNode(q)] = s.addr[MapNode(q)]
      BY <1>2, <2>10, <2>12 DEF KernelState
    <3>2. q \in Mapped => r.frame[user_l3pt[q].ppn] = s.frame[user_l3pt[q].ppn]
      BY <2>3, <2>10, <2>12 DEF KernelState
    <3>. QED
      BY <2>12, <3>1, <3>2 DEF Untouched
  <2>. QED
    BY <2>7, <2>10, <2>11, <2>12
<1>. QED
  BY <1>3, <1>4

\* No check of the loop fails.
LEMMA EcallStep ==
  ASSUME Running, Ecall
  PROVE  running' = "end"
<1>. HIDE DEF MAX_TEST_PAGES
<1>1. PICK now : now = [ok |-> TRUE, frame |-> frame, addr |-> naddr, next |-> nnext,
                        head |-> freelist_head, tail |-> freelist_tail]
  OBVIOUS
<1>2. PICK after : after = EvictLoop(now)
  OBVIOUS
<1>3. after = [p \in 0..(MAX_TEST_PAGES - 1) |->
                 IF p = 0 THEN now ELSE evict(after[p - 1], p)]
  BY <1>2, EvictLoopDef, Zenon
<1>. DEFINE AsExpected(n) == /\ KernelState(after[n]) /\ after[n].ok = TRUE
                       /\ \A q \in Pages : q > n => Untouched(after[n], q)
            Bad == {n \in 0..(MAX_TEST_PAGES - 1) : ~AsExpected(n)}
<1>4. AsExpected(0)
  <2>1. after[0] = now
    BY <1>3, FrameFacts
  <2>2. now.frame = frame /\ now.addr = naddr /\ now.ok = TRUE
    BY <1>1
  <2>3. KernelState(now)
    BY <1>1 DEF KernelState, Running, ListInv, MemInv
  <2>4. \A q \in Pages : Untouched(now, q)
    BY <2>2 DEF Untouched
  <2>. QED
    BY <2>1, <2>2, <2>3, <2>4
<1>5. ASSUME NEW n \in 1..(MAX_TEST_PAGES - 1), AsExpected(n - 1) PROVE AsExpected(n)
  <2>1. after[n] = evict(after[n - 1], n) /\ n \in Pages /\ n > n - 1
    BY <1>3, FrameFacts
  <2>2. access = NoAccess
    BY DEF Ecall
  <2>3. PICK s : s = after[n - 1]
    OBVIOUS
  <2>4. KernelState(s) /\ s.ok = TRUE /\ Untouched(s, n)
    BY <1>5, <2>1, <2>3
  <2>5. /\ KernelState(evict(s, n)) /\ evict(s, n).ok = TRUE
        /\ \A q \in Pages : q # n /\ Untouched(s, q) => Untouched(evict(s, n), q)
    BY <2>1, <2>2, <2>4, EvictOne
  <2>6. ASSUME NEW q \in Pages, q > n PROVE Untouched(evict(s, n), q)
    <3>1. q # n /\ q > n - 1
      BY <2>6, FrameFacts
    <3>2. Untouched(s, q)
      BY <1>5, <2>3, <3>1
    <3>. QED
      BY <2>5, <3>1, <3>2
  <2>. QED
    BY <2>1, <2>3, <2>5, <2>6
<1>. HIDE DEF AsExpected
<1>6. Bad = {}
  <2>. SUFFICES ASSUME Bad # {} PROVE FALSE
    OBVIOUS
  <2>1. Bad \in SUBSET Nat
    BY FrameFacts
  <2>2. PICK m \in Bad : \A k \in Bad : m <= k
    <3>. HIDE DEF Bad
    <3>. QED
      BY <2>1, LeastOf
  <2>3. m \in 1..(MAX_TEST_PAGES - 1) /\ m - 1 \in 0..(MAX_TEST_PAGES - 1)
    BY <1>4, <2>2, FrameFacts
  <2>4. AsExpected(m - 1)
    BY <2>2, <2>3
  <2>. QED
    BY <1>5, <2>2, <2>3, <2>4
<1>7. AsExpected(MAX_TEST_PAGES - 1)
  BY <1>6, FrameFacts
<1>8. after[MAX_TEST_PAGES - 1].ok = TRUE
  BY <1>7 DEF AsExpected
<1>. QED
  BY <1>1, <1>2, <1>8 DEF Ecall
-----------------------------------------------------------------------------
\* Every step keeps the invariant.
LEMMA Inductive == VmInv /\ [VmNext]_vmvars => VmInv'
<1>. SUFFICES ASSUME VmInv, [VmNext]_vmvars PROVE VmInv'
  OBVIOUS
<1>1. CASE running = "end"
  <2>1. running' = "end"
    BY <1>1 DEF VmNext, Request, Complete, SetBits, Fault, MarkPage, BringIn, Ecall, vmvars
  <2>. QED
    BY <2>1 DEF VmInv
<1>2. CASE Running
  <2>1. CASE UNCHANGED vmvars
    <3>1. Mapped' = Mapped
      BY <2>1 DEF vmvars, Mapped
    <3>2. Running'
      BY <1>2, <2>1, <3>1 DEF vmvars, Running, ListInv, FrameInv, TlbInv, MemInv, AccessInv
    <3>. QED
      BY <3>2 DEF VmInv
  <2>2. ASSUME NEW p \in Pages, NEW kind \in Kinds, NEW val, Request(p, kind, val) PROVE VmInv'
    BY <1>2, <2>2, RequestStep DEF VmInv
  <2>3. CASE Complete
    BY <1>2, <2>3, CompleteStep DEF VmInv
  <2>4. CASE SetBits
    BY <1>2, <2>4, SetBitsStep DEF VmInv
  <2>5. CASE Fault
    BY <1>2, <2>5, FaultStep DEF VmInv
  <2>6. CASE MarkPage
    BY <1>2, <2>6, MarkPageStep DEF VmInv
  <2>7. CASE BringIn
    BY <1>2, <2>7, BringInStep DEF VmInv
  <2>8. CASE Ecall
    BY <1>2, <2>8, EcallStep DEF VmInv
  <2>. QED
    BY <2>1, <2>2, <2>3, <2>4, <2>5, <2>6, <2>7, <2>8 DEF VmNext
<1>. QED
  BY <1>1, <1>2 DEF VmInv

\* The invariant holds in every reachable state.
LEMMA InvHolds == VmSpec => []VmInv
<1>1. VmInit => VmInv
  BY InitRunning DEF VmInv
<1>. QED
  BY <1>1, Inductive, PTL DEF VmSpec

\* The program reads what it wrote or what was loaded, through any translation
\* that the processor may use, whatever the order of faults, accesses and
\* bits: handle_fault is invisible (vm.c:123-160).
THEOREM HandlingIsInvisible == VmSpec => []MemoryTransparent
<1>1. VmInv => MemoryTransparent
  <2>. SUFFICES ASSUME Running, NEW p \in Pages
                PROVE  /\ \A pte \in Usable(p) : pte.v => frame[pte.ppn] = umem[p]
                       /\ ~user_l3pt[p].v => kva[p] = umem[p]
    BY DEF VmInv, MemoryTransparent
  <2>1. \A pte \in Usable(p) : pte = user_l3pt[p]
    BY UsableIsTable
  <2>. QED
    BY <2>1 DEF Running, MemInv
<1>. QED
  BY <1>1, InvHolds, PTL

\* The handler always finds a frame and a clear bit to set, and at the end
\* every page that was read or changed has the bit that says so: no assertion
\* fails (vm.c:96, 104-107, 125, 132, 139, 147).
THEOREM AssertionsHold == VmSpec => []NoAssertionFails
<1>1. VmInv => NoAssertionFails
  BY DEF VmInv, Running, AccessInv, NoAssertionFails
<1>. QED
  BY <1>1, InvHolds, PTL

=============================================================================
