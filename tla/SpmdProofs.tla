----------------------------- MODULE SpmdProofs -----------------------------
(***************************************************************************)
(* The programs of riscv-tests/mt for every number of cores and every      *)
(* dimension that Fits allows: first the barrier of common/util.h, then    *)
(* the program around a kernel, whose cores stay in step because they wait *)
(* equally often, then the division of the work by every kernel.           *)
(*                                                                         *)
(* In the barrier the count alone says nothing once threads of two rounds  *)
(* are inside; the inductive invariant BInv relates it, and the senses, to *)
(* the rounds.                                                             *)
(***************************************************************************)
EXTENDS Spmd, FiniteSetTheorems, TLAPS

Odd(n) == n % 2 = 1

\* The threads that have entered the barrier that is not open yet.
Arrived(n) == {t \in Threads(n) : round[t] = gen + 1}

Closing(t) == pc[t] \in {"reset", "release"}

\* The sense of a thread is the parity of its rounds, the shared one that of
\* the openings.
Senses(n) ==
    /\ \A t \in Threads(n) : threadsense[t] = Odd(round[t])
    /\ sense = Odd(gen)

\* A thread is in the current round or has entered the next one, and it is
\* outside only in the current one.
Rounds(n) ==
    /\ \A t \in Threads(n) : round[t] \in {gen, gen + 1}
    /\ \A t \in Threads(n) : pc[t] = "out" => round[t] = gen

\* Who resets and releases is the last one: everybody has arrived and spins.
LastOne(n) ==
    \A t \in Threads(n) : Closing(t) =>
        \A u \in Threads(n) : round[u] = gen + 1 /\ (u # t => pc[u] = "spin")

Counted(n) ==
    count = IF \E t \in Threads(n) : pc[t] = "release" THEN 0 ELSE Cardinality(Arrived(n))

BInv(n) == BarrierTypes(n) /\ Senses(n) /\ Rounds(n) /\ LastOne(n) /\ Counted(n)

-----------------------------------------------------------------------------
LEMMA Parity == \A n \in Nat : Odd(n + 1) = ~Odd(n)
  BY DEF Odd

\* A set of threads is finite and has n members only if it is all.
LEMMA ThreadSets ==
    ASSUME NEW n \in Nat \ {0}, NEW S, S \subseteq Threads(n)
    PROVE  /\ IsFiniteSet(S) /\ Cardinality(S) \in Nat
           /\ Cardinality(S) = n => S = Threads(n)
<1>1. IsFiniteSet(0..(n - 1)) /\ Cardinality(0..(n - 1)) = n
  <2>1. 0 \in Int /\ n - 1 \in Int /\ (0 <= n - 1) /\ (n - 1) - 0 + 1 = n
    OBVIOUS
  <2> QED BY <2>1, FS_Interval
<1>2. IsFiniteSet(Threads(n)) /\ Cardinality(Threads(n)) = n
  BY <1>1 DEF Threads
<1>3. IsFiniteSet(S) /\ (Cardinality(S) = n => S = Threads(n))
  BY <1>2, FS_Subset
<1> QED BY <1>3, FS_CardinalityType

LEMMA InitHolds ==
    ASSUME NEW n \in Nat \ {0}, BarrierInit(n)
    PROVE  BInv(n)
<1> USE DEF BarrierInit
<1>1. BarrierTypes(n) /\ Senses(n) /\ Rounds(n) /\ LastOne(n)
  <2>1. BarrierTypes(n)
    BY DEF BarrierTypes
  <2>2. Odd(0) = FALSE
    BY DEF Odd
  <2>3. Senses(n)
    <3>1. \A t \in Threads(n) : threadsense[t] = FALSE /\ round[t] = 0
      OBVIOUS
    <3> QED BY <2>2, <3>1, Zenon DEF Senses
  <2>4. Rounds(n) /\ LastOne(n)
    BY DEF Rounds, LastOne, Closing
  <2> QED BY <2>1, <2>3, <2>4
<1>2. Arrived(n) = {}
  BY DEF Arrived
<1>3. Counted(n)
  BY <1>2, FS_EmptySet DEF Counted
<1> QED BY <1>1, <1>3 DEF BInv

-----------------------------------------------------------------------------
\* A thread enters: it was in the current round, so it is one more.  If it is
\* the n-th, the others are all in the barrier.
LEMMA ArriveKeeps ==
    ASSUME NEW n \in Nat \ {0}, BInv(n), NEW t \in Threads(n), Arrive(t, n)
    PROVE  BInv(n)'
<1> USE DEF BInv
<1>1. /\ pc[t] = "out" /\ round[t] = gen /\ gen \in Nat
      /\ gen' = gen /\ sense' = sense /\ count' = count + 1
      /\ round' = [round EXCEPT ![t] = gen + 1]
      /\ threadsense' = [threadsense EXCEPT ![t] = ~threadsense[t]]
      /\ pc' = [pc EXCEPT ![t] = IF count = n - 1 THEN "reset" ELSE "spin"]
  BY DEF Arrive, Rounds, BarrierTypes
<1>2. \A u \in Threads(n) : ~Closing(u)
  BY <1>1 DEF LastOne
<1>3. count = Cardinality(Arrived(n))
  BY <1>2 DEF Counted, Closing
<1>4. BarrierTypes(n)'
  BY <1>1 DEF BarrierTypes
<1>5. Senses(n)'
  BY <1>1, Parity DEF Senses, BarrierTypes
<1>6. Rounds(n)'
  BY <1>1 DEF Rounds, BarrierTypes
<1>7. Arrived(n)' = Arrived(n) \cup {t} /\ t \notin Arrived(n)
  BY <1>1 DEF Arrived, BarrierTypes
<1>8. Cardinality(Arrived(n)') = Cardinality(Arrived(n)) + 1
  <2>1. IsFiniteSet(Arrived(n))
    <3>1. Arrived(n) \subseteq Threads(n)
      BY DEF Arrived
    <3> QED BY <3>1, ThreadSets
  <2> QED BY <1>7, <2>1, FS_AddElement
<1>9. \A u \in Threads(n) : pc'[u] # "release"
  BY <1>1, <1>2 DEF BarrierTypes, Closing
<1>10. Counted(n)'
  BY <1>1, <1>3, <1>8, <1>9 DEF Counted
<1>11. LastOne(n)'
  <2>1. CASE count = n - 1
    <3>1. Cardinality(Arrived(n)') = n
      BY <2>1, <1>3, <1>8
    <3>2. Arrived(n)' = Threads(n)
      <4>1. Arrived(n)' \subseteq Threads(n)
        BY DEF Arrived
      <4> QED BY <3>1, <4>1, ThreadSets
    <3>3. \A u \in Threads(n) : round'[u] = gen' + 1
      BY <3>2 DEF Arrived
    <3>4. \A u \in Threads(n) : u # t => pc[u] = "spin"
      <4>1. SUFFICES ASSUME NEW u \in Threads(n), u # t PROVE pc[u] = "spin"
        OBVIOUS
      <4>2. round[u] = gen + 1
        BY <4>1, <3>3, <1>1 DEF BarrierTypes
      <4>3. pc[u] # "out"
        BY <4>2, <1>1 DEF Rounds
      <4> QED BY <4>3, <1>2 DEF BarrierTypes, Closing
    <3> QED BY <3>3, <3>4, <1>1, <1>2 DEF LastOne, Closing, BarrierTypes
  <2>2. CASE count # n - 1
    <3>1. \A u \in Threads(n) : ~Closing(u)'
      BY <2>2, <1>1, <1>2 DEF Closing, BarrierTypes
    <3> QED BY <3>1 DEF LastOne
  <2> QED BY <2>1, <2>2
<1> QED BY <1>4, <1>5, <1>6, <1>10, <1>11

LEMMA ResetKeeps ==
    ASSUME NEW n \in Nat \ {0}, BInv(n), NEW t \in Threads(n), Reset(t)
    PROVE  BInv(n)'
<1> USE DEF BInv
<1>1. /\ pc[t] = "reset" /\ count' = 0
      /\ pc' = [pc EXCEPT ![t] = "release"]
      /\ gen' = gen /\ sense' = sense /\ round' = round /\ threadsense' = threadsense
  BY DEF Reset
<1>2. \A u \in Threads(n) : round[u] = gen + 1 /\ (u # t => pc[u] = "spin")
  BY <1>1 DEF LastOne, Closing
<1>3. pc'[t] = "release"
  BY <1>1 DEF BarrierTypes
<1>4. BarrierTypes(n)' /\ Senses(n)' /\ Rounds(n)'
  BY <1>1 DEF BarrierTypes, Senses, Rounds
<1>5. LastOne(n)'
  BY <1>1, <1>2 DEF LastOne, Closing, BarrierTypes
<1>6. Counted(n)'
  BY <1>1, <1>3 DEF Counted
<1> QED BY <1>4, <1>5, <1>6

\* The barrier opens: everybody is in the round that becomes the current one.
LEMMA ReleaseKeeps ==
    ASSUME NEW n \in Nat \ {0}, BInv(n), NEW t \in Threads(n), Release(t)
    PROVE  BInv(n)'
<1> USE DEF BInv
<1>1. /\ pc[t] = "release" /\ sense' = threadsense[t] /\ gen' = gen + 1
      /\ pc' = [pc EXCEPT ![t] = "out"]
      /\ count' = count /\ round' = round /\ threadsense' = threadsense
      /\ gen \in Nat
  BY DEF Release, BarrierTypes
<1>2. \A u \in Threads(n) : round[u] = gen + 1 /\ (u # t => pc[u] = "spin")
  BY <1>1 DEF LastOne, Closing
<1>3. count = 0
  BY <1>1 DEF Counted
<1>4. BarrierTypes(n)'
  BY <1>1 DEF BarrierTypes
<1>5. Senses(n)'
  BY <1>1, <1>2 DEF Senses
<1>6. Rounds(n)'
  BY <1>1, <1>2 DEF Rounds
<1>7. \A u \in Threads(n) : ~Closing(u)' /\ pc'[u] # "release"
  BY <1>1, <1>2 DEF Closing, BarrierTypes
<1>8. LastOne(n)'
  BY <1>7 DEF LastOne
<1>9. Arrived(n)' = {}
  BY <1>1, <1>2 DEF Arrived
<1>10. Counted(n)'
  BY <1>1, <1>3, <1>7, <1>9, FS_EmptySet DEF Counted
<1> QED BY <1>4, <1>5, <1>6, <1>8, <1>10

\* A thread leaves: with the parity of the shared sense it cannot be in the
\* round that is not open yet.
LEMMA LeaveKeeps ==
    ASSUME NEW n \in Nat \ {0}, BInv(n), NEW t \in Threads(n), Leave(t)
    PROVE  BInv(n)'
<1> USE DEF BInv
<1>1. /\ pc[t] = "spin" /\ sense = threadsense[t]
      /\ pc' = [pc EXCEPT ![t] = "out"]
      /\ gen' = gen /\ sense' = sense /\ count' = count /\ round' = round
      /\ threadsense' = threadsense /\ gen \in Nat
  BY DEF Leave, BarrierTypes
<1>2. round[t] = gen
  <2>1. Odd(gen) = Odd(round[t])
    BY <1>1 DEF Senses
  <2>2. round[t] # gen + 1
    BY <2>1, <1>1, Parity DEF Odd
  <2> QED BY <2>2 DEF Rounds
<1>3. \A u \in Threads(n) : ~Closing(u)
  BY <1>1, <1>2 DEF LastOne
<1>4. \A u \in Threads(n) : ~Closing(u)' /\ pc'[u] # "release"
  BY <1>1, <1>3 DEF Closing, BarrierTypes
<1>5. BarrierTypes(n)' /\ Senses(n)'
  BY <1>1 DEF BarrierTypes, Senses
<1>6. Rounds(n)'
  BY <1>1, <1>2 DEF Rounds, BarrierTypes
<1>7. LastOne(n)'
  BY <1>4 DEF LastOne
<1>8. Counted(n)'
  BY <1>1, <1>3, <1>4 DEF Counted, Closing, Arrived
<1> QED BY <1>5, <1>6, <1>7, <1>8

LEMMA StutterKeeps ==
    ASSUME NEW n \in Nat \ {0}, BInv(n), UNCHANGED bvars
    PROVE  BInv(n)'
  BY DEF bvars, BInv, BarrierTypes, Senses, Rounds, LastOne, Closing, Counted, Arrived

LEMMA EarlyFromInv ==
    ASSUME NEW n \in Nat \ {0}, BInv(n)
    PROVE  NobodyEarly
<1> SUFFICES ASSUME NEW t \in Threads(n), NEW u \in Threads(n), pc[t] = "out"
             PROVE  round[t] <= round[u]
  BY DEF NobodyEarly, BInv, BarrierTypes
<1> QED BY DEF BInv, Rounds, BarrierTypes

-----------------------------------------------------------------------------
\* The barrier on its own: the inductive invariant holds for every number of
\* threads and of rounds (util.h:44-62).
THEOREM BarrierInvariant == Spec => []BInv(N)
<1>1. Init => BInv(N)
  BY InitHolds, NAssumption DEF Init
<1>2. BInv(N) /\ [Next]_bvars => BInv(N)'
  <2> SUFFICES ASSUME BInv(N), [Next]_bvars PROVE BInv(N)'
    OBVIOUS
  <2>1. CASE Next
    <3>1. PICK t \in Threads(N) : Step(t)
      BY <2>1 DEF Next
    <3> QED BY <3>1, NAssumption, ArriveKeeps, ResetKeeps, ReleaseKeeps, LeaveKeeps
            DEF Step, Enter
  <2>2. CASE UNCHANGED bvars
    BY <2>2, NAssumption, StutterKeeps
  <2> QED BY <2>1, <2>2
<1> QED BY <1>1, <1>2, PTL DEF Spec

\* Nobody leaves a barrier that somebody still has to enter, however many
\* threads come back however often (util.h:46-65).
THEOREM NobodyLeavesEarly == Spec => []NobodyEarly
<1>1. BInv(N) => NobodyEarly
  BY NAssumption, EarlyFromInv
<1> QED BY <1>1, BarrierInvariant, PTL

-----------------------------------------------------------------------------
\* How often a core has met the others before it starts block p, when the
\* kernel waits after its first m blocks.
Phase(p, m) == IF p - 1 <= m THEN p - 1 ELSE m

\* A program that waits after its first m blocks and nowhere else.
Meets(prog, m) ==
    /\ Len(prog) \in Nat /\ m <= Len(prog)
    /\ \A p \in 1..Len(prog) : prog[p].bar <=> p <= m

BlockInBounds(block, l) ==
    /\ Written(block) \subseteq 0..(l * l - 1)
    /\ Copied(block) \subseteq 0..(CopySize - 1)

\* Two blocks that may run at the same time.
Independent(block, other) ==
    /\ Written(block) \cap Written(other) = {}
    /\ Copied(block) \cap Copied(other) = {}
    /\ ReadsCopy(block) => other.copy = {}

\* The cores meet equally often, stay in bounds, and what they do between the
\* same two meetings is independent.
Safe(k, n, l, m) ==
    /\ \A c \in Threads(n) : Meets(Kernel(k, c, n, l), m)
    /\ \A c \in Threads(n) : \A p \in 1..Len(Kernel(k, c, n, l)) :
           BlockInBounds(Kernel(k, c, n, l)[p], l)
    /\ \A c, d \in Threads(n) :
           \A p \in 1..Len(Kernel(k, c, n, l)), q \in 1..Len(Kernel(k, d, n, l)) :
               (c # d /\ Phase(p, m) = Phase(q, m)) =>
                   Independent(Kernel(k, c, n, l)[p], Kernel(k, d, n, l)[q])

\* How often a core has come to a barrier when its program has len blocks.
Meetings(t, len, m) == IF ip[t] = len + 2 THEN m + 1 ELSE Phase(ip[t], m)

Places == {"block", "store", "barrier", "waiting", "verify", "exited"}

\* Where a core is in thread_entry, in its blocks and in the barrier agree.
Place(t, len, m) ==
    /\ ip[t] \in 1..(len + 2)
    /\ loc[t] = "block" => ip[t] <= len + 1
    /\ loc[t] = "store" => ip[t] <= len
    /\ loc[t] \in {"barrier", "waiting"} => ip[t] = len + 2 \/ ip[t] - 1 \in 1..m
    /\ loc[t] \in {"verify", "exited"} => ip[t] = len + 2
    /\ pc[t] = "out" <=> loc[t] # "waiting"
    /\ round[t] = Meetings(t, len, m) - (IF loc[t] = "barrier" THEN 1 ELSE 0)

Running(k, n, l, m) ==
    /\ kern = k /\ ncores = n /\ lda = l
    /\ BInv(n)
    /\ ip \in [Threads(n) -> Nat]
    /\ loc \in [Threads(n) -> Places]
    /\ \A t \in Threads(n) : Place(t, Len(Kernel(k, t, n, l)), m)

SInv ==
    \E k \in KernelNames, n \in Nat \ {0}, l \in Nat \ {0}, m \in Nat :
        <<k, n, l>> \in Instances /\ Safe(k, n, l, m) /\ Running(k, n, l, m)

LEMMA ProgramIs ==
    ASSUME NEW k, NEW n, NEW l, <<k, n, l>> \in Instances,
           kern = k, ncores = n, lda = l, NEW t \in Threads(n)
    PROVE  Program(t) = Kernel(k, t, n, l)
  BY DEF Program, Programs

LEMMA PhaseType ==
    ASSUME NEW p \in Nat \ {0}, NEW m \in Nat
    PROVE  Phase(p, m) \in 0..m
  BY DEF Phase

\* What a step of one core changes.
LEMMA CoreStep ==
    ASSUME NEW k, NEW n \in Nat \ {0}, NEW l, NEW m \in Nat, <<k, n, l>> \in Instances,
           Safe(k, n, l, m), Running(k, n, l, m), NEW t \in Threads(n), Core(t)
    PROVE  Running(k, n, l, m)'
<1> DEFINE len == Len(Kernel(k, t, n, l))
<1> USE DEF Running
<1>1. Program(t) = Kernel(k, t, n, l)
  BY ProgramIs
<1>2. /\ len \in Nat /\ m <= len
      /\ \A p \in 1..len : Kernel(k, t, n, l)[p].bar <=> p <= m
  BY DEF Safe, Meets
<1>3. Place(t, len, m)
  OBVIOUS
<1>4. /\ kern' = k /\ ncores' = n /\ lda' = l
  BY DEF Core, Load, StoreBlock, Return, Wait, Open, Resume, Exit, Fixed, svars
<1>5. BInv(n)'
  <2>1. CASE Arrive(t, n)
    BY <2>1, ArriveKeeps
  <2>2. CASE Reset(t)
    BY <2>2, ResetKeeps
  <2>3. CASE Release(t)
    BY <2>3, ReleaseKeeps
  <2>4. CASE Leave(t)
    BY <2>4, LeaveKeeps
  <2>5. CASE UNCHANGED bvars
    BY <2>5, StutterKeeps
  <2> QED BY <2>1, <2>2, <2>3, <2>4, <2>5
      DEF Core, Load, StoreBlock, Return, Wait, Open, Resume, Exit, Alone
<1>6. /\ ip' \in [Threads(n) -> Nat] /\ loc' \in [Threads(n) -> Places]
      /\ \A u \in Threads(n) : u # t => ip'[u] = ip[u] /\ loc'[u] = loc[u]
  <2>1. ip' = ip \/ ip' = [ip EXCEPT ![t] = ip[t] + 1]
    BY DEF Core, Load, StoreBlock, Return, Wait, Open, Resume, Exit, svars
  <2>2. \/ loc' = loc
        \/ loc' = [loc EXCEPT ![t] = "store"]
        \/ loc' = [loc EXCEPT ![t] = "barrier"]
        \/ loc' = [loc EXCEPT ![t] = "block"]
        \/ loc' = [loc EXCEPT ![t] = "waiting"]
        \/ loc' = [loc EXCEPT ![t] = "verify"]
        \/ loc' = [loc EXCEPT ![t] = "exited"]
    <3>1. CASE StoreBlock(t)
      <4>1. loc' = [loc EXCEPT ![t] = "barrier"] \/ loc' = [loc EXCEPT ![t] = "block"]
        BY <3>1, Zenon DEF StoreBlock, Moves
      <4> QED BY <4>1
    <3>2. CASE Resume(t)
      <4>1. loc' = [loc EXCEPT ![t] = "verify"] \/ loc' = [loc EXCEPT ![t] = "block"]
        BY <3>2, Zenon DEF Resume, Moves
      <4> QED BY <4>1
    <3>3. CASE Load(t) \/ Return(t) \/ Wait(t) \/ Exit(t) \/ Open(t)
      BY <3>3 DEF Load, Return, Wait, Open, Exit, Moves, svars
    <3> QED BY <3>1, <3>2, <3>3 DEF Core
  <2>3. /\ ip' \in [Threads(n) -> Nat]
        /\ \A u \in Threads(n) : u # t => ip'[u] = ip[u]
    BY <2>1
  <2>4. /\ loc' \in [Threads(n) -> Places]
        /\ \A u \in Threads(n) : u # t => loc'[u] = loc[u]
    BY <2>2 DEF Places
  <2> QED BY <2>3, <2>4
<1>7. \A u \in Threads(n) : u # t => pc'[u] = pc[u] /\ round'[u] = round[u]
  BY DEF Core, Load, StoreBlock, Return, Wait, Open, Resume, Exit, Alone, bvars,
         Arrive, Reset, Release, Leave, BInv, BarrierTypes
<1>8. \A u \in Threads(n) : u # t => Place(u, Len(Kernel(k, u, n, l)), m)'
  BY <1>6, <1>7 DEF Place, Meetings
<1>9. Place(t, len, m)'
  <2> USE DEF Place, Meetings, Phase, Places
  <2> HIDE DEF len
  <2>1. /\ pc \in [Threads(n) -> {"out", "spin", "reset", "release"}]
        /\ round \in [Threads(n) -> Nat]
    BY DEF BInv, BarrierTypes
  <2>2. CASE Load(t)
    BY <2>1, <2>2, <1>1, <1>2, <1>3 DEF Load, Moves, Alone, bvars, len
  <2>3. CASE StoreBlock(t)
    <3>1. /\ loc[t] = "store" /\ ip' = [ip EXCEPT ![t] = ip[t] + 1]
          /\ loc' = [loc EXCEPT ![t] = IF Kernel(k, t, n, l)[ip[t]].bar THEN "barrier" ELSE "block"]
          /\ pc' = pc /\ round' = round
      BY <2>3, <1>1, Zenon DEF StoreBlock, Moves, Alone, bvars
    <3>2. Kernel(k, t, n, l)[ip[t]].bar <=> ip[t] <= m
      BY <3>1, <1>2, <1>3
    <3>3. /\ ip'[t] = ip[t] + 1 /\ pc'[t] = pc[t] /\ round'[t] = round[t]
          /\ loc'[t] = IF ip[t] <= m THEN "barrier" ELSE "block"
      BY <3>1, <3>2
    <3>4. ip[t] \in Nat /\ round[t] \in Nat /\ len \in Nat /\ m <= len
      BY <2>1, <1>2
    <3>5. CASE ip[t] <= m
      BY <3>1, <3>3, <3>4, <3>5, <1>3
    <3>6. CASE ip[t] > m
      BY <3>1, <3>3, <3>4, <3>6, <1>3
    <3> QED BY <3>4, <3>5, <3>6
  <2>4. CASE Return(t)
    BY <2>1, <2>4, <1>1, <1>2, <1>3 DEF Return, Moves, Alone, bvars, len
  <2>5. CASE Wait(t)
    BY <2>1, <2>5, <1>2, <1>3 DEF Wait, Moves, Arrive
  <2>6. CASE Open(t)
    BY <2>1, <2>6, <1>2, <1>3 DEF Open, Reset, svars
  <2>7. CASE Resume(t)
    BY <2>1, <2>7, <1>1, <1>2, <1>3 DEF Resume, Moves, Release, Leave, len
  <2>8. CASE Exit(t)
    BY <2>1, <2>8, <1>2, <1>3 DEF Exit, Moves, Alone, bvars
  <2> QED BY <2>2, <2>3, <2>4, <2>5, <2>6, <2>7, <2>8 DEF Core
<1> QED BY <1>4, <1>5, <1>6, <1>8, <1>9

LEMMA SpmdStep ==
    ASSUME SInv, [SpmdNext]_vars
    PROVE  SInv'
<1>1. PICK k \in KernelNames, n \in Nat \ {0}, l \in Nat \ {0}, m \in Nat :
          <<k, n, l>> \in Instances /\ Safe(k, n, l, m) /\ Running(k, n, l, m)
  BY DEF SInv
<1>2. Running(k, n, l, m)'
  <2>1. CASE \E t \in Cores : Core(t)
    BY <1>1, <2>1, CoreStep DEF Cores, Running
  <2>2. CASE UNCHANGED vars
    <3>1. UNCHANGED bvars /\ UNCHANGED svars
      BY <2>2 DEF vars
    <3>2. BInv(n)'
      BY <1>1, <3>1, StutterKeeps DEF Running
    <3> QED BY <1>1, <3>1, <3>2 DEF Running, Place, Meetings, bvars, svars
  <2> QED BY <2>1, <2>2 DEF SpmdNext, AllExited
<1> QED BY <1>1, <1>2 DEF SInv

\* Cores at work have met equally often: nobody is early at a barrier.
LEMMA InStep ==
    ASSUME NEW k, NEW n \in Nat \ {0}, NEW l, NEW m \in Nat, <<k, n, l>> \in Instances,
           Safe(k, n, l, m), Running(k, n, l, m), NEW t \in Threads(n), Working(t)
    PROVE  /\ ip[t] \in 1..Len(Kernel(k, t, n, l))
           /\ BlockOf(t) = Kernel(k, t, n, l)[ip[t]]
           /\ Phase(ip[t], m) = gen
<1> USE DEF Running
<1>1. Program(t) = Kernel(k, t, n, l)
  BY ProgramIs
<1>2. Place(t, Len(Kernel(k, t, n, l)), m)
  OBVIOUS
<1>3. loc[t] \in {"block", "store"} /\ ip[t] <= Len(Kernel(k, t, n, l))
  BY <1>1 DEF Working
<1>4. Len(Kernel(k, t, n, l)) \in Nat
  BY DEF Safe, Meets
<1>5. /\ ip[t] \in 1..Len(Kernel(k, t, n, l)) /\ pc[t] = "out"
      /\ round[t] = Phase(ip[t], m) - 0
  <2> HIDE DEF Running
  <2> QED BY <1>2, <1>3, <1>4 DEF Place, Meetings
<1>6. Phase(ip[t], m) \in 0..m
  <2>1. ip[t] \in Nat \ {0}
    BY <1>4, <1>5
  <2> QED BY <2>1, PhaseType
<1>7. round[t] = gen
  BY <1>5 DEF BInv, Rounds
<1> QED BY <1>1, <1>5, <1>6, <1>7 DEF BlockOf

LEMMA BoundsFromInv == SInv => InBounds
<1> SUFFICES ASSUME SInv, NEW t \in Cores, Working(t)
             PROVE  /\ Written(BlockOf(t)) \subseteq 0..(Size - 1)
                    /\ Copied(BlockOf(t)) \subseteq 0..(CopySize - 1)
  BY DEF InBounds
<1>1. PICK k \in KernelNames, n \in Nat \ {0}, l \in Nat \ {0}, m \in Nat :
          <<k, n, l>> \in Instances /\ Safe(k, n, l, m) /\ Running(k, n, l, m)
  BY DEF SInv
<1>2. t \in Threads(n) /\ lda = l
  BY <1>1 DEF Running, Cores
<1>3. ip[t] \in 1..Len(Kernel(k, t, n, l)) /\ BlockOf(t) = Kernel(k, t, n, l)[ip[t]]
  BY <1>1, <1>2, InStep
<1>4. BlockInBounds(BlockOf(t), l)
  BY <1>1, <1>2, <1>3 DEF Safe
<1> QED BY <1>2, <1>4 DEF BlockInBounds, Size

LEMMA NoRaceFromInv == SInv => NoRace
<1> SUFFICES ASSUME SInv, NEW t \in Cores, NEW u \in Cores, t # u, Working(t), Working(u)
             PROVE  Independent(BlockOf(t), BlockOf(u))
  BY DEF NoRace, Independent
<1>1. PICK k \in KernelNames, n \in Nat \ {0}, l \in Nat \ {0}, m \in Nat :
          <<k, n, l>> \in Instances /\ Safe(k, n, l, m) /\ Running(k, n, l, m)
  BY DEF SInv
<1>2. t \in Threads(n) /\ u \in Threads(n)
  BY <1>1 DEF Running, Cores
<1>3. /\ ip[t] \in 1..Len(Kernel(k, t, n, l)) /\ BlockOf(t) = Kernel(k, t, n, l)[ip[t]]
      /\ Phase(ip[t], m) = gen
  BY <1>1, <1>2, InStep
<1>4. /\ ip[u] \in 1..Len(Kernel(k, u, n, l)) /\ BlockOf(u) = Kernel(k, u, n, l)[ip[u]]
      /\ Phase(ip[u], m) = gen
  BY <1>1, <1>2, InStep
<1>5. Independent(Kernel(k, t, n, l)[ip[t]], Kernel(k, u, n, l)[ip[u]])
  <2> DEFINE p == ip[t]
             q == ip[u]
  <2>1. /\ p \in 1..Len(Kernel(k, t, n, l)) /\ q \in 1..Len(Kernel(k, u, n, l))
        /\ Phase(p, m) = Phase(q, m)
    BY <1>3, <1>4
  <2> HIDE DEF p, q
  <2>2. Independent(Kernel(k, t, n, l)[p], Kernel(k, u, n, l)[q])
    BY <1>1, <1>2, <2>1 DEF Safe
  <2> QED BY <2>2 DEF p, q
<1> QED BY <1>3, <1>4, <1>5

\* Once a core may look at the results, all cores have left their kernels:
\* the barrier of thread_entry (mt-matmul.c:52-54).
Final ==
    \A t, u \in Cores : loc[t] \in {"verify", "exited"} => ip[u] = Len(Program(u)) + 2

LEMMA FinalFromInv == SInv => Final
<1> SUFFICES ASSUME SInv, NEW t \in Cores, NEW u \in Cores, loc[t] \in {"verify", "exited"}
             PROVE  ip[u] = Len(Program(u)) + 2
  BY DEF Final
<1>1. PICK k \in KernelNames, n \in Nat \ {0}, l \in Nat \ {0}, m \in Nat :
          <<k, n, l>> \in Instances /\ Safe(k, n, l, m) /\ Running(k, n, l, m)
  BY DEF SInv
<1>2. t \in Threads(n) /\ u \in Threads(n) /\ Program(u) = Kernel(k, u, n, l)
  BY <1>1, ProgramIs DEF Running, Cores
<1> DEFINE len(v) == Len(Kernel(k, v, n, l))
<1>3. Place(t, len(t), m) /\ Place(u, len(u), m)
  BY <1>1, <1>2 DEF Running
<1>4. len(t) \in Nat /\ len(u) \in Nat
  BY <1>1, <1>2 DEF Safe, Meets
<1> HIDE DEF len
<1>5. pc[t] = "out" /\ round[t] = m + 1
  BY <1>3, <1>4 DEF Place, Meetings
<1>6. round[u] \in {m + 1, m + 2}
  BY <1>1, <1>2, <1>5 DEF Running, BInv, Rounds
<1>7. ip[u] \in Nat \ {0}
  BY <1>3, <1>4 DEF Place
<1>8. Phase(ip[u], m) \in 0..m
  BY <1>7, PhaseType
<1>9. ip[u] = len(u) + 2
  BY <1>3, <1>6, <1>8 DEF Place, Meetings
<1> QED BY <1>2, <1>9 DEF len

-----------------------------------------------------------------------------
\* Arithmetic of loops and of the division of the work.

LEMMA Division ==
    ASSUME NEW a \in Int, NEW b \in Nat \ {0}
    PROVE  a \div b \in Int /\ a % b \in 0..(b - 1) /\ a = b * (a \div b) + (a % b)
<1>1. a \div b \in Int /\ a % b \in Nat
  OBVIOUS
<1>2. a % b < b
  OBVIOUS
<1>3. a = b * (a \div b) + (a % b)
  BY Z3
<1>4. a % b \in 0..(b - 1)
  BY <1>1, <1>2
<1> QED BY <1>1, <1>3, <1>4, Zenon

LEMMA Monotone ==
    ASSUME NEW a \in Int, NEW b \in Int, NEW f \in Nat, a <= b
    PROVE  f * a <= f * b
<1>1. f * (b - a) >= 0
  BY SMT
<1> QED BY <1>1, SMT

\* A quotient is found by its remainder.
LEMMA Quotient ==
    ASSUME NEW b \in Nat \ {0}, NEW q \in Int, NEW r \in 0..(b - 1)
    PROVE  (b * q + r) \div b = q
<1> DEFINE a == b * q + r
<1>1. a \in Int /\ b * q \in Int
  BY SMT
<1>2. a \div b \in Int /\ a % b \in 0..(b - 1) /\ a = b * (a \div b) + (a % b)
  BY <1>1, Division
<1> DEFINE d == a \div b
           e == a % b
<1>3. d \in Int /\ e \in 0..(b - 1) /\ b * d + e = b * q + r
  BY <1>2
<1> HIDE DEF d, e, a
<1>4. CASE d <= q - 1
  <2>1. b * d <= b * (q - 1)
    BY <1>3, <1>4, Monotone
  <2>2. b * (q - 1) = b * q - b
    BY SMT
  <2> QED BY <1>1, <1>3, <2>1, <2>2, SMT
<1>5. CASE q <= d - 1
  <2>1. b * q <= b * (d - 1)
    BY <1>3, <1>5, Monotone
  <2>2. b * (d - 1) = b * d - b
    BY <1>3, SMT
  <2>3. b * d \in Int
    BY <1>3, SMT
  <2> QED BY <1>1, <1>3, <2>1, <2>2, <2>3, SMT
<1>6. d = q
  BY <1>3, <1>4, <1>5
<1> QED BY <1>6 DEF d, a

\* The cells of a square matrix.
LEMMA Cells ==
    ASSUME NEW l \in Nat, NEW r \in 0..(l - 1), NEW i \in 0..(l - 1),
           NEW s \in 0..(l - 1), NEW j \in 0..(l - 1)
    PROVE  /\ r * l + i \in 0..(l * l - 1)
           /\ r * l + i = s * l + j => r = s /\ i = j
<1>1. l \in Nat \ {0} /\ l * r + i = r * l + i /\ l * s + j = s * l + j
  BY SMT
<1>2. (l * r + i) \div l = r /\ (l * s + j) \div l = s
  BY <1>1, Quotient
<1>3. l * r <= l * (l - 1) /\ l * 0 <= l * r
  BY Monotone
<1>4. l * (l - 1) = l * l - l /\ l * 0 = 0 /\ l * l \in Int /\ l * r \in Int /\ l * s \in Int
  BY SMT
<1>5. r * l + i \in 0..(l * l - 1)
  BY <1>1, <1>3, <1>4, SMT
<1>6. ASSUME r * l + i = s * l + j
      PROVE  r = s /\ i = j
  <2>1. r = s
    BY <1>1, <1>2, <1>6
  <2> QED BY <1>1, <1>4, <1>6, <2>1, SMT
<1> QED BY <1>5, <1>6

LEMMA ItersBound ==
    ASSUME NEW lo \in Int, NEW hi \in Int, NEW st \in Nat \ {0}
    PROVE  /\ Iters(lo, hi, st) \in Nat
           /\ \A a \in Nat : a < Iters(lo, hi, st) => lo + st * a < hi
<1>1. CASE lo < hi
  <2> DEFINE e == hi - lo + st - 1
             q == e \div st
  <2>1. e \in Nat /\ e >= st
    BY <1>1
  <2>2. q \in Int /\ e % st \in 0..(st - 1) /\ e = st * q + (e % st)
    BY <2>1, Division
  <2>3. Iters(lo, hi, st) = q
    BY <1>1 DEF Iters
  <2>4. e % st \in Int /\ 0 <= e % st
    BY <2>2
  <2> HIDE DEF q
  <2>5. st * q \in Int /\ st * q <= e
    BY <2>1, <2>2, <2>4, SMT
  <2>6. q >= 0
    <3>1. CASE q <= -1
      <4>1. st * q <= st * (-1)
        BY <2>2, <3>1, Monotone
      <4>2. st * (-1) = -st
        BY SMT
      <4> QED BY <2>1, <2>2, <2>5, <4>1, <4>2
    <3> QED BY <2>2, <3>1
  <2>7. ASSUME NEW a \in Nat, a < q
        PROVE  lo + st * a < hi
    <3>1. st * a <= st * (q - 1)
      BY <2>2, <2>7, Monotone
    <3>2. st * (q - 1) = st * q - st /\ st * a \in Int
      BY <2>2, SMT
    <3> QED BY <2>5, <3>1, <3>2
  <2> QED BY <2>2, <2>3, <2>6, <2>7
<1>2. CASE ~(lo < hi)
  BY <1>2 DEF Iters
<1> QED BY <1>1, <1>2

\* x is a value of an unrolled loop, the one in copy b of the body in round a.
Visits(x, lo, hi, st, un, gap) ==
    \E a \in Nat, b \in 0..(un - 1) : x = lo + st * a + gap * b /\ lo + st * a < hi

LEMMA StridedValues ==
    ASSUME NEW lo \in Int, NEW hi \in Int, NEW st \in Nat \ {0}, NEW un \in Nat \ {0},
           NEW gap \in Int, NEW x \in ToSet(Strided(lo, hi, st, un, gap))
    PROVE  Visits(x, lo, hi, st, un, gap)
<1> DEFINE its == Iters(lo, hi, st)
           f == [p \in 1..(its * un) |-> lo + st * ((p - 1) \div un) + gap * ((p - 1) % un)]
<1>1. its \in Nat /\ \A a \in Nat : a < its => lo + st * a < hi
  BY ItersBound
<1> HIDE DEF its
<1>2. its * un \in Nat
  BY <1>1, SMT
<1>3. \A p \in 1..(its * un) : (p - 1) \div un \in Int /\ (p - 1) % un \in 0..(un - 1)
  BY <1>2, Division
<1>4. f \in Seq(Int)
  <2>1. \A p \in 1..(its * un) : f[p] \in Int
    <3> SUFFICES ASSUME NEW p \in 1..(its * un) PROVE f[p] \in Int
      OBVIOUS
    <3>1. (p - 1) \div un \in Int /\ (p - 1) % un \in Int
      BY <1>2, <1>3
    <3>2. st * ((p - 1) \div un) \in Int /\ gap * ((p - 1) % un) \in Int
      BY <3>1, SMT
    <3> QED BY <3>2
  <2>2. f \in [1..(its * un) -> Int]
    BY <2>1
  <2> QED BY <1>2, <2>2
<1>5. Strided(lo, hi, st, un, gap) = f
  <2>1. <<>> \o f = f
    BY <1>4
  <2> QED BY <2>1 DEF Strided, its
<1>6. PICK p \in 1..(its * un) : x = f[p]
  BY <1>5 DEF ToSet
<1> DEFINE a == (p - 1) \div un
           b == (p - 1) % un
<1>7. a \in Int /\ b \in 0..(un - 1) /\ p - 1 = un * a + b
  <2>1. p - 1 \in Int
    BY <1>2
  <2> HIDE DEF f
  <2> QED BY <2>1, Division, Zenon
<1>8. x = lo + st * a + gap * b
  BY <1>6
<1> HIDE DEF a, b
<1>9. a >= 0
  <2>1. CASE a <= -1
    <3>1. un * a <= un * (-1) /\ un * (-1) = -un /\ un * a \in Int
      BY <1>7, <2>1, Monotone, SMT
    <3> QED BY <1>2, <1>7, <3>1
  <2> QED BY <1>7, <2>1
<1>10. a < its
  <2>1. CASE its <= a
    <3>1. un * its <= un * a /\ un * its = its * un /\ un * a \in Int
      BY <1>1, <1>7, <2>1, Monotone, SMT
    <3> QED BY <1>2, <1>7, <3>1
  <2> QED BY <1>1, <1>7, <2>1
<1>11. lo + st * a < hi /\ a \in Nat
  BY <1>1, <1>7, <1>9, <1>10
<1> QED BY <1>7, <1>8, <1>11 DEF Visits

\* A loop that is unrolled as far as it steps, without a remainder, visits
\* values between its bounds only.
LEMMA LoopValues ==
    ASSUME NEW lo \in Int, NEW hi \in Int, NEW st \in Nat \ {0}, (hi - lo) % st = 0
    PROVE  ToSet(Loop(lo, hi, st, st)) \subseteq lo..(hi - 1)
<1> SUFFICES ASSUME NEW x \in ToSet(Loop(lo, hi, st, st)) PROVE x \in lo..(hi - 1)
  OBVIOUS
<1>1. \E a \in Nat, b \in 0..(st - 1) : x = lo + st * a + 1 * b /\ lo + st * a < hi
  <2>1. x \in ToSet(Strided(lo, hi, st, st, 1))
    BY DEF Loop
  <2>2. Visits(x, lo, hi, st, st, 1)
    BY <2>1, StridedValues
  <2> QED BY <2>2 DEF Visits
<1>0. PICK a \in Nat, b \in 0..(st - 1) : x = lo + st * a + b /\ lo + st * a < hi
  BY <1>1
<1> DEFINE q == (hi - lo) \div st
<1>2. q \in Int /\ hi - lo = st * q
  <2>1. hi - lo \in Int
    OBVIOUS
  <2>2. q \in Int /\ hi - lo = st * q + ((hi - lo) % st)
    BY <2>1, Division, Zenon
  <2> QED BY <2>2
<1> HIDE DEF q
<1>3. st * a \in Nat /\ st * q \in Int
  BY <1>2, SMT
<1>4. a < q
  <2>1. CASE q <= a
    <3>1. st * q <= st * a
      BY <1>2, <2>1, Monotone
    <3> QED BY <1>0, <1>2, <1>3, <3>1
  <2> QED BY <1>2, <2>1
<1>5. st * a <= st * (q - 1) /\ st * (q - 1) = st * q - st
  BY <1>2, <1>4, Monotone, SMT
<1> QED BY <1>0, <1>2, <1>3, <1>5

LEMMA RangeValues ==
    ASSUME NEW lo \in Int, NEW hi \in Int
    PROVE  ToSet(Range1(lo, hi)) \subseteq lo..(hi - 1)
<1>1. (hi - lo) % 1 = 0
  OBVIOUS
<1> QED BY <1>1, LoopValues DEF Range1

-----------------------------------------------------------------------------
\* A tile, and a sequence of tiles, that stays in rows R and columns I of C.
TileIn(x, l, R, I) ==
    /\ x.sc = l
    /\ ToSet(x.rows) \subseteq R /\ ToSet(x.cols) \subseteq I

TilesIn(tiles, l, R, I) ==
    tiles \in Seq(ToSet(tiles)) /\ \A x \in ToSet(tiles) : TileIn(x, l, R, I)

\* A program that meets m times and copies nothing.
ProgIn(prog, m, l, R, I) ==
    /\ Meets(prog, m)
    /\ \A p \in 1..Len(prog) : prog[p].copy = {} /\ TilesIn(prog[p].tiles, l, R, I)

\* The sets R[c] are a division of 0..l-1 among the cores.
Divides(R, n, l) ==
    /\ \A c \in Threads(n) : R[c] \subseteq 0..(l - 1)
    /\ \A c, d \in Threads(n) : c # d => R[c] \cap R[d] = {}

CellOf(e, l, R, I) == \E r \in R, i \in I : e = r * l + i

LEMMA TileCells ==
    ASSUME NEW b, NEW l, NEW R, NEW I, TilesIn(b.tiles, l, R, I), NEW e \in Written(b)
    PROVE  CellOf(e, l, R, I)
  BY DEF TilesIn, TileIn, Written, CellOf

LEMMA WrittenInside ==
    ASSUME NEW b, NEW l \in Nat, NEW R, NEW I, R \subseteq 0..(l - 1), I \subseteq 0..(l - 1),
           TilesIn(b.tiles, l, R, I)
    PROVE  Written(b) \subseteq 0..(l * l - 1)
<1> SUFFICES ASSUME NEW e \in Written(b) PROVE e \in 0..(l * l - 1)
  OBVIOUS
<1>1. CellOf(e, l, R, I)
  BY TileCells
<1>2. PICK r \in R, i \in I : e = r * l + i
  BY <1>1 DEF CellOf
<1>3. r \in 0..(l - 1) /\ i \in 0..(l - 1)
  OBVIOUS
<1> QED BY <1>2, <1>3, Cells

Separate(b, a) == Written(b) \cap Written(a) = {}

LEMMA WrittenApart ==
    ASSUME NEW l \in Nat,
           NEW b, NEW R, NEW I, R \subseteq 0..(l - 1), I \subseteq 0..(l - 1),
           TilesIn(b.tiles, l, R, I),
           NEW a, NEW S, NEW J, S \subseteq 0..(l - 1), J \subseteq 0..(l - 1),
           TilesIn(a.tiles, l, S, J),
           R \cap S = {} \/ I \cap J = {}
    PROVE  Separate(b, a)
<1> SUFFICES ASSUME NEW e \in Written(b), e \in Written(a) PROVE FALSE
  BY DEF Separate
<1>1. CellOf(e, l, R, I) /\ CellOf(e, l, S, J)
  BY TileCells
<1>2. PICK r \in R, i \in I : e = r * l + i
  BY <1>1 DEF CellOf
<1>3. PICK s \in S, j \in J : e = s * l + j
  BY <1>1 DEF CellOf
<1>4. /\ r \in 0..(l - 1) /\ i \in 0..(l - 1)
      /\ s \in 0..(l - 1) /\ j \in 0..(l - 1)
  OBVIOUS
<1>5. r = s /\ i = j
  <2>1. r * l + i = s * l + j
    BY <1>2, <1>3
  <2> QED BY <1>4, <2>1, Cells
<1> QED BY <1>5

\* A block that copies nothing is judged by what it writes.
LEMMA NoCopy ==
    ASSUME NEW b, b.copy = {}
    PROVE  /\ \A l : Written(b) \subseteq 0..(l * l - 1) => BlockInBounds(b, l)
           /\ \A a : (a.copy = {} /\ Separate(b, a)) => Independent(b, a)
<1>1. Copied(b) = {}
  BY DEF Copied
<1> QED BY <1>1 DEF BlockInBounds, Independent, Separate

LEMMA SafeRows ==
    ASSUME NEW k, NEW n \in Nat \ {0}, NEW l \in Nat \ {0}, NEW m \in Nat, NEW R,
           Divides(R, n, l),
           \A c \in Threads(n) : ProgIn(Kernel(k, c, n, l), m, l, R[c], 0..(l - 1))
    PROVE  Safe(k, n, l, m)
<1>1. \A c \in Threads(n) : R[c] \subseteq 0..(l - 1)
  BY DEF Divides
<1>2. \A c \in Threads(n) : Meets(Kernel(k, c, n, l), m)
  BY DEF ProgIn
<1>3. \A c \in Threads(n) : \A p \in 1..Len(Kernel(k, c, n, l)) :
          BlockInBounds(Kernel(k, c, n, l)[p], l)
  BY <1>1, WrittenInside, NoCopy DEF ProgIn
<1>4. \A c, d \in Threads(n) :
           \A p \in 1..Len(Kernel(k, c, n, l)), q \in 1..Len(Kernel(k, d, n, l)) :
               c # d => Independent(Kernel(k, c, n, l)[p], Kernel(k, d, n, l)[q])
  <2> SUFFICES ASSUME NEW c \in Threads(n), NEW d \in Threads(n), c # d,
                      NEW p \in 1..Len(Kernel(k, c, n, l)), NEW q \in 1..Len(Kernel(k, d, n, l))
               PROVE  Independent(Kernel(k, c, n, l)[p], Kernel(k, d, n, l)[q])
    OBVIOUS
  <2> DEFINE b == Kernel(k, c, n, l)[p]
             a == Kernel(k, d, n, l)[q]
  <2>1. /\ b.copy = {} /\ TilesIn(b.tiles, l, R[c], 0..(l - 1))
        /\ a.copy = {} /\ TilesIn(a.tiles, l, R[d], 0..(l - 1))
    BY DEF ProgIn
  <2>2. R[c] \cap R[d] = {}
    BY DEF Divides
  <2> HIDE DEF a, b
  <2>3. Separate(b, a)
    <3>1. /\ R[c] \subseteq 0..(l - 1) /\ R[d] \subseteq 0..(l - 1)
          /\ 0..(l - 1) \subseteq 0..(l - 1) /\ l \in Nat
      BY <1>1
    <3> QED BY <2>1, <2>2, <3>1, WrittenApart
  <2>4. Independent(b, a)
    BY <2>1, <2>3, NoCopy
  <2> QED BY <2>4 DEF a, b
<1> QED BY <1>2, <1>3, <1>4 DEF Safe

LEMMA SafeColumns ==
    ASSUME NEW k, NEW n \in Nat \ {0}, NEW l \in Nat \ {0}, NEW m \in Nat, NEW R,
           Divides(R, n, l),
           \A c \in Threads(n) : ProgIn(Kernel(k, c, n, l), m, l, 0..(l - 1), R[c])
    PROVE  Safe(k, n, l, m)
<1>1. \A c \in Threads(n) : R[c] \subseteq 0..(l - 1)
  BY DEF Divides
<1>2. \A c \in Threads(n) : Meets(Kernel(k, c, n, l), m)
  BY DEF ProgIn
<1>3. \A c \in Threads(n) : \A p \in 1..Len(Kernel(k, c, n, l)) :
          BlockInBounds(Kernel(k, c, n, l)[p], l)
  BY <1>1, WrittenInside, NoCopy DEF ProgIn
<1>4. \A c, d \in Threads(n) :
           \A p \in 1..Len(Kernel(k, c, n, l)), q \in 1..Len(Kernel(k, d, n, l)) :
               c # d => Independent(Kernel(k, c, n, l)[p], Kernel(k, d, n, l)[q])
  <2> SUFFICES ASSUME NEW c \in Threads(n), NEW d \in Threads(n), c # d,
                      NEW p \in 1..Len(Kernel(k, c, n, l)), NEW q \in 1..Len(Kernel(k, d, n, l))
               PROVE  Independent(Kernel(k, c, n, l)[p], Kernel(k, d, n, l)[q])
    OBVIOUS
  <2> DEFINE b == Kernel(k, c, n, l)[p]
             a == Kernel(k, d, n, l)[q]
  <2>1. /\ b.copy = {} /\ TilesIn(b.tiles, l, 0..(l - 1), R[c])
        /\ a.copy = {} /\ TilesIn(a.tiles, l, 0..(l - 1), R[d])
    BY DEF ProgIn
  <2>2. R[c] \cap R[d] = {}
    BY DEF Divides
  <2> HIDE DEF a, b
  <2>3. Separate(b, a)
    <3>1. /\ R[c] \subseteq 0..(l - 1) /\ R[d] \subseteq 0..(l - 1)
          /\ 0..(l - 1) \subseteq 0..(l - 1) /\ l \in Nat
      BY <1>1
    <3> QED BY <2>1, <2>2, <3>1, WrittenApart
  <2>4. Independent(b, a)
    BY <2>1, <2>3, NoCopy
  <2> QED BY <2>4 DEF a, b
<1> QED BY <1>2, <1>3, <1>4 DEF Safe

-----------------------------------------------------------------------------
\* How tiles, blocks and programs are put together.
LEMMA NoTiles ==
    ASSUME NEW l, NEW R, NEW I
    PROVE  TilesIn(<<>>, l, R, I)
  BY DEF TilesIn, ToSet

LEMMA OneTile ==
    ASSUME NEW l, NEW R, NEW I, NEW x, TileIn(x, l, R, I)
    PROVE  TilesIn(<<x>>, l, R, I)
  BY DEF TilesIn, ToSet

LEMMA TwoTiles ==
    ASSUME NEW l, NEW R, NEW I, NEW x, TileIn(x, l, R, I), NEW y, TileIn(y, l, R, I)
    PROVE  TilesIn(<<x, y>>, l, R, I)
  BY DEF TilesIn, ToSet

LEMMA ManyTiles ==
    ASSUME NEW l, NEW R, NEW I, NEW num \in Nat, NEW s, s = [p \in 1..num |-> s[p]],
           \A p \in 1..num : TileIn(s[p], l, R, I)
    PROVE  TilesIn(s, l, R, I)
<1>1. ToSet(s) = {s[p] : p \in 1..num}
  BY DEF ToSet
<1>2. s \in [1..num -> ToSet(s)]
  BY <1>1
<1>3. s \in Seq(ToSet(s))
  BY <1>2
<1> QED BY <1>1, <1>3 DEF TilesIn

LEMMA BothTiles ==
    ASSUME NEW l, NEW R, NEW I, NEW s, TilesIn(s, l, R, I), NEW t, TilesIn(t, l, R, I)
    PROVE  TilesIn(s \o t, l, R, I)
<1> DEFINE X == ToSet(s) \cup ToSet(t)
<1>1. s \in Seq(X) /\ t \in Seq(X)
  BY DEF TilesIn
<1>2. ToSet(s \o t) = X
  <2>1. /\ Len(s) \in Nat /\ Len(t) \in Nat /\ Len(s \o t) = Len(s) + Len(t)
        /\ \A p \in 1..(Len(s) + Len(t)) :
               (s \o t)[p] = IF p <= Len(s) THEN s[p] ELSE t[p - Len(s)]
        /\ DOMAIN s = 1..Len(s) /\ DOMAIN t = 1..Len(t)
        /\ DOMAIN (s \o t) = 1..(Len(s) + Len(t))
    BY <1>1
  <2>2. ASSUME NEW x \in ToSet(s \o t) PROVE x \in X
    BY <2>1 DEF ToSet
  <2>3. ASSUME NEW x \in ToSet(s) PROVE x \in ToSet(s \o t)
    <3>1. PICK p \in 1..Len(s) : x = s[p]
      BY <2>1 DEF ToSet
    <3>2. p \in 1..(Len(s) + Len(t)) /\ (s \o t)[p] = x
      BY <2>1, <3>1
    <3> QED BY <2>1, <3>2 DEF ToSet
  <2>4. ASSUME NEW x \in ToSet(t) PROVE x \in ToSet(s \o t)
    <3>1. PICK p \in 1..Len(t) : x = t[p]
      BY <2>1 DEF ToSet
    <3>2. p + Len(s) \in 1..(Len(s) + Len(t)) /\ (s \o t)[p + Len(s)] = x
      BY <2>1, <3>1
    <3> QED BY <2>1, <3>2 DEF ToSet
  <2> QED BY <2>2, <2>3, <2>4
<1>3. s \o t \in Seq(X)
  BY <1>1
<1> QED BY <1>2, <1>3 DEF TilesIn

LEMMA WholeIn ==
    ASSUME NEW l, NEW R, NEW I, NEW s, TilesIn(s, l, R, I)
    PROVE  ProgIn(Whole(s), 0, l, R, I)
<1>1. Len(Whole(s)) = 1 /\ Whole(s)[1] = [tiles |-> s, copy |-> {}, bar |-> FALSE]
  BY DEF Whole, Block
<1> QED BY <1>1 DEF ProgIn, Meets

LEMMA NoProg ==
    ASSUME NEW l, NEW R, NEW I
    PROVE  ProgIn(<<>>, 0, l, R, I)
  BY DEF ProgIn, Meets

LEMMA AddIn ==
    ASSUME NEW l, NEW rows, NEW cols, NEW ks, NEW R, NEW I,
           ToSet(rows) \subseteq R, ToSet(cols) \subseteq I
    PROVE  TileIn(Add(l, rows, cols, ks), l, R, I) /\ TileIn(Store(l, rows, cols, ks), l, R, I)
  BY DEF TileIn, Add, Store, Tile3

LEMMA Tile3In ==
    ASSUME NEW l, NEW rows, NEW cols, NEW ks, NEW acc, NEW sa, NEW sb, NEW R, NEW I,
           ToSet(rows) \subseteq R, ToSet(cols) \subseteq I
    PROVE  TileIn(Tile3(rows, cols, ks, acc, sa, sb, l), l, R, I)
  BY DEF TileIn, Tile3

\* A program whose every block ends at the barrier.
LEMMA AllMeet ==
    ASSUME NEW l, NEW R, NEW I, NEW num \in Nat, NEW s, s = [p \in 1..num |-> s[p]],
           \A p \in 1..num : \E tiles : s[p] = Block(tiles, TRUE) /\ TilesIn(tiles, l, R, I)
    PROVE  ProgIn(s, num, l, R, I)
<1>1. Len(s) = num
  OBVIOUS
<1>2. \A p \in 1..num : s[p].bar /\ s[p].copy = {} /\ TilesIn(s[p].tiles, l, R, I)
  BY DEF Block
<1> QED BY <1>1, <1>2 DEF ProgIn, Meets

\* Nonlinear facts, one at a time.
LEMMA Times ==
    ASSUME NEW a \in Int, NEW b \in Int, NEW c \in Int
    PROVE  /\ a * b \in Int /\ a * b = b * a
           /\ a * (b + c) = a * b + a * c /\ a * (b - c) = a * b - a * c
           /\ (a + c) * b = a * b + c * b
           /\ (a * b) * c = a * (b * c)
  BY SMT

LEMMA TimesNat ==
    ASSUME NEW a \in Nat, NEW b \in Nat
    PROVE  a * b \in Nat
  BY SMT

LEMMA NatDivision ==
    ASSUME NEW a \in Nat, NEW b \in Nat \ {0}
    PROVE  /\ a \div b \in Nat /\ a % b \in 0..(b - 1)
           /\ b * (a \div b) <= a /\ a = b * (a \div b) + (a % b)
<1> DEFINE q == a \div b
           r == a % b
<1>1. q \in Int /\ r \in 0..(b - 1) /\ a = b * q + r
  BY Division
<1> HIDE DEF q, r
<1>2. b * q \in Int /\ b * (-1) = -b
  BY <1>1, SMT
<1>3. q >= 0
  <2>1. CASE q <= -1
    <3>1. b * q <= b * (-1)
      BY <1>1, <2>1, Monotone
    <3> QED BY <1>1, <1>2, <3>1
  <2> QED BY <1>1, <2>1
<1>4. q \in Nat /\ r \in 0..(b - 1) /\ b * q <= a /\ a = b * q + r
  BY <1>1, <1>2, <1>3
<1> QED BY <1>4 DEF q, r

\* A multiple is divided exactly.
LEMMA Multiple ==
    ASSUME NEW a \in Nat, NEW b \in Nat \ {0}, a % b = 0
    PROVE  a \div b \in Nat /\ a = b * (a \div b)
<1>1. a \div b \in Nat /\ a = b * (a \div b) + (a % b)
  BY NatDivision
<1> DEFINE q == a \div b
<1>2. b * q \in Int
  BY <1>1, SMT
<1> QED BY <1>1, <1>2

LEMMA Exact ==
    ASSUME NEW b \in Nat \ {0}, NEW q \in Int
    PROVE  (b * q) \div b = q /\ (b * q) % b = 0
<1>1. b * q \in Int /\ b * q = b * q + 0
  BY SMT
<1>2. 0 \in 0..(b - 1)
  OBVIOUS
<1>3. (b * q) \div b = q
  BY <1>1, <1>2, Quotient
<1>4. b * q = b * ((b * q) \div b) + ((b * q) % b) /\ (b * q) % b \in Int
  <2> DEFINE a == b * q
  <2>1. a \in Int
    BY <1>1
  <2> HIDE DEF a
  <2>2. a % b \in 0..(b - 1) /\ a = b * (a \div b) + (a % b)
    BY <2>1, Division
  <2> QED BY <2>2 DEF a
<1> QED BY <1>1, <1>3, <1>4

\* A remainder is found by its quotient.
LEMMA Remainder ==
    ASSUME NEW b \in Nat \ {0}, NEW q \in Int, NEW r \in 0..(b - 1)
    PROVE  (b * q + r) % b = r
<1> DEFINE a == b * q + r
<1>1. a \in Int /\ b * q \in Int
  BY SMT
<1>2. a \div b = q
  BY Quotient
<1>3. a % b \in 0..(b - 1) /\ a = b * (a \div b) + (a % b)
  <2> HIDE DEF a
  <2> QED BY <1>1, Division
<1> QED BY <1>1, <1>2, <1>3

LEMMA QuotientMonotone ==
    ASSUME NEW a \in Nat, NEW b \in Nat, a <= b, NEW n \in Nat \ {0}
    PROVE  a \div n <= b \div n
<1> DEFINE p == a \div n
           q == b \div n
<1>1. p \in Nat /\ q \in Nat /\ n * p <= a /\ b % n \in 0..(n - 1) /\ b = n * q + (b % n)
  BY NatDivision
<1> HIDE DEF p, q
<1>2. ASSUME q + 1 <= p PROVE FALSE
  <2>1. n * (q + 1) <= n * p
    BY <1>1, <1>2, Monotone
  <2>2. n * (q + 1) = n * q + n /\ n * p \in Int /\ n * q \in Int
    BY <1>1, SMT
  <2> QED BY <1>1, <2>1, <2>2
<1>3. p <= q
  BY <1>1, <1>2
<1> QED BY <1>3 DEF p, q

\* Rounding down a sum loses no more than rounding down its parts.
LEMMA QuotientSum ==
    ASSUME NEW a \in Nat, NEW b \in Nat, NEW n \in Nat \ {0}
    PROVE  (a \div n) + (b \div n) <= (a + b) \div n
<1> DEFINE p == a \div n
           q == b \div n
<1>1. p \in Nat /\ q \in Nat /\ n * p <= a /\ n * q <= b
  BY NatDivision
<1> HIDE DEF p, q
<1>2. n * (p + q) = n * p + n * q /\ n * p \in Nat /\ n * q \in Nat
  BY <1>1, SMT
<1>3. (n * (p + q)) \div n = p + q
  BY <1>1, Exact
<1>4. (n * (p + q)) \div n <= (a + b) \div n
  <2>1. n * (p + q) \in Nat /\ n * (p + q) <= a + b
    BY <1>1, <1>2
  <2> HIDE DEF p, q
  <2> QED BY <2>1, QuotientMonotone
<1> QED BY <1>3, <1>4 DEF p, q

-----------------------------------------------------------------------------
\* The ways in which the kernels divide the rows, or the columns, among cores.

\* Cut at increasing points.
LEMMA CutsDivide ==
    ASSUME NEW n \in Nat \ {0}, NEW l \in Nat, NEW f \in [0..n -> Int], NEW R,
           f[0] >= 0, f[n] <= l, \A c, d \in 0..n : c <= d => f[c] <= f[d],
           \A c \in Threads(n) : R[c] = f[c]..(f[c + 1] - 1)
    PROVE  Divides(R, n, l)
<1>1. \A c \in Threads(n) : c \in 0..n /\ c + 1 \in 0..n /\ f[c] >= 0 /\ f[c + 1] <= l
  BY DEF Threads
<1>2. \A c \in Threads(n) : R[c] \subseteq 0..(l - 1)
  BY <1>1
<1>3. ASSUME NEW c \in Threads(n), NEW d \in Threads(n), c < d
      PROVE  R[c] \cap R[d] = {}
  <2>1. f[c + 1] <= f[d]
    BY <1>1, <1>3 DEF Threads
  <2>2. /\ R[c] = f[c]..(f[c + 1] - 1) /\ R[d] = f[d]..(f[d + 1] - 1)
        /\ f[c] \in Int /\ f[c + 1] \in Int /\ f[d] \in Int /\ f[d + 1] \in Int
    BY <1>1
  <2> QED BY <2>1, <2>2
<1>4. \A c, d \in Threads(n) : c # d => R[c] \cap R[d] = {}
  <2> SUFFICES ASSUME NEW c \in Threads(n), NEW d \in Threads(n), c # d
               PROVE  R[c] \cap R[d] = {}
    OBVIOUS
  <2>1. c < d \/ d < c
    BY DEF Threads
  <2> QED BY <1>3, <2>1
<1> QED BY <1>2, <1>4 DEF Divides

\* Equal shares; what is left over at the end nobody takes.
Bands(n, l) == [c \in Threads(n) |-> (c * (l \div n))..((c + 1) * (l \div n) - 1)]

LEMMA BandsDivide ==
    ASSUME NEW n \in Nat \ {0}, NEW l \in Nat \ {0}
    PROVE  Divides(Bands(n, l), n, l)
<1> DEFINE s == l \div n
           f == [c \in 0..n |-> c * s]
<1>1. s \in Nat /\ n * s <= l
  BY NatDivision
<1>2. \A c \in Threads(n) : Bands(n, l)[c] = f[c]..(f[c + 1] - 1)
  <2> SUFFICES ASSUME NEW c \in Threads(n) PROVE Bands(n, l)[c] = f[c]..(f[c + 1] - 1)
    OBVIOUS
  <2>1. c \in 0..n /\ c + 1 \in 0..n
    BY DEF Threads
  <2>2. f[c] = c * s /\ f[c + 1] = (c + 1) * s
    BY <2>1
  <2> HIDE DEF f
  <2> QED BY <2>2 DEF Bands
<1> HIDE DEF s
<1>3. \A c \in 0..n : c * s \in Int /\ c * s = s * c
  BY <1>1, Times
<1>4. f \in [0..n -> Int]
  BY <1>3
<1>5. \A c, d \in 0..n : c <= d => f[c] <= f[d]
  BY <1>1, <1>3, Monotone
<1>6. f[0] >= 0 /\ f[n] <= l
  BY <1>1
<1> HIDE DEF f
<1> QED BY <1>2, <1>4, <1>5, <1>6, CutsDivide

\* Cut at the rounded fractions of l.
Floors(n, l) == [c \in Threads(n) |-> ((c * l) \div n)..(((c + 1) * l) \div n - 1)]

LEMMA FloorsDivide ==
    ASSUME NEW n \in Nat \ {0}, NEW l \in Nat \ {0}
    PROVE  Divides(Floors(n, l), n, l)
<1> DEFINE f == [c \in 0..n |-> (c * l) \div n]
<1>1. \A c \in 0..n : c * l \in Nat /\ c * l = l * c
  BY Times, TimesNat
<1>2. \A c \in 0..n : f[c] \in Nat
  BY <1>1, NatDivision
<1>3. f \in [0..n -> Int]
  BY <1>2
<1>4. ASSUME NEW c \in 0..n, NEW d \in 0..n, c <= d
      PROVE  f[c] <= f[d]
  <2>1. c * l \in Nat /\ d * l \in Nat /\ c * l <= d * l
    BY <1>1, <1>4, Monotone
  <2> QED BY <2>1, QuotientMonotone
<1>5. f[0] >= 0
  BY <1>2
<1>6. f[n] <= l
  BY Exact
<1>7. \A c \in Threads(n) : Floors(n, l)[c] = f[c]..(f[c + 1] - 1)
  BY DEF Floors, Threads
<1> HIDE DEF f
<1> QED BY <1>3, <1>4, <1>5, <1>6, <1>7, CutsDivide

\* Equal shares, the last core taking what is left.
Lasts(n, l) ==
    [c \in Threads(n) |->
        ((l \div n) * c)..((IF c # n - 1 THEN (l \div n) * c + (l \div n) ELSE l) - 1)]

LEMMA LastsDivide ==
    ASSUME NEW n \in Nat \ {0}, NEW l \in Nat \ {0}
    PROVE  Divides(Lasts(n, l), n, l)
<1> DEFINE s == l \div n
           f == [c \in 0..n |-> IF c = n THEN l ELSE s * c]
<1>1. s \in Nat /\ n * s <= l
  BY NatDivision
<1>2. \A c \in Threads(n) : s * c + s = s * (c + 1)
  <2>1. SUFFICES ASSUME NEW c \in Threads(n) PROVE s * c + s = s * (c + 1)
    OBVIOUS
  <2>2. c \in Int
    BY DEF Threads
  <2> HIDE DEF s
  <2> QED BY <1>1, <2>2, SMT
<1>3. \A c \in Threads(n) : Lasts(n, l)[c] = f[c]..(f[c + 1] - 1)
  <2>1. SUFFICES ASSUME NEW c \in Threads(n) PROVE Lasts(n, l)[c] = f[c]..(f[c + 1] - 1)
    OBVIOUS
  <2>2. c \in 0..n /\ c + 1 \in 0..n /\ c # n /\ (c = n - 1 <=> c + 1 = n)
    BY DEF Threads
  <2>3. Lasts(n, l)[c] = (s * c)..((IF c # n - 1 THEN s * c + s ELSE l) - 1)
    BY DEF Lasts
  <2>4. f[c] = s * c /\ f[c + 1] = IF c + 1 = n THEN l ELSE s * (c + 1)
    BY <2>2
  <2> HIDE DEF s, f
  <2>5. s * c + s = s * (c + 1)
    BY <1>2
  <2> QED BY <2>2, <2>3, <2>4, <2>5
<1> HIDE DEF s
<1>4. \A c \in 0..n : s * c \in Int /\ s * c <= s * n /\ s * n = n * s
  BY <1>1, Times, Monotone
<1>5. f \in [0..n -> Int]
  BY <1>4
<1>6. \A c, d \in 0..n : c <= d => f[c] <= f[d]
  BY <1>1, <1>4, Monotone
<1>7. f[0] >= 0 /\ f[n] <= l
  BY <1>1
<1> HIDE DEF f
<1> QED BY <1>3, <1>5, <1>6, <1>7, CutsDivide

\* Groups of w in turn.
Combs(n, l, w) == [c \in Threads(n) |-> {x \in 0..(l - 1) : (x \div w) % n = c}]

LEMMA CombsDivide ==
    ASSUME NEW n, NEW l, NEW w
    PROVE  Divides(Combs(n, l, w), n, l)
  BY DEF Divides, Combs

\* Two halves of h for two cores; a core alone does both, and other cores none.
Halves(n, h) ==
    [c \in Threads(n) |-> {x \in 0..(2 * h - 1) : IF x < h THEN c = 0 ELSE c = 1 \/ n = 1}]

LEMMA HalvesDivide ==
    ASSUME NEW n \in Nat \ {0}, NEW h \in Nat, NEW l \in Nat, l = 2 * h
    PROVE  Divides(Halves(n, h), n, l)
  BY DEF Divides, Halves, Threads

\* The same with the halves exchanged.
Swapped(n, h) ==
    [c \in Threads(n) |-> {x \in 0..(2 * h - 1) : IF x < h THEN c = 1 \/ n = 1 ELSE c = 0}]

LEMMA SwappedDivide ==
    ASSUME NEW n \in Nat \ {0}, NEW h \in Nat, NEW l \in Nat, l = 2 * h
    PROVE  Divides(Swapped(n, h), n, l)
  BY DEF Divides, Swapped, Threads

\* Core 0 does everything.
First(n, l) == [c \in Threads(n) |-> IF c = 0 THEN 0..(l - 1) ELSE {}]

LEMMA FirstDivide ==
    ASSUME NEW n, NEW l
    PROVE  Divides(First(n, l), n, l)
  BY DEF Divides, First

\* Where the loops of the kernels run.
LEMMA FromZero ==
    ASSUME NEW l \in Nat, NEW st \in Nat \ {0}, l % st = 0
    PROVE  ToSet(Loop(0, l, st, st)) \subseteq 0..(l - 1)
<1>1. (l - 0) % st = 0
  OBVIOUS
<1> QED BY <1>1, LoopValues

LEMMA AllOf ==
    ASSUME NEW l \in Nat
    PROVE  ToSet(Range1(0, l)) \subseteq 0..(l - 1)
  BY RangeValues

LEMMA ShareValues ==
    ASSUME NEW n \in Nat \ {0}, NEW l \in Nat \ {0}, NEW c \in Threads(n),
           NEW st \in Nat \ {0}, (l \div n) % st = 0
    PROVE  ToSet(Share(c, n, l, st, st)) \subseteq Bands(n, l)[c]
<1> DEFINE s == l \div n
           lo == c * s
           hi == (c + 1) * s
<1>1. s \in Nat /\ c \in Nat
  BY NatDivision DEF Threads
<1>2. Share(c, n, l, st, st) = Loop(lo, hi, st, st) /\ Bands(n, l)[c] = lo..(hi - 1)
  BY DEF Share, Bands
<1>3. s % st = 0
  OBVIOUS
<1> HIDE DEF s
<1>4. lo \in Int /\ hi \in Int /\ hi - lo = s
  BY <1>1, SMT
<1> HIDE DEF lo, hi
<1> QED BY <1>2, <1>3, <1>4, LoopValues

\* A fraction of a multiple of w * n is a multiple of w.
LEMMA FloorValues ==
    ASSUME NEW n \in Nat \ {0}, NEW l \in Nat \ {0}, NEW c \in Threads(n),
           NEW w \in Nat \ {0}, l % (w * n) = 0
    PROVE  /\ ToSet(Loop((c * l) \div n, ((c + 1) * l) \div n, w, w)) \subseteq Floors(n, l)[c]
           /\ (c + 1) * l = l * (1 + c)
<1> DEFINE q == l \div (w * n)
           lo == (c * l) \div n
           hi == ((c + 1) * l) \div n
<1>1. c \in Nat /\ w * n \in Nat \ {0}
  BY Z3 DEF Threads
<1>2. q \in Nat /\ l = (w * n) * q
  BY <1>1, Multiple
<1>3. Floors(n, l)[c] = lo..(hi - 1)
  BY DEF Floors
<1> HIDE DEF q
<1> DEFINE d == w * q
           u == c * d
           v == (c + 1) * d
<1>4. d \in Nat /\ u \in Int /\ v \in Int /\ v - u = d
  <2>1. d \in Nat
    BY <1>2, TimesNat
  <2> HIDE DEF d
  <2> QED BY <1>1, <2>1, SMT
<1>5. c * l = n * u /\ (c + 1) * l = n * v
  BY <1>1, <1>2, SMT
<1>10. d % w = 0
  BY <1>2, Exact
<1> HIDE DEF d, u, v
<1>6. lo = u /\ hi = v
  BY <1>4, <1>5, Exact
<1> HIDE DEF lo, hi
<1>7. lo \in Int /\ hi \in Int /\ (hi - lo) % w = 0
  BY <1>4, <1>6, <1>10
<1>8. ToSet(Loop(lo, hi, w, w)) \subseteq lo..(hi - 1)
  BY <1>7, LoopValues
<1>9. (c + 1) * l = l * (1 + c)
  BY <1>1, SMT
<1> QED BY <1>3, <1>8, <1>9 DEF lo, hi

-----------------------------------------------------------------------------
\* The kernels, one by one: each divides the rows or the columns of C.
IsSafe(k, n, l) == \E m \in Nat : Safe(k, n, l, m)

LEMMA bbSafe ==
    ASSUME NEW n \in Nat \ {0}, NEW l \in Nat \ {0}, Fits("bb", n, l)
    PROVE  IsSafe("bb", n, l)
<1>1. l % 2 = 0 /\ (l \div n) % 4 = 0
  BY DEF Fits
<1>2. ASSUME NEW c \in Threads(n)
      PROVE  ProgIn(Kernel("bb", c, n, l), 0, l, Bands(n, l)[c], 0..(l - 1))
  <2>1. Kernel("bb", c, n, l) = bb(c, n, l)
    BY DEF Kernel
  <2>2. /\ ToSet(Share(c, n, l, 4, 4)) \subseteq Bands(n, l)[c]
        /\ ToSet(Loop(0, l, 2, 2)) \subseteq 0..(l - 1)
    BY <1>1, ShareValues, FromZero
  <2> QED BY <2>1, <2>2, AddIn, OneTile, WholeIn DEF bb
<1> QED BY <1>2, BandsDivide, SafeRows DEF IsSafe

LEMMA doSafe ==
    ASSUME NEW n \in Nat \ {0}, NEW l \in Nat \ {0}, Fits("do", n, l)
    PROVE  IsSafe("do", n, l)
<1>1. l = 32
  BY DEF Fits, Only32
<1>2. ASSUME NEW c \in Threads(n)
      PROVE  ProgIn(Kernel("do", c, n, l), 0, l, Bands(n, l)[c], 0..(l - 1))
  <2>1. Kernel("do", c, n, l) = do(c, n, l)
    BY DEF Kernel
  <2>2. (32 \div n) % 1 = 0
    <3>1. 32 \div n \in Nat
      BY NatDivision
    <3> QED BY <3>1
  <2>4. do(c, n, l) = Whole(<<Store(l, Share(c, n, l, 1, 1), Range1(0, l), Range1(0, l))>>)
    BY <1>1 DEF do
  <2>5. /\ ToSet(Share(c, n, l, 1, 1)) \subseteq Bands(n, l)[c]
        /\ ToSet(Range1(0, l)) \subseteq 0..(l - 1)
    BY <1>1, <2>2, ShareValues, AllOf
  <2> QED BY <2>1, <2>4, <2>5, AddIn, OneTile, WholeIn
<1> QED BY <1>2, BandsDivide, SafeRows DEF IsSafe

LEMMA amSafe ==
    ASSUME NEW k \in {"am", "du"}, NEW n \in Nat \ {0}, NEW l \in Nat \ {0}, Fits(k, n, l)
    PROVE  IsSafe(k, n, l)
<1>1. l = 32 /\ l % 4 = 0 /\ l % (2 * n) = 0
  BY DEF Fits, Only32
<1>2. ASSUME NEW c \in Threads(n)
      PROVE  ProgIn(Kernel(k, c, n, l), 0, l, Floors(n, l)[c], 0..(l - 1))
  <2>1. Kernel(k, c, n, l) = PairsOfRows(c, n, l)
    BY DEF Kernel, am, du
  <2>4. ToSet(Loop((c * l) \div n, (l * (1 + c)) \div n, 2, 2)) \subseteq Floors(n, l)[c]
    <3>1. /\ ToSet(Loop((c * l) \div n, ((c + 1) * l) \div n, 2, 2)) \subseteq Floors(n, l)[c]
          /\ (c + 1) * l = l * (1 + c)
      BY <1>1, FloorValues
    <3> QED BY <3>1, Zenon
  <2>2. ToSet(Loop(0, l, 4, 4)) \subseteq 0..(l - 1)
    BY <1>1, FromZero
  <2>3. PairsOfRows(c, n, l) =
            Whole(<<Store(l, Loop((c * l) \div n, (l * (1 + c)) \div n, 2, 2), Loop(0, l, 4, 4),
                          Loop(0, l, 4, 4))>>)
    BY <1>1 DEF PairsOfRows
  <2> QED BY <2>1, <2>2, <2>3, <2>4, AddIn, OneTile, WholeIn
<1> QED BY <1>2, FloorsDivide, SafeRows DEF IsSafe

LEMMA afSafe ==
    ASSUME NEW n \in Nat \ {0}, NEW l \in Nat \ {0}, Fits("af", n, l)
    PROVE  IsSafe("af", n, l)
<1>1. l = 32 /\ l % 4 = 0 /\ l % (2 * n) = 0
  BY DEF Fits, Only32
<1>2. ASSUME NEW c \in Threads(n)
      PROVE  ProgIn(Kernel("af", c, n, l), 0, l, Floors(n, l)[c], 0..(l - 1))
  <2>1. Kernel("af", c, n, l) = af(c, n, l)
    BY DEF Kernel
  <2>4. ToSet(Loop((c * l) \div n, (l * (1 + c)) \div n, 2, 2)) \subseteq Floors(n, l)[c]
    <3>1. /\ ToSet(Loop((c * l) \div n, ((c + 1) * l) \div n, 2, 2)) \subseteq Floors(n, l)[c]
          /\ (c + 1) * l = l * (1 + c)
      BY <1>1, FloorValues
    <3> QED BY <3>1, Zenon
  <2>2. ToSet(Loop(0, l, 4, 4)) \subseteq 0..(l - 1)
    BY <1>1, FromZero
  <2>3. af(c, n, l) =
            Whole(<<Tile3(Loop((c * l) \div n, (l * (1 + c)) \div n, 2, 2), Loop(0, l, 4, 4),
                          Loop(0, l, 4, 4), FALSE, l, l, l)>>)
    BY <1>1 DEF af
  <2> QED BY <2>1, <2>2, <2>3, <2>4, Tile3In, OneTile, WholeIn
<1> QED BY <1>2, FloorsDivide, SafeRows DEF IsSafe

LEMMA apSafe ==
    ASSUME NEW n \in Nat \ {0}, NEW l \in Nat \ {0}
    PROVE  IsSafe("ap", n, l)
<1>1. ASSUME NEW c \in Threads(n)
      PROVE  ProgIn(Kernel("ap", c, n, l), 0, l, Bands(n, l)[c], 0..(l - 1))
  <2>1. Kernel("ap", c, n, l) = ap(c, n, l)
    BY DEF Kernel
  <2> DEFINE s == l \div n
             lo == s * c
  <2>2. s \in Nat /\ c \in Nat
    BY NatDivision DEF Threads
  <2>3. Bands(n, l)[c] = (c * s)..((c + 1) * s - 1)
    BY DEF Bands
  <2> HIDE DEF s
  <2>4. lo \in Nat /\ c * s = lo /\ (c + 1) * s = lo + s
    BY <2>2, SMT
  <2> HIDE DEF lo
  <2>5. ToSet(Range1(lo, lo + s)) \subseteq Bands(n, l)[c]
    BY <2>2, <2>3, <2>4, RangeValues
  <2>6. ap(c, n, l) = Whole(<<Add(l, Range1(lo, lo + s), Range1(0, l), Range1(0, l))>>)
    BY DEF ap, lo, s
  <2> QED BY <2>1, <2>5, <2>6, AllOf, AddIn, OneTile, WholeIn
<1> QED BY <1>1, BandsDivide, SafeRows DEF IsSafe

LEMMA arSafe ==
    ASSUME NEW n \in Nat \ {0}, NEW l \in Nat \ {0}
    PROVE  IsSafe("ar", n, l)
<1>1. ASSUME NEW c \in Threads(n)
      PROVE  ProgIn(Kernel("ar", c, n, l), 0, l, Bands(n, l)[c], 0..(l - 1))
  <2>1. Kernel("ar", c, n, l) = ar(c, n, l)
    BY DEF Kernel
  <2> DEFINE lo == c * (l \div n)
             hi == (c + 1) * (l \div n)
  <2>2. lo \in Int /\ hi \in Int
    <3>1. l \div n \in Int /\ c \in Int /\ c + 1 \in Int
      BY NatDivision DEF Threads
    <3> QED BY <3>1, Times
  <2>3. Bands(n, l)[c] = lo..(hi - 1)
    BY DEF Bands
  <2>4. ar(c, n, l) = Whole(<<Add(l, Range1(lo, Lesser(hi, l)), Range1(0, l), Range1(0, l))>>)
    BY DEF ar
  <2> HIDE DEF lo, hi
  <2>5. Lesser(hi, l) \in Int /\ Lesser(hi, l) <= hi
    BY <2>2 DEF Lesser
  <2>6. ToSet(Range1(lo, Lesser(hi, l))) \subseteq Bands(n, l)[c]
    BY <2>2, <2>3, <2>5, RangeValues
  <2> QED BY <2>1, <2>4, <2>6, AllOf, AddIn, OneTile, WholeIn
<1> QED BY <1>1, BandsDivide, SafeRows DEF IsSafe

LEMMA atSafe ==
    ASSUME NEW n \in Nat \ {0}, NEW l \in Nat \ {0}, Fits("at", n, l)
    PROVE  IsSafe("at", n, l)
<1>1. l % (8 * n) = 0
  BY DEF Fits
<1>2. ASSUME NEW c \in Threads(n)
      PROVE  ProgIn(Kernel("at", c, n, l), 0, l, 0..(l - 1), Floors(n, l)[c])
  <2>1. Kernel("at", c, n, l) = at(c, n, l)
    BY DEF Kernel
  <2>2. ToSet(Loop((c * l) \div n, ((c + 1) * l) \div n, 8, 8)) \subseteq Floors(n, l)[c]
    BY <1>1, FloorValues
  <2> QED BY <2>1, <2>2, AllOf, AddIn, OneTile, WholeIn DEF at
<1> QED BY <1>2, FloorsDivide, SafeColumns DEF IsSafe

\* A block without tiles up to the barrier, and one after it.
LEMMA MeetFirst ==
    ASSUME NEW l, NEW R, NEW I, NEW s, TilesIn(s, l, R, I)
    PROVE  ProgIn(<<Block(<<>>, TRUE), Block(s, FALSE)>>, 1, l, R, I)
<1> DEFINE prog == <<Block(<<>>, TRUE), Block(s, FALSE)>>
<1>1. Len(prog) = 2 /\ prog[1] = Block(<<>>, TRUE) /\ prog[2] = Block(s, FALSE)
  OBVIOUS
<1> HIDE DEF prog
<1>2. /\ prog[1].bar /\ prog[1].copy = {} /\ prog[1].tiles = <<>>
      /\ ~prog[2].bar /\ prog[2].copy = {} /\ prog[2].tiles = s
  BY <1>1 DEF Block
<1>3. \A p \in 1..2 : p = 1 \/ p = 2
  OBVIOUS
<1>4. Meets(prog, 1)
  <2>1. \A p \in 1..2 : prog[p].bar <=> p <= 1
    <3> SUFFICES ASSUME NEW p \in 1..2 PROVE prog[p].bar <=> p <= 1
      OBVIOUS
    <3>1. CASE p = 1
      BY <1>2, <3>1
    <3>2. CASE p = 2
      BY <1>2, <3>2
    <3> QED BY <1>3, <3>1, <3>2
  <2> QED BY <1>1, <2>1 DEF Meets
<1>5. ProgIn(prog, 1, l, R, I)
  BY <1>1, <1>2, <1>3, <1>4, NoTiles DEF ProgIn
<1> QED BY <1>5 DEF prog

LEMMA aiSafe ==
    ASSUME NEW k \in {"ai", "ci"}, NEW n \in Nat \ {0}, NEW l \in Nat \ {0}, Fits(k, n, l)
    PROVE  IsSafe(k, n, l)
<1>1. l % 4 = 0
  BY DEF Fits
<1>2. ASSUME NEW c \in Threads(n)
      PROVE  ProgIn(Kernel(k, c, n, l), 1, l, Floors(n, l)[c], 0..(l - 1))
  <2>1. Kernel(k, c, n, l) = AfterMeeting(c, n, l)
    BY DEF Kernel, ai, ci
  <2> DEFINE lo == (c * l) \div n
             s == l \div n
             hi == ((c + 1) * l) \div n
  <2>2. c * l \in Nat /\ (c + 1) * l = c * l + l
    BY Z3 DEF Threads
  <2>3. lo \in Nat /\ s \in Nat
    BY <2>2, NatDivision
  <2>4. hi \in Nat /\ lo + s <= hi
    <3> DEFINE a == c * l
    <3> HIDE DEF a
    <3>1. a \in Nat /\ a + l \in Nat
      BY <2>2 DEF a
    <3>2. (a \div n) + (l \div n) <= (a + l) \div n /\ (a + l) \div n \in Nat
      BY <3>1, QuotientSum, NatDivision
    <3> QED BY <2>2, <3>2 DEF a
  <2>5. Floors(n, l)[c] = lo..(hi - 1)
    BY DEF Floors
  <2>6. AfterMeeting(c, n, l) =
            <<Block(<<>>, TRUE),
              Block(<<Store(l, Range1(lo, lo + s), Loop(0, l, 4, 4), Range1(0, l))>>, FALSE)>>
    BY DEF AfterMeeting
  <2> HIDE DEF lo, s, hi
  <2>7. ToSet(Range1(lo, lo + s)) \subseteq Floors(n, l)[c]
    BY <2>3, <2>4, <2>5, RangeValues
  <2>8. ToSet(Loop(0, l, 4, 4)) \subseteq 0..(l - 1)
    BY <1>1, FromZero
  <2> QED BY <2>1, <2>6, <2>7, <2>8, AddIn, OneTile, MeetFirst
<1> QED BY <1>2, FloorsDivide, SafeRows DEF IsSafe

LEMMA RoundedValues ==
    ASSUME NEW n \in Nat \ {0}, NEW l \in Nat \ {0}, NEW c \in Threads(n),
           l % 4 = 0, (l \div n) % 4 = 0
    PROVE  ToSet(RoundedRows(c, n, l)) \subseteq Lasts(n, l)[c]
<1> DEFINE s == l \div n
           lo == s * c
           hi == IF c # n - 1 THEN s * c + s ELSE l
<1>1. s \in Nat /\ c \in Nat /\ n * s <= l
  BY NatDivision DEF Threads
<1>2. RoundedRows(c, n, l) = Loop(lo, (hi \div 4) * 4, 4, 4) /\ Lasts(n, l)[c] = lo..(hi - 1)
  BY DEF RoundedRows, Lasts
<1>3. s % 4 = 0
  OBVIOUS
<1> HIDE DEF s
<1>4. lo \in Nat /\ lo % 4 = 0
  <2>1. s = 4 * (s \div 4) /\ s \div 4 \in Nat
    BY <1>1, <1>3
  <2>2. lo = 4 * ((s \div 4) * c) /\ (s \div 4) * c \in Nat
    BY <1>1, <2>1, SMT
  <2> QED BY <2>2
<1>5. hi \in Nat /\ hi % 4 = 0
  BY <1>1, <1>3, <1>4
<1> HIDE DEF lo, hi
<1>6. (hi \div 4) * 4 = hi /\ (hi - lo) % 4 = 0
  BY <1>4, <1>5
<1> QED BY <1>2, <1>4, <1>5, <1>6, LoopValues

LEMMA bmSafe ==
    ASSUME NEW n \in Nat \ {0}, NEW l \in Nat \ {0}, Fits("bm", n, l)
    PROVE  IsSafe("bm", n, l)
<1>1. l % 4 = 0 /\ (l \div n) % 4 = 0
  BY DEF Fits
<1>2. ASSUME NEW c \in Threads(n)
      PROVE  ProgIn(Kernel("bm", c, n, l), 0, l, Lasts(n, l)[c], 0..(l - 1))
  <2>1. Kernel("bm", c, n, l) = bm(c, n, l)
    BY DEF Kernel
  <2>2. /\ ToSet(RoundedRows(c, n, l)) \subseteq Lasts(n, l)[c]
        /\ ToSet(Loop(0, l, 4, 4)) \subseteq 0..(l - 1)
    BY <1>1, RoundedValues, FromZero
  <2> QED BY <2>1, <2>2, AddIn, OneTile, WholeIn DEF bm
<1> QED BY <1>2, LastsDivide, SafeRows DEF IsSafe

-----------------------------------------------------------------------------
\* A core takes every n-th row or column, in loops unrolled u times.
LEMMA Interleaved ==
    ASSUME NEW n \in Nat \ {0}, NEW l \in Nat \ {0}, NEW c \in Threads(n),
           NEW u \in Nat \ {0}, l % (u * n) = 0,
           NEW a \in Nat, NEW b \in 0..(u - 1), c + (u * n) * a < l
    PROVE  c + (u * n) * a + n * b \in Combs(n, l, 1)[c]
<1> DEFINE g == u * n
           q == l \div g
           j == u * a + b
           x == c + g * a + n * b
<1>1. g \in Nat \ {0} /\ c \in 0..(n - 1)
  BY Z3 DEF Threads
<1>2. q \in Nat /\ l = g * q
  BY <1>1, Multiple
<1> HIDE DEF q
<1>3. j \in Nat /\ x = n * j + c
  BY <1>1, SMT
<1>4. x % n = c
  BY <1>1, <1>3, Remainder
<1>5. n * b <= n * (u - 1) /\ n * (u - 1) = g - n /\ n * b \in Nat
  <2>1. n * b <= n * (u - 1)
    BY Monotone
  <2> QED BY <2>1, SMT
<1> HIDE DEF g
<1>6. g * a \in Nat /\ g * q \in Nat
  BY <1>1, <1>2, TimesNat
<1>7. a < q
  <2>1. ASSUME q <= a PROVE FALSE
    <3>1. g * q <= g * a
      BY <1>1, <1>2, <2>1, Monotone
    <3> QED BY <1>1, <1>2, <1>6, <3>1 DEF g
  <2> QED BY <1>2, <2>1
<1>8. g * a <= g * (q - 1) /\ g * (q - 1) = g * q - g
  BY <1>1, <1>2, <1>7, Monotone, Times
<1>9. x \in 0..(l - 1)
  BY <1>1, <1>2, <1>5, <1>6, <1>8
<1> HIDE DEF x
<1>10. (x \div 1) % n = c
  <2>1. x \div 1 = x
    BY <1>9
  <2> QED BY <1>4, <2>1
<1>11. x \in Combs(n, l, 1)[c]
  BY <1>9, <1>10 DEF Combs
<1> QED BY <1>11 DEF x, g

LEMMA InterleavedValues ==
    ASSUME NEW n \in Nat \ {0}, NEW l \in Nat \ {0}, NEW c \in Threads(n),
           NEW u \in Nat \ {0}, l % (u * n) = 0
    PROVE  ToSet(Strided(c, l, u * n, u, n)) \subseteq Combs(n, l, 1)[c]
<1> SUFFICES ASSUME NEW x \in ToSet(Strided(c, l, u * n, u, n)) PROVE x \in Combs(n, l, 1)[c]
  OBVIOUS
<1>1. u * n \in Nat \ {0} /\ c \in Int
  BY Z3 DEF Threads
<1>2. Visits(x, c, l, u * n, u, n)
  BY <1>1, StridedValues
<1>3. PICK a \in Nat, b \in 0..(u - 1) : x = c + (u * n) * a + n * b /\ c + (u * n) * a < l
  BY <1>2 DEF Visits
<1>4. c + (u * n) * a + n * b \in Combs(n, l, 1)[c]
  BY <1>3, Interleaved
<1> QED BY <1>3, <1>4

LEMMA aqSafe ==
    ASSUME NEW n \in Nat \ {0}, NEW l \in Nat \ {0}, Fits("aq", n, l)
    PROVE  IsSafe("aq", n, l)
<1>1. l % (2 * n) = 0
  BY DEF Fits
<1>2. ASSUME NEW c \in Threads(n)
      PROVE  ProgIn(Kernel("aq", c, n, l), 0, l, 0..(l - 1), Combs(n, l, 1)[c])
  <2>1. Kernel("aq", c, n, l) = aq(c, n, l)
    BY DEF Kernel
  <2>2. ToSet(Strided(c, l, 2 * n, 2, n)) \subseteq Combs(n, l, 1)[c]
    BY <1>1, InterleavedValues
  <2> QED BY <2>1, <2>2, AllOf, AddIn, OneTile, WholeIn DEF aq
<1> QED BY <1>2, CombsDivide, SafeColumns DEF IsSafe

LEMMA bsSafe ==
    ASSUME NEW n \in Nat \ {0}, NEW l \in Nat \ {0}, Fits("bs", n, l)
    PROVE  IsSafe("bs", n, l)
<1>1. l % (4 * n) = 0
  BY DEF Fits
<1>2. ASSUME NEW c \in Threads(n)
      PROVE  ProgIn(Kernel("bs", c, n, l), 0, l, Combs(n, l, 1)[c], 0..(l - 1))
  <2>1. Kernel("bs", c, n, l) = bs(c, n, l)
    BY DEF Kernel
  <2>2. ToSet(Strided(c, l, 4 * n, 4, n)) \subseteq Combs(n, l, 1)[c]
    BY <1>1, InterleavedValues
  <2> QED BY <2>1, <2>2, AllOf, AddIn, OneTile, WholeIn DEF bs
<1> QED BY <1>2, CombsDivide, SafeRows DEF IsSafe

\* A core takes every n-th group of w rows.
LEMMA Grouped ==
    ASSUME NEW n \in Nat \ {0}, NEW l \in Nat, NEW c \in Threads(n), NEW w \in Nat \ {0},
           NEW a \in Nat, NEW b \in 0..(w - 1), w * c + (w * n) * a + b < l
    PROVE  w * c + (w * n) * a + b \in Combs(n, l, w)[c]
<1> DEFINE j == n * a + c
           x == w * c + (w * n) * a + b
<1>1. c \in 0..(n - 1)
  BY DEF Threads
<1>2. j \in Nat /\ x = w * j + b
  BY <1>1, SMT
<1>3. j % n = c
  BY <1>1, Remainder
<1> HIDE DEF j
<1>4. x \div w = j
  BY <1>2, Quotient
<1>5. w * j \in Nat
  BY <1>2, TimesNat
<1>6. x \in 0..(l - 1)
  BY <1>2, <1>5
<1> QED BY <1>3, <1>4, <1>6 DEF Combs

LEMMA dsSafe ==
    ASSUME NEW n \in Nat \ {0}, NEW l \in Nat \ {0}, Fits("ds", n, l)
    PROVE  IsSafe("ds", n, l)
<1>1. l % 4 = 0
  BY DEF Fits
<1>2. ASSUME NEW c \in Threads(n)
      PROVE  ProgIn(Kernel("ds", c, n, l), 0, l, Combs(n, l, 4)[c], 0..(l - 1))
  <2>1. Kernel("ds", c, n, l) = ds(c, n, l)
    BY DEF Kernel
  <2>2. ASSUME NEW x \in ToSet(Loop(4 * c, l, 4 * n, 4))
        PROVE  x \in Combs(n, l, 4)[c]
    <3>1. 4 * n \in Nat \ {0} /\ 4 * c \in Int /\ c \in Nat
      BY DEF Threads
    <3>2. Visits(x, 4 * c, l, 4 * n, 4, 1)
      BY <2>2, <3>1, StridedValues DEF Loop
    <3>3. PICK a \in Nat, b \in 0..3 :
             x = 4 * c + (4 * n) * a + 1 * b /\ 4 * c + (4 * n) * a < l
      BY <3>2 DEF Visits
    <3> DEFINE j == n * a
    <3>4. j \in Nat /\ (4 * n) * a = 4 * j
      BY Z3
    <3>5. 4 * c + (4 * n) * a + b < l
      <4> HIDE DEF j
      <4> QED BY <1>1, <3>1, <3>3, <3>4
    <3>6. 4 * c + (4 * n) * a + b \in Combs(n, l, 4)[c]
      <4>1. 4 \in Nat \ {0} /\ b \in 0..(4 - 1)
        OBVIOUS
      <4> HIDE DEF j
      <4> QED BY <3>5, <4>1, Grouped
    <3>7. 1 * b = b
      OBVIOUS
    <3> QED BY <3>3, <3>6, <3>7, Zenon
  <2> QED BY <2>1, <2>2, AllOf, AddIn, OneTile, WholeIn DEF ds
<1> QED BY <1>2, CombsDivide, SafeRows DEF IsSafe

-----------------------------------------------------------------------------
\* The kernels written for two cores, each of which does one half.
LEMMA LowHalf ==
    ASSUME NEW n, NEW h \in Nat, NEW c \in Threads(n), c = 0
    PROVE  0..(h - 1) \subseteq Halves(n, h)[c]
  BY DEF Halves

LEMMA HighHalf ==
    ASSUME NEW n, NEW h \in Nat, NEW c \in Threads(n), c = 1 \/ n = 1
    PROVE  h..(2 * h - 1) \subseteq Halves(n, h)[c]
  BY DEF Halves

\* The halves of a dimension of 32.
LEMMA Half32 ==
    ASSUME NEW n \in Nat \ {0}, NEW c \in Threads(n)
    PROVE  /\ Divides(Halves(n, 16), n, 32)
           /\ c = 0 => ToSet(Range1(0, 16)) \subseteq Halves(n, 16)[c]
           /\ c = 1 \/ n = 1 => ToSet(Range1(16, 32)) \subseteq Halves(n, 16)[c]
<1>1. Divides(Halves(n, 16), n, 32)
  BY HalvesDivide
<1>2. ToSet(Range1(0, 16)) \subseteq 0..15 /\ ToSet(Range1(16, 32)) \subseteq 16..31
  BY RangeValues
<1>3. c = 0 => 0..15 \subseteq Halves(n, 16)[c]
  BY DEF Halves
<1>4. c = 1 \/ n = 1 => 16..31 \subseteq Halves(n, 16)[c]
  BY DEF Halves
<1> QED BY <1>1, <1>2, <1>3, <1>4

LEMMA All32 ==
    /\ ToSet(Range1(0, 32)) \subseteq 0..(32 - 1)
    /\ ToSet(Loop(0, 32, 4, 4)) \subseteq 0..(32 - 1)
    /\ ToSet(Loop(0, 32, 8, 8)) \subseteq 0..(32 - 1)
<1>1. /\ 32 % 4 = 0 /\ 32 % 8 = 0
      /\ 32 \in Nat /\ 4 \in Nat \ {0} /\ 8 \in Nat \ {0}
  OBVIOUS
<1>2. ToSet(Range1(0, 32)) \subseteq 0..(32 - 1)
  BY <1>1, AllOf
<1>3. ToSet(Loop(0, 32, 4, 4)) \subseteq 0..(32 - 1)
  BY <1>1, FromZero
<1>4. ToSet(Loop(0, 32, 8, 8)) \subseteq 0..(32 - 1)
  BY <1>1, FromZero
<1> QED BY <1>2, <1>3, <1>4

LEMMA Sixteens ==
    /\ ToSet(Range1(0, 16)) \subseteq 0..(32 - 1)
    /\ ToSet(Range1(16, 32)) \subseteq 0..(32 - 1)
<1>1. ToSet(Range1(0, 16)) \subseteq 0..15 /\ ToSet(Range1(16, 32)) \subseteq 16..31
  BY RangeValues
<1> QED BY <1>1

LEMMA HalvesOfRows ==
    ASSUME NEW k, NEW n \in Nat \ {0},
           \A c \in Threads(n) : ProgIn(Kernel(k, c, n, 32), 0, 32, Halves(n, 16)[c], 0..(32 - 1))
    PROVE  IsSafe(k, n, 32)
<1>1. 32 \in Nat \ {0} /\ 0 \in Nat /\ Divides(Halves(n, 16), n, 32)
  BY HalvesDivide
<1>2. Safe(k, n, 32, 0)
  BY <1>1, SafeRows
<1> QED BY <1>1, <1>2 DEF IsSafe

LEMMA HalvesOfColumns ==
    ASSUME NEW k, NEW n \in Nat \ {0},
           \A c \in Threads(n) : ProgIn(Kernel(k, c, n, 32), 0, 32, 0..(32 - 1), Halves(n, 16)[c])
    PROVE  IsSafe(k, n, 32)
<1>1. 32 \in Nat \ {0} /\ 0 \in Nat /\ Divides(Halves(n, 16), n, 32)
  BY HalvesDivide
<1>2. Safe(k, n, 32, 0)
  BY <1>1, SafeColumns
<1> QED BY <1>1, <1>2 DEF IsSafe

LEMMA alSafe ==
    ASSUME NEW n \in Nat \ {0}
    PROVE  IsSafe("al", n, 32)
<1>1. ASSUME NEW c \in Threads(n)
      PROVE  ProgIn(Kernel("al", c, n, 32), 0, 32, 0..(32 - 1), Halves(n, 16)[c])
  <2> DEFINE s == IF c = 0 THEN <<Add(32, Range1(0, 32), Range1(0, 16), Range1(0, 32))>> ELSE <<>>
             t == IF c = 1 \/ n = 1 THEN <<Add(32, Range1(0, 32), Range1(16, 32), Range1(0, 32))>> ELSE <<>>
  <2>1. Kernel("al", c, n, 32) = IF c > 1 THEN <<>> ELSE Whole(s \o t)
    BY DEF Kernel, al
  <2>2. TilesIn(s, 32, 0..(32 - 1), Halves(n, 16)[c])
    <3>1. CASE c = 0
      BY <3>1, Half32, All32, AddIn, OneTile
    <3> QED BY <3>1, NoTiles
  <2>3. TilesIn(t, 32, 0..(32 - 1), Halves(n, 16)[c])
    <3>1. CASE c = 1 \/ n = 1
      BY <3>1, Half32, All32, AddIn, OneTile
    <3> QED BY <3>1, NoTiles
  <2> HIDE DEF s, t
  <2> QED BY <2>1, <2>2, <2>3, BothTiles, WholeIn, NoProg
<1> QED BY <1>1, HalvesOfColumns

LEMMA bfSafe ==
    ASSUME NEW n \in Nat \ {0}
    PROVE  IsSafe("bf", n, 32)
<1>1. ASSUME NEW c \in Threads(n)
      PROVE  ProgIn(Kernel("bf", c, n, 32), 0, 32, 0..(32 - 1), Halves(n, 16)[c])
  <2> DEFINE s == IF c = 0 THEN <<Store(32, Range1(0, 32), Range1(0, 16), Range1(0, 32))>> ELSE <<>>
             t == IF c = 1 \/ n = 1 THEN <<Store(32, Range1(0, 32), Range1(16, 32), Range1(0, 32))>> ELSE <<>>
  <2>1. Kernel("bf", c, n, 32) = Whole(s \o t)
    BY DEF Kernel, bf
  <2>2. TilesIn(s, 32, 0..(32 - 1), Halves(n, 16)[c])
    <3>1. CASE c = 0
      BY <3>1, Half32, All32, AddIn, OneTile
    <3> QED BY <3>1, NoTiles
  <2>3. TilesIn(t, 32, 0..(32 - 1), Halves(n, 16)[c])
    <3>1. CASE c = 1 \/ n = 1
      BY <3>1, Half32, All32, AddIn, OneTile
    <3> QED BY <3>1, NoTiles
  <2> HIDE DEF s, t
  <2> QED BY <2>1, <2>2, <2>3, BothTiles, WholeIn, NoProg
<1> QED BY <1>1, HalvesOfColumns

LEMMA clSafe ==
    ASSUME NEW n \in Nat \ {0}
    PROVE  IsSafe("cl", n, 32)
<1>1. ASSUME NEW c \in Threads(n)
      PROVE  ProgIn(Kernel("cl", c, n, 32), 0, 32, 0..(32 - 1), Halves(n, 16)[c])
  <2> DEFINE s == IF c = 0 THEN <<Add(32, Range1(0, 32), Range1(0, 16), Range1(0, 32))>> ELSE <<>>
             t == IF c = 1 \/ n = 1 THEN <<Add(32, Range1(16, 32), Range1(16, 32), Range1(0, 32)),
                                               Add(32, Range1(0, 16), Range1(16, 32), Range1(0, 32))>> ELSE <<>>
  <2>1. Kernel("cl", c, n, 32) = IF c > 1 THEN <<>> ELSE Whole(s \o t)
    BY DEF Kernel, cl
  <2>2. TilesIn(s, 32, 0..(32 - 1), Halves(n, 16)[c])
    <3>1. CASE c = 0
      BY <3>1, Half32, All32, AddIn, OneTile
    <3> QED BY <3>1, NoTiles
  <2>3. TilesIn(t, 32, 0..(32 - 1), Halves(n, 16)[c])
    <3>1. CASE c = 1 \/ n = 1
      BY <3>1, Half32, All32, AddIn, OneTile, Sixteens, TwoTiles
    <3> QED BY <3>1, NoTiles
  <2> HIDE DEF s, t
  <2> QED BY <2>1, <2>2, <2>3, BothTiles, WholeIn, NoProg
<1> QED BY <1>1, HalvesOfColumns

LEMMA dfSafe ==
    ASSUME NEW n \in Nat \ {0}
    PROVE  IsSafe("df", n, 32)
<1>1. ASSUME NEW c \in Threads(n)
      PROVE  ProgIn(Kernel("df", c, n, 32), 0, 32, 0..(32 - 1), Halves(n, 16)[c])
  <2> DEFINE s == IF c = 0 THEN <<Add(32, Range1(0, 16), Range1(0, 16), Range1(0, 32)),
                                   Add(32, Range1(16, 32), Range1(0, 16), Range1(0, 32))>> ELSE <<>>
             t == IF c = 1 \/ n = 1 THEN <<Add(32, Range1(16, 32), Range1(16, 32), Range1(0, 32)),
                                               Add(32, Range1(0, 16), Range1(16, 32), Range1(0, 32))>> ELSE <<>>
  <2>1. Kernel("df", c, n, 32) = Whole(s \o t)
    BY DEF Kernel, df
  <2>2. TilesIn(s, 32, 0..(32 - 1), Halves(n, 16)[c])
    <3>1. CASE c = 0
      BY <3>1, Half32, All32, AddIn, OneTile, Sixteens, TwoTiles
    <3> QED BY <3>1, NoTiles
  <2>3. TilesIn(t, 32, 0..(32 - 1), Halves(n, 16)[c])
    <3>1. CASE c = 1 \/ n = 1
      BY <3>1, Half32, All32, AddIn, OneTile, Sixteens, TwoTiles
    <3> QED BY <3>1, NoTiles
  <2> HIDE DEF s, t
  <2> QED BY <2>1, <2>2, <2>3, BothTiles, WholeIn, NoProg
<1> QED BY <1>1, HalvesOfColumns

LEMMA Evens ==
    ASSUME NEW n \in Nat \ {0}, NEW c \in Threads(n)
    PROVE  /\ c = 0 => ToSet(Loop(0, 16, 2, 2)) \subseteq Halves(n, 16)[c]
           /\ c = 1 \/ n = 1 => ToSet(Loop(16, 32, 2, 2)) \subseteq Halves(n, 16)[c]
<1>1. /\ 0 \in Int /\ 16 \in Int /\ 32 \in Int /\ 2 \in Nat \ {0}
      /\ (16 - 0) % 2 = 0 /\ (32 - 16) % 2 = 0
  OBVIOUS
<1>2. ToSet(Loop(0, 16, 2, 2)) \subseteq 0..(16 - 1)
  BY <1>1, LoopValues
<1>3. ToSet(Loop(16, 32, 2, 2)) \subseteq 16..(32 - 1)
  BY <1>1, LoopValues
<1>4. c = 0 => 0..15 \subseteq Halves(n, 16)[c]
  BY DEF Halves
<1>5. c = 1 \/ n = 1 => 16..31 \subseteq Halves(n, 16)[c]
  BY DEF Halves
<1> QED BY <1>2, <1>3, <1>4, <1>5

LEMMA EighthsIn ==
    ASSUME NEW R, NEW rows, ToSet(rows) \subseteq R
    PROVE  TilesIn(Eighths(32, rows), 32, R, 0..(32 - 1))
<1> DEFINE s == Eighths(32, rows)
<1>1. s = [m \in 1..4 |-> Add(32, rows, Loop(0, 32, 8, 8), Loop(8 * (m - 1), 8 * m, 8, 8))]
  BY DEF Eighths
<1>2. \A m \in 1..4 : TileIn(s[m], 32, R, 0..(32 - 1))
  BY <1>1, All32, AddIn
<1>3. s = [m \in 1..4 |-> s[m]]
  BY <1>1
<1> HIDE DEF s
<1>4. TilesIn(s, 32, R, 0..(32 - 1))
  BY <1>2, <1>3, ManyTiles
<1> QED BY <1>4 DEF s

LEMMA HalfRowsIn ==
    ASSUME NEW R, NEW l \in Nat, l % 8 = 0, NEW rows, ToSet(rows) \subseteq R, NEW ks1, NEW ks2
    PROVE  TilesIn(HalfRows(l, rows, ks1, ks2), l, R, 0..(l - 1))
<1>1. ToSet(Loop(0, l, 8, 8)) \subseteq 0..(l - 1)
  BY FromZero
<1> QED BY <1>1, AddIn, TwoTiles DEF HalfRows

LEMMA HalfRows32 ==
    ASSUME NEW R, NEW rows, ToSet(rows) \subseteq R, NEW ks1, NEW ks2
    PROVE  TilesIn(HalfRows(32, rows, ks1, ks2), 32, R, 0..(32 - 1))
<1>1. 32 \in Nat /\ 32 % 8 = 0
  OBVIOUS
<1> QED BY <1>1, HalfRowsIn

LEMMA boSafe ==
    ASSUME NEW n \in Nat \ {0}
    PROVE  IsSafe("bo", n, 32)
<1>1. ASSUME NEW c \in Threads(n)
      PROVE  ProgIn(Kernel("bo", c, n, 32), 0, 32, Halves(n, 16)[c], 0..(32 - 1))
  <2> DEFINE s == IF c = 0 THEN <<Tile3(Loop(0, 16, 2, 2), Range1(0, 32), Loop(0, 32, 8, 8),
                                         FALSE, 32, 32, 32)>> ELSE <<>>
             t == IF c = 1 \/ n = 1 THEN <<Tile3(Loop(16, 32, 2, 2), Range1(0, 32), Loop(0, 32, 8, 8),
                                                 FALSE, 32, 32, 32)>> ELSE <<>>
  <2>1. Kernel("bo", c, n, 32) = Whole(s \o t)
    BY DEF Kernel, bo
  <2>2. TilesIn(s, 32, Halves(n, 16)[c], 0..(32 - 1))
    <3>1. CASE c = 0
      BY <3>1, Half32, All32, Evens, Tile3In, OneTile
    <3> QED BY <3>1, NoTiles
  <2>3. TilesIn(t, 32, Halves(n, 16)[c], 0..(32 - 1))
    <3>1. CASE c = 1 \/ n = 1
      BY <3>1, Half32, All32, Evens, Tile3In, OneTile
    <3> QED BY <3>1, NoTiles
  <2> HIDE DEF s, t
  <2> QED BY <2>1, <2>2, <2>3, BothTiles, WholeIn, NoProg
<1> QED BY <1>1, HalvesOfRows

LEMMA avSafe ==
    ASSUME NEW k \in {"av", "cv"}, NEW n \in Nat \ {0}
    PROVE  IsSafe(k, n, 32)
<1>1. ASSUME NEW c \in Threads(n)
      PROVE  ProgIn(Kernel(k, c, n, 32), 0, 32, Halves(n, 16)[c], 0..(32 - 1))
  <2> DEFINE s == IF c = 1 \/ n = 1 THEN Eighths(32, Range1(16, 32)) ELSE <<>>
             t == IF c = 0 THEN Eighths(32, Range1(0, 16)) ELSE <<>>
  <2>1. Kernel(k, c, n, 32) = Whole(s \o t)
    BY DEF Kernel, av, cv, EighthsOfHalves
  <2>2. TilesIn(s, 32, Halves(n, 16)[c], 0..(32 - 1))
    <3>1. CASE c = 1 \/ n = 1
      BY <3>1, Half32, All32, EighthsIn
    <3> QED BY <3>1, NoTiles
  <2>3. TilesIn(t, 32, Halves(n, 16)[c], 0..(32 - 1))
    <3>1. CASE c = 0
      BY <3>1, Half32, All32, EighthsIn
    <3> QED BY <3>1, NoTiles
  <2> HIDE DEF s, t
  <2> QED BY <2>1, <2>2, <2>3, BothTiles, WholeIn, NoProg
<1> QED BY <1>1, HalvesOfRows

LEMMA bkSafe ==
    ASSUME NEW n \in Nat \ {0}
    PROVE  IsSafe("bk", n, 32)
<1>1. ASSUME NEW c \in Threads(n)
      PROVE  ProgIn(Kernel("bk", c, n, 32), 0, 32, Halves(n, 16)[c], 0..(32 - 1))
  <2> DEFINE s == IF c = 0 THEN HalfRows(32, Range1(0, 16), Range1(0, 16), Range1(16, 32)) ELSE <<>>
             t == IF c = 1 \/ n = 1 THEN HalfRows(32, Range1(16, 32), Range1(0, 16), Range1(16, 32)) ELSE <<>>
  <2>1. Kernel("bk", c, n, 32) = IF c > 1 THEN <<>> ELSE Whole(s \o t)
    BY DEF Kernel, bk
  <2>2. TilesIn(s, 32, Halves(n, 16)[c], 0..(32 - 1))
    <3>1. CASE c = 0
      BY <3>1, Half32, All32, HalfRows32
    <3> QED BY <3>1, NoTiles
  <2>3. TilesIn(t, 32, Halves(n, 16)[c], 0..(32 - 1))
    <3>1. CASE c = 1 \/ n = 1
      BY <3>1, Half32, All32, HalfRows32
    <3> QED BY <3>1, NoTiles
  <2> HIDE DEF s, t
  <2> QED BY <2>1, <2>2, <2>3, BothTiles, WholeIn, NoProg
<1> QED BY <1>1, HalvesOfRows

LEMMA dvSafe ==
    ASSUME NEW n \in Nat \ {0}
    PROVE  IsSafe("dv", n, 32)
<1>1. ASSUME NEW c \in Threads(n)
      PROVE  ProgIn(Kernel("dv", c, n, 32), 0, 32, Swapped(n, 16)[c], 0..(32 - 1))
  <2> DEFINE s == IF c = 1 \/ n = 1
                  THEN HalfRows(32, Range1(0, 16), Range1(0, 16), Range1(16, 32)) ELSE <<>>
             t == IF c = 0
                  THEN HalfRows(32, Range1(16, 32), Range1(0, 16), Range1(16, 32)) ELSE <<>>
  <2>1. Kernel("dv", c, n, 32) = IF c > 1 THEN <<>> ELSE Whole(s \o t)
    <3>1. c \in Nat
      BY DEF Threads
    <3> QED BY <3>1 DEF Kernel, dv
  <2>2. ToSet(Range1(0, 16)) \subseteq 0..15 /\ ToSet(Range1(16, 32)) \subseteq 16..31
    BY RangeValues
  <2>3. TilesIn(s, 32, Swapped(n, 16)[c], 0..(32 - 1))
    <3>1. CASE c = 1 \/ n = 1
      <4>1. 0..15 \subseteq Swapped(n, 16)[c]
        BY <3>1 DEF Swapped
      <4> QED BY <2>2, <3>1, <4>1, HalfRows32
    <3> QED BY <3>1, NoTiles
  <2>4. TilesIn(t, 32, Swapped(n, 16)[c], 0..(32 - 1))
    <3>1. CASE c = 0
      <4>1. 16..31 \subseteq Swapped(n, 16)[c]
        BY <3>1 DEF Swapped
      <4> QED BY <2>2, <3>1, <4>1, HalfRows32
    <3> QED BY <3>1, NoTiles
  <2> HIDE DEF s, t
  <2> QED BY <2>1, <2>3, <2>4, BothTiles, WholeIn, NoProg
<1>2. 32 \in Nat \ {0} /\ 0 \in Nat /\ Divides(Swapped(n, 16), n, 32)
  BY SwappedDivide
<1>3. Safe("dv", n, 32, 0)
  BY <1>1, <1>2, SafeRows
<1> QED BY <1>2, <1>3 DEF IsSafe

LEMMA aySafe ==
    ASSUME NEW k \in {"ay", "az", "cy"}, NEW n \in Nat \ {0}
    PROVE  IsSafe(k, n, 32)
<1>1. ASSUME NEW c \in Threads(n)
      PROVE  ProgIn(Kernel(k, c, n, 32), 0, 32, Halves(n, 16)[c], 0..(32 - 1))
  <2> DEFINE hi == 16 * (IF n = 1 THEN 2 ELSE c + 1)
             x == Store(32, Range1(16 * c, hi), Loop(0, 32, 8, 8), Loop(0, 32, 2, 2))
  <2>1. Kernel(k, c, n, 32) = IF c > 1 THEN <<>> ELSE Whole(<<x>>)
    BY DEF Kernel, ay, az, cy, Elements512
  <2>2. CASE c > 1
    BY <2>1, <2>2, NoProg
  <2>3. CASE ~(c > 1)
    <3>1. c \in {0, 1} /\ hi \in Int /\ 16 * c \in Int
      BY <2>3 DEF Threads
    <3>2. (16 * c)..(hi - 1) \subseteq Halves(n, 16)[c]
      BY <3>1 DEF Halves, Threads
    <3> HIDE DEF hi
    <3>3. ToSet(Range1(16 * c, hi)) \subseteq Halves(n, 16)[c]
      BY <3>1, <3>2, RangeValues
    <3> QED BY <2>1, <2>3, <3>3, All32, AddIn, OneTile, WholeIn
  <2> QED BY <2>2, <2>3
<1> QED BY <1>1, HalvesOfRows

LEMMA bhSafe ==
    ASSUME NEW k \in {"bh", "bj"}, NEW n \in Nat \ {0}, NEW l \in Nat \ {0}, Fits(k, n, l)
    PROVE  IsSafe(k, n, l)
<1> DEFINE h == l \div 2
<1>1. l % 8 = 0 /\ h \in Nat /\ l = 2 * h
  BY DEF Fits
<1> HIDE DEF h
<1>2. ASSUME NEW c \in Threads(n)
      PROVE  ProgIn(Kernel(k, c, n, l), 0, l, Halves(n, h)[c], 0..(l - 1))
  <2> DEFINE ks(m) == Loop((m * l) \div 2, ((m + 1) * l) \div 2, 2, 2)
             s == IF c = 0 THEN HalfRows(l, Range1(0, h), ks(0), ks(1)) ELSE <<>>
             t == IF c = 1 \/ n = 1 THEN HalfRows(l, Range1(h, l), ks(1), ks(0)) ELSE <<>>
  <2>1. Kernel(k, c, n, l) = IF c > 1 THEN <<>> ELSE Whole(s \o t)
    BY DEF Kernel, bh, bj, CrossedHalves, h
  <2> HIDE DEF ks
  <2>2. ToSet(Range1(0, h)) \subseteq 0..(h - 1) /\ ToSet(Range1(h, l)) \subseteq h..(2 * h - 1)
    BY <1>1, RangeValues
  <2>3. TilesIn(s, l, Halves(n, h)[c], 0..(l - 1))
    <3>1. CASE c = 0
      <4>1. ToSet(Range1(0, h)) \subseteq Halves(n, h)[c]
        BY <1>1, <2>2, <3>1, LowHalf
      <4> QED BY <1>1, <3>1, <4>1, HalfRowsIn
    <3> QED BY <3>1, NoTiles
  <2>4. TilesIn(t, l, Halves(n, h)[c], 0..(l - 1))
    <3>1. CASE c = 1 \/ n = 1
      <4>1. ToSet(Range1(h, l)) \subseteq Halves(n, h)[c]
        BY <1>1, <2>2, <3>1, HighHalf
      <4> QED BY <1>1, <3>1, <4>1, HalfRowsIn
    <3> QED BY <3>1, NoTiles
  <2> HIDE DEF s, t
  <2> QED BY <2>1, <2>3, <2>4, BothTiles, WholeIn, NoProg
<1>3. Divides(Halves(n, h), n, l)
  BY <1>1, HalvesDivide
<1> QED BY <1>2, <1>3, SafeRows DEF IsSafe

\* The kernels for two cores that leave everything to core 0 otherwise.
LEMMA bcSafe ==
    ASSUME NEW k \in {"bc", "dc"}, NEW n \in Nat \ {0}, NEW l \in Nat \ {0}
    PROVE  IsSafe(k, n, l)
<1>1. CASE n = 2 /\ l = 32
  <2>1. ASSUME NEW c \in Threads(2)
        PROVE  ProgIn(Kernel(k, c, 2, 32), 0, 32, Bands(2, 32)[c], 0..(32 - 1))
    <3>1. \/ Kernel(k, c, 2, 32) = Whole(<<ForTwo(c, 0), ForTwo(c, 16)>>)
          \/ Kernel(k, c, 2, 32) = Whole(<<ForTwo(c, 16), ForTwo(c, 0)>>)
      BY DEF Kernel, bc, dc
    <3>2. 32 \in Nat \ {0} /\ 2 \in Nat \ {0} /\ (32 \div 2) % 2 = 0
      OBVIOUS
    <3>3. ToSet(Share(c, 2, 32, 2, 2)) \subseteq Bands(2, 32)[c]
      BY <3>2, ShareValues
    <3>4. /\ TileIn(ForTwo(c, 0), 32, Bands(2, 32)[c], 0..(32 - 1))
          /\ TileIn(ForTwo(c, 16), 32, Bands(2, 32)[c], 0..(32 - 1))
      BY <3>3, All32, AddIn DEF ForTwo
    <3> QED BY <3>1, <3>4, TwoTiles, WholeIn
  <2>2. 32 \in Nat \ {0} /\ 2 \in Nat \ {0} /\ 0 \in Nat /\ Divides(Bands(2, 32), 2, 32)
    BY BandsDivide
  <2>3. Safe(k, 2, 32, 0)
    BY <2>1, <2>2, SafeRows
  <2> QED BY <1>1, <2>2, <2>3 DEF IsSafe
<1>2. CASE ~(n = 2 /\ l = 32)
  <2>1. ASSUME NEW c \in Threads(n)
        PROVE  ProgIn(Kernel(k, c, n, l), 0, l, First(n, l)[c], 0..(l - 1))
    <3>1. Kernel(k, c, n, l) =
              IF c > 0 THEN <<>>
              ELSE Whole(<<Add(l, Range1(0, l), Range1(0, l), Range1(0, l))>>)
      BY <1>2 DEF Kernel, bc, dc, Naive
    <3>2. ~(c > 0) => First(n, l)[c] = 0..(l - 1)
      BY DEF First, Threads
    <3> QED BY <3>1, <3>2, NoProg, AllOf, AddIn, OneTile, WholeIn
  <2> QED BY <2>1, FirstDivide, SafeRows DEF IsSafe
<1> QED BY <1>1, <1>2

-----------------------------------------------------------------------------
\* Kernels of many blocks.  Two nested loops in one counter:
LEMMA LoopPair ==
    ASSUME NEW num \in Nat, NEW M \in Nat, NEW p \in 1..(num * M)
    PROVE  /\ M # 0
           /\ (p - 1) \div M \in 0..(num - 1)
           /\ (p - 1) % M \in 0..(M - 1)
<1>1. M # 0 /\ num * M \in Nat
  BY SMT
<1>2. p - 1 \in Nat /\ M \in Nat \ {0}
  BY <1>1
<1> DEFINE a == (p - 1) \div M
<1>3. a \in Nat /\ M * a <= p - 1 /\ (p - 1) % M \in 0..(M - 1)
  BY <1>2, NatDivision
<1> HIDE DEF a
<1>4. ASSUME num <= a PROVE FALSE
  <2>1. M * num <= M * a /\ M * num = num * M /\ M * a \in Int
    BY <1>3, <1>4, Monotone, Times
  <2> QED BY <1>1, <1>3, <2>1
<1>5. a \in 0..(num - 1)
  BY <1>3, <1>4
<1> QED BY <1>1, <1>3, <1>5 DEF a

LEMMA Few ==
    /\ \A x : ToSet(<<x>>) = {x}
    /\ \A x, y : ToSet(<<x, y>>) = {x, y}
  BY DEF ToSet

\* Every block is one tile and ends at the barrier.
LEMMA MeetEach ==
    ASSUME NEW l, NEW R, NEW I, NEW num \in Nat, NEW x, NEW s,
           s = [p \in 1..num |-> Block(<<x[p]>>, TRUE)],
           \A p \in 1..num : TileIn(x[p], l, R, I)
    PROVE  ProgIn(s, num, l, R, I)
<1>1. s = [p \in 1..num |-> s[p]] /\ \A p \in 1..num : s[p] = Block(<<x[p]>>, TRUE)
  OBVIOUS
<1>2. \A p \in 1..num : \E tiles : s[p] = Block(tiles, TRUE) /\ TilesIn(tiles, l, R, I)
  BY <1>1, OneTile
<1> HIDE DEF ProgIn
<1> QED BY <1>1, <1>2, AllMeet

\* A row of its own share.
LEMMA InBand ==
    ASSUME NEW n \in Nat \ {0}, NEW l \in Nat \ {0}, NEW c \in Threads(n),
           NEW i \in 0..((l \div n) - 1)
    PROVE  c * (l \div n) + i \in Bands(n, l)[c]
<1> DEFINE s == l \div n
           lo == c * s
<1>1. s \in Nat /\ c \in Nat
  BY NatDivision DEF Threads
<1>2. Bands(n, l)[c] = (c * s)..((c + 1) * s - 1)
  BY DEF Bands
<1>3. i \in 0..(s - 1)
  OBVIOUS
<1> HIDE DEF s
<1>4. lo \in Int /\ (c + 1) * s = lo + s /\ c * s = lo
  BY <1>1, SMT
<1> HIDE DEF lo
<1>5. lo + i \in Bands(n, l)[c]
  BY <1>1, <1>2, <1>3, <1>4
<1> QED BY <1>5 DEF lo, s

LEMMA adSafe ==
    ASSUME NEW n \in Nat \ {0}
    PROVE  IsSafe("ad", n, 32)
<1> DEFINE s == 32 \div n
<1>1. s \in Nat /\ s * 16 \in Nat
  BY NatDivision
<1>2. ASSUME NEW c \in Threads(n)
      PROVE  ProgIn(Kernel("ad", c, n, 32), s * 16, 32, Bands(n, 32)[c], 0..(32 - 1))
  <2> DEFINE x == [p \in 1..(s * 16) |->
                      Add(32, <<c * s + ((p - 1) \div 16)>>, Loop(0, 32, 4, 4),
                          <<2 * ((p - 1) % 16), 2 * ((p - 1) % 16) + 1>>)]
  <2>1. Kernel("ad", c, n, 32) = [p \in 1..(s * 16) |-> Block(<<x[p]>>, TRUE)]
    BY DEF Kernel, ad
  <2>2. \A p \in 1..(s * 16) : TileIn(x[p], 32, Bands(n, 32)[c], 0..(32 - 1))
    <3> SUFFICES ASSUME NEW p \in 1..(s * 16)
                 PROVE  TileIn(x[p], 32, Bands(n, 32)[c], 0..(32 - 1))
      OBVIOUS
    <3>1. (p - 1) \div 16 \in 0..(s - 1)
      BY <1>1, LoopPair
    <3>2. c * s + ((p - 1) \div 16) \in Bands(n, 32)[c]
      BY <3>1, InBand
    <3> DEFINE rows == <<c * s + ((p - 1) \div 16)>>
    <3>3. ToSet(rows) \subseteq Bands(n, 32)[c]
      BY <3>2, Few
    <3> HIDE DEF rows
    <3>4. x[p] = Add(32, rows, Loop(0, 32, 4, 4), <<2 * ((p - 1) % 16), 2 * ((p - 1) % 16) + 1>>)
      BY DEF rows
    <3> QED BY <3>3, <3>4, All32, AddIn
  <2> HIDE DEF x, s
  <2> QED BY <1>1, <2>1, <2>2, MeetEach
<1>3. 32 \in Nat \ {0} /\ Divides(Bands(n, 32), n, 32)
  BY BandsDivide
<1> HIDE DEF s
<1>4. Safe("ad", n, 32, s * 16)
  BY <1>1, <1>2, <1>3, SafeRows
<1> QED BY <1>1, <1>4 DEF IsSafe

LEMMA anSafe ==
    ASSUME NEW n \in Nat \ {0}, NEW l \in Nat \ {0}
    PROVE  IsSafe("an", n, l)
<1> DEFINE s == l \div n
<1>1. s \in Nat /\ s * l \in Nat
  <2>1. s \in Nat
    BY NatDivision
  <2> HIDE DEF s
  <2> QED BY <2>1, TimesNat
<1>2. ASSUME NEW c \in Threads(n)
      PROVE  ProgIn(Kernel("an", c, n, l), s * l, l, Bands(n, l)[c], 0..(l - 1))
  <2> DEFINE x == [p \in 1..(s * l) |->
                      Add(l, <<c * s + ((p - 1) \div l)>>, Range1(0, l), <<(p - 1) % l>>)]
  <2>1. Kernel("an", c, n, l) = [p \in 1..(s * l) |-> Block(<<x[p]>>, TRUE)]
    BY DEF Kernel, an
  <2>2. \A p \in 1..(s * l) : TileIn(x[p], l, Bands(n, l)[c], 0..(l - 1))
    <3> SUFFICES ASSUME NEW p \in 1..(s * l)
                 PROVE  TileIn(x[p], l, Bands(n, l)[c], 0..(l - 1))
      OBVIOUS
    <3>1. (p - 1) \div l \in 0..(s - 1)
      BY <1>1, LoopPair
    <3>2. c * s + ((p - 1) \div l) \in Bands(n, l)[c]
      BY <3>1, InBand
    <3> DEFINE rows == <<c * s + ((p - 1) \div l)>>
    <3>3. ToSet(rows) \subseteq Bands(n, l)[c]
      BY <3>2, Few
    <3> HIDE DEF rows
    <3>4. x[p] = Add(l, rows, Range1(0, l), <<(p - 1) % l>>)
      BY DEF rows
    <3> QED BY <3>3, <3>4, AllOf, AddIn
  <2> HIDE DEF x, s
  <2> QED BY <1>1, <2>1, <2>2, MeetEach
<1>3. Divides(Bands(n, l), n, l)
  BY BandsDivide
<1> HIDE DEF s
<1>4. Safe("an", n, l, s * l)
  BY <1>1, <1>2, <1>3, SafeRows
<1> QED BY <1>1, <1>4 DEF IsSafe

LEMMA agSafe ==
    ASSUME NEW k \in {"ag", "cg"}, NEW n \in Nat \ {0}, NEW l \in Nat \ {0}, Fits(k, n, l)
    PROVE  IsSafe(k, n, l)
<1> DEFINE num == Iters(0, l, 2)
           M == Iters(0, l, 4)
<1>1. l % 2 = 0 /\ (l \div n) % 4 = 0
  BY DEF Fits
<1>2. num \in Nat /\ M \in Nat /\ \A a \in Nat : a < num => 0 + 2 * a < l
  <2>1. 0 \in Int /\ l \in Int /\ 2 \in Nat \ {0} /\ 4 \in Nat \ {0}
    OBVIOUS
  <2>2. num \in Nat /\ \A a \in Nat : a < num => 0 + 2 * a < l
    BY <2>1, ItersBound
  <2>3. M \in Nat
    BY <2>1, ItersBound
  <2> QED BY <2>2, <2>3
<1> HIDE DEF num, M
<1>3. num * M \in Nat
  BY <1>2, TimesNat
<1>4. ASSUME NEW c \in Threads(n)
      PROVE  ProgIn(Kernel(k, c, n, l), num * M, l, Bands(n, l)[c], 0..(l - 1))
  <2> DEFINE i(p) == 2 * ((p - 1) \div M)
             q(p) == 4 * ((p - 1) % M)
             x == [p \in 1..(num * M) |->
                      Add(l, Share(c, n, l, 4, 4), <<i(p), i(p) + 1>>, Loop(q(p), q(p) + 4, 4, 4))]
  <2>1. Kernel(k, c, n, l) = [p \in 1..(num * M) |-> Block(<<x[p]>>, TRUE)]
    <3>1. Kernel(k, c, n, l) = TileByTile(c, n, l)
      BY DEF Kernel, ag, cg
    <3> QED BY <3>1 DEF TileByTile, num, M
  <2>2. \A p \in 1..(num * M) : TileIn(x[p], l, Bands(n, l)[c], 0..(l - 1))
    <3> SUFFICES ASSUME NEW p \in 1..(num * M)
                 PROVE  TileIn(x[p], l, Bands(n, l)[c], 0..(l - 1))
      OBVIOUS
    <3>1. (p - 1) \div M \in 0..(num - 1)
      BY <1>2, LoopPair
    <3>2. i(p) \in 0..(l - 1) /\ i(p) + 1 \in 0..(l - 1)
      BY <1>1, <1>2, <3>1
    <3>3. ToSet(<<i(p), i(p) + 1>>) \subseteq 0..(l - 1)
      <4> HIDE DEF i
      <4> QED BY <3>2, Few
    <3>4. ToSet(Share(c, n, l, 4, 4)) \subseteq Bands(n, l)[c]
      BY <1>1, ShareValues
    <3>5. x[p] = Add(l, Share(c, n, l, 4, 4), <<i(p), i(p) + 1>>, Loop(q(p), q(p) + 4, 4, 4))
      OBVIOUS
    <3> HIDE DEF x, i, q
    <3> QED BY <3>3, <3>4, <3>5, AddIn
  <2> HIDE DEF x
  <2> QED BY <1>3, <2>1, <2>2, MeetEach
<1>5. Safe(k, n, l, num * M)
  BY <1>3, <1>4, BandsDivide, SafeRows
<1> QED BY <1>3, <1>5 DEF IsSafe

\* A core makes as many rounds of an interleaved loop as any other.
LEMMA RoundsOf ==
    ASSUME NEW n \in Nat \ {0}, NEW l \in Nat \ {0}, NEW c \in Threads(n), l % (2 * n) = 0
    PROVE  Iters(c, l, 2 * n) = l \div (2 * n)
<1> DEFINE g == 2 * n
           q == l \div g
<1>1. g \in Nat \ {0} /\ c \in Nat /\ c < n
  BY DEF Threads
<1>2. q \in Nat /\ l = g * q
  BY <1>1, Multiple
<1>3. g - 1 - c \in 0..(g - 1)
  BY <1>1
<1> HIDE DEF g
<1>4. (g * q + (g - 1 - c)) \div g = q
  BY <1>1, <1>2, <1>3, Quotient
<1> HIDE DEF q
<1>5. c < l
  <2>1. q # 0
    BY <1>1, <1>2, SMT
  <2>2. g * 1 <= g * q
    BY <1>1, <1>2, <2>1, Monotone
  <2> QED BY <1>1, <1>2, <2>2 DEF g
<1>6. g * q \in Nat /\ l - c + g - 1 = g * q + (g - 1 - c)
  BY <1>1, <1>2
<1>7. Iters(c, l, g) = q
  BY <1>4, <1>5, <1>6 DEF Iters
<1> QED BY <1>7 DEF g, q

LEMMA csSafe ==
    ASSUME NEW n \in Nat \ {0}, NEW l \in Nat \ {0}, Fits("cs", n, l)
    PROVE  IsSafe("cs", n, l)
<1> DEFINE num == l \div (2 * n)
<1>1. l % (2 * n) = 0
  BY DEF Fits
<1>2. num \in Nat
  <2>1. 2 * n \in Nat \ {0}
    OBVIOUS
  <2> QED BY <1>1, <2>1, Multiple
<1>3. \A c \in Threads(n) : Iters(c, l, 2 * n) = num
  BY <1>1, RoundsOf
<1> HIDE DEF num
<1>4. num * l \in Nat
  BY <1>2, TimesNat
<1>5. ASSUME NEW c \in Threads(n)
      PROVE  ProgIn(Kernel("cs", c, n, l), num * l, l, Combs(n, l, 1)[c], 0..(l - 1))
  <2> DEFINE j(p) == c + (2 * n) * ((p - 1) \div l)
             x == [p \in 1..(num * l) |->
                      Store(l, <<j(p), j(p) + n>>, <<(p - 1) % l>>, Range1(0, l))]
  <2>1. Kernel("cs", c, n, l) = [p \in 1..(num * l) |-> Block(<<x[p]>>, TRUE)]
    <3>1. Kernel("cs", c, n, l) = cs(c, n, l)
      BY DEF Kernel
    <3> QED BY <1>3, <3>1 DEF cs
  <2>2. \A p \in 1..(num * l) : TileIn(x[p], l, Combs(n, l, 1)[c], 0..(l - 1))
    <3> SUFFICES ASSUME NEW p \in 1..(num * l)
                 PROVE  TileIn(x[p], l, Combs(n, l, 1)[c], 0..(l - 1))
      OBVIOUS
    <3>1. (p - 1) \div l \in 0..(num - 1) /\ (p - 1) % l \in 0..(l - 1)
      BY <1>2, LoopPair
    <3> DEFINE a == (p - 1) \div l
               i == (p - 1) % l
    <3>2. c + (2 * n) * a < l
      <4>1. c \in Int /\ 2 * n \in Nat \ {0} /\ a \in Nat /\ a < Iters(c, l, 2 * n)
        BY <1>2, <1>3, <3>1 DEF Threads
      <4> HIDE DEF a
      <4> QED BY <4>1, ItersBound
    <3>3. /\ c + (2 * n) * a + n * 0 \in Combs(n, l, 1)[c]
          /\ c + (2 * n) * a + n * 1 \in Combs(n, l, 1)[c]
      <4>1. a \in Nat /\ 2 \in Nat \ {0} /\ 0 \in 0..(2 - 1) /\ 1 \in 0..(2 - 1)
        BY <1>2, <3>1
      <4> HIDE DEF a
      <4> QED BY <1>1, <3>2, <4>1, Interleaved
    <3>4. x[p] = Store(l, <<j(p), j(p) + n>>, <<i>>, Range1(0, l))
      OBVIOUS
    <3>5. j(p) = c + (2 * n) * a
      OBVIOUS
    <3>6. (2 * n) * a \in Int /\ c \in Int /\ n * 0 = 0 /\ n * 1 = n
      <4>1. a \in Int /\ 2 * n \in Int
        BY <3>1
      <4> HIDE DEF a
      <4> QED BY <4>1, Times DEF Threads
    <3> HIDE DEF x, j
    <3>7. j(p) \in Combs(n, l, 1)[c] /\ j(p) + n \in Combs(n, l, 1)[c]
      <4> DEFINE e == (2 * n) * a
      <4> HIDE DEF e, a
      <4> QED BY <3>3, <3>5, <3>6 DEF e
    <3>8. i \in 0..(l - 1)
      BY <3>1
    <3> HIDE DEF i, a
    <3>9. /\ ToSet(<<j(p), j(p) + n>>) \subseteq Combs(n, l, 1)[c]
          /\ ToSet(<<i>>) \subseteq 0..(l - 1)
      BY <3>7, <3>8, Few
    <3> QED BY <3>4, <3>9, AddIn
  <2> HIDE DEF x
  <2> QED BY <1>4, <2>1, <2>2, MeetEach
<1>6. Safe("cs", n, l, num * l)
  BY <1>4, <1>5, CombsDivide, SafeRows
<1> QED BY <1>4, <1>6 DEF IsSafe

\* Two programs in a row.
LEMMA Joined ==
    ASSUME NEW num \in Nat, NEW M \in Nat, NEW X, NEW s \in [1..num -> X], NEW t \in [1..M -> X]
    PROVE  /\ Len(s \o t) = num + M
           /\ \A p \in 1..(num + M) : (s \o t)[p] = IF p <= num THEN s[p] ELSE t[p - num]
<1>1. s \in Seq(X) /\ t \in Seq(X) /\ Len(s) = num /\ Len(t) = M
  OBVIOUS
<1> QED BY <1>1

\* The first num blocks end at the barrier, and then those of a program that
\* meets m times; or nobody ever waits.
LEMMA MeetMore ==
    ASSUME NEW l, NEW R, NEW I, NEW num \in Nat, NEW M \in Nat, NEW m \in Nat,
           NEW X, NEW s \in [1..num -> X], ProgIn(s, num, l, R, I),
           NEW t \in [1..M -> X], ProgIn(t, m, l, R, I)
    PROVE  ProgIn(s \o t, num + m, l, R, I)
<1> DEFINE u == s \o t
<1>1. /\ Len(u) = num + M
      /\ \A p \in 1..(num + M) : u[p] = IF p <= num THEN s[p] ELSE t[p - num]
  BY Joined
<1>6. Len(s) = num /\ Len(t) = M
  OBVIOUS
<1>2. /\ \A p \in 1..num : s[p].bar /\ s[p].copy = {} /\ TilesIn(s[p].tiles, l, R, I)
      /\ m <= M
      /\ \A p \in 1..M : (t[p].bar <=> p <= m) /\ t[p].copy = {} /\ TilesIn(t[p].tiles, l, R, I)
  BY <1>6 DEF ProgIn, Meets
<1> HIDE DEF u
<1>3. ASSUME NEW p \in 1..(num + M)
      PROVE  (u[p].bar <=> p <= num + m) /\ u[p].copy = {} /\ TilesIn(u[p].tiles, l, R, I)
  <2>1. CASE p <= num
    <3>1. p \in 1..num /\ u[p] = s[p] /\ p <= num + m
      BY <1>1, <2>1
    <3> QED BY <1>2, <3>1
  <2>2. CASE p > num
    <3>1. p - num \in 1..M /\ u[p] = t[p - num] /\ (p <= num + m <=> p - num <= m)
      BY <1>1, <2>2
    <3> QED BY <1>2, <3>1
  <2> QED BY <2>1, <2>2
<1>4. Meets(u, num + m)
  BY <1>1, <1>2, <1>3 DEF Meets
<1>5. ProgIn(u, num + m, l, R, I)
  BY <1>1, <1>3, <1>4 DEF ProgIn
<1> QED BY <1>5 DEF u

Straight(s, num, l, R, I) ==
    \A p \in 1..num : \E z : s[p] = Block(<<z>>, FALSE) /\ TileIn(z, l, R, I)

LEMMA NeverMeet ==
    ASSUME NEW l, NEW R, NEW I, NEW num \in Nat, NEW M \in Nat,
           NEW X, NEW s \in [1..num -> X], NEW t \in [1..M -> X],
           Straight(s, num, l, R, I), Straight(t, M, l, R, I)
    PROVE  ProgIn(s \o t, 0, l, R, I)
<1> DEFINE u == s \o t
<1>1. /\ Len(u) = num + M
      /\ \A p \in 1..(num + M) : u[p] = IF p <= num THEN s[p] ELSE t[p - num]
  BY Joined
<1> HIDE DEF u
<1>3. ASSUME NEW p \in 1..(num + M)
      PROVE  ~u[p].bar /\ u[p].copy = {} /\ TilesIn(u[p].tiles, l, R, I)
  <2> USE DEF Straight
  <2>1. PICK z : u[p] = Block(<<z>>, FALSE) /\ TileIn(z, l, R, I)
    <3>1. CASE p <= num
      <4>1. p \in 1..num /\ u[p] = s[p]
        BY <1>1, <3>1
      <4> QED BY <4>1
    <3>2. CASE ~(p <= num)
      <4>1. p - num \in 1..M /\ u[p] = t[p - num]
        BY <1>1, <3>2
      <4> QED BY <4>1
    <3> QED BY <3>1, <3>2, Zenon
  <2>2. u[p].bar = FALSE /\ u[p].copy = {} /\ u[p].tiles = <<z>>
    BY <2>1 DEF Block
  <2>3. TilesIn(<<z>>, l, R, I)
    BY <2>1, OneTile
  <2> QED BY <2>2, <2>3
<1>4. Meets(u, 0)
  BY <1>1, <1>3 DEF Meets
<1>5. ProgIn(u, 0, l, R, I)
  BY <1>1, <1>3, <1>4 DEF ProgIn
<1> QED BY <1>5 DEF u

\* One core alone, since cf and cm divide the sums and not the rows.
LEMMA cfSafe ==
    ASSUME NEW k \in {"cf", "cm"}
    PROVE  IsSafe(k, 1, 32)
<1>1. ASSUME NEW c \in Threads(1)
      PROVE  ProgIn(Kernel(k, c, 1, 32), 0, 32, First(1, 32)[c], 0..(32 - 1))
  <2> DEFINE tile(r, lo, q) == Tile3(<<r, q>>, Loop(0, 32, 4, 4), Loop(lo, lo + 16, 4, 4), TRUE, 32, 32, 32)
             x == [p \in 1..16 |-> tile(2 * (p - 1), 0, 2 * (p - 1) + 1)]
             y == [p \in 1..16 |-> tile(31 - 2 * (p - 1), 16, 30 - 2 * (p - 1))]
             s == [p \in 1..16 |-> Block(<<x[p]>>, FALSE)]
             t == [p \in 1..16 |-> Block(<<y[p]>>, FALSE)]
  <2>1. c = 0 /\ First(1, 32)[c] = 0..(32 - 1)
    BY DEF First, Threads
  <2>2. Kernel(k, c, 1, 32) = s \o t
    <3>1. Iters(0, 32, 2) = 16
      BY DEF Iters
    <3>2. Kernel(k, 0, 1, 32) =
              [p \in 1..16 |-> Block(<<tile(2 * (p - 1), 0, 2 * (p - 1) + 1)>>, FALSE)] \o
              [p \in 1..16 |-> Block(<<tile(31 - 2 * (p - 1), 16, 30 - 2 * (p - 1))>>, FALSE)]
      <4>1. CASE k = "cf"
        <5>1. Kernel(k, 0, 1, 32) = cf(0, 1, 32)
          BY <4>1 DEF Kernel
        <5>2. ~(0 > 1) /\ (0 = 1 \/ 1 = 1)
          OBVIOUS
        <5>3. cf(0, 1, 32) =
              [p \in 1..16 |-> Block(<<tile(2 * (p - 1), 0, 2 * (p - 1) + 1)>>, FALSE)] \o
              [p \in 1..16 |-> Block(<<tile(31 - 2 * (p - 1), 16, 30 - 2 * (p - 1))>>, FALSE)]
          BY <5>2 DEF cf, Add
        <5> QED BY <5>1, <5>3
      <4>2. CASE k = "cm"
        <5>1. Kernel(k, 0, 1, 32) = cm(0, 1, 32)
          BY <4>2 DEF Kernel
        <5> QED BY <3>1, <5>1 DEF cm
      <4> QED BY <4>1, <4>2
    <3>3. /\ s = [p \in 1..16 |-> Block(<<tile(2 * (p - 1), 0, 2 * (p - 1) + 1)>>, FALSE)]
          /\ t = [p \in 1..16 |-> Block(<<tile(31 - 2 * (p - 1), 16, 30 - 2 * (p - 1))>>, FALSE)]
      <4> HIDE DEF tile
      <4> QED OBVIOUS
    <3> HIDE DEF s, t
    <3> QED BY <2>1, <3>2, <3>3
  <2>3. ASSUME NEW r \in 0..31, NEW q \in 0..31, NEW lo
        PROVE  TileIn(tile(r, lo, q), 32, 0..(32 - 1), 0..(32 - 1))
    <3>1. ToSet(<<r, q>>) \subseteq 0..(32 - 1)
      BY Few
    <3> QED BY <3>1, All32, Tile3In
  <2> HIDE DEF tile
  <2>6. \A p \in 1..16 : /\ 2 * (p - 1) \in 0..31 /\ 2 * (p - 1) + 1 \in 0..31
                         /\ 31 - 2 * (p - 1) \in 0..31 /\ 30 - 2 * (p - 1) \in 0..31
    OBVIOUS
  <2>4. /\ \A p \in 1..16 : TileIn(x[p], 32, 0..(32 - 1), 0..(32 - 1))
        /\ \A p \in 1..16 : TileIn(y[p], 32, 0..(32 - 1), 0..(32 - 1))
    BY <2>3, <2>6
  <2> HIDE DEF x, y
  <2>5. ProgIn(s \o t, 0, 32, 0..(32 - 1), 0..(32 - 1))
    <3> DEFINE X == {Block(<<x[p]>>, FALSE) : p \in 1..16} \cup {Block(<<y[p]>>, FALSE) : p \in 1..16}
    <3>1. s \in [1..16 -> X] /\ t \in [1..16 -> X]
      OBVIOUS
    <3>2. /\ \A p \in 1..16 : s[p] = Block(<<x[p]>>, FALSE)
          /\ \A p \in 1..16 : t[p] = Block(<<y[p]>>, FALSE)
      OBVIOUS
    <3> HIDE DEF s, t, X
    <3> DEFINE R == 0..(32 - 1)
    <3>3. Straight(s, 16, 32, R, R) /\ Straight(t, 16, 32, R, R)
      BY <2>4, <3>2 DEF Straight
    <3> HIDE DEF R
    <3>4. 16 \in Nat
      OBVIOUS
    <3>5. ProgIn(s \o t, 0, 32, R, R)
      BY <3>1, <3>3, <3>4, NeverMeet
    <3> QED BY <3>5 DEF R
  <2> HIDE DEF s, t
  <2> QED BY <2>1, <2>2, <2>5
<1>2. 32 \in Nat \ {0} /\ 1 \in Nat \ {0} /\ 0 \in Nat
  OBVIOUS
<1>3. Safe(k, 1, 32, 0)
  BY <1>1, <1>2, FirstDivide, SafeRows
<1> QED BY <1>2, <1>3 DEF IsSafe

\* br and dr divide evenly among at most two cores.
LEMMA brSafe ==
    ASSUME NEW k \in {"br", "dr"}, NEW n \in Nat \ {0}, Fits(k, n, 32)
    PROVE  IsSafe(k, n, 32)
<1> DEFINE share == 32 \div n
           i2s == Iters(0, share, 16)
           un == IF k = "br" THEN 4 ELSE 8
           once == Iters(0, 32, 32)
           num == once * i2s * 16 * once
           R == 0..(32 - 1)
<1>1. n \in {1, 2}
  <2>1. 16 * n \in Nat \ {0} /\ 32 \in Nat /\ 32 % (16 * n) = 0
    BY DEF Fits
  <2> DEFINE q == 32 \div (16 * n)
  <2>2. q \in Nat /\ 32 = (16 * n) * q
    BY <2>1, Multiple
  <2> HIDE DEF q
  <2>3. q # 0 /\ n * q = 2
    BY <2>2, SMT
  <2>4. n * 1 <= n * q
    BY <2>2, <2>3, Monotone
  <2> QED BY <2>3, <2>4
<1>2. Iters(0, 32, 2) = 16 /\ once = 1
  BY DEF Iters
<1>3. i2s \in {1, 2} /\ share = 16 * i2s /\ num = 16 * i2s
  <2>1. CASE n = 1
    BY <1>2, <2>1 DEF Iters
  <2>2. CASE n = 2
    BY <1>2, <2>2 DEF Iters
  <2> QED BY <1>1, <2>1, <2>2
<1> DEFINE m == 16 + num
<1>4. ASSUME NEW c \in Threads(n)
      PROVE  ProgIn(Kernel(k, c, n, 32), m, 32, R, Bands(n, 32)[c])
  <2> DEFINE k2(p) == 32 * ((p - 1) % once)
             q(p) == (p - 1) \div once
             i2(p) == c * share + 16 * ((q(p) \div 16) % i2s)
             j(p) == 32 * (q(p) \div (16 * i2s)) + 2 * (q(p) % 16)
             x == [p \in 1..num |-> Add(32, <<j(p), j(p) + 1>>, Loop(i2(p), i2(p) + 16, un, un),
                                      Loop(k2(p), k2(p) + 32, 4, 4))]
             s == [p \in 1..16 |-> Block(<<>>, TRUE)]
             t == [p \in 1..num |-> Block(<<x[p]>>, TRUE)]
  <2>1. Kernel(k, c, n, 32) = s \o t
    <3>1. Kernel(k, c, n, 32) = Transposed(c, n, 32, un)
      BY DEF Kernel, br, dr
    <3>2. Transposed(c, n, 32, un) =
              [p \in 1..Iters(0, 32, 2) |-> Block(<<>>, TRUE)] \o
              [p \in 1..num |-> Block(<<Add(32, <<j(p), j(p) + 1>>, Loop(i2(p), i2(p) + 16, un, un),
                                          Loop(k2(p), k2(p) + 32, 4, 4))>>, TRUE)]
      BY DEF Transposed
    <3>3. t = [p \in 1..num |-> Block(<<Add(32, <<j(p), j(p) + 1>>, Loop(i2(p), i2(p) + 16, un, un),
                                          Loop(k2(p), k2(p) + 32, 4, 4))>>, TRUE)]
      <4> HIDE DEF num, un, j, i2, k2
      <4> QED OBVIOUS
    <3> HIDE DEF t, num, un, j, i2, k2
    <3> QED BY <1>2, <3>1, <3>2, <3>3
  <2>2. ASSUME NEW p \in 1..num
        PROVE  TileIn(x[p], 32, R, Bands(n, 32)[c])
    <3>1. x[p] = Add(32, <<j(p), j(p) + 1>>, Loop(i2(p), i2(p) + 16, un, un),
                     Loop(k2(p), k2(p) + 32, 4, 4))
      <4> HIDE DEF num, un, j, i2, k2
      <4> QED OBVIOUS
    <3>2. p - 1 \in 0..(16 * i2s - 1) /\ q(p) = p - 1
      <4> HIDE DEF num, i2s, once
      <4> QED BY <1>2, <1>3
    <3> DEFINE a == (q(p) \div 16) % i2s
    <3>3. j(p) \in 0..31 /\ j(p) + 1 \in 0..31 /\ a \in 0..(i2s - 1)
      <4> HIDE DEF i2s, q
      <4>1. CASE i2s = 1
        BY <3>2, <4>1
      <4>2. CASE i2s = 2
        BY <3>2, <4>2
      <4> QED BY <1>3, <4>1, <4>2
    <3>4. ToSet(<<j(p), j(p) + 1>>) \subseteq R
      <4> HIDE DEF j
      <4> QED BY <3>3, Few
    <3>5. c \in {0, 1} /\ Bands(n, 32)[c] = (c * share)..((c + 1) * share - 1)
      BY <1>1 DEF Bands, Threads
    <3>6. i2(p) = c * share + 16 * a
      OBVIOUS
    <3> HIDE DEF i2, a, share, i2s
    <3>7. i2(p) \in Int /\ i2(p)..((i2(p) + 16) - 1) \subseteq Bands(n, 32)[c]
      <4>1. CASE c = 0
        <5>1. /\ Bands(n, 32)[c] = (0 * share)..((0 + 1) * share - 1)
              /\ i2(p) = 0 * share + 16 * a
          BY <3>5, <3>6, <4>1
        <5>2. 0 * share = 0 /\ (0 + 1) * share = share
          BY <1>3
        <5> QED BY <1>3, <3>3, <5>1, <5>2
      <4>2. CASE c = 1
        BY <1>3, <3>3, <3>5, <3>6, <4>2
      <4> QED BY <3>5, <4>1, <4>2
    <3>8. un \in Nat \ {0} /\ ((i2(p) + 16) - i2(p)) % un = 0 /\ i2(p) + 16 \in Int
      BY <3>7
    <3> HIDE DEF un
    <3>9. ToSet(Loop(i2(p), i2(p) + 16, un, un)) \subseteq Bands(n, 32)[c]
      BY <3>7, <3>8, LoopValues
    <3> HIDE DEF x, j, k2, R
    <3> QED BY <3>1, <3>4, <3>9, AddIn
  <2>3. num \in Nat
    BY <1>3
  <2> HIDE DEF x, num, R, m
  <2>4. ProgIn(t, num, 32, R, Bands(n, 32)[c])
    BY <2>2, <2>3, MeetEach
  <2>5. ProgIn(s, 16, 32, R, Bands(n, 32)[c])
    <3>1. \A p \in 1..16 : s[p] = Block(<<>>, TRUE) /\ TilesIn(<<>>, 32, R, Bands(n, 32)[c])
      BY NoTiles
    <3>2. s = [p \in 1..16 |-> s[p]] /\ 16 \in Nat
      OBVIOUS
    <3> HIDE DEF s
    <3> QED BY <3>1, <3>2, AllMeet
  <2>6. ProgIn(s \o t, 16 + num, 32, R, Bands(n, 32)[c])
    <3> DEFINE X == {Block(<<>>, TRUE)} \cup {Block(<<x[p]>>, TRUE) : p \in 1..num}
    <3>1. s \in [1..16 -> X] /\ t \in [1..num -> X] /\ 16 \in Nat
      OBVIOUS
    <3> HIDE DEF s, t, X
    <3> QED BY <2>3, <2>4, <2>5, <3>1, MeetMore
  <2> HIDE DEF s, t
  <2> QED BY <2>1, <2>6 DEF m
<1>5. 32 \in Nat \ {0} /\ m \in Nat /\ Divides(Bands(n, 32), n, 32)
  BY <1>3, BandsDivide
<1> HIDE DEF m, num
<1>6. Safe(k, n, 32, m)
  BY <1>4, <1>5, SafeColumns
<1> QED BY <1>5, <1>6 DEF IsSafe

-----------------------------------------------------------------------------
\* ak and ck, which work in tiles of 16 by 16.
LEMMA StridedSeq ==
    ASSUME NEW lo \in Int, NEW hi \in Int, NEW st \in Nat \ {0}, NEW un \in Nat \ {0},
           NEW gap \in Int
    PROVE  Strided(lo, hi, st, un, gap) \in Seq(Int)
<1> DEFINE num == Iters(lo, hi, st) * un
           f == [p \in 1..num |-> lo + st * ((p - 1) \div un) + gap * ((p - 1) % un)]
<1>1. num \in Nat
  BY ItersBound, TimesNat
<1> HIDE DEF num
<1>2. \A p \in 1..num : f[p] \in Int
  <2> SUFFICES ASSUME NEW p \in 1..num PROVE f[p] \in Int
    OBVIOUS
  <2>1. p - 1 \in Int
    OBVIOUS
  <2>2. (p - 1) \div un \in Int /\ (p - 1) % un \in Int
    BY <2>1, Division
  <2>3. st * ((p - 1) \div un) \in Int /\ gap * ((p - 1) % un) \in Int
    BY <2>2, SMT
  <2> QED BY <2>3
<1>3. f \in [1..num -> Int]
  BY <1>2
<1> HIDE DEF f
<1>4. f \in Seq(Int) /\ <<>> \o f = f
  BY <1>1, <1>3
<1> QED BY <1>4 DEF Strided, f, num

LEMMA Entry ==
    ASSUME NEW s \in Seq(Int), NEW i \in 1..Len(s)
    PROVE  s[i] \in ToSet(s)
  BY DEF ToSet

\* Rows of a tile.
LEMMA SixteenRows ==
    ASSUME NEW n \in Nat \ {0}, NEW l \in Nat \ {0}, NEW c \in Threads(n),
           NEW jj \in ToSet(Strided(16 * c, l, 16 * n, 1, 1))
    PROVE  /\ jj \in 0..(l - 1) /\ jj % 16 = 0
           /\ jj..(Lesser(jj + 16, l) - 1) \subseteq Combs(n, l, 16)[c]
<1>1. c \in Nat /\ 16 * c \in Int /\ 16 * n \in Nat \ {0}
  BY DEF Threads
<1>2. Visits(jj, 16 * c, l, 16 * n, 1, 1)
  BY <1>1, StridedValues
<1>3. PICK a \in Nat, b \in 0..(1 - 1) :
         jj = 16 * c + (16 * n) * a + 1 * b /\ 16 * c + (16 * n) * a < l
  BY <1>2 DEF Visits
<1> DEFINE e == n * a
<1>4. e \in Nat /\ (16 * n) * a = 16 * e
  BY Z3
<1>5. jj = 16 * c + (16 * n) * a
  <2> DEFINE d == (16 * n) * a
  <2>1. d \in Int
    BY <1>4
  <2>2. jj = 16 * c + d + 1 * b
    BY <1>3
  <2> HIDE DEF d
  <2>3. jj = 16 * c + d
    BY <1>1, <2>1, <2>2
  <2> QED BY <2>3 DEF d
<1> HIDE DEF e
<1>6. jj \in 0..(l - 1) /\ jj % 16 = 0
  <2>1. jj = 16 * (c + e)
    BY <1>1, <1>4, <1>5
  <2> QED BY <1>1, <1>3, <1>4, <1>5, <2>1
<1>7. ASSUME NEW x \in jj..(Lesser(jj + 16, l) - 1)
      PROVE  x \in Combs(n, l, 16)[c]
  <2>1. x - jj \in 0..(16 - 1) /\ x < l
    BY <1>6 DEF Lesser
  <2> DEFINE b1 == x - jj
  <2>2. x = 16 * c + (16 * n) * a + b1
    BY <1>1, <1>4, <1>5, <1>6
  <2> HIDE DEF b1
  <2>3. 16 * c + (16 * n) * a + b1 < l /\ b1 \in 0..(16 - 1) /\ 16 \in Nat \ {0}
    BY <2>1, <2>2 DEF b1
  <2>4. 16 * c + (16 * n) * a + b1 \in Combs(n, l, 16)[c]
    BY <2>3, Grouped
  <2> QED BY <2>2, <2>4, Zenon
<1> QED BY <1>6, <1>7

\* A loop over one tile does not pass the end of the matrix.
LEMMA Chunk ==
    ASSUME NEW l \in Nat \ {0}, NEW ii \in 0..(l - 1), NEW st \in {2, 4, 8},
           ii % st = 0, l % st = 0
    PROVE  /\ ToSet(Loop(ii, Lesser(ii + 16, l), st, st)) \subseteq ii..(Lesser(ii + 16, l) - 1)
           /\ ii..(Lesser(ii + 16, l) - 1) \subseteq 0..(l - 1)
<1> DEFINE hi == Lesser(ii + 16, l)
<1>1. hi \in Int /\ hi <= l /\ (hi = ii + 16 \/ hi = l)
  BY DEF Lesser
<1> HIDE DEF hi
<1>2. (hi - ii) % st = 0
  <2>1. CASE st = 2
    BY <1>1, <2>1
  <2>2. CASE st = 4
    BY <1>1, <2>2
  <2>3. CASE st = 8
    BY <1>1, <2>3
  <2> QED BY <2>1, <2>2, <2>3
<1>3. st \in Nat \ {0} /\ ii \in Int
  OBVIOUS
<1>4. ToSet(Loop(ii, hi, st, st)) \subseteq ii..(hi - 1)
  BY <1>1, <1>2, <1>3, LoopValues
<1>5. ii..(hi - 1) \subseteq 0..(l - 1)
  BY <1>1
<1> QED BY <1>4, <1>5 DEF hi

\* Two nested loops over sequences.
LEMMA PairOf ==
    ASSUME NEW js \in Seq(Int), NEW is \in Seq(Int), NEW p \in 1..(Len(js) * Len(is))
    PROVE  /\ js[((p - 1) \div Len(is)) + 1] \in ToSet(js)
           /\ is[((p - 1) % Len(is)) + 1] \in ToSet(is)
<1> DEFINE num == Len(js)
           M == Len(is)
           a == (p - 1) \div M
           b == (p - 1) % M
<1>1. num \in Nat /\ M \in Nat
  OBVIOUS
<1>2. a \in 0..(num - 1) /\ b \in 0..(M - 1)
  <2> HIDE DEF num, M
  <2> QED BY <1>1, LoopPair DEF num, M
<1> HIDE DEF a, b
<1>3. a + 1 \in 1..Len(js) /\ b + 1 \in 1..Len(is)
  BY <1>1, <1>2
<1>4. js[a + 1] \in ToSet(js) /\ is[b + 1] \in ToSet(is)
  BY <1>3, Entry
<1> QED BY <1>4 DEF a, b

LEMMA akSafe ==
    ASSUME NEW n \in Nat \ {0}, NEW l \in Nat \ {0}, Fits("ak", n, l)
    PROVE  IsSafe("ak", n, l)
<1>1. l % 8 = 0
  BY DEF Fits
<1>2. ASSUME NEW c \in Threads(n)
      PROVE  ProgIn(Kernel("ak", c, n, l), 0, l, Combs(n, l, 16)[c], 0..(l - 1))
  <2> DEFINE js == Strided(16 * c, l, 16 * n, 1, 1)
             is == Loop(0, l, 16, 1)
             tile(jj, ii) == Add(l, Range1(jj, Lesser(jj + 16, l)),
                                 Loop(ii, Lesser(ii + 16, l), 8, 8), Loop(0, l, 4, 4))
             t == [p \in 1..(Len(js) * Len(is)) |->
                      tile(js[((p - 1) \div Len(is)) + 1], is[((p - 1) % Len(is)) + 1])]
  <2>1. Kernel("ak", c, n, l) = Whole(t)
    <3>1. Kernel("ak", c, n, l) = ak(c, n, l)
      BY DEF Kernel
    <3> QED BY <3>1 DEF ak
  <2>2. js \in Seq(Int) /\ is \in Seq(Int)
    <3>1. 16 * c \in Int /\ 16 * n \in Nat \ {0} /\ 1 \in Nat \ {0} /\ 1 \in Int
      BY DEF Threads
    <3>2. js \in Seq(Int)
      BY <3>1, StridedSeq
    <3>3. 0 \in Int /\ 16 \in Nat \ {0} /\ l \in Int
      OBVIOUS
    <3>4. Strided(0, l, 16, 1, 1) \in Seq(Int)
      BY <3>1, <3>3, StridedSeq
    <3> QED BY <3>2, <3>4 DEF Loop
  <2>3. ASSUME NEW jj \in ToSet(js), NEW ii \in ToSet(is)
        PROVE  TileIn(tile(jj, ii), l, Combs(n, l, 16)[c], 0..(l - 1))
    <3>1. /\ jj \in 0..(l - 1)
          /\ jj..(Lesser(jj + 16, l) - 1) \subseteq Combs(n, l, 16)[c]
      BY SixteenRows
    <3>2. ToSet(Range1(jj, Lesser(jj + 16, l))) \subseteq jj..(Lesser(jj + 16, l) - 1)
      <4>1. jj \in Int /\ Lesser(jj + 16, l) \in Int
        BY <3>1 DEF Lesser
      <4> QED BY <4>1, RangeValues
    <3>3. ii \in 0..(l - 1) /\ ii % 8 = 0
      <4>1. Visits(ii, 0, l, 16, 1, 1)
        BY StridedValues DEF Loop
      <4> QED BY <4>1 DEF Visits
    <3>4. ToSet(Loop(ii, Lesser(ii + 16, l), 8, 8)) \subseteq 0..(l - 1)
      BY <1>1, <3>3, Chunk
    <3> QED BY <3>1, <3>2, <3>4, AddIn
  <2> HIDE DEF tile, js, is
  <2>4. t = [p \in 1..(Len(js) * Len(is)) |-> t[p]]
    OBVIOUS
  <2>5. \A p \in 1..(Len(js) * Len(is)) :
            t[p] = tile(js[((p - 1) \div Len(is)) + 1], is[((p - 1) % Len(is)) + 1])
    OBVIOUS
  <2> HIDE DEF t
  <2>6. TilesIn(t, l, Combs(n, l, 16)[c], 0..(l - 1))
    <3>1. \A p \in 1..(Len(js) * Len(is)) : TileIn(t[p], l, Combs(n, l, 16)[c], 0..(l - 1))
      BY <2>2, <2>3, <2>5, PairOf
    <3>2. Len(js) * Len(is) \in Nat
      <4>1. Len(js) \in Nat /\ Len(is) \in Nat
        BY <2>2
      <4> QED BY <4>1, TimesNat
    <3> QED BY <2>4, <3>1, <3>2, ManyTiles
  <2> QED BY <2>1, <2>6, WholeIn
<1> QED BY <1>2, CombsDivide, SafeRows DEF IsSafe

LEMMA ckSafe ==
    ASSUME NEW n \in Nat \ {0}, NEW l \in Nat \ {0}, Fits("ck", n, l)
    PROVE  IsSafe("ck", n, l)
<1>1. l % 16 = 0 /\ l % 4 = 0 /\ l % 2 = 0
  BY DEF Fits
<1>2. ASSUME NEW c \in Threads(n)
      PROVE  ProgIn(Kernel("ck", c, n, l), 0, l, Combs(n, l, 16)[c], 0..(l - 1))
  <2> DEFINE js == Strided(16 * c, l, 16 * n, 1, 1)
             is == [p \in 1..(l \div 16) |-> (16 * c + 16 * (p - 1)) % l]
             tile(jj, ii) == Add(l, Loop(jj, Lesser(jj + 16, l), 4, 4),
                                 Loop(ii, Lesser(ii + 16, l), 2, 2), Loop(0, l, 8, 8))
             t == [p \in 1..(Len(js) * Len(is)) |->
                      tile(js[((p - 1) \div Len(is)) + 1], is[((p - 1) % Len(is)) + 1])]
  <2>1. Kernel("ck", c, n, l) = Whole(t)
    <3>1. Kernel("ck", c, n, l) = ck(c, n, l)
      BY DEF Kernel
    <3> QED BY <3>1 DEF ck
  <2>2. js \in Seq(Int)
    <3>1. 16 * c \in Int /\ 16 * n \in Nat \ {0}
      BY DEF Threads
    <3> QED BY <3>1, StridedSeq
  <2>7. \A p \in 1..(l \div 16) : is[p] \in 0..(l - 1) /\ is[p] % 2 = 0
    <3> SUFFICES ASSUME NEW p \in 1..(l \div 16) PROVE is[p] \in 0..(l - 1) /\ is[p] % 2 = 0
      OBVIOUS
    <3> DEFINE x == 16 * c + 16 * (p - 1)
               q == x \div l
               r == x % l
               h == l \div 2
    <3>1. x \in Int /\ x = 2 * (8 * c + 8 * (p - 1)) /\ 8 * c + 8 * (p - 1) \in Int
      BY DEF Threads
    <3>2. q \in Int /\ r \in 0..(l - 1) /\ x = l * q + r
      <4> HIDE DEF x
      <4> QED BY <3>1, Division
    <3>3. h \in Nat /\ l = 2 * h
      BY <1>1
    <3>4. is[p] = r
      OBVIOUS
    <3> HIDE DEF x, q, r, h, is
    <3>5. h * q \in Int /\ l * q = 2 * (h * q)
      BY <3>2, <3>3, SMT
    <3>6. r % 2 = 0
      BY <3>1, <3>2, <3>5
    <3> QED BY <3>2, <3>4, <3>6
  <2>8. is \in Seq(Int) /\ DOMAIN is = 1..(l \div 16)
    <3>1. l \div 16 \in Nat
      OBVIOUS
    <3>2. is \in [1..(l \div 16) -> Int]
      <4>1. \A p \in 1..(l \div 16) : is[p] \in Int
        BY <2>7
      <4> QED BY <4>1
    <3> HIDE DEF is
    <3> QED BY <3>1, <3>2
  <2>3. ASSUME NEW jj \in ToSet(js), NEW ii \in ToSet(is)
        PROVE  TileIn(tile(jj, ii), l, Combs(n, l, 16)[c], 0..(l - 1))
    <3>1. /\ jj \in 0..(l - 1) /\ jj % 16 = 0
          /\ jj..(Lesser(jj + 16, l) - 1) \subseteq Combs(n, l, 16)[c]
      BY SixteenRows
    <3>2. ToSet(Loop(jj, Lesser(jj + 16, l), 4, 4)) \subseteq jj..(Lesser(jj + 16, l) - 1)
      <4>1. jj % 4 = 0
        BY <3>1
      <4> QED BY <1>1, <3>1, <4>1, Chunk
    <3>3. ii \in 0..(l - 1) /\ ii % 2 = 0
      <4> HIDE DEF is
      <4> QED BY <2>7, <2>8 DEF ToSet
    <3>4. ToSet(Loop(ii, Lesser(ii + 16, l), 2, 2)) \subseteq 0..(l - 1)
      BY <1>1, <3>3, Chunk
    <3> QED BY <3>1, <3>2, <3>4, AddIn
  <2> HIDE DEF tile, js, is
  <2>4. t = [p \in 1..(Len(js) * Len(is)) |-> t[p]]
    OBVIOUS
  <2>5. \A p \in 1..(Len(js) * Len(is)) :
            t[p] = tile(js[((p - 1) \div Len(is)) + 1], is[((p - 1) % Len(is)) + 1])
    OBVIOUS
  <2> HIDE DEF t
  <2>6. TilesIn(t, l, Combs(n, l, 16)[c], 0..(l - 1))
    <3>1. \A p \in 1..(Len(js) * Len(is)) : TileIn(t[p], l, Combs(n, l, 16)[c], 0..(l - 1))
      BY <2>2, <2>3, <2>5, <2>8, PairOf
    <3>2. Len(js) * Len(is) \in Nat
      <4>1. Len(js) \in Nat /\ Len(is) \in Nat
        BY <2>2, <2>8
      <4> QED BY <4>1, TimesNat
    <3> QED BY <2>4, <3>1, <3>2, ManyTiles
  <2> QED BY <2>1, <2>6, WholeIn
<1> QED BY <1>2, CombsDivide, SafeRows DEF IsSafe

-----------------------------------------------------------------------------
\* The kernels with a shared copy of B: first every core copies its part.
Firsts(pairs) == {e[1] : e \in pairs}

\* num blocks that copy the pairs P[1], P[2], ..., and then the program t.
CopiesThen(prog, num, P, t) ==
    /\ Len(t) \in Nat /\ Len(prog) = num + Len(t)
    /\ \A p \in 1..num : prog[p] = CopyBlock(P[p])
    /\ \A p \in 1..Len(t) : prog[num + p] = t[p]

LEMMA CopyFacts ==
    ASSUME NEW l, NEW R, NEW I, NEW num \in Nat, NEW m \in Nat, NEW prog, NEW P, NEW t,
           CopiesThen(prog, num, P, t), ProgIn(t, m, l, R, I)
    PROVE  /\ Meets(prog, num + m)
           /\ \A p \in 1..Len(prog) : TilesIn(prog[p].tiles, l, R, I)
           /\ \A p \in 1..num : prog[p].copy = P[p] /\ ~ReadsCopy(prog[p])
           /\ \A p \in 1..Len(prog) : p > num => prog[p].copy = {}
<1>1. \A p \in 1..num : /\ prog[p].tiles = <<>> /\ prog[p].copy = P[p] /\ prog[p].bar
  <2> SUFFICES ASSUME NEW p \in 1..num
               PROVE  prog[p].tiles = <<>> /\ prog[p].copy = P[p] /\ prog[p].bar
    OBVIOUS
  <2>1. prog[p] = [tiles |-> <<>>, copy |-> P[p], bar |-> TRUE]
    BY DEF CopiesThen, CopyBlock
  <2> QED BY <2>1
<1>2. /\ m <= Len(t)
      /\ \A p \in 1..Len(t) : (t[p].bar <=> p <= m) /\ t[p].copy = {} /\ TilesIn(t[p].tiles, l, R, I)
  BY DEF ProgIn, Meets
<1>3. Len(t) \in Nat /\ Len(prog) = num + Len(t) /\ \A p \in 1..Len(t) : prog[num + p] = t[p]
  BY DEF CopiesThen
<1>4. ASSUME NEW p \in 1..Len(prog)
      PROVE  /\ prog[p].bar <=> p <= num + m
             /\ TilesIn(prog[p].tiles, l, R, I)
             /\ p > num => prog[p].copy = {}
  <2>1. CASE p <= num
    <3>1. p \in 1..num /\ p <= num + m
      BY <1>3, <2>1
    <3> QED BY <1>1, <2>1, <3>1, NoTiles
  <2>2. CASE ~(p <= num)
    <3> DEFINE q == p - num
    <3>1. q \in 1..Len(t) /\ num + q = p /\ (p <= num + m <=> q <= m)
      BY <1>3, <2>2
    <3>2. prog[p] = t[q]
      BY <1>3, <3>1
    <3> HIDE DEF q
    <3> QED BY <1>2, <3>1, <3>2
  <2> QED BY <2>1, <2>2
<1>5. Meets(prog, num + m)
  BY <1>2, <1>3, <1>4 DEF Meets
<1>6. \A p \in 1..num : ~ReadsCopy(prog[p])
  BY <1>1 DEF ReadsCopy, ToSet
<1> QED BY <1>1, <1>4, <1>5, <1>6

\* The copying stays inside the copy and the cores copy to different places;
\* whoever is past the num-th meeting reads what everybody has written.
LEMMA SafeCopying ==
    ASSUME NEW k, NEW n \in Nat \ {0}, NEW l \in Nat \ {0}, NEW num \in Nat, NEW m \in Nat,
           NEW R, Divides(R, n, l), NEW P, NEW T,
           \A c \in Threads(n) : /\ CopiesThen(Kernel(k, c, n, l), num, P[c], T[c])
                                 /\ ProgIn(T[c], m, l, R[c], 0..(l - 1)),
           \A c \in Threads(n), p \in 1..num : Firsts(P[c][p]) \subseteq 0..(CopySize - 1),
           \A c, d \in Threads(n), p \in 1..num :
               c # d => Firsts(P[c][p]) \cap Firsts(P[d][p]) = {}
    PROVE  Safe(k, n, l, num + m)
<1> DEFINE K(c) == Kernel(k, c, n, l)
<1>1. \A c \in Threads(n) : R[c] \subseteq 0..(l - 1)
  BY DEF Divides
<1>2. ASSUME NEW c \in Threads(n)
      PROVE  /\ Meets(K(c), num + m)
             /\ \A p \in 1..Len(K(c)) : TilesIn(K(c)[p].tiles, l, R[c], 0..(l - 1))
             /\ \A p \in 1..num : K(c)[p].copy = P[c][p] /\ ~ReadsCopy(K(c)[p])
             /\ \A p \in 1..Len(K(c)) : p > num => K(c)[p].copy = {}
  BY CopyFacts
<1>3. ASSUME NEW c \in Threads(n)
      PROVE  Len(K(c)) \in Nat
  BY <1>2 DEF Meets
<1> HIDE DEF K
<1>4. \A c \in Threads(n) : \A p \in 1..num : Copied(K(c)[p]) = Firsts(P[c][p])
  BY <1>2 DEF Copied, Firsts
<1>5. \A c \in Threads(n) : \A p \in 1..Len(K(c)) : p > num => Copied(K(c)[p]) = {}
  BY <1>2 DEF Copied
<1>6. ASSUME NEW c \in Threads(n), NEW p \in 1..Len(K(c))
      PROVE  BlockInBounds(K(c)[p], l)
  <2>1. Written(K(c)[p]) \subseteq 0..(l * l - 1)
    BY <1>1, <1>2, WrittenInside
  <2>2. Copied(K(c)[p]) \subseteq 0..(CopySize - 1)
    <3>1. CASE p \in 1..num
      BY <1>4, <3>1
    <3>2. CASE p > num
      BY <1>5, <3>2
    <3> QED BY <1>3, <3>1, <3>2
  <2> QED BY <2>1, <2>2 DEF BlockInBounds
<1>7. ASSUME NEW c \in Threads(n), NEW d \in Threads(n), c # d,
             NEW p \in 1..Len(K(c)), NEW q \in 1..Len(K(d)), Phase(p, num + m) = Phase(q, num + m)
      PROVE  Independent(K(c)[p], K(d)[q])
  <2>1. Separate(K(c)[p], K(d)[q])
    <3>1. R[c] \cap R[d] = {}
      BY <1>7 DEF Divides
    <3>2. /\ R[c] \subseteq 0..(l - 1) /\ R[d] \subseteq 0..(l - 1)
          /\ 0..(l - 1) \subseteq 0..(l - 1) /\ l \in Nat
      BY <1>1
    <3>3. /\ TilesIn(K(c)[p].tiles, l, R[c], 0..(l - 1))
          /\ TilesIn(K(d)[q].tiles, l, R[d], 0..(l - 1))
      BY <1>2
    <3> QED BY <3>1, <3>2, <3>3, WrittenApart
  <2>2. CASE p \in 1..num
    <3>1. q = p
      BY <1>3, <1>7, <2>2 DEF Phase
    <3>2. Copied(K(c)[p]) \cap Copied(K(d)[q]) = {}
      BY <1>4, <1>7, <2>2, <3>1
    <3>3. ~ReadsCopy(K(c)[p])
      BY <1>2, <2>2
    <3> QED BY <2>1, <3>2, <3>3 DEF Independent, Separate
  <2>3. CASE p > num
    <3>1. q > num
      BY <1>3, <1>7, <2>3 DEF Phase
    <3>2. Copied(K(c)[p]) = {} /\ K(d)[q].copy = {}
      BY <1>2, <1>5, <2>3, <3>1
    <3> QED BY <2>1, <3>2 DEF Independent, Separate
  <2> QED BY <1>3, <2>2, <2>3
<1>8. \A c \in Threads(n) : Meets(K(c), num + m)
  BY <1>2
<1> QED BY <1>6, <1>7, <1>8 DEF Safe, K

LEMMA CopyJoin ==
    ASSUME NEW num \in Nat, NEW P, NEW M \in Nat, NEW t, t = [p \in 1..M |-> t[p]]
    PROVE  CopiesThen([p \in 1..num |-> CopyBlock(P[p])] \o t, num, P, t)
<1> DEFINE X == {CopyBlock(P[p]) : p \in 1..num} \cup {t[p] : p \in 1..M}
           s == [p \in 1..num |-> CopyBlock(P[p])]
<1>1. s \in [1..num -> X] /\ t \in [1..M -> X] /\ Len(t) = M
  OBVIOUS
<1>2. \A p \in 1..num : s[p] = CopyBlock(P[p])
  OBVIOUS
<1> HIDE DEF X, s
<1>3. /\ Len(s \o t) = num + M
      /\ \A p \in 1..(num + M) : (s \o t)[p] = IF p <= num THEN s[p] ELSE t[p - num]
  BY <1>1, Joined
<1>4. CopiesThen(s \o t, num, P, t)
  <2>1. \A p \in 1..num : (s \o t)[p] = CopyBlock(P[p])
    BY <1>2, <1>3
  <2>2. \A p \in 1..M : (s \o t)[num + p] = t[p]
    <3> SUFFICES ASSUME NEW p \in 1..M PROVE (s \o t)[num + p] = t[p]
      OBVIOUS
    <3>1. num + p \in 1..(num + M) /\ ~(num + p <= num) /\ (num + p) - num = p
      OBVIOUS
    <3> QED BY <1>3, <3>1
  <2> QED BY <1>1, <1>3, <2>1, <2>2 DEF CopiesThen
<1> QED BY <1>4 DEF s

LEMMA FromIn ==
    ASSUME NEW l, NEW R, NEW I, NEW rows, NEW cols, NEW ks, NEW where,
           ToSet(rows) \subseteq R, ToSet(cols) \subseteq I
    PROVE  /\ TileIn(From(where, Store(l, rows, cols, ks)), l, R, I)
           /\ TileIn(From(where, Add(l, rows, cols, ks)), l, R, I)
  BY DEF TileIn, From, Add, Store, Tile3

\* A square of at most 32 by 32 fits into the copy.
LEMMA CopyHolds ==
    ASSUME NEW l \in Nat, l <= 32, NEW e \in 0..(l * l - 1)
    PROVE  e \in 0..(CopySize - 1)
<1>1. l * l <= l * 32 /\ l * l \in Int
  BY Monotone, SMT
<1> QED BY <1>1 DEF CopySize

\* What FillShared copies in its p-th round: each core its own rows of the
\* transpose, which are columns of B.
FillPairs(c, n, l) ==
    [p \in 1..l |-> {<<i * l + p - 1, (p - 1) * l + i>> :
                        i \in (c * (l \div n))..((c + 1) * (l \div n) - 1)}]

Fills(n, l) == [c \in Threads(n) |-> FillPairs(c, n, l)]

LEMMA FillShares ==
    ASSUME NEW n \in Nat \ {0}, NEW l \in Nat \ {0}, l <= 32
    PROVE  /\ \A c \in Threads(n), p \in 1..l :
                  Firsts(Fills(n, l)[c][p]) \subseteq 0..(CopySize - 1)
           /\ \A c, d \in Threads(n), p \in 1..l :
                  c # d => Firsts(Fills(n, l)[c][p]) \cap Firsts(Fills(n, l)[d][p]) = {}
<1>1. ASSUME NEW c \in Threads(n), NEW p \in 1..l, NEW e \in Firsts(Fills(n, l)[c][p])
      PROVE  \E i \in Bands(n, l)[c] : e = i * l + p - 1
  <2>1. Fills(n, l)[c][p] = {<<i * l + p - 1, (p - 1) * l + i>> : i \in Bands(n, l)[c]}
    BY DEF Fills, FillPairs, Bands
  <2>2. PICK x \in Fills(n, l)[c][p] : e = x[1]
    BY <1>1 DEF Firsts
  <2>3. PICK i \in Bands(n, l)[c] : x = <<i * l + p - 1, (p - 1) * l + i>>
    BY <2>1, <2>2
  <2> QED BY <2>2, <2>3
<1>2. Divides(Bands(n, l), n, l)
  BY BandsDivide
<1>3. \A c \in Threads(n) : Bands(n, l)[c] \subseteq 0..(l - 1)
  BY <1>2 DEF Divides
<1>4. ASSUME NEW i \in 0..(l - 1), NEW p \in 1..l
      PROVE  i * l + p - 1 = i * l + (p - 1) /\ p - 1 \in 0..(l - 1)
  <2>1. i * l \in Int
    BY Times
  <2> QED BY <2>1
<1>5. ASSUME NEW c \in Threads(n), NEW p \in 1..l, NEW e \in Firsts(Fills(n, l)[c][p])
      PROVE  e \in 0..(CopySize - 1)
  <2>1. PICK i \in Bands(n, l)[c] : e = i * l + p - 1
    BY <1>1
  <2>2. i \in 0..(l - 1)
    BY <1>3
  <2>3. e = i * l + (p - 1) /\ p - 1 \in 0..(l - 1)
    BY <1>4, <2>1, <2>2
  <2>4. e \in 0..(l * l - 1)
    BY <2>2, <2>3, Cells
  <2> QED BY <2>4, CopyHolds
<1>6. ASSUME NEW c \in Threads(n), NEW d \in Threads(n), c # d, NEW p \in 1..l,
             NEW e \in Firsts(Fills(n, l)[c][p]), e \in Firsts(Fills(n, l)[d][p])
      PROVE  FALSE
  <2>1. PICK i \in Bands(n, l)[c] : e = i * l + p - 1
    BY <1>1
  <2>2. PICK j \in Bands(n, l)[d] : e = j * l + p - 1
    BY <1>1, <1>6
  <2>3. i \in 0..(l - 1) /\ j \in 0..(l - 1)
    BY <1>3
  <2>4. i * l + (p - 1) = j * l + (p - 1) /\ p - 1 \in 0..(l - 1)
    BY <1>4, <2>1, <2>2, <2>3
  <2>5. i = j
    BY <2>3, <2>4, Cells
  <2> QED BY <1>2, <1>6, <2>5 DEF Divides
<1> QED BY <1>5, <1>6

LEMMA FillIs ==
    ASSUME NEW n \in Nat \ {0}, NEW l \in Nat \ {0}, NEW c \in Threads(n)
    PROVE  FillShared(c, n, l) = [p \in 1..l |-> CopyBlock(Fills(n, l)[c][p])]
<1>1. \A p \in 1..l : Fills(n, l)[c][p] =
          {<<i * l + p - 1, (p - 1) * l + i>> : i \in (c * (l \div n))..((c + 1) * (l \div n) - 1)}
  BY DEF Fills, FillPairs
<1>2. FillShared(c, n, l) =
          [p \in 1..l |->
              CopyBlock({<<i * l + p - 1, (p - 1) * l + i>> :
                            i \in (c * (l \div n))..((c + 1) * (l \div n) - 1)})]
  BY DEF FillShared
<1> QED BY <1>1, <1>2, Zenon

LEMMA aeSafe ==
    ASSUME NEW n \in Nat \ {0}, NEW l \in Nat \ {0}, Fits("ae", n, l)
    PROVE  IsSafe("ae", n, l)
<1> DEFINE s == l \div n
           G == Iters(0, l, 4)
           num == G * s
           i(p) == 4 * ((p - 1) \div s)
           x(c) == [p \in 1..num |-> From("T", Store(l, <<c * s + ((p - 1) % s)>>,
                                                   Loop(i(p), i(p) + 4, 4, 4), Loop(0, l, 8, 8)))]
           T == [c \in Threads(n) |-> [p \in 1..num |-> Block(<<x(c)[p]>>, TRUE)]]
<1>1. l % 4 = 0 /\ l <= 32
  BY DEF Fits
<1>2. s \in Nat /\ G \in Nat /\ \A a \in Nat : a < G => 0 + 4 * a < l
  <2>1. 0 \in Int /\ l \in Int /\ 4 \in Nat \ {0}
    OBVIOUS
  <2>2. s \in Nat
    BY NatDivision
  <2> HIDE DEF s
  <2> QED BY <2>1, <2>2, ItersBound
<1>3. num \in Nat
  <2> HIDE DEF s, G
  <2> QED BY <1>2, TimesNat
<1>4. ASSUME NEW c \in Threads(n)
      PROVE  /\ CopiesThen(Kernel("ae", c, n, l), l, Fills(n, l)[c], T[c])
             /\ ProgIn(T[c], num, l, Bands(n, l)[c], 0..(l - 1))
  <2> DEFINE t == [p \in 1..num |-> Block(<<x(c)[p]>>, TRUE)]
  <2>1. Kernel("ae", c, n, l) = FillShared(c, n, l) \o t
    <3>1. Kernel("ae", c, n, l) = ae(c, n, l)
      BY DEF Kernel
    <3> QED BY <3>1 DEF ae
  <2>2. T[c] = t
    OBVIOUS
  <2>3. ASSUME NEW p \in 1..num
        PROVE  TileIn(x(c)[p], l, Bands(n, l)[c], 0..(l - 1))
    <3> DEFINE j == c * s + ((p - 1) % s)
    <3>1. (p - 1) \div s \in 0..(G - 1) /\ (p - 1) % s \in 0..(s - 1)
      <4> HIDE DEF s, G
      <4> QED BY <1>2, LoopPair
    <3>2. j \in Bands(n, l)[c]
      BY <3>1, InBand
    <3>3. x(c)[p] = From("T", Store(l, <<j>>, Loop(i(p), i(p) + 4, 4, 4), Loop(0, l, 8, 8)))
      <4> HIDE DEF num, i
      <4> QED OBVIOUS
    <3>4. i(p) \in Nat /\ i(p) + 4 <= l
      <4> DEFINE a == (p - 1) \div s
      <4>1. a \in Nat /\ a < G
        BY <1>2, <3>1
      <4> HIDE DEF a, G
      <4> QED BY <1>1, <1>2, <4>1 DEF a
    <3> HIDE DEF x, i, j
    <3>5. ToSet(<<j>>) \subseteq Bands(n, l)[c]
      BY <3>2, Few
    <3>6. ToSet(Loop(i(p), i(p) + 4, 4, 4)) \subseteq 0..(l - 1)
      <4>1. i(p) \in Int /\ i(p) + 4 \in Int /\ 4 \in Nat \ {0} /\ ((i(p) + 4) - i(p)) % 4 = 0
        BY <3>4
      <4>2. ToSet(Loop(i(p), i(p) + 4, 4, 4)) \subseteq i(p)..((i(p) + 4) - 1)
        BY <4>1, LoopValues
      <4> QED BY <3>4, <4>2
    <3> QED BY <3>3, <3>5, <3>6, FromIn
  <2> HIDE DEF x, T, num
  <2>4. ProgIn(t, num, l, Bands(n, l)[c], 0..(l - 1))
    BY <1>3, <2>3, MeetEach
  <2>5. t = [p \in 1..num |-> t[p]]
    OBVIOUS
  <2> HIDE DEF t
  <2>6. CopiesThen(Kernel("ae", c, n, l), l, Fills(n, l)[c], t)
    <3>1. l \in Nat
      OBVIOUS
    <3>2. FillShared(c, n, l) = [p \in 1..l |-> CopyBlock(Fills(n, l)[c][p])]
      BY FillIs
    <3>3. CopiesThen([p \in 1..l |-> CopyBlock(Fills(n, l)[c][p])] \o t, l, Fills(n, l)[c], t)
      BY <1>3, <2>5, <3>1, CopyJoin
    <3> QED BY <2>1, <3>2, <3>3
  <2> QED BY <2>2, <2>4, <2>6
<1> HIDE DEF num, T
<1>5. Safe("ae", n, l, l + num)
  BY <1>1, <1>3, <1>4, BandsDivide, FillShares, SafeCopying
<1> QED BY <1>3, <1>5 DEF IsSafe

LEMMA ceSafe ==
    ASSUME NEW n \in Nat \ {0}, Fits("ce", n, 32)
    PROVE  IsSafe("ce", n, 32)
<1> DEFINE s == 32 \div n
           y(c) == [x \in 1..n |-> From("T", Add(32, Share(c, n, 32, 1, 1),
                                                 Loop((x - 1) * s, x * s, 8, 8), Loop(0, 32, 8, 8)))]
           T == [c \in Threads(n) |-> Whole(y(c))]
           R == 0..(32 - 1)
<1>1. s \in Nat /\ s % 1 = 0 /\ s % 8 = 0
  <2> DEFINE q == 32 \div (8 * n)
  <2>1. 8 * n \in Nat \ {0} /\ 32 \in Nat /\ 32 % (8 * n) = 0
    BY DEF Fits
  <2>2. q \in Nat /\ 32 = (8 * n) * q
    BY <2>1, Multiple
  <2> HIDE DEF q
  <2>3. 32 = n * (8 * q) /\ 8 * q \in Int
    BY <2>2, SMT
  <2>4. (n * (8 * q)) \div n = 8 * q
    BY <2>3, Exact
  <2>5. s = 8 * q
    BY <2>3, <2>4
  <2> QED BY <2>2, <2>5
<1>2. 32 \in Nat \ {0} /\ 0 \in Nat /\ 1 \in Nat \ {0} /\ 8 \in Nat \ {0} /\ 32 <= 32
  OBVIOUS
<1>3. Divides(Bands(n, 32), n, 32)
  BY <1>2, BandsDivide
<1>4. ASSUME NEW c \in Threads(n)
      PROVE  /\ CopiesThen(Kernel("ce", c, n, 32), 32, Fills(n, 32)[c], T[c])
             /\ ProgIn(T[c], 0, 32, Bands(n, 32)[c], R)
  <2>1. Kernel("ce", c, n, 32) = FillShared(c, n, 32) \o Whole(y(c))
    <3>1. Kernel("ce", c, n, 32) = ce(c, n, 32)
      BY DEF Kernel
    <3> QED BY <3>1 DEF ce
  <2>2. T[c] = Whole(y(c))
    OBVIOUS
  <2>3. ASSUME NEW x \in 1..n
        PROVE  TileIn(y(c)[x], 32, Bands(n, 32)[c], R)
    <3> DEFINE cols == Loop((x - 1) * s, x * s, 8, 8)
    <3>1. ToSet(Share(c, n, 32, 1, 1)) \subseteq Bands(n, 32)[c]
      BY <1>1, <1>2, ShareValues
    <3>2. x - 1 \in Threads(n) /\ cols = Share(x - 1, n, 32, 8, 8)
      <4>1. x - 1 \in Threads(n) /\ (x - 1) + 1 = x
        BY DEF Threads
      <4> QED BY <4>1 DEF Share
    <3>3. ToSet(cols) \subseteq R
      <4> HIDE DEF cols
      <4>1. ToSet(Share(x - 1, n, 32, 8, 8)) \subseteq Bands(n, 32)[x - 1]
        BY <1>1, <1>2, <3>2, ShareValues
      <4> QED BY <1>3, <3>2, <4>1 DEF Divides
    <3>4. y(c)[x] = From("T", Add(32, Share(c, n, 32, 1, 1), cols, Loop(0, 32, 8, 8)))
      OBVIOUS
    <3> HIDE DEF y, cols, R
    <3> QED BY <3>1, <3>3, <3>4, FromIn
  <2>4. y(c) = [x \in 1..n |-> y(c)[x]] /\ n \in Nat
    OBVIOUS
  <2> DEFINE z == y(c)
  <2> HIDE DEF y, R, T
  <2>5. TilesIn(z, 32, Bands(n, 32)[c], R)
    BY <2>3, <2>4, ManyTiles
  <2>6. ProgIn(Whole(z), 0, 32, Bands(n, 32)[c], R)
    BY <2>5, WholeIn
  <2>7. CopiesThen(Kernel("ce", c, n, 32), 32, Fills(n, 32)[c], Whole(z))
    <3> DEFINE w == Whole(z)
    <3>1. w = [p \in 1..1 |-> w[p]]
      BY DEF Whole
    <3> HIDE DEF w, z
    <3>2. 1 \in Nat /\ 32 \in Nat
      OBVIOUS
    <3>3. FillShared(c, n, 32) = [p \in 1..32 |-> CopyBlock(Fills(n, 32)[c][p])]
      BY <1>2, FillIs
    <3>4. CopiesThen([p \in 1..32 |-> CopyBlock(Fills(n, 32)[c][p])] \o w, 32, Fills(n, 32)[c], w)
      BY <3>1, <3>2, CopyJoin
    <3> QED BY <2>1, <3>3, <3>4 DEF w, z
  <2> QED BY <2>2, <2>6, <2>7
<1> HIDE DEF T
<1>5. Safe("ce", n, 32, 32 + 0)
  BY <1>2, <1>3, <1>4, FillShares, SafeCopying
<1> QED BY <1>5 DEF IsSafe

LEMMA Diagonal ==
    ASSUME NEW S
    PROVE  Firsts({<<i, i>> : i \in S}) = S
<1>1. ASSUME NEW i \in S
      PROVE  i \in Firsts({<<j, j>> : j \in S})
  <2>1. <<i, i>> \in {<<j, j>> : j \in S} /\ <<i, i>>[1] = i
    OBVIOUS
  <2> QED BY <2>1 DEF Firsts
<1>2. ASSUME NEW i \in Firsts({<<j, j>> : j \in S})
      PROVE  i \in S
  <2>1. PICK x \in {<<j, j>> : j \in S} : i = x[1]
    BY <1>2 DEF Firsts
  <2>2. PICK j \in S : x = <<j, j>>
    BY <2>1
  <2> QED BY <2>1, <2>2
<1> QED BY <1>1, <1>2

LEMMA TwoSteps ==
    ASSUME NEW a, NEW b, NEW P, a = CopyBlock(P[1])
    PROVE  CopiesThen(<<a, b>>, 1, P, <<b>>)
<1>1. Len(<<b>>) = 1 /\ Len(<<a, b>>) = 1 + 1 /\ <<a, b>>[1] = a /\ <<a, b>>[1 + 1] = <<b>>[1]
  OBVIOUS
<1>2. \A p \in 1..1 : p = 1
  OBVIOUS
<1>3. \A p \in 1..1 : <<a, b>>[p] = CopyBlock(P[p])
  BY <1>1, <1>2
<1>4. \A p \in 1..Len(<<b>>) : <<a, b>>[1 + p] = <<b>>[p]
  BY <1>1, <1>2
<1>5. Len(<<b>>) \in Nat
  BY <1>1
<1> QED BY <1>1, <1>3, <1>4, <1>5 DEF CopiesThen

\* dm has a core copy the part of the other; two cores then do the work.
LEMMA dmSafe ==
    ASSUME NEW n \in Nat \ {0}, NEW l \in Nat \ {0}, Fits("dm", n, l)
    PROVE  IsSafe("dm", n, l)
<1> DEFINE cut == (l * l) \div n
           mine(c) == IF c = n - 1 THEN 0..(cut - 1) ELSE cut..(l * l - 1)
           pairs(c) == {<<i, i>> : i \in mine(c)}
           tile(c) == Add(l, RoundedRows(c, n, l), Loop(0, (l \div 4) * 4, 4, 4), Range1(0, l))
           own(c) == IF c = n - 1 THEN From("S", tile(c)) ELSE tile(c)
           P == [c \in Threads(n) |-> <<pairs(c)>>]
           T == [c \in Threads(n) |-> Whole(<<own(c)>>)]
<1>1. l % 4 = 0 /\ l <= 32 /\ (l \div n) % 4 = 0 /\ n <= 2
  BY DEF Fits
<1>2. l * l \in Nat /\ cut \in Nat /\ cut <= l * l
  <2> DEFINE e == l * l
  <2>1. e \in Nat
    BY TimesNat
  <2> HIDE DEF e
  <2>2. e \div n \in Nat /\ n * (e \div n) <= e
    BY <2>1, NatDivision
  <2> DEFINE d == e \div n
  <2>3. 1 * d <= n * d /\ n * d \in Int
    <3> HIDE DEF d
    <3>1. d \in Nat
      BY <2>2 DEF d
    <3> QED BY <3>1, SMT
  <2>4. d <= e
    <3> HIDE DEF d
    <3> QED BY <2>1, <2>2, <2>3 DEF d
  <2> QED BY <2>1, <2>2, <2>4 DEF e
<1>3. ASSUME NEW c \in Threads(n)
      PROVE  Firsts(P[c][1]) = mine(c)
  <2>1. P[c][1] = pairs(c)
    OBVIOUS
  <2> HIDE DEF mine, P
  <2> QED BY <2>1, Diagonal
<1>4. ASSUME NEW c \in Threads(n)
      PROVE  Firsts(P[c][1]) \subseteq 0..(CopySize - 1)
  <2>1. mine(c) \subseteq 0..(l * l - 1)
    <3> HIDE DEF cut
    <3> QED BY <1>2
  <2> HIDE DEF mine, P
  <2> QED BY <1>1, <1>3, <2>1, CopyHolds
<1>5. ASSUME NEW c \in Threads(n), NEW d \in Threads(n), c # d
      PROVE  Firsts(P[c][1]) \cap Firsts(P[d][1]) = {}
  <2>1. c = n - 1 <=> d # n - 1
    BY <1>1, <1>5 DEF Threads
  <2>2. mine(c) \cap mine(d) = {}
    <3> HIDE DEF cut
    <3> QED BY <1>2, <2>1
  <2> HIDE DEF mine, P
  <2> QED BY <1>3, <2>2
<1>6. ASSUME NEW c \in Threads(n)
      PROVE  /\ CopiesThen(Kernel("dm", c, n, l), 1, P[c], T[c])
             /\ ProgIn(T[c], 0, l, Lasts(n, l)[c], 0..(l - 1))
  <2>1. Kernel("dm", c, n, l) = <<CopyBlock(pairs(c)), Block(<<own(c)>>, FALSE)>>
    <3>1. Kernel("dm", c, n, l) = dm(c, n, l)
      BY DEF Kernel
    <3> QED BY <3>1 DEF dm
  <2>2. T[c] = Whole(<<own(c)>>) /\ P[c] = <<pairs(c)>>
    OBVIOUS
  <2>3. TileIn(own(c), l, Lasts(n, l)[c], 0..(l - 1))
    <3>1. (l \div 4) * 4 = l
      BY <1>1
    <3>2. ToSet(RoundedRows(c, n, l)) \subseteq Lasts(n, l)[c]
      BY <1>1, RoundedValues
    <3>3. ToSet(Loop(0, (l \div 4) * 4, 4, 4)) \subseteq 0..(l - 1)
      BY <1>1, <3>1, FromZero
    <3> QED BY <3>2, <3>3, AddIn, FromIn
  <2> HIDE DEF own, pairs, P, T
  <2>4. ProgIn(Whole(<<own(c)>>), 0, l, Lasts(n, l)[c], 0..(l - 1))
    BY <2>3, OneTile, WholeIn
  <2>5. CopiesThen(Kernel("dm", c, n, l), 1, P[c], Whole(<<own(c)>>))
    <3>1. Whole(<<own(c)>>) = <<Block(<<own(c)>>, FALSE)>>
      BY DEF Whole
    <3>2. CopyBlock(pairs(c)) = CopyBlock(P[c][1])
      BY <2>2
    <3> DEFINE b == Block(<<own(c)>>, FALSE)
    <3> HIDE DEF b
    <3>3. CopiesThen(<<CopyBlock(pairs(c)), b>>, 1, P[c], <<b>>)
      BY <3>2, TwoSteps
    <3> QED BY <2>1, <3>1, <3>3 DEF b
  <2> QED BY <2>2, <2>4, <2>5
<1>7. \A p \in 1..1 : p = 1
  OBVIOUS
<1> HIDE DEF P, T
<1>8. 1 \in Nat /\ 0 \in Nat /\ Divides(Lasts(n, l), n, l)
  BY LastsDivide
<1>9. \A c \in Threads(n), p \in 1..1 : Firsts(P[c][p]) \subseteq 0..(CopySize - 1)
  BY <1>4, <1>7
<1>10. \A c, d \in Threads(n), p \in 1..1 :
           c # d => Firsts(P[c][p]) \cap Firsts(P[d][p]) = {}
  BY <1>5, <1>7
<1> DEFINE num == 1
<1>11. num \in Nat /\ num + 0 = 1 + 0
  OBVIOUS
<1>12. Safe("dm", n, l, num + 0)
  <2>1. \A c \in Threads(n), p \in 1..num : Firsts(P[c][p]) \subseteq 0..(CopySize - 1)
    BY <1>9
  <2>2. \A c, d \in Threads(n), p \in 1..num :
            c # d => Firsts(P[c][p]) \cap Firsts(P[d][p]) = {}
    BY <1>10
  <2>3. \A c \in Threads(n) : /\ CopiesThen(Kernel("dm", c, n, l), num, P[c], T[c])
                               /\ ProgIn(T[c], 0, l, Lasts(n, l)[c], 0..(l - 1))
    BY <1>6
  <2>4. 0 \in Nat /\ num \in Nat
    OBVIOUS
  <2> HIDE DEF num
  <2> QED BY <1>8, <2>1, <2>2, <2>3, <2>4, SafeCopying
<1> QED BY <1>12 DEF IsSafe

-----------------------------------------------------------------------------
LEMMA BuiltIn ==
    ASSUME NEW k \in Only32, NEW n \in Nat \ {0}, NEW l \in Nat \ {0}, Fits(k, n, l)
    PROVE  l = 32
  BY DEF Fits

\* Every kernel divides its work so that what the cores do between two barriers
\* is independent, on every number of cores and for every dimension it is for.
LEMMA EveryKernelSafe ==
    ASSUME NEW k \in KernelNames, NEW n \in Nat \ {0}, NEW l \in Nat \ {0}, Fits(k, n, l)
    PROVE  IsSafe(k, n, l)
<1>1. CASE k \in {"al", "bf", "bk", "bo", "cl", "df", "dv", "ad"}
  <2>1. l = 32
    BY <1>1, BuiltIn DEF Only32
  <2> QED BY <1>1, <2>1, alSafe, bfSafe, bkSafe, boSafe, clSafe, dfSafe, dvSafe, adSafe
<1>2. CASE k \in {"av", "cv"} \cup {"ay", "az", "cy"} \cup {"br", "dr"} \cup {"ce"}
  <2>1. l = 32
    BY <1>2, BuiltIn DEF Only32
  <2> QED BY <1>2, <2>1, avSafe, aySafe, brSafe, ceSafe
<1>3. CASE k \in {"cf", "cm"}
  <2>1. l = 32 /\ n = 1
    BY <1>3, BuiltIn DEF Only32, Fits
  <2> QED BY <1>3, <2>1, cfSafe
<1>4. CASE k \in {"bb", "do", "af", "ap", "ar", "at", "bm", "aq", "bs", "ds"}
  BY <1>4, bbSafe, doSafe, afSafe, apSafe, arSafe, atSafe, bmSafe, aqSafe, bsSafe, dsSafe
<1>5. CASE k \in {"an", "cs", "ak", "ck", "ae", "dm"}
  BY <1>5, anSafe, csSafe, akSafe, ckSafe, aeSafe, dmSafe
<1>6. CASE k \in {"am", "du"} \cup {"ai", "ci"} \cup {"bh", "bj"} \cup {"bc", "dc"} \cup {"ag", "cg"}
  BY <1>6, amSafe, aiSafe, bhSafe, bcSafe, agSafe
<1> QED BY <1>1, <1>2, <1>3, <1>4, <1>5, <1>6 DEF KernelNames

LEMMA SpmdStart == SpmdInit => SInv
<1> SUFFICES ASSUME SpmdInit PROVE SInv
  OBVIOUS
<1>1. PICK inst \in Instances :
          /\ kern = inst[1] /\ ncores = inst[2] /\ lda = inst[3]
          /\ BarrierInit(inst[2])
          /\ ip = [t \in Threads(inst[2]) |-> 1]
          /\ loc = [t \in Threads(inst[2]) |-> "block"]
  BY DEF SpmdInit
<1> DEFINE k == inst[1]
           n == inst[2]
           l == inst[3]
<1>2. inst = <<k, n, l>> /\ Fits(k, n, l)
  <2>1. inst \in KernelNames \X Nat \X Nat
    BY InstancesAssumption
  <2> QED BY <2>1, InstancesAssumption
<1>3. k \in KernelNames /\ n \in Nat \ {0} /\ l \in Nat \ {0}
  BY <1>2 DEF Fits
<1>4. kern = k /\ ncores = n /\ lda = l /\ <<k, n, l>> \in Instances
  BY <1>1, <1>2
<1>5. /\ BarrierInit(n)
      /\ ip = [t \in Threads(n) |-> 1] /\ loc = [t \in Threads(n) |-> "block"]
  BY <1>1
<1> HIDE DEF k, n, l
<1>6. PICK m \in Nat : Safe(k, n, l, m)
  BY <1>2, <1>3, EveryKernelSafe DEF IsSafe
<1>7. BInv(n)
  BY <1>3, <1>5, InitHolds
<1>8. ASSUME NEW t \in Threads(n)
      PROVE  Place(t, Len(Kernel(k, t, n, l)), m)
  <2> DEFINE len == Len(Kernel(k, t, n, l))
  <2>1. len \in Nat
    BY <1>6 DEF Safe, Meets
  <2>2. ip[t] = 1 /\ loc[t] = "block" /\ pc[t] = "out" /\ round[t] = 0
    BY <1>5 DEF BarrierInit
  <2> HIDE DEF len
  <2>3. Place(t, len, m)
    BY <2>1, <2>2 DEF Place, Meetings, Phase
  <2> QED BY <2>3 DEF len
<1>9. Running(k, n, l, m)
  BY <1>4, <1>5, <1>7, <1>8 DEF Running, Places
<1> QED BY <1>3, <1>4, <1>6, <1>9 DEF SInv

\* The inductive invariant: the cores of an instance are where their programs
\* and the barrier put them, and the instance is one whose work is divided.
THEOREM SpmdInvariant == SpmdSpec => []SInv
<1>1. SInv /\ [SpmdNext]_vars => SInv'
  BY SpmdStep
<1> QED BY SpmdStart, <1>1, PTL DEF SpmdSpec

\* For every kernel, every number of cores and every dimension that the kernel
\* is for, no core leaves results_data or the shared copy (mt-matmul.c:49).
THEOREM SpmdInBounds == SpmdSpec => []InBounds
  BY SpmdInvariant, BoundsFromInv, PTL

\* Between two barriers no core writes what another one writes or reads: the
\* plain loads and stores of the kernels of mt never race.
THEOREM SpmdNoRace == SpmdSpec => []NoRace
  BY SpmdInvariant, NoRaceFromInv, PTL

\* Nor does a core leave a barrier of a kernel, or the one of thread_entry,
\* before the others have come to it (util.h:46-65, mt-matmul.c:52).
THEOREM SpmdNobodyEarly == SpmdSpec => []NobodyEarly
<1>1. SInv => NobodyEarly
  <2> SUFFICES ASSUME SInv PROVE NobodyEarly
    OBVIOUS
  <2>1. PICK n \in Nat \ {0} : BInv(n)
    BY DEF SInv, Running
  <2> QED BY <2>1, EarlyFromInv
<1> QED BY SpmdInvariant, <1>1, PTL

\* When a core verifies the results or has exited, every core has left its
\* kernel (mt-matmul.c:51-54).
THEOREM ResultsFinal == SpmdSpec => []Final
  BY SpmdInvariant, FinalFromInv, PTL

\* From then on nobody writes C: the results that the cores verify, one after
\* the other, are the same.
THEOREM ResultsStay ==
    SpmdSpec => [][(\E t \in Cores : loc[t] \in {"verify", "exited"}) => C' = C]_vars
<1>1. ASSUME SInv, Final, SpmdNext, NEW t \in Cores, loc[t] \in {"verify", "exited"}
      PROVE  C' = C
  <2>1. CASE AllExited
    BY <2>1 DEF AllExited, vars, svars
  <2>2. CASE \E u \in Cores : Core(u)
    <3>1. PICK u \in Cores : Core(u)
      BY <2>2
    <3>2. ~StoreBlock(u)
      <4>1. PICK k \in KernelNames, n \in Nat \ {0}, l \in Nat \ {0}, m \in Nat :
                <<k, n, l>> \in Instances /\ Safe(k, n, l, m) /\ Running(k, n, l, m)
        BY <1>1 DEF SInv
      <4>2. u \in Threads(n) /\ Program(u) = Kernel(k, u, n, l)
        BY <4>1, ProgramIs DEF Running, Cores
      <4>3. Len(Program(u)) \in Nat /\ Place(u, Len(Program(u)), m)
        BY <4>1, <4>2 DEF Running, Safe, Meets
      <4>4. ip[u] = Len(Program(u)) + 2
        BY <1>1 DEF Final
      <4>5. loc[u] # "store"
        BY <4>3, <4>4 DEF Place
      <4> QED BY <4>5 DEF StoreBlock, Moves
    <3> QED BY <3>1, <3>2 DEF Core, Load, Return, Wait, Open, Resume, Exit, svars
  <2> QED BY <1>1, <2>1, <2>2 DEF SpmdNext
<1>2. (SInv /\ Final /\ [SpmdNext]_vars) =>
          [(\E t \in Cores : loc[t] \in {"verify", "exited"}) => C' = C]_vars
  BY <1>1
<1> QED BY SpmdInvariant, ResultsFinal, <1>2, PTL DEF SpmdSpec
=============================================================================
