------------------------------ MODULE Barrier ------------------------------
(***************************************************************************)
(* The barrier of riscv-tests/benchmarks/common/util.h, which the programs *)
(* of riscv-tests/mt call: a counter, a shared sense and a sense of every  *)
(* thread.  A thread that arrives flips its own sense and adds one to the  *)
(* counter; the last one clears the counter and then copies its sense to   *)
(* the shared one, for which the others spin.                              *)
(*                                                                         *)
(* Flipping the sense touches nothing shared and goes with the atomic add; *)
(* the two stores of the last thread are steps of their own, in program    *)
(* order.  round and gen are history variables: how often a thread has     *)
(* entered the barrier and how often the barrier has opened.               *)
(***************************************************************************)
EXTENDS Integers, FiniteSets

CONSTANTS N,           \* threads, and what they pass as ncores
          MaxRounds    \* how often a thread comes back, at most

ASSUME NAssumption == N \in Nat \ {0}
ASSUME MaxRoundsAssumption == MaxRounds \in Nat

VARIABLES sense, count,   \* static volatile int sense, count
          threadsense,    \* static __thread int threadsense
          pc,             \* where a thread is: outside, or at a statement
          round, gen

bvars == <<sense, count, threadsense, pc, round, gen>>

Threads(n) == 0..(n - 1)

BarrierInit(n) ==
    /\ sense = FALSE
    /\ count = 0
    /\ threadsense = [t \in Threads(n) |-> FALSE]
    /\ pc = [t \in Threads(n) |-> "out"]
    /\ round = [t \in Threads(n) |-> 0]
    /\ gen = 0

\* mutant: the thread's sense is not flipped
Arrive_no_flip(t, n) ==
    /\ pc[t] = "out"
    /\ count' = count + 1
    /\ pc' = [pc EXCEPT ![t] = IF count = n - 1 THEN "reset" ELSE "spin"]
    /\ round' = [round EXCEPT ![t] = round[t] + 1]
    /\ UNCHANGED <<sense, threadsense, gen>>

\* threadsense = !threadsense; __sync_fetch_and_add(&count, 1) == ncores-1
Arrive(t, n) ==
    /\ pc[t] = "out"
    /\ threadsense' = [threadsense EXCEPT ![t] = ~threadsense[t]]
    /\ count' = count + 1
    /\ pc' = [pc EXCEPT ![t] = IF count = n - 1 THEN "reset" ELSE "spin"]
    /\ round' = [round EXCEPT ![t] = round[t] + 1]
    /\ UNCHANGED <<sense, gen>>

\* count = 0
Reset(t) ==
    /\ pc[t] = "reset"
    /\ count' = 0
    /\ pc' = [pc EXCEPT ![t] = "release"]
    /\ UNCHANGED <<sense, threadsense, round, gen>>

\* sense = threadsense
Release(t) ==
    /\ pc[t] = "release"
    /\ sense' = threadsense[t]
    /\ pc' = [pc EXCEPT ![t] = "out"]
    /\ gen' = gen + 1
    /\ UNCHANGED <<count, threadsense, round>>

\* while(sense != threadsense);
Leave(t) ==
    /\ pc[t] = "spin"
    /\ sense = threadsense[t]
    /\ pc' = [pc EXCEPT ![t] = "out"]
    /\ UNCHANGED <<sense, count, threadsense, round, gen>>

-----------------------------------------------------------------------------
\* The barrier on its own: N threads that come back at most MaxRounds times.
Init == BarrierInit(N)

Enter(t) == round[t] < MaxRounds /\ Arrive(t, N)

Step(t) == Enter(t) \/ Reset(t) \/ Release(t) \/ Leave(t)

Next == \E t \in Threads(N) : Step(t)

Spec == Init /\ [][Next]_bvars

-----------------------------------------------------------------------------
\* With n threads every variable stays within its type.
BarrierTypes(n) ==
    /\ sense \in BOOLEAN
    /\ count \in Nat
    /\ threadsense \in [Threads(n) -> BOOLEAN]
    /\ pc \in [Threads(n) -> {"out", "spin", "reset", "release"}]
    /\ round \in [Threads(n) -> Nat]
    /\ gen \in Nat

\* Nobody leaves a barrier that somebody still has to enter (util.h:46-65).
\* The threads are those that round has, whatever their number.
NobodyEarly ==
    \A t, u \in DOMAIN round : pc[t] = "out" => round[t] <= round[u]
=============================================================================
