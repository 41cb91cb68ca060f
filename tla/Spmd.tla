-------------------------------- MODULE Spmd --------------------------------
(***************************************************************************)
(* The program that runs a kernel of riscv-tests/mt: thread_entry of       *)
(* benchmarks/mt-matmul/mt-matmul.c on every core, the kernel linked with  *)
(* it (MtKernels), the barrier (Barrier) and verify of common/util.h.  The *)
(* instance (kernel, cores, dimension) is chosen by Init and stays.        *)
(*                                                                         *)
(* A block of a kernel takes two steps, in which it loads what it          *)
(* accumulates on and then stores, so that two cores that accumulate on    *)
(* one element can lose an update.  What a block does to one element of C  *)
(* does not depend on the others, so values are kept only for the elements *)
(* Watched(lda), some in every row and column; bounds and races are about  *)
(* all elements.                                                           *)
(***************************************************************************)
EXTENDS Barrier, MtKernels, SequencesExt

CONSTANT Instances     \* the <<kernel, cores, dimension>> to run

ASSUME InstancesAssumption ==
    /\ Instances \subseteq KernelNames \X Nat \X Nat
    /\ \A inst \in Instances : Fits(inst[1], inst[2], inst[3])

VARIABLES kern, ncores, lda,   \* the instance
          C,                   \* results_data, shared
          copy,                \* the kernel's shared copy of B
          ip,                  \* the block a core executes
          loc,                  \* where in thread_entry it is
          loaded,              \* what it has loaded
          res                  \* what it passes to exit

svars == <<kern, ncores, lda, C, copy, ip, loc, loaded, res>>
vars == <<bvars, svars>>

\* input1_data and input2_data: any numbers without a pattern will do.
A == [i \in 0..1023 |-> ((5 * i + (i \div 7)) % 13) + 1]
B == [i \in 0..1023 |-> ((7 * i + (i \div 5)) % 11) + 1]

SumOf(s) ==
    LET sum[p \in 0..Len(s)] == IF p = 0 THEN 0 ELSE sum[p - 1] + s[p]
    IN  sum[Len(s)]

\* The kernels with a shared copy of B, and its elements.
Copying == {"ae", "ce", "dm"}
CopySize == 1024
Cores == Threads(ncores)
Size == lda * lda

\* The instances' programs, and the products their data has.
Programs == [inst \in Instances |->
                [t \in Threads(inst[2]) |-> Kernel(inst[1], t, inst[2], inst[3])]]
Program(t) == Programs[<<kern, ncores, lda>>][t]

Watched(l) == {e \in 0..(l * l - 1) : ((e \div l) + (e % l)) % 8 = 0}

Products ==
    [l \in {inst[3] : inst \in Instances} |->
        [e \in Watched(l) |->
            SumOf([k \in 1..l |-> A[(e \div l) * l + k - 1] * B[(k - 1) * l + (e % l)]])]]

\* What one tile leaves in the array D.  A row or column that the loops visit
\* twice adds twice.
Apply(tile, D) ==
    LET rows == ToSet(tile.rows)
        cols == ToSet(tile.cols)
        visits(s, x) == Cardinality({p \in DOMAIN s : s[p] = x})
        b(k, i) == CASE tile.from = "B" -> B[k * tile.sb + i]
                     [] tile.from = "S" -> copy[k * tile.sb + i]
                     [] tile.from = "T" -> copy[i * tile.sb + k]
        dot(r, i) == SumOf([p \in DOMAIN tile.ks |->
                               A[r * tile.sa + tile.ks[p]] * b(tile.ks[p], i)])
        row(e) == {r \in rows : e - r * tile.sc \in cols}
    IN  [e \in DOMAIN D |->
            IF row(e) = {} THEN D[e]
            ELSE LET r == CHOOSE x \in row(e) : TRUE
                     i == e - r * tile.sc
                 IN  IF tile.acc
                     THEN D[e] + visits(tile.rows, r) * visits(tile.cols, i) * dot(r, i)
                     ELSE dot(r, i)]

Effect(tiles, D) ==
    LET after[p \in 0..Len(tiles)] == IF p = 0 THEN D ELSE Apply(tiles[p], after[p - 1])
    IN  after[Len(tiles)]

\* The elements of C that a block writes, in bounds or not.
Written(block) ==
    UNION {{r * tile.sc + i : r \in ToSet(tile.rows), i \in ToSet(tile.cols)} :
              tile \in ToSet(block.tiles)}

Copied(block) == {p[1] : p \in block.copy}
ReadsCopy(block) == \E tile \in ToSet(block.tiles) : tile.from # "B"

\* verify: one more than the first index at which the results are wrong.
verify ==
    LET wrong == {e \in DOMAIN C : C[e] # Products[lda][e]}
    IN  IF wrong = {} THEN 0 ELSE 1 + CHOOSE e \in wrong : \A f \in wrong : e <= f

-----------------------------------------------------------------------------
SpmdInit ==
    \E inst \in Instances :
        /\ kern = inst[1] /\ ncores = inst[2] /\ lda = inst[3]
        /\ BarrierInit(inst[2])
        /\ C = [e \in Watched(inst[3]) |-> 0]
        /\ copy = [e \in IF inst[1] \in Copying THEN 0..(CopySize - 1) ELSE {} |-> 0]
        /\ ip = [t \in Threads(inst[2]) |-> 1]
        /\ loc = [t \in Threads(inst[2]) |-> "block"]
        /\ loaded = [t \in Threads(inst[2]) |-> <<>>]
        /\ res = [t \in Threads(inst[2]) |-> -1]

Moves(t, here, there) == loc[t] = here /\ loc' = [loc EXCEPT ![t] = there]
Fixed == UNCHANGED <<kern, ncores, lda>>
Alone == UNCHANGED bvars

\* The loads of the block at ip.
Load(t) ==
    /\ Moves(t, "block", "store")
    /\ ip[t] <= Len(Program(t))
    /\ loaded' = [loaded EXCEPT ![t] = C]
    /\ Alone /\ Fixed /\ UNCHANGED <<C, copy, ip, res>>

\* Its computation and its stores; the barrier comes next if the block asks.
StoreBlock(t) ==
    LET block == Program(t)[ip[t]]
        D == Effect(block.tiles, loaded[t])
        written == Written(block)
        new(i) == B[(CHOOSE p \in block.copy : p[1] = i)[2]]
    IN  /\ Moves(t, "store", IF block.bar THEN "barrier" ELSE "block")
        /\ C' = [e \in DOMAIN C |-> IF e \in written THEN D[e] ELSE C[e]]
        /\ copy' = [i \in DOMAIN copy |-> IF i \in Copied(block) THEN new(i) ELSE copy[i]]
        /\ ip' = [ip EXCEPT ![t] = ip[t] + 1]
        /\ loaded' = [loaded EXCEPT ![t] = <<>>]
        /\ Alone /\ Fixed /\ UNCHANGED res

\* mutant: thread_entry does not wait for the other cores
Return_no_barrier(t) ==
    /\ Moves(t, "block", "verify")
    /\ ip[t] = Len(Program(t)) + 1
    /\ ip' = [ip EXCEPT ![t] = ip[t] + 1]
    /\ Alone /\ Fixed /\ UNCHANGED <<C, copy, loaded, res>>

\* The kernel returns: thread_entry goes to its barrier.
Return(t) ==
    /\ Moves(t, "block", "barrier")
    /\ ip[t] = Len(Program(t)) + 1
    /\ ip' = [ip EXCEPT ![t] = ip[t] + 1]
    /\ Alone /\ Fixed /\ UNCHANGED <<C, copy, loaded, res>>

Wait(t) ==
    /\ Moves(t, "barrier", "waiting")
    /\ Arrive(t, ncores)
    /\ Fixed /\ UNCHANGED <<C, copy, ip, loaded, res>>

Open(t) ==
    /\ Reset(t)
    /\ UNCHANGED svars

\* Leaving the barrier, back in the kernel or in thread_entry.
Resume(t) ==
    /\ Moves(t, "waiting", IF ip[t] > Len(Program(t)) + 1 THEN "verify" ELSE "block")
    /\ Release(t) \/ Leave(t)
    /\ Fixed /\ UNCHANGED <<C, copy, ip, loaded, res>>

\* exit(verify(...))
Exit(t) ==
    /\ Moves(t, "verify", "exited")
    /\ res' = [res EXCEPT ![t] = verify]
    /\ Alone /\ Fixed /\ UNCHANGED <<C, copy, ip, loaded>>

AllExited == (\A t \in Cores : loc[t] = "exited") /\ UNCHANGED vars

Core(t) ==
    \/ Load(t) \/ StoreBlock(t) \/ Return(t) \/ Wait(t)
    \/ Open(t) \/ Resume(t) \/ Exit(t)

SpmdNext == (\E t \in Cores : Core(t)) \/ AllExited

SpmdSpec == SpmdInit /\ [][SpmdNext]_vars

-----------------------------------------------------------------------------
Working(t) == loc[t] \in {"block", "store"} /\ ip[t] <= Len(Program(t))
BlockOf(t) == Program(t)[ip[t]]

\* A kernel stays inside results_data (mt-matmul.c:49) and its copy of B.
InBounds ==
    \A t \in Cores : Working(t) =>
        /\ Written(BlockOf(t)) \subseteq 0..(Size - 1)
        /\ Copied(BlockOf(t)) \subseteq 0..(CopySize - 1)

\* Between two barriers no core writes what another writes or reads: the
\* division of the work, and the barriers inside the kernels, are what makes
\* the plain loads and stores of C and of the copies safe.
NoRace ==
    \A t, u \in Cores : (t # u /\ Working(t) /\ Working(u)) =>
        /\ Written(BlockOf(t)) \cap Written(BlockOf(u)) = {}
        /\ Copied(BlockOf(t)) \cap Copied(BlockOf(u)) = {}
        /\ ReadsCopy(BlockOf(t)) => BlockOf(u).copy = {}

\* Every core that exits has found all results right (mt-matmul.c:51-55): the
\* final barrier keeps it from looking before the slowest core is done.
ExitsZero == \A t \in Cores : loc[t] = "exited" => res[t] = 0
=============================================================================
