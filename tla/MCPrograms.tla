----------------------------- MODULE MCPrograms -----------------------------
(***************************************************************************)
(* The programs of riscv-tests that run on the processor, one at a time:   *)
(* the kernels of mt on one and on two cores, the allocator of the debug   *)
(* programs, and a test under the virtual-memory environment.  Init        *)
(* chooses the program; the state of the others stays as it is.            *)
(***************************************************************************)
EXTENDS Spmd, TinyMalloc, VmEnv

VARIABLE program

\* Kernels that follow lda, run on the dimension of dataset.h (DIM_SIZE 16).
AnyDim == {"ae", "ag", "ai", "ak", "an", "ap", "aq", "ar", "bb", "bc", "bh", "bj", "bm", "bs",
           "cg", "ci", "ck", "cs", "dc", "dm", "ds"}

\* cf and cm divide the summation index and are right on one core only.
Alone32 == {"cf", "cm"}

RightInstances ==
    {<<k, n, 16>> : k \in AnyDim, n \in {1, 2}}
    \cup {<<k, n, 32>> : k \in Only32 \ Alone32, n \in {1, 2}}
    \cup {<<k, 1, 32>> : k \in Alone32}
    \cup {<<"bb", 4, 16>>, <<"ai", 4, 16>>, <<"bc", 2, 32>>, <<"dc", 2, 32>>}

\* One instance, at rest, while another program runs.
Resting == CHOOSE inst \in RightInstances : inst[1] = "ap" /\ inst[2] = 1

MCInit ==
    /\ program \in {"mt", "malloc", "vm"}
    /\ SpmdInit /\ MallocInit /\ VmInit
    /\ program # "mt" => <<kern, ncores, lda>> = Resting
    /\ program # "vm" => naddr[freelist_head] = 1

VmEnds == running \in {"end", "assert"} /\ UNCHANGED vmvars

MCNext ==
    /\ UNCHANGED program
    /\ \/ program = "mt" /\ SpmdNext /\ UNCHANGED <<heap, vmvars>>
       \/ program = "malloc" /\ MallocNext /\ UNCHANGED <<vars, vmvars>>
       \/ program = "vm" /\ (VmNext \/ VmEnds) /\ UNCHANGED <<vars, heap>>

MCSpec == MCInit /\ [][MCNext]_<<program, vars, heap, vmvars>>
=============================================================================
