------------------------------- MODULE VmEnv -------------------------------
(***************************************************************************)
(* The virtual-memory environment of riscv-tests/env/v/vm.c, in which a    *)
(* test runs as a user program whose pages are brought in on demand:       *)
(* vm_boot, handle_fault, evict and the end of the test, under a processor *)
(* that translates through a table and a TLB.                              *)
(*                                                                         *)
(* A page is one value.  kva is the program as it was loaded, which the    *)
(* kernel reaches through uva2kva; frame holds the pages mapped so far,    *)
(* named by the number of the page behind DRAM_BASE + MAX_TEST_PAGES.  The *)
(* processor may keep or drop any translation, and may either fault on a   *)
(* clear accessed or dirty bit or set it itself.  The second hart only     *)
(* adds zero to memory (coherence_torture) and is left out.                *)
(***************************************************************************)
EXTENDS Integers, Sequences, FiniteSets

CONSTANTS LFSR_BITS,   \* 6 in riscv_test.h
          Values       \* what a page can hold

MAX_TEST_PAGES == 2^LFSR_BITS - 1

\* Pages of the test; page 0 stays unmapped.
Pages == 1..(MAX_TEST_PAGES - 1)
Frames == 1..MAX_TEST_PAGES
Kinds == {"fetch", "load", "store"}

VARIABLES user_l3pt,      \* page -> entry
          naddr, nnext,   \* the nodes of the free list and of user_mapping
          freelist_head, freelist_tail,
          frame, kva,     \* memory
          tlb,            \* the translations the processor keeps
          access,         \* the access under way, a fault included
          running,        \* "user", "fault", "assert" or "end"
          umem            \* history: what the program has in memory

vmvars == <<user_l3pt, naddr, nnext, freelist_head, freelist_tail, frame, kva, tlb,
            access, running, umem>>

NoPte == [v |-> FALSE, ppn |-> 0, a |-> FALSE, d |-> FALSE]
Pte(f, bits) == [v |-> TRUE, ppn |-> f, a |-> bits, d |-> bits]
NoAccess == [page |-> 0, kind |-> "load", val |-> 0]

FreeNode(i) == <<"free", i>>
MapNode(p) == <<"map", p>>
NoNode == <<"null", 0>>
Nodes == {FreeNode(i) : i \in Frames} \cup {MapNode(p) : p \in Pages}

\* A shift register of LFSR_BITS bits; x ^ (x >> 1) of the last bit.
LFSR_NEXT(x) ==
    LET bit == (x + (x \div 2)) % 2
    IN  bit * 2^(LFSR_BITS - 1) + (x \div 2)

\* The addresses in the free list, from a random start.
Lfsr(start) == LET f[i \in Frames] == IF i = 1 THEN start ELSE LFSR_NEXT(f[i - 1]) IN f

\* MAX_TEST_PAGES "must be the period of the LFSR" (riscv_test.h:43): as many
\* steps from any start give as many addresses.
ASSUME VmAssumption ==
    /\ MAX_TEST_PAGES \in Nat \ {0}
    /\ \A start, i \in Frames : Lfsr(start)[i] \in Frames
    /\ \A start, i, j \in Frames : Lfsr(start)[i] = Lfsr(start)[j] => i = j

vm_boot(start) ==
    /\ user_l3pt = [p \in Pages |-> NoPte]
    /\ naddr = [x \in Nodes |-> IF x[1] = "free" THEN Lfsr(start)[x[2]] ELSE 0]
    /\ nnext = [x \in Nodes |-> IF x[1] = "free" /\ x[2] < MAX_TEST_PAGES
                                THEN FreeNode(x[2] + 1) ELSE NoNode]
    /\ freelist_head = FreeNode(1)
    /\ freelist_tail = FreeNode(MAX_TEST_PAGES)

VmInit ==
    /\ \E start \in Frames : vm_boot(start)
    /\ kva = [p \in Pages |-> 0]
    /\ frame = [f \in Frames |-> 0]
    /\ tlb = {}
    /\ access = NoAccess
    /\ running = "user"
    /\ umem = kva

-----------------------------------------------------------------------------
Cached(p, pte) == [page |-> p, pte |-> pte]

\* mutant: no flush
flush_page_none(t, p) == t

\* sfence.vma for a page.
flush_page(t, p) == {e \in t : e.page # p}

Allows(pte, kind) == pte.v /\ pte.a /\ (kind = "store" => pte.d)

\* The entries the processor may use for a page: a kept one, or the table's.
Usable(p) == {e.pte : e \in {x \in tlb : x.page = p}} \cup {user_l3pt[p]}

Request(p, kind, val) ==
    /\ running = "user" /\ access = NoAccess
    /\ access' = [page |-> p, kind |-> kind, val |-> val]
    /\ UNCHANGED <<user_l3pt, naddr, nnext, freelist_head, freelist_tail, frame, kva, tlb,
                   running, umem>>

\* The access goes through one of the usable entries.
Complete ==
    LET p == access.page
    IN  /\ running = "user" /\ access # NoAccess
        /\ \E pte \in Usable(p) :
              /\ Allows(pte, access.kind)
              /\ tlb' = tlb \cup {Cached(p, pte)}
              /\ frame' = IF access.kind = "store" THEN [frame EXCEPT ![pte.ppn] = access.val]
                          ELSE frame
        /\ umem' = IF access.kind = "store" THEN [umem EXCEPT ![p] = access.val] ELSE umem
        /\ access' = NoAccess
        /\ UNCHANGED <<user_l3pt, naddr, nnext, freelist_head, freelist_tail, kva, running>>

\* A processor that maintains the bits of the table does so.
SetBits ==
    LET p == access.page
    IN  /\ running = "user" /\ access # NoAccess
        /\ user_l3pt[p].v /\ ~Allows(user_l3pt[p], access.kind)
        /\ user_l3pt' = [user_l3pt EXCEPT ![p].a = TRUE,
                                          ![p].d = @ \/ access.kind = "store"]
        /\ tlb' = flush_page(tlb, p)
        /\ UNCHANGED <<naddr, nnext, freelist_head, freelist_tail, frame, kva, access,
                       running, umem>>

Fault ==
    /\ running = "user" /\ access # NoAccess
    /\ \E pte \in Usable(access.page) : ~Allows(pte, access.kind)
    /\ running' = "fault"
    /\ UNCHANGED <<user_l3pt, naddr, nnext, freelist_head, freelist_tail, frame, kva, tlb,
                   access, umem>>

-----------------------------------------------------------------------------
KernelAssert(x) == running' = IF x THEN "user" ELSE "assert"

\* handle_fault on a page that is mapped: accessed first, then dirty.
MarkPage ==
    LET p == access.page
        pte == user_l3pt[p]
    IN  /\ running = "fault" /\ pte.v
        /\ KernelAssert(pte.a => (~pte.d /\ access.kind = "store"))
        /\ user_l3pt' = [user_l3pt EXCEPT ![p] = IF pte.a THEN [pte EXCEPT !.d = TRUE]
                                                 ELSE [pte EXCEPT !.a = TRUE]]
        /\ tlb' = flush_page(tlb, p)
        /\ UNCHANGED <<naddr, nnext, freelist_head, freelist_tail, frame, kva, access, umem>>

\* mutant: the node stays in the list
PopHead_kept == UNCHANGED <<freelist_head, freelist_tail>>

\* The list behind its first node.
PopHead ==
    /\ freelist_head' = nnext[freelist_head]
    /\ freelist_tail' = IF nnext[freelist_head] = freelist_tail THEN NoNode ELSE freelist_tail

\* handle_fault on a page that is not: a frame from the list is mapped with
\* all rights, filled, and mapped again with its bits clear.
BringIn ==
    LET p == access.page
        node == freelist_head
        f == naddr[node]
        filling == Cached(p, Pte(f, TRUE))
    IN  /\ running = "fault" /\ ~user_l3pt[p].v
        /\ IF node = NoNode
           THEN /\ running' = "assert"
                /\ UNCHANGED <<user_l3pt, naddr, nnext, freelist_head, freelist_tail, frame, tlb>>
           ELSE /\ KernelAssert(naddr[MapNode(p)] = 0)
                /\ PopHead
                /\ naddr' = [naddr EXCEPT ![MapNode(p)] = f]
                /\ nnext' = [nnext EXCEPT ![MapNode(p)] = nnext[node]]
                /\ frame' = [frame EXCEPT ![f] = kva[p]]
                /\ user_l3pt' = [user_l3pt EXCEPT ![p] = Pte(f, FALSE)]
                /\ tlb' = flush_page(flush_page(tlb, p) \cup {filling}, p)
        /\ UNCHANGED <<kva, access, umem>>

\* evict of one page in a state of the kernel: a node that holds an address
\* goes to the end of the list.
evict(s, p) ==
    LET node == MapNode(p)
        differs == s.frame[s.addr[node]] # kva[p]
        gone == [s EXCEPT
                    !.ok = @ /\ user_l3pt[p].a /\ (differs => user_l3pt[p].d),
                    !.frame[s.addr[node]] = kva[p],
                    !.addr[node] = 0,
                    !.tail = node]
    IN  IF s.addr[node] = 0 THEN s
        ELSE IF s.tail = NoNode THEN [gone EXCEPT !.head = node]
        ELSE [gone EXCEPT !.next[s.tail] = node]

\* The states of the kernel after the first pages.
EvictLoop(now) ==
    LET after[p \in 0..(MAX_TEST_PAGES - 1)] ==
            IF p = 0 THEN now ELSE evict(after[p - 1], p)
    IN  after

\* The program's ecall: all pages are evicted and the test ends.
Ecall ==
    LET now == [ok |-> TRUE, frame |-> frame, addr |-> naddr, next |-> nnext,
                head |-> freelist_head, tail |-> freelist_tail]
        s == EvictLoop(now)[MAX_TEST_PAGES - 1]
    IN  /\ running = "user" /\ access = NoAccess
        /\ running' = IF s.ok THEN "end" ELSE "assert"
        /\ frame' = s.frame /\ naddr' = s.addr /\ nnext' = s.next
        /\ freelist_head' = s.head /\ freelist_tail' = s.tail
        /\ UNCHANGED <<user_l3pt, kva, tlb, access, umem>>

VmNext ==
    \/ \E p \in Pages, kind \in Kinds : \E val \in IF kind = "store" THEN Values ELSE {0} :
          Request(p, kind, val)
    \/ Complete \/ SetBits \/ Fault \/ MarkPage \/ BringIn \/ Ecall

VmSpec == VmInit /\ [][VmNext]_vmvars

-----------------------------------------------------------------------------
\* What the processor may read through any translation it may use is what the
\* program last wrote there, or what was loaded: bringing a page in and the
\* faults for its bits are invisible to the program (vm.c:123-160).
MemoryTransparent ==
    running = "user" =>
        \A p \in Pages :
            /\ \A pte \in Usable(p) : pte.v => frame[pte.ppn] = umem[p]
            /\ ~user_l3pt[p].v => kva[p] = umem[p]

\* No assertion of the fault handler or of evict fails: there is a frame for
\* every page, no fault comes twice, and no page was changed or read without
\* the bit that says so (vm.c:96, 104-107, 125, 132, 139, 147).
NoAssertionFails == running # "assert"
=============================================================================
