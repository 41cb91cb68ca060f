----------------------------- MODULE TinyMalloc -----------------------------
(***************************************************************************)
(* The allocator of riscv-tests/debug/programs/tiny-malloc.c, for a heap   *)
(* that grows upwards (MALLOC_DIRECTION 1) on a 32-bit machine.  A block   *)
(* starts with its size, and its chunk follows; a free block also holds    *)
(* the link to the next one.  The free list is a sequence of blocks, the   *)
(* blocks in use are a function from their address, with what was asked    *)
(* for kept beside the size.  Routines are operators on a heap that give   *)
(* the block and the heap they leave; block NULL is a failed request.      *)
(***************************************************************************)
EXTENDS Integers, SequencesExt

CONSTANTS
    MallocStart,     \* __malloc_start
    MallocLimit,     \* the frame address of the caller, which stays put
    Sizes,           \* what is asked for
    Aligns,          \* alignments, powers of two
    MaxUsed          \* blocks in use at a time, at most

VARIABLE heap        \* [free, used, end]

WORD == 4            \* sizeof (size_t)
FLE == 8             \* sizeof (struct freelist_entry)
MALLOC_MINIMUM_GAP == 32
NULL == -1

M_ALIGN(x, align) == (-x) % align

\* mutant: no room for the size field
REAL_SIZE_no_header(sz) == IF sz < FLE - WORD THEN FLE ELSE sz + M_ALIGN(sz, WORD)

REAL_SIZE(sz) == IF sz < FLE - WORD THEN FLE ELSE sz + WORD + M_ALIGN(sz, WORD)

\* The heap starts at a word below the stack; sizes stay clear of the end of
\* the address space, where sums would wrap around; memalign refuses an
\* alignment that is no power of two, and those are 1, 2 and multiples of WORD.
ASSUME MallocAssumption ==
    /\ MallocStart \in Nat /\ MallocLimit \in Nat
    /\ MallocStart % WORD = 0 /\ MallocStart + MALLOC_MINIMUM_GAP <= MallocLimit
    /\ Sizes \subseteq Nat /\ Aligns \subseteq Nat \ {0}
    /\ \A align \in Aligns : align \in {1, 2} \/ align % WORD = 0
    /\ \A sz \in Sizes, align \in Aligns : REAL_SIZE(sz) + FLE + align <= 2147483647

CAN_ALLOC_P(h, required) == MallocLimit - h.end - MALLOC_MINIMUM_GAP >= required

Entry(a, size) == [at |-> a, size |-> size]
EndOf(b) == b.at + b.size
AtEnd(h) == h.free # <<>> /\ EndOf(Last(h.free)) = h.end

Least(S) == CHOOSE i \in S : \A j \in S : i <= j

Failed(h) == [block |-> NULL, heap |-> h]
Got(h, b, asked, align) ==
    [block |-> b.at,
     heap |-> [h EXCEPT !.used = [a \in DOMAIN @ \cup {b.at} |->
                   IF a = b.at THEN [size |-> b.size, asked |-> asked, align |-> align] ELSE @[a]]]]

\* mutant: the part left keeps the size of the whole
CutAt_size_kept(h, i, real, whole) ==
    IF whole THEN [h EXCEPT !.free = RemoveAt(@, i)]
    ELSE [h EXCEPT !.free[i] = Entry(@.at + real, @.size)]

\* The block at i leaves the list, less what is split off it.
CutAt(h, i, real, whole) ==
    IF whole THEN [h EXCEPT !.free = RemoveAt(@, i)]
    ELSE [h EXCEPT !.free[i] = Entry(@.at + real, @.size - real)]

Kept(b, real, whole) == Entry(b.at, IF whole THEN b.size ELSE real)

-----------------------------------------------------------------------------
malloc(h, sz) ==
    LET real == REAL_SIZE(sz)
        fits == {i \in DOMAIN h.free : h.free[i].size >= real}
    IN  IF fits # {}
        THEN LET i == Least(fits)
                 whole == h.free[i].size < real + FLE
             IN  Got(CutAt(h, i, real, whole), Kept(h.free[i], real, whole), sz, WORD)
        ELSE IF AtEnd(h)
        THEN LET last == Last(h.free)
             IN  IF CAN_ALLOC_P(h, real - last.size)
                 THEN Got([h EXCEPT !.free = Front(@), !.end = last.at + real],
                          Entry(last.at, real), sz, WORD)
                 ELSE Failed(h)
        ELSE IF CAN_ALLOC_P(h, real)
        THEN Got([h EXCEPT !.end = @ + real], Entry(h.end, real), sz, WORD)
        ELSE Failed(h)

\* The list with block b joined to the neighbours it has there.
Joined(h, b) ==
    LET list == h.free
        after(i) == EndOf(list[i]) = b.at
        before(i) == list[i].at = EndOf(b)
        stops == {i \in DOMAIN list : after(i) \/ before(i) \/ list[i].at > b.at}
        i == Least(stops)
        joined == Entry(list[i].at, list[i].size + b.size)
        both == i < Len(list) /\ EndOf(b) = list[i + 1].at
    IN  IF stops = {} THEN Append(list, b)
        ELSE IF after(i)
        THEN IF both
             THEN RemoveAt([list EXCEPT ![i] = Entry(@.at, joined.size + list[i + 1].size)], i + 1)
             ELSE [list EXCEPT ![i] = joined]
        ELSE IF before(i) THEN [list EXCEPT ![i] = Entry(b.at, joined.size)]
        ELSE InsertAt(list, i, b)

UsedBlock(h, a) == Entry(a, h.used[a].size)

free(h, a) ==
    [h EXCEPT !.free = Joined(h, UsedBlock(h, a)),
              !.used = [x \in DOMAIN @ \ {a} |-> @[x]]]

\* Shrinking splits off the rest only if it can hold a list entry.
realloc(h, a, sz) ==
    LET real == REAL_SIZE(sz)
        old == h.used[a].size
        moved == malloc(h, sz)
        rest == Entry(a + real, old - real)
        kept == [size |-> IF old - real >= FLE THEN real ELSE old, asked |-> sz,
                 align |-> h.used[a].align]
    IN  IF old < real
        THEN IF moved.block = NULL THEN moved
             ELSE [block |-> moved.block, heap |-> free(moved.heap, a)]
        ELSE [block |-> a,
              heap |-> [h EXCEPT !.free = IF old - real >= FLE THEN Joined(h, rest) ELSE @,
                                 !.used[a] = kept]]

\* What has to stay free in front of an aligned chunk of the block.
BeforeSize(b, align) ==
    IF M_ALIGN(b.at + WORD, align) = 0 THEN 0
    ELSE FLE + M_ALIGN(b.at + FLE + WORD, align)

\* Block i of the list is large enough: the aligned part of it is handed out.
TakeAligned(h, i, real, align, sz) ==
    LET b == h.free[i]
        before == BeforeSize(b, align)
        left == b.size - before
        whole == left <= real + FLE
        cut == CutAt(h, i, real, whole)
        front == [h EXCEPT !.free[i] = Entry(b.at, before)]
        rest == Entry(b.at + before + real, left - real)
    IN  IF before = 0 THEN Got(cut, Kept(b, real, whole), sz, align)
        ELSE Got(IF whole THEN front ELSE [front EXCEPT !.free = InsertAt(@, i + 1, rest)],
                 Kept(Entry(b.at + before, left), real, whole), sz, align)

\* The first block that is large enough, or the last one once it is enlarged.
FirstAligned(h, real, align, sz) ==
    LET need(i) == real + BeforeSize(h.free[i], align)
        fits == {i \in DOMAIN h.free : h.free[i].size >= need(i)}
        n == Len(h.free)
        last == h.free[n]
        larger == [h EXCEPT !.free[n].size = need(n), !.end = last.at + need(n)]
    IN  IF fits # {} THEN TakeAligned(h, Least(fits), real, align, sz)
        ELSE IF CAN_ALLOC_P(h, need(n) - last.size)
        THEN TakeAligned(larger, n, real, align, sz)
        ELSE Failed(h)

memalign(h, align, sz) ==
    LET real == REAL_SIZE(sz)
        fresh == real + M_ALIGN(h.end + WORD, align)
        grown == [h EXCEPT !.free = Append(@, Entry(h.end, fresh)), !.end = @ + fresh]
        some == \E i \in DOMAIN h.free :
                    h.free[i].size >= real + BeforeSize(h.free[i], align)
    IN  IF some \/ AtEnd(h) THEN FirstAligned(h, real, align, sz)
        ELSE IF CAN_ALLOC_P(h, fresh) THEN FirstAligned(grown, real, align, sz)
        ELSE Failed(h)

\* mutant: the walk stops at the last block instead of behind it
mallinfo_short(h) ==
    LET total == h.end - MallocStart
        free_size == FoldLeft(LAMBDA n, b : n + b.size, 0, Front(h.free))
    IN  [arena |-> total, fordblks |-> free_size, uordblks |-> total - free_size, keepcost |-> 0]

\* arena, fordblks, uordblks and keepcost.
mallinfo(h) ==
    LET total == h.end - MallocStart
        free_size == FoldLeft(LAMBDA n, b : n + b.size, 0, h.free)
    IN  [arena |-> total, fordblks |-> free_size, uordblks |-> total - free_size,
         keepcost |-> IF AtEnd(h) THEN Last(h.free).size ELSE 0]

malloc_usable_size(h, a) == h.used[a].size - WORD

-----------------------------------------------------------------------------
MallocInit == heap = [free |-> <<>>, used |-> <<>>, end |-> MallocStart]

Room == Cardinality(DOMAIN heap.used) < MaxUsed

Malloc(sz) == Room /\ heap' = malloc(heap, sz).heap
Memalign(align, sz) == Room /\ heap' = memalign(heap, align, sz).heap
Free(a) == heap' = free(heap, a)
Realloc(a, sz) == heap' = realloc(heap, a, sz).heap

MallocNext ==
    \/ \E sz \in Sizes : Malloc(sz)
    \/ \E align \in Aligns, sz \in Sizes : Memalign(align, sz)
    \/ \E a \in DOMAIN heap.used : Free(a)
    \/ \E a \in DOMAIN heap.used, sz \in Sizes : Realloc(a, sz)

MallocSpec == MallocInit /\ [][MallocNext]_heap

-----------------------------------------------------------------------------
Blocks(list, inUse) == ToSet(list) \cup inUse
InUse(h) == {UsedBlock(h, a) : a \in DOMAIN h.used}

\* The blocks in use and the free ones tile the heap: they follow one another
\* from __malloc_start to __malloc_end without a gap or an overlap, none is
\* both, the free list is in the order of addresses, and no two free blocks
\* touch (tiny-malloc.c:133-270, 344-488).
Tiled ==
    LET list == heap.free
        blocks == Blocks(list, InUse(heap))
        edges == {b.at : b \in blocks} \cup {heap.end}
    IN  /\ MallocStart \in edges
        /\ \A b \in blocks : b.size >= FLE /\ EndOf(b) \in edges
        /\ \A b, c \in blocks : b # c => (EndOf(b) <= c.at \/ EndOf(c) <= b.at)
        /\ \A i \in DOMAIN list : list[i].at \notin DOMAIN heap.used
        /\ \A i \in 2..Len(list) : EndOf(list[i - 1]) < list[i].at
        /\ heap.end <= MallocLimit - MALLOC_MINIMUM_GAP

\* mallinfo, which walks the free list, counts the bytes in use
\* (tiny-malloc.c:507-548).
Counted == mallinfo(heap).uordblks = MapThenSumSet(LAMBDA b : b.size, InUse(heap))

\* Every chunk in use holds what was asked for and is aligned as asked
\* (tiny-malloc.c:17-35), whatever it was carved from.
Served ==
    \A a \in DOMAIN heap.used :
        /\ malloc_usable_size(heap, a) >= heap.used[a].asked
        /\ (a + WORD) % heap.used[a].align = 0
=============================================================================
