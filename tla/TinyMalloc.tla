----------------------------- MODULE TinyMalloc -----------------------------
(* data/riscv-tests/debug/programs/tiny-malloc.c, for MALLOC_DIRECTION 1.   *)
(* A block is a header of one word, its size, and what the caller uses; the *)
(* blocks of the free list, in the order of their addresses, also have a    *)
(* link. Blocks are only ever found from the free list and from the pointer *)
(* the caller gives back, so a byte that is in neither is lost for good.    *)
EXTENDS Integers, SequencesExt

CONSTANTS
    Word,              \* sizeof (size_t)
    Start,             \* &__malloc_start
    Limit,             \* MALLOC_LIMIT: the stack, at the depth of the calls
    Gap,               \* MALLOC_MINIMUM_GAP
    AddressSpace,      \* size_t counts modulo this
    Page,              \* the alignment of valloc: 128
    Requests,          \* the sizes the program asks for
    Alignments         \* the alignments the program asks for

(* The requests, calloc's of up to four bytes included, are not so close to *)
(* the end of the address space that adding a header and rounding up wrap:  *)
(* REAL_SIZE does not check, and the arena is a small part of the space.    *)
ASSUME HeapAssumption ==
    /\ Word \in Nat \ {0} /\ Start \in Nat /\ Start % Word = 0
    /\ Gap \in Nat /\ Limit \in Nat /\ AddressSpace \in Nat /\ Page \in Nat \ {0}
    /\ Start + Gap <= Limit /\ Limit < AddressSpace
    /\ Requests \subseteq Nat /\ Alignments \subseteq Nat
    /\ \A sz \in Requests \cup {4} : sz + Page + 2 * Word <= AddressSpace

Entry == 2 * Word      \* sizeof (struct freelist_entry)
NULL == -1

VARIABLES
    heap,              \* __malloc_end, the free list, and the size in each header
    live               \* the blocks the program holds, and what it asked for

vars == <<heap, live>>

M_ALIGN(x, align) == (-x) % align
PowerOfTwo(a) == a > 0 /\ \A d \in 2 .. a : a % d = 0 => d % 2 = 0
\* Mutant: the header is not counted.
REAL_SIZE_NoHeader(sz) == IF sz < Entry THEN Entry ELSE sz + M_ALIGN(sz, Word)

REAL_SIZE(sz) ==
    IF sz < Entry - Word THEN Entry ELSE (sz + Word + M_ALIGN(sz, Word)) % AddressSpace
CAN_ALLOC_P(h, required) == (Limit - h.end - Gap) % AddressSpace >= required

Result(h, block) == [heap |-> h, block |-> block]
EndOf(h, b) == b + h.size[b]

(* block->size = n *)
Put(f, x, v) == [y \in DOMAIN f \cup {x} |-> IF y = x THEN v ELSE f[y]]

(* The last free block touches __malloc_end. *)
AtEnd(h) == h.free # <<>> /\ EndOf(h, Last(h.free)) = h.end

(* The front of the i-th free block, of real bytes; the rest stays free. *)
Split(h, i, real) ==
    LET b == h.free[i] IN
    [end |-> h.end,
     free |-> [h.free EXCEPT ![i] = b + real],
     size |-> Put(Put(h.size, b + real, h.size[b] - real), b, real)]

\* Mutant: enlarging the last block moves the end as if it began there.
mallocShortEnd(h, sz) ==
    LET real == REAL_SIZE(sz)
        grown == IF AtEnd(h) THEN Last(h.free) ELSE h.end
        more == IF AtEnd(h) THEN real - h.size[grown] ELSE real
    IN  IF more <= 0 \/ ~CAN_ALLOC_P(h, more) THEN Result(h, NULL)
        ELSE Result([end |-> grown + more,
                     free |-> IF AtEnd(h) THEN Front(h.free) ELSE h.free,
                     size |-> Put(h.size, grown, real)], grown)

malloc(h, sz) ==
    LET real == REAL_SIZE(sz)
        fits == {i \in DOMAIN h.free : h.size[h.free[i]] >= real}
        first == Min(fits)
        grown == IF AtEnd(h) THEN Last(h.free) ELSE h.end
        more == IF AtEnd(h) THEN real - h.size[grown] ELSE real
    IN  IF fits # {} THEN
            IF h.size[h.free[first]] < real + Entry
            THEN Result([h EXCEPT !.free = RemoveAt(@, first)], h.free[first])
            ELSE Result(Split(h, first, real), h.free[first])
        ELSE IF ~CAN_ALLOC_P(h, more) THEN Result(h, NULL)
        ELSE Result([end |-> grown + real,
                     free |-> IF AtEnd(h) THEN Front(h.free) ELSE h.free,
                     size |-> Put(h.size, grown, real)], grown)

\* Mutant: a block that touches a free one from above is linked beside it.
freeNoMerge(h, b) ==
    LET above == { i \in DOMAIN h.free : h.free[i] > b }
    IN  [h EXCEPT !.free = IF above = {} THEN Append(@, b) ELSE InsertAt(@, Min(above), b)]

Forget(s, gone) == Restrict(s, DOMAIN s \ gone)

(* The free list is walked up to the first block that touches b from below  *)
(* or lies above it; b is merged with its neighbours, or linked in.         *)
free(h, b) ==
    LET stops == {i \in DOMAIN h.free : EndOf(h, h.free[i]) = b \/ h.free[i] > b}
        i == Min(stops)
        this == h.free[i]
        upper == i < Len(h.free) /\ EndOf(h, b) = h.free[i + 1]
        next == h.free[i + 1]
    IN  IF stops = {} THEN [h EXCEPT !.free = Append(@, b)]
        ELSE IF EndOf(h, this) = b THEN
            IF upper
            THEN [h EXCEPT !.free = RemoveAt(@, i + 1),
                           !.size = Forget(Put(@, this, @[this] + @[b] + @[next]), {b, next})]
            ELSE [h EXCEPT !.size = Forget(Put(@, this, @[this] + @[b]), {b})]
        ELSE IF this = EndOf(h, b) THEN
            [h EXCEPT !.free = [@ EXCEPT ![i] = b],
                      !.size = Forget(Put(@, b, @[b] + @[this]), {this})]
        ELSE [h EXCEPT !.free = InsertAt(@, i, b)]

realloc(h, b, sz) ==
    LET real == REAL_SIZE(sz)
        old == h.size[b]
        new == malloc(h, sz)
        cut == [h EXCEPT !.size = Put(Put(@, b + real, old - real), b, real)]
    IN  IF old < real
        THEN IF new.block = NULL THEN new ELSE Result(free(new.heap, b), new.block)
        ELSE IF old - real >= Entry THEN Result(free(cut, b + real), b)
        ELSE Result(h, b)

(* The room before the part of block b whose pointer is aligned. *)
Before(b, align) ==
    IF M_ALIGN(b + Word, align) = 0 THEN 0 ELSE Entry + M_ALIGN(b + Entry + Word, align)

\* Mutant: what is left behind the aligned part is not linked in.
CarveDropsRest(h, i, real, align) ==
    LET b == h.free[i]
        before == Before(b, align)
        p == b + before
    IN  IF before # 0 THEN Result([h EXCEPT !.size = Put(Put(@, b, before), p, real)], p)
        ELSE Result([h EXCEPT !.free = RemoveAt(@, i), !.size = Put(@, b, real)], b)

(* The aligned part of the i-th free block; the room before and after it    *)
(* stays free.                                                              *)
Carve(h, i, real, align) ==
    LET b == h.free[i]
        old == h.size[b]
        before == Before(b, align)
        p == b + before
    IN  IF before # 0 THEN
            IF old - before <= real + Entry
            THEN Result([h EXCEPT !.size = Put(Put(@, p, old - before), b, before)], p)
            ELSE Result([h EXCEPT !.free = InsertAt(@, i + 1, p + real),
                                  !.size = Put(Put(Put(@, p + real, old - before - real),
                                                   p, real), b, before)], p)
        ELSE IF old <= real + Entry THEN Result([h EXCEPT !.free = RemoveAt(@, i)], b)
        ELSE Result(Split(h, i, real), b)

\* Mutant: the last block is enlarged without a look at the limit.
CarveLastUnchecked(h, real, align) ==
    LET b == Last(h.free)
        whole == Before(b, align) + real
    IN  IF h.size[b] >= whole THEN Carve(h, Len(h.free), real, align)
        ELSE Carve([h EXCEPT !.end = b + whole, !.size = Put(@, b, whole)], Len(h.free), real, align)

(* The last free block, enlarged if it is too small. *)
CarveLast(h, real, align) ==
    LET b == Last(h.free)
        whole == Before(b, align) + real
    IN  IF h.size[b] >= whole THEN Carve(h, Len(h.free), real, align)
        ELSE IF ~CAN_ALLOC_P(h, whole - h.size[b]) THEN Result(h, NULL)
        ELSE Carve([h EXCEPT !.end = b + whole, !.size = Put(@, b, whole)], Len(h.free), real, align)

memalign(h, align, sz) ==
    LET real == REAL_SIZE(sz)
        fits == {i \in DOMAIN h.free : h.size[h.free[i]] >= real + Before(h.free[i], align)}
        fresh == real + M_ALIGN(h.end + Word, align)
        extended == [end |-> h.end + fresh, free |-> Append(h.free, h.end),
                     size |-> Put(h.size, h.end, fresh)]
    IN  IF ~PowerOfTwo(align) THEN Result(h, NULL)
        ELSE IF fits # {} THEN Carve(h, Min(fits), real, align)
        ELSE IF AtEnd(h) THEN CarveLast(h, real, align)
        ELSE IF ~CAN_ALLOC_P(h, fresh) THEN Result(h, NULL)
        ELSE CarveLast(extended, real, align)

calloc(h, n, elem_size) == malloc(h, (n * elem_size) % AddressSpace)
valloc(h, sz) == memalign(h, Page, sz)
pvalloc(h, sz) == memalign(h, Page, sz + M_ALIGN(sz, Page))

malloc_usable_size(h, b) == h.size[b] - Word

(* The loop of mallinfo() over the free list: the size of its first i blocks. *)
FreeSizes(h) ==
    LET free_size[i \in 0 .. Len(h.free)] ==
            IF i = 0 THEN 0 ELSE free_size[i - 1] + h.size[h.free[i]]
    IN  free_size

mallinfo(h) ==
    LET free_size == FreeSizes(h)[Len(h.free)] IN
    [arena |-> h.end - Start,
     fordblks |-> free_size,
     uordblks |-> h.end - Start - free_size,
     ordblks |-> Len(h.free),
     keepcost |-> IF AtEnd(h) THEN h.size[Last(h.free)] ELSE 0]
-----------------------------------------------------------------------------
Init ==
    /\ heap = [end |-> Start, free |-> <<>>, size |-> [b \in {} |-> 0]]
    /\ live = [b \in {} |-> 0]

(* The program keeps a pointer that is not null. *)
Gets(r, sz) ==
    /\ heap' = r.heap
    /\ live' = IF r.block = NULL THEN live ELSE Put(live, r.block, sz)

Malloc == \E sz \in Requests : Gets(malloc(heap, sz), sz)
Calloc == \E n \in {0, 1, 2}, e \in {2} : Gets(calloc(heap, n, e), n * e)
Memalign == \E align \in Alignments, sz \in Requests : Gets(memalign(heap, align, sz), sz)
Valloc == \E sz \in Requests : Gets(valloc(heap, sz), sz)
Pvalloc == \E sz \in Requests : Gets(pvalloc(heap, sz), sz)

Free ==
    \E b \in DOMAIN live :
        /\ heap' = free(heap, b)
        /\ live' = Forget(live, {b})

Realloc ==
    \E b \in DOMAIN live, sz \in Requests :
        LET r == realloc(heap, b, sz) IN
        /\ heap' = r.heap
        /\ live' = IF r.block = NULL THEN live
                   ELSE Put(Forget(live, {b}), r.block, sz)

Next == Malloc \/ Calloc \/ Memalign \/ Valloc \/ Pvalloc \/ Free \/ Realloc

Spec == Init /\ [][Next]_vars
-----------------------------------------------------------------------------
(* The free list is in the order of the addresses and no two of its blocks  *)
(* touch: free() finds the neighbours of a block by walking it once.        *)
FreeListTidy ==
    \A i \in 1 .. Len(heap.free) - 1 : EndOf(heap, heap.free[i]) < heap.free[i + 1]

(* Every byte up to __malloc_end is in exactly one free block or one block  *)
(* the program holds, and mallinfo(), which only sees the free list, counts *)
(* the bytes that are held: the splits of memalign, realloc and malloc lose *)
(* nothing ("or it'll be lost").                                            *)
Blocks == DOMAIN live \cup ToSet(heap.free)
Held == {x \in Start .. heap.end - 1 : \E b \in DOMAIN live : x \in b .. EndOf(heap, b) - 1}
NoByteLost ==
    /\ DOMAIN live \cap ToSet(heap.free) = {}
    /\ \A b \in Blocks : heap.size[b] >= Entry /\ Start <= b /\ EndOf(heap, b) <= heap.end
    /\ \A b, c \in Blocks : b # c => EndOf(heap, b) <= c \/ EndOf(heap, c) <= b
    /\ \A x \in Start .. heap.end - 1 : \E b \in Blocks : x \in b .. EndOf(heap, b) - 1
    /\ mallinfo(heap).uordblks = Cardinality(Held)

(* malloc leaves MALLOC_MINIMUM_GAP bytes below the stack, by whichever     *)
(* path it moves __malloc_end.                                              *)
KeepsGap == heap.end + Gap <= Limit

(* The pointers the program holds behave as the chunks of the abstract heap.*)
Chunks == INSTANCE Heap WITH
    Top <- Limit - Gap,
    chunks <- [p \in {b + Word : b \in DOMAIN live} |-> live[p - Word]]

ServesChunks == Chunks!HInit /\ [][
    \/ \E b \in DOMAIN live' : Chunks!HAllocate(b + Word, live'[b], 1)
    \/ \E b \in DOMAIN live : Chunks!HFree(b + Word)
    \/ \E b \in DOMAIN live, c \in DOMAIN live' : Chunks!HResize(b + Word, c + Word, live'[c])]_live

(* A block is never smaller than what was asked for, as                     *)
(* malloc_usable_size() would tell, and memalign would return an aligned    *)
(* pointer from any of the heaps that are reached.                          *)
BlocksAsAsked ==
    /\ \A b \in DOMAIN live : malloc_usable_size(heap, b) >= live[b]
    /\ \A align \in Alignments, sz \in Requests :
        LET r == memalign(heap, align, sz) IN
        r.block # NULL => (r.block + Word) % align = 0
=============================================================================
