-------------------------------- MODULE Heap --------------------------------
(* What the allocator of data/riscv-tests/debug/programs/tiny-malloc.c      *)
(* promises its callers (its lines 12 to 45): a chunk that is handed out    *)
(* has the size and the alignment that were asked for, lies in the arena,   *)
(* and shares no byte with another chunk until it is given back.            *)
EXTENDS Naturals

CONSTANTS Start, Top            \* the arena: Start .. Top - 1

VARIABLE chunks                 \* pointer |-> the size asked for

Bytes(p, n) == p .. p + n - 1

HInit == chunks = [p \in {} |-> 0]

(* A chunk of n bytes at p, apart from those at the pointers "others". *)
Fits(p, n, others) ==
    /\ Bytes(p, n) \subseteq Start .. Top - 1
    /\ p \notin others
    /\ \A q \in others : Bytes(p, n) \cap Bytes(q, chunks[q]) = {}

(* The chunks at "others", and one of n bytes at p. *)
With(others, p, n) == [q \in others \cup {p} |-> IF q = p THEN n ELSE chunks[q]]
Without(p) == [q \in DOMAIN chunks \ {p} |-> chunks[q]]

(* malloc, calloc, memalign, valloc and pvalloc; they may also return null  *)
(* and change nothing.                                                      *)
HAllocate(p, n, align) ==
    /\ p % align = 0
    /\ Fits(p, n, DOMAIN chunks)
    /\ chunks' = With(DOMAIN chunks, p, n)

HFree(p) == p \in DOMAIN chunks /\ chunks' = Without(p)

(* realloc: where it was, or elsewhere while the old one is still there to  *)
(* be copied.                                                               *)
HResize(p, q, n) ==
    /\ p \in DOMAIN chunks
    /\ Fits(q, n, IF p = q THEN DOMAIN chunks \ {p} ELSE DOMAIN chunks)
    /\ chunks' = With(DOMAIN chunks \ {p}, q, n)
=============================================================================
