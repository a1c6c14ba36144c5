----------------------------- MODULE MtVectors -----------------------------
(* The benchmarks over a vector: how vvadd0 to vvadd4 and mt-memcpy divide  *)
(* VectorLen elements between the harts. What a kernel stores to in one     *)
(* round of its loop is one step. An index may be past the end of the       *)
(* array: the code checks none.                                             *)
EXTENDS MtProgram

CONSTANT VectorLen     \* DATA_SIZE of the data set

(* With fewer elements than harts vvadd0 divides by zero.                   *)
ASSUME VectorAssumption ==
    /\ Cores = 0 .. Cardinality(Cores) - 1
    /\ VectorLen \in Nat /\ VectorLen >= Cardinality(Cores)

NC == Cardinality(Cores)
-----------------------------------------------------------------------------
(* vvadd(coreid, ncores, n, x, y, z): what hart c stores to in each round.  *)
vvadd0(c, n) ==
    LET leftover == n % (n \div NC) IN
    Each(StepBy(c * (n \div NC), (c + 1) * (n \div NC), 1), LAMBDA i : {i})
    \o Each(StepBy(n - leftover + c, n, NC), LAMBDA i : {i})

vvadd1(c, n) == Each(StepBy(4 * c, n, 8 * NC), LAMBDA i : Span(i, 4) \cup Span(i + 4 * NC, 4))

vvadd2(c, n) == Each(StepBy(c, n, 2 * NC), LAMBDA i : {i, i + NC})

\* Mutant: every round of the device does eight elements, the first one too.
vvadd3_NoRemainder(c, n) ==
    Each(StepBy(c * (n \div NC), (c + 1) * (n \div NC), 8), LAMBDA i : Span(i, 8))

(* Duff's device: the first round does count % 8 elements, the others 8. *)
vvadd3(c, n) ==
    LET each == n \div NC
        odd == each % 8
        base == c * each IN
    When(odd # 0, <<Span(base, odd)>>)
    \o Each(StepBy(base + odd, base + each, 8), LAMBDA i : Span(i, 8))

vvadd4(c, n) == Each(StepBy(c, n, NC), LAMBDA i : {i})
-----------------------------------------------------------------------------
(* thread_entry() of mt-vvadd: z = x + y, then x = x + y in place. Term 0   *)
(* of an element is that of x, term 1 that of y. Hart 0 verifies and copies.*)
Vector == 0 .. VectorLen - 1
VectorCheck == Step("verify", {}, {}, C(Vector))

VvaddEntry(c, rounds) ==
    <<Barrier_>>
    \o Each(rounds, LAMBDA g : Put(g, {0, 1}))
    \o <<Barrier_>>
    \o When(c = 0, <<VectorCheck, Put(Vector, {0})>>)
    \o <<Barrier_>>
    \o Each(rounds, LAMBDA g : Add(g, {1}))
    \o <<Barrier_>>
    \o When(c = 0, <<VectorCheck>>)
    \o <<Barrier_>>

(* thread_entry() of mt-memcpy: blocks that are one longer than the harts'  *)
(* equal shares, the last hart's as much shorter; the copy is made twice.   *)
MemcpyEntry(c) ==
    LET block == VectorLen \div NC + 1
        n == IF c = NC - 1 THEN VectorLen - c * block ELSE block
        copy == Put(Span(c * block, n), {0}) IN
    <<Barrier_, copy, Barrier_, copy, Barrier_, Barrier_>>
    \o When(c = 0, <<VectorCheck>>)
    \o <<Barrier_>>

VectorPlan ==
    [vvadd0 |-> [c \in Cores |-> VvaddEntry(c, vvadd0(c, VectorLen))],
     vvadd1 |-> [c \in Cores |-> VvaddEntry(c, vvadd1(c, VectorLen))],
     vvadd2 |-> [c \in Cores |-> VvaddEntry(c, vvadd2(c, VectorLen))],
     vvadd3 |-> [c \in Cores |-> VvaddEntry(c, vvadd3(c, VectorLen))],
     vvadd4 |-> [c \in Cores |-> VvaddEntry(c, vvadd4(c, VectorLen))],
     memcpy |-> [c \in Cores |-> MemcpyEntry(c)]]
VectorNames == {"vvadd0", "vvadd1", "vvadd2", "vvadd3", "vvadd4", "memcpy"}

VectorResults ==
    [k \in VectorNames |-> [x \in C(Vector) |-> IF k = "memcpy" THEN {0} ELSE {0, 1}]]

(* The lengths that a kernel divides without a remainder it does not handle:*)
(* blocks of four for every hart and as many again, pairs of elements for   *)
(* every hart, a last block that is not negative.                           *)
Fits(k, n) ==
    /\ k = "vvadd1" => n % (8 * NC) = 0
    /\ k = "vvadd2" => n % (2 * NC) = 0
    /\ k = "memcpy" => (NC - 1) * (n \div NC + 1) <= n

(* A vector benchmark leaves its arrays exactly at the lengths that do not  *)
(* fit, in every interleaving; no matrix benchmark of the run leaves them.  *)
Strayed(c) == \E n \in DOMAIN Steps(c) : n < pc[c] /\ ~ Writes(Steps(c)[n]) \subseteq DOMAIN mem

LeavesArraysIffUnfit ==
    IF kernel \in VectorNames /\ ~Fits(kernel, VectorLen)
    THEN (\A c \in Cores : pc[c] > Len(Steps(c))) => \E c \in Cores : Strayed(c)
    ELSE InBounds
=============================================================================
