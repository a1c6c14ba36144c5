------------------------------ MODULE Barrier ------------------------------
(* What barrier() of data/riscv-tests/benchmarks/common/util.h promises the *)
(* harts that call it, whatever counter and flags it uses: the n-th call of *)
(* a hart returns only when every hart has made its n-th call.              *)
EXTENDS Naturals

CONSTANT Cores        \* the harts that take part: 0 .. nc - 1

VARIABLES
    entered,          \* entered[c]: the calls of barrier() hart c has made
    left              \* left[c]: the calls that have returned to hart c

bvars == <<entered, left>>

BInit ==
    /\ entered = [c \in Cores |-> 0]
    /\ left = [c \in Cores |-> 0]

BEnter(c) ==
    /\ left[c] = entered[c]
    /\ entered' = [entered EXCEPT ![c] = @ + 1]
    /\ UNCHANGED left

BLeave(c) ==
    /\ left[c] < entered[c]
    /\ \A d \in Cores : entered[d] >= entered[c]
    /\ left' = [left EXCEPT ![c] = @ + 1]
    /\ UNCHANGED entered

BNext == \E c \in Cores : BEnter(c) \/ BLeave(c)

BSpec == BInit /\ [][BNext]_bvars
=============================================================================
