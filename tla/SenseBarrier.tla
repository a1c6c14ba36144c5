---------------------------- MODULE SenseBarrier ----------------------------
(* The sense-reversing barrier the multi-hart benchmarks share (barrier() in *)
(* data/riscv-tests/benchmarks/common/util.h). Every hart flips its own     *)
(* copy of the sense and counts itself in; the last one clears the counter  *)
(* and publishes the new sense, which is what the others spin on. The two   *)
(* stores of the last hart are two steps: another hart may run in between.  *)
EXTENDS Integers, FiniteSets

CONSTANT Cores                  \* the harts 0 .. ncores - 1

ASSUME CoresAssumption == IsFiniteSet(Cores) /\ Cores # {}

VARIABLES
    count,                      \* static volatile int count
    sense,                      \* static volatile int sense
    threadsense,                \* static __thread int threadsense
    stage,                      \* where each hart is in barrier()
    entered, left               \* history: the calls made, and returned from

barrierVars == <<count, sense, threadsense, stage, entered, left>>

Not(s) == 1 - s                 \* the C operator !, on 0 and 1

BarrierInit ==
    /\ count = 0
    /\ sense = 0
    /\ threadsense = [c \in Cores |-> 0]
    /\ stage = [c \in Cores |-> "out"]
    /\ entered = [c \in Cores |-> 0]
    /\ left = [c \in Cores |-> 0]

\* Mutant: a hart keeps its sense from one barrier to the next.
ArriveSameSense(c) ==
    /\ stage[c] = "out"
    /\ threadsense' = [threadsense EXCEPT ![c] = 1]
    /\ count' = count + 1
    /\ stage' = [stage EXCEPT ![c] = IF count = Cardinality(Cores) - 1 THEN "reset" ELSE "spin"]
    /\ entered' = [entered EXCEPT ![c] = @ + 1]
    /\ UNCHANGED <<sense, left>>

(* The flip of the hart's own sense and the atomic fetch-and-add. *)
Arrive(c) ==
    /\ stage[c] = "out"
    /\ threadsense' = [threadsense EXCEPT ![c] = Not(@)]
    /\ count' = count + 1
    /\ stage' = [stage EXCEPT ![c] = IF count = Cardinality(Cores) - 1 THEN "reset" ELSE "spin"]
    /\ entered' = [entered EXCEPT ![c] = @ + 1]
    /\ UNCHANGED <<sense, left>>

(* The last hart clears the counter ... *)
Reset(c) ==
    /\ stage[c] = "reset"
    /\ count' = 0
    /\ stage' = [stage EXCEPT ![c] = "release"]
    /\ UNCHANGED <<sense, threadsense, entered, left>>

(* ... then publishes its sense, and returns. *)
Release(c) ==
    /\ stage[c] = "release"
    /\ sense' = threadsense[c]
    /\ stage' = [stage EXCEPT ![c] = "out"]
    /\ left' = [left EXCEPT ![c] = @ + 1]
    /\ UNCHANGED <<count, threadsense, entered>>

\* Mutant: the sense is read once, not until it changes.
SpinOnce(c) ==
    /\ stage[c] = "spin"
    /\ stage' = [stage EXCEPT ![c] = "out"]
    /\ left' = [left EXCEPT ![c] = @ + 1]
    /\ UNCHANGED <<count, sense, threadsense, entered>>

(* Another hart reads the sense it waits for, and returns. *)
Spin(c) ==
    /\ stage[c] = "spin"
    /\ sense = threadsense[c]
    /\ stage' = [stage EXCEPT ![c] = "out"]
    /\ left' = [left EXCEPT ![c] = @ + 1]
    /\ UNCHANGED <<count, sense, threadsense, entered>>

BarrierStep(c) == Arrive(c) \/ Reset(c) \/ Release(c) \/ Spin(c)

BarrierSpec == BarrierInit /\ [][\E c \in Cores : BarrierStep(c)]_barrierVars

(* The abstract barrier; both keep the same history. *)
Promise == INSTANCE Barrier

(* Refinement: a call of barrier() returns only when every hart has made    *)
(* its call of the same round, whatever the order of the counter's and the  *)
(* sense's stores.                                                          *)
KeepsPromise == Promise!BSpec
=============================================================================
