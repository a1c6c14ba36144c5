------------------------------ MODULE MtProofs ------------------------------
(* Proofs about the multi-hart benchmarks, for any finite set of harts and  *)
(* any lists of steps. The barrier keeps its promise; a kernel whose harts  *)
(* touch different elements between equal numbers of barriers has no data   *)
(* race; and when its program order adds every term once, verify() finds    *)
(* the right results in every interleaving. And the vector kernels leave    *)
(* their arrays exactly at the lengths that do not divide.                  *)
EXTENDS MtVectors, FiniteSetTheorems, SequenceTheorems, TLAPS

-----------------------------------------------------------------------------
(* The barrier.                                                             *)

(* The harts that have called barrier() in the round after the n-th. *)
Waiting(n) == {c \in Cores : entered[c] = n + 1}
Last == {c \in Cores : stage[c] \in {"reset", "release"}}

BarrierTypeOK ==
    /\ count \in Nat
    /\ sense \in {0, 1}
    /\ threadsense \in [Cores -> {0, 1}]
    /\ stage \in [Cores -> {"out", "spin", "reset", "release"}]
    /\ entered \in [Cores -> Nat]
    /\ left \in [Cores -> Nat]

(* n rounds are over: every hart is in round n or n + 1, its sense tells    *)
(* which, and only a hart that is in round n may be outside.                *)
InRound(n) ==
    /\ \A c \in Cores :
        /\ \/ entered[c] = n /\ threadsense[c] = sense
           \/ entered[c] = n + 1 /\ threadsense[c] = 1 - sense
        /\ stage[c] = "out" => entered[c] = n /\ left[c] = n
        /\ stage[c] # "out" => entered[c] = left[c] + 1

(* The counter counts the harts of round n + 1 until the last one clears it.*)
Counted(n) ==
    /\ \A c, d \in Last : c = d
    /\ Last # {} => Waiting(n) = Cores
    /\ Last = {} => Waiting(n) # Cores
    /\ (\A c \in Cores : stage[c] # "release") => count = Cardinality(Waiting(n))
    /\ (\E c \in Cores : stage[c] = "release") => count = 0

RoundInv(n) == InRound(n) /\ Counted(n)
BarrierInv == BarrierTypeOK /\ \E n \in Nat : RoundInv(n)

(* The harts that wait are a finite set.                                    *)
LEMMA WaitingIsFinite ==
    ASSUME NEW n
    PROVE  /\ IsFiniteSet(Waiting(n))
           /\ Cardinality(Waiting(n)) \in Nat
           /\ Cardinality(Cores) \in Nat
           /\ Cardinality(Waiting(n)) = Cardinality(Cores) => Waiting(n) = Cores
<1>1. Waiting(n) \subseteq Cores  BY DEF Waiting
<1> QED  BY <1>1, CoresAssumption, FS_Subset, FS_CardinalityType

(* Before the first call no hart waits.                                     *)
LEMMA BarrierInitInv == BarrierInit => BarrierInv
<1> SUFFICES ASSUME BarrierInit PROVE BarrierInv  OBVIOUS
<1>1. BarrierTypeOK  BY DEF BarrierInit, BarrierTypeOK
<1>2. InRound(0)  BY DEF BarrierInit, InRound
<1>3. Waiting(0) = {} /\ Last = {}  BY DEF BarrierInit, Waiting, Last
<1>4. Counted(0)  BY <1>3, CoresAssumption, FS_EmptySet DEF BarrierInit, Counted
<1> QED  BY <1>1, <1>2, <1>4 DEF BarrierInv, RoundInv

(* A hart that arrives is counted; the last one sees the full count.        *)
LEMMA ArriveInv ==
    ASSUME BarrierInv, NEW c \in Cores, Arrive(c)
    PROVE  BarrierInv'
<1>1. PICK n \in Nat : RoundInv(n)  BY DEF BarrierInv
<1> USE DEF RoundInv
<1>2. entered[c] = n /\ Waiting(n) # Cores  BY <1>1 DEF Arrive, InRound, Waiting
<1>3. Last = {}  BY <1>1, <1>2 DEF Counted
<1>4. count = Cardinality(Waiting(n)) /\ \A d \in Cores : stage[d] # "release"
  BY <1>1, <1>3 DEF Counted, Last
<1>5. BarrierTypeOK'
  <2>1. count + 1 \in Nat  BY DEF BarrierInv, BarrierTypeOK
  <2>2. 1 - threadsense[c] \in {0, 1}  BY DEF BarrierInv, BarrierTypeOK
  <2> QED  BY <2>1, <2>2 DEF BarrierInv, BarrierTypeOK, Arrive, Not
<1>6. InRound(n)'
  BY <1>1, <1>2 DEF BarrierInv, BarrierTypeOK, InRound, Arrive, Not
<1>7. Waiting(n)' = Waiting(n) \cup {c}
  BY <1>2 DEF BarrierInv, BarrierTypeOK, Waiting, Arrive
<1>8. c \notin Waiting(n)  BY <1>2 DEF Waiting
<1>9. Cardinality(Waiting(n)') = count + 1
  BY <1>4, <1>7, <1>8, WaitingIsFinite, FS_AddElement
<1>10. \A d \in Cores : stage'[d] # "release"
  BY <1>4 DEF BarrierInv, BarrierTypeOK, Arrive
<1>11. CASE count = Cardinality(Cores) - 1
  <2>1. Waiting(n)' = Cores
    <3>1. Waiting(n)' \subseteq Cores  BY <1>7 DEF Waiting
    <3>2. Cardinality(Waiting(n)') = Cardinality(Cores)
      BY <1>9, <1>11, WaitingIsFinite DEF BarrierInv, BarrierTypeOK
    <3> QED  BY <3>1, <3>2, CoresAssumption, FS_Subset
  <2>2. Last' = {c}
    BY <1>3, <1>11 DEF BarrierInv, BarrierTypeOK, Arrive, Last
  <2>3. Counted(n)'  BY <2>1, <2>2, <1>9, <1>10 DEF Counted, Arrive
  <2> QED  BY <1>5, <1>6, <2>3 DEF BarrierInv
<1>12. CASE count # Cardinality(Cores) - 1
  <2>1. Waiting(n)' # Cores
    BY <1>9, <1>12, WaitingIsFinite DEF BarrierInv, BarrierTypeOK
  <2>2. Last' = {}
    BY <1>3, <1>12 DEF BarrierInv, BarrierTypeOK, Arrive, Last
  <2>3. Counted(n)'  BY <2>1, <2>2, <1>9, <1>10 DEF Counted, Arrive
  <2> QED  BY <1>5, <1>6, <2>3 DEF BarrierInv
<1> QED  BY <1>11, <1>12

(* The last hart clears the counter for the next round.                     *)
LEMMA ResetInv ==
    ASSUME BarrierInv, NEW c \in Cores, Reset(c)
    PROVE  BarrierInv'
<1>1. PICK n \in Nat : RoundInv(n)  BY DEF BarrierInv
<1> USE DEF RoundInv
<1>2. BarrierTypeOK'  BY DEF BarrierInv, BarrierTypeOK, Reset
<1>3. InRound(n)'  BY <1>1 DEF BarrierInv, BarrierTypeOK, InRound, Reset
<1>4. Waiting(n)' = Waiting(n)  BY DEF Waiting, Reset
<1>5. Last' = Last /\ c \in Last  BY DEF BarrierInv, BarrierTypeOK, Last, Reset
<1>6. stage'[c] = "release" /\ count' = 0  BY DEF BarrierInv, BarrierTypeOK, Reset
<1>7. Counted(n)'  BY <1>1, <1>4, <1>5, <1>6 DEF Counted
<1> QED  BY <1>2, <1>3, <1>7 DEF BarrierInv

(* While the last hart resets and releases, all others spin.                *)
LEMMA LastAlone ==
    ASSUME BarrierInv, NEW n \in Nat, RoundInv(n), NEW c \in Cores, stage[c] = "release"
    PROVE  /\ count = 0
           /\ \A d \in Cores : entered[d] = n + 1 /\ (d # c => stage[d] = "spin")
<1>1. c \in Last  BY DEF Last
<1>2. \A d \in Cores : entered[d] = n + 1  BY <1>1 DEF RoundInv, Counted, Waiting
<1>3. \A d \in Cores : stage[d] # "out"  BY <1>2 DEF RoundInv, InRound
<1>4. \A d \in Cores : d # c => d \notin Last  BY <1>1 DEF RoundInv, Counted
<1> QED  BY <1>2, <1>3, <1>4 DEF RoundInv, Counted, BarrierInv, BarrierTypeOK, Last

(* The last hart turns the sense, which opens the next round.               *)
LEMMA ReleaseInv ==
    ASSUME BarrierInv, NEW c \in Cores, Release(c)
    PROVE  BarrierInv'
<1>1. PICK n \in Nat : RoundInv(n)  BY DEF BarrierInv
<1>2. /\ count = 0
      /\ \A d \in Cores : entered[d] = n + 1 /\ (d # c => stage[d] = "spin")
  BY <1>1, LastAlone DEF Release
<1>3. \A d \in Cores : threadsense[d] = 1 - sense /\ entered[d] = left[d] + 1
  BY <1>1, <1>2 DEF RoundInv, InRound, Release
<1>4. BarrierTypeOK'  BY DEF BarrierInv, BarrierTypeOK, Release
<1>5. sense' = 1 - sense  BY <1>3 DEF Release
<1>6. InRound(n + 1)'
  BY <1>2, <1>3, <1>5 DEF BarrierInv, BarrierTypeOK, InRound, Release
<1>7. Waiting(n + 1)' = {}  BY <1>2 DEF Waiting, Release
<1>8. \A d \in Cores : stage'[d] \in {"out", "spin"}
  BY <1>2 DEF BarrierInv, BarrierTypeOK, Release
<1>9. Last' = {}  BY <1>8 DEF Last
<1>10. Counted(n + 1)'
  BY <1>2, <1>7, <1>8, <1>9, CoresAssumption, FS_EmptySet DEF Counted, Release
<1> QED  BY <1>4, <1>6, <1>10 DEF BarrierInv, RoundInv

(* A hart whose sense has come leaves, into the same round as the last one. *)
LEMMA SpinInv ==
    ASSUME BarrierInv, NEW c \in Cores, Spin(c)
    PROVE  BarrierInv'
<1>1. PICK n \in Nat : RoundInv(n)  BY DEF BarrierInv
<1> USE DEF RoundInv
<1>2. entered[c] = n /\ entered[c] = left[c] + 1
  BY <1>1 DEF InRound, Spin, BarrierInv, BarrierTypeOK
<1>3. BarrierTypeOK'  BY DEF BarrierInv, BarrierTypeOK, Spin
<1>4. InRound(n)'  BY <1>1, <1>2 DEF BarrierInv, BarrierTypeOK, InRound, Spin
<1>5. Waiting(n)' = Waiting(n)  BY DEF Waiting, Spin
<1>6. Last' = Last /\ \A d \in Cores : (stage'[d] = "release") <=> (stage[d] = "release")
  BY DEF BarrierInv, BarrierTypeOK, Last, Spin
<1>7. count' = count  BY DEF Spin
<1>8. Counted(n)'  BY <1>1, <1>5, <1>6, <1>7 DEF Counted
<1> QED  BY <1>3, <1>4, <1>8 DEF BarrierInv

(* Every step of barrier() keeps the rounds in order.                       *)
LEMMA BarrierStepInv ==
    ASSUME BarrierInv, NEW c \in Cores, BarrierStep(c)
    PROVE  BarrierInv'
BY ArriveInv, ResetInv, ReleaseInv, SpinInv DEF BarrierStep

(* So does a step of a hart outside it.                                     *)
LEMMA BarrierStutterInv == ASSUME BarrierInv, UNCHANGED barrierVars PROVE BarrierInv'
<1>1. PICK n \in Nat : RoundInv(n)  BY DEF BarrierInv
<1>2. Waiting(n)' = Waiting(n) /\ Last' = Last  BY DEF Waiting, Last, barrierVars
<1>3. Counted(n)'  BY <1>1, <1>2 DEF RoundInv, Counted, barrierVars
<1>4. InRound(n)'  BY <1>1 DEF RoundInv, InRound, barrierVars
<1>5. BarrierTypeOK'  BY DEF BarrierInv, BarrierTypeOK, barrierVars
<1> QED  BY <1>3, <1>4, <1>5 DEF BarrierInv, RoundInv

(* The counter, the two senses and the history stay in the relation above.  *)
THEOREM BarrierAlwaysInv == BarrierSpec => []BarrierInv
<1>1. BarrierInv /\ [\E c \in Cores : BarrierStep(c)]_barrierVars => BarrierInv'
  BY BarrierStepInv, BarrierStutterInv
<1> QED  BY BarrierInitInv, <1>1, PTL DEF BarrierSpec

(* A step of the real barrier is a step of the promised one, or invisible.  *)
LEMMA StepKeepsPromise ==
    ASSUME BarrierInv, NEW c \in Cores, BarrierStep(c)
    PROVE  [Promise!BNext]_(Promise!bvars)
<1> USE DEF Promise!BNext, Promise!bvars
<1>1. PICK n \in Nat : RoundInv(n)  BY DEF BarrierInv
<1>2. CASE Arrive(c)
  <2>1. left[c] = entered[c]  BY <1>1, <1>2 DEF Arrive, RoundInv, InRound
  <2> QED  BY <1>2, <2>1 DEF Arrive, Promise!BEnter
<1>3. CASE Reset(c)  BY <1>3 DEF Reset
<1>4. CASE Release(c)
  <2>1. \A d \in Cores : entered[d] = n + 1  BY <1>1, <1>4, LastAlone DEF Release
  <2>2. entered[c] = left[c] + 1  BY <1>1, <1>4 DEF Release, RoundInv, InRound
  <2>3. left[c] < entered[c] /\ \A d \in Cores : entered[d] >= entered[c]
    BY <2>1, <2>2 DEF BarrierInv, BarrierTypeOK
  <2> QED  BY <1>4, <2>3 DEF Release, Promise!BLeave
<1>5. CASE Spin(c)
  <2>1. entered[c] = n /\ entered[c] = left[c] + 1
    BY <1>1, <1>5 DEF RoundInv, InRound, Spin, BarrierInv, BarrierTypeOK
  <2>2. left[c] < entered[c] /\ \A d \in Cores : entered[d] >= entered[c]
    BY <1>1, <2>1 DEF RoundInv, InRound, BarrierInv, BarrierTypeOK
  <2> QED  BY <1>5, <2>2 DEF Spin, Promise!BLeave
<1> QED  BY <1>2, <1>3, <1>4, <1>5 DEF BarrierStep

(* barrier() lets no hart out before every hart has made the same number of *)
(* calls: the sense-reversing barrier implements the abstract one, for any  *)
(* finite set of harts.                                                     *)
THEOREM BarrierRefinement == BarrierSpec => KeepsPromise
<1>1. BarrierInit => Promise!BInit  BY DEF BarrierInit, Promise!BInit
<1>2. BarrierInv /\ [\E c \in Cores : BarrierStep(c)]_barrierVars => [Promise!BNext]_(Promise!bvars)
  BY StepKeepsPromise DEF barrierVars, Promise!bvars
<1> QED  BY <1>1, <1>2, BarrierAlwaysInv, PTL DEF BarrierSpec, KeepsPromise, Promise!BSpec
-----------------------------------------------------------------------------
(* The harts, their lists and the barrier together.                         *)

Passed(c) == Cardinality(BarriersBefore(kernel, c, pc[c]))

(* Where a hart is in its list and where it is in barrier() agree, and the  *)
(* calls that have returned to it are the barriers of the list behind it.   *)
PlaceInv ==
    /\ kernel \in Kernels
    /\ pc \in [Cores -> Nat \ {0}]
    /\ exit \in [Cores -> {Running, 0, 1}]
    /\ \A c \in Cores :
        /\ pc[c] <= Len(Steps(c)) + 1
        /\ left[c] = Passed(c)
        /\ stage[c] # "out" => Doing(c, "barrier")

PInv == BarrierInv /\ PlaceInv

(* The barriers before a step of a list can be counted.                     *)
LEMMA BeforeIsFinite ==
    ASSUME NEW k \in Kernels, NEW c \in Cores, NEW n \in Nat \ {0}
    PROVE  /\ IsFiniteSet(BarriersBefore(k, c, n))
           /\ Cardinality(BarriersBefore(k, c, n)) \in Nat
<1>1. BarriersBefore(k, c, n) \subseteq 1 .. n - 1  BY DEF BarriersBefore
<1>2. IsFiniteSet(1 .. n - 1)  BY FS_Interval
<1> QED  BY <1>1, <1>2, FS_Subset, FS_CardinalityType

(* A step counts for the steps after it when it is a barrier.               *)
LEMMA OneMoreStep ==
    ASSUME NEW k \in Kernels, NEW c \in Cores, NEW n \in Nat \ {0}
    PROVE  /\ Plan[k][c][n].op = "barrier" =>
                  Cardinality(BarriersBefore(k, c, n + 1)) = Cardinality(BarriersBefore(k, c, n)) + 1
           /\ Plan[k][c][n].op # "barrier" =>
                  BarriersBefore(k, c, n + 1) = BarriersBefore(k, c, n)
<1>1. 1 .. (n + 1) - 1 = (1 .. n - 1) \cup {n} /\ n \notin 1 .. n - 1  OBVIOUS
<1>2. CASE Plan[k][c][n].op = "barrier"
  <2>1. BarriersBefore(k, c, n + 1) = BarriersBefore(k, c, n) \cup {n}
    BY <1>1, <1>2 DEF BarriersBefore
  <2>2. n \notin BarriersBefore(k, c, n)  BY <1>1 DEF BarriersBefore
  <2> QED  BY <1>2, <2>1, <2>2, BeforeIsFinite, FS_AddElement
<1>3. CASE Plan[k][c][n].op # "barrier"
  <2>1. BarriersBefore(k, c, n + 1) = BarriersBefore(k, c, n)
    BY <1>1, <1>3 DEF BarriersBefore
  <2> QED  BY <1>3, <2>1
<1> QED  BY <1>2, <1>3

(* Every hart starts at the head of its list, outside the barrier.          *)
LEMMA PInitInv == PInit => PInv
<1> SUFFICES ASSUME PInit PROVE PInv  OBVIOUS
<1>1. BarrierInv  BY BarrierInitInv DEF PInit
<1>2. \A c \in Cores : BarriersBefore(kernel, c, 1) = {}  BY DEF BarriersBefore
<1>3. \A c \in Cores : Passed(c) = 0  BY <1>2, FS_EmptySet DEF PInit, Passed
<1>4. \A c \in Cores : 1 <= Len(Steps(c)) + 1  BY PlanAssumption DEF PInit, Steps
<1>5. PlaceInv
  BY <1>3, <1>4 DEF PInit, BarrierInit, PlaceInv
<1> QED  BY <1>1, <1>5 DEF PInv

(* A step that is no barrier moves its hart along the list. *)
LEMMA OtherStepInv ==
    ASSUME PInv, NEW c \in Cores, Set(c) \/ Load(c) \/ Store(c) \/ Verify(c) \/ Exit(c)
    PROVE  PInv'
<1>1. UNCHANGED <<barrierVars, kernel>>
  BY DEF Set, Load, Store, Verify, Exit
<1>2. BarrierInv'  BY <1>1, BarrierStutterInv DEF PInv
<1>3. Len(Steps(c)) \in Nat /\ kernel \in Kernels  BY PlanAssumption DEF PInv, PlaceInv, Steps
<1>4. \/ pc' = pc
      \/ /\ pc' = [pc EXCEPT ![c] = @ + 1]
         /\ Has(c) /\ Current(c).op # "barrier"
  BY DEF Set, Load, Store, Verify, Exit, Advance, Doing
<1>5. exit' \in [Cores -> {Running, 0, 1}]
  BY DEF Set, Load, Store, Verify, Exit, PInv, PlaceInv
<1>6. ~Doing(c, "barrier")
  BY <1>3 DEF Set, Load, Store, Verify, Exit, Doing, Has, PInv, PlaceInv
<1>7. stage[c] = "out"  BY <1>6 DEF PInv, PlaceInv
<1>8. pc' \in [Cores -> Nat \ {0}] /\ pc'[c] <= Len(Steps(c)) + 1
  BY <1>3, <1>4 DEF PInv, PlaceInv, Has
<1>9. Passed(c)' = Passed(c)
  <2>1. CASE pc' = pc
    <3>1. BarriersBefore(kernel, c, pc[c])' = BarriersBefore(kernel, c, pc[c])
      BY <1>1, <2>1 DEF BarriersBefore
    <3> QED  BY <3>1 DEF Passed
  <2>2. CASE pc' = [pc EXCEPT ![c] = @ + 1] /\ Has(c) /\ Current(c).op # "barrier"
    <3>1. Plan[kernel][c][pc[c]].op # "barrier" /\ pc[c] \in Nat \ {0}
      BY <2>2 DEF PInv, PlaceInv, Current, Steps
    <3>2. BarriersBefore(kernel, c, pc[c] + 1) = BarriersBefore(kernel, c, pc[c])
      BY <1>3, <3>1, OneMoreStep
    <3>3. kernel' = kernel /\ pc'[c] = pc[c] + 1  BY <1>1, <2>2 DEF PInv, PlaceInv
    <3> QED  BY <3>2, <3>3 DEF Passed
  <2> QED  BY <1>4, <2>1, <2>2
<1>10. \A d \in Cores : d # c => pc'[d] = pc[d] /\ exit'[d] = exit[d]
  BY <1>4 DEF Set, Load, Store, Verify, Exit, PInv, PlaceInv
<1>11. \A d \in Cores : d # c => Passed(d)' = Passed(d)
  BY <1>1, <1>10 DEF Passed
<1>12. \A d \in Cores : Steps(d)' = Steps(d)  BY <1>1 DEF Steps
<1>13. \A d \in Cores : stage[d] # "out" => Doing(d, "barrier")'
  BY <1>7, <1>10, <1>12 DEF Doing, Has, Current, PInv, PlaceInv
<1>14. PlaceInv'
  <2>1. \A d \in Cores : pc'[d] <= Len(Steps(d)') + 1
    BY <1>8, <1>10, <1>12 DEF PInv, PlaceInv
  <2>2. \A d \in Cores : left'[d] = Passed(d)'
    BY <1>1, <1>9, <1>11 DEF PInv, PlaceInv, barrierVars
  <2>3. \A d \in Cores : stage'[d] # "out" => Doing(d, "barrier")'
    BY <1>1, <1>13 DEF barrierVars
  <2> QED  BY <1>1, <1>5, <1>8, <2>1, <2>2, <2>3 DEF PInv, PlaceInv
<1> QED  BY <1>2, <1>14 DEF PInv

(* A step in barrier() moves its hart along when it returns.                *)
LEMMA MeetInv ==
    ASSUME PInv, NEW c \in Cores, Meet(c)
    PROVE  PInv'
<1>1. BarrierInv'
  <2>1. BarrierStep(c)  BY DEF Meet, BarrierStep
  <2> QED  BY <2>1, BarrierStepInv DEF PInv
<1>2. UNCHANGED <<kernel, exit>>  BY DEF Meet
<1>3. Len(Steps(c)) \in Nat /\ kernel \in Kernels  BY PlanAssumption DEF PInv, PlaceInv, Steps
<1>4. Has(c) /\ Current(c).op = "barrier"  BY DEF Meet, Doing
<1>5. \A d \in Cores : Steps(d)' = Steps(d)  BY <1>2 DEF Steps
<1>6. CASE (Arrive(c) \/ Reset(c)) /\ UNCHANGED pc
  <2>1. left' = left /\ \A d \in Cores : d # c => stage'[d] = stage[d]
    BY <1>6 DEF Arrive, Reset, PInv, BarrierInv, BarrierTypeOK
  <2>2. \A d \in Cores : Passed(d)' = Passed(d) /\ Doing(d, "barrier")' = Doing(d, "barrier")
    BY <1>2, <1>6, <1>5 DEF Passed, Doing, Has, Current
  <2>3. \A d \in Cores : stage'[d] # "out" => Doing(d, "barrier")'
    BY <1>4, <2>1, <2>2 DEF PInv, PlaceInv, Doing
  <2>4. \A d \in Cores : pc'[d] <= Len(Steps(d)') + 1  BY <1>5, <1>6 DEF PInv, PlaceInv
  <2>5. PlaceInv'  BY <1>2, <1>6, <2>1, <2>2, <2>3, <2>4 DEF PInv, PlaceInv
  <2> QED  BY <1>1, <2>5 DEF PInv
<1>7. CASE (Release(c) \/ Spin(c)) /\ Advance(c)
  <2>1. /\ left' = [left EXCEPT ![c] = @ + 1]
        /\ stage' = [stage EXCEPT ![c] = "out"]
        /\ pc' = [pc EXCEPT ![c] = @ + 1]
    BY <1>7 DEF Release, Spin, Advance
  <2>2. stage'[c] = "out" /\ left'[c] = left[c] + 1
    BY <2>1 DEF PInv, BarrierInv, BarrierTypeOK
  <2>3. pc' \in [Cores -> Nat \ {0}] /\ pc'[c] = pc[c] + 1 /\ pc'[c] <= Len(Steps(c)) + 1
    BY <1>3, <1>4, <2>1 DEF PInv, PlaceInv, Has
  <2>4. Cardinality(BarriersBefore(kernel, c, pc[c] + 1)) = Cardinality(BarriersBefore(kernel, c, pc[c])) + 1
    BY <1>3, <1>4, OneMoreStep DEF PInv, PlaceInv, Current, Steps
  <2>5. Passed(c)' = Passed(c) + 1  BY <1>2, <2>3, <2>4 DEF Passed
  <2>6. \A d \in Cores : d # c => /\ left'[d] = left[d] /\ stage'[d] = stage[d] /\ pc'[d] = pc[d]
                                  /\ Passed(d)' = Passed(d)
    BY <1>2, <2>1 DEF Passed, PInv, PlaceInv, BarrierInv, BarrierTypeOK
  <2>7. \A d \in Cores : stage'[d] # "out" => Doing(d, "barrier")'
    BY <1>2, <1>5, <2>2, <2>6 DEF PInv, PlaceInv, Doing, Has, Current
  <2>8. \A d \in Cores : pc'[d] <= Len(Steps(d)') + 1
    BY <1>5, <2>3, <2>6 DEF PInv, PlaceInv
  <2>9. \A d \in Cores : left'[d] = Passed(d)'
    BY <2>2, <2>5, <2>6 DEF PInv, PlaceInv
  <2>10. PlaceInv'  BY <1>2, <2>3, <2>7, <2>8, <2>9 DEF PInv, PlaceInv
  <2> QED  BY <1>1, <2>10 DEF PInv
<1> QED  BY <1>6, <1>7 DEF Meet

(* A step that changes nothing.                                             *)
LEMMA PStutterInv == ASSUME PInv, UNCHANGED vars PROVE PInv'
<1>1. BarrierInv'  BY BarrierStutterInv DEF PInv, vars
<1>2. \A c \in Cores : Passed(c)' = Passed(c) /\ Doing(c, "barrier")' = Doing(c, "barrier") /\ Steps(c)' = Steps(c)
  BY DEF Passed, Doing, Has, Current, Steps, vars, programVars
<1>3. PlaceInv'  BY <1>2 DEF PInv, PlaceInv, vars, programVars, barrierVars
<1> QED  BY <1>1, <1>3 DEF PInv

(* The place in the list and the place in barrier() agree in every run.     *)
THEOREM PlaceAlwaysInv == PSpec => []PInv
<1>1. PInv /\ [PNext]_vars => PInv'
  BY OtherStepInv, MeetInv, PStutterInv DEF PNext, Hart, Stopped
<1> QED  BY PInitInv, <1>1, PTL DEF PSpec

(* Two harts that both compute have passed equally many barriers. *)
LEMMA SameRound ==
    ASSUME PInv, NEW c \in Cores, NEW d \in Cores, Accesses(c), Accesses(d)
    PROVE  Passed(c) = Passed(d)
<1>1. stage[c] = "out" /\ stage[d] = "out"
  BY DEF Accesses, PInv, PlaceInv, Doing
<1>2. PICK n \in Nat : RoundInv(n)  BY DEF PInv, BarrierInv
<1>3. left[c] = n /\ left[d] = n  BY <1>1, <1>2 DEF RoundInv, InRound
<1> QED  BY <1>3 DEF PInv, PlaceInv

(* No run of kernels that divide their work this way has a data race,       *)
(* whatever the kernels, the matrices and the number of harts.              *)
THEOREM NoDataRace == (\A k \in Kernels : Divides(k)) => (PSpec => []DataRaceFree)
<1> SUFFICES ASSUME \A k \in Kernels : Divides(k) PROVE PSpec => []DataRaceFree  OBVIOUS
<1>1. PInv => DataRaceFree
  <2> SUFFICES ASSUME PInv, NEW c \in Cores, NEW d \in Cores, c # d, Accesses(c), Accesses(d)
               PROVE  ~Conflict(Current(c), Current(d))
    BY DEF DataRaceFree
  <2>1. Cardinality(BarriersBefore(kernel, c, pc[c])) = Cardinality(BarriersBefore(kernel, d, pc[d]))
    BY SameRound DEF Passed
  <2>2. kernel \in Kernels  BY DEF PInv, PlaceInv
  <2>3. pc[c] \in DOMAIN Plan[kernel][c] /\ pc[d] \in DOMAIN Plan[kernel][d]
    BY <2>2, PlanAssumption DEF Accesses, Has, Steps, PInv, PlaceInv
  <2> QED  BY <2>1, <2>2, <2>3 DEF Divides, Accesses, Current, Steps
<1> QED  BY <1>1, PlaceAlwaysInv, PTL

(* A hart that has exited is at the end of its list. *)
ExitInv == \A c \in Cores : exit[c] = 0 => pc[c] = Len(Steps(c)) + 1

(* Only the end of thread_entry() calls exit(0).                            *)
LEMMA ExitAlwaysInv == PSpec => []ExitInv
<1>1. PInit => ExitInv  BY DEF PInit, ExitInv, Running
<1>2. PInv /\ ExitInv /\ [PNext]_vars => ExitInv'
  <2> SUFFICES ASSUME PInv, ExitInv, [PNext]_vars, NEW c \in Cores, exit'[c] = 0
               PROVE  pc'[c] = Len(Steps(c)') + 1
    BY DEF ExitInv
  <2>1. kernel' = kernel
    BY DEF PNext, Stopped, vars, programVars, Hart, Set, Load, Store, Meet, Verify, Exit
  <2>2. Steps(c)' = Steps(c) /\ Len(Steps(c)) \in Nat
    BY <2>1, PlanAssumption DEF Steps, PInv, PlaceInv
  <2>3. CASE UNCHANGED vars  BY <2>2, <2>3 DEF vars, programVars, ExitInv
  <2>4. ASSUME NEW d \in Cores, Hart(d) PROVE pc'[c] = Len(Steps(c)') + 1
    <3>1. CASE exit[c] = 0
      <4>1. c # d
        BY <2>2, <2>4, <3>1 DEF Hart, Set, Load, Store, Meet, Verify, Exit, Doing, Has, ExitInv, Running
      <4>2. pc'[c] = pc[c]
        BY <2>4, <4>1 DEF Hart, Set, Load, Store, Meet, Verify, Exit, Advance, PInv, PlaceInv
      <4> QED  BY <2>2, <3>1, <4>2 DEF ExitInv
    <3>2. CASE exit[c] # 0
      <4>1. c = d /\ Exit(d)
        BY <2>4, <3>2 DEF Hart, Set, Load, Store, Meet, Verify, Exit, PInv, PlaceInv
      <4> QED  BY <2>2, <4>1 DEF Exit, PInv, PlaceInv
    <3> QED  BY <3>1, <3>2
  <2> QED  BY <2>3, <2>4 DEF PNext, Stopped
<1> QED  BY <1>1, <1>2, PlaceAlwaysInv, PTL DEF PSpec

(* Of two steps of a hart, the earlier has no more barriers before it.      *)
LEMMA FewerBefore ==
    ASSUME NEW k \in Kernels, NEW c \in Cores, NEW m \in Nat \ {0}, NEW n \in Nat \ {0}, m <= n
    PROVE  Cardinality(BarriersBefore(k, c, m)) <= Cardinality(BarriersBefore(k, c, n))
<1>1. BarriersBefore(k, c, m) \subseteq BarriersBefore(k, c, n)  BY DEF BarriersBefore
<1> QED  BY <1>1, BeforeIsFinite, FS_Subset

(* When a hart exits with 0, all the checks of some hart lie behind it, for *)
(* every program whose other harts wait in a barrier for those checks.      *)
THEOREM VerdictIsChecked == (\A k \in Kernels : Awaits(k)) => (PSpec => []SuccessIsVerified)
<1> SUFFICES ASSUME \A k \in Kernels : Awaits(k) PROVE PSpec => []SuccessIsVerified  OBVIOUS
<1>1. PInv /\ ExitInv => SuccessIsVerified
  <2> SUFFICES ASSUME PInv, ExitInv, NEW c \in Cores, exit[c] = 0
               PROVE  \E d \in Cores :
                          Checks(kernel, d) # {} /\ \A n \in Checks(kernel, d) : n < pc[d]
    BY DEF SuccessIsVerified
  <2>1. kernel \in Kernels  BY DEF PInv, PlaceInv
  <2>2. PICK d \in Cores :
           /\ Checks(kernel, d) # {}
           /\ c # d => \A n \in Checks(kernel, d) :
                 Cardinality(BarriersBefore(kernel, d, n)) <
                 Cardinality(BarriersBefore(kernel, c, Len(Plan[kernel][c]) + 1))
    BY <2>1 DEF Awaits
  <2>3. pc[c] = Len(Plan[kernel][c]) + 1  BY DEF ExitInv, Steps
  <2> SUFFICES ASSUME NEW n \in Checks(kernel, d) PROVE n < pc[d]  BY <2>2
  <2>4. /\ n \in Nat \ {0} /\ pc[d] \in Nat \ {0} /\ n <= Len(Plan[kernel][d])
        /\ Plan[kernel][d][n].op = "verify" /\ Len(Plan[kernel][d]) \in Nat
    BY <2>1, PlanAssumption DEF Checks, PInv, PlaceInv
  <2>5. CASE c = d  BY <2>3, <2>4, <2>5
  <2>6. CASE c # d
    <3> SUFFICES ASSUME pc[d] <= n PROVE FALSE  BY <2>4
    <3>1. Cardinality(BarriersBefore(kernel, d, n)) < left[c]
      BY <2>2, <2>3, <2>6 DEF PInv, PlaceInv, Passed
    <3>2. PICK r \in Nat : RoundInv(r)  BY DEF PInv, BarrierInv
    <3>3. left[c] <= left[d] + 1 /\ (stage[d] = "out" => left[c] <= left[d])
      BY <3>2 DEF RoundInv, InRound, PInv, BarrierInv, BarrierTypeOK
    <3>4. Cardinality(BarriersBefore(kernel, d, n)) \in Nat  BY <2>1, <2>4, BeforeIsFinite
    <3>5. left[d] <= Cardinality(BarriersBefore(kernel, d, n))
      BY <2>1, <2>4, FewerBefore DEF PInv, PlaceInv, Passed
    <3>6. left[c] \in Nat /\ left[d] \in Nat  BY DEF PInv, BarrierInv, BarrierTypeOK
    <3>7. stage[d] # "out"  BY <3>1, <3>3, <3>4, <3>5, <3>6
    <3>8. Plan[kernel][d][pc[d]].op = "barrier"
      BY <3>7 DEF PInv, PlaceInv, Doing, Current, Steps
    <3>9. pc[d] + 1 <= n  BY <2>4, <3>8
    <3>10. Cardinality(BarriersBefore(kernel, d, pc[d] + 1)) = left[d] + 1
      BY <2>1, <2>4, <3>8, OneMoreStep DEF PInv, PlaceInv, Passed
    <3>11. left[d] + 1 <= Cardinality(BarriersBefore(kernel, d, n))
      BY <2>1, <2>4, <3>9, <3>10, FewerBefore
    <3> QED  BY <3>1, <3>3, <3>4, <3>6, <3>11
  <2> QED  BY <2>5, <2>6
<1> QED  BY <1>1, PlaceAlwaysInv, ExitAlwaysInv, PTL

(* The harts of every program meet in the barrier as promised. *)
THEOREM ProgramKeepsPromise == PSpec => KeepsPromise
<1>1. PInit => BarrierInit  BY DEF PInit
<1>2. [PNext]_vars => [\E c \in Cores : BarrierStep(c)]_barrierVars
  <2>1. \A c \in Cores : Hart(c) => BarrierStep(c) \/ UNCHANGED barrierVars
    BY DEF Hart, Set, Load, Store, Meet, Verify, Exit, BarrierStep
  <2> QED  BY <2>1 DEF PNext, Stopped, vars
<1>3. PSpec => BarrierSpec  BY <1>1, <1>2, PTL DEF PSpec, BarrierSpec
<1> QED  BY <1>3, BarrierRefinement
-----------------------------------------------------------------------------
(* The order of the steps of a program, and those the harts have behind     *)
(* them.                                                                    *)

(* The place of a hart in its list. *)
Here(c) == <<c, pc[c]>>

(* The step a hart is about to make is one of its kernel.                   *)
LEMMA HereIs ==
    ASSUME PInv, NEW c \in Cores, Has(c)
    PROVE  /\ Here(c) \in Places(kernel) /\ At(kernel, Here(c)) = Current(c)
           /\ Round(kernel, Here(c)) = Passed(c) /\ kernel \in Kernels
<1>1. kernel \in Kernels /\ pc[c] \in Nat \ {0}  BY DEF PInv, PlaceInv
<1>2. pc[c] \in DOMAIN Plan[kernel][c]  BY <1>1, PlanAssumption DEF Has, Steps
<1> QED  BY <1>1, <1>2 DEF Here, Places, At, Current, Steps, Round, Passed

(* A place is a hart and the number of one of its steps.                    *)
LEMMA PlaceIs ==
    ASSUME NEW k \in Kernels, NEW p \in Places(k)
    PROVE  /\ p[1] \in Cores /\ p[2] \in Nat \ {0} /\ p[2] \in DOMAIN Plan[k][p[1]] /\ p = <<p[1], p[2]>>
           /\ Round(k, p) \in Nat
<1>1. PICK c \in Cores : p \in {c} \X DOMAIN Plan[k][c]  BY DEF Places
<1>2. p[1] = c /\ p[2] \in DOMAIN Plan[k][c] /\ p = <<p[1], p[2]>>  BY <1>1
<1>3. p[2] \in Nat \ {0}  BY <1>2, PlanAssumption
<1> QED  BY <1>2, <1>3, BeforeIsFinite DEF Round

(* The order of the steps is an order. *)
LEMMA NeverBoth ==
    ASSUME NEW k \in Kernels, NEW p \in Places(k), NEW q \in Places(k), Earlier(k, p, q)
    PROVE  ~Earlier(k, q, p)
<1>1. /\ p[1] \in Cores /\ p[2] \in Nat \ {0} /\ q[1] \in Cores /\ q[2] \in Nat \ {0}
      /\ Round(k, p) \in Nat /\ Round(k, q) \in Nat
  BY PlaceIs
<1>2. p[1] = q[1] /\ p[2] < q[2] => Round(k, p) <= Round(k, q)  BY <1>1, FewerBefore DEF Round
<1>3. p[1] = q[1] /\ q[2] < p[2] => Round(k, q) <= Round(k, p)  BY <1>1, FewerBefore DEF Round
<1> QED  BY <1>1, <1>2, <1>3 DEF Earlier

(* What one more step, behind all others, leaves in their element. *)
LEMMA OneMoreStore ==
    ASSUME NEW k \in Kernels, NEW P \in SUBSET Places(k), NEW q \in Places(k),
           \A p \in P : Earlier(k, p, q)
    PROVE  /\ At(k, q).op = "set" => Content(k, P \cup {q}) = At(k, q).terms
           /\ At(k, q).op # "set" => Content(k, P \cup {q}) = Content(k, P) \cup At(k, q).terms
<1>1. \A p \in P : ~Earlier(k, q, p)  BY NeverBoth
<1>2. ~Earlier(k, q, q)  BY NeverBoth
<1> DEFINE Last_(Q) == {s \in Q : \A r \in Q : At(k, r).op = "set" => ~Earlier(k, s, r)}
<1>3. At(k, q).op = "set" => Last_(P \cup {q}) = {q}  BY <1>1, <1>2
<1>4. At(k, q).op # "set" => Last_(P \cup {q}) = Last_(P) \cup {q}  BY <1>1
<1>5. \A Q : Content(k, Q) = UNION {At(k, s).terms : s \in Last_(Q)}  BY DEF Content
<1> HIDE DEF Last_
<1>6. Content(k, P \cup {q}) = UNION {At(k, s).terms : s \in Last_(P \cup {q})}  BY <1>5
<1>7. Content(k, P) = UNION {At(k, s).terms : s \in Last_(P)}  BY <1>5
<1>8. ASSUME At(k, q).op = "set"  PROVE Content(k, P \cup {q}) = At(k, q).terms
  <2>1. Content(k, P \cup {q}) = UNION {At(k, s).terms : s \in {q}}  BY <1>3, <1>6, <1>8
  <2> QED  BY <2>1
<1>9. ASSUME At(k, q).op # "set"  PROVE Content(k, P \cup {q}) = Content(k, P) \cup At(k, q).terms
  <2> DEFINE L == Last_(P)
  <2>1. Content(k, P \cup {q}) = UNION {At(k, s).terms : s \in L \cup {q}}  BY <1>4, <1>6, <1>9
  <2>2. Content(k, P) = UNION {At(k, s).terms : s \in L}  BY <1>7
  <2> HIDE DEF L
  <2> QED  BY <2>1, <2>2
<1> QED  BY <1>8, <1>9

(* The steps the harts have behind them, and those of them that stored to x.*)
Behind == {p \in Places(kernel) : p[2] < pc[p[1]]}
StoredTo(x) == Behind \cap Stores(kernel, x)

(* A hart that moves along leaves one more step behind.                     *)
LEMMA BehindGrows ==
    ASSUME PInv, NEW c \in Cores, Has(c), Advance(c), UNCHANGED kernel
    PROVE  Behind' = Behind \cup {Here(c)} /\ Here(c) \notin Behind
<1>1. Here(c) \in Places(kernel) /\ kernel \in Kernels  BY HereIs
<1>2. pc \in [Cores -> Nat \ {0}] /\ pc' = [pc EXCEPT ![c] = @ + 1]  BY DEF PInv, PlaceInv, Advance
<1>3. Places(kernel)' = Places(kernel)  BY DEF Places
<1>4. \A p \in Places(kernel) : p[1] \in Cores /\ p[2] \in Nat \ {0} /\ p = <<p[1], p[2]>>  BY <1>1, PlaceIs
<1>5. Behind' = {p \in Places(kernel) : p[2] < pc'[p[1]]}  BY <1>3 DEF Behind
<1>6. ASSUME NEW p \in Places(kernel)  PROVE p[2] < pc'[p[1]] <=> p[2] < pc[p[1]] \/ p = Here(c)
  <2> DEFINE d == p[1]
             m == p[2]
  <2>1. d \in Cores /\ m \in Nat \ {0} /\ p = <<d, m>>  BY <1>4
  <2>2. pc[d] \in Nat /\ pc[c] \in Nat  BY <1>2, <2>1
  <2>3. d = c => pc'[d] = pc[c] + 1  BY <1>2, <2>1
  <2>4. d # c => pc'[d] = pc[d]  BY <1>2, <2>1
  <2> HIDE DEF d, m
  <2>5. p = Here(c) <=> d = c /\ m = pc[c]  BY <2>1 DEF Here
  <2>6. m < pc'[d] <=> m < pc[d] \/ (d = c /\ m = pc[c])  BY <2>1, <2>2, <2>3, <2>4
  <2> QED  BY <2>5, <2>6 DEF d, m
<1>7. Here(c) \notin Behind
  <2>1. Here(c)[1] = c /\ Here(c)[2] = pc[c] /\ pc[c] \in Nat  BY <1>2 DEF Here
  <2> QED  BY <2>1 DEF Behind
<1> QED  BY <1>1, <1>5, <1>6, <1>7 DEF Behind

(* Only steps that compute store. *)
LEMMA StoreIs ==
    ASSUME NEW k, Computes(k), NEW x, NEW p \in Stores(k, x)
    PROVE  p \in Places(k) /\ At(k, p).op \in {"set", "add"} /\ x \in Writes(At(k, p)) /\ At(k, p).terms # {}
BY DEF Stores, Computes, Writes

(* When a hart is about to touch an element, the stores to it that are      *)
(* behind the harts are those that the program puts before this step.       *)
LEMMA Synchronised ==
    ASSUME PInv, Divides(kernel), Computes(kernel), NEW c \in Cores, Accesses(c),
           NEW x \in Writes(Current(c)) \cup Reads(Current(c))
    PROVE  StoredTo(x) = {p \in Stores(kernel, x) : Earlier(kernel, p, Here(c))}
<1> DEFINE q == Here(c)
<1>1. q \in Places(kernel) /\ At(kernel, q) = Current(c) /\ Round(kernel, q) = left[c] /\ kernel \in Kernels
  BY HereIs DEF Accesses, PInv, PlaceInv
<1>2. q[1] = c /\ q[2] = pc[c] /\ pc[c] \in Nat \ {0} /\ Current(c).op # "barrier"  BY DEF Here, Accesses, PInv, PlaceInv
<1>3. stage[c] = "out"  BY DEF Accesses, PInv, PlaceInv, Doing
<1>4. PICK n \in Nat : RoundInv(n)  BY DEF PInv, BarrierInv
<1>5. left[c] = n  BY <1>3, <1>4 DEF RoundInv, InRound
<1> SUFFICES ASSUME NEW p \in Stores(kernel, x)
             PROVE  p[2] < pc[p[1]] <=> Earlier(kernel, p, q)
  BY DEF StoredTo, Behind, Stores
<1> DEFINE d == p[1]
           m == p[2]
<1>6. /\ p \in Places(kernel) /\ At(kernel, p).op \in {"set", "add"} /\ x \in Writes(At(kernel, p))
      /\ d \in Cores /\ m \in Nat \ {0} /\ m \in DOMAIN Plan[kernel][d] /\ Round(kernel, p) \in Nat
      /\ At(kernel, p) = Plan[kernel][d][m]
  BY <1>1, StoreIs, PlaceIs DEF At
<1>7. pc[d] \in Nat \ {0} /\ left[d] = Passed(d) /\ left[d] \in Nat  BY <1>6 DEF PInv, PlaceInv, BarrierInv, BarrierTypeOK
<1>8. left[d] <= n /\ (stage[d] = "out" => left[d] = n) /\ (stage[d] # "out" => left[d] + 1 >= n)
  BY <1>4, <1>6, <1>7 DEF RoundInv, InRound
<1> HIDE DEF d, m, q
<1>9. Round(kernel, p) = Cardinality(BarriersBefore(kernel, d, m))  BY DEF Round, d, m
<1>10. CASE d = c  
  <2>1. m < pc[d] => Earlier(kernel, p, q)  BY <1>2, <1>10 DEF Earlier, d, m
  <2>2. ASSUME Earlier(kernel, p, q)  PROVE m < pc[d]
    <3>1. CASE Round(kernel, p) < Round(kernel, q)
      <4>1. pc[d] <= m => left[d] <= Round(kernel, p)  BY <1>1, <1>6, <1>7, <1>9, FewerBefore DEF Passed
      <4> QED  BY <1>1, <1>6, <1>7, <1>10, <3>1, <4>1
    <3>2. CASE m < pc[c]  BY <1>10, <3>2
    <3> QED  BY <1>2, <2>2, <3>1, <3>2 DEF Earlier, d, m
  <2> QED  BY <2>1, <2>2 DEF d, m
<1>11. CASE d # c
  <2>1. Earlier(kernel, p, q) <=> Round(kernel, p) < n  BY <1>1, <1>2, <1>5, <1>11 DEF Earlier, d, m
  <2>2. ASSUME m < pc[d]  PROVE Round(kernel, p) < n
    <3>1. Round(kernel, p) <= left[d]  BY <1>1, <1>6, <1>7, <1>9, <2>2, FewerBefore DEF Passed
    <3>2. Round(kernel, p) # n
      <4> SUFFICES ASSUME Round(kernel, p) = n  PROVE FALSE  OBVIOUS
      <4>1. /\ m \in DOMAIN Plan[kernel][d] /\ pc[c] \in DOMAIN Plan[kernel][c]
            /\ Plan[kernel][d][m].op # "barrier" /\ Plan[kernel][c][pc[c]].op # "barrier"
            /\ Plan[kernel][c][pc[c]] = Current(c)
        BY <1>1, <1>2, <1>6, PlanAssumption DEF Accesses, Has, Current, Steps
      <4>2. Cardinality(BarriersBefore(kernel, d, m)) = Cardinality(BarriersBefore(kernel, c, pc[c]))
        BY <1>1, <1>2, <1>5, <1>9 DEF Round, q, Here
      <4>3. ~Conflict(Plan[kernel][d][m], Plan[kernel][c][pc[c]])  BY <1>6, <1>11, <4>1, <4>2 DEF Divides
      <4> QED  BY <1>6, <4>1, <4>3 DEF Conflict
    <3> QED  BY <1>6, <1>7, <1>8, <3>1, <3>2
  <2>3. ASSUME Round(kernel, p) < n  PROVE m < pc[d]
    <3> SUFFICES ASSUME pc[d] <= m  PROVE FALSE  BY <1>6, <1>7
    <3>1. left[d] <= Round(kernel, p)  BY <1>1, <1>6, <1>7, <1>9, FewerBefore DEF Passed
    <3>2. stage[d] # "out"  BY <1>6, <1>7, <1>8, <2>3, <3>1
    <3>3. Plan[kernel][d][pc[d]].op = "barrier"  BY <1>6, <3>2 DEF PInv, PlaceInv, Doing, Current, Steps
    <3>4. pc[d] # m  BY <1>6, <3>3
    <3>5. Cardinality(BarriersBefore(kernel, d, pc[d] + 1)) = left[d] + 1
      BY <1>1, <1>6, <1>7, <3>3, OneMoreStep DEF Passed
    <3>6. pc[d] + 1 \in Nat \ {0} /\ pc[d] + 1 <= m  BY <1>6, <1>7, <3>4
    <3>7. left[d] + 1 <= Round(kernel, p)  BY <1>1, <1>6, <1>9, <3>5, <3>6, FewerBefore
    <3> QED  BY <1>6, <1>7, <1>8, <2>3, <3>2, <3>7
  <2> QED  BY <2>1, <2>2, <2>3 DEF d, m
<1> QED  BY <1>10, <1>11 DEF q, d, m
-----------------------------------------------------------------------------
(* The contents of the arrays.                                              *)

(* The arrays hold what the steps behind the harts make of them, and a load *)
(* that has not been stored yet is still what its element holds.            *)
Holds(x) == /\ mem[x] = Content(kernel, StoredTo(x))
            /\ StoredTo(x) # {} => mem[x] # {}

MemInv ==
    /\ DOMAIN mem = DOMAIN Expected[kernel] \cup Scratch
    /\ \A x \in DOMAIN mem : Holds(x)
    /\ DOMAIN reg = Cores
    /\ \A c \in Cores : DOMAIN reg[c] # {} =>
          /\ Doing(c, "add")
          /\ \A x \in Current(c).cells : reg[c][x] = mem[x]

ComputeInv == MemInv /\ VerifyPasses

Sound == \A k \in Kernels : Divides(k) /\ Stays(k) /\ Computes(k)

(* Nothing is stored yet.                                                   *)
LEMMA ComputeInit == PInit => ComputeInv
<1> SUFFICES ASSUME PInit  PROVE ComputeInv  OBVIOUS
<1>1. /\ pc = [c \in Cores |-> 1] /\ exit = [c \in Cores |-> Running] /\ reg = [c \in Cores |-> Nothing]
      /\ mem = [x \in DOMAIN Expected[kernel] \cup Scratch |-> {}] /\ kernel \in Kernels
  BY DEF PInit
<1>2. Behind = {}
  <2> SUFFICES ASSUME NEW p \in Places(kernel)  PROVE ~(p[2] < pc[p[1]])  BY DEF Behind
  <2>1. p[1] \in Cores /\ p[2] \in Nat \ {0}  BY <1>1, PlaceIs
  <2> QED  BY <1>1, <2>1
<1>3. \A x : StoredTo(x) = {}  BY <1>2 DEF StoredTo
<1>4. \A x : Content(kernel, StoredTo(x)) = {}
  <2>1. Content(kernel, {}) = {}  BY DEF Content
  <2> QED  BY <1>3, <2>1
<1>5. DOMAIN Nothing = {}  BY DEF Nothing
<1>6. \A c \in Cores : DOMAIN reg[c] = {}  BY <1>1, <1>5
<1>7. VerifyPasses  BY <1>1 DEF VerifyPasses, Running
<1>8. \A x \in DOMAIN mem : mem[x] = {}  BY <1>1
<1>9. DOMAIN reg = Cores /\ DOMAIN mem = DOMAIN Expected[kernel] \cup Scratch  BY <1>1
<1>10. MemInv  BY <1>3, <1>4, <1>6, <1>8, <1>9 DEF MemInv, Holds
<1> QED  BY <1>7, <1>10 DEF ComputeInv

(* What a step makes of the elements it stores to and of all others.        *)
LEMMA StoredToGrows ==
    ASSUME PInv, NEW c \in Cores, Has(c), Advance(c), UNCHANGED kernel, NEW x
    PROVE  /\ x \in Current(c).cells => StoredTo(x)' = StoredTo(x) \cup {Here(c)}
           /\ x \notin Current(c).cells => StoredTo(x)' = StoredTo(x)
<1>1. Behind' = Behind \cup {Here(c)}  BY BehindGrows
<1>2. Stores(kernel, x)' = Stores(kernel, x)  BY DEF Stores, Places, At
<1>3. Here(c) \in Places(kernel) /\ At(kernel, Here(c)) = Current(c)  BY HereIs
<1>4. Here(c) \in Stores(kernel, x) <=> x \in Current(c).cells  BY <1>3 DEF Stores
<1> QED  BY <1>1, <1>2, <1>4 DEF StoredTo

(* What the next step needs is there, and it adds no term twice.            *)
LEMMA StepIsSound ==
    ASSUME PInv, MemInv, Sound, NEW c \in Cores, Has(c), Current(c).op \in {"set", "add"}
    PROVE  /\ Product(Current(c)) = Current(c).terms /\ Current(c).terms # {}
           /\ Current(c).cells \subseteq DOMAIN mem
           /\ \A x \in Current(c).cells :
                /\ Current(c).op = "add" => mem[x] \cap Current(c).terms = {}
                /\ Content(kernel, StoredTo(x) \cup {Here(c)}) =
                      IF Current(c).op = "set" THEN Current(c).terms ELSE mem[x] \cup Current(c).terms
<1> DEFINE q == Here(c)
           s == Current(c)
<1>1. q \in Places(kernel) /\ At(kernel, q) = s /\ kernel \in Kernels  BY HereIs
<1>2. Divides(kernel) /\ Stays(kernel) /\ Computes(kernel)  BY <1>1 DEF Sound
<1>3. Accesses(c)  BY DEF Accesses
<1>4. s.terms # {}  BY <1>1, <1>2 DEF Computes
<1>5. s.cells \subseteq DOMAIN mem /\ s.uses \subseteq DOMAIN mem
  BY <1>1, <1>2 DEF Stays, MemInv, Writes, Reads
<1>6. \A x \in s.cells \cup s.uses : StoredTo(x) = {p \in Stores(kernel, x) : Earlier(kernel, p, q)}
  BY <1>2, <1>3, Synchronised DEF Writes, Reads
<1>7. \A x \in s.cells : q \in Stores(kernel, x)  BY <1>1 DEF Stores
<1>8. ASSUME NEW x \in s.uses  PROVE mem[x] # {}
  <2>1. q \in Needs(kernel, x)  BY <1>1 DEF Needs
  <2>2. {p \in Stores(kernel, x) : Earlier(kernel, p, q)} # {}  BY <1>2, <1>5, <2>1 DEF Computes, MemInv
  <2> QED  BY <1>5, <1>6, <2>2 DEF MemInv, Holds
<1>9. Product(s) = s.terms  BY <1>8 DEF Product
<1>10. ASSUME NEW x \in s.cells, s.op = "add"  PROVE mem[x] \cap s.terms = {}
  <2>1. Content(kernel, {p \in Stores(kernel, x) : Earlier(kernel, p, q)}) \cap At(kernel, q).terms = {}
    BY <1>1, <1>2, <1>5, <1>7, <1>10 DEF Computes, MemInv
  <2> QED  BY <1>1, <1>5, <1>6, <2>1 DEF MemInv, Holds
<1>11. ASSUME NEW x \in s.cells
       PROVE  Content(kernel, StoredTo(x) \cup {q}) = IF s.op = "set" THEN s.terms ELSE mem[x] \cup s.terms
  <2> DEFINE P == StoredTo(x)
  <2>1. P \in SUBSET Places(kernel) /\ \A p \in P : Earlier(kernel, p, q)  BY <1>6 DEF Stores
  <2>2. mem[x] = Content(kernel, P)  BY <1>5 DEF MemInv, Holds
  <2> HIDE DEF P, q
  <2>3. /\ At(kernel, q).op = "set" => Content(kernel, P \cup {q}) = At(kernel, q).terms
        /\ At(kernel, q).op # "set" => Content(kernel, P \cup {q}) = Content(kernel, P) \cup At(kernel, q).terms
    BY <1>1, <2>1, OneMoreStore
  <2> QED  BY <1>1, <2>2, <2>3 DEF P
<1> QED  BY <1>4, <1>5, <1>9, <1>10, <1>11

(* Content is a matter of the program alone.                                *)
LEMMA SameContent ==
    ASSUME kernel' = kernel, NEW x, NEW Q, StoredTo(x)' = Q
    PROVE  Content(kernel, StoredTo(x))' = Content(kernel, Q)
BY DEF Content, At, Earlier, Round, BarriersBefore

(* A step that computes.                                                    *)
LEMMA StoreKeeps ==
    ASSUME PInv, ComputeInv, Sound, NEW c \in Cores, Has(c), Current(c).op \in {"set", "add"},
           Advance(c), UNCHANGED <<kernel, exit>>,
           mem' = [x \in DOMAIN mem |-> IF x \in Current(c).cells
                       THEN IF Current(c).op = "set" THEN Current(c).terms ELSE mem[x] \cup Current(c).terms
                       ELSE mem[x]],
           DOMAIN reg' = Cores, DOMAIN reg'[c] = {}, \A d \in Cores : d # c => reg'[d] = reg[d]
    PROVE  ComputeInv'
<1> DEFINE s == Current(c)
<1>1. MemInv  BY DEF ComputeInv
<1>2. /\ s.terms # {}
      /\ \A x \in s.cells : Content(kernel, StoredTo(x) \cup {Here(c)}) =
                               IF s.op = "set" THEN s.terms ELSE mem[x] \cup s.terms
  BY <1>1, StepIsSound
<1>3. DOMAIN mem' = DOMAIN mem  OBVIOUS
<1>4. ASSUME NEW x \in DOMAIN mem  PROVE Holds(x)'
  <2>1. kernel' = kernel  OBVIOUS
  <2>3. CASE x \in s.cells
    <3>1. StoredTo(x)' = StoredTo(x) \cup {Here(c)}  BY <2>3, StoredToGrows
    <3>2. mem'[x] = IF s.op = "set" THEN s.terms ELSE mem[x] \cup s.terms  BY <1>4, <2>3
    <3>3. mem'[x] = Content(kernel, StoredTo(x) \cup {Here(c)})  BY <1>2, <2>3, <3>2
    <3>4. mem'[x] # {}  BY <1>2, <3>2
    <3>5. Content(kernel, StoredTo(x))' = Content(kernel, StoredTo(x) \cup {Here(c)})  BY <2>1, <3>1, SameContent
    <3> QED  BY <3>3, <3>4, <3>5 DEF Holds
  <2>4. CASE x \notin s.cells
    <3>1. StoredTo(x)' = StoredTo(x) /\ mem'[x] = mem[x]  BY <1>4, <2>4, StoredToGrows
    <3>2. Content(kernel, StoredTo(x))' = Content(kernel, StoredTo(x))  BY <2>1, <3>1, SameContent
    <3> QED  BY <1>1, <1>4, <3>1, <3>2 DEF MemInv, Holds
  <2> QED  BY <2>3, <2>4
<1>5. ASSUME NEW d \in Cores, DOMAIN reg'[d] # {}
      PROVE  Doing(d, "add")' /\ \A x \in Current(d)'.cells : reg'[d][x] = mem'[x]
  <2>1. d # c /\ DOMAIN reg[d] # {} /\ reg'[d] = reg[d]  BY <1>5
  <2>2. Doing(d, "add") /\ \A x \in Current(d).cells : reg[d][x] = mem[x]  BY <1>1, <2>1 DEF MemInv
  <2>3. pc'[d] = pc[d]  BY <2>1 DEF Advance, PInv, PlaceInv
  <2>4. Current(d)' = Current(d) /\ Doing(d, "add")' = Doing(d, "add")
    BY <2>3 DEF Current, Doing, Has, Steps
  <2>5. Accesses(c) /\ Accesses(d)  BY <2>2 DEF Accesses, Doing
  <2>6. ~Conflict(Current(c), Current(d))
    <3>1. kernel \in Kernels /\ Divides(kernel)  BY HereIs DEF Sound
    <3>2. Passed(c) = Passed(d)  BY <2>5, SameRound
    <3>3. pc[c] \in DOMAIN Plan[kernel][c] /\ pc[d] \in DOMAIN Plan[kernel][d]
      BY <2>5, <3>1, PlanAssumption DEF Accesses, Has, Steps, PInv, PlaceInv
    <3> QED  BY <2>1, <2>5, <3>1, <3>2, <3>3 DEF Divides, Accesses, Current, Steps, Passed
  <2>7. Current(d).cells \cap s.cells = {}
    BY <2>6 DEF Conflict, Writes, Reads
  <2>8. Current(d).cells \subseteq DOMAIN mem
    <3>1. Current(d).op = "add" /\ Has(d)  BY <2>2 DEF Doing
    <3> QED  BY <1>1, <3>1, StepIsSound
  <2> QED  BY <2>1, <2>2, <2>4, <2>7, <2>8
<1>6. MemInv'  BY <1>1, <1>3, <1>4, <1>5 DEF MemInv
<1> QED  BY <1>6 DEF ComputeInv, VerifyPasses

(* C[..] = sum leaves the product, whoever runs beside it.                  *)
LEMMA SetKeeps == ASSUME PInv, ComputeInv, Sound, NEW c \in Cores, Set(c)  PROVE ComputeInv'
<1> DEFINE s == Current(c)
<1>1. /\ Has(c) /\ s.op = "set" /\ Advance(c) /\ UNCHANGED <<kernel, exit>> /\ reg' = reg
      /\ mem' = [x \in DOMAIN mem |-> IF x \in s.cells THEN Product(s) ELSE mem[x]]
  BY DEF Set, Doing
<1>2. MemInv /\ Product(s) = s.terms  BY <1>1, StepIsSound DEF ComputeInv
<1>3. DOMAIN reg = Cores /\ DOMAIN reg[c] = {}  BY <1>1, <1>2 DEF MemInv, Doing
<1>4. mem' = [x \in DOMAIN mem |-> IF x \in s.cells
                 THEN IF s.op = "set" THEN s.terms ELSE mem[x] \cup s.terms
                 ELSE mem[x]]
  BY <1>1, <1>2
<1> QED  BY <1>1, <1>3, <1>4, StoreKeeps

(* The store of C[..] += sum finds what the load found: no update is lost.  *)
LEMMA AddKeeps == ASSUME PInv, ComputeInv, Sound, NEW c \in Cores, Store(c)  PROVE ComputeInv'
<1> DEFINE s == Current(c)
<1>1. /\ Has(c) /\ s.op = "add" /\ Advance(c) /\ UNCHANGED <<kernel, exit>> /\ reg' = [reg EXCEPT ![c] = Nothing]
      /\ mem' = [x \in DOMAIN mem |-> IF x \in s.cells THEN Plus(reg[c][x], Product(s)) ELSE mem[x]]
      /\ DOMAIN reg[c] # {}
  BY DEF Store, Doing
<1>2. MemInv /\ Product(s) = s.terms /\ \A x \in s.cells : mem[x] \cap s.terms = {}
  BY <1>1, StepIsSound DEF ComputeInv
<1>3. \A x \in s.cells : reg[c][x] = mem[x]  BY <1>1, <1>2 DEF MemInv
<1>4. \A x \in s.cells : Plus(reg[c][x], Product(s)) = mem[x] \cup s.terms  BY <1>2, <1>3 DEF Plus
<1>5. mem' = [x \in DOMAIN mem |-> IF x \in s.cells
                 THEN IF s.op = "set" THEN s.terms ELSE mem[x] \cup s.terms
                 ELSE mem[x]]
  <2>1. s.op # "set"  BY <1>1
  <2> QED  BY <1>1, <1>4, <2>1
<1>6. DOMAIN Nothing = {}  BY DEF Nothing
<1>7. DOMAIN reg' = Cores /\ DOMAIN reg'[c] = {} /\ \A d \in Cores : d # c => reg'[d] = reg[d]
  BY <1>1, <1>2, <1>6 DEF MemInv
<1> QED  BY <1>1, <1>5, <1>7, StoreKeeps

(* A step that stores nothing.                                              *)
LEMMA QuietKeeps ==
    ASSUME PInv, ComputeInv, Sound, NEW c \in Cores, UNCHANGED <<kernel, reg, mem>>,
           \/ UNCHANGED pc
           \/ Has(c) /\ Current(c).op \notin {"set", "add"} /\ Advance(c),
           \A d \in Cores : Doing(d, "add") => exit'[d] = exit[d],
           VerifyPasses'
    PROVE  ComputeInv'
<1>1. MemInv /\ kernel \in Kernels  BY DEF ComputeInv, PInv, PlaceInv
<1>2. \A x : StoredTo(x)' = StoredTo(x)
  <2>1. CASE UNCHANGED pc  BY <2>1 DEF StoredTo, Behind, Stores, Places, At
  <2>2. CASE Has(c) /\ Current(c).op \notin {"set", "add"} /\ Advance(c)
    <3>1. Current(c).cells = {}  BY <1>1, <2>2, HereIs DEF Sound, Computes
    <3> QED  BY <2>2, <3>1, StoredToGrows
  <2> QED  BY <2>1, <2>2
<1>3. ASSUME NEW x \in DOMAIN mem  PROVE Holds(x)'
  <2>1. StoredTo(x)' = StoredTo(x)  BY <1>2
  <2>2. Content(kernel, StoredTo(x))' = Content(kernel, StoredTo(x))  BY <2>1, SameContent
  <2> QED  BY <1>1, <1>3, <2>1, <2>2 DEF MemInv, Holds
<1>4. ASSUME NEW d \in Cores, DOMAIN reg[d] # {}
      PROVE  Doing(d, "add")' /\ \A x \in Current(d)'.cells : reg'[d][x] = mem'[x]
  <2>1. Doing(d, "add") /\ \A x \in Current(d).cells : reg[d][x] = mem[x]  BY <1>1, <1>4 DEF MemInv
  <2>2. pc'[d] = pc[d]
    <3>1. CASE UNCHANGED pc  BY <3>1
    <3>2. CASE Has(c) /\ Current(c).op \notin {"set", "add"} /\ Advance(c)
      <4>1. d # c  BY <2>1, <3>2 DEF Doing
      <4> QED  BY <3>2, <4>1 DEF Advance, PInv, PlaceInv
    <3> QED  BY <3>1, <3>2
  <2>3. exit'[d] = exit[d]  BY <2>1
  <2>4. Current(d)' = Current(d) /\ (Doing(d, "add") => Doing(d, "add")')
    BY <2>2, <2>3 DEF Current, Doing, Has, Steps
  <2> QED  BY <2>1, <2>4
<1>5. MemInv'  BY <1>1, <1>3, <1>4 DEF MemInv
<1> QED  BY <1>5 DEF ComputeInv

(* The load of C[..] += sum takes what the element holds.                   *)
LEMMA LoadKeeps == ASSUME PInv, ComputeInv, Sound, NEW c \in Cores, Load(c)  PROVE ComputeInv'
<1>1. /\ Doing(c, "add") /\ reg' = [reg EXCEPT ![c] = [x \in Current(c).cells |-> mem[x]]]
      /\ UNCHANGED <<kernel, pc, mem, exit>>
  <2>1. Current(c).cells \subseteq DOMAIN mem  BY HereIs DEF Load, Doing, Sound, Stays, Writes, ComputeInv, MemInv, PInv, PlaceInv
  <2> QED  BY <2>1 DEF Load, Held
<1>2. MemInv  BY DEF ComputeInv
<1>3. \A x : StoredTo(x)' = StoredTo(x)  BY <1>1 DEF StoredTo, Behind, Stores, Places, At
<1>4. ASSUME NEW x \in DOMAIN mem  PROVE Holds(x)'
  <2>1. StoredTo(x)' = StoredTo(x)  BY <1>3
  <2>2. Content(kernel, StoredTo(x))' = Content(kernel, StoredTo(x))  BY <1>1, <2>1, SameContent
  <2> QED  BY <1>1, <1>2, <1>4, <2>1, <2>2 DEF MemInv, Holds
<1>5. ASSUME NEW d \in Cores, DOMAIN reg'[d] # {}
      PROVE  Doing(d, "add")' /\ \A x \in Current(d)'.cells : reg'[d][x] = mem'[x]
  <2>1. Current(d)' = Current(d) /\ (Doing(d, "add") => Doing(d, "add")')  BY <1>1 DEF Current, Doing, Has, Steps
  <2>2. CASE d = c  BY <1>1, <1>2, <2>1, <2>2 DEF MemInv
  <2>3. CASE d # c
    <3>1. reg'[d] = reg[d]  BY <1>1, <1>2, <2>3 DEF MemInv
    <3> QED  BY <1>1, <1>2, <1>5, <2>1, <3>1 DEF MemInv
  <2> QED  BY <2>2, <2>3
<1>6. MemInv'  BY <1>1, <1>2, <1>4, <1>5 DEF MemInv
<1>7. VerifyPasses'  BY <1>1 DEF ComputeInv, VerifyPasses
<1> QED  BY <1>6, <1>7 DEF ComputeInv

(* A barrier touches no array.                                              *)
LEMMA MeetKeeps == ASSUME PInv, ComputeInv, Sound, NEW c \in Cores, Meet(c)  PROVE ComputeInv'
<1>1. /\ UNCHANGED <<kernel, reg, mem, exit>> /\ Has(c) /\ Current(c).op = "barrier"
      /\ UNCHANGED pc \/ Advance(c)
  BY DEF Meet, Doing
<1>2. VerifyPasses'  BY <1>1 DEF ComputeInv, VerifyPasses
<1>3. \A d \in Cores : Doing(d, "add") => exit'[d] = exit[d]  BY <1>1
<1>4. Current(c).op \notin {"set", "add"}  BY <1>1
<1> QED  BY <1>1, <1>2, <1>3, <1>4, QuietKeeps

(* verify() finds every result right.                                       *)
LEMMA VerifyKeeps == ASSUME PInv, ComputeInv, Sound, NEW c \in Cores, Verify(c)  PROVE ComputeInv'
<1> DEFINE q == Here(c)
<1>1. Has(c) /\ Current(c).op = "verify" /\ UNCHANGED <<kernel, reg, mem>>  BY DEF Verify, Doing
<1>2. q \in Places(kernel) /\ At(kernel, q) = Current(c) /\ kernel \in Kernels  BY <1>1, HereIs
<1>3. Divides(kernel) /\ Computes(kernel) /\ MemInv /\ Accesses(c)  BY <1>1, <1>2 DEF Sound, ComputeInv, Accesses
<1>4. q \in Verifies(kernel)  BY <1>1, <1>2 DEF Verifies
<1>5. ASSUME NEW x \in DOMAIN Expected[kernel]  PROVE mem[x] = Expected[kernel][x]
  <2>1. x \in Reads(Current(c))  BY <1>2, <1>3, <1>4 DEF Computes, Reads
  <2>2. StoredTo(x) = {p \in Stores(kernel, x) : Earlier(kernel, p, q)}  BY <1>3, <2>1, Synchronised
  <2>3. Content(kernel, {p \in Stores(kernel, x) : Earlier(kernel, p, q)}) = Expected[kernel][x]
    BY <1>3, <1>4 DEF Computes
  <2> QED  BY <1>3, <2>2, <2>3 DEF MemInv, Holds
<1>6. Right  BY <1>5 DEF Right
<1>7. Advance(c) /\ UNCHANGED exit  BY <1>6 DEF Verify
<1>8. VerifyPasses'  BY <1>7 DEF ComputeInv, VerifyPasses
<1>9. \A d \in Cores : Doing(d, "add") => exit'[d] = exit[d]  BY <1>7
<1>10. Current(c).op \notin {"set", "add"}  BY <1>1
<1> QED  BY <1>1, <1>7, <1>8, <1>9, <1>10, QuietKeeps

(* The end of a hart touches no array.                                      *)
LEMMA ExitKeeps == ASSUME PInv, ComputeInv, Sound, NEW c \in Cores, Exit(c)  PROVE ComputeInv'
<1>1. /\ UNCHANGED <<kernel, pc, reg, mem>> /\ exit[c] = Running /\ exit' = [exit EXCEPT ![c] = 0]
      /\ ~(pc[c] <= Len(Steps(c)))
  <2>1. pc[c] \in Nat /\ Len(Steps(c)) \in Nat  BY PlanAssumption DEF PInv, PlaceInv, Steps
  <2> QED  BY <2>1 DEF Exit
<1>2. exit \in [Cores -> {Running, 0, 1}]  BY DEF PInv, PlaceInv
<1>3. VerifyPasses'  BY <1>1, <1>2 DEF ComputeInv, VerifyPasses
<1>4. \A d \in Cores : Doing(d, "add") => exit'[d] = exit[d]  BY <1>1, <1>2 DEF Doing, Has
<1> QED  BY <1>1, <1>3, <1>4, QuietKeeps

(* Every step keeps the arrays as the program makes them.                   *)
LEMMA ComputeStep == Sound /\ PInv /\ ComputeInv /\ [PNext]_vars => ComputeInv'
<1> SUFFICES ASSUME Sound, PInv, ComputeInv, [PNext]_vars  PROVE ComputeInv'  OBVIOUS
<1>1. CASE UNCHANGED vars
  <2>1. PICK c \in Cores : TRUE  BY CoresAssumption
  <2>2. UNCHANGED <<kernel, reg, mem, pc, exit>>  BY <1>1 DEF vars, programVars
  <2>3. VerifyPasses'  BY <2>2 DEF ComputeInv, VerifyPasses
  <2>4. \A d \in Cores : Doing(d, "add") => exit'[d] = exit[d]  BY <2>2
  <2> QED  BY <2>2, <2>3, <2>4, QuietKeeps
<1>2. ASSUME NEW c \in Cores, Hart(c)  PROVE ComputeInv'
  BY <1>2, SetKeeps, LoadKeeps, AddKeeps, MeetKeeps, VerifyKeeps, ExitKeeps DEF Hart
<1> QED  BY <1>1, <1>2 DEF PNext, Stopped

(* Whatever the interleaving of the harts, the arrays hold what the program *)
(* order makes of them.                                                     *)
THEOREM AlwaysComputes == Sound => (PSpec => []ComputeInv)
<1> SUFFICES ASSUME Sound  PROVE PSpec => []ComputeInv  OBVIOUS
<1>1. PInv /\ ComputeInv /\ [PNext]_vars => ComputeInv'  BY ComputeStep
<1> QED  BY <1>1, ComputeInit, PlaceAlwaysInv, PTL DEF PSpec

(* No hart ever finds a wrong result in verify(), for any number of harts   *)
(* and any kernels: it is enough that the harts touch different elements    *)
(* between equal numbers of barriers, stay in the arrays, and that in the   *)
(* program order each term is added once.                                   *)
THEOREM AlwaysVerified == (\A k \in Kernels : Divides(k) /\ Stays(k) /\ Computes(k)) => (PSpec => []VerifyPasses)
<1> SUFFICES ASSUME Sound  PROVE PSpec => []VerifyPasses  BY DEF Sound
<1>1. PSpec => []ComputeInv  BY AlwaysComputes
<1>2. ComputeInv => VerifyPasses  BY DEF ComputeInv
<1> QED  BY <1>1, <1>2, PTL

-----------------------------------------------------------------------------
(* The vector kernels and the ends of their arrays.                         *)

(* Rounds that fit into a length fit into it as often as it divides.        *)
LEMMA Grows ==
    ASSUME NEW a \in Nat, NEW b \in Nat, NEW s \in Nat, a <= b
    PROVE  a * s <= b * s
<1>1. PICK d \in Nat : b = a + d  OBVIOUS
<1>2. b * s = a * s + d * s  BY <1>1
<1>3. d * s \in Nat  OBVIOUS
<1>4. a * s \in Nat /\ b * s \in Nat  OBVIOUS
<1> QED  BY <1>2, <1>3, <1>4

LEMMA Divided ==
    ASSUME NEW x \in Nat, NEW s \in Nat \ {0}
    PROVE  /\ x \div s \in Nat /\ x % s \in 0 .. s - 1
           /\ x = (x \div s) * s + (x % s)
OBVIOUS

LEMMA Quotient ==
    ASSUME NEW x \in Nat, NEW s \in Nat \ {0}, NEW q \in Nat, NEW r \in 0 .. s - 1, x = q * s + r
    PROVE  x \div s = q /\ x % s = r
OBVIOUS

LEMMA NCIs == NC \in Nat \ {0} /\ Cores = 0 .. NC - 1 /\ VectorLen \in Nat /\ VectorLen >= NC
<1>1. NC \in Nat  BY CoresAssumption, FS_CardinalityType DEF NC
<1> QED  BY <1>1, CoresAssumption, VectorAssumption DEF NC

(* The rounds of such a loop start where it says, and before its end.       *)
LEMMA StepByIs ==
    ASSUME NEW a \in Int, NEW b \in Int, NEW s \in Nat \ {0}, b - a + s - 1 >= 0
    PROVE  LET rounds == (b - a + s - 1) \div s IN
           /\ rounds \in Nat
           /\ StepBy(a, b, s) \in Seq(Int) /\ Len(StepBy(a, b, s)) = rounds
           /\ \A n \in 1 .. rounds : /\ StepBy(a, b, s)[n] = a + (n - 1) * s
                                     /\ a + (n - 1) * s < b
                                     /\ a <= a + (n - 1) * s
<1> DEFINE x == b - a + s - 1
           rounds == x \div s
<1>0. x \in Nat  OBVIOUS
<1> HIDE DEF x
<1>1. rounds \in Nat /\ x = rounds * s + (x % s) /\ x % s \in 0 .. s - 1  BY <1>0, Divided
<1>2. ASSUME NEW n \in 1 .. rounds  PROVE (n - 1) * s \in Nat /\ a + (n - 1) * s < b
  <2> USE DEF x
  <2>1. n * s <= rounds * s  BY <1>1, Grows
  <2>2. (n - 1) * s = n * s - s /\ n * s \in Int /\ rounds * s \in Int  BY <1>1
  <2>3. 0 * s <= (n - 1) * s  BY Grows
  <2> QED  BY <1>1, <2>1, <2>2, <2>3
<1> HIDE DEF rounds
<1>3. StepBy(a, b, s) = [n \in 1 .. rounds |-> a + (n - 1) * s]  BY DEF StepBy, rounds, x
<1>4. StepBy(a, b, s) \in [1 .. rounds -> Int]  BY <1>2, <1>3
<1>5. StepBy(a, b, s) \in Seq(Int) /\ Len(StepBy(a, b, s)) = rounds  BY <1>1, <1>4, SeqDef, LenProperties
<1>6. \A n \in 1 .. rounds : /\ StepBy(a, b, s)[n] = a + (n - 1) * s
                               /\ a + (n - 1) * s < b
                               /\ a <= a + (n - 1) * s
  BY <1>1, <1>2, <1>3
<1>7. rounds = (b - a + s - 1) \div s  BY DEF rounds, x
<1> HIDE DEF rounds
<1> QED  BY <1>1, <1>5, <1>6, <1>7

LEMMA StepByIn ==
    ASSUME NEW a \in Int, NEW b \in Int, NEW s \in Nat \ {0}, a < b + s
    PROVE  /\ StepBy(a, b, s) \in Seq(Int) /\ Len(StepBy(a, b, s)) \in Nat
           /\ DOMAIN StepBy(a, b, s) = 1 .. Len(StepBy(a, b, s))
           /\ \A n \in 1 .. Len(StepBy(a, b, s)) :
                 /\ StepBy(a, b, s)[n] = a + (n - 1) * s
                 /\ StepBy(a, b, s)[n] \in Int /\ a <= StepBy(a, b, s)[n] /\ StepBy(a, b, s)[n] < b
<1>1. b - a + s - 1 >= 0  OBVIOUS
<1>2. StepBy(a, b, s) \in Seq(Int)  BY <1>1, StepByIs
<1>3. Len(StepBy(a, b, s)) \in Nat /\ DOMAIN StepBy(a, b, s) = 1 .. Len(StepBy(a, b, s))
  BY <1>2, LenProperties
<1>4. \A n \in 1 .. Len(StepBy(a, b, s)) :
          StepBy(a, b, s)[n] = a + (n - 1) * s /\ a <= a + (n - 1) * s /\ a + (n - 1) * s < b
  BY <1>1, StepByIs
<1>5. \A n \in 1 .. Len(StepBy(a, b, s)) : StepBy(a, b, s)[n] \in Int  BY <1>2, ElementOfSeq
<1> QED  BY <1>2, <1>3, <1>4, <1>5

(* What a loop makes of such rounds stays in the vector if each round does. *)
LEMMA RoundsAre ==
    ASSUME NEW s, NEW S, NEW m \in Nat, s \in [1 .. m -> S]
    PROVE  s \in Seq(S) /\ Len(s) = m
BY SeqDef, LenProperties

(* The rounds of the kernels, on the vector where they fit.                 *)
LEMMA Rounds4 == ASSUME NEW c \in Cores  PROVE vvadd4(c, VectorLen) \in Seq(SUBSET Vector)
<1> DEFINE q == StepBy(c, VectorLen, NC)
<1>0. c \in Int /\ VectorLen \in Int /\ NC \in Nat \ {0} /\ c < VectorLen + NC /\ c >= 0  BY NCIs
<1>1. q \in Seq(Int) /\ \A n \in 1 .. Len(q) : q[n] \in Int /\ c <= q[n] /\ q[n] < VectorLen
  BY <1>0, StepByIn, Zenon
<1>a. \A n \in 1 .. Len(q) : q[n] \in Vector  BY <1>0, <1>1 DEF Vector
<1>2. Len(q) \in Nat /\ DOMAIN q = 1 .. Len(q)  BY <1>1, LenProperties
<1>3. vvadd4(c, VectorLen) = [n \in 1 .. Len(q) |-> {q[n]}]  BY <1>2 DEF vvadd4, Each
<1> HIDE DEF q
<1> QED  BY <1>a, <1>2, <1>3, RoundsAre

LEMMA Rounds0 == ASSUME NEW c \in Cores  PROVE vvadd0(c, VectorLen) \in Seq(SUBSET Vector)
<1> DEFINE share == VectorLen \div NC
           leftover == VectorLen % share
           q == StepBy(c * share, (c + 1) * share, 1)
           r == StepBy(VectorLen - leftover + c, VectorLen, NC)
<1>1. /\ NC \in Nat \ {0} /\ c \in Nat /\ c + 1 <= NC /\ VectorLen \in Nat /\ VectorLen >= NC
      /\ share \in Nat \ {0} /\ NC * share <= VectorLen
  <2>1. /\ NC \in Nat \ {0} /\ c \in Nat /\ c + 1 <= NC /\ VectorLen \in Nat /\ VectorLen >= NC  BY NCIs
  <2>2. share \in Nat /\ VectorLen = share * NC + (VectorLen % NC) /\ VectorLen % NC \in 0 .. NC - 1  BY <2>1, Divided
  <2>3. share # 0  BY <2>1, <2>2
  <2> QED  BY <2>1, <2>2, <2>3
<1> HIDE DEF share
<1>2. leftover \in 0 .. share - 1 /\ leftover <= VectorLen
  <2>1. 1 * share <= NC * share  BY <1>1, Grows
  <2>2. leftover \in 0 .. share - 1  BY <1>1, Divided
  <2>3. NC * share \in Int  BY <1>1
  <2> QED  BY <1>1, <2>1, <2>2, <2>3
<1>3. c * share \in Nat /\ (c + 1) * share = c * share + share /\ (c + 1) * share <= NC * share /\ NC * share \in Nat
  BY <1>1, Grows
<1>4. q \in Seq(Int) /\ \A n \in 1 .. Len(q) : q[n] \in Vector
  <2>1. c * share \in Int /\ (c + 1) * share \in Int /\ c * share < (c + 1) * share + 1 /\ 1 \in Nat \ {0}  BY <1>1, <1>3
  <2>2. q \in Seq(Int) /\ \A n \in 1 .. Len(q) : q[n] \in Int /\ c * share <= q[n] /\ q[n] < (c + 1) * share
    BY <2>1, StepByIn, Zenon
  <2>3. c * share \in Nat /\ (c + 1) * share \in Nat /\ (c + 1) * share <= VectorLen  BY <1>1, <1>3
  <2> HIDE DEF q
  <2> QED  BY <1>1, <2>2, <2>3 DEF Vector
<1> HIDE DEF leftover
<1>5. r \in Seq(Int) /\ \A n \in 1 .. Len(r) : r[n] \in Vector
  <2>1. /\ VectorLen - leftover + c \in Int /\ VectorLen \in Int /\ NC \in Nat \ {0}
        /\ VectorLen - leftover + c < VectorLen + NC
    BY <1>1, <1>2
  <2>2. r \in Seq(Int) /\ \A n \in 1 .. Len(r) : r[n] \in Int /\ VectorLen - leftover + c <= r[n] /\ r[n] < VectorLen
    BY <2>1, StepByIn, Zenon
  <2> QED  BY <1>1, <1>2, <2>2 DEF Vector
<1>6. Len(q) \in Nat /\ DOMAIN q = 1 .. Len(q) /\ Len(r) \in Nat /\ DOMAIN r = 1 .. Len(r)
  BY <1>4, <1>5, LenProperties
<1>7. vvadd0(c, VectorLen) = [n \in 1 .. Len(q) |-> {q[n]}] \o [n \in 1 .. Len(r) |-> {r[n]}]
  BY <1>6 DEF vvadd0, Each, share, leftover
<1> HIDE DEF q, r
<1>8. [n \in 1 .. Len(q) |-> {q[n]}] \in Seq(SUBSET Vector)  BY <1>4, <1>6, RoundsAre
<1>9. [n \in 1 .. Len(r) |-> {r[n]}] \in Seq(SUBSET Vector)  BY <1>5, <1>6, RoundsAre
<1> QED  BY <1>7, <1>8, <1>9, ConcatProperties

LEMMA Rounds3 == ASSUME NEW c \in Cores  PROVE vvadd3(c, VectorLen) \in Seq(SUBSET Vector)
<1> DEFINE each == VectorLen \div NC
           odd == each % 8
           base == c * each
           q == StepBy(base + odd, base + each, 8)
           first == When(odd # 0, <<Span(base, odd)>>)
<1>1. /\ NC \in Nat \ {0} /\ c \in Nat /\ c + 1 <= NC /\ VectorLen \in Nat
      /\ each \in Nat /\ NC * each <= VectorLen
  <2>1. /\ NC \in Nat \ {0} /\ c \in Nat /\ c + 1 <= NC /\ VectorLen \in Nat  BY NCIs
  <2>2. each \in Nat /\ VectorLen = each * NC + (VectorLen % NC) /\ VectorLen % NC \in 0 .. NC - 1  BY <2>1, Divided
  <2> QED  BY <2>1, <2>2
<1> HIDE DEF each
<1>2. PICK e \in Nat : each = e * 8 + odd /\ odd \in 0 .. 7
  <2>1. each \div 8 \in Nat /\ each = (each \div 8) * 8 + odd /\ odd \in 0 .. 7  BY <1>1, Divided
  <2> QED  BY <2>1
<1>3. base \in Nat /\ (c + 1) * each = base + each /\ (c + 1) * each <= NC * each /\ NC * each \in Nat
  BY <1>1, Grows
<1> HIDE DEF odd, base
<1>4. base + each <= VectorLen  BY <1>1, <1>3
<1>5. q \in Seq(Int) /\ \A n \in 1 .. Len(q) : Span(q[n], 8) \subseteq Vector
  <2>1. base + odd \in Int /\ base + each \in Int /\ base + odd < base + each + 8 /\ 8 \in Nat \ {0}
    BY <1>1, <1>2, <1>3
  <2>2. /\ q \in Seq(Int) /\ Len(q) \in Nat
        /\ \A n \in 1 .. Len(q) : q[n] = base + odd + (n - 1) * 8 /\ q[n] < base + each
    BY <2>1, StepByIn, Zenon
  <2>3. ASSUME NEW n \in 1 .. Len(q)  PROVE q[n] \in Nat /\ q[n] + 8 <= base + each
    BY <1>1, <1>2, <1>3, <2>2
  <2> QED  BY <1>1, <1>3, <1>4, <2>2, <2>3 DEF Vector, Span
<1>6. Len(q) \in Nat /\ DOMAIN q = 1 .. Len(q)  BY <1>5, LenProperties
<1>7. vvadd3(c, VectorLen) = first \o [n \in 1 .. Len(q) |-> Span(q[n], 8)]
  BY <1>6 DEF vvadd3, Each, each, odd, base
<1> HIDE DEF q
<1>8. [n \in 1 .. Len(q) |-> Span(q[n], 8)] \in Seq(SUBSET Vector)  BY <1>5, <1>6, RoundsAre
<1>9. first \in Seq(SUBSET Vector)
  <2>1. Span(base, odd) \subseteq Vector  BY <1>1, <1>2, <1>3, <1>4 DEF Span, Vector
  <2>2. <<Span(base, odd)>> \in Seq(SUBSET Vector)  BY <2>1
  <2>3. <<>> \in Seq(SUBSET Vector)  OBVIOUS
  <2> QED  BY <2>2, <2>3 DEF When
<1> QED  BY <1>7, <1>8, <1>9, ConcatProperties

(* A round that starts before a multiple of its length ends before it.      *)
LEMMA LastRound ==
    ASSUME NEW a \in Nat, NEW n \in Nat \ {0}, NEW s \in Nat \ {0}, NEW e \in Nat,
           a + (n - 1) * s < e * s
    PROVE  a + (n - 1) * s + s <= e * s + a
<1>1. n - 1 \in Nat /\ (n - 1) * s \in Int /\ e * s \in Int  OBVIOUS
<1>2. e <= n - 1 => e * s <= (n - 1) * s  BY <1>1, Grows
<1>3. n <= e  BY <1>1, <1>2
<1>4. n * s <= e * s  BY <1>3, Grows
<1>5. n * s = (n - 1) * s + s  OBVIOUS
<1> QED  BY <1>1, <1>4, <1>5

LEMMA Rounds2 ==
    ASSUME Fits("vvadd2", VectorLen), NEW c \in Cores
    PROVE  vvadd2(c, VectorLen) \in Seq(SUBSET Vector)
<1> DEFINE s == 2 * NC
           q == StepBy(c, VectorLen, s)
<1>1. NC \in Nat \ {0} /\ c \in Nat /\ c + 1 <= NC /\ VectorLen \in Nat /\ s \in Nat \ {0} /\ s = 2 * NC  BY NCIs
<1>2. VectorLen % s = 0  BY DEF Fits
<1> HIDE DEF s
<1>3. PICK e \in Nat : VectorLen = e * s
  <2>1. VectorLen \div s \in Nat /\ VectorLen = (VectorLen \div s) * s + (VectorLen % s)  BY <1>1, Divided
  <2>2. (VectorLen \div s) * s \in Int  BY <1>1, <2>1
  <2>3. VectorLen = (VectorLen \div s) * s  BY <1>2, <2>1, <2>2
  <2> QED  BY <2>1, <2>3
<1>4. c \in Int /\ VectorLen \in Int /\ c < VectorLen + s  BY <1>1
<1>5. /\ q \in Seq(Int) /\ Len(q) \in Nat /\ DOMAIN q = 1 .. Len(q)
      /\ \A n \in 1 .. Len(q) : q[n] \in Int /\ q[n] = c + (n - 1) * s /\ c <= q[n] /\ q[n] < VectorLen
  BY <1>1, <1>4, StepByIn, Zenon
<1>6. vvadd2(c, VectorLen) = [n \in 1 .. Len(q) |-> {q[n], q[n] + NC}]  BY <1>5 DEF vvadd2, Each, s
<1> HIDE DEF q
<1>7. ASSUME NEW n \in 1 .. Len(q)  PROVE {q[n], q[n] + NC} \subseteq Vector
  <2>1. q[n] + NC < VectorLen
    <3>1. c \in Nat /\ n \in Nat \ {0} /\ c + (n - 1) * s < e * s  BY <1>1, <1>3, <1>5
    <3>2. c + (n - 1) * s + s <= e * s + c  BY <1>1, <3>1, LastRound
    <3>3. q[n] + s <= VectorLen + c  BY <1>3, <1>5, <3>2
    <3> QED  BY <1>1, <1>5, <3>3
  <2> QED  BY <1>1, <1>5, <2>1 DEF Vector
<1> QED  BY <1>5, <1>6, <1>7, RoundsAre

LEMMA Rounds1 ==
    ASSUME Fits("vvadd1", VectorLen), NEW c \in Cores
    PROVE  vvadd1(c, VectorLen) \in Seq(SUBSET Vector)
<1> DEFINE s == 8 * NC
           q == StepBy(4 * c, VectorLen, s)
<1>1. NC \in Nat \ {0} /\ c \in Nat /\ c + 1 <= NC /\ VectorLen \in Nat /\ s \in Nat \ {0} /\ s = 8 * NC  BY NCIs
<1>2. VectorLen % s = 0  BY DEF Fits
<1> HIDE DEF s
<1>3. PICK e \in Nat : VectorLen = e * s
  <2>1. VectorLen \div s \in Nat /\ VectorLen = (VectorLen \div s) * s + (VectorLen % s)  BY <1>1, Divided
  <2>2. (VectorLen \div s) * s \in Int  BY <1>1, <2>1
  <2>3. VectorLen = (VectorLen \div s) * s  BY <1>2, <2>1, <2>2
  <2> QED  BY <2>1, <2>3
<1>4. 4 * c \in Int /\ VectorLen \in Int /\ 4 * c < VectorLen + s  BY <1>1
<1>5. /\ q \in Seq(Int) /\ Len(q) \in Nat /\ DOMAIN q = 1 .. Len(q)
      /\ \A n \in 1 .. Len(q) : q[n] \in Int /\ q[n] = 4 * c + (n - 1) * s /\ 4 * c <= q[n] /\ q[n] < VectorLen
  BY <1>1, <1>4, StepByIn, Zenon
<1>6. vvadd1(c, VectorLen) = [n \in 1 .. Len(q) |-> Span(q[n], 4) \cup Span(q[n] + 4 * NC, 4)]
  BY <1>5 DEF vvadd1, Each, s
<1> HIDE DEF q
<1>7. ASSUME NEW n \in 1 .. Len(q)  PROVE Span(q[n], 4) \cup Span(q[n] + 4 * NC, 4) \subseteq Vector
  <2>1. q[n] + 4 * NC + 4 <= VectorLen
    <3>1. 4 * c \in Nat /\ n \in Nat \ {0} /\ 4 * c + (n - 1) * s < e * s  BY <1>1, <1>3, <1>5
    <3>2. 4 * c + (n - 1) * s + s <= e * s + 4 * c  BY <1>1, <3>1, LastRound
    <3>3. q[n] + s <= VectorLen + 4 * c  BY <1>3, <1>5, <3>2
    <3> QED  BY <1>1, <1>5, <3>3
  <2> QED  BY <1>1, <1>5, <2>1 DEF Vector, Span
<1> QED  BY <1>5, <1>6, <1>7, RoundsAre

(* In any case they are indexes.                                            *)
LEMMA NatRounds1 == ASSUME NEW c \in Cores  PROVE vvadd1(c, VectorLen) \in Seq(SUBSET Nat)
<1> DEFINE s == 8 * NC
           q == StepBy(4 * c, VectorLen, s)
<1>1. NC \in Nat \ {0} /\ c \in Nat /\ c + 1 <= NC /\ VectorLen \in Nat /\ s \in Nat \ {0} /\ s = 8 * NC  BY NCIs
<1>2. 4 * c \in Int /\ VectorLen \in Int /\ 4 * c < VectorLen + s  BY <1>1
<1> HIDE DEF s
<1>3. /\ q \in Seq(Int) /\ Len(q) \in Nat /\ DOMAIN q = 1 .. Len(q)
      /\ \A n \in 1 .. Len(q) : q[n] \in Int /\ 4 * c <= q[n]
  BY <1>1, <1>2, StepByIn, Zenon
<1>4. vvadd1(c, VectorLen) = [n \in 1 .. Len(q) |-> Span(q[n], 4) \cup Span(q[n] + 4 * NC, 4)]
  BY <1>3 DEF vvadd1, Each, s
<1> HIDE DEF q
<1>5. \A n \in 1 .. Len(q) : Span(q[n], 4) \cup Span(q[n] + 4 * NC, 4) \subseteq Nat  BY <1>1, <1>3 DEF Span
<1> QED  BY <1>3, <1>4, <1>5, RoundsAre

LEMMA NatRounds2 == ASSUME NEW c \in Cores  PROVE vvadd2(c, VectorLen) \in Seq(SUBSET Nat)
<1> DEFINE s == 2 * NC
           q == StepBy(c, VectorLen, s)
<1>1. NC \in Nat \ {0} /\ c \in Nat /\ c + 1 <= NC /\ VectorLen \in Nat /\ s \in Nat \ {0} /\ s = 2 * NC  BY NCIs
<1>2. c \in Int /\ VectorLen \in Int /\ c < VectorLen + s  BY <1>1
<1> HIDE DEF s
<1>3. /\ q \in Seq(Int) /\ Len(q) \in Nat /\ DOMAIN q = 1 .. Len(q)
      /\ \A n \in 1 .. Len(q) : q[n] \in Int /\ c <= q[n]
  BY <1>1, <1>2, StepByIn, Zenon
<1>4. vvadd2(c, VectorLen) = [n \in 1 .. Len(q) |-> {q[n], q[n] + NC}]  BY <1>3 DEF vvadd2, Each, s
<1> HIDE DEF q
<1>5. \A n \in 1 .. Len(q) : {q[n], q[n] + NC} \subseteq Nat  BY <1>1, <1>3
<1> QED  BY <1>3, <1>4, <1>5, RoundsAre

(* Where they do not fit, a round of some hart goes past the end.           *)
LEMMA Overrun2 ==
    ASSUME ~Fits("vvadd2", VectorLen)
    PROVE  \E c \in Cores : \E n \in 1 .. Len(vvadd2(c, VectorLen)) :
               /\ vvadd2(c, VectorLen) \in Seq(SUBSET Nat)
               /\ ~ vvadd2(c, VectorLen)[n] \subseteq Vector
<1> DEFINE s == 2 * NC
           r == VectorLen % s
           e == VectorLen \div s
           d == IF r >= NC THEN NC - 1 ELSE 0
           q == StepBy(d, VectorLen, s)
<1>1. NC \in Nat \ {0} /\ VectorLen \in Nat /\ s \in Nat \ {0} /\ s = 2 * NC /\ d \in Cores /\ d \in 0 .. NC - 1
  BY NCIs
<1>2. r # 0  BY DEF Fits
<1> HIDE DEF s, d
<1>3. e \in Nat /\ VectorLen = e * s + r /\ r \in 1 .. s - 1 /\ e * s \in Nat
  <2>1. e \in Nat /\ VectorLen = e * s + r /\ r \in 0 .. s - 1  BY <1>1, Divided
  <2>2. e * s \in Nat  BY <1>1, <2>1
  <2> QED  BY <1>1, <1>2, <2>1, <2>2
<1>4. d < r /\ r <= d + NC  BY <1>1, <1>3 DEF d
<1> HIDE DEF r, e
<1>5. d \in Int /\ VectorLen \in Int /\ d < VectorLen + s  BY <1>1
<1>6. /\ q \in Seq(Int) /\ Len(q) \in Nat /\ DOMAIN q = 1 .. Len(q)
      /\ \A n \in 1 .. Len(q) : q[n] \in Int /\ q[n] = d + (n - 1) * s /\ d <= q[n] /\ q[n] < VectorLen
  BY <1>1, <1>5, StepByIn, Zenon
<1>7. vvadd2(d, VectorLen) = [n \in 1 .. Len(q) |-> {q[n], q[n] + NC}]  BY <1>6 DEF vvadd2, Each, s
<1>8. Len(q) = e + 1
  <2>1. Len(q) = (VectorLen - d + s - 1) \div s  BY <1>1, <1>5, StepByIs
  <2>2. r - d - 1 \in 0 .. s - 1 /\ (e + 1) * s = e * s + s  BY <1>1, <1>3, <1>4
  <2>3. VectorLen - d + s - 1 = (e + 1) * s + (r - d - 1)  BY <1>1, <1>3, <2>2
  <2>4. VectorLen - d + s - 1 \in Nat  BY <1>1, <1>3, <1>4
  <2> DEFINE x == VectorLen - d + s - 1
             y == r - d - 1
  <2>5. x \in Nat /\ y \in 0 .. s - 1 /\ e + 1 \in Nat /\ x = (e + 1) * s + y  BY <1>3, <2>2, <2>3, <2>4
  <2> HIDE DEF x, y
  <2>6. x \div s = e + 1  BY <1>1, <2>5, Quotient
  <2> QED  BY <2>1, <2>6 DEF x
<1> HIDE DEF q
<1>9. q[e + 1] = d + e * s  BY <1>1, <1>3, <1>6, <1>8
<1>10. \A n \in 1 .. Len(q) : {q[n], q[n] + NC} \subseteq Nat  BY <1>1, <1>6
<1>11. vvadd2(d, VectorLen) \in Seq(SUBSET Nat) /\ Len(vvadd2(d, VectorLen)) = Len(q)
  BY <1>6, <1>7, <1>10, RoundsAre
<1>12. q[e + 1] + NC \in vvadd2(d, VectorLen)[e + 1] /\ q[e + 1] + NC >= VectorLen
  BY <1>1, <1>3, <1>4, <1>6, <1>7, <1>8, <1>9
<1>13. q[e + 1] + NC \notin Vector  BY <1>1, <1>3, <1>9, <1>12 DEF Vector
<1> QED  BY <1>1, <1>3, <1>8, <1>11, <1>12, <1>13

LEMMA Overrun1 ==
    ASSUME ~Fits("vvadd1", VectorLen)
    PROVE  \E c \in Cores : \E n \in 1 .. Len(vvadd1(c, VectorLen)) :
               /\ vvadd1(c, VectorLen) \in Seq(SUBSET Nat)
               /\ ~ vvadd1(c, VectorLen)[n] \subseteq Vector
<1> DEFINE s == 8 * NC
           r == VectorLen % s
           e == VectorLen \div s
           d == IF r > 4 * NC - 4 THEN NC - 1 ELSE 0
           q == StepBy(4 * d, VectorLen, s)
           Both(x) == Span(x, 4) \cup Span(x + 4 * NC, 4)
<1>1. NC \in Nat \ {0} /\ VectorLen \in Nat /\ s \in Nat \ {0} /\ s = 8 * NC /\ d \in Cores /\ d \in 0 .. NC - 1
  BY NCIs
<1>2. r # 0  BY DEF Fits
<1> HIDE DEF s, d
<1>3. e \in Nat /\ VectorLen = e * s + r /\ r \in 1 .. s - 1 /\ e * s \in Nat
  <2>1. e \in Nat /\ VectorLen = e * s + r /\ r \in 0 .. s - 1  BY <1>1, Divided
  <2>2. e * s \in Nat  BY <1>1, <2>1
  <2> QED  BY <1>1, <1>2, <2>1, <2>2
<1>4. 4 * d < r /\ r <= 4 * d + 4 * NC + 3  BY <1>1, <1>3 DEF d
<1> HIDE DEF r, e
<1>5. 4 * d \in Int /\ VectorLen \in Int /\ 4 * d < VectorLen + s  BY <1>1
<1>6. /\ q \in Seq(Int) /\ Len(q) \in Nat /\ DOMAIN q = 1 .. Len(q)
      /\ \A n \in 1 .. Len(q) : q[n] \in Int /\ q[n] = 4 * d + (n - 1) * s /\ 4 * d <= q[n] /\ q[n] < VectorLen
  BY <1>1, <1>5, StepByIn, Zenon
<1>7. vvadd1(d, VectorLen) = [n \in 1 .. Len(q) |-> Both(q[n])]  BY <1>6 DEF vvadd1, Each, s
<1>8. Len(q) = e + 1
  <2>1. Len(q) = (VectorLen - 4 * d + s - 1) \div s  BY <1>1, <1>5, StepByIs
  <2>2. r - 4 * d - 1 \in 0 .. s - 1 /\ (e + 1) * s = e * s + s  BY <1>1, <1>3, <1>4
  <2>3. VectorLen - 4 * d + s - 1 = (e + 1) * s + (r - 4 * d - 1)  BY <1>1, <1>3, <2>2
  <2>4. VectorLen - 4 * d + s - 1 \in Nat  BY <1>1, <1>3, <1>4
  <2> DEFINE x == VectorLen - 4 * d + s - 1
             y == r - 4 * d - 1
  <2>5. x \in Nat /\ y \in 0 .. s - 1 /\ e + 1 \in Nat /\ x = (e + 1) * s + y  BY <1>3, <2>2, <2>3, <2>4
  <2> HIDE DEF x, y
  <2>6. x \div s = e + 1  BY <1>1, <2>5, Quotient
  <2> QED  BY <2>1, <2>6 DEF x
<1> HIDE DEF q
<1>9. q[e + 1] = 4 * d + e * s  BY <1>1, <1>3, <1>6, <1>8
<1>10. \A n \in 1 .. Len(q) : Both(q[n]) \subseteq Nat  BY <1>1, <1>6 DEF Span
<1>11. vvadd1(d, VectorLen) \in Seq(SUBSET Nat) /\ Len(vvadd1(d, VectorLen)) = Len(q)
  <2> HIDE DEF Both
  <2> QED  BY <1>6, <1>7, <1>10, RoundsAre
<1> DEFINE x == q[e + 1] + 4 * NC + 3
<1>12. x \in Both(q[e + 1]) /\ x >= VectorLen  BY <1>1, <1>3, <1>4, <1>6, <1>9 DEF Span
<1>13. x \notin Vector  BY <1>1, <1>3, <1>9, <1>12 DEF Vector
<1>14. e + 1 \in 1 .. Len(q) /\ vvadd1(d, VectorLen)[e + 1] = Both(q[e + 1])  BY <1>3, <1>7, <1>8
<1> HIDE DEF Both, x
<1> QED  BY <1>1, <1>11, <1>12, <1>13, <1>14
(* The steps that touch only elements of V. *)
StepsOn(V) == [op : Operations, cells : SUBSET C(V), terms : SUBSET {0, 1}, uses : SUBSET C(V)]

(* The lists of mt-vvadd are made of the rounds of the kernel.              *)
LEMMA VvaddSteps ==
    ASSUME NEW V, Vector \subseteq V, NEW c \in Cores, NEW rounds \in Seq(SUBSET V)
    PROVE  /\ VvaddEntry(c, rounds) \in Seq(StepsOn(V))
           /\ \A n \in 1 .. Len(rounds) : \E m \in 1 .. Len(VvaddEntry(c, rounds)) :
                  VvaddEntry(c, rounds)[m].cells = C(rounds[n])
<1> DEFINE S == StepsOn(V)
           barrier == <<Barrier_>>
           puts == [n \in 1 .. Len(rounds) |-> Put(rounds[n], {0, 1})]
           adds == [n \in 1 .. Len(rounds) |-> Add(rounds[n], {1})]
           verdict == When(c = 0, <<VectorCheck, Put(Vector, {0})>>)
           second == When(c = 0, <<VectorCheck>>)
           s1 == barrier \o puts
           s2 == s1 \o barrier
           s3 == s2 \o verdict
           s4 == s3 \o barrier
           s5 == s4 \o adds
           s6 == s5 \o barrier
           s7 == s6 \o second
           s8 == s7 \o barrier
<1>1. Len(rounds) \in Nat /\ DOMAIN rounds = 1 .. Len(rounds) /\ \A n \in 1 .. Len(rounds) : rounds[n] \subseteq V
  BY LenProperties, ElementOfSeq
<1>2. \A W \in SUBSET V : C(W) \subseteq C(V)  BY DEF C
<1>3. Barrier_ \in S  BY DEF StepsOn, Barrier_, Step, Operations
<1>4. \A W \in SUBSET V : Put(W, {0}) \in S /\ Put(W, {0, 1}) \in S /\ Add(W, {1}) \in S
  BY <1>2 DEF StepsOn, Put, Add, Step, Operations
<1>5. VectorCheck \in S  BY <1>2 DEF StepsOn, VectorCheck, Step, Operations
<1> HIDE DEF S
<1>6. barrier \in Seq(S) /\ Len(barrier) = 1  BY <1>3
<1>7. puts \in Seq(S) /\ adds \in Seq(S) /\ Len(puts) = Len(rounds)
  BY <1>1, <1>4, RoundsAre
<1>8. Put(Vector, {0}) \in S  BY <1>4
<1>9. verdict \in Seq(S) /\ second \in Seq(S)  BY <1>5, <1>8 DEF When
<1>10. VvaddEntry(c, rounds) = s8  BY <1>1 DEF VvaddEntry, Each
<1> HIDE DEF barrier, puts, adds, verdict, second
<1>11. s1 \in Seq(S) /\ s2 \in Seq(S) /\ s3 \in Seq(S) /\ s4 \in Seq(S)
  BY <1>6, <1>7, <1>9, ConcatProperties
<1> DEFINE Begins(s, t) == \A m \in 1 .. Len(s) : m \in 1 .. Len(t) /\ t[m] = s[m]
<1>12. ASSUME NEW s \in Seq(S), NEW t \in Seq(S)  PROVE s \o t \in Seq(S) /\ Begins(s, s \o t)
  <2>1. Len(s) \in Nat /\ Len(t) \in Nat  BY LenProperties
  <2> QED  BY <2>1, ConcatProperties
<1>13. s5 \in Seq(S) /\ s6 \in Seq(S) /\ s7 \in Seq(S) /\ s8 \in Seq(S)
  BY <1>6, <1>7, <1>9, <1>11, ConcatProperties
<1>14. /\ Begins(s1, s2) /\ Begins(s2, s3) /\ Begins(s3, s4) /\ Begins(s4, s5)
       /\ Begins(s5, s6) /\ Begins(s6, s7) /\ Begins(s7, s8)
  BY <1>6, <1>7, <1>9, <1>11, <1>12, <1>13
<1>15. ASSUME NEW n \in 1 .. Len(rounds)
       PROVE  n + 1 \in 1 .. Len(s1) /\ s1[n + 1].cells = C(rounds[n])
  <2>1. /\ Len(s1) = Len(barrier) + Len(puts)
        /\ \A i \in 1 .. Len(barrier) + Len(puts) :
              s1[i] = IF i <= Len(barrier) THEN barrier[i] ELSE puts[i - Len(barrier)]
    BY <1>6, <1>7, ConcatProperties
  <2>3. Len(s1) = 1 + Len(rounds) /\ s1[n + 1] = puts[n]
    <3> HIDE DEF s1
    <3> QED  BY <1>1, <1>6, <1>7, <2>1
  <2>2. puts[n].cells = C(rounds[n])  BY DEF puts, Put, Step
  <2> QED  BY <1>1, <2>2, <2>3
<1> HIDE DEF s1, s2, s3, s4, s5, s6, s7, s8
<1>16. Begins(s1, s8)  BY <1>14
<1> QED  BY <1>10, <1>13, <1>15, <1>16 DEF S

(* Those of mt-memcpy store to the hart's block.                            *)
MemcpyBlock == VectorLen \div NC + 1
Copied(c) == Span(c * MemcpyBlock, IF c = NC - 1 THEN VectorLen - c * MemcpyBlock ELSE MemcpyBlock)

LEMMA MemcpySteps ==
    ASSUME NEW V, Vector \subseteq V, NEW c \in Cores, Copied(c) \subseteq V
    PROVE  /\ MemcpyEntry(c) \in Seq(StepsOn(V))
           /\ 2 \in 1 .. Len(MemcpyEntry(c)) /\ MemcpyEntry(c)[2].cells = C(Copied(c))
<1> DEFINE S == StepsOn(V)
           copy == Put(Copied(c), {0})
           barrier == <<Barrier_>>
           first == <<Barrier_, copy, Barrier_, copy, Barrier_, Barrier_>>
           verdict == When(c = 0, <<VectorCheck>>)
           s == first \o verdict
<1>1. \A W \in SUBSET V : C(W) \subseteq C(V)  BY DEF C
<1>2. Barrier_ \in S  BY DEF StepsOn, Barrier_, Step, Operations
<1>3. copy \in S /\ copy.cells = C(Copied(c))  BY <1>1 DEF StepsOn, Put, Step, Operations
<1>4. VectorCheck \in S  BY <1>1 DEF StepsOn, VectorCheck, Step, Operations
<1>5. MemcpyEntry(c) = s \o barrier  BY DEF MemcpyEntry, Copied, MemcpyBlock
<1> HIDE DEF S, copy
<1>6. barrier \in Seq(S) /\ Len(barrier) = 1  BY <1>2
<1>7. first \in Seq(S) /\ Len(first) = 6 /\ first[2] = copy  BY <1>2, <1>3
<1>8. verdict \in Seq(S) /\ Len(verdict) \in Nat  BY <1>4 DEF When
<1> HIDE DEF barrier, first, verdict
<1>9. s \in Seq(S) /\ Len(s) = Len(first) + Len(verdict) /\ s[2] = first[2]
  <2>1. \A i \in 1 .. Len(first) + Len(verdict) :
           s[i] = IF i <= Len(first) THEN first[i] ELSE verdict[i - Len(first)]
    BY <1>7, <1>8, ConcatProperties
  <2>2. s \in Seq(S) /\ Len(s) = Len(first) + Len(verdict)  BY <1>7, <1>8, ConcatProperties
  <2> HIDE DEF s
  <2> QED  BY <1>7, <1>8, <2>1, <2>2
<1> HIDE DEF s
<1>10. /\ s \o barrier \in Seq(S) /\ Len(s \o barrier) = Len(s) + Len(barrier)
       /\ \A i \in 1 .. Len(s) + Len(barrier) :
              (s \o barrier)[i] = IF i <= Len(s) THEN s[i] ELSE barrier[i - Len(s)]
  <2>1. s \in Seq(S) /\ barrier \in Seq(S)  BY <1>6, <1>9
  <2> HIDE DEF s
  <2> QED  BY <2>1, ConcatProperties
<1>11. 2 \in 1 .. Len(s \o barrier) /\ (s \o barrier)[2] = s[2]
  <2> DEFINE t == s \o barrier
  <2> HIDE DEF t
  <2> QED  BY <1>6, <1>7, <1>8, <1>9, <1>10 DEF t
<1> QED  BY <1>3, <1>5, <1>7, <1>9, <1>10, <1>11 DEF S

(* The blocks of mt-memcpy are those of the arrays exactly if they fit.     *)
LEMMA BlocksFit ==
    /\ \A c \in Cores : Copied(c) \subseteq Nat
    /\ Fits("memcpy", VectorLen) => \A c \in Cores : Copied(c) \subseteq Vector
    /\ ~Fits("memcpy", VectorLen) => \E c \in Cores : ~ Copied(c) \subseteq Vector
<1> DEFINE b == MemcpyBlock
<1>1. NC \in Nat \ {0} /\ Cores = 0 .. NC - 1 /\ VectorLen \in Nat  BY NCIs
<1>2. b \in Nat \ {0}
  <2>1. VectorLen \div NC \in Nat  BY <1>1, Divided
  <2> QED  BY <2>1 DEF MemcpyBlock
<1>3. Fits("memcpy", VectorLen) <=> (NC - 1) * b <= VectorLen  BY DEF Fits, MemcpyBlock
<1>4. ASSUME NEW c \in Cores
      PROVE  c * b \in Nat /\ (NC - 1) * b \in Nat /\ (c # NC - 1 => c * b + b <= (NC - 1) * b)
  <2>1. c \in Nat /\ NC - 1 \in Nat  BY <1>1
  <2>2. c * b \in Nat /\ (NC - 1) * b \in Nat /\ (c + 1) * b = c * b + b  BY <1>2, <2>1
  <2>3. c # NC - 1 => (c + 1) * b <= (NC - 1) * b  BY <1>1, <1>2, <2>1, Grows
  <2> QED  BY <2>2, <2>3
<1>5. \A c \in Cores : Copied(c) = Span(c * b, IF c = NC - 1 THEN VectorLen - c * b ELSE b)  BY DEF Copied
<1> HIDE DEF b
<1>6. ASSUME NEW c \in Cores  PROVE Copied(c) \subseteq Nat
  <2> DEFINE x == c * b
  <2>1. x \in Nat /\ Copied(c) = Span(x, IF c = NC - 1 THEN VectorLen - x ELSE b)  BY <1>4, <1>5
  <2> HIDE DEF x
  <2> QED  BY <1>1, <1>2, <2>1 DEF Span
<1>7. ASSUME Fits("memcpy", VectorLen), NEW c \in Cores  PROVE Copied(c) \subseteq Vector
  <2>1. (NC - 1) * b <= VectorLen  BY <1>3, <1>7
  <2>2. CASE c = NC - 1  BY <1>1, <1>4, <1>5, <2>1, <2>2 DEF Span, Vector
  <2>3. CASE c # NC - 1
    <3> DEFINE x == c * b
               end == (NC - 1) * b
    <3>1. x \in Nat /\ end \in Nat /\ x + b <= end /\ end <= VectorLen /\ Copied(c) = Span(x, b)
      BY <1>4, <1>5, <2>1, <2>3
    <3> HIDE DEF x, end
    <3> QED  BY <1>1, <1>2, <3>1 DEF Span, Vector
  <2> QED  BY <2>2, <2>3
<1>8. ASSUME ~Fits("memcpy", VectorLen)  PROVE \E c \in Cores : ~ Copied(c) \subseteq Vector
  <2>1. NC - 1 \in Cores  BY <1>1
  <2>2. (NC - 1) * b > VectorLen /\ (NC - 1) * b \in Nat  BY <1>1, <1>3, <1>4, <1>8, <2>1
  <2>3. NC # 1
    <3>1. 0 * b = 0  BY <1>2
    <3> QED  BY <1>1, <2>2, <3>1
  <2> DEFINE c == NC - 2
  <2>4. c \in Cores /\ c # NC - 1 /\ c + 1 = NC - 1  BY <1>1, <2>3
  <2>5. c * b + b = (NC - 1) * b /\ c * b \in Nat
    <3>1. c \in Nat  BY <1>1, <2>4
    <3>2. (c + 1) * b = c * b + b  BY <1>2, <3>1
    <3> HIDE DEF c
    <3> QED  BY <1>4, <2>4, <3>2
  <2> HIDE DEF c
  <2> DEFINE x == c * b + b - 1
  <2>6. x \in Span(c * b, b) /\ x >= VectorLen /\ x \in Nat  BY <1>1, <1>2, <2>2, <2>5 DEF Span
  <2>7. x \notin Vector  BY <1>1, <2>6 DEF Vector
  <2>8. Copied(c) = Span(c * b, b)  BY <1>5, <2>4
  <2> QED  BY <2>4, <2>6, <2>7, <2>8
<1> QED  BY <1>6, <1>7, <1>8

(* What the steps of the vector kernels touch, by whether the length fits.  *)
LEMMA VectorLists ==
    ASSUME NEW k \in VectorNames
    PROVE  /\ \A c \in Cores : VectorPlan[k][c] \in Seq(StepsOn(Nat))
           /\ Fits(k, VectorLen) => \A c \in Cores : VectorPlan[k][c] \in Seq(StepsOn(Vector))
           /\ ~Fits(k, VectorLen) =>
                  \E c \in Cores : \E m \in 1 .. Len(VectorPlan[k][c]) :
                      ~ VectorPlan[k][c][m].cells \subseteq C(Vector)
<1>1. Vector \subseteq Nat /\ Vector \subseteq Vector  BY NCIs DEF Vector
<1>2. ASSUME NEW W, C(W) \subseteq C(Vector)  PROVE W \subseteq Vector
  <2> SUFFICES ASSUME NEW i \in W PROVE i \in Vector  OBVIOUS
  <2>1. <<"C", i>> \in C(Vector)  BY <1>2 DEF C
  <2> QED  BY <2>1 DEF C
<1>3. Seq(SUBSET Vector) \subseteq Seq(SUBSET Nat)  BY <1>1, SeqMonotonic
<1>4. ASSUME NEW c \in Cores, NEW rounds \in Seq(SUBSET Vector)
      PROVE  VvaddEntry(c, rounds) \in Seq(StepsOn(Vector)) /\ VvaddEntry(c, rounds) \in Seq(StepsOn(Nat))
  BY <1>1, <1>3, VvaddSteps
<1>5. CASE k = "vvadd0"
  <2>1. \A c \in Cores : VectorPlan[k][c] = VvaddEntry(c, vvadd0(c, VectorLen))  BY <1>5 DEF VectorPlan
  <2>2. Fits(k, VectorLen)  BY <1>5 DEF Fits
  <2> QED  BY <1>4, <2>1, <2>2, Rounds0
<1>6. CASE k = "vvadd3"
  <2>1. \A c \in Cores : VectorPlan[k][c] = VvaddEntry(c, vvadd3(c, VectorLen))  BY <1>6 DEF VectorPlan
  <2>2. Fits(k, VectorLen)  BY <1>6 DEF Fits
  <2> QED  BY <1>4, <2>1, <2>2, Rounds3
<1>7. CASE k = "vvadd4"
  <2>1. \A c \in Cores : VectorPlan[k][c] = VvaddEntry(c, vvadd4(c, VectorLen))  BY <1>7 DEF VectorPlan
  <2>2. Fits(k, VectorLen)  BY <1>7 DEF Fits
  <2> QED  BY <1>4, <2>1, <2>2, Rounds4
<1>8. CASE k = "vvadd1"
  <2>1. \A c \in Cores : VectorPlan[k][c] = VvaddEntry(c, vvadd1(c, VectorLen))  BY <1>8 DEF VectorPlan
  <2>2. \A c \in Cores : vvadd1(c, VectorLen) \in Seq(SUBSET Nat)  BY NatRounds1
  <2>3. CASE Fits("vvadd1", VectorLen)  BY <1>4, <1>8, <2>1, <2>3, Rounds1
  <2>4. CASE ~Fits("vvadd1", VectorLen)
    <3>1. PICK c \in Cores : \E n \in 1 .. Len(vvadd1(c, VectorLen)) : ~ vvadd1(c, VectorLen)[n] \subseteq Vector
      BY <2>4, Overrun1
    <3>2. PICK n \in 1 .. Len(vvadd1(c, VectorLen)) : ~ vvadd1(c, VectorLen)[n] \subseteq Vector  BY <3>1
    <3>3. ~ C(vvadd1(c, VectorLen)[n]) \subseteq C(Vector)  BY <1>2, <3>2
    <3>4. \A d \in Cores : VectorPlan[k][d] \in Seq(StepsOn(Nat))  BY <1>1, <2>1, <2>2, VvaddSteps
    <3>5. PICK m \in 1 .. Len(VectorPlan[k][c]) : VectorPlan[k][c][m].cells = C(vvadd1(c, VectorLen)[n])
      <4>1. vvadd1(c, VectorLen) \in Seq(SUBSET Nat)  BY <2>2
      <4>2. \E m \in 1 .. Len(VvaddEntry(c, vvadd1(c, VectorLen))) :
                VvaddEntry(c, vvadd1(c, VectorLen))[m].cells = C(vvadd1(c, VectorLen)[n])
        BY <1>1, <4>1, VvaddSteps
      <4> QED  BY <2>1, <4>2
    <3> QED  BY <1>8, <2>4, <3>3, <3>4, <3>5
  <2> QED  BY <2>3, <2>4
<1>9. CASE k = "vvadd2"
  <2>1. \A c \in Cores : VectorPlan[k][c] = VvaddEntry(c, vvadd2(c, VectorLen))  BY <1>9 DEF VectorPlan
  <2>2. \A c \in Cores : vvadd2(c, VectorLen) \in Seq(SUBSET Nat)  BY NatRounds2
  <2>3. CASE Fits("vvadd2", VectorLen)  BY <1>4, <1>9, <2>1, <2>3, Rounds2
  <2>4. CASE ~Fits("vvadd2", VectorLen)
    <3>1. PICK c \in Cores : \E n \in 1 .. Len(vvadd2(c, VectorLen)) : ~ vvadd2(c, VectorLen)[n] \subseteq Vector
      BY <2>4, Overrun2
    <3>2. PICK n \in 1 .. Len(vvadd2(c, VectorLen)) : ~ vvadd2(c, VectorLen)[n] \subseteq Vector  BY <3>1
    <3>3. ~ C(vvadd2(c, VectorLen)[n]) \subseteq C(Vector)  BY <1>2, <3>2
    <3>4. \A d \in Cores : VectorPlan[k][d] \in Seq(StepsOn(Nat))  BY <1>1, <2>1, <2>2, VvaddSteps
    <3>5. PICK m \in 1 .. Len(VectorPlan[k][c]) : VectorPlan[k][c][m].cells = C(vvadd2(c, VectorLen)[n])
      <4>1. vvadd2(c, VectorLen) \in Seq(SUBSET Nat)  BY <2>2
      <4>2. \E m \in 1 .. Len(VvaddEntry(c, vvadd2(c, VectorLen))) :
                VvaddEntry(c, vvadd2(c, VectorLen))[m].cells = C(vvadd2(c, VectorLen)[n])
        BY <1>1, <4>1, VvaddSteps
      <4> QED  BY <2>1, <4>2
    <3> QED  BY <1>9, <2>4, <3>3, <3>4, <3>5
  <2> QED  BY <2>3, <2>4
<1>10. CASE k = "memcpy"
  <2>1. \A c \in Cores : VectorPlan[k][c] = MemcpyEntry(c)  BY <1>10 DEF VectorPlan
  <2>2. \A c \in Cores : Copied(c) \subseteq Nat  BY BlocksFit
  <2>3. \A c \in Cores : VectorPlan[k][c] \in Seq(StepsOn(Nat))  BY <1>1, <2>1, <2>2, MemcpySteps
  <2>4. CASE Fits("memcpy", VectorLen)  BY <1>1, <1>10, <2>1, <2>3, <2>4, BlocksFit, MemcpySteps
  <2>5. CASE ~Fits("memcpy", VectorLen)
    <3>1. PICK c \in Cores : ~ Copied(c) \subseteq Vector  BY <2>5, BlocksFit
    <3>2. 2 \in 1 .. Len(MemcpyEntry(c)) /\ MemcpyEntry(c)[2].cells = C(Copied(c))
      BY <1>1, <2>2, MemcpySteps
    <3>3. ~ C(Copied(c)) \subseteq C(Vector)  BY <1>2, <3>1
    <3> QED  BY <1>10, <2>1, <2>3, <2>5, <3>2, <3>3
  <2> QED  BY <2>4, <2>5
<1> QED  BY <1>5, <1>6, <1>7, <1>8, <1>9, <1>10 DEF VectorNames

(* The arrays keep their sizes.                                             *)
Shape == DOMAIN mem = DOMAIN Expected[kernel] \cup Scratch

LEMMA ShapeAlways == PSpec => []Shape
<1>1. PInit => Shape  BY DEF PInit, Shape
<1>2. Shape /\ [PNext]_vars => Shape'
  BY DEF PNext, Hart, Stopped, vars, programVars, Set, Load, Store, Meet, Verify, Exit, Shape
<1> QED  BY <1>1, <1>2, PTL DEF PSpec

(* A hart is in bounds when its list is.                                    *)
LEMMA StaysInside == PInv /\ Shape /\ Stays(kernel) => InBounds
<1> SUFFICES ASSUME PInv, Shape, Stays(kernel), NEW c \in Cores, Has(c)
             PROVE  Writes(Current(c)) \cup Reads(Current(c)) \subseteq DOMAIN mem
  BY DEF InBounds
<1> QED  BY HereIs DEF Stays, Shape

(* vvadd0 to vvadd4 and mt-memcpy store past the end of their arrays, in    *)
(* whatever interleaving, if the length has a remainder that the kernel     *)
(* does not handle, as vvadd1 does with the data set; and with any other    *)
(* length no hart ever does. For any length and any number of harts, beside *)
(* whatever other kernels whose lists stay inside their own arrays.         *)
THEOREM VectorsLeaveIffUnfit ==
    ASSUME \A k \in Kernels :
               IF k \in VectorNames
               THEN Plan[k] = VectorPlan[k] /\ Expected[k] = VectorResults[k]
               ELSE Stays(k),
           Scratch \cap C(Nat) = {}
    PROVE  PSpec => []LeavesArraysIffUnfit
<1>1. ASSUME PInv, Shape  PROVE LeavesArraysIffUnfit
  <2>1. /\ kernel \in Kernels /\ (kernel \notin VectorNames => Stays(kernel))
        /\ kernel \in VectorNames =>
               Plan[kernel] = VectorPlan[kernel] /\ Expected[kernel] = VectorResults[kernel]
    BY <1>1 DEF PInv, PlaceInv
  <2>2. CASE kernel \notin VectorNames
    BY <1>1, <2>1, <2>2, StaysInside DEF LeavesArraysIffUnfit
  <2>3. CASE kernel \in VectorNames /\ Fits(kernel, VectorLen)
    <3>1. \A c \in Cores : Plan[kernel][c] \in Seq(StepsOn(Vector))  BY <2>1, <2>3, VectorLists
    <3>2. ASSUME NEW p \in Places(kernel)  PROVE At(kernel, p) \in StepsOn(Vector)
      <4>1. PICK c \in Cores : p \in {c} \X DOMAIN Plan[kernel][c]  BY DEF Places
      <4> QED  BY <3>1, <4>1, LenProperties, ElementOfSeq DEF At
    <3>3. \A p \in Places(kernel) : Writes(At(kernel, p)) \cup Reads(At(kernel, p)) \subseteq C(Vector)
      BY <3>2 DEF StepsOn, Writes, Reads
    <3>4. DOMAIN Expected[kernel] = C(Vector)  BY <2>1, <2>3 DEF VectorResults
    <3>5. Stays(kernel)  BY <3>3, <3>4 DEF Stays
    <3> QED  BY <1>1, <2>3, <3>5, StaysInside DEF LeavesArraysIffUnfit
  <2>4. CASE kernel \in VectorNames /\ ~Fits(kernel, VectorLen)
    <3>1. \A c \in Cores : Plan[kernel][c] \in Seq(StepsOn(Nat))  BY <2>1, <2>4, VectorLists
    <3>2. PICK c \in Cores :
              \E m \in 1 .. Len(Plan[kernel][c]) : ~ Plan[kernel][c][m].cells \subseteq C(Vector)
      BY <2>1, <2>4, VectorLists
    <3>3. PICK m \in 1 .. Len(Plan[kernel][c]) : ~ Plan[kernel][c][m].cells \subseteq C(Vector)
      BY <3>2
    <3>4. Plan[kernel][c][m] \in StepsOn(Nat)  BY <3>1, ElementOfSeq
    <3>5. Plan[kernel][c][m].cells \subseteq C(Nat)  BY <3>4 DEF StepsOn
    <3>6. DOMAIN Expected[kernel] = C(Vector)  BY <2>1, <2>4 DEF VectorResults
    <3>7. ~ Writes(Steps(c)[m]) \subseteq DOMAIN mem
      BY <1>1, <3>3, <3>5, <3>6 DEF Shape, Writes, Steps
    <3>8. m \in DOMAIN Steps(c) /\ (pc[c] > Len(Steps(c)) => m < pc[c])
      BY <1>1, <2>1, PlanAssumption DEF Steps, PInv, PlaceInv
    <3> QED  BY <2>4, <3>7, <3>8 DEF LeavesArraysIffUnfit, Strayed
  <2> QED  BY <2>2, <2>3, <2>4
<1>2. PInv /\ Shape => LeavesArraysIffUnfit  BY <1>1
<1> QED  BY <1>2, ShapeAlways, PlaceAlwaysInv, PTL
-----------------------------------------------------------------------------
(* The end of the program. *)

(* A hart is held up only in the loop of barrier(): otherwise the guard of  *)
(* one of its steps is met.                                                 *)
Ready(c) ==
    \/ exit[c] = Running /\ pc[c] > Len(Steps(c))
    \/ \E op \in {"set", "add", "verify"} : Doing(c, op)
    \/ Doing(c, "barrier") /\ (stage[c] = "spin" => sense = threadsense[c])

NeverStuck == (\A c \in Cores : exit[c] = 0) \/ (\E c \in Cores : Ready(c))

(* A hart that is not ready and has not stopped waits in barrier() for a    *)
(* sense that has not been published.                                       *)
LEMMA NotReady ==
    ASSUME PInv, \A k \in Kernels : Meets(k), NEW c \in Cores, exit[c] = Running, ~Ready(c)
    PROVE  Doing(c, "barrier") /\ stage[c] = "spin" /\ sense # threadsense[c]
<1>1. Has(c)
  <2>1. pc[c] \in Nat /\ Len(Steps(c)) \in Nat  BY PlanAssumption DEF PInv, PlaceInv, Steps
  <2> QED  BY <2>1 DEF Ready, Has
<1>2. Current(c).op \in Operations
  <2>1. Here(c) \in Places(kernel) /\ At(kernel, Here(c)) = Current(c)  BY <1>1, HereIs
  <2>2. kernel \in Kernels  BY DEF PInv, PlaceInv
  <2>3. Meets(kernel)  BY <2>2
  <2>4. At(kernel, Here(c)).op \in Operations  BY <2>1, <2>3 DEF Meets
  <2> QED  BY <2>1, <2>4
<1> QED  BY <1>1, <1>2 DEF Ready, Doing, Operations

(* A hart in barrier() has another call before it than one that has exited. *)
LEMMA CallsAhead ==
    ASSUME PInv, NEW c \in Cores, Doing(c, "barrier")
    PROVE  left[c] < Calls(kernel, c)
<1>1. /\ pc[c] \in Nat \ {0} /\ Len(Plan[kernel][c]) \in Nat /\ pc[c] <= Len(Plan[kernel][c])
      /\ kernel \in Kernels /\ Plan[kernel][c][pc[c]].op = "barrier"
  BY PlanAssumption DEF PInv, PlaceInv, Doing, Has, Steps, Current
<1>2. Cardinality(BarriersBefore(kernel, c, pc[c] + 1)) = left[c] + 1
  BY <1>1, OneMoreStep DEF PInv, PlaceInv, Passed
<1>3. Cardinality(BarriersBefore(kernel, c, pc[c] + 1)) <= Calls(kernel, c)
  BY <1>1, FewerBefore DEF Calls
<1>4. left[c] \in Nat /\ Calls(kernel, c) \in Nat
  BY <1>1, BeforeIsFinite DEF PInv, BarrierInv, BarrierTypeOK, Calls
<1> QED  BY <1>2, <1>3, <1>4

(* The harts never wait for each other for ever: as long as one runs, one   *)
(* of them has a step to take. If all waited, those in barrier() would be   *)
(* in one round; a hart that has exited has all calls behind it, which      *)
(* those in barrier() have not; and a round all harts are in has a last one,*)
(* which does not spin.                                                     *)
THEOREM NoDeadlock ==
    (\A k \in Kernels : Divides(k) /\ Stays(k) /\ Computes(k) /\ Meets(k)) => (PSpec => []NeverStuck)
<1> SUFFICES ASSUME \A k \in Kernels : Divides(k) /\ Stays(k) /\ Computes(k) /\ Meets(k)
             PROVE  PSpec => []NeverStuck
  OBVIOUS
<1>1. PInv /\ ExitInv /\ VerifyPasses => NeverStuck
  <2> SUFFICES ASSUME PInv, ExitInv, VerifyPasses, \A c \in Cores : ~Ready(c), NEW b \in Cores, exit[b] # 0
               PROVE  FALSE
    BY DEF NeverStuck
  <2>1. \A c \in Cores : exit[c] = Running \/ exit[c] = 0
    BY DEF PInv, PlaceInv, VerifyPasses
  <2>2. \A c \in Cores : exit[c] = Running =>
            Doing(c, "barrier") /\ stage[c] = "spin" /\ sense # threadsense[c]
    BY NotReady
  <2>3. PICK n \in Nat : RoundInv(n)  BY DEF PInv, BarrierInv
  <2>4. \A c \in Cores : exit[c] = Running => entered[c] = n + 1 /\ left[c] = n
    <3> SUFFICES ASSUME NEW c \in Cores, exit[c] = Running PROVE entered[c] = n + 1 /\ left[c] = n
      OBVIOUS
    <3>1. stage[c] = "spin" /\ sense # threadsense[c]  BY <2>2
    <3>2. entered[c] = n + 1 /\ entered[c] = left[c] + 1  BY <2>3, <3>1 DEF RoundInv, InRound
    <3>3. left[c] \in Nat  BY DEF PInv, BarrierInv, BarrierTypeOK
    <3> QED  BY <3>2, <3>3
  <2>5. \A c \in Cores : exit[c] = Running
    <3> SUFFICES ASSUME NEW c \in Cores, exit[c] = 0 PROVE FALSE  BY <2>1
    <3>1. pc[c] = Len(Steps(c)) + 1 /\ Len(Steps(c)) \in Nat /\ kernel \in Kernels
      BY PlanAssumption DEF ExitInv, PInv, PlaceInv, Steps
    <3>2. left[c] = Calls(kernel, c)  BY <3>1 DEF PInv, PlaceInv, Passed, Calls, Steps
    <3>3. stage[c] = "out"  BY DEF PInv, PlaceInv, Doing, Has, Running
    <3>4. left[c] = n  BY <2>3, <3>3 DEF RoundInv, InRound
    <3>5. exit[b] = Running  BY <2>1
    <3>6. left[b] < Calls(kernel, b) /\ left[b] = n  BY <2>2, <2>4, <3>5, CallsAhead
    <3>7. Calls(kernel, b) = Calls(kernel, c)  BY <3>1 DEF Meets
    <3>8. n < n  BY <3>2, <3>4, <3>6, <3>7
    <3> QED  BY <2>3, <3>8
  <2>6. Waiting(n) = Cores  BY <2>4, <2>5 DEF Waiting
  <2>7. Last = {}  BY <2>2, <2>5 DEF Last
  <2> QED  BY <2>3, <2>6, <2>7 DEF RoundInv, Counted
<1>2. PSpec => []VerifyPasses  BY AlwaysVerified
<1> QED  BY <1>1, <1>2, PlaceAlwaysInv, ExitAlwaysInv, PTL

(* What a hart still has to do, in steps at most: three for each step of    *)
(* its list, less those it has taken of the one it is in, and the exit.     *)
Taken(c) == CASE stage[c] = "out" -> IF DOMAIN reg[c] = {} THEN 0 ELSE 1
              [] stage[c] = "reset" -> 1
              [] OTHER -> 2
Work(c) == IF exit[c] = Running THEN 3 * (Len(Steps(c)) + 1 - pc[c]) + 1 - Taken(c) ELSE 0

WorkIsDone == \E c \in Cores :
    /\ Work(c)' < Work(c)
    /\ \A d \in Cores \ {c} : Work(d)' = Work(d)

(* What a hart has loaded belongs to the += it is in.                       *)
LoadInv ==
    /\ reg \in [Cores -> {reg[c] : c \in Cores}]
    /\ \A c \in Cores : DOMAIN reg[c] # {} => Doing(c, "add")

LEMMA LoadAlwaysInv == PSpec => []LoadInv
<1>1. PInit => LoadInv  BY DEF PInit, LoadInv, Nothing
<1>2. PInv /\ LoadInv /\ [PNext]_vars => LoadInv'
  <2> SUFFICES ASSUME PInv, LoadInv, [PNext]_vars PROVE LoadInv'  OBVIOUS
  <2>1. CASE UNCHANGED vars
    BY <2>1 DEF LoadInv, vars, programVars, Doing, Has, Current, Steps
  <2>2. ASSUME NEW c \in Cores, Hart(c) PROVE LoadInv'
    <3>1. kernel' = kernel /\ \A d \in Cores : Steps(d)' = Steps(d)
      BY <2>2 DEF Hart, Set, Load, Store, Meet, Verify, Exit, Steps
    <3>2. \A d \in Cores : d # c => pc'[d] = pc[d] /\ exit'[d] = exit[d] /\ reg'[d] = reg[d]
      BY <2>2 DEF Hart, Set, Load, Store, Meet, Verify, Exit, Advance, PInv, PlaceInv, LoadInv
    <3>3. \A d \in Cores : d # c => Doing(d, "add")' = Doing(d, "add")
      BY <3>1, <3>2 DEF Doing, Has, Current
    <3>4. DOMAIN reg'[c] # {} => Doing(c, "add")'
      <4>1. CASE Load(c)
        BY <3>1, <4>1 DEF Load, Doing, Has, Current
      <4>2. CASE Store(c)  BY <4>2 DEF Store, LoadInv, Nothing
      <4>3. CASE Set(c) \/ Meet(c) \/ Verify(c) \/ Exit(c)
        <5>1. reg' = reg  BY <4>3 DEF Set, Meet, Verify, Exit
        <5>2. ~Doing(c, "add")
          BY <4>3, PlanAssumption DEF Set, Meet, Verify, Exit, Doing, Has, PInv, PlaceInv, Steps
        <5> QED  BY <5>1, <5>2 DEF LoadInv
      <4> QED  BY <2>2, <4>1, <4>2, <4>3 DEF Hart
    <3>5. reg' \in [Cores -> {reg'[d] : d \in Cores}]
      <4>1. reg' = reg \/ \E v : reg' = [reg EXCEPT ![c] = v]
        BY <2>2 DEF Hart, Set, Load, Store, Meet, Verify, Exit
      <4> QED  BY <4>1 DEF LoadInv
    <3> QED  BY <3>2, <3>3, <3>4, <3>5 DEF LoadInv
  <2> QED  BY <2>1, <2>2 DEF PNext, Stopped
<1> QED  BY <1>1, <1>2, PlaceAlwaysInv, PTL DEF PSpec

(* What is left to do is a number. *)
LEMMA WorkIsNat == ASSUME PInv, LoadInv, NEW c \in Cores PROVE Work(c) \in Nat
<1>1. pc[c] \in Nat \ {0} /\ Len(Steps(c)) \in Nat /\ pc[c] <= Len(Steps(c)) + 1
  BY PlanAssumption DEF PInv, PlaceInv, Steps
<1>2. Taken(c) \in 0 .. 2 /\ (Taken(c) # 0 => Has(c))
  BY DEF Taken, PInv, PlaceInv, Doing, LoadInv
<1>3. Has(c) => pc[c] <= Len(Steps(c))  BY DEF Has
<1> QED  BY <1>1, <1>2, <1>3 DEF Work

(* A step of a hart takes it nearer to its end.                             *)
LEMMA HartWorks ==
    ASSUME PInv, LoadInv, PInv', LoadInv', \A k \in Kernels : Meets(k), NEW c \in Cores, Hart(c)
    PROVE  Work(c)' < Work(c)
<1> DEFINE n == Len(Steps(c))
<1>1. n \in Nat /\ kernel' = kernel /\ Steps(c)' = Steps(c) /\ pc[c] \in Nat \ {0} /\ kernel \in Kernels
  BY PlanAssumption DEF PInv, PlaceInv, Steps, Hart, Set, Load, Store, Meet, Verify, Exit
<1>2. /\ stage \in [Cores -> {"out", "spin", "reset", "release"}]
      /\ pc \in [Cores -> Nat \ {0}] /\ exit \in [Cores -> {Running, 0, 1}]
      /\ reg \in [Cores -> {reg[d] : d \in Cores}]
  BY DEF PInv, PlaceInv, BarrierInv, BarrierTypeOK, LoadInv
<1>3. exit[c] = Running
  BY DEF Hart, Set, Load, Store, Meet, Verify, Exit, Doing, Has
<1>4. stage[c] # "out" => Doing(c, "barrier")  BY DEF PInv, PlaceInv
<1>5. DOMAIN reg[c] # {} => Doing(c, "add")  BY DEF LoadInv
<1>6. stage'[c] # "out" => Doing(c, "barrier")'  BY DEF PInv, PlaceInv
<1>7. Taken(c) \in 0 .. 2 /\ Taken(c)' \in 0 .. 2  BY DEF Taken
<1>8. Work(c) = 3 * (n + 1 - pc[c]) + 1 - Taken(c)  BY <1>3 DEF Work
<1>9. exit'[c] = Running => Work(c)' = 3 * (n + 1 - pc'[c]) + 1 - Taken(c)'  BY <1>1 DEF Work
<1>10. exit'[c] # Running => Work(c)' = 0  BY DEF Work
<1> HIDE DEF n
<1>11. CASE pc' = [pc EXCEPT ![c] = @ + 1] /\ exit' = exit
  <2>1. pc'[c] = pc[c] + 1 /\ exit'[c] = Running  BY <1>2, <1>3, <1>11
  <2>2. Work(c)' = 3 * (n - pc[c]) + 1 - Taken(c)'
    BY <1>1, <1>7, <1>9, <2>1
  <2> QED  BY <1>1, <1>7, <1>8, <2>2
<1>12. CASE exit'[c] # Running
  <2>1. pc[c] <= n + 1 /\ (Taken(c) # 0 => pc[c] <= n)
    BY <1>4, <1>5 DEF Taken, Doing, Has, n, PInv, PlaceInv
  <2>2. Work(c)' = 0  BY <1>10, <1>12
  <2> QED  BY <1>1, <1>7, <1>8, <2>1, <2>2
<1>13. CASE pc' = pc /\ exit' = exit /\ Taken(c)' > Taken(c)
  BY <1>1, <1>2, <1>3, <1>7, <1>8, <1>9, <1>13
<1>14. CASE Set(c) \/ Store(c)  BY <1>11, <1>14 DEF Set, Store, Advance
<1>15. CASE Load(c)
  <2>1. Current(c).cells # {}
    <3>1. Meets(kernel)  BY <1>1
    <3>2. Here(c) \in Places(kernel) /\ At(kernel, Here(c)) = Current(c)
      BY <1>15, HereIs DEF Load, Doing
    <3> QED  BY <1>15, <3>1, <3>2 DEF Meets, Load, Doing
  <2>2. DOMAIN reg'[c] = Current(c).cells  BY <1>2, <1>15 DEF Load
  <2>3. stage[c] = "out" /\ stage'[c] = "out"
    BY <1>4, <1>15 DEF Load, Doing, barrierVars
  <2>4. Taken(c) = 0 /\ Taken(c)' = 1  BY <1>15, <2>1, <2>2, <2>3 DEF Load, Taken
  <2> QED  BY <1>13, <1>15, <2>4 DEF Load
<1>16. CASE Meet(c)
  <2>1. DOMAIN reg[c] = {} /\ DOMAIN reg'[c] = {}
    BY <1>5, <1>16 DEF Meet, Doing
  <2>2. CASE Arrive(c) \/ Reset(c)
    <3>1. Taken(c)' > Taken(c)
      BY <1>2, <2>1, <2>2 DEF Arrive, Reset, Taken
    <3>2. pc' = pc /\ exit' = exit
      BY <1>16, <2>2 DEF Meet, Arrive, Reset, Release, Spin
    <3> QED  BY <1>13, <3>1, <3>2
  <2>3. CASE ~(Arrive(c) \/ Reset(c))
    BY <1>11, <1>16, <2>3 DEF Meet, Advance
  <2> QED  BY <2>2, <2>3
<1>17. CASE Verify(c)
  <2>1. CASE Right  BY <1>11, <1>17, <2>1 DEF Verify, Advance
  <2>2. CASE ~Right
    <3>1. exit'[c] = 1  BY <1>2, <1>17, <2>2 DEF Verify
    <3> QED  BY <1>12, <3>1 DEF Running
  <2> QED  BY <2>1, <2>2
<1>18. CASE Exit(c)
  <2>1. exit'[c] = 0  BY <1>2, <1>18 DEF Exit
  <2> QED  BY <1>12, <2>1 DEF Running
<1> QED  BY <1>14, <1>15, <1>16, <1>17, <1>18 DEF Hart

(* No run goes on for ever: each step is a step nearer to the end of one    *)
(* hart and takes none away from the others. With NoDeadlock, the harts     *)
(* exit after no more steps than what they have to do at the start.         *)
THEOREM WorkRunsOut ==
    (\A k \in Kernels : Meets(k)) =>
        (PSpec => [](\A c \in Cores : Work(c) \in Nat) /\ [][WorkIsDone]_vars)
<1> SUFFICES ASSUME \A k \in Kernels : Meets(k)
             PROVE  PSpec => [](\A c \in Cores : Work(c) \in Nat) /\ [][WorkIsDone]_vars
  OBVIOUS
<1>1. PInv /\ LoadInv => \A c \in Cores : Work(c) \in Nat  BY WorkIsNat
<1>2. PInv /\ LoadInv /\ PInv' /\ LoadInv' /\ [PNext]_vars => [WorkIsDone]_vars
  <2> SUFFICES ASSUME PInv, LoadInv, PInv', LoadInv', NEW c \in Cores, Hart(c) PROVE WorkIsDone
    BY DEF PNext, Stopped
  <2>1. Work(c)' < Work(c)  BY HartWorks
  <2>2. ASSUME NEW d \in Cores \ {c} PROVE Work(d)' = Work(d)
    <3>1. kernel' = kernel /\ Steps(d)' = Steps(d)
      BY DEF Hart, Set, Load, Store, Meet, Verify, Exit, Steps
    <3>2. pc'[d] = pc[d] /\ exit'[d] = exit[d] /\ reg'[d] = reg[d]
      BY DEF Hart, Set, Load, Store, Meet, Verify, Exit, Advance, PInv, PlaceInv, LoadInv
    <3>3. stage'[d] = stage[d]
      BY DEF Hart, Set, Load, Store, Meet, Verify, Exit, Arrive, Reset, Release, Spin, barrierVars,
             PInv, BarrierInv, BarrierTypeOK
    <3> QED  BY <3>1, <3>2, <3>3 DEF Work, Taken
  <2> QED  BY <2>1, <2>2 DEF WorkIsDone
<1> QED  BY <1>1, <1>2, PlaceAlwaysInv, LoadAlwaysInv, PTL DEF PSpec
=============================================================================
