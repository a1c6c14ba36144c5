-------------------------- MODULE GeneratorProofs --------------------------
(***************************************************************************)
(* What the lint-fix loop guarantees for every set of modules, every bound *)
(* on attempts and runs and every answer of the language model.            *)
(***************************************************************************)
EXTENDS Generator, FiniteSetTheorems, WellFoundedInduction, TLAPS

LEMMA GInitInv == Init => GInv
BY GeneratorAssumption
   DEF Init, GInv, TypeOK, AcceptedWereChecked, VerifiedAreClean

(* The attempt decides: what it accepts is what it has just linted, and is *)
(* clean when Verilator answers.                                           *)
LEMMA LintDecides == ASSUME GInv, Lint PROVE GInv'
<1> USE GeneratorAssumption
<1>1. /\ phase = "lint" /\ current \in Modules /\ current /= Top
      /\ current \notin accepted \cup todo /\ file[current] \in Texts
  BY DEF GInv, TypeOK, Lint
<1>2. UNCHANGED << file, meta, runs, todo, current, attempt >>
  BY DEF Lint, disk
<1>3. checked' = [ checked EXCEPT ![current] = file[current] ]
  BY DEF Lint
<1>4. PICK errors \in HasErrors(file[current]) :
        \/ ~errors /\ phase' = "extract" /\ UNCHANGED results
        \/ errors /\ attempt < MaxIterations /\ phase' = "fix" /\ UNCHANGED results
        \/ /\ errors /\ attempt = MaxIterations /\ phase' = "next"
           /\ failed' = failed \cup {current} /\ accepted' = accepted \cup {current}
  BY DEF Lint
<1>5. TypeOK'
  BY <1>1, <1>2, <1>3, <1>4 DEF GInv, TypeOK, results
<1>6. DockerUp /\ ~errors => file[current].flaw = "none"
  BY <1>1, <1>4 DEF HasErrors, LintErrors, RuleErrors, Texts
<1>7. \A m \in accepted' \ {current} : checked'[m] = checked[m]
  BY <1>1, <1>3, <1>4 DEF GInv, TypeOK, results
<1>8. checked'[current] = file[current]
  BY <1>1, <1>3 DEF GInv, TypeOK
<1>9. CASE phase' = "next"
  <2>1. accepted' = accepted \cup {current} /\ failed' = failed \cup {current}
    BY <1>4, <1>9
  <2>2. (accepted \cap todo = {})'
    BY <1>1, <1>2, <2>1 DEF GInv
  <2>3. AcceptedWereChecked'
    BY <1>2, <1>7, <1>8, <2>1 DEF GInv, AcceptedWereChecked
  <2>4. (DockerUp => VerifiedAreClean)'
    BY <1>2, <2>1 DEF GInv, VerifiedAreClean
  <2> QED
    BY <1>5, <1>9, <2>2, <2>3, <2>4 DEF GInv
<1>10. CASE phase' /= "next"
  <2>1. UNCHANGED results /\ phase' \in {"extract", "fix"}
        /\ (phase' = "fix" => attempt' < MaxIterations)
    BY <1>2, <1>4, <1>10
  <2>2. (accepted \cap todo = {} /\ current /= Top
         /\ current \notin accepted \cup todo /\ file[current] \in Texts)'
    BY <1>1, <1>2, <2>1 DEF GInv, results, Texts
  <2>3. (phase = "extract" => /\ file[current] = checked[current]
                              /\ DockerUp => file[current].flaw = "none")'
    BY <1>2, <1>4, <1>6, <1>8, <2>1
  <2>4. AcceptedWereChecked'
    BY <1>1, <1>2, <1>7, <2>1 DEF GInv, AcceptedWereChecked, results
  <2>5. (DockerUp => VerifiedAreClean)'
    BY <1>2, <2>1 DEF GInv, VerifiedAreClean, results
  <2> QED
    BY <1>5, <2>1, <2>2, <2>3, <2>4, <2>5 DEF GInv
<1> QED
  BY <1>9, <1>10

(* A new text for a module in the loop: the module is not accepted yet, so *)
(* no accepted module changes.                                             *)
LEMMA BodyKeepsOthers == ASSUME GInv, NEW m \in Modules, GenerateBody(m) PROVE GInv'
<1> USE GeneratorAssumption
<1>1. PICK t \in Texts : file' = [ file EXCEPT ![m] = t ]
  BY DEF GenerateBody
<1>2. /\ current' = m /\ phase' = "lint" /\ attempt' = 1 /\ m /= Top
      /\ m \in todo /\ todo' = todo \ {m}
      /\ UNCHANGED << meta, runs, accepted, failed, checked >>
  BY DEF GenerateBody, Turn, results
<1>3. m \notin accepted
  BY <1>2 DEF GInv
<1>4. TypeOK'
  BY <1>1, <1>2 DEF GInv, TypeOK
<1>5. (accepted \cap todo = {} /\ current /= Top
       /\ current \notin accepted \cup todo /\ file[current] \in Texts)'
  BY <1>1, <1>2, <1>3 DEF GInv, TypeOK, Texts
<1>6. AcceptedWereChecked'
  BY <1>1, <1>2, <1>3 DEF GInv, TypeOK, AcceptedWereChecked
<1>7. (DockerUp => VerifiedAreClean)'
  BY <1>1, <1>2, <1>3 DEF GInv, TypeOK, VerifiedAreClean
<1> QED
  BY <1>2, <1>4, <1>5, <1>6, <1>7 DEF GInv

LEMMA FixKeepsOthers == ASSUME GInv, Fix PROVE GInv'
<1> USE GeneratorAssumption
<1>1. PICK t \in Texts : file' = [ file EXCEPT ![current] = t ]
  BY DEF Fix
<1>2. /\ phase = "fix" /\ phase' = "lint" /\ attempt' = attempt + 1
      /\ UNCHANGED << current, todo, meta, runs, accepted, failed, checked >>
  BY DEF Fix, results
<1>3. /\ current /= Top /\ current \notin accepted \cup todo
      /\ attempt < MaxIterations
  BY <1>2 DEF GInv
<1>4. TypeOK'
  BY <1>1, <1>2, <1>3 DEF GInv, TypeOK
<1>5. (accepted \cap todo = {} /\ current /= Top
       /\ current \notin accepted \cup todo /\ file[current] \in Texts)'
  BY <1>1, <1>2, <1>3 DEF GInv, TypeOK, Texts
<1>6. AcceptedWereChecked'
  BY <1>1, <1>2, <1>3 DEF GInv, TypeOK, AcceptedWereChecked
<1>7. (DockerUp => VerifiedAreClean)'
  BY <1>1, <1>2, <1>3 DEF GInv, TypeOK, VerifiedAreClean
<1> QED
  BY <1>2, <1>4, <1>5, <1>6, <1>7 DEF GInv

(* The ports are those of the text the last attempt accepted.              *)
LEMMA ExtractKeepsClean == ASSUME GInv, ExtractPorts PROVE GInv'
<1> USE GeneratorAssumption
<1>1. /\ phase = "extract" /\ phase' = "next"
      /\ meta' = [ meta EXCEPT ![current] = file[current].ports ]
      /\ accepted' = accepted \cup {current}
      /\ UNCHANGED << file, runs, todo, current, attempt, failed, checked >>
  BY DEF ExtractPorts
<1>2. /\ current \notin todo /\ current \notin accepted /\ file[current] \in Texts
      /\ file[current] = checked[current] /\ (DockerUp => file[current].flaw = "none")
  BY <1>1 DEF GInv
<1>3. TypeOK'
  BY <1>1, <1>2 DEF GInv, TypeOK, Texts
<1>4. (accepted \cap todo = {})'
  BY <1>1, <1>2 DEF GInv
<1>5. AcceptedWereChecked'
  BY <1>1, <1>2 DEF GInv, AcceptedWereChecked
<1>6. ASSUME DockerUp, NEW m \in accepted' \ (failed' \cup {Top})
      PROVE  file'[m].flaw = "none" /\ meta'[m] = file'[m].ports
  BY <1>1, <1>2, <1>6 DEF GInv, TypeOK, VerifiedAreClean
<1>7. (DockerUp => VerifiedAreClean)'
  BY <1>6 DEF VerifiedAreClean
<1> QED
  BY <1>1, <1>3, <1>4, <1>5, <1>7 DEF GInv

LEMMA TopKeepsOthers == ASSUME GInv, GenerateTop PROVE GInv'
<1> USE GeneratorAssumption
<1>1. PICK t \in Texts : file' = [ file EXCEPT ![Top] = t ]
  BY DEF GenerateTop
<1>2. /\ phase = "next" /\ Top \in todo /\ todo' = todo \ {Top}
      /\ accepted' = accepted \cup {Top}
      /\ UNCHANGED << meta, runs, current, phase, attempt, failed, checked >>
  BY DEF GenerateTop, Turn
<1>3. TypeOK'
  BY <1>1, <1>2 DEF GInv, TypeOK
<1>4. (accepted \cap todo = {})'
  BY <1>2 DEF GInv
<1>5. AcceptedWereChecked'
  BY <1>1, <1>2 DEF GInv, TypeOK, AcceptedWereChecked
<1>6. (DockerUp => VerifiedAreClean)'
  BY <1>1, <1>2 DEF GInv, TypeOK, VerifiedAreClean
<1> QED
  BY <1>2, <1>3, <1>4, <1>5, <1>6 DEF GInv

(* Every other step leaves the files and the ports files as they are.      *)
LEMMA GInvStep == GInv /\ [Next]_vars => GInv'
<1> SUFFICES ASSUME GInv, [Next]_vars PROVE GInv'
  OBVIOUS
<1> USE GeneratorAssumption
<1>1. CASE StartRun
  BY <1>1 DEF StartRun, disk, GInv, TypeOK, AcceptedWereChecked, VerifiedAreClean
<1>2. CASE \E m \in Modules : GenerateBody(m)
  BY <1>2, BodyKeepsOthers
<1>3. ASSUME NEW m \in Modules, BodyRaises(m) PROVE GInv'
  BY <1>3 DEF BodyRaises, Turn, disk, GInv, TypeOK, AcceptedWereChecked, VerifiedAreClean
<1>4. CASE Lint
  BY <1>4, LintDecides
<1>5. CASE Fix
  BY <1>5, FixKeepsOthers
<1>6. CASE AttemptRaises
  BY <1>6 DEF AttemptRaises, disk, GInv, TypeOK, AcceptedWereChecked, VerifiedAreClean
<1>7. CASE ExtractPorts
  BY <1>7, ExtractKeepsClean
<1>8. CASE GenerateTop
  BY <1>8, TopKeepsOthers
<1>9. CASE EndRun
  BY <1>9 DEF EndRun, disk, results, GInv, TypeOK, AcceptedWereChecked, VerifiedAreClean
<1>10. CASE Kill
  BY <1>10 DEF Kill, disk, GInv, TypeOK, AcceptedWereChecked, VerifiedAreClean
<1>11. CASE UNCHANGED vars
  BY <1>11 DEF vars, disk, results, GInv, TypeOK, AcceptedWereChecked, VerifiedAreClean
<1> QED
  BY <1>1, <1>2, <1>3, <1>4, <1>5, <1>6, <1>7, <1>8, <1>9, <1>10, <1>11 DEF Next, Step

(* The inductive invariant holds in every run of step_generate.            *)
THEOREM GInvHolds == Spec => []GInv
<1>1. Init => GInv
  BY GInitInv
<1>2. GInv /\ [Next]_vars => GInv'
  BY GInvStep
<1> QED
  BY <1>1, <1>2, PTL DEF Spec

(* What is on disk for an accepted module is what was linted last.         *)
THEOREM AcceptedText == Spec => []AcceptedWereChecked
<1>1. GInv => AcceptedWereChecked
  BY DEF GInv
<1> QED
  BY <1>1, GInvHolds, PTL

(* "[OK] <m>.v generated and verified" is true as long as Verilator        *)
(* answers, and the ports file is then that of the text on disk, however   *)
(* many runs there were before and wherever they were killed.              *)
THEOREM VerifiedClean == ASSUME DockerUp PROVE Spec => []VerifiedAreClean
<1>1. GInv => VerifiedAreClean
  BY DEF GInv
<1> QED
  BY <1>1, GInvHolds, PTL

---------------------------------------------------------------------------
(* The end of a run. *)

(* The steps a run has left, at most: for each module still to do its body, *)
(* two for each attempt and the turn to the next; for the module in the     *)
(* loop those of the attempts it has left.                                  *)
PerModule  == 2 * MaxIterations + 1
Later      == MaxIterations - attempt
StepsLeft  ==
    IF phase = "idle" THEN 0
    ELSE Cardinality(todo) * PerModule + 1
         + CASE phase = "lint" -> 2 * Later + 2
             [] phase = "fix"  -> 2 * Later + 1
             [] phase = "extract" -> 1
             [] OTHER -> 0

(* Only modules of MODULE_ORDER are generated, which is a list.            *)
LEMMA TodoIsFinite ==
    ASSUME NEW T \in SUBSET Modules
    PROVE  /\ IsFiniteSet(T) /\ Cardinality(T) \in Nat
           /\ \A m \in T : Cardinality(T \ {m}) = Cardinality(T) - 1
<1>1. Len(Order) \in Nat /\ DOMAIN Order = 1 .. Len(Order) /\ Order \in [ 1 .. Len(Order) -> Modules ]
  BY GeneratorAssumption
<1>2. IsFiniteSet(Modules)
  <2>1. IsFiniteSet(1 .. Len(Order))
    BY <1>1, FS_Interval
  <2>2. \A m \in Modules : \E i \in 1 .. Len(Order) : Order[i] = m
    BY <1>1 DEF Modules
  <2>3. Order \in Surjection(1 .. Len(Order), Modules)
    BY <1>1, <2>2 DEF Surjection
  <2> QED
    BY <2>1, <2>3, FS_Surjection
<1> QED
  BY <1>2, FS_Subset, FS_CardinalityType, FS_RemoveElement

(* MODULE_ORDER decides whose turn it is.                                  *)
LEMMA TurnComes ==
    ASSUME NEW T \in SUBSET Modules, T /= {}
    PROVE  \E m \in T : \A n \in T : Rank(m) <= Rank(n)
<1> DEFINE R == { Rank(m) : m \in T }
           L == OpToRel(<, Nat)
<1>1. \A m \in T : Rank(m) \in Nat
  BY GeneratorAssumption DEF Rank, Modules
<1>2. R \subseteq Nat /\ R /= {}
  BY <1>1
<1>3. \A i, j \in Nat : << i, j >> \in L <=> i < j
  BY DEF OpToRel
<1>4. IsWellFoundedOn(L, Nat)
  BY NatLessThanWellFounded
<1> HIDE DEF L
<1>5. PICK r \in R : \A i \in R : ~(<< i, r >> \in L)
  BY <1>2, <1>4, WFMin
<1>6. PICK m \in T : r = Rank(m)
  BY <1>5
<1>7. ASSUME NEW n \in T PROVE Rank(m) <= Rank(n)
  <2>1. Rank(n) \in R /\ Rank(n) \in Nat /\ Rank(m) \in Nat
    BY <1>1
  <2>2. ~(Rank(n) < Rank(m))
    BY <1>3, <1>5, <1>6, <2>1
  <2> QED
    BY <2>1, <2>2
<1> QED
  BY <1>7

(* The modules still to do count for a number of steps ...                 *)
LEMMA TodoCounts == GInv => Cardinality(todo) * PerModule \in Nat
<1> SUFFICES ASSUME GInv PROVE Cardinality(todo) * PerModule \in Nat
  OBVIOUS
<1>1. todo \in SUBSET Modules
  BY DEF GInv, TypeOK
<1>2. Cardinality(todo) \in Nat /\ PerModule \in Nat
  BY <1>1, TodoIsFinite, GeneratorAssumption DEF PerModule
<1> QED
  BY <1>2

(* ... and so is what is left a number.                                    *)
LEMMA StepsLeftIsNat == GInv => StepsLeft \in Nat
<1> SUFFICES ASSUME GInv PROVE StepsLeft \in Nat
  OBVIOUS
<1> DEFINE a == Cardinality(todo) * PerModule
<1>1. a \in Nat
  BY TodoCounts
<1>2. Later \in Nat
  BY GeneratorAssumption DEF GInv, TypeOK, Later
<1> HIDE DEF a
<1>3. StepsLeft \in { 0, a + 1 + (2 * Later + 2), a + 1 + (2 * Later + 1), a + 1 + 1, a + 1 + 0 }
  BY DEF StepsLeft, a
<1> QED
  BY <1>1, <1>2, <1>3

(* A module less to do is PerModule steps less.                            *)
LEMMA OneModuleLess ==
    ASSUME GInv, NEW m \in todo, phase = "next", todo' = todo \ {m}
    PROVE  /\ Cardinality(todo') * PerModule \in Nat /\ PerModule \in Nat
           /\ StepsLeft = Cardinality(todo') * PerModule + PerModule + 1
<1>1. todo \in SUBSET Modules /\ todo' \in SUBSET Modules
  BY DEF GInv, TypeOK
<1>2. /\ Cardinality(todo) = Cardinality(todo') + 1
      /\ Cardinality(todo') \in Nat /\ Cardinality(todo) \in Nat
  BY <1>1, TodoIsFinite
<1>3. PerModule \in Nat
  BY GeneratorAssumption DEF PerModule
<1>4. Cardinality(todo) * PerModule = Cardinality(todo') * PerModule + PerModule
  BY <1>2, <1>3
<1>5. StepsLeft = Cardinality(todo) * PerModule + 1 + 0
  BY DEF StepsLeft
<1>6. Cardinality(todo') * PerModule \in Nat
  BY <1>2, <1>3
<1> QED
  BY <1>3, <1>4, <1>5, <1>6

(* Every step of a run leaves fewer.                                       *)
LEMMA StepShortens == ASSUME GInv, GInv', Step PROVE StepsLeft' < StepsLeft
<1> DEFINE a == Cardinality(todo) * PerModule
<1>1. a \in Nat
  BY TodoCounts
<1>2. MaxIterations \in Nat /\ attempt \in Nat /\ Later \in Nat
  BY GeneratorAssumption DEF GInv, TypeOK, Later
<1>3. phase /= "idle" => StepsLeft = a + 1 + CASE phase = "lint" -> 2 * Later + 2
                                               [] phase = "fix"  -> 2 * Later + 1
                                               [] phase = "extract" -> 1
                                               [] OTHER -> 0
  BY DEF StepsLeft
<1>4. todo' = todo /\ phase' /= "idle" =>
          StepsLeft' = a + 1 + CASE phase' = "lint" -> 2 * Later' + 2
                                 [] phase' = "fix"  -> 2 * Later' + 1
                                 [] phase' = "extract" -> 1
                                 [] OTHER -> 0
  BY DEF StepsLeft
<1> HIDE DEF a
<1>5. ASSUME NEW m \in Modules, GenerateBody(m) PROVE StepsLeft' < StepsLeft
  <2> DEFINE b == Cardinality(todo') * PerModule
  <2>1. m \in todo /\ phase = "next" /\ todo' = todo \ {m} /\ phase' = "lint" /\ attempt' = 1
    BY <1>5 DEF GenerateBody, Turn
  <2>2. b \in Nat /\ StepsLeft = b + PerModule + 1
    BY <2>1, OneModuleLess
  <2>3. StepsLeft' = b + 1 + (2 * (MaxIterations - 1) + 2)
    BY <2>1 DEF StepsLeft, Later
  <2> HIDE DEF b
  <2> QED
    BY <1>2, <2>2, <2>3 DEF PerModule
<1>6. ASSUME NEW m \in todo, phase = "next", todo' = todo \ {m}, phase' = "next"
      PROVE  StepsLeft' < StepsLeft
  <2> DEFINE b == Cardinality(todo') * PerModule
  <2>1. b \in Nat /\ StepsLeft = b + PerModule + 1
    BY <1>6, OneModuleLess
  <2>2. StepsLeft' = b + 1 + 0
    BY <1>6 DEF StepsLeft
  <2> HIDE DEF b
  <2> QED
    BY <1>2, <2>1, <2>2 DEF PerModule
<1>7. ASSUME NEW m \in Modules, BodyRaises(m) PROVE StepsLeft' < StepsLeft
  BY <1>6, <1>7 DEF BodyRaises, Turn
<1>8. CASE GenerateTop
  BY <1>6, <1>8 DEF GenerateTop, Turn
<1>9. CASE Lint
  <2>1. /\ phase = "lint" /\ phase' \in {"extract", "fix", "next"}
        /\ todo' = todo /\ attempt' = attempt
    BY <1>9 DEF Lint
  <2>2. StepsLeft = a + 1 + (2 * Later + 2)
    BY <1>3, <2>1
  <2>3. StepsLeft' \in { a + 1 + (2 * Later + 1), a + 1 + 1, a + 1 + 0 }
    BY <1>4, <2>1 DEF Later
  <2> QED
    BY <1>1, <1>2, <2>2, <2>3
<1>10. CASE Fix
  <2>1. phase = "fix" /\ phase' = "lint" /\ todo' = todo /\ attempt' = attempt + 1
    BY <1>10 DEF Fix
  <2>2. StepsLeft = a + 1 + (2 * Later + 1)
    BY <1>3, <2>1
  <2>3. StepsLeft' = a + 1 + (2 * (Later - 1) + 2)
    <3>1. Later' = Later - 1
      BY <1>2, <2>1 DEF Later
    <3> QED
      BY <1>4, <2>1, <3>1
  <2> QED
    BY <1>1, <1>2, <2>2, <2>3
<1>11. CASE AttemptRaises
  <2>1. phase \in {"lint", "fix"} /\ phase' = "next" /\ todo' = todo
    BY <1>11 DEF AttemptRaises
  <2>2. StepsLeft \in { a + 1 + (2 * Later + 2), a + 1 + (2 * Later + 1) }
    BY <1>3, <2>1
  <2>3. StepsLeft' = a + 1 + 0
    BY <1>4, <2>1
  <2> QED
    BY <1>1, <1>2, <2>2, <2>3
<1>12. CASE ExtractPorts
  <2>1. phase = "extract" /\ phase' = "next" /\ todo' = todo
    BY <1>12 DEF ExtractPorts
  <2>2. StepsLeft = a + 1 + 1 /\ StepsLeft' = a + 1 + 0
    BY <1>3, <1>4, <2>1
  <2> QED
    BY <1>1, <2>2
<1>13. CASE EndRun
  <2>1. phase = "next" /\ phase' = "idle"
    BY <1>13 DEF EndRun
  <2>2. StepsLeft = a + 1 + 0 /\ StepsLeft' = 0
    BY <1>3, <2>1 DEF StepsLeft
  <2> QED
    BY <1>1, <2>2
<1> QED
  BY <1>5, <1>7, <1>8, <1>9, <1>10, <1>11, <1>12, <1>13 DEF Step

(* A run ends, whatever the language model answers: every step of it, kills *)
(* apart, leaves fewer, from a number that only the modules and the         *)
(* attempts decide.                                                         *)
THEOREM RunsShorten == Spec => [](StepsLeft \in Nat) /\ [][Step => StepsLeft' < StepsLeft]_vars
<1>1. GInv /\ GInv' => (Step => StepsLeft' < StepsLeft)
  BY StepShortens
<1> QED
  BY <1>1, StepsLeftIsNat, GInvHolds, PTL

(* The conditions under which a step of a run can be taken.                *)
HasStep ==
    \/ phase = "next" /\ (todo = {} \/ \E m \in todo : \A n \in todo : Rank(m) <= Rank(n))
    \/ phase = "lint" /\ \E errors \in HasErrors(file[current]) : errors => attempt <= MaxIterations
    \/ phase = "fix" /\ attempt + 1 \in 1 .. MaxIterations
    \/ phase = "extract"

(* A run never gets stuck before its end: there is always a module whose    *)
(* turn it is, an attempt that decides, or the end of the loop.            *)
THEOREM RunsGoOn == Spec => [](phase /= "idle" => HasStep)
<1>1. GInv => (phase /= "idle" => HasStep)
  <2> SUFFICES ASSUME GInv, phase /= "idle" PROVE HasStep
    OBVIOUS
  <2>1. CASE phase = "next"
    <3>1. todo \in SUBSET Modules
      BY DEF GInv, TypeOK
    <3> QED
      BY <2>1, <3>1, TurnComes DEF HasStep
  <2>2. CASE phase = "lint"
    <3>1. attempt <= MaxIterations
      BY GeneratorAssumption DEF GInv, TypeOK
    <3>2. \E errors \in HasErrors(file[current]) : TRUE
      BY DEF HasErrors, LintErrors
    <3> QED
      BY <2>2, <3>1, <3>2 DEF HasStep
  <2>3. CASE phase = "fix"
    BY <2>3, GeneratorAssumption DEF GInv, TypeOK, HasStep
  <2>4. CASE phase = "extract"
    BY <2>4 DEF HasStep
  <2> QED
    BY <2>1, <2>2, <2>3, <2>4 DEF GInv, TypeOK
<1> QED
  BY <1>1, GInvHolds, PTL

=============================================================================
