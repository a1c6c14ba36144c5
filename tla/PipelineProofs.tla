--------------------------- MODULE PipelineProofs ---------------------------
(***************************************************************************)
(* What holds after any number of runs of the pipeline, with any failures  *)
(* and kills, for any repositories, entries, tests and modules.            *)
(***************************************************************************)
EXTENDS RunPipeline, StoreProofs

(* The runner is a step of the run, and what it has credited is earned.    *)
RunnerInv ==
    /\ runner \in [ at : { "idle", "find", "test", "exit", "written" },
                    todo : Seq(ToSet(Tests)), passed : SUBSET ToSet(Tests) ]
    /\ step # "tests" \/ Flag("skip_tests") \/ runner.at = "idle" => runner = NotRunning
    /\ runner.at = "find" => runner.passed = {}
    /\ runner.at = "test" => \A t \in runner.passed : Passes(binary, t)
    /\ runner.at = "written" => table.build = binary
    /\ PassesAreEarned

(* What the run has got done is about the files the run has.               *)
Before(points) == step \in points
ReportsInv ==
    /\ runs \in Nat /\ accepted \subseteq Modules /\ compile_ok \in BOOLEAN
    /\ Before({ "corpus", "knowledge", "generate", "sync", "verilate" }) => did = {}
    /\ Before({ "tests" }) => did \subseteq { "compiled" }
    /\ Before({ "copy" }) => did \subseteq { "compiled", "tested" }
    /\ Before({ "verilate" }) => \A m \in accepted \ uncopied : container[m] = host[m]
    /\ "compiled" \in did => \A m \in accepted \ uncopied : binary[m] = host[m]
    /\ "tested" \in did => table.build = binary
    /\ "copied" \in did => hostTable = table
    /\ step # "start" /\ compile_ok => "compiled" \in did
    /\ summary # Nothing =>
          /\ summary.run \in Nat /\ summary.run <= runs
          /\ summary.run = runs => step = "start" /\ (summary.compile_ok => "compiled" \in did)

PipelineInv == CorpusInv /\ KnowledgeInv /\ RunnerInv /\ ReportsInv

LEMMA InitInv == Init => PipelineInv
<1> SUFFICES ASSUME Init PROVE PipelineInv  OBVIOUS
<1>1. CorpusInv /\ KnowledgeInv  BY CorpusInitInv, KnowledgeInitInv DEF Init
<1>2. RunnerInv  BY DEF Init, RunnerInit, RunnerInv, NotRunning, PassesAreEarned, Earned
<1>3. ReportsInv  BY DEF Init, RunnerInit, ReportsInv, Before
<1> QED  BY <1>1, <1>2, <1>3 DEF PipelineInv

(* A run does to the collections what their own operations do. *)
LEMMA CorpusInRun ==
    ASSUME [Next]_vars
    PROVE  \/ \E force \in BOOLEAN : BuildCorpus(force)
           \/ BuildStep \/ EndBuild \/ BuildDies
           \/ UNCHANGED corpusVars
<1>1. CASE StepBuildCorpus
  <2>1. Flag("force_rebuild") \in BOOLEAN  BY DEF Flag
  <2>2. BuildCorpus(Flag("force_rebuild")) => \E force \in BOOLEAN : BuildCorpus(force)
    BY <2>1, Zenon
  <2> QED  BY <1>1, <2>2, Zenon DEF StepBuildCorpus
<1>2. CASE Start \/ NewVersion  BY <1>2 DEF Start, NewVersion, otherSteps
<1>3. CASE StepBuildKnowledge \/ StepGenerate \/ Sync \/ Compile
  BY <1>3 DEF StepBuildKnowledge, StepGenerate, Sync, Compile, otherSteps
<1>4. CASE StepRunTests \/ CopyResults \/ StepWriteSummary
  BY <1>4 DEF StepRunTests, CopyResults, StepWriteSummary, otherSteps
<1>5. CASE Die  BY <1>5 DEF Die
<1>6. CASE UNCHANGED vars  BY <1>6 DEF vars
<1> QED  BY <1>1, <1>2, <1>3, <1>4, <1>5, <1>6 DEF Next, RunStep

LEMMA KnowledgeInRun ==
    ASSUME [Next]_vars
    PROVE  \/ Upgrade
           \/ \E force \in BOOLEAN : BuildKnowledge(force)
           \/ ClearKnowledge \/ AddKnowledge \/ EndKnowledge \/ KnowledgeDies
           \/ UNCHANGED knowledgeVars
<1>1. CASE StepBuildKnowledge
  <2>1. Flag("force_rebuild") \in BOOLEAN  BY DEF Flag
  <2>2. BuildKnowledge(Flag("force_rebuild")) => \E force \in BOOLEAN : BuildKnowledge(force)
    BY <2>1, Zenon
  <2> QED  BY <1>1, <2>2, Zenon DEF StepBuildKnowledge
<1>2. CASE Start \/ NewVersion  BY <1>2 DEF Start, NewVersion, otherSteps
<1>3. CASE StepBuildCorpus \/ StepGenerate \/ Sync \/ Compile
  BY <1>3 DEF StepBuildCorpus, StepGenerate, Sync, Compile, otherSteps
<1>4. CASE StepRunTests \/ CopyResults \/ StepWriteSummary
  BY <1>4 DEF StepRunTests, CopyResults, StepWriteSummary, otherSteps
<1>5. CASE Die  BY <1>5 DEF Die
<1>6. CASE UNCHANGED vars  BY <1>6 DEF vars
<1> QED  BY <1>1, <1>2, <1>3, <1>4, <1>5, <1>6 DEF Next, RunStep
-----------------------------------------------------------------------------
LEMMA RunnerStepInv ==
    ASSUME RunnerInv, step = "tests", ~Flag("skip_tests"), RunnerStep,
           UNCHANGED << step, args, hostTable >>
    PROVE  RunnerInv'
<1> USE DEF RunnerInv, PassesAreEarned, Earned, Flag
<1>1. CASE Find  BY <1>1 DEF Find, runnerFiles
<1>2. CASE FetchTests  BY <1>2 DEF FetchTests
<1>3. ASSUME Testing, NEW verdict, Finished(verdict), UNCHANGED << binary, table >>,
             verdict => Passes(binary, Head(runner.todo))
      PROVE  RunnerInv'
  <2>1. /\ runner.at = "test" /\ runner.todo # << >> /\ runner.todo \in Seq(ToSet(Tests))
        /\ Head(runner.todo) \in ToSet(Tests) /\ Tail(runner.todo) \in Seq(ToSet(Tests))
    BY <1>3 DEF Testing
  <2>2. PICK credit \in SUBSET {Head(runner.todo)} :
          /\ runner' = [ runner EXCEPT !.todo = Tail(@), !.passed = @ \cup credit ]
          /\ \A t \in credit : Passes(binary, t)
    <3>1. CASE verdict
      <4>1. runner' = [ runner EXCEPT !.todo = Tail(@), !.passed = @ \cup {Head(runner.todo)} ]
        BY <1>3, <3>1 DEF Finished
      <4> QED  BY <1>3, <3>1, <4>1
    <3>2. CASE ~verdict
      <4>1. runner' = [ runner EXCEPT !.todo = Tail(@), !.passed = @ \cup {} ]
        BY <1>3, <3>2 DEF Finished
      <4> QED  BY <4>1
    <3> QED  BY <3>1, <3>2
  <2>3. /\ runner'.at = "test" /\ runner'.passed = runner.passed \cup credit
        /\ runner' \in [ at : { "idle", "find", "test", "exit", "written" },
                         todo : Seq(ToSet(Tests)), passed : SUBSET ToSet(Tests) ]
    BY <2>1, <2>2
  <2>4. \A t \in runner'.passed : Passes(binary', t)  BY <1>3, <2>1, <2>2, <2>3
  <2> QED  BY <1>3, <2>3, <2>4
<1>4. CASE NotRun  BY <1>3, <1>4 DEF NotRun, runnerFiles
<1>5. CASE Simulate  BY <1>3, <1>5 DEF Simulate
<1>6. CASE SimulationTimesOut  BY <1>3, <1>6 DEF SimulationTimesOut
<1>7. CASE ConversionRaises  BY <1>7 DEF ConversionRaises, Testing, runnerFiles
<1>8. CASE WriteResults
  <2>1. /\ runner.at = "test" /\ table' = [ build |-> binary, passed |-> runner.passed ]
        /\ runner' = [ runner EXCEPT !.at = "written" ] /\ UNCHANGED binary
    BY <1>8 DEF WriteResults
  <2>2. table'.build = binary' /\ \A t \in table'.passed : Passes(table'.build, t)  BY <2>1
  <2> QED  BY <2>1, <2>2
<1> QED  BY <1>1, <1>2, <1>4, <1>5, <1>6, <1>7, <1>8 DEF RunnerStep

LEMMA RunnerInRun ==
    ASSUME RunnerInv, [Next]_vars
    PROVE  RunnerInv'
<1> USE DEF Flag
<1>1. ASSUME UNCHANGED << runnerVars, hostTable >>,
             step = "tests" => runner = NotRunning \/ UNCHANGED << step, args >>
      PROVE  RunnerInv'
  BY <1>1 DEF RunnerInv, NotRunning, runnerVars, runnerFiles, PassesAreEarned, Earned
<1>2. CASE Start \/ NewVersion \/ StepBuildCorpus \/ StepBuildKnowledge \/ StepGenerate \/ Sync \/ StepWriteSummary
  BY <1>1, <1>2 DEF Start, NewVersion, StepBuildCorpus, StepBuildKnowledge, StepGenerate, Sync,
                    StepWriteSummary, hostFiles, runVars
<1>3. CASE Compile
  <2>1. step = "verilate" /\ UNCHANGED << elves, hex, table, runner, hostTable >>
    BY <1>3 DEF Compile, runnerFiles, hostFiles
  <2> QED  BY <2>1 DEF RunnerInv, NotRunning, PassesAreEarned, Earned
<1>4. CASE CopyResults
  <2>1. step = "copy" /\ UNCHANGED runnerVars /\ hostTable' \in { table, hostTable }
    BY <1>4 DEF CopyResults
  <2> QED  BY <2>1 DEF RunnerInv, runnerVars, runnerFiles, NotRunning, PassesAreEarned, Earned
<1>5. CASE StepRunTests
  <2>1. step = "tests" /\ UNCHANGED << args, hostTable >>  BY <1>5 DEF StepRunTests, hostFiles
  <2>2. CASE UNCHANGED runnerVars /\ (Flag("skip_tests") \/ runner.at = "idle")
    BY <1>1, <2>1, <2>2 DEF RunnerInv
  <2>3. CASE StartRunner /\ UNCHANGED step /\ ~Flag("skip_tests")
    BY <2>1, <2>3, TestsAssumption
    DEF StartRunner, RunnerInv, NotRunning, runnerFiles, PassesAreEarned, Earned
  <2>4. CASE RunnerStep /\ UNCHANGED step
    <3>1. runner.at # "idle"
      BY <2>4 DEF RunnerStep, Find, FetchTests, NotRun, Simulate, SimulationTimesOut,
                  ConversionRaises, WriteResults, Testing
    <3>2. ~Flag("skip_tests")  BY <3>1 DEF RunnerInv, NotRunning
    <3> QED  BY <2>1, <2>4, <3>2, RunnerStepInv
  <2>5. CASE RunnerEnds
    BY <2>1, <2>5 DEF RunnerEnds, RunnerInv, NotRunning, runnerFiles, PassesAreEarned, Earned
  <2> QED  BY <1>5, <2>2, <2>3, <2>4, <2>5 DEF StepRunTests
<1>6. CASE Die
  BY <1>6 DEF Die, RunnerEnds, RunnerInv, NotRunning, runnerFiles, PassesAreEarned, Earned
<1>7. CASE UNCHANGED vars  BY <1>1, <1>7 DEF vars, runVars, hostFiles
<1> QED  BY <1>2, <1>3, <1>4, <1>5, <1>6, <1>7 DEF Next, RunStep
-----------------------------------------------------------------------------
Reported == << step, runs, accepted, uncopied, compile_ok, did, host, container,
               binary, table, hostTable, summary >>

LEMMA ReportsInRun ==
    ASSUME RunnerInv, ReportsInv, [Next]_vars
    PROVE  ReportsInv'
<1> USE DEF ReportsInv, Before
<1>1. CASE UNCHANGED Reported  BY <1>1 DEF Reported
<1>2. CASE Start
  <2>1. /\ step = "start" /\ step' = "corpus" /\ runs' = runs + 1
        /\ accepted' = {} /\ compile_ok' \in BOOLEAN /\ ~compile_ok' /\ did' = {} /\ UNCHANGED summary
    BY <1>2 DEF Start, Goes, hostFiles
  <2>2. summary' # Nothing => summary'.run \in Nat /\ summary'.run < runs'  BY <2>1
  <2> QED  BY <2>1, <2>2
<1>3. CASE StepBuildCorpus \/ StepBuildKnowledge
  <2>1. /\ step \in { "corpus", "knowledge" } /\ step' \in { "corpus", "knowledge", "generate" }
        /\ UNCHANGED << runs, accepted, uncopied, compile_ok, did, host, container,
                        binary, table, hostTable, summary >>
    BY <1>3 DEF StepBuildCorpus, StepBuildKnowledge, Goes, hostFiles, runnerVars, runnerFiles
  <2> QED  BY <2>1
<1>4. CASE StepGenerate
  <2>1. /\ step = "generate" /\ step' \in { "sync", "tests" } /\ accepted' \subseteq Modules
        /\ UNCHANGED << runs, uncopied, compile_ok, did, container, binary, table, hostTable, summary >>
    BY <1>4 DEF StepGenerate, Goes, runnerVars, runnerFiles
  <2> QED  BY <2>1
<1>5. CASE Sync
  <2>1. /\ step = "sync" /\ step' = "verilate"
        /\ UNCHANGED << runs, accepted, compile_ok, did, host, binary, table, hostTable, summary >>
    BY <1>5 DEF Sync, Goes, hostFiles, runnerVars, runnerFiles
  <2>2. \A m \in accepted \ uncopied' : container'[m] = host[m]  BY <1>5 DEF Sync
  <2> QED  BY <2>1, <2>2
<1>6. CASE Compile
  <2>1. /\ step = "verilate" /\ step' \in { "tests", "start" }
        /\ UNCHANGED << runs, accepted, uncopied, host, container, table, hostTable, summary >>
    BY <1>6 DEF Compile, Goes, AfterCompile, hostFiles, runnerFiles
  <2>2. \/ /\ compile_ok' \in BOOLEAN /\ did' = did \cup { "compiled" }
           /\ \A m \in accepted : binary'[m] = container[m]
        \/ UNCHANGED << binary, compile_ok, did >>
    BY <1>6 DEF Compile, Sources
  <2> QED  BY <2>1, <2>2
<1>7. CASE StepRunTests
  <2>1. /\ step = "tests" /\ did \subseteq { "compiled" }
        /\ UNCHANGED << runs, accepted, uncopied, compile_ok, host, container, hostTable, summary >>
    BY <1>7 DEF StepRunTests, hostFiles
  <2>2. CASE UNCHANGED << binary, did >> /\ step' \in { "tests", "copy", "summary" }
    BY <2>1, <2>2
  <2>3. CASE RunnerDone /\ RunnerEnds /\ Goes("copy")
             /\ did' = IF runner.at = "written" THEN did \cup { "tested" } ELSE did
    <3>1. step' = "copy" /\ UNCHANGED << binary, table >>
      BY <2>3 DEF Goes, RunnerEnds, runnerFiles
    <3>2. CASE runner.at = "written"
      <4>1. table.build = binary  BY <3>2 DEF RunnerInv
      <4> QED  BY <2>1, <2>3, <3>1, <3>2, <4>1
    <3>3. CASE runner.at # "written"  BY <2>1, <2>3, <3>1, <3>3
    <3> QED  BY <3>2, <3>3
  <2>4. RunnerStep \/ StartRunner => UNCHANGED binary
    BY DEF RunnerStep, Find, FetchTests, NotRun, Simulate, SimulationTimesOut,
           ConversionRaises, WriteResults, StartRunner
  <2> QED  BY <1>7, <2>1, <2>2, <2>3, <2>4 DEF StepRunTests, Goes, runnerVars
<1>8. CASE CopyResults
  <2>1. /\ step = "copy" /\ step' \in { "start", "summary" }
        /\ UNCHANGED << runs, accepted, uncopied, compile_ok, host, container, binary, table, summary >>
        /\ \/ hostTable' = table /\ did' = did \cup { "copied" }
           \/ UNCHANGED << hostTable, did >>
    BY <1>8 DEF CopyResults, Goes, runnerVars, runnerFiles
  <2> QED  BY <2>1
<1>9. CASE StepWriteSummary
  <2>1. /\ step = "summary" /\ step' = "start"
        /\ UNCHANGED << runs, accepted, uncopied, compile_ok, did, host, container,
                        binary, table, hostTable >>
    BY <1>9 DEF StepWriteSummary, Goes, runnerVars, runnerFiles
  <2>2. summary'.run = runs /\ summary'.compile_ok = compile_ok  BY <1>9 DEF StepWriteSummary
  <2> QED  BY <2>1, <2>2
<1>10. CASE Die
  <2>1. /\ step # "start" /\ step' = "start" /\ did' = {}
        /\ UNCHANGED << runs, accepted, uncopied, compile_ok, container, binary, table,
                        hostTable, summary >>
    BY <1>10 DEF Die, Goes, RunnerEnds, runnerFiles
  <2>2. summary # Nothing => summary.run # runs  BY <2>1
  <2> QED  BY <2>1, <2>2
<1>11. CASE NewVersion \/ UNCHANGED vars
  BY <1>1, <1>11 DEF NewVersion, vars, runVars, hostFiles, runnerVars, runnerFiles, Reported
<1> QED  BY <1>2, <1>3, <1>4, <1>5, <1>6, <1>7, <1>8, <1>9, <1>10, <1>11 DEF Next, RunStep
-----------------------------------------------------------------------------
(* The inductive invariant holds over any number of runs.                  *)
THEOREM PipelineInvHolds == Spec => []PipelineInv
<1>1. PipelineInv /\ [Next]_vars => PipelineInv'
  <2> SUFFICES ASSUME PipelineInv, [Next]_vars PROVE PipelineInv'  OBVIOUS
  <2>1. CorpusInv'  BY CorpusInRun, CorpusStep DEF PipelineInv
  <2>2. KnowledgeInv'  BY KnowledgeInRun, KnowledgeStep DEF PipelineInv
  <2>3. RunnerInv'  BY RunnerInRun DEF PipelineInv
  <2>4. ReportsInv'  BY ReportsInRun DEF PipelineInv
  <2> QED  BY <2>1, <2>2, <2>3, <2>4 DEF PipelineInv
<1> QED  BY InitInv, <1>1, PTL DEF Spec

(* A forced rebuild of the RTL corpus makes up for every clone that failed *)
(* and every build that ended half way before it.                          *)
THEOREM RebuildsHeal == Spec => []RebuildHeals
<1>1. PipelineInv => RebuildHeals  BY CorpusPromises DEF PipelineInv
<1> QED  BY PipelineInvHolds, <1>1, PTL

(* A corpus that is taken for complete and is not goes back to a failure.  *)
THEOREM LossesHaveCauses == Spec => []LossHasACause
<1>1. PipelineInv => LossHasACause  BY CorpusPromises DEF PipelineInv
<1> QED  BY PipelineInvHolds, <1>1, PTL

(* Saved answers of the language model survive every build.                *)
THEOREM AnswersAreKept == Spec => []AnswersKept
<1>1. PipelineInv => AnswersKept  BY CorpusPromises DEF PipelineInv
<1> QED  BY PipelineInvHolds, <1>1, PTL

(* The knowledge base has the present text of every entry after a forced   *)
(* build, and after any build when versions only add entries.              *)
THEOREM KnowledgeCurrent == Spec => []KnowledgeIsCurrent
<1>1. PipelineInv => KnowledgeIsCurrent  BY DEF PipelineInv, KnowledgeInv
<1> QED  BY PipelineInvHolds, <1>1, PTL

(* The tables on both sides credit a test only with its own pass.          *)
THEOREM PassesEarned == Spec => []PassesAreEarned
<1>1. PipelineInv => PassesAreEarned  BY DEF PipelineInv, RunnerInv
<1> QED  BY PipelineInvHolds, <1>1, PTL

(* The reports of a run that got through are about the files of that run.  *)
THEOREM ReportsOfThisRun == Spec => []ReportsAreOfThisRun
<1>1. ASSUME ReportsInv PROVE ReportsAreOfThisRun
  <2>1. "compiled" \in did => \A m \in accepted \ uncopied : binary[m] = host[m]
    BY <1>1 DEF ReportsInv
  <2>2. { "tested", "copied" } \subseteq did => hostTable.build = binary
    BY <1>1 DEF ReportsInv
  <2>3. step = "start" /\ summary # Nothing /\ summary.run = runs /\ summary.compile_ok =>
          "compiled" \in did
    BY <1>1 DEF ReportsInv
  <2> QED  BY <2>1, <2>2, <2>3 DEF ReportsAreOfThisRun
<1>2. PipelineInv => ReportsAreOfThisRun  BY <1>1 DEF PipelineInv
<1> QED  BY PipelineInvHolds, <1>2, PTL
-----------------------------------------------------------------------------
(* How far a run is from its end: the point of its step, counted from the   *)
(* last, and where the point is a loop, what the loop has left to do.       *)
CorpusPoint ==
    CASE At("idle") -> 25 [] At("clone") -> 24 [] At("spec") -> 23 [] At("summaries") -> 22
      [] At("save") -> 21 [] At("saving") -> 20 [] At("documents") -> 19 [] OTHER -> 18
KnowledgePoint ==
    CASE call.at = "idle" -> 17 [] call.at = "clear" -> 16 [] call.at = "add" -> 15 [] OTHER -> 14
RunnerPoint ==
    CASE runner.at = "idle" -> 9 [] runner.at = "find" /\ Probe \notin elves -> 8
      [] runner.at = "find" /\ Probe \in elves -> 7 [] runner.at = "test" -> 6 [] OTHER -> 5
Point ==
    CASE step = "corpus" -> CorpusPoint [] step = "knowledge" -> KnowledgePoint
      [] step = "generate" -> 13 [] step = "sync" -> 12 [] step = "verilate" -> 11
      [] step = "tests" -> RunnerPoint [] step = "copy" -> 2 [] step = "summary" -> 1
      [] OTHER -> 0
Loop ==
    CASE step = "corpus" /\ At("clone") -> Len(build.todo)
      [] step = "corpus" /\ At("documents") -> Cardinality(build.documents)
      [] step = "tests" /\ runner.at = "test" -> Len(runner.todo)
      [] OTHER -> 0

Advances == Point' < Point \/ (Point' = Point /\ Loop' < Loop)

(* A batch has at least one document. *)
LEMMA BatchIsSome == ASSUME NEW n \in Nat \ {0} PROVE Min({ Batch, n }) # 0
<1>1. Batch \in Nat \ {0}  BY CorpusAssumption
<1>2. \E x \in { Batch, n } : \A y \in { Batch, n } : x <= y
  <2>1. CASE Batch <= n  BY <1>1, <2>1
  <2>2. CASE n <= Batch  BY <1>1, <2>2
  <2> QED  BY <1>1, <2>1, <2>2
<1>3. Min({ Batch, n }) \in { Batch, n }  BY <1>2 DEF Min
<1> QED  BY <1>1, <1>3

(* The documents of a build are some of the finitely many there are.       *)
LEMMA DocumentsAreFinite ==
    ASSUME CorpusInv
    PROVE  /\ IsFiniteSet(build.documents) /\ Cardinality(build.documents) \in Nat
           /\ \A chunk \in SUBSET build.documents :
                 chunk # {} => Cardinality(build.documents \ chunk) < Cardinality(build.documents)
<1>1. build.documents \subseteq AllDocuments
  BY DocumentsApart DEF CorpusInv, CorpusType
<1>2. IsFiniteSet(build.documents) /\ Cardinality(build.documents) \in Nat
  BY <1>1, DocumentsAssumption, FS_Subset, FS_CardinalityType
<1>3. ASSUME NEW chunk \in SUBSET build.documents, chunk # {}
      PROVE  Cardinality(build.documents \ chunk) < Cardinality(build.documents)
  <2> DEFINE rest == build.documents \ chunk
  <2>1. rest \in SUBSET build.documents /\ rest # build.documents  BY <1>3
  <2> HIDE DEF rest
  <2>2. IsFiniteSet(rest) /\ Cardinality(rest) \in Nat  BY <1>2, <2>1, FS_Subset, FS_CardinalityType
  <2>3. Cardinality(rest) <= Cardinality(build.documents)  BY <1>2, <2>1, FS_Subset
  <2>4. Cardinality(rest) # Cardinality(build.documents)  BY <1>2, <2>1, FS_Subset
  <2>5. Cardinality(rest) < Cardinality(build.documents)  BY <1>2, <2>2, <2>3, <2>4
  <2> QED  BY <2>5 DEF rest
<1> QED  BY <1>2, <1>3

(* Each step of build_corpus takes a clone or a batch off its loop, or      *)
(* goes on to a later point.                                               *)
LEMMA CorpusAdvances ==
    ASSUME CorpusInv, step = "corpus", BuildStep, step' = step
    PROVE  Advances
<1> USE DEF Advances, Point, Loop, CorpusPoint, At, Goto
<1>1. build \in [ at : Points, force : BOOLEAN, todo : Seq(Repositories),
                  cloned : SUBSET Repositories, held : SUBSET RepoDocs,
                  documents : SUBSET RepoDocs ]
  BY DEF CorpusInv, CorpusType
<1>2. CASE Clone
  <2>1. build.at = "clone" /\ build.todo # << >> /\ build'.at = "clone" /\ build'.todo = Tail(build.todo)
    BY <1>1, <1>2 DEF Clone
  <2>2. Len(Tail(build.todo)) < Len(build.todo)  BY <1>1, <2>1
  <2> QED  BY <2>1, <2>2
<1>3. CASE Clear
  <2>1. build.at = "clone" /\ build'.at = "spec"  BY <1>1, <1>3 DEF Clear
  <2> QED  BY <2>1
<1>4. CASE IngestSpec
  <2>1. build.at = "spec" /\ build'.at = "summaries"  BY <1>1, <1>4 DEF IngestSpec
  <2> QED  BY <2>1
<1>5. CASE Summaries
  <2>1. build.at = "summaries" /\ build'.at \in { "documents", "save" }  BY <1>1, <1>5 DEF Summaries
  <2> QED  BY <2>1
<1>6. CASE EmptyCache
  <2>1. build.at = "save" /\ build'.at = "saving"  BY <1>1, <1>6 DEF EmptyCache
  <2> QED  BY <2>1
<1>7. CASE WriteCache
  <2>1. build.at = "saving" /\ build'.at = "documents"  BY <1>1, <1>7 DEF WriteCache
  <2> QED  BY <2>1
<1>8. CASE NoDocuments
  <2>1. build.at = "documents" /\ build'.at = "unavailable"  BY <1>1, <1>8 DEF NoDocuments
  <2> QED  BY <2>1
<1>9. CASE Add
  <2>1. PICK chunk \in SUBSET build.documents :
          /\ Cardinality(chunk) = Min({ Batch, Cardinality(build.documents) })
          /\ build' = [ build EXCEPT !.documents = @ \ chunk,
                          !.at = IF chunk = build.documents THEN "returned" ELSE "documents" ]
    BY <1>9 DEF Add
  <2>2. build.at = "documents" /\ build.documents # {}  BY <1>9 DEF Add
  <2>3. build'.documents = build.documents \ chunk /\ build'.at \in { "returned", "documents" }
    BY <1>1, <2>1
  <2>4. Cardinality(build.documents) # 0  BY <2>2, DocumentsAreFinite, FS_EmptySet
  <2>5. chunk # {}  BY <2>1, <2>4, DocumentsAreFinite, BatchIsSome, FS_EmptySet
  <2>6. Cardinality(build'.documents) < Cardinality(build.documents)
    BY <2>3, <2>5, DocumentsAreFinite
  <2>7. CASE build'.at = "returned"  BY <2>2, <2>7
  <2>8. CASE build'.at = "documents"  BY <2>2, <2>6, <2>8
  <2> QED  BY <2>3, <2>7, <2>8
<1> QED  BY <1>2, <1>3, <1>4, <1>5, <1>6, <1>7, <1>8, <1>9 DEF BuildStep

(* Each step of the runner takes a test off its loop, or goes on to a later *)
(* point; it looks for the tests again only after it has got them.         *)
LEMMA RunnerAdvances ==
    ASSUME RunnerInv, step = "tests", RunnerStep, step' = step
    PROVE  Advances
<1> USE DEF Advances, Point, Loop, RunnerPoint
<1>1. runner \in [ at : { "idle", "find", "test", "exit", "written" },
                   todo : Seq(ToSet(Tests)), passed : SUBSET ToSet(Tests) ]
  BY DEF RunnerInv
<1>2. CASE Find
  <2>1. /\ runner.at = "find" /\ Probe \in elves /\ elves' = elves
        /\ runner'.at \in { "exit", "test" }
    BY <1>1, <1>2 DEF Find, runnerFiles
  <2> QED  BY <2>1
<1>3. CASE FetchTests
  <2>1. /\ runner.at = "find" /\ Probe \notin elves
        /\ runner'.at = IF Probe \in elves' THEN "find" ELSE "exit"
    BY <1>1, <1>3 DEF FetchTests
  <2> QED  BY <2>1
<1>4. ASSUME Testing, NEW verdict, Finished(verdict) PROVE Advances
  <2>1. runner.at = "test" /\ runner.todo # << >>  BY <1>4 DEF Testing
  <2>2. runner'.at = "test" /\ runner'.todo = Tail(runner.todo)  BY <1>1, <1>4, <2>1 DEF Finished
  <2>3. Len(Tail(runner.todo)) < Len(runner.todo)  BY <1>1, <2>1
  <2> QED  BY <2>1, <2>2, <2>3
<1>5. CASE NotRun  BY <1>4, <1>5 DEF NotRun
<1>6. CASE Simulate  BY <1>4, <1>6 DEF Simulate
<1>7. CASE SimulationTimesOut  BY <1>4, <1>7 DEF SimulationTimesOut
<1>8. CASE ConversionRaises
  <2>1. runner.at = "test" /\ runner'.at = "exit"  BY <1>1, <1>8 DEF ConversionRaises, Testing
  <2> QED  BY <2>1
<1>9. CASE WriteResults
  <2>1. runner.at = "test" /\ runner'.at = "written"  BY <1>1, <1>9 DEF WriteResults
  <2> QED  BY <2>1
<1> QED  BY <1>2, <1>3, <1>5, <1>6, <1>7, <1>8, <1>9 DEF RunnerStep

(* The points are ordered as the steps are.                                *)
LEMMA PointsInOrder ==
    /\ CorpusPoint \in 18 .. 25 /\ KnowledgePoint \in 14 .. 17 /\ RunnerPoint \in 5 .. 9
    /\ Point \in 0 .. 25
BY DEF CorpusPoint, KnowledgePoint, RunnerPoint, Point

LEMMA LoopIsNat == CorpusInv /\ RunnerInv => Loop \in Nat
<1> SUFFICES ASSUME CorpusInv, RunnerInv PROVE Loop \in Nat  OBVIOUS
<1>1. Len(build.todo) \in Nat
  <2>1. build \in [ at : Points, force : BOOLEAN, todo : Seq(Repositories),
                    cloned : SUBSET Repositories, held : SUBSET RepoDocs,
                    documents : SUBSET RepoDocs ]
    BY DEF CorpusInv, CorpusType
  <2>2. build.todo \in Seq(Repositories)  BY <2>1
  <2> QED  BY <2>2
<1>2. Len(runner.todo) \in Nat  BY DEF RunnerInv
<1> QED  BY <1>1, <1>2, DocumentsAreFinite DEF Loop

(* Each step of a run brings it nearer to its end.                         *)
LEMMA StepAdvances == ASSUME CorpusInv, RunnerInv, RunStep PROVE Advances
<1>1. CASE StepBuildCorpus
  <2>1. step = "corpus"  BY <1>1 DEF StepBuildCorpus
  <2>2. CASE step' = "knowledge"
    <3>1. CorpusPoint \in 18 .. 25 /\ KnowledgePoint' \in 14 .. 17  BY DEF CorpusPoint, KnowledgePoint
    <3> QED  BY <2>1, <2>2, <3>1 DEF Advances, Point
  <2>3. ASSUME NEW force, BuildCorpus(force), step' = step PROVE Advances
    <3>1. build.at = "idle" /\ build'.at \in { "returned", "clone" }
      BY <2>3 DEF BuildCorpus, Idle, At
    <3> QED  BY <2>1, <2>3, <3>1 DEF Advances, Point, CorpusPoint, At
  <2>4. CASE BuildStep /\ step' = step  BY <2>1, <2>4, CorpusAdvances
  <2> QED  BY <1>1, <2>2, <2>3, <2>4 DEF StepBuildCorpus, Goes
<1>2. CASE StepBuildKnowledge
  <2>1. step = "knowledge"  BY <1>2 DEF StepBuildKnowledge
  <2>2. CASE step' = "generate"
    <3>1. KnowledgePoint \in 14 .. 17  BY PointsInOrder
    <3> QED  BY <2>1, <2>2, <3>1 DEF Advances, Point
  <2>3. ASSUME NEW force, BuildKnowledge(force), step' = step PROVE Advances
    <3>1. call.at = "idle" /\ call'.at \in { "returned", "clear" }
      BY <2>3 DEF BuildKnowledge
    <3> QED  BY <2>1, <2>3, <3>1 DEF Advances, Point, KnowledgePoint
  <2>4. CASE ClearKnowledge /\ step' = step
    <3>1. call.at = "clear" /\ call'.at = "add"  BY <2>4 DEF ClearKnowledge
    <3> QED  BY <2>1, <2>4, <3>1 DEF Advances, Point, KnowledgePoint
  <2>5. CASE AddKnowledge /\ step' = step
    <3>1. call.at = "add" /\ call'.at = "returned"  BY <2>5 DEF AddKnowledge
    <3> QED  BY <2>1, <2>5, <3>1 DEF Advances, Point, KnowledgePoint
  <2> QED  BY <1>2, <2>2, <2>3, <2>4, <2>5 DEF StepBuildKnowledge, Goes
<1>3. CASE StepGenerate \/ Sync \/ Compile
  <2>1. \/ step = "generate" /\ step' \in { "tests", "sync" }
        \/ step = "sync" /\ step' = "verilate"
        \/ step = "verilate" /\ step' \in { "start", "tests" }
    BY <1>3 DEF StepGenerate, Sync, Compile, Goes, AfterCompile
  <2>2. RunnerPoint' \in 5 .. 9  BY DEF RunnerPoint
  <2> QED  BY <2>1, <2>2 DEF Advances, Point
<1>4. CASE StepRunTests
  <2>1. step = "tests" /\ RunnerPoint \in 5 .. 9  BY <1>4, PointsInOrder DEF StepRunTests
  <2>2. CASE step' \in { "summary", "copy" }  BY <2>1, <2>2 DEF Advances, Point
  <2>3. CASE StartRunner /\ step' = step
    <3>1. runner.at = "idle" /\ runner'.at = "find"  BY <2>3 DEF StartRunner, NotRunning
    <3> QED  BY <2>1, <2>3, <3>1 DEF Advances, Point, RunnerPoint
  <2>4. CASE RunnerStep /\ step' = step  BY <2>1, <2>4, RunnerAdvances
  <2> QED  BY <1>4, <2>2, <2>3, <2>4 DEF StepRunTests, Goes
<1>5. CASE CopyResults \/ StepWriteSummary
  <2>1. \/ step = "copy" /\ step' \in { "start", "summary" }
        \/ step = "summary" /\ step' = "start"
    BY <1>5 DEF CopyResults, StepWriteSummary, Goes
  <2> QED  BY <2>1 DEF Advances, Point
<1> QED  BY <1>1, <1>2, <1>3, <1>4, <1>5 DEF RunStep

(* A run ends, whatever fails in it: no step of it goes back to an earlier  *)
(* point, and its three loops, over the repositories, the batches and the   *)
(* tests, have less to do after each step.                                  *)
THEOREM RunsAdvance == Spec => [](Point \in Nat /\ Loop \in Nat) /\ [][RunStep => Advances]_vars
<1>1. PipelineInv => Point \in Nat /\ Loop \in Nat
  BY PointsInOrder, LoopIsNat DEF PipelineInv
<1>2. PipelineInv /\ RunStep => Advances  BY StepAdvances DEF PipelineInv
<1> QED  BY <1>1, <1>2, PipelineInvHolds, PTL

(* The conditions under which a step of a run can be taken, at each of its *)
(* points. The others have none but to be there.                           *)
CorpusGoesOn ==
    \/ At("idle") \/ At("spec") \/ At("summaries") \/ At("save") \/ At("saving")
    \/ At("clone") /\ (build.todo = << >> \/ Head(build.todo) \in DOMAIN clone)
    \/ At("documents") /\ build.documents = {}
    \/ At("documents") /\ \E chunk \in SUBSET build.documents :
                             Cardinality(chunk) = Min({ Batch, Cardinality(build.documents) })
    \/ build.at \in { "returned", "unavailable" }
RunnerGoesOn ==
    \/ Flag("skip_tests") \/ runner.at \in { "idle", "find" } \/ RunnerDone
    \/ runner.at = "test" /\ (runner.todo = << >> \/ Head(runner.todo) \in ToSet(Tests))
HasStep ==
    \/ step = "corpus" /\ CorpusGoesOn
    \/ step = "knowledge" /\ call.at \in { "idle", "clear", "add", "returned" }
    \/ step = "tests" /\ RunnerGoesOn
    \/ step \in { "generate", "sync", "verilate", "copy", "summary" }

(* A finite set has a subset of every smaller size.                        *)
LEMMA SubsetOfSize ==
    ASSUME NEW S, IsFiniteSet(S), NEW k \in 0 .. Cardinality(S)
    PROVE  \E T \in SUBSET S : Cardinality(T) = k
<1>1. Cardinality(S) \in Nat /\ ExistsBijection(1 .. Cardinality(S), S)  BY FS_CardinalityType
<1>2. PICK f \in Bijection(1 .. Cardinality(S), S) : TRUE  BY <1>1 DEF ExistsBijection
<1>3. /\ f \in [ 1 .. Cardinality(S) -> S ]
      /\ \A i, j \in 1 .. Cardinality(S) : f[i] = f[j] => i = j
  BY <1>2 DEF Bijection, Injection, IsInjective
<1> DEFINE T == { f[i] : i \in 1 .. k }
           g == [ i \in 1 .. k |-> f[i] ]
<1>4. k \in Nat /\ 1 .. k \subseteq 1 .. Cardinality(S)  BY <1>1
<1>5. T \in SUBSET S  BY <1>3, <1>4
<1>6. g \in Bijection(1 .. k, T)
  <2>1. g \in [ 1 .. k -> T ]  OBVIOUS
  <2>2. \A i, j \in 1 .. k : g[i] = g[j] => i = j  BY <1>3, <1>4
  <2>3. \A t \in T : \E i \in 1 .. k : g[i] = t  OBVIOUS
  <2> QED  BY <2>1, <2>2, <2>3 DEF Bijection, Injection, IsInjective, Surjection
<1>7. Cardinality(T) = k
  <2>1. ExistsBijection(1 .. k, T)  BY <1>6 DEF ExistsBijection
  <2> HIDE DEF T, g
  <2> QED  BY <1>4, <2>1, FS_CountingElements
<1> QED  BY <1>5, <1>7

(* There is a next batch as long as there are documents.                   *)
LEMMA BatchExists ==
    ASSUME CorpusInv
    PROVE  \E chunk \in SUBSET build.documents :
              Cardinality(chunk) = Min({ Batch, Cardinality(build.documents) })
<1> DEFINE n == Cardinality(build.documents)
<1>1. n \in Nat /\ IsFiniteSet(build.documents)  BY DocumentsAreFinite
<1>2. Batch \in Nat \ {0}  BY CorpusAssumption
<1> HIDE DEF n
<1>3. \E x \in { Batch, n } : \A y \in { Batch, n } : x <= y
  <2>1. CASE Batch <= n  BY <1>1, <1>2, <2>1
  <2>2. CASE n <= Batch  BY <1>1, <1>2, <2>2
  <2> QED  BY <1>1, <1>2, <2>1, <2>2
<1>4. Min({ Batch, n }) \in { Batch, n } /\ \A y \in { Batch, n } : Min({ Batch, n }) <= y
  BY <1>3 DEF Min
<1>5. Min({ Batch, n }) \in 0 .. n  BY <1>1, <1>2, <1>4
<1> QED  BY <1>1, <1>5, SubsetOfSize DEF n

LEMMA CorpusGoes == CorpusInv => CorpusGoesOn
<1> SUFFICES ASSUME CorpusInv PROVE CorpusGoesOn  OBVIOUS
<1>1. build.at \in Points /\ build.todo \in Seq(Repositories) /\ DOMAIN clone = Repositories
  BY DEF CorpusInv, CorpusType
<1>2. build.todo = << >> \/ Head(build.todo) \in DOMAIN clone  BY <1>1
<1> QED  BY <1>1, <1>2, BatchExists DEF CorpusGoesOn, At, Points

LEMMA RunnerGoes == RunnerInv => RunnerGoesOn
<1> SUFFICES ASSUME RunnerInv PROVE RunnerGoesOn  OBVIOUS
<1>1. /\ runner.at \in { "idle", "find", "test", "exit", "written" }
      /\ runner.todo \in Seq(ToSet(Tests))
  BY DEF RunnerInv
<1>2. runner.todo = << >> \/ Head(runner.todo) \in ToSet(Tests)  BY <1>1
<1> QED  BY <1>1, <1>2 DEF RunnerGoesOn, RunnerDone

(* The values of step, and that it has no other.                           *)
Steps == { "start", "corpus", "knowledge", "generate", "sync", "verilate", "tests", "copy", "summary" }
LEMMA StepsAreNamed == Spec => [](step \in Steps)
<1>1. Init => step \in Steps  BY DEF Init, Steps
<1>2. step \in Steps /\ [Next]_vars => (step \in Steps)'
  BY DEF Steps, Next, RunStep, Start, NewVersion, Die, StepBuildCorpus, StepBuildKnowledge, StepGenerate,
         Sync, Compile, AfterCompile, StepRunTests, CopyResults, StepWriteSummary, Goes, vars, runVars
<1> QED  BY <1>1, <1>2, PTL DEF Spec

(* A run never gets stuck before its end, whatever has failed in it: there *)
(* is always a step to take, and in the loop of the batches a next batch.  *)
THEOREM RunsHaveAStep == Spec => [](step # "start" => HasStep)
<1>1. PipelineInv /\ step \in Steps => (step # "start" => HasStep)
  <2> SUFFICES ASSUME PipelineInv, step \in Steps, step # "start" PROVE HasStep  OBVIOUS
  <2>1. CorpusGoesOn /\ RunnerGoesOn  BY CorpusGoes, RunnerGoes DEF PipelineInv
  <2>2. call.at \in { "idle", "clear", "add", "returned" }  BY DEF PipelineInv, KnowledgeInv
  <2> QED  BY <2>1, <2>2 DEF HasStep, Steps
<1> QED  BY <1>1, PipelineInvHolds, StepsAreNamed, PTL
=============================================================================
