---------------------------- MODULE RunPipeline ----------------------------
(***************************************************************************)
(* scripts/run_pipeline.py: the six steps of a run, which of them are      *)
(* skipped, and what each leaves for the next one and for later runs: the  *)
(* generated files on the host, their copies in the container, the         *)
(* simulator compiled from these, and the table of results on both sides.  *)
(* The steps 1, 2 and 5 are CorpusStore, KnowledgeBase and TestRunner;     *)
(* step 3 is reduced to which files it leaves (Generator has the rest).    *)
(* A run may end at any point, killed or by an exception.                  *)
(***************************************************************************)
EXTENDS CorpusStore, KnowledgeBase, TestRunner

CONSTANTS
    Modules,            \* MODULE_ORDER
    Options,            \* the sets of flags a run may be started with
    MaxRuns             \* the number of runs

ASSUME PipelineAssumption ==
    /\ "top" \in Modules /\ MaxRuns \in Nat
    /\ Options \subseteq SUBSET { "skip_corpus", "skip_knowledge", "skip_generation",
                                  "skip_sim", "skip_tests", "force_rebuild", "finalize" }

VARIABLES
    step, args,         \* the step of the run, and its flags
    runs,               \* the runs so far; the texts of a run have its number
    host, container,    \* the text of each module on either side; 0 is no file
    accepted,           \* generated_files
    compile_ok,
    hostTable,          \* RESULTS / isa_results.md on the host
    summary,            \* summary.md: compile_ok of which run
    did, uncopied       \* history of the run: what it got done, files not copied

hostFiles == << host, hostTable, summary >>
runVars == << step, args, runs, hostFiles, container, accepted, compile_ok, did, uncopied >>
vars == << corpusVars, knowledgeVars, runnerVars, runVars >>

otherSteps == << corpusVars, knowledgeVars >>
Goes(point) == step' = point
Flag(f) == f \in args

Init ==
    /\ CorpusInit /\ KnowledgeInit /\ RunnerInit
    /\ step = "start" /\ args = {} /\ runs = 0
    /\ host = [ m \in Modules |-> 0 ] /\ container = host
    /\ accepted = {} /\ compile_ok = FALSE
    /\ hostTable = Nothing /\ summary = Nothing
    /\ did = {} /\ uncopied = {}

\* main; or finalize.py, which compiles and tests what is there. A run without
\* an API key ends here unless it skips the generation.
Start ==
    /\ step = "start" /\ runs < MaxRuns
    /\ args' \in Options
    /\ runs' = runs + 1
    /\ accepted' = {} /\ compile_ok' = FALSE /\ did' = {} /\ uncopied' = {}
    /\ Goes("corpus")
    /\ UNCHANGED << otherSteps, runnerVars, hostFiles, container >>

NewVersion ==
    /\ step = "start" /\ Upgrade
    /\ UNCHANGED << corpusVars, runnerVars, runVars >>

StepBuildCorpus ==
    /\ step = "corpus"
    /\ \/ Flag("skip_corpus") /\ Goes("knowledge") /\ UNCHANGED corpusVars
       \/ ~Flag("skip_corpus") /\ BuildCorpus(Flag("force_rebuild")) /\ UNCHANGED step
       \/ BuildStep /\ UNCHANGED step
       \/ EndBuild /\ Goes("knowledge")
    /\ UNCHANGED << knowledgeVars, runnerVars, args, runs, hostFiles, container, accepted,
                    compile_ok, did, uncopied >>

StepBuildKnowledge ==
    /\ step = "knowledge"
    /\ \/ Flag("skip_knowledge") /\ Goes("generate") /\ UNCHANGED knowledgeVars
       \/ ~Flag("skip_knowledge") /\ BuildKnowledge(Flag("force_rebuild")) /\ UNCHANGED step
       \/ (ClearKnowledge \/ AddKnowledge) /\ UNCHANGED step
       \/ EndKnowledge /\ Goes("generate")
    /\ UNCHANGED << corpusVars, runnerVars, args, runs, hostFiles, container, accepted,
                    compile_ok, did, uncopied >>

\* The modules that are written, and those that count as generated: every one
\* whose file was linted, passed or not; a module that raises may have been
\* written before. top is not linted.
StepGenerate ==
    /\ step = "generate"
    /\ \/ /\ Flag("skip_generation")
          /\ accepted' = { m \in Modules : host[m] # 0 }
          /\ UNCHANGED host
       \/ /\ ~Flag("skip_generation")
          /\ \E written \in SUBSET Modules :
               /\ host' = [ m \in Modules |-> IF m \in written THEN runs ELSE host[m] ]
               /\ accepted' \in SUBSET written
               /\ "top" \in written => "top" \in accepted'
    /\ Goes(IF Flag("skip_sim") THEN "tests" ELSE "sync")
    /\ UNCHANGED << otherSteps, runnerVars, args, runs, hostTable, summary, container,
                    compile_ok, did, uncopied >>

\* Mutant: only new files are copied.
SyncMissing ==
    /\ step = "sync"
    /\ \E failed \in SUBSET accepted :
         /\ container' = [ m \in Modules |-> IF m \in accepted \ failed /\ container[m] = 0
                                            THEN host[m] ELSE container[m] ]
         /\ uncopied' = failed
    /\ Goes("verilate")
    /\ UNCHANGED << otherSteps, runnerVars, args, runs, hostFiles, accepted, compile_ok, did >>

\* docker cp of each generated file; nobody looks whether it succeeds.
Sync ==
    /\ step = "sync"
    /\ \E failed \in SUBSET accepted :
         /\ container' = [ m \in Modules |-> IF m \in accepted \ failed THEN host[m]
                                            ELSE container[m] ]
         /\ uncopied' = failed
    /\ Goes("verilate")
    /\ UNCHANGED << otherSteps, runnerVars, args, runs, hostFiles, accepted, compile_ok, did >>

\* Verilator and make on the container's top.v and its copies of the generated
\* files. A failure of either leaves the simulator of an earlier compilation.
Sources == accepted \cup {"top"}
AfterCompile(ok) ==
    IF Flag("finalize") /\ ~ok THEN "start" ELSE "tests"
Compile ==
    /\ step = "verilate"
    /\ \/ /\ \A m \in Sources : container[m] # 0
          /\ binary' = [ m \in Sources |-> container[m] ]
          /\ compile_ok' = TRUE /\ did' = did \cup {"compiled"}
       \/ UNCHANGED << binary, compile_ok, did >>
    /\ Goes(AfterCompile(compile_ok'))
    /\ UNCHANGED << otherSteps, runnerFiles, runner, args, runs, hostFiles, container,
                    accepted, uncopied >>

\* run_tests.py in the container, whether or not the compilation went well;
\* docker may fail to start it.
StepRunTests ==
    /\ step = "tests"
    /\ \/ Flag("skip_tests") /\ Goes("summary") /\ UNCHANGED << runnerVars, did >>
       \/ ~Flag("skip_tests") /\ StartRunner /\ UNCHANGED << step, did >>
       \/ ~Flag("skip_tests") /\ runner.at = "idle" /\ Goes("copy") /\ UNCHANGED << runnerVars, did >>
       \/ RunnerStep /\ UNCHANGED << step, did >>
       \/ /\ RunnerDone /\ RunnerEnds /\ Goes("copy")
          /\ did' = IF runner.at = "written" THEN did \cup {"tested"} ELSE did
    /\ UNCHANGED << otherSteps, args, runs, hostFiles, container, accepted, compile_ok, uncopied >>

\* docker cp of the table, of this run or of an earlier one.
CopyResults ==
    /\ step = "copy"
    /\ \/ table # Nothing /\ hostTable' = table /\ did' = did \cup {"copied"}
       \/ UNCHANGED << hostTable, did >>
    /\ Goes(IF Flag("finalize") THEN "start" ELSE "summary")
    /\ UNCHANGED << otherSteps, runnerVars, args, runs, host, summary, container, accepted,
                    compile_ok, uncopied >>

\* Mutant: a run whose core does not compile generates it again.
StepWriteSummaryRetry ==
    /\ step = "summary"
    /\ summary' = [ compile_ok |-> compile_ok, run |-> runs ]
    /\ Goes(IF compile_ok THEN "start" ELSE "generate")
    /\ UNCHANGED << otherSteps, runnerVars, args, runs, host, hostTable, container, accepted,
                    compile_ok, did, uncopied >>

StepWriteSummary ==
    /\ step = "summary"
    /\ summary' = [ compile_ok |-> compile_ok, run |-> runs ]
    /\ Goes("start")
    /\ UNCHANGED << otherSteps, runnerVars, args, runs, host, hostTable, container, accepted,
                    compile_ok, did, uncopied >>

RunStep == StepBuildCorpus \/ StepBuildKnowledge \/ StepGenerate \/ Sync \/ Compile
           \/ StepRunTests \/ CopyResults \/ StepWriteSummary

\* The generation may have written some of its files by then. That the runner in
\* the container ends with the driver is assumed: docker exec does not see to it.
Die ==
    /\ step # "start"
    /\ BuildDies /\ KnowledgeDies /\ RunnerEnds
    /\ IF step = "generate" /\ ~Flag("skip_generation")
       THEN \E written \in SUBSET Modules :
              host' = [ m \in Modules |-> IF m \in written THEN runs ELSE host[m] ]
       ELSE UNCHANGED host
    /\ Goes("start") /\ did' = {}
    /\ UNCHANGED << args, runs, hostTable, summary, container, accepted, compile_ok, uncopied >>

Next == Start \/ NewVersion \/ RunStep \/ Die

\* A run goes on until it ends; nothing starts the next one.
Spec == Init /\ [][Next]_vars /\ WF_vars(RunStep)

---------------------------------------------------------------------------

(* Neither table credits a test with a pass that its own binary has not    *)
(* shown on that very test's memory image.                                 *)
PassesAreEarned == Earned(table) /\ Earned(hostTable)

(* When a run has compiled, tested and copied, the table on the host is    *)
(* about this run's files: those the generation accepted, as far as they   *)
(* could be copied. A table about other files, which later runs find       *)
(* there, is left only by a run that could not do one of the three. So it  *)
(* is with a summary that says that the compilation went well.             *)
ReportsAreOfThisRun ==
    step = "start" =>
      /\ { "compiled", "tested", "copied" } \subseteq did =>
            \A m \in accepted \ uncopied : hostTable.build[m] = host[m]
      /\ summary # Nothing /\ summary.run = runs /\ summary.compile_ok =>
            \A m \in accepted \ uncopied : binary[m] = host[m]

(* A run ends, whatever fails in it.                                       *)
RunEnds == step # "start" ~> step = "start"

=============================================================================
