----------------------------- MODULE Generator -----------------------------
(***************************************************************************)
(* The generation of the RTL: step_generate of scripts/run_pipeline.py and *)
(* the loop of rag/generator.py that generates one module, lints it, has   *)
(* the language model fix it and records its ports. The files and the      *)
(* ports files (_meta.json) stay on disk from one run to the next; a run   *)
(* may be restricted to some modules and may be killed anywhere.           *)
(*                                                                         *)
(* A Verilog text is reduced to the ports it declares and to what Verilator  *)
(* or the rules of rag/validator.py find wrong with it. What the           *)
(* language model answers is arbitrary, and so is whether it answers.      *)
(***************************************************************************)
EXTENDS Naturals, Sequences

CONSTANTS
    Order,          \* MODULE_ORDER
    Top,            \* the integration module, top
    Ports,          \* the port lists a text may declare
    MaxIterations,  \* --max-iterations
    DockerUp,       \* the container with Verilator answers
    MaxRuns,        \* bound: how often the pipeline is started
    NoText, NoPorts

Modules == { Order[i] : i \in DOMAIN Order }

ASSUME GeneratorAssumption ==
    /\ Order \in Seq(Modules)
    /\ MaxIterations \in Nat \ {0} /\ DockerUp \in BOOLEAN /\ MaxRuns \in Nat
    /\ NoPorts \notin Ports /\ Top \in Modules
    /\ NoText \notin [ ports : Ports, flaw : {"none", "lint", "rule"} ]

\* What is wrong with a text: nothing, something Verilator reports, or a rule of
\* rag/validator.py that it breaks.
Texts   == [ ports : Ports, flaw : {"none", "lint", "rule"} ]
Rank(m) == CHOOSE i \in DOMAIN Order : Order[i] = m

VARIABLES
    file,       \* rtl/generated/<m>.v
    meta,       \* rtl/generated/<m>_meta.json
    runs,       \* pipeline runs started
    todo,       \* the modules this run still has to generate
    current,    \* the module in the lint-fix loop
    phase,      \* where the process is; "idle" when there is none
    attempt,    \* the lint attempt
    accepted,   \* accepted_files
    failed,     \* failed_modules
    checked     \* history: the text of m last linted in this run

disk    == << file, meta >>
results == << accepted, failed >>
vars    == << disk, runs, todo, current, phase, attempt, results, checked >>

TypeOK ==
    /\ file \in [ Modules -> Texts \cup {NoText} ]
    /\ meta \in [ Modules -> Ports \cup {NoPorts} ]
    /\ runs \in 0 .. MaxRuns
    /\ todo \subseteq Modules /\ current \in Modules
    /\ phase \in {"idle", "next", "lint", "fix", "extract"}
    /\ attempt \in 1 .. MaxIterations
    /\ accepted \subseteq Modules /\ failed \subseteq Modules
    /\ checked \in [ Modules -> Texts \cup {NoText} ]

Init ==
    /\ file = [ m \in Modules |-> NoText ] /\ meta = [ m \in Modules |-> NoPorts ]
    /\ runs = 0 /\ todo = {} /\ current = Top /\ phase = "idle" /\ attempt = 1
    /\ accepted = {} /\ failed = {}
    /\ checked = [ m \in Modules |-> NoText ]

\* --modules: those named, which are then taken in the order of MODULE_ORDER.
StartRun ==
    /\ phase = "idle" /\ runs < MaxRuns
    /\ runs' = runs + 1
    /\ todo' \in SUBSET Modules
    /\ phase' = "next"
    /\ accepted' = {} /\ failed' = {}
    /\ checked' = [ m \in Modules |-> NoText ]
    /\ UNCHANGED << disk, current, attempt >>

\* The loop of step_generate turns to m.
Turn(m) ==
    /\ phase = "next"
    /\ m \in todo /\ \A n \in todo : Rank(m) <= Rank(n)
    /\ todo' = todo \ {m}

\* Header, retrieval and body; the body is written before it is looked at.
GenerateBody(m) ==
    /\ Turn(m) /\ m /= Top
    /\ current' = m
    /\ \E t \in Texts : file' = [ file EXCEPT ![m] = t ]
    /\ phase' = "lint" /\ attempt' = 1
    /\ UNCHANGED << meta, runs, results, checked >>

\* An exception before the text is written - no answer, or none with Verilog in
\* it. Whatever is on disk from an earlier run stays there and is not accepted.
BodyRaises(m) ==
    /\ Turn(m)
    /\ failed' = failed \cup {m}
    /\ UNCHANGED << disk, runs, current, phase, attempt, accepted, checked >>

\* lint_check: a text with nothing to report still fails when Verilator times out
\* or reports one of the other files; without the container docker's own error is
\* taken for a clean report.
LintErrors(t) == IF DockerUp /\ t.flaw = "lint" THEN {TRUE} ELSE BOOLEAN

\* validate: the rules are regular expressions over the text.
RuleErrors(t) == t.flaw = "rule"

HasErrors(t) == { lint \/ RuleErrors(t) : lint \in LintErrors(t) }

\* Mutant: a fix also follows the last attempt.
LintOneMore ==
    /\ phase = "lint"
    /\ checked' = [ checked EXCEPT ![current] = file[current] ]
    /\ \E errors \in HasErrors(file[current]) :
          \/ ~errors /\ phase' = "extract" /\ UNCHANGED results
          \/ errors /\ attempt <= MaxIterations /\ phase' = "fix" /\ UNCHANGED results
          \/ /\ errors /\ attempt > MaxIterations /\ phase' = "next"
             /\ failed' = failed \cup {current} /\ accepted' = accepted \cup {current}
    /\ UNCHANGED << disk, runs, todo, current, attempt >>

\* One attempt. After the last one LintFailureError is raised and the file is
\* still used, as a best effort.
Lint ==
    /\ phase = "lint"
    /\ checked' = [ checked EXCEPT ![current] = file[current] ]
    /\ \E errors \in HasErrors(file[current]) :
          \/ ~errors /\ phase' = "extract" /\ UNCHANGED results
          \/ errors /\ attempt < MaxIterations /\ phase' = "fix" /\ UNCHANGED results
          \/ /\ errors /\ attempt = MaxIterations /\ phase' = "next"
             /\ failed' = failed \cup {current} /\ accepted' = accepted \cup {current}
    /\ UNCHANGED << disk, runs, todo, current, attempt >>

\* Mutant: the fixed text is used without another attempt.
FixUnchecked ==
    /\ phase = "fix"
    /\ \E t \in Texts : file' = [ file EXCEPT ![current] = t ]
    /\ attempt' = attempt + 1 /\ phase' = "extract"
    /\ UNCHANGED << meta, runs, todo, current, results, checked >>

\* Mutant: a fix does not count as an attempt.
FixForever ==
    /\ phase = "fix"
    /\ \E t \in Texts : file' = [ file EXCEPT ![current] = t ]
    /\ phase' = "lint"
    /\ UNCHANGED << meta, runs, todo, current, attempt, results, checked >>

\* fix_with_feedback: any text the model answers replaces the file.
Fix ==
    /\ phase = "fix"
    /\ \E t \in Texts : file' = [ file EXCEPT ![current] = t ]
    /\ attempt' = attempt + 1 /\ phase' = "lint"
    /\ UNCHANGED << meta, runs, todo, current, results, checked >>

\* An exception in the loop - no docker to copy the file with, no answer from the
\* model: the text stays on disk, unaccepted.
AttemptRaises ==
    /\ phase \in {"lint", "fix"} /\ phase' = "next"
    /\ failed' = failed \cup {current}
    /\ UNCHANGED << disk, runs, todo, current, attempt, accepted, checked >>

\* Mutant: the ports of an earlier run are kept.
ExtractOnce ==
    /\ phase = "extract" /\ phase' = "next"
    /\ meta' = [ meta EXCEPT ![current] = IF @ = NoPorts THEN file[current].ports ELSE @ ]
    /\ accepted' = accepted \cup {current}
    /\ UNCHANGED << file, runs, todo, current, attempt, failed, checked >>

\* extract_ports on the text that passed.
ExtractPorts ==
    /\ phase = "extract" /\ phase' = "next"
    /\ meta' = [ meta EXCEPT ![current] = file[current].ports ]
    /\ accepted' = accepted \cup {current}
    /\ UNCHANGED << file, runs, todo, current, attempt, failed, checked >>

\* top.v is generated from whatever ports files there are, and not checked.
GenerateTop ==
    /\ Turn(Top)
    /\ \E t \in Texts : file' = [ file EXCEPT ![Top] = t ]
    /\ accepted' = accepted \cup {Top}
    /\ UNCHANGED << meta, runs, current, phase, attempt, failed, checked >>

EndRun ==
    /\ phase = "next" /\ todo = {}
    /\ phase' = "idle"
    /\ UNCHANGED << disk, runs, todo, current, attempt, results, checked >>

\* The process is killed. What is on disk stays, the rest is gone.
Kill ==
    /\ phase /= "idle"
    /\ phase' = "idle" /\ todo' = {} /\ accepted' = {} /\ failed' = {}
    /\ current' = Top /\ attempt' = 1
    /\ checked' = [ m \in Modules |-> NoText ]
    /\ UNCHANGED << disk, runs >>

Step ==
    \/ \E m \in Modules : GenerateBody(m) \/ BodyRaises(m)
    \/ Lint \/ Fix \/ AttemptRaises \/ ExtractPorts \/ GenerateTop \/ EndRun
Next == StartRun \/ Step \/ Kill

Spec == Init /\ [][Next]_vars /\ WF_vars(Step)

---------------------------------------------------------------------------

(* The file of an accepted module is the text that was linted last: no fix *)
(* replaces it after the attempt that decided, successful or not.          *)
AcceptedWereChecked == \A m \in accepted \ {Top} : file[m] = checked[m]

(* A module reported as generated and verified is clean, and its ports     *)
(* file lists the ports it has, whatever earlier runs left on disk.        *)
VerifiedAreClean ==
    \A m \in accepted \ (failed \cup {Top}) : file[m].flaw = "none" /\ meta[m] = file[m].ports

(* A run ends: the fix loop of no module goes on for ever.                 *)
RunsEnd == phase /= "idle" ~> phase = "idle"

(* README.md: the pipeline "verifies every file with Verilator lint".      *)
AcceptedAreClean == \A m \in accepted : file[m].flaw = "none"

(* failure_analysis_journey.md: the ports file comes before any body.      *)
ContractBeforeBody ==
    \A m \in Modules \ {Top} : file[m] /= NoText => meta[m] /= NoPorts

(* failure_analysis_journey.md: top.v is "constrained to instantiate other *)
(* modules based only on these validated JSON contracts": the ports files   *)
(* it is generated from are those of the files it is compiled with.        *)
TopContractsCurrent ==
    [][ GenerateTop => \A m \in accepted : meta[m] = file[m].ports ]_vars

---------------------------------------------------------------------------

(* The inductive invariant: a module is decided once per run, and the text *)
(* whose ports are extracted is the one the last attempt accepted.         *)
GInv ==
    /\ TypeOK
    /\ accepted \cap todo = {}
    /\ phase \in {"lint", "fix", "extract"} =>
          /\ current /= Top /\ current \notin accepted \cup todo
          /\ file[current] \in Texts
    /\ phase = "fix" => attempt < MaxIterations
    /\ phase = "extract" => /\ file[current] = checked[current]
                            /\ DockerUp => file[current].flaw = "none"
    /\ AcceptedWereChecked
    /\ DockerUp => VerifiedAreClean

=============================================================================
