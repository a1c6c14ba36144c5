---------------------------- MODULE CorpusStore ----------------------------
(***************************************************************************)
(* build_corpus of rag/corpus.py: the clones of the reference designs, the *)
(* collection rtl_corpus made of them, and the file of summaries. They are *)
(* all on disk and outlive the process, which may end anywhere: killed, or *)
(* by an exception of git, a model or the store that nobody catches.       *)
(***************************************************************************)
EXTENDS Integers, SequencesExt, Collection

CONSTANTS
    Repos,          \* the keys of REPOS, in their order
    Whitelist,      \* the documents made of the listed files of each
    SpecDocs,       \* RISCV_ISA_SPEC_CHUNKS
    Batch           \* documents added in one call: BATCH, 100 in the code

ASSUME CorpusAssumption ==
    /\ Batch \in Nat \ {0} /\ SpecDocs # {}
    /\ Repos \in Seq(ToSet(Repos))
    /\ \A r \in ToSet(Repos) : SpecDocs \cap Whitelist[r] = {}
    /\ \A r, s \in ToSet(Repos) : r # s => Whitelist[r] \cap Whitelist[s] = {}

VARIABLES
    clone,          \* RTL_SOURCES / repo: "none", "cut short" or "whole"
    rtl,            \* rtl_corpus: whether each document carries its summary
    cache,          \* the documents with an answer in CHUNK_SUMMARIES_CACHE
    build,          \* the call of build_corpus
    mishap, kept    \* history: something failed; the answers saved so far

disk == << clone, rtl, cache >>
corpusVars == << disk, build, mishap, kept >>

Idle == [ at |-> "idle", force |-> FALSE, todo |-> << >>, cloned |-> {},
          held |-> {}, documents |-> {} ]
At(point) == build.at = point
Goto(point) == build' = [ build EXCEPT !.at = point ]

NoDocument == [ d \in {} |-> "bare" ]
Text(d, answers) == IF d \in answers THEN "summarised" ELSE "bare"
FromRepos(S) == UNION { Whitelist[r] : r \in S }
ClonesThatAre(state) == { r \in ToSet(Repos) : clone[r] = state }
AllDocuments == SpecDocs \cup FromRepos(ToSet(Repos))

ASSUME DocumentsAssumption == IsFiniteSet(AllDocuments)

CorpusInit ==
    /\ clone = [ r \in ToSet(Repos) |-> "none" ] /\ rtl = NoDocument /\ cache = {}
    /\ build = Idle
    /\ mishap = FALSE /\ kept = {}

\* "already has %d documents, skipping rebuild".
BuildCorpus(force) ==
    /\ At("idle")
    /\ build' = [ Idle EXCEPT !.force = force, !.todo = Repos,
                    !.at = IF ~force /\ DOMAIN rtl # {} THEN "returned" ELSE "clone" ]
    /\ UNCHANGED << disk, mishap, kept >>

\* The next repository: any directory with a .git counts as cloned. A git that
\* fails removes its directory, one that the timeout kills leaves it.
Clone ==
    /\ At("clone") /\ build.todo # << >>
    /\ \E r \in { Head(build.todo) } :
         \/ /\ build' = [ build EXCEPT !.todo = Tail(@), !.cloned = @ \cup {r} ]
            /\ clone' = [ clone EXCEPT ![r] = IF @ = "none" THEN "whole" ELSE @ ]
            /\ UNCHANGED mishap
         \/ /\ clone[r] = "none"
            /\ build' = [ build EXCEPT !.todo = Tail(@) ]
            /\ \E left \in {"none", "cut short"} : clone' = [ clone EXCEPT ![r] = left ]
            /\ mishap' = TRUE
    /\ UNCHANGED << rtl, cache, kept >>

\* Mutant: a rebuild adds to what is there.
ClearNothing ==
    /\ At("clone") /\ build.todo = << >>
    /\ Goto("spec")
    /\ UNCHANGED << disk, mishap, kept >>

\* With the models loaded, a forced rebuild deletes what the collection has.
Clear ==
    /\ At("clone") /\ build.todo = << >>
    /\ rtl' = IF build.force THEN NoDocument ELSE rtl
    /\ Goto("spec")
    /\ UNCHANGED << clone, cache, mishap, kept >>

IngestSpec ==
    /\ At("spec")
    /\ rtl' = With(rtl, [ d \in SpecDocs |-> "bare" ])
    /\ Goto("summaries")
    /\ UNCHANGED << clone, cache, mishap, kept >>

\* The documents found: those of the whole clones, and of one that was cut short
\* what it had checked out. A file that is missing is left out.
Found ==
    { FromRepos(build.cloned \cap ClonesThatAre("whole")) \cup some :
        some \in SUBSET FromRepos(build.cloned \cap ClonesThatAre("cut short")) }

\* Mutant: the answers of earlier builds are not loaded.
SummariesAnew ==
    /\ At("summaries")
    /\ \E documents \in Found : \E answered \in SUBSET documents :
             build' = [ build EXCEPT !.held = answered, !.documents = documents,
                          !.at = IF answered = {} THEN "documents" ELSE "save" ]
    /\ UNCHANGED << disk, mishap, kept >>

\* The files of the clones, each with its answer from the cache or, if the
\* model gives one, a new one. The cache is saved if any document has one.
Summaries ==
    /\ At("summaries")
    /\ \E documents \in Found : \E answered \in SUBSET (documents \ cache) :
             build' = [ build EXCEPT !.held = cache \cup answered, !.documents = documents,
                          !.at = IF documents \cap (cache \cup answered) = {}
                                 THEN "documents" ELSE "save" ]
    /\ UNCHANGED << disk, mishap, kept >>

\* write_text: the file is emptied, then written. One that is cut short is no
\* JSON and loads as no answers at all.
EmptyCache ==
    /\ At("save")
    /\ cache' = {} /\ Goto("saving")
    /\ UNCHANGED << clone, rtl, mishap, kept >>

WriteCache ==
    /\ At("saving")
    /\ cache' = build.held /\ kept' = kept \cup build.held
    /\ Goto("documents")
    /\ UNCHANGED << clone, rtl, mishap >>

\* CorpusUnavailableError; the tables of the manual have been added by then.
NoDocuments ==
    /\ At("documents") /\ build.documents = {}
    /\ Goto("unavailable")
    /\ UNCHANGED << disk, mishap, kept >>

\* Mutant: only whole batches are added.
AddWholeBatches ==
    /\ At("documents") /\ build.documents # {}
    /\ \E chunk \in SUBSET build.documents :
         /\ Cardinality(chunk) = Batch
         /\ rtl' = With(rtl, [ d \in chunk |-> Text(d, build.held) ])
         /\ build' = [ build EXCEPT !.documents = @ \ chunk,
                         !.at = IF Cardinality(build.documents) < 2 * Batch THEN "returned" ELSE "documents" ]
    /\ UNCHANGED << clone, cache, mishap, kept >>

\* The documents in batches; the last may be shorter.
Add ==
    /\ At("documents") /\ build.documents # {}
    /\ \E chunk \in SUBSET build.documents :
         /\ Cardinality(chunk) = Min({ Batch, Cardinality(build.documents) })
         /\ rtl' = With(rtl, [ d \in chunk |-> Text(d, build.held) ])
         /\ build' = [ build EXCEPT !.documents = @ \ chunk,
                         !.at = IF chunk = build.documents THEN "returned" ELSE "documents" ]
    /\ mishap' = (mishap /\ ~(DOMAIN rtl' = AllDocuments /\ ClonesThatAre("cut short") = {}))
    /\ UNCHANGED << clone, cache, kept >>

BuildStep == Clone \/ Clear \/ IngestSpec \/ Summaries \/ EmptyCache \/ WriteCache
             \/ NoDocuments \/ Add

\* The caller goes on, with or without a corpus.
EndBuild ==
    /\ build.at \in {"returned", "unavailable"}
    /\ build' = Idle
    /\ UNCHANGED << disk, mishap, kept >>

\* The process ends; so does a git it has started, whose directory stays.
BuildDies ==
    /\ IF At("idle") THEN UNCHANGED << clone, mishap, kept >>
       ELSE /\ mishap' = TRUE
            /\ kept' = IF At("saving") THEN {} ELSE kept
            /\ IF At("clone") /\ build.todo # << >> /\ clone[Head(build.todo)] = "none"
               THEN \E left \in {"none", "cut short"} :
                      clone' = [ clone EXCEPT ![Head(build.todo)] = left ]
               ELSE UNCHANGED clone
    /\ build' = Idle
    /\ UNCHANGED << rtl, cache >>

---------------------------------------------------------------------------

(* A forced rebuild leaves in the collection the manual's tables and every *)
(* document of every whole clone, each with the summary the cache has for  *)
(* it, and nothing else but what clones that were cut short still have,    *)
(* whatever deaths, failed clones and partial builds came before it.       *)
RebuildHeals ==
    At("returned") /\ build.force =>
        /\ SpecDocs \cup FromRepos(ClonesThatAre("whole")) \subseteq DOMAIN rtl
        /\ DOMAIN rtl \cap FromRepos(ClonesThatAre("none")) = {}
        /\ rtl = [ d \in DOMAIN rtl |-> Text(d, cache) ]

(* A build that reports success over less than the whole corpus is always  *)
(* the late effect of something that failed: a clone, or a process that    *)
(* ended within a build. Without that, neither a skipped nor a repeated    *)
(* build loses a document, and a complete build over clones none of which  *)
(* was cut short ends the effect.                                          *)
LossHasACause == At("returned") /\ ~mishap => DOMAIN rtl = AllDocuments

(* An answer the language model was paid for and that has been saved is    *)
(* never lost or asked for again, unless the process ends while the file   *)
(* is being written.                                                       *)
AnswersKept == ~At("saving") => kept \subseteq cache

=============================================================================
