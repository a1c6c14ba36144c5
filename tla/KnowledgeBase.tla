--------------------------- MODULE KnowledgeBase ---------------------------
(***************************************************************************)
(* build_knowledge_base of rag/knowledge.py: the entries of the program    *)
(* and the collection knowledge_corpus that is made of them. The           *)
(* collection stays on disk while the program is replaced by versions with *)
(* other entries.                                                          *)
(***************************************************************************)
EXTENDS Integers, FiniteSets, Collection

CONSTANT Entries    \* Entries[version]: the text of each entry's id

ASSUME EntriesAssumption ==
    1 \in DOMAIN Entries /\ \A v \in DOMAIN Entries : IsFiniteSet(DOMAIN Entries[v])

VARIABLES
    version,        \* the program that is installed
    knowledge,      \* knowledge_corpus: the text of each id
    call,           \* the call of build_knowledge_base
    installed       \* history: the versions that have been installed

knowledgeVars == << version, knowledge, call, installed >>

NoCall == [ at |-> "idle", force |-> FALSE ]
NoEntries == [ id \in {} |-> "" ]

KnowledgeInit ==
    /\ version = 1 /\ installed = {1}
    /\ knowledge = NoEntries /\ call = NoCall

\* Another version of the program is installed between two runs.
Upgrade ==
    /\ call.at = "idle"
    /\ version' \in DOMAIN Entries \ installed
    /\ installed' = installed \cup {version'}
    /\ UNCHANGED << knowledge, call >>

\* Mutant: any document in the collection is enough.
BuildKnowledgeAny(force) ==
    /\ call.at = "idle"
    /\ call' = [ force |-> force,
                 at |-> IF ~force /\ DOMAIN knowledge # {} THEN "returned" ELSE "clear" ]
    /\ UNCHANGED << version, knowledge, installed >>

\* As many documents as the program has entries are taken for its entries.
BuildKnowledge(force) ==
    /\ call.at = "idle"
    /\ call' = [ force |-> force,
                 at |-> IF ~force /\ Cardinality(DOMAIN knowledge) >= Cardinality(DOMAIN Entries[version])
                        THEN "returned" ELSE "clear" ]
    /\ UNCHANGED << version, knowledge, installed >>

ClearKnowledge ==
    /\ call.at = "clear"
    /\ knowledge' = IF call.force THEN NoEntries ELSE knowledge
    /\ call' = [ call EXCEPT !.at = "add" ]
    /\ UNCHANGED << version, installed >>

AddKnowledge ==
    /\ call.at = "add"
    /\ knowledge' = With(knowledge, Entries[version])
    /\ call' = [ call EXCEPT !.at = "returned" ]
    /\ UNCHANGED << version, installed >>

EndKnowledge ==
    /\ call.at = "returned"
    /\ call' = NoCall
    /\ UNCHANGED << version, knowledge, installed >>

KnowledgeDies == call' = NoCall /\ UNCHANGED << version, knowledge, installed >>

---------------------------------------------------------------------------

(* After a build every entry of the program is in the collection, with its *)
(* present text, whatever ended half way before: for a forced build always,*)
(* for another one as long as versions only ever add entries.              *)
Extends(v, w) == \A id \in DOMAIN Entries[w] : id \in DOMAIN Entries[v] /\ Entries[v][id] = Entries[w][id]
KnowledgeIsCurrent ==
    call.at = "returned" /\ (call.force \/ \A w \in installed : Extends(version, w)) =>
        \A id \in DOMAIN Entries[version] :
            id \in DOMAIN knowledge /\ knowledge[id] = Entries[version][id]

=============================================================================
