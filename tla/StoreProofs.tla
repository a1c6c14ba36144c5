---------------------------- MODULE StoreProofs ----------------------------
(***************************************************************************)
(* What every step of build_corpus and of build_knowledge_base, and their  *)
(* end at any point, preserve. PipelineProofs carries it over to the runs. *)
(***************************************************************************)
EXTENDS CorpusStore, KnowledgeBase, TLAPS, FiniteSetTheorems, SequenceTheorems

Repositories == ToSet(Repos)
RepoDocs == FromRepos(Repositories)
Points == { "idle", "clone", "spec", "summaries", "save", "saving", "documents",
            "returned", "unavailable" }
During(points) == build.at \in points

CorpusType ==
    /\ clone \in [ Repositories -> {"none", "cut short", "whole"} ]
    /\ rtl \in [ DOMAIN rtl -> {"bare", "summarised"} ] /\ DOMAIN rtl \subseteq AllDocuments
    /\ cache \subseteq RepoDocs
    /\ mishap \in BOOLEAN
    /\ build \in [ at : Points, force : BOOLEAN, todo : Seq(Repositories),
                   cloned : SUBSET Repositories, held : SUBSET RepoDocs,
                   documents : SUBSET RepoDocs ]

(* A repository that is still to be cloned or was is accounted for.        *)
ClonesKnown ==
    During({"clone", "spec", "summaries"}) =>
        /\ build.cloned \cap ClonesThatAre("none") = {}
        /\ ClonesThatAre("whole") \subseteq build.cloned \cup ToSet(build.todo)
        /\ ~At("clone") => build.todo = << >>

(* What a forced rebuild has done so far.                                  *)
Rebuilt ==
    build.force =>
        /\ At("spec") => DOMAIN rtl = {}
        /\ During({"summaries", "save", "saving"}) =>
              DOMAIN rtl = SpecDocs /\ \A d \in SpecDocs : rtl[d] = "bare"
        /\ During({"save", "saving", "documents", "returned"}) =>
              /\ SpecDocs \subseteq DOMAIN rtl
              /\ FromRepos(ClonesThatAre("whole")) \subseteq build.documents \cup DOMAIN rtl
              /\ (build.documents \cup DOMAIN rtl) \cap FromRepos(ClonesThatAre("none")) = {}
        /\ During({"documents", "returned"}) => \A d \in DOMAIN rtl : rtl[d] = Text(d, cache)
        /\ At("documents") => \A d \in build.documents : d \in build.held <=> d \in cache
        /\ At("returned") => build.documents = {}

(* What any build has done so far, if nothing has failed.                  *)
Unharmed ==
    ~mishap =>
        /\ ClonesThatAre("cut short") = {}
        /\ During({"clone", "spec", "summaries"}) => Repositories \subseteq build.cloned \cup ToSet(build.todo)
        /\ During({"idle", "clone", "spec"}) => DOMAIN rtl \in { {}, AllDocuments }
        /\ At("summaries") => DOMAIN rtl \in { SpecDocs, AllDocuments }
        /\ During({"save", "saving", "documents"}) =>
              SpecDocs \subseteq DOMAIN rtl /\ AllDocuments \subseteq DOMAIN rtl \cup build.documents
        /\ During({"returned", "unavailable"}) => DOMAIN rtl = AllDocuments

AnswersHeld ==
    /\ At("save") => cache \subseteq build.held
    /\ IF At("saving") THEN kept \subseteq build.held ELSE kept \subseteq cache

CorpusInv == CorpusType /\ ClonesKnown /\ Rebuilt /\ Unharmed /\ AnswersHeld

LEMMA DocumentsApart ==
    /\ SpecDocs \cap RepoDocs = {}
    /\ AllDocuments = SpecDocs \cup RepoDocs
    /\ \A S \in SUBSET Repositories : FromRepos(S) \subseteq RepoDocs
    /\ \A S, T \in SUBSET Repositories : S \cap T = {} => FromRepos(S) \cap FromRepos(T) = {}
BY CorpusAssumption DEF RepoDocs, AllDocuments, FromRepos, Repositories

LEMMA Queue ==
    ASSUME NEW s \in Seq(Repositories), s # << >>
    PROVE  /\ Head(s) \in Repositories /\ Tail(s) \in Seq(Repositories)
           /\ ToSet(s) = {Head(s)} \cup ToSet(Tail(s))
<1>1. Head(s) \in Repositories /\ Tail(s) \in Seq(Repositories)  OBVIOUS
<1>2. DOMAIN s = 1 .. Len(s) /\ DOMAIN Tail(s) = 1 .. Len(s) - 1 /\ Len(s) \in Nat \ {0}  OBVIOUS
<1>3. \A i \in DOMAIN Tail(s) : Tail(s)[i] = s[i + 1] /\ i + 1 \in DOMAIN s  BY <1>2
<1>4. \A i \in DOMAIN s : i = 1 \/ (i - 1 \in DOMAIN Tail(s) /\ s[i] = Tail(s)[i - 1])  BY <1>2, <1>3
<1>5. Head(s) = s[1] /\ 1 \in DOMAIN s  BY <1>2
<1>6. ToSet(Tail(s)) \subseteq ToSet(s)  BY <1>3 DEF ToSet
<1>7. ToSet(s) \subseteq {Head(s)} \cup ToSet(Tail(s))  BY <1>4, <1>5 DEF ToSet
<1> QED  BY <1>1, <1>5, <1>6, <1>7 DEF ToSet

LEMMA NothingQueued == ToSet(<< >>) = {}
BY DEF ToSet

LEMMA CorpusInitInv == CorpusInit => CorpusInv
<1> SUFFICES ASSUME CorpusInit PROVE CorpusInv  OBVIOUS
<1> USE DEF CorpusInit, Idle, NoDocument, At, During, Points
<1>1. CorpusType
  <2>1. clone \in [ Repositories -> {"none", "cut short", "whole"} ]  BY DEF Repositories
  <2>2. rtl \in [ DOMAIN rtl -> {"bare", "summarised"} ] /\ DOMAIN rtl \subseteq AllDocuments  OBVIOUS
  <2>3. build \in [ at : Points, force : BOOLEAN, todo : Seq(Repositories),
                    cloned : SUBSET Repositories, held : SUBSET RepoDocs, documents : SUBSET RepoDocs ]
    OBVIOUS
  <2> QED  BY <2>1, <2>2, <2>3 DEF CorpusType
<1>2. ClonesKnown /\ Rebuilt /\ AnswersHeld  BY DEF ClonesKnown, Rebuilt, AnswersHeld
<1>3. Unharmed  BY DEF Unharmed, ClonesThatAre
<1> QED  BY <1>1, <1>2, <1>3 DEF CorpusInv

LEMMA BuildCorpusInv ==
    ASSUME CorpusInv, NEW force \in BOOLEAN, BuildCorpus(force)
    PROVE  CorpusInv'
<1> USE DEF CorpusInv, BuildCorpus, disk, Idle, At, During, Points, ClonesThatAre
<1>1. CorpusType'  BY CorpusAssumption DEF CorpusType, Repositories
<1>2. build'.todo = Repos /\ build'.cloned = {} /\ build'.force = force
      /\ build'.at = IF ~force /\ DOMAIN rtl # {} THEN "returned" ELSE "clone"  OBVIOUS
<1>3. ClonesKnown'  BY <1>2 DEF ClonesKnown, Repositories
<1>4. Rebuilt'  BY <1>2 DEF Rebuilt
<1>5. Unharmed'  BY <1>2 DEF Unharmed, Repositories
<1>6. AnswersHeld'  BY <1>2 DEF AnswersHeld
<1> QED  BY <1>1, <1>3, <1>4, <1>5, <1>6

LEMMA CloneInv ==
    ASSUME CorpusInv, Clone
    PROVE  CorpusInv'
<1> DEFINE r == Head(build.todo)
<1> USE DEF At, During, Points
<1>1. At("clone") /\ build.todo # << >> /\ CorpusType  BY DEF Clone, CorpusInv
<1>2. r \in Repositories /\ Tail(build.todo) \in Seq(Repositories)
      /\ ToSet(build.todo) = {r} \cup ToSet(Tail(build.todo))
  BY <1>1, Queue DEF CorpusType
<1>3. UNCHANGED << rtl, cache, kept >> /\ build'.at = "clone" /\ build'.todo = Tail(build.todo)
      /\ build'.force = build.force
  BY <1>1 DEF Clone, CorpusType
<1> HIDE DEF r
<1>4. CASE /\ build' = [ build EXCEPT !.todo = Tail(@), !.cloned = @ \cup {Head(build.todo)} ]
           /\ clone' = [ clone EXCEPT ![Head(build.todo)] = IF @ = "none" THEN "whole" ELSE @ ]
           /\ UNCHANGED mishap
  <2>1. build'.cloned = build.cloned \cup {r}  BY <1>1, <1>4 DEF CorpusType, r
  <2>2. clone' = [ clone EXCEPT ![r] = IF @ = "none" THEN "whole" ELSE @ ]  BY <1>4 DEF r
  <2>3. CorpusType'  BY <1>1, <1>2, <1>3, <1>4, <2>2 DEF CorpusType, r
  <2>4. ClonesKnown'
    BY <1>1, <1>2, <1>3, <2>1, <2>2 DEF CorpusInv, ClonesKnown, ClonesThatAre, CorpusType, Repositories
  <2>5. Rebuilt' /\ AnswersHeld'  BY <1>1, <1>3 DEF Rebuilt, AnswersHeld, CorpusInv
  <2>6. Unharmed'
    BY <1>1, <1>2, <1>3, <1>4, <2>1, <2>2 DEF CorpusInv, Unharmed, ClonesThatAre, CorpusType, Repositories
  <2> QED  BY <2>3, <2>4, <2>5, <2>6 DEF CorpusInv
<1>5. CASE /\ clone[Head(build.todo)] = "none"
           /\ build' = [ build EXCEPT !.todo = Tail(@) ]
           /\ \E left \in {"none", "cut short"} : clone' = [ clone EXCEPT ![Head(build.todo)] = left ]
           /\ mishap' = TRUE
  <2>1. build'.cloned = build.cloned  BY <1>1, <1>5 DEF CorpusType
  <2>2. PICK left \in {"none", "cut short"} : clone' = [ clone EXCEPT ![r] = left ]  BY <1>5 DEF r
  <2>3. CorpusType'  BY <1>1, <1>2, <1>3, <1>5, <2>2 DEF CorpusType
  <2>4. ClonesKnown'
    BY <1>1, <1>2, <1>3, <1>5, <2>1, <2>2 DEF CorpusInv, ClonesKnown, ClonesThatAre, CorpusType, Repositories, r
  <2>5. Rebuilt' /\ AnswersHeld'  BY <1>1, <1>3 DEF Rebuilt, AnswersHeld, CorpusInv
  <2>6. Unharmed'  BY <1>5 DEF Unharmed
  <2> QED  BY <2>3, <2>4, <2>5, <2>6 DEF CorpusInv
<1> QED  BY <1>4, <1>5 DEF Clone

LEMMA ClearInv ==
    ASSUME CorpusInv, Clear
    PROVE  CorpusInv'
<1> USE DEF CorpusInv, Clear, Goto, disk, At, During, Points, ClonesThatAre, CorpusType
<1>1. CorpusType'  BY DEF NoDocument
<1>2. build' = [ build EXCEPT !.at = "spec" ] /\ build.at = "clone" /\ build.todo = << >>
      /\ rtl' = (IF build.force THEN NoDocument ELSE rtl) /\ UNCHANGED << clone, cache, mishap, kept >>
  OBVIOUS
<1>3. ClonesKnown'  BY <1>2 DEF ClonesKnown
<1>4. Rebuilt'  BY <1>2 DEF Rebuilt, NoDocument
<1>5. Unharmed'
  <2>1. DOMAIN rtl' \in { {}, DOMAIN rtl }  BY <1>2 DEF NoDocument
  <2>2. build'.at = "spec" /\ build'.cloned = build.cloned /\ build'.todo = build.todo  BY <1>2
  <2>6. CASE mishap  BY <1>2, <2>6 DEF Unharmed
  <2> SUFFICES ASSUME ~mishap PROVE Unharmed'  BY <2>6
  <2>3. DOMAIN rtl \in { {}, AllDocuments } /\ ClonesThatAre("cut short") = {}
        /\ Repositories \subseteq build.cloned \cup ToSet(build.todo)
    BY <1>2 DEF Unharmed
  <2>4. DOMAIN rtl' \in { {}, AllDocuments }  BY <2>1, <2>3
  <2>5. ClonesThatAre("cut short")' = ClonesThatAre("cut short")  BY <1>2
  <2> HIDE DEF ClonesThatAre
  <2> QED  BY <2>2, <2>3, <2>4, <2>5 DEF Unharmed
<1>6. AnswersHeld'  BY <1>2 DEF AnswersHeld
<1> QED  BY <1>1, <1>3, <1>4, <1>5, <1>6

LEMMA IngestSpecInv ==
    ASSUME CorpusInv, IngestSpec
    PROVE  CorpusInv'
<1> USE DEF CorpusInv, At, During, Points, ClonesThatAre
<1>1. build' = [ build EXCEPT !.at = "summaries" ] /\ build.at = "spec"
      /\ UNCHANGED << clone, cache, mishap, kept >> /\ CorpusType
  BY DEF IngestSpec, Goto
<1>2. DOMAIN rtl' = DOMAIN rtl \cup SpecDocs
      /\ rtl' = [ d \in DOMAIN rtl \cup SpecDocs |-> IF d \in DOMAIN rtl THEN rtl[d] ELSE "bare" ]
  BY DEF IngestSpec, With
<1>3. CorpusType'  BY <1>1, <1>2, DocumentsApart DEF CorpusType
<1>4. ClonesKnown'  BY <1>1 DEF ClonesKnown, CorpusType
<1>5. Rebuilt'  BY <1>1, <1>2 DEF Rebuilt, CorpusType
<1>6. Unharmed'  BY <1>1, <1>2, DocumentsApart DEF Unharmed, CorpusType
<1>7. AnswersHeld'  BY <1>1 DEF AnswersHeld, CorpusType
<1> QED  BY <1>3, <1>4, <1>5, <1>6, <1>7

LEMMA SummariesInv ==
    ASSUME CorpusInv, Summaries
    PROVE  CorpusInv'
<1> USE DEF At, During, Points
<1>1. At("summaries") /\ UNCHANGED << disk, mishap, kept >> /\ CorpusType  BY DEF Summaries, CorpusInv
<1>2. PICK documents \in Found : \E answered \in SUBSET (documents \ cache) :
        build' = [ build EXCEPT !.held = cache \cup answered, !.documents = documents,
                     !.at = IF documents \cap (cache \cup answered) = {} THEN "documents" ELSE "save" ]
  BY DEF Summaries
<1>3. PICK answered \in SUBSET (documents \ cache) :
        build' = [ build EXCEPT !.held = cache \cup answered, !.documents = documents,
                     !.at = IF documents \cap (cache \cup answered) = {} THEN "documents" ELSE "save" ]
  BY <1>2
<1>4. PICK some \in SUBSET FromRepos(build.cloned \cap ClonesThatAre("cut short")) :
        documents = FromRepos(build.cloned \cap ClonesThatAre("whole")) \cup some
  BY <1>2 DEF Found
<1>5. /\ build.todo = << >> /\ build.cloned \cap ClonesThatAre("none") = {}
      /\ ClonesThatAre("whole") \subseteq build.cloned
  BY <1>1, NothingQueued DEF CorpusInv, ClonesKnown
<1>6. build.cloned \cap ClonesThatAre("whole") = ClonesThatAre("whole")  BY <1>5
<1>7. /\ ClonesThatAre("whole") \subseteq Repositories /\ ClonesThatAre("cut short") \subseteq Repositories
      /\ ClonesThatAre("none") \subseteq Repositories
      /\ ClonesThatAre("whole") \cap ClonesThatAre("none") = {}
      /\ ClonesThatAre("cut short") \cap ClonesThatAre("none") = {}
  BY DEF ClonesThatAre, Repositories
<1>8. /\ documents \subseteq RepoDocs
      /\ FromRepos(ClonesThatAre("whole")) \subseteq documents
      /\ documents \cap FromRepos(ClonesThatAre("none")) = {}
  <2> DEFINE cut == build.cloned \cap ClonesThatAre("cut short")
  <2>0. cut \in SUBSET Repositories /\ cut \cap ClonesThatAre("none") = {}
        /\ ClonesThatAre("whole") \in SUBSET Repositories /\ ClonesThatAre("none") \in SUBSET Repositories
    BY <1>7
  <2>1. /\ FromRepos(ClonesThatAre("whole")) \subseteq RepoDocs
        /\ FromRepos(cut) \subseteq RepoDocs
        /\ FromRepos(ClonesThatAre("whole")) \cap FromRepos(ClonesThatAre("none")) = {}
        /\ FromRepos(cut) \cap FromRepos(ClonesThatAre("none")) = {}
    <3> HIDE DEF cut
    <3> QED  BY <1>7, <2>0, DocumentsApart
  <2> QED  BY <1>4, <1>6, <2>1
<1>9. /\ build'.held = cache \cup answered /\ build'.documents = documents
      /\ build'.at = IF documents \cap (cache \cup answered) = {} THEN "documents" ELSE "save"
      /\ build'.force = build.force /\ build'.todo = build.todo /\ build'.cloned = build.cloned
  BY <1>1, <1>3 DEF CorpusType
<1>10. CorpusType'
  BY <1>1, <1>3, <1>8 DEF CorpusType, disk
<1>11. ClonesThatAre("whole")' = ClonesThatAre("whole") /\ ClonesThatAre("none")' = ClonesThatAre("none")
       /\ ClonesThatAre("cut short")' = ClonesThatAre("cut short")
  BY <1>1 DEF ClonesThatAre, disk
<1>12. ClonesKnown'  BY <1>9 DEF ClonesKnown
<1>13. Rebuilt'
  <2> SUFFICES ASSUME build.force PROVE Rebuilt'  BY <1>9 DEF Rebuilt
  <2>1. DOMAIN rtl = SpecDocs /\ \A d \in SpecDocs : rtl[d] = "bare"  BY <1>1 DEF CorpusInv, Rebuilt
  <2>2. SpecDocs \cap FromRepos(ClonesThatAre("none")) = {}  BY <1>7, DocumentsApart
  <2>3. cache \cap SpecDocs = {}  BY <1>1, DocumentsApart DEF CorpusType
  <2>4. build'.at = "documents" => answered = {}  BY <1>9
  <2>5. rtl' = rtl /\ cache' = cache  BY <1>1 DEF disk
  <2> QED  BY <1>8, <1>9, <1>11, <2>1, <2>2, <2>3, <2>4, <2>5 DEF Rebuilt, CorpusType, Text
<1>14. Unharmed'
  <2> SUFFICES ASSUME ~mishap PROVE Unharmed'  BY <1>1 DEF Unharmed
  <2>1. ClonesThatAre("cut short") = {} /\ Repositories \subseteq build.cloned
        /\ DOMAIN rtl \in { SpecDocs, AllDocuments }
    BY <1>1, <1>5, NothingQueued DEF CorpusInv, Unharmed
  <2>2. ClonesThatAre("whole") = Repositories
    BY <1>1, <1>5, <2>1 DEF ClonesThatAre, CorpusType, Repositories
  <2>3. RepoDocs \subseteq documents  BY <1>8, <2>2 DEF RepoDocs
  <2>4. rtl' = rtl  BY <1>1 DEF disk
  <2> QED  BY <1>9, <1>11, <2>1, <2>3, <2>4, DocumentsApart DEF Unharmed
<1>15. AnswersHeld'  BY <1>1, <1>9 DEF CorpusInv, AnswersHeld, disk
<1> QED  BY <1>10, <1>12, <1>13, <1>14, <1>15 DEF CorpusInv

LEMMA EmptyCacheInv ==
    ASSUME CorpusInv, EmptyCache
    PROVE  CorpusInv'
<1> USE DEF CorpusInv, At, During, Points, ClonesThatAre
<1>1. build' = [ build EXCEPT !.at = "saving" ] /\ build.at = "save" /\ cache' = {}
      /\ UNCHANGED << clone, rtl, mishap, kept >> /\ CorpusType
  BY DEF EmptyCache, Goto
<1>2. CorpusType'  BY <1>1 DEF CorpusType
<1>3. ClonesKnown' /\ AnswersHeld'  BY <1>1 DEF ClonesKnown, AnswersHeld, CorpusType
<1>4. Rebuilt'
  <2>1. ClonesThatAre("whole")' = ClonesThatAre("whole") /\ ClonesThatAre("none")' = ClonesThatAre("none")
    BY <1>1
  <2> HIDE DEF ClonesThatAre
  <2>2. build'.at = "saving" /\ build'.force = build.force /\ build'.documents = build.documents /\ rtl' = rtl
    BY <1>1 DEF CorpusType
  <2> QED  BY <1>1, <2>1, <2>2 DEF Rebuilt
<1>5. Unharmed'  BY <1>1 DEF Unharmed, CorpusType
<1> QED  BY <1>2, <1>3, <1>4, <1>5

LEMMA WriteCacheInv ==
    ASSUME CorpusInv, WriteCache
    PROVE  CorpusInv'
<1> USE DEF CorpusInv, At, During, Points, ClonesThatAre
<1>1. build' = [ build EXCEPT !.at = "documents" ] /\ build.at = "saving" /\ cache' = build.held
      /\ kept' = kept \cup build.held /\ UNCHANGED << clone, rtl, mishap >> /\ CorpusType
  BY DEF WriteCache, Goto
<1>2. CorpusType'  BY <1>1 DEF CorpusType
<1>3. ClonesKnown' /\ AnswersHeld'  BY <1>1 DEF ClonesKnown, AnswersHeld, CorpusType
<1>4. Rebuilt'
  <2>1. build.held \cap SpecDocs = {}  BY <1>1, DocumentsApart DEF CorpusType
  <2>2. ClonesThatAre("whole")' = ClonesThatAre("whole") /\ ClonesThatAre("none")' = ClonesThatAre("none")
    BY <1>1
  <2> HIDE DEF ClonesThatAre
  <2> SUFFICES ASSUME build.force PROVE Rebuilt'  BY <1>1 DEF Rebuilt, CorpusType
  <2>3. \A d \in DOMAIN rtl' : rtl'[d] = Text(d, cache')
    BY <1>1, <2>1 DEF Rebuilt, CorpusType, Text
  <2>4. build'.held = cache' /\ build'.at = "documents" /\ build'.documents = build.documents
    BY <1>1 DEF CorpusType
  <2> QED  BY <1>1, <2>2, <2>3, <2>4 DEF Rebuilt
<1>5. Unharmed'  BY <1>1 DEF Unharmed, CorpusType
<1> QED  BY <1>2, <1>3, <1>4, <1>5

LEMMA NoDocumentsInv ==
    ASSUME CorpusInv, NoDocuments
    PROVE  CorpusInv'
<1> USE DEF CorpusInv, At, During, Points, ClonesThatAre
<1>1. build' = [ build EXCEPT !.at = "unavailable" ] /\ build.at = "documents" /\ build.documents = {}
      /\ UNCHANGED << clone, rtl, cache, mishap, kept >> /\ CorpusType
  BY DEF NoDocuments, Goto, disk
<1>2. CorpusType'  BY <1>1 DEF CorpusType
<1>3. ClonesKnown' /\ AnswersHeld' /\ Rebuilt'  BY <1>1 DEF ClonesKnown, AnswersHeld, Rebuilt, CorpusType
<1>4. Unharmed'  BY <1>1 DEF Unharmed, CorpusType
<1> QED  BY <1>2, <1>3, <1>4

LEMMA AddInv ==
    ASSUME CorpusInv, Add
    PROVE  CorpusInv'
<1> USE DEF At, During, Points
<1>1. At("documents") /\ UNCHANGED << clone, cache, kept >> /\ CorpusType
      /\ mishap' = (mishap /\ ~(DOMAIN rtl' = AllDocuments /\ ClonesThatAre("cut short") = {}))
  BY DEF Add, CorpusInv
<1>2. PICK chunk \in SUBSET build.documents :
        /\ rtl' = With(rtl, [ d \in chunk |-> Text(d, build.held) ])
        /\ build' = [ build EXCEPT !.documents = @ \ chunk,
                        !.at = IF chunk = build.documents THEN "returned" ELSE "documents" ]
  BY DEF Add
<1>3. /\ build'.at \in {"documents", "returned"} /\ build'.documents = build.documents \ chunk
      /\ build'.at = "returned" => chunk = build.documents
      /\ build'.force = build.force /\ build'.held = build.held
  BY <1>1, <1>2 DEF CorpusType
<1>4. DOMAIN rtl' = DOMAIN rtl \cup chunk
      /\ \A d \in DOMAIN rtl' : rtl'[d] = IF d \in DOMAIN rtl THEN rtl[d] ELSE Text(d, build.held)
  BY <1>2 DEF With
<1>5. rtl' \in [ DOMAIN rtl' -> {"bare", "summarised"} ]
  <2>1. \A d \in DOMAIN rtl' : rtl'[d] \in {"bare", "summarised"}  BY <1>1, <1>4 DEF CorpusType, Text
  <2>2. rtl' = [ d \in DOMAIN rtl' |-> rtl'[d] ]  BY <1>2 DEF With
  <2> QED  BY <2>1, <2>2
<1>6. CorpusType'
  <2>1. DOMAIN rtl' \subseteq AllDocuments  BY <1>1, <1>4, DocumentsApart DEF CorpusType
  <2>2. build' \in [ at : Points, force : BOOLEAN, todo : Seq(Repositories),
                     cloned : SUBSET Repositories, held : SUBSET RepoDocs, documents : SUBSET RepoDocs ]
    BY <1>1, <1>2 DEF CorpusType
  <2>3. mishap' \in BOOLEAN  BY <1>1 DEF CorpusType
  <2> QED  BY <1>1, <1>5, <2>1, <2>2, <2>3 DEF CorpusType
<1>7. ClonesKnown' /\ AnswersHeld'  BY <1>1, <1>3 DEF ClonesKnown, AnswersHeld, CorpusInv
<1>8. \A s : ClonesThatAre(s)' = ClonesThatAre(s)  BY <1>1 DEF ClonesThatAre
<1>9. Rebuilt'
  <2> SUFFICES ASSUME build.force PROVE Rebuilt'  BY <1>3 DEF Rebuilt
  <2>1. \A d \in DOMAIN rtl' : rtl'[d] = Text(d, cache)
    BY <1>1, <1>4 DEF CorpusInv, Rebuilt, Text
  <2>2. /\ SpecDocs \subseteq DOMAIN rtl
        /\ FromRepos(ClonesThatAre("whole")) \subseteq build.documents \cup DOMAIN rtl
        /\ (build.documents \cup DOMAIN rtl) \cap FromRepos(ClonesThatAre("none")) = {}
        /\ \A d \in build.documents : d \in build.held <=> d \in cache
    BY <1>1 DEF CorpusInv, Rebuilt
  <2>3. ClonesThatAre("whole")' = ClonesThatAre("whole") /\ ClonesThatAre("none")' = ClonesThatAre("none")
    BY <1>8
  <2> QED  BY <1>1, <1>3, <1>4, <2>1, <2>2, <2>3 DEF Rebuilt
<1>10. Unharmed'
  <2>1. CASE mishap
    <3> SUFFICES ASSUME ~mishap' PROVE Unharmed'  BY DEF Unharmed
    <3>1. DOMAIN rtl' = AllDocuments /\ ClonesThatAre("cut short") = {}  BY <1>1, <2>1
    <3>2. ClonesThatAre("cut short")' = {}  BY <1>8, <3>1
    <3> QED  BY <1>3, <3>1, <3>2, DocumentsApart DEF Unharmed
  <2>2. CASE ~mishap
    <3>1. /\ ClonesThatAre("cut short") = {} /\ SpecDocs \subseteq DOMAIN rtl
          /\ AllDocuments \subseteq DOMAIN rtl \cup build.documents
      BY <1>1, <2>2 DEF CorpusInv, Unharmed
    <3>2. ClonesThatAre("cut short")' = {}  BY <1>8, <3>1
    <3>3. SpecDocs \subseteq DOMAIN rtl' /\ AllDocuments \subseteq DOMAIN rtl' \cup build'.documents
          /\ DOMAIN rtl' \subseteq AllDocuments
      BY <1>1, <1>3, <1>4, <3>1, DocumentsApart DEF CorpusType
    <3>4. build'.at = "returned" => DOMAIN rtl' = AllDocuments  BY <1>3, <1>4, <3>3
    <3> QED  BY <1>3, <3>2, <3>3, <3>4 DEF Unharmed
  <2> QED  BY <2>1, <2>2
<1> QED  BY <1>6, <1>7, <1>9, <1>10 DEF CorpusInv

LEMMA IdleInv ==
    ASSUME CorpusType', build' = Idle, Unharmed', (kept \subseteq cache)'
    PROVE  CorpusInv'
<1> USE DEF At, During, Points, Idle
<1>1. ClonesKnown' /\ Rebuilt' /\ AnswersHeld'  BY DEF ClonesKnown, Rebuilt, AnswersHeld
<1> QED  BY <1>1 DEF CorpusInv

LEMMA IdleType ==
    Idle \in [ at : Points, force : BOOLEAN, todo : Seq(Repositories),
               cloned : SUBSET Repositories, held : SUBSET RepoDocs, documents : SUBSET RepoDocs ]
BY DEF Idle, Points

LEMMA EndBuildInv ==
    ASSUME CorpusInv, EndBuild
    PROVE  CorpusInv'
<1>1. build.at \in {"returned", "unavailable"} /\ build' = Idle
      /\ UNCHANGED << clone, rtl, cache, mishap, kept >> /\ CorpusType
  BY DEF EndBuild, disk, CorpusInv
<1>2. CorpusType'  BY <1>1, IdleType DEF CorpusType
<1>3. Unharmed'
  BY <1>1 DEF CorpusInv, Unharmed, During, At, Idle, ClonesThatAre
<1>4. (kept \subseteq cache)'  BY <1>1 DEF CorpusInv, AnswersHeld, At
<1> QED  BY <1>1, <1>2, <1>3, <1>4, IdleInv

LEMMA BuildDiesInv ==
    ASSUME CorpusInv, BuildDies
    PROVE  CorpusInv'
<1>1. build' = Idle /\ UNCHANGED << rtl, cache >> /\ CorpusType  BY DEF BuildDies, CorpusInv
<1>2. CASE At("idle")
  <2>1. UNCHANGED << clone, mishap, kept >>  BY <1>2 DEF BuildDies
  <2>2. CorpusType'  BY <1>1, <2>1, IdleType DEF CorpusType
  <2>3. Unharmed'  BY <1>1, <1>2, <2>1 DEF CorpusInv, Unharmed, During, At, Idle, ClonesThatAre
  <2>4. (kept \subseteq cache)'  BY <1>1, <1>2, <2>1 DEF CorpusInv, AnswersHeld, At
  <2> QED  BY <1>1, <2>2, <2>3, <2>4, IdleInv
<1>3. CASE ~At("idle")
  <2>1. mishap' = TRUE /\ kept' = (IF At("saving") THEN {} ELSE kept)  BY <1>3 DEF BuildDies
  <2>2. clone' \in [ Repositories -> {"none", "cut short", "whole"} ]
    <3>1. CASE At("clone") /\ build.todo # << >> /\ clone[Head(build.todo)] = "none"
      <4>1. PICK left \in {"none", "cut short"} : clone' = [ clone EXCEPT ![Head(build.todo)] = left ]
        BY <1>3, <3>1 DEF BuildDies
      <4> QED  BY <1>1, <4>1 DEF CorpusType
    <3>2. CASE ~(At("clone") /\ build.todo # << >> /\ clone[Head(build.todo)] = "none")
      <4>1. clone' = clone  BY <1>3, <3>2 DEF BuildDies
      <4> QED  BY <1>1, <4>1 DEF CorpusType
    <3> QED  BY <3>1, <3>2
  <2>3. CorpusType'  BY <1>1, <2>1, <2>2, IdleType DEF CorpusType
  <2>4. Unharmed'  BY <2>1 DEF Unharmed
  <2>5. (kept \subseteq cache)'  BY <1>1, <2>1 DEF CorpusInv, AnswersHeld
  <2> QED  BY <1>1, <2>3, <2>4, <2>5, IdleInv
<1> QED  BY <1>2, <1>3

LEMMA CorpusStep ==
    ASSUME CorpusInv,
           \/ \E force \in BOOLEAN : BuildCorpus(force)
           \/ BuildStep \/ EndBuild \/ BuildDies
           \/ UNCHANGED corpusVars
    PROVE  CorpusInv'
<1>1. CASE \E force \in BOOLEAN : BuildCorpus(force)  BY <1>1, BuildCorpusInv
<1>2. CASE BuildStep
  BY <1>2, CloneInv, ClearInv, IngestSpecInv, SummariesInv, EmptyCacheInv, WriteCacheInv,
     NoDocumentsInv, AddInv DEF BuildStep
<1>3. CASE EndBuild \/ BuildDies  BY <1>3, EndBuildInv, BuildDiesInv
<1>4. CASE UNCHANGED corpusVars
  BY <1>4 DEF corpusVars, disk, CorpusInv, CorpusType, ClonesKnown, Rebuilt, Unharmed, AnswersHeld,
              During, At, ClonesThatAre
<1> QED  BY <1>1, <1>2, <1>3, <1>4

LEMMA CorpusPromises ==
    ASSUME CorpusInv
    PROVE  RebuildHeals /\ LossHasACause /\ AnswersKept
<1> USE DEF CorpusInv, CorpusType, During, At
<1>1. RebuildHeals
  <2> SUFFICES ASSUME At("returned"), build.force
               PROVE  /\ SpecDocs \cup FromRepos(ClonesThatAre("whole")) \subseteq DOMAIN rtl
                      /\ DOMAIN rtl \cap FromRepos(ClonesThatAre("none")) = {}
                      /\ rtl = [ d \in DOMAIN rtl |-> Text(d, cache) ]
    BY DEF RebuildHeals, Text
  <2>1. \A d \in DOMAIN rtl : rtl[d] = Text(d, cache)  BY DEF Rebuilt
  <2>2. rtl = [ d \in DOMAIN rtl |-> rtl[d] ]  OBVIOUS
  <2>3. rtl = [ d \in DOMAIN rtl |-> Text(d, cache) ]  BY <2>1, <2>2
  <2> QED  BY <2>3 DEF Rebuilt
<1>2. LossHasACause  BY DEF LossHasACause, Unharmed
<1>3. AnswersKept  BY DEF AnswersKept, AnswersHeld
<1> QED  BY <1>1, <1>2, <1>3
-----------------------------------------------------------------------------
(* What is in the collection is the text some installed version has.       *)
KnowledgeInv ==
    /\ version \in installed /\ installed \subseteq DOMAIN Entries
    /\ call \in [ at : {"idle", "clear", "add", "returned"}, force : BOOLEAN ]
    /\ \A id \in DOMAIN knowledge : \E w \in installed :
          id \in DOMAIN Entries[w] /\ knowledge[id] = Entries[w][id]
    /\ call.at = "add" /\ call.force => DOMAIN knowledge = {}
    /\ KnowledgeIsCurrent

LEMMA KnowledgeInitInv == KnowledgeInit => KnowledgeInv
BY EntriesAssumption DEF KnowledgeInit, KnowledgeInv, KnowledgeIsCurrent, NoCall, NoEntries

LEMMA BuildKnowledgeInv ==
    ASSUME KnowledgeInv, NEW force \in BOOLEAN, BuildKnowledge(force)
    PROVE  KnowledgeInv'
<1>1. /\ UNCHANGED << version, knowledge, installed >>
      /\ call' \in [ at : {"idle", "clear", "add", "returned"}, force : BOOLEAN ]
      /\ call'.at \in {"returned", "clear"}
      /\ call'.at = "returned" =>
            ~call'.force /\ Cardinality(DOMAIN knowledge) >= Cardinality(DOMAIN Entries[version])
  BY DEF BuildKnowledge
<1>2. KnowledgeIsCurrent'
  <2> SUFFICES ASSUME call'.at = "returned", \A w \in installed : Extends(version, w)
               PROVE  \A id \in DOMAIN Entries[version] :
                         id \in DOMAIN knowledge /\ knowledge[id] = Entries[version][id]
    BY <1>1 DEF KnowledgeIsCurrent, Extends
  <2>1. \A id \in DOMAIN knowledge :
           id \in DOMAIN Entries[version] /\ knowledge[id] = Entries[version][id]
    BY DEF KnowledgeInv, Extends
  <2>2. IsFiniteSet(DOMAIN Entries[version])  BY EntriesAssumption DEF KnowledgeInv
  <2>3. DOMAIN knowledge \in SUBSET DOMAIN Entries[version]  BY <2>1
  <2>4. /\ IsFiniteSet(DOMAIN knowledge)
        /\ Cardinality(DOMAIN knowledge) <= Cardinality(DOMAIN Entries[version])
        /\ Cardinality(DOMAIN Entries[version]) = Cardinality(DOMAIN knowledge)
              => DOMAIN Entries[version] = DOMAIN knowledge
    BY <2>2, <2>3, FS_Subset
  <2>5. Cardinality(DOMAIN knowledge) \in Nat /\ Cardinality(DOMAIN Entries[version]) \in Nat
    BY <2>2, <2>4, FS_CardinalityType
  <2>6. DOMAIN Entries[version] = DOMAIN knowledge  BY <1>1, <2>4, <2>5
  <2> QED  BY <2>1, <2>6
<1> QED  BY <1>1, <1>2 DEF KnowledgeInv

LEMMA AddKnowledgeInv ==
    ASSUME KnowledgeInv, AddKnowledge
    PROVE  KnowledgeInv'
<1>1. /\ call.at = "add" /\ call' = [ call EXCEPT !.at = "returned" ] /\ UNCHANGED << version, installed >>
      /\ knowledge' = With(knowledge, Entries[version])
  BY DEF AddKnowledge
<1>2. /\ DOMAIN knowledge' = DOMAIN knowledge \cup DOMAIN Entries[version]
      /\ \A id \in DOMAIN knowledge' :
            knowledge'[id] = IF id \in DOMAIN knowledge THEN knowledge[id] ELSE Entries[version][id]
  BY <1>1 DEF With
<1>3. /\ call' \in [ at : {"idle", "clear", "add", "returned"}, force : BOOLEAN ]
      /\ call'.at = "returned" /\ call'.force = call.force
  BY <1>1 DEF KnowledgeInv
<1>4. \A id \in DOMAIN knowledge' : \E w \in installed :
          id \in DOMAIN Entries[w] /\ knowledge'[id] = Entries[w][id]
  BY <1>2 DEF KnowledgeInv
<1>5. KnowledgeIsCurrent'
  <2>1. CASE call.force  BY <1>1, <1>2, <1>3, <2>1 DEF KnowledgeIsCurrent, KnowledgeInv
  <2>2. CASE \A w \in installed : Extends(version, w)
    <3>1. \A id \in DOMAIN knowledge :
             id \in DOMAIN Entries[version] /\ knowledge[id] = Entries[version][id]
      BY <2>2 DEF KnowledgeInv, Extends
    <3> QED  BY <1>1, <1>2, <3>1 DEF KnowledgeIsCurrent
  <2> QED  BY <1>1, <1>3, <2>1, <2>2 DEF KnowledgeIsCurrent, Extends
<1> QED  BY <1>1, <1>3, <1>4, <1>5 DEF KnowledgeInv

LEMMA KnowledgeStep ==
    ASSUME KnowledgeInv,
           \/ Upgrade
           \/ \E force \in BOOLEAN : BuildKnowledge(force)
           \/ ClearKnowledge \/ AddKnowledge \/ EndKnowledge \/ KnowledgeDies
           \/ UNCHANGED knowledgeVars
    PROVE  KnowledgeInv'
<1> USE DEF KnowledgeInv, KnowledgeIsCurrent, Extends
<1>1. CASE Upgrade  BY <1>1 DEF Upgrade
<1>2. CASE \E force \in BOOLEAN : BuildKnowledge(force)  BY <1>2, BuildKnowledgeInv
<1>3. CASE ClearKnowledge
  <2>1. /\ UNCHANGED << version, installed >> /\ call.at = "clear" /\ call' = [ call EXCEPT !.at = "add" ]
        /\ knowledge' = IF call.force THEN NoEntries ELSE knowledge
    BY <1>3 DEF ClearKnowledge
  <2>2. call' \in [ at : {"idle", "clear", "add", "returned"}, force : BOOLEAN ]
        /\ call'.at = "add" /\ call'.force = call.force
    BY <2>1
  <2>3. CASE call.force
    <3>1. DOMAIN knowledge' = {}  BY <2>1, <2>3 DEF NoEntries
    <3> QED  BY <2>1, <2>2, <3>1
  <2>4. CASE ~call.force
    <3>1. knowledge' = knowledge  BY <2>1, <2>4
    <3> QED  BY <2>1, <2>2, <2>4, <3>1
  <2> QED  BY <2>3, <2>4
<1>4. CASE AddKnowledge  BY <1>4, AddKnowledgeInv
<1>5. CASE EndKnowledge \/ KnowledgeDies
  <2>1. call' = NoCall /\ UNCHANGED << version, knowledge, installed >>
    BY <1>5 DEF EndKnowledge, KnowledgeDies
  <2> QED  BY <2>1 DEF NoCall
<1>6. CASE UNCHANGED knowledgeVars  BY <1>6 DEF knowledgeVars
<1> QED  BY <1>1, <1>2, <1>3, <1>4, <1>5, <1>6
=============================================================================
