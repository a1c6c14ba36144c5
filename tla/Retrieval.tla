----------------------------- MODULE Retrieval -----------------------------
(***************************************************************************)
(* retrieve of rag/pipeline.py: the reference RTL that goes into a prompt. *)
(* The known-good modules of a component are fetched by name; what is left *)
(* of the k places is filled by the reciprocal rank fusion of a semantic   *)
(* and a keyword ranking; and the result is reranked. The two rankings and *)
(* the cross-encoder are any rankings; every call to the store or a model  *)
(* may raise, which the code swallows.                                     *)
(***************************************************************************)
EXTENDS Naturals, Sequences, FiniteSets, Functions

CONSTANTS
    Docs,           \* document ids
    Names,          \* module names
    Components,     \* the lists of known modules of COMPONENT_TO_MODULES
    Collections,    \* the contents rtl_corpus may have
    K,              \* documents asked for: 3 in the code
    Factor,         \* rankings are Factor * K long: 3 in the code
    RrfK            \* the constant of the fusion: 60 in the code

ASSUME RetrievalAssumption ==
    /\ K \in Nat \ {0} /\ Factor \in Nat \ {0} /\ RrfK \in Nat
    /\ Collections \subseteq SUBSET Docs /\ IsFiniteSet(Docs)
    /\ Components \subseteq Seq(Names)

\* Two ranks, however low, count for more than one, however high.
ASSUME FusionAssumption == Factor * K < RrfK + 2

VARIABLES
    collection, name,   \* the store: documents and their module_name
    targets,            \* the names still to fetch
    results,            \* the documents found
    semantic, bm25,     \* the two rankings
    phase,
    wanted, raised      \* history: all target names; an exception was swallowed

store == << collection, name, wanted >>
vars  == << store, targets, results, semantic, bm25, phase, raised >>

Found == { results[i] : i \in DOMAIN results }
Lesser(m, n) == IF m < n THEN m ELSE n

\* All rankings of the documents in S, cut after the first n.
Rankings(S, n) == Injection(1 .. Lesser(n, Cardinality(S)), S)

---------------------------------------------------------------------------
(* Reciprocal rank fusion.                                                 *)

RankIn(s, d) == CHOOSE i \in DOMAIN s : s[i] = d
Ranked(s)    == { s[i] : i \in DOMAIN s }

\* Mutant: the second ranking replaces the score of the first.
ScoreLast(s, b, d) ==
    << 1, RrfK + IF d \in Ranked(b) THEN RankIn(b, d) ELSE RankIn(s, d) >>

\* The score of d, the sum of 1 / (RrfK + rank), as a fraction.
Score(s, b, d) ==
    LET p == RrfK + RankIn(s, d)
        q == RrfK + RankIn(b, d)
    IN  IF d \notin Ranked(b) THEN << 1, p >>
        ELSE IF d \notin Ranked(s) THEN << 1, q >>
        ELSE << p + q, p * q >>

\* sorted() is stable: documents of one score stay as they entered `scores'.
Entered(s, b, d) == IF d \in Ranked(s) THEN RankIn(s, d) ELSE Len(s) + RankIn(b, d)
Precedes(s, b, d, e) ==
    LET x == Score(s, b, d)
        y == Score(s, b, e)
    IN  \/ x[1] * y[2] > y[1] * x[2]
        \/ x[1] * y[2] = y[1] * x[2] /\ Entered(s, b, d) < Entered(s, b, e)

\* The documents of S in the order of the fusion.
Best(s, b, S) ==
    [ i \in 1 .. Cardinality(S) |->
        CHOOSE d \in S : Cardinality({ e \in S : Precedes(s, b, e, d) }) = i - 1 ]

---------------------------------------------------------------------------

Init ==
    /\ collection \in Collections /\ name \in [ Docs -> Names ]
    /\ wanted \in Components /\ targets = wanted
    /\ results = << >> /\ semantic = << >> /\ bm25 = << >>
    /\ phase = "fetch" /\ raised = FALSE

\* An empty collection is answered at once.
EmptyCorpus ==
    /\ phase = "fetch" /\ collection = {}
    /\ phase' = "done"
    /\ UNCHANGED << store, targets, results, semantic, bm25, raised >>

\* All documents of the next known module that are not in yet, in any order.
Fetch ==
    /\ phase = "fetch" /\ collection /= {} /\ targets /= << >>
    /\ LET new == { d \in collection : name[d] = Head(targets) } \ Found
       IN  \E r \in Rankings(new, Cardinality(new)) : results' = results \o r
    /\ targets' = Tail(targets)
    /\ UNCHANGED << store, semantic, bm25, phase, raised >>

FetchRaises ==
    /\ phase = "fetch" /\ collection /= {} /\ targets /= << >>
    /\ targets' = Tail(targets)
    /\ raised' = TRUE
    /\ UNCHANGED << store, results, semantic, bm25, phase >>

\* With k documents or more there is nothing to fill: the first k are returned.
EndFetch ==
    /\ phase = "fetch" /\ collection /= {} /\ targets = << >>
    /\ \/ Len(results) < K /\ phase' = "fill" /\ UNCHANGED results
       \/ Len(results) >= K /\ phase' = "done" /\ results' = SubSeq(results, 1, K)
    /\ UNCHANGED << store, targets, semantic, bm25, raised >>

\* Mutant: documents that were fetched by name are added again.
FillSeen ==
    /\ phase = "fill"
    /\ \E s, b \in Rankings(collection, Factor * K) :
          /\ semantic' = s /\ bm25' = b
          /\ LET all == Best(s, b, Ranked(s) \cup Ranked(b))
             IN  results' = results \o SubSeq(all, 1, Lesser(K - Len(results), Len(all)))
    /\ phase' = "rerank"
    /\ UNCHANGED << store, targets, raised >>

\* The best fused documents that are not in yet take the remaining places.
Fill ==
    /\ phase = "fill"
    /\ \E s, b \in Rankings(collection, Factor * K) :
          LET new == Best(s, b, (Ranked(s) \cup Ranked(b)) \ Found)
          IN  /\ semantic' = s /\ bm25' = b
              /\ results' = results \o SubSeq(new, 1, Lesser(K - Len(results), Len(new)))
    /\ phase' = "rerank"
    /\ UNCHANGED << store, targets, raised >>

\* Mutant: the reranking keeps one document too few.
RerankOneLess ==
    /\ phase = "rerank"
    /\ \E r \in Rankings(Found, K - 1) : results' = r
    /\ phase' = "done"
    /\ UNCHANGED << store, targets, semantic, bm25, raised >>

\* The cross-encoder's order of what has been found.
Rerank ==
    /\ phase = "rerank"
    /\ \E r \in Rankings(Found, K) : results' = r
    /\ phase' = "done"
    /\ UNCHANGED << store, targets, semantic, bm25, raised >>

\* "Hybrid fill failed": what has been found so far is returned as it is.
HybridRaises ==
    /\ phase \in {"fill", "rerank"}
    /\ phase' = "done" /\ raised' = TRUE
    /\ results' = SubSeq(results, 1, Lesser(K, Len(results)))
    /\ UNCHANGED << store, targets, semantic, bm25 >>

Next == EmptyCorpus \/ Fetch \/ FetchRaises \/ EndFetch \/ Fill \/ Rerank \/ HybridRaises
Spec == Init /\ [][Next]_vars

---------------------------------------------------------------------------

Known == { d \in collection : \E i \in DOMAIN wanted : name[d] = wanted[i] }

(* However the fetch, the fill and the reranking end, the answer has at    *)
(* most k documents of the collection, each of them once, and without an   *)
(* exception it has k or all there are.                                    *)
AnswerIsFull ==
    phase = "done" =>
      /\ Len(results) <= K /\ IsInjective(results) /\ Found \subseteq collection
      /\ raised \/ Len(results) = Lesser(K, Cardinality(collection))

(* No other document takes the place of a known-good module, neither in    *)
(* the fill nor in the reranking.                                          *)
KnownFirst == phase = "done" /\ ~raised => Found \subseteq Known \/ Known \subseteq Found

(* A document that only one of the two rankings has never fills a place    *)
(* while one that both have is left out, whatever their ranks.             *)
AgreedFirst ==
    phase \in {"rerank", "done"} =>
      \A d \in Ranked(semantic) \cap Ranked(bm25), e \in Found \ Known :
          e \in Ranked(semantic) \cap Ranked(bm25) \/ d \in Found

(* retrieve: "Always include these known-good reference modules."          *)
KnownAlwaysIncluded == phase = "done" /\ ~raised => Known \subseteq Found

=============================================================================
