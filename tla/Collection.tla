----------------------------- MODULE Collection -----------------------------
(* collection.add of ChromaDB, as the program uses it: a document whose id  *)
(* the collection has is not replaced.                                      *)
With(collection, documents) ==
    [ id \in DOMAIN collection \cup DOMAIN documents |->
        IF id \in DOMAIN collection THEN collection[id] ELSE documents[id] ]
=============================================================================
