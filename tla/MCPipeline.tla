----------------------------- MODULE MCPipeline -----------------------------
(***************************************************************************)
(* Two reference designs with two documents and one, in batches of two;    *)
(* three versions of the knowledge base, of which the second adds an entry *)
(* and the third replaces one; two tests; one module and top.              *)
(***************************************************************************)
EXTENDS RunPipeline

MCRepos == << "ibex", "picorv32" >>
MCWhitelist == [ ibex |-> { "ibex_alu", "ibex_decoder" }, picorv32 |-> { "picorv32" } ]
MCEntries == << [ a |-> "1" ], [ a |-> "1", b |-> "1" ], [ b |-> "1", c |-> "1" ] >>
MCTests == << "add", "lw" >>

\* The tests a simulator passes: a top and a core of one run pass both.
MCPasses(b, test) == test = "add" \/ \A m, n \in DOMAIN b : b[m] = b[n]

\* A run is for one of the collections, or for the core.
NoCore == {"skip_generation", "skip_sim", "skip_tests"}
NoBuild == {"skip_corpus", "skip_knowledge"}
MCOptions == { NoCore \cup {s} : s \in NoBuild }
             \cup { NoCore \cup {s, "force_rebuild"} : s \in NoBuild }
             \cup { NoBuild, NoBuild \cup {"skip_sim"},
                     NoBuild \cup {"skip_generation", "finalize"} }

=============================================================================
