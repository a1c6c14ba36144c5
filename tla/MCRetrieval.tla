---------------------------- MODULE MCRetrieval ----------------------------
(***************************************************************************)
(* Four documents of three names, of which up to two are known; two places *)
(* and rankings of two. Ids are interchangeable, so that one collection of *)
(* each size stands for all.                                               *)
(***************************************************************************)
EXTENDS Retrieval

MCComponents  == { << >>, << "ibex_alu" >>, << "ibex_alu", "rv32i_alu" >> }
MCCollections == { 1 .. n : n \in 0 .. 4 }

=============================================================================
