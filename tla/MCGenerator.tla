---------------------------- MODULE MCGenerator ----------------------------
(***************************************************************************)
(* One module and top, two port lists; up to three attempts and three runs *)
(* in MCGenerator.cfg, fewer in the others. The proofs are for any number. *)
(***************************************************************************)
EXTENDS Generator

MCOrder == << "decoder", "top" >>

=============================================================================
