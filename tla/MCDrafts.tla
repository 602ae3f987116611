------------------------------ MODULE MCDrafts ------------------------------
(***************************************************************************)
(* Drafts on small instances.                                              *)
(***************************************************************************)
EXTENDS Drafts, TLC

Symmetry == Permutations(Request) \cup Permutations(User)
            \cup Permutations(Draft)
=============================================================================
