----------------------------- MODULE MCTenancy -----------------------------
(***************************************************************************)
(* Tenancy on small instances.                                             *)
(***************************************************************************)
EXTENDS Tenancy, TLC

Symmetry == Permutations(Request) \cup Permutations(Organisation)
            \cup Permutations(User \ {FirstAdmin}) \cup Permutations(Report)
=============================================================================
