----------------------------- MODULE MCSessions -----------------------------
(***************************************************************************)
(* Sessions on small instances: every account belongs to the same          *)
(* organisation, which one of them may own.                                *)
(***************************************************************************)
EXTENDS Sessions, TLC

CONSTANT org

MCOrgOf == [u \in User |-> org]

Symmetry == Permutations(Request) \cup Permutations(Token)
=============================================================================
