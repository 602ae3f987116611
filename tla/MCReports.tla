----------------------------- MODULE MCReports -----------------------------
(***************************************************************************)
(* Reports on small instances: accounts of one organisation, among them    *)
(* its owner (who may delete) and, in some runs, a plain member.           *)
(***************************************************************************)
EXTENDS Reports, TLC

CONSTANT org

MCOrgOf == [a \in Actor |-> org]

Symmetry == Permutations(Request) \cup Permutations(CaseId)
            \cup Permutations(Data)
=============================================================================
