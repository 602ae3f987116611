----------------------------- MODULE MCAccounts -----------------------------
(***************************************************************************)
(* Accounts on a small instance: two spellings of one address and another. *)
(***************************************************************************)
EXTENDS Accounts, TLC

MCFolded == [a \in Address |-> IF a = "Ann" THEN "ann" ELSE a]

Symmetry == Permutations(User) \cup Permutations(Organisation)
            \cup Permutations(Name) \cup Permutations(Request)
=============================================================================
