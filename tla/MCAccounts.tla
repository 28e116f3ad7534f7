----------------------------- MODULE MCAccounts -----------------------------
(***************************************************************************)
(* Instances of Accounts for TLC: the row r1 of ann is an administrator.   *)
(***************************************************************************)
EXTENDS Accounts, TLC

CONSTANTS ann, r1

AnnFounds == [r \in Rows |-> IF r = r1 THEN ann ELSE None]

Symmetric == Permutations(Handlers) \cup Permutations(Rows \ {r1}) \cup Permutations(People \ {ann})
=============================================================================
