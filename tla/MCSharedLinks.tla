---------------------------- MODULE MCSharedLinks ----------------------------
(***************************************************************************)
(* Instances of SharedLinks for TLC.                                       *)
(***************************************************************************)
EXTENDS SharedLinks, TLC

Symmetric == Permutations(Users) \cup Permutations(Keywords) \cup Permutations(Shares)
             \cup Permutations(Handlers)
===============================================================================
