----------------------------- MODULE MCFallbacks -----------------------------
(***************************************************************************)
(* Instances of Fallbacks for TLC: one of two organizations is seeded.     *)
(***************************************************************************)
EXTENDS Fallbacks, TLC

CONSTANTS o1, o2, x1

OneSeed == (o1 :> x1) @@ (o2 :> None)

Symmetric == Permutations(Options) \cup Permutations(Requests) \cup Permutations(Users)
=============================================================================
