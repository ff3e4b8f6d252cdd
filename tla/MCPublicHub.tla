---------------------------- MODULE MCPublicHub -----------------------------
(***************************************************************************)
(* Model checking instance of PublicHub.                                   *)
(***************************************************************************)
EXTENDS PublicHub, Tiers, TLC

Symmetry == Permutations(Requests) \cup Permutations(Contents) \cup Permutations(Publishers)
=============================================================================
