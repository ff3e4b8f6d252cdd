------------------------------ MODULE MCReview ------------------------------
(***************************************************************************)
(* Model checking instance of Review.                                      *)
(***************************************************************************)
EXTENDS Review, TLC

Symmetry ==
  Permutations(Reviewers) \cup Permutations(Asks) \cup Permutations(Submissions)
=============================================================================
