--------------------------- MODULE MCSuggestions ----------------------------
(***************************************************************************)
(* Model checking instance of Suggestions.                                 *)
(***************************************************************************)
EXTENDS Suggestions, DocDiff, TLC

Symmetry ==
  Permutations(Comments) \cup Permutations(Deciders) \cup Permutations(Readers)
=============================================================================
