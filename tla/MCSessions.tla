----------------------------- MODULE MCSessions ----------------------------
EXTENDS Sessions, TLC

CONSTANTS r1, r2, s1, s2

MCSymmetry == Permutations({r1, r2}) \cup Permutations({s1, s2})

=============================================================================
