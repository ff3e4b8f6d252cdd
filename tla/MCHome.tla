------------------------------- MODULE MCHome ------------------------------
EXTENDS Home, TLC

CONSTANTS p1, f1, c1, c2, r1, r2

MCSymmetry == Permutations({c1, c2}) \cup Permutations({r1, r2})

=============================================================================
