------------------------------ MODULE MCViewer -----------------------------
EXTENDS Viewer, Anchors, TLC

CONSTANTS t1, t2, r1, r2

MCSymmetry == Permutations({t1, t2}) \cup Permutations({r1, r2})

=============================================================================
