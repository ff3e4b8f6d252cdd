------------------------------ MODULE MCSharing -----------------------------
EXTENDS Sharing, TLC

CONSTANTS ada, bob, cy, g1, g2, r1, r2, d1

MCOwner == (d1 :> ada)

MCSymmetry == Permutations({bob, cy}) \cup Permutations({g1, g2}) \cup Permutations({r1, r2})

=============================================================================
