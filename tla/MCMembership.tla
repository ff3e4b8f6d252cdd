---------------------------- MODULE MCMembership ---------------------------
EXTENDS Membership, TLC

CONSTANTS ada, cy, dan, gus, i1, c1, c2

MCSymmetry == Permutations({c1, c2})

=============================================================================
