----------------------------- MODULE Permission -----------------------------
(***************************************************************************)
(* What a grant may carry: read < comment < share < edit.  Managing a      *)
(* document is not on this lattice.                                        *)
(***************************************************************************)
EXTENDS Integers

Permissions == {"read", "comment", "share", "edit"}

rank == [read |-> 0, comment |-> 1, share |-> 2, edit |-> 3]

permits(own, required) == rank[own] >= rank[required]

\* The highest of a set of permissions that is not empty.
highest(own) == CHOOSE p \in own : \A q \in own : permits(p, q)

canDelegate(own, requested) == permits(own, requested)

isGuestGrantable(p) == p \in {"read", "comment"}

isLinkGrantable(p) == p \in {"read", "comment"}

=============================================================================
