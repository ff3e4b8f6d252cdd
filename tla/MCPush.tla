------------------------------- MODULE MCPush -------------------------------
(***************************************************************************)
(* Model checking instances of Push.                                       *)
(***************************************************************************)
EXTENDS Push, TLC

CONSTANTS w, m, n, f1, c1, c2

\* A changed file is noticed; what else happens is left to the beginnings.
Noticed == [disk |-> [f \in Paths |-> c1], noticed |-> Paths, procs |-> {w, m},
            edits |-> 1, others |-> 1, faults |-> 1]

\* The watcher and two pushes, of which one may die, leave or fail.
Crowded == [Noticed EXCEPT !.procs = Procs, !.edits = 0, !.others = 0]

MCBeginnings == {Noticed, Crowded}
=============================================================================
