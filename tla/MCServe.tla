------------------------------ MODULE MCServe -------------------------------
(* The processes of a machine: any of them may be a serve start or an open.  *)
EXTENDS Serve, TLC

CONSTANTS p1, p2, x1
=============================================================================
