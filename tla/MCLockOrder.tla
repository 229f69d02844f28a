----------------------------- MODULE MCLockOrder ----------------------------
(* TLC instance of LockOrder: with two subjects, services can meet on the   *)
(* same agent, plan and payment or on the shared rows only.                 *)
EXTENDS LockOrder

CONSTANTS p1, p2, x1, x2
=============================================================================
