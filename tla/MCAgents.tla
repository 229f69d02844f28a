------------------------------ MODULE MCAgents ------------------------------
(* TLC instance of Agents: limits that two calls of one day can exceed     *)
(* together, a key of a client, and one that reads like the reference of   *)
(* the second transaction.                                                 *)
EXTENDS Agents, TLC

CONSTANT k1

MCAmounts == {1}
MCClientKey == {k1, 2}
Symmetry == Permutations(Worker)
=============================================================================
