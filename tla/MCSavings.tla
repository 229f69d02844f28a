----------------------------- MODULE MCSavings -----------------------------
(* TLC instance of Savings: a plan of two items and a goal, two payments    *)
(* for the plan, which overlap its items, and one for the goal.             *)
EXTENDS Savings, TLC

CONSTANTS w1, w2, m1, m2, g1

MCAmount == m1 :> 1 @@ m2 :> 3 @@ g1 :> 2
\* Reached when the payment is credited again.
MCTargets == {3}
Symmetry == Permutations(Worker)
=============================================================================
