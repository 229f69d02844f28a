------------------------------ MODULE MCLoans ------------------------------
(* TLC instance of Loans: principals that leave remainders of principal and *)
(* interest over two and three months at 48 percent, payments that leave an *)
(* instalment half paid and that pay more than is owed.                     *)
EXTENDS Loans, TLC

CONSTANTS m1, m2, m3

MCPrincipals == {5012, 7019}
MCTerms == {2, 3}
MCWorth == m1 :> 1500 @@ m2 :> 6000 @@ m3 :> 2500

\* What the theorems of LoansProofs take of the amounts, terms and rate.
ASSUME MCAmounts == EveryLineAsks /\ SchedulesAreLevel

Symmetry == Permutations(Worker)
=============================================================================
