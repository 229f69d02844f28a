-------------------------------- MODULE Debt --------------------------------
(***************************************************************************)
(* What lending promises, whatever officers, customers and payments do at  *)
(* the same time: an application leads to one loan at most, on terms its   *)
(* customer has agreed to, and the debt falls only by repayments, each     *)
(* counted once and never below nothing.  Module Loans implements it.      *)
(***************************************************************************)
EXTENDS Integers, FiniteSetsExt

CONSTANTS
  Application,  \* loan applications
  Payment,      \* repayments customers make
  Worth         \* what each is worth, in minor units

VARIABLES
  agreed,   \* the debts the customer of an application has agreed to
  lent,     \* applications that led to a loan
  owed,     \* what is owed on each
  credited  \* repayments that were counted

terms == <<agreed, lent, owed, credited>>

DebtInit ==
  /\ agreed = [a \in Application |-> {}]
  /\ lent = {}
  /\ owed = [a \in Application |-> 0]
  /\ credited = {}

Agree(a) ==
  /\ agreed[a] \subseteq agreed'[a]
  /\ \A b \in Application \ {a} : agreed'[b] = agreed[b]
  /\ UNCHANGED <<lent, owed, credited>>

Lend(a) ==
  /\ a \notin lent
  /\ lent' = lent \cup {a}
  /\ \E debt \in agreed[a] : owed' = [owed EXCEPT ![a] = debt]
  /\ UNCHANGED <<agreed, credited>>

Repay(a, m) ==
  /\ a \in lent
  /\ owed[a] > 0
  /\ m \notin credited
  /\ credited' = credited \cup {m}
  /\ owed' = [owed EXCEPT ![a] = Max({0, @ - Worth[m]})]
  /\ UNCHANGED <<agreed, lent>>

DebtNext ==
  \E a \in Application : Agree(a) \/ Lend(a) \/ \E m \in Payment : Repay(a, m)

DebtSpec == DebtInit /\ [][DebtNext]_terms
=============================================================================
