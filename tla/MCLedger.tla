------------------------------ MODULE MCLedger ------------------------------
(* TLC instance of Ledger: four accounts with the signs and guards of      *)
(* CORE_ACCOUNTS, two sessions.                                             *)
EXTENDS LedgerInv, TLC

CONSTANTS Pool, Settlement, Cash, FrozenAcct, s1, s2, k1

MCAccount == {Pool, Settlement, Cash, FrozenAcct}
MCDebitNormal == {Settlement, Cash}
MCMayGoNegative == {Settlement, Cash}
MCUsable == {Pool, Settlement, Cash}
\* CASH_IN_HAND < FROZEN < SAVINGS_POOL < SETTLEMENT
MCPosition == Cash :> 1 @@ FrozenAcct :> 2 @@ Pool :> 3 @@ Settlement :> 4

Move(from, to, n) ==
  [a \in MCAccount |-> IF a = to THEN n ELSE IF a = from THEN -n ELSE 0]

\* A deposit, a withdrawal, a remittance of cash (whose accounts no guard keeps
\* from being reversed twice), an entry set that does not balance and one on an
\* account that is frozen.
MCEntries ==
  {Move(Pool, Settlement, 2), Move(Settlement, Pool, 1),
   Move(Cash, Settlement, 1),
   [Move(Pool, Settlement, 1) EXCEPT ![Cash] = 1],
   Move(FrozenAcct, Cash, 1)}
=============================================================================
