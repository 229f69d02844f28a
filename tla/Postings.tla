------------------------------ MODULE Postings ------------------------------
(***************************************************************************)
(* The vocabulary of the double-entry ledger of apps/ledger: accounts with *)
(* a natural balance sign, the legs of a transaction, idempotency keys and *)
(* the transaction rows.  It has no state: Book (what the ledger promises) *)
(* and Ledger (how the posting engine does it) both extend it.             *)
(*                                                                         *)
(* Legs are a function from account to net debit in minor units: a debit   *)
(* entry is positive, a credit entry negative, zero means the account has  *)
(* no entry.  Every caller in the repository names an account at most once *)
(* per transaction, so nothing is lost by it.                              *)
(***************************************************************************)
EXTENDS Integers, FiniteSets, FiniteSetsExt

CONSTANTS
  Account,       \* ledger account codes
  DebitNormal,   \* the ASSET and EXPENSE accounts among them
  MayGoNegative, \* the accounts with allow_negative
  CallerKey      \* idempotency keys callers choose, the reversal keys excepted

ASSUME AccountAssumption ==
  /\ IsFiniteSet(Account)
  /\ DebitNormal \subseteq Account
  /\ MayGoNegative \subseteq Account

Legs == [Account -> Int]

\* The accounts a transaction has an entry on.
Touched(legs) == {a \in Account : legs[a] # 0}

\* Debits equal credits and something moves.
Balanced(legs) ==
  /\ Touched(legs) # {}
  /\ SumFunction(legs) = 0

\* The entries of a compensating transaction: every direction swapped.
Opposite(legs) == [a \in Account |-> 0 - legs[a]]

\* Effect of the legs on the natural balance of account a.
Effect(legs, a) == IF a \in DebitNormal THEN legs[a] ELSE 0 - legs[a]

\* A transaction that is no reversal reverses transaction number NoTxn.
NoTxn == 0

\* Idempotency keys.  The empty key is never compared.
NoKey == <<"none", NoTxn>>
Caller(k) == <<"caller", k>>

\* The default key of a reversal names the transaction it reverses.
ReversalKey(number) == <<"reversal", number>>
Key == {NoKey} \cup ({"caller"} \X CallerKey) \cup ({"reversal"} \X Nat)

\* A posted transaction row: the number in its reference, its key, its
\* entries, and the number of the transaction it reverses.
Transaction == [number : Nat, key : Key, legs : Legs, reverses : Nat]

WithKey(rows, k) == {t \in rows : t.key = k}
ReversalsOf(rows, n) == {t \in rows : t.reverses = n}
=============================================================================
