-------------------------------- MODULE Book --------------------------------
(***************************************************************************)
(* What apps/ledger promises its callers, as one atomic step per posting:  *)
(* the book is a set of numbered transactions that only grows, a balance   *)
(* per account moves by exactly the entries of the transaction posted, a   *)
(* key is used once, a transaction is reversed at most once and never if   *)
(* it is itself a reversal, and a guarded account never goes below zero.   *)
(* Module Ledger, which extends this one, implements it with row locks in  *)
(* many steps; balance and book there are the committed rows.              *)
(***************************************************************************)
EXTENDS Postings

VARIABLES
  balance,  \* balance projection of every account, LedgerAccount.balance
  book      \* the posted LedgerTransaction rows with their entries

BookInit ==
  /\ balance = [a \in Account |-> 0]
  /\ book = {}

Funded(legs) ==
  \A a \in Account \ MayGoNegative :
     legs[a] # 0 => balance[a] + Effect(legs, a) >= 0

\* A reversal undoes one posted transaction that is no reversal and has none.
MayReverse(t) ==
  /\ ReversalsOf(book, t.reverses) = {}
  /\ \E o \in book : /\ o.number = t.reverses
                     /\ o.reverses = NoTxn
                     /\ t.legs = Opposite(o.legs)

Post(t) ==
  /\ \A o \in book : o.number < t.number
  /\ t.key # NoKey => WithKey(book, t.key) = {}
  /\ Balanced(t.legs)
  /\ t.reverses # NoTxn => MayReverse(t)
  /\ Funded(t.legs)
  /\ balance' = [a \in Account |-> balance[a] + Effect(t.legs, a)]
  /\ book' = book \cup {t}

BookNext == \E t \in book' \ book : Post(t)

BookSpec == BookInit /\ [][BookNext]_<<balance, book>>
=============================================================================
