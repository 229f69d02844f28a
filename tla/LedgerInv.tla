----------------------------- MODULE LedgerInv -----------------------------
(***************************************************************************)
(* The inductive invariant of the posting engine.  None of the safety      *)
(* properties of Ledger is inductive by itself: each rests on what a       *)
(* session between two of its steps may count on.                          *)
(***************************************************************************)
EXTENDS Ledger

Holding == {"numbered", "written"}

\* Which row locks a session holds at each stage: accounts of its own
\* request only, in code order, and the sequence row last of all.
LockInv ==
  /\ \A p \in Session, r \in Row :
       owner[r] = p => pc[p] \in {"locking"} \cup Holding
  /\ \A p \in Session, a \in Account :
       owner[a] = p => a \in Touched(request[p].legs)
  /\ \A p \in Session, a, b \in Account :
       owner[a] = p /\ b \in ToLock(p) => Position[a] < Position[b]
  /\ \A p \in Session : owner[LedSequence] = p <=> pc[p] \in Holding
  /\ \A p \in Session : pc[p] \in Holding => ToLock(p) = {}

\* What was read under a lock still is what the row holds.
ReadInv ==
  /\ \A p \in Session, a \in Account : owner[a] = p => seen[p][a] = balance[a]
  /\ \A p \in Session : pc[p] \in Holding => drawn[p] = lastLed + 1

\* A request or a row is a reversal exactly as its key says, of a posted
\* transaction that is not itself a reversal.
Reverses(r) ==
  IF r.reverses = NoTxn
  THEN r.key = NoKey \/ \E c \in CallerKey : r.key = Caller(c)
  ELSE /\ r.key = ReversalKey(r.reverses)
       /\ \E o \in book : /\ o.number = r.reverses
                          /\ o.reverses = NoTxn
                          /\ r.legs = Opposite(o.legs)

RequestInv ==
  /\ \A p \in Session : Reverses(request[p])
  /\ \A t \in book : Reverses(t)
  /\ \A p \in Session :
       pc[p] \in {"locking"} \cup Holding => Balanced(request[p].legs)

\* Between the writes and the commit nothing can take the key or the funds.
WriteInv == \A p \in Session : pc[p] = "written" => CanWrite(p)

IInv ==
  /\ LockInv
  /\ ReadInv
  /\ RequestInv
  /\ WriteInv
  /\ KeyUsedOnce
  /\ GaplessReferences
  /\ GuardedNonNegative
  /\ AcknowledgedIsPosted
=============================================================================
