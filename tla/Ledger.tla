------------------------------- MODULE Ledger -------------------------------
(***************************************************************************)
(* The posting engine of apps/ledger/services.py, run by several database  *)
(* sessions at once under READ COMMITTED.                                  *)
(*                                                                         *)
(* A session holds one request at a time and walks through                 *)
(* post_transaction: the unlocked idempotency read, validation, one        *)
(* SELECT ... FOR UPDATE per account in code order, the LED reference      *)
(* sequence row (core/references.py), the guarded writes, and the commit   *)
(* of the service that called it.  What it wrote is visible to the others  *)
(* only after Commit; Rollback may end it at any earlier point (an         *)
(* exception of the caller, a lost connection, a killed worker).           *)
(***************************************************************************)
EXTENDS Book

CONSTANTS
  Session,      \* database sessions: web workers and Celery workers
  Position,     \* place of every account code in sorted order
  Usable,       \* accounts that exist, are ACTIVE and hold the currency
  Entries,      \* the entry sets callers submit
  LedSequence,  \* the reference sequence row of prefix LED
  Nobody,       \* owner of a row nobody has locked
  MaxPostings   \* bound on the transactions posted or under way

ASSUME LedgerAssumption ==
  /\ Position \in [Account -> 1..Cardinality(Account)]
  /\ \A a, b \in Account : Position[a] = Position[b] => a = b
  /\ Usable \subseteq Account
  /\ Entries \subseteq Legs
  /\ LedSequence \notin Account
  /\ Nobody \notin Session
  /\ MaxPostings \in Nat

VARIABLES
  lastLed,  \* committed last_number of the LED reference sequence
  owner,    \* session that holds the lock of an account or sequence row
  pc,       \* where each session is in post_transaction
  request,  \* what it was asked to post
  seen,     \* balances on the account rows it read when it locked them
  drawn,    \* the reference number it drew
  result    \* number of the transaction its last call returned, or NoTxn

committed == <<balance, book, lastLed>>
vars == <<balance, book, lastLed, owner, pc, request, seen, drawn, result>>

Row == Account \cup {LedSequence}

Zero == [a \in Account |-> 0]
NoRequest == [key |-> NoKey, legs |-> Zero, reverses |-> NoTxn]
Request == [key : Key, legs : Legs, reverses : Nat]
Stages == {"idle", "keyRead", "validate", "locking", "numbered", "written"}

Init ==
  /\ balance = Zero
  /\ book = {}
  /\ lastLed = 0
  /\ owner = [r \in Row |-> Nobody]
  /\ pc = [p \in Session |-> "idle"]
  /\ request = [p \in Session |-> NoRequest]
  /\ seen = [p \in Session |-> Zero]
  /\ drawn = [p \in Session |-> 0]
  /\ result = [p \in Session |-> NoTxn]

Busy == {p \in Session : pc[p] # "idle"}
HasRoom == lastLed + Cardinality(Busy) < MaxPostings

Goto(p, stage) == pc' = [pc EXCEPT ![p] = stage]

\* Mutant: the connection goes back to the pool with its locks still held.
EndSessionLeaking(p, returned) ==
  /\ Goto(p, "idle")
  /\ seen' = [seen EXCEPT ![p] = Zero]
  /\ drawn' = [drawn EXCEPT ![p] = 0]
  /\ result' = [result EXCEPT ![p] = returned]
  /\ UNCHANGED owner

\* The database transaction of p ends: its row locks go, its reads with them.
EndSession(p, returned) ==
  /\ Goto(p, "idle")
  /\ owner' = [r \in Row |-> IF owner[r] = p THEN Nobody ELSE owner[r]]
  /\ seen' = [seen EXCEPT ![p] = Zero]
  /\ drawn' = [drawn EXCEPT ![p] = 0]
  /\ result' = [result EXCEPT ![p] = returned]

\* Mutant: a rollback does not take the number it drew back.
GiveUpKeepingNumber(p) ==
  /\ EndSession(p, NoTxn)
  /\ request' = [request EXCEPT ![p] = NoRequest]
  /\ lastLed' = IF drawn[p] = 0 THEN lastLed ELSE drawn[p]
  /\ UNCHANGED <<balance, book>>

\* An exception leaves the atomic block: nothing p wrote survives.
GiveUp(p) ==
  /\ EndSession(p, NoTxn)
  /\ request' = [request EXCEPT ![p] = NoRequest]
  /\ UNCHANGED committed

Begin(p, r) ==
  /\ pc[p] = "idle"
  /\ HasRoom
  /\ request' = [request EXCEPT ![p] = r]
  /\ result' = [result EXCEPT ![p] = NoTxn]
  /\ Goto(p, "keyRead")
  /\ UNCHANGED <<committed, owner, seen, drawn>>

\* A service calls post_transaction with a key of its own, or with none.
Submit(p) ==
  \E legs \in Entries, k \in {NoKey} \cup {Caller(c) : c \in CallerKey} :
    Begin(p, [key |-> k, legs |-> legs, reverses |-> NoTxn])

Reversible(t) ==
  /\ t.reverses = NoTxn
  /\ ReversalsOf(book, t.number) = {}

\* reverse_transaction reads the target and its reversals without a lock and,
\* unless it refuses, posts the opposite entries under the default key.
SubmitReversal(p) ==
  \E t \in book :
    /\ Reversible(t)
    /\ Begin(p, [key |-> ReversalKey(t.number), legs |-> Opposite(t.legs),
                 reverses |-> t.number])

\* Mutant: a replay is not compared with what was stored.
SameEffectAssumed(p, t) == TRUE

\* The stored fingerprint equals the one of the request.
SameEffect(p, t) == t.legs = request[p].legs

\* The unlocked idempotency read: an existing transaction is returned if its
\* fingerprint matches and is a conflict otherwise.
ReadKey(p) ==
  /\ pc[p] = "keyRead"
  /\ LET key == request[p].key
         existing == IF key = NoKey THEN {} ELSE WithKey(book, key)
     IN \/ /\ existing = {}
           /\ Goto(p, "validate")
           /\ UNCHANGED <<committed, owner, request, seen, drawn, result>>
        \/ \E t \in existing :
             /\ SameEffect(p, t)
             /\ EndSession(p, t.number)
             /\ UNCHANGED <<committed, request>>
        \/ /\ \E t \in existing : ~SameEffect(p, t)
           /\ GiveUp(p)

NotYetReversed(p) ==
  request[p].reverses # NoTxn => ReversalsOf(book, request[p].reverses) = {}

Valid(p) == Balanced(request[p].legs) /\ NotYetReversed(p)

\* validate_balance, and the second unlocked look at the reversals.
Validate(p) ==
  /\ pc[p] = "validate"
  /\ \/ /\ Valid(p)
        /\ Goto(p, "locking")
        /\ UNCHANGED <<committed, owner, request, seen, drawn, result>>
     \/ ~Valid(p) /\ GiveUp(p)

\* The accounts p has still to lock, and the one whose turn it is.
ToLock(p) == {a \in Touched(request[p].legs) : owner[a] # p}

\* Mutant: accounts are locked in the order of the entries, which differs
\* from caller to caller, instead of sorted by code.
NextToLockUnsorted(p, a) == a \in ToLock(p)

NextToLock(p, a) ==
  /\ a \in ToLock(p)
  /\ \A b \in ToLock(p) : Position[a] <= Position[b]

\* Mutant: the rows are read without FOR UPDATE.
RowIsFreeUnlocked(r) == TRUE

RowIsFree(r) == owner[r] = Nobody

\* SELECT ... FOR UPDATE of the next account waits for its owner and then
\* reads the committed row.
LockAccount(p) ==
  /\ pc[p] = "locking"
  /\ \E a \in Account :
       /\ NextToLock(p, a)
       /\ RowIsFree(a)
       /\ \/ /\ a \in Usable
             /\ owner' = [owner EXCEPT ![a] = p]
             /\ seen' = [seen EXCEPT ![p][a] = balance[a]]
             /\ UNCHANGED <<committed, pc, request, drawn, result>>
          \/ a \notin Usable /\ GiveUp(p)

\* Mutant: the counter runs the wrong way.
NextNumberBackwards == lastLed - 1

NextNumber == lastLed + 1

\* next_reference("LED") locks the sequence row; the increment becomes
\* visible, or is undone, with the posting.
DrawReference(p) ==
  /\ pc[p] = "locking"
  /\ ToLock(p) = {}
  /\ RowIsFree(LedSequence)
  /\ owner' = [owner EXCEPT ![LedSequence] = p]
  /\ drawn' = [drawn EXCEPT ![p] = NextNumber]
  /\ Goto(p, "numbered")
  /\ UNCHANGED <<committed, request, seen, result>>

\* Mutant: balances are projected without the guard.
StaysFundedUnchecked(p) == TRUE

\* _apply_to_balance on the locked rows.
StaysFunded(p) ==
  \A a \in Touched(request[p].legs) :
    a \in MayGoNegative \/ seen[p][a] + Effect(request[p].legs, a) >= 0

\* Mutant: no unique index, only the unlocked read of ReadKey.
KeyIsFreeUnchecked(p) == TRUE

\* The unique index on idempotency_key, which lets the empty key repeat.
KeyIsFree(p) ==
  request[p].key # NoKey => WithKey(book, request[p].key) = {}

CanWrite(p) == StaysFunded(p) /\ KeyIsFree(p)

Write(p) ==
  /\ pc[p] = "numbered"
  /\ \/ /\ CanWrite(p)
        /\ Goto(p, "written")
        /\ UNCHANGED <<committed, owner, request, seen, drawn, result>>
     \/ ~CanWrite(p) /\ GiveUp(p)

Commit(p) ==
  /\ pc[p] = "written"
  /\ LET r == request[p]
     IN /\ balance' = [a \in Account |->
                         IF a \in Touched(r.legs)
                         THEN seen[p][a] + Effect(r.legs, a) ELSE balance[a]]
        /\ book' = book \cup {[number |-> drawn[p], key |-> r.key,
                               legs |-> r.legs, reverses |-> r.reverses]}
  /\ lastLed' = drawn[p]
  /\ EndSession(p, drawn[p])
  /\ UNCHANGED request

Rollback(p) == pc[p] # "idle" /\ GiveUp(p)

Step(p) ==
  ReadKey(p) \/ Validate(p) \/ LockAccount(p) \/ DrawReference(p)
    \/ Write(p) \/ Commit(p)

Next ==
  \E p \in Session :
    \/ Submit(p) \/ SubmitReversal(p)
    \/ ReadKey(p) \/ Validate(p) \/ LockAccount(p) \/ DrawReference(p)
    \/ Write(p) \/ Commit(p)
    \/ Rollback(p)

\* A session that can run does; PostgreSQL grants a row lock that keeps
\* becoming free to every session that waits for it.
Fairness == \A p \in Session : SF_vars(Step(p))

Spec == Init /\ [][Next]_vars
FairSpec == Spec /\ Fairness
-----------------------------------------------------------------------------
(***************************************************************************)
(* Properties.                                                             *)
(***************************************************************************)
TypeOK ==
  /\ balance \in [Account -> Int]
  /\ book \subseteq Transaction
  /\ lastLed \in Nat
  /\ owner \in [Row -> Session \cup {Nobody}]
  /\ pc \in [Session -> Stages]
  /\ request \in [Session -> Request]
  /\ seen \in [Session -> [Account -> Int]]
  /\ drawn \in [Session -> Nat]
  /\ result \in [Session -> Nat]

\* The balance every account row carries is what its entries add up to: what
\* verify_balances and computed_balance check (no posting is lost or counted
\* twice however the sessions interleave).
NoDrift ==
  \A a \in Account :
    balance[a] = SumFunction([t \in book |-> Effect(t.legs, a)])

\* Accounts without allow_negative never go below zero (_apply_to_balance),
\* even when two withdrawals that each would fit race.
GuardedNonNegative == \A a \in Account \ MayGoNegative : balance[a] >= 0

\* An idempotency key names at most one transaction: a retry that races the
\* original never moves the money twice.
KeyUsedOnce ==
  \A t, u \in book : t.key = u.key /\ t.key # NoKey => t = u

\* Under the default key a transaction is reversed at most once, whatever two
\* operators do at the same time (reverse_transaction).
ReversedOnce ==
  \A t, u \in book :
    t.reverses = u.reverses /\ t.reverses # NoTxn => t = u

\* Neither a key nor a reversal moves the money twice.
NothingTwice == KeyUsedOnce /\ ReversedOnce

\* A reversal is the exact opposite of what it reverses, which is posted and
\* no reversal itself (reverse_transaction; part of ImplementsBook).
ReversalUndoes ==
  \A t \in book : t.reverses # NoTxn =>
    \E o \in book : /\ o.number = t.reverses
                    /\ o.reverses = NoTxn
                    /\ t.legs = Opposite(o.legs)

\* References are unique and leave no gap: a rollback takes its number back.
GaplessReferences ==
  /\ \A t \in book : t.number \in 1..lastLed
  /\ \A n \in 1..lastLed : \E t \in book : t.number = n
  /\ \A t, u \in book : t.number = u.number => t = u

\* A call that returned a transaction is told of one that is committed and
\* moves what this call asked for, also when it was replayed.
AcknowledgedIsPosted ==
  \A p \in Session :
    result[p] # NoTxn =>
      \E t \in book : /\ t.number = result[p]
                      /\ t.key = request[p].key
                      /\ t.legs = request[p].legs

\* p waits for a row that q holds.
Waits(p, q) ==
  /\ pc[p] = "locking"
  /\ \/ \E a \in Account : NextToLock(p, a) /\ owner[a] = q
     \/ ToLock(p) = {} /\ owner[LedSequence] = q
  /\ p # q

\* Locks taken in code order, the sequence last, never make sessions wait for
\* each other in a circle.
NoWaitCycle ==
  \A S \in SUBSET Session :
    S # {} => \E p \in S : \A q \in S : ~Waits(p, q)

\* Every call returns, by a commit or an exception.
EveryCallReturns == \A p \in Session : pc[p] # "idle" ~> pc[p] = "idle"

\* What other sessions can see, the committed rows, is the atomic Book.
ImplementsBook == BookSpec
=============================================================================
