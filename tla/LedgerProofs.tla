---------------------------- MODULE LedgerProofs ----------------------------
(***************************************************************************)
(* Machine-checked proofs about module Ledger, for any finite set of       *)
(* accounts and any sets of sessions, keys and entry sets.                 *)
(***************************************************************************)
EXTENDS LedgerInv, WellFoundedInduction, SumTheorems

\* The opposite of legs are legs.
LEMMA OppositeIsLegs ==
  ASSUME NEW legs \in Legs
  PROVE  Opposite(legs) \in Legs
  BY DEF Opposite, Legs

\* Every account is moved by a number.
LEMMA EffectIsInt ==
  ASSUME NEW legs \in Legs, NEW a \in Account
  PROVE  Effect(legs, a) \in Int
  BY DEF Effect, Legs

\* Callers' keys, default keys of reversals and the missing key are keys.
LEMMA KeysAreKeys ==
  /\ NoKey \in Key
  /\ \A k \in CallerKey : Caller(k) \in Key
  /\ \A n \in Nat : ReversalKey(n) \in Key
  BY DEF Key, NoKey, Caller, ReversalKey

\* No movement at all is legs too.
LEMMA ZeroIsLegs == Zero \in Legs /\ Zero \in [Account -> Int]
  BY DEF Zero, Legs

\* A session that gives up keeps the types.
LEMMA GiveUpType ==
  ASSUME TypeOK, NEW p \in Session, GiveUp(p)
  PROVE  TypeOK'
  <1>1. NoRequest \in Request
    BY ZeroIsLegs, KeysAreKeys DEF NoRequest, Request, NoTxn
  <1>. QED
    BY <1>1, ZeroIsLegs
    DEF TypeOK, GiveUp, EndSession, Goto, committed, Stages, NoTxn

(* Every variable keeps its type. *)
THEOREM TypeCorrect == Spec => []TypeOK
<1>1. Init => TypeOK
  <2>1. NoRequest \in Request
    BY ZeroIsLegs, KeysAreKeys DEF NoRequest, Request, NoTxn
  <2>. QED
    BY <2>1, ZeroIsLegs DEF Init, TypeOK, Stages, NoTxn
<1>2. ASSUME TypeOK, [Next]_vars PROVE TypeOK'
  <2>. USE <1>2
  <2>1. ASSUME NEW p \in Session, NEW r \in Request, Begin(p, r)
        PROVE  TypeOK'
    BY <2>1 DEF TypeOK, Begin, Goto, committed, Stages, NoTxn
  <2>2. ASSUME NEW p \in Session, Submit(p) PROVE TypeOK'
    <3>1. PICK legs \in Entries, k \in {NoKey} \cup {Caller(c) : c \in CallerKey} :
            Begin(p, [key |-> k, legs |-> legs, reverses |-> NoTxn])
      BY <2>2 DEF Submit
    <3>2. [key |-> k, legs |-> legs, reverses |-> NoTxn] \in Request
      BY KeysAreKeys, LedgerAssumption DEF Request, NoTxn
    <3>. QED BY <2>1, <3>1, <3>2
  <2>3. ASSUME NEW p \in Session, SubmitReversal(p) PROVE TypeOK'
    <3>1. PICK t \in book :
            Begin(p, [key |-> ReversalKey(t.number), legs |-> Opposite(t.legs),
                      reverses |-> t.number])
      BY <2>3 DEF SubmitReversal, Reversible
    <3>2. t.number \in Nat /\ t.legs \in Legs
      BY DEF TypeOK, Transaction
    <3>3. [key |-> ReversalKey(t.number), legs |-> Opposite(t.legs),
           reverses |-> t.number] \in Request
      BY <3>2, KeysAreKeys, OppositeIsLegs DEF Request
    <3>. QED BY <2>1, <3>1, <3>3
  <2>4. ASSUME NEW p \in Session, ReadKey(p) PROVE TypeOK'
    <3>1. CASE GiveUp(p)
      BY <3>1, GiveUpType
    <3>2. CASE \E t \in book : EndSession(p, t.number) /\ UNCHANGED <<committed, request>>
      BY <3>2, ZeroIsLegs
      DEF TypeOK, EndSession, Goto, committed, Stages, Transaction
    <3>3. CASE Goto(p, "validate") /\ UNCHANGED <<committed, owner, request, seen, drawn, result>>
      BY <3>3 DEF TypeOK, Goto, committed, Stages
    <3>. QED BY <2>4, <3>1, <3>2, <3>3 DEF ReadKey, SameEffect, WithKey
  <2>5. ASSUME NEW p \in Session, Validate(p) PROVE TypeOK'
    BY <2>5, GiveUpType DEF Validate, TypeOK, Goto, committed, Stages
  <2>6. ASSUME NEW p \in Session, LockAccount(p) PROVE TypeOK'
    BY <2>6, GiveUpType DEF LockAccount, RowIsFree, TypeOK, committed, Row
  <2>7. ASSUME NEW p \in Session, DrawReference(p) PROVE TypeOK'
    BY <2>7 DEF DrawReference, RowIsFree, NextNumber, TypeOK, Goto, committed, Row, Stages
  <2>8. ASSUME NEW p \in Session, Write(p) PROVE TypeOK'
    BY <2>8, GiveUpType DEF Write, TypeOK, Goto, committed, Stages
  <2>9. ASSUME NEW p \in Session, Commit(p) PROVE TypeOK'
    <3>1. request[p].key \in Key /\ request[p].legs \in Legs /\ request[p].reverses \in Nat
      BY DEF TypeOK, Request
    <3>2. book' \subseteq Transaction
      BY <2>9, <3>1 DEF Commit, TypeOK, Transaction
    <3>3. balance' \in [Account -> Int]
      BY <2>9, <3>1, EffectIsInt DEF Commit, TypeOK
    <3>. QED
      BY <2>9, <3>2, <3>3, ZeroIsLegs
      DEF Commit, EndSession, Goto, TypeOK, Stages
  <2>10. ASSUME NEW p \in Session, Rollback(p) PROVE TypeOK'
    BY <2>10, GiveUpType DEF Rollback
  <2>11. CASE UNCHANGED vars
    BY <2>11 DEF vars, TypeOK
  <2>. QED
    BY <2>2, <2>3, <2>4, <2>5, <2>6, <2>7, <2>8, <2>9, <2>10, <2>11 DEF Next
<1>. QED BY <1>1, <1>2, PTL DEF Spec
-----------------------------------------------------------------------------
(***************************************************************************)
(* The locking discipline.                                                 *)
(***************************************************************************)
LEMMA EndKeepsLocks ==
  ASSUME TypeOK, LockInv, NEW p \in Session, NEW n, EndSession(p, n),
         \A q \in Session \ {p} : request'[q] = request[q]
  PROVE  LockInv'
  <1>1. \A r \in Row : owner'[r] # p
    BY LedgerAssumption DEF EndSession, TypeOK
  <1>2. \A q \in Session \ {p} :
          /\ pc'[q] = pc[q]
          /\ request'[q] = request[q]
          /\ \A r \in Row : owner'[r] = q <=> owner[r] = q
    BY LedgerAssumption DEF EndSession, Goto, TypeOK
  <1>3. pc'[p] = "idle"
    BY DEF EndSession, Goto, TypeOK
  <1>4. \A q \in Session \ {p} : ToLock(q)' = ToLock(q)
    BY <1>2 DEF ToLock, Row, Touched
  <1>. QED
    BY <1>1, <1>2, <1>3, <1>4 DEF LockInv, Holding, Row

\* Steps that take no lock: p goes from one unlocked stage to another.
LEMMA UnlockedStageKeepsLocks ==
  ASSUME TypeOK, LockInv, NEW p \in Session,
         pc[p] \in {"idle", "keyRead", "validate"},
         pc' = [pc EXCEPT ![p] = pc'[p]],
         pc'[p] \in {"keyRead", "validate", "locking"},
         UNCHANGED owner,
         \A q \in Session \ {p} : request'[q] = request[q]
  PROVE  LockInv'
  <1>1. \A r \in Row : owner[r] # p
    BY DEF LockInv, Holding
  <1>2. \A q \in Session \ {p} : pc'[q] = pc[q]
    BY DEF TypeOK
  <1>3. \A q \in Session \ {p} : ToLock(q)' = ToLock(q)
    BY DEF ToLock, Touched
  <1>. QED
    BY <1>1, <1>2, <1>3 DEF LockInv, Holding, Row, Touched

\* Locking the next account keeps the order of locks.
LEMMA LockAccountKeepsLocks ==
  ASSUME TypeOK, LockInv, NEW p \in Session, LockAccount(p)
  PROVE  LockInv'
  <1>1. CASE GiveUp(p)
    BY <1>1, EndKeepsLocks DEF GiveUp, TypeOK
  <1>2. ASSUME NEW a \in Account, NextToLock(p, a), owner[a] = Nobody,
               owner' = [owner EXCEPT ![a] = p], UNCHANGED <<pc, request>>
        PROVE  LockInv'
    <2>. USE <1>2
    <2>1. a \in Row /\ a # LedSequence /\ pc[p] = "locking"
      BY LedgerAssumption DEF Row, LockAccount, RowIsFree
    <2>2. \A r \in Row : owner'[r] = IF r = a THEN p ELSE owner[r]
      BY DEF TypeOK
    <2>3. ToLock(p)' = ToLock(p) \ {a}
      BY <2>2 DEF ToLock, Row, Touched
    <2>4. \A q \in Session \ {p} : ToLock(q)' = ToLock(q)
      BY <2>2, LedgerAssumption DEF ToLock, Row, Touched
    <2>5. a \in Touched(request[p].legs)
      BY DEF NextToLock, ToLock
    <2>6. \A b \in ToLock(p)' : Position[a] < Position[b]
      BY <2>3, LedgerAssumption DEF NextToLock, ToLock, Touched
    <2>7. \A q \in Session, b, c \in Account :
            owner'[b] = q /\ c \in ToLock(q)' => Position[b] < Position[c]
      BY <2>2, <2>3, <2>4, <2>6 DEF LockInv, Row
    <2>8. \A q \in Session, r \in Row :
            owner'[r] = q => pc'[q] \in {"locking"} \cup Holding
      BY <2>1, <2>2 DEF LockInv
    <2>9. \A q \in Session, b \in Account :
            owner'[b] = q => b \in Touched(request'[q].legs)
      BY <2>2, <2>5 DEF LockInv, Row
    <2>10. \A q \in Session : owner'[LedSequence] = q <=> pc'[q] \in Holding
      BY <2>1, <2>2 DEF LockInv, Row
    <2>11. \A q \in Session : pc'[q] \in Holding => ToLock(q)' = {}
      BY <2>1, <2>4 DEF LockInv, Holding
    <2>. QED BY <2>7, <2>8, <2>9, <2>10, <2>11 DEF LockInv
  <1>. QED BY <1>1, <1>2 DEF LockAccount, RowIsFree

\* Drawing a reference comes after every account.
LEMMA DrawKeepsLocks ==
  ASSUME TypeOK, LockInv, NEW p \in Session, DrawReference(p)
  PROVE  LockInv'
  <1>1. \A r \in Row : owner'[r] = IF r = LedSequence THEN p ELSE owner[r]
    BY DEF DrawReference, RowIsFree, NextNumber, TypeOK
  <1>2. \A q \in Session : pc'[q] = IF q = p THEN "numbered" ELSE pc[q]
    BY DEF DrawReference, RowIsFree, NextNumber, Goto, TypeOK
  <1>3. \A q \in Session : ToLock(q)' = ToLock(q)
    BY <1>1, LedgerAssumption
    DEF DrawReference, RowIsFree, NextNumber, ToLock, Row, Touched
  <1>4. \A a \in Account : owner'[a] = owner[a]
    BY <1>1, LedgerAssumption DEF Row
  <1>5. owner[LedSequence] = Nobody /\ ToLock(p) = {} /\ request' = request
    BY DEF DrawReference, RowIsFree, NextNumber
  <1>6. owner'[LedSequence] = p
    BY <1>1 DEF Row
  <1>. QED
    BY <1>1, <1>2, <1>3, <1>4, <1>5, <1>6, LedgerAssumption
    DEF LockInv, Holding, Row

(* Locks are held as LockInv says: an account is locked only by a session  *)
(* that posts to it, in code order, the sequence row last.                 *)
THEOREM LockDiscipline == Spec => []LockInv
<1>1. Init => LockInv
  BY LedgerAssumption DEF Init, LockInv, Holding, Row, ToLock
<1>2. ASSUME TypeOK, LockInv, [Next]_vars PROVE LockInv'
  <2>. USE <1>2
  <2>1. ASSUME NEW p \in Session, Submit(p) \/ SubmitReversal(p) PROVE LockInv'
    <3>1. PICK r : Begin(p, r)
      BY <2>1 DEF Submit, SubmitReversal, Reversible
    <3>. QED
      BY <3>1, UnlockedStageKeepsLocks DEF Begin, Goto, TypeOK
  <2>2. ASSUME NEW p \in Session, ReadKey(p) PROVE LockInv'
    <3>1. CASE GiveUp(p)
      BY <3>1, EndKeepsLocks DEF GiveUp, TypeOK
    <3>2. CASE \E t \in book : EndSession(p, t.number) /\ UNCHANGED <<committed, request>>
      BY <3>2, EndKeepsLocks
    <3>3. CASE pc[p] = "keyRead" /\ Goto(p, "validate") /\ UNCHANGED <<owner, request>>
      BY <3>3, UnlockedStageKeepsLocks DEF Goto, TypeOK
    <3>. QED BY <2>2, <3>1, <3>2, <3>3 DEF ReadKey, SameEffect, WithKey
  <2>3. ASSUME NEW p \in Session, Validate(p) PROVE LockInv'
    <3>1. CASE GiveUp(p)
      BY <3>1, EndKeepsLocks DEF GiveUp, TypeOK
    <3>2. CASE pc[p] = "validate" /\ Goto(p, "locking") /\ UNCHANGED <<owner, request>>
      BY <3>2, UnlockedStageKeepsLocks DEF Goto, TypeOK
    <3>. QED BY <2>3, <3>1, <3>2 DEF Validate, Valid, NotYetReversed
  <2>4. ASSUME NEW p \in Session, Write(p) PROVE LockInv'
    <3>1. CASE GiveUp(p)
      BY <3>1, EndKeepsLocks DEF GiveUp, TypeOK
    <3>2. CASE pc[p] = "numbered" /\ Goto(p, "written") /\ UNCHANGED <<owner, request>>
      BY <3>2 DEF LockInv, Goto, TypeOK, Holding, ToLock
    <3>. QED BY <2>4, <3>1, <3>2 DEF Write
  <2>5. ASSUME NEW p \in Session, Commit(p) PROVE LockInv'
    BY <2>5, EndKeepsLocks DEF Commit
  <2>6. ASSUME NEW p \in Session, Rollback(p) PROVE LockInv'
    BY <2>6, EndKeepsLocks DEF Rollback, GiveUp, TypeOK
  <2>7. CASE UNCHANGED vars
    BY <2>7 DEF vars, LockInv, ToLock
  <2>. QED
    BY <2>1, <2>2, <2>3, LockAccountKeepsLocks, DrawKeepsLocks, <2>4, <2>5,
       <2>6, <2>7 DEF Next
<1>. QED BY <1>1, <1>2, TypeCorrect, PTL DEF Spec

\* Whoever waits for an account waits for a session that, if it waits too,
\* waits for an account later in code order.
LEMMA WaitsGoUp ==
  ASSUME TypeOK, LockInv, NEW S \in SUBSET Session,
         \A p \in S : \E q \in S : Waits(p, q)
  PROVE  \A p \in S : \E q \in S, a, b \in Account :
           NextToLock(p, a) /\ NextToLock(q, b) /\ Position[a] < Position[b]
  <1>1. \A p \in S : pc[p] = "locking"
    BY DEF Waits
  <1>2. \A p \in S : owner[LedSequence] # p
    BY <1>1 DEF LockInv, Holding
  <1>3. \A p \in S : \E q \in S, a \in Account : NextToLock(p, a) /\ owner[a] = q
    BY <1>2 DEF Waits
  <1>. TAKE p \in S
  <1>4. PICK q \in S, a \in Account : NextToLock(p, a) /\ owner[a] = q
    BY <1>3
  <1>5. PICK b \in Account : NextToLock(q, b)
    BY <1>3
  <1>6. Position[a] < Position[b]
    BY <1>4, <1>5 DEF LockInv, NextToLock
  <1>. QED BY <1>4, <1>5, <1>6

\* Where locks are taken in order nobody waits in a circle.
LEMMA LockInvNoCycle ==
  ASSUME TypeOK, LockInv
  PROVE  NoWaitCycle
  <1>. SUFFICES ASSUME NEW S \in SUBSET Session, S # {},
                       \A p \in S : \E q \in S : Waits(p, q)
                PROVE  FALSE
    BY DEF NoWaitCycle
  <1>. DEFINE N == Cardinality(Account)
              Left == {n \in Nat : \E p \in S, a \in Account :
                                      NextToLock(p, a) /\ n = N - Position[a]}
              Less == OpToRel(<, Nat)
  <1>1. N \in Nat
    BY AccountAssumption, FS_CardinalityType
  <1>2. \A a \in Account : Position[a] \in 1..N
    BY LedgerAssumption
  <1>. HIDE DEF N
  <1>3. Left # {}
    <2>1. PICK p \in S : TRUE
      OBVIOUS
    <2>2. PICK a \in Account : NextToLock(p, a)
      BY <2>1, WaitsGoUp
    <2>. QED BY <1>1, <1>2, <2>2
  <1>4. PICK x \in Left : \A y \in Left : <<y, x>> \notin Less
    <2>. HIDE DEF Left, Less
    <2>1. Left \subseteq Nat BY DEF Left
    <2>2. IsWellFoundedOn(Less, Nat) BY NatLessThanWellFounded DEF Less
    <2>. QED BY <1>3, <2>1, <2>2, WFMin
  <1>5. PICK p \in S, a \in Account : NextToLock(p, a) /\ x = N - Position[a]
    OBVIOUS
  <1>6. PICK q \in S, a2, b \in Account :
          NextToLock(p, a2) /\ NextToLock(q, b) /\ Position[a2] < Position[b]
    BY WaitsGoUp
  <1>7. a2 = a
    BY <1>2, <1>5, <1>6, LedgerAssumption DEF NextToLock, ToLock
  <1>8. N - Position[b] \in Left /\ N - Position[b] < x /\ x \in Nat
    BY <1>1, <1>2, <1>5, <1>6, <1>7
  <1>9. <<N - Position[b], x>> \in Less
    BY <1>8 DEF OpToRel
  <1>. QED BY <1>4, <1>8, <1>9

(* No set of sessions ever waits in a circle, whatever their requests: the *)
(* deterministic lock order of the posting engine excludes deadlock.       *)
THEOREM DeadlockFree == Spec => []NoWaitCycle
  BY TypeCorrect, LockDiscipline, LockInvNoCycle, PTL
-----------------------------------------------------------------------------
(***************************************************************************)
(* What was read under a lock stays true until the lock goes.              *)
(***************************************************************************)

\* Only a commit changes what other sessions can see.
LEMMA OnlyCommitPublishes ==
  ASSUME [Next]_vars
  PROVE  UNCHANGED committed \/ \E p \in Session : Commit(p)
  BY DEF Next, vars, committed, Submit, SubmitReversal, Begin, ReadKey,
         Validate, LockAccount, DrawReference, Write, Rollback, GiveUp

\* A session that commits holds every account it posts to and the sequence,
\* so nobody else is between the sequence and the commit.
LEMMA CommitterHolds ==
  ASSUME TypeOK, LockInv, NEW p \in Session, Commit(p)
  PROVE  /\ pc[p] = "written"
         /\ \A a \in Touched(request[p].legs) : owner[a] = p
         /\ \A q \in Session \ {p} : pc[q] \notin Holding
  BY DEF LockInv, Commit, Holding, ToLock

\* The end of a session that wrote nothing makes nobody's read stale.
LEMMA EndKeepsReads ==
  ASSUME TypeOK, ReadInv, NEW p \in Session, NEW n, EndSession(p, n),
         UNCHANGED committed
  PROVE  ReadInv'
  <1>1. \A r \in Row : owner'[r] # p
    BY LedgerAssumption DEF EndSession, TypeOK
  <1>2. \A q \in Session \ {p} :
          /\ pc'[q] = pc[q] /\ seen'[q] = seen[q] /\ drawn'[q] = drawn[q]
          /\ \A r \in Row : owner'[r] = q => owner[r] = q
    BY LedgerAssumption DEF EndSession, Goto, TypeOK
  <1>3. pc'[p] = "idle"
    BY DEF EndSession, Goto, TypeOK
  <1>. QED
    BY <1>1, <1>2, <1>3 DEF ReadInv, Holding, committed, Row

\* A commit changes only rows its own session has locked.
LEMMA CommitKeepsReads ==
  ASSUME TypeOK, LockInv, ReadInv, NEW p \in Session, Commit(p)
  PROVE  ReadInv'
  <1>1. \A r \in Row : owner'[r] # p
    BY LedgerAssumption DEF Commit, EndSession, TypeOK
  <1>2. \A q \in Session \ {p} :
          /\ pc'[q] = pc[q] /\ seen'[q] = seen[q]
          /\ \A r \in Row : owner'[r] = q => owner[r] = q
    BY LedgerAssumption DEF Commit, EndSession, Goto, TypeOK
  <1>3. \A q \in Session : pc'[q] \notin Holding
    BY <1>2, CommitterHolds DEF Commit, EndSession, Goto, TypeOK, Holding
  <1>4. \A a \in Account : owner[a] # p => balance'[a] = balance[a]
    BY CommitterHolds DEF Commit
  <1>. QED
    BY <1>1, <1>2, <1>3, <1>4, LedgerAssumption DEF ReadInv, Row

(* A balance read when an account was locked, and the reference number     *)
(* drawn, are still current when the session writes: no lost update.       *)
THEOREM ReadsStayFresh == Spec => []ReadInv
<1>1. Init => ReadInv
  BY LedgerAssumption DEF Init, ReadInv, Holding, Row
<1>2. ASSUME TypeOK, LockInv, ReadInv, [Next]_vars PROVE ReadInv'
  <2>. USE <1>2
  <2>1. ASSUME NEW p \in Session, GiveUp(p) PROVE ReadInv'
    BY <2>1, EndKeepsReads DEF GiveUp
  <2>2. ASSUME NEW p \in Session, pc' = [pc EXCEPT ![p] = pc'[p]],
               pc[p] \in Holding \/ pc'[p] \notin Holding,
               UNCHANGED <<committed, owner, seen, drawn>>
        PROVE  ReadInv'
    BY <2>2 DEF ReadInv, TypeOK, committed
  <2>3. ASSUME NEW p \in Session, Submit(p) \/ SubmitReversal(p) PROVE ReadInv'
    <3>1. PICK r : Begin(p, r)
      BY <2>3 DEF Submit, SubmitReversal, Reversible
    <3>. QED BY <2>2, <3>1 DEF Begin, Goto, TypeOK, Holding
  <2>4. ASSUME NEW p \in Session, ReadKey(p) PROVE ReadInv'
    <3>1. CASE \E t \in book : EndSession(p, t.number) /\ UNCHANGED committed
      BY <3>1, EndKeepsReads
    <3>2. CASE Goto(p, "validate") /\ UNCHANGED <<committed, owner, seen, drawn>>
      BY <2>2, <3>2 DEF Goto, TypeOK, Holding
    <3>. QED BY <2>1, <2>4, <3>1, <3>2 DEF ReadKey, SameEffect, WithKey
  <2>5. ASSUME NEW p \in Session, Validate(p) PROVE ReadInv'
    <3>1. CASE Goto(p, "locking") /\ UNCHANGED <<committed, owner, seen, drawn>>
      BY <2>2, <3>1 DEF Goto, TypeOK, Holding
    <3>. QED BY <2>1, <2>5, <3>1 DEF Validate, Valid, NotYetReversed
  <2>6. ASSUME NEW p \in Session, LockAccount(p) PROVE ReadInv'
    <3>1. ASSUME NEW a \in Account, owner' = [owner EXCEPT ![a] = p],
                 seen' = [seen EXCEPT ![p][a] = balance[a]],
                 UNCHANGED <<committed, pc, drawn>>
          PROVE  ReadInv'
      BY <3>1 DEF ReadInv, TypeOK, Row, committed
    <3>. QED BY <2>1, <2>6, <3>1 DEF LockAccount, RowIsFree
  <2>7. ASSUME NEW p \in Session, DrawReference(p) PROVE ReadInv'
    BY <2>7, LedgerAssumption
    DEF DrawReference, RowIsFree, NextNumber, Goto, ReadInv, TypeOK, Row, committed, Holding
  <2>8. ASSUME NEW p \in Session, Write(p) PROVE ReadInv'
    <3>1. CASE pc[p] = "numbered" /\ Goto(p, "written")
                 /\ UNCHANGED <<committed, owner, seen, drawn>>
      BY <2>2, <3>1 DEF Goto, TypeOK, Holding
    <3>. QED BY <2>1, <2>8, <3>1 DEF Write
  <2>9. ASSUME NEW p \in Session, Rollback(p) PROVE ReadInv'
    BY <2>1, <2>9 DEF Rollback
  <2>10. CASE UNCHANGED vars
    BY <2>10 DEF vars, ReadInv
  <2>. QED
    BY <2>3, <2>4, <2>5, <2>6, <2>7, <2>8, CommitKeepsReads, <2>9, <2>10 DEF Next
<1>. QED BY <1>1, <1>2, TypeCorrect, LockDiscipline, PTL DEF Spec
-----------------------------------------------------------------------------
(***************************************************************************)
(* Requests, reversals and the book.                                       *)
(***************************************************************************)
LEMMA KeysApart ==
  /\ \A n \in Nat : ReversalKey(n) # NoKey
  /\ \A n \in Nat : \A c : ReversalKey(n) # Caller(c)
  /\ \A c : Caller(c) # NoKey
  /\ \A m, n \in Nat : ReversalKey(m) = ReversalKey(n) => m = n
  BY DEF ReversalKey, NoKey, Caller

\* A posted transaction stays.
LEMMA BookGrows ==
  ASSUME [Next]_vars
  PROVE  book \subseteq book'
  BY OnlyCommitPublishes DEF committed, Commit

(* References number the committed transactions 1, 2, 3, ... without a gap *)
(* or a repetition: a rolled back posting gives its number back.           *)
THEOREM ReferencesGapless == Spec => []GaplessReferences
<1>1. Init => GaplessReferences
  BY DEF Init, GaplessReferences
<1>2. ASSUME TypeOK, LockInv, ReadInv, GaplessReferences, [Next]_vars
      PROVE  GaplessReferences'
  <2>1. CASE UNCHANGED committed
    BY <1>2, <2>1 DEF committed, GaplessReferences
  <2>2. ASSUME NEW p \in Session, Commit(p) PROVE GaplessReferences'
    <3>1. drawn[p] = lastLed + 1 /\ lastLed \in Nat
      BY <1>2, <2>2, CommitterHolds DEF ReadInv, Holding, TypeOK
    <3>2. PICK t \in Transaction : book' = book \cup {t} /\ t.number = lastLed + 1
      <4>. DEFINE r == request[p]
                  u == [number |-> drawn[p], key |-> r.key, legs |-> r.legs,
                        reverses |-> r.reverses]
      <4>1. u \in Transaction
        BY <1>2 DEF TypeOK, Request, Transaction
      <4>2. book' = book \cup {u} /\ u.number = lastLed + 1
        BY <2>2, <3>1 DEF Commit
      <4>. QED BY <4>1, <4>2
    <3>3. lastLed' = lastLed + 1
      BY <2>2, <3>1 DEF Commit
    <3>. QED BY <1>2, <3>1, <3>2, <3>3 DEF GaplessReferences
  <2>. QED BY <1>2, <2>1, <2>2, OnlyCommitPublishes
<1>. QED BY <1>1, <1>2, TypeCorrect, LockDiscipline, ReadsStayFresh, PTL DEF Spec

\* A request changes when it is submitted and when its call fails.
LEMMA RequestStep ==
  ASSUME TypeOK, [Next]_vars, NEW q \in Session
  PROVE  \/ request'[q] = request[q]
         \/ request'[q] = NoRequest
         \/ Submit(q)
         \/ SubmitReversal(q)
  <1>1. ASSUME NEW p \in Session, GiveUp(p)
        PROVE  request'[q] = request[q] \/ request'[q] = NoRequest
    BY <1>1 DEF GiveUp, TypeOK
  <1>2. ASSUME NEW p \in Session, p # q, Submit(p) \/ SubmitReversal(p)
        PROVE  request'[q] = request[q]
    BY <1>2 DEF Submit, SubmitReversal, Reversible, Begin, TypeOK
  <1>. QED
    BY <1>1, <1>2
    DEF Next, vars, ReadKey, Validate, LockAccount, DrawReference, Write,
        Commit, Rollback

\* Only Validate lets a request through to the locks.
LEMMA ReachesLocks ==
  ASSUME TypeOK, [Next]_vars, NEW q \in Session,
         pc'[q] \in {"locking"} \cup Holding
  PROVE  /\ request'[q] = request[q]
         /\ pc[q] \in {"locking"} \cup Holding \/ Balanced(request[q].legs)
  <1>. USE DEF Holding
  <1>1. ASSUME NEW p \in Session, NEW n, EndSession(p, n)
        PROVE  p # q /\ pc'[q] = pc[q]
    BY <1>1 DEF EndSession, Goto, TypeOK
  <1>2. ASSUME NEW p \in Session, GiveUp(p)
        PROVE  request'[q] = request[q] /\ pc'[q] = pc[q]
    BY <1>1, <1>2 DEF GiveUp, TypeOK
  <1>3. ASSUME NEW p \in Session, NEW r, Begin(p, r)
        PROVE  request'[q] = request[q] /\ pc'[q] = pc[q]
    BY <1>3 DEF Begin, Goto, TypeOK
  <1>4. ASSUME NEW p \in Session, ReadKey(p)
        PROVE  request'[q] = request[q] /\ pc'[q] = pc[q]
    BY <1>1, <1>2, <1>4 DEF ReadKey, SameEffect, Goto, TypeOK
  <1>5. ASSUME NEW p \in Session, Validate(p)
        PROVE  /\ request'[q] = request[q]
               /\ pc'[q] = pc[q] \/ Balanced(request[q].legs)
    <2>. HIDE DEF Balanced
    <2>. QED BY <1>2, <1>5 DEF Validate, Valid, NotYetReversed, Goto, TypeOK
  <1>6. ASSUME NEW p \in Session, LockAccount(p)
        PROVE  request'[q] = request[q] /\ pc'[q] = pc[q]
    BY <1>2, <1>6 DEF LockAccount, RowIsFree
  <1>7. ASSUME NEW p \in Session, DrawReference(p)
        PROVE  request'[q] = request[q] /\ pc[q] \in {"locking"} \cup Holding
    BY <1>7 DEF DrawReference, RowIsFree, NextNumber, Goto, TypeOK
  <1>8. ASSUME NEW p \in Session, Write(p)
        PROVE  request'[q] = request[q] /\ pc[q] \in {"locking"} \cup Holding
    BY <1>2, <1>8 DEF Write, Goto, TypeOK
  <1>9. ASSUME NEW p \in Session, Commit(p)
        PROVE  request'[q] = request[q] /\ pc'[q] = pc[q]
    BY <1>1, <1>9 DEF Commit
  <1>10. ASSUME UNCHANGED vars
         PROVE  request'[q] = request[q] /\ pc'[q] = pc[q]
    BY <1>10 DEF vars
  <1>. QED
    BY <1>2, <1>3, <1>4, <1>5, <1>6, <1>7, <1>8, <1>9, <1>10
    DEF Next, Submit, SubmitReversal, Reversible, Rollback

(* Every reversal, requested or posted, carries the reversal key of its    *)
(* target and the opposite of the target's entries, and no reversal is     *)
(* reversed; only balanced entry sets reach the locks.                     *)
THEOREM RequestsSound == Spec => []RequestInv
<1>1. Init => RequestInv
  BY DEF Init, RequestInv, Holding, Reverses, NoRequest
<1>2. ASSUME TypeOK, GaplessReferences, RequestInv, [Next]_vars
      PROVE  RequestInv'
  <2>. USE <1>2
  <2>0. book \subseteq book'
    BY BookGrows
  <2>1. ASSUME NEW q \in Session PROVE Reverses(request[q])'
    <3>1. CASE request'[q] = request[q]
      BY <2>0, <3>1 DEF RequestInv, Reverses
    <3>2. CASE request'[q] = NoRequest
      BY <3>2 DEF Reverses, NoRequest
    <3>3. CASE Submit(q)
      <4>1. PICK legs \in Entries, k \in {NoKey} \cup {Caller(c) : c \in CallerKey} :
              Begin(q, [key |-> k, legs |-> legs, reverses |-> NoTxn])
        BY <3>3 DEF Submit
      <4>2. request'[q] = [key |-> k, legs |-> legs, reverses |-> NoTxn]
        BY <4>1 DEF Begin, TypeOK
      <4>. QED BY <4>2 DEF Reverses
    <3>4. CASE SubmitReversal(q)
      <4>1. PICK t \in book :
              /\ t.reverses = NoTxn
              /\ Begin(q, [key |-> ReversalKey(t.number),
                           legs |-> Opposite(t.legs), reverses |-> t.number])
        BY <3>4 DEF SubmitReversal, Reversible
      <4>2. request'[q] = [key |-> ReversalKey(t.number),
                           legs |-> Opposite(t.legs), reverses |-> t.number]
        BY <4>1 DEF Begin, TypeOK
      <4>3. t \in book' /\ t.number # NoTxn
        BY <2>0, <4>1 DEF GaplessReferences, TypeOK, NoTxn
      <4>. QED BY <4>1, <4>2, <4>3 DEF Reverses
    <3>. QED BY <3>1, <3>2, <3>3, <3>4, RequestStep
  <2>2. ASSUME NEW t \in book' PROVE Reverses(t)'
    <3>1. CASE t \in book
      BY <2>0, <3>1 DEF RequestInv, Reverses
    <3>2. CASE t \notin book
      <4>1. PICK p \in Session : Commit(p)
        BY <3>2, OnlyCommitPublishes DEF committed
      <4>2. t.key = request[p].key /\ t.legs = request[p].legs
              /\ t.reverses = request[p].reverses
        BY <3>2, <4>1 DEF Commit
      <4>. QED BY <2>0, <4>2 DEF RequestInv, Reverses
    <3>. QED BY <3>1, <3>2
  <2>3. ASSUME NEW q \in Session, pc'[q] \in {"locking"} \cup Holding
        PROVE  Balanced(request'[q].legs)
    <3>1. request'[q] = request[q] /\ Balanced(request[q].legs)
      BY <2>3, ReachesLocks DEF RequestInv
    <3>. QED BY <3>1
  <2>4. \A t \in book' : Reverses(t)'
    BY <2>2
  <2>. QED
    BY <2>1, <2>3, <2>4 DEF RequestInv, Holding
<1>. QED BY <1>1, <1>2, TypeCorrect, ReferencesGapless, PTL DEF Spec
-----------------------------------------------------------------------------
(***************************************************************************)
(* What a commit adds to the book.                                         *)
(***************************************************************************)

\* The row session p is about to commit.
NewRow(p) ==
  [number |-> drawn[p], key |-> request[p].key, legs |-> request[p].legs,
   reverses |-> request[p].reverses]

\* Nothing a session found when it wrote can change before its commit.
LEMMA StaysWritten ==
  ASSUME TypeOK, LockInv, [Next]_vars, NEW q \in Session, pc'[q] = "written"
  PROVE  /\ book' = book /\ request'[q] = request[q] /\ seen'[q] = seen[q]
         /\ pc[q] = "written" \/ CanWrite(q)
  <1>. HIDE DEF CanWrite
  <1>1. ASSUME NEW p \in Session, NEW n, EndSession(p, n)
        PROVE  p # q /\ pc'[q] = pc[q] /\ seen'[q] = seen[q]
    BY <1>1 DEF EndSession, Goto, TypeOK
  <1>2. ASSUME NEW p \in Session, GiveUp(p)
        PROVE  /\ book' = book /\ request'[q] = request[q]
               /\ seen'[q] = seen[q] /\ pc[q] = "written"
    BY <1>1, <1>2 DEF GiveUp, TypeOK, committed
  <1>3. ASSUME NEW p \in Session, NEW r, Begin(p, r)
        PROVE  /\ book' = book /\ request'[q] = request[q]
               /\ seen'[q] = seen[q] /\ pc[q] = "written"
    BY <1>3 DEF Begin, Goto, TypeOK, committed
  <1>4. ASSUME NEW p \in Session,
               ReadKey(p) \/ Validate(p) \/ LockAccount(p) \/ DrawReference(p)
        PROVE  /\ book' = book /\ request'[q] = request[q]
               /\ seen'[q] = seen[q] /\ pc[q] = "written"
    BY <1>1, <1>2, <1>4
    DEF ReadKey, Validate, LockAccount, DrawReference, Goto, TypeOK, committed
  <1>5. ASSUME NEW p \in Session, Write(p)
        PROVE  /\ book' = book /\ request'[q] = request[q] /\ seen'[q] = seen[q]
               /\ pc[q] = "written" \/ CanWrite(q)
    BY <1>2, <1>5 DEF Write, Goto, TypeOK, committed
  <1>6. ASSUME NEW p \in Session, Commit(p) PROVE FALSE
    BY <1>1, <1>6, CommitterHolds DEF Commit, Holding
  <1>7. ASSUME UNCHANGED vars
        PROVE  /\ book' = book /\ request'[q] = request[q]
               /\ seen'[q] = seen[q] /\ pc[q] = "written"
    BY <1>7 DEF vars
  <1>. QED
    BY <1>2, <1>3, <1>4, <1>5, <1>6, <1>7
    DEF Next, Submit, SubmitReversal, Reversible, Rollback

(* The idempotency key and the funds a session checked when it wrote are   *)
(* still free and still there when it commits.                             *)
THEOREM WritesHold == Spec => []WriteInv
<1>1. Init => WriteInv
  BY DEF Init, WriteInv
<1>2. ASSUME TypeOK, LockInv, WriteInv, [Next]_vars PROVE WriteInv'
  <2>. SUFFICES ASSUME NEW q \in Session, pc'[q] = "written"
                PROVE  CanWrite(q)'
    BY DEF WriteInv
  <2>1. CanWrite(q) /\ book' = book /\ request'[q] = request[q] /\ seen'[q] = seen[q]
    BY <1>2, StaysWritten DEF WriteInv
  <2>. QED BY <2>1 DEF CanWrite, StaysFunded, KeyIsFree
<1>. QED BY <1>1, <1>2, TypeCorrect, LockDiscipline, PTL DEF Spec

\* What a commit adds to the book and to the balances.
LEMMA CommitAddsRow ==
  ASSUME TypeOK, LockInv, ReadInv, WriteInv, NEW p \in Session, Commit(p)
  PROVE  /\ book' = book \cup {NewRow(p)}
         /\ NewRow(p) \in Transaction
         /\ NewRow(p).number = lastLed + 1
         /\ CanWrite(p)
         /\ \A a \in Account : balance'[a] = balance[a] + Effect(request[p].legs, a)
  <1>1. NewRow(p) \in Transaction
    BY DEF NewRow, TypeOK, Request, Transaction
  <1>2. book' = book \cup {NewRow(p)}
    BY DEF Commit, NewRow
  <1>3. NewRow(p).number = lastLed + 1
    BY CommitterHolds DEF NewRow, ReadInv, Holding
  <1>4. CanWrite(p)
    BY CommitterHolds DEF WriteInv
  <1>5. ASSUME NEW a \in Account
        PROVE  balance'[a] = balance[a] + Effect(request[p].legs, a)
    <2>1. CASE a \in Touched(request[p].legs)
      BY <2>1, CommitterHolds DEF ReadInv, Commit
    <2>2. CASE a \notin Touched(request[p].legs)
      <3>1. balance'[a] = balance[a]
        BY <2>2 DEF Commit
      <3>2. Effect(request[p].legs, a) = 0
        BY <2>2 DEF Touched, Effect
      <3>. QED BY <3>1, <3>2 DEF TypeOK
    <2>. QED BY <2>1, <2>2
  <1>. QED BY <1>1, <1>2, <1>3, <1>4, <1>5

(* An idempotency key names at most one posted transaction.                *)
THEOREM KeysOnce == Spec => []KeyUsedOnce
<1>1. Init => KeyUsedOnce
  BY DEF Init, KeyUsedOnce
<1>2. ASSUME TypeOK, LockInv, ReadInv, WriteInv, KeyUsedOnce, [Next]_vars
      PROVE  KeyUsedOnce'
  <2>1. CASE UNCHANGED committed
    BY <1>2, <2>1 DEF committed, KeyUsedOnce
  <2>2. ASSUME NEW p \in Session, Commit(p) PROVE KeyUsedOnce'
    <3>1. book' = book \cup {NewRow(p)} /\ CanWrite(p)
      BY <1>2, <2>2, CommitAddsRow
    <3>2. \A t \in book : NewRow(p).key # NoKey => t.key # NewRow(p).key
      BY <3>1 DEF CanWrite, StaysFunded, KeyIsFree, WithKey, NewRow
    <3>. QED BY <1>2, <3>1, <3>2 DEF KeyUsedOnce
  <2>. QED BY <1>2, <2>1, <2>2, OnlyCommitPublishes
<1>. QED
  BY <1>1, <1>2, TypeCorrect, LockDiscipline, ReadsStayFresh, WritesHold, PTL
  DEF Spec

(* A transaction is reversed at most once.                                 *)
THEOREM ReversalsOnce == Spec => []ReversedOnce
<1>1. RequestInv /\ KeyUsedOnce => ReversedOnce
  <2>. SUFFICES ASSUME RequestInv, KeyUsedOnce, NEW t \in book, NEW u \in book,
                       t.reverses = u.reverses, t.reverses # NoTxn
                PROVE  t = u
    BY DEF ReversedOnce
  <2>1. t.key = ReversalKey(t.reverses) /\ u.key = ReversalKey(t.reverses)
    BY DEF RequestInv, Reverses
  <2>2. t.key # NoKey
    BY <2>1 DEF ReversalKey, NoKey
  <2>. QED BY <2>1, <2>2 DEF KeyUsedOnce
<1>. QED BY <1>1, RequestsSound, KeysOnce, PTL

(* No retry and no second operator moves the money of a posting, or of its  *)
(* reversal, again: both facts above as the one property the runs check.    *)
THEOREM NothingPostedTwice == Spec => []NothingTwice
BY KeysOnce, ReversalsOnce, PTL DEF NothingTwice

(* A reversal is the exact opposite of a posted transaction that is not    *)
(* itself a reversal.                                                      *)
THEOREM ReversalsUndo == Spec => []ReversalUndoes
<1>1. RequestInv => ReversalUndoes
  BY DEF RequestInv, Reverses, ReversalUndoes
<1>. QED BY <1>1, RequestsSound, PTL

(* Guarded accounts never go below zero.                                   *)
THEOREM GuardHolds == Spec => []GuardedNonNegative
<1>1. Init => GuardedNonNegative
  BY DEF Init, GuardedNonNegative, Zero
<1>2. ASSUME TypeOK, LockInv, ReadInv, WriteInv, GuardedNonNegative, [Next]_vars
      PROVE  GuardedNonNegative'
  <2>1. CASE UNCHANGED committed
    BY <1>2, <2>1 DEF committed, GuardedNonNegative
  <2>2. ASSUME NEW p \in Session, Commit(p), NEW a \in Account \ MayGoNegative
        PROVE  balance'[a] >= 0
    <3>1. CASE a \in Touched(request[p].legs)
      BY <1>2, <2>2, <3>1, CommitAddsRow DEF CanWrite, StaysFunded, KeyIsFree, Commit
    <3>2. CASE a \notin Touched(request[p].legs)
      BY <1>2, <2>2, <3>2 DEF Commit, GuardedNonNegative
    <3>. QED BY <3>1, <3>2
  <2>. QED BY <1>2, <2>1, <2>2, OnlyCommitPublishes DEF GuardedNonNegative
<1>. QED
  BY <1>1, <1>2, TypeCorrect, LockDiscipline, ReadsStayFresh, WritesHold, PTL
  DEF Spec
-----------------------------------------------------------------------------
(***************************************************************************)
(* What callers are told, and the atomic book.                             *)
(***************************************************************************)

\* The result of a call is set by the step that ends it, and stays with its
\* request until the session takes another.
LEMMA ResultStep ==
  ASSUME TypeOK, [Next]_vars, NEW q \in Session, result'[q] # NoTxn
  PROVE  /\ request'[q] = request[q]
         /\ \/ result'[q] = result[q]
            \/ \E t \in book : /\ t.number = result'[q]
                               /\ t.key = request[q].key
                               /\ t.legs = request[q].legs
            \/ Commit(q)
  <1>1. ASSUME NEW p \in Session, GiveUp(p)
        PROVE  request'[q] = request[q] /\ result'[q] = result[q]
    BY <1>1 DEF GiveUp, EndSession, TypeOK
  <1>2. ASSUME NEW p \in Session, NEW r, Begin(p, r)
        PROVE  request'[q] = request[q] /\ result'[q] = result[q]
    BY <1>2 DEF Begin, TypeOK
  <1>3. ASSUME NEW p \in Session, ReadKey(p)
        PROVE  /\ request'[q] = request[q]
               /\ \/ result'[q] = result[q]
                  \/ \E t \in book : /\ t.number = result'[q]
                                     /\ t.key = request[q].key
                                     /\ t.legs = request[q].legs
    BY <1>1, <1>3 DEF ReadKey, SameEffect, WithKey, EndSession, TypeOK
  <1>4. ASSUME NEW p \in Session,
               Validate(p) \/ LockAccount(p) \/ DrawReference(p) \/ Write(p)
        PROVE  request'[q] = request[q] /\ result'[q] = result[q]
    BY <1>1, <1>4 DEF Validate, LockAccount, DrawReference, Write
  <1>5. ASSUME NEW p \in Session, Commit(p)
        PROVE  request'[q] = request[q] /\ (result'[q] = result[q] \/ Commit(q))
    BY <1>5 DEF Commit, EndSession, TypeOK
  <1>6. ASSUME UNCHANGED vars
        PROVE  request'[q] = request[q] /\ result'[q] = result[q]
    BY <1>6 DEF vars
  <1>. QED
    BY <1>1, <1>2, <1>3, <1>4, <1>5, <1>6
    DEF Next, Submit, SubmitReversal, Reversible, Rollback

(* A call that returned a transaction was told of a committed one that     *)
(* moves what it asked for under its key, whether it posted it or it was   *)
(* replayed.                                                               *)
THEOREM AcknowledgedPosted == Spec => []AcknowledgedIsPosted
<1>1. Init => AcknowledgedIsPosted
  BY DEF Init, AcknowledgedIsPosted
<1>2. ASSUME TypeOK, LockInv, ReadInv, WriteInv, AcknowledgedIsPosted, [Next]_vars
      PROVE  AcknowledgedIsPosted'
  <2>. SUFFICES ASSUME NEW q \in Session, result'[q] # NoTxn
                PROVE  \E t \in book' : /\ t.number = result'[q]
                                        /\ t.key = request'[q].key
                                        /\ t.legs = request'[q].legs
    BY DEF AcknowledgedIsPosted
  <2>1. book \subseteq book'
    BY <1>2, BookGrows
  <2>2. CASE Commit(q)
    <3>1. NewRow(q) \in book' /\ request'[q] = request[q]
      BY <1>2, <2>2, CommitAddsRow DEF Commit
    <3>2. result'[q] = drawn[q]
      BY <1>2, <2>2 DEF Commit, EndSession, TypeOK
    <3>. QED BY <3>1, <3>2 DEF NewRow
  <2>3. CASE result'[q] = result[q] /\ request'[q] = request[q]
    BY <1>2, <2>1, <2>3 DEF AcknowledgedIsPosted
  <2>. QED BY <1>2, <2>1, <2>2, <2>3, ResultStep
<1>. QED
  BY <1>1, <1>2, TypeCorrect, LockDiscipline, ReadsStayFresh, WritesHold, PTL
  DEF Spec

\* A commit is one posting to the book.
LEMMA CommitPosts ==
  ASSUME TypeOK, LockInv, ReadInv, RequestInv, WriteInv, GaplessReferences,
         NEW p \in Session, Commit(p)
  PROVE  BookNext
  <1>. DEFINE t == NewRow(p)
  <1>1. /\ book' = book \cup {t} /\ t.number = lastLed + 1 /\ CanWrite(p)
        /\ \A a \in Account : balance'[a] = balance[a] + Effect(t.legs, a)
    BY CommitAddsRow DEF NewRow
  <1>2. t \in book' \ book
    BY <1>1 DEF GaplessReferences, TypeOK
  <1>3. \A o \in book : o.number < t.number
    BY <1>1 DEF GaplessReferences, TypeOK
  <1>4. t.key # NoKey => WithKey(book, t.key) = {}
    BY <1>1 DEF CanWrite, StaysFunded, KeyIsFree, NewRow
  <1>5. Balanced(t.legs)
    BY CommitterHolds DEF RequestInv, Holding, NewRow
  <1>6. t.reverses # NoTxn => MayReverse(t)
    <2>. SUFFICES ASSUME t.reverses # NoTxn PROVE MayReverse(t)
      OBVIOUS
    <2>1. /\ t.key = ReversalKey(t.reverses)
          /\ \E o \in book : /\ o.number = t.reverses
                             /\ o.reverses = NoTxn
                             /\ t.legs = Opposite(o.legs)
      BY DEF RequestInv, Reverses, NewRow
    <2>2. \A u \in book : u.reverses # t.reverses
      <3>1. t.key # NoKey
        BY <2>1 DEF ReversalKey, NoKey
      <3>2. \A u \in book : u.key # t.key
        BY <1>4, <3>1 DEF WithKey
      <3>. QED BY <2>1, <3>2 DEF RequestInv, Reverses
    <2>. QED BY <2>1, <2>2 DEF MayReverse, ReversalsOf
  <1>7. Funded(t.legs)
    <2>1. \A a \in Touched(request[p].legs) : seen[p][a] = balance[a]
      BY CommitterHolds DEF ReadInv, Touched
    <2>. QED BY <1>1, <2>1 DEF Funded, CanWrite, StaysFunded, KeyIsFree, NewRow, Touched
  <1>8. balance' = [a \in Account |-> balance[a] + Effect(t.legs, a)]
    <2>1. balance' = [a \in Account |-> balance'[a]]
      BY DEF Commit
    <2>. QED BY <1>1, <2>1
  <1>. HIDE DEF t
  <1>9. Post(t)
    BY <1>1, <1>3, <1>4, <1>5, <1>6, <1>7, <1>8 DEF Post
  <1>. QED BY <1>2, <1>9 DEF BookNext

(* The many-step engine implements the atomic book: seen through the       *)
(* committed rows, every step is one posting or nothing.                   *)
THEOREM Implementation == Spec => ImplementsBook
<1>1. Init => BookInit
  BY DEF Init, BookInit, Zero
<1>2. ASSUME TypeOK, LockInv, ReadInv, RequestInv, WriteInv, GaplessReferences,
             [Next]_vars
      PROVE  [BookNext]_<<balance, book>>
  BY <1>2, OnlyCommitPublishes, CommitPosts DEF committed
<1>. QED
  BY <1>1, <1>2, TypeCorrect, LockDiscipline, ReadsStayFresh, RequestsSound,
     WritesHold, ReferencesGapless, PTL
  DEF Spec, ImplementsBook, BookSpec

(* The conjunction is the inductive invariant TLC checks.                  *)
THEOREM Invariant == Spec => []IInv
  BY LockDiscipline, ReadsStayFresh, RequestsSound, WritesHold, KeysOnce,
     ReferencesGapless, GuardHolds, AcknowledgedPosted, PTL DEF IInv
-----------------------------------------------------------------------------
\* A posting to the book moves every balance by what it adds to the sum of the
\* entries.
LEMMA PostingsAddUp ==
  ASSUME TypeOK, TypeOK', IsFiniteSet(book), NoDrift, BookNext
  PROVE  IsFiniteSet(book') /\ NoDrift'
<1>1. PICK t \in book' \ book : Post(t)
  BY DEF BookNext
<1>2. /\ book' = book \cup {t} /\ t \notin book
      /\ \A a \in Account : balance'[a] = balance[a] + Effect(t.legs, a)
  BY <1>1 DEF Post
<1>3. IsFiniteSet(book')
  BY <1>2, FS_AddElement
<1>4. ASSUME NEW a \in Account
      PROVE  balance'[a] = SumFunction([u \in book' |-> Effect(u.legs, a)])
  <2>. DEFINE f == [u \in book |-> Effect(u.legs, a)]
              g == [u \in book' |-> Effect(u.legs, a)]
  <2>1. /\ DOMAIN f = book /\ DOMAIN g = book \cup {t}
        /\ g[t] = Effect(t.legs, a)
        /\ \A u \in book : f[u] = g[u]
        /\ \A u \in book \cup {t} : g[u] \in Int
    <3>1. \A u \in book' : u.legs \in Legs
      BY DEF TypeOK, Transaction
    <3>. QED
      BY <1>2, <3>1, EffectIsInt
  <2>2. balance[a] = SumFunction(f)
    BY DEF NoDrift
  <2>. HIDE DEF f, g
  <2>3. SumFunctionOnSet(g, book \cup {t}) = g[t] + SumFunctionOnSet(g, book)
    BY <1>2, <2>1, SumAdd
  <2>4. SumFunctionOnSet(g, book) = SumFunctionOnSet(f, book)
    BY <2>1, SumAgree
  <2>5. SumFunctionOnSet(g, book) \in Int /\ g[t] \in Int
    BY <2>1, SumInt
  <2>6. SumFunction(g) = balance'[a]
    BY <1>2, <2>1, <2>2, <2>3, <2>4, <2>5 DEF SumFunction
  <2>. QED
    BY <2>6 DEF g
<1>. QED
  BY <1>3, <1>4 DEF NoDrift

\* The balance on every account row is the sum of its entries.
THEOREM Undrifted == Spec => []NoDrift
<1>1. BookInit => IsFiniteSet(book) /\ NoDrift
  <2>. SUFFICES ASSUME BookInit PROVE IsFiniteSet(book) /\ NoDrift
    OBVIOUS
  <2>1. book = {} /\ \A a \in Account : balance[a] = 0
    BY DEF BookInit
  <2>2. ASSUME NEW a \in Account
        PROVE  SumFunction([u \in book |-> Effect(u.legs, a)]) = 0
    <3>. DEFINE f == [u \in book |-> Effect(u.legs, a)]
    <3>1. DOMAIN f = {}
      BY <2>1
    <3>. HIDE DEF f
    <3>2. SumFunction(f) = 0
      BY <3>1, SumEmpty DEF SumFunction
    <3>. QED
      BY <3>2 DEF f
  <2>. QED
    BY <2>1, <2>2, FS_EmptySet DEF NoDrift
<1>2. TypeOK /\ TypeOK' /\ IsFiniteSet(book) /\ NoDrift
        /\ [BookNext]_<<balance, book>>
        => (IsFiniteSet(book) /\ NoDrift)'
  BY PostingsAddUp DEF NoDrift
<1>. QED
  BY <1>1, <1>2, TypeCorrect, Implementation, PTL DEF ImplementsBook, BookSpec
=============================================================================
