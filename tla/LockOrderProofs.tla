-------------------------- MODULE LockOrderProofs --------------------------
(***************************************************************************)
(* The services that lock in one order never wait in a circle, for any     *)
(* number of sessions, customers and agents.                               *)
(***************************************************************************)
EXTENDS LockOrder, SequenceTheorems, WellFoundedInduction, TLAPS

\* The order: payments, agents, accounts by code and LED, PAY or LON, and then
\* plans or loans; AGS comes before and PYT after all others.
Rank(row) ==
  CASE row[1] = "payment" -> 1
    [] row = <<"sequence", "AGS">> -> 2
    [] row[1] = "agent" -> 3
    [] row = <<"sequence", "AGC">> -> 4
    [] row = <<"account", "CASH_IN_HAND">> -> 5
    [] row = <<"account", "COMMISSION_EXPENSE">> -> 6
    [] row = <<"account", "LOAN_PRINCIPAL">> -> 7
    [] row = <<"account", "SAVINGS_POOL">> -> 8
    [] row = <<"account", "SETTLEMENT">> -> 9
    [] row = <<"sequence", "LED">> -> 10
    [] row = <<"sequence", "PAY">> -> 11
    [] row = <<"sequence", "LON">> -> 12
    [] row[1] = "plan" -> 13
    [] row[1] = "loan" -> 14
    [] OTHER -> 15

Ordered == Services \ AgainstTheOrder

Ascending(s) == \A i, j \in 1..Len(s) : i < j => Rank(s[i].row) < Rank(s[j].row)

\* What every lock names.
Kind == {"payment", "agent", "account", "sequence", "plan", "loan"}
Name ==
  Subject \cup {"CASH_IN_HAND", "COMMISSION_EXPENSE", "LOAN_PRINCIPAL", "SAVINGS_POOL",
                "SETTLEMENT", "AGS", "AGC", "AGP", "LED", "PAY", "LON", "PYT"}
AnyLock == [row : Kind \X Name, shared : BOOLEAN]

Between(s, lo, hi) ==
  /\ s \in Seq(AnyLock)
  /\ Ascending(s)
  /\ \A i \in 1..Len(s) : lo <= Rank(s[i].row) /\ Rank(s[i].row) <= hi
-----------------------------------------------------------------------------
(***************************************************************************)
(* The locks of a service.                                                 *)
(***************************************************************************)
LEMMA RankType ==
  ASSUME NEW row
  PROVE  Rank(row) \in 1..15
BY DEF Rank

\* A single lock ascends.
LEMMA Alone ==
  ASSUME NEW l \in AnyLock
  PROVE  Between(<<l>>, Rank(l.row), Rank(l.row))
BY RankType DEF Between, Ascending

\* Two locks ascend if the second row is higher.
LEMMA Pair ==
  ASSUME NEW k \in AnyLock, NEW l \in AnyLock, Rank(k.row) < Rank(l.row)
  PROVE  Between(<<k, l>>, Rank(k.row), Rank(l.row))
<1>. DEFINE s == <<k, l>>
<1>1. s \in Seq(AnyLock) /\ Len(s) = 2 /\ s[1] = k /\ s[2] = l
  OBVIOUS
<1>. HIDE DEF s
<1>2. Rank(k.row) \in Int /\ Rank(l.row) \in Int
  BY RankType
<1>. QED
  BY <1>1, <1>2 DEF Between, Ascending, s

\* Two ascending parts are one if the second begins higher.
LEMMA Joined ==
  ASSUME NEW s, NEW t, NEW lo \in Int, NEW m \in Int, NEW n \in Int, NEW hi \in Int,
         Between(s, lo, m), Between(t, n, hi), m < n, lo <= n, m <= hi
  PROVE  Between(s \o t, lo, hi)
<1>1. s \in Seq(AnyLock) /\ t \in Seq(AnyLock)
  BY DEF Between
<1>2. /\ s \o t \in Seq(AnyLock)
      /\ Len(s \o t) = Len(s) + Len(t)
      /\ \A i \in 1..Len(s) + Len(t) :
           (s \o t)[i] = IF i <= Len(s) THEN s[i] ELSE t[i - Len(s)]
  BY <1>1, ConcatProperties, Zenon
<1>3. Len(s) \in Nat /\ Len(t) \in Nat
  BY <1>1, LenProperties, Zenon
<1>. DEFINE r(i) == Rank((s \o t)[i].row)
<1>4. ASSUME NEW i \in 1..Len(s \o t)
      PROVE  \/ i \in 1..Len(s) /\ r(i) = Rank(s[i].row)
             \/ /\ i > Len(s) /\ i - Len(s) \in 1..Len(t)
                /\ r(i) = Rank(t[i - Len(s)].row)
  BY <1>2, <1>3
<1>5. \A i : r(i) \in Int
  BY RankType
<1>. HIDE DEF r
<1>6. ASSUME NEW i \in 1..Len(s \o t)
      PROVE  lo <= r(i) /\ r(i) <= hi
  <2>. r(i) \in Int
    BY <1>5
  <2>1. CASE i \in 1..Len(s)
    <3>1. lo <= r(i) /\ r(i) <= m
      BY <1>3, <1>4, <2>1 DEF Between
    <3>. QED
      BY <3>1
  <2>2. CASE i \notin 1..Len(s)
    <3>1. n <= r(i) /\ r(i) <= hi
      BY <1>4, <2>2 DEF Between
    <3>. QED
      BY <3>1
  <2>. QED
    BY <2>1, <2>2
<1>7. ASSUME NEW i \in 1..Len(s \o t), NEW j \in 1..Len(s \o t), i < j
      PROVE  r(i) < r(j)
  <2>1. CASE j \in 1..Len(s)
    BY <1>2, <1>3, <1>4, <1>7, <2>1 DEF Between, Ascending
  <2>2. CASE i \notin 1..Len(s)
    <3>. DEFINE k == i - Len(s)
                l == j - Len(s)
    <3>1. /\ k \in 1..Len(t) /\ r(i) = Rank(t[k].row)
          /\ l \in 1..Len(t) /\ r(j) = Rank(t[l].row)
          /\ k < l
      BY <1>2, <1>3, <1>4, <1>7, <2>2
    <3>. HIDE DEF k, l
    <3>. QED
      BY <3>1 DEF Between, Ascending
  <2>3. CASE i \in 1..Len(s) /\ j \notin 1..Len(s)
    <3>1. r(i) <= m
      BY <1>3, <1>4, <2>3 DEF Between
    <3>2. n <= r(j)
      BY <1>4, <2>3 DEF Between
    <3>3. r(i) \in Int /\ r(j) \in Int
      BY <1>5
    <3>. QED
      BY <3>1, <3>2, <3>3
  <2>. QED
    BY <2>1, <2>2, <2>3, <1>3, <1>7
<1>. QED
  BY <1>2, <1>6, <1>7 DEF Between, Ascending, r

\* The locks of a posting whose accounts are in order.
LEMMA PostingBetween ==
  ASSUME NEW a \in Name, NEW b \in Name,
         Rank(<<"account", a>>) < Rank(<<"account", b>>), Rank(<<"account", b>>) < 10
  PROVE  Between(Posting(a, b), Rank(<<"account", a>>), 10)
<1>. DEFINE s == Posting(a, b)
<1>1. s = <<ForUpdate("account", a), ForUpdate("account", b), Sequence("LED")>>
  BY DEF Posting
<1>2. Len(s) = 3 /\ s \in Seq(AnyLock)
  BY <1>1 DEF AnyLock, Kind, Name, ForUpdate, Sequence
<1>3. /\ s[1].row = <<"account", a>>
      /\ s[2].row = <<"account", b>>
      /\ Rank(s[3].row) = 10
  BY <1>1 DEF Rank, ForUpdate, Sequence
<1>. HIDE DEF s
<1>4. Ascending(s)
  <2>. DEFINE r(i) == Rank(s[i].row)
  <2>1. r(1) \in Int /\ r(2) \in Int /\ r(3) \in Int
    BY RankType
  <2>2. r(1) < r(2) /\ r(2) < r(3)
    BY <1>3
  <2>. HIDE DEF r
  <2>3. \A i, j \in 1..3 : i < j => r(i) < r(j)
    <3>. SUFFICES ASSUME NEW i \in 1..3, NEW j \in 1..3, i < j
                  PROVE  r(i) < r(j)
      OBVIOUS
    <3>1. (i = 1 /\ j = 2) \/ (i = 1 /\ j = 3) \/ (i = 2 /\ j = 3)
      OBVIOUS
    <3>. QED
      BY <2>1, <2>2, <3>1
  <2>. QED
    BY <1>2, <2>3 DEF Ascending, r
<1>5. \A i \in 1..3 : /\ Rank(<<"account", a>>) <= Rank(s[i].row)
                       /\ Rank(s[i].row) <= 10
  BY <1>3, RankType
<1>. QED
  BY <1>2, <1>4, <1>5 DEF Between, s

\* The ranks of single locks.
LEMMA Ranks ==
  ASSUME NEW x \in Subject
  PROVE  /\ Rank(<<"payment", x>>) = 1
         /\ Rank(<<"agent", x>>) = 3
         /\ Rank(<<"plan", x>>) = 13
         /\ Rank(<<"loan", x>>) = 14
         /\ Rank(<<"sequence", "AGS">>) = 2
         /\ Rank(<<"sequence", "AGC">>) = 4
         /\ Rank(<<"sequence", "PAY">>) = 11
         /\ Rank(<<"sequence", "LON">>) = 12
         /\ Rank(<<"sequence", "PYT">>) = 15
         /\ Rank(<<"account", "CASH_IN_HAND">>) = 5
         /\ Rank(<<"account", "COMMISSION_EXPENSE">>) = 6
         /\ Rank(<<"account", "LOAN_PRINCIPAL">>) = 7
         /\ Rank(<<"account", "SAVINGS_POOL">>) = 8
         /\ Rank(<<"account", "SETTLEMENT">>) = 9
BY DEF Rank

\* A single row, locked either way.
LEMMA AloneUpdate ==
  ASSUME NEW kind \in Kind, NEW name \in Name
  PROVE  LET r == Rank(<<kind, name>>)
         IN /\ Between(<<ForUpdate(kind, name)>>, r, r)
            /\ Between(<<KeyShare(kind, name)>>, r, r)
<1>1. ForUpdate(kind, name) \in AnyLock /\ KeyShare(kind, name) \in AnyLock
  BY DEF ForUpdate, KeyShare, AnyLock
<1>2. /\ ForUpdate(kind, name).row = <<kind, name>>
      /\ KeyShare(kind, name).row = <<kind, name>>
  BY DEF ForUpdate, KeyShare
<1>. QED
  BY <1>1, <1>2, Alone

\* The locks of seven services ascend.
LEMMA OrderedAscend ==
  ASSUME NEW x \in Subject, NEW y \in Subject
  PROVE  /\ Between(SettleContribution(x), 1, 13)
         /\ Between(SettleRepayment(x), 1, 14)
         /\ Between(AgentCollection(x, y), 3, 13)
         /\ Between(RequestSettlement(x), 2, 3)
         /\ Between(SettleCommissions(x), 6, 10)
         /\ Between(RequestPayout(x), 13, 15)
         /\ Between(DisburseLoan(x), 7, 12)
<1>. /\ Subject \subseteq Name
     /\ {"payment", "agent", "account", "sequence", "plan", "loan"} \subseteq Kind
     /\ {"CASH_IN_HAND", "COMMISSION_EXPENSE", "LOAN_PRINCIPAL", "SAVINGS_POOL",
         "SETTLEMENT", "AGS", "AGC", "PAY", "LON", "PYT"} \subseteq Name
  BY DEF Name, Kind
<1>0. /\ Between(Posting("SAVINGS_POOL", "SETTLEMENT"), 8, 10)
      /\ Between(Posting("LOAN_PRINCIPAL", "SETTLEMENT"), 7, 10)
      /\ Between(Posting("CASH_IN_HAND", "SAVINGS_POOL"), 5, 10)
      /\ Between(Posting("COMMISSION_EXPENSE", "SETTLEMENT"), 6, 10)
  <2>. /\ Rank(<<"account", "CASH_IN_HAND">>) = 5
       /\ Rank(<<"account", "COMMISSION_EXPENSE">>) = 6
       /\ Rank(<<"account", "LOAN_PRINCIPAL">>) = 7
       /\ Rank(<<"account", "SAVINGS_POOL">>) = 8
       /\ Rank(<<"account", "SETTLEMENT">>) = 9
    BY Ranks
  <2>1. Between(Posting("SAVINGS_POOL", "SETTLEMENT"), 8, 10)
    BY PostingBetween
  <2>2. Between(Posting("LOAN_PRINCIPAL", "SETTLEMENT"), 7, 10)
    BY PostingBetween
  <2>3. Between(Posting("CASH_IN_HAND", "SAVINGS_POOL"), 5, 10)
    BY PostingBetween
  <2>4. Between(Posting("COMMISSION_EXPENSE", "SETTLEMENT"), 6, 10)
    BY PostingBetween
  <2>. QED
    BY <2>1, <2>2, <2>3, <2>4
<1>1. Between(SettleContribution(x), 1, 13)
  <2>1. /\ Between(<<ForUpdate("payment", x)>>, 1, 1)
        /\ Between(<<ForUpdate("plan", x)>>, 13, 13)
    BY AloneUpdate, Ranks
  <2>2. Between(<<ForUpdate("payment", x)>> \o Posting("SAVINGS_POOL", "SETTLEMENT"), 1, 10)
    BY <1>0, <2>1, Joined
  <2>. QED
    BY <2>1, <2>2, Joined DEF SettleContribution
<1>2. Between(SettleRepayment(x), 1, 14)
  <2>1. /\ Between(<<ForUpdate("payment", x)>>, 1, 1)
        /\ Between(<<ForUpdate("loan", x)>>, 14, 14)
    BY AloneUpdate, Ranks
  <2>2. Between(<<ForUpdate("payment", x)>> \o Posting("LOAN_PRINCIPAL", "SETTLEMENT"), 1, 10)
    BY <1>0, <2>1, Joined
  <2>. QED
    BY <2>1, <2>2, Joined DEF SettleRepayment
<1>3. Between(RequestSettlement(x), 2, 3)
  <2>1. /\ Sequence("AGS") \in AnyLock /\ Rank(Sequence("AGS").row) = 2
        /\ KeyShare("agent", x) \in AnyLock /\ Rank(KeyShare("agent", x).row) = 3
    BY Ranks DEF Sequence, ForUpdate, KeyShare, AnyLock
  <2>. QED
    BY <2>1, Pair DEF RequestSettlement
<1>6. Between(RequestPayout(x), 13, 15)
  <2>1. /\ Sequence("PYT") \in AnyLock /\ Rank(Sequence("PYT").row) = 15
        /\ ForUpdate("plan", x) \in AnyLock /\ Rank(ForUpdate("plan", x).row) = 13
    BY Ranks DEF Sequence, ForUpdate, AnyLock
  <2>. QED
    BY <2>1, Pair DEF RequestPayout
<1>7. Between(AgentCollection(x, y), 3, 13)
  <2>1. /\ ForUpdate("agent", x) \in AnyLock /\ Rank(ForUpdate("agent", x).row) = 3
        /\ Sequence("AGC") \in AnyLock /\ Rank(Sequence("AGC").row) = 4
        /\ Sequence("PAY") \in AnyLock /\ Rank(Sequence("PAY").row) = 11
        /\ ForUpdate("plan", y) \in AnyLock /\ Rank(ForUpdate("plan", y).row) = 13
    BY Ranks DEF Sequence, ForUpdate, AnyLock
  <2>2. /\ Between(<<ForUpdate("agent", x), Sequence("AGC")>>, 3, 4)
        /\ Between(<<Sequence("PAY"), ForUpdate("plan", y)>>, 11, 13)
    BY <2>1, Pair
  <2>3. Between(<<ForUpdate("agent", x), Sequence("AGC")>>
                  \o Posting("CASH_IN_HAND", "SAVINGS_POOL"), 3, 10)
    BY <1>0, <2>2, Joined
  <2>. QED
    BY <2>2, <2>3, Joined DEF AgentCollection
<1>4. Between(SettleCommissions(x), 6, 10)
  BY <1>0 DEF SettleCommissions
<1>5. Between(DisburseLoan(x), 7, 12)
  <2>1. Between(<<Sequence("LON")>>, 12, 12)
    BY AloneUpdate, Ranks DEF Sequence
  <2>. QED
    BY <1>0, <2>1, Joined DEF DisburseLoan
<1>. QED
  BY <1>1, <1>2, <1>3, <1>4, <1>5, <1>6, <1>7

\* Locks are locks, and ascend for the services in order.
LEMMA LocksTyped ==
  ASSUME NEW s \in Services, NEW x \in Subject, NEW y \in Subject
  PROVE  /\ Locks(s, x, y) \in Seq(AnyLock)
         /\ s \in Ordered => Ascending(Locks(s, x, y))
<1>1. CASE s \in Ordered
  <2>1. \E lo, hi : Between(Locks(s, x, y), lo, hi)
    BY <1>1, OrderedAscend DEF Ordered, AgainstTheOrder, Services, Locks
  <2>. QED
    BY <2>1 DEF Between
<1>2. CASE s \in AgainstTheOrder
  <2>1. /\ Posting("CASH_IN_HAND", "SAVINGS_POOL") \in Seq(AnyLock)
        /\ Posting("CASH_IN_HAND", "SETTLEMENT") \in Seq(AnyLock)
        /\ Posting("SAVINGS_POOL", "SETTLEMENT") \in Seq(AnyLock)
    BY DEF Posting, Sequence, ForUpdate, AnyLock, Kind, Name
  <2>2. /\ <<ForUpdate("agent", x), ForUpdate("account", "SAVINGS_POOL"), Sequence("AGP")>>
              \in Seq(AnyLock)
        /\ <<KeyShare("agent", x)>> \in Seq(AnyLock)
        /\ <<ForUpdate("plan", x)>> \in Seq(AnyLock)
    BY DEF Sequence, ForUpdate, KeyShare, AnyLock, Kind, Name
  <2>3. AgentPayout(x) \in Seq(AnyLock)
    BY <2>1, <2>2, ConcatProperties DEF AgentPayout
  <2>4. ApproveSettlement(x) \in Seq(AnyLock)
    BY <2>1, <2>2, ConcatProperties DEF ApproveSettlement
  <2>5. SavingsPayout(x) \in Seq(AnyLock)
    BY <2>1, <2>2, ConcatProperties DEF SavingsPayout
  <2>. QED
    BY <1>2, <2>3, <2>4, <2>5 DEF AgainstTheOrder, Ordered, Locks
<1>. QED
  BY <1>1, <1>2 DEF Ordered
-----------------------------------------------------------------------------
(***************************************************************************)
(* The sessions.                                                           *)
(***************************************************************************)
RowsInv ==
  /\ service \in [Session -> Services \cup {"none"}]
  /\ held \in [Session -> SUBSET AnyLock]
  /\ todo \in [Session -> Seq(AnyLock)]
  /\ \A p \in Session : Idle(p) => held[p] = {} /\ todo[p] = <<>>

\* What an ordered service has still to lock comes after what it holds, and in
\* ascending order itself.
OrderInv ==
  \A p \in Session : service[p] \in Ordered =>
    /\ Ascending(todo[p])
    /\ \A l \in held[p], i \in 1..Len(todo[p]) : Rank(l.row) < Rank(todo[p][i].row)

Inv == RowsInv /\ OrderInv

\* A service that begins holds nothing.
LEMMA BeginInductive ==
  ASSUME Inv, NEW p \in Session, Begin(p)
  PROVE  Inv'
<1>1. PICK s \in Services, x \in Subject, y \in Subject :
        /\ service' = [service EXCEPT ![p] = s]
        /\ todo' = [todo EXCEPT ![p] = Locks(s, x, y)]
  BY DEF Begin
<1>2. held' = held /\ held[p] = {}
  BY DEF Begin, Inv, RowsInv
<1>3. RowsInv'
  BY <1>1, <1>2, LocksTyped DEF Inv, RowsInv, Idle, Services
<1>4. OrderInv'
  BY <1>1, <1>2, LocksTyped DEF Inv, RowsInv, OrderInv
<1>. QED
  BY <1>3, <1>4 DEF Inv

\* A commit or an abort gives up all locks.
LEMMA ReleaseInductive ==
  ASSUME Inv, NEW p \in Session, Release(p)
  PROVE  Inv'
<1>1. RowsInv'
  BY DEF Release, Inv, RowsInv, Idle
<1>2. "none" \notin Ordered
  BY DEF Ordered, Services
<1>3. OrderInv'
  BY <1>2 DEF Release, Inv, RowsInv, OrderInv
<1>. QED
  BY <1>1, <1>3 DEF Inv

\* Taking the next lock keeps what is still to lock above what is held.
LEMMA LockInductive ==
  ASSUME Inv, NEW p \in Session, Lock(p)
  PROVE  Inv'
<1>. DEFINE s == todo[p]
<1>1. s \in Seq(AnyLock) /\ s # <<>>
  BY DEF Lock, Inv, RowsInv
<1>2. /\ Head(s) \in AnyLock /\ Head(s) = s[1]
      /\ Tail(s) \in Seq(AnyLock) /\ Len(Tail(s)) = Len(s) - 1 /\ Len(s) \in Nat \ {0}
      /\ \A i \in 1..Len(Tail(s)) : Tail(s)[i] = s[i + 1]
  BY <1>1, HeadTailProperties
<1>3. /\ service' = service
      /\ held' = [held EXCEPT ![p] = @ \cup {Head(s)}]
      /\ todo' = [todo EXCEPT ![p] = Tail(s)]
  BY DEF Lock
<1>. HIDE DEF s
<1>4. RowsInv'
  <2>1. ~Idle(p)
    BY <1>1 DEF Inv, RowsInv, s
  <2>2. held' \in [Session -> SUBSET AnyLock] /\ todo' \in [Session -> Seq(AnyLock)]
    BY <1>2, <1>3 DEF Inv, RowsInv
  <2>3. \A q \in Session \ {p} : held'[q] = held[q] /\ todo'[q] = todo[q]
    BY <1>3 DEF Inv, RowsInv
  <2>. QED
    BY <1>3, <2>1, <2>2, <2>3 DEF Inv, RowsInv, Idle
<1>5. OrderInv'
  <2>. SUFFICES ASSUME NEW q \in Session, service[q] \in Ordered
                PROVE  /\ Ascending(todo'[q])
                       /\ \A l \in held'[q], i \in 1..Len(todo'[q]) :
                            Rank(l.row) < Rank(todo'[q][i].row)
    BY <1>3 DEF OrderInv
  <2>1. CASE q # p
    BY <1>3, <2>1 DEF Inv, RowsInv, OrderInv
  <2>2. CASE q = p
    <3>1. todo'[q] = Tail(s) /\ held'[q] = held[p] \cup {s[1]}
      BY <1>2, <1>3, <2>2 DEF Inv, RowsInv
    <3>2. /\ Ascending(s)
          /\ \A l \in held[p], i \in 1..Len(s) : Rank(l.row) < Rank(s[i].row)
      BY <2>2 DEF Inv, OrderInv, s
    <3>3. \A i \in 1..Len(Tail(s)) : /\ i + 1 \in 1..Len(s)
                                     /\ Tail(s)[i] = s[i + 1]
      BY <1>2
    <3>4. Ascending(Tail(s))
      BY <1>2, <3>2, <3>3 DEF Ascending
    <3>5. ASSUME NEW l \in held[p] \cup {s[1]}, NEW i \in 1..Len(Tail(s))
          PROVE  Rank(l.row) < Rank(Tail(s)[i].row)
      <4>1. CASE l \in held[p]
        BY <3>2, <3>3, <4>1
      <4>2. CASE l = s[1]
        <5>1. 1 \in 1..Len(s) /\ i + 1 \in 1..Len(s) /\ 1 < i + 1
          BY <1>2
        <5>. QED
          BY <3>2, <3>3, <4>2, <5>1 DEF Ascending
      <4>. QED
        BY <4>1, <4>2
    <3>. QED
      BY <3>1, <3>4, <3>5
  <2>. QED
    BY <2>1, <2>2
<1>. QED
  BY <1>4, <1>5 DEF Inv

\* The types, and the order of what each ordered service holds and has to lock,
\* in every reachable state.
THEOREM Invariant == Spec => []Inv
<1>1. Init => Inv
  BY DEF Init, Inv, RowsInv, OrderInv, Ordered, Services, Idle
<1>2. Inv /\ [Next]_vars => Inv'
  <2>. SUFFICES ASSUME Inv, [Next]_vars
                PROVE  Inv'
    OBVIOUS
  <2>1. ASSUME NEW p \in Session, Begin(p)
        PROVE  Inv'
    BY <2>1, BeginInductive
  <2>2. ASSUME NEW p \in Session, Lock(p)
        PROVE  Inv'
    BY <2>2, LockInductive
  <2>3. ASSUME NEW p \in Session, Commit(p) \/ Rollback(p) \/ DetectDeadlock(p)
        PROVE  Inv'
    BY <2>3, ReleaseInductive DEF Commit, Rollback, DetectDeadlock
  <2>4. CASE UNCHANGED vars
    BY <2>4 DEF vars, Inv, RowsInv, OrderInv, Idle
  <2>. QED
    BY <2>1, <2>2, <2>3, <2>4 DEF Next
<1>. QED
  BY <1>1, <1>2, PTL DEF Spec
-----------------------------------------------------------------------------
(***************************************************************************)
(* Circles.                                                                *)
(***************************************************************************)
\* A session waits for a lower row than the ordered one in its way does.
LEMMA WaitingAscends ==
  ASSUME Inv, NEW p \in Session, NEW q \in Session, Waits(p, q),
         service[q] \in Ordered, todo[q] # <<>>
  PROVE  Rank(Head(todo[p]).row) < Rank(Head(todo[q]).row)
<1>1. PICK l \in held[q] : l.row = Head(todo[p]).row
  BY DEF Waits, Conflict
<1>2. Head(todo[q]) = todo[q][1] /\ 1 \in 1..Len(todo[q])
  BY HeadTailProperties DEF Inv, RowsInv
<1>3. Rank(l.row) < Rank(todo[q][1].row)
  BY <1>2 DEF Inv, OrderInv
<1>. QED
  BY <1>1, <1>2, <1>3

\* A circle of waits without an offender would ascend for ever.
LEMMA NoCircle ==
  ASSUME Inv, NEW S \in SUBSET Session, Deadlocked(S),
         \A p \in S : service[p] \notin AgainstTheOrder
  PROVE  FALSE
<1>. DEFINE Above(p) == 15 - Rank(Head(todo[p]).row)
            Left == {Above(p) : p \in S}
            Less == OpToRel(<, Nat)
<1>1. \A p \in S : todo[p] # <<>> /\ service[p] \in Ordered
  BY DEF Deadlocked, Waits, Inv, RowsInv, Idle, Ordered
<1>2. \A p \in S : Above(p) \in Nat
  BY RankType
<1>3. \A p \in S : \E q \in S : Above(q) < Above(p)
  <2>. SUFFICES ASSUME NEW p \in S
                PROVE  \E q \in S : Above(q) < Above(p)
    OBVIOUS
  <2>1. PICK q \in S : Waits(p, q)
    BY DEF Deadlocked
  <2>2. Rank(Head(todo[p]).row) < Rank(Head(todo[q]).row)
    BY <1>1, <2>1, WaitingAscends
  <2>. QED
    BY <2>2, RankType
<1>4. Left # {}
  BY DEF Deadlocked
<1>. HIDE DEF Above
<1>5. PICK x \in Left : \A y \in Left : <<y, x>> \notin Less
  <2>1. Left \subseteq Nat
    BY <1>2
  <2>. HIDE DEF Left, Less
  <2>2. IsWellFoundedOn(Less, Nat)
    BY NatLessThanWellFounded DEF Less
  <2>. QED
    BY <1>4, <2>1, <2>2, WFMin
<1>6. PICK p \in S, q \in S : x = Above(p) /\ Above(q) < Above(p)
  BY <1>3
<1>7. <<Above(q), x>> \in Less
  BY <1>2, <1>6 DEF OpToRel
<1>. QED
  BY <1>5, <1>6, <1>7

\* However many sessions, customers and agents there are: every circle of
\* waits among the services that move money has a payout of an agent or of a
\* plan or the approval of a settlement in it.
THEOREM CirclesNeedAnOffender == Spec => []OtherServicesNeverDeadlock
<1>1. Inv => OtherServicesNeverDeadlock
  BY NoCircle DEF OtherServicesNeverDeadlock
<1>. QED
  BY <1>1, Invariant, PTL
=============================================================================
