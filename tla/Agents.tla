------------------------------- MODULE Agents -------------------------------
(***************************************************************************)
(* Field agents of apps/agents/services.py: cash collections, payouts to   *)
(* customers, and the hand-over of the collected cash, each reached through *)
(* its GraphQL resolver, run by several workers at once.                   *)
(*                                                                         *)
(* A collection or payout reads its idempotency key without a lock, then   *)
(* locks the agent's row and judges the limits, then posts and commits.    *)
(* A settlement is reviewed and approved by finance officers who hold a    *)
(* copy of its row that nobody refreshes, and the agent's float is checked *)
(* without a lock.  The ledger is the book of module Book: what             *)
(* post_transaction makes of a call is one atomic step here, as module     *)
(* Ledger shows it may be.  Commissions accrue with each collection, one   *)
(* row per transaction, and are left out; so is the savings plan a          *)
(* collection is credited to, which is module Savings.                     *)
(***************************************************************************)
EXTENDS Integers, Sequences, FiniteSets, FiniteSetsExt

CONSTANTS
  Agent,          \* field agents
  Worker,         \* web workers, each serving one call at a time
  ClientKey,      \* idempotency keys the agents' devices choose: any text, so
                  \* also a reference of the platform, which is a number here
  EmptyKey,       \* the empty idempotency key
  Nobody,         \* owner of a row nobody has locked
  Amounts,        \* amounts asked for
  SingleLimit, DailyCashIn, DailyPayout, MonthlyLimit,   \* AgentLimit
  LastDay,        \* bound on the days that pass, all in one month
  MaxTransactions, MaxSettlements   \* bounds on the rows created

ASSUME AgentsAssumption ==
  /\ Amounts \subseteq Nat \ {0}
  /\ {SingleLimit, DailyCashIn, DailyPayout, MonthlyLimit} \subseteq Nat
  /\ {MaxTransactions, MaxSettlements} \subseteq Nat
  /\ LastDay \in Nat \ {0}
  /\ EmptyKey \notin ClientKey
  /\ Nobody \notin Worker

VARIABLES
  standing,    \* Agent.status
  txns,        \* AgentTransaction rows, SUCCESS, in the order of commit
  settlements, \* AgentSettlement rows with the number of their movements
  ledger,      \* posted ledger transactions, in order
  owner,       \* worker that holds the lock of an agent's row
  call,        \* what each worker is doing
  today        \* the calendar day

vars == <<standing, txns, settlements, ledger, owner, call, today>>

\* SUSPENDED and DEACTIVATED are one: every service asks for ACTIVE only.
Standing == {"ACTIVE", "BARRED"}
Kind == {"CASH_COLLECTION", "CUSTOMER_PAYOUT"}
Progress == {"SETTLEMENT_REQUESTED", "UNDER_REVIEW", "SETTLED"}

Account == {"CASH_IN_HAND", "SAVINGS_POOL", "SETTLEMENT"}
DebitNormal == {"CASH_IN_HAND", "SETTLEMENT"}
MayGoNegative == {"CASH_IN_HAND", "SETTLEMENT"}

AgentTransaction ==
  [agent : Agent, kind : Kind, amount : Amounts, key : ClientKey \cup {EmptyKey},
   day : 1..LastDay]
AgentSettlement ==
  [agent : Agent, amount : Nat, status : Progress, movements : Nat]

\* does: where the call stands; row: the settlement whose copy an officer
\* holds, with the status the copy has.
Idle == [does |-> "nothing"]
Call ==
  {Idle}
    \cup [does : {"started", "within_limits"}, agent : Agent, kind : Kind,
          amount : Amounts, key : ClientKey \cup {EmptyKey}]
    \cup [does : {"reviewing", "float_checked"}, row : 1..MaxSettlements,
          status : Progress]

Init ==
  /\ standing = [a \in Agent |-> "ACTIVE"]
  /\ txns = <<>>
  /\ settlements = <<>>
  /\ ledger = <<>>
  /\ owner = [a \in Agent |-> Nobody]
  /\ call = [w \in Worker |-> Idle]
  /\ today = 1

Becomes(w, c) == call' = [call EXCEPT ![w] = c]

\* The call of w ends; its row lock goes.
Ends(w) ==
  /\ Becomes(w, Idle)
  /\ owner' = [a \in Agent |-> IF owner[a] = w THEN Nobody ELSE owner[a]]
-----------------------------------------------------------------------------
(***************************************************************************)
(* The ledger, as the services use it.                                     *)
(***************************************************************************)
\* Entries of a transaction that debits one account and credits another.
Move(debit, credit, amount) ==
  [a \in Account |-> IF a = debit THEN amount
                     ELSE IF a = credit THEN 0 - amount ELSE 0]

Legs(kind, amount) ==
  IF kind = "CASH_COLLECTION" THEN Move("CASH_IN_HAND", "SAVINGS_POOL", amount)
  ELSE Move("SAVINGS_POOL", "CASH_IN_HAND", amount)

Balance ==
  [a \in Account |->
     SumFunction([n \in DOMAIN ledger |->
                    IF a \in DebitNormal THEN ledger[n].legs[a]
                    ELSE 0 - ledger[n].legs[a]])]

PostedAs(key) == {n \in DOMAIN ledger : ledger[n].key = key}

\* Mutant: the pool is not guarded.
CoveredUnchecked(amount) == TRUE

\* The pool row of a payout, read with its lock, and _apply_to_balance.
Covered(amount) == Balance["SAVINGS_POOL"] >= amount

\* post_transaction: a key that is posted is replayed if the entries agree; if
\* they do not, the call fails.
Post(key, legs) ==
  \/ /\ PostedAs(key) = {}
     /\ ledger' = Append(ledger, [key |-> key, legs |-> legs])
  \/ /\ \E n \in PostedAs(key) : ledger[n].legs = legs
     /\ UNCHANGED ledger

\* Mutant: the key is taken as it comes, even when there is none.
TransactionKeyUnnumbered(kind, key, number) == <<kind, key>>

\* agentcoll:<key or reference>, agentpay:<key or reference>
TransactionKey(kind, key, number) ==
  <<kind, IF key = EmptyKey THEN number ELSE key>>

\* Mutant: every approval posts under a key of its own.
SettlementKeyPerPosting(s) == <<"agentsettle", Len(ledger) + 1>>

\* agentsettle:<reference>
SettlementKey(s) == <<"agentsettle", s>>
-----------------------------------------------------------------------------
(***************************************************************************)
(* Collections and payouts.                                                *)
(***************************************************************************)
WithKey(k) == {n \in DOMAIN txns : txns[n].key = k}

\* _validate_agent_ready, on the agent object its resolver read.
Ready(a) == standing[a] = "ACTIVE"

\* A key that is known returns the transaction it names, or is a conflict, and
\* changes nothing; one that is not, or is empty, goes on.
Unknown(k) == k # EmptyKey => WithKey(k) = {}

Starts(w, kind) ==
  /\ call[w] = Idle
  /\ Len(txns) < MaxTransactions
  /\ \E a \in Agent, amount \in Amounts, k \in ClientKey \cup {EmptyKey} :
       /\ Ready(a)
       /\ Unknown(k)
       /\ Becomes(w, [does |-> "started", agent |-> a, kind |-> kind,
                      amount |-> amount, key |-> k])
  /\ UNCHANGED <<standing, txns, settlements, ledger, owner, today>>

\* The resolvers, whose agent is the one of the signed-in user.
StartCollection(w) == Starts(w, "CASH_COLLECTION")
StartPayout(w) == Starts(w, "CUSTOMER_PAYOUT")

Volume(rows) == SumFunctionOnSet([n \in DOMAIN txns |-> txns[n].amount], rows)
Of(a) == {n \in DOMAIN txns : txns[n].agent = a}
OfKind(a, kind) == {n \in Of(a) : txns[n].kind = kind}
OnDay(a, kind, day) == {n \in OfKind(a, kind) : txns[n].day = day}
Upto(a, last) == {n \in Of(a) : n <= last}

\* _daily_total
DailyTotal(a, kind) == Volume(OnDay(a, kind, today))

\* The month counts for collections only, though payouts are part of it.
CollectionAllowed(a, amount) ==
  /\ amount <= SingleLimit
  /\ DailyTotal(a, "CASH_COLLECTION") + amount <= DailyCashIn
  /\ Volume(Of(a)) + amount <= MonthlyLimit

PayoutAllowed(a, amount) ==
  /\ amount <= SingleLimit
  /\ DailyTotal(a, "CUSTOMER_PAYOUT") + amount <= DailyPayout

WithinLimits(c) ==
  IF c.kind = "CASH_COLLECTION" THEN CollectionAllowed(c.agent, c.amount)
  ELSE PayoutAllowed(c.agent, c.amount)

\* Mutant: the totals are read before the row is locked.
RowIsFreeUnlocked(a) == TRUE

RowIsFree(a) == owner[a] = Nobody

\* SELECT ... FOR UPDATE of the agent, then the totals, committed and final
\* for as long as the lock is held.
LockAndCheck(w) ==
  /\ call[w].does = "started"
  /\ RowIsFree(call[w].agent)
  /\ WithinLimits(call[w])
  /\ owner' = [owner EXCEPT ![call[w].agent] = w]
  /\ Becomes(w, [call[w] EXCEPT !.does = "within_limits"])
  /\ UNCHANGED <<standing, txns, settlements, ledger, today>>

\* Mutant: no unique index on the keys.
KeyIsFreeUnchecked(k) == TRUE

\* uniq_agent_txn_idempotency, over both kinds of transaction.
KeyIsFree(k) == k # EmptyKey => WithKey(k) = {}

\* Posting, transaction row, float movement and commit.
Records(w) ==
  LET c == call[w]
  IN /\ Len(txns) < MaxTransactions
     /\ KeyIsFree(c.key)
     /\ Post(TransactionKey(c.kind, c.key, Len(txns) + 1), Legs(c.kind, c.amount))
     /\ txns' = Append(txns, [agent |-> c.agent, kind |-> c.kind,
                              amount |-> c.amount, key |-> c.key, day |-> today])

Collect(w) ==
  /\ call[w].does = "within_limits"
  /\ call[w].kind = "CASH_COLLECTION"
  /\ Records(w)
  /\ Ends(w)
  /\ UNCHANGED <<standing, settlements, today>>

PayOut(w) ==
  /\ call[w].does = "within_limits"
  /\ call[w].kind = "CUSTOMER_PAYOUT"
  /\ Covered(call[w].amount)
  /\ Records(w)
  /\ Ends(w)
  /\ UNCHANGED <<standing, settlements, today>>

\* A limit, a short pool, a taken key, a plan that is closed, or a connection
\* that is lost: nothing of the call stays.
GiveUp(w) ==
  /\ call[w] # Idle
  /\ Ends(w)
  /\ UNCHANGED <<standing, txns, settlements, ledger, today>>
-----------------------------------------------------------------------------
(***************************************************************************)
(* Settlements.                                                            *)
(***************************************************************************)
\* agent_float_balance: collected, less paid out, less what movements of
\* settlements that are SETTLED took.
Float(a) ==
  LET settled == {s \in DOMAIN settlements : /\ settlements[s].agent = a
                                             /\ settlements[s].status = "SETTLED"}
  IN Volume(OfKind(a, "CASH_COLLECTION")) - Volume(OfKind(a, "CUSTOMER_PAYOUT"))
       - SumFunction([s \in settled |->
                        settlements[s].amount * settlements[s].movements])

\* Requests that are still open do not count against the float, so reading it
\* and inserting the row may be one step: a movement in between has the effect
\* of one that comes after.
RequestSettlement(a) ==
  /\ Len(settlements) < MaxSettlements
  /\ \E amount \in Amounts \cup {Float(a)} :
       /\ amount > 0
       /\ amount <= Float(a)
       /\ settlements' = Append(settlements,
            [agent |-> a, amount |-> amount, status |-> "SETTLEMENT_REQUESTED",
             movements |-> 0])
  /\ UNCHANGED <<standing, txns, ledger, owner, call, today>>

\* The resolver of an officer reads the settlement.
OpenSettlement(w) ==
  /\ call[w] = Idle
  /\ \E s \in DOMAIN settlements :
       Becomes(w, [does |-> "reviewing", row |-> s,
                   status |-> settlements[s].status])
  /\ UNCHANGED <<standing, txns, settlements, ledger, owner, today>>

\* review_agent_settlement(approve=True), in a transaction of its own: the
\* guard looks at the copy, the write goes to the row.  Nothing in the
\* repository calls it with approve=False.
Review(w) ==
  /\ call[w].does = "reviewing"
  /\ call[w].status = "SETTLEMENT_REQUESTED"
  /\ settlements' = [settlements EXCEPT ![call[w].row].status = "UNDER_REVIEW"]
  /\ Becomes(w, [call[w] EXCEPT !.status = "UNDER_REVIEW"])
  /\ UNCHANGED <<standing, txns, ledger, owner, today>>

\* approve_agent_settlement: the status of the copy and the float, unlocked.
CheckFloat(w) ==
  /\ call[w].does = "reviewing"
  /\ call[w].status = "UNDER_REVIEW"
  /\ LET s == settlements[call[w].row] IN Float(s.agent) >= s.amount
  /\ Becomes(w, [call[w] EXCEPT !.does = "float_checked"])
  /\ UNCHANGED <<standing, txns, settlements, ledger, owner, today>>

MovementsAfter(s) == settlements[s].movements + 1

\* Posting, movement and every column of the copy.  The movement's foreign key
\* waits for a collection that has locked the agent's row.
Approve(w) ==
  /\ call[w].does = "float_checked"
  /\ LET s == call[w].row
     IN /\ RowIsFree(settlements[s].agent)
        /\ Post(SettlementKey(s),
                Move("SETTLEMENT", "CASH_IN_HAND", settlements[s].amount))
        /\ settlements' = [settlements EXCEPT ![s].movements = MovementsAfter(s),
                                              ![s].status = "SETTLED"]
  /\ Ends(w)
  /\ UNCHANGED <<standing, txns, today>>
-----------------------------------------------------------------------------
\* set_agent_status: any status may follow any other.
SetAgentStatus(a) ==
  /\ \E to \in Standing \ {standing[a]} : standing' = [standing EXCEPT ![a] = to]
  /\ UNCHANGED <<txns, settlements, ledger, owner, call, today>>

NextDay ==
  /\ today < LastDay
  /\ today' = today + 1
  /\ UNCHANGED <<standing, txns, settlements, ledger, owner, call>>

Next ==
  \/ NextDay
  \/ \E a \in Agent : RequestSettlement(a) \/ SetAgentStatus(a)
  \/ \E w \in Worker :
       \/ StartCollection(w) \/ StartPayout(w) \/ LockAndCheck(w)
       \/ Collect(w) \/ PayOut(w) \/ GiveUp(w)
       \/ OpenSettlement(w) \/ Review(w) \/ CheckFloat(w)
       \/ Approve(w)

Spec == Init /\ [][Next]_vars
-----------------------------------------------------------------------------
(***************************************************************************)
(* Properties.                                                             *)
(***************************************************************************)
Posting == [key : (Kind \X (ClientKey \cup Nat)) \cup ({"agentsettle"} \X Nat),
            legs : [Account -> Int]]

TypeOK ==
  /\ standing \in [Agent -> Standing]
  /\ txns \in Seq(AgentTransaction)
  /\ settlements \in Seq(AgentSettlement)
  /\ ledger \in Seq(Posting)
  /\ owner \in [Agent -> Worker \cup {Nobody}]
  /\ call \in [Worker -> Call]
  /\ today \in 1..LastDay

\* "Race-safe enforcement" of the limits (AgentLimit; the row lock of
\* agent_cash_collection and agent_customer_payout): on no day do an agent's
\* collections or payouts exceed the day's limit, and no collection takes the
\* month past its limit, however many calls arrive at once and whenever
\* midnight falls.
LimitsHold ==
  \A a \in Agent :
    /\ \A day \in 1..LastDay :
         /\ Volume(OnDay(a, "CASH_COLLECTION", day)) <= DailyCashIn
         /\ Volume(OnDay(a, "CUSTOMER_PAYOUT", day)) <= DailyPayout
    /\ \A n \in OfKind(a, "CASH_COLLECTION") : Volume(Upto(a, n)) <= MonthlyLimit

\* n has no key, so it is posted under its reference, and m was given just that
\* reference as its key.
TookReference(m, n) == txns[m].key = n /\ txns[n].key = EmptyKey

PostedAlone ==
  \A m, n \in DOMAIN txns :
    m # n /\ TransactionKey(txns[m].kind, txns[m].key, m)
               = TransactionKey(txns[n].kind, txns[n].key, n)
      => TookReference(m, n) \/ TookReference(n, m)

\* A transaction an agent is told succeeded has a ledger transaction that moves
\* its amount the right way: a retry that races the original neither leaves a
\* transaction the ledger only replayed nor moves the money twice.  It is the
\* transaction's own, but for one case: a client key that reads like the reference
\* another transaction is going to get, or has.
TransactionsArePosted ==
  /\ \A n \in DOMAIN txns :
       LET t == txns[n]
       IN \E p \in PostedAs(TransactionKey(t.kind, t.key, n)) :
            ledger[p].legs = Legs(t.kind, t.amount)
  /\ PostedAlone

\* However many officers approve a settlement from copies of it, its cash moves
\* in the ledger once, and never without a movement of the agent's float.
HandedOverOnce ==
  \A s \in DOMAIN settlements :
    LET posted == {n \in DOMAIN ledger :
                     /\ ledger[n].key[1] = "agentsettle"
                     /\ ledger[n].legs["SETTLEMENT"] > 0
                     /\ ledger[n].key[2] = s}
    IN /\ settlements[s].status = "SETTLED" => posted # {}
       /\ Cardinality(posted) <= 1
       /\ posted # {} => settlements[s].movements >= 1

\* "Per-agent collected-not-settled amount (float ledger)" (agent_float_balance):
\* what the agents hold together is the cash account.  Not so: an officer who
\* opened a settlement before another settled it puts it back UNDER_REVIEW, its
\* movement counts no more, the float check passes again and a second movement
\* is written for cash the ledger moves once.
FloatIsUnsettledCash ==
  Balance["CASH_IN_HAND"] = MapThenSumSet(Float, Agent)

\* The postings as the rows of the abstract book.
BookRows ==
  {[number |-> n, key |-> <<"caller", ledger[n].key>>,
    legs |-> ledger[n].legs, reverses |-> 0] : n \in DOMAIN ledger}

Books == INSTANCE Book WITH
  CallerKey <- (Kind \X (ClientKey \cup Nat)) \cup ({"agentsettle"} \X Nat),
  balance <- Balance,
  book <- BookRows

\* Collections, payouts and settlements, retried, repeated and interleaved,
\* are postings the ledger allows, one at a time: the agents' services
\* implement the abstract book (agents/models.py, the postings of its head).
ImplementsBook == Books!BookSpec
=============================================================================
