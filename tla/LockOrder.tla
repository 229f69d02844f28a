------------------------------ MODULE LockOrder -----------------------------
(***************************************************************************)
(* The row locks every money-moving service takes around post_transaction, *)
(* in the order it takes them.  Ledger shows that the posting engine alone *)
(* never makes sessions wait in a circle; this module asks the same of the *)
(* services that call it, which hold rows of their own by then.  A service *)
(* keeps every lock until its transaction ends.                            *)
(*                                                                         *)
(* A row is locked exclusively (SELECT ... FOR UPDATE), or shared, by the  *)
(* foreign key of a row inserted: PostgreSQL locks the row referred to FOR *)
(* KEY SHARE, and does so when the transaction commits, because Django     *)
(* declares its constraints DEFERRABLE INITIALLY DEFERRED.  Rows no other  *)
(* service locks are left out, and so is the replay of a posting, which    *)
(* takes fewer locks of the same order.                                    *)
(*                                                                         *)
(* Rows of one customer, agent, plan or payment are named by a subject;    *)
(* ledger accounts and reference sequences are shared by all of them.      *)
(***************************************************************************)
EXTENDS Sequences, SequencesExt

CONSTANTS
  Session,  \* database sessions
  Subject   \* customers and agents with their plan, payment and loan

VARIABLES
  service,  \* what each session runs, or "none"
  held,     \* locks it has
  todo      \* locks it has still to take, in order

vars == <<service, held, todo>>

ForUpdate(kind, name) == [row |-> <<kind, name>>, shared |-> FALSE]
KeyShare(kind, name) == [row |-> <<kind, name>>, shared |-> TRUE]
Conflict(l, m) == l.row = m.row /\ ~(l.shared /\ m.shared)

Sequence(prefix) == ForUpdate("sequence", prefix)

\* Ledger accounts, in code order, then the LED sequence: post_transaction.
Posting(first, second) ==
  <<ForUpdate("account", first), ForUpdate("account", second), Sequence("LED")>>

\* SETTLEMENT to SAVINGS_POOL under the payment's lock, then the plan or goal.
SettleContribution(x) ==
  <<ForUpdate("payment", x)>> \o Posting("SAVINGS_POOL", "SETTLEMENT")
    \o <<ForUpdate("plan", x)>>

SettleRepayment(x) ==
  <<ForUpdate("payment", x)>> \o Posting("LOAN_PRINCIPAL", "SETTLEMENT")
    \o <<ForUpdate("loan", x)>>

\* Mutant: the collection locks the plan before it posts.
CollectPlanFirst(x, y) ==
  <<ForUpdate("agent", x), Sequence("AGC"), ForUpdate("plan", y)>>
    \o Posting("CASH_IN_HAND", "SAVINGS_POOL") \o <<Sequence("PAY")>>

\* Agent x collects cash for the plan of customer y.
AgentCollection(x, y) ==
  <<ForUpdate("agent", x), Sequence("AGC")>>
    \o Posting("CASH_IN_HAND", "SAVINGS_POOL")
    \o <<Sequence("PAY"), ForUpdate("plan", y)>>

\* An agent pays out cash: SAVINGS_POOL is locked to check it, then posted to.
AgentPayout(x) ==
  <<ForUpdate("agent", x), ForUpdate("account", "SAVINGS_POOL"), Sequence("AGP")>>
    \o Posting("CASH_IN_HAND", "SAVINGS_POOL")

\* The settlement row refers to the agent.
RequestSettlement(x) == <<Sequence("AGS"), KeyShare("agent", x)>>

\* So does the float movement, inserted after the posting.
ApproveSettlement(x) ==
  Posting("CASH_IN_HAND", "SETTLEMENT") \o <<KeyShare("agent", x)>>

SettleCommissions(x) == Posting("COMMISSION_EXPENSE", "SETTLEMENT")

\* A finance officer pays out a plan: the plan first, then the accounts.
SavingsPayout(x) ==
  <<ForUpdate("plan", x)>> \o Posting("SAVINGS_POOL", "SETTLEMENT")

RequestPayout(x) == <<ForUpdate("plan", x), Sequence("PYT")>>

DisburseLoan(x) ==
  Posting("LOAN_PRINCIPAL", "SETTLEMENT") \o <<Sequence("LON")>>

Services ==
  {"SettleContribution", "SettleRepayment", "AgentCollection", "AgentPayout",
   "RequestSettlement", "ApproveSettlement", "SettleCommissions",
   "SavingsPayout", "RequestPayout", "DisburseLoan"}

Locks(s, x, y) ==
  CASE s = "SettleContribution" -> SettleContribution(x)
    [] s = "SettleRepayment" -> SettleRepayment(x)
    [] s = "AgentCollection" -> AgentCollection(x, y)
    [] s = "AgentPayout" -> AgentPayout(x)
    [] s = "RequestSettlement" -> RequestSettlement(x)
    [] s = "ApproveSettlement" -> ApproveSettlement(x)
    [] s = "SettleCommissions" -> SettleCommissions(x)
    [] s = "SavingsPayout" -> SavingsPayout(x)
    [] s = "RequestPayout" -> RequestPayout(x)
    [] s = "DisburseLoan" -> DisburseLoan(x)

AllLocks == UNION {ToSet(Locks(s, x, y)) : s \in Services, x, y \in Subject}

Idle(p) == service[p] = "none"

Init ==
  /\ service = [p \in Session |-> "none"]
  /\ held = [p \in Session |-> {}]
  /\ todo = [p \in Session |-> <<>>]

Begin(p) ==
  /\ Idle(p)
  /\ \E s \in Services, x, y \in Subject :
       /\ service' = [service EXCEPT ![p] = s]
       /\ todo' = [todo EXCEPT ![p] = Locks(s, x, y)]
  /\ UNCHANGED held

\* q holds the row p asks for next.
Waits(p, q) ==
  /\ todo[p] # <<>>
  /\ p # q
  /\ \E l \in held[q] : Conflict(l, Head(todo[p]))

\* The next row is free, or held by p itself.
Lock(p) ==
  /\ todo[p] # <<>>
  /\ \A q \in Session : ~Waits(p, q)
  /\ held' = [held EXCEPT ![p] = @ \cup {Head(todo[p])}]
  /\ todo' = [todo EXCEPT ![p] = Tail(@)]
  /\ UNCHANGED service

Release(p) ==
  /\ service' = [service EXCEPT ![p] = "none"]
  /\ held' = [held EXCEPT ![p] = {}]
  /\ todo' = [todo EXCEPT ![p] = <<>>]

Commit(p) ==
  /\ ~Idle(p)
  /\ todo[p] = <<>>
  /\ Release(p)

\* A guard refuses, or the worker dies: the transaction rolls back.
Rollback(p) == todo[p] # <<>> /\ Release(p)

\* Every member waits for another one.
Deadlocked(S) == S # {} /\ \A p \in S : \E q \in S : Waits(p, q)

\* PostgreSQL aborts a session of a circle after deadlock_timeout.
DetectDeadlock(p) ==
  /\ \E S \in SUBSET Session : p \in S /\ Deadlocked(S)
  /\ Release(p)

Next ==
  \E p \in Session :
    Begin(p) \/ Lock(p) \/ Commit(p) \/ Rollback(p) \/ DetectDeadlock(p)

\* Sessions go on; a waiter gets a lock that keeps becoming free.  Nothing is
\* assumed of DetectDeadlock: a service that ends only because the database
\* aborted it has not got through.
Fairness == \A p \in Session : SF_vars(Lock(p)) /\ WF_vars(Commit(p))

Spec == Init /\ [][Next]_vars
FairSpec == Spec /\ Fairness
-----------------------------------------------------------------------------
(***************************************************************************)
(* Properties.                                                             *)
(***************************************************************************)
TypeOK ==
  /\ service \in [Session -> Services \cup {"none"}]
  /\ held \in [Session -> SUBSET AllLocks]
  /\ \A p \in Session : todo[p] \in Seq(AllLocks)
  /\ \A p \in Session : Idle(p) => held[p] = {} /\ todo[p] = <<>>

\* Services wait for each other in a circle only where a payout, an agent's
\* or a plan's, or the approval of an agent's settlement takes part: they lock
\* against the order payment, agent, accounts, plan or loan of the others,
\* which never deadlock among themselves.
AgainstTheOrder == {"AgentPayout", "SavingsPayout", "ApproveSettlement"}
OtherServicesNeverDeadlock ==
  \A S \in SUBSET Session :
    Deadlocked(S) => \E p \in S : service[p] \in AgainstTheOrder

\* So those others need no deadlock detector: every one of them gets all its rows,
\* however often it has to wait and whatever keeps overtaking it, unless a service
\* that locks against the order comes in.
OrderedServicesEnd ==
  \A p \in Session :
    ~Idle(p) ~> Idle(p) \/ \E q \in Session : service[q] \in AgainstTheOrder

\* What the ledger's docstring promises: account rows are locked in one
\* deterministic order, so no circle of waits is made of account rows alone.
AccountsInOneOrder ==
  \A S \in SUBSET Session :
    Deadlocked(S) => \E p \in S : Head(todo[p]).row[1] # "account"
=============================================================================
