# RFUND: models and proofs of the money-moving core

RFUND (`src/backend`) is a Django monolith for savings, loans and field agents,
with a Next.js front end (`src/src`). Several gunicorn workers and Celery
workers share one PostgreSQL database; the only coordination between them is
what that database gives: transactions at READ COMMITTED (`ATOMIC_REQUESTS` is
off, `config/settings/base.py:137`), row locks and unique indexes. This
directory models that coordination in TLA+, model-checks it with TLC and proves
with TLAPS, for every value of the constants, the invariants, the action property
and the refinements that TLC checks on small ones.

## 1. Inventory

Paths are relative to `src/backend/`.

| Component | State | Operations | Correct when |
|---|---|---|---|
| Ledger engine `apps/ledger` | accounts with a balance projection, transactions, entries, snapshots | `post_transaction`, `reverse_transaction`, `create_account`, `snapshot_all_balances`, `verify_balances` | balances equal the entries, a key posts once, one reversal at most, guarded accounts stay at or above zero, reports are explained by entries |
| Reference sequences `apps/core/references.py` | last number per prefix and day | `next_reference` | unique, no gap after a rollback |
| Payments `apps/payments` | payment rows, attempts, stored webhook events, provider mirror | `initialize_payment`, `verify_and_settle`, `settle_payment`, `ingest_webhook`, `process_webhook_event`, `retry_failed_webhooks` | money lands once, together with its target, and only on the provider's word; no stored event is forgotten |
| Payment providers `integrations/payments` | transaction at the provider | initialise, verify, signature of webhooks | the adapter reports what the provider decided |
| Savings `apps/savings` | plans, schedule items, contributions, payouts, goals | create, cancel, contribute, complete, request and process a payout, goals, hourly refresh | no more is attributed than pooled; completion and payouts rest on full payment |
| Loans `apps/loans` | applications, offers, loans, schedules, repayments | submit, approve, reject, accept, decline, disburse, repay | one loan per application, on terms that were accepted; debt falls by repayments only, schedule and balances agree |
| Agents `apps/agents` | agents, limits, transactions, float movements, settlements | collect, pay out, request, review and approve a settlement, suspend | limits hold, retries post nothing twice, cash is handed over once |
| Reconciliation `apps/settlements` | runs, items, exceptions | `run_reconciliation`, `resolve_exception` | every payment and mirror row of the period is matched or raised |
| Notifications `apps/notifications` | outbox events, deliveries | `emit_event`, `dispatch_outbox` | every event is dispatched, none twice but for runs that die |
| Accounts `apps/accounts` | user, tokens, one-time codes | sign-up, login, codes, refresh, revoke, logout | what was used up stays used up |
| Identity, customers, fraud | KYC profile and reviews, customer profile, alerts and cases | submit, review, update, set status, raise and judge alerts | decisions and their records never part |
| Risk `apps/risk` | rules, assessments | `run_assessment` | a score is fair though its rules read at different moments |
| Calendar and schedules `core/calendar_utils.py`, `savings/schedules.py`, `loans/calculations.py` | none | due dates, instalments, allocation | dates keep their day, shares add up |
| GraphQL lists and limiter `core/pagination.py`, `graphql_api` | cursors; counters in Redis and in processes | pages; admission of requests | a reader of a list misses nothing; admissions are bounded |
| Audit, support, documents, reporting | append-only or read-only | inserts, reads | not modelled, see section 6 |
| Farmers, agriculture, cooperatives, organizations, USSD, front end | records | none that moves money | not modelled |

How they interact: every movement of money goes through `post_transaction`,
called inside the caller's database transaction. `settle_payment` locks the
payment, posts, and calls into savings or loans for the target; agents post and
then create a payment row and contribute to a plan; savings payouts, loan
disbursements and settlements post from their own services. A loan application
asks risk for a score, risk reads everybody's rows. The services emit outbox
rows that a Celery task delivers. Celery beat runs the jobs that retry webhooks
(5 min), dispatch the outbox (30 s), reconcile (30 min), refresh schedules
(hourly) and audit and snapshot the ledger (nightly), concurrently with requests.

What is hard: sessions interleave between any two SQL statements; resolvers
hand rows to services that were read before, without a lock, and are saved with
every column; workers die between a commit and what should follow it; webhooks
come twice, late or never; row locks are taken in different orders; a report,
a run or a list reads in several statements what others change in between. The
`hazards` of PROJECT.json list 39 such places, each with the properties that
cover it or the reason why none does.

## 2. Modules

```
Postings    vocabulary: legs, keys, transaction rows
   |
 Book       what the ledger promises: one atomic step per posting
   |    \
 Ledger  Agents --- AgentsProofs (TLAPS), MCAgents     both implement Book
   |
 LedgerInv --- LedgerProofs (TLAPS)
   |
 MCLedger

Payments --- PaymentsProofs (TLAPS), MCPayments

LockOrder --- LockOrderProofs (TLAPS), MCLockOrder

Savings --- SavingsProofs (TLAPS), MCSavings

Debt        what lending promises
   |
 Loans --- LoansProofs (TLAPS), MCLoans     implements Debt; uses Installments

Outbox <- BackOffice    Sessions    Reconciliation    Calendar
Lists     Risk          Limiter     Verification
     \________________ Office ________________/
                         |
             OfficeProofs (TLAPS), MCOffice

SumTheorems (TLAPS)     sums over finite sets, for the proofs of Ledger,
                        Savings, Agents, Loans and Office
```

A convention runs through all modules. What a service does under a row lock it
holds from its first read to its commit is one action. What it does with a row
that was read before is two: the read leaves a copy with the worker (`held`,
`call`, `work`, `copy`), the write judges and saves that copy. Between the two
anything may happen. A worker that raises, loses its connection or dies forgets
its copy (`GiveUp`, `Abandon`, `Fail`, `Crash`, `Die`), and what it had not
committed is gone.

### Postings, Book and Ledger

A leg set is a function from account to net debit; the entries of a
transaction carry no more than that (every caller names an account once).
`Book` is the abstract ledger: `Post(t)` adds one transaction with the next
higher number, unused key, balanced legs, a legitimate reversal or none, and
funds, and moves every balance at once.

`Ledger` follows `post_transaction` (`apps/ledger/services.py:161-294`):

| Code | Model |
|---|---|
| a caller with entries and a key; `reverse_transaction` | `Submit`, `SubmitReversal` |
| unlocked idempotency read, 176-190 | `ReadKey`: go on, replay, or conflict |
| validation, 192-201 | `Validate` |
| `select_for_update` per account in sorted order, 204-216 | `LockAccount`, once per account; waits, or gives up on an unusable account |
| `next_reference("LED")`, 220 | `DrawReference`: locks the sequence row |
| negativity guard, unique index, writes, 253-267 | `Write` |
| end of the outermost atomic block | `Commit` |
| an exception of the caller, a lost connection, a dead worker | `Rollback`, at any point |

`balance`, `book` and `lastLed` are the committed rows, what other sessions
read. What a session read under its locks is in `seen` and `drawn`, so a lost
update is expressible: the variant `RowIsFreeUnlocked`, which reads without
FOR UPDATE, breaks `NoDrift`. The sequence row is a row like an account, so the
sequence's lock takes part in the waiting. Left out: amounts in kobo beyond
small integers, descriptions, audit rows, the transaction type and currency (as
parts of the fingerprint they only make a replay fail that the legs would make
fail here).

### Payments

The variables are the columns that matter: `status`, `purpose`, the stored `event`
with what it says, the `outbox`, how often the ledger moved (`posted`) and the
target was credited (`credit`), and the state of the transaction at the
`provider`. Each worker has a program counter, the payment it works on and its own
`copy` of the webhook event. An action is what one statement or one
`transaction.atomic` block makes visible. Between any two a worker can be
overtaken or die (`Crash`).

| Code (`apps/payments/services.py`) | Model |
|---|---|
| `initialize_payment` 61-164: four separate writes | `Initialize`, `ProviderOpens` or `ProviderRefuses`, `SavePending`, `SaveAttempt` |
| `verify_and_settle` 294-322 | `StartVerify`, `AskProvider`, `SettleVerified`, `EmitSuccess`, `SaveFailed`, `EmitFailed` |
| atomic block of `settle_payment` 202-254 | `Settle`, with `PostOnce` and `CreditTarget` |
| the view `views.py` 25-77 and `ingest_webhook` 328-355 | `Webhook`, `Deliver`, `Ingest` |
| `process_webhook_event` 358-440 | `ProcessSucceeds`, `ProcessFails`, `AlreadyProcessed`, `SaveEvent` |
| `retry_failed_webhooks` 443-452 | `RetryWebhook` |

A settlement is one action because it holds the payment's row lock from its
first read to its commit; that the posting inside it is atomic is what
`Ledger` implements `Book` for. Two guards decide about replays: the posting
carries the key `payment:<reference>`, and `Applied` is the contribution or
repayment row that savings and loans look for; a goal has none. Whether a credit
completes the target depends on amounts and is left open.

A row of webhook events stands under the event id of one transaction at the
provider. The provider signs what it sends of a transaction it charged: the
charge, of the amount asked for or another, or an event of another type under the
same id (`Signed`). A delivery without a valid signature is an input from outside:
it may come at any time, under any id, and say anything of `Unsigned`, a set of
`Contents`. `Ingest` does what `get_or_create` does: the first delivery under an
id fixes what is stored, later ones can only add that a signature was valid, and
processing goes by what is stored.

### Savings

One plan with its schedule and payouts, and one goal.

| Code (`apps/savings/services.py`) | Model |
|---|---|
| `create_savings_plan` 104-171, `create_goal` 384-410 | `Init`, with `AllowEarlyPayout` for the product's code |
| `cancel_savings_plan` 185-204 | `CancelReads`, `CancelWrites` |
| `apply_contribution_to_plan` 211-273 | `Contribute`, with `Share`, `PayItem`, `Complete` |
| `request_savings_payout` 313-337 | `RequestPayout` |
| `process_savings_payout` 341-377 | `PayoutReads`, `PayoutPays` |
| `apply_goal_funding` 283-306 | `CreditGoal` in `FundGoal`, and in `FundGoalAgain` for a posting that was replayed |
| `update_goal` 414-432, `delete_goal` 436-458 | `GoalReads`, `UpdateGoal`, `DeleteGoal` |
| `refresh_schedule_statuses` 464-484 | `RefreshDue`, `RefreshMissed`, `RefreshScan`, `RefreshComplete`; `RefreshDies` |

`pool` is what the ledger's SAVINGS_POOL holds for the plan and for the goal:
contributions and fundings in, each payout out once (`Paid` is nothing when the
key `payout:<reference>` is replayed). Two details of Django matter: an update of
a goal writes every column, and inserts the row again if it was deleted; a
cancellation writes only the status. Payments shows how the callback of one
payment comes to run twice. Here the second run is `FundGoalAgain`: the ledger
replays its key, the goal is credited once more, and `unposted` counts what was
credited so; for a plan it finds the contribution's row and returns. The statuses
PAUSED, WAIVED, VALIDATED, APPROVED and REJECTED are assigned nowhere. `pool`
covers the operations of the savings services: an agent's payout also debits
SAVINGS_POOL, without touching any plan or goal (section 4).

### LockOrder

Each service is the sequence of row locks it takes, read off its code, calls
included. Explicit locks are exclusive. The insertion of a row that refers to
another one locks that one in share mode, at commit, because Django declares
foreign keys deferred; this matters where someone else locks the row exclusively
(`approve_agent_settlement` and the agent's row). A session in a circle may be
aborted by PostgreSQL's deadlock detection.

### Agents

Collections and payouts look for their idempotency key without a lock
(`StartCollection`, `StartPayout`), lock the agent's row and judge the limits
(`LockAndCheck`), post and write their row under the unique index on the key
(`Collect`, `PayOut`). A settlement is requested from the agent's float, and
reviewed, checked and approved from a copy (`OpenSettlement`, `Review`,
`CheckFloat`, `Approve`). The ledger here is the atomic Book: `Post` is one
posting, and `Books` maps the agents' rows to the book's, so that `Agents` is
shown to use the ledger within its promise. Commissions accrue in rows nothing
else reads, and the plan a collection is credited to is Savings' matter.

### Debt, Installments and Loans

`Debt` says what lending promises: a customer agrees to debts, one of which is
lent, once; then only repayments change what is owed, each counted once.
`Installments` is the arithmetic of `loans/calculations.py` in kobo: both
interest methods, rounding, the rest in the last instalment, allocation.
`Loans` follows the services:

| Code (`apps/loans/services.py`) | Model |
|---|---|
| `create_loan_application`, with its submission | `ApplyForLoan`, `CreateLoanApplication` |
| the resolvers' reads | `ReadToDecide`, `ReadToDisburse`, `ReadOwn` |
| `approve_application`, `reject_application` | `Approve`, `Reject` |
| `accept_offer`, `reject_loan_offer` | `ReadOffer`, `Accept`; `DeclineOffer`, `DeclineApplication` |
| `disburse_loan` | `ReadOffer`, `Disburse` |
| `apply_repayment_to_loan` | `StartRepayment`, `LockLoan`, `Repay` |

The refinement takes `accepted`, the debts somebody accepted, for what was
agreed, and what the loan's buckets still owe for the debt. `EveryLineAsks` and
`SchedulesAreLevel` are facts about the amounts, terms and rate alone; two
theorems assume them (section 5) and the run `loans` has TLC evaluate them for
its instance.

### Office

The services around the money share no row but the outbox. Their modules stand
alone, and `Office` composes them: a behaviour keeps to one `desk`, so one run
checks all of them without multiplying their states. The first desk composes
the dispatcher with any service that emits; the second (`files`) has services
that really write into the outbox.

| Module | Code | What interleaves |
|---|---|---|
| Outbox | `emit_event`, `dispatch_outbox`, `_resolve_recipients` | two runs list undispatched events, lock each, skip what is locked or done, send and commit, or die having sent |
| BackOffice | registration, customer profile, KYC submission and review, fraud alerts | two officers with copies; a row written in a transaction shows at commit only |
| Sessions | `apps/accounts/services.py` | statements of two requests, none in a transaction but the sign-up: attempts at a code, rotation of tokens, revocation |
| Reconciliation | `run_reconciliation`, `resolve_exception` | payments and mirror change between the run's two reads, while a clock moves its period |
| Calendar | `add_calendar_step` and the due dates of plans and loans | nothing; every frequency over 26 dates from the 15th and the last days of each month |
| Lists | the 25 lists of the GraphQL API and `paginate` | rows appear and leave between count and slice and between pages |
| Risk | `run_assessment`, its six rules | the customer's history goes on between two rules; a late verification may also turn a payment that counted FAILED (`PaymentFails`) |
| Limiter | `allow_request` and `MemoryWindow` of `graphql_api/view.py` | INCR and EXPIRE of two processes, failing commands before or after Redis carried them out, restarts. A deque of times is kept as the number of hits at each time, which is all `hit` asks of it |
| Verification | `create_account`, `snapshot_all_balances`, `verify_balances` | postings commit between a report's read of accounts and its reads of entries |

## 3. Runs

| Run | Instance | Shows |
|---|---|---|
| `ledger` | 2 sessions, 4 accounts (one frozen, one guarded), 1 caller key, 5 entry sets, 3 postings; 21,284 states | the safety properties of the engine, that it implements `Book`, and that every call returns |
| `payments` | 1 payment (plan or goal), 2 workers, events DEAD after 2 attempts, at most 3; 189,840 states | money lands once, with its target, on the provider's word; processed events are true; every signed event is resolved |
| `lock_order` | 2 sessions, 2 subjects, 10 services; 8,645 states | only services known to lock against the order can close a circle; the others end without the help of a deadlock detector |
| `savings` | 1 plan of 2 items of 2, 1 goal, payments of 1 and 3 for the plan and one for the goal, 2 requests, 3 days, 2 credited to the goal again; 513,316 states up to symmetry of the requests | the schedule is filled in order, completion and payouts rest on full payment, and no more is attributed than pooled, or credited again |
| `agents` | 1 agent, 2 workers, a device key of its own, one that reads like the second reference, or none, amount 1, limits that two calls exceed together, 2 days, 4 transactions, 1 settlement; 414,902 states up to symmetry of the workers | limits hold, retries post nothing twice, cash is handed over once, every step is a posting of `Book` |
| `loans` | 1 application, 2 workers, 2 principals, 2 terms, both methods, 3 payments; 1,392,410 states up to symmetry of the workers | `Debt` is implemented; schedule, buckets and status of a loan agree to the kobo |
| `office` | 9 desks, 2 of every actor but the reader of reconciliation; 756,968 states, the longest run with two to three minutes | the properties of the services around the money |
| `balance_lost` | as `savings` | violation of `BalanceIsUnwithdrawn` |
| `goal_funded_twice` | as `payments`, all four purposes | violation of `OneFinancialEffect` |
| `success_unannounced` | as `payments`, all four purposes | violation of `SuccessAnnounced` |
| `payout_deadlock` | as `lock_order` | violation of `AccountsInOneOrder` |
| `float_adrift` | as `agents` | violation of `FloatIsUnsettledCash` |

Properties of `ledger`. `NoDrift` is the ledger's own audit
(`computed_balance`) as an invariant. `GuardedNonNegative` is about racing
withdrawals, `NothingTwice` about racing retries and about two operators who
reverse one transaction, `GaplessReferences` about rollbacks after a number was
drawn, `AcknowledgedIsPosted` about what a replay tells its caller, `NoWaitCycle`
about deadlock among postings. `ImplementsBook` states them together as a
refinement; the refinement mapping is the identity, since `balance` and `book`
are the committed rows.

Properties of `payments`. `PaidFor`: money is posted or credited only if the
provider charged the payment in full, or signed a delivery under the id of an
event that is stored with this charge. The second case is what the code gives, and
weaker than its comment promises (section 4). `SettledOnce` relates the ledger, the
target, the payment's status and its notice: the ledger moves once, together with
the target. `ProcessedIsSettled`: an event that reads
PROCESSED was signed for, and if a charge is stored, the payment it names is
settled and mirrored, though workers save it whole from old copies. `EventResolved`
is the retry job's purpose.

Properties of `lock_order`. `OtherServicesNeverDeadlock` looks for circles of
waits. `OrderedServicesEnd` asks what they would cost: while no service that locks
against the order is about, every service gets its rows and commits, with no
fairness of the deadlock detector, so a circle would be the end of it.

Properties of `savings`. `EarliestFirst` is about partial payments over a
schedule that the hourly job is remarking. `CompletedIsPaid` and
`TermBeforePayout` are about the three writers of a plan's status, two of which
write over what they read earlier. `NeverMoreThanPooled` says in which direction
stale copies can be wrong: never against the pool. All that a goal can have too
much is what a repeated callback credited to it.

Properties of `agents`. `LimitsHold`: sums over a day and a month, read and
written by calls of one agent at once and around midnight.
`TransactionsArePosted`: each transaction has its posting. A retry that overtakes
the original must not write a second row for a posting the ledger only replayed;
the unique index decides. Two rows share a posting in one case only
(`TookReference`): one was posted under its reference, for want of a key, and the
other's device had taken that reference for its key. `HandedOverOnce` holds
although officers approve stale copies; `FloatIsUnsettledCash` fails for that
reason. `ImplementsBook`: payouts never overdraw the guarded pool.

Properties of `loans`. `ImplementsDebt`: stale approvals, acceptances and
disbursements never lend twice, nor on terms nobody accepted; a repayment
counts once. `ScheduleMatchesDebt`: buckets and instalments, served by two
separate loops, agree after any sequence of partial and excessive payments.

Properties of `office`, desk by desk. `DeliveredOnce` counts messages that left
the house, and allows one more per run that died with the event;
`EveryEventDispatched` is liveness: again and again the outbox is found empty,
whoever died. `DecisionsRecorded` relates a verified identity to its trail, to the
events and to the customer's tier, and a closed alert to its case.
`SpentStaysSpent` is an action property of revoked tokens and consumed codes.
`RunAccountsForAll` takes what stood still around a run's reads.
`DatesKeepTheirDay` compares the iteration with counting from the anchor.
`PagesCoverTheList` bounds what a reader of offsets may miss by what left or
slipped in. `AssessedInBetween` bounds a score by the histories at its start and
end. `AdmittedWithinLimit` bounds admissions in any stretch of a window by what
two fixed windows and restarts allow. `ReportsExplained` ties snapshots, drifts
and balances to entries.

Each property is also run against a variant of the model with a plausible bug
(the definitions commented as mutants, each just before the definition it
replaces); TLC finds the property violated there.

### Bounds

Two sessions, or workers, suffice for every pairwise race, which is what locks,
unique indexes and unlocked reads decide; the theorems of section 5 cover any
number of them in every module. Three postings admit an original, its reversal
and a competitor or a retry. The amounts 1 and 2 let one withdrawal fit and two not.
In `payments` the real limit of five attempts is a constant, `DeadAfter`, here 2;
`MaxAttempts` bounds redeliveries to dead events. Deliveries without a signature say
that the payment was charged in full, or nothing about money; a charge of another
amount comes signed. One payment is enough there
because payments meet only in their target, whose state is left open, and in the
ledger. Three sessions in `lock_order` also pass, in several minutes.

In `savings` the payments overlap the items (1 and 3 are half an item too little
and too much), three days let an item become MISSED, two requests hold two stale
copies, and `MaxUnposted` lets the goal's payment of 2 be credited once more,
which reaches its target of 3 unless a stale save took the first credit away. In
`agents` a limit of 1 a payout and 2 a day admits one call and not two, two days
let midnight fall between check and commit, and one settlement is enough for two
officers. In `loans` amounts are small because TLC's integers have 32 bits:
principals of 5012 and 7019 kobo do not divide by 2 and 3 months, 48 percent
leaves remainders too, and the payments of 1500, 6000 and 2500 leave an instalment
half paid, cover several and exceed what is owed.

In `office`: two events at dispatch, one a run and one death, so that a run
overtakes and one dies with an event; `MaxEvents` and `MaxDecisions` 4 at the
files, where an identity is rejected and decided anew; 4 tokens, which is two
rotations of one login; one code a window and one attempt, which two requests may
both make; two references, one run in a window of no length and a clock of two
moments, by one reader, as a second could only resolve other exceptions meanwhile;
4 rows and two changes in a list read by pages of one or two; two happenings in an
assessment whose rules ask for one row; a limit of one, a window of one, a clock
to 2 and one restart; two accounts of both signs, openings of both signs and two
postings.

Deadlock checking is off where the system may stop: after the bounds, when
nobody pays, and in LockOrder for uniformity (it always can begin a service).

### Fairness

`Ledger`: strong fairness of every session's own steps. PostgreSQL grants a row
lock to waiters in order, so a session that can run again and again does. New
requests and rollbacks are not fair. `Payments`: strong fairness of the retry job
for each event that stays retryable (beat runs it every five minutes) and of the
processing and saving steps, whichever worker takes them: an event picked up again
and again is not for ever dropped half way; weak fairness of a worker's own next
step. Nothing is assumed of the customer, of the provider or of redelivery.
`LockOrder`: strong fairness of taking a lock, weak fairness of commit, and none
of deadlock detection, since a service that needs the detector has not ended by
itself. `Office`: weak fairness of each run of the dispatcher, which beat starts
every thirty seconds and which works through its list if it lives; a death ends a
list, and `MaxDeaths` bounds deaths. Nothing is assumed of the other desks.
`Savings`, `Agents` and `Loans` state safety only.

## 4. Findings

1. **A goal can be funded twice by one payment** (`goal_funded_twice`,
   `savings/services.py:294`). A verification reads PENDING and hears "failed"
   or "abandoned" from the provider; meanwhile the customer pays and the webhook
   settles; the verification then writes FAILED over SUCCESS
   (`payments/services.py:315-317`, no lock, no re-read). The next verification
   settles again: the ledger replays its key, but `apply_goal_funding` adds the
   amount once more. Plans and loans are safe, because they look for the row
   of the payment first (`SettledOnce`).
2. **A successful payment may never be announced** (`success_unannounced`,
   `payments/services.py:256`). The docstring puts the outbox event in the
   transaction; the code emits it afterwards.
3. **A goal's funding can be undone** (`balance_lost`, `savings/services.py:423`).
   An edit of the goal saves every column of the row its resolver read; a funding
   in between disappears from the goal and so from the customer's balance, though
   the pool has the money. The property fails in two more ways: a delete that read
   an empty goal removes one that was funded meanwhile, and a payout processed
   from two copies is taken off the plan twice when contributions came in between
   (the ledger replays the second posting).
4. **An agent's payout can deadlock with a collection** (`payout_deadlock`,
   `agents/services.py:329`), against the ledger's promise of one lock order.
   `OtherServicesNeverDeadlock` also names two more services that lock against
   the order: the payout of a plan (plan, then accounts, where a contribution
   takes the accounts first), and the approval of a settlement (accounts, then at
   commit the agent's row in share mode, where a collection takes the agent's row
   first). PostgreSQL breaks each circle by aborting one session, so the effect is
   a failed request, not a wrong balance.
5. **An agent's float parts from the cash** (`float_adrift`,
   `agents/services.py:414`). An officer whose copy of a settlement was read
   before another one approved it puts it back under review and approves it
   again. The ledger replays the posting, but a second float movement is
   written.

What else the models met, without a run of its own:

- `payments/views.py:44-46` says of an event without a valid signature "stored,
  quarantined, never processed". The signature is noted per row, not per delivery:
  a signed delivery under the same id makes the stored one valid
  (`payments/services.py:347-350`), and what is processed then is what the first
  delivery said (371-404). `Vouched` is this case in `PaidFor`; with
  `Unsigned = {}` the provider's own deliveries are all there is.
- The key of an agent's transaction and its reference share one name space in the
  ledger (`agents/services.py:197`), so a key that reads like the reference of
  another row shares its posting (`TookReference`).
- An agent's payout debits SAVINGS_POOL and touches no plan or goal, so the
  customer's balance stays as it was (`agents/services.py:303`).
- No service sets an instalment of a loan DUE or LATE, so `apply_late_penalties`
  assesses nothing and the reminders of loans are never sent.
- A repayment credits LOAN_PRINCIPAL with all of the payment, interest included.
- `accept_offer` saves EXPIRED and raises in the same transaction: the save is
  rolled back. Eligibility is asked at application only, so two applications can
  become two open loans.
- `KYCReview.decision` takes ten characters: "INFO_REQUESTED" does not fit.
- A failed delivery is never retried, and an event whose template cannot be
  rendered stops the dispatcher at the head of its queue every time.
- `reject_loan_offer` is two transactions. A worker that dies between them
  leaves a declined offer of an application that still is OFFERED.
- A payout's key that was used for a collection returns the collection
  (`agents/services.py:314`).
- A profile's update saves the status and tier its resolver read
  (`customers/services.py:120`).
- The mirror row of a webhook counts as reconciled whatever its amount. A payment
  created before the period whose webhook falls into it is reported as
  MISSING_INTERNAL.
- "revoke the whole chain" (`accounts/services.py:213-214`) is not done when a
  rotated refresh token is used again.
- The limiter's window is fixed, not sliding, and a process that dies between
  INCR and EXPIRE leaves a key that never expires (`graphql_api/view.py:78`).
- Bare lists hand out no cursor, so what is behind their largest page cannot be
  reached; the queue of KYC profiles has no order, and the agent's customers are
  ordered by a first name they may share.
- The comment at `savings/services.py:476` says plans whose items are "all paid
  or past" get completed, the code asks for all PAID (`NowComplete`). A PAID
  payout blocks every later one of a plan that goes on receiving contributions
  (`savings/services.py:321`).
- "Prior completed loans help" (`risk/services.py:60`) is no part of the score.
- `tasks.py:1` says "All idempotent"; the savings reminders are sent again by a
  second run. The parts of `core/money.py` `allocate` are not all at least zero
  for a weight of zero, but nothing calls it.
- A worker that dies between the INITIALIZED row of a payment and its attempt
  leaves a key whose replay has no checkout (`payments/services.py:117`).

## 5. Proofs

`tlapm` checks every leaf. Nothing is assumed but the assumptions on the constants
that each module names, which TLC evaluates in the runs, and the hypotheses that
the theorems about schedules and scores state and that are discussed below. The
assumptions say that amounts, limits, batches and bounds are natural numbers,
positive where the code refuses zero; that accounts, processes and payment
references are finite sets; that codes order the accounts; that dates are dates
and histories histories. One deserves a word: `BackOfficeAssumption` asks that the
events the services emit are known to the dispatcher. Of unsigned deliveries
nothing is assumed but that they say something (`Unsigned \subseteq Contents`), and
of the keys of devices that the empty one is none.

| Theorem | States, for every value of the constants |
|---|---|
| `LedgerProofs!DeadlockFree` | sessions of the engine never wait in a circle |
| `LedgerProofs!ReferencesGapless` | LED references are 1..n |
| `LedgerProofs!NothingPostedTwice` | no key posts twice, no transaction is reversed twice; from `KeysOnce` and `ReversalsOnce` |
| `LedgerProofs!ReversalsUndo` | a reversal is the exact opposite of a transaction that is no reversal |
| `LedgerProofs!Undrifted` | the balance on every account row is the sum of its entries |
| `LedgerProofs!GuardHolds` | guarded accounts stay at or above zero |
| `LedgerProofs!AcknowledgedPosted` | who is told of a transaction has it posted |
| `LedgerProofs!Implementation` | the engine implements `Book` |
| `LedgerProofs!TypeCorrect`, `ReadsStayFresh`, `Invariant` | types; a row read under its lock stays as read; the invariant of all of them |
| `PaymentsProofs!MoneyPaidFor` | the ledger and the target move only for a payment that was charged in full, or whose stored charge a signature vouched for |
| `PaymentsProofs!MoneySettledOnce` | SUCCESS, its notice, posting and credit come together; the ledger moves once, a plan or loan is credited once |
| `PaymentsProofs!ProcessedSettled` | a PROCESSED event was signed for, and the payment a stored charge names is settled and mirrored |
| `PaymentsProofs!TypeCorrect`, `Invariant` | types; the inductive invariant |
| `SavingsProofs!MoneyPooled` | a plan never has more than its pool, a goal no more than its pool and what repeated callbacks credited |
| `SavingsProofs!CompletedPaid`, `TermFirst` | a completed plan was paid in full; a term product is paid out after its schedule |
| `SavingsProofs!FilledInOrder` | contributions fill the schedule from its start, with no more than was contributed |
| `SavingsProofs!SavingsTyped` | types |
| `AgentsProofs!LimitsSound` | no agent passes a limit of a transaction, a day or a month |
| `AgentsProofs!Posted`, `HandedOver` | every transaction has its posting, shared only with a key that reads like its reference; a settlement's cash moves once |
| `AgentsProofs!AgentsImplementBook` | each step is a posting of `Book` or a stutter |
| `AgentsProofs!AgentsTyped`, `KeysSound` | types; the ledger has each key once |
| `LoansProofs!LoansImplementDebt` | one loan at most for an application, on accepted terms; the debt falls by each repayment once |
| `LoansProofs!DebtsMatch`, `RecordsSound` | buckets, instalments and status agree to the kobo |
| `LoansProofs!InstalmentsSound` | instalments add up to principal and interest, for any amounts, terms and rate |
| `LoansProofs!FlatAsks` | FLAT products of ordinary amounts meet the hypothesis of `RecordsSound` |
| `LoansProofs!LoansTyped`, `LendingSound` | types; the inductive invariant |
| `LockOrderProofs!CirclesNeedAnOffender` | a circle of waits has an agent's or a plan's payout or the approval of a settlement in it |
| `OfficeProofs!EachDelivered` | an event's messages are sent once, and again only for runs that died with it |
| `OfficeProofs!AllRecorded` | decisions never part from their records, nor approvals from their events |
| `OfficeProofs!SpentStays` | no step brings a revoked token or a consumed code back |
| `OfficeProofs!AllAccountedFor` | a reconciliation accounts for all payments that stood still |
| `OfficeProofs!DaysKept` | schedules keep their day |
| `OfficeProofs!PagesCover` | who follows the cursors misses no more than left the list or slipped in |
| `OfficeProofs!AssessedFairly` | a score lies between those of the histories at its start and end, if nothing was taken away in between |
| `OfficeProofs!WithinLimit` | admissions in any stretch of a window are bounded |
| `OfficeProofs!AllExplained` | snapshots, drifts and balances are explained by entries |
| `OfficeProofs!OfficeTyped` | types of all desks |

The proofs of `Office` are one module, with a section for each desk: a desk stands
still while another is busy (`StepsOfDesks`), so that each has an invariant of its
own (`SessionsSound`, `ReconciliationSound`, `OutboxSound`, `FilesSound`,
`CalendarSound`, `VerificationSound`, `RiskSound`, `LimiterSound`, `ListsSound`)
from which the theorem of the table follows. `tlapm` takes a quarter of an hour
for it.

**Sums.** `SumTheorems` proves of the folds of the community modules what the
others need: the sum over a finite set with one element more, over a
union, of functions that agree or bound each other, and what a fold over 1..n
telescopes to. There is no induction theorem for operators behind it; the set of
the sets for which a claim holds is shown to contain every finite one, because a
smallest exception would have a smaller one (`SubsetInduction`).

**Ledger.** None of the properties is inductive: what `Commit` makes true rests on
what `Write` checked, which rests on what was read under a lock. The invariant is
built in four layers, each proved from the ones below. `LockInv`: a lock belongs
to a session at the stage that has it, taken in the order of the codes; a session
that waits therefore waits for a higher account than it holds, which no circle can
do (`DeadlockFree`, by the well-foundedness of the naturals). `ReadInv`: while its
owner has not written, a locked row is as it was read. `RequestInv`: what is asked
for is balanced, and a reversal points at what it reverses. `WriteInv`: what a
session has written but not committed is still free of conflict, because its
sequence row keeps every other session from writing. `Invariant` joins them. For
the refinement each `Commit` of a new transaction is a `Post` of `Book`, every
other action a stutter.

`NoDrift` (`Undrifted`) is an invariant of `Book` and carries over by the
refinement, whose mapping is the identity: a posting adds to the sum over the book
what it adds to the row.

**Payments.** `TypeInv` are the types, and that exactly the busy workers name a
payment. `AloneInv`: until the provider has opened the transaction, whoever
inserted the row works on it alone, though a stored event that names it may settle
it. `ChargeInv`: only the event of a charged transaction is ever signed for, a
worker that processes an event has in its copy what is stored, which nothing
rewrites (`EventsStay`), and a verification that goes on to settle saw the charge;
the provider does not take charges back. So a posting is `Grounded` (`GroundInv`)
and stays it (`GroundStays`). `MoneyInv`: every claim of a settlement, in a row, in
the outbox or implied by a worker's next step, stands on a posting with its credit.
`DoneInv` says it of processed events, in their rows and in the copies, since those
are saved later over whatever the row then holds. Only `Settle` establishes a
claim, and postings are never undone (`PostingsStay`).

**Savings.** `ScheduleInv` says that PAID items are paid and that a completed
plan, like a term product with a payout, has all of its items PAID; it is
inductive because nothing takes PAID back (`PaidStays`). `MoneyInv` bounds plan
and goal by the pool, and `CopiesBehind` bounds what a copy in memory could still
write: it may be stale, but only on the side of having seen too little money. For
the goal the bound is the pool and `unposted`, and every credit raises one of the
two by its amount.
`OrderInv` is `EarliestFirst` with the types and with what keeps it: only a closed
plan has CANCELLED items, so the loop of a contribution serves every item that
lacks something, in order, and takes the smaller of that and of what is left.

**LockOrder.** `Rank` gives every row its place: payments, agents, accounts by
code, the LED, PAY and LON sequences, plans, loans. The sequences of locks of
seven services are shown to ascend by joining their parts (`Joined`,
`OrderedAscend`), and `OrderInv` keeps for a running service that what it has
still to lock comes after what it holds. Whoever waits for such a service waits
for a lower row than that service does (`WaitingAscends`), so a circle of them
would ascend for ever.

**Agents.** `RowsOK` are the types, and that a call works on a settlement that
exists. `LockInv` ties the lock of an agent's row to the one call that is within
the limits; `LimitsInv` keeps what that call checked true until it writes, since
only the holder of the lock adds to the agent's rows, and since a new day empties
the sum of the day. The month is bounded up to every collection, because payouts
count for it but are not refused by it. `KeysOnce` says that the ledger has a key
once and that what a settlement's key posted came with a movement of the float: a
stale approval repeats the movement, never the posting. No key of a device is
excluded: that two rows name one posting is traced to the keys and references
themselves. `PoolInv`, that the
guarded pool is not negative, is what the refinement to `Book` needs beyond that.

**Loans.** `LendingInv` speaks of the rows and of every copy a call may hold: an
application that says OFFERED or ACCEPTED has an offer, though a stale copy may
have put it there; every offer, in its row or in memory, asks for what the
schedule of its terms adds up to; the debt of an accepted one, and of one about to
be disbursed, is in `accepted`; and the loan a repayment has locked is still as it
was read. So stale copies can write old statuses back, but a loan is made from
terms somebody accepted, and only where none exists. The arithmetic comes first:
parts of an amount add up to it, the parts of a declining balance never exceed it,
allocation hands out what it is given. `RecordsOK` joins the two loops of a
repayment, over buckets and over items: what the buckets owe is the sum of what
the items lack, and an item is PAID when it lacks nothing.

`RecordsSound` and `LoansTyped` suppose `EveryLineAsks`, `DebtsMatch` also
`SchedulesAreLevel`. The first is false for absurd amounts: ten kobo over a year
make lines of one kobo whose last must take back what rounding gave, and a last
line that asks for nothing is not reached by the payment that completes the loan.
`FlatAsks` shows it for FLAT products whose principal, and whose interest if any,
exceed half a kobo for each pair of months; each of DEFAULT_PRODUCTS
(`loans/services.py:42-85`) is such a product, the smallest of them of 500,000
kobo over 12 months at 26 percent. For declining balances both facts depend on
powers of the rate, which no prover here computes for all rates; TLC evaluates
them for the amounts, terms and rate of the run.

**Dispatch and files.** `OutboxInv`: two runs never hold one event; over each of
its channels an event went out at most once more than runs died with it, and no
more often than they did while its present run has not reached the channel; and
there is one delivery on each channel exactly when the event is dispatched.
`FilesInv`: an identity that is VERIFIED has its approval at the end of the trail,
every approval has its event, and the tier of the profile and of each worker's
copy was granted by an approval, so that whatever is written back was earned.

**Sessions.** A request that got as far as `issue_tokens` for a rotation goes by a
token that is revoked, and a token that replaces another replaces a revoked one. A
save of a code names its columns and writes `consumed_at` only when the code was
right, and no service clears `revoked_at`.

**Reconciliation.** What a run has read is true of every payment that was not
disturbed since it began; writing the run turns that into items, and resolving an
exception changes an item's status only.

**Calendar.** After k periods the date is the anchor's day, or the last of a
shorter month. The step is from the last date, so the proof has to show that the
day restored is the anchor's: only February is shorter than 30 days, and the month
one, three or six months after it has 31.

**Lists.** In a sorted list each row has a place of its own, the number of rows
before it. Of the rows ahead of the cursor those not shown are no more than the
rows that left; what is behind the end the page counted on is no more than the
rows that appeared between its two queries.

**Risk.** Points are added rule by rule, each of the history of its moment. They
stay between those of the first and the present history because what speaks for a
customer costs no rule a point. This fails for `max_active` of 2 or more: two
active loans are worth 70 points, one is worth 50 (`risk/services.py:132-136`), so
that paying one off can lower the score. `AssessedFairly` therefore supposes
`MaxActive <= 1`; DEFAULT_RULES sets it to 1. What takes points away, a loan, a
rejected identity, a payment that turns FAILED, sets `worsened`; from then on
nothing is claimed.

**Limiter.** Of what Redis admitted in a stretch of a window, part was counted by
the key that was there when the stretch began, and part by a second key, made when
the first expired, that outlasts the stretch. Requests between INCR and EXPIRE are
counted one by one, as each may still set the expiry back; a restart forgets at
most one count. The deque of a process keeps what is in its window, so it admits
the limit once.

**Verification.** A balance is what the entries make of it in their order
(`Telescopes`), so a snapshot or a drift can be related to the entries there were
when the account was read, and the difference to those that came after.

**Only model-checked.** Liveness: `EveryCallReturns`, `EventResolved`,
`OrderedServicesEnd` and `EveryEventDispatched`, because the prover has no ENABLED.
`EveryLineAsks` and `SchedulesAreLevel` for declining balances, as said. The five
runs that expect a violation. Every invariant, the action property and the three
refinements of the passing runs are stated by a theorem.

## 6. Not modelled

- **Audit trail.** `record_audit` appends a row and returns; nothing reads it back.
- **Support tickets and documents.** Insertions and one status column per row,
  written by one officer, with no other state that depends on it.
- **Reporting, GraphQL types, front end.** They read. The rows a resolver reads
  before it calls a service are in that service's module, and the paginated
  lists are in `Lists`. A mutation is one service call.
- **Farmers, agriculture, cooperatives, organizations, USSD.** Tables without a
  service: nothing in the repository writes them but the seed command,
  and the USSD adapter is called by nothing.
- **Permissions, settings, seed data, column widths, texts and templates.** Who
  may call what is a table of constants; the models let anybody call.
- **Payment providers beyond charges.** Transfers are called by nothing in the
  repository; the local provider is for development; the signature check is an
  input of `Deliver`.
- **Operations without a caller**: `review_application`,
  `check_agent_transaction`; `settle_commissions` is called by tests only, and
  only its locks are modelled. **Statuses assigned nowhere**: CANCELLED, REVERSED,
  REFUNDED and SETTLED of payments, DEFAULTED of loans, PAUSED, WAIVED,
  VALIDATED, APPROVED and REJECTED of savings.
- **Money arithmetic.** `core/money.py` works on exact decimals; the models take
  whole kobo, where the rounding of loan schedules is in `Installments`.

## 7. Plan

1. `settle_commissions` and late penalties, once the code calls them: a paid
   commission should be one that was summed up.
2. The amounts for which a declining balance has no line of nothing, as a theorem
   about `Schedule` like `FlatAsks`, if a bound on the rate makes the powers
   tractable.
3. An abstract outbox (emitted, sent, dispatched) that Payments and BackOffice
   both refine, so that `success_unannounced` and `EveryEventDispatched` become
   questions about one specification.
