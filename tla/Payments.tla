------------------------------ MODULE Payments ------------------------------
(***************************************************************************)
(* Inbound payments (apps/payments): initialisation with the provider,     *)
(* the customer's own verification, the provider's webhook and the job     *)
(* that retries stored webhook events, all run by concurrent workers.      *)
(*                                                                         *)
(* An action is what one database statement or one transaction.atomic      *)
(* block makes visible, so a worker can be overtaken, or die, between any  *)
(* two of them.  A settlement is one action: it holds the payment's row    *)
(* lock from its first read to its commit, and every other writer of that  *)
(* row waits for the lock.  The posting it makes is an atomic step of      *)
(* module Book, under the key payment:<reference>.                         *)
(*                                                                         *)
(* Statuses that nothing in the repository assigns (CANCELLED, REVERSED,   *)
(* REFUNDED, SETTLED) are left out.                                        *)
(***************************************************************************)
EXTENDS Integers

CONSTANTS
  Payment,     \* payment rows, one per client idempotency key
  Worker,      \* web and Celery workers
  NoPayment,   \* what an idle worker works on
  Offered,     \* the purposes customers pay for
  Unsigned,    \* what deliveries without a valid signature say
  DeadAfter,   \* failed attempts after which a webhook event is DEAD
  MaxAttempts  \* bound on the attempts of a webhook event

VARIABLES
  status,    \* Payment.status, "ABSENT" before the row is inserted
  purpose,   \* Payment.purpose, which names the target too
  checkout,  \* payments with an attempt row: the customer has the URL
  provider,  \* state of the transaction at the provider
  posted,    \* ledger transactions of each payment
  credit,    \* times the amount was added to the payment's target
  closed,    \* purposes whose target takes no more money
  event,     \* the row under the event id of each payment's transaction
  mirrored,  \* payments with a reconciled PaymentProviderEvent
  outbox,    \* payment events written to the outbox
  pc,        \* what each worker does
  at,        \* the payment it works on
  copy       \* its in-memory copy of the webhook event

rows == <<status, purpose, posted, credit, closed, mirrored>>
vars == <<rows, checkout, provider, event, outbox, pc, at, copy>>

Purposes ==
  {"SAVINGS_CONTRIBUTION", "GOAL_FUNDING", "LOAN_REPAYMENT", "ACCOUNT_FUNDING"}
\* apply_contribution_to_plan and apply_repayment_to_loan look for the
\* contribution or repayment row of the payment before they credit it.
Guarded == {"SAVINGS_CONTRIBUTION", "LOAN_REPAYMENT"}
Routed == Guarded \cup {"GOAL_FUNDING"}

Statuses == {"ABSENT", "INITIALIZED", "PENDING", "SUCCESS", "FAILED"}
ProviderStates == {"unknown", "open", "declined", "paid", "paidOther"}
EventStatuses == {"none", "RECEIVED", "FAILED", "DEAD", "PROCESSED"}
Stages == {"idle", "calling", "opened", "attempt", "asking", "settling",
           "emit", "failing", "emitFailed", "processing", "saveEvent"}

\* What the body of a webhook says: that some payment, if it matches one, was
\* charged, with the amount and currency asked for or not, or something else.
Contents == [charge : BOOLEAN, names : Payment \cup {NoPayment}, exact : BOOLEAN]
NotACharge == [charge |-> FALSE, names |-> NoPayment, exact |-> FALSE]
Charge(q, exact) == [charge |-> TRUE, names |-> q, exact |-> exact]

Event == [status : EventStatuses, attempts : Nat, signed : BOOLEAN, says : Contents]
NoEvent == [status |-> "none", attempts |-> 0, signed |-> FALSE, says |-> NotACharge]

ASSUME PaymentAssumption ==
  /\ NoPayment \notin Payment
  /\ Offered \subseteq Purposes
  /\ Unsigned \subseteq Contents
  /\ DeadAfter \in Nat \ {0}
  /\ MaxAttempts \in Nat

Init ==
  /\ status = [q \in Payment |-> "ABSENT"]
  /\ purpose \in [Payment -> Offered]
  /\ checkout = {}
  /\ provider = [q \in Payment |-> "unknown"]
  /\ posted = [q \in Payment |-> 0]
  /\ credit = [q \in Payment |-> 0]
  /\ closed = {}
  /\ event = [q \in Payment |-> NoEvent]
  /\ mirrored = {}
  /\ outbox = {}
  /\ pc = [w \in Worker |-> "idle"]
  /\ at = [w \in Worker |-> NoPayment]
  /\ copy = [w \in Worker |-> NoEvent]

Goto(w, stage) == pc' = [pc EXCEPT ![w] = stage]

Start(w, q, stage) ==
  /\ pc[w] = "idle"
  /\ Goto(w, stage)
  /\ at' = [at EXCEPT ![w] = q]

\* The worker returns, raises, or dies with what it had in memory.
Finish(w) ==
  /\ Goto(w, "idle")
  /\ at' = [at EXCEPT ![w] = NoPayment]
  /\ copy' = [copy EXCEPT ![w] = NoEvent]
-----------------------------------------------------------------------------
(***************************************************************************)
(* initialize_payment: the row, the provider call, the PENDING row and the *)
(* attempt are four separate writes.  A second request with the same key   *)
(* finds the row, or is refused by the unique index, and writes nothing.   *)
(***************************************************************************)
Initialize(w, q) ==
  /\ status[q] = "ABSENT"
  /\ Start(w, q, "calling")
  /\ status' = [status EXCEPT ![q] = "INITIALIZED"]
  /\ UNCHANGED <<purpose, posted, credit, closed, mirrored>>
  /\ UNCHANGED <<checkout, provider, event, outbox, copy>>

ProviderOpens(w) ==
  /\ pc[w] = "calling"
  /\ provider' = [provider EXCEPT ![at[w]] = "open"]
  /\ Goto(w, "opened")
  /\ UNCHANGED <<rows, checkout, event, outbox, at, copy>>

ProviderRefuses(w) ==
  /\ pc[w] = "calling"
  /\ status' = [status EXCEPT ![at[w]] = "FAILED"]
  /\ Finish(w)
  /\ UNCHANGED <<purpose, posted, credit, closed, mirrored>>
  /\ UNCHANGED <<checkout, provider, event, outbox>>

SavePending(w) ==
  /\ pc[w] = "opened"
  /\ status' = [status EXCEPT ![at[w]] = "PENDING"]
  /\ Goto(w, "attempt")
  /\ UNCHANGED <<purpose, posted, credit, closed, mirrored>>
  /\ UNCHANGED <<checkout, provider, event, outbox, at, copy>>

SaveAttempt(w) ==
  /\ pc[w] = "attempt"
  /\ checkout' = checkout \cup {at[w]}
  /\ Finish(w)
  /\ UNCHANGED <<rows, provider, event, outbox>>

\* The customer pays the amount asked for or another, or the card is declined.
CustomerPays(q) ==
  /\ q \in checkout
  /\ provider[q] = "open"
  /\ \E answer \in {"paid", "paidOther", "declined"} :
       provider' = [provider EXCEPT ![q] = answer]
  /\ UNCHANGED <<rows, checkout, event, outbox, pc, at, copy>>

\* The owner cancels the plan or goal, or other money completes the target.
CloseTarget(p) ==
  /\ p \notin closed
  /\ closed' = closed \cup {p}
  /\ UNCHANGED <<status, purpose, posted, credit, mirrored>>
  /\ UNCHANGED <<checkout, provider, event, outbox, pc, at, copy>>
-----------------------------------------------------------------------------
(***************************************************************************)
(* settle_payment, the only path where money lands.                        *)
(***************************************************************************)
\* Mutant: the contribution or repayment row is not looked for.
AppliedUnchecked(q) == FALSE

\* The contribution or repayment of this payment exists.
Applied(q) == purpose[q] \in Guarded /\ credit[q] > 0

\* _settle_domain_target raises for a target that is not open.
TargetAccepts(q) ==
  purpose[q] \in Routed => Applied(q) \/ purpose[q] \notin closed

\* post_transaction under payment:<reference> replays what is there.
PostOnce(q) == posted' = [posted EXCEPT ![q] = 1]

\* The credit may complete the target, depending on amounts left out here.
CreditTarget(q) ==
  IF purpose[q] \in Routed /\ ~Applied(q)
  THEN /\ credit' = [credit EXCEPT ![q] = @ + 1]
       /\ closed' \in {closed, closed \cup {purpose[q]}}
  ELSE UNCHANGED <<credit, closed>>

\* What the atomic block of settle_payment commits.
Settle(q) ==
  /\ status' = [status EXCEPT ![q] = "SUCCESS"]
  /\ PostOnce(q)
  /\ CreditTarget(q)
  /\ UNCHANGED purpose
-----------------------------------------------------------------------------
(***************************************************************************)
(* verify_and_settle: an unlocked read, a provider call, then the result.  *)
(* A payment that is SUCCESS is returned as it is, and one that has no     *)
(* provider reference yet makes the provider call fail.                    *)
(***************************************************************************)
StartVerify(w, q) ==
  /\ status[q] \in {"PENDING", "FAILED"}
  /\ Start(w, q, "asking")
  /\ UNCHANGED <<rows, checkout, provider, event, outbox, copy>>

\* The provider states with the expected amount and currency.
SettledBy == {"paid"}

\* A transaction the customer has not finished is pending, or abandoned,
\* which the adapter reports as FAILED; a wrong amount raises.
AskProvider(w) ==
  /\ pc[w] = "asking"
  /\ \/ /\ provider[at[w]] \in SettledBy
        /\ Goto(w, "settling")
        /\ UNCHANGED <<at, copy>>
     \/ /\ provider[at[w]] \in {"open", "declined"}
        /\ Goto(w, "failing")
        /\ UNCHANGED <<at, copy>>
     \/ /\ provider[at[w]] \in {"open", "unknown", "paidOther"} \ SettledBy
        /\ Finish(w)
  /\ UNCHANGED <<rows, checkout, provider, event, outbox>>

\* Under the row lock: return if another worker settled, raise if the target
\* is closed, else commit.
SettleVerified(w) ==
  /\ pc[w] = "settling"
  /\ \/ /\ status[at[w]] # "SUCCESS"
        /\ TargetAccepts(at[w])
        /\ Settle(at[w])
        /\ Goto(w, "emit")
        /\ UNCHANGED <<mirrored, at, copy>>
     \/ /\ status[at[w]] = "SUCCESS" \/ ~TargetAccepts(at[w])
        /\ Finish(w)
        /\ UNCHANGED rows
  /\ UNCHANGED <<checkout, provider, event, outbox>>

\* emit_event("PAYMENT_SUCCESS") stands after the atomic block.
EmitSuccess(w) ==
  /\ pc[w] = "emit"
  /\ outbox' = outbox \cup {<<"PAYMENT_SUCCESS", at[w]>>}
  /\ Finish(w)
  /\ UNCHANGED <<rows, checkout, provider, event>>

\* save(update_fields=["status", ...]) on the object read before the call.
SaveFailed(w) ==
  /\ pc[w] = "failing"
  /\ status' = [status EXCEPT ![at[w]] = "FAILED"]
  /\ Goto(w, "emitFailed")
  /\ UNCHANGED <<purpose, posted, credit, closed, mirrored>>
  /\ UNCHANGED <<checkout, provider, event, outbox, at, copy>>

EmitFailed(w) ==
  /\ pc[w] = "emitFailed"
  /\ outbox' = outbox \cup {<<"PAYMENT_FAILED", at[w]>>}
  /\ Finish(w)
  /\ UNCHANGED <<rows, checkout, provider, event>>
-----------------------------------------------------------------------------
(***************************************************************************)
(* Webhooks.  A row has the event id of one transaction at the provider,   *)
(* which may send anything of a transaction it charged, any number of      *)
(* times or never.  A request without a valid signature is stored under    *)
(* the id it gives, with whatever it says.                                 *)
(***************************************************************************)
\* What the provider signs: that it charged the amount, right or wrong, or
\* an event of another type under the same id.
Charged == {"paid", "paidOther"}
Signed(q) ==
  IF provider[q] \in Charged THEN {NotACharge, Charge(q, provider[q] = "paid")} ELSE {}

\* Mutant: any second delivery verifies the event.
IngestTrusting(q, says, signed) ==
  IF event[q] = NoEvent
  THEN [status |-> "RECEIVED", attempts |-> 0, signed |-> signed, says |-> says]
  ELSE [event[q] EXCEPT !.signed = TRUE]

\* get_or_create of the event; a later valid signature is noted on it, but
\* what it says stays what the first delivery said.
Ingest(q, says, signed) ==
  IF event[q] = NoEvent
  THEN [status |-> "RECEIVED", attempts |-> 0, signed |-> signed, says |-> says]
  ELSE [event[q] EXCEPT !.signed = @ \/ signed]

\* The view stores the event and goes on to process it, from what it stored,
\* only if the signature is valid.
Deliver(w, q, says, signed) ==
  /\ pc[w] = "idle"
  /\ event[q].attempts < MaxAttempts
  /\ event' = [event EXCEPT ![q] = Ingest(q, says, signed)]
  /\ IF signed
     THEN /\ Start(w, q, "processing")
          /\ copy' = [copy EXCEPT ![w] = Ingest(q, says, signed)]
     ELSE UNCHANGED <<pc, at, copy>>
  /\ UNCHANGED <<rows, checkout, provider, outbox>>

Webhook(w, q) ==
  \/ \E says \in Unsigned : Deliver(w, q, says, FALSE)
  \/ \E says \in Signed(q) : Deliver(w, q, says, TRUE)

\* Mutant: the job picks up only the events that failed before.
RetryableFailed == {"FAILED"}

Retryable == {"RECEIVED", "FAILED"}

\* The beat job reads the events that are not done.
RetryWebhook(w, q) ==
  /\ event[q].status \in Retryable
  /\ event[q].signed
  /\ Start(w, q, "processing")
  /\ copy' = [copy EXCEPT ![w] = event[q]]
  /\ UNCHANGED <<rows, checkout, provider, event, outbox>>

\* Mutant: a status the event does not have.
AfterFailureUnlisted(attempts) == "ERROR"

\* Mutant: whatever goes wrong, the event counts as processed.
AfterFailureProcessed(attempts) == "PROCESSED"

AfterFailure(attempts) == IF attempts >= DeadAfter THEN "DEAD" ELSE "FAILED"

\* The worker's own copy of the event takes the outcome of one more attempt.
NoteOutcome(w, outcome) ==
  /\ copy' = [copy EXCEPT ![w].status = outcome, ![w].attempts = @ + 1]
  /\ Goto(w, "saveEvent")
  /\ UNCHANGED at

\* settle_payment for the payment q a charge.success names.
SettleCharged(q, exact) ==
  \/ /\ status[q] = "SUCCESS"
     /\ UNCHANGED <<status, purpose, posted, credit, closed, outbox>>
  \/ /\ status[q] \notin {"ABSENT", "SUCCESS"}
     /\ exact
     /\ TargetAccepts(q)
     /\ Settle(q)
     /\ outbox' = outbox \cup {<<"PAYMENT_SUCCESS", q>>}

\* One atomic block, which goes by what the stored event says: settlement,
\* PAYMENT_SUCCESS and the mirror row of a charge, nothing for another event.
ProcessSucceeds(w) ==
  /\ pc[w] = "processing"
  /\ copy[w].signed
  /\ copy[w].status # "PROCESSED"
  /\ LET says == copy[w].says
     IN \/ /\ ~says.charge
           /\ UNCHANGED <<rows, outbox>>
        \/ /\ says.charge
           /\ says.names \in Payment
           /\ SettleCharged(says.names, says.exact)
           /\ mirrored' = mirrored \cup {says.names}
  /\ NoteOutcome(w, "PROCESSED")
  /\ UNCHANGED <<checkout, provider, event>>

\* Any exception, a database error included, rolls the block back.
ProcessFails(w) ==
  /\ pc[w] = "processing"
  /\ copy[w].status # "PROCESSED"
  /\ NoteOutcome(w, AfterFailure(copy[w].attempts + 1))
  /\ UNCHANGED <<rows, checkout, provider, event, outbox>>

AlreadyProcessed(w) ==
  /\ pc[w] = "processing"
  /\ copy[w].status = "PROCESSED"
  /\ Finish(w)
  /\ UNCHANGED <<rows, checkout, provider, event, outbox>>

\* event.save() writes every column, outside the atomic block.
SaveEvent(w) ==
  /\ pc[w] = "saveEvent"
  /\ event' = [event EXCEPT ![at[w]] = copy[w]]
  /\ Finish(w)
  /\ UNCHANGED <<rows, checkout, provider, outbox>>

\* The worker is killed, loses its connection, or its transaction aborts.
Crash(w) ==
  /\ pc[w] # "idle"
  /\ Finish(w)
  /\ UNCHANGED <<rows, checkout, provider, event, outbox>>
-----------------------------------------------------------------------------
ProcessEvent(w) == ProcessSucceeds(w) \/ ProcessFails(w) \/ AlreadyProcessed(w)

Next ==
  \/ \E w \in Worker :
       \/ ProviderOpens(w) \/ ProviderRefuses(w)
       \/ SavePending(w) \/ SaveAttempt(w)
       \/ AskProvider(w) \/ SettleVerified(w) \/ EmitSuccess(w)
       \/ SaveFailed(w) \/ EmitFailed(w)
       \/ ProcessSucceeds(w) \/ ProcessFails(w) \/ AlreadyProcessed(w)
       \/ SaveEvent(w) \/ Crash(w)
       \/ \E q \in Payment :
            \/ Initialize(w, q) \/ StartVerify(w, q)
            \/ Webhook(w, q) \/ RetryWebhook(w, q)
  \/ \E q \in Payment : CustomerPays(q)
  \/ \E p \in Routed \cap Offered : CloseTarget(p)

\* Celery runs the retry job every five minutes, and of the workers that take an
\* event up again and again some do not die half way; nothing is assumed of the
\* customer or of the provider.
Fairness ==
  /\ \A q \in Payment : SF_vars(\E w \in Worker : RetryWebhook(w, q))
  /\ SF_vars(\E w \in Worker : ProcessEvent(w))
  /\ SF_vars(\E w \in Worker : SaveEvent(w))
  /\ \A w \in Worker :
       WF_vars(\/ ProviderOpens(w) \/ SavePending(w) \/ SaveAttempt(w)
               \/ AskProvider(w) \/ SettleVerified(w) \/ EmitSuccess(w)
               \/ SaveFailed(w) \/ EmitFailed(w))

Spec == Init /\ [][Next]_vars
FairSpec == Spec /\ Fairness
-----------------------------------------------------------------------------
(***************************************************************************)
(* Properties.                                                             *)
(***************************************************************************)
TypeOK ==
  /\ status \in [Payment -> Statuses]
  /\ purpose \in [Payment -> Purposes]
  /\ checkout \subseteq Payment
  /\ provider \in [Payment -> ProviderStates]
  /\ posted \in [Payment -> Nat]
  /\ credit \in [Payment -> Nat]
  /\ closed \subseteq Routed
  /\ event \in [Payment -> Event]
  /\ mirrored \subseteq Payment
  /\ outbox \subseteq {"PAYMENT_SUCCESS", "PAYMENT_FAILED"} \X Payment
  /\ pc \in [Worker -> Stages]
  /\ at \in [Worker -> Payment \cup {NoPayment}]
  /\ copy \in [Worker -> Event]

\* The stored event of a transaction that was charged says q was, and a signed
\* delivery came under its id.
Vouched(q) ==
  \E p \in Payment :
    /\ provider[p] \in Charged
    /\ event[p].signed
    /\ event[p].says = Charge(q, TRUE)

\* Nothing is posted or credited but on the word of the provider: it charged the
\* payment in full, or it signed a delivery under the id of an event that is
\* stored with this charge.  The second is weaker than "stored, quarantined, never
\* processed" (payments/views.py:46): what a signature later vouches for is what
\* the first delivery under the id said.
PaidFor ==
  \A q \in Payment :
    posted[q] + credit[q] > 0 => provider[q] = "paid" \/ Vouched(q)

\* However webhook, verification and retries race, a payment that reads SUCCESS, a
\* customer who was told of one, a posting and a credit are never without each
\* other's ground: the money is in the ledger once (the key payment:<reference>),
\* and its target was credited, a plan or a loan only once, even when a late FAILED
\* overwrote a settled payment's status and it is settled again, and though notices
\* are written outside the settlement and workers die in between.
SettledOnce ==
  \A q \in Payment :
    (\/ status[q] = "SUCCESS"
     \/ <<"PAYMENT_SUCCESS", q>> \in outbox
     \/ posted[q] + credit[q] > 0)
      => /\ posted[q] = 1
         /\ purpose[q] \in Routed => credit[q] > 0
         /\ purpose[q] \in Guarded => credit[q] = 1

\* An event that counts as processed was vouched for by a signature, and if what
\* is stored of it is a charge, it left the payment it names settled and mirrored,
\* whichever worker saved it from an older copy, and whatever deliveries and
\* retries came in between.
ProcessedIsSettled ==
  \A p \in Payment : event[p].status = "PROCESSED" =>
    /\ provider[p] \in Charged /\ event[p].signed
    /\ event[p].says.charge =>
         LET q == event[p].says.names IN posted[q] = 1 /\ q \in mirrored

\* A stored event with a valid signature is not forgotten, whichever worker
\* dies with it: it is processed, or given up visibly as DEAD.
EventResolved ==
  \A q \in Payment :
    event[q].signed /\ event[q].status \in {"RECEIVED", "FAILED"}
      ~> event[q].status \in {"PROCESSED", "DEAD"}

\* What the module docstring promises: the same key or the same provider
\* event has exactly one financial effect.
OneFinancialEffect == \A q \in Payment : posted[q] <= 1 /\ credit[q] <= 1

\* What the module docstring promises: the outbox event is part of the
\* settlement, so a payment that succeeded is announced once no worker still
\* has the announcement to make.
SuccessAnnounced ==
  \A q \in Payment :
    status[q] = "SUCCESS" /\ (\A w \in Worker : at[w] # q)
      => <<"PAYMENT_SUCCESS", q>> \in outbox
=============================================================================
