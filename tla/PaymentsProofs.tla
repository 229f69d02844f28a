--------------------------- MODULE PaymentsProofs ---------------------------
(***************************************************************************)
(* Proofs about Payments, for any numbers of payments, workers,            *)
(* redeliveries and crashes.                                               *)
(***************************************************************************)
EXTENDS Payments, TLAPS

\* Exactly the workers that do something work on a payment.
WorkInv ==
  \A w \in Worker : at[w] = NoPayment <=> pc[w] = "idle"

TypeInv == TypeOK /\ WorkInv

\* Until the provider opened the transaction, whoever inserted the payment's row
\* is alone with it, but for a stored event that names it.
AloneInv ==
  /\ \A q \in Payment : status[q] = "ABSENT" =>
       /\ provider[q] = "unknown"
       /\ \A w \in Worker : at[w] # q
  /\ \A w \in Worker : pc[w] = "calling" =>
       /\ status[at[w]] \in {"INITIALIZED", "SUCCESS"}
       /\ provider[at[w]] = "unknown"
       /\ \A v \in Worker \ {w} : at[v] # at[w]

\* An event is signed for a charge only, a worker that processes one has what is
\* stored of it, and a verification that goes on to settle has seen a charge of the
\* amount asked for.
ChargeInv ==
  /\ \A q \in Payment :
       /\ event[q].signed => provider[q] \in Charged
       /\ event[q].status = "PROCESSED" => event[q].signed
  /\ \A w \in Worker :
       /\ pc[w] \in {"processing", "saveEvent"} =>
            /\ event[at[w]].signed
            /\ copy[w].signed
            /\ copy[w].says = event[at[w]].says
       /\ pc[w] = "settling" => provider[at[w]] = "paid"

\* What is posted was charged or vouched for.
Grounded(q) == provider[q] = "paid" \/ Vouched(q)
GroundInv == \A q \in Payment : posted[q] # 0 => Grounded(q)

\* What a posting goes with.
Backed(q) ==
  /\ posted[q] = 1
  /\ purpose[q] \in Routed => credit[q] > 0

\* The payment a processed charge names is settled and mirrored.
Done(says, money, mirrors) ==
  says.charge =>
    /\ says.names \in Payment
    /\ money[says.names] # 0
    /\ says.names \in mirrors

\* What the rows of a payment owe each other.
Sound(q) ==
  /\ posted[q] = 0 => credit[q] = 0
  /\ posted[q] # 0 => Backed(q)
  /\ purpose[q] \in Guarded => credit[q] <= 1

\* Whoever reports a settlement, in a row or in memory, does so of one that the
\* ledger holds.
MoneyInv ==
  /\ \A q \in Payment :
       /\ Sound(q)
       /\ status[q] = "SUCCESS" => posted[q] # 0
       /\ <<"PAYMENT_SUCCESS", q>> \in outbox => posted[q] # 0
  /\ \A w \in Worker : pc[w] = "emit" => posted[at[w]] # 0

\* So does an event that counts as processed, in its row or in a copy.
DoneInv ==
  /\ \A q \in Payment :
       event[q].status = "PROCESSED" => Done(event[q].says, posted, mirrored)
  /\ \A w \in Worker :
       pc[w] \in {"processing", "saveEvent"} /\ copy[w].status = "PROCESSED"
         => Done(copy[w].says, posted, mirrored)
-----------------------------------------------------------------------------
(***************************************************************************)
(* Types.                                                                  *)
(***************************************************************************)
LEMMA TypesInitially ==
  ASSUME Init
  PROVE  TypeInv
BY PaymentAssumption
DEF Init, TypeInv, TypeOK, WorkInv, Purposes, Statuses, ProviderStates, Event,
    EventStatuses, NoEvent, NotACharge, Contents, Stages

\* The event that is no event is one.
LEMMA NoEventTyped == NoEvent \in Event
BY DEF NoEvent, NotACharge, Event, Contents, EventStatuses

\* The worker's own columns, which every action but the customer's and the
\* owner's changes in one of three ways.
WorkersTyped ==
  /\ pc \in [Worker -> Stages]
  /\ at \in [Worker -> Payment \cup {NoPayment}]
  /\ copy \in [Worker -> Event]
  /\ WorkInv

\* A worker that takes a payment up is typed, ...
LEMMA StartTyped ==
  ASSUME TypeInv, NEW w \in Worker, NEW q \in Payment, NEW stage \in Stages \ {"idle"},
         Start(w, q, stage), NEW e \in Event, copy' \in {copy, [copy EXCEPT ![w] = e]}
  PROVE  WorkersTyped'
BY PaymentAssumption
DEF TypeInv, TypeOK, WorkInv, WorkersTyped, Start, Goto

\* ... goes on to its next stage typed, ...
LEMMA GoesOnTyped ==
  ASSUME TypeInv, NEW w \in Worker, NEW stage \in Stages \ {"idle"}, pc[w] # "idle",
         Goto(w, stage), UNCHANGED at,
         NEW e \in Event, copy' \in {copy, [copy EXCEPT ![w] = e]}
  PROVE  WorkersTyped'
BY DEF TypeInv, TypeOK, WorkInv, WorkersTyped, Goto

\* ... and is idle again.
LEMMA FinishTyped ==
  ASSUME TypeInv, NEW w \in Worker, Finish(w)
  PROVE  WorkersTyped'
BY NoEventTyped DEF TypeInv, TypeOK, WorkInv, WorkersTyped, Finish, Goto, Stages

\* The shared columns.
RowsTyped ==
  /\ status \in [Payment -> Statuses]
  /\ purpose \in [Payment -> Purposes]
  /\ posted \in [Payment -> Nat]
  /\ credit \in [Payment -> Nat]
  /\ closed \subseteq Routed
  /\ mirrored \subseteq Payment

\* What a settlement writes is typed.
LEMMA SettleTyped ==
  ASSUME TypeInv, NEW q \in Payment, Settle(q), mirrored' \in SUBSET Payment
  PROVE  RowsTyped'
BY DEF TypeInv, TypeOK, RowsTyped, Settle, PostOnce, CreditTarget, Statuses

\* Copies are events.
LEMMA CopyTyped ==
  ASSUME TypeInv
  PROVE  \A w \in Worker : copy[w] \in Event
BY DEF TypeInv, TypeOK

\* A busy worker has a payment.
LEMMA AtPayment ==
  ASSUME TypeInv, NEW w \in Worker, pc[w] # "idle"
  PROVE  at[w] \in Payment
BY DEF TypeInv, TypeOK, WorkInv

\* NoteOutcome gives the copy one of the outcomes, and one more attempt.
LEMMA OutcomeTyped ==
  ASSUME TypeInv, NEW w \in Worker, pc[w] = "processing",
         NEW to \in EventStatuses, NoteOutcome(w, to)
  PROVE  WorkersTyped'
<1>. DEFINE e == [copy[w] EXCEPT !.status = to, !.attempts = @ + 1]
<1>1. e \in Event
  <2>1. copy[w] \in Event /\ copy[w].attempts + 1 \in Nat
    BY CopyTyped DEF Event
  <2>2. \A n \in Nat : [copy[w] EXCEPT !.status = to, !.attempts = n] \in Event
    BY <2>1 DEF Event
  <2>. QED
    BY <2>1, <2>2
<1>2. copy' = [copy EXCEPT ![w] = e]
  BY CopyTyped DEF NoteOutcome, TypeInv, TypeOK, Event
<1>. HIDE DEF e
<1>. QED
  BY <1>1, <1>2, CopyTyped
  DEF TypeInv, TypeOK, WorkInv, WorkersTyped, NoteOutcome, Goto, Stages

\* What is delivered has contents, and a signature only on what was signed.
LEMMA WebhookTyped ==
  ASSUME NEW w \in Worker, NEW q \in Payment, Webhook(w, q)
  PROVE  \E says \in Contents, signed \in BOOLEAN :
           (signed => says \in Signed(q)) /\ Deliver(w, q, says, signed)
<1>1. \A exact \in BOOLEAN : Charge(q, exact) \in Contents
  BY DEF Charge, Contents
<1>2. NotACharge \in Contents
  BY DEF NotACharge, Contents
<1>3. Signed(q) \subseteq Contents
  BY <1>1, <1>2 DEF Signed
<1>. QED
  BY <1>3, PaymentAssumption DEF Webhook

\* Every step keeps the types.
LEMMA TypesInductive ==
  ASSUME TypeInv, [Next]_vars
  PROVE  TypeInv'
<1>1. ASSUME NEW w \in Worker, ProviderOpens(w) PROVE TypeInv'
  BY <1>1, PaymentAssumption
  DEF ProviderOpens, Goto, ProviderStates, Stages, TypeInv, TypeOK, WorkInv, rows
<1>2. ASSUME NEW w \in Worker, ProviderRefuses(w) PROVE TypeInv'
  BY <1>2, NoEventTyped, PaymentAssumption
  DEF ProviderRefuses, Finish, Goto, Stages, Statuses, TypeInv, TypeOK, WorkInv, rows
<1>3. ASSUME NEW w \in Worker, SavePending(w) PROVE TypeInv'
  BY <1>3, PaymentAssumption
  DEF SavePending, Goto, Statuses, Stages, TypeInv, TypeOK, WorkInv, rows
<1>4. ASSUME NEW w \in Worker, SaveAttempt(w) PROVE TypeInv'
  BY <1>4, NoEventTyped, PaymentAssumption
  DEF SaveAttempt, Finish, Goto, Stages, TypeInv,
     TypeOK, WorkInv, rows
<1>5. ASSUME NEW w \in Worker, AskProvider(w) PROVE TypeInv'
  <2>1. WorkersTyped'
    BY <1>5, GoesOnTyped, FinishTyped, CopyTyped DEF AskProvider, Stages
  <2>. QED
    BY <1>5, <2>1 DEF AskProvider, TypeInv, TypeOK, WorkersTyped, rows
<1>6. ASSUME NEW w \in Worker, SettleVerified(w) PROVE TypeInv'
  <2>. at[w] \in Payment
    BY <1>6, AtPayment DEF SettleVerified
  <2>1. WorkersTyped'
    BY <1>6, GoesOnTyped, FinishTyped, CopyTyped DEF SettleVerified, Stages
  <2>2. RowsTyped'
    BY <1>6, SettleTyped DEF SettleVerified, TypeInv, TypeOK, RowsTyped, rows
  <2>. QED
    BY <1>6, <2>1, <2>2 DEF SettleVerified, TypeInv, TypeOK, WorkersTyped, RowsTyped
<1>7. ASSUME NEW w \in Worker, EmitSuccess(w) PROVE TypeInv'
  BY <1>7, NoEventTyped, PaymentAssumption
  DEF EmitSuccess, Finish, Goto, Stages, TypeInv,
     TypeOK, WorkInv, rows
<1>8. ASSUME NEW w \in Worker, SaveFailed(w) PROVE TypeInv'
  BY <1>8, PaymentAssumption
  DEF SaveFailed, Goto, Statuses, Stages, TypeInv, TypeOK, WorkInv, rows
<1>9. ASSUME NEW w \in Worker, EmitFailed(w) PROVE TypeInv'
  BY <1>9, NoEventTyped, PaymentAssumption
  DEF EmitFailed, Finish, Goto, Stages, TypeInv,
     TypeOK, WorkInv, rows
<1>10. ASSUME NEW w \in Worker, ProcessSucceeds(w) PROVE TypeInv'
  <2>1. WorkersTyped'
    BY <1>10, OutcomeTyped DEF ProcessSucceeds, EventStatuses
  <2>2. RowsTyped' /\ outbox' \subseteq {"PAYMENT_SUCCESS", "PAYMENT_FAILED"} \X Payment
    <3>1. CASE UNCHANGED <<rows, outbox>>
      BY <3>1 DEF TypeInv, TypeOK, RowsTyped, rows
    <3>2. CASE /\ copy[w].says.names \in Payment
               /\ SettleCharged(copy[w].says.names, copy[w].says.exact)
               /\ mirrored' = mirrored \cup {copy[w].says.names}
      <4>. DEFINE q == copy[w].says.names
      <4>1. q \in Payment /\ mirrored' \in SUBSET Payment
        BY <3>2 DEF TypeInv, TypeOK
      <4>2. CASE UNCHANGED <<status, purpose, posted, credit, closed, outbox>>
        BY <4>1, <4>2 DEF TypeInv, TypeOK, RowsTyped
      <4>3. CASE Settle(q) /\ outbox' = outbox \cup {<<"PAYMENT_SUCCESS", q>>}
        BY <4>1, <4>3, SettleTyped DEF TypeInv, TypeOK
      <4>. QED
        BY <3>2, <4>2, <4>3 DEF SettleCharged
    <3>. QED
      BY <1>10, <3>1, <3>2 DEF ProcessSucceeds
  <2>. QED
    BY <1>10, <2>1, <2>2 DEF ProcessSucceeds, TypeInv, TypeOK, WorkersTyped,
       RowsTyped
<1>11. ASSUME NEW w \in Worker, ProcessFails(w) PROVE TypeInv'
  <2>1. WorkersTyped'
    BY <1>11, OutcomeTyped DEF ProcessFails, AfterFailure, EventStatuses
  <2>. QED
    BY <1>11, <2>1 DEF ProcessFails, TypeInv, TypeOK, WorkersTyped, rows
<1>12. ASSUME NEW w \in Worker, AlreadyProcessed(w) PROVE TypeInv'
  BY <1>12, NoEventTyped, PaymentAssumption
  DEF AlreadyProcessed, Finish, Goto, Stages, TypeInv, TypeOK, WorkInv, rows
<1>13. ASSUME NEW w \in Worker, SaveEvent(w) PROVE TypeInv'
  BY <1>13, NoEventTyped, PaymentAssumption
  DEF SaveEvent, Finish, Goto, Stages, TypeInv,
     TypeOK, WorkInv, rows
<1>14. ASSUME NEW w \in Worker, Crash(w) PROVE TypeInv'
  BY <1>14, NoEventTyped, PaymentAssumption
  DEF Crash, Finish, Goto, Stages, TypeInv, TypeOK,
     WorkInv, rows
<1>15. ASSUME NEW w \in Worker, NEW q \in Payment, Initialize(w, q) PROVE TypeInv'
  BY <1>15, PaymentAssumption
  DEF Initialize, Start, Goto, Statuses, Stages, TypeInv, TypeOK, WorkInv, rows
<1>16. ASSUME NEW w \in Worker, NEW q \in Payment, StartVerify(w, q) PROVE TypeInv'
  BY <1>16, PaymentAssumption
  DEF StartVerify, Start, Goto, Stages, TypeInv, TypeOK, WorkInv, rows
<1>17. ASSUME NEW w \in Worker, NEW q \in Payment, RetryWebhook(w, q) PROVE TypeInv'
  BY <1>17, PaymentAssumption
  DEF RetryWebhook, Start, Goto, Stages, TypeInv, TypeOK, WorkInv, rows
<1>18. ASSUME NEW w \in Worker, NEW q \in Payment, NEW says \in Contents,
             NEW signed \in BOOLEAN, signed => says \in Signed(q),
             Deliver(w, q, says, signed)
      PROVE  TypeInv'
  <2>1. Ingest(q, says, signed) \in Event
    BY DEF Ingest, Event, EventStatuses, TypeInv, TypeOK
  <2>2. WorkersTyped'
    BY <1>18, <2>1, StartTyped DEF Deliver, Stages, TypeInv, TypeOK, WorkInv,
       WorkersTyped
  <2>. QED
    BY <1>18, <2>1, <2>2 DEF Deliver, TypeInv, TypeOK, WorkersTyped, rows
<1>19. ASSUME NEW w \in Worker, NEW q \in Payment, Webhook(w, q) PROVE TypeInv'
  BY <1>18, <1>19, WebhookTyped
<1>20. ASSUME NEW q \in Payment, CustomerPays(q) PROVE TypeInv'
  BY <1>20, PaymentAssumption
  DEF CustomerPays, ProviderStates, TypeInv, TypeOK, WorkInv, rows
<1>21. ASSUME NEW p \in Routed \cap Offered, CloseTarget(p) PROVE TypeInv'
  BY <1>21, PaymentAssumption
  DEF CloseTarget, Purposes, TypeInv, TypeOK, WorkInv, rows
<1>22. CASE UNCHANGED vars
  BY <1>22, PaymentAssumption
  DEF vars, rows, TypeInv, TypeOK, WorkInv, rows
<1>. QED
  BY <1>1, <1>2, <1>3, <1>4, <1>5, <1>6, <1>7, <1>8, <1>9, <1>10, <1>11, <1>12,
     <1>13, <1>14, <1>15, <1>16, <1>17, <1>18, <1>19, <1>20, <1>21, <1>22
  DEF Next
-----------------------------------------------------------------------------
(***************************************************************************)
(* What workers may rely on before the provider has opened a transaction,  *)
(* and what webhooks and verifications were told.                          *)
(***************************************************************************)
LEMMA AloneInductive ==
  ASSUME TypeInv, AloneInv, ChargeInv, [Next]_vars
  PROVE  AloneInv'
<1>. USE DEF TypeInv, TypeOK, WorkInv, AloneInv, ChargeInv, rows
<1>1. ASSUME NEW w \in Worker, ProviderOpens(w) PROVE AloneInv'
  BY <1>1, AtPayment, PaymentAssumption DEF ProviderOpens, Goto
<1>2. ASSUME NEW w \in Worker, ProviderRefuses(w) PROVE AloneInv'
  BY <1>2, AtPayment, PaymentAssumption DEF ProviderRefuses, Finish, Goto
<1>3. ASSUME NEW w \in Worker, SavePending(w) PROVE AloneInv'
  BY <1>3, AtPayment, PaymentAssumption DEF SavePending, Goto
<1>4. ASSUME NEW w \in Worker, SaveAttempt(w) PROVE AloneInv'
  BY <1>4, AtPayment, PaymentAssumption DEF SaveAttempt, Finish, Goto
<1>5. ASSUME NEW w \in Worker, AskProvider(w) PROVE AloneInv'
  BY <1>5, AtPayment, PaymentAssumption DEF AskProvider, Finish, Goto
<1>6. ASSUME NEW w \in Worker, SettleVerified(w) PROVE AloneInv'
  BY <1>6, AtPayment, PaymentAssumption DEF SettleVerified, Settle, Finish, Goto
<1>7. ASSUME NEW w \in Worker, EmitSuccess(w) PROVE AloneInv'
  BY <1>7, AtPayment, PaymentAssumption DEF EmitSuccess, Finish, Goto
<1>8. ASSUME NEW w \in Worker, SaveFailed(w) PROVE AloneInv'
  BY <1>8, AtPayment, PaymentAssumption DEF SaveFailed, Goto
<1>9. ASSUME NEW w \in Worker, EmitFailed(w) PROVE AloneInv'
  BY <1>9, AtPayment, PaymentAssumption DEF EmitFailed, Finish, Goto
<1>10. ASSUME NEW w \in Worker, ProcessSucceeds(w) PROVE AloneInv'
  <2>1. /\ UNCHANGED <<provider, at>> /\ pc' = [pc EXCEPT ![w] = "saveEvent"]
        /\ \/ UNCHANGED status
           \/ \E q \in Payment : /\ status[q] # "ABSENT"
                                 /\ status' = [status EXCEPT ![q] = "SUCCESS"]
    BY <1>10 DEF ProcessSucceeds, SettleCharged, Settle, NoteOutcome, Goto
  <2>. QED
    BY <1>10, <2>1, AtPayment, PaymentAssumption DEF ProcessSucceeds
<1>11. ASSUME NEW w \in Worker, ProcessFails(w) PROVE AloneInv'
  BY <1>11, AtPayment, PaymentAssumption DEF ProcessFails, NoteOutcome, Goto
<1>12. ASSUME NEW w \in Worker, AlreadyProcessed(w) PROVE AloneInv'
  BY <1>12, AtPayment, PaymentAssumption DEF AlreadyProcessed, Finish, Goto
<1>13. ASSUME NEW w \in Worker, SaveEvent(w) PROVE AloneInv'
  BY <1>13, AtPayment, PaymentAssumption DEF SaveEvent, Finish, Goto
<1>14. ASSUME NEW w \in Worker, Crash(w) PROVE AloneInv'
  BY <1>14, AtPayment, PaymentAssumption DEF Crash, Finish, Goto
<1>15. ASSUME NEW w \in Worker, NEW q \in Payment, Initialize(w, q) PROVE AloneInv'
  BY <1>15, PaymentAssumption DEF Initialize, Start, Goto
<1>16. ASSUME NEW w \in Worker, NEW q \in Payment, StartVerify(w, q) PROVE AloneInv'
  BY <1>16, PaymentAssumption DEF StartVerify, Start, Goto
<1>17. ASSUME NEW w \in Worker, NEW q \in Payment, RetryWebhook(w, q) PROVE AloneInv'
  BY <1>17, PaymentAssumption DEF RetryWebhook, Retryable, Charged, Start, Goto
<1>18. ASSUME NEW w \in Worker, NEW q \in Payment, NEW says \in Contents,
             NEW signed \in BOOLEAN, signed => says \in Signed(q),
             Deliver(w, q, says, signed)
      PROVE  AloneInv'
  BY <1>18, PaymentAssumption DEF Deliver, Signed, Start, Goto, Charged
<1>19. ASSUME NEW w \in Worker, NEW q \in Payment, Webhook(w, q) PROVE AloneInv'
  BY <1>18, <1>19, WebhookTyped
<1>20. ASSUME NEW q \in Payment, CustomerPays(q) PROVE AloneInv'
  BY <1>20 DEF CustomerPays
<1>21. ASSUME NEW p \in Routed \cap Offered, CloseTarget(p) PROVE AloneInv'
  BY <1>21 DEF CloseTarget
<1>22. CASE UNCHANGED vars
  BY <1>22 DEF vars
<1>. QED
  BY <1>1, <1>2, <1>3, <1>4, <1>5, <1>6, <1>7, <1>8, <1>9, <1>10, <1>11, <1>12,
     <1>13, <1>14, <1>15, <1>16, <1>17, <1>18, <1>19, <1>20, <1>21, <1>22
  DEF Next

\* Every step keeps what webhooks and verifications were told.
LEMMA ChargeInductive ==
  ASSUME TypeInv, AloneInv, ChargeInv, [Next]_vars
  PROVE  ChargeInv'
<1>. USE DEF TypeInv, TypeOK, WorkInv, AloneInv, ChargeInv, Charged, rows
<1>1. ASSUME NEW w \in Worker, ProviderOpens(w) PROVE ChargeInv'
  BY <1>1, AtPayment, PaymentAssumption DEF ProviderOpens, Goto
<1>2. ASSUME NEW w \in Worker, ProviderRefuses(w) PROVE ChargeInv'
  BY <1>2, AtPayment, PaymentAssumption DEF ProviderRefuses, Finish, Goto
<1>3. ASSUME NEW w \in Worker, SavePending(w) PROVE ChargeInv'
  BY <1>3, AtPayment, PaymentAssumption DEF SavePending, Goto
<1>4. ASSUME NEW w \in Worker, SaveAttempt(w) PROVE ChargeInv'
  BY <1>4, AtPayment, PaymentAssumption DEF SaveAttempt, Finish, Goto
<1>5. ASSUME NEW w \in Worker, AskProvider(w) PROVE ChargeInv'
  BY <1>5, AtPayment, PaymentAssumption DEF AskProvider, SettledBy, Finish, Goto
<1>6. ASSUME NEW w \in Worker, SettleVerified(w) PROVE ChargeInv'
  BY <1>6, AtPayment, PaymentAssumption DEF SettleVerified, Settle, Finish, Goto
<1>7. ASSUME NEW w \in Worker, EmitSuccess(w) PROVE ChargeInv'
  BY <1>7, AtPayment, PaymentAssumption DEF EmitSuccess, Finish, Goto
<1>8. ASSUME NEW w \in Worker, SaveFailed(w) PROVE ChargeInv'
  BY <1>8, AtPayment, PaymentAssumption DEF SaveFailed, Goto
<1>9. ASSUME NEW w \in Worker, EmitFailed(w) PROVE ChargeInv'
  BY <1>9, AtPayment, PaymentAssumption DEF EmitFailed, Finish, Goto
<1>10. ASSUME NEW w \in Worker, ProcessSucceeds(w) PROVE ChargeInv'
  BY <1>10, AtPayment, PaymentAssumption DEF ProcessSucceeds, Settle, NoteOutcome,
     Goto
<1>11. ASSUME NEW w \in Worker, ProcessFails(w) PROVE ChargeInv'
  BY <1>11, AtPayment, PaymentAssumption DEF ProcessFails, NoteOutcome, Goto
<1>12. ASSUME NEW w \in Worker, AlreadyProcessed(w) PROVE ChargeInv'
  BY <1>12, AtPayment, PaymentAssumption DEF AlreadyProcessed, Finish, Goto
<1>13. ASSUME NEW w \in Worker, SaveEvent(w) PROVE ChargeInv'
  BY <1>13, AtPayment, PaymentAssumption DEF SaveEvent, Finish, Goto
<1>14. ASSUME NEW w \in Worker, Crash(w) PROVE ChargeInv'
  BY <1>14, AtPayment, PaymentAssumption DEF Crash, Finish, Goto
<1>15. ASSUME NEW w \in Worker, NEW q \in Payment, Initialize(w, q) PROVE ChargeInv'
  BY <1>15, PaymentAssumption DEF Initialize, Start, Goto
<1>16. ASSUME NEW w \in Worker, NEW q \in Payment, StartVerify(w, q) PROVE ChargeInv'
  BY <1>16, PaymentAssumption DEF StartVerify, Start, Goto
<1>17. ASSUME NEW w \in Worker, NEW q \in Payment, RetryWebhook(w, q) PROVE ChargeInv'
  BY <1>17, PaymentAssumption DEF RetryWebhook, Retryable, Start, Goto
<1>18. ASSUME NEW w \in Worker, NEW q \in Payment, NEW says \in Contents,
             NEW signed \in BOOLEAN, signed => says \in Signed(q),
             Deliver(w, q, says, signed)
      PROVE  ChargeInv'
  <2>. DEFINE e == Ingest(q, says, signed)
  <2>1. signed => provider[q] \in Charged
    BY <1>18 DEF Signed
  <2>2. /\ e.signed <=> signed \/ event[q].signed
        /\ event[q].signed => e.says = event[q].says
        /\ e.status = "PROCESSED" => event[q].signed
    BY DEF Ingest, NoEvent, Event
  <2>. HIDE DEF e
  <2>3. /\ event' = [event EXCEPT ![q] = e]
        /\ UNCHANGED provider
        /\ \A v \in Worker \ {w} : pc'[v] = pc[v] /\ at'[v] = at[v] /\ copy'[v] = copy[v]
        /\ \/ pc'[w] = "idle"
           \/ signed /\ pc'[w] = "processing" /\ at'[w] = q /\ copy'[w] = e
    BY <1>18 DEF Deliver, Start, Goto, e
  <2>. QED
    BY <2>1, <2>2, <2>3
<1>19. ASSUME NEW w \in Worker, NEW q \in Payment, Webhook(w, q) PROVE ChargeInv'
  BY <1>18, <1>19, WebhookTyped
<1>20. ASSUME NEW q \in Payment, CustomerPays(q) PROVE ChargeInv'
  BY <1>20 DEF CustomerPays
<1>21. ASSUME NEW p \in Routed \cap Offered, CloseTarget(p) PROVE ChargeInv'
  BY <1>21 DEF CloseTarget
<1>22. CASE UNCHANGED vars
  BY <1>22 DEF vars
<1>. QED
  BY <1>1, <1>2, <1>3, <1>4, <1>5, <1>6, <1>7, <1>8, <1>9, <1>10, <1>11, <1>12,
     <1>13, <1>14, <1>15, <1>16, <1>17, <1>18, <1>19, <1>20, <1>21, <1>22
  DEF Next
-----------------------------------------------------------------------------
(***************************************************************************)
(* What stays: postings, stored contents and charges.                      *)
(***************************************************************************)
\* What is posted or mirrored stays so.
LEMMA PostingsStay ==
  ASSUME TypeInv, [Next]_vars
  PROVE  /\ \A q \in Payment : posted[q] # 0 => posted'[q] # 0
         /\ mirrored \subseteq mirrored'
<1>1. \/ UNCHANGED posted
      \/ \E q \in Payment : posted' = [posted EXCEPT ![q] = 1]
  <2>1. ASSUME NEW w \in Worker, SettleVerified(w)
        PROVE  \/ UNCHANGED posted
               \/ \E q \in Payment : posted' = [posted EXCEPT ![q] = 1]
    <3>. at[w] \in Payment
      BY <2>1, AtPayment DEF SettleVerified
    <3>. QED
      BY <2>1 DEF SettleVerified, Settle, PostOnce, rows
  <2>2. ASSUME NEW w \in Worker, ProcessSucceeds(w)
        PROVE  \/ UNCHANGED posted
               \/ \E q \in Payment : posted' = [posted EXCEPT ![q] = 1]
    BY <2>2 DEF ProcessSucceeds, SettleCharged, Settle, PostOnce, rows
  <2>. QED
    BY <2>1, <2>2
    DEF Next, vars, rows, ProviderOpens, ProviderRefuses, SavePending, SaveAttempt,
        AskProvider, EmitSuccess, SaveFailed, EmitFailed, ProcessFails,
        AlreadyProcessed, SaveEvent, Crash, Initialize, StartVerify, RetryWebhook,
        Webhook, Deliver, CustomerPays, CloseTarget
<1>2. mirrored \subseteq mirrored'
  <2>1. ASSUME NEW w \in Worker, SettleVerified(w)
        PROVE  mirrored' = mirrored
    BY <2>1 DEF SettleVerified, rows
  <2>2. ASSUME NEW w \in Worker, ProcessSucceeds(w)
        PROVE  mirrored \subseteq mirrored'
    BY <2>2 DEF ProcessSucceeds, rows
  <2>. QED
    BY <2>1, <2>2
    DEF Next, vars, rows, ProviderOpens, ProviderRefuses, SavePending, SaveAttempt,
        AskProvider, EmitSuccess, SaveFailed, EmitFailed, ProcessFails,
        AlreadyProcessed, SaveEvent, Crash, Initialize, StartVerify, RetryWebhook,
        Webhook, Deliver, CustomerPays, CloseTarget
<1>. QED
  BY <1>1, <1>2 DEF TypeInv, TypeOK

\* A signed event keeps what it says.
LEMMA EventsStay ==
  ASSUME TypeInv, ChargeInv, [Next]_vars
  PROVE  \A p \in Payment : event[p].signed =>
           event'[p].signed /\ event'[p].says = event[p].says
<1>1. ASSUME NEW w \in Worker, SaveEvent(w)
      PROVE  \A p \in Payment : event[p].signed =>
               event'[p].signed /\ event'[p].says = event[p].says
  BY <1>1, AtPayment DEF SaveEvent, ChargeInv, TypeInv, TypeOK
<1>2. ASSUME NEW w \in Worker, NEW q \in Payment, NEW says \in Contents,
             NEW signed \in BOOLEAN, Deliver(w, q, says, signed)
      PROVE  \A p \in Payment : event[p].signed =>
               event'[p].signed /\ event'[p].says = event[p].says
  BY <1>2 DEF Deliver, Ingest, NoEvent, Event, TypeInv, TypeOK
<1>3. ASSUME NEW w \in Worker, NEW q \in Payment, Webhook(w, q)
      PROVE  \A p \in Payment : event[p].signed =>
               event'[p].signed /\ event'[p].says = event[p].says
  BY <1>2, <1>3, WebhookTyped
<1>. QED
  BY <1>1, <1>3
  DEF Next, vars, ProviderOpens, ProviderRefuses, SavePending, SaveAttempt,
      AskProvider, SettleVerified, EmitSuccess, SaveFailed, EmitFailed,
      ProcessSucceeds, ProcessFails, AlreadyProcessed, Crash, Initialize,
      StartVerify, RetryWebhook, CustomerPays, CloseTarget

\* The provider does not go back on a charge.
LEMMA ChargesStay ==
  ASSUME TypeInv, AloneInv, [Next]_vars
  PROVE  \A p \in Payment : provider[p] \in Charged => provider'[p] = provider[p]
<1>1. ASSUME NEW w \in Worker, ProviderOpens(w)
      PROVE  \A p \in Payment : provider[p] \in Charged => provider'[p] = provider[p]
  BY <1>1 DEF ProviderOpens, AloneInv, Charged, TypeInv, TypeOK
<1>2. ASSUME NEW q \in Payment, CustomerPays(q)
      PROVE  \A p \in Payment : provider[p] \in Charged => provider'[p] = provider[p]
  BY <1>2 DEF CustomerPays, Charged, TypeInv, TypeOK
<1>. QED
  BY <1>1, <1>2
  DEF Next, vars, ProviderRefuses, SavePending, SaveAttempt, AskProvider,
      SettleVerified, EmitSuccess, SaveFailed, EmitFailed, ProcessSucceeds,
      ProcessFails, AlreadyProcessed, SaveEvent, Crash, Initialize, StartVerify,
      RetryWebhook, Webhook, Deliver, CloseTarget

\* So the ground of a posting stays.
LEMMA GroundStays ==
  ASSUME TypeInv, AloneInv, ChargeInv, [Next]_vars
  PROVE  \A q \in Payment : Grounded(q) => Grounded(q)'
BY EventsStay, ChargesStay DEF Grounded, Vouched, Charged

\* Every step grounds what it posts.
LEMMA GroundInductive ==
  ASSUME TypeInv, AloneInv, ChargeInv, GroundInv, [Next]_vars
  PROVE  GroundInv'
<1>1. ASSUME NEW w \in Worker, SettleVerified(w)
      PROVE  GroundInv'
  <2>1. at[w] \in Payment /\ provider[at[w]] = "paid" /\ provider' = provider
    BY <1>1, AtPayment DEF SettleVerified, ChargeInv
  <2>2. \A q \in Payment : posted'[q] # 0 => posted[q] # 0 \/ q = at[w]
    BY <1>1, <2>1 DEF SettleVerified, Settle, PostOnce, rows, TypeInv, TypeOK
  <2>. QED
    BY <2>1, <2>2, GroundStays DEF GroundInv, Grounded
<1>2. ASSUME NEW w \in Worker, ProcessSucceeds(w)
      PROVE  GroundInv'
  <2>. DEFINE says == copy[w].says
  <2>1. /\ at[w] \in Payment
        /\ event[at[w]].signed /\ event[at[w]].says = says
        /\ provider[at[w]] \in Charged
    BY <1>2, AtPayment DEF ProcessSucceeds, ChargeInv
  <2>2. \/ UNCHANGED posted
        \/ /\ says.charge /\ says.exact /\ says.names \in Payment
           /\ posted' = [posted EXCEPT ![says.names] = 1]
    BY <1>2 DEF ProcessSucceeds, SettleCharged, Settle, PostOnce, rows
  <2>3. says \in Contents
    BY CopyTyped DEF Event
  <2>4. says.charge /\ says.exact => says = Charge(says.names, TRUE)
    BY <2>3 DEF Contents, Charge
  <2>5. says.charge /\ says.exact /\ says.names \in Payment => Grounded(says.names)
    BY <2>1, <2>4 DEF Grounded, Vouched
  <2>6. \A q \in Payment : posted'[q] # 0 => posted[q] # 0 \/ Grounded(q)
    BY <2>2, <2>5 DEF TypeInv, TypeOK
  <2>. QED
    BY <2>6, GroundStays DEF GroundInv
<1>3. CASE UNCHANGED posted
  BY <1>3, GroundStays DEF GroundInv
<1>. QED
  BY <1>1, <1>2, <1>3
  DEF Next, vars, rows, ProviderOpens, ProviderRefuses, SavePending, SaveAttempt,
      AskProvider, EmitSuccess, SaveFailed, EmitFailed, ProcessFails,
      AlreadyProcessed, SaveEvent, Crash, Initialize, StartVerify, RetryWebhook,
      Webhook, Deliver, CustomerPays, CloseTarget
-----------------------------------------------------------------------------
(***************************************************************************)
(* Money.                                                                  *)
(***************************************************************************)
LEMMA SettleSound ==
  ASSUME TypeInv, MoneyInv, NEW q \in Payment, Settle(q)
  PROVE  /\ \A p \in Payment : Sound(p)'
         /\ \A p \in Payment : posted'[p] # 0 <=> posted[p] # 0 \/ p = q
         /\ \A p \in Payment : status'[p] = "SUCCESS" <=> status[p] = "SUCCESS" \/ p = q
<1>. USE DEF TypeInv, TypeOK, MoneyInv
<1>1. \A p \in Payment \ {q} : Sound(p)'
  BY DEF Sound, Backed, Settle, PostOnce, CreditTarget
<1>2. Sound(q)'
  <2>1. credit'[q] = IF purpose[q] \in Routed /\ ~Applied(q) THEN credit[q] + 1
                     ELSE credit[q]
    BY DEF Settle, CreditTarget
  <2>2. posted'[q] = 1 /\ purpose' = purpose
    BY DEF Settle, PostOnce
  <2>3. credit[q] \in Nat
    OBVIOUS
  <2>4. Guarded \subseteq Routed
    BY DEF Routed
  <2>5. Sound(q)
    OBVIOUS
  <2>. HIDE DEF TypeInv, TypeOK, MoneyInv
  <2>7. CASE purpose[q] \in Routed /\ ~Applied(q)
    BY <2>1, <2>2, <2>3, <2>5, <2>7 DEF Sound, Backed, Applied
  <2>8. CASE purpose[q] \notin Routed
    BY <2>1, <2>2, <2>3, <2>4, <2>5, <2>8 DEF Sound, Backed
  <2>9. CASE Applied(q)
    BY <2>1, <2>2, <2>3, <2>5, <2>9 DEF Sound, Backed, Applied
  <2>. QED
    BY <2>7, <2>8, <2>9
<1>. QED
  BY <1>1, <1>2 DEF Settle, PostOnce

\* Every step keeps a posting and a credit under every claim of a settlement.
LEMMA MoneyInductive ==
  ASSUME TypeInv, AloneInv, ChargeInv, MoneyInv, [Next]_vars
  PROVE  MoneyInv'
<1>. USE DEF TypeInv, TypeOK, WorkInv, AloneInv, ChargeInv, MoneyInv, Sound, Backed,
   Charged, rows
<1>1. ASSUME NEW w \in Worker, ProviderOpens(w) PROVE MoneyInv'
  BY <1>1, AtPayment DEF ProviderOpens, Goto
<1>2. ASSUME NEW w \in Worker, ProviderRefuses(w) PROVE MoneyInv'
  BY <1>2, AtPayment DEF ProviderRefuses, Finish, Goto
<1>3. ASSUME NEW w \in Worker, SavePending(w) PROVE MoneyInv'
  BY <1>3, AtPayment DEF SavePending, Goto
<1>4. ASSUME NEW w \in Worker, SaveAttempt(w) PROVE MoneyInv'
  BY <1>4, AtPayment DEF SaveAttempt, Finish, Goto
<1>5. ASSUME NEW w \in Worker, AskProvider(w) PROVE MoneyInv'
  BY <1>5, AtPayment DEF AskProvider, Finish, Goto
<1>6. ASSUME NEW w \in Worker, SettleVerified(w) PROVE MoneyInv'
  <2>. at[w] \in Payment
    BY <1>6, AtPayment DEF SettleVerified
  <2>1. CASE Settle(at[w]) /\ Goto(w, "emit")
    <3>1. posted'[at[w]] # 0 /\ UNCHANGED <<at, outbox>>
      BY <1>6, <2>1, SettleSound DEF SettleVerified, Finish, Goto
    <3>. HIDE DEF Sound
    <3>. QED
      BY <1>6, <2>1, <3>1, SettleSound DEF SettleVerified, Goto
  <2>2. CASE Finish(w) /\ UNCHANGED rows
    BY <1>6, <2>2 DEF SettleVerified, Finish, Goto
  <2>. QED
    BY <1>6, <2>1, <2>2 DEF SettleVerified
<1>7. ASSUME NEW w \in Worker, EmitSuccess(w) PROVE MoneyInv'
  BY <1>7, AtPayment DEF EmitSuccess, Finish, Goto
<1>8. ASSUME NEW w \in Worker, SaveFailed(w) PROVE MoneyInv'
  BY <1>8, AtPayment DEF SaveFailed, Goto
<1>9. ASSUME NEW w \in Worker, EmitFailed(w) PROVE MoneyInv'
  BY <1>9, AtPayment DEF EmitFailed, Finish, Goto
<1>10. ASSUME NEW w \in Worker, ProcessSucceeds(w) PROVE MoneyInv'
  <2>1. UNCHANGED at /\ pc' = [pc EXCEPT ![w] = "saveEvent"]
    BY <1>10 DEF ProcessSucceeds, NoteOutcome, Goto
  <2>2. CASE UNCHANGED <<status, purpose, posted, credit, outbox>>
    BY <2>1, <2>2
  <2>3. ASSUME NEW q \in Payment, Settle(q),
               outbox' = outbox \cup {<<"PAYMENT_SUCCESS", q>>}
        PROVE  MoneyInv'
    BY <2>1, <2>3, SettleSound, AtPayment DEF Sound
  <2>. QED
    BY <1>10, <2>2, <2>3 DEF ProcessSucceeds, SettleCharged
<1>11. ASSUME NEW w \in Worker, ProcessFails(w) PROVE MoneyInv'
  BY <1>11, AtPayment DEF ProcessFails, NoteOutcome, AfterFailure, Goto
<1>12. ASSUME NEW w \in Worker, AlreadyProcessed(w) PROVE MoneyInv'
  BY <1>12, AtPayment DEF AlreadyProcessed, Finish, Goto
<1>13. ASSUME NEW w \in Worker, SaveEvent(w) PROVE MoneyInv'
  BY <1>13, AtPayment DEF SaveEvent, Finish, Goto
<1>14. ASSUME NEW w \in Worker, Crash(w) PROVE MoneyInv'
  BY <1>14, AtPayment DEF Crash, Finish, Goto
<1>15. ASSUME NEW w \in Worker, NEW q \in Payment, Initialize(w, q) PROVE MoneyInv'
  BY <1>15, PaymentAssumption DEF Initialize, Start, Goto
<1>16. ASSUME NEW w \in Worker, NEW q \in Payment, StartVerify(w, q) PROVE MoneyInv'
  BY <1>16, PaymentAssumption DEF StartVerify, Start, Goto
<1>17. ASSUME NEW w \in Worker, NEW q \in Payment, RetryWebhook(w, q) PROVE MoneyInv'
  BY <1>17, PaymentAssumption DEF RetryWebhook, Retryable, Start, Goto
<1>18. ASSUME NEW w \in Worker, NEW q \in Payment, NEW says \in Contents,
             NEW signed \in BOOLEAN, signed => says \in Signed(q),
             Deliver(w, q, says, signed)
      PROVE  MoneyInv'
  BY <1>18, PaymentAssumption DEF Deliver, Start, Goto
<1>19. ASSUME NEW w \in Worker, NEW q \in Payment, Webhook(w, q) PROVE MoneyInv'
  BY <1>18, <1>19, WebhookTyped
<1>20. ASSUME NEW q \in Payment, CustomerPays(q) PROVE MoneyInv'
  BY <1>20 DEF CustomerPays
<1>21. ASSUME NEW p \in Routed \cap Offered, CloseTarget(p) PROVE MoneyInv'
  BY <1>21 DEF CloseTarget
<1>22. CASE UNCHANGED vars
  BY <1>22 DEF vars
<1>. QED
  BY <1>1, <1>2, <1>3, <1>4, <1>5, <1>6, <1>7, <1>8, <1>9, <1>10, <1>11, <1>12,
     <1>13, <1>14, <1>15, <1>16, <1>17, <1>18, <1>19, <1>20, <1>21, <1>22
  DEF Next

\* Every step keeps what a processed event stands on.
LEMMA DoneInductive ==
  ASSUME TypeInv, ChargeInv, DoneInv, MoneyInv, [Next]_vars
  PROVE  DoneInv'
<1>1. \A says \in Contents : Done(says, posted, mirrored) => Done(says, posted', mirrored')
  BY PostingsStay DEF Done
<1>2. /\ \A q \in Payment : event[q].says \in Contents
      /\ \A w \in Worker : copy[w].says \in Contents
  BY DEF TypeInv, TypeOK, Event
<1>. HIDE DEF Done
<1>3. CASE UNCHANGED <<event, pc, copy>>
  BY <1>1, <1>2, <1>3 DEF DoneInv
<1>4. ASSUME UNCHANGED event, NEW w \in Worker,
             pc'[w] \notin {"processing", "saveEvent"},
             \A v \in Worker \ {w} : pc'[v] = pc[v] /\ copy'[v] = copy[v]
      PROVE  DoneInv'
  BY <1>1, <1>2, <1>4 DEF DoneInv
<1>5. ASSUME NEW w \in Worker, ProcessSucceeds(w)
      PROVE  DoneInv'
  <2>1. /\ UNCHANGED event
        /\ copy'[w].says = copy[w].says
        /\ \A v \in Worker \ {w} : pc'[v] = pc[v] /\ copy'[v] = copy[v]
    BY <1>5 DEF ProcessSucceeds, NoteOutcome, Goto, TypeInv, TypeOK, Event
  <2>2. Done(copy[w].says, posted', mirrored')
    <3>1. CASE ~copy[w].says.charge
      BY <3>1 DEF Done
    <3>2. CASE copy[w].says.charge
      <4>. DEFINE q == copy[w].says.names
      <4>1. q \in Payment /\ q \in mirrored' /\ SettleCharged(q, copy[w].says.exact)
        BY <1>5, <3>2 DEF ProcessSucceeds
      <4>2. CASE status[q] = "SUCCESS" /\ UNCHANGED posted
        BY <4>1, <4>2 DEF MoneyInv, Done
      <4>3. CASE posted' = [posted EXCEPT ![q] = 1]
        BY <4>1, <4>3 DEF TypeInv, TypeOK, Done
      <4>. QED
        BY <4>1, <4>2, <4>3 DEF SettleCharged, Settle, PostOnce
    <3>. QED
      BY <3>1, <3>2
  <2>. QED
    BY <1>1, <1>2, <2>1, <2>2 DEF DoneInv
<1>6. ASSUME NEW w \in Worker, ProcessFails(w)
      PROVE  DoneInv'
  <2>1. /\ UNCHANGED event
        /\ copy'[w].status # "PROCESSED"
        /\ \A v \in Worker \ {w} : pc'[v] = pc[v] /\ copy'[v] = copy[v]
    BY <1>6 DEF ProcessFails, NoteOutcome, AfterFailure, Goto, TypeInv, TypeOK, Event
  <2>. QED
    BY <1>1, <1>2, <2>1 DEF DoneInv
<1>7. ASSUME NEW w \in Worker, SaveEvent(w)
      PROVE  DoneInv'
  <2>1. at[w] \in Payment
    BY <1>7, AtPayment DEF SaveEvent
  <2>2. /\ event' = [event EXCEPT ![at[w]] = copy[w]]
        /\ pc'[w] = "idle" /\ pc[w] = "saveEvent"
        /\ \A v \in Worker \ {w} : pc'[v] = pc[v] /\ copy'[v] = copy[v]
    BY <1>7 DEF SaveEvent, Finish, Goto, TypeInv, TypeOK
  <2>3. \A q \in Payment : event'[q] \in {event[q], copy[w]}
    BY <2>2 DEF TypeInv, TypeOK
  <2>. QED
    BY <1>1, <1>2, <2>2, <2>3 DEF DoneInv
<1>8. ASSUME NEW w \in Worker, NEW q \in Payment, RetryWebhook(w, q)
      PROVE  DoneInv'
  <2>1. /\ UNCHANGED event
        /\ copy'[w] = event[q] /\ event[q].status # "PROCESSED"
        /\ \A v \in Worker \ {w} : pc'[v] = pc[v] /\ copy'[v] = copy[v]
    BY <1>8 DEF RetryWebhook, Retryable, Start, Goto, TypeInv, TypeOK
  <2>. QED
    BY <1>1, <1>2, <2>1 DEF DoneInv
<1>9. ASSUME NEW w \in Worker, NEW q \in Payment, NEW says \in Contents,
             NEW signed \in BOOLEAN, Deliver(w, q, says, signed)
      PROVE  DoneInv'
  <2>. DEFINE e == Ingest(q, says, signed)
  <2>1. e.status = "PROCESSED" => event[q].status = "PROCESSED" /\ e.says = event[q].says
    BY DEF Ingest, NoEvent, Event, TypeInv, TypeOK
  <2>. HIDE DEF e
  <2>2. /\ \A p \in Payment : event'[p] \in {event[p], e}
        /\ \A p \in Payment \ {q} : event'[p] = event[p]
        /\ \A v \in Worker \ {w} : pc'[v] = pc[v] /\ copy'[v] = copy[v]
    BY <1>9 DEF Deliver, Start, Goto, TypeInv, TypeOK, e
  <2>3. pc'[w] = "idle" \/ copy'[w] = e
    BY <1>9 DEF Deliver, TypeInv, TypeOK, e
  <2>. QED
    BY <1>1, <1>2, <2>1, <2>2, <2>3 DEF DoneInv
<1>13. ASSUME NEW w \in Worker, NEW q \in Payment, Webhook(w, q)
       PROVE  DoneInv'
  BY <1>9, <1>13, WebhookTyped
<1>10. CASE UNCHANGED vars
  BY <1>3, <1>10 DEF vars
<1>11. ASSUME NEW w \in Worker,
              \/ ProviderOpens(w) \/ ProviderRefuses(w) \/ SavePending(w)
              \/ SaveAttempt(w) \/ AskProvider(w) \/ SettleVerified(w)
              \/ EmitSuccess(w) \/ SaveFailed(w) \/ EmitFailed(w)
              \/ AlreadyProcessed(w) \/ Crash(w)
              \/ \E q \in Payment : Initialize(w, q) \/ StartVerify(w, q)
       PROVE  DoneInv'
  BY <1>4, <1>11
  DEF ProviderOpens, ProviderRefuses, SavePending, SaveAttempt, AskProvider,
      SettleVerified, EmitSuccess, SaveFailed, EmitFailed, AlreadyProcessed, Crash,
      Initialize, StartVerify, Start, Finish, Goto, TypeInv, TypeOK
<1>12. CASE \/ \E q \in Payment : CustomerPays(q)
            \/ \E p \in Routed \cap Offered : CloseTarget(p)
  BY <1>3, <1>12 DEF CustomerPays, CloseTarget
<1>. QED
  BY <1>5, <1>6, <1>7, <1>8, <1>10, <1>11, <1>12, <1>13 DEF Next
-----------------------------------------------------------------------------
(***************************************************************************)
(* The theorems.                                                           *)
(***************************************************************************)
Inv == TypeInv /\ AloneInv /\ ChargeInv /\ GroundInv /\ MoneyInv /\ DoneInv

\* The inductive invariant (apps/payments/services.py).
THEOREM Invariant == Spec => []Inv
<1>1. Init => Inv
  <2>. SUFFICES ASSUME Init
                PROVE  Inv
    OBVIOUS
  <2>1. TypeInv
    BY TypesInitially
  <2>2. AloneInv /\ ChargeInv
    BY PaymentAssumption DEF Init, AloneInv, ChargeInv, NoEvent
  <2>3. GroundInv /\ MoneyInv /\ DoneInv
    BY DEF Init, GroundInv, MoneyInv, DoneInv, Sound, NoEvent
  <2>. QED
    BY <2>1, <2>2, <2>3 DEF Inv
<1>2. Inv /\ [Next]_vars => Inv'
  BY TypesInductive, AloneInductive, ChargeInductive, GroundInductive, MoneyInductive,
     DoneInductive DEF Inv
<1>. QED
  BY <1>1, <1>2, PTL DEF Spec

\* Every column keeps its type, however often events are delivered and tried.
THEOREM TypeCorrect == Spec => []TypeOK
<1>1. Inv => TypeOK
  BY DEF Inv, TypeInv
<1>. QED
  BY <1>1, Invariant, PTL

\* Money is posted and credited only for what was charged in full, or for what a
\* stored event says that a signature vouched for (settle_payment,
\* process_webhook_event).
THEOREM MoneyPaidFor == Spec => []PaidFor
<1>1. Inv => PaidFor
  <2>. SUFFICES ASSUME Inv, NEW q \in Payment, posted[q] + credit[q] > 0
                PROVE  Grounded(q)
    BY DEF PaidFor, Grounded
  <2>1. posted[q] \in Nat /\ credit[q] \in Nat /\ Sound(q)
    BY DEF Inv, TypeInv, TypeOK, MoneyInv
  <2>. QED
    BY <2>1 DEF Inv, GroundInv, Sound
<1>. QED
  BY <1>1, Invariant, PTL

\* A payment that reads SUCCESS, the notice of one, a posting and a credit come with
\* one posting whose target was credited, a plan or a loan once (settle_payment,
\* apply_contribution_to_plan, apply_repayment_to_loan).
THEOREM MoneySettledOnce == Spec => []SettledOnce
<1>1. Inv => SettledOnce
  <2>. SUFFICES ASSUME Inv, NEW q \in Payment,
                       \/ status[q] = "SUCCESS"
                       \/ <<"PAYMENT_SUCCESS", q>> \in outbox
                       \/ posted[q] + credit[q] > 0
                PROVE  /\ posted[q] = 1
                       /\ purpose[q] \in Routed => credit[q] > 0
                       /\ purpose[q] \in Guarded => credit[q] = 1
    BY DEF SettledOnce
  <2>1. posted[q] \in Nat /\ credit[q] \in Nat /\ Sound(q)
    BY DEF Inv, TypeInv, TypeOK, MoneyInv
  <2>2. posted[q] # 0
    BY <2>1 DEF Inv, MoneyInv, Sound
  <2>. QED
    BY <2>1, <2>2 DEF Sound, Backed, Routed
<1>. QED
  BY <1>1, Invariant, PTL

\* A PROCESSED event was signed for, and left the payment it names settled and
\* mirrored (process_webhook_event).
THEOREM ProcessedSettled == Spec => []ProcessedIsSettled
<1>1. Inv => ProcessedIsSettled
  BY DEF Inv, ChargeInv, DoneInv, Done, MoneyInv, Sound, Backed, ProcessedIsSettled
<1>. QED
  BY <1>1, Invariant, PTL
=============================================================================
