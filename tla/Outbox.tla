------------------------------- MODULE Outbox -------------------------------
(***************************************************************************)
(* The transactional outbox of apps/notifications/services.py.  Services    *)
(* add events inside their own transactions (emit_event); runs of          *)
(* dispatch_outbox, every thirty seconds and possibly several at once,     *)
(* send them.  Each event is sent inside a transaction that locks its row, *)
(* so a run that dies before it commits has sent what nothing remembers.   *)
(***************************************************************************)
EXTENDS Integers, Sequences, FiniteSets, FiniteSetsExt

CONSTANTS
  Dispatcher,   \* runs of the dispatch task
  Batch,        \* events one run takes at most (100 in the code)
  Addressee,    \* whom each kind of event names: customer, user or nobody
  WithEmail,    \* whether the customer has an e-mail address
  MaxDeaths     \* bound on the runs that die before their list is done

ASSUME OutboxAssumption ==
  /\ Batch \in Nat \ {0}
  /\ MaxDeaths \in Nat
  /\ \A code \in DOMAIN Addressee : Addressee[code] \in {"customer", "user", "nobody"}
  /\ WithEmail \in BOOLEAN

VARIABLES
  outbox,     \* OutboxEvent rows in the order of creation
  deliveries, \* committed NotificationDelivery rows: event, channel, outcome
  pending,    \* the events each run found undispatched and has still to do, of
              \* which the oldest is the next
  sending,    \* the event whose row each run holds and the channels left
  messages,   \* history: messages that left the house, by event and channel
  deaths      \* runs that died, by the event they held or 0

outboxVars == <<outbox, deliveries, pending, sending, messages, deaths>>
dispatch == <<deliveries, pending, sending, messages, deaths>>

Nothing == [event |-> 0]
Event == [code : DOMAIN Addressee, dispatched : BOOLEAN]
Outcome == {"SENT", "PENDING"}

\* _resolve_recipients: the channels of an event.  A user without a profile is
\* sent an SMS.
Recipients(code) ==
  CASE Addressee[code] = "nobody" -> <<>>
    [] Addressee[code] = "customer" /\ WithEmail -> <<"SMS", "EMAIL">>
    [] OTHER -> <<"SMS">>

OutboxInit ==
  /\ outbox = <<>>
  /\ deliveries = <<>>
  /\ pending = [d \in Dispatcher |-> {}]
  /\ sending = [d \in Dispatcher |-> Nothing]
  /\ messages = <<>>
  /\ deaths = <<>>

\* emit_event, a part of the caller's step.
Emit(code) ==
  /\ outbox' = Append(outbox, [code |-> code, dispatched |-> FALSE])
  /\ UNCHANGED dispatch

Count(seq, x) == Cardinality({n \in DOMAIN seq : seq[n] = x})

\* Mutant: events that reach nobody are not listed.
UndispatchedAddressed ==
  {n \in DOMAIN outbox : ~outbox[n].dispatched /\ Recipients(outbox[n].code) # <<>>}

Undispatched == {n \in DOMAIN outbox : ~outbox[n].dispatched}

\* The list of a run, the oldest first, read without locks.
StartRun(d) ==
  /\ pending[d] = {}
  /\ Undispatched # {}
  /\ pending' = [pending EXCEPT ![d] =
       {n \in Undispatched : Cardinality({m \in Undispatched : m < n}) < Batch}]
  /\ UNCHANGED <<outbox, deliveries, sending, messages, deaths>>

RowIsFree(n) == \A d \in Dispatcher : sending[d].event # n

\* Mutant: what the list said of the event is believed.
StillUndispatchedAssumed(n) == TRUE

\* locked.dispatched, read again under the lock.
StillUndispatched(n) == ~outbox[n].dispatched

\* select_for_update of the next event ...
Lock(d) ==
  /\ pending[d] # {}
  /\ sending[d] = Nothing
  /\ LET n == Min(pending[d])
     IN /\ RowIsFree(n)
        /\ StillUndispatched(n)
        /\ sending' = [sending EXCEPT ![d] =
             [event |-> n, left |-> Recipients(outbox[n].code), done |-> <<>>]]
  /\ UNCHANGED <<outbox, deliveries, pending, messages, deaths>>

\* ... or, when another run was faster, on to the one after it.
Skip(d) ==
  /\ pending[d] # {}
  /\ sending[d] = Nothing
  /\ LET n == Min(pending[d])
     IN /\ RowIsFree(n)
        /\ ~StillUndispatched(n)
        /\ pending' = [pending EXCEPT ![d] = @ \ {n}]
  /\ UNCHANGED <<outbox, deliveries, sending, messages, deaths>>

\* _render_and_deliver to one recipient: the provider takes the message, or an
\* error, which may hide that it took it, is noted on the delivery; nothing tries
\* such a delivery again.
Send(d) ==
  /\ sending[d] # Nothing
  /\ sending[d].left # <<>>
  /\ LET n == sending[d].event
         channel == Head(sending[d].left)
     IN \E outcome \in Outcome :
          /\ sending' = [sending EXCEPT ![d].left = Tail(@),
                                        ![d].done = Append(@, <<n, channel, outcome>>)]
          /\ \/ messages' = Append(messages, <<n, channel>>)
             \/ outcome = "PENDING" /\ UNCHANGED messages
  /\ UNCHANGED <<outbox, deliveries, pending, deaths>>

Done(row) == row.left = <<>>

\* dispatched, and the transaction commits with the deliveries.
Commit(d) ==
  /\ sending[d] # Nothing
  /\ Done(sending[d])
  /\ outbox' = [outbox EXCEPT ![sending[d].event].dispatched = TRUE]
  /\ deliveries' = deliveries \o sending[d].done
  /\ pending' = [pending EXCEPT ![d] = @ \ {sending[d].event}]
  /\ sending' = [sending EXCEPT ![d] = Nothing]
  /\ UNCHANGED <<messages, deaths>>

\* The worker dies, or an exception ends the run: what it sent is sent, its
\* delivery rows are gone, and the rest of its list is left to the next run.
Die(d) ==
  /\ pending[d] # {}
  /\ Len(deaths) < MaxDeaths
  /\ deaths' = Append(deaths, sending[d].event)
  /\ sending' = [sending EXCEPT ![d] = Nothing]
  /\ pending' = [pending EXCEPT ![d] = {}]
  /\ UNCHANGED <<outbox, deliveries, messages>>

Run(d) == StartRun(d) \/ Lock(d) \/ Skip(d) \/ Send(d) \/ Commit(d)

Dispatch == \E d \in Dispatcher : Run(d) \/ Die(d)
-----------------------------------------------------------------------------
OutboxTypeOK ==
  /\ outbox \in Seq(Event)
  /\ deliveries \in Seq(Nat \X {"SMS", "EMAIL"} \X Outcome)
  /\ \A d \in Dispatcher :
       /\ pending[d] \subseteq DOMAIN outbox
       /\ sending[d] # Nothing => sending[d].event \in DOMAIN outbox
  /\ messages \in Seq(Nat \X {"SMS", "EMAIL"})
  /\ deaths \in Seq(Nat)

\* "Lock the row: two workers must not both deliver" (dispatch_outbox): over
\* each channel an event is sent once, and once more only for a run that died
\* with it; and an event that counts as dispatched was tried exactly once, in
\* committed rows, on every channel it has.
DeliveredOnce ==
  \A n \in DOMAIN outbox :
    LET channels == Recipients(outbox[n].code)
        Tried(channel) == Count(deliveries, <<n, channel, "SENT">>)
                            + Count(deliveries, <<n, channel, "PENDING">>)
    IN \A i \in DOMAIN channels :
         /\ Count(messages, <<n, channels[i]>>) <= 1 + Count(deaths, n)
         /\ Tried(channels[i]) = IF outbox[n].dispatched THEN 1 ELSE 0
=============================================================================
