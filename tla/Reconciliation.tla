--------------------------- MODULE Reconciliation ---------------------------
(***************************************************************************)
(* Reconciliation of payments with the provider's transactions              *)
(* (apps/settlements/services.py), while payments are made and settled.     *)
(* A run is one transaction under READ COMMITTED: it reads payments, then    *)
(* the mirror of the provider's transactions, and others commit in between. *)
(* The clock counts periods of arbitrary length, and Window is a number of  *)
(* them.                                                                   *)
(***************************************************************************)
EXTENDS Integers, Sequences, FiniteSets

CONSTANTS
  Ref,      \* provider references, each of one payment
  Reader,   \* beat task and officers
  Window,   \* length of the period a run looks at
  MaxTime,  \* bound on the clock
  MaxRuns   \* bound on the runs, those under way included

ASSUME ReconciliationAssumption ==
  /\ {Window, MaxTime, MaxRuns} \subseteq Nat
  /\ IsFiniteSet(Ref)

VARIABLES
  paid,     \* Payment rows: status and when they were created
  mirror,   \* PaymentProviderEvent rows: is the amount the payment's, and when
  now,      \* the clock
  runs,     \* committed ReconciliationRuns with their items
  job       \* what each reader is doing

books == <<paid, mirror, now, runs, job>>

Absent == [status |-> "absent"]
Unmirrored == [amount |-> "none"]
Unoccupied == [does |-> "nothing"]

PaymentRow == [status : {"UNSETTLED", "SUCCESS"}, created : 0..MaxTime]
MirrorRow == [amount : {"due", "other"}, occurred : 0..MaxTime]
Exceptions == {"MISSING_INTERNAL", "MISSING_PROVIDER", "AMOUNT_MISMATCH"}
Item == [status : {"MATCHED", "MANUAL_REVIEW"} \cup Exceptions,
         exception : {"none", "open", "resolved"}]

ReconciliationInit ==
  /\ paid = [r \in Ref |-> Absent]
  /\ mirror = [r \in Ref |-> Unmirrored]
  /\ now = 0
  /\ runs = <<>>
  /\ job = [w \in Reader |-> Unoccupied]

Turns(w, j) == job' = [job EXCEPT ![w] = j]
-----------------------------------------------------------------------------
(***************************************************************************)
(* Payments, as module Payments has them in detail.                        *)
(***************************************************************************)
\* History: a run between its two reads no longer finds r as it stood.
Disturbs(r) ==
  job' = [w \in Reader |-> IF job[w].does = "read_mirror"
                           THEN [job[w] EXCEPT !.steady = @ \ {r}] ELSE job[w]]

OpenPayment(r) ==
  /\ paid[r] = Absent
  /\ paid' = [paid EXCEPT ![r] = [status |-> "UNSETTLED", created |-> now]]
  /\ Disturbs(r)
  /\ UNCHANGED <<mirror, now, runs>>

\* verify_and_settle writes no mirror; FAILED from a stale copy can follow it.
Verify(r) ==
  /\ paid[r] # Absent
  /\ \E status \in {"UNSETTLED", "SUCCESS"} \ {paid[r].status} :
       paid' = [paid EXCEPT ![r].status = status]
  /\ Disturbs(r)
  /\ UNCHANGED <<mirror, now, runs>>

\* charge.success: a payment that is settled already is not compared with the
\* amount of the event, and the mirror takes it as it is, reconciled.
Webhook(r) ==
  /\ paid[r] # Absent
  /\ paid' = [paid EXCEPT ![r].status = "SUCCESS"]
  /\ \E amount \in {"due", "other"} :
       /\ paid[r].status # "SUCCESS" => amount = "due"
       /\ mirror' = [mirror EXCEPT ![r] = [amount |-> amount, occurred |-> now]]
  /\ Disturbs(r)
  /\ UNCHANGED <<now, runs>>

TimePasses ==
  /\ now < MaxTime
  /\ now' = now + 1
  /\ UNCHANGED <<paid, mirror, runs, job>>
-----------------------------------------------------------------------------
(***************************************************************************)
(* Runs.                                                                   *)
(***************************************************************************)
Within(time, end) == time \in (end - Window)..end

\* internal_by_ref
Internal(end) ==
  {r \in Ref : paid[r].status = "SUCCESS" /\ Within(paid[r].created, end)}

\* provider_by_ref
External(end) ==
  {r \in Ref : mirror[r] # Unmirrored /\ Within(mirror[r].occurred, end)}

ReadPayments(w) ==
  /\ job[w] = Unoccupied
  /\ Len(runs) + Cardinality({v \in Reader : job[v].does \in {"read_mirror", "write"}})
       < MaxRuns
  /\ Turns(w, [does |-> "read_mirror", end |-> now,
               internal |-> Internal(now), steady |-> Ref])
  /\ UNCHANGED <<paid, mirror, now, runs>>

\* saw is history too: what was so of each payment that stood still, in both
\* tables at once.
ReadMirror(w) ==
  /\ job[w].does = "read_mirror"
  /\ LET end == job[w].end
     IN Turns(w, [does |-> "write", internal |-> job[w].internal,
                  events |-> [r \in External(end) |-> mirror[r].amount],
                  saw |-> [r \in job[w].steady |->
                             [settled |-> r \in Internal(end),
                              seen |-> r \in External(end),
                              agree |-> mirror[r].amount = "due"]]])
  /\ UNCHANGED <<paid, mirror, now, runs>>

\* Mutant: the second loop is not there, only the provider's side is compared.
CompareMirrorOnly(r, internal, events) ==
  IF r \notin internal THEN "MISSING_INTERNAL"
  ELSE IF r \notin DOMAIN events THEN "MATCHED"
  ELSE IF events[r] = "due" THEN "MATCHED" ELSE "AMOUNT_MISMATCH"

Compare(r, internal, events) ==
  IF r \notin internal THEN "MISSING_INTERNAL"
  ELSE IF r \notin DOMAIN events THEN "MISSING_PROVIDER"
  ELSE IF events[r] = "due" THEN "MATCHED" ELSE "AMOUNT_MISMATCH"

\* The items with their exceptions, the counters, and the commit; that a mirror is
\* reconciled it said before.
WriteRun(w) ==
  /\ job[w].does = "write"
  /\ LET internal == job[w].internal
         events == job[w].events
         Status(r) == Compare(r, internal, events)
         matched == {r \in internal \cup DOMAIN events : Status(r) = "MATCHED"}
     IN runs' = Append(runs,
             [items |-> [r \in internal \cup DOMAIN events |->
                           [status |-> Status(r),
                            exception |-> IF r \in matched THEN "none" ELSE "open"]],
              matched_count |-> Cardinality(matched),
              exception_count |-> Cardinality((internal \cup DOMAIN events) \ matched),
              saw |-> job[w].saw])
  /\ Turns(w, Unoccupied)
  /\ UNCHANGED <<paid, mirror, now>>

\* resolve_exception reads the exception with its item ...
ReadException(w) ==
  /\ job[w] = Unoccupied
  /\ \E n \in DOMAIN runs : \E r \in DOMAIN runs[n].items :
       /\ runs[n].items[r].exception = "open"
       /\ Turns(w, [does |-> "resolve", run |-> n, ref |-> r])
  /\ UNCHANGED <<paid, mirror, now, runs>>

\* ... and saves both.
ResolveException(w) ==
  /\ job[w].does = "resolve"
  /\ runs' = [runs EXCEPT ![job[w].run].items[job[w].ref] =
       [status |-> "MANUAL_REVIEW", exception |-> "resolved"]]
  /\ Turns(w, Unoccupied)
  /\ UNCHANGED <<paid, mirror, now>>

\* An exception, or the worker dies: nothing of the run stays.
RunFails(w) ==
  /\ job[w] # Unoccupied
  /\ Turns(w, Unoccupied)
  /\ UNCHANGED <<paid, mirror, now, runs>>

ReconciliationNext ==
  \/ TimePasses
  \/ \E r \in Ref : OpenPayment(r) \/ Verify(r) \/ Webhook(r)
  \/ \E w \in Reader :
       \/ ReadPayments(w) \/ ReadMirror(w) \/ WriteRun(w)
       \/ ReadException(w) \/ ResolveException(w) \/ RunFails(w)
-----------------------------------------------------------------------------
ReconciliationTypeOK ==
  /\ paid \in [Ref -> PaymentRow \cup {Absent}]
  /\ mirror \in [Ref -> MirrorRow \cup {Unmirrored}]
  /\ now \in 0..MaxTime
  /\ \A n \in DOMAIN runs : \A r \in DOMAIN runs[n].items : runs[n].items[r] \in Item

\* "Fall back to created_at so nothing silently escapes reconciliation"
\* (run_reconciliation): of what stood still while a run read it, whatever others
\* committed around it, the run has an item exactly when the payment was settled
\* or the provider's transaction seen in the run's period, and counts it matched
\* exactly when both were, of the same amount; every item is counted once, and is
\* under manual review exactly when somebody resolved its exception.
RunAccountsForAll ==
  \A n \in DOMAIN runs :
    LET run == runs[n]
        unmatched == {r \in DOMAIN run.items : run.items[r].exception # "none"}
    IN /\ \A r \in DOMAIN run.saw :
            /\ r \in DOMAIN run.items <=> run.saw[r].settled \/ run.saw[r].seen
            /\ r \in DOMAIN run.items \ unmatched
                 <=> run.saw[r].settled /\ run.saw[r].seen /\ run.saw[r].agree
       /\ run.exception_count = Cardinality(unmatched)
       /\ run.matched_count + run.exception_count = Cardinality(DOMAIN run.items)
       /\ \A r \in DOMAIN run.items :
            run.items[r].status = "MANUAL_REVIEW" <=> run.items[r].exception = "resolved"
=============================================================================
