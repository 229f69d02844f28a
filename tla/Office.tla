------------------------------- MODULE Office -------------------------------
(***************************************************************************)
(* The services around the money, each at a desk of its own.  They share   *)
(* no row but the outbox, into which all of them write and from which one   *)
(* job reads; so a behaviour keeps to one desk, and the others stand still. *)
(* At "dispatch" any service may add an event at any time, which covers     *)
(* what is added at "files" (but for KYC_VERIFIED, that only a review adds,  *)
(* and which goes over the same channels as PAYMENT_SUCCESS).              *)
(***************************************************************************)
EXTENDS BackOffice, Sessions, Reconciliation, Calendar, Lists, Risk, Limiter,
  Verification

CONSTANT MaxEmitted   \* bound on the outbox at "dispatch"

VARIABLE desk   \* where this behaviour takes place

Desk == {"dispatch", "files", "sessions", "reconciliation", "calendar", "lists",
         "risk", "limiter", "verification"}

schedule == <<frequency, dates>>
queries == <<schedule, lists, risk, limiter, ledger>>
vars == <<outboxVars, files, sessions, books, queries, desk>>

Init ==
  /\ desk \in Desk
  /\ OutboxInit
  /\ FilesInit
  /\ SessionsInit
  /\ ReconciliationInit
  /\ LimiterInit
  /\ VerificationInit
  /\ \/ desk = "calendar" /\ CalendarInit
     \/ desk # "calendar" /\ frequency = "DAILY" /\ dates = <<>>
  /\ ListsInit
  /\ desk # "lists" => list = OwnLoans /\ listed = {}
  /\ RiskInit
  /\ desk # "risk" => history = CHOOSE h \in FirstHistories : TRUE

\* A service emits an event, in the transaction of its caller.
AnyEvent ==
  /\ Len(outbox) < MaxEmitted
  /\ \E code \in DOMAIN Addressee \ {"KYC_VERIFIED"} : Emit(code)

AtDispatch ==
  /\ desk = "dispatch"
  /\ AnyEvent \/ Dispatch
  /\ UNCHANGED <<files, sessions, books, queries, desk>>

AtFiles ==
  /\ desk = "files"
  /\ FilesNext
  /\ UNCHANGED <<sessions, books, queries, desk>>

AtSessions ==
  /\ desk = "sessions"
  /\ SessionsNext
  /\ UNCHANGED <<outboxVars, files, books, queries, desk>>

AtReconciliation ==
  /\ desk = "reconciliation"
  /\ ReconciliationNext
  /\ UNCHANGED <<outboxVars, files, sessions, queries, desk>>

AtCalendar ==
  /\ desk = "calendar"
  /\ CalendarNext
  /\ UNCHANGED <<outboxVars, files, sessions, books, lists, risk, limiter, ledger, desk>>

AtLists ==
  /\ desk = "lists"
  /\ ListsNext
  /\ UNCHANGED <<outboxVars, files, sessions, books, schedule, risk, limiter, ledger, desk>>

AtRisk ==
  /\ desk = "risk"
  /\ RiskNext
  /\ UNCHANGED <<outboxVars, files, sessions, books, schedule, lists, limiter, ledger, desk>>

AtLimiter ==
  /\ desk = "limiter"
  /\ LimiterNext
  /\ UNCHANGED <<outboxVars, files, sessions, books, schedule, lists, risk, ledger, desk>>

AtVerification ==
  /\ desk = "verification"
  /\ VerificationNext
  /\ UNCHANGED <<outboxVars, files, sessions, books, schedule, lists, risk, limiter,
                 desk>>

Next ==
  \/ AtDispatch \/ AtFiles \/ AtSessions \/ AtReconciliation
  \/ AtCalendar \/ AtLists \/ AtRisk \/ AtLimiter
  \/ AtVerification

\* Celery beat starts a run of the dispatcher every thirty seconds, and a run that
\* lives works through its list.
Fairness ==
  \A d \in Dispatcher : WF_outboxVars(desk = "dispatch" /\ Run(d))

Spec == Init /\ [][Next]_vars /\ Fairness
-----------------------------------------------------------------------------
TypeOK ==
  /\ desk \in Desk
  /\ OutboxTypeOK
  /\ FilesTypeOK
  /\ SessionsTypeOK
  /\ ReconciliationTypeOK
  /\ CalendarTypeOK
  /\ ListsTypeOK
  /\ RiskTypeOK
  /\ LimiterTypeOK
  /\ VerificationTypeOK

\* Whichever runs die, and however many work on the same events, the outbox is
\* drained again and again, so every event is dispatched in the end: none is
\* overtaken for ever by younger ones (dispatch_outbox takes the oldest first, and
\* a dead run's event again).
EveryEventDispatched ==
  []<>(desk = "dispatch" => \A n \in DOMAIN outbox : outbox[n].dispatched)
=============================================================================
