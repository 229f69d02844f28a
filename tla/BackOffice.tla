----------------------------- MODULE BackOffice -----------------------------
(***************************************************************************)
(* People's files and what officers decide about them: registration        *)
(* (apps/accounts), profiles (apps/customers), verification of identities  *)
(* (apps/identity) and fraud alerts (apps/fraud).                          *)
(*                                                                         *)
(* A resolver reads the row it is about, the service judges that copy, and *)
(* its transaction writes the row first, which locks it, and then the      *)
(* record of the decision and the event.  Only the commit shows any of it. *)
(* Documents, names, addresses and dates are left out.  INFO_REQUESTED is   *)
(* no decision of this model: the column of KYCReview takes ten characters, *)
(* and PostgreSQL refuses the row.                                         *)
(***************************************************************************)
EXTENDS Outbox

CONSTANTS
  Officer,      \* workers serving requests
  Granted,      \* the levels above BASIC that an officer may grant
  MaxEvents,    \* bound on the outbox
  MaxDecisions  \* bound on the trail

ASSUME BackOfficeAssumption ==
  /\ {"ACCOUNT_CREATED", "KYC_SUBMITTED", "KYC_VERIFIED", "SECURITY_ALERT"}
       \subseteq DOMAIN Addressee
  /\ {MaxEvents, MaxDecisions} \subseteq Nat

VARIABLES
  registered, \* the phone number has a User
  profile,    \* its Customer row
  kyc,        \* its KYCProfile row
  trail,      \* submissions and KYCReview rows, in the order of commit
  alert,      \* status of a FraudAlert
  outcome,    \* outcome of its FraudCase
  work        \* what each worker is doing

files == <<registered, profile, kyc, trail, alert, outcome, work>>

None == "none"
Status == {"ACTIVE", "SUSPENDED", "DEACTIVATED"}
Level == Granted \cup {"BASIC"}
KycStatus == {"NOT_STARTED", "PENDING", "VERIFIED", "REJECTED"}
AlertStatus == {"FLAGGED", "UNDER_REVIEW", "CLEARED", "CONFIRMED"}
Closed == {"CLEARED", "CONFIRMED"}

Customer == [status : Status, tier : Level]
KYCProfile == [status : KycStatus, level : Level]
Entry == [what : {"submitted", "APPROVED", "REJECTED"}, level : Level]
NoProfile == [status |-> None]

Free == [does |-> "nothing"]

FilesInit ==
  /\ registered = FALSE
  /\ profile = NoProfile
  /\ kyc = [status |-> "NOT_STARTED", level |-> "BASIC"]
  /\ trail = <<>>
  /\ alert = None
  /\ outcome = None
  /\ work = [o \in Officer |-> Free]

Does(o, c) == work' = [work EXCEPT ![o] = c]
MayEmit == Len(outbox) < MaxEvents
NoEvent == UNCHANGED outboxVars
Holds(o, what) == work[o].does = what

\* A row that a transaction has written is locked until it ends.
KycIsFree == \A o \in Officer : ~Holds(o, "reviewed")
AlertIsFree == \A o \in Officer : ~Holds(o, "judged")
ProfileIsFree == \A o \in Officer : Holds(o, "reviewed") => work[o].grants = None
-----------------------------------------------------------------------------
(***************************************************************************)
(* Customers.                                                              *)
(***************************************************************************)
\* register_customer; the phone number is unique.
RegisterCustomer ==
  /\ ~registered
  /\ MayEmit
  /\ registered' = TRUE
  /\ Emit("ACCOUNT_CREATED")
  /\ UNCHANGED <<profile, kyc, trail, alert, outcome, work>>

\* ensure_customer_profile, by the first resolver that needs one: of two at
\* once, one fails on the unique user.
CreateProfile ==
  /\ registered
  /\ profile = NoProfile
  /\ profile' = [status |-> "ACTIVE", tier |-> "BASIC"]
  /\ NoEvent
  /\ UNCHANGED <<registered, kyc, trail, alert, outcome, work>>

\* A resolver reads the customer ...
ReadProfile(o, does) ==
  /\ work[o] = Free
  /\ profile # NoProfile
  /\ Does(o, [does |-> does, copy |-> profile])
  /\ NoEvent
  /\ UNCHANGED <<registered, profile, kyc, trail, alert, outcome>>

\* ... with their own changes to it, or an officer's to its status.
ReadToUpdate(o) == ReadProfile(o, "update")
ReadToSetStatus(o) == ReadProfile(o, "set_status")

\* update_customer_profile: full_clean, and every column of the copy.
UpdateProfile(o) ==
  /\ Holds(o, "update")
  /\ ProfileIsFree
  /\ profile' = work[o].copy
  /\ Does(o, Free)
  /\ NoEvent
  /\ UNCHANGED <<registered, kyc, trail, alert, outcome>>

\* set_customer_status: the status alone.
SetCustomerStatus(o) ==
  /\ Holds(o, "set_status")
  /\ ProfileIsFree
  /\ \E status \in Status \ {work[o].copy.status} :
       profile' = [profile EXCEPT !.status = status]
  /\ Does(o, Free)
  /\ NoEvent
  /\ UNCHANGED <<registered, kyc, trail, alert, outcome>>
-----------------------------------------------------------------------------
(***************************************************************************)
(* Identity.                                                               *)
(***************************************************************************)
\* submit_kyc reads the profile and judges it ...
ReadForSubmission(o) ==
  /\ work[o] = Free
  /\ profile # NoProfile
  /\ kyc.status # "VERIFIED"
  /\ Does(o, [does |-> "submit"])
  /\ NoEvent
  /\ UNCHANGED <<registered, profile, kyc, trail, alert, outcome>>

\* ... and sets its status, whatever it is by then.
SubmitKyc(o) ==
  /\ Holds(o, "submit")
  /\ KycIsFree
  /\ MayEmit
  /\ Len(trail) < MaxDecisions
  /\ kyc' = [kyc EXCEPT !.status = "PENDING"]
  /\ trail' = Append(trail, [what |-> "submitted", level |-> kyc.level])
  /\ Emit("KYC_SUBMITTED")
  /\ Does(o, Free)
  /\ UNCHANGED <<registered, profile, alert, outcome>>

\* The resolver of an officer reads the profile for a review.
ReadKyc(o) ==
  /\ work[o] = Free
  /\ kyc.status = "PENDING"
  /\ Does(o, [does |-> "review", copy |-> kyc])
  /\ NoEvent
  /\ UNCHANGED <<registered, profile, kyc, trail, alert, outcome>>

\* Mutant: without @transaction.atomic a write shows at once.
ShowsBeforeCommit(row, written) == written

\* What others see of a row a transaction has written and not committed.
Shows(row, written) == row

\* review_kyc: every column of the copy, and the level on the customer; the
\* level of the copy stays when the officer names none.
ReviewKyc(o) ==
  /\ Holds(o, "review")
  /\ KycIsFree
  /\ \E decision \in {"APPROVED", "REJECTED"}, grants \in Level \cup {None} :
       /\ decision = "REJECTED" => grants = None
       /\ grants # None => ProfileIsFree
       /\ LET written == [status |-> IF decision = "APPROVED" THEN "VERIFIED"
                                     ELSE "REJECTED",
                          level |-> IF grants = None THEN work[o].copy.level
                                    ELSE grants]
          IN /\ Does(o, [does |-> "reviewed", decision |-> decision,
                         grants |-> grants, row |-> written])
             /\ kyc' = Shows(kyc, written)
  /\ NoEvent
  /\ UNCHANGED <<registered, profile, trail, alert, outcome>>

\* The KYCReview row, the event of an approval, and the commit.
RecordReview(o) ==
  /\ Holds(o, "reviewed")
  /\ Len(trail) < MaxDecisions
  /\ kyc' = work[o].row
  /\ profile' = IF work[o].grants = None THEN profile
                ELSE [profile EXCEPT !.tier = work[o].grants]
  /\ trail' = Append(trail, [what |-> work[o].decision, level |-> work[o].row.level])
  /\ \/ work[o].decision = "APPROVED" /\ MayEmit /\ Emit("KYC_VERIFIED")
     \/ work[o].decision = "REJECTED" /\ NoEvent
  /\ Does(o, Free)
  /\ UNCHANGED <<registered, alert, outcome>>
-----------------------------------------------------------------------------
(***************************************************************************)
(* Fraud alerts.                                                           *)
(***************************************************************************)
\* raise_alert
RaiseAlert == alert' = "FLAGGED" /\ Emit("SECURITY_ALERT")

\* check_payment_patterns counts the customer's payments under three rules, each
\* of which may ask for an alert; the first of them is the one that is followed.
CheckPaymentPatterns ==
  /\ alert = None
  /\ MayEmit
  /\ RaiseAlert

\* make_payment, whose patterns are checked in a transaction that follows the
\* payment's (module Payments has the payment).
MakePayment ==
  /\ profile # NoProfile
  /\ CheckPaymentPatterns
  /\ UNCHANGED <<registered, profile, kyc, trail, outcome, work>>

\* The resolver of an officer reads the alert; review_alert judges the copy.
ReadAlert(o) ==
  /\ work[o] = Free
  /\ alert \in {"FLAGGED", "UNDER_REVIEW"}
  /\ Does(o, [does |-> "judge"])
  /\ NoEvent
  /\ UNCHANGED <<registered, profile, kyc, trail, alert, outcome>>

JudgeAlert(o) ==
  /\ Holds(o, "judge")
  /\ AlertIsFree
  /\ \E decision \in {"UNDER_REVIEW"} \cup Closed :
       /\ Does(o, [does |-> "judged", decision |-> decision])
       /\ alert' = Shows(alert, decision)
  /\ NoEvent
  /\ UNCHANGED <<registered, profile, kyc, trail, outcome>>

\* update_or_create of the case.
CaseAfter(decision) == decision

RecordOutcome(o) ==
  /\ Holds(o, "judged")
  /\ alert' = work[o].decision
  /\ outcome' = IF work[o].decision \in Closed THEN CaseAfter(work[o].decision)
                ELSE outcome
  /\ Does(o, Free)
  /\ NoEvent
  /\ UNCHANGED <<registered, profile, kyc, trail>>

\* An exception, or the worker dies: the transaction is rolled back.
Abandon(o) ==
  /\ work[o] # Free
  /\ Does(o, Free)
  /\ NoEvent
  /\ UNCHANGED <<registered, profile, kyc, trail, alert, outcome>>

FilesNext ==
  \/ RegisterCustomer \/ CreateProfile \/ MakePayment
  \/ \E o \in Officer :
       \/ ReadToUpdate(o) \/ UpdateProfile(o)
       \/ ReadToSetStatus(o) \/ SetCustomerStatus(o)
       \/ ReadForSubmission(o) \/ SubmitKyc(o)
       \/ ReadKyc(o) \/ ReviewKyc(o) \/ RecordReview(o)
       \/ ReadAlert(o) \/ JudgeAlert(o) \/ RecordOutcome(o)
       \/ Abandon(o)
-----------------------------------------------------------------------------
FilesTypeOK ==
  /\ registered \in BOOLEAN
  /\ profile \in Customer \cup {NoProfile}
  /\ kyc \in KYCProfile
  /\ trail \in Seq(Entry)
  /\ alert \in AlertStatus \cup {None}
  /\ outcome \in Closed \cup {None}

\* Decisions taken from copies, over one another and in workers that die, never
\* part from their records: a verified identity rests on an approval that is
\* the last entry of its trail and at that approval's level, every approval is
\* announced once, a customer's tier is one an approval granted, and the case of
\* a closed alert has the alert's outcome.
DecisionsRecorded ==
  LET approvals == {n \in DOMAIN trail : trail[n].what = "APPROVED"}
  IN /\ kyc.status = "VERIFIED" =>
          /\ trail # <<>>
          /\ trail[Len(trail)] = [what |-> "APPROVED", level |-> kyc.level]
     /\ Cardinality({n \in DOMAIN outbox : outbox[n].code = "KYC_VERIFIED"})
          = Cardinality(approvals)
     /\ profile # NoProfile /\ profile.tier # "BASIC" =>
          \E n \in approvals : trail[n].level = profile.tier
     /\ alert \in Closed => outcome = alert
=============================================================================
