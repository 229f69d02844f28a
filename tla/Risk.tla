-------------------------------- MODULE Risk --------------------------------
(***************************************************************************)
(* The risk engine (apps/risk/services.py).  create_loan_application scores *)
(* the customer by rules, each of which reads rows of other services in a  *)
(* statement of its own, so that the customer's history goes on between    *)
(* two of them.  The weights of ensure_default_rules add up to 100, which  *)
(* makes the score exact to two decimals: it stands here times 100.         *)
(***************************************************************************)
EXTENDS Integers, Sequences, SequencesExt, FiniteSetsExt

CONSTANTS
  RuleOrders,       \* orders in which the RiskRule rows, all active, may be listed
  MinContributions, \* parameters of the rules
  MaxActive,
  MinTransactions,
  FirstHistories,   \* what a customer may bring to an assessment
  MaxHappenings     \* bound on what happens during one

VARIABLES
  history,    \* the rows of other services that the rules read
  assessment, \* run_assessment, and the RiskAssessment it writes
  before,     \* history: the customer's history when it began
  worsened,   \* history: whether something spoke against the customer since
  happenings  \* history: how much happened since

risk == <<history, assessment, before, worsened, happenings>>

\* ensure_default_rules
Weight == [SAVINGS_CONSISTENCY |-> 25, REPAYMENT_HISTORY |-> 25, KYC_LEVEL |-> 15,
           COOPERATIVE_MEMBERSHIP |-> 15, LOAN_HISTORY |-> 10,
           TRANSACTION_ACTIVITY |-> 10]

Signal == DOMAIN Weight

\* From low to high; "NONE": no KYCProfile, or one that is not VERIFIED.
Verified == <<"NONE", "BASIC", "STANDARD", "ENHANCED">>

\* The customer's rows, as far as the rules see them.
History ==
  [contributions : Nat, payments : Nat, level : ToSet(Verified), member : BOOLEAN,
   loans : [ACTIVE : Nat, COMPLETED : Nat, DELINQUENT : Nat, DEFAULTED : Nat]]

ASSUME RiskAssumption ==
  /\ {MinContributions, MaxActive, MinTransactions, MaxHappenings} \subseteq Nat
  /\ FirstHistories \subseteq History
  /\ \A rules \in RuleOrders :
       rules \in Seq(Signal) /\ IsInjective(rules) /\ ToSet(rules) = Signal

RiskInit ==
  /\ history \in FirstHistories
  /\ assessment = [does |-> "nothing"]
  /\ before = history
  /\ worsened = FALSE
  /\ happenings = 0
-----------------------------------------------------------------------------
(***************************************************************************)
(* The rules.  loans counts the customer's loans by status.                *)
(***************************************************************************)
SavingsConsistency(h) ==
  IF h.contributions >= 2 * MinContributions THEN 100
  ELSE IF h.contributions >= MinContributions THEN 60 ELSE 10

RepaymentHistory(h) ==
  IF \A status \in DOMAIN h.loans : h.loans[status] = 0 THEN 40
  ELSE IF h.loans["DELINQUENT"] + h.loans["DEFAULTED"] > 0 THEN 0
  ELSE IF h.loans["COMPLETED"] > 0 THEN 100 ELSE 50

\* Mutant: no score for ENHANCED, so the default of scores.get.
KycLevelUnlisted(h) ==
  CASE h.level = "NONE" -> 0
    [] h.level = "STANDARD" -> 75
    [] OTHER -> 40

KycLevel(h) ==
  CASE h.level = "NONE" -> 0
    [] h.level = "STANDARD" -> 75
    [] h.level = "ENHANCED" -> 100
    [] OTHER -> 40

CooperativeMembership(h) == IF h.member THEN 100 ELSE 20

LoanHistory(h) ==
  LET active == h.loans["ACTIVE"] + h.loans["DELINQUENT"]
  IN IF active > MaxActive THEN 0 ELSE IF active = 1 THEN 50 ELSE 70

TransactionActivity(h) ==
  IF h.payments >= 3 * MinTransactions THEN 100
  ELSE IF h.payments >= MinTransactions THEN 60 ELSE 20

Evaluated(signal, h) ==
  CASE signal = "SAVINGS_CONSISTENCY" -> SavingsConsistency(h)
    [] signal = "REPAYMENT_HISTORY" -> RepaymentHistory(h)
    [] signal = "KYC_LEVEL" -> KycLevel(h)
    [] signal = "COOPERATIVE_MEMBERSHIP" -> CooperativeMembership(h)
    [] signal = "LOAN_HISTORY" -> LoanHistory(h)
    [] signal = "TRANSACTION_ACTIVITY" -> TransactionActivity(h)

Decision(score) ==
  IF score >= 6500 THEN "APPROVE" ELSE IF score >= 4000 THEN "REVIEW" ELSE "REJECT"
-----------------------------------------------------------------------------
(***************************************************************************)
(* What other services commit meanwhile, as far as the rules see it.       *)
(* Nothing makes a loan DELINQUENT: the penalty job only looks at items    *)
(* that are DUE or LATE, and nothing marks them so.                        *)
(***************************************************************************)
Happens(h, worse) ==
  /\ assessment.does = "read"
  /\ happenings < MaxHappenings
  /\ history' = h
  /\ worsened' = (worsened \/ worse)
  /\ happenings' = happenings + 1
  /\ UNCHANGED <<assessment, before>>

\* A payment is settled into a plan, or an agent collects for one.
Contributes ==
  \E paid \in {0, 1} :
    Happens([history EXCEPT !.contributions = @ + 1, !.payments = @ + paid], FALSE)

\* A payment is settled into a goal or a loan, whose last one it may be, or is
\* settled again.
Pays ==
  \/ Happens([history EXCEPT !.payments = @ + 1], FALSE)
  \/ /\ history.loans["ACTIVE"] > 0
     /\ Happens([history EXCEPT !.payments = @ + 1,
                                !.loans["ACTIVE"] = @ - 1,
                                !.loans["COMPLETED"] = @ + 1], FALSE)

\* A verification that asked the provider early writes FAILED over the SUCCESS of
\* a payment (see Payments): what it brought stays, but it is not counted any more.
PaymentFails ==
  /\ history.payments > 0
  /\ Happens([history EXCEPT !.payments = @ - 1], TRUE)

\* A KYC review commits; the later of two can take the level away again.
KycDecided ==
  \E n \in DOMAIN Verified :
    /\ Verified[n] # history.level
    /\ Happens([history EXCEPT !.level = Verified[n]],
               \E higher \in (n + 1)..Len(Verified) : Verified[higher] = history.level)

\* disburse_loan, of another application.
Borrows ==
  Happens([history EXCEPT !.loans["ACTIVE"] = @ + 1], TRUE)
-----------------------------------------------------------------------------
(***************************************************************************)
(* run_assessment                                                          *)
(***************************************************************************)
StartAssessment ==
  /\ assessment.does = "nothing"
  /\ \E rules \in RuleOrders :
       assessment' = [does |-> "read", rules |-> rules, weighted |-> 0, total |-> 0]
  /\ before' = history
  /\ UNCHANGED <<history, worsened, happenings>>

\* One rule after the other, each in a statement of its own.
EvaluateRule ==
  /\ assessment.does = "read"
  /\ assessment.rules # <<>>
  /\ LET signal == Head(assessment.rules)
     IN assessment' = [assessment EXCEPT
          !.rules = Tail(@),
          !.weighted = @ + Evaluated(signal, history) * Weight[signal],
          !.total = @ + Weight[signal]]
  /\ UNCHANGED <<history, before, worsened, happenings>>

\* Rounded half up to two decimals by money(), 0 when no rule is active.
Score(weighted, total) ==
  IF total = 0 THEN 0 ELSE (200 * weighted + total) \div (2 * total)

\* RiskAssessment and its factors, written in the application's transaction.
WriteAssessment ==
  /\ assessment.does = "read"
  /\ assessment.rules = <<>>
  /\ LET score == Score(assessment.weighted, assessment.total)
     IN assessment' = [does |-> "assessed", score |-> score,
                       decision |-> Decision(score)]
  /\ UNCHANGED <<history, before, worsened, happenings>>

RiskNext ==
  \/ StartAssessment \/ EvaluateRule \/ WriteAssessment
  \/ Contributes \/ Pays \/ PaymentFails \/ KycDecided \/ Borrows
-----------------------------------------------------------------------------
Rank(decision) ==
  CASE decision = "REJECT" -> 1 [] decision = "REVIEW" -> 2 [] decision = "APPROVE" -> 3

\* The score of a history that stands still, all rules being active.
ScoreOf(h) ==
  Score(SumFunctionOnSet([s \in Signal |-> Evaluated(s, h) * Weight[s]], Signal),
        SumFunctionOnSet(Weight, Signal))

\* Percentages, times 100.
Scores == 0..10000

RiskTypeOK ==
  /\ history.level \in ToSet(Verified)
  /\ assessment.does \in {"nothing", "read", "assessed"}
  /\ assessment.does = "assessed" =>
       /\ assessment.score \in Scores
       /\ assessment.decision \in {"APPROVE", "REVIEW", "REJECT"}

\* An assessment is pieced together from rows read at different moments, and still
\* is fair: unless a loan was disbursed, an identity rejected or a settled payment
\* marked FAILED meanwhile, it scores the customer no lower than the history it
\* began with and no higher than the history it ended with (a disbursement can make
\* it lower than both: the two rules on loans then judge different histories).
AssessedInBetween ==
  assessment.does = "assessed" /\ ~worsened
    => /\ ScoreOf(before) <= assessment.score
       /\ assessment.score <= ScoreOf(history)
       /\ Rank(Decision(ScoreOf(before))) <= Rank(assessment.decision)
       /\ Rank(assessment.decision) <= Rank(Decision(ScoreOf(history)))
=============================================================================
