-------------------------------- MODULE Loans --------------------------------
(***************************************************************************)
(* apps/loans/services.py with the resolvers that call it: applications,   *)
(* offers, disbursement and repayment, served by several workers.          *)
(*                                                                         *)
(* Officers and customers act on a copy of the application their resolver  *)
(* read; the transition table is judged on the copy and every column of it *)
(* is saved.  Offers are read in the service, unlocked too.  Only a         *)
(* repayment locks the loan it changes.                                    *)
(*                                                                         *)
(* Left out because nothing in the repository reaches it: applications     *)
(* that are DRAFT, UNDER_REVIEW or VERIFICATION_REQUIRED, loan fees, and    *)
(* penalties with all that follows from them: apply_late_penalties looks   *)
(* for instalments that are DUE or LATE, and no code makes them so.        *)
(***************************************************************************)
EXTENDS Installments, FiniteSets

CONSTANTS
  Application,  \* applications of one customer
  Worker,       \* workers, each serving one call at a time
  Nobody,       \* owner of a row nobody has locked
  Principals,   \* amounts asked for and approved, within the product's range
  Terms,        \* months asked for and approved
  Methods,      \* interest methods the product may have
  Rate,         \* its interest rate, percent a year
  Payment,      \* payments made for loans
  Worth         \* the amount of each

ASSUME LoansAssumption ==
  /\ Principals \subseteq Nat \ {0}
  /\ Terms \subseteq Nat \ {0}
  /\ Methods \subseteq {"FLAT", "DECLINING_BALANCE"}
  /\ Rate \in Nat
  /\ Worth \in [Payment -> Nat \ {0}]
  /\ Nobody \notin Worker

VARIABLES
  product,      \* the LoanProduct all applications are for
  application,  \* LoanApplication rows
  offer,        \* LoanOffer rows
  loan,         \* Loan rows with their RepaymentScheduleItem rows
  repaid,       \* payments with a Repayment row
  owner,        \* worker that holds the lock of a loan row
  call,         \* what each worker is doing, with the copies it holds
  accepted      \* history: the debts (total_repayable) the customer has accepted

vars == <<product, application, offer, loan, repaid, owner, call, accepted>>

State == {"SUBMITTED", "OFFERED", "ACCEPTED", "REJECTED", "CANCELLED"}
None == [exists |-> FALSE]
Row == [state : State, principal : Principals, term : Terms]
LoanProduct == [interest_method : Methods, interest_rate : {Rate}]
Offer == [status : {"PENDING", "ACCEPTED", "REJECTED"}, principal : Principals,
          term : Terms, total_repayable : Nat]
ItemStatus == {"UPCOMING", "PARTIALLY_PAID", "PAID"}
Item == [principal : Nat, interest : Nat, paid : Nat, status : ItemStatus]
Loan == [principal : Principals, term : Terms, status : {"ACTIVE", "COMPLETED"},
         owedPrincipal : Nat, owedInterest : Nat, items : Seq(Item)]

\* What a call of each kind holds: the application as its resolver read it, the
\* offer or the loan as the service read it.
Idle == [does |-> "nothing"]
Call ==
  {Idle}
    \cup [does : {"approve", "reject", "accept", "decline", "disburse"},
          app : Application, copy : Row]
    \cup [does : {"accepting", "disbursing"}, app : Application, copy : Row,
          seen : Offer]
    \cup [does : {"declining"}, app : Application]
    \cup [does : {"repay"}, app : Application, payment : Payment]
    \cup [does : {"repaying"}, app : Application, payment : Payment, seen : Loan]

Init ==
  /\ product \in LoanProduct
  /\ application = [a \in Application |-> None]
  /\ offer = [a \in Application |-> None]
  /\ loan = [a \in Application |-> None]
  /\ repaid = {}
  /\ owner = [a \in Application |-> Nobody]
  /\ call = [w \in Worker |-> Idle]
  /\ accepted = [a \in Application |-> {}]

Becomes(w, c) == call' = [call EXCEPT ![w] = c]

\* The call of w ends, with the lock it holds.
Ends(w) ==
  /\ Becomes(w, Idle)
  /\ owner' = [a \in Application |-> IF owner[a] = w THEN Nobody ELSE owner[a]]

\* An exception or the death of the worker: what is not committed is undone.
\* accept_offer ends so when the offer has expired; its EXPIRED is undone too.
Abandon(w) ==
  /\ call[w] # Idle
  /\ Ends(w)
  /\ UNCHANGED <<application, offer, loan, repaid, accepted>>

\* APPLICATION_TRANSITIONS, judged on the copy.
MayBecome(from) ==
  CASE from = "SUBMITTED" -> {"APPROVED", "REJECTED", "CANCELLED"}
    [] from = "APPROVED" -> {"OFFERED", "CANCELLED"}
    [] from = "OFFERED" -> {"ACCEPTED", "CANCELLED"}
    [] OTHER -> {}

\* _transition saves every column of the copy.
Save(c, state) ==
  /\ state \in MayBecome(c.copy.state)
  /\ application' = [application EXCEPT ![c.app] = [c.copy EXCEPT !.state = state]]
-----------------------------------------------------------------------------
(***************************************************************************)
(* Application and decision.                                               *)
(***************************************************************************)
Open == {"ACTIVE"}

\* check_eligibility of a customer whose identity is verified, for a product
\* whose range holds the amount and the term; asked again by nobody later on.
Eligible == \A b \in Application : loan[b] # None => loan[b].status \notin Open

\* create_loan_application; the assessment is advisory and read by no service.
CreateLoanApplication(a, principal, term) ==
  /\ Eligible
  /\ application' = [application EXCEPT ![a] =
                       [state |-> "SUBMITTED", principal |-> principal, term |-> term]]

ApplyForLoan(a) ==
  /\ application[a] = None
  /\ \E principal \in Principals, term \in Terms :
       CreateLoanApplication(a, principal, term)
  /\ UNCHANGED <<offer, loan, repaid, owner, call, accepted>>

\* A resolver reads the application somebody works on.
Reads(w, does) ==
  /\ call[w] = Idle
  /\ \E a \in Application :
       /\ application[a] # None
       /\ Becomes(w, [does |-> does, app |-> a, copy |-> application[a]])
  /\ UNCHANGED <<application, offer, loan, repaid, owner, accepted>>

ReadToDecide(w) == Reads(w, "approve") \/ Reads(w, "reject")
ReadToDisburse(w) == Reads(w, "disburse")
ReadOwn(w) == Reads(w, "accept") \/ Reads(w, "decline")

\* compute_schedule, for the product.
ScheduleOf(principal, term) ==
  Schedule(product.interest_method, principal, product.interest_rate, term)

\* approve_application: APPROVED, the offer made or made anew with what the
\* officer grants, OFFERED.
Approve(w) ==
  /\ call[w].does = "approve"
  /\ call[w].copy.state = "SUBMITTED"
  /\ application' = [application EXCEPT
                       ![call[w].app] = [call[w].copy EXCEPT !.state = "OFFERED"]]
  /\ \E principal \in Principals, term \in Terms :
       offer' = [offer EXCEPT ![call[w].app] =
                   [status |-> "PENDING", principal |-> principal, term |-> term,
                    total_repayable |-> TotalRepayable(ScheduleOf(principal, term))]]
  /\ Ends(w)
  /\ UNCHANGED <<loan, repaid, accepted>>

Reject(w) ==
  /\ call[w].does = "reject"
  /\ call[w].copy.state = "SUBMITTED"
  /\ Save(call[w], "REJECTED")
  /\ Ends(w)
  /\ UNCHANGED <<offer, loan, repaid, accepted>>
-----------------------------------------------------------------------------
(***************************************************************************)
(* The offer.                                                              *)
(***************************************************************************)
\* accept_offer and disburse_loan read the offer, and whether there is a loan.
ReadOffer(w) ==
  /\ call[w] # Idle
  /\ offer[call[w].app] # None
  /\ \/ /\ call[w].does = "accept"
        /\ offer[call[w].app].status = "PENDING"
        /\ Becomes(w, [does |-> "accepting", app |-> call[w].app,
                       copy |-> call[w].copy, seen |-> offer[call[w].app]])
     \/ /\ call[w].does = "disburse"
        /\ call[w].copy.state = "ACCEPTED"
        /\ offer[call[w].app].status = "ACCEPTED"
        /\ loan[call[w].app] = None
        /\ Becomes(w, [does |-> "disbursing", app |-> call[w].app,
                       copy |-> call[w].copy, seen |-> offer[call[w].app]])
  /\ UNCHANGED <<application, offer, loan, repaid, owner, accepted>>

\* Mutant: only the status of the offer is saved, over whatever terms it has.
AcceptedOfferStatusOnly(c) == [offer[c.app] EXCEPT !.status = "ACCEPTED"]

\* offer.save() writes every column of the offer the customer saw.
AcceptedOffer(c) == [c.seen EXCEPT !.status = "ACCEPTED"]

Accept(w) ==
  /\ call[w].does = "accepting"
  /\ offer' = [offer EXCEPT ![call[w].app] = AcceptedOffer(call[w])]
  /\ Save(call[w], "ACCEPTED")
  /\ accepted' = [accepted EXCEPT
                    ![call[w].app] = @ \cup {call[w].seen.total_repayable}]
  /\ Ends(w)
  /\ UNCHANGED <<loan, repaid>>

\* reject_loan_offer saves the offer and then the application, each at once.
DeclineOffer(w) ==
  /\ call[w].does = "decline"
  /\ call[w].copy.state = "OFFERED"
  /\ offer' = [offer EXCEPT ![call[w].app].status = "REJECTED"]
  /\ Becomes(w, [does |-> "declining", app |-> call[w].app])
  /\ UNCHANGED <<application, loan, repaid, owner, accepted>>

DeclineApplication(w) ==
  /\ call[w].does = "declining"
  /\ application' = [application EXCEPT ![call[w].app].state = "CANCELLED"]
  /\ Ends(w)
  /\ UNCHANGED <<offer, loan, repaid, accepted>>

\* Loan.application is unique; disbursement:<reference> is posted once.
LoanIsNew(a) == loan[a] = None

\* Posting, loan and schedule, on the terms of the offer that was read.
Disburse(w) ==
  /\ call[w].does = "disbursing"
  /\ LET o == call[w].seen
         lines == ScheduleOf(o.principal, o.term)
     IN /\ LoanIsNew(call[w].app)
        /\ loan' = [loan EXCEPT ![call[w].app] =
             [principal |-> o.principal, term |-> o.term, status |-> "ACTIVE",
              owedPrincipal |-> o.principal,
              owedInterest |-> TotalInterest(lines),
              items |-> [i \in 1..o.term |->
                           [principal |-> lines[i].principal,
                            interest |-> lines[i].interest,
                            paid |-> 0, status |-> "UPCOMING"]]]]
  /\ Ends(w)
  /\ UNCHANGED <<application, offer, repaid, accepted>>
-----------------------------------------------------------------------------
(***************************************************************************)
(* Repayment.                                                              *)
(***************************************************************************)
Lent == {a \in Application : loan[a] # None}

\* Mutant: the loan is read without FOR UPDATE.
RowIsFreeUnlocked(a) == TRUE

RowIsFree(a) == owner[a] = Nobody

\* apply_repayment_to_loan looks for the payment's Repayment without a lock ...
StartRepayment(w) ==
  /\ call[w] = Idle
  /\ \E a \in Lent, m \in Payment \ repaid :
       Becomes(w, [does |-> "repay", app |-> a, payment |-> m])
  /\ UNCHANGED <<application, offer, loan, repaid, owner, accepted>>

\* ... and then locks the loan.
LockLoan(w) ==
  /\ call[w].does = "repay"
  /\ LET a == call[w].app
     IN /\ RowIsFree(a)
        /\ loan[a].status \in Open
        /\ owner' = [owner EXCEPT ![a] = w]
        /\ Becomes(w, [does |-> "repaying", app |-> a,
                       payment |-> call[w].payment, seen |-> loan[a]])
  /\ UNCHANGED <<application, offer, loan, repaid, accepted>>

\* Mutant: an instalment that was paid in part is passed over.
PayableUpcoming == {"UPCOMING"}

Payable == {"UPCOMING", "PARTIALLY_PAID"}

Due(item) ==
  IF item.status \in Payable THEN item.principal + item.interest - item.paid ELSE 0

\* What an amount leaves for instalment i when those before it are served.
Share(amount, items, i) ==
  Max({0, Min({Due(items[i]),
               amount - SumFunctionOnSet([j \in DOMAIN items |-> Due(items[j])],
                                         1..(i - 1))})})

\* The whole payment goes to the instalments in order.
Spread(amount, items) ==
  [i \in DOMAIN items |->
     IF Share(amount, items, i) = 0 THEN items[i]
     ELSE [items[i] EXCEPT
             !.paid = @ + Share(amount, items, i),
             !.status = IF Share(amount, items, i) = Due(items[i])
                        THEN "PAID" ELSE "PARTIALLY_PAID"]]

Order == <<"PENALTY", "FEES", "INTEREST", "PRINCIPAL">>

\* Mutant: the interest is served in full, whatever the amount.
TakenUncapped(amount, row) ==
  [INTEREST |-> row.owedInterest, PRINCIPAL |-> amount - row.owedInterest]

\* And to what the loan owes, bucket by bucket.
Taken(amount, row) ==
  Allocate(amount, [PENALTY |-> 0, FEES |-> 0, INTEREST |-> row.owedInterest,
                    PRINCIPAL |-> row.owedPrincipal], Order)

\* Repayment.payment is unique.
RepaymentIsNew(m) == m \notin repaid

Repay(w) ==
  /\ call[w].does = "repaying"
  /\ LET c == call[w]
         take == Taken(Worth[c.payment], c.seen)
         principal == c.seen.owedPrincipal - take.PRINCIPAL
         interest == c.seen.owedInterest - take.INTEREST
     IN /\ RepaymentIsNew(c.payment)
        /\ repaid' = repaid \cup {c.payment}
        /\ loan' = [loan EXCEPT ![c.app] =
             [c.seen EXCEPT
                !.owedPrincipal = principal, !.owedInterest = interest,
                !.items = Spread(Worth[c.payment], loan[c.app].items),
                !.status = IF principal = 0 /\ interest = 0 THEN "COMPLETED" ELSE @]]
  /\ Ends(w)
  /\ UNCHANGED <<application, offer, accepted>>

Step ==
  \/ \E a \in Application : ApplyForLoan(a)
  \/ \E w \in Worker :
       \/ ReadToDecide(w) \/ ReadToDisburse(w) \/ ReadOwn(w)
       \/ Approve(w) \/ Reject(w)
       \/ ReadOffer(w) \/ Accept(w) \/ DeclineOffer(w) \/ DeclineApplication(w)
       \/ Disburse(w) \/ StartRepayment(w) \/ LockLoan(w)
       \/ Repay(w)
       \/ Abandon(w)

Next == Step /\ UNCHANGED product

Spec == Init /\ [][Next]_vars
-----------------------------------------------------------------------------
(***************************************************************************)
(* Properties.                                                             *)
(***************************************************************************)
TypeOK ==
  /\ product \in LoanProduct
  /\ application \in [Application -> Row \cup {None}]
  /\ offer \in [Application -> Offer \cup {None}]
  /\ loan \in [Application -> Loan \cup {None}]
  /\ repaid \subseteq Payment
  /\ owner \in [Application -> Worker \cup {Nobody}]
  /\ call \in [Worker -> Call]
  /\ accepted \in [Application -> SUBSET Nat]

\* However the single instalments of a loan were rounded, they add up to its
\* principal to the kobo, and under FLAT to its flat interest, none negative
\* (compute_schedule: "exact remainders on the last installment").
AddsUp(row) ==
  /\ TotalPrincipal(row.items) = row.principal
  /\ product.interest_method = "FLAT" =>
       TotalInterest(row.items) = FlatInterest(row.principal, Rate, row.term)
  /\ \A i \in DOMAIN row.items :
       row.items[i].principal >= 0 /\ row.items[i].interest >= 0

\* The lines ask for equal amounts but for the last, which differs from them by
\* no more than a kobo for each month.
Level(lines, term) ==
  \A i, j \in 1..term :
    LET more == lines[j].principal + lines[j].interest
                  - lines[i].principal - lines[i].interest
    IN IF j < term /\ i < term THEN more = 0 ELSE more \in (0 - term)..term

\* Those of a declining balance do.
Even(row) == product.interest_method = "DECLINING_BALANCE" => Level(row.items, row.term)

\* Two facts of the amounts, terms and rate alone.  No line of a schedule is
\* rounded away: it asks for something, and for nothing negative.
EveryLineAsks ==
  \A method \in Methods, principal \in Principals, term \in Terms :
    LET lines == Schedule(method, principal, Rate, term)
    IN \A i \in 1..term : /\ lines[i].principal >= 0 /\ lines[i].interest >= 0
                         /\ lines[i].principal + lines[i].interest > 0

\* What is rounded month by month adds up to no more than a kobo a month.
SchedulesAreLevel ==
  "DECLINING_BALANCE" \in Methods =>
    \A principal \in Principals, term \in Terms :
      Level(Schedule("DECLINING_BALANCE", principal, Rate, term), term)

\* What the buckets of a loan still owe is what its instalments still ask for,
\* and it is COMPLETED exactly when every instalment is PAID
\* (apply_repayment_to_loan computes the two by different loops).
RecordsAgree(row) ==
  /\ row.owedPrincipal + row.owedInterest
       = SumFunction([i \in DOMAIN row.items |->
           row.items[i].principal + row.items[i].interest - row.items[i].paid])
  /\ (row.status = "COMPLETED")
       <=> \A i \in DOMAIN row.items : row.items[i].status = "PAID"

\* The two records of a debt agree, whatever was paid and however the single
\* instalments were rounded.
ScheduleMatchesDebt ==
  \A a \in Lent : /\ AddsUp(loan[a])
                  /\ Even(loan[a])
                  /\ RecordsAgree(loan[a])

Owed == [a \in Application |->
           IF a \in Lent THEN loan[a].owedPrincipal + loan[a].owedInterest ELSE 0]

Debts == INSTANCE Debt WITH
  agreed <- accepted, lent <- Lent, owed <- Owed, credited <- repaid

\* Whatever decisions are taken from old copies, an application leads to one
\* loan at most, on terms its customer accepted, and a debt falls by each
\* repayment once and by nothing else: the loans implement the abstract debt.
ImplementsDebt == Debts!DebtSpec
=============================================================================
