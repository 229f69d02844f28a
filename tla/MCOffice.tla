------------------------------ MODULE MCOffice ------------------------------
(* Office, checked by TLC: two of every kind of actor but one reader. *)
EXTENDS Office

\* One kind of event for a customer and those of module BackOffice: a new user has
\* no profile yet, and an alert names no customer.
AddresseeOf ==
  [PAYMENT_SUCCESS |-> "customer", KYC_VERIFIED |-> "customer",
   KYC_SUBMITTED |-> "customer", ACCOUNT_CREATED |-> "user",
   SECURITY_ALERT |-> "nobody"]

\* The days that some months lack and one that all have, before and after a leap
\* day.
FirstDueDates ==
  {d \in [year : {2023, 2024}, month : 1..12, day : {15, 29, 30, 31}] :
     Exists(MonthNumber(d), d.day)}

\* As ensure_default_rules adds the rules, and the other way round.
RulesOrders ==
  LET added == <<"SAVINGS_CONSISTENCY", "REPAYMENT_HISTORY", "KYC_LEVEL",
                 "COOPERATIVE_MEMBERSHIP", "LOAN_HISTORY", "TRANSACTION_ACTIVITY">>
  IN {added, Reverse(added)}

\* At each threshold or below it, with rules that ask for one row.
Histories ==
  [contributions : {0, 1}, payments : {0, 2},
   level : {"NONE", "STANDARD", "ENHANCED"}, member : {FALSE},
   loans : [ACTIVE : {0, 1}, COMPLETED : {0, 1}, DELINQUENT : {0}, DEFAULTED : {0}]]

\* None, and one of each sign.
AnyOpening == -1..1

\* One account of each sign.
AccountTypes == [OPENING_EQUITY |-> "EQUITY", TEST_ASSET |-> "ASSET"]
=============================================================================
