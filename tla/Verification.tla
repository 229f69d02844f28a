---------------------------- MODULE Verification ----------------------------
(***************************************************************************)
(* How the ledger looks at itself (apps/ledger): accounts opened with a     *)
(* balance, the nightly snapshot of all balances, and the audit that        *)
(* computes them anew from the entries.  Postings are atomic here, as       *)
(* module Ledger shows; the two reports read account rows and entries in    *)
(* statements of their own, and postings commit in between.                 *)
(***************************************************************************)
EXTENDS Integers, Sequences, FiniteSetsExt

CONSTANTS
  AccountType,  \* the type of each account, by code
  Openings,     \* opening balances asked for, 0 for none
  MaxPostings   \* bound on the transactions

Account == DOMAIN AccountType
Equity == "OPENING_EQUITY"

ASSUME VerificationAssumption ==
  /\ Equity \in Account /\ AccountType[Equity] = "EQUITY"
  /\ 0 \in Openings /\ Openings \subseteq Int
  /\ MaxPostings \in Nat

VARIABLES
  row,        \* LedgerAccount rows: balance, allow_negative and, for the record,
              \* the opening balance that was asked for
  entries,    \* LedgerEntry rows of each account, in the order of commit
  report,     \* the job under way, with the account rows it has read
  snapshots,  \* BalanceSnapshot rows, with the entries there were at the read
  drifts      \* what verify_balances raised or returned, likewise

ledger == <<row, entries, report, snapshots, drifts>>

LedgerAccount == [balance : Int, allow_negative : BOOLEAN, asked : Openings]
LedgerEntry == [direction : {"DEBIT", "CREDIT"}, amount : Nat]
NoRow == [balance |-> 0]
Created(allow, opening) ==
  [balance |-> 0, allow_negative |-> allow, asked |-> opening]
NoReport == [does |-> "nothing"]

VerificationInit ==
  /\ row = [a \in Account |-> IF a = Equity
                              THEN Created(TRUE, 0) ELSE NoRow]
  /\ entries = [a \in Account |-> <<>>]
  /\ report = NoReport
  /\ snapshots = {}
  /\ drifts = {}

Opened == {a \in Account : row[a] # NoRow}
-----------------------------------------------------------------------------
(***************************************************************************)
(* Accounts and postings.                                                  *)
(***************************************************************************)
DebitPositive(a) == AccountType[a] \in {"ASSET", "EXPENSE"}

SignedEffect(a, entry) ==
  IF (entry.direction = "DEBIT") = DebitPositive(a) THEN entry.amount
  ELSE 0 - entry.amount

\* post_transaction of one debit and one credit on rows that stand as accounts.
Posts(accounts, debit, credit, amount) ==
  LET Entry(a) == [direction |-> IF a = debit THEN "DEBIT" ELSE "CREDIT",
                   amount |-> amount]
      After(a) == accounts[a].balance + SignedEffect(a, Entry(a))
  IN /\ Len(entries[debit]) + Len(entries[credit]) < 2 * MaxPostings
     /\ \A a \in {debit, credit} : After(a) >= 0 \/ accounts[a].allow_negative
     /\ row' = [a \in Account |-> IF a \in {debit, credit}
                                  THEN [accounts[a] EXCEPT !.balance = After(a)]
                                  ELSE accounts[a]]
     /\ entries' = [a \in Account |-> IF a \in {debit, credit}
                                      THEN Append(entries[a], Entry(a))
                                      ELSE entries[a]]

\* create_account; the opening balance is posted against equity, on the side that
\* gives the new account the balance asked for.
CreateAccount(a) ==
  /\ row[a] = NoRow
  /\ \E opening \in Openings, allow \in BOOLEAN :
       LET accounts == [row EXCEPT ![a] = Created(allow, opening)]
           size == IF opening < 0 THEN 0 - opening ELSE opening
       IN IF opening = 0 THEN row' = accounts /\ UNCHANGED entries
          ELSE IF (opening > 0) = DebitPositive(a)
               THEN Posts(accounts, a, Equity, size)
               ELSE Posts(accounts, Equity, a, size)
  /\ UNCHANGED <<report, snapshots, drifts>>

PostTransaction ==
  /\ \E debit, credit \in Opened : debit # credit /\ Posts(row, debit, credit, 1)
  /\ UNCHANGED <<report, snapshots, drifts>>
-----------------------------------------------------------------------------
(***************************************************************************)
(* Reports.                                                                *)
(***************************************************************************)
\* Both read the account rows first; began is history, the number of entries then.
ReadAccounts(does) ==
  /\ report = NoReport
  /\ report' = [does |-> does, rows |-> [a \in Opened |-> row[a].balance],
                began |-> [a \in Opened |-> Len(entries[a])]]
  /\ UNCHANGED <<row, entries, snapshots, drifts>>

\* snapshot_all_balances goes from account to account, and counts its entries.
SnapshotAccount ==
  /\ report.does = "snapshot"
  /\ \E a \in DOMAIN report.rows :
       LET left == DOMAIN report.rows \ {a}
           Kept(f) == [b \in left |-> f[b]]
       IN /\ snapshots' = snapshots \cup
               {[account |-> a, balance |-> report.rows[a],
                 entry_count |-> Len(entries[a]), began |-> report.began[a]]}
          /\ report' = IF left = {} THEN NoReport
                       ELSE [report EXCEPT !.rows = Kept(@), !.began = Kept(@)]
  /\ UNCHANGED <<row, entries, drifts>>

TotalOf(a, direction) ==
  SumFunctionOnSet([n \in DOMAIN entries[a] |->
                      IF entries[a][n].direction = direction
                      THEN entries[a][n].amount ELSE 0], DOMAIN entries[a])

\* Mutant: debits less credits, whatever the account's type.
ComputedUnsigned(a) == TotalOf(a, "DEBIT") - TotalOf(a, "CREDIT")

\* computed_balance
Computed(a) ==
  IF DebitPositive(a) THEN TotalOf(a, "DEBIT") - TotalOf(a, "CREDIT")
  ELSE TotalOf(a, "CREDIT") - TotalOf(a, "DEBIT")

\* verify_balances: the entries of all accounts in one prefetch, and the comparison.
VerifyBalances ==
  /\ report.does = "verify"
  /\ drifts' = drifts \cup
       {[account |-> a, drift |-> report.rows[a] - Computed(a),
         began |-> report.began[a], seen |-> Len(entries[a])]
          : a \in {b \in DOMAIN report.rows : report.rows[b] # Computed(b)}}
  /\ report' = NoReport
  /\ UNCHANGED <<row, entries, snapshots>>

\* The worker dies; the snapshots taken so far stay.
ReportDies ==
  /\ report # NoReport
  /\ report' = NoReport
  /\ UNCHANGED <<row, entries, snapshots, drifts>>

VerificationNext ==
  \/ PostTransaction
  \/ \E a \in Account : CreateAccount(a)
  \/ ReadAccounts("snapshot") \/ ReadAccounts("verify")
  \/ SnapshotAccount \/ VerifyBalances \/ ReportDies
-----------------------------------------------------------------------------
VerificationTypeOK ==
  /\ row \in [Account -> LedgerAccount \cup {NoRow}]
  /\ entries \in [Account -> Seq(LedgerEntry)]
  /\ report.does \in {"nothing", "snapshot", "verify"}

\* The balance that the first n entries of an account make.
BalanceAfter(a, n) ==
  SumFunctionOnSet([i \in DOMAIN entries[a] |-> SignedEffect(a, entries[a][i])], 1..n)

\* What the reports say is explained by the entries, to the last one, in spite of
\* postings between their reads: a snapshot has the balance its account had when
\* the job began, of no more entries than it counts; verify_balances reports a
\* drift only where entries were committed between its two reads, and exactly
\* their sum; a balance is what its entries make of it, the first of them the
\* opening balance that was asked for, whatever the sign and the account's type.
ReportsExplained ==
  /\ \A s \in snapshots :
       /\ s.began <= s.entry_count
       /\ s.balance = BalanceAfter(s.account, s.began)
  /\ \A d \in drifts :
       /\ d.began < d.seen
       /\ d.drift = BalanceAfter(d.account, d.began) - BalanceAfter(d.account, d.seen)
  /\ \A a \in Opened :
       /\ row[a].balance = BalanceAfter(a, Len(entries[a]))
       /\ row[a].asked # 0 => row[a].asked = BalanceAfter(a, 1)
=============================================================================
