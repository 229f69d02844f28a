------------------------------- MODULE Lists -------------------------------
(***************************************************************************)
(* The lists of the GraphQL API and their pages (apps/core/pagination.py). *)
(* A cursor is an offset.  A page is two statements, a count and a slice,  *)
(* outside any transaction, so rows appear and leave between the two as    *)
(* well as between pages.  Rows are numbered in the order of the column    *)
(* the list is sorted by; a row of a filtered list leaves it when its      *)
(* status changes or, for goals, when it is deleted, and may return.       *)
(***************************************************************************)
EXTENDS Integers, FiniteSets, FiniteSetsExt

CONSTANTS
  MaxRows,    \* bound on the rows of a list
  PageSizes,  \* sizes a client asks for, up to GRAPHQL_MAX_PAGE_SIZE
  MaxChanges  \* bound on the rows that appear or leave while a list is read

ASSUME ListsAssumption ==
  /\ {MaxRows, MaxChanges} \subseteq Nat
  /\ PageSizes \subseteq Nat \ {0}

VARIABLES
  list,    \* the list that is read
  listed,  \* its rows
  page,    \* where the reader is
  seen,    \* rows the reader was shown
  steady,  \* history: rows in the list ever since it was first counted
  gone,    \* history: rows that left it since
  slipped, \* history: rows that appeared between count and slice of a page
  changes  \* history: how often the list changed since

lists == <<list, listed, page, seen, steady, gone, slipped, changes>>

Row == 1..MaxRows

\* order "any": without ORDER BY, or by a column that rows share.
Sorted(order, changing, continued) ==
  [order |-> order, changing |-> changing, continued |-> continued]

\* A connection hands its cursor to the client, a bare list does not.
Connection(order, changing) == Sorted(order, changing, TRUE)
BareList(order, changing) == Sorted(order, changing, FALSE)

Growing == {"appear"}
Filtered == {"appear", "leave"}

AdminCustomers == Connection("newest", Filtered)
AdminKycQueue == Connection("any", Filtered)
AdminLoanApplications == Connection("newest", Filtered)
AdminLoans == BareList("newest", Growing)
AdminPayments == Connection("newest", Filtered)
AdminWebhooks == Connection("newest", Growing)
AdminLedgerTransactions == Connection("newest", Growing)
AdminReconciliationRuns == BareList("newest", Growing)
AdminReconciliationExceptions == BareList("newest", Growing)
AdminAgents == Connection("code", Growing)
AdminAgentSettlements == BareList("newest", Growing)
AdminFraudAlerts == Connection("newest", Growing)
AdminAuditEvents == Connection("newest", Growing)
AdminSupportTickets == Connection("newest", Filtered)
AgentCustomers == Connection("any", Filtered)
AgentTransactions == Connection("newest", Growing)
AgentSettlements == BareList("newest", Growing)
SupportTickets == Connection("newest", Growing)
OwnLoanApplications == Connection("newest", Growing)
OwnLoans == BareList("newest", Growing)
RepaymentSchedule == Connection("code", {})
OwnPayments == Connection("newest", Filtered)
SavingsPlans == Connection("newest", Growing)
SavingsSchedule == Connection("code", {})
SavingsGoals == Connection("newest", Filtered)

ListOf ==
  {AdminCustomers, AdminKycQueue, AdminLoanApplications, AdminLoans,
   AdminPayments, AdminWebhooks, AdminLedgerTransactions,
   AdminReconciliationRuns, AdminReconciliationExceptions, AdminAgents,
   AdminAgentSettlements, AdminFraudAlerts, AdminAuditEvents,
   AdminSupportTickets, AgentCustomers, AgentTransactions, AgentSettlements,
   SupportTickets, OwnLoanApplications, OwnLoans, RepaymentSchedule, OwnPayments,
   SavingsPlans, SavingsSchedule, SavingsGoals}

ListsInit ==
  /\ list \in ListOf
  /\ listed \in SUBSET Row
  /\ page = [does |-> "start"]
  /\ seen = {}
  /\ steady = {}
  /\ gone = 0
  /\ slipped = 0
  /\ changes = 0
-----------------------------------------------------------------------------
(***************************************************************************)
(* The rows.  A row that a slow transaction commits late may have its place *)
(* anywhere in the list.                                                   *)
(***************************************************************************)
Reading == page.does \in {"next", "counted"} /\ changes < MaxChanges

RowAppears ==
  /\ Reading
  /\ "appear" \in list.changing
  /\ \E r \in Row \ listed : listed' = listed \cup {r}
  /\ slipped' = IF page.does = "counted" THEN slipped + 1 ELSE slipped
  /\ changes' = changes + 1
  /\ UNCHANGED <<list, page, seen, steady, gone>>

RowLeaves ==
  /\ Reading
  /\ "leave" \in list.changing
  /\ \E r \in listed :
       /\ listed' = listed \ {r}
       /\ steady' = steady \ {r}
  /\ gone' = gone + 1
  /\ changes' = changes + 1
  /\ UNCHANGED <<list, page, seen, slipped>>
-----------------------------------------------------------------------------
(***************************************************************************)
(* paginate                                                                *)
(***************************************************************************)
\* _decode_cursor, clamped to the rows there are.
Offset(cursor, total) == Min({cursor, total})

\* The count of a page; the first has no cursor.
CountRows ==
  /\ page.does \in {"start", "next"}
  /\ \E size \in PageSizes :
       LET total == Cardinality(listed)
           cursor == IF page.does = "start" THEN 0 ELSE page.cursor
       IN page' = [does |-> "counted", offset |-> Offset(cursor, total),
                   size |-> size, total |-> total]
  /\ steady' = IF page.does = "start" THEN listed ELSE steady
  /\ slipped' = 0
  /\ UNCHANGED <<list, listed, seen, gone, changes>>

\* The rows that the database returns before this one.
Preceding(r) == {s \in listed : IF list.order = "newest" THEN s > r ELSE s < r}

\* What items[offset:end] may be: without an order, any rows of that number.
Slices(offset, end) ==
  IF list.order = "any"
  THEN kSubset(Cardinality(offset..(Min({end, Cardinality(listed)}) - 1)), listed)
  ELSE {{r \in listed : Cardinality(Preceding(r)) \in offset..(end - 1)}}

\* Mutant: a page that ends one row before the total counts as the last.
HasNextPageEarly(end, total) == end + 1 < total

HasNextPage(end, total) == end < total

\* The slice, and the cursor of the next page if there is one.
SliceRows ==
  /\ page.does = "counted"
  /\ \E items \in Slices(page.offset, page.offset + page.size) :
       LET end == page.offset + Cardinality(items)
       IN /\ seen' = seen \cup items
          /\ page' = IF ~list.continued THEN [does |-> "stuck"]
                     ELSE IF HasNextPage(end, page.total)
                          THEN [does |-> "next", cursor |-> end]
                          ELSE [does |-> "done"]
  /\ UNCHANGED <<list, listed, steady, gone, slipped, changes>>

ListsNext == RowAppears \/ RowLeaves \/ CountRows \/ SliceRows
-----------------------------------------------------------------------------
ListsTypeOK ==
  /\ listed \subseteq Row
  /\ seen \subseteq Row
  /\ steady \subseteq listed
  /\ page.does \in {"start", "next", "counted", "done", "stuck"}
  /\ page.does = "counted" => page.offset <= page.total

\* Who follows the cursors to the end of a list has been shown every row that was
\* in it all the while, however many were added meanwhile, but for one at most
\* for each row that left the list, which moves the others up past the cursor,
\* and for each that appeared between the count and the slice of the last page,
\* which pushes an old one behind the end that was counted.
PagesCoverTheList ==
  page.does = "done" /\ list.order # "any"
    => Cardinality(steady \ seen) <= gone + slipped
=============================================================================
