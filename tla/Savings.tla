------------------------------ MODULE Savings ------------------------------
(***************************************************************************)
(* One customer's savings plan and goal (apps/savings/services.py): settled *)
(* payments credit them, the customer cancels the plan and edits or deletes *)
(* the goal, officers pay the plan out, and the hourly job refreshes the    *)
(* schedule.                                                                *)
(*                                                                          *)
(* What runs under the row lock of the plan or goal from its first read is  *)
(* one action.  What works on an object read earlier is two: the read,      *)
(* which leaves a copy in held[w], and the write.                           *)
(*                                                                          *)
(* Payments shows how a payment's callback comes to run twice for one       *)
(* posting; here the second run is FundGoalAgain, and for a plan it finds   *)
(* the contribution's row and returns.                                      *)
(***************************************************************************)
EXTENDS Integers, Sequences, FiniteSetsExt

CONSTANTS
  Worker,      \* requests under way
  Payment,     \* settled payments of the customer
  ForGoal,     \* those whose target is the goal
  Amount,      \* what each payment moved
  Items,       \* number of items of the schedule, one a day
  ItemAmount,  \* SavingsPlan.amount, the amount of every item
  Targets,     \* target amounts of the goal
  LastDay,     \* bound on the calendar
  MaxUnposted  \* bound on what repeated callbacks credit to the goal

ASSUME SavingsAssumption ==
  /\ ForGoal \subseteq Payment
  /\ Amount \in [Payment -> Nat \ {0}]
  /\ {Items, ItemAmount} \subseteq Nat \ {0}
  /\ Targets \subseteq Nat \ {0}
  /\ {LastDay, MaxUnposted} \subseteq Nat

VARIABLES
  early,    \* allow_early_payout of the product the plan was made from
  plan,     \* status and total_contributed
  item,     \* the schedule: status and amount_paid of every item
  payouts,  \* SavingsPayout rows of the plan
  goal,     \* the goal's row, NoGoal when it is deleted
  applied,  \* payments whose credit is committed
  posted,   \* payouts whose posting is in the ledger
  pool,     \* what SAVINGS_POOL holds for the plan and for the goal
  unposted, \* what callbacks credited to the goal again, without a posting
  held,     \* the object each request read before it calls the service
  job,      \* where refresh_schedule_statuses is
  today

vars == <<early, plan, item, payouts, goal, applied, posted, pool, unposted, held,
          job, today>>

Item == 1..Items
Open == {"ACTIVE", "PAUSED"}
PlanStatus == Open \cup {"COMPLETED", "CANCELLED"}
ItemStatus == {"UPCOMING", "DUE", "MISSED", "PAID", "CANCELLED"}
Plan == [status : PlanStatus, total : Nat]
ScheduleItem == [status : ItemStatus, paid : 0..ItemAmount]
NoGoal == [status |-> "DELETED", current |-> 0, target |-> 0]
Goal == [status : {"ACTIVE", "COMPLETED", "CANCELLED", "DELETED"},
         current : Nat, target : Targets \cup {0}]
Payout == [amount : Nat, status : {"REQUESTED", "PAID"}]

Nothing == [does |-> "nothing", payout |-> 0, copy |-> NoGoal]
Held == [does : {"nothing", "cancel", "pay", "update", "delete"},
         payout : Nat, copy : Goal]
Job == [stage : {"idle", "missed", "scan", "complete"}, asOf : 0..LastDay]

\* DEFAULT_PRODUCTS: those that pay out before the term and those that do not.
AllowEarlyPayout ==
  [product \in {"AJO_DAILY", "AJO_WEEKLY", "AJO_MONTHLY", "SAVE_FLEX"} |->
     product = "SAVE_FLEX"]

\* create_goal
NewGoal == [status : {"ACTIVE"}, current : {0}, target : Targets]

Init ==
  /\ \E product \in DOMAIN AllowEarlyPayout : early = AllowEarlyPayout[product]
  /\ plan = [status |-> "ACTIVE", total |-> 0]
  /\ item = [i \in Item |-> [status |-> "UPCOMING", paid |-> 0]]
  /\ payouts = <<>>
  /\ goal \in NewGoal
  /\ applied = {}
  /\ posted = {}
  /\ pool = [plan |-> 0, goal |-> 0]
  /\ unposted = 0
  /\ held = [w \in Worker |-> Nothing]
  /\ job = [stage |-> "idle", asOf |-> 0]
  /\ today = 0

Tick ==
  /\ today < LastDay
  /\ today' = today + 1
  /\ UNCHANGED <<early, plan, item, payouts, goal, applied, posted, pool,
                 unposted, held, job>>

Takes(w, object) == held' = [held EXCEPT ![w] = object]
Ends(w) == held' = [held EXCEPT ![w] = Nothing]

\* A request ends without a change: an exception, or a worker that dies.
Abandon(w) ==
  /\ held[w] # Nothing
  /\ Ends(w)
  /\ UNCHANGED <<early, plan, item, payouts, goal, applied, posted, pool,
                 unposted, job, today>>
-----------------------------------------------------------------------------
(***************************************************************************)
(* The plan.                                                               *)
(***************************************************************************)
\* cancel_savings_plan judges the plan its resolver read ...
CancelReads(w) ==
  /\ held[w] = Nothing
  /\ plan.status \in Open
  /\ Takes(w, [Nothing EXCEPT !.does = "cancel"])
  /\ UNCHANGED <<early, plan, item, payouts, goal, applied, posted, pool,
                 unposted, job, today>>

\* ... and writes the status whatever it is by now.
CancelWrites(w) ==
  /\ held[w].does = "cancel"
  /\ plan' = [plan EXCEPT !.status = "CANCELLED"]
  /\ item' = [i \in Item |->
                IF item[i].status = "UPCOMING"
                THEN [item[i] EXCEPT !.status = "CANCELLED"] ELSE item[i]]
  /\ Ends(w)
  /\ UNCHANGED <<early, payouts, goal, applied, posted, pool, unposted, job,
                 today>>

\* Mutant: missed items are not paid any more.
PayableUpcoming == {"UPCOMING", "DUE"}

Payable == {"UPCOMING", "DUE", "MISSED"}

Owed(i) == IF item[i].status \in Payable THEN ItemAmount - item[i].paid ELSE 0

\* What the items before i leave of an amount.
Remaining(amount, i) ==
  amount - SumFunctionOnSet([j \in Item |-> Owed(j)], 1..(i - 1))

\* Mutant: the next item takes all that is left.
ShareUncapped(amount, i) == Max({0, Remaining(amount, i)})

\* What an item gets: what is left of the amount, at most what it is owed.
Share(amount, i) == Max({0, Min({Remaining(amount, i), Owed(i)})})

PayItem(i, paid) ==
  IF item[i].status \notin Payable THEN item[i]
  ELSE [status |-> IF paid >= ItemAmount THEN "PAID" ELSE item[i].status,
        paid |-> paid]

\* _plan_complete
Complete(schedule) == \A i \in Item : schedule[i].status = "PAID"

\* apply_contribution_to_plan inside settle_payment: the posting and the
\* credit commit together or not at all.
Contribute ==
  \E m \in Payment \ (ForGoal \cup applied) :
    /\ plan.status \in Open
    /\ applied' = applied \cup {m}
    /\ pool' = [pool EXCEPT !.plan = @ + Amount[m]]
    /\ item' = [i \in Item |->
                  PayItem(i, item[i].paid + Share(Amount[m], i))]
    /\ plan' = [status |-> IF Complete(item') THEN "COMPLETED" ELSE plan.status,
                total |-> plan.total + Amount[m]]
    /\ UNCHANGED <<early, payouts, goal, posted, unposted, held, job, today>>

\* Mutant: any plan that is not active any more pays out.
MayPayOutWhenClosed == early \/ plan.status \notin Open

MayPayOut == early \/ plan.status = "COMPLETED"

InProgress == {"REQUESTED", "VALIDATED", "APPROVED", "PAID"}

\* request_savings_payout, under the plan's lock.
RequestPayout ==
  /\ MayPayOut
  /\ \A n \in DOMAIN payouts : payouts[n].status \notin InProgress
  /\ plan.total > 0
  /\ payouts' = Append(payouts, [amount |-> plan.total, status |-> "REQUESTED"])
  /\ UNCHANGED <<early, plan, item, goal, applied, posted, pool, unposted,
                 held, job, today>>

\* An officer opens a requested payout: process_savings_payout judges the
\* status on this copy.
PayoutReads(w) ==
  /\ held[w] = Nothing
  /\ \E n \in DOMAIN payouts :
       /\ payouts[n].status \in {"REQUESTED", "APPROVED"}
       /\ Takes(w, [Nothing EXCEPT !.does = "pay", !.payout = n])
  /\ UNCHANGED <<early, plan, item, payouts, goal, applied, posted, pool,
                 unposted, job, today>>

\* Mutant: the plan keeps what was paid out.
LeftKept(amount) == plan.total

\* What a payout leaves on the plan.
Left(amount) == plan.total - amount

\* The posting under the key payout:<reference>: a replay moves nothing.
Paid(n) == IF n \in posted THEN 0 ELSE payouts[n].amount

PayoutPays(w) ==
  /\ held[w].does = "pay"
  /\ LET n == held[w].payout
         amount == payouts[n].amount
     IN /\ plan.total >= amount
        /\ pool' = [pool EXCEPT !.plan = @ - Paid(n)]
        /\ posted' = posted \cup {n}
        /\ plan' = [plan EXCEPT !.total = Left(amount)]
        /\ payouts' = [payouts EXCEPT ![n].status = "PAID"]
  /\ Ends(w)
  /\ UNCHANGED <<early, item, goal, applied, unposted, job, today>>
-----------------------------------------------------------------------------
(***************************************************************************)
(* The goal.                                                               *)
(***************************************************************************)
\* apply_goal_funding, under the goal's lock.  It keeps no row of its own to
\* recognise a payment by.
CreditGoal(amount) ==
  /\ goal.status = "ACTIVE"
  /\ goal' = [goal EXCEPT !.current = goal.current + amount,
                          !.status = IF goal.current + amount >= goal.target
                                     THEN "COMPLETED" ELSE goal.status]
  /\ UNCHANGED <<early, plan, item, payouts, posted, held, job, today>>

\* settle_payment of a payment for the goal: the posting and the credit ...
FundGoal ==
  \E m \in ForGoal \ applied :
    /\ CreditGoal(Amount[m])
    /\ applied' = applied \cup {m}
    /\ pool' = [pool EXCEPT !.goal = @ + Amount[m]]
    /\ UNCHANGED unposted

\* ... and again, once a late FAILED overwrote the payment's SUCCESS: the posting
\* is replayed, the credit is not.
FundGoalAgain ==
  \E m \in ForGoal \cap applied :
    /\ unposted + Amount[m] <= MaxUnposted
    /\ CreditGoal(Amount[m])
    /\ unposted' = unposted + Amount[m]
    /\ UNCHANGED <<applied, pool>>

\* The resolvers of update and delete read the goal without a lock.
GoalReads(w) ==
  /\ held[w] = Nothing
  /\ goal # NoGoal
  /\ \E does \in {"update", "delete"} :
       Takes(w, [Nothing EXCEPT !.does = does, !.copy = goal])
  /\ UNCHANGED <<early, plan, item, payouts, goal, applied, posted, pool,
                 unposted, job, today>>

\* update_goal saves every column of the copy; save() inserts the row again
\* if it is gone.
UpdateGoal(w) ==
  /\ held[w].does = "update"
  /\ \E target \in Targets : goal' = [held[w].copy EXCEPT !.target = target]
  /\ Ends(w)
  /\ UNCHANGED <<early, plan, item, payouts, applied, posted, pool, unposted,
                 job, today>>

\* delete_goal removes the row, or closes it, as the copy says.
DeleteGoal(w) ==
  /\ held[w].does = "delete"
  /\ \/ /\ held[w].copy.current = 0
        /\ goal' = NoGoal
     \/ /\ held[w].copy.current > 0
        /\ goal # NoGoal
        /\ goal' = [goal EXCEPT !.status = "CANCELLED"]
  /\ Ends(w)
  /\ UNCHANGED <<early, plan, item, payouts, applied, posted, pool, unposted,
                 job, today>>
-----------------------------------------------------------------------------
(***************************************************************************)
(* refresh_schedule_statuses: three statements that commit one by one.  The *)
(* item of number i is due on day i - 1.                                    *)
(***************************************************************************)
Due(i) == i - 1

Remark(from, to, late) ==
  item' = [i \in Item |-> IF item[i].status = from /\ i \in late
                          THEN [item[i] EXCEPT !.status = to] ELSE item[i]]

RefreshDue ==
  /\ job.stage = "idle"
  /\ job' = [stage |-> "missed", asOf |-> today]
  /\ Remark("UPCOMING", "DUE", {i \in Item : Due(i) <= today})
  /\ UNCHANGED <<early, plan, payouts, goal, applied, posted, pool, unposted,
                 held, today>>

RefreshMissed ==
  /\ job.stage = "missed"
  /\ job' = [job EXCEPT !.stage = "scan"]
  /\ Remark("DUE", "MISSED", {i \in Item : Due(i) < job.asOf - 1})
  /\ UNCHANGED <<early, plan, payouts, goal, applied, posted, pool, unposted,
                 held, today>>

\* The scan for ACTIVE plans: only those are looked at further.
RefreshScan ==
  /\ job.stage = "scan"
  /\ job' = IF plan.status = "ACTIVE" THEN [job EXCEPT !.stage = "complete"]
            ELSE [stage |-> "idle", asOf |-> 0]
  /\ UNCHANGED <<early, plan, item, payouts, goal, applied, posted, pool,
                 unposted, held, today>>

\* Mutant: plans whose items are all paid or past get completed.
NowCompleteOrPast == \A i \in Item : item[i].status # "UPCOMING"

NowComplete == Complete(item)

\* The counts are fresh, the status of the plan is the one the scan saw.
RefreshComplete ==
  /\ job.stage = "complete"
  /\ job' = [stage |-> "idle", asOf |-> 0]
  /\ plan' = IF NowComplete THEN [plan EXCEPT !.status = "COMPLETED"] ELSE plan
  /\ UNCHANGED <<early, item, payouts, goal, applied, posted, pool, unposted,
                 held, today>>

RefreshDies ==
  /\ job.stage # "idle"
  /\ job' = [stage |-> "idle", asOf |-> 0]
  /\ UNCHANGED <<early, plan, item, payouts, goal, applied, posted, pool,
                 unposted, held, today>>

Next ==
  \/ Contribute \/ RequestPayout \/ FundGoal \/ FundGoalAgain \/ Tick
  \/ RefreshDue \/ RefreshMissed \/ RefreshScan \/ RefreshComplete \/ RefreshDies
  \/ \E w \in Worker :
       \/ CancelReads(w) \/ CancelWrites(w)
       \/ PayoutReads(w) \/ PayoutPays(w)
       \/ GoalReads(w) \/ UpdateGoal(w) \/ DeleteGoal(w)
       \/ Abandon(w)

Spec == Init /\ [][Next]_vars
-----------------------------------------------------------------------------
(***************************************************************************)
(* Properties.                                                             *)
(***************************************************************************)
RowsOK ==
  /\ early \in BOOLEAN
  /\ plan \in Plan
  /\ payouts \in Seq(Payout)
  /\ goal \in Goal
  /\ applied \subseteq Payment
  /\ posted \subseteq DOMAIN payouts
  /\ pool \in [plan : Nat, goal : Nat]
  /\ unposted \in Nat
  /\ held \in [Worker -> Held]
  /\ job \in Job
  /\ today \in 0..LastDay

TypeOK ==
  /\ RowsOK
  /\ item \in [Item -> ScheduleItem]

\* The domain objects never attribute more to the customer than the pool
\* holds for them (customer_savings_balance against SAVINGS_POOL), whatever
\* stale copy is saved or payout processed twice: all that a goal can have too
\* much is what callbacks that ran again for a posted payment credited to it.
NeverMoreThanPooled ==
  /\ plan.total <= pool.plan
  /\ goal.current <= pool.goal + unposted

\* Contributions fill the schedule from its start, with no more than was
\* contributed (apply_contribution_to_plan), through every refresh.
EarliestFirst ==
  /\ \A i, j \in Item : i < j /\ item[j].paid > 0 => item[i].paid = ItemAmount
  /\ SumFunction([i \in Item |-> item[i].paid])
       <= SumFunctionOnSet(Amount, applied \ ForGoal)

\* A plan is COMPLETED only when every item was paid in full, by whichever
\* of the contribution and the hourly job completes it.
CompletedIsPaid ==
  plan.status = "COMPLETED" => \A i \in Item : item[i].paid >= ItemAmount

\* A term product is paid out only after its whole schedule was paid
\* (request_savings_payout), also when the plan is cancelled afterwards.
TermBeforePayout ==
  payouts # <<>> /\ ~early => \A i \in Item : item[i].paid >= ItemAmount

\* "Summing those is the customer's current, unwithdrawn savings balance"
\* (customer_savings_balance, ledger/services.py:446), of plans and goals that
\* are not cancelled.  Not so: a stale delete removes a goal that was funded
\* meanwhile, a stale update undoes a funding, and a payout processed from
\* two copies is taken off the plan twice though the ledger moves once.
BalanceIsUnwithdrawn ==
  /\ plan.total = pool.plan
  /\ goal.status # "CANCELLED" => goal.current = pool.goal
=============================================================================
