--------------------------- MODULE SavingsProofs ---------------------------
(***************************************************************************)
(* Proofs about Savings, for any schedule, payments, amounts and number of  *)
(* requests.                                                                *)
(***************************************************************************)
EXTENDS Savings, SumTheorems

\* A copy of the goal that is still to be saved shows no more than was credited,
\* since fundings only add; a payout that is still to be paid exists.
CopiesBehind ==
  \A w \in Worker :
    /\ held[w].does = "update" => held[w].copy.current <= pool.goal + unposted
    /\ held[w].does = "pay" => held[w].payout \in DOMAIN payouts

MoneyInv == RowsOK /\ NeverMoreThanPooled /\ CopiesBehind

\* PAID items stay PAID; what completed the plan, and what let a term product
\* be paid out, is that all of them are.
ScheduleInv ==
  /\ \A i \in Item : item[i].status = "PAID" => item[i].paid >= ItemAmount
  /\ plan.status = "COMPLETED" => Complete(item)
  /\ payouts # <<>> /\ ~early => Complete(item)
-----------------------------------------------------------------------------
(***************************************************************************)
(* The schedule.                                                           *)
(***************************************************************************)
LEMMA PaidStays ==
  ASSUME [Next]_vars, ScheduleInv
  PROVE  /\ \A i \in Item : item[i].status = "PAID" => item'[i].status = "PAID"
         /\ \A i \in Item : item'[i].status = "PAID" => item'[i].paid >= ItemAmount
<1>1. CASE Contribute
  <2>1. PICK m \in Payment :
          item' = [i \in Item |-> PayItem(i, item[i].paid + Share(Amount[m], i))]
    BY <1>1 DEF Contribute
  <2>2. ASSUME NEW i \in Item
        PROVE  /\ item[i].status = "PAID" => item'[i] = item[i]
               /\ item'[i].status = "PAID" =>
                    item'[i] = item[i] \/ item'[i].paid >= ItemAmount
    <3>. DEFINE paid == item[i].paid + Share(Amount[m], i)
    <3>1. item'[i] = PayItem(i, paid)
      BY <2>1
    <3>. HIDE DEF paid
    <3>. QED BY <3>1 DEF PayItem, Payable
  <2>. QED BY <2>2 DEF ScheduleInv
<1>2. CASE \E w \in Worker : CancelWrites(w)
  BY <1>2 DEF CancelWrites, ScheduleInv
<1>3. CASE RefreshDue
  BY <1>3 DEF RefreshDue, Remark, ScheduleInv
<1>4. CASE RefreshMissed
  BY <1>4 DEF RefreshMissed, Remark, ScheduleInv
<1>5. CASE UNCHANGED item
  BY <1>5 DEF ScheduleInv
<1>. QED
  BY <1>1, <1>2, <1>3, <1>4, <1>5
  DEF Next, vars, RequestPayout, FundGoal, FundGoalAgain, CreditGoal,
        Tick, RefreshScan, RefreshComplete,
      RefreshDies, CancelReads, PayoutReads, PayoutPays, GoalReads, UpdateGoal,
      DeleteGoal, Abandon

\* A schedule that is paid stays paid.
LEMMA CompleteStays ==
  ASSUME [Next]_vars, ScheduleInv, Complete(item)
  PROVE  Complete(item')
  BY PaidStays DEF Complete

\* Every step keeps the schedule's invariant.
LEMMA ScheduleInductive ==
  ASSUME [Next]_vars, ScheduleInv
  PROVE  ScheduleInv'
<1>1. (\A i \in Item : item[i].status = "PAID" => item[i].paid >= ItemAmount)'
  BY PaidStays DEF Item
<1>2. (plan.status = "COMPLETED" => Complete(item))'
  <2>. SUFFICES ASSUME plan'.status = "COMPLETED"
                PROVE  Complete(item')
    OBVIOUS
  <2>1. CASE plan.status = "COMPLETED"
    BY <2>1, CompleteStays DEF ScheduleInv
  <2>2. CASE plan.status # "COMPLETED" /\ Contribute
    BY <2>2 DEF Contribute
  <2>3. CASE plan.status # "COMPLETED" /\ RefreshComplete
    BY <2>3 DEF RefreshComplete, NowComplete
  <2>4. CASE plan.status # "COMPLETED" /\ \E w \in Worker : PayoutPays(w)
    BY <2>4 DEF PayoutPays
  <2>5. CASE plan.status # "COMPLETED" /\ \E w \in Worker : CancelWrites(w)
    BY <2>5 DEF CancelWrites
  <2>. QED
    BY <2>1, <2>2, <2>3, <2>4, <2>5
    DEF Next, vars, RequestPayout, FundGoal, FundGoalAgain, CreditGoal,
        Tick, RefreshDue, RefreshMissed,
        RefreshScan, RefreshDies, CancelReads, PayoutReads, GoalReads,
        UpdateGoal, DeleteGoal, Abandon
<1>3. (payouts # <<>> /\ ~early => Complete(item))'
  <2>. SUFFICES ASSUME payouts' # <<>>, ~early'
                PROVE  Complete(item')
    OBVIOUS
  <2>1. early' = early
    BY DEF Next, vars, Contribute, RequestPayout, FundGoal, FundGoalAgain,
           CreditGoal, Tick, RefreshDue,
           RefreshMissed, RefreshScan, RefreshComplete, RefreshDies,
           CancelReads, CancelWrites, PayoutReads, PayoutPays, GoalReads,
           UpdateGoal, DeleteGoal, Abandon
  <2>2. CASE payouts # <<>>
    BY <2>1, <2>2, CompleteStays DEF ScheduleInv
  <2>3. CASE payouts = <<>> /\ RequestPayout
    <3>1. Complete(item)
      BY <2>1, <2>3 DEF RequestPayout, MayPayOut, ScheduleInv
    <3>. QED BY <3>1, CompleteStays
  <2>4. CASE payouts = <<>> /\ \E w \in Worker : PayoutPays(w)
    BY <2>4 DEF PayoutPays
  <2>. QED
    BY <2>2, <2>3, <2>4
    DEF Next, vars, Contribute, FundGoal, FundGoalAgain, CreditGoal,
        Tick, RefreshDue, RefreshMissed,
        RefreshScan, RefreshComplete, RefreshDies, CancelReads, CancelWrites,
        PayoutReads, GoalReads, UpdateGoal, DeleteGoal, Abandon
<1>. QED BY <1>1, <1>2, <1>3 DEF ScheduleInv

\* An item that counts as paid was paid in full; a plan that is completed, or was
\* paid out in time, has no item left.
THEOREM ScheduleSound == Spec => []ScheduleInv
<1>1. Init => ScheduleInv
  BY DEF Init, NewGoal, ScheduleInv, Complete
<1>2. ScheduleInv /\ [Next]_vars => ScheduleInv'
  BY ScheduleInductive
<1>. QED BY <1>1, <1>2, PTL DEF Spec

\* A completed plan was paid in full, whoever completed it.
THEOREM CompletedPaid == Spec => []CompletedIsPaid
<1>1. ScheduleInv => CompletedIsPaid
  BY DEF ScheduleInv, CompletedIsPaid, Complete
<1>. QED BY <1>1, ScheduleSound, PTL

\* A term product pays out after its term only.
THEOREM TermFirst == Spec => []TermBeforePayout
<1>1. ScheduleInv => TermBeforePayout
  BY DEF ScheduleInv, TermBeforePayout, Complete
<1>. QED BY <1>1, ScheduleSound, PTL
-----------------------------------------------------------------------------
(***************************************************************************)
(* The money.                                                              *)
(***************************************************************************)
LEMMA Shapes ==
  /\ NoGoal \in Goal
  /\ Nothing \in Held
  /\ \A g \in Goal : g.current \in Nat
  /\ \A h \in Held : h.payout \in Nat /\ h.copy \in Goal
  BY DEF NoGoal, Goal, Nothing, Held

\* Payments are of natural amounts.
LEMMA AmountsPositive == \A m \in Payment : Amount[m] \in Nat
  BY SavingsAssumption

\* At the beginning nothing is pooled or attributed.
LEMMA MoneyInit == Init => MoneyInv
<1>. SUFFICES ASSUME Init PROVE MoneyInv
  OBVIOUS
<1>1. goal \in Goal
  BY DEF Init, NewGoal, Goal
<1>0. early \in BOOLEAN
  BY DEF Init, AllowEarlyPayout
<1>2. RowsOK
  BY <1>0, <1>1, Shapes, SavingsAssumption DEF Init, NewGoal, RowsOK, Plan, PlanStatus, Open, Job
<1>3. NeverMoreThanPooled
  BY DEF Init, NewGoal, NeverMoreThanPooled
<1>4. CopiesBehind
  BY DEF Init, NewGoal, CopiesBehind, Nothing
<1>. QED BY <1>2, <1>3, <1>4 DEF MoneyInv

\* A step that only reads an object or forgets one.
LEMMA HoldingKeeps ==
  ASSUME MoneyInv, NEW w \in Worker, NEW h \in Held,
         held' = [held EXCEPT ![w] = h],
         h.does = "update" => h.copy.current <= pool.goal + unposted,
         h.does = "pay" => h.payout \in DOMAIN payouts,
         pool'.goal = pool.goal, unposted' = unposted,
         DOMAIN payouts' = DOMAIN payouts
  PROVE  held' \in [Worker -> Held] /\ CopiesBehind'
<1>1. held \in [Worker -> Held]
  BY DEF MoneyInv, RowsOK, Plan
<1>2. held' \in [Worker -> Held]
  BY <1>1
<1>3. ASSUME NEW v \in Worker
      PROVE  held'[v] = h \/ held'[v] = held[v]
  BY <1>1
<1>4. ASSUME NEW v \in Worker
      PROVE  /\ held'[v].does = "update" => held'[v].copy.current <= pool'.goal + unposted'
             /\ held'[v].does = "pay" => held'[v].payout \in DOMAIN payouts'
  BY <1>3 DEF MoneyInv, CopiesBehind
<1>. QED BY <1>2, <1>4 DEF CopiesBehind

\* A worker that forgets its copy leaves the others theirs.
LEMMA EndingKeeps ==
  ASSUME MoneyInv, NEW w \in Worker, Ends(w), pool'.goal = pool.goal, unposted' = unposted,
         DOMAIN payouts' = DOMAIN payouts
  PROVE  held' \in [Worker -> Held] /\ CopiesBehind'
<1>1. Nothing \in Held /\ Nothing.does \notin {"update", "pay"}
  BY Shapes DEF Nothing
<1>. QED BY <1>1, HoldingKeeps DEF Ends

\* Every step keeps plan, goal and copies within the pool.
LEMMA MoneyInductive ==
  ASSUME [Next]_vars, MoneyInv
  PROVE  MoneyInv'
<1>1. CASE Contribute
  <2>1. PICK m \in Payment :
          /\ applied' = applied \cup {m}
          /\ pool' = [pool EXCEPT !.plan = @ + Amount[m]]
          /\ plan'.status \in {"COMPLETED", plan.status}
          /\ plan' = [status |-> plan'.status, total |-> plan.total + Amount[m]]
    BY <1>1 DEF Contribute
  <2>2. Amount[m] \in Nat
    BY AmountsPositive
  <2>3. plan' \in [status : PlanStatus, total : Nat] /\ pool' \in [plan : Nat, goal : Nat]
    <3>1. plan.status \in PlanStatus /\ plan.total \in Nat /\ pool \in [plan : Nat, goal : Nat]
      BY DEF MoneyInv, RowsOK, Plan
    <3>2. plan'.status \in PlanStatus
      BY <2>1, <3>1 DEF PlanStatus
    <3>3. plan.total + Amount[m] \in Nat /\ pool.plan + Amount[m] \in Nat
      BY <2>2, <3>1
    <3>4. plan' \in [status : PlanStatus, total : Nat]
      BY <2>1, <3>2, <3>3
    <3>5. pool' \in [plan : Nat, goal : Nat]
      BY <2>1, <3>1, <3>3
    <3>. QED BY <3>4, <3>5
  <2>4. NeverMoreThanPooled' /\ CopiesBehind'
    BY <1>1, <2>1, <2>2
    DEF MoneyInv, RowsOK, Plan, NeverMoreThanPooled, CopiesBehind, Contribute
  <2>. QED BY <1>1, <2>1, <2>3, <2>4 DEF MoneyInv, RowsOK, Plan, Contribute
<1>2. CASE RequestPayout
  BY <1>2 DEF RequestPayout, Payout, MoneyInv, RowsOK, Plan, NeverMoreThanPooled,
              CopiesBehind
<1>3. CASE FundGoal \/ FundGoalAgain
  <2>1. PICK m \in Payment :
          /\ CreditGoal(Amount[m])
          /\ \/ /\ applied' = applied \cup {m}
                /\ pool' = [pool EXCEPT !.goal = @ + Amount[m]]
                /\ unposted' = unposted
             \/ /\ unposted' = unposted + Amount[m]
                /\ UNCHANGED <<applied, pool>>
    BY <1>3, SavingsAssumption DEF FundGoal, FundGoalAgain
  <2>2. Amount[m] \in Nat /\ goal.current \in Nat
    BY AmountsPositive, Shapes DEF MoneyInv, RowsOK, Plan
  <2>3. goal' \in Goal /\ goal'.current = goal.current + Amount[m]
    <3>1. goal \in Goal /\ goal.current + Amount[m] \in Nat
      BY <2>2 DEF MoneyInv, RowsOK, Plan
    <3>2. PICK status \in {"COMPLETED", "ACTIVE"} :
            goal' = [goal EXCEPT !.current = goal.current + Amount[m],
                                 !.status = status]
      <4>1. CASE goal.current + Amount[m] >= goal.target
        BY <2>1, <4>1 DEF CreditGoal
      <4>2. CASE ~(goal.current + Amount[m] >= goal.target)
        BY <2>1, <4>2 DEF CreditGoal
      <4>. QED BY <4>1, <4>2
    <3>. QED BY <3>1, <3>2 DEF Goal
  <2>4. /\ pool' \in [plan : Nat, goal : Nat] /\ pool'.plan = pool.plan
        /\ unposted' \in Nat
        /\ pool'.goal + unposted' = pool.goal + unposted + Amount[m]
        /\ applied' \subseteq Payment
    BY <2>1, <2>2 DEF MoneyInv, RowsOK, Plan
  <2>5. UNCHANGED <<early, plan, item, payouts, posted, held, job, today>>
    BY <2>1 DEF CreditGoal
  <2>6. CopiesBehind'
    <3>1. \A w \in Worker : held[w].copy.current \in Nat
      BY Shapes DEF MoneyInv, RowsOK, Plan
    <3>2. pool.goal \in Nat /\ unposted \in Nat
      BY DEF MoneyInv, RowsOK
    <3>3. pool.goal + unposted <= pool'.goal + unposted'
      BY <2>2, <2>4, <3>2
    <3>4. pool'.goal + unposted' \in Nat
      BY <2>4
    <3>. QED BY <2>5, <3>1, <3>2, <3>3, <3>4 DEF MoneyInv, CopiesBehind
  <2>7. NeverMoreThanPooled'
    BY <2>2, <2>3, <2>4, <2>5 DEF MoneyInv, RowsOK, Plan, NeverMoreThanPooled
  <2>. QED BY <2>3, <2>4, <2>5, <2>6, <2>7 DEF MoneyInv, RowsOK, Plan
<1>4. CASE Tick
  BY <1>4, SavingsAssumption
  DEF Tick, MoneyInv, RowsOK, Plan, NeverMoreThanPooled, CopiesBehind
<1>5. CASE RefreshDue \/ RefreshMissed \/ RefreshScan \/ RefreshDies
  BY <1>5, SavingsAssumption
  DEF RefreshDue, RefreshMissed, RefreshScan, RefreshDies, Job, MoneyInv, RowsOK, Plan,
      NeverMoreThanPooled, CopiesBehind
<1>6. CASE RefreshComplete
  <2>1. job' \in Job
    BY <1>6, SavingsAssumption DEF RefreshComplete, Job
  <2>2. plan' = plan \/ plan' = [plan EXCEPT !.status = "COMPLETED"]
    BY <1>6 DEF RefreshComplete
  <2>3. plan' \in [status : PlanStatus, total : Nat] /\ plan'.total = plan.total
    BY <2>2 DEF MoneyInv, RowsOK, Plan, PlanStatus
  <2>. QED
    BY <1>6, <2>1, <2>3
    DEF RefreshComplete, MoneyInv, RowsOK, Plan, NeverMoreThanPooled, CopiesBehind
<1>7. CASE UNCHANGED vars
  BY <1>7 DEF vars, MoneyInv, RowsOK, Plan, NeverMoreThanPooled, CopiesBehind
<1>8. ASSUME NEW w \in Worker, CancelWrites(w) \/ Abandon(w)
      PROVE  MoneyInv'
  <2>1. held' \in [Worker -> Held] /\ CopiesBehind'
    BY <1>8, EndingKeeps DEF CancelWrites, Abandon
  <2>. QED
    BY <1>8, <2>1
    DEF CancelWrites, Abandon, MoneyInv, RowsOK, Plan, NeverMoreThanPooled, PlanStatus
<1>9. ASSUME NEW w \in Worker, CancelReads(w) \/ PayoutReads(w) \/ GoalReads(w)
      PROVE  MoneyInv'
  <2>1. PICK h \in Held :
          /\ held' = [held EXCEPT ![w] = h]
          /\ h.copy.current <= pool.goal + unposted
          /\ h.does = "pay" => h.payout \in DOMAIN payouts
    <3>1. /\ [Nothing EXCEPT !.does = "cancel"] \in Held
          /\ \A n \in Nat : [Nothing EXCEPT !.does = "pay", !.payout = n] \in Held
          /\ \A does \in {"update", "delete"} :
               [Nothing EXCEPT !.does = does, !.copy = goal] \in Held
      BY Shapes DEF MoneyInv, RowsOK, Plan, Nothing, Held
    <3>2. NoGoal.current <= pool.goal + unposted /\ goal.current <= pool.goal + unposted
      BY DEF NoGoal, MoneyInv, RowsOK, Plan, NeverMoreThanPooled
    <3>3. CASE CancelReads(w)
      BY <3>1, <3>2, <3>3 DEF CancelReads, Takes, Nothing
    <3>4. CASE PayoutReads(w)
      <4>1. PICK n \in DOMAIN payouts :
              held' = [held EXCEPT ![w] =
                         [Nothing EXCEPT !.does = "pay", !.payout = n]]
        BY <3>4 DEF PayoutReads, Takes
      <4>2. n \in Nat
        BY DEF MoneyInv, RowsOK, Plan
      <4>. QED BY <3>1, <3>2, <4>1, <4>2 DEF Nothing
    <3>5. CASE GoalReads(w)
      BY <3>1, <3>2, <3>5 DEF GoalReads, Takes, Nothing
    <3>. QED BY <1>9, <3>3, <3>4, <3>5
  <2>2. held' \in [Worker -> Held] /\ CopiesBehind'
    BY <1>9, <2>1, HoldingKeeps DEF CancelReads, PayoutReads, GoalReads
  <2>. QED
    BY <1>9, <2>2
    DEF CancelReads, PayoutReads, GoalReads, MoneyInv, RowsOK, Plan, NeverMoreThanPooled
<1>10. ASSUME NEW w \in Worker, PayoutPays(w)
       PROVE  MoneyInv'
  <2>. DEFINE n == held[w].payout
              amount == payouts[n].amount
  <2>1. n \in DOMAIN payouts
    BY <1>10 DEF PayoutPays, MoneyInv, CopiesBehind
  <2>2. amount \in Nat
    <3>1. payouts[n] \in Payout
      BY <2>1 DEF MoneyInv, RowsOK, Plan
    <3>. QED BY <3>1 DEF Payout
  <2>3. PICK moved \in {0, amount} :
          /\ pool' = [pool EXCEPT !.plan = @ - moved]
          /\ plan' = [plan EXCEPT !.total = plan.total - amount]
          /\ amount <= plan.total
    BY <1>10 DEF PayoutPays, Paid, Left
  <2>. HIDE DEF amount
  <2>4. /\ pool' \in [plan : Nat, goal : Nat]
        /\ plan' \in [status : PlanStatus, total : Nat]
        /\ NeverMoreThanPooled'
    <3>1. /\ pool \in [plan : Nat, goal : Nat]
          /\ plan \in [status : PlanStatus, total : Nat]
          /\ NeverMoreThanPooled
          /\ goal' = goal /\ unposted' = unposted
      BY <1>10 DEF PayoutPays, MoneyInv, RowsOK, Plan
    <3>2. /\ plan.total - amount \in Nat
          /\ pool.plan - moved \in Nat
          /\ plan.total - amount <= pool.plan - moved
      BY <2>2, <2>3, <3>1 DEF NeverMoreThanPooled
    <3>3. /\ pool' \in [plan : Nat, goal : Nat]
          /\ plan' \in [status : PlanStatus, total : Nat]
      BY <2>3, <3>1, <3>2
    <3>4. /\ plan'.total = plan.total - amount
          /\ pool'.plan = pool.plan - moved
          /\ pool'.goal = pool.goal
      BY <2>3, <3>1
    <3>. QED BY <3>1, <3>2, <3>3, <3>4 DEF NeverMoreThanPooled
  <2>5. payouts' \in Seq(Payout) /\ DOMAIN payouts' = DOMAIN payouts
    <3>1. payouts' = [payouts EXCEPT ![n].status = "PAID"]
      BY <1>10 DEF PayoutPays
    <3>2. payouts \in Seq(Payout) /\ payouts[n] \in Payout
      BY <2>1 DEF MoneyInv, RowsOK, Plan
    <3>3. [payouts[n] EXCEPT !.status = "PAID"] \in Payout
      BY <3>2 DEF Payout
    <3>. QED BY <2>1, <3>1, <3>2, <3>3
  <2>6. posted' \subseteq DOMAIN payouts'
    BY <1>10, <2>1, <2>5 DEF PayoutPays, MoneyInv, RowsOK, Plan
  <2>7. held' \in [Worker -> Held] /\ CopiesBehind'
    BY <1>10, <2>3, <2>5, EndingKeeps DEF PayoutPays, MoneyInv, RowsOK, Plan
  <2>. QED
    BY <1>10, <2>4, <2>5, <2>6, <2>7 DEF PayoutPays, MoneyInv, RowsOK, Plan
<1>11. ASSUME NEW w \in Worker, UpdateGoal(w)
       PROVE  MoneyInv'
  <2>1. PICK target \in Targets :
          goal' = [held[w].copy EXCEPT !.target = target]
    BY <1>11 DEF UpdateGoal
  <2>2. held[w].copy \in Goal /\ held[w].copy.current <= pool.goal + unposted
    BY <1>11, Shapes DEF UpdateGoal, MoneyInv, RowsOK, Plan, CopiesBehind
  <2>3. goal' \in Goal /\ goal'.current = held[w].copy.current
    BY <2>1, <2>2 DEF Goal
  <2>4. held' \in [Worker -> Held] /\ CopiesBehind'
    BY <1>11, EndingKeeps DEF UpdateGoal
  <2>. QED
    BY <1>11, <2>2, <2>3, <2>4
    DEF UpdateGoal, MoneyInv, RowsOK, Plan, NeverMoreThanPooled
<1>12. ASSUME NEW w \in Worker, DeleteGoal(w)
       PROVE  MoneyInv'
  <2>1. goal' \in Goal /\ goal'.current <= pool.goal + unposted
    BY <1>12, Shapes
    DEF DeleteGoal, MoneyInv, RowsOK, Plan, NeverMoreThanPooled, Goal, NoGoal
  <2>2. held' \in [Worker -> Held] /\ CopiesBehind'
    BY <1>12, EndingKeeps DEF DeleteGoal
  <2>. QED
    BY <1>12, <2>1, <2>2
    DEF DeleteGoal, MoneyInv, RowsOK, Plan, NeverMoreThanPooled
<1>. QED
  BY <1>1, <1>2, <1>3, <1>4, <1>5, <1>6, <1>7, <1>8, <1>9, <1>10, <1>11, <1>12
  DEF Next

\* What plan and goal attribute to the customer is in the pool.
THEOREM MoneyPooled == Spec => []NeverMoreThanPooled
<1>1. MoneyInv /\ [Next]_vars => MoneyInv'
  BY MoneyInductive
<1>2. MoneyInv => NeverMoreThanPooled
  BY DEF MoneyInv
<1>. QED BY MoneyInit, <1>1, <1>2, PTL DEF Spec
-----------------------------------------------------------------------------
(***************************************************************************)
(* The order of the schedule.                                              *)
(***************************************************************************)
\* An item that is CANCELLED belongs to a plan that takes no contribution.
CancelledIsClosed ==
  \A i \in Item : item[i].status = "CANCELLED" => plan.status \notin Open

OrderInv ==
  /\ TypeOK
  /\ ScheduleInv
  /\ CancelledIsClosed
  /\ IsFiniteSet(applied)
  /\ EarliestFirst

\* What the type of a schedule item says.
LEMMA ItemsTyped ==
  ASSUME TypeOK, NEW i \in Item
  PROVE  /\ item[i] \in ScheduleItem
         /\ item[i].paid \in Nat /\ item[i].paid <= ItemAmount
         /\ item[i].status \in ItemStatus
         /\ ItemAmount \in Nat /\ Items \in Nat
  BY SavingsAssumption DEF TypeOK, ScheduleItem

\* What an item of a plan that takes contributions lacks.
LEMMA OwedIsLack ==
  ASSUME OrderInv, NEW i \in Item
  PROVE  /\ Owed(i) \in Nat
         /\ Owed(i) <= ItemAmount - item[i].paid
         /\ plan.status \in Open => Owed(i) = ItemAmount - item[i].paid
<1>1. /\ item[i].paid \in Nat /\ item[i].paid <= ItemAmount /\ ItemAmount \in Nat
      /\ item[i].status \in ItemStatus
  BY ItemsTyped DEF OrderInv
<1>2. item[i].status = "PAID" => item[i].paid >= ItemAmount
  BY DEF OrderInv, ScheduleInv
<1>3. plan.status \in Open => item[i].status # "CANCELLED"
  BY DEF OrderInv, CancelledIsClosed
<1>. QED
  BY <1>1, <1>2, <1>3 DEF Owed, Payable, ItemStatus

\* Shares in numbers: what is left, at most what is owed, never negative.
OwedBefore(i) == SumFunctionOnSet([j \in Item |-> Owed(j)], 1..(i - 1))

\* An item gets what the earlier ones leave of a contribution, up to what it lacks.
LEMMA ShareIs ==
  ASSUME OrderInv, NEW amount \in Nat, NEW i \in Item
  PROVE  /\ OwedBefore(i) \in Nat
         /\ Share(amount, i) =
              IF amount <= OwedBefore(i) THEN 0
              ELSE IF amount - OwedBefore(i) <= Owed(i) THEN amount - OwedBefore(i)
              ELSE Owed(i)
         /\ Share(amount, i) \in 0..Owed(i)
<1>. DEFINE f == [j \in Item |-> Owed(j)]
<1>1. \A j \in 1..(i - 1) : f[j] \in Nat
  <2>1. 1..(i - 1) \subseteq Item
    BY SavingsAssumption DEF Item
  <2>2. \A j \in Item : f[j] \in Nat
    BY OwedIsLack
  <2>. QED
    BY <2>1, <2>2
<1>2. IsFiniteSet(1..(i - 1))
  BY FS_Interval DEF Item
<1>3. OwedBefore(i) \in Nat
  <2>. HIDE DEF f
  <2>. QED
    BY <1>1, <1>2, SumNat DEF OwedBefore, f
<1>4. Owed(i) \in Nat
  BY OwedIsLack
<1>. DEFINE left == amount - OwedBefore(i)
            owed == Owed(i)
<1>5. left \in Int /\ Remaining(amount, i) = left
  BY <1>3 DEF Remaining, OwedBefore
<1>. HIDE DEF owed
<1>6. Share(amount, i) = Max({0, Min({left, owed})})
  BY <1>5 DEF Share, owed
<1>. HIDE DEF left
<1>7. owed \in Nat
  BY <1>4 DEF owed
<1>8. Min({left, owed}) = IF left <= owed THEN left ELSE owed
  BY <1>5, <1>7, MaxMin
<1>. DEFINE least == Min({left, owed})
<1>9. least \in Int
  BY <1>5, <1>7, <1>8
<1>. HIDE DEF least
<1>10. Max({0, least}) = IF 0 >= least THEN 0 ELSE least
  BY <1>9, MaxMin
<1>. QED
  BY <1>3, <1>5, <1>6, <1>7, <1>8, <1>10 DEF left, least, owed

\* All shares together are no more than the amount.
LEMMA SharesAddUp ==
  ASSUME OrderInv, NEW amount \in Nat
  PROVE  /\ \A i \in Item : Share(amount, i) \in Nat
         /\ SumFunctionOnSet([i \in Item |-> Share(amount, i)], Item) <= amount
<1>. DEFINE due == [j \in Item |-> Owed(j)]
            share == [j \in Item |-> Share(amount, j)]
<1>1. Items \in Nat /\ Item = 1..Items
  BY SavingsAssumption DEF Item
<1>2. ASSUME NEW i \in 1..Items
      PROVE  /\ due[i] \in Nat
             /\ share[i] = Max({0, Min({due[i], amount - SumFunctionOnSet(due, 1..(i - 1))})})
  <2>1. i \in Item /\ due[i] = Owed(i) /\ share[i] = Share(amount, i)
    BY <1>1
  <2>2. Remaining(amount, i) = amount - SumFunctionOnSet(due, 1..(i - 1))
    BY DEF Remaining
  <2>. HIDE DEF due, share
  <2>3. {Remaining(amount, i), Owed(i)} = {Owed(i), Remaining(amount, i)}
    OBVIOUS
  <2>. QED
    BY <2>1, <2>2, <2>3, OwedIsLack DEF Share
<1>. HIDE DEF due, share
<1>3. /\ \A i \in 1..Items : share[i] \in 0..due[i]
      /\ SumFunctionOnSet(due, 1..Items) \in Nat
      /\ SumFunctionOnSet(share, 1..Items)
           = IF amount <= SumFunctionOnSet(due, 1..Items) THEN amount
             ELSE SumFunctionOnSet(due, 1..Items)
  BY <1>1, <1>2, Served
<1>4. SumFunctionOnSet(share, Item) <= amount
  BY <1>1, <1>3
<1>5. \A i \in Item : Share(amount, i) \in Nat
  BY ShareIs, OwedIsLack
<1>. QED
  BY <1>4, <1>5 DEF share

\* What the items up to i are owed comes before any later item.
LEMMA OwedGrows ==
  ASSUME OrderInv, NEW i \in Item, NEW j \in Item, i < j
  PROVE  OwedBefore(i) + Owed(i) <= OwedBefore(j)
<1>. DEFINE f == [k \in Item |-> Owed(k)]
<1>0. Item \subseteq Nat /\ i \in Nat /\ j \in Nat /\ 1..(j - 1) \subseteq Item
      /\ i \in 1..(j - 1) /\ (1..(i - 1)) \cup {i} \in SUBSET (1..(j - 1))
      /\ i \notin 1..(i - 1)
  BY SavingsAssumption DEF Item
<1>1. \A k \in Item : f[k] \in Nat
  BY OwedIsLack
<1>2. f[i] = Owed(i)
  OBVIOUS
<1>3. IsFiniteSet(1..(i - 1)) /\ IsFiniteSet(1..(j - 1))
  <2>1. i - 1 \in Int /\ j - 1 \in Int
    BY <1>0
  <2>2. \A n \in Int : IsFiniteSet(1..n)
    BY FS_Interval
  <2>. QED
    BY <2>1, <2>2
<1>. HIDE DEF f
<1>4. SumFunctionOnSet(f, (1..(i - 1)) \cup {i})
        = f[i] + SumFunctionOnSet(f, 1..(i - 1))
  <2>1. \A x \in (1..(i - 1)) \cup {i} : f[x] \in Int
    BY <1>0, <1>1
  <2>. QED
    BY <1>0, <1>3, <2>1, SumAdd
<1>5. SumFunctionOnSet(f, (1..(i - 1)) \cup {i}) <= SumFunctionOnSet(f, 1..(j - 1))
  <2>1. \A x \in 1..(j - 1) : f[x] \in Nat
    BY <1>0, <1>1
  <2>. QED
    BY <1>0, <1>3, <2>1, SumSubset
<1>6. OwedBefore(i) = SumFunctionOnSet(f, 1..(i - 1))
      /\ OwedBefore(j) = SumFunctionOnSet(f, 1..(j - 1))
  BY DEF OwedBefore, f
<1>7. f[i] \in Nat /\ SumFunctionOnSet(f, 1..(i - 1)) \in Int
  <2>1. \A x \in 1..(i - 1) : f[x] \in Int
    BY <1>0, <1>1
  <2>. QED
    BY <1>1, <1>3, <2>1, SumInt
<1>. QED
  BY <1>2, <1>4, <1>5, <1>6, <1>7

\* A contribution adds its share to every item.
LEMMA ContributeShares ==
  ASSUME OrderInv, plan.status \in Open, NEW amount \in Nat,
         item' = [i \in Item |-> PayItem(i, item[i].paid + Share(amount, i))]
  PROVE  /\ item' \in [Item -> ScheduleItem]
         /\ \A i \in Item : /\ item'[i].paid = item[i].paid + Share(amount, i)
                            /\ item'[i].status # "CANCELLED"
<1>1. ASSUME NEW i \in Item
      PROVE  /\ item'[i] \in ScheduleItem
             /\ item'[i].paid = item[i].paid + Share(amount, i)
             /\ item'[i].status # "CANCELLED"
  <2>. DEFINE paid == item[i].paid + Share(amount, i)
  <2>1. /\ item[i] \in ScheduleItem
        /\ item[i].paid \in Nat /\ item[i].paid <= ItemAmount /\ ItemAmount \in Nat
        /\ item[i].status \in ItemStatus
    BY ItemsTyped DEF OrderInv
  <2>2. Share(amount, i) \in Nat /\ Share(amount, i) <= Owed(i)
        /\ Owed(i) = ItemAmount - item[i].paid
    BY ShareIs, OwedIsLack
  <2>3. paid \in 0..ItemAmount
    BY <2>1, <2>2
  <2>4. item[i].status # "CANCELLED"
    BY DEF OrderInv, CancelledIsClosed
  <2>5. item[i].status = "PAID" => item[i].paid = ItemAmount /\ Share(amount, i) = 0
    BY <2>1, <2>2 DEF OrderInv, ScheduleInv
  <2>6. item'[i] = PayItem(i, paid)
    OBVIOUS
  <2>. HIDE DEF paid
  <2>7. CASE item[i].status = "PAID"
    <3>1. item'[i] = item[i]
      BY <2>6, <2>7 DEF PayItem, Payable
    <3>. QED
      BY <2>1, <2>5, <2>7, <3>1
  <2>8. CASE item[i].status \in Payable
    <3>1. item'[i] = [status |-> IF paid >= ItemAmount THEN "PAID" ELSE item[i].status,
                      paid |-> paid]
      BY <2>6, <2>8 DEF PayItem
    <3>. QED
      BY <2>1, <2>3, <2>8, <3>1 DEF ScheduleItem, Payable, ItemStatus, paid
  <2>. QED
    BY <2>1, <2>4, <2>7, <2>8 DEF ItemStatus, Payable
<1>2. item' = [i \in Item |-> item'[i]]
  OBVIOUS
<1>. QED
  BY <1>1, <1>2

\* A contribution serves the items in order.
LEMMA ContributeInOrder ==
  ASSUME OrderInv, Contribute
  PROVE  /\ item' \in [Item -> ScheduleItem]
         /\ CancelledIsClosed' /\ IsFiniteSet(applied') /\ EarliestFirst'
<1>1. PICK m \in Payment :
        /\ m \notin ForGoal /\ m \notin applied
        /\ applied' = applied \cup {m}
        /\ item' = [i \in Item |-> PayItem(i, item[i].paid + Share(Amount[m], i))]
  BY DEF Contribute
<1>2. plan.status \in Open
  BY DEF Contribute
<1>. DEFINE amount == Amount[m]
<1>3. amount \in Nat
  BY AmountsPositive
<1>4. item' \in [Item -> ScheduleItem]
      /\ \A i \in Item : /\ item'[i].paid = item[i].paid + Share(amount, i)
                         /\ item'[i].status # "CANCELLED"
  BY <1>1, <1>2, <1>3, ContributeShares
<1>5. IsFiniteSet(applied')
  BY <1>1, FS_AddElement DEF OrderInv
<1>. HIDE DEF amount
<1>6. ASSUME NEW i \in Item, NEW j \in Item, i < j, item'[j].paid > 0
      PROVE  item'[i].paid = ItemAmount
  <2>1. /\ item[i].paid \in Nat /\ item[i].paid <= ItemAmount /\ ItemAmount \in Nat
        /\ item[j].paid \in Nat
    BY ItemsTyped DEF OrderInv
  <2>2. /\ Owed(i) = ItemAmount - item[i].paid /\ Owed(i) \in Nat /\ Owed(j) \in Nat
        /\ OwedBefore(i) + Owed(i) <= OwedBefore(j)
    BY <1>2, <1>6, OwedIsLack, OwedGrows
  <2>3. \A k \in {i, j} :
          /\ OwedBefore(k) \in Nat
          /\ Share(amount, k) =
               IF amount <= OwedBefore(k) THEN 0
               ELSE IF amount - OwedBefore(k) <= Owed(k) THEN amount - OwedBefore(k)
               ELSE Owed(k)
    BY <1>3, ShareIs
  <2>4. CASE Share(amount, j) = 0
    <3>1. item[i].paid = ItemAmount
      BY <1>4, <1>6, <2>1, <2>4 DEF OrderInv, EarliestFirst
    <3>2. Owed(i) = 0 /\ Share(amount, i) \in 0..Owed(i)
      BY <1>3, <2>1, <2>2, <3>1, ShareIs
    <3>3. Share(amount, i) = 0
      BY <3>2
    <3>. QED
      BY <1>4, <2>1, <3>1, <3>3
  <2>5. CASE Share(amount, j) # 0
    <3>1. Share(amount, i) = Owed(i)
      BY <1>3, <2>2, <2>3, <2>5
    <3>. QED
      BY <1>4, <2>1, <2>2, <3>1
  <2>. QED
    BY <2>4, <2>5
<1>7. SumFunction([i \in Item |-> item'[i].paid])
        <= SumFunctionOnSet(Amount, applied' \ ForGoal)
  <2>. DEFINE f == [i \in Item |-> item[i].paid]
              g == [i \in Item |-> Share(amount, i)]
              h == [i \in Item |-> item'[i].paid]
              before == applied \ ForGoal
  <2>1. \A i \in Item : /\ f[i] \in Int /\ g[i] \in Int /\ h[i] = f[i] + g[i]
    <3>1. ASSUME NEW i \in Item
          PROVE  /\ item[i].paid \in Nat /\ Share(amount, i) \in Nat
                 /\ item'[i].paid = item[i].paid + Share(amount, i)
      BY <1>3, <1>4, ItemsTyped, SharesAddUp DEF OrderInv
    <3>. QED
      BY <3>1
  <2>2. IsFiniteSet(Item) /\ DOMAIN f = Item /\ DOMAIN h = Item
    BY SavingsAssumption, FS_Interval DEF Item
  <2>3. SumFunctionOnSet(g, Item) <= amount
    BY <1>3, SharesAddUp
  <2>4. SumFunction(f) <= SumFunctionOnSet(Amount, before)
    BY DEF OrderInv, EarliestFirst
  <2>5. applied' \ ForGoal = before \cup {m} /\ m \notin before
    BY <1>1
  <2>6. IsFiniteSet(before) /\ before \subseteq Payment
    BY FS_Subset DEF OrderInv, TypeOK, RowsOK
  <2>. HIDE DEF f, g, h, before
  <2>7. SumFunctionOnSet(h, Item) = SumFunctionOnSet(f, Item) + SumFunctionOnSet(g, Item)
    BY <2>1, <2>2, SumPlus
  <2>8. /\ SumFunctionOnSet(f, Item) \in Int /\ SumFunctionOnSet(g, Item) \in Int
        /\ SumFunctionOnSet(Amount, before) \in Int
    BY <2>1, <2>2, <2>6, SumInt, AmountsPositive
  <2>9. SumFunctionOnSet(Amount, before \cup {m})
          = amount + SumFunctionOnSet(Amount, before)
    <3>1. \A x \in before \cup {m} : Amount[x] \in Int
      BY <2>6, AmountsPositive
    <3>. QED
      BY <2>5, <2>6, <3>1, SumAdd DEF amount
  <2>10. SumFunction(h) <= SumFunctionOnSet(Amount, before \cup {m})
    BY <1>3, <2>2, <2>3, <2>4, <2>7, <2>8, <2>9 DEF SumFunction
  <2>. QED
    BY <2>5, <2>10 DEF h
<1>8. CancelledIsClosed'
  BY <1>4 DEF CancelledIsClosed
<1>. QED
  BY <1>4, <1>5, <1>6, <1>7, <1>8 DEF EarliestFirst

\* A step that leaves the amounts and the payments alone keeps their order.
LEMMA SameAmounts ==
  ASSUME OrderInv, applied' \ ForGoal = applied \ ForGoal,
         \A i \in Item : item'[i].paid = item[i].paid
  PROVE  EarliestFirst'
<1>1. [i \in Item |-> item'[i].paid] = [i \in Item |-> item[i].paid]
  OBVIOUS
<1>. QED
  BY <1>1 DEF OrderInv, EarliestFirst

\* A step that rewrites statuses.
LEMMA RemarkKeeps ==
  ASSUME OrderInv, NEW from, NEW to \in ItemStatus, NEW late, Remark(from, to, late)
  PROVE  /\ item' \in [Item -> ScheduleItem]
         /\ \A i \in Item : /\ item'[i].paid = item[i].paid
                            /\ item'[i].status = "CANCELLED" =>
                                 to = "CANCELLED" \/ item[i].status = "CANCELLED"
<1>1. ASSUME NEW i \in Item
      PROVE  /\ item'[i] \in ScheduleItem /\ item'[i].paid = item[i].paid
             /\ item'[i].status \in {to, item[i].status}
  <2>1. item[i] \in ScheduleItem
    BY ItemsTyped DEF OrderInv
  <2>2. item'[i] = [item[i] EXCEPT !.status = to] \/ item'[i] = item[i]
    BY DEF Remark
  <2>. QED
    BY <2>1, <2>2 DEF ScheduleItem
<1>2. item' = [i \in Item |-> item'[i]]
  BY DEF Remark
<1>. QED
  BY <1>1, <1>2

\* Every step keeps the items filled in order.
LEMMA OrderInductive ==
  ASSUME [Next]_vars, OrderInv, MoneyInv
  PROVE  OrderInv'
<1>1. RowsOK' /\ ScheduleInv'
  BY MoneyInductive, ScheduleInductive DEF OrderInv, MoneyInv
<1>. SUFFICES /\ item' \in [Item -> ScheduleItem]
              /\ CancelledIsClosed' /\ IsFiniteSet(applied') /\ EarliestFirst'
  BY <1>1 DEF OrderInv, TypeOK
<1>2. CASE Contribute
  BY <1>2, ContributeInOrder
<1>3. CASE FundGoal \/ FundGoalAgain
  <2>1. /\ applied' \ ForGoal = applied \ ForGoal
        /\ applied' = applied \/ \E m \in ForGoal : applied' = applied \cup {m}
    BY <1>3 DEF FundGoal, FundGoalAgain
  <2>2. item' = item /\ plan' = plan
    BY <1>3 DEF FundGoal, FundGoalAgain, CreditGoal
  <2>3. EarliestFirst'
    BY <2>1, <2>2, SameAmounts
  <2>4. IsFiniteSet(applied')
    BY <2>1, FS_AddElement DEF OrderInv
  <2>. QED
    BY <2>2, <2>3, <2>4 DEF OrderInv, TypeOK, CancelledIsClosed
<1>4. CASE \E w \in Worker : CancelWrites(w)
  <2>1. /\ applied' = applied /\ plan'.status \notin Open
        /\ Remark("UPCOMING", "CANCELLED", Item)
    <3>1. plan \in Plan
      BY DEF OrderInv, TypeOK, RowsOK
    <3>. QED
      BY <1>4, <3>1 DEF CancelWrites, Remark, Plan, Open
  <2>2. "CANCELLED" \in ItemStatus
    BY DEF ItemStatus
  <2>. QED
    BY <2>1, <2>2, RemarkKeeps, SameAmounts DEF OrderInv, CancelledIsClosed
<1>5. CASE RefreshDue \/ RefreshMissed
  <2>1. applied' = applied /\ plan' = plan
    BY <1>5 DEF RefreshDue, RefreshMissed
  <2>2. PICK to \in {"DUE", "MISSED"} : \E from, late : Remark(from, to, late)
    BY <1>5 DEF RefreshDue, RefreshMissed
  <2>3. to \in ItemStatus /\ to # "CANCELLED"
    BY DEF ItemStatus
  <2>. QED
    BY <2>1, <2>2, <2>3, RemarkKeeps, SameAmounts DEF OrderInv, CancelledIsClosed
<1>6. CASE UNCHANGED <<applied, item>> /\ plan'.status \in {"COMPLETED", plan.status}
  <2>1. EarliestFirst'
    BY <1>6, SameAmounts
  <2>. QED
    BY <1>6, <2>1 DEF OrderInv, TypeOK, CancelledIsClosed, Open
<1>7. ASSUME NEW w \in Worker, PayoutPays(w)
      PROVE  UNCHANGED <<applied, item>> /\ plan'.status = plan.status
  BY <1>7 DEF PayoutPays, OrderInv, TypeOK, RowsOK, Plan
<1>8. ASSUME RefreshComplete
      PROVE  UNCHANGED <<applied, item>> /\ plan'.status \in {"COMPLETED", plan.status}
  BY <1>8 DEF RefreshComplete, OrderInv, TypeOK, RowsOK, Plan
<1>. QED
  BY <1>2, <1>3, <1>4, <1>5, <1>6, <1>7, <1>8
  DEF Next, vars, RequestPayout, Tick, RefreshScan, RefreshDies, CancelReads,
      PayoutReads, GoalReads, UpdateGoal, DeleteGoal, Abandon

\* At the beginning nothing is paid.
LEMMA OrderInit == Init => OrderInv
<1>. SUFFICES ASSUME Init PROVE OrderInv
  OBVIOUS
<1>. DEFINE f == [i \in Item |-> item[i].paid]
<1>0. \A i \in Item : item[i] = [status |-> "UPCOMING", paid |-> 0]
  BY DEF Init
<1>1. item \in [Item -> ScheduleItem]
  <2>1. [status |-> "UPCOMING", paid |-> 0] \in ScheduleItem
    BY SavingsAssumption DEF ScheduleItem, ItemStatus
  <2>. QED
    BY <2>1 DEF Init
<1>2. RowsOK
  BY MoneyInit DEF MoneyInv
<1>3. applied = {} /\ IsFiniteSet(applied)
  BY FS_EmptySet DEF Init
<1>4. SumFunction(f) = 0 /\ SumFunctionOnSet(Amount, applied \ ForGoal) = 0
  <2>1. \A i \in Item : f[i] = 0
    BY <1>0
  <2>2. DOMAIN f = Item /\ IsFiniteSet(Item)
    BY SavingsAssumption, FS_Interval DEF Item
  <2>3. applied \ ForGoal = {}
    BY <1>3
  <2>. HIDE DEF f
  <2>4. SumFunctionOnSet(f, Item) = 0
    BY <2>1, <2>2, SumZero
  <2>. QED
    BY <2>2, <2>3, <2>4, SumEmpty DEF SumFunction
<1>5. EarliestFirst
  BY <1>0, <1>4 DEF EarliestFirst
<1>6. ScheduleInv
  BY DEF Init, NewGoal, ScheduleInv, Complete
<1>. QED
  BY <1>0, <1>1, <1>2, <1>3, <1>5, <1>6 DEF OrderInv, TypeOK, CancelledIsClosed

\* A plan keeps its types, and its items are filled from the earliest on.
THEOREM OrderSound == Spec => []OrderInv
<1>1. Init => MoneyInv /\ OrderInv
  BY MoneyInit, OrderInit
<1>2. (MoneyInv /\ OrderInv) /\ [Next]_vars => (MoneyInv /\ OrderInv)'
  BY MoneyInductive, OrderInductive
<1>. QED BY <1>1, <1>2, PTL DEF Spec

\* Every row keeps its shape; no item is paid more than its amount.
THEOREM SavingsTyped == Spec => []TypeOK
<1>1. OrderInv => TypeOK
  BY DEF OrderInv
<1>. QED BY <1>1, OrderSound, PTL

\* Contributions fill the schedule from its start, and with no more than the
\* customer contributed.
THEOREM FilledInOrder == Spec => []EarliestFirst
<1>1. OrderInv => EarliestFirst
  BY DEF OrderInv
<1>. QED BY <1>1, OrderSound, PTL
=============================================================================
