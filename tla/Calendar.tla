------------------------------ MODULE Calendar ------------------------------
(***************************************************************************)
(* Steps of the real calendar (apps/core/calendar_utils.py) and the due    *)
(* dates that savings plans and loans make of them.  The steps of single   *)
(* months and days are dateutil's relativedelta, given here by what it     *)
(* does; the restoration of the day a schedule began on is the program's.  *)
(***************************************************************************)
EXTENDS Integers, Sequences

CONSTANTS
  Starts,     \* first due dates
  MaxLength   \* bound on the number of due dates of a schedule

VARIABLES
  frequency,  \* of the schedule that is being generated
  dates       \* due dates so far, the first of which is the anchor

Frequency == {"DAILY", "WEEKLY", "MONTHLY", "QUARTERLY", "BIYEARLY", "YEARLY"}

\* _MONTHS_PER_PERIOD
MonthsPerPeriod == [MONTHLY |-> 1, QUARTERLY |-> 3, BIYEARLY |-> 6, YEARLY |-> 12]

Leap(y) == y % 4 = 0 /\ (y % 100 # 0 \/ y % 400 = 0)

DaysIn(y, m) ==
  IF m = 2 THEN IF Leap(y) THEN 29 ELSE 28
  ELSE IF m \in {4, 6, 9, 11} THEN 30 ELSE 31

\* Months since the year 0, and the year and month of such a number.
MonthNumber(d) == d.year * 12 + d.month - 1
LastOf(n) == DaysIn(n \div 12, (n % 12) + 1)
Exists(n, day) == day <= LastOf(n)
InMonth(n, day) == [year |-> n \div 12, month |-> (n % 12) + 1, day |-> day]

\* What a datetime.date can be.
ADate(d) ==
  /\ d = [year |-> d.year, month |-> d.month, day |-> d.day]
  /\ d.year \in Nat /\ d.month \in 1..12 /\ d.day \in 1..DaysIn(d.year, d.month)

ASSUME CalendarAssumption == MaxLength \in Nat \ {0} /\ \A d \in Starts : ADate(d)

\* relativedelta(months=n): the day is clamped to the end of the month.
PlusMonths(d, n) ==
  LET to == MonthNumber(d) + n
  IN IF Exists(to, d.day) THEN InMonth(to, d.day)
     ELSE InMonth(to, LastOf(to))

\* relativedelta(days=n), n no longer than a month.
PlusDays(d, n) ==
  LET over == d.day + n - DaysIn(d.year, d.month)
  IN IF over <= 0 THEN [d EXCEPT !.day = d.day + n]
     ELSE InMonth(MonthNumber(d) + 1, over)

\* Mutant: the day stays where a short month put it.
RestoredNever(anchor, next) == next

\* next_date.replace(day=target_day), unless that month has no such day.
Restored(anchor, next) ==
  IF next.day < anchor.day /\ Exists(MonthNumber(next), anchor.day)
  THEN [next EXCEPT !.day = anchor.day]
  ELSE next

\* add_calendar_step
Step(anchor, current, every) ==
  CASE every = "DAILY" -> PlusDays(current, 1)
    [] every = "WEEKLY" -> PlusDays(current, 7)
    [] OTHER ->
         LET months == MonthsPerPeriod[every]
             next == PlusMonths(current, months)
         IN IF (MonthNumber(next) - MonthNumber(anchor)) % months = 0
            THEN Restored(anchor, next)
            ELSE next
-----------------------------------------------------------------------------
CalendarInit ==
  /\ frequency \in Frequency
  /\ \E start \in Starts : dates = <<start>>

\* One round of the loops of generate_due_dates and compute_schedule; where the
\* last date or the number of terms ends them, a schedule is one of these.
AddDueDate ==
  /\ Len(dates) < MaxLength
  /\ dates' = Append(dates, Step(dates[1], dates[Len(dates)], frequency))
  /\ UNCHANGED frequency

CalendarNext == AddDueDate
-----------------------------------------------------------------------------
CalendarTypeOK ==
  /\ frequency \in Frequency
  /\ Len(dates) \in 0..MaxLength

\* "Without this, schedules drift to month-ends forever after a short month"
\* (the head of calendar_utils.py): however many short months and leap years
\* a schedule has passed, its next date is the one that counting periods from
\* its first date gives, on that date's day wherever the month has it; a
\* schedule of days or weeks steps by that many days; no date comes twice.
DatesKeepTheirDay ==
  \A n \in 2..Len(dates) :
    /\ frequency \in DOMAIN MonthsPerPeriod =>
         dates[n] = PlusMonths(dates[1], (n - 1) * MonthsPerPeriod[frequency])
    /\ frequency = "DAILY" => dates[n] = PlusDays(dates[n - 1], 1)
    /\ frequency = "WEEKLY" => dates[n] = PlusDays(dates[n - 1], 7)
    /\ \/ MonthNumber(dates[n - 1]) < MonthNumber(dates[n])
       \/ /\ MonthNumber(dates[n - 1]) = MonthNumber(dates[n])
          /\ dates[n - 1].day < dates[n].day
=============================================================================
