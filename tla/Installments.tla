---------------------------- MODULE Installments ----------------------------
(***************************************************************************)
(* The arithmetic of apps/loans/calculations.py on amounts in kobo: the    *)
(* repayment schedules and the allocation of a repayment to what is due.   *)
(* Decimal carries 28 digits, so each formula is exact until money() rounds *)
(* it.  Rates are percent a year.                                          *)
(***************************************************************************)
EXTENDS Integers, Sequences, FiniteSetsExt

\* money(n / d) for a numerator that is not negative: ROUND_HALF_UP.
Quotient(n, d) == (2 * n + d) \div (2 * d)

\* compute_flat_interest: principal * rate / 100 * term / 12
FlatInterest(principal, rate, term) == Quotient(principal * rate * term, 1200)

\* One amount over the terms, the last of which takes the remainder.
Part(amount, term, i) ==
  IF i < term THEN Quotient(amount, term)
  ELSE amount - (term - 1) * Quotient(amount, term)

\* _monthly_rate, in lowest terms.
MonthlyRate(rate) ==
  LET common == Max({d \in 1..rate : rate % d = 0 /\ 1200 % d = 0})
  IN [num |-> rate \div common, den |-> 1200 \div common]

\* (1 + r) ** n, of numerator or denominator.
Power(base, n) ==
  LET power[k \in 0..n] == IF k = 0 THEN 1 ELSE base * power[k - 1]
  IN power[n]

\* compute_declining_schedule: one instalment for the whole term, of which the
\* interest on the balance is taken first; the last line takes what is left of
\* the principal.
Amortized(principal, rate, term) ==
  LET r == MonthlyRate(rate)
      factor == [num |-> Power(r.den + r.num, term), den |-> Power(r.den, term)]
      installment == Quotient(principal * r.num * factor.num,
                              r.den * (factor.num - factor.den))
      Interest(balance) == Quotient(balance * r.num, r.den)
      balance[i \in 0..term] ==
        IF i = 0 THEN [left |-> principal, interest |-> 0]
        ELSE LET before == balance[i - 1].left
                 interest == Interest(before)
             IN [left |-> before - Min({installment - interest, before}),
                 interest |-> interest]
  IN balance

DecliningSchedule(principal, rate, term) ==
  IF rate = 0
  THEN [i \in 1..term |-> [principal |-> Part(principal, term, i), interest |-> 0]]
  ELSE LET balance == Amortized(principal, rate, term)
       IN [i \in 1..term |->
             [principal |-> balance[i - 1].left
                              - (IF i = term THEN 0 ELSE balance[i].left),
              interest |-> balance[i].interest]]

\* compute_schedule; the due dates are left out.
Schedule(method, principal, rate, term) ==
  IF method = "DECLINING_BALANCE" THEN DecliningSchedule(principal, rate, term)
  ELSE LET interest == FlatInterest(principal, rate, term)
       IN [i \in 1..term |-> [principal |-> Part(principal, term, i),
                              interest |-> Part(interest, term, i)]]

TotalPrincipal(schedule) ==
  SumFunction([i \in DOMAIN schedule |-> schedule[i].principal])

TotalInterest(schedule) ==
  SumFunction([i \in DOMAIN schedule |-> schedule[i].interest])

\* compute_total_repayable
TotalRepayable(schedule) ==
  SumFunction([i \in DOMAIN schedule |-> schedule[i].principal + schedule[i].interest])

\* allocate_repayment: each bucket in order takes what it can.  What is left
\* when the turn of bucket number i comes, then what each bucket takes.
LeftFor(amount, due, order) ==
  LET left[i \in 1..Len(order) + 1] ==
        IF i = 1 THEN amount
        ELSE left[i - 1] - Min({left[i - 1], due[order[i - 1]]})
  IN left

Allocate(amount, due, order) ==
  [b \in DOMAIN due |->
     LET i == CHOOSE n \in DOMAIN order : order[n] = b
     IN Min({LeftFor(amount, due, order)[i], due[b]})]
=============================================================================
