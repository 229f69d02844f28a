---------------------------- MODULE LoansProofs ----------------------------
(***************************************************************************)
(* Proofs about Loans, for any principals, terms, rate, payments and number *)
(* of workers: the arithmetic of the schedules, then the decisions taken    *)
(* from old copies, then the two records of a debt.                         *)
(***************************************************************************)
EXTENDS Loans, SumTheorems

Positive == Nat \ {0}
-----------------------------------------------------------------------------
(***************************************************************************)
(* The arithmetic.                                                         *)
(***************************************************************************)
LEMMA QuotientNat ==
  ASSUME NEW n \in Nat, NEW d \in Positive
  PROVE  Quotient(n, d) \in Nat
<1>. DEFINE a == 2 * n + d
            b == 2 * d
<1>1. a \in Nat /\ b \in Nat /\ b > 0
  BY DEF Positive
<1>. HIDE DEF a, b
<1>2. a \div b \in Nat
  BY <1>1
<1>. QED
  BY <1>2 DEF Quotient, a, b

\* The parts of an amount add up to it: the last takes the remainder.
LEMMA PartsAddUp ==
  ASSUME NEW amount \in Nat, NEW term \in Positive,
         NEW f, \A i \in 1..term : f[i] = Part(amount, term, i)
  PROVE  /\ \A i \in 1..term : f[i] \in Int
         /\ SumFunctionOnSet(f, 1..term) = amount
<1>. DEFINE q == Quotient(amount, term)
            x == [i \in 0..term |-> IF i < term THEN amount - i * q ELSE 0]
<1>1. q \in Nat /\ term \in Nat /\ term > 0
  BY QuotientNat DEF Positive
<1>2. \A i \in 1..term : f[i] = IF i < term THEN q ELSE amount - (term - 1) * q
  BY DEF Part
<1>. HIDE DEF q
<1>3. \A i \in 0..term : x[i] \in Int
  BY <1>1
<1>4. ASSUME NEW i \in 1..term
      PROVE  f[i] \in Int /\ f[i] = x[i - 1] - x[i]
  <2>1. i \in Nat /\ i - 1 \in 0..term /\ i - 1 < term /\ i \in 0..term
    BY <1>1
  <2>2. x[i - 1] = amount - (i - 1) * q
    BY <2>1
  <2>3. CASE i < term
    <3>1. x[i] = amount - i * q /\ f[i] = q
      BY <1>2, <2>1, <2>3
    <3>2. (i - 1) * q = i * q - q /\ i * q \in Int
      BY <1>1, <2>1
    <3>. QED
      BY <1>1, <2>2, <3>1, <3>2
  <2>4. CASE ~(i < term)
    <3>1. i = term /\ x[i] = 0 /\ f[i] = amount - (term - 1) * q
      BY <1>1, <1>2, <2>1, <2>4
    <3>2. (term - 1) * q \in Int
      BY <1>1
    <3>. QED
      BY <2>2, <3>1, <3>2
  <2>. QED
    BY <2>3, <2>4
<1>5. x[0] = amount /\ x[term] = 0
  BY <1>1
<1>. HIDE DEF x
<1>6. SumFunctionOnSet(f, 1..term) = x[0] - x[term]
  BY <1>1, <1>3, <1>4, Telescopes
<1>. QED
  BY <1>4, <1>5, <1>6

\* The product of positive numbers is positive.
LEMMA TimesPositive ==
  ASSUME NEW m \in Nat, NEW n \in Nat, m >= 1, n >= 1
  PROVE  m * n >= 1
<1>. DEFINE k == m - 1
<1>1. k \in Nat /\ m = k + 1
  OBVIOUS
<1>. HIDE DEF k
<1>2. k * n \in Nat
  BY <1>1
<1>3. m * n = k * n + n
  BY <1>1
<1>. QED
  BY <1>2, <1>3

\* Powers are numbers, and grow with their base.
LEMMA PowerIs ==
  ASSUME NEW b \in Nat, NEW n \in Nat
  PROVE  \E f \in [0..n -> Nat] : /\ f[0] = 1
                                  /\ \A i \in 1..n : f[i] = b * f[i - 1]
                                  /\ Power(b, n) = f[n]
<1>. DEFINE times == [v \in Nat |-> b * v]
            Solves(f) == f = [k \in 0..n |-> IF k = 0 THEN 1 ELSE b * f[k - 1]]
<1>1. Steps(Nat, times)
  BY DEF Steps
<1>2. PICK f \in [0..n -> Nat] :
        \A i \in 0..n : f[i] = IF i = 0 THEN 1 ELSE times[f[i - 1]]
  <2>. HIDE DEF times
  <2>1. \E f \in [0..n -> Nat] : Iterated(f, n, 1, times)
    BY <1>1, 1 \in Nat, Iterates
  <2>. QED
    BY <2>1 DEF Iterated
<1>3. Solves(f)
  <2>1. ASSUME NEW i \in 0..n
        PROVE  f[i] = IF i = 0 THEN 1 ELSE b * f[i - 1]
    <3>1. i # 0 => i - 1 \in 0..n /\ f[i - 1] \in Nat
      OBVIOUS
    <3>. QED
      BY <1>2, <3>1
  <2>. QED
    BY <2>1
<1>. DEFINE power == CHOOSE g : Solves(g)
<1>4. Solves(power)
  BY <1>3
<1>5. Power(b, n) = power[n]
  BY DEF Power
<1>. HIDE DEF power
<1>6. \A i \in 0..n : power[i] = IF i = 0 THEN 1 ELSE b * power[i - 1]
  BY <1>4
<1>. DEFINE P == {i \in 0..n : power[i] \in Nat}
<1>7. \A i \in 0..n : i \in P
  <2>1. 0 \in P
    BY <1>6
  <2>2. ASSUME NEW i \in 0..(n - 1), i \in P
        PROVE  i + 1 \in P
    <3>1. i + 1 \in 0..n /\ i + 1 # 0 /\ (i + 1) - 1 = i
      OBVIOUS
    <3>2. power[i + 1] = b * power[i]
      BY <1>6, <3>1
    <3>. QED
      BY <2>2, <3>1, <3>2
  <2>. HIDE DEF P
  <2>. QED
    BY <2>1, <2>2, UpTo
<1>8. power \in [0..n -> Nat]
  BY <1>4, <1>7
<1>9. power[0] = 1 /\ \A i \in 1..n : power[i] = b * power[i - 1]
  BY <1>6
<1>. QED
  BY <1>5, <1>8, <1>9

\* Powers of a greater base are greater.
LEMMA PowerGrows ==
  ASSUME NEW b \in Nat, NEW c \in Positive, b > c, NEW n \in Positive
  PROVE  /\ Power(b, n) \in Nat /\ Power(c, n) \in Positive
         /\ Power(b, n) > Power(c, n)
<1>0. n \in Nat /\ n >= 1 /\ c \in Nat /\ c >= 1
  BY DEF Positive
<1>1. PICK f \in [0..n -> Nat] : /\ f[0] = 1
                                 /\ \A i \in 1..n : f[i] = b * f[i - 1]
                                 /\ Power(b, n) = f[n]
  BY <1>0, PowerIs
<1>2. PICK g \in [0..n -> Nat] : /\ g[0] = 1
                                 /\ \A i \in 1..n : g[i] = c * g[i - 1]
                                 /\ Power(c, n) = g[n]
  BY <1>0, PowerIs
<1>. DEFINE P == {i \in 0..n : /\ g[i] >= 1 /\ f[i] >= g[i]
                               /\ i # 0 => f[i] > g[i]}
<1>3. \A i \in 0..n : i \in P
  <2>1. 0 \in P
    BY <1>0, <1>1, <1>2
  <2>2. ASSUME NEW i \in 0..(n - 1), i \in P
        PROVE  i + 1 \in P
    <3>. DEFINE x == f[i]
                y == g[i]
    <3>1. i + 1 \in 1..n /\ i + 1 \in 0..n /\ (i + 1) - 1 = i /\ i \in 0..n
      BY <1>0
    <3>2. f[i + 1] = b * x /\ g[i + 1] = c * y
      BY <1>1, <1>2, <3>1
    <3>3. x \in Nat /\ y \in Nat /\ y >= 1 /\ x >= y
      BY <1>1, <1>2, <2>2, <3>1
    <3>. HIDE DEF x, y
    <3>4. b * x >= b * y
      BY <3>3
    <3>5. b * y > c * y
      BY <1>0, <3>3
    <3>6. c * y >= 1
      BY <1>0, <3>3, TimesPositive
    <3>7. b * x \in Nat /\ b * y \in Nat /\ c * y \in Nat
      BY <1>0, <3>3
    <3>. QED
      BY <3>1, <3>2, <3>4, <3>5, <3>6, <3>7
  <2>. HIDE DEF P
  <2>. QED
    BY <1>0, <2>1, <2>2, UpTo
<1>4. n \in P /\ n # 0
  BY <1>0, <1>3
<1>. QED
  BY <1>0, <1>1, <1>2, <1>4 DEF Positive

\* The monthly rate is a fraction of positive numbers.
LEMMA MonthlyRateIs ==
  ASSUME NEW rate \in Positive
  PROVE  MonthlyRate(rate).num \in Positive /\ MonthlyRate(rate).den \in Positive
<1>. DEFINE S == {d \in 1..rate : rate % d = 0 /\ 1200 % d = 0}
            common == Max(S)
<1>0. rate \in Nat /\ rate >= 1
  BY DEF Positive
<1>1. S \in SUBSET (1..rate) /\ 1 \in S
  BY <1>0
<1>2. common \in S
  <2>. HIDE DEF S
  <2>. QED
    BY <1>0, <1>1, MaxOf
<1>3. common \in 1..rate /\ rate % common = 0 /\ 1200 % common = 0
  BY <1>2
<1>4. MonthlyRate(rate) = [num |-> rate \div common, den |-> 1200 \div common]
  BY DEF MonthlyRate
<1>. HIDE DEF common
<1>5. ASSUME NEW a \in Nat, a >= 1, a % common = 0
      PROVE  a \div common \in Positive
  <2>. DEFINE q == a \div common
  <2>1. q \in Int /\ a = common * q + (a % common)
    BY <1>0, <1>3
  <2>. HIDE DEF q
  <2>2. q >= 1
    BY <1>3, <1>5, <2>1
  <2>. QED
    BY <2>1, <2>2 DEF Positive, q
<1>. QED
  BY <1>0, <1>3, <1>4, <1>5

\* The balance of a declining schedule is never negative, nor the interest on
\* it, however the instalment was rounded.
LEMMA AmortizedIs ==
  ASSUME NEW principal \in Nat, NEW rate \in Positive, NEW term \in Positive
  PROVE  /\ Amortized(principal, rate, term)[0].left = principal
         /\ \A i \in 0..term : /\ Amortized(principal, rate, term)[i].left \in Nat
                               /\ Amortized(principal, rate, term)[i].interest \in Nat
<1>. DEFINE r == MonthlyRate(rate)
            factor == [num |-> Power(r.den + r.num, term), den |-> Power(r.den, term)]
            installment == Quotient(principal * r.num * factor.num,
                                    r.den * (factor.num - factor.den))
            Interest(balance) == Quotient(balance * r.num, r.den)
            start == [left |-> principal, interest |-> 0]
            After(v) == [left |-> v.left - Min({installment - Interest(v.left), v.left}),
                         interest |-> Interest(v.left)]
            Balances(g) == [i \in 0..term |-> IF i = 0 THEN start ELSE After(g[i - 1])]
            balance == CHOOSE g : g = Balances(g)
            Account == [left : Nat, interest : Nat]
            month == [v \in Account |-> After(v)]
<1>1. Amortized(principal, rate, term) = balance
  BY DEF Amortized
<1>2. installment \in Nat
  <2>1. r.num \in Positive /\ r.den \in Positive
    BY MonthlyRateIs
  <2>. HIDE DEF r
  <2>2. r.den + r.num \in Nat /\ r.den + r.num > r.den
    BY <2>1 DEF Positive
  <2>3. factor.num \in Nat /\ factor.den \in Positive /\ factor.num > factor.den
    BY <2>1, <2>2, PowerGrows
  <2>. DEFINE more == factor.num - factor.den
              top == principal * r.num * factor.num
              bottom == r.den * more
  <2>4. more \in Nat /\ more >= 1
    BY <2>3 DEF Positive
  <2>5. top \in Nat
    <3>1. principal * r.num \in Nat
      BY <2>1 DEF Positive
    <3>. QED
      BY <2>3, <3>1
  <2>. HIDE DEF more
  <2>6. bottom \in Positive
    BY <2>1, <2>4, TimesPositive DEF Positive
  <2>. HIDE DEF top, bottom
  <2>7. Quotient(top, bottom) \in Nat
    BY <2>5, <2>6, QuotientNat
  <2>. QED
    BY <2>7 DEF top, bottom, more
<1>3. ASSUME NEW x \in Nat
      PROVE  Interest(x) \in Nat
  <2>1. r.num \in Positive /\ r.den \in Positive
    BY MonthlyRateIs
  <2>. HIDE DEF r
  <2>2. x * r.num \in Nat
    BY <2>1 DEF Positive
  <2>. QED
    BY <2>1, <2>2, QuotientNat
<1>. HIDE DEF installment, Interest
<1>4. ASSUME NEW v \in Account
      PROVE  After(v) \in Account
  <2>. DEFINE part == installment - Interest(v.left)
  <2>1. v.left \in Nat /\ Interest(v.left) \in Nat /\ part \in Int
    BY <1>2, <1>3
  <2>. HIDE DEF part
  <2>2. Min({part, v.left}) = IF part <= v.left THEN part ELSE v.left
    BY <2>1, MaxMin
  <2>3. v.left - Min({part, v.left}) \in Nat
    BY <2>1, <2>2
  <2>. QED
    BY <2>1, <2>3 DEF part
<1>5. start \in Account
  OBVIOUS
<1>. HIDE DEF After
<1>6. PICK f \in [0..term -> Account] : Iterated(f, term, start, month)
  <2>1. Steps(Account, month)
    BY <1>4 DEF Steps
  <2>. HIDE DEF Account, month, start
  <2>. QED
    BY <1>5, <2>1, Iterates DEF Positive
<1>. HIDE DEF Account, start
<1>7. f = Balances(f)
  <2>1. ASSUME NEW i \in 0..term
        PROVE  f[i] = IF i = 0 THEN start ELSE After(f[i - 1])
    <3>1. i # 0 => i - 1 \in 0..term /\ f[i - 1] \in Account
      BY DEF Positive
    <3>. QED
      BY <1>6, <3>1 DEF Iterated
  <2>. QED
    BY <2>1
<1>8. balance = Balances(balance)
  BY <1>7
<1>. HIDE DEF balance
<1>9. \A i \in 0..term : balance[i] = IF i = 0 THEN start ELSE After(balance[i - 1])
  BY <1>8
<1>. DEFINE P == {i \in 0..term : balance[i] \in Account}
<1>10. \A i \in 0..term : i \in P
  <2>1. 0 \in P
    BY <1>5, <1>9 DEF Positive
  <2>2. ASSUME NEW i \in 0..(term - 1), i \in P
        PROVE  i + 1 \in P
    <3>1. i + 1 \in 0..term /\ i + 1 # 0 /\ (i + 1) - 1 = i
      BY DEF Positive
    <3>2. balance[i + 1] = After(balance[i])
      BY <1>9, <3>1
    <3>. QED
      BY <1>4, <2>2, <3>1, <3>2
  <2>. HIDE DEF P
  <2>. QED
    BY <2>1, <2>2, UpTo DEF Positive
<1>11. \A i \in 0..term : balance[i].left \in Nat /\ balance[i].interest \in Nat
  BY <1>10 DEF Account
<1>12. balance[0].left = principal
  BY <1>9 DEF start, Positive
<1>. QED
  BY <1>1, <1>11, <1>12

\* What the lines of every schedule add up to: the principal to the kobo, and
\* interest that under FLAT is the flat interest.
LEMMA ScheduleAddsUp ==
  ASSUME NEW method, NEW principal \in Nat, NEW rate \in Nat, NEW term \in Positive,
         NEW lines, lines = Schedule(method, principal, rate, term)
  PROVE  /\ DOMAIN lines = 1..term
         /\ \A i \in 1..term : lines[i].principal \in Int /\ lines[i].interest \in Int
         /\ TotalPrincipal(lines) = principal
         /\ TotalInterest(lines) \in Nat
         /\ method # "DECLINING_BALANCE" =>
              TotalInterest(lines) = FlatInterest(principal, rate, term)
         /\ TotalRepayable(lines) = principal + TotalInterest(lines)
<1>. DEFINE P == [i \in DOMAIN lines |-> lines[i].principal]
            I == [i \in DOMAIN lines |-> lines[i].interest]
            A == [i \in DOMAIN lines |-> lines[i].principal + lines[i].interest]
<1>0. term \in Nat /\ term >= 1 /\ IsFiniteSet(1..term)
  BY FS_Interval DEF Positive
<1>1. FlatInterest(principal, rate, term) \in Nat
  <2>1. principal * rate \in Nat
    OBVIOUS
  <2>2. principal * rate * term \in Nat /\ 1200 \in Positive
    BY <1>0, <2>1 DEF Positive
  <2>. QED
    BY <2>2, QuotientNat DEF FlatInterest
<1>2. /\ DOMAIN lines = 1..term
      /\ \A i \in 1..term : P[i] \in Int /\ I[i] \in Int
      /\ SumFunctionOnSet(P, 1..term) = principal
      /\ SumFunctionOnSet(I, 1..term) \in Nat
      /\ method # "DECLINING_BALANCE" =>
           SumFunctionOnSet(I, 1..term) = FlatInterest(principal, rate, term)
  <2>1. CASE method # "DECLINING_BALANCE"
    <3>. DEFINE interest == FlatInterest(principal, rate, term)
    <3>1. lines = [i \in 1..term |-> [principal |-> Part(principal, term, i),
                                      interest |-> Part(interest, term, i)]]
      BY <2>1 DEF Schedule
    <3>. HIDE DEF interest
    <3>2. /\ DOMAIN lines = 1..term
          /\ \A i \in 1..term : /\ P[i] = Part(principal, term, i)
                                /\ I[i] = Part(interest, term, i)
      BY <3>1
    <3>. HIDE DEF P, I
    <3>3. interest \in Nat
      BY <1>1 DEF interest
    <3>4. /\ \A i \in 1..term : P[i] \in Int
          /\ SumFunctionOnSet(P, 1..term) = principal
      BY <3>2, PartsAddUp
    <3>5. /\ \A i \in 1..term : I[i] \in Int
          /\ SumFunctionOnSet(I, 1..term) = interest
      BY <3>2, <3>3, PartsAddUp
    <3>. QED
      BY <3>2, <3>3, <3>4, <3>5 DEF interest
  <2>2. CASE method = "DECLINING_BALANCE" /\ rate = 0
    <3>1. lines = [i \in 1..term |-> [principal |-> Part(principal, term, i),
                                      interest |-> 0]]
      BY <2>2 DEF Schedule, DecliningSchedule
    <3>2. /\ DOMAIN lines = 1..term
          /\ \A i \in 1..term : P[i] = Part(principal, term, i) /\ I[i] = 0
      BY <3>1
    <3>. HIDE DEF P, I
    <3>3. /\ \A i \in 1..term : P[i] \in Int
          /\ SumFunctionOnSet(P, 1..term) = principal
      BY <3>2, PartsAddUp
    <3>4. SumFunctionOnSet(I, 1..term) = 0
      BY <1>0, <3>2, SumZero
    <3>. QED
      BY <2>2, <3>2, <3>3, <3>4
  <2>3. CASE method = "DECLINING_BALANCE" /\ rate # 0
    <3>. DEFINE balance == Amortized(principal, rate, term)
                x == [i \in 0..term |-> IF i = term THEN 0 ELSE balance[i].left]
    <3>1. lines = [i \in 1..term |->
                     [principal |-> balance[i - 1].left
                                      - (IF i = term THEN 0 ELSE balance[i].left),
                      interest |-> balance[i].interest]]
      BY <2>3 DEF Schedule, DecliningSchedule
    <3>2. /\ balance[0].left = principal
          /\ \A i \in 0..term : balance[i].left \in Nat /\ balance[i].interest \in Nat
      BY <2>3, AmortizedIs DEF Positive
    <3>. HIDE DEF balance
    <3>3. /\ \A i \in 0..term : x[i] \in Int
          /\ x[0] = principal /\ x[term] = 0
      BY <1>0, <3>2
    <3>4. ASSUME NEW i \in 1..term
          PROVE  P[i] = x[i - 1] - x[i] /\ P[i] \in Int /\ I[i] \in Nat
      <4>1. i - 1 \in 0..term /\ i \in 0..term /\ i - 1 # term /\ i \in DOMAIN lines
        BY <1>0, <3>1
      <4>2. x[i - 1] = balance[i - 1].left
            /\ x[i] = IF i = term THEN 0 ELSE balance[i].left
        BY <4>1
      <4>3. lines[i].principal
              = balance[i - 1].left - (IF i = term THEN 0 ELSE balance[i].left)
            /\ lines[i].interest = balance[i].interest
        BY <3>1
      <4>. QED
        BY <3>2, <3>3, <4>1, <4>2, <4>3
    <3>5. DOMAIN lines = 1..term
      BY <3>1
    <3>. HIDE DEF P, I, x
    <3>6. SumFunctionOnSet(P, 1..term) = x[0] - x[term]
      BY <1>0, <3>3, <3>4, Telescopes
    <3>7. SumFunctionOnSet(I, 1..term) \in Nat
      BY <1>0, <3>4, SumNat
    <3>. QED
      BY <2>3, <3>3, <3>4, <3>5, <3>6, <3>7
  <2>. QED
    BY <2>1, <2>2, <2>3
<1>3. \A i \in 1..term : /\ P[i] = lines[i].principal /\ I[i] = lines[i].interest
                         /\ A[i] = P[i] + I[i]
  BY <1>2
<1>4. DOMAIN P = 1..term /\ DOMAIN I = 1..term /\ DOMAIN A = 1..term
  BY <1>2
<1>5. /\ TotalPrincipal(lines) = SumFunctionOnSet(P, 1..term)
      /\ TotalInterest(lines) = SumFunctionOnSet(I, 1..term)
      /\ TotalRepayable(lines) = SumFunctionOnSet(A, 1..term)
  BY <1>4 DEF TotalPrincipal, TotalInterest, TotalRepayable, SumFunction
<1>. HIDE DEF P, I, A
<1>6. SumFunctionOnSet(A, 1..term)
        = SumFunctionOnSet(P, 1..term) + SumFunctionOnSet(I, 1..term)
  BY <1>0, <1>2, <1>3, SumPlus
<1>. QED
  BY <1>2, <1>3, <1>5, <1>6

\* The buckets take from an amount in order: interest first, then principal.
LEMMA TakenIs ==
  ASSUME NEW amount \in Nat, NEW row, row.owedPrincipal \in Nat, row.owedInterest \in Nat
  PROVE  LET take == Taken(amount, row)
             interest == row.owedInterest
             principal == row.owedPrincipal
         IN /\ take.INTEREST = IF amount <= interest THEN amount ELSE interest
            /\ take.PRINCIPAL = IF amount <= interest THEN 0
                                ELSE IF amount - interest <= principal
                                THEN amount - interest ELSE principal
<1>. DEFINE due == [PENALTY |-> 0, FEES |-> 0, INTEREST |-> row.owedInterest,
                    PRINCIPAL |-> row.owedPrincipal]
            LeftAt(g) == [i \in 1..5 |->
                            IF i = 1 THEN amount
                            ELSE g[i - 1] - Min({g[i - 1], due[Order[i - 1]]})]
            left == CHOOSE g : g = LeftAt(g)
            after == IF amount <= row.owedInterest THEN 0 ELSE amount - row.owedInterest
            rest == IF after <= row.owedPrincipal THEN 0 ELSE after - row.owedPrincipal
            f == [i \in 1..5 |-> IF i <= 3 THEN amount ELSE IF i = 4 THEN after ELSE rest]
<1>1. /\ Order[1] = "PENALTY" /\ Order[2] = "FEES" /\ Order[3] = "INTEREST"
      /\ Order[4] = "PRINCIPAL" /\ DOMAIN Order = 1..4 /\ Len(Order) + 1 = 5
  BY DEF Order
<1>2. LeftFor(amount, due, Order) = left
  BY <1>1 DEF LeftFor
<1>3. /\ Min({amount, 0}) = 0
      /\ Min({amount, row.owedInterest}) = IF amount <= row.owedInterest THEN amount
                                           ELSE row.owedInterest
      /\ Min({after, row.owedPrincipal}) = IF after <= row.owedPrincipal THEN after
                                           ELSE row.owedPrincipal
      /\ after \in Nat /\ rest \in Nat
  <2>1. after \in Nat /\ rest \in Nat
    OBVIOUS
  <2>. HIDE DEF after
  <2>2. Min({amount, 0}) = 0
    BY 0 \in Int, amount \in Int, MaxMin
  <2>3. amount \in Int /\ after \in Int /\ row.owedInterest \in Int
        /\ row.owedPrincipal \in Int
    BY <2>1
  <2>. QED
    BY <2>1, <2>2, <2>3, MaxMin
<1>. DEFINE Rest(n, x) == x - Min({x, due[Order[n]]})
<1>4. /\ Rest(1, amount) = amount /\ Rest(2, amount) = amount
      /\ Rest(3, amount) = after /\ Rest(4, after) = rest
  <2>1. due[Order[1]] = 0 /\ due[Order[2]] = 0
        /\ due[Order[3]] = row.owedInterest /\ due[Order[4]] = row.owedPrincipal
    BY <1>1
  <2>. HIDE DEF due
  <2>2. Rest(1, amount) = amount /\ Rest(2, amount) = amount
    BY <1>3, <2>1
  <2>3. Rest(3, amount) = after
    BY <1>3, <2>1
  <2>4. Rest(4, after) = rest
    <3>1. Rest(4, after) = after - Min({after, row.owedPrincipal})
      BY <2>1
    <3>2. rest = IF after <= row.owedPrincipal THEN 0 ELSE after - row.owedPrincipal
      OBVIOUS
    <3>. HIDE DEF after, rest, Rest
    <3>. QED
      BY <1>3, <3>1, <3>2
  <2>. QED
    BY <2>2, <2>3, <2>4
<1>. HIDE DEF Rest
<1>5. /\ \A i \in 1..5 : left[i] = IF i = 1 THEN amount ELSE Rest(i - 1, left[i - 1])
  <2>1. f = LeftAt(f)
    <3>1. f[1] = amount /\ f[2] = amount /\ f[3] = amount /\ f[4] = after /\ f[5] = rest
      OBVIOUS
    <3>. HIDE DEF f, after, rest
    <3>2. /\ f[2] = Rest(1, f[1]) /\ f[3] = Rest(2, f[2])
          /\ f[4] = Rest(3, f[3]) /\ f[5] = Rest(4, f[4])
      BY <1>4, <3>1
    <3>3. \A i \in 2..5 : f[i] = Rest(i - 1, f[i - 1])
      <4>1. 2 - 1 = 1 /\ 3 - 1 = 2 /\ 4 - 1 = 3 /\ 5 - 1 = 4
            /\ \A i \in 2..5 : i = 2 \/ i = 3 \/ i = 4 \/ i = 5
        OBVIOUS
      <4>. QED
        BY <3>2, <4>1
    <3>4. \A i \in 1..5 : f[i] = IF i = 1 THEN amount ELSE Rest(i - 1, f[i - 1])
      <4>1. \A i \in 1..5 : i = 1 \/ i \in 2..5
        OBVIOUS
      <4>. QED
        BY <3>1, <3>3, <4>1
    <3>5. f = [i \in 1..5 |-> f[i]]
      BY DEF f
    <3>. QED
      BY <3>4, <3>5 DEF Rest
  <2>2. left = LeftAt(left)
    BY <2>1
  <2>. HIDE DEF left
  <2>. QED
    BY <2>2 DEF Rest
<1>6. left[3] = amount /\ left[4] = after
  <2>. HIDE DEF left, after
  <2>1. /\ left[1] = amount /\ left[2] = Rest(1, left[1])
        /\ left[3] = Rest(2, left[2]) /\ left[4] = Rest(3, left[3])
    <3>1. 2 - 1 = 1 /\ 3 - 1 = 2 /\ 4 - 1 = 3 /\ 1 \in 1..5 /\ 2 \in 1..5
          /\ 3 \in 1..5 /\ 4 \in 1..5
      OBVIOUS
    <3>. QED
      BY <1>5, <3>1
  <2>. QED
    BY <1>4, <2>1
<1>. HIDE DEF left
<1>7. /\ (CHOOSE n \in DOMAIN Order : Order[n] = "INTEREST") = 3
      /\ (CHOOSE n \in DOMAIN Order : Order[n] = "PRINCIPAL") = 4
  BY <1>1
<1>8. /\ Taken(amount, row).INTEREST = Min({left[3], row.owedInterest})
      /\ Taken(amount, row).PRINCIPAL = Min({left[4], row.owedPrincipal})
  BY <1>2, <1>7 DEF Taken, Allocate
<1>. QED
  BY <1>3, <1>6, <1>8
-----------------------------------------------------------------------------
(***************************************************************************)
(* Decisions from old copies.                                              *)
(***************************************************************************)
\* The types of the rows, lines of a schedule of either sign.
Line == [principal : Int, interest : Int, paid : Nat, status : ItemStatus]

LoanRow == [principal : Principals, term : Terms, status : {"ACTIVE", "COMPLETED"},
            owedPrincipal : Nat, owedInterest : Nat, items : Seq(Line)]

WithCopy == {"approve", "reject", "accept", "decline", "disburse", "accepting",
             "disbursing"}
WithOffer == {"accepting", "disbursing"}

CallRow ==
  {Idle}
    \cup [does : {"approve", "reject", "accept", "decline", "disburse"},
          app : Application, copy : Row]
    \cup [does : WithOffer, app : Application, copy : Row, seen : Offer]
    \cup [does : {"declining"}, app : Application]
    \cup [does : {"repay"}, app : Application, payment : Payment]
    \cup [does : {"repaying"}, app : Application, payment : Payment, seen : LoanRow]

RowsOK ==
  /\ product \in LoanProduct
  /\ application \in [Application -> Row \cup {None}]
  /\ offer \in [Application -> Offer \cup {None}]
  /\ loan \in [Application -> LoanRow \cup {None}]
  /\ repaid \subseteq Payment
  /\ owner \in [Application -> Worker \cup {Nobody}]
  /\ call \in [Worker -> CallRow]
  /\ accepted \in [Application -> SUBSET Nat]

\* An offer asks for what the schedule of its terms adds up to.
Priced(o) == o.total_repayable = TotalRepayable(ScheduleOf(o.principal, o.term))

Offered == {"OFFERED", "ACCEPTED"}

\* There is an offer once the application says so, and the debt of an accepted
\* one is among those the customer has accepted.
OffersOK ==
  \A a \in Application :
    /\ application[a] # None /\ application[a].state \in Offered => offer[a] # None
    /\ offer[a] # None =>
         /\ Priced(offer[a])
         /\ offer[a].status = "ACCEPTED" => offer[a].total_repayable \in accepted[a]

\* A copy is of a row that is still there, an offer about to be disbursed was
\* accepted, and a loan about to be repaid is locked, so that its copy is fresh.
CallOK(w, c) ==
  /\ c.does \in WithCopy \cup {"declining"} => application[c.app] # None
  /\ c.does \in WithCopy /\ c.copy.state \in Offered => offer[c.app] # None
  /\ c.does \in WithOffer => Priced(c.seen)
  /\ c.does = "disbursing" => c.seen.total_repayable \in accepted[c.app]
  /\ c.does = "repay" => c.app \in Lent
  /\ c.does = "repaying" =>
       /\ owner[c.app] = w /\ c.app \in Lent
       /\ c.seen = loan[c.app] /\ c.seen.status = "ACTIVE"

CallsOK == \A w \in Worker : CallOK(w, call[w])

\* The lines of a loan are those of its schedule, and an active loan owes.
LoanOK(row) ==
  /\ Len(row.items) = row.term
  /\ \A i \in 1..row.term :
       /\ row.items[i].principal = ScheduleOf(row.principal, row.term)[i].principal
       /\ row.items[i].interest = ScheduleOf(row.principal, row.term)[i].interest
  /\ row.status = "ACTIVE" <=> row.owedPrincipal + row.owedInterest > 0

LoansOK == \A a \in Lent : LoanOK(loan[a])

LendingInv == RowsOK /\ OffersOK /\ CallsOK /\ LoansOK

\* What is assumed of the constants.
LEMMA Constants ==
  /\ \A p \in Principals : p \in Nat /\ p > 0
  /\ \A t \in Terms : t \in Positive /\ t \in Nat
  /\ \A m \in Payment : Worth[m] \in Nat /\ Worth[m] > 0
  /\ Rate \in Nat
  BY LoansAssumption DEF Positive

\* No row is the missing one, and no call with a row is idle.
LEMMA Kinds ==
  /\ None \notin Row /\ None \notin Offer /\ None \notin LoanRow
  /\ Idle \in CallRow /\ Idle.does = "nothing"
<1>1. DOMAIN None = {"exists"}
  BY DEF None
<1>2. \A r \in Row : "state" \in DOMAIN r
  BY DEF Row
<1>3. \A r \in Offer \cup LoanRow : "status" \in DOMAIN r
  BY DEF Offer, LoanRow
<1>. QED
  BY <1>1, <1>2, <1>3 DEF CallRow, Idle

\* What a call holds.
LEMMA Holds ==
  ASSUME NEW c \in CallRow
  PROVE  /\ c.does # "nothing" => c.app \in Application
         /\ c.does \in WithCopy => c.copy \in Row
         /\ c.does \in WithOffer => c.seen \in Offer
         /\ c.does \in {"repay", "repaying"} => c.payment \in Payment
         /\ c.does = "repaying" => c.seen \in LoanRow
         /\ c.does = "nothing" => c = Idle
  BY DEF CallRow, WithCopy, WithOffer, Idle

\* The schedule of the product's terms.
LEMMA ScheduleOfIs ==
  ASSUME RowsOK, NEW principal \in Principals, NEW term \in Terms,
         NEW lines, lines = ScheduleOf(principal, term)
  PROVE  /\ DOMAIN lines = 1..term
         /\ \A i \in 1..term : lines[i].principal \in Int /\ lines[i].interest \in Int
         /\ TotalPrincipal(lines) = principal
         /\ TotalInterest(lines) \in Nat
         /\ product.interest_method = "FLAT" =>
              TotalInterest(lines) = FlatInterest(principal, Rate, term)
         /\ TotalRepayable(lines) = principal + TotalInterest(lines)
<1>1. product.interest_rate = Rate
  BY DEF RowsOK, LoanProduct
<1>2. lines = Schedule(product.interest_method, principal, Rate, term)
  BY <1>1 DEF ScheduleOf
<1>3. principal \in Nat /\ term \in Positive /\ Rate \in Nat
  BY Constants
<1>. QED
  BY <1>2, <1>3, ScheduleAddsUp

\* Spreading a payment changes what was paid and the status of the lines.
LEMMA SpreadIs ==
  ASSUME NEW items \in Seq(Line), NEW amount \in Nat
  PROVE  /\ Spread(amount, items) \in Seq(Line)
         /\ Len(Spread(amount, items)) = Len(items)
         /\ \A i \in 1..Len(items) :
              /\ Share(amount, items, i) \in Nat
              /\ Spread(amount, items)[i].principal = items[i].principal
              /\ Spread(amount, items)[i].interest = items[i].interest
              /\ Spread(amount, items)[i].paid = items[i].paid + Share(amount, items, i)
<1>. DEFINE n == Len(items)
            due == [j \in DOMAIN items |-> Due(items[j])]
            after == Spread(amount, items)
<1>1. n \in Nat /\ DOMAIN items = 1..n
  OBVIOUS
<1>2. \A i \in 1..n : /\ items[i] \in Line /\ items[i].principal \in Int
                      /\ items[i].interest \in Int /\ items[i].paid \in Nat
                      /\ items[i].status \in ItemStatus
  <2>1. \A i \in 1..n : items[i] \in Line
    BY <1>1
  <2>. QED
    BY <2>1 DEF Line
<1>3. \A i \in 1..n : due[i] \in Int /\ due[i] = Due(items[i])
  BY <1>1, <1>2 DEF Due
<1>. HIDE DEF n, due
<1>4. ASSUME NEW i \in 1..n
      PROVE  Share(amount, items, i) \in Nat
  <2>. DEFINE left == amount - SumFunctionOnSet(due, 1..(i - 1))
              owed == Due(items[i])
  <2>1. IsFiniteSet(1..(i - 1)) /\ \A j \in 1..(i - 1) : due[j] \in Int
    <3>1. i - 1 \in Int /\ 1..(i - 1) \subseteq 1..n
      BY <1>1
    <3>. QED
      BY <1>3, <3>1, FS_Interval
  <2>2. left \in Int /\ owed \in Int
    <3>1. SumFunctionOnSet(due, 1..(i - 1)) \in Int
      BY <2>1, SumInt
    <3>. QED
      BY <1>3, <3>1
  <2>3. Share(amount, items, i) = Max({0, Min({owed, left})})
    BY DEF Share, due
  <2>. HIDE DEF left, owed
  <2>4. Min({owed, left}) = IF owed <= left THEN owed ELSE left
    BY <2>2, MaxMin
  <2>. DEFINE least == Min({owed, left})
  <2>5. least \in Int
    BY <2>2, <2>4
  <2>6. Share(amount, items, i) = Max({0, least})
    BY <2>3
  <2>. HIDE DEF least
  <2>7. Max({0, least}) = IF 0 >= least THEN 0 ELSE least
    BY <2>5, MaxMin
  <2>. QED
    BY <2>5, <2>6, <2>7
<1>5. ASSUME NEW i \in 1..n
      PROVE  /\ after[i] \in Line
             /\ after[i].principal = items[i].principal
             /\ after[i].interest = items[i].interest
             /\ after[i].paid = items[i].paid + Share(amount, items, i)
  <2>. DEFINE share == Share(amount, items, i)
  <2>1. after[i] = IF share = 0 THEN items[i]
                   ELSE [items[i] EXCEPT !.paid = @ + share,
                           !.status = IF share = Due(items[i]) THEN "PAID"
                                      ELSE "PARTIALLY_PAID"]
    BY <1>1 DEF Spread
  <2>2. share \in Nat /\ items[i] \in Line /\ items[i].paid \in Nat
    BY <1>2, <1>4
  <2>. HIDE DEF share
  <2>3. CASE share = 0
    BY <2>1, <2>2, <2>3 DEF share
  <2>4. CASE share # 0
    <3>. DEFINE status == IF share = Due(items[i]) THEN "PAID" ELSE "PARTIALLY_PAID"
    <3>1. status \in ItemStatus
      BY DEF ItemStatus
    <3>. HIDE DEF status
    <3>2. after[i] = [items[i] EXCEPT !.paid = @ + share, !.status = status]
      BY <2>1, <2>4 DEF status
    <3>3. items[i].paid + share \in Nat
      BY <2>2
    <3>4. /\ after[i] \in Line
          /\ after[i].principal = items[i].principal
          /\ after[i].interest = items[i].interest
          /\ after[i].paid = items[i].paid + share
      BY <2>2, <3>1, <3>2, <3>3 DEF Line
    <3>. QED
      BY <3>4 DEF share
  <2>. QED
    BY <2>3, <2>4
<1>6. after = [i \in 1..n |-> after[i]]
  BY <1>1 DEF Spread
<1>. HIDE DEF after
<1>7. after \in Seq(Line) /\ Len(after) = n
  BY <1>1, <1>5, <1>6
<1>. QED
  BY <1>4, <1>5, <1>7 DEF after, n

\* Rows do not vanish and what was accepted stays so.
Grows ==
  /\ product' = product
  /\ \A a \in Application :
       /\ application[a] # None => application'[a] # None
       /\ offer[a] # None => offer'[a] # None
       /\ loan[a] # None => loan'[a] # None
       /\ accepted[a] \subseteq accepted'[a]

\* A row is written.
LEMMA Written ==
  ASSUME NEW S, NEW T, NEW f \in [S -> T \cup {None}], NEW a \in S, NEW r \in T,
         NEW g, g = [f EXCEPT ![a] = r]
  PROVE  /\ g \in [S -> T \cup {None}]
         /\ g[a] = r
         /\ \A b \in S \ {a} : g[b] = f[b]
  OBVIOUS

\* A call ends, or becomes another.
LEMMA CallEnds ==
  ASSUME RowsOK, NEW w \in Worker, Ends(w)
  PROVE  /\ call' \in [Worker -> CallRow]
         /\ call'[w] = Idle
         /\ \A v \in Worker \ {w} : call'[v] = call[v]
         /\ owner' \in [Application -> Worker \cup {Nobody}]
         /\ \A a \in Application : owner[a] # w => owner'[a] = owner[a]
<1>1. Idle \in CallRow
  BY Kinds
<1>2. call' = [call EXCEPT ![w] = Idle] /\ call \in [Worker -> CallRow]
  BY DEF Ends, Becomes, RowsOK
<1>3. /\ call' \in [Worker -> CallRow] /\ call'[w] = Idle
      /\ \A v \in Worker \ {w} : call'[v] = call[v]
  BY <1>1, <1>2
<1>4. /\ owner \in [Application -> Worker \cup {Nobody}]
      /\ owner' = [a \in Application |-> IF owner[a] = w THEN Nobody ELSE owner[a]]
  BY DEF Ends, RowsOK
<1>. QED
  BY <1>3, <1>4

\* One worker's call changes, the others' do not.
LEMMA CallBecomes ==
  ASSUME RowsOK, NEW w \in Worker, NEW c \in CallRow, Becomes(w, c)
  PROVE  /\ call' \in [Worker -> CallRow]
         /\ call'[w] = c
         /\ \A v \in Worker \ {w} : call'[v] = call[v]
  BY DEF Becomes, RowsOK

\* What the calls of workers rest on is left alone: rows stay, and a locked loan
\* is changed only by the worker that holds its lock.
LEMMA CallsStay ==
  ASSUME RowsOK, CallsOK, Grows, NEW V \in SUBSET Worker,
         \A v \in V : call'[v] = call[v],
         \A v \in V : call[v].does = "repaying" =>
            /\ owner'[call[v].app] = v
            /\ loan'[call[v].app] = loan[call[v].app]
  PROVE  \A v \in V : CallOK(v, call[v])'
<1>. SUFFICES ASSUME NEW v \in V
              PROVE  CallOK(v, call[v])'
  OBVIOUS
<1>1. PICK c : c = call[v]
  OBVIOUS
<1>2. CallOK(v, c) /\ call'[v] = c /\ c \in CallRow
  BY <1>1 DEF CallsOK, RowsOK
<1>3. c.does \in WithCopy \cup {"declining"} => application'[c.app] # None
  BY <1>2, Holds DEF CallOK, Grows, WithCopy
<1>4. c.does \in WithCopy /\ c.copy.state \in Offered => offer'[c.app] # None
  BY <1>2, Holds DEF CallOK, Grows, WithCopy
<1>5. c.does \in WithOffer => Priced(c.seen)'
  BY <1>2 DEF CallOK, Grows, Priced, ScheduleOf
<1>6. c.does = "disbursing" => c.seen.total_repayable \in accepted'[c.app]
  BY <1>2, Holds DEF CallOK, Grows
<1>7. c.does = "repay" => c.app \in Lent'
  BY <1>2 DEF CallOK, Grows, Lent
<1>8. c.does = "repaying" =>
        /\ owner'[c.app] = v /\ c.app \in Lent'
        /\ c.seen = loan'[c.app] /\ c.seen.status = "ACTIVE"
  <2>1. c.does = "repaying" => owner'[c.app] = v /\ loan'[c.app] = loan[c.app]
    BY <1>1
  <2>. QED
    BY <1>2, <2>1 DEF CallOK, Grows, Lent
<1>. QED
  BY <1>2, <1>3, <1>4, <1>5, <1>6, <1>7, <1>8 DEF CallOK

\* The lock of another worker outlives the end of a call.
LEMMA LockStays ==
  ASSUME RowsOK, CallsOK, NEW w \in Worker, owner' = owner \/ Ends(w),
         NEW v \in Worker, v # w, call[v].does = "repaying"
  PROVE  /\ owner'[call[v].app] = v
         /\ call[v].app \in Lent /\ owner[call[v].app] = v
<1>1. owner[call[v].app] = v /\ call[v].app \in Lent
  BY DEF CallsOK, CallOK
<1>2. call[v].app \in Application
  BY <1>1 DEF Lent
<1>. QED
  BY <1>1, <1>2, CallEnds

\* Steps of a worker that change no loan and no lock but its own.
LEMMA Keeps ==
  ASSUME LendingInv, NEW w \in Worker, RowsOK', Grows, OffersOK', loan' = loan,
         owner' = owner \/ Ends(w),
         \A v \in Worker \ {w} : call'[v] = call[v],
         call'[w] = Idle \/ CallOK(w, call[w])'
  PROVE  LendingInv'
<1>1. LoansOK'
  BY DEF LendingInv, LoansOK, LoanOK, Lent, Grows, ScheduleOf
<1>2. \A v \in Worker \ {w} : CallOK(v, call[v])'
  <2>1. \A v \in Worker \ {w} : call[v].does = "repaying" =>
            /\ owner'[call[v].app] = v
            /\ loan'[call[v].app] = loan[call[v].app]
    BY LockStays DEF LendingInv
  <2>. QED
    BY <2>1, CallsStay DEF LendingInv
<1>3. CallOK(w, call[w])'
  BY Kinds DEF CallOK, WithCopy, WithOffer
<1>4. CallsOK'
  BY <1>2, <1>3 DEF CallsOK
<1>. QED
  BY <1>1, <1>4 DEF LendingInv

\* The offers stay as they are with their applications and what was accepted.
LEMMA OffersStay ==
  ASSUME OffersOK, UNCHANGED <<product, application, offer, accepted>>
  PROVE  OffersOK'
  BY DEF OffersOK, Priced, ScheduleOf
-----------------------------------------------------------------------------
\* apply_for_loan and create_loan_application.
LEMMA ApplyKeeps ==
  ASSUME LendingInv, UNCHANGED product, NEW a \in Application, ApplyForLoan(a)
  PROVE  LendingInv'
<1>1. PICK r \in Row : /\ application' = [application EXCEPT ![a] = r]
                       /\ r.state = "SUBMITTED"
  <2>1. PICK principal \in Principals, term \in Terms :
          application' = [application EXCEPT ![a] =
            [state |-> "SUBMITTED", principal |-> principal, term |-> term]]
    BY DEF ApplyForLoan, CreateLoanApplication
  <2>2. PICK r : r = [state |-> "SUBMITTED", principal |-> principal, term |-> term]
    OBVIOUS
  <2>3. r \in Row /\ r.state = "SUBMITTED"
    BY <2>2 DEF Row, State
  <2>. QED
    BY <2>1, <2>2, <2>3
<1>2. /\ application' \in [Application -> Row \cup {None}] /\ application'[a] = r
      /\ \A b \in Application \ {a} : application'[b] = application[b]
  BY <1>1, Written DEF LendingInv, RowsOK
<1>3. UNCHANGED <<offer, loan, repaid, owner, call, accepted>>
  BY DEF ApplyForLoan
<1>4. RowsOK'
  BY <1>2, <1>3 DEF LendingInv, RowsOK
<1>5. Grows
  BY <1>2, <1>3, Kinds DEF Grows
<1>6. OffersOK'
  BY <1>1, <1>2, <1>3 DEF LendingInv, OffersOK, Priced, ScheduleOf, Offered
<1>7. CallsOK'
  <2>1. \A v \in Worker : call[v].does = "repaying" =>
            /\ owner'[call[v].app] = v
            /\ loan'[call[v].app] = loan[call[v].app]
    BY <1>3 DEF LendingInv, CallsOK, CallOK
  <2>2. \A v \in Worker : CallOK(v, call[v])'
    BY <1>3, <1>5, <2>1, CallsStay DEF LendingInv
  <2>. QED
    BY <2>2 DEF CallsOK
<1>8. LoansOK'
  BY <1>3 DEF LendingInv, LoansOK, LoanOK, Lent, ScheduleOf
<1>. QED
  BY <1>4, <1>6, <1>7, <1>8 DEF LendingInv

\* A resolver reads an application: the copy is what the row is.
LEMMA ReadsKeeps ==
  ASSUME LendingInv, UNCHANGED product, NEW w \in Worker,
         NEW does \in {"approve", "reject", "accept", "decline", "disburse"},
         Reads(w, does)
  PROVE  LendingInv'
<1>1. PICK a \in Application :
        /\ application[a] # None
        /\ Becomes(w, [does |-> does, app |-> a, copy |-> application[a]])
  BY DEF Reads
<1>2. UNCHANGED <<application, offer, loan, repaid, owner, accepted>>
  BY DEF Reads
<1>3. PICK c : c = [does |-> does, app |-> a, copy |-> application[a]]
  OBVIOUS
<1>4. application[a] \in Row
  BY <1>1 DEF LendingInv, RowsOK
<1>5. c \in CallRow /\ c.does = does /\ c.app = a /\ c.copy = application[a]
  BY <1>3, <1>4 DEF CallRow
<1>6. /\ call' \in [Worker -> CallRow] /\ call'[w] = c
      /\ \A v \in Worker \ {w} : call'[v] = call[v]
  BY <1>1, <1>3, <1>5, CallBecomes DEF LendingInv
<1>7. RowsOK' /\ Grows /\ OffersOK'
  BY <1>2, <1>6, OffersStay DEF LendingInv, RowsOK, Grows
<1>8. CallOK(w, c)'
  <2>1. c.copy.state \in Offered => offer'[c.app] # None
    BY <1>1, <1>2, <1>5 DEF LendingInv, OffersOK
  <2>. QED
    BY <1>1, <1>2, <1>5, <2>1 DEF CallOK, WithCopy, WithOffer
<1>9. CallOK(w, call[w])'
  BY <1>6, <1>8 DEF CallOK
<1>. QED
  BY <1>2, <1>6, <1>7, <1>9, Keeps

\* A step of a worker that only ends its call.
LEMMA AbandonKeeps ==
  ASSUME LendingInv, UNCHANGED product, NEW w \in Worker, Abandon(w)
  PROVE  LendingInv'
<1>1. UNCHANGED <<application, offer, loan, repaid, accepted>> /\ Ends(w)
  BY DEF Abandon
<1>2. /\ call' \in [Worker -> CallRow] /\ call'[w] = Idle
      /\ \A v \in Worker \ {w} : call'[v] = call[v]
      /\ owner' \in [Application -> Worker \cup {Nobody}]
  BY <1>1, CallEnds DEF LendingInv
<1>3. RowsOK' /\ Grows /\ OffersOK'
  BY <1>1, <1>2, OffersStay DEF LendingInv, RowsOK, Grows
<1>. QED
  BY <1>1, <1>2, <1>3, Keeps

\* An approval from a copy.
LEMMA ApproveKeeps ==
  ASSUME LendingInv, UNCHANGED product, NEW w \in Worker, Approve(w)
  PROVE  LendingInv'
<1>1. PICK c : c = call[w]
  OBVIOUS
<1>2. /\ c \in CallRow /\ CallOK(w, c) /\ c.does = "approve"
      /\ c.app \in Application /\ c.copy \in Row
  BY <1>1, Holds DEF Approve, LendingInv, RowsOK, CallsOK, WithCopy
<1>3. PICK a \in Application : a = c.app
  BY <1>2
<1>4. PICK r \in Row : /\ application' = [application EXCEPT ![a] = r]
                       /\ r.state = "OFFERED"
  <2>1. [c.copy EXCEPT !.state = "OFFERED"] \in Row
    BY <1>2 DEF Row, State
  <2>2. [c.copy EXCEPT !.state = "OFFERED"].state = "OFFERED"
    BY <1>2 DEF Row
  <2>. QED
    BY <1>1, <1>3, <2>1, <2>2 DEF Approve
<1>5. PICK o \in Offer : /\ offer' = [offer EXCEPT ![a] = o]
                         /\ Priced(o) /\ o.status = "PENDING"
  <2>1. PICK principal \in Principals, term \in Terms :
          offer' = [offer EXCEPT ![a] =
                      [status |-> "PENDING", principal |-> principal, term |-> term,
                       total_repayable |-> TotalRepayable(ScheduleOf(principal, term))]]
    BY <1>1, <1>3 DEF Approve
  <2>2. TotalRepayable(ScheduleOf(principal, term)) \in Nat
    BY ScheduleOfIs, Constants DEF LendingInv
  <2>3. PICK total \in Nat : total = TotalRepayable(ScheduleOf(principal, term))
    BY <2>2
  <2>4. PICK o : o = [status |-> "PENDING", principal |-> principal, term |-> term,
                      total_repayable |-> total]
    OBVIOUS
  <2>5. /\ o \in Offer /\ o.status = "PENDING" /\ o.principal = principal
        /\ o.term = term /\ o.total_repayable = total
    BY <2>4 DEF Offer
  <2>. QED
    BY <2>1, <2>3, <2>4, <2>5 DEF Priced
<1>6. /\ application' \in [Application -> Row \cup {None}] /\ application'[a] = r
      /\ \A b \in Application \ {a} : application'[b] = application[b]
  BY <1>4, Written DEF LendingInv, RowsOK
<1>7. /\ offer' \in [Application -> Offer \cup {None}] /\ offer'[a] = o
      /\ \A b \in Application \ {a} : offer'[b] = offer[b]
  BY <1>5, Written DEF LendingInv, RowsOK
<1>8. UNCHANGED <<loan, repaid, accepted>> /\ Ends(w)
  BY DEF Approve
<1>9. /\ call' \in [Worker -> CallRow] /\ call'[w] = Idle
      /\ \A v \in Worker \ {w} : call'[v] = call[v]
      /\ owner' \in [Application -> Worker \cup {Nobody}]
  BY <1>8, CallEnds DEF LendingInv
<1>10. RowsOK'
  BY <1>6, <1>7, <1>8, <1>9 DEF LendingInv, RowsOK
<1>11. Grows
  BY <1>6, <1>7, <1>8, Kinds DEF Grows
<1>12. OffersOK'
  <2>1. ASSUME NEW b \in Application
        PROVE  /\ application'[b] # None /\ application'[b].state \in Offered =>
                    offer'[b] # None
               /\ offer'[b] # None =>
                    /\ Priced(offer'[b])
                    /\ offer'[b].status = "ACCEPTED" =>
                         offer'[b].total_repayable \in accepted'[b]
    <3>1. CASE b = a
      BY <1>5, <1>7, <3>1, Kinds
    <3>2. CASE b # a
      BY <1>6, <1>7, <1>8, <3>2 DEF LendingInv, OffersOK
    <3>. QED
      BY <3>1, <3>2
  <2>. QED
    BY <2>1 DEF OffersOK, Priced, ScheduleOf
<1>. QED
  BY <1>8, <1>9, <1>10, <1>11, <1>12, Keeps

\* A rejection from a copy.
LEMMA RejectKeeps ==
  ASSUME LendingInv, UNCHANGED product, NEW w \in Worker, Reject(w)
  PROVE  LendingInv'
<1>1. PICK c : c = call[w]
  OBVIOUS
<1>2. /\ c \in CallRow /\ c.app \in Application /\ c.copy \in Row
  BY <1>1, Holds DEF Reject, LendingInv, RowsOK, WithCopy
<1>3. PICK a \in Application : a = c.app
  BY <1>2
<1>4. PICK r \in Row : /\ application' = [application EXCEPT ![a] = r]
                       /\ r.state = "REJECTED"
  <2>1. [c.copy EXCEPT !.state = "REJECTED"] \in Row
    BY <1>2 DEF Row, State
  <2>2. [c.copy EXCEPT !.state = "REJECTED"].state = "REJECTED"
    BY <1>2 DEF Row
  <2>. QED
    BY <1>1, <1>3, <2>1, <2>2 DEF Reject, Save
<1>5. /\ application' \in [Application -> Row \cup {None}] /\ application'[a] = r
      /\ \A b \in Application \ {a} : application'[b] = application[b]
  BY <1>4, Written DEF LendingInv, RowsOK
<1>6. UNCHANGED <<offer, loan, repaid, accepted>> /\ Ends(w)
  BY DEF Reject
<1>7. /\ call' \in [Worker -> CallRow] /\ call'[w] = Idle
      /\ \A v \in Worker \ {w} : call'[v] = call[v]
      /\ owner' \in [Application -> Worker \cup {Nobody}]
  BY <1>6, CallEnds DEF LendingInv
<1>8. RowsOK'
  BY <1>5, <1>6, <1>7 DEF LendingInv, RowsOK
<1>9. Grows
  BY <1>5, <1>6, Kinds DEF Grows
<1>10. OffersOK'
  BY <1>4, <1>5, <1>6 DEF LendingInv, OffersOK, Priced, ScheduleOf, Offered
<1>. QED
  BY <1>6, <1>7, <1>8, <1>9, <1>10, Keeps

\* An offer is read for its acceptance or disbursement.
LEMMA ReadOfferKeeps ==
  ASSUME LendingInv, UNCHANGED product, NEW w \in Worker, ReadOffer(w)
  PROVE  LendingInv'
<1>1. PICK c : c = call[w]
  OBVIOUS
<1>2. /\ c \in CallRow /\ CallOK(w, c) /\ c.does \in {"accept", "disburse"}
      /\ c.app \in Application /\ c.copy \in Row /\ offer[c.app] # None
      /\ c.does = "disburse" => offer[c.app].status = "ACCEPTED"
  BY <1>1, Holds DEF ReadOffer, LendingInv, RowsOK, CallsOK, WithCopy
<1>3a. PICK a \in Application : \E o :
        a = c.app /\ o = offer[a]
  BY <1>2
<1>3. PICK o :
        a = c.app /\ o = offer[a]
  BY <1>3a
<1>4. /\ o \in Offer /\ Priced(o)
      /\ c.does = "disburse" => o.total_repayable \in accepted[a]
  BY <1>2, <1>3 DEF LendingInv, RowsOK, OffersOK
<1>5. PICK does \in WithOffer :
        /\ Becomes(w, [does |-> does, app |-> a, copy |-> c.copy, seen |-> o])
        /\ does = "disbursing" => c.does = "disburse"
  BY <1>1, <1>2, <1>3 DEF ReadOffer, WithOffer
<1>6. PICK d : d = [does |-> does, app |-> a, copy |-> c.copy, seen |-> o]
  OBVIOUS
<1>7. d \in CallRow /\ d.does = does /\ d.app = a /\ d.copy = c.copy /\ d.seen = o
  BY <1>2, <1>4, <1>6 DEF CallRow
<1>8. UNCHANGED <<application, offer, loan, repaid, owner, accepted>>
  BY DEF ReadOffer
<1>9. /\ call' \in [Worker -> CallRow] /\ call'[w] = d
      /\ \A v \in Worker \ {w} : call'[v] = call[v]
  BY <1>5, <1>6, <1>7, CallBecomes DEF LendingInv
<1>10. RowsOK' /\ Grows /\ OffersOK'
  BY <1>8, <1>9, OffersStay DEF LendingInv, RowsOK, Grows
<1>11. CallOK(w, d)'
  <2>1. Priced(d.seen)'
    BY <1>4, <1>7 DEF Priced, ScheduleOf
  <2>2. application'[d.app] # None /\ offer'[d.app] # None
    BY <1>2, <1>3, <1>7, <1>8 DEF CallOK, WithCopy
  <2>3. d.does = "disbursing" => d.seen.total_repayable \in accepted'[d.app]
    BY <1>2, <1>4, <1>5, <1>7, <1>8
  <2>. QED
    BY <1>7, <2>1, <2>2, <2>3 DEF CallOK, WithOffer
<1>12. CallOK(w, call[w])'
  BY <1>9, <1>11 DEF CallOK
<1>. QED
  BY <1>8, <1>9, <1>10, <1>12, Keeps

\* An acceptance from copies of application and offer.
LEMMA AcceptKeeps ==
  ASSUME LendingInv, UNCHANGED product, NEW w \in Worker, Accept(w)
  PROVE  LendingInv'
<1>1. PICK c : c = call[w]
  OBVIOUS
<1>2. /\ c \in CallRow /\ CallOK(w, c) /\ c.does = "accepting"
      /\ c.app \in Application /\ c.copy \in Row /\ c.seen \in Offer
  BY <1>1, Holds DEF Accept, LendingInv, RowsOK, CallsOK, WithCopy, WithOffer
<1>3. PICK a \in Application : a = c.app
  BY <1>2
<1>4. PICK r \in Row : /\ application' = [application EXCEPT ![a] = r]
                       /\ r.state = "ACCEPTED"
  <2>1. [c.copy EXCEPT !.state = "ACCEPTED"] \in Row
    BY <1>2 DEF Row, State
  <2>2. [c.copy EXCEPT !.state = "ACCEPTED"].state = "ACCEPTED"
    BY <1>2 DEF Row
  <2>. QED
    BY <1>1, <1>3, <2>1, <2>2 DEF Accept, Save
<1>5. PICK o \in Offer : /\ offer' = [offer EXCEPT ![a] = o]
                         /\ o.principal = c.seen.principal /\ o.term = c.seen.term
                         /\ o.total_repayable = c.seen.total_repayable
  <2>1. PICK o : o = [c.seen EXCEPT !.status = "ACCEPTED"]
    OBVIOUS
  <2>2. /\ o \in Offer
        /\ o.principal = c.seen.principal /\ o.term = c.seen.term
        /\ o.total_repayable = c.seen.total_repayable
    BY <1>2, <2>1 DEF Offer
  <2>3. offer' = [offer EXCEPT ![a] = o]
    BY <1>1, <1>3, <2>1 DEF Accept, AcceptedOffer
  <2>. QED
    BY <2>2, <2>3
<1>6. PICK total \in Nat : /\ total = c.seen.total_repayable
                           /\ accepted' = [accepted EXCEPT ![a] = @ \cup {total}]
  BY <1>1, <1>2, <1>3 DEF Accept, Offer
<1>7. Priced(o)
  BY <1>2, <1>5 DEF CallOK, WithOffer, Priced
<1>8. /\ application' \in [Application -> Row \cup {None}] /\ application'[a] = r
      /\ \A b \in Application \ {a} : application'[b] = application[b]
  BY <1>4, Written DEF LendingInv, RowsOK
<1>9. /\ offer' \in [Application -> Offer \cup {None}] /\ offer'[a] = o
      /\ \A b \in Application \ {a} : offer'[b] = offer[b]
  BY <1>5, Written DEF LendingInv, RowsOK
<1>10. /\ accepted' \in [Application -> SUBSET Nat] /\ total \in accepted'[a]
       /\ \A b \in Application : accepted[b] \subseteq accepted'[b]
  BY <1>6 DEF LendingInv, RowsOK
<1>11. UNCHANGED <<loan, repaid>> /\ Ends(w)
  BY DEF Accept
<1>12. /\ call' \in [Worker -> CallRow] /\ call'[w] = Idle
       /\ \A v \in Worker \ {w} : call'[v] = call[v]
       /\ owner' \in [Application -> Worker \cup {Nobody}]
  BY <1>11, CallEnds DEF LendingInv
<1>13. RowsOK'
  BY <1>8, <1>9, <1>10, <1>11, <1>12 DEF LendingInv, RowsOK
<1>14. Grows
  BY <1>8, <1>9, <1>10, <1>11, Kinds DEF Grows
<1>15. OffersOK'
  <2>1. ASSUME NEW b \in Application
        PROVE  /\ application'[b] # None /\ application'[b].state \in Offered =>
                    offer'[b] # None
               /\ offer'[b] # None =>
                    /\ Priced(offer'[b])
                    /\ offer'[b].status = "ACCEPTED" =>
                         offer'[b].total_repayable \in accepted'[b]
    <3>1. CASE b = a
      BY <1>5, <1>6, <1>7, <1>9, <1>10, <3>1, Kinds
    <3>2. CASE b # a
      BY <1>8, <1>9, <1>10, <3>2 DEF LendingInv, OffersOK
    <3>. QED
      BY <3>1, <3>2
  <2>. QED
    BY <2>1 DEF OffersOK, Priced, ScheduleOf
<1>. QED
  BY <1>11, <1>12, <1>13, <1>14, <1>15, Keeps

\* The first half of reject_loan_offer ...
LEMMA DeclineOfferKeeps ==
  ASSUME LendingInv, UNCHANGED product, NEW w \in Worker, DeclineOffer(w)
  PROVE  LendingInv'
<1>1. PICK c : c = call[w]
  OBVIOUS
<1>2. /\ c \in CallRow /\ CallOK(w, c) /\ c.does = "decline" /\ c.app \in Application
      /\ c.copy.state = "OFFERED"
  BY <1>1, Holds DEF DeclineOffer, LendingInv, RowsOK, CallsOK, WithCopy
<1>3. PICK a \in Application : a = c.app
  BY <1>2
<1>4. application[a] # None /\ offer[a] # None /\ offer[a] \in Offer
  BY <1>2, <1>3 DEF CallOK, WithCopy, Offered, LendingInv, RowsOK
<1>5. PICK o \in Offer : /\ offer' = [offer EXCEPT ![a] = o]
                         /\ Priced(o) /\ o.status = "REJECTED"
  <2>1. PICK o : o = [offer[a] EXCEPT !.status = "REJECTED"]
    OBVIOUS
  <2>2. /\ o \in Offer /\ o.status = "REJECTED"
        /\ o.principal = offer[a].principal /\ o.term = offer[a].term
        /\ o.total_repayable = offer[a].total_repayable
    BY <1>4, <2>1 DEF Offer
  <2>3. offer' = [offer EXCEPT ![a] = o]
    BY <1>1, <1>3, <2>1 DEF DeclineOffer
  <2>4. Priced(o)
    BY <1>4, <2>2 DEF LendingInv, OffersOK, Priced
  <2>. QED
    BY <2>2, <2>3, <2>4
<1>6. /\ offer' \in [Application -> Offer \cup {None}] /\ offer'[a] = o
      /\ \A b \in Application \ {a} : offer'[b] = offer[b]
  BY <1>5, Written DEF LendingInv, RowsOK
<1>7. UNCHANGED <<application, loan, repaid, owner, accepted>>
  BY DEF DeclineOffer
<1>8. PICK d : d = [does |-> "declining", app |-> a]
  OBVIOUS
<1>9. d \in CallRow /\ d.does = "declining" /\ d.app = a
  BY <1>8 DEF CallRow
<1>10. /\ call' \in [Worker -> CallRow] /\ call'[w] = d
       /\ \A v \in Worker \ {w} : call'[v] = call[v]
  BY <1>1, <1>3, <1>8, <1>9, CallBecomes DEF DeclineOffer, LendingInv
<1>11. RowsOK'
  BY <1>6, <1>7, <1>10 DEF LendingInv, RowsOK
<1>12. Grows
  BY <1>6, <1>7, Kinds DEF Grows
<1>13. OffersOK'
  <2>1. ASSUME NEW b \in Application
        PROVE  /\ application'[b] # None /\ application'[b].state \in Offered =>
                    offer'[b] # None
               /\ offer'[b] # None =>
                    /\ Priced(offer'[b])
                    /\ offer'[b].status = "ACCEPTED" =>
                         offer'[b].total_repayable \in accepted'[b]
    <3>1. CASE b = a
      BY <1>5, <1>6, <3>1, Kinds
    <3>2. CASE b # a
      BY <1>6, <1>7, <3>2 DEF LendingInv, OffersOK
    <3>. QED
      BY <3>1, <3>2
  <2>. QED
    BY <2>1 DEF OffersOK, Priced, ScheduleOf
<1>14. CallOK(w, call[w])'
  BY <1>4, <1>7, <1>9, <1>10 DEF CallOK, WithCopy, WithOffer
<1>. QED
  BY <1>7, <1>10, <1>11, <1>12, <1>13, <1>14, Keeps

\* ... and the second.
LEMMA DeclineApplicationKeeps ==
  ASSUME LendingInv, UNCHANGED product, NEW w \in Worker, DeclineApplication(w)
  PROVE  LendingInv'
<1>1. PICK c : c = call[w]
  OBVIOUS
<1>2. /\ c \in CallRow /\ CallOK(w, c) /\ c.does = "declining" /\ c.app \in Application
  BY <1>1, Holds DEF DeclineApplication, LendingInv, RowsOK, CallsOK
<1>3. PICK a \in Application : a = c.app
  BY <1>2
<1>4. application[a] \in Row
  BY <1>2, <1>3 DEF CallOK, LendingInv, RowsOK
<1>5. PICK r \in Row : /\ application' = [application EXCEPT ![a] = r]
                       /\ r.state = "CANCELLED"
  <2>1. [application[a] EXCEPT !.state = "CANCELLED"] \in Row
    BY <1>4 DEF Row, State
  <2>2. [application[a] EXCEPT !.state = "CANCELLED"].state = "CANCELLED"
    BY <1>4 DEF Row
  <2>. QED
    BY <1>1, <1>3, <2>1, <2>2 DEF DeclineApplication
<1>6. /\ application' \in [Application -> Row \cup {None}] /\ application'[a] = r
      /\ \A b \in Application \ {a} : application'[b] = application[b]
  BY <1>5, Written DEF LendingInv, RowsOK
<1>7. UNCHANGED <<offer, loan, repaid, accepted>> /\ Ends(w)
  BY DEF DeclineApplication
<1>8. /\ call' \in [Worker -> CallRow] /\ call'[w] = Idle
      /\ \A v \in Worker \ {w} : call'[v] = call[v]
      /\ owner' \in [Application -> Worker \cup {Nobody}]
  BY <1>7, CallEnds DEF LendingInv
<1>9. RowsOK'
  BY <1>6, <1>7, <1>8 DEF LendingInv, RowsOK
<1>10. Grows
  BY <1>6, <1>7, Kinds DEF Grows
<1>11. OffersOK'
  BY <1>5, <1>6, <1>7 DEF LendingInv, OffersOK, Priced, ScheduleOf, Offered
<1>. QED
  BY <1>7, <1>8, <1>9, <1>10, <1>11, Keeps

\* A repayment looks for the row of its payment.
LEMMA StartRepaymentKeeps ==
  ASSUME LendingInv, UNCHANGED product, NEW w \in Worker, StartRepayment(w)
  PROVE  LendingInv'
<1>1. PICK a \in Lent, m \in Payment :
        Becomes(w, [does |-> "repay", app |-> a, payment |-> m])
  BY DEF StartRepayment
<1>2. PICK c : c = [does |-> "repay", app |-> a, payment |-> m]
  OBVIOUS
<1>3. c \in CallRow /\ c.does = "repay" /\ c.app = a
  BY <1>1, <1>2 DEF CallRow, Lent
<1>4. UNCHANGED <<application, offer, loan, repaid, owner, accepted>>
  BY DEF StartRepayment
<1>5. /\ call' \in [Worker -> CallRow] /\ call'[w] = c
      /\ \A v \in Worker \ {w} : call'[v] = call[v]
  BY <1>1, <1>2, <1>3, CallBecomes DEF LendingInv
<1>6. RowsOK' /\ Grows /\ OffersOK'
  BY <1>4, <1>5, OffersStay DEF LendingInv, RowsOK, Grows
<1>7. CallOK(w, call[w])'
  BY <1>1, <1>3, <1>4, <1>5 DEF CallOK, WithCopy, WithOffer, Lent
<1>. QED
  BY <1>4, <1>5, <1>6, <1>7, Keeps

\* A repayment gets the lock of its loan.
LEMMA LockLoanKeeps ==
  ASSUME LendingInv, UNCHANGED product, NEW w \in Worker, LockLoan(w)
  PROVE  LendingInv'
<1>1. PICK c : c = call[w]
  OBVIOUS
<1>2. /\ c \in CallRow /\ CallOK(w, c) /\ c.does = "repay" /\ c.app \in Application
      /\ c.payment \in Payment
  BY <1>1, Holds DEF LockLoan, LendingInv, RowsOK, CallsOK
<1>3a. PICK a \in Application : \E row :
        a = c.app /\ row = loan[a]
  BY <1>2
<1>3. PICK row :
        a = c.app /\ row = loan[a]
  BY <1>3a
<1>4. /\ a \in Lent /\ row \in LoanRow /\ row.status = "ACTIVE"
      /\ owner[a] = Nobody
      /\ owner' = [owner EXCEPT ![a] = w]
      /\ Becomes(w, [does |-> "repaying", app |-> a, payment |-> c.payment, seen |-> row])
  BY <1>1, <1>2, <1>3 DEF LockLoan, RowIsFree, Open, CallOK, Lent, LendingInv, RowsOK
<1>5. PICK d : d = [does |-> "repaying", app |-> a, payment |-> c.payment, seen |-> row]
  OBVIOUS
<1>6. d \in CallRow /\ d.does = "repaying" /\ d.app = a /\ d.seen = row
  BY <1>2, <1>4, <1>5 DEF CallRow
<1>7. UNCHANGED <<application, offer, loan, repaid, accepted>>
  BY DEF LockLoan
<1>8. /\ call' \in [Worker -> CallRow] /\ call'[w] = d
      /\ \A v \in Worker \ {w} : call'[v] = call[v]
  BY <1>4, <1>5, <1>6, CallBecomes DEF LendingInv
<1>9. /\ owner' \in [Application -> Worker \cup {Nobody}] /\ owner'[a] = w
      /\ \A b \in Application \ {a} : owner'[b] = owner[b]
  BY <1>4 DEF LendingInv, RowsOK
<1>10. RowsOK' /\ Grows /\ OffersOK'
  BY <1>7, <1>8, <1>9, OffersStay DEF LendingInv, RowsOK, Grows
<1>11. \A v \in Worker \ {w} : CallOK(v, call[v])'
  <2>1. ASSUME NEW v \in Worker, call[v].does = "repaying"
        PROVE  owner'[call[v].app] = v /\ loan'[call[v].app] = loan[call[v].app]
    <3>1. owner[call[v].app] = v /\ call[v].app \in Application
      BY <2>1 DEF LendingInv, CallsOK, CallOK, Lent
    <3>2. call[v].app # a
      BY <1>4, <3>1, LoansAssumption
    <3>. QED
      BY <1>7, <1>9, <3>1, <3>2
  <2>. QED
    BY <1>8, <1>10, <2>1, CallsStay DEF LendingInv
<1>12. CallOK(w, call[w])'
  BY <1>3, <1>4, <1>6, <1>7, <1>8, <1>9 DEF CallOK, WithCopy, WithOffer, Lent
<1>13. CallsOK'
  BY <1>11, <1>12 DEF CallsOK
<1>14. LoansOK'
  BY <1>7 DEF LendingInv, LoansOK, LoanOK, Lent, ScheduleOf
<1>. QED
  BY <1>10, <1>13, <1>14 DEF LendingInv

\* The loan that is written is nobody else's.
LEMMA LoanWritten ==
  ASSUME LendingInv, UNCHANGED product, NEW w \in Worker, NEW a \in Application,
         NEW row \in LoanRow, loan' = [loan EXCEPT ![a] = row], Ends(w), LoanOK(row),
         UNCHANGED <<application, offer, accepted>>, repaid' \subseteq Payment,
         loan[a] = None \/ owner[a] = w
  PROVE  LendingInv'
<1>1. /\ loan' \in [Application -> LoanRow \cup {None}] /\ loan'[a] = row
      /\ \A b \in Application \ {a} : loan'[b] = loan[b]
  BY Written DEF LendingInv, RowsOK
<1>2. /\ call' \in [Worker -> CallRow] /\ call'[w] = Idle
      /\ \A v \in Worker \ {w} : call'[v] = call[v]
      /\ owner' \in [Application -> Worker \cup {Nobody}]
  BY CallEnds DEF LendingInv
<1>3. RowsOK'
  BY <1>1, <1>2 DEF LendingInv, RowsOK
<1>4. Grows
  BY <1>1, Kinds DEF Grows
<1>5. OffersOK'
  BY OffersStay DEF LendingInv
<1>6. \A v \in Worker \ {w} : CallOK(v, call[v])'
  <2>1. ASSUME NEW v \in Worker, v # w, call[v].does = "repaying"
        PROVE  owner'[call[v].app] = v /\ loan'[call[v].app] = loan[call[v].app]
    <3>1. /\ owner'[call[v].app] = v
          /\ call[v].app \in Lent /\ owner[call[v].app] = v
      BY <2>1, LockStays DEF LendingInv
    <3>2. call[v].app # a
      BY <2>1, <3>1 DEF Lent
    <3>. QED
      BY <1>1, <3>1, <3>2 DEF Lent
  <2>. QED
    BY <1>2, <1>4, <2>1, CallsStay DEF LendingInv
<1>7. CallOK(w, call[w])'
  BY <1>2, Kinds DEF CallOK, WithCopy, WithOffer
<1>8. LoansOK'
  <2>1. ASSUME NEW b \in Lent'
        PROVE  LoanOK(loan'[b])
    <3>1. CASE b = a
      BY <1>1, <3>1
    <3>2. CASE b # a
      BY <1>1, <3>2 DEF LendingInv, LoansOK, Lent
    <3>. QED
      BY <3>1, <3>2
  <2>. QED
    BY <2>1 DEF LoansOK, LoanOK, ScheduleOf
<1>. QED
  BY <1>3, <1>5, <1>6, <1>7, <1>8 DEF LendingInv, CallsOK

\* A loan that is made: on the terms of an offer whose debt was accepted.
LEMMA DisburseIs ==
  ASSUME LendingInv, NEW w \in Worker, Disburse(w)
  PROVE  \E a \in Application, row \in LoanRow :
           /\ loan[a] = None
           /\ loan' = [loan EXCEPT ![a] = row]
           /\ LoanOK(row)
           /\ row.owedPrincipal + row.owedInterest \in accepted[a]
           /\ row.status = "ACTIVE"
           /\ row.owedPrincipal = row.principal
           /\ row.owedInterest = TotalInterest(ScheduleOf(row.principal, row.term))
           /\ \A i \in 1..row.term : row.items[i].paid = 0
                                     /\ row.items[i].status = "UPCOMING"
<1>1. PICK c : c = call[w]
  OBVIOUS
<1>2. /\ c \in CallRow /\ CallOK(w, c) /\ c.does = "disbursing"
      /\ c.app \in Application /\ c.seen \in Offer
  BY <1>1, Holds DEF Disburse, LendingInv, RowsOK, CallsOK, WithOffer
<1>3. PICK a \in Application, o \in Offer : a = c.app /\ o = c.seen
  BY <1>2
<1>4. PICK lines : lines = ScheduleOf(o.principal, o.term)
  OBVIOUS
<1>5. /\ o.principal \in Principals /\ o.term \in Terms
      /\ o.principal \in Nat /\ o.principal > 0 /\ o.term \in Nat
  BY Constants DEF Offer
<1>6. /\ DOMAIN lines = 1..o.term
      /\ \A i \in 1..o.term : lines[i].principal \in Int /\ lines[i].interest \in Int
      /\ TotalInterest(lines) \in Nat
      /\ TotalRepayable(lines) = o.principal + TotalInterest(lines)
  BY <1>4, <1>5, ScheduleOfIs DEF LendingInv
<1>7. PICK interest \in Nat : interest = TotalInterest(lines)
  BY <1>6
<1>8. PICK items : items = [i \in 1..o.term |-> [principal |-> lines[i].principal,
                                                 interest |-> lines[i].interest,
                                                 paid |-> 0, status |-> "UPCOMING"]]
  OBVIOUS
<1>9. /\ items \in Seq(Line) /\ Len(items) = o.term
      /\ \A i \in 1..o.term : /\ items[i].principal = lines[i].principal
                              /\ items[i].interest = lines[i].interest
                              /\ items[i].paid = 0 /\ items[i].status = "UPCOMING"
  <2>1. ASSUME NEW i \in 1..o.term
        PROVE  /\ items[i] \in Line
               /\ items[i].principal = lines[i].principal
               /\ items[i].interest = lines[i].interest
               /\ items[i].paid = 0 /\ items[i].status = "UPCOMING"
    BY <1>6, <1>8 DEF Line, ItemStatus
  <2>2. items \in [1..o.term -> Line]
    BY <1>8, <2>1
  <2>3. items \in Seq(Line) /\ Len(items) = o.term
    BY <1>5, <2>2
  <2>. QED
    BY <2>1, <2>3
<1>10. PICK row : row = [principal |-> o.principal, term |-> o.term, status |-> "ACTIVE",
                         owedPrincipal |-> o.principal, owedInterest |-> interest,
                         items |-> items]
  OBVIOUS
<1>11. /\ row \in LoanRow /\ row.principal = o.principal /\ row.term = o.term
       /\ row.status = "ACTIVE" /\ row.owedPrincipal = o.principal
       /\ row.owedInterest = interest /\ row.items = items
  BY <1>5, <1>9, <1>10 DEF LoanRow
<1>12. loan[a] = None /\ loan' = [loan EXCEPT ![a] = row]
  BY <1>1, <1>3, <1>4, <1>7, <1>8, <1>10 DEF Disburse, LoanIsNew
<1>13. LoanOK(row)
  BY <1>4, <1>5, <1>9, <1>11 DEF LoanOK
<1>14. row.owedPrincipal + row.owedInterest \in accepted[a]
  <2>1. o.total_repayable \in accepted[a] /\ Priced(o)
    BY <1>2, <1>3 DEF CallOK, WithOffer
  <2>. QED
    BY <1>4, <1>6, <1>7, <1>11, <2>1 DEF Priced
<1>. QED
  BY <1>4, <1>7, <1>9, <1>11, <1>12, <1>13, <1>14

\* A repayment: the debt falls by the payment, as far as it goes.
LEMMA RepayIs ==
  ASSUME LendingInv, NEW w \in Worker, Repay(w)
  PROVE  \E a \in Lent, m \in Payment \ repaid, row \in LoanRow :
           /\ owner[a] = w /\ loan[a].status = "ACTIVE"
           /\ loan' = [loan EXCEPT ![a] = row]
           /\ repaid' = repaid \cup {m}
           /\ LoanOK(row)
           /\ LET before == loan[a].owedPrincipal + loan[a].owedInterest
              IN row.owedPrincipal + row.owedInterest
                   = IF before <= Worth[m] THEN 0 ELSE before - Worth[m]
           /\ row.items = Spread(Worth[m], loan[a].items)
           /\ row.principal = loan[a].principal /\ row.term = loan[a].term
<1>1. PICK c : c = call[w]
  OBVIOUS
<1>2. /\ c \in CallRow /\ CallOK(w, c) /\ c.does = "repaying"
      /\ c.payment \in Payment /\ c.seen \in LoanRow
  BY <1>1, Holds DEF Repay, LendingInv, RowsOK, CallsOK
<1>3. PICK a \in Lent, m \in Payment \ repaid, seen \in LoanRow :
        a = c.app /\ m = c.payment /\ seen = c.seen
  BY <1>1, <1>2 DEF CallOK, Repay, RepaymentIsNew
<1>4. owner[a] = w /\ loan[a] = seen /\ seen.status = "ACTIVE" /\ LoanOK(seen)
  BY <1>2, <1>3 DEF CallOK, LendingInv, LoansOK
<1>5. PICK amount \in Nat : amount = Worth[m]
  BY <1>3, Constants
<1>6. PICK take : take = Taken(amount, seen)
  OBVIOUS
<1>7. seen.owedPrincipal \in Nat /\ seen.owedInterest \in Nat /\ seen.items \in Seq(Line)
      /\ seen.principal \in Principals /\ seen.term \in Terms
  BY DEF LoanRow
<1>8. /\ take.INTEREST = IF amount <= seen.owedInterest THEN amount ELSE seen.owedInterest
      /\ take.PRINCIPAL = IF amount <= seen.owedInterest THEN 0
                          ELSE IF amount - seen.owedInterest <= seen.owedPrincipal
                          THEN amount - seen.owedInterest ELSE seen.owedPrincipal
  BY <1>6, <1>7, TakenIs
<1>9. PICK principal \in Nat, interest \in Nat :
        /\ principal = seen.owedPrincipal - take.PRINCIPAL
        /\ interest = seen.owedInterest - take.INTEREST
  BY <1>7, <1>8
<1>10. PICK items : items = Spread(amount, seen.items)
  OBVIOUS
<1>11. /\ items \in Seq(Line) /\ Len(items) = Len(seen.items)
       /\ \A i \in 1..Len(seen.items) : /\ items[i].principal = seen.items[i].principal
                                        /\ items[i].interest = seen.items[i].interest
  BY <1>7, <1>10, SpreadIs
<1>12. PICK status \in {"ACTIVE", "COMPLETED"} :
         status = IF principal = 0 /\ interest = 0 THEN "COMPLETED" ELSE "ACTIVE"
  OBVIOUS
<1>13. PICK row : row = [seen EXCEPT !.owedPrincipal = principal, !.owedInterest = interest,
                                     !.items = items, !.status = status]
  OBVIOUS
<1>14. /\ row \in LoanRow /\ row.principal = seen.principal /\ row.term = seen.term
       /\ row.status = status /\ row.owedPrincipal = principal
       /\ row.owedInterest = interest /\ row.items = items
  BY <1>11, <1>13 DEF LoanRow
<1>15. loan' = [loan EXCEPT ![a] = row] /\ repaid' = repaid \cup {m}
  <2>1. /\ loan' = [loan EXCEPT ![c.app] =
             [c.seen EXCEPT
                !.owedPrincipal = c.seen.owedPrincipal - Taken(Worth[c.payment], c.seen).PRINCIPAL,
                !.owedInterest = c.seen.owedInterest - Taken(Worth[c.payment], c.seen).INTEREST,
                !.items = Spread(Worth[c.payment], loan[c.app].items),
                !.status = IF /\ c.seen.owedPrincipal
                                   - Taken(Worth[c.payment], c.seen).PRINCIPAL = 0
                              /\ c.seen.owedInterest
                                   - Taken(Worth[c.payment], c.seen).INTEREST = 0
                           THEN "COMPLETED" ELSE @]]
        /\ repaid' = repaid \cup {c.payment}
    BY <1>1 DEF Repay
  <2>2. /\ loan' = [loan EXCEPT ![a] =
             [seen EXCEPT
                !.owedPrincipal = principal, !.owedInterest = interest, !.items = items,
                !.status = IF principal = 0 /\ interest = 0 THEN "COMPLETED" ELSE @]]
        /\ repaid' = repaid \cup {m}
    BY <1>3, <1>4, <1>5, <1>6, <1>9, <1>10, <2>1
  <2>. QED
    BY <1>4, <1>12, <1>13, <2>2
<1>16. row.status = "ACTIVE" <=> row.owedPrincipal + row.owedInterest > 0
  BY <1>12, <1>14
<1>17. LoanOK(row)
  BY <1>4, <1>7, <1>11, <1>14, <1>16, Constants DEF LoanOK
<1>18. LET before == seen.owedPrincipal + seen.owedInterest
       IN row.owedPrincipal + row.owedInterest
            = IF before <= amount THEN 0 ELSE before - amount
  BY <1>7, <1>8, <1>9, <1>14
<1>. QED
  BY <1>3, <1>4, <1>5, <1>10, <1>14, <1>15, <1>17, <1>18

\* Every step keeps the invariant.
LEMMA LendingInductive ==
  ASSUME LendingInv, [Next]_vars
  PROVE  LendingInv'
<1>1. CASE UNCHANGED vars
  <2>1. UNCHANGED <<product, application, offer, loan, repaid, owner, call, accepted>>
    BY <1>1 DEF vars
  <2>2. RowsOK' /\ OffersOK' /\ LoansOK'
    BY <2>1, OffersStay
    DEF LendingInv, RowsOK, LoansOK, LoanOK, Lent, ScheduleOf
  <2>3. CallsOK'
    BY <2>1 DEF LendingInv, CallsOK, CallOK, Priced, ScheduleOf, Lent
  <2>. QED
    BY <2>2, <2>3 DEF LendingInv
<1>2. CASE Next
  <2>. SUFFICES ASSUME Step, UNCHANGED product
                PROVE  LendingInv'
    BY <1>2 DEF Next
  <2>1. ASSUME NEW a \in Application, ApplyForLoan(a)
        PROVE  LendingInv'
    BY <2>1, ApplyKeeps
  <2>2. ASSUME NEW w \in Worker, ReadToDecide(w) \/ ReadToDisburse(w) \/ ReadOwn(w)
        PROVE  LendingInv'
    BY <2>2, ReadsKeeps DEF ReadToDecide, ReadToDisburse, ReadOwn
  <2>3. ASSUME NEW w \in Worker, Approve(w) \/ Reject(w) \/ ReadOffer(w) \/ Accept(w)
        PROVE  LendingInv'
    BY <2>3, ApproveKeeps, RejectKeeps, ReadOfferKeeps, AcceptKeeps
  <2>4. ASSUME NEW w \in Worker, DeclineOffer(w) \/ DeclineApplication(w)
        PROVE  LendingInv'
    BY <2>4, DeclineOfferKeeps, DeclineApplicationKeeps
  <2>5. ASSUME NEW w \in Worker, StartRepayment(w) \/ LockLoan(w) \/ Abandon(w)
        PROVE  LendingInv'
    BY <2>5, StartRepaymentKeeps, LockLoanKeeps, AbandonKeeps
  <2>6. ASSUME NEW w \in Worker, Disburse(w)
        PROVE  LendingInv'
    <3>1. UNCHANGED <<application, offer, repaid, accepted>> /\ Ends(w)
      BY <2>6 DEF Disburse
    <3>2. repaid' \subseteq Payment
      BY <3>1 DEF LendingInv, RowsOK
    <3>. QED
      BY <2>6, <3>1, <3>2, DisburseIs, LoanWritten
  <2>7. ASSUME NEW w \in Worker, Repay(w)
        PROVE  LendingInv'
    <3>1. UNCHANGED <<application, offer, accepted>> /\ Ends(w)
      BY <2>7 DEF Repay
    <3>2. PICK a \in Lent, m \in Payment, row \in LoanRow :
            /\ owner[a] = w /\ loan' = [loan EXCEPT ![a] = row]
            /\ repaid' = repaid \cup {m} /\ LoanOK(row)
      BY <2>7, RepayIs
    <3>3. repaid' \subseteq Payment /\ a \in Application
      BY <3>2 DEF LendingInv, RowsOK, Lent
    <3>. QED
      BY <3>1, <3>2, <3>3, LoanWritten
  <2>. QED
    BY <2>1, <2>2, <2>3, <2>4, <2>5, <2>6, <2>7 DEF Step
<1>. QED
  BY <1>1, <1>2

\* At the beginning there are no applications, offers or loans.
LEMMA LendingInit == Init => LendingInv
<1>. SUFFICES ASSUME Init PROVE LendingInv
  OBVIOUS
<1>1. RowsOK
  BY Kinds DEF Init, RowsOK
<1>2. OffersOK /\ LoansOK
  BY DEF Init, OffersOK, LoansOK, Lent
<1>3. CallsOK
  BY Kinds DEF Init, CallsOK, CallOK, WithCopy, WithOffer
<1>. QED
  BY <1>1, <1>2, <1>3 DEF LendingInv

\* Every loan has the instalments of its product and the posts that pay them.
THEOREM LendingSound == Spec => []LendingInv
<1>1. LendingInv /\ [Next]_vars => LendingInv'
  BY LendingInductive
<1>. QED
  BY LendingInit, <1>1, PTL DEF Spec
-----------------------------------------------------------------------------
(***************************************************************************)
(* The abstract debt.                                                      *)
(***************************************************************************)
\* Steps that leave loans, payments and what was accepted alone.
LEMMA NoDebtChanges ==
  ASSUME UNCHANGED <<loan, repaid, accepted>>
  PROVE  UNCHANGED Debts!terms
  BY DEF Debts!terms, Owed, Lent

\* Every step is one of Debt or changes none of what Debt sees.
LEMMA StepsImplement ==
  ASSUME LendingInv, [Next]_vars
  PROVE  [Debts!DebtNext]_(Debts!terms)
<1>1. CASE UNCHANGED vars
  BY <1>1, NoDebtChanges DEF vars
<1>2. ASSUME NEW a \in Application, ApplyForLoan(a)
      PROVE  UNCHANGED Debts!terms
  BY <1>2, NoDebtChanges DEF ApplyForLoan
<1>3. ASSUME NEW w \in Worker,
             \/ ReadToDecide(w) \/ ReadToDisburse(w) \/ ReadOwn(w)
             \/ Approve(w) \/ Reject(w) \/ ReadOffer(w)
             \/ DeclineOffer(w) \/ DeclineApplication(w)
             \/ StartRepayment(w) \/ LockLoan(w) \/ Abandon(w)
      PROVE  UNCHANGED Debts!terms
  BY <1>3, NoDebtChanges
  DEF ReadToDecide, ReadToDisburse, ReadOwn, Reads, Approve, Reject, ReadOffer,
      DeclineOffer, DeclineApplication, StartRepayment, LockLoan, Abandon
<1>4. ASSUME NEW w \in Worker, Accept(w)
      PROVE  Debts!DebtNext
  <2>1. PICK a \in Application :
          /\ accepted' = [accepted EXCEPT ![a] = @ \cup {call[w].seen.total_repayable}]
          /\ UNCHANGED <<loan, repaid>>
    <3>1. call[w].app \in Application
      BY <1>4, Holds DEF Accept, LendingInv, RowsOK
    <3>. QED
      BY <1>4, <3>1 DEF Accept
  <2>2. accepted \in [Application -> SUBSET Nat]
    BY DEF LendingInv, RowsOK
  <2>3. /\ accepted[a] \subseteq accepted'[a]
        /\ \A b \in Application \ {a} : accepted'[b] = accepted[b]
    BY <2>1, <2>2
  <2>4. UNCHANGED <<Lent, Owed, repaid>>
    BY <2>1 DEF Lent, Owed
  <2>. QED
    BY <2>3, <2>4 DEF Debts!DebtNext, Debts!Agree
<1>5. ASSUME NEW w \in Worker, Disburse(w)
      PROVE  Debts!DebtNext
  <2>1. PICK a \in Application, row \in LoanRow :
          /\ loan[a] = None /\ loan' = [loan EXCEPT ![a] = row]
          /\ row.owedPrincipal + row.owedInterest \in accepted[a]
    BY <1>5, DisburseIs
  <2>2. UNCHANGED <<accepted, repaid>>
    BY <1>5 DEF Disburse
  <2>3. /\ loan'[a] = row /\ \A b \in Application \ {a} : loan'[b] = loan[b]
    BY <2>1, Written DEF LendingInv, RowsOK
  <2>4. a \notin Lent /\ Lent' = Lent \cup {a}
    BY <2>1, <2>3, Kinds DEF Lent
  <2>5. Owed' = [Owed EXCEPT ![a] = row.owedPrincipal + row.owedInterest]
    BY <2>3, <2>4 DEF Owed
  <2>. QED
    BY <2>1, <2>2, <2>4, <2>5 DEF Debts!DebtNext, Debts!Lend
<1>6. ASSUME NEW w \in Worker, Repay(w)
      PROVE  Debts!DebtNext
  <2>1. PICK a \in Lent, m \in Payment \ repaid, row \in LoanRow :
          /\ loan[a].status = "ACTIVE"
          /\ loan' = [loan EXCEPT ![a] = row]
          /\ repaid' = repaid \cup {m}
          /\ LET before == loan[a].owedPrincipal + loan[a].owedInterest
             IN row.owedPrincipal + row.owedInterest
                  = IF before <= Worth[m] THEN 0 ELSE before - Worth[m]
    BY <1>6, RepayIs
  <2>2. accepted' = accepted /\ a \in Application
    BY <1>6 DEF Repay, Lent
  <2>3. /\ loan'[a] = row /\ \A b \in Application \ {a} : loan'[b] = loan[b]
    BY <2>1, <2>2, Written DEF LendingInv, RowsOK
  <2>4. Lent' = Lent
    BY <2>2, <2>3, Kinds DEF Lent
  <2>5a. PICK before \in Nat, worth \in Nat : \E after :
          /\ before = loan[a].owedPrincipal + loan[a].owedInterest
          /\ before > 0 /\ worth = Worth[m]
          /\ after = row.owedPrincipal + row.owedInterest
          /\ after = IF before <= worth THEN 0 ELSE before - worth
    <3>1. loan[a] \in LoanRow /\ LoanOK(loan[a])
      BY <2>2 DEF LendingInv, RowsOK, LoansOK, Lent
    <3>2. loan[a].owedPrincipal + loan[a].owedInterest \in Nat
          /\ loan[a].owedPrincipal + loan[a].owedInterest > 0
      BY <2>1, <3>1 DEF LoanOK, LoanRow
    <3>. QED
      BY <2>1, <3>2, Constants
  <2>5. PICK after :
          /\ before = loan[a].owedPrincipal + loan[a].owedInterest
          /\ before > 0 /\ worth = Worth[m]
          /\ after = row.owedPrincipal + row.owedInterest
          /\ after = IF before <= worth THEN 0 ELSE before - worth
    BY <2>5a
  <2>6. after = Max({0, before - worth})
    <3>1. 0 \in Int /\ before - worth \in Int
      BY <2>5
    <3>2. Max({0, before - worth}) = IF 0 >= before - worth THEN 0 ELSE before - worth
      BY <3>1, MaxMin
    <3>. QED
      BY <2>5, <3>2
  <2>7. Owed[a] = before /\ Owed' = [Owed EXCEPT ![a] = after]
    <3>1. Owed[a] = before /\ Owed'[a] = after
      BY <2>1, <2>2, <2>3, <2>4, <2>5 DEF Owed
    <3>2. \A b \in Application \ {a} : Owed'[b] = Owed[b]
      BY <2>3, <2>4 DEF Owed
    <3>3. /\ Owed' = [b \in Application |-> Owed'[b]]
          /\ Owed = [b \in Application |-> Owed[b]]
      BY DEF Owed
    <3>. HIDE DEF Owed
    <3>. QED
      BY <2>2, <3>1, <3>2, <3>3
  <2>8. /\ Owed' = [Owed EXCEPT ![a] = Max({0, @ - Worth[m]})]
        /\ Owed[a] > 0
    BY <2>5, <2>6, <2>7
  <2>9. Debts!Repay(a, m)
    BY <2>1, <2>2, <2>4, <2>8 DEF Debts!Repay, Debts!Max, Max
  <2>. QED
    BY <2>2, <2>9 DEF Debts!DebtNext
<1>. QED
  BY <1>1, <1>2, <1>3, <1>4, <1>5, <1>6 DEF Next, Step

\* Whatever is decided from old copies, an application leads to one loan at
\* most, on terms its customer accepted, and the debt falls by each repayment
\* once and by nothing else.
THEOREM LoansImplementDebt == Spec => ImplementsDebt
<1>1. Init => Debts!DebtInit
  BY DEF Init, Debts!DebtInit, Lent, Owed
<1>2. LendingInv /\ [Next]_vars => [Debts!DebtNext]_(Debts!terms)
  BY StepsImplement
<1>3. LendingInv /\ [Next]_vars => LendingInv'
  BY LendingInductive
<1>. QED
  BY LendingInit, <1>1, <1>2, <1>3, PTL DEF Spec, ImplementsDebt, Debts!DebtSpec
-----------------------------------------------------------------------------
(***************************************************************************)
(* The two records of a debt.                                              *)
(***************************************************************************)
\* What an instalment still lacks.
Lacks(line) == line.principal + line.interest - line.paid

\* No instalment is paid more than it asks for, it is PAID when it lacks nothing,
\* and together they lack what the buckets owe.
RecordOK(row) ==
  /\ \A i \in 1..row.term : /\ Lacks(row.items[i]) \in Nat
                            /\ row.items[i].status = "PAID" <=> Lacks(row.items[i]) = 0
  /\ row.owedPrincipal + row.owedInterest
       = SumFunctionOnSet([i \in 1..row.term |-> Lacks(row.items[i])], 1..row.term)

RecordsOK == \A a \in Lent : RecordOK(loan[a])

\* The lines of a loan's row.
LEMMA RowLines ==
  ASSUME NEW row \in LoanRow, LoanOK(row)
  PROVE  /\ row.principal \in Principals /\ row.term \in Terms /\ row.term \in Nat
         /\ row.items \in Seq(Line) /\ Len(row.items) = row.term
         /\ DOMAIN row.items = 1..row.term
         /\ \A i \in 1..row.term : /\ row.items[i] \in Line
                                   /\ row.items[i].principal \in Int
                                   /\ row.items[i].interest \in Int
                                   /\ row.items[i].paid \in Nat
                                   /\ row.items[i].status \in ItemStatus
                                   /\ Lacks(row.items[i]) \in Int
<1>1. /\ row.principal \in Principals /\ row.term \in Terms /\ row.term \in Nat
      /\ row.items \in Seq(Line) /\ Len(row.items) = row.term
      /\ DOMAIN row.items = 1..row.term
  BY Constants DEF LoanRow, LoanOK
<1>2. \A i \in 1..row.term : row.items[i] \in Line
  BY <1>1
<1>. QED
  BY <1>1, <1>2 DEF Line, Lacks

\* Once every line asks for something, those of a loan do.
LEMMA LinesAsk ==
  ASSUME EveryLineAsks, RowsOK, NEW row \in LoanRow, LoanOK(row)
  PROVE  \A i \in 1..row.term : /\ row.items[i].principal >= 0
                                /\ row.items[i].interest >= 0
                                /\ row.items[i].principal + row.items[i].interest > 0
<1>1. product.interest_method \in Methods /\ product.interest_rate = Rate
  BY DEF RowsOK, LoanProduct
<1>2. row.principal \in Principals /\ row.term \in Terms
  BY RowLines
<1>3. PICK lines : lines = ScheduleOf(row.principal, row.term)
  OBVIOUS
<1>4. \A i \in 1..row.term : /\ lines[i].principal >= 0 /\ lines[i].interest >= 0
                             /\ lines[i].principal + lines[i].interest > 0
  BY <1>1, <1>2, <1>3 DEF EveryLineAsks, ScheduleOf
<1>. QED
  BY <1>3, <1>4 DEF LoanOK

\* However they were rounded, the instalments of a loan add up to its principal,
\* and under FLAT to the flat interest.
LEMMA LoanAddsUp ==
  ASSUME RowsOK, NEW row \in LoanRow, LoanOK(row)
  PROVE  /\ TotalPrincipal(row.items) = row.principal
         /\ TotalInterest(row.items) = TotalInterest(ScheduleOf(row.principal, row.term))
         /\ product.interest_method = "FLAT" =>
              TotalInterest(row.items) = FlatInterest(row.principal, Rate, row.term)
<1>1. PICK lines : lines = ScheduleOf(row.principal, row.term)
  OBVIOUS
<1>2. /\ row.principal \in Principals /\ row.term \in Terms
      /\ DOMAIN row.items = 1..row.term
  BY RowLines
<1>3. /\ DOMAIN lines = 1..row.term
      /\ TotalPrincipal(lines) = row.principal
      /\ product.interest_method = "FLAT" =>
           TotalInterest(lines) = FlatInterest(row.principal, Rate, row.term)
  BY <1>1, <1>2, ScheduleOfIs
<1>4. /\ [i \in DOMAIN row.items |-> row.items[i].principal]
            = [i \in DOMAIN lines |-> lines[i].principal]
      /\ [i \in DOMAIN row.items |-> row.items[i].interest]
            = [i \in DOMAIN lines |-> lines[i].interest]
  BY <1>1, <1>2, <1>3 DEF LoanOK
<1>5. /\ TotalPrincipal(row.items) = TotalPrincipal(lines)
      /\ TotalInterest(row.items) = TotalInterest(lines)
  BY <1>4 DEF TotalPrincipal, TotalInterest
<1>. QED
  BY <1>1, <1>3, <1>5

\* A new loan owes what its lines ask for.
LEMMA NewRecord ==
  ASSUME EveryLineAsks, RowsOK, NEW row \in LoanRow, LoanOK(row),
         row.owedPrincipal = row.principal,
         row.owedInterest = TotalInterest(ScheduleOf(row.principal, row.term)),
         \A i \in 1..row.term : row.items[i].paid = 0
                                /\ row.items[i].status = "UPCOMING"
  PROVE  RecordOK(row)
<1>. DEFINE N == row.term
            P == [i \in DOMAIN row.items |-> row.items[i].principal]
            I == [i \in DOMAIN row.items |-> row.items[i].interest]
            L == [i \in 1..N |-> Lacks(row.items[i])]
<1>1. /\ DOMAIN row.items = 1..N /\ N \in Nat /\ IsFiniteSet(1..N)
      /\ \A i \in 1..N : row.items[i].principal \in Int /\ row.items[i].interest \in Int
  <2>1. /\ DOMAIN row.items = 1..row.term /\ row.term \in Nat
        /\ \A i \in 1..row.term : /\ row.items[i].principal \in Int
                                  /\ row.items[i].interest \in Int
    BY RowLines
  <2>2. 1 \in Int /\ row.term \in Int
    BY <2>1
  <2>3. IsFiniteSet(1..row.term)
    BY <2>2, FS_Interval
  <2>. QED
    BY <2>1, <2>3
<1>2. \A i \in 1..N : /\ P[i] \in Int /\ I[i] \in Int /\ L[i] = P[i] + I[i] /\ L[i] > 0
                      /\ L[i] = Lacks(row.items[i])
  BY <1>1, LinesAsk DEF Lacks
<1>3. TotalPrincipal(row.items) = SumFunctionOnSet(P, 1..N)
      /\ TotalInterest(row.items) = SumFunctionOnSet(I, 1..N)
  BY <1>1 DEF TotalPrincipal, TotalInterest, SumFunction
<1>4. row.owedPrincipal = SumFunctionOnSet(P, 1..N)
      /\ row.owedInterest = SumFunctionOnSet(I, 1..N)
  BY <1>3, LoanAddsUp
<1>. HIDE DEF P, I, L
<1>5. SumFunctionOnSet(L, 1..N) = SumFunctionOnSet(P, 1..N) + SumFunctionOnSet(I, 1..N)
  BY <1>1, <1>2, SumPlus
<1>6. \A i \in 1..N : /\ Lacks(row.items[i]) \in Nat
                      /\ row.items[i].status = "PAID" <=> Lacks(row.items[i]) = 0
  BY <1>2
<1>. QED
  BY <1>4, <1>5, <1>6 DEF RecordOK, L

\* A repayment takes as much off the lines as off the buckets.
LEMMA RepaidRecord ==
  ASSUME NEW old \in LoanRow, LoanOK(old), RecordOK(old), NEW amount \in Nat,
         NEW row \in LoanRow, LoanOK(row), row.term = old.term,
         row.items = Spread(amount, old.items),
         LET before == old.owedPrincipal + old.owedInterest
         IN row.owedPrincipal + row.owedInterest
              = IF before <= amount THEN 0 ELSE before - amount
  PROVE  RecordOK(row)
<1>. DEFINE N == old.term
            due == [i \in 1..N |-> Lacks(old.items[i])]
            share == [i \in 1..N |-> Share(amount, old.items, i)]
            less == [i \in 1..N |-> Lacks(row.items[i])]
            all == SumFunctionOnSet(due, 1..N)
            spent == SumFunctionOnSet(share, 1..N)
            rest == SumFunctionOnSet(less, 1..N)
<1>1. /\ N \in Nat /\ Len(old.items) = N /\ DOMAIN old.items = 1..N
      /\ IsFiniteSet(1..N) /\ old.items \in Seq(Line)
      /\ \A i \in 1..N : /\ old.items[i].principal \in Int /\ old.items[i].interest \in Int
                         /\ old.items[i].paid \in Nat /\ old.items[i].status \in ItemStatus
  <2>1. /\ old.term \in Nat /\ Len(old.items) = old.term
        /\ DOMAIN old.items = 1..old.term /\ old.items \in Seq(Line)
        /\ \A i \in 1..old.term :
             /\ old.items[i].principal \in Int /\ old.items[i].interest \in Int
             /\ old.items[i].paid \in Nat /\ old.items[i].status \in ItemStatus
    BY RowLines
  <2>2. 1 \in Int /\ old.term \in Int
    BY <2>1
  <2>3. IsFiniteSet(1..old.term)
    BY <2>2, FS_Interval
  <2>. QED
    BY <2>1, <2>3
<1>2. ASSUME NEW i \in 1..N
      PROVE  Due(old.items[i]) = Lacks(old.items[i]) /\ Lacks(old.items[i]) \in Nat
             /\ (old.items[i].status = "PAID" <=> Lacks(old.items[i]) = 0)
  <2>1. /\ Lacks(old.items[i]) \in Nat
        /\ old.items[i].status = "PAID" <=> Lacks(old.items[i]) = 0
    BY DEF RecordOK
  <2>2. old.items[i].status \in Payable \/ old.items[i].status = "PAID"
    BY <1>1 DEF ItemStatus, Payable
  <2>. QED
    BY <1>1, <2>1, <2>2 DEF Due, Lacks, Payable
<1>3. due = [j \in DOMAIN old.items |-> Due(old.items[j])]
  BY <1>1, <1>2
<1>4. ASSUME NEW i \in 1..N
      PROVE  /\ due[i] \in Nat
             /\ share[i] = Max({0, Min({due[i], amount - SumFunctionOnSet(due, 1..(i - 1))})})
  <2>1. due[i] = Due(old.items[i]) /\ due[i] \in Nat /\ share[i] = Share(amount, old.items, i)
    BY <1>2
  <2>. HIDE DEF due, share
  <2>. QED
    BY <1>3, <2>1 DEF Share
<1>5. ASSUME NEW i \in 1..N
      PROVE  /\ row.items[i].principal = old.items[i].principal
             /\ row.items[i].interest = old.items[i].interest
             /\ row.items[i].paid = old.items[i].paid + share[i]
             /\ row.items[i].status =
                  IF share[i] = 0 THEN old.items[i].status
                  ELSE IF share[i] = due[i] THEN "PAID" ELSE "PARTIALLY_PAID"
             /\ due[i] = Lacks(old.items[i]) /\ less[i] = Lacks(row.items[i])
  <2>1. /\ row.items[i].principal = old.items[i].principal
        /\ row.items[i].interest = old.items[i].interest
        /\ row.items[i].paid = old.items[i].paid + Share(amount, old.items, i)
    BY <1>1, SpreadIs
  <2>2. row.items[i] = IF Share(amount, old.items, i) = 0 THEN old.items[i]
                       ELSE [old.items[i] EXCEPT
                               !.paid = @ + Share(amount, old.items, i),
                               !.status = IF Share(amount, old.items, i) = Due(old.items[i])
                                          THEN "PAID" ELSE "PARTIALLY_PAID"]
    BY <1>1 DEF Spread
  <2>3. old.items[i] \in Line
    BY <1>1
  <2>4. /\ share[i] = Share(amount, old.items, i)
        /\ due[i] = Lacks(old.items[i]) /\ less[i] = Lacks(row.items[i])
        /\ due[i] = Due(old.items[i])
    BY <1>2
  <2>. HIDE DEF share, due, less
  <2>5. row.items[i].status =
          IF share[i] = 0 THEN old.items[i].status
          ELSE IF share[i] = due[i] THEN "PAID" ELSE "PARTIALLY_PAID"
    BY <2>2, <2>3, <2>4 DEF Line
  <2>. QED
    BY <2>1, <2>4, <2>5
<1>6. all = old.owedPrincipal + old.owedInterest
  BY DEF RecordOK
<1>. HIDE DEF due, share, less
<1>7. /\ \A i \in 1..N : share[i] \in 0..due[i]
      /\ all \in Nat
      /\ spent = IF amount <= all THEN amount ELSE all
  BY <1>1, <1>4, Served
<1>8. ASSUME NEW i \in 1..N
      PROVE  /\ less[i] \in Nat /\ share[i] \in Nat /\ due[i] \in Nat
             /\ due[i] = less[i] + share[i]
             /\ row.items[i].status = "PAID" <=> less[i] = 0
  <2>1. due[i] \in Nat /\ share[i] \in 0..due[i]
    BY <1>4, <1>7
  <2>2. less[i] = due[i] - share[i]
    <3>1. less[i] = row.items[i].principal + row.items[i].interest - row.items[i].paid
          /\ due[i] = old.items[i].principal + old.items[i].interest - old.items[i].paid
      BY <1>5 DEF Lacks
    <3>2. PICK p, q, d, s :
            /\ p = old.items[i].principal /\ q = old.items[i].interest
            /\ d = old.items[i].paid /\ s = share[i]
      OBVIOUS
    <3>3. p \in Int /\ q \in Int /\ d \in Int /\ s \in Int
      BY <1>1, <2>1, <3>2
    <3>4. less[i] = p + q - (d + s) /\ due[i] = p + q - d
      BY <1>5, <3>1, <3>2
    <3>. QED
      BY <3>2, <3>3, <3>4
  <2>3. old.items[i].status = "PAID" <=> due[i] = 0
    BY <1>2, <1>5
  <2>4. PICK d, s, was, now : /\ d = due[i] /\ s = share[i]
                              /\ was = old.items[i].status /\ now = row.items[i].status
    OBVIOUS
  <2>5. /\ d \in Nat /\ s \in 0..d /\ less[i] = d - s
        /\ was = "PAID" <=> d = 0
        /\ now = IF s = 0 THEN was ELSE IF s = d THEN "PAID" ELSE "PARTIALLY_PAID"
    BY <1>5, <2>1, <2>2, <2>3, <2>4
  <2>6. /\ less[i] \in Nat /\ s \in Nat /\ d = less[i] + s
        /\ now = "PAID" <=> less[i] = 0
    BY ONLY <2>5
  <2>. QED
    BY <2>4, <2>5, <2>6
<1>9. all = rest + spent /\ rest \in Nat
  <2>1. \A i \in 1..N : less[i] \in Int /\ share[i] \in Int /\ due[i] = less[i] + share[i]
    BY <1>8
  <2>2. all = rest + spent
    BY <1>1, <2>1, SumPlus
  <2>3. \A i \in 1..N : less[i] \in Nat
    BY <1>8
  <2>4. rest \in Nat
    BY <1>1, <2>3, SumNat
  <2>. QED
    BY <2>2, <2>4
<1>10. row.owedPrincipal + row.owedInterest = rest
  <2>1. row.owedPrincipal + row.owedInterest = IF all <= amount THEN 0 ELSE all - amount
    BY <1>6
  <2>. HIDE DEF all, spent, rest
  <2>. QED
    BY <1>7, <1>9, <2>1
<1>11. \A i \in 1..N : /\ Lacks(row.items[i]) \in Nat
                       /\ row.items[i].status = "PAID" <=> Lacks(row.items[i]) = 0
  BY <1>5, <1>8
<1>. QED
  BY <1>10, <1>11 DEF RecordOK, less

\* Every step keeps the two records of a debt together.
LEMMA RecordsInductive ==
  ASSUME EveryLineAsks, LendingInv, RecordsOK, [Next]_vars
  PROVE  RecordsOK'
<1>1. UNCHANGED loan => RecordsOK'
  BY DEF RecordsOK, Lent
<1>2. ASSUME NEW a \in Application, NEW row \in LoanRow, RecordOK(row),
             loan' = [loan EXCEPT ![a] = row]
      PROVE  RecordsOK'
  <2>1. loan'[a] = row /\ \A b \in Application \ {a} : loan'[b] = loan[b]
    BY <1>2, Written DEF LendingInv, RowsOK
  <2>2. ASSUME NEW b \in Lent'
        PROVE  RecordOK(loan'[b])
    <3>1. CASE b = a
      BY <1>2, <2>1, <3>1
    <3>2. CASE b # a
      BY <2>1, <3>2 DEF RecordsOK, Lent
    <3>. QED
      BY <3>1, <3>2
  <2>. QED
    BY <2>2 DEF RecordsOK
<1>3. ASSUME NEW w \in Worker, Disburse(w)
      PROVE  RecordsOK'
  <2>1. PICK a \in Application, row \in LoanRow :
          /\ loan' = [loan EXCEPT ![a] = row] /\ LoanOK(row)
          /\ row.owedPrincipal = row.principal
          /\ row.owedInterest = TotalInterest(ScheduleOf(row.principal, row.term))
          /\ \A i \in 1..row.term : row.items[i].paid = 0
                                    /\ row.items[i].status = "UPCOMING"
    BY <1>3, DisburseIs
  <2>2. RecordOK(row)
    BY <2>1, NewRecord DEF LendingInv
  <2>. QED
    BY <1>2, <2>1, <2>2
<1>4. ASSUME NEW w \in Worker, Repay(w)
      PROVE  RecordsOK'
  <2>1. PICK a \in Lent, m \in Payment \ repaid, row \in LoanRow :
          /\ loan' = [loan EXCEPT ![a] = row] /\ LoanOK(row)
          /\ LET before == loan[a].owedPrincipal + loan[a].owedInterest
             IN row.owedPrincipal + row.owedInterest
                  = IF before <= Worth[m] THEN 0 ELSE before - Worth[m]
          /\ row.items = Spread(Worth[m], loan[a].items)
          /\ row.term = loan[a].term
    BY <1>4, RepayIs
  <2>2. PICK old \in LoanRow : old = loan[a]
    BY DEF LendingInv, RowsOK, Lent
  <2>3. PICK amount \in Nat : amount = Worth[m]
    BY Constants
  <2>4. LoanOK(old) /\ RecordOK(old)
    BY <2>2 DEF LendingInv, LoansOK, RecordsOK
  <2>5. RecordOK(row)
    BY <2>1, <2>2, <2>3, <2>4, RepaidRecord
  <2>. QED
    BY <1>2, <2>1, <2>5 DEF Lent
<1>5. CASE UNCHANGED vars
  BY <1>1, <1>5 DEF vars
<1>6. ASSUME NEW a \in Application, ApplyForLoan(a)
      PROVE  UNCHANGED loan
  BY <1>6 DEF ApplyForLoan
<1>7. ASSUME NEW w \in Worker,
             \/ ReadToDecide(w) \/ ReadToDisburse(w) \/ ReadOwn(w)
             \/ Approve(w) \/ Reject(w) \/ ReadOffer(w) \/ Accept(w)
             \/ DeclineOffer(w) \/ DeclineApplication(w)
             \/ StartRepayment(w) \/ LockLoan(w) \/ Abandon(w)
      PROVE  UNCHANGED loan
  BY <1>7
  DEF ReadToDecide, ReadToDisburse, ReadOwn, Reads, Approve, Reject, ReadOffer, Accept,
      DeclineOffer, DeclineApplication, StartRepayment, LockLoan, Abandon
<1>. QED
  BY <1>1, <1>3, <1>4, <1>5, <1>6, <1>7 DEF Next, Step

\* What an invariant of the lending says about one loan.
LEMMA RecordsAreKept ==
  ASSUME EveryLineAsks, LendingInv, RecordsOK, NEW a \in Lent
  PROVE  AddsUp(loan[a]) /\ RecordsAgree(loan[a])
<1>1. PICK row \in LoanRow : row = loan[a]
  BY DEF LendingInv, RowsOK, Lent
<1>2. LoanOK(row) /\ RecordOK(row) /\ RowsOK
  BY <1>1 DEF LendingInv, LoansOK, RecordsOK
<1>. DEFINE N == row.term
            lacks == [i \in 1..N |-> Lacks(row.items[i])]
<1>3. /\ DOMAIN row.items = 1..N /\ N \in Nat /\ IsFiniteSet(1..N)
      /\ \A i \in 1..N : row.items[i].status \in ItemStatus
  <2>1. /\ DOMAIN row.items = 1..row.term /\ row.term \in Nat
        /\ \A i \in 1..row.term : row.items[i].status \in ItemStatus
    BY <1>2, RowLines
  <2>2. 1 \in Int /\ row.term \in Int
    BY <2>1
  <2>3. IsFiniteSet(1..row.term)
    BY <2>2, FS_Interval
  <2>. QED
    BY <2>1, <2>3
<1>4. AddsUp(row)
  <2>1. \A i \in 1..N : row.items[i].principal >= 0 /\ row.items[i].interest >= 0
    BY <1>2, LinesAsk
  <2>. QED
    BY <1>2, <1>3, <2>1, LoanAddsUp DEF AddsUp
<1>5. \A i \in 1..N : /\ lacks[i] \in Nat /\ lacks[i] = Lacks(row.items[i])
                      /\ row.items[i].status = "PAID" <=> lacks[i] = 0
  BY <1>2 DEF RecordOK
<1>6. row.owedPrincipal + row.owedInterest = SumFunctionOnSet(lacks, 1..N)
  BY <1>2 DEF RecordOK
<1>7. [i \in DOMAIN row.items |->
         row.items[i].principal + row.items[i].interest - row.items[i].paid] = lacks
  BY <1>3 DEF Lacks
<1>8. DOMAIN lacks = 1..N
  OBVIOUS
<1>. HIDE DEF lacks
<1>9. row.owedPrincipal + row.owedInterest
        = SumFunction([i \in DOMAIN row.items |->
            row.items[i].principal + row.items[i].interest - row.items[i].paid])
  BY <1>6, <1>7, <1>8 DEF SumFunction
<1>10. (\A i \in 1..N : lacks[i] = 0) <=> SumFunctionOnSet(lacks, 1..N) = 0
  <2>1. ASSUME NEW i \in 1..N, lacks[i] > 0
        PROVE  SumFunctionOnSet(lacks, 1..N) > 0
    <3>1. /\ IsFiniteSet((1..N) \ {i})
          /\ \A j \in (1..N) \ {i} : lacks[j] \in Nat
      BY <1>3, <1>5, FS_RemoveElement
    <3>2. SumFunctionOnSet(lacks, (1..N) \ {i}) \in Nat
      BY <3>1, SumNat
    <3>3. \A j \in 1..N : lacks[j] \in Int
      BY <1>5
    <3>4. SumFunctionOnSet(lacks, 1..N)
            = lacks[i] + SumFunctionOnSet(lacks, (1..N) \ {i})
      BY <1>3, <3>3, SumRemove
    <3>. QED
      BY <1>5, <2>1, <3>2, <3>4
  <2>2. (\A i \in 1..N : lacks[i] = 0) => SumFunctionOnSet(lacks, 1..N) = 0
    BY <1>3, SumZero
  <2>. QED
    BY <1>5, <2>1, <2>2
<1>11. row.status = "COMPLETED" <=> row.owedPrincipal + row.owedInterest = 0
  <2>1. /\ row.status \in {"ACTIVE", "COMPLETED"}
        /\ row.owedPrincipal \in Nat /\ row.owedInterest \in Nat
    BY DEF LoanRow
  <2>. QED
    BY <1>2, <2>1 DEF LoanOK
<1>12. row.status = "COMPLETED" <=> \A i \in DOMAIN row.items : row.items[i].status = "PAID"
  BY <1>3, <1>5, <1>6, <1>10, <1>11
<1>. QED
  BY <1>1, <1>4, <1>9, <1>12 DEF RecordsAgree

\* However they were rounded, the instalments of every loan add up to its
\* principal, and under FLAT to the flat interest of it (compute_schedule), and
\* repayments leave that so: for every amount, term, rate and method.
InstalmentsAddUp ==
  \A a \in Lent :
    /\ TotalPrincipal(loan[a].items) = loan[a].principal
    /\ TotalInterest(loan[a].items)
         = TotalInterest(ScheduleOf(loan[a].principal, loan[a].term))
    /\ product.interest_method = "FLAT" =>
         TotalInterest(loan[a].items) = FlatInterest(loan[a].principal, Rate, loan[a].term)

\* The instalments of every loan add up to its principal and to the interest of its
\* schedule.
THEOREM InstalmentsSound == Spec => []InstalmentsAddUp
<1>1. ASSUME LendingInv PROVE InstalmentsAddUp
  <2>1. ASSUME NEW a \in Lent
        PROVE  loan[a] \in LoanRow /\ LoanOK(loan[a]) /\ RowsOK
    BY <1>1 DEF LendingInv, RowsOK, LoansOK, Lent
  <2>. QED
    BY <2>1, LoanAddsUp DEF InstalmentsAddUp
<1>. QED
  BY LendingSound, <1>1, PTL

\* When no line is rounded away, the two records of a debt agree: the part of
\* ScheduleMatchesDebt that holds for all such amounts, terms and rates.
RecordsMatch == \A a \in Lent : AddsUp(loan[a]) /\ RecordsAgree(loan[a])

\* The two records of a debt agree wherever every line of a schedule asks for
\* something.
THEOREM RecordsSound ==
  ASSUME EveryLineAsks
  PROVE  Spec => []RecordsMatch
<1>1. Init => RecordsOK
  BY DEF Init, RecordsOK, Lent
<1>2. LendingInv /\ RecordsOK /\ [Next]_vars => RecordsOK'
  BY RecordsInductive
<1>3. LendingInv /\ RecordsOK => RecordsMatch
  BY RecordsAreKept DEF RecordsMatch
<1>. QED
  BY LendingSound, <1>1, <1>2, <1>3, PTL DEF Spec

\* All of ScheduleMatchesDebt, where the rounding of the schedules stays within
\* its kobo a month: whatever was decided from old copies and however it was
\* repaid, the two records of every debt agree.
THEOREM DebtsMatch ==
  ASSUME EveryLineAsks, SchedulesAreLevel
  PROVE  Spec => []ScheduleMatchesDebt
<1>1. ASSUME LendingInv, RecordsMatch PROVE ScheduleMatchesDebt
  <2>. SUFFICES ASSUME NEW a \in Lent
                PROVE  Even(loan[a])
    BY <1>1 DEF RecordsMatch, ScheduleMatchesDebt
  <2>1. PICK row \in LoanRow : row = loan[a]
    BY <1>1 DEF LendingInv, RowsOK, Lent
  <2>2. LoanOK(row) /\ row.principal \in Principals /\ row.term \in Terms
    BY <1>1, <2>1 DEF LendingInv, LoansOK, LoanRow
  <2>. SUFFICES ASSUME product.interest_method = "DECLINING_BALANCE"
                PROVE  Level(row.items, row.term)
    BY <2>1 DEF Even
  <2>3. product.interest_method \in Methods /\ product.interest_rate = Rate
    BY <1>1 DEF LendingInv, RowsOK, LoanProduct
  <2>4. PICK lines : lines = ScheduleOf(row.principal, row.term)
    OBVIOUS
  <2>5. Level(lines, row.term)
    BY <2>2, <2>3, <2>4 DEF SchedulesAreLevel, ScheduleOf
  <2>6. \A i \in 1..row.term : /\ row.items[i].principal = lines[i].principal
                               /\ row.items[i].interest = lines[i].interest
    BY <2>2, <2>4 DEF LoanOK
  <2>. QED
    BY <2>5, <2>6 DEF Level
<1>. QED
  BY LendingSound, RecordsSound, <1>1, PTL

\* Every row and every copy a call holds has its type.
THEOREM LoansTyped ==
  ASSUME EveryLineAsks
  PROVE  Spec => []TypeOK
<1>1. ASSUME LendingInv PROVE TypeOK
  <2>1. ASSUME NEW a \in Lent
        PROVE  loan[a] \in Loan
    <3>1. PICK row \in LoanRow : row = loan[a]
      BY <1>1 DEF LendingInv, RowsOK, Lent
    <3>2. LoanOK(row) /\ RowsOK
      BY <1>1, <3>1 DEF LendingInv, LoansOK
    <3>3. ASSUME NEW i \in 1..Len(row.items)
          PROVE  row.items[i] \in Item
      <4>1. /\ row.items[i] \in Line
            /\ row.items[i].principal \in Nat /\ row.items[i].interest \in Nat
        BY <3>2, RowLines, LinesAsk
      <4>. QED
        BY <4>1 DEF Line, Item
    <3>4. row.items \in Seq(Item)
      BY <3>3 DEF LoanRow
    <3>. QED
      BY <3>1, <3>4 DEF LoanRow, Loan
  <2>2. ASSUME NEW w \in Worker
        PROVE  call[w] \in Call
    <3>1. call[w] \in CallRow /\ CallOK(w, call[w])
      BY <1>1 DEF LendingInv, RowsOK, CallsOK
    <3>2. CASE call[w].does = "repaying"
      <4>1. call[w].seen \in Loan
        BY <2>1, <3>1, <3>2 DEF CallOK
      <4>2. PICK c : c = call[w]
        OBVIOUS
      <4>3. c \in [does : {"repaying"}, app : Application, payment : Payment,
                   seen : LoanRow]
        BY <3>1, <3>2, <4>2 DEF CallRow, Idle, WithOffer
      <4>4. c.seen \in Loan
        BY <4>1, <4>2
      <4>5. c \in [does : {"repaying"}, app : Application, payment : Payment,
                   seen : Loan]
        BY <4>3, <4>4
      <4>. QED
        BY <4>2, <4>5 DEF Call
    <3>3. CASE call[w].does # "repaying"
      BY <3>1, <3>3 DEF CallRow, Call, WithOffer
    <3>. QED
      BY <3>2, <3>3
  <2>. QED
    BY <1>1, <2>1, <2>2 DEF LendingInv, RowsOK, TypeOK, Lent
<1>. QED
  BY LendingSound, <1>1, PTL
-----------------------------------------------------------------------------
(***************************************************************************)
(* Amounts of which no line is rounded away.                               *)
(***************************************************************************)
\* Under FLAT an amount of half a kobo for each pair of months is enough.
Enough(amount, term) == 2 * amount >= term * (term - 1)

\* No part of an amount that is large enough is rounded away.
LEMMA PartsAsk ==
  ASSUME NEW amount \in Nat, NEW term \in Positive, Enough(amount, term),
         NEW i \in 1..term
  PROVE  /\ Part(amount, term, i) \in Int /\ Part(amount, term, i) >= 0
         /\ 2 * amount > term * (term - 1) => Part(amount, term, i) > 0
<1>. DEFINE q == Quotient(amount, term)
            n == term - 1
<1>1. /\ q \in Nat /\ term \in Nat /\ term > 0 /\ n \in Nat /\ term = n + 1
      /\ i \in Nat /\ i >= 1 /\ i <= term
  BY QuotientNat DEF Positive
<1>2. 2 * (term * q) <= 2 * amount + term /\ 2 * amount + term < 2 * (term * q) + 2 * term
  <2>. DEFINE A == 2 * amount + term
              B == 2 * term
  <2>1. A \in Nat /\ B \in Nat /\ B > 0 /\ q = A \div B
    BY <1>1 DEF Quotient
  <2>. HIDE DEF A, B, q
  <2>2. B * q <= A /\ A < B * q + B
    BY <2>1
  <2>3. B * q = 2 * (term * q)
    BY <1>1 DEF B
  <2>. QED
    BY <2>2, <2>3 DEF A, B
<1>. HIDE DEF q, n
<1>3. PICK x \in Nat : x = n * q
  BY <1>1
<1>4. term * q = x + q
  BY <1>1, <1>3
<1>5. PICK s \in Nat : s = n * n
  BY <1>1
<1>6. term * (term - 1) = s + n
  <2>1. term * (term - 1) = (n + 1) * n
    BY <1>1
  <2>2. (n + 1) * n = n * n + n
    BY <1>1
  <2>. QED
    BY <1>5, <2>1, <2>2
<1>7. 2 * amount >= s + n
  BY <1>6 DEF Enough
<1>8. amount - x >= 0 /\ (2 * amount > s + n => amount - x > 0)
  <2>. DEFINE r == 2 * amount + term - 2 * (x + q)
  <2>1. r \in Nat /\ r >= 0 /\ 2 * q = 2 * amount + term - 2 * x - r
    BY <1>1, <1>2, <1>4
  \* term * (amount - x) = amount + n * amount - n * (x + q), in halves.
  <2>2. n * (2 * (x + q)) = 2 * ((n + 1) * x)
    BY <1>1, <1>3
  <2>3. n * (2 * (x + q)) <= n * (2 * amount + term)
    BY <1>1, <1>2, <1>4
  <2>4. n * (2 * amount + term) = 2 * (n * amount) + s + n
    BY <1>1, <1>5
  <2>5. 2 * ((n + 1) * x) <= 2 * (n * amount) + s + n
    BY <2>2, <2>3, <2>4
  <2>. DEFINE d == amount - x
  <2>6. d \in Int /\ (n + 1) * d = (n * amount + amount) - (n + 1) * x
    BY <1>1
  <2>7. /\ 2 * ((n + 1) * d) >= 2 * amount - (s + n)
    BY <1>1, <1>5, <2>5, <2>6
  <2>. HIDE DEF d
  <2>8. (n + 1) * d >= 0 /\ (2 * amount > s + n => (n + 1) * d > 0)
    BY <1>1, <1>5, <1>7, <2>6, <2>7
  <2>9. d >= 0 /\ ((n + 1) * d > 0 => d > 0)
    <3>1. CASE d < 0
      <4>1. 0 - d \in Nat /\ 0 - d >= 1 /\ n + 1 \in Nat /\ n + 1 >= 1
        BY <1>1, <2>6, <3>1
      <4>2. (n + 1) * (0 - d) >= 1
        BY <4>1, TimesPositive
      <4>3. (n + 1) * (0 - d) = 0 - (n + 1) * d
        BY <1>1, <2>6
      <4>. QED
        BY <1>1, <2>6, <2>8, <4>2, <4>3
    <3>2. CASE d = 0
      BY <1>1, <3>2
    <3>. QED
      BY <2>6, <3>1, <3>2
  <2>. QED
    BY <2>8, <2>9 DEF d
<1>9. CASE i < term
  <2>1. Part(amount, term, i) = q
    BY <1>9 DEF Part, q
  <2>2. n >= 1
    BY <1>1, <1>9
  <2>3. n * n >= n
    <3>. DEFINE k == n - 1
    <3>1. k \in Nat /\ n = k + 1
      BY <1>1, <2>2
    <3>. HIDE DEF k
    <3>2. n * k \in Nat /\ n * n = n * k + n
      BY <1>1, <3>1
    <3>. QED
      BY <1>1, <3>2
  <2>4. 2 * amount > s + n => q > 0
    <3>1. CASE q = 0
      <4>1. term * q = 0
        BY <1>1, <3>1
      <4>2. 2 * amount + term < 2 * term
        BY <1>1, <1>2, <4>1
      <4>. QED
        BY <1>1, <1>5, <2>2, <2>3, <4>2
    <3>. QED
      BY <1>1, <3>1
  <2>. QED
    BY <1>1, <1>6, <2>1, <2>4
<1>10. CASE i = term
  <2>1. Part(amount, term, i) = amount - x
    BY <1>1, <1>3, <1>10 DEF Part, q, n
  <2>. QED
    BY <1>6, <1>8, <2>1
<1>. QED
  BY <1>1, <1>9, <1>10

\* What the theorems assume holds of every FLAT product whose amounts, and whose
\* interest if it takes any, are above half a kobo for each pair of months.
THEOREM FlatAsks ==
  ASSUME Methods \subseteq {"FLAT"},
         \A principal \in Principals, term \in Terms :
           /\ 2 * principal > term * (term - 1)
           /\ \/ FlatInterest(principal, Rate, term) = 0
              \/ Enough(FlatInterest(principal, Rate, term), term)
  PROVE  EveryLineAsks
<1>. SUFFICES ASSUME NEW principal \in Principals, NEW term \in Terms, NEW i \in 1..term
              PROVE  LET line == Schedule("FLAT", principal, Rate, term)[i]
                     IN /\ line.principal >= 0 /\ line.interest >= 0
                        /\ line.principal + line.interest > 0
  BY DEF EveryLineAsks
<1>1. PICK interest : interest = FlatInterest(principal, Rate, term)
  OBVIOUS
<1>2. /\ principal \in Nat /\ term \in Positive /\ term \in Nat /\ Rate \in Nat
      /\ i \in Nat /\ i >= 1 /\ i <= term
  BY Constants
<1>3. interest \in Nat
  <2>1. principal * Rate * term \in Nat /\ 1200 \in Positive
    BY <1>2 DEF Positive
  <2>. QED
    BY <1>1, <2>1, QuotientNat DEF FlatInterest
<1>4. Schedule("FLAT", principal, Rate, term)[i]
        = [principal |-> Part(principal, term, i), interest |-> Part(interest, term, i)]
  BY <1>1, <1>2 DEF Schedule
<1>5. Part(principal, term, i) \in Int /\ Part(principal, term, i) > 0
  <2>1. 2 * principal > term * (term - 1) /\ term * (term - 1) \in Int
    BY <1>2
  <2>2. Enough(principal, term)
    BY <1>2, <2>1 DEF Enough
  <2>. QED
    BY <1>2, <2>1, <2>2, PartsAsk
<1>6. Part(interest, term, i) \in Int /\ Part(interest, term, i) >= 0
  <2>1. CASE interest = 0
    <3>1. PICK q : q = Quotient(0, term)
      OBVIOUS
    <3>2. q = term \div (2 * term)
      BY <1>2, <3>1 DEF Quotient
    <3>3. q = 0
      <4>. DEFINE B == 2 * term
      <4>1. B \in Nat /\ B > 0 /\ term < B /\ q = term \div B
        BY <1>2, <3>2 DEF Positive
      <4>. HIDE DEF B
      <4>. QED
        BY <1>2, <4>1
    <3>. QED
      BY <1>2, <2>1, <3>1, <3>3 DEF Part
  <2>2. CASE Enough(interest, term)
    BY <1>2, <1>3, <2>2, PartsAsk
  <2>. QED
    BY <1>1, <2>1, <2>2
<1>. QED
  BY <1>4, <1>5, <1>6
=============================================================================
