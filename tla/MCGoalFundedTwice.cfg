SPECIFICATION Spec
CONSTANTS
  q1 = q1
  w1 = w1
  w2 = w2
  Payment = {q1}
  Worker = {w1, w2}
  NoPayment = NoPayment
  Offered <- Purposes
  Unsigned = {}
  DeadAfter = 2
  MaxAttempts = 3
INVARIANTS
  OneFinancialEffect
CHECK_DEADLOCK FALSE
