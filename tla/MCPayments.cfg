SPECIFICATION FairSpec
CONSTANTS
  q1 = q1
  w1 = w1
  w2 = w2
  Payment = {q1}
  Worker = {w1, w2}
  NoPayment = NoPayment
  Offered <- MCOffered
  Unsigned <- MCUnsigned
  DeadAfter = 2
  MaxAttempts = 3
INVARIANTS
  TypeOK
  PaidFor
  SettledOnce
  ProcessedIsSettled
PROPERTIES
  EventResolved
CHECK_DEADLOCK FALSE
