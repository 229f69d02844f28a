SPECIFICATION Spec
CONSTANTS
  a1 = a1
  w1 = w1
  w2 = w2
  k1 = k1
  EmptyKey = EmptyKey
  Nobody = Nobody
  Agent = {a1}
  Worker = {w1, w2}
  ClientKey = {k1}
  Amounts <- MCAmounts
  SingleLimit = 1
  DailyCashIn = 2
  DailyPayout = 1
  MonthlyLimit = 3
  LastDay = 2
  MaxTransactions = 4
  MaxSettlements = 1
SYMMETRY Symmetry
INVARIANT
  FloatIsUnsettledCash
CHECK_DEADLOCK FALSE
