SPECIFICATION Spec
CONSTANTS
  w1 = w1
  w2 = w2
  m1 = m1
  m2 = m2
  g1 = g1
  Worker = {w1, w2}
  Payment = {m1, m2, g1}
  ForGoal = {g1}
  Amount <- MCAmount
  Items = 2
  ItemAmount = 2
  Targets <- MCTargets
  LastDay = 2
  MaxUnposted = 0
SYMMETRY Symmetry
INVARIANTS
  BalanceIsUnwithdrawn
CHECK_DEADLOCK FALSE
