SPECIFICATION Spec
CONSTANTS
  x1 = x1
  w1 = w1
  w2 = w2
  m1 = m1
  m2 = m2
  m3 = m3
  Nobody = Nobody
  Application = {x1}
  Worker = {w1, w2}
  Payment = {m1, m2, m3}
  Principals <- MCPrincipals
  Terms <- MCTerms
  Methods = {"FLAT", "DECLINING_BALANCE"}
  Rate = 48
  Worth <- MCWorth
SYMMETRY Symmetry
INVARIANTS
  TypeOK
  ScheduleMatchesDebt
PROPERTIES
  ImplementsDebt
CHECK_DEADLOCK FALSE
