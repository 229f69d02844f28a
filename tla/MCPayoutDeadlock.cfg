SPECIFICATION Spec
CONSTANTS
  p1 = p1
  p2 = p2
  x1 = x1
  x2 = x2
  Session = {p1, p2}
  Subject = {x1, x2}
INVARIANTS
  AccountsInOneOrder
CHECK_DEADLOCK FALSE
