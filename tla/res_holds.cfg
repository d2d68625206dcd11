SPECIFICATION FairSpec
CONSTANTS
  a = a
  b = b
  c1 = c1
  c2 = c2
  s1 = s1
  Reservations = {a, b}
  Quantity <- UnitsHeld
  Callers = {c1, c2}
  Sweepers = {s1}
  InitialOnHand = 4
  Circumstances <- CalmAndWorst
CHECK_DEADLOCK FALSE
INVARIANTS StatusIsBacked ReservedIsHeld
PROPERTIES SettledIsFinal DueIsSettled
