SPECIFICATION FairSpec
CONSTANTS
  a1 = a1
  a2 = a2
  n1 = n1
  x1 = x1
  x2 = x2
  Calls = {a1, a2}
  Notices = {n1}
  Refunds = {x1, x2}
  Amount = 2
  Settles = TRUE
  Circumstances <- Mixed
CHECK_DEADLOCK FALSE
INVARIANTS RefundedInFull  RecordsAgree NeverStranded
PROPERTIES PendingIsDecided
