SPECIFICATION FairSpec
CONSTANTS
  a = a
  b = b
  Lines = 2
  Calls = {a, b}
  Circumstances <- Mixed
  MaxSessions = 2
  MaxHolds = 4
  MaxMishaps = 1
CHECK_DEADLOCK FALSE
INVARIANTS OneLiveSession HoldsAreListed
PROPERTIES ListedHoldsAreKept ElapsedIsCleared
