SPECIFICATION Spec
CONSTANTS
  a = a
  b = b
  Lines = 2
  Quantity = 2
  Elsewhere = 1
  Calls = {a, b}
  Circumstances <- Mixed
  MaxUnits = 4
CHECK_DEADLOCK FALSE
INVARIANTS DocumentsAreBacked UnitsMoveOnce IncomingIsOutstanding
