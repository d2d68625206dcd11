SPECIFICATION Spec
CONSTANTS
  a = a
  b = b
  shirt = shirt
  cap = cap
  Variants = {shirt, cap}
  MaxQuantity = 2
  Calls = {a, b}
  Circumstances <- Mixed
  MaxGuestCarts = 1
  MaxLines = 4
CHECK_DEADLOCK FALSE
INVARIANTS QuantityWithinLimit
PROPERTIES NothingVanishes
