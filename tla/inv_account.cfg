SPECIFICATION Spec
CONSTANTS
  main = main
  annex = annex
  r1 = r1
  r2 = r2
  r3 = r3
  Items <- TwoItems
  DefaultItem = main
  Requests = {r1, r2, r3}
  Operations <- ConditionalMenu
  Units <- UnitRange
CHECK_DEADLOCK FALSE
SYMMETRY Symmetry
INVARIANTS StockIsSumOfMovements LedgerComplete
PROPERTIES AccountSpec
