SPECIFICATION Spec
CONSTANTS
  main = main
  annex = annex
  r1 = r1
  r2 = r2
  r3 = r3
  Items <- OneItem
  DefaultItem = main
  Requests = {r1, r2, r3}
  Operations <- MixedMenu
  Units <- UnitRange
CHECK_DEADLOCK FALSE
SYMMETRY Symmetry
INVARIANTS AvailableAgrees NoOversell
PROPERTIES DeletedStockFrozen
