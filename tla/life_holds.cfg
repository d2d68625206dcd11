SPECIFICATION FairSpec
CONSTANTS
  r1 = r1
  r2 = r2
  w1 = w1
  w2 = w2
  none = none
  Calls = {r1, r2}
  Waybills = {w1, w2}
  NoWaybill = none
  Says <- Courier
  MaxBack = 2
  Circumstances <- Mixed
CHECK_DEADLOCK FALSE
INVARIANTS WalkedThrough StockBackOnce 
PROPERTIES RestoredIsClear WalkEnds
