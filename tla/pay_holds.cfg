SPECIFICATION FairSpec
CONSTANTS
  a = a
  b = b
  payhere = payhere
  koko = koko
  Gateways = {payhere, koko}
  Can <- Traits
  MaxTries = 2
  Calls = {a, b}
  Circumstances <- Mixed
  MaxPayments = 2
  MaxAttempts = 2
  MaxWords = 2
  MaxDeaths = 1
CHECK_DEADLOCK FALSE
INVARIANTS NoSuccessDropped OneChargeAtATime
PROPERTIES  CapturedStays  CutIsReplayed
