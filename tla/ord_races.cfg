SPECIFICATION FulfilSpec
CONSTANTS
  p1 = p1
  p2 = p2
  p3 = p3
  c1 = c1
  c2 = c2
  h1 = h1
  h2 = h2
  o1 = o1
  o2 = o2
  o3 = o3
  l1 = l1
  l2 = l2
  CheckoutOf <- PaysFor
  CreatedAt <- Age
  Payments = {p1, p2}
  Checkouts = {c1}
  Cod = {p2}
  Handlers = {h1, h2}
  OrderIds = {o1, o2}
  Lines = {l1}
  InitialStock = 1
  ScanLimit = 2
  MaxRestarts = 1
  MovesFail = TRUE
  UniqueLive = TRUE
SYMMETRY RaceSymmetry
INVARIANTS OneLiveOrder CompletedHasOrder NoPhantomStock
