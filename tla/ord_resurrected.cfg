SPECIFICATION FulfilSpec
CONSTANTS
  p1 = p1
  p2 = p2
  p3 = p3
  c1 = c1
  c2 = c2
  h1 = h1
  h2 = h2
  o1 = o1
  o2 = o2
  o3 = o3
  l1 = l1
  l2 = l2
  CheckoutOf <- PaysFor
  CreatedAt <- Age
  Payments = {p1}
  Checkouts = {c1}
  Cod = {}
  Handlers = {h1}
  OrderIds = {o1, o2}
  Lines = {l1}
  InitialStock = 4
  ScanLimit = 2
  MaxRestarts = 0
  MovesFail = FALSE
  UniqueLive = TRUE
INVARIANTS CancelledStaysCancelled
