SPECIFICATION SpacedSpec
CONSTANTS
  b1 = b1
  b2 = b2
  p1 = p1
  p2 = p2
  g1 = g1
  l1 = l1
  l2 = l2
  l3 = l3
  r1 = r1
  None = None
  Buyers = {b1}
  Products = {p1}
  Gateways = {g1}
  Logs = {l1, l2, l3}
  Replays = {}
  Events <- PaymentCalls
  WorkerTestMode = FALSE
  MaxAdminOps = 0
  MaxFaults = 0
SYMMETRY Symmetric
INVARIANTS
  LatestEventWins
CHECK_DEADLOCK FALSE
