SPECIFICATION Spec
CONSTANTS
  b1 = b1
  b2 = b2
  p1 = p1
  p2 = p2
  g1 = g1
  l1 = l1
  l2 = l2
  l3 = l3
  r1 = r1
  None = None
  Buyers = {b1}
  Products = {p1}
  Gateways = {g1}
  Logs = {l1, l2}
  Replays = {r1}
  Events <- AllCalls
  WorkerTestMode = FALSE
  MaxAdminOps = 1
  MaxFaults = 0
SYMMETRY Symmetric
INVARIANTS
  WebhookRowsAreEarned
  ConcurrencyNeverExhaustsRetries
  DonePurchaseLeftARow
PROPERTIES
  ImplementsAccessLifecycle
CHECK_DEADLOCK FALSE
