SPECIFICATION Spec
CONSTANTS
  o1 = o1
  o2 = o2
  o3 = o3
  OrderIds = {o1}
  Offers <- OffersSurprising
  Nil = Nil
  MaxUID = 1
  Hooks = {h1}
  MaxAttempts = 2
  MaxInvocations = 2
  Controllers = {c1}
  GCEnabled = FALSE
  Disruptions = {}
  MaxDisruptions = 0
INVARIANTS
  AckedOrderKept
\* The orders are finite, so the system may come to rest.
CHECK_DEADLOCK FALSE
