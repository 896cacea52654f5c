SPECIFICATION Spec
CONSTANTS
  o1 = o1
  o2 = o2
  o3 = o3
  OrderIds = {o1, o2}
  Offers <- OffersAscending2
  Nil = Nil
  MaxUID = 2
  Hooks = {h1}
  MaxAttempts = 2
  MaxInvocations = 2
  Controllers = {c1}
  GCEnabled = TRUE
  Disruptions = {}
  MaxDisruptions = 0
INVARIANTS
  NoSilentRecreate
\* The orders are finite, so the system may come to rest.
CHECK_DEADLOCK FALSE
