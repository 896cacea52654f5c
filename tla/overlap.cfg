SPECIFICATION Spec
CONSTANTS
  o1 = o1
  o2 = o2
  o3 = o3
  OrderIds = {o1, o2}
  Offers <- OffersAscending2
  Nil = Nil
  MaxUID = 1
  Hooks = {h1}
  MaxAttempts = 1
  MaxInvocations = 2
  Controllers = {c1, c2}
  GCEnabled = TRUE
  Disruptions = {}
  MaxDisruptions = 0
SYMMETRY ControllerSymmetry
INVARIANTS
  RunInv
PROPERTIES
  CollectsOnlyRest
  SpawnsInOrder
  OneRunPerOrder
\* The orders are finite, so the system may come to rest.
CHECK_DEADLOCK FALSE
