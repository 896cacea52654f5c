SPECIFICATION Spec
CONSTANTS
  o1 = o1
  o2 = o2
  o3 = o3
  OrderIds = {o1, o2}
  Offers <- OffersAscending2
  Nil = Nil
  MaxUID = 2
  Hooks = {h1}
  MaxAttempts = 2
  MaxInvocations = 2
  Controllers = {c1}
  GCEnabled = FALSE
  Disruptions = {"drain", "delete", "foreign"}
  MaxDisruptions = 1
INVARIANTS
  WakeGate
  IInv
PROPERTIES
  WakesOnlyWhenStopped
  SpawnsInOrder
  ForeignUntouched
\* The orders are finite, so the system may come to rest.
CHECK_DEADLOCK FALSE
