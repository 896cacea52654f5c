SPECIFICATION Spec
CONSTANTS
  o1 = o1
  o2 = o2
  o3 = o3
  OrderIds = {o1, o2, o3}
  Offers <- OffersTied
  Nil = Nil
  MaxUID = 1
  Hooks = {h1, h2}
  MaxAttempts = 1
  MaxInvocations = 3
  Controllers = {c1}
  GCEnabled = FALSE
  Disruptions = {}
  MaxDisruptions = 0
SYMMETRY TiedSymmetry
INVARIANTS
  SettledOrderRan
  AckedOrderKept
  PreparedOrderWakeable
  PodMatchesSecret
  NoSpuriousReject
PROPERTIES
  AcceptanceMonotone
  OneRunPerOrder
  SleepsOnlyFinished
\* The orders are finite, so the system may come to rest.
CHECK_DEADLOCK FALSE
