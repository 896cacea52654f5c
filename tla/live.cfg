SPECIFICATION FairSpec
CONSTANTS
  o1 = o1
  o2 = o2
  o3 = o3
  OrderIds = {o1, o2}
  Offers <- OffersAscending2
  Nil = Nil
  MaxUID = 1
  Hooks = {h1, h2}
  MaxAttempts = 1
  MaxInvocations = 2
  Controllers = {c1}
  GCEnabled = TRUE
  Disruptions = {}
  MaxDisruptions = 0
INVARIANTS
  AnswerInv
PROPERTIES
  ImplementsSessionOrders
  PreparedOrderRuns
  FinishedRunnerSleeps
  IdleCollected
\* The orders are finite, so the system may come to rest.
CHECK_DEADLOCK FALSE
