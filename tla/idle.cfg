SPECIFICATION FairSpec
CONSTANTS
  Sessions = {1, 2}
  Replicas = {r1, r2}
  MaxIdleAge = 1
  MaxIdleSessions = 1
  MaxTime = 1
  MaxStirs = 1
INVARIANTS
  IdleInv
PROPERTIES
  NewestKept
  CapReached
\* The clock and the orders are bounded, so the release may come to rest.
CHECK_DEADLOCK FALSE
