SPECIFICATION FairSpec
CONSTANTS
  PodUids = {p1}
  MaxUid = 2
  MaxFlips = 2
  MaxChanges = 1
  MaxCrashes = 1
INVARIANTS
  TypeOK
  AlarmsOnce
PROPERTIES
  StrandedAlarmed
  StrandedExported
  ReadinessFollowsCRD
  CrowdAlarmed
\* The bounded environment comes to rest.
CHECK_DEADLOCK FALSE
