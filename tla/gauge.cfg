SPECIFICATION FairSpec
CONSTANTS
  PodUids = {}
  MaxUid = 0
  MaxFlips = 0
  MaxChanges = 4
  MaxCrashes = 2
PROPERTIES
  AlertRaised
\* The bounded environment comes to rest.
CHECK_DEADLOCK FALSE
