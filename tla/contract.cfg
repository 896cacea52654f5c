SPECIFICATION Spec
CONSTANTS
  Lower <- MCLower
  ToLower <- MCToLower
  Interior = {"_", "."}
  Words <- MCWords
  Hash <- MCHash
  HashLen = 2
  NameMax = 12
  ReleaseMax = 3
  LabelMax = 4
  Releases <- MCReleases
  Sessions <- MCSessions
  Accounts <- MCAccounts
  Overlays <- MCOverlays
  MaxOrders = 2
  MaxUpgrades = 1
INVARIANTS
  ContractTypeOK
  NoSharing
  OwnSandbox
  NamesAdmitted
  ContractHeld
  RunnerHoldsItsOrder
  WakeInstalls
\* Orders and upgrades are finite.
CHECK_DEADLOCK FALSE
