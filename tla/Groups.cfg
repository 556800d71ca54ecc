SPECIFICATION Spec
CONSTANTS
  RoleGroup <- TwoGroups
  KafkaClusters <- GrowingEdits
  Deletable = FALSE
  MaxEdits = 1
  MaxFaults = 0
  MaxCrashes = 0
INVARIANTS
  PassInvariant
PROPERTIES
  DiscoveryAfterBrokers
