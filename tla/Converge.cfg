SPECIFICATION FairSpec
CONSTANTS
  RoleGroup <- OneGroup
  KafkaClusters <- AddressEdits
  Deletable = FALSE
  MaxEdits = 1
  MaxFaults = 0
  MaxCrashes = 1
PROPERTIES
  ObjectsConverge
  ReconcileFinishes
  DiscoveryConverges
