SPECIFICATION Spec
CONSTANTS
  RoleGroup <- OneGroup
  KafkaClusters <- SecurityEdits
  Deletable = FALSE
  MaxEdits = 2
  MaxFaults = 0
  MaxCrashes = 1
INVARIANTS
  TypeOK
  RestMeansApplied
PROPERTIES
  StatefulSetAfterItsConfig
  KeepsContract
