SPECIFICATION ResyncSpec
CONSTANTS
  RoleGroup <- TwoGroups
  KafkaClusters <- GroupEdits
  Deletable = FALSE
  MaxEdits = 1
  MaxFaults = 0
  MaxCrashes = 0
PROPERTIES
  RemovedGroupsAreCleaned
