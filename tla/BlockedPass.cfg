SPECIFICATION ResyncSpec
CONSTANTS
  RoleGroup <- ClashingGroups
  KafkaClusters <- BlockingEdits
  Deletable = FALSE
  MaxEdits = 1
  MaxFaults = 0
  MaxCrashes = 0
PROPERTIES
  ObjectsConverge
