SPECIFICATION Spec
CONSTANTS
  RoleGroup <- OneGroup
  KafkaClusters <- PlainOnly
  Deletable = FALSE
  MaxEdits = 0
  MaxFaults = 0
  MaxCrashes = 0
PROPERTIES
  NoSpuriousPatch
