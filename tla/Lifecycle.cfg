\* The system may stop for good once the KafkaCluster is deleted and collected.
CHECK_DEADLOCK FALSE
SPECIFICATION DisturbedSpec
CONSTANTS
  RoleGroup <- OneGroup
  KafkaClusters <- PlainOnly
  Deletable = TRUE
  MaxEdits = 0
  MaxFaults = 1
  MaxCrashes = 0
PROPERTIES
  ObjectsConverge
  DeletionCleans
