SPECIFICATION FairSpec
CONSTANTS
  BuildVersion <- Versions
  ClusterName <- ForeignNames
  RoleGroup <- TwoGroups
  KafkaClusters <- ForeignSpecs
  Scenarios <- ForeignScenarios
PROPERTY OwnBrokersDiscovered
