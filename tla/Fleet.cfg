SPECIFICATION FairSpec
CONSTANTS
  BuildVersion <- Versions
  ClusterName <- TwoNames
  RoleGroup <- OneGroup
  KafkaClusters <- FleetSpecs
  Scenarios <- FleetScenarios
INVARIANTS
  TypeOK
  FleetInvariant
  SettledIsApplied
PROPERTIES
  FleetConverges
  DiscoveryFollowsListeners
