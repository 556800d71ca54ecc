\* A pass ends when every role group is built.
CHECK_DEADLOCK FALSE
SPECIFICATION Spec
CONSTANTS
  RoleGroup <- Groups
  ClusterSpecs <- Specs
INVARIANTS
  TypeOK
  SharingInvariant
  GroupsAreIndependent
