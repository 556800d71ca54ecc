SPECIFICATION Spec
CONSTANTS
  SecretClasses = {"", "tls"}
  Passwords = {"", "pw"}
  LifeTimes = {"", "7d"}
  ListenerClasses = {"", "cluster-internal", "external-stable"}
  MaxAuthentications = 1
INVARIANTS
  TypeOK
  PublishedPortsAreServed
  NamedPortsResolve
  FilesAreMounted
  SslListenersHaveStores
  VectorAgreement
PROPERTY
  ClaimsFollowStorageOnly
