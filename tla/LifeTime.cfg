SPECIFICATION Spec
CONSTANTS
  SecretClasses = {"", "tls"}
  Passwords = {"", "pw"}
  LifeTimes = {"", "7d"}
  ListenerClasses = {"", "cluster-internal", "external-stable"}
  MaxAuthentications = 1
INVARIANT LifeTimeIsRequested
