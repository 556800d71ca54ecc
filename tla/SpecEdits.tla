------------------------------ MODULE SpecEdits ------------------------------
(***************************************************************************)
(* A user edits a KafkaCluster one field at a time, as kubectl edit would. *)
(* The properties relate what the ConfigMap and StatefulSet builders, the  *)
(* security settings and the discovery code say about the same spec.       *)
(***************************************************************************)
EXTENDS PodTemplate

CONSTANTS
  SecretClasses,    \* SecretClass names a TLS or Kerberos setting may use, with ""
  Passwords,        \* values of tls.sslStorePassword, with ""
  LifeTimes,        \* values of requestedSecretLifeTime, with ""
  ListenerClasses,  \* values of the two listener classes, with ""
  MaxAuthentications

\* A user may leave the strings empty; the schema's default is one of their values.
ASSUME EditsAssumption ==
  /\ {Unset, "cluster-internal"} \subseteq ListenerClasses
  /\ Unset \in LifeTimes /\ MaxAuthentications \in Nat

VARIABLE user    \* the part of KafkaCluster.spec the builders depend on, as admitted

vars == <<user>>

Pointer(S) == {{}} \cup {{v} : v \in S}

TlsSpecs == Pointer([serverSecretClass   : SecretClasses,
                     internalSecretClass : SecretClasses,
                     sslStorePassword    : Passwords])
AuthenticationSpecs ==
  UNION {[1..n -> [kerberos : Pointer(SecretClasses)]] : n \in 0..MaxAuthentications}
LoggingSpecs == Pointer([enableVectorAgent : Pointer(BOOLEAN)])
StorageSpecs == Pointer([capacity : {"10Gi"}, storageClass : {Unset, "fast"}])
ResourcesSpecs == Pointer([storage : StorageSpecs])

\* The config section of a role group: what it shares with other products is in
\* an embedded pointer, which the schema's default of gracefulShutdownTimeout
\* makes non-nil in every section that the user has.
BrokersConfigSpecs ==
  [roleGroupConfigSpec     : {{c} : c \in [logging : LoggingSpecs, resources : ResourcesSpecs]},
   brokerListenerClass     : ListenerClasses,
   bootstrapListenerClass  : ListenerClasses,
   requestedSecretLifeTime : LifeTimes]

UserSpecs == [tls : TlsSpecs, authentication : AuthenticationSpecs,
              vectorAggregatorConfigMapName : {Unset, "aggregator"},
              config : Pointer(BrokersConfigSpecs)]

Init == user = [tls |-> {}, authentication |-> <<>>,
                vectorAggregatorConfigMapName |-> Unset, config |-> {}]
-----------------------------------------------------------------------------
(***************************************************************************)
(* Edits.  One of the config section makes the section if there is none,   *)
(* with the schema's defaults; an empty string given explicitly stays.     *)
(***************************************************************************)
NewSection == [roleGroupConfigSpec     |-> {[logging |-> {}, resources |-> {}]},
               brokerListenerClass     |-> "cluster-internal",
               bootstrapListenerClass  |-> Unset,
               requestedSecretLifeTime |-> Unset]

Section == IF user.config = {} THEN NewSection ELSE Deref(user.config)
SectionBase == Deref(Section.roleGroupConfigSpec)

SetConfig(section) == user' = [user EXCEPT !.config = {section}]

EditTls == \E v \in TlsSpecs : user' = [user EXCEPT !.tls = v]
EditAuthentication ==
  \E v \in AuthenticationSpecs : user' = [user EXCEPT !.authentication = v]
EditVectorAggregator ==
  \E v \in {Unset, "aggregator"} :
    user' = [user EXCEPT !.vectorAggregatorConfigMapName = v]
EditLogging ==
  \E v \in LoggingSpecs :
    SetConfig([Section EXCEPT !.roleGroupConfigSpec = {[SectionBase EXCEPT !.logging = v]}])
EditResources ==
  \E v \in ResourcesSpecs :
    SetConfig([Section EXCEPT !.roleGroupConfigSpec = {[SectionBase EXCEPT !.resources = v]}])
EditListenerClasses ==
  \E v \in ListenerClasses : \/ SetConfig([Section EXCEPT !.brokerListenerClass = v])
                             \/ SetConfig([Section EXCEPT !.bootstrapListenerClass = v])
EditLifeTime ==
  \E v \in LifeTimes : SetConfig([Section EXCEPT !.requestedSecretLifeTime = v])
RemoveConfig == user' = [user EXCEPT !.config = {}]

Next == \/ EditTls \/ EditAuthentication \/ EditVectorAggregator \/ EditLogging
        \/ EditResources \/ EditListenerClasses \/ EditLifeTime \/ RemoveConfig

Spec == Init /\ [][Next]_vars
-----------------------------------------------------------------------------
(***************************************************************************)
(* The defaults (controller/cluster_config.go), merged into the section    *)
(* before anything is built.  Logging has its default only when the        *)
(* embedded pointer is nil, storage and the three strings whenever they    *)
(* are not set.                                                            *)
(***************************************************************************)
DefaultKafkaConfig ==
  [logging                 |-> {[enableVectorAgent |-> {FALSE}]},
   storage                 |-> {[capacity |-> "2Gi", storageClass |-> Unset]},
   brokerListenerClass     |-> "cluster-internal",
   bootstrapListenerClass  |-> "cluster-internal",
   requestedSecretLifeTime |-> "1d"]

\* Mutation: what the user left empty stays empty.
BugOrDefault(value, default) == value

OrDefault(value, default) == IF value = Unset THEN default ELSE value

\* The storage of the merged resources, which are never nil.
MergeResources(resources) ==
  IF resources = {} \/ Deref(resources).storage = {} THEN DefaultKafkaConfig.storage
  ELSE Deref(resources).storage

\* The spec with the merged config in place of the user's section.
MergeBaseConfig(spec, config) ==
  LET base == IF config.roleGroupConfigSpec = {}
              THEN [logging |-> DefaultKafkaConfig.logging, resources |-> {}]
              ELSE Deref(config.roleGroupConfigSpec)
  IN  [tls                           |-> spec.tls,
       authentication                |-> spec.authentication,
       vectorAggregatorConfigMapName |-> spec.vectorAggregatorConfigMapName,
       logging                       |-> base.logging,
       storage                       |-> MergeResources(base.resources),
       brokerListenerClass           |->
         OrDefault(config.brokerListenerClass, DefaultKafkaConfig.brokerListenerClass),
       bootstrapListenerClass        |->
         OrDefault(config.bootstrapListenerClass, DefaultKafkaConfig.bootstrapListenerClass),
       requestedSecretLifeTime       |->
         OrDefault(config.requestedSecretLifeTime, DefaultKafkaConfig.requestedSecretLifeTime)]

\* RegisterResources hands an empty BrokersConfigSpec to the merge when the user
\* has no section.
EmptyConfig == [roleGroupConfigSpec     |-> {},
                brokerListenerClass     |-> Unset,
                bootstrapListenerClass  |-> Unset,
                requestedSecretLifeTime |-> Unset]

\* What the builders are given.
Cluster ==
  MergeBaseConfig(user, IF user.config = {} THEN EmptyConfig ELSE Deref(user.config))
-----------------------------------------------------------------------------
\* Whatever of the section the user leaves out or empties, mergeBaseConfig leaves
\* no listener class empty (ToAnnotation refuses one, so that the StatefulSet could
\* not be built), and gives a lifetime and the storage; only logging may stay nil,
\* which IsVectorEnable allows for.
TypeOK ==
  /\ user \in UserSpecs
  /\ Cluster.brokerListenerClass \in ListenerClasses \ {Unset}
  /\ Cluster.bootstrapListenerClass \in ListenerClasses \ {Unset}
  /\ Cluster.requestedSecretLifeTime \in (LifeTimes \cup {"1d"}) \ {Unset}
  /\ Cluster.logging \in LoggingSpecs /\ Cluster.storage # {}

Security == NewKafkaSecurity(Cluster)

\* Every named port of the container except the metrics port is one a broker
\* listener binds, no two listeners bind the same port, and none of them takes
\* the port of the JMX exporter: KafkaContainerPorts (util.go) and
\* GetKafkaListenerConfig (listener.go) choose ports independently.
PublishedPortsAreServed ==
  LET listeners == GetKafkaListenerConfig(Security).listeners
      bound == {l.port.number : l \in listeners}
  IN  /\ \A p \in KafkaContainerPorts(Security) :
           p.name # MetricsPortName => p.port \in bound
      /\ \A l, m \in listeners : l.port.number = m.port.number => l = m
      /\ MetricsPort \notin bound

\* Each port that is looked up by name exists under that name: the probes' port
\* in the container, the port discovery publishes in the bootstrap Listener, and
\* the port files of advertised.listeners in the broker listener volume.
NamedPortsResolve ==
  /\ ProbePortName(Security) \in PortNames(KafkaContainerPorts(Security))
  /\ DiscoveryPortName(Security) \in PortNames(BuildBootstrapListener(Cluster).ports)
  /\ \A l \in LaunchCommand(Security).config.advertisedListeners :
       l.host = "listener-broker" =>
         l.port.file \in PortNames(KafkaContainerPorts(Security))

\* The files that a mounted volume or claim contains when the pod starts.
FilesOf(volume, configMap) ==
  CASE volume \in {"config", "log-config"} -> configMap.items
    [] volume \in {"listener-broker", "listener-bootstrap"} ->
         {"address"} \cup PortNames(KafkaContainerPorts(Security))
    [] volume = "listener-kerberos" -> {"keytab", "krb5.conf"}
    [] volume \in {"tls-keystore-server", "tls-keystore-internal"} ->
         {"keystore.p12", "truststore.p12"}
    [] OTHER -> {}

\* Everything the kafka and the vector container read at start is in a volume
\* the pod mounts: the environment (container.go), the start script, and the
\* mounts agree with the volumes and claims of statefulset.go and the items of
\* configmap.go, and no two volumes share a name.  The vector container mounts
\* the config volume of the kafka container (operator-go, external).
FilesAreMounted ==
  \A sts \in BuildStatefulSet(Cluster), cm \in BuildConfigMap(Cluster) :
    LET kafka == sts.kafka
        sources == sts.volumes \cup sts.claims
        available == UNION {{File(m.dir, f) : f \in FilesOf(m.name, cm)} : m \in kafka.mounts}
    IN  /\ UNION {e.reads : e \in kafka.env} \subseteq available
        /\ ScriptReads(Security) \subseteq available
        /\ UNION {v.reads : v \in sts.vector} \subseteq available
        /\ \A m \in kafka.mounts : \E v \in sources : v.name = m.name
        /\ \A v, w \in sources : v.name = w.name => v = w

\* With Kerberos, both TLS classes are set, as in the e2e test of Kerberos; the
\* code gives SSL listeners no key material otherwise.
KerberosHasTls ==
  IsKerberosEnabled(Security) =>
    TlsServerSecretClass(Security) # Unset /\ TlsInternalSecretClass(Security) # Unset

\* The password the secret operator puts on the stores of a volume.
Pkcs12Password(volume) ==
  IF "pkcs12Password" \in DOMAIN volume.annotations
  THEN volume.annotations.pkcs12Password ELSE Unset

\* Every SSL listener has its stores configured, in a directory that is mounted
\* from a volume whose PKCS12 password is the one server.properties gives
\* (listener.go's protocols, ConfigSettings and CreateTlsKeystoreVolume agree).
SslListenersHaveStores ==
  KerberosHasTls =>
    \A sts \in BuildStatefulSet(Cluster) :
      LET protocols == sts.kafka.launch.config.listenerSecurityProtocolMap
          settings == ConfigSettings(Security)
      IN  \A name \in DOMAIN protocols : protocols[name] = "SSL" =>
            /\ StoreKey(name) \in DOMAIN settings
            /\ \E m \in sts.kafka.mounts, v \in sts.volumes :
                 /\ m.dir = settings[StoreKey(name)].dir
                 /\ v.name = m.name
                 /\ settings[StoreKey(name)].password = Pkcs12Password(v)

\* If the ConfigMap can be built then so can the StatefulSet, with a vector
\* container exactly when the ConfigMap carries vector.yaml: the two builders
\* decide separately, and the StatefulSet comes after the ConfigMap in a pass.
VectorAgreement ==
  \A cm \in BuildConfigMap(Cluster) :
    /\ BuildStatefulSet(Cluster) # {}
    /\ \A sts \in BuildStatefulSet(Cluster) :
         sts.vector # {} <=> "vector.yaml" \in cm.items

\* The storage settings as the user gave them, nil when a pointer on the way is.
UserStorage ==
  UNION {r.storage : r \in UNION {b.resources : b \in
           UNION {section.roleGroupConfigSpec : section \in user.config}}}

\* Kubernetes refuses an update of a StatefulSet's volumeClaimTemplates, so no
\* edit other than one of the storage settings may change the claims built, not
\* even one that makes or removes the section around them.
ClaimsFollowStorageOnly ==
  [][UserStorage' = UserStorage =>
       \A before \in {Cluster}, after \in {Cluster'} :
         \A s \in BuildStatefulSet(before), t \in BuildStatefulSet(after) :
           s.claims = t.claims]_vars

\* A requested certificate lifetime reaches the secret operator, as the comment on
\* RequestedSecretLifeTime says (AddVolumeAndVolumeMounts passes it on).
LifeTimeIsRequested ==
  \A v \in TlsVolumes(Security, Cluster.requestedSecretLifeTime) :
    Cluster.requestedSecretLifeTime # Unset => "secretCertLifeTime" \in DOMAIN v.annotations
=============================================================================
