-------------------------- MODULE SpecEdits_proofs --------------------------
(***************************************************************************)
(* The agreement of the builders, for every spec that the schema admits:   *)
(* any SecretClasses, passwords, ListenerClasses and number of             *)
(* authentication entries.                                                 *)
(***************************************************************************)
EXTENDS SpecEdits, SequenceTheorems, TLAPS

(***************************************************************************)
(* The user's spec and the defaults merged into it.                        *)
(***************************************************************************)

\* Dereferencing a pointer that is not nil gives what it points to.
LEMMA DerefOf ==
  ASSUME NEW v
  PROVE  Deref({v}) = v
  BY DEF Deref

\* A pointer that is not nil points to a value of its type.
LEMMA DerefType ==
  ASSUME NEW S, NEW p \in Pointer(S), p # {}
  PROVE  Deref(p) \in S /\ p = {Deref(p)}
  <1>1. PICK v \in S : p = {v}
    BY DEF Pointer
  <1>2. QED
    BY <1>1, DerefOf

\* The section that an edit starts from is one of the schema, and so is what it embeds.
LEMMA SectionType ==
  ASSUME user \in UserSpecs
  PROVE  /\ Section \in BrokersConfigSpecs
         /\ SectionBase \in [logging : LoggingSpecs, resources : ResourcesSpecs]
  <1> DEFINE Base == [logging : LoggingSpecs, resources : ResourcesSpecs]
  <1>1. NewSection \in BrokersConfigSpecs
    <2>1. [logging |-> {}, resources |-> {}] \in Base
      BY DEF LoggingSpecs, ResourcesSpecs, Pointer
    <2> DEFINE nothing == [logging |-> {}, resources |-> {}]
    <2> HIDE DEF nothing, Base
    <2>2. {nothing} \in {{c} : c \in Base}
      BY <2>1 DEF nothing
    <2>3. NewSection = [roleGroupConfigSpec     |-> {nothing},
                        brokerListenerClass     |-> "cluster-internal",
                        bootstrapListenerClass  |-> Unset,
                        requestedSecretLifeTime |-> Unset]
      BY DEF NewSection, nothing
    <2>4. QED
      BY <2>2, <2>3, EditsAssumption DEF BrokersConfigSpecs, Base
  <1>2. user.config # {} => Deref(user.config) \in BrokersConfigSpecs
    BY DerefType DEF UserSpecs
  <1>3. Section \in BrokersConfigSpecs
    BY <1>1, <1>2 DEF Section
  <1>4. PICK c \in Base : Section.roleGroupConfigSpec = {c}
    BY <1>3 DEF BrokersConfigSpecs
  <1>5. SectionBase = c
    BY <1>4, DerefOf DEF SectionBase
  <1>6. QED
    BY <1>3, <1>4, <1>5

\* An edit of the section leaves the rest of the spec alone.
LEMMA SetConfigType ==
  ASSUME user \in UserSpecs, NEW section \in BrokersConfigSpecs, SetConfig(section)
  PROVE  user' \in UserSpecs
  <1>1. {section} \in Pointer(BrokersConfigSpecs)
    BY DEF Pointer
  <1>2. QED
    BY <1>1 DEF SetConfig, UserSpecs

\* Every edit leaves a spec that the schema admits.
LEMMA UserSpecsType == Spec => [](user \in UserSpecs)
  <1>1. Init => user \in UserSpecs
    <2>1. <<>> \in AuthenticationSpecs
      <3>1. <<>> \in [1..0 -> [kerberos : Pointer(SecretClasses)]]
        OBVIOUS
      <3>2. 0 \in 0..MaxAuthentications
        BY EditsAssumption
      <3>3. QED
        BY <3>1, <3>2 DEF AuthenticationSpecs
    <2>2. {} \in TlsSpecs /\ {} \in Pointer(BrokersConfigSpecs)
      BY DEF TlsSpecs, Pointer
    <2>3. QED
      BY <2>1, <2>2 DEF Init, UserSpecs
  <1>2. user \in UserSpecs /\ [Next]_vars => (user \in UserSpecs)'
    <2> SUFFICES ASSUME user \in UserSpecs, [Next]_vars
                 PROVE  user' \in UserSpecs
      OBVIOUS
    <2>1. CASE EditTls \/ EditAuthentication \/ EditVectorAggregator
      BY <2>1 DEF EditTls, EditAuthentication, EditVectorAggregator, UserSpecs
    <2>2. ASSUME NEW base \in [logging : LoggingSpecs, resources : ResourcesSpecs]
          PROVE  [Section EXCEPT !.roleGroupConfigSpec = {base}] \in BrokersConfigSpecs
      BY <2>2, SectionType DEF BrokersConfigSpecs
    <2>3. CASE EditLogging
      <3>1. PICK v \in LoggingSpecs :
              SetConfig([Section EXCEPT
                           !.roleGroupConfigSpec = {[SectionBase EXCEPT !.logging = v]}])
        BY <2>3 DEF EditLogging
      <3>2. [SectionBase EXCEPT !.logging = v]
              \in [logging : LoggingSpecs, resources : ResourcesSpecs]
        BY SectionType
      <3>3. QED
        BY <2>2, <3>1, <3>2, SetConfigType
    <2>4. CASE EditResources
      <3>1. PICK v \in ResourcesSpecs :
              SetConfig([Section EXCEPT
                           !.roleGroupConfigSpec = {[SectionBase EXCEPT !.resources = v]}])
        BY <2>4 DEF EditResources
      <3>2. [SectionBase EXCEPT !.resources = v]
              \in [logging : LoggingSpecs, resources : ResourcesSpecs]
        BY SectionType
      <3>3. QED
        BY <2>2, <3>1, <3>2, SetConfigType
    <2>5. CASE EditListenerClasses
      <3>1. PICK v \in ListenerClasses :
              \/ SetConfig([Section EXCEPT !.brokerListenerClass = v])
              \/ SetConfig([Section EXCEPT !.bootstrapListenerClass = v])
        BY <2>5 DEF EditListenerClasses
      <3>2. /\ [Section EXCEPT !.brokerListenerClass = v] \in BrokersConfigSpecs
            /\ [Section EXCEPT !.bootstrapListenerClass = v] \in BrokersConfigSpecs
        BY SectionType DEF BrokersConfigSpecs
      <3>3. QED
        BY <3>1, <3>2, SetConfigType
    <2>6. CASE EditLifeTime
      <3>1. PICK v \in LifeTimes : SetConfig([Section EXCEPT !.requestedSecretLifeTime = v])
        BY <2>6 DEF EditLifeTime
      <3>2. [Section EXCEPT !.requestedSecretLifeTime = v] \in BrokersConfigSpecs
        BY SectionType DEF BrokersConfigSpecs
      <3>3. QED
        BY <3>1, <3>2, SetConfigType
    <2>7. CASE RemoveConfig
      BY <2>7 DEF RemoveConfig, UserSpecs, Pointer
    <2>8. CASE UNCHANGED vars
      BY <2>8 DEF vars
    <2>9. QED
      BY <2>1, <2>3, <2>4, <2>5, <2>6, <2>7, <2>8 DEF Next
  <1>3. QED
    BY <1>1, <1>2, PTL DEF Spec

\* The default names are not empty.
LEMMA DefaultsAreSet == "cluster-internal" # Unset /\ "1d" # Unset
  BY Zenon DEF Unset

\* mergeBaseConfig keeps a string of the user's and fills in an empty one.
LEMMA OrDefaultOf ==
  ASSUME NEW S, NEW value \in S, NEW default \in S, default # Unset
  PROVE  OrDefault(value, default) \in S \ {Unset}
  BY DEF OrDefault

\* mergeResources keeps the user's storage, and there is one in any case.
LEMMA MergedStorage ==
  ASSUME NEW resources \in ResourcesSpecs
  PROVE  LET given == UNION {r.storage : r \in resources}
         IN  /\ MergeResources(resources) =
                  IF given = {} THEN DefaultKafkaConfig.storage ELSE given
             /\ MergeResources(resources) # {}
  <1>1. DefaultKafkaConfig.storage # {}
    BY Zenon DEF DefaultKafkaConfig
  <1>2. CASE resources = {}
    BY <1>1, <1>2 DEF MergeResources
  <1>3. CASE resources # {}
    <2>1. PICK r : resources = {r}
      BY <1>3, DerefType DEF ResourcesSpecs
    <2>2. Deref(resources) = r /\ UNION {x.storage : x \in resources} = r.storage
      BY <2>1, DerefOf
    <2>3. QED
      BY <1>1, <1>3, <2>2 DEF MergeResources
  <1>4. QED
    BY <1>2, <1>3

\* What the merge makes of a user's spec.
LEMMA MergedSpec ==
  user \in UserSpecs =>
    /\ Cluster.brokerListenerClass \in ListenerClasses \ {Unset}
    /\ Cluster.bootstrapListenerClass \in ListenerClasses \ {Unset}
    /\ Cluster.requestedSecretLifeTime \in (LifeTimes \cup {"1d"}) \ {Unset}
    /\ Cluster.logging \in LoggingSpecs /\ Cluster.storage # {}
    /\ Cluster.storage = IF UserStorage = {} THEN DefaultKafkaConfig.storage ELSE UserStorage
  <1> SUFFICES ASSUME user \in UserSpecs
               PROVE  /\ Cluster.brokerListenerClass \in ListenerClasses \ {Unset}
                      /\ Cluster.bootstrapListenerClass \in ListenerClasses \ {Unset}
                      /\ Cluster.requestedSecretLifeTime \in (LifeTimes \cup {"1d"}) \ {Unset}
                      /\ Cluster.logging \in LoggingSpecs /\ Cluster.storage # {}
                      /\ Cluster.storage =
                           IF UserStorage = {} THEN DefaultKafkaConfig.storage ELSE UserStorage
    OBVIOUS
  <1> DEFINE config == IF user.config = {} THEN EmptyConfig ELSE Deref(user.config)
             base == IF config.roleGroupConfigSpec = {}
                     THEN [logging |-> DefaultKafkaConfig.logging, resources |-> {}]
                     ELSE Deref(config.roleGroupConfigSpec)
  <1>1. /\ config.brokerListenerClass \in ListenerClasses
        /\ config.bootstrapListenerClass \in ListenerClasses
        /\ config.requestedSecretLifeTime \in LifeTimes
    <2>1. CASE user.config = {}
      BY <2>1, EditsAssumption DEF EmptyConfig
    <2>2. CASE user.config # {}
      BY <2>2, DerefType DEF UserSpecs, BrokersConfigSpecs
    <2>3. QED
      BY <2>1, <2>2
  <1>2. /\ base.logging \in LoggingSpecs /\ base.resources \in ResourcesSpecs
        /\ UserStorage = UNION {r.storage : r \in base.resources}
    <2>1. CASE user.config = {}
      <3>1. config.roleGroupConfigSpec = {}
        BY <2>1 DEF EmptyConfig
      <3>2. base.logging = {[enableVectorAgent |-> {FALSE}]} /\ base.resources = {}
        BY <3>1 DEF DefaultKafkaConfig
      <3>3. base.logging \in LoggingSpecs
        BY <3>2, Zenon DEF LoggingSpecs, Pointer
      <3>4. {} \in ResourcesSpecs
        BY DEF ResourcesSpecs, Pointer
      <3>5. UserStorage = {}
        BY <2>1 DEF UserStorage
      <3>6. QED
        BY <3>2, <3>3, <3>4, <3>5
    <2>2. CASE user.config # {}
      <3>1. /\ user.config = {config} /\ config \in BrokersConfigSpecs
        BY <2>2, DerefType DEF UserSpecs
      <3>2. PICK c \in [logging : LoggingSpecs, resources : ResourcesSpecs] :
              config.roleGroupConfigSpec = {c}
        BY <3>1 DEF BrokersConfigSpecs
      <3>3. base = c
        BY <3>2, DerefOf
      <3> HIDE DEF config, base
      <3>4. UNION {section.roleGroupConfigSpec : section \in user.config} = {c}
        BY <3>1, <3>2
      <3>5. UNION {b.resources : b \in {c}} = c.resources
        OBVIOUS
      <3>6. UserStorage = UNION {r.storage : r \in c.resources}
        BY <3>4, <3>5 DEF UserStorage
      <3>7. QED
        BY <3>2, <3>3, <3>6
    <2>3. QED
      BY <2>1, <2>2
  <1>3. /\ Cluster.brokerListenerClass = OrDefault(config.brokerListenerClass, "cluster-internal")
        /\ Cluster.bootstrapListenerClass =
             OrDefault(config.bootstrapListenerClass, "cluster-internal")
        /\ Cluster.requestedSecretLifeTime = OrDefault(config.requestedSecretLifeTime, "1d")
        /\ Cluster.logging = base.logging /\ Cluster.storage = MergeResources(base.resources)
    <2>1. /\ DefaultKafkaConfig.brokerListenerClass = "cluster-internal"
          /\ DefaultKafkaConfig.bootstrapListenerClass = "cluster-internal"
          /\ DefaultKafkaConfig.requestedSecretLifeTime = "1d"
      BY DEF DefaultKafkaConfig
    <2>2. Cluster = MergeBaseConfig(user, config)
      BY DEF Cluster
    <2> HIDE DEF config
    <2>3. QED
      BY <2>1, <2>2 DEF MergeBaseConfig
  <1> HIDE DEF config, base
  <1>4. /\ Cluster.brokerListenerClass \in ListenerClasses \ {Unset}
        /\ Cluster.bootstrapListenerClass \in ListenerClasses \ {Unset}
    BY <1>1, <1>3, OrDefaultOf, DefaultsAreSet, EditsAssumption
  <1>5. Cluster.requestedSecretLifeTime \in (LifeTimes \cup {"1d"}) \ {Unset}
    <2> DEFINE S == LifeTimes \cup {"1d"}
    <2>1. config.requestedSecretLifeTime \in S /\ "1d" \in S
      BY <1>1
    <2> HIDE DEF S
    <2>2. OrDefault(config.requestedSecretLifeTime, "1d") \in S \ {Unset}
      BY <2>1, OrDefaultOf, DefaultsAreSet
    <2>3. QED
      BY <1>3, <2>2 DEF S
  <1>6. QED
    BY <1>2, <1>3, <1>4, <1>5, MergedStorage

\* Whatever the user leaves out or empties, the config that mergeBaseConfig
\* leaves has both listener classes, a lifetime and storage.
THEOREM MergedConfigComplete == Spec => []TypeOK
  <1>1. user \in UserSpecs => TypeOK
    BY MergedSpec DEF TypeOK
  <1>2. QED
    BY <1>1, UserSpecsType, PTL
-----------------------------------------------------------------------------
(***************************************************************************)
(* The security settings.                                                  *)
(***************************************************************************)

\* The client's AuthenticationClass is never resolved.
LEMMA NoClientAuthentication == TlsClientAuthenticationClass(Security) = Unset
  BY DEF TlsClientAuthenticationClass, Security, NewKafkaSecurity

\* What is enabled is a Boolean.
LEMMA Enabled ==
  ASSUME NEW k
  PROVE  TlsEnabled(k) \in BOOLEAN /\ IsKerberosEnabled(k) \in BOOLEAN
         /\ InternalIsSecure(k) \in BOOLEAN
  BY DEF TlsEnabled, IsKerberosEnabled, InternalIsSecure

\* The listeners by what is enabled.
LEMMA ListenersOf ==
  ASSUME NEW k, TlsClientAuthenticationClass(k) = Unset
  PROVE  /\ ListenerNames(k) = {"CLIENT", "INTERNAL"}
                               \cup (IF IsKerberosEnabled(k) THEN {"BOOTSTRAP"} ELSE {})
         /\ GetKafkaListenerConfig(k).listeners =
              {Listener("CLIENT", ClientPort(k)), Listener("INTERNAL", InternalPort(k))}
              \cup (IF IsKerberosEnabled(k) THEN {Listener("BOOTSTRAP", BootstrapPort(k))} ELSE {})
         /\ \A l \in GetKafkaListenerConfig(k).advertisedListeners :
              l.host = "listener-broker" => l.port.file = ClientPortName(k)
  <1>1. ClientListenerName(k) = "CLIENT"
    BY DEF ClientListenerName
  <1>2. ClientListenerPort(k) = ClientPort(k)
    BY Enabled DEF ClientListenerPort, ClientPort
  <1>3. ListenerNames(k) = {"CLIENT", "INTERNAL"}
                               \cup (IF IsKerberosEnabled(k) THEN {"BOOTSTRAP"} ELSE {})
    BY <1>1 DEF ListenerNames
  <1>4. ListenerNames(k) \cap {"BOOTSTRAP"} = IF IsKerberosEnabled(k) THEN {"BOOTSTRAP"} ELSE {}
    BY <1>3, Enabled
  <1>5. GetKafkaListenerConfig(k).listeners =
          {Listener("CLIENT", ClientPort(k)), Listener("INTERNAL", InternalPort(k))}
          \cup {Listener(n, BootstrapPort(k)) : n \in ListenerNames(k) \cap {"BOOTSTRAP"}}
    BY <1>1, <1>2 DEF GetKafkaListenerConfig
  <1>6. ASSUME NEW l \in GetKafkaListenerConfig(k).advertisedListeners, l.host = "listener-broker"
        PROVE  l.port.file = ClientPortName(k)
    <2>1. l = PodListener("INTERNAL", InternalPort(k)) \/ \E n : l = NodeListener(n, k)
      BY <1>6 DEF GetKafkaListenerConfig
    <2>2. PodListener("INTERNAL", InternalPort(k)).host # "listener-broker"
      BY DEF PodListener
    <2>3. \A n : NodeListener(n, k).port.file = ClientPortName(k)
      BY DEF NodeListener, PortFile
    <2>4. QED
      BY <1>6, <2>1, <2>2, <2>3
  <1>7. QED
    BY <1>3, <1>4, <1>5, <1>6, Enabled

\* The named ports by what is enabled.
LEMMA PortsOf ==
  ASSUME NEW k
  PROVE  PortNames(KafkaContainerPorts(k)) =
           {ClientPortName(k), MetricsPortName}
           \cup (IF IsKerberosEnabled(k) THEN {BootstrapPortName} ELSE {})
  <1>1. CASE IsKerberosEnabled(k)
    BY <1>1 DEF PortNames, KafkaContainerPorts
  <1>2. CASE ~IsKerberosEnabled(k)
    BY <1>2 DEF PortNames, KafkaContainerPorts
  <1>3. QED
    BY <1>1, <1>2

\* Every port that is looked up by name exists under that name, whatever security is
\* configured: util.go, listener.go, container.go and discovery.go agree.
THEOREM NamedPorts == Spec => []NamedPortsResolve
  <1>1. NamedPortsResolve
    <2>1. ProbePortName(Security) \in PortNames(KafkaContainerPorts(Security))
      BY PortsOf DEF ProbePortName
    <2>2. DiscoveryPortName(Security) \in PortNames(BuildBootstrapListener(Cluster).ports)
      <3>1. BuildBootstrapListener(Cluster).ports = KafkaContainerPorts(Security)
        BY DEF BuildBootstrapListener, Security
      <3>2. QED
        BY <3>1, PortsOf, Enabled DEF DiscoveryPortName
    <2>3. ASSUME NEW l \in LaunchCommand(Security).config.advertisedListeners,
                 l.host = "listener-broker"
          PROVE  l.port.file \in PortNames(KafkaContainerPorts(Security))
      <3>1. LaunchCommand(Security).config = GetKafkaListenerConfig(Security)
        BY DEF LaunchCommand
      <3>2. l.port.file = ClientPortName(Security)
        BY <2>3, <3>1, NoClientAuthentication, ListenersOf
      <3>3. QED
        BY <3>2, PortsOf
    <2>4. QED
      BY <2>1, <2>2, <2>3 DEF NamedPortsResolve
  <1>2. QED
    BY <1>1, PTL

\* Every published port is bound by exactly one listener, and none takes the port of
\* the JMX exporter.
THEOREM PortsServed == Spec => []PublishedPortsAreServed
  <1>1. PublishedPortsAreServed
    <2> DEFINE k == Security
               client == Listener("CLIENT", ClientPort(k))
               internal == Listener("INTERNAL", InternalPort(k))
               bootstrap == Listener("BOOTSTRAP", BootstrapPort(k))
               listeners == GetKafkaListenerConfig(k).listeners
               bound == {l.port.number : l \in listeners}
    <2>1. listeners = {client, internal} \cup (IF IsKerberosEnabled(k) THEN {bootstrap} ELSE {})
      BY NoClientAuthentication, ListenersOf
    <2>2. /\ client.port.number = ClientPort(k) /\ internal.port.number = InternalPort(k)
          /\ bootstrap.port.number = BootstrapPort(k)
      BY DEF Listener, Number
    <2>3. /\ ClientPort(k) \in {9092, 9093} /\ BootstrapPort(k) \in {9094, 9095}
          /\ InternalPort(k) \in {19092, 19093} /\ MetricsPort = 9606
      BY DEF ClientPort, BootstrapPort, InternalPort, MetricsPort
    <2> HIDE DEF client, internal, bootstrap, listeners, k
    <2>4. bound = {ClientPort(k), InternalPort(k)}
                  \cup (IF IsKerberosEnabled(k) THEN {BootstrapPort(k)} ELSE {})
      BY <2>1, <2>2, Enabled
    <2> HIDE DEF bound
    <2>5. ASSUME NEW p \in KafkaContainerPorts(k), p.name # MetricsPortName PROVE p.port \in bound
      BY <2>4, <2>5, Enabled DEF KafkaContainerPorts
    <2>6. ASSUME NEW l \in listeners, NEW m \in listeners, l.port.number = m.port.number
          PROVE  l = m
      BY <2>1, <2>2, <2>3, <2>6, Enabled
    <2>7. MetricsPort \notin bound
      BY <2>3, <2>4, Enabled
    <2>8. QED
      BY <2>5, <2>6, <2>7 DEF PublishedPortsAreServed, bound, listeners, k
  <1>2. QED
    BY <1>1, PTL
-----------------------------------------------------------------------------
\* The fields of a StatefulSet that was built.
LEMMA StatefulSetOf ==
  ASSUME NEW c, NEW sts \in BuildStatefulSet(c)
  PROVE  LET k == NewKafkaSecurity(c) IN
         \E enabled \in IsVectorEnable(c.logging), volumes \in Volumes(c) :
           /\ sts.vector = IF enabled THEN {VectorContainer} ELSE {}
           /\ sts.volumes = volumes \cup TlsVolumes(k, c.requestedSecretLifeTime)
           /\ sts.claims = BootstrapListenerPvc \cup {DataPvc(c)}
           /\ sts.kafka.mounts = VolumeMounts(k) \cup TlsVolumeMounts(k)
           /\ sts.kafka.env = ContainerEnv(k)
           /\ sts.kafka.launch = LaunchCommand(k)
  <1> DEFINE k == NewKafkaSecurity(c)
             main == MainContainer(k)
             agent(enabled) == IF enabled THEN {VectorContainer} ELSE {}
             built(enabled, volumes) ==
               [kafka      |-> [main EXCEPT !.mounts = @ \cup TlsVolumeMounts(k)],
                vector     |-> agent(enabled),
                volumes    |-> volumes \cup TlsVolumes(k, c.requestedSecretLifeTime),
                claims     |-> BootstrapListenerPvc \cup {DataPvc(c)},
                podManagement |-> "Parallel"]
  <1>1. PICK enabled \in IsVectorEnable(c.logging), volumes \in Volumes(c) :
          sts = built(enabled, volumes)
    BY SMT DEF BuildStatefulSet
  <1> HIDE DEF agent
  <1>2. /\ sts.vector = agent(enabled)
        /\ sts.volumes = volumes \cup TlsVolumes(k, c.requestedSecretLifeTime)
        /\ sts.claims = BootstrapListenerPvc \cup {DataPvc(c)}
        /\ sts.kafka = [main EXCEPT !.mounts = @ \cup TlsVolumeMounts(k)]
    BY <1>1
  <1>3. /\ sts.kafka.mounts = VolumeMounts(k) \cup TlsVolumeMounts(k)
        /\ sts.kafka.env = ContainerEnv(k)
        /\ sts.kafka.launch = LaunchCommand(k)
    BY <1>2 DEF MainContainer
  <1>4. QED
    BY <1>2, <1>3, Zenon DEF agent

\* A StatefulSet is built unless the vector agent's pointer or the listener
\* volume is missing.
LEMMA StatefulSetBuilt ==
  ASSUME NEW c, NEW enabled \in IsVectorEnable(c.logging), NEW volumes \in Volumes(c)
  PROVE  BuildStatefulSet(c) # {}
  <1> DEFINE k == NewKafkaSecurity(c)
             main == MainContainer(k)
             built(e, v) ==
               [kafka      |-> [main EXCEPT !.mounts = @ \cup TlsVolumeMounts(k)],
                vector     |-> IF e THEN {VectorContainer} ELSE {},
                volumes    |-> v \cup TlsVolumes(k, c.requestedSecretLifeTime),
                claims     |-> BootstrapListenerPvc \cup {DataPvc(c)},
                podManagement |-> "Parallel"]
  <1>1. BuildStatefulSet(c) =
          {built(e, v) : e \in IsVectorEnable(c.logging), v \in Volumes(c)}
    BY DEF BuildStatefulSet
  <1> HIDE DEF built
  <1>2. built(enabled, volumes) \in BuildStatefulSet(c)
    BY <1>1
  <1>3. QED
    BY <1>2

\* The claims built depend on the storage settings alone.
LEMMA ClaimsByStorage ==
  ASSUME NEW c, NEW d, c.storage = d.storage
  PROVE  DataPvc(c) = DataPvc(d)
  BY DEF DataPvc

\* No edit that leaves the storage settings alone changes the claims of the
\* StatefulSet that statefulset.go builds.
THEOREM ClaimsFollowStorage == Spec => ClaimsFollowStorageOnly
  <1> DEFINE Same == UserStorage' = UserStorage =>
                       \A before \in {Cluster}, after \in {Cluster'} :
                         \A s \in BuildStatefulSet(before), t \in BuildStatefulSet(after) :
                           s.claims = t.claims
             Stored == Cluster.storage =
                         IF UserStorage = {} THEN DefaultKafkaConfig.storage ELSE UserStorage
  <1>1. user \in UserSpecs => Stored
    BY MergedSpec
  <1>2. Stored /\ Stored' => Same
    <2> SUFFICES ASSUME Stored, Stored', UserStorage' = UserStorage
                 PROVE  \A s \in BuildStatefulSet(Cluster), t \in BuildStatefulSet(Cluster') :
                          s.claims = t.claims
      BY Zenon
    <2>1. Cluster'.storage = Cluster.storage
      OBVIOUS
    <2>2. \A s \in BuildStatefulSet(Cluster) :
            s.claims = BootstrapListenerPvc \cup {DataPvc(Cluster)}
      BY StatefulSetOf
    <2>3. \A t \in BuildStatefulSet(Cluster') :
            t.claims = BootstrapListenerPvc \cup {DataPvc(Cluster')}
      BY StatefulSetOf
    <2>4. QED
      BY <2>1, <2>2, <2>3, ClaimsByStorage, Zenon
  <1>3. Stored /\ Stored' => [Same]_vars
    BY <1>2
  <1>4. QED
    BY <1>1, <1>3, UserSpecsType, PTL DEF ClaimsFollowStorageOnly

\* A broker's listener volume is always built: the merged listener class is not empty.
LEMMA ListenerVolume ==
  ASSUME NEW class, class # Unset, NEW name
  PROVE  BuildEphemeral(name, class) =
           {[name |-> name, annotation |-> [class |-> class], claim |-> ListenerClaimSpec]}
  <1>1. ToAnnotation(class, Unset) = {[class |-> class]}
    BY DEF ToAnnotation
  <1>2. QED
    BY <1>1 DEF BuildEphemeral

\* The volumes of the pod, the TLS volumes aside.
LEMMA VolumesOf ==
  ASSUME NEW c, c.brokerListenerClass # Unset
  PROVE  Volumes(c) =
           {{[name |-> "log", emptyDir |-> TRUE],
             [name |-> "log-config", configMap |-> RoleGroupConfigMapName],
             [name |-> "config", configMap |-> RoleGroupConfigMapName],
             [name |-> "listener-broker", annotation |-> [class |-> c.brokerListenerClass],
              claim |-> ListenerClaimSpec]}
            \cup (IF IsKerberosEnabled(NewKafkaSecurity(c))
                  THEN KerberosVolumes(NewKafkaSecurity(c)) ELSE {})}
  <1>1. BuildEphemeral("listener-broker", c.brokerListenerClass) =
          {[name |-> "listener-broker", annotation |-> [class |-> c.brokerListenerClass],
            claim |-> ListenerClaimSpec]}
    BY ListenerVolume
  <1>2. QED
    BY <1>1, Zenon DEF Volumes

\* Whether the vector agent is enabled: nil (a panic), on or off.
LEMMA AgentOf ==
  ASSUME NEW logging \in LoggingSpecs
  PROVE  /\ IsVectorEnable(logging) \in {{}, {TRUE}, {FALSE}}
         /\ IsVectorEnable(logging) = {TRUE} =>
              logging # {} /\ Deref(logging).enableVectorAgent = {TRUE}
  <1>1. CASE logging = {}
    BY <1>1, Zenon DEF IsVectorEnable
  <1>2. CASE logging # {}
    <2>1. IsVectorEnable(logging) = Deref(logging).enableVectorAgent
      BY <1>2 DEF IsVectorEnable
    <2>2. PICK r \in [enableVectorAgent : Pointer(BOOLEAN)] : logging = {r}
      BY <1>2 DEF LoggingSpecs, Pointer
    <2>3. r.enableVectorAgent \in Pointer(BOOLEAN)
      BY <2>2
    <2>4. \A p \in Pointer(BOOLEAN) : p \in {{}, {TRUE}, {FALSE}}
      BY Zenon DEF Pointer
    <2>5. Deref(logging) = r
      BY <2>2, DerefOf, Zenon
    <2>6. QED
      BY <1>2, <2>1, <2>3, <2>4, <2>5, Zenon
  <1>3. QED
    BY <1>1, <1>2, Zenon

\* The items of a ConfigMap that was built, by whether the agent is enabled.
LEMMA ConfigMapOf ==
  ASSUME NEW c, c.logging \in LoggingSpecs, NEW cm \in BuildConfigMap(c)
  PROVE  /\ IsVectorEnable(c.logging) \in {{TRUE}, {FALSE}}
         /\ PropertyFiles \subseteq cm.items
         /\ "vector.yaml" \in cm.items <=> IsVectorEnable(c.logging) = {TRUE}
  <1> DEFINE enabled == IsVectorEnable(c.logging)
             choices == IF enabled = {TRUE} THEN BuildVectorConfig(c) ELSE {{} : e \in enabled}
  <1>a. PICK vectorItems \in choices :
          cm = [items    |-> PropertyFiles \cup vectorItems,
                settings |-> ConfigSettings(NewKafkaSecurity(c))]
    BY Zenon DEF BuildConfigMap
  <1>1. vectorItems \in choices /\ cm.items = PropertyFiles \cup vectorItems
    BY <1>a, Zenon
  <1>2. "vector.yaml" \notin PropertyFiles
    BY DEF PropertyFiles
  <1>3. enabled \in {{}, {TRUE}, {FALSE}}
    BY AgentOf, Zenon
  <1>4. CASE enabled = {TRUE}
    <2>1. c.logging # {} /\ Deref(c.logging).enableVectorAgent = {TRUE}
      BY <1>4, AgentOf, Zenon
    <2>2. Deref({TRUE}) = TRUE
      BY DerefOf, Zenon
    <2>3. BuildVectorConfig(c) \subseteq {{"vector.yaml"}}
      <3>1. Deref(c.logging).enableVectorAgent # {}
        BY <2>1, Zenon
      <3>2. BuildVectorConfig(c) =
              IF c.vectorAggregatorConfigMapName = Unset THEN {}
              ELSE {IF Deref({TRUE}) THEN {"vector.yaml"} ELSE {}}
        BY <2>1, <3>1, Zenon DEF BuildVectorConfig
      <3>3. QED
        BY <2>2, <3>2, Zenon
    <2>4. vectorItems = {"vector.yaml"}
      BY <1>1, <1>4, <2>3
    <2>5. QED
      BY <1>1, <1>4, <2>4, Zenon
  <1>5. CASE enabled # {TRUE}
    <2>1. vectorItems = {} /\ enabled # {}
      BY <1>1, <1>5, Zenon
    <2>2. QED
      BY <1>1, <1>2, <1>3, <1>5, <2>1, Zenon
  <1>6. QED
    BY <1>4, <1>5, Zenon

\* The ConfigMap can be built only if the StatefulSet can, and carries vector.yaml
\* exactly when there is a vector container, although configmap.go and
\* statefulset.go decide separately.
LEMMA BuildersAgree ==
  ASSUME TypeOK
  PROVE  VectorAgreement
  <1> SUFFICES ASSUME NEW cm \in BuildConfigMap(Cluster)
               PROVE  /\ BuildStatefulSet(Cluster) # {}
                      /\ \A sts \in BuildStatefulSet(Cluster) :
                           sts.vector # {} <=> "vector.yaml" \in cm.items
    BY DEF VectorAgreement
  <1>1. Cluster.logging \in LoggingSpecs /\ Cluster.brokerListenerClass # Unset
    BY EditsAssumption DEF TypeOK
  <1>2. /\ IsVectorEnable(Cluster.logging) \in {{TRUE}, {FALSE}}
        /\ "vector.yaml" \in cm.items <=> IsVectorEnable(Cluster.logging) = {TRUE}
    BY <1>1, ConfigMapOf, Zenon
  <1>3. PICK volumes : volumes \in Volumes(Cluster)
    BY <1>1, VolumesOf, Zenon
  <1>4. BuildStatefulSet(Cluster) # {}
    <2>1. PICK enabled : enabled \in IsVectorEnable(Cluster.logging)
      BY <1>2, Zenon
    <2>2. QED
      BY <1>3, <2>1, StatefulSetBuilt
  <1>5. ASSUME NEW sts \in BuildStatefulSet(Cluster)
        PROVE  sts.vector # {} <=> "vector.yaml" \in cm.items
    <2>1. PICK enabled \in IsVectorEnable(Cluster.logging) :
            sts.vector = IF enabled THEN {VectorContainer} ELSE {}
      BY StatefulSetOf, Zenon
    <2>2. CASE IsVectorEnable(Cluster.logging) = {TRUE}
      <3>1. enabled = TRUE
        BY <2>1, <2>2, Zenon
      <3>2. sts.vector # {}
        BY <2>1, <3>1
      <3>3. QED
        BY <1>2, <2>2, <3>2, Zenon
    <2>3. CASE IsVectorEnable(Cluster.logging) = {FALSE}
      <3>1. enabled = FALSE
        BY <2>1, <2>3, Zenon
      <3>2. sts.vector = {}
        BY <2>1, <3>1
      <3>3. {FALSE} # {TRUE}
        BY Zenon
      <3>4. QED
        BY <1>2, <2>3, <3>2, <3>3, Zenon
    <2>4. QED
      BY <1>2, <2>2, <2>3, Zenon
  <1>6. QED
    BY <1>4, <1>5

\* The two builders agree on the vector agent in every reachable spec.
THEOREM VectorAgreementHolds == Spec => []VectorAgreement
  <1>1. TypeOK => VectorAgreement
    BY BuildersAgree
  <1>2. QED
    BY <1>1, MergedConfigComplete, PTL
-----------------------------------------------------------------------------
\* The claim on the bootstrap listener names the group's Listener.
LEMMA BootstrapClaim ==
  BootstrapListenerPvc = {[name       |-> "listener-bootstrap",
                           annotation |-> [listener |-> BootstrapListenerName],
                           claim      |-> ListenerClaimSpec]}
  <1>1. BootstrapListenerName # Unset
    BY Zenon DEF BootstrapListenerName, Unset
  <1>2. ToAnnotation(Unset, BootstrapListenerName) = {[listener |-> BootstrapListenerName]}
    BY <1>1 DEF ToAnnotation
  <1>3. QED
    BY <1>2 DEF BootstrapListenerPvc, BuildPVC

\* The start script exports the Kerberos realm only with Kerberos.
LEMMA RealmExport ==
  ASSUME NEW k, NEW i \in DOMAIN CommandArgs(k), CommandArgs(k)[i] = "export_KERBEROS_REALM"
  PROVE  IsKerberosEnabled(k)
  <1> SUFFICES ASSUME ~IsKerberosEnabled(k) PROVE FALSE
    OBVIOUS
  <1> DEFINE Other == {"set_x", "trap_functions", "remove_vector_shutdown_file",
                       "prepare_signal_handlers", "launch", "wait_for_termination",
                       "create_vector_shutdown_file"}
             before == <<"set_x", "trap_functions", "remove_vector_shutdown_file",
                         "prepare_signal_handlers">>
             after == <<"launch", "wait_for_termination", "create_vector_shutdown_file">>
  <1>1. CommandArgs(k) = (before \o <<>>) \o after
    BY Zenon DEF CommandArgs
  <1>2. before \in Seq(Other) /\ after \in Seq(Other)
    OBVIOUS
  <1>3. <<>> \in Seq(Other)
    BY EmptySeq
  <1> HIDE DEF before, after, Other
  <1>4. CommandArgs(k) \in Seq(Other)
    <2>1. before \o <<>> \in Seq(Other)
      BY <1>2, <1>3, ConcatProperties
    <2>2. QED
      BY <1>1, <1>2, <2>1, ConcatProperties
  <1>5. CommandArgs(k)[i] \in Other
    BY <1>4, ElementOfSeq, LenProperties
  <1>6. QED
    BY <1>5 DEF Other

\* The files below the directories of a container's mounts.
Available(mounts, cm) ==
  UNION {{File(m.dir, f) : f \in FilesOf(m.name, cm)} : m \in mounts}

\* What each mount of the kafka container makes available.
LEMMA AvailableFiles ==
  ASSUME NEW cm, NEW mounts, VolumeMounts(Security) \subseteq mounts
  PROVE  /\ \A f \in cm.items : File("config", f) \in Available(mounts, cm)
         /\ \A f \in cm.items : File("log_config", f) \in Available(mounts, cm)
         /\ \A f \in {"address"} \cup PortNames(KafkaContainerPorts(Security)) :
              /\ File("listener-broker", f) \in Available(mounts, cm)
              /\ File("listener-bootstrap", f) \in Available(mounts, cm)
         /\ IsKerberosEnabled(Security) =>
              \A f \in {"keytab", "krb5.conf"} : File("kerberos", f) \in Available(mounts, cm)
  <1>1. ASSUME NEW name, NEW dir, Mount(name, dir) \in mounts, NEW f \in FilesOf(name, cm)
        PROVE  File(dir, f) \in Available(mounts, cm)
    <2>1. Mount(name, dir).name = name /\ Mount(name, dir).dir = dir
      BY DEF Mount
    <2>2. File(dir, f) \in {File(Mount(name, dir).dir, g) : g \in FilesOf(Mount(name, dir).name, cm)}
      BY <2>1
    <2>3. \A m \in mounts :
            {File(m.dir, g) : g \in FilesOf(m.name, cm)} \subseteq Available(mounts, cm)
      BY DEF Available
    <2>4. QED
      BY <1>1, <2>2, <2>3
  <1>2. /\ Mount("config", "config") \in mounts /\ Mount("log-config", "log_config") \in mounts
        /\ Mount("listener-broker", "listener-broker") \in mounts
        /\ Mount("listener-bootstrap", "listener-bootstrap") \in mounts
    BY DEF VolumeMounts
  <1>3. IsKerberosEnabled(Security) => Mount("listener-kerberos", "kerberos") \in mounts
    BY DEF VolumeMounts, KerberosVolumeMounts
  <1>4. /\ FilesOf("config", cm) = cm.items /\ FilesOf("log-config", cm) = cm.items
        /\ FilesOf("listener-broker", cm) =
             {"address"} \cup PortNames(KafkaContainerPorts(Security))
        /\ FilesOf("listener-bootstrap", cm) =
             {"address"} \cup PortNames(KafkaContainerPorts(Security))
        /\ FilesOf("listener-kerberos", cm) = {"keytab", "krb5.conf"}
    BY DEF FilesOf
  <1>5. QED
    BY <1>1, <1>2, <1>3, <1>4

\* The files that the environment of the kafka container names.
LEMMA EnvReads ==
  ASSUME NEW k, NEW e \in ContainerEnv(k), NEW f \in e.reads
  PROVE  \/ f = File("log_config", "log4j.properties")
         \/ f = File("config", "security.properties")
         \/ IsKerberosEnabled(k) /\ f = Krb5Conf
  BY Enabled DEF ContainerEnv

\* The files that the start script reads.
LEMMA StartReads ==
  ASSUME NEW k, TlsClientAuthenticationClass(k) = Unset, NEW f \in ScriptReads(k)
  PROVE  \/ f = File("config", "server.properties")
         \/ f = File("listener-broker", "address")
         \/ f = File("listener-broker", ClientPortName(k))
         \/ /\ IsKerberosEnabled(k)
            /\ f \in {File("kerberos", "keytab"), File("listener-bootstrap", "address"), Krb5Conf}
  <1> DEFINE onNode == {l \in GetKafkaListenerConfig(k).advertisedListeners :
                          l.host = "listener-broker"}
  <1>1. \A l \in onNode : l.host = "listener-broker" /\ l.port.file = ClientPortName(k)
    BY ListenersOf
  <1>2. ASSUME f \in LaunchCommand(k).reads
        PROVE  \/ f = File("config", "server.properties")
               \/ \E l \in onNode : f = NodeAddressCmd(l.host)
               \/ \E l \in onNode : f = NodePortCmd(l.host, l.port.file)
               \/ /\ IsKerberosEnabled(k)
                  /\ f \in {File("kerberos", "keytab"), NodeAddressCmd("listener-broker"),
                            NodeAddressCmd("listener-bootstrap")}
    BY <1>2, Enabled DEF LaunchCommand
  <1>3. ASSUME f \notin LaunchCommand(k).reads
        PROVE  IsKerberosEnabled(k) /\ f = Krb5Conf
    <2>1. f = Krb5Conf /\ \E i \in DOMAIN CommandArgs(k) :
            CommandArgs(k)[i] = "export_KERBEROS_REALM"
      BY <1>3 DEF ScriptReads
    <2>2. QED
      BY <2>1, RealmExport
  <1> HIDE DEF onNode
  <1>4. QED
    BY <1>1, <1>2, <1>3 DEF NodeAddressCmd, NodePortCmd

\* No two volumes or claims of the pod share a name, and there is one for every
\* name that may be mounted.
LEMMA SourcesOf ==
  ASSUME TypeOK, NEW sts \in BuildStatefulSet(Cluster)
  PROVE  /\ \A v, w \in sts.volumes \cup sts.claims : v.name = w.name => v = w
         /\ \A name :
              \/ name \in {"data", "config", "log", "log-config", "listener-broker",
                           "listener-bootstrap"}
              \/ IsKerberosEnabled(Security) /\ name = "listener-kerberos"
              \/ TlsServerSecretClass(Security) # Unset /\ name = "tls-keystore-server"
              \/ TlsInternalSecretClass(Security) # Unset /\ name = "tls-keystore-internal"
              => \E v \in sts.volumes \cup sts.claims : v.name = name
  <1> DEFINE k == Security
             log == [name |-> "log", emptyDir |-> TRUE]
             logConfig == [name |-> "log-config", configMap |-> RoleGroupConfigMapName]
             config == [name |-> "config", configMap |-> RoleGroupConfigMapName]
             broker == [name |-> "listener-broker",
                        annotation |-> [class |-> Cluster.brokerListenerClass],
                        claim |-> ListenerClaimSpec]
             keytab == [class |-> GetKerberosSecretClass(k), scope |-> KerberosScopes,
                        kerberosServiceName |-> "kafka"]
             kerberos == [name |-> "listener-kerberos", annotations |-> keytab]
             server == CreateTlsKeystoreVolume("tls-keystore-server", TlsServerSecretClass(k),
                         k.sslStorePassword, Cluster.requestedSecretLifeTime)
             internal == CreateTlsKeystoreVolume("tls-keystore-internal",
                           TlsInternalSecretClass(k), k.sslStorePassword,
                           Cluster.requestedSecretLifeTime)
             bootstrap == [name |-> "listener-bootstrap",
                           annotation |-> [listener |-> BootstrapListenerName],
                           claim |-> ListenerClaimSpec]
             data == DataPvc(Cluster)
  <1>1. log.name = "log" /\ logConfig.name = "log-config" /\ config.name = "config"
    OBVIOUS
  <1>2. broker.name = "listener-broker" /\ bootstrap.name = "listener-bootstrap"
    OBVIOUS
  <1>3. KerberosVolumes(k) = {kerberos}
    BY Zenon DEF KerberosVolumes
  <1> HIDE DEF keytab
  <1>4. kerberos.name = "listener-kerberos"
    OBVIOUS
  <1>5. server.name = "tls-keystore-server" /\ internal.name = "tls-keystore-internal"
    BY DEF CreateTlsKeystoreVolume
  <1>6. data.name = "data"
    BY DEF DataPvc
  <1>7. Cluster.brokerListenerClass # Unset
    BY EditsAssumption DEF TypeOK
  <1>8. PICK volumes \in Volumes(Cluster) :
          /\ sts.volumes = volumes \cup TlsVolumes(k, Cluster.requestedSecretLifeTime)
          /\ sts.claims = BootstrapListenerPvc \cup {data}
    BY StatefulSetOf, Zenon DEF Security
  <1> HIDE DEF log, logConfig, config, broker, kerberos, server, internal, bootstrap, data
  <1>9. volumes = {log, logConfig, config, broker}
                  \cup (IF IsKerberosEnabled(k) THEN {kerberos} ELSE {})
    BY <1>3, <1>7, <1>8, VolumesOf DEF log, logConfig, config, broker, Security
  <1>10. TlsVolumes(k, Cluster.requestedSecretLifeTime) =
           (IF TlsServerSecretClass(k) # Unset THEN {server} ELSE {})
           \cup (IF TlsInternalSecretClass(k) # Unset THEN {internal} ELSE {})
    BY DEF TlsVolumes, server, internal
  <1>11. sts.claims = {bootstrap, data}
    BY <1>8, BootstrapClaim DEF bootstrap
  <1>12. \A v \in sts.volumes \cup sts.claims :
           v \in {log, logConfig, config, broker, kerberos, server, internal, bootstrap, data}
    BY <1>8, <1>9, <1>10, <1>11, Enabled
  <1>13. \A v, w \in sts.volumes \cup sts.claims : v.name = w.name => v = w
    BY <1>1, <1>2, <1>4, <1>5, <1>6, <1>12
  <1>14. /\ {log, logConfig, config, broker, bootstrap, data} \subseteq sts.volumes \cup sts.claims
         /\ IsKerberosEnabled(k) => kerberos \in sts.volumes
         /\ TlsServerSecretClass(k) # Unset => server \in sts.volumes
         /\ TlsInternalSecretClass(k) # Unset => internal \in sts.volumes
    BY <1>8, <1>9, <1>10, <1>11
  <1>15. QED
    BY <1>1, <1>2, <1>4, <1>5, <1>6, <1>13, <1>14

\* Every mount of the kafka container names a volume or a claim of the pod.
LEMMA MountsHaveSources ==
  ASSUME TypeOK, NEW sts \in BuildStatefulSet(Cluster), NEW m \in sts.kafka.mounts
  PROVE  \E v \in sts.volumes \cup sts.claims : v.name = m.name
  <1> DEFINE k == Security
  <1>1. sts.kafka.mounts = VolumeMounts(k) \cup TlsVolumeMounts(k)
    BY StatefulSetOf, Zenon DEF Security
  <1>2. \/ m.name \in {"data", "config", "log", "log-config", "listener-broker",
                       "listener-bootstrap"}
        \/ IsKerberosEnabled(k) /\ m.name = "listener-kerberos"
        \/ TlsServerSecretClass(k) # Unset /\ m.name = "tls-keystore-server"
        \/ TlsInternalSecretClass(k) # Unset /\ m.name = "tls-keystore-internal"
    <2>1. ASSUME m \in VolumeMounts(k)
          PROVE  \/ m.name \in {"data", "config", "log", "log-config", "listener-broker",
                                "listener-bootstrap"}
                 \/ IsKerberosEnabled(k) /\ m.name = "listener-kerberos"
      BY <2>1, Enabled DEF VolumeMounts, KerberosVolumeMounts, Mount
    <2>2. ASSUME m \in TlsVolumeMounts(k)
          PROVE  \/ TlsServerSecretClass(k) # Unset /\ m.name = "tls-keystore-server"
                 \/ TlsInternalSecretClass(k) # Unset /\ m.name = "tls-keystore-internal"
      BY <2>2 DEF TlsVolumeMounts, Mount
    <2>3. QED
      BY <1>1, <2>1, <2>2
  <1>3. QED
    BY <1>2, SourcesOf

\* Every file that a container reads at start is below a mount with a source of its
\* own: container.go, statefulset.go and configmap.go agree for every security and
\* logging setting.
THEOREM FilesMounted == Spec => []FilesAreMounted
  <1>1. ASSUME TypeOK
        PROVE  FilesAreMounted
    <2> SUFFICES ASSUME NEW sts \in BuildStatefulSet(Cluster), NEW cm \in BuildConfigMap(Cluster)
                 PROVE  LET available == Available(sts.kafka.mounts, cm)
                            sources == sts.volumes \cup sts.claims
                        IN  /\ UNION {e.reads : e \in sts.kafka.env} \subseteq available
                            /\ ScriptReads(Security) \subseteq available
                            /\ UNION {v.reads : v \in sts.vector} \subseteq available
                            /\ \A m \in sts.kafka.mounts : \E v \in sources : v.name = m.name
                            /\ \A v, w \in sources : v.name = w.name => v = w
      BY Zenon DEF FilesAreMounted, Available
    <2> DEFINE available == Available(sts.kafka.mounts, cm)
    <2>1. /\ sts.kafka.mounts = VolumeMounts(Security) \cup TlsVolumeMounts(Security)
          /\ sts.kafka.env = ContainerEnv(Security)
      BY StatefulSetOf, Zenon DEF Security
    <2>2. Cluster.logging \in LoggingSpecs
      BY <1>1 DEF TypeOK
    <2>3. PropertyFiles \subseteq cm.items
      BY <2>2, ConfigMapOf, Zenon
    <2>4. /\ \A f \in cm.items : File("config", f) \in available
          /\ \A f \in cm.items : File("log_config", f) \in available
          /\ \A f \in {"address"} \cup PortNames(KafkaContainerPorts(Security)) :
               /\ File("listener-broker", f) \in available
               /\ File("listener-bootstrap", f) \in available
          /\ IsKerberosEnabled(Security) =>
               \A f \in {"keytab", "krb5.conf"} : File("kerberos", f) \in available
      BY <2>1, AvailableFiles
    <2>5. ASSUME NEW e \in sts.kafka.env, NEW f \in e.reads PROVE f \in available
      <3>1. \/ f = File("log_config", "log4j.properties")
            \/ f = File("config", "security.properties")
            \/ IsKerberosEnabled(Security) /\ f = Krb5Conf
        BY <2>1, <2>5, EnvReads
      <3>2. "log4j.properties" \in cm.items /\ "security.properties" \in cm.items
        BY <2>3 DEF PropertyFiles
      <3>3. QED
        BY <2>4, <3>1, <3>2, Zenon DEF Krb5Conf
    <2>6. ASSUME NEW f \in ScriptReads(Security) PROVE f \in available
      <3>1. ClientPortName(Security) \in PortNames(KafkaContainerPorts(Security))
        BY PortsOf
      <3>2. QED
        BY <2>3, <2>4, <3>1, NoClientAuthentication, StartReads, Zenon
           DEF PropertyFiles, Krb5Conf
    <2>7. ASSUME NEW v \in sts.vector, NEW f \in v.reads PROVE f \in available
      <3>1. "vector.yaml" \in cm.items
        BY <1>1, BuildersAgree DEF VectorAgreement
      <3>2. sts.vector \subseteq {VectorContainer}
        BY StatefulSetOf
      <3>3. f = File("config", "vector.yaml")
        BY <3>2 DEF VectorContainer
      <3>4. QED
        BY <2>4, <3>1, <3>3
    <2>8. QED
      BY <1>1, <2>5, <2>6, <2>7, MountsHaveSources, SourcesOf
  <1>2. QED
    BY <1>1, MergedConfigComplete, PTL
-----------------------------------------------------------------------------
\* A keystore volume asks for the given password: the annotation is there exactly
\* when the password is not empty.
LEMMA VolumePassword ==
  ASSUME NEW name, NEW class, NEW password, NEW lifeTime, NEW v,
         v = CreateTlsKeystoreVolume(name, class, password, lifeTime)
  PROVE  /\ v.name = name
         /\ Pkcs12Password(v) = password
  <1> DEFINE set == [class |-> class, scope |-> SecretScopes, format |-> "tls-p12"]
  <1>1. /\ v.name = name
        /\ v.annotations = IF password # Unset
                           THEN AddAnnotation(set, "pkcs12Password", password) ELSE set
    BY DEF CreateTlsKeystoreVolume, SetAnnotations
  <1>2. "pkcs12Password" \notin DOMAIN set
    OBVIOUS
  <1> HIDE DEF set
  <1>3. CASE password # Unset
    <2>1. v.annotations = [a \in DOMAIN set \cup {"pkcs12Password"} |->
                             IF a = "pkcs12Password" THEN password ELSE set[a]]
      BY <1>1, <1>3 DEF AddAnnotation
    <2>2. QED
      BY <1>1, <2>1 DEF Pkcs12Password
  <1>4. CASE password = Unset
    BY <1>1, <1>2, <1>4 DEF Pkcs12Password
  <1>5. QED
    BY <1>3, <1>4

\* The key material that server.properties gives each listener.
LEMMA StoresOf ==
  ASSUME NEW k, TlsClientAuthenticationClass(k) = Unset
  PROVE  LET settings == ConfigSettings(k) IN
         /\ TlsServerSecretClass(k) # Unset =>
              "CLIENT.ssl" \in DOMAIN settings
              /\ settings["CLIENT.ssl"] = Stores(ServerKeyStoreDir, k)
         /\ IsKerberosEnabled(k) =>
              "BOOTSTRAP.ssl" \in DOMAIN settings
              /\ settings["BOOTSTRAP.ssl"] = Stores(ServerKeyStoreDir, k)
         /\ TlsInternalSecretClass(k) # Unset =>
              "INTERNAL.ssl" \in DOMAIN settings
              /\ settings["INTERNAL.ssl"] = Stores(InternalKeyStoreDir, k)
  <1> DEFINE settings == ConfigSettings(k)
  <1>1. DOMAIN settings = SettingKeys(k)
    BY DEF ConfigSettings
  <1>2. /\ TlsServerSecretClass(k) # Unset => "CLIENT.ssl" \in SettingKeys(k)
        /\ IsKerberosEnabled(k) => "BOOTSTRAP.ssl" \in SettingKeys(k)
        /\ TlsInternalSecretClass(k) # Unset => "INTERNAL.ssl" \in SettingKeys(k)
    BY DEF SettingKeys
  <1>3. \A key \in SettingKeys(k) :
          /\ key \in {"CLIENT.ssl", "BOOTSTRAP.ssl"} =>
               settings[key] = Stores(ServerKeyStoreDir, k)
          /\ key = "INTERNAL.ssl" => settings[key] = Stores(InternalKeyStoreDir, k)
    BY DEF ConfigSettings
  <1>4. QED
    BY <1>1, <1>2, <1>3

\* The listeners that speak SSL, and the SecretClass each of them needs.
LEMMA SslListeners ==
  ASSUME NEW k, TlsClientAuthenticationClass(k) = Unset,
         IsKerberosEnabled(k) =>
           TlsServerSecretClass(k) # Unset /\ TlsInternalSecretClass(k) # Unset,
         NEW name \in DOMAIN GetKafkaListenerConfig(k).listenerSecurityProtocolMap,
         GetKafkaListenerConfig(k).listenerSecurityProtocolMap[name] = "SSL"
  PROVE  \/ name = "CLIENT" /\ TlsServerSecretClass(k) # Unset
         \/ name = "BOOTSTRAP" /\ IsKerberosEnabled(k) /\ TlsServerSecretClass(k) # Unset
         \/ name = "INTERNAL" /\ TlsInternalSecretClass(k) # Unset
  <1> DEFINE protocols == GetKafkaListenerConfig(k).listenerSecurityProtocolMap
  <1>1. protocols =
          [n \in ListenerNames(k) |->
             CASE n = "INTERNAL"  -> IF InternalIsSecure(k) THEN "SSL" ELSE "PLAINTEXT"
               [] n = "BOOTSTRAP" -> "SSL"
               [] OTHER           -> IF TlsEnabled(k) \/ IsKerberosEnabled(k)
                                     THEN "SSL" ELSE "PLAINTEXT"]
    BY DEF GetKafkaListenerConfig
  <1> HIDE DEF protocols
  <1>2. name \in ListenerNames(k) /\ protocols[name] = "SSL"
    BY <1>1 DEF protocols
  <1>3. name \in {"CLIENT", "INTERNAL"} \/ (IsKerberosEnabled(k) /\ name = "BOOTSTRAP")
    BY <1>2, ListenersOf, Enabled
  <1>4. CASE name = "CLIENT"
    <2>1. TlsEnabled(k) \/ IsKerberosEnabled(k)
      BY <1>1, <1>2, <1>4, Enabled
    <2>2. QED
      BY <1>4, <2>1 DEF TlsEnabled
  <1>5. CASE name = "INTERNAL"
    <2>1. InternalIsSecure(k)
      BY <1>1, <1>2, <1>5, Enabled
    <2>2. QED
      BY <1>5, <2>1 DEF InternalIsSecure
  <1>6. QED
    BY <1>3, <1>4, <1>5

\* Every SSL listener finds its stores below a mount of a volume with the password
\* server.properties gives, whenever Kerberos comes with both TLS classes.
THEOREM SslStores == Spec => []SslListenersHaveStores
  <1>1. SslListenersHaveStores
    <2> DEFINE k == Security
               settings == ConfigSettings(k)
               protocols == GetKafkaListenerConfig(k).listenerSecurityProtocolMap
               server == CreateTlsKeystoreVolume("tls-keystore-server", TlsServerSecretClass(k),
                           k.sslStorePassword, Cluster.requestedSecretLifeTime)
               internal == CreateTlsKeystoreVolume("tls-keystore-internal",
                             TlsInternalSecretClass(k), k.sslStorePassword,
                             Cluster.requestedSecretLifeTime)
               serverMount == Mount("tls-keystore-server", ServerKeyStoreDir)
               internalMount == Mount("tls-keystore-internal", InternalKeyStoreDir)
    <2> SUFFICES ASSUME KerberosHasTls, NEW sts \in BuildStatefulSet(Cluster),
                        NEW name \in DOMAIN sts.kafka.launch.config.listenerSecurityProtocolMap,
                        sts.kafka.launch.config.listenerSecurityProtocolMap[name] = "SSL"
                 PROVE  /\ StoreKey(name) \in DOMAIN settings
                        /\ \E m \in sts.kafka.mounts, v \in sts.volumes :
                             /\ m.dir = settings[StoreKey(name)].dir
                             /\ v.name = m.name
                             /\ settings[StoreKey(name)].password = Pkcs12Password(v)
      BY Zenon DEF SslListenersHaveStores
    <2>1. /\ TlsVolumes(k, Cluster.requestedSecretLifeTime) \subseteq sts.volumes
          /\ TlsVolumeMounts(k) \subseteq sts.kafka.mounts
          /\ sts.kafka.launch = LaunchCommand(k)
      <3>1. PICK volumes \in Volumes(Cluster) :
              /\ sts.volumes = volumes \cup TlsVolumes(k, Cluster.requestedSecretLifeTime)
              /\ sts.kafka.mounts = VolumeMounts(k) \cup TlsVolumeMounts(k)
              /\ sts.kafka.launch = LaunchCommand(k)
        BY StatefulSetOf, Zenon DEF Security
      <3>2. QED
        BY <3>1
    <2>2. sts.kafka.launch.config = GetKafkaListenerConfig(k)
      BY <2>1 DEF LaunchCommand
    <2>3. \/ name = "CLIENT" /\ TlsServerSecretClass(k) # Unset
          \/ name = "BOOTSTRAP" /\ IsKerberosEnabled(k) /\ TlsServerSecretClass(k) # Unset
          \/ name = "INTERNAL" /\ TlsInternalSecretClass(k) # Unset
      BY <2>2, NoClientAuthentication, SslListeners DEF KerberosHasTls
    <2>4. /\ TlsServerSecretClass(k) # Unset =>
               server \in sts.volumes /\ serverMount \in sts.kafka.mounts
          /\ TlsInternalSecretClass(k) # Unset =>
               internal \in sts.volumes /\ internalMount \in sts.kafka.mounts
      BY <2>1 DEF TlsVolumes, TlsVolumeMounts
    <2>5. /\ server.name = serverMount.name /\ serverMount.dir = ServerKeyStoreDir
          /\ internal.name = internalMount.name /\ internalMount.dir = InternalKeyStoreDir
      BY VolumePassword DEF Mount
    <2>6. /\ Pkcs12Password(server) = k.sslStorePassword
          /\ Pkcs12Password(internal) = k.sslStorePassword
      BY VolumePassword
    <2>7. \A dir : Stores(dir, k).dir = dir /\ Stores(dir, k).password = k.sslStorePassword
      BY DEF Stores
    <2> HIDE DEF server, internal, serverMount, internalMount, settings
    <2>8. \/ /\ StoreKey(name) \in DOMAIN settings
             /\ settings[StoreKey(name)] = Stores(ServerKeyStoreDir, k)
             /\ TlsServerSecretClass(k) # Unset
          \/ /\ StoreKey(name) \in DOMAIN settings
             /\ settings[StoreKey(name)] = Stores(InternalKeyStoreDir, k)
             /\ TlsInternalSecretClass(k) # Unset
      <3>1. /\ StoreKey("CLIENT") = "CLIENT.ssl" /\ StoreKey("BOOTSTRAP") = "BOOTSTRAP.ssl"
            /\ StoreKey("INTERNAL") = "INTERNAL.ssl"
        BY DEF StoreKey
      <3>2. QED
        BY <2>3, <3>1, NoClientAuthentication, StoresOf DEF settings
    <2>9. QED
      BY <2>4, <2>5, <2>6, <2>7, <2>8
  <1>2. QED
    BY <1>1, PTL
=============================================================================
