----------------------------- MODULE PodTemplate -----------------------------
(***************************************************************************)
(* The two objects a broker pod is made of: the ConfigMap and the          *)
(* StatefulSet of a role group, as functions of the KafkaCluster spec      *)
(* (controller/configmap.go, statefulset.go, container.go, vector.go and   *)
(* util/listener_volume.go).                                               *)
(*                                                                         *)
(* An object built successfully is {object}; a build that returns an error *)
(* or panics is {}.                                                        *)
(***************************************************************************)
EXTENDS KafkaSecurity

File(dir, name) == [dir |-> dir, name |-> name]
-----------------------------------------------------------------------------
(***************************************************************************)
(* The ConfigMap.  Logging is a pointer to a record whose EnableVectorAgent *)
(* is again a pointer; IsVectorEnable dereferences the inner one without a *)
(* check, so it yields {} (a panic) when only the inner pointer is nil.    *)
(***************************************************************************)
IsVectorEnable(logging) ==
  IF logging = {} THEN {FALSE} ELSE Deref(logging).enableVectorAgent

\* Mutation: a missing aggregator is no error.
BugBuildVectorConfig(c) ==
  {IF c.vectorAggregatorConfigMapName # Unset THEN {"vector.yaml"} ELSE {}}

\* vector.yaml: an error without an aggregator, no item when the agent is off.
BuildVectorConfig(c) ==
  IF c.logging # {} /\ Deref(c.logging).enableVectorAgent # {}
  THEN IF c.vectorAggregatorConfigMapName = Unset THEN {}
       ELSE {IF Deref(Deref(c.logging).enableVectorAgent)
             THEN {"vector.yaml"} ELSE {}}
  ELSE {{}}

\* The property files are never empty: their defaults were merged in.
PropertyFiles == {"server.properties", "security.properties", "log4j.properties"}

BuildConfigMap(c) ==
  {[items    |-> PropertyFiles \cup vectorItems,
    settings |-> ConfigSettings(NewKafkaSecurity(c))] :
     vectorItems \in IF IsVectorEnable(c.logging) = {TRUE}
                     THEN BuildVectorConfig(c)
                     ELSE {{} : enabled \in IsVectorEnable(c.logging)}}
-----------------------------------------------------------------------------
(***************************************************************************)
(* The kafka container: the files its environment and its start script     *)
(* read, its named ports, its probes and its mounts.  The script's shell   *)
(* text is left out, its steps and their order are kept.  resourceSpec is  *)
(* never set by NewKafkaContainer, so there is no KAFKA_HEAP_OPTS.         *)
(***************************************************************************)
Krb5Conf == File("kerberos", "krb5.conf")

ContainerEnv(k) ==
  {[name |-> "POD_NAME", reads |-> {}], [name |-> "NODE", reads |-> {}],
   [name |-> "ZOOKEEPER", reads |-> {}],
   [name |-> "KAFKA_LOG4J_OPTS", reads |-> {File("log_config", "log4j.properties")}],
   [name |-> "EXTRA_ARGS", reads |-> {File("config", "security.properties")}]}
  \cup (IF IsKerberosEnabled(k)
        THEN {[name |-> "KRB5_CONFIG", reads |-> {Krb5Conf}],
              [name |-> "KAFKA_OPTS", reads |-> {Krb5Conf}]}
        ELSE {})

NodeAddressCmd(dir) == File(dir, "address")
NodePortCmd(dir, portName) == File(dir, portName)

\* The files the kafka-server-start.sh command line names or substitutes.
LaunchCommand(k) ==
  LET config == GetKafkaListenerConfig(k)
      onNode == {l \in config.advertisedListeners : l.host = "listener-broker"}
  IN  [config |-> config,
       reads  |-> {File("config", "server.properties")}
                  \cup {NodeAddressCmd(l.host) : l \in onNode}
                  \cup {NodePortCmd(l.host, l.port.file) : l \in onNode}
                  \cup (IF IsKerberosEnabled(k)
                        THEN {File("kerberos", "keytab"),
                              NodeAddressCmd("listener-broker"),
                              NodeAddressCmd("listener-bootstrap")}
                        ELSE {})]

CommandArgs(k) ==
  <<"set_x", "trap_functions", "remove_vector_shutdown_file", "prepare_signal_handlers">>
  \o (IF IsKerberosEnabled(k) THEN <<"export_KERBEROS_REALM">> ELSE <<>>)
  \o <<"launch", "wait_for_termination", "create_vector_shutdown_file">>

ScriptReads(k) ==
  LaunchCommand(k).reads
  \cup {Krb5Conf : step \in {"export_KERBEROS_REALM"}
                              \cap {CommandArgs(k)[i] : i \in DOMAIN CommandArgs(k)}}

\* Mutation: the Kerberos volume is not mounted.
BugVolumeMounts(k) ==
  {Mount("data", "data"), Mount("config", "config"), Mount("log", "log"),
   Mount("log-config", "log_config"), Mount("listener-broker", "listener-broker"),
   Mount("listener-bootstrap", "listener-bootstrap")}

VolumeMounts(k) ==
  {Mount("data", "data"), Mount("config", "config"), Mount("log", "log"),
   Mount("log-config", "log_config"), Mount("listener-broker", "listener-broker"),
   Mount("listener-bootstrap", "listener-bootstrap")}
  \cup (IF IsKerberosEnabled(k) THEN KerberosVolumeMounts ELSE {})

\* Liveness and readiness dial the same named port.
ProbePortName(k) == ClientPortName(k)

MainContainer(k) ==
  [name   |-> "kafka",
   env    |-> ContainerEnv(k),
   args   |-> CommandArgs(k),
   launch |-> LaunchCommand(k),
   ports  |-> KafkaContainerPorts(k),
   probe  |-> ProbePortName(k),
   mounts |-> VolumeMounts(k)]
-----------------------------------------------------------------------------
(***************************************************************************)
(* The StatefulSet.  The operator-go builder adds the vector container and *)
(* its volumes (external); Build appends the TLS volumes last.             *)
(***************************************************************************)
ToAnnotation(listenerClass, listenerName) ==
  CASE listenerClass # Unset                       -> {[class |-> listenerClass]}
    [] listenerClass = Unset /\ listenerName # Unset -> {[listener |-> listenerName]}
    [] OTHER                                    -> {}

BootstrapListenerName == "group-bootstrap"
RoleGroupConfigMapName == "group"

\* Volumes of the listener operator: ephemeral, or claimed with the StatefulSet.
ListenerClaimSpec == [storageClass |-> {"listeners"}, capacity |-> "10Mi"]
BuildEphemeral(name, listenerClass) ==
  {[name |-> name, annotation |-> a, claim |-> ListenerClaimSpec] :
     a \in ToAnnotation(listenerClass, Unset)}
BuildPVC(name, listenerName) ==
  {[name |-> name, annotation |-> a, claim |-> ListenerClaimSpec] :
     a \in ToAnnotation(Unset, listenerName)}

BootstrapListenerPvc == BuildPVC("listener-bootstrap", BootstrapListenerName)

\* Mutation: the claim carries a label that follows the listener class.
BugDataPvc(c) == [name |-> "data", capacity |-> "2Gi", label |-> c.brokerListenerClass]

DataPvc(c) ==
  [name         |-> "data",
   capacity     |-> IF c.storage = {} THEN "2Gi" ELSE Deref(c.storage).capacity,
   storageClass |-> IF c.storage = {} \/ Deref(c.storage).storageClass = Unset
                    THEN {} ELSE {Deref(c.storage).storageClass}]

Volumes(c) ==
  {{[name |-> "log", emptyDir |-> TRUE],
    [name |-> "log-config", configMap |-> RoleGroupConfigMapName],
    [name |-> "config", configMap |-> RoleGroupConfigMapName],
    listenerBroker}
   \cup (IF IsKerberosEnabled(NewKafkaSecurity(c))
         THEN KerberosVolumes(NewKafkaSecurity(c)) ELSE {}) :
     listenerBroker \in BuildEphemeral("listener-broker", c.brokerListenerClass)}

VectorContainer == [name |-> "vector", reads |-> {File("config", "vector.yaml")}]

BuildStatefulSet(c) ==
  LET k == NewKafkaSecurity(c)
      main == MainContainer(k)
  IN  {[kafka      |-> [main EXCEPT !.mounts = @ \cup TlsVolumeMounts(k)],
        vector     |-> IF enabled THEN {VectorContainer} ELSE {},
        volumes    |-> volumes \cup TlsVolumes(k, c.requestedSecretLifeTime),
        claims     |-> BootstrapListenerPvc \cup {DataPvc(c)},
        podManagement |-> "Parallel"] :
         enabled \in IsVectorEnable(c.logging), volumes \in Volumes(c)}

\* The bootstrap Listener: the labels that discovery selects, class and ports.
BuildBootstrapListener(c) ==
  [labels |-> {"app.kubernetes.io/listener-bootstrap=true"},
   class  |-> c.bootstrapListenerClass,
   ports  |-> KafkaContainerPorts(NewKafkaSecurity(c))]
=============================================================================
