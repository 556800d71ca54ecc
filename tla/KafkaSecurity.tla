---------------------------- MODULE KafkaSecurity ----------------------------
(***************************************************************************)
(* The security settings of a KafkaCluster and everything the operator     *)
(* derives from them alone: ports and port names, the broker's listeners,  *)
(* the keystore settings of server.properties, and the volumes that bring  *)
(* the keystores into the pod (internal/security, controller/listener.go,  *)
(* controller/util.go).                                                    *)
(*                                                                         *)
(* A Go pointer is a set with at most one element, {} being nil.  Only the *)
(* fields the code reads are kept.                                         *)
(***************************************************************************)
EXTENDS Integers, Sequences

\* The Go zero string.
Unset == ""

Deref(pointer) == CHOOSE v \in pointer : TRUE
Pointers(S) == {p \in SUBSET S : \A v, w \in p : v = w}

(***************************************************************************)
(* KafkaSecurity, built from spec.clusterConfig.  The client               *)
(* AuthenticationClass is never resolved: the code sets it to "".          *)
(***************************************************************************)
NewKafkaSecurity(clusterConfig) ==
  LET tls == IF clusterConfig.tls = {}
             THEN [serverSecretClass |-> Unset, internalSecretClass |-> Unset,
                   sslStorePassword |-> Unset]
             ELSE Deref(clusterConfig.tls)
  IN  [authentications             |-> clusterConfig.authentication,
       resolvedAuthenticationClass |-> Unset,
       serverSecretClass           |-> tls.serverSecretClass,
       internalSecretClass         |-> tls.internalSecretClass,
       sslStorePassword            |-> tls.sslStorePassword]

\* The entries of spec.clusterConfig.authentication that name a Kerberos class.
KerberosEntries(k) ==
  {i \in DOMAIN k.authentications :
     \E class \in k.authentications[i].kerberos : class # Unset}

IsKerberosEnabled(k) == KerberosEntries(k) # {}

\* The class of the first such entry, as the loop of GetKerberosSecretClass.
GetKerberosSecretClass(k) ==
  IF KerberosEntries(k) = {}
  THEN Unset
  ELSE LET first == CHOOSE i \in KerberosEntries(k) :
                      \A j \in KerberosEntries(k) : i <= j
       IN  Deref(k.authentications[first].kerberos)

TlsClientAuthenticationClass(k) == k.resolvedAuthenticationClass
TlsServerSecretClass(k) == k.serverSecretClass
TlsInternalSecretClass(k) == k.internalSecretClass

TlsEnabled(k) ==
  TlsClientAuthenticationClass(k) # Unset \/ TlsServerSecretClass(k) # Unset

InternalIsSecure(k) == TlsInternalSecretClass(k) # Unset \/ IsKerberosEnabled(k)

ClientPort(k) == IF TlsEnabled(k) THEN 9093 ELSE 9092
BootstrapPort(k) == IF TlsEnabled(k) THEN 9095 ELSE 9094
InternalPort(k) == IF InternalIsSecure(k) THEN 19093 ELSE 19092
MetricsPort == 9606

ClientPortName(k) == IF TlsEnabled(k) THEN "kafka-tls" ELSE "kafka"
BootstrapPortName == "bootstrap"
MetricsPortName == "metrics"

\* Mutation: the bootstrap port forgets that TLS moves it.
BugKafkaContainerPorts(k) ==
  {[name |-> ClientPortName(k), port |-> ClientPort(k)],
   [name |-> MetricsPortName, port |-> MetricsPort]}
  \cup (IF IsKerberosEnabled(k) THEN {[name |-> BootstrapPortName, port |-> 9094]} ELSE {})

\* The named ports of the broker container and of the bootstrap Listener.
KafkaContainerPorts(k) ==
  {[name |-> ClientPortName(k), port |-> ClientPort(k)],
   [name |-> MetricsPortName, port |-> MetricsPort]}
  \cup (IF IsKerberosEnabled(k)
        THEN {[name |-> BootstrapPortName, port |-> BootstrapPort(k)]}
        ELSE {})

PortNames(ports) == {p.name : p \in ports}

\* Mutation: discovery always looks for the plain port's name.
BugDiscoveryPortName(k) == IF IsKerberosEnabled(k) THEN BootstrapPortName ELSE "kafka"

\* The port of a Listener's ingress address that discovery publishes.
DiscoveryPortName(k) ==
  IF IsKerberosEnabled(k) THEN BootstrapPortName ELSE ClientPortName(k)
-----------------------------------------------------------------------------
(***************************************************************************)
(* The broker's listeners.  A port is a number, or the content of a file   *)
(* of the mounted broker listener volume, named after a port of it; a host *)
(* is every interface, the address file of that volume, or the pod's name. *)
(***************************************************************************)
Number(n) == [number |-> n]
PortFile(name) == [file |-> name]

Listener(name, port) == [name |-> name, host |-> "0.0.0.0", port |-> Number(port)]
NodeListener(name, k) ==
  [name |-> name, host |-> "listener-broker", port |-> PortFile(ClientPortName(k))]
PodListener(name, port) == [name |-> name, host |-> "pod-fqdn", port |-> Number(port)]

ClientListenerName(k) ==
  IF TlsClientAuthenticationClass(k) # Unset THEN "CLIENT_AUTH" ELSE "CLIENT"

\* The four branches for the client listener differ in name and protocol; the
\* last one binds the plain client port whatever ClientPort says.
ClientListenerPort(k) ==
  IF TlsEnabled(k) \/ IsKerberosEnabled(k) THEN ClientPort(k) ELSE 9092

ListenerNames(k) ==
  {ClientListenerName(k), "INTERNAL"}
  \cup (IF IsKerberosEnabled(k) THEN {"BOOTSTRAP"} ELSE {})

GetKafkaListenerConfig(k) ==
  [listeners |->
     {Listener(ClientListenerName(k), ClientListenerPort(k)),
      Listener("INTERNAL", InternalPort(k))}
     \cup {Listener(n, BootstrapPort(k)) : n \in ListenerNames(k) \cap {"BOOTSTRAP"}},
   advertisedListeners |->
     {NodeListener(ClientListenerName(k), k), PodListener("INTERNAL", InternalPort(k))}
     \cup {NodeListener(n, k) : n \in ListenerNames(k) \cap {"BOOTSTRAP"}},
   listenerSecurityProtocolMap |->
     [n \in ListenerNames(k) |->
        CASE n = "INTERNAL"  -> IF InternalIsSecure(k) THEN "SSL" ELSE "PLAINTEXT"
          [] n = "BOOTSTRAP" -> "SSL"
          [] OTHER           -> IF TlsEnabled(k) \/ IsKerberosEnabled(k)
                                THEN "SSL" ELSE "PLAINTEXT"]]
-----------------------------------------------------------------------------
(***************************************************************************)
(* The settings added to server.properties.  The six keystore and          *)
(* truststore settings of a listener are always written together and stand *)
(* for one entry "<listener>.ssl": the directory of the stores and the     *)
(* password of both.                                                       *)
(***************************************************************************)
ServerKeyStoreDir == "tls_keystore_server"
InternalKeyStoreDir == "tls_keystore_internal"

Value(v) == [value |-> v]
Stores(dir, k) == [dir |-> dir, password |-> k.sslStorePassword]

SettingKeys(k) ==
  {"inter.broker.listener.name"}
  \cup (CASE TlsClientAuthenticationClass(k) # Unset ->
               {"CLIENT_AUTH.ssl", "CLIENT_AUTH.ssl.client.auth"}
          [] TlsClientAuthenticationClass(k) = Unset /\ TlsServerSecretClass(k) # Unset ->
               {"CLIENT.ssl"}
          [] OTHER -> {})
  \cup (IF IsKerberosEnabled(k)
        THEN {"BOOTSTRAP.ssl", "sasl.enabled.mechanisms", "sasl.kerberos.service.name",
              "sasl.mechanism.inter.broker.protocol"}
        ELSE {})
  \cup (IF TlsInternalSecretClass(k) # Unset
        THEN {"INTERNAL.ssl", "INTERNAL.ssl.client.auth"} ELSE {})

ConfigSettings(k) ==
  [key \in SettingKeys(k) |->
     CASE key \in {"CLIENT_AUTH.ssl", "CLIENT.ssl", "BOOTSTRAP.ssl"} ->
            Stores(ServerKeyStoreDir, k)
       [] key = "INTERNAL.ssl" -> Stores(InternalKeyStoreDir, k)
       [] key \in {"CLIENT_AUTH.ssl.client.auth", "INTERNAL.ssl.client.auth"} ->
            Value("required")
       [] key \in {"sasl.enabled.mechanisms", "sasl.mechanism.inter.broker.protocol"} ->
            Value("GSSAPI")
       [] key = "sasl.kerberos.service.name" -> Value("kafka")
       [] OTHER -> Value("INTERNAL")]

\* The entry of server.properties that gives a listener its key material.
StoreKey(listener) ==
  CASE listener = "CLIENT"      -> "CLIENT.ssl"
    [] listener = "CLIENT_AUTH" -> "CLIENT_AUTH.ssl"
    [] listener = "INTERNAL"    -> "INTERNAL.ssl"
    [] listener = "BOOTSTRAP"   -> "BOOTSTRAP.ssl"
-----------------------------------------------------------------------------
(***************************************************************************)
(* SecretVolumeBuilder: annotations are added one by one, or all of them   *)
(* are replaced.                                                           *)
(***************************************************************************)
AddAnnotation(annotations, key, v) ==
  [a \in DOMAIN annotations \cup {key} |-> IF a = key THEN v ELSE annotations[a]]

SetAnnotations(annotations, replacement) == replacement

SecretScopes == "listener-volume=listener-broker,listener-volume=listener-bootstrap,pod,node"

CreateTlsKeystoreVolume(volumeName, secretClass, sslStorePassword, lifeTime) ==
  LET requested == IF lifeTime # Unset
                   THEN AddAnnotation(<<>>, "secretCertLifeTime", lifeTime)
                   ELSE <<>>
      set == SetAnnotations(requested, [class  |-> secretClass,
                                        scope  |-> SecretScopes,
                                        format |-> "tls-p12"])
  IN  [name        |-> volumeName,
       annotations |-> IF sslStorePassword # Unset
                       THEN AddAnnotation(set, "pkcs12Password", sslStorePassword)
                       ELSE set]

\* What AddVolumeAndVolumeMounts appends to the pod and to the kafka container.
TlsVolumes(k, lifeTime) ==
  (IF TlsServerSecretClass(k) # Unset
   THEN {CreateTlsKeystoreVolume("tls-keystore-server", TlsServerSecretClass(k),
                                 k.sslStorePassword, lifeTime)} ELSE {})
  \cup (IF TlsInternalSecretClass(k) # Unset
        THEN {CreateTlsKeystoreVolume("tls-keystore-internal", TlsInternalSecretClass(k),
                                      k.sslStorePassword, lifeTime)} ELSE {})

Mount(volume, dir) == [name |-> volume, dir |-> dir]

\* Mutation: the internal keystore is mounted only beside the server's.
BugTlsVolumeMounts(k) ==
  IF TlsServerSecretClass(k) # Unset
  THEN {Mount("tls-keystore-server", ServerKeyStoreDir),
        Mount("tls-keystore-internal", InternalKeyStoreDir)}
  ELSE {}

TlsVolumeMounts(k) ==
  (IF TlsServerSecretClass(k) # Unset
   THEN {Mount("tls-keystore-server", ServerKeyStoreDir)} ELSE {})
  \cup (IF TlsInternalSecretClass(k) # Unset
        THEN {Mount("tls-keystore-internal", InternalKeyStoreDir)} ELSE {})

\* KerberosAuthentication: the keytab volume, its mount and the two variables.
KerberosScopes == "listener-volume=listener-broker,listener-volume=listener-bootstrap"

KerberosVolumes(k) ==
  {[name        |-> "listener-kerberos",
    annotations |-> [class               |-> GetKerberosSecretClass(k),
                     scope               |-> KerberosScopes,
                     kerberosServiceName |-> "kafka"]]}

KerberosVolumeMounts == {Mount("listener-kerberos", "kerberos")}
=============================================================================
