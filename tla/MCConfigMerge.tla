---------------------------- MODULE MCConfigMerge ----------------------------
(***************************************************************************)
(* A small instance of ConfigMerge: settings that collide with a default,  *)
(* with a security setting or with neither, absent and empty maps.         *)
(***************************************************************************)
EXTENDS ConfigMerge

Groups == {"a", "b"}

\* What owner o may set in server.properties and in its config.
Server(o) == {{}, {<<>>}, {"log.dirs" :> Value(o) @@ "custom" :> Value(o)},
              {"inter.broker.listener.name" :> Value(o)}}
Config(o) == {{}, {<<>>}, {"bootstrapListenerClass" :> Value(o)},
              {"affinity" :> Value(o) @@ "brokerListenerClass" :> Value(o)},
              {"cpu" :> Value(o)}}

Settings(o) ==
  {[f \in Files |-> IF f = "server.properties" THEN server ELSE {}] : server \in Server(o)}
  \cup {[f \in Files |-> IF f = "config" THEN config ELSE {}] : config \in Config(o)}

TlsSecurity == NewKafkaSecurity(
  [authentication |-> <<>>,
   tls |-> {[serverSecretClass   |-> "tls",
             internalSecretClass |-> "tls",
             sslStorePassword    |-> "pw"]}])

Specs == {[role |-> role, groups |-> [g \in Groups |-> IF g = "a" THEN a ELSE b],
           security |-> TlsSecurity] :
             role \in Settings("role"), a \in Settings("a"), b \in Settings("b")}
=============================================================================
