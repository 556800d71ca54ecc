--------------------------- MODULE MCOperatorFleet ---------------------------
(***************************************************************************)
(* Small instances of OperatorFleet.                                       *)
(***************************************************************************)
EXTENDS OperatorFleet

Plain == [tls                    |-> {},
          authentication         |-> <<>>,
          bootstrapListenerClass |-> "cluster-internal"]
Tls == [Plain EXCEPT !.tls = {[serverSecretClass   |-> "tls",
                               internalSecretClass |-> "tls",
                               sslStorePassword    |-> "pw"]}]

Versions == <<"1.0", "2.0">>
Kc == <<"kc">>
Other == <<"other">>
KcNodeport == <<"kc", "nodeport">>

KafkaCluster(groups, config, version) ==
  [roleGroups |-> groups, config |-> config, kubedoopVersion |-> version]
Default(config) == KafkaCluster({"default"}, config, "")

TwoNames == {Kc, Other}
OneGroup == {"default"}
TwoGroups == {"default", "extra"}

\* One KafkaCluster while the operator is upgraded, with and without --leader-elect;
\* one process and two KafkaClusters, one of which is edited, one deleted.
Only(c) == [k \in TwoNames |-> IF k = Kc THEN {c} ELSE {}]
Both(c) == [k \in TwoNames |-> {c}]
Pinned == KafkaCluster(OneGroup, Plain, "1.0")
FleetSpecs == {Default(Plain), Default(Tls), Pinned}
Elected ==
  [leaderElect : {TRUE}, clusters : {Only(Default(Plain))},
   edits : {[k \in {Kc} |-> {Default(Tls), Pinned}]}, maxEdits : {1},
   deletable : {{}}, maxRevision : {2}, maxExits : {2}]
Unelected ==
  [leaderElect : {FALSE}, clusters : {Only(Default(Plain))},
   edits : {[k \in {Kc} |-> {Default(Tls), Pinned}]}, maxEdits : {1},
   deletable : {{}}, maxRevision : {2}, maxExits : {0}]
Shared ==
  [leaderElect : {FALSE}, clusters : {Both(Default(Plain))},
   edits : {[k \in {Kc} |-> {Default(Tls)}]}, maxEdits : {1},
   deletable : {{Other}}, maxRevision : {1}, maxExits : {0}]
FleetScenarios == Elected \cup Unelected \cup Shared

\* What can keep the brokers of a KafkaCluster out of its own discovery: another one
\* with other ports, a role group taken out before TLS is turned on, another one
\* with the name of its second ConfigMap.
ForeignNames == {Kc, Other, KcNodeport}
ForeignSpecs == {Default(Plain), Default(Tls), KafkaCluster(TwoGroups, Plain, "")}
Beside(kc, other, nodeport) ==
  [k \in ForeignNames |-> CASE k = Kc -> kc [] k = Other -> other [] OTHER -> nodeport]
Foreign(clusters, allowed, max) ==
  [leaderElect |-> FALSE, clusters |-> clusters, edits |-> allowed, maxEdits |-> max,
   deletable |-> {}, maxRevision |-> 1, maxExits |-> 0]
OtherPorts == Foreign(Beside({Default(Plain)}, {Default(Tls)}, {}), <<>>, 0)
RemovedGroup == Foreign(Beside({KafkaCluster(TwoGroups, Plain, "")}, {}, {}),
                        [k \in {Kc} |-> {Default(Plain), Default(Tls)}], 2)
SameName == Foreign(Beside({Default(Plain)}, {}, {Default(Plain)}), <<>>, 0)
ForeignScenarios == {OtherPorts, RemovedGroup, SameName}
=============================================================================
