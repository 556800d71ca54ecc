------------------------- MODULE MCClusterReconcile -------------------------
(***************************************************************************)
(* Small instances of ClusterReconcile: the specs a user switches between. *)
(***************************************************************************)
EXTENDS ClusterReconcile

Plain == [tls                           |-> {},
          authentication                |-> <<>>,
          logging                       |-> {[enableVectorAgent |-> {FALSE}]},
          vectorAggregatorConfigMapName |-> "",
          brokerListenerClass           |-> "cluster-internal",
          bootstrapListenerClass        |-> "cluster-internal",
          requestedSecretLifeTime       |-> "1d",
          storage                       |-> {}]
Tls == [Plain EXCEPT !.tls = {[serverSecretClass   |-> "tls",
                               internalSecretClass |-> "tls",
                               sslStorePassword    |-> "pw"]}]
Kerberos == [Tls EXCEPT !.authentication = <<[kerberos |-> {"krb"}]>>]
External == [Plain EXCEPT !.bootstrapListenerClass = "external-stable"]
Broken == [Plain EXCEPT !.logging = {[enableVectorAgent |-> {}]}]
Larger == [Plain EXCEPT !.storage = {[capacity |-> "10Gi", storageClass |-> ""]}]

Default == <<"default">>
Other == <<"other">>
DefaultMetrics == <<"default", "metrics">>

OneGroup == {Default}
TwoGroups == {Default, Other}
ClashingGroups == {Default, DefaultMetrics}

PlainOnly == [roleGroups : {OneGroup}, config : {Plain}]
\* The security of the brokers changes, or logging is such that no build succeeds.
SecurityEdits == [roleGroups : {OneGroup}, config : {Plain, Kerberos, Broken}]
\* Those, and the class of the bootstrap Listener.
AddressEdits == [roleGroups : {OneGroup}, config : {Plain, Kerberos, Broken, External}]
\* A second role group comes and goes.
GroupEdits == [roleGroups : {OneGroup, TwoGroups}, config : {Plain}]
\* So it does, and the data volumes may be others when it goes.
GrowingEdits == GroupEdits \cup [roleGroups : {OneGroup}, config : {Larger}]
\* The data volume of the brokers grows, or two role groups have names such that one is
\* called as the metrics Service of the other.
BlockingEdits == [roleGroups : {OneGroup}, config : {Plain, Larger}]
                 \cup [roleGroups : {ClashingGroups}, config : {Plain}]
=============================================================================
