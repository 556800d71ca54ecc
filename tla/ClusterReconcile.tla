--------------------------- MODULE ClusterReconcile ---------------------------
(***************************************************************************)
(* The reconcile loop of one KafkaCluster: the user edits the resource, an *)
(* informer tells the controller, and the controller's single worker makes *)
(* passes over the resources RegisterResources lists, creating or patching *)
(* them one at a time, until a pass finds nothing to change and every      *)
(* StatefulSet ready (controller/kafkacluster_controller.go, cluster.go,   *)
(* role.go, discovery.go, service.go, listener.go).                        *)
(*                                                                         *)
(* Around it: the API server and the garbage collector, the StatefulSet    *)
(* controller and the listener operator, which act on the same objects at  *)
(* any time; API errors, operator crashes and the periodic resync.         *)
(*                                                                         *)
(* Two Go maps are iterated in an order that changes from pass to pass: the *)
(* role groups, and the protocol map that becomes an argument of the       *)
(* StatefulSet; the informer lists Listeners in no fixed order either.     *)
(***************************************************************************)
EXTENDS PodTemplate, FiniteSets

CONSTANTS
  RoleGroup,      \* role group names, each a sequence of the words its "-" separate
  KafkaClusters,  \* the specs a user may apply: [roleGroups, config]
  Deletable,      \* may the user delete the KafkaCluster
  MaxEdits,       \* bound on edits of the KafkaCluster
  MaxFaults,      \* bound on API errors
  MaxCrashes      \* bound on operator crashes

ASSUME BoundsAssumption == /\ Deletable \in BOOLEAN
                           /\ MaxEdits \in Nat
                           /\ MaxFaults \in Nat
                           /\ MaxCrashes \in Nat

ASSUME ClustersAssumption == /\ IsFiniteSet(RoleGroup)
                             /\ \A c \in KafkaClusters : c.roleGroups \subseteq RoleGroup

VARIABLES
  cluster,         \* the KafkaCluster in the API server, {} once deleted
  cached,          \* the informer's copy of it
  queued,          \* is the cluster's key in the work queue
  pc,              \* the resource the worker reconciles next
  target,          \* the copy of the KafkaCluster the pass works from
  group,           \* the role group the pass is in
  left,            \* role groups the pass has not come to
  sameOrder,       \* will this pass iterate as the stored objects were built
  serviceAccount,  \* does the ServiceAccount exist
  service,         \* Services by name
  configMap, statefulSet, listener,   \* the objects of each role group
  discovery,       \* the two discovery ConfigMaps
  ingress,         \* status.ingressAddresses of each bootstrap Listener
  pods,            \* the broker pods of each StatefulSet
  edits, faults, crashes

queueVars == <<cached, queued>>
passVars == <<target, group, left, sameOrder>>
groupObjects == <<service, configMap, statefulSet, listener>>
objects == <<serviceAccount, groupObjects, discovery>>
status == <<ingress, pods>>
counters == <<edits, faults, crashes>>
vars == <<cluster, queueVars, pc, passVars, objects, status, counters>>
-----------------------------------------------------------------------------
(***************************************************************************)
(* The objects of a role group.  The headless Service has the full name of *)
(* the group, the metrics Service that name with one word more.            *)
(***************************************************************************)
ServiceName(g) == g
CreateServiceMetricsName(g) == Append(g, "metrics")
ServiceNames == RoleGroup \cup {CreateServiceMetricsName(g) : g \in RoleGroup}

RoleGroupService(g) == [kind |-> "headless", selects |-> g]
RoleGroupMetricsService(g) == [kind |-> "metrics", selects |-> g]
ServiceObjects == {RoleGroupService(g) : g \in RoleGroup}
                  \cup {RoleGroupMetricsService(g) : g \in RoleGroup}

Discovery == {"discovery", "nodeport"}
\* What the builders make of the spec of each KafkaCluster.
Configs == {c.config : c \in KafkaClusters}
ConfigMapTable == [c \in Configs |-> BuildConfigMap(c)]
TemplateTable == [c \in Configs |-> BuildStatefulSet(c)]
ListenerTable == [c \in Configs |-> BuildBootstrapListener(c)]
PortNameTable == [c \in Configs |-> DiscoveryPortName(NewKafkaSecurity(c))]
ConfigMapOf(c) == ConfigMapTable[c.config]
TemplateOf(c) == TemplateTable[c.config]
ListenerOf(c) == ListenerTable[c.config]
PortName(c) == PortNameTable[c.config]

ConfigMaps == UNION {BuildConfigMap(c) : c \in Configs}
Templates == UNION {BuildStatefulSet(c) : c \in Configs}
Listeners == {BuildBootstrapListener(c) : c \in Configs}

\* The orders in which iterating over the finite set S may visit its elements.
Orderings(S) ==
  {o \in [1..Cardinality(S) -> S] : \A i, j \in DOMAIN o : o[i] = o[j] => i = j}

ProtocolMap(t) == DOMAIN t.kafka.launch.config.listenerSecurityProtocolMap
StatefulSets == UNION {{[template |-> t, protocolOrder |-> o] :
                          o \in Orderings(ProtocolMap(t))} : t \in Templates}

\* The address the listener operator gives a Listener: one per group and class,
\* with the named ports of the Listener's spec.
IngressAddress(g, l) == [host |-> <<g, l.class>>, ports |-> l.ports]
Addresses == {IngressAddress(g, l) : g \in RoleGroup, l \in Listeners}
HostPort(address, port) == [host |-> address.host, port |-> port.port]
HostPorts == UNION {{HostPort(a, p) : p \in a.ports} : a \in Addresses}
-----------------------------------------------------------------------------
Init ==
  /\ cluster \in {{c} : c \in KafkaClusters}
  /\ cached = {} /\ queued = FALSE
  /\ pc = "idle" /\ target = {} /\ group = {} /\ left = {} /\ sameOrder = FALSE
  /\ serviceAccount = FALSE
  /\ service = [n \in ServiceNames |-> {}]
  /\ configMap = [g \in RoleGroup |-> {}]
  /\ statefulSet = [g \in RoleGroup |-> {}]
  /\ listener = [g \in RoleGroup |-> {}]
  /\ discovery = [d \in Discovery |-> {}]
  /\ ingress = [g \in RoleGroup |-> {}]
  /\ pods = [g \in RoleGroup |-> "none"]
  /\ edits = 0 /\ faults = 0 /\ crashes = 0

\* Mutation: a finished pass keeps its copy of the spec.
BugEndPass == pc' = "idle" /\ group' = {} /\ left' = {} /\ UNCHANGED <<target, sameOrder>>

\* How a pass ends: with nothing left to do, or to be retried.
EndPass == pc' = "idle" /\ target' = {} /\ group' = {} /\ left' = {} /\ sameOrder' = FALSE
\* Mutation: the pass ends as if it had finished.
BugRequeue == EndPass /\ UNCHANGED queueVars
Requeue == EndPass /\ queued' = TRUE /\ UNCHANGED cached

Advance(next) == pc' = next /\ UNCHANGED <<queueVars, passVars>>
-----------------------------------------------------------------------------
(***************************************************************************)
(* The informer and the work queue (controller-runtime, external).  The    *)
(* controller watches KafkaCluster only: no change of an owned object or   *)
(* of a Listener's status puts the key in the queue.                       *)
(***************************************************************************)
\* Mutation: an event that arrives during a pass is dropped.
BugWatchEvent ==
  /\ pc # "down" /\ cached # cluster
  /\ cached' = cluster /\ queued' = (pc = "idle")
  /\ UNCHANGED <<cluster, pc, passVars, objects, status, counters>>

\* Mutation: the informer never hears of a deletion.
BugWatchEventNoDelete ==
  /\ pc # "down" /\ cached # cluster /\ cluster # {}
  /\ cached' = cluster /\ queued' = TRUE
  /\ UNCHANGED <<cluster, pc, passVars, objects, status, counters>>

WatchEvent ==
  /\ pc # "down" /\ cached # cluster
  /\ cached' = cluster /\ queued' = TRUE
  /\ UNCHANGED <<cluster, pc, passVars, objects, status, counters>>

\* Mutation: there is no periodic resync.
BugResync == FALSE /\ UNCHANGED vars

Resync ==
  /\ pc # "down" /\ cached # {} /\ ~queued
  /\ queued' = TRUE
  /\ UNCHANGED <<cluster, cached, pc, passVars, objects, status, counters>>

\* Reconcile of a key whose KafkaCluster is not found returns at once.
ReconcileDeleted ==
  /\ pc = "idle" /\ queued /\ cached = {}
  /\ queued' = FALSE
  /\ UNCHANGED <<cluster, cached, pc, passVars, objects, status, counters>>

\* Reconcile reads the KafkaCluster from the cache and registers its resources.
StartPass(order) ==
  /\ pc = "idle" /\ queued /\ cached # {}
  /\ queued' = FALSE
  /\ pc' = "serviceaccount"
  /\ target' = cached /\ group' = {} /\ left' = UNION {c.roleGroups : c \in cached}
  /\ sameOrder' = order
  /\ UNCHANGED <<cluster, cached, objects, status, counters>>
-----------------------------------------------------------------------------
(***************************************************************************)
(* One resource of a pass.  operator-go writes the object when it differs  *)
(* from the stored one and the pass then ends with a requeue; only an      *)
(* unchanged object lets the pass go on to the next resource.              *)
(***************************************************************************)
CreateOrUpdate(stored, built, next) ==
  \/ stored = {built} /\ Advance(next)
  \/ stored # {built} /\ Requeue

\* Mutation: discovery is registered before the broker role.
BugReconcileServiceAccount ==
  /\ pc = "serviceaccount"
  /\ serviceAccount' = TRUE
  /\ CreateOrUpdate({serviceAccount}, TRUE, "discovery")
  /\ UNCHANGED <<cluster, groupObjects, discovery, status, counters>>

ReconcileServiceAccount ==
  /\ pc = "serviceaccount"
  /\ serviceAccount' = TRUE
  /\ CreateOrUpdate({serviceAccount}, TRUE, "rolegroup")
  /\ UNCHANGED <<cluster, groupObjects, discovery, status, counters>>

\* Mutation: the iteration stops after one role group.
BugNextRoleGroup ==
  /\ pc = "rolegroup"
  /\ \/ /\ group = {}
        /\ \E g \in left : pc' = "service" /\ group' = {g} /\ left' = left \ {g}
     \/ group # {} /\ pc' = "discovery" /\ group' = {} /\ UNCHANGED left
  /\ UNCHANGED <<cluster, queueVars, target, sameOrder, objects, status, counters>>

\* The next role group in the iteration over Spec.RoleGroups, or none left.
NextRoleGroup ==
  /\ pc = "rolegroup"
  /\ \/ \E g \in left : pc' = "service" /\ group' = {g} /\ left' = left \ {g}
     \/ left = {} /\ pc' = "discovery" /\ group' = {} /\ UNCHANGED left
  /\ UNCHANGED <<cluster, queueVars, target, sameOrder, objects, status, counters>>

\* Mutation: the StatefulSet is registered before the ConfigMap.
BugReconcileService(g) ==
  /\ pc = "service"
  /\ service' = [service EXCEPT ![ServiceName(g)] = {RoleGroupService(g)}]
  /\ CreateOrUpdate(service[ServiceName(g)], RoleGroupService(g), "statefulset")
  /\ UNCHANGED <<cluster, serviceAccount, configMap, statefulSet, listener, discovery,
                 status, counters>>

ReconcileService(g) ==
  /\ pc = "service"
  /\ service' = [service EXCEPT ![ServiceName(g)] = {RoleGroupService(g)}]
  /\ CreateOrUpdate(service[ServiceName(g)], RoleGroupService(g), "configmap")
  /\ UNCHANGED <<cluster, serviceAccount, configMap, statefulSet, listener, discovery,
                 status, counters>>

ReconcileConfigMap(c, g) ==
  /\ pc = "configmap"
  /\ \/ ConfigMapOf(c) = {} /\ Requeue /\ UNCHANGED configMap
     \/ \E built \in ConfigMapOf(c) :
          /\ configMap' = [configMap EXCEPT ![g] = {built}]
          /\ CreateOrUpdate(configMap[g], built, "statefulset")
  /\ UNCHANGED <<cluster, serviceAccount, service, statefulSet, listener, discovery,
                 status, counters>>

\* The API server refuses to change the volumeClaimTemplates of a StatefulSet.
Refused(t, g) == \E s \in statefulSet[g] : s.template.claims # t.claims

\* The protocol map is written in an order of its own at every build; the
\* StatefulSet builds whenever the ConfigMap does (VectorAgreement of SpecEdits).
ReconcileStatefulSet(c, g) ==
  /\ pc = "statefulset"
  /\ \E t \in TemplateOf(c) :
       \/ Refused(t, g) /\ Requeue /\ UNCHANGED <<statefulSet, pods>>
       \/ /\ ~Refused(t, g)
          /\ \E o \in Orderings(ProtocolMap(t)) :
               LET built == [template |-> t, protocolOrder |-> o]
               IN  /\ sameOrder => \A s \in statefulSet[g] : s.template = t => s = built
                   /\ statefulSet' = [statefulSet EXCEPT ![g] = {built}]
                   /\ pods' = [pods EXCEPT ![g] =
                                 IF @ = "ready" /\ statefulSet[g] # {built}
                                 THEN "outdated" ELSE @]
                   /\ CreateOrUpdate(statefulSet[g], built, "listener")
  /\ UNCHANGED <<cluster, serviceAccount, service, configMap, listener, discovery,
                 ingress, counters>>

\* Mutation: the Listener never compares equal and is patched in every pass.
BugReconcileListener(c, g) ==
  /\ pc = "listener"
  /\ listener' = [listener EXCEPT ![g] = {ListenerOf(c)}]
  /\ Requeue
  /\ UNCHANGED <<cluster, serviceAccount, service, configMap, statefulSet, discovery,
                 status, counters>>

ReconcileListener(c, g) ==
  /\ pc = "listener"
  /\ listener' = [listener EXCEPT ![g] = {ListenerOf(c)}]
  /\ CreateOrUpdate(listener[g], ListenerOf(c), "metrics")
  /\ UNCHANGED <<cluster, serviceAccount, service, configMap, statefulSet, discovery,
                 status, counters>>

ReconcileMetricsService(g) ==
  /\ pc = "metrics"
  /\ service' = [service EXCEPT ![CreateServiceMetricsName(g)] = {RoleGroupMetricsService(g)}]
  /\ CreateOrUpdate(service[CreateServiceMetricsName(g)], RoleGroupMetricsService(g), "rolegroup")
  /\ UNCHANGED <<cluster, serviceAccount, configMap, statefulSet, listener, discovery,
                 status, counters>>
-----------------------------------------------------------------------------
(***************************************************************************)
(* Discovery.  The Listeners are selected by one label only; one without   *)
(* addresses is skipped, one whose address lacks the port is an error.     *)
(***************************************************************************)
AddressedListeners == {g \in RoleGroup : ingress[g] # {}}

PortIsMissing(c) ==
  \E g \in RoleGroup : \E a \in ingress[g] : PortName(c) \notin PortNames(a.ports)

NamedPort(a, name) == CHOOSE p \in a.ports : p.name = name

\* listenerHosts and makeBootstrapServers for Listeners listed in order o.
MakeBootstrapServers(c, o) ==
  [i \in DOMAIN o |-> LET a == Deref(ingress[o[i]])
                      IN  HostPort(a, NamedPort(a, PortName(c)))]

HostSet(servers) == {servers[i] : i \in DOMAIN servers}

AfterDiscovery(d) == IF d = "discovery" THEN "nodeport" ELSE "ready"

\* Mutation: discovery is created once and never updated.
BugReconcileDiscovery(c, d) ==
  /\ pc = d
  /\ \/ discovery[d] # {} /\ Advance(AfterDiscovery(d)) /\ UNCHANGED discovery
     \/ /\ discovery[d] = {} /\ ~PortIsMissing(c)
        /\ \E o \in Orderings(AddressedListeners) :
             discovery' = [discovery EXCEPT ![d] = {MakeBootstrapServers(c, o)}]
        /\ Requeue
     \/ discovery[d] = {} /\ PortIsMissing(c) /\ Requeue /\ UNCHANGED discovery
  /\ UNCHANGED <<cluster, serviceAccount, groupObjects, status, counters>>

ReconcileDiscovery(c, d) ==
  /\ pc = d
  /\ \/ PortIsMissing(c) /\ Requeue /\ UNCHANGED discovery
     \/ /\ ~PortIsMissing(c)
        /\ \E o \in Orderings(AddressedListeners) :
             LET built == MakeBootstrapServers(c, o)
             IN  /\ sameOrder => \A s \in discovery[d] : HostSet(s) = HostSet(built) => s = built
                 /\ discovery' = [discovery EXCEPT ![d] = {built}]
                 /\ CreateOrUpdate(discovery[d], built, AfterDiscovery(d))
  /\ UNCHANGED <<cluster, serviceAccount, groupObjects, status, counters>>

\* Ready asks whether each StatefulSet has its replicas ready, whichever revision
\* they run, and requeues if not; then the reconcile is finished.
Ready(c) ==
  /\ pc = "ready"
  /\ \/ (\A g \in c.roleGroups : pods[g] # "none") /\ EndPass /\ UNCHANGED queueVars
     \/ (\E g \in c.roleGroups : pods[g] = "none") /\ Requeue
  /\ UNCHANGED <<cluster, objects, status, counters>>

\* An API call of the pass fails: the pass returns the error and is retried.
ApiError ==
  /\ pc \notin {"idle", "down"} /\ faults < MaxFaults
  /\ faults' = faults + 1
  /\ Requeue
  /\ UNCHANGED <<cluster, objects, status, edits, crashes>>

PassStep ==
  \/ ReconcileServiceAccount
  \/ NextRoleGroup
  \/ \E g \in group : ReconcileService(g) \/ ReconcileMetricsService(g)
  \/ \E c \in target, g \in group :
       ReconcileConfigMap(c, g) \/ ReconcileStatefulSet(c, g) \/ ReconcileListener(c, g)
  \/ \E c \in target, d \in Discovery : ReconcileDiscovery(c, d)
  \/ \E c \in target : Ready(c)

\* The operator stops at any point and forgets the pass, the queue and the cache;
\* when it is back the informer lists every KafkaCluster.
Crash ==
  /\ pc # "down" /\ crashes < MaxCrashes
  /\ crashes' = crashes + 1
  /\ pc' = "down" /\ target' = {} /\ group' = {} /\ left' = {} /\ sameOrder' = FALSE
  /\ cached' = {} /\ queued' = FALSE
  /\ UNCHANGED <<cluster, objects, status, edits, faults>>

Restart ==
  /\ pc = "down"
  /\ pc' = "idle" /\ cached' = cluster /\ queued' = (cluster # {})
  /\ UNCHANGED <<cluster, passVars, objects, status, counters>>
-----------------------------------------------------------------------------
(***************************************************************************)
(* The user, and the controllers this repository relies on (external).     *)
(***************************************************************************)
EditCluster ==
  /\ cluster # {} /\ edits < MaxEdits
  /\ \E c \in KafkaClusters : c \notin cluster /\ cluster' = {c}
  /\ edits' = edits + 1
  /\ UNCHANGED <<queueVars, pc, passVars, objects, status, faults, crashes>>

DeleteCluster ==
  /\ cluster # {} /\ Deletable
  /\ cluster' = {}
  /\ UNCHANGED <<queueVars, pc, passVars, objects, status, counters>>

\* Objects of a role group that exist, and the objects of the cluster itself.
GroupObjectsExist(g) ==
  \/ configMap[g] # {} \/ statefulSet[g] # {} \/ listener[g] # {}
  \/ \E n \in ServiceNames : \E s \in service[n] : s.selects = g
ClusterObjectsExist == serviceAccount \/ \E d \in Discovery : discovery[d] # {}

\* Objects owned by a KafkaCluster that is gone are collected, in any order.
CollectGroup(g) ==
  /\ cluster = {} /\ GroupObjectsExist(g)
  /\ service' = [n \in ServiceNames |-> {s \in service[n] : s.selects # g}]
  /\ configMap' = [configMap EXCEPT ![g] = {}]
  /\ statefulSet' = [statefulSet EXCEPT ![g] = {}]
  /\ listener' = [listener EXCEPT ![g] = {}]
  /\ ingress' = [ingress EXCEPT ![g] = {}]
  /\ pods' = [pods EXCEPT ![g] = "none"]
  /\ UNCHANGED <<cluster, queueVars, pc, passVars, serviceAccount, discovery, counters>>

CollectCluster ==
  /\ cluster = {} /\ ClusterObjectsExist
  /\ serviceAccount' = FALSE
  /\ discovery' = [d \in Discovery |-> {}]
  /\ UNCHANGED <<cluster, queueVars, pc, passVars, groupObjects, status, counters>>

\* The listener operator publishes the addresses of a Listener's current spec.
PublishAddresses(g) ==
  /\ \E l \in listener[g] : /\ ingress[g] # {IngressAddress(g, l)}
                            /\ ingress' = [ingress EXCEPT ![g] = {IngressAddress(g, l)}]
  /\ UNCHANGED <<cluster, queueVars, pc, passVars, objects, pods, counters>>

\* Pods of an outdated revision are stopped.  Pods start once everything they
\* mount or run as exists; the bootstrap volume needs the Listener's addresses.
StopPods(g) ==
  /\ pods[g] = "outdated"
  /\ pods' = [pods EXCEPT ![g] = "none"]
  /\ UNCHANGED <<cluster, queueVars, pc, passVars, objects, ingress, counters>>

StartPods(g) ==
  /\ pods[g] = "none" /\ statefulSet[g] # {}
  /\ serviceAccount /\ configMap[g] # {} /\ ingress[g] # {}
  /\ pods' = [pods EXCEPT ![g] = "ready"]
  /\ UNCHANGED <<cluster, queueVars, pc, passVars, objects, ingress, counters>>

\* Someone deletes an object of the cluster.
DeleteChild ==
  /\ faults < MaxFaults /\ faults' = faults + 1
  /\ \/ serviceAccount' = FALSE /\ UNCHANGED <<groupObjects, discovery, status>>
     \/ \E n \in ServiceNames :
          /\ service' = [service EXCEPT ![n] = {}]
          /\ UNCHANGED <<serviceAccount, configMap, statefulSet, listener, discovery, status>>
     \/ \E g \in RoleGroup :
          \/ /\ configMap' = [configMap EXCEPT ![g] = {}]
             /\ UNCHANGED <<serviceAccount, service, statefulSet, listener, discovery, status>>
          \/ /\ statefulSet' = [statefulSet EXCEPT ![g] = {}]
             /\ pods' = [pods EXCEPT ![g] = "none"]
             /\ UNCHANGED <<serviceAccount, service, configMap, listener, discovery, ingress>>
          \/ /\ listener' = [listener EXCEPT ![g] = {}]
             /\ ingress' = [ingress EXCEPT ![g] = {}]
             /\ UNCHANGED <<serviceAccount, service, configMap, statefulSet, discovery, pods>>
     \/ \E d \in Discovery :
          /\ discovery' = [discovery EXCEPT ![d] = {}]
          /\ UNCHANGED <<serviceAccount, groupObjects, status>>
  /\ UNCHANGED <<cluster, queueVars, pc, passVars, edits, crashes>>
-----------------------------------------------------------------------------
Worker == PassStep \/ ReconcileDeleted
Operator == \/ Worker \/ StartPass(TRUE) \/ StartPass(FALSE)
            \/ WatchEvent \/ Resync \/ ApiError \/ Crash \/ Restart
GroupControllers(g) == CollectGroup(g) \/ PublishAddresses(g) \/ StopPods(g) \/ StartPods(g)
Environment == \/ EditCluster \/ DeleteCluster \/ CollectCluster
               \/ \E g \in RoleGroup : GroupControllers(g)

Next == Operator \/ Environment
Spec == Init /\ [][Next]_vars

(***************************************************************************)
(* Fairness: the worker, the informer and the external controllers run on; *)
(* a crashed operator is restarted by its Deployment.  Go's map order is   *)
(* random and independent of everything else: of infinitely many passes    *)
(* infinitely many iterate in the order of the stored objects.  That the   *)
(* periodic resync happens is assumed only where a property needs it.      *)
(***************************************************************************)
Fairness ==
  /\ WF_vars(Worker) /\ WF_vars(WatchEvent) /\ WF_vars(Restart)
  /\ WF_vars(StartPass(FALSE) \/ StartPass(TRUE)) /\ SF_vars(StartPass(TRUE))
  /\ WF_vars(CollectCluster)
  /\ \A g \in RoleGroup : /\ WF_vars(CollectGroup(g)) /\ WF_vars(PublishAddresses(g))
                          /\ WF_vars(StopPods(g)) /\ WF_vars(StartPods(g))

FairSpec == Spec /\ Fairness
ResyncSpec == FairSpec /\ WF_vars(Resync)
DisturbedSpec == Init /\ [][Next \/ DeleteChild]_vars /\ Fairness /\ WF_vars(Resync)
-----------------------------------------------------------------------------

Resources == {"serviceaccount", "rolegroup", "service", "configmap", "statefulset",
              "listener", "metrics", "discovery", "nodeport", "ready"}

PassTypeOK ==
  /\ cluster \in Pointers(KafkaClusters) /\ cached \in Pointers(KafkaClusters)
  /\ queued \in BOOLEAN /\ sameOrder \in BOOLEAN
  /\ pc \in Resources \cup {"idle", "down"}
  /\ target \in Pointers(KafkaClusters) /\ (target = {} <=> pc \in {"idle", "down"})
  /\ group \in Pointers(RoleGroup) /\ left \subseteq RoleGroup

ObjectsTypeOK ==
  /\ serviceAccount \in BOOLEAN
  /\ service \in [ServiceNames -> Pointers(ServiceObjects)]
  /\ configMap \in [RoleGroup -> Pointers(ConfigMaps)]
  /\ statefulSet \in [RoleGroup -> Pointers(StatefulSets)]
  /\ listener \in [RoleGroup -> Pointers(Listeners)]
  /\ discovery \in [Discovery -> Pointers(Seq(HostPorts))]

StatusTypeOK == /\ ingress \in [RoleGroup -> Pointers(Addresses)]
                /\ pods \in [RoleGroup -> {"none", "ready", "outdated"}]

\* Every object in the API server is one the builders make for some spec, a status
\* is one some Listener had, and the worker holds a spec exactly during a pass.
TypeOK == /\ PassTypeOK /\ ObjectsTypeOK /\ StatusTypeOK
          /\ edits \in Nat /\ faults \in Nat /\ crashes \in Nat

\* What it means that an object is the one spec c asks for.
ServiceApplied(g) == service[ServiceName(g)] = {RoleGroupService(g)}
MetricsApplied(g) == service[CreateServiceMetricsName(g)] = {RoleGroupMetricsService(g)}
ConfigMapApplied(c, g) == configMap[g] # {} /\ configMap[g] \subseteq ConfigMapOf(c)
StatefulSetApplied(c, g) ==
  statefulSet[g] # {} /\ \A s \in statefulSet[g] : s.template \in TemplateOf(c)
ListenerApplied(c, g) == listener[g] = {ListenerOf(c)}

GroupApplied(c, g) ==
  /\ ServiceApplied(g) /\ ConfigMapApplied(c, g) /\ StatefulSetApplied(c, g)
  /\ ListenerApplied(c, g) /\ MetricsApplied(g)

Applied(c) == /\ serviceAccount
              /\ \A g \in c.roleGroups : GroupApplied(c, g)
              /\ \A d \in Discovery : discovery[d] # {}

\* When the operator rests (no pass, nothing queued, the informer up to date),
\* every object is the one the current KafkaCluster asks for: an edit that
\* arrives during a pass, a failed pass and a crash are never forgotten.
Resting == pc = "idle" /\ ~queued /\ cached = cluster
RestMeansApplied == Resting => \A c \in cluster : Applied(c)

\* What a pass has found unchanged so far: a write ends a pass, so all of it still
\* holds when the pass comes to its end.
Checked(c) ==
  /\ pc = "serviceaccount" => left = c.roleGroups /\ group = {}
  /\ pc # "serviceaccount" => serviceAccount
  /\ pc \in {"discovery", "nodeport", "ready"} => left = {} /\ group = {}
  /\ \A g \in c.roleGroups \ (left \cup group) : GroupApplied(c, g)
  /\ \A g \in group :
       /\ pc # "service" => ServiceApplied(g)
       /\ pc \notin {"service", "configmap"} => ConfigMapApplied(c, g)
       /\ pc \in {"listener", "metrics", "rolegroup"} => StatefulSetApplied(c, g)
       /\ pc \in {"metrics", "rolegroup"} => ListenerApplied(c, g)
       /\ pc = "rolegroup" => MetricsApplied(g)
  /\ pc \in {"nodeport", "ready"} => discovery["discovery"] # {}
  /\ pc = "ready" => discovery["nodeport"] # {}

\* The reason RestMeansApplied holds: what the pass checked stays as its spec asks;
\* unless the key is queued again, the spec of the pass is the informer's and,
\* between passes, all of the informer's spec is applied.
PassInvariant ==
  /\ cluster # {} => \A c \in target : Checked(c)
  /\ ~queued /\ target # {} => target = cached
  /\ ~queued /\ pc = "idle" /\ cluster # {} => \A c \in cached : Applied(c)

Contract == INSTANCE LevelTriggered
              WITH Request   <- KafkaClusters,
                   desired   <- cluster,
                   satisfied <- {c \in KafkaClusters : Applied(c)},
                   resting   <- Resting

\* The loop of passes implements the contract of a level-triggered operator: it
\* comes to rest only when the objects are those of the current KafkaCluster, and
\* from then on changes none of them before it is asked to or woken.
KeepsContract == Contract!Spec

\* A StatefulSet is created or patched only when the role group's Service and
\* ConfigMap are those of the spec it is built from: pods never start from, or
\* roll to, a configuration that is still the old one (role.go's order).
StatefulSetAfterItsConfig ==
  [][\A g \in RoleGroup :
       statefulSet'[g] \notin {{}, statefulSet[g]} /\ cluster # {} =>
         \E c \in target : /\ StatefulSetApplied(c, g)'
                           /\ ServiceApplied(g) /\ ConfigMapApplied(c, g)]_vars

\* A discovery ConfigMap is written only when every role group of the spec is
\* applied: clients are never sent to brokers that are not set up (cluster.go).
DiscoveryAfterBrokers ==
  [][\A d \in Discovery :
       discovery'[d] \notin {{}, discovery[d]} /\ cluster # {} =>
         \E c \in target : \A g \in c.roleGroups : GroupApplied(c, g)]_vars
-----------------------------------------------------------------------------
Buildable(c) == ConfigMapOf(c) # {}

\* Once the user stops editing, every object of a spec that can be built becomes
\* and stays what that spec asks for, whatever failed or crashed before.
ObjectsConverge == <>[](\A c \in cluster : Buildable(c) => Applied(c))

\* If from some time on passes iterate in the order of the stored objects, then
\* passes over a spec that can be built reach their end, with every broker ready,
\* again and again: nothing but that order makes the operator patch or requeue
\* for ever.
ReconcileFinishes ==
  <>[](target # {} => sameOrder) =>
    []<>(\A c \in cluster : Buildable(c) =>
           \/ pc = "idle" /\ ~queued
           \/ pc = "ready" /\ target = {c} /\ \A g \in c.roleGroups : pods[g] # "none")

NoObjects == /\ ~ClusterObjectsExist
             /\ \A g \in RoleGroup : ~GroupObjectsExist(g) /\ ingress[g] = {}

\* After the KafkaCluster is deleted nothing of it stays, although a pass under
\* way may still create objects from the copy it read.
DeletionCleans == cluster = {} ~> [](NoObjects)

\* The addresses clients should get for spec c.
Expected(c) == UNION {{HostPort(IngressAddress(g, l), p) :
                         p \in {q \in l.ports : q.name = PortName(c)}} :
                           g \in c.roleGroups, l \in {ListenerOf(c)}}
DiscoveryCurrent(c) ==
  \A d \in Discovery : \E s \in discovery[d] : HostSet(s) = Expected(c)

\* If the resync goes on, the discovery ConfigMaps come to list the current address
\* and port of every role group (discovery.go reads Listener statuses that lag their
\* spec, and nothing tells the controller when they change).
DiscoveryConverges ==
  WF_vars(Resync) => <>[](\A c \in cluster : Buildable(c) => DiscoveryCurrent(c))

\* The objects of a role group that is taken out of the spec do not stay for ever:
\* the cluster state reflects the state the user specified.
RemovedGroupsAreCleaned ==
  <>[](\A c \in cluster : \A g \in RoleGroup \ c.roleGroups : ~GroupObjectsExist(g))

\* A StatefulSet is patched only when the pod it describes has changed, not
\* because it was built again.
NoSpuriousPatch ==
  [][\A g \in RoleGroup : \A s \in statefulSet[g], t \in statefulSet'[g] :
       s.template = t.template => s = t]_vars
=============================================================================
