------------------------- MODULE TypeCorrect_proofs -------------------------
(***************************************************************************)
(* Type correctness of ClusterReconcile, for every set of role groups,     *)
(* every set of specs and every bound.  The builders stay opaque: nothing  *)
(* about what is in a ConfigMap or a StatefulSet is used.                  *)
(***************************************************************************)
EXTENDS ClusterReconcile, FiniteSetTheorems, TLAPS

(***************************************************************************)
(* Pointers: sets with at most one element.                                *)
(***************************************************************************)

\* nil is a pointer into any set.
LEMMA NilPointer ==
  ASSUME NEW S PROVE {} \in Pointers(S)
  BY DEF Pointers

\* The address of an element of S is a pointer into S.
LEMMA AddressOf ==
  ASSUME NEW S, NEW v \in S PROVE {v} \in Pointers(S)
  BY DEF Pointers

\* What a pointer into S points to is in S, and it points to nothing else.
LEMMA Pointee ==
  ASSUME NEW S, NEW p \in Pointers(S), NEW v \in p PROVE v \in S /\ p = {v}
  BY DEF Pointers

\* Dereferencing a pointer that is not nil gives what it points to.
LEMMA DerefPointee ==
  ASSUME NEW S, NEW p \in Pointers(S), p # {} PROVE Deref(p) \in p
  BY DEF Deref
-----------------------------------------------------------------------------
(***************************************************************************)
(* What the builders return is of the type the API server stores.          *)
(***************************************************************************)

\* Both Services of a role group are ServiceObjects under ServiceNames.
LEMMA ServicesTyped ==
  ASSUME NEW g \in RoleGroup
  PROVE  /\ ServiceName(g) \in ServiceNames
         /\ CreateServiceMetricsName(g) \in ServiceNames
         /\ RoleGroupService(g) \in ServiceObjects
         /\ RoleGroupMetricsService(g) \in ServiceObjects
  BY DEF ServiceName, ServiceNames, ServiceObjects

\* The other objects built from a spec of KafkaClusters.
LEMMA BuildersTyped ==
  ASSUME NEW c \in KafkaClusters
  PROVE  /\ ConfigMapOf(c) \subseteq ConfigMaps
         /\ ListenerOf(c) \in Listeners
         /\ \A t \in TemplateOf(c) : \A o \in Orderings(ProtocolMap(t)) :
              [template |-> t, protocolOrder |-> o] \in StatefulSets
  <1>1. c.config \in Configs
    BY DEF Configs
  <1>2. ConfigMapOf(c) \subseteq ConfigMaps
    BY <1>1 DEF ConfigMaps, ConfigMapOf, ConfigMapTable
  <1>3. ListenerOf(c) \in Listeners
    BY <1>1 DEF Listeners, ListenerOf, ListenerTable
  <1>4. ASSUME NEW t \in TemplateOf(c), NEW o \in Orderings(ProtocolMap(t))
        PROVE  [template |-> t, protocolOrder |-> o] \in StatefulSets
    <2>1. t \in Templates
      BY <1>1 DEF Templates, TemplateOf, TemplateTable
    <2>2. QED
      BY <2>1 DEF StatefulSets
  <1>5. QED
    BY <1>2, <1>3, <1>4

\* If no listed Listener lacks the port, the bootstrap servers built from the
\* Listeners' addresses are a sequence of host and port pairs.
LEMMA BootstrapServersTyped ==
  ASSUME StatusTypeOK, NEW c, ~PortIsMissing(c),
         NEW o \in Orderings(AddressedListeners)
  PROVE  MakeBootstrapServers(c, o) \in Seq(HostPorts)
  <1>1. /\ AddressedListeners \subseteq RoleGroup
        /\ \A g \in AddressedListeners : ingress[g] # {}
    BY DEF AddressedListeners
  <1>2. Cardinality(AddressedListeners) \in Nat
    BY <1>1, ClustersAssumption, FS_Subset, FS_CardinalityType
  <1>3. o \in [1..Cardinality(AddressedListeners) -> AddressedListeners]
    BY DEF Orderings
  <1>4. ASSUME NEW i \in 1..Cardinality(AddressedListeners)
        PROVE  HostPort(Deref(ingress[o[i]]), NamedPort(Deref(ingress[o[i]]), PortName(c)))
                 \in HostPorts
    <2>1. o[i] \in RoleGroup /\ ingress[o[i]] # {} /\ ingress[o[i]] \in Pointers(Addresses)
      BY <1>1, <1>3, SMTT(60) DEF StatusTypeOK
    <2> DEFINE a == Deref(ingress[o[i]])
    <2>2. a \in ingress[o[i]] /\ a \in Addresses
      BY <2>1, DerefPointee, Pointee
    <2>3. PortName(c) \in PortNames(a.ports)
      BY <2>1, <2>2 DEF PortIsMissing
    <2>4. NamedPort(a, PortName(c)) \in a.ports
      BY <2>3 DEF PortNames, NamedPort
    <2>5. QED
      BY <2>2, <2>4 DEF HostPorts
  <1>5. MakeBootstrapServers(c, o) \in [1..Cardinality(AddressedListeners) -> HostPorts]
    BY <1>3, <1>4 DEF MakeBootstrapServers
  <1>6. QED
    BY <1>2, <1>5
-----------------------------------------------------------------------------
(***************************************************************************)
(* Type correctness.                                                       *)
(***************************************************************************)

\* A pass that ends leaves the worker idle and without a spec.
LEMMA EndPassTyped ==
  ASSUME PassTypeOK, EndPass, cluster' = cluster, cached' = cached, queued' \in BOOLEAN
  PROVE  PassTypeOK'
  BY NilPointer, Zenon DEF PassTypeOK, EndPass

\* A resource found unchanged or written: the pass goes on or ends.
LEMMA CreateOrUpdateTyped ==
  ASSUME PassTypeOK, cluster' = cluster, target # {},
         NEW stored, NEW built, NEW next \in Resources, CreateOrUpdate(stored, built, next)
  PROVE  PassTypeOK'
  <1>1. CASE Requeue
    BY <1>1, EndPassTyped DEF Requeue
  <1>2. CASE Advance(next)
    BY <1>2 DEF PassTypeOK, Advance, queueVars, passVars, Resources
  <1>3. QED
    BY <1>1, <1>2 DEF CreateOrUpdate

\* The pass of a role group's resource has a spec and a group of the right types.
LEMMA PassHolds ==
  ASSUME PassTypeOK
  PROVE  /\ \A c \in target : c \in KafkaClusters /\ target = {c}
         /\ \A g \in group : g \in RoleGroup /\ group = {g}
         /\ pc \in Resources => target # {}
  BY Pointee DEF PassTypeOK, Resources

\* Initially nothing exists and the types hold.
LEMMA TypeInit == Init => TypeOK
  <1> SUFFICES ASSUME Init PROVE TypeOK
    OBVIOUS
  <1>1. PassTypeOK
    BY NilPointer, AddressOf, Zenon DEF Init, PassTypeOK, Resources
  <1>2. ObjectsTypeOK
    BY NilPointer, ZenonT(60) DEF Init, ObjectsTypeOK
  <1>3. StatusTypeOK
    BY NilPointer DEF Init, StatusTypeOK
  <1>4. QED
    BY <1>1, <1>2, <1>3 DEF Init, TypeOK

\* Each resource of a pass keeps the types.
LEMMA TypePassStep ==
  ASSUME TypeOK, PassStep PROVE TypeOK'
  <1> USE DEF TypeOK
  <1>0. /\ \A c \in target : c \in KafkaClusters /\ target = {c}
        /\ \A g \in group : g \in RoleGroup /\ group = {g}
        /\ pc \in Resources => target # {}
    BY PassHolds
  <1>1. CASE ReconcileServiceAccount
    <2>1. PassTypeOK'
      BY <1>0, <1>1, CreateOrUpdateTyped, Zenon DEF ReconcileServiceAccount, Resources
    <2>2. QED
      BY <1>1, <2>1 DEF ReconcileServiceAccount, ObjectsTypeOK, StatusTypeOK,
                        groupObjects, status, counters
  <1>2. CASE NextRoleGroup
    <2>1. PassTypeOK'
      <3>1. CASE left = {} /\ pc' = "discovery" /\ group' = {} /\ UNCHANGED left
        BY <1>2, <3>1, NilPointer DEF NextRoleGroup, PassTypeOK, queueVars, Resources
      <3>2. ASSUME NEW g \in left, pc' = "service", group' = {g}, left' = left \ {g}
            PROVE  PassTypeOK'
        BY <1>2, <3>2, AddressOf DEF NextRoleGroup, PassTypeOK, queueVars, Resources
      <3>3. QED
        BY <1>2, <3>1, <3>2 DEF NextRoleGroup
    <2>2. QED
      BY <1>2, <2>1 DEF NextRoleGroup, ObjectsTypeOK, StatusTypeOK,
                        objects, groupObjects, status, counters
  <1>3. ASSUME NEW g \in group, ReconcileService(g) PROVE TypeOK'
    <2>1. PassTypeOK'
      BY <1>0, <1>3, CreateOrUpdateTyped DEF ReconcileService, Resources
    <2>2. {RoleGroupService(g)} \in Pointers(ServiceObjects)
      BY <1>0, ServicesTyped, AddressOf
    <2>3. QED
      BY <1>3, <2>1, <2>2, Zenon
         DEF ReconcileService, ObjectsTypeOK, StatusTypeOK, status, counters
  <1>4. ASSUME NEW g \in group, ReconcileMetricsService(g) PROVE TypeOK'
    <2>1. PassTypeOK'
      BY <1>0, <1>4, CreateOrUpdateTyped DEF ReconcileMetricsService, Resources
    <2>2. {RoleGroupMetricsService(g)} \in Pointers(ServiceObjects)
      BY <1>0, ServicesTyped, AddressOf
    <2>3. QED
      BY <1>4, <2>1, <2>2, Zenon DEF ReconcileMetricsService, ObjectsTypeOK, StatusTypeOK,
                              status, counters
  <1>5. ASSUME NEW c \in target, NEW g \in group, ReconcileConfigMap(c, g) PROVE TypeOK'
    <2>1. CASE Requeue /\ UNCHANGED configMap
      <3>1. PassTypeOK'
        BY <1>5, <2>1, EndPassTyped, SMTT(60) DEF ReconcileConfigMap, Requeue
      <3>2. QED
        BY <1>5, <2>1, <3>1 DEF ReconcileConfigMap, ObjectsTypeOK, StatusTypeOK,
                                status, counters
    <2>2. ASSUME NEW built \in ConfigMapOf(c),
                 configMap' = [configMap EXCEPT ![g] = {built}],
                 CreateOrUpdate(configMap[g], built, "statefulset")
          PROVE  TypeOK'
      <3>1. PassTypeOK'
        BY <1>0, <1>5, <2>2, CreateOrUpdateTyped DEF ReconcileConfigMap, Resources
      <3>2. {built} \in Pointers(ConfigMaps)
        BY <1>0, <2>2, BuildersTyped, AddressOf
      <3>3. QED
        BY <1>5, <2>2, <3>1, <3>2, Zenon DEF ReconcileConfigMap, ObjectsTypeOK, StatusTypeOK,
                                      status, counters
    <2>3. QED
      BY <1>5, <2>1, <2>2 DEF ReconcileConfigMap
  <1>6. ASSUME NEW c \in target, NEW g \in group, ReconcileStatefulSet(c, g) PROVE TypeOK'
    <2>1. CASE Requeue /\ UNCHANGED <<statefulSet, pods>>
      <3>1. PassTypeOK'
        BY <1>6, <2>1, EndPassTyped DEF ReconcileStatefulSet, Requeue
      <3>2. QED
        BY <1>6, <2>1, <3>1 DEF ReconcileStatefulSet, ObjectsTypeOK, StatusTypeOK, counters
    <2>2. ASSUME NEW t \in TemplateOf(c), NEW o \in Orderings(ProtocolMap(t)),
                 NEW built, built = [template |-> t, protocolOrder |-> o],
                 statefulSet' = [statefulSet EXCEPT ![g] = {built}],
                 pods' = [pods EXCEPT ![g] = IF @ = "ready" /\ statefulSet[g] # {built}
                                             THEN "outdated" ELSE @],
                 CreateOrUpdate(statefulSet[g], built, "listener")
          PROVE  TypeOK'
      <3>1. PassTypeOK'
        BY <1>0, <1>6, <2>2, CreateOrUpdateTyped DEF ReconcileStatefulSet, Resources
      <3>2. {built} \in Pointers(StatefulSets)
        BY <1>0, <2>2, BuildersTyped, AddressOf
      <3>3. QED
        BY <1>6, <2>2, <3>1, <3>2, Zenon
           DEF ReconcileStatefulSet, ObjectsTypeOK, StatusTypeOK, counters
    <2>3. QED
      BY <1>6, <2>1, <2>2, Zenon DEF ReconcileStatefulSet
  <1>7. ASSUME NEW c \in target, NEW g \in group, ReconcileListener(c, g) PROVE TypeOK'
    <2>1. PassTypeOK'
      BY <1>0, <1>7, CreateOrUpdateTyped DEF ReconcileListener, Resources
    <2>2. {ListenerOf(c)} \in Pointers(Listeners)
      BY <1>0, BuildersTyped, AddressOf
    <2>3. QED
      BY <1>7, <2>1, <2>2, ZenonT(60)
         DEF ReconcileListener, ObjectsTypeOK, StatusTypeOK, status, counters
  <1>8. ASSUME NEW c \in target, NEW d \in Discovery, ReconcileDiscovery(c, d) PROVE TypeOK'
    <2>1. CASE Requeue /\ UNCHANGED discovery
      <3>1. PassTypeOK'
        BY <1>8, <2>1, EndPassTyped, SMTT(60) DEF ReconcileDiscovery, Requeue
      <3>2. QED
        BY <1>8, <2>1, <3>1 DEF ReconcileDiscovery, ObjectsTypeOK, StatusTypeOK,
                                groupObjects, status, counters
    <2>2. ASSUME ~PortIsMissing(c), NEW o \in Orderings(AddressedListeners),
                 discovery' = [discovery EXCEPT ![d] = {MakeBootstrapServers(c, o)}],
                 CreateOrUpdate(discovery[d], MakeBootstrapServers(c, o), AfterDiscovery(d))
          PROVE  TypeOK'
      <3>1. AfterDiscovery(d) \in Resources
        BY DEF AfterDiscovery, Resources
      <3>2. PassTypeOK'
        BY <1>0, <1>8, <2>2, <3>1, CreateOrUpdateTyped DEF ReconcileDiscovery
      <3>3. {MakeBootstrapServers(c, o)} \in Pointers(Seq(HostPorts))
        BY <2>2, BootstrapServersTyped, AddressOf, SMTT(60)
      <3>4. QED
        BY <1>8, <2>2, <3>2, <3>3, SMTT(60) DEF ReconcileDiscovery, ObjectsTypeOK, StatusTypeOK,
                                      groupObjects, status, counters
    <2>3. QED
      BY <1>8, <2>1, <2>2 DEF ReconcileDiscovery
  <1>9. ASSUME NEW c \in target, Ready(c) PROVE TypeOK'
    <2>1. PassTypeOK'
      BY <1>9, EndPassTyped, Zenon DEF Ready, Requeue, queueVars, PassTypeOK
    <2>2. QED
      BY <1>9, <2>1, SMTT(60) DEF Ready, ObjectsTypeOK, StatusTypeOK,
                        objects, groupObjects, status, counters
  <1>10. QED
    BY <1>1, <1>2, <1>3, <1>4, <1>5, <1>6, <1>7, <1>8, <1>9 DEF PassStep

\* The other steps of the operator, and those of the user and the controllers
\* around it, keep the types.
LEMMA TypeNext ==
  ASSUME TypeOK, [Next]_vars PROVE TypeOK'
  <1> USE DEF TypeOK, queueVars, passVars, objects, groupObjects, status, counters
  <1>1. CASE PassStep
    BY <1>1, TypePassStep, SMTT(60)
  <1>2. CASE ReconcileDeleted \/ WatchEvent \/ Resync
    BY <1>2, ZenonT(60)
       DEF ReconcileDeleted, WatchEvent, Resync, PassTypeOK, ObjectsTypeOK, StatusTypeOK
  <1>3. ASSUME NEW order \in BOOLEAN, StartPass(order) PROVE TypeOK'
    <2>1. UNION {c.roleGroups : c \in cached} \subseteq RoleGroup
      BY ClustersAssumption, Pointee DEF PassTypeOK
    <2>2. PassTypeOK'
      BY <1>3, <2>1, NilPointer, Zenon DEF StartPass, PassTypeOK, Resources
    <2>3. QED
      BY <1>3, <2>2 DEF StartPass, ObjectsTypeOK, StatusTypeOK
  <1>4. CASE ApiError
    <2>1. PassTypeOK'
      BY <1>4, EndPassTyped DEF ApiError, Requeue
    <2>2. QED
      BY <1>4, <2>1 DEF ApiError, ObjectsTypeOK, StatusTypeOK
  <1>5. CASE Crash
    <2>1. PassTypeOK'
      BY <1>5, NilPointer, Zenon DEF Crash, PassTypeOK
    <2>2. QED
      BY <1>5, <2>1 DEF Crash, ObjectsTypeOK, StatusTypeOK
  <1>6. CASE Restart
    <2>1. PassTypeOK'
      BY <1>6 DEF Restart, PassTypeOK
    <2>2. QED
      BY <1>6, <2>1 DEF Restart, ObjectsTypeOK, StatusTypeOK
  <1>7. CASE EditCluster \/ DeleteCluster
    <2>1. PassTypeOK'
      BY <1>7, NilPointer, AddressOf, ZenonT(60) DEF EditCluster, DeleteCluster, PassTypeOK
    <2>2. QED
      BY <1>7, <2>1 DEF EditCluster, DeleteCluster, ObjectsTypeOK, StatusTypeOK
  <1>8. CASE CollectCluster
    <2>1. ObjectsTypeOK'
      BY <1>8, NilPointer, ZenonT(60) DEF CollectCluster, ObjectsTypeOK
    <2>2. QED
      BY <1>8, <2>1 DEF CollectCluster, PassTypeOK, StatusTypeOK
  <1>9. ASSUME NEW g \in RoleGroup, CollectGroup(g) PROVE TypeOK'
    <2>1. ASSUME NEW n \in ServiceNames
          PROVE  {x \in service[n] : x.selects # g} \in Pointers(ServiceObjects)
      BY SMTT(60) DEF ObjectsTypeOK, Pointers
    <2>2. ObjectsTypeOK'
      BY <1>9, <2>1, NilPointer, SMTT(60) DEF CollectGroup, ObjectsTypeOK
    <2>3. StatusTypeOK'
      BY <1>9, NilPointer, SMTT(60) DEF CollectGroup, StatusTypeOK
    <2>4. QED
      BY <1>9, <2>2, <2>3 DEF CollectGroup, PassTypeOK
  <1>10. ASSUME NEW g \in RoleGroup, PublishAddresses(g) PROVE TypeOK'
    <2>1. PICK l \in listener[g] : ingress' = [ingress EXCEPT ![g] = {IngressAddress(g, l)}]
      BY <1>10, ZenonT(60) DEF PublishAddresses
    <2>2. l \in Listeners
      BY Pointee DEF ObjectsTypeOK
    <2>3. {IngressAddress(g, l)} \in Pointers(Addresses)
      BY <2>2, AddressOf DEF Addresses
    <2>4. QED
      BY <1>10, <2>1, <2>3, Zenon DEF PublishAddresses, PassTypeOK, ObjectsTypeOK, StatusTypeOK
  <1>11. ASSUME NEW g \in RoleGroup, StopPods(g) \/ StartPods(g) PROVE TypeOK'
    BY <1>11 DEF StopPods, StartPods, PassTypeOK, ObjectsTypeOK, StatusTypeOK
  <1>12. CASE UNCHANGED vars
    BY <1>12 DEF vars, PassTypeOK, ObjectsTypeOK, StatusTypeOK
  <1>13. QED
    BY <1>1, <1>2, <1>3, <1>4, <1>5, <1>6, <1>7, <1>8, <1>9, <1>10, <1>11, <1>12, ZenonT(60)
       DEF Next, Operator, Worker, Environment, GroupControllers

\* Type correctness of the reconcile loop and of every object it stores.
THEOREM TypeCorrect == Spec => []TypeOK
  <1>1. Init => TypeOK
    BY TypeInit
  <1>2. TypeOK /\ [Next]_vars => TypeOK'
    BY TypeNext
  <1>3. QED
    BY <1>1, <1>2, PTL DEF Spec
=============================================================================
