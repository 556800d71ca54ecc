-------------------------- MODULE Contract_proofs ---------------------------
(***************************************************************************)
(* The loop of passes implements LevelTriggered.  A step changes either    *)
(* the KafkaCluster or its objects or neither, and what remains to be      *)
(* known, that the operator rests on applied objects, is RestMeansApplied. *)
(***************************************************************************)
EXTENDS PassInvariant_proofs

\* Only the user's steps change the KafkaCluster, and they change no object.
LEMMA ClusterWriter ==
  ASSUME TypeOK, [Next]_vars, cluster' # cluster
  PROVE  cluster # {} /\ UNCHANGED objects
  <1> USE DEF queueVars, passVars, status, counters
  <1>1. CASE EditCluster \/ DeleteCluster
    BY <1>1, Zenon DEF EditCluster, DeleteCluster
  <1>2. CASE Operator
    BY <1>2, ZenonT(60)
       DEF Operator, Worker, PassStep, ReconcileServiceAccount, NextRoleGroup, ReconcileService,
           ReconcileMetricsService, ReconcileConfigMap, ReconcileStatefulSet, ReconcileListener,
           ReconcileDiscovery, Ready, ReconcileDeleted, StartPass, WatchEvent, Resync,
           ApiError, Crash, Restart
  <1>3. CASE Environment /\ ~(EditCluster \/ DeleteCluster)
    BY <1>3, ZenonT(60) DEF Environment, GroupControllers, CollectGroup, CollectCluster,
                            PublishAddresses, StopPods, StartPods
  <1>4. CASE UNCHANGED vars
    BY <1>4, Zenon DEF vars
  <1>5. QED
    BY <1>1, <1>2, <1>3, <1>4, Zenon DEF Next

\* A resource that is not found as it should be ends the pass with a requeue, and
\* one that is leaves every object as it was.
LEMMA WriteRequeues ==
  ASSUME TypeOK, PassStep PROVE UNCHANGED objects \/ (pc # "idle" /\ queued')
  <1> USE DEF objects, groupObjects, TypeOK, ObjectsTypeOK
  <1>1. CASE ReconcileServiceAccount
    <2>1. pc # "idle"
      BY <1>1 DEF ReconcileServiceAccount
    <2>2. CASE serviceAccount
      BY <1>1, <2>2, Zenon DEF ReconcileServiceAccount
    <2>3. CASE ~serviceAccount
      BY <1>1, <2>1, <2>3, Zenon DEF ReconcileServiceAccount, CreateOrUpdate, Requeue
    <2>4. QED
      BY <2>2, <2>3
  <1>2. CASE NextRoleGroup
    BY <1>2, SMTT(60) DEF NextRoleGroup
  <1>3. ASSUME NEW g \in group, ReconcileService(g)
        PROVE  UNCHANGED objects \/ (pc # "idle" /\ queued')
    <2>1. g \in RoleGroup /\ ServiceName(g) \in ServiceNames
      BY PassHolds, ServicesTyped, SMTT(60)
    <2>2. CASE service[ServiceName(g)] = {RoleGroupService(g)}
      BY <1>3, <2>1, <2>2, SMTT(60) DEF ReconcileService
    <2>3. QED
      BY <1>3, <2>2, SMTT(60) DEF ReconcileService, CreateOrUpdate, Requeue
  <1>4. ASSUME NEW g \in group, ReconcileMetricsService(g)
        PROVE  UNCHANGED objects \/ (pc # "idle" /\ queued')
    <2>1. g \in RoleGroup /\ CreateServiceMetricsName(g) \in ServiceNames
      BY PassHolds, ServicesTyped, SMTT(60)
    <2>2. CASE service[CreateServiceMetricsName(g)] = {RoleGroupMetricsService(g)}
      BY <1>4, <2>1, <2>2, SMTT(60) DEF ReconcileMetricsService
    <2>3. QED
      BY <1>4, <2>2, SMTT(60) DEF ReconcileMetricsService, CreateOrUpdate, Requeue
  <1>5. ASSUME NEW c \in target, NEW g \in group, ReconcileConfigMap(c, g)
        PROVE  UNCHANGED objects \/ (pc # "idle" /\ queued')
    <2>1. g \in RoleGroup
      BY PassHolds, SMTT(60)
    <2>2. ASSUME NEW built, configMap[g] = {built}, configMap' = [configMap EXCEPT ![g] = {built}]
          PROVE  configMap' = configMap
      BY <2>1, <2>2
    <2>3. configMap' = configMap \/ Requeue
      BY <1>5, <2>2, Zenon DEF ReconcileConfigMap, CreateOrUpdate
    <2>4. QED
      BY <1>5, <2>3, Zenon DEF ReconcileConfigMap, Requeue
  <1>6. ASSUME NEW c \in target, NEW g \in group, ReconcileStatefulSet(c, g)
        PROVE  UNCHANGED objects \/ (pc # "idle" /\ queued')
    <2>1. g \in RoleGroup
      BY PassHolds, SMTT(60)
    <2>2. PICK t \in TemplateOf(c) :
            \/ Requeue
            \/ \E o \in Orderings(ProtocolMap(t)) :
                 LET built == [template |-> t, protocolOrder |-> o]
                 IN  /\ statefulSet' = [statefulSet EXCEPT ![g] = {built}]
                     /\ CreateOrUpdate(statefulSet[g], built, "listener")
      BY <1>6, ZenonT(60) DEF ReconcileStatefulSet
    <2>3. statefulSet' = statefulSet \/ Requeue
      BY <2>1, <2>2, SMTT(60) DEF CreateOrUpdate
    <2>4. QED
      BY <1>6, <2>3, SMTT(60) DEF ReconcileStatefulSet, Requeue
  <1>7. ASSUME NEW c \in target, NEW g \in group, ReconcileListener(c, g)
        PROVE  UNCHANGED objects \/ (pc # "idle" /\ queued')
    <2>1. g \in RoleGroup
      BY PassHolds, SMTT(60)
    <2>2. QED
      BY <1>7, <2>1, SMTT(60) DEF ReconcileListener, CreateOrUpdate, Requeue
  <1>8. ASSUME NEW c \in target, NEW d \in Discovery, ReconcileDiscovery(c, d)
        PROVE  UNCHANGED objects \/ (pc # "idle" /\ queued')
    <2>1. ASSUME NEW built, discovery[d] = {built}, discovery' = [discovery EXCEPT ![d] = {built}]
          PROVE  discovery' = discovery
      BY <2>1
    <2>2. discovery' = discovery \/ Requeue
      BY <1>8, <2>1, Zenon DEF ReconcileDiscovery, CreateOrUpdate
    <2>3. pc # "idle"
      BY <1>8 DEF ReconcileDiscovery, Discovery
    <2>4. QED
      BY <1>8, <2>2, <2>3, Zenon DEF ReconcileDiscovery, Requeue
  <1>9. ASSUME NEW c \in target, Ready(c) PROVE UNCHANGED objects
    BY <1>9, Zenon DEF Ready
  <1>10. QED
    BY <1>1, <1>2, <1>3, <1>4, <1>5, <1>6, <1>7, <1>8, <1>9, SMTT(60) DEF PassStep

\* An object changes only when the operator is at work and will go on working, or
\* when the KafkaCluster is gone.
LEMMA ObjectsWriter ==
  ASSUME TypeOK, [Next]_vars
  PROVE  \/ UNCHANGED objects
         \/ ~Resting /\ ~Resting' /\ cluster' = cluster
         \/ cluster = {} /\ cluster' = cluster /\ Resting' = Resting
  <1>1. CASE PassStep
    <2>1. UNCHANGED objects \/ (pc # "idle" /\ queued')
      BY <1>1, WriteRequeues
    <2>2. UNCHANGED objects \/ cluster' = cluster
      BY ClusterWriter
    <2>3. QED
      BY <2>1, <2>2, SMTT(60) DEF Resting
  <1>2. CASE Operator /\ ~PassStep
    BY <1>2, ZenonT(60) DEF Operator, Worker, ReconcileDeleted, StartPass, WatchEvent, Resync,
                            ApiError, Crash, Restart
  <1>3. CASE CollectCluster \/ \E g \in RoleGroup : CollectGroup(g)
    <2>1. cluster = {} /\ UNCHANGED <<cluster, queueVars, pc>>
      BY <1>3, Zenon DEF CollectCluster, CollectGroup
    <2>2. QED
      BY <2>1 DEF Resting, queueVars
  <1>4. CASE Environment /\ ~(CollectCluster \/ \E g \in RoleGroup : CollectGroup(g))
    BY <1>4, ZenonT(60) DEF Environment, GroupControllers, EditCluster, DeleteCluster,
                            PublishAddresses, StopPods, StartPods
  <1>5. CASE UNCHANGED vars
    BY <1>5, Zenon DEF vars
  <1>6. QED
    BY <1>1, <1>2, <1>3, <1>4, <1>5, Zenon DEF Next

\* Which specs are applied depends on the objects only.
LEMMA SatisfiedStays ==
  ASSUME UNCHANGED objects
  PROVE  {c \in KafkaClusters : Applied(c)}' = {c \in KafkaClusters : Applied(c)}
  BY AppliedStays, SMTT(60) DEF objects, groupObjects, Applied

\* The loop of passes, with its edits, errors and crashes, keeps the contract of a
\* level-triggered operator: it implements LevelTriggered for every value of the
\* constants.
THEOREM ContractKept == Spec => KeepsContract
  <1>1. Init => Contract!Init
    BY SMTT(60) DEF Init, Contract!Init, Contract!Requests, Resting
  <1>2. ASSUME TypeOK, TypeOK', RestMeansApplied', [Next]_vars
        PROVE  [Contract!Next]_(Contract!vars)
    <2> DEFINE Satisfied == {c \in KafkaClusters : Applied(c)}
    <2>1. cluster \in Contract!Requests /\ cluster' \in Contract!Requests
      BY <1>2, SMTT(60) DEF TypeOK, PassTypeOK, Pointers, Contract!Requests
    <2>2. Resting' => cluster' \subseteq Satisfied'
      BY <1>2, SMTT(60) DEF RestMeansApplied, TypeOK, PassTypeOK, Pointers
    <2>3. CASE cluster' # cluster
      <3>1. cluster # {} /\ Satisfied' = Satisfied
        BY <1>2, <2>3, ClusterWriter, SatisfiedStays
      <3>2. Resting' \in BOOLEAN
        BY DEF Resting
      <3>3. Contract!Ask
        BY <2>1, <2>2, <3>1, <3>2 DEF Contract!Ask
      <3>4. QED
        BY <3>3 DEF Contract!Next
    <2>4. CASE cluster' = cluster /\ ~UNCHANGED objects
      <3>1. (Resting => cluster = {}) /\ Resting' = Resting
        BY <1>2, <2>4, ObjectsWriter DEF Resting
      <3>2. Contract!Work
        BY <2>4, <3>1 DEF Contract!Work
      <3>3. QED
        BY <3>2 DEF Contract!Next
    <2>5. CASE cluster' = cluster /\ UNCHANGED objects
      <3>1. Satisfied' = Satisfied
        BY <2>5, SatisfiedStays
      <3>2. CASE Resting' = Resting
        BY <2>5, <3>1, <3>2 DEF Contract!vars
      <3>3. CASE ~Resting /\ Resting'
        BY <2>2, <2>5, <3>1, <3>3 DEF Contract!Rest, Contract!Next
      <3>4. CASE Resting /\ ~Resting'
        BY <2>5, <3>1, <3>4 DEF Contract!Wake, Contract!Next
      <3>5. QED
        BY <3>2, <3>3, <3>4 DEF Resting
    <2>6. QED
      BY <2>3, <2>4, <2>5
  <1>3. QED
    BY <1>1, <1>2, TypeCorrect, NothingForgotten, PTL DEF Spec, KeepsContract, Contract!Spec
=============================================================================
