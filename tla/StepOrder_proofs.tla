-------------------------- MODULE StepOrder_proofs --------------------------
(***************************************************************************)
(* What a step may never do, from the same invariant.                      *)
(***************************************************************************)
EXTENDS PassInvariant_proofs

\* Only ReconcileStatefulSet writes a StatefulSet, from the template of its spec.
LEMMA StatefulSetWriter ==
  ASSUME TypeOK, [Next]_vars, NEW g \in RoleGroup,
         statefulSet'[g] \notin {{}, statefulSet[g]}
  PROVE  \E c \in target : pc = "statefulset" /\ group = {g} /\ StatefulSetApplied(c, g)'
  <1> USE DEF TypeOK, queueVars, passVars, objects, groupObjects, status, counters
  <1>1. ASSUME NEW c \in target, NEW h \in group, ReconcileStatefulSet(c, h)
        PROVE  pc = "statefulset" /\ group = {g} /\ StatefulSetApplied(c, g)'
    <2>1. group = {h} /\ h \in RoleGroup
      BY PassHolds, SMTT(60)
    <2>2. PICK t \in TemplateOf(c) :
            \/ statefulSet' = statefulSet
            \/ \E o \in Orderings(ProtocolMap(t)) :
                 statefulSet' =
                   [statefulSet EXCEPT ![h] = {[template |-> t, protocolOrder |-> o]}]
      BY <1>1, ZenonT(60) DEF ReconcileStatefulSet
    <2>3. PICK o \in Orderings(ProtocolMap(t)) :
            statefulSet' = [statefulSet EXCEPT ![h] = {[template |-> t, protocolOrder |-> o]}]
      BY <2>2, SMTT(60)
    <2>4. g = h
      BY <2>1, <2>3, SMTT(60) DEF ObjectsTypeOK
    <2>5. statefulSet'[g] = {[template |-> t, protocolOrder |-> o]}
      BY <2>3, <2>4, SMTT(60) DEF ObjectsTypeOK
    <2>6. StatefulSetApplied(c, g)'
      BY <2>5, SMTT(60) DEF StatefulSetApplied
    <2>7. QED
      BY <1>1, <2>1, <2>4, <2>6, SMTT(60) DEF ReconcileStatefulSet
  <1>2. ASSUME NEW h \in RoleGroup, CollectGroup(h) PROVE FALSE
    BY <1>2, SMTT(60) DEF CollectGroup, ObjectsTypeOK
  <1>3. CASE statefulSet' = statefulSet
    BY <1>3
  <1>4. CASE PassStep
    BY <1>1, <1>3, <1>4, Zenon
       DEF PassStep, ReconcileServiceAccount, NextRoleGroup, ReconcileService,
           ReconcileMetricsService, ReconcileConfigMap, ReconcileListener,
           ReconcileDiscovery, Ready
  <1>5. CASE Operator /\ ~PassStep
    BY <1>3, <1>5, Zenon DEF Operator, Worker, ReconcileDeleted, StartPass, WatchEvent, Resync,
                      ApiError, Crash, Restart
  <1>6. CASE Environment
    BY <1>2, <1>3, <1>6, Zenon DEF Environment, GroupControllers, EditCluster, DeleteCluster,
                            CollectCluster, PublishAddresses, StopPods, StartPods
  <1>7. CASE UNCHANGED vars
    BY <1>3, <1>7, Zenon DEF vars
  <1>8. QED
    BY <1>4, <1>5, <1>6, <1>7, SMTT(60) DEF Next

\* Pods start from, and roll to, a configuration that is in place: a StatefulSet is
\* written only after the Service and ConfigMap of the same spec.
THEOREM StatefulSetOrdered == Spec => StatefulSetAfterItsConfig
  <1>1. ASSUME TypeOK, PassInvariant, [Next]_vars, NEW g \in RoleGroup, cluster # {},
               statefulSet'[g] \notin {{}, statefulSet[g]}
        PROVE  \E c \in target : /\ StatefulSetApplied(c, g)'
                                 /\ ServiceApplied(g) /\ ConfigMapApplied(c, g)
    <2>1. PICK c \in target : pc = "statefulset" /\ group = {g} /\ StatefulSetApplied(c, g)'
      BY <1>1, StatefulSetWriter, SMTT(60)
    <2>2. ServiceApplied(g) /\ ConfigMapApplied(c, g)
      BY <1>1, <2>1, SMTT(60) DEF PassInvariant, Checked
    <2>3. QED
      BY <2>1, <2>2, SMTT(60)
  <1>2. TypeOK /\ PassInvariant /\ [Next]_vars =>
          [\A g \in RoleGroup :
             statefulSet'[g] \notin {{}, statefulSet[g]} /\ cluster # {} =>
               \E c \in target : /\ StatefulSetApplied(c, g)'
                                 /\ ServiceApplied(g) /\ ConfigMapApplied(c, g)]_vars
    BY <1>1, SMTT(60)
  <1>3. QED
    BY <1>2, TypeCorrect, PassInvariantHolds, PTL DEF Spec, StatefulSetAfterItsConfig

\* Only ReconcileDiscovery writes a discovery ConfigMap.
LEMMA DiscoveryWriter ==
  ASSUME TypeOK, [Next]_vars, NEW d \in Discovery,
         discovery'[d] \notin {{}, discovery[d]}
  PROVE  target # {} /\ pc \in Discovery
  <1> USE DEF TypeOK, queueVars, passVars, objects, groupObjects, status, counters
  <1>1. ASSUME NEW c \in target, NEW e \in Discovery, ReconcileDiscovery(c, e)
        PROVE  target # {} /\ pc \in Discovery
    BY <1>1, SMTT(60) DEF ReconcileDiscovery
  <1>2. CASE CollectCluster
    BY <1>2, SMTT(60) DEF CollectCluster
  <1>3. CASE discovery' = discovery
    BY <1>3
  <1>4. CASE PassStep
    BY <1>1, <1>3, <1>4, Zenon
       DEF PassStep, ReconcileServiceAccount, NextRoleGroup, ReconcileService,
           ReconcileMetricsService, ReconcileConfigMap, ReconcileStatefulSet,
           ReconcileListener, Ready
  <1>5. CASE Operator /\ ~PassStep
    BY <1>3, <1>5, ZenonT(60)
       DEF Operator, Worker, ReconcileDeleted, StartPass, WatchEvent, Resync,
                      ApiError, Crash, Restart
  <1>6. CASE Environment
    BY <1>2, <1>3, <1>6 DEF Environment, GroupControllers, EditCluster, DeleteCluster,
                            CollectGroup, PublishAddresses, StopPods, StartPods
  <1>7. CASE UNCHANGED vars
    BY <1>3, <1>7, Zenon DEF vars
  <1>8. QED
    BY <1>4, <1>5, <1>6, <1>7, SMTT(60) DEF Next

\* Clients are told of brokers only after every role group of the spec is applied.
THEOREM DiscoveryOrdered == Spec => DiscoveryAfterBrokers
  <1>1. ASSUME TypeOK, PassInvariant, [Next]_vars, NEW d \in Discovery, cluster # {},
               discovery'[d] \notin {{}, discovery[d]}
        PROVE  \E c \in target : \A g \in c.roleGroups : GroupApplied(c, g)
    <2>1. target # {} /\ pc \in Discovery
      BY <1>1, DiscoveryWriter
    <2>2. PICK c \in target : TRUE
      BY <2>1, SMTT(60)
    <2>3. \A g \in c.roleGroups : GroupApplied(c, g)
      BY <1>1, <2>1, <2>2, ZenonT(60) DEF PassInvariant, Checked, Discovery
    <2>4. QED
      BY <2>3, SMTT(60)
  <1>2. TypeOK /\ PassInvariant /\ [Next]_vars =>
          [\A d \in Discovery :
             discovery'[d] \notin {{}, discovery[d]} /\ cluster # {} =>
               \E c \in target : \A g \in c.roleGroups : GroupApplied(c, g)]_vars
    BY <1>1, Zenon
  <1>3. QED
    BY <1>2, TypeCorrect, PassInvariantHolds, PTL DEF Spec, DiscoveryAfterBrokers
=============================================================================
