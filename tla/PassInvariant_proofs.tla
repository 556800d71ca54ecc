------------------------ MODULE PassInvariant_proofs ------------------------
(***************************************************************************)
(* The invariant of a pass.  Every write ends its pass with a requeue, so  *)
(* a step that goes on to the next resource leaves all objects unchanged.  *)
(***************************************************************************)
EXTENDS TypeCorrect_proofs

\* A requeue gives up the pass: what it checked is checked again.
LEMMA RequeueKeeps == ASSUME Requeue PROVE PassInvariant'
  BY DEF Requeue, EndPass, PassInvariant

\* A resource was found as the spec asks; the pass goes on to the next one.
LEMMA AdvanceKeeps ==
  ASSUME PassInvariant, NEW next, next # "idle", Advance(next), cluster' = cluster,
         \A c \in target : cluster # {} => Checked(c)'
  PROVE  PassInvariant'
  BY SMTT(60) DEF Advance, queueVars, passVars, PassInvariant

\* While no object changes, what is applied stays applied.
LEMMA AppliedStays ==
  ASSUME UNCHANGED objects
  PROVE  /\ \A g : ServiceApplied(g)' <=> ServiceApplied(g)
         /\ \A g : MetricsApplied(g)' <=> MetricsApplied(g)
         /\ \A c, g : ConfigMapApplied(c, g)' <=> ConfigMapApplied(c, g)
         /\ \A c, g : StatefulSetApplied(c, g)' <=> StatefulSetApplied(c, g)
         /\ \A c, g : ListenerApplied(c, g)' <=> ListenerApplied(c, g)
         /\ \A c, g : GroupApplied(c, g)' <=> GroupApplied(c, g)
         /\ \A c : Applied(c)' <=> Applied(c)
  BY SMTT(60) DEF objects, groupObjects, ServiceApplied, MetricsApplied, ConfigMapApplied,
         StatefulSetApplied, ListenerApplied, GroupApplied, Applied

\* A step that changes neither the pass nor an object keeps what was checked.
LEMMA CheckedStays ==
  ASSUME UNCHANGED <<objects, pc, passVars>>, NEW c, Checked(c)
  PROVE  Checked(c)'
  BY AppliedStays, SMTT(60) DEF Checked, objects, passVars

\* Within a role group: the pass goes on to the group's resource next once those
\* before it are as the spec asks.
LEMMA CheckedInGroup ==
  ASSUME UNCHANGED objects, NEW c, NEW g, NEW next, Checked(c), group = {g}, Advance(next),
         pc \in {"service", "configmap", "statefulset", "listener", "metrics"},
         next \in {"configmap", "statefulset", "listener", "metrics", "rolegroup"},
         ServiceApplied(g),
         next # "configmap" => ConfigMapApplied(c, g),
         next \in {"listener", "metrics", "rolegroup"} => StatefulSetApplied(c, g),
         next \in {"metrics", "rolegroup"} => ListenerApplied(c, g),
         next = "rolegroup" => MetricsApplied(g)
  PROVE  Checked(c)'
  <1>1. pc' = next /\ group' = {g} /\ left' = left /\ group' = group
    BY SMTT(60) DEF Advance, passVars
  <1>2. serviceAccount'
    BY SMTT(60) DEF Checked, objects
  <1>3. \A h \in c.roleGroups \ (left' \cup group') : GroupApplied(c, h)'
    <2>1. \A h \in c.roleGroups \ (left \cup group) : GroupApplied(c, h)
      BY DEF Checked
    <2>2. QED
      BY <1>1, <2>1, AppliedStays, SMTT(60)
  <1>4. /\ ServiceApplied(g)'
        /\ next # "configmap" => ConfigMapApplied(c, g)'
        /\ next \in {"listener", "metrics", "rolegroup"} => StatefulSetApplied(c, g)'
        /\ next \in {"metrics", "rolegroup"} => ListenerApplied(c, g)'
        /\ next = "rolegroup" => MetricsApplied(g)'
    BY AppliedStays
  <1>5. QED
    BY <1>1, <1>2, <1>3, <1>4, SMTT(60) DEF Checked

\* Each resource of a pass: it is written and the pass ends, or it was as the spec
\* asks and joins what the pass has checked.
LEMMA InvariantPassStep ==
  ASSUME TypeOK, PassInvariant, PassStep PROVE PassInvariant'
  <1>0. /\ \A c \in target : c \in KafkaClusters /\ target = {c}
        /\ \A g \in group : g \in RoleGroup /\ group = {g}
        /\ pc \in Resources => target # {}
    BY PassHolds DEF TypeOK
  <1>00. cluster # {} => \A c \in target : Checked(c)
    BY DEF PassInvariant
  <1> USE RequeueKeeps
  <1>1. CASE ReconcileServiceAccount
    <2>1. CASE serviceAccount /\ Advance("rolegroup")
      <3>1. UNCHANGED objects
        BY <1>1, <2>1, SMTT(60) DEF ReconcileServiceAccount, objects
      <3>2. ASSUME NEW c \in target, cluster # {} PROVE Checked(c)'
        BY <1>00, <1>1, <2>1, <3>1, <3>2, AppliedStays, SMTT(60)
           DEF ReconcileServiceAccount, Advance, passVars, objects, Checked
      <3>3. QED
        BY <1>1, <2>1, <3>2, AdvanceKeeps DEF ReconcileServiceAccount
    <2>2. {serviceAccount} = {TRUE} => serviceAccount
      <3>1. TRUE \in {TRUE}
        OBVIOUS
      <3>2. {serviceAccount} = {TRUE} => TRUE \in {serviceAccount}
        BY <3>1, Zenon
      <3>3. TRUE \in {serviceAccount} => serviceAccount
        BY Zenon
      <3>4. QED
        BY <3>2, <3>3, Zenon
    <2>3. QED
      BY <1>1, <2>1, <2>2, Zenon DEF ReconcileServiceAccount, CreateOrUpdate
  <1>2. CASE NextRoleGroup
    <2>1. UNCHANGED objects /\ cluster' = cluster /\ target' = target /\ queued' = queued
          /\ cached' = cached /\ pc' # "idle"
      BY <1>2, SMTT(60) DEF NextRoleGroup, queueVars
    <2>2. ASSUME NEW c \in target, cluster # {} PROVE Checked(c)'
      <3>1. \A g \in c.roleGroups \ left : GroupApplied(c, g)
        BY <1>00, <1>2, <2>2, SMTT(60) DEF NextRoleGroup, Checked, GroupApplied
      <3>2. serviceAccount'
        BY <1>00, <1>2, <2>1, <2>2, SMTT(60) DEF NextRoleGroup, Checked, objects
      <3>3. \A g \in c.roleGroups \ left : GroupApplied(c, g)'
        BY <2>1, <3>1, AppliedStays
      <3>4. QED
        BY <1>2, <3>2, <3>3, SMTT(60) DEF NextRoleGroup, Checked
    <2>3. QED
      BY <2>1, <2>2 DEF PassInvariant
  <1>3. ASSUME NEW g \in group, ReconcileService(g) PROVE PassInvariant'
    <2>1. CASE service[ServiceName(g)] = {RoleGroupService(g)} /\ Advance("configmap")
      <3>1. UNCHANGED objects
        BY <1>0, <1>3, <2>1, ServicesTyped, SMTT(60)
           DEF ReconcileService, objects, groupObjects, TypeOK, ObjectsTypeOK
      <3>2. ASSUME NEW c \in target, cluster # {} PROVE Checked(c)'
        <4>1. pc = "service" /\ ServiceApplied(g) /\ Checked(c) /\ group = {g}
          BY <1>0, <1>00, <1>3, <2>1, <3>2, SMTT(60) DEF ReconcileService, ServiceApplied
        <4>2. QED
          BY <2>1, <3>1, <4>1, CheckedInGroup, SMTT(60)
      <3>3. cluster' = cluster
        BY <1>3 DEF ReconcileService
      <3>4. QED
        BY <2>1, <3>2, <3>3, AdvanceKeeps, SMTT(60)
    <2>2. QED
      BY <1>3, <2>1 DEF ReconcileService, CreateOrUpdate
  <1>4. ASSUME NEW g \in group, ReconcileMetricsService(g) PROVE PassInvariant'
    <2>1. CASE /\ service[CreateServiceMetricsName(g)] = {RoleGroupMetricsService(g)}
               /\ Advance("rolegroup")
      <3>1. UNCHANGED objects
        BY <1>0, <1>4, <2>1, ServicesTyped, SMTT(60)
           DEF ReconcileMetricsService, objects, groupObjects, TypeOK, ObjectsTypeOK
      <3>2. ASSUME NEW c \in target, cluster # {} PROVE Checked(c)'
        <4>1. pc = "metrics" /\ MetricsApplied(g) /\ Checked(c) /\ group = {g}
          BY <1>0, <1>00, <1>4, <2>1, <3>2, SMTT(60) DEF ReconcileMetricsService, MetricsApplied
        <4>2. /\ ServiceApplied(g) /\ ConfigMapApplied(c, g) /\ StatefulSetApplied(c, g)
              /\ ListenerApplied(c, g)
          BY <4>1 DEF Checked
        <4>3. QED
          BY <2>1, <3>1, <4>1, <4>2, CheckedInGroup, SMTT(60)
      <3>3. cluster' = cluster
        BY <1>4 DEF ReconcileMetricsService
      <3>4. QED
        BY <2>1, <3>2, <3>3, AdvanceKeeps, SMTT(60)
    <2>2. QED
      BY <1>4, <2>1 DEF ReconcileMetricsService, CreateOrUpdate
  <1>5. ASSUME NEW c \in target, NEW g \in group, ReconcileConfigMap(c, g)
        PROVE  PassInvariant'
    <2>1. ASSUME NEW built \in ConfigMapOf(c), configMap[g] = {built},
                 configMap' = [configMap EXCEPT ![g] = {built}], Advance("statefulset")
          PROVE  PassInvariant'
      <3>1. UNCHANGED objects
        BY <1>0, <1>5, <2>1, SMTT(60)
           DEF ReconcileConfigMap, objects, groupObjects, TypeOK, ObjectsTypeOK
      <3>2. pc = "configmap" /\ group = {g} /\ ConfigMapApplied(c, g)
        BY <1>0, <1>5, <2>1, SMTT(60) DEF ReconcileConfigMap, ConfigMapApplied
      <3>3. ASSUME cluster # {} PROVE Checked(c)'
        <4>1. Checked(c) /\ ServiceApplied(g)
          BY <1>00, <3>2, <3>3, SMTT(60) DEF Checked
        <4>2. QED
          BY <2>1, <3>1, <3>2, <4>1, CheckedInGroup, SMTT(60)
      <3>4. cluster' = cluster
        BY <1>5, SMTT(60) DEF ReconcileConfigMap
      <3>5. QED
        BY <1>0, <2>1, <3>3, <3>4, AdvanceKeeps, SMTT(60)
    <2>2. QED
      BY <1>5, <2>1 DEF ReconcileConfigMap, CreateOrUpdate
  <1>6. ASSUME NEW c \in target, NEW g \in group, ReconcileStatefulSet(c, g)
        PROVE  PassInvariant'
    <2>1. ASSUME NEW t \in TemplateOf(c), NEW o,
                 NEW built, built = [template |-> t, protocolOrder |-> o],
                 statefulSet[g] = {built}, statefulSet' = [statefulSet EXCEPT ![g] = {built}],
                 Advance("listener")
          PROVE  PassInvariant'
      <3>1. UNCHANGED objects
        BY <1>0, <1>6, <2>1, ZenonT(60)
           DEF ReconcileStatefulSet, objects, groupObjects, TypeOK, ObjectsTypeOK
      <3>2. pc = "statefulset" /\ group = {g} /\ StatefulSetApplied(c, g)
        <4>1. pc = "statefulset" /\ group = {g}
          BY <1>0, <1>6, Zenon DEF ReconcileStatefulSet
        <4>2. built.template = t
          BY <2>1
        <4>3. QED
          BY <2>1, <4>1, <4>2, Zenon DEF StatefulSetApplied
      <3>3. ASSUME cluster # {} PROVE Checked(c)'
        <4>1. Checked(c) /\ ServiceApplied(g) /\ ConfigMapApplied(c, g)
          BY <1>00, <3>2, <3>3, SMTT(60) DEF Checked
        <4>2. QED
          BY <2>1, <3>1, <3>2, <4>1, CheckedInGroup, SMTT(60)
      <3>4. cluster' = cluster
        BY <1>6, SMTT(60) DEF ReconcileStatefulSet
      <3>5. QED
        BY <1>0, <2>1, <3>3, <3>4, AdvanceKeeps, SMTT(60)
    <2>2. QED
      BY <1>6, <2>1, ZenonT(60) DEF ReconcileStatefulSet, CreateOrUpdate
  <1>7. ASSUME NEW c \in target, NEW g \in group, ReconcileListener(c, g)
        PROVE  PassInvariant'
    <2>1. CASE listener[g] = {ListenerOf(c)} /\ Advance("metrics")
      <3>1. UNCHANGED objects
        BY <1>0, <1>7, <2>1, SMTT(60)
           DEF ReconcileListener, objects, groupObjects, TypeOK, ObjectsTypeOK
      <3>2. ASSUME cluster # {} PROVE Checked(c)'
        <4>1. pc = "listener" /\ ListenerApplied(c, g) /\ Checked(c) /\ group = {g}
          BY <1>0, <1>00, <1>7, <2>1, <3>2, SMTT(60) DEF ReconcileListener, ListenerApplied
        <4>2. ServiceApplied(g) /\ ConfigMapApplied(c, g) /\ StatefulSetApplied(c, g)
          BY <4>1 DEF Checked
        <4>3. QED
          BY <2>1, <3>1, <4>1, <4>2, CheckedInGroup, SMTT(60)
      <3>3. cluster' = cluster
        BY <1>7, SMTT(60) DEF ReconcileListener
      <3>4. QED
        BY <1>0, <2>1, <3>2, <3>3, AdvanceKeeps, SMTT(60)
    <2>2. QED
      BY <1>7, <2>1, SMTT(60) DEF ReconcileListener, CreateOrUpdate
  <1>8. ASSUME NEW c \in target, NEW d \in Discovery, ReconcileDiscovery(c, d)
        PROVE  PassInvariant'
    <2>1. ASSUME NEW built, discovery[d] = {built}, discovery' = [discovery EXCEPT ![d] = {built}],
                 Advance(AfterDiscovery(d))
          PROVE  PassInvariant'
      <3>1. UNCHANGED objects
        BY <1>8, <2>1 DEF ReconcileDiscovery, objects, TypeOK, ObjectsTypeOK
      <3>2. discovery'[d] # {}
        BY <2>1, <3>1, SMTT(60) DEF objects
      <3>3. ASSUME cluster # {} PROVE Checked(c)'
        <4>1. pc = d /\ d \in {"discovery", "nodeport"} /\ Checked(c)
          BY <1>00, <1>8, <3>3, SMTT(60) DEF ReconcileDiscovery, Discovery
        <4>2. /\ left = {} /\ group = {} /\ serviceAccount
              /\ \A g \in c.roleGroups : GroupApplied(c, g)
              /\ d = "nodeport" => discovery["discovery"] # {}
          BY <4>1, SMTT(60) DEF Checked
        <4>3. \A g \in c.roleGroups : GroupApplied(c, g)'
          BY <3>1, <4>2, AppliedStays, SMTT(60)
        <4>4. /\ left' = {} /\ group' = {} /\ serviceAccount' /\ discovery' = discovery
              /\ pc' = AfterDiscovery(d)
          BY <2>1, <3>1, <4>2, SMTT(60) DEF Advance, passVars, objects
        <4>5. /\ pc' \in {"nodeport", "ready"} /\ discovery'["discovery"] # {}
              /\ pc' = "ready" => discovery'["nodeport"] # {}
          BY <3>2, <4>1, <4>2, <4>4, SMTT(60) DEF AfterDiscovery
        <4>6. QED
          BY <4>3, <4>4, <4>5, SMTT(60) DEF Checked
      <3>4. cluster' = cluster /\ AfterDiscovery(d) # "idle"
        BY <1>8, SMTT(60) DEF ReconcileDiscovery, AfterDiscovery
      <3>5. QED
        BY <1>0, <2>1, <3>3, <3>4, AdvanceKeeps, SMTT(60)
    <2>2. QED
      BY <1>8, <2>1, SMTT(60) DEF ReconcileDiscovery, CreateOrUpdate
  <1>9. ASSUME NEW c \in target, Ready(c) PROVE PassInvariant'
    <2>1. CASE EndPass /\ UNCHANGED queueVars
      <3>1. UNCHANGED objects /\ cluster' = cluster /\ pc = "ready"
        BY <1>9, SMTT(60) DEF Ready
      <3>2. cluster # {} => Applied(c)
        BY <1>00, <3>1, SMTT(60) DEF Checked, Applied, Discovery
      <3>3. ~queued => cached = {c}
        BY <1>0 DEF PassInvariant
      <3>4. QED
        BY <2>1, <3>1, <3>2, <3>3, AppliedStays, SMTT(60) DEF EndPass, queueVars, PassInvariant
    <2>2. QED
      BY <1>9, <2>1, SMTT(60) DEF Ready
  <1>10. QED
    BY <1>1, <1>2, <1>3, <1>4, <1>5, <1>6, <1>7, <1>8, <1>9, SMTT(60) DEF PassStep

\* Nothing exists at first and the informer knows no KafkaCluster.
LEMMA InvariantInit == Init => PassInvariant
  BY DEF Init, PassInvariant

\* The queue, crashes, the user and the controllers around the operator keep the
\* invariant of a pass.
LEMMA InvariantNext ==
  ASSUME TypeOK, PassInvariant, [Next]_vars PROVE PassInvariant'
  <1>1. CASE PassStep
    BY <1>1, InvariantPassStep, SMTT(60)
  <1>2. CASE ReconcileDeleted \/ WatchEvent \/ Resync
    <2>1. UNCHANGED <<objects, pc, passVars>> /\ cluster' = cluster /\ target' = target
      BY <1>2 DEF ReconcileDeleted, WatchEvent, Resync, passVars
    <2>2. cluster # {} => \A c \in target : Checked(c)'
      BY <2>1, CheckedStays, SMTT(60) DEF PassInvariant
    <2>3. ~queued' => cached' = {} /\ target = {}
      BY <1>2, SMTT(60) DEF ReconcileDeleted, WatchEvent, Resync, TypeOK, PassTypeOK
    <2>4. QED
      BY <2>1, <2>2, <2>3, SMTT(60) DEF PassInvariant
  <1>3. ASSUME NEW order \in BOOLEAN, StartPass(order) PROVE PassInvariant'
    <2>1. ASSUME NEW c \in cached PROVE Checked(c)'
      <3>1. cached = {c}
        BY Pointee, SMTT(60) DEF TypeOK, PassTypeOK
      <3>2. left' = c.roleGroups
        BY <1>3, <3>1 DEF StartPass
      <3>3. QED
        BY <1>3, <3>2 DEF StartPass, Checked
    <2>2. QED
      BY <1>3, <2>1, SMTT(60) DEF StartPass, PassInvariant
  <1>4. CASE ApiError
    BY <1>4, RequeueKeeps, SMTT(60) DEF ApiError
  <1>5. CASE Crash \/ Restart
    BY <1>5, ZenonT(60) DEF Crash, Restart, passVars, PassInvariant, TypeOK, PassTypeOK
  <1>6. CASE EditCluster
    <2>1. UNCHANGED <<objects, pc, passVars, queueVars>> /\ cluster # {} /\ target' = target
      BY <1>6 DEF EditCluster, passVars
    <2>2. \A c \in target : Checked(c)'
      BY <2>1, CheckedStays DEF PassInvariant
    <2>3. QED
      BY <2>1, <2>2, AppliedStays DEF PassInvariant, queueVars
  <1>7. CASE DeleteCluster
    BY <1>7 DEF DeleteCluster, PassInvariant, queueVars, passVars
  <1>8. CASE CollectCluster \/ \E g \in RoleGroup : CollectGroup(g)
    BY <1>8, Zenon DEF CollectCluster, CollectGroup, PassInvariant, queueVars, passVars
  <1>9. CASE \/ \E g \in RoleGroup : PublishAddresses(g) \/ StopPods(g) \/ StartPods(g)
             \/ UNCHANGED vars
    <2>1. /\ UNCHANGED <<objects, pc, passVars, queueVars>>
          /\ cluster' = cluster /\ target' = target
      BY <1>9 DEF PublishAddresses, StopPods, StartPods, vars, passVars
    <2>2. cluster # {} => \A c \in target : Checked(c)'
      BY <2>1, CheckedStays DEF PassInvariant
    <2>3. QED
      BY <2>1, <2>2, AppliedStays, SMTT(60) DEF PassInvariant, queueVars
  <1>10. QED
    BY <1>1, <1>2, <1>3, <1>4, <1>5, <1>6, <1>7, <1>8, <1>9, ZenonT(60)
       DEF Next, Operator, Worker, Environment, GroupControllers

\* The invariant of a pass holds in every reachable state.
THEOREM PassInvariantHolds == Spec => []PassInvariant
  <1>1. Init => PassInvariant
    BY InvariantInit
  <1>2. TypeOK /\ PassInvariant /\ [Next]_vars => PassInvariant'
    BY InvariantNext
  <1>3. QED
    BY <1>1, <1>2, TypeCorrect, PTL DEF Spec

\* No edit, failed pass or crash is ever forgotten: an operator at rest has applied
\* the current KafkaCluster, for any role groups and specs.
THEOREM NothingForgotten == Spec => []RestMeansApplied
  <1>1. PassInvariant => RestMeansApplied
    BY SMTT(60) DEF PassInvariant, RestMeansApplied, Resting
  <1>2. QED
    BY <1>1, PassInvariantHolds, PTL
=============================================================================
