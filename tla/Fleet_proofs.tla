---------------------------- MODULE Fleet_proofs ----------------------------
(***************************************************************************)
(* With leader election a manager at rest can rely on its objects: the     *)
(* invariant behind SettledIsApplied.  Only the leader writes, every write *)
(* ends its pass with a requeue, and what is collected belonged to a       *)
(* KafkaCluster that is gone.                                              *)
(***************************************************************************)
EXTENDS FleetTypes_proofs

(***************************************************************************)
(* Only the leader is active.                                              *)
(***************************************************************************)

\* The operator's flags do not change.
LEMMA FlagsStay == [Next]_vars => scenario' = scenario
  <1>1. ASSUME NEW p, Run(p) PROVE scenario' = scenario
    BY <1>1, Zenon DEF Run, Launch, Start, RunController, Elect, PassStep, ReconcileRoleGroup,
                       ReconcileDiscovery, Ready
  <1>2. ASSUME NEW p, NEW k, Exit(p) \/ Retire(p) \/ WatchEvent(p) \/ Resync(p) \/ StartPass(p, k)
        PROVE  scenario' = scenario
    BY <1>2, Zenon DEF Exit, Retire, WatchEvent, Resync, StartPass
  <1>3. ASSUME NEW k, DeleteCluster(k) \/ Collect(k) \/ Publish(k) PROVE scenario' = scenario
    BY <1>3, Zenon DEF DeleteCluster, Collect, Publish
  <1>4. CASE Upgrade \/ Expire \/ EditCluster \/ UNCHANGED vars
    BY <1>4, Zenon DEF Upgrade, Expire, EditCluster, vars
  <1>5. QED
    BY <1>1, <1>2, <1>3, <1>4, Zenon DEF Next

\* A pass changes its own process, brokers and discovery, and nothing else.
LEMMA PassIsLocal ==
  ASSUME TypeOK, NEW p \in Process, PassStep(p)
  PROVE  /\ UNCHANGED <<scenario, cached, lease, cluster>>
         /\ \A q \in Process \ {p} :
              pc'[q] = pc[q] /\ queue'[q] = queue[q] /\ pass'[q] = pass[q]
  <1>1. PICK w \in pass[p] : \/ ReconcileRoleGroup(p, w) \/ Ready(p, w)
                            \/ \E d \in Discovery : ReconcileDiscovery(p, w, d)
    BY DEF PassStep
  <1>2. CASE ReconcileRoleGroup(p, w)
    <2>1. UNCHANGED <<scenario, cached, lease, cluster>>
      BY <1>2, Zenon DEF ReconcileRoleGroup, deployVars
    <2>2. \/ UNCHANGED pc
          \/ \E v : pc' = [pc EXCEPT ![p] = v]
      BY <1>2, Zenon DEF ReconcileRoleGroup, Requeue, EndPass, Advance
    <2>3. \/ UNCHANGED queue
          \/ \E v : queue' = [queue EXCEPT ![p] = v]
      BY <1>2, Zenon DEF ReconcileRoleGroup, Requeue, Advance
    <2>4. \/ UNCHANGED pass
          \/ \E v : pass' = [pass EXCEPT ![p] = v]
      BY <1>2, Zenon DEF ReconcileRoleGroup, Requeue, EndPass, Advance
    <2>5. QED
      BY <2>1, <2>2, <2>3, <2>4 DEF TypeOK, ProcessTypeOK
  <1>3. CASE Ready(p, w)
    BY <1>3, SMTT(30) DEF Ready, Requeue, EndPass, deployVars, TypeOK, ProcessTypeOK
  <1>4. ASSUME NEW d \in Discovery, ReconcileDiscovery(p, w, d)
        PROVE  /\ UNCHANGED <<scenario, cached, lease, cluster>>
               /\ \A q \in Process \ {p} :
                    pc'[q] = pc[q] /\ queue'[q] = queue[q] /\ pass'[q] = pass[q]
    BY <1>4, SMTT(30) DEF ReconcileDiscovery, Requeue, EndPass, Advance, deployVars, TypeOK,
                          ProcessTypeOK
  <1>5. QED
    BY <1>1, <1>2, <1>3, <1>4

\* A controller starts when the lease is free, and the lease of an active process
\* does not expire.
LEMMA LeaderAloneKept == TypeOK /\ LeaderAlone /\ [Next]_vars => LeaderAlone'
  <1> SUFFICES ASSUME TypeOK, LeaderAlone, [Next]_vars, scenario.leaderElect
               PROVE  LeaderAlone'
    BY FlagsStay DEF LeaderAlone
  <1>0. \A p \in Process : pc[p] \in Active => lease = {p}
    BY DEF LeaderAlone
  <1>1. ASSUME lease' = lease, \A p \in Process : pc'[p] \in Active => pc[p] \in Active
        PROVE  LeaderAlone'
    BY <1>0, <1>1 DEF LeaderAlone
  <1>2. ASSUME NEW p \in Process, Launch(p) \/ Start(p) PROVE LeaderAlone'
    BY <1>1, <1>2 DEF Launch, Start, deployVars, Active, TypeOK, ProcessTypeOK
  <1>3. ASSUME NEW p \in Process, Elect(p) PROVE LeaderAlone'
    <2>1. \A q \in Process : pc[q] \notin Active
      BY <1>0, <1>3 DEF Elect
    <2>2. QED
      BY <1>3, <2>1 DEF Elect, RunController, LeaderAlone, TypeOK, ProcessTypeOK
  <1>4. ASSUME NEW p \in Process, PassStep(p) PROVE LeaderAlone'
    <2>1. pc[p] \in Active
      BY <1>4, PassUnderWay DEF PassStep, TypeOK
    <2>2. lease' = lease /\ \A q \in Process \ {p} : pc'[q] = pc[q]
      BY <1>4, PassIsLocal
    <2>3. QED
      BY <1>1, <2>1, <2>2
  <1>5. ASSUME NEW p \in Process, Exit(p) \/ Retire(p) PROVE LeaderAlone'
    BY <1>1, <1>5 DEF Exit, Retire, Stop, Active, TypeOK, ProcessTypeOK
  <1>6. ASSUME NEW p \in Process, WatchEvent(p) \/ Resync(p) PROVE LeaderAlone'
    BY <1>1, <1>6 DEF WatchEvent, Resync, deployVars
  <1>7. ASSUME NEW p \in Process, NEW k \in ClusterName, StartPass(p, k) PROVE LeaderAlone'
    BY <1>1, <1>7 DEF StartPass, deployVars, Active, TypeOK, ProcessTypeOK
  <1>8. CASE Expire
    <2>1. PICK p \in lease : pc[p] \notin Active
      BY <1>8 DEF Expire
    <2>2. lease = {p}
      BY PointerOf DEF TypeOK, ProcessTypeOK
    <2>3. \A q \in Process : pc[q] \notin Active
      BY <1>0, <2>1, <2>2
    <2>4. QED
      BY <1>8, <2>3 DEF Expire, processVars, LeaderAlone
  <1>9. CASE Upgrade
    BY <1>1, <1>9 DEF Upgrade, processVars
  <1>10. CASE EditCluster \/ \E k \in ClusterName : DeleteCluster(k) \/ Collect(k)
    BY <1>1, <1>10 DEF EditCluster, DeleteCluster, Collect, processVars, deployVars
  <1>11. CASE (\E b \in ClusterName \X RoleGroup : Publish(b)) \/ UNCHANGED vars
    BY <1>1, <1>11 DEF Publish, vars, processVars, deployVars
  <1>12. QED
    BY <1>2, <1>3, <1>4, <1>5, <1>6, <1>7, <1>8, <1>9, <1>10, <1>11 DEF Next, Run
-----------------------------------------------------------------------------
(***************************************************************************)
(* Discovery ConfigMaps and their owners.                                  *)
(***************************************************************************)

\* A pass writes a ConfigMap that it owns under a name of its own KafkaCluster.
LEMMA DiscoveryWritten ==
  ASSUME TypeOK, NEW p \in Process, NEW w \in pass[p], NEW d \in Discovery,
         ReconcileDiscovery(p, w, d)
  PROVE  \/ discovery' = discovery
         \/ \E o : /\ o.owner = w.key
                  /\ discovery' = [discovery EXCEPT ![ConfigMapName(w.key, d)] = {o}]
  <1>1. BuildDiscovery(w.key, w.spec).owner = w.key
    BY DEF BuildDiscovery
  <1>2. QED
    BY <1>1, Zenon DEF ReconcileDiscovery

\* A write to the ConfigMap of one KafkaCluster takes none away from another, unless
\* they share the name.
LEMMA DiscoveredWhenWritten ==
  ASSUME TypeOK, NEW j \in ClusterName, NEW e \in Discovery, NEW o, o.owner = j,
         discovery' = [discovery EXCEPT ![ConfigMapName(j, e)] = {o}],
         NEW k \in ClusterName, NEW d \in Discovery, Discovered(k, d)
  PROVE  Discovered(k, d)'
  <1>1. ConfigMapName(k, d) \in ConfigMapNames /\ DOMAIN discovery = ConfigMapNames
    BY DEF ConfigMapNames, TypeOK, ObjectTypeOK
  <1>2. QED
    BY <1>1 DEF Discovered

\* The ConfigMap that is written is discovered.
LEMMA DiscoveredNow ==
  ASSUME TypeOK, NEW j \in ClusterName, NEW e \in Discovery, NEW o, o.owner = j,
         discovery' = [discovery EXCEPT ![ConfigMapName(j, e)] = {o}]
  PROVE  Discovered(j, e)'
  <1>1. ConfigMapName(j, e) \in ConfigMapNames /\ DOMAIN discovery = ConfigMapNames
    BY DEF ConfigMapNames, TypeOK, ObjectTypeOK
  <1>2. QED
    BY <1>1 DEF Discovered

\* Collecting what another KafkaCluster owned leaves the ConfigMaps of this one.
LEMMA DiscoveredWhenCollected ==
  ASSUME TypeOK, NEW j, Collect(j), NEW k \in ClusterName \ {j}, NEW d \in Discovery,
         Discovered(k, d)
  PROVE  Discovered(k, d)'
  <1>1. ConfigMapName(k, d) \in ConfigMapNames /\ DOMAIN discovery = ConfigMapNames
    BY DEF ConfigMapNames, TypeOK, ObjectTypeOK
  <1>2. QED
    BY <1>1 DEF Discovered, Collect
-----------------------------------------------------------------------------
(***************************************************************************)
(* What an active controller knows.                                        *)
(***************************************************************************)

\* What is applied stays applied as long as nobody writes the objects of this
\* KafkaCluster.
LEMMA AppliedStays ==
  ASSUME NEW p, NEW k, NEW c, Applied(p, k, c),
         \A g \in c.roleGroups : brokers'[<<k, g>>] = brokers[<<k, g>>],
         \A d \in Discovery : Discovered(k, d) => Discovered(k, d)'
  PROVE  Applied(p, k, c)'
  BY DEF Applied, BuildRoleGroup, GetImage

\* The same of what a pass has checked.
LEMMA CheckedStays ==
  ASSUME NEW p, NEW w, Checked(p, w), pc'[p] = pc[p],
         \A g \in w.spec.roleGroups : brokers'[<<w.key, g>>] = brokers[<<w.key, g>>],
         \A d \in Discovery : Discovered(w.key, d) => Discovered(w.key, d)'
  PROVE  Checked(p, w)'
  BY DEF Checked, Discovery, BuildRoleGroup, GetImage

\* The same of what a controller knows, while its pass makes no step.
LEMMA KnownStays ==
  ASSUME NEW p, NEW k, NEW c, Known(p, k, c), pc'[p] = pc[p], pass'[p] = pass[p],
         \A g \in c.roleGroups : brokers'[<<k, g>>] = brokers[<<k, g>>],
         \A d \in Discovery : Discovered(k, d) => Discovered(k, d)'
  PROVE  Known(p, k, c)'
  <1>1. CASE \E w \in pass[p] : w.key = k
    <2>1. PICK w \in pass[p] : w.key = k /\ w.spec = c /\ Checked(p, w)
      BY <1>1 DEF Known
    <2>2. Checked(p, w)'
      BY <2>1, CheckedStays
    <2>3. QED
      BY <2>1, <2>2 DEF Known
  <1>2. CASE ~\E w \in pass[p] : w.key = k
    BY <1>2, AppliedStays DEF Known
  <1>3. QED
    BY <1>1, <1>2

\* A step that leaves alone what is active, queued and cached, the passes and the
\* objects of every KafkaCluster that exists, or adds to the queues.
LEMMA QuietStep ==
  ASSUME TypeOK, AllKnown, scenario' = scenario,
         \A p \in Process : pc'[p] \in Active =>
           /\ pc'[p] = pc[p] /\ pass'[p] = pass[p] /\ queue[p] \subseteq queue'[p]
           /\ \A k \in ClusterName : k \in queue'[p] \/ cached'[p][k] = cached[p][k],
         \A k \in ClusterName : cluster'[k] # {} =>
           /\ cluster[k] # {}
           /\ \A g \in RoleGroup : brokers'[<<k, g>>] = brokers[<<k, g>>]
           /\ \A d \in Discovery : Discovered(k, d) => Discovered(k, d)'
  PROVE  AllKnown'
  <1> SUFFICES ASSUME scenario.leaderElect, NEW p \in Process, NEW k \in ClusterName,
                      pc'[p] \in Active, k \notin queue'[p], cluster'[k] # {},
                      NEW c \in cached'[p][k]
               PROVE  Known(p, k, c)'
    BY DEF AllKnown
  <1>1. c \in cached[p][k] /\ pc[p] \in Active /\ k \notin queue[p] /\ cluster[k] # {}
    OBVIOUS
  <1>2. Known(p, k, c)
    BY <1>1 DEF AllKnown
  <1>3. c.roleGroups \subseteq RoleGroup
    BY <1>1, FleetAssumption, PointerOf DEF TypeOK, ProcessTypeOK
  <1>4. QED
    BY <1>2, <1>3, KnownStays

\* A step of pass w leaves the objects of the other KafkaClusters alone, takes no
\* discovery ConfigMap away and no key out of the work queue.
LEMMA PassEffects ==
  ASSUME TypeOK, NEW p \in Process, NEW w \in pass[p],
         \/ ReconcileRoleGroup(p, w) \/ Ready(p, w)
         \/ \E d \in Discovery : ReconcileDiscovery(p, w, d)
  PROVE  /\ \A k \in ClusterName \ {w.key}, g \in RoleGroup :
              brokers'[<<k, g>>] = brokers[<<k, g>>]
         /\ \A k \in ClusterName, d \in Discovery : Discovered(k, d) => Discovered(k, d)'
         /\ queue[p] \subseteq queue'[p]
         /\ \A v \in pass'[p] : v.key = w.key
  <1>1. w \in Passes /\ pass[p] = {w} /\ w.key \in ClusterName
    BY PassUnderWay DEF TypeOK, Passes
  <1>2. /\ queue' = queue \/ queue' = [queue EXCEPT ![p] = @ \cup {w.key}]
        /\ \/ pass' = pass \/ pass' = [pass EXCEPT ![p] = {}]
           \/ \E g \in w.left : pass' = [pass EXCEPT ![p] = {[w EXCEPT !.left = @ \ {g}]}]
    BY Zenon DEF ReconcileRoleGroup, Ready, ReconcileDiscovery, Requeue, EndPass, Advance
  <1>3. queue[p] \subseteq queue'[p]
    BY <1>2 DEF TypeOK, ProcessTypeOK
  <1>4. \A v \in pass'[p] : v.key = w.key
    <2>1. \A g : [w EXCEPT !.left = @ \ {g}].key = w.key
      BY <1>1 DEF Passes
    <2>2. \/ pass' = pass \/ pass' = [pass EXCEPT ![p] = {}]
          \/ \E v : v.key = w.key /\ pass' = [pass EXCEPT ![p] = {v}]
      BY <1>2, <2>1, Zenon
    <2>3. QED
      BY <1>1, <2>2 DEF TypeOK, ProcessTypeOK
  <1>5. \/ brokers' = brokers
        \/ \E g, v : brokers' = [brokers EXCEPT ![<<w.key, g>>] = v]
    BY Zenon DEF ReconcileRoleGroup, Ready, ReconcileDiscovery, objectVars
  <1>6. \A k \in ClusterName \ {w.key}, g \in RoleGroup : brokers'[<<k, g>>] = brokers[<<k, g>>]
    BY <1>5 DEF TypeOK, ObjectTypeOK
  <1>7. ASSUME NEW k \in ClusterName, NEW d \in Discovery, Discovered(k, d)
        PROVE  Discovered(k, d)'
    <2>1. CASE discovery' = discovery
      BY <1>7, <2>1 DEF Discovered
    <2>2. CASE ReconcileRoleGroup(p, w) \/ Ready(p, w)
      BY <2>1, <2>2, Zenon DEF ReconcileRoleGroup, Ready, objectVars
    <2>3. ASSUME NEW e \in Discovery, ReconcileDiscovery(p, w, e) PROVE Discovered(k, d)'
      BY <1>1, <1>7, <2>1, <2>3, DiscoveryWritten, DiscoveredWhenWritten
    <2>4. QED
      BY <2>2, <2>3
  <1>8. QED
    BY <1>3, <1>4, <1>6, <1>7

\* The leader's pass: the key of a write is queued again, and what is found as it
\* should be is added to what the pass has checked.
LEMMA PassStepKnown ==
  ASSUME TypeOK, LeaderAlone, AllKnown, NEW p \in Process, PassStep(p)
  PROVE  AllKnown'
  <1>1. PICK w \in pass[p] : \/ ReconcileRoleGroup(p, w) \/ Ready(p, w)
                            \/ \E d \in Discovery : ReconcileDiscovery(p, w, d)
    BY DEF PassStep
  <1>2. /\ w \in Passes /\ pass[p] = {w} /\ pc[p] \in Active \ {"idle"}
        /\ w.key \in ClusterName /\ w.spec \in KafkaClusters
    BY PassUnderWay DEF TypeOK, Passes
  <1>3. /\ scenario' = scenario /\ cached' = cached /\ cluster' = cluster
        /\ \A q \in Process \ {p} : pc'[q] = pc[q]
    BY PassIsLocal
  <1>4. /\ \A k \in ClusterName \ {w.key}, g \in RoleGroup :
             brokers'[<<k, g>>] = brokers[<<k, g>>]
        /\ \A k \in ClusterName, d \in Discovery : Discovered(k, d) => Discovered(k, d)'
        /\ queue[p] \subseteq queue'[p]
        /\ \A v \in pass'[p] : v.key = w.key
    BY <1>1, PassEffects
  <1> SUFFICES ASSUME scenario.leaderElect, NEW q \in Process, NEW k \in ClusterName,
                      pc'[q] \in Active, k \notin queue'[q], cluster[k] # {},
                      NEW c \in cached[q][k]
               PROVE  Known(q, k, c)'
    BY <1>3 DEF AllKnown
  <1>5. q = p
    BY <1>2, <1>3 DEF LeaderAlone
  <1>6. Known(p, k, c) /\ c \in KafkaClusters /\ c.roleGroups \subseteq RoleGroup
    BY <1>2, <1>4, <1>5, FleetAssumption, PointerOf, SMTT(30) DEF AllKnown, TypeOK, ProcessTypeOK
  <1>7. CASE k # w.key
    <2>1. Applied(p, k, c)
      BY <1>2, <1>6, <1>7 DEF Known
    <2>2. Applied(p, k, c)'
      BY <1>4, <1>6, <1>7, <2>1, AppliedStays
    <2>3. QED
      BY <1>4, <1>5, <1>7, <2>2 DEF Known
  <1>8. CASE k = w.key
    <2>1. w.spec = c /\ Checked(p, w)
      BY <1>2, <1>6, <1>8 DEF Known
    <2>2. ~Requeue(p, w.key)
      BY <1>5, <1>8 DEF Requeue, TypeOK, ProcessTypeOK
    <2>3. CASE ReconcileRoleGroup(p, w)
      <3>1. CASE w.left = {} /\ Advance(p, "discovery") /\ UNCHANGED brokers
        <4>1. pass'[p] = {w} /\ pc'[p] = "discovery"
          BY <1>2, <3>1, SMTT(30) DEF Advance, TypeOK, ProcessTypeOK
        <4>2. Checked(p, w)'
          BY <2>1, <3>1, <4>1, SMTT(30) DEF Checked, BuildRoleGroup, GetImage
        <4>3. QED
          BY <1>5, <1>8, <2>1, <4>1, <4>2 DEF Known
      <3>2. ASSUME NEW g \in w.left, brokers[<<w.key, g>>] = {BuildRoleGroup(p, w.spec)},
                   brokers' = [brokers EXCEPT ![<<w.key, g>>] = {BuildRoleGroup(p, w.spec)}],
                   pass' = [pass EXCEPT ![p] = {[w EXCEPT !.left = @ \ {g}]}],
                   UNCHANGED pc
            PROVE  Known(q, k, c)'
        <4> DEFINE v == [w EXCEPT !.left = @ \ {g}]
        <4>1. v.key = w.key /\ v.spec = w.spec /\ v.left = w.left \ {g}
          BY <1>2 DEF Passes
        <4>2. pass'[p] = {v}
          BY <3>2 DEF TypeOK, ProcessTypeOK
        <4> HIDE DEF v
        <4>3. brokers' = brokers
          BY <3>2 DEF TypeOK, ObjectTypeOK
        <4>4. pc[p] = "rolegroup"
          BY <2>3 DEF ReconcileRoleGroup
        <4>5. Checked(p, v)'
          BY <2>1, <3>2, <4>1, <4>3, <4>4 DEF Checked, BuildRoleGroup, GetImage
        <4>6. QED
          BY <1>5, <1>8, <2>1, <4>1, <4>2, <4>5 DEF Known
      <3>3. QED
        BY <2>2, <2>3, <3>1, <3>2, Zenon DEF ReconcileRoleGroup
    <2>4. CASE Ready(p, w)
      <3>1. pc[p] = "ready" /\ EndPass(p) /\ UNCHANGED <<brokers, discovery>>
        BY <2>2, <2>4 DEF Ready, objectVars
      <3>2. pass'[p] = {}
        BY <3>1 DEF EndPass, TypeOK, ProcessTypeOK
      <3>3. Applied(p, k, c)
        BY <1>8, <2>1, <3>1 DEF Checked, Applied, Discovery
      <3>4. Applied(p, k, c)'
        BY <1>4, <3>1, <3>3, AppliedStays
      <3>5. QED
        BY <1>5, <3>2, <3>4 DEF Known
    <2>5. ASSUME NEW d \in Discovery, ReconcileDiscovery(p, w, d) PROVE Known(q, k, c)'
      <3> DEFINE next == IF d = "discovery" THEN "nodeport" ELSE "ready"
                 built == BuildDiscovery(w.key, w.spec)
      <3>1. /\ pc[p] = d /\ Advance(p, next) /\ UNCHANGED brokers
            /\ discovery' = [discovery EXCEPT ![ConfigMapName(w.key, d)] = {built}]
        BY <2>2, <2>5, Zenon DEF ReconcileDiscovery
      <3>2. built.owner = w.key
        BY DEF BuildDiscovery
      <3>3. pass'[p] = {w} /\ pc'[p] = next
        BY <1>2, <3>1 DEF Advance, TypeOK, ProcessTypeOK
      <3> HIDE DEF built
      <3>4. Discovered(w.key, d)'
        BY <1>2, <3>1, <3>2, DiscoveredNow
      <3>5. Checked(p, w)'
        BY <1>2, <1>4, <2>1, <3>1, <3>3, <3>4
           DEF Checked, Discovery, BuildRoleGroup, GetImage
      <3>6. QED
        BY <1>5, <1>8, <2>1, <3>3, <3>5 DEF Known
    <2>6. QED
      BY <1>1, <2>3, <2>4, <2>5
  <1>9. QED
    BY <1>7, <1>8

\* Every action: a controller that starts queues all it lists, a pass that starts has
\* checked nothing, the other steps are quiet.
LEMMA AllKnownKept == TypeOK /\ LeaderAlone /\ AllKnown /\ [Next]_vars => AllKnown'
  <1> SUFFICES ASSUME TypeOK, LeaderAlone, AllKnown, [Next]_vars PROVE AllKnown'
    OBVIOUS
  <1>0. scenario' = scenario
    BY FlagsStay
  <1>1. ASSUME UNCHANGED <<brokers, discovery>>
        PROVE  /\ \A k, g : brokers'[<<k, g>>] = brokers[<<k, g>>]
               /\ \A k, d : Discovered(k, d) => Discovered(k, d)'
    BY <1>1 DEF Discovered
  <1>2. ASSUME NEW p \in Process, Launch(p) \/ Start(p) \/ Elect(p) PROVE AllKnown'
    <2>1. UNCHANGED <<brokers, discovery, cluster, pass>>
      BY <1>2, Zenon DEF Launch, Start, Elect, RunController, objectVars
    <2>2. /\ \A q \in Process \ {p} :
               pc'[q] = pc[q] /\ queue'[q] = queue[q] /\ cached'[q] = cached[q]
          /\ \/ pc'[p] \notin Active
             \/ cached'[p] = cluster /\ queue'[p] = {k \in ClusterName : cluster[k] # {}}
      BY <1>2 DEF Launch, Start, Elect, RunController, Active, TypeOK, ProcessTypeOK
    <2> SUFFICES ASSUME scenario.leaderElect, NEW q \in Process, NEW k \in ClusterName,
                        pc'[q] \in Active, k \notin queue'[q], cluster[k] # {},
                        NEW c \in cached'[q][k]
                 PROVE  Known(q, k, c)'
      BY <1>0, <2>1 DEF AllKnown
    <2>3. q # p
      BY <2>2
    <2>4. Known(q, k, c)
      BY <2>2, <2>3 DEF AllKnown
    <2>5. QED
      BY <1>1, <2>1, <2>2, <2>3, <2>4, KnownStays
  <1>3. ASSUME NEW p \in Process, PassStep(p) PROVE AllKnown'
    BY <1>3, PassStepKnown
  <1>4. ASSUME NEW p \in Process, Exit(p) \/ Retire(p) PROVE AllKnown'
    <2>1. UNCHANGED <<brokers, discovery, cluster>> /\ Stop(p)
      BY <1>4, Zenon DEF Exit, Retire, objectVars
    <2>2. \A q \in Process : pc'[q] \in Active =>
            /\ pc'[q] = pc[q] /\ pass'[q] = pass[q] /\ queue'[q] = queue[q]
            /\ cached'[q] = cached[q]
      BY <2>1 DEF Stop, Active, TypeOK, ProcessTypeOK
    <2>3. QED
      BY <1>0, <1>1, <2>1, <2>2, QuietStep
  <1>5. ASSUME NEW p \in Process, WatchEvent(p) \/ Resync(p) PROVE AllKnown'
    <2>1. UNCHANGED <<brokers, discovery, cluster, pc, pass>>
      BY <1>5, Zenon DEF WatchEvent, Resync, objectVars
    <2>2. \A q \in Process : /\ queue[q] \subseteq queue'[q]
                             /\ \A k \in ClusterName : k \in queue'[q] \/ cached'[q][k] = cached[q][k]
      BY <1>5 DEF WatchEvent, Resync, TypeOK, ProcessTypeOK
    <2>3. QED
      BY <1>0, <1>1, <2>1, <2>2, QuietStep
  <1>6. ASSUME NEW p \in Process, NEW j \in ClusterName, StartPass(p, j) PROVE AllKnown'
    <2>1. UNCHANGED <<brokers, discovery, cluster, cached>> /\ pc[p] = "idle"
      BY <1>6, Zenon DEF StartPass, objectVars
    <2>2. /\ \A q \in Process \ {p} :
               pc'[q] = pc[q] /\ queue'[q] = queue[q] /\ pass'[q] = pass[q]
          /\ queue'[p] = queue[p] \ {j}
          /\ pass'[p] = {[key |-> j, spec |-> c, left |-> c.roleGroups] : c \in cached[p][j]}
      BY <1>6 DEF StartPass, TypeOK, ProcessTypeOK
    <2> SUFFICES ASSUME scenario.leaderElect, NEW q \in Process, NEW k \in ClusterName,
                        pc'[q] \in Active, k \notin queue'[q], cluster[k] # {},
                        NEW c \in cached[q][k]
                 PROVE  Known(q, k, c)'
      BY <1>0, <2>1 DEF AllKnown
    <2>3. CASE q # p
      <3>1. Known(q, k, c)
        BY <2>2, <2>3 DEF AllKnown
      <3>2. QED
        BY <1>1, <2>1, <2>2, <2>3, <3>1, KnownStays
    <2>4. CASE q = p /\ k # j
      <3>1. Known(p, k, c) /\ pass[p] = {}
        BY <2>1, <2>2, <2>4 DEF AllKnown, Active, TypeOK, ProcessTypeOK
      <3>2. Applied(p, k, c)'
        BY <1>1, <2>1, <3>1, AppliedStays DEF Known
      <3>3. ~\E w \in pass'[p] : w.key = k
        BY <2>2, <2>4
      <3>4. QED
        BY <2>4, <3>2, <3>3 DEF Known
    <2>5. CASE q = p /\ k = j
      <3> DEFINE w == [key |-> k, spec |-> c, left |-> c.roleGroups]
      <3>1. w \in pass'[p]
        BY <2>2, <2>5, SMTT(30)
      <3>2. pc'[p] = "rolegroup"
        BY <1>6, <2>5 DEF StartPass, TypeOK, ProcessTypeOK
      <3>3. Checked(p, w)'
        BY <3>2 DEF Checked
      <3>4. w.key = k /\ w.spec = c
        OBVIOUS
      <3> HIDE DEF w
      <3>5. QED
        BY <2>5, <3>1, <3>3, <3>4 DEF Known
    <2>6. QED
      BY <2>3, <2>4, <2>5
  <1>7. CASE Upgrade \/ Expire \/ UNCHANGED vars \/ \E b \in ClusterName \X RoleGroup : Publish(b)
    <2>1. UNCHANGED <<brokers, discovery, cluster, pc, pass, queue, cached>>
      BY <1>7, Zenon DEF Upgrade, Expire, Publish, vars, processVars, objectVars
    <2>2. QED
      BY <1>0, <1>1, <2>1, QuietStep
  <1>8. CASE EditCluster \/ \E k \in ClusterName : DeleteCluster(k)
    <2>1. UNCHANGED <<brokers, discovery, pc, pass, queue, cached>>
      BY <1>8, Zenon DEF EditCluster, DeleteCluster, processVars, objectVars
    <2>2. \A k \in ClusterName : cluster'[k] # {} => cluster[k] # {}
      BY <1>8 DEF EditCluster, DeleteCluster, TypeOK, ObjectTypeOK
    <2>3. QED
      BY <1>0, <1>1, <2>1, <2>2, QuietStep
  <1>9. ASSUME NEW j \in ClusterName, Collect(j) PROVE AllKnown'
    <2>1. UNCHANGED <<cluster, pc, pass, queue, cached>> /\ cluster[j] = {}
      BY <1>9, Zenon DEF Collect, processVars
    <2>2. \A k \in ClusterName \ {j} :
            /\ \A g \in RoleGroup : brokers'[<<k, g>>] = brokers[<<k, g>>]
            /\ \A d \in Discovery : Discovered(k, d) => Discovered(k, d)'
      BY <1>9, DiscoveredWhenCollected DEF Collect, TypeOK, ObjectTypeOK
    <2>3. QED
      BY <1>0, <2>1, <2>2, QuietStep
  <1>10. QED
    BY <1>2, <1>3, <1>4, <1>5, <1>6, <1>7, <1>8, <1>9, Zenon DEF Next, Run
-----------------------------------------------------------------------------
(***************************************************************************)
(* The theorems.                                                           *)
(***************************************************************************)

\* The invariant holds for every fleet: any number of KafkaClusters, role groups,
\* revisions of the operator, exits, edits and deletions.
THEOREM FleetInvariantHolds == Spec => []FleetInvariant
  <1>1. Init => FleetInvariant
    BY DEF Init, FleetInvariant, LeaderAlone, AllKnown, Active
  <1>2. TypeOK /\ FleetInvariant /\ [Next]_vars => FleetInvariant'
    BY LeaderAloneKept, AllKnownKept DEF FleetInvariant
  <1>3. QED
    BY <1>1, <1>2, FleetTypeCorrect, PTL DEF Spec

\* With --leader-elect, the objects of a manager whose controller is at rest are those
\* it would write (cmd/main.go and the requeue after each write), whoever else wrote
\* before.
THEOREM SettledIsAppliedHolds == Spec => []SettledIsApplied
  <1>1. TypeOK /\ FleetInvariant => SettledIsApplied
    <2> SUFFICES ASSUME TypeOK, FleetInvariant, scenario.leaderElect, NEW p \in Process,
                        pc[p] = "idle", queue[p] = {}, cached[p] = cluster,
                        NEW k \in ClusterName, NEW c \in cluster[k]
                 PROVE  Applied(p, k, c)
      BY DEF SettledIsApplied
    <2>1. Known(p, k, c)
      BY DEF FleetInvariant, AllKnown, Active
    <2>2. pass[p] = {}
      BY DEF TypeOK, ProcessTypeOK
    <2>3. QED
      BY <2>1, <2>2 DEF Known
  <1>2. QED
    BY <1>1, FleetTypeCorrect, FleetInvariantHolds, PTL
=============================================================================
