-------------------------- MODULE FleetTypes_proofs --------------------------
(***************************************************************************)
(* Type correctness of OperatorFleet, for every set of KafkaClusters, role *)
(* groups and revisions of the operator.                                   *)
(***************************************************************************)
EXTENDS OperatorFleet, TLAPS

(***************************************************************************)
(* What the actions share.                                                 *)
(***************************************************************************)

\* A pointer is nil, or the address of one element.
LEMMA PointerOf ==
  ASSUME NEW S
  PROVE  /\ {} \in Pointers(S)
         /\ \A v \in S : {v} \in Pointers(S)
         /\ \A p \in Pointers(S) : \A v \in p : v \in S /\ p = {v}
  BY DEF Pointers

\* The processes are the revisions 1, 2, ... of the operator.
LEMMA Revisions ==
  /\ 1 \in Process /\ Process \subseteq Nat
  /\ \A p, q \in Process, n \in Nat : p <= n /\ n <= q => n \in Process
  /\ \A p \in Process : BuildVersion[p] \in STRING
  BY FleetAssumption DEF Process

\* What a pass builds for a role group is an object of the API server.
LEMMA BuildRoleGroupTyped ==
  ASSUME NEW p \in Process, NEW c \in KafkaClusters
  PROVE  BuildRoleGroup(p, c) \in Objects
  BY FleetAssumption, Revisions DEF BuildRoleGroup, GetImage, Objects, Configs

\* What discovery lists are ports that the status of a Listener shows.
LEMMA BuildDiscoveryTyped ==
  ASSUME ObjectTypeOK, NEW k \in ClusterName, NEW c
  PROVE  BuildDiscovery(k, c) \in DiscoveryObjects
  <1>1. ASSUME NEW s \in MakeBootstrapServers(c) PROVE s \in Servers
    <2>1. PICK b \in DOMAIN ingress :
            \E q \in UNION ingress[b] : s = [host |-> b, port |-> q.port]
      BY <1>1 DEF MakeBootstrapServers
    <2>2. b \in ClusterName \X RoleGroup /\ ingress[b] \subseteq PublishedPorts
      BY <2>1 DEF ObjectTypeOK, Pointers
    <2>3. PICK q \in UNION PublishedPorts : s = [host |-> b, port |-> q.port]
      BY <2>1, <2>2
    <2>4. QED
      BY <2>2, <2>3 DEF Servers
  <1>2. QED
    BY <1>1 DEF BuildDiscovery, DiscoveryObjects

\* A process that stops forgets what it was doing; only its own state changes.
LEMMA StopTyped ==
  ASSUME ProcessTypeOK, NEW p \in Process, Stop(p),
         UNCHANGED <<revision, lease>>, exits' \in Nat,
         replicas' \in {replicas, replicas \ {p}}, revision \in replicas'
  PROVE  ProcessTypeOK'
  <1>1. Unsynced \in [ClusterName -> Pointers(KafkaClusters)]
    BY PointerOf DEF Unsynced
  <1>2. {} \in Pointers(Passes)
    BY PointerOf
  <1>3. QED
    BY <1>1, <1>2, SMTT(30) DEF ProcessTypeOK, Stop, Active

\* The informer's first list fills cache and work queue of a process with a pod.
LEMMA RunControllerTyped ==
  ASSUME ProcessTypeOK, ObjectTypeOK, NEW p \in Process, RunController(p),
         pc[p] \in {"setup", "electing"},
         UNCHANGED <<revision, replicas, exits>>, lease' \in Pointers(Process)
  PROVE  ProcessTypeOK'
  BY SMTT(30) DEF ProcessTypeOK, ObjectTypeOK, RunController, Active

\* A pass that ends, with or without a requeue of its key.
LEMMA EndPassTyped ==
  ASSUME ProcessTypeOK, NEW p \in Process, EndPass(p), pc[p] \in Active,
         UNCHANGED <<revision, replicas, lease, exits, cached>>,
         queue' = queue \/ \E k \in ClusterName : queue' = [queue EXCEPT ![p] = @ \cup {k}]
  PROVE  ProcessTypeOK'
  <1>1. {} \in Pointers(Passes)
    BY PointerOf
  <1>2. QED
    BY <1>1, SMTT(30) DEF ProcessTypeOK, EndPass, Active

\* A pass that goes on to its next resource.
LEMMA AdvanceTyped ==
  ASSUME ProcessTypeOK, NEW p \in Process, NEW next \in Active \ {"idle"}, Advance(p, next),
         pc[p] \in Active \ {"idle"}, UNCHANGED <<revision, replicas, lease, exits, cached>>
  PROVE  ProcessTypeOK'
  BY SMTT(30) DEF ProcessTypeOK, Advance, Active
-----------------------------------------------------------------------------
(***************************************************************************)
(* The initial state, the steps of a pass and the other actions.           *)
(***************************************************************************)

\* Nothing runs and nothing exists but the first pod and the KafkaClusters.
LEMMA InitTyped == Init => TypeOK
  <1> SUFFICES ASSUME Init PROVE TypeOK
    OBVIOUS
  <1>1. /\ Unsynced \in [ClusterName -> Pointers(KafkaClusters)]
        /\ {} \in Pointers(Passes) /\ {} \in Pointers(Process)
        /\ {} \in Pointers(Objects) /\ {} \in Pointers(PublishedPorts)
        /\ {} \in Pointers(DiscoveryObjects)
    BY PointerOf DEF Unsynced
  <1>2. ProcessTypeOK
    BY <1>1, Revisions DEF Init, ProcessTypeOK, Active
  <1>3. ObjectTypeOK
    BY <1>1, FleetAssumption DEF Init, ObjectTypeOK
  <1>4. QED
    BY <1>2, <1>3 DEF TypeOK

\* The pass under way is the only one of its process, and the process is busy.
LEMMA PassUnderWay ==
  ASSUME ProcessTypeOK, NEW p \in Process, NEW w \in pass[p]
  PROVE  /\ w \in Passes /\ pass[p] = {w} /\ w.left \subseteq w.spec.roleGroups
         /\ pc[p] \in Active \ {"idle"}
  BY DEF ProcessTypeOK, Pointers

\* A role group is found as built, or written, or there is none left.
LEMMA ReconcileRoleGroupTyped ==
  ASSUME TypeOK, NEW p \in Process, NEW w \in pass[p], ReconcileRoleGroup(p, w)
  PROVE  TypeOK'
  <1>1. /\ w \in Passes /\ w.left \subseteq w.spec.roleGroups
        /\ pc[p] \in Active \ {"idle"}
    BY PassUnderWay DEF TypeOK
  <1>2. UNCHANGED <<scenario, edits, cluster, ingress, discovery, revision, replicas, lease,
                    exits, cached>>
    BY DEF ReconcileRoleGroup, deployVars
  <1>3. CASE w.left = {} /\ Advance(p, "discovery") /\ UNCHANGED brokers
    BY <1>1, <1>2, <1>3, AdvanceTyped DEF TypeOK, ObjectTypeOK, Active
  <1>4. ASSUME NEW g \in w.left,
               brokers' = [brokers EXCEPT ![<<w.key, g>>] = {BuildRoleGroup(p, w.spec)}],
               \/ /\ pass' = [pass EXCEPT ![p] = {[w EXCEPT !.left = @ \ {g}]}]
                  /\ UNCHANGED <<pc, queue>>
               \/ Requeue(p, w.key)
        PROVE  TypeOK'
    <2>1. w.key \in ClusterName /\ w.spec \in KafkaClusters /\ g \in RoleGroup
      BY <1>1 DEF Passes
    <2>2. {BuildRoleGroup(p, w.spec)} \in Pointers(Objects)
      BY <2>1, BuildRoleGroupTyped, PointerOf
    <2>3. ObjectTypeOK'
      BY <1>2, <1>4, <2>1, <2>2 DEF TypeOK, ObjectTypeOK
    <2>4. CASE Requeue(p, w.key)
      BY <1>1, <1>2, <2>1, <2>3, <2>4, EndPassTyped DEF Requeue, TypeOK
    <2>5. CASE pass' = [pass EXCEPT ![p] = {[w EXCEPT !.left = @ \ {g}]}]
               /\ UNCHANGED <<pc, queue>>
      <3>1. [w EXCEPT !.left = @ \ {g}] \in Passes
        BY <1>1 DEF Passes
      <3>2. {[w EXCEPT !.left = @ \ {g}]} \in Pointers(Passes)
        BY <3>1, PointerOf
      <3>3. [w EXCEPT !.left = @ \ {g}].left \subseteq [w EXCEPT !.left = @ \ {g}].spec.roleGroups
        BY <1>1 DEF Passes
      <3>4. ProcessTypeOK'
        BY <1>1, <1>2, <2>5, <3>2, <3>3 DEF TypeOK, ProcessTypeOK
      <3>5. QED
        BY <2>3, <3>4 DEF TypeOK
    <2>6. QED
      BY <1>4, <2>4, <2>5
  <1>5. QED
    BY <1>3, <1>4 DEF ReconcileRoleGroup

\* A discovery ConfigMap is found as built, or written, or waits for a port.
LEMMA ReconcileDiscoveryTyped ==
  ASSUME TypeOK, NEW p \in Process, NEW w \in pass[p], NEW d \in Discovery,
         ReconcileDiscovery(p, w, d)
  PROVE  TypeOK'
  <1>1. w.key \in ClusterName /\ pc[p] \in Active \ {"idle"}
    BY PassUnderWay DEF TypeOK, Passes
  <1>2. UNCHANGED <<scenario, edits, cluster, ingress, brokers, revision, replicas, lease,
                    exits, cached>>
    BY DEF ReconcileDiscovery, deployVars
  <1>3. ObjectTypeOK'
    <2>0. BuildDiscovery(w.key, w.spec) \in DiscoveryObjects
      BY <1>1, BuildDiscoveryTyped DEF TypeOK
    <2>1. {BuildDiscovery(w.key, w.spec)} \in Pointers(DiscoveryObjects)
      BY <2>0, PointerOf
    <2>2. \/ UNCHANGED discovery
          \/ discovery' = [discovery EXCEPT ![ConfigMapName(w.key, d)] =
                              {BuildDiscovery(w.key, w.spec)}]
      BY DEF ReconcileDiscovery
    <2>3. QED
      BY <1>2, <2>1, <2>2 DEF TypeOK, ObjectTypeOK
  <1>4. CASE Requeue(p, w.key)
    BY <1>1, <1>2, <1>3, <1>4, EndPassTyped DEF Requeue, TypeOK
  <1>5. CASE Advance(p, IF d = "discovery" THEN "nodeport" ELSE "ready")
    <2>1. (IF d = "discovery" THEN "nodeport" ELSE "ready") \in Active \ {"idle"}
      BY DEF Active
    <2>2. QED
      BY <1>1, <1>2, <1>3, <1>5, <2>1, AdvanceTyped DEF TypeOK
  <1>6. QED
    BY <1>4, <1>5 DEF ReconcileDiscovery

\* Every action leaves processes and objects of the types the code gives them.
LEMMA NextTyped == TypeOK /\ [Next]_vars => TypeOK'
  <1> SUFFICES ASSUME TypeOK, [Next]_vars PROVE TypeOK'
    OBVIOUS
  <1> USE DEF TypeOK
  <1>1. ASSUME NEW p \in Process, Launch(p) PROVE TypeOK'
    <2>1. ProcessTypeOK'
      BY <1>1 DEF Launch, deployVars, ProcessTypeOK, Active
    <2>2. ObjectTypeOK'
      BY <1>1 DEF Launch, objectVars, ObjectTypeOK
    <2>3. QED
      BY <2>1, <2>2
  <1>2. ASSUME NEW p \in Process, Start(p) PROVE TypeOK'
    <2>1. ObjectTypeOK'
      BY <1>2 DEF Start, RunController, objectVars, ObjectTypeOK
    <2>2. lease' \in Pointers(Process) /\ UNCHANGED <<revision, replicas, exits>>
      BY <1>2 DEF Start, deployVars, ProcessTypeOK
    <2>3. CASE RunController(p)
      BY <1>2, <2>1, <2>2, <2>3, RunControllerTyped DEF Start
    <2>4. CASE pc' = [pc EXCEPT ![p] = "electing"] /\ UNCHANGED <<cached, queue, pass>>
      BY <1>2, <2>1, <2>2, <2>4 DEF Start, ProcessTypeOK, Active
    <2>5. QED
      BY <1>2, <2>3, <2>4 DEF Start
  <1>3. ASSUME NEW p \in Process, Elect(p) PROVE TypeOK'
    <2>1. ObjectTypeOK'
      BY <1>3 DEF Elect, RunController, objectVars, ObjectTypeOK
    <2>2. lease' \in Pointers(Process)
      BY <1>3, PointerOf DEF Elect
    <2>3. QED
      BY <1>3, <2>1, <2>2, RunControllerTyped DEF Elect
  <1>4. ASSUME NEW p \in Process, PassStep(p) PROVE TypeOK'
    <2>1. ASSUME NEW w \in pass[p], Ready(p, w) PROVE TypeOK'
      <3>1. w.key \in ClusterName /\ pc[p] \in Active
        BY PassUnderWay DEF Passes
      <3>2. ObjectTypeOK'
        BY <2>1 DEF Ready, objectVars, ObjectTypeOK
      <3>3. UNCHANGED <<revision, replicas, lease, exits, cached>>
        BY <2>1 DEF Ready, deployVars
      <3>4. QED
        BY <2>1, <3>1, <3>2, <3>3, EndPassTyped DEF Ready, Requeue
    <2>2. QED
      BY <1>4, <2>1, ReconcileRoleGroupTyped, ReconcileDiscoveryTyped DEF PassStep
  <1>5. ASSUME NEW p \in Process, Exit(p) \/ Retire(p) PROVE TypeOK'
    <2>1. ObjectTypeOK'
      BY <1>5 DEF Exit, Retire, objectVars, ObjectTypeOK
    <2>2. /\ UNCHANGED <<revision, lease>> /\ Stop(p) /\ exits' \in Nat
          /\ replicas' \in {replicas, replicas \ {p}} /\ revision \in replicas'
      BY <1>5, Revisions DEF Exit, Retire, ProcessTypeOK
    <2>3. QED
      BY <2>1, <2>2, StopTyped
  <1>6. ASSUME NEW p \in Process, WatchEvent(p) \/ Resync(p) PROVE TypeOK'
    <2>1. ObjectTypeOK'
      BY <1>6 DEF WatchEvent, Resync, objectVars, ObjectTypeOK
    <2>2. ProcessTypeOK'
      <3>1. UNCHANGED <<revision, replicas, lease, exits, pc, pass>> /\ pc[p] \in Active
        BY <1>6 DEF WatchEvent, Resync, deployVars
      <3>2. CASE WatchEvent(p)
        <4>1. PICK k \in ClusterName :
                /\ cached' = [cached EXCEPT ![p] = [@ EXCEPT ![k] = cluster[k]]]
                /\ queue' = [queue EXCEPT ![p] = @ \cup {k}]
          BY <3>2 DEF WatchEvent, ProcessTypeOK
        <4>2. [cached[p] EXCEPT ![k] = cluster[k]] \in [ClusterName -> Pointers(KafkaClusters)]
          BY DEF ProcessTypeOK, ObjectTypeOK
        <4>3. QED
          BY <3>1, <4>1, <4>2 DEF ProcessTypeOK
      <3>3. CASE Resync(p)
        BY <3>1, <3>3 DEF Resync, ProcessTypeOK
      <3>4. QED
        BY <1>6, <3>2, <3>3
    <2>3. QED
      BY <2>1, <2>2
  <1>7. ASSUME NEW p \in Process, NEW k \in ClusterName, StartPass(p, k) PROVE TypeOK'
    <2>1. ObjectTypeOK'
      BY <1>7 DEF StartPass, objectVars, ObjectTypeOK
    <2>2. ASSUME NEW c \in cached[p][k]
          PROVE  /\ cached[p][k] = {c}
                 /\ [key |-> k, spec |-> c, left |-> c.roleGroups] \in Passes
      BY FleetAssumption, PointerOf DEF ProcessTypeOK, Passes
    <2>3. /\ UNCHANGED <<revision, replicas, lease, exits, cached>> /\ pc[p] = "idle"
          /\ queue' = [queue EXCEPT ![p] = @ \ {k}]
      BY <1>7 DEF StartPass, deployVars
    <2>4. CASE cached[p][k] = {}
      <3>1. pass' = [pass EXCEPT ![p] = {}] /\ pc' = [pc EXCEPT ![p] = "idle"]
        BY <1>7, <2>4 DEF StartPass
      <3>2. {} \in Pointers(Passes)
        BY PointerOf
      <3>3. ProcessTypeOK'
        BY <2>3, <3>1, <3>2 DEF ProcessTypeOK, Active
      <3>4. QED
        BY <2>1, <3>3
    <2>5. ASSUME NEW c \in cached[p][k] PROVE TypeOK'
      <3> DEFINE w == [key |-> k, spec |-> c, left |-> c.roleGroups]
      <3>1. pass' = [pass EXCEPT ![p] = {w}] /\ pc' = [pc EXCEPT ![p] = "rolegroup"]
        BY <1>7, <2>2, <2>5 DEF StartPass
      <3>2. {w} \in Pointers(Passes)
        BY <2>2, <2>5, PointerOf
      <3>3. w.left \subseteq w.spec.roleGroups
        OBVIOUS
      <3> HIDE DEF w
      <3>4. ProcessTypeOK'
        BY <2>3, <3>1, <3>2, <3>3 DEF ProcessTypeOK, Active
      <3>5. QED
        BY <2>1, <3>4
    <2>6. QED
      BY <2>4, <2>5
  <1>8. CASE Upgrade \/ Expire
    <2>1. ObjectTypeOK'
      BY <1>8 DEF Upgrade, Expire, objectVars, ObjectTypeOK
    <2>2. ASSUME Upgrade PROVE revision + 1 \in Process
      <3>1. revision \in Process /\ scenario.maxRevision \in Process
        BY FleetAssumption DEF ProcessTypeOK, ObjectTypeOK
      <3>2. revision \in Nat /\ scenario.maxRevision \in Nat
        BY <3>1, Revisions
      <3>3. revision <= revision + 1 /\ revision + 1 <= scenario.maxRevision
        BY <2>2, <3>2 DEF Upgrade
      <3>4. QED
        BY <3>1, <3>2, <3>3, Revisions
    <2>3. {} \in Pointers(Process)
      BY PointerOf
    <2>4. ProcessTypeOK'
      BY <1>8, <2>2, <2>3 DEF Upgrade, Expire, processVars, ProcessTypeOK
    <2>5. QED
      BY <2>1, <2>4
  <1>9. CASE EditCluster \/ \E k \in ClusterName : DeleteCluster(k)
    <2>1. UNCHANGED <<processVars, deployVars, scenario, objectVars>>
      BY <1>9 DEF EditCluster, DeleteCluster
    <2>2. ProcessTypeOK'
      BY <2>1 DEF processVars, deployVars, ProcessTypeOK
    <2>3. /\ {} \in Pointers(KafkaClusters)
          /\ \A k \in DOMAIN scenario.edits : \A c \in scenario.edits[k] :
               k \in ClusterName /\ {c} \in Pointers(KafkaClusters)
      BY FleetAssumption, PointerOf DEF ObjectTypeOK
    <2>4. cluster' \in [ClusterName -> Pointers(KafkaClusters)] /\ edits' \in Nat
      <3>1. CASE EditCluster
        <4>1. PICK k \in DOMAIN scenario.edits : \E c \in scenario.edits[k] :
                cluster' = [cluster EXCEPT ![k] = {c}]
          BY <3>1 DEF EditCluster
        <4>2. PICK v \in Pointers(KafkaClusters) : cluster' = [cluster EXCEPT ![k] = v]
          BY <2>3, <4>1, Zenon
        <4>3. cluster' \in [ClusterName -> Pointers(KafkaClusters)]
          BY <4>2 DEF ObjectTypeOK
        <4>4. edits' = edits + 1
          BY <3>1 DEF EditCluster
        <4>5. QED
          BY <4>3, <4>4 DEF ObjectTypeOK
      <3>2. ASSUME NEW k \in ClusterName, DeleteCluster(k)
            PROVE  cluster' \in [ClusterName -> Pointers(KafkaClusters)] /\ edits' \in Nat
        BY <2>3, <3>2 DEF DeleteCluster, ObjectTypeOK
      <3>3. QED
        BY <1>9, <3>1, <3>2
    <2>5. ObjectTypeOK'
      BY <2>1, <2>4 DEF objectVars, ObjectTypeOK
    <2>6. QED
      BY <2>2, <2>5
  <1>10. ASSUME NEW k \in ClusterName, Collect(k) PROVE TypeOK'
    <2>1. ProcessTypeOK'
      BY <1>10 DEF Collect, processVars, deployVars, ProcessTypeOK
    <2>2. /\ brokers' \in [ClusterName \X RoleGroup -> Pointers(Objects)]
          /\ ingress' \in [ClusterName \X RoleGroup -> Pointers(PublishedPorts)]
      BY <1>10, PointerOf DEF Collect, ObjectTypeOK
    <2>3. discovery' \in [ConfigMapNames -> Pointers(DiscoveryObjects)]
      BY <1>10 DEF Collect, ObjectTypeOK, Pointers
    <2>4. ObjectTypeOK'
      BY <1>10, <2>2, <2>3 DEF Collect, ObjectTypeOK
    <2>5. QED
      BY <2>1, <2>4
  <1>11. ASSUME NEW b \in ClusterName \X RoleGroup, Publish(b) PROVE TypeOK'
    <2>1. ProcessTypeOK'
      BY <1>11 DEF Publish, processVars, deployVars, ProcessTypeOK
    <2>2. \A o \in brokers[b] : {ListenerPorts[o.config]} \in Pointers(PublishedPorts)
      <3>1. \A o \in brokers[b] : ListenerPorts[o.config] \in PublishedPorts
        BY DEF ObjectTypeOK, Pointers, Objects, PublishedPorts
      <3>2. QED
        BY <3>1, PointerOf
    <2>3. ObjectTypeOK'
      BY <1>11, <2>2 DEF Publish, ObjectTypeOK
    <2>4. QED
      BY <2>1, <2>3
  <1>12. CASE UNCHANGED vars
    BY <1>12 DEF vars, processVars, deployVars, objectVars, ProcessTypeOK, ObjectTypeOK
  <1>13. QED
    BY <1>1, <1>2, <1>3, <1>4, <1>5, <1>6, <1>7, <1>8, <1>9, <1>10, <1>11, <1>12
       DEF Next, Run

\* The types hold in every reachable state, whatever the fleet: a process holds a spec
\* exactly during a pass, a pod exists for every process and for the revision asked for.
THEOREM FleetTypeCorrect == Spec => []TypeOK
  <1>1. QED
    BY InitTyped, NextTyped, PTL DEF Spec
=============================================================================
