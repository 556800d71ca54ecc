---------------------------- MODULE OperatorFleet ----------------------------
(***************************************************************************)
(* Several KafkaClusters and several operator processes over one API       *)
(* server.  The clusters meet in discovery, which lists the bootstrap      *)
(* Listeners of all of them (controller/discovery.go).  The processes are  *)
(* the revisions of the operator's Deployment: each sets up a manager      *)
(* (cmd/main.go), with or without leader election, and during a rolling    *)
(* update the old and the new one are up at once.                          *)
(*                                                                         *)
(* Coarser than ClusterReconcile: the objects of a role group are written  *)
(* in one step, and the order in which servers are listed is left out.     *)
(***************************************************************************)
EXTENDS PodTemplate

CONSTANTS
  BuildVersion,   \* the version compiled into each revision of the operator
  ClusterName,    \* KafkaCluster names, each a sequence of the words its "-" separate
  RoleGroup,      \* role group names
  KafkaClusters,  \* the specs a user may apply: [roleGroups, config, kubedoopVersion]
  Scenarios       \* [leaderElect, clusters, edits, maxEdits, deletable, maxRevision,
                  \* maxExits]: the operator's flag, the KafkaClusters at first, what the
                  \* users may edit and delete, bounds on edits, upgrades and exits

Process == DOMAIN BuildVersion
Discovery == {"discovery", "nodeport"}
ConfigMapName(k, d) == IF d = "nodeport" THEN Append(k, "nodeport") ELSE k
ConfigMapNames == {ConfigMapName(k, d) : k \in ClusterName, d \in Discovery}

\* There is a first revision, and the users stay within the specs of KafkaClusters.
ASSUME FleetAssumption ==
  /\ BuildVersion \in Seq(STRING) /\ BuildVersion # <<>>
  /\ \A c \in KafkaClusters : c.roleGroups \subseteq RoleGroup /\ c.kubedoopVersion \in STRING
  /\ \A s \in Scenarios :
       /\ s.clusters \in [ClusterName -> Pointers(KafkaClusters)]
       /\ \A k \in DOMAIN s.edits : k \in ClusterName /\ s.edits[k] \subseteq KafkaClusters
       /\ s.maxRevision \in Process

VARIABLES
  scenario,
  revision,   \* the revision the Deployment asks for
  replicas,   \* the revisions that have a pod
  pc,         \* process -> what it does next
  lease,      \* the holder of the leader election lease
  cached,     \* process -> its informer's copy of each KafkaCluster
  queue,      \* process -> the keys in its work queue
  pass,       \* process -> pointer to the pass under way: [key, spec, left]
  cluster,    \* the KafkaClusters
  brokers,    \* the objects of each role group of each cluster
  ingress,    \* the ports in the status of their bootstrap Listeners
  discovery,  \* the discovery ConfigMaps by name
  edits, exits

processVars == <<pc, cached, queue, pass>>
deployVars == <<revision, replicas, lease, exits>>
objectVars == <<brokers, ingress, discovery>>
vars == <<scenario, processVars, deployVars, cluster, objectVars, edits>>

Active == {"idle", "rolegroup", "discovery", "nodeport", "ready"}
Unsynced == [k \in ClusterName |-> {}]

Init ==
  /\ scenario \in Scenarios
  /\ revision = 1 /\ replicas = {1} /\ lease = {}
  /\ pc = [p \in Process |-> "off"]
  /\ cached = [p \in Process |-> Unsynced]
  /\ queue = [p \in Process |-> {}]
  /\ pass = [p \in Process |-> {}]
  /\ cluster = scenario.clusters
  /\ brokers = [b \in ClusterName \X RoleGroup |-> {}]
  /\ ingress = [b \in ClusterName \X RoleGroup |-> {}]
  /\ discovery = [n \in ConfigMapNames |-> {}]
  /\ edits = 0 /\ exits = 0
-----------------------------------------------------------------------------
(***************************************************************************)
(* The process: main sets up the manager and its controller and starts it. *)
(* With leader election the controller runs once the lease is taken; the   *)
(* lease is not released on exit, it expires.                              *)
(***************************************************************************)
Launch(p) ==
  /\ p \in replicas /\ pc[p] = "off"
  /\ pc' = [pc EXCEPT ![p] = "setup"]
  /\ UNCHANGED <<scenario, cached, queue, pass, deployVars, cluster, objectVars, edits>>

\* The informer lists the KafkaClusters and the controller starts on all of them.
RunController(p) ==
  /\ pc' = [pc EXCEPT ![p] = "idle"]
  /\ cached' = [cached EXCEPT ![p] = cluster]
  /\ queue' = [queue EXCEPT ![p] = {k \in ClusterName : cluster[k] # {}}]
  /\ UNCHANGED <<scenario, pass, cluster, objectVars, edits>>

\* Mutation: the flag is parsed but not handed to the manager.
BugStart(p) ==
  /\ pc[p] = "setup"
  /\ RunController(p) /\ UNCHANGED deployVars

\* mgr.Start.  Both probes are pings: the pod is ready before it is elected.
Start(p) ==
  /\ pc[p] = "setup"
  /\ \/ ~scenario.leaderElect /\ RunController(p)
     \/ /\ scenario.leaderElect /\ pc' = [pc EXCEPT ![p] = "electing"]
        /\ UNCHANGED <<scenario, cached, queue, pass, cluster, objectVars, edits>>
  /\ UNCHANGED deployVars

Elect(p) ==
  /\ pc[p] = "electing" /\ lease = {}
  /\ lease' = {p}
  /\ RunController(p)
  /\ UNCHANGED <<revision, replicas, exits>>

Stop(p) ==
  /\ pc' = [pc EXCEPT ![p] = "off"]
  /\ cached' = [cached EXCEPT ![p] = Unsynced]
  /\ queue' = [queue EXCEPT ![p] = {}]
  /\ pass' = [pass EXCEPT ![p] = {}]

\* main ends in os.Exit(1): a step of the set-up fails, the lease cannot be
\* renewed, or the container is killed.
Exit(p) ==
  /\ pc[p] # "off" /\ exits < scenario.maxExits
  /\ exits' = exits + 1
  /\ Stop(p)
  /\ UNCHANGED <<scenario, revision, replicas, lease, cluster, objectVars, edits>>

\* The lease of a process that no longer renews it runs out (external).
Expire ==
  /\ \E p \in lease : pc[p] \notin Active
  /\ lease' = {}
  /\ UNCHANGED <<scenario, processVars, revision, replicas, exits, cluster, objectVars, edits>>

\* A rolling update of the Deployment (external): the new pod is added, and the
\* old one removed when the new one is ready.
Upgrade ==
  /\ revision < scenario.maxRevision
  /\ revision' = revision + 1
  /\ replicas' = replicas \cup {revision'}
  /\ UNCHANGED <<scenario, processVars, lease, exits, cluster, objectVars, edits>>

Retire(p) ==
  /\ p \in replicas /\ p < revision /\ pc[revision] \in Active \cup {"electing"}
  /\ replicas' = replicas \ {p}
  /\ Stop(p)
  /\ UNCHANGED <<scenario, revision, lease, exits, cluster, objectVars, edits>>
-----------------------------------------------------------------------------
(***************************************************************************)
(* The controller of process p: its informer, work queue and one worker.   *)
(***************************************************************************)
WatchEvent(p) ==
  /\ pc[p] \in Active
  /\ \E k \in ClusterName :
       /\ cached[p][k] # cluster[k]
       /\ cached' = [cached EXCEPT ![p][k] = cluster[k]]
       /\ queue' = [queue EXCEPT ![p] = @ \cup {k}]
  /\ UNCHANGED <<scenario, pc, pass, deployVars, cluster, objectVars, edits>>

Resync(p) ==
  LET known == {k \in ClusterName : cached[p][k] # {}}
  IN  /\ pc[p] \in Active /\ ~(known \subseteq queue[p])
      /\ queue' = [queue EXCEPT ![p] = @ \cup known]
      /\ UNCHANGED <<scenario, pc, cached, pass, deployVars, cluster, objectVars, edits>>

\* Mutation: no early return for a KafkaCluster that is not found.
BugStartPass(p, k) ==
  /\ pc[p] = "idle" /\ k \in queue[p]
  /\ queue' = [queue EXCEPT ![p] = @ \ {k}]
  /\ pass' = [pass EXCEPT ![p] = {[key |-> k, spec |-> c, left |-> c.roleGroups] :
                                    c \in cached[p][k]}]
  /\ pc' = [pc EXCEPT ![p] = "rolegroup"]
  /\ UNCHANGED <<scenario, cached, deployVars, cluster, objectVars, edits>>

\* Reconcile of the next key; a KafkaCluster that is not found needs nothing.
StartPass(p, k) ==
  /\ pc[p] = "idle" /\ k \in queue[p]
  /\ queue' = [queue EXCEPT ![p] = @ \ {k}]
  /\ pass' = [pass EXCEPT ![p] = {[key |-> k, spec |-> c, left |-> c.roleGroups] :
                                    c \in cached[p][k]}]
  /\ pc' = [pc EXCEPT ![p] = IF cached[p][k] = {} THEN "idle" ELSE "rolegroup"]
  /\ UNCHANGED <<scenario, cached, deployVars, cluster, objectVars, edits>>

EndPass(p) == /\ pc' = [pc EXCEPT ![p] = "idle"]
              /\ pass' = [pass EXCEPT ![p] = {}]

\* Mutation: a pass that wrote an object is not repeated.
BugRequeue(p, k) == EndPass(p) /\ UNCHANGED queue

Requeue(p, k) == EndPass(p) /\ queue' = [queue EXCEPT ![p] = @ \cup {k}]

Advance(p, next) == pc' = [pc EXCEPT ![p] = next] /\ UNCHANGED <<pass, queue>>

\* The version of the image is the operator's own unless the spec names one.
GetImage(p, c) == IF c.kubedoopVersion = Unset THEN BuildVersion[p] ELSE c.kubedoopVersion

BuildRoleGroup(p, c) == [config |-> c.config, kubedoopVersion |-> GetImage(p, c)]

\* Mutation: what exists is not compared with what is built.
BugReconcileRoleGroup(p, w) ==
  /\ pc[p] = "rolegroup"
  /\ \/ \E g \in w.left :
          \/ /\ brokers[<<w.key, g>>] # {}
             /\ pass' = [pass EXCEPT ![p] = {[w EXCEPT !.left = @ \ {g}]}]
             /\ UNCHANGED <<brokers, pc, queue>>
          \/ /\ brokers[<<w.key, g>>] = {}
             /\ brokers' = [brokers EXCEPT ![<<w.key, g>>] = {BuildRoleGroup(p, w.spec)}]
             /\ Requeue(p, w.key)
     \/ w.left = {} /\ Advance(p, "discovery") /\ UNCHANGED brokers
  /\ UNCHANGED <<scenario, cached, deployVars, cluster, ingress, discovery, edits>>

\* The next role group, if any: found as it should be, or written, which ends the pass.
ReconcileRoleGroup(p, w) ==
  /\ pc[p] = "rolegroup"
  /\ \/ \E g \in w.left :
          LET built == BuildRoleGroup(p, w.spec)
          IN  /\ brokers' = [brokers EXCEPT ![<<w.key, g>>] = {built}]
              /\ \/ /\ brokers[<<w.key, g>>] = {built}
                    /\ pass' = [pass EXCEPT ![p] = {[w EXCEPT !.left = @ \ {g}]}]
                    /\ UNCHANGED <<pc, queue>>
                 \/ brokers[<<w.key, g>>] # {built} /\ Requeue(p, w.key)
     \/ w.left = {} /\ Advance(p, "discovery") /\ UNCHANGED brokers
  /\ UNCHANGED <<scenario, cached, deployVars, cluster, ingress, discovery, edits>>
-----------------------------------------------------------------------------
(***************************************************************************)
(* Discovery.  The label selects the Listeners of every KafkaCluster.      *)
(***************************************************************************)
Configs == {c.config : c \in KafkaClusters}
PortNameOf == [c \in Configs |-> DiscoveryPortName(NewKafkaSecurity(c))]
ListenerPorts == [c \in Configs |-> BuildBootstrapListener(c).ports]

PortIsMissing(c) ==
  \E b \in DOMAIN ingress : \E ports \in ingress[b] : PortNameOf[c.config] \notin PortNames(ports)

MakeBootstrapServers(c) ==
  UNION {{[host |-> b, port |-> q.port] :
            q \in {r \in UNION ingress[b] : r.name = PortNameOf[c.config]}} :
              b \in DOMAIN ingress}

BuildDiscovery(k, c) == [owner |-> k, servers |-> MakeBootstrapServers(c)]

\* Mutation: a discovery ConfigMap that exists is not updated.
BugReconcileDiscovery(p, w, d) ==
  LET name == ConfigMapName(w.key, d)
  IN  /\ pc[p] = d
      /\ \/ discovery[name] = {} /\ PortIsMissing(w.spec) /\ Requeue(p, w.key)
            /\ UNCHANGED discovery
         \/ /\ discovery[name] = {} /\ ~PortIsMissing(w.spec) /\ Requeue(p, w.key)
            /\ discovery' = [discovery EXCEPT ![name] = {BuildDiscovery(w.key, w.spec)}]
         \/ /\ discovery[name] # {}
            /\ Advance(p, IF d = "discovery" THEN "nodeport" ELSE "ready")
            /\ UNCHANGED discovery
      /\ UNCHANGED <<scenario, cached, deployVars, cluster, brokers, ingress, edits>>

ReconcileDiscovery(p, w, d) ==
  LET name == ConfigMapName(w.key, d)
      built == BuildDiscovery(w.key, w.spec)
  IN  /\ pc[p] = d
      /\ \/ PortIsMissing(w.spec) /\ Requeue(p, w.key) /\ UNCHANGED discovery
         \/ /\ ~PortIsMissing(w.spec)
            /\ discovery' = [discovery EXCEPT ![name] = {built}]
            /\ \/ discovery[name] # {built} /\ Requeue(p, w.key)
               \/ /\ discovery[name] = {built}
                  /\ Advance(p, IF d = "discovery" THEN "nodeport" ELSE "ready")
      /\ UNCHANGED <<scenario, cached, deployVars, cluster, brokers, ingress, edits>>

\* The brokers are found ready, or the key is queued once more.
Ready(p, w) ==
  /\ pc[p] = "ready"
  /\ \/ EndPass(p) /\ UNCHANGED queue
     \/ Requeue(p, w.key)
  /\ UNCHANGED <<scenario, cached, deployVars, cluster, objectVars, edits>>

PassStep(p) ==
  \E w \in pass[p] : \/ ReconcileRoleGroup(p, w) \/ Ready(p, w)
                     \/ \E d \in Discovery : ReconcileDiscovery(p, w, d)
-----------------------------------------------------------------------------
(***************************************************************************)
(* The users and the other controllers (external).                         *)
(***************************************************************************)
EditCluster ==
  /\ edits < scenario.maxEdits
  /\ \E k \in DOMAIN scenario.edits : \E c \in scenario.edits[k] :
       /\ cluster[k] \notin {{}, {c}}
       /\ cluster' = [cluster EXCEPT ![k] = {c}]
  /\ edits' = edits + 1
  /\ UNCHANGED <<scenario, processVars, deployVars, objectVars>>

DeleteCluster(k) ==
  /\ k \in scenario.deletable /\ cluster[k] # {}
  /\ cluster' = [cluster EXCEPT ![k] = {}]
  /\ UNCHANGED <<scenario, processVars, deployVars, objectVars, edits>>

Owned(k) == \/ \E g \in RoleGroup : brokers[<<k, g>>] # {}
            \/ \E n \in DOMAIN discovery : \E o \in discovery[n] : o.owner = k

\* Everything owned by a KafkaCluster that is gone is collected.
Collect(k) ==
  /\ cluster[k] = {} /\ Owned(k)
  /\ brokers' = [b \in DOMAIN brokers |-> IF b[1] = k THEN {} ELSE brokers[b]]
  /\ ingress' = [b \in DOMAIN ingress |-> IF b[1] = k THEN {} ELSE ingress[b]]
  /\ discovery' = [n \in DOMAIN discovery |-> {o \in discovery[n] : o.owner # k}]
  /\ UNCHANGED <<scenario, processVars, deployVars, cluster, edits>>

\* The listener operator publishes the ports of a Listener's current spec.
Publish(b) ==
  /\ \E o \in brokers[b] : /\ ingress[b] # {ListenerPorts[o.config]}
                           /\ ingress' = [ingress EXCEPT ![b] = {ListenerPorts[o.config]}]
  /\ UNCHANGED <<scenario, processVars, deployVars, cluster, brokers, discovery, edits>>
-----------------------------------------------------------------------------
Run(p) == Launch(p) \/ Start(p) \/ Elect(p) \/ PassStep(p)

Next ==
  \/ \E p \in Process : \/ Run(p) \/ Exit(p) \/ Retire(p) \/ WatchEvent(p) \/ Resync(p)
                        \/ \E k \in ClusterName : StartPass(p, k)
  \/ Upgrade \/ Expire \/ EditCluster
  \/ \E k \in ClusterName : DeleteCluster(k) \/ Collect(k)
  \/ \E b \in ClusterName \X RoleGroup : Publish(b)

Spec == Init /\ [][Next]_vars

(***************************************************************************)
(* Every process and every controller runs on; an exited process is        *)
(* restarted, a rolling update finishes, a lease that is not renewed runs  *)
(* out, the resync comes.  The work queue is first-in first-out, so a key  *)
(* in it gets its turn although other passes come first (SF).              *)
(***************************************************************************)
Fairness ==
  /\ WF_vars(Expire)
  /\ \A p \in Process : /\ WF_vars(Run(p)) /\ WF_vars(Retire(p))
                        /\ WF_vars(WatchEvent(p)) /\ WF_vars(Resync(p))
                        /\ \A k \in ClusterName : SF_vars(StartPass(p, k))
  /\ \A k \in ClusterName : WF_vars(Collect(k))
  /\ \A b \in ClusterName \X RoleGroup : WF_vars(Publish(b))

FairSpec == Spec /\ Fairness
-----------------------------------------------------------------------------
Passes == [key : ClusterName, spec : KafkaClusters, left : SUBSET RoleGroup]
Objects == [config : Configs, kubedoopVersion : STRING]
PublishedPorts == {ListenerPorts[c] : c \in Configs}
Servers == [host : ClusterName \X RoleGroup, port : {q.port : q \in UNION PublishedPorts}]
DiscoveryObjects == [owner : ClusterName, servers : SUBSET Servers]

ProcessTypeOK ==
  /\ revision \in replicas /\ replicas \subseteq Process
  /\ lease \in Pointers(Process) /\ exits \in Nat
  /\ pc \in [Process -> Active \cup {"off", "setup", "electing"}]
  /\ cached \in [Process -> [ClusterName -> Pointers(KafkaClusters)]]
  /\ queue \in [Process -> SUBSET ClusterName]
  /\ pass \in [Process -> Pointers(Passes)]
  /\ \A p \in Process :
       /\ pass[p] = {} <=> pc[p] \notin Active \ {"idle"}
       /\ pc[p] \notin Active => queue[p] = {} /\ cached[p] = Unsynced
       /\ pc[p] # "off" => p \in replicas
       /\ \A w \in pass[p] : w.left \subseteq w.spec.roleGroups

ObjectTypeOK ==
  /\ scenario \in Scenarios /\ edits \in Nat
  /\ cluster \in [ClusterName -> Pointers(KafkaClusters)]
  /\ brokers \in [ClusterName \X RoleGroup -> Pointers(Objects)]
  /\ ingress \in [ClusterName \X RoleGroup -> Pointers(PublishedPorts)]
  /\ discovery \in [ConfigMapNames -> Pointers(DiscoveryObjects)]

\* A process holds a spec exactly during a pass, an idle or stopped one none; the
\* revision asked for always has a pod, and so has every process; every discovery
\* ConfigMap is owned by a KafkaCluster and lists ports of Listeners only.
TypeOK == ProcessTypeOK /\ ObjectTypeOK

\* The discovery ConfigMap d of KafkaCluster k is there and its own, unless another
\* KafkaCluster has one of the same name: k-nodeport is a name a user may choose.
Discovered(k, d) ==
  (\A j \in ClusterName \ {k} : \A e \in Discovery : ConfigMapName(j, e) # ConfigMapName(k, d)) =>
    \E o \in discovery[ConfigMapName(k, d)] : o.owner = k

\* What process p would write for spec c of KafkaCluster k is there.
Applied(p, k, c) ==
  /\ \A g \in c.roleGroups : brokers[<<k, g>>] = {BuildRoleGroup(p, c)}
  /\ \A d \in Discovery : Discovered(k, d)

\* With leader election, a manager whose controller is at rest can rely on it:
\* everything is as this process writes it, although others were active before it
\* and will be after it (main.go: "only one active controller manager").
SettledIsApplied ==
  scenario.leaderElect =>
    \A p \in Process :
      pc[p] = "idle" /\ queue[p] = {} /\ cached[p] = cluster =>
        \A k \in ClusterName : \A c \in cluster[k] : Applied(p, k, c)

\* What pass w of process p has found as it should be.
Checked(p, w) ==
  /\ \A g \in w.spec.roleGroups \ w.left : brokers[<<w.key, g>>] = {BuildRoleGroup(p, w.spec)}
  /\ pc[p] # "rolegroup" => w.left = {}
  /\ pc[p] \in {"nodeport", "ready"} => Discovered(w.key, "discovery")
  /\ pc[p] = "ready" => Discovered(w.key, "nodeport")

\* What process p may rely on for KafkaCluster k, which it knows with spec c.
Known(p, k, c) ==
  IF \E w \in pass[p] : w.key = k
  THEN \E w \in pass[p] : w.key = k /\ w.spec = c /\ Checked(p, w)
  ELSE Applied(p, k, c)

\* Only the holder of the lease runs a controller.
LeaderAlone == scenario.leaderElect => \A p \in Process : pc[p] \in Active => lease = {p}

AllKnown ==
  scenario.leaderElect =>
    \A p \in Process, k \in ClusterName :
      pc[p] \in Active /\ k \notin queue[p] /\ cluster[k] # {} =>
        \A c \in cached[p][k] : Known(p, k, c)

\* Why a manager can rely on what it found: it is the only one active, and all that
\* its controller knows of a KafkaCluster is applied, or checked so far by the pass
\* under way, or the key is queued.
FleetInvariant == LeaderAlone /\ AllKnown

\* The brokers of every KafkaCluster come to be, and stay, those of its last spec
\* and of the last revision of the operator, also when an old and a new process
\* without leader election overwrite each other's objects for a while.
FleetConverges ==
  <>[](\A k \in ClusterName : \A c \in cluster[k] : \A g \in c.roleGroups :
         brokers[<<k, g>>] = {BuildRoleGroup(revision, c)})

\* If all Listeners have the port a KafkaCluster's clients use, its discovery
\* ConfigMaps come to list exactly the Listeners that exist: those of the other
\* KafkaClusters too, and none of one that was deleted.
DiscoveryFollowsListeners ==
  <>[](\A k \in ClusterName : \A c \in cluster[k] :
         ~PortIsMissing(c) =>
           \A d \in Discovery : discovery[ConfigMapName(k, d)] = {BuildDiscovery(k, c)})

\* Both discovery ConfigMaps of a KafkaCluster come to be its own and to lead to each
\* of its role groups, whatever other KafkaClusters there are.
OwnBrokersDiscovered ==
  <>[](\A k \in ClusterName : \A c \in cluster[k] : \A d \in Discovery :
         \E o \in discovery[ConfigMapName(k, d)] :
           /\ o.owner = k
           /\ \A g \in c.roleGroups : \E s \in o.servers : s.host = <<k, g>>)
=============================================================================
