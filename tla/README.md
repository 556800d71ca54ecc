# Verification of the Kafka operator

TLA+ models of the operator that turns a `KafkaCluster` resource into Services,
ConfigMaps, StatefulSets and Listeners, model-checked with TLC; the safety
properties are also proved with TLAPS, for every value of the constants.

## The system

| Part | Source | State | Operations | Module |
|---|---|---|---|---|
| Controller | `kafkacluster_controller.go` | work queue, cache, the pass | read, register, reconcile, ready check | `ClusterReconcile` |
| Cluster and role | `cluster.go`, `role.go`, `rbac.go` | order of resources, role groups left, image version | register resources | `ClusterReconcile`, `ConfigMerge`, `OperatorFleet` |
| Services | `service.go` | two Services per role group | build, create, patch | `ClusterReconcile` |
| ConfigMap | `configmap.go`, `vector.go` | one per role group | build, create, patch | `PodTemplate`, `ClusterReconcile` |
| StatefulSet, container | `statefulset.go`, `container.go`, `util.go` | one per role group | build, create, patch | `PodTemplate`, `ClusterReconcile` |
| Bootstrap Listener | `listener.go`, `pkg/listener_builder.go` | spec and status | build, create, patch | `PodTemplate`, `ClusterReconcile` |
| Discovery | `discovery.go` | two ConfigMaps per cluster | list Listeners, build, patch | `ClusterReconcile`, `OperatorFleet` |
| Configuration merge | `cluster_config.go`, `role.go` | Go maps, possibly shared | schema defaults, merge, fill defaults | `ConfigMerge` |
| Security | `internal/security`, `pkg/kafka_role.go` | none | ports, settings, volumes | `KafkaSecurity` |
| Volume builders | `util/listener_volume.go`, `util/secret_volume.go` | annotations | build | `KafkaSecurity`, `PodTemplate` |
| Manager start-up | `cmd/main.go`, `util/version` | process, lease | set up, start, be elected, exit | `OperatorFleet` |
| Generated code, quantities | `zz_generated.deepcopy.go`, `util/resource.go` | | | not modelled |

The parts interact through the API server only. The informer tells the
controller that a `KafkaCluster` changed; one worker takes its key and makes a
*pass*: it reads the cached resource and reconciles the ServiceAccount, then
for each role group the headless Service, ConfigMap, StatefulSet, Listener and
metrics Service, then the two discovery ConfigMaps. A write ends the pass and
requeues the key, an error does too; a pass that writes nothing checks that the
StatefulSets are ready. Meanwhile the user edits or deletes the resource, the
listener operator publishes addresses, the StatefulSet controller replaces
pods and the garbage collector removes owned objects. Several KafkaClusters meet
in discovery, which lists the Listeners of all of them; several operator
processes meet during a rolling update of the operator itself.

What is hard about it: edits, deletion and crashes in the middle of a pass; a
spec read before a step and used after it; Listener statuses that lag; three
iterations in random order (role groups, protocol map, list of Listeners); no
watch on owned objects; two processes that write the same objects; Go maps written in place; several builders that choose
ports, files and passwords separately. `PROJECT.json` lists each of these at
its line under `hazards`.

## The modules

`KafkaSecurity` has the pure functions of the security settings. A Go pointer is
a set of at most one element (`Pointers`), `Unset` the zero string. The six keystore settings of a listener are one
entry, because the code always writes them together.

`PodTemplate` builds the ConfigMap, StatefulSet and Listener of a role group from
the merged spec. A build that fails or panics is `{}`. The start script is kept
as its steps and the files it reads.

`SpecEdits` is a state machine whose only state is the user's spec as the API
server admits it (`user`); each action edits one field, makes the config section
with the schema's defaults, or removes it. What a user leaves out or writes as an
empty string stays so in `user`: `Cluster` is the spec after the defaults of
`cluster_config.go` are merged in (`MergeBaseConfig`, `MergeResources`), and its
properties compare what the builders say about it. `user.config` is the section of
one role group; how those of the role and of a group are joined is in `ConfigMerge`.

`ClusterReconcile` is the core. One action per resource of a pass (`Reconcile…`),
with `pc` naming the resource that comes next, `target` the copy of the spec the
pass works from, `left` and `group` the iteration over role groups. `WatchEvent`,
`Resync`, `Crash` and `Restart` model controller-runtime and the Deployment;
`EditCluster`, `DeleteCluster`, `DeleteChild` the user; `PublishAddresses`,
`StopPods`, `StartPods`, `CollectGroup`, `CollectCluster` the external
controllers. `operator-go` is not part of the repository: that it compares, writes
and then requeues (`CreateOrUpdate`) is modelled from how this code uses it.
`ApiError` is a call that fails before it takes effect; one that takes effect and
is then reported as failed ends the pass just as the write itself does.

`LevelTriggered` is the contract of such an operator towards a user: a request, the
set of requests that the objects satisfy, and whether the operator rests. It may
work through any states, rests only on objects that satisfy the current request,
and touches nothing while it rests. `ClusterReconcile` implements it with
`desired <- cluster`, `satisfied` the specs that are `Applied`, and `resting` an
idle worker with an empty queue and a current cache.

`OperatorFleet` composes what `ClusterReconcile` has one of: several KafkaClusters
and several operator processes over one API server. A process is `off`, in
`setup` (`main` up to `mgr.Start`), `electing`, or active with its own cache,
queue and pass; `Exit`, `Expire`, `Upgrade` and `Retire` are its ends and the
rolling update. It is coarser where `ClusterReconcile` is fine: the objects of a
role group are written in one step, and servers are a set. It is finer where
processes and clusters differ: the version compiled into the operator
(`GetImage`), the ports in every Listener's status, the ConfigMaps' names and
owners.

`ConfigMerge` puts the maps of one pass on a heap, as the API server admits them:
with the schema's defaults in every config section. `MergeObject` of operator-go
may return an argument or a copy, so both happen (`MayReturn`). The pointer to the
embedded common settings is nil exactly if none of them is set, which decides
whether affinity and logging get their defaults (`MergeBaseConfig`). A location is
a section of the role, a section of a group, or a fresh copy; the module has its
own `@@` and `:>`, so that the proofs can expand them.

`MCClusterReconcile`, `MCConfigMerge` and `MCOperatorFleet` hold the instances. The
theorems are in `TypeCorrect_proofs`, `PassInvariant_proofs`, `StepOrder_proofs` and
`Contract_proofs` (`ClusterReconcile`), `SpecEdits_proofs`, `ConfigMerge_proofs`,
`FleetTypes_proofs` and `Fleet_proofs` (`OperatorFleet`). Definitions named `Bug…` are deliberate
mistakes; replacing the definition they stand before must break a property.

## What is checked

| Run | Instance | Shows |
|---|---|---|
| `spec_edits` | two SecretClass values, an authentication entry, all logging and storage settings, listener classes and lifetime given, empty or left out | the merged config is complete; published ports are served and resolvable by name; every file read is mounted; SSL listeners have stores under the right password; vector container and `vector.yaml` agree; only storage edits change claims |
| `config_merge` | two groups; settings that collide with a default, a security setting or neither | every group gets its own configuration in every order and with every sharing; the inductive invariant of the sharing |
| `security` | one group, two edits among plain, Kerberos and unbuildable, one crash | the operator rests only when all is applied; StatefulSets follow their ConfigMap; the contract of `LevelTriggered` is implemented |
| `groups` | two groups, one comes or goes, data volumes change (and are refused) | the inductive invariant of a pass; discovery follows the brokers |
| `converge` | one edit of security, logging or listener class, one crash | objects converge; reconciling ends; with the resync, discovery comes to the current addresses and ports |
| `lifecycle` | one fault (API error or deleted object), deletion of the cluster | deleted objects are restored; deletion leaves nothing |
| `fleet` | an upgrade with leader election and two exits, an upgrade without, two clusters of which one is edited and one deleted | the inductive invariant of a hand-over; a settled leader can rely on what it sees; brokers end as the last revision builds the last spec; discovery lists the Listeners that exist and no others |

Disagreements between code and text, each a run that TLC refutes (details under
`findings`):

- `life_time`: the requested certificate lifetime is overwritten;
- `spurious_patch`: an unchanged spec patches the StatefulSet;
- `removed_group`: objects of a removed role group stay;
- `blocked_pass`: an edited capacity blocks the pass for ever, and role groups `x`
  and `x-metrics` fight over a Service; each of the two specs alone is refuted;
- `foreign_ports`: a KafkaCluster is kept out of its own discovery by another one
  with other ports, by the Listener of a role group removed before TLS was turned
  on, or by a KafkaCluster called `<name>-nodeport`; each scenario alone is
  refuted, and two clusters with the same ports and unrelated names are not.

A role group with a config section, even an empty one, gets no default affinity, which
spreads brokers over hosts (`MergeBaseConfig` of `ConfigMerge`). `role.go:63` speaks of
merging the default config and leaves open whether that is meant; `Defaults`, from which
`GroupsAreIndependent` says what a group is configured with, is written as the code does it.

The comments of `serverSecretClass` and `internalSecretClass` in
`kafkacluster_types.go` are also swapped with respect to the code.

**Bounds.** `MaxEdits`, `MaxFaults` and `MaxCrashes` bound how often the
environment interferes, never what the operator does. Two edits are needed for
an edit to overtake an edit (plain, broken, mended); one crash or fault can
fall between any two steps; two role groups are needed for an iteration order.
`spec_edits` has one authentication entry; the theorems are for any number.
`fleet` has two revisions, the least that overlap, and two exits, so that the new
process can end as well as the old. Its scenarios (`FleetScenarios`) are the
initial states of one run: with and without `--leader-elect`, and one process
with two KafkaClusters.
Questions have instances of their own, because their product is out of TLC's
reach. The theorems below hold for every value of these bounds.

**Fairness.** The worker, the informer, the restart and the external controllers
are weakly fair: each runs in a loop of its own. `StartPass(TRUE)` is strongly
fair: Go picks the map order at random at every iteration, so among infinitely
many passes infinitely many iterate as the stored object was built. The
periodic resync is assumed only by `DiscoveryConverges` (as its premise), in
`lifecycle`, in `fleet` and in the liveness violations (there it makes the result
stronger). In `OperatorFleet` a key gets its turn (`SF` of `StartPass(p, k)`)
because the work queue is first-in first-out; `Retire` and `Expire` are weakly fair
because a Deployment finishes its rolling update and a lease that is not renewed
runs out. Edits, faults, crashes, upgrades and exits are not fair.

The Helm chart deploys the operator without `--leader-elect`,
`config/manager/manager.yaml` with it; `fleet` therefore has both.
`ReconcileFinishes` is conditional: without a stable order the operator may go on
patching, as `spurious_patch` shows. `CHECK_DEADLOCK FALSE` is used where the
system ends: a finished merge, a deleted and collected cluster.

`SslListenersHaveStores` assumes that Kerberos comes with both TLS classes, as in
`test/e2e/kerberos`; the code configures SSL listeners without stores otherwise, and
no text of the repository says what such a spec should give.

## What is proved

Every invariant and action property of a passing run is a theorem; the proofs use
no bound of the instances.

### The reconcile loop

About `ClusterReconcile`, for every finite set of role groups, every set of
specs and every bound:

- `TypeCorrect` (`TypeCorrect_proofs`): `Spec => []TypeOK`;
- `PassInvariantHolds` (`PassInvariant_proofs`): `Spec => []PassInvariant`;
- `NothingForgotten` (`PassInvariant_proofs`): `Spec => []RestMeansApplied`;
- `StatefulSetOrdered`, `DiscoveryOrdered` (`StepOrder_proofs`): the two action properties;
- `ContractKept` (`Contract_proofs`): `Spec => KeepsContract`, the refinement of `LevelTriggered`.

Assumptions: `BoundsAssumption` and `ClustersAssumption` (the role groups of a spec
are among a finite set of names). The builders stay opaque: the theorems hold
whatever they compute.

`RestMeansApplied` is not inductive, since a step into rest must know what the
pass saw earlier. `PassInvariant` adds it: what the pass has found unchanged still
is as its spec asks (`Checked`), because any write by the operator ends the pass;
unless the key is queued again, the spec of the pass is the informer's; and
between passes all of the informer's spec is applied. One lemma per kind of
step shows that it is kept (`RequeueKeeps` for a write or an error, `AdvanceKeeps`
and `CheckedInGroup` for a resource found unchanged, `AppliedStays` and
`CheckedStays` for everything else), relative to `TypeOK`.

`ContractKept` rests on the same invariant. A step that changes an object is the
worker's and requeues the key (`WriteRequeues`, `ObjectsWriter`), so it happens
outside rest and maps to `Work`; every other step leaves the satisfied requests as
they are (`SatisfiedStays`) and maps to `Ask`, `Rest`, `Wake` or a stutter, by
whether it changes the request (`ClusterWriter`) or rest. `RestMeansApplied` in
the next state gives the guard of `Rest`. After a deletion the collector's steps
are `Work` as well, since nothing is asked for.

The theorems are about `Spec`, in which nobody deletes an owned object by hand:
with `DeleteChild` the operator rests on a missing object until the resync.

### Several processes and clusters

About `OperatorFleet`, for any number of revisions, KafkaClusters, role groups,
exits and edits:

- `FleetTypeCorrect` (`FleetTypes_proofs`): `Spec => []TypeOK`;
- `FleetInvariantHolds` (`Fleet_proofs`): `Spec => []FleetInvariant`;
- `SettledIsAppliedHolds` (`Fleet_proofs`): `Spec => []SettledIsApplied`.

`FleetAssumption` says that there is at least one revision, each with a version, and
that specs and scenarios have the types the schema gives them.

`SettledIsApplied` is not inductive: that an idle leader can rely on the objects
depends on what its pass saw, and on nobody else writing since. `FleetInvariant` has
both halves. `LeaderAlone`: an active process holds the lease, so at most one is
active (`LeaderAloneKept`). `AllKnown`: what an active process knows of a cluster
is applied, or checked so far by the pass under way (`Checked`), or its key is
queued. A new leader starts with every key queued, so it relies on nothing its
predecessor wrote; with a single writer, what was found stays (`AppliedStays`,
`CheckedStays`, `KnownStays`), and a write ends the pass and queues the key
(`PassEffects`, `PassStepKnown`). The attempt to prove a stronger form failed for a
reason in the code: a KafkaCluster named `<name>-nodeport` writes the ConfigMap of
another one (see `foreign_ports`). `Discovered` therefore claims a ConfigMap only
where no other KafkaCluster has one of the same name; there it is the cluster's own.
Without leader election the two properties claim nothing: two processes then
overwrite each other's objects, and only `FleetConverges` holds.

### Role groups and shared maps

About `ConfigMerge`, for any set of role groups and any settings:

- `SharingInvariantHolds` (`ConfigMerge_proofs`): `Spec => [](TypeOK /\ SharingInvariant /\ GroupsAreIndependent)`;
- `MergeTypeCorrect`, `GroupsIndependent` (`ConfigMerge_proofs`): its consequences.

`SpecsAssumption` says only that each section is nil or one map. Of the defaults
nothing is used but `MergeAlgebra` and `MergeIdempotent`: a merge is associative,
and merging in the same settings a second time changes nothing. `GroupsAreIndependent` speaks of finished ConfigMaps;
the invariant adds where each group's map is and what it holds: the role's own map is
used only by groups with no section of their own, so all of them expect the same
value (`SharedMerge`), and the security settings may go in once for each of them.

### What the builders say about one spec

About `SpecEdits`, for any SecretClasses, passwords, lifetimes, listener classes and
any number of authentication entries:

- `MergedConfigComplete`: `Spec => []TypeOK`, that the merge leaves no listener class
  or lifetime empty and no storage nil, whatever the user gave;
- `NamedPorts`, `PortsServed`: `NamedPortsResolve` and `PublishedPortsAreServed`;
- `VectorAgreementHolds`, `FilesMounted`: `VectorAgreement` and `FilesAreMounted`;
- `SslStores`: `SslListenersHaveStores`;
- `ClaimsFollowStorage`: the action property `ClaimsFollowStorageOnly`.

`EditsAssumption` says that a user may leave the strings empty and that the schema's
default is one of the listener classes; that the merged ones are not empty is proved
(`MergedSpec`, from the typing of the edits in `UserSpecsType`), and makes the
StatefulSet buildable whenever the ConfigMap is. `MergedSpec` also says that the
merged storage is the user's or else the default, which is why making or removing the
section around it does not change the claims. Here the builders are expanded:
`ListenersOf`, `PortsOf`, `VolumesOf`, `SourcesOf`, `StoresOf` and `SslListeners`
give what each of them makes by what is enabled, and the theorems put them side by
side. Ports and stores need no invariant but the shape of the builders; claims need
that typing, files and the vector agent `TypeOK`.

### Only model-checked

- Liveness (`ObjectsConverge`, `ReconcileFinishes`, `DiscoveryConverges`,
  `DeletionCleans`, `FleetConverges`, `DiscoveryFollowsListeners`): out of the
  prover's reach.
- That the `OperatorFleet` abstraction of a role group's objects as one follows from
  `ClusterReconcile`: argued above, not proved.

## Not modelled

- `clusterOperation`: what stopping and pausing do is operator-go's, and nothing in
  the repository says what a stopped cluster looks like. `NewClusterReconciler`
  never sets the field `cluster.go:80` hands to the role.
- Start and termination of a broker container: the bash functions of the start
  script come from operator-go; the script itself is modelled by its steps and
  the files it reads.
- Of the image, everything but the version; resource quantities
  (`util/resource.go`, which no production path uses); log4j text; labels and
  annotations that no property is about.
- Environment and CLI overrides: their defaults are unimplemented in the code.
- Certificates, metrics and webhook servers of the manager; namespaces (every
  KafkaCluster of `OperatorFleet` is in one).
- The kcat commands (nothing calls them), generated deep copies.

## Plan

1. Done: `KafkaSecurity`, `PodTemplate`, `SpecEdits`, `ConfigMerge` with schema
   defaults, `ClusterReconcile` and its proofs, the contract `LevelTriggered` and
   the proof that `ClusterReconcile` implements it, `OperatorFleet`.
2. Done: proofs of every safety property of `ClusterReconcile`, `SpecEdits`,
   `ConfigMerge` and `OperatorFleet`.
3. With the source of operator-go at hand: `clusterOperation`, and the shutdown of
   a broker container beside its vector container.
