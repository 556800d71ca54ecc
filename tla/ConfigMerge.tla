----------------------------- MODULE ConfigMerge -----------------------------
(***************************************************************************)
(* How a role group gets its configuration within one pass                 *)
(* (controller/role.go, cluster_config.go, configmap.go): the role's and   *)
(* the group's settings are merged, defaults are filled in, and the        *)
(* security settings are copied over server.properties.  All of it writes  *)
(* in place into Go maps, in the random order of the role groups; a map    *)
(* may be shared, because MergeObject (operator-go, external) may return   *)
(* the only argument that has a value, or that value, without a copy.      *)
(*                                                                         *)
(* The maps live in a heap.  A location is absent ({}) or holds one map.   *)
(***************************************************************************)
EXTENDS KafkaSecurity

CONSTANTS
  RoleGroup,    \* names of the role groups
  ClusterSpecs  \* [role, groups, security]: settings of the role and of each group

\* Two files of configOverrides, and the fields of BrokersConfigSpec.
Files == {"server.properties", "security.properties", "config"}

\* Every section of the role and of a group is a pointer.
ASSUME SpecsAssumption ==
  \A s \in ClusterSpecs, f \in Files :
    /\ \A v, w \in s.role[f] : v = w
    /\ \A g \in RoleGroup : \A v, w \in s.groups[g][f] : v = w

VARIABLES
  spec,       \* the KafkaCluster of the pass
  heap,       \* location -> pointer to a map
  at,         \* role group -> file -> the location of its merged map
  configMap   \* role group -> what it is configured with, once built

vars == <<spec, heap, at, configMap>>

\* One map over another, and a map of one key: the operators that TLC has under the
\* same names, defined here so that proofs can expand them.
f @@ g == [x \in DOMAIN f \cup DOMAIN g |-> IF x \in DOMAIN f THEN f[x] ELSE g[x]]
x :> v == [y \in {x} |-> v]

OfRole(f) == [kind |-> "role", file |-> f]
OfGroup(g, f) == [kind |-> "group", group |-> g, file |-> f]
Fresh(g, f) == [kind |-> "fresh", group |-> g, file |-> f]
Locations == {OfRole(f) : f \in Files} \cup {OfGroup(g, f) : g \in RoleGroup, f \in Files}
             \cup {Fresh(g, f) : g \in RoleGroup, f \in Files}

ComputeFile ==
  [f \in {"server.properties", "security.properties"} |->
     IF f = "server.properties"
     THEN ("zookeeper.connection.timeout.ms" :> Value("18000")) @@
          ("controlled.shutdown.enable" :> Value("true")) @@
          ("log.dirs" :> Value("topicdata"))
     ELSE ("networkaddress.cache.ttl" :> Value("30")) @@
          ("networkaddress.cache.negative.ttl" :> Value("0"))]

\* The fields of the embedded RoleGroupConfigSpec, a pointer that is nil as long as
\* none of them is set, and the fields of Kafka's own.
DefaultAffinity == Value("spread over hosts")
BaseConfig == ("affinity" :> DefaultAffinity) @@ ("logging" :> Value("no vector"))
              @@ ("gracefulShutdownTimeout" :> Value("30s"))
Resources == ("cpu" :> Value("1000m")) @@ ("memory" :> Value("1Gi")) @@ ("storage" :> Value("2Gi"))
ListenerConfig == ("bootstrapListenerClass" :> Value("cluster-internal"))
                  @@ ("brokerListenerClass" :> Value("cluster-internal"))
                  @@ ("requestedSecretLifeTime" :> Value("1d"))
DefaultRoleGroupConfigSpec == BaseConfig @@ Resources
DefaultKafkaConfig == DefaultRoleGroupConfigSpec @@ ListenerConfig

\* The API server writes the schema's defaults into every config section that the user
\* has, of the role and of a group alike, before the operator sees it.
SchemaDefaults == ("brokerListenerClass" :> Value("cluster-internal"))
                  @@ ("gracefulShutdownTimeout" :> Value("30s"))

Admitted(f, section) == IF f = "config" THEN {s @@ SchemaDefaults : s \in section} ELSE section

RoleSection(f) == Admitted(f, spec.role[f])
GroupSection(g, f) == Admitted(f, spec.groups[g][f])

Init ==
  /\ spec \in ClusterSpecs
  /\ heap = [l \in Locations |-> CASE l.kind = "role"  -> RoleSection(l.file)
                                  [] l.kind = "group" -> GroupSection(l.group, l.file)
                                  [] l.kind = "fresh" -> {}]
  /\ at = [g \in {} |-> <<>>]
  /\ configMap = [g \in {} |-> <<>>]

\* The value of MergeObject, and the locations it may be returned in.
MergeObject(g, f) ==
  LET role == heap[OfRole(f)]
      own == heap[OfGroup(g, f)]
  IN  CASE own = {}  -> role
        [] role = {} -> own
        [] OTHER     -> {Deref(own) @@ Deref(role)}

\* (configOverrides may be shared and lack the file; a config is shared if it exists).
MayReturn(g, f) ==
  {Fresh(g, f)}
  \cup {l \in {OfRole(f)} : heap[OfGroup(g, f)] = {} /\ (f = "config" => heap[l] # {})}
  \cup {l \in {OfGroup(g, f)} : heap[OfRole(f)] = {} /\ (f = "config" => heap[l] # {})}

\* mergeBaseConfig and mergeResources: affinity and logging get their defaults only
\* when no field beside them is set, every other field when it is not set itself.
MergeResources(user) == user @@ Resources
MergeBaseConfig(user) ==
  IF DOMAIN user \cap DOMAIN DefaultRoleGroupConfigSpec = {}
  THEN user @@ DefaultKafkaConfig
  ELSE MergeResources(user) @@ ListenerConfig

\* Mutation: the defaults replace what the user set.
BugMergeOverrides(f, user) == ComputeFile[f] @@ user

\* mergeOverrides: what the user did not set in a file gets its default.
MergeOverrides(f, user) == user @@ ComputeFile[f]

\* Mutation: no map is made when the user gave none.
BugMergeFromUserConfig(f, user) ==
  {IF f = "config" THEN MergeBaseConfig(u) ELSE MergeOverrides(f, u) : u \in user}

\* MergeFromUserConfig, of a map that RegisterResources makes when there is none.
MergeFromUserConfig(f, user) ==
  LET u == IF user = {} THEN <<>> ELSE Deref(user)
  IN  {IF f = "config" THEN MergeBaseConfig(u) ELSE MergeOverrides(f, u)}

\* RegisterResources for the next role group of the iteration.
RegisterResources(g) ==
  /\ g \notin DOMAIN at
  /\ \E locations \in [Files -> UNION {MayReturn(g, f) : f \in Files}] :
       /\ \A f \in Files : locations[f] \in MayReturn(g, f)
       /\ at' = (g :> locations) @@ at
       /\ heap' = [l \in Locations |->
                     IF l = locations[l.file] THEN MergeFromUserConfig(l.file, MergeObject(g, l.file))
                     ELSE heap[l]]
  /\ UNCHANGED <<spec, configMap>>

\* Mutation: the user's settings are copied over the security settings.
BugBuildServerProperties(g) ==
  [heap EXCEPT ![at[g]["server.properties"]] = {Deref(@) @@ ConfigSettings(spec.security)}]

\* buildServerProperties copies the security settings into the map it was given;
\* the other maps are read.  Builds follow the registration of all role groups.
BuildServerProperties(g) ==
  [heap EXCEPT ![at[g]["server.properties"]] = {ConfigSettings(spec.security) @@ Deref(@)}]

Build(g) ==
  /\ DOMAIN at = RoleGroup /\ g \notin DOMAIN configMap
  /\ heap' = BuildServerProperties(g)
  /\ configMap' = (g :> [f \in Files |-> heap'[at[g][f]]]) @@ configMap
  /\ UNCHANGED <<spec, at>>

Next == \E g \in RoleGroup : RegisterResources(g) \/ Build(g)

Spec == Init /\ [][Next]_vars
-----------------------------------------------------------------------------
\* The locations of a role group's maps are those of the right files, and a map that
\* was merged is never absent again: no builder writes into a nil map.
TypeOK ==
  /\ spec \in ClusterSpecs
  /\ DOMAIN heap = Locations /\ DOMAIN at \subseteq RoleGroup
  /\ DOMAIN configMap \subseteq DOMAIN at
  /\ \A g \in DOMAIN at : \A f \in Files :
       at[g][f] \in Locations /\ at[g][f].file = f /\ heap[at[g][f]] # {}

\* The map the admitted settings alone ask for: the group's before the role's.
Given(section) == IF section = {} THEN <<>> ELSE Deref(section)
UserSettings(g, f) == Given(GroupSection(g, f)) @@ Given(RoleSection(f))

\* The default affinity and logging are for those who configure nothing.
Defaults(g, f) ==
  CASE f # "config" -> ComputeFile[f]
    [] f = "config" /\ GroupSection(g, f) = {} /\ RoleSection(f) = {} -> DefaultKafkaConfig
    [] OTHER -> Resources @@ ListenerConfig

Merged(g, f) == UserSettings(g, f) @@ Defaults(g, f)

Expected(g, f) ==
  (IF f = "server.properties" THEN ConfigSettings(spec.security) ELSE <<>>) @@ Merged(g, f)

\* Each role group is configured with the security settings, then its own, the
\* role's and the default ones, in that precedence and with nothing of another
\* group, whatever the order of the groups and whichever maps are shared.
GroupsAreIndependent ==
  \A g \in DOMAIN configMap : \A f \in Files : configMap[g][f] = {Expected(g, f)}

\* Why sharing does no harm.  A group's own map is untouched until its turn, and the
\* role's map is as the user wrote it or the one map of groups that set nothing
\* themselves, so that filling in defaults or security settings twice is the same as
\* doing it once.
SharingInvariant ==
  /\ \A g \in RoleGroup \ DOMAIN at, f \in Files : heap[OfGroup(g, f)] = GroupSection(g, f)
  /\ \A f \in Files : \/ heap[OfRole(f)] = RoleSection(f)
                      \/ \E g \in DOMAIN at : at[g][f] = OfRole(f)
  /\ \A g \in DOMAIN at, f \in Files :
       /\ at[g][f] \in {Fresh(g, f), OfGroup(g, f), OfRole(f)}
       /\ at[g][f] = OfRole(f) =>
            GroupSection(g, f) = {} /\ (f = "config" => RoleSection(f) # {})
       /\ \/ heap[at[g][f]] = {Merged(g, f)}
          \/ DOMAIN at = RoleGroup /\ heap[at[g][f]] = {Expected(g, f)}
=============================================================================
