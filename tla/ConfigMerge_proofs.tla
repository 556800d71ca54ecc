------------------------- MODULE ConfigMerge_proofs -------------------------
(***************************************************************************)
(* The merges of ConfigMerge for every set of role groups, every settings  *)
(* of users and every choice of what MergeObject shares.                   *)
(***************************************************************************)
EXTENDS ConfigMerge, TLAPS

(***************************************************************************)
(* One map over another.                                                   *)
(***************************************************************************)

\* Merging is associative, and an empty map adds nothing to a merge.
LEMMA MergeAlgebra ==
  ASSUME NEW a, NEW b, NEW c
  PROVE  /\ (a @@ b) @@ c = a @@ (b @@ c)
         /\ (<<>> @@ a) @@ b = a @@ b
         /\ (a @@ <<>>) @@ b = a @@ b
         /\ <<>> @@ (a @@ b) = a @@ b
  BY DEF @@

\* Filling in what was filled in before changes nothing, and so does copying the
\* same settings over a map twice.
LEMMA MergeIdempotent ==
  ASSUME NEW a, NEW b, NEW c
  PROVE  /\ (a @@ b) @@ b = a @@ b
         /\ (a @@ (b @@ c)) @@ c = a @@ (b @@ c)
         /\ a @@ (a @@ b) = a @@ b
  BY DEF @@

\* Dereferencing a pointer to a map gives the map.
LEMMA DerefOf == ASSUME NEW v PROVE Deref({v}) = v
  BY DEF Deref
-----------------------------------------------------------------------------
(***************************************************************************)
(* Sections.                                                               *)
(***************************************************************************)

\* An admitted section is absent or one map; a config that is there has the fields
\* that the schema defaults, one of which is a field of RoleGroupConfigSpec.
LEMMA SectionsAdmitted ==
  ASSUME NEW f \in Files, NEW p, \A v, w \in p : v = w
  PROVE  \/ Admitted(f, p) = {}
         \/ \E u : /\ Admitted(f, p) = {u}
                   /\ f = "config" => "gracefulShutdownTimeout" \in DOMAIN u
  <1>1. CASE p = {}
    BY <1>1 DEF Admitted
  <1>2. ASSUME NEW v \in p
        PROVE  \E u : /\ Admitted(f, p) = {u}
                      /\ f = "config" => "gracefulShutdownTimeout" \in DOMAIN u
    <2>1. p = {v}
      BY <1>2
    <2>2. CASE f # "config"
      BY <2>1, <2>2 DEF Admitted
    <2>3. CASE f = "config"
      <3>1. Admitted(f, p) = {v @@ SchemaDefaults}
        BY <2>1, <2>3 DEF Admitted
      <3>2. "gracefulShutdownTimeout" \in DOMAIN (v @@ SchemaDefaults)
        BY DEF SchemaDefaults, @@, :>
      <3>3. QED
        BY <3>1, <3>2
    <2>4. QED
      BY <2>2, <2>3
  <1>3. QED
    BY <1>1, <1>2

\* The same, with the map named.
LEMMA SectionGiven ==
  ASSUME NEW f \in Files, NEW p, \A v, w \in p : v = w
  PROVE  \/ Admitted(f, p) = {} /\ Given(Admitted(f, p)) = <<>>
         \/ /\ Admitted(f, p) = {Given(Admitted(f, p))}
            /\ f = "config" => "gracefulShutdownTimeout" \in DOMAIN Given(Admitted(f, p))
  <1>1. ASSUME NEW u, Admitted(f, p) = {u} PROVE Given(Admitted(f, p)) = u
    BY <1>1, DerefOf DEF Given
  <1>2. Admitted(f, p) = {} => Given(Admitted(f, p)) = <<>>
    BY DEF Given
  <1>3. QED
    BY <1>1, <1>2, SectionsAdmitted

\* MergeBaseConfig of a config that has such a field.
LEMMA MergeOfGiven ==
  ASSUME NEW u, "gracefulShutdownTimeout" \in DOMAIN u
  PROVE  MergeBaseConfig(u) = u @@ (Resources @@ ListenerConfig)
  <1>1. "gracefulShutdownTimeout" \in DOMAIN DefaultRoleGroupConfigSpec
    BY DEF DefaultRoleGroupConfigSpec, BaseConfig, @@, :>
  <1>2. MergeBaseConfig(u) = (u @@ Resources) @@ ListenerConfig
    BY <1>1 DEF MergeBaseConfig, MergeResources
  <1>3. QED
    BY <1>2, MergeAlgebra

\* MergeBaseConfig of a config that nobody gave.
LEMMA MergeOfNone == MergeBaseConfig(<<>>) = <<>> @@ DefaultKafkaConfig
  BY DEF MergeBaseConfig

\* The defaults depend on which sections there are, not on what is in them.
LEMMA DefaultsOf ==
  ASSUME NEW g, NEW f \in Files
  PROVE  /\ f # "config" => Defaults(g, f) = ComputeFile[f]
         /\ f = "config" /\ GroupSection(g, f) = {} /\ RoleSection(f) = {} =>
              Defaults(g, f) = DefaultKafkaConfig
         /\ f = "config" /\ (GroupSection(g, f) # {} \/ RoleSection(f) # {}) =>
              Defaults(g, f) = Resources @@ ListenerConfig
  BY DEF Defaults

\* MergeFromUserConfig of a map that is there fills in the defaults of the file.
LEMMA MergeGiven ==
  ASSUME NEW f \in Files, NEW g, NEW u,
         f = "config" => /\ "gracefulShutdownTimeout" \in DOMAIN u
                         /\ GroupSection(g, f) # {} \/ RoleSection(f) # {}
  PROVE  MergeFromUserConfig(f, {u}) = {u @@ Defaults(g, f)}
  <1>1. MergeFromUserConfig(f, {u}) = {IF f = "config" THEN MergeBaseConfig(u) ELSE MergeOverrides(f, u)}
    BY DerefOf DEF MergeFromUserConfig
  <1>2. QED
    BY <1>1, DefaultsOf, MergeOfGiven DEF MergeOverrides

\* Groups that set nothing themselves share one merged map.
LEMMA SharedMerge ==
  ASSUME NEW g, NEW h, NEW f \in Files, GroupSection(g, f) = {}, GroupSection(h, f) = {}
  PROVE  Merged(g, f) = Merged(h, f) /\ Expected(g, f) = Expected(h, f)
  BY DefaultsOf DEF Merged, Expected, UserSettings

\* A role group that is registered gets the merge of its own settings, the role's and
\* the defaults, although the role's map may hold the defaults already.
LEMMA RegisteredValue ==
  ASSUME TypeOK, SharingInvariant, NEW g \in RoleGroup \ DOMAIN at, NEW f \in Files
  PROVE  MergeFromUserConfig(f, MergeObject(g, f)) = {Merged(g, f)}
  <1> DEFINE D == Defaults(g, f)
             own == heap[OfGroup(g, f)]
             role == heap[OfRole(f)]
             G == Given(GroupSection(g, f))
             R == Given(RoleSection(f))
  <1>1. own = GroupSection(g, f) /\ DOMAIN at # RoleGroup
    BY DEF SharingInvariant
  <1>2. \/ GroupSection(g, f) = {} /\ G = <<>>
        \/ /\ GroupSection(g, f) = {G}
           /\ f = "config" => "gracefulShutdownTimeout" \in DOMAIN G
    BY SpecsAssumption, SectionGiven DEF GroupSection, TypeOK
  <1>3. \/ RoleSection(f) = {} /\ R = <<>>
        \/ /\ RoleSection(f) = {R}
           /\ f = "config" => "gracefulShutdownTimeout" \in DOMAIN R
    BY SpecsAssumption, SectionGiven DEF RoleSection, TypeOK
  <1>4. \/ role = RoleSection(f)
        \/ /\ role = {R @@ D}
           /\ f = "config" => RoleSection(f) # {}
    <2>1. ASSUME NEW h \in DOMAIN at, at[h][f] = OfRole(f)
          PROVE  role = {R @@ D} /\ (f = "config" => RoleSection(f) # {})
      <3>1. /\ GroupSection(h, f) = {} /\ (f = "config" => RoleSection(f) # {})
            /\ role = {Merged(h, f)}
        BY <1>1, <2>1 DEF SharingInvariant
      <3>2. Defaults(h, f) = D
        BY <3>1, DefaultsOf
      <3>3. Merged(h, f) = (<<>> @@ R) @@ D
        BY <3>1, <3>2 DEF Merged, UserSettings, Given
      <3>4. QED
        BY <3>1, <3>3, MergeAlgebra
    <2>2. QED
      BY <2>1 DEF SharingInvariant
  <1>5. Merged(g, f) = (G @@ R) @@ D
    BY DEF Merged, UserSettings
  <1>6. MergeObject(g, f) = CASE own = {} -> role
                              [] role = {} -> own
                              [] OTHER -> {Deref(own) @@ Deref(role)}
    BY DEF MergeObject
  <1>7. ASSUME NEW u, MergeObject(g, f) = {u}, u @@ D = (G @@ R) @@ D,
               f = "config" => /\ "gracefulShutdownTimeout" \in DOMAIN u
                               /\ GroupSection(g, f) # {} \/ RoleSection(f) # {}
        PROVE  MergeFromUserConfig(f, MergeObject(g, f)) = {Merged(g, f)}
    BY <1>5, <1>7, MergeGiven
  <1> HIDE DEF D, own, role, G, R
  <1>8. CASE GroupSection(g, f) = {} /\ G = <<>>
    <2>1. MergeObject(g, f) = role
      BY <1>1, <1>6, <1>8
    <2>2. CASE RoleSection(f) = {} /\ R = <<>> /\ role = {}
      <3>1. MergeFromUserConfig(f, {}) =
              {IF f = "config" THEN <<>> @@ DefaultKafkaConfig ELSE <<>> @@ ComputeFile[f]}
        BY MergeOfNone DEF MergeFromUserConfig, MergeOverrides
      <3>2. D = IF f = "config" THEN DefaultKafkaConfig ELSE ComputeFile[f]
        BY <1>8, <2>2, DefaultsOf DEF D
      <3>3. MergeFromUserConfig(f, MergeObject(g, f)) = {<<>> @@ D}
        BY <2>1, <2>2, <3>1, <3>2
      <3>4. (<<>> @@ <<>>) @@ D = <<>> @@ D
        BY MergeAlgebra
      <3>5. QED
        BY <1>5, <1>8, <2>2, <3>3, <3>4
    <2>3. CASE role = {R} /\ RoleSection(f) = {R}
      <3>1. R @@ D = (G @@ R) @@ D
        BY <1>8, MergeAlgebra
      <3>2. QED
        BY <1>3, <1>7, <2>1, <2>3, <3>1, SMTT(30)
    <2>4. CASE role = {R @@ D} /\ (f = "config" => RoleSection(f) # {})
      <3>1. (R @@ D) @@ D = (G @@ R) @@ D
        BY <1>8, MergeAlgebra, MergeIdempotent
      <3>2. f = "config" => "gracefulShutdownTimeout" \in DOMAIN (R @@ D)
        BY <1>3, <2>4 DEF @@
      <3>3. QED
        BY <1>7, <2>1, <2>4, <3>1, <3>2
    <2>5. QED
      BY <1>3, <1>4, <2>2, <2>3, <2>4
  <1>9. CASE GroupSection(g, f) = {G}
                /\ (f = "config" => "gracefulShutdownTimeout" \in DOMAIN G)
    <2>1. own = {G} /\ Deref(own) = G
      BY <1>1, <1>9, DerefOf
    <2>2. CASE RoleSection(f) = {} /\ R = <<>> /\ role = {}
      <3>1. MergeObject(g, f) = {G}
        BY <1>6, <2>1, <2>2
      <3>2. G @@ D = (G @@ R) @@ D
        BY <2>2, MergeAlgebra
      <3>3. QED
        BY <1>7, <1>9, <3>1, <3>2
    <2>3. ASSUME NEW v \in {R, R @@ D}, role = {v}
          PROVE  MergeFromUserConfig(f, MergeObject(g, f)) = {Merged(g, f)}
      <3>1. MergeObject(g, f) = {G @@ v}
        BY <1>6, <2>1, <2>3, DerefOf
      <3>2. (G @@ v) @@ D = (G @@ R) @@ D
        <4>1. CASE v = R
          BY <4>1
        <4>2. CASE v = R @@ D
          <5>1. (G @@ (R @@ D)) @@ D = G @@ (R @@ D)
            BY MergeIdempotent
          <5>2. (G @@ R) @@ D = G @@ (R @@ D)
            BY MergeAlgebra
          <5>3. QED
            BY <4>2, <5>1, <5>2
        <4>3. QED
          BY <4>1, <4>2
      <3>3. f = "config" => "gracefulShutdownTimeout" \in DOMAIN (G @@ v)
        BY <1>9 DEF @@
      <3>4. QED
        BY <1>7, <1>9, <3>1, <3>2, <3>3
    <2>4. QED
      BY <1>3, <1>4, <2>2, <2>3
  <1>10. QED
    BY <1>2, <1>8, <1>9
-----------------------------------------------------------------------------
(***************************************************************************)
(* The invariant.                                                          *)
(***************************************************************************)

\* Two locations are the same only if kind, group and file are.
LEMMA LocationsDiffer ==
  ASSUME NEW g, NEW h, NEW e, NEW f
  PROVE  /\ OfRole(f).file = f /\ OfGroup(g, f).file = f /\ Fresh(g, f).file = f
         /\ OfRole(e) # OfGroup(g, f) /\ OfRole(e) # Fresh(g, f) /\ OfGroup(h, e) # Fresh(g, f)
         /\ OfGroup(h, e) = OfGroup(g, f) => h = g
         /\ Fresh(h, e) = Fresh(g, f) => h = g
  BY DEF OfRole, OfGroup, Fresh

\* What the settings ask for does not change during a pass.
LEMMA ExpectationsStay ==
  ASSUME spec' = spec, NEW g, NEW f
  PROVE  /\ RoleSection(f)' = RoleSection(f) /\ GroupSection(g, f)' = GroupSection(g, f)
         /\ Merged(g, f)' = Merged(g, f) /\ Expected(g, f)' = Expected(g, f)
  <1>1. RoleSection(f)' = RoleSection(f) /\ GroupSection(g, f)' = GroupSection(g, f)
    BY DEF RoleSection, GroupSection
  <1>2. UserSettings(g, f)' = UserSettings(g, f) /\ Defaults(g, f)' = Defaults(g, f)
    BY <1>1 DEF UserSettings, Defaults
  <1>3. Merged(g, f)' = Merged(g, f)
    BY <1>2 DEF Merged
  <1>4. QED
    BY <1>1, <1>3 DEF Expected

Shape ==
  /\ spec \in ClusterSpecs
  /\ DOMAIN heap = Locations /\ DOMAIN at \subseteq RoleGroup
  /\ DOMAIN configMap \subseteq DOMAIN at

\* The locations of merged maps are those the type says, and none of them is nil.
LEMMA SharingTyped == Shape /\ SharingInvariant => TypeOK
  <1> SUFFICES ASSUME Shape, SharingInvariant PROVE TypeOK
    OBVIOUS
  <1>1. ASSUME NEW g \in DOMAIN at, NEW f \in Files
        PROVE  at[g][f] \in Locations /\ at[g][f].file = f /\ heap[at[g][f]] # {}
    <2>1. at[g][f] \in {Fresh(g, f), OfGroup(g, f), OfRole(f)} /\ heap[at[g][f]] # {}
      BY DEF SharingInvariant
    <2>2. g \in RoleGroup
      BY DEF Shape
    <2>3. \A l \in {Fresh(g, f), OfGroup(g, f), OfRole(f)} : l \in Locations /\ l.file = f
      BY <2>2, LocationsDiffer DEF Locations
    <2>4. QED
      BY <2>1, <2>3
  <1>2. QED
    BY <1>1 DEF Shape, TypeOK

\* At first no map is merged and every section is as the user wrote it.
LEMMA InitShares == Init => TypeOK /\ SharingInvariant /\ GroupsAreIndependent
  <1> SUFFICES ASSUME Init PROVE TypeOK /\ SharingInvariant /\ GroupsAreIndependent
    OBVIOUS
  <1>1. DOMAIN at = {} /\ DOMAIN configMap = {} /\ spec \in ClusterSpecs /\ DOMAIN heap = Locations
    BY DEF Init
  <1>2. ASSUME NEW f \in Files PROVE heap[OfRole(f)] = RoleSection(f)
    <2>1. OfRole(f) \in Locations /\ OfRole(f).kind = "role" /\ OfRole(f).file = f
      BY DEF Locations, OfRole
    <2>2. QED
      BY <2>1 DEF Init
  <1>3. ASSUME NEW g \in RoleGroup, NEW f \in Files PROVE heap[OfGroup(g, f)] = GroupSection(g, f)
    <2>1. /\ OfGroup(g, f) \in Locations /\ OfGroup(g, f).kind = "group"
          /\ OfGroup(g, f).file = f /\ OfGroup(g, f).group = g
      BY DEF Locations, OfGroup
    <2>2. QED
      BY <2>1 DEF Init
  <1>4. SharingInvariant
    BY <1>1, <1>2, <1>3 DEF SharingInvariant
  <1>5. QED
    BY <1>1, <1>4, SharingTyped DEF Shape, GroupsAreIndependent

\* Registration: no other group's map is written, except one that both share, and that
\* one gets the value it has.
LEMMA RegisterShares ==
  ASSUME TypeOK, SharingInvariant, GroupsAreIndependent, NEW g \in RoleGroup, RegisterResources(g)
  PROVE  TypeOK' /\ SharingInvariant' /\ GroupsAreIndependent'
  <1>1. PICK locations \in [Files -> UNION {MayReturn(g, f) : f \in Files}] :
          /\ \A f \in Files : locations[f] \in MayReturn(g, f)
          /\ at' = (g :> locations) @@ at
          /\ heap' = [l \in Locations |->
                        IF l = locations[l.file]
                        THEN MergeFromUserConfig(l.file, MergeObject(g, l.file)) ELSE heap[l]]
    BY DEF RegisterResources
  <1>2. g \in RoleGroup \ DOMAIN at /\ spec' = spec /\ configMap' = configMap
    BY DEF RegisterResources
  <1>3. /\ DOMAIN at' = DOMAIN at \cup {g} /\ at'[g] = locations
        /\ \A h \in DOMAIN at : h # g /\ at'[h] = at[h]
    BY <1>1, <1>2 DEF @@, :>
  <1>4. ASSUME NEW f \in Files
        PROVE  /\ locations[f] \in {Fresh(g, f), OfGroup(g, f), OfRole(f)}
               /\ locations[f] = OfRole(f) => /\ heap[OfGroup(g, f)] = {}
                                              /\ f = "config" => heap[OfRole(f)] # {}
    BY <1>1, LocationsDiffer DEF MayReturn
  <1>5. ASSUME NEW f \in Files, NEW l \in Locations, l.file = f
        PROVE  /\ l = locations[f] => heap'[l] = {Merged(g, f)}
               /\ l # locations[f] => heap'[l] = heap[l]
    BY <1>1, <1>2, <1>5, RegisteredValue
  <1>6. ASSUME NEW f \in Files, locations[f] = OfRole(f)
        PROVE  GroupSection(g, f) = {} /\ (f = "config" => RoleSection(f) # {})
    BY <1>2, <1>4, <1>6 DEF SharingInvariant
  <1>7. ASSUME NEW f \in Files
        PROVE  /\ \A h \in RoleGroup : OfGroup(h, f) \in Locations /\ OfGroup(h, f).file = f
               /\ OfRole(f) \in Locations /\ OfRole(f).file = f
               /\ locations[f] \in Locations /\ locations[f].file = f
    BY <1>4, LocationsDiffer DEF Locations
  <1>8. ASSUME NEW h \in RoleGroup \ DOMAIN at', NEW f \in Files
        PROVE  heap'[OfGroup(h, f)] = GroupSection(h, f)
    <2>1. h \in RoleGroup \ DOMAIN at /\ h # g
      BY <1>3, <1>8
    <2>2. OfGroup(h, f) \notin {Fresh(g, f), OfGroup(g, f), OfRole(f)}
      BY <2>1, LocationsDiffer
    <2>3. QED
      BY <1>4, <1>5, <1>7, <2>1, <2>2 DEF SharingInvariant
  <1>9. ASSUME NEW f \in Files
        PROVE  heap'[OfRole(f)] = RoleSection(f) \/ \E h \in DOMAIN at' : at'[h][f] = OfRole(f)
    BY <1>3, <1>5, <1>7 DEF SharingInvariant
  <1>10. ASSUME NEW f \in Files
         PROVE  /\ at'[g][f] \in {Fresh(g, f), OfGroup(g, f), OfRole(f)}
                /\ at'[g][f] = OfRole(f) =>
                     GroupSection(g, f) = {} /\ (f = "config" => RoleSection(f) # {})
                /\ heap'[at'[g][f]] = {Merged(g, f)}
    BY <1>3, <1>4, <1>5, <1>6, <1>7
  <1>11. ASSUME NEW h \in DOMAIN at, NEW f \in Files
         PROVE  heap'[at[h][f]] = {Merged(h, f)}
    <2>1. /\ at[h][f] \in Locations /\ at[h][f].file = f
          /\ heap[at[h][f]] = {Merged(h, f)}
      BY <1>2 DEF TypeOK, SharingInvariant
    <2>2. CASE at[h][f] = locations[f]
      <3>1. at[h][f] = OfRole(f)
        <4>1. h # g /\ at[h][f] \in {Fresh(h, f), OfGroup(h, f), OfRole(f)}
          BY <1>2 DEF SharingInvariant
        <4>2. /\ Fresh(h, f) \notin {Fresh(g, f), OfGroup(g, f), OfRole(f)}
              /\ OfGroup(h, f) \notin {Fresh(g, f), OfGroup(g, f), OfRole(f)}
          BY <4>1, LocationsDiffer
        <4>3. QED
          BY <1>4, <2>2, <4>1, <4>2
      <3>2. GroupSection(h, f) = {} /\ GroupSection(g, f) = {}
        BY <1>6, <2>2, <3>1 DEF SharingInvariant
      <3>3. QED
        BY <1>5, <2>1, <2>2, <3>2, SharedMerge, SMTT(30)
    <2>3. QED
      BY <1>5, <2>1, <2>2
  <1>12. SharingInvariant'
    <2>1. ASSUME NEW h \in DOMAIN at', NEW f \in Files
          PROVE  /\ at'[h][f] \in {Fresh(h, f), OfGroup(h, f), OfRole(f)}
                 /\ at'[h][f] = OfRole(f) =>
                      GroupSection(h, f) = {} /\ (f = "config" => RoleSection(f) # {})
                 /\ heap'[at'[h][f]] = {Merged(h, f)}
      <3>1. CASE h = g
        BY <1>10, <3>1
      <3>2. CASE h \in DOMAIN at
        <4>1. /\ at[h][f] \in {Fresh(h, f), OfGroup(h, f), OfRole(f)}
              /\ at[h][f] = OfRole(f) =>
                   GroupSection(h, f) = {} /\ (f = "config" => RoleSection(f) # {})
          BY <3>2 DEF SharingInvariant
        <4>2. at'[h] = at[h] /\ heap'[at[h][f]] = {Merged(h, f)}
          BY <1>3, <1>11, <3>2
        <4>3. QED
          BY <4>1, <4>2
      <3>3. QED
        BY <1>3, <3>1, <3>2
    <2>2. QED
      BY <1>2, <1>8, <1>9, <2>1, ExpectationsStay DEF SharingInvariant
  <1>13. GroupsAreIndependent'
    BY <1>2, ExpectationsStay DEF GroupsAreIndependent
  <1>14. TypeOK'
    <2>1. Shape'
      BY <1>1, <1>2, <1>3 DEF Shape, TypeOK
    <2>2. QED
      BY <1>12, <2>1, SharingTyped, PTL
  <1>15. QED
    BY <1>12, <1>13, <1>14

\* Build: the security settings go over a map that has them already or does not.
LEMMA BuildShares ==
  ASSUME TypeOK, SharingInvariant, GroupsAreIndependent, NEW g \in RoleGroup, Build(g)
  PROVE  TypeOK' /\ SharingInvariant' /\ GroupsAreIndependent'
  <1> DEFINE server == "server.properties"
             S == ConfigSettings(spec.security)
             l == at[g][server]
  <1>1. /\ spec' = spec /\ at' = at /\ DOMAIN at = RoleGroup /\ g \notin DOMAIN configMap
        /\ heap' = [heap EXCEPT ![l] = {S @@ Deref(@)}]
        /\ configMap' = (g :> [f \in Files |-> heap'[at[g][f]]]) @@ configMap
    BY DEF Build, BuildServerProperties
  <1>2. /\ DOMAIN configMap' = DOMAIN configMap \cup {g}
        /\ \A f \in Files : configMap'[g][f] = heap'[at[g][f]]
        /\ \A h \in DOMAIN configMap : configMap'[h] = configMap[h]
    BY <1>1 DEF @@, :>
  <1>3. server \in Files /\ l \in Locations /\ l.file = server /\ DOMAIN heap = Locations
    BY <1>1 DEF TypeOK, Files
  <1>4. ASSUME NEW h \in RoleGroup
        PROVE  /\ Expected(h, server) = S @@ Merged(h, server)
               /\ S @@ Expected(h, server) = Expected(h, server)
    BY MergeIdempotent DEF Expected
  <1> HIDE DEF S
  <1>5. heap'[l] = {Expected(g, server)}
    <2>1. heap[l] = {Merged(g, server)} \/ heap[l] = {Expected(g, server)}
      BY <1>1, <1>3 DEF SharingInvariant
    <2>2. heap'[l] = {S @@ Deref(heap[l])}
      BY <1>1, <1>3
    <2>3. QED
      BY <1>4, <2>1, <2>2, DerefOf
  <1>6. ASSUME NEW h \in RoleGroup, at[h][server] = l
        PROVE  Expected(h, server) = Expected(g, server)
    <2>1. CASE h = g
      BY <2>1
    <2>2. CASE h # g
      <3>1. /\ l \in {Fresh(g, server), OfGroup(g, server), OfRole(server)}
            /\ l \in {Fresh(h, server), OfGroup(h, server), OfRole(server)}
        BY <1>1, <1>3, <1>6 DEF SharingInvariant
      <3>2. /\ Fresh(h, server) \notin {Fresh(g, server), OfGroup(g, server), OfRole(server)}
            /\ OfGroup(h, server) \notin {Fresh(g, server), OfGroup(g, server), OfRole(server)}
        BY <2>2, LocationsDiffer
      <3>3. l = OfRole(server)
        BY <3>1, <3>2
      <3>4. GroupSection(h, server) = {} /\ GroupSection(g, server) = {}
        BY <1>1, <1>3, <1>6, <3>3 DEF SharingInvariant
      <3>5. QED
        BY <1>3, <3>4, SharedMerge
    <2>3. QED
      BY <2>1, <2>2
  <1>7. ASSUME NEW h \in RoleGroup, NEW f \in Files
        PROVE  /\ heap'[at[h][f]] \in {{Merged(h, f)}, {Expected(h, f)}}
               /\ h = g => heap'[at[h][f]] = {Expected(h, f)}
    <2>1. /\ heap[at[h][f]] \in {{Merged(h, f)}, {Expected(h, f)}}
          /\ at[h][f] \in Locations /\ at[h][f].file = f
      BY <1>1 DEF SharingInvariant, TypeOK
    <2>2. CASE at[h][f] = l
      <3>1. f = server
        BY <1>3, <2>1, <2>2
      <3>2. QED
        BY <1>5, <1>6, <2>2, <3>1
    <2>3. CASE at[h][f] # l
      <3>1. heap'[at[h][f]] = heap[at[h][f]]
        BY <1>1, <1>3, <2>1, <2>3
      <3>2. h = g => f # server
        BY <2>3
      <3>3. f # server => Expected(h, f) = Merged(h, f)
        BY MergeAlgebra DEF Expected, Merged
      <3>4. QED
        BY <2>1, <3>1, <3>2, <3>3
    <2>4. QED
      BY <2>2, <2>3
  <1>8. ASSUME NEW f \in Files
        PROVE  heap'[OfRole(f)] = RoleSection(f) \/ \E h \in RoleGroup : at[h][f] = OfRole(f)
    <2>1. CASE OfRole(f) = l
      <3>1. f = server
        BY <1>3, <2>1, LocationsDiffer
      <3>2. QED
        BY <2>1, <3>1
    <2>2. CASE OfRole(f) # l
      <3>1. OfRole(f) \in Locations
        BY DEF Locations
      <3>2. heap'[OfRole(f)] = heap[OfRole(f)]
        BY <1>1, <1>3, <2>2, <3>1
      <3>3. QED
        BY <1>1, <3>2 DEF SharingInvariant
    <2>3. QED
      BY <2>1, <2>2
  <1>9. SharingInvariant'
    <2>1. ASSUME NEW h \in RoleGroup, NEW f \in Files
          PROVE  /\ at[h][f] \in {Fresh(h, f), OfGroup(h, f), OfRole(f)}
                 /\ at[h][f] = OfRole(f) =>
                      GroupSection(h, f) = {} /\ (f = "config" => RoleSection(f) # {})
      BY <1>1 DEF SharingInvariant
    <2>2. \A h \in RoleGroup, f \in Files : \/ heap'[at[h][f]] = {Merged(h, f)}
                                          \/ heap'[at[h][f]] = {Expected(h, f)}
      BY <1>7
    <2>3. at' = at /\ DOMAIN at = RoleGroup /\ spec' = spec
      BY <1>1
    <2>4. \A h, f : /\ RoleSection(f)' = RoleSection(f) /\ GroupSection(h, f)' = GroupSection(h, f)
                   /\ Merged(h, f)' = Merged(h, f) /\ Expected(h, f)' = Expected(h, f)
      BY <2>3, ExpectationsStay, Zenon
    <2>5. \A f \in Files : \/ heap'[OfRole(f)] = RoleSection(f)'
                           \/ \E h \in DOMAIN at' : at'[h][f] = OfRole(f)
      BY <1>8, <2>3, <2>4, Zenon
    <2>6. \A h \in DOMAIN at', f \in Files :
            /\ at'[h][f] \in {Fresh(h, f), OfGroup(h, f), OfRole(f)}
            /\ at'[h][f] = OfRole(f) =>
                 GroupSection(h, f)' = {} /\ (f = "config" => RoleSection(f)' # {})
      BY <2>1, <2>3, <2>4
    <2>7. \A h \in DOMAIN at', f \in Files : \/ heap'[at'[h][f]] = {Merged(h, f)'}
                                            \/ heap'[at'[h][f]] = {Expected(h, f)'}
      BY <2>2, <2>3, <2>4
    <2>8. RoleGroup \ DOMAIN at' = {} /\ DOMAIN at' = RoleGroup
      BY <2>3
    <2>9. QED
      BY <2>5, <2>6, <2>7, <2>8, Zenon DEF SharingInvariant, OfRole, OfGroup, Fresh
  <1>10. GroupsAreIndependent'
    <2>1. ASSUME NEW h \in DOMAIN configMap', NEW f \in Files
          PROVE  configMap'[h][f] = {Expected(h, f)}
      <3>1. CASE h = g
        BY <1>2, <1>7, <3>1
      <3>2. CASE h \in DOMAIN configMap
        BY <1>2, <3>2 DEF GroupsAreIndependent
      <3>3. QED
        BY <1>2, <3>1, <3>2
    <2>2. QED
      BY <1>1, <2>1, ExpectationsStay DEF GroupsAreIndependent
  <1>11. TypeOK'
    <2>1. Shape'
      BY <1>1, <1>2, ZenonT(60) DEF Shape, TypeOK
    <2>2. QED
      BY <1>9, <2>1, SharingTyped, PTL
  <1>12. QED
    BY <1>9, <1>10, <1>11
-----------------------------------------------------------------------------
(***************************************************************************)
(* The theorems.                                                           *)
(***************************************************************************)

\* The sharing of maps is benign throughout a pass.
THEOREM SharingInvariantHolds == Spec => [](TypeOK /\ SharingInvariant /\ GroupsAreIndependent)
  <1> DEFINE Inv == TypeOK /\ SharingInvariant /\ GroupsAreIndependent
  <1>1. Init => Inv
    BY InitShares
  <1>2. Inv /\ [Next]_vars => Inv'
    <2> SUFFICES ASSUME TypeOK, SharingInvariant, GroupsAreIndependent, [Next]_vars PROVE Inv'
      OBVIOUS
    <2>1. CASE UNCHANGED vars
      <3>1. /\ spec' = spec /\ heap' = heap /\ at' = at /\ configMap' = configMap
        BY <2>1 DEF vars
      <3>2. SharingInvariant' /\ GroupsAreIndependent'
        BY <3>1, ExpectationsStay, SMTT(30) DEF SharingInvariant, GroupsAreIndependent
      <3>3. TypeOK'
        BY <3>1 DEF TypeOK
      <3>4. QED
        BY <3>2, <3>3
    <2>2. QED
      BY <2>1, RegisterShares, BuildShares DEF Next
  <1>3. QED
    BY <1>1, <1>2, PTL DEF Spec

\* No builder writes into a nil map (role.go, configmap.go).
THEOREM MergeTypeCorrect == Spec => []TypeOK
  BY SharingInvariantHolds, PTL

\* Every role group is configured with the security settings, its own, the role's and
\* the default ones, in that precedence and with nothing of another group: for any
\* role groups and settings, in any order, whichever maps MergeObject shares.
THEOREM GroupsIndependent == Spec => []GroupsAreIndependent
  BY SharingInvariantHolds, PTL
=============================================================================
