------------------------------ MODULE RunnerProofs ------------------------------
(***************************************************************************)
(* Proofs about Runner, for every layout of a Pod the operator can render, *)
(* every plugin, credential and order in which volumes are brought up to   *)
(* date: its types, that every flow of a set has its own prompts, routes   *)
(* and credentials, and that a runner whose volumes stay as they are gives *)
(* up on exactly what cannot be started.                                   *)
(***************************************************************************)
EXTENDS Runner, FlowRenderProofs, SequenceTheorems

(* What a volume may hold while its Pod runs.                              *)
Held(l, v) == {Volume(l, side, v) : side \in Sides(l)}

Texts == [Prompts -> Data \cup {Absent}]
Configs == [model : Data \cup {None}, plugin : Data \cup {None}]

-----------------------------------------------------------------------------
(* What is mounted.                                                        *)

LEMMA LayoutMeans ==
  ASSUME NEW l \in Layouts
  PROVE  /\ l.multi \in BOOLEAN /\ l.env \in Environments
         /\ Count(l) \in Nat /\ Count(l) >= 1
         /\ l.before \in Sides(l) /\ l.after \in Sides(l)
         /\ \A side \in Sides(l) :
              /\ side = l.before \/ side = l.after
              /\ side.deps \in Stores
              /\ ~l.multi => side.spec \in FlowSpec /\ Outcome(side.spec, side.deps).reason = "Rendered"
              /\ l.multi => /\ side.spec \in FlowSetSpec /\ DistinctNames(side.spec.flows)
                            /\ Entries(side.spec) = 1..Count(l)
                            /\ SetOutcome(side.spec, [i \in Entries(side.spec) |-> side.deps]).reason
                                 = "Rendered"
                            /\ \A i \in 1..Count(l) :
                                 side.spec.flows[i].name = l.before.spec.flows[i].name
<1>1. /\ l.multi \in BOOLEAN /\ l.env \in Environments
      /\ l.before \in Sides(l) /\ l.after \in Sides(l)
  BY RunnerAssumption DEF Sides
<1>2. \A side \in Sides(l) : side = l.before \/ side = l.after
  BY DEF Sides
<1>3. ASSUME NEW side \in Sides(l)
      PROVE  /\ side.deps \in Stores
             /\ ~l.multi => side.spec \in FlowSpec /\ Outcome(side.spec, side.deps).reason = "Rendered"
             /\ l.multi => /\ side.spec \in FlowSetSpec /\ DistinctNames(side.spec.flows)
                           /\ side.spec.flows # <<>>
                           /\ SetOutcome(side.spec, [i \in Entries(side.spec) |-> side.deps]).reason
                                = "Rendered"
  BY RunnerAssumption
<1>4. CASE ~l.multi
  BY <1>1, <1>2, <1>3, <1>4 DEF Count
<1>5. CASE l.multi
  <2>1. Len(l.before.spec.flows) = Len(l.after.spec.flows)
    BY <1>5, RunnerAssumption
  <2>2. ASSUME NEW side \in Sides(l)
        PROVE  side.spec.flows \in Seq(FlowSetFlow) /\ side.spec.flows # <<>>
               /\ Len(side.spec.flows) = Count(l)
    BY <1>2, <1>3, <1>5, <2>1 DEF FlowSetSpec, Count
  <2>3. Count(l) \in Nat /\ Count(l) >= 1
    BY <1>1, <2>2
  <2>4. \A side \in Sides(l) : Entries(side.spec) = 1..Count(l)
    BY <2>2 DEF Entries
  <2>5. \A i \in 1..Count(l) : l.after.spec.flows[i].name = l.before.spec.flows[i].name
    <3>1. ASSUME NEW i \in 1..Count(l)
          PROVE  FlowAt(l, l.before, i).name = FlowAt(l, l.after, i).name
      BY <1>5, RunnerAssumption
    <3>2. QED
      BY <1>5, <3>1 DEF FlowAt
  <2>6. \A side \in Sides(l), i \in 1..Count(l) :
          side.spec.flows[i].name = l.before.spec.flows[i].name
    BY <1>2, <2>5
  <2>7. QED
    BY <1>1, <1>2, <1>3, <1>5, <2>3, <2>4, <2>6
<1>6. QED
  BY <1>4, <1>5

LEMMA NothingUnread ==
  ASSUME NEW spec \in FlowSpec, NEW d \in Stores
  PROVE  d \in Readings /\ ToRead(spec, d) = {}
<1>1. d \in Readings
  BY StoresAreReadings
<1>2. \A g \in Gets(spec, d) : g[2] \in Deps
  BY <1>1, GetsType
<1>3. \A o \in Deps : d[o] # Unread
  BY NamesAssumption DEF Stores
<1>4. QED
  BY <1>1, <1>2, <1>3 DEF ToRead

LEMMA FlowVolumes ==
  ASSUME NEW spec \in FlowSpec, NEW d \in Stores, Outcome(spec, d).reason = "Rendered"
  PROVE  /\ PromptFiles(spec, d) \in Texts /\ RuntimeConfig(spec, d) \in Configs
         /\ SecretData(spec, d) \in Environments
<1>1. d \in Readings /\ ToRead(spec, d) = {}
  BY NothingUnread
<1>2. PromptFiles(spec, d) \in Texts /\ RuntimeConfig(spec, d) \in Configs
  BY <1>1, PromptFilesType, ConfigType DEF Texts, Configs
<1>3. CASE SecretOf(spec, d) = None
  BY <1>2, <1>3 DEF SecretData, Environments
<1>4. CASE SecretOf(spec, d) # None
  <2>1. <<Listed(spec) + 3, SecretOf(spec, d)>> \in ModelGets(spec, d)
    BY <1>4, ModelGetsAre
  <2>2. BadSources(spec) = {}
    BY <1>1, RenderedMeans
  <2>3. <<Listed(spec) + 3, SecretOf(spec, d)>> \in Gets(spec, d)
    BY <2>1, <2>2 DEF Gets
  <2>4. d[SecretOf(spec, d)] \in DepObj(SecretOf(spec, d))
    BY <1>1, <2>3, EveryReadIsFound
  <2>5. d[SecretOf(spec, d)].data \in Data
    BY <2>4 DEF DepObj
  <2>6. QED
    BY <1>2, <1>4, <2>5, RunnerAssumption DEF SecretData
<1>5. QED
  BY <1>2, <1>3, <1>4

LEMMA VolumeNames ==
  ASSUME NEW l \in Layouts
  PROVE  /\ \A i \in 1..Count(l) : /\ <<"prompts", i>> \in Volumes(l)
                                  /\ <<"config", i>> \in Volumes(l)
                                  /\ <<"secret", i>> \in Volumes(l)
         /\ l.multi => <<"manifest", 0>> \in Volumes(l)
         /\ \A side : /\ Volume(l, side, <<"manifest", 0>>) = Manifest(side.spec)
                      /\ \A i : /\ Volume(l, side, <<"prompts", i>>)
                                     = PromptFiles(FlowAt(l, side, i), side.deps)
                                /\ Volume(l, side, <<"config", i>>)
                                     = RuntimeConfig(FlowAt(l, side, i), side.deps)
                                /\ Volume(l, side, <<"secret", i>>)
                                     = SecretData(FlowAt(l, side, i), side.deps)
<1>1. \A side : Volume(l, side, <<"manifest", 0>>) = Manifest(side.spec)
  BY DEF Volume
<1>2. \A side, i : /\ Volume(l, side, <<"prompts", i>>) = PromptFiles(FlowAt(l, side, i), side.deps)
                   /\ Volume(l, side, <<"config", i>>) = RuntimeConfig(FlowAt(l, side, i), side.deps)
                   /\ Volume(l, side, <<"secret", i>>) = SecretData(FlowAt(l, side, i), side.deps)
  BY DEF Volume
<1>3. QED
  BY <1>1, <1>2 DEF Volumes

LEMMA VolumeTypes ==
  ASSUME NEW l \in Layouts, NEW side \in Sides(l), NEW i \in 1..Count(l)
  PROVE  /\ Volume(l, side, <<"prompts", i>>) \in Texts
         /\ Volume(l, side, <<"config", i>>) \in Configs
         /\ Volume(l, side, <<"secret", i>>) \in Environments
<1>1. side.deps \in Stores
  BY LayoutMeans
<1>2. CASE ~l.multi
  <2>1. FlowAt(l, side, i) = side.spec
    BY <1>2 DEF FlowAt
  <2>2. side.spec \in FlowSpec /\ Outcome(side.spec, side.deps).reason = "Rendered"
    BY <1>2, LayoutMeans
  <2>3. QED
    BY <1>1, <2>1, <2>2, FlowVolumes, VolumeNames
<1>3. CASE l.multi
  <2> DEFINE got == [j \in Entries(side.spec) |-> side.deps]
             F == AsFlow(side.spec, i)
             flow == side.spec.flows[i]
  <2>1. /\ side.spec \in FlowSetSpec /\ i \in Entries(side.spec)
        /\ SetOutcome(side.spec, got).reason = "Rendered"
    BY <1>3, LayoutMeans
  <2>2. got[i] = side.deps
    BY <2>1
  <2> HIDE DEF got
  <2>3. F \in FlowSpec /\ Outcome(F, side.deps).reason = "Rendered"
    BY <2>1, <2>2, FlowOfSet, EachFlowIsRendered
  <2>4. /\ PromptFiles(F, side.deps) = PromptFiles(flow, side.deps)
        /\ RuntimeConfig(F, side.deps) = RuntimeConfig(flow, side.deps)
        /\ SecretOf(F, side.deps) = SecretOf(flow, side.deps)
    BY AsFlowIsTheFlow
  <2>5. SecretData(F, side.deps) = SecretData(flow, side.deps)
    BY <2>4 DEF SecretData
  <2>6. FlowAt(l, side, i) = flow
    BY <1>3 DEF FlowAt
  <2> HIDE DEF F, flow
  <2>7. QED
    BY <1>1, <2>3, <2>4, <2>5, <2>6, FlowVolumes, VolumeNames
<1>4. QED
  BY <1>2, <1>3, LayoutMeans

(* Every side's manifest lists the flows under the same names.             *)
LEMMA ManifestMeans ==
  ASSUME NEW l \in Layouts, l.multi = TRUE, NEW side \in Sides(l), NEW i \in 1..Count(l)
  PROVE  /\ Manifest(side.spec)[i].name = FlowAt(l, l.before, i).name
         /\ Manifest(side.spec)[i].entrypoint = side.spec.flows[i].prompts[1].name
<1>1. i \in Entries(side.spec) /\ side.spec.flows[i].name = l.before.spec.flows[i].name
  BY LayoutMeans
<1>2. QED
  BY <1>1 DEF Manifest, FlowAt

LEMMA DifferentFlowsDifferentNames ==
  ASSUME NEW l \in Layouts, l.multi, NEW i \in 1..Count(l), NEW j \in 1..Count(l),
         FlowAt(l, l.before, i).name = FlowAt(l, l.before, j).name
  PROVE  i = j
<1>1. DistinctNames(l.before.spec.flows) /\ Entries(l.before.spec) = 1..Count(l)
  BY LayoutMeans
<1>2. QED
  BY <1>1 DEF DistinctNames, Entries, FlowAt

-----------------------------------------------------------------------------
(* Credentials.                                                            *)

(* A credential is found if one of the keys has one, and is what one of    *)
(* them has.                                                               *)
LEMMA ReadCredentialIs ==
  ASSUME NEW dir, NEW e, NEW source \in Environments,
         source = IF dir = None THEN e ELSE dir,
         NEW keys \in Seq(Keys)
  PROVE  LET c == readCredential(dir, e, keys)
         IN  /\ c \in Values \cup {None}
             /\ c # None <=> \E j \in DOMAIN keys : source[keys[j]] # None
             /\ c # None => \E j \in DOMAIN keys : c = source[keys[j]]
<1> DEFINE c == readCredential(dir, e, keys)
           found == Found(source, keys)
<1>1. /\ found \in SUBSET Nat /\ found \subseteq DOMAIN keys
      /\ \A j \in DOMAIN keys : keys[j] \in Keys /\ source[keys[j]] \in Values \cup {None}
      /\ \A j : j \in found <=> j \in DOMAIN keys /\ source[keys[j]] # None
  BY DEF Found, Environments
<1>2. c = IF found = {} THEN None ELSE source[keys[Least(found)]]
  BY DEF readCredential
<1> HIDE DEF found, c
<1>3. CASE found = {}
  BY <1>1, <1>2, <1>3 DEF c
<1>4. CASE found # {}
  <2>1. Least(found) \in found
    BY <1>1, <1>4, LeastIsOne
  <2>2. QED
    BY <1>1, <1>2, <1>4, <2>1 DEF c
<1>5. QED
  BY <1>3, <1>4

LEMMA KeysAre ==
  ASSUME NEW d \in Data, NEW multi \in BOOLEAN
  PROVE  /\ PluginPayload[d] \in Plugin
         /\ KeysOf(multi, PluginPayload[d]) \in Seq(Keys)
         /\ PluginPayload[d].type = "vertexai" => 1 \in DOMAIN KeysOf(multi, PluginPayload[d])
<1>1. PluginPayload[d] \in Plugin
  BY RunnerAssumption
<1>2. PluginPayload[d].keys \in Seq(Keys) /\ PluginPayload[d].type \in Types
  BY <1>1 DEF Plugin
<1>3. DefaultKeys[PluginPayload[d].type] \in Seq(Keys)
  BY <1>2, RunnerAssumption
<1>4. PluginPayload[d].type = "vertexai" => DefaultKeys[PluginPayload[d].type] # <<>>
  BY <1>2, RunnerAssumption
<1>5. /\ KeysOf(multi, PluginPayload[d]) \in Seq(Keys)
      /\ PluginPayload[d].type = "vertexai" => KeysOf(multi, PluginPayload[d]) # <<>>
  BY <1>2, <1>3, <1>4 DEF KeysOf
<1>6. \A keys \in Seq(Keys) : keys # <<>> => 1 \in DOMAIN keys
  OBVIOUS
<1>7. QED
  BY <1>1, <1>5, <1>6

(* What building the plugin of a set's flow leaves in the environment.     *)
LEMMA ExportedIs ==
  ASSUME NEW plugin, NEW keys \in Seq(Keys), NEW e \in Environments,
         NEW dir, dir = None \/ dir \in Environments
  PROVE  LET new == Exported(plugin, keys, dir, e)
         IN  /\ new \in Environments
             /\ plugin.type = "bedrock" /\ dir # None =>
                  \A j \in DOMAIN keys : dir[keys[j]] # None => new[keys[j]] = dir[keys[j]]
             /\ plugin.type = "vertexai" /\ dir # None
                  /\ (\E j \in DOMAIN keys : dir[keys[j]] # None)
                => \E j \in DOMAIN keys : dir[keys[j]] # None /\ new[AdcKey] = dir[keys[j]]
<1> DEFINE new == Exported(plugin, keys, dir, e)
           found == Found(dir, keys)
<1>1. AdcKey \in Keys /\ \A j \in DOMAIN keys : keys[j] \in Keys
  BY RunnerAssumption
<1>2. CASE plugin.type \notin {"bedrock", "vertexai"} \/ dir = None
  BY <1>2 DEF Exported
<1>3. CASE plugin.type = "bedrock" /\ dir # None
  <2>1. new = [k \in Keys |-> IF \E i \in found : keys[i] = k THEN dir[k] ELSE e[k]]
    BY <1>3 DEF Exported
  <2>2. new \in Environments
    BY <1>3, <2>1 DEF Environments
  <2>3. ASSUME NEW j \in DOMAIN keys, dir[keys[j]] # None PROVE new[keys[j]] = dir[keys[j]]
    <3>1. j \in found
      BY <2>3 DEF Found
    <3>2. QED
      BY <1>1, <2>1, <3>1
  <2>4. QED
    BY <1>3, <2>2, <2>3
<1>4. CASE plugin.type = "vertexai" /\ dir # None
  <2>1. new = IF found = {} THEN e ELSE [e EXCEPT ![AdcKey] = dir[keys[Least(found)]]]
    BY <1>4 DEF Exported
  <2>2. \A j : j \in found <=> j \in DOMAIN keys /\ dir[keys[j]] # None
    BY DEF Found
  <2>3. found \in SUBSET Nat
    BY <2>2
  <2>4. CASE found = {}
    BY <1>4, <2>1, <2>2, <2>4
  <2>5. CASE found # {}
    <3>1. Least(found) \in found
      BY <2>3, <2>5, LeastIsOne
    <3> DEFINE j == Least(found)
    <3>2. j \in DOMAIN keys /\ dir[keys[j]] # None
      BY <2>2, <3>1
    <3>3. new = [e EXCEPT ![AdcKey] = dir[keys[j]]]
      BY <2>1, <2>5
    <3> HIDE DEF j, new, found
    <3>4. dir[keys[j]] \in Values \cup {None}
      BY <1>1, <1>4, <3>2 DEF Environments
    <3>5. new \in Environments /\ new[AdcKey] = dir[keys[j]]
      BY <1>1, <3>3, <3>4 DEF Environments
    <3>6. QED
      BY <1>4, <3>2, <3>5 DEF new
  <2>6. QED
    BY <2>4, <2>5
<1>5. QED
  BY <1>2, <1>3, <1>4

(* A builder accepts what Startable asks for.                              *)
LEMMA BuildsIff ==
  ASSUME NEW plugin \in Plugin, NEW keys \in Seq(Keys), NEW dir, NEW e,
         NEW source \in Environments, source = IF dir = None THEN e ELSE dir
  PROVE  Builds(plugin, keys, dir, e) <=>
           /\ plugin.type \in KeyTypes \cup {"ollama", "vertexai", "bedrock"}
           /\ plugin.type \in KeyTypes => \E j \in DOMAIN keys : source[keys[j]] # None
           /\ plugin.type = "ollama" => plugin.extra
           /\ plugin.type = "azureaifoundry" => plugin.extra \/ source[EndpointKey] # None
<1> DEFINE only == <<EndpointKey>>
<1>1. only \in Seq(Keys) /\ DOMAIN only = {1} /\ only[1] = EndpointKey
  BY RunnerAssumption
<1> HIDE DEF only
<1>2. readCredential(dir, e, only) # None <=> source[EndpointKey] # None
  <2>1. readCredential(dir, e, only) # None <=> \E j \in DOMAIN only : source[only[j]] # None
    BY <1>1, ReadCredentialIs
  <2>2. QED
    BY <1>1, <2>1
<1>3. readCredential(dir, e, keys) # None <=> \E j \in DOMAIN keys : source[keys[j]] # None
  BY ReadCredentialIs
<1>4. plugin.extra \in BOOLEAN
  BY DEF Plugin
<1>5. CASE plugin.type \in KeyTypes
  <2>1. plugin.type # "ollama"
    BY <1>5 DEF KeyTypes
  <2>2. Builds(plugin, keys, dir, e) <=>
          /\ readCredential(dir, e, keys) # None
          /\ \/ plugin.type # "azureaifoundry"
             \/ plugin.extra \/ readCredential(dir, e, only) # None
    BY <1>5, <2>1 DEF Builds, only
  <2>3. QED
    BY <1>2, <1>3, <1>5, <2>1, <2>2
<1>6. CASE plugin.type \notin KeyTypes
  BY <1>6 DEF Builds, KeyTypes
<1>7. QED
  BY <1>5, <1>6

-----------------------------------------------------------------------------
(* The inductive invariant.                                                *)

Running == pc \notin {"created", "exited"}

(* The flows whose plugin was accepted, and those whose routes are there.  *)
Plugged == IF pc \in {"stage", "copy", "route", "listen", "listening"} THEN at ELSE at - 1
Routed == IF pc \in {"listen", "listening"} THEN at ELSE at - 1

FilesOK ==
  /\ layout \in Layouts
  /\ files = [v \in Volumes(layout) |-> files[v]]
  /\ \A v \in Volumes(layout) : files[v] \in Held(layout, v)

(* What was read at the container's start, and what the flow's config is.  *)
BoundOK ==
  Running /\ layout.multi =>
    /\ \E side \in Sides(layout) : bound.manifest = Manifest(side.spec)
    /\ \A i \in 1..Count(layout) : bound.configs[i] \in Held(layout, <<"config", i>>)

ConfigOK ==
  /\ pc \in {"plugin", "stage", "copy"} => cfg \in Held(layout, <<"config", at>>)
  /\ pc \in {"stage", "copy"} => cfg.plugin # None

(* The credential InitGenkit will find, and the prompts it will load.      *)
CredentialOf(plugin) == IF plugin.type \in {"bedrock", "vertexai"} THEN env ELSE cred

CredentialOK ==
  pc \in {"stage", "copy"} /\ layout.multi =>
    Owns(layout, at, PluginPayload[cfg.plugin], CredentialOf(PluginPayload[cfg.plugin]))

StagingOK ==
  pc = "copy" =>
    \A p \in Prompts \ todo :
      staged[at][p] \in {Volume(layout, side, <<"prompts", at>>)[p] : side \in Sides(layout)}

Registered ==
  [plugin : Data, model : Data \cup {None}, cred : Environments \cup Values \cup {None},
   prompts : Texts]

RegistryOK ==
  /\ registry \in Seq(Registered)
  /\ \A i \in 1..Len(registry), p \in Prompts :
       registry[i].prompts[p] \in PromptsOf(layout, i, p)
  /\ OwnCredentials

PathOf(i, p) == IF layout.multi THEN FlowAt(layout, layout.before, i).name ELSE p

RoutesOK ==
  /\ \A r \in routes : /\ r = [path |-> PathOf(r.flow, r.prompt), flow |-> r.flow, prompt |-> r.prompt]
                       /\ registry[r.flow].prompts[r.prompt] # Absent
                       /\ Running => r.flow <= Routed
                       /\ Running /\ layout.multi => r.prompt = bound.manifest[r.flow].entrypoint
  /\ Running /\ layout.multi => \A i \in 1..Routed : \E r \in routes : r.flow = i
  /\ Running /\ ~layout.multi =>
       \A i \in 1..Routed : \A p \in FileNames(registry[i].prompts) : \E r \in routes : r.prompt = p

(* While nothing changes, what was accepted can be started.                *)
FixedOK ==
  layout.before = layout.after =>
    /\ Running => \A i \in 1..Plugged : Buildable(layout, layout.after, i)
    /\ pc \in {"config", "plugin"} /\ ~layout.multi =>
         env = ContainerEnv(layout, Volume(layout, layout.after, <<"secret", 1>>))
    /\ pc = "copy" => todo \subseteq FileNames(Volume(layout, layout.after, <<"prompts", at>>))
    /\ pc = "listening" => ~Clash
    /\ pc = "exited" => ~Startable(layout, layout.after)

ProgressOK ==
  /\ Running => at >= 1
  /\ pc \in {"listen", "listening"} => at = Count(layout)

RunnerInv ==
  /\ RunnerTypeOK /\ ProgressOK /\ FilesOK /\ BoundOK /\ ConfigOK /\ CredentialOK /\ StagingOK
  /\ RegistryOK /\ RoutesOK /\ FixedOK

LEMMA LayoutStays == [RunnerNext]_runnerVars => layout' = layout
BY DEF RunnerNext, runnerVars, Process, Kubelet, Refresh, Boot, LoadConfig, BuildPlugin,
       RefusePlugin, StagePrompts, CopyFile, CopyFails, InitGenkit, RegisterRoutes,
       EntrypointLost, Listen, RouteClash, Die, Exit

(* What holds of the layout of the moment holds of the next.               *)
LEMMA SameLayout ==
  ASSUME layout' = layout
  PROVE  /\ Count(layout') = Count(layout) /\ Volumes(layout') = Volumes(layout)
         /\ Sides(layout') = Sides(layout)
         /\ \A v : Held(layout', v) = Held(layout, v)
         /\ \A side, v : Volume(layout', side, v) = Volume(layout, side, v)
         /\ \A side, i : Buildable(layout', side, i) <=> Buildable(layout, side, i)
         /\ \A side : Startable(layout', side) <=> Startable(layout, side)
         /\ \A secret : ContainerEnv(layout', secret) = ContainerEnv(layout, secret)
OBVIOUS

LEMMA FilesStep ==
  ASSUME FilesOK, [RunnerNext]_runnerVars
  PROVE  FilesOK'
<1>1. layout' = layout /\ layout \in Layouts
  BY LayoutStays DEF FilesOK
<1>2. CASE UNCHANGED files
  BY <1>1, <1>2 DEF FilesOK
<1>3. ASSUME NEW v \in Volumes(layout), Refresh(v) PROVE FilesOK'
  <2> DEFINE new == Volume(layout, layout.after, v)
  <2>1. new \in Held(layout, v)
    BY <1>1, LayoutMeans DEF Held
  <2>2. files' = [files EXCEPT ![v] = new]
    BY <1>3 DEF Refresh
  <2> HIDE DEF new
  <2>3. QED
    BY <1>1, <2>1, <2>2 DEF FilesOK
<1>4. QED
  BY <1>2, <1>3
  DEF RunnerNext, runnerVars, Process, Kubelet, Boot, LoadConfig, BuildPlugin, RefusePlugin,
      StagePrompts, CopyFile, CopyFails, InitGenkit, RegisterRoutes, EntrypointLost, Listen,
      RouteClash, Die, Exit

LEMMA FilesHold ==
  ASSUME FilesOK, NEW i \in 1..Count(layout)
  PROVE  /\ files[<<"prompts", i>>] \in Held(layout, <<"prompts", i>>) \cap Texts
         /\ files[<<"config", i>>] \in Held(layout, <<"config", i>>) \cap Configs
         /\ files[<<"secret", i>>] \in Held(layout, <<"secret", i>>) \cap Environments
<1>1. layout \in Layouts
  BY DEF FilesOK
<1>2. /\ files[<<"prompts", i>>] \in Held(layout, <<"prompts", i>>)
      /\ files[<<"config", i>>] \in Held(layout, <<"config", i>>)
      /\ files[<<"secret", i>>] \in Held(layout, <<"secret", i>>)
  BY <1>1, VolumeNames DEF FilesOK
<1>3. QED
  BY <1>1, <1>2, VolumeTypes DEF Held

LEMMA HeldTypes ==
  ASSUME NEW l \in Layouts, NEW i \in 1..Count(l)
  PROVE  /\ Held(l, <<"prompts", i>>) \subseteq Texts
         /\ Held(l, <<"config", i>>) \subseteq Configs
         /\ Held(l, <<"secret", i>>) \subseteq Environments
BY VolumeTypes DEF Held

(* Where the process stands, in the terms the proofs below use.            *)
LEMMA Standing ==
  ASSUME RunnerInv
  PROVE  /\ layout \in Layouts /\ layout.multi \in BOOLEAN
         /\ Count(layout) \in Nat /\ Count(layout) >= 1
         /\ at \in 0..Count(layout) /\ Len(registry) \in Nat
         /\ Running => at \in 1..Count(layout)
         /\ Plugged \in 0..Count(layout) \/ Plugged = -1
         /\ Routed \in 0..Count(layout) \/ Routed = -1
         /\ ~layout.multi => Count(layout) = 1
<1>1. layout \in Layouts
  BY DEF RunnerInv, FilesOK
<1>2. layout.multi \in BOOLEAN /\ Count(layout) \in Nat /\ Count(layout) >= 1
  BY <1>1, LayoutMeans
<1>3. at \in 0..Count(layout) /\ Len(registry) \in Nat /\ (Running => at >= 1)
  BY <1>2 DEF RunnerInv, RunnerTypeOK, ProgressOK
<1>4. ~layout.multi => Count(layout) = 1
  BY DEF Count
<1>5. QED
  BY <1>1, <1>2, <1>3, <1>4 DEF Plugged, Routed

LEMMA InitInv == RunnerInit => RunnerInv
<1> SUFFICES ASSUME RunnerInit PROVE RunnerInv
  OBVIOUS
<1>1. layout \in Layouts /\ layout.env \in Environments /\ Count(layout) \in Nat
  BY LayoutMeans DEF RunnerInit
<1>2. RunnerTypeOK
  BY <1>1 DEF RunnerInit, RunnerTypeOK, NoStaging, NoPrompts
<1>3. FilesOK
  <2>1. \A v \in Volumes(layout) : files[v] = Volume(layout, layout.before, v)
    BY DEF RunnerInit, Mounted
  <2>2. files = [v \in Volumes(layout) |-> files[v]]
    BY DEF RunnerInit, Mounted
  <2>3. layout.before \in Sides(layout)
    BY <1>1, LayoutMeans
  <2>4. QED
    BY <1>1, <2>1, <2>2, <2>3 DEF FilesOK, Held
<1>4. pc = "created" /\ registry = <<>> /\ routes = {}
  BY DEF RunnerInit
<1>5. RegistryOK
  <2>1. registry \in Seq(Registered) /\ Len(registry) = 0
    BY <1>4
  <2>2. QED
    BY <2>1 DEF RegistryOK, OwnCredentials
<1>6. QED
  BY <1>2, <1>3, <1>4, <1>5
  DEF RunnerInv, ProgressOK, BoundOK, ConfigOK, CredentialOK, StagingOK, RoutesOK, FixedOK, Running

-----------------------------------------------------------------------------
(* Types.                                                                  *)

LEMMA BootType ==
  ASSUME RunnerInv, Boot
  PROVE  RunnerTypeOK'
<1>1. /\ layout' = layout /\ pc' = "config" /\ at' = 1 /\ cfg' = None /\ cred' = None
      /\ env' = ContainerEnv(layout, files[<<"secret", 1>>])
      /\ todo' = {} /\ staged' = NoStaging /\ registry' = <<>> /\ routes' = {}
  BY DEF Boot
<1>2. /\ layout.env \in Environments /\ Count(layout) \in Nat /\ Count(layout) >= 1
      /\ files[<<"secret", 1>>] \in Environments
  <2>1. layout \in Layouts /\ 1 \in 1..Count(layout) /\ FilesOK
    BY Standing DEF RunnerInv
  <2>2. files[<<"secret", 1>>] \in Environments
    BY <2>1, FilesHold
  <2>3. QED
    BY <2>1, <2>2, LayoutMeans
<1>3. env' \in Environments
  BY <1>1, <1>2 DEF ContainerEnv, Environments
<1>4. staged' \in [1..Count(layout) -> [Prompts -> Data \cup {Absent}]]
  BY <1>1 DEF NoStaging, NoPrompts
<1>5. QED
  BY <1>1, <1>2, <1>3, <1>4 DEF RunnerTypeOK

LEMMA LoadConfigType ==
  ASSUME RunnerInv, LoadConfig
  PROVE  RunnerTypeOK' /\ cfg' \in Held(layout, <<"config", at>>)
<1>1. at \in 1..Count(layout) /\ layout \in Layouts /\ (~layout.multi => at = 1)
  BY Standing DEF LoadConfig, Running
<1>2. cfg' \in Held(layout, <<"config", at>>)
  <2>1. CASE layout.multi
    BY <1>1, <2>1 DEF RunnerInv, BoundOK, LoadConfig, Running
  <2>2. CASE ~layout.multi
    BY <1>1, <2>2, FilesHold DEF RunnerInv, LoadConfig
  <2>3. QED
    BY <2>1, <2>2
<1>3. cfg' \in [model : Data \cup {None}, plugin : Data \cup {None}]
  BY <1>1, <1>2, HeldTypes DEF Configs
<1>4. QED
  BY <1>2, <1>3 DEF RunnerInv, RunnerTypeOK, LoadConfig

(* Where the plugin of the flow being set up looks for credentials.        *)
LEMMA Sources ==
  ASSUME RunnerInv, pc = "plugin"
  PROVE  /\ cfg \in Held(layout, <<"config", at>>) \cap Configs
         /\ CredentialsDir = None \/ CredentialsDir \in Environments
         /\ CredentialsDir # None <=> layout.multi
         /\ layout.multi => CredentialsDir \in Held(layout, <<"secret", at>>)
         /\ env \in Environments
         /\ (IF CredentialsDir = None THEN env ELSE CredentialsDir) \in Environments
<1>1. at \in 1..Count(layout) /\ layout \in Layouts
  BY Standing DEF Running
<1>2. cfg \in Held(layout, <<"config", at>>) \cap Configs
  BY <1>1, HeldTypes DEF RunnerInv, ConfigOK
<1>3. files[<<"secret", at>>] \in Held(layout, <<"secret", at>>) \cap Environments
  BY <1>1, FilesHold DEF RunnerInv
<1>4. env \in Environments
  BY DEF RunnerInv, RunnerTypeOK
<1>5. None \notin Environments
  BY RunnerAssumption
<1>6. QED
  BY <1>2, <1>3, <1>4, <1>5 DEF CredentialsDir

LEMMA BuildPluginType ==
  ASSUME RunnerInv, BuildPlugin
  PROVE  RunnerTypeOK'
<1> DEFINE plugin == PluginPayload[cfg.plugin]
           keys == KeysOf(layout.multi, plugin)
           found == readCredential(CredentialsDir, env, keys)
           new == Exported(plugin, keys, CredentialsDir, env)
<1>1. pc = "plugin" /\ cfg.plugin # None
  BY DEF BuildPlugin, Accepted
<1>2. cfg.plugin \in Data /\ layout.multi \in BOOLEAN
  BY <1>1, Sources, Standing DEF Configs
<1>3. keys \in Seq(Keys)
  BY <1>2, KeysAre
<1>4. found \in Values \cup {None}
  BY <1>1, <1>3, Sources, ReadCredentialIs
<1>5. new \in Environments
  BY <1>1, <1>3, Sources, ExportedIs
<1>6. /\ pc' = "stage" /\ env' = new
      /\ cred' = IF plugin.type \in KeyTypes THEN found ELSE None
      /\ UNCHANGED <<layout, at, cfg, todo, staged, registry, routes>>
  BY DEF BuildPlugin
<1> HIDE DEF found, new, plugin, keys
<1>7. cred' \in Values \cup {None} /\ env' \in Environments
  BY <1>4, <1>5, <1>6
<1>8. QED
  BY <1>1, <1>6, <1>7 DEF RunnerInv, RunnerTypeOK

LEMMA StagePromptsType ==
  ASSUME RunnerInv, StagePrompts
  PROVE  RunnerTypeOK'
<1>1. staged' \in [1..Count(layout) -> [Prompts -> Data \cup {Absent}]]
  BY DEF StagePrompts, RunnerInv, RunnerTypeOK, NoPrompts
<1>2. todo' \subseteq Prompts
  BY DEF StagePrompts, FileNames
<1>3. QED
  BY <1>1, <1>2 DEF StagePrompts, RunnerInv, RunnerTypeOK

LEMMA CopyFileType ==
  ASSUME RunnerInv, NEW p \in Prompts, CopyFile(p)
  PROVE  RunnerTypeOK'
<1>1. at \in 1..Count(layout)
  BY Standing DEF CopyFile, Running
<1>2. files[<<"prompts", at>>] \in Texts
  BY <1>1, FilesHold DEF RunnerInv
<1>3. files[<<"prompts", at>>][p] \in Data \cup {Absent}
  BY <1>2 DEF Texts
<1>4. staged \in [1..Count(layout) -> [Prompts -> Data \cup {Absent}]]
  BY DEF RunnerInv, RunnerTypeOK
<1>5. staged' \in [1..Count(layout) -> [Prompts -> Data \cup {Absent}]]
  BY <1>1, <1>3, <1>4 DEF CopyFile
<1>6. QED
  BY <1>5 DEF CopyFile, RunnerInv, RunnerTypeOK

(* The registry InitGenkit adds.                                           *)
LEMMA NewRegistry ==
  ASSUME RunnerInv, InitGenkit
  PROVE  \E new \in Registered :
           /\ registry' = Append(registry, new) /\ new.plugin = cfg.plugin
           /\ new.cred = CredentialOf(PluginPayload[cfg.plugin])
           /\ \A p \in Prompts :
                new.prompts[p] = IF staged[at][p] = Malformed THEN Absent ELSE staged[at][p]
<1> DEFINE c == CredentialOf(PluginPayload[cfg.plugin])
           texts == [p \in Prompts |-> IF staged[at][p] = Malformed THEN Absent ELSE staged[at][p]]
           new == [plugin |-> cfg.plugin, model |-> cfg.model, cred |-> c, prompts |-> texts]
<1>1. pc = "copy" /\ registry' = Append(registry, new)
  BY DEF InitGenkit, CredentialOf
<1>2. at \in 1..Count(layout) /\ layout \in Layouts
  BY <1>1, Standing DEF Running
<1>3. cfg \in Configs /\ cfg.plugin # None
  BY <1>1, <1>2, HeldTypes DEF RunnerInv, ConfigOK
<1>4. cfg.plugin \in Data /\ cfg.model \in Data \cup {None}
  BY <1>3 DEF Configs
<1>5. c \in Environments \cup Values \cup {None}
  BY DEF RunnerInv, RunnerTypeOK, CredentialOf
<1>6. staged[at] \in [Prompts -> Data \cup {Absent}]
  BY <1>2 DEF RunnerInv, RunnerTypeOK
<1> HIDE DEF c
<1>7. texts \in Texts
  BY <1>6 DEF Texts
<1>8. \A p \in Prompts :
        texts[p] = IF staged[at][p] = Malformed THEN Absent ELSE staged[at][p]
  OBVIOUS
<1> HIDE DEF texts
<1>9. new \in Registered
  BY <1>4, <1>5, <1>7 DEF Registered
<1>10. WITNESS new \in Registered
<1>11. QED
  BY <1>1, <1>8 DEF c

LEMMA InitGenkitType ==
  ASSUME RunnerInv, InitGenkit
  PROVE  RunnerTypeOK'
<1>1. PICK new \in Registered : registry' = Append(registry, new)
  BY NewRegistry
<1>2. registry \in Seq(Registered)
  BY DEF RunnerInv, RegistryOK
<1>3. Len(registry') = Len(registry) + 1
  BY <1>1, <1>2
<1>4. at \in 1..Count(layout) /\ Count(layout) \in Nat /\ Len(registry) = at - 1 /\ Len(registry) \in Nat
  BY Standing DEF InitGenkit, Running, RunnerInv, RunnerTypeOK
<1>5. Len(registry') = at
  BY <1>3, <1>4
<1>6. /\ pc' = "route"
      /\ UNCHANGED <<layout, at, cfg, env, cred, todo, staged, routes>>
  BY DEF InitGenkit
<1>7. /\ cfg = None \/ cfg \in [model : Data \cup {None}, plugin : Data \cup {None}]
      /\ env \in Environments /\ cred \in Values \cup {None}
      /\ todo \subseteq Prompts
      /\ staged \in [1..Count(layout) -> [Prompts -> Data \cup {Absent}]]
      /\ \A r \in routes : r.flow \in 1..Len(registry) /\ r.prompt \in Prompts
  BY DEF RunnerInv, RunnerTypeOK
<1>8. \A r \in routes : r.flow \in 1..Len(registry') /\ r.prompt \in Prompts
  BY <1>4, <1>5, <1>7
<1>9. QED
  BY <1>4, <1>5, <1>6, <1>7, <1>8 DEF RunnerTypeOK

(* The routes RegisterRoutes adds.                                         *)
LEMMA NewRoutes ==
  ASSUME RunnerInv, pc = "route"
  PROVE  /\ at \in 1..Count(layout) /\ Len(registry) = at
         /\ \A r \in Served : /\ r = [path |-> IF layout.multi THEN bound.manifest[at].name
                                               ELSE r.prompt,
                                     flow |-> at, prompt |-> r.prompt]
                              /\ r.prompt \in FileNames(registry[at].prompts)
                              /\ r.prompt \in Prompts /\ registry[at].prompts[r.prompt] # Absent
                              /\ layout.multi => r.prompt = bound.manifest[at].entrypoint
         /\ ~layout.multi => \A p \in FileNames(registry[at].prompts) :
                               \E r \in Served : r.prompt = p
<1>1. at \in 1..Count(layout) /\ Len(registry) = at
  BY Standing DEF Running, RunnerInv, RunnerTypeOK
<1> DEFINE known == FileNames(registry[at].prompts)
<1>2. \A p \in known : p \in Prompts /\ registry[at].prompts[p] # Absent
  BY DEF FileNames
<1>3. CASE layout.multi
  <2>1. Served = {[path |-> bound.manifest[at].name, flow |-> at, prompt |-> p] :
                    p \in known \cap {bound.manifest[at].entrypoint}}
    BY <1>3 DEF Served
  <2> HIDE DEF known
  <2>2. QED
    BY <1>1, <1>2, <1>3, <2>1 DEF known
<1>4. CASE ~layout.multi
  <2>1. Served = {[path |-> p, flow |-> at, prompt |-> p] : p \in known}
    BY <1>4 DEF Served
  <2> HIDE DEF known
  <2>2. ASSUME NEW p \in known PROVE \E r \in Served : r.prompt = p
    <3>1. [path |-> p, flow |-> at, prompt |-> p] \in Served
      BY <2>1
    <3>2. QED
      BY <3>1
  <2>3. \A r \in Served : r = [path |-> r.prompt, flow |-> at, prompt |-> r.prompt]
                          /\ r.prompt \in known
    BY <2>1
  <2>4. QED
    BY <1>1, <1>2, <1>4, <2>2, <2>3 DEF known
<1>5. QED
  BY <1>3, <1>4

LEMMA RegisterRoutesType ==
  ASSUME RunnerInv, RegisterRoutes
  PROVE  RunnerTypeOK'
<1>1. /\ pc = "route" /\ routes' = routes \cup Served
      /\ \/ at < Count(layout) /\ pc' = "config" /\ at' = at + 1
         \/ ~(at < Count(layout)) /\ pc' = "listen" /\ at' = at
      /\ UNCHANGED <<layout, cfg, env, cred, todo, staged, registry>>
  BY DEF RegisterRoutes
<1>2. /\ at \in 1..Count(layout) /\ Len(registry) = at
      /\ \A r \in Served : r.flow = at /\ r.prompt \in Prompts
  BY <1>1, NewRoutes
<1>3. Count(layout) \in Nat
  BY Standing
<1>4. /\ \A r \in routes : r.flow \in 1..Len(registry) /\ r.prompt \in Prompts
      /\ cfg = None \/ cfg \in [model : Data \cup {None}, plugin : Data \cup {None}]
      /\ env \in Environments /\ cred \in Values \cup {None}
      /\ todo \subseteq Prompts
      /\ staged \in [1..Count(layout) -> [Prompts -> Data \cup {Absent}]]
  BY DEF RunnerInv, RunnerTypeOK
<1>5. \A r \in routes' : r.flow \in 1..Len(registry') /\ r.prompt \in Prompts
  BY <1>1, <1>2, <1>3, <1>4
<1>6. at' \in 0..Count(layout) /\ Len(registry') = at
  BY <1>1, <1>2, <1>3
<1>7. (pc' = "config" => at = at' - 1) /\ (pc' = "listen" => at = at')
  BY <1>1, <1>2, <1>3
<1>8. QED
  BY <1>1, <1>2, <1>3, <1>4, <1>5, <1>6, <1>7 DEF RunnerTypeOK

LEMMA TypeStep ==
  ASSUME RunnerInv, [RunnerNext]_runnerVars
  PROVE  RunnerTypeOK'
<1>1. ASSUME \/ RefusePlugin \/ EntrypointLost \/ Listen \/ RouteClash \/ Die
             \/ (\E p \in Prompts : CopyFails(p)) \/ Kubelet \/ UNCHANGED runnerVars
      PROVE  RunnerTypeOK'
  BY <1>1 DEF RunnerInv, RunnerTypeOK, RefusePlugin, EntrypointLost, Listen, RouteClash, Die,
              CopyFails, Exit, Kubelet, Refresh, process, runnerVars
<1>2. QED
  BY <1>1, BootType, LoadConfigType, BuildPluginType, StagePromptsType, CopyFileType,
     InitGenkitType, RegisterRoutesType
  DEF RunnerNext, Process

-----------------------------------------------------------------------------
(* What was read is what some side holds.                                  *)

LEMMA BoundStep ==
  ASSUME RunnerInv, [RunnerNext]_runnerVars
  PROVE  BoundOK'
<1>1. layout' = layout
  BY LayoutStays
<1>2. CASE Boot
  <2>1. SUFFICES ASSUME layout.multi PROVE BoundOK'
    BY <1>1 DEF BoundOK
  <2>2. layout \in Layouts /\ FilesOK
    BY DEF RunnerInv, FilesOK
  <2>3. PICK side \in Sides(layout) : files[<<"manifest", 0>>] = Manifest(side.spec)
    <3>1. files[<<"manifest", 0>>] \in Held(layout, <<"manifest", 0>>)
      BY <2>1, <2>2, VolumeNames DEF FilesOK
    <3>2. QED
      BY <2>2, <3>1, VolumeNames DEF Held
  <2>4. \A i \in 1..Count(layout) : files[<<"config", i>>] \in Held(layout, <<"config", i>>)
    BY <2>2, FilesHold
  <2>5. bound' = [manifest |-> files[<<"manifest", 0>>],
                  configs |-> [i \in 1..Count(layout) |-> files[<<"config", i>>]]]
    BY <1>2, <2>1 DEF Boot
  <2>6. /\ bound'.manifest = Manifest(side.spec)
        /\ \A i \in 1..Count(layout) : bound'.configs[i] \in Held(layout, <<"config", i>>)
    BY <2>3, <2>4, <2>5
  <2>7. QED
    BY <1>1, <2>6 DEF BoundOK
<1>3. CASE ~Boot
  <2>1. UNCHANGED bound /\ (Running' => Running)
    BY <1>3 DEF RunnerNext, runnerVars, Process, Kubelet, Refresh, process, LoadConfig, BuildPlugin,
                RefusePlugin, StagePrompts, CopyFile, CopyFails, InitGenkit, RegisterRoutes,
                EntrypointLost, Listen, RouteClash, Die, Exit, Running
  <2>2. QED
    BY <1>1, <2>1 DEF RunnerInv, BoundOK
<1>4. QED
  BY <1>2, <1>3

LEMMA ConfigStep ==
  ASSUME RunnerInv, [RunnerNext]_runnerVars
  PROVE  ConfigOK' /\ ProgressOK'
<1>1. layout' = layout /\ Count(layout) \in Nat /\ Count(layout) >= 1
  BY LayoutStays, Standing
<1>2. CASE LoadConfig
  <2>1. cfg' \in Held(layout, <<"config", at>>) /\ pc' = "plugin" /\ at' = at /\ pc = "config"
    BY <1>2, LoadConfigType DEF LoadConfig
  <2>2. QED
    BY <1>1, <2>1 DEF ConfigOK, ProgressOK, RunnerInv, Running
<1>3. CASE BuildPlugin
  BY <1>1, <1>3 DEF BuildPlugin, Accepted, ConfigOK, ProgressOK, RunnerInv, Running
<1>4. CASE RegisterRoutes
  <2>1. at \in 1..Count(layout) /\ pc' \in {"config", "listen"}
    BY <1>4, NewRoutes DEF RegisterRoutes
  <2>2. at' \in Nat /\ at' >= 1 /\ (pc' = "listen" => at' = Count(layout))
    BY <1>1, <1>4, <2>1 DEF RegisterRoutes
  <2>3. QED
    BY <1>1, <2>1, <2>2 DEF ConfigOK, ProgressOK, Running
<1>5. CASE Boot
  BY <1>1, <1>5 DEF Boot, ConfigOK, ProgressOK, Running
<1>6. CASE StagePrompts \/ (\E p \in Prompts : CopyFile(p)) \/ InitGenkit
  BY <1>1, <1>6 DEF StagePrompts, CopyFile, InitGenkit, ConfigOK, ProgressOK, RunnerInv, Running
<1>7. CASE \/ RefusePlugin \/ EntrypointLost \/ Listen \/ RouteClash \/ Die
           \/ (\E p \in Prompts : CopyFails(p)) \/ Kubelet \/ UNCHANGED runnerVars
  BY <1>1, <1>7 DEF RefusePlugin, EntrypointLost, Listen, RouteClash, Die, CopyFails, Exit, Kubelet,
              Refresh, process, runnerVars, ConfigOK, ProgressOK, RunnerInv, Running
<1>8. QED
  BY <1>2, <1>3, <1>4, <1>5, <1>6, <1>7 DEF RunnerNext, Process

LEMMA StagingStep ==
  ASSUME RunnerInv, [RunnerNext]_runnerVars
  PROVE  StagingOK'
<1>1. layout' = layout
  BY LayoutStays
<1> DEFINE dir == files[<<"prompts", at>>]
           texts(p) == {Volume(layout, side, <<"prompts", at>>)[p] : side \in Sides(layout)}
<1>2. ASSUME Running
      PROVE  /\ dir \in Texts /\ \A p \in Prompts : dir[p] \in texts(p)
             /\ at \in 1..Count(layout)
             /\ staged \in [1..Count(layout) -> [Prompts -> Data \cup {Absent}]]
  <2>1. at \in 1..Count(layout)
    BY <1>2, Standing
  <2>2. dir \in Held(layout, <<"prompts", at>>) \cap Texts
    BY <2>1, FilesHold DEF RunnerInv
  <2>3. QED
    BY <2>1, <2>2 DEF Held, RunnerInv, RunnerTypeOK
<1>3. CASE StagePrompts
  <2>1. /\ pc' = "copy" /\ at' = at /\ todo' = FileNames(dir)
        /\ staged' = [staged EXCEPT ![at] = NoPrompts] /\ Running
    BY <1>3 DEF StagePrompts, Running
  <2>2. ASSUME NEW p \in Prompts \ todo' PROVE staged'[at][p] \in texts(p)
    <3>1. dir[p] = Absent
      BY <2>1, <2>2 DEF FileNames
    <3>2. staged'[at][p] = Absent
      BY <1>2, <2>1 DEF NoPrompts
    <3> HIDE DEF texts, dir
    <3>3. QED
      BY <1>2, <2>1, <3>1, <3>2
  <2>3. QED
    BY <1>1, <2>1, <2>2 DEF StagingOK
<1>4. ASSUME NEW q \in Prompts, CopyFile(q) PROVE StagingOK'
  <2>1. /\ pc = "copy" /\ at' = at /\ todo' = todo \ {q} /\ Running
        /\ staged' = [staged EXCEPT ![at][q] = dir[q]]
    BY <1>4 DEF CopyFile, Running
  <2>2. ASSUME NEW p \in Prompts \ todo' PROVE staged'[at][p] \in texts(p)
    <3>1. CASE p = q
      <4>1. staged'[at][q] = dir[q]
        BY <1>2, <2>1
      <4> HIDE DEF texts, dir
      <4>2. QED
        BY <1>2, <2>1, <3>1, <4>1
    <3>2. CASE p # q
      <4>1. staged'[at][p] = staged[at][p]
        BY <1>2, <2>1, <3>2
      <4>2. p \in Prompts \ todo
        BY <2>1, <2>2, <3>2
      <4>3. QED
        BY <2>1, <4>1, <4>2 DEF RunnerInv, StagingOK
    <3>3. QED
      BY <3>1, <3>2
  <2>3. QED
    BY <1>1, <2>1, <2>2 DEF StagingOK
<1>5. CASE UNCHANGED <<pc, at, todo, staged>>
  BY <1>1, <1>5 DEF RunnerInv, StagingOK
<1>6. CASE pc' # "copy"
  BY <1>6 DEF StagingOK
<1>7. QED
  BY <1>3, <1>4, <1>5, <1>6
  DEF RunnerNext, runnerVars, Process, Kubelet, Refresh, process, Boot, LoadConfig, BuildPlugin,
      RefusePlugin, CopyFails, InitGenkit, RegisterRoutes, EntrypointLost, Listen, RouteClash, Die,
      Exit

-----------------------------------------------------------------------------
(* Credentials and prompts are the flow's own.                             *)

(* The same, where a Secret is mounted.                                    *)
LEMMA FoundInDir ==
  ASSUME NEW dir \in Environments, NEW e, NEW keys \in Seq(Keys),
         \E j \in DOMAIN keys : dir[keys[j]] # None
  PROVE  /\ readCredential(dir, e, keys) # None
         /\ \E j \in DOMAIN keys : readCredential(dir, e, keys) = dir[keys[j]]
<1>1. dir = IF dir = None THEN e ELSE dir
  BY RunnerAssumption
<1>2. QED
  BY <1>1, ReadCredentialIs

LEMMA ExportedFromDir ==
  ASSUME NEW plugin, NEW keys \in Seq(Keys), NEW e \in Environments, NEW dir \in Environments,
         NEW new, new = Exported(plugin, keys, dir, e)
  PROVE  /\ plugin.type = "bedrock" =>
              \A j \in DOMAIN keys : dir[keys[j]] # None => new[keys[j]] = dir[keys[j]]
         /\ plugin.type = "vertexai" /\ (\E j \in DOMAIN keys : dir[keys[j]] # None) =>
              \E j \in DOMAIN keys : dir[keys[j]] # None /\ new[AdcKey] = dir[keys[j]]
<1>1. dir # None
  BY RunnerAssumption
<1>2. QED
  BY <1>1, ExportedIs

LEMMA BuiltPluginOwns ==
  ASSUME NEW l \in Layouts, NEW i \in 1..Count(l), NEW plugin \in Plugin,
         NEW keys \in Seq(Keys), keys = KeysOf(TRUE, plugin),
         plugin.type = "vertexai" => 1 \in DOMAIN keys,
         NEW dir \in Held(l, <<"secret", i>>), NEW e \in Environments,
         Builds(plugin, keys, dir, e),
         NEW c, c = IF plugin.type \in {"bedrock", "vertexai"} THEN Exported(plugin, keys, dir, e)
                    ELSE IF plugin.type \in KeyTypes THEN readCredential(dir, e, keys)
                    ELSE None
  PROVE  Owns(l, i, plugin, c)
<1> DEFINE held(k) == {Volume(l, side, <<"secret", i>>)[k] : side \in Sides(l)}
           own == UNION {held(keys[j]) : j \in DOMAIN keys}
<1>1. dir \in Environments /\ dir # None
  BY HeldTypes, RunnerAssumption
<1>2. \A k : dir[k] \in held(k)
  BY DEF Held
<1>3. Owns(l, i, plugin, c) <=>
        CASE plugin.type \in KeyTypes -> c \in own \ {None}
          [] plugin.type = "bedrock" ->
               \A j \in DOMAIN keys : None \notin held(keys[j]) => c[keys[j]] \in held(keys[j])
          [] plugin.type = "vertexai" -> None \notin own => c[AdcKey] \in own
          [] OTHER -> TRUE
  BY DEF Owns
<1> HIDE DEF held
<1>4. ASSUME NEW j \in DOMAIN keys PROVE dir[keys[j]] \in own
  <2>1. dir[keys[j]] \in held(keys[j])
    BY <1>2
  <2>2. QED
    BY <2>1
<1> HIDE DEF own
<1>5. keys \in Seq(Keys) /\ dir \in Environments /\ e \in Environments
  BY <1>1
<1>6. CASE plugin.type \in KeyTypes
  <2>1. \E j \in DOMAIN keys : dir[keys[j]] # None
    BY <1>1, <1>6, BuildsIff
  <2>2. plugin.type \notin {"bedrock", "vertexai"}
    BY <1>6 DEF KeyTypes
  <2>3. c = readCredential(dir, e, keys)
    BY <1>6, <2>2
  <2>4. /\ readCredential(dir, e, keys) # None
        /\ \E j \in DOMAIN keys : readCredential(dir, e, keys) = dir[keys[j]]
    BY ONLY <1>5, <2>1, FoundInDir
  <2>5. c \in own \ {None}
    BY <1>4, <2>3, <2>4
  <2>6. QED
    BY <1>3, <1>6, <2>2, <2>5
<1>7. CASE plugin.type = "bedrock"
  <2>1. c = Exported(plugin, keys, dir, e)
    BY <1>7
  <2>2. \A j \in DOMAIN keys : dir[keys[j]] # None => c[keys[j]] = dir[keys[j]]
    BY ONLY <1>7, <1>5, <2>1, ExportedFromDir
  <2>3. ASSUME NEW j \in DOMAIN keys, None \notin held(keys[j])
        PROVE  c[keys[j]] \in held(keys[j])
    <3>1. dir[keys[j]] \in held(keys[j])
      BY <1>2
    <3>2. QED
      BY <2>2, <2>3, <3>1
  <2>4. plugin.type \notin KeyTypes
    BY <1>7 DEF KeyTypes
  <2>5. QED
    BY <1>3, <1>7, <2>3, <2>4
<1>8. CASE plugin.type = "vertexai"
  <2>1. c = Exported(plugin, keys, dir, e)
    BY <1>8
  <2>2. ASSUME None \notin own PROVE c[AdcKey] \in own
    <3>1. 1 \in DOMAIN keys
      BY <1>8
    <3>2. dir[keys[1]] # None
      BY <1>4, <2>2, <3>1
    <3>3. \E j \in DOMAIN keys : dir[keys[j]] # None /\ c[AdcKey] = dir[keys[j]]
      BY ONLY <1>8, <1>5, <2>1, <3>1, <3>2, ExportedFromDir
    <3>4. QED
      BY <1>4, <3>3
  <2>3. plugin.type \notin KeyTypes /\ plugin.type # "bedrock"
    BY <1>8 DEF KeyTypes
  <2>4. QED
    BY <1>3, <1>8, <2>2, <2>3
<1>9. CASE plugin.type \notin KeyTypes \cup {"bedrock", "vertexai"}
  BY <1>3, <1>9
<1>10. QED
  BY <1>6, <1>7, <1>8, <1>9

LEMMA CredentialStep ==
  ASSUME RunnerInv, [RunnerNext]_runnerVars
  PROVE  CredentialOK'
<1>1. layout' = layout
  BY LayoutStays
<1>2. CASE BuildPlugin
  <2>1. SUFFICES ASSUME layout.multi PROVE CredentialOK'
    BY <1>1 DEF CredentialOK
  <2> DEFINE d == cfg.plugin
             keys == KeysOf(TRUE, PluginPayload[d])
             dir == CredentialsDir
  <2>2. pc = "plugin" /\ at \in 1..Count(layout) /\ layout \in Layouts /\ layout.multi = TRUE
    BY <1>2, <2>1, Standing DEF BuildPlugin, Running
  <2>3. d \in Data /\ dir \in Held(layout, <<"secret", at>>) /\ env \in Environments
    BY <1>2, <2>1, <2>2, Sources DEF Configs, BuildPlugin, Accepted
  <2>4. Builds(PluginPayload[d], keys, dir, env)
    BY <1>2, <2>2 DEF BuildPlugin, Accepted
  <2>5. /\ env' = Exported(PluginPayload[d], keys, dir, env)
        /\ cred' = IF PluginPayload[d].type \in KeyTypes
                   THEN readCredential(dir, env, keys) ELSE None
        /\ at' = at /\ cfg' = cfg
    BY <1>2, <2>2 DEF BuildPlugin
  <2> HIDE DEF d, keys, dir
  <2>6. PICK c : c = IF PluginPayload[d].type \in {"bedrock", "vertexai"} THEN env' ELSE cred'
    OBVIOUS
  <2>7. c = IF PluginPayload[d].type \in {"bedrock", "vertexai"}
            THEN Exported(PluginPayload[d], keys, dir, env)
            ELSE IF PluginPayload[d].type \in KeyTypes THEN readCredential(dir, env, keys) ELSE None
    BY <2>5, <2>6
  <2>8. Owns(layout, at, PluginPayload[d], c)
    <3>1. /\ PluginPayload[d] \in Plugin /\ keys \in Seq(Keys)
          /\ PluginPayload[d].type = "vertexai" => 1 \in DOMAIN keys
      BY <2>3, KeysAre DEF keys
    <3>2. keys = KeysOf(TRUE, PluginPayload[d])
      BY DEF keys
    <3>3. QED
      BY <2>2, <2>3, <2>4, <2>7, <3>1, <3>2, BuiltPluginOwns
  <2>9. CredentialOf(PluginPayload[cfg.plugin])' = c
    BY <2>5, <2>6 DEF CredentialOf, d
  <2>10. QED
    BY <1>1, <2>5, <2>8, <2>9 DEF CredentialOK, d
<1>3. CASE StagePrompts \/ (\E p \in Prompts : CopyFile(p)) \/ Kubelet \/ UNCHANGED runnerVars
  <2>1. /\ UNCHANGED <<at, env, cred, cfg>>
        /\ pc' \in {"stage", "copy"} => pc \in {"stage", "copy"}
    BY <1>3 DEF StagePrompts, CopyFile, Kubelet, Refresh, process, runnerVars
  <2>2. QED
    BY <1>1, <2>1 DEF RunnerInv, CredentialOK, CredentialOf
<1>4. CASE pc' \notin {"stage", "copy"}
  BY <1>4 DEF CredentialOK
<1>5. QED
  BY <1>2, <1>3, <1>4
  DEF RunnerNext, Process, Boot, LoadConfig, RefusePlugin, CopyFails, InitGenkit, RegisterRoutes,
      EntrypointLost, Listen, RouteClash, Die, Exit

LEMMA RegistryStep ==
  ASSUME RunnerInv, [RunnerNext]_runnerVars
  PROVE  RegistryOK'
<1>1. layout' = layout
  BY LayoutStays
<1>2. CASE UNCHANGED registry
  BY <1>1, <1>2 DEF RunnerInv, RegistryOK, OwnCredentials
<1>3. CASE Boot
  <2>1. registry' = <<>>
    BY <1>3 DEF Boot
  <2>2. registry' \in Seq(Registered) /\ Len(registry') = 0
    BY <2>1
  <2>3. QED
    BY <2>2 DEF RegistryOK, OwnCredentials
<1>4. CASE InitGenkit
  <2>1. PICK new \in Registered :
          /\ registry' = Append(registry, new) /\ new.plugin = cfg.plugin
          /\ new.cred = CredentialOf(PluginPayload[cfg.plugin])
          /\ \A p \in Prompts :
               new.prompts[p] = IF staged[at][p] = Malformed THEN Absent ELSE staged[at][p]
    BY <1>4, NewRegistry
  <2>2. /\ registry \in Seq(Registered) /\ at \in 1..Count(layout) /\ Count(layout) \in Nat
        /\ Len(registry) = at - 1 /\ pc = "copy" /\ todo = {}
    BY <1>4, Standing DEF RunnerInv, RegistryOK, InitGenkit, Running, RunnerTypeOK
  <2>3. /\ registry' \in Seq(Registered) /\ Len(registry') = at /\ registry'[at] = new
        /\ \A i \in 1..Len(registry') : i = at \/ (i \in 1..Len(registry) /\ registry'[i] = registry[i])
    BY <2>1, <2>2
  <2>4. ASSUME NEW p \in Prompts PROVE new.prompts[p] \in PromptsOf(layout, at, p)
    <3>1. PICK side \in Sides(layout) : staged[at][p] = Volume(layout, side, <<"prompts", at>>)[p]
      BY <2>2 DEF RunnerInv, StagingOK
    <3>2. new.prompts[p] = IF Volume(layout, side, <<"prompts", at>>)[p] = Malformed THEN Absent
                           ELSE Volume(layout, side, <<"prompts", at>>)[p]
      BY <2>1, <3>1
    <3>3. QED
      BY <3>2 DEF PromptsOf
  <2>5. layout.multi => Owns(layout, at, PluginPayload[new.plugin], new.cred)
    BY <2>1, <2>2 DEF RunnerInv, CredentialOK
  <2>6. \A i \in 1..Len(registry) :
          /\ \A p \in Prompts : registry[i].prompts[p] \in PromptsOf(layout, i, p)
          /\ layout.multi => Owns(layout, i, PluginPayload[registry[i].plugin], registry[i].cred)
    BY DEF RunnerInv, RegistryOK, OwnCredentials
  <2>7. ASSUME NEW i \in 1..Len(registry')
        PROVE  /\ \A p \in Prompts : registry'[i].prompts[p] \in PromptsOf(layout, i, p)
               /\ layout.multi => Owns(layout, i, PluginPayload[registry'[i].plugin], registry'[i].cred)
    BY <2>3, <2>4, <2>5, <2>6
  <2>8. QED
    BY <1>1, <2>3, <2>7 DEF RegistryOK, OwnCredentials
<1>5. QED
  BY <1>2, <1>3, <1>4
  DEF RunnerNext, runnerVars, process, Process, Kubelet, Refresh, LoadConfig, BuildPlugin, RefusePlugin,
      StagePrompts, CopyFile, CopyFails, RegisterRoutes, EntrypointLost, Listen, RouteClash, Die, Exit

-----------------------------------------------------------------------------
(* Routes.                                                                 *)

LEMMA RegisterRoutesStep ==
  ASSUME RunnerInv, RegisterRoutes
  PROVE  RoutesOK'
<1>1. /\ pc = "route" /\ ~Lost /\ routes' = routes \cup Served
      /\ \/ at < Count(layout) /\ pc' = "config" /\ at' = at + 1
         \/ ~(at < Count(layout)) /\ pc' = "listen" /\ at' = at
      /\ UNCHANGED <<layout, bound, registry>>
  BY DEF RegisterRoutes
<1>2. /\ at \in 1..Count(layout) /\ layout \in Layouts /\ layout.multi \in BOOLEAN
      /\ Count(layout) \in Nat /\ Running /\ Running'
  BY <1>1, Standing DEF Running
<1>3. Routed = at - 1 /\ Routed' = at
  BY <1>1, <1>2 DEF Routed
<1>4. ASSUME NEW r \in Served
      PROVE  /\ r = [path |-> PathOf(r.flow, r.prompt), flow |-> r.flow, prompt |-> r.prompt]
             /\ registry[r.flow].prompts[r.prompt] # Absent /\ r.flow = at
             /\ layout.multi => r.prompt = bound.manifest[r.flow].entrypoint
  <2>1. /\ r = [path |-> IF layout.multi THEN bound.manifest[at].name ELSE r.prompt,
                flow |-> at, prompt |-> r.prompt]
        /\ registry[at].prompts[r.prompt] # Absent
        /\ layout.multi => r.prompt = bound.manifest[at].entrypoint
    BY <1>1, NewRoutes
  <2>2. r.flow = at
    BY <2>1
  <2>3. layout.multi => bound.manifest[at].name = FlowAt(layout, layout.before, at).name
    <3>1. SUFFICES ASSUME layout.multi
                   PROVE  bound.manifest[at].name = FlowAt(layout, layout.before, at).name
      OBVIOUS
    <3>2. PICK side \in Sides(layout) : bound.manifest = Manifest(side.spec)
      BY <1>2, <3>1 DEF RunnerInv, BoundOK
    <3>3. Manifest(side.spec)[at].name = FlowAt(layout, layout.before, at).name
      <4>1. layout.multi = TRUE
        BY <1>2, <3>1
      <4>2. QED
        BY <1>2, <4>1, ManifestMeans
    <3>4. QED
      BY <3>2, <3>3
  <2>4. (IF layout.multi THEN bound.manifest[at].name ELSE r.prompt) = PathOf(at, r.prompt)
    BY <2>3 DEF PathOf
  <2>5. QED
    BY <2>1, <2>2, <2>4
<1>5. ASSUME NEW r \in routes
      PROVE  /\ r = [path |-> PathOf(r.flow, r.prompt), flow |-> r.flow, prompt |-> r.prompt]
             /\ registry[r.flow].prompts[r.prompt] # Absent
             /\ r.flow \in Nat /\ r.flow <= at
             /\ layout.multi => r.prompt = bound.manifest[r.flow].entrypoint
  <2>1. /\ r = [path |-> PathOf(r.flow, r.prompt), flow |-> r.flow, prompt |-> r.prompt]
        /\ registry[r.flow].prompts[r.prompt] # Absent /\ r.flow <= Routed
        /\ layout.multi => r.prompt = bound.manifest[r.flow].entrypoint
    BY <1>2 DEF RunnerInv, RoutesOK
  <2>2. r.flow \in Nat
    BY Standing DEF RunnerInv, RunnerTypeOK
  <2>3. r.flow <= at
    BY <1>2, <1>3, <2>1, <2>2
  <2>4. QED
    BY <2>1, <2>2, <2>3
<1>6. \A r \in routes' :
        /\ r = [path |-> PathOf(r.flow, r.prompt), flow |-> r.flow, prompt |-> r.prompt]
        /\ registry[r.flow].prompts[r.prompt] # Absent /\ r.flow <= at
        /\ layout.multi => r.prompt = bound.manifest[r.flow].entrypoint
  BY <1>1, <1>2, <1>4, <1>5
<1>7. ASSUME layout.multi, NEW i \in 1..at PROVE \E r \in routes' : r.flow = i
  <2>1. CASE i = at
    <3>1. PICK r \in Served : TRUE
      BY <1>1, <1>7 DEF Lost
    <3>2. r \in routes' /\ r.flow = i
      BY <1>1, <1>4, <2>1
    <3>3. QED
      BY <3>2
  <2>2. CASE i # at
    <3>1. i \in 1..Routed
      BY <1>2, <1>3, <2>2
    <3>2. QED
      BY <1>1, <1>2, <1>7, <3>1 DEF RunnerInv, RoutesOK
  <2>3. QED
    BY <2>1, <2>2
<1>8. ASSUME ~layout.multi, NEW i \in 1..at, NEW p \in FileNames(registry[i].prompts)
      PROVE  \E r \in routes' : r.prompt = p
  <2>1. i = at
    BY <1>2, <1>8, Standing
  <2>2. \E r \in Served : r.prompt = p
    BY <1>1, <1>8, <2>1, NewRoutes
  <2>3. QED
    BY <1>1, <2>2
<1>9. \A i, p : PathOf(i, p)' = PathOf(i, p)
  BY <1>1 DEF PathOf
<1>10. QED
  BY <1>1, <1>2, <1>3, <1>6, <1>7, <1>8, <1>9 DEF RoutesOK, PathOf, FileNames

LEMMA RoutesStep ==
  ASSUME RunnerInv, [RunnerNext]_runnerVars
  PROVE  RoutesOK'
<1>1. layout' = layout
  BY LayoutStays
<1>2. CASE RegisterRoutes
  BY <1>2, RegisterRoutesStep
<1>3. CASE Boot
  <2>1. routes' = {} /\ Routed' = 0
    BY <1>3 DEF Boot, Routed
  <2>2. QED
    BY <2>1 DEF RoutesOK
<1>4. CASE InitGenkit
  <2>1. PICK new \in Registered : registry' = Append(registry, new)
    BY <1>4, NewRegistry
  <2>2. /\ registry \in Seq(Registered) /\ at \in Nat /\ Len(registry) = at - 1
        /\ Running /\ Running' /\ Routed' = Routed /\ Routed = at - 1
        /\ UNCHANGED <<routes, bound>>
        /\ \A r \in routes : r.flow \in 1..Len(registry)
    BY <1>4, Standing DEF RunnerInv, RegistryOK, InitGenkit, Running, Routed, RunnerTypeOK
  <2>3. \A i \in 1..Len(registry) : registry'[i] = registry[i]
    BY <2>1, <2>2
  <2>4. \A i \in 1..Routed : registry'[i] = registry[i]
    BY <2>2, <2>3
  <2>5. QED
    BY <1>1, <2>2, <2>3, <2>4 DEF RunnerInv, RoutesOK, PathOf
<1>5. CASE UNCHANGED <<routes, registry, bound>> /\ (Running' => Running /\ Routed' = Routed)
  BY <1>1, <1>5 DEF RunnerInv, RoutesOK, PathOf
<1>6. QED
  BY <1>2, <1>3, <1>4, <1>5
  DEF RunnerNext, runnerVars, process, Process, Kubelet, Refresh, LoadConfig, BuildPlugin, RefusePlugin,
      StagePrompts, CopyFile, CopyFails, EntrypointLost, Listen, RouteClash, Die, Exit, Running,
      Routed

-----------------------------------------------------------------------------
(* A Pod whose volumes stay as they are.                                   *)

LEMMA FixedFiles ==
  ASSUME RunnerInv, layout.before = layout.after
  PROVE  /\ Sides(layout) = {layout.after}
         /\ \A v : Held(layout, v) = {Volume(layout, layout.after, v)}
         /\ \A v \in Volumes(layout) : files[v] = Volume(layout, layout.after, v)
         /\ \A i \in 1..Count(layout) :
              /\ files[<<"prompts", i>>] = Volume(layout, layout.after, <<"prompts", i>>)
              /\ files[<<"config", i>>] = Volume(layout, layout.after, <<"config", i>>)
              /\ files[<<"secret", i>>] = Volume(layout, layout.after, <<"secret", i>>)
<1>1. Sides(layout) = {layout.after}
  BY DEF Sides
<1>2. \A v : Held(layout, v) = {Volume(layout, layout.after, v)}
  BY <1>1 DEF Held
<1>3. \A v \in Volumes(layout) : files[v] = Volume(layout, layout.after, v)
  BY <1>2 DEF RunnerInv, FilesOK
<1>4. QED
  BY <1>1, <1>2, <1>3, Standing, VolumeNames

(* What is refused is what Buildable refuses.                              *)
LEMMA AcceptedIffBuildable ==
  ASSUME RunnerInv, pc = "plugin", layout.before = layout.after
  PROVE  Accepted <=> Buildable(layout, layout.after, at)
<1>1. at \in 1..Count(layout) /\ layout.multi \in BOOLEAN /\ (~layout.multi => at = 1)
  BY Standing DEF Running
<1> DEFINE config == Volume(layout, layout.after, <<"config", at>>)
           secret == Volume(layout, layout.after, <<"secret", at>>)
           plugin == PluginPayload[cfg.plugin]
           keys == KeysOf(layout.multi, plugin)
           source == IF layout.multi THEN secret ELSE ContainerEnv(layout, secret)
<1>2. cfg = config /\ cfg \in Configs
  BY FixedFiles, Sources
<1>3. source = (IF CredentialsDir = None THEN env ELSE CredentialsDir) /\ source \in Environments
  <2>1. CredentialsDir # None <=> layout.multi
    BY Sources
  <2>2. layout.multi => CredentialsDir = secret
    BY <1>1, FixedFiles DEF CredentialsDir
  <2>3. ~layout.multi => env = ContainerEnv(layout, secret)
    BY <1>1 DEF RunnerInv, FixedOK
  <2>4. (IF CredentialsDir = None THEN env ELSE CredentialsDir) \in Environments
    BY Sources
  <2> HIDE DEF secret
  <2>5. QED
    BY <1>1, <2>1, <2>2, <2>3, <2>4
<1>4. Buildable(layout, layout.after, at) <=>
        /\ cfg.plugin # None
        /\ plugin.type \in KeyTypes \cup {"ollama", "vertexai", "bedrock"}
        /\ plugin.type \in KeyTypes => \E j \in DOMAIN keys : source[keys[j]] # None
        /\ plugin.type = "ollama" => plugin.extra
        /\ plugin.type = "azureaifoundry" => plugin.extra \/ source[EndpointKey] # None
  BY <1>2 DEF Buildable
<1>5. Accepted <=> cfg.plugin # None /\ Builds(plugin, keys, CredentialsDir, env)
  BY DEF Accepted
<1>6. ASSUME cfg.plugin # None PROVE plugin \in Plugin /\ keys \in Seq(Keys)
  <2>1. cfg.plugin \in Data
    BY <1>2, <1>6 DEF Configs
  <2>2. QED
    BY <1>1, <2>1, KeysAre
<1> HIDE DEF config, secret, plugin, keys, source
<1>7. ASSUME cfg.plugin # None
      PROVE  Builds(plugin, keys, CredentialsDir, env) <=>
               /\ plugin.type \in KeyTypes \cup {"ollama", "vertexai", "bedrock"}
               /\ plugin.type \in KeyTypes => \E j \in DOMAIN keys : source[keys[j]] # None
               /\ plugin.type = "ollama" => plugin.extra
               /\ plugin.type = "azureaifoundry" => plugin.extra \/ source[EndpointKey] # None
  BY <1>3, <1>6, <1>7, BuildsIff
<1>8. QED
  BY <1>4, <1>5, <1>7

(* What is registered is what can be parsed.                               *)
LEMMA RegisteredIffParsed ==
  ASSUME RunnerInv, layout.before = layout.after, NEW i \in 1..Len(registry), NEW p \in Prompts
  PROVE  registry[i].prompts[p] # Absent <=> p \in Parsed(layout, layout.after, i)
<1> DEFINE text == Volume(layout, layout.after, <<"prompts", i>>)[p]
<1>1. registry[i].prompts[p] \in PromptsOf(layout, i, p)
  BY DEF RunnerInv, RegistryOK
<1>2. registry[i].prompts[p] = IF text = Malformed THEN Absent ELSE text
  BY <1>1, FixedFiles DEF PromptsOf
<1>3. p \in Parsed(layout, layout.after, i) <=> text \notin {Absent, Malformed}
  BY DEF Parsed
<1>4. QED
  BY <1>2, <1>3

(* A set's entrypoints are those of its spec.                              *)
LEMMA EntrypointIs ==
  ASSUME RunnerInv, layout.before = layout.after, layout.multi, Running, NEW i \in 1..Count(layout)
  PROVE  /\ bound.manifest[i].entrypoint = layout.after.spec.flows[i].prompts[1].name
         /\ FlowAt(layout, layout.before, i).name = layout.after.spec.flows[i].name
<1>1. bound.manifest = Manifest(layout.after.spec)
  BY FixedFiles DEF RunnerInv, BoundOK
<1>2. layout \in Layouts /\ layout.after \in Sides(layout) /\ layout.multi = TRUE
  BY Standing, LayoutMeans
<1>3. Manifest(layout.after.spec)[i].entrypoint = layout.after.spec.flows[i].prompts[1].name
  BY <1>2, ManifestMeans
<1>4. QED
  BY <1>1, <1>3 DEF FlowAt

LEMMA RefusesRightly ==
  ASSUME RunnerInv, layout.before = layout.after,
         RefusePlugin \/ EntrypointLost \/ RouteClash
  PROVE  ~Startable(layout, layout.after)
<1>1. CASE RefusePlugin
  <2>1. at \in 1..Count(layout) /\ ~Buildable(layout, layout.after, at)
    BY <1>1, Standing, AcceptedIffBuildable DEF RefusePlugin, Running
  <2>2. QED
    BY <2>1 DEF Startable
<1>2. CASE EntrypointLost
  <2> DEFINE entrypoint == layout.after.spec.flows[at].prompts[1].name
  <2>1. pc = "route" /\ layout.multi /\ Served = {} /\ Running
    BY <1>2 DEF EntrypointLost, Lost, Running
  <2>2. at \in 1..Count(layout) /\ Len(registry) = at /\ at \in 1..Len(registry)
    BY <2>1, NewRoutes
  <2>3. bound.manifest[at].entrypoint = entrypoint
    BY <2>1, <2>2, EntrypointIs
  <2> HIDE DEF entrypoint
  <2>4. entrypoint \notin FileNames(registry[at].prompts)
    BY <2>1, <2>3 DEF Served
  <2>5. entrypoint \notin Parsed(layout, layout.after, at)
    <3>1. SUFFICES ASSUME entrypoint \in Prompts
                   PROVE  entrypoint \notin Parsed(layout, layout.after, at)
      BY DEF Parsed
    <3>2. registry[at].prompts[entrypoint] = Absent
      BY <2>4, <3>1 DEF FileNames
    <3>3. QED
      BY <2>2, <3>1, <3>2, RegisteredIffParsed
  <2>6. QED
    BY <2>1, <2>2, <2>5 DEF Startable, entrypoint
<1>3. CASE RouteClash
  <2>1. PICK r \in routes : r.path \in Reserved
    BY <1>3 DEF RouteClash, Clash
  <2>2. /\ pc = "listen" /\ Running /\ r.flow \in 1..Len(registry) /\ Len(registry) = at
        /\ at = Count(layout) /\ r.prompt \in Prompts
        /\ r.path = PathOf(r.flow, r.prompt) /\ registry[r.flow].prompts[r.prompt] # Absent
    BY <1>3 DEF RouteClash, Running, RunnerInv, RunnerTypeOK, RoutesOK, ProgressOK
  <2>3. r.prompt \in Parsed(layout, layout.after, r.flow)
    BY <2>2, RegisteredIffParsed
  <2>4. CASE layout.multi
    <3>1. r.path = layout.after.spec.flows[r.flow].name
      BY <2>2, <2>4, EntrypointIs DEF PathOf
    <3>2. QED
      BY <2>1, <2>2, <2>4, <3>1 DEF Startable
  <2>5. CASE ~layout.multi
    <3>1. r.path = r.prompt /\ r.flow = 1
      BY <2>2, <2>5, Standing DEF PathOf
    <3>2. QED
      BY <2>1, <2>3, <2>5, <3>1 DEF Startable
  <2>6. QED
    BY <2>4, <2>5
<1>4. QED
  BY <1>1, <1>2, <1>3

LEMMA FixedStep ==
  ASSUME RunnerInv, [RunnerNext]_runnerVars
  PROVE  FixedOK'
<1>1. layout' = layout
  BY LayoutStays
<1>2. SUFFICES ASSUME layout.before = layout.after
               PROVE  /\ Running' => \A i \in 1..Plugged' : Buildable(layout, layout.after, i)
                      /\ pc' \in {"config", "plugin"} /\ ~layout.multi =>
                           env' = ContainerEnv(layout, Volume(layout, layout.after, <<"secret", 1>>))
                      /\ pc' = "copy" =>
                           todo' \subseteq FileNames(Volume(layout, layout.after, <<"prompts", at'>>))
                      /\ pc' = "listening" => ~Clash'
                      /\ pc' = "exited" => ~Startable(layout, layout.after)
  BY <1>1 DEF FixedOK
<1>3. /\ Running => \A i \in 1..Plugged : Buildable(layout, layout.after, i)
      /\ pc \in {"config", "plugin"} /\ ~layout.multi =>
           env = ContainerEnv(layout, Volume(layout, layout.after, <<"secret", 1>>))
      /\ pc = "copy" => todo \subseteq FileNames(Volume(layout, layout.after, <<"prompts", at>>))
      /\ pc = "listening" => ~Clash
      /\ pc = "exited" => ~Startable(layout, layout.after)
  BY <1>2 DEF RunnerInv, FixedOK
<1>4. CASE Boot
  <2>1. /\ pc' = "config" /\ at' = 1 /\ env' = ContainerEnv(layout, files[<<"secret", 1>>])
    BY <1>4 DEF Boot
  <2>2. files[<<"secret", 1>>] = Volume(layout, layout.after, <<"secret", 1>>)
    <3>1. 1 \in 1..Count(layout)
      BY Standing
    <3>2. QED
      BY <1>2, <3>1, FixedFiles
  <2>3. Plugged' = 0
    BY <2>1 DEF Plugged
  <2>4. \A i \in 1..Plugged' : FALSE
    BY <2>3
  <2>5. QED
    BY <2>1, <2>2, <2>4
<1>5. CASE BuildPlugin
  <2>1. /\ pc = "plugin" /\ pc' = "stage" /\ at' = at /\ Accepted /\ Running
    BY <1>5 DEF BuildPlugin, Running
  <2>2. Buildable(layout, layout.after, at) /\ at \in Nat
    BY <1>2, <2>1, AcceptedIffBuildable, Standing
  <2>3. Plugged' = at /\ Plugged = at - 1
    BY <2>1 DEF Plugged
  <2>4. \A i \in 1..Plugged' : i = at \/ i \in 1..Plugged
    BY <2>2, <2>3
  <2>5. QED
    BY <1>3, <2>1, <2>2, <2>4
<1>6. CASE StagePrompts
  <2>1. /\ pc = "stage" /\ pc' = "copy" /\ at' = at /\ Running
        /\ todo' = FileNames(files[<<"prompts", at>>])
    BY <1>6 DEF StagePrompts, Running
  <2>2. files[<<"prompts", at>>] = Volume(layout, layout.after, <<"prompts", at>>)
    BY <1>2, <2>1, Standing, FixedFiles
  <2>3. Plugged' = Plugged
    BY <2>1 DEF Plugged
  <2>4. QED
    BY <1>3, <2>1, <2>2, <2>3
<1>7. CASE RegisterRoutes
  <2>1. /\ pc = "route" /\ Running
        /\ \/ at < Count(layout) /\ pc' = "config" /\ at' = at + 1
           \/ pc' = "listen" /\ at' = at
    BY <1>7 DEF RegisterRoutes, Running
  <2>2. at \in Nat /\ at >= 1 /\ (~layout.multi => Count(layout) = 1)
    BY <2>1, Standing
  <2>3. Plugged' = Plugged
    BY <2>1, <2>2 DEF Plugged
  <2>4. QED
    BY <1>3, <2>1, <2>2, <2>3
<1>8. CASE RefusePlugin \/ EntrypointLost \/ RouteClash
  <2>1. pc' = "exited"
    BY <1>8 DEF RefusePlugin, EntrypointLost, RouteClash, Exit
  <2>2. QED
    BY <1>2, <1>8, <2>1, RefusesRightly DEF Running
<1>9. ASSUME NEW p \in Prompts, CopyFails(p) PROVE FALSE
  <2>1. pc = "copy" /\ p \in todo /\ files[<<"prompts", at>>][p] = Absent /\ at \in 1..Count(layout)
    BY <1>9, Standing DEF CopyFails, Running
  <2>2. files[<<"prompts", at>>] = Volume(layout, layout.after, <<"prompts", at>>)
    BY <1>2, <2>1, FixedFiles
  <2>3. QED
    BY <1>3, <2>1, <2>2 DEF FileNames
<1>10. CASE LoadConfig \/ (\E p \in Prompts : CopyFile(p)) \/ InitGenkit \/ Listen
  <2>1. /\ Running /\ Plugged' = Plugged /\ at' = at /\ env' = env /\ todo' \subseteq todo
        /\ pc' \in {"config", "plugin"} => pc \in {"config", "plugin"}
        /\ pc' = "copy" => pc = "copy"
        /\ pc' # "exited" /\ (pc' = "listening" => ~Clash) /\ routes' = routes
    BY <1>10 DEF LoadConfig, CopyFile, InitGenkit, Listen, Running, Plugged
  <2>2. QED
    BY <1>3, <2>1 DEF Clash
<1>11. CASE Die \/ Kubelet \/ UNCHANGED runnerVars
  <2>1. /\ UNCHANGED <<at, env, todo, routes>>
        /\ pc' = pc \/ pc' = "created"
    BY <1>11 DEF Die, Kubelet, Refresh, process, runnerVars
  <2>2. pc' = pc => Plugged' = Plugged
    BY <2>1 DEF Plugged
  <2>3. QED
    BY <1>3, <2>1, <2>2 DEF Clash, Running
<1>12. QED
  BY <1>4, <1>5, <1>6, <1>7, <1>8, <1>9, <1>10, <1>11 DEF RunnerNext, Process

LEMMA RunnerInvariant == RunnerSpec => []RunnerInv
<1>1. RunnerInv /\ [RunnerNext]_runnerVars => RunnerInv'
  <2> SUFFICES ASSUME RunnerInv, [RunnerNext]_runnerVars PROVE RunnerInv'
    OBVIOUS
  <2>1. FilesOK'
    BY FilesStep DEF RunnerInv
  <2>2. RunnerTypeOK'
    BY TypeStep
  <2>3. BoundOK'
    BY BoundStep
  <2>4. ConfigOK' /\ ProgressOK'
    BY ConfigStep
  <2>5. CredentialOK'
    BY CredentialStep
  <2>6. StagingOK'
    BY StagingStep
  <2>7. RegistryOK'
    BY RegistryStep
  <2>8. RoutesOK'
    BY RoutesStep
  <2>9. FixedOK'
    BY FixedStep
  <2>10. QED
    BY <2>1, <2>2, <2>3, <2>4, <2>5, <2>6, <2>7, <2>8, <2>9 DEF RunnerInv
<1>2. QED
  BY InitInv, <1>1, PTL DEF RunnerSpec

-----------------------------------------------------------------------------
(* The results.                                                            *)

(* The runner is never past its last flow and has a registry for every     *)
(* flow it is done with, whatever is mounted.                              *)
THEOREM RunnerTypes == RunnerSpec => []RunnerTypeOK
<1>1. RunnerInv => RunnerTypeOK
  BY DEF RunnerInv
<1>2. QED
  BY RunnerInvariant, <1>1, PTL

(* Every flow's plugin uses the credentials of that flow's Secret, also    *)
(* where it goes through the environment all the flows of a set share.     *)
THEOREM CredentialsAreOwn == RunnerSpec => []OwnCredentials
<1>1. RunnerInv => OwnCredentials
  BY DEF RunnerInv, RegistryOK
<1>2. QED
  BY RunnerInvariant, <1>1, PTL

LEMMA RoutesServe == RunnerInv => RoutesServeOwnPrompts
<1> SUFFICES ASSUME RunnerInv, pc = "listening" PROVE RoutesServeOwnPrompts
  BY DEF RoutesServeOwnPrompts
<1>1. /\ Running /\ at = Count(layout) /\ Len(registry) = Count(layout) /\ Routed = Count(layout)
      /\ layout \in Layouts /\ layout.multi \in BOOLEAN
  BY Standing DEF RunnerInv, ProgressOK, RunnerTypeOK, Running, Routed
<1>2. \A i \in 1..Count(layout), p \in Prompts : registry[i].prompts[p] \in PromptsOf(layout, i, p)
  BY <1>1 DEF RunnerInv, RegistryOK
<1>3. \A r \in routes :
        /\ r = [path |-> PathOf(r.flow, r.prompt), flow |-> r.flow, prompt |-> r.prompt]
        /\ registry[r.flow].prompts[r.prompt] # Absent /\ r.flow \in 1..Count(layout)
        /\ r.prompt \in Prompts
        /\ layout.multi => r.prompt = bound.manifest[r.flow].entrypoint
  BY <1>1 DEF RunnerInv, RoutesOK, RunnerTypeOK
<1>4. ASSUME layout.multi, NEW i \in 1..Count(layout)
      PROVE  \E entrypoint \in Prompts :
               {r \in routes : r.flow = i \/ r.path = FlowAt(layout, layout.before, i).name}
                 = {[path |-> FlowAt(layout, layout.before, i).name, flow |-> i,
                     prompt |-> entrypoint]}
  <2> DEFINE name(k) == FlowAt(layout, layout.before, k).name
             entrypoint == bound.manifest[i].entrypoint
             mine == [path |-> name(i), flow |-> i, prompt |-> entrypoint]
  <2>1. PICK r \in routes : r.flow = i
    BY <1>1, <1>4 DEF RunnerInv, RoutesOK
  <2>2. \A q \in routes : q.path = name(q.flow)
    BY <1>3, <1>4 DEF PathOf
  <2>3. \A q \in routes : q.flow = i => q = mine
    BY <1>3, <1>4, <2>2
  <2>4. \A q \in routes : q.path = name(i) => q.flow = i
    <3>1. ASSUME NEW q \in routes, q.path = name(i) PROVE q.flow = i
      <4>1. q.flow \in 1..Count(layout) /\ name(q.flow) = name(i)
        BY <1>3, <2>2, <3>1
      <4>2. layout.multi = TRUE
        BY <1>1, <1>4
      <4>3. QED
        BY <1>1, <4>1, <4>2, DifferentFlowsDifferentNames
    <3>2. QED
      BY <3>1
  <2>5. mine \in routes /\ entrypoint \in Prompts
    BY <1>3, <1>4, <2>1, <2>3
  <2>6. {q \in routes : q.flow = i \/ q.path = name(i)} = {mine}
    <3>1. mine.flow = i
      OBVIOUS
    <3> HIDE DEF mine, name
    <3>2. QED
      BY <2>3, <2>4, <2>5, <3>1
  <2>7. QED
    BY <2>5, <2>6
<1>5. QED
  BY <1>2, <1>3, <1>4 DEF RoutesServeOwnPrompts

(* A runner that listens has exactly one route for every flow of a set,    *)
(* under that flow's name, and serves nothing a flow did not mount.        *)
THEOREM RoutesAreOwn == RunnerSpec => []RoutesServeOwnPrompts
BY RunnerInvariant, RoutesServe, PTL

LEMMA ListensRightly == RunnerInv => ListensIffStartable
<1> SUFFICES ASSUME RunnerInv, layout.before = layout.after PROVE ListensIffStartable
  BY DEF ListensIffStartable
<1>1. pc = "exited" => ~Startable(layout, layout.after)
  BY DEF RunnerInv, FixedOK
<1>2. ASSUME pc = "listening" PROVE Startable(layout, layout.after)
  <2>1. /\ Running /\ at = Count(layout) /\ Len(registry) = Count(layout)
        /\ Plugged = Count(layout) /\ Routed = Count(layout) /\ ~Clash
        /\ layout \in Layouts /\ layout.multi \in BOOLEAN
        /\ ~layout.multi => Count(layout) = 1
    BY <1>2, Standing DEF RunnerInv, ProgressOK, RunnerTypeOK, Running, Plugged, Routed, FixedOK
  <2>2. \A i \in 1..Count(layout) : Buildable(layout, layout.after, i)
    BY <2>1 DEF RunnerInv, FixedOK
  <2>3. \A r \in routes :
          /\ r.path = PathOf(r.flow, r.prompt) /\ r.path \notin Reserved /\ r.prompt \in Prompts
          /\ registry[r.flow].prompts[r.prompt] # Absent /\ r.flow \in 1..Len(registry)
          /\ layout.multi => r.prompt = bound.manifest[r.flow].entrypoint
    BY <2>1 DEF RunnerInv, RoutesOK, RunnerTypeOK, Clash
  <2>4. ASSUME layout.multi, NEW i \in 1..Count(layout)
        PROVE  /\ layout.after.spec.flows[i].prompts[1].name \in Parsed(layout, layout.after, i)
               /\ layout.after.spec.flows[i].name \notin Reserved
    <3>1. PICK r \in routes : r.flow = i
      BY <2>1, <2>4 DEF RunnerInv, RoutesOK
    <3>2. /\ r.prompt = layout.after.spec.flows[i].prompts[1].name
          /\ r.path = layout.after.spec.flows[i].name
      BY <2>1, <2>3, <2>4, <3>1, EntrypointIs DEF PathOf
    <3>3. r.prompt \in Parsed(layout, layout.after, i)
      BY <2>3, <3>1, RegisteredIffParsed
    <3>4. QED
      BY <2>3, <3>2, <3>3
  <2>5. ASSUME ~layout.multi, NEW p \in Parsed(layout, layout.after, 1)
        PROVE  p \notin Reserved
    <3>1. p \in Prompts /\ 1 \in 1..Len(registry) /\ 1 \in 1..Routed
      BY <2>1, <2>5 DEF Parsed
    <3>2. p \in FileNames(registry[1].prompts)
      BY <2>5, <3>1, RegisteredIffParsed DEF FileNames
    <3>3. PICK r \in routes : r.prompt = p
      BY <2>1, <2>5, <3>1, <3>2 DEF RunnerInv, RoutesOK
    <3>4. r.path = p
      BY <2>3, <2>5, <3>3 DEF PathOf
    <3>5. QED
      BY <2>3, <3>4
  <2>6. QED
    BY <2>1, <2>2, <2>4, <2>5 DEF Startable
<1>3. QED
  BY <1>1, <1>2 DEF ListensIffStartable

(* While nothing it mounts changes, a runner ends up listening on exactly  *)
(* what fulfils the runtime contract, and gives up on the rest.            *)
THEOREM ListensOnWhatCanBeStarted == RunnerSpec => []ListensIffStartable
BY RunnerInvariant, ListensRightly, PTL
=============================================================================
