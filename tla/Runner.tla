-------------------------------- MODULE Runner --------------------------------
(***************************************************************************)
(* The reference runner, the process in the container of a Flow's or a     *)
(* FlowSet's Pod, from its start until it listens.  It reads what the      *)
(* operator rendered (FlowRender, FlowSetRender) from mounted volumes,     *)
(* which the kubelet brings up to date one by one while it reads.  All the *)
(* flows of a set share one process and so one environment; each gets a    *)
(* plugin, a directory of staged prompts and a registry of its own.  When  *)
(* anything is wrong the process exits and Kubernetes starts it again.     *)
(***************************************************************************)
EXTENDS FlowSetRender

CONSTANTS
  Keys,           \* names of credentials
  EndpointKey,    \* AZURE_OPENAI_ENDPOINT
  AdcKey,         \* GOOGLE_APPLICATION_CREDENTIALS
  Values,         \* what credentials may hold
  Types,          \* plugin types, the registered ones and others
  PluginPayload,  \* PluginPayload[d]: the plugin that d in config.json describes
  SecretKeys,     \* SecretKeys[d]: the keys and values of a Secret that holds d
  DefaultKeys,    \* defaultCredentialKeys
  Reserved,       \* names whose routes the runner needs itself: healthz, readyz
  Layouts,        \* bound: what a Pod may have mounted at first and later
  MaxDeaths       \* bound: how often a container dies while it serves

(* extra stands for the one field of extraConfig a plugin cannot do        *)
(* without: Ollama's server address, Azure's endpoint.                     *)
Plugin == [type : Types, keys : Seq(Keys), extra : BOOLEAN]

Environments == [Keys -> Values \cup {None}]

(* A Pod of a FlowSet (multi) or of a Flow mounts what was rendered from   *)
(* one spec and its dependencies when it was created (before), and from    *)
(* maybe another when all its volumes are up to date (after).  Which flows *)
(* and Secrets are mounted, and the environment the spec sets, is in the   *)
(* Pod's template and stays.                                               *)
Count(l) == IF l.multi THEN Len(l.before.spec.flows) ELSE 1
FlowAt(l, side, i) == IF l.multi THEN side.spec.flows[i] ELSE side.spec
Sides(l) == {l.before, l.after}

ASSUME RunnerAssumption ==
  /\ PluginPayload \in [Data -> Plugin]
  /\ SecretKeys \in [Data -> Environments]
  /\ DefaultKeys \in [Types -> Seq(Keys)]
  /\ "vertexai" \in Types => DefaultKeys["vertexai"] # <<>>
  /\ None \notin Values \cup Environments
  /\ {EndpointKey, AdcKey} \subseteq Keys /\ MaxDeaths \in Nat
  /\ \A l \in Layouts :
       /\ l.multi \in BOOLEAN /\ l.env \in Environments
       /\ \A side \in Sides(l) :
            /\ side.deps \in Stores
            /\ IF l.multi
               THEN /\ side.spec \in FlowSetSpec /\ side.spec.flows # <<>>
                    /\ DistinctNames(side.spec.flows)
                    /\ LET got == [i \in Entries(side.spec) |-> side.deps]
                       IN  SetOutcome(side.spec, got).reason = "Rendered"
               ELSE /\ side.spec \in FlowSpec
                    /\ Outcome(side.spec, side.deps).reason = "Rendered"
       /\ l.multi => Len(l.before.spec.flows) = Len(l.after.spec.flows)
       /\ \A i \in 1..Count(l) :
            LET was == FlowAt(l, l.before, i)
                is == FlowAt(l, l.after, i)
            IN  /\ l.multi => was.name = is.name
                /\ SecretOf(was, l.before.deps) = SecretOf(is, l.after.deps)

VARIABLES
  layout,    \* what the Pod mounts
  files,     \* the contents of its volumes now
  bound,     \* the manifest and config.json's as they were at the container's start
  pc,        \* where the process stands
  at,        \* the flow it is setting up
  cfg,       \* that flow's runtimeConfig
  env,       \* the environment of the process
  cred,      \* the credential that flow's plugin was built with
  todo,      \* the prompt files still to be copied
  staged,    \* the directories of staged prompts
  registry,  \* the Genkit registries, one for each flow set up
  routes,    \* the registered routes: path, flow and prompt
  deaths     \* how much of MaxDeaths is used

process == <<bound, pc, at, cfg, env, cred, todo, staged, registry, routes>>
runnerVars == <<layout, files, process, deaths>>

-----------------------------------------------------------------------------
(* The volumes.                                                            *)

SecretData(flow, d) ==
  IF SecretOf(flow, d) = None THEN [k \in Keys |-> None]
  ELSE SecretKeys[d[SecretOf(flow, d)].data]

(* One manifest, and three volumes for each flow.                          *)
Volumes(l) ==
  ({"prompts", "config", "secret"} \X (1..Count(l)))
    \cup IF l.multi THEN {<<"manifest", 0>>} ELSE {}

Volume(l, side, v) ==
  CASE v[1] = "manifest" -> Manifest(side.spec)
    [] v[1] = "prompts" -> PromptFiles(FlowAt(l, side, v[2]), side.deps)
    [] v[1] = "config" -> RuntimeConfig(FlowAt(l, side, v[2]), side.deps)
    [] v[1] = "secret" -> SecretData(FlowAt(l, side, v[2]), side.deps)

Mounted(l, side) == [v \in Volumes(l) |-> Volume(l, side, v)]

(* Every volume is brought up to date at once, but not together with the   *)
(* others.                                                                 *)
Refresh(v) ==
  /\ files[v] # Volume(layout, layout.after, v)
  /\ files' = [files EXCEPT ![v] = Volume(layout, layout.after, v)]
  /\ UNCHANGED <<layout, process, deaths>>

-----------------------------------------------------------------------------
(* Credentials.  dir holds the files of a mounted Secret; a Flow has none  *)
(* and its plugin looks into the environment e.                            *)

Found(source, keys) == {i \in DOMAIN keys : source[keys[i]] # None}

(* Fault: only the first key is tried.                                     *)
readCredentialFirstKey(dir, e, keys) ==
  IF keys = <<>> THEN None ELSE (IF dir = None THEN e ELSE dir)[keys[1]]

readCredential(dir, e, keys) ==
  LET source == IF dir = None THEN e ELSE dir
  IN  IF Found(source, keys) = {} THEN None ELSE source[keys[Least(Found(source, keys))]]

(* A Flow's config.json does not list the keys: the defaults serve it.     *)
KeysOf(multi, plugin) ==
  IF multi /\ plugin.keys # <<>> THEN plugin.keys ELSE DefaultKeys[plugin.type]

KeyTypes == {"anthropic", "openai", "googleai", "azureaifoundry"}

(* Whether the builder registered for the plugin's type accepts it.        *)
Builds(plugin, keys, dir, e) ==
  CASE plugin.type \in KeyTypes ->
         /\ readCredential(dir, e, keys) # None
         /\ \/ plugin.type # "azureaifoundry"
            \/ plugin.extra \/ readCredential(dir, e, <<EndpointKey>>) # None
    [] plugin.type = "ollama" -> plugin.extra
    [] OTHER -> plugin.type \in {"vertexai", "bedrock"}

(* Fault: variables that are set already are left alone.                   *)
ExportedOnce(plugin, keys, dir, e) ==
  IF plugin.type # "bedrock" \/ dir = None THEN e
  ELSE [k \in Keys |-> IF e[k] = None /\ \E i \in Found(dir, keys) : keys[i] = k
                       THEN dir[k] ELSE e[k]]

(* The SDKs of two plugins take credentials from the environment only.     *)
(* Bedrock exports the files there are to it, Vertex AI points it at the   *)
(* first one (whose content stands for the path).                          *)
Exported(plugin, keys, dir, e) ==
  LET found == Found(dir, keys)
  IN  IF plugin.type \notin {"bedrock", "vertexai"} \/ dir = None THEN e
      ELSE IF plugin.type = "bedrock"
      THEN [k \in Keys |-> IF \E i \in found : keys[i] = k THEN dir[k] ELSE e[k]]
      ELSE IF found = {} THEN e ELSE [e EXCEPT ![AdcKey] = dir[keys[Least(found)]]]

-----------------------------------------------------------------------------
(* The process.                                                            *)

NoPrompts == [p \in Prompts |-> Absent]
NoStaging == [i \in 1..Count(layout) |-> NoPrompts]

RunnerInit ==
  /\ layout \in Layouts
  /\ files = Mounted(layout, layout.before)
  /\ bound = None /\ pc = "created" /\ at = 0 /\ cfg = None /\ cred = None
  /\ env = layout.env /\ todo = {} /\ staged = NoStaging
  /\ registry = <<>> /\ routes = {} /\ deaths = 0

(* The environment of a Flow's container has the Secret's keys; those the  *)
(* spec sets take precedence.                                              *)
ContainerEnv(l, secret) ==
  [k \in Keys |-> IF l.multi \/ l.env[k] # None THEN l.env[k] ELSE secret[k]]

(* The container starts, or starts again, with nothing of an earlier run.  *)
(* A FlowSet's manifest and config.json are mounted with subPath: they     *)
(* never change under a running container.                                 *)
Boot ==
  /\ pc \in {"created", "exited"}
  /\ pc' = "config" /\ at' = 1 /\ cfg' = None /\ cred' = None
  /\ bound' = IF layout.multi
              THEN [manifest |-> files[<<"manifest", 0>>],
                    configs |-> [i \in 1..Count(layout) |-> files[<<"config", i>>]]]
              ELSE None
  /\ env' = ContainerEnv(layout, files[<<"secret", 1>>])
  /\ todo' = {} /\ staged' = NoStaging /\ registry' = <<>> /\ routes' = {}
  /\ UNCHANGED <<layout, files, deaths>>

(* log.Fatal, or a panic.                                                  *)
Exit ==
  /\ pc' = "exited"
  /\ UNCHANGED <<layout, files, bound, at, cfg, env, cred, todo, staged, registry, routes, deaths>>

LoadConfig ==
  /\ pc = "config"
  /\ cfg' = IF layout.multi THEN bound.configs[at] ELSE files[<<"config", 1>>]
  /\ pc' = "plugin"
  /\ UNCHANGED <<layout, files, bound, at, env, cred, todo, staged, registry, routes, deaths>>

CredentialsDir == IF layout.multi THEN files[<<"secret", at>>] ELSE None

Accepted ==
  /\ cfg.plugin # None
  /\ LET plugin == PluginPayload[cfg.plugin]
     IN  Builds(plugin, KeysOf(layout.multi, plugin), CredentialsDir, env)

BuildPlugin ==
  /\ pc = "plugin" /\ Accepted
  /\ LET plugin == PluginPayload[cfg.plugin]
         keys == KeysOf(layout.multi, plugin)
     IN  /\ cred' = IF plugin.type \in KeyTypes
                    THEN readCredential(CredentialsDir, env, keys) ELSE None
         /\ env' = Exported(plugin, keys, CredentialsDir, env)
  /\ pc' = "stage"
  /\ UNCHANGED <<layout, files, bound, at, cfg, todo, staged, registry, routes, deaths>>

RefusePlugin == pc = "plugin" /\ ~Accepted /\ Exit

(* stagePrompts lists the files, then opens them one by one; files that    *)
(* the volume loses in between make it fail.                               *)
FileNames(dir) == {p \in Prompts : dir[p] # Absent}

(* Fault: all flows stage in one directory, which nobody empties.          *)
StagePromptsShared ==
  /\ pc = "stage"
  /\ todo' = FileNames(files[<<"prompts", at>>])
  /\ staged' = IF at = 1 THEN staged ELSE [staged EXCEPT ![at] = staged[at - 1]]
  /\ pc' = "copy"
  /\ UNCHANGED <<layout, files, bound, at, cfg, env, cred, registry, routes, deaths>>

StagePrompts ==
  /\ pc = "stage"
  /\ todo' = FileNames(files[<<"prompts", at>>])
  /\ staged' = [staged EXCEPT ![at] = NoPrompts]
  /\ pc' = "copy"
  /\ UNCHANGED <<layout, files, bound, at, cfg, env, cred, registry, routes, deaths>>

CopyFile(p) ==
  /\ pc = "copy" /\ p \in todo /\ files[<<"prompts", at>>][p] # Absent
  /\ staged' = [staged EXCEPT ![at][p] = files[<<"prompts", at>>][p]]
  /\ todo' = todo \ {p}
  /\ UNCHANGED <<layout, files, bound, pc, at, cfg, env, cred, registry, routes, deaths>>

CopyFails(p) ==
  /\ pc = "copy" /\ p \in todo /\ files[<<"prompts", at>>][p] = Absent
  /\ Exit

(* genkit.Init: the registry of the flow, with the prompts that can be     *)
(* parsed (the text Malformed stands for the others).  Bedrock and Vertex  *)
(* AI look for credentials now.                                            *)
InitGenkit ==
  /\ pc = "copy" /\ todo = {}
  /\ registry' = Append(registry,
       [plugin |-> cfg.plugin, model |-> cfg.model,
        cred |-> IF PluginPayload[cfg.plugin].type \in {"bedrock", "vertexai"} THEN env ELSE cred,
        prompts |-> [p \in Prompts |-> IF staged[at][p] = Malformed THEN Absent ELSE staged[at][p]]])
  /\ pc' = "route"
  /\ UNCHANGED <<layout, files, bound, at, cfg, env, cred, todo, staged, routes, deaths>>

(* The prompts of the flow just set up that get a route: the entrypoint of *)
(* a set's flow, under the flow's name, and every prompt of a Flow.        *)
Served ==
  LET known == FileNames(registry[at].prompts)
  IN  IF layout.multi
      THEN {[path |-> bound.manifest[at].name, flow |-> at, prompt |-> p] :
              p \in known \cap {bound.manifest[at].entrypoint}}
      ELSE {[path |-> p, flow |-> at, prompt |-> p] : p \in known}

Lost == layout.multi /\ Served = {}

(* Faults: the last flow is not the end; a lost entrypoint is passed over. *)
RegisterRoutesPastLast ==
  /\ pc = "route" /\ ~Lost
  /\ routes' = routes \cup Served
  /\ IF at <= Count(layout) THEN pc' = "config" /\ at' = at + 1
     ELSE pc' = "listen" /\ UNCHANGED at
  /\ UNCHANGED <<layout, files, bound, cfg, env, cred, todo, staged, registry, deaths>>

RegisterRoutesSkips ==
  /\ pc = "route"
  /\ routes' = routes \cup Served
  /\ IF at < Count(layout) THEN pc' = "config" /\ at' = at + 1
     ELSE pc' = "listen" /\ UNCHANGED at
  /\ UNCHANGED <<layout, files, bound, cfg, env, cred, todo, staged, registry, deaths>>

RegisterRoutes ==
  /\ pc = "route" /\ ~Lost
  /\ routes' = routes \cup Served
  /\ IF at < Count(layout) THEN pc' = "config" /\ at' = at + 1
     ELSE pc' = "listen" /\ UNCHANGED at
  /\ UNCHANGED <<layout, files, bound, cfg, env, cred, todo, staged, registry, deaths>>

EntrypointLost == pc = "route" /\ Lost /\ Exit

(* The runner's own routes come last: a name they share makes it panic.    *)
Clash == \E r \in routes : r.path \in Reserved

Listen ==
  /\ pc = "listen" /\ ~Clash
  /\ pc' = "listening"
  /\ UNCHANGED <<layout, files, bound, at, cfg, env, cred, todo, staged, registry, routes, deaths>>

RouteClash == pc = "listen" /\ Clash /\ Exit

(* The container dies for a reason of its own.                             *)
Die ==
  /\ pc = "listening" /\ deaths < MaxDeaths
  /\ pc' = "created" /\ deaths' = deaths + 1
  /\ UNCHANGED <<layout, files, bound, at, cfg, env, cred, todo, staged, registry, routes>>

Kubelet == \E v \in Volumes(layout) : Refresh(v)

Process ==
  \/ Boot \/ LoadConfig \/ BuildPlugin \/ RefusePlugin \/ StagePrompts
  \/ \E p \in Prompts : CopyFile(p) \/ CopyFails(p)
  \/ InitGenkit \/ RegisterRoutes \/ EntrypointLost \/ Listen \/ RouteClash

RunnerNext == Process \/ Kubelet \/ Die

RunnerSpec == RunnerInit /\ [][RunnerNext]_runnerVars

(* The process runs, Kubernetes restarts it, the kubelet syncs volumes.    *)
RunnerFairSpec == RunnerSpec /\ WF_runnerVars(Process) /\ WF_runnerVars(Kubelet)

-----------------------------------------------------------------------------
(* Properties.                                                             *)

(* The runner is never past its last flow, knows nothing it has not read,  *)
(* and has a registry for every flow it is done with.                      *)
RunnerTypeOK ==
  /\ pc \in {"created", "config", "plugin", "stage", "copy", "route", "listen",
             "listening", "exited"}
  /\ at \in 0..Count(layout) /\ Len(registry) \in 0..Count(layout)
  /\ pc \in {"config", "plugin", "stage", "copy"} => Len(registry) = at - 1
  /\ pc \in {"route", "listen", "listening"} => Len(registry) = at
  /\ cfg = None \/ cfg \in [model : Data \cup {None}, plugin : Data \cup {None}]
  /\ env \in Environments /\ cred \in Values \cup {None}
  /\ todo \subseteq Prompts
  /\ staged \in [1..Count(layout) -> [Prompts -> Data \cup {Absent}]]
  /\ \A r \in routes : r.flow \in 1..Len(registry) /\ r.prompt \in Prompts

PromptsOf(l, i, p) ==
  {LET text == Volume(l, side, <<"prompts", i>>)[p]
   IN  IF text = Malformed THEN Absent ELSE text : side \in Sides(l)}

(* docs/runtime-contract.md: "Each flow is exposed at POST /<flow-name>.   *)
(* There is exactly one HTTP entrypoint per flow", and its other prompts   *)
(* "are loaded into the same per-flow registry".  A runner that listens    *)
(* has that route for every flow, each flow's registry holds prompts that  *)
(* its own volume held under these names and nothing of another flow, and  *)
(* what a route serves is registered.                                      *)
RoutesServeOwnPrompts ==
  pc = "listening" =>
    /\ \A i \in 1..Count(layout), p \in Prompts :
         registry[i].prompts[p] \in PromptsOf(layout, i, p)
    /\ \A r \in routes : registry[r.flow].prompts[r.prompt] # Absent
    /\ layout.multi =>
         \A i \in 1..Count(layout) :
           \E entrypoint \in Prompts :
             {r \in routes : r.flow = i \/ r.path = FlowAt(layout, layout.before, i).name}
               = {[path |-> FlowAt(layout, layout.before, i).name, flow |-> i,
                   prompt |-> entrypoint]}

(* Whatever the i-th flow's Secret holds for this plugin is what the       *)
(* plugin uses, be it a key it is built with or an environment.            *)
Owns(l, i, plugin, credential) ==
  LET keys == KeysOf(TRUE, plugin)
      held(k) == {Volume(l, side, <<"secret", i>>)[k] : side \in Sides(l)}
      own == UNION {held(keys[j]) : j \in DOMAIN keys}
  IN  CASE plugin.type \in KeyTypes -> credential \in own \ {None}
        [] plugin.type = "bedrock" ->
             \A j \in DOMAIN keys :
               None \notin held(keys[j]) => credential[keys[j]] \in held(keys[j])
        [] plugin.type = "vertexai" -> None \notin own => credential[AdcKey] \in own
        [] OTHER -> TRUE

(* docs/runtime-contract.md: "Runtimes read credentials by filename ...    *)
(* instead of environment variables, which allows two flows in the same    *)
(* Pod to use different credentials for the same provider without          *)
(* collision."  Every flow's plugin uses that flow's Secret, even where it *)
(* goes through the environment all flows share.                           *)
OwnCredentials ==
  layout.multi =>
    \A i \in 1..Len(registry) :
      Owns(layout, i, PluginPayload[registry[i].plugin], registry[i].cred)

(* What the runner asks of the objects it is given: the plugin is one it   *)
(* knows and has its credential, in the flow's Secret or, for a Flow, in   *)
(* the environment, a set's entrypoints can be parsed, and no name is      *)
(* taken.                                                                  *)
Buildable(l, side, i) ==
  LET name == Volume(l, side, <<"config", i>>).plugin
      plugin == PluginPayload[name]
      secret == Volume(l, side, <<"secret", i>>)
      keys == KeysOf(l.multi, plugin)
      has(k) == (IF l.multi THEN secret ELSE ContainerEnv(l, secret))[k] # None
  IN  /\ name # None
      /\ plugin.type \in KeyTypes \cup {"ollama", "vertexai", "bedrock"}
      /\ plugin.type \in KeyTypes => \E j \in DOMAIN keys : has(keys[j])
      /\ plugin.type = "ollama" => plugin.extra
      /\ plugin.type = "azureaifoundry" => plugin.extra \/ has(EndpointKey)

Parsed(l, side, i) ==
  {p \in Prompts : Volume(l, side, <<"prompts", i>>)[p] \notin {Absent, Malformed}}

Startable(l, side) ==
  /\ \A i \in 1..Count(l) : Buildable(l, side, i)
  /\ IF l.multi
     THEN \A i \in 1..Count(l) : /\ side.spec.flows[i].prompts[1].name \in Parsed(l, side, i)
                                 /\ side.spec.flows[i].name \notin Reserved
     ELSE Parsed(l, side, 1) \cap Reserved = {}

(* cmd/runner/main.go:9: the runner "satisfies the genkit-operator runtime *)
(* contract".  While nothing it mounts changes, it ends up listening       *)
(* exactly on what fulfils that contract, and gives up on the rest.        *)
ListensIffStartable ==
  layout.before = layout.after =>
    /\ pc = "listening" => Startable(layout, layout.after)
    /\ pc = "exited" => ~Startable(layout, layout.after)

(* A Pod whose content becomes good comes up for good, whatever volume was *)
(* exchanged between two reads, and however often it had to exit before.   *)
StartsEventually == Startable(layout, layout.after) => <>[](pc = "listening")
=============================================================================
