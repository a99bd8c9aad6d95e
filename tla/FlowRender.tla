------------------------------ MODULE FlowRender ------------------------------
(***************************************************************************)
(* The pure part of the Flow controller: which objects a Flow refers to,   *)
(* in which order resolveDeps reads them, what renderFlow makes of them,   *)
(* which status a reconcile writes, and which Flows a watch event wakes.   *)
(*                                                                         *)
(* Payloads are opaque: a prompt's text, a tool descriptor, a model's      *)
(* parameters, a Secret's bytes are members of Data.  SHA-256 is taken to  *)
(* be injective, so the content hash of a Flow *is* the content it covers. *)
(***************************************************************************)
EXTENDS Naturals, Sequences

CONSTANTS
  Flows,          \* names of Flow objects
  Prompts,        \* names of Prompt objects, and of inline prompts
  Tools,          \* names of Tool objects
  Models,         \* names of Model objects
  PluginConfigs,  \* names of PluginConfig objects
  Secrets,        \* names of credentials Secrets
  Data,           \* payloads
  Malformed,      \* a Tool definition that is JSON but not a JSON object
  NoImage,        \* spec.image = ""
  Images,         \* container images (with env, resources and pull policy)
  Ports,          \* spec.port
  None,           \* an unset reference or optional field
  Absent,         \* "no such object"
  Unread          \* a dependency the running reconcile has not read yet

Deps == Prompts \cup Tools \cup Models \cup PluginConfigs \cup Secrets

(* A dependency: its payload and, for a Model or a PluginConfig, the name  *)
(* it refers to (pluginConfigRef, credentialsRef), which may not exist.    *)
RefTargets(o) ==
  CASE o \in Models -> PluginConfigs
    [] o \in PluginConfigs -> Secrets
    [] OTHER -> {None}

DepObj(o) == [data : Data, ref : RefTargets(o)]

Objects == [data : Data, ref : PluginConfigs \cup Secrets \cup {None}]

(* What a store of dependencies may hold, and what of it a reconcile may   *)
(* have read.                                                              *)
Stores == {d \in [Deps -> Objects \cup {Absent}] :
             \A o \in Deps : d[o] \in DepObj(o) \cup {Absent}}

Readings == {d \in [Deps -> Objects \cup {Absent, Unread}] :
               \A o \in Deps : d[o] \in DepObj(o) \cup {Absent, Unread}}

(* One entry of spec.prompts; "none" sets neither promptRef nor prompt.    *)
PromptSource ==
  [kind : {"ref"}, name : Prompts, content : {None}]
    \cup [kind : {"inline"}, name : Prompts, content : Data]
    \cup [kind : {"none"}, name : {None}, content : {None}]

(* modelRef ("ref"), modelSpec ("inline"), both of them, or neither.       *)
ModelSource ==
  [kind : {"ref"}, name : Models, body : {None}, plugin : {None}]
    \cup [kind : {"inline"}, name : {None}, body : Data, plugin : PluginConfigs]
    \cup [kind : {"both"}, name : Models, body : Data, plugin : PluginConfigs]
    \cup [kind : {"none"}, name : {None}, body : {None}, plugin : {None}]

FlowSpec ==
  [image : Images \cup {NoImage}, port : Ports, replicas : Nat,
   prompts : Seq(PromptSource), tools : Seq(Tools), model : ModelSource]

ASSUME NamesAssumption ==
  /\ Malformed \in Data
  /\ NoImage \notin Images
  /\ Absent \notin Objects /\ Unread \notin Objects /\ Absent # Unread
  /\ Absent \notin Data /\ Unread \notin Data
  /\ None \notin Deps \cup Data \cup Images \cup Flows
  /\ Flows \cap Deps = {}
  /\ Models \cap (Prompts \cup Tools \cup PluginConfigs \cup Secrets) = {}
  /\ PluginConfigs \cap (Prompts \cup Tools \cup Secrets) = {}
  /\ Secrets \cap (Prompts \cup Tools) = {}

-----------------------------------------------------------------------------
(* Resolution.  d maps every dependency to its object, to Absent, or, in a *)
(* reconcile that is still reading, to Unread.                             *)

Present(x) == x \notin {Absent, Unread}

BadSources(spec) ==
  {i \in DOMAIN spec.prompts : spec.prompts[i].kind = "none"}

(* The Gets of resolveDeps as <<position, object>>: prompts, then tools,   *)
(* then Model, PluginConfig and Secret, each found through the one before. *)
(* An entry that is neither a reference nor inline ends the loop there.    *)
PromptGets(spec) ==
  {<<i, spec.prompts[i].name>> : i \in
     {j \in DOMAIN spec.prompts : /\ spec.prompts[j].kind = "ref"
                                  /\ \A b \in BadSources(spec) : j < b}}

ToolGets(spec) ==
  {<<Len(spec.prompts) + i, spec.tools[i]>> : i \in DOMAIN spec.tools}

PluginOf(spec, d) ==
  CASE spec.model.kind = "inline" -> spec.model.plugin
    [] spec.model.kind = "ref" /\ Present(d[spec.model.name]) -> d[spec.model.name].ref
    [] OTHER -> None

SecretOf(spec, d) ==
  LET pc == PluginOf(spec, d)
  IN  IF pc # None /\ Present(d[pc]) THEN d[pc].ref ELSE None

Listed(spec) == Len(spec.prompts) + Len(spec.tools)

ModelGets(spec, d) ==
  LET n == Listed(spec)
      chain == {<<n + 2, PluginOf(spec, d)>>, <<n + 3, SecretOf(spec, d)>>}
      model == IF spec.model.kind = "ref" THEN {<<n + 1, spec.model.name>>} ELSE {}
  IN  model \cup {g \in chain : g[2] # None}

Gets(spec, d) ==
  IF BadSources(spec) # {} THEN PromptGets(spec)
  ELSE PromptGets(spec) \cup ToolGets(spec) \cup ModelGets(spec, d)

First(gets) == (CHOOSE g \in gets : \A h \in gets : g[1] <= h[1])[2]

Missing(spec, d) == {g \in Gets(spec, d) : d[g[2]] = Absent}
ToRead(spec, d)  == {g \in Gets(spec, d) : d[g[2]] = Unread}

MalformedTools(spec, d) ==
  {i \in DOMAIN spec.tools : d[spec.tools[i]].data = Malformed}

(* What a reconcile concludes from the spec and the objects it read: the   *)
(* reason of the condition it will write and the culprit the message names.*)
Outcome(spec, d) ==
  CASE spec.image = NoImage -> [reason |-> "InvalidSpec", about |-> None]
    [] spec.image # NoImage /\ Missing(spec, d) # {} ->
         [reason |-> "MissingDependency", about |-> First(Missing(spec, d))]
    [] spec.image # NoImage /\ Missing(spec, d) = {}
         /\ (BadSources(spec) # {} \/ spec.model.kind = "both") ->
         [reason |-> "MissingDependency", about |-> None]
    [] OTHER ->
         IF MalformedTools(spec, d) = {} THEN [reason |-> "Rendered", about |-> None]
         ELSE [reason |-> "Error",
               about |-> spec.tools[CHOOSE i \in MalformedTools(spec, d) :
                                    \A j \in MalformedTools(spec, d) : i <= j]]

-----------------------------------------------------------------------------
(* Rendering.                                                              *)

(* promptsData[name] = content, in spec order: the last writer of a name   *)
(* wins.                                                                   *)
PromptFiles(spec, d) ==
  [p \in Prompts |->
     LET at == {i \in DOMAIN spec.prompts : spec.prompts[i].name = p}
         last == spec.prompts[CHOOSE i \in at : \A j \in at : j <= i]
     IN  IF at = {} THEN Absent
         ELSE IF last.kind = "ref" THEN d[p].data ELSE last.content]

ToolFiles(spec, d) ==
  [t \in Tools |-> IF \E i \in DOMAIN spec.tools : spec.tools[i] = t
                   THEN d[t].data ELSE Absent]

ModelBody(spec, d) ==
  CASE spec.model.kind = "ref" -> d[spec.model.name].data
    [] spec.model.kind = "inline" -> spec.model.body
    [] OTHER -> None

RuntimeConfig(spec, d) ==
  [model |-> ModelBody(spec, d),
   plugin |-> IF PluginOf(spec, d) = None THEN None ELSE d[PluginOf(spec, d)].data]

(* The credentials enter the hash under keys that carry the Secret's name. *)
SecretPayload(spec, d) ==
  [name |-> SecretOf(spec, d),
   data |-> IF SecretOf(spec, d) = None THEN None ELSE d[SecretOf(spec, d)].data]

ContentHash(spec, d) ==
  [prompts |-> PromptFiles(spec, d), tools |-> ToolFiles(spec, d),
   config |-> RuntimeConfig(spec, d), secret |-> SecretPayload(spec, d)]

PodTemplate(spec, d) ==
  [image |-> spec.image, port |-> spec.port, envFrom |-> SecretOf(spec, d),
   hash |-> ContentHash(spec, d)]

Kinds == {"prompts", "tools", "config", "service", "deploy"}

Hashes ==
  [prompts : [Prompts -> Data \cup {Absent}], tools : [Tools -> Data \cup {Absent}],
   config : [model : Data \cup {None}, plugin : Data \cup {None}],
   secret : [name : Secrets \cup {None}, data : Data \cup {None}]]

ChildBody(kind) ==
  CASE kind = "prompts" -> [Prompts -> Data \cup {Absent}]
    [] kind = "tools"   -> [Tools -> Data \cup {Absent}]
    [] kind = "config"  -> [model : Data \cup {None}, plugin : Data \cup {None}]
    [] kind = "service" -> Ports
    [] kind = "deploy"  ->
         [replicas : Nat,
          template : [image : Images, port : Ports, envFrom : Secrets \cup {None},
                      hash : Hashes]]

(* Fault: the Deployment is sent before the ConfigMaps its hash covers.    *)
ApplyOrderDeployFirst == <<"deploy", "prompts", "tools", "config", "service">>

(* The order in which applyChildren sends the five children.               *)
ApplyOrder == <<"prompts", "tools", "config", "service", "deploy">>

Child(kind, spec, d) ==
  CASE kind = "prompts" -> PromptFiles(spec, d)
    [] kind = "tools"   -> ToolFiles(spec, d)
    [] kind = "config"  -> RuntimeConfig(spec, d)
    [] kind = "service" -> spec.port
    [] kind = "deploy"  -> [replicas |-> spec.replicas, template |-> PodTemplate(spec, d)]

-----------------------------------------------------------------------------
(* Status.                                                                 *)

NoStatus == [phase |-> None, cond |-> None, avail |-> 0, gen |-> 0, hash |-> None]

(* The Ready condition.  Its message names a culprit ("about") or quotes   *)
(* the phase and the Deployment's replica counts.                          *)
NotReady(reason, about, gen) ==
  [ready |-> FALSE, reason |-> reason, about |-> about, gen |-> gen,
   phase |-> None, avail |-> 0, unavail |-> 0]

ReplicaCondition(phase, st, gen) ==
  [ready |-> phase = "Running", about |-> None, gen |-> gen,
   reason |-> IF phase = "Running" THEN "Ready" ELSE "Reconciling",
   phase |-> phase, avail |-> st.avail, unavail |-> st.unavail]

derivePhase(desired, st) ==
  CASE desired = 0 -> "Running"
    [] desired # 0 /\ st.unavail > 0 /\ st.avail = 0 -> "Pending"
    [] desired # 0 /\ ~(st.unavail > 0 /\ st.avail = 0) /\ ~st.observed -> "Updating"
    [] OTHER -> IF st.avail >= desired THEN "Running" ELSE "Updating"

(* Faults: the phase is the reason; the generation is left out; the status *)
(* is built anew.                                                          *)
RefusedStatusPhaseIsReason(st, gen, reason, about) ==
  [st EXCEPT !.gen = gen, !.phase = reason, !.cond = NotReady(reason, about, gen)]

RefusedStatusKeepsGeneration(st, gen, reason, about) ==
  [st EXCEPT !.phase = "Failed", !.cond = NotReady(reason, about, gen)]

RefusedStatusAnew(st, gen, reason, about) ==
  [NoStatus EXCEPT !.phase = "Failed", !.cond = NotReady(reason, about, gen)]

(* A reconcile that stops early keeps availableReplicas and contentHash.   *)
RefusedStatus(st, gen, reason, about) ==
  [st EXCEPT !.gen = gen,
             !.phase = IF reason = "MissingDependency" THEN "Pending" ELSE "Failed",
             !.cond = NotReady(reason, about, gen)]

(* The status after the children are applied and the Deployment looked up. *)
ObservedStatus(st, gen, spec, hash, dep) ==
  IF dep = Absent
  THEN [st EXCEPT !.gen = gen, !.hash = hash, !.phase = "Pending",
                  !.cond = NotReady("Reconciling", None, gen)]
  ELSE LET phase == derivePhase(spec.replicas, dep.status)
       IN  [phase |-> phase, gen |-> gen, hash |-> hash, avail |-> dep.status.avail,
            cond |-> ReplicaCondition(phase, dep.status, gen)]

(* The status a reconcile that meets no failure leaves, starting from st.  *)
FinalStatus(st, obj, d, dep) ==
  LET o == Outcome(obj.spec, d)
  IN  IF o.reason = "Rendered"
      THEN ObservedStatus(st, obj.gen, obj.spec, ContentHash(obj.spec, d), dep)
      ELSE RefusedStatus(st, obj.gen, o.reason, o.about)

(* Status().Patch with MergeFrom: only the fields in which the updated     *)
(* copy differs from the copy first read are written.                      *)
MergedStatus(st, orig, upd) ==
  [phase |-> IF upd.phase = orig.phase THEN st.phase ELSE upd.phase,
   cond  |-> IF upd.cond = orig.cond THEN st.cond ELSE upd.cond,
   avail |-> IF upd.avail = orig.avail THEN st.avail ELSE upd.avail,
   gen   |-> IF upd.gen = orig.gen THEN st.gen ELSE upd.gen,
   hash  |-> IF upd.hash = orig.hash THEN st.hash ELSE upd.hash]

Phases == {"Pending", "Running", "Failed", "Updating", None}

Conditions ==
  [ready : BOOLEAN, about : Deps \cup Kinds \cup {None}, gen : Nat, phase : Phases,
   reason : {"Ready", "Reconciling", "MissingDependency", "InvalidSpec", "Error"},
   avail : Nat, unavail : Nat]

Status ==
  [phase : Phases, cond : Conditions \cup {None}, avail : Nat, gen : Nat,
   hash : Hashes \cup {None}]

-----------------------------------------------------------------------------
(* Watches: the Flows an event on an object wakes, computed from the       *)
(* cached Flows cf and the cached dependencies cd when the handler runs.   *)

(* Faults: a kind of reference the mapper does not look at.                *)
flowReferencesNoTools(spec, o) ==
  \/ \E i \in DOMAIN spec.prompts : spec.prompts[i].name = o
  \/ spec.model.kind \in {"ref", "both"} /\ spec.model.name = o

flowReferencesNoPrompts(spec, o) ==
  \/ \E i \in DOMAIN spec.tools : spec.tools[i] = o
  \/ spec.model.kind \in {"ref", "both"} /\ spec.model.name = o

flowReferences(spec, o) ==
  \/ \E i \in DOMAIN spec.prompts : spec.prompts[i].name = o
  \/ \E i \in DOMAIN spec.tools : spec.tools[i] = o
  \/ spec.model.kind \in {"ref", "both"} /\ spec.model.name = o

flowsReferencingPluginConfigInline(pc, cf, cd) ==
  {f \in Flows : /\ cf[f] # Absent
                 /\ cf[f].spec.model.kind \in {"inline", "both"}
                 /\ cf[f].spec.model.plugin = pc}

flowsReferencingPluginConfig(pc, cf, cd) ==
  LET modelNames == {m \in Models : cd[m] # Absent /\ cd[m].ref = pc}
      live == {f \in Flows : cf[f] # Absent}
  IN  {f \in live :
         LET model == cf[f].spec.model
         IN  \/ model.kind \in {"ref", "both"} /\ model.name \in modelNames
             \/ model.kind \in {"inline", "both"} /\ model.plugin = pc}

secretToFlowNone(s, cf, cd) == {}

secretToFlow(s, cf, cd) ==
  UNION {flowsReferencingPluginConfig(pc, cf, cd) :
           pc \in {c \in PluginConfigs : cd[c] # Absent /\ cd[c].ref = s}}

Woken(n, cf, cd) ==
  CASE n \in PluginConfigs -> flowsReferencingPluginConfig(n, cf, cd)
    [] n \in Secrets -> secretToFlow(n, cf, cd)
    [] OTHER -> {f \in Flows : cf[f] # Absent /\ flowReferences(cf[f].spec, n)}
=============================================================================
