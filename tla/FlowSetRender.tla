----------------------------- MODULE FlowSetRender -----------------------------
(***************************************************************************)
(* The pure part of the FlowSet controller: what resolveDeps concludes,    *)
(* what renderFlowSet makes of a FlowSet whose flows share one Pod, the    *)
(* status a reconcile writes, and the watch events that wake it.           *)
(*                                                                         *)
(* A flow of the set refers to prompts, tools and a model as a Flow does,  *)
(* so FlowRender's operators apply to it; here Flows are the names flows   *)
(* of the set may have.  resolveDeps reads a dependency once for every     *)
(* flow that uses it: got[i] is what it read for the i-th flow.            *)
(***************************************************************************)
EXTENDS FlowRender, FiniteSets

FlowSetFlow ==
  [name : Flows, prompts : Seq(PromptSource) \ {<<>>}, tools : Seq(Tools),
   model : ModelSource]

(* The API server rejects two flows of the same name.                      *)
DistinctNames(flows) ==
  \A i, j \in DOMAIN flows : flows[i].name = flows[j].name => i = j

FlowSetSpec ==
  [image : Images \cup {NoImage}, port : Ports, replicas : Nat, flows : Seq(FlowSetFlow)]

-----------------------------------------------------------------------------
(* Resolution.                                                             *)

Entries(spec) == DOMAIN spec.flows

(* An object of the flow is missing, or all were read and its prompts or   *)
(* its model are not exactly one of a reference and an inline definition.  *)
FlowRefused(flow, d) ==
  \/ Missing(flow, d) # {}
  \/ /\ ToRead(flow, d) = {}
     /\ BadSources(flow) # {} \/ flow.model.kind \in {"both", "none"}

Unresolved(spec, got) ==
  {i \in Entries(spec) : ToRead(spec.flows[i], got[i]) # {} \/ FlowRefused(spec.flows[i], got[i])}

Least(is) == CHOOSE i \in is : \A j \in is : i <= j

(* The flow whose dependencies are being read.                             *)
Current(spec, got) == Least(Unresolved(spec, got))

MalformedFlows(spec, got) ==
  {i \in Entries(spec) : MalformedTools(spec.flows[i], got[i]) # {}}

SetOutcome(spec, got) ==
  CASE spec.image = NoImage -> [reason |-> "InvalidSpec", flow |-> None, about |-> None]
    [] spec.image # NoImage /\ Unresolved(spec, got) # {} ->
         LET i == Current(spec, got)
             missing == Missing(spec.flows[i], got[i])
         IN  [reason |-> "MissingDependency", flow |-> spec.flows[i].name,
              about |-> IF missing = {} THEN None ELSE First(missing)]
    [] OTHER ->
         IF MalformedFlows(spec, got) = {}
         THEN [reason |-> "Rendered", flow |-> None, about |-> None]
         ELSE LET i == Least(MalformedFlows(spec, got))
              IN  [reason |-> "Error", flow |-> spec.flows[i].name,
                   about |-> spec.flows[i].tools[Least(MalformedTools(spec.flows[i], got[i]))]]

-----------------------------------------------------------------------------
(* Rendering.                                                              *)

(* The children: the manifest, Service and Deployment of the set, and the  *)
(* three ConfigMaps of each flow.                                          *)
ManifestSlot == <<None, "manifest">>
ServiceSlot == <<None, "service">>
DeploySlot == <<None, "deploy">>
FlowMaps == <<"prompts", "tools", "config">>
MapSlots == {ManifestSlot} \cup (Flows \X {FlowMaps[k] : k \in 1..3})
Slots == MapSlots \cup {ServiceSlot, DeploySlot}

FlowNames(spec) == {spec.flows[i].name : i \in Entries(spec)}
WantedMaps(spec) == {ManifestSlot} \cup (FlowNames(spec) \X {FlowMaps[k] : k \in 1..3})

(* Fault: the Deployment is sent before the ConfigMaps its hash covers.    *)
SetApplyOrderDeployFirst(spec) ==
  <<DeploySlot, ManifestSlot>>
    \o [k \in 1..(3 * Len(spec.flows)) |->
          <<spec.flows[((k - 1) \div 3) + 1].name, FlowMaps[((k - 1) % 3) + 1]>>]
    \o <<ServiceSlot>>

(* The order in which applyChildren sends them.                            *)
SetApplyOrder(spec) ==
  <<ManifestSlot>>
    \o [k \in 1..(3 * Len(spec.flows)) |->
          <<spec.flows[((k - 1) \div 3) + 1].name, FlowMaps[((k - 1) % 3) + 1]>>]
    \o <<ServiceSlot, DeploySlot>>

Manifest(spec) ==
  [i \in Entries(spec) |-> [name |-> spec.flows[i].name,
                            entrypoint |-> spec.flows[i].prompts[1].name]]

(* config.json also names the directory of the flow's credentials.         *)
FlowConfig(flow, d) == [dir |-> flow.name, config |-> RuntimeConfig(flow, d)]

MapBody(kind, flow, d) ==
  CASE kind = "prompts" -> PromptFiles(flow, d)
    [] kind = "tools"   -> ToolFiles(flow, d)
    [] kind = "config"  -> FlowConfig(flow, d)

(* Fault: the credentials are left out of the hash.                        *)
SetHashNoSecrets(spec, got) ==
  [config |-> [i \in Entries(spec) |-> FlowConfig(spec.flows[i], got[i])],
   prompts |-> [i \in Entries(spec) |-> PromptFiles(spec.flows[i], got[i])],
   tools |-> [i \in Entries(spec) |-> ToolFiles(spec.flows[i], got[i])],
   manifest |-> Manifest(spec), secrets |-> None]

(* The files there are of one name, in flow order: <<rank, content>>.      *)
InOrder(file) ==
  LET present == {i \in DOMAIN file : Present(file[i])}
  IN  {<<Cardinality({j \in present : j < i}), file[i]>> : i \in present}

(* The content hash: every file of every flow, by file name.  Files of     *)
(* different flows with the same name follow one another in flow order, as *)
(* the sort leaves them when there are few; a Secret counts once.          *)
SetHash(spec, got) ==
  LET users(s) == {i \in Entries(spec) : SecretOf(spec.flows[i], got[i]) = s}
  IN  [prompts |-> [p \in Prompts |->
         InOrder([i \in Entries(spec) |-> PromptFiles(spec.flows[i], got[i])[p]])],
       tools |-> [t \in Tools |->
         InOrder([i \in Entries(spec) |-> ToolFiles(spec.flows[i], got[i])[t]])],
       config |-> [i \in Entries(spec) |-> FlowConfig(spec.flows[i], got[i])],
       manifest |-> Manifest(spec),
       secrets |-> [s \in Secrets |-> IF users(s) = {} THEN None
                                      ELSE got[Least(users(s))][s].data]]

(* Volumes name the ConfigMaps after the flow, and the flow's Secret.      *)
SetTemplate(spec, got) ==
  [image |-> spec.image, port |-> spec.port, hash |-> SetHash(spec, got),
   volumes |-> {<<spec.flows[i].name, SecretOf(spec.flows[i], got[i])>> : i \in Entries(spec)}]

SetChild(slot, spec, got) ==
  CASE slot = ManifestSlot -> Manifest(spec)
    [] slot = ServiceSlot -> spec.port
    [] slot = DeploySlot -> [replicas |-> spec.replicas, template |-> SetTemplate(spec, got)]
    [] OTHER -> LET i == CHOOSE j \in Entries(spec) : spec.flows[j].name = slot[1]
                IN  MapBody(slot[2], spec.flows[i], got[i])

(* What the children of a set that can be rendered hold.                   *)
FlowConfigs == [dir : Flows, config : ChildBody("config")]

Manifests == Seq([name : Flows, entrypoint : Prompts])

SetHashes ==
  [prompts : [Prompts -> SUBSET (Nat \X Data)], tools : [Tools -> SUBSET (Nat \X Data)],
   config : Seq(FlowConfigs), manifest : Manifests, secrets : [Secrets -> Data \cup {None}]]

SetTemplates ==
  [image : Images, port : Ports, hash : SetHashes, volumes : SUBSET (Flows \X Secrets)]

SetChildBody(slot) ==
  CASE slot = ManifestSlot -> Manifests
    [] slot = ServiceSlot -> Ports
    [] slot = DeploySlot -> [replicas : Nat, template : SetTemplates]
    [] OTHER -> IF slot[2] = "config" THEN FlowConfigs ELSE ChildBody(slot[2])

-----------------------------------------------------------------------------
(* Status.                                                                 *)

NoMessage == [flow |-> None, about |-> None, phase |-> None, avail |-> 0, replicas |-> 0]

NoSetStatus ==
  [phase |-> None, cond |-> None, avail |-> 0, gen |-> 0, hash |-> None,
   total |-> 0, ready |-> 0, flows |-> <<>>]

PerFlow(spec, ready, phase, msg) ==
  [i \in Entries(spec) |-> [name |-> spec.flows[i].name, ready |-> ready,
                            phase |-> phase, msg |-> msg]]

ReadyEntries(entries) == Cardinality({i \in DOMAIN entries : entries[i].ready})

(* Fault: the phase is the reason.                                         *)
SetRefusedStatusPhaseIsReason(st, spec, gen, reason, flow, about) ==
  LET msg == [NoMessage EXCEPT !.flow = flow, !.about = about]
  IN  [st EXCEPT !.gen = gen, !.total = Len(spec.flows), !.phase = reason,
         !.cond = [ready |-> FALSE, reason |-> reason, gen |-> gen, msg |-> msg]]

(* A reconcile that stops early: only a missing dependency rewrites the    *)
(* per-flow entries, and none of them counts the ready ones again.         *)
SetRefusedStatus(st, spec, gen, reason, flow, about) ==
  LET msg == [NoMessage EXCEPT !.flow = flow, !.about = about]
      new == [st EXCEPT !.gen = gen, !.total = Len(spec.flows), !.phase = "Failed",
                !.cond = [ready |-> FALSE, reason |-> reason, gen |-> gen, msg |-> msg]]
  IN  IF reason = "MissingDependency"
      THEN [new EXCEPT !.phase = "Pending", !.flows = PerFlow(spec, FALSE, "Pending", msg)]
      ELSE new

SetObservedStatus(st, spec, gen, hash, dep) ==
  LET phase == IF dep = Absent THEN "Pending" ELSE derivePhase(spec.replicas, dep.status)
      up == phase = "Running"
      msg == IF dep = Absent THEN NoMessage
             ELSE [NoMessage EXCEPT !.phase = phase, !.avail = dep.status.avail,
                                    !.replicas = dep.status.avail + dep.status.unavail]
      entries == PerFlow(spec, up, phase, msg)
  IN  [phase |-> phase, gen |-> gen, hash |-> hash, total |-> Len(spec.flows),
       avail |-> IF dep = Absent THEN st.avail ELSE dep.status.avail,
       cond |-> [ready |-> up, reason |-> IF up THEN "Ready" ELSE "Reconciling",
                 gen |-> gen, msg |-> msg],
       flows |-> entries, ready |-> ReadyEntries(entries)]

SetMessages ==
  [flow : Flows \cup {None}, phase : Phases, avail : Nat, replicas : Nat,
   about : Deps \cup {None} \cup {s[2] : s \in Slots}]

SetConditions ==
  [ready : BOOLEAN, gen : Nat, msg : SetMessages,
   reason : {"Ready", "Reconciling", "MissingDependency", "InvalidSpec", "Error"}]

SetStatus ==
  [phase : Phases, cond : SetConditions \cup {None}, avail : Nat, gen : Nat,
   hash : SetHashes \cup {None}, total : Nat, ready : Nat,
   flows : Seq([name : Flows, ready : BOOLEAN, phase : Phases, msg : SetMessages])]

(* The status a reconcile that meets no failure leaves, starting from st.  *)
SetFinalStatus(st, obj, got, dep) ==
  LET o == SetOutcome(obj.spec, got)
  IN  IF o.reason = "Rendered"
      THEN SetObservedStatus(st, obj.spec, obj.gen, SetHash(obj.spec, got), dep)
      ELSE SetRefusedStatus(st, obj.spec, obj.gen, o.reason, o.flow, o.about)

(* Status().Patch with MergeFrom writes the fields that changed.           *)
SetMerged(st, orig, upd) ==
  [field \in DOMAIN st |-> IF upd[field] = orig[field] THEN st[field] ELSE upd[field]]

-----------------------------------------------------------------------------
(* Watches: whether an event on n wakes the cached FlowSet with this spec. *)

flowSetReferences(spec, n) == \E i \in Entries(spec) : flowReferences(spec.flows[i], n)

flowSetReferencesPluginConfig(spec, pc, cd) ==
  \E i \in Entries(spec) :
    LET model == spec.flows[i].model
    IN  \/ /\ model.kind \in {"ref", "both"}
           /\ cd[model.name] # Absent /\ cd[model.name].ref = pc
        \/ model.kind \in {"inline", "both"} /\ model.plugin = pc

(* Fault: Secrets are not followed.                                        *)
WakesSetIgnoresSecrets(n, spec, cd) ==
  IF n \in PluginConfigs THEN flowSetReferencesPluginConfig(spec, n, cd)
  ELSE n \notin Secrets /\ flowSetReferences(spec, n)

WakesSet(n, spec, cd) ==
  CASE n \in PluginConfigs -> flowSetReferencesPluginConfig(spec, n, cd)
    [] n \in Secrets -> \E pc \in PluginConfigs :
                          /\ cd[pc] # Absent /\ cd[pc].ref = n
                          /\ flowSetReferencesPluginConfig(spec, pc, cd)
    [] OTHER -> flowSetReferences(spec, n)

=============================================================================
