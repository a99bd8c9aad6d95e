------------------------------- MODULE Readiness -------------------------------
(***************************************************************************)
(* The five controllers that do nothing but write a status: PluginConfig,  *)
(* Model, Tool, Prompt and Dataset.  They are one design five times.  Each *)
(* takes an object from its cache, checks that exactly one source is given,*)
(* looks up at most one other object in another cache, and patches the     *)
(* status by name.  A Secret wakes the PluginConfigs that name it, a       *)
(* PluginConfig the Models, a Flow the Tools; the ConfigMap of a Dataset   *)
(* wakes nobody.  Each controller has a queue and a worker of its own.     *)
(***************************************************************************)
EXTENDS Integers, FiniteSets

CONSTANTS
  PluginConfigs, Models, Tools, Prompts, Datasets,  \* objects, by kind
  Secrets, Flows, ConfigMaps,   \* the objects they may refer to
  Data,                         \* contents: prompts, URLs, ports, provider and model
  Texts,                        \* what a sample file may hold
  Malformed, None, Absent, Unread, Failed,
  Plans       \* bound: what exists at the start and what may happen then

Owned == PluginConfigs \cup Models \cup Tools \cup Prompts \cup Datasets
Others == Secrets \cup Flows \cup ConfigMaps

Controllers == {PluginConfigs, Models, Tools, Prompts, Datasets}
ControllerOf(o) == CHOOSE c \in Controllers : o \in c

(* A sample file: what it is as JSON (null is an empty array), its lines   *)
(* that are not blank, and its CSV records.                                *)
Text == [json : {"array", "object", "other", "none"}, items : Nat, lines : Nat,
         rows : Nat \cup {Malformed}]

(* PluginConfigs and Models have a reference or an empty one, Prompts have *)
(* content or blanks; Tools and Datasets choose between several sources.   *)
SpecOf(o) ==
  {s \in [sources : SUBSET (CASE o \in PluginConfigs \cup Models -> {"ref"}
                             [] o \in Prompts -> {"here"}
                             [] o \in Tools -> {"ref", "here"}
                             [] OTHER -> {"ref", "here", "uri"}),
          ref : (CASE o \in PluginConfigs -> Secrets
                   [] o \in Models -> PluginConfigs
                   [] o \in Tools -> Flows
                   [] OTHER -> ConfigMaps) \cup {None},
          body : (IF o \in Datasets THEN Texts ELSE Data) \cup {None},
          format : IF o \in Datasets THEN {"json", "jsonl", "csv"} ELSE {None}] :
     ("ref" \in s.sources => s.ref # None) /\ ("here" \in s.sources => s.body # None)}

(* What a Secret, a Flow or a ConfigMap holds; None is a ConfigMap without *)
(* the key.                                                                *)
ContentOf(o) == IF o \in ConfigMaps THEN Texts \cup {None} ELSE Data

Condition(reason, gen) == [ready |-> reason = "Ready", reason |-> reason, gen |-> gen]

Conditions ==
  {c \in [ready : BOOLEAN, reason : {"Ready", "InvalidSpec", "MissingDependency", "Error"},
          gen : Nat] : c.ready <=> c.reason = "Ready"}

(* status.observedGeneration, the Ready condition and what else is said.   *)
Status ==
  [gen : Nat, cond : Conditions \cup {None}, result : Data \cup Flows \cup Int \cup {None}]

Object(o) == [uid : Nat, spec : SpecOf(o), gen : Nat, status : Status]

ReconcileOf(o) ==
  [obj : {o}, orig : Object(o),
   seen : {Unread, Absent} \cup IF o \in Datasets THEN {None} \cup Texts ELSE {Failed, TRUE}]

(* Names of different kinds of object differ, and the marks from data.     *)
ASSUME KindsAssumption ==
  /\ PluginConfigs \cap (Models \cup Tools \cup Prompts \cup Datasets) = {}
  /\ Models \cap (Tools \cup Prompts \cup Datasets) = {}
  /\ Tools \cap (Prompts \cup Datasets) = {} /\ Prompts \cap Datasets = {}
  /\ Owned \cap Others = {}
  /\ Secrets \cap Flows = {} /\ ConfigMaps \cap (Secrets \cup Flows) = {}

ASSUME MarksAssumption ==
  /\ None \notin Owned \cup Others \cup Data \cup Texts /\ Absent \notin Data \cup Texts
  /\ \A m \in {Unread, Failed} : m \notin {Absent, None} \cup Texts /\ m # TRUE
  /\ None # Absent /\ Unread # Failed /\ TRUE # Absent /\ Malformed \notin Int

ASSUME RecordsAssumption ==
  (\A o \in Owned : Absent \notin Object(o) /\ None \notin ReconcileOf(o)) /\ None \notin Conditions

(* A plan: the specs and values there are at the start, Absent where there *)
(* is no object, and those users may write, Absent where they may delete;  *)
(* how many changes they make, and how many calls fail, restarts included. *)
ASSUME ReadinessAssumption ==
  /\ Texts \subseteq Text
  /\ \A p \in Plans :
       /\ \A o \in Owned : {p.start[o]} \cup p.writes[o] \subseteq SpecOf(o) \cup {Absent}
       /\ \A o \in Others : {p.start[o]} \cup p.writes[o] \subseteq ContentOf(o) \cup {Absent}
       /\ p.max.changes \in Nat /\ p.max.faults \in Nat

VARIABLES
  objs,    \* API server: the objects these controllers own, with their status
  others,  \* API server: Secrets, Flows and ConfigMaps
  cobjs,   \* informer cache of objs
  cothers, \* informer cache of others
  notes,   \* objects whose cache changed and whose mapper must still run
  queue,   \* the work queues
  recs,    \* recs[c]: the reconcile controller c runs, None when its worker is idle
  plan,    \* the plan this behaviour follows
  changes, \* how much of plan.max.changes is used
  faults   \* how much of plan.max.faults is used

cluster == <<objs, others>>
caches == <<cobjs, cothers>>
readinessVars == <<cluster, caches, notes, queue, recs, changes, faults>>

-----------------------------------------------------------------------------
(* What a reconcile computes.                                              *)

(* Fault: the header is subtracted from an empty file too.                 *)
countSamplesHeaderAlways(format, text) ==
  CASE format = "json" -> CASE text.json = "array" -> text.items
                            [] text.json = "object" -> 1
                            [] OTHER -> Malformed
    [] format = "jsonl" -> text.lines
    [] format = "csv" -> IF text.rows = Malformed THEN Malformed ELSE text.rows - 1

(* The number of samples in a file, Malformed if it does not parse.        *)
countSamplesBytes(format, text) ==
  CASE format = "json" -> CASE text.json = "array" -> text.items
                            [] text.json = "object" -> 1
                            [] OTHER -> Malformed
    [] format = "jsonl" -> text.lines
    [] format = "csv" -> IF text.rows \in {0, Malformed} THEN text.rows ELSE text.rows - 1

LooksUp(spec) == spec.sources = {"ref"}

IsReady(obj) == obj # Absent /\ obj.status.cond # None /\ obj.status.cond.ready

(* Fault: a PluginConfig need only exist.                                  *)
SeenExisting(o, spec, os, vs) ==
  CASE o \in Models -> IF os[spec.ref] # Absent THEN TRUE ELSE Absent
    [] o \in Datasets -> vs[spec.ref]
    [] OTHER -> IF vs[spec.ref] # Absent THEN TRUE ELSE Absent

(* What a reconcile of o sees of the object it refers to: Absent if it is  *)
(* of no use, which for a PluginConfig includes one that is not Ready; what*)
(* a ConfigMap holds; otherwise that there is one.                         *)
Seen(o, spec, os, vs) ==
  CASE o \in Models -> IF IsReady(os[spec.ref]) THEN TRUE ELSE Absent
    [] o \in Datasets -> vs[spec.ref]
    [] OTHER -> IF vs[spec.ref] # Absent THEN TRUE ELSE Absent

(* The samples counted, None when nothing is counted.                      *)
Samples(spec, seen) ==
  CASE spec.sources = {"uri"} -> -1
    [] spec.sources = {"here"} -> countSamplesBytes(spec.format, spec.body)
    [] OTHER -> IF seen = None THEN Malformed ELSE countSamplesBytes(spec.format, seen)

Reason(o, spec, seen) ==
  CASE Cardinality(spec.sources) # 1 -> "InvalidSpec"
    [] LooksUp(spec) /\ seen = Failed -> "Error"
    [] LooksUp(spec) /\ seen = Absent -> "MissingDependency"
    [] o \in Datasets /\ Samples(spec, seen) = Malformed -> "InvalidSpec"
    [] OTHER -> "Ready"

(* status.resolvedTarget of a Tool, contentHash and parsedFrontmatter of a *)
(* Prompt, sampleCount of a Dataset.                                       *)
Result(o, spec, seen) ==
  CASE o \in Tools -> IF LooksUp(spec) THEN spec.ref ELSE spec.body
    [] o \in Prompts -> spec.body
    [] o \in Datasets -> Samples(spec, seen)
    [] OTHER -> None

NoStatus == [gen |-> 0, cond |-> None, result |-> None]

(* The status a reconcile of obj ends with, starting from status st.  When *)
(* the object is refused, the result of the last success is kept.          *)
ReconciledStatus(o, st, obj, seen) ==
  LET reason == Reason(o, obj.spec, seen)
  IN  [gen |-> obj.gen,
       cond |-> Condition(reason, obj.gen),
       result |-> IF reason = "Ready" THEN Result(o, obj.spec, seen) ELSE st.result]

(* The merge patch: what did not change in the copy is left alone.         *)
Merged(live, orig, upd) ==
  [k \in DOMAIN live |-> IF upd[k] = orig[k] THEN live[k] ELSE upd[k]]

(* Fault: Models do not hear of their PluginConfig.                        *)
WatchersOfSecretsOnly(n) ==
  CASE n \in Secrets -> PluginConfigs
    [] n \in Flows -> Tools
    [] OTHER -> {}

(* The objects the mapper for n enqueues, from the caches as they are.     *)
WatchersOf(n) ==
  CASE n \in Secrets -> PluginConfigs
    [] n \in PluginConfigs -> Models
    [] n \in Flows -> Tools
    [] OTHER -> {}

Woken(n) == {o \in WatchersOf(n) : cobjs[o] # Absent /\ cobjs[o].spec.ref = n}

-----------------------------------------------------------------------------
New(spec, uid) ==
  IF spec = Absent THEN Absent
  ELSE [uid |-> uid, spec |-> spec, gen |-> 1, status |-> NoStatus]

Edited(obj, spec) == [obj EXCEPT !.spec = spec, !.gen = @ + 1]

Existing(store) == {o \in DOMAIN store : store[o] # Absent}

ReadinessInit ==
  /\ plan \in Plans
  /\ objs = [o \in Owned |-> New(plan.start[o], 0)] /\ cobjs = objs
  /\ others = [o \in Others |-> plan.start[o]] /\ cothers = others
  /\ notes = {} /\ queue = Existing(objs)
  /\ recs = [c \in Controllers |-> None]
  /\ changes = 0 /\ faults = 0

Change == changes < plan.max.changes /\ changes' = changes + 1
Fault == faults < plan.max.faults /\ faults' = faults + 1

(* Users write a spec, which creates the object where there is none, or    *)
(* delete it.                                                              *)
ObjectWrite(o, s) ==
  /\ Change
  /\ s # IF objs[o] = Absent THEN Absent ELSE objs[o].spec
  /\ objs' = [objs EXCEPT ![o] = IF @ = Absent \/ s = Absent THEN New(s, changes')
                                 ELSE Edited(@, s)]
  /\ UNCHANGED <<others, caches, notes, queue, recs, faults>>

OtherWrite(o, v) ==
  /\ Change /\ others[o] # v
  /\ others' = [others EXCEPT ![o] = v]
  /\ UNCHANGED <<objs, caches, notes, queue, recs, faults>>

(* Informers.  The event of an object reaches its own controller's queue   *)
(* with the cache update, and the mapper of the next controller later.     *)
InformObject(o) ==
  /\ cobjs[o] # objs[o]
  /\ cobjs' = [cobjs EXCEPT ![o] = objs[o]]
  /\ queue' = queue \cup {o}
  /\ notes' = notes \cup ({o} \cap PluginConfigs)
  /\ UNCHANGED <<cluster, cothers, recs, changes, faults>>

InformOther(o) ==
  /\ cothers[o] # others[o]
  /\ cothers' = [cothers EXCEPT ![o] = others[o]]
  /\ notes' = notes \cup ({o} \ ConfigMaps)
  /\ UNCHANGED <<cluster, cobjs, queue, recs, changes, faults>>

Handle(n) ==
  /\ n \in notes
  /\ notes' = notes \ {n}
  /\ queue' = queue \cup Woken(n)
  /\ UNCHANGED <<cluster, caches, recs, changes, faults>>

-----------------------------------------------------------------------------
(* The controllers.                                                        *)

Start(o) ==
  LET c == ControllerOf(o)
  IN  /\ o \in queue /\ recs[c] = None
      /\ queue' = queue \ {o}
      /\ recs' = [recs EXCEPT ![c] = IF cobjs[o] = Absent THEN None
                                     ELSE [obj |-> o, orig |-> cobjs[o], seen |-> Unread]]
      /\ UNCHANGED <<cluster, caches, notes, changes, faults>>

Waiting(c) == recs[c] # None /\ LooksUp(recs[c].orig.spec) /\ recs[c].seen = Unread

LookUp(c) ==
  /\ Waiting(c)
  /\ recs' = [recs EXCEPT ![c].seen = Seen(recs[c].obj, recs[c].orig.spec, cobjs, cothers)]
  /\ UNCHANGED <<cluster, caches, notes, queue, changes, faults>>

(* A lookup that fails is reported by the PluginConfig controller, which   *)
(* then returns the error; the others return it at once.                   *)
LookUpFails(c) ==
  /\ Waiting(c) /\ Fault
  /\ IF c = PluginConfigs
     THEN recs' = [recs EXCEPT ![c].seen = Failed] /\ UNCHANGED queue
     ELSE recs' = [recs EXCEPT ![c] = None] /\ queue' = queue \cup {recs[c].obj}
  /\ UNCHANGED <<cluster, caches, notes, changes>>

Patched(c) ==
  LET r == recs[c]
      upd == ReconciledStatus(r.obj, r.orig.status, r.orig, r.seen)
  IN  objs' = [objs EXCEPT ![r.obj].status = Merged(@, r.orig.status, upd)]

Patching(c) == recs[c] # None /\ ~Waiting(c)

(* A request whose lookup failed is queued again; so is one whose object   *)
(* is no longer there to be patched.                                       *)
PatchStatus(c) ==
  /\ Patching(c)
  /\ recs' = [recs EXCEPT ![c] = None]
  /\ IF objs[recs[c].obj] = Absent THEN UNCHANGED objs ELSE Patched(c)
  /\ queue' = IF recs[c].seen = Failed \/ objs[recs[c].obj] = Absent
              THEN queue \cup {recs[c].obj} ELSE queue
  /\ UNCHANGED <<others, caches, notes, changes, faults>>

(* A failing patch, which may have been carried out, is an error.          *)
PatchStatusFails(c) ==
  /\ Patching(c) /\ objs[recs[c].obj] # Absent /\ Fault
  /\ Patched(c) \/ UNCHANGED objs
  /\ recs' = [recs EXCEPT ![c] = None]
  /\ queue' = queue \cup {recs[c].obj}
  /\ UNCHANGED <<others, caches, notes, changes>>

(* A new manager lists everything, and every object listed is reconciled.  *)
Crash ==
  /\ Fault
  /\ cobjs' = objs /\ cothers' = others
  /\ notes' = {} /\ queue' = Existing(objs)
  /\ recs' = [c \in Controllers |-> None]
  /\ UNCHANGED <<cluster, changes>>

-----------------------------------------------------------------------------
Users ==
  \/ \E o \in Owned : \E s \in plan.writes[o] : ObjectWrite(o, s)
  \/ \E o \in Others : \E v \in plan.writes[o] : OtherWrite(o, v)

InformAny == (\E o \in Owned : InformObject(o)) \/ (\E o \in Others : InformOther(o))

HandleAny == \E n \in notes : Handle(n)

Work(c) == (\E o \in c : Start(o)) \/ LookUp(c) \/ PatchStatus(c)

Fails == \E c \in Controllers : LookUpFails(c) \/ PatchStatusFails(c)

-----------------------------------------------------------------------------
(* Types of what the API server, the caches and the controllers keep.      *)
Objects(store) ==
  /\ store = [o \in Owned |-> store[o]]
  /\ \A o \in Owned : store[o] # Absent =>
       /\ store[o] \in Object(o) /\ store[o].gen \in 1..(changes + 1)
       /\ store[o].spec \in plan.writes[o] \cup {plan.start[o]}

Contents(store) ==
  /\ store = [o \in Others |-> store[o]]
  /\ \A o \in Others : store[o] \in ContentOf(o) \cup {Absent}

ReadinessTypeOK ==
  /\ plan \in Plans /\ changes \in 0..plan.max.changes /\ faults \in 0..plan.max.faults
  /\ Objects(objs) /\ Objects(cobjs) /\ Contents(others) /\ Contents(cothers)
  /\ notes \subseteq PluginConfigs \cup Secrets \cup Flows /\ queue \subseteq Owned
  /\ recs = [c \in Controllers |-> recs[c]]
  /\ \A c \in Controllers : recs[c] # None => \E o \in c : recs[c] \in ReconcileOf(o)

(* Nothing that would make its controller reconcile o is under way.        *)
AtRest(o) ==
  /\ o \notin queue /\ cobjs[o] = objs[o]
  /\ recs[ControllerOf(o)] = None \/ recs[ControllerOf(o)].obj # o
  /\ \A n \in notes : o \notin Woken(n)

(* What the last reconcile of o may have seen: what is in the caches now,  *)
(* except that a Dataset does not hear of its ConfigMap, of which there is *)
(* no telling what it held.                                                *)
MayHaveSeen(o, spec, os, vs) ==
  CASE ~LooksUp(spec) -> {Unread}
    [] LooksUp(spec) /\ o \in Datasets -> ContentOf(spec.ref) \cup {Absent}
    [] OTHER -> {Seen(o, spec, os, vs)}

(* What a reconcile would give obj as its status, it has.                  *)
Settled(o, obj, os, vs) ==
  \E seen \in MayHaveSeen(o, obj.spec, os, vs) :
    obj.status = ReconciledStatus(o, obj.status, obj, seen)

(* No wakeup is lost and no error forgotten (SetupWithManager and          *)
(* watches.go): an object nothing will reconcile again has the status a    *)
(* reconcile would give it, whatever was edited, deleted, created again,   *)
(* or failed meanwhile.                                                    *)
StatusesSettle ==
  \A o \in Existing(objs) : AtRest(o) => Settled(o, objs[o], cobjs, cothers)

(* A PluginConfig is of use when its Secret exists, a Model when its       *)
(* PluginConfig is, a Tool when it has one target and a Flow to call.      *)
HasSecret(pc) == objs[pc] # Absent /\ LooksUp(objs[pc].spec) /\ others[objs[pc].spec.ref] # Absent

Usable(o) ==
  LET spec == objs[o].spec
  IN  CASE o \in PluginConfigs -> HasSecret(o)
        [] o \in Models -> LooksUp(spec) /\ HasSecret(spec.ref)
        [] OTHER -> spec.sources = {"here"} \/ (LooksUp(spec) /\ others[spec.ref] # Absent)

(* Readiness propagates (watches.go, model_controller.go:103 "so a         *)
(* PluginConfig becoming Ready propagates to dependent Models"): when      *)
(* nothing is under way, a Model is Ready exactly if there is a Secret at  *)
(* the end of its chain, and a Tool names the target it resolved to.       *)
ChainAgrees ==
  (\A o \in Existing(objs) : AtRest(o)) /\ cobjs = objs /\ cothers = others /\ notes = {} =>
    \A o \in Existing(objs) \ Datasets :
      /\ IsReady(objs[o]) <=> Usable(o)
      /\ o \in Tools /\ Usable(o) =>
           objs[o].status.result = IF LooksUp(objs[o].spec) THEN objs[o].spec.ref
                                   ELSE objs[o].spec.body

(* dataset_types.go:85: a count of -1 says that the samples are at a URI   *)
(* and were not counted; no file that was counted gives it.                *)
SampleCountSound ==
  \A o \in Existing(objs) \cap Datasets :
    AtRest(o) /\ IsReady(objs[o]) =>
      /\ objs[o].status.result >= -1
      /\ objs[o].status.result = -1 <=> objs[o].spec.sources = {"uri"}
=============================================================================
