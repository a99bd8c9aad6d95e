---------------------------- MODULE FlowController ----------------------------
(***************************************************************************)
(* The Flow controller of the manager process, the Kubernetes API server   *)
(* it reads from and writes to, and what lies between the two: informer    *)
(* caches that lag behind the API server, watch handlers that run later    *)
(* than the cache update they were told of, a work queue, and one worker   *)
(* whose reconcile makes one API call per step.                            *)
(*                                                                         *)
(* Everything else acts at any time: users edit Flows and dependencies,    *)
(* children are deleted by hand or by Kubernetes' garbage collector, the   *)
(* Deployment controller reports status, the manager crashes and restarts. *)
(***************************************************************************)
EXTENDS FlowRender

CONSTANTS
  FlowSpecs,       \* the specs a user may give a Flow
  DepValues,       \* DepValues[o]: the objects a user may store under o
  StartFlows,      \* the Flows there may be when the manager first starts
  StartDeps,       \* the dependencies there may be then
  EditKinds,       \* bound: the kinds of change users make
  MaxEdits,        \* bound: changes made by users
  MaxApplyFaults,  \* bound: failing child applies
  MaxPatchFaults,  \* bound: failing status patches
  MaxCrashes,      \* bound: manager restarts
  MaxReports,      \* bound: Deployment status reports that are not forced
  MaxResyncs       \* bound: periodic informer resyncs

ASSUME InputsAssumption ==
  /\ StartFlows \subseteq [Flows -> {Absent} \cup
                             [uid : {0}, spec : FlowSpecs, gen : {1}, status : {NoStatus}]]
  /\ StartDeps \subseteq Stores
  /\ FlowSpecs \subseteq FlowSpec
  /\ \A o \in Deps : DepValues[o] \subseteq DepObj(o)

VARIABLES
  flows,    \* API server: the Flow objects
  deps,     \* API server: Prompts, Tools, Models, PluginConfigs, Secrets
  kids,     \* API server: the children of each Flow, by kind
  report,   \* API server: the status of each Flow's Deployment
  cflows,   \* informer cache of flows
  cdeps,    \* informer cache of deps
  cdeploy,  \* informer cache of each Flow's Deployment, with its status
  notes,    \* dependencies whose cache changed and whose mapper must still run
  queue,    \* the work queue
  rec,      \* the running reconcile, None when the worker is idle
  used      \* how much of each bound has been used

store == <<flows, deps, kids, report>>
caches == <<cflows, cdeps, cdeploy>>
vars == <<flows, deps, kids, report, cflows, cdeps, cdeploy, notes, queue, rec, used>>

-----------------------------------------------------------------------------
FlowObj == [uid : Nat, spec : FlowSpecs, gen : Nat, status : Status]

NoReport == [observed |-> FALSE, avail |-> 0, unavail |-> 0]
Reports == [observed : BOOLEAN, avail : Nat, unavail : Nat]

KidObj(k) == [owner : Nat, body : ChildBody(k)]
Kid(k) == KidObj(k) \cup {Absent}

(* The children of one Flow: a function on Kinds.                          *)
Children == [prompts : Kid("prompts"), tools : Kid("tools"), config : Kid("config"),
             service : Kid("service"), deploy : Kid("deploy")]

(* A reconcile: the Flow as first read (DeepCopy), what resolveDeps got,   *)
(* where it stands, and the status it is going to patch.                   *)
Reconciles ==
  [flow : Flows, orig : FlowObj, got : Readings,
   pc : {"resolve", "apply", "observe", "patch"}, next : DOMAIN ApplyOrder, upd : Status]

ASSUME RecordsAssumption ==
  Absent \notin FlowObj /\ None \notin Reconciles /\ None \notin Conditions

(* The Deployment of f as a Get of the API server would return it.         *)
DeployOf(f) ==
  IF kids[f]["deploy"] = Absent THEN Absent
  ELSE [kid |-> kids[f]["deploy"], status |-> report[f]]

Existing(fl) == {f \in Flows : fl[f] # Absent}

NothingUsed == [edits |-> 0, applyFaults |-> 0, patchFaults |-> 0,
                crashes |-> 0, reports |-> 0, resyncs |-> 0]

(* The manager has listed everything and run the handlers once: every Flow *)
(* was woken by its own event.                                             *)
Init ==
  /\ flows \in StartFlows
  /\ deps \in StartDeps
  /\ kids = [f \in Flows |-> [k \in Kinds |-> Absent]]
  /\ report = [f \in Flows |-> NoReport]
  /\ cflows = flows
  /\ cdeps = deps
  /\ cdeploy = [f \in Flows |-> Absent]
  /\ notes = {}
  /\ queue = Existing(flows)
  /\ rec = None
  /\ used = NothingUsed

Spend(what, bound) == /\ used[what] < bound
                      /\ used' = [used EXCEPT ![what] = @ + 1]

-----------------------------------------------------------------------------
(* Users.                                                                  *)

FlowCreate(f, s) ==
  /\ flows[f] = Absent
  /\ Spend("edits", MaxEdits)
  /\ flows' = [flows EXCEPT ![f] = [uid |-> used'.edits, spec |-> s, gen |-> 1,
                                    status |-> NoStatus]]
  /\ UNCHANGED <<deps, kids, report, caches, notes, queue, rec>>

FlowEdit(f, s) ==
  /\ flows[f] # Absent /\ flows[f].spec # s
  /\ Spend("edits", MaxEdits)
  /\ flows' = [flows EXCEPT ![f].spec = s, ![f].gen = @ + 1]
  /\ UNCHANGED <<deps, kids, report, caches, notes, queue, rec>>

FlowDelete(f) ==
  /\ flows[f] # Absent
  /\ Spend("edits", MaxEdits)
  /\ flows' = [flows EXCEPT ![f] = Absent]
  /\ UNCHANGED <<deps, kids, report, caches, notes, queue, rec>>

DepWrite(o, v) ==
  /\ deps[o] # v
  /\ Spend("edits", MaxEdits)
  /\ deps' = [deps EXCEPT ![o] = v]
  /\ UNCHANGED <<flows, kids, report, caches, notes, queue, rec>>

DepDelete(o) ==
  /\ deps[o] # Absent
  /\ Spend("edits", MaxEdits)
  /\ deps' = [deps EXCEPT ![o] = Absent]
  /\ UNCHANGED <<flows, kids, report, caches, notes, queue, rec>>

(* Events on a Flow or on one of its children wake that Flow by name, so   *)
(* the delay of their handler is a delay in the queue.  A child other than *)
(* the Deployment is never read through the cache: its change and its      *)
(* event are one step.  The Deployment's event comes with its cache entry; *)
(* one that goes before the informer has seen it come still makes events.  *)
ChildEvent(f, k) == queue' = IF k = "deploy" THEN queue ELSE queue \cup {f}

RemoveChild(f, k) ==
  /\ kids[f][k] # Absent
  /\ kids' = [kids EXCEPT ![f][k] = Absent]
  /\ report' = IF k = "deploy" THEN [report EXCEPT ![f] = NoReport] ELSE report
  /\ IF k = "deploy" /\ cdeploy[f] = Absent THEN queue' = queue \cup {f}
     ELSE ChildEvent(f, k)

ChildDelete(f, k) ==
  /\ Spend("edits", MaxEdits)
  /\ RemoveChild(f, k)
  /\ UNCHANGED <<flows, deps, caches, notes, rec>>

-----------------------------------------------------------------------------
(* Kubernetes: the garbage collector, the Deployment controller, and the   *)
(* informers that bring the caches up to date.                             *)

GarbageCollect(f, k) ==
  /\ RemoveChild(f, k)
  /\ flows[f] # Absent => flows[f].uid # kids[f][k].owner
  /\ UNCHANGED <<flows, deps, caches, notes, rec, used>>

ObserveGeneration(f) ==
  /\ kids[f]["deploy"] # Absent /\ ~report[f].observed
  /\ report' = [report EXCEPT ![f].observed = TRUE]
  /\ UNCHANGED <<flows, deps, kids, caches, notes, queue, rec, used>>

ReportReplicas(f, r) ==
  /\ kids[f]["deploy"] # Absent /\ report[f] # r
  /\ r.avail + r.unavail <= kids[f]["deploy"].body.replicas + 1
  /\ Spend("reports", MaxReports)
  /\ report' = [report EXCEPT ![f] = r]
  /\ UNCHANGED <<flows, deps, kids, caches, notes, queue, rec>>

InformFlow(f) ==
  /\ cflows[f] # flows[f]
  /\ cflows' = [cflows EXCEPT ![f] = flows[f]]
  /\ queue' = queue \cup {f}
  /\ UNCHANGED <<store, cdeps, cdeploy, notes, rec, used>>

InformDep(o) ==
  /\ cdeps[o] # deps[o]
  /\ cdeps' = [cdeps EXCEPT ![o] = deps[o]]
  /\ notes' = notes \cup {o}
  /\ UNCHANGED <<store, cflows, cdeploy, queue, rec, used>>

InformDeploy(f) ==
  /\ cdeploy[f] # DeployOf(f)
  /\ cdeploy' = [cdeploy EXCEPT ![f] = DeployOf(f)]
  /\ queue' = queue \cup {f}
  /\ UNCHANGED <<store, cflows, cdeps, notes, rec, used>>

(* Every ten hours an informer hands all its objects to the handlers again.*)
Resync ==
  /\ Spend("resyncs", MaxResyncs)
  /\ notes' = notes \cup {o \in Deps : cdeps[o] # Absent}
  /\ queue' = queue \cup Existing(cflows)
  /\ UNCHANGED <<store, caches, rec>>

-----------------------------------------------------------------------------
(* The controller.                                                         *)

Handle(n) ==
  /\ n \in notes
  /\ notes' = notes \ {n}
  /\ queue' = queue \cup Woken(n, cflows, cdeps)
  /\ UNCHANGED <<store, caches, rec, used>>

(* Nothing left to read: render and go on to the children, or give up.     *)
Resolved(r) ==
  LET spec == r.orig.spec
      o == Outcome(spec, r.got)
      reading == spec.image # NoImage /\ Missing(spec, r.got) = {}
                   /\ ToRead(spec, r.got) # {}
  IN  CASE reading -> r
        [] ~reading /\ o.reason = "Rendered" -> [r EXCEPT !.pc = "apply"]
        [] OTHER -> [r EXCEPT !.pc = "patch",
                              !.upd = RefusedStatus(r.upd, r.orig.gen, o.reason, o.about)]

Start(f) ==
  /\ rec = None /\ f \in queue
  /\ queue' = queue \ {f}
  /\ rec' = IF cflows[f] = Absent THEN None
            ELSE Resolved([flow |-> f, orig |-> cflows[f], got |-> [o \in Deps |-> Unread],
                           pc |-> "resolve", next |-> 1, upd |-> cflows[f].status])
  /\ UNCHANGED <<store, caches, notes, used>>

At(pc) == rec # None /\ rec.pc = pc

ReadDep ==
  /\ At("resolve")
  /\ LET o == First(ToRead(rec.orig.spec, rec.got))
     IN  rec' = Resolved([rec EXCEPT !.got[o] = cdeps[o]])
  /\ UNCHANGED <<store, caches, notes, queue, used>>

(* Server-side apply with forced ownership: the child becomes what was     *)
(* rendered, whatever it was, and only a difference is an event.           *)
Applied(f, k, kid) ==
  /\ kids' = [kids EXCEPT ![f][k] = kid]
  /\ report' = CASE k = "deploy" /\ kids[f][k] = Absent -> [report EXCEPT ![f] = NoReport]
                 [] k = "deploy" /\ kids[f][k] # Absent /\ kids[f][k].body # kid.body ->
                      [report EXCEPT ![f].observed = FALSE]
                 [] OTHER -> report
  /\ IF kids[f][k] = kid THEN queue' = queue ELSE ChildEvent(f, k)

RenderedKid == [owner |-> rec.orig.uid,
                body |-> Child(ApplyOrder[rec.next], rec.orig.spec, rec.got)]

ApplyChild ==
  /\ At("apply")
  /\ Applied(rec.flow, ApplyOrder[rec.next], RenderedKid)
  /\ rec' = IF rec.next = Len(ApplyOrder) THEN [rec EXCEPT !.pc = "observe"]
            ELSE [rec EXCEPT !.next = @ + 1]
  /\ UNCHANGED <<flows, deps, caches, notes, used>>

(* The call fails, before or after it took effect; reconcile writes the    *)
(* error into the status and returns no error: nothing is requeued.        *)
ApplyFails ==
  /\ At("apply")
  /\ Spend("applyFaults", MaxApplyFaults)
  /\ \/ Applied(rec.flow, ApplyOrder[rec.next], RenderedKid)
     \/ UNCHANGED <<kids, report, queue>>
  /\ rec' = [rec EXCEPT !.pc = "patch",
                        !.upd = RefusedStatus(@, rec.orig.gen, "Error", ApplyOrder[rec.next])]
  /\ UNCHANGED <<flows, deps, caches, notes>>

(* Fault: the status is stamped with the generation cached by now.         *)
ObserveDeployLateGeneration ==
  /\ At("observe")
  /\ rec' = [rec EXCEPT !.pc = "patch",
                        !.upd = ObservedStatus(@, cflows[rec.flow].gen, rec.orig.spec,
                                   ContentHash(rec.orig.spec, rec.got), cdeploy[rec.flow])]
  /\ UNCHANGED <<store, caches, notes, queue, used>>

ObserveDeploy ==
  /\ At("observe")
  /\ rec' = [rec EXCEPT !.pc = "patch",
                        !.upd = ObservedStatus(@, rec.orig.gen, rec.orig.spec,
                                   ContentHash(rec.orig.spec, rec.got), cdeploy[rec.flow])]
  /\ UNCHANGED <<store, caches, notes, queue, used>>

Patched(f) ==
  flows' = [flows EXCEPT ![f].status = MergedStatus(@, rec.orig.status, rec.upd)]

(* Faults: a finished request is forgotten even if it came again; a failed *)
(* patch is not returned as an error.                                      *)
PatchStatusForgets ==
  /\ At("patch") /\ flows[rec.flow] # Absent
  /\ Patched(rec.flow)
  /\ rec' = None
  /\ queue' = queue \ {rec.flow}
  /\ UNCHANGED <<deps, kids, report, caches, notes, used>>

PatchStatusFailsSilently ==
  /\ At("patch") /\ flows[rec.flow] # Absent
  /\ Spend("patchFaults", MaxPatchFaults)
  /\ rec' = None
  /\ UNCHANGED <<flows, deps, kids, report, caches, notes, queue>>

(* The patch names the Flow only: it also lands on a Flow that was deleted *)
(* and created again since it was read.                                    *)
PatchStatus ==
  /\ At("patch") /\ flows[rec.flow] # Absent
  /\ Patched(rec.flow)
  /\ rec' = None
  /\ UNCHANGED <<deps, kids, report, caches, notes, queue, used>>

(* A failing patch is returned as the reconcile's error, which re-adds the *)
(* request to the queue after a back-off.                                  *)
PatchStatusFails ==
  /\ At("patch")
  /\ \/ flows[rec.flow] = Absent /\ UNCHANGED <<flows, used>>
     \/ /\ flows[rec.flow] # Absent
        /\ Spend("patchFaults", MaxPatchFaults)
        /\ Patched(rec.flow) \/ UNCHANGED flows
  /\ rec' = None
  /\ queue' = queue \cup {rec.flow}
  /\ UNCHANGED <<deps, kids, report, caches, notes>>

(* The manager dies and a new one starts: it lists everything again.       *)
Crash ==
  /\ Spend("crashes", MaxCrashes)
  /\ rec' = None /\ notes' = {} /\ queue' = Existing(flows)
  /\ cflows' = flows /\ cdeps' = deps /\ cdeploy' = [f \in Flows |-> DeployOf(f)]
  /\ UNCHANGED store

-----------------------------------------------------------------------------
Edit ==
  \/ \E f \in Flows, s \in FlowSpecs :
       \/ "create" \in EditKinds /\ FlowCreate(f, s)
       \/ "edit" \in EditKinds /\ FlowEdit(f, s)
  \/ \E f \in Flows : "delete" \in EditKinds /\ FlowDelete(f)
  \/ \E o \in Deps : \E v \in DepValues[o] : "write" \in EditKinds /\ DepWrite(o, v)
  \/ \E o \in Deps : "remove" \in EditKinds /\ DepDelete(o)
  \/ \E f \in Flows, k \in Kinds : "child" \in EditKinds /\ ChildDelete(f, k)

Inform ==
  \/ \E f \in Flows : InformFlow(f) \/ InformDeploy(f)
  \/ \E o \in Deps : InformDep(o)

Collect == \E f \in Flows, k \in Kinds : GarbageCollect(f, k)

Cluster == Collect \/ \E f \in Flows : ObserveGeneration(f)

ReportAny == \E f \in Flows : \E r \in [observed : {TRUE}, avail : 0..1, unavail : 0..1] :
               ReportReplicas(f, r)

HandleAny == \E n \in notes : Handle(n)

Worker ==
  \/ \E f \in queue : Start(f)
  \/ ReadDep \/ ApplyChild \/ ObserveDeploy \/ PatchStatus \/ PatchStatusFails

Next ==
  \/ Edit \/ ReportAny \/ Cluster
  \/ Inform \/ Resync \/ HandleAny
  \/ Worker \/ ApplyFails \/ Crash

Spec == Init /\ [][Next]_vars

(* None of the machinery stops for good: informers deliver, handlers run,  *)
(* the worker takes requests and makes its calls, Kubernetes collects      *)
(* garbage and observes generations.  Nothing is assumed of users, of      *)
(* replica reports, of resyncs, of apply failures or of crashes.           *)
Fairness == WF_vars(Inform) /\ WF_vars(HandleAny) /\ WF_vars(Worker) /\ WF_vars(Cluster)

FairSpec == Spec /\ Fairness

-----------------------------------------------------------------------------
(* Properties.                                                             *)

(* Every variable keeps its type: the API objects, what the caches hold of *)
(* them, the events still to be handled, the queue and the reconcile.      *)
TypeOK ==
  /\ flows \in [Flows -> FlowObj \cup {Absent}]
  /\ cflows \in [Flows -> FlowObj \cup {Absent}]
  /\ deps \in Stores
  /\ cdeps \in Stores
  /\ kids \in [Flows -> Children]
  /\ report \in [Flows -> Reports]
  /\ cdeploy \in [Flows -> [kid : KidObj("deploy"), status : Reports] \cup {Absent}]
  /\ notes \subseteq Deps
  /\ queue \subseteq Flows
  /\ rec \in Reconciles \cup {None}
  /\ used \in [{"edits", "applyFaults", "patchFaults", "crashes", "reports", "resyncs"}
                 -> Nat]

(* Work that will still be done for f without anything else happening.     *)
Pending(f) ==
  \/ f \in queue
  \/ rec # None /\ rec.flow = f
  \/ \E n \in notes : f \in Woken(n, cflows, cdeps)

ApplyFailed(f) == /\ flows[f].status.cond # None
                  /\ flows[f].status.cond.reason = "Error"
                  /\ flows[f].status.cond.about \in Kinds

(* No lost wakeup, status: once nothing is pending for a Flow the cache is *)
(* up to date with, its status is what a reconcile on the current caches   *)
(* would write, so no edit of anything it refers to, at whatever depth and *)
(* in whatever order its events were handled, has gone unnoticed.  (A      *)
(* failed child apply is the exception: see ConvergesDespiteFaults.)       *)
SettledStatus ==
  \A f \in Flows :
    ~Pending(f) /\ flows[f] # Absent /\ cflows[f] = flows[f] /\ ~ApplyFailed(f)
      => FinalStatus(flows[f].status, flows[f], cdeps, cdeploy[f]) = flows[f].status

(* No lost wakeup, children: at such a moment, if the Deployment's informer*)
(* is up to date too, the five children are those renderFlow makes of the  *)
(* current caches, and belong to this very Flow.                           *)
SettledChildren ==
  \A f \in Flows :
    /\ ~Pending(f) /\ flows[f] # Absent /\ ~ApplyFailed(f)
    /\ cflows[f] = flows[f] /\ cdeploy[f] = DeployOf(f)
    /\ Outcome(flows[f].spec, cdeps).reason = "Rendered"
    => \A k \in Kinds : kids[f][k] = [owner |-> flows[f].uid,
                                      body |-> Child(k, flows[f].spec, cdeps)]

(* A Ready condition at the Flow's current generation is backed by the     *)
(* children: the Deployment, unless somebody removed it since, runs the    *)
(* image and replicas of that generation even while edits are in flight.   *)
ReadyMatchesSpec ==
  \A f \in Flows :
    /\ flows[f] # Absent /\ flows[f].status.cond # None
    /\ flows[f].status.cond.ready /\ flows[f].status.cond.gen = flows[f].gen
    /\ kids[f]["deploy"] # Absent
    => /\ kids[f]["deploy"].body.replicas = flows[f].spec.replicas
       /\ kids[f]["deploy"].body.template.image = flows[f].spec.image

(* status.observedGeneration never runs ahead of the generation it claims  *)
(* to have observed, and the condition never claims a newer one than it.   *)
ObservedGenerationSound ==
  \A f \in Flows :
    flows[f] # Absent =>
      /\ flows[f].status.gen <= flows[f].gen
      /\ flows[f].status.cond # None => flows[f].status.cond.gen <= flows[f].status.gen

(* Observation is monotonic: as long as a Flow lives, no status patch,     *)
(* however stale the copy it was computed from, takes observedGeneration   *)
(* back.                                                                   *)
ObservedGenerationMonotone ==
  [][\A f \in Flows :
       flows[f] # Absent /\ flows'[f] # Absent /\ flows'[f].uid = flows[f].uid
         => flows'[f].status.gen >= flows[f].status.gen]_vars

(* The ConfigMaps are brought up to date before the Deployment: a step     *)
(* that puts a new content hash on the Pod template finds every ConfigMap  *)
(* that exists already holding the content hashed, so that the Pods the    *)
(* rollout starts cannot mount older content under the new hash.           *)
HashFollowsContent ==
  [][\A f \in Flows :
       LET old == kids[f]["deploy"]
           new == kids'[f]["deploy"]
       IN  new # Absent /\ (old = Absent \/ old.body.template.hash # new.body.template.hash)
             => \A k \in {"prompts", "tools", "config"} :
                  kids[f][k] # Absent => kids[f][k].body = new.body.template.hash[k]]_vars

(* What the API server holds for f is what its Flow and dependencies call  *)
(* for; a deleted Flow has no children left.                               *)
Converged(f) ==
  IF flows[f] = Absent THEN \A k \in Kinds : kids[f][k] = Absent
  ELSE /\ FinalStatus(flows[f].status, flows[f], deps, DeployOf(f)) = flows[f].status
       /\ Outcome(flows[f].spec, deps).reason = "Rendered" =>
            \A k \in Kinds : kids[f][k] = [owner |-> flows[f].uid,
                                           body |-> Child(k, flows[f].spec, deps)]

(* Once users, faults and the Deployment controller leave it alone, every  *)
(* Flow reaches the state its spec and dependencies call for, and stays.   *)
Converges == \A f \in Flows : <>[]Converged(f)

(* README.md:24: "Watches every referenced object and triggers a rolling   *)
(* update via a content-hash Pod template annotation whenever anything     *)
(* changes."  The same promise when child applies may fail and the API     *)
(* server then recovers.                                                   *)
ConvergesDespiteFaults == \A f \in Flows : <>[]Converged(f)
=============================================================================
