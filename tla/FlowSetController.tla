--------------------------- MODULE FlowSetController ---------------------------
(***************************************************************************)
(* The FlowSet controller and one FlowSet (FlowSets share no children and  *)
(* no queue entry).  As in FlowController, informer caches lag behind the  *)
(* API server, watch handlers run later still, and a reconcile makes one   *)
(* call per step.  Two things are new: a dependency is read once per flow  *)
(* that uses it, and the ConfigMaps of flows that left the set are found   *)
(* in the informer cache and deleted after the Deployment is applied.      *)
(*                                                                         *)
(* The model starts with the set up and running.  Its Pod is external: it  *)
(* is replaced when the Pod template changes, and the runner reads the     *)
(* mounted files when its container starts, and only then.                 *)
(***************************************************************************)
EXTENDS FlowSetRender

CONSTANTS
  Plans,      \* what users may do, and the FlowSet they start from
  DepValues,  \* DepValues[o]: the objects a user may store under o
  StartDeps,  \* the dependencies there are at the start
  FaultKinds, \* bound: the kinds of fault that happen
  Bounds      \* bounds: how often each of Budgets happens

Budgets == {"edits", "faults", "reports", "podStarts"}

(* Every flow of the set reads the same dependencies.                      *)
ForEvery(spec, d) == [i \in Entries(spec) |-> d]

(* A set that runs already can be rendered.                                *)
ASSUME SetInputsAssumption ==
  /\ \A p \in Plans :
       /\ DOMAIN p = {"start", "specs", "edits"}
       /\ \A s \in p.specs \cup {p.start} : s \in FlowSetSpec /\ DistinctNames(s.flows)
       /\ SetOutcome(p.start, ForEvery(p.start, StartDeps)).reason = "Rendered"
  /\ StartDeps \in Stores
  /\ \A o \in Deps : DepValues[o] \subseteq DepObj(o)
  /\ Bounds \in [Budgets -> Nat]

FlowSetObj == [uid : Nat, spec : FlowSetSpec, gen : Nat, status : SetStatus]

SetReconciles ==
  [orig : FlowSetObj, pc : {"resolve", "apply", "list", "collect", "patch"}, next : Nat,
   orphans : SUBSET MapSlots, got : Seq(Readings), upd : SetStatus]

Reports == [observed : BOOLEAN, avail : Nat, unavail : Nat]

KidObj(slot) == [owner : Nat, body : SetChildBody(slot)]

CachedDeploys == [kid : KidObj(DeploySlot), status : Reports]

(* Absent and None stand for no object and for no reconcile.               *)
ASSUME SetRecordsAssumption ==
  /\ Absent \notin FlowSetObj /\ Absent \notin CachedDeploys /\ Absent \notin Nat
  /\ None \notin SetReconciles /\ None \notin SetConditions
  /\ \A s \in Slots : Absent \notin KidObj(s)

VARIABLES
  set,      \* API server: the FlowSet
  deps,     \* API server: Prompts, Tools, Models, PluginConfigs, Secrets
  kids,     \* API server: the children, by slot
  report,   \* API server: the status of the Deployment
  cset,     \* informer cache of set
  cdeps,    \* informer cache of deps
  cmaps,    \* informer cache of the ConfigMaps: the owner of each
  cdeploy,  \* informer cache of the Deployment, with its status
  notes,    \* dependencies whose cache changed and whose mapper must still run
  queued,   \* the FlowSet is in the work queue
  rec,      \* the running reconcile, None when the worker is idle
  pod,      \* the newest Pod: its template and what its container loaded
  used,     \* how much of each bound has been used
  plan      \* bound: the specs users give the set here and the kinds of edit they make

store == <<set, deps, kids, report>>
caches == <<cset, cdeps, cmaps, cdeploy>>
vars == <<store, caches, notes, queued, rec, pod, used, plan>>

-----------------------------------------------------------------------------
NoReport == [observed |-> FALSE, avail |-> 0, unavail |-> 0]
NoPod == [template |-> None, loaded |-> None]
RunningReport == [observed |-> TRUE, avail |-> 1, unavail |-> 0]

DeployIn(ks, st) ==
  IF ks[DeploySlot] = Absent THEN Absent ELSE [kid |-> ks[DeploySlot], status |-> st]

DeployOf == DeployIn(kids, report)

OwnerIn(ks, slot) == IF ks[slot] = Absent THEN Absent ELSE ks[slot].owner
Owner(slot) == OwnerIn(kids, slot)

(* What a container that starts now reads: per flow, the mounted files.    *)
Loaded(template) ==
  [mount \in template.volumes |->
     [maps |-> [k \in {"prompts", "tools", "config"} |-> kids[<<mount[1], k>>].body],
      secret |-> deps[mount[2]].data]]

CanLoad(template) ==
  /\ kids[ManifestSlot] # Absent
  /\ \A mount \in template.volumes :
       /\ \A k \in {"prompts", "tools", "config"} : kids[<<mount[1], k>>] # Absent
       /\ deps[mount[2]] # Absent

(* What the Pod of a set with this spec should have loaded.                *)
Content(spec, got) ==
  [mount \in SetTemplate(spec, got).volumes |->
     LET i == CHOOSE j \in Entries(spec) : spec.flows[j].name = mount[1]
     IN  [maps |-> [k \in {"prompts", "tools", "config"} |-> MapBody(k, spec.flows[i], got[i])],
          secret |-> got[i][mount[2]].data]]

Init ==
  /\ plan \in Plans
  /\ deps = StartDeps /\ cdeps = deps
  /\ LET got == ForEvery(plan.start, deps)
         used0 == WantedMaps(plan.start) \cup {ServiceSlot, DeploySlot}
         obj == [uid |-> 0, spec |-> plan.start, gen |-> 1, status |-> NoSetStatus]
     IN  /\ kids = [s \in Slots |-> IF s \notin used0 THEN Absent
                      ELSE [owner |-> 0, body |-> SetChild(s, plan.start, got)]]
         /\ report = RunningReport
         /\ cdeploy = [kid |-> kids[DeploySlot], status |-> report]
         /\ set = [obj EXCEPT !.status = SetFinalStatus(NoSetStatus, obj, got, cdeploy)]
         /\ pod = [template |-> SetTemplate(plan.start, got), loaded |-> Content(plan.start, got)]
  /\ cset = set
  /\ cmaps = [s \in MapSlots |-> Owner(s)]
  /\ notes = {} /\ queued = FALSE /\ rec = None
  /\ used = [b \in Budgets |-> 0]

Spend(what) == /\ used[what] < Bounds[what]
               /\ used' = [used EXCEPT ![what] = @ + 1]

Fault(kind) == kind \in FaultKinds /\ Spend("faults")

-----------------------------------------------------------------------------
(* Users and Kubernetes.                                                   *)

SetCreate(s) ==
  /\ set = Absent
  /\ Spend("edits")
  /\ set' = [uid |-> used'["edits"], spec |-> s, gen |-> 1, status |-> NoSetStatus]
  /\ UNCHANGED <<deps, kids, report, caches, notes, queued, rec, pod>>

SetEdit(s) ==
  /\ set # Absent /\ set.spec # s
  /\ Spend("edits")
  /\ set' = [set EXCEPT !.spec = s, !.gen = @ + 1]
  /\ UNCHANGED <<deps, kids, report, caches, notes, queued, rec, pod>>

SetDelete ==
  /\ set # Absent
  /\ Spend("edits")
  /\ set' = Absent
  /\ UNCHANGED <<deps, kids, report, caches, notes, queued, rec, pod>>

DepWrite(o, v) ==
  /\ deps[o] # v
  /\ Spend("edits")
  /\ deps' = [deps EXCEPT ![o] = v]
  /\ UNCHANGED <<set, kids, report, caches, notes, queued, rec, pod>>

(* A child changed.  If its cache now differs, its event comes with the    *)
(* informer; otherwise its content alone changed, or it came and went      *)
(* between two deliveries, and the event wakes the set by name.            *)
ChildEvent(slot) ==
  LET lagging == CASE slot \in MapSlots -> cmaps[slot] # OwnerIn(kids', slot)
                   [] slot = DeploySlot -> cdeploy # DeployIn(kids', report')
                   [] OTHER -> FALSE
  IN  queued' = (queued \/ ~lagging)

RemoveChild(slot) ==
  /\ kids[slot] # Absent
  /\ kids' = [kids EXCEPT ![slot] = Absent]
  /\ IF slot = DeploySlot THEN report' = NoReport /\ pod' = NoPod
     ELSE UNCHANGED <<report, pod>>
  /\ ChildEvent(slot)

ChildDelete(slot) ==
  /\ Spend("edits")
  /\ RemoveChild(slot)
  /\ UNCHANGED <<set, deps, caches, notes, rec>>

GarbageCollect(slot) ==
  /\ RemoveChild(slot)
  /\ set # Absent => set.uid # kids[slot].owner
  /\ UNCHANGED <<set, deps, caches, notes, rec, used>>

ReportReplicas(r) ==
  /\ kids[DeploySlot] # Absent /\ report # r
  /\ \/ r = [report EXCEPT !.observed = TRUE] /\ UNCHANGED used
     \/ r # [report EXCEPT !.observed = TRUE] /\ Spend("reports")
  /\ report' = r
  /\ UNCHANGED <<set, deps, kids, caches, notes, queued, rec, pod>>

(* A Pod of a new template starts and reads what is mounted.               *)
PodStart ==
  LET template == kids[DeploySlot].body.template
  IN  /\ kids[DeploySlot] # Absent /\ pod.template # template
      /\ CanLoad(template) /\ Spend("podStarts")
      /\ pod' = [template |-> template, loaded |-> Loaded(template)]
      /\ UNCHANGED <<store, caches, notes, queued, rec>>

(* Fault: events that leave metadata.generation alone are filtered out.    *)
InformSetGenerationOnly ==
  /\ cset # set
  /\ cset' = set
  /\ queued' = (queued \/ Absent \in {set, cset} \/ set.gen # cset.gen)
  /\ UNCHANGED <<store, cdeps, cmaps, cdeploy, notes, rec, pod, used>>

InformSet ==
  /\ cset # set
  /\ cset' = set /\ queued' = TRUE
  /\ UNCHANGED <<store, cdeps, cmaps, cdeploy, notes, rec, pod, used>>

InformDep(o) ==
  /\ cdeps[o] # deps[o]
  /\ cdeps' = [cdeps EXCEPT ![o] = deps[o]]
  /\ notes' = notes \cup {o}
  /\ UNCHANGED <<store, cset, cmaps, cdeploy, queued, rec, pod, used>>

InformMap(slot) ==
  /\ cmaps[slot] # Owner(slot)
  /\ cmaps' = [cmaps EXCEPT ![slot] = Owner(slot)]
  /\ queued' = TRUE
  /\ UNCHANGED <<store, cset, cdeps, cdeploy, notes, rec, pod, used>>

InformDeploy ==
  /\ cdeploy # DeployOf
  /\ cdeploy' = DeployOf /\ queued' = TRUE
  /\ UNCHANGED <<store, cset, cdeps, cmaps, notes, rec, pod, used>>

-----------------------------------------------------------------------------
(* The controller.                                                         *)

Handle(n) ==
  /\ n \in notes
  /\ notes' = notes \ {n}
  /\ queued' = (queued \/ (cset # Absent /\ WakesSet(n, cset.spec, cdeps)))
  /\ UNCHANGED <<store, caches, rec, pod, used>>

Start ==
  /\ rec = None /\ queued
  /\ queued' = FALSE
  /\ rec' = IF cset = Absent THEN None
            ELSE [orig |-> cset, pc |-> "resolve", next |-> 1, orphans |-> {},
                  got |-> ForEvery(cset.spec, [o \in Deps |-> Unread]), upd |-> cset.status]
  /\ UNCHANGED <<store, caches, notes, pod, used>>

At(pc) == rec # None /\ rec.pc = pc

(* Nothing was refused yet and something is still to be read.              *)
Reading ==
  LET i == Current(rec.orig.spec, rec.got)
  IN  /\ rec.orig.spec.image # NoImage
      /\ Unresolved(rec.orig.spec, rec.got) # {}
      /\ ~FlowRefused(rec.orig.spec.flows[i], rec.got[i])

ReadDep ==
  /\ At("resolve") /\ Reading
  /\ LET i == Current(rec.orig.spec, rec.got)
         o == First(ToRead(rec.orig.spec.flows[i], rec.got[i]))
     IN  rec' = [rec EXCEPT !.got[i][o] = cdeps[o]]
  /\ UNCHANGED <<store, caches, notes, queued, pod, used>>

(* Render and go on to the children, or give up.                           *)
Render ==
  /\ At("resolve") /\ ~Reading
  /\ LET o == SetOutcome(rec.orig.spec, rec.got)
     IN  rec' = IF o.reason = "Rendered" THEN [rec EXCEPT !.pc = "apply"]
                ELSE [rec EXCEPT !.pc = "patch",
                        !.upd = SetRefusedStatus(@, rec.orig.spec, rec.orig.gen,
                                                 o.reason, o.flow, o.about)]
  /\ UNCHANGED <<store, caches, notes, queued, pod, used>>

Slot == SetApplyOrder(rec.orig.spec)[rec.next]

(* Server-side apply with forced ownership.                                *)
SetApplied ==
  LET old == kids[Slot]
      new == [owner |-> rec.orig.uid, body |-> SetChild(Slot, rec.orig.spec, rec.got)]
  IN  /\ kids' = [kids EXCEPT ![Slot] = new]
      /\ report' = CASE Slot = DeploySlot /\ old = Absent -> NoReport
                     [] Slot = DeploySlot /\ old # Absent /\ old.body # new.body ->
                          [report EXCEPT !.observed = FALSE]
                     [] OTHER -> report
      /\ IF old = new THEN queued' = queued ELSE ChildEvent(Slot)

ApplyChild ==
  /\ At("apply")
  /\ SetApplied
  /\ rec' = IF rec.next = Len(SetApplyOrder(rec.orig.spec)) THEN [rec EXCEPT !.pc = "list"]
            ELSE [rec EXCEPT !.next = @ + 1]
  /\ UNCHANGED <<set, deps, caches, notes, pod, used>>

(* As for a Flow: the error goes into the status, nothing is requeued.     *)
ApplyFails ==
  /\ At("apply")
  /\ Fault("apply")
  /\ SetApplied \/ UNCHANGED <<kids, report, queued>>
  /\ rec' = [rec EXCEPT !.pc = "patch",
               !.upd = SetRefusedStatus(@, rec.orig.spec, rec.orig.gen, "Error", Slot[1], Slot[2])]
  /\ UNCHANGED <<set, deps, caches, notes, pod>>

(* Fault: what was just rendered is not kept.                              *)
ListOrphansKeepsNone ==
  /\ At("list")
  /\ rec' = [rec EXCEPT !.pc = "collect", !.orphans = {s \in MapSlots : cmaps[s] # Absent}]
  /\ UNCHANGED <<store, caches, notes, queued, pod, used>>

(* Fault: the ConfigMaps of config.json carry no label to be listed by.    *)
ListOrphansUnlabelled ==
  /\ At("list")
  /\ rec' = [rec EXCEPT !.pc = "collect",
               !.orphans = {s \in MapSlots \ WantedMaps(rec.orig.spec) :
                              cmaps[s] = rec.orig.uid /\ s[2] # "config"}]
  /\ UNCHANGED <<store, caches, notes, queued, pod, used>>

(* gcOrphans lists the cached ConfigMaps this very FlowSet controls and    *)
(* keeps those it has just rendered.                                       *)
ListOrphans ==
  /\ At("list")
  /\ rec' = [rec EXCEPT !.pc = "collect",
               !.orphans = {s \in MapSlots \ WantedMaps(rec.orig.spec) :
                              cmaps[s] = rec.orig.uid}]
  /\ UNCHANGED <<store, caches, notes, queued, pod, used>>

(* One is deleted by name; one that has gone already is no error.          *)
DeleteOrphan(slot) ==
  /\ At("collect") /\ slot \in rec.orphans
  /\ rec' = [rec EXCEPT !.orphans = @ \ {slot}]
  /\ RemoveChild(slot) \/ (kids[slot] = Absent /\ UNCHANGED <<kids, report, queued, pod>>)
  /\ UNCHANGED <<set, deps, caches, notes, used>>

(* A failing delete, which may have been carried out, ends gcOrphans; the  *)
(* reconcile only logs it.                                                 *)
DeleteFails ==
  /\ At("collect") /\ rec.orphans # {}
  /\ Fault("gc")
  /\ \/ UNCHANGED <<kids, report, queued, pod>>
     \/ \E slot \in rec.orphans : RemoveChild(slot)
  /\ rec' = [rec EXCEPT !.orphans = {}]
  /\ UNCHANGED <<set, deps, caches, notes>>

ObserveDeploy ==
  /\ At("collect") /\ rec.orphans = {}
  /\ rec' = [rec EXCEPT !.pc = "patch",
               !.upd = SetObservedStatus(@, rec.orig.spec, rec.orig.gen,
                                         SetHash(rec.orig.spec, rec.got), cdeploy)]
  /\ UNCHANGED <<store, caches, notes, queued, pod, used>>

Patched == set' = [set EXCEPT !.status = SetMerged(@, rec.orig.status, rec.upd)]

PatchStatus ==
  /\ At("patch") /\ set # Absent
  /\ Patched
  /\ rec' = None
  /\ UNCHANGED <<deps, kids, report, caches, notes, queued, pod, used>>

(* Fault: a failed patch is not returned as an error.                      *)
PatchStatusFailsSilently ==
  /\ At("patch") /\ set # Absent
  /\ Fault("patch")
  /\ rec' = None
  /\ UNCHANGED <<set, deps, kids, report, caches, notes, queued, pod>>

PatchStatusFails ==
  /\ At("patch")
  /\ \/ set = Absent /\ UNCHANGED <<set, used>>
     \/ set # Absent /\ Fault("patch") /\ (Patched \/ UNCHANGED set)
  /\ rec' = None /\ queued' = TRUE
  /\ UNCHANGED <<deps, kids, report, caches, notes, pod>>

(* The manager dies and a new one starts: it lists everything again.       *)
Crash ==
  /\ Fault("crash")
  /\ rec' = None /\ notes' = {} /\ queued' = (set # Absent)
  /\ cset' = set /\ cdeps' = deps /\ cdeploy' = DeployOf
  /\ cmaps' = [s \in MapSlots |-> Owner(s)]
  /\ UNCHANGED <<store, pod>>

-----------------------------------------------------------------------------
Edit ==
  \/ \E s \in plan.specs : \/ "create" \in plan.edits /\ SetCreate(s)
                           \/ "edit" \in plan.edits /\ SetEdit(s)
  \/ "delete" \in plan.edits /\ SetDelete
  \/ \E o \in Deps : \E v \in DepValues[o] : "write" \in plan.edits /\ DepWrite(o, v)
  \/ \E o \in Deps : "remove" \in plan.edits /\ DepWrite(o, Absent)
  \/ \E s \in Slots : "child" \in plan.edits /\ ChildDelete(s)

Cluster ==
  \/ \E s \in Slots : GarbageCollect(s)
  \/ PodStart
  \/ report.observed = FALSE /\ ReportReplicas([report EXCEPT !.observed = TRUE])

ReportAny == \E a, u \in 0..1 :
               ReportReplicas([observed |-> TRUE, avail |-> a, unavail |-> u])

Inform ==
  \/ InformSet \/ InformDeploy
  \/ \E o \in Deps : InformDep(o)
  \/ \E s \in MapSlots : InformMap(s)

HandleAny == \E n \in notes : Handle(n)

Worker ==
  \/ Start \/ ReadDep \/ Render \/ ApplyChild \/ ListOrphans
  \/ \E s \in MapSlots : DeleteOrphan(s)
  \/ ObserveDeploy \/ PatchStatus \/ PatchStatusFails

Step == \/ Edit \/ Cluster \/ ReportAny \/ Inform \/ HandleAny
        \/ Worker \/ ApplyFails \/ DeleteFails \/ Crash

Next == Step /\ UNCHANGED plan

Spec == Init /\ [][Next]_vars

(* As for Flows: the machinery runs; users, faults and crashes need not.   *)
(* The set's informer has a goroutine of its own: a reconcile that goes on *)
(* for a deleted set keeps the others busy until it delivers.              *)
FairSpec == /\ Spec
            /\ WF_vars(InformSet /\ UNCHANGED plan) /\ WF_vars(Inform /\ UNCHANGED plan)
            /\ WF_vars(HandleAny /\ UNCHANGED plan) /\ WF_vars(Worker /\ UNCHANGED plan)
            /\ WF_vars(Cluster /\ UNCHANGED plan)

-----------------------------------------------------------------------------
(* Properties.                                                             *)

(* The FlowSet, its cached copy, every child and everything the reconcile  *)
(* holds are well formed, and the FlowSets are ones users have written.    *)
SetTypeOK ==
  LET objOK(o) == o \in FlowSetObj /\ o.spec \in plan.specs \cup {plan.start}
  IN  /\ plan \in Plans
      /\ \A o \in {set, cset} : o = Absent \/ objOK(o)
      /\ deps \in Stores /\ cdeps \in Stores
      /\ DOMAIN kids = Slots /\ \A s \in Slots : kids[s] \in KidObj(s) \cup {Absent}
      /\ report \in Reports /\ cdeploy \in CachedDeploys \cup {Absent}
      /\ cmaps \in [MapSlots -> Nat \cup {Absent}]
      /\ rec # None => /\ rec \in SetReconciles /\ objOK(rec.orig)
                       /\ DOMAIN rec.got = Entries(rec.orig.spec)
                       /\ rec.next \in DOMAIN SetApplyOrder(rec.orig.spec)
      /\ notes \subseteq Deps /\ queued \in BOOLEAN /\ used \in [Budgets -> Nat]

(* Work that will be done without anything else happening.                 *)
SetPending ==
  \/ queued \/ rec # None
  \/ cset # Absent /\ \E n \in notes : WakesSet(n, cset.spec, cdeps)

SetApplyFailed ==
  /\ set.status.cond # None /\ set.status.cond.reason = "Error"
  /\ set.status.cond.msg.about \in {s[2] : s \in Slots}

(* Nothing is pending, and the cache holds the live FlowSet.               *)
AtRest == ~SetPending /\ set # Absent /\ cset = set /\ ~SetApplyFailed

CaughtUp == cdeploy = DeployOf /\ \A s \in MapSlots : cmaps[s] = Owner(s)

(* No lost wakeup: at rest, the status is what a reconcile on the current  *)
(* caches would write, and the children (their informers being up to date) *)
(* are what it would send, although each flow's dependencies   *)
(* were read at moments of their own.                                      *)
SetSettled ==
  AtRest =>
    LET got == ForEvery(set.spec, cdeps)
    IN  /\ SetFinalStatus(set.status, set, got, cdeploy) = set.status
        /\ SetOutcome(set.spec, got).reason = "Rendered" /\ CaughtUp =>
             \A s \in WantedMaps(set.spec) \cup {ServiceSlot, DeploySlot} :
               kids[s] = [owner |-> set.uid, body |-> SetChild(s, set.spec, got)]

(* flowset_controller.go:290: "gcOrphans deletes ConfigMaps owned by this  *)
(* FlowSet that are no longer referenced by the rendered set".  At rest,   *)
(* with the ConfigMaps' informer up to date, none is left over, although   *)
(* the reconcile that removed a flow may have listed a cache that had not  *)
(* yet seen that flow's ConfigMaps.                                        *)
NoOrphans ==
  /\ AtRest /\ CaughtUp
  /\ SetOutcome(set.spec, ForEvery(set.spec, cdeps)).reason = "Rendered"
  => \A s \in MapSlots \ WantedMaps(set.spec) : Owner(s) # set.uid

(* A Pod of the applied template can always start: the ConfigMaps of every *)
(* flow it mounts were created before it and are deleted after it is gone, *)
(* across edits that add and remove flows, failures and restarts.          *)
MountsExist ==
  kids[DeploySlot] # Absent =>
    \A mount \in kids[DeploySlot].body.template.volumes :
      \A k \in {"prompts", "tools", "config"} : kids[<<mount[1], k>>] # Absent

(* api/v1alpha1/common.go:49: "AnnotationContentHash records the rendered  *)
(* content hash of the resources mounted into a Flow Pod, so any change    *)
(* triggers a rollout."  When everything is at rest, caches included, a    *)
(* Pod of the applied template has loaded, for every flow, the files and   *)
(* credentials that flow should have.                                      *)
ContentServed ==
  LET got == ForEvery(set.spec, deps)
  IN  /\ AtRest /\ cdeps = deps /\ CaughtUp
      /\ SetOutcome(set.spec, got).reason = "Rendered"
      /\ pod # NoPod /\ pod.template = kids[DeploySlot].body.template
      => pod.loaded = Content(set.spec, got)

SetConverged ==
  IF set = Absent THEN \A s \in Slots : kids[s] = Absent
  ELSE LET got == ForEvery(set.spec, deps)
           wanted == WantedMaps(set.spec) \cup {ServiceSlot, DeploySlot}
       IN  /\ SetFinalStatus(set.status, set, got, DeployOf) = set.status
           /\ SetOutcome(set.spec, got).reason = "Rendered" =>
                \A s \in Slots :
                  kids[s] = IF s \notin wanted THEN Absent
                            ELSE [owner |-> set.uid, body |-> SetChild(s, set.spec, got)]

(* Once users and faults leave it alone, the FlowSet has exactly the       *)
(* children its spec and dependencies call for, and a status that says so. *)
SetConverges == <>[]SetConverged
=============================================================================
