------------------------- MODULE FlowControllerProofs -------------------------
(***************************************************************************)
(* Proofs about FlowController, for any number of Flows and dependencies,  *)
(* any specs and any bound on edits, faults and restarts: its types; that  *)
(* the invariant of FlowTracking is kept by every step and therefore no    *)
(* wakeup is lost; and, as long as no Flow is deleted, that what its       *)
(* status claims is so: it implements Observation.                         *)
(***************************************************************************)
EXTENDS FlowTracking, FlowObservation, FlowRenderProofs

(* A reconcile that has gone on to the children has read everything it     *)
(* needed and can render it.                                               *)
RenderableOK ==
  rec # None /\ rec.pc \in {"apply", "observe"} =>
    /\ Outcome(rec.orig.spec, rec.got).reason = "Rendered"
    /\ ToRead(rec.orig.spec, rec.got) = {}

TypeInv == TypeOK /\ RenderableOK

(* What has been read stays well formed when one more object is read.     *)
LEMMA ReadMore ==
  ASSUME NEW got \in Readings, NEW d \in Stores, NEW o
  PROVE  [got EXCEPT ![o] = d[o]] \in Readings
BY DEF Readings, Stores

LEMMA SpecsAreTyped == \A f \in Flows, o \in FlowObj : o.spec \in FlowSpec
BY InputsAssumption DEF FlowObj

LEMMA InitTypeInv == Init => TypeInv
<1> SUFFICES ASSUME Init PROVE TypeInv
  OBVIOUS
<1>1. flows \in [Flows -> FlowObj \cup {Absent}]
  BY InputsAssumption, NoStatusType DEF Init, FlowObj
<1>2. deps \in Stores
  BY InputsAssumption DEF Init
<1>3. report \in [Flows -> Reports]
  BY DEF Init, Reports, NoReport
<1>4. queue \subseteq Flows
  BY DEF Init, Existing
<1>5. used \in [{"edits", "applyFaults", "patchFaults", "crashes", "reports", "resyncs"} -> Nat]
  BY DEF Init, NothingUsed
<1>6. kids \in [Flows -> Children]
  BY DEF Init, Children, Kid, Kinds
<1>7. QED
  BY <1>1, <1>2, <1>3, <1>4, <1>5, <1>6 DEF Init, TypeInv, TypeOK, RenderableOK

-----------------------------------------------------------------------------
(* A reconcile that has just read something is one of the reconciles.      *)
LEMMA ResolvedType ==
  ASSUME NEW r \in Reconciles, r.pc = "resolve"
  PROVE  /\ Resolved(r) \in Reconciles
         /\ Resolved(r).pc = "apply" =>
              /\ Outcome(Resolved(r).orig.spec, Resolved(r).got).reason = "Rendered"
              /\ ToRead(Resolved(r).orig.spec, Resolved(r).got) = {}
         /\ Resolved(r).pc # "observe"
<1> DEFINE spec == r.orig.spec
           o == Outcome(spec, r.got)
           reading == spec.image # NoImage /\ Missing(spec, r.got) = {}
                        /\ ToRead(spec, r.got) # {}
<1>1. spec \in FlowSpec /\ r.got \in Readings /\ r.orig.gen \in Nat /\ r.upd \in Status
  BY SpecsAreTyped DEF Reconciles, FlowObj
<1>2. o.reason \in Reasons /\ o.about \in Deps \cup {None}
  BY <1>1, OutcomeType
<1>3. CASE reading
  BY <1>3 DEF Resolved
<1>4. CASE ~reading /\ o.reason = "Rendered"
  <2>1. ToRead(spec, r.got) = {}
    BY <1>1, <1>4, RenderedMeans, NamesAssumption
  <2>2. Resolved(r) = [r EXCEPT !.pc = "apply"]
    BY <1>4 DEF Resolved
  <2>3. QED
    BY <1>4, <2>1, <2>2 DEF Reconciles
<1>5. CASE ~reading /\ o.reason # "Rendered"
  <2> DEFINE st == RefusedStatus(r.upd, r.orig.gen, o.reason, o.about)
  <2>1. st \in Status
    BY <1>1, <1>2, <1>5, RefusedStatusType DEF Reasons
  <2>2. Resolved(r) = [r EXCEPT !.pc = "patch", !.upd = st]
    BY <1>5 DEF Resolved
  <2>3. QED
    BY <2>1, <2>2 DEF Reconciles
<1>6. QED
  BY <1>3, <1>4, <1>5

RenderedKidType ==
  At("apply") => RenderedKid \in KidObj(ApplyOrder[rec.next])

LEMMA RenderedKidIsTyped == TypeInv => RenderedKidType
<1> SUFFICES ASSUME TypeInv, At("apply") PROVE RenderedKid \in KidObj(ApplyOrder[rec.next])
  BY DEF RenderedKidType
<1>1. rec \in Reconciles /\ rec.pc = "apply"
  BY DEF TypeInv, TypeOK, At
<1>2. rec.orig.spec \in FlowSpec /\ rec.got \in Readings /\ rec.orig.uid \in Nat
  BY <1>1, SpecsAreTyped DEF Reconciles, FlowObj
<1>3. ApplyOrder[rec.next] \in Kinds
  BY <1>1 DEF Reconciles, ApplyOrder, Kinds
<1>4. Child(ApplyOrder[rec.next], rec.orig.spec, rec.got) \in ChildBody(ApplyOrder[rec.next])
  BY <1>1, <1>2, <1>3, RenderingType DEF TypeInv, RenderableOK, At
<1>5. QED
  BY <1>2, <1>4 DEF RenderedKid, KidObj

(* Sending a child keeps the API server's children, reports and the queue  *)
(* typed.                                                                  *)
StoreTypeOK ==
  /\ kids \in [Flows -> Children]
  /\ report \in [Flows -> Reports]
  /\ queue \subseteq Flows

LEMMA ChildrenUpdate ==
  ASSUME NEW K \in [Flows -> Children], NEW f \in Flows, NEW k \in Kinds, NEW v \in Kid(k)
  PROVE  [K EXCEPT ![f][k] = v] \in [Flows -> Children]
<1>1. ASSUME NEW c \in Children PROVE [c EXCEPT ![k] = v] \in Children
  <2>1. CASE k = "prompts"
    BY <2>1 DEF Children
  <2>2. CASE k = "tools"
    BY <2>2 DEF Children
  <2>3. CASE k = "config"
    BY <2>3 DEF Children
  <2>4. CASE k = "service"
    BY <2>4 DEF Children
  <2>5. CASE k = "deploy"
    BY <2>5 DEF Children
  <2>6. QED
    BY <2>1, <2>2, <2>3, <2>4, <2>5 DEF Kinds
<1>2. QED
  BY <1>1

(* What it leaves alone.                                                   *)
LEMMA ChildrenElsewhere ==
  ASSUME NEW K \in [Flows -> Children], NEW f \in Flows, NEW k \in Kinds, NEW v
  PROVE  \A g \in Flows, j \in Kinds :
           [K EXCEPT ![f][k] = v][g][j] = IF g = f /\ j = k THEN v ELSE K[g][j]
BY DEF Children, Kinds

LEMMA AppliedType ==
  ASSUME StoreTypeOK, NEW f \in Flows, NEW k \in Kinds, NEW kid \in KidObj(k),
         Applied(f, k, kid)
  PROVE  StoreTypeOK'
<1>1. kids' \in [Flows -> Children]
  BY ChildrenUpdate DEF StoreTypeOK, Applied, Kid
<1>2. report' \in [Flows -> Reports]
  BY DEF StoreTypeOK, Applied, Reports, NoReport
<1>3. queue' \subseteq Flows
  BY DEF StoreTypeOK, Applied, ChildEvent
<1>4. QED
  BY <1>1, <1>2, <1>3 DEF StoreTypeOK

LEMMA RemoveChildType ==
  ASSUME StoreTypeOK, NEW f \in Flows, NEW k \in Kinds, RemoveChild(f, k)
  PROVE  StoreTypeOK'
<1>1. kids' \in [Flows -> Children]
  BY ChildrenUpdate DEF StoreTypeOK, RemoveChild, Kid
<1>2. report' \in [Flows -> Reports]
  BY DEF StoreTypeOK, RemoveChild, Reports, NoReport
<1>3. queue' \subseteq Flows
  BY DEF StoreTypeOK, RemoveChild, ChildEvent
<1>4. QED
  BY <1>1, <1>2, <1>3 DEF StoreTypeOK

LEMMA WokenType ==
  ASSUME NEW n, NEW cf, NEW cd
  PROVE  Woken(n, cf, cd) \subseteq Flows
BY DEF Woken, flowsReferencingPluginConfig, secretToFlow

-----------------------------------------------------------------------------
(* The invariant is kept by every step.                                    *)
LEMMA UserStepsType ==
  ASSUME TypeInv, Edit
  PROVE  TypeInv'
<1> USE DEF TypeInv, TypeOK, RenderableOK
<1>1. ASSUME NEW f \in Flows, NEW s \in FlowSpecs, FlowCreate(f, s) PROVE TypeInv'
  <2>1. used' \in [{"edits", "applyFaults", "patchFaults", "crashes", "reports", "resyncs"} -> Nat]
    BY <1>1 DEF FlowCreate, Spend
  <2>2. [uid |-> used'.edits, spec |-> s, gen |-> 1, status |-> NoStatus] \in FlowObj
    BY <2>1, NoStatusType DEF FlowObj
  <2>3. QED
    BY <1>1, <2>1, <2>2 DEF FlowCreate, caches
<1>2. ASSUME NEW f \in Flows, NEW s \in FlowSpecs, FlowEdit(f, s) PROVE TypeInv'
  <2>1. flows' \in [Flows -> FlowObj \cup {Absent}]
    BY <1>2 DEF FlowEdit, FlowObj
  <2>2. QED
    BY <1>2, <2>1 DEF FlowEdit, Spend, caches
<1>3. ASSUME NEW f \in Flows, FlowDelete(f) PROVE TypeInv'
  BY <1>3 DEF FlowDelete, Spend, caches
<1>4. ASSUME NEW o \in Deps, NEW v \in DepValues[o], DepWrite(o, v) PROVE TypeInv'
  <2>1. v \in DepObj(o) /\ v \in Objects
    BY InputsAssumption DEF DepObj, Objects, RefTargets, Deps
  <2>2. deps' \in Stores
    BY <1>4, <2>1 DEF DepWrite, Stores
  <2>3. QED
    BY <1>4, <2>2 DEF DepWrite, Spend, caches
<1>5. ASSUME NEW o \in Deps, DepDelete(o) PROVE TypeInv'
  BY <1>5 DEF DepDelete, Spend, caches, Stores
<1>6. ASSUME NEW f \in Flows, NEW k \in Kinds, ChildDelete(f, k) PROVE TypeInv'
  BY <1>6, RemoveChildType DEF ChildDelete, Spend, caches, StoreTypeOK
<1>7. QED
  BY <1>1, <1>2, <1>3, <1>4, <1>5, <1>6 DEF Edit

LEMMA ClusterStepsType ==
  ASSUME TypeInv, ReportAny \/ Cluster \/ Inform \/ Resync
  PROVE  TypeInv'
<1> USE DEF TypeInv, TypeOK, RenderableOK
<1>1. ASSUME NEW f \in Flows, NEW k \in Kinds, GarbageCollect(f, k) PROVE TypeInv'
  BY <1>1, RemoveChildType DEF GarbageCollect, caches, StoreTypeOK
<1>2. ASSUME NEW f \in Flows, ObserveGeneration(f) PROVE TypeInv'
  BY <1>2 DEF ObserveGeneration, caches, Reports
<1>3. ASSUME NEW f \in Flows, NEW r \in [observed : {TRUE}, avail : 0..1, unavail : 0..1],
             ReportReplicas(f, r)
      PROVE  TypeInv'
  <2>1. report' \in [Flows -> Reports]
    <3>1. r.observed \in BOOLEAN
      BY ZenonT(20)
    <3>2. r.avail \in Nat /\ r.unavail \in Nat
      OBVIOUS
    <3>3. r \in Reports
      BY <3>1, <3>2 DEF Reports
    <3>4. QED
      BY <1>3, <3>3 DEF ReportReplicas
  <2>2. used' \in [{"edits", "applyFaults", "patchFaults", "crashes", "reports", "resyncs"} -> Nat]
    BY <1>3 DEF ReportReplicas, Spend
  <2>3. QED
    BY <1>3, <2>1, <2>2 DEF ReportReplicas, caches
<1>4. ASSUME NEW f \in Flows, InformFlow(f) PROVE TypeInv'
  BY <1>4 DEF InformFlow, store
<1>5. ASSUME NEW f \in Flows, InformDeploy(f) PROVE TypeInv'
  <2>1. kids[f]["deploy"] \in Kid("deploy")
    BY DEF Children, Kinds
  <2>2. DeployOf(f) \in [kid : KidObj("deploy"), status : Reports] \cup {Absent}
    BY <2>1 DEF DeployOf, Kid
  <2>3. QED
    BY <1>5, <2>2 DEF InformDeploy, store
<1>6. ASSUME NEW o \in Deps, InformDep(o) PROVE TypeInv'
  BY <1>6 DEF InformDep, store, Stores
<1>7. ASSUME Resync PROVE TypeInv'
  BY <1>7 DEF Resync, Spend, store, caches, Existing
<1>8. QED
  BY <1>1, <1>2, <1>3, <1>4, <1>5, <1>6, <1>7 DEF ReportAny, Cluster, Collect, Inform

LEMMA ControllerStepsType ==
  ASSUME TypeInv, HandleAny \/ Worker \/ ApplyFails \/ Crash
  PROVE  TypeInv'
<1> USE DEF TypeInv, TypeOK, RenderableOK
<1>1. ASSUME NEW n \in notes, Handle(n) PROVE TypeInv'
  BY <1>1, WokenType DEF Handle, store, caches
<1>2. ASSUME NEW f \in queue, Start(f) PROVE TypeInv'
  <2> DEFINE r == [flow |-> f, orig |-> cflows[f], got |-> [o \in Deps |-> Unread],
                   pc |-> "resolve", next |-> 1, upd |-> cflows[f].status]
  <2>1. cflows[f] # Absent => r \in Reconciles /\ r.pc = "resolve"
    BY DEF Reconciles, FlowObj, Readings, ApplyOrder
  <2> HIDE DEF r
  <2>2. rec' = IF cflows[f] = Absent THEN None ELSE Resolved(r)
    BY <1>2 DEF Start, r
  <2>3. RenderableOK' /\ rec' \in Reconciles \cup {None}
    BY <2>1, <2>2, ResolvedType
  <2>4. QED
    BY <1>2, <2>3 DEF Start, store, caches
<1>3. ASSUME ReadDep PROVE TypeInv'
  <2> DEFINE o == First(ToRead(rec.orig.spec, rec.got))
             r == [rec EXCEPT !.got[o] = cdeps[o]]
  <2>1. rec \in Reconciles /\ rec.pc = "resolve"
    BY <1>3 DEF ReadDep, At
  <2>2. rec.orig.spec \in FlowSpec /\ rec.got \in Readings
    BY <2>1, SpecsAreTyped DEF Reconciles, FlowObj
  <2>3. [rec.got EXCEPT ![o] = cdeps[o]] \in Readings
    BY <2>2 DEF Readings, Stores
  <2>4. r \in Reconciles /\ r.pc = "resolve"
    BY <2>1, <2>3 DEF Reconciles
  <2>5. rec' = Resolved(r)
    BY <1>3 DEF ReadDep
  <2> HIDE DEF r
  <2>6. RenderableOK' /\ rec' \in Reconciles \cup {None}
    BY <2>4, <2>5, ResolvedType
  <2>7. QED
    BY <1>3, <2>6 DEF ReadDep, store, caches
<1>4. ASSUME At("apply"), Applied(rec.flow, ApplyOrder[rec.next], RenderedKid) PROVE StoreTypeOK'
  <2>1. ApplyOrder[rec.next] \in Kinds /\ rec.flow \in Flows
    BY <1>4 DEF At, Reconciles, ApplyOrder, Kinds
  <2>2. RenderedKid \in KidObj(ApplyOrder[rec.next])
    BY <1>4, RenderedKidIsTyped DEF RenderedKidType
  <2>3. QED
    BY <1>4, <2>1, <2>2, AppliedType DEF StoreTypeOK
<1>5. ASSUME ApplyChild PROVE TypeInv'
  <2>1. rec' \in Reconciles /\ RenderableOK'
    BY <1>5 DEF ApplyChild, At, Reconciles, ApplyOrder
  <2>2. QED
    BY <1>4, <1>5, <2>1 DEF ApplyChild, StoreTypeOK, caches
<1>6. ASSUME ApplyFails PROVE TypeInv'
  <2>1. rec \in Reconciles /\ rec.upd \in Status /\ rec.orig.gen \in Nat
    BY <1>6 DEF ApplyFails, At, Reconciles, FlowObj
  <2>2. ApplyOrder[rec.next] \in Kinds
    BY <2>1 DEF Reconciles, ApplyOrder, Kinds
  <2>3. RefusedStatus(rec.upd, rec.orig.gen, "Error", ApplyOrder[rec.next]) \in Status
    BY <2>1, <2>2, RefusedStatusType
  <2>4. rec' \in Reconciles /\ RenderableOK'
    BY <1>6, <2>1, <2>3 DEF ApplyFails, Reconciles
  <2>5. StoreTypeOK'
    BY <1>4, <1>6 DEF ApplyFails, StoreTypeOK
  <2>6. QED
    BY <1>6, <2>4, <2>5 DEF ApplyFails, StoreTypeOK, Spend, caches
<1>7. ASSUME ObserveDeploy PROVE TypeInv'
  <2>1. /\ rec \in Reconciles /\ rec.orig.gen \in Nat /\ rec.upd \in Status
        /\ rec.orig.spec \in FlowSpec /\ rec.got \in Readings /\ rec.flow \in Flows
    BY <1>7, SpecsAreTyped DEF ObserveDeploy, At, Reconciles, FlowObj
  <2>2. ContentHash(rec.orig.spec, rec.got) \in Hashes
    BY <1>7, <2>1, RenderingType DEF ObserveDeploy, At
  <2>3. ObservedStatus(rec.upd, rec.orig.gen, rec.orig.spec,
                       ContentHash(rec.orig.spec, rec.got), cdeploy[rec.flow]) \in Status
    BY <2>1, <2>2, ObservedStatusType DEF Reports
  <2>4. rec' \in Reconciles /\ RenderableOK'
    BY <1>7, <2>1, <2>3 DEF ObserveDeploy, Reconciles
  <2>5. QED
    BY <1>7, <2>4 DEF ObserveDeploy, store, caches
<1>8. ASSUME At("patch"), flows[rec.flow] # Absent, Patched(rec.flow)
      PROVE  flows' \in [Flows -> FlowObj \cup {Absent}]
  <2>1. rec.flow \in Flows /\ rec.upd \in Status /\ rec.orig.status \in Status
    BY <1>8 DEF At, Reconciles, FlowObj
  <2>2. MergedStatus(flows[rec.flow].status, rec.orig.status, rec.upd) \in Status
    BY <1>8, <2>1, MergedStatusType DEF FlowObj
  <2>3. QED
    BY <1>8, <2>1, <2>2 DEF Patched, FlowObj
<1>9. ASSUME PatchStatus PROVE TypeInv'
  BY <1>8, <1>9 DEF PatchStatus, caches
<1>10. ASSUME PatchStatusFails PROVE TypeInv'
  <2>1. flows' \in [Flows -> FlowObj \cup {Absent}]
    BY <1>8, <1>10 DEF PatchStatusFails
  <2>2. rec.flow \in Flows
    BY <1>10 DEF PatchStatusFails, At, Reconciles
  <2>3. used' \in [{"edits", "applyFaults", "patchFaults", "crashes", "reports", "resyncs"} -> Nat]
    BY <1>10 DEF PatchStatusFails, Spend
  <2>4. QED
    BY <1>10, <2>1, <2>2, <2>3 DEF PatchStatusFails, caches
<1>11. ASSUME Crash PROVE TypeInv'
  <2>1. \A f \in Flows : kids[f]["deploy"] \in Kid("deploy")
    BY DEF Children, Kinds
  <2>2. \A f \in Flows : DeployOf(f) \in [kid : KidObj("deploy"), status : Reports] \cup {Absent}
    BY <2>1 DEF DeployOf, Kid
  <2>3. cdeploy' \in [Flows -> [kid : KidObj("deploy"), status : Reports] \cup {Absent}]
    BY <1>11, <2>2 DEF Crash
  <2>4. QED
    BY <1>11, <2>3 DEF Crash, Spend, store, Existing
<1>12. QED
  BY <1>1, <1>2, <1>3, <1>5, <1>6, <1>7, <1>9, <1>10, <1>11 DEF HandleAny, Worker

LEMMA TypeInvStep == TypeInv /\ [Next]_vars => TypeInv'
<1>1. TypeInv /\ UNCHANGED vars => TypeInv'
  BY DEF TypeInv, TypeOK, RenderableOK, vars
<1>2. QED
  BY <1>1, UserStepsType, ClusterStepsType, ControllerStepsType DEF Next

(* Type correctness: whatever users, faults and crashes do, every variable *)
(* keeps its type; in particular every child and every status the          *)
(* controller sends is well formed.                                        *)
THEOREM TypeCorrect == Spec => []TypeOK
<1>1. TypeInv => TypeOK
  BY DEF TypeInv
<1>2. QED
  BY InitTypeInv, TypeInvStep, <1>1, PTL DEF Spec

-----------------------------------------------------------------------------
(* Tracking.                                                               *)

TrackInv == TypeInv /\ Tracking

LEMMA InitTracking == Init => Tracking
<1> SUFFICES ASSUME Init PROVE Tracking
  OBVIOUS
<1>1. \A f \in Flows : flows[f] # Absent => flows[f].uid = 0
  BY InputsAssumption DEF Init
<1>2. VersionsOK
  <2>1. used.edits = 0 /\ cflows = flows
    BY DEF Init, NothingUsed
  <2>2. \A f \in Flows : flows[f] # Absent => flows[f].gen = 1
    BY InputsAssumption DEF Init
  <2>3. ASSUME NEW f \in Flows, flows[f] # Absent
        PROVE  flows[f].uid <= used.edits /\ flows[f].gen <= flows[f].gen
    BY <1>1, <2>1, <2>2, <2>3
  <2>4. QED
    BY <2>1, <2>3 DEF VersionsOK
<1>3. ReadingOK
  BY DEF Init, ReadingOK
<1>4. \A f \in Flows : InProgressOK(f)
  BY DEF Init, InProgressOK, Reconciling
<1>5. \A f \in Flows : AtRestOK(f)
  BY DEF Init, AtRestOK, Awake, Existing
<1>6. QED
  BY <1>2, <1>3, <1>4, <1>5 DEF Tracking

(* A Flow that a step does not concern is where it was.                    *)
Untouched(f) ==
  /\ cflows'[f] = cflows[f] /\ cdeps' = cdeps /\ cdeploy'[f] = cdeploy[f]
  /\ \A k \in Kinds : SentOK(f, k) => SentOK(f, k)'
  /\ Awake(f) => Awake(f)'

LEMMA UntouchedInProgress ==
  ASSUME NEW f \in Flows, Untouched(f), rec' = rec, InProgressOK(f)
  PROVE  InProgressOK(f)'
<1> SUFFICES ASSUME rec # None, rec.flow = f, ~Awake(f)'
             PROVE  (/\ rec.orig = cflows[f]
                     /\ \A o \in Deps : rec.got[o] \in {Unread, cdeps[o]}
                     /\ rec.pc = "apply" => \A i \in DOMAIN ApplyOrder :
                                              i < rec.next => SentOK(f, ApplyOrder[i])
                     /\ rec.pc = "observe" => AllSentOK(f)
                     /\ rec.pc = "patch" => EndsWith(f, rec.upd))'
  BY DEF InProgressOK, Reconciling
<1>1. Reconciling(f) /\ ~Awake(f)
  BY DEF Untouched, Reconciling
<1>2. (rec.orig = cflows[f] /\ \A o \in Deps : rec.got[o] \in {Unread, cdeps[o]})'
  BY <1>1 DEF InProgressOK, Untouched
<1>3. \A i \in DOMAIN ApplyOrder : ApplyOrder[i] \in Kinds
  BY DEF ApplyOrder, Kinds
<1>4. (rec.pc = "apply" => \A i \in DOMAIN ApplyOrder : i < rec.next => SentOK(f, ApplyOrder[i]))'
  BY <1>1, <1>3 DEF InProgressOK, Untouched
<1>5. (rec.pc = "observe" => AllSentOK(f))'
  BY <1>1 DEF InProgressOK, Untouched, AllSentOK
<1>6. (rec.pc = "patch" => EndsWith(f, rec.upd))'
  BY <1>1 DEF InProgressOK, Untouched, EndsWith, AllSentOK
<1>7. QED
  BY <1>2, <1>4, <1>5, <1>6

LEMMA UntouchedAtRest ==
  ASSUME NEW f \in Flows, Untouched(f), Reconciling(f) => Reconciling(f)',
         flows'[f] \in {flows[f], Absent} \/ flows'[f] # cflows[f], AtRestOK(f)
  PROVE  AtRestOK(f)'
<1> SUFFICES ASSUME ~Reconciling(f)', ~Awake(f)', flows'[f] # Absent, cflows'[f] = flows'[f]
             PROVE  EndsWith(f, flows[f].status)'
  BY DEF AtRestOK
<1>1. ~Reconciling(f) /\ ~Awake(f) /\ flows'[f] = flows[f] /\ cflows[f] = flows[f]
  BY DEF Untouched, Reconciling
<1>2. EndsWith(f, flows[f].status)
  BY <1>1 DEF AtRestOK
<1>3. EndsWith(f, flows[f].status)'
  BY <1>1, <1>2 DEF Untouched, EndsWith, AllSentOK
<1>4. QED
  BY <1>1, <1>3

EachFlow == \A f \in Flows : InProgressOK(f) /\ AtRestOK(f)

-----------------------------------------------------------------------------
(* Versions: a cached Flow never overtakes the live one.                   *)
LEMMA VersionsStep == TypeInv /\ VersionsOK /\ [Next]_vars => VersionsOK'
<1> SUFFICES ASSUME TypeInv, VersionsOK, [Next]_vars PROVE VersionsOK'
  OBVIOUS
<1> DEFINE Behind(f) ==
      /\ flows[f] # Absent => flows[f].uid <= used.edits
      /\ cflows[f] # Absent => cflows[f].uid <= used.edits
      /\ flows[f] # Absent /\ cflows[f] # Absent /\ flows[f].uid = cflows[f].uid
           => cflows[f].gen <= flows[f].gen
<1>1. /\ flows \in [Flows -> FlowObj \cup {Absent}] /\ cflows \in [Flows -> FlowObj \cup {Absent}]
      /\ used.edits \in Nat
      /\ \A f \in Flows : Behind(f)
  BY DEF TypeInv, TypeOK, VersionsOK
<1>2. \A o \in FlowObj : o.uid \in Nat /\ o.gen \in Nat
  BY DEF FlowObj
<1>3. ASSUME UNCHANGED <<flows, cflows>>, used'.edits \in {used.edits, used.edits + 1}
      PROVE  VersionsOK'
  BY <1>1, <1>2, <1>3 DEF VersionsOK
<1>4. ASSUME NEW f \in Flows, NEW s \in FlowSpecs, FlowCreate(f, s) PROVE VersionsOK'
  <2>1. used'.edits = used.edits + 1 /\ cflows' = cflows
    BY <1>4 DEF FlowCreate, Spend, caches, TypeInv, TypeOK
  <2>2. flows'[f].uid = used.edits + 1 /\ \A g \in Flows \ {f} : flows'[g] = flows[g]
    BY <1>1, <1>4, <2>1 DEF FlowCreate
  <2>3. QED
    BY <1>1, <1>2, <2>1, <2>2 DEF VersionsOK
<1>5. ASSUME NEW f \in Flows, NEW s \in FlowSpecs, FlowEdit(f, s) PROVE VersionsOK'
  <2>1. used'.edits = used.edits + 1 /\ cflows' = cflows
    BY <1>5 DEF FlowEdit, Spend, caches, TypeInv, TypeOK
  <2>2. /\ flows[f] # Absent /\ flows'[f].uid = flows[f].uid /\ flows'[f].gen = flows[f].gen + 1
        /\ \A g \in Flows \ {f} : flows'[g] = flows[g]
    BY <1>1, <1>5 DEF FlowEdit, FlowObj
  <2>3. QED
    BY <1>1, <1>2, <2>1, <2>2 DEF VersionsOK
<1>6. ASSUME NEW f \in Flows, FlowDelete(f) PROVE VersionsOK'
  <2>1. used'.edits = used.edits + 1 /\ cflows' = cflows
    BY <1>6 DEF FlowDelete, Spend, caches, TypeInv, TypeOK
  <2>2. \A g \in Flows : flows'[g] \in {flows[g], Absent}
    BY <1>1, <1>6 DEF FlowDelete
  <2>3. QED
    BY <1>1, <1>2, <2>1, <2>2 DEF VersionsOK
<1>7. ASSUME NEW f \in Flows, InformFlow(f) PROVE VersionsOK'
  <2>1. \A g \in Flows : cflows'[g] \in {cflows[g], flows[g]}
    BY <1>1, <1>7 DEF InformFlow
  <2>2. QED
    BY <1>1, <1>2, <1>7, <2>1 DEF InformFlow, store, VersionsOK
<1>8. ASSUME PatchStatus \/ PatchStatusFails PROVE VersionsOK'
  <2>1. rec.flow \in Flows
    BY <1>8 DEF PatchStatus, PatchStatusFails, At, TypeInv, TypeOK, Reconciles
  <2>2. flows' = flows \/ (flows[rec.flow] # Absent /\ Patched(rec.flow))
    BY <1>8 DEF PatchStatus, PatchStatusFails
  <2>3. \A g \in Flows : \/ flows'[g] = flows[g]
                         \/ /\ flows[g] # Absent
                            /\ flows'[g].uid = flows[g].uid /\ flows'[g].gen = flows[g].gen
    BY <1>1, <2>1, <2>2 DEF Patched, FlowObj
  <2>4. cflows' = cflows /\ used'.edits = used.edits
    BY <1>8 DEF PatchStatus, PatchStatusFails, Spend, caches, TypeInv, TypeOK
  <2>5. QED
    BY <1>1, <1>2, <2>3, <2>4 DEF VersionsOK
<1>9. ASSUME Crash PROVE VersionsOK'
  <2>1. flows' = flows /\ cflows' = flows /\ used'.edits = used.edits
    BY <1>9 DEF Crash, store, Spend, TypeInv, TypeOK
  <2>2. QED
    BY <1>1, <1>2, <2>1 DEF VersionsOK
<1>10. CASE UNCHANGED vars
  BY <1>3, <1>10 DEF vars
<1>11. ASSUME \/ \E o \in Deps : (\E v \in DepValues[o] : DepWrite(o, v)) \/ DepDelete(o)
              \/ \E f \in Flows, k \in Kinds : ChildDelete(f, k)
       PROVE  VersionsOK'
  BY <1>3, <1>11 DEF DepWrite, DepDelete, ChildDelete, Spend, caches, TypeInv, TypeOK
<1>12. ASSUME ReportAny \/ Cluster \/ Resync PROVE VersionsOK'
  BY <1>3, <1>12
  DEF ReportAny, Cluster, Collect, Resync, ReportReplicas, GarbageCollect, ObserveGeneration,
      Spend, store, caches, TypeInv, TypeOK
<1>13. ASSUME (\E f \in Flows : InformDeploy(f)) \/ (\E o \in Deps : InformDep(o)) \/ HandleAny
       PROVE  VersionsOK'
  BY <1>3, <1>13 DEF InformDeploy, InformDep, HandleAny, Handle, store, caches
<1>14. ASSUME (\E f \in queue : Start(f)) \/ ReadDep \/ ApplyChild \/ ObserveDeploy \/ ApplyFails
       PROVE  VersionsOK'
  BY <1>3, <1>14
  DEF Start, ReadDep, ApplyChild, ObserveDeploy, ApplyFails, Spend, store, caches, TypeInv, TypeOK
<1>15. QED
  BY <1>4, <1>5, <1>6, <1>7, <1>8, <1>9, <1>10, <1>11, <1>12, <1>13, <1>14
  DEF Next, Edit, Inform, Worker

-----------------------------------------------------------------------------
(* Reading.  What Resolved makes of a reconcile that has read one more     *)
(* object: it goes on reading, goes on to the children, or stops early.    *)
LEMMA ResolvedCases ==
  ASSUME NEW r \in Reconciles, r.pc = "resolve"
  PROVE  LET spec == r.orig.spec
             o == Outcome(spec, r.got)
             q == Resolved(r)
         IN  /\ q.flow = r.flow /\ q.orig = r.orig /\ q.got = r.got /\ q.next = r.next
             /\ \/ /\ q = r
                   /\ spec.image # NoImage /\ Missing(spec, r.got) = {}
                   /\ ToRead(spec, r.got) # {}
                \/ /\ q.pc = "apply" /\ q.upd = r.upd
                \/ /\ q.pc = "patch"
                   /\ q.upd = RefusedStatus(r.upd, r.orig.gen, o.reason, o.about)
                   /\ o.reason # "Rendered"
                   /\ \/ spec.image = NoImage
                      \/ Missing(spec, r.got) # {}
                      \/ ToRead(spec, r.got) = {}
BY DEF Resolved, Reconciles

(* The first object a reconcile has not read.                              *)
LEMMA NextRead ==
  ASSUME TypeInv, ReadingOK, ReadDep
  PROVE  \E x \in ToRead(rec.orig.spec, rec.got) :
           /\ \A h \in ToRead(rec.orig.spec, rec.got) : x[1] <= h[1]
           /\ x[1] \in Nat /\ x[2] \in Deps /\ rec.got[x[2]] = Unread
           /\ rec' = Resolved([rec EXCEPT !.got[x[2]] = cdeps[x[2]]])
<1>1. rec \in Reconciles /\ rec.pc = "resolve" /\ rec # None
  BY DEF TypeInv, TypeOK, ReadDep, At
<1>2. rec.orig.spec \in FlowSpec /\ rec.got \in Readings
  BY <1>1, SpecsAreTyped DEF Reconciles, FlowObj
<1> DEFINE unread == ToRead(rec.orig.spec, rec.got)
<1>3. unread \in SUBSET (Nat \X Deps) /\ unread # {}
  BY <1>1, <1>2, GetsType DEF ToRead, ReadingOK
<1>4. PICK x \in unread : First(unread) = x[2] /\ \A h \in unread : x[1] <= h[1]
  <2> HIDE DEF unread
  <2> QED
    BY <1>3, FirstIsOneOfThem
<1>5. rec.got[x[2]] = Unread
  BY DEF ToRead
<1>6. QED
  BY <1>3, <1>4, <1>5 DEF ReadDep

LEMMA ReadingStep == TypeInv /\ ReadingOK /\ [Next]_vars => ReadingOK'
<1> SUFFICES ASSUME TypeInv, ReadingOK, [Next]_vars PROVE ReadingOK'
  OBVIOUS
<1>1. CASE rec' = rec
  BY <1>1 DEF ReadingOK
<1>2. CASE rec' = None
  BY <1>2 DEF ReadingOK
<1>3. ASSUME NEW f \in queue, Start(f), cflows[f] # Absent PROVE ReadingOK'
  <2> DEFINE r == [flow |-> f, orig |-> cflows[f], got |-> [o \in Deps |-> Unread],
                   pc |-> "resolve", next |-> 1, upd |-> cflows[f].status]
  <2>1. r \in Reconciles /\ r.pc = "resolve"
    BY <1>3 DEF TypeInv, TypeOK, Reconciles, FlowObj, Readings, ApplyOrder
  <2>2. /\ r.next = 1 /\ r.upd = r.orig.status
        /\ \A o \in Deps : r.got[o] = Unread
    OBVIOUS
  <2> HIDE DEF r
  <2>3. rec' = Resolved(r)
    BY <1>3 DEF Start, r
  <2>4. QED
    BY <2>1, <2>2, <2>3, ResolvedCases DEF ReadingOK
<1>4. ASSUME ReadDep PROVE ReadingOK'
  <2> DEFINE spec == rec.orig.spec
  <2>1. PICK x \in ToRead(spec, rec.got) :
          /\ x[2] \in Deps /\ rec.got[x[2]] = Unread
          /\ rec' = Resolved([rec EXCEPT !.got[x[2]] = cdeps[x[2]]])
    BY <1>4, NextRead
  <2> DEFINE r == [rec EXCEPT !.got[x[2]] = cdeps[x[2]]]
  <2>2. rec \in Reconciles /\ rec.pc = "resolve" /\ rec # None
    BY <1>4 DEF TypeInv, TypeOK, ReadDep, At
  <2>3. spec \in FlowSpec /\ rec.got \in Readings
    BY <2>2, SpecsAreTyped DEF Reconciles, FlowObj
  <2>4. r.got \in Readings /\ PartOf(rec.got, r.got)
    BY <2>1, <2>2, <2>3 DEF TypeInv, TypeOK, Readings, Stores, PartOf, Reconciles
  <2>5. /\ r \in Reconciles /\ r.pc = "resolve" /\ r.next = 1 /\ r.orig = rec.orig
        /\ r.upd = r.orig.status
    BY <2>2, <2>4 DEF Reconciles, ReadingOK
  <2>6. \A o \in Deps : r.got[o] # Unread => \E g \in Gets(spec, r.got) : g[2] = o
    <3>1. Gets(spec, rec.got) \subseteq Gets(spec, r.got)
      BY <2>3, <2>4, GetsGrow
    <3>2. \A o \in Deps : o # x[2] => r.got[o] = rec.got[o]
      BY <2>2, <2>3 DEF Readings, Reconciles
    <3>3. x \in Gets(spec, rec.got)
      BY DEF ToRead
    <3> HIDE DEF r
    <3>4. QED
      BY <2>2, <3>1, <3>2, <3>3 DEF ReadingOK
  <2> HIDE DEF r
  <2>7. rec' = Resolved(r)
    BY <2>1 DEF r
  <2>8. QED
    BY <2>5, <2>6, <2>7, ResolvedCases DEF ReadingOK
<1>5. ASSUME ApplyChild PROVE ReadingOK'
  BY <1>5 DEF ApplyChild, At, ReadingOK, TypeInv, TypeOK, Reconciles
<1>6. ASSUME ObserveDeploy \/ ApplyFails PROVE ReadingOK'
  BY <1>6 DEF ObserveDeploy, ApplyFails, At, ReadingOK, TypeInv, TypeOK, Reconciles
<1>7. QED
  <2>1. CASE UNCHANGED vars
    BY <1>1, <2>1 DEF vars
  <2>2. CASE Edit
    BY <1>1, <2>2 DEF Edit, FlowCreate, FlowEdit, FlowDelete, DepWrite, DepDelete, ChildDelete
  <2>3. CASE ReportAny \/ Cluster \/ Inform \/ Resync
    BY <1>1, <2>3
    DEF ReportAny, Cluster, Collect, Inform, Resync, ReportReplicas, GarbageCollect,
        ObserveGeneration, InformFlow, InformDeploy, InformDep
  <2>4. CASE HandleAny \/ Crash
    BY <1>1, <1>2, <2>4 DEF HandleAny, Handle, Crash
  <2>5. CASE Worker
    BY <1>2, <1>3, <1>4, <1>5, <1>6, <2>5 DEF Worker, Start, PatchStatus, PatchStatusFails
  <2>6. CASE ApplyFails
    BY <1>6, <2>6
  <2>7. QED
    BY <2>1, <2>2, <2>3, <2>4, <2>5, <2>6 DEF Next

-----------------------------------------------------------------------------
(* The per-flow part, one group of steps at a time.                        *)

(* Users, Kubernetes and resyncs: only a child that disappears matters.    *)
LEMMA RemovedChildKeepsOrWakes ==
  ASSUME TypeInv, NEW f \in Flows, NEW k \in Kinds, RemoveChild(f, k),
         UNCHANGED <<caches, notes, rec>>
  PROVE  \A g \in Flows : Awake(g)' \/ Untouched(g)
<1> SUFFICES ASSUME NEW g \in Flows, ~Awake(g)' PROVE Untouched(g)
  OBVIOUS
<1>1. queue \subseteq queue' /\ (Awake(g) => Awake(g)')
  BY DEF RemoveChild, ChildEvent, Awake, caches
<1>2. \A h \in Flows, j \in Kinds :
        kids'[h][j] = IF h = f /\ j = k THEN Absent ELSE kids[h][j]
  <2>1. kids \in [Flows -> Children] /\ kids' = [kids EXCEPT ![f][k] = Absent]
    BY DEF TypeInv, TypeOK, RemoveChild
  <2>2. QED
    BY <2>1, ChildrenElsewhere
<1>3. g = f => k = "deploy" /\ cdeploy[f] # Absent
  BY DEF RemoveChild, ChildEvent, Awake
<1>4. \A j \in Kinds : SentOK(g, j) => SentOK(g, j)'
  BY <1>2, <1>3 DEF SentOK, RenderedFor, caches
<1>5. QED
  BY <1>1, <1>4 DEF Untouched, caches

LEMMA OutsideSteps ==
  ASSUME TypeInv, VersionsOK, EachFlow, Edit \/ ReportAny \/ Cluster \/ Resync
  PROVE  EachFlow'
<1>1. ASSUME NEW f \in Flows, NEW k \in Kinds, ChildDelete(f, k) \/ GarbageCollect(f, k)
      PROVE  EachFlow'
  <2>1. RemoveChild(f, k) /\ UNCHANGED <<flows, caches, notes, rec>>
    BY <1>1 DEF ChildDelete, GarbageCollect
  <2>2. ASSUME NEW g \in Flows PROVE InProgressOK(g)' /\ AtRestOK(g)'
    <3>1. CASE Awake(g)'
      BY <3>1 DEF InProgressOK, AtRestOK
    <3>2. CASE Untouched(g)
      BY <2>1, <3>2, UntouchedInProgress, UntouchedAtRest DEF EachFlow, Reconciling
    <3>3. QED
      BY <2>1, <3>1, <3>2, RemovedChildKeepsOrWakes
  <2>3. QED
    BY <2>2 DEF EachFlow
<1>2. ASSUME UNCHANGED <<kids, caches, rec>>, notes \subseteq notes', queue \subseteq queue',
             \A g \in Flows : flows'[g] \in {flows[g], Absent} \/ flows'[g] # cflows[g]
      PROVE  EachFlow'
  <2>1. ASSUME NEW g \in Flows PROVE Untouched(g)
    BY <1>2 DEF Untouched, Awake, SentOK, RenderedFor, caches
  <2>2. ASSUME NEW g \in Flows PROVE InProgressOK(g)' /\ AtRestOK(g)'
    BY <1>2, <2>1, UntouchedInProgress, UntouchedAtRest DEF EachFlow, Reconciling
  <2>3. QED
    BY <2>2 DEF EachFlow
<1>3. /\ flows \in [Flows -> FlowObj \cup {Absent}] /\ cflows \in [Flows -> FlowObj \cup {Absent}]
      /\ used.edits \in Nat
      /\ \A o \in FlowObj : o.uid \in Nat /\ o.gen \in Nat /\ o # Absent
  BY RecordsAssumption DEF TypeInv, TypeOK, FlowObj
<1>4. ASSUME NEW f \in Flows, NEW s \in FlowSpecs, FlowCreate(f, s) PROVE EachFlow'
  <2>1. used'.edits = used.edits + 1
    BY <1>4 DEF FlowCreate, Spend, TypeInv, TypeOK
  <2>2. /\ flows'[f] = [uid |-> used.edits + 1, spec |-> s, gen |-> 1, status |-> NoStatus]
        /\ \A g \in Flows \ {f} : flows'[g] = flows[g]
    BY <1>3, <1>4, <2>1 DEF FlowCreate
  <2>3. flows'[f].uid = used.edits + 1 /\ flows'[f] \in FlowObj
    BY <1>3, <2>2, InputsAssumption, NoStatusType DEF FlowObj
  <2>4. flows'[f] # cflows[f]
    BY <1>3, <2>3 DEF VersionsOK
  <2>5. QED
    BY <1>2, <1>4, <2>2, <2>4 DEF FlowCreate
<1>5. ASSUME NEW f \in Flows, NEW s \in FlowSpecs, FlowEdit(f, s) PROVE EachFlow'
  <2>1. /\ flows[f] # Absent /\ flows'[f].uid = flows[f].uid /\ flows'[f].gen = flows[f].gen + 1
        /\ flows'[f] # Absent
        /\ \A g \in Flows \ {f} : flows'[g] = flows[g]
    BY <1>3, <1>5 DEF FlowEdit, FlowObj
  <2>2. flows'[f] # cflows[f]
    BY <1>3, <2>1 DEF VersionsOK
  <2>3. QED
    BY <1>2, <1>5, <2>1, <2>2 DEF FlowEdit
<1>6. ASSUME NEW f \in Flows, FlowDelete(f) PROVE EachFlow'
  <2>1. \A g \in Flows : flows'[g] \in {flows[g], Absent}
    BY <1>3, <1>6 DEF FlowDelete
  <2>2. QED
    BY <1>2, <1>6, <2>1 DEF FlowDelete
<1>7. ASSUME NEW o \in Deps, DepDelete(o) \/ \E v \in DepValues[o] : DepWrite(o, v) PROVE EachFlow'
  BY <1>2, <1>7 DEF DepDelete, DepWrite
<1>8. ASSUME ReportAny \/ (\E f \in Flows : ObserveGeneration(f)) PROVE EachFlow'
  BY <1>2, <1>8 DEF ReportAny, ReportReplicas, ObserveGeneration
<1>9. ASSUME Resync PROVE EachFlow'
  BY <1>2, <1>9 DEF Resync, store
<1>10. QED
  BY <1>1, <1>4, <1>5, <1>6, <1>7, <1>8, <1>9 DEF Edit, Cluster, Collect

(* Informers: a Flow or a Deployment that changes in the cache wakes its   *)
(* Flow; so does a dependency, if the Flow's reconcile reads it.           *)
LEMMA WokenDependsOnOwnCache ==
  ASSUME NEW f \in Flows, NEW n, NEW cd, NEW cf, NEW cg, cf[f] = cg[f]
  PROVE  f \in Woken(n, cf, cd) <=> f \in Woken(n, cg, cd)
<1>1. \A pc : f \in flowsReferencingPluginConfig(pc, cf, cd)
                <=> f \in flowsReferencingPluginConfig(pc, cg, cd)
  BY DEF flowsReferencingPluginConfig
<1>2. \A s : f \in secretToFlow(s, cf, cd) <=> f \in secretToFlow(s, cg, cd)
  BY <1>1, WokenBySecret
<1>3. CASE n \in PluginConfigs
  BY <1>1, <1>3, MapperOf
<1>4. CASE n \in Secrets
  BY <1>2, <1>4, MapperOf
<1>5. CASE n \notin PluginConfigs \cup Secrets
  BY <1>5, MapperOf
<1>6. QED
  BY <1>3, <1>4, <1>5

LEMMA InformFlowStep ==
  ASSUME TypeInv, EachFlow, NEW f \in Flows, InformFlow(f)
  PROVE  EachFlow'
<1>1. Awake(f)'
  BY DEF InformFlow, Awake
<1>2. ASSUME NEW g \in Flows, g # f PROVE Untouched(g)
  <2>1. cflows'[g] = cflows[g]
    BY <1>2 DEF InformFlow
  <2>2. Awake(g) => Awake(g)'
    BY <2>1, WokenDependsOnOwnCache DEF InformFlow, Awake
  <2>3. QED
    BY <2>1, <2>2 DEF InformFlow, store, Untouched, SentOK, RenderedFor
<1>3. ASSUME NEW g \in Flows PROVE InProgressOK(g)' /\ AtRestOK(g)'
  <2>1. CASE g = f
    BY <1>1, <2>1 DEF InProgressOK, AtRestOK
  <2>2. CASE g # f
    BY <1>2, <2>2, UntouchedInProgress, UntouchedAtRest DEF EachFlow, InformFlow, store, Reconciling
  <2>3. QED
    BY <2>1, <2>2
<1>4. QED
  BY <1>3 DEF EachFlow

LEMMA InformDeployStep ==
  ASSUME TypeInv, EachFlow, NEW f \in Flows, InformDeploy(f)
  PROVE  EachFlow'
<1>1. Awake(f)'
  BY DEF InformDeploy, Awake
<1>2. ASSUME NEW g \in Flows, g # f PROVE Untouched(g)
  <2>1. cdeploy'[g] = cdeploy[g]
    BY <1>2 DEF InformDeploy
  <2>2. QED
    BY <2>1 DEF InformDeploy, store, Untouched, SentOK, RenderedFor, Awake
<1>3. ASSUME NEW g \in Flows PROVE InProgressOK(g)' /\ AtRestOK(g)'
  <2>1. CASE g = f
    BY <1>1, <2>1 DEF InProgressOK, AtRestOK
  <2>2. CASE g # f
    BY <1>2, <2>2, UntouchedInProgress, UntouchedAtRest DEF EachFlow, InformDeploy, store, Reconciling
  <2>3. QED
    BY <2>1, <2>2
<1>4. QED
  BY <1>3 DEF EachFlow

(* What a Flow's reconcile does not read does not matter to it.            *)
LEMMA UnreadDoesNotMatter ==
  ASSUME TypeInv, NEW f \in Flows, NEW o \in Deps, InformDep(o), ~Awake(f)', cflows[f] # Absent
  PROVE  LET spec == cflows[f].spec
         IN  /\ ~Awake(f)
             /\ Gets(spec, cdeps') = Gets(spec, cdeps)
             /\ \A g \in Gets(spec, cdeps) : g[2] # o
             /\ Outcome(spec, cdeps') = Outcome(spec, cdeps)
             /\ Outcome(spec, cdeps).reason = "Rendered" =>
                  /\ ContentHash(spec, cdeps') = ContentHash(spec, cdeps)
                  /\ \A k \in Kinds : Child(k, spec, cdeps') = Child(k, spec, cdeps)
<1> DEFINE spec == cflows[f].spec
<1>1. spec \in FlowSpec /\ cdeps \in Stores /\ notes \subseteq Deps
  BY SpecsAreTyped DEF TypeInv, TypeOK
<1>2. cdeps' \in Stores
  BY ClusterStepsType DEF Inform, TypeInv, TypeOK
<1>3. cflows' = cflows /\ queue' = queue /\ notes' = notes \cup {o}
      /\ \A x \in Deps \ {o} : cdeps'[x] = cdeps[x]
  BY <1>1 DEF InformDep, Stores
<1>4. f \notin Woken(o, cflows, cdeps')
  BY <1>3 DEF Awake
<1>5. ~Awake(f)
  <2>1. SUFFICES ASSUME Awake(f) PROVE FALSE
    OBVIOUS
  <2>2. PICK n \in notes : f \in Woken(n, cflows, cdeps)
    BY <1>3, <2>1 DEF Awake
  <2>3. f \in Woken(n, cflows, cdeps')
    BY <1>1, <1>3, <1>4, <2>2, WokenStaysWoken
  <2>4. QED
    BY <1>3, <2>3 DEF Awake
<1>6. \A g \in Gets(spec, cdeps) : g[2] # o
  BY <1>1, <1>3, <1>4, ReadersAreWoken
<1>7. \A g \in Gets(spec, cdeps) : cdeps[g[2]] = cdeps'[g[2]]
  BY <1>1, <1>3, <1>6, GetsType, StoresAreReadings
<1>8. QED
  BY <1>1, <1>2, <1>5, <1>6, <1>7, SameReads, StoresAreReadings

(* What a reconcile in progress relies on is what the caches hold.         *)
LEMMA RenderingIsOfTheCaches ==
  ASSUME TypeInv, NEW f \in Flows, rec # None, rec.pc \in {"apply", "observe"},
         rec.orig = cflows[f], PartOf(rec.got, cdeps)
  PROVE  /\ cflows[f] # Absent /\ cflows[f].spec \in FlowSpec
         /\ Outcome(cflows[f].spec, cdeps).reason = "Rendered"
         /\ ContentHash(rec.orig.spec, rec.got) = ContentHash(cflows[f].spec, cdeps)
         /\ \A k \in Kinds : Child(k, rec.orig.spec, rec.got) = Child(k, cflows[f].spec, cdeps)
<1> DEFINE spec == rec.orig.spec
<1>1. rec \in Reconciles /\ rec.orig \in FlowObj /\ rec.got \in Readings /\ cdeps \in Stores
  BY DEF TypeInv, TypeOK, Reconciles
<1>2. spec \in FlowSpec
  BY <1>1, SpecsAreTyped
<1>3. Outcome(spec, rec.got).reason = "Rendered" /\ ToRead(spec, rec.got) = {}
  BY DEF TypeInv, RenderableOK
<1>4. \A g \in Gets(spec, rec.got) : rec.got[g[2]] = cdeps[g[2]]
  BY <1>1, <1>2, <1>3, GetsType DEF ToRead, PartOf
<1>5. QED
  BY <1>1, <1>2, <1>3, <1>4, SameReads, StoresAreReadings, RecordsAssumption

LEMMA InformDepStep ==
  ASSUME TypeInv, ReadingOK, EachFlow, NEW o \in Deps, InformDep(o)
  PROVE  EachFlow'
<1>1. /\ cflows' = cflows /\ cdeploy' = cdeploy /\ kids' = kids /\ flows' = flows
      /\ rec' = rec
      /\ \A x \in Deps \ {o} : cdeps'[x] = cdeps[x]
  BY DEF InformDep, store, TypeInv, TypeOK, Stores
<1>2. ASSUME NEW f \in Flows PROVE InProgressOK(f)'
  <2> SUFFICES ASSUME rec # None, rec.flow = f, ~Awake(f)'
               PROVE  (/\ rec.orig = cflows[f]
                       /\ \A x \in Deps : rec.got[x] \in {Unread, cdeps[x]}
                       /\ rec.pc = "apply" => \A i \in DOMAIN ApplyOrder :
                                                i < rec.next => SentOK(f, ApplyOrder[i])
                       /\ rec.pc = "observe" => AllSentOK(f)
                       /\ rec.pc = "patch" => EndsWith(f, rec.upd))'
    BY <1>1 DEF InProgressOK, Reconciling
  <2> DEFINE spec == cflows[f].spec
  <2>1. rec \in Reconciles /\ rec.orig \in FlowObj /\ rec.got \in Readings /\ cdeps \in Stores
    BY DEF TypeInv, TypeOK, Reconciles
  <2>2. Awake(f) \/ rec.orig = cflows[f]
    BY DEF EachFlow, InProgressOK, Reconciling
  <2>3. ~Awake(f)
    <3>1. ASSUME Awake(f) PROVE cflows[f] # Absent
      <4>1. f \in queue \/ \E n \in notes : f \in Woken(n, cflows, cdeps)
        BY <3>1 DEF Awake
      <4>2. f \notin queue
        BY DEF Awake, InformDep
      <4>3. QED
        BY <4>1, <4>2, WokenIsCached
    <3>2. QED
      BY <3>1, UnreadDoesNotMatter
  <2>4. rec.orig = cflows[f] /\ cflows[f] # Absent /\ spec \in FlowSpec
    BY <2>1, <2>2, <2>3, SpecsAreTyped, RecordsAssumption
  <2>5. PartOf(rec.got, cdeps)
    BY <2>3 DEF EachFlow, InProgressOK, Reconciling, PartOf
  <2>6. rec.got[o] = Unread
    <3>1. \A g \in Gets(spec, rec.got) : g[2] # o
      BY <2>1, <2>4, <2>5, GetsGrow, StoresAreReadings, UnreadDoesNotMatter
    <3>2. QED
      BY <2>4, <3>1 DEF ReadingOK
  <2>7. \A x \in Deps : rec.got[x] \in {Unread, cdeps'[x]}
    BY <1>1, <2>5, <2>6 DEF PartOf
  <2>8. Outcome(spec, cdeps).reason = "Rendered" => \A k \in Kinds : SentOK(f, k) => SentOK(f, k)'
    BY <1>1, <2>4, UnreadDoesNotMatter DEF SentOK, RenderedFor
  <2>9. rec.pc \in {"apply", "observe"} => Outcome(spec, cdeps).reason = "Rendered"
    BY <2>4, <2>5, RenderingIsOfTheCaches
  <2>10. \A i \in DOMAIN ApplyOrder : ApplyOrder[i] \in Kinds
    BY DEF ApplyOrder, Kinds
  <2>11. (rec.pc = "apply" => \A i \in DOMAIN ApplyOrder :
                                i < rec.next => SentOK(f, ApplyOrder[i]))'
    BY <1>1, <2>3, <2>8, <2>9, <2>10 DEF EachFlow, InProgressOK, Reconciling
  <2>12. (rec.pc = "observe" => AllSentOK(f))'
    BY <1>1, <2>3, <2>8, <2>9 DEF EachFlow, InProgressOK, Reconciling, AllSentOK
  <2>13. (rec.pc = "patch" => EndsWith(f, rec.upd))'
    <3>1. rec.pc = "patch" => EndsWith(f, rec.upd)
      BY <2>3 DEF EachFlow, InProgressOK, Reconciling
    <3>2. QED
      BY <1>1, <2>4, <2>8, <3>1, UnreadDoesNotMatter DEF EndsWith, AllSentOK, FinalStatus
  <2>14. QED
    BY <1>1, <2>4, <2>7, <2>11, <2>12, <2>13
<1>3. ASSUME NEW f \in Flows PROVE AtRestOK(f)'
  <2> SUFFICES ASSUME ~Reconciling(f), ~Awake(f)', flows[f] # Absent, cflows[f] = flows[f]
               PROVE  EndsWith(f, flows[f].status)'
    BY <1>1 DEF AtRestOK, Reconciling
  <2>1. EndsWith(f, flows[f].status)
    BY UnreadDoesNotMatter DEF EachFlow, AtRestOK
  <2>2. QED
    BY <1>1, <2>1, UnreadDoesNotMatter DEF EndsWith, AllSentOK, FinalStatus, SentOK, RenderedFor
<1>4. QED
  BY <1>2, <1>3 DEF EachFlow

LEMMA HandleStep ==
  ASSUME TypeInv, EachFlow, NEW n \in notes, Handle(n)
  PROVE  EachFlow'
<1>1. ASSUME NEW f \in Flows PROVE Untouched(f)
  BY DEF Handle, Untouched, store, caches, Awake, SentOK, RenderedFor
<1>2. ASSUME NEW f \in Flows PROVE InProgressOK(f)' /\ AtRestOK(f)'
  BY <1>1, UntouchedInProgress, UntouchedAtRest DEF EachFlow, Handle, store, Reconciling
<1>3. QED
  BY <1>2 DEF EachFlow

LEMMA CrashStep ==
  ASSUME Crash
  PROVE  EachFlow'
<1>1. ASSUME NEW f \in Flows PROVE InProgressOK(f)'
  BY DEF Crash, InProgressOK, Reconciling
<1>2. ASSUME NEW f \in Flows PROVE AtRestOK(f)'
  BY DEF Crash, store, AtRestOK, Awake, Existing
<1>3. QED
  BY <1>1, <1>2 DEF EachFlow

(* The worker.  A step of its reconcile concerns one Flow only.            *)
LEMMA WorkerLeavesOthersAlone ==
  ASSUME TypeInv, EachFlow, NEW f \in Flows,
         rec # None => rec.flow = f, rec' # None => rec'.flow = f,
         UNCHANGED <<caches, notes>>, queue \ {f} \subseteq queue',
         \A g \in Flows \ {f} : flows'[g] = flows[g] /\ kids'[g] = kids[g]
  PROVE  \A g \in Flows \ {f} : InProgressOK(g)' /\ AtRestOK(g)'
<1> SUFFICES ASSUME NEW g \in Flows \ {f} PROVE InProgressOK(g)' /\ AtRestOK(g)'
  OBVIOUS
<1>1. Untouched(g)
  BY DEF Untouched, SentOK, RenderedFor, caches, Awake
<1>2. InProgressOK(g)'
  BY DEF InProgressOK, Reconciling
<1>3. AtRestOK(g)'
  BY <1>1, UntouchedAtRest DEF EachFlow, Reconciling
<1>4. QED
  BY <1>2, <1>3

(* A reconcile that stops early ends with what a reconcile on the caches   *)
(* would write.                                                            *)
LEMMA RefusalEnds ==
  ASSUME NEW r \in Reconciles, NEW d \in Stores, PartOf(r.got, d), r.upd = r.orig.status,
         NEW q, q = RefusedStatus(r.upd, r.orig.gen, Outcome(r.orig.spec, r.got).reason,
                                  Outcome(r.orig.spec, r.got).about),
         Outcome(r.orig.spec, r.got).reason # "Rendered",
         \/ r.orig.spec.image = NoImage
         \/ \A h \in ToRead(r.orig.spec, r.got) : \E m \in Missing(r.orig.spec, r.got) : m[1] < h[1]
  PROVE  /\ Outcome(r.orig.spec, d).reason # "Rendered"
         /\ \A dep : q = FinalStatus(r.orig.status, r.orig, d, dep)
<1>1. r.orig.spec \in FlowSpec /\ r.got \in Readings
  BY SpecsAreTyped DEF Reconciles
<1>2. Outcome(r.orig.spec, d) = Outcome(r.orig.spec, r.got)
  BY <1>1, SameConclusion
<1>3. QED
  BY <1>2 DEF FinalStatus

LEMMA StartStep ==
  ASSUME TypeInv, EachFlow, NEW f \in queue, Start(f)
  PROVE  EachFlow'
<1> DEFINE r == [flow |-> f, orig |-> cflows[f], got |-> [o \in Deps |-> Unread],
                 pc |-> "resolve", next |-> 1, upd |-> cflows[f].status]
<1>1. f \in Flows /\ cdeps \in Stores /\ cflows \in [Flows -> FlowObj \cup {Absent}]
  BY DEF TypeInv, TypeOK
<1>2. rec = None /\ queue' = queue \ {f} /\ UNCHANGED <<flows, kids, caches, notes>>
  BY DEF Start, store
<1>3. rec' = IF cflows[f] = Absent THEN None ELSE Resolved(r)
  BY DEF Start
<1>4. /\ r.flow = f /\ r.orig = cflows[f] /\ r.upd = r.orig.status
      /\ \A o \in Deps : r.got[o] = Unread
  OBVIOUS
<1>5. cflows[f] # Absent => r \in Reconciles /\ r.pc = "resolve"
  BY <1>1 DEF Reconciles, FlowObj, Readings, ApplyOrder
<1> HIDE DEF r
<1>6. cflows[f] # Absent =>
        /\ rec'.flow = f /\ rec'.orig = r.orig /\ rec'.got = r.got
        /\ rec' # None
  <2>1. ASSUME cflows[f] # Absent PROVE Resolved(r) \in Reconciles
    BY <1>5, <2>1, ResolvedType
  <2>2. QED
    BY <1>3, <1>4, <1>5, <2>1, ResolvedCases, RecordsAssumption
<1>7. InProgressOK(f)'
  <2> SUFFICES ASSUME cflows[f] # Absent
               PROVE  (/\ rec.orig = cflows[f]
                       /\ \A o \in Deps : rec.got[o] \in {Unread, cdeps[o]}
                       /\ rec.pc = "apply" => \A i \in DOMAIN ApplyOrder :
                                                i < rec.next => SentOK(f, ApplyOrder[i])
                       /\ rec.pc = "observe" => AllSentOK(f)
                       /\ rec.pc = "patch" => EndsWith(f, rec.upd))'
    BY <1>3 DEF InProgressOK, Reconciling
  <2>1. rec'.orig = cflows'[f] /\ \A o \in Deps : rec'.got[o] = Unread
    BY <1>2, <1>4, <1>6 DEF caches
  <2>2. rec'.next = 1 /\ rec'.pc # "observe"
    BY <1>3, <1>5, ResolvedCases, ResolvedType DEF r
  <2>3. rec'.pc = "patch" => EndsWith(f, rec.upd)'
    <3>1. PartOf(r.got, cdeps)
      BY <1>4 DEF PartOf
    <3>2. Missing(r.orig.spec, r.got) = {}
      <4>1. r.orig.spec \in FlowSpec /\ r.got \in Readings
        BY <1>5, SpecsAreTyped DEF Reconciles
      <4>2. QED
        BY <1>4, <4>1, GetsType, NamesAssumption DEF Missing
    <3>3. ASSUME rec'.pc = "patch"
          PROVE  /\ Outcome(r.orig.spec, cdeps).reason # "Rendered"
                 /\ rec'.upd = FinalStatus(r.orig.status, r.orig, cdeps, cdeploy[f])
      <4>1. /\ rec'.upd = RefusedStatus(r.upd, r.orig.gen, Outcome(r.orig.spec, r.got).reason,
                                        Outcome(r.orig.spec, r.got).about)
            /\ Outcome(r.orig.spec, r.got).reason # "Rendered"
            /\ r.orig.spec.image = NoImage \/ ToRead(r.orig.spec, r.got) = {}
        BY <1>3, <1>5, <3>2, <3>3, ResolvedCases
      <4>2. QED
        BY <1>1, <1>4, <1>5, <3>1, <4>1, RefusalEnds
    <3>4. QED
      BY <1>2, <1>4, <3>3 DEF EndsWith, caches
  <2>4. \A i \in DOMAIN ApplyOrder : ~(i < rec'.next)
    BY <2>2 DEF ApplyOrder
  <2>5. QED
    BY <2>1, <2>2, <2>3, <2>4
<1>8. AtRestOK(f)'
  BY <1>2, <1>6 DEF AtRestOK, Reconciling, caches
<1>9. QED
  <2>1. rec' # None => rec'.flow = f
    BY <1>3, <1>6
  <2>2. \A g \in Flows \ {f} : InProgressOK(g)' /\ AtRestOK(g)'
    BY <1>1, <1>2, <2>1, WorkerLeavesOthersAlone
  <2>3. QED
    BY <1>7, <1>8, <2>2 DEF EachFlow

LEMMA ReadDepStep ==
  ASSUME TypeInv, ReadingOK, EachFlow, ReadDep, NEW f \in Flows, rec.flow = f
  PROVE  EachFlow'
<1> DEFINE spec == rec.orig.spec
<1>1. rec \in Reconciles /\ rec.pc = "resolve" /\ rec # None
  BY DEF TypeInv, TypeOK, ReadDep, At
<1>2. spec \in FlowSpec /\ rec.got \in Readings /\ cdeps \in Stores
  BY <1>1, SpecsAreTyped DEF TypeInv, TypeOK, Reconciles, FlowObj
<1>3. UNCHANGED <<flows, kids, caches, notes, queue>>
  BY DEF ReadDep, store
<1>4. PICK x \in ToRead(spec, rec.got) :
        /\ \A h \in ToRead(spec, rec.got) : x[1] <= h[1]
        /\ x[1] \in Nat /\ x[2] \in Deps /\ rec.got[x[2]] = Unread
        /\ rec' = Resolved([rec EXCEPT !.got[x[2]] = cdeps[x[2]]])
  BY NextRead
<1> DEFINE r == [rec EXCEPT !.got[x[2]] = cdeps[x[2]]]
<1>5. /\ r.got \in Readings /\ r.got[x[2]] = cdeps[x[2]]
      /\ \A o \in Deps \ {x[2]} : r.got[o] = rec.got[o]
  BY <1>1, <1>2, <1>4 DEF Readings, Stores, Reconciles
<1>6. /\ r \in Reconciles /\ r.pc = "resolve" /\ r.next = 1
      /\ r.orig = rec.orig /\ r.flow = f /\ r.upd = r.orig.status
  BY <1>1, <1>5 DEF Reconciles, ReadingOK
<1>7. rec' = Resolved(r)
  BY <1>4
<1> HIDE DEF r
<1>8. /\ rec'.flow = f /\ rec'.orig = rec.orig /\ rec'.got = r.got /\ rec'.next = 1
      /\ rec' # None /\ rec'.pc # "observe"
  BY <1>6, <1>7, ResolvedCases, ResolvedType, RecordsAssumption
<1>9. ASSUME ~Awake(f)' PROVE rec.orig = cflows[f] /\ PartOf(r.got, cdeps)
  <2>1. ~Awake(f)
    BY <1>3, <1>9 DEF Awake, caches
  <2>2. rec.orig = cflows[f] /\ \A o \in Deps : rec.got[o] \in {Unread, cdeps[o]}
    BY <1>1, <1>2, <2>1 DEF EachFlow, InProgressOK, Reconciling
  <2>3. QED
    BY <1>5, <2>2 DEF PartOf
<1>10. ASSUME ~Awake(f)', rec'.pc = "patch" PROVE EndsWith(f, rec.upd)'
  <2>1. /\ rec'.upd = RefusedStatus(r.upd, r.orig.gen, Outcome(r.orig.spec, r.got).reason,
                                    Outcome(r.orig.spec, r.got).about)
        /\ Outcome(r.orig.spec, r.got).reason # "Rendered"
        /\ \/ spec.image = NoImage
           \/ Missing(spec, r.got) # {}
           \/ ToRead(spec, r.got) = {}
    BY <1>6, <1>7, <1>10, ResolvedCases
  <2>2. ASSUME Missing(spec, r.got) # {}, NEW h \in ToRead(spec, r.got)
        PROVE  \E m \in Missing(spec, r.got) : m[1] < h[1]
    <3>1. PartOf(rec.got, r.got)
      BY <1>4, <1>5 DEF PartOf
    <3>2. x \in Gets(spec, rec.got) /\ Gets(spec, rec.got) \subseteq Gets(spec, r.got)
      BY <1>2, <1>5, <3>1, GetsGrow DEF ToRead
    <3>3. cdeps[x[2]] = Absent
      <4>1. SUFFICES ASSUME cdeps[x[2]] # Absent PROVE FALSE
        OBVIOUS
      <4>2. PICK m \in Missing(spec, r.got) : TRUE
        BY <2>2
      <4>3. m[2] \in Deps /\ r.got[m[2]] = Absent
        BY <1>2, <1>5, GetsType DEF Missing
      <4>4. m[2] # x[2] /\ rec.got[m[2]] = Absent
        BY <1>5, <4>1, <4>3
      <4>5. PICK g \in Gets(spec, rec.got) : g[2] = m[2]
        BY <1>1, <4>3, <4>4, NamesAssumption DEF ReadingOK
      <4>6. Missing(spec, rec.got) = {}
        BY <1>1 DEF ReadingOK
      <4>7. QED
        BY <4>4, <4>5, <4>6 DEF Missing
    <3>4. x \in Missing(spec, r.got)
      BY <1>5, <3>2, <3>3 DEF Missing
    <3>5. x[1] < h[1]
      <4>1. h[1] \in Nat /\ h[2] \in Deps /\ r.got[h[2]] = Unread /\ h \in Gets(spec, r.got)
        BY <1>2, <1>5, GetsType DEF ToRead
      <4>2. CASE h \in Gets(spec, rec.got)
        <5>1. h[2] # x[2]
          BY <1>5, <3>3, <4>1, NamesAssumption
        <5>2. h \in ToRead(spec, rec.got)
          BY <1>5, <4>1, <4>2, <5>1 DEF ToRead
        <5>3. x[1] # h[1]
          BY <1>2, <3>2, <4>2, <5>1, OneReadEach
        <5>4. QED
          BY <1>4, <4>1, <5>2, <5>3
      <4>3. CASE h \notin Gets(spec, rec.got)
        <5>1. PICK g \in ToRead(spec, rec.got) : g[1] < h[1]
          BY <1>2, <1>5, <3>1, <4>1, <4>3, GetsGrowLater
        <5>2. g[1] \in Nat
          BY <1>2, GetsType DEF ToRead
        <5>3. QED
          BY <1>4, <4>1, <5>1, <5>2
      <4>4. QED
        BY <4>2, <4>3
    <3>6. QED
      BY <3>4, <3>5
  <2>3. /\ Outcome(r.orig.spec, cdeps).reason # "Rendered"
        /\ rec'.upd = FinalStatus(r.orig.status, r.orig, cdeps, cdeploy[f])
    BY <1>2, <1>6, <1>9, <1>10, <2>1, <2>2, RefusalEnds
  <2>4. QED
    BY <1>3, <1>6, <1>9, <1>10, <2>3 DEF EndsWith, caches
<1>11. InProgressOK(f)'
  <2>1. \A i \in DOMAIN ApplyOrder : ~(i < rec'.next)
    BY <1>8 DEF ApplyOrder
  <2>2. QED
    BY <1>3, <1>8, <1>9, <1>10, <2>1 DEF InProgressOK, Reconciling, PartOf, caches
<1>12. AtRestOK(f)'
  BY <1>8 DEF AtRestOK, Reconciling
<1>13. QED
  <2>1. \A g \in Flows \ {f} : InProgressOK(g)' /\ AtRestOK(g)'
    BY <1>2, <1>3, <1>8, WorkerLeavesOthersAlone
  <2>2. QED
    BY <1>11, <1>12, <2>1 DEF EachFlow

(* The children.                                                           *)
LEMMA ApplyKeeps ==
  ASSUME TypeInv, NEW f \in Flows, rec # None, rec.flow = f, rec.pc = "apply",
         NEW k \in Kinds, k = ApplyOrder[rec.next], Applied(f, k, RenderedKid),
         UNCHANGED <<caches, notes>>
  PROVE  /\ queue \subseteq queue'
         /\ kids'[f][k] = RenderedKid
         /\ \A g \in Flows \ {f} : kids'[g] = kids[g]
         /\ \A j \in Kinds \ {k} : SentOK(f, j) => SentOK(f, j)'
         /\ Awake(f) => Awake(f)'
<1>1. queue \subseteq queue'
  BY DEF Applied, ChildEvent
<1>2. kids \in [Flows -> Children] /\ kids' = [kids EXCEPT ![f][k] = RenderedKid]
  BY DEF TypeInv, TypeOK, Applied
<1>3. \A h \in Flows, j \in Kinds :
        kids'[h][j] = IF h = f /\ j = k THEN RenderedKid ELSE kids[h][j]
  <2>1. ASSUME NEW v, kids' = [kids EXCEPT ![f][k] = v]
        PROVE  \A h \in Flows, j \in Kinds :
                 kids'[h][j] = IF h = f /\ j = k THEN v ELSE kids[h][j]
    <3>1. \A h \in Flows, j \in Kinds :
            [kids EXCEPT ![f][k] = v][h][j] = IF h = f /\ j = k THEN v ELSE kids[h][j]
      BY ONLY <1>2, ChildrenElsewhere, f \in Flows, k \in Kinds
    <3>2. QED
      BY <2>1, <3>1, Zenon
  <2>2. PICK v : v = RenderedKid
    OBVIOUS
  <2>3. QED
    BY <1>2, <2>1, <2>2
<1>4. \A g \in Flows \ {f} : kids'[g] = kids[g]
  BY <1>2
<1>5. \A j \in Kinds \ {k} : SentOK(f, j) => SentOK(f, j)'
  BY <1>3 DEF SentOK, RenderedFor, caches
<1>6. Awake(f) => Awake(f)'
  BY <1>1 DEF Awake, caches
<1>7. QED
  BY <1>1, <1>3, <1>4, <1>5, <1>6

LEMMA ApplyChildStep ==
  ASSUME TypeInv, EachFlow, ApplyChild, NEW f \in Flows, rec.flow = f
  PROVE  EachFlow'
<1>1. rec \in Reconciles /\ rec # None /\ rec.pc = "apply"
  BY DEF TypeInv, TypeOK, ApplyChild, At
<1>2. rec.next \in 1..5 /\ Len(ApplyOrder) = 5 /\ DOMAIN ApplyOrder = 1..5
  BY <1>1 DEF Reconciles, ApplyOrder
<1>3. /\ \A i \in 1..5 : ApplyOrder[i] \in Kinds
      /\ \A j \in Kinds : \E i \in 1..5 : j = ApplyOrder[i]
  <2>1. /\ ApplyOrder[1] = "prompts" /\ ApplyOrder[2] = "tools" /\ ApplyOrder[3] = "config"
        /\ ApplyOrder[4] = "service" /\ ApplyOrder[5] = "deploy"
    BY DEF ApplyOrder
  <2>2. QED
    BY <2>1 DEF Kinds
<1>4. PICK k \in Kinds : k = ApplyOrder[rec.next]
  BY <1>2, <1>3
<1>5. UNCHANGED <<flows, caches, notes>> /\ Applied(f, k, RenderedKid)
  BY <1>4 DEF ApplyChild
<1>6. /\ queue \subseteq queue' /\ kids'[f][k] = RenderedKid
      /\ \A g \in Flows \ {f} : kids'[g] = kids[g]
      /\ \A j \in Kinds \ {k} : SentOK(f, j) => SentOK(f, j)'
      /\ Awake(f) => Awake(f)'
  BY <1>1, <1>4, <1>5, ApplyKeeps
<1>7. /\ rec' # None /\ rec'.flow = f /\ rec'.orig = rec.orig /\ rec'.got = rec.got
      /\ rec.next = 5 => rec'.pc = "observe"
      /\ rec.next # 5 => rec'.pc = "apply" /\ rec'.next = rec.next + 1
  <2>1. rec' \in Reconciles
    BY <1>1, <1>2 DEF ApplyChild, Reconciles
  <2>2. QED
    BY <1>1, <1>2, <2>1, RecordsAssumption DEF ApplyChild, Reconciles
<1>8. InProgressOK(f)'
  <2> SUFFICES ASSUME ~Awake(f)'
               PROVE  (/\ rec.orig = cflows[f]
                       /\ \A o \in Deps : rec.got[o] \in {Unread, cdeps[o]}
                       /\ rec.pc = "apply" => \A i \in DOMAIN ApplyOrder :
                                                i < rec.next => SentOK(f, ApplyOrder[i])
                       /\ rec.pc = "observe" => AllSentOK(f)
                       /\ rec.pc = "patch" => EndsWith(f, rec.upd))'
    BY DEF InProgressOK
  <2>1. /\ rec.orig = cflows[f]
        /\ \A o \in Deps : rec.got[o] \in {Unread, cdeps[o]}
        /\ \A i \in DOMAIN ApplyOrder : i < rec.next => SentOK(f, ApplyOrder[i])
    BY <1>1, <1>6 DEF EachFlow, InProgressOK, Reconciling
  <2>2. RenderedKid = RenderedFor(f, k)
    <3>1. Child(k, rec.orig.spec, rec.got) = Child(k, cflows[f].spec, cdeps)
      BY <1>1, <2>1, RenderingIsOfTheCaches DEF PartOf
    <3>2. QED
      BY <1>4, <2>1, <3>1 DEF RenderedKid, RenderedFor
  <2>3. SentOK(f, k)'
    BY <1>5, <1>6, <2>2 DEF SentOK, RenderedFor, caches
  <2>4. \A i \in 1..5 : i <= rec.next => SentOK(f, ApplyOrder[i])'
    <3>1. SUFFICES ASSUME NEW i \in 1..5, i <= rec.next PROVE SentOK(f, ApplyOrder[i])'
      OBVIOUS
    <3>2. CASE i = rec.next
      BY <1>4, <2>3, <3>2
    <3>3. CASE i # rec.next
      <4>1. i < rec.next
        BY <1>2, <3>1, <3>3
      <4>2. CASE ApplyOrder[i] = k
        BY <2>3, <4>2
      <4>3. CASE ApplyOrder[i] # k
        BY <1>2, <1>3, <1>6, <2>1, <4>1, <4>3
      <4>4. QED
        BY <4>2, <4>3
    <3>4. QED
      BY <3>2, <3>3
  <2>5. rec'.pc = "apply" => \A i \in DOMAIN ApplyOrder : i < rec'.next => SentOK(f, ApplyOrder[i])'
    BY <1>2, <1>7, <2>4
  <2>6. rec'.pc = "observe" => AllSentOK(f)'
    <3>1. rec.next = 5 => \A i \in 1..5 : SentOK(f, ApplyOrder[i])'
      BY <2>4
    <3>2. rec.next = 5 => AllSentOK(f)'
      BY <1>3, <3>1 DEF AllSentOK
    <3>3. QED
      BY <1>7, <3>2
  <2>7. rec'.pc # "patch"
    BY <1>7
  <2>8. QED
    BY <1>5, <1>7, <2>1, <2>5, <2>6, <2>7 DEF caches
<1>9. AtRestOK(f)'
  BY <1>7 DEF AtRestOK, Reconciling
<1>10. QED
  <2>1. \A g \in Flows \ {f} : InProgressOK(g)' /\ AtRestOK(g)'
    BY <1>5, <1>6, <1>7, WorkerLeavesOthersAlone
  <2>2. QED
    BY <1>8, <1>9, <2>1 DEF EachFlow

LEMMA ApplyFailsStep ==
  ASSUME TypeInv, EachFlow, ApplyFails, NEW f \in Flows, rec.flow = f
  PROVE  EachFlow'
<1>1. rec \in Reconciles /\ rec # None /\ rec.pc = "apply"
  BY DEF TypeInv, TypeOK, ApplyFails, At
<1>2. PICK k \in Kinds : k = ApplyOrder[rec.next]
  <2>1. rec.next \in 1..5
    BY <1>1 DEF Reconciles, ApplyOrder
  <2>2. QED
    BY <2>1 DEF ApplyOrder, Kinds
<1>3. UNCHANGED <<flows, caches, notes>>
  BY DEF ApplyFails
<1>4. /\ queue \subseteq queue'
      /\ \A g \in Flows \ {f} : kids'[g] = kids[g]
      /\ Awake(f) => Awake(f)'
  <2>1. CASE Applied(f, k, RenderedKid)
    BY <1>1, <1>2, <1>3, <2>1, ApplyKeeps
  <2>2. CASE UNCHANGED <<kids, report, queue>>
    BY <1>3, <2>2 DEF Awake, caches
  <2>3. QED
    BY <1>2, <2>1, <2>2 DEF ApplyFails
<1>5. /\ rec' # None /\ rec'.flow = f /\ rec'.orig = rec.orig /\ rec'.got = rec.got
      /\ rec'.pc = "patch" /\ rec'.upd = RefusedStatus(rec.upd, rec.orig.gen, "Error", k)
  <2>1. rec' = [rec EXCEPT !.pc = "patch", !.upd = RefusedStatus(rec.upd, rec.orig.gen, "Error", k)]
    BY <1>2 DEF ApplyFails
  <2>2. rec' \in Reconciles
    BY <1>1, RefusedStatusType, <1>2, <2>1 DEF Reconciles, FlowObj
  <2>3. QED
    BY <1>1, <2>1, <2>2, RecordsAssumption DEF Reconciles
<1>6. FailedApply(rec.upd)'
  <2>1. rec.upd \in Status /\ rec.orig.gen \in Nat
    BY <1>1 DEF Reconciles, FlowObj
  <2>2. rec'.upd.cond = NotReady("Error", k, rec.orig.gen)
    BY <1>5, <2>1 DEF RefusedStatus, Status
  <2>3. NotReady("Error", k, rec.orig.gen) \in Conditions
    BY <1>2, <2>1 DEF NotReady, Conditions, Phases
  <2>4. rec'.upd.cond # None
    BY <2>2, <2>3, RecordsAssumption
  <2>5. rec'.upd.cond.reason = "Error" /\ rec'.upd.cond.about = k
    BY <2>2 DEF NotReady
  <2>6. QED
    BY <2>4, <2>5 DEF FailedApply
<1>7. InProgressOK(f)'
  <2> SUFFICES ASSUME ~Awake(f)'
               PROVE  (/\ rec.orig = cflows[f]
                       /\ \A o \in Deps : rec.got[o] \in {Unread, cdeps[o]})'
    BY <1>5, <1>6 DEF InProgressOK, EndsWith
  <2>1. QED
    BY <1>1, <1>3, <1>4, <1>5 DEF EachFlow, InProgressOK, Reconciling, caches
<1>8. AtRestOK(f)'
  BY <1>5 DEF AtRestOK, Reconciling
<1>9. QED
  <2>1. \A g \in Flows \ {f} : InProgressOK(g)' /\ AtRestOK(g)'
    BY <1>3, <1>4, <1>5, WorkerLeavesOthersAlone
  <2>2. QED
    BY <1>7, <1>8, <2>1 DEF EachFlow

(* The end of a reconcile: the Deployment looked up, the status patched.   *)
LEMMA ObserveDeployStep ==
  ASSUME TypeInv, ReadingOK, EachFlow, ObserveDeploy, NEW f \in Flows, rec.flow = f
  PROVE  EachFlow'
<1>1. rec \in Reconciles /\ rec # None /\ rec.pc = "observe" /\ rec.upd = rec.orig.status
  BY DEF TypeInv, TypeOK, ObserveDeploy, At, ReadingOK
<1>2. UNCHANGED <<flows, kids, caches, notes, queue>>
  BY DEF ObserveDeploy, store
<1>3. PICK st : st = ObservedStatus(rec.upd, rec.orig.gen, rec.orig.spec,
                                    ContentHash(rec.orig.spec, rec.got), cdeploy[f])
  OBVIOUS
<1>4. /\ rec'.flow = f /\ rec'.orig = rec.orig /\ rec'.got = rec.got
      /\ rec'.pc = "patch" /\ rec'.upd = st
  BY <1>1, <1>3 DEF ObserveDeploy, Reconciles
<1>5. InProgressOK(f)'
  <2> SUFFICES ASSUME ~Awake(f)'
               PROVE  (/\ rec.orig = cflows[f]
                       /\ \A o \in Deps : rec.got[o] \in {Unread, cdeps[o]}
                       /\ EndsWith(f, rec.upd))'
    BY <1>4 DEF InProgressOK
  <2>1. ~Awake(f)
    BY <1>2 DEF Awake, caches
  <2>2. /\ rec.orig = cflows[f] /\ AllSentOK(f)
        /\ \A o \in Deps : rec.got[o] \in {Unread, cdeps[o]}
    BY <1>1, <2>1 DEF EachFlow, InProgressOK, Reconciling
  <2>3. /\ Outcome(cflows[f].spec, cdeps).reason = "Rendered"
        /\ ContentHash(rec.orig.spec, rec.got) = ContentHash(cflows[f].spec, cdeps)
    BY <1>1, <2>2, RenderingIsOfTheCaches DEF PartOf
  <2>4. st = FinalStatus(cflows[f].status, cflows[f], cdeps, cdeploy[f])
    BY <1>1, <1>3, <2>2, <2>3 DEF FinalStatus
  <2>5. AllSentOK(f)'
    BY <1>2, <2>2 DEF AllSentOK, SentOK, RenderedFor, caches
  <2>6. EndsWith(f, rec.upd)'
    BY <1>2, <1>4, <2>4, <2>5 DEF EndsWith, caches
  <2>7. QED
    BY <1>2, <1>4, <2>2, <2>6 DEF caches
<1>6. rec' # None
  <2>1. rec' \in Reconciles \cup {None} /\ rec' = [rec EXCEPT !.pc = "patch", !.upd = st]
    <3>1. rec' \in Reconciles \cup {None}
      BY ControllerStepsType DEF Worker, TypeInv, TypeOK
    <3>2. QED
      BY <1>3, <3>1 DEF ObserveDeploy
  <2>2. st \in Status => rec' \in Reconciles
    BY <1>1, <2>1 DEF Reconciles
  <2>3. st \in Status
    <3>1. /\ rec.upd \in Status /\ rec.orig.gen \in Nat /\ rec.orig.spec \in FlowSpec
          /\ rec.got \in Readings
      BY <1>1, SpecsAreTyped DEF Reconciles, FlowObj
    <3>2. ContentHash(rec.orig.spec, rec.got) \in Hashes
      BY <1>1, <3>1, RenderingType DEF TypeInv, RenderableOK
    <3>3. cdeploy[f] # Absent => cdeploy[f].status \in [observed : BOOLEAN, avail : Nat, unavail : Nat]
      BY DEF TypeInv, TypeOK, Reports
    <3>4. QED
      BY <1>3, <3>1, <3>2, <3>3, ObservedStatusType
  <2>4. QED
    BY <2>2, <2>3, RecordsAssumption
<1>7. AtRestOK(f)'
  BY <1>4, <1>6 DEF AtRestOK, Reconciling
<1>8. QED
  <2>1. \A g \in Flows \ {f} : InProgressOK(g)' /\ AtRestOK(g)'
    BY <1>2, <1>4, WorkerLeavesOthersAlone
  <2>2. QED
    BY <1>5, <1>7, <2>1 DEF EachFlow

LEMMA PatchStatusStep ==
  ASSUME TypeInv, EachFlow, PatchStatus \/ PatchStatusFails, NEW f \in Flows, rec.flow = f
  PROVE  EachFlow'
<1>1. rec \in Reconciles /\ rec # None /\ rec.pc = "patch" /\ rec' = None
  BY DEF TypeInv, TypeOK, PatchStatus, PatchStatusFails, At
<1>2. UNCHANGED <<kids, caches, notes>> /\ queue \subseteq queue'
  BY DEF PatchStatus, PatchStatusFails
<1>3. flows \in [Flows -> FlowObj \cup {Absent}]
  BY DEF TypeInv, TypeOK
<1>4. \A g \in Flows \ {f} : flows'[g] = flows[g]
  BY <1>3 DEF PatchStatus, PatchStatusFails, Patched
<1>5. AtRestOK(f)'
  <2> SUFFICES ASSUME ~Awake(f)', flows'[f] # Absent, cflows'[f] = flows'[f]
               PROVE  EndsWith(f, flows[f].status)'
    BY DEF AtRestOK
  <2>1. PatchStatus
    BY DEF PatchStatusFails, Awake
  <2>2. ~Awake(f) /\ cflows'[f] = cflows[f]
    BY <1>2 DEF Awake, caches
  <2>3. rec.orig = cflows[f] /\ EndsWith(f, rec.upd)
    BY <1>1, <2>2 DEF EachFlow, InProgressOK, Reconciling
  <2>4. /\ flows[f] \in FlowObj
        /\ flows'[f] = [flows[f] EXCEPT !.status = MergedStatus(flows[f].status,
                                                      rec.orig.status, rec.upd)]
    BY <1>3, <2>1 DEF PatchStatus, Patched
  <2>5. flows'[f].status = MergedStatus(flows[f].status, rec.orig.status, rec.upd)
    BY <2>4 DEF FlowObj
  <2>6. flows'[f].status = rec.upd
    <3>1. flows'[f].status = rec.orig.status
      BY <2>2, <2>3
    <3>2. /\ flows[f].status \in Status /\ rec.orig.status \in Status /\ rec.upd \in Status
      BY <1>1, <2>4 DEF Reconciles, FlowObj
    <3>3. rec.upd = rec.orig.status
      BY <2>5, <3>1, <3>2 DEF MergedStatus, Status
    <3>4. QED
      BY <3>1, <3>3
  <2>7. QED
    BY <1>2, <2>3, <2>6 DEF EndsWith, AllSentOK, SentOK, RenderedFor, caches
<1>6. InProgressOK(f)'
  BY <1>1 DEF InProgressOK, Reconciling
<1>7. QED
  <2>1. \A g \in Flows \ {f} : InProgressOK(g)' /\ AtRestOK(g)'
    BY <1>1, <1>2, <1>4, WorkerLeavesOthersAlone
  <2>2. QED
    BY <1>5, <1>6, <2>1 DEF EachFlow

LEMMA EachFlowStep == TypeInv /\ Tracking /\ [Next]_vars => EachFlow'
<1> SUFFICES ASSUME TypeInv, Tracking, [Next]_vars PROVE EachFlow'
  OBVIOUS
<1> VersionsOK /\ ReadingOK /\ EachFlow
  BY DEF Tracking, EachFlow
<1>1. ASSUME rec # None, ReadDep \/ ApplyChild \/ ObserveDeploy \/ PatchStatus
                           \/ PatchStatusFails \/ ApplyFails
      PROVE  EachFlow'
  <2>1. PICK f \in Flows : rec.flow = f
    BY <1>1 DEF TypeInv, TypeOK, Reconciles
  <2>2. QED
    BY <1>1, <2>1, ReadDepStep, ApplyChildStep, ObserveDeployStep, PatchStatusStep, ApplyFailsStep
<1>2. ASSUME ReadDep \/ ApplyChild \/ ObserveDeploy \/ PatchStatus
               \/ PatchStatusFails \/ ApplyFails
      PROVE  rec # None
  BY <1>2 DEF ReadDep, ApplyChild, ObserveDeploy, PatchStatus, PatchStatusFails, ApplyFails, At
<1>3. CASE UNCHANGED vars
  <2>1. ASSUME NEW f \in Flows PROVE Untouched(f)
    BY <1>3 DEF Untouched, vars, Awake, SentOK, RenderedFor
  <2>2. ASSUME NEW f \in Flows PROVE InProgressOK(f)' /\ AtRestOK(f)'
    BY <1>3, <2>1, UntouchedInProgress, UntouchedAtRest DEF EachFlow, vars, Reconciling
  <2>3. QED
    BY <2>2 DEF EachFlow
<1>4. CASE Edit \/ ReportAny \/ Cluster \/ Resync
  BY <1>4, OutsideSteps
<1>5. CASE Inform
  BY <1>5, InformFlowStep, InformDeployStep, InformDepStep DEF Inform
<1>6. CASE HandleAny \/ Crash
  BY <1>6, HandleStep, CrashStep DEF HandleAny
<1>7. CASE Worker \/ ApplyFails
  BY <1>1, <1>2, <1>7, StartStep DEF Worker
<1>8. QED
  BY <1>3, <1>4, <1>5, <1>6, <1>7 DEF Next

(* The invariant: what a reconcile in progress has read and sent, and what *)
(* the last one left, are good until something wakes the Flow again.       *)
THEOREM TrackingHolds == Spec => []Tracking
<1>1. Init => TrackInv
  BY InitTypeInv, InitTracking DEF TrackInv
<1>2. TrackInv /\ [Next]_vars => TrackInv'
  <2>1. TypeInv /\ UNCHANGED vars => TypeInv'
    BY DEF TypeInv, TypeOK, RenderableOK, vars
  <2>2. TypeInv /\ [Next]_vars => TypeInv'
    BY <2>1, UserStepsType, ClusterStepsType, ControllerStepsType DEF Next
  <2>3. TrackInv /\ [Next]_vars => Tracking'
    BY VersionsStep, ReadingStep, EachFlowStep DEF TrackInv, Tracking, EachFlow
  <2>4. QED
    BY <2>2, <2>3 DEF TrackInv
<1>3. TrackInv => Tracking
  BY DEF TrackInv
<1>4. QED
  BY <1>1, <1>2, <1>3, PTL DEF Spec

-----------------------------------------------------------------------------
(* What follows.                                                           *)

LEMMA SettledFlow ==
  ASSUME Tracking, NEW f \in Flows, ~Pending(f), flows[f] # Absent, cflows[f] = flows[f],
         ~ApplyFailed(f)
  PROVE  /\ FinalStatus(flows[f].status, flows[f], cdeps, cdeploy[f]) = flows[f].status
         /\ Outcome(flows[f].spec, cdeps).reason = "Rendered" => AllSentOK(f)
<1>1. ~Reconciling(f) /\ ~Awake(f)
  BY DEF Pending, Reconciling, Awake
<1>2. EndsWith(f, flows[f].status) /\ ~FailedApply(flows[f].status)
  BY <1>1 DEF Tracking, AtRestOK, ApplyFailed, FailedApply
<1>3. QED
  BY <1>2 DEF EndsWith

(* No wakeup is lost, status: whatever users edit, in whatever order       *)
(* informers and handlers run, and through failing patches and restarts,   *)
(* a Flow nothing is pending for has the status its spec and dependencies  *)
(* call for.                                                               *)
THEOREM StatusSettles == Spec => []SettledStatus
<1>1. Tracking => SettledStatus
  BY SettledFlow DEF SettledStatus
<1>2. QED
  BY <1>1, TrackingHolds, PTL

LEMMA TrackingSettles == Tracking => SettledChildren
<1> SUFFICES ASSUME Tracking, NEW f \in Flows, ~Pending(f), flows[f] # Absent, ~ApplyFailed(f),
                    cflows[f] = flows[f], cdeploy[f] = DeployOf(f),
                    Outcome(flows[f].spec, cdeps).reason = "Rendered", NEW k \in Kinds
             PROVE  kids[f][k] = [owner |-> flows[f].uid, body |-> Child(k, flows[f].spec, cdeps)]
  BY DEF SettledChildren
<1>1. SentOK(f, k)
  BY SettledFlow DEF AllSentOK
<1>2. QED
  BY <1>1 DEF SentOK, RenderedFor, DeployOf

(* No wakeup is lost, children: at such a moment the five children are     *)
(* those renderFlow makes of the cached dependencies, and are this Flow's. *)
THEOREM ChildrenSettle == Spec => []SettledChildren
BY TrackingSettles, TrackingHolds, PTL

-----------------------------------------------------------------------------
(* What the status claims.                                                 *)
CopiesInv == TypeInv /\ Copies

NoDeletion == "delete" \notin EditKinds

-----------------------------------------------------------------------------
(* What a reconcile stamps on its copy of the status, and what the patch   *)
(* leaves on the live one.                                                 *)
Stamps(st, g) == st.gen = g /\ st.cond # None /\ st.cond.gen = g

LEMMA RefusedStamp ==
  ASSUME NEW st \in Status, NEW g \in Nat,
         NEW reason \in {"InvalidSpec", "MissingDependency", "Error"},
         NEW about \in Deps \cup Kinds \cup {None}
  PROVE  Stamps(RefusedStatus(st, g, reason, about), g)
<1>1. /\ RefusedStatus(st, g, reason, about).gen = g
      /\ RefusedStatus(st, g, reason, about).cond = NotReady(reason, about, g)
  BY DEF RefusedStatus, Status
<1>2. NotReady(reason, about, g) \in Conditions /\ NotReady(reason, about, g).gen = g
  BY DEF NotReady, Conditions, Phases
<1>3. QED
  BY <1>1, <1>2, RecordsAssumption DEF Stamps

LEMMA ObservedStamp ==
  ASSUME NEW st \in Status, NEW g \in Nat, NEW spec, NEW hash,
         NEW dep, dep # Absent => dep.status \in [observed : BOOLEAN, avail : Nat, unavail : Nat]
  PROVE  Stamps(ObservedStatus(st, g, spec, hash, dep), g)
<1>1. CASE dep = Absent
  <2>1. NotReady("Reconciling", None, g) \in Conditions /\ NotReady("Reconciling", None, g).gen = g
    BY DEF NotReady, Conditions, Phases
  <2>2. QED
    BY <1>1, <2>1, RecordsAssumption DEF ObservedStatus, Stamps, Status
<1>2. CASE dep # Absent
  <2> DEFINE c == ReplicaCondition(derivePhase(spec.replicas, dep.status), dep.status, g)
  <2>1. derivePhase(spec.replicas, dep.status) \in Phases
    BY DEF derivePhase, Phases
  <2>2. c \in Conditions /\ c.gen = g
    BY <1>2, <2>1 DEF ReplicaCondition, Conditions, Phases
  <2>3. QED
    BY <1>2, <2>2, RecordsAssumption DEF ObservedStatus, Stamps
<1>3. QED
  BY <1>1, <1>2

(* A patch leaves the stamps of the reconcile that sends it, also where it *)
(* sends only one of the two because the other has not changed for it.     *)
LEMMA MergedStamp ==
  ASSUME NEW st \in Status, NEW orig \in Status, NEW upd \in Status, NEW g \in Nat, g > 0,
         StampsAgree(st), StampsAgree(orig), orig.gen <= st.gen, st.gen <= g, Stamps(upd, g)
  PROVE  Stamps(MergedStatus(st, orig, upd), g)
<1> DEFINE m == MergedStatus(st, orig, upd)
<1>1. st.gen \in Nat /\ orig.gen \in Nat
  BY DEF Status
<1>2. orig.gen = g => st.gen = g /\ st.cond # None /\ st.cond.gen = g
  BY <1>1 DEF StampsAgree
<1>3. m.gen = g
  BY <1>1, <1>2 DEF MergedStatus, Stamps
<1>4. CASE upd.cond = orig.cond
  <2>1. orig.gen = g
    BY <1>4 DEF StampsAgree, Stamps
  <2>2. QED
    BY <1>2, <1>3, <1>4, <2>1 DEF MergedStatus, Stamps
<1>5. CASE upd.cond # orig.cond
  BY <1>3, <1>5 DEF MergedStatus, Stamps
<1>6. QED
  BY <1>4, <1>5

-----------------------------------------------------------------------------
(* The copies of a Flow.                                                   *)
LEMMA InitCopies == Init => Copies
<1> SUFFICES ASSUME Init PROVE Copies
  OBVIOUS
<1>1. ASSUME NEW f \in Flows, flows[f] # Absent
      PROVE  flows[f].gen = 1 /\ flows[f].status = NoStatus
  BY <1>1, InputsAssumption DEF Init
<1>2. StampsAgree(NoStatus) /\ NoStatus.gen = 0
  BY DEF StampsAgree, NoStatus
<1>3. cflows = flows /\ rec = None
  BY DEF Init
<1>4. ASSUME NEW f \in Flows PROVE CopyOK(f)
  <2>1. CASE flows[f] = Absent
    BY <1>3, <2>1 DEF CopyOK
  <2>2. CASE flows[f] # Absent
    <3>1. flows[f].gen = 1 /\ StampsAgree(flows[f].status) /\ flows[f].status.gen = 0
      BY <1>1, <1>2, <2>2
    <3>2. QED
      BY <1>3, <2>2, <3>1 DEF CopyOK
  <2>3. QED
    BY <2>1, <2>2
<1>5. QED
  BY <1>3, <1>4 DEF Copies, ReconcileOK

LEMMA GenerationsAreNatural ==
  ASSUME TypeInv
  PROVE  /\ \A f \in Flows : flows[f] # Absent => flows[f] \in FlowObj
         /\ \A f \in Flows : cflows[f] # Absent => cflows[f] \in FlowObj
         /\ rec # None => /\ rec \in Reconciles /\ rec.flow \in Flows
                          /\ rec.orig \in FlowObj /\ rec.upd \in Status
         /\ \A o \in FlowObj : o.gen \in Nat /\ o.status \in Status /\ o.status.gen \in Nat
BY DEF TypeInv, TypeOK, FlowObj, Reconciles, Status

LEMMA UserStepsCopies ==
  ASSUME CopiesInv, NoDeletion, Edit
  PROVE  Copies'
<1> USE DEF CopiesInv
<1>1. flows \in [Flows -> FlowObj \cup {Absent}]
  BY DEF TypeInv, TypeOK
<1>2. ASSUME NEW f \in Flows, NEW s \in FlowSpecs, FlowCreate(f, s) PROVE Copies'
  <2>1. /\ flows[f] = Absent /\ UNCHANGED <<cflows, rec>>
        /\ flows' = [flows EXCEPT ![f] = [uid |-> used'.edits, spec |-> s, gen |-> 1,
                                          status |-> NoStatus]]
    BY <1>2 DEF FlowCreate, caches
  <2>2. cflows[f] = Absent /\ (rec # None => rec.flow # f /\ rec.flow \in Flows)
    BY <2>1, GenerationsAreNatural DEF Copies, CopyOK, ReconcileOK
  <2>3. /\ flows'[f].gen = 1 /\ flows'[f].status = NoStatus
        /\ \A g \in Flows \ {f} : flows'[g] = flows[g]
    BY <1>1, <2>1
  <2>4. StampsAgree(NoStatus) /\ NoStatus.gen = 0
    BY DEF StampsAgree, NoStatus
  <2>5. ReconcileOK'
    BY <2>1, <2>2, <2>3 DEF Copies, ReconcileOK
  <2>6. CopyOK(f)'
    BY <2>1, <2>2, <2>3, <2>4 DEF CopyOK
  <2>7. \A g \in Flows \ {f} : CopyOK(g)'
    BY <2>1, <2>3 DEF Copies, CopyOK
  <2>8. QED
    BY <2>5, <2>6, <2>7 DEF Copies
<1>3. ASSUME NEW f \in Flows, NEW s \in FlowSpecs, FlowEdit(f, s) PROVE Copies'
  <2>1. flows[f] \in FlowObj /\ UNCHANGED <<cflows, rec>>
    BY <1>1, <1>3 DEF FlowEdit, caches
  <2>2. /\ flows'[f] # Absent /\ flows'[f].gen = flows[f].gen + 1
        /\ flows'[f].status = flows[f].status
        /\ \A g \in Flows \ {f} : flows'[g] = flows[g]
    BY <1>1, <1>3, <2>1, RecordsAssumption DEF FlowEdit, FlowObj
  <2>3. ReconcileOK'
    BY <1>3, <2>1, <2>2, GenerationsAreNatural DEF Copies, ReconcileOK, FlowEdit
  <2>4. flows[f] # Absent /\ CopyOK(f) /\ flows[f].gen \in Nat /\ cflows' = cflows
    BY <1>3, <2>1 DEF Copies, FlowEdit, FlowObj
  <2>5. cflows[f] # Absent => cflows[f].gen \in Nat
    BY GenerationsAreNatural
  <2>6. CopyOK(f)'
    BY <2>2, <2>4, <2>5 DEF CopyOK
  <2>7. \A g \in Flows \ {f} : CopyOK(g)'
    BY <2>2, <2>4 DEF Copies, CopyOK
  <2>8. QED
    BY <2>3, <2>6, <2>7 DEF Copies
<1>4. (UNCHANGED <<flows, cflows, rec>>) => Copies'
  BY DEF Copies, CopyOK, ReconcileOK
<1>5. QED
  BY <1>2, <1>3, <1>4 DEF Edit, NoDeletion, DepWrite, DepDelete, ChildDelete, caches

(* A reconcile keeps the copy it began with, and stamps its generation.    *)
KeepsItsCopy ==
  rec' = None \/ /\ rec # None /\ rec'.flow = rec.flow /\ rec'.orig = rec.orig
                 /\ rec'.pc = "patch" => Stamps(rec'.upd, rec.orig.gen)

LEMMA ResolvedKeepsItsCopy ==
  ASSUME NEW r \in Reconciles, r.pc = "resolve"
  PROVE  /\ Resolved(r).flow = r.flow /\ Resolved(r).orig = r.orig
         /\ Resolved(r).pc = "patch" => Stamps(Resolved(r).upd, r.orig.gen)
<1> DEFINE o == Outcome(r.orig.spec, r.got)
           st == RefusedStatus(r.upd, r.orig.gen, o.reason, o.about)
<1>1. Resolved(r) \in {r, [r EXCEPT !.pc = "apply"]}
        \/ (o.reason # "Rendered" /\ Resolved(r) = [r EXCEPT !.pc = "patch", !.upd = st])
  BY DEF Resolved
<1>2. r.upd \in Status /\ r.orig.gen \in Nat /\ r.orig.spec \in FlowSpec /\ r.got \in Readings
  BY SpecsAreTyped DEF Reconciles, FlowObj
<1>3. o.reason \in Reasons /\ o.about \in Deps \cup {None}
  BY <1>2, OutcomeType
<1>4. o.reason # "Rendered" => Stamps(st, r.orig.gen)
  <2> SUFFICES ASSUME o.reason # "Rendered" PROVE Stamps(st, r.orig.gen)
    OBVIOUS
  <2>1. /\ o.reason \in {"InvalidSpec", "MissingDependency", "Error"}
        /\ o.about \in Deps \cup Kinds \cup {None}
    BY <1>3 DEF Reasons
  <2> HIDE DEF o
  <2>2. QED
    BY <1>2, <2>1, RefusedStamp
<1> HIDE DEF o, st
<1>5. CASE Resolved(r) \in {r, [r EXCEPT !.pc = "apply"]}
  BY <1>5 DEF Reconciles
<1>6. CASE o.reason # "Rendered" /\ Resolved(r) = [r EXCEPT !.pc = "patch", !.upd = st]
  BY <1>4, <1>6 DEF Reconciles
<1>7. QED
  BY <1>1, <1>5, <1>6

LEMMA WorkerKeepsItsCopy ==
  ASSUME TypeInv, ReadDep \/ ApplyChild \/ ApplyFails \/ ObserveDeploy
  PROVE  KeepsItsCopy /\ UNCHANGED <<flows, cflows>>
<1>1. rec # None /\ rec \in Reconciles
  BY DEF TypeInv, TypeOK, ReadDep, ApplyChild, ApplyFails, ObserveDeploy, At
<1>2. rec.upd \in Status /\ rec.orig.gen \in Nat /\ rec.flow \in Flows
  BY <1>1 DEF Reconciles, FlowObj
<1>3. CASE ReadDep
  <2> DEFINE o == First(ToRead(rec.orig.spec, rec.got))
             r == [rec EXCEPT !.got[o] = cdeps[o]]
  <2>1. r \in Reconciles /\ r.pc = "resolve" /\ r.flow = rec.flow /\ r.orig = rec.orig
    <3>1. [rec.got EXCEPT ![o] = cdeps[o]] \in Readings
      BY <1>1, ReadMore DEF TypeInv, TypeOK, Reconciles
    <3>2. QED
      BY <1>1, <1>3, <3>1 DEF ReadDep, At, Reconciles
  <2>2. rec' = Resolved(r)
    BY <1>3 DEF ReadDep
  <2> HIDE DEF r
  <2>3. KeepsItsCopy
    BY <1>1, <2>1, <2>2, ResolvedKeepsItsCopy DEF KeepsItsCopy
  <2>4. QED
    BY <1>3, <2>3 DEF ReadDep, store, caches
<1>4. CASE ApplyChild
  BY <1>1, <1>4 DEF ApplyChild, At, KeepsItsCopy, Reconciles, caches
<1>5. CASE ApplyFails
  <2>1. ApplyOrder[rec.next] \in Kinds
    BY <1>1 DEF Reconciles, ApplyOrder, Kinds
  <2>2. Stamps(RefusedStatus(rec.upd, rec.orig.gen, "Error", ApplyOrder[rec.next]), rec.orig.gen)
    BY <1>2, <2>1, RefusedStamp
  <2>3. QED
    BY <1>1, <1>5, <2>2 DEF ApplyFails, KeepsItsCopy, Reconciles, caches
<1>6. CASE ObserveDeploy
  <2>1. cdeploy[rec.flow] # Absent =>
          cdeploy[rec.flow].status \in [observed : BOOLEAN, avail : Nat, unavail : Nat]
    BY <1>2 DEF TypeInv, TypeOK, Reports
  <2>2. Stamps(ObservedStatus(rec.upd, rec.orig.gen, rec.orig.spec,
                 ContentHash(rec.orig.spec, rec.got), cdeploy[rec.flow]), rec.orig.gen)
    BY <1>2, <2>1, ObservedStamp
  <2>3. QED
    BY <1>1, <1>6, <2>2 DEF ObserveDeploy, KeepsItsCopy, Reconciles, store, caches
<1>7. QED
  BY <1>3, <1>4, <1>5, <1>6

LEMMA KeptCopies ==
  ASSUME Copies, KeepsItsCopy, UNCHANGED <<flows, cflows>>
  PROVE  Copies'
BY DEF Copies, ReconcileOK, CopyOK, KeepsItsCopy, Stamps

(* A patch stamps the live status with the generation of the reconcile.    *)
LEMMA PatchedStamps ==
  ASSUME CopiesInv, At("patch"), flows[rec.flow] # Absent, Patched(rec.flow)
  PROVE  /\ rec.flow \in Flows /\ rec.orig.gen \in Nat \ {0}
         /\ rec.orig.gen <= flows[rec.flow].gen
         /\ flows[rec.flow].status.gen <= rec.orig.gen
         /\ flows'[rec.flow] # Absent /\ flows'[rec.flow].gen = flows[rec.flow].gen
         /\ flows'[rec.flow].uid = flows[rec.flow].uid
         /\ Stamps(flows'[rec.flow].status, rec.orig.gen)
         /\ \A g \in Flows \ {rec.flow} : flows'[g] = flows[g]
<1> DEFINE f == rec.flow
           m == MergedStatus(flows[f].status, rec.orig.status, rec.upd)
<1>1. /\ rec # None /\ rec.pc = "patch" /\ f \in Flows /\ rec.orig \in FlowObj
      /\ rec.upd \in Status /\ flows[f] \in FlowObj
      /\ flows \in [Flows -> FlowObj \cup {Absent}]
  BY GenerationsAreNatural DEF CopiesInv, TypeInv, TypeOK, At
<1>2. /\ rec.orig.gen > 0 /\ rec.orig.gen <= cflows[f].gen /\ cflows[f] # Absent
      /\ StampsAgree(rec.orig.status) /\ rec.orig.status.gen <= flows[f].status.gen
      /\ flows[f].status.gen <= rec.orig.gen /\ Stamps(rec.upd, rec.orig.gen)
  BY <1>1 DEF CopiesInv, Copies, ReconcileOK, Stamps
<1>3. cflows[f].gen <= flows[f].gen /\ StampsAgree(flows[f].status)
  BY <1>1, <1>2 DEF CopiesInv, Copies, CopyOK
<1>4. cflows[f].gen \in Nat /\ flows[f].gen \in Nat /\ rec.orig.gen \in Nat
  BY <1>1, <1>2, GenerationsAreNatural DEF CopiesInv
<1>5. flows[f].status \in Status /\ rec.orig.status \in Status
  BY <1>1 DEF FlowObj
<1>6. Stamps(m, rec.orig.gen) /\ m \in Status
  BY <1>1, <1>2, <1>3, <1>4, <1>5, MergedStamp, MergedStatusType
<1> HIDE DEF m
<1>7. flows' = [flows EXCEPT ![f].status = m]
  BY DEF Patched, m
<1>8. flows'[f] = [flows[f] EXCEPT !.status = m] /\ \A g \in Flows \ {f} : flows'[g] = flows[g]
  BY <1>1, <1>7
<1>9. /\ flows'[f] \in FlowObj /\ flows'[f].status = m /\ flows'[f].gen = flows[f].gen
      /\ flows'[f].uid = flows[f].uid
  BY <1>1, <1>6, <1>8 DEF FlowObj
<1>10. QED
  BY <1>1, <1>2, <1>3, <1>4, <1>6, <1>8, <1>9, RecordsAssumption

LEMMA PatchedCopies ==
  ASSUME CopiesInv, At("patch"), flows[rec.flow] # Absent, Patched(rec.flow),
         rec' = None, cflows' = cflows
  PROVE  Copies'
<1>0. PICK f \in Flows : f = rec.flow
  BY PatchedStamps
<1>1. /\ f \in Flows /\ rec.orig.gen \in Nat \ {0}
      /\ flows'[f] # Absent /\ flows'[f].gen = flows[f].gen
      /\ Stamps(flows'[f].status, rec.orig.gen) /\ flows[f].status.gen <= rec.orig.gen
      /\ \A g \in Flows \ {f} : flows'[g] = flows[g]
  BY <1>0, PatchedStamps
<1>2. rec # None /\ cflows[f] # Absent /\ rec.orig.gen <= cflows[f].gen
  BY <1>0 DEF At, CopiesInv, Copies, ReconcileOK
<1>3. cflows[f] \in FlowObj /\ flows[f] \in FlowObj
  BY <1>0, <1>1, <1>2, GenerationsAreNatural DEF CopiesInv
<1>4. cflows[f].status.gen \in Nat /\ flows[f].status.gen \in Nat
  BY <1>3 DEF FlowObj, Status
<1>5. CopyOK(f) /\ cflows[f].gen \in Nat /\ flows[f] # Absent
  BY <1>0, <1>1, <1>3 DEF CopiesInv, Copies, FlowObj
<1>6. StampsAgree(flows'[f].status) /\ flows'[f].status.gen = rec.orig.gen
  BY <1>1 DEF Stamps, StampsAgree
<1>7. CopyOK(f)'
  BY <1>1, <1>2, <1>4, <1>5, <1>6 DEF CopyOK
<1>8. \A g \in Flows \ {f} : CopyOK(g)'
  BY <1>1 DEF CopiesInv, Copies, CopyOK
<1>9. ReconcileOK' /\ \A g \in Flows : CopyOK(g)'
  BY <1>7, <1>8 DEF ReconcileOK
<1>10. QED
  BY <1>9 DEF Copies

(* The other steps that touch a copy: the informer brings the cache up to  *)
(* date, a reconcile begins with what the cache holds, a restart lists.    *)
LEMMA InformFlowCopies ==
  ASSUME CopiesInv, NEW f \in Flows, InformFlow(f)
  PROVE  Copies'
<1>1. /\ flows' = flows /\ rec' = rec /\ cflows'[f] = flows[f]
      /\ \A g \in Flows \ {f} : cflows'[g] = cflows[g]
  BY DEF CopiesInv, TypeInv, TypeOK, InformFlow, store
<1>2. flows[f] # Absent => /\ flows[f].gen \in Nat /\ flows[f].status.gen \in Nat
                           /\ (cflows[f] # Absent => cflows[f].gen \in Nat)
  BY GenerationsAreNatural DEF CopiesInv
<1>3. CopyOK(f)
  BY DEF CopiesInv, Copies
<1>4. flows[f] # Absent => flows[f].status.gen <= flows[f].gen
  BY <1>2, <1>3 DEF CopyOK
<1>5. CopyOK(f)'
  BY <1>1, <1>2, <1>3, <1>4 DEF CopyOK
<1>6. \A g \in Flows \ {f} : CopyOK(g)'
  BY <1>1 DEF CopiesInv, Copies, CopyOK
<1>7. ReconcileOK'
  <2> SUFFICES ASSUME rec # None PROVE ReconcileOK'
    BY <1>1 DEF ReconcileOK
  <2>1. rec.flow \in Flows /\ rec.orig.gen \in Nat
    BY GenerationsAreNatural DEF CopiesInv
  <2>2. ReconcileOK
    BY DEF CopiesInv, Copies
  <2>3. CASE rec.flow = f
    BY <1>1, <1>2, <1>3, <2>1, <2>2, <2>3 DEF ReconcileOK, CopyOK
  <2>4. CASE rec.flow # f
    BY <1>1, <2>1, <2>2, <2>4 DEF ReconcileOK
  <2>5. QED
    BY <2>3, <2>4
<1>8. QED
  BY <1>5, <1>6, <1>7 DEF Copies

LEMMA StartCopies ==
  ASSUME CopiesInv, NEW f \in Flows, Start(f)
  PROVE  Copies'
<1>1. flows' = flows /\ cflows' = cflows
  BY DEF Start, store, caches
<1>2. \A g \in Flows : CopyOK(g)'
  BY <1>1 DEF CopiesInv, Copies, CopyOK
<1>3. CASE cflows[f] = Absent
  BY <1>2, <1>3 DEF Start, Copies, ReconcileOK
<1>4. CASE cflows[f] # Absent
  <2> DEFINE r == [flow |-> f, orig |-> cflows[f], got |-> [o \in Deps |-> Unread],
                   pc |-> "resolve", next |-> 1, upd |-> cflows[f].status]
  <2>1. cflows[f] \in FlowObj /\ cflows[f].status \in Status
    BY <1>4, GenerationsAreNatural DEF CopiesInv
  <2>2. r \in Reconciles /\ r.pc = "resolve" /\ r.flow = f /\ r.orig = cflows[f]
    <3>1. [o \in Deps |-> Unread] \in Readings
      BY DEF Readings
    <3>2. QED
      BY <2>1, <3>1 DEF Reconciles, ApplyOrder
  <2>3. rec' = Resolved(r)
    BY <1>4 DEF Start
  <2> HIDE DEF r
  <2>4. /\ rec'.flow = f /\ rec'.orig = cflows[f]
        /\ rec'.pc = "patch" => Stamps(rec'.upd, cflows[f].gen)
    BY <2>2, <2>3, ResolvedKeepsItsCopy
  <2>5. CopyOK(f) /\ cflows[f].gen \in Nat
    BY <1>4, GenerationsAreNatural DEF CopiesInv, Copies
  <2>6. ReconcileOK'
    BY <1>1, <1>4, <2>4, <2>5 DEF ReconcileOK, CopyOK, Stamps
  <2>7. QED
    BY <1>2, <2>6 DEF Copies
<1>5. QED
  BY <1>3, <1>4

LEMMA CrashCopies ==
  ASSUME CopiesInv, Crash
  PROVE  Copies'
<1>1. flows' = flows /\ cflows' = flows /\ rec' = None
  BY DEF Crash, store
<1>2. ASSUME NEW f \in Flows PROVE CopyOK(f)'
  <2>1. flows[f] # Absent => /\ flows[f].gen \in Nat /\ flows[f].status.gen \in Nat
                             /\ (cflows[f] # Absent => cflows[f].gen \in Nat)
    BY GenerationsAreNatural DEF CopiesInv
  <2>2. CopyOK(f)
    BY DEF CopiesInv, Copies
  <2>3. flows[f] # Absent => flows[f].status.gen <= flows[f].gen
    BY <2>1, <2>2 DEF CopyOK
  <2>4. QED
    BY <1>1, <2>1, <2>2, <2>3 DEF CopyOK
<1>3. QED
  BY <1>1, <1>2 DEF Copies, ReconcileOK

LEMMA CopiesStep ==
  ASSUME CopiesInv, NoDeletion, [Next]_vars
  PROVE  Copies'
<1>1. (KeepsItsCopy /\ UNCHANGED <<flows, cflows>>) => Copies'
  BY KeptCopies DEF CopiesInv
<1>2. (UNCHANGED <<flows, cflows, rec>>) => Copies'
  BY DEF CopiesInv, Copies, CopyOK, ReconcileOK
<1>3. CASE Edit
  BY <1>3, UserStepsCopies
<1>4. CASE ReportAny \/ Cluster \/ Resync \/ HandleAny
  BY <1>2, <1>4 DEF ReportAny, ReportReplicas, Cluster, Collect, GarbageCollect,
                    ObserveGeneration, Resync, HandleAny, Handle, store, caches
<1>5. CASE Inform
  BY <1>2, <1>5, InformFlowCopies DEF Inform, InformDeploy, InformDep, store
<1>6. CASE ReadDep \/ ApplyChild \/ ApplyFails \/ ObserveDeploy
  BY <1>1, <1>6, WorkerKeepsItsCopy DEF CopiesInv
<1>7. CASE \E f \in queue : Start(f)
  BY <1>7, StartCopies DEF CopiesInv, TypeInv, TypeOK
<1>8. CASE PatchStatus
  BY <1>8, PatchedCopies DEF PatchStatus, caches
<1>9. CASE PatchStatusFails
  <2>1. CASE flows' = flows
    BY <1>1, <1>9, <2>1 DEF PatchStatusFails, KeepsItsCopy, caches
  <2>2. CASE flows[rec.flow] # Absent /\ Patched(rec.flow)
    BY <1>9, <2>2, PatchedCopies DEF PatchStatusFails, caches
  <2>3. QED
    BY <1>9, <2>1, <2>2 DEF PatchStatusFails
<1>10. CASE Crash
  BY <1>10, CrashCopies
<1>11. CASE UNCHANGED vars
  BY <1>2, <1>11 DEF vars
<1>12. QED
  BY <1>3, <1>4, <1>5, <1>6, <1>7, <1>8, <1>9, <1>10, <1>11 DEF Next, Worker

-----------------------------------------------------------------------------
(* What a step may do to the Flows: nothing, create or edit one, or stamp  *)
(* the status of one.                                                      *)
Elsewhere(f) == \A g \in Flows \ {f} : flows'[g] = flows[g]

Grown(f) ==
  /\ flows'[f] # Absent /\ Elsewhere(f)
  /\ flows'[f].gen = (IF flows[f] = Absent THEN 0 ELSE flows[f].gen) + 1
  /\ flows'[f].status = IF flows[f] = Absent THEN NoStatus ELSE flows[f].status

Stamped(f, g) ==
  /\ flows[f] # Absent /\ flows'[f] # Absent /\ Elsewhere(f)
  /\ flows'[f].gen = flows[f].gen
  /\ flows[f].status.gen <= g /\ g <= flows[f].gen
  /\ Stamps(flows'[f].status, g)

FlowsStep ==
  \/ flows' = flows
  \/ \E f \in Flows : Grown(f)
  \/ \E f \in Flows, g \in Nat \ {0} : Stamped(f, g)

LEMMA CreatedIsGrown ==
  ASSUME CopiesInv, [Next]_vars, NEW f \in Flows, NEW s \in FlowSpecs, FlowCreate(f, s)
  PROVE  Grown(f)
<1>1. flows \in [Flows -> FlowObj \cup {Absent}]
  BY DEF CopiesInv, TypeInv, TypeOK
<1>2. flows' = [flows EXCEPT ![f] = [uid |-> used'.edits, spec |-> s, gen |-> 1,
                                     status |-> NoStatus]]
  BY DEF FlowCreate
<1>3. flows'[f] = [uid |-> used'.edits, spec |-> s, gen |-> 1, status |-> NoStatus]
  BY <1>1, <1>2
<1>4. used'.edits \in Nat /\ TypeInv'
  BY TypeInvStep DEF CopiesInv, TypeInv, TypeOK
<1>5. flows'[f] \in FlowObj
  BY <1>3, <1>4, NoStatusType DEF FlowObj
<1>6. \A g \in Flows \ {f} : flows'[g] = flows[g]
  BY <1>1, <1>2
<1>7. QED
  BY <1>3, <1>5, <1>6, RecordsAssumption DEF Grown, Elsewhere, FlowCreate

LEMMA EditedIsGrown ==
  ASSUME CopiesInv, NEW f \in Flows, NEW s \in FlowSpecs, FlowEdit(f, s)
  PROVE  Grown(f)
<1>1. flows \in [Flows -> FlowObj \cup {Absent}]
  BY DEF CopiesInv, TypeInv, TypeOK
<1>2. flows' = [flows EXCEPT ![f].spec = s, ![f].gen = @ + 1] /\ flows[f] \in FlowObj
  BY <1>1 DEF FlowEdit
<1>3. /\ flows'[f] = [flows[f] EXCEPT !.spec = s, !.gen = @ + 1]
      /\ \A g \in Flows \ {f} : flows'[g] = flows[g]
  BY <1>1, <1>2
<1>4. flows'[f].gen = flows[f].gen + 1 /\ flows'[f].status = flows[f].status
  BY <1>2, <1>3 DEF FlowObj
<1>5. flows'[f] # Absent
  BY <1>1, <1>2, RecordsAssumption DEF FlowEdit, FlowObj
<1>6. QED
  BY <1>3, <1>4, <1>5 DEF Grown, Elsewhere, FlowEdit

LEMMA EveryStepOnFlows ==
  ASSUME CopiesInv, NoDeletion, [Next]_vars
  PROVE  FlowsStep
<1>4. CASE Edit
  BY <1>4, CreatedIsGrown, EditedIsGrown
  DEF Edit, NoDeletion, DepWrite, DepDelete, ChildDelete, FlowsStep
<1>5. At("patch") /\ flows[rec.flow] # Absent /\ Patched(rec.flow) => FlowsStep
  BY PatchedStamps DEF FlowsStep, Stamped, Elsewhere
<1>6. CASE PatchStatus \/ PatchStatusFails
  BY <1>5, <1>6 DEF PatchStatus, PatchStatusFails, FlowsStep
<1>7. CASE ReadDep \/ ApplyChild \/ ApplyFails \/ ObserveDeploy
  BY <1>7, WorkerKeepsItsCopy DEF CopiesInv, FlowsStep
<1>8. CASE ReportAny \/ Cluster \/ Inform \/ Resync \/ HandleAny \/ Crash
             \/ \E f \in queue : Start(f)
  BY <1>8 DEF ReportAny, ReportReplicas, Cluster, Collect, GarbageCollect, ObserveGeneration,
              Inform, InformFlow, InformDeploy, InformDep, Resync, HandleAny, Handle, Crash,
              Start, store, FlowsStep
<1>9. QED
  BY <1>4, <1>6, <1>7, <1>8 DEF Next, Worker, vars, FlowsStep

LEMMA SoundCopies == CopiesInv => ObservedGenerationSound
<1> SUFFICES ASSUME CopiesInv, NEW f \in Flows, flows[f] # Absent
             PROVE  /\ flows[f].status.gen <= flows[f].gen
                    /\ flows[f].status.cond # None =>
                         flows[f].status.cond.gen <= flows[f].status.gen
  BY DEF ObservedGenerationSound
<1>1. CopyOK(f) /\ flows[f].gen \in Nat /\ flows[f].status.gen \in Nat
  BY GenerationsAreNatural DEF CopiesInv, Copies
<1>2. cflows[f] # Absent => cflows[f].gen \in Nat
  BY GenerationsAreNatural DEF CopiesInv
<1>3. QED
  BY <1>1, <1>2 DEF CopyOK, StampsAgree

Monotone ==
  \A f \in Flows :
    flows[f] # Absent /\ flows'[f] # Absent /\ flows'[f].uid = flows[f].uid
      => flows'[f].status.gen >= flows[f].status.gen

LEMMA MonotoneStep ==
  ASSUME CopiesInv, NoDeletion, [Next]_vars
  PROVE  Monotone
<1> SUFFICES ASSUME NEW f \in Flows, flows[f] # Absent
             PROVE  flows'[f].status.gen >= flows[f].status.gen
  BY DEF Monotone
<1>1. flows[f].status.gen \in Nat
  BY GenerationsAreNatural DEF CopiesInv
<1>2. CASE flows' = flows
  BY <1>1, <1>2
<1>3. CASE \E g \in Flows : Grown(g)
  BY <1>1, <1>3 DEF Grown, Elsewhere
<1>4. CASE \E g \in Flows, n \in Nat \ {0} : Stamped(g, n)
  BY <1>1, <1>4 DEF Stamped, Elsewhere, Stamps
<1>5. QED
  BY <1>2, <1>3, <1>4, EveryStepOnFlows DEF FlowsStep

(* The abstract counters, written out.                                     *)
LEMMA AbstractInit == Init => Abstract!ObservationInit
<1> SUFFICES ASSUME Init PROVE Abstract!ObservationInit
  OBVIOUS
<1>1. ASSUME NEW f \in Flows
      PROVE  generationOf(f) \in Nat /\ observedOf(f) = 0 /\ judgedOf(f) = 0
  <2>1. CASE flows[f] = Absent
    BY <2>1 DEF generationOf, observedOf, judgedOf
  <2>2. CASE flows[f] # Absent
    <3>1. flows[f].gen = 1 /\ flows[f].status = NoStatus
      BY <2>2, InputsAssumption DEF Init
    <3>2. QED
      BY <2>2, <3>1 DEF generationOf, observedOf, judgedOf, NoStatus
  <2>3. QED
    BY <2>1, <2>2
<1>2. QED
  BY <1>1 DEF Abstract!ObservationInit

LEMMA AbstractElsewhere ==
  ASSUME NEW f \in Flows, Elsewhere(f)
  PROVE  \A g \in Flows \ {f} : /\ generationOf(g)' = generationOf(g)
                                 /\ observedOf(g)' = observedOf(g)
                                 /\ judgedOf(g)' = judgedOf(g)
BY DEF Elsewhere, generationOf, observedOf, judgedOf

LEMMA GrownIsChange ==
  ASSUME NEW f \in Flows, Grown(f)
  PROVE  Abstract!Change(f)
<1>1. /\ generationOf(f)' = generationOf(f) + 1
      /\ observedOf(f)' = observedOf(f) /\ judgedOf(f)' = judgedOf(f)
  BY DEF Grown, generationOf, observedOf, judgedOf, NoStatus
<1>2. /\ [g \in Flows |-> generationOf(g)]'
           = [[g \in Flows |-> generationOf(g)] EXCEPT ![f] = generationOf(f) + 1]
      /\ [g \in Flows |-> observedOf(g)]' = [g \in Flows |-> observedOf(g)]
      /\ [g \in Flows |-> judgedOf(g)]' = [g \in Flows |-> judgedOf(g)]
  BY <1>1, AbstractElsewhere DEF Grown
<1>3. QED
  BY <1>2 DEF Abstract!Change

LEMMA StampedIsJudge ==
  ASSUME NEW f \in Flows, NEW n \in Nat \ {0}, Stamped(f, n), flows[f] \in FlowObj
  PROVE  /\ Abstract!Judge(f, n)
         /\ n \in [g \in Flows |-> observedOf(g)][f]..[g \in Flows |-> generationOf(g)][f]
<1>1. /\ generationOf(f)' = generationOf(f) /\ generationOf(f) \in Nat /\ generationOf(f) >= n
      /\ observedOf(f) \in Nat /\ observedOf(f) <= n
      /\ observedOf(f)' = n /\ judgedOf(f)' = n
  BY DEF Stamped, Stamps, generationOf, observedOf, judgedOf, FlowObj, Status
<1>2. /\ [g \in Flows |-> generationOf(g)]' = [g \in Flows |-> generationOf(g)]
      /\ [g \in Flows |-> observedOf(g)]'
           = [[g \in Flows |-> observedOf(g)] EXCEPT ![f] = n]
      /\ [g \in Flows |-> judgedOf(g)]'
           = [[g \in Flows |-> judgedOf(g)] EXCEPT ![f] = n]
  BY <1>1, AbstractElsewhere DEF Stamped
<1>3. Abstract!Judge(f, n)
  BY <1>1, <1>2 DEF Abstract!Judge
<1>4. QED
  BY <1>1, <1>3

LEMMA AbstractStep ==
  ASSUME CopiesInv, NoDeletion, [Next]_vars
  PROVE  [Abstract!ObservationNext]_(Abstract!observation)
<1>1. CASE flows' = flows
  BY <1>1 DEF Abstract!observation, generationOf, observedOf, judgedOf
<1>2. CASE \E f \in Flows : Grown(f)
  BY <1>2, GrownIsChange DEF Abstract!ObservationNext
<1>3. CASE \E f \in Flows, n \in Nat \ {0} : Stamped(f, n)
  <2>1. PICK f \in Flows, n \in Nat \ {0} : Stamped(f, n)
    BY <1>3
  <2>2. flows[f] \in FlowObj
    BY <2>1, GenerationsAreNatural DEF CopiesInv, Stamped
  <2>3. QED
    BY <2>1, <2>2, StampedIsJudge DEF Abstract!ObservationNext
<1>4. QED
  BY <1>1, <1>2, <1>3, EveryStepOnFlows DEF FlowsStep

-----------------------------------------------------------------------------
(* As long as no Flow is deleted, the live Flow, the cached one and the    *)
(* one a reconcile works on are states of one object, in this order, and   *)
(* every status names one generation, in the condition and next to it.     *)
THEOREM CopiesHold == NoDeletion => (Spec => [](TypeInv /\ Copies))
<1>1. Init => CopiesInv
  BY InitTypeInv, InitCopies DEF CopiesInv
<1>2. SUFFICES ASSUME NoDeletion PROVE Spec => [](TypeInv /\ Copies)
  OBVIOUS
<1>3. CopiesInv /\ [Next]_vars => CopiesInv'
  BY <1>2, CopiesStep, TypeInvStep DEF CopiesInv
<1>4. QED
  BY <1>1, <1>3, PTL DEF Spec, CopiesInv

(* observedGeneration is never ahead of the Flow, the condition never      *)
(* ahead of observedGeneration (reconcile and patchStatus of               *)
(* internal/controller/flow_controller.go).                                *)
THEOREM ObservationIsSound == NoDeletion => (Spec => []ObservedGenerationSound)
<1>1. SUFFICES ASSUME NoDeletion PROVE Spec => []ObservedGenerationSound
  OBVIOUS
<1>2. Spec => []CopiesInv
  BY <1>1, CopiesHold DEF CopiesInv
<1>3. QED
  BY <1>2, SoundCopies, PTL

(* No patch takes observedGeneration back, although one reconcile computes *)
(* its patch from a cached copy older than what the one before it wrote.   *)
THEOREM ObservationIsMonotone == NoDeletion => (Spec => ObservedGenerationMonotone)
<1>1. SUFFICES ASSUME NoDeletion PROVE Spec => ObservedGenerationMonotone
  OBVIOUS
<1>2. Spec => []CopiesInv
  BY <1>1, CopiesHold DEF CopiesInv
<1>3. CopiesInv /\ [Next]_vars => [Monotone]_vars
  BY <1>1, MonotoneStep
<1>4. [][Monotone]_vars => ObservedGenerationMonotone
  BY DEF Monotone, ObservedGenerationMonotone
<1>5. QED
  BY <1>2, <1>3, <1>4, PTL DEF Spec

(* Every behaviour of the controller, its API server, its caches, its      *)
(* failing calls and its restarts is one of Observation's.                 *)
THEOREM FlowsImplementObservation == NoDeletion => (Spec => ImplementsObservation)
<1>1. SUFFICES ASSUME NoDeletion PROVE Spec => ImplementsObservation
  OBVIOUS
<1>2. Spec => []CopiesInv
  BY <1>1, CopiesHold DEF CopiesInv
<1>3. CopiesInv /\ [Next]_vars => [Abstract!ObservationNext]_(Abstract!observation)
  BY <1>1, AbstractStep
<1>4. QED
  BY <1>2, <1>3, AbstractInit, PTL DEF Spec, ImplementsObservation, Abstract!ObservationSpec

-----------------------------------------------------------------------------
(* The children.                                                           *)

(* A step does one of three things to the children: nothing, take one away *)
(* while the controller stands still, or send the next one.                *)
Removes ==
  rec' = rec /\ \E f \in Flows, k \in Kinds : kids' = [kids EXCEPT ![f][k] = Absent]

Sends ==
  /\ ApplyChild \/ ApplyFails
  /\ kids' = [kids EXCEPT ![rec.flow][ApplyOrder[rec.next]] = RenderedKid]

LEMMA EveryStepOnChildren == [Next]_vars => kids' = kids \/ Removes \/ Sends
<1> SUFFICES ASSUME [Next]_vars PROVE kids' = kids \/ Removes \/ Sends
  OBVIOUS
<1>1. CASE Edit
  BY <1>1 DEF Edit, FlowCreate, FlowEdit, FlowDelete, DepWrite, DepDelete, ChildDelete,
              RemoveChild, Removes
<1>2. CASE ReportAny \/ Cluster
  BY <1>2 DEF ReportAny, Cluster, Collect, ReportReplicas, GarbageCollect, ObserveGeneration,
              RemoveChild, Removes
<1>3. CASE Inform \/ Resync \/ HandleAny \/ Crash
  BY <1>3 DEF Inform, InformFlow, InformDeploy, InformDep, Resync, HandleAny, Handle, Crash, store
<1>4. CASE ApplyChild \/ ApplyFails
  BY <1>4 DEF ApplyChild, ApplyFails, Applied, Sends
<1>5. CASE (\E f \in queue : Start(f)) \/ ReadDep \/ ObserveDeploy \/ PatchStatus \/ PatchStatusFails
  BY <1>5 DEF Start, ReadDep, ObserveDeploy, PatchStatus, PatchStatusFails, store
<1>6. CASE UNCHANGED vars
  BY <1>6 DEF vars
<1>7. QED
  BY <1>1, <1>2, <1>3, <1>4, <1>5, <1>6 DEF Next, Worker

(* A child that is taken away leaves the others as they were.              *)
LEMMA RemovedLeaves ==
  ASSUME TypeInv, Removes, NEW f \in Flows, NEW k \in Kinds
  PROVE  kids'[f][k] \in {kids[f][k], Absent}
<1>1. kids \in [Flows -> Children]
  BY DEF TypeInv, TypeOK
<1>2. PICK g \in Flows, j \in Kinds : kids' = [kids EXCEPT ![g][j] = Absent]
  BY DEF Removes
<1>3. QED
  BY <1>1, <1>2, ChildrenElsewhere

(* A child that is sent is as rendered, and leaves the others as they were.*)
LEMMA SentLeaves ==
  ASSUME TypeInv, Sends
  PROVE  /\ rec # None /\ rec \in Reconciles /\ rec.pc = "apply"
         /\ rec.flow \in Flows /\ ApplyOrder[rec.next] \in Kinds
         /\ \A f \in Flows, k \in Kinds :
              kids'[f][k] = IF f = rec.flow /\ k = ApplyOrder[rec.next] THEN RenderedKid
                            ELSE kids[f][k]
<1>1. rec # None /\ rec \in Reconciles /\ rec.pc = "apply" /\ kids \in [Flows -> Children]
  BY DEF TypeInv, TypeOK, Sends, ApplyChild, ApplyFails, At
<1>2. rec.flow \in Flows /\ ApplyOrder[rec.next] \in Kinds
  BY <1>1 DEF Reconciles, ApplyOrder, Kinds
<1>3. kids' = [kids EXCEPT ![rec.flow][ApplyOrder[rec.next]] = RenderedKid]
  BY DEF Sends
<1>4. PICK g \in Flows, j \in Kinds : g = rec.flow /\ j = ApplyOrder[rec.next]
  BY <1>2
<1>5. \A f \in Flows, k \in Kinds :
        kids'[f][k] = IF f = g /\ k = j THEN RenderedKid ELSE kids[f][k]
  <2>1. kids' = [kids EXCEPT ![g][j] = RenderedKid]
    BY <1>3, <1>4
  <2> DEFINE v == RenderedKid
  <2>2. kids' = [kids EXCEPT ![g][j] = v]
    BY <2>1
  <2> HIDE DEF v
  <2>3. \A f \in Flows, k \in Kinds : kids'[f][k] = IF f = g /\ k = j THEN v ELSE kids[f][k]
    BY <1>1, <2>2, ChildrenElsewhere
  <2>4. QED
    BY <2>3 DEF v
<1>6. QED
  BY <1>1, <1>2, <1>4, <1>5

(* What reading one more object makes of a reconcile.                      *)
LEMMA ResolvedGoesOn ==
  ASSUME NEW r \in Reconciles, r.pc = "resolve"
  PROVE  /\ Resolved(r).flow = r.flow /\ Resolved(r).orig = r.orig /\ Resolved(r).next = r.next
         /\ Resolved(r).pc \in {"resolve", "apply", "patch"}
         /\ Resolved(r).pc = "patch" => ~Resolved(r).upd.cond.ready
<1> DEFINE o == Outcome(r.orig.spec, r.got)
           st == RefusedStatus(r.upd, r.orig.gen, o.reason, o.about)
<1>1. Resolved(r) \in {r, [r EXCEPT !.pc = "apply"], [r EXCEPT !.pc = "patch", !.upd = st]}
  BY DEF Resolved
<1>2. r.upd \in Status
  BY DEF Reconciles
<1>3. st.cond = NotReady(o.reason, o.about, r.orig.gen)
  BY <1>2 DEF RefusedStatus, Status
<1>4. ~st.cond.ready
  BY <1>3 DEF NotReady
<1> HIDE DEF o, st
<1>5. QED
  BY <1>1, <1>4 DEF Reconciles
-----------------------------------------------------------------------------
(* ConfigMaps before the hash.  The children a reconcile has sent are as it*)
(* rendered them, or were taken away since.                                *)
SentContent ==
  rec # None =>
    /\ rec.pc = "resolve" => rec.next = 1
    /\ rec.pc = "apply" =>
         \A i \in DOMAIN ApplyOrder :
           i < rec.next /\ kids[rec.flow][ApplyOrder[i]] # Absent =>
             kids[rec.flow][ApplyOrder[i]].body = Child(ApplyOrder[i], rec.orig.spec, rec.got)

LEMMA ReadingSendsNothing ==
  ASSUME TypeInv, SentContent, (\E f \in queue : Start(f)) \/ ReadDep
  PROVE  SentContent'
<1>1. CASE rec' = None
  BY <1>1 DEF SentContent
<1>2. ASSUME NEW r \in Reconciles, r.pc = "resolve", r.next = 1, rec' = Resolved(r)
      PROVE  SentContent'
  <2>1. rec'.next = 1 /\ rec'.pc \in {"resolve", "apply", "patch"}
    BY <1>2, ResolvedGoesOn
  <2>2. \A i \in DOMAIN ApplyOrder : ~(i < 1)
    BY DEF ApplyOrder
  <2>3. QED
    BY <2>1, <2>2 DEF SentContent
<1>3. ASSUME NEW f \in queue, Start(f), cflows[f] # Absent PROVE SentContent'
  <2> DEFINE r == [flow |-> f, orig |-> cflows[f], got |-> [o \in Deps |-> Unread],
                   pc |-> "resolve", next |-> 1, upd |-> cflows[f].status]
  <2>1. r \in Reconciles /\ r.pc = "resolve" /\ r.next = 1
    BY <1>3 DEF TypeInv, TypeOK, Reconciles, FlowObj, Readings, ApplyOrder
  <2> HIDE DEF r
  <2>2. rec' = Resolved(r)
    BY <1>3 DEF Start, r
  <2>3. QED
    BY <1>2, <2>1, <2>2
<1>4. CASE ReadDep
  <2> DEFINE o == First(ToRead(rec.orig.spec, rec.got))
             r == [rec EXCEPT !.got[o] = cdeps[o]]
  <2>1. rec # None /\ rec \in Reconciles /\ rec.pc = "resolve" /\ rec.next = 1
    BY <1>4 DEF TypeInv, TypeOK, ReadDep, At, SentContent
  <2>2. [rec.got EXCEPT ![o] = cdeps[o]] \in Readings
    BY <2>1, ReadMore DEF TypeInv, TypeOK, Reconciles
  <2>3. r \in Reconciles /\ r.pc = "resolve" /\ r.next = 1
    BY <2>1, <2>2 DEF Reconciles
  <2>4. rec' = Resolved(r)
    BY <1>4 DEF ReadDep
  <2> HIDE DEF r
  <2>5. QED
    BY <1>2, <2>3, <2>4
<1>5. QED
  BY <1>1, <1>3, <1>4 DEF Start

LEMMA SendingStep ==
  ASSUME TypeInv, SentContent, Sends
  PROVE  SentContent'
<1>1. /\ rec # None /\ rec \in Reconciles /\ rec.pc = "apply" /\ rec.flow \in Flows
      /\ \A f \in Flows, k \in Kinds :
           kids'[f][k] = IF f = rec.flow /\ k = ApplyOrder[rec.next] THEN RenderedKid
                         ELSE kids[f][k]
  BY SentLeaves
<1>2. rec.next \in DOMAIN ApplyOrder /\ DOMAIN ApplyOrder = 1..5
  BY <1>1 DEF Reconciles, ApplyOrder
<1>3. CASE ApplyChild /\ rec.next # Len(ApplyOrder)
  <2>1. rec' = [rec EXCEPT !.next = @ + 1]
    BY <1>3 DEF ApplyChild
  <2>2. /\ rec'.pc = "apply" /\ rec'.next = rec.next + 1
        /\ rec'.flow = rec.flow /\ rec'.orig = rec.orig /\ rec'.got = rec.got
    BY <1>1, <2>1 DEF Reconciles
  <2>3. ASSUME NEW i \in DOMAIN ApplyOrder, i < rec.next + 1,
               kids'[rec.flow][ApplyOrder[i]] # Absent
        PROVE  kids'[rec.flow][ApplyOrder[i]].body = Child(ApplyOrder[i], rec.orig.spec, rec.got)
    <3>1. ApplyOrder[i] \in Kinds
      BY DEF ApplyOrder, Kinds
    <3>2. CASE i = rec.next
      BY <1>1, <3>1, <3>2 DEF RenderedKid
    <3>3. CASE i # rec.next
      <4>1. i < rec.next /\ ApplyOrder[i] # ApplyOrder[rec.next]
        BY <1>2, <2>3, <3>3 DEF ApplyOrder
      <4>2. kids'[rec.flow][ApplyOrder[i]] = kids[rec.flow][ApplyOrder[i]]
        BY <1>1, <3>1, <4>1
      <4>3. QED
        BY <1>1, <2>3, <4>1, <4>2 DEF SentContent
    <3>4. QED
      BY <3>2, <3>3
  <2>4. QED
    BY <2>2, <2>3 DEF SentContent
<1>4. CASE ApplyFails \/ (ApplyChild /\ rec.next = Len(ApplyOrder))
  BY <1>1, <1>4 DEF ApplyFails, ApplyChild, SentContent, Reconciles
<1>5. QED
  BY <1>3, <1>4 DEF Sends

LEMMA SentStep == TypeInv /\ SentContent /\ [Next]_vars => SentContent'
<1> SUFFICES ASSUME TypeInv, SentContent, [Next]_vars PROVE SentContent'
  OBVIOUS
<1>1. CASE rec' = None
  BY <1>1 DEF SentContent
<1>2. CASE rec' = rec /\ kids' = kids
  BY <1>2 DEF SentContent
<1>3. CASE Removes
  <2> SUFFICES ASSUME rec # None PROVE SentContent'
    BY <1>3 DEF Removes, SentContent
  <2>1. rec' = rec /\ rec.flow \in Flows
    BY <1>3 DEF TypeInv, TypeOK, Reconciles, Removes
  <2>2. \A i \in DOMAIN ApplyOrder : ApplyOrder[i] \in Kinds
    BY DEF ApplyOrder, Kinds
  <2>3. \A i \in DOMAIN ApplyOrder :
          kids'[rec.flow][ApplyOrder[i]] \in {kids[rec.flow][ApplyOrder[i]], Absent}
    BY <1>3, <2>1, <2>2, RemovedLeaves
  <2>4. QED
    BY <2>1, <2>3 DEF SentContent
<1>4. CASE Sends
  BY <1>4, SendingStep
<1>5. CASE (\E f \in queue : Start(f)) \/ ReadDep
  BY <1>5, ReadingSendsNothing
<1>6. CASE ObserveDeploy
  BY <1>6 DEF ObserveDeploy, At, SentContent, TypeInv, TypeOK, Reconciles
<1>7. CASE ApplyChild \/ ApplyFails
  <2>1. CASE ApplyChild
    BY <2>1, SendingStep DEF ApplyChild, Applied, Sends
  <2>2. CASE ApplyFails
    BY <2>2 DEF ApplyFails, At, SentContent, TypeInv, TypeOK, Reconciles
  <2>3. QED
    BY <1>7, <2>1, <2>2
<1>8. CASE Edit
  <2>1. rec' = rec
    BY <1>8 DEF Edit, FlowCreate, FlowEdit, FlowDelete, DepWrite, DepDelete, ChildDelete
  <2>2. QED
    BY <1>2, <1>3, <1>4, <2>1, EveryStepOnChildren
<1>9. CASE ReportAny \/ Cluster \/ Inform \/ Resync \/ HandleAny
  <2>1. rec' = rec
    BY <1>9 DEF ReportAny, Cluster, Collect, ReportReplicas, GarbageCollect, ObserveGeneration,
                Inform, InformFlow, InformDeploy, InformDep, Resync, HandleAny, Handle
  <2>2. QED
    BY <1>2, <1>3, <1>4, <2>1, EveryStepOnChildren
<1>10. QED
  BY <1>1, <1>2, <1>5, <1>6, <1>7, <1>8, <1>9
  DEF Next, Worker, PatchStatus, PatchStatusFails, Crash, vars

(* The step property of HashFollowsContent.                                *)
HashStep ==
  \A f \in Flows :
    LET old == kids[f]["deploy"]
        new == kids'[f]["deploy"]
    IN  new # Absent /\ (old = Absent \/ old.body.template.hash # new.body.template.hash)
          => \A k \in {"prompts", "tools", "config"} :
               kids[f][k] # Absent => kids[f][k].body = new.body.template.hash[k]

LEMMA HashStepHolds == TypeInv /\ SentContent /\ [Next]_vars => HashStep
<1> SUFFICES ASSUME TypeInv, SentContent, [Next]_vars, NEW f \in Flows,
                    kids'[f]["deploy"] # Absent,
                    kids[f]["deploy"] # kids'[f]["deploy"],
                    NEW k \in {"prompts", "tools", "config"}, kids[f][k] # Absent
             PROVE  kids[f][k].body = kids'[f]["deploy"].body.template.hash[k]
  BY DEF HashStep
<1>1. "deploy" \in Kinds /\ k \in Kinds
  BY DEF Kinds
<1>2. ~Removes /\ kids' # kids
  BY <1>1, RemovedLeaves
<1>3. Sends
  BY <1>2, EveryStepOnChildren
<1>4. /\ rec # None /\ rec.pc = "apply" /\ rec \in Reconciles
      /\ f = rec.flow /\ ApplyOrder[rec.next] = "deploy" /\ kids'[f]["deploy"] = RenderedKid
  BY <1>1, <1>3, SentLeaves
<1>5. rec.next = 5
  BY <1>4 DEF ApplyOrder, Reconciles
<1>6. PICK i \in DOMAIN ApplyOrder : i < 5 /\ ApplyOrder[i] = k
  BY DEF ApplyOrder
<1>7. kids[f][k].body = Child(k, rec.orig.spec, rec.got)
  BY <1>4, <1>5, <1>6 DEF SentContent
<1>8. Child(k, rec.orig.spec, rec.got) = ContentHash(rec.orig.spec, rec.got)[k]
  BY DEF Child, ContentHash
<1>9. kids'[f]["deploy"].body.template.hash = ContentHash(rec.orig.spec, rec.got)
  BY <1>4 DEF RenderedKid, Child, PodTemplate
<1>10. QED
  BY <1>7, <1>8, <1>9

(* applyChildren and computeContentHash (internal/controller/              *)
(* flow_controller.go:231, flow_render.go:216): whichever call fails and   *)
(* wherever the manager dies, a Deployment gets a new content hash only    *)
(* when the ConfigMaps its Pods will mount hold the content hashed.        *)
THEOREM HashesFollow == Spec => HashFollowsContent
<1>1. Init => TypeInv /\ SentContent
  BY InitTypeInv DEF Init, SentContent
<1>2. TypeInv /\ SentContent /\ [Next]_vars => (TypeInv /\ SentContent)'
  BY TypeInvStep, SentStep
<1>3. TypeInv /\ SentContent /\ [Next]_vars => [HashStep]_vars
  BY HashStepHolds
<1>4. [][HashStep]_vars => HashFollowsContent
  BY DEF HashStep, HashFollowsContent
<1>5. QED
  BY <1>1, <1>2, <1>3, <1>4, PTL DEF Spec

-----------------------------------------------------------------------------
(* Ready means backed.  Copies of one generation have one spec.            *)
SpecsAgree ==
  /\ \A f \in Flows :
       cflows[f] # Absent /\ cflows[f].gen = flows[f].gen => cflows[f].spec = flows[f].spec
  /\ rec # None /\ rec.orig.gen = flows[rec.flow].gen => rec.orig.spec = flows[rec.flow].spec

Runs(kid, spec) ==
  kid # Absent => kid.body.replicas = spec.replicas /\ kid.body.template.image = spec.image

(* A reconcile that has applied the Deployment, and would report it Ready, *)
(* has left the one it rendered, unless somebody took that away.           *)
VerdictBacked ==
  rec # None /\ (rec.pc = "observe" \/ (rec.pc = "patch" /\ rec.upd.cond.ready))
    => Runs(kids[rec.flow]["deploy"], rec.orig.spec)

(* Flows other than f keep what they are; f may be created or edited.      *)
Edited(f) ==
  /\ rec' = rec /\ cflows' = cflows /\ kids' = kids
  /\ flows[f] = Absent \/ flows[f] \in FlowObj
  /\ Grown(f)

LEMMA EditsAndOthers ==
  ASSUME CopiesInv, NoDeletion, [Next]_vars, Edit
  PROVE  \/ \E f \in Flows : Edited(f)
         \/ flows' = flows /\ cflows' = cflows /\ rec' = rec
<1>1. CASE \E f \in Flows, s \in FlowSpecs : FlowCreate(f, s) \/ FlowEdit(f, s)
  <2>1. PICK f \in Flows, s \in FlowSpecs : FlowCreate(f, s) \/ FlowEdit(f, s)
    BY <1>1
  <2>2. rec' = rec /\ cflows' = cflows /\ kids' = kids
    BY <2>1 DEF FlowCreate, FlowEdit, caches
  <2>3. Grown(f)
    BY <2>1, CreatedIsGrown, EditedIsGrown
  <2>4. QED
    BY <2>1, <2>2, <2>3, GenerationsAreNatural DEF Edited, CopiesInv
<1>2. QED
  BY <1>1 DEF Edit, NoDeletion, DepWrite, DepDelete, ChildDelete, caches

LEMMA SpecsAgreeStep ==
  ASSUME CopiesInv, SpecsAgree, NoDeletion, [Next]_vars
  PROVE  SpecsAgree'
<1>1. (flows' = flows /\ cflows' = cflows /\ KeepsItsCopy) => SpecsAgree'
  BY DEF SpecsAgree, KeepsItsCopy
<1>2. (UNCHANGED <<flows, cflows, rec>>) => SpecsAgree'
  BY DEF SpecsAgree
<1>3. ASSUME NEW f \in Flows, Edited(f) PROVE SpecsAgree'
  <2>1. CASE flows[f] = Absent
    <3>1. cflows[f] = Absent /\ (rec # None => rec.flow # f /\ rec.flow \in Flows)
      BY <2>1, GenerationsAreNatural DEF CopiesInv, Copies, CopyOK, ReconcileOK
    <3>2. QED
      BY <1>3, <3>1 DEF Edited, Grown, Elsewhere, SpecsAgree
  <2>2. CASE flows[f] # Absent
    <3>1. flows'[f].gen = flows[f].gen + 1 /\ flows[f].gen \in Nat
      BY <1>3, <2>2, GenerationsAreNatural DEF Edited, Grown, CopiesInv, FlowObj
    <3>2. cflows[f] # Absent => cflows[f].gen \in Nat /\ cflows[f].gen <= flows[f].gen
      BY GenerationsAreNatural DEF CopiesInv, Copies, CopyOK, FlowObj
    <3>3. rec # None /\ rec.flow = f =>
            rec.orig.gen \in Nat /\ rec.orig.gen <= cflows[f].gen /\ cflows[f] # Absent
      BY GenerationsAreNatural DEF CopiesInv, Copies, ReconcileOK, FlowObj
    <3>4. rec # None => rec.flow \in Flows
      BY GenerationsAreNatural DEF CopiesInv
    <3>5. cflows[f] # Absent => cflows[f].gen # flows'[f].gen
      BY <3>1, <3>2
    <3>6. rec # None /\ rec.flow = f => rec.orig.gen # flows'[f].gen
      BY <3>1, <3>2, <3>3
    <3>7. QED
      BY <1>3, <3>4, <3>5, <3>6 DEF Edited, Grown, Elsewhere, SpecsAgree
  <2>3. QED
    BY <2>1, <2>2
<1>4. CASE Edit
  BY <1>2, <1>3, <1>4, EditsAndOthers
<1>5. CASE ReportAny \/ Cluster \/ Resync \/ HandleAny
  BY <1>2, <1>5 DEF ReportAny, ReportReplicas, Cluster, Collect, GarbageCollect,
                    ObserveGeneration, Resync, HandleAny, Handle, store, caches
<1>6. CASE Inform
  <2>1. ASSUME NEW f \in Flows, InformFlow(f) PROVE SpecsAgree'
    BY <2>1 DEF InformFlow, store, SpecsAgree, CopiesInv, TypeInv, TypeOK
  <2>2. QED
    BY <1>2, <1>6, <2>1 DEF Inform, InformDeploy, InformDep, store
<1>7. CASE ReadDep \/ ApplyChild \/ ApplyFails \/ ObserveDeploy
  BY <1>1, <1>7, WorkerKeepsItsCopy DEF CopiesInv
<1>8. ASSUME NEW f \in queue, Start(f) PROVE SpecsAgree'
  <2>1. CASE rec' = None
    BY <1>8, <2>1 DEF Start, store, caches, SpecsAgree
  <2>2. CASE rec' # None
    <3> DEFINE r == [flow |-> f, orig |-> cflows[f], got |-> [o \in Deps |-> Unread],
                     pc |-> "resolve", next |-> 1, upd |-> cflows[f].status]
    <3>1. cflows[f] # Absent /\ rec' = Resolved(r) /\ f \in Flows
      BY <1>8, <2>2 DEF Start, CopiesInv, TypeInv, TypeOK
    <3>2. r \in Reconciles /\ r.pc = "resolve" /\ r.flow = f /\ r.orig = cflows[f]
      BY <3>1 DEF CopiesInv, TypeInv, TypeOK, Reconciles, FlowObj, Readings, ApplyOrder
    <3> HIDE DEF r
    <3>3. rec'.flow = f /\ rec'.orig = cflows[f]
      BY <3>1, <3>2, ResolvedGoesOn
    <3>4. QED
      BY <1>8, <3>1, <3>3 DEF Start, store, caches, SpecsAgree
  <2>3. QED
    BY <2>1, <2>2
<1>9. ASSUME At("patch"), flows[rec.flow] # Absent, Patched(rec.flow), rec' = None,
             cflows' = cflows
      PROVE  SpecsAgree'
  BY <1>9 DEF Patched, SpecsAgree, CopiesInv, TypeInv, TypeOK, FlowObj
<1>10. CASE PatchStatus \/ PatchStatusFails
  BY <1>1, <1>9, <1>10 DEF PatchStatus, PatchStatusFails, KeepsItsCopy, caches
<1>11. CASE Crash
  BY <1>11 DEF Crash, store, SpecsAgree
<1>12. QED
  BY <1>2, <1>4, <1>5, <1>6, <1>7, <1>8, <1>10, <1>11 DEF Next, Worker, vars

LEMMA VerdictStep ==
  ASSUME CopiesInv, VerdictBacked, [Next]_vars
  PROVE  VerdictBacked'
<1>1. CASE rec' = None
  BY <1>1 DEF VerdictBacked
<1>2. CASE rec' = rec /\ kids' = kids
  BY <1>2 DEF VerdictBacked
<1>3. CASE Removes
  <2> SUFFICES ASSUME rec # None PROVE VerdictBacked'
    BY <1>3 DEF Removes, VerdictBacked
  <2>1. rec' = rec /\ rec.flow \in Flows /\ "deploy" \in Kinds
    BY <1>3, GenerationsAreNatural DEF CopiesInv, Removes, Kinds
  <2>2. kids'[rec.flow]["deploy"] \in {kids[rec.flow]["deploy"], Absent}
    BY <1>3, <2>1, RemovedLeaves DEF CopiesInv
  <2>3. QED
    BY <2>1, <2>2 DEF VerdictBacked, Runs
<1>4. CASE ApplyChild
  <2>1. Sends
    BY <1>4 DEF ApplyChild, Applied, Sends
  <2>2. /\ rec \in Reconciles /\ rec.pc = "apply" /\ rec.flow \in Flows
        /\ \A f \in Flows, k \in Kinds :
             kids'[f][k] = IF f = rec.flow /\ k = ApplyOrder[rec.next] THEN RenderedKid
                           ELSE kids[f][k]
    BY <2>1, SentLeaves DEF CopiesInv
  <2>3. CASE rec.next # Len(ApplyOrder)
    BY <1>4, <2>2, <2>3 DEF ApplyChild, VerdictBacked, Reconciles
  <2>4. CASE rec.next = Len(ApplyOrder)
    <3>1. rec' = [rec EXCEPT !.pc = "observe"] /\ ApplyOrder[rec.next] = "deploy"
      BY <1>4, <2>4 DEF ApplyChild, ApplyOrder
    <3>2. kids'[rec.flow]["deploy"] = RenderedKid
      BY <2>2, <3>1 DEF Kinds
    <3>3. Runs(RenderedKid, rec.orig.spec)
      BY <3>1 DEF RenderedKid, Child, PodTemplate, Runs
    <3>4. QED
      BY <2>2, <3>1, <3>2, <3>3 DEF VerdictBacked, Reconciles
  <2>5. QED
    BY <2>3, <2>4
<1>5. CASE ApplyFails
  <2>1. rec \in Reconciles /\ rec.upd \in Status
    BY <1>5 DEF ApplyFails, At, CopiesInv, TypeInv, TypeOK, Reconciles
  <2>2. ~RefusedStatus(rec.upd, rec.orig.gen, "Error", ApplyOrder[rec.next]).cond.ready
    BY <2>1 DEF RefusedStatus, NotReady, Status
  <2>3. rec'.pc = "patch" /\ ~rec'.upd.cond.ready
    BY <1>5, <2>1, <2>2 DEF ApplyFails, Reconciles
  <2>4. QED
    BY <2>3 DEF VerdictBacked
<1>6. CASE ObserveDeploy
  <2>1. rec # None /\ rec \in Reconciles /\ rec.pc = "observe" /\ kids' = kids
    BY <1>6 DEF ObserveDeploy, At, store, CopiesInv, TypeInv, TypeOK
  <2>2. rec'.flow = rec.flow /\ rec'.orig = rec.orig
    BY <1>6, <2>1 DEF ObserveDeploy, Reconciles
  <2>3. QED
    BY <2>1, <2>2 DEF VerdictBacked
<1>7. ASSUME NEW r \in Reconciles, r.pc = "resolve", rec' = Resolved(r) PROVE VerdictBacked'
  BY <1>7, ResolvedGoesOn DEF VerdictBacked
<1>8. ASSUME NEW f \in queue, Start(f), cflows[f] # Absent PROVE VerdictBacked'
  <2> DEFINE r == [flow |-> f, orig |-> cflows[f], got |-> [o \in Deps |-> Unread],
                   pc |-> "resolve", next |-> 1, upd |-> cflows[f].status]
  <2>1. r \in Reconciles /\ r.pc = "resolve"
    BY <1>8 DEF CopiesInv, TypeInv, TypeOK, Reconciles, FlowObj, Readings, ApplyOrder
  <2> HIDE DEF r
  <2>2. rec' = Resolved(r)
    BY <1>8 DEF Start, r
  <2>3. QED
    BY <1>7, <2>1, <2>2
<1>9. CASE ReadDep
  <2> DEFINE o == First(ToRead(rec.orig.spec, rec.got))
             r == [rec EXCEPT !.got[o] = cdeps[o]]
  <2>1. rec # None /\ rec \in Reconciles /\ rec.pc = "resolve"
    BY <1>9 DEF CopiesInv, TypeInv, TypeOK, ReadDep, At
  <2>2. [rec.got EXCEPT ![o] = cdeps[o]] \in Readings
    BY <2>1, ReadMore DEF CopiesInv, TypeInv, TypeOK, Reconciles
  <2>3. r \in Reconciles /\ r.pc = "resolve"
    BY <2>1, <2>2 DEF Reconciles
  <2>4. rec' = Resolved(r)
    BY <1>9 DEF ReadDep
  <2> HIDE DEF r
  <2>5. QED
    BY <1>7, <2>3, <2>4
<1>10. CASE Edit \/ ReportAny \/ Cluster \/ Inform \/ Resync \/ HandleAny
  <2>1. rec' = rec
    BY <1>10 DEF Edit, FlowCreate, FlowEdit, FlowDelete, DepWrite, DepDelete, ChildDelete,
                ReportAny, Cluster, Collect, ReportReplicas, GarbageCollect, ObserveGeneration,
                Inform, InformFlow, InformDeploy, InformDep, Resync, HandleAny, Handle
  <2>2. QED
    BY <1>2, <1>3, <1>4, <1>5, <2>1, EveryStepOnChildren DEF Sends
<1>11. QED
  BY <1>1, <1>2, <1>4, <1>5, <1>6, <1>8, <1>9, <1>10
  DEF Next, Worker, Start, PatchStatus, PatchStatusFails, Crash, vars

(* One Flow's part of ReadyMatchesSpec.                                    *)
Claims(f) ==
  /\ flows[f] # Absent /\ flows[f].status.cond # None
  /\ flows[f].status.cond.ready /\ flows[f].status.cond.gen = flows[f].gen

ReadyBacked == \A f \in Flows : Claims(f) => Runs(kids[f]["deploy"], flows[f].spec)

(* A patch lets a Flow claim no more than the reconcile or the status did. *)
LEMMA PatchedClaims ==
  ASSUME CopiesInv, SpecsAgree, VerdictBacked, ReadyBacked,
         At("patch"), flows[rec.flow] # Absent, Patched(rec.flow), kids' = kids
  PROVE  ReadyBacked'
<1>1. PICK f \in Flows : f = rec.flow
  BY PatchedStamps
<1>2. /\ rec # None /\ rec.pc = "patch" /\ rec.orig \in FlowObj /\ rec.upd \in Status
      /\ flows[f] \in FlowObj /\ flows \in [Flows -> FlowObj \cup {Absent}]
  BY <1>1, GenerationsAreNatural DEF CopiesInv, TypeInv, TypeOK, At
<1> DEFINE m == MergedStatus(flows[f].status, rec.orig.status, rec.upd)
<1>3. flows' = [flows EXCEPT ![f].status = m]
  BY <1>1 DEF Patched
<1>4. /\ flows'[f].status = m /\ flows'[f].spec = flows[f].spec /\ flows'[f].gen = flows[f].gen
      /\ \A g \in Flows \ {f} : flows'[g] = flows[g]
  BY <1>2, <1>3 DEF FlowObj
<1>5. m.cond \in {flows[f].status.cond, rec.upd.cond}
  BY DEF MergedStatus
<1>6. rec.upd.cond # None /\ rec.upd.cond.gen = rec.orig.gen
  BY <1>2 DEF CopiesInv, Copies, ReconcileOK
<1> HIDE DEF m
<1>7. ASSUME Claims(f)' PROVE Runs(kids[f]["deploy"], flows[f].spec)
  <2>1. CASE m.cond = flows[f].status.cond
    BY <1>1, <1>4, <1>7, <2>1 DEF Claims, ReadyBacked
  <2>2. CASE m.cond = rec.upd.cond
    <3>1. rec.upd.cond.ready /\ rec.orig.gen = flows[f].gen
      BY <1>4, <1>6, <1>7, <2>2 DEF Claims
    <3>2. Runs(kids[f]["deploy"], rec.orig.spec)
      BY <1>1, <1>2, <3>1 DEF VerdictBacked
    <3>3. rec.orig.spec = flows[f].spec
      BY <1>1, <1>2, <3>1 DEF SpecsAgree
    <3>4. QED
      BY <3>2, <3>3
  <2>3. QED
    BY <1>5, <2>1, <2>2
<1>8. QED
  BY <1>4, <1>7 DEF ReadyBacked, Claims

(* Sending a Deployment cannot betray a claim: the reconcile that sends it *)
(* works on no older generation than the one judged last, which the claim  *)
(* says is the present one.                                                *)
LEMMA SendingKeepsClaims ==
  ASSUME CopiesInv, SpecsAgree, ReadyBacked, Sends, flows' = flows
  PROVE  ReadyBacked'
<1>1. /\ rec # None /\ rec \in Reconciles /\ rec.flow \in Flows
      /\ \A f \in Flows, k \in Kinds :
           kids'[f][k] = IF f = rec.flow /\ k = ApplyOrder[rec.next] THEN RenderedKid
                         ELSE kids[f][k]
  BY SentLeaves DEF CopiesInv
<1>2. ASSUME NEW f \in Flows, Claims(f), f = rec.flow, ApplyOrder[rec.next] = "deploy"
      PROVE  Runs(RenderedKid, flows[f].spec)
  <2>1. flows[f] \in FlowObj /\ rec.orig \in FlowObj /\ cflows[f] \in FlowObj
    BY <1>1, <1>2, GenerationsAreNatural DEF Claims, CopiesInv, Copies, ReconcileOK
  <2>2. flows[f].status.gen = flows[f].gen
    BY <1>2 DEF Claims, CopiesInv, Copies, CopyOK, StampsAgree
  <2>3. /\ flows[f].status.gen <= rec.orig.gen /\ rec.orig.gen <= cflows[f].gen
        /\ cflows[f].gen <= flows[f].gen
    BY <1>1, <1>2, <2>1, RecordsAssumption DEF CopiesInv, Copies, ReconcileOK, CopyOK
  <2>4. rec.orig.gen = flows[f].gen
    BY <2>1, <2>2, <2>3 DEF FlowObj
  <2>5. rec.orig.spec = flows[f].spec
    BY <1>1, <1>2, <2>4 DEF SpecsAgree
  <2>6. QED
    BY <1>2, <2>5 DEF RenderedKid, Child, PodTemplate, Runs
<1>3. "deploy" \in Kinds
  BY DEF Kinds
<1>4. ASSUME NEW f \in Flows, Claims(f)' PROVE Runs(kids'[f]["deploy"], flows[f].spec)
  <2>1. Claims(f)
    BY <1>4 DEF Claims
  <2>2. QED
    BY <1>1, <1>2, <1>3, <2>1 DEF ReadyBacked
<1>5. QED
  BY <1>4 DEF ReadyBacked

LEMMA ReadyStep ==
  ASSUME CopiesInv, SpecsAgree, VerdictBacked, ReadyBacked, NoDeletion, [Next]_vars
  PROVE  ReadyBacked'
<1>1. CASE flows' = flows /\ kids' = kids
  BY <1>1 DEF ReadyBacked, Claims
<1>2. CASE flows' = flows /\ Removes
  <2>1. \A f \in Flows : kids'[f]["deploy"] \in {kids[f]["deploy"], Absent}
    BY <1>2, RemovedLeaves DEF CopiesInv, Kinds
  <2>2. QED
    BY <1>2, <2>1 DEF ReadyBacked, Claims, Runs
<1>3. CASE flows' = flows /\ Sends
  BY <1>3, SendingKeepsClaims
<1>4. ASSUME NEW f \in Flows, Edited(f) PROVE ReadyBacked'
  <2>1. ~Claims(f)'
    <3>1. CASE flows[f] = Absent
      BY <1>4, <3>1 DEF Edited, Grown, Claims, NoStatus
    <3>2. CASE flows[f] # Absent
      <4>1. CopyOK(f) /\ flows[f] \in FlowObj /\ (cflows[f] # Absent => cflows[f] \in FlowObj)
        BY <3>2, GenerationsAreNatural DEF CopiesInv, Copies
      <4>2. flows[f].gen \in Nat /\ flows[f].status.gen \in Nat
        BY <4>1 DEF FlowObj, Status
      <4>3. flows[f].status.cond # None => flows[f].status.cond.gen <= flows[f].gen
        BY <3>2, <4>1, <4>2 DEF CopyOK, StampsAgree, FlowObj
      <4>4. flows'[f].gen = flows[f].gen + 1 /\ flows'[f].status = flows[f].status
        BY <1>4, <3>2 DEF Edited, Grown
      <4>5. flows[f].status.cond # None => flows[f].status.cond.gen \in Nat
        BY <3>2, <4>1, <4>2 DEF CopyOK, StampsAgree
      <4>6. QED
        BY <4>2, <4>3, <4>4, <4>5 DEF Claims
    <3>3. QED
      BY <3>1, <3>2
  <2>2. QED
    BY <1>4, <2>1 DEF Edited, Grown, Elsewhere, ReadyBacked, Claims
<1>5. CASE PatchStatus \/ PatchStatusFails
  BY <1>1, <1>5, PatchedClaims DEF PatchStatus, PatchStatusFails
<1>6. CASE Edit
  BY <1>1, <1>2, <1>3, <1>4, <1>6, EditsAndOthers, EveryStepOnChildren
<1>7. CASE ReportAny \/ Cluster \/ Inform \/ Resync \/ HandleAny \/ Crash \/ ApplyFails
             \/ (\E f \in queue : Start(f)) \/ ReadDep \/ ApplyChild \/ ObserveDeploy
             \/ UNCHANGED vars
  <2>1. flows' = flows
    BY <1>7 DEF ReportAny, ReportReplicas, Cluster, Collect, GarbageCollect, ObserveGeneration,
                Inform, InformFlow, InformDeploy, InformDep, Resync, HandleAny, Handle, Crash,
                ApplyFails, Start, ReadDep, ApplyChild, ObserveDeploy, store, vars
  <2>2. QED
    BY <1>1, <1>2, <1>3, <2>1, EveryStepOnChildren
<1>8. QED
  BY <1>5, <1>6, <1>7 DEF Next, Worker

(* derivePhase and setReady (internal/controller/flow_controller.go): a    *)
(* status that says Ready of the present generation is not about an older  *)
(* Deployment, although spec, Deployment and status were read and written  *)
(* in five calls over two caches, any of which may fail.                   *)
THEOREM ReadyIsBacked == NoDeletion => (Spec => []ReadyMatchesSpec)
<1> DEFINE Inv == SpecsAgree /\ VerdictBacked /\ ReadyBacked
<1>1. SUFFICES ASSUME NoDeletion PROVE Spec => []ReadyMatchesSpec
  OBVIOUS
<1>2. Spec => []CopiesInv
  BY <1>1, CopiesHold DEF CopiesInv
<1>3. Init => Inv
  <2> SUFFICES ASSUME Init PROVE Inv
    OBVIOUS
  <2>1. rec = None /\ cflows = flows
    BY DEF Init
  <2>2. \A f \in Flows : flows[f] # Absent => flows[f].status.cond = None
    BY InputsAssumption DEF Init, NoStatus
  <2>3. QED
    BY <2>1, <2>2 DEF SpecsAgree, VerdictBacked, ReadyBacked, Claims
<1>4. CopiesInv /\ Inv /\ [Next]_vars => Inv'
  BY <1>1, SpecsAgreeStep, VerdictStep, ReadyStep
<1>5. Inv => ReadyMatchesSpec
  BY DEF ReadyBacked, Claims, Runs, ReadyMatchesSpec
<1> HIDE DEF Inv
<1>6. QED
  BY <1>2, <1>3, <1>4, <1>5, PTL DEF Spec
=============================================================================
