--------------------------- MODULE FlowRolloutProofs ---------------------------
(***************************************************************************)
(* Proofs about FlowRollout, for any number of Flows, dependencies and     *)
(* Pods and any bound on edits, faults and restarts: its types, that the   *)
(* guarantees of FlowController hold with Pods and their reports next to   *)
(* it, and that no Pod keeps stale content as long as nothing comes back.  *)
(***************************************************************************)
EXTENDS FlowRolloutTracking, FlowControllerProofs, AgingProofs

Templates == [image : Images, port : Ports, envFrom : Secrets \cup {None}, hash : Hashes]

Pod == [template : Templates, loaded : Hashes \cup {None}]

(* Pods have the type PodTypeOK says, and each Deployment has finitely     *)
(* many of them, so that their number can be reported.                     *)
PodsOK ==
  /\ pods \in [Flows -> SUBSET Pod]
  /\ \A f \in Flows : IsFiniteSet(pods[f])

RolloutTypeInv == TypeInv /\ PodsOK

-----------------------------------------------------------------------------
(* When the manager starts.                                                *)

LEMMA StartsRendered ==
  ASSUME NEW start \in StartFlows, NEW d \in StartDeps, NEW f \in Flows
  PROVE  LET spec == start[f].spec
         IN  /\ start[f] = [uid |-> 0, spec |-> spec, gen |-> 1, status |-> NoStatus]
             /\ spec \in FlowSpecs /\ spec \in FlowSpec /\ d \in Stores /\ d \in Readings
             /\ Outcome(spec, d).reason = "Rendered" /\ ToRead(spec, d) = {}
             /\ spec.replicas \in Nat
             /\ ContentHash(spec, d) \in Hashes
             /\ \A k \in Kinds : Child(k, spec, d) \in ChildBody(k)
             /\ PodTemplate(spec, d) \in Templates
<1> DEFINE spec == start[f].spec
<1>1. start[f] # Absent /\ Outcome(spec, d).reason = "Rendered"
  BY RolloutAssumption
<1>2. start[f] \in [uid : {0}, spec : FlowSpecs, gen : {1}, status : {NoStatus}]
  BY <1>1, InputsAssumption
<1>3. spec \in FlowSpecs /\ spec \in FlowSpec /\ d \in Stores /\ d \in Readings
  BY <1>2, InputsAssumption, StoresAreReadings
<1>4. ToRead(spec, d) = {}
  <2>1. \A o \in Deps : d[o] # Unread
    BY <1>3, NamesAssumption DEF Stores
  <2>2. \A g \in Gets(spec, d) : g[2] \in Deps
    BY <1>3, GetsType
  <2>3. QED
    BY <2>1, <2>2 DEF ToRead
<1>5. ContentHash(spec, d) \in Hashes /\ \A k \in Kinds : Child(k, spec, d) \in ChildBody(k)
  BY <1>1, <1>3, <1>4, RenderingType
<1>6. spec.replicas \in Nat /\ spec.port \in Ports /\ spec.image \in Images
  BY <1>1, <1>3, RenderedMeans DEF FlowSpec
<1>7. PodTemplate(spec, d) \in Templates
  BY <1>3, <1>5, <1>6, GetsType DEF PodTemplate, Templates
<1>8. QED
  BY <1>1, <1>2, <1>3, <1>4, <1>5, <1>6, <1>7

(* Everything is up.                                                       *)
IsUp(start, f) ==
  LET spec == start[f].spec
      deploy == [owner |-> 0, body |-> Child("deploy", spec, deps)]
  IN  /\ kids[f] = [k \in Kinds |-> [owner |-> 0, body |-> Child(k, spec, deps)]]
      /\ report[f] = ReportOf(UpPods(spec, deps))
      /\ cdeploy[f] = [kid |-> deploy, status |-> ReportOf(UpPods(spec, deps))]
      /\ flows[f] = [uid |-> 0, spec |-> spec, gen |-> 1,
                     status |-> FinalStatus(NoStatus, start[f], deps, cdeploy[f])]
      /\ pods[f] = UpPods(spec, deps)

LEMMA InitIsUp ==
  ASSUME RInit
  PROVE  \E start \in StartFlows :
           /\ deps \in StartDeps
           /\ \A f \in Flows : IsUp(start, f)
           /\ kids = [f \in Flows |-> kids[f]] /\ report = [f \in Flows |-> report[f]]
           /\ cdeploy = [f \in Flows |-> cdeploy[f]] /\ flows = [f \in Flows |-> flows[f]]
           /\ pods = [f \in Flows |-> pods[f]]
<1>1. PICK start \in StartFlows :
         LET specs == [f \in Flows |-> start[f].spec]
             kid(f, k) == [owner |-> 0, body |-> Child(k, specs[f], deps)]
             dep(f) == [kid |-> kid(f, "deploy"), status |-> ReportOf(UpPods(specs[f], deps))]
         IN  /\ kids = [f \in Flows |-> [k \in Kinds |-> kid(f, k)]]
             /\ report = [f \in Flows |-> dep(f).status]
             /\ cdeploy = [f \in Flows |-> dep(f)]
             /\ flows = [f \in Flows |-> [start[f] EXCEPT
                           !.status = FinalStatus(NoStatus, start[f], deps, dep(f))]]
             /\ pods = [f \in Flows |-> UpPods(specs[f], deps)]
  BY DEF RInit
<1>2. deps \in StartDeps
  BY DEF RInit
<1>3. ASSUME NEW f \in Flows PROVE IsUp(start, f)
  <2>1. cdeploy[f] = [kid |-> [owner |-> 0, body |-> Child("deploy", start[f].spec, deps)],
                      status |-> ReportOf(UpPods(start[f].spec, deps))]
    BY <1>1
  <2>2. start[f] = [uid |-> 0, spec |-> start[f].spec, gen |-> 1, status |-> NoStatus]
    BY <1>2, StartsRendered
  <2>3. flows[f] = [start[f] EXCEPT !.status = FinalStatus(NoStatus, start[f], deps, cdeploy[f])]
    BY <1>1
  <2>4. flows[f] = [uid |-> 0, spec |-> start[f].spec, gen |-> 1,
                    status |-> FinalStatus(NoStatus, start[f], deps, cdeploy[f])]
    BY <2>2, <2>3
  <2>5. kids[f] = [k \in Kinds |-> [owner |-> 0, body |-> Child(k, start[f].spec, deps)]]
    BY <1>1
  <2>6. report[f] = ReportOf(UpPods(start[f].spec, deps))
    BY <1>1
  <2>7. pods[f] = UpPods(start[f].spec, deps)
    BY <1>1
  <2>8. QED
    BY <2>1, <2>4, <2>5, <2>6, <2>7 DEF IsUp
<1>4. /\ kids = [f \in Flows |-> kids[f]] /\ report = [f \in Flows |-> report[f]]
      /\ cdeploy = [f \in Flows |-> cdeploy[f]] /\ flows = [f \in Flows |-> flows[f]]
      /\ pods = [f \in Flows |-> pods[f]]
  BY <1>1
<1>5. QED
  BY <1>2, <1>3, <1>4

LEMMA ReportType ==
  ASSUME NEW P, IsFiniteSet(P)
  PROVE  ReportOf(P) \in Reports
<1>1. Live(P) \subseteq P /\ P \ Live(P) \subseteq P
  BY DEF Live
<1>2. IsFiniteSet(Live(P)) /\ IsFiniteSet(P \ Live(P))
  BY <1>1, FS_Subset
<1>3. Cardinality(Live(P)) \in Nat /\ Cardinality(P \ Live(P)) \in Nat
  BY <1>2, FS_CardinalityType
<1>4. QED
  BY <1>3 DEF ReportOf, Reports

LEMMA UpIsTyped ==
  ASSUME NEW start \in StartFlows, deps \in StartDeps, NEW f \in Flows, IsUp(start, f)
  PROVE  /\ flows[f] \in FlowObj /\ kids[f] \in Children /\ report[f] \in Reports
         /\ cdeploy[f] \in [kid : KidObj("deploy"), status : Reports]
         /\ pods[f] \in SUBSET Pod /\ IsFiniteSet(pods[f])
<1> DEFINE spec == start[f].spec
           up == ReportOf(UpPods(spec, deps))
           hash == ContentHash(spec, deps)
           kid(k) == [owner |-> 0, body |-> Child(k, spec, deps)]
<1>1. /\ start[f] = [uid |-> 0, spec |-> spec, gen |-> 1, status |-> NoStatus]
      /\ spec \in FlowSpecs /\ spec \in FlowSpec
      /\ Outcome(spec, deps).reason = "Rendered" /\ hash \in Hashes
      /\ \A k \in Kinds : Child(k, spec, deps) \in ChildBody(k)
      /\ PodTemplate(spec, deps) \in Templates
  BY StartsRendered
<1>2. /\ UpPods(spec, deps) \in SUBSET Pod /\ IsFiniteSet(UpPods(spec, deps))
      /\ up \in Reports
  <2>1. PICK p : p = [template |-> PodTemplate(spec, deps),
                      loaded |-> IF Accepted(hash) THEN hash ELSE None]
    OBVIOUS
  <2>2. p \in Pod
    BY <1>1, <2>1 DEF Pod
  <2>3. UpPods(spec, deps) \in {{}, {p}}
    BY <2>1 DEF UpPods
  <2>4. PICK P : P = UpPods(spec, deps)
    OBVIOUS
  <2>5. P \in SUBSET Pod /\ IsFiniteSet(P)
    BY <2>2, <2>3, <2>4, FS_EmptySet, FS_Singleton
  <2>6. ReportOf(P) \in Reports
    BY <2>5, ReportType
  <2>7. QED
    BY <2>4, <2>5, <2>6
<1>3. \A k \in Kinds : kid(k) \in KidObj(k)
  BY <1>1 DEF KidObj
<1>4. kids[f] \in Children
  <2>1. kids[f] = [k \in Kinds |-> kid(k)]
    BY DEF IsUp
  <2> HIDE DEF kid
  <2>2. QED
    BY <1>3, <2>1 DEF Children, Kid, Kinds
<1>5. cdeploy[f] = [kid |-> kid("deploy"), status |-> up]
  BY DEF IsUp
<1>6. cdeploy[f] \in [kid : KidObj("deploy"), status : Reports]
  BY <1>2, <1>3, <1>5 DEF Kinds
<1> DEFINE st == FinalStatus(NoStatus, start[f], deps, cdeploy[f])
<1>7. st \in Status
  <2>1. st = ObservedStatus(NoStatus, 1, spec, hash, cdeploy[f])
    BY <1>1 DEF FinalStatus
  <2>2. cdeploy[f] # Absent => cdeploy[f].status \in [observed : BOOLEAN, avail : Nat, unavail : Nat]
    BY <1>6 DEF Reports
  <2> HIDE DEF st, hash, spec
  <2>3. QED
    BY <1>1, <2>1, <2>2, NoStatusType, ObservedStatusType
<1>8. flows[f] = [uid |-> 0, spec |-> spec, gen |-> 1, status |-> st]
  BY DEF IsUp
<1> HIDE DEF st
<1>9. flows[f] \in FlowObj
  BY <1>1, <1>7, <1>8 DEF FlowObj
<1>12. pods[f] \in SUBSET Pod /\ IsFiniteSet(pods[f])
  BY <1>2 DEF IsUp
<1>13. report[f] \in Reports
  BY <1>2 DEF IsUp
<1>14. QED
  BY <1>4, <1>6, <1>9, <1>12, <1>13

LEMMA InitRolloutTypeInv == RInit => RolloutTypeInv
<1> SUFFICES ASSUME RInit PROVE RolloutTypeInv
  OBVIOUS
<1>1. PICK start \in StartFlows :
         /\ deps \in StartDeps
         /\ \A f \in Flows : IsUp(start, f)
         /\ kids = [f \in Flows |-> kids[f]] /\ report = [f \in Flows |-> report[f]]
         /\ cdeploy = [f \in Flows |-> cdeploy[f]] /\ flows = [f \in Flows |-> flows[f]]
         /\ pods = [f \in Flows |-> pods[f]]
  BY InitIsUp
<1>2. ASSUME NEW f \in Flows
      PROVE  /\ flows[f] \in FlowObj /\ kids[f] \in Children /\ report[f] \in Reports
             /\ cdeploy[f] \in [kid : KidObj("deploy"), status : Reports]
             /\ pods[f] \in SUBSET Pod /\ IsFiniteSet(pods[f])
  BY <1>1, UpIsTyped
<1>3. flows \in [Flows -> FlowObj \cup {Absent}] /\ cflows = flows
  BY <1>1, <1>2 DEF RInit
<1>4. kids \in [Flows -> Children] /\ report \in [Flows -> Reports]
  BY <1>1, <1>2
<1>5. cdeploy \in [Flows -> [kid : KidObj("deploy"), status : Reports] \cup {Absent}]
  BY <1>1, <1>2
<1>6. deps \in Stores /\ cdeps = deps
  BY <1>1, InputsAssumption DEF RInit
<1>7. used \in [{"edits", "applyFaults", "patchFaults", "crashes", "reports", "resyncs"} -> Nat]
  BY DEF RInit, NothingUsed
<1>8. notes = {} /\ queue = {} /\ rec = None
  BY DEF RInit
<1>9. TypeInv
  BY <1>3, <1>4, <1>5, <1>6, <1>7, <1>8 DEF TypeInv, TypeOK, RenderableOK
<1>10. PodsOK
  BY <1>1, <1>2 DEF PodsOK
<1>11. QED
  BY <1>9, <1>10 DEF RolloutTypeInv

LEMMA InitRolloutTracks == RInit => Tracking
<1> SUFFICES ASSUME RInit PROVE Tracking
  OBVIOUS
<1>1. PICK start \in StartFlows : deps \in StartDeps /\ \A f \in Flows : IsUp(start, f)
  BY InitIsUp
<1>2. cflows = flows /\ cdeps = deps /\ rec = None /\ used.edits = 0
  BY DEF RInit, NothingUsed
<1>3. ASSUME NEW f \in Flows
      PROVE  /\ flows[f].uid = 0 /\ flows[f].gen = 1
             /\ EndsWith(f, flows[f].status)
  <2> DEFINE spec == start[f].spec
             hash == ContentHash(spec, deps)
  <2>1. /\ start[f] = [uid |-> 0, spec |-> spec, gen |-> 1, status |-> NoStatus]
        /\ Outcome(spec, deps).reason = "Rendered"
    BY <1>1, StartsRendered
  <2>2. /\ flows[f] = [uid |-> 0, spec |-> spec, gen |-> 1,
                       status |-> FinalStatus(NoStatus, start[f], deps, cdeploy[f])]
        /\ cdeploy[f] = [kid |-> [owner |-> 0, body |-> Child("deploy", spec, deps)],
                         status |-> ReportOf(UpPods(spec, deps))]
        /\ kids[f] = [k \in Kinds |-> [owner |-> 0, body |-> Child(k, spec, deps)]]
    BY <1>1 DEF IsUp
  <2> DEFINE st == FinalStatus(NoStatus, start[f], deps, cdeploy[f])
  <2>3. st = ObservedStatus(NoStatus, 1, spec, hash, cdeploy[f])
    BY <2>1 DEF FinalStatus
  <2>4. ObservedStatus(st, 1, spec, hash, cdeploy[f]) = st
    <3> HIDE DEF spec, hash
    <3>1. CASE cdeploy[f] = Absent
      BY <2>3, <3>1 DEF ObservedStatus, NoStatus
    <3>2. CASE cdeploy[f] # Absent
      BY <2>3, <3>2 DEF ObservedStatus
    <3>3. QED
      BY <3>1, <3>2
  <2> HIDE DEF st
  <2>5. flows[f] = [uid |-> 0, spec |-> spec, gen |-> 1, status |-> st]
    BY <2>2 DEF st
  <2>6. FinalStatus(st, flows[f], deps, cdeploy[f]) = st
    BY <2>1, <2>4, <2>5 DEF FinalStatus
  <2>7. AllSentOK(f)
    BY <1>2, <2>2, <2>5 DEF AllSentOK, SentOK, RenderedFor
  <2>8. EndsWith(f, st)
    BY <1>2, <2>5, <2>6, <2>7 DEF EndsWith
  <2>9. QED
    BY <2>5, <2>8
<1>4. \A f \in Flows : InProgressOK(f) /\ AtRestOK(f)
  BY <1>2, <1>3 DEF InProgressOK, AtRestOK, Reconciling
<1>5. VersionsOK
  <2>1. ASSUME NEW f \in Flows PROVE flows[f].uid <= used.edits /\ flows[f].gen <= flows[f].gen
    BY <1>2, <1>3
  <2>2. QED
    BY <1>2, <2>1 DEF VersionsOK
<1>6. ReadingOK
  BY <1>2 DEF ReadingOK
<1>7. QED
  BY <1>4, <1>5, <1>6 DEF Tracking

-----------------------------------------------------------------------------
(* The Pods' steps.  A report of their number is one the controller may    *)
(* get from any Deployment: nothing it relies on depends on it.            *)
LEMMA SyncReportKeepsTypes ==
  ASSUME RolloutTypeInv, NEW f \in Flows, SyncReport(f)
  PROVE  TypeInv'
<1>1. ReportOf(pods[f]) \in Reports
  BY ReportType DEF RolloutTypeInv, PodsOK
<1>2. report' \in [Flows -> Reports]
  BY <1>1 DEF SyncReport, RolloutTypeInv, TypeInv, TypeOK
<1>3. QED
  BY <1>2 DEF SyncReport, RolloutTypeInv, TypeInv, TypeOK, RenderableOK, caches

LEMMA UntouchedController ==
  ASSUME Tracking, UNCHANGED <<flows, deps, kids, cflows, cdeps, cdeploy, notes, queue, rec, used>>
  PROVE  Tracking'
<1>1. VersionsOK' /\ ReadingOK'
  BY DEF Tracking, VersionsOK, ReadingOK
<1>2. ASSUME NEW f \in Flows PROVE Untouched(f) /\ InProgressOK(f) /\ AtRestOK(f)
  BY DEF Tracking, Untouched, Awake, SentOK, RenderedFor
<1>3. ASSUME NEW f \in Flows PROVE InProgressOK(f)' /\ AtRestOK(f)'
  BY <1>2, UntouchedInProgress, UntouchedAtRest DEF Reconciling
<1>4. QED
  BY <1>1, <1>3 DEF Tracking

LEMMA TrackingStep == TypeInv /\ Tracking /\ [Next]_vars => Tracking'
BY VersionsStep, ReadingStep, EachFlowStep DEF Tracking, EachFlow

LEMMA PodsType ==
  ASSUME RolloutTypeInv, NEW f \in Flows, NEW P, P \in SUBSET Pod, IsFiniteSet(P),
         pods' = [pods EXCEPT ![f] = P]
  PROVE  PodsOK'
BY DEF RolloutTypeInv, PodsOK

(* What a container loads.                                                 *)
LEMMA ContentsType ==
  ASSUME TypeInv, NEW f \in Flows, NEW template \in Templates, CanLoad(f, template)
  PROVE  Contents(f, template) \in Hashes
<1>1. kids[f] \in Children /\ deps \in Stores
  BY DEF TypeInv, TypeOK
<1>2. /\ kids[f]["prompts"].body \in [Prompts -> Data \cup {Absent}]
      /\ kids[f]["tools"].body \in [Tools -> Data \cup {Absent}]
      /\ kids[f]["config"].body \in [model : Data \cup {None}, plugin : Data \cup {None}]
  BY <1>1 DEF CanLoad, Children, Kid, KidObj, ChildBody
<1>3. template.envFrom \in Secrets \cup {None}
  BY DEF Templates
<1>4. template.envFrom # None => deps[template.envFrom].data \in Data
  BY <1>1, <1>3 DEF CanLoad, Stores, DepObj, Deps
<1>5. QED
  BY <1>2, <1>3, <1>4 DEF Contents, Hashes

LEMMA PodStepsType ==
  ASSUME RolloutTypeInv, PodStep \/ PodRestartAny
  PROVE  RolloutTypeInv'
<1>1. TypeInv /\ kids \in [Flows -> Children]
  BY DEF RolloutTypeInv, TypeInv, TypeOK
<1>2. \A f \in Flows : pods[f] \in SUBSET Pod /\ IsFiniteSet(pods[f])
  BY DEF RolloutTypeInv, PodsOK
<1>3. ASSUME UNCHANGED vars PROVE TypeInv'
  BY <1>1, <1>3, TypeInvStep
<1>4. ASSUME NEW f \in Flows, PodCreate(f) PROVE RolloutTypeInv'
  <2> DEFINE p == [template |-> TemplateOf(f), loaded |-> None]
  <2>1. kids[f]["deploy"] \in KidObj("deploy")
    <3>1. kids[f]["deploy"] # Absent
      BY <1>4 DEF PodCreate, Wanted
    <3>2. QED
      BY <1>1, <3>1 DEF Children, Kid
  <2>2. TemplateOf(f) \in Templates
    BY <2>1 DEF TemplateOf, KidObj, ChildBody, Templates
  <2>3. p \in Pod
    BY <2>2 DEF Pod
  <2> HIDE DEF p
  <2>4. IsFiniteSet(pods[f] \cup {p})
    BY <1>2, FS_AddElement
  <2>5. pods' = [pods EXCEPT ![f] = pods[f] \cup {p}]
    BY <1>4 DEF PodCreate, p
  <2>6. QED
    BY <1>2, <1>3, <1>4, <2>3, <2>4, <2>5, PodsType DEF PodCreate, RolloutTypeInv
<1>5. ASSUME NEW f \in Flows, NEW p \in pods[f], PodStart(f, p) \/ PodExit(f, p) \/ PodRestart(f, p)
      PROVE  RolloutTypeInv'
  <2>1. p \in Pod /\ p.template \in Templates
    BY <1>2 DEF Pod
  <2>2. PICK l \in Hashes \cup {None} :
           pods' = [pods EXCEPT ![f] = (@ \ {p}) \cup {[p EXCEPT !.loaded = l]}]
    BY <1>1, <1>5, <2>1, ContentsType DEF PodStart, PodExit, PodRestart
  <2> DEFINE q == [p EXCEPT !.loaded = l]
  <2>3. q \in Pod
    BY <2>1 DEF Pod
  <2>4. pods' = [pods EXCEPT ![f] = (pods[f] \ {p}) \cup {q}]
    BY <2>2
  <2> HIDE DEF q
  <2>5. IsFiniteSet(pods[f] \ {p})
    BY <1>2, FS_RemoveElement
  <2>6. IsFiniteSet((pods[f] \ {p}) \cup {q})
    BY <2>5, FS_AddElement
  <2>7. (pods[f] \ {p}) \cup {q} \in SUBSET Pod
    BY <1>2, <2>3
  <2>8. PodsOK'
    BY <2>4, <2>6, <2>7, PodsType
  <2>9. QED
    BY <1>3, <1>5, <2>8 DEF PodStart, PodExit, PodRestart, RolloutTypeInv
<1>6. ASSUME NEW f \in Flows, NEW p \in pods[f], PodStop(f, p) PROVE RolloutTypeInv'
  <2>1. IsFiniteSet(pods[f] \ {p})
    BY <1>2, FS_RemoveElement
  <2>2. pods' = [pods EXCEPT ![f] = pods[f] \ {p}]
    BY <1>6 DEF PodStop
  <2>3. PodsOK'
    BY <1>2, <2>1, <2>2, PodsType
  <2>4. QED
    BY <1>3, <1>6, <2>3 DEF PodStop, RolloutTypeInv
<1>7. ASSUME NEW f \in Flows, SyncReport(f) PROVE RolloutTypeInv'
  BY <1>7, SyncReportKeepsTypes DEF SyncReport, RolloutTypeInv, PodsOK
<1>8. QED
  BY <1>4, <1>5, <1>6, <1>7 DEF PodStep, PodRestartAny

LEMMA ControlStepIsNext == ControlStep => Next /\ UNCHANGED <<pods, restarts>>
BY DEF ControlStep, Next, Cluster

LEMMA RolloutStep ==
  ASSUME RolloutTypeInv, [RNext]_rvars
  PROVE  /\ RolloutTypeInv'
         /\ Tracking => Tracking'
<1>1. CASE ControlStep
  BY <1>1, ControlStepIsNext, TypeInvStep, TrackingStep DEF RolloutTypeInv, PodsOK
<1>2. CASE PodStep \/ PodRestartAny
  <2>1. UNCHANGED <<flows, deps, kids, cflows, cdeps, cdeploy, notes, queue, rec, used>>
    BY <1>2 DEF PodStep, PodRestartAny, PodCreate, PodStart, PodExit, PodStop, PodRestart, SyncReport,
                vars, caches
  <2>2. QED
    BY <1>2, <2>1, PodStepsType, UntouchedController
<1>3. CASE UNCHANGED rvars
  BY <1>3, TypeInvStep, TrackingStep DEF rvars, RolloutTypeInv, PodsOK
<1>4. QED
  BY <1>1, <1>2, <1>3 DEF RNext

(* Type correctness, with any number of Pods: a Pod has a template the     *)
(* controller rendered, and what its container loaded, if it loaded        *)
(* anything, is content of the shape the template's hash was taken of.     *)
THEOREM PodTypes == RSpec => []PodTypeOK
<1>1. RInit => RolloutTypeInv
  BY InitRolloutTypeInv
<1>2. RolloutTypeInv /\ [RNext]_rvars => RolloutTypeInv'
  BY RolloutStep
<1>3. RolloutTypeInv => PodTypeOK
  <2> SUFFICES ASSUME RolloutTypeInv, NEW f \in Flows, NEW p \in pods[f]
               PROVE  p.template \in Templates /\ p.loaded \in Hashes \cup {None}
    BY DEF PodTypeOK, Templates
  <2>1. p \in Pod
    BY DEF RolloutTypeInv, PodsOK
  <2>2. QED
    BY <2>1 DEF Pod
<1>4. QED
  BY <1>1, <1>2, <1>3, PTL DEF RSpec

(* With Pods and their reports next to it the controller loses no wakeup   *)
(* either: at rest, a Flow's children are those rendered from the caches.  *)
THEOREM ChildrenSettleWithPods == RSpec => []SettledChildren
<1>1. RInit => RolloutTypeInv /\ Tracking
  BY InitRolloutTypeInv, InitRolloutTracks
<1>2. RolloutTypeInv /\ Tracking /\ [RNext]_rvars => RolloutTypeInv' /\ Tracking'
  BY RolloutStep
<1>3. Tracking => SettledChildren
  BY TrackingSettles
<1>4. QED
  BY <1>1, <1>2, <1>3, PTL DEF RSpec
-----------------------------------------------------------------------------
(* What the invariant says of one Flow: what its reconcile goes by is no   *)
(* newer than the caches, and they no newer than the API server; all lead  *)
(* to the same objects.                                                    *)
Behind(f) ==
  LET spec == flows[f].spec
  IN  /\ spec \in FlowSpec /\ Whole(spec)
      /\ deps \in Stores /\ cdeps \in Stores /\ Prospect(f) \in Stores
      /\ \A o \in Deps : UpTo(o, Prospect(f)[o], cdeps[o])
      /\ \A o \in Deps : UpTo(o, cdeps[o], deps[o])
      /\ PluginOf(spec, Prospect(f)) = PluginOf(spec, deps)
      /\ Sources(spec, Prospect(f)) = Sources(spec, deps)
      /\ PluginOf(spec, cdeps) = PluginOf(spec, deps)
      /\ \A o \in Sources(spec, deps) : o \in Deps /\ Prospect(f)[o] # Absent /\ cdeps[o] # Absent

LEMMA ProspectType ==
  ASSUME NEW f \in Flows
  PROVE  (TypeInv => Prospect(f) \in Stores) /\ (TypeInv' => Prospect(f)' \in Stores)
<1>1. ASSUME NEW got, NEW c \in Stores, NEW read \in BOOLEAN, read => got \in Readings
      PROVE  [o \in Deps |-> IF read /\ got[o] # Unread THEN got[o] ELSE c[o]] \in Stores
  BY <1>1 DEF Stores, Readings
<1>2. ASSUME TypeInv PROVE Prospect(f) \in Stores
  <2>1. cdeps \in Stores /\ (Reconciling(f) => rec.got \in Readings)
    BY <1>2 DEF TypeInv, TypeOK, Reconciling, Reconciles
  <2>2. QED
    BY <1>1, <2>1 DEF Prospect, Reconciling
<1>3. ASSUME TypeInv' PROVE Prospect(f)' \in Stores
  <2>1. cdeps' \in Stores /\ (Reconciling(f)' => rec'.got \in Readings)
    BY <1>3 DEF TypeInv, TypeOK, Reconciling, Reconciles
  <2>2. QED
    BY <1>1, <2>1 DEF Prospect, Reconciling
<1>4. QED
  BY <1>2, <1>3

LEMMA FlowsAreBehind ==
  ASSUME RolloutTypeInv, RolloutTracking, NEW f \in Flows
  PROVE  Behind(f)
<1> DEFINE spec == flows[f].spec
<1>1. CacheOK(f) /\ ReadsOK(f) /\ \A o \in Deps : UpTo(o, cdeps[o], deps[o])
  BY DEF RolloutTracking
<1>2. deps \in Stores /\ cdeps \in Stores /\ Prospect(f) \in Stores
  BY ProspectType DEF RolloutTypeInv, TypeInv, TypeOK
<1>3. spec \in FlowSpec /\ Whole(spec)
  BY <1>1, SpecsAreTyped DEF CacheOK, Whole, RolloutTypeInv, TypeInv, TypeOK
<1>4. \A o \in Deps : UpTo(o, Prospect(f)[o], cdeps[o])
  BY <1>1, UpToIsReflexive DEF Prospect, ReadsOK
<1>5. \A o \in Deps : UpTo(o, Prospect(f)[o], deps[o])
  BY <1>1, <1>4, UpToIsTransitive
<1>6. \A o \in Sources(spec, deps) : o \in Deps /\ Prospect(f)[o] # Absent /\ cdeps[o] # Absent
  BY <1>1, <1>2, <1>3, SourcesType DEF CacheOK
<1>7. spec.model.kind = "ref" => spec.model.name \in Sources(spec, deps)
  BY DEF Sources
<1>8. /\ PluginOf(spec, Prospect(f)) = PluginOf(spec, deps)
      /\ Sources(spec, Prospect(f)) = Sources(spec, deps)
  BY <1>2, <1>3, <1>5, <1>6, <1>7, SamePlugin
<1>9. PluginOf(spec, cdeps) = PluginOf(spec, deps)
  BY <1>1, <1>2, <1>3, <1>6, <1>7, SamePlugin
<1>10. QED
  BY <1>1, <1>2, <1>3, <1>4, <1>6, <1>8, <1>9 DEF Behind

(* A step takes f onward: nothing it goes by gets older, and a ConfigMap   *)
(* that changes gets the content that is due.                              *)
Onward(f) ==
  /\ \A o \in Deps : UpTo(o, cdeps[o], cdeps'[o]) /\ UpTo(o, cdeps'[o], deps'[o])
  /\ \A o \in Deps : UpTo(o, Prospect(f)[o], Prospect(f)'[o])
  /\ cflows'[f] # Absent /\ SameContent(flows'[f].spec, cflows'[f].spec)
  /\ \A k \in Mounted : \/ kids'[f][k] \in {kids[f][k], Absent}
                        \/ kids'[f][k].body = Child(k, flows'[f].spec, Prospect(f)')

(* The order in which f's contents are compared stays.                     *)
LEMMA SameOrder ==
  ASSUME RolloutTypeInv, RolloutTypeInv', RolloutTracking, NothingComesBack, NEW f \in Flows
  PROVE  /\ flows'[f].spec.model.name = flows[f].spec.model.name
         /\ PluginOf(flows'[f].spec, deps') = PluginOf(flows[f].spec, deps)
         /\ Sources(flows'[f].spec, deps') = Sources(flows[f].spec, deps)
         /\ flows'[f].spec \in FlowSpec /\ Whole(flows'[f].spec)
         /\ flows'[f] # Absent
<1>1. PICK s : s = flows[f].spec
  OBVIOUS
<1>2. PICK t : t = flows'[f].spec
  OBVIOUS
<1>3. s \in FlowSpec /\ Whole(s) /\ \A o \in Sources(s, deps) : o \in Deps /\ cdeps[o] # Absent
  BY <1>1, FlowsAreBehind DEF Behind
<1>4. SameContent(s, t) /\ flows'[f] # Absent
  BY <1>1, <1>2 DEF NothingComesBack
<1>5. t \in FlowSpec
  BY <1>2, <1>4, SpecsAreTyped DEF RolloutTypeInv, TypeInv, TypeOK
<1>6. /\ PluginOf(t, deps) = PluginOf(s, deps) /\ Sources(t, deps) = Sources(s, deps)
      /\ Whole(t) /\ t.model = s.model
  BY <1>3, <1>4, SameContentSameRendering DEF SameContent
<1>7. deps \in Stores /\ deps' \in Stores
  BY DEF RolloutTypeInv, TypeInv, TypeOK
<1>8. t.model.kind = "ref" => deps[t.model.name] # Absent
  <2>1. t.model.kind = "ref" => t.model.name \in Sources(t, deps)
    BY DEF Sources
  <2>2. \A o \in Sources(t, deps) : deps[o] # Absent
    BY <1>3, <1>6 DEF RolloutTracking, UpTo
  <2>3. QED
    BY <2>1, <2>2
<1>9. \A o \in Deps : UpTo(o, deps[o], deps'[o])
  BY DEF NothingComesBack
<1>10. PICK e : e = deps'
  OBVIOUS
<1>11. PluginOf(t, e) = PluginOf(t, deps) /\ Sources(t, e) = Sources(t, deps)
  BY <1>5, <1>7, <1>8, <1>9, <1>10, SamePlugin
<1>12. QED
  BY <1>1, <1>2, <1>4, <1>5, <1>6, <1>10, <1>11
(* What is due to be rendered next gets no older.                          *)
LEMMA ProspectGrows ==
  ASSUME RolloutTypeInv, RolloutTypeInv', RolloutTracking, NothingComesBack, NEW f \in Flows,
         Onward(f), NEW k \in Mounted
  PROVE  PieceBefore(flows[f].spec.model.name, PluginOf(flows[f].spec, deps), k,
                     Child(k, flows[f].spec, Prospect(f)), Child(k, flows'[f].spec, Prospect(f)'))
<1>1. PICK s : s = flows[f].spec
  OBVIOUS
<1>2. PICK t : t = flows'[f].spec
  OBVIOUS
<1>3. PICK P : P = Prospect(f)
  OBVIOUS
<1>4. PICK Q : Q = Prospect(f)'
  OBVIOUS
<1>5. /\ s \in FlowSpec /\ Whole(s) /\ P \in Stores
      /\ PluginOf(s, P) = PluginOf(s, deps) /\ \A o \in Sources(s, P) : P[o] # Absent
  BY <1>1, <1>3, FlowsAreBehind DEF Behind
<1>6. Q \in Stores
  BY <1>4, ProspectType DEF RolloutTypeInv
<1>7. \A o \in Deps : UpTo(o, P[o], Q[o])
  BY <1>3, <1>4 DEF Onward
<1>8. PieceBefore(s.model.name, PluginOf(s, P), k, Child(k, s, P), Child(k, s, Q))
  BY <1>5, <1>6, <1>7, OlderObjectsOlderContent
<1>9. SameContent(s, t)
  BY <1>1, <1>2 DEF NothingComesBack
<1>10. Child(k, t, Q) = Child(k, s, Q)
  BY <1>9, SameContentSameRendering
<1>11. QED
  BY <1>1, <1>2, <1>3, <1>4, <1>5, <1>8, <1>10

LEMMA MountsStay ==
  ASSUME RolloutTypeInv, RolloutTypeInv', RolloutTracking, NothingComesBack, NEW f \in Flows,
         Onward(f), NEW k \in Mounted, NEW x, NoNewerThanMounts(f, k, x)
  PROVE  NoNewerThanMounts(f, k, x)'
<1>1. PICK m : m = flows[f].spec.model.name
  OBVIOUS
<1>2. PICK pc : pc = PluginOf(flows[f].spec, deps)
  OBVIOUS
<1>3. PICK c : c = Child(k, flows[f].spec, Prospect(f))
  OBVIOUS
<1>4. PICK d : d = Child(k, flows'[f].spec, Prospect(f)')
  OBVIOUS
<1>5. m = flows'[f].spec.model.name /\ pc = PluginOf(flows'[f].spec, deps')
  BY <1>1, <1>2, SameOrder
<1>6. PieceBefore(m, pc, k, x, c) /\ (kids[f][k] # Absent => PieceBefore(m, pc, k, x, kids[f][k].body))
  BY <1>1, <1>2, <1>3 DEF NoNewerThanMounts, NoNewer
<1>7. PieceBefore(m, pc, k, c, d)
  BY <1>1, <1>2, <1>3, <1>4, ProspectGrows
<1>8. PieceBefore(m, pc, k, x, d)
  BY <1>6, <1>7, PieceIsTransitive
<1>9. kids'[f][k] # Absent => PieceBefore(m, pc, k, x, kids'[f][k].body)
  BY <1>4, <1>6, <1>8 DEF Onward
<1>10. QED
  BY <1>4, <1>5, <1>8, <1>9 DEF NoNewerThanMounts, NoNewer

LEMMA SecretsStay ==
  ASSUME RolloutTypeInv, NothingComesBack,
         NEW secret \in [name : Secrets \cup {None}, data : Data \cup {None}],
         NoNewerThanSecret(secret)
  PROVE  NoNewerThanSecret(secret)'
<1>1. CASE secret.name = None
  BY <1>1 DEF NoNewerThanSecret
<1>2. CASE secret.name # None
  <2>1. PICK x : x = deps[secret.name]
    OBVIOUS
  <2>2. PICK y : y = deps'[secret.name]
    OBVIOUS
  <2>3. secret.name \in Deps
    BY <1>2 DEF Deps
  <2>4. UpTo(secret.name, x, y)
    BY <2>1, <2>2, <2>3 DEF NothingComesBack
  <2>5. x # Absent /\ Before(secret.name, secret.data, x.data)
    BY <1>2, <2>1 DEF NoNewerThanSecret
  <2>6. y # Absent /\ Before(secret.name, secret.data, y.data)
    BY <2>4, <2>5, BeforeIsTransitive DEF UpTo
  <2>7. QED
    BY <1>2, <2>2, <2>6 DEF NoNewerThanSecret
<1>3. QED
  BY <1>1, <1>2

LEMMA ContentStays ==
  ASSUME RolloutTypeInv, RolloutTypeInv', RolloutTracking, NothingComesBack, NEW f \in Flows,
         Onward(f), NEW c \in Hashes, NotAhead(f, c)
  PROVE  NotAhead(f, c)'
<1>1. c.secret \in [name : Secrets \cup {None}, data : Data \cup {None}]
  BY DEF Hashes
<1>2. PICK secret : secret = c.secret
  OBVIOUS
<1>3. NoNewerThanSecret(secret)'
  BY <1>1, <1>2, SecretsStay DEF NotAhead
<1>4. ASSUME NEW k \in Mounted PROVE NoNewerThanMounts(f, k, c[k])'
  <2>1. PICK x : x = c[k]
    OBVIOUS
  <2>2. NoNewerThanMounts(f, k, x)
    BY <2>1 DEF NotAhead
  <2>3. NoNewerThanMounts(f, k, x)'
    BY <2>2, MountsStay
  <2>4. QED
    BY <2>1, <2>3
<1>5. QED
  BY <1>2, <1>3, <1>4 DEF NotAhead

LEMMA PodStays ==
  ASSUME RolloutTypeInv, RolloutTypeInv', RolloutTracking, NothingComesBack, NEW f \in Flows,
         Onward(f), NEW p \in Pod, PodOK(f, p)
  PROVE  PodOK(f, p)'
<1>1. p.template.hash \in Hashes /\ (p.loaded # None => p.loaded \in Hashes)
  BY DEF Pod, Templates
<1>2. TemplateOK(f, p.template)'
  <2>1. NotAhead(f, p.template.hash) /\ p.template.envFrom = p.template.hash.secret.name
    BY DEF PodOK, TemplateOK
  <2>2. NotAhead(f, p.template.hash)'
    BY <1>1, <2>1, ContentStays
  <2>3. QED
    BY <2>1, <2>2 DEF TemplateOK
<1>3. ASSUME p.loaded # None PROVE NotAhead(f, p.loaded)'
  BY <1>1, <1>3, ContentStays DEF PodOK
<1>4. ASSUME p.loaded # None PROVE Follows(f, p.loaded, p.template.hash)'
  <2>1. Follows(f, p.loaded, p.template.hash)
    BY <1>4 DEF PodOK
  <2>2. PICK m : m = flows[f].spec.model.name
    OBVIOUS
  <2>3. PICK pc : pc = PluginOf(flows[f].spec, deps)
    OBVIOUS
  <2>4. m = flows'[f].spec.model.name /\ pc = PluginOf(flows'[f].spec, deps')
    BY <2>2, <2>3, SameOrder
  <2>5. QED
    BY <2>1, <2>2, <2>3, <2>4 DEF Follows, NoNewer
<1>5. QED
  BY <1>2, <1>3, <1>4 DEF PodOK

LEMMA CacheStays ==
  ASSUME RolloutTypeInv, RolloutTypeInv', RolloutTracking, NothingComesBack, NEW f \in Flows,
         Onward(f)
  PROVE  CacheOK(f)'
<1>1. /\ flows'[f] # Absent /\ Whole(flows'[f].spec)
      /\ Sources(flows'[f].spec, deps') = Sources(flows[f].spec, deps)
  BY SameOrder
<1>2. cflows'[f] # Absent /\ SameContent(flows'[f].spec, cflows'[f].spec)
  BY DEF Onward
<1>3. \A o \in Sources(flows[f].spec, deps) : cdeps'[o] # Absent /\ Prospect(f)'[o] # Absent
  BY FlowsAreBehind DEF Behind, Onward, UpTo
<1>4. QED
  BY <1>1, <1>2, <1>3 DEF CacheOK, Whole

(* So a step keeps the invariant if it takes every Flow onward, keeps what *)
(* its reconcile may rely on, and gives it no template and no Pod that is  *)
(* ahead.                                                                  *)
Kept(f) ==
  /\ Onward(f) /\ ReadsOK(f)'
  /\ \/ kids'[f]["deploy"] \in {kids[f]["deploy"], Absent}
     \/ TemplateOK(f, TemplateOf(f))'
  /\ \A p \in pods'[f] : p \in pods[f] \/ PodOK(f, p)'

LEMMA RolloutTrackingIsKept ==
  ASSUME RolloutTypeInv, RolloutTypeInv', RolloutTracking, NothingComesBack,
         \A f \in Flows : Kept(f), \A o \in Deps : UpTo(o, cdeps'[o], deps'[o])
  PROVE  RolloutTracking'
<1>1. ASSUME NEW f \in Flows PROVE CacheOK(f)' /\ ReadsOK(f)'
  BY CacheStays DEF Kept
<1>2. ASSUME NEW f \in Flows, NEW p \in pods'[f] PROVE PodOK(f, p)'
  <2>1. CASE p \in pods[f]
    <3>1. PodOK(f, p) /\ p \in Pod
      BY <2>1 DEF RolloutTracking, RolloutTypeInv, PodsOK
    <3>2. QED
      BY <3>1, PodStays DEF Kept
  <2>2. QED
    BY <2>1 DEF Kept
<1>3. ASSUME NEW f \in Flows PROVE ChildrenOK(f)'
  <2>1. Onward(f) /\ ChildrenOK(f)
    BY DEF Kept, RolloutTracking
  <2>2. ASSUME NEW k \in Mounted, kids'[f][k] # Absent
        PROVE  NoNewerThanMounts(f, k, kids[f][k].body)'
    <3>1. PICK x : x = kids'[f][k].body
      OBVIOUS
    <3>2. CASE kids'[f][k] = kids[f][k]
      <4>1. NoNewerThanMounts(f, k, x)
        BY <2>1, <2>2, <3>1, <3>2 DEF ChildrenOK
      <4>2. NoNewerThanMounts(f, k, x)'
        BY <2>1, <4>1, MountsStay
      <4>3. QED
        BY <3>1, <4>2
    <3>3. CASE x = Child(k, flows'[f].spec, Prospect(f)')
      BY <3>1, <3>3, PieceIsReflexive DEF NoNewerThanMounts, NoNewer
    <3>4. QED
      BY <2>1, <2>2, <3>1, <3>2, <3>3 DEF Onward
  <2>3. ASSUME kids'[f]["deploy"] # Absent PROVE TemplateOK(f, TemplateOf(f))'
    <3>1. CASE kids'[f]["deploy"] = kids[f]["deploy"]
      <4>1. PICK t : t = TemplateOf(f)
        OBVIOUS
      <4>2. TemplateOK(f, t) /\ t = TemplateOf(f)'
        BY <2>1, <2>3, <3>1, <4>1 DEF ChildrenOK, TemplateOf
      <4>3. t.hash \in Hashes
        <5>1. kids[f] \in Children
          BY DEF RolloutTypeInv, TypeInv, TypeOK
        <5>2. kids[f]["deploy"] \in KidObj("deploy")
          BY <2>3, <3>1, <5>1 DEF Children, Kid
        <5>3. QED
          BY <4>1, <5>2 DEF TemplateOf, KidObj, ChildBody
      <4>4. NotAhead(f, t.hash)'
        BY <2>1, <4>2, <4>3, ContentStays DEF TemplateOK
      <4>5. QED
        BY <4>2, <4>4 DEF TemplateOK
    <3>2. QED
      BY <2>3, <3>1 DEF Kept
  <2>4. QED
    BY <2>2, <2>3 DEF ChildrenOK
<1>4. QED
  BY <1>1, <1>2, <1>3 DEF RolloutTracking
-----------------------------------------------------------------------------
(* Every step keeps the invariant.                                         *)

(* Steps that render nothing.                                              *)
LEMMA NothingRendered ==
  ASSUME RolloutTypeInv, RolloutTypeInv', RolloutTracking, NothingComesBack,
         \A o \in Deps : UpTo(o, cdeps[o], cdeps'[o]) /\ UpTo(o, cdeps'[o], deps'[o]),
         \A f \in Flows : /\ cflows'[f] \in {cflows[f], flows[f]}
                          /\ \A k \in Kinds : kids'[f][k] \in {kids[f][k], Absent}
                          /\ \A o \in Deps : UpTo(o, Prospect(f)[o], Prospect(f)'[o])
                          /\ ReadsOK(f)'
                          /\ \A p \in pods'[f] : p \in pods[f] \/ PodOK(f, p)'
  PROVE  RolloutTracking'
<1>1. ASSUME NEW f \in Flows PROVE Kept(f)
  <2>1. cflows'[f] # Absent /\ SameContent(flows'[f].spec, cflows'[f].spec)
    BY DEF RolloutTracking, CacheOK, NothingComesBack, SameContent
  <2>2. \A k \in Mounted : kids'[f][k] \in {kids[f][k], Absent}
    BY DEF Mounted, Kinds
  <2>3. Onward(f)
    BY <2>1, <2>2 DEF Onward
  <2>4. kids'[f]["deploy"] \in {kids[f]["deploy"], Absent}
    BY DEF Kinds
  <2>5. QED
    BY <2>3, <2>4 DEF Kept
<1>2. QED
  BY <1>1, RolloutTrackingIsKept

LEMMA DepsMoveOn ==
  ASSUME RolloutTracking, NothingComesBack
  PROVE  \A o \in Deps : UpTo(o, cdeps[o], deps'[o])
<1> SUFFICES ASSUME NEW o \in Deps PROVE UpTo(o, cdeps[o], deps'[o])
  OBVIOUS
<1>1. PICK d : d = deps'
  OBVIOUS
<1>2. UpTo(o, cdeps[o], deps[o]) /\ UpTo(o, deps[o], d[o])
  BY <1>1 DEF RolloutTracking, NothingComesBack
<1>3. UpTo(o, cdeps[o], d[o])
  BY <1>2, UpToIsTransitive
<1>4. QED
  BY <1>1, <1>3

(* Users, Kubernetes, informers of Flows and Deployments, handlers, Pods.  *)
LEMMA CachedDepsUntouched ==
  ASSUME RolloutTypeInv, RolloutTypeInv', RolloutTracking, NothingComesBack,
         rec' = rec, cdeps' = cdeps,
         \A f \in Flows : /\ cflows'[f] \in {cflows[f], flows[f]}
                          /\ \A k \in Kinds : kids'[f][k] \in {kids[f][k], Absent}
                          /\ \A p \in pods'[f] : p \in pods[f] \/ PodOK(f, p)'
  PROVE  RolloutTracking'
<1>1. \A o \in Deps : UpTo(o, cdeps[o], cdeps'[o]) /\ UpTo(o, cdeps'[o], deps'[o])
  BY DepsMoveOn, UpToIsReflexive
<1>2. ASSUME NEW f \in Flows PROVE \A o \in Deps : UpTo(o, Prospect(f)[o], Prospect(f)'[o])
  <2>1. Prospect(f)' = Prospect(f)
    BY DEF Prospect, Reconciling
  <2>2. QED
    BY <2>1, UpToIsReflexive
<1>3. ASSUME NEW f \in Flows PROVE ReadsOK(f)'
  <2> SUFFICES ASSUME Reconciling(f)'
               PROVE  /\ SameContent(flows'[f].spec, rec'.orig.spec)
                      /\ \A o \in Deps : rec'.got[o] # Unread => UpTo(o, rec'.got[o], cdeps'[o])
                      /\ rec'.pc = "apply" =>
                           \A i \in DOMAIN ApplyOrder :
                             i < rec'.next /\ ApplyOrder[i] \in Mounted
                               /\ kids'[f][ApplyOrder[i]] # Absent
                             => kids'[f][ApplyOrder[i]].body
                                  = Child(ApplyOrder[i], rec'.orig.spec, rec'.got)
    BY DEF ReadsOK
  <2>1. Reconciling(f) /\ ReadsOK(f)
    BY DEF Reconciling, RolloutTracking
  <2>2. SameContent(flows'[f].spec, rec'.orig.spec)
    BY <2>1 DEF ReadsOK, NothingComesBack, SameContent
  <2>3. \A o \in Deps : rec'.got[o] # Unread => UpTo(o, rec'.got[o], cdeps'[o])
    BY <2>1 DEF ReadsOK
  <2>4. \A k \in Mounted : kids'[f][k] \in {kids[f][k], Absent}
    BY DEF Mounted, Kinds
  <2>5. QED
    BY <2>1, <2>2, <2>3, <2>4 DEF ReadsOK
<1>4. QED
  BY <1>1, <1>2, <1>3, NothingRendered

LEMMA RemovedChildren ==
  ASSUME RolloutTypeInv, NEW f \in Flows, NEW k \in Kinds, RemoveChild(f, k)
  PROVE  \A g \in Flows, j \in Kinds : kids'[g][j] \in {kids[g][j], Absent}
<1>1. kids \in [Flows -> Children] /\ kids' = [kids EXCEPT ![f][k] = Absent]
  BY DEF RemoveChild, RolloutTypeInv, TypeInv, TypeOK
<1>2. QED
  BY <1>1, ChildrenElsewhere

LEMMA EnvironmentKeeps ==
  ASSUME RolloutTypeInv, RolloutTypeInv', RolloutTracking, NothingComesBack,
         Edit \/ Collect \/ Resync \/ HandleAny, pods' = pods
  PROVE  RolloutTracking'
<1>1. ASSUME kids' = kids, rec' = rec, UNCHANGED caches PROVE RolloutTracking'
  BY <1>1, CachedDepsUntouched DEF caches
<1>2. ASSUME NEW f \in Flows, NEW k \in Kinds, ChildDelete(f, k) \/ GarbageCollect(f, k)
      PROVE  RolloutTracking'
  <2>1. \A g \in Flows, j \in Kinds : kids'[g][j] \in {kids[g][j], Absent}
    BY <1>2, RemovedChildren DEF ChildDelete, GarbageCollect
  <2>2. rec' = rec /\ cdeps' = cdeps /\ cflows' = cflows
    BY <1>2 DEF ChildDelete, GarbageCollect, caches
  <2>3. QED
    BY <2>1, <2>2, CachedDepsUntouched
<1>3. CASE Resync \/ HandleAny
  BY <1>1, <1>3 DEF Resync, HandleAny, Handle, store
<1>4. CASE Edit
  BY <1>1, <1>2, <1>4 DEF Edit, FlowCreate, FlowEdit, FlowDelete, DepWrite, DepDelete
<1>5. CASE Collect
  BY <1>2, <1>5 DEF Collect
<1>6. QED
  BY <1>3, <1>4, <1>5

LEMMA InformKeeps ==
  ASSUME RolloutTypeInv, RolloutTypeInv', RolloutTracking, NothingComesBack, Inform, pods' = pods
  PROVE  RolloutTracking'
<1>1. ASSUME NEW f \in Flows, InformFlow(f) \/ InformDeploy(f) PROVE RolloutTracking'
  <2>1. \A g \in Flows : cflows'[g] \in {cflows[g], flows[g]}
    BY <1>1 DEF InformFlow, InformDeploy, RolloutTypeInv, TypeInv, TypeOK
  <2>2. rec' = rec /\ cdeps' = cdeps /\ kids' = kids
    BY <1>1 DEF InformFlow, InformDeploy, store
  <2>3. QED
    BY <2>1, <2>2, CachedDepsUntouched
<1>2. ASSUME NEW o \in Deps, InformDep(o) PROVE RolloutTracking'
  <2>1. /\ rec' = rec /\ kids' = kids /\ cflows' = cflows /\ deps' = deps
        /\ \A x \in Deps : cdeps'[x] \in {cdeps[x], deps[x]}
    BY <1>2 DEF InformDep, store, RolloutTypeInv, TypeInv, TypeOK, Stores
  <2>2. \A x \in Deps : UpTo(x, cdeps[x], cdeps'[x]) /\ UpTo(x, cdeps'[x], deps'[x])
    BY <2>1, UpToIsReflexive DEF RolloutTracking
  <2>3. ASSUME NEW f \in Flows PROVE \A x \in Deps : UpTo(x, Prospect(f)[x], Prospect(f)'[x])
    <3>1. \A x \in Deps : \/ Prospect(f)'[x] = Prospect(f)[x]
                          \/ Prospect(f)[x] = cdeps[x] /\ Prospect(f)'[x] = cdeps'[x]
      BY <2>1 DEF Prospect, Reconciling
    <3>2. QED
      BY <2>2, <3>1, UpToIsReflexive
  <2>4. ASSUME NEW f \in Flows PROVE ReadsOK(f)'
    <3>1. ASSUME NEW x \in Deps, UpTo(x, rec.got[x], cdeps[x]) PROVE UpTo(x, rec.got[x], cdeps'[x])
      <4>1. PICK y : y = cdeps'[x]
        OBVIOUS
      <4>2. UpTo(x, cdeps[x], y)
        BY <2>2, <4>1
      <4>3. UpTo(x, rec.got[x], y)
        BY <3>1, <4>2, UpToIsTransitive
      <4>4. QED
        BY <4>1, <4>3
    <3>2. ReadsOK(f) /\ SameContent(flows[f].spec, flows'[f].spec)
      BY DEF RolloutTracking, NothingComesBack
    <3>3. QED
      BY <2>1, <3>1, <3>2 DEF ReadsOK, Reconciling, SameContent
  <2>5. QED
    BY <2>1, <2>2, <2>3, <2>4, NothingRendered
<1>3. QED
  BY <1>1, <1>2 DEF Inform

LEMMA CrashKeeps ==
  ASSUME RolloutTypeInv, RolloutTypeInv', RolloutTracking, NothingComesBack, Crash, pods' = pods
  PROVE  RolloutTracking'
<1>1. rec' = None /\ kids' = kids /\ cflows' = flows /\ deps' = deps /\ cdeps' = deps
  BY DEF Crash, store
<1>2. \A o \in Deps : UpTo(o, cdeps[o], cdeps'[o]) /\ UpTo(o, cdeps'[o], deps'[o])
  BY <1>1, UpToIsReflexive DEF RolloutTracking
<1>3. ASSUME NEW f \in Flows, NEW o \in Deps PROVE UpTo(o, Prospect(f)[o], Prospect(f)'[o])
  <2>1. UpTo(o, Prospect(f)[o], cdeps[o]) /\ UpTo(o, cdeps[o], deps[o])
    BY FlowsAreBehind DEF Behind
  <2>2. UpTo(o, Prospect(f)[o], deps[o])
    BY <2>1, UpToIsTransitive
  <2>3. Prospect(f)'[o] = deps[o]
    BY <1>1 DEF Prospect, Reconciling
  <2>4. QED
    BY <2>2, <2>3
<1>4. \A f \in Flows : ReadsOK(f)'
  BY <1>1 DEF ReadsOK, Reconciling
<1>5. QED
  BY <1>1, <1>2, <1>3, <1>4, NothingRendered
(* A reconcile begins, reads, looks the Deployment up or ends.             *)
LEMMA ReconcileMovesOn ==
  ASSUME RolloutTypeInv, RolloutTypeInv', RolloutTracking, NothingComesBack,
         UNCHANGED <<kids, caches, pods>>,
         \A f \in Flows : /\ \A o \in Deps : UpTo(o, Prospect(f)[o], Prospect(f)'[o])
                          /\ ReadsOK(f)'
  PROVE  RolloutTracking'
<1>1. \A o \in Deps : UpTo(o, cdeps[o], cdeps'[o]) /\ UpTo(o, cdeps'[o], deps'[o])
  BY DepsMoveOn, UpToIsReflexive DEF caches
<1>2. QED
  BY <1>1, NothingRendered DEF caches

LEMMA StartKeeps ==
  ASSUME RolloutTypeInv, RolloutTypeInv', RolloutTracking, NothingComesBack,
         NEW f \in Flows, Start(f), pods' = pods
  PROVE  RolloutTracking'
<1> DEFINE r == [flow |-> f, orig |-> cflows[f], got |-> [o \in Deps |-> Unread],
                 pc |-> "resolve", next |-> 1, upd |-> cflows[f].status]
<1>1. rec = None /\ UNCHANGED <<kids, caches, flows, deps>>
  BY DEF Start, store
<1>2. cflows[f] # Absent /\ SameContent(flows[f].spec, cflows[f].spec)
  BY DEF RolloutTracking, CacheOK
<1>3. r \in Reconciles /\ r.pc = "resolve"
  BY <1>2 DEF Reconciles, FlowObj, Readings, ApplyOrder, RolloutTypeInv, TypeInv, TypeOK
<1>4. rec' = Resolved(r)
  BY <1>2 DEF Start
<1>5. r.flow = f /\ r.orig = cflows[f] /\ r.next = 1 /\ \A o \in Deps : r.got[o] = Unread
  OBVIOUS
<1> HIDE DEF r
<1>6. rec'.flow = f /\ rec'.orig = cflows[f] /\ rec'.got = r.got /\ rec'.next = 1
  BY <1>3, <1>4, <1>5, ResolvedCases
<1>7. ASSUME NEW g \in Flows PROVE \A o \in Deps : UpTo(o, Prospect(g)[o], Prospect(g)'[o])
  <2>1. \A o \in Deps : Prospect(g)[o] = cdeps[o] /\ Prospect(g)'[o] = cdeps[o]
    BY <1>1, <1>5, <1>6 DEF Prospect, Reconciling, caches
  <2>2. QED
    BY <2>1, UpToIsReflexive
<1>8. ASSUME NEW g \in Flows PROVE ReadsOK(g)'
  <2>1. \A i \in DOMAIN ApplyOrder : ~(i < rec'.next)
    BY <1>6 DEF ApplyOrder
  <2>2. QED
    BY <1>1, <1>2, <1>5, <1>6, <2>1 DEF ReadsOK, Reconciling
<1>9. QED
  BY <1>1, <1>7, <1>8, ReconcileMovesOn

LEMMA ReadDepKeeps ==
  ASSUME RolloutTypeInv, RolloutTypeInv', RolloutTracking, ReadingOK, NothingComesBack,
         ReadDep, pods' = pods
  PROVE  RolloutTracking'
<1>1. PICK x \in Deps : /\ rec.got[x] = Unread
                        /\ rec' = Resolved([rec EXCEPT !.got[x] = cdeps[x]])
  BY NextRead DEF RolloutTypeInv
<1>2. rec # None /\ rec \in Reconciles /\ rec.pc = "resolve" /\ rec.next = 1
  BY DEF ReadDep, At, ReadingOK, RolloutTypeInv, TypeInv, TypeOK
<1>3. UNCHANGED <<kids, caches, flows, deps>>
  BY DEF ReadDep, store
<1> DEFINE r == [rec EXCEPT !.got[x] = cdeps[x]]
<1>4. rec.got \in Readings /\ cdeps \in Stores
  BY <1>2 DEF Reconciles, RolloutTypeInv, TypeInv, TypeOK
<1>5. r.got = [rec.got EXCEPT ![x] = cdeps[x]] /\ r.got \in Readings
  <2>1. [rec.got EXCEPT ![x] = cdeps[x]] \in Readings
    BY <1>4 DEF Readings, Stores
  <2>2. QED
    BY <1>2, <2>1 DEF Reconciles
<1>6. /\ r \in Reconciles /\ r.pc = "resolve"
      /\ r.flow = rec.flow /\ r.orig = rec.orig /\ r.next = 1
  BY <1>2, <1>5 DEF Reconciles
<1>7. \A o \in Deps : r.got[o] = IF o = x THEN cdeps[x] ELSE rec.got[o]
  BY <1>4, <1>5 DEF Readings
<1> HIDE DEF r
<1>8. rec'.flow = rec.flow /\ rec'.orig = rec.orig /\ rec'.got = r.got /\ rec'.next = 1
  BY <1>1, <1>6, ResolvedCases DEF r
<1>9. rec' # None
  <2>1. rec' \in Reconciles
    BY <1>1, <1>6, ResolvedType DEF r
  <2>2. QED
    BY <2>1, RecordsAssumption
<1>10. ASSUME NEW g \in Flows PROVE \A o \in Deps : UpTo(o, Prospect(g)[o], Prospect(g)'[o])
  <2>1. \A o \in Deps : Prospect(g)[o] = Prospect(g)'[o]
    BY <1>1, <1>2, <1>3, <1>7, <1>8, <1>9 DEF Prospect, Reconciling, caches
  <2>2. QED
    BY <2>1, UpToIsReflexive
<1>11. ASSUME NEW g \in Flows PROVE ReadsOK(g)'
  <2>1. \A i \in DOMAIN ApplyOrder : ~(i < rec'.next)
    BY <1>8 DEF ApplyOrder
  <2>2. Reconciling(g)' => Reconciling(g) /\ ReadsOK(g)
    BY <1>2, <1>8 DEF Reconciling, RolloutTracking
  <2>3. Reconciling(g)' => SameContent(flows'[g].spec, rec'.orig.spec)
    BY <1>3, <1>8, <2>2 DEF ReadsOK
  <2>4. Reconciling(g)' => \A o \in Deps : rec'.got[o] # Unread => UpTo(o, rec'.got[o], cdeps'[o])
    BY <1>3, <1>7, <1>8, <2>2, UpToIsReflexive DEF ReadsOK, caches
  <2>5. QED
    BY <2>1, <2>3, <2>4 DEF ReadsOK
<1>12. QED
  BY <1>3, <1>10, <1>11, ReconcileMovesOn

LEMMA ObserveDeployKeeps ==
  ASSUME RolloutTypeInv, RolloutTypeInv', RolloutTracking, NothingComesBack,
         ObserveDeploy, pods' = pods
  PROVE  RolloutTracking'
<1>1. rec # None /\ rec \in Reconciles
  BY DEF ObserveDeploy, At, RolloutTypeInv, TypeInv, TypeOK
<1>2. UNCHANGED <<kids, caches, flows, deps>>
  BY DEF ObserveDeploy, store
<1>3. rec'.flow = rec.flow /\ rec'.orig = rec.orig /\ rec'.got = rec.got /\ rec'.pc = "patch"
  BY <1>1 DEF ObserveDeploy, Reconciles
<1>4. ASSUME NEW g \in Flows PROVE Reconciling(g)' => Reconciling(g)
  BY <1>1, <1>3 DEF Reconciling
<1>5. ASSUME NEW g \in Flows PROVE \A o \in Deps : UpTo(o, Prospect(g)[o], Prospect(g)'[o])
  <2>1. \A o \in Deps : Prospect(g)'[o] \in {Prospect(g)[o], cdeps[o]}
    BY <1>2, <1>3, <1>4 DEF Prospect, Reconciling, caches
  <2>2. \A o \in Deps : UpTo(o, Prospect(g)[o], cdeps[o])
    BY FlowsAreBehind DEF Behind
  <2>3. QED
    BY <2>1, <2>2, UpToIsReflexive
<1>6. ASSUME NEW g \in Flows PROVE ReadsOK(g)'
  BY <1>2, <1>3, <1>4 DEF ReadsOK, caches, RolloutTracking
<1>7. QED
  BY <1>2, <1>5, <1>6, ReconcileMovesOn

LEMMA PatchKeeps ==
  ASSUME RolloutTypeInv, RolloutTypeInv', RolloutTracking, NothingComesBack,
         PatchStatus \/ PatchStatusFails, pods' = pods
  PROVE  RolloutTracking'
<1>1. rec' = None /\ UNCHANGED <<kids, caches>>
  BY DEF PatchStatus, PatchStatusFails
<1>2. ASSUME NEW f \in Flows PROVE \A o \in Deps : UpTo(o, Prospect(f)[o], Prospect(f)'[o])
  <2>1. \A o \in Deps : UpTo(o, Prospect(f)[o], cdeps[o])
    BY FlowsAreBehind DEF Behind
  <2>2. QED
    BY <1>1, <2>1 DEF Prospect, Reconciling, caches
<1>3. \A f \in Flows : ReadsOK(f)'
  BY <1>1 DEF ReadsOK, Reconciling
<1>4. QED
  BY <1>1, <1>2, <1>3, ReconcileMovesOn
(* Children are sent.                                                      *)
LEMMA WhatItSends ==
  ASSUME RolloutTypeInv, RolloutTracking, NEW f \in Flows, Reconciling(f), rec.pc = "apply"
  PROVE  LET c == ContentHash(rec.orig.spec, rec.got)
         IN  /\ \A k \in Mounted : /\ Child(k, rec.orig.spec, rec.got)
                                        = Child(k, flows[f].spec, Prospect(f))
                                   /\ c[k] = Child(k, rec.orig.spec, rec.got)
             /\ NoNewerThanSecret(c.secret) /\ c \in Hashes
<1> DEFINE spec == rec.orig.spec
           got == rec.got
           c == ContentHash(spec, got)
<1>1. rec # None /\ rec \in Reconciles
  BY DEF Reconciling, RolloutTypeInv, TypeInv, TypeOK
<1>2. spec \in FlowSpec /\ got \in Readings
  BY <1>1, SpecsAreTyped DEF Reconciles, FlowObj
<1>3. Outcome(spec, got).reason = "Rendered" /\ ToRead(spec, got) = {}
  BY <1>1 DEF RolloutTypeInv, TypeInv, RenderableOK
<1>4. \A g \in Gets(spec, got) : g[2] \in Deps /\ got[g[2]] # Unread
  BY <1>2, <1>3, GetsType DEF ToRead
<1>5. \A g \in Gets(spec, got) : got[g[2]] = Prospect(f)[g[2]]
  BY <1>4 DEF Prospect
<1>6. Prospect(f) \in Readings
  BY ProspectType, StoresAreReadings DEF RolloutTypeInv
<1>7. \A k \in Kinds : Child(k, spec, Prospect(f)) = Child(k, spec, got)
  BY <1>2, <1>3, <1>5, <1>6, SameReads
<1>8. SameContent(flows[f].spec, spec) /\ \A o \in Deps : got[o] # Unread => UpTo(o, got[o], cdeps[o])
  BY DEF RolloutTracking, ReadsOK
<1>9. \A k \in Mounted : Child(k, spec, Prospect(f)) = Child(k, flows[f].spec, Prospect(f))
  BY <1>8, SameContentSameRendering
<1>10. \A k \in Mounted : c[k] = Child(k, spec, got)
  BY DEF ContentHash, Child, Mounted
<1>11. c \in Hashes
  BY <1>2, <1>3, RenderingType
<1>12. NoNewerThanSecret(c.secret)
  <2> DEFINE s == SecretOf(spec, got)
  <2>1. c.secret = [name |-> s, data |-> IF s = None THEN None ELSE got[s].data]
    BY DEF ContentHash, SecretPayload
  <2>2. CASE s = None
    BY <2>1, <2>2 DEF NoNewerThanSecret
  <2>3. CASE s # None
    <3>1. <<Listed(spec) + 3, s>> \in Gets(spec, got)
      BY <1>2, <1>3, <2>3, RenderedMeans DEF Gets, ModelGets
    <3>2. s \in Deps /\ got[s] # Unread /\ got[s] \in DepObj(s)
      BY <1>2, <1>3, <1>4, <3>1, EveryReadIsFound
    <3>3. got[s] # Absent
      BY <1>2, <3>2, NamesAssumption DEF DepObj, Objects, RefTargets
    <3>4. UpTo(s, got[s], cdeps[s]) /\ UpTo(s, cdeps[s], deps[s])
      BY <1>8, <3>2 DEF RolloutTracking
    <3>5. UpTo(s, got[s], deps[s])
      BY <3>4, UpToIsTransitive
    <3>6. deps[s] # Absent /\ Before(s, got[s].data, deps[s].data)
      BY <3>3, <3>5 DEF UpTo
    <3> HIDE DEF s
    <3>7. QED
      BY <2>1, <2>3, <3>6 DEF NoNewerThanSecret
  <2>4. QED
    BY <2>2, <2>3
<1>13. QED
  BY <1>7, <1>9, <1>10, <1>11, <1>12 DEF Mounted, Kinds

LEMMA ApplyKeepsTracking ==
  ASSUME RolloutTypeInv, RolloutTypeInv', RolloutTracking, NothingComesBack,
         ApplyChild \/ ApplyFails, pods' = pods
  PROVE  RolloutTracking'
<1>1. rec # None /\ rec \in Reconciles /\ rec.pc = "apply"
  BY DEF ApplyChild, ApplyFails, At, RolloutTypeInv, TypeInv, TypeOK
<1>2. PICK f \in Flows : f = rec.flow
  BY <1>1 DEF Reconciles
<1>3. PICK n \in DOMAIN ApplyOrder : n = rec.next
  BY <1>1 DEF Reconciles
<1>4. PICK k : k = ApplyOrder[n]
  OBVIOUS
<1>5. PICK spec : spec = rec.orig.spec
  OBVIOUS
<1>6. PICK got : got = rec.got
  OBVIOUS
<1>7. k \in Kinds /\ \A i \in DOMAIN ApplyOrder : ApplyOrder[i] = k => i = n
  BY <1>4 DEF ApplyOrder, Kinds
<1>8. UNCHANGED <<flows, deps, caches>>
  BY DEF ApplyChild, ApplyFails
<1>9. \A g \in Flows, j \in Kinds : g # f \/ j # k => kids'[g][j] = kids[g][j]
  <2>1. kids' = kids \/ kids' = [kids EXCEPT ![f][k] = RenderedKid]
    BY <1>2, <1>3, <1>4 DEF ApplyChild, ApplyFails, Applied
  <2>2. kids \in [Flows -> Children]
    BY DEF RolloutTypeInv, TypeInv, TypeOK
  <2>3. CASE kids' = [kids EXCEPT ![f][k] = RenderedKid]
    BY <1>7, <2>2, <2>3, ChildrenElsewhere
  <2>4. QED
    BY <2>1, <2>3
<1>10. kids'[f][k] = kids[f][k] \/ kids'[f][k] = [owner |-> rec.orig.uid, body |-> Child(k, spec, got)]
  <2>1. kids' = kids \/ kids' = [kids EXCEPT ![f][k] = RenderedKid]
    BY <1>2, <1>3, <1>4 DEF ApplyChild, ApplyFails, Applied
  <2>2. kids \in [Flows -> Children]
    BY DEF RolloutTypeInv, TypeInv, TypeOK
  <2>3. RenderedKid = [owner |-> rec.orig.uid, body |-> Child(k, spec, got)]
    BY <1>3, <1>4, <1>5, <1>6 DEF RenderedKid
  <2>4. CASE kids' = [kids EXCEPT ![f][k] = RenderedKid]
    <3>1. kids'[f][k] = [owner |-> rec.orig.uid, body |-> Child(k, spec, got)]
      BY <1>7, <2>2, <2>3, <2>4, ChildrenElsewhere
    <3>2. QED
      BY <3>1
  <2>5. QED
    BY <2>1, <2>4
<1>11. /\ rec' # None /\ rec'.flow = f /\ rec'.orig = rec.orig /\ rec'.got = got
       /\ \/ rec'.pc \in {"observe", "patch"}
          \/ /\ rec'.pc = "apply" /\ rec'.next = n + 1
             /\ kids'[f][k] = [owner |-> rec.orig.uid, body |-> Child(k, spec, got)]
  <2>1. CASE ApplyFails
    <3>1. PICK st : rec' = [rec EXCEPT !.pc = "patch", !.upd = st]
      BY <2>1 DEF ApplyFails
    <3>2. rec.upd \in Status /\ rec.orig.gen \in Nat /\ k \in Kinds
      BY <1>1, <1>7 DEF Reconciles, FlowObj
    <3>3. RefusedStatus(rec.upd, rec.orig.gen, "Error", k) \in Status
      BY <3>2, RefusedStatusType
    <3>4. rec' = [rec EXCEPT !.pc = "patch",
                             !.upd = RefusedStatus(rec.upd, rec.orig.gen, "Error", k)]
      BY <1>3, <1>4, <2>1 DEF ApplyFails
    <3>5. rec' \in Reconciles
      BY <1>1, <3>3, <3>4 DEF Reconciles
    <3>6. QED
      BY <1>1, <1>2, <1>6, <3>1, <3>5, RecordsAssumption DEF Reconciles
  <2>2. CASE ApplyChild
    <3>1. kids' = [kids EXCEPT ![f][k] = RenderedKid]
      BY <1>2, <1>3, <1>4, <2>2 DEF ApplyChild, Applied
    <3>2. kids \in [Flows -> Children]
      BY DEF RolloutTypeInv, TypeInv, TypeOK
    <3>3. RenderedKid = [owner |-> rec.orig.uid, body |-> Child(k, spec, got)]
      BY <1>3, <1>4, <1>5, <1>6 DEF RenderedKid
    <3>4. kids'[f][k] = [owner |-> rec.orig.uid, body |-> Child(k, spec, got)]
      BY <1>7, <3>1, <3>2, <3>3, ChildrenElsewhere
    <3>5. rec' \in Reconciles
      BY <1>1, <2>2 DEF ApplyChild, Reconciles, ApplyOrder
    <3>6. QED
      BY <1>1, <1>2, <1>3, <1>6, <2>2, <3>4, <3>5, RecordsAssumption DEF ApplyChild, Reconciles
  <2>3. QED
    BY <2>1, <2>2
<1>12. ASSUME NEW g \in Flows PROVE Reconciling(g)' => g = f
  BY <1>11 DEF Reconciling
<1>13. Reconciling(f)
  BY <1>1, <1>2 DEF Reconciling
<1>14. \A j \in Mounted : Child(j, spec, got) = Child(j, flows[f].spec, Prospect(f))
  BY <1>1, <1>5, <1>6, <1>13, WhatItSends
<1>15. \A o \in Deps : UpTo(o, cdeps[o], cdeps'[o]) /\ UpTo(o, cdeps'[o], deps'[o])
  BY <1>8, DepsMoveOn, UpToIsReflexive DEF caches
<1>16. ASSUME NEW g \in Flows PROVE Prospect(g)' = Prospect(g)
  <2>1. Reconciling(g)' <=> Reconciling(g)
    BY <1>1, <1>2, <1>11 DEF Reconciling
  <2>2. QED
    BY <1>6, <1>8, <1>11, <2>1 DEF Prospect, caches
<1>17. ASSUME NEW g \in Flows PROVE Onward(g)
  <2>1. \A o \in Deps : UpTo(o, Prospect(g)[o], Prospect(g)'[o])
    BY <1>16, UpToIsReflexive
  <2>2. cflows'[g] # Absent /\ SameContent(flows'[g].spec, cflows'[g].spec)
    BY <1>8 DEF RolloutTracking, CacheOK, caches
  <2>3. ASSUME NEW j \in Mounted
        PROVE  \/ kids'[g][j] \in {kids[g][j], Absent}
               \/ kids'[g][j].body = Child(j, flows'[g].spec, Prospect(g)')
    <3>1. CASE g # f \/ j # k
      BY <1>9, <3>1 DEF Mounted, Kinds
    <3>2. CASE g = f /\ j = k
      BY <1>8, <1>10, <1>14, <1>16, <3>2
    <3>3. QED
      BY <3>1, <3>2
  <2>4. QED
    BY <1>15, <2>1, <2>2, <2>3 DEF Onward
<1>18. ReadsOK(f)'
  <2>1. SameContent(flows'[f].spec, rec'.orig.spec)
    BY <1>8, <1>11, <1>13 DEF RolloutTracking, ReadsOK
  <2>2. \A o \in Deps : rec'.got[o] # Unread => UpTo(o, rec'.got[o], cdeps'[o])
    BY <1>6, <1>8, <1>11, <1>13 DEF RolloutTracking, ReadsOK, caches
  <2>3. ASSUME rec'.pc = "apply", NEW i \in DOMAIN ApplyOrder, i < rec'.next,
               ApplyOrder[i] \in Mounted, kids'[f][ApplyOrder[i]] # Absent
        PROVE  kids'[f][ApplyOrder[i]].body = Child(ApplyOrder[i], spec, got)
    <3>1. i < n \/ i = n
      BY <1>11, <2>3 DEF ApplyOrder
    <3>2. CASE i < n
      <4>1. ApplyOrder[i] # k /\ ApplyOrder[i] \in Kinds
        BY <1>3, <1>7, <3>2 DEF ApplyOrder, Kinds
      <4>2. kids'[f][ApplyOrder[i]] = kids[f][ApplyOrder[i]]
        BY <1>9, <4>1
      <4>3. ReadsOK(f)
        BY DEF RolloutTracking
      <4>4. QED
        BY <1>1, <1>3, <1>5, <1>6, <1>13, <2>3, <3>2, <4>2, <4>3 DEF ReadsOK
    <3>3. CASE i = n
      BY <1>4, <1>11, <2>3, <3>3
    <3>4. QED
      BY <3>1, <3>2, <3>3
  <2>4. QED
    BY <1>5, <1>6, <1>11, <2>1, <2>2, <2>3 DEF ReadsOK
<1>19. \A g \in Flows : ReadsOK(g)'
  BY <1>12, <1>18 DEF ReadsOK
<1>20. ASSUME k = "deploy", kids'[f][k] # kids[f][k] PROVE TemplateOK(f, TemplateOf(f))'
  <2> DEFINE c == ContentHash(spec, got)
  <2>1. /\ \A j \in Mounted : c[j] = Child(j, spec, got)
        /\ NoNewerThanSecret(c.secret) /\ c \in Hashes
    BY <1>1, <1>5, <1>6, <1>13, WhatItSends
  <2>2. TemplateOf(f)' = PodTemplate(spec, got)
    BY <1>10, <1>20 DEF TemplateOf, Child
  <2>3. TemplateOf(f)'.hash = c /\ TemplateOf(f)'.envFrom = c.secret.name
    BY <2>2 DEF PodTemplate, ContentHash, SecretPayload
  <2>4. ASSUME NEW j \in Mounted PROVE NoNewerThanMounts(f, j, c[j])'
    <3>1. PICK x : x = c[j]
      OBVIOUS
    <3>2. x = Child(j, flows'[f].spec, Prospect(f)')
      BY <1>8, <1>14, <1>16, <2>1, <3>1
    <3>3. kids'[f][j] # Absent => kids'[f][j].body = x
      <4>1. PICK i \in DOMAIN ApplyOrder : ApplyOrder[i] = j /\ i < n
        <5>1. /\ \A i \in DOMAIN ApplyOrder : ApplyOrder[i] = "deploy" => i = 5
              /\ 1 \in DOMAIN ApplyOrder /\ 2 \in DOMAIN ApplyOrder /\ 3 \in DOMAIN ApplyOrder
          BY DEF ApplyOrder
        <5> n = 5
          BY <1>4, <1>20, <5>1
        <5>2. CASE j = "prompts"
          <6>1. ApplyOrder[1] = j
            BY <5>2 DEF ApplyOrder
          <6>2. QED
            BY <5>1, <6>1
        <5>3. CASE j = "tools"
          <6>1. ApplyOrder[2] = j
            BY <5>3 DEF ApplyOrder
          <6>2. QED
            BY <5>1, <6>1
        <5>4. CASE j = "config"
          <6>1. ApplyOrder[3] = j
            BY <5>4 DEF ApplyOrder
          <6>2. QED
            BY <5>1, <6>1
        <5>5. QED
          BY <5>2, <5>3, <5>4 DEF Mounted
      <4>2. kids'[f][j] = kids[f][j]
        BY <1>9, <1>20 DEF Mounted, Kinds
      <4>3. ReadsOK(f)
        BY DEF RolloutTracking
      <4>4. kids[f][j] # Absent => kids[f][j].body = Child(j, spec, got)
        BY <1>1, <1>3, <1>5, <1>6, <1>13, <4>1, <4>3 DEF ReadsOK
      <4>5. QED
        BY <2>1, <3>1, <4>2, <4>4
    <3>4. NoNewerThanMounts(f, j, x)'
      BY <3>2, <3>3, PieceIsReflexive DEF NoNewerThanMounts, NoNewer
    <3>5. QED
      BY <3>1, <3>4
  <2>5. NoNewerThanSecret(c.secret)'
    BY <1>8, <2>1 DEF NoNewerThanSecret
  <2> HIDE DEF c
  <2>6. QED
    BY <2>3, <2>4, <2>5 DEF TemplateOK, NotAhead
<1>21. ASSUME NEW g \in Flows PROVE Kept(g)
  <2>1. \/ kids'[g]["deploy"] \in {kids[g]["deploy"], Absent}
        \/ TemplateOK(g, TemplateOf(g))'
    BY <1>9, <1>20 DEF Kinds
  <2>2. QED
    BY <1>17, <1>19, <2>1 DEF Kept
<1>22. QED
  BY <1>15, <1>21, RolloutTrackingIsKept
(* Pods come, load what is mounted, and go.                                *)
LEMMA PodsMove ==
  ASSUME RolloutTypeInv, RolloutTypeInv', RolloutTracking, NothingComesBack,
         UNCHANGED <<flows, deps, kids, cflows, cdeps, rec>>,
         \A f \in Flows : \A p \in pods'[f] : p \in pods[f] \/ PodOK(f, p)
  PROVE  RolloutTracking'
<1>1. ASSUME NEW f \in Flows, NEW p, PodOK(f, p) PROVE PodOK(f, p)'
  <2>1. \A k : Child(k, flows[f].spec, Prospect(f)) = Child(k, flows'[f].spec, Prospect(f)')
    BY DEF Prospect, Reconciling
  <2>2. ASSUME NEW c, NotAhead(f, c) PROVE NotAhead(f, c)'
    BY <2>1, <2>2 DEF NotAhead, NoNewerThanMounts, NoNewer, NoNewerThanSecret
  <2>3. TemplateOK(f, p.template)'
    BY <1>1, <2>2 DEF PodOK, TemplateOK
  <2>4. p.loaded # None => Follows(f, p.loaded, p.template.hash)'
    BY <1>1 DEF PodOK, Follows, NoNewer
  <2>5. p.loaded # None => NotAhead(f, p.loaded)'
    BY <1>1, <2>2 DEF PodOK
  <2>6. QED
    BY <2>3, <2>4, <2>5 DEF PodOK
<1>2. \A f \in Flows : \A p \in pods'[f] : p \in pods[f] \/ PodOK(f, p)'
  BY <1>1
<1>3. QED
  BY <1>2, CachedDepsUntouched

LEMMA PodStartLoads ==
  ASSUME RolloutTypeInv, RolloutTracking, NEW f \in Flows, NEW t \in Templates,
         TemplateOK(f, t), CanLoad(f, t)
  PROVE  NotAhead(f, Contents(f, t)) /\ Follows(f, Contents(f, t), t.hash)
<1> DEFINE c == Contents(f, t)
<1>1. \A k \in Mounted : c[k] = kids[f][k].body /\ kids[f][k] # Absent
  BY DEF Contents, CanLoad, Mounted
<1>2. c.secret = [name |-> t.envFrom,
                  data |-> IF t.envFrom = None THEN None ELSE deps[t.envFrom].data]
  BY DEF Contents
<1> HIDE DEF c
<1>3. NotAhead(f, t.hash) /\ t.envFrom = t.hash.secret.name
  BY DEF TemplateOK
<1>4. \A k \in Mounted : NoNewerThanMounts(f, k, c[k])
  BY <1>1 DEF RolloutTracking, ChildrenOK
<1>5. NoNewerThanSecret(c.secret)
  BY <1>2 DEF NoNewerThanSecret, CanLoad, Before
<1>6. \A k \in Mounted : NoNewer(f, k, t.hash[k], c[k])
  BY <1>1, <1>3 DEF NotAhead, NoNewerThanMounts
<1>7. c.secret.name = t.hash.secret.name
  BY <1>2, <1>3
<1>8. Before(t.hash.secret.name, t.hash.secret.data, c.secret.data)
  <2>1. CASE t.envFrom = None
    BY <1>2, <1>3, <2>1 DEF NotAhead, NoNewerThanSecret, Before
  <2>2. CASE t.envFrom # None
    BY <1>2, <1>3, <2>2 DEF NotAhead, NoNewerThanSecret
  <2>3. QED
    BY <2>1, <2>2
<1>9. NotAhead(f, c) /\ Follows(f, c, t.hash)
  BY <1>4, <1>5, <1>6, <1>7, <1>8 DEF NotAhead, Follows
<1>10. QED
  BY <1>9 DEF c

LEMMA PodStepKeeps ==
  ASSUME RolloutTypeInv, RolloutTypeInv', RolloutTracking, NothingComesBack,
         PodStep \/ PodRestartAny
  PROVE  RolloutTracking'
<1>1. UNCHANGED <<flows, deps, kids, cflows, cdeps, rec>>
  BY DEF PodStep, PodRestartAny, PodCreate, PodStart, PodExit, PodStop, PodRestart, SyncReport, vars, caches
<1>2. pods \in [Flows -> SUBSET Pod]
  BY DEF RolloutTypeInv, PodsOK
<1>3. ASSUME NEW f \in Flows, NEW q, PodOK(f, q), NEW p,
             pods' = [pods EXCEPT ![f] = (@ \ {p}) \cup {q}]
      PROVE  RolloutTracking'
  <2>1. \A g \in Flows : \A x \in pods'[g] : x \in pods[g] \/ PodOK(g, x)
    BY <1>2, <1>3
  <2>2. QED
    BY <1>1, <2>1, PodsMove
<1>4. ASSUME NEW f \in Flows, PodCreate(f) PROVE RolloutTracking'
  <2>1. PICK q : q = [template |-> TemplateOf(f), loaded |-> None]
    OBVIOUS
  <2>2. TemplateOK(f, TemplateOf(f))
    BY <1>4 DEF PodCreate, Wanted, RolloutTracking, ChildrenOK
  <2>3. PodOK(f, q)
    BY <2>1, <2>2 DEF PodOK
  <2>4. \A g \in Flows : \A x \in pods'[g] : x \in pods[g] \/ PodOK(g, x)
    BY <1>2, <1>4, <2>1, <2>3 DEF PodCreate
  <2>5. QED
    BY <1>1, <2>4, PodsMove
<1>5. ASSUME NEW f \in Flows, NEW p \in pods[f], PodStart(f, p) \/ PodExit(f, p) \/ PodRestart(f, p)
      PROVE  RolloutTracking'
  <2>1. p \in Pod /\ p.template \in Templates /\ TemplateOK(f, p.template)
    BY <1>2 DEF Pod, RolloutTracking, PodOK
  <2>2. PICK l : /\ l = None \/ (l = Contents(f, p.template) /\ CanLoad(f, p.template))
                 /\ pods' = [pods EXCEPT ![f] = (@ \ {p}) \cup {[p EXCEPT !.loaded = l]}]
    BY <1>5 DEF PodStart, PodExit, PodRestart
  <2>3. PICK q : q = [p EXCEPT !.loaded = l]
    OBVIOUS
  <2>4. q.template = p.template /\ q.loaded = l
    BY <2>1, <2>3 DEF Pod
  <2>5. l # None => NotAhead(f, l) /\ Follows(f, l, p.template.hash)
    BY <2>1, <2>2, PodStartLoads
  <2>6. PodOK(f, q)
    BY <2>1, <2>4, <2>5 DEF PodOK
  <2>7. QED
    BY <1>3, <2>2, <2>3, <2>6
<1>6. ASSUME NEW f \in Flows, SyncReport(f) \/ \E p \in pods[f] : PodStop(f, p)
      PROVE  RolloutTracking'
  <2>1. \A g \in Flows : \A x \in pods'[g] : x \in pods[g]
    BY <1>2, <1>6 DEF PodStop, SyncReport
  <2>2. QED
    BY <1>1, <2>1, PodsMove
<1>7. QED
  BY <1>4, <1>5, <1>6 DEF PodStep, PodRestartAny
LEMMA ControlStepKeeps ==
  ASSUME RolloutTypeInv, RolloutTypeInv', RolloutTracking, ReadingOK, NothingComesBack,
         ControlStep
  PROVE  RolloutTracking'
<1>1. pods' = pods
  BY DEF ControlStep
<1>2. CASE Edit \/ Collect \/ Resync \/ HandleAny
  BY <1>1, <1>2, EnvironmentKeeps
<1>3. CASE Inform
  BY <1>1, <1>3, InformKeeps
<1>4. CASE Crash
  BY <1>1, <1>4, CrashKeeps
<1>5. ASSUME NEW f \in queue, Start(f) PROVE RolloutTracking'
  <2>1. f \in Flows
    BY DEF RolloutTypeInv, TypeInv, TypeOK
  <2>2. QED
    BY <1>1, <1>5, <2>1, StartKeeps
<1>6. CASE ReadDep
  BY <1>1, <1>6, ReadDepKeeps
<1>7. CASE ApplyChild \/ ApplyFails
  BY <1>1, <1>7, ApplyKeepsTracking
<1>8. CASE ObserveDeploy
  BY <1>1, <1>8, ObserveDeployKeeps
<1>9. CASE PatchStatus \/ PatchStatusFails
  BY <1>1, <1>9, PatchKeeps
<1>10. QED
  BY <1>2, <1>3, <1>4, <1>5, <1>6, <1>7, <1>8, <1>9 DEF ControlStep, Worker

LEMMA RolloutTrackingStep ==
  ASSUME RolloutTypeInv, RolloutTypeInv', RolloutTracking, Tracking,
         [RNext]_rvars, [NothingComesBack]_rvars
  PROVE  RolloutTracking'
<1>1. NothingComesBack
  <2>1. CASE NothingComesBack
    BY <2>1
  <2>2. CASE UNCHANGED rvars
    <3>1. flows' = flows /\ deps' = deps
      BY <2>2 DEF rvars, vars
    <3>2. \A f \in Flows : flows[f] # Absent
      BY DEF RolloutTracking, CacheOK
    <3>3. QED
      BY <3>1, <3>2, UpToIsReflexive DEF NothingComesBack, SameContent
  <2>3. QED
    BY <2>1, <2>2
<1>2. CASE ControlStep
  BY <1>1, <1>2, ControlStepKeeps DEF Tracking
<1>3. CASE PodStep \/ PodRestartAny
  BY <1>1, <1>3, PodStepKeeps
<1>4. CASE UNCHANGED rvars
  <2>1. UNCHANGED <<flows, deps, kids, cflows, cdeps, rec, pods>>
    BY <1>4 DEF rvars, vars
  <2>2. \A f \in Flows : \A p \in pods'[f] : p \in pods[f]
    BY <2>1
  <2>3. QED
    BY <1>1, <2>1, <2>2, PodsMove
<1>5. QED
  BY <1>2, <1>3, <1>4 DEF RNext
-----------------------------------------------------------------------------
(* When the manager starts, everything was read from the same objects.     *)
LEMMA WhatIsRenderedIsThere ==
  ASSUME NEW spec \in FlowSpec, NEW d \in Readings, Outcome(spec, d).reason = "Rendered"
  PROVE  /\ Whole(spec)
         /\ \A o \in Sources(spec, d) : d[o] # Absent
         /\ SecretOf(spec, d) # None => d[SecretOf(spec, d)] # Absent
<1>1. Missing(spec, d) = {} /\ Whole(spec) /\ BadSources(spec) = {}
  BY RenderedMeans DEF Whole
<1>2. \A g \in Gets(spec, d) : d[g[2]] # Absent
  BY <1>1 DEF Missing
<1>3. Gets(spec, d) = PromptGets(spec) \cup ToolGets(spec) \cup ModelGets(spec, d)
  BY <1>1 DEF Gets
<1>4. ASSUME NEW i \in DOMAIN spec.prompts, spec.prompts[i].kind = "ref"
      PROVE  d[spec.prompts[i].name] # Absent
  <2>1. <<i, spec.prompts[i].name>> \in Gets(spec, d)
    BY <1>1, <1>3, <1>4 DEF PromptGets
  <2>2. QED
    BY <1>2, <2>1
<1>5. ASSUME NEW i \in DOMAIN spec.tools PROVE d[spec.tools[i]] # Absent
  <2>1. <<Len(spec.prompts) + i, spec.tools[i]>> \in Gets(spec, d)
    BY <1>3 DEF ToolGets
  <2>2. QED
    BY <1>2, <2>1
<1>6. ASSUME spec.model.kind = "ref" PROVE d[spec.model.name] # Absent
  <2>1. <<Listed(spec) + 1, spec.model.name>> \in Gets(spec, d)
    BY <1>3, <1>6 DEF ModelGets
  <2>2. QED
    BY <1>2, <2>1
<1>7. ASSUME NEW o, o # None, o = PluginOf(spec, d) PROVE d[o] # Absent
  <2>1. <<Listed(spec) + 2, o>> \in Gets(spec, d)
    BY <1>3, <1>7 DEF ModelGets
  <2>2. QED
    BY <1>2, <2>1
<1>8. ASSUME NEW o, o # None, o = SecretOf(spec, d) PROVE d[o] # Absent
  <2>1. <<Listed(spec) + 3, o>> \in Gets(spec, d)
    BY <1>3, <1>8 DEF ModelGets
  <2>2. QED
    BY <1>2, <2>1
<1>9. \A o \in Sources(spec, d) : d[o] # Absent
  BY <1>4, <1>5, <1>6, <1>7 DEF Sources
<1>10. QED
  BY <1>1, <1>8, <1>9

LEMMA InitRolloutTracking == RInit => RolloutTracking
<1> SUFFICES ASSUME RInit PROVE RolloutTracking
  OBVIOUS
<1>1. PICK start \in StartFlows : deps \in StartDeps /\ \A f \in Flows : IsUp(start, f)
  BY InitIsUp
<1>2. cflows = flows /\ cdeps = deps /\ rec = None
  BY DEF RInit
<1>3. \A o \in Deps : UpTo(o, cdeps[o], deps[o])
  BY <1>2, UpToIsReflexive
<1>4. ASSUME NEW f \in Flows
      PROVE  CacheOK(f) /\ ReadsOK(f) /\ ChildrenOK(f) /\ \A p \in pods[f] : PodOK(f, p)
  <2>1. PICK spec : spec = start[f].spec
    OBVIOUS
  <2>2. PICK c : c = ContentHash(spec, deps)
    OBVIOUS
  <2>3. /\ spec \in FlowSpec /\ deps \in Stores /\ deps \in Readings /\ c \in Hashes
        /\ Outcome(spec, deps).reason = "Rendered"
    BY <1>1, <2>1, <2>2, StartsRendered
  <2>4. /\ flows[f].spec = spec
        /\ kids[f] = [k \in Kinds |-> [owner |-> 0, body |-> Child(k, spec, deps)]]
        /\ \A p \in pods[f] : p.template = PodTemplate(spec, deps) /\ p.loaded \in {c, None}
    <3>1. IsUp(start, f)
      BY <1>1
    <3>2. flows[f].spec = spec
      BY <2>1, <3>1 DEF IsUp
    <3>3. kids[f] = [k \in Kinds |-> [owner |-> 0, body |-> Child(k, spec, deps)]]
      BY <2>1, <3>1 DEF IsUp
    <3>4. pods[f] = UpPods(spec, deps)
      BY <2>1, <3>1 DEF IsUp
    <3>5. \A p \in pods[f] : p.template = PodTemplate(spec, deps) /\ p.loaded \in {c, None}
      BY <2>2, <3>4 DEF UpPods
    <3>6. QED
      BY <3>2, <3>3, <3>5
  <2>5. flows[f] # Absent
    BY <1>1, UpIsTyped, RecordsAssumption
  <2>6. \A o \in Deps : Prospect(f)[o] = deps[o]
    BY <1>2 DEF Prospect, Reconciling
  <2>7. Prospect(f) = deps
    <3>1. Prospect(f) \in Stores
      BY InitRolloutTypeInv, ProspectType DEF RolloutTypeInv
    <3>2. QED
      BY <2>3, <2>6, <3>1 DEF Stores
  <2>8. /\ Whole(spec) /\ \A o \in Sources(spec, deps) : deps[o] # Absent
        /\ SecretOf(spec, deps) # None => deps[SecretOf(spec, deps)] # Absent
    BY <2>3, WhatIsRenderedIsThere
  <2>9. CacheOK(f)
    BY <1>2, <2>4, <2>5, <2>7, <2>8 DEF CacheOK, SameContent, Whole
  <2>10. ReadsOK(f)
    BY <1>2 DEF ReadsOK, Reconciling
  <2>11. ASSUME NEW k \in Mounted
         PROVE  /\ kids[f][k].body = Child(k, spec, deps) /\ c[k] = Child(k, spec, deps)
                /\ NoNewerThanMounts(f, k, c[k]) /\ NoNewer(f, k, c[k], c[k])
    <3>1. kids[f][k].body = Child(k, spec, deps)
      BY <2>4 DEF Mounted, Kinds
    <3>2. c[k] = Child(k, spec, deps)
      BY <2>2 DEF ContentHash, Child, Mounted
    <3>3. QED
      BY <2>4, <2>7, <3>1, <3>2, PieceIsReflexive DEF NoNewerThanMounts, NoNewer
  <2>12. c.secret = SecretPayload(spec, deps)
    BY <2>2 DEF ContentHash
  <2>13. NoNewerThanSecret(c.secret)
    BY <2>8, <2>12 DEF NoNewerThanSecret, SecretPayload, Before
  <2>14. NotAhead(f, c) /\ Follows(f, c, c)
    BY <2>11, <2>13 DEF NotAhead, Follows, Before
  <2>15. PICK t : t = PodTemplate(spec, deps)
    OBVIOUS
  <2>16. t.hash = c /\ t.envFrom = c.secret.name
    BY <2>2, <2>12, <2>15 DEF PodTemplate, SecretPayload
  <2>17. TemplateOK(f, t)
    BY <2>14, <2>16 DEF TemplateOK
  <2>18. kids[f]["deploy"] # Absent => TemplateOf(f) = t
    BY <2>4, <2>15 DEF TemplateOf, Kinds, Child
  <2>19. ChildrenOK(f)
    BY <2>11, <2>17, <2>18 DEF ChildrenOK
  <2>20. \A p \in pods[f] : PodOK(f, p)
    BY <2>4, <2>14, <2>15, <2>16, <2>17 DEF PodOK
  <2>21. QED
    BY <2>9, <2>10, <2>19, <2>20
<1>5. QED
  BY <1>3, <1>4 DEF RolloutTracking-----------------------------------------------------------------------------
(* At rest the first and the last of what was read are equal, and so is    *)
(* everything between.                                                     *)
LEMMA TrackedPodsAreFresh ==
  ASSUME RolloutTypeInv, Tracking, RolloutTracking, NEW f \in Flows, Idle(f),
         NEW p \in Live(pods[f]), p.template = TemplateOf(f)
  PROVE  p.template.hash = ContentHash(flows[f].spec, deps) /\ p.loaded = p.template.hash
<1>1. PICK spec : spec = flows[f].spec
  OBVIOUS
<1>2. PICK h : h = ContentHash(spec, deps)
  OBVIOUS
<1>3. PICK l : l = p.loaded
  OBVIOUS
<1>4. spec \in FlowSpec /\ deps \in Stores /\ deps \in Readings /\ l \in Hashes /\ l # None
  <2>1. p \in pods[f] /\ p.loaded # None
    BY DEF Live
  <2>2. p \in Pod
    BY <2>1 DEF RolloutTypeInv, PodsOK
  <2>3. deps \in Stores
    BY DEF RolloutTypeInv, TypeInv, TypeOK
  <2>4. QED
    BY <1>1, <1>3, <2>1, <2>2, <2>3, FlowsAreBehind, StoresAreReadings DEF Behind, Pod
<1>5. Outcome(spec, deps).reason = "Rendered" /\ cdeps = deps /\ ~Reconciling(f)
  BY <1>1 DEF Idle, Pending, Reconciling
<1>6. Prospect(f) = deps
  <2>1. \A o \in Deps : Prospect(f)[o] = deps[o]
    BY <1>5 DEF Prospect
  <2>2. Prospect(f) \in Stores
    BY ProspectType DEF RolloutTypeInv
  <2>3. QED
    BY <1>4, <2>1, <2>2 DEF Stores
<1>7. p.template = PodTemplate(spec, deps)
  <2>1. kids[f]["deploy"] = [owner |-> flows[f].uid, body |-> Child("deploy", spec, deps)]
    BY <1>1, <1>5, TrackingSettles DEF SettledChildren, Idle, Kinds
  <2>2. QED
    BY <2>1 DEF TemplateOf, Child
<1>8. p.template.hash = h
  BY <1>2, <1>7 DEF PodTemplate
<1>9. NotAhead(f, l) /\ Follows(f, l, h)
  BY <1>3, <1>4, <1>8 DEF Live, RolloutTracking, PodOK
<1>10. ToRead(spec, deps) = {}
  <2>1. \A o \in Deps : deps[o] # Unread
    BY <1>4, NamesAssumption DEF Stores
  <2>2. \A g \in Gets(spec, deps) : g[2] \in Deps
    BY <1>4, GetsType
  <2>3. QED
    BY <2>1, <2>2 DEF ToRead
<1>11. h \in Hashes
  BY <1>2, <1>4, <1>5, <1>10, RenderingType
<1>12. ASSUME NEW k \in Mounted PROVE l[k] = h[k]
  <2>1. PICK m : m = spec.model.name
    OBVIOUS
  <2>2. PICK pc : pc = PluginOf(spec, deps)
    OBVIOUS
  <2>3. h[k] = Child(k, spec, deps)
    BY <1>2 DEF ContentHash, Child, Mounted
  <2>4. PieceBefore(m, pc, k, l[k], h[k])
    BY <1>1, <1>6, <1>9, <2>1, <2>2, <2>3 DEF NotAhead, NoNewerThanMounts, NoNewer
  <2>5. PieceBefore(m, pc, k, h[k], l[k])
    BY <1>1, <1>9, <2>1, <2>2 DEF Follows, NoNewer
  <2>6. l[k] \in ChildBody(k) /\ h[k] \in ChildBody(k)
    BY <1>4, <1>11 DEF Hashes, ChildBody, Mounted
  <2>7. QED
    BY <2>4, <2>5, <2>6, PieceIsAntisymmetric
<1>13. l.secret = h.secret
  <2>1. l.secret.name = h.secret.name
    BY <1>9 DEF Follows
  <2>2. l.secret.data = h.secret.data
    <3>1. h.secret = SecretPayload(spec, deps)
      BY <1>2 DEF ContentHash
    <3>2. CASE h.secret.name = None
      BY <1>9, <2>1, <3>1, <3>2 DEF NotAhead, NoNewerThanSecret, SecretPayload
    <3>3. CASE h.secret.name # None
      <4>1. h.secret.data = deps[h.secret.name].data
        BY <3>1, <3>3 DEF SecretPayload
      <4>2. Before(h.secret.name, l.secret.data, h.secret.data)
        BY <1>9, <2>1, <3>3, <4>1 DEF NotAhead, NoNewerThanSecret
      <4>3. Before(h.secret.name, h.secret.data, l.secret.data)
        BY <1>9 DEF Follows
      <4>4. QED
        BY <4>2, <4>3, BeforeIsAntisymmetric
    <3>4. QED
      BY <3>2, <3>3
  <2>3. QED
    BY <1>4, <1>11, <2>1, <2>2 DEF Hashes
<1>14. l = h
  BY <1>4, <1>11, <1>12, <1>13 DEF Hashes, Mounted
<1>15. QED
  BY <1>1, <1>2, <1>3, <1>8, <1>14

LEMMA ForwardInvariant == ForwardSpec => [](RolloutTypeInv /\ Tracking /\ RolloutTracking)
<1>1. RInit => RolloutTypeInv /\ Tracking /\ RolloutTracking
  BY InitRolloutTypeInv, InitRolloutTracks, InitRolloutTracking
<1>2. RolloutTypeInv /\ Tracking /\ RolloutTracking /\ [RNext]_rvars /\ [NothingComesBack]_rvars
        => RolloutTypeInv' /\ Tracking' /\ RolloutTracking'
  BY RolloutStep, RolloutTrackingStep
<1>3. QED
  BY <1>1, <1>2, PTL DEF ForwardSpec, RSpec

(* What a Pod's template was hashed from, what its container loaded, what  *)
(* the ConfigMaps and the Secret hold and what the next reconcile will     *)
(* render were all read in this order, whatever edits, restarts, crashes   *)
(* and failing calls come between, as long as nothing comes back.          *)
THEOREM RolloutTracked == ForwardSpec => []RolloutTracking
BY ForwardInvariant, PTL

(* The hash annotation describes what the Pods run: with nothing left to   *)
(* do, what a container of the current template loaded is what the         *)
(* template's hash was taken of, unless content came back.                 *)
THEOREM HashesDescribePods == ForwardSpec => []HashDescribesPods
<1>1. RolloutTypeInv /\ Tracking /\ RolloutTracking => HashDescribesPods
  BY TrackedPodsAreFresh DEF HashDescribesPods
<1>2. QED
  BY <1>1, ForwardInvariant, PTL

(* No Pod is left with old content: once the rollout is done and nothing   *)
(* is left to do, every container runs what is rendered of the current     *)
(* prompts, tools, model and credentials, unless content came back.        *)
THEOREM NoPodIsStale == ForwardSpec => []NoStaleContent
<1>1. RolloutTypeInv /\ Tracking /\ RolloutTracking => NoStaleContent
  <2> SUFFICES ASSUME RolloutTypeInv, Tracking, RolloutTracking, NEW f \in Flows, Idle(f),
                      \A p \in pods[f] : p.template = TemplateOf(f), NEW p \in Live(pods[f])
               PROVE  p.loaded = ContentHash(flows[f].spec, deps)
    BY DEF NoStaleContent
  <2>1. p.template = TemplateOf(f)
    BY DEF Live
  <2>2. QED
    BY <2>1, TrackedPodsAreFresh
<1>2. QED
  BY <1>1, ForwardInvariant, PTL
=============================================================================
