---------------------------- MODULE SupportProofs -----------------------------
(***************************************************************************)
(* The types of the six controllers of Readiness and EvalController; that  *)
(* no status of the supporting objects stays wrong, that the chain of      *)
(* readiness agrees when all is quiet, and what a count of samples says;   *)
(* that an Eval gets its workload, its status says what became of it, and  *)
(* the time of the last run never goes back.                               *)
(***************************************************************************)
EXTENDS SupportTracking, FiniteSetTheorems, TLAPS

TypeInv == ReadinessTypeOK /\ EvalTypeOK

(* An object is where its kind says, and so is the controller for it.      *)
LEMMA ControllerOfKind ==
  ASSUME NEW c \in Controllers, NEW o \in c
  PROVE  ControllerOf(o) = c /\ o \in Owned
<1>1. \A d \in Controllers : o \in d => d = c
  BY KindsAssumption DEF Controllers
<1>2. \E d \in Controllers : o \in d
  OBVIOUS
<1>3. ControllerOf(o) \in Controllers /\ o \in ControllerOf(o)
  BY <1>2 DEF ControllerOf
<1>4. QED
  BY <1>1, <1>3 DEF Controllers, Owned

LEMMA OwnedHasController ==
  ASSUME NEW o \in Owned
  PROVE  ControllerOf(o) \in Controllers /\ o \in ControllerOf(o)
<1>1. \E d \in Controllers : o \in d
  BY DEF Controllers, Owned
<1>2. QED
  BY <1>1 DEF ControllerOf

LEMMA SpecTyped ==
  ASSUME NEW o \in Owned, NEW s \in SpecOf(o)
  PROVE  /\ s.ref \in Others \cup PluginConfigs \cup {None}
         /\ o \in PluginConfigs => s.sources \subseteq {"ref"} /\ s.ref \in Secrets \cup {None}
         /\ o \in Models => s.sources \subseteq {"ref"} /\ s.ref \in PluginConfigs \cup {None}
         /\ o \in Tools => s.sources \subseteq {"ref", "here"} /\ s.ref \in Flows \cup {None}
         /\ o \in Prompts => s.sources \subseteq {"here"}
         /\ o \in Datasets => /\ s.sources \subseteq {"ref", "here", "uri"}
                              /\ s.ref \in ConfigMaps \cup {None}
                              /\ s.body \in Texts \cup {None}
                              /\ s.format \in {"json", "jsonl", "csv"}
         /\ o \notin Datasets => s.body \in Data \cup {None}
         /\ "ref" \in s.sources => s.ref # None
         /\ "here" \in s.sources => s.body # None
  BY KindsAssumption DEF SpecOf, Owned, Others

-----------------------------------------------------------------------------
(* What a reconcile computes.                                              *)
LEMMA CountTyped ==
  ASSUME NEW format \in {"json", "jsonl", "csv"}, NEW text \in Text
  PROVE  countSamplesBytes(format, text) \in Nat \cup {Malformed}
  BY MarksAssumption DEF countSamplesBytes, Text

(* What may have been seen of the object referred to, when the reconcile   *)
(* comes to its end.                                                       *)
SeenSome(o, spec, seen) ==
  LooksUp(spec) => seen \in {Absent} \cup IF o \in Datasets THEN {None} \cup Texts
                                          ELSE {Failed, TRUE}

LEMMA OneSource ==
  ASSUME NEW S, S \subseteq {"ref", "here", "uri"}
  PROVE  Cardinality(S) = 1 <=> \E x : S = {x}
<1>1. IsFiniteSet({"ref"})
  BY FS_Singleton
<1>2. IsFiniteSet({"ref"} \cup {"here"})
  BY <1>1, FS_AddElement
<1>3. IsFiniteSet(({"ref"} \cup {"here"}) \cup {"uri"})
  BY <1>2, FS_AddElement
<1>4. S \in SUBSET (({"ref"} \cup {"here"}) \cup {"uri"})
  OBVIOUS
<1>5. IsFiniteSet(S)
  BY <1>3, <1>4, FS_Subset
<1>6. QED
  BY <1>5, FS_Singleton

LEMMA SamplesTyped ==
  ASSUME NEW o \in Datasets, NEW spec \in SpecOf(o), NEW seen,
         SeenSome(o, spec, seen), Reason(o, spec, seen) = "Ready"
  PROVE  Samples(spec, seen) \in Nat \cup {-1}
<1>1. o \in Owned /\ Texts \subseteq Text
  BY ReadinessAssumption DEF Owned
<1>2. Samples(spec, seen) # Malformed /\ (LooksUp(spec) => seen # Absent)
  BY DEF Reason
<1>3. CASE spec.sources = {"uri"}
  BY <1>3 DEF Samples
<1>4. CASE spec.sources = {"here"}
  BY <1>1, <1>2, <1>4, SpecTyped, CountTyped DEF Samples
<1>5. CASE spec.sources = {"ref"}
  <2>1. seen \in {None} \cup Texts
    BY <1>2, <1>5 DEF SeenSome, LooksUp
  <2>2. Samples(spec, seen) = IF seen = None THEN Malformed ELSE countSamplesBytes(spec.format, seen)
    BY <1>5 DEF Samples
  <2>3. QED
    BY <1>1, <1>2, <2>1, <2>2, SpecTyped, CountTyped
<1>6. CASE spec.sources \notin {{"uri"}, {"here"}, {"ref"}}
  <2>1. Cardinality(spec.sources) # 1
    <3>1. SUFFICES ASSUME Cardinality(spec.sources) = 1 PROVE FALSE
      OBVIOUS
    <3>2. spec.sources \subseteq {"ref", "here", "uri"}
      BY <1>1, SpecTyped
    <3>3. PICK x : spec.sources = {x}
      BY <3>1, <3>2, OneSource
    <3>4. QED
      BY <1>6, <3>2, <3>3
  <2>2. QED
    BY <2>1 DEF Reason
<1>7. QED
  BY <1>3, <1>4, <1>5, <1>6

LEMMA StatusTyped ==
  ASSUME NEW o \in Owned, NEW obj \in Object(o), NEW seen, SeenSome(o, obj.spec, seen)
  PROVE  ReconciledStatus(o, obj.status, obj, seen) \in Status
<1> DEFINE reason == Reason(o, obj.spec, seen)
<1>1. obj.spec \in SpecOf(o) /\ obj.gen \in Nat /\ obj.status \in Status
  BY DEF Object
<1>2. reason \in {"Ready", "InvalidSpec", "MissingDependency", "Error"}
  BY DEF Reason
<1>3. Condition(reason, obj.gen) \in Conditions
  BY <1>1, <1>2 DEF Condition, Conditions
<1>4. reason = "Ready" => Result(o, obj.spec, seen) \in Data \cup Flows \cup Int \cup {None}
  <2>1. CASE o \in Tools \cup Prompts
    BY <1>1, <2>1, SpecTyped, KindsAssumption DEF Result
  <2>2. CASE o \in Datasets
    <3>1. o \notin Tools /\ o \notin Prompts
      BY <2>2, KindsAssumption
    <3>2. Result(o, obj.spec, seen) = Samples(obj.spec, seen)
      BY <2>2, <3>1 DEF Result
    <3>3. QED
      BY <1>1, <2>2, <3>2, SamplesTyped
  <2>3. CASE o \notin Tools \cup Prompts \cup Datasets
    BY <2>3 DEF Result
  <2>4. QED
    BY <2>1, <2>2, <2>3
<1>5. obj.status.result \in Data \cup Flows \cup Int \cup {None}
  BY <1>1 DEF Status
<1> HIDE DEF reason
<1>6. QED
  BY <1>1, <1>3, <1>4, <1>5 DEF ReconciledStatus, Status, reason

LEMMA MergedTyped ==
  ASSUME NEW live \in Status, NEW orig \in Status, NEW upd \in Status
  PROVE  Merged(live, orig, upd) \in Status
  BY DEF Merged, Status

-----------------------------------------------------------------------------
(* The steps of users, informers and the controllers of Readiness.         *)
LEMMA PlanTyped ==
  ASSUME NEW p \in Plans
  PROVE  /\ \A o \in Owned : {p.start[o]} \cup p.writes[o] \subseteq SpecOf(o) \cup {Absent}
         /\ \A o \in Others : {p.start[o]} \cup p.writes[o] \subseteq ContentOf(o) \cup {Absent}
         /\ \A e \in Evals : {p.evals[e]} \cup p.evalWrites[e] \subseteq EvalSpec \cup {Absent}
         /\ p.max.changes \in Nat /\ p.max.faults \in Nat /\ p.max.runs \in Nat
  BY ReadinessAssumption, EvalAssumption

LEMMA NewTyped ==
  ASSUME NEW o \in Owned, NEW s \in SpecOf(o), NEW uid \in Nat, s # Absent
  PROVE  /\ New(s, uid) \in Object(o) /\ New(s, uid).gen = 1 /\ New(s, uid).spec = s
         /\ New(s, uid).uid = uid
<1>1. NoStatus \in Status
  BY DEF NoStatus, Status
<1>2. New(s, uid) = [uid |-> uid, spec |-> s, gen |-> 1, status |-> NoStatus]
  BY DEF New
<1>3. QED
  BY <1>1, <1>2 DEF Object

(* Everything but the objects of others, as it was.                        *)
LEMMA ObjectsStay ==
  ASSUME TypeInv, UNCHANGED <<objs, cobjs, plan>>, changes' \in {changes, changes + 1}
  PROVE  Objects(objs)' /\ Objects(cobjs)'
<1>1. changes \in Nat
  BY PlanTyped DEF TypeInv, ReadinessTypeOK
<1>2. changes' \in Nat /\ changes <= changes'
  BY <1>1
<1>3. QED
  BY <1>1, <1>2 DEF TypeInv, ReadinessTypeOK, Objects

LEMMA ObjectWriteTyped ==
  ASSUME TypeInv, UNCHANGED plan,
         NEW o \in Owned, NEW s \in plan.writes[o], ObjectWrite(o, s)
  PROVE  ReadinessTypeOK'
<1>1. /\ plan \in Plans /\ changes \in Nat /\ changes' = changes + 1
      /\ changes' \in 0..plan'.max.changes
  BY PlanTyped DEF TypeInv, ReadinessTypeOK, ObjectWrite, Change
<1>2. s \in SpecOf(o) \cup {Absent}
  BY <1>1, PlanTyped
<1>3. objs = [q \in Owned |-> objs[q]] /\ (objs[o] # Absent => objs[o] \in Object(o))
  BY DEF TypeInv, ReadinessTypeOK, Objects
<1>4. objs' = [q \in Owned |-> objs'[q]] /\ \A q \in Owned \ {o} : objs'[q] = objs[q]
  BY <1>3 DEF ObjectWrite
<1>5. objs'[o] # Absent => /\ objs'[o] \in Object(o) /\ objs'[o].gen \in 1..(changes' + 1)
                           /\ objs'[o].spec = s
  <2>1. CASE s = Absent
    <3>1. objs'[o] = New(s, changes')
      BY <1>3, <2>1 DEF ObjectWrite
    <3>2. QED
      BY <2>1, <3>1 DEF New
  <2>2. CASE s # Absent /\ objs[o] = Absent
    <3>1. objs'[o] = New(s, changes')
      BY <1>3, <2>2 DEF ObjectWrite
    <3>2. QED
      BY <1>1, <1>2, <2>2, <3>1, NewTyped
  <2>3. CASE s # Absent /\ objs[o] # Absent
    <3>1. objs[o] \in Object(o) /\ objs[o].gen \in 1..(changes + 1)
      BY <2>3 DEF TypeInv, ReadinessTypeOK, Objects
    <3>2. objs'[o] = [uid |-> objs[o].uid, spec |-> s, gen |-> objs[o].gen + 1,
                      status |-> objs[o].status]
      <4>1. objs'[o] = Edited(objs[o], s)
        BY <1>3, <2>3 DEF ObjectWrite
      <4>2. QED
        BY <3>1, <4>1 DEF Object, Edited
    <3>3. objs[o].uid \in Nat /\ objs[o].status \in Status /\ s \in SpecOf(o)
      BY <1>2, <2>3, <3>1 DEF Object
    <3>4. objs[o].gen + 1 \in 1..(changes' + 1)
      BY <1>1, <3>1
    <3>5. QED
      BY <3>2, <3>3, <3>4 DEF Object
  <2>4. QED
    BY <2>1, <2>2, <2>3
<1>6. Objects(objs)'
  <2>1. ASSUME NEW q \in Owned, objs'[q] # Absent
        PROVE  /\ objs'[q] \in Object(q) /\ objs'[q].gen \in 1..(changes' + 1)
               /\ objs'[q].spec \in plan'.writes[q] \cup {plan'.start[q]}
    <3>1. CASE q = o
      BY <1>5, <2>1, <3>1
    <3>2. CASE q # o
      BY <1>1, <1>4, <2>1, <3>2 DEF TypeInv, ReadinessTypeOK, Objects
    <3>3. QED
      BY <3>1, <3>2
  <2>2. QED
    BY <1>4, <2>1 DEF Objects
<1>7. Objects(cobjs)'
  BY <1>1 DEF TypeInv, ReadinessTypeOK, Objects, ObjectWrite, caches
<1>8. QED
  BY <1>1, <1>6, <1>7 DEF TypeInv, ReadinessTypeOK, ObjectWrite, caches, Contents
LEMMA OtherWriteTyped ==
  ASSUME TypeInv, UNCHANGED plan,
         NEW o \in Others, NEW v \in plan.writes[o], OtherWrite(o, v)
  PROVE  ReadinessTypeOK'
<1>1. plan \in Plans /\ changes \in Nat /\ changes' = changes + 1 /\ changes' \in 0..plan'.max.changes
  BY PlanTyped DEF TypeInv, ReadinessTypeOK, OtherWrite, Change
<1>2. v \in ContentOf(o) \cup {Absent}
  BY <1>1, PlanTyped
<1>3. Contents(others)'
  BY <1>2 DEF TypeInv, ReadinessTypeOK, OtherWrite, Contents
<1>4. Objects(objs)' /\ Objects(cobjs)'
  BY <1>1, ObjectsStay DEF OtherWrite, caches
<1>5. QED
  BY <1>1, <1>3, <1>4 DEF TypeInv, ReadinessTypeOK, OtherWrite, caches, Contents

LEMMA InformTyped ==
  ASSUME TypeInv, UNCHANGED plan, InformAny
  PROVE  ReadinessTypeOK'
<1>1. CASE \E o \in Owned : InformObject(o)
  <2>1. PICK o \in Owned : InformObject(o)
    BY <1>1
  <2>2. UNCHANGED <<objs, others, cothers, recs, changes, faults, plan>>
    BY <2>1 DEF InformObject, cluster
  <2>3. Objects(cobjs)'
    BY <2>1, <2>2 DEF TypeInv, ReadinessTypeOK, Objects, InformObject
  <2>4. QED
    BY <2>1, <2>2, <2>3 DEF TypeInv, ReadinessTypeOK, Objects, Contents, InformObject
<1>2. CASE \E o \in Others : InformOther(o)
  <2>1. PICK o \in Others : InformOther(o)
    BY <1>2
  <2>2. UNCHANGED <<objs, others, cobjs, queue, recs, changes, faults, plan>>
    BY <2>1 DEF InformOther, cluster
  <2>3. Contents(cothers)'
    BY <2>1, <2>2 DEF TypeInv, ReadinessTypeOK, Contents, InformOther
  <2>4. {o} \ ConfigMaps \subseteq Secrets \cup Flows
    BY <2>1 DEF Others
  <2>5. notes' \subseteq PluginConfigs \cup Secrets \cup Flows
    BY <2>1, <2>4 DEF InformOther, TypeInv, ReadinessTypeOK
  <2>6. QED
    BY <2>2, <2>3, <2>5 DEF TypeInv, ReadinessTypeOK, Objects, Contents
<1>3. QED
  BY <1>1, <1>2 DEF InformAny

LEMMA HandleTyped ==
  ASSUME TypeInv, UNCHANGED plan, HandleAny
  PROVE  ReadinessTypeOK'
<1>1. PICK n \in notes : Handle(n)
  BY DEF HandleAny
<1>2. Woken(n) \subseteq Owned
  BY DEF Woken, WatchersOf, Owned
<1>3. QED
  BY <1>1, <1>2 DEF Handle, cluster, caches, TypeInv, ReadinessTypeOK, Objects, Contents

(* A reconcile that runs is about an object of its controller.             *)
LEMMA RunningTyped ==
  ASSUME TypeInv, NEW c \in Controllers, recs[c] # None
  PROVE  /\ recs[c].obj \in c /\ recs[c].obj \in Owned /\ ControllerOf(recs[c].obj) = c
         /\ recs[c] \in ReconcileOf(recs[c].obj)
         /\ recs[c].orig \in Object(recs[c].obj)
         /\ ~Waiting(c) => SeenSome(recs[c].obj, recs[c].orig.spec, recs[c].seen)
<1>1. PICK o \in c : recs[c] \in ReconcileOf(o)
  BY DEF TypeInv, ReadinessTypeOK
<1>2. recs[c].obj = o /\ recs[c].orig \in Object(o)
  BY <1>1 DEF ReconcileOf
<1>3. recs[c].seen \in {Unread, Absent} \cup IF o \in Datasets THEN {None} \cup Texts
                                             ELSE {Failed, TRUE}
  BY <1>1 DEF ReconcileOf
<1>4. ~Waiting(c) => SeenSome(o, recs[c].orig.spec, recs[c].seen)
  BY <1>3 DEF Waiting, SeenSome
<1>5. QED
  BY <1>1, <1>2, <1>4, ControllerOfKind

(* One reconcile moves.                                                    *)
LEMMA RecsTyped ==
  ASSUME TypeInv, NEW c \in Controllers, NEW r, recs' = [recs EXCEPT ![c] = r],
         r # None => \E o \in c : r \in ReconcileOf(o)
  PROVE  /\ recs' = [d \in Controllers |-> recs'[d]]
         /\ \A d \in Controllers : recs'[d] # None => \E o \in d : recs'[d] \in ReconcileOf(o)
  BY DEF TypeInv, ReadinessTypeOK

LEMMA StartTyped ==
  ASSUME TypeInv, UNCHANGED plan, NEW c \in Controllers, NEW o \in c, Start(o)
  PROVE  ReadinessTypeOK'
<1>1. ControllerOf(o) = c /\ o \in Owned
  BY ControllerOfKind
<1> DEFINE r == IF cobjs[o] = Absent THEN None
                ELSE [obj |-> o, orig |-> cobjs[o], seen |-> Unread]
<1>2. r # None => r \in ReconcileOf(o)
  BY <1>1 DEF TypeInv, ReadinessTypeOK, Objects, ReconcileOf
<1>3. recs' = [recs EXCEPT ![c] = r]
  BY <1>1 DEF Start
<1> HIDE DEF r
<1>4. /\ recs' = [d \in Controllers |-> recs'[d]]
      /\ \A d \in Controllers : recs'[d] # None => \E q \in d : recs'[d] \in ReconcileOf(q)
  BY <1>2, <1>3, RecsTyped
<1>5. queue' \subseteq queue /\ UNCHANGED <<objs, others, cobjs, cothers, notes, changes, faults>>
  BY DEF Start, cluster, caches
<1>6. QED
  BY <1>4, <1>5 DEF TypeInv, ReadinessTypeOK, Objects, Contents
(* What a lookup sees has the type the reconcile keeps it as.              *)
LEMMA SeenTyped ==
  ASSUME TypeInv, NEW o \in Owned, NEW spec \in SpecOf(o), LooksUp(spec)
  PROVE  Seen(o, spec, cobjs, cothers)
           \in {Absent} \cup IF o \in Datasets THEN {None} \cup Texts ELSE {Failed, TRUE}
<1>1. CASE o \in Models
  BY <1>1, KindsAssumption DEF Seen
<1>2. CASE o \in Datasets
  <2>1. spec.ref \in ConfigMaps /\ spec.ref \in Others
    BY <1>2, SpecTyped DEF LooksUp, Others
  <2>2. cothers[spec.ref] \in Texts \cup {None, Absent}
    BY <2>1 DEF TypeInv, ReadinessTypeOK, Contents, ContentOf
  <2>3. QED
    BY <1>2, <2>2, KindsAssumption DEF Seen
<1>3. CASE o \notin Models \cup Datasets
  BY <1>3 DEF Seen
<1>4. QED
  BY <1>1, <1>2, <1>3

LEMMA LookUpTyped ==
  ASSUME TypeInv, UNCHANGED plan, NEW c \in Controllers, LookUp(c)
  PROVE  ReadinessTypeOK'
<1>1. recs[c] # None /\ LooksUp(recs[c].orig.spec)
  BY DEF LookUp, Waiting
<1> DEFINE o == recs[c].obj
           r == [recs[c] EXCEPT !.seen = Seen(o, recs[c].orig.spec, cobjs, cothers)]
<1>2. o \in c /\ o \in Owned /\ recs[c] \in ReconcileOf(o) /\ recs[c].orig.spec \in SpecOf(o)
  BY <1>1, RunningTyped DEF Object
<1>3. r \in ReconcileOf(o)
  BY <1>1, <1>2, SeenTyped DEF ReconcileOf
<1>4. recs' = [recs EXCEPT ![c] = r]
  BY DEF LookUp
<1> HIDE DEF r, o
<1>5. /\ recs' = [d \in Controllers |-> recs'[d]]
      /\ \A d \in Controllers : recs'[d] # None => \E q \in d : recs'[d] \in ReconcileOf(q)
  BY <1>2, <1>3, <1>4, RecsTyped
<1>6. UNCHANGED <<objs, others, cobjs, cothers, queue, notes, changes, faults>>
  BY DEF LookUp, cluster, caches
<1>7. QED
  BY <1>5, <1>6 DEF TypeInv, ReadinessTypeOK, Objects, Contents

LEMMA FaultTyped ==
  ASSUME TypeInv, UNCHANGED plan, Fault
  PROVE  faults' \in 0..plan'.max.faults
  BY PlanTyped DEF TypeInv, ReadinessTypeOK, Fault

LEMMA LookUpFailsTyped ==
  ASSUME TypeInv, UNCHANGED plan, NEW c \in Controllers, LookUpFails(c)
  PROVE  ReadinessTypeOK'
<1>1. recs[c] # None
  BY DEF LookUpFails, Waiting
<1> DEFINE o == recs[c].obj
           r == IF c = PluginConfigs THEN [recs[c] EXCEPT !.seen = Failed] ELSE None
<1>2. o \in c /\ o \in Owned /\ recs[c] \in ReconcileOf(o)
  BY <1>1, RunningTyped
<1>3. r # None => r \in ReconcileOf(o)
  <2>1. SUFFICES ASSUME c = PluginConfigs PROVE [recs[c] EXCEPT !.seen = Failed] \in ReconcileOf(o)
    BY DEF r
  <2>2. o \notin Datasets
    BY <1>2, <2>1, KindsAssumption
  <2>3. QED
    BY <1>2, <2>2 DEF ReconcileOf
<1>4. recs' = [recs EXCEPT ![c] = r]
  BY DEF LookUpFails
<1> HIDE DEF r, o
<1>5. /\ recs' = [d \in Controllers |-> recs'[d]]
      /\ \A d \in Controllers : recs'[d] # None => \E q \in d : recs'[d] \in ReconcileOf(q)
  BY <1>2, <1>3, <1>4, RecsTyped
<1>6. UNCHANGED <<objs, others, cobjs, cothers, notes, changes>> /\ queue' \subseteq queue \cup {o}
  BY DEF LookUpFails, cluster, caches, o
<1>7. faults' \in 0..plan'.max.faults
  BY FaultTyped DEF LookUpFails
<1>8. QED
  BY <1>2, <1>5, <1>6, <1>7 DEF TypeInv, ReadinessTypeOK, Objects, Contents

(* A patch that lands on an object replaces its status, and nothing else.  *)
LEMMA PatchedTyped ==
  ASSUME TypeInv, NEW c \in Controllers, Patching(c), objs[recs[c].obj] # Absent, Patched(c)
  PROVE  LET o == recs[c].obj
             upd == ReconciledStatus(o, recs[c].orig.status, recs[c].orig, recs[c].seen)
         IN  /\ objs' = [q \in Owned |-> objs'[q]] /\ \A q \in Owned \ {o} : objs'[q] = objs[q]
             /\ upd \in Status
             /\ objs'[o] = [uid |-> objs[o].uid, spec |-> objs[o].spec, gen |-> objs[o].gen,
                            status |-> Merged(objs[o].status, recs[c].orig.status, upd)]
             /\ objs'[o] \in Object(o)
<1> DEFINE o == recs[c].obj
           upd == ReconciledStatus(o, recs[c].orig.status, recs[c].orig, recs[c].seen)
           st == Merged(objs[o].status, recs[c].orig.status, upd)
<1>1. /\ recs[c] # None /\ o \in Owned /\ recs[c].orig \in Object(o)
      /\ SeenSome(o, recs[c].orig.spec, recs[c].seen)
  BY RunningTyped DEF Patching
<1>2. upd \in Status
  BY <1>1, StatusTyped
<1>3. objs = [q \in Owned |-> objs[q]] /\ objs[o] \in Object(o)
  BY <1>1 DEF TypeInv, ReadinessTypeOK, Objects
<1>4. st \in Status
  BY <1>1, <1>2, <1>3, MergedTyped DEF Object
<1>5. objs' = [objs EXCEPT ![o].status = st]
  BY DEF Patched
<1> HIDE DEF st, upd, o
<1>6. objs' = [q \in Owned |-> objs'[q]] /\ \A q \in Owned \ {o} : objs'[q] = objs[q]
  BY <1>3, <1>5
<1>7. objs'[o] = [objs[o] EXCEPT !.status = st]
  BY <1>1, <1>3, <1>5
<1>8. objs'[o] = [uid |-> objs[o].uid, spec |-> objs[o].spec, gen |-> objs[o].gen, status |-> st]
  BY <1>3, <1>7 DEF Object
<1>9. objs'[o] \in Object(o)
  BY <1>3, <1>4, <1>8 DEF Object
<1>10. QED
  BY <1>2, <1>6, <1>8, <1>9 DEF o, upd, st

LEMMA PatchTyped ==
  ASSUME TypeInv, UNCHANGED plan, NEW c \in Controllers, PatchStatus(c) \/ PatchStatusFails(c)
  PROVE  ReadinessTypeOK'
<1> DEFINE o == recs[c].obj
<1>1. Patching(c) /\ recs[c] # None
  BY DEF PatchStatus, PatchStatusFails, Patching
<1>2. o \in Owned
  BY <1>1, RunningTyped
<1>3. objs' = objs \/ (objs[o] # Absent /\ Patched(c))
  BY DEF PatchStatus, PatchStatusFails
<1>4. UNCHANGED <<others, cobjs, cothers, notes, changes>> /\ queue' \subseteq queue \cup {o}
  BY DEF PatchStatus, PatchStatusFails, caches
<1>5. Objects(objs)'
  <2>1. CASE objs' = objs
    BY <1>4, <2>1 DEF TypeInv, ReadinessTypeOK, Objects
  <2>2. CASE objs[o] # Absent /\ Patched(c)
    <3>1. /\ objs' = [q \in Owned |-> objs'[q]] /\ \A q \in Owned \ {o} : objs'[q] = objs[q]
          /\ objs'[o] \in Object(o)
      BY <1>1, <2>2, PatchedTyped
    <3>2. \E st : objs'[o] = [uid |-> objs[o].uid, spec |-> objs[o].spec, gen |-> objs[o].gen,
                             status |-> st]
      BY <1>1, <2>2, PatchedTyped
    <3>3. objs'[o].gen = objs[o].gen /\ objs'[o].spec = objs[o].spec
      BY <3>2
    <3>4. QED
      BY <1>2, <1>4, <2>2, <3>1, <3>3 DEF TypeInv, ReadinessTypeOK, Objects
  <2>3. QED
    BY <1>3, <2>1, <2>2
<1>6. recs' = [recs EXCEPT ![c] = None]
  BY DEF PatchStatus, PatchStatusFails
<1>7. /\ recs' = [d \in Controllers |-> recs'[d]]
      /\ \A d \in Controllers : recs'[d] # None => \E q \in d : recs'[d] \in ReconcileOf(q)
  BY <1>6, RecsTyped
<1>8. faults' \in 0..plan'.max.faults
  <2>1. CASE PatchStatus(c)
    BY <2>1 DEF PatchStatus, TypeInv, ReadinessTypeOK
  <2>2. CASE PatchStatusFails(c)
    BY <2>2, FaultTyped DEF PatchStatusFails
  <2>3. QED
    BY <2>1, <2>2
<1>9. QED
  BY <1>2, <1>4, <1>5, <1>7, <1>8 DEF TypeInv, ReadinessTypeOK, Objects, Contents

LEMMA CrashTyped ==
  ASSUME TypeInv, UNCHANGED plan, Crash
  PROVE  ReadinessTypeOK'
<1>1. UNCHANGED <<objs, others, changes>> /\ cobjs' = objs /\ cothers' = others /\ notes' = {}
  BY DEF Crash, cluster
<1>2. Existing(objs) \subseteq Owned
  BY DEF Existing, TypeInv, ReadinessTypeOK, Objects
<1>3. recs' = [c \in Controllers |-> None] /\ queue' = Existing(objs)
  BY DEF Crash
<1>4. faults' \in 0..plan'.max.faults
  BY FaultTyped DEF Crash
<1>5. Objects(objs)' /\ Objects(cobjs)'
  BY <1>1 DEF TypeInv, ReadinessTypeOK, Objects
<1>6. QED
  BY <1>1, <1>2, <1>3, <1>4, <1>5 DEF TypeInv, ReadinessTypeOK, Contents
-----------------------------------------------------------------------------
(* The steps around the Eval controller.  To the other controllers they    *)
(* are changes of ConfigMaps made by runs, if not a restart.               *)
RunsOf(e) == {w \in {jobs[e], crons[e]} : w # Absent}

Aside ==
  /\ UNCHANGED <<objs, cobjs, cothers, notes, queue, recs>>
  /\ changes' \in {changes, changes + 1} /\ changes' \in 0..plan.max.changes
  /\ faults' \in 0..plan.max.faults
  /\ \/ others' = others
     \/ \E e \in Evals, text \in Outputs : \E w \in RunsOf(e) :
          others' = [others EXCEPT ![w.pod.sink] = text]

LEMMA EvalStepAside ==
  ASSUME TypeInv, UNCHANGED plan, EvalStep
  PROVE  Aside \/ Crash
<1>1. changes \in 0..plan.max.changes /\ faults \in 0..plan.max.faults
  BY DEF TypeInv, ReadinessTypeOK
<1>2. Fault => faults' \in 0..plan.max.faults
  BY FaultTyped
<1>3. Change => changes' = changes + 1 /\ changes' \in 0..plan.max.changes
  BY PlanTyped DEF TypeInv, ReadinessTypeOK, Change
<1>4. UNCHANGED readinessVars => Aside
  BY <1>1 DEF readinessVars, cluster, caches, Aside
<1>5. CASE EvalUsers
  BY <1>1, <1>3, <1>5 DEF EvalUsers, EvalWrite, JobDelete, cluster, caches, Aside
<1>6. CASE EvalCluster
  <2>1. CASE \E e \in Evals : JobStart(e) \/ JobFail(e)
    BY <1>4, <2>1 DEF JobStart, JobFail
  <2>2. ASSUME NEW e \in Evals, NEW text \in Outputs, JobComplete(e, text) \/ CronRun(e, text)
        PROVE  Aside
    <3>1. PICK w \in RunsOf(e) : Written(w.pod, text)
      BY <2>2 DEF JobComplete, CronRun, RunsOf
    <3>2. others' = others \/ others' = [others EXCEPT ![w.pod.sink] = text]
      BY <3>1 DEF Written
    <3>3. UNCHANGED <<objs, cobjs, cothers, notes, queue, recs, changes, faults>>
      BY <3>1 DEF Written, caches
    <3>4. QED
      BY <1>1, <3>2, <3>3 DEF Aside
  <2>3. QED
    BY <1>6, <2>1, <2>2 DEF EvalCluster
<1>7. CASE EvalCollect \/ EvalInform
  BY <1>4, <1>7 DEF EvalCollect, EvalInform, JobCollect, CronCollect, InformEval, InformJob
<1>8. CASE EvalWorker
  BY <1>4, <1>8 DEF EvalWorker, EvalStart, ReadFlow, ReadDataset, ApplyCronJob, GetJob, CreateJob,
                    ReadSink, EvalPatch, EvalConflict, EvalReads
<1>9. CASE EvalFails \/ SinkFails
  BY <1>1, <1>2, <1>9 DEF EvalFails, SinkFails, cluster, caches, Aside
<1>10. CASE EvalCrash
  BY <1>10 DEF EvalCrash
<1>11. QED
  BY <1>5, <1>6, <1>7, <1>8, <1>9, <1>10 DEF EvalStep

LEMMA AsideTyped ==
  ASSUME TypeInv, UNCHANGED plan, Aside
  PROVE  ReadinessTypeOK'
<1>1. ASSUME NEW e \in Evals, NEW text \in Outputs, NEW w \in RunsOf(e),
             others' = [others EXCEPT ![w.pod.sink] = text]
      PROVE  Contents(others)'
  <2>1. w \in Job \cup Cron
    BY <1>1 DEF RunsOf, TypeInv, EvalTypeOK, Children
  <2>2. w.pod.sink \in ConfigMaps
    BY <2>1 DEF Job, Cron, Pod
  <2>3. w.pod.sink \in Others /\ text \in ContentOf(w.pod.sink)
    BY <2>2, EvalAssumption DEF Others, ContentOf
  <2>4. QED
    BY <1>1, <2>3 DEF TypeInv, ReadinessTypeOK, Contents
<1>2. Contents(others)'
  BY <1>1 DEF Aside, TypeInv, ReadinessTypeOK, Contents
<1>3. Objects(objs)' /\ Objects(cobjs)'
  BY ObjectsStay DEF Aside
<1>4. QED
  BY <1>2, <1>3 DEF Aside, TypeInv, ReadinessTypeOK, Contents

LEMMA ReadinessStepTyped ==
  ASSUME TypeInv, UNCHANGED plan, ReadinessStep
  PROVE  ReadinessTypeOK'
<1>1. CASE Users
  BY <1>1, ObjectWriteTyped, OtherWriteTyped DEF Users
<1>2. CASE InformAny \/ HandleAny
  BY <1>2, InformTyped, HandleTyped
<1>3. CASE Fails
  BY <1>3, LookUpFailsTyped, PatchTyped DEF Fails
<1>4. CASE \E c \in Controllers : Work(c)
  BY <1>4, StartTyped, LookUpTyped, PatchTyped DEF Work
<1>5. QED
  BY <1>1, <1>2, <1>3, <1>4 DEF ReadinessStep

LEMMA ReadinessTyped ==
  ASSUME TypeInv, [Next]_allVars
  PROVE  ReadinessTypeOK'
<1>1. CASE UNCHANGED allVars
  BY <1>1 DEF allVars, readinessVars, cluster, caches, TypeInv, ReadinessTypeOK, Objects, Contents
<1>2. CASE Next
  BY <1>2, ReadinessStepTyped, EvalStepAside, AsideTyped, CrashTyped DEF Next, Step
<1>3. QED
  BY <1>1, <1>2
-----------------------------------------------------------------------------
(* The steps of the Eval controller and of what runs its Jobs.             *)
LEMMA JobsTyped ==
  ASSUME TypeInv, NEW e \in Evals, NEW j \in Job \cup {Absent},
         jobs' = jobs \/ jobs' = [jobs EXCEPT ![e] = j]
  PROVE  Children(jobs, Job)'
  BY DEF TypeInv, EvalTypeOK, Children

LEMMA CronsTyped ==
  ASSUME TypeInv, NEW e \in Evals, NEW cron \in Cron \cup {Absent},
         crons' = crons \/ crons' = [crons EXCEPT ![e] = cron]
  PROVE  Children(crons, Cron)'
  BY DEF TypeInv, EvalTypeOK, Children

LEMMA ChildrenStay ==
  ASSUME TypeInv
  PROVE  /\ UNCHANGED evals => Children(evals, EvalObject)'
         /\ UNCHANGED cevals => Children(cevals, EvalObject)'
         /\ UNCHANGED jobs => Children(jobs, Job)'
         /\ UNCHANGED cjobs => Children(cjobs, Job)'
         /\ UNCHANGED crons => Children(crons, Cron)'
  BY DEF TypeInv, EvalTypeOK, Children

LEMMA EvalWriteTyped ==
  ASSUME TypeInv, UNCHANGED plan, NEW e \in Evals, NEW s \in plan.evalWrites[e], EvalWrite(e, s)
  PROVE  EvalTypeOK'
<1>1. changes' \in Nat /\ s \in EvalSpec \cup {Absent}
  BY PlanTyped DEF EvalWrite, Change, TypeInv, ReadinessTypeOK
<1>2. evals = [f \in Evals |-> evals[f]] /\ evals[e] \in EvalObject \cup {Absent}
  BY DEF TypeInv, EvalTypeOK, Children
<1>3. evals' = [f \in Evals |-> evals'[f]] /\ \A f \in Evals \ {e} : evals'[f] = evals[f]
  BY <1>2 DEF EvalWrite
<1>4. evals'[e] \in EvalObject \cup {Absent}
  <2>1. CASE s = Absent
    BY <1>2, <2>1 DEF EvalWrite
  <2>2. CASE s # Absent /\ evals[e] = Absent
    <3>1. evals'[e] = [uid |-> changes', spec |-> s, gen |-> 1, status |-> NoEvalStatus]
      BY <1>2, <2>2 DEF EvalWrite
    <3>2. NoEvalStatus \in EvalStatus
      BY DEF NoEvalStatus, EvalStatus
    <3>3. QED
      BY <1>1, <2>2, <3>1, <3>2 DEF EvalObject
  <2>3. CASE s # Absent /\ evals[e] # Absent
    <3>1. evals'[e] = Edited(evals[e], s)
      BY <1>2, <2>3 DEF EvalWrite
    <3>2. evals'[e] = [uid |-> evals[e].uid, spec |-> s, gen |-> evals[e].gen + 1,
                       status |-> evals[e].status]
      BY <1>2, <2>3, <3>1 DEF Edited, EvalObject
    <3>3. s \in EvalSpec /\ evals[e].uid \in Nat /\ evals[e].gen + 1 \in Nat /\ evals[e].status \in EvalStatus
      BY <1>1, <1>2, <2>3 DEF EvalObject
    <3>4. QED
      BY <3>2, <3>3 DEF EvalObject
  <2>4. QED
    BY <2>1, <2>2, <2>3
<1>5. Children(evals, EvalObject)'
  BY <1>3, <1>4 DEF TypeInv, EvalTypeOK, Children
<1>6. QED
  BY <1>5, ChildrenStay DEF EvalWrite, TypeInv, EvalTypeOK

LEMMA JobStepsTyped ==
  ASSUME TypeInv, UNCHANGED plan, NEW e \in Evals,
         \/ JobDelete(e) \/ JobCollect(e) \/ JobStart(e) \/ JobFail(e)
         \/ \E text \in Outputs : JobComplete(e, text)
  PROVE  EvalTypeOK'
<1>1. PICK j \in Job \cup {Absent} : jobs' = [jobs EXCEPT ![e] = j]
  <2>1. jobs = [f \in Evals |-> jobs[f]] /\ jobs[e] \in Job /\ runs \in Nat
    BY PlanTyped DEF JobDelete, JobCollect, JobGone, JobStart, JobFail, JobComplete,
                     TypeInv, ReadinessTypeOK, EvalTypeOK, Children
  <2>2. CASE JobDelete(e) \/ JobCollect(e)
    BY <2>2 DEF JobDelete, JobCollect, JobGone
  <2>3. CASE JobStart(e) \/ JobFail(e)
    <3>1. PICK state \in {"active", "failed"} : jobs' = [jobs EXCEPT ![e].state = state]
      BY <2>3 DEF JobStart, JobFail
    <3>2. [jobs[e] EXCEPT !.state = state] \in Job
      BY <2>1 DEF Job
    <3>3. jobs' = [jobs EXCEPT ![e] = [jobs[e] EXCEPT !.state = state]]
      BY <2>1, <3>1
    <3>4. QED
      BY <3>2, <3>3
  <2>4. CASE \E text \in Outputs : JobComplete(e, text)
    <3>1. runs' \in Nat /\ jobs' = [jobs EXCEPT ![e].state = "complete", ![e].time = runs']
      BY <2>1, <2>4 DEF JobComplete, Written
    <3>2. [jobs[e] EXCEPT !.state = "complete", !.time = runs'] \in Job
      BY <2>1, <3>1 DEF Job
    <3>3. jobs' = [jobs EXCEPT ![e] = [jobs[e] EXCEPT !.state = "complete", !.time = runs']]
      BY <2>1, <3>1
    <3>4. QED
      BY <3>2, <3>3
  <2>5. QED
    BY <2>2, <2>3, <2>4
<1>2. Children(jobs, Job)'
  BY <1>1, JobsTyped
<1>3. UNCHANGED <<evals, crons, cevals, cjobs, erec>> /\ equeue' \subseteq equeue \cup {e}
  BY DEF JobDelete, JobCollect, JobGone, JobStart, JobFail, JobComplete
<1>4. runs' \in 0..plan'.max.runs
  BY PlanTyped DEF JobDelete, JobCollect, JobGone, JobStart, JobFail, JobComplete, Written,
                   TypeInv, ReadinessTypeOK, EvalTypeOK
<1>5. QED
  BY <1>2, <1>3, <1>4, ChildrenStay DEF TypeInv, EvalTypeOK

LEMMA CronStepsTyped ==
  ASSUME TypeInv, UNCHANGED plan, NEW e \in Evals,
         CronCollect(e) \/ \E text \in Outputs : CronRun(e, text)
  PROVE  EvalTypeOK'
<1>1. crons' = crons \/ crons' = [crons EXCEPT ![e] = Absent]
  BY DEF CronCollect, CronRun
<1>2. Children(crons, Cron)'
  BY <1>1, CronsTyped
<1>3. UNCHANGED <<evals, jobs, cevals, cjobs, erec>> /\ equeue' \subseteq equeue \cup {e}
  BY DEF CronCollect, CronRun
<1>4. runs' \in 0..plan'.max.runs
  BY PlanTyped DEF CronCollect, CronRun, Written, TypeInv, ReadinessTypeOK, EvalTypeOK
<1>5. QED
  BY <1>2, <1>3, <1>4, ChildrenStay DEF TypeInv, EvalTypeOK

LEMMA EvalInformTyped ==
  ASSUME TypeInv, UNCHANGED plan, NEW e \in Evals, InformEval(e) \/ InformJob(e)
  PROVE  EvalTypeOK'
<1>1. UNCHANGED <<evals, jobs, crons, erec, runs>> /\ equeue' = equeue \cup {e}
  BY DEF InformEval, InformJob
<1>2. Children(cevals, EvalObject)' /\ Children(cjobs, Job)'
  BY DEF InformEval, InformJob, TypeInv, EvalTypeOK, Children
<1>3. QED
  BY <1>1, <1>2, ChildrenStay DEF TypeInv, EvalTypeOK
(* What a status and a Job become.                                         *)
LEMMA ConditionTyped ==
  ASSUME NEW reason \in {"Ready", "InvalidSpec", "MissingDependency", "Error"}, NEW gen \in Nat
  PROVE  Condition(reason, gen) \in Conditions
  BY DEF Condition, Conditions

LEMMA ObservedJobTyped ==
  ASSUME NEW st \in EvalStatus, NEW job \in Job
  PROVE  observeJob(st, job) \in EvalStatus
  BY DEF observeJob, EvalStatus, Job

LEMMA SinkResultTyped ==
  ASSUME NEW st \in EvalStatus, NEW text \in Texts \cup {Absent, None}
  PROVE  SinkResult(st, text) \in EvalStatus
  BY DEF SinkResult, EvalStatus

LEMMA EvalMergedTyped ==
  ASSUME NEW live \in EvalStatus, NEW orig \in EvalStatus, NEW upd \in EvalStatus
  PROVE  Merged(live, orig, upd) \in EvalStatus
  BY DEF Merged, EvalStatus

LEMMA OneSink ==
  ASSUME NEW S \in SUBSET {"configMap", "s3"}, Cardinality(S) = 1
  PROVE  S \in {{"configMap"}, {"s3"}}
<1>1. IsFiniteSet({"configMap"})
  BY FS_Singleton
<1>2. IsFiniteSet({"configMap"} \cup {"s3"})
  BY <1>1, FS_AddElement
<1>3. S \in SUBSET ({"configMap"} \cup {"s3"})
  OBVIOUS
<1>4. IsFiniteSet(S)
  BY <1>2, <1>3, FS_Subset
<1>5. PICK x : S = {x}
  BY <1>4, FS_Singleton
<1>6. QED
  BY <1>5

LEMMA PodTyped ==
  ASSUME NEW spec \in EvalSpec, NEW flow \in Data, NEW dataset \in Datasets,
         NEW ds \in SpecOf(dataset), validateSink(spec)
  PROVE  evalPodSpec(spec, flow, ds) \in Pod
<1>1. ds.format \in {"json", "jsonl", "csv"} /\ ds.ref \in ConfigMaps \cup {None}
  BY SpecTyped DEF Owned
<1>2. spec.sinks \in {{"configMap"}, {"s3"}}
  BY OneSink DEF validateSink, EvalSpec
<1>3. QED
  BY <1>1, <1>2 DEF evalPodSpec, EvalSpec, Pod

LEMMA EvalRunning ==
  ASSUME TypeInv, erec # None
  PROVE  /\ erec \in EvalReconcile /\ erec.eval \in Evals /\ erec.upd \in EvalStatus
         /\ erec.orig.spec \in EvalSpec /\ erec.orig.uid \in Nat /\ erec.orig.gen \in Nat
         /\ erec.orig.status \in EvalStatus /\ erec.orig \in EvalObject
         /\ erec.pc = "dataset" => erec.flow \in Data
         /\ erec.pc \in {"job", "create", "cron"} => erec.pod \in Pod
<1>1. erec \in EvalReconcile
  BY DEF TypeInv, EvalTypeOK
<1>2. erec.orig \in EvalObject
  BY <1>1 DEF EvalReconcile
<1>3. QED
  BY <1>1, <1>2 DEF EvalReconcile, EvalObject, TypeInv, EvalTypeOK

(* A step of the worker that only its copy and the queue record.           *)
LEMMA ReadTyped ==
  ASSUME TypeInv, UNCHANGED plan, UNCHANGED <<evals, jobs, crons, cevals, cjobs, runs>>,
         equeue' \subseteq equeue \cup Evals,
         \/ erec' = None
         \/ /\ erec' \in EvalReconcile
            /\ erec'.pc = "dataset" => erec'.flow # None
            /\ erec'.pc \in {"job", "create", "cron"} => erec'.pod # None
  PROVE  EvalTypeOK'
  BY ChildrenStay DEF TypeInv, EvalTypeOK

LEMMA EvalStartTyped ==
  ASSUME TypeInv, UNCHANGED plan, NEW e \in Evals, EvalStart(e)
  PROVE  EvalTypeOK'
<1>1. CASE cevals[e] = Absent
  BY <1>1, ReadTyped DEF EvalStart
<1>2. CASE cevals[e] # Absent
  <2>1. cevals[e] \in EvalObject
    BY <1>2 DEF TypeInv, EvalTypeOK, Children
  <2>2. cevals[e].gen \in Nat /\ cevals[e].status \in EvalStatus
    BY <2>1 DEF EvalObject
  <2>3. [cevals[e].status EXCEPT !.gen = cevals[e].gen] \in EvalStatus
    BY <2>2 DEF EvalStatus
  <2>4. erec' \in EvalReconcile /\ erec'.pc = "flow"
    BY <1>2, <2>1, <2>3 DEF EvalStart, EvalReconcile
  <2>5. UNCHANGED <<evals, jobs, crons, cevals, cjobs, runs>> /\ equeue' \subseteq equeue
    BY DEF EvalStart
  <2>6. QED
    BY <2>4, <2>5, ReadTyped
<1>3. QED
  BY <1>1, <1>2

LEMMA RefusedTyped ==
  ASSUME TypeInv, erec # None, NEW reason \in {"InvalidSpec", "MissingDependency"}
  PROVE  Refused(reason) \in EvalReconcile /\ Refused(reason).pc = "patch"
<1>1. Condition(reason, erec.orig.gen) \in Conditions
  BY EvalRunning, ConditionTyped
<1>2. erec \in EvalReconcile /\ erec.upd \in EvalStatus
  BY EvalRunning
<1>3. [erec.upd EXCEPT !.cond = Condition(reason, erec.orig.gen)] \in EvalStatus
  BY <1>1, <1>2 DEF EvalStatus
<1>4. Refused(reason) = [erec EXCEPT !.upd = [erec.upd EXCEPT !.cond = Condition(reason, erec.orig.gen)],
                                     !.pc = "patch"]
  BY <1>2 DEF Refused, EvalReconcile, EvalStatus
<1>5. QED
  BY <1>2, <1>3, <1>4 DEF EvalReconcile
LEMMA EvalReadsTyped ==
  ASSUME TypeInv, UNCHANGED plan, ReadFlow \/ ReadDataset \/ GetJob \/ ReadSink
  PROVE  EvalTypeOK' /\ erec' \in EvalReconcile
<1>1. erec # None
  BY DEF ReadFlow, ReadDataset, GetJob, ReadSink, EvalAt
<1>2. /\ erec \in EvalReconcile /\ erec.eval \in Evals /\ erec.upd \in EvalStatus
      /\ erec.orig.spec \in EvalSpec /\ erec.orig.gen \in Nat
  BY <1>1, EvalRunning
<1>3. UNCHANGED <<evals, jobs, crons, cevals, cjobs, equeue, runs>>
  BY DEF ReadFlow, ReadDataset, GetJob, ReadSink, EvalReads
<1> SUFFICES /\ erec' \in EvalReconcile
             /\ erec'.pc = "dataset" => erec'.flow # None
             /\ erec'.pc \in {"job", "create", "cron"} => erec'.pod # None
  BY <1>3, ReadTyped
<1>4. CASE ReadFlow
  <2> DEFINE flow == cothers[erec.orig.spec.flow]
  <2>1. erec.orig.spec.flow \in Flows
    BY <1>2 DEF EvalSpec
  <2>2. flow \in Data \cup {Absent}
    BY <2>1, KindsAssumption DEF TypeInv, ReadinessTypeOK, Contents, ContentOf, Others
  <2>3. CASE flow = Absent
    BY <1>1, <1>4, <2>3, RefusedTyped DEF ReadFlow
  <2>4. CASE flow # Absent
    <3>1. erec' = [erec EXCEPT !.flow = flow, !.pc = "dataset"]
      BY <1>4, <2>4 DEF ReadFlow
    <3>2. QED
      BY <1>2, <2>2, <2>4, <3>1, MarksAssumption DEF EvalReconcile
  <2>5. QED
    BY <2>3, <2>4
<1>5. CASE ReadDataset
  <2> DEFINE spec == erec.orig.spec
             dataset == cobjs[spec.dataset]
  <2>1. spec.dataset \in Datasets /\ spec.dataset \in Owned
    BY <1>2 DEF EvalSpec, Owned
  <2>2. CASE dataset = Absent \/ ~validateSink(spec)
    <3>1. erec' \in {Refused("MissingDependency"), Refused("InvalidSpec")}
      BY <1>5, <2>2 DEF ReadDataset
    <3>2. QED
      BY <1>1, <3>1, RefusedTyped
  <2>3. CASE dataset # Absent /\ validateSink(spec)
    <3>1. dataset.spec \in SpecOf(spec.dataset)
      BY <2>1, <2>3 DEF TypeInv, ReadinessTypeOK, Objects, Object
    <3>2. erec.flow \in Data
      BY <1>1, <1>5, EvalRunning DEF ReadDataset, EvalAt
    <3>3. evalPodSpec(spec, erec.flow, dataset.spec) \in Pod
      BY <1>2, <2>1, <2>3, <3>1, <3>2, PodTyped
    <3>4. erec' = [erec EXCEPT !.pod = evalPodSpec(spec, erec.flow, dataset.spec),
                               !.pc = IF spec.scheduled THEN "cron" ELSE "job"]
      BY <1>5, <2>3 DEF ReadDataset
    <3>5. QED
      BY <1>2, <3>3, <3>4, EvalRecordsAssumption DEF EvalReconcile
  <2>4. QED
    BY <2>2, <2>3
<1>6. CASE GetJob
  <2> DEFINE job == cjobs[erec.eval]
  <2>1. erec.pc = "job" /\ erec.pod # None
    BY <1>1, <1>6, EvalRunning, EvalRecordsAssumption DEF GetJob, EvalAt
  <2>2. job \in Job \cup {Absent}
    BY <1>2 DEF TypeInv, EvalTypeOK, Children
  <2>3. CASE job = Absent
    <3>1. erec' = [erec EXCEPT !.pc = "create"]
      BY <1>6, <2>3 DEF GetJob
    <3>2. QED
      BY <1>2, <2>1, <3>1 DEF EvalReconcile
  <2>4. CASE job # Absent
    <3>1. erec' = [erec EXCEPT !.upd = observeJob(erec.upd, job), !.pc = "sink"]
      BY <1>2, <1>6, <2>4 DEF GetJob, EvalReconcile
    <3>2. QED
      BY <1>2, <2>2, <2>4, <3>1, ObservedJobTyped DEF EvalReconcile
  <2>5. QED
    BY <2>3, <2>4
<1>7. CASE ReadSink
  <2> DEFINE spec == erec.orig.spec
             upd == [erec.upd EXCEPT !.cond = Condition("Ready", erec.orig.gen)]
             new == IF "configMap" \in spec.sinks THEN SinkResult(upd, cothers[spec.sink]) ELSE upd
  <2>1. upd \in EvalStatus
    BY <1>2, ConditionTyped DEF EvalStatus
  <2>2. spec.sink \in ConfigMaps
    BY <1>2 DEF EvalSpec
  <2>3. cothers[spec.sink] \in Texts \cup {Absent, None}
    BY <2>2 DEF TypeInv, ReadinessTypeOK, Contents, ContentOf, Others
  <2>4. new \in EvalStatus
    BY <2>1, <2>3, SinkResultTyped
  <2>5. erec' = [erec EXCEPT !.pc = "patch", !.upd = new]
    BY <1>7 DEF ReadSink
  <2> HIDE DEF new
  <2>6. QED
    BY <1>2, <2>4, <2>5 DEF EvalReconcile
<1>8. QED
  BY <1>4, <1>5, <1>6, <1>7

(* The calls that write, whether they succeed, fail, or fail when done.    *)
LEMMA WrittenTyped ==
  ASSUME TypeInv, erec # None
  PROVE  /\ EvalAt("create") => /\ erec.pod \in Pod
                                /\ JobCreated(erec.eval) => Children(jobs, Job)'
         /\ EvalAt("cron") => /\ Child \in Cron
                              /\ (crons' = [crons EXCEPT ![erec.eval] = Child]) => Children(crons, Cron)'
         /\ EvalPatched(erec.eval) /\ evals[erec.eval] # Absent => Children(evals, EvalObject)'
<1>1. /\ erec \in EvalReconcile /\ erec.eval \in Evals /\ erec.upd \in EvalStatus
      /\ erec.orig.uid \in Nat /\ erec.orig.status \in EvalStatus
  BY EvalRunning
<1>2. EvalAt("create") \/ EvalAt("cron") => erec.pod \in Pod
  BY EvalRunning DEF EvalAt
<1>3. EvalAt("create") /\ JobCreated(erec.eval) => Children(jobs, Job)'
  <2> DEFINE j == [owner |-> erec.orig.uid, pod |-> erec.pod, state |-> "pending", time |-> 0]
  <2> SUFFICES ASSUME EvalAt("create"), JobCreated(erec.eval) PROVE Children(jobs, Job)'
    OBVIOUS
  <2>1. j \in Job
    BY <1>1, <1>2 DEF Job
  <2>2. jobs' = [jobs EXCEPT ![erec.eval] = j]
    BY DEF JobCreated
  <2> HIDE DEF j
  <2>3. QED
    BY <1>1, <2>1, <2>2, JobsTyped
<1>4. EvalAt("cron") => Child \in Cron
  BY <1>1, <1>2 DEF Child, Cron
<1>5. EvalAt("cron") /\ crons' = [crons EXCEPT ![erec.eval] = Child] => Children(crons, Cron)'
  BY <1>1, <1>4, CronsTyped
<1>6. EvalPatched(erec.eval) /\ evals[erec.eval] # Absent => Children(evals, EvalObject)'
  <2> DEFINE e == erec.eval
             st == Merged(evals[e].status, erec.orig.status, erec.upd)
  <2> SUFFICES ASSUME EvalPatched(e), evals[e] # Absent PROVE Children(evals, EvalObject)'
    OBVIOUS
  <2>1. evals = [f \in Evals |-> evals[f]] /\ evals[e] \in EvalObject
    BY <1>1 DEF TypeInv, EvalTypeOK, Children
  <2>2. st \in EvalStatus
    BY <1>1, <2>1, EvalMergedTyped DEF EvalObject
  <2>3. evals' = [evals EXCEPT ![e].status = st]
    BY DEF EvalPatched
  <2> HIDE DEF st, e
  <2>4. evals' = [f \in Evals |-> evals'[f]] /\ \A f \in Evals \ {e} : evals'[f] = evals[f]
    BY <2>1, <2>3
  <2>5. evals'[e] = [evals[e] EXCEPT !.status = st]
    BY <1>1, <2>1, <2>3 DEF e
  <2>6. evals'[e] \in EvalObject
    BY <2>1, <2>2, <2>5 DEF EvalObject
  <2>7. QED
    BY <2>4, <2>6 DEF TypeInv, EvalTypeOK, Children
<1>7. QED
  BY <1>2, <1>3, <1>4, <1>5, <1>6
LEMMA EvalCallsTyped ==
  ASSUME TypeInv, UNCHANGED plan,
         ApplyCronJob \/ CreateJob \/ EvalPatch \/ EvalConflict \/ EvalFails \/ SinkFails
  PROVE  EvalTypeOK' /\ (ApplyCronJob \/ CreateJob \/ SinkFails => erec' \in EvalReconcile)
<1>1. erec # None
  BY DEF ApplyCronJob, CreateJob, EvalPatch, EvalConflict, EvalFails, SinkFails, EvalAt
<1>2. /\ erec \in EvalReconcile /\ erec.eval \in Evals /\ erec.upd \in EvalStatus
      /\ erec.orig.gen \in Nat
  BY <1>1, EvalRunning
<1>3. UNCHANGED <<cevals, cjobs, runs>> /\ equeue' \subseteq equeue \cup {erec.eval}
  BY DEF ApplyCronJob, ApplyCron, CreateJob, EvalPatch, EvalConflict, EvalFails, SinkFails, GiveUp
<1>4. /\ jobs' = jobs \/ (EvalAt("create") /\ JobCreated(erec.eval))
      /\ crons' = crons \/ (EvalAt("cron") /\ crons' = [crons EXCEPT ![erec.eval] = Child])
      /\ evals' = evals \/ (evals[erec.eval] # Absent /\ EvalPatched(erec.eval))
  BY DEF ApplyCronJob, ApplyCron, CreateJob, EvalPatch, EvalConflict, EvalFails, SinkFails
<1>5. Children(jobs, Job)' /\ Children(crons, Cron)' /\ Children(evals, EvalObject)'
  BY <1>1, <1>4, WrittenTyped, ChildrenStay
<1>6. EvalPatch \/ EvalConflict \/ EvalFails => erec' = None
  BY DEF EvalPatch, EvalConflict, EvalFails, GiveUp
<1>7. ASSUME ApplyCronJob \/ CreateJob \/ SinkFails
      PROVE  erec' \in EvalReconcile /\ erec'.pc \in {"sink", "patch"}
  <2>1. CASE ApplyCronJob
    BY <1>2, <2>1 DEF ApplyCronJob, EvalReconcile
  <2>2. CASE CreateJob
    <3>1. [erec.upd EXCEPT !.active = TRUE] \in EvalStatus
      BY <1>2 DEF EvalStatus
    <3>2. erec' = [erec EXCEPT !.upd = [erec.upd EXCEPT !.active = TRUE], !.pc = "sink"]
      BY <1>2, <2>2 DEF CreateJob, EvalReconcile, EvalStatus
    <3>3. QED
      BY <1>2, <3>1, <3>2 DEF EvalReconcile
  <2>3. CASE SinkFails
    <3> DEFINE upd == [erec.upd EXCEPT !.cond = Condition("Ready", erec.orig.gen)]
    <3>1. upd \in EvalStatus
      BY <1>2, ConditionTyped DEF EvalStatus
    <3>2. erec' = [erec EXCEPT !.pc = "patch", !.upd = upd]
      BY <1>2, <2>3 DEF SinkFails, EvalReconcile, EvalStatus
    <3>3. QED
      BY <1>2, <3>1, <3>2 DEF EvalReconcile
  <2>4. QED
    BY <1>7, <2>1, <2>2, <2>3
<1>8. QED
  BY <1>2, <1>3, <1>5, <1>6, <1>7, ChildrenStay DEF TypeInv, EvalTypeOK

LEMMA EvalCrashTyped ==
  ASSUME TypeInv, UNCHANGED plan, EvalCrash
  PROVE  EvalTypeOK'
<1>1. UNCHANGED <<evals, jobs, crons, runs>> /\ cevals' = evals /\ cjobs' = jobs /\ erec' = None
  BY DEF EvalCrash
<1>2. equeue' \subseteq Evals
  BY DEF EvalCrash, Existing, TypeInv, EvalTypeOK, Children
<1>3. QED
  BY <1>1, <1>2 DEF TypeInv, EvalTypeOK, Children

LEMMA EvalTyped ==
  ASSUME TypeInv, [Next]_allVars
  PROVE  EvalTypeOK'
<1>1. CASE UNCHANGED <<plan, evalVars>>
  BY <1>1 DEF evalVars, TypeInv, EvalTypeOK, Children
<1>2. CASE EvalStep /\ UNCHANGED plan
  <2>1. CASE EvalUsers
    BY <1>2, <2>1, EvalWriteTyped, JobStepsTyped DEF EvalUsers
  <2>2. CASE EvalCluster \/ EvalCollect
    BY <1>2, <2>2, JobStepsTyped, CronStepsTyped DEF EvalCluster, EvalCollect
  <2>3. CASE EvalInform
    BY <1>2, <2>3, EvalInformTyped DEF EvalInform
  <2>4. CASE EvalWorker
    BY <1>2, <2>4, EvalStartTyped, EvalReadsTyped, EvalCallsTyped DEF EvalWorker
  <2>5. CASE EvalFails \/ SinkFails \/ EvalCrash
    BY <1>2, <2>5, EvalCallsTyped, EvalCrashTyped
  <2>6. QED
    BY <1>2, <2>1, <2>2, <2>3, <2>4, <2>5 DEF EvalStep
<1>3. QED
  BY <1>1, <1>2 DEF Next, Step, allVars

LEMMA InitTyped == EvalInit => TypeInv
<1> SUFFICES ASSUME EvalInit PROVE TypeInv
  OBVIOUS
<1>1. /\ plan \in Plans /\ changes = 0 /\ faults = 0 /\ runs = 0
      /\ plan.max.changes \in Nat /\ plan.max.faults \in Nat /\ plan.max.runs \in Nat
  BY PlanTyped DEF EvalInit, ReadinessInit
<1>2. objs = [o \in Owned |-> New(plan.start[o], 0)] /\ cobjs = objs
  BY DEF EvalInit, ReadinessInit
<1>3. ASSUME NEW o \in Owned, objs[o] # Absent
      PROVE  objs[o] \in Object(o) /\ objs[o].gen = 1 /\ objs[o].spec = plan.start[o]
  <2>1. plan.start[o] \in SpecOf(o) \cup {Absent} /\ objs[o] = New(plan.start[o], 0)
    BY <1>1, <1>2, PlanTyped
  <2>2. plan.start[o] # Absent
    BY <1>3, <2>1 DEF New
  <2>3. QED
    BY <2>1, <2>2, NewTyped
<1>4. Objects(objs) /\ Objects(cobjs)
  BY <1>1, <1>2, <1>3 DEF Objects
<1>5. Contents(others) /\ Contents(cothers)
  BY <1>1, PlanTyped DEF EvalInit, ReadinessInit, Contents
<1>6. ReadinessTypeOK
  BY <1>1, <1>2, <1>4, <1>5 DEF EvalInit, ReadinessInit, ReadinessTypeOK, Existing
<1>7. NoEvalStatus \in EvalStatus
  BY DEF NoEvalStatus, EvalStatus
<1>8. Children(evals, EvalObject)
  BY <1>1, <1>7, PlanTyped DEF EvalInit, Children, EvalObject
<1>9. EvalTypeOK
  BY <1>1, <1>8 DEF EvalInit, EvalTypeOK, Children, Existing
<1>10. QED
  BY <1>6, <1>9 DEF TypeInv

-----------------------------------------------------------------------------
(* Objects, contents, statuses and reconciles have their types in every    *)
(* reachable state, for any objects, values and plans: what a copy in a    *)
(* cache or in a reconcile holds is always something a user, a run or a    *)
(* reconcile may have written.                                             *)
THEOREM SupportTypes == Spec => []SupportTypeOK
<1>1. EvalInit => TypeInv
  BY InitTyped
<1>2. TypeInv /\ [Next]_allVars => TypeInv'
  BY ReadinessTyped, EvalTyped DEF TypeInv
<1>3. TypeInv => SupportTypeOK
  BY DEF TypeInv, SupportTypeOK
<1>4. QED
  BY <1>1, <1>2, <1>3, PTL DEF Spec

-----------------------------------------------------------------------------
(* What statuses say.                                                      *)

Tracked(o) == ProgressOK(o) /\ RestOK(o)

(* A step that neither wakes o nor touches what it relies on.              *)
Undisturbed(o) ==
  /\ Awake(o) => Awake(o)'
  /\ Running(o)' <=> Running(o)
  /\ Running(o)' => recs'[ControllerOf(o)] = recs[ControllerOf(o)]
  /\ ~Awake(o)' =>
       /\ cobjs'[o] = cobjs[o]
       /\ objs'[o] = objs[o] \/ objs'[o] # cobjs'[o] \/ objs'[o] = Absent
       /\ cobjs[o] # Absent =>
            MayHaveSeen(o, cobjs[o].spec, cobjs', cothers')
              = MayHaveSeen(o, cobjs[o].spec, cobjs, cothers)

LEMMA RunningHasObject ==
  ASSUME TypeInv, NEW o \in Owned, Running(o)
  PROVE  LET r == recs[ControllerOf(o)]
         IN  /\ ControllerOf(o) \in Controllers /\ r # None /\ r.obj = o
             /\ r.orig \in Object(o) /\ r.orig # Absent
<1>1. ControllerOf(o) \in Controllers
  BY OwnedHasController
<1>2. QED
  BY <1>1, RunningTyped, RecordsAssumption DEF Running

LEMMA CalmStep ==
  ASSUME TypeInv, NEW o \in Owned, Tracked(o), Undisturbed(o)
  PROVE  Tracked(o)'
<1>1. ProgressOK(o)'
  <2>1. SUFFICES ASSUME Running(o)', ~Awake(o)'
                 PROVE  ProgressOK(o)'
    BY DEF ProgressOK
  <2>2. Running(o) /\ ~Awake(o) /\ recs'[ControllerOf(o)] = recs[ControllerOf(o)]
    BY <2>1 DEF Undisturbed
  <2>3. recs[ControllerOf(o)].orig = cobjs[o] /\ cobjs[o] # Absent
    BY <2>2, RunningHasObject DEF Tracked, ProgressOK
  <2>4. QED
    BY <2>1, <2>2, <2>3 DEF Tracked, ProgressOK, Undisturbed
<1>2. RestOK(o)'
  <2>1. SUFFICES ASSUME ~Running(o)', ~Awake(o)', objs'[o] # Absent, cobjs'[o] = objs'[o]
                 PROVE  Settled(o, cobjs'[o], cobjs', cothers')
    BY DEF RestOK
  <2>2. ~Running(o) /\ ~Awake(o) /\ cobjs[o] = objs[o] /\ objs[o] # Absent /\ cobjs'[o] = cobjs[o]
    BY <2>1 DEF Undisturbed
  <2>3. Settled(o, cobjs[o], cobjs, cothers)
    BY <2>2 DEF Tracked, RestOK
  <2>4. QED
    BY <2>1, <2>2, <2>3 DEF Settled, Undisturbed
<1>3. QED
  BY <1>1, <1>2 DEF Tracked

LEMMA AwakeTracked ==
  ASSUME NEW o \in Owned, Awake(o)'
  PROVE  Tracked(o)'
  BY DEF Tracked, ProgressOK, RestOK

LEMMA VersionsStay ==
  ASSUME VersionsOK, UNCHANGED <<objs, cobjs>>, TypeInv, changes' \in {changes, changes + 1}
  PROVE  VersionsOK'
<1>1. changes \in Nat
  BY PlanTyped DEF TypeInv, ReadinessTypeOK
<1>2. \A o \in Owned : /\ objs[o] # Absent => objs[o].uid \in Nat
                       /\ cobjs[o] # Absent => cobjs[o].uid \in Nat
  BY DEF TypeInv, ReadinessTypeOK, Objects, Object
<1>3. QED
  BY <1>1, <1>2 DEF VersionsOK

-----------------------------------------------------------------------------
(* Steps of users and informers.                                           *)
LEMMA AsideTracked ==
  ASSUME TypeInv, StatusTracking, Aside
  PROVE  StatusTracking'
<1>1. UNCHANGED <<objs, cobjs, cothers, notes, queue, recs>> /\ changes' \in {changes, changes + 1}
  BY DEF Aside
<1>2. VersionsOK'
  BY <1>1, VersionsStay DEF StatusTracking
<1>3. ASSUME NEW o \in Owned PROVE ProgressOK(o)' /\ RestOK(o)'
  <2>1. Undisturbed(o)
    BY <1>1 DEF Undisturbed, Awake, Woken, Running
  <2>2. QED
    BY <2>1, CalmStep DEF Tracked, StatusTracking
<1>4. QED
  BY <1>2, <1>3 DEF StatusTracking

LEMMA OtherWriteTracked ==
  ASSUME TypeInv, StatusTracking, NEW q \in Others, NEW v \in plan.writes[q], OtherWrite(q, v)
  PROVE  StatusTracking'
<1>1. UNCHANGED <<objs, cobjs, cothers, notes, queue, recs>> /\ changes' = changes + 1
  BY DEF OtherWrite, Change, caches
<1>2. VersionsOK'
  BY <1>1, VersionsStay DEF StatusTracking
<1>3. ASSUME NEW o \in Owned PROVE ProgressOK(o)' /\ RestOK(o)'
  <2>1. Undisturbed(o)
    BY <1>1 DEF Undisturbed, Awake, Woken, Running
  <2>2. QED
    BY <2>1, CalmStep DEF Tracked, StatusTracking
<1>4. QED
  BY <1>2, <1>3 DEF StatusTracking

(* An object written is not the one in the cache, which is an earlier one. *)
LEMMA ObjectWriteTracked ==
  ASSUME TypeInv, StatusTracking, NEW q \in Owned, NEW s \in plan.writes[q], ObjectWrite(q, s)
  PROVE  StatusTracking'
<1>1. UNCHANGED <<cobjs, cothers, notes, queue, recs>>
  BY DEF ObjectWrite, caches
<1>2. plan \in Plans /\ changes \in Nat /\ changes' = changes + 1
  BY PlanTyped DEF TypeInv, ReadinessTypeOK, ObjectWrite, Change
<1>3. objs = [o \in Owned |-> objs[o]] /\ s \in SpecOf(q) \cup {Absent}
  BY <1>2, PlanTyped DEF TypeInv, ReadinessTypeOK, Objects
<1>4. \A o \in Owned \ {q} : objs'[o] = objs[o]
  BY <1>3 DEF ObjectWrite
<1>5. \A o \in Owned :
        /\ objs[o] # Absent => objs[o] \in Object(o) /\ objs[o].uid \in Nat /\ objs[o].gen \in Nat
        /\ cobjs[o] # Absent => cobjs[o].uid \in Nat /\ cobjs[o].gen \in Nat
  BY DEF TypeInv, ReadinessTypeOK, Objects, Object
<1>6. objs'[q] # Absent =>
        \/ objs'[q].uid = changes + 1
        \/ objs[q] # Absent /\ objs'[q].uid = objs[q].uid /\ objs'[q].gen = objs[q].gen + 1
  <2>1. CASE objs[q] = Absent \/ s = Absent
    <3>1. objs'[q] = New(s, changes + 1)
      BY <1>2, <1>3, <2>1 DEF ObjectWrite
    <3>2. QED
      BY <1>2, <1>3, <3>1, NewTyped DEF New
  <2>2. CASE ~(objs[q] = Absent \/ s = Absent)
    <3>1. objs'[q] = Edited(objs[q], s)
      BY <1>3, <2>2 DEF ObjectWrite
    <3>2. QED
      BY <1>5, <2>2, <3>1 DEF Edited, Object
  <2>3. QED
    BY <2>1, <2>2
<1>7. VersionsOK'
  <2>1. SUFFICES ASSUME NEW o \in Owned
                 PROVE  /\ objs'[o] # Absent => objs'[o].uid <= changes'
                        /\ cobjs[o] # Absent => cobjs[o].uid <= changes'
                        /\ objs'[o] # Absent /\ cobjs[o] # Absent /\ objs'[o].uid = cobjs[o].uid
                             => cobjs[o].gen <= objs'[o].gen
    BY <1>1 DEF VersionsOK
  <2>2. /\ objs[o] # Absent => objs[o].uid <= changes
        /\ cobjs[o] # Absent => cobjs[o].uid <= changes
        /\ objs[o] # Absent /\ cobjs[o] # Absent /\ objs[o].uid = cobjs[o].uid
             => cobjs[o].gen <= objs[o].gen
    BY DEF StatusTracking, VersionsOK
  <2>3. CASE o = q
    BY <1>2, <1>5, <1>6, <2>2, <2>3
  <2>4. CASE o # q
    BY <1>2, <1>4, <1>5, <2>2, <2>4
  <2>5. QED
    BY <2>3, <2>4
<1>8. objs'[q] = Absent \/ objs'[q] # cobjs[q]
  <2>1. /\ cobjs[q] # Absent => cobjs[q].uid <= changes
        /\ objs[q] # Absent /\ cobjs[q] # Absent /\ objs[q].uid = cobjs[q].uid
             => cobjs[q].gen <= objs[q].gen
    BY DEF StatusTracking, VersionsOK
  <2>2. QED
    BY <1>2, <1>5, <1>6, <2>1
<1>9. ASSUME NEW o \in Owned PROVE ProgressOK(o)' /\ RestOK(o)'
  <2>1. Undisturbed(o)
    BY <1>1, <1>4, <1>8 DEF Undisturbed, Awake, Woken, Running
  <2>2. QED
    BY <2>1, CalmStep DEF Tracked, StatusTracking
<1>10. QED
  BY <1>7, <1>9 DEF StatusTracking
(* A mapper sees to it that who relies on an object wakes when it changes. *)
LEMMA InformObjectTracked ==
  ASSUME TypeInv, StatusTracking, NEW q \in Owned, InformObject(q)
  PROVE  StatusTracking'
<1>1. /\ UNCHANGED <<objs, others, cothers, recs, changes>>
      /\ queue' = queue \cup {q} /\ notes' = notes \cup ({q} \cap PluginConfigs)
  BY DEF InformObject, cluster
<1>2. /\ cobjs' = [o \in Owned |-> cobjs'[o]] /\ cobjs'[q] = objs[q]
      /\ \A o \in Owned \ {q} : cobjs'[o] = cobjs[o]
  BY DEF InformObject, TypeInv, ReadinessTypeOK, Objects
<1>3. VersionsOK'
  <2>1. \A o \in Owned : objs[o] # Absent => objs[o].gen \in Nat
    BY DEF TypeInv, ReadinessTypeOK, Objects, Object
  <2>2. QED
    BY <1>1, <1>2, <2>1 DEF StatusTracking, VersionsOK
<1>4. Tracked(q)'
  BY <1>1, AwakeTracked DEF Awake
<1>5. ASSUME NEW o \in Owned \ {q} PROVE Tracked(o)'
  <2>1. Awake(o) => Awake(o)'
    BY <1>1, <1>2, <1>5 DEF Awake, Woken
  <2>2. ASSUME ~Awake(o)', cobjs[o] # Absent
        PROVE  MayHaveSeen(o, cobjs[o].spec, cobjs', cothers')
                 = MayHaveSeen(o, cobjs[o].spec, cobjs, cothers)
    <3>1. cobjs[o].spec \in SpecOf(o)
      BY <2>2 DEF TypeInv, ReadinessTypeOK, Objects, Object
    <3>2. CASE o \in Models /\ LooksUp(cobjs[o].spec)
      <4>1. cobjs[o].spec.ref \in PluginConfigs
        BY <3>1, <3>2, SpecTyped DEF LooksUp
      <4>2. CASE cobjs[o].spec.ref = q
        <5>1. q \in notes' /\ o \in WatchersOf(q) /\ cobjs'[o] = cobjs[o]
          BY <1>1, <1>2, <1>5, <3>2, <4>1, <4>2, KindsAssumption DEF WatchersOf, Others
        <5>2. QED
          BY <2>2, <4>2, <5>1 DEF Awake, Woken
      <4>3. CASE cobjs[o].spec.ref # q
        <5>1. cobjs'[cobjs[o].spec.ref] = cobjs[cobjs[o].spec.ref]
          BY <1>2, <4>1, <4>3 DEF Owned
        <5>2. QED
          BY <1>1, <3>2, <5>1 DEF MayHaveSeen, Seen
      <4>4. QED
        BY <4>2, <4>3
    <3>3. CASE ~(o \in Models /\ LooksUp(cobjs[o].spec))
      BY <1>1, <3>3 DEF MayHaveSeen, Seen
    <3>4. QED
      BY <3>2, <3>3
  <2>3. Undisturbed(o)
    BY <1>1, <1>2, <1>5, <2>1, <2>2 DEF Undisturbed, Running
  <2>4. QED
    BY <2>3, CalmStep DEF Tracked, StatusTracking
<1>6. QED
  BY <1>3, <1>4, <1>5 DEF StatusTracking, Tracked

LEMMA InformOtherTracked ==
  ASSUME TypeInv, StatusTracking, NEW q \in Others, InformOther(q)
  PROVE  StatusTracking'
<1>1. /\ UNCHANGED <<objs, others, cobjs, recs, changes, queue>>
      /\ notes' = notes \cup ({q} \ ConfigMaps)
  BY DEF InformOther, cluster
<1>2. \A o \in Others \ {q} : cothers'[o] = cothers[o]
  BY DEF InformOther, TypeInv, ReadinessTypeOK, Contents
<1>3. VersionsOK'
  BY <1>1, VersionsStay DEF StatusTracking
<1>4. ASSUME NEW o \in Owned PROVE Tracked(o)'
  <2>1. Awake(o) => Awake(o)'
    BY <1>1 DEF Awake, Woken
  <2>2. ASSUME ~Awake(o)', cobjs[o] # Absent
        PROVE  MayHaveSeen(o, cobjs[o].spec, cobjs', cothers')
                 = MayHaveSeen(o, cobjs[o].spec, cobjs, cothers)
    <3>1. cobjs[o].spec \in SpecOf(o)
      BY <2>2 DEF TypeInv, ReadinessTypeOK, Objects, Object
    <3>2. CASE o \in PluginConfigs \cup Tools /\ LooksUp(cobjs[o].spec)
      <4> DEFINE ref == cobjs[o].spec.ref
      <4>1. /\ ref \in Others /\ ref \notin ConfigMaps /\ o \in WatchersOf(ref)
        <5>1. o \in PluginConfigs => ref \in Secrets
          BY <3>1, <3>2, SpecTyped DEF LooksUp
        <5>2. o \in Tools => ref \in Flows
          BY <3>1, <3>2, SpecTyped DEF LooksUp
        <5>3. QED
          BY <3>2, <5>1, <5>2, KindsAssumption DEF WatchersOf, Others, Owned
      <4>2. CASE ref = q
        BY <1>1, <2>2, <4>1, <4>2 DEF Awake, Woken
      <4>3. CASE ref # q
        <5>1. cothers'[ref] = cothers[ref]
          BY <1>2, <4>1, <4>3
        <5>2. QED
          BY <1>1, <3>2, <5>1 DEF MayHaveSeen, Seen
      <4>4. QED
        BY <4>2, <4>3
    <3>3. CASE ~(o \in PluginConfigs \cup Tools /\ LooksUp(cobjs[o].spec))
      <4>1. LooksUp(cobjs[o].spec) => o \in Models \cup Datasets
        BY <3>1, <3>3, SpecTyped DEF LooksUp, Owned
      <4>2. QED
        BY <1>1, <4>1 DEF MayHaveSeen, Seen
    <3>4. QED
      BY <3>2, <3>3
  <2>3. Undisturbed(o)
    BY <1>1, <2>1, <2>2 DEF Undisturbed, Running
  <2>4. QED
    BY <2>3, CalmStep DEF Tracked, StatusTracking
<1>5. QED
  BY <1>3, <1>4 DEF StatusTracking, Tracked

LEMMA HandleTracked ==
  ASSUME TypeInv, StatusTracking, NEW n \in notes, Handle(n)
  PROVE  StatusTracking'
<1>1. /\ UNCHANGED <<objs, cobjs, cothers, recs, changes>>
      /\ notes' = notes \ {n} /\ queue' = queue \cup Woken(n)
  BY DEF Handle, cluster, caches
<1>2. VersionsOK'
  BY <1>1, VersionsStay DEF StatusTracking
<1>3. ASSUME NEW o \in Owned PROVE Tracked(o)'
  <2>1. Undisturbed(o)
    BY <1>1 DEF Undisturbed, Awake, Woken, Running
  <2>2. QED
    BY <2>1, CalmStep DEF Tracked, StatusTracking
<1>4. QED
  BY <1>2, <1>3 DEF StatusTracking, Tracked

(* Everything that exists is queued by a new manager.                      *)
LEMMA CrashTracked ==
  ASSUME TypeInv, StatusTracking, Crash
  PROVE  StatusTracking'
<1>1. UNCHANGED <<objs, changes>> /\ cobjs' = objs
  BY DEF Crash, cluster
<1>2. recs' = [c \in Controllers |-> None] /\ queue' = Existing(objs)
  BY DEF Crash
<1>3. VersionsOK'
  <2>1. \A o \in Owned : objs[o] # Absent => objs[o].gen \in Nat
    BY DEF TypeInv, ReadinessTypeOK, Objects, Object
  <2>2. QED
    BY <1>1, <2>1 DEF StatusTracking, VersionsOK
<1>4. ASSUME NEW o \in Owned PROVE Tracked(o)'
  <2>1. CASE objs[o] # Absent
    <3>1. o \in queue'
      BY <1>2, <2>1 DEF Existing, TypeInv, ReadinessTypeOK, Objects
    <3>2. QED
      BY <3>1, AwakeTracked DEF Awake
  <2>2. CASE objs[o] = Absent
    <3>1. ~Running(o)' /\ objs'[o] = Absent
      BY <1>1, <1>2, <2>2, OwnedHasController DEF Running
    <3>2. QED
      BY <3>1 DEF Tracked, ProgressOK, RestOK
  <2>3. QED
    BY <2>1, <2>2
<1>5. QED
  BY <1>3, <1>4 DEF StatusTracking, Tracked
-----------------------------------------------------------------------------
(* Steps of the controllers.                                               *)

(* Who is not the object of a controller's reconcile sees nothing of it.   *)
LEMMA BystanderCalm ==
  ASSUME TypeInv, StatusTracking, NEW c \in Controllers, NEW q \in c, NEW o \in Owned \ {q},
         UNCHANGED <<cobjs, cothers, notes>>, objs'[o] = objs[o],
         queue \ {q} \subseteq queue',
         \A d \in Controllers \ {c} : recs'[d] = recs[d],
         \A r \in {recs[c], recs'[c]} : r = None \/ r.obj = q
  PROVE  Tracked(o)'
<1>1. Awake(o) => Awake(o)'
  BY DEF Awake, Woken
<1>2. ControllerOf(o) \in Controllers
  BY OwnedHasController
<1>3. CASE ControllerOf(o) = c
  <2>1. ~Running(o) /\ ~Running(o)'
    BY <1>3 DEF Running
  <2>2. QED
    BY <1>1, <2>1, CalmStep DEF Undisturbed, Tracked, StatusTracking
<1>4. CASE ControllerOf(o) # c
  <2>1. recs'[ControllerOf(o)] = recs[ControllerOf(o)]
    BY <1>2, <1>4
  <2>2. Running(o)' <=> Running(o)
    BY <2>1 DEF Running
  <2>3. QED
    BY <1>1, <2>1, <2>2, CalmStep DEF Undisturbed, Tracked, StatusTracking
<1>5. QED
  BY <1>3, <1>4

LEMMA Reconciling ==
  ASSUME NEW o \in Owned, NEW orig \in Object(o),
         NEW seen \in {Unread, Absent} \cup IF o \in Datasets THEN {None} \cup Texts
                                            ELSE {Failed, TRUE}
  PROVE  [obj |-> o, orig |-> orig, seen |-> seen] # None
<1>1. [obj |-> o, orig |-> orig, seen |-> seen] \in ReconcileOf(o)
  BY DEF ReconcileOf
<1>2. QED
  BY <1>1, RecordsAssumption

LEMMA StartTracked ==
  ASSUME TypeInv, StatusTracking, NEW c \in Controllers, NEW q \in c, Start(q)
  PROVE  StatusTracking'
<1>1. ControllerOf(q) = c /\ q \in Owned
  BY ControllerOfKind
<1>2. /\ UNCHANGED <<objs, cobjs, cothers, notes, changes>>
      /\ queue' = queue \ {q} /\ recs[c] = None
  BY <1>1 DEF Start, cluster, caches
<1> DEFINE r == IF cobjs[q] = Absent THEN None
                ELSE [obj |-> q, orig |-> cobjs[q], seen |-> Unread]
<1>3. recs'[c] = r /\ \A d \in Controllers \ {c} : recs'[d] = recs[d]
  BY <1>1 DEF Start, TypeInv, ReadinessTypeOK
<1>4. r = None \/ r.obj = q
  OBVIOUS
<1>5. VersionsOK'
  BY <1>2, VersionsStay DEF StatusTracking
<1>6. ASSUME NEW o \in Owned \ {q} PROVE Tracked(o)'
  BY <1>2, <1>3, <1>4, <1>6, BystanderCalm
<1>7. Tracked(q)'
  <2>1. CASE cobjs[q] = Absent
    BY <1>1, <1>2, <1>3, <2>1 DEF Tracked, ProgressOK, RestOK, Running
  <2>2. CASE cobjs[q] # Absent
    <3>1. recs'[c] = [obj |-> q, orig |-> cobjs[q], seen |-> Unread] /\ recs'[c] # None
      <4>1. cobjs[q] \in Object(q)
        BY <1>1, <2>2 DEF TypeInv, ReadinessTypeOK, Objects
      <4>2. [obj |-> q, orig |-> cobjs[q], seen |-> Unread] # None
        BY <1>1, <4>1, Reconciling
      <4>3. QED
        BY <1>3, <2>2, <4>2
    <3>2. Running(q)'
      BY <1>1, <3>1 DEF Running
    <3>3. Unread \in MayHaveSeen(q, cobjs[q].spec, cobjs, cothers) \cup
                       IF LooksUp(cobjs[q].spec) THEN {Unread, Failed} ELSE {}
      BY DEF MayHaveSeen
    <3>4. QED
      BY <1>1, <1>2, <3>1, <3>2, <3>3 DEF Tracked, ProgressOK, RestOK
  <2>3. QED
    BY <2>1, <2>2
<1>8. QED
  BY <1>5, <1>6, <1>7 DEF StatusTracking, Tracked

LEMMA LookUpTracked ==
  ASSUME TypeInv, StatusTracking, NEW c \in Controllers, LookUp(c)
  PROVE  StatusTracking'
<1>1. recs[c] # None /\ LooksUp(recs[c].orig.spec)
  BY DEF LookUp, Waiting
<1>2. PICK q \in c : recs[c].obj = q /\ recs[c] \in ReconcileOf(q) /\ recs[c].orig \in Object(q)
  BY <1>1, RunningTyped
<1>spec. PICK spec \in SpecOf(q) : spec = recs[c].orig.spec
  BY <1>2 DEF Object
<1>own. q \in Owned /\ ControllerOf(q) = c
  BY ControllerOfKind
<1>3. UNCHANGED <<objs, cobjs, cothers, notes, queue, changes>>
  BY DEF LookUp, cluster, caches
<1>4. /\ recs'[c] = [obj |-> q, orig |-> recs[c].orig, seen |-> Seen(q, spec, cobjs, cothers)]
      /\ \A d \in Controllers \ {c} : recs'[d] = recs[d]
  BY <1>2, <1>spec DEF LookUp, TypeInv, ReadinessTypeOK, ReconcileOf
<1>5. VersionsOK'
  BY <1>3, VersionsStay DEF StatusTracking
<1>6. ASSUME NEW o \in Owned \ {q} PROVE Tracked(o)'
  BY <1>2, <1>spec, <1>own, <1>3, <1>4, <1>6, BystanderCalm
<1>7. Tracked(q)'
  <2>1. Running(q)
    BY <1>1, <1>2, <1>spec, <1>own DEF Running
  <2>2. recs'[c] # None
    <3>1. Seen(q, spec, cobjs, cothers) \in {Absent} \cup IF q \in Datasets THEN {None} \cup Texts
                                                         ELSE {Failed, TRUE}
      BY <1>1, <1>spec, <1>own, SeenTyped
    <3>2. QED
      BY <1>2, <1>4, <1>own, <3>1, Reconciling
  <2>3. Running(q)' /\ (Awake(q) <=> Awake(q)')
    BY <1>2, <1>spec, <1>own, <1>3, <1>4, <2>2 DEF Running, Awake, Woken
  <2>4. ~Awake(q) => recs[c].orig = cobjs[q]
    BY <1>2, <1>spec, <1>own, <2>1 DEF StatusTracking, ProgressOK
  <2>5. Seen(q, spec, cobjs, cothers) \in MayHaveSeen(q, spec, cobjs, cothers)
    <3>1. CASE q \in Datasets
      <4>1. spec.ref \in ConfigMaps /\ spec.ref \in Others
        BY <1>1, <1>spec, <1>own, <3>1, SpecTyped DEF LooksUp, Others
      <4>2. Seen(q, spec, cobjs, cothers) = cothers[spec.ref]
        BY <1>2, <1>spec, <1>own, <3>1, KindsAssumption DEF Seen
      <4>3. cothers[spec.ref] \in ContentOf(spec.ref) \cup {Absent}
        BY <4>1 DEF TypeInv, ReadinessTypeOK, Contents
      <4>4. QED
        BY <1>1, <1>spec, <3>1, <4>2, <4>3 DEF MayHaveSeen
    <3>2. CASE q \notin Datasets
      BY <1>1, <1>spec, <3>2 DEF MayHaveSeen
    <3>3. QED
      BY <3>1, <3>2
  <2>6. QED
    BY <1>2, <1>spec, <1>own, <1>3, <1>4, <2>3, <2>4, <2>5 DEF Tracked, ProgressOK, RestOK
<1>8. QED
  BY <1>2, <1>spec, <1>own, <1>5, <1>6, <1>7 DEF StatusTracking, Tracked

LEMMA LookUpFailsTracked ==
  ASSUME TypeInv, StatusTracking, NEW c \in Controllers, LookUpFails(c)
  PROVE  StatusTracking'
<1>1. recs[c] # None /\ LooksUp(recs[c].orig.spec)
  BY DEF LookUpFails, Waiting
<1>2. PICK q \in c : /\ recs[c].obj = q /\ recs[c] \in ReconcileOf(q)
                      /\ recs[c].orig \in Object(q) /\ q \in Owned /\ ControllerOf(q) = c
  BY <1>1, RunningTyped
<1>3. UNCHANGED <<objs, cobjs, cothers, notes, changes>>
  BY DEF LookUpFails, cluster, caches
<1>4. \A d \in Controllers \ {c} : recs'[d] = recs[d]
  BY DEF LookUpFails, TypeInv, ReadinessTypeOK
<1>5. VersionsOK'
  BY <1>3, VersionsStay DEF StatusTracking
<1>6. CASE c = PluginConfigs
  <2>1. recs'[c] = [obj |-> q, orig |-> recs[c].orig, seen |-> Failed] /\ queue' = queue
    BY <1>2, <1>6 DEF LookUpFails, TypeInv, ReadinessTypeOK, ReconcileOf
  <2>2. ASSUME NEW o \in Owned \ {q} PROVE Tracked(o)'
    BY <1>2, <1>3, <1>4, <2>1, <2>2, BystanderCalm
  <2>3. Tracked(q)'
    <3>1. Running(q)
      BY <1>1, <1>2 DEF Running
    <3>2. recs'[c] # None
      <4>1. q \notin Datasets
        BY <1>2, <1>6, KindsAssumption
      <4>2. QED
        BY <1>2, <2>1, <4>1, Reconciling
    <3>3. Running(q)' /\ (Awake(q) <=> Awake(q)')
      BY <1>2, <1>3, <2>1, <3>2 DEF Running, Awake, Woken
    <3>4. ~Awake(q) => recs[c].orig = cobjs[q]
      BY <1>2, <3>1 DEF StatusTracking, ProgressOK
    <3>5. QED
      BY <1>1, <1>2, <1>3, <2>1, <3>3, <3>4 DEF Tracked, ProgressOK, RestOK
  <2>4. QED
    BY <1>2, <1>5, <2>2, <2>3 DEF StatusTracking, Tracked
<1>7. CASE c # PluginConfigs
  <2>1. recs'[c] = None /\ queue' = queue \cup {q}
    BY <1>2, <1>7 DEF LookUpFails, TypeInv, ReadinessTypeOK
  <2>2. ASSUME NEW o \in Owned \ {q} PROVE Tracked(o)'
    BY <1>2, <1>3, <1>4, <2>1, <2>2, BystanderCalm
  <2>3. Tracked(q)'
    BY <1>2, <2>1, AwakeTracked DEF Awake
  <2>4. QED
    BY <1>2, <1>5, <2>2, <2>3 DEF StatusTracking, Tracked
<1>8. QED
  BY <1>6, <1>7
(* A merge that gives the status it was computed from had nothing to add.  *)
LEMMA MergedBack ==
  ASSUME NEW live \in Status, NEW orig \in Status, NEW upd \in Status,
         orig = Merged(live, orig, upd)
  PROVE  upd = orig
<1>1. DOMAIN live = {"gen", "cond", "result"}
  BY DEF Status
<1>2. \A k \in {"gen", "cond", "result"} : orig[k] = IF upd[k] = orig[k] THEN live[k] ELSE upd[k]
  BY <1>1 DEF Merged
<1>3. upd.gen = orig.gen /\ upd.cond = orig.cond /\ upd.result = orig.result
  BY <1>2
<1>4. QED
  BY <1>3 DEF Status

(* What a patch of the object its controller reconciles does to it.        *)
LEMMA PatchedVersions ==
  ASSUME TypeInv, VersionsOK, UNCHANGED <<cobjs, changes>>,
         NEW q \in Owned, \A o \in Owned \ {q} : objs'[o] = objs[o],
         \/ objs'[q] = objs[q]
         \/ objs[q] # Absent /\ objs'[q].uid = objs[q].uid /\ objs'[q].gen = objs[q].gen
  PROVE  VersionsOK'
  BY DEF VersionsOK

LEMMA PatchTracked ==
  ASSUME TypeInv, StatusTracking, NEW c \in Controllers, PatchStatus(c) \/ PatchStatusFails(c)
  PROVE  StatusTracking'
<1>1. Patching(c) /\ recs[c] # None
  BY DEF PatchStatus, PatchStatusFails, Patching
<1>2. PICK q \in c : /\ recs[c].obj = q /\ recs[c] \in ReconcileOf(q)
                     /\ recs[c].orig \in Object(q) /\ q \in Owned /\ ControllerOf(q) = c
  BY <1>1, RunningTyped
<1>3. /\ UNCHANGED <<cobjs, cothers, notes, changes>>
      /\ recs'[c] = None /\ \A d \in Controllers \ {c} : recs'[d] = recs[d]
      /\ queue \subseteq queue'
  BY DEF PatchStatus, PatchStatusFails, caches, TypeInv, ReadinessTypeOK
<1>4. objs' = objs \/ (objs[q] # Absent /\ Patched(c))
  BY <1>2 DEF PatchStatus, PatchStatusFails
<1> DEFINE upd == ReconciledStatus(q, recs[c].orig.status, recs[c].orig, recs[c].seen)
<1>5. Patched(c) /\ objs[q] # Absent =>
        /\ \A o \in Owned \ {q} : objs'[o] = objs[o]
        /\ upd \in Status
        /\ objs'[q] = [uid |-> objs[q].uid, spec |-> objs[q].spec, gen |-> objs[q].gen,
                       status |-> Merged(objs[q].status, recs[c].orig.status, upd)]
  BY <1>1, <1>2, PatchedTyped
<1>6. VersionsOK'
  BY <1>2, <1>3, <1>4, <1>5, PatchedVersions DEF StatusTracking
<1>7. ASSUME NEW o \in Owned \ {q} PROVE Tracked(o)'
  BY <1>2, <1>3, <1>4, <1>5, <1>7, BystanderCalm
<1>8. Tracked(q)'
  <2>1. ~Running(q)'
    BY <1>2, <1>3 DEF Running
  <2>2. SUFFICES ASSUME ~Awake(q)', objs'[q] # Absent, cobjs'[q] = objs'[q]
                 PROVE  Settled(q, cobjs'[q], cobjs', cothers')
    BY <2>1 DEF Tracked, ProgressOK, RestOK
  <2>3. ~Awake(q) /\ Running(q)
    BY <1>1, <1>2, <1>3, <2>2 DEF Awake, Woken, Running
  <2>4. q \notin queue'
    BY <2>2 DEF Awake
  <2>5. PatchStatus(c) /\ recs[c].seen # Failed /\ objs[q] # Absent /\ Patched(c)
    BY <1>2, <2>4 DEF PatchStatus, PatchStatusFails
  <2>6. recs[c].orig = cobjs[q] /\ cobjs'[q] = cobjs[q] /\ cobjs[q] # Absent
    BY <1>2, <1>3, <2>2, <2>3 DEF StatusTracking, ProgressOK
  <2>7. recs[c].seen \in MayHaveSeen(q, cobjs[q].spec, cobjs, cothers)
    <3>1. recs[c].seen \in MayHaveSeen(q, cobjs[q].spec, cobjs, cothers) \cup
                             IF LooksUp(cobjs[q].spec) THEN {Unread, Failed} ELSE {}
      BY <1>2, <2>3 DEF StatusTracking, ProgressOK
    <3>2. LooksUp(cobjs[q].spec) => recs[c].seen # Unread
      BY <1>1, <2>6 DEF Patching, Waiting
    <3>3. QED
      BY <2>5, <3>1, <3>2
  <2>8. cobjs[q].status = upd
    <3>1. cobjs[q].status = objs'[q].status /\ objs'[q].status \in Status
      <4>1. cobjs[q] \in Object(q)
        BY <1>2, <2>6
      <4>2. QED
        BY <2>2, <2>6, <4>1 DEF Object
    <3>2. objs'[q].status = Merged(objs[q].status, cobjs[q].status, upd) /\ upd \in Status
      BY <1>5, <2>5, <2>6
    <3>3. objs[q].status \in Status
      BY <1>2, <2>5 DEF TypeInv, ReadinessTypeOK, Objects, Object
    <3> DEFINE old == cobjs[q].status
               live == objs[q].status
    <3>4. old = Merged(live, old, upd) /\ old \in Status /\ live \in Status /\ upd \in Status
      BY <3>1, <3>2, <3>3
    <3> HIDE DEF old, live, upd
    <3>5. upd = old
      BY <3>4, MergedBack
    <3>6. QED
      BY <3>5 DEF old
  <2>9. Settled(q, cobjs[q], cobjs, cothers)
    BY <2>6, <2>7, <2>8 DEF Settled
  <2>10. QED
    BY <1>3, <2>9
<1>9. QED
  BY <1>2, <1>6, <1>7, <1>8 DEF StatusTracking, Tracked

-----------------------------------------------------------------------------
LEMMA ReadinessStepTracked ==
  ASSUME TypeInv, StatusTracking, ReadinessStep
  PROVE  StatusTracking'
<1>1. CASE Users
  BY <1>1, ObjectWriteTracked, OtherWriteTracked DEF Users
<1>2. CASE InformAny \/ HandleAny
  BY <1>2, InformObjectTracked, InformOtherTracked, HandleTracked DEF InformAny, HandleAny
<1>3. CASE Fails
  BY <1>3, LookUpFailsTracked, PatchTracked DEF Fails
<1>4. CASE \E c \in Controllers : Work(c)
  BY <1>4, StartTracked, LookUpTracked, PatchTracked DEF Work
<1>5. QED
  BY <1>1, <1>2, <1>3, <1>4 DEF ReadinessStep

LEMMA StepTracked ==
  ASSUME TypeInv, StatusTracking, [Next]_allVars
  PROVE  StatusTracking'
<1>1. CASE UNCHANGED allVars
  <2>1. Aside
    BY <1>1 DEF allVars, readinessVars, cluster, caches, Aside, TypeInv, ReadinessTypeOK
  <2>2. QED
    BY <2>1, AsideTracked
<1>2. CASE Next
  BY <1>2, ReadinessStepTracked, EvalStepAside, AsideTracked, CrashTracked DEF Next, Step
<1>3. QED
  BY <1>1, <1>2

LEMMA InitTracked ==
  ASSUME EvalInit
  PROVE  StatusTracking
<1>1. /\ cobjs = objs /\ queue = Existing(objs) /\ recs = [c \in Controllers |-> None]
      /\ objs = [o \in Owned |-> New(plan.start[o], 0)] /\ changes = 0
  BY DEF EvalInit, ReadinessInit
<1>2. ASSUME NEW o \in Owned, objs[o] # Absent
      PROVE  objs[o].uid = 0 /\ objs[o].gen = 1
  <2>1. objs[o] = [uid |-> 0, spec |-> plan.start[o], gen |-> 1, status |-> NoStatus]
    BY <1>1, <1>2 DEF New
  <2>2. QED
    BY <2>1
<1>3. VersionsOK
  <2>1. cobjs = objs /\ changes = 0
    BY <1>1
  <2>2. QED
    BY <1>2, <2>1 DEF VersionsOK
<1>4. ASSUME NEW o \in Owned PROVE ProgressOK(o) /\ RestOK(o)
  <2>1. ~Running(o)
    BY <1>1, OwnedHasController DEF Running
  <2>2. objs[o] # Absent => Awake(o)
    BY <1>1 DEF Existing, Awake
  <2>3. QED
    BY <2>1, <2>2 DEF ProgressOK, RestOK
<1>5. QED
  BY <1>3, <1>4 DEF StatusTracking

LEMMA TracksStatuses == Spec => [](TypeInv /\ StatusTracking)
<1>1. EvalInit => TypeInv /\ StatusTracking
  BY InitTyped, InitTracked
<1>2. TypeInv /\ StatusTracking /\ [Next]_allVars => (TypeInv /\ StatusTracking)'
  BY ReadinessTyped, EvalTyped, StepTracked DEF TypeInv
<1>3. QED
  BY <1>1, <1>2, PTL DEF Spec

(* The invariant: what a reconcile in progress looked up, and what the     *)
(* last one said, still hold unless something has woken the object.        *)
THEOREM StatusesAreTracked == Spec => []StatusTracking
<1>1. QED
  BY TracksStatuses, PTL

LEMMA TrackingSettles ==
  ASSUME TypeInv, StatusTracking
  PROVE  StatusesSettle
<1>1. SUFFICES ASSUME NEW o \in Existing(objs), AtRest(o)
               PROVE  Settled(o, objs[o], cobjs, cothers)
  BY DEF StatusesSettle
<1>2. o \in Owned /\ objs[o] # Absent
  BY DEF Existing, TypeInv, ReadinessTypeOK, Objects
<1>3. ~Awake(o) /\ ~Running(o) /\ cobjs[o] = objs[o]
  BY <1>1 DEF AtRest, Awake, Running
<1>4. QED
  BY <1>2, <1>3 DEF StatusTracking, RestOK

(* No wakeup is lost and no error forgotten, for any number of objects of  *)
(* every kind and any number of changes, failures and restarts.            *)
THEOREM StatusesOfTheQuiet == Spec => []StatusesSettle
<1>1. TypeInv /\ StatusTracking => StatusesSettle
  BY TrackingSettles
<1>2. QED
  BY <1>1, TracksStatuses, PTL
-----------------------------------------------------------------------------
(* What a settled status says.                                             *)
LEMMA SettledSays ==
  ASSUME NEW o \in Owned, NEW obj \in Object(o), NEW seen,
         obj.status = ReconciledStatus(o, obj.status, obj, seen)
  PROVE  /\ obj.status.cond.ready <=> Reason(o, obj.spec, seen) = "Ready"
         /\ obj.status.cond.ready => obj.status.result = Result(o, obj.spec, seen)
         /\ obj # Absent => (IsReady(obj) <=> obj.status.cond.ready)
<1> DEFINE st == ReconciledStatus(o, obj.status, obj, seen)
<1>1. /\ st.cond = Condition(Reason(o, obj.spec, seen), obj.gen)
      /\ Reason(o, obj.spec, seen) = "Ready" => st.result = Result(o, obj.spec, seen)
  BY DEF ReconciledStatus
<1>2. /\ st.cond.ready <=> Reason(o, obj.spec, seen) = "Ready"
      /\ st.cond \in Conditions
  <2>1. Reason(o, obj.spec, seen) \in {"Ready", "InvalidSpec", "MissingDependency", "Error"}
    BY DEF Reason
  <2>2. obj.gen \in Nat
    BY DEF Object
  <2>3. Condition(Reason(o, obj.spec, seen), obj.gen) \in Conditions
    BY <2>1, <2>2 DEF Condition, Conditions
  <2>4. Condition(Reason(o, obj.spec, seen), obj.gen).ready
          <=> Reason(o, obj.spec, seen) = "Ready"
    BY DEF Condition
  <2>5. QED
    BY <1>1, <2>3, <2>4
<1>3. st.cond # None
  BY <1>2, RecordsAssumption
<1>4. QED
  BY <1>1, <1>2, <1>3 DEF IsReady

LEMMA CountsAreSound ==
  ASSUME TypeInv, StatusesSettle
  PROVE  SampleCountSound
<1>1. SUFFICES ASSUME NEW o \in Existing(objs) \cap Datasets, AtRest(o), IsReady(objs[o])
               PROVE  /\ objs[o].status.result >= -1
                      /\ objs[o].status.result = -1 <=> objs[o].spec.sources = {"uri"}
  BY DEF SampleCountSound
<1>2. o \in Owned /\ objs[o] # Absent /\ objs[o] \in Object(o)
  BY DEF Existing, TypeInv, ReadinessTypeOK, Objects, Owned
<1> DEFINE spec == objs[o].spec
<1>3. PICK seen \in MayHaveSeen(o, spec, cobjs, cothers) :
        objs[o].status = ReconciledStatus(o, objs[o].status, objs[o], seen)
  BY <1>1 DEF StatusesSettle, Settled
<1>4. Reason(o, spec, seen) = "Ready" /\ objs[o].status.result = Result(o, spec, seen)
  BY <1>1, <1>2, <1>3, SettledSays
<1>5. spec \in SpecOf(o)
  BY <1>2 DEF Object
<1>6. o \notin Tools /\ o \notin Prompts
  BY KindsAssumption
<1>7. /\ Cardinality(spec.sources) = 1
      /\ objs[o].status.result = Samples(spec, seen) /\ Samples(spec, seen) # Malformed
      /\ LooksUp(spec) => seen # Absent
  BY <1>4, <1>6 DEF Reason, Result
<1>8. spec.sources = {"ref"} \/ spec.sources = {"here"} \/ spec.sources = {"uri"}
  <2>1. spec.sources \subseteq {"ref", "here", "uri"}
    BY <1>2, <1>5, SpecTyped
  <2>2. PICK x : spec.sources = {x}
    BY <1>7, <2>1, OneSource
  <2>3. QED
    BY <2>1, <2>2
<1>9. Texts \subseteq Text /\ spec.format \in {"json", "jsonl", "csv"}
  BY <1>2, <1>5, ReadinessAssumption, SpecTyped
<1>10. CASE spec.sources = {"uri"}
  BY <1>7, <1>10 DEF Samples
<1>11. CASE spec.sources = {"here"}
  <2>1. spec.body \in Texts
    BY <1>2, <1>5, <1>11, SpecTyped
  <2>2. countSamplesBytes(spec.format, spec.body) \in Nat \cup {Malformed}
    BY <1>9, <2>1, CountTyped
  <2>3. Samples(spec, seen) = countSamplesBytes(spec.format, spec.body)
    BY <1>11 DEF Samples
  <2>4. QED
    BY <1>7, <1>11, <2>2, <2>3
<1>12. CASE spec.sources = {"ref"}
  <2>1. spec.ref \in ConfigMaps
    BY <1>2, <1>5, <1>12, SpecTyped
  <2>2. MayHaveSeen(o, spec, cobjs, cothers) = ContentOf(spec.ref) \cup {Absent}
    BY <1>12 DEF MayHaveSeen, LooksUp
  <2>3. seen \in Texts \cup {None}
    BY <1>3, <1>7, <1>12, <2>1, <2>2 DEF ContentOf, LooksUp
  <2>4. Samples(spec, seen) = IF seen = None THEN Malformed
                              ELSE countSamplesBytes(spec.format, seen)
    BY <1>12 DEF Samples
  <2>5. Samples(spec, seen) \in Nat
    BY <1>7, <1>9, <2>3, <2>4, CountTyped
  <2>6. QED
    BY <1>7, <1>12, <2>5
<1>13. QED
  BY <1>8, <1>10, <1>11, <1>12

(* A Dataset that is Ready says -1 only of samples behind a URI, and never *)
(* less, whatever the files are like.                                      *)
THEOREM CountsOfSamples == Spec => []SampleCountSound
<1>1. TypeInv /\ StatusTracking => SampleCountSound
  BY TrackingSettles, CountsAreSound
<1>2. QED
  BY <1>1, TracksStatuses, PTL
(* Who has one source and, if that is another object, finds it, is Ready.  *)
LEMMA ReadyWhenFound ==
  ASSUME TypeInv, StatusesSettle, NEW o \in Existing(objs) \ Datasets, AtRest(o)
  PROVE  LET spec == objs[o].spec
         IN  /\ o \in Owned /\ objs[o] # Absent /\ spec \in SpecOf(o)
             /\ IsReady(objs[o]) <=>
                  \/ spec.sources = {"here"}
                  \/ LooksUp(spec) /\ Seen(o, spec, cobjs, cothers) # Absent
             /\ IsReady(objs[o]) /\ o \in Tools =>
                  objs[o].status.result = IF LooksUp(spec) THEN spec.ref ELSE spec.body
<1>1. o \in Owned /\ objs[o] # Absent /\ objs[o] \in Object(o)
  BY DEF Existing, TypeInv, ReadinessTypeOK, Objects, Owned
<1> DEFINE spec == objs[o].spec
<1>2. PICK seen \in MayHaveSeen(o, spec, cobjs, cothers) :
        objs[o].status = ReconciledStatus(o, objs[o].status, objs[o], seen)
  BY DEF StatusesSettle, Settled
<1>3. /\ IsReady(objs[o]) <=> Reason(o, spec, seen) = "Ready"
      /\ IsReady(objs[o]) => objs[o].status.result = Result(o, spec, seen)
  BY <1>1, <1>2, SettledSays
<1>4. spec \in SpecOf(o)
  BY <1>1 DEF Object
<1>5. spec.sources \subseteq {"ref", "here"}
  BY <1>1, <1>4, SpecTyped DEF Owned
<1>6. Cardinality(spec.sources) = 1 <=> spec.sources = {"ref"} \/ spec.sources = {"here"}
  BY <1>5, OneSource
<1>7. LooksUp(spec) => seen = Seen(o, spec, cobjs, cothers) /\ seen # Failed
  <2>1. SUFFICES ASSUME LooksUp(spec)
                 PROVE  seen = Seen(o, spec, cobjs, cothers) /\ seen # Failed
    OBVIOUS
  <2>2. seen = Seen(o, spec, cobjs, cothers)
    BY <1>2, <2>1 DEF MayHaveSeen
  <2>3. Seen(o, spec, cobjs, cothers) \in {TRUE, Absent}
    BY DEF Seen
  <2>4. QED
    BY <2>2, <2>3, MarksAssumption
<1>8. Reason(o, spec, seen) = "Ready" <=>
        \/ spec.sources = {"here"}
        \/ LooksUp(spec) /\ Seen(o, spec, cobjs, cothers) # Absent
  BY <1>6, <1>7 DEF Reason, LooksUp
<1>9. o \in Tools => Result(o, spec, seen) = IF LooksUp(spec) THEN spec.ref ELSE spec.body
  BY KindsAssumption DEF Result
<1>10. QED
  BY <1>1, <1>3, <1>4, <1>8, <1>9

LEMMA ChainsAgree ==
  ASSUME TypeInv, StatusesSettle
  PROVE  ChainAgrees
<1>1. SUFFICES ASSUME \A o \in Existing(objs) : AtRest(o), cobjs = objs, cothers = others,
                      NEW o \in Existing(objs) \ Datasets
               PROVE  /\ IsReady(objs[o]) <=> Usable(o)
                      /\ o \in Tools /\ Usable(o) =>
                           objs[o].status.result = IF LooksUp(objs[o].spec) THEN objs[o].spec.ref
                                                   ELSE objs[o].spec.body
  BY DEF ChainAgrees
<1>2. ASSUME NEW p \in Existing(objs) \ Datasets
      PROVE  LET spec == objs[p].spec
             IN  /\ p \in Owned /\ objs[p] # Absent /\ spec \in SpecOf(p)
                 /\ IsReady(objs[p]) <=> \/ spec.sources = {"here"}
                                         \/ LooksUp(spec) /\ Seen(p, spec, objs, others) # Absent
                 /\ IsReady(objs[p]) /\ p \in Tools =>
                      objs[p].status.result = IF LooksUp(spec) THEN spec.ref ELSE spec.body
  BY <1>1, ReadyWhenFound
<1>3. ASSUME NEW p \in PluginConfigs
      PROVE  IsReady(objs[p]) <=> HasSecret(p)
  <2>1. CASE objs[p] = Absent
    BY <2>1 DEF IsReady, HasSecret
  <2>2. CASE objs[p] # Absent
    <3>1. p \in Existing(objs) \ Datasets
      BY <2>2, KindsAssumption DEF Existing, TypeInv, ReadinessTypeOK, Objects, Owned
    <3>2. objs[p].spec.sources # {"here"}
      BY <1>2, <3>1, SpecTyped
    <3>3. Seen(p, objs[p].spec, objs, others) # Absent <=> others[objs[p].spec.ref] # Absent
      BY KindsAssumption, MarksAssumption DEF Seen
    <3>4. QED
      BY <1>2, <2>2, <3>1, <3>2, <3>3 DEF HasSecret
  <2>3. QED
    BY <2>1, <2>2
<1>4. IsReady(objs[o]) <=> Usable(o)
  <2> DEFINE spec == objs[o].spec
  <2>1. o \in Owned /\ spec \in SpecOf(o)
    BY <1>2
  <2>2. CASE o \in PluginConfigs
    BY <1>3, <2>2, KindsAssumption DEF Usable
  <2>3. CASE o \in Models
    <3>1. spec.sources # {"here"} /\ (LooksUp(spec) => spec.ref \in PluginConfigs)
      BY <2>1, <2>3, SpecTyped DEF LooksUp
    <3>2. Seen(o, spec, objs, others) # Absent <=> IsReady(objs[spec.ref])
      BY <2>3, MarksAssumption DEF Seen
    <3>3. Usable(o) <=> LooksUp(spec) /\ HasSecret(spec.ref)
      BY <2>3, KindsAssumption DEF Usable
    <3>4. QED
      BY <1>2, <1>3, <3>1, <3>2, <3>3
  <2>4. CASE o \in Tools \cup Prompts
    <3>1. Seen(o, spec, objs, others) # Absent <=> others[spec.ref] # Absent
      BY <2>4, KindsAssumption, MarksAssumption DEF Seen
    <3>2. Usable(o) <=> spec.sources = {"here"} \/ (LooksUp(spec) /\ others[spec.ref] # Absent)
      BY <2>4, KindsAssumption DEF Usable
    <3>3. QED
      BY <1>2, <3>1, <3>2
  <2>5. QED
    BY <2>1, <2>2, <2>3, <2>4 DEF Owned
<1>5. QED
  BY <1>2, <1>4

(* Readiness propagates along every chain of Secret, PluginConfig and      *)
(* Model, and to the Tools of every Flow.                                  *)
THEOREM ReadinessPropagates == Spec => []ChainAgrees
<1>1. TypeInv /\ StatusTracking => ChainAgrees
  BY TrackingSettles, ChainsAgree
<1>2. QED
  BY <1>1, TracksStatuses, PTL

-----------------------------------------------------------------------------
(* Evals and their runs.                                                   *)

(* The time of the last run.                                               *)

(* What any step does to the Jobs of e, and to what is known of them.      *)
RunsMove(e) ==
  /\ runs' \in {runs, runs + 1}
  /\ Done(jobs'[e]) => jobs'[e] = jobs[e] \/ jobs'[e].time = runs'
  /\ Done(cjobs'[e]) => cjobs'[e] \in {cjobs[e], jobs[e]}
  /\ evals'[e] # Absent =>
       \/ evals'[e].status.lastRun = 0
       \/ evals[e] # Absent /\ evals'[e].status.lastRun = evals[e].status.lastRun
       \/ Reports(e) /\ evals'[e].status.lastRun = erec.upd.lastRun
  /\ Reports(e)' => \/ Reports(e) /\ erec'.upd.lastRun = erec.upd.lastRun
                    \/ Done(cjobs[e]) /\ erec'.upd.lastRun = cjobs[e].time

LEMMA RunsTyped ==
  ASSUME TypeInv, NEW e \in Evals
  PROVE  /\ runs \in Nat
         /\ evals[e] # Absent => evals[e].status.lastRun \in Nat
         /\ jobs[e] # Absent => jobs[e].time \in Nat
         /\ cjobs[e] # Absent => cjobs[e].time \in Nat
         /\ erec # None => erec.upd.lastRun \in Nat
<1>1. runs \in Nat
  BY PlanTyped DEF TypeInv, ReadinessTypeOK, EvalTypeOK
<1>2. evals[e] # Absent => evals[e].status.lastRun \in Nat
  BY DEF TypeInv, EvalTypeOK, Children, EvalObject, EvalStatus
<1>3. /\ jobs[e] # Absent => jobs[e].time \in Nat
      /\ cjobs[e] # Absent => cjobs[e].time \in Nat
  BY DEF TypeInv, EvalTypeOK, Children, Job
<1>4. erec # None => erec.upd.lastRun \in Nat
  BY EvalRunning DEF EvalStatus
<1>5. QED
  BY <1>1, <1>2, <1>3, <1>4

LEMMA RunsStayInOrder ==
  ASSUME TypeInv, RunsInOrder, \A e \in Evals : RunsMove(e)
  PROVE  RunsInOrder'
<1>1. SUFFICES ASSUME NEW e \in Evals
               PROVE  /\ evals'[e] # Absent =>
                           Past(evals'[e].status.lastRun, jobs'[e], cjobs'[e], runs')
                      /\ Done(jobs'[e]) => jobs'[e].time <= runs'
                      /\ Done(cjobs'[e]) => Past(cjobs'[e].time, jobs'[e], cjobs'[e], runs')
                      /\ Reports(e)' =>
                           /\ Past(erec'.upd.lastRun, jobs'[e], cjobs'[e], runs')
                           /\ evals'[e] # Absent =>
                                evals'[e].status.lastRun <= erec'.upd.lastRun
  BY DEF RunsInOrder
<1>2. RunsMove(e)
  OBVIOUS
<1>3. ASSUME NEW t \in Nat, Past(t, jobs[e], cjobs[e], runs)
      PROVE  Past(t, jobs'[e], cjobs'[e], runs')
  BY <1>2, <1>3, RunsTyped DEF RunsMove, Past
<1>4. Past(0, jobs[e], cjobs[e], runs)
  BY RunsTyped DEF Past, Done
<1>5. /\ Done(jobs[e]) => jobs[e].time <= runs /\ jobs[e].time \in Nat
      /\ Done(cjobs[e]) => Past(cjobs[e].time, jobs[e], cjobs[e], runs) /\ cjobs[e].time \in Nat
  BY RunsTyped DEF RunsInOrder, Done
<1>6. evals'[e] # Absent => Past(evals'[e].status.lastRun, jobs'[e], cjobs'[e], runs')
  BY <1>2, <1>3, <1>4, RunsTyped DEF RunsMove, RunsInOrder, Reports, EvalRuns
<1>7. Done(jobs'[e]) => jobs'[e].time <= runs'
  BY <1>2, <1>5, RunsTyped DEF RunsMove
<1>8. Done(cjobs'[e]) => Past(cjobs'[e].time, jobs'[e], cjobs'[e], runs')
  <2>1. CASE cjobs'[e] = cjobs[e]
    BY <1>3, <1>5, <2>1
  <2>2. CASE cjobs'[e] # cjobs[e]
    <3>1. SUFFICES ASSUME Done(cjobs'[e]) PROVE Past(jobs[e].time, jobs'[e], cjobs'[e], runs')
      BY <1>2, <2>2 DEF RunsMove
    <3>2. cjobs'[e] = jobs[e] /\ Done(jobs[e])
      BY <1>2, <2>2, <3>1 DEF RunsMove
    <3>3. QED
      BY <1>2, <1>5, <3>2, RunsTyped DEF RunsMove, Past
  <2>3. QED
    BY <2>1, <2>2
<1>9. Reports(e)' => /\ Past(erec'.upd.lastRun, jobs'[e], cjobs'[e], runs')
                     /\ evals'[e] # Absent => evals'[e].status.lastRun <= erec'.upd.lastRun
  <2>1. SUFFICES ASSUME Reports(e)'
                 PROVE  /\ Past(erec'.upd.lastRun, jobs'[e], cjobs'[e], runs')
                        /\ evals'[e] # Absent => evals'[e].status.lastRun <= erec'.upd.lastRun
    OBVIOUS
  <2>2. CASE Reports(e) /\ erec'.upd.lastRun = erec.upd.lastRun
    <3>1. erec.upd.lastRun \in Nat
      BY <2>2, RunsTyped DEF Reports, EvalRuns
    <3>2. QED
      BY <1>2, <1>3, <2>2, <3>1, RunsTyped DEF RunsMove, RunsInOrder
  <2>3. CASE Done(cjobs[e]) /\ erec'.upd.lastRun = cjobs[e].time
    <3>1. evals[e] # Absent => evals[e].status.lastRun <= cjobs[e].time
      BY <2>3 DEF RunsInOrder, Past
    <3>2. Reports(e) => erec.upd.lastRun <= cjobs[e].time
      BY <2>3 DEF RunsInOrder, Past
    <3>3. QED
      BY <1>2, <1>3, <1>5, <2>3, <3>1, <3>2 DEF RunsMove
  <2>4. QED
    BY <1>2, <2>1, <2>2, <2>3 DEF RunsMove
<1>10. QED
  BY <1>6, <1>7, <1>8, <1>9
(* The reconcile, if it goes on, is to give the time it was to give.       *)
Carries ==
  \/ erec' = None
  \/ /\ erec # None /\ erec'.eval = erec.eval /\ erec'.orig = erec.orig
     /\ erec'.upd.lastRun = erec.upd.lastRun
  \/ erec'.upd.lastRun = erec'.orig.status.lastRun

LEMMA QuietRuns ==
  ASSUME TypeInv, UNCHANGED <<evals, jobs, cjobs>>, runs' \in {runs, runs + 1}, Carries
  PROVE  \A e \in Evals : RunsMove(e)
  BY DEF RunsMove, Carries, Reports, EvalRuns

LEMMA JobRuns ==
  ASSUME TypeInv, UNCHANGED <<evals, cjobs>>, Carries, runs' \in {runs, runs + 1},
         NEW f \in Evals, \A e \in Evals \ {f} : jobs'[e] = jobs[e],
         Done(jobs'[f]) => jobs'[f] = jobs[f] \/ jobs'[f].time = runs'
  PROVE  \A e \in Evals : RunsMove(e)
  BY DEF RunsMove, Carries, Reports, EvalRuns

LEMMA JobStepsRun ==
  ASSUME TypeInv, NEW e \in Evals,
         \/ JobDelete(e) \/ JobCollect(e) \/ JobStart(e) \/ JobFail(e)
         \/ \E text \in Outputs : JobComplete(e, text)
  PROVE  \A f \in Evals : RunsMove(f)
<1>1. jobs = [f \in Evals |-> jobs[f]] /\ jobs[e] \in Job \cup {Absent}
  BY DEF TypeInv, EvalTypeOK, Children
<1>2. UNCHANGED <<evals, cjobs, erec>> /\ runs' \in {runs, runs + 1}
  BY DEF JobDelete, JobCollect, JobGone, JobStart, JobFail, JobComplete, Written
<1>3. Carries
  BY <1>2 DEF Carries
<1>4. /\ \A f \in Evals \ {e} : jobs'[f] = jobs[f]
      /\ Done(jobs'[e]) => jobs'[e].time = runs'
  <2>1. CASE JobDelete(e) \/ JobCollect(e)
    BY <1>1, <2>1 DEF JobDelete, JobCollect, JobGone, Done
  <2>2. CASE JobStart(e) \/ JobFail(e)
    <3>1. PICK state \in {"active", "failed"} : jobs' = [jobs EXCEPT ![e].state = state]
      BY <2>2 DEF JobStart, JobFail
    <3>2. jobs[e] \in Job
      BY <1>1, <2>2 DEF JobStart, JobFail
    <3>3. jobs'[e] = [jobs[e] EXCEPT !.state = state] /\ \A f \in Evals \ {e} : jobs'[f] = jobs[f]
      BY <1>1, <3>1
    <3>4. jobs'[e].state = state
      BY <3>2, <3>3 DEF Job
    <3>5. QED
      BY <3>3, <3>4 DEF Done
  <2>3. CASE \E text \in Outputs : JobComplete(e, text)
    <3>1. jobs' = [jobs EXCEPT ![e].state = "complete", ![e].time = runs'] /\ jobs[e] \in Job
      BY <1>1, <2>3 DEF JobComplete
    <3>2. /\ jobs'[e] = [jobs[e] EXCEPT !.state = "complete", !.time = runs']
          /\ \A f \in Evals \ {e} : jobs'[f] = jobs[f]
      BY <1>1, <3>1
    <3>3. jobs'[e].time = runs'
      BY <3>1, <3>2 DEF Job
    <3>4. QED
      BY <3>2, <3>3
  <2>4. QED
    BY <2>1, <2>2, <2>3
<1>5. QED
  BY <1>2, <1>3, <1>4, JobRuns

LEMMA OutsideRuns ==
  ASSUME TypeInv
  PROVE  /\ UNCHANGED evalVars => \A f \in Evals : RunsMove(f)
         /\ \A e \in Evals : /\ CronCollect(e) => \A f \in Evals : RunsMove(f)
                             /\ InformEval(e) => \A f \in Evals : RunsMove(f)
                             /\ \A text \in Outputs :
                                  CronRun(e, text) => \A f \in Evals : RunsMove(f)
<1>1. UNCHANGED erec => Carries
  BY DEF Carries
<1>2. QED
  BY <1>1, QuietRuns DEF evalVars, CronCollect, InformEval, CronRun, Written

LEMMA InformJobRuns ==
  ASSUME TypeInv, NEW e \in Evals, InformJob(e)
  PROVE  \A f \in Evals : RunsMove(f)
<1>1. UNCHANGED <<evals, jobs, erec, runs>>
  BY DEF InformJob
<1>2. \A f \in Evals : cjobs'[f] \in {cjobs[f], jobs[f]}
  BY DEF InformJob, TypeInv, EvalTypeOK, Children
<1>3. QED
  BY <1>1, <1>2 DEF RunsMove, Reports, EvalRuns

LEMMA EvalCrashRuns ==
  ASSUME TypeInv, EvalCrash
  PROVE  \A f \in Evals : RunsMove(f)
  BY DEF EvalCrash, RunsMove, Reports, EvalRuns

LEMMA EvalWriteRuns ==
  ASSUME TypeInv, NEW e \in Evals, NEW s \in plan.evalWrites[e], EvalWrite(e, s)
  PROVE  /\ \A f \in Evals : RunsMove(f)
         /\ \A f \in Evals : evals[f] # Absent /\ evals'[f] # Absent =>
              evals'[f].status.lastRun = evals[f].status.lastRun
<1>1. evals = [f \in Evals |-> evals[f]] /\ evals[e] \in EvalObject \cup {Absent}
  BY DEF TypeInv, EvalTypeOK, Children
<1>2. UNCHANGED <<jobs, cjobs, erec, runs>> /\ \A f \in Evals \ {e} : evals'[f] = evals[f]
  BY <1>1 DEF EvalWrite
<1>3. evals'[e] # Absent =>
        IF evals[e] = Absent THEN evals'[e].status.lastRun = 0
        ELSE evals'[e].status.lastRun = evals[e].status.lastRun
  <2>1. CASE s = Absent
    BY <1>1, <2>1 DEF EvalWrite
  <2>2. CASE s # Absent /\ evals[e] = Absent
    <3>1. evals'[e] = [uid |-> changes', spec |-> s, gen |-> 1, status |-> NoEvalStatus]
      BY <1>1, <2>2 DEF EvalWrite
    <3>2. QED
      BY <2>2, <3>1 DEF NoEvalStatus
  <2>3. CASE s # Absent /\ evals[e] # Absent
    <3>1. evals'[e] = Edited(evals[e], s)
      BY <1>1, <2>3 DEF EvalWrite
    <3>2. QED
      BY <1>1, <2>3, <3>1 DEF Edited, EvalObject
  <2>4. QED
    BY <2>1, <2>2, <2>3
<1>4. QED
  BY <1>2, <1>3 DEF RunsMove, Reports, EvalRuns
LEMMA EvalStartRuns ==
  ASSUME TypeInv, NEW e \in Evals, EvalStart(e)
  PROVE  \A f \in Evals : RunsMove(f)
<1>1. UNCHANGED <<evals, jobs, cjobs, runs>>
  BY DEF EvalStart
<1>2. Carries
  <2>1. CASE cevals[e] = Absent
    BY <2>1 DEF EvalStart, Carries
  <2>2. CASE cevals[e] # Absent
    <3>1. cevals[e].status \in EvalStatus
      BY <2>2 DEF TypeInv, EvalTypeOK, Children, EvalObject
    <3>2. erec'.orig = cevals[e] /\ erec'.upd = [cevals[e].status EXCEPT !.gen = cevals[e].gen]
      BY <2>2 DEF EvalStart
    <3>3. erec'.upd.lastRun = erec'.orig.status.lastRun
      BY <3>1, <3>2 DEF EvalStatus
    <3>4. QED
      BY <3>3 DEF Carries
  <2>3. QED
    BY <2>1, <2>2
<1>3. QED
  BY <1>1, <1>2, QuietRuns

LEMMA RefusedCarries ==
  ASSUME TypeInv, erec # None, NEW reason, erec' = Refused(reason)
  PROVE  Carries
<1>1. erec \in EvalReconcile /\ erec.upd \in EvalStatus
  BY EvalRunning
<1>2. erec' = [erec EXCEPT !.upd = [erec.upd EXCEPT !.cond = Condition(reason, erec.orig.gen)],
                           !.pc = "patch"]
  BY <1>1 DEF Refused, EvalReconcile, EvalStatus
<1>3. /\ erec'.eval = erec.eval /\ erec'.orig = erec.orig
      /\ erec'.upd = [erec.upd EXCEPT !.cond = Condition(reason, erec.orig.gen)]
  BY <1>1, <1>2 DEF EvalReconcile
<1>4. erec'.upd.lastRun = erec.upd.lastRun
  BY <1>1, <1>3 DEF EvalStatus
<1>5. QED
  BY <1>3, <1>4 DEF Carries

LEMMA EvalReadsRun ==
  ASSUME TypeInv, ReadFlow \/ ReadDataset \/ ReadSink
  PROVE  \A f \in Evals : RunsMove(f)
<1>1. erec # None
  BY DEF ReadFlow, ReadDataset, ReadSink, EvalAt
<1>2. erec \in EvalReconcile /\ erec.upd \in EvalStatus
  BY <1>1, EvalRunning
<1>3. UNCHANGED <<evals, jobs, cjobs, runs>>
  BY DEF ReadFlow, ReadDataset, ReadSink, EvalReads
<1> SUFFICES Carries
  BY <1>3, QuietRuns
<1>4. CASE ReadFlow
  <2> DEFINE flow == cothers[erec.orig.spec.flow]
  <2>1. CASE flow = Absent
    BY <1>1, <1>4, <2>1, RefusedCarries DEF ReadFlow
  <2>2. CASE flow # Absent
    <3>1. erec' = [erec EXCEPT !.flow = flow, !.pc = "dataset"]
      BY <1>4, <2>2 DEF ReadFlow
    <3>2. QED
      BY <1>1, <1>2, <3>1 DEF EvalReconcile, Carries
  <2>3. QED
    BY <2>1, <2>2
<1>5. CASE ReadDataset
  <2> DEFINE spec == erec.orig.spec
             dataset == cobjs[spec.dataset]
  <2>1. CASE dataset = Absent \/ ~validateSink(spec)
    <3>1. erec' = Refused("MissingDependency") \/ erec' = Refused("InvalidSpec")
      BY <1>5, <2>1 DEF ReadDataset
    <3>2. QED
      BY <1>1, <3>1, RefusedCarries
  <2>2. CASE dataset # Absent /\ validateSink(spec)
    <3>1. erec' = [erec EXCEPT !.pod = evalPodSpec(spec, erec.flow, dataset.spec),
                               !.pc = IF spec.scheduled THEN "cron" ELSE "job"]
      BY <1>5, <2>2 DEF ReadDataset
    <3>2. QED
      BY <1>1, <1>2, <3>1 DEF EvalReconcile, Carries
  <2>3. QED
    BY <2>1, <2>2
<1>6. CASE ReadSink
  <2> DEFINE spec == erec.orig.spec
             upd == [erec.upd EXCEPT !.cond = Condition("Ready", erec.orig.gen)]
             new == IF "configMap" \in spec.sinks THEN SinkResult(upd, cothers[spec.sink]) ELSE upd
  <2>1. new.lastRun = erec.upd.lastRun
    BY <1>2 DEF EvalStatus, SinkResult
  <2>2. erec' = [erec EXCEPT !.pc = "patch", !.upd = new]
    BY <1>6 DEF ReadSink
  <2> HIDE DEF new
  <2>3. erec'.eval = erec.eval /\ erec'.orig = erec.orig /\ erec'.upd = new
    BY <1>2, <2>2 DEF EvalReconcile
  <2>4. QED
    BY <1>1, <2>1, <2>3 DEF Carries
<1>7. QED
  BY <1>4, <1>5, <1>6

(* Only a Job that is done gives a reconcile another time.                 *)
LEMMA GetJobRuns ==
  ASSUME TypeInv, GetJob
  PROVE  \A f \in Evals : RunsMove(f)
<1>1. erec # None
  BY DEF GetJob, EvalAt
<1>2. erec \in EvalReconcile /\ erec.upd \in EvalStatus /\ erec.eval \in Evals
  BY <1>1, EvalRunning
<1>3. UNCHANGED <<evals, jobs, cjobs, runs>>
  BY DEF GetJob, EvalReads
<1> DEFINE job == cjobs[erec.eval]
<1>4. CASE job = Absent
  <2>1. erec' = [erec EXCEPT !.pc = "create"]
    BY <1>4 DEF GetJob
  <2>2. Carries
    BY <1>1, <1>2, <2>1 DEF EvalReconcile, Carries
  <2>3. QED
    BY <1>3, <2>2, QuietRuns
<1>5. CASE job # Absent
  <2>1. erec' = [erec EXCEPT !.upd = observeJob(erec.upd, job), !.pc = "sink"]
    BY <1>2, <1>5 DEF GetJob, EvalReconcile
  <2>2. /\ erec'.eval = erec.eval /\ erec'.orig = erec.orig
        /\ erec'.upd = observeJob(erec.upd, job)
    BY <1>2, <2>1 DEF EvalReconcile
  <2>3. IF Done(job) THEN erec'.upd.lastRun = job.time ELSE erec'.upd.lastRun = erec.upd.lastRun
    BY <1>2, <1>5, <2>2 DEF observeJob, Done, EvalStatus
  <2>4. CASE Done(job)
    BY <1>3, <2>2, <2>3, <2>4 DEF RunsMove, Reports, EvalRuns
  <2>5. CASE ~Done(job)
    <3>1. Carries
      BY <1>1, <2>2, <2>3, <2>5 DEF Carries
    <3>2. QED
      BY <1>3, <3>1, QuietRuns
  <2>6. QED
    BY <2>4, <2>5
<1>6. QED
  BY <1>4, <1>5

(* The patch gives the time it was to give, or none.                       *)
LEMMA PatchRuns ==
  ASSUME TypeInv, NEW e \in Evals, erec # None, erec.eval = e, erec' = None,
         UNCHANGED <<jobs, cjobs, runs>>, evals[e] # Absent, EvalPatched(e) \/ UNCHANGED evals
  PROVE  /\ \A f \in Evals : RunsMove(f)
         /\ \A f \in Evals :
              evals[f] # Absent =>
                 \/ evals'[f].status.lastRun = evals[f].status.lastRun
                 \/ Reports(f) /\ evals'[f].status.lastRun = erec.upd.lastRun
<1>1. CASE UNCHANGED evals
  BY <1>1, QuietRuns DEF Carries
<1>2. CASE EvalPatched(e)
  <2> DEFINE st == Merged(evals[e].status, erec.orig.status, erec.upd)
  <2>1. evals = [f \in Evals |-> evals[f]] /\ evals[e] \in EvalObject
    BY DEF TypeInv, EvalTypeOK, Children
  <2>2. evals[e].status \in EvalStatus
    BY <2>1 DEF EvalObject
  <2>3. st.lastRun = IF erec.upd.lastRun = erec.orig.status.lastRun
                     THEN evals[e].status.lastRun ELSE erec.upd.lastRun
    BY <2>2 DEF Merged, EvalStatus
  <2>4. evals' = [evals EXCEPT ![e].status = st]
    BY <1>2 DEF EvalPatched
  <2> HIDE DEF st
  <2>5. evals'[e] = [evals[e] EXCEPT !.status = st] /\ \A f \in Evals \ {e} : evals'[f] = evals[f]
    BY <2>1, <2>4
  <2>6. evals'[e].status = st
    BY <2>1, <2>5 DEF EvalObject
  <2>7. evals'[e].status.lastRun = IF Reports(e) THEN erec.upd.lastRun ELSE evals[e].status.lastRun
    BY <2>3, <2>6 DEF Reports, EvalRuns
  <2>8. QED
    BY <2>5, <2>7 DEF RunsMove, Reports, EvalRuns
<1>3. QED
  BY <1>1, <1>2

(* A Job that was just created is not done.                                *)
LEMMA CreatedRuns ==
  ASSUME TypeInv, erec # None, JobCreated(erec.eval), UNCHANGED <<evals, cjobs, runs>>, Carries
  PROVE  \A f \in Evals : RunsMove(f)
<1>1. PICK e \in Evals : e = erec.eval
  BY EvalRunning
<1>2. /\ jobs'[e] = [owner |-> erec.orig.uid, pod |-> erec.pod, state |-> "pending", time |-> 0]
      /\ \A f \in Evals \ {e} : jobs'[f] = jobs[f]
  BY <1>1 DEF JobCreated, TypeInv, EvalTypeOK, Children
<1>3. ~Done(jobs'[e])
  BY <1>2 DEF Done
<1>4. QED
  BY <1>2, <1>3, JobRuns

LEMMA EvalCallsRun ==
  ASSUME TypeInv, ApplyCronJob \/ CreateJob \/ EvalConflict \/ SinkFails
  PROVE  (\A f \in Evals : RunsMove(f)) /\ UNCHANGED evals
<1>1. erec # None /\ UNCHANGED <<evals, cjobs, runs>>
  BY DEF ApplyCronJob, CreateJob, EvalConflict, SinkFails, EvalAt
<1>2. erec \in EvalReconcile /\ erec.upd \in EvalStatus /\ erec.eval \in Evals
  BY <1>1, EvalRunning
<1>3. CASE ApplyCronJob
  <2>1. Carries
    BY <1>1, <1>2, <1>3 DEF ApplyCronJob, EvalReconcile, Carries
  <2>2. QED
    BY <1>1, <1>3, <2>1, QuietRuns DEF ApplyCronJob
<1>4. CASE CreateJob
  <2>1. erec' = [erec EXCEPT !.upd = [erec.upd EXCEPT !.active = TRUE], !.pc = "sink"]
    BY <1>2, <1>4 DEF CreateJob, EvalReconcile, EvalStatus
  <2>2. /\ erec'.eval = erec.eval /\ erec'.orig = erec.orig
        /\ erec'.upd = [erec.upd EXCEPT !.active = TRUE]
    BY <1>2, <2>1 DEF EvalReconcile
  <2>3. Carries
    BY <1>1, <1>2, <2>2 DEF EvalStatus, Carries
  <2>4. CreateJob => JobCreated(erec.eval)
    BY DEF CreateJob
  <2>5. QED
    BY <1>1, <1>4, <2>3, <2>4, CreatedRuns
<1>5. CASE EvalConflict
  <2>1. Carries
    BY <1>5 DEF EvalConflict, GiveUp, Carries
  <2>2. QED
    BY <1>1, <1>5, <2>1, QuietRuns DEF EvalConflict
<1>6. CASE SinkFails
  <2> DEFINE upd == [erec.upd EXCEPT !.cond = Condition("Ready", erec.orig.gen)]
  <2>1. erec' = [erec EXCEPT !.pc = "patch", !.upd = upd]
    BY <1>2, <1>6 DEF SinkFails, EvalReconcile, EvalStatus
  <2>2. erec'.eval = erec.eval /\ erec'.orig = erec.orig /\ erec'.upd = upd
    BY <1>2, <2>1 DEF EvalReconcile
  <2>3. Carries
    BY <1>1, <1>2, <2>2 DEF EvalStatus, Carries
  <2>4. QED
    BY <1>1, <1>6, <2>3, QuietRuns DEF SinkFails
<1>7. QED
  BY <1>3, <1>4, <1>5, <1>6
LEMMA EvalFailsRun ==
  ASSUME TypeInv, EvalFails
  PROVE  /\ \A f \in Evals : RunsMove(f)
         /\ \A f \in Evals :
              evals[f] # Absent =>
                 \/ evals'[f].status.lastRun = evals[f].status.lastRun
                 \/ Reports(f) /\ evals'[f].status.lastRun = erec.upd.lastRun
<1>1. erec # None /\ erec' = None /\ UNCHANGED <<cjobs, runs>>
  BY DEF EvalFails, GiveUp, EvalAt
<1>2. Carries
  BY <1>1 DEF Carries
<1>3. PICK e \in Evals : erec.eval = e
  BY <1>1, EvalRunning
<1>4. CASE UNCHANGED <<evals, jobs>>
  BY <1>1, <1>2, <1>4, QuietRuns
<1>5. CASE UNCHANGED evals /\ JobCreated(erec.eval)
  BY <1>1, <1>2, <1>5, CreatedRuns
<1>6. CASE UNCHANGED jobs /\ evals[e] # Absent /\ EvalPatched(e)
  BY <1>1, <1>3, <1>6, PatchRuns
<1>7. QED
  BY <1>3, <1>4, <1>5, <1>6 DEF EvalFails

LEMMA EvalPatchRuns ==
  ASSUME TypeInv, EvalPatch
  PROVE  /\ \A f \in Evals : RunsMove(f)
         /\ \A f \in Evals :
              evals[f] # Absent =>
                 \/ evals'[f].status.lastRun = evals[f].status.lastRun
                 \/ Reports(f) /\ evals'[f].status.lastRun = erec.upd.lastRun
<1>1. erec # None /\ erec' = None /\ UNCHANGED <<jobs, cjobs, runs>>
  BY DEF EvalPatch, EvalAt
<1>2. PICK e \in Evals : erec.eval = e
  BY <1>1, EvalRunning
<1>3. evals[e] # Absent /\ EvalPatched(e)
  BY <1>2 DEF EvalPatch
<1>4. QED
  BY <1>1, <1>2, <1>3, PatchRuns

(* Every step moves the runs on, and gives an Eval no time but the one its *)
(* reconcile was to give.                                                  *)
LEMMA StepRuns ==
  ASSUME TypeInv, [Next]_allVars
  PROVE  /\ \A f \in Evals : RunsMove(f)
         /\ \A f \in Evals :
              evals[f] # Absent /\ evals'[f] # Absent =>
                 \/ evals'[f].status.lastRun = evals[f].status.lastRun
                 \/ Reports(f) /\ evals'[f].status.lastRun = erec.upd.lastRun
<1>1. CASE UNCHANGED evalVars
  BY <1>1, OutsideRuns DEF evalVars
<1>2. CASE EvalStep
  <2>1. CASE EvalUsers
    <3>1. CASE \E e \in Evals : JobDelete(e)
      BY <3>1, JobStepsRun DEF JobDelete, JobGone
    <3>2. CASE \E e \in Evals : \E s \in plan.evalWrites[e] : EvalWrite(e, s)
      BY <3>2, EvalWriteRuns
    <3>3. QED
      BY <2>1, <3>1, <3>2 DEF EvalUsers
  <2>2. CASE EvalCluster
    <3>1. UNCHANGED evals
      BY <2>2 DEF EvalCluster, JobStart, JobFail, JobComplete, CronRun
    <3>2. QED
      BY <2>2, <3>1, JobStepsRun, OutsideRuns DEF EvalCluster
  <2>3. CASE EvalCollect
    <3>1. UNCHANGED evals
      BY <2>3 DEF EvalCollect, JobCollect, JobGone, CronCollect
    <3>2. QED
      BY <2>3, <3>1, JobStepsRun, OutsideRuns DEF EvalCollect
  <2>4. CASE EvalInform
    <3>1. UNCHANGED evals
      BY <2>4 DEF EvalInform, InformEval, InformJob
    <3>2. QED
      BY <2>4, <3>1, InformJobRuns, OutsideRuns DEF EvalInform
  <2>5. CASE EvalWorker
    <3>1. CASE \E e \in Evals : EvalStart(e)
      BY <3>1, EvalStartRuns DEF EvalStart
    <3>2. CASE ReadFlow \/ ReadDataset \/ ReadSink
      BY <3>2, EvalReadsRun DEF ReadFlow, ReadDataset, ReadSink, EvalReads
    <3>3. CASE GetJob
      BY <3>3, GetJobRuns DEF GetJob, EvalReads
    <3>4. CASE ApplyCronJob \/ CreateJob \/ EvalConflict
      BY <3>4, EvalCallsRun
    <3>5. CASE EvalPatch
      BY <3>5, EvalPatchRuns
    <3>6. QED
      BY <2>5, <3>1, <3>2, <3>3, <3>4, <3>5 DEF EvalWorker
  <2>6. CASE EvalFails
    BY <2>6, EvalFailsRun
  <2>7. CASE SinkFails
    BY <2>7, EvalCallsRun
  <2>8. CASE EvalCrash
    BY <2>8, EvalCrashRuns DEF EvalCrash
  <2>9. QED
    BY <1>2, <2>1, <2>2, <2>3, <2>4, <2>5, <2>6, <2>7, <2>8 DEF EvalStep
<1>3. QED
  BY <1>1, <1>2 DEF Next, Step, allVars

LEMMA InitRuns ==
  ASSUME EvalInit
  PROVE  RunsInOrder
<1>1. /\ jobs = [e \in Evals |-> Absent] /\ cjobs = jobs /\ erec = None /\ runs = 0
      /\ evals = [e \in Evals |-> IF plan.evals[e] = Absent THEN Absent
                                  ELSE [uid |-> 0, spec |-> plan.evals[e], gen |-> 1,
                                        status |-> NoEvalStatus]]
  BY DEF EvalInit
<1>2. ASSUME NEW e \in Evals
      PROVE  ~Done(jobs[e]) /\ ~Done(cjobs[e]) /\ (evals[e] # Absent => evals[e].status.lastRun = 0)
  BY <1>1 DEF Done, NoEvalStatus
<1>3. ASSUME NEW e \in Evals
      PROVE  evals[e] # Absent => Past(evals[e].status.lastRun, jobs[e], cjobs[e], runs)
  BY <1>1, <1>2 DEF Past
<1>4. QED
  BY <1>1, <1>2, <1>3 DEF RunsInOrder, Reports, EvalRuns

LEMMA KeepsRunsInOrder == Spec => [](TypeInv /\ RunsInOrder)
<1>1. EvalInit => TypeInv /\ RunsInOrder
  BY InitTyped, InitRuns
<1>2. TypeInv /\ RunsInOrder /\ [Next]_allVars => (TypeInv /\ RunsInOrder)'
  BY ReadinessTyped, EvalTyped, StepRuns, RunsStayInOrder DEF TypeInv
<1>3. QED
  BY <1>1, <1>2, PTL DEF Spec

(* The invariant: the times in the status, of the cached Job and of the    *)
(* Job come in this order, whichever Jobs of the Eval they are of.         *)
THEOREM RunsStayOrdered == Spec => []RunsInOrder
<1>1. QED
  BY KeepsRunsInOrder, PTL

(* The lastRunTime of an Eval never goes back while it lives, however many *)
(* Jobs it has had, whatever is deleted, fails or is started again.        *)
THEOREM LastRunNeverGoesBack == Spec => LastRunMonotone
<1>1. ASSUME TypeInv, RunsInOrder, [Next]_allVars
      PROVE  [\A e \in Evals : evals[e] # Absent /\ evals'[e] # Absent /\ evals'[e].uid = evals[e].uid
                 => evals'[e].status.lastRun >= evals[e].status.lastRun]_allVars
  <2>1. SUFFICES ASSUME NEW e \in Evals, evals[e] # Absent, evals'[e] # Absent
                 PROVE  evals'[e].status.lastRun >= evals[e].status.lastRun
    OBVIOUS
  <2>2. evals[e].status.lastRun \in Nat /\ (Reports(e) => erec.upd.lastRun \in Nat)
    BY <1>1, <2>1, RunsTyped DEF Reports, EvalRuns
  <2>3. Reports(e) => evals[e].status.lastRun <= erec.upd.lastRun
    BY <1>1, <2>1 DEF RunsInOrder
  <2>4. \/ evals'[e].status.lastRun = evals[e].status.lastRun
        \/ Reports(e) /\ evals'[e].status.lastRun = erec.upd.lastRun
    BY <1>1, <2>1, StepRuns
  <2>5. QED
    BY <2>2, <2>3, <2>4
<1>2. QED
  BY <1>1, KeepsRunsInOrder, PTL DEF Spec, LastRunMonotone
-----------------------------------------------------------------------------
(* What becomes of an Eval and its workload.                               *)
EvalTracked(e) == EvalProgressOK(e) /\ EvalRestOK(e)

(* A step that changes nothing that the controller could have relied on.   *)
CalmFor(e) ==
  /\ e \in equeue => e \in equeue'
  /\ cevals'[e] = cevals[e] /\ cjobs'[e] = cjobs[e] /\ crons'[e] = crons[e]
  /\ cjobs[e] = Absent /\ jobs[e] # Absent => jobs'[e] # Absent
  /\ evals'[e] # Absent /\ evals'[e] = cevals[e] => evals[e] = cevals[e]

LEMMA WorkedStays ==
  ASSUME NEW spec, NEW st, NEW cron, NEW cjob, NEW job, NEW new,
         cjob = Absent /\ job # Absent => new # Absent
  PROVE  Worked(spec, st, cron, cjob, job) => Worked(spec, st, cron, cjob, new)
  BY DEF Worked

LEMMA JudgedStays ==
  ASSUME NEW obj, NEW st, NEW cron, NEW cjob, NEW job, NEW new,
         cjob = Absent /\ job # Absent => new # Absent
  PROVE  Judged(obj, st, cron, cjob, job) => Judged(obj, st, cron, cjob, new)
  BY WorkedStays DEF Judged

LEMMA QueuedTracked ==
  ASSUME NEW e \in Evals, e \in equeue'
  PROVE  EvalTracked(e)'
  BY DEF EvalTracked, EvalProgressOK, EvalRestOK

LEMMA CalmTracked ==
  ASSUME NEW e \in Evals, EvalTracked(e), CalmFor(e),
         erec' = erec \/ (~EvalRuns(e) /\ ~EvalRuns(e)')
  PROVE  EvalTracked(e)'
<1>1. SUFFICES ASSUME e \notin equeue' PROVE EvalTracked(e)'
  BY QueuedTracked
<1>2. e \notin equeue
  BY <1>1 DEF CalmFor
<1>3. /\ cevals'[e] = cevals[e] /\ cjobs'[e] = cjobs[e] /\ crons'[e] = crons[e]
      /\ cjobs[e] = Absent /\ jobs[e] # Absent => jobs'[e] # Absent
  BY DEF CalmFor
<1>4. EvalProgressOK(e)'
  <2>1. SUFFICES ASSUME EvalRuns(e)' PROVE EvalProgressOK(e)'
    BY DEF EvalProgressOK
  <2>2. erec' = erec /\ EvalRuns(e)
    BY <2>1 DEF EvalRuns
  <2>3. EvalProgressOK(e)
    BY DEF EvalTracked
  <2>4. erec.pc = "sink" => Worked(erec.orig.spec, erec.upd, crons'[e], cjobs'[e], jobs'[e])
    BY <1>2, <1>3, <2>2, <2>3, WorkedStays DEF EvalProgressOK
  <2>5. erec.pc = "patch" => Judged(erec.orig, erec.upd, crons'[e], cjobs'[e], jobs'[e])
    BY <1>2, <1>3, <2>2, <2>3, JudgedStays DEF EvalProgressOK
  <2>6. QED
    BY <1>2, <1>3, <2>2, <2>3, <2>4, <2>5 DEF EvalProgressOK
<1>5. EvalRestOK(e)'
  <2>1. SUFFICES ASSUME ~EvalRuns(e)', evals'[e] # Absent, cevals'[e] = evals'[e]
                 PROVE  EvalRestOK(e)'
    BY DEF EvalRestOK
  <2>2. ~EvalRuns(e) /\ evals[e] = cevals[e] /\ evals[e] # Absent
    BY <1>3, <2>1 DEF EvalRuns, CalmFor
  <2>3. /\ cevals[e].status.gen = cevals[e].gen
        /\ Judged(cevals[e], cevals[e].status, crons[e], cjobs[e], jobs[e])
    BY <1>2, <2>2 DEF EvalTracked, EvalRestOK
  <2>4. Judged(cevals[e], cevals[e].status, crons'[e], cjobs'[e], jobs'[e])
    BY <1>3, <2>3, JudgedStays
  <2>5. QED
    BY <1>3, <2>3, <2>4 DEF EvalRestOK
<1>6. QED
  BY <1>4, <1>5 DEF EvalTracked

(* No step makes an Eval older, and the caches only follow.                *)
EvalVersionsMove(e) ==
  /\ changes' \in {changes, changes + 1}
  /\ cevals'[e] \in {cevals[e], evals[e], evals'[e]}
  /\ \/ evals'[e] = Absent
     \/ evals'[e].uid = changes' /\ changes' = changes + 1 /\ evals'[e].gen = 1
     \/ /\ evals[e] # Absent /\ evals'[e].uid = evals[e].uid
        /\ evals'[e].gen \in {evals[e].gen, evals[e].gen + 1}

LEMMA EvalVersionsFollow ==
  ASSUME TypeInv, TypeInv', EvalVersionsOK, \A e \in Evals : EvalVersionsMove(e)
  PROVE  EvalVersionsOK'
<1>1. SUFFICES ASSUME NEW e \in Evals
               PROVE  /\ evals'[e] # Absent => evals'[e].uid <= changes'
                      /\ cevals'[e] # Absent => cevals'[e].uid <= changes'
                      /\ evals'[e] # Absent /\ cevals'[e] # Absent /\ evals'[e].uid = cevals'[e].uid
                           => cevals'[e].gen <= evals'[e].gen
  BY DEF EvalVersionsOK
<1>2. /\ evals[e] # Absent => evals[e].uid \in Nat /\ evals[e].gen \in Nat
      /\ cevals[e] # Absent => cevals[e].uid \in Nat /\ cevals[e].gen \in Nat
      /\ evals'[e] # Absent => evals'[e].uid \in Nat /\ evals'[e].gen \in Nat
  BY DEF TypeInv, EvalTypeOK, Children, EvalObject
<1>3. changes \in Nat
  BY PlanTyped DEF TypeInv, ReadinessTypeOK
<1>4. QED
  BY <1>1, <1>2, <1>3 DEF EvalVersionsOK, EvalVersionsMove
EvalMoves(e) == EvalVersionsMove(e) /\ EvalTracked(e)'

(* Evals, the cache of them and the reconcile in progress, left alone.     *)
LEMMA OtherStepMoves ==
  ASSUME NEW e \in Evals, EvalTracked(e), UNCHANGED <<evals, erec>>,
         changes' \in {changes, changes + 1}, cevals'[e] \in {cevals[e], evals[e]},
         e \in equeue' \/ CalmFor(e)
  PROVE  EvalMoves(e)
  BY QueuedTracked, CalmTracked DEF EvalMoves, EvalVersionsMove

(* A step of the reconcile that runs, and another Eval.                    *)
LEMMA BystanderMoves ==
  ASSUME NEW e \in Evals, EvalTracked(e), erec # None, erec.eval # e,
         erec' = None \/ erec'.eval = erec.eval,
         evals'[e] = evals[e], changes' = changes, UNCHANGED cevals, equeue \subseteq equeue',
         UNCHANGED cjobs, crons'[e] = crons[e], jobs'[e] = jobs[e]
  PROVE  EvalMoves(e)
<1>1. ~EvalRuns(e) /\ ~EvalRuns(e)'
  BY DEF EvalRuns
<1>2. CalmFor(e)
  BY DEF CalmFor
<1>3. QED
  BY <1>1, <1>2, CalmTracked DEF EvalMoves, EvalVersionsMove

(* Jobs that come, run, end and go.                                        *)
LEMMA JobMoves ==
  ASSUME TypeInv, EvalTracking, NEW e \in Evals,
         JobDelete(e) \/ JobCollect(e) \/ JobStart(e) \/ JobFail(e)
           \/ \E text \in Outputs : JobComplete(e, text)
  PROVE  \A f \in Evals : EvalMoves(f)
<1>1. /\ UNCHANGED <<evals, erec, cevals, cjobs, crons>> /\ changes' \in {changes, changes + 1}
      /\ equeue \subseteq equeue'
  BY DEF JobDelete, JobCollect, JobStart, JobFail, JobComplete, JobGone, Written, Change,
         readinessVars
<1>2. \A f \in Evals \ {e} : jobs'[f] = jobs[f]
  BY DEF JobDelete, JobCollect, JobStart, JobFail, JobComplete, JobGone,
         TypeInv, EvalTypeOK, Children
<1>3. e \in equeue' \/ (cjobs[e] = Absent /\ jobs[e] # Absent => jobs'[e] # Absent)
  <2>1. CASE JobGone(e)
    BY <2>1 DEF JobGone
  <2>2. CASE JobStart(e) \/ JobFail(e) \/ \E text \in Outputs : JobComplete(e, text)
    <3>1. jobs[e] \in Job /\ jobs = [f \in Evals |-> jobs[f]]
      BY <2>2 DEF JobStart, JobFail, JobComplete, TypeInv, EvalTypeOK, Children
    <3>2. PICK j \in {[jobs[e] EXCEPT !.state = "active"], [jobs[e] EXCEPT !.state = "failed"],
                      [jobs[e] EXCEPT !.state = "complete", !.time = runs']} :
            jobs' = [jobs EXCEPT ![e] = j]
      BY <2>2 DEF JobStart, JobFail, JobComplete
    <3>3. runs' \in Nat
      BY <2>2, RunsTyped DEF JobStart, JobFail, JobComplete, Written
    <3>4. j \in Job
      BY <3>1, <3>2, <3>3 DEF Job
    <3>5. jobs'[e] # Absent
      BY <3>1, <3>2, <3>4, EvalRecordsAssumption
    <3>6. QED
      BY <3>5
  <2>3. QED
    BY <2>1, <2>2 DEF JobDelete, JobCollect
<1>4. QED
  BY <1>1, <1>2, <1>3, OtherStepMoves DEF CalmFor, EvalTracking, EvalTracked

LEMMA CronAndInformMoves ==
  ASSUME TypeInv, EvalTracking, NEW e \in Evals,
         CronCollect(e) \/ InformEval(e) \/ InformJob(e) \/ \E text \in Outputs : CronRun(e, text)
  PROVE  \A f \in Evals : EvalMoves(f)
<1>1. /\ UNCHANGED <<evals, erec, jobs, changes>> /\ equeue' = equeue \cup {e}
  BY DEF CronCollect, InformEval, InformJob, CronRun, Written, readinessVars
<1>2. \A f \in Evals \ {e} :
        cevals'[f] = cevals[f] /\ cjobs'[f] = cjobs[f] /\ crons'[f] = crons[f]
  BY DEF CronCollect, InformEval, InformJob, CronRun, TypeInv, EvalTypeOK, Children
<1>3. cevals'[e] \in {cevals[e], evals[e]}
  BY DEF CronCollect, InformEval, InformJob, CronRun, TypeInv, EvalTypeOK, Children
<1>4. QED
  BY <1>1, <1>2, <1>3, OtherStepMoves DEF CalmFor, EvalTracking, EvalTracked

(* An edit makes a version that was never in a cache.                      *)
LEMMA EvalWriteMoves ==
  ASSUME TypeInv, EvalTracking, NEW e \in Evals, NEW s \in plan.evalWrites[e], EvalWrite(e, s)
  PROVE  \A f \in Evals : EvalMoves(f)
<1>1. /\ changes' = changes + 1 /\ changes \in Nat
      /\ UNCHANGED <<jobs, crons, cevals, cjobs, equeue, erec>>
  BY PlanTyped DEF EvalWrite, Change, TypeInv, ReadinessTypeOK
<1>2. \A f \in Evals \ {e} : evals'[f] = evals[f]
  BY DEF EvalWrite, TypeInv, EvalTypeOK, Children
<1>3. \/ evals'[e] = Absent
      \/ evals'[e].uid = changes' /\ evals'[e].gen = 1
      \/ /\ evals[e] # Absent /\ evals'[e].uid = evals[e].uid
         /\ evals'[e].gen = evals[e].gen + 1
  <2>1. evals = [f \in Evals |-> evals[f]]
    BY DEF TypeInv, EvalTypeOK, Children
  <2>2. CASE s = Absent
    BY <2>1, <2>2 DEF EvalWrite
  <2>3. CASE s # Absent /\ evals[e] = Absent
    <3>1. evals'[e] = [uid |-> changes', spec |-> s, gen |-> 1, status |-> NoEvalStatus]
      BY <2>1, <2>3 DEF EvalWrite
    <3>2. QED
      BY <3>1
  <2>4. CASE s # Absent /\ evals[e] # Absent
    <3>1. evals'[e] = Edited(evals[e], s) /\ evals[e] \in EvalObject
      BY <2>1, <2>4 DEF EvalWrite, TypeInv, EvalTypeOK, Children
    <3>2. QED
      BY <2>4, <3>1 DEF Edited, EvalObject
  <2>5. QED
    BY <2>2, <2>3, <2>4
<1>4. /\ evals[e] # Absent => evals[e].gen \in Nat
      /\ cevals[e] # Absent => cevals[e].gen \in Nat /\ cevals[e].uid \in Nat
  BY DEF TypeInv, EvalTypeOK, Children, EvalObject
<1>5. evals'[e] # Absent => evals'[e] # cevals[e]
  BY <1>1, <1>3, <1>4 DEF EvalTracking, EvalVersionsOK
<1>6. ASSUME NEW f \in Evals PROVE EvalMoves(f)
  <2>1. CalmFor(f)
    BY <1>1, <1>2, <1>5 DEF CalmFor
  <2>2. EvalTracked(f)'
    BY <1>1, <2>1, CalmTracked DEF EvalTracking, EvalTracked
  <2>3. EvalVersionsMove(f)
    BY <1>1, <1>2, <1>3 DEF EvalVersionsMove
  <2>4. QED
    BY <2>2, <2>3 DEF EvalMoves
<1>7. QED
  BY <1>6
-----------------------------------------------------------------------------
(* The worker.                                                             *)
LEMMA EvalStartMoves ==
  ASSUME TypeInv, EvalTracking, NEW e \in Evals, EvalStart(e)
  PROVE  \A f \in Evals : EvalMoves(f)
<1>1. /\ erec = None /\ equeue' = equeue \ {e}
      /\ UNCHANGED <<evals, jobs, crons, cevals, cjobs, changes>>
      /\ erec' = IF cevals[e] = Absent THEN None
                 ELSE [eval |-> e, orig |-> cevals[e], flow |-> None, pod |-> None, pc |-> "flow",
                       upd |-> [cevals[e].status EXCEPT !.gen = cevals[e].gen]]
  BY DEF EvalStart, readinessVars
<1>2. ASSUME NEW f \in Evals PROVE EvalTracked(f)'
  <2>1. CASE f # e
    <3>1. ~EvalRuns(f) /\ ~EvalRuns(f)' /\ CalmFor(f)
      BY <1>1, <2>1 DEF EvalRuns, CalmFor
    <3>2. QED
      BY <3>1, CalmTracked DEF EvalTracking, EvalTracked
  <2>2. CASE f = e /\ cevals[e] = Absent
    BY <1>1, <2>2 DEF EvalTracked, EvalProgressOK, EvalRestOK, EvalRuns
  <2>3. CASE f = e /\ cevals[e] # Absent
    <3>1. cevals[e] \in EvalObject /\ cevals[e].status \in EvalStatus /\ cevals[e].gen \in Nat
      BY <2>3 DEF TypeInv, EvalTypeOK, Children, EvalObject
    <3>2. /\ erec'.eval = e /\ erec'.orig = cevals[e] /\ erec'.pc = "flow"
          /\ erec'.upd = [cevals[e].status EXCEPT !.gen = cevals[e].gen]
      BY <1>1, <2>3
    <3>3. erec'.upd.gen = erec'.orig.gen
      BY <3>1, <3>2 DEF EvalStatus
    <3>4. [cevals[e].status EXCEPT !.gen = cevals[e].gen] \in EvalStatus
      BY <3>1 DEF EvalStatus
    <3>5. erec' # None
      BY <1>1, <2>3, <3>1, <3>4, EvalRecordsAssumption DEF EvalReconcile
    <3>6. EvalRuns(e)'
      BY <3>2, <3>5 DEF EvalRuns
    <3>7. QED
      BY <1>1, <2>3, <3>2, <3>3, <3>6 DEF EvalTracked, EvalProgressOK, EvalRestOK, EvalRuns
  <2>4. QED
    BY <2>1, <2>2, <2>3
<1>3. QED
  BY <1>1, <1>2 DEF EvalMoves, EvalVersionsMove

(* A step that advances the reconcile of e by what it reads.               *)
LEMMA AdvanceMoves ==
  ASSUME EvalTracking, NEW e \in Evals, EvalRuns(e), erec' # None, erec'.eval = e,
         UNCHANGED <<evals, jobs, crons, cevals, cjobs, equeue, changes>>,
         e \notin equeue => EvalProgressOK(e)'
  PROVE  \A f \in Evals : EvalMoves(f)
<1>1. ASSUME NEW f \in Evals, f # e PROVE EvalMoves(f)
  BY <1>1, BystanderMoves DEF EvalRuns, EvalTracking, EvalTracked
<1>2. EvalTracked(e)'
  <2>1. EvalRuns(e)'
    BY DEF EvalRuns
  <2>2. QED
    BY <2>1, QueuedTracked DEF EvalTracked, EvalRestOK
<1>3. EvalMoves(e)
  BY <1>2 DEF EvalMoves, EvalVersionsMove
<1>4. QED
  BY <1>1, <1>3

(* A refusal is a verdict on the generation that is reconciled.            *)
LEMMA RefusedProgress ==
  ASSUME TypeInv, EvalTracking, NEW e \in Evals, EvalRuns(e), e \notin equeue,
         UNCHANGED <<cevals, equeue>>,
         NEW reason \in {"InvalidSpec", "MissingDependency"}, erec' = Refused(reason)
  PROVE  EvalProgressOK(e)'
<1>1. erec \in EvalReconcile /\ erec.upd \in EvalStatus /\ erec.orig.gen \in Nat
  BY EvalRunning DEF EvalRuns
<1>2. erec' = [erec EXCEPT !.upd = [erec.upd EXCEPT !.cond = Condition(reason, erec.orig.gen)],
                           !.pc = "patch"]
  BY <1>1 DEF Refused, EvalReconcile, EvalStatus
<1>3. /\ erec'.orig = erec.orig /\ erec'.pc = "patch"
      /\ erec'.upd = [erec.upd EXCEPT !.cond = Condition(reason, erec.orig.gen)]
  BY <1>1, <1>2 DEF EvalReconcile
<1>4. erec'.upd.gen = erec.upd.gen /\ erec'.upd.cond = Condition(reason, erec.orig.gen)
  BY <1>1, <1>3 DEF EvalStatus
<1>5. Condition(reason, erec.orig.gen) \in Conditions
  BY <1>1, ConditionTyped
<1>6. erec'.upd.cond # None /\ erec'.upd.cond.gen = erec.orig.gen /\ ~erec'.upd.cond.ready
  <2>1. Condition(reason, erec.orig.gen).gen = erec.orig.gen
    BY DEF Condition
  <2>2. ~Condition(reason, erec.orig.gen).ready
    BY DEF Condition
  <2>3. QED
    BY <1>4, <1>5, <2>1, <2>2, RecordsAssumption
<1>7. Judged(erec'.orig, erec'.upd, crons'[e], cjobs'[e], jobs'[e])
  BY <1>3, <1>6 DEF Judged
<1>8. erec.orig = cevals[e] /\ erec.upd.gen = erec.orig.gen
  BY DEF EvalTracking, EvalProgressOK
<1>9. QED
  BY <1>3, <1>4, <1>7, <1>8 DEF EvalProgressOK

LEMMA ReadFlowProgress ==
  ASSUME TypeInv, EvalTracking, NEW e \in Evals, EvalRuns(e), e \notin equeue, ReadFlow
  PROVE  EvalProgressOK(e)'
<1> DEFINE flow == cothers[erec.orig.spec.flow]
<1>1. erec \in EvalReconcile
  BY EvalRunning DEF EvalRuns
<1>2. UNCHANGED <<cevals, equeue>>
  BY DEF ReadFlow, EvalReads
<1>3. CASE flow = Absent
  BY <1>2, <1>3, RefusedProgress DEF ReadFlow
<1>4. CASE flow # Absent
  <2>1. erec' = [erec EXCEPT !.flow = flow, !.pc = "dataset"]
    BY <1>4 DEF ReadFlow
  <2>2. erec'.orig = erec.orig /\ erec'.upd = erec.upd /\ erec'.pc = "dataset"
    BY <1>1, <2>1 DEF EvalReconcile
  <2>3. QED
    BY <1>2, <2>2 DEF EvalTracking, EvalProgressOK
<1>5. QED
  BY <1>3, <1>4

LEMMA ReadDatasetProgress ==
  ASSUME TypeInv, EvalTracking, NEW e \in Evals, EvalRuns(e), e \notin equeue, ReadDataset
  PROVE  EvalProgressOK(e)'
<1> DEFINE spec == erec.orig.spec
           dataset == cobjs[spec.dataset]
           pod == evalPodSpec(spec, erec.flow, dataset.spec)
<1>1. erec \in EvalReconcile /\ spec.scheduled \in BOOLEAN
  BY EvalRunning DEF EvalRuns, EvalSpec
<1>2. UNCHANGED <<cevals, equeue>>
  BY DEF ReadDataset, EvalReads
<1>3. CASE dataset = Absent \/ ~validateSink(spec)
  <2>1. erec' = Refused("MissingDependency") \/ erec' = Refused("InvalidSpec")
    BY <1>3 DEF ReadDataset
  <2>2. QED
    BY <1>2, <2>1, RefusedProgress
<1>4. CASE dataset # Absent /\ validateSink(spec)
  <2>1. erec' = [erec EXCEPT !.pod = pod, !.pc = IF spec.scheduled THEN "cron" ELSE "job"]
    BY <1>4 DEF ReadDataset
  <2>2. PodOf(spec, pod)
    BY DEF PodOf, evalPodSpec
  <2> HIDE DEF pod
  <2>3. /\ erec'.orig = erec.orig /\ erec'.upd = erec.upd /\ erec'.pod = pod
        /\ erec'.pc = IF spec.scheduled THEN "cron" ELSE "job"
    BY <1>1, <2>1 DEF EvalReconcile
  <2>4. erec.orig = cevals[e] /\ erec.upd.gen = erec.orig.gen
    BY DEF EvalTracking, EvalProgressOK
  <2>5. QED
    BY <1>1, <1>2, <2>2, <2>3, <2>4 DEF EvalProgressOK
<1>5. QED
  BY <1>3, <1>4

(* What the cached Job shows is what the status says from then on.         *)
LEMMA GetJobProgress ==
  ASSUME TypeInv, EvalTracking, NEW e \in Evals, EvalRuns(e), e \notin equeue, GetJob
  PROVE  EvalProgressOK(e)'
<1>1. erec \in EvalReconcile /\ erec.upd \in EvalStatus /\ erec.eval = e /\ erec.pc = "job"
  BY EvalRunning DEF EvalRuns, GetJob, EvalAt
<1>2. UNCHANGED <<cevals, cjobs, equeue, crons, jobs>>
  BY DEF GetJob, EvalReads
<1>3. /\ erec.orig = cevals[e] /\ erec.upd.gen = erec.orig.gen
      /\ PodOf(erec.orig.spec, erec.pod) /\ ~erec.orig.spec.scheduled
  BY <1>1 DEF EvalTracking, EvalProgressOK
<1> DEFINE job == cjobs[e]
<1>4. CASE job = Absent
  <2>1. erec' = [erec EXCEPT !.pc = "create"]
    BY <1>1, <1>4 DEF GetJob
  <2>2. erec'.orig = erec.orig /\ erec'.upd = erec.upd /\ erec'.pod = erec.pod /\ erec'.pc = "create"
    BY <1>1, <2>1 DEF EvalReconcile
  <2>3. QED
    BY <1>2, <1>3, <1>4, <2>2 DEF EvalProgressOK
<1>5. CASE job # Absent
  <2>1. erec' = [erec EXCEPT !.upd = observeJob(erec.upd, job), !.pc = "sink"]
    BY <1>1, <1>5 DEF GetJob, EvalReconcile
  <2>2. erec'.orig = erec.orig /\ erec'.upd = observeJob(erec.upd, job) /\ erec'.pc = "sink"
    BY <1>1, <2>1 DEF EvalReconcile
  <2>3. /\ erec'.upd.gen = erec.upd.gen
        /\ job.state = "complete" => erec'.upd.lastRun = job.time /\ ~erec'.upd.active
        /\ job.state = "active" => erec'.upd.active
    BY <1>1, <2>2 DEF observeJob, EvalStatus
  <2>4. Worked(erec'.orig.spec, erec'.upd, crons'[e], cjobs'[e], jobs'[e])
    BY <1>2, <1>3, <1>5, <2>2, <2>3 DEF Worked
  <2>5. QED
    BY <1>2, <1>3, <2>2, <2>3, <2>4 DEF EvalProgressOK
<1>6. QED
  BY <1>4, <1>5

(* Whatever the sink held, or when it could not be read.                   *)
LEMMA SinkProgress ==
  ASSUME TypeInv, EvalTracking, NEW e \in Evals, EvalRuns(e), e \notin equeue,
         ReadSink \/ SinkFails
  PROVE  EvalProgressOK(e)'
<1>1. /\ erec \in EvalReconcile /\ erec.upd \in EvalStatus /\ erec.orig.gen \in Nat
      /\ erec.pc = "sink"
  BY EvalRunning DEF EvalRuns, ReadSink, SinkFails, EvalAt
<1>2. UNCHANGED <<cevals, cjobs, equeue, crons, jobs>>
  BY DEF ReadSink, SinkFails, EvalReads
<1>3. /\ erec.orig = cevals[e] /\ erec.upd.gen = erec.orig.gen
      /\ Worked(erec.orig.spec, erec.upd, crons[e], cjobs[e], jobs[e])
  BY <1>1 DEF EvalTracking, EvalProgressOK
<1> DEFINE spec == erec.orig.spec
           cond == Condition("Ready", erec.orig.gen)
           upd == [erec.upd EXCEPT !.cond = cond]
           text == cothers[spec.sink]
<1>4. cond \in Conditions /\ cond # None /\ cond.gen = erec.orig.gen
  BY <1>1, ConditionTyped, RecordsAssumption DEF Condition
<1>5. PICK new \in {upd, SinkResult(upd, text)} : erec' = [erec EXCEPT !.pc = "patch", !.upd = new]
  <2>1. CASE ReadSink
    BY <2>1 DEF ReadSink
  <2>2. CASE SinkFails
    BY <1>1, <2>2 DEF SinkFails, EvalReconcile, EvalStatus
  <2>3. QED
    BY <2>1, <2>2
<1>6. /\ new.gen = erec.upd.gen /\ new.lastRun = erec.upd.lastRun /\ new.active = erec.upd.active
      /\ new.cond = cond
  BY <1>1 DEF SinkResult, EvalStatus
<1>7. erec'.orig = erec.orig /\ erec'.upd = new /\ erec'.pc = "patch"
  BY <1>1, <1>5 DEF EvalReconcile
<1>8. Worked(spec, new, crons'[e], cjobs'[e], jobs'[e])
  BY <1>2, <1>3, <1>6 DEF Worked
<1>9. Judged(erec'.orig, erec'.upd, crons'[e], cjobs'[e], jobs'[e])
  BY <1>4, <1>6, <1>7, <1>8 DEF Judged
<1>10. QED
  BY <1>2, <1>3, <1>6, <1>7, <1>9 DEF EvalProgressOK
LEMMA EvalReadsMove ==
  ASSUME TypeInv, EvalTracking, UNCHANGED plan,
         ReadFlow \/ ReadDataset \/ GetJob \/ ReadSink \/ SinkFails
  PROVE  \A f \in Evals : EvalMoves(f)
<1>1. erec # None
  BY DEF ReadFlow, ReadDataset, GetJob, ReadSink, SinkFails, EvalAt
<1>2. PICK e \in Evals : EvalRuns(e)
  BY <1>1, EvalRunning DEF EvalRuns
<1>3. UNCHANGED <<evals, jobs, crons, cevals, cjobs, equeue, changes>>
  BY DEF ReadFlow, ReadDataset, GetJob, ReadSink, SinkFails, EvalReads, readinessVars
<1>4. erec' # None
  BY EvalReadsTyped, EvalCallsTyped, EvalRecordsAssumption
<1>5. erec \in EvalReconcile
  BY <1>1, EvalRunning
<1>6. erec'.eval = e
  BY <1>2, <1>5 DEF ReadFlow, ReadDataset, GetJob, ReadSink, SinkFails, Refused, EvalReconcile, EvalRuns
<1>7. e \notin equeue => EvalProgressOK(e)'
  BY <1>2, ReadFlowProgress, ReadDatasetProgress, GetJobProgress, SinkProgress
<1>8. QED
  BY <1>2, <1>3, <1>4, <1>6, <1>7, AdvanceMoves

(* An apply that changes nothing makes no event and leaves what is asked.  *)
LEMMA ApplyCronMoves ==
  ASSUME TypeInv, EvalTracking, UNCHANGED plan, ApplyCronJob
  PROVE  \A f \in Evals : EvalMoves(f)
<1>1. erec # None /\ erec.pc = "cron"
  BY DEF ApplyCronJob, EvalAt
<1>2. PICK e \in Evals : EvalRuns(e)
  BY <1>1, EvalRunning DEF EvalRuns
<1>3. erec \in EvalReconcile /\ erec.eval = e
  BY <1>1, <1>2, EvalRunning DEF EvalRuns
<1>4. /\ UNCHANGED <<evals, jobs, cevals, cjobs, changes>>
      /\ crons' = [crons EXCEPT ![e] = Child]
      /\ equeue' = IF crons[e] = Child THEN equeue ELSE equeue \cup {e}
      /\ erec' = [erec EXCEPT !.pc = "sink"]
  BY <1>3 DEF ApplyCronJob, ApplyCron, readinessVars
<1>5. erec'.eval = e /\ erec'.orig = erec.orig /\ erec'.upd = erec.upd /\ erec'.pc = "sink"
  BY <1>3, <1>4 DEF EvalReconcile
<1>6. erec' # None
  BY EvalCallsTyped, EvalRecordsAssumption
<1>7. crons'[e] = Child /\ \A f \in Evals \ {e} : crons'[f] = crons[f]
  BY <1>4 DEF TypeInv, EvalTypeOK, Children
<1>8. ASSUME NEW f \in Evals, f # e PROVE EvalMoves(f)
  <2>1. erec.eval # f /\ erec'.eval = erec.eval /\ equeue \subseteq equeue'
    BY <1>3, <1>4, <1>5, <1>8
  <2>2. QED
    BY <1>1, <1>4, <1>7, <1>8, <2>1, BystanderMoves DEF EvalTracking, EvalTracked
<1>9. EvalTracked(e)'
  <2>1. CASE e \in equeue'
    BY <2>1, QueuedTracked
  <2>2. CASE e \notin equeue'
    <3>1. crons[e] = Child /\ e \notin equeue
      BY <1>4, <2>2
    <3>2. /\ erec.orig = cevals[e] /\ erec.upd.gen = erec.orig.gen
          /\ PodOf(erec.orig.spec, erec.pod) /\ erec.orig.spec.scheduled
      BY <1>1, <1>2, <3>1 DEF EvalTracking, EvalProgressOK
    <3>3. Child \in Cron /\ Child.pod = erec.pod
      BY <1>1, EvalRunning DEF Child, Cron
    <3>4. crons'[e] # Absent /\ PodOf(erec.orig.spec, crons'[e].pod)
      BY <1>7, <3>2, <3>3, EvalRecordsAssumption
    <3>5. Worked(erec'.orig.spec, erec'.upd, crons'[e], cjobs'[e], jobs'[e])
      BY <1>5, <3>2, <3>4 DEF Worked
    <3>6. EvalProgressOK(e)'
      BY <1>4, <1>5, <3>2, <3>5 DEF EvalProgressOK
    <3>7. EvalRuns(e)'
      BY <1>5, <1>6 DEF EvalRuns
    <3>8. QED
      BY <3>6, <3>7 DEF EvalTracked, EvalRestOK
  <2>3. QED
    BY <2>1, <2>2
<1>10. EvalMoves(e)
  BY <1>4, <1>9 DEF EvalMoves, EvalVersionsMove
<1>11. QED
  BY <1>8, <1>10

LEMMA CreateJobMoves ==
  ASSUME TypeInv, EvalTracking, UNCHANGED plan, CreateJob
  PROVE  \A f \in Evals : EvalMoves(f)
<1>1. erec # None /\ erec.pc = "create"
  BY DEF CreateJob, EvalAt
<1>2. PICK e \in Evals : EvalRuns(e)
  BY <1>1, EvalRunning DEF EvalRuns
<1>3. erec \in EvalReconcile /\ erec.eval = e /\ erec.upd \in EvalStatus /\ erec.pod \in Pod
  BY <1>1, <1>2, EvalRunning DEF EvalRuns
<1>4. /\ UNCHANGED <<evals, crons, cevals, cjobs, equeue, changes>>
      /\ jobs' = [jobs EXCEPT ![e] = [owner |-> erec.orig.uid, pod |-> erec.pod,
                                      state |-> "pending", time |-> 0]]
  BY <1>3 DEF CreateJob, JobCreated, readinessVars
<1>5. erec' = [erec EXCEPT !.upd = [erec.upd EXCEPT !.active = TRUE], !.pc = "sink"]
  BY <1>3 DEF CreateJob, EvalReconcile, EvalStatus
<1>6. /\ erec'.eval = e /\ erec'.orig = erec.orig /\ erec'.pc = "sink"
      /\ erec'.upd = [erec.upd EXCEPT !.active = TRUE]
  BY <1>3, <1>5 DEF EvalReconcile
<1>7. erec'.upd.gen = erec.upd.gen
  BY <1>3, <1>6 DEF EvalStatus
<1>8. erec' # None
  BY EvalCallsTyped, EvalRecordsAssumption
<1>9. \A f \in Evals \ {e} : jobs'[f] = jobs[f]
  BY <1>4 DEF TypeInv, EvalTypeOK, Children
<1>10. jobs'[e] # Absent
  <2>1. [owner |-> erec.orig.uid, pod |-> erec.pod, state |-> "pending", time |-> 0] \in Job
    BY <1>1, <1>3, EvalRunning DEF Job
  <2>2. QED
    BY <1>4, <2>1, EvalRecordsAssumption DEF TypeInv, EvalTypeOK, Children
<1>11. ASSUME NEW f \in Evals, f # e PROVE EvalMoves(f)
  <2>1. erec.eval # f /\ erec'.eval = erec.eval
    BY <1>3, <1>6, <1>11
  <2>2. QED
    BY <1>1, <1>4, <1>9, <1>11, <2>1, BystanderMoves DEF EvalTracking, EvalTracked
<1>12. EvalTracked(e)'
  <2>1. SUFFICES ASSUME e \notin equeue' PROVE EvalTracked(e)'
    BY QueuedTracked
  <2>2. /\ erec.orig = cevals[e] /\ erec.upd.gen = erec.orig.gen /\ cjobs[e] = Absent
        /\ ~erec.orig.spec.scheduled
    BY <1>1, <1>2, <1>4, <2>1 DEF EvalTracking, EvalProgressOK
  <2>3. Worked(erec'.orig.spec, erec'.upd, crons'[e], cjobs'[e], jobs'[e])
    BY <1>4, <1>6, <1>10, <2>2 DEF Worked
  <2>4. EvalProgressOK(e)'
    BY <1>4, <1>6, <1>7, <2>2, <2>3 DEF EvalProgressOK
  <2>5. EvalRuns(e)'
    BY <1>6, <1>8 DEF EvalRuns
  <2>6. QED
    BY <2>4, <2>5 DEF EvalTracked, EvalRestOK
<1>13. EvalMoves(e)
  BY <1>4, <1>12 DEF EvalMoves, EvalVersionsMove
<1>14. QED
  BY <1>11, <1>13
(* A reconcile of e that ends, whichever call it ended with.               *)
LEMMA EndMoves ==
  ASSUME TypeInv, EvalTracking, NEW e \in Evals, EvalRuns(e), erec' = None,
         UNCHANGED <<cevals, cjobs, changes>>, equeue \subseteq equeue',
         jobs' = jobs \/ JobCreated(e), crons' = crons \/ crons' = [crons EXCEPT ![e] = Child],
         evals' = evals \/ (evals[e] # Absent /\ EvalPatched(e)),
         EvalTracked(e)'
  PROVE  \A f \in Evals : EvalMoves(f)
<1>1. \A f \in Evals \ {e} : evals'[f] = evals[f] /\ jobs'[f] = jobs[f] /\ crons'[f] = crons[f]
  BY DEF JobCreated, EvalPatched, TypeInv, EvalTypeOK, Children
<1>2. ASSUME NEW f \in Evals, f # e PROVE EvalMoves(f)
  <2>1. erec.eval # f /\ erec # None
    BY <1>2 DEF EvalRuns
  <2>2. QED
    BY <1>1, <1>2, <2>1, BystanderMoves DEF EvalTracking, EvalTracked
<1>3. evals'[e] = Absent \/ (evals[e] # Absent /\ evals'[e].uid = evals[e].uid
                             /\ evals'[e].gen = evals[e].gen)
  <2>1. CASE evals' = evals
    BY <2>1
  <2>2. CASE evals[e] # Absent /\ EvalPatched(e)
    <3>1. evals[e] \in EvalObject /\ evals = [f \in Evals |-> evals[f]]
      BY <2>2 DEF TypeInv, EvalTypeOK, Children
    <3>2. PICK st : evals'[e] = [evals[e] EXCEPT !.status = st]
      BY <2>2, <3>1 DEF EvalPatched
    <3>3. QED
      BY <2>2, <3>1, <3>2 DEF EvalObject
  <2>3. QED
    BY <2>1, <2>2
<1>4. EvalMoves(e)
  BY <1>3 DEF EvalMoves, EvalVersionsMove
<1>5. QED
  BY <1>2, <1>4

LEMMA GiveUpMoves ==
  ASSUME TypeInv, EvalTracking, EvalConflict \/ EvalFails
  PROVE  \A f \in Evals : EvalMoves(f)
<1>1. erec # None
  BY DEF EvalConflict, EvalFails, EvalAt
<1>2. PICK e \in Evals : EvalRuns(e)
  BY <1>1, EvalRunning DEF EvalRuns
<1>3. erec.eval = e
  BY <1>2 DEF EvalRuns
<1>4. erec' = None /\ equeue' = equeue \cup {e} /\ UNCHANGED <<cevals, cjobs, changes>>
  BY <1>3 DEF EvalConflict, EvalFails, GiveUp, readinessVars
<1>5. /\ jobs' = jobs \/ JobCreated(e)
      /\ crons' = crons \/ crons' = [crons EXCEPT ![e] = Child]
      /\ evals' = evals \/ (evals[e] # Absent /\ EvalPatched(e))
  BY <1>3 DEF EvalConflict, EvalFails
<1>6. EvalTracked(e)'
  BY <1>4, QueuedTracked
<1>7. QED
  BY <1>2, <1>4, <1>5, <1>6, EndMoves

(* What a merge patch leaves as it was before has the status it was for.   *)
LEMMA EvalMergedBack ==
  ASSUME NEW live \in EvalStatus, NEW old \in EvalStatus, NEW upd \in EvalStatus,
         old = Merged(live, old, upd)
  PROVE  upd = old
<1>1. \A k \in DOMAIN live : old[k] = IF upd[k] = old[k] THEN live[k] ELSE upd[k]
  BY DEF Merged
<1>2. DOMAIN live = {"gen", "active", "lastRun", "result", "cond"}
  BY DEF EvalStatus
<1>3. \A k \in {"gen", "active", "lastRun", "result", "cond"} : upd[k] = old[k]
  BY <1>1, <1>2
<1>4. QED
  BY <1>3 DEF EvalStatus

(* An Eval that is as its cache has it after the patch of a reconcile that *)
(* began with the cache has the status of that reconcile.                  *)
LEMMA EvalPatchMoves ==
  ASSUME TypeInv, EvalTracking, EvalPatch
  PROVE  \A f \in Evals : EvalMoves(f)
<1>1. erec # None /\ erec.pc = "patch"
  BY DEF EvalPatch, EvalAt
<1>2. PICK e \in Evals : EvalRuns(e)
  BY <1>1, EvalRunning DEF EvalRuns
<1>3. erec.eval = e /\ erec.upd \in EvalStatus /\ erec.orig \in EvalObject
  BY <1>1, <1>2, EvalRunning DEF EvalRuns
<1>4. /\ erec' = None /\ UNCHANGED <<jobs, crons, cevals, cjobs, equeue, changes>>
      /\ evals[e] # Absent /\ EvalPatched(e)
  BY <1>3 DEF EvalPatch, readinessVars
<1>5. EvalTracked(e)'
  <2>1. SUFFICES ASSUME e \notin equeue', evals'[e] # Absent, cevals'[e] = evals'[e]
                 PROVE  EvalTracked(e)'
    BY <1>4 DEF EvalTracked, EvalProgressOK, EvalRestOK, EvalRuns
  <2>2. /\ erec.orig = cevals[e] /\ erec.upd.gen = erec.orig.gen
        /\ Judged(erec.orig, erec.upd, crons[e], cjobs[e], jobs[e])
    BY <1>1, <1>2, <1>4, <2>1 DEF EvalTracking, EvalProgressOK
  <2> DEFINE st == Merged(evals[e].status, erec.orig.status, erec.upd)
  <2>3. evals[e] \in EvalObject /\ evals = [f \in Evals |-> evals[f]]
    BY <1>4 DEF TypeInv, EvalTypeOK, Children
  <2>4. evals'[e] = [evals[e] EXCEPT !.status = st]
    BY <1>4, <2>3 DEF EvalPatched
  <2>5. evals'[e].status = st /\ erec.orig.status = st
    BY <1>4, <2>1, <2>2, <2>3, <2>4 DEF EvalObject
  <2>6. erec.upd = erec.orig.status
    <3> DEFINE live == evals[e].status
               old == erec.orig.status
               upd == erec.upd
    <3>1. live \in EvalStatus /\ old \in EvalStatus /\ upd \in EvalStatus
      BY <1>3, <2>3 DEF EvalObject
    <3>2. old = Merged(live, old, upd)
      BY <2>5
    <3> HIDE DEF live, old, upd
    <3>3. upd = old
      BY <3>1, <3>2, EvalMergedBack
    <3>4. QED
      BY <3>3 DEF upd, old
  <2>7. /\ cevals[e].status.gen = cevals[e].gen
        /\ Judged(cevals[e], cevals[e].status, crons[e], cjobs[e], jobs[e])
    BY <2>2, <2>6
  <2>8. QED
    BY <1>4, <2>7 DEF EvalTracked, EvalProgressOK, EvalRestOK, EvalRuns
<1>6. QED
  BY <1>2, <1>4, <1>5, EndMoves

LEMMA EvalCrashMoves ==
  ASSUME TypeInv, EvalTracking, EvalCrash
  PROVE  \A f \in Evals : EvalMoves(f)
<1>1. /\ UNCHANGED <<evals, jobs, crons, changes>> /\ cevals' = evals /\ cjobs' = jobs
      /\ equeue' = Existing(evals) /\ erec' = None
  BY DEF EvalCrash, Crash
<1>2. ASSUME NEW f \in Evals PROVE EvalTracked(f)'
  <2>1. CASE evals[f] = Absent
    BY <1>1, <2>1 DEF EvalTracked, EvalProgressOK, EvalRestOK, EvalRuns
  <2>2. CASE evals[f] # Absent
    <3>1. f \in equeue'
      BY <1>1, <2>2 DEF Existing, TypeInv, EvalTypeOK, Children
    <3>2. QED
      BY <3>1, QueuedTracked
  <2>3. QED
    BY <2>1, <2>2
<1>3. QED
  BY <1>1, <1>2 DEF EvalMoves, EvalVersionsMove

(* The other controllers.                                                  *)
LEMMA OutsideMoves ==
  ASSUME EvalTracking, UNCHANGED evalVars, changes' \in {changes, changes + 1}
  PROVE  \A f \in Evals : EvalMoves(f)
  BY OtherStepMoves DEF evalVars, CalmFor, EvalTracking, EvalTracked

LEMMA ChangesMove ==
  ASSUME ReadinessStep
  PROVE  changes' \in {changes, changes + 1}
<1>1. Users => changes' = changes + 1
  BY DEF Users, ObjectWrite, OtherWrite, Change
<1>2. InformAny \/ HandleAny => changes' = changes
  BY DEF InformAny, HandleAny, InformObject, InformOther, Handle
<1>3. Fails => changes' = changes
  BY DEF Fails, LookUpFails, PatchStatusFails
<1>4. (\E c \in Controllers : Work(c)) => changes' = changes
  BY DEF Work, Start, LookUp, PatchStatus
<1>5. QED
  BY <1>1, <1>2, <1>3, <1>4 DEF ReadinessStep

LEMMA StepMoves ==
  ASSUME TypeInv, EvalTracking, [Next]_allVars
  PROVE  \A f \in Evals : EvalMoves(f)
<1>1. CASE UNCHANGED allVars
  BY <1>1, OutsideMoves DEF allVars, readinessVars
<1>2. CASE ReadinessStep /\ UNCHANGED evalVars
  BY <1>2, OutsideMoves, ChangesMove
<1>3. CASE EvalStep /\ UNCHANGED plan
  <2>1. CASE EvalUsers
    BY <2>1, JobMoves, EvalWriteMoves DEF EvalUsers
  <2>2. CASE EvalCluster
    BY <2>2, JobMoves, CronAndInformMoves DEF EvalCluster
  <2>3. CASE EvalCollect
    BY <2>3, JobMoves, CronAndInformMoves DEF EvalCollect
  <2>4. CASE EvalInform
    BY <2>4, CronAndInformMoves DEF EvalInform
  <2>5. CASE EvalWorker
    BY <1>3, <2>5, EvalStartMoves, EvalReadsMove, ApplyCronMoves, CreateJobMoves, EvalPatchMoves,
       GiveUpMoves DEF EvalWorker
  <2>6. CASE EvalFails \/ SinkFails \/ EvalCrash
    BY <1>3, <2>6, GiveUpMoves, EvalReadsMove, EvalCrashMoves
  <2>7. QED
    BY <1>3, <2>1, <2>2, <2>3, <2>4, <2>5, <2>6 DEF EvalStep
<1>4. QED
  BY <1>1, <1>2, <1>3 DEF Next, Step

LEMMA InitMoves ==
  ASSUME EvalInit
  PROVE  EvalTracking
<1>1. /\ changes = 0 /\ cevals = evals /\ erec = None /\ equeue = Existing(evals)
      /\ evals = [e \in Evals |-> IF plan.evals[e] = Absent THEN Absent
                                  ELSE [uid |-> 0, spec |-> plan.evals[e], gen |-> 1,
                                        status |-> NoEvalStatus]]
  BY DEF EvalInit, ReadinessInit
<1>2. ASSUME NEW e \in Evals, evals[e] # Absent
      PROVE  evals[e].uid = 0 /\ evals[e].gen = 1
  <2>1. evals[e] = [uid |-> 0, spec |-> plan.evals[e], gen |-> 1, status |-> NoEvalStatus]
    BY <1>1, <1>2
  <2>2. QED
    BY <2>1
<1>3. EvalVersionsOK
  BY <1>1, <1>2 DEF EvalVersionsOK
<1>4. ASSUME NEW e \in Evals PROVE EvalProgressOK(e) /\ EvalRestOK(e)
  BY <1>1 DEF EvalProgressOK, EvalRestOK, EvalRuns, Existing
<1>5. QED
  BY <1>3, <1>4 DEF EvalTracking

LEMMA TracksEvals == Spec => [](TypeInv /\ EvalTracking)
<1>1. EvalInit => TypeInv /\ EvalTracking
  BY InitTyped, InitMoves
<1>2. TypeInv /\ EvalTracking /\ [Next]_allVars => (TypeInv /\ EvalTracking)'
  <2>1. SUFFICES ASSUME TypeInv, EvalTracking, [Next]_allVars PROVE (TypeInv /\ EvalTracking)'
    OBVIOUS
  <2>2. TypeInv'
    BY <2>1, ReadinessTyped, EvalTyped DEF TypeInv
  <2>3. \A f \in Evals : EvalMoves(f)
    BY <2>1, StepMoves
  <2>4. \A f \in Evals : EvalVersionsMove(f)
    BY <2>3 DEF EvalMoves
  <2>5. EvalVersionsOK'
    BY <2>1, <2>2, <2>4, EvalVersionsFollow DEF EvalTracking
  <2>6. QED
    BY <2>2, <2>3, <2>5 DEF EvalMoves, EvalTracking, EvalTracked
<1>3. QED
  BY <1>1, <1>2, PTL DEF Spec

(* The invariant: how far the reconcile of an Eval has come, and what the  *)
(* last one concluded, unless the Eval is queued again.                    *)
THEOREM EvalsAreTracked == Spec => []EvalTracking
<1>1. QED
  BY TracksEvals, PTL

(* Every Eval nothing will reconcile again was judged at its present       *)
(* generation, and has its workload if it was found to be Ready.           *)
THEOREM EvalsSettle == Spec => []EvalSettled
<1>1. ASSUME TypeInv, EvalTracking PROVE EvalSettled
  <2>1. SUFFICES ASSUME NEW e \in Existing(evals), EvalAtRest(e)
                 PROVE  LET ev == evals[e]
                        IN  /\ ev.status.gen = ev.gen /\ ev.status.cond.gen = ev.gen
                            /\ ev.status.cond.ready =>
                                 IF ev.spec.scheduled
                                 THEN /\ crons[e] # Absent
                                      /\ \A k \in {"flow", "dataset", "sink", "sinks", "body"} :
                                           crons[e].pod[k] = ev.spec[k]
                                 ELSE jobs[e] # Absent
    BY DEF EvalSettled
  <2>2. e \in Evals /\ evals[e] # Absent
    BY <1>1 DEF Existing, TypeInv, EvalTypeOK, Children
  <2>3. /\ cevals[e].status.gen = cevals[e].gen /\ cevals[e] = evals[e] /\ cjobs[e] = jobs[e]
        /\ Judged(cevals[e], cevals[e].status, crons[e], cjobs[e], jobs[e])
    BY <1>1, <2>1, <2>2 DEF EvalAtRest, EvalRuns, EvalTracking, EvalRestOK
  <2>4. QED
    BY <2>3 DEF Judged, Worked, PodOf
<1>2. QED
  BY <1>1, TracksEvals, PTL

(* When nothing is under way, the status says what became of the Job.      *)
THEOREM RunsAreRecorded == Spec => []RunRecorded
<1>1. ASSUME TypeInv, EvalTracking PROVE RunRecorded
  <2>1. SUFFICES ASSUME NEW e \in Existing(evals) \cap Existing(jobs), EvalAtRest(e),
                        IsReady(evals[e]), ~evals[e].spec.scheduled
                 PROVE  /\ jobs[e].state = "complete" =>
                             evals[e].status.lastRun = jobs[e].time /\ ~evals[e].status.active
                        /\ jobs[e].state = "active" => evals[e].status.active
    BY DEF RunRecorded
  <2>2. e \in Evals /\ evals[e] # Absent /\ jobs[e] # Absent
    BY <1>1 DEF Existing, TypeInv, EvalTypeOK, Children
  <2>3. /\ cevals[e] = evals[e] /\ cjobs[e] = jobs[e]
        /\ Judged(cevals[e], cevals[e].status, crons[e], cjobs[e], jobs[e])
    BY <1>1, <2>1, <2>2 DEF EvalAtRest, EvalRuns, EvalTracking, EvalRestOK
  <2>4. evals[e].status.cond.ready
    BY <2>1 DEF IsReady
  <2>5. QED
    BY <2>1, <2>2, <2>3, <2>4 DEF Judged, Worked
<1>2. QED
  BY <1>1, TracksEvals, PTL
=============================================================================
