----------------------------- MODULE FlowTracking -----------------------------
(***************************************************************************)
(* Why the Flow controller loses no wakeup: the invariant from which       *)
(* SettledStatus and SettledChildren follow.  It says of each Flow what a  *)
(* reconcile in progress, and the last one that ended, may rely on as long *)
(* as nothing has woken the Flow since: the objects they read are still    *)
(* what the caches hold, and the children they sent are still there.       *)
(***************************************************************************)
EXTENDS FlowController

(* Something that happened since the last reconcile of f began is still to *)
(* be reconciled.                                                          *)
Awake(f) == f \in queue \/ \E n \in notes : f \in Woken(n, cflows, cdeps)

Reconciling(f) == rec # None /\ rec.flow = f

(* A cached Flow is an earlier version of the live one: never a later one, *)
(* nor one of a Flow created after it.                                     *)
VersionsOK ==
  \A f \in Flows :
    /\ flows[f] # Absent => flows[f].uid <= used.edits
    /\ cflows[f] # Absent => cflows[f].uid <= used.edits
    /\ flows[f] # Absent /\ cflows[f] # Absent /\ flows[f].uid = cflows[f].uid
         => cflows[f].gen <= flows[f].gen

(* A reconcile reads only what its spec leads to, in order, and changes    *)
(* its copy of the status only at the end.                                 *)
ReadingOK ==
  rec # None =>
    /\ \A o \in Deps : rec.got[o] # Unread => \E g \in Gets(rec.orig.spec, rec.got) : g[2] = o
    /\ rec.pc = "resolve" => /\ rec.orig.spec.image # NoImage
                             /\ Missing(rec.orig.spec, rec.got) = {}
                             /\ ToRead(rec.orig.spec, rec.got) # {}
                             /\ rec.next = 1
    /\ rec.pc # "patch" => rec.upd = rec.orig.status

RenderedFor(f, k) == [owner |-> cflows[f].uid, body |-> Child(k, cflows[f].spec, cdeps)]

(* A Deployment that has disappeared since it was sent is in the cache     *)
(* until its event is delivered.                                           *)
SentOK(f, k) ==
  \/ kids[f][k] = RenderedFor(f, k)
  \/ k = "deploy" /\ kids[f][k] = Absent /\ cdeploy[f] # Absent

AllSentOK(f) == \A k \in Kinds : SentOK(f, k)

FailedApply(st) == st.cond # None /\ st.cond.reason = "Error" /\ st.cond.about \in Kinds

(* The status st is what a reconcile of f ends with, and its children are  *)
(* the ones that reconcile sent.                                           *)
EndsWith(f, st) ==
  \/ FailedApply(st)
  \/ /\ st = FinalStatus(cflows[f].status, cflows[f], cdeps, cdeploy[f])
     /\ Outcome(cflows[f].spec, cdeps).reason = "Rendered" => AllSentOK(f)

InProgressOK(f) ==
  Reconciling(f) /\ ~Awake(f) =>
    /\ rec.orig = cflows[f]
    /\ \A o \in Deps : rec.got[o] \in {Unread, cdeps[o]}
    /\ rec.pc = "apply" => \A i \in DOMAIN ApplyOrder : i < rec.next => SentOK(f, ApplyOrder[i])
    /\ rec.pc = "observe" => AllSentOK(f)
    /\ rec.pc = "patch" => EndsWith(f, rec.upd)

AtRestOK(f) ==
  ~Reconciling(f) /\ ~Awake(f) /\ flows[f] # Absent /\ cflows[f] = flows[f]
    => EndsWith(f, flows[f].status)

(* The invariant.                                                          *)
Tracking ==
  /\ VersionsOK /\ ReadingOK
  /\ \A f \in Flows : InProgressOK(f) /\ AtRestOK(f)
=============================================================================
