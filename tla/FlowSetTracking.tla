---------------------------- MODULE FlowSetTracking ----------------------------
(***************************************************************************)
(* Why the FlowSet controller loses no wakeup and leaves no ConfigMap      *)
(* behind: the invariant from which SetSettled and NoOrphans follow.  It   *)
(* says what a reconcile in progress, and the last one that ended, may     *)
(* rely on as long as nothing has woken the FlowSet since: the objects     *)
(* they read, each flow for itself, are still what the caches hold, the    *)
(* children they sent are still there, and a ConfigMap they did not see is *)
(* one the informer has yet to deliver.                                    *)
(***************************************************************************)
EXTENDS FlowSetController

(* Something that happened since the last reconcile began is still to be   *)
(* reconciled.                                                             *)
SetAwake ==
  queued \/ (cset # Absent /\ \E n \in notes : WakesSet(n, cset.spec, cdeps))

(* A cached FlowSet is an earlier version of the live one: never a later   *)
(* one, nor one of a FlowSet created after it.                             *)
SetVersionsOK ==
  /\ set # Absent => set.uid <= used["edits"]
  /\ cset # Absent => cset.uid <= used["edits"]
  /\ set # Absent /\ cset # Absent /\ set.uid = cset.uid => cset.gen <= set.gen

(* A flow's dependencies are read in order, and nothing after one that is  *)
(* missing.                                                                *)
InOrderOK(flow, d) ==
  /\ \A o \in Deps : d[o] # Unread => \E g \in Gets(flow, d) : g[2] = o
  /\ Missing(flow, d) # {} => \A h \in ToRead(flow, d) : \E m \in Missing(flow, d) : m[1] < h[1]

(* A reconcile reads only what its spec leads to, changes its copy of the  *)
(* status only at the end, and never lists what it has just rendered.      *)
SetReadingOK ==
  rec # None =>
    /\ \A i \in Entries(rec.orig.spec) : InOrderOK(rec.orig.spec.flows[i], rec.got[i])
    /\ rec.pc # "patch" => rec.upd = rec.orig.status
    /\ rec.pc = "resolve" => rec.next = 1
    /\ rec.orphans \subseteq MapSlots \ WantedMaps(rec.orig.spec)

(* A reconcile that has gone on to the children has read everything.       *)
SetRenderableOK ==
  rec # None /\ rec.pc \in {"apply", "list", "collect"} =>
    SetOutcome(rec.orig.spec, rec.got).reason = "Rendered"

SetRenderedFor(s) ==
  [owner |-> cset.uid, body |-> SetChild(s, cset.spec, ForEvery(cset.spec, cdeps))]

(* A child that has disappeared since it was sent is in the cache until    *)
(* its event is delivered.                                                 *)
SetSentOK(s) ==
  \/ kids[s] = SetRenderedFor(s)
  \/ kids[s] = Absent /\ s = DeploySlot /\ cdeploy # Absent
  \/ kids[s] = Absent /\ s \in MapSlots /\ cmaps[s] # Absent

SetWanted(spec) == WantedMaps(spec) \cup {ServiceSlot, DeploySlot}

(* A ConfigMap the set owns and does not want is one the reconcile is      *)
(* about to delete, or one the informer has yet to deliver.                *)
CollectedBut(orphans) ==
  \A s \in MapSlots \ WantedMaps(cset.spec) :
    Owner(s) = cset.uid => s \in orphans \/ cmaps[s] # Owner(s)

SetFailedApply(st) ==
  st.cond # None /\ st.cond.reason = "Error" /\ st.cond.msg.about \in {s[2] : s \in Slots}

(* The status st is what a reconcile ends with, the children are the ones  *)
(* that reconcile sent, and, unless a delete failed, the others are gone.  *)
SetEndsWith(st) ==
  \/ SetFailedApply(st)
  \/ LET got == ForEvery(cset.spec, cdeps)
     IN  /\ st = SetFinalStatus(cset.status, cset, got, cdeploy)
         /\ SetOutcome(cset.spec, got).reason = "Rendered" =>
              /\ \A s \in SetWanted(cset.spec) : SetSentOK(s)
              /\ "gc" \notin FaultKinds => CollectedBut({})

SetInProgressOK ==
  rec # None /\ ~SetAwake =>
    /\ rec.orig = cset
    /\ \A i \in Entries(cset.spec), o \in Deps : rec.got[i][o] \in {Unread, cdeps[o]}
    /\ rec.pc = "apply" => \A k \in 1..(rec.next - 1) : SetSentOK(SetApplyOrder(cset.spec)[k])
    /\ rec.pc \in {"list", "collect"} => \A s \in SetWanted(cset.spec) : SetSentOK(s)
    /\ rec.pc = "collect" /\ "gc" \notin FaultKinds => CollectedBut(rec.orphans)
    /\ rec.pc = "patch" => SetEndsWith(rec.upd)

SetAtRestOK ==
  rec = None /\ ~SetAwake /\ set # Absent /\ cset = set => SetEndsWith(set.status)

(* The invariant.                                                          *)
SetTracking ==
  /\ SetVersionsOK /\ SetReadingOK /\ SetRenderableOK
  /\ SetInProgressOK /\ SetAtRestOK
=============================================================================
