---------------------------- MODULE FlowObservation ----------------------------
(***************************************************************************)
(* The Flow controller implements Observation, as long as no Flow is       *)
(* deleted: a status patch names a Flow but not its uid, so one computed   *)
(* from a deleted Flow may land on its successor of the same name.         *)
(***************************************************************************)
EXTENDS FlowController

generationOf(f) == IF flows[f] = Absent THEN 0 ELSE flows[f].gen
observedOf(f) == IF flows[f] = Absent THEN 0 ELSE flows[f].status.gen
judgedOf(f) == IF flows[f] = Absent THEN 0
               ELSE IF flows[f].status.cond = None THEN 0 ELSE flows[f].status.cond.gen

Abstract == INSTANCE Observation
             WITH Names <- Flows,
                  generation <- [f \in Flows |-> generationOf(f)],
                  observed <- [f \in Flows |-> observedOf(f)],
                  judged <- [f \in Flows |-> judgedOf(f)]

(* A condition and the observedGeneration next to it are of one generation.*)
StampsAgree(st) == IF st.cond = None THEN st.gen = 0 ELSE st.gen > 0 /\ st.cond.gen = st.gen

(* A Flow, the cached copy of it and the copy a reconcile works on come    *)
(* from the same object, each from an earlier state than the one before;   *)
(* and the live status was written from no later one than the reconcile's. *)
CopyOK(f) ==
  /\ flows[f] # Absent =>
       /\ flows[f].gen > 0 /\ StampsAgree(flows[f].status)
       /\ flows[f].status.gen <= (IF cflows[f] = Absent THEN 0 ELSE cflows[f].gen)
  /\ cflows[f] # Absent =>
       /\ flows[f] # Absent
       /\ cflows[f].gen > 0 /\ cflows[f].gen <= flows[f].gen
       /\ StampsAgree(cflows[f].status)
       /\ cflows[f].status.gen <= flows[f].status.gen

ReconcileOK ==
  rec # None =>
    LET f == rec.flow
    IN  /\ flows[f] # Absent /\ cflows[f] # Absent
        /\ rec.orig.gen > 0 /\ rec.orig.gen <= cflows[f].gen
        /\ StampsAgree(rec.orig.status)
        /\ rec.orig.status.gen <= flows[f].status.gen
        /\ flows[f].status.gen <= rec.orig.gen
        /\ rec.pc = "patch" => /\ rec.upd.gen = rec.orig.gen
                               /\ rec.upd.cond # None /\ rec.upd.cond.gen = rec.orig.gen

Copies == ReconcileOK /\ \A f \in Flows : CopyOK(f)

(* api/v1alpha1/flow_types.go:123: "ObservedGeneration is the generation    *)
(* reflected by the current status."  Failing calls, stale caches and      *)
(* restarts notwithstanding, every step of the system is one of            *)
(* Observation's or invisible to it.                                       *)
ImplementsObservation == Abstract!ObservationSpec

(* The same with fairness: every generation that stays is judged.          *)
ImplementsFairObservation == Abstract!FairObservationSpec
=============================================================================
