---------------------------- MODULE SupportTracking ----------------------------
(***************************************************************************)
(* Why no status of the supporting objects stays wrong, why an Eval has    *)
(* its workload and says what became of it, and why the time of its last   *)
(* run never goes back: the invariants from which this follows.            *)
(***************************************************************************)
EXTENDS EvalController

(* Types of what the API server, the caches and all six controllers keep.  *)
SupportTypeOK == ReadinessTypeOK /\ EvalTypeOK

(* Something that happened since the last reconcile of o began is still to *)
(* be reconciled.                                                          *)
Awake(o) == o \in queue \/ \E n \in notes : o \in Woken(n)

Running(o) == recs[ControllerOf(o)] # None /\ recs[ControllerOf(o)].obj = o

(* A cached object is an earlier version of the live one: never a later    *)
(* one, nor one of an object created after it.                             *)
VersionsOK ==
  \A o \in Owned :
    /\ objs[o] # Absent => objs[o].uid <= changes
    /\ cobjs[o] # Absent => cobjs[o].uid <= changes
    /\ objs[o] # Absent /\ cobjs[o] # Absent /\ objs[o].uid = cobjs[o].uid
         => cobjs[o].gen <= objs[o].gen

(* What a reconcile in progress, and the last one that ended, relied on is *)
(* still so unless something has woken the object since.                   *)
ProgressOK(o) ==
  LET r == recs[ControllerOf(o)]
  IN  Running(o) /\ ~Awake(o) =>
        /\ r.orig = cobjs[o]
        /\ r.seen \in MayHaveSeen(o, cobjs[o].spec, cobjs, cothers) \cup
                      IF LooksUp(cobjs[o].spec) THEN {Unread, Failed} ELSE {}

RestOK(o) ==
  ~Running(o) /\ ~Awake(o) /\ objs[o] # Absent /\ cobjs[o] = objs[o] =>
    Settled(o, cobjs[o], cobjs, cothers)

(* The invariant behind StatusesSettle.                                    *)
StatusTracking == VersionsOK /\ \A o \in Owned : ProgressOK(o) /\ RestOK(o)

-----------------------------------------------------------------------------
Done(job) == job # Absent /\ job.state = "complete"

(* None of these Jobs ended before time t, which has come.                 *)
Past(t, job, cjob, now) ==
  t <= now /\ \A j \in {job, cjob} : Done(j) => t <= j.time

EvalRuns(e) == erec # None /\ erec.eval = e

(* The reconcile of e that runs is to give its status another time.        *)
Reports(e) ==
  EvalRuns(e) /\ erec.upd.lastRun # erec.orig.status.lastRun

(* The invariant behind LastRunMonotone: the time in the status, the one in*)
(* the cached Job and the one of the Job come in this order, whichever Jobs*)
(* of the Eval they are of; and the time a reconcile is about to patch is  *)
(* not before the one it replaces.                                         *)
RunsInOrder ==
  \A e \in Evals :
    /\ evals[e] # Absent => Past(evals[e].status.lastRun, jobs[e], cjobs[e], runs)
    /\ Done(jobs[e]) => jobs[e].time <= runs
    /\ Done(cjobs[e]) => Past(cjobs[e].time, jobs[e], cjobs[e], runs)
    /\ Reports(e) => /\ Past(erec.upd.lastRun, jobs[e], cjobs[e], runs)
                     /\ evals[e] # Absent => evals[e].status.lastRun <= erec.upd.lastRun

-----------------------------------------------------------------------------
(* Like VersionsOK, of Evals.                                              *)
EvalVersionsOK ==
  \A e \in Evals :
    /\ evals[e] # Absent => evals[e].uid <= changes
    /\ cevals[e] # Absent => cevals[e].uid <= changes
    /\ evals[e] # Absent /\ cevals[e] # Absent /\ evals[e].uid = cevals[e].uid
         => cevals[e].gen <= evals[e].gen

(* The Pod is one of this spec.                                            *)
PodOf(spec, pod) ==
  \A k \in {"flow", "dataset", "sink", "sinks", "body"} : pod[k] = spec[k]

(* The workload spec calls for is there, and st says of it what the cache  *)
(* does; a Job the cache does not know of has been created.                *)
Worked(spec, st, cron, cjob, job) ==
  IF spec.scheduled THEN cron # Absent /\ PodOf(spec, cron.pod)
  ELSE IF cjob = Absent THEN job # Absent
  ELSE /\ cjob.state = "complete" => st.lastRun = cjob.time /\ ~st.active
       /\ cjob.state = "active" => st.active

Judged(obj, st, cron, cjob, job) ==
  /\ st.cond # None /\ st.cond.gen = obj.gen
  /\ st.cond.ready => Worked(obj.spec, st, cron, cjob, job)

(* How far a reconcile of e has come, unless e is queued again.            *)
EvalProgressOK(e) ==
  EvalRuns(e) /\ e \notin equeue =>
    /\ erec.orig = cevals[e] /\ erec.upd.gen = erec.orig.gen
    /\ erec.pc \in {"job", "create", "cron"} =>
         /\ PodOf(erec.orig.spec, erec.pod)
         /\ erec.pc = "cron" <=> erec.orig.spec.scheduled
    /\ erec.pc = "create" => cjobs[e] = Absent
    /\ erec.pc = "sink" => Worked(erec.orig.spec, erec.upd, crons[e], cjobs[e], jobs[e])
    /\ erec.pc = "patch" => Judged(erec.orig, erec.upd, crons[e], cjobs[e], jobs[e])

EvalRestOK(e) ==
  ~EvalRuns(e) /\ e \notin equeue /\ evals[e] # Absent /\ cevals[e] = evals[e] =>
    /\ cevals[e].status.gen = cevals[e].gen
    /\ Judged(cevals[e], cevals[e].status, crons[e], cjobs[e], jobs[e])

(* The invariant behind EvalSettled and RunRecorded.                       *)
EvalTracking == EvalVersionsOK /\ \A e \in Evals : EvalProgressOK(e) /\ EvalRestOK(e)
=============================================================================
