----------------------------- MODULE EvalController ----------------------------
(***************************************************************************)
(* The Eval controller next to the controllers of Readiness, with which it *)
(* shares Flows, Datasets and ConfigMaps.  An Eval runs its Flow against   *)
(* its Dataset in a Job that is created once, or in a CronJob that is      *)
(* applied on every reconcile.  Kubernetes runs the Job, whose container   *)
(* writes the result to the sink before it ends; the controller hears of   *)
(* the Job through a cache that lags, and reads the sink from another.     *)
(***************************************************************************)
EXTENDS Readiness

CONSTANTS
  Evals,       \* the Evals
  Outputs      \* what a run may write to its sink

EvalSpec ==
  [flow : Flows, dataset : Datasets, scheduled : BOOLEAN, sink : ConfigMaps,
   sinks : SUBSET {"configMap", "s3"}, body : Data]

EvalStatus ==
  [gen : Nat, active : BOOLEAN, lastRun : Nat, result : Texts \cup {None},
   cond : Conditions \cup {None}]

EvalObject == [uid : Nat, spec : EvalSpec, gen : Nat, status : EvalStatus]

Pod == [flow : Flows, port : Data, dataset : Datasets,
        format : {"json", "jsonl", "csv"}, from : ConfigMaps \cup {None},
        sink : ConfigMaps, sinks : {{"configMap"}, {"s3"}}, body : Data]

Job == [owner : Nat, pod : Pod, state : {"pending", "active", "complete", "failed"}, time : Nat]
Cron == [owner : Nat, pod : Pod]

EvalReconcile ==
  [eval : Evals, orig : EvalObject, flow : Data \cup {None}, pod : Pod \cup {None},
   upd : EvalStatus, pc : {"flow", "dataset", "job", "create", "cron", "sink", "patch"}]

ASSUME EvalRecordsAssumption ==
  /\ Absent \notin EvalObject /\ Absent \notin Job /\ Absent \notin Cron
  /\ None \notin EvalReconcile /\ None \notin Pod

(* A plan also says what Evals there are and users may write, whether Jobs *)
(* may fail or be deleted, and how many runs complete.                     *)
ASSUME EvalAssumption ==
  /\ Outputs \subseteq Texts
  /\ \A p \in Plans :
       /\ \A e \in Evals : {p.evals[e]} \cup p.evalWrites[e] \subseteq EvalSpec \cup {Absent}
       /\ p.jobs \subseteq {"delete", "fail"} /\ p.max.runs \in Nat

VARIABLES
  evals,   \* API server: the Evals
  jobs,    \* API server: the Job of each Eval, named after it
  crons,   \* API server: the CronJob of each Eval
  cevals,  \* informer cache of evals
  cjobs,   \* informer cache of jobs
  equeue,  \* the work queue of the Eval controller
  erec,    \* its running reconcile, None when the worker is idle
  runs     \* the runs completed so far, which stand for the clock

evalVars == <<evals, jobs, crons, cevals, cjobs, equeue, erec, runs>>
allVars == <<readinessVars, plan, evalVars>>

-----------------------------------------------------------------------------
NoEvalStatus == [gen |-> 0, cond |-> None, active |-> FALSE, lastRun |-> 0, result |-> None]

validateSink(spec) == Cardinality(spec.sinks) = 1

(* The Pod of a run: what it takes from the Eval, its Flow (the port) and  *)
(* its Dataset.                                                            *)
evalPodSpec(spec, flow, dataset) ==
  [flow |-> spec.flow, port |-> flow, dataset |-> spec.dataset,
   format |-> dataset.format, from |-> dataset.ref,
   sink |-> spec.sink, sinks |-> spec.sinks, body |-> spec.body]

(* Fault: a Job that is done stays the active one.                         *)
observeJobKeepsActive(st, job) ==
  CASE job.state = "complete" -> [st EXCEPT !.lastRun = job.time]
    [] job.state = "active" -> [st EXCEPT !.active = TRUE]
    [] OTHER -> st

(* Fault: a Job that is not done has never been done.                      *)
observeJobAnew(st, job) ==
  CASE job.state = "complete" -> [st EXCEPT !.lastRun = job.time, !.active = FALSE]
    [] OTHER -> [st EXCEPT !.lastRun = 0, !.active = job.state = "active"]

(* status.activeJob and lastRunTime, as a Job shows them; a Job that       *)
(* failed is neither active nor complete.                                  *)
observeJob(st, job) ==
  CASE job.state = "complete" -> [st EXCEPT !.lastRun = job.time, !.active = FALSE]
    [] job.state = "active" -> [st EXCEPT !.active = TRUE]
    [] OTHER -> st

(* What a sink adds to the status: a result that is JSON.                  *)
SinkResult(st, text) ==
  IF text \in {Absent, None} THEN st
  ELSE IF text.json = "none" THEN st ELSE [st EXCEPT !.result = text]

-----------------------------------------------------------------------------
EvalInit ==
  /\ ReadinessInit
  /\ evals = [e \in Evals |-> IF plan.evals[e] = Absent THEN Absent
                              ELSE [uid |-> 0, spec |-> plan.evals[e], gen |-> 1,
                                    status |-> NoEvalStatus]]
  /\ jobs = [e \in Evals |-> Absent] /\ crons = [e \in Evals |-> Absent]
  /\ cevals = evals /\ cjobs = jobs
  /\ equeue = Existing(evals) /\ erec = None /\ runs = 0

(* Users.                                                                  *)
EvalWrite(e, s) ==
  /\ Change
  /\ s # IF evals[e] = Absent THEN Absent ELSE evals[e].spec
  /\ evals' = [evals EXCEPT ![e] =
       CASE s = Absent -> Absent
         [] s # Absent /\ @ = Absent -> [uid |-> changes', spec |-> s, gen |-> 1,
                                        status |-> NoEvalStatus]
         [] OTHER -> Edited(@, s)]
  /\ UNCHANGED <<cluster, caches, notes, queue, recs, faults,
                 jobs, crons, cevals, cjobs, equeue, erec, runs>>

(* A Job that goes before the informer has seen it come still makes events.*)
JobGone(e) ==
  /\ jobs[e] # Absent
  /\ jobs' = [jobs EXCEPT ![e] = Absent]
  /\ equeue' = IF cjobs[e] = Absent THEN equeue \cup {e} ELSE equeue
  /\ UNCHANGED <<evals, cevals, cjobs, erec, runs>>

JobDelete(e) ==
  /\ "delete" \in plan.jobs /\ Change /\ JobGone(e)
  /\ UNCHANGED <<cluster, caches, notes, queue, recs, faults, crons>>

-----------------------------------------------------------------------------
(* Kubernetes: the garbage collector, the Job and CronJob controllers with *)
(* the containers they run, and the informers.                             *)

Orphaned(e, child) == evals[e] # Absent => evals[e].uid # child.owner

JobCollect(e) ==
  /\ JobGone(e) /\ Orphaned(e, jobs[e])
  /\ UNCHANGED <<readinessVars, crons>>

CronCollect(e) ==
  /\ crons[e] # Absent /\ Orphaned(e, crons[e])
  /\ crons' = [crons EXCEPT ![e] = Absent]
  /\ equeue' = equeue \cup {e}
  /\ UNCHANGED <<readinessVars, evals, jobs, cevals, cjobs, erec, runs>>

JobStart(e) ==
  /\ jobs[e] # Absent /\ jobs[e].state = "pending"
  /\ jobs' = [jobs EXCEPT ![e].state = "active"]
  /\ UNCHANGED <<readinessVars, evals, crons, cevals, cjobs, equeue, erec, runs>>

(* What a run of the Pod p does to the sink before it ends.                *)
Written(p, text) ==
  /\ runs < plan.max.runs /\ runs' = runs + 1
  /\ others' = IF p.sinks = {"configMap"} THEN [others EXCEPT ![p.sink] = text] ELSE others
  /\ UNCHANGED <<objs, caches, notes, queue, recs, changes, faults>>

JobComplete(e, text) ==
  /\ jobs[e] # Absent /\ jobs[e].state = "active"
  /\ Written(jobs[e].pod, text)
  /\ jobs' = [jobs EXCEPT ![e].state = "complete", ![e].time = runs']
  /\ UNCHANGED <<evals, crons, cevals, cjobs, equeue, erec>>

JobFail(e) ==
  /\ "fail" \in plan.jobs
  /\ jobs[e] # Absent /\ jobs[e].state = "active"
  /\ jobs' = [jobs EXCEPT ![e].state = "failed"]
  /\ UNCHANGED <<readinessVars, evals, crons, cevals, cjobs, equeue, erec, runs>>

(* The Jobs of a CronJob belong to it and not to the Eval, which hears of  *)
(* a run only as a change of the CronJob's status.                         *)
CronRun(e, text) ==
  /\ crons[e] # Absent
  /\ Written(crons[e].pod, text)
  /\ equeue' = equeue \cup {e}
  /\ UNCHANGED <<evals, jobs, crons, cevals, cjobs, erec>>

InformEval(e) ==
  /\ cevals[e] # evals[e]
  /\ cevals' = [cevals EXCEPT ![e] = evals[e]]
  /\ equeue' = equeue \cup {e}
  /\ UNCHANGED <<readinessVars, evals, jobs, crons, cjobs, erec, runs>>

(* Fault: Jobs are not watched.                                            *)
InformJobUnwatched(e) ==
  /\ cjobs[e] # jobs[e]
  /\ cjobs' = [cjobs EXCEPT ![e] = jobs[e]]
  /\ UNCHANGED <<readinessVars, evals, jobs, crons, cevals, equeue, erec, runs>>

InformJob(e) ==
  /\ cjobs[e] # jobs[e]
  /\ cjobs' = [cjobs EXCEPT ![e] = jobs[e]]
  /\ equeue' = equeue \cup {e}
  /\ UNCHANGED <<readinessVars, evals, jobs, crons, cevals, erec, runs>>

-----------------------------------------------------------------------------
(* The controller.  The generation is stamped on whatever status follows.  *)

EvalStart(e) ==
  /\ e \in equeue /\ erec = None
  /\ equeue' = equeue \ {e}
  /\ erec' = IF cevals[e] = Absent THEN None
             ELSE [eval |-> e, orig |-> cevals[e], flow |-> None, pod |-> None, pc |-> "flow",
                   upd |-> [cevals[e].status EXCEPT !.gen = cevals[e].gen]]
  /\ UNCHANGED <<readinessVars, evals, jobs, crons, cevals, cjobs, runs>>

EvalAt(pc) == erec # None /\ erec.pc = pc

Refused(reason) ==
  [erec EXCEPT !.upd.cond = Condition(reason, erec.orig.gen), !.pc = "patch"]

EvalReads ==
  UNCHANGED <<readinessVars, evals, jobs, crons, cevals, cjobs, equeue, runs>>

ReadFlow ==
  /\ EvalAt("flow")
  /\ LET flow == cothers[erec.orig.spec.flow]
     IN  erec' = IF flow = Absent THEN Refused("MissingDependency")
                 ELSE [erec EXCEPT !.flow = flow, !.pc = "dataset"]
  /\ EvalReads

(* Fault: the sink is not validated.                                       *)
ReadDatasetAnySink ==
  /\ EvalAt("dataset")
  /\ LET spec == erec.orig.spec
         dataset == cobjs[spec.dataset]
     IN  erec' = IF dataset = Absent THEN Refused("MissingDependency")
                 ELSE [erec EXCEPT !.pod = evalPodSpec(spec, erec.flow, dataset.spec),
                                   !.pc = IF spec.scheduled THEN "cron" ELSE "job"]
  /\ EvalReads

ReadDataset ==
  /\ EvalAt("dataset")
  /\ LET spec == erec.orig.spec
         dataset == cobjs[spec.dataset]
     IN  erec' = CASE dataset = Absent -> Refused("MissingDependency")
                   [] dataset # Absent /\ ~validateSink(spec) -> Refused("InvalidSpec")
                   [] OTHER -> [erec EXCEPT !.pod = evalPodSpec(spec, erec.flow, dataset.spec),
                                            !.pc = IF spec.scheduled THEN "cron" ELSE "job"]
  /\ EvalReads

Child == [owner |-> erec.orig.uid, pod |-> erec.pod]

(* Server-side apply: only a difference is an event.                       *)
ApplyCron(e) ==
  /\ crons' = [crons EXCEPT ![e] = Child]
  /\ equeue' = IF crons[e] = Child THEN equeue ELSE equeue \cup {e}

ApplyCronJob ==
  /\ EvalAt("cron")
  /\ ApplyCron(erec.eval)
  /\ erec' = [erec EXCEPT !.pc = "sink"]
  /\ UNCHANGED <<readinessVars, evals, jobs, cevals, cjobs, runs>>

(* "Only create if not present - Jobs are immutable" (line 110).           *)
GetJob ==
  /\ EvalAt("job")
  /\ LET job == cjobs[erec.eval]
     IN  erec' = IF job = Absent THEN [erec EXCEPT !.pc = "create"]
                 ELSE [erec EXCEPT !.upd = observeJob(@, job), !.pc = "sink"]
  /\ EvalReads

JobCreated(e) ==
  jobs' = [jobs EXCEPT ![e] = [owner |-> erec.orig.uid, pod |-> erec.pod,
                               state |-> "pending", time |-> 0]]

CreateJob ==
  /\ EvalAt("create") /\ jobs[erec.eval] = Absent
  /\ JobCreated(erec.eval)
  /\ erec' = [erec EXCEPT !.upd.active = TRUE, !.pc = "sink"]
  /\ UNCHANGED <<readinessVars, evals, crons, cevals, cjobs, equeue, runs>>

ReadSink ==
  /\ EvalAt("sink")
  /\ LET spec == erec.orig.spec
         upd == [erec.upd EXCEPT !.cond = Condition("Ready", erec.orig.gen)]
     IN  erec' = [erec EXCEPT !.pc = "patch",
                    !.upd = IF "configMap" \in spec.sinks THEN SinkResult(upd, cothers[spec.sink])
                            ELSE upd]
  /\ EvalReads

EvalPatched(e) ==
  evals' = [evals EXCEPT ![e].status = Merged(@, erec.orig.status, erec.upd)]

EvalPatch ==
  /\ EvalAt("patch") /\ evals[erec.eval] # Absent
  /\ EvalPatched(erec.eval)
  /\ erec' = None
  /\ UNCHANGED <<readinessVars, jobs, crons, cevals, cjobs, equeue, runs>>

(* What ends a reconcile with an error, which queues the request again: a  *)
(* Job or a missing Eval the cache does not know of yet, and any call that *)
(* fails, carried out or not.  A sink that cannot be read is passed over.  *)
GiveUp == erec' = None /\ equeue' = equeue \cup {erec.eval}

EvalConflict ==
  /\ \/ EvalAt("create") /\ jobs[erec.eval] # Absent
     \/ EvalAt("patch") /\ evals[erec.eval] = Absent
  /\ GiveUp
  /\ UNCHANGED <<readinessVars, evals, jobs, crons, cevals, cjobs, runs>>

EvalFails ==
  /\ Fault
  /\ \/ /\ EvalAt("flow") \/ EvalAt("dataset") \/ EvalAt("job")
        /\ UNCHANGED <<evals, jobs, crons>>
     \/ /\ EvalAt("cron")
        /\ (crons' = [crons EXCEPT ![erec.eval] = Child]) \/ UNCHANGED crons
        /\ UNCHANGED <<evals, jobs>>
     \/ /\ EvalAt("create") /\ jobs[erec.eval] = Absent
        /\ JobCreated(erec.eval) \/ UNCHANGED jobs
        /\ UNCHANGED <<evals, crons>>
     \/ /\ EvalAt("patch") /\ evals[erec.eval] # Absent
        /\ EvalPatched(erec.eval) \/ UNCHANGED evals
        /\ UNCHANGED <<jobs, crons>>
  /\ GiveUp
  /\ UNCHANGED <<cluster, caches, notes, queue, recs, changes, cevals, cjobs, runs>>

SinkFails ==
  /\ EvalAt("sink") /\ Fault
  /\ erec' = [erec EXCEPT !.pc = "patch", !.upd.cond = Condition("Ready", erec.orig.gen)]
  /\ UNCHANGED <<cluster, caches, notes, queue, recs, changes,
                 evals, jobs, crons, cevals, cjobs, equeue, runs>>

EvalCrash ==
  /\ Crash
  /\ cevals' = evals /\ cjobs' = jobs
  /\ equeue' = Existing(evals) /\ erec' = None
  /\ UNCHANGED <<evals, jobs, crons, runs>>

-----------------------------------------------------------------------------
EvalUsers == \E e \in Evals : JobDelete(e) \/ \E s \in plan.evalWrites[e] : EvalWrite(e, s)

EvalCluster ==
  \E e \in Evals :
    \/ JobStart(e) \/ JobFail(e)
    \/ \E text \in Outputs : JobComplete(e, text) \/ CronRun(e, text)

EvalCollect == \E e \in Evals : JobCollect(e) \/ CronCollect(e)

EvalInform == \E e \in Evals : InformEval(e) \/ InformJob(e)

EvalWorker ==
  \/ \E e \in Evals : EvalStart(e)
  \/ ReadFlow \/ ReadDataset \/ ApplyCronJob \/ GetJob \/ CreateJob \/ ReadSink
  \/ EvalPatch \/ EvalConflict

EvalStep ==
  \/ EvalUsers \/ EvalCluster \/ EvalCollect \/ EvalInform \/ EvalWorker
  \/ EvalFails \/ SinkFails \/ EvalCrash

ReadinessStep ==
  \/ Users \/ InformAny \/ HandleAny \/ Fails
  \/ \E c \in Controllers : Work(c)

Step == EvalStep \/ (ReadinessStep /\ UNCHANGED evalVars)

Next == Step /\ UNCHANGED plan

Spec == EvalInit /\ [][Next]_allVars

-----------------------------------------------------------------------------
(* Types of what the API server, the caches and the controller keep.       *)
Children(store, kind) ==
  store = [e \in Evals |-> store[e]] /\ \A e \in Evals : store[e] \in kind \cup {Absent}

EvalTypeOK ==
  /\ runs \in 0..plan.max.runs /\ equeue \subseteq Evals
  /\ Children(evals, EvalObject) /\ Children(cevals, EvalObject)
  /\ Children(jobs, Job) /\ Children(cjobs, Job) /\ Children(crons, Cron)
  /\ erec \in EvalReconcile \cup {None}
  /\ erec # None => /\ erec.pc = "dataset" => erec.flow # None
                    /\ erec.pc \in {"job", "create", "cron"} => erec.pod # None

(* Nothing that would make the controller reconcile e is under way, and    *)
(* what it left behind earlier has been collected.                         *)
EvalAtRest(e) ==
  /\ e \notin equeue /\ cevals[e] = evals[e] /\ cjobs[e] = jobs[e]
  /\ erec = None \/ erec.eval # e
  /\ \A child \in {jobs[e], crons[e]} : child # Absent => ~Orphaned(e, child)

(* An Eval that says it is Ready and that nothing will reconcile again has *)
(* its workload (eval_types.go:63): a CronJob of its present spec, or a Job*)
(* of its own; an Eval that was refused has the generation it was refused  *)
(* at, whatever was edited, deleted, created again or failed meanwhile.    *)
EvalSettled ==
  \A e \in Existing(evals) :
    LET ev == evals[e]
    IN  EvalAtRest(e) =>
          /\ ev.status.gen = ev.gen /\ ev.status.cond.gen = ev.gen
          /\ ev.status.cond.ready =>
               IF ev.spec.scheduled
               THEN /\ crons[e] # Absent
                    /\ \A k \in {"flow", "dataset", "sink", "sinks", "body"} :
                         crons[e].pod[k] = ev.spec[k]
               ELSE jobs[e] # Absent

(* eval_types.go:112, 122: lastRunTime is when the most recent Job         *)
(* completed, activeJob the running one if any.  An Eval with a Job of its *)
(* own that is done and nothing under way says so, though the status it    *)
(* was computed from, the Job it saw and what it patched may each have     *)
(* been of another moment.                                                 *)
RunRecorded ==
  \A e \in Existing(evals) \cap Existing(jobs) :
    EvalAtRest(e) /\ IsReady(evals[e]) /\ ~evals[e].spec.scheduled =>
      /\ jobs[e].state = "complete" =>
           evals[e].status.lastRun = jobs[e].time /\ ~evals[e].status.active
      /\ jobs[e].state = "active" => evals[e].status.active

(* As long as an Eval lives, its lastRunTime never goes back, not when its *)
(* Job is deleted and runs again, nor when the manager restarts.           *)
LastRunMonotone ==
  [][\A e \in Evals :
       evals[e] # Absent /\ evals'[e] # Absent /\ evals'[e].uid = evals[e].uid
         => evals'[e].status.lastRun >= evals[e].status.lastRun]_allVars

(* eval_types.go:116: "LastRunResult is the parsed metric summary of the   *)
(* most recent run."  When nothing is under way, every cache is up to date  *)
(* and the only Job is done, the status has what that Job left in the sink.*)
LastRunResultCurrent ==
  \A e \in Existing(evals) \cap Existing(jobs) :
    LET spec == evals[e].spec
    IN  /\ EvalAtRest(e) /\ cothers = others
        /\ IsReady(evals[e]) /\ ~spec.scheduled /\ "configMap" \in spec.sinks
        /\ jobs[e].state = "complete" /\ jobs[e].pod.sink = spec.sink
        => evals[e].status = SinkResult(evals[e].status, others[spec.sink])
=============================================================================
