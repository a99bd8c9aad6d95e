------------------------------ MODULE FlowRollout ------------------------------
(***************************************************************************)
(* FlowController together with what its children are for: the Pods of the *)
(* Deployment.  Deployment controller, ReplicaSets and kubelet are not the *)
(* operator's code; they are modelled as the operator and the runner rely  *)
(* on them.  A Pod belongs to one Pod template; when its container starts, *)
(* and only then, the runner reads the three mounted ConfigMaps and the    *)
(* environment taken from the credentials Secret, as they are at that      *)
(* moment, and exits if it cannot work with them; its container is then    *)
(* started again.  A new template gets a Pod of its own next to the old    *)
(* one, which goes when the new one is ready.                              *)
(***************************************************************************)
EXTENDS FlowController, FiniteSets

CONSTANTS
  BuildsWith,   \* BuildsWith[d]: the Secret contents the plugin d describes is built with
  Reserved,     \* prompts whose routes the runner needs itself: healthz, readyz
  MaxRestarts   \* bound: containers that die, and starts of ones that will exit

(* What there is when the manager starts is up: every Flow can be rendered.*)
ASSUME RolloutAssumption ==
  /\ BuildsWith \in [Data -> SUBSET (Data \cup {None})]
  /\ Reserved \subseteq Prompts /\ MaxRestarts \in Nat
  /\ \A start \in StartFlows, d \in StartDeps, f \in Flows :
       start[f] # Absent /\ Outcome(start[f].spec, d).reason = "Rendered"

VARIABLES
  pods,      \* pods[f]: the Pods of f's Deployment
  restarts   \* how much of MaxRestarts has been used

rvars == <<vars, pods, restarts>>

(* What the runner can work with.  It exits if config.json has no plugin   *)
(* or one that is not built with these credentials, and on a prompt (that  *)
(* can be parsed) whose route is taken.  Module Runner has the details.    *)
Accepted(content) ==
  /\ content.config.plugin # None
  /\ content.secret.data \in BuildsWith[content.config.plugin]
  /\ \A p \in Reserved : content.prompts[p] \in {Absent, Malformed}

(* Every Flow is up: its children are rendered, the container of its Pod   *)
(* runs, or waits to be started again if its runner exits, its status says *)
(* so, and nothing is left to do.                                          *)
UpPods(spec, d) ==
  LET content == ContentHash(spec, d)
  IN  IF spec.replicas = 0 THEN {}
      ELSE {[template |-> PodTemplate(spec, d),
             loaded |-> IF Accepted(content) THEN content ELSE None]}

Live(ps) == {p \in ps : p.loaded # None}

(* The Deployment's status, brought up to date with its Pods.              *)
ReportOf(ps) ==
  [observed |-> TRUE, avail |-> Cardinality(Live(ps)), unavail |-> Cardinality(ps \ Live(ps))]

RInit ==
  /\ deps \in StartDeps /\ cdeps = deps
  /\ \E start \in StartFlows :
       LET specs == [f \in Flows |-> start[f].spec]
           kid(f, k) == [owner |-> 0, body |-> Child(k, specs[f], deps)]
           dep(f) == [kid |-> kid(f, "deploy"), status |-> ReportOf(UpPods(specs[f], deps))]
       IN  /\ kids = [f \in Flows |-> [k \in Kinds |-> kid(f, k)]]
           /\ report = [f \in Flows |-> dep(f).status]
           /\ cdeploy = [f \in Flows |-> dep(f)]
           /\ flows = [f \in Flows |-> [start[f] EXCEPT
                         !.status = FinalStatus(NoStatus, start[f], deps, dep(f))]]
           /\ pods = [f \in Flows |-> UpPods(specs[f], deps)]
  /\ cflows = flows
  /\ notes = {} /\ queue = {} /\ rec = None
  /\ used = NothingUsed /\ restarts = 0

TemplateOf(f) == kids[f]["deploy"].body.template
Wanted(f) == IF kids[f]["deploy"] = Absent THEN 0 ELSE kids[f]["deploy"].body.replicas

(* What a container of f that starts now finds: the ConfigMaps mounted and *)
(* the Secret its template names.  It cannot start while one is missing.   *)
CanLoad(f, template) ==
  /\ \A k \in {"prompts", "tools", "config"} : kids[f][k] # Absent
  /\ template.envFrom # None => deps[template.envFrom] # Absent

(* Fault: the environment holds the Secret object instead of its data.     *)
ContentsOfSecretObject(f, template) ==
  [prompts |-> kids[f]["prompts"].body, tools |-> kids[f]["tools"].body,
   config |-> kids[f]["config"].body,
   secret |-> [name |-> template.envFrom,
               data |-> IF template.envFrom = None THEN None ELSE deps[template.envFrom]]]

Contents(f, template) ==
  [prompts |-> kids[f]["prompts"].body, tools |-> kids[f]["tools"].body,
   config |-> kids[f]["config"].body,
   secret |-> [name |-> template.envFrom,
               data |-> IF template.envFrom = None THEN None
                        ELSE deps[template.envFrom].data]]

PodCreate(f) ==
  /\ Wanted(f) > 0
  /\ \A p \in pods[f] : p.template # TemplateOf(f)
  /\ pods' = [pods EXCEPT ![f] = @ \cup {[template |-> TemplateOf(f), loaded |-> None]}]
  /\ UNCHANGED <<vars, restarts>>

(* The container of a Pod starts, and its runner loads what it finds.      *)
PodStart(f, p) ==
  LET content == Contents(f, p.template)
  IN  /\ p.loaded = None /\ CanLoad(f, p.template)
      /\ pods' = [pods EXCEPT ![f] = (@ \ {p}) \cup {[p EXCEPT !.loaded = content]}]
      /\ \/ Accepted(content) /\ UNCHANGED restarts
         \/ ~Accepted(content) /\ restarts < MaxRestarts /\ restarts' = restarts + 1
      /\ UNCHANGED vars

(* A runner that cannot work with what it loaded exits: until then nobody  *)
(* can tell it from one that works.                                        *)
PodExit(f, p) ==
  /\ p.loaded # None /\ ~Accepted(p.loaded)
  /\ pods' = [pods EXCEPT ![f] = (@ \ {p}) \cup {[p EXCEPT !.loaded = None]}]
  /\ UNCHANGED <<vars, restarts>>

(* The container of a running Pod dies and is started again.               *)
PodRestart(f, p) ==
  /\ p.loaded # None /\ restarts < MaxRestarts
  /\ pods' = [pods EXCEPT ![f] = (@ \ {p}) \cup {[p EXCEPT !.loaded = None]}]
  /\ restarts' = restarts + 1
  /\ UNCHANGED vars

(* A Pod goes when none is wanted, or when its template is superseded and  *)
(* it is not running or the current template has a running Pod.  Running   *)
(* is ready: newDeployment gives the container no readiness probe.         *)
Superseded(f, p) ==
  /\ p.template # TemplateOf(f)
  /\ p.loaded = None \/ \E q \in Live(pods[f]) : q.template = TemplateOf(f)

PodStop(f, p) ==
  /\ Wanted(f) # 0 => Superseded(f, p)
  /\ pods' = [pods EXCEPT ![f] = @ \ {p}]
  /\ UNCHANGED <<vars, restarts>>

(* The Deployment controller counts its Pods.                              *)
SyncReport(f) ==
  /\ kids[f]["deploy"] # Absent /\ report[f] # ReportOf(pods[f])
  /\ report' = [report EXCEPT ![f] = ReportOf(pods[f])]
  /\ UNCHANGED <<flows, deps, kids, caches, notes, queue, rec, used, pods, restarts>>

PodStep ==
  \E f \in Flows :
    \/ PodCreate(f) \/ SyncReport(f)
    \/ \E p \in pods[f] : PodStart(f, p) \/ PodExit(f, p) \/ PodStop(f, p)

PodRestartAny == \E f \in Flows : \E p \in pods[f] : PodRestart(f, p)

ControlStep ==
  /\ \/ Edit \/ Collect \/ Inform \/ Resync \/ HandleAny
     \/ Worker \/ ApplyFails \/ Crash
  /\ UNCHANGED <<pods, restarts>>

RNext == ControlStep \/ PodStep \/ PodRestartAny

RSpec == RInit /\ [][RNext]_rvars

-----------------------------------------------------------------------------
(* A Pod is of some rendered template, and what it loaded is content of    *)
(* that shape.                                                             *)
PodTypeOK ==
  \A f \in Flows : \A p \in pods[f] :
    /\ p.template \in [image : Images, port : Ports, envFrom : Secrets \cup {None},
                       hash : Hashes]
    /\ p.loaded \in Hashes \cup {None}

(* Nothing is left to do for f, in the controller or in its informers.     *)
Idle(f) ==
  /\ ~Pending(f) /\ ~ApplyFailed(f)
  /\ flows[f] # Absent /\ cflows[f] = flows[f]
  /\ cdeploy[f] = DeployOf(f) /\ cdeps = deps
  /\ Outcome(flows[f].spec, deps).reason = "Rendered"

(* api/v1alpha1/common.go:49: "AnnotationContentHash records the rendered  *)
(* content hash of the resources mounted into a Flow Pod, so any change    *)
(* triggers a rollout."  When the controller is idle and the rollout done, *)
(* what the Pods loaded is what their template's hash was computed from.   *)
HashDescribesPods ==
  \A f \in Flows :
    Idle(f) => \A p \in Live(pods[f]) :
                 p.template = TemplateOf(f) => p.loaded = p.template.hash

(* No Pod is left behind: when the controller is idle and no Pod of an old *)
(* template is left, every running Pod has loaded the content of the       *)
(* current prompts, tools, model and credentials.                          *)
NoStaleContent ==
  \A f \in Flows :
    Idle(f) /\ (\A p \in pods[f] : p.template = TemplateOf(f)) =>
      \A p \in Live(pods[f]) : p.loaded = ContentHash(flows[f].spec, deps)

Rolled(f) ==
  flows[f] # Absent =>
    /\ Converged(f)
    /\ flows[f].spec.replicas = 0 => pods[f] = {}
    /\ Outcome(flows[f].spec, deps).reason = "Rendered" /\ flows[f].spec.replicas > 0 =>
         /\ pods[f] # {} /\ flows[f].status.phase = "Running"
         /\ \A p \in pods[f] : p.loaded = ContentHash(flows[f].spec, deps)

(* As for the controller alone; Pods are started, stopped and counted too. *)
(* Nothing is assumed of containers that die, nor of edits and faults.     *)
RFairness ==
  /\ WF_rvars(Inform /\ UNCHANGED <<pods, restarts>>)
  /\ WF_rvars(HandleAny /\ UNCHANGED <<pods, restarts>>)
  /\ WF_rvars(Worker /\ UNCHANGED <<pods, restarts>>)
  /\ WF_rvars(Collect /\ UNCHANGED <<pods, restarts>>)
  /\ WF_rvars(PodStep)

RFairSpec == RSpec /\ RFairness

(* The runner can work with what f calls for, if that can be rendered.     *)
Runnable(f) ==
  flows[f] # Absent /\ Outcome(flows[f].spec, deps).reason = "Rendered"
    => Accepted(ContentHash(flows[f].spec, deps))

(* Every change ends in a rollout: once edits stop, every Flow whose       *)
(* content the runner can work with has Pods that all run it, even if the  *)
(* runner exited on what there was before, its children and its status say *)
(* so, and a Flow scaled to zero has no Pod.                               *)
RolloutCompletes == \A f \in Flows : <>[]Runnable(f) => <>[]Rolled(f)
=============================================================================
