# Models, checks and proofs of the genkit operator

The genkit operator turns `Prompt`, `Tool`, `Model`, `PluginConfig`, `Flow` and
`FlowSet` objects into ConfigMaps, a Service and a Deployment whose Pods serve
the flows. This directory holds TLA+ models of it, the TLC runs that check
them, and proofs checked by TLAPS.

Run anything with `tlc -config <run>.cfg <module>` and `tlapm <module>.tla`.

## 1. The system

One **manager** process (`cmd/main.go`) hosts eight controllers. Each has a work
queue with one worker; a request is an object's name, so several events on one
object collapse into one request, and a request that arrives during its own
reconcile is handled again afterwards. Controllers read through informer
**caches**, which follow the API server with a delay and are filled per object,
and write to the API server directly. Events reach a queue through **mappers**
(`watches.go`) that compute the affected names from the caches at the moment they
run.

| part | state it keeps | operations | how it meets the others |
|---|---|---|---|
| Flow controller (`flow_controller.go`, `flow_render.go`) | five children per Flow, `Flow.status` | reconcile: read Flow, resolve dependencies, render, five server-side applies, read Deployment, patch status | woken by Flow, children, Prompt, Tool, Model, PluginConfig, Secret |
| FlowSet controller (`flowset_*.go`) | manifest, three ConfigMaps per flow, Service, Deployment, `FlowSet.status` | the same for several flows in one Pod, then `gcOrphans` | the same kinds of events |
| PluginConfig, Model, Tool, Prompt controllers | a Ready condition each | look up what they refer to, patch status | Secret → PluginConfig → Model; Flow → Tool |
| Dataset, Eval controllers | sample count; Job or CronJob | look up ConfigMap; Flow and Dataset | Eval watches only its own Jobs |
| Runner (`cmd/runner`) | what it loaded at start, process environment, HTTP routes | load config, credentials and prompts, register routes | reads what the controllers mounted, once |
| Kubernetes | every object | stores, notifies, collects garbage, runs Pods | external: modelled from how `src/` uses it |

What makes this hard is concurrency between parties that share no clock: events
are handled against caches that may be older or newer than the event; a
reconcile is a dozen calls with users, Kubernetes and other controllers in
between; any call may fail, and the manager may die after it; the runner reads
its files when its container happens to start. The list is in `PROJECT.json`
under `hazards`, with the line where each one bites.

What makes each part correct:

* *Flow and FlowSet controllers*: no change is missed (when nothing is left to
  do, status and children are those of the current objects); everything ends in
  that state; status claims only what is so; ConfigMaps change before the
  Deployment that mounts them; no orphan stays and no mounted ConfigMap goes.
* *Rollout*: when the controller is idle, each Pod runs the content its hash
  describes, and in the end the current content.
* *Status of every kind*: which generation has been judged never goes back and is
  never ahead of the object.
* *PluginConfig, Model, Tool, Prompt, Dataset*: a condition agrees with what it
  refers to when all is quiet, over chains of two controllers too.
* *Eval*: an Eval that is Ready has its workload, and its status says what became
  of the last run.
* *Runner*: each flow uses its own credentials, each route its own prompt; it comes
  up exactly if what it is given is good.

## 2. Modules

| module | what it is |
|---|---|
| `FlowRender` | pure part of the Flow controller: `resolveDeps`' reads and outcome, rendering, content hash, statuses, mappers |
| `FlowController` | the Flow controller with API server, caches, notifications, queue, worker, users, faults, restarts |
| `FlowTracking` | the inductive invariant behind "no lost wakeup" |
| `Observation` | abstract: what `observedGeneration` and the Ready condition promise to those who wait on them |
| `FlowObservation` | the mapping under which the Flow controller implements `Observation`, and the invariant behind it |
| `FlowRollout` | `FlowController` composed with the Pods of its Deployments and the runner's reads |
| `FlowSetRender` | pure part of the FlowSet controller; uses `FlowRender`'s operators flow by flow |
| `FlowSetController` | the FlowSet controller, `gcOrphans`, and the shared Pod |
| `Readiness` | PluginConfig, Model, Tool, Prompt and Dataset controllers, which share one design |
| `EvalController` | the Eval controller with its Jobs and CronJobs, composed with `Readiness` |
| `Runner` | the runner process from its start to listening, over volumes that change; uses `FlowRender` and `FlowSetRender` for what is in them |
| `MCFlowController`, `MCFlowRollout`, `MCFlowSet`, `MCSupport`, `MCRunner` | instances for TLC |
| `SupportTracking` | the invariants behind what `Readiness` and `EvalController` promise |
| `Aging` | what it means that objects move forward, and contents with them |
| `FlowRolloutTracking` | the invariant behind "no Pod keeps stale content" |
| `FlowSetTracking`, `FlowSetServing` | the FlowSet's counterparts of `FlowTracking` and `FlowRolloutTracking` |
| `FlowRenderProofs`, `AgingProofs` | lemmas on what is read, rendered and reported, for Flows and FlowSets; on the order of contents |
| `FlowControllerProofs`, `FlowRolloutProofs` | theorems of the Flow controller: no lost wakeup, what status and hash say; Pods |
| `FlowSetProofs`, `FlowSetServingProofs` | theorems of the FlowSet controller; of what its Pod serves |
| `SupportProofs` | theorems of the six other controllers |
| `RunnerProofs` | theorems of the runner |

### Flow controller

`flows`, `deps`, `kids`, `report` are the API server's Flows, dependencies,
children (`kids[f]["prompts"]` is the ConfigMap `<f>-prompts`, and so on) and
Deployment statuses. `cflows`, `cdeps`, `cdeploy` are the caches. `notes` holds
the dependencies whose cache changed and whose mapper has not run; `Handle` is a
mapper running, later, against the caches as they are then. Events on a Flow or
its children name the Flow without looking anything up, so their delay is the
queue's. `rec` is the reconcile in progress, one API call per step:

| action | code |
|---|---|
| `Start` | `r.Get` of the Flow and `DeepCopy`, from the cache |
| `ReadDep` | one `r.Get` of `resolveDeps`, in the code's order (`Gets`, `First`), each found through the one before |
| (`Resolved`) | the checks and `renderFlow` between two calls: no call, so part of the step before |
| `ApplyChild`, `ApplyFails` | one Patch of `applyChildren`; a failure may strike before or after the write took effect, and is swallowed (`flow_controller.go:96`) |
| `ObserveDeploy` | `r.Get` of the Deployment, from the cache |
| `PatchStatus`, `PatchStatusFails` | the merge patch of status, by name, with the fields that differ from the first read; failing, it requeues |
| `InformFlow`, `InformDep`, `InformDeploy`, `Resync` | informers |
| `Crash` | the manager dies and its successor lists everything |
| `FlowCreate` … `ChildDelete` | users |
| `GarbageCollect`, `ObserveGeneration`, `ReportReplicas` | Kubernetes |

Abstractions. Payloads are members of `Data`; `Images` stands for everything
else that goes into the Pod template only (image, environment, resources, pull
policy). SHA-256 is injective, so a hash is the content hashed. A mapper reads
its lists in one step. Objects of the cache belong to one namespace, as every
reference in the code does. Replica counts are `avail` and `unavail`, their sum
being `status.replicas`. Names of generated objects do not clash (they may: see
the hazard at `flowset_render.go:93`). One replica of the manager is active.

### What a status promises

`Observation` has, for each object, its generation, `observedGeneration` and the
generation of its Ready condition. Objects change; the controller judges a
generation that is not older than the last one judged and not newer than the
object; fairly, it judges the last one. `FlowObservation` maps the Flow controller
to it: a status patch is `Judge` or, sending nothing new, a stutter; a user's edit
is `Change`; all else is invisible. What makes this hard is that the patch sends
only the fields that differ from a copy read at the start of the reconcile, which
may be older than the status it lands on; the two fields stay together because
both come from one generation (`Copies`).

### Rollout

`FlowRollout` extends the above with `pods[f]`: each Pod has the template it was
made from and what its container loaded. `PodStart` is the runner's start
(`loadConfig`, `stagePrompts`, `readCredential`): it reads the ConfigMaps and the
Secret as they are at that moment. It may not be able to work with them
(`Accepted`): there is no plugin because the Flow has no model, the plugin cannot be
built with these credentials, or a prompt takes a route of the runner's own. Then
it exits (`PodExit`) and Kubernetes starts its container again. Which credentials a
plugin is built with is a constant here (`BuildsWith`), and so are the routes
(`Reserved`); module `Runner` says what is behind them, and `ListensIffStartable`
relates them to its steps. A Pod of a new template comes next to the old one, which
goes when the new one runs. `newDeployment` asks for no probe, so Kubernetes takes a
container for ready as soon as it runs, one whose runner is about to exit included.

### FlowSet controller

One FlowSet, its state as above with children by slot (`<<flow, "prompts">>`,
`<<None, "manifest">>`, ...). `got[i]` is what was read for the i-th flow: the code
reads a shared prompt once per flow. `ListOrphans`, `DeleteOrphan`,
`DeleteFails` are `gcOrphans`, which lists the cached ConfigMaps (`cmaps`) and
deletes by name. `SetHash` keeps what `computeContentHash` keeps: per file name,
the contents in flow order, without the flow. It is exact up to twelve entries,
where Go's sort is an insertion sort; the instances stay below. The manifest and the `config.json`
files count as files; a tool named `config` or `manifest`, whose file name would
clash with theirs, is not in the instances. `FaultKinds` and `Bounds` say which calls
may fail and how often. A plan (`Plans`) is where a behaviour starts, which specs
users may write, and with which kinds of edit.

### Supporting controllers and Evals

`Readiness` has the five controllers that only write a status. An object of any
kind is a set of sources (`ref`, `here`, `uri`), a reference, a body and a format;
`Reason`, `Result` and `Seen` are where the kinds differ, from the order of checks
to the samples counted in a file. `queue` is the union of five queues and `recs`
has one reconcile per controller, so the controllers run side by side. `Handle` is
`pluginConfigToModelMapper` and its like. `LookUpFails` differs for PluginConfigs,
whose controller writes an Error status and returns the error too.

`EvalController` adds Evals: `EvalStart`, `ReadFlow`, `ReadDataset`, then
`ApplyCronJob`, or `GetJob` and `CreateJob`, then `ReadSink` and `EvalPatch`.
`EvalConflict` is a create that finds a Job the cache does not know, or a patch of
an Eval that is gone. `JobStart`, `JobComplete`, `JobFail`, `CronRun`, `JobCollect` and
`CronCollect` are Kubernetes; `runs` counts the runs completed and stands for the
clock. A file is what `countSamplesBytes` tells apart (`Text`).

### Runner

One process over one set of volumes, from `Boot` to `Listen` or `Exit`:
`LoadConfig`, `BuildPlugin` (`readCredential`, the registered builders, and what they
export to the environment), `StagePrompts` and `CopyFile` (list, then open one by
one), `InitGenkit`, `RegisterRoutes`, once per flow. `Refresh` is the kubelet
exchanging a whole volume between any two steps; manifests and `config.json`s are
mounted with subPath, so `bound` keeps them as they were at the container's start.
`layout` is what was mounted before and after a change. The genkit library is
external: it registers the prompts of a directory that it can parse. The content
of the file stands for its path where Vertex AI is pointed at it.

## 3. Runs

The runs finish in between one second and four minutes with two workers.

| run | asks | bounds |
|---|---|---|
| `inputs` | does any change on Flow → Model → PluginConfig → Secret, of a prompt, a tool, a child or the Flow itself go unnoticed? | five specs, three of them refused; two edits of any kind, deletion and re-creation included |
| `claims` | is what status says of generation, readiness and content true, and `Tracking` kept? Does the controller implement `Observation`? | one edit (scaled up from nothing, inline prompt to Prompt, image), one failing apply, one failing patch, one restart, one replica report, one resync |
| `rotate` | do Pods end with current content, and is `RolloutTracking` kept? | one edit of a prompt or Secret, to credentials the runner exits on too; a restart of the manager; a container that dies or a runner that exits |
| `completes` | does everything, rollouts included, end well, and every generation get judged? (liveness) | a Flow with model, plugin and Secret, or without a model at first; one edit that mends or breaks it (model, prompt, Secret, a prompt named `healthz`) or scales it to zero; one failing patch, one restart |
| `content` | the FlowSet counterpart of `inputs`, `claims` and `rotate`; is `ServingTracking` kept? | two flows, one edit, one fault of any kind, one Pod start; one plan with seven specs and objects that are removed, and one in which flows only join and leave and payloads only move forward |
| `churn` | is every orphan found in spite of the lagging cache, and are a FlowSet's children its own when it is deleted and comes back? | two edits; two flows, or one flow and the set deleted, created or robbed of children |
| `converges` | liveness of the FlowSet; is `SetTracking` kept? | one edit, one failing patch or restart, one report |
| `support` | does a status of the six other controllers stay wrong; does an Eval miss its workload or its run? Are the proofs' invariants kept? | nine plans of two changes at most, one fault, two runs at most |
| `runner` | does the runner come up, with the right routes and credentials, exactly if it should? | some 230 layouts: nine plugins, four contents of a Secret, changed volumes; one death |

Why small bounds are enough. An event is lost, if at all, between one change and
one reconcile; two edits give a change during the reconcile of another and an
edit of the path an event takes while that event is under way, which is the
longest chain the mappers follow. A single restart and a single failure can fall
between any two steps, and a restart starts a reconcile for an edit to fall into.
Two flows are needed for shared reads, for moving a file and for orphans; an
orphan hides in a lagging cache only if its flow joined and left, hence two edits
in `churn`. Runs have one Flow: Flows meet only in the worker, which they
share, and the proofs (section 4) are for any number. Container starts are
bounded (`podStarts`, `MaxRestarts`) to keep runs that are not about Pods small.
`MaxRestarts` bounds the containers that die together with the starts of runners that
will exit. In `completes` it is zero: a runner that would exit stays down, as it does
during Kubernetes' back-off, until what it needs is there. What may happen while it
is briefly up is in `rotate`. `RolloutCompletes` says nothing of a Flow
with whose content the runner cannot work in the end (`Runnable`): no Pod of it stays up.
The plans of `support` have one chain of objects each, as chains do not meet: two
changes take away a link and give it back, or take two links of a chain in either
order. In `runner` a layout has two versions of the volumes, which is what an exchange
between two reads needs, and two flows, which is what sharing an environment
needs; the plugins share names of keys, so that each may disturb the other.

`NoStaleContent` and `HashDescribesPods` are checked, in `rotate`, when replaced
content does not come back, `NoOrphans` without failing deletes, and what `claims` says of
generations for Flows that are not deleted: see below.

Deadlock is not checked: with its budget of edits used up, a system that has
converged stops, as it should.

Fairness. Informers deliver, mappers run, the worker takes what is queued and
makes its calls, Kubernetes collects garbage and starts Pods: weak fairness on
each, which is what controller-runtime's goroutines and client-go's rate-limited
queue give as long as the manager runs. The informer of FlowSets has a condition
of its own, as each kind has a goroutine of its own. In `runner`, the process runs,
Kubernetes restarts its container (with a back-off that does not end), and the
kubelet syncs volumes. Nothing is assumed of users, faults, restarts, replica
reports or resyncs, nor of containers that die. `completes` and `converges` allow no
failing apply: with repeated ones the property is false (below).

### What the code does not do

Three runs expect a violation; each checks what a comment or document says.

* `applyfaults`: a failed apply is not retried. The status write it causes is an
  event that gives one more try; if that fails alike, nothing is left to wake
  the Flow, although README.md:24 promises an update whenever anything changes. (Only
  the periodic resync, hours later by default and not in this run, mends it.)
* `moved`: a helper prompt moved between two flows changes neither hash nor
  template, although `common.go:49` says any change triggers a rollout; the Pod
  goes on serving the old assignment.
* `lastresult`: the completion of a Job wakes the Eval, which reads the sink from
  a cache that may not have it yet; nothing wakes the Eval when it has, although
  `eval_types.go:116` calls the status that of the most recent run. Only the periodic
  resync, hours later and not modelled, mends it.

Further disagreements were met while modelling and are listed as hazards in
`PROJECT.json`. No run states them; they bound what the properties above say.

* ConfigMaps are changed in place, before the Deployment. A container that restarts
  in a Pod of the old template meanwhile reads the new content; if the content is
  changed back before that Pod is replaced, its template is again the wanted one,
  the Pod stays, and the hash (`common.go:49`) describes something it has not loaded.
* `custom-runner.md:466` says the operator wires probes to `/healthz` and `/readyz`;
  `newDeployment` wires none. With credentials exchanged for ones the plugin cannot be
  built with, the new Pod counts as ready until its runner exits, and the old Pod, the
  last that worked, is deleted meanwhile (`PodStart`, `PodStop`, `PodExit`).
* `status.contentHash` may be older than the applied template after a restart
  followed by a missing dependency (`flow_types.go:127`).
* A status patch may land on a Flow created since under the same name.
* `readyFlows` keeps its old count when a dependency goes (`flowset_types.go:154`).
* A failing delete of an orphan is forgotten once nothing else is under way.
* Dataset and Eval do not hear of what they refer to; an Eval given or deprived of
  a schedule keeps the workload of the other kind, and the Job of an edited
  Eval is that of the earlier spec.
* A Flow's `config.json` does not name the keys of its credentials
  (`pluginconfig_types.go:53`), the runner's port is fixed, a prompt or flow named
  `healthz` keeps it from starting, and so does a Flow without a model.

## 4. Proofs

For every number of objects and values, and for any bounds. Except for liveness,
every property a passing run checks is proved, some under
hypotheses that are stated with them and needed.

| theorem | result |
|---|---|
| `FlowControllerProofs!TypeCorrect`, `TrackingHolds`, `StatusSettles`, `ChildrenSettle` | `Spec => []` `TypeOK`, `Tracking`, `SettledStatus`, `SettledChildren`: no lost wakeup |
| `FlowControllerProofs!CopiesHold`, `ObservationIsSound`, `ObservationIsMonotone`, `FlowsImplementObservation` | the invariant `Copies` and, from it, what `observedGeneration` promises, as two properties and as a refinement; under `NoDeletion` |
| `FlowControllerProofs!HashesFollow`, `ReadyIsBacked` | `Spec => HashFollowsContent`; `[]ReadyMatchesSpec` under `NoDeletion` |
| `FlowRolloutProofs!PodTypes`, `ChildrenSettleWithPods` | `RSpec => []` `PodTypeOK`, `SettledChildren`: with Pods next to it, the controller keeps what it promises |
| `FlowRolloutProofs!RolloutTracked`, `HashesDescribePods`, `NoPodIsStale` | `ForwardSpec => []` `RolloutTracking`, `HashDescribesPods`, `NoStaleContent` |
| `FlowSetProofs!SetTypes`, `SetTrackingHolds`, `SetSettles` | `Spec => []` `SetTypeOK`, `SetTracking`, `SetSettled` |
| `FlowSetProofs!MountsAreThere`, `OrphansAreCollected` | `[]MountsExist` if users delete neither the FlowSet nor children; `[]NoOrphans` if no delete fails |
| `FlowSetServingProofs!ServingTracked`, `ContentIsServed` | `ForwardSetSpec => []ServingTracking`; `[]ContentServed` if, moreover, a name always means the same flow |
| `SupportProofs!SupportTypes`, `StatusesAreTracked` | `Spec => []` `SupportTypeOK`, `StatusTracking` |
| `SupportProofs!StatusesOfTheQuiet`, `ReadinessPropagates`, `CountsOfSamples` | `[]` `StatusesSettle`, `ChainAgrees`, `SampleCountSound` |
| `SupportProofs!RunsStayOrdered`, `EvalsAreTracked` | `Spec => []` `RunsInOrder`, `EvalTracking` |
| `SupportProofs!EvalsSettle`, `RunsAreRecorded`, `LastRunNeverGoesBack` | `[]` `EvalSettled`, `RunRecorded`; `LastRunMonotone` |
| `RunnerProofs!RunnerTypes`, `CredentialsAreOwn`, `RoutesAreOwn`, `ListensOnWhatCanBeStarted` | `RunnerSpec => []` `RunnerTypeOK`, `OwnCredentials`, `RoutesServeOwnPrompts`, `ListensIffStartable` |

**Tracking.** `SettledStatus` is not inductive: it speaks of moments when nothing is
pending and says nothing of a reconcile in progress. `Tracking` does. Call a Flow
*awake* if it is queued or a mapper that has not run yet will queue it. While a Flow
is not awake: a reconcile of it still has the cached Flow as its copy, everything it
read is what the cache holds, and the children it sent are still there
(`InProgressOK`); and after its last reconcile, its status is the one a reconcile
of the current caches ends with (`AtRestOK`). The heart of the proof is that
whatever changes one of these facts wakes the Flow: a cached dependency the
reconcile has read is one of `Gets`, every one of `Gets` is one for which `Woken`
yields the Flow (in spite of links re-pointed since, whose own notes then yield
it), and a child that changes is an event. Two supporting facts are needed:
a cached Flow is never newer than the live one (`VersionsOK`; with the uid, so
that delete and create are not mistaken for no change), and a reconcile reads
only what its spec leads to (`ReadingOK`).

**Copies.** The live Flow, the cached one and the copy of a reconcile are states of
one object, in this order; in each the condition and `observedGeneration` name one
generation; and the live status was written by no later reconcile than the one
running. Every step keeps the first of these; that a patch keeps the second
although it may send only one of the two fields (`MergedStamp`) needs all three. The
refinement then takes one lemma on what a step does to Flows at all
(`EveryStepOnFlows`: nothing, a change of one spec, or new stamps). `NoDeletion` is
needed: the patch names a Flow and no uid, so one computed from a deleted Flow may
stamp its successor with a generation that one never had.

**Hashes and readiness.** What a reconcile has sent so far is in the API server or
was removed by others, and was rendered from what it has read (`SentContent`):
`ApplyOrder` puts the Deployment last, so the ConfigMaps its hash covers are there
when it gets the hash, whatever becomes of them later. For a Ready status: all copies
of one generation of a Flow have one spec (`SpecsAgree`), and a reconcile sends a
Deployment only of a generation at least as new as the one judged last
(`VerdictBacked`). A Ready verdict of the present generation is therefore about a
Deployment made from the present spec, and no older reconcile can replace it
afterwards.

**Rollout.** Neither `HashDescribesPods` nor `NoStaleContent` is inductive, and no
invariant on equality alone would do: during a rollout the template's hash, what a
container loaded, the ConfigMaps, what the reconcile has read and the caches may all
differ. But they were all read from the same objects, and in this order. So
`Aging` ranks the payloads each object is ever given (`Age`) and compares contents
piece by piece (`PieceBefore`), and `FlowRolloutTracking` says: hash ⊑ loaded ⊑
ConfigMap ⊑ what the reconcile in progress renders, or the next one will
(`Prospect`), and caches ⊑ API server. At rest the first and the last of these are
equal, by `SettledChildren`; hence so are all, by antisymmetry. Three things carry
the proof. What is rendered of older objects is older content, with the same
objects in it (`OlderObjectsOlderContent`). A step that takes every Flow onward
keeps all that is claimed of its Pods (`Onward`, `RolloutTrackingIsKept`), so each
action need only say how it moves the caches, the reads and the children. And the
ConfigMaps are sent before the Deployment, from the same reads, so when a hash is
written, what is mounted is at least as new.

The hypothesis is `NothingComesBack`: no payload that was replaced is written back,
no object is removed, no Flow or Model is pointed at other objects (image, port and
replicas change freely). It is needed: with values that come
back (`DepValues` of `rotate` extended by the old ones, two edits) TLC finds the
counterexample described in section 3, and pointing elsewhere and back has the same
effect. It says nothing of
children, which users may delete, nor of failing calls, restarts of manager and
containers, and Flows of any number.

**SetTracking** is `Tracking` for FlowSets, with three differences. What was read
for each flow may be of different moments, so the invariant speaks of each flow's
reads (`InOrderOK`, per entry). A child that users or Kubernetes took away counts as
sent while its event is still to come (`SetSentOK`), which is why the Deployment
and the ConfigMaps, whose caches exist, are treated unlike the Service. And a
ConfigMap that belongs to no flow is one the reconcile is about to delete or one its
cache does not show yet, in which case the informer's event wakes the set
(`CollectedBut`): that gives `NoOrphans`. A delete that fails breaks it, and nothing
wakes the set: hence the hypothesis. `MountsExist` needs an invariant of its own
(`SentSoFar` and what follows it in `FlowSetProofs`): a reconcile creates the
ConfigMaps before the Deployment that mounts them, and deletes one only after
sending a Deployment that does not.

**Serving.** What a FlowSet's Pod serves is proved as for Flows, flow by flow.
`ServingTracking` says: the hash is behind what the Pod loaded, behind the
ConfigMaps, and behind what the flow's reads in progress, or the next ones, render;
what was loaded and what the ConfigMaps hold are behind the live objects. At rest
the hash is that of the live objects (`SetSettles`), so what was loaded lies between
two equals (`LoadedBetween`). Two things are new. The hash forgets which flow a file
belongs to, so one must be able to tell: the files of one name are in flow order,
and which flows have a file of that name is known from the manifest as long as a
flow's name always means the same flow; `Hashed` then finds a flow's part of the
hash (`HashTellsFlows`). And a flow may leave the set and come back while its
ConfigMaps are not collected yet: what is read for it, or will be, never falls back
behind what was rendered before (`Onwards`). Only three kinds of step need an
argument of their own: a child that is sent, where the Deployment comes after the
ConfigMaps (`SentOK`), a Pod that starts, and the start of everything; all others
are shown to move every flow onwards (`OutsideIsQuiet`, `ThinkingIsQuiet`).

Both hypotheses are needed. `DepsMoveForward` is that of rollouts, stated of the
dependencies: no replaced payload comes back, and no object is removed; with a
prompt written three times, the first and the third time alike, TLC finds a Pod
that was started in between on the second and stays. `FlowsKeepContent` excludes
what the code gets wrong: with a helper prompt moved between two flows the run
`moved` finds a Pod that goes on serving the old assignment. It lets flows join and
leave the set, and image, port and replicas change; nothing is said of failing
calls, restarts, deleted children or the moment a Pod starts. What a FlowSet serves
after a flow's own prompts or model were edited is checked by `content` and not
proved.

**Runner.** The invariant (`RunnerInv`) relates what has been read so far to the two
versions of the volumes: each file staged is of the flow's own volume, of one of its
versions; each credential comes from the flow's own Secret; and the runner has
passed a flow only if it could. The environment is shared, so the credential of a
flow is what it exported last before its own plugin is built. `ListensIffStartable`
is stated while nothing mounted changes; what was read is then the one version.

**StatusTracking** is `Tracking`'s counterpart for the five controllers of
`Readiness`, all running at once. While an object is not awake, the copy of its
reconcile and what it has seen are those of the caches; after its last reconcile
it is `Settled`. A patch needs care: it is merged into a status that may be newer.
That does not matter unless live object and cache agree afterwards, and then the
status the patch was meant to give is the one that is there (`MergedBack`).

**EvalTracking** says in addition how far a reconcile has come: past the Job or
CronJob, the workload the spec calls for exists and the copy of the status says of
it what the cache does (`Worked`); at the patch, that it is a verdict on the
generation read (`Judged`). A Job is created before the cache knows of it, so the
proof must show that it cannot vanish unnoticed: a Job that goes before the informer
has seen it still makes an event (`JobGone`), and every other change of a Job, a
CronJob or an Eval queues the Eval once it is in the cache.

**RunsInOrder.** Live status, cached Job and Job are of three moments, and the Jobs
may be of different Evals of one name. Still their times come in this order, and the
time a reconcile is about to patch lies between the first two; so `lastRunTime` only
grows, deletion of the Job and restarts included.

Assumptions: names of different kinds of object differ (`NamesAssumption`,
`KindsAssumption`), the sentinels differ from data and from records
(`MarksAssumption`, `RecordsAssumption`, `SetRecordsAssumption`,
`EvalRecordsAssumption`), inputs and plans are
well formed (`InputsAssumption`, `SetInputsAssumption`, `ReadinessAssumption`,
`EvalAssumption`, `RunnerAssumption`), what runs
when `FlowRollout` starts is up and rendered (`RolloutAssumption`), payloads have
ranks (`AgeAssumption`). TLC evaluates them in every run of these modules.

Only model-checked: liveness (`Converges`, `RolloutCompletes`, `SetConverges`,
`StartsEventually`) and `ImplementsFairObservation`, which are out of the prover's
reach; and `ContentServed` where a spec changes what a flow is made of, which the
code does not give in general (run `moved`).

## 5. Not modelled

* The order of more than twelve hash entries (Go's sort is not stable there), and
  two owners whose generated names clash; both are hazards in `PROJECT.json`.
* Runners that exit over and over: each start is a step like the first, and the status
  follows it up and down for ever (no probe holds it back). `MaxRestarts` cuts it off.
* In `Runner`, credentials that are empty once trimmed count as any value, and the keys
  of one plugin are read in one step.
* The resync of `Readiness`, `EvalController` and `FlowSetController`, and in `completes`:
  it only adds reconciles, so leaving it out makes settling harder, not easier.
* Several managers at once: leader election is assumed to work. Metrics, probes,
  flags and TLS of the manager: no state of the operator depends on them.
* Requests to a running runner: one call of the genkit library, without state. The
  dotprompt frontmatter parser is a function of the content; texts of messages, labels and
  volume names are left out.
* Generated deep copies, Helm charts, manifests, website and CI: no behaviour.
