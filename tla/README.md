# Verification of k8s LogJedi

TLA+ models, TLC runs and TLAPS proofs for k8s LogJedi: a Kubernetes operator
(Go, `operator/`) that finds failing workloads, has them analysed by an LLM
service (Python, `llm-service/`), and patches them or tells people. `PROJECT.json`
maps every definition to the lines it stands for and lists the runs, the
mutations that break each property, the hazards, the findings and the theorems.

## The system

| Component | State | Operations | Hard because |
|---|---|---|---|
| Workload controller (`operator/controllers/workload_controller.go`) | informer cache, work queue, cooldown cache, configuration | watch events, `Reconcile`, `applyOrNotify`, start | events, delays, back-offs and cooldowns interleave with one worker that waits for remote calls; memory is lost at a restart |
| Report store (`llm-service/routers/analyze.py`) | `_analyses`, `_reports` | `POST /analyze`, `POST /report-outcome`, `GET`s | background tasks run on threads after the answer was sent, the scan by index runs on the event loop |
| LLM client (`operator/internal/llmclient`) | of a call: attempt, running timer | `Analyze` with retries, `ReportOutcome` | retries and back-off hold up the only worker; a timed-out call goes on in the service; settings of zero and below |
| Several operators (chart, `main.go`) | none of their own | replicas, roll-outs | no leader election: processes share workloads and the service, and nothing else |
| Failure detector (`failure_detector.go`) | the status it is given | `IsPodFailed`, `IsJobFailed`, `IsDeploymentFailed` | it samples a status that the kubelet moves; order of the signals |
| Patch filter (`internal/patch`) | none | `FilterPatch` | what is left of trees of unexpected shape |
| Redaction (`internal/redact`) | none | `RedactSpec` | places it does not reach |
| Evidence collection (`workload_controller.go`) | the request being built | events, Pods, recent and historical logs, nodes, truncation | almost every call may fail and is passed over; caps upon caps |
| Log backends (`internal/logbackend`) | none | recent and historical logs | which failures are an answer of no lines |
| Notifiers (`internal/notifier`) | none | posts to Slack and Teams | partial failure |
| Analyzer (`services/analyzer.py`) | none | prompt, provider or mock | every failure is answered by the mock; the prompt cuts once more |
| Models, entry points, manifests | none | wiring | – |

How they interact: the API server's watch events fill the informer cache and
put a key (namespace/name, without a kind) into the work queue. One worker takes
a key, reads the cache, and, for a failing workload out of its cooldown, posts
to `/analyze`. The answer starts the cooldown and is either applied (get from
the cache, optional dry run, patch at the API server, `POST /report-outcome`) or
announced (each notifier in turn, then a `kubectl patch` line in the log). The
service stores its report of the analysis after it has answered.

What makes each part correct:

- controller: no failure seen is forgotten; a workload is not analysed twice in
  a cooldown; a patch never leaves the configured scope; every answer comes to
  an outcome; every failure is taken up in the end;
- report store: lists bounded and recent, operator steps only for applied
  patches, each on one report of the workload that was patched, whatever the
  threads do;
- client: at most `maxRetries + 1` requests, in a bounded time, so that the worker
  goes on whatever the service does;
- several operators: none asks again within the cooldown of its own answer;
- detector: a crash loop is not missed for ever;
- evidence: nothing is dropped without a word, and no line is shown under another
  Pod than its own;
- filter and redaction: the filter lets through only the listed fields, redaction
  masks the places it knows wherever they are nested, leaves everything else as it
  is, and is idempotent.

## Modules

| Module | What it is |
|---|---|
| `WorkloadController` | the operator, the cluster it watches and its queue |
| `WorkloadController_proofs` | theorems about it |
| `MCWorkloadController` | small instances for TLC |
| `Remediation` | what an operator process promises: the abstract specification |
| `LLMClient`, `LLMClient_proofs` | the retry loop of the client, for several processes; theorems |
| `LogJedi`, `LogJedi_proofs` | the system: `Remediation` and `LLMClient` composed; theorems |
| `MCLogJedi` | two operators for TLC |
| `ReportStore` | the LLM service's handlers and tasks, and the operator as its client |
| `ReportLedger` | what the report store promises: the abstract specification |
| `ReportStore_proofs` | theorems about it |
| `MCReportStore` | small instance for TLC |
| `PatchFilter` | `FilterPatch`, and what filtered patches do to a workload |
| `PatchFilter_proofs` | theorems about it |
| `MCPatchFilter` | patches of many shapes for TLC |
| `FailureDetector` | the predicates, and how Kubernetes moves the status they read |
| `Evidence` | what is gathered about a failing workload |
| `Evidence_proofs` | theorems about whose lines are shown, and about how many |
| `Lists`, `Lists_proofs` | the elements a loop keeps of a list, in their order; lemmas about them and about induction |
| `Documents`, `Redaction` | JSON values; what `redactMap` does to an object of a spec |
| `Request`, `Request_proofs` | the walk of `redactMap`, and the request as it is sent; theorems |
| `MCEvidence` | workloads, configurations and specs for TLC |

They compose as follows: `WorkloadController` implements `Remediation`; `LogJedi`
is made of processes that are a `Remediation` each and ask through `LLMClient`;
`Request` adds `Redaction` to `Evidence`, which reads the status of
`FailureDetector`. `ReportStore` implements `ReportLedger`. It and `PatchFilter` stand
alone: they are the two ends of what `WorkloadController` sends, and see the operator as
their client.

### WorkloadController

`cluster` is the API server's truth, `cache` the informer's copy, `events` the
workloads whose latest change is not delivered yet (the watch merges changes).
A workload's status is `failing` when `IsPodFailed`, `IsDeploymentFailed` or
`IsJobFailed` would say so. The queue is `ready`, `backoff` and `delayed`: the
work queue of controller-runtime (v0.23) holds a key once, `Add` overrides a
wait, a delayed add never postpones a ready key, and a key being processed may be
added again and is handed out after the worker is done. The order among ready
keys is left open. `cool` is the cooldown cache as time left instead of time of
the last analysis: `elapsed < cooldown` is `cool > 0`, and `RequeueAfter` is what
is left. `config` is read at every start (`Load`), so a restart may change the
mode, the scopes, the cooldown and the notifiers.

The worker: `Ignore`, `SkipCooldown` and `BeginAnalysis` are the ways `Reconcile`
goes up to the call of the LLM. They read the cache in one step: the handler
works on the copy it got. What `reconcilePod`, `reconcileDeployment` and
`reconcileJob` do differently before the call (which pods they list, which logs
they read) changes no state; that one of these calls fails is part of
`AnalysisFails`. From `Analyzed` on, each remote call of `applyOrNotify` is a
step: `GetTarget`, `DryRun`, `PatchTarget` (whose reply may be lost),
`ReportOutcome`, `SendIssue` for each notifier, `LogCommand`. The trail records
what was done about the answer. A patch may or may not change the workload, and
so may or may not cause an event. `owed` and `since` are history variables: the
failures delivered and not yet taken up, and the time since this process last
had an analysis of a workload.

`Operator` maps it to `Remediation`: `Stage` and `Outcome` summarise `pc` and `trail`,
and `cool` is what `Remediation` calls `rest`. Queue, cache, watches and scopes
have no counterpart there, so most steps are stutters.

A second process is in `LogJedi`, the contents of requests are in `Evidence`. Not in
the model: errors of cache reads other than absence.

### Remediation, LLMClient and LogJedi

`Remediation` has, for each process, the workload in hand and a stage (idle, asking,
acting), and says when a process may ask, when its cooldown starts, that a patch is applied at most
once and only before the answer is announced, and that an answer is announced at most once.
To announce what was patched is allowed, as `RUNBOOK.md` has it; the code never does
(`AutomaticIsAnnounced`).

`LLMClient` is the loop of `Client.Analyze`. Each process has one call, whose `pc` is
the place in the loop: `loop` (the test of the attempt), `backoff` (the `select` on the
timer and the context), `send`, `await`, and the two results. `LLM_CLIENT_MAX_RETRIES`
may be any integer: below 0 the loop is never entered. A timeout of 0 stands for none,
as `http.Client` takes it. A request that is cut off, by its timeout or the context, is
an error like any other while the status is awaited, and is retried; once the body is
being read, the read error is dropped and decoding fails, which ends the call (`CutOff`).
`ClientTime` passes only while every process is idle or waits: what a process computes
takes no time.

`LogJedi` composes both. `Begin`, `TakeAnswer` and `TakeError` are steps of a client and
of its operator at once; `PatchLands` may or may not cure the workload; `Stop` cancels
the context, `Restart` starts a process empty-handed, with any
of its settings and cooldowns. No process sees another, except through `failing`. `quiet` and
`author` are history variables: what is left of the cooldown since the last answer
about a workload, whoever got it, and which process that was, unless it was
restarted since.

### ReportStore

`phase` and `target` say where each analysis and its background task are;
appending, comparing the length and popping are separate steps, as they are for
threads that can be switched between any two list operations. `scan` is the loop
of `report_outcome`: one index per step, the list read afresh each time. It runs
on the event loop, so no other handler answers during a scan (`Respond` needs
`scan.req = Nobody`), while tasks go on. The operator is reduced to what the
service sees of it: one analysis at a time, asked again after a timeout while
the old request goes on, a patch, an outcome whose reply may be lost. `Quoting`
are analyses whose own text contains the words the scan looks for.

A workload has a kind and a name. An outcome is about the target of the patch, and the
operator compares the target's namespace and name with those analysed, not its kind: `Apply`
may patch any workload of the name, `applied` records which, and the scan looks for a report of
that one (`WantsStep`). So the step of a Pod's analysis may be on a report about a
Deployment, or on none. `Malformed` are analyses whose answer may bring a patch of
unexpected shape: describing it for the report may raise an error, which `_store_analysis`
logs after the analysis was stored, and no report is (`DropReport`). The third
list, `_log_buffer`, has the same discipline and is never read.

`ReportLedger` is what all of this is for: a list of reports, oldest first, that gets a
report once at most and forgets its oldest ones, never far below its cap; and outcomes, each
recorded once at most, on a report of the workload it names that has no step yet and is the
newest of those it had to choose from or came later. `Ledger` maps the store to it: `kept` is `_reports`, `open` the analyses whose
task has yet to append its report (an error of the task is `Withhold`), `taken` the outcome that is being scanned for, with the
reports that fitted when it began and whether the next index is out of range (`torn`).
Threads, phases, the list `_analyses` and the index have no counterpart there: appends and
pops of the other list, answers to the operator and the steps of a scan are stutters, and the last
step of a scan is the whole outcome.

### PatchFilter

A patch is a JSON value: an object, a list, null or an atom. There is one operator
for each function of `internal/patch/apply.go`; what is not of the expected type
becomes null, as in the code. The state is a workload at the API server and the
answer being applied: `Answer` brings any of `Patches`, `Apply` sends it filtered,
and the API server merges it (`Merge`: containers by name, null removes a field,
`$patch` deletes a container, keys it does not know are ignored) or refuses it
(`Accepted`: wrong types, no name, no image). The dry run sends the same body and
is not a step of its own. The API server is external, and more permissive here than
it is for Pods and Jobs, whose templates are largely immutable. Lists inside a
container (`env`) count as one value, so the merge of single variables is left out.
A patch may give a container twice: the later item decides each field it has, and an item
that deletes takes away only what the workload had before the patch. `PatchesAssumption`
says what decoding JSON makes sure of: an object has a value under each of its keys, and
the elements of a list are numbered.

### FailureDetector, Evidence and Request

`status` is the status in the API server. Kubernetes, which is external, moves it at any
time: containers start, crash, back off, fail to pull; a Deployment's conditions come
and go; what failed of a Job is never forgotten. `Evidence` reads it once, in `Detect`,
and then gathers in the order of the code: events, the list of Pods (whose
failure ends the analysis, as does one of redaction, `RedactFails`), for each Pod its recent and then its historical lines, nodes,
and the cut of the recent lines. `phase` is the place in this sequence. A log is a
sequence of lines, each of a Pod, of headers that name a Pod and of notices of how many
lines were dropped. A call for recent logs may come to any number of lines, since a
stream that breaks is taken for its end; a call for historical logs comes to no
answer at all or to a number of lines, and text has one line even when it is empty. Of
events the model keeps whether they are of the workload itself, of nodes their name.
`Prompt` is how much of it the service shows to the LLM.

`Redaction` says what one call of `redactMap` does. As in Go, a decoded object is a map of its
own that others refer to, and is changed where it is: a spec is a function from objects to
their fields. `RedactObject` masks what the call masks itself, in the object and in its containers and
volumes; `Called` are the objects it goes on with. `Request` is the walk: `doc` is the copy
`RedactSpec` makes, `todo` the objects that `redactMap` is called for. Go goes through the
fields of a map in no particular order, so any call may be next. A call is one step although
the code descends in the middle of it: calls for different objects of a tree write to
different places. The placeholder for pull secrets is written out, for nobody goes into it or changes it. The walk
is put before the request is sent; for a Pod the code redacts a little earlier, and no other
call sees the difference. What redaction does is said of all objects of the spec at once,
without the walk: `PlacesMasked`, `OthersKept` and `SameAgain`.

The places are those `redactMap` knows: variables of containers and init containers, the
name of a secret volume, pull secrets. Variables of ephemeral containers and the
names of secrets in `envFrom` and in projected volumes are outside of `PlacesMasked`; `OthersKept`
says that they are sent as they are. `docs/security.md` promises more: its words are
`NoSecretLeaves`, which the code does not satisfy.

`IsSpec` is what a spec is: every object is somewhere below `Root`, and the lists of a pod spec
are where the Kubernetes types have them. In particular there are none in a container or
in a pull secret, which the walk does not enter (`IsInner`), and a secret's name is no
object that a mask could hide. The specs come from typed Go values, so this holds of each;
for a JSON tree of any shape, `PlacesRedacted` would be false. A name contains one of the
secret substrings or it does not; the substrings are data.

## Runs

| Run | Instance | Shows |
|---|---|---|
| `controller_safety` | a Pod and a Deployment under one key, two namespaces, configurations Manual, Auto with dry run and cooldown 2, Auto without cooldown, Auto for another namespace | the safety invariants below, `CooldownHonoured`, and that the controller implements `Remediation` |
| `controller_liveness` | the same two workloads, one configuration with cooldown 1, one namespace and name | `FailureIsTakenUp` |
| `report_store` | 3 analyses of a Pod or a Deployment of one name, lists of 2, 2 threads, analysis 1 quotes the marker, 3 may not be described | the list and scan invariants, that operator steps are earned although a patch may have a target of another kind, and that the service implements `ReportLedger` |
| `patch_filter` | 650 patches, well formed or not, against a Deployment and a Pod | filtered patches change only what they may, and nothing allowed is lost |
| `logjedi` | two operators, one workload, every mixture of the settings below, stopped and restarted at any time | calls are bounded, no operator repeats itself, no worker is held up for ever |
| `evidence` | a Deployment, a Job and two Pods with caps that just fit the prompt or do not exist, and 87 specs | what is gathered, cut and redacted, whichever calls fail and in whichever order a spec is walked |
| `auto_silent` | like `controller_safety`, one configuration of auto mode, and a Job in another namespace | an automatic answer is announced to nobody |
| `shared_name` | like `controller_liveness` | a Pod hides a failing Deployment of its name |
| `report_race` | like `report_store` | an outcome lands on another report |
| `pod_patch` | the same patches against a Pod | an image suggested for a Pod is dropped |
| `reanalysis` | one operator | a restart forgets the cooldowns |
| `redact_gaps` | like `evidence`, the 6 specs with ephemeral containers, `envFrom` and projected secrets | variables of ephemeral containers, and the names of other secrets, are sent |

The last six are expected violations: disagreements between the code
and a document or comment, quoted in `PROJECT.json`. TLC stops at its shortest
counterexample. That of `auto_silent` is a target of another name than was analysed, which
ends silently against AC5 of `docs/requirements.md`; a target that may not be patched, one of another
kind that is patched, and a patch that succeeds break `AutomaticIsAnnounced` as well. That of
`redact_gaps` is a variable of an ephemeral container; `envFrom` and projected secrets break
`NoSecretLeaves` too.

Properties of the controller:

- `NoLostWakeup`: a failure seen and not yet taken up, in a watched namespace and
  not hidden by an earlier kind, always has its key ready, backing off or delayed.
- `RequeueMatchesCooldown`: a delayed key wakes up exactly at the end of the
  cooldown of one of its workloads.
- `PatchInScope`: a patch the API server took was decided in auto mode, for the
  namespace and name analysed, in an allowed namespace, after its dry run.
- `EveryAnalysisConcluded`: an answer that brings a patch in auto mode is not reported
  as applied unless the patch was taken; any other answer was tried on every
  configured notifier, and its command is logged when it brings a patch. Whether an applied
  patch is announced too is another question (`AutomaticIsAnnounced`).
- `CooldownHonoured` (action property): a process leaves a whole cooldown between
  two analyses of one workload.
- `FailureIsTakenUp` (liveness): see fairness.
- `ImplementsRemediation` (refinement): every step of the controller is a step of
  `Remediation` or none.

Properties of the report store:

- `RingBounded`: a list exceeds its cap only by the tasks still trimming it.
- `RecentKept`: two tasks may both pop, so a list may drop entries it has room
  for, but never as many as there are threads.
- `StepsAreEarned`: an operator step belongs to a patch that was applied to the report's
  workload, suggested by an analysis of a workload of that name, of whichever kind, and
  no patch leaves two.
- `ScanMissesNothing`: however the list shifts during a scan, every report that
  was eligible at its start and is still listed lies at or below the next index.
- `ImplementsLedger` (refinement): every step of the service, its tasks and its operator
  is a step of `ReportLedger` or none. In particular an error is answered only
  when a report was forgotten meanwhile, and `not_found` only when none is left.

Properties of the patch filter:

- `OnlyAllowedChanges` (action property): a patch that is taken loses no container
  and neither touches nor brings a field off the list.
- `TemplateKeepsAllowed`: a patch that would be taken unfiltered is taken filtered,
  with the same effect on the fields of the list, for kinds with a pod template.

Properties of client and system:

- `RequestsBounded`: at most `maxRetries + 1` requests in a call, none when it is
  negative, and an answer only to a request that was sent.
- `CallTimeBounded`: with a timeout, a call takes no longer than all its timeouts and
  its capped back-offs. That is how long the worker serves no other key, and how old
  the failure may be that a patch is then applied to.
- `AskedAgainByOthersOnly` (action property): within the cooldown of its last answer a
  workload is asked about only by another process than the one that got it, or after
  that one was restarted. It is what is left of AC7 in `docs/requirements.md`; AC7
  itself is `NotReanalysed`, which `reanalysis` refutes.
- `WorkerReturns` (liveness): a call ends if requests have a timeout or the process is
  stopped. Without a timeout a service that never answers holds the worker for ever.

Properties of the evidence:

- `NothingDroppedInSilence`: with caps that fit into the prompt, every line that was
  gathered is shown or counted in a notice.
- `LinesUnderTheirPod`: no line is read as another Pod's.
- `NodesCovered`: each node of the Pods looked at is shown once, unless the cap is used up.
- `PlacesRedacted`: variables of containers and init containers (their references, and
  their values under a suspicious name), names of secret volumes and pull secrets are masked
  wherever the pod spec is nested, nothing else is lost, changed or added, and to go through
  any object again changes nothing.
- `CrashLoopIsCaught` (liveness): a container that crashes again and again makes its Pod
  failed from some point on, although it looks well between crashes. It assumes
  no fairness: the crashes themselves are the premise.

### Bounds

The model of the controller has no artificial counter: time saturates at the
cooldown and every set is finite, so the runs are exhaustive for their constants.
Two workloads under one key are the smallest instance in which a delay can belong
to one workload and an event to the other, and a cooldown of 2 in which a wait
can be interrupted in its middle. Configurations differ in every scope the code
tests. `MaxRequests = 3` in `ReportStore` lets two tasks fill a list of two past
its cap while a third is being asked for or reported; `MaxMail = 1`
is one outcome under way at a time, which may still be late or lost; two threads are the
smallest pool that interleaves, and `MaxKept = 2` is the smallest cap at which
popping too much differs from emptying the list. Two kinds of one name are what a patch can
confuse; that names are told apart is in the proofs. `FewPatches` bounds `report_store` to behaviours in
which at most two patches are applied, at most one of them to another kind: two outcomes are the
fewest that can contend for a report, and one of another kind is enough to send a step to a report that
is not its own analysis's. The patches of `MCPatchFilter`
have up to two containers, which is what it takes to have one that is known and one
that is new, one that is given twice, or a good one next to one of the wrong type, and every level of the
tree occurs missing, null, of the wrong type and well formed.

In `logjedi` one process has two retries and a timeout of 1, the least with which a
back-off is capped (`MaxBackoff = 1` for the code's 10 seconds), or a negative number of
retries; the other has no retries, with and without a timeout. A cooldown of 1 is
shorter than a call may take, so that cooldowns end while other processes ask. Time in
a call is counted only under a timeout, where there is something to compare it with.
In `evidence`, `PodCap = 3` stands for 5, `PromptRecent = 4` for 200, `PromptHistory = 9`
for 300 and `PromptNodes = 2` for 5: small enough for four Pods of two lines to exceed every
cap, and for configured caps that just fit. `Evidence` has no
other bound: restarts of a container saturate at 3, the threshold. The specs have up to
two containers of up to two variables, init containers, volumes with and without
secrets and pull secrets, under a template and in a list that has a string next to
them while another pod spec is under the template. Ephemeral containers, `envFrom` and projected
secrets have specs of their own. Symmetry is used only for the interchangeable kinds of
the runs of `ReportStore`, which check invariants and a refinement without fairness: both treat
the kinds alike.

### Fairness

`Spec` of `WorkloadController` assumes: the watch delivers (weak, per workload),
time passes (weak), back-offs end (weak, per key), every call of the worker
returns (weak: each has a timeout or an error), a key that becomes ready again
and again is taken in the end (strong, per key: the queue is ordered by arrival
and priority, and every key that is requeued waits first), and a workload that
is sent to the LLM over and over is answered in the end (strong, per workload).
Nothing is assumed about changes in the cluster. `FailureIsTakenUp` is stated
for behaviours in which restarts stop.

`Spec` of `LogJedi` assumes that each process runs and its calls of the API server
return (weak, `Works(p)`), and that time goes on (strong, `Tick`): a tick waits until every
process is idle or waits, which it is again and again, since no process fails and asks
again in no time at all. Nothing is assumed of the service, and nothing
of restarts or stops. `Remediation`, `LLMClient`, `ReportStore`, `ReportLedger`, `Evidence` and
`Request` state no fairness.

## Proofs

`WorkloadController_proofs` proves, for every set of workloads, namespaces and
configurations and every cooldown, from `ResourcesAssumption`,
`ConfigAssumption` and `NoneAssumption`:

| Theorem | States | Argument |
|---|---|---|
| `TypeCorrect` | `[]TypeOK` | inductive |
| `NeverForgets` | `[]NoLostWakeup` | with `OwedFails` (what is owed is failing in the cache): a key is dropped only when the workload it finds is well, and lookups find one workload per key (`FetchesOnce`) |
| `CooldownsAreHonoured` | `CooldownHonoured` | time left plus time passed is at least a cooldown (`CooldownInv`) |
| `DelaysMatchCooldowns` | `[]RequeueMatchesCooldown` | the key the worker holds is not delayed (`RequeueInv`), so a new cooldown disturbs no delay |
| `PatchesStayInScope`, `AnalysesConclude` | `[]PatchInScope`, `[]EveryAnalysisConcluded` | `TrailInv`: what was decided about the answer still holds at every later call |

`ReportStore_proofs` proves, from `BoundsAssumption` and `WorkloadAssumption`, for all kinds
and names and every number of requests,
threads and outcomes under way and every cap:

| Theorem | States | Argument |
|---|---|---|
| `TypeCorrect`, `ListsAreBounded` | `[]TypeOK`, `[]RingBounded` | `CountInv`: a list holds at least the entries of the tasks still trimming it (so a pop finds one) and at most its cap more |
| `RecentAreKept` | `[]RecentKept` | `RecentInv`: tasks about to pop saw the list over its cap, and `ThreadsInv` bounds their number |
| `ScansMissNothing` | `[]ScanMissesNothing` | `ScanInv`: an eligible report was appended before (`ReportsInv`), stays eligible during the scan, and appends and pops leave it at or below the index |
| `EveryStepIsEarned` | `[]StepsAreEarned` | `MailInv` and `CreditInv`: what is under way, being recorded or recorded was applied (`Patched`), to a workload of the analysed name that never changes again (`TargetsStay`), and is in one of these places at a time |
| `StoreImplementsLedger` | `ImplementsLedger` | a lemma for each group of actions names the step of the ledger it is (`LedgerStep` puts them together) |

The refinement rests on the invariants above it (`LedgerStep`): that the list is not too
long when a report is stored is `CountInv` with `ThreadsInv`, that it is not too short when one
is forgotten is `RecentInv`, that an outcome under way was applied is `MailInv`, and that
nothing newer was to choose from when an outcome is recorded, and nothing at all when none
is found, is `ScanInv`. `TearingAnswer` follows what an append or a pop does to the index that is
read next.

`PatchFilter_proofs` proves, for patches of every shape, all kinds and every original
workload, from `PatchesAssumption`:

| Theorem | States | Argument |
|---|---|---|
| `FilterChangesAllowedOnly` | `OnlyAllowedChanges` | the levels of the filter are followed down to a container (`FilteredPatch`, `FilteredItems`, `FilteredContainer`), then the merge keeps what no item names (`MergeKeeps`) |
| `FilterKeepsAllowed` | `[]TemplateKeepsAllowed` | a patch that would be taken has the right type at every level, so the filter makes nothing null and leaves out no container; its list is as long, in the same order (`SelectAll`), and each item has the listed fields it had (`SameAllowed`), so the merge gives each of them the same value (`SameField`) |

`WorkloadController_proofs` also proves `ControllerImplementsRemediation`
(`Spec => ImplementsRemediation`): a lemma for each group of actions names the step of
`Remediation` it is (`RefinesStep` puts them together), with `TrailInv` for the fact that nothing
is patched twice, or patched after it was announced.

`LLMClient_proofs` and `LogJedi_proofs` prove, from `ClientAssumption`,
`CooldownAssumption` and `NobodyAssumption`, for every number of processes and workloads
and all settings:

| Theorem | States | Argument |
|---|---|---|
| `ClientSendsBounded`, `ClientTimeIsBounded` | `[]RequestsBounded`, `[]CallTimeBounded` | `ClientInv` counts, at each place of the loop, the requests sent and the time spent by the number of the attempt; `BackoffAdds` and `BoundAdds` do the sums |
| `SystemSendsBounded`, `SystemTimeIsBounded` | the same of `LogJedi` | every step of the system is a step of its clients (`ClientsStep`), so the invariant carries over |
| `SystemTypeCorrect` | `[]TypeOK` | every step is also a step of its operators (`OperatorsStep`); a call and a stage go together |
| `SystemImplementsItsParts` | `ClientSpec` and `Operator!Spec` | the same two lemmas: joining a step of a client with one of its operator adds no behaviour to either, so what is shown of `LLMClient` and of `Remediation` alone holds in the system |
| `OthersAskAgainOnly` | `AskedAgainByOthersOnly` | `SystemInv`: what its author rests of a workload is what is left of its quiet, and who asks does not rest; only `Send` sends (`OnlySendSends`) |

`Evidence_proofs` proves, for every number of Pods, length of
logs, cap and pattern of failing calls, from `CapAssumption` and `CasesAssumption`:

| Theorem | States | Argument |
|---|---|---|
| `LinesStayUnderTheirPod` | `[]LinesUnderTheirPod` | `GatherInv`: each line of a log gathered so far is read under its own Pod, and the log of a single Pod has no headers; appending a block (`HeadedBlockKeeps`, `PlainBlockKeeps`) and cutting the log (`TruncateKeeps`, `FirstKeeps`) leave it so |
| `EvidenceTypes` | `[]TypeOK` | `TypeInv`: inductive together with `GatherInv` |
| `NothingIsDroppedInSilence` | `[]NothingDroppedInSilence` | `CountInv`, see below |
| `NodesAreCovered` | `[]NodesCovered` | `NodesInv`: the nodes named so far are the first ones of `NodeNames`; the list of first appearances has each node once and all of them (`DistinctNames`), and is cut only at the cap |

`CountInv` is what makes `NothingDroppedInSilence` inductive: that is a statement about the
request as it is sent, and says nothing of a log that is half gathered. Until they are sent,
recent lines hold no notice and are as many as were fetched; cutting them then trades lines
for a notice of the same weight (`TruncatedSum`), and leaves one line more than the cap.
Historical lines are cut Pod by Pod, so they speak of what was fetched at every moment, and
after `p - 1` Pods they take at most `Room(p, cap)` lines: the cap, a header and a notice
each. That is why the property asks for `cap + 2` lines per Pod in the prompt, and `cap + 1`
for recent lines. What a log speaks of is a sum over the log; `ConcatSum` says that
it adds up when logs are put together.

The sums need induction over numbers. `Lists_proofs` has it for sets: `LeastNatural`, from
the well-foundedness of `<`, and `Induction`, that a set which has 0 and with each number
the next one has all of them. What a loop keeps of a list needs none: ranks
grow with the indices (`RankGrows`), so each rank is given once (`RankIsOnto`), and the
elements that `Select` keeps are those at the given indices, each once and in their order
(`Selection`).

`Request_proofs` proves, for every spec and every order of the walk, from
`SpecsAssumption` (which is `IsSpec` of every spec):

| Theorem | States | Argument |
|---|---|---|
| `PlacesAreRedacted` | `[]PlacesRedacted` | `RedactInv`, see below |
| `RequestGathersEvidence` | `RequestSpec => Spec` | a call of `redactMap` changes nothing of the evidence, so the theorems of `Evidence_proofs` hold of `RequestSpec` |

`PlacesRedacted` speaks of the end of a walk. `RedactInv` holds all along it (`WalkInv`):

- every field is as in the workload or is one of those that are masked and is masked (`OthersKept`),
  and the lists, names and references that redaction goes by are as in the workload (`SameShape`);
- there is a set of objects, those gone through, which are masked (`MaskedAt`), and what they call
  for is in the set or in `todo` (`Walked`).

`FieldsRedacted` says what a call does to each field, `MaskedStays` that no later call
brings back what an earlier one has masked, and `CalledStays` that no mask takes an object
away before the walk has come to it. When `todo` is empty, the objects gone through and those inside of
containers and pull secrets are closed under references, so they are all objects there are
(`WalkReachesAll`), and an object that is masked is not changed again (`MaskedIsKept`). No
induction over the depth of the spec is needed: a set that has the root and is closed under
references is all of a spec, which is how `IsSpec` says that it hangs together.

Only model-checked: `FailureIsTakenUp`, `WorkerReturns` and `CrashLoopIsCaught`, for liveness
under fairness is out of the prover's reach. All invariants, action properties and
refinements that the runs check are theorems; the last six runs refute theirs.

## Observations

Met while modelling, and not among the findings of `PROJECT.json`:

- The cap of historical logs holds per Pod for Deployments and Jobs, that of recent logs
  for all Pods together. A log that is cut is one line longer than its cap; with
  `MAX_RECENT_LOG_LINES=200` the notice is line 201, which the prompt leaves out.
- The detector looks at no init or ephemeral container.
- Without configured caps, or with caps above 200 and 300 lines, the prompt leaves out lines and
  says nothing of them: `NothingDroppedInSilence` has caps that fit as its premise.
- A body that cannot be read to its end is taken for an answer that cannot be decoded, and is
  not retried by the client.
- A failing provider is answered with the mock response, whose patch for a
  Deployment is applied in auto mode like any other.

## Not modelled

- The request and response models, the entry points of the service, the health route,
  the manifests and the chart: declarations, wiring and constants. What a number
  of replicas means is in `LogJedi`.
- The payloads and the HTTP of the notifiers: each sends one message and returns an
  error or not, and that is what `SendIssue` does. PagerDuty is never configured.
- The wording of the prompt, its cut of the spec at 4000 characters, and the choice of
  a provider.
- Messages and times of events, conditions and events of nodes, query strings of the
  log backends, and the substrings that make a name suspicious.

## What is left

- `LogJedi` and `ReportLedger` composed, for outcomes of several operators that race for
  one report; each is checked on its own now.
- Liveness of the whole: a failure that some operator sees is answered, if the service
  answers again and again.
