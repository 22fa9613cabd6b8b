------------------------- MODULE WorkloadController -------------------------
(***************************************************************************)
(* The operator: one controller, registered for Pods, Deployments and      *)
(* Jobs, that finds failing workloads, has them analysed by the LLM        *)
(* service and patches them or notifies (operator/controllers).            *)
(*                                                                         *)
(* Watch events reach the informer cache later than the cluster changes    *)
(* and are merged per object.  The work queue holds a key                  *)
(* (namespace/name, no kind) at most once: ready, waiting out a back-off,  *)
(* or waiting out a cooldown.  One worker takes a ready key, reads the     *)
(* cache, and runs the handler, whose remote calls are steps of their own. *)
(* A restart loses everything the process held in memory.                  *)
(***************************************************************************)
EXTENDS Naturals, Sequences

CONSTANTS
    Namespaces,   \* the namespaces of the cluster
    Resources,    \* the workloads that may exist: [kind, ns, name] records
    Names,        \* object names
    Configs,      \* the configurations a process may be started with
    MaxCooldown,  \* the longest configured cooldown, in ticks
    NoPatch,      \* an analysis without a k8s_patch action
    NoResource    \* the worker is between two keys

Kinds == {"Pod", "Deployment", "Job"}

\* Reconcile looks a key up as a Pod first, then a Deployment, then a Job.
LookupRank == [Pod |-> 1, Deployment |-> 2, Job |-> 3]

Keys == [ns : Namespaces, name : Names]
Key(r) == [ns |-> r.ns, name |-> r.name]

\* What an action of the LLM may point at; "Other" is a kind the operator
\* has no patch case for.
Targets == [kind : Kinds \union {"Other"}, ns : Namespaces, name : Names]

Statuses == {"absent", "healthy", "failing"}

\* Slack first, then Teams, each only when its webhook is configured.
NotifierChains == {<<>>, <<"slack">>, <<"teams">>, <<"slack", "teams">>}
Channels == {"slack", "teams"}

ConfigType == [applyMode : {"auto", "manual"}, dryRun : BOOLEAN,
               watch : SUBSET Namespaces, exclude : SUBSET Namespaces,
               autoApply : SUBSET Namespaces, cooldown : 0 .. MaxCooldown,
               notifiers : NotifierChains]

ASSUME ResourcesAssumption ==
    Resources \subseteq [kind : Kinds, ns : Namespaces, name : Names]
ASSUME ConfigAssumption == MaxCooldown \in Nat /\ Configs \subseteq ConfigType
ASSUME NoneAssumption == NoPatch \notin Targets /\ NoResource \notin Resources

VARIABLES
    cluster,  \* status of each workload in the API server
    events,   \* workloads whose latest change the informer has not delivered
    cache,    \* status of each workload in the informer cache
    ready,    \* keys the worker may take
    backoff,  \* keys waiting out the rate limiter after an error
    delayed,  \* ticks a key still waits after RequeueAfter, 0 when it does not
    cool,     \* ticks left of a workload's cooldown, 0 when it may be analysed
    config,   \* configuration of the running process
    pc,       \* the call the worker is about to make
    cur,      \* workload in the worker's hands
    resp,     \* target of the patch the LLM answered with, or NoPatch
    trail,    \* what was done about cur since its analysis
    owed,     \* history: failures seen and not yet taken up for analysis
    since     \* history: ticks since this process last had an analysis

world == <<cluster, events, cache>>
queue == <<ready, backoff, delayed>>
worker == <<pc, cur, resp, trail>>
vars == <<world, queue, cool, config, worker, owed, since>>

PCs == {"idle", "analyze", "get", "dryrun", "patch", "report", "notify", "done"}
Marks == {"dryrun", "patched", "reported", "logged"}

TypeOK ==
    /\ cluster \in [Resources -> Statuses]
    /\ events \subseteq Resources
    /\ cache \in [Resources -> Statuses]
    /\ ready \subseteq Keys
    /\ backoff \subseteq Keys
    /\ delayed \in [Keys -> 0 .. MaxCooldown]
    /\ cool \in [Resources -> 0 .. MaxCooldown]
    /\ config \in Configs
    /\ pc \in PCs
    /\ cur \in Resources \union {NoResource}
    /\ resp \in Targets \union {NoPatch}
    /\ trail \subseteq Channels \union Marks
    /\ owed \subseteq Resources
    /\ since \in [Resources -> 0 .. MaxCooldown]
    /\ pc = "idle" <=> cur = NoResource
    /\ pc \in {"get", "dryrun", "patch", "report"} => resp # NoPatch

-----------------------------------------------------------------------------
(* Configuration *)

NamespaceWatched(ns) ==
    /\ ns \notin config.exclude
    /\ config.watch = {} \/ ns \in config.watch

CanAutoApplyIn(ns) == config.autoApply = {} \/ ns \in config.autoApply

(* The informer cache *)

\* Get on the key finds r: no workload of an earlier kind has the same key.
Fetches(k, r) ==
    /\ Key(r) = k
    /\ cache[r] # "absent"
    /\ \A s \in Resources : Key(s) = k /\ cache[s] # "absent"
                              => LookupRank[r.kind] <= LookupRank[s.kind]

(* The work queue.  Adding a key makes it ready at once, whatever it was   *)
(* waiting for; a delayed add never postpones a key that is ready.         *)

Enqueue(ks) ==
    /\ ready' = ready \union ks
    /\ backoff' = backoff \ ks
    /\ delayed' = [k \in Keys |-> IF k \in ks THEN 0 ELSE delayed[k]]

AddRateLimited(k) ==
    /\ backoff' = IF k \in ready THEN backoff ELSE backoff \union {k}
    /\ UNCHANGED <<ready, delayed>>

Scheduled(k) == k \in ready \/ k \in backoff \/ delayed[k] > 0

(* The cooldown cache, by namespace, kind and name *)

\* Bug: off by one at the end of the cooldown.
ShouldSkipTooShort(r) == cool[r] > 1

ShouldSkip(r) == cool[r] > 0

\* Bug: wait a whole cooldown again instead of what is left of it.
RequeueAfterWhole(r) == config.cooldown

RequeueAfter(r) == cool[r]

SetCooldown(r) == cool' = [cool EXCEPT ![r] = config.cooldown]

-----------------------------------------------------------------------------
(* The process starts: it reads its environment, lists every workload into *)
(* the cache and enqueues each of them; no cooldown is remembered.         *)

Load(c) ==
    /\ config' = c
    /\ cache' = cluster
    /\ events' = {}
    /\ ready' = {Key(r) : r \in {s \in Resources : cluster[s] # "absent"}}
    /\ backoff' = {}
    /\ delayed' = [k \in Keys |-> 0]
    /\ cool' = [r \in Resources |-> 0]
    /\ pc' = "idle" /\ cur' = NoResource /\ resp' = NoPatch /\ trail' = {}
    /\ owed' = {r \in Resources : cluster[r] = "failing"}
    /\ since' = [r \in Resources |-> c.cooldown]

Init ==
    /\ config \in Configs
    /\ cluster \in [Resources -> Statuses]
    /\ cache = cluster
    /\ events = {}
    /\ ready = {Key(r) : r \in {s \in Resources : cluster[s] # "absent"}}
    /\ backoff = {}
    /\ delayed = [k \in Keys |-> 0]
    /\ cool = [r \in Resources |-> 0]
    /\ pc = "idle" /\ cur = NoResource /\ resp = NoPatch /\ trail = {}
    /\ owed = {r \in Resources : cluster[r] = "failing"}
    /\ since = [r \in Resources |-> config.cooldown]

Restart ==
    /\ \E c \in Configs : Load(c)
    /\ UNCHANGED cluster

(* The cluster, outside the operator: a workload is created, deleted,      *)
(* fails, recovers, or is updated with no effect on its health.            *)

Change(r, s) ==
    /\ cluster[r] # "absent" \/ s # "absent"
    /\ cluster' = [cluster EXCEPT ![r] = s]
    /\ events' = events \union {r}
    /\ UNCHANGED <<cache, queue, cool, config, worker, owed, since>>

\* The watch delivers the current state of r; every event enqueues its key.
Deliver(r) ==
    /\ r \in events
    /\ events' = events \ {r}
    /\ cache' = [cache EXCEPT ![r] = cluster[r]]
    /\ Enqueue({Key(r)})
    /\ owed' = IF cluster[r] = "failing" THEN owed \union {r} ELSE owed \ {r}
    /\ UNCHANGED <<cluster, cool, config, worker, since>>

\* The rate limiter's delay of k is over.
BackoffDone(k) ==
    /\ k \in backoff
    /\ Enqueue({k})
    /\ UNCHANGED <<world, cool, config, worker, owed, since>>

\* Bug: no floor.
CountdownBelowZero(n) == n - 1

Countdown(n) == IF n = 0 THEN 0 ELSE n - 1

\* Time passes for every cooldown and every delayed key alike.
Tick ==
    /\ \/ \E r \in Resources : cool[r] > 0 \/ since[r] < config.cooldown
       \/ \E k \in Keys : delayed[k] > 0
    /\ cool' = [r \in Resources |-> Countdown(cool[r])]
    /\ delayed' = [k \in Keys |-> Countdown(delayed[k])]
    /\ ready' = ready \union {k \in Keys : delayed[k] = 1}
    /\ since' = [r \in Resources |-> IF since[r] < config.cooldown
                                       THEN since[r] + 1 ELSE since[r]]
    /\ UNCHANGED <<world, backoff, config, worker, owed>>

-----------------------------------------------------------------------------
(* Reconcile(k), up to the call of the LLM.  Nothing interleaves with the  *)
(* lookups of the cache: the object read is the object analysed.           *)

Take(k) ==
    /\ pc = "idle"
    /\ k \in ready
    /\ ready' = ready \ {k}
    /\ UNCHANGED <<world, config, backoff, resp, trail, since>>

\* The namespace is filtered out, nothing is found, or what is found is well.
Ignore(k) ==
    /\ Take(k)
    /\ NamespaceWatched(k.ns)
         => \A r \in Resources : Fetches(k, r) => cache[r] # "failing"
    /\ UNCHANGED <<delayed, cool, pc, cur, owed>>

Fails(k, r) ==
    /\ NamespaceWatched(k.ns)
    /\ Fetches(k, r)
    /\ cache[r] = "failing"

\* Bug: skip without RequeueAfter.
SkipAndForget(k, r) ==
    /\ Take(k)
    /\ Fails(k, r)
    /\ ShouldSkip(r)
    /\ UNCHANGED <<delayed, cool, pc, cur, owed>>

\* Analysed too recently: come back when the cooldown is over.
SkipCooldown(k, r) ==
    /\ Take(k)
    /\ Fails(k, r)
    /\ ShouldSkip(r)
    /\ delayed' = [delayed EXCEPT ![k] = RequeueAfter(r)]
    /\ UNCHANGED <<cool, pc, cur, owed>>

BeginAnalysis(k, r) ==
    /\ Take(k)
    /\ Fails(k, r)
    /\ ~ShouldSkip(r)
    /\ pc' = "analyze"
    /\ cur' = r
    /\ owed' = owed \ {r}
    /\ UNCHANGED <<delayed, cool>>

Start(k) ==
    \/ Ignore(k)
    \/ \E r \in Resources : SkipCooldown(k, r) \/ BeginAnalysis(k, r)

Return == pc' = "idle" /\ cur' = NoResource /\ resp' = NoPatch /\ trail' = {}

\* Bug: the error is logged and swallowed, so the queue forgets the key.
AnalysisDropped ==
    /\ pc = "analyze"
    /\ Return
    /\ owed' = IF cache[cur] = "failing" THEN owed \union {cur} ELSE owed
    /\ UNCHANGED <<world, queue, cool, config, since>>

\* Listing the pods, redacting the spec or the call itself fails.  Neither
\* the cooldown is set nor anybody told; the queue retries the key.
AnalysisFails ==
    /\ pc = "analyze"
    /\ Return
    /\ AddRateLimited(Key(cur))
    /\ owed' = IF cache[cur] = "failing" THEN owed \union {cur} ELSE owed
    /\ UNCHANGED <<world, cool, config, since>>

\* Bug: the allow list of namespaces is not consulted.
InScopeAnywhere(t) == t.ns = cur.ns /\ t.name = cur.name

InScope(t) == t.ns = cur.ns /\ t.name = cur.name /\ CanAutoApplyIn(t.ns)

AutoApply(a) == config.applyMode = "auto" /\ a # NoPatch

\* Where applyOrNotify goes with the answer: a patch that is out of scope, or
\* for a kind it does not know, is dropped.
Route(a) ==
    IF ~AutoApply(a) THEN "notify"
    ELSE IF InScope(a) /\ a.kind \in Kinds THEN "get"
    ELSE "done"

Analyzed(a) ==
    /\ pc = "analyze"
    /\ SetCooldown(cur)
    /\ resp' = a
    /\ pc' = Route(a)
    /\ since' = [since EXCEPT ![cur] = 0]
    /\ UNCHANGED <<world, queue, config, cur, trail, owed>>

-----------------------------------------------------------------------------
(* applyOrNotify, the automatic branch *)

Act(next, marks) ==
    /\ pc' = next
    /\ trail' = trail \union marks
    /\ UNCHANGED <<cache, queue, cool, config, cur, resp, owed, since>>

Cached(t) == t \in Resources /\ cache[t] # "absent"
Exists(t) == t \in Resources /\ cluster[t] # "absent"

GetTarget ==
    /\ pc = "get"
    /\ Act(IF ~Cached(resp) THEN "done"
           ELSE IF config.dryRun THEN "dryrun" ELSE "patch", {})
    /\ UNCHANGED <<cluster, events>>

DryRun ==
    /\ pc = "dryrun"
    /\ \/ Exists(resp) /\ Act("patch", {"dryrun"})
       \/ Act("done", {})
    /\ UNCHANGED <<cluster, events>>

\* The patch carries no resourceVersion: it lands on whatever bears the name
\* by now.  It touches the workload unless it changes nothing; when the reply
\* is lost, the operator takes it for an error.
PatchTarget ==
    /\ pc = "patch"
    /\ \/ /\ Exists(resp)
          /\ \E next \in {"report", "done"} : Act(next, {"patched"})
          /\ events' \in {events, events \union {resp}}
       \/ /\ Act("done", {})
          /\ UNCHANGED events
    /\ UNCHANGED cluster

\* One attempt; its result is ignored.
ReportOutcome ==
    /\ pc = "report"
    /\ Act("done", {"reported"})
    /\ UNCHANGED <<cluster, events>>

(* applyOrNotify, the manual branch *)

\* Bug: the first failure ends the chain.
SendIssueOrStop(i) ==
    /\ pc = "notify"
    /\ i \in DOMAIN config.notifiers
    /\ config.notifiers[i] \notin trail
    /\ \A j \in 1 .. (i - 1) : config.notifiers[j] \in trail
    /\ \E next \in {"notify", "done"} : Act(next, {config.notifiers[i]})
    /\ UNCHANGED <<cluster, events>>

\* The next notifier of the chain is tried; a failure is only logged.
SendIssue(i) ==
    /\ pc = "notify"
    /\ i \in DOMAIN config.notifiers
    /\ config.notifiers[i] \notin trail
    /\ \A j \in 1 .. (i - 1) : config.notifiers[j] \in trail
    /\ Act("notify", {config.notifiers[i]})
    /\ UNCHANGED <<cluster, events>>

LogCommand ==
    /\ pc = "notify"
    /\ \A i \in DOMAIN config.notifiers : config.notifiers[i] \in trail
    /\ Act("done", IF resp = NoPatch THEN {} ELSE {"logged"})
    /\ UNCHANGED <<cluster, events>>

\* Reconcile returns Result{}, nil: nothing is scheduled for the workload.
Finish ==
    /\ pc = "done"
    /\ Return
    /\ UNCHANGED <<world, queue, cool, config, owed, since>>

Apply == GetTarget \/ DryRun \/ PatchTarget \/ ReportOutcome
Notify == LogCommand \/ \E i \in 1 .. 2 : SendIssue(i)
Answer == \E a \in Targets \union {NoPatch} : Analyzed(a)

Next ==
    \/ Restart
    \/ Tick
    \/ \E r \in Resources : Deliver(r) \/ \E s \in Statuses : Change(r, s)
    \/ \E k \in Keys : BackoffDone(k) \/ Start(k)
    \/ AnalysisFails
    \/ Answer
    \/ Apply
    \/ Notify
    \/ Finish

-----------------------------------------------------------------------------
(* Fairness.  The watch delivers, time passes, delays end, every call of   *)
(* the worker returns (each has a timeout), a key that keeps becoming      *)
(* ready is taken in the end, and a workload that is sent to the LLM over  *)
(* and over is answered in the end.  Nothing is assumed of the cluster.    *)

Fairness ==
    /\ WF_vars(Tick)
    /\ \A r \in Resources : WF_vars(Deliver(r))
    /\ \A k \in Keys : WF_vars(BackoffDone(k)) /\ SF_vars(Start(k))
    /\ WF_vars(AnalysisFails \/ Answer \/ Apply \/ Notify \/ Finish)
    /\ \A r \in Resources : SF_vars(cur = r /\ Answer)

Spec == Init /\ [][Next]_vars /\ Fairness

-----------------------------------------------------------------------------
(* Properties *)

\* A failure the operator has seen and not yet taken up is never forgotten:
\* unless another kind of workload hides it, its key is ready, backing off or
\* delayed.  Events, errors, cooldowns, restarts and the worker all move keys.
NoLostWakeup ==
    \A r \in owed : NamespaceWatched(r.ns) /\ Fetches(Key(r), r)
                      => Scheduled(Key(r))

\* A key delayed by RequeueAfter wakes up exactly when the cooldown of one of
\* its workloads ends: never early (a wasted lookup) and never late (RUNBOOK:
\* "the operator skips until ANALYZE_COOLDOWN_MINUTES has passed").
RequeueMatchesCooldown ==
    \A k \in Keys : delayed[k] > 0
        => \E r \in Resources : Key(r) = k /\ cool[r] = delayed[k]

\* Whatever changed while the LLM answered and the target was fetched, a patch
\* that reached the API server was sent in auto mode, for the namespace and
\* name that were analysed, in a watched namespace that allows auto-apply,
\* and after a dry run when one is configured.
PatchInScope ==
    "patched" \in trail =>
        /\ config.applyMode = "auto"
        /\ Key(resp) = Key(cur)
        /\ NamespaceWatched(cur.ns) /\ CanAutoApplyIn(cur.ns)
        /\ config.dryRun => "dryrun" \in trail

Configured == {config.notifiers[i] : i \in DOMAIN config.notifiers}

\* How an answer may end.  An automatic one is reported as applied only if the
\* API server took the patch, whatever replies were lost; any other one
\* patches nothing and is announced once on every channel even when one fails,
\* with the kubectl command when there is a patch.  Who
\* should hear of an automatic one is the matter of AutomaticIsAnnounced.
EveryAnalysisConcluded ==
    pc = "done" =>
      IF AutoApply(resp)
        THEN "reported" \in trail => "patched" \in trail
        ELSE trail = Configured \union (IF resp = NoPatch THEN {} ELSE {"logged"})

\* One process never asks the LLM about a workload twice within a cooldown.
CooldownHonoured ==
    [][\A r \in Resources : pc = "idle" /\ pc' = "analyze" /\ cur' = r
          => since[r] >= config.cooldown]_vars

\* Restarts do not go on for ever.
FewRestarts == <>[][~Restart]_vars

Hidden(r) == ~NamespaceWatched(r.ns) \/ ~Fetches(Key(r), r)

\* Every failure the operator sees is taken up, or goes away, or is hidden,
\* whatever errors and cooldowns come first and however often the cluster
\* changes.
FailureIsTakenUp ==
    FewRestarts => \A r \in Resources : r \in owed ~> r \notin owed \/ Hidden(r)

(* What the process promises, for LogJedi to rely on *)

Proc == "operator"

Stage ==
    IF pc = "idle" THEN "idle" ELSE IF pc = "analyze" THEN "asking" ELSE "acting"

Outcome ==
    {o \in {"patched", "announced"} :
        IF o = "patched" THEN "patched" \in trail
        ELSE trail \intersect (Channels \union {"logged"}) # {}}

Operator == INSTANCE Remediation WITH
    Procs <- {Proc},
    cooldown <- [p \in {Proc} |-> config.cooldown],
    hand <- [p \in {Proc} |-> cur],
    stage <- [p \in {Proc} |-> Stage],
    rest <- [p \in {Proc} |-> cool],
    outcome <- [p \in {Proc} |-> Outcome]

\* However the queue, the cache and the watches move, the process asks about
\* one workload at a time and only out of its cooldown, starts the cooldown
\* with the answer, and patches once at most, never what it has announced.
ImplementsRemediation == Operator!Spec

(* What the documents say and the code does not do *)

\* The scope of docs/adr/0002: "Apply only when the patch target (kind,
\* namespace, name) matches the resource that was analyzed", where it may.
InDocumentedScope(t) == t = cur /\ CanAutoApplyIn(cur.ns)

\* docs/requirements.md, AC5: "If APPLY_MODE=auto and patch is in allowed scope,
\* operator applies patch; otherwise notifies"; and RUNBOOK.md: notifications are
\* sent in auto mode too, "after applying (if notifiers are configured)".  So an
\* automatic answer is announced when its target is another than what was
\* analysed or not to be patched, and when it was applied.
AutomaticIsAnnounced ==
    pc = "done" /\ AutoApply(resp) /\ ("patched" \in trail \/ ~InDocumentedScope(resp))
        => Configured \subseteq trail

\* "same name can exist for different kinds": each failure in a watched
\* namespace is taken up or goes away.
EveryKindIsTakenUp ==
    FewRestarts => \A r \in Resources :
        r \in owed ~> r \notin owed \/ ~NamespaceWatched(r.ns)

=============================================================================
