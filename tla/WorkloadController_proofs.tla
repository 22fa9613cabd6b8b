---------------------- MODULE WorkloadController_proofs ----------------------
(***************************************************************************)
(* Proofs about the operator, for every set of workloads and namespaces,   *)
(* every set of configurations and every cooldown.                         *)
(***************************************************************************)
EXTENDS WorkloadController, TLAPS

-----------------------------------------------------------------------------
(* Lemmas about the operators of the model *)

\* The key of a workload is a key of the queue.
LEMMA KeyType == ASSUME NEW r \in Resources PROVE Key(r) \in Keys
  BY ResourcesAssumption DEF Key, Keys

\* A lookup finds at most one workload: two workloads under one key differ in
\* kind, and the kinds are looked up in a fixed order.
LEMMA FetchesOnce ==
    ASSUME NEW k, NEW r \in Resources, NEW s \in Resources,
           Fetches(k, r), Fetches(k, s)
    PROVE  r = s
<1>1. LookupRank[r.kind] = LookupRank[s.kind]
  <2>1. r.kind \in Kinds /\ s.kind \in Kinds
    BY ResourcesAssumption
  <2>. QED BY <2>1 DEF Fetches, LookupRank, Kinds
<1>2. r.kind = s.kind
  BY <1>1, ResourcesAssumption DEF Kinds, LookupRank
<1>3. r.ns = s.ns /\ r.name = s.name
  BY DEF Fetches, Key
<1>. QED BY <1>2, <1>3, ResourcesAssumption

\* The configuration in force has the type the code gives it.
LEMMA ConfigTyped == ASSUME TypeOK
                     PROVE  config \in ConfigType /\ config.cooldown \in 0 .. MaxCooldown
  BY ConfigAssumption DEF TypeOK, ConfigType

-----------------------------------------------------------------------------
(* Type correctness *)

LEMMA TypeInit == Init => TypeOK
<1>. SUFFICES ASSUME Init PROVE TypeOK
  OBVIOUS
<1>1. config \in ConfigType /\ config.cooldown \in 0 .. MaxCooldown /\ 0 \in 0 .. MaxCooldown
  BY ConfigAssumption DEF Init, ConfigType
<1>2. ready \subseteq Keys
  BY KeyType DEF Init
<1>. QED BY <1>1, <1>2 DEF Init, TypeOK, Statuses, PCs

LEMMA TypeStep == TypeOK /\ [Next]_vars => TypeOK'
<1>. SUFFICES ASSUME TypeOK, [Next]_vars PROVE TypeOK'
  OBVIOUS
<1>. USE DEF TypeOK, vars, world, queue, worker
<1>c. config \in ConfigType /\ config.cooldown \in 0 .. MaxCooldown /\ MaxCooldown \in Nat
  BY ConfigTyped, ConfigAssumption
<1>1. CASE Restart
  <2>1. PICK c \in Configs : Load(c)
    BY <1>1 DEF Restart
  <2>2. c.cooldown \in 0 .. MaxCooldown /\ 0 \in 0 .. MaxCooldown
    BY ConfigAssumption DEF ConfigType
  <2>3. ready' \subseteq Keys
    BY <2>1, KeyType DEF Load
  <2>. QED BY <1>1, <2>1, <2>2, <2>3 DEF Load, Restart, PCs
<1>2. CASE Tick
  <2>1. \A n \in 0 .. MaxCooldown : Countdown(n) \in 0 .. MaxCooldown
    BY <1>c DEF Countdown
  <2>2. cool' \in [Resources -> 0 .. MaxCooldown] /\ delayed' \in [Keys -> 0 .. MaxCooldown]
    BY <1>2, <2>1 DEF Tick
  <2>3. since' \in [Resources -> 0 .. MaxCooldown]
    BY <1>2, <1>c DEF Tick
  <2>. QED BY <1>2, <2>2, <2>3 DEF Tick
<1>3. ASSUME NEW r \in Resources, Deliver(r) PROVE TypeOK'
  <2>1. Key(r) \in Keys
    BY KeyType
  <2>. QED BY <1>3, <1>c, <2>1 DEF Deliver, Enqueue
<1>4. ASSUME NEW r \in Resources, NEW s \in Statuses, Change(r, s) PROVE TypeOK'
  BY <1>4 DEF Change
<1>5. ASSUME NEW k \in Keys, BackoffDone(k) PROVE TypeOK'
  BY <1>5, <1>c DEF BackoffDone, Enqueue
<1>6. ASSUME NEW k \in Keys, Start(k) PROVE TypeOK'
  <2>1. CASE Ignore(k)
    BY <2>1 DEF Ignore, Take
  <2>2. ASSUME NEW r \in Resources, SkipCooldown(k, r) PROVE TypeOK'
    BY <2>2 DEF SkipCooldown, Take, RequeueAfter
  <2>3. ASSUME NEW r \in Resources, BeginAnalysis(k, r) PROVE TypeOK'
    BY <2>3, NoneAssumption DEF BeginAnalysis, Take, PCs
  <2>. QED BY <1>6, <2>1, <2>2, <2>3 DEF Start
<1>7. CASE AnalysisFails
  <2>1. cur \in Resources /\ Key(cur) \in Keys
    BY <1>7, KeyType DEF AnalysisFails
  <2>. QED BY <1>7, <2>1 DEF AnalysisFails, Return, AddRateLimited, PCs
<1>8. ASSUME NEW a \in Targets \union {NoPatch}, Analyzed(a) PROVE TypeOK'
  <2>1. pc' \in PCs \ {"idle"} /\ (pc' = "get" => a # NoPatch)
    BY <1>8 DEF Analyzed, Route, AutoApply, PCs
  <2>2. pc' \notin {"dryrun", "patch", "report"}
    BY <1>8 DEF Analyzed, Route
  <2>3. 0 \in 0 .. MaxCooldown
    BY <1>c
  <2>. QED BY <1>8, <1>c, <2>1, <2>2, <2>3 DEF Analyzed, SetCooldown
<1>9. CASE Apply
  <2>1. CASE GetTarget
    BY <2>1 DEF GetTarget, Act, PCs
  <2>2. CASE DryRun
    BY <2>2 DEF DryRun, Act, PCs, Marks
  <2>3. CASE PatchTarget
    BY <2>3 DEF PatchTarget, Act, PCs, Marks, Exists
  <2>4. CASE ReportOutcome
    BY <2>4 DEF ReportOutcome, Act, PCs, Marks
  <2>. QED BY <1>9, <2>1, <2>2, <2>3, <2>4 DEF Apply
<1>10. CASE Notify
  <2>1. ASSUME NEW i \in 1 .. 2, SendIssue(i) PROVE TypeOK'
    <3>1. config.notifiers[i] \in Channels
      BY <2>1, <1>c DEF SendIssue, ConfigType, NotifierChains, Channels
    <3>. QED BY <2>1, <3>1 DEF SendIssue, Act, PCs
  <2>2. CASE LogCommand
    BY <2>2 DEF LogCommand, Act, PCs, Marks
  <2>. QED BY <1>10, <2>1, <2>2 DEF Notify
<1>11. CASE Finish
  BY <1>11 DEF Finish, Return, PCs
<1>12. CASE UNCHANGED vars
  BY <1>12
<1>. QED BY <1>1, <1>2, <1>3, <1>4, <1>5, <1>6, <1>7, <1>8, <1>9, <1>10, <1>11, <1>12
         DEF Next, Answer

\* Every variable of the operator keeps its type.
THEOREM TypeCorrect == Spec => []TypeOK
  BY TypeInit, TypeStep, PTL DEF Spec

-----------------------------------------------------------------------------
(* No lost wake-up.  NoLostWakeup alone is not inductive: a key is dropped  *)
(* (Ignore) when the workload it finds is well in the cache, so what is     *)
(* owed must be failing in the cache.                                       *)

OwedFails == \A r \in owed : cache[r] = "failing"

WakeupInv == OwedFails /\ NoLostWakeup

LEMMA WakeupInit == Init => WakeupInv
  BY DEF Init, WakeupInv, OwedFails, NoLostWakeup, Scheduled, Fetches

\* A step that leaves the cache, the queue, the configuration and the debts
\* alone keeps the invariant.
LEMMA WakeupQuiet ==
    ASSUME WakeupInv, UNCHANGED <<cache, queue, config, owed>>
    PROVE  WakeupInv'
  BY DEF WakeupInv, OwedFails, NoLostWakeup, Scheduled, Fetches, NamespaceWatched, queue

\* Enqueueing keys forgets no key.
LEMMA EnqueueSchedules ==
    ASSUME TypeOK, NEW ks \in SUBSET Keys, Enqueue(ks), NEW k \in Keys,
           Scheduled(k) \/ k \in ks
    PROVE  Scheduled(k)'
  BY DEF TypeOK, Enqueue, Scheduled

\* The worker takes up one key; the debts under every other key stay scheduled.
LEMMA TakeKeepsOthers ==
    ASSUME WakeupInv, NEW k \in Keys, Take(k), owed' \subseteq owed,
           \A j \in Keys \ {k} : delayed'[j] = delayed[j],
           \A r \in owed' : NamespaceWatched(r.ns) /\ Fetches(k, r) => Scheduled(k)',
           owed \subseteq Resources
    PROVE  WakeupInv'
<1>1. OwedFails'
  BY DEF WakeupInv, OwedFails, Take, world
<1>2. ASSUME NEW r \in owed', NamespaceWatched(r.ns)', Fetches(Key(r), r)'
      PROVE  Scheduled(Key(r))'
  <2>1. NamespaceWatched(r.ns) /\ Fetches(Key(r), r) /\ Key(r) \in Keys
    BY <1>2, KeyType DEF Take, NamespaceWatched, Fetches, world
  <2>2. CASE Key(r) = k
    BY <2>1, <2>2
  <2>3. CASE Key(r) # k
    BY <2>1, <2>3 DEF WakeupInv, NoLostWakeup, Scheduled, Take
  <2>. QED BY <2>2, <2>3
<1>3. NoLostWakeup'
  BY <1>2 DEF NoLostWakeup
<1>. QED BY <1>1, <1>3 DEF WakeupInv

LEMMA WakeupStep == TypeOK /\ WakeupInv /\ [Next]_vars => WakeupInv'
<1>. SUFFICES ASSUME TypeOK, WakeupInv, [Next]_vars PROVE WakeupInv'
  OBVIOUS
<1>t. /\ owed \subseteq Resources /\ config.cooldown \in 0 .. MaxCooldown
      /\ MaxCooldown \in Nat /\ delayed \in [Keys -> 0 .. MaxCooldown]
      /\ cool \in [Resources -> 0 .. MaxCooldown]
  BY ConfigTyped, ConfigAssumption DEF TypeOK
<1>1. CASE Restart
  <2>1. PICK c \in Configs : Load(c)
    BY <1>1 DEF Restart
  <2>. QED BY <2>1, <1>1 DEF Load, Restart, WakeupInv, OwedFails, NoLostWakeup, Scheduled
<1>2. CASE Tick
  <2>1. ASSUME NEW k \in Keys, Scheduled(k) PROVE Scheduled(k)'
    BY <1>2, <2>1, <1>t DEF Tick, Countdown, Scheduled
  <2>2. OwedFails'
    BY <1>2 DEF Tick, WakeupInv, OwedFails, world
  <2>3. NoLostWakeup'
    BY <1>2, <2>1, <1>t, KeyType
       DEF Tick, WakeupInv, NoLostWakeup, Fetches, NamespaceWatched, world
  <2>. QED BY <2>2, <2>3 DEF WakeupInv
<1>3. ASSUME NEW d \in Resources, Deliver(d) PROVE WakeupInv'
  <2>1. OwedFails'
    BY <1>3, <1>t DEF Deliver, WakeupInv, OwedFails, TypeOK
  <2>2. ASSUME NEW r \in owed', NamespaceWatched(r.ns)', Fetches(Key(r), r)'
        PROVE  Scheduled(Key(r))'
    <3>1. {Key(d)} \in SUBSET Keys /\ Key(r) \in Keys
      BY <1>3, <1>t, KeyType DEF Deliver
    <3>2. CASE Key(r) = Key(d)
      BY <1>3, <3>1, <3>2, EnqueueSchedules DEF Deliver
    <3>3. CASE Key(r) # Key(d)
      <4>1. r \in owed /\ r # d
        BY <1>3, <3>3 DEF Deliver
      <4>2. NamespaceWatched(r.ns)
        BY <1>3, <2>2 DEF Deliver, NamespaceWatched
      <4>3. Fetches(Key(r), r)
        BY <1>3, <2>2, <3>3, <4>1, <1>t DEF Deliver, Fetches, TypeOK
      <4>4. Scheduled(Key(r))
        BY <4>1, <4>2, <4>3 DEF WakeupInv, NoLostWakeup
      <4>. QED BY <1>3, <3>1, <4>4, EnqueueSchedules DEF Deliver
    <3>. QED BY <3>2, <3>3
  <2>3. NoLostWakeup'
    BY <2>2 DEF NoLostWakeup
  <2>. QED BY <2>1, <2>3 DEF WakeupInv
<1>4. ASSUME NEW r \in Resources, NEW s \in Statuses, Change(r, s) PROVE WakeupInv'
  BY <1>4, WakeupQuiet DEF Change
<1>5. ASSUME NEW k \in Keys, BackoffDone(k) PROVE WakeupInv'
  <2>1. ASSUME NEW j \in Keys, Scheduled(j) PROVE Scheduled(j)'
    BY <1>5, <2>1, EnqueueSchedules DEF BackoffDone
  <2>2. OwedFails'
    BY <1>5 DEF BackoffDone, WakeupInv, OwedFails, world
  <2>3. NoLostWakeup'
    BY <1>5, <2>1, <1>t, KeyType
       DEF BackoffDone, WakeupInv, NoLostWakeup, Fetches, NamespaceWatched, world
  <2>. QED BY <2>2, <2>3 DEF WakeupInv
<1>6. ASSUME NEW k \in Keys, Start(k) PROVE WakeupInv'
  <2>1. CASE Ignore(k)
    <3>1. \A r \in owed : ~(NamespaceWatched(r.ns) /\ Fetches(k, r))
      BY <2>1, <1>t DEF Ignore, WakeupInv, OwedFails, Fetches, Key
    <3>. QED BY <2>1, <3>1, <1>t, TakeKeepsOthers DEF Ignore
  <2>2. ASSUME NEW r \in Resources, SkipCooldown(k, r) PROVE WakeupInv'
    <3>1. Scheduled(k)'
      BY <2>2, <1>t DEF SkipCooldown, ShouldSkip, RequeueAfter, Scheduled
    <3>2. \A j \in Keys \ {k} : delayed'[j] = delayed[j]
      BY <2>2, <1>t DEF SkipCooldown
    <3>. QED BY <2>2, <3>1, <3>2, <1>t, TakeKeepsOthers DEF SkipCooldown
  <2>3. ASSUME NEW r \in Resources, BeginAnalysis(k, r) PROVE WakeupInv'
    <3>1. Take(k) /\ owed' = owed \ {r} /\ UNCHANGED delayed /\ Fetches(k, r)
      BY <2>3 DEF BeginAnalysis, Fails
    <3>2. \A s \in owed' : ~Fetches(k, s)
      BY <3>1, <1>t, FetchesOnce
    <3>. QED BY <3>1, <3>2, <1>t, TakeKeepsOthers
  <2>. QED BY <1>6, <2>1, <2>2, <2>3 DEF Start
<1>7. CASE AnalysisFails
  <2>1. cur \in Resources /\ Key(cur) \in Keys
    BY <1>7, KeyType DEF AnalysisFails, TypeOK
  <2>2. ASSUME NEW j \in Keys, Scheduled(j) \/ j = Key(cur) PROVE Scheduled(j)'
    BY <1>7, <2>1, <2>2 DEF AnalysisFails, AddRateLimited, Scheduled
  <2>3. OwedFails'
    BY <1>7 DEF AnalysisFails, WakeupInv, OwedFails, world
  <2>4. ASSUME NEW r \in owed', NamespaceWatched(r.ns)', Fetches(Key(r), r)'
        PROVE  Scheduled(Key(r))'
    <3>1. r \in Resources /\ Key(r) \in Keys
      BY <1>7, <2>1, <1>t, KeyType DEF AnalysisFails
    <3>2. CASE r = cur
      BY <2>2, <3>1, <3>2
    <3>3. CASE r \in owed
      BY <1>7, <2>2, <2>4, <3>1, <3>3
         DEF AnalysisFails, WakeupInv, NoLostWakeup, Fetches, NamespaceWatched, world
    <3>. QED BY <1>7, <3>2, <3>3 DEF AnalysisFails
  <2>5. NoLostWakeup'
    BY <2>4 DEF NoLostWakeup
  <2>. QED BY <2>3, <2>5 DEF WakeupInv
<1>8. ASSUME NEW a \in Targets \union {NoPatch}, Analyzed(a) PROVE WakeupInv'
  BY <1>8, WakeupQuiet DEF Analyzed, world
<1>9. CASE Apply
  BY <1>9, WakeupQuiet DEF Apply, GetTarget, DryRun, PatchTarget, ReportOutcome, Act
<1>10. CASE Notify
  BY <1>10, WakeupQuiet DEF Notify, SendIssue, LogCommand, Act
<1>11. CASE Finish
  BY <1>11, WakeupQuiet DEF Finish, world
<1>12. CASE UNCHANGED vars
  BY <1>12, WakeupQuiet DEF vars, world
<1>. QED BY <1>1, <1>2, <1>3, <1>4, <1>5, <1>6, <1>7, <1>8, <1>9, <1>10, <1>11, <1>12
         DEF Next, Answer

\* No failure the operator has seen is forgotten.
THEOREM NeverForgets == Spec => []NoLostWakeup
<1>1. Init => TypeOK /\ WakeupInv
  BY TypeInit, WakeupInit
<1>2. TypeOK /\ WakeupInv /\ [Next]_vars => (TypeOK /\ WakeupInv)'
  BY TypeStep, WakeupStep
<1>3. WakeupInv => NoLostWakeup
  BY DEF WakeupInv
<1>. QED BY <1>1, <1>2, <1>3, PTL DEF Spec

-----------------------------------------------------------------------------
(* Cooldowns.  What is left of a workload's cooldown and the time since its *)
(* last analysis always make up a whole cooldown at least; so a workload    *)
(* that may be analysed was last analysed a cooldown ago.                   *)

CooldownInv == \A r \in Resources : cool[r] + since[r] >= config.cooldown

LEMMA CooldownInit == Init => CooldownInv
  BY ConfigAssumption DEF Init, CooldownInv, ConfigType

LEMMA CooldownStep == TypeOK /\ CooldownInv /\ [Next]_vars => CooldownInv'
<1>. SUFFICES ASSUME TypeOK, CooldownInv, [Next]_vars PROVE CooldownInv'
  OBVIOUS
<1>t. /\ config.cooldown \in 0 .. MaxCooldown /\ MaxCooldown \in Nat
      /\ cool \in [Resources -> 0 .. MaxCooldown]
      /\ since \in [Resources -> 0 .. MaxCooldown]
  BY ConfigTyped, ConfigAssumption DEF TypeOK
<1>1. CASE Restart
  <2>1. PICK c \in Configs : Load(c)
    BY <1>1 DEF Restart
  <2>2. c.cooldown \in 0 .. MaxCooldown
    BY ConfigAssumption DEF ConfigType
  <2>. QED BY <2>1, <2>2, <1>t DEF Load, CooldownInv
<1>2. CASE Tick
  BY <1>2, <1>t DEF Tick, Countdown, CooldownInv
<1>3. ASSUME NEW a \in Targets \union {NoPatch}, Analyzed(a) PROVE CooldownInv'
  BY <1>3, <1>t DEF Analyzed, SetCooldown, CooldownInv, TypeOK
<1>4. CASE UNCHANGED <<cool, since, config>>
  BY <1>4 DEF CooldownInv
<1>5. Restart \/ Tick \/ Answer \/ UNCHANGED <<cool, since, config>>
  BY DEF Next, vars, Deliver, Change, BackoffDone, Start, Ignore, SkipCooldown,
         BeginAnalysis, Take, AnalysisFails, Apply, GetTarget, DryRun, PatchTarget,
         ReportOutcome, Notify, SendIssue, LogCommand, Act, Finish
<1>. QED BY <1>1, <1>2, <1>3, <1>4, <1>5 DEF Answer

\* Only BeginAnalysis takes the worker from idle to analyze, with a workload
\* that is not in its cooldown.
LEMMA AnalysisBegins ==
    ASSUME TypeOK, [Next]_vars, pc = "idle", pc' = "analyze", NEW r \in Resources, cur' = r
    PROVE  cool[r] = 0
<1>1. \E k \in Keys, s \in Resources : BeginAnalysis(k, s)
  BY DEF Next, vars, worker, Restart, Load, Tick, Deliver, Change, BackoffDone, Start,
         Ignore, SkipCooldown, AnalysisFails, Answer, Analyzed, Apply, GetTarget, DryRun,
         PatchTarget, ReportOutcome, Notify, SendIssue, LogCommand, Act, Finish
<1>2. ~ShouldSkip(r)
  BY <1>1 DEF BeginAnalysis
<1>. QED BY <1>2, ConfigAssumption DEF ShouldSkip, TypeOK

\* A process leaves a whole cooldown between two analyses of one workload.
THEOREM CooldownsAreHonoured == Spec => CooldownHonoured
<1>1. Init => TypeOK /\ CooldownInv
  BY TypeInit, CooldownInit
<1>2. TypeOK /\ CooldownInv /\ [Next]_vars => (TypeOK /\ CooldownInv)'
  BY TypeStep, CooldownStep
<1>3. TypeOK /\ CooldownInv /\ [Next]_vars
        => [\A r \in Resources : pc = "idle" /\ pc' = "analyze" /\ cur' = r
              => since[r] >= config.cooldown]_vars
  <2>. SUFFICES ASSUME TypeOK, CooldownInv, [Next]_vars, NEW r \in Resources,
                       pc = "idle", pc' = "analyze", cur' = r
                PROVE  since[r] >= config.cooldown
    OBVIOUS
  <2>1. cool[r] = 0
    BY AnalysisBegins
  <2>2. since[r] \in 0 .. MaxCooldown /\ config.cooldown \in 0 .. MaxCooldown
    BY ConfigTyped DEF TypeOK
  <2>. QED BY <2>1, <2>2, ConfigAssumption DEF CooldownInv
<1>. QED BY <1>1, <1>2, <1>3, PTL DEF Spec, CooldownHonoured

-----------------------------------------------------------------------------
(* Delays.  A new cooldown starts only for a workload whose key the worker  *)
(* holds; that key is not delayed, since it was ready when it was taken.    *)

RequeueInv ==
    /\ RequeueMatchesCooldown
    /\ \A k \in ready : delayed[k] = 0
    /\ cur # NoResource => delayed[Key(cur)] = 0

LEMMA RequeueInit == Init => RequeueInv
  BY KeyType DEF Init, RequeueInv, RequeueMatchesCooldown

LEMMA RequeueStep == TypeOK /\ RequeueInv /\ [Next]_vars => RequeueInv'
<1>. SUFFICES ASSUME TypeOK, RequeueInv, [Next]_vars PROVE RequeueInv'
  OBVIOUS
<1>t. /\ config.cooldown \in 0 .. MaxCooldown /\ MaxCooldown \in Nat
      /\ cool \in [Resources -> 0 .. MaxCooldown]
      /\ delayed \in [Keys -> 0 .. MaxCooldown]
      /\ ready \subseteq Keys /\ backoff \subseteq Keys
      /\ cur \in Resources \union {NoResource}
      /\ \A r \in Resources : Key(r) \in Keys
  BY ConfigTyped, ConfigAssumption, KeyType DEF TypeOK
<1>1. CASE Restart
  BY <1>1, KeyType DEF Restart, Load, RequeueInv, RequeueMatchesCooldown
<1>2. CASE Tick
  <2>1. RequeueMatchesCooldown'
    <3>. SUFFICES ASSUME NEW k \in Keys, delayed'[k] > 0
                  PROVE  \E r \in Resources : Key(r) = k /\ cool'[r] = delayed'[k]
      BY DEF RequeueMatchesCooldown
    <3>1. delayed[k] > 0 /\ delayed'[k] = delayed[k] - 1
      BY <1>2, <1>t DEF Tick, Countdown
    <3>2. PICK r \in Resources : Key(r) = k /\ cool[r] = delayed[k]
      BY <3>1 DEF RequeueInv, RequeueMatchesCooldown
    <3>3. cool'[r] = cool[r] - 1
      BY <1>2, <1>t, <3>1, <3>2 DEF Tick, Countdown
    <3>. QED BY <3>1, <3>2, <3>3
  <2>2. \A k \in ready' : delayed'[k] = 0
    BY <1>2, <1>t DEF Tick, Countdown, RequeueInv
  <2>3. cur' # NoResource => delayed'[Key(cur')] = 0
    BY <1>2, <1>t DEF Tick, Countdown, RequeueInv, worker
  <2>. QED BY <2>1, <2>2, <2>3 DEF RequeueInv
<1>3. ASSUME NEW ks \in SUBSET Keys, Enqueue(ks), UNCHANGED <<cool, cur>>
      PROVE  RequeueInv'
  <2>1. \A k \in Keys : delayed'[k] = IF k \in ks THEN 0 ELSE delayed[k]
    BY <1>3 DEF Enqueue
  <2>2. RequeueMatchesCooldown'
    BY <1>3, <2>1, <1>t DEF RequeueInv, RequeueMatchesCooldown
  <2>3. \A k \in ready' : delayed'[k] = 0
    BY <1>3, <2>1, <1>t DEF RequeueInv, Enqueue
  <2>4. cur' # NoResource => delayed'[Key(cur')] = 0
    BY <1>3, <2>1, <1>t DEF RequeueInv
  <2>. QED BY <2>2, <2>3, <2>4 DEF RequeueInv
<1>4. ASSUME NEW k \in Keys, Ignore(k) PROVE RequeueInv'
  BY <1>4, <1>t DEF Ignore, Take, RequeueInv, RequeueMatchesCooldown
<1>5. ASSUME NEW k \in Keys, NEW r \in Resources, SkipCooldown(k, r) PROVE RequeueInv'
  <2>1. Key(r) = k /\ delayed' = [delayed EXCEPT ![k] = cool[r]] /\ UNCHANGED <<cool, cur>>
        /\ ready' = ready \ {k} /\ cur = NoResource
    BY <1>5 DEF SkipCooldown, Fails, Fetches, RequeueAfter, Take, TypeOK
  <2>2. RequeueMatchesCooldown'
    BY <2>1, <1>t DEF RequeueInv, RequeueMatchesCooldown
  <2>. QED BY <2>1, <2>2, <1>t DEF RequeueInv
<1>6. ASSUME NEW k \in Keys, NEW r \in Resources, BeginAnalysis(k, r) PROVE RequeueInv'
  <2>1. k \in ready /\ Key(r) = k /\ cur' = r /\ ready' = ready \ {k}
        /\ UNCHANGED <<delayed, cool>>
    BY <1>6 DEF BeginAnalysis, Take, Fails, Fetches
  <2>. QED BY <2>1 DEF RequeueInv, RequeueMatchesCooldown
<1>7. CASE AnalysisFails
  BY <1>7 DEF AnalysisFails, AddRateLimited, Return, RequeueInv, RequeueMatchesCooldown
<1>8. ASSUME NEW a \in Targets \union {NoPatch}, Analyzed(a) PROVE RequeueInv'
  <2>1. cur \in Resources /\ cur # NoResource /\ UNCHANGED <<delayed, ready, cur>>
        /\ cool' = [cool EXCEPT ![cur] = config.cooldown]
    BY <1>8 DEF Analyzed, SetCooldown, queue, TypeOK
  <2>2. ASSUME NEW k \in Keys, delayed[k] > 0
        PROVE  \E r \in Resources : Key(r) = k /\ cool'[r] = delayed[k]
    <3>1. PICK r \in Resources : Key(r) = k /\ cool[r] = delayed[k]
      BY <2>2 DEF RequeueInv, RequeueMatchesCooldown
    <3>2. r # cur
      BY <2>1, <2>2, <3>1 DEF RequeueInv
    <3>. QED BY <2>1, <3>1, <3>2, <1>t
  <2>. QED BY <2>1, <2>2 DEF RequeueInv, RequeueMatchesCooldown
<1>9. CASE UNCHANGED <<queue, cool>> /\ cur' \in {cur, NoResource}
  BY <1>9 DEF RequeueInv, RequeueMatchesCooldown, queue
<1>10. ASSUME NEW r \in Resources, Deliver(r) PROVE RequeueInv'
  <2>1. {Key(r)} \in SUBSET Keys
    BY <1>t
  <2>. QED BY <1>10, <2>1, <1>3 DEF Deliver, worker
<1>11. ASSUME NEW k \in Keys, BackoffDone(k) PROVE RequeueInv'
  <2>1. {k} \in SUBSET Keys
    OBVIOUS
  <2>. QED BY <1>11, <2>1, <1>3 DEF BackoffDone, worker
<1>12. \/ Restart \/ Tick \/ AnalysisFails \/ Answer
       \/ \E r \in Resources : Deliver(r)
       \/ \E k \in Keys : BackoffDone(k) \/ Start(k)
       \/ UNCHANGED <<queue, cool>> /\ cur' \in {cur, NoResource}
  BY DEF Next, vars, worker, Change, Apply, GetTarget, DryRun, PatchTarget,
         ReportOutcome, Notify, SendIssue, LogCommand, Act, Finish, Return
<1>. QED BY <1>1, <1>2, <1>4, <1>5, <1>6, <1>7, <1>8, <1>9, <1>10, <1>11, <1>12
         DEF Answer, Start

\* A delayed key wakes up when the cooldown it waits for ends.
THEOREM DelaysMatchCooldowns == Spec => []RequeueMatchesCooldown
<1>1. Init => TypeOK /\ RequeueInv
  BY TypeInit, RequeueInit
<1>2. TypeOK /\ RequeueInv /\ [Next]_vars => (TypeOK /\ RequeueInv)'
  BY TypeStep, RequeueStep
<1>3. RequeueInv => RequeueMatchesCooldown
  BY DEF RequeueInv
<1>. QED BY <1>1, <1>2, <1>3, PTL DEF Spec

-----------------------------------------------------------------------------
(* Outcomes.  The trail says where the worker has been: what was decided    *)
(* about the answer when it came still holds at every later call, because   *)
(* the configuration and the worker's locals do not change under it.        *)

Patching == {"get", "dryrun", "patch", "report"}

Dried == config.dryRun => "dryrun" \in trail

TrailInv ==
    /\ pc # "idle" => NamespaceWatched(cur.ns)
    /\ pc \in {"idle", "analyze", "get", "dryrun"} => trail = {}
    /\ pc \in Patching \/ "patched" \in trail => AutoApply(resp) /\ InScope(resp)
    /\ pc \in {"patch", "report"} => trail \subseteq {"dryrun", "patched"} /\ Dried
    /\ pc = "report" => "patched" \in trail
    /\ "patched" \in trail => Dried
    /\ pc = "notify" => ~AutoApply(resp) /\ trail \subseteq Configured
    /\ EveryAnalysisConcluded

LEMMA TrailInit == Init => TrailInv
  BY DEF Init, TrailInv, Patching, EveryAnalysisConcluded

\* Nothing but the worker touches what the invariant speaks of.
LEMMA TrailQuiet == ASSUME TrailInv, UNCHANGED <<config, worker>> PROVE TrailInv'
  BY DEF TrailInv, Patching, Dried, EveryAnalysisConcluded, Configured, AutoApply, InScope,
         CanAutoApplyIn, NamespaceWatched, worker

\* The channels are not marks: a trail of channels says nothing of a patch.
LEMMA ChannelsApart ==
    ASSUME TypeOK PROVE Configured \subseteq Channels /\ Channels \intersect Marks = {}
  BY ConfigTyped DEF Configured, ConfigType, NotifierChains, Channels, Marks

\* The steps of the automatic branch.
LEMMA TrailApply == ASSUME TypeOK, TrailInv, Apply PROVE TrailInv'
<1>. USE DEF TrailInv, Patching, Dried, Act
<1>1. /\ UNCHANGED <<config, cur, resp>>
      /\ AutoApply(resp) /\ AutoApply(resp)' /\ InScope(resp) /\ InScope(resp)'
      /\ NamespaceWatched(cur.ns)'
  BY DEF Apply, GetTarget, DryRun, PatchTarget, ReportOutcome, AutoApply, InScope,
         CanAutoApplyIn, NamespaceWatched
<1>2. CASE GetTarget
  BY <1>1, <1>2 DEF GetTarget, EveryAnalysisConcluded, Channels
<1>3. CASE DryRun
  BY <1>1, <1>3 DEF DryRun, EveryAnalysisConcluded, Channels
<1>4. CASE PatchTarget
  <2>1. "dryrun" \notin Channels /\ "patched" \notin Channels
    BY DEF Channels
  <2>. QED BY <1>1, <1>4, <2>1 DEF PatchTarget, EveryAnalysisConcluded
<1>5. CASE ReportOutcome
  BY <1>1, <1>5 DEF ReportOutcome, EveryAnalysisConcluded, Channels
<1>. QED BY <1>2, <1>3, <1>4, <1>5 DEF Apply

\* The steps of the manual branch.
LEMMA TrailNotify == ASSUME TypeOK, TrailInv, Notify PROVE TrailInv'
<1>. USE DEF TrailInv, Patching, Act
<1>1. /\ UNCHANGED <<config, cur, resp>>
      /\ ~AutoApply(resp) /\ ~AutoApply(resp)' /\ trail \subseteq Configured
      /\ NamespaceWatched(cur.ns)' /\ Configured' = Configured
  BY DEF Notify, SendIssue, LogCommand, AutoApply, NamespaceWatched, Configured
<1>2. "patched" \notin Configured /\ "logged" # "patched"
  BY ChannelsApart DEF Marks
<1>3. ASSUME NEW i \in 1 .. 2, SendIssue(i) PROVE TrailInv'
  <2>1. pc' = "notify" /\ trail' \subseteq Configured
    BY <1>1, <1>3 DEF SendIssue, Configured
  <2>. QED BY <1>1, <1>2, <2>1 DEF EveryAnalysisConcluded
<1>4. CASE LogCommand
  <2>1. pc' = "done" /\ trail' = Configured \union (IF resp = NoPatch THEN {} ELSE {"logged"})
    BY <1>1, <1>4 DEF LogCommand, Configured
  <2>. QED BY <1>1, <1>2, <2>1 DEF EveryAnalysisConcluded
<1>. QED BY <1>3, <1>4 DEF Notify

LEMMA TrailStep == TypeOK /\ TrailInv /\ [Next]_vars => TrailInv'
<1>. SUFFICES ASSUME TypeOK, TrailInv, [Next]_vars PROVE TrailInv'
  OBVIOUS
<1>1. CASE pc' = "idle" /\ trail' = {}
  BY <1>1 DEF TrailInv, Patching, EveryAnalysisConcluded
<1>2. ASSUME NEW k \in Keys, NEW r \in Resources, BeginAnalysis(k, r) PROVE TrailInv'
  <2>1. pc' = "analyze" /\ trail' = {} /\ cur' = r /\ UNCHANGED config
    BY <1>2 DEF BeginAnalysis, Take, TrailInv
  <2>2. NamespaceWatched(r.ns)
    BY <1>2 DEF BeginAnalysis, Fails, Fetches, Key
  <2>. QED BY <2>1, <2>2 DEF TrailInv, Patching, EveryAnalysisConcluded, NamespaceWatched
<1>3. ASSUME NEW a \in Targets \union {NoPatch}, Analyzed(a) PROVE TrailInv'
  <2>1. /\ resp' = a /\ pc' = Route(a) /\ trail' = {} /\ UNCHANGED <<config, cur>>
        /\ NamespaceWatched(cur.ns)'
    BY <1>3 DEF Analyzed, TrailInv, NamespaceWatched
  <2>2. AutoApply(a)' <=> AutoApply(a)
    BY <2>1 DEF AutoApply
  <2>3. InScope(a)' <=> InScope(a)
    BY <2>1 DEF InScope, CanAutoApplyIn
  <2>4. pc' \in {"notify", "get", "done"}
    BY <2>1 DEF Route
  <2>5. pc' = "notify" => ~AutoApply(a)
    BY <2>1 DEF Route
  <2>6. pc' = "get" => AutoApply(a) /\ InScope(a)
    BY <2>1 DEF Route
  <2>7. pc' = "done" => AutoApply(a)
    BY <2>1 DEF Route
  <2>. QED BY <2>1, <2>2, <2>3, <2>4, <2>5, <2>6, <2>7
           DEF TrailInv, Patching, EveryAnalysisConcluded
<1>4. CASE Apply
  BY <1>4, TrailApply
<1>5. CASE Notify
  BY <1>5, TrailNotify
<1>6. CASE UNCHANGED <<config, worker>>
  BY <1>6, TrailQuiet
<1>7. \/ pc' = "idle" /\ trail' = {}
      \/ \E k \in Keys, r \in Resources : BeginAnalysis(k, r)
      \/ Answer \/ Apply \/ Notify \/ UNCHANGED <<config, worker>>
  BY DEF Next, vars, worker, Restart, Load, Tick, Deliver, Change, BackoffDone, Start,
         Ignore, SkipCooldown, Take, AnalysisFails, Return, Finish
<1>. QED BY <1>1, <1>2, <1>3, <1>4, <1>5, <1>6, <1>7 DEF Answer

LEMMA TrailAlways == Spec => [](TypeOK /\ TrailInv)
<1>1. Init => TypeOK /\ TrailInv
  BY TypeInit, TrailInit
<1>2. TypeOK /\ TrailInv /\ [Next]_vars => (TypeOK /\ TrailInv)'
  BY TypeStep, TrailStep
<1>. QED BY <1>1, <1>2, PTL DEF Spec

\* Every patch is in scope, and dry-run first when that is asked for.
THEOREM PatchesStayInScope == Spec => []PatchInScope
<1>1. TypeOK /\ TrailInv => PatchInScope
  <2>. SUFFICES ASSUME TypeOK, TrailInv, "patched" \in trail PROVE PatchInScope
    BY DEF PatchInScope
  <2>1. pc # "idle"
    BY DEF TrailInv
  <2>. QED BY <2>1 DEF TrailInv, PatchInScope, Dried, AutoApply, InScope, Key
<1>. QED BY <1>1, TrailAlways, PTL

\* Every analysis ends in one of the ways the operator has for it.
THEOREM AnalysesConclude == Spec => []EveryAnalysisConcluded
<1>1. TypeOK /\ TrailInv => EveryAnalysisConcluded
  BY DEF TrailInv
<1>. QED BY <1>1, TrailAlways, PTL

-----------------------------------------------------------------------------
(* Refinement.  Init maps to Init, and every step to a step of Remediation  *)
(* or to a stutter.  The invariants are needed where the mapping looks at   *)
(* more than the action does: nothing is done about an answer until the     *)
(* worker acts on it, and the trail of a patch names no channel.            *)

LEMMA RefinesInit == Init => Operator!Init
<1>. SUFFICES ASSUME Init PROVE Operator!Init
  OBVIOUS
<1>1. config.cooldown \in 0 .. MaxCooldown
  BY ConfigAssumption DEF Init, ConfigType
<1>. QED BY <1>1 DEF Init, Operator!Init, Stage, Outcome, Channels

\* A step that changes nothing the mapping looks at is a stutter.
LEMMA RefinesQuiet ==
    ASSUME UNCHANGED <<config, cool, cur>>, Stage' = Stage, Outcome' = Outcome
    PROVE  UNCHANGED Operator!vars
  BY DEF Operator!vars

\* The worker lets go of what it had in hand.
LEMMA RefinesReturn == ASSUME Return, UNCHANGED <<config, cool>> PROVE Operator!Drop(Proc)
  BY DEF Return, Operator!Drop, Stage, Outcome, Channels

\* The worker does something about an answer.
LEMMA RefinesOutcome ==
    ASSUME UNCHANGED <<config, cool, cur>>, Stage = "acting", Stage' = "acting",
           NEW o, Outcome' = Outcome \union {o}
    PROVE  Operator!Conclude(Proc, o)
  BY DEF Operator!Conclude

LEMMA RefinesRestart == ASSUME Restart PROVE Operator!Next
<1>1. PICK c \in Configs : Load(c)
  BY DEF Restart
<1>2. c.cooldown \in 0 .. MaxCooldown
  BY ConfigAssumption DEF ConfigType
<1>3. Operator!Start(Proc, c.cooldown)
  BY <1>1 DEF Load, Operator!Start, Stage, Outcome, Channels
<1>. QED BY <1>2, <1>3 DEF Operator!Next

LEMMA RefinesTick == ASSUME TypeOK, Tick PROVE Operator!PassTime
<1>1. UNCHANGED <<config, cur, pc, trail>> /\ cool' = [r \in Resources |-> Countdown(cool[r])]
  BY DEF Tick, worker
<1>. QED BY <1>1 DEF Operator!PassTime, Countdown, Stage, Outcome

LEMMA RefinesBegin ==
    ASSUME TypeOK, TrailInv, NEW k \in Keys, NEW r \in Resources, BeginAnalysis(k, r)
    PROVE  Operator!Ask(Proc, r)
<1>1. /\ pc = "idle" /\ pc' = "analyze" /\ cur' = r /\ UNCHANGED <<config, cool, trail>>
      /\ cool[r] = 0
  BY ConfigAssumption DEF BeginAnalysis, Take, ShouldSkip, TypeOK
<1>. QED BY <1>1 DEF Operator!Ask, Stage, Outcome

LEMMA RefinesAnswer ==
    ASSUME TypeOK, TrailInv, NEW a \in Targets \union {NoPatch}, Analyzed(a)
    PROVE  Operator!Answered(Proc)
<1>1. /\ pc = "analyze" /\ pc' \notin {"idle", "analyze"} /\ UNCHANGED <<config, cur, trail>>
      /\ cool' = [cool EXCEPT ![cur] = config.cooldown]
  BY DEF Analyzed, Route, SetCooldown
<1>. QED BY <1>1 DEF Operator!Answered, Stage, Outcome

LEMMA RefinesApply ==
    ASSUME TypeOK, TrailInv, Apply
    PROVE  Operator!Patch(Proc) \/ UNCHANGED Operator!vars
<1>1. UNCHANGED <<config, cool, cur>> /\ Stage = "acting" /\ Stage' = "acting"
  BY DEF Apply, GetTarget, DryRun, PatchTarget, ReportOutcome, Act, Stage
<1>2. trail \intersect (Channels \union {"logged"}) = {}
  BY DEF Apply, GetTarget, DryRun, PatchTarget, ReportOutcome, TrailInv, Channels
<1>3. trail' \in {trail, trail \union {"dryrun"}, trail \union {"patched"},
                  trail \union {"reported"}}
  BY DEF Apply, GetTarget, DryRun, PatchTarget, ReportOutcome, Act
<1>4. Outcome \in {{}, {"patched"}} /\ Outcome' \in {Outcome, {"patched"}}
  BY <1>2, <1>3 DEF Outcome, Channels
<1>5. CASE Outcome' = Outcome
  BY <1>1, <1>5, RefinesQuiet
<1>6. CASE Outcome = {} /\ Outcome' = {"patched"}
  BY <1>1, <1>6, RefinesOutcome DEF Operator!Patch
<1>. QED BY <1>4, <1>5, <1>6

LEMMA RefinesNotify ==
    ASSUME TypeOK, TrailInv, Notify
    PROVE  Operator!Announce(Proc) \/ UNCHANGED Operator!vars
<1>1. UNCHANGED <<config, cool, cur>> /\ Stage = "acting" /\ Stage' = "acting"
  BY DEF Notify, SendIssue, LogCommand, Act, Stage
<1>2. trail \subseteq Channels
  BY ChannelsApart DEF Notify, SendIssue, LogCommand, TrailInv
<1>3. PICK m \in SUBSET (Channels \union {"logged"}) : trail' = trail \union m
  <2>1. ASSUME NEW i \in 1 .. 2, SendIssue(i)
        PROVE  config.notifiers[i] \in Channels /\ trail' = trail \union {config.notifiers[i]}
    BY <2>1, ChannelsApart DEF SendIssue, Act, Configured
  <2>2. CASE LogCommand
    BY <2>2 DEF LogCommand, Act
  <2>. QED BY <2>1, <2>2 DEF Notify
<1>4. Outcome \in {{}, {"announced"}} /\ Outcome' \in {Outcome, {"announced"}}
  BY <1>2, <1>3 DEF Outcome, Channels
<1>5. CASE Outcome' = Outcome
  BY <1>1, <1>5, RefinesQuiet
<1>6. CASE Outcome = {} /\ Outcome' = {"announced"}
  BY <1>1, <1>6, RefinesOutcome DEF Operator!Announce
<1>. QED BY <1>4, <1>5, <1>6

LEMMA RefinesStep == TypeOK /\ TrailInv /\ [Next]_vars => [Operator!Next]_(Operator!vars)
<1>. SUFFICES ASSUME TypeOK, TrailInv, [Next]_vars
              PROVE  Operator!Next \/ UNCHANGED Operator!vars
  OBVIOUS
<1>1. CASE Restart
  BY <1>1, RefinesRestart
<1>2. CASE Tick
  BY <1>2, RefinesTick DEF Operator!Next
<1>3. ASSUME NEW k \in Keys, NEW r \in Resources, BeginAnalysis(k, r) PROVE Operator!Next
  BY <1>3, RefinesBegin DEF Operator!Next
<1>4. CASE AnalysisFails
  <2>1. Operator!Drop(Proc) /\ Stage = "asking"
    BY <1>4, RefinesReturn DEF AnalysisFails, Stage
  <2>. QED BY <2>1 DEF Operator!Next, Operator!Unanswered
<1>5. ASSUME NEW a \in Targets \union {NoPatch}, Analyzed(a) PROVE Operator!Next
  BY <1>5, RefinesAnswer DEF Operator!Next
<1>6. CASE Apply
  BY <1>6, RefinesApply DEF Operator!Next
<1>7. CASE Notify
  BY <1>7, RefinesNotify DEF Operator!Next
<1>8. CASE Finish
  <2>1. Operator!Drop(Proc) /\ Stage = "acting"
    BY <1>8, RefinesReturn DEF Finish, Stage
  <2>. QED BY <2>1 DEF Operator!Next, Operator!Close
<1>9. CASE UNCHANGED <<cool, config, worker>>
  BY <1>9, RefinesQuiet DEF worker, Stage, Outcome
<1>10. \/ Restart \/ Tick \/ AnalysisFails \/ Answer \/ Apply \/ Notify \/ Finish
       \/ \E k \in Keys, r \in Resources : BeginAnalysis(k, r)
       \/ UNCHANGED <<cool, config, worker>>
  BY DEF Next, vars, worker, Deliver, Change, BackoffDone, Start, Ignore, SkipCooldown, Take
<1>. QED BY <1>1, <1>2, <1>3, <1>4, <1>5, <1>6, <1>7, <1>8, <1>9, <1>10 DEF Answer

\* The controller, with its queue, cache and watches, is a Remediation.
THEOREM ControllerImplementsRemediation == Spec => ImplementsRemediation
<1>1. TypeOK /\ TrailInv /\ [Next]_vars => [Operator!Next]_(Operator!vars)
  BY RefinesStep
<1>. QED BY <1>1, RefinesInit, TrailAlways, PTL DEF Spec, ImplementsRemediation, Operator!Spec
=============================================================================
