------------------------------ MODULE Evidence ------------------------------
(***************************************************************************)
(* What the operator gathers about a failing workload and sends to the LLM *)
(* service: the first half of reconcilePod, reconcileDeployment and        *)
(* reconcileJob (operator/controllers/workload_controller.go), the log     *)
(* backends, and how much of it reaches the prompt (services/analyzer.py). *)
(* Every call may fail; the failures are passed over, but for those of     *)
(* listing the Pods and of redacting the spec.                             *)
(***************************************************************************)
EXTENDS FailureDetector, Integers, Lists

CONSTANTS
    Cases,          \* the workloads and configurations to gather evidence for
    MaxLines,       \* the most lines one call for logs returns
    PodCap,         \* Pods of a Deployment or Job that are looked at
    PromptRecent,   \* recent lines, historical lines and nodes in the prompt
    PromptHistory,
    PromptNodes

\* pods are the Pods of the workload in the order of the list, each given by
\* its node ("" when it has none); events are those under the workload's name,
\* each of the workload itself or of another object; caps may be 0 or negative.
CaseType(c) ==
    /\ c.status \in StatusType
    /\ c.events \in Seq({"own", "other"}) /\ c.pods \in Seq(STRING)
    /\ c.status.kind = "Pod" => Len(c.pods) = 1
    /\ c.backendType \in {"kubernetes", "loki", "custom_http"}
    /\ c.backendURL \in BOOLEAN /\ c.includeNodes \in BOOLEAN
    /\ {c.recentCap, c.historyCap, c.nodeCap} \subseteq Int

ASSUME CapAssumption == {MaxLines, PodCap, PromptRecent, PromptHistory, PromptNodes} \subseteq Nat
ASSUME CasesAssumption == \A c \in Cases : CaseType(c)

VARIABLES
    case,     \* the workload and the configuration
    phase,    \* the call the worker is about to make
    reason,   \* why the workload is taken for failed
    events,   \* the events for the request
    pod,      \* which Pod's logs are being fetched
    recent,   \* recent log lines gathered so far
    history,  \* historical log lines gathered so far
    nodes,    \* the nodes for the request
    fetched   \* history: log lines and headers gathered, before any cap

gathered == <<reason, events, pod, recent, history, nodes, fetched>>
vars == <<status, case, phase, gathered>>

Phases == {"idle", "events", "list", "recent", "history", "nodes", "sent"}

\* A log is made of lines, of headers that name a Pod, and of notices that say
\* how many lines were dropped.
LineType == [pod : Nat, line : Nat] \union [header : Nat] \union [dropped : Nat]

TypeOK ==
    /\ case \in Cases
    /\ status \in StatusType /\ status.kind = case.status.kind
    /\ phase \in Phases
    /\ reason # "" <=> phase # "idle"
    /\ events \in Seq({"own", "other"})
    /\ pod \in Nat
    /\ recent \in Seq(LineType) /\ history \in Seq(LineType)
    /\ nodes \in Seq(STRING)
    /\ fetched \in [recent : Nat, history : Nat]

Clear ==
    /\ phase' = "idle" /\ reason' = "" /\ events' = <<>> /\ pod' = 1
    /\ recent' = <<>> /\ history' = <<>> /\ nodes' = <<>>
    /\ fetched' = [recent |-> 0, history |-> 0]

Init ==
    /\ case \in Cases
    /\ status = case.status
    /\ phase = "idle" /\ reason = "" /\ events = <<>> /\ pod = 1
    /\ recent = <<>> /\ history = <<>> /\ nodes = <<>>
    /\ fetched = [recent |-> 0, history |-> 0]

-----------------------------------------------------------------------------
(* Caps *)

FirstOf(s, n) == IF Len(s) <= n THEN s ELSE SubSeq(s, 1, n)

\* Bug: the notice takes the place of a line.
TruncateLogsShort(lines, max) ==
    IF max <= 0 \/ Len(lines) <= max THEN lines
    ELSE Append(SubSeq(lines, 1, max - 1), [dropped |-> Len(lines) - max])

TruncateLogs(lines, max) ==
    IF max <= 0 \/ Len(lines) <= max THEN lines
    ELSE Append(SubSeq(lines, 1, max), [dropped |-> Len(lines) - max])

(* What is asked for *)

\* With an event of the workload itself, only such events.
OfWorkload(list) ==
    LET own == {i \in DOMAIN list : list[i] = "own"}
    IN  IF own = {} THEN list ELSE Select(list, own)

\* A Pod is looked at itself.
PodsLookedAt == IF status.kind = "Pod" THEN case.pods ELSE FirstOf(case.pods, PodCap)

Lines(p, n) == [i \in 1 .. n |-> [pod |-> p, line |-> i]]

\* The logs of several Pods are told apart by headers.
Header(p) == IF status.kind = "Pod" THEN <<>> ELSE <<[header |-> p]>>

\* Without an address there is no backend, except that of the cluster itself.
HasBackend == case.backendType = "kubernetes" \/ case.backendURL

\* What a backend may answer, as a number of lines; a reader that stops at an
\* error, or another status than 200, is no answer.
KubernetesLines == 0 .. MaxLines

\* A JSON array, or null, may have no line; plain text has one even when empty.
HTTPLines ==
    LET array == 0 .. MaxLines
        text == 1 .. MaxLines
    IN  array \union text

HistoricalLines == IF case.backendType = "kubernetes" THEN KubernetesLines ELSE HTTPLines

FirstSeen(names) == {i \in DOMAIN names : names[i] # "" /\ \A j \in 1 .. (i - 1) : names[j] # names[i]}

Distinct(names) == Select(names, FirstSeen(names))

Capped(names) == IF case.nodeCap > 0 THEN FirstOf(names, case.nodeCap) ELSE names

\* Bug: the cap counts Pods, not nodes.
NodeNamesOfFewPods ==
    IF case.includeNodes THEN Distinct(Capped(PodsLookedAt)) ELSE <<>>

NodeNames == IF case.includeNodes THEN Capped(Distinct(PodsLookedAt)) ELSE <<>>

-----------------------------------------------------------------------------
Detect ==
    /\ phase = "idle"
    /\ Failed
    /\ reason' = Reason(status)
    /\ phase' = "events"
    /\ UNCHANGED <<status, case, events, pod, recent, history, nodes, fetched>>

CollectEvents ==
    /\ phase = "events"
    /\ events' \in {<<>>, OfWorkload(case.events)}
    /\ phase' = "list"
    /\ UNCHANGED <<status, case, reason, pod, recent, history, nodes, fetched>>

AfterPod(p) == IF p < Len(PodsLookedAt) THEN "recent" ELSE "nodes"

ListPods ==
    /\ phase = "list"
    /\ phase' = AfterPod(0)
    /\ UNCHANGED <<status, case, gathered>>

\* Bug: what was gathered so far is kept for the next analysis.
ListFailsQuietly ==
    /\ phase = "list"
    /\ status.kind # "Pod"
    /\ phase' = "idle"
    /\ UNCHANGED <<status, case, gathered>>

ListFails ==
    /\ phase = "list"
    /\ status.kind # "Pod"
    /\ Clear
    /\ UNCHANGED <<status, case>>

\* The spec of a Pod is redacted between its recent logs and its history, that of
\* the other kinds when everything else is there.
AtRedaction ==
    IF status.kind = "Pod" THEN phase = (IF HasBackend THEN "history" ELSE "nodes") /\ nodes = <<>>
    ELSE phase = "nodes" /\ Len(nodes) = Len(NodeNames)

\* The spec cannot be copied.
RedactFails ==
    /\ AtRedaction
    /\ Clear
    /\ UNCHANGED <<status, case>>

\* The worker goes on to the history of this Pod, or to the next Pod.
GoOn == IF HasBackend THEN phase' = "history" /\ UNCHANGED pod
                      ELSE phase' = AfterPod(pod) /\ pod' = pod + 1

Gather(lines) ==
    /\ recent' = recent \o Header(pod) \o lines
    /\ fetched' = [fetched EXCEPT !.recent = @ + Len(Header(pod) \o lines)]

\* Bug: when the call fails the lines of the Pod before are still there.
GetPodLogsOrStale ==
    /\ phase = "recent"
    /\ \E n \in 0 .. MaxLines, p \in {pod - 1, pod} \ {0} : Gather(Lines(p, n))
    /\ GoOn
    /\ UNCHANGED <<status, case, reason, events, history, nodes>>

\* A stream that breaks, or a line that is too long, ends the log early; what
\* was read until then is kept.
GetPodLogs ==
    /\ phase = "recent"
    /\ \E n \in 0 .. MaxLines : Gather(Lines(pod, n))
    /\ GoOn
    /\ UNCHANGED <<status, case, reason, events, history, nodes>>

\* Here it is not kept, and there is no header either.
HistoryFails == UNCHANGED <<history, fetched>>

HistoryAnswers ==
    \E n \in HistoricalLines :
        /\ history' = history \o Header(pod) \o TruncateLogs(Lines(pod, n), case.historyCap)
        /\ fetched' = [fetched EXCEPT !.history = @ + Len(Header(pod)) + n]

GetHistoricalLogs ==
    /\ phase = "history"
    /\ HistoryFails \/ HistoryAnswers
    /\ phase' = AfterPod(pod)
    /\ pod' = pod + 1
    /\ UNCHANGED <<status, case, reason, events, recent, nodes>>

\* A node that cannot be read, or whose events cannot be listed, is named still.
CollectNode ==
    /\ phase = "nodes"
    /\ Len(nodes) < Len(NodeNames)
    /\ nodes' = Append(nodes, NodeNames[Len(nodes) + 1])
    /\ UNCHANGED <<status, case, phase, reason, events, pod, recent, history, fetched>>

\* The recent lines are cut when all Pods have been read.
Send ==
    /\ phase = "nodes"
    /\ Len(nodes) = Len(NodeNames)
    /\ recent' = TruncateLogs(recent, case.recentCap)
    /\ phase' = "sent"
    /\ UNCHANGED <<status, case, reason, events, pod, history, nodes, fetched>>

Done == phase = "sent" /\ Clear /\ UNCHANGED <<status, case>>

Collects ==
    \/ Detect \/ CollectEvents \/ ListPods \/ GetPodLogs \/ GetHistoricalLogs \/ CollectNode

Gathers == Collects \/ ListFails \/ RedactFails \/ Send \/ Done

Kubernetes ==
    /\ (\E i \in 1 .. 2 : ContainerMoves(i)) \/ Ends \/ DeploymentMoves \/ JobMoves
    /\ UNCHANGED <<case, phase, gathered>>

Next == Gathers \/ Kubernetes

Spec == Init /\ [][Next]_vars

-----------------------------------------------------------------------------
(* The request, as the service reads it *)

Prompt ==
    [recent |-> FirstOf(recent, PromptRecent),
     history |-> FirstOf(history, PromptHistory),
     nodes |-> FirstOf(nodes, PromptNodes)]

(* Properties *)

\* The lines a log speaks of: those it shows and those it says were dropped.
SpeaksOf(log) ==
    LET upTo[n \in 0 .. Len(log)] ==
          IF n = 0 THEN 0
          ELSE upTo[n - 1] + IF "dropped" \in DOMAIN log[n] THEN log[n].dropped ELSE 1
    IN  upTo[Len(log)]

\* With caps that fit into the prompt, with room for the notice, the LLM is told
\* of every line that was gathered, whichever calls failed: a line is shown or
\* counted in a notice, and neither the operator nor the service drops one in
\* silence.
NothingDroppedInSilence ==
    phase = "sent" =>
        /\ case.recentCap > 0 /\ case.recentCap + 1 <= PromptRecent
             => SpeaksOf(Prompt.recent) = fetched.recent
        /\ case.historyCap > 0 /\ Len(PodsLookedAt) * (case.historyCap + 2) <= PromptHistory
             => SpeaksOf(Prompt.history) = fetched.history

IsLine(log, i) == "pod" \in DOMAIN log[i]
IsHeader(log, i) == "header" \in DOMAIN log[i]

\* A line belongs, for who reads the log, to the Pod of the last header above it,
\* and without headers to the one Pod there is.
ReadAs(log, i, p) ==
    IF \A j \in 1 .. i : ~IsHeader(log, j) THEN p = 1
    ELSE \E j \in 1 .. i : /\ IsHeader(log, j) /\ log[j].header = p
                          /\ \A k \in (j + 1) .. i : ~IsHeader(log, k)

\* No line is shown under another Pod than its own, although calls for some Pods
\* fail, with and without a header being written, and logs are cut.
LinesUnderTheirPod ==
    phase = "sent" =>
        \A log \in {Prompt.recent, Prompt.history} : \A i \in DOMAIN log :
            IsLine(log, i) => ReadAs(log, i, log[i].pod)

\* Each node of the Pods looked at is in the prompt once, as long as the cap
\* leaves room for another one, wherever its Pod is in the list.
NodesCovered ==
    phase = "sent" /\ case.includeNodes /\ case.nodeCap \in 1 .. PromptNodes =>
        LET names == {PodsLookedAt[i] : i \in DOMAIN PodsLookedAt} \ {""}
            shown == {Prompt.nodes[i] : i \in DOMAIN Prompt.nodes}
        IN  /\ shown \subseteq names
            /\ Cardinality(shown) = Len(Prompt.nodes)
            /\ Len(Prompt.nodes) < case.nodeCap => shown = names
=============================================================================
