---------------------------- MODULE ReportStore ----------------------------
(***************************************************************************)
(* The LLM service: POST /analyze, the background task that stores the     *)
(* analysis, and POST /report-outcome (llm-service/routers/analyze.py),    *)
(* used by an operator that asks, retries, patches and reports.            *)
(*                                                                         *)
(* The handlers run on one event loop; report_outcome scans the reports    *)
(* without leaving it.  The background tasks run on threads of a pool,     *)
(* after their response was sent, and interleave with the scan and with    *)
(* each other at every list operation.  All of it lives in memory.         *)
(***************************************************************************)
EXTENDS Naturals, Sequences, FiniteSets

CONSTANTS
    Kinds,        \* kinds of workloads
    Names,        \* their names, namespace included; kinds share them
    NoWorkload,   \* no patch of this analysis was applied
    MaxRequests,  \* bound: analyses asked for in a behaviour
    MaxMail,      \* bound: outcomes underway at once
    MaxKept,      \* _MAX_ANALYSES and _MAX_REPORTS
    Quoting,      \* analyses whose own text contains "Operator applied"
    Malformed,    \* analyses whose answer may bring a patch of unexpected shape
    Threads       \* size of the pool that runs background tasks

Requests == 1 .. MaxRequests
Workloads == [kind : Kinds, name : Names]

ASSUME WorkloadAssumption == NoWorkload \notin Workloads
ASSUME BoundsAssumption ==
    /\ MaxRequests \in Nat /\ MaxMail \in Nat /\ MaxKept \in Nat \ {0} /\ Threads \in Nat \ {0}
    /\ Quoting \subseteq Requests /\ Malformed \subseteq Requests

Nobody == 0

Rings == {"analyses", "reports"}

VARIABLES
    subject,  \* the workloads of the analyses asked for, in order
    phase,    \* where each analysis is in the service
    target,   \* the list its background task is at
    ring,     \* _analyses and _reports, oldest first
    credit,   \* the outcome recorded in each report's operator step
    op,       \* what the operator is doing, and for which analysis
    applied,  \* the workload that the patch of each analysis was applied to
    mail,     \* outcomes on their way to the service
    scan      \* report_outcome: the outcome and the next index it will read
              \* (history: the reports it was to choose among when it began)

service == <<phase, target, ring>>
outcome == <<credit, scan>>
operator == <<subject, op, applied>>
vars == <<service, outcome, operator, mail>>

NoScan == [req |-> Nobody, i |-> 0, due |-> {}]

Asked == 1 .. Len(subject)

Phases == {"none", "thinking", "queued", "append", "check", "pop", "stored",
           "dropped", "lost"}

\* Tasks that have appended to list g and not yet trimmed it.
Trimming(g) == {a \in Requests : target[a] = g /\ phase[a] \in {"check", "pop"}}

Storing == {a \in Requests : phase[a] \in {"append", "check", "pop"}}

TypeOK ==
    /\ subject \in Seq(Workloads) /\ Len(subject) <= MaxRequests
    /\ phase \in [Requests -> Phases]
    /\ target \in [Requests -> Rings]
    /\ ring \in [Rings -> Seq(Requests)]
    /\ credit \in [Requests -> Requests \union {Nobody}]
    /\ op \in [at : {"idle", "waiting", "telling"}, req : Requests \union {Nobody}]
    /\ applied \in [Requests -> Workloads \union {NoWorkload}]
    /\ mail \subseteq Requests
    /\ scan \in [req : Requests \union {Nobody}, i : Nat, due : SUBSET Requests]
    /\ op.at = "idle" <=> op.req = Nobody
    /\ op.req \in {Nobody, Len(subject)}
    /\ scan.req = Nobody => scan = NoScan

Init ==
    /\ subject = <<>>
    /\ phase = [a \in Requests |-> "none"]
    /\ target = [a \in Requests |-> "analyses"]
    /\ ring = [g \in Rings |-> <<>>]
    /\ credit = [a \in Requests |-> Nobody]
    /\ op = [at |-> "idle", req |-> Nobody]
    /\ applied = [a \in Requests |-> NoWorkload]
    /\ mail = {}
    /\ scan = NoScan

-----------------------------------------------------------------------------
(* The operator, as the service sees it: one analysis at a time, asked     *)
(* again when the answer is late, and one outcome after a patch.           *)

Send(w) ==
    /\ Len(subject) < MaxRequests
    /\ subject' = Append(subject, w)
    /\ phase' = [phase EXCEPT ![Len(subject) + 1] = "thinking"]
    /\ op' = [at |-> "waiting", req |-> Len(subject) + 1]
    /\ UNCHANGED <<target, ring, outcome, applied, mail>>

Ask(w) == op.at = "idle" /\ Send(w)

\* A timed-out request goes on in the service; its answer reaches nobody.
Retry == op.at = "waiting" /\ Send(subject[op.req])

Operator(next) ==
    /\ op' = next
    /\ UNCHANGED <<subject, service, outcome>>

\* Bug: the request is kept when the operator goes back to waiting for work.
IdleWithRequest == [op EXCEPT !.at = "idle"]

Idle == [at |-> "idle", req |-> Nobody]

\* The last attempt failed, or the answer brought no patch that was applied.
GiveUp ==
    /\ op.at = "waiting"
    /\ Operator(Idle)
    /\ UNCHANGED <<applied, mail>>

\* The answer's patch was applied and its outcome is on its way.  It names the
\* target of the patch: of the name that was analysed, but of any kind.
Apply(w) ==
    /\ op.at = "waiting"
    /\ phase[op.req] \notin {"thinking", "lost"}
    /\ Cardinality(mail) < MaxMail
    /\ w.name = subject[op.req].name
    /\ applied' = [applied EXCEPT ![op.req] = w]
    /\ mail' = mail \union {op.req}
    /\ Operator([op EXCEPT !.at = "telling"])

\* The operator goes on whether the outcome was answered, timed out or lost.
StopTelling ==
    /\ op.at = "telling"
    /\ mail' \in {mail, mail \ {op.req}}
    /\ Operator(Idle)
    /\ UNCHANGED applied

-----------------------------------------------------------------------------
(* POST /analyze: the answer is sent, then the task is handed to the pool. *)
(* A failing provider is answered for by the mock: there is always one.    *)

Respond(a) ==
    /\ scan.req = Nobody
    /\ phase[a] = "thinking"
    /\ phase' = [phase EXCEPT ![a] = "queued"]
    /\ UNCHANGED <<target, ring, outcome, operator, mail>>

Step(a, from, to) ==
    /\ phase[a] = from
    /\ phase' = [phase EXCEPT ![a] = to]
    /\ UNCHANGED <<outcome, operator, mail>>

StartTask(a) ==
    /\ Cardinality(Storing) < Threads
    /\ Step(a, "queued", "append")
    /\ UNCHANGED <<target, ring>>

(* _store_analysis: append, compare the length, pop the oldest; first for  *)
(* the analyses, then for the reports.                                     *)

\* Bug: the newest entry is put first, where the scan takes the oldest to be.
PushRecord(a) ==
    /\ Step(a, "append", "check")
    /\ ring' = [ring EXCEPT ![target[a]] = <<a>> \o @]
    /\ UNCHANGED target

AppendRecord(a) ==
    /\ Step(a, "append", "check")
    /\ ring' = [ring EXCEPT ![target[a]] = Append(@, a)]
    /\ UNCHANGED target

\* Bug: the list is trimmed to one entry less than its cap.
OverFullAtCap(g) == Len(ring[g]) >= MaxKept

\* Bug: one more entry than the cap is let stand.
OverFullLate(g) == Len(ring[g]) > MaxKept + 1

OverFull(g) == Len(ring[g]) > MaxKept

Done(a, from) ==
    /\ Step(a, from, IF target[a] = "analyses" THEN "append" ELSE "stored")
    /\ target' = [target EXCEPT ![a] = "reports"]

Check(a) ==
    \/ /\ OverFull(target[a])
       /\ Step(a, "check", "pop")
       /\ UNCHANGED <<target, ring>>
    \/ /\ ~OverFull(target[a])
       /\ Done(a, "check")
       /\ UNCHANGED ring

Pop(a) ==
    /\ Done(a, "pop")
    /\ ring' = [ring EXCEPT ![target[a]] = Tail(@)]

\* A patch of unexpected shape may be impossible to describe for the report: the
\* error is logged and the task ends, its analysis stored and its report not.
DropReport(a) ==
    /\ a \in Malformed
    /\ target[a] = "reports"
    /\ Step(a, "append", "dropped")
    /\ UNCHANGED <<target, ring>>

-----------------------------------------------------------------------------
(* POST /report-outcome: from the newest report to the oldest, by index,   *)
(* on a list the tasks go on changing.                                     *)

\* Bug: off by one, the newest report is not looked at.
FirstIndexSecond == IF ring["reports"] = <<>> THEN 0 ELSE Len(ring["reports"]) - 1

FirstIndex == Len(ring["reports"])

Listed == {ring["reports"][i] : i \in 1 .. Len(ring["reports"])}

\* Bug: the report is compared with what was analysed.
WantsOwnStep(r, a) == subject[r] = subject[a] /\ credit[r] = Nobody /\ r \notin Quoting

\* The report is about the workload that the outcome names and no step of it,
\* the model's own text included, says "Operator applied".
WantsStep(r, a) == subject[r] = applied[a] /\ credit[r] = Nobody /\ r \notin Quoting

BeginScan(a) ==
    /\ scan.req = Nobody
    /\ a \in mail
    /\ mail' = mail \ {a}
    /\ scan' = [req |-> a, i |-> FirstIndex,
                due |-> {r \in Listed : WantsStep(r, a)}]
    /\ UNCHANGED <<service, credit, operator>>

Reply ==
    /\ scan' = NoScan
    /\ UNCHANGED <<service, operator, mail>>

NotFound ==
    /\ scan.req # Nobody
    /\ scan.i = 0
    /\ Reply
    /\ UNCHANGED credit

\* The list became shorter than the index: IndexError, answered with a 500.
OutOfRange ==
    /\ scan.i > Len(ring["reports"])
    /\ Reply
    /\ UNCHANGED credit

InRange == scan.req # Nobody /\ scan.i \in 1 .. Len(ring["reports"])

Record ==
    /\ InRange
    /\ LET r == ring["reports"][scan.i]
       IN  /\ WantsStep(r, scan.req)
           /\ credit' = [credit EXCEPT ![r] = scan.req]
    /\ Reply

PassOver ==
    /\ InRange
    /\ ~WantsStep(ring["reports"][scan.i], scan.req)
    /\ scan' = [scan EXCEPT !.i = @ - 1]
    /\ UNCHANGED <<service, credit, operator, mail>>

\* The service restarts: nothing it held survives, in progress or stored.
Restart ==
    /\ phase' = [a \in Requests |-> IF a \in Asked THEN "lost" ELSE "none"]
    /\ ring' = [g \in Rings |-> <<>>]
    /\ target' = [a \in Requests |-> "analyses"]
    /\ credit' = [a \in Requests |-> Nobody]
    /\ scan' = NoScan
    /\ UNCHANGED <<operator, mail>>

Next ==
    \/ Retry \/ GiveUp \/ StopTelling
    \/ \E w \in Workloads : Ask(w) \/ Apply(w)
    \/ \E a \in Requests :
         \/ Respond(a) \/ StartTask(a) \/ AppendRecord(a) \/ Check(a) \/ Pop(a)
         \/ DropReport(a) \/ BeginScan(a)
    \/ NotFound \/ OutOfRange \/ Record \/ PassOver
    \/ Restart

Spec == Init /\ [][Next]_vars

-----------------------------------------------------------------------------
(* Properties *)

\* A list is over its cap only by the tasks that have yet to trim it; once
\* they are done it is within it, however they interleaved.
RingBounded ==
    \A g \in Rings : Len(ring[g]) <= MaxKept + Cardinality(Trimming(g))

\* Tasks whose entry of this process reached list g.
Reached(g) ==
    {a \in Requests : \/ phase[a] = "stored"
                      \/ target[a] = g /\ phase[a] \in {"check", "pop"}
                      \/ g = "analyses" /\ target[a] = "reports"}

\* Two tasks may both see the list over its cap and both pop, so a list may
\* lose entries it has room for; but never more of them than there are other
\* threads (GET /reports returns the most recent).
RecentKept ==
    \A g \in Rings :
        \/ Len(ring[g]) = Cardinality(Reached(g))
        \/ Len(ring[g]) + Threads > MaxKept

\* An operator step is the trace of one patch that was applied to the workload
\* the report is about.  The analysis that suggested the patch may be another
\* one, even of another kind, but is of the same name; and however outcomes are
\* delayed, lost and told anew, no patch leaves two steps.
StepsAreEarned ==
    /\ \A r \in Requests : credit[r] # Nobody
         => applied[credit[r]] = subject[r] /\ subject[credit[r]].name = subject[r].name
    /\ \A r, s \in Requests : credit[r] = credit[s] /\ credit[r] # Nobody => r = s

\* However the list shifts under it, a scan never steps over a report that was
\* eligible when it began: the ones that are still listed lie at or below the
\* index it reads next.  So it records the newest of them or one stored since,
\* and answers not_found only when none of them is left.
ScanMissesNothing ==
    \A r \in scan.due : \A j \in 1 .. Len(ring["reports"]) :
        ring["reports"][j] = r => j <= scan.i

\* Analyses whose report may still be stored by this process.
Unreported ==
    {a \in Requests : phase[a] \notin {"none", "dropped", "lost"}} \ Reached("reports")

\* The index that is read next is gone.
Torn == scan.i > Len(ring["reports"])

Answering == [req |-> scan.req, due |-> scan.due, torn |-> Torn]

Ledger == INSTANCE ReportLedger WITH
    Analyses <- Requests, Cap <- MaxKept, Slack <- Threads,
    open <- Unreported, kept <- ring["reports"], taken <- Answering

\* What POST /analyze and POST /report-outcome do together, thread by thread and
\* index by index, is the abstract ledger: outcomes seem to be recorded in one
\* step, on the newest report of the workload they name that has none, or on one
\* that came while they were answered,
\* an error is answered only when a report was forgotten meanwhile, and reports
\* are forgotten oldest first and not far below the cap.
ImplementsLedger == Ledger!Spec

(* What the documents say and the code does not do *)

\* "Appends an 'Operator applied patch' step to the latest matching report":
\* the report of the analysis whose patch was applied.
OutcomeOnItsReport == \A r \in Requests : credit[r] \in {Nobody, r}

=============================================================================
