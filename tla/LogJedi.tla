------------------------------- MODULE LogJedi -------------------------------
(***************************************************************************)
(* The whole system: operator processes (several replicas, or the old and  *)
(* the new one of a roll-out, there is no leader election) that share      *)
(* workloads and an LLM service.  Each process is a Remediation, which     *)
(* WorkloadController implements, and asks through LLMClient.  What the    *)
(* service does with its answers is in ReportStore.                        *)
(***************************************************************************)
EXTENDS LLMClient

CONSTANTS
    Resources,    \* workloads, all of them watched by every process
    Cooldowns,    \* the cooldowns a process may be configured with
    MaxCooldown,  \* the longest of them
    NoResource,   \* a process has nothing in hand
    Nobody        \* the process that gave an answer is gone

ASSUME CooldownAssumption == MaxCooldown \in Nat /\ Cooldowns \subseteq 0 .. MaxCooldown
ASSUME NobodyAssumption == NoResource \notin Resources /\ Nobody \notin Clients

VARIABLES
    cooldown, hand, stage, rest, outcome,  \* of Remediation
    failing,  \* the workloads that fail
    quiet,    \* history: ticks left of the cooldown since a workload's last answer
    author    \* history: the process that got this answer, unless restarted since

Operator == INSTANCE Remediation WITH Procs <- Clients

operatorVars == <<cooldown, hand, stage, rest, outcome>>
historyVars == <<quiet, author>>
vars == <<clientVars, operatorVars, failing, historyVars>>

TypeOK ==
    /\ ClientTypeOK
    /\ Operator!TypeOK
    /\ failing \subseteq Resources
    /\ quiet \in [Resources -> 0 .. MaxCooldown]
    /\ author \in [Resources -> Clients \union {Nobody}]
    /\ \A p \in Clients : At(p, "idle") <=> stage[p] # "asking"

Init ==
    /\ ClientInit
    /\ Operator!Init
    /\ cooldown \in [Clients -> Cooldowns]
    /\ failing \in SUBSET Resources
    /\ quiet = [r \in Resources |-> 0]
    /\ author = [r \in Resources |-> Nobody]

-----------------------------------------------------------------------------
\* A process finds a failing workload out of its cooldown.
Begin(p, r) ==
    /\ r \in failing
    /\ Operator!Ask(p, r)
    /\ Call(p)
    /\ UNCHANGED <<failing, historyVars>>

Asks(p) ==
    /\ ClientStep(p) \/ ServiceStep(p)
    /\ UNCHANGED <<operatorVars, failing, historyVars>>

\* Bug: the cooldown counts from the beginning of the call.
TakeAnswerLate(p) ==
    /\ At(p, "ok")
    /\ Return(p)
    /\ stage' = [stage EXCEPT ![p] = "acting"]
    /\ LET spent == call[p].elapsed
       IN  rest' = [rest EXCEPT ![p][hand[p]] = IF cooldown[p] > spent
                                                  THEN cooldown[p] - spent ELSE 0]
    /\ quiet' = [quiet EXCEPT ![hand[p]] = cooldown[p]]
    /\ author' = [author EXCEPT ![hand[p]] = p]
    /\ UNCHANGED <<cooldown, hand, outcome, failing>>

TakeAnswer(p) ==
    /\ At(p, "ok")
    /\ Return(p)
    /\ Operator!Answered(p)
    /\ quiet' = [quiet EXCEPT ![hand[p]] = cooldown[p]]
    /\ author' = [author EXCEPT ![hand[p]] = p]
    /\ UNCHANGED failing

TakeError(p) ==
    /\ At(p, "error")
    /\ Return(p)
    /\ Operator!Unanswered(p)
    /\ UNCHANGED <<failing, historyVars>>

\* The patch may or may not cure the workload; nobody checks that it still
\* fails, and another process may have patched it meanwhile.
PatchLands(p) ==
    /\ Operator!Patch(p)
    /\ failing' \in {failing, failing \ {hand[p]}}
    /\ UNCHANGED <<clientVars, historyVars>>

Concludes(p) ==
    /\ Operator!Announce(p) \/ Operator!Close(p)
    /\ UNCHANGED <<clientVars, failing, historyVars>>

Stop(p) == Cancel(p) /\ UNCHANGED <<operatorVars, failing, historyVars>>

Restart(p) ==
    /\ \E s \in Settings[p] : Start(p, s)
    /\ \E c \in Cooldowns : Operator!Start(p, c)
    /\ author' = [r \in Resources |-> IF author[r] = p THEN Nobody ELSE author[r]]
    /\ UNCHANGED <<failing, quiet>>

Change(r) ==
    /\ failing' = IF r \in failing THEN failing \ {r} ELSE failing \union {r}
    /\ UNCHANGED <<clientVars, operatorVars, historyVars>>

Tick ==
    /\ ClientTime
    /\ Operator!PassTime
    /\ quiet' = [r \in Resources |-> IF quiet[r] = 0 THEN 0 ELSE quiet[r] - 1]
    /\ UNCHANGED <<failing, author>>

Works(p) ==
    \/ ClientStep(p) /\ UNCHANGED <<operatorVars, failing, historyVars>>
    \/ TakeAnswer(p) \/ TakeError(p) \/ PatchLands(p) \/ Concludes(p)

Next ==
    \/ Tick
    \/ \E r \in Resources : Change(r) \/ \E p \in Clients : Begin(p, r)
    \/ \E p \in Clients : Asks(p) \/ Works(p) \/ Stop(p) \/ Restart(p)

(* Time goes on, for no process fails and asks again in no time at all; a  *)
(* process runs, and its calls of the API server return.  Nothing is       *)
(* assumed of the LLM service.                                             *)
Fairness == SF_vars(Tick) /\ \A p \in Clients : WF_vars(Works(p))

Spec == Init /\ [][Next]_vars /\ Fairness

-----------------------------------------------------------------------------
(* Properties *)

Sends(p) == call'[p].sent > call[p].sent

\* What is left of AC7 with several processes: within the cooldown of its
\* last answer, a workload is asked about only by another process than the
\* one that got this answer, or by one that was restarted since; never by the
\* same one, however its calls fail, wait and are repeated.
AskedAgainByOthersOnly ==
    [][\A p \in Clients : Sends(p) /\ quiet[hand[p]] > 0 => author[hand[p]] # p]_vars

\* A worker is never held up for ever by a workload: whatever the service
\* does, its call ends and the next key is taken, provided requests have a
\* timeout; without one, it ends at least when the process is stopped.
WorkerReturns ==
    \A p \in Clients :
        hand[p] # NoResource /\ (setting[p].timeout > 0 \/ call[p].cancelled)
            ~> hand[p] = NoResource

\* docs/requirements.md, AC7: the same resource is not re-analyzed within
\* ANALYZE_COOLDOWN_MINUTES.
NotReanalysed == [][\A p \in Clients : Sends(p) => quiet[hand[p]] = 0]_vars
=============================================================================
