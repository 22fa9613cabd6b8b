---------------------------- MODULE Remediation -----------------------------
(***************************************************************************)
(* What an operator process promises the LLM service and the API server,   *)
(* whatever its queue, its cache and its watches do inside: it has one     *)
(* workload in hand, asks about it only when the cooldown of that workload *)
(* is over, rests after an answer, and applies the answer once at most and *)
(* never after telling anybody about it.                                   *)
(* WorkloadController implements this; LogJedi composes processes of it.   *)
(***************************************************************************)
EXTENDS Naturals

CONSTANTS
    Procs,        \* operator processes
    Resources,    \* workloads
    MaxCooldown,  \* the longest configured cooldown, in ticks
    NoResource    \* a process has nothing in hand

VARIABLES
    cooldown,  \* the cooldown each process was started with
    hand,      \* the workload each process has in hand
    stage,     \* what it does about it
    rest,      \* ticks until it may ask about a workload again
    outcome    \* what was done about its answer

vars == <<cooldown, hand, stage, rest, outcome>>

TypeOK ==
    /\ cooldown \in [Procs -> 0 .. MaxCooldown]
    /\ hand \in [Procs -> Resources \union {NoResource}]
    /\ stage \in [Procs -> {"idle", "asking", "acting"}]
    /\ rest \in [Procs -> [Resources -> 0 .. MaxCooldown]]
    /\ outcome \in [Procs -> SUBSET {"patched", "announced"}]

Init ==
    /\ cooldown \in [Procs -> 0 .. MaxCooldown]
    /\ hand = [p \in Procs |-> NoResource]
    /\ stage = [p \in Procs |-> "idle"]
    /\ rest = [p \in Procs |-> [r \in Resources |-> 0]]
    /\ outcome = [p \in Procs |-> {}]

\* The process starts again: no cooldown is remembered.
Start(p, c) ==
    /\ cooldown' = [cooldown EXCEPT ![p] = c]
    /\ hand' = [hand EXCEPT ![p] = NoResource]
    /\ stage' = [stage EXCEPT ![p] = "idle"]
    /\ rest' = [rest EXCEPT ![p] = [r \in Resources |-> 0]]
    /\ outcome' = [outcome EXCEPT ![p] = {}]

Ask(p, r) ==
    /\ stage[p] = "idle"
    /\ rest[p][r] = 0
    /\ stage' = [stage EXCEPT ![p] = "asking"]
    /\ hand' = [hand EXCEPT ![p] = r]
    /\ UNCHANGED <<cooldown, rest, outcome>>

Drop(p) ==
    /\ stage' = [stage EXCEPT ![p] = "idle"]
    /\ hand' = [hand EXCEPT ![p] = NoResource]
    /\ outcome' = [outcome EXCEPT ![p] = {}]
    /\ UNCHANGED <<cooldown, rest>>

\* No answer: nothing rests, the workload may be asked about at once.
Unanswered(p) == stage[p] = "asking" /\ Drop(p)

Answered(p) ==
    /\ stage[p] = "asking"
    /\ stage' = [stage EXCEPT ![p] = "acting"]
    /\ rest' = [rest EXCEPT ![p][hand[p]] = cooldown[p]]
    /\ UNCHANGED <<cooldown, hand, outcome>>

Conclude(p, o) ==
    /\ stage[p] = "acting"
    /\ outcome' = [outcome EXCEPT ![p] = @ \union {o}]
    /\ UNCHANGED <<cooldown, hand, stage, rest>>

\* An answer is applied at most once, and never one that was announced, as a
\* suggestion, before.  One that was applied may be announced; or nothing may
\* come of an answer.
Patch(p) == outcome[p] = {} /\ Conclude(p, "patched")
Announce(p) == "announced" \notin outcome[p] /\ Conclude(p, "announced")
Close(p) == stage[p] = "acting" /\ Drop(p)

PassTime ==
    /\ rest' = [p \in Procs |-> [r \in Resources |->
                    IF rest[p][r] = 0 THEN 0 ELSE rest[p][r] - 1]]
    /\ UNCHANGED <<cooldown, hand, stage, outcome>>

Next ==
    \/ PassTime
    \/ \E p \in Procs :
         \/ \E c \in 0 .. MaxCooldown : Start(p, c)
         \/ \E r \in Resources : Ask(p, r)
         \/ Unanswered(p) \/ Answered(p) \/ Patch(p) \/ Announce(p) \/ Close(p)

Spec == Init /\ [][Next]_vars
=============================================================================
