------------------------------ MODULE LLMClient ------------------------------
(***************************************************************************)
(* Client.Analyze (operator/internal/llmclient): one request after another *)
(* until one is answered, with a back-off that grows with the attempt, a   *)
(* timeout on each request, and a context that is done when the process    *)
(* stops.  Only the clock ends a request the service does not answer.      *)
(***************************************************************************)
EXTENDS Integers

CONSTANTS
    Clients,    \* operator processes; each has one worker, so one call at a time
    Settings,   \* what each process may be configured with: [retries, timeout]
    MaxBackoff  \* the longest wait between two attempts, in ticks

\* LLM_CLIENT_MAX_RETRIES is any integer; no timeout (LLM_CLIENT_TIMEOUT at
\* or below 0) is 0.
Setting == [retries : Int, timeout : Nat]

ASSUME ClientAssumption ==
    Settings \in [Clients -> SUBSET Setting] /\ MaxBackoff \in Nat

VARIABLES
    setting,  \* configuration of each process
    call      \* the call each process is in

clientVars == <<setting, call>>

\* attempt counts from 0, left is what is left of the running timer; sent and
\* elapsed are history: requests sent and ticks spent in the call.  Elapsed
\* counts only under a timeout: without one there is no bound to compare with.
PCs == {"idle", "loop", "backoff", "send", "await", "ok", "error"}
NoCall == [pc |-> "idle", attempt |-> 0, left |-> 0, cancelled |-> FALSE,
           sent |-> 0, elapsed |-> 0]

ClientTypeOK ==
    /\ setting \in [Clients -> Setting]
    /\ \A c \in Clients : setting[c] \in Settings[c]
    /\ call \in [Clients -> [pc : PCs, attempt : Nat, left : Nat,
                             cancelled : BOOLEAN, sent : Nat, elapsed : Nat]]

At(c, pc) == call[c].pc = pc
Update(c, state) == call' = [call EXCEPT ![c] = state] /\ UNCHANGED setting
Goto(c, pc) == Update(c, [call[c] EXCEPT !.pc = pc, !.left = 0])

ClientInit ==
    /\ setting \in [Clients -> UNION {Settings[c] : c \in Clients}]
    /\ \A c \in Clients : setting[c] \in Settings[c]
    /\ call = [c \in Clients |-> NoCall]

Start(c, s) ==
    /\ setting' = [setting EXCEPT ![c] = s]
    /\ call' = [call EXCEPT ![c] = NoCall]

\* The manager stops: the context of the call is done.
Cancel(c) ==
    /\ ~call[c].cancelled
    /\ Update(c, [call[c] EXCEPT !.cancelled = TRUE])

Call(c) == At(c, "idle") /\ ~call[c].cancelled /\ Goto(c, "loop")

Return(c) ==
    /\ call[c].pc \in {"ok", "error"}
    /\ Update(c, [NoCall EXCEPT !.cancelled = call[c].cancelled])

-----------------------------------------------------------------------------
(* The loop *)

\* Bug: one attempt too many.
ExhaustedLate(c) == call[c].attempt > setting[c].retries + 1

Exhausted(c) == call[c].attempt > setting[c].retries

\* Bug: the wait is not capped.
BackoffUncapped(n) == n

Backoff(n) == IF n > MaxBackoff THEN MaxBackoff ELSE n

GiveUp(c) == At(c, "loop") /\ Exhausted(c) /\ Goto(c, "error")

FirstAttempt(c) ==
    /\ At(c, "loop")
    /\ ~Exhausted(c)
    /\ call[c].attempt = 0
    /\ Goto(c, "send")

Wait(c) ==
    /\ At(c, "loop")
    /\ ~Exhausted(c)
    /\ call[c].attempt > 0
    /\ Update(c, [call[c] EXCEPT !.pc = "backoff", !.left = Backoff(call[c].attempt)])

WakeUp(c) == At(c, "backoff") /\ call[c].left = 0 /\ Goto(c, "send")

Abandon(c) == At(c, "backoff") /\ call[c].cancelled /\ Goto(c, "error")

NextAttempt(c) ==
    Update(c, [call[c] EXCEPT !.pc = "loop", !.left = 0, !.attempt = @ + 1])

\* The request cannot be built, or not be sent, or the context is done.
SendFails(c) == At(c, "send") /\ NextAttempt(c)

Send(c) ==
    /\ At(c, "send")
    /\ ~call[c].cancelled
    /\ Update(c, [call[c] EXCEPT !.pc = "await", !.left = setting[c].timeout,
                                 !.sent = @ + 1])

\* The request is cut off: while it waits for the status, which is an error
\* like any other, or while the body is read, which is then taken for an
\* answer that cannot be decoded and ends the call.
CutOff(c) == NextAttempt(c) \/ Goto(c, "error")

\* Bug: the request has no deadline, only the context ends it.
NeverTimesOut(c) == At(c, "await") /\ call[c].cancelled /\ CutOff(c)

TimesOut(c) ==
    /\ At(c, "await")
    /\ setting[c].timeout > 0 /\ call[c].left = 0
    /\ CutOff(c)

Aborted(c) == At(c, "await") /\ call[c].cancelled /\ CutOff(c)

(* The service, or the connection to it *)

Responds(c) == At(c, "await") /\ Goto(c, "ok")
Garbles(c) == At(c, "await") /\ Goto(c, "error")
Refuses(c) == At(c, "await") /\ NextAttempt(c)

ClientStep(c) ==
    \/ GiveUp(c) \/ FirstAttempt(c) \/ Wait(c) \/ WakeUp(c) \/ Abandon(c)
    \/ SendFails(c) \/ Send(c) \/ TimesOut(c) \/ Aborted(c)

ServiceStep(c) == Responds(c) \/ Garbles(c) \/ Refuses(c)

(* Time passes while every process is idle or waits; a timer that has run  *)
(* down, or a context that is done, is seen before time goes on.           *)

Waits(c) ==
    /\ ~call[c].cancelled
    /\ \/ At(c, "backoff") /\ call[c].left > 0
       \/ At(c, "await") /\ (setting[c].timeout > 0 => call[c].left > 0)

\* Bug: no floor.
LaterBelowZero(c) ==
    IF At(c, "idle") THEN call[c]
    ELSE [call[c] EXCEPT !.left = @ - 1,
                         !.elapsed = IF setting[c].timeout > 0 THEN @ + 1 ELSE @]

Later(c) ==
    IF At(c, "idle") THEN call[c]
    ELSE [call[c] EXCEPT !.left = IF @ > 0 THEN @ - 1 ELSE 0,
                         !.elapsed = IF setting[c].timeout > 0 THEN @ + 1 ELSE @]

ClientTime ==
    /\ \A c \in Clients : At(c, "idle") \/ Waits(c)
    /\ call' = [c \in Clients |-> Later(c)]
    /\ UNCHANGED setting

ClientNext ==
    \/ ClientTime
    \/ \E c \in Clients :
         \/ \E s \in Settings[c] : Start(c, s)
         \/ Call(c) \/ ClientStep(c) \/ ServiceStep(c) \/ Return(c) \/ Cancel(c)

ClientSpec == ClientInit /\ [][ClientNext]_clientVars

-----------------------------------------------------------------------------
(* Properties *)

Attempts(c) == IF setting[c].retries < 0 THEN 0 ELSE setting[c].retries + 1

\* A call sends at most maxRetries + 1 requests, whichever way each of them
\* ends, and none when the number of retries is negative; it has an answer
\* only when it sent one.
RequestsBounded ==
    \A c \in Clients :
        /\ call[c].sent <= Attempts(c)
        /\ At(c, "ok") => call[c].sent > 0

\* Twice the time of the first n back-offs: 1, 2, ... up to the longest.
TwiceBackoffs(n) ==
    IF n <= MaxBackoff THEN n * (n + 1)
    ELSE MaxBackoff * (MaxBackoff + 1) + 2 * ((n - MaxBackoff) * MaxBackoff)

\* With a timeout, the one worker of a process is held up by a call for at
\* most all timeouts and all back-offs, and what it then acts on is no older.
CallTimeBounded ==
    \A c \in Clients : setting[c].timeout > 0 =>
        IF setting[c].retries < 0 THEN call[c].elapsed = 0
        ELSE 2 * call[c].elapsed <= 2 * (Attempts(c) * setting[c].timeout)
                                      + TwiceBackoffs(setting[c].retries)
=============================================================================
