---------------------------- MODULE LogJedi_proofs ----------------------------
(***************************************************************************)
(* Proofs about the composed system, for every number of processes and     *)
(* workloads and every configuration: the bounds of LLMClient hold in it,  *)
(* and no process asks again within the cooldown of its own answer.        *)
(***************************************************************************)
EXTENDS LogJedi, LLMClient_proofs

\* What a process still has to rest is what is left of the cooldown of its
\* answer, and it rests from no workload that it is asking about.
RestInv ==
    /\ \A r \in Resources, p \in Clients : author[r] = p => rest[p][r] = quiet[r]
    /\ \A p \in Clients : stage[p] = "asking" => hand[p] \in Resources /\ rest[p][hand[p]] = 0

SystemInv == TypeOK /\ ClientInv /\ RestInv

\* Whether a process is in a call, and what it is in a call for.
AskingInv == \A p \in Clients : At(p, "idle") <=> stage[p] # "asking"

-----------------------------------------------------------------------------
(* The clients of the system *)

\* Every step of the system is a step of a client, or none.
LEMMA ClientsStep == [Next]_vars => [ClientNext]_clientVars
<1>. SUFFICES ASSUME [Next]_vars PROVE [ClientNext]_clientVars
  OBVIOUS
<1>1. CASE Tick
  BY <1>1 DEF Tick, ClientNext
<1>2. ASSUME NEW r \in Resources, Change(r) PROVE UNCHANGED clientVars
  BY <1>2 DEF Change
<1>3. ASSUME NEW r \in Resources, NEW p \in Clients, Begin(p, r) PROVE ClientNext
  BY <1>3 DEF Begin, ClientNext
<1>4. ASSUME NEW p \in Clients, Asks(p) PROVE ClientNext
  BY <1>4 DEF Asks, ClientNext
<1>5. ASSUME NEW p \in Clients, Works(p) PROVE ClientNext \/ UNCHANGED clientVars
  BY <1>5 DEF Works, TakeAnswer, TakeError, PatchLands, Concludes, ClientNext
<1>6. ASSUME NEW p \in Clients, Stop(p) PROVE ClientNext
  BY <1>6 DEF Stop, ClientNext
<1>7. ASSUME NEW p \in Clients, Restart(p) PROVE ClientNext
  BY <1>7 DEF Restart, ClientNext
<1>8. CASE UNCHANGED vars
  BY <1>8 DEF vars
<1>. QED BY <1>1, <1>2, <1>3, <1>4, <1>5, <1>6, <1>7, <1>8 DEF Next

LEMMA ClientsInit == Init => ClientInv
  BY ClientInvInit DEF Init

LEMMA ClientsKeep == ClientInv /\ [Next]_vars => ClientInv'
  BY ClientsStep, ClientInvStep

\* Whatever the service, the cooldowns and the other processes do, a call
\* sends at most as many requests as it has attempts.
THEOREM SystemSendsBounded == Spec => []RequestsBounded
  BY ClientsInit, ClientsKeep, ClientInvBounds, PTL DEF Spec

\* ... and holds its worker up for a bounded time, when requests time out.
THEOREM SystemTimeIsBounded == Spec => []CallTimeBounded
  BY ClientsInit, ClientsKeep, ClientInvBounds, PTL DEF Spec

-----------------------------------------------------------------------------
(* Steps within a call *)

\* A step of the loop or of the service begins and ends in the call.
LEMMA StaysInCall ==
    ASSUME ClientTypeOK, NEW p \in Clients, ClientStep(p) \/ ServiceStep(p)
    PROVE  /\ ~At(p, "idle") /\ ~At(p, "idle")'
           /\ \A q \in Clients : q # p => call'[q] = call[q]
<1>1. CASE GiveUp(p) \/ FirstAttempt(p) \/ WakeUp(p) \/ Abandon(p) \/ Responds(p) \/ Garbles(p)
  BY <1>1 DEF GiveUp, FirstAttempt, WakeUp, Abandon, Responds, Garbles, Goto, Update, At,
              ClientTypeOK
<1>2. CASE Wait(p) \/ Send(p)
  BY <1>2 DEF Wait, Send, Update, At, ClientTypeOK
<1>3. ASSUME NextAttempt(p) PROVE ~At(p, "idle")' /\ \A q \in Clients : q # p => call'[q] = call[q]
  BY <1>3 DEF NextAttempt, Update, At, ClientTypeOK
<1>4. ASSUME Goto(p, "error") PROVE ~At(p, "idle")' /\ \A q \in Clients : q # p => call'[q] = call[q]
  BY <1>4 DEF Goto, Update, At, ClientTypeOK
<1>5. CASE SendFails(p) \/ TimesOut(p) \/ Aborted(p) \/ Refuses(p)
  BY <1>3, <1>4, <1>5 DEF SendFails, TimesOut, Aborted, Refuses, CutOff, At
<1>. QED BY <1>1, <1>2, <1>5 DEF ClientStep, ServiceStep

\* The clock moves no call and sends nothing.
LEMMA TimeMovesNoCall ==
    ASSUME ClientTypeOK, ClientTime, NEW p \in Clients
    PROVE  call'[p].pc = call[p].pc /\ call'[p].sent = call[p].sent
<1>1. call[p] \in CallType /\ call'[p] = Later(p)
  BY DEF ClientTypeOK, CallType, ClientTime
<1>2. PICK l : l = (IF call[p].left > 0 THEN call[p].left - 1 ELSE 0)
  OBVIOUS
<1>3. PICK e : e = (IF setting[p].timeout > 0 THEN call[p].elapsed + 1 ELSE call[p].elapsed)
  OBVIOUS
<1>4. Later(p) = IF At(p, "idle") THEN call[p] ELSE [call[p] EXCEPT !.left = l, !.elapsed = e]
  BY <1>2, <1>3 DEF Later
<1>. QED BY <1>1, <1>4 DEF CallType

\* Only Send sends.
LEMMA OnlySendSends ==
    ASSUME ClientTypeOK, [ClientNext]_clientVars, NEW p \in Clients, Sends(p)
    PROVE  At(p, "send")
<1>1. call[p] \in CallType /\ call[p].sent \in Nat
  BY DEF ClientTypeOK, CallType
<1>2. ~UNCHANGED clientVars
  BY <1>1 DEF clientVars, Sends
<1>3. ~ClientTime
  BY <1>1, TimeMovesNoCall DEF Sends
<1>4. ASSUME NEW c \in Clients, NEW k, Update(c, k), k.sent = call[c].sent \/ k.sent = 0
      PROVE  FALSE
  <2>1. call'[p].sent = call[p].sent \/ call'[p].sent = 0
    BY <1>4 DEF Update, ClientTypeOK
  <2>. QED BY <1>1, <2>1 DEF Sends
<1>5. ASSUME NEW c \in Clients PROVE call[c] \in CallType
  BY DEF ClientTypeOK, CallType
<1>6. ASSUME NEW c \in Clients PROVE ~Call(c) /\ ~Return(c) /\ ~Cancel(c)
  BY <1>4, <1>5 DEF Call, Return, Cancel, Goto, NoCall, CallType
<1>7. ASSUME NEW c \in Clients, NEW s \in Settings[c] PROVE ~Start(c, s)
  BY <1>1 DEF Start, NoCall, Sends, ClientTypeOK
<1>8. ASSUME NEW c \in Clients PROVE ~NextAttempt(c) /\ \A pc : ~Goto(c, pc)
  BY <1>4, <1>5 DEF NextAttempt, Goto, CallType
<1>9. ASSUME NEW c \in Clients, ClientStep(c) \/ ServiceStep(c) PROVE Send(c)
  <2>1. ~Wait(c)
    BY <1>4, <1>5 DEF Wait, CallType
  <2>. QED BY <1>8, <1>9, <2>1
           DEF ClientStep, ServiceStep, GiveUp, FirstAttempt, WakeUp, Abandon, SendFails,
               TimesOut, Aborted, CutOff, Responds, Garbles, Refuses
<1>10. PICK c \in Clients : Send(c)
  BY <1>2, <1>3, <1>6, <1>7, <1>9 DEF ClientNext
<1>11. c = p
  BY <1>1, <1>10 DEF Send, Update, Sends, ClientTypeOK
<1>. QED BY <1>10, <1>11 DEF Send

-----------------------------------------------------------------------------
(* The invariant of the system *)

LEMMA SystemInvInit == Init => SystemInv
<1>. SUFFICES ASSUME Init PROVE SystemInv
  OBVIOUS
<1>1. ClientInv
  BY ClientsInit
<1>2. Operator!TypeOK
  BY CooldownAssumption DEF Init, Operator!Init, Operator!TypeOK
<1>3. AskingInv
  BY DEF Init, ClientInit, Operator!Init, At, NoCall, AskingInv
<1>4. RestInv
  BY NobodyAssumption DEF Init, Operator!Init, RestInv
<1>5. quiet \in [Resources -> 0 .. MaxCooldown] /\ author \in [Resources -> Clients \union {Nobody}]
  BY CooldownAssumption DEF Init
<1>. QED BY <1>1, <1>2, <1>3, <1>4, <1>5 DEF SystemInv, TypeOK, ClientInv, AskingInv, Init

\* A step of the operators keeps their types.
LEMMA OperatorTyped ==
    ASSUME Operator!TypeOK, [Operator!Next]_operatorVars PROVE Operator!TypeOK'
<1>m. MaxCooldown \in Nat
  BY CooldownAssumption
<1>1. CASE Operator!PassTime
  <2>1. \A n \in 0 .. MaxCooldown : (IF n = 0 THEN 0 ELSE n - 1) \in 0 .. MaxCooldown
    BY <1>m
  <2>2. rest' \in [Clients -> [Resources -> 0 .. MaxCooldown]]
    BY <1>1, <2>1 DEF Operator!TypeOK, Operator!PassTime
  <2>. QED BY <1>1, <2>2 DEF Operator!TypeOK, Operator!PassTime
<1>2. ASSUME NEW p \in Clients, NEW c \in 0 .. MaxCooldown, Operator!Start(p, c)
      PROVE  Operator!TypeOK'
  BY <1>2, <1>m DEF Operator!TypeOK, Operator!Start
<1>3. ASSUME NEW p \in Clients, NEW r \in Resources, Operator!Ask(p, r) PROVE Operator!TypeOK'
  BY <1>3 DEF Operator!TypeOK, Operator!Ask
<1>4. ASSUME NEW p \in Clients, Operator!Unanswered(p) \/ Operator!Close(p)
      PROVE  Operator!TypeOK'
  BY <1>4 DEF Operator!TypeOK, Operator!Unanswered, Operator!Close, Operator!Drop
<1>5. ASSUME NEW p \in Clients, Operator!Answered(p) PROVE Operator!TypeOK'
  BY <1>5 DEF Operator!TypeOK, Operator!Answered
<1>6. ASSUME NEW p \in Clients, Operator!Patch(p) \/ Operator!Announce(p)
      PROVE  Operator!TypeOK'
  BY <1>6 DEF Operator!TypeOK, Operator!Patch, Operator!Announce, Operator!Conclude
<1>7. CASE UNCHANGED operatorVars
  BY <1>7 DEF Operator!TypeOK, operatorVars
<1>. QED BY <1>1, <1>2, <1>3, <1>4, <1>5, <1>6, <1>7 DEF Operator!Next

\* The steps of the system are steps of the operators, or none of theirs.
LEMMA OperatorsStep == [Next]_vars => [Operator!Next]_operatorVars
<1>. SUFFICES ASSUME [Next]_vars PROVE [Operator!Next]_operatorVars
  OBVIOUS
<1>1. CASE Tick
  BY <1>1 DEF Tick, Operator!Next
<1>2. ASSUME NEW r \in Resources, Change(r) PROVE UNCHANGED operatorVars
  BY <1>2 DEF Change
<1>3. ASSUME NEW r \in Resources, NEW p \in Clients, Begin(p, r) PROVE Operator!Next
  BY <1>3 DEF Begin, Operator!Next
<1>4. ASSUME NEW p \in Clients, Asks(p) \/ Stop(p) PROVE UNCHANGED operatorVars
  BY <1>4 DEF Asks, Stop
<1>5. ASSUME NEW p \in Clients, Works(p) PROVE Operator!Next \/ UNCHANGED operatorVars
  BY <1>5 DEF Works, TakeAnswer, TakeError, PatchLands, Concludes, Operator!Next
<1>6. ASSUME NEW p \in Clients, Restart(p) PROVE Operator!Next
  BY <1>6, CooldownAssumption DEF Restart, Operator!Next
<1>7. CASE UNCHANGED vars
  BY <1>7 DEF vars
<1>. QED BY <1>1, <1>2, <1>3, <1>4, <1>5, <1>6, <1>7 DEF Next

\* The parts of the invariant that a step of one process or of the clock has
\* to keep, once the types of LLMClient and Remediation are known.
Kept == AskingInv' /\ RestInv'
        /\ quiet' \in [Resources -> 0 .. MaxCooldown]
        /\ author' \in [Resources -> Clients \union {Nobody}]
        /\ failing' \subseteq Resources

LEMMA TickKeeps == ASSUME SystemInv, Tick PROVE Kept
<1>. USE DEF SystemInv, TypeOK, Operator!TypeOK
<1>1. \A p \in Clients : call'[p].pc = call[p].pc
  BY TimeMovesNoCall DEF Tick
<1>2. AskingInv'
  BY <1>1 DEF Tick, Operator!PassTime, At, AskingInv
<1>3. /\ \A r \in Resources : quiet'[r] = (IF quiet[r] = 0 THEN 0 ELSE quiet[r] - 1)
      /\ \A p \in Clients, r \in Resources :
            rest'[p][r] = (IF rest[p][r] = 0 THEN 0 ELSE rest[p][r] - 1)
  BY DEF Tick, Operator!PassTime
<1>4. UNCHANGED <<author, stage, hand, failing>>
  BY DEF Tick, Operator!PassTime
<1>5. RestInv'
  BY <1>3, <1>4 DEF RestInv
<1>6. quiet' \in [Resources -> 0 .. MaxCooldown]
  <2>1. \A n \in 0 .. MaxCooldown : (IF n = 0 THEN 0 ELSE n - 1) \in 0 .. MaxCooldown
    BY CooldownAssumption
  <2>. QED BY <2>1 DEF Tick
<1>. QED BY <1>2, <1>4, <1>5, <1>6 DEF Kept

LEMMA BeginKeeps ==
    ASSUME SystemInv, NEW p \in Clients, NEW r \in Resources, Begin(p, r) PROVE Kept
<1>. USE DEF SystemInv, TypeOK, Operator!TypeOK
<1>1. ~At(p, "idle")' /\ \A q \in Clients : q # p => call'[q] = call[q]
  BY DEF Begin, Call, Goto, Update, At, ClientTypeOK
<1>2. AskingInv'
  BY <1>1 DEF Begin, Operator!Ask, AskingInv, At
<1>3. RestInv'
  BY DEF Begin, Operator!Ask, RestInv, historyVars
<1>. QED BY <1>2, <1>3 DEF Kept, Begin, historyVars

LEMMA AsksKeeps == ASSUME SystemInv, NEW p \in Clients, Asks(p) PROVE Kept
<1>. USE DEF SystemInv, TypeOK, Operator!TypeOK
<1>1. ~At(p, "idle") /\ ~At(p, "idle")' /\ \A q \in Clients : q # p => call'[q] = call[q]
  BY StaysInCall DEF Asks
<1>2. UNCHANGED <<stage, hand, rest, failing, quiet, author>>
  BY DEF Asks, operatorVars, historyVars
<1>3. AskingInv'
  BY <1>1, <1>2 DEF AskingInv, At
<1>. QED BY <1>2, <1>3 DEF Kept, RestInv

\* After Return the process is in no call.
LEMMA ReturnEnds ==
    ASSUME ClientTypeOK, NEW p \in Clients, Return(p)
    PROVE  At(p, "idle")' /\ \A q \in Clients : q # p => call'[q] = call[q]
  BY DEF ClientTypeOK, Return, Update, At, NoCall

LEMMA TakeAnswerKeeps == ASSUME SystemInv, NEW p \in Clients, TakeAnswer(p) PROVE Kept
<1>. USE DEF SystemInv, TypeOK, Operator!TypeOK
<1>1. At(p, "idle")' /\ \A q \in Clients : q # p => call'[q] = call[q]
  BY ReturnEnds DEF TakeAnswer
<1>2. stage[p] = "asking" /\ hand[p] \in Resources
  BY DEF TakeAnswer, Operator!Answered, RestInv
<1>3. AskingInv'
  BY <1>1, <1>2 DEF TakeAnswer, Operator!Answered, AskingInv, At
<1>4. /\ quiet' = [quiet EXCEPT ![hand[p]] = cooldown[p]]
      /\ author' = [author EXCEPT ![hand[p]] = p]
      /\ rest' = [rest EXCEPT ![p] = [rest[p] EXCEPT ![hand[p]] = cooldown[p]]]
      /\ stage' = [stage EXCEPT ![p] = "acting"]
      /\ UNCHANGED <<hand, failing>>
  BY DEF TakeAnswer, Operator!Answered
<1>5. ASSUME NEW r \in Resources, NEW q \in Clients, author'[r] = q
      PROVE  rest'[q][r] = quiet'[r]
  BY <1>2, <1>4, <1>5 DEF RestInv
<1>6. ASSUME NEW q \in Clients, stage'[q] = "asking"
      PROVE  hand'[q] \in Resources /\ rest'[q][hand'[q]] = 0
  BY <1>2, <1>4, <1>6 DEF RestInv
<1>7. quiet' \in [Resources -> 0 .. MaxCooldown] /\ author' \in [Resources -> Clients \union {Nobody}]
  BY <1>2, <1>4
<1>. QED BY <1>3, <1>4, <1>5, <1>6, <1>7 DEF Kept, RestInv

LEMMA DropKeeps ==
    ASSUME SystemInv, NEW p \in Clients, TakeError(p) \/ PatchLands(p) \/ Concludes(p)
    PROVE  Kept
<1>. USE DEF SystemInv, TypeOK, Operator!TypeOK
<1>1. /\ \A q \in Clients : q # p => stage'[q] = stage[q] /\ hand'[q] = hand[q]
      /\ stage'[p] # "asking"
      /\ UNCHANGED <<rest, quiet, author>>
      /\ failing' \subseteq Resources
  BY DEF TakeError, PatchLands, Concludes, Operator!Unanswered, Operator!Patch,
         Operator!Announce, Operator!Close, Operator!Drop, Operator!Conclude, historyVars
<1>2. At(p, "idle")' /\ \A q \in Clients : q # p => call'[q] = call[q]
  <2>1. CASE TakeError(p)
    BY <2>1, ReturnEnds DEF TakeError
  <2>2. CASE PatchLands(p) \/ Concludes(p)
    <3>1. stage[p] # "asking" /\ UNCHANGED call
      BY <2>2 DEF PatchLands, Concludes, Operator!Patch, Operator!Announce, Operator!Close,
                  Operator!Conclude, clientVars
    <3>. QED BY <3>1 DEF At
  <2>. QED BY <2>1, <2>2
<1>3. AskingInv'
  BY <1>1, <1>2 DEF AskingInv, At
<1>4. RestInv'
  BY <1>1 DEF RestInv
<1>. QED BY <1>1, <1>3, <1>4 DEF Kept

LEMMA StopKeeps == ASSUME SystemInv, NEW p \in Clients, Stop(p) PROVE Kept
<1>. USE DEF SystemInv, TypeOK, Operator!TypeOK
<1>1. \A q \in Clients : call'[q].pc = call[q].pc
  BY DEF Stop, Cancel, Update, ClientTypeOK
<1>2. UNCHANGED <<stage, hand, rest, failing, quiet, author>>
  BY DEF Stop, operatorVars, historyVars
<1>3. AskingInv'
  BY <1>1, <1>2 DEF AskingInv, At
<1>. QED BY <1>2, <1>3 DEF Kept, RestInv

LEMMA RestartKeeps == ASSUME SystemInv, NEW p \in Clients, Restart(p) PROVE Kept
<1>. USE DEF SystemInv, TypeOK, Operator!TypeOK
<1>1. At(p, "idle")' /\ \A q \in Clients : q # p => call'[q] = call[q]
  BY DEF Restart, Start, At, NoCall, ClientTypeOK
<1>2. /\ stage' = [stage EXCEPT ![p] = "idle"]
      /\ hand' = [hand EXCEPT ![p] = NoResource]
      /\ rest' = [rest EXCEPT ![p] = [r \in Resources |-> 0]]
  BY DEF Restart, Operator!Start
<1>3. AskingInv'
  BY <1>1, <1>2 DEF AskingInv, At
<1>4. \A r \in Resources : author'[r] = (IF author[r] = p THEN Nobody ELSE author[r])
  BY DEF Restart
<1>5. UNCHANGED <<failing, quiet>>
  BY DEF Restart
<1>6. RestInv'
  BY <1>2, <1>4, <1>5, NobodyAssumption DEF RestInv
<1>7. author' \in [Resources -> Clients \union {Nobody}]
  BY DEF Restart
<1>. QED BY <1>3, <1>5, <1>6, <1>7 DEF Kept

LEMMA StillKeeps ==
    ASSUME SystemInv, UNCHANGED vars \/ \E r \in Resources : Change(r) PROVE Kept
<1>. USE DEF SystemInv, TypeOK, Operator!TypeOK
<1>1. UNCHANGED <<call, stage, hand, rest, quiet, author>>
  BY DEF vars, Change, clientVars, operatorVars, historyVars
<1>2. failing' \subseteq Resources
  BY DEF vars, Change
<1>. QED BY <1>1, <1>2 DEF Kept, AskingInv, RestInv, At

LEMMA SystemInvStep == SystemInv /\ [Next]_vars => SystemInv'
<1>. SUFFICES ASSUME SystemInv, [Next]_vars PROVE SystemInv'
  OBVIOUS
<1>1. ClientInv' /\ Operator!TypeOK'
  BY ClientsKeep, OperatorsStep, OperatorTyped DEF SystemInv, TypeOK
<1>2. ASSUME NEW p \in Clients, Works(p) PROVE Kept
  BY <1>2, AsksKeeps, TakeAnswerKeeps, DropKeeps DEF Works, Asks
<1>3. Kept
  BY <1>2, TickKeeps, BeginKeeps, AsksKeeps, StopKeeps, RestartKeeps, StillKeeps DEF Next
<1>. QED BY <1>1, <1>3 DEF Kept, SystemInv, TypeOK, ClientInv, AskingInv

-----------------------------------------------------------------------------
\* Calls and reconciliations stay in step: a process is in a call exactly
\* while it asks about the workload it has in hand.
THEOREM SystemTypeCorrect == Spec => []TypeOK
<1>1. SystemInv => TypeOK
  BY DEF SystemInv
<1>. QED BY <1>1, SystemInvInit, SystemInvStep, PTL DEF Spec

\* No process asks about a workload within the cooldown of its own answer,
\* for every number of processes and every mixture of configurations.
THEOREM OthersAskAgainOnly == Spec => AskedAgainByOthersOnly
<1>. DEFINE Step == \A p \in Clients :
                      Sends(p) /\ quiet[hand[p]] > 0 => author[hand[p]] # p
<1>1. SystemInv /\ [Next]_vars => Step
  <2>. SUFFICES ASSUME SystemInv, [Next]_vars, NEW p \in Clients, Sends(p),
                       quiet[hand[p]] > 0, author[hand[p]] = p
                PROVE  FALSE
    OBVIOUS
  <2>1. At(p, "send")
    BY ClientsStep, OnlySendSends DEF SystemInv, TypeOK
  <2>2. stage[p] = "asking"
    BY <2>1 DEF SystemInv, TypeOK, At
  <2>3. hand[p] \in Resources /\ rest[p][hand[p]] = 0 /\ rest[p][hand[p]] = quiet[hand[p]]
    BY <2>2 DEF SystemInv, RestInv
  <2>. QED BY <2>3
<1>2. SystemInv /\ [Next]_vars => [Step]_vars
  BY <1>1
<1>. QED BY <1>2, SystemInvInit, SystemInvStep, PTL DEF Spec, AskedAgainByOthersOnly

-----------------------------------------------------------------------------
\* The system does nothing its parts do not promise: seen through its calls it
\* is the clients of LLMClient, and seen through the workloads in hand it is
\* the processes of Remediation, whichever steps of theirs are joined.
THEOREM SystemImplementsItsParts == Spec => ClientSpec /\ Operator!Spec
<1>1. Init => ClientInit /\ Operator!Init
  BY DEF Init
<1>2. [Next]_vars => [Operator!Next]_(Operator!vars)
  BY OperatorsStep DEF operatorVars, Operator!vars
<1>. QED BY <1>1, <1>2, ClientsStep, PTL DEF Spec, ClientSpec, Operator!Spec
=============================================================================
