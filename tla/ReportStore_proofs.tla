------------------------- MODULE ReportStore_proofs -------------------------
(***************************************************************************)
(* Proofs about the LLM service, for every number of analyses, threads and *)
(* outcomes underway and every cap of the lists.                           *)
(***************************************************************************)
EXTENDS ReportStore, TLAPS, FiniteSetTheorems, SequenceTheorems

-----------------------------------------------------------------------------
(* Lemmas about the operators of the model *)

\* Sets of analyses are finite.
LEMMA RequestsFinite ==
    ASSUME NEW S, S \subseteq Requests
    PROVE  IsFiniteSet(S) /\ Cardinality(S) \in Nat
<1>1. MaxRequests \in Int
  BY BoundsAssumption
<1>2. IsFiniteSet(Requests)
  BY <1>1, FS_Interval DEF Requests
<1>3. IsFiniteSet(S)
  BY <1>2, FS_Subset
<1>. QED BY <1>3, FS_CardinalityType

\* One more analysis in a set of them.
LEMMA CountIn ==
    ASSUME NEW S, S \subseteq Requests, NEW a \in Requests, a \notin S
    PROVE  Cardinality(S \union {a}) = Cardinality(S) + 1
  BY RequestsFinite, FS_AddElement

\* One analysis less in a set of them.
LEMMA CountOut ==
    ASSUME NEW S, S \subseteq Requests, NEW a \in S
    PROVE  Cardinality(S \ {a}) = Cardinality(S) - 1
  BY RequestsFinite, FS_RemoveElement

\* An analysis that was not asked for is nowhere in the service.
AskedInv == \A a \in Requests : phase[a] # "none" => a \in Asked

\* A list holds at least the entries whose tasks have yet to trim it, so that
\* a task that pops finds an entry.
Counted(g) ==
    /\ Cardinality(Trimming(g)) <= Len(ring[g])
    /\ Len(ring[g]) <= MaxKept + Cardinality(Trimming(g))

CountInv == \A g \in Rings : Counted(g)

-----------------------------------------------------------------------------
(* Which tasks are trimming a list *)

\* A task that goes on without beginning or ending to trim.
LEMMA TrimmingStays ==
    ASSUME TypeOK, NEW a \in Requests, NEW p \in Phases, NEW g \in Rings,
           phase' = [phase EXCEPT ![a] = p], UNCHANGED target,
           p \in {"check", "pop"} <=> phase[a] \in {"check", "pop"}
    PROVE  Trimming(g)' = Trimming(g)
  BY DEF Trimming, TypeOK

-----------------------------------------------------------------------------
(* Type correctness *)

LEMMA TypeInit == Init => TypeOK
<1>. SUFFICES ASSUME Init PROVE TypeOK
  OBVIOUS
<1>1. subject \in Seq(Workloads) /\ Len(subject) = 0 /\ MaxRequests \in Nat
  BY EmptySeq, BoundsAssumption DEF Init
<1>2. ring \in [Rings -> Seq(Requests)]
  BY EmptySeq DEF Init
<1>3. applied \in [Requests -> Workloads \union {NoWorkload}]
  BY DEF Init
<1>. QED BY <1>1, <1>2, <1>3 DEF Init, TypeOK, NoScan, Phases, Rings, Nobody

\* A list with a task that has yet to trim it is not empty.
LEMMA PopFinds ==
    ASSUME TypeOK, CountInv, NEW a \in Requests, phase[a] \in {"check", "pop"}
    PROVE  ring[target[a]] # <<>>
<1>. DEFINE g == target[a]
<1>1. g \in Rings /\ Trimming(g) \subseteq Requests /\ a \in Trimming(g)
  BY DEF TypeOK, Trimming
<1>2. Cardinality(Trimming(g)) # 0 /\ Cardinality(Trimming(g)) \in Nat
  BY <1>1, RequestsFinite, FS_EmptySet
<1>3. Cardinality(Trimming(g)) <= Len(ring[g])
  BY <1>1 DEF CountInv, Counted
<1>4. ring[g] \in Seq(Requests)
  BY <1>1 DEF TypeOK
<1>5. Len(ring[g]) \in Nat
  BY <1>4, LenProperties
<1>6. Len(ring[g]) # 0
  BY <1>2, <1>3, <1>5
<1>. QED BY <1>6, EmptySeq

LEMMA TypeStep == TypeOK /\ CountInv /\ [Next]_vars => TypeOK'
<1>. SUFFICES ASSUME TypeOK, CountInv, [Next]_vars PROVE TypeOK'
  OBVIOUS
<1>. USE DEF TypeOK, service, outcome, operator
<1>a. Len(subject) \in Nat /\ Nobody = 0 /\ MaxRequests \in Nat
  BY LenProperties, BoundsAssumption DEF Nobody
<1>1. ASSUME NEW w \in Workloads, Send(w) PROVE TypeOK'
  <2>1. subject' \in Seq(Workloads) /\ Len(subject') = Len(subject) + 1
    BY <1>1, AppendProperties DEF Send
  <2>2. Len(subject) + 1 \in Requests
    BY <1>1, <1>a DEF Send, Requests
  <2>3. phase' \in [Requests -> Phases]
    BY <1>1 DEF Send, Phases
  <2>4. /\ op' \in [at : {"idle", "waiting", "telling"}, req : Requests \union {Nobody}]
        /\ op'.at # "idle" /\ op'.req = Len(subject') /\ op'.req # Nobody
    BY <1>1, <1>a, <2>1, <2>2 DEF Send
  <2>5. Len(subject') <= MaxRequests
    BY <2>1, <2>2, <1>a DEF Requests
  <2>. QED BY <1>1, <2>1, <2>3, <2>4, <2>5 DEF Send
<1>2. ASSUME NEW w \in Workloads, Ask(w) PROVE TypeOK'
  BY <1>1, <1>2 DEF Ask
<1>3. CASE Retry
  <2>1. op.req \in 1 .. Len(subject)
    BY <1>3, <1>a DEF Retry
  <2>2. subject[op.req] \in Workloads
    BY <2>1, ElementOfSeq
  <2>. QED BY <1>1, <1>3, <2>2 DEF Retry
<1>4. CASE GiveUp
  BY <1>4 DEF GiveUp, Operator, Idle
<1>5. ASSUME NEW w \in Workloads, Apply(w) PROVE TypeOK'
  <2>1. op.req \in Requests
    BY <1>5 DEF Apply
  <2>2. applied' \in [Requests -> Workloads \union {NoWorkload}]
    BY <1>5 DEF Apply
  <2>. QED BY <1>5, <2>1, <2>2 DEF Apply, Operator
<1>6. CASE StopTelling
  BY <1>6 DEF StopTelling, Operator, Idle
<1>7. ASSUME NEW a \in Requests, Respond(a) PROVE TypeOK'
  BY <1>7 DEF Respond, Phases
<1>8. ASSUME NEW a \in Requests, StartTask(a) PROVE TypeOK'
  BY <1>8 DEF StartTask, Step, Phases
<1>9. ASSUME NEW a \in Requests, AppendRecord(a) PROVE TypeOK'
  <2>1. Append(ring[target[a]], a) \in Seq(Requests)
    BY AppendProperties
  <2>2. ring' \in [Rings -> Seq(Requests)]
    BY <1>9, <2>1 DEF AppendRecord
  <2>. QED BY <1>9, <2>2 DEF AppendRecord, Step, Phases
<1>10. ASSUME NEW a \in Requests, Check(a) PROVE TypeOK'
  BY <1>10 DEF Check, Done, Step, Phases, Rings
<1>11. ASSUME NEW a \in Requests, Pop(a) PROVE TypeOK'
  <2>1. ring[target[a]] \in Seq(Requests) /\ ring[target[a]] # <<>>
    BY <1>11, PopFinds DEF Pop, Done, Step
  <2>2. Tail(ring[target[a]]) \in Seq(Requests)
    BY <2>1, HeadTailProperties
  <2>3. ring' \in [Rings -> Seq(Requests)]
    BY <1>11, <2>2 DEF Pop
  <2>. QED BY <1>11, <2>3 DEF Pop, Done, Step, Phases, Rings
<1>18. ASSUME NEW a \in Requests, DropReport(a) PROVE TypeOK'
  BY <1>18 DEF DropReport, Step, Phases
<1>b. ring["reports"] \in Seq(Requests) /\ Len(ring["reports"]) \in Nat
  BY LenProperties DEF Rings
<1>c. NoScan \in [req : Requests \union {Nobody}, i : Nat, due : SUBSET Requests]
  BY DEF NoScan
<1>12. ASSUME NEW a \in Requests, BeginScan(a) PROVE TypeOK'
  <2>1. {r \in Listed : WantsStep(r, a)} \subseteq Requests
    BY <1>b, ElementOfSeq DEF Listed
  <2>2. a # Nobody
    BY <1>a DEF Requests
  <2>3. /\ scan' \in [req : Requests \union {Nobody}, i : Nat, due : SUBSET Requests]
        /\ scan'.req # Nobody
    BY <1>12, <2>1, <2>2, <1>b DEF BeginScan, FirstIndex
  <2>. QED BY <1>12, <2>3 DEF BeginScan
<1>13. CASE NotFound \/ OutOfRange
  BY <1>13, <1>c DEF NotFound, OutOfRange, Reply
<1>14. CASE Record
  <2>1. ring["reports"][scan.i] \in Requests
    BY <1>14, <1>b, ElementOfSeq DEF Record, InRange
  <2>. QED BY <1>14, <1>c, <2>1 DEF Record, Reply, InRange
<1>15. CASE PassOver
  <2>1. scan.i - 1 \in Nat
    BY <1>15, <1>b DEF PassOver, InRange
  <2>. QED BY <1>15, <2>1 DEF PassOver, InRange
<1>16. CASE Restart
  <2>1. ring' \in [Rings -> Seq(Requests)]
    BY <1>16, EmptySeq DEF Restart
  <2>. QED BY <1>16, <1>c, <2>1 DEF Restart, Phases, Rings
<1>17. CASE UNCHANGED vars
  BY <1>17 DEF vars
<1>. QED BY <1>2, <1>3, <1>4, <1>5, <1>6, <1>7, <1>8, <1>9, <1>10, <1>11, <1>12,
         <1>13, <1>14, <1>15, <1>16, <1>17, <1>18 DEF Next

-----------------------------------------------------------------------------
(* The lists are bounded *)

\* A retry asks again about a workload it asked about.
LEMMA RetrySends == TypeOK /\ Retry => \E w \in Workloads : Send(w)
<1>. SUFFICES ASSUME TypeOK, Retry PROVE \E w \in Workloads : Send(w)
  OBVIOUS
<1>1. op.req \in 1 .. Len(subject) /\ subject \in Seq(Workloads)
  BY LenProperties DEF Retry, TypeOK, Nobody
<1>2. subject[op.req] \in Workloads
  BY <1>1, ElementOfSeq
<1>. QED BY <1>2 DEF Retry

\* What a step may do to the service: a new analysis, a step of one of them, a
\* restart, or nothing.
LEMMA ServiceMoves ==
    ASSUME TypeOK, [Next]_vars
    PROVE  \/ \E w \in Workloads : Send(w)
           \/ \E a \in Requests : \/ Respond(a) \/ StartTask(a) \/ AppendRecord(a)
                                  \/ Check(a) \/ Pop(a) \/ DropReport(a)
           \/ Restart
           \/ UNCHANGED <<subject, service>>
<1>. QED
  BY RetrySends DEF Next, vars, service, operator, outcome, Ask, GiveUp, Apply, StopTelling,
     Operator, BeginScan, NotFound, OutOfRange, Record, PassOver, Reply

LEMMA CountInit == Init => AskedInv /\ CountInv
<1>. SUFFICES ASSUME Init PROVE AskedInv /\ CountInv
  OBVIOUS
<1>1. AskedInv
  BY DEF Init, AskedInv
<1>2. ASSUME NEW g \in Rings
      PROVE  Cardinality(Trimming(g)) = 0 /\ Len(ring[g]) = 0
  <2>1. Trimming(g) = {}
    BY DEF Init, Trimming
  <2>. QED BY <2>1, FS_EmptySet, EmptySeq DEF Init
<1>. QED BY <1>1, <1>2, BoundsAssumption DEF CountInv, Counted

LEMMA AskedStep == TypeOK /\ AskedInv /\ [Next]_vars => AskedInv'
<1>. SUFFICES ASSUME TypeOK, AskedInv, [Next]_vars PROVE AskedInv'
  OBVIOUS
<1>a. Len(subject) \in Nat
  BY LenProperties DEF TypeOK
<1>1. ASSUME NEW w \in Workloads, Send(w) PROVE AskedInv'
  <2>1. Len(subject') = Len(subject) + 1
    BY <1>1, AppendProperties DEF Send, TypeOK
  <2>2. Asked' = Asked \union {Len(subject) + 1}
    BY <1>a, <2>1 DEF Asked
  <2>3. \A b \in Requests : b # Len(subject) + 1 => phase'[b] = phase[b]
    BY <1>1 DEF Send, TypeOK
  <2>. QED BY <2>2, <2>3 DEF AskedInv
<1>2. ASSUME NEW a \in Requests,
             \/ Respond(a) \/ StartTask(a) \/ AppendRecord(a) \/ Check(a) \/ Pop(a)
             \/ DropReport(a)
      PROVE  AskedInv'
  <2>1. UNCHANGED subject /\ phase[a] # "none"
    BY <1>2 DEF Respond, StartTask, AppendRecord, Check, Pop, Done, DropReport, Step, operator
  <2>2. \A b \in Requests : b # a => phase'[b] = phase[b]
    BY <1>2 DEF Respond, StartTask, AppendRecord, Check, Pop, Done, DropReport, Step, TypeOK
  <2>. QED BY <2>1, <2>2 DEF AskedInv, Asked
<1>3. CASE Restart
  BY <1>3 DEF Restart, operator, AskedInv, Asked
<1>4. CASE UNCHANGED <<subject, service>>
  BY <1>4 DEF service, AskedInv, Asked
<1>. QED BY <1>1, <1>2, <1>3, <1>4, ServiceMoves

LEMMA CountStep == TypeOK /\ AskedInv /\ CountInv /\ [Next]_vars => CountInv'
<1>. SUFFICES ASSUME TypeOK, AskedInv, CountInv, [Next]_vars, NEW g \in Rings
              PROVE  Counted(g)'
  BY DEF CountInv
<1>a. /\ ring[g] \in Seq(Requests) /\ Len(ring[g]) \in Nat /\ MaxKept \in Nat
      /\ Trimming(g) \subseteq Requests /\ Cardinality(Trimming(g)) \in Nat
      /\ Cardinality(Trimming(g)) <= Len(ring[g])
      /\ Len(ring[g]) <= MaxKept + Cardinality(Trimming(g))
  BY LenProperties, RequestsFinite, BoundsAssumption DEF TypeOK, CountInv, Counted, Trimming
<1>b. ASSUME Trimming(g)' = Trimming(g), UNCHANGED ring PROVE Counted(g)'
  BY <1>a, <1>b DEF Counted
<1>1. ASSUME NEW w \in Workloads, Send(w) PROVE Counted(g)'
  <2>1. Len(subject) + 1 \in Requests /\ Len(subject) + 1 \notin Asked
    BY <1>1, LenProperties, BoundsAssumption DEF Send, TypeOK, Requests, Asked
  <2>2. phase[Len(subject) + 1] = "none"
    BY <2>1 DEF AskedInv
  <2>3. Trimming(g)' = Trimming(g)
    BY <1>1, <2>1, <2>2, TrimmingStays DEF Send, Phases
  <2>. QED BY <1>1, <1>b, <2>3 DEF Send
<1>2. ASSUME NEW a \in Requests, Respond(a) \/ StartTask(a) \/ DropReport(a)
      PROVE  Counted(g)'
  <2>1. Trimming(g)' = Trimming(g)
    BY <1>2, TrimmingStays DEF Respond, StartTask, DropReport, Step, Phases
  <2>. QED BY <1>2, <1>b, <2>1 DEF Respond, StartTask, DropReport
<1>3. ASSUME NEW a \in Requests, AppendRecord(a) PROVE Counted(g)'
  <2>1. a \notin Trimming(g)
    BY <1>3 DEF AppendRecord, Step, Trimming
  <2>2. Trimming(g)' = IF target[a] = g THEN Trimming(g) \union {a} ELSE Trimming(g)
    BY <1>3, <2>1 DEF AppendRecord, Step, Trimming, TypeOK
  <2>3. CASE target[a] = g
    <3>1. Cardinality(Trimming(g)') = Cardinality(Trimming(g)) + 1
      BY <1>a, <2>1, <2>2, <2>3, CountIn
    <3>2. Len(ring'[g]) = Len(ring[g]) + 1
      BY <1>3, <1>a, <2>3, AppendProperties DEF AppendRecord, TypeOK
    <3>. QED BY <1>a, <3>1, <3>2 DEF Counted
  <2>4. CASE target[a] # g
    BY <1>3, <1>a, <2>2, <2>4 DEF AppendRecord, Counted, TypeOK
  <2>. QED BY <2>3, <2>4
<1>4. ASSUME NEW a \in Requests, Check(a), OverFull(target[a]) PROVE Counted(g)'
  <2>1. Step(a, "check", "pop") /\ UNCHANGED <<target, ring>>
    BY <1>4 DEF Check
  <2>2. Trimming(g)' = Trimming(g)
    BY <2>1, TrimmingStays DEF Step, Phases
  <2>. QED BY <1>b, <2>1, <2>2
<1>5. ASSUME NEW a \in Requests, NEW from \in {"check", "pop"}, Done(a, from)
      PROVE  /\ target[a] = g
                => Cardinality(Trimming(g)') = Cardinality(Trimming(g)) - 1
             /\ target[a] # g => Trimming(g)' = Trimming(g)
  <2>1. Trimming(g)' = Trimming(g) \ {a}
    BY <1>5 DEF Done, Step, Trimming, TypeOK
  <2>2. a \in Trimming(g) <=> target[a] = g
    BY <1>5 DEF Done, Step, Trimming
  <2>. QED BY <1>a, <2>1, <2>2, CountOut
<1>6. ASSUME NEW a \in Requests, Check(a), ~OverFull(target[a]) PROVE Counted(g)'
  <2>1. Done(a, "check") /\ UNCHANGED ring
    BY <1>6 DEF Check
  <2>2. target[a] = g => Len(ring[g]) <= MaxKept
    BY <1>6, <1>a DEF OverFull
  <2>3. Cardinality(Trimming(g)') \in Nat
    BY RequestsFinite DEF Trimming
  <2>. QED BY <1>a, <1>5, <2>1, <2>2, <2>3 DEF Counted
<1>7. ASSUME NEW a \in Requests, Pop(a) PROVE Counted(g)'
  <2>1. Done(a, "pop") /\ ring' = [ring EXCEPT ![target[a]] = Tail(@)]
    BY <1>7 DEF Pop
  <2>2. ring[target[a]] # <<>>
    BY <2>1, PopFinds DEF Done, Step
  <2>3. CASE target[a] = g
    <3>1. Len(ring'[g]) = Len(ring[g]) - 1
      BY <1>a, <2>1, <2>2, <2>3, HeadTailProperties DEF TypeOK
    <3>. QED BY <1>a, <1>5, <2>1, <2>3, <3>1 DEF Counted
  <2>4. CASE target[a] # g
    BY <1>a, <1>5, <2>1, <2>4 DEF Counted, TypeOK
  <2>. QED BY <2>3, <2>4
<1>8. CASE Restart
  <2>1. Trimming(g)' = {} /\ ring'[g] = <<>>
    BY <1>8 DEF Restart, Trimming
  <2>. QED BY <1>a, <2>1, FS_EmptySet, EmptySeq DEF Counted
<1>9. CASE UNCHANGED <<subject, service>>
  BY <1>9, <1>b DEF service, Trimming
<1>. QED BY <1>1, <1>2, <1>3, <1>4, <1>6, <1>7, <1>8, <1>9, ServiceMoves

LEMMA ListsAlways == Spec => [](TypeOK /\ AskedInv /\ CountInv)
<1>1. Init => TypeOK /\ AskedInv /\ CountInv
  BY TypeInit, CountInit
<1>2. TypeOK /\ AskedInv /\ CountInv /\ [Next]_vars => (TypeOK /\ AskedInv /\ CountInv)'
  BY TypeStep, AskedStep, CountStep
<1>. QED BY <1>1, <1>2, PTL DEF Spec

\* The service's variables keep their types: a pop never meets an empty list.
THEOREM TypeCorrect == Spec => []TypeOK
  BY ListsAlways, PTL

\* A list is over its cap only by the tasks that have yet to trim it.
THEOREM ListsAreBounded == Spec => []RingBounded
<1>1. CountInv => RingBounded
  BY DEF CountInv, Counted, RingBounded
<1>. QED BY <1>1, ListsAlways, PTL

-----------------------------------------------------------------------------
(* The scan of report_outcome *)

\* A report whose task has appended it; only a restart undoes that.
Placed(r) == target[r] = "reports" /\ phase[r] \in {"check", "pop", "stored"}

ReportsInv == \A j \in 1 .. Len(ring["reports"]) : Placed(ring["reports"][j])

\* Analyses whose patch was applied.
Patched == {a \in Requests : applied[a] # NoWorkload}

\* What an outcome under way is about.
MailInv ==
    /\ Patched \subseteq Asked
    /\ \A a \in Patched : applied[a].name = subject[a].name
    /\ mail \subseteq Patched
    /\ scan.req # Nobody => scan.req \in Patched \ mail
    /\ op.at = "waiting" => op.req \notin Patched

\* What was eligible when the scan began still is, and cannot be appended anew.
ScanInv ==
    /\ \A r \in scan.due : Placed(r) /\ WantsStep(r, scan.req)
    /\ ScanMissesNothing

LEMMA SubjectsStay ==
    ASSUME TypeOK, [Next]_vars, NEW r \in Asked
    PROVE  r \in Asked' /\ subject'[r] = subject[r]
<1>1. CASE \E w \in Workloads : Send(w)
  <2>1. PICK w \in Workloads : subject' = Append(subject, w)
    BY <1>1 DEF Send
  <2>2. subject \in Seq(Workloads) /\ Len(subject) \in Nat /\ r \in 1 .. Len(subject)
    BY LenProperties DEF TypeOK, Asked
  <2>. QED BY <2>1, <2>2, AppendProperties DEF Asked
<1>2. CASE UNCHANGED subject
  BY <1>2 DEF Asked
<1>. QED
  BY <1>1, <1>2, ServiceMoves DEF Respond, StartTask, AppendRecord, Check, Pop, Done,
     DropReport, Step, Restart, operator

LEMMA PlacedStays ==
    ASSUME TypeOK, AskedInv, [Next]_vars, ~Restart, NEW r \in Requests, Placed(r)
    PROVE  Placed(r)'
<1>1. ASSUME NEW w \in Workloads, Send(w) PROVE Placed(r)'
  <2>1. Len(subject) \in Nat /\ r \in 1 .. Len(subject)
    BY LenProperties DEF AskedInv, Asked, Placed, TypeOK
  <2>. QED BY <1>1, <2>1 DEF Send, Placed, TypeOK
<1>2. ASSUME NEW a \in Requests,
             \/ Respond(a) \/ StartTask(a) \/ AppendRecord(a) \/ Check(a) \/ Pop(a)
             \/ DropReport(a)
      PROVE  Placed(r)'
  BY <1>2 DEF Respond, StartTask, AppendRecord, Check, Pop, Done, DropReport, Step, Placed,
     TypeOK
<1>3. CASE UNCHANGED <<subject, service>>
  BY <1>3 DEF service, Placed
<1>. QED BY <1>1, <1>2, <1>3, ServiceMoves

LEMMA ReportsStep == TypeOK /\ AskedInv /\ CountInv /\ ReportsInv /\ [Next]_vars => ReportsInv'
<1>. SUFFICES ASSUME TypeOK, AskedInv, CountInv, ReportsInv, [Next]_vars PROVE ReportsInv'
  OBVIOUS
<1>a. ring["reports"] \in Seq(Requests) /\ Len(ring["reports"]) \in Nat
  BY LenProperties DEF TypeOK, Rings
<1>b. /\ \A r \in Requests : ~Restart /\ Placed(r) => Placed(r)'
      /\ \A j \in 1 .. Len(ring["reports"]) :
            ring["reports"][j] \in Requests /\ Placed(ring["reports"][j])
  BY <1>a, ElementOfSeq, PlacedStays DEF ReportsInv
<1>1. ASSUME NEW a \in Requests, AppendRecord(a), target[a] = "reports" PROVE ReportsInv'
  <2>1. ring'["reports"] = Append(ring["reports"], a) /\ ~Restart
    BY <1>1 DEF AppendRecord, Step, Restart, TypeOK, Rings
  <2>2. Placed(a)'
    BY <1>1 DEF AppendRecord, Step, Placed, TypeOK
  <2>3. /\ Len(ring'["reports"]) = Len(ring["reports"]) + 1
        /\ \A j \in 1 .. Len(ring["reports"]) : ring'["reports"][j] = ring["reports"][j]
        /\ ring'["reports"][Len(ring["reports"]) + 1] = a
    BY <1>a, <2>1, AppendProperties
  <2>4. ASSUME NEW j \in 1 .. Len(ring'["reports"])
        PROVE  Placed(ring["reports"][j])'
    <3>1. PICK r \in Requests : r = ring'["reports"][j] /\ Placed(r)'
      BY <1>a, <1>b, <2>1, <2>2, <2>3
    <3>. QED BY <3>1 DEF Placed
  <2>. QED BY <2>4 DEF ReportsInv
<1>2. ASSUME NEW a \in Requests, Pop(a), target[a] = "reports" PROVE ReportsInv'
  <2>1. ring'["reports"] = Tail(ring["reports"]) /\ ring["reports"] # <<>> /\ ~Restart
    BY <1>2, PopFinds DEF Pop, Done, Step, Restart, TypeOK, Rings
  <2>2. /\ Len(ring'["reports"]) = Len(ring["reports"]) - 1
        /\ \A j \in 1 .. Len(ring'["reports"]) : ring'["reports"][j] = ring["reports"][j + 1]
    BY <1>a, <2>1, HeadTailProperties
  <2>3. ASSUME NEW j \in 1 .. Len(ring'["reports"])
        PROVE  Placed(ring["reports"][j])'
    <3>1. PICK r \in Requests : r = ring'["reports"][j] /\ Placed(r)'
      BY <1>a, <1>b, <2>1, <2>2
    <3>. QED BY <3>1 DEF Placed
  <2>. QED BY <2>3 DEF ReportsInv
<1>3. CASE Restart
  BY <1>3, EmptySeq DEF Restart, ReportsInv, Rings
<1>4. CASE ~Restart /\ ring'["reports"] = ring["reports"]
  BY <1>4, <1>b DEF ReportsInv, Placed
<1>5. \/ Restart
      \/ ring'["reports"] = ring["reports"]
      \/ \E a \in Requests : target[a] = "reports" /\ (AppendRecord(a) \/ Pop(a))
  BY ServiceMoves DEF Send, Respond, StartTask, AppendRecord, Check, Pop, DropReport, service,
     TypeOK, Rings
<1>. QED BY <1>1, <1>2, <1>3, <1>4, <1>5

LEMMA MailStep == TypeOK /\ MailInv /\ [Next]_vars => MailInv'
<1>. SUFFICES ASSUME TypeOK, MailInv, [Next]_vars PROVE MailInv'
  OBVIOUS
<1>a. Len(subject) \in Nat /\ Nobody = 0
  BY LenProperties DEF TypeOK, Nobody
<1>b. \A r \in Asked : r \in Asked' /\ subject'[r] = subject[r]
  BY SubjectsStay
<1>c. ASSUME UNCHANGED applied
      PROVE  /\ Patched' = Patched /\ Patched' \subseteq Asked'
             /\ \A a \in Patched' : applied'[a].name = subject'[a].name
  BY <1>b, <1>c DEF Patched, MailInv
<1>1. ASSUME NEW w \in Workloads, Send(w) PROVE MailInv'
  <2>1. op'.req \notin Patched
    BY <1>1, <1>a DEF Send, MailInv, Asked
  <2>. QED BY <1>1, <1>c, <2>1 DEF Send, MailInv, outcome
<1>2. CASE GiveUp \/ StopTelling
  <2>1. UNCHANGED <<applied, scan>> /\ mail' \subseteq mail /\ op'.at = "idle"
    BY <1>2 DEF GiveUp, StopTelling, Operator, Idle, outcome
  <2>. QED BY <1>c, <2>1 DEF MailInv
<1>3. ASSUME NEW w \in Workloads, Apply(w) PROVE MailInv'
  <2>1. op.req \in Asked /\ op.req \in Requests
    BY <1>3, <1>a DEF Apply, TypeOK, Asked
  <2>2. op'.at = "telling" /\ UNCHANGED <<subject, scan>>
    BY <1>3 DEF Apply, Operator, outcome, TypeOK
  <2>3. \A a \in Requests : applied'[a] = IF a = op.req THEN w ELSE applied[a]
    BY <1>3 DEF Apply, TypeOK
  <2>4. Patched' = Patched \union {op.req}
    BY <2>1, <2>3, WorkloadAssumption DEF Patched
  <2>5. \A a \in Patched' : applied'[a].name = subject'[a].name
    BY <1>3, <2>1, <2>2, <2>3, <2>4 DEF Apply, MailInv, Patched
  <2>6. Patched' \subseteq Asked'
    BY <1>b, <2>1, <2>4 DEF MailInv
  <2>7. mail' = mail \union {op.req} /\ op.req \notin Patched
    BY <1>3 DEF Apply, MailInv
  <2>. QED BY <2>2, <2>4, <2>5, <2>6, <2>7 DEF MailInv
<1>4. ASSUME NEW a \in Requests, BeginScan(a) PROVE MailInv'
  BY <1>4, <1>c DEF BeginScan, MailInv, operator
<1>5. CASE NotFound \/ OutOfRange \/ Record
  BY <1>5, <1>c DEF NotFound, OutOfRange, Record, Reply, NoScan, MailInv, operator
<1>6. CASE PassOver
  BY <1>6, <1>c DEF PassOver, MailInv, operator, TypeOK
<1>7. CASE Restart
  BY <1>7, <1>c DEF Restart, NoScan, MailInv, operator
<1>8. CASE UNCHANGED <<operator, mail, scan>>
  BY <1>8, <1>c DEF operator, MailInv
<1>9. \/ \E w \in Workloads : Send(w)
      \/ GiveUp \/ StopTelling \/ \E w \in Workloads : Apply(w)
      \/ \E a \in Requests : BeginScan(a)
      \/ NotFound \/ OutOfRange \/ Record \/ PassOver \/ Restart
      \/ UNCHANGED <<operator, mail, scan>>
  BY RetrySends DEF Next, Ask, Respond, StartTask, AppendRecord, Check, Pop, Done,
     DropReport, Step, operator, outcome, vars
<1>. QED BY <1>1, <1>2, <1>3, <1>4, <1>5, <1>6, <1>7, <1>8, <1>9

\* The steps of the scan itself, and the others.
LEMMA ScanMoves ==
    ASSUME TypeOK, [Next]_vars
    PROVE  \/ \E a \in Requests : BeginScan(a)
           \/ scan' = NoScan
           \/ PassOver
           \/ UNCHANGED outcome /\ ~Restart
<1>1. CASE Restart
  BY <1>1 DEF Restart
<1>2. CASE ~Restart
  BY <1>2, RetrySends DEF Next, Ask, Send, GiveUp, Apply, StopTelling, Operator, Respond,
     StartTask, AppendRecord, Check, Pop, Done, DropReport, Step, NotFound, OutOfRange,
     Record, Reply, vars
<1>. QED BY <1>1, <1>2

\* What an outcome names stays what it is.
LEMMA TargetsStay ==
    ASSUME TypeOK, MailInv, [Next]_vars, NEW a \in Patched
    PROVE  applied'[a] = applied[a]
<1>1. ASSUME NEW w \in Workloads, Apply(w) PROVE applied'[a] = applied[a]
  <2>1. op.req # a
    BY <1>1 DEF Apply, MailInv
  <2>. QED BY <1>1, <2>1 DEF Apply, TypeOK, Patched
<1>2. CASE UNCHANGED applied
  BY <1>2
<1>3. UNCHANGED applied \/ \E w \in Workloads : Apply(w)
  BY RetrySends DEF Next, Ask, Send, GiveUp, StopTelling, Respond, StartTask, AppendRecord,
     Check, Pop, Done, DropReport, Step, BeginScan, NotFound, OutOfRange, Record, Reply,
     PassOver, Restart, operator, vars
<1>. QED BY <1>1, <1>2, <1>3

LEMMA ScanStep ==
    TypeOK /\ AskedInv /\ CountInv /\ ReportsInv /\ MailInv /\ ScanInv /\ [Next]_vars => ScanInv'
<1>. SUFFICES ASSUME TypeOK, AskedInv, CountInv, ReportsInv, MailInv, ScanInv, [Next]_vars
              PROVE  ScanInv'
  OBVIOUS
<1>a. ring["reports"] \in Seq(Requests) /\ Len(ring["reports"]) \in Nat /\ scan.i \in Nat
  BY LenProperties DEF TypeOK, Rings
<1>1. ASSUME NEW a \in Requests, BeginScan(a) PROVE ScanInv'
  <2>1. /\ scan' = [req |-> a, i |-> Len(ring["reports"]),
                    due |-> {r \in Listed : WantsStep(r, a)}]
        /\ UNCHANGED <<phase, target, ring, credit, subject, applied>>
    BY <1>1 DEF BeginScan, FirstIndex, service, operator
  <2>2. \A r \in Listed : Placed(r)
    BY DEF ReportsInv, Listed
  <2>. QED BY <2>1, <2>2 DEF ScanInv, ScanMissesNothing, Placed, WantsStep
<1>2. CASE scan' = NoScan
  BY <1>2 DEF NoScan, ScanInv, ScanMissesNothing
<1>3. CASE PassOver
  <2>1. /\ UNCHANGED <<phase, target, ring, credit, subject, applied>>
        /\ scan' = [scan EXCEPT !.i = @ - 1]
        /\ ~WantsStep(ring["reports"][scan.i], scan.req)
    BY <1>3 DEF PassOver, service, operator
  <2>2. scan'.req = scan.req /\ scan'.due = scan.due /\ scan'.i = scan.i - 1
    BY <2>1 DEF TypeOK
  <2>3. ASSUME NEW r \in scan.due, NEW j \in 1 .. Len(ring["reports"]), ring["reports"][j] = r
        PROVE  j <= scan.i - 1
    <3>1. j <= scan.i /\ WantsStep(r, scan.req)
      BY <2>3 DEF ScanInv, ScanMissesNothing
    <3>2. j # scan.i
      BY <2>1, <2>3, <3>1
    <3>. QED BY <1>a, <3>1, <3>2
  <2>. QED BY <2>1, <2>2, <2>3 DEF ScanInv, ScanMissesNothing, Placed, WantsStep
<1>4. CASE UNCHANGED outcome /\ ~Restart
  <2>1. UNCHANGED <<credit, scan>>
    BY <1>4 DEF outcome
  <2>2. ASSUME NEW r \in scan.due PROVE Placed(r)' /\ WantsStep(r, scan.req)'
    <3>1. r \in Requests /\ Placed(r) /\ WantsStep(r, scan.req)
      BY DEF ScanInv, TypeOK
    <3>2. Placed(r)'
      BY <1>4, <3>1, PlacedStays
    <3>3. r \in Asked /\ scan.req \in Patched
      BY <3>1 DEF Placed, AskedInv, MailInv, TypeOK, NoScan
    <3>4. subject'[r] = subject[r] /\ applied'[scan.req] = applied[scan.req]
      BY <3>3, SubjectsStay, TargetsStay
    <3>. QED BY <2>1, <3>1, <3>2, <3>4 DEF WantsStep
  <2>3. ASSUME NEW a \in Requests, AppendRecord(a), target[a] = "reports"
        PROVE  ScanMissesNothing'
    <3>1. ring'["reports"] = Append(ring["reports"], a)
      BY <2>3 DEF AppendRecord, TypeOK, Rings
    <3>2. /\ Len(ring'["reports"]) = Len(ring["reports"]) + 1
          /\ \A j \in 1 .. Len(ring["reports"]) : ring'["reports"][j] = ring["reports"][j]
          /\ ring'["reports"][Len(ring["reports"]) + 1] = a
      BY <1>a, <3>1, AppendProperties
    <3>3. a \notin scan.due
      BY <2>3 DEF AppendRecord, Step, ScanInv, Placed
    <3>. QED BY <1>a, <2>1, <3>2, <3>3 DEF ScanInv, ScanMissesNothing
  <2>4. ASSUME NEW a \in Requests, Pop(a), target[a] = "reports" PROVE ScanMissesNothing'
    <3>1. ring'["reports"] = Tail(ring["reports"]) /\ ring["reports"] # <<>>
      BY <2>4, PopFinds DEF Pop, Done, Step, TypeOK, Rings
    <3>2. /\ Len(ring'["reports"]) = Len(ring["reports"]) - 1
          /\ \A j \in 1 .. Len(ring'["reports"]) : ring'["reports"][j] = ring["reports"][j + 1]
      BY <1>a, <3>1, HeadTailProperties
    <3>3. ASSUME NEW r \in scan.due, NEW j \in 1 .. Len(ring'["reports"]),
                 ring'["reports"][j] = r
          PROVE  j <= scan.i
      <4>1. j + 1 \in 1 .. Len(ring["reports"]) /\ ring["reports"][j + 1] = r
        BY <1>a, <3>2, <3>3
      <4>2. j + 1 <= scan.i
        BY <4>1 DEF ScanInv, ScanMissesNothing
      <4>. QED BY <1>a, <4>1, <4>2
    <3>. QED BY <2>1, <3>3 DEF ScanMissesNothing
  <2>5. ASSUME ring'["reports"] = ring["reports"] PROVE ScanMissesNothing'
    BY <2>1, <2>5 DEF ScanInv, ScanMissesNothing
  <2>6. \/ ring'["reports"] = ring["reports"]
        \/ \E a \in Requests : target[a] = "reports" /\ (AppendRecord(a) \/ Pop(a))
    BY <1>4, ServiceMoves DEF Send, Respond, StartTask, AppendRecord, Check, Pop, DropReport,
       service, TypeOK, Rings
  <2>. QED BY <2>1, <2>2, <2>3, <2>4, <2>5, <2>6 DEF ScanInv
<1>. QED BY <1>1, <1>2, <1>3, <1>4, ScanMoves

-----------------------------------------------------------------------------
(* The operator steps of the reports *)

\* An outcome recorded is neither under way nor being recorded.
CreditInv ==
    /\ StepsAreEarned
    /\ \A r \in Requests : credit[r] # Nobody
         => r \in Asked /\ credit[r] \notin mail /\ credit[r] # scan.req

LEMMA CreditStep ==
    TypeOK /\ AskedInv /\ ReportsInv /\ MailInv /\ CreditInv /\ [Next]_vars => CreditInv'
<1>. SUFFICES ASSUME TypeOK, AskedInv, ReportsInv, MailInv, CreditInv, [Next]_vars
              PROVE  CreditInv'
  OBVIOUS
<1>a. \A r \in Requests : credit[r] # Nobody
        => /\ r \in Asked /\ credit[r] \in Asked /\ credit[r] \in Patched
           /\ credit[r] \notin mail /\ credit[r] # scan.req
           /\ applied[credit[r]] = subject[r]
           /\ subject[credit[r]].name = subject[r].name
  <2>1. SUFFICES ASSUME NEW r \in Requests, credit[r] # Nobody
                 PROVE  credit[r] \in Patched
    BY <2>1 DEF CreditInv, StepsAreEarned, MailInv
  <2>2. r \in Asked /\ applied[credit[r]] = subject[r]
    BY <2>1 DEF CreditInv, StepsAreEarned
  <2>3. subject[r] \in Workloads
    BY <2>2, ElementOfSeq DEF TypeOK, Asked
  <2>4. credit[r] \in Requests
    BY <2>1 DEF TypeOK
  <2>. QED BY <2>2, <2>3, <2>4, WorkloadAssumption DEF Patched
<1>b. /\ \A r \in Asked : r \in Asked' /\ subject'[r] = subject[r]
      /\ \A a \in Patched : applied'[a] = applied[a]
  BY SubjectsStay, TargetsStay
<1>1. ASSUME NEW w \in Workloads, Apply(w) PROVE CreditInv'
  <2>1. op.req \notin Patched /\ UNCHANGED <<credit, scan>> /\ mail' = mail \union {op.req}
    BY <1>1 DEF Apply, Operator, MailInv, outcome
  <2>. QED BY <1>a, <1>b, <2>1 DEF CreditInv, StepsAreEarned
<1>2. ASSUME NEW a \in Requests, BeginScan(a) PROVE CreditInv'
  <2>1. /\ UNCHANGED credit /\ a \in mail /\ mail' = mail \ {a} /\ scan'.req = a
    BY <1>2 DEF BeginScan, operator
  <2>. QED BY <1>a, <1>b, <2>1 DEF CreditInv, StepsAreEarned
<1>3. CASE Record
  <2>1. PICK r \in Requests : /\ r = ring["reports"][scan.i]
                              /\ WantsStep(r, scan.req)
                              /\ credit' = [credit EXCEPT ![r] = scan.req]
    BY <1>3, ElementOfSeq DEF Record, InRange, TypeOK, Rings
  <2>2. r \in Asked
    BY <1>3, <2>1 DEF Record, InRange, ReportsInv, Placed, AskedInv
  <2>3. /\ scan.req # Nobody /\ scan.req \in Patched \ mail /\ scan.req \in Asked
        /\ applied[scan.req].name = subject[scan.req].name
    BY <1>3 DEF Record, InRange, MailInv
  <2>4. scan'.req = Nobody /\ UNCHANGED <<applied, mail>>
    BY <1>3 DEF Record, Reply, NoScan, operator
  <2>5. ASSUME NEW s \in Requests
        PROVE  credit'[s] = IF s = r THEN scan.req ELSE credit[s]
    BY <2>1 DEF TypeOK
  <2>6. StepsAreEarned'
    BY <1>a, <1>b, <2>1, <2>2, <2>3, <2>4, <2>5 DEF CreditInv, StepsAreEarned, WantsStep
  <2>. QED BY <1>a, <1>b, <2>2, <2>3, <2>4, <2>5, <2>6 DEF CreditInv
<1>4. CASE Restart
  <2>1. \A r \in Requests : credit'[r] = Nobody
    BY <1>4 DEF Restart
  <2>. QED BY <2>1 DEF CreditInv, StepsAreEarned
<1>5. CASE UNCHANGED <<credit, applied>> /\ mail' \subseteq mail /\ scan'.req \in {scan.req, Nobody}
  BY <1>5, <1>a, <1>b DEF CreditInv, StepsAreEarned
<1>6. \/ \E w \in Workloads : Apply(w)
      \/ (\E a \in Requests : BeginScan(a)) \/ Record \/ Restart
      \/ UNCHANGED <<credit, applied>> /\ mail' \subseteq mail /\ scan'.req \in {scan.req, Nobody}
  <2>1. CASE PassOver
    BY <2>1 DEF PassOver, operator, TypeOK
  <2>2. CASE NotFound \/ OutOfRange
    BY <2>2 DEF NotFound, OutOfRange, Reply, NoScan, operator
  <2>3. CASE GiveUp \/ StopTelling
    BY <2>3 DEF GiveUp, StopTelling, Operator, outcome
  <2>. QED BY <2>1, <2>2, <2>3, RetrySends DEF Next, Ask, Send, Respond, StartTask,
           AppendRecord, Check, Pop, Done, DropReport, Step, operator, outcome, vars
<1>. QED BY <1>1, <1>2, <1>3, <1>4, <1>5, <1>6

LEMMA ReportsInit == Init => ReportsInv /\ MailInv /\ ScanInv /\ CreditInv
<1>. SUFFICES ASSUME Init PROVE ReportsInv /\ MailInv /\ ScanInv /\ CreditInv
  OBVIOUS
<1>1. ReportsInv
  BY EmptySeq DEF Init, ReportsInv, Rings
<1>2. MailInv /\ ScanInv
  BY DEF Init, MailInv, Patched, ScanInv, ScanMissesNothing, NoScan
<1>3. CreditInv
  BY DEF Init, CreditInv, StepsAreEarned
<1>. QED BY <1>1, <1>2, <1>3

LEMMA ReportsAlways == Spec => [](MailInv /\ ScanInv /\ CreditInv)
<1>. DEFINE Lists == TypeOK /\ AskedInv /\ CountInv
            Inv == ReportsInv /\ MailInv /\ ScanInv /\ CreditInv
<1>1. Init => Inv
  BY ReportsInit
<1>2. Lists /\ Inv /\ [Next]_vars => Inv'
  BY ReportsStep, MailStep, ScanStep, CreditStep
<1>3. Spec => []Lists
  BY ListsAlways
<1>. QED
  <2>1. Inv => MailInv /\ ScanInv /\ CreditInv
    OBVIOUS
  <2>. HIDE DEF Lists, Inv
  <2>. QED BY <1>1, <1>2, <1>3, <2>1, PTL DEF Spec

\* A scan steps over no report that was eligible when it began.
THEOREM ScansMissNothing == Spec => []ScanMissesNothing
<1>1. ScanInv => ScanMissesNothing
  BY DEF ScanInv
<1>. QED BY <1>1, ReportsAlways, PTL

\* Operator steps belong to patches of the report's workload, each to one.
THEOREM EveryStepIsEarned == Spec => []StepsAreEarned
<1>1. CreditInv => StepsAreEarned
  BY DEF CreditInv
<1>. QED BY <1>1, ReportsAlways, PTL

-----------------------------------------------------------------------------
(* The lists keep the recent entries *)

\* Tasks that saw list g over its cap and have yet to pop.
Popping(g) == {a \in Requests : target[a] = g /\ phase[a] = "pop"}

ThreadsInv == Cardinality(Storing) <= Threads

\* Every pop under way is paid for: the list was over its cap when the tasks
\* looked, and there are no more of them than threads.
Recent(g) ==
    \/ Popping(g) = {} /\ Len(ring[g]) = Cardinality(Reached(g))
    \/ Len(ring[g]) + Threads > MaxKept + Cardinality(Popping(g))

RecentInv == \A g \in Rings : Recent(g)

LEMMA ThreadsStep == TypeOK /\ AskedInv /\ ThreadsInv /\ [Next]_vars => ThreadsInv'
<1>. SUFFICES ASSUME TypeOK, AskedInv, ThreadsInv, [Next]_vars PROVE ThreadsInv'
  OBVIOUS
<1>a. /\ Storing \subseteq Requests /\ IsFiniteSet(Storing) /\ Cardinality(Storing) \in Nat
      /\ Storing' \subseteq Requests /\ Cardinality(Storing') \in Nat
      /\ Cardinality(Storing) <= Threads /\ Threads \in Nat
  BY RequestsFinite, BoundsAssumption DEF Storing, ThreadsInv
<1>b. ASSUME Storing' \subseteq Storing PROVE ThreadsInv'
  <2>1. Cardinality(Storing') <= Cardinality(Storing)
    BY <1>a, <1>b, FS_Subset
  <2>. QED BY <1>a, <2>1 DEF ThreadsInv
<1>1. ASSUME NEW a \in Requests, StartTask(a) PROVE ThreadsInv'
  <2>1. Storing' = Storing \union {a} /\ a \notin Storing /\ Cardinality(Storing) < Threads
    BY <1>1 DEF StartTask, Step, Storing, TypeOK
  <2>2. Cardinality(Storing') = Cardinality(Storing) + 1
    BY <1>a, <2>1, CountIn
  <2>. QED BY <1>a, <2>1, <2>2 DEF ThreadsInv
<1>2. ASSUME NEW a \in Requests,
             Respond(a) \/ AppendRecord(a) \/ Check(a) \/ Pop(a) \/ DropReport(a)
      PROVE  Storing' \subseteq Storing
  BY <1>2 DEF Respond, AppendRecord, Check, Pop, Done, DropReport, Step, Storing, TypeOK
<1>3. ASSUME NEW w \in Workloads, Send(w) PROVE Storing' \subseteq Storing
  BY <1>3 DEF Send, Storing, TypeOK
<1>4. CASE Restart \/ UNCHANGED <<subject, service>>
  <2>. Storing' \subseteq Storing
    BY <1>4 DEF Restart, Storing, service
  <2>. QED BY <1>b
<1>. QED BY <1>b, <1>1, <1>2, <1>3, <1>4, ServiceMoves

LEMMA RecentStep ==
    TypeOK /\ AskedInv /\ CountInv /\ ThreadsInv /\ RecentInv /\ [Next]_vars => RecentInv'
<1>. SUFFICES ASSUME TypeOK, AskedInv, CountInv, ThreadsInv, RecentInv, [Next]_vars,
                     NEW g \in Rings
              PROVE  Recent(g)'
  BY DEF RecentInv
<1>a. /\ ring[g] \in Seq(Requests) /\ Len(ring[g]) \in Nat
      /\ MaxKept \in Nat /\ Threads \in Nat
      /\ Popping(g) \subseteq Requests /\ Cardinality(Popping(g)) \in Nat
      /\ Reached(g) \subseteq Requests /\ Cardinality(Reached(g)) \in Nat
      /\ Recent(g)
  BY LenProperties, RequestsFinite, BoundsAssumption DEF TypeOK, Popping, Reached, RecentInv
<1>b. ASSUME Popping(g)' = Popping(g), Reached(g)' = Reached(g), UNCHANGED ring
      PROVE  Recent(g)'
  BY <1>a, <1>b DEF Recent
<1>1. ASSUME NEW w \in Workloads, Send(w) PROVE Recent(g)'
  <2>1. Len(subject) + 1 \in Requests /\ Len(subject) + 1 \notin Asked
    BY <1>1, LenProperties, BoundsAssumption DEF Send, TypeOK, Requests, Asked
  <2>2. phase[Len(subject) + 1] = "none"
    BY <2>1 DEF AskedInv
  <2>3. Popping(g)' = Popping(g) /\ Reached(g)' = Reached(g)
    BY <1>1, <2>1, <2>2 DEF Send, Popping, Reached, TypeOK
  <2>. QED BY <1>1, <1>b, <2>3 DEF Send
<1>2. ASSUME NEW a \in Requests, Respond(a) \/ StartTask(a) \/ DropReport(a)
      PROVE  Recent(g)'
  <2>1. Popping(g)' = Popping(g) /\ Reached(g)' = Reached(g)
    BY <1>2 DEF Respond, StartTask, DropReport, Step, Popping, Reached, TypeOK
  <2>. QED BY <1>2, <1>b, <2>1 DEF Respond, StartTask, DropReport
<1>3. ASSUME NEW a \in Requests, AppendRecord(a) PROVE Recent(g)'
  <2>1. Popping(g)' = Popping(g)
    BY <1>3 DEF AppendRecord, Step, Popping, TypeOK
  <2>2. CASE target[a] = g
    <3>1. Reached(g)' = Reached(g) \union {a} /\ a \notin Reached(g)
      BY <1>3, <2>2 DEF AppendRecord, Step, Reached, TypeOK, Rings
    <3>2. Cardinality(Reached(g)') = Cardinality(Reached(g)) + 1
      BY <1>a, <3>1, CountIn
    <3>3. Len(ring'[g]) = Len(ring[g]) + 1
      BY <1>3, <1>a, <2>2, AppendProperties DEF AppendRecord, TypeOK
    <3>. QED BY <1>a, <2>1, <3>2, <3>3 DEF Recent
  <2>3. CASE target[a] # g
    <3>1. Reached(g)' = Reached(g) /\ ring'[g] = ring[g]
      BY <1>3, <2>3 DEF AppendRecord, Step, Reached, TypeOK, Rings
    <3>. QED BY <1>a, <2>1, <3>1 DEF Recent
  <2>. QED BY <2>2, <2>3
<1>4. ASSUME NEW a \in Requests, Check(a), OverFull(target[a]) PROVE Recent(g)'
  <2>1. Step(a, "check", "pop") /\ UNCHANGED <<target, ring>>
    BY <1>4 DEF Check
  <2>2. Reached(g)' = Reached(g)
    BY <2>1 DEF Step, Reached, TypeOK
  <2>3. CASE target[a] = g
    <3>1. Storing' = Storing /\ Popping(g)' \subseteq Storing
      BY <2>1 DEF Step, Storing, Popping, TypeOK
    <3>2. Cardinality(Popping(g)') <= Threads /\ Cardinality(Popping(g)') \in Nat
      <4>1. Storing \subseteq Requests /\ Cardinality(Storing) \in Nat
        BY RequestsFinite DEF Storing
      <4>2. Cardinality(Popping(g)') <= Cardinality(Storing)
        BY <3>1, <4>1, RequestsFinite, FS_Subset
      <4>3. Cardinality(Popping(g)') \in Nat
        BY RequestsFinite DEF Popping
      <4>. QED BY <1>a, <4>1, <4>2, <4>3 DEF ThreadsInv
    <3>3. Len(ring[g]) > MaxKept
      BY <1>4, <2>3 DEF OverFull
    <3>. QED BY <1>a, <2>1, <3>2, <3>3 DEF Recent
  <2>4. CASE target[a] # g
    <3>1. Popping(g)' = Popping(g)
      BY <2>1, <2>4 DEF Step, Popping, TypeOK
    <3>. QED BY <1>b, <2>1, <2>2, <3>1
  <2>. QED BY <2>3, <2>4
<1>5. ASSUME NEW a \in Requests, NEW from \in {"check", "pop"}, Done(a, from)
      PROVE  Reached(g)' = Reached(g) /\ Popping(g)' = Popping(g) \ {a}
  BY <1>5 DEF Done, Step, Reached, Popping, TypeOK, Rings
<1>6. ASSUME NEW a \in Requests, Check(a), ~OverFull(target[a]) PROVE Recent(g)'
  <2>1. Done(a, "check") /\ UNCHANGED ring
    BY <1>6 DEF Check
  <2>2. a \notin Popping(g)
    BY <2>1 DEF Done, Step, Popping
  <2>. QED BY <1>5, <1>b, <2>1, <2>2
<1>7. ASSUME NEW a \in Requests, Pop(a) PROVE Recent(g)'
  <2>1. Done(a, "pop") /\ ring' = [ring EXCEPT ![target[a]] = Tail(@)]
    BY <1>7 DEF Pop
  <2>2. ring[target[a]] # <<>>
    BY <2>1, PopFinds DEF Done, Step
  <2>3. CASE target[a] = g
    <3>1. Len(ring'[g]) = Len(ring[g]) - 1
      BY <1>a, <2>1, <2>2, <2>3, HeadTailProperties DEF TypeOK
    <3>2. a \in Popping(g)
      BY <2>1, <2>3 DEF Done, Step, Popping
    <3>3. Cardinality(Popping(g)') = Cardinality(Popping(g)) - 1
      BY <1>a, <1>5, <2>1, <3>2, CountOut
    <3>. QED BY <1>a, <3>1, <3>2, <3>3 DEF Recent
  <2>4. CASE target[a] # g
    <3>1. Popping(g)' = Popping(g) /\ Reached(g)' = Reached(g) /\ ring'[g] = ring[g]
      BY <1>5, <2>1, <2>4 DEF Popping, TypeOK
    <3>. QED BY <1>a, <3>1 DEF Recent
  <2>. QED BY <2>3, <2>4
<1>8. CASE Restart
  <2>1. Popping(g)' = {} /\ Reached(g)' = {} /\ ring'[g] = <<>>
    BY <1>8 DEF Restart, Popping, Reached
  <2>. QED BY <2>1, FS_EmptySet, EmptySeq DEF Recent
<1>9. CASE UNCHANGED <<subject, service>>
  BY <1>9, <1>b DEF service, Popping, Reached
<1>. QED BY <1>1, <1>2, <1>3, <1>4, <1>6, <1>7, <1>8, <1>9, ServiceMoves

LEMMA RecentInit == Init => ThreadsInv /\ RecentInv
<1>. SUFFICES ASSUME Init, NEW g \in Rings PROVE ThreadsInv /\ Recent(g)
  BY DEF RecentInv, Rings
<1>1. Storing = {} /\ Popping(g) = {} /\ Reached(g) = {} /\ Len(ring[g]) = 0
  BY EmptySeq DEF Init, Storing, Popping, Reached
<1>. QED BY <1>1, FS_EmptySet, BoundsAssumption DEF ThreadsInv, Recent

\* Everything the lists and the pool satisfy.
ListsInv == TypeOK /\ AskedInv /\ CountInv /\ ThreadsInv /\ RecentInv

LEMMA RecentAlways == Spec => []ListsInv
<1>. DEFINE Lists == TypeOK /\ AskedInv /\ CountInv
            Inv == ThreadsInv /\ RecentInv
<1>1. Init => Inv
  BY RecentInit
<1>2. Lists /\ Inv /\ [Next]_vars => Inv'
  BY ThreadsStep, RecentStep
<1>3. Spec => []Lists
  BY ListsAlways
<1>4. Lists /\ Inv => ListsInv
  BY DEF ListsInv
<1>. QED
  <2>. HIDE DEF Lists, Inv
  <2>. QED BY <1>1, <1>2, <1>3, <1>4, PTL DEF Spec

\* A list with room keeps everything, but for entries of tasks that popped
\* together.
THEOREM RecentAreKept == Spec => []RecentKept
<1>1. ListsInv => RecentKept
  <2>. SUFFICES ASSUME ListsInv, NEW g \in Rings
                PROVE  \/ Len(ring[g]) = Cardinality(Reached(g))
                       \/ Len(ring[g]) + Threads > MaxKept
    BY DEF RecentKept
  <2>1. Cardinality(Popping(g)) \in Nat /\ Len(ring[g]) \in Nat
    BY RequestsFinite, LenProperties DEF ListsInv, Popping, TypeOK
  <2>. QED BY <2>1, BoundsAssumption DEF ListsInv, RecentInv, Recent
<1>. QED BY <1>1, RecentAlways, PTL

-----------------------------------------------------------------------------
(* The service is an abstract ledger of reports.  A lemma for each group of *)
(* actions names the step of the ledger it is.                              *)

reports == ring["reports"]

LEMMA ReportsAreListed ==
    ASSUME TypeOK
    PROVE  reports \in Seq(Requests) /\ Len(reports) \in Nat /\ scan.i \in Nat
  BY LenProperties DEF TypeOK, Rings, reports

\* The list is torn, or made whole, under the outcome being answered.
LEMMA TearingAnswer ==
    ASSUME UNCHANGED scan, NEW b \in BOOLEAN, Torn' = b
    PROVE  Answering' = [Answering EXCEPT !.torn = b]
<1>1. Answering' = [req |-> scan.req, due |-> scan.due, torn |-> b]
  BY DEF Answering
<1>2. [Answering EXCEPT !.torn = b] = [req |-> scan.req, due |-> scan.due, torn |-> b]
  BY DEF Answering
<1>. QED BY <1>1, <1>2

LEMMA LedgerInit == Init => Ledger!Init
<1>. SUFFICES ASSUME Init PROVE Ledger!Init
  OBVIOUS
<1>1. Unreported = {}
  BY DEF Init, Unreported
<1>2. ring["reports"] = <<>> /\ Len(ring["reports"]) = 0
  BY EmptySeq DEF Init, Rings
<1>3. Torn = FALSE
  BY <1>2 DEF Init, Torn, NoScan
<1>4. Answering = [req |-> Nobody, due |-> {}, torn |-> FALSE]
  BY <1>3 DEF Init, Answering, NoScan
<1>. QED BY <1>1, <1>2, <1>4 DEF Init, Ledger!Init, Ledger!NothingTaken

\* A new analysis, asked for or asked for again.
LEMMA LedgerAsk ==
    ASSUME TypeOK, AskedInv, NEW w \in Workloads, Send(w)
    PROVE  Ledger!Ask(w)
<1>. DEFINE new == Len(subject) + 1
<1>1. new \in Requests /\ new \notin Asked
  BY LenProperties, BoundsAssumption DEF Send, TypeOK, Requests, Asked
<1>2. phase[new] = "none"
  BY <1>1 DEF AskedInv
<1>3. UNCHANGED <<target, ring, credit, scan, applied, mail>> /\ subject' = Append(subject, w)
  BY DEF Send, outcome
<1>4. /\ phase'[new] = "thinking"
      /\ \A b \in Requests : b # new => phase'[b] = phase[b]
  BY <1>1 DEF Send, TypeOK
<1>5. Unreported' = Unreported \union {new}
  BY <1>1, <1>2, <1>3, <1>4 DEF Unreported, Reached
<1>6. Answering' = Answering
  BY <1>3 DEF Answering, Torn
<1>. QED BY <1>1, <1>3, <1>5, <1>6 DEF Ledger!Ask

\* Nothing but a new analysis, a report appended or dropped and a restart
\* changes what is still to be reported.
LEMMA LedgerQuiet ==
    ASSUME TypeOK, NEW a \in Requests,
           \/ Respond(a) \/ StartTask(a) \/ Check(a)
           \/ AppendRecord(a) /\ target[a] # "reports"
           \/ Pop(a) /\ target[a] # "reports"
    PROVE  UNCHANGED Ledger!vars
<1>1. UNCHANGED <<subject, credit, scan, applied, mail>>
  BY DEF Respond, StartTask, Check, AppendRecord, Pop, Done, Step, outcome, operator
<1>2. UNCHANGED ring["reports"]
  BY DEF Respond, StartTask, Check, AppendRecord, Pop, Done, Step, TypeOK, Rings
<1>3. UNCHANGED Unreported
  BY DEF Respond, StartTask, Check, AppendRecord, Pop, Done, Step, TypeOK, Rings,
     Unreported, Reached
<1>4. UNCHANGED Answering
  BY <1>1, <1>2 DEF Answering, Torn
<1>. QED BY <1>1, <1>2, <1>3, <1>4 DEF Ledger!vars

\* A task ends without its report.
LEMMA LedgerWithhold ==
    ASSUME TypeOK, NEW a \in Requests, DropReport(a)
    PROVE  a \in Unreported /\ Ledger!Withhold(a)
<1>1. UNCHANGED <<subject, target, ring, credit, scan, applied, mail>>
  BY DEF DropReport, Step, outcome, operator
<1>2. a \in Unreported /\ Unreported' = Unreported \ {a}
  BY DEF DropReport, Step, TypeOK, Unreported, Reached
<1>3. UNCHANGED Answering
  BY <1>1 DEF Answering, Torn
<1>. QED BY <1>1, <1>2, <1>3 DEF Ledger!Withhold

\* The task that appends is not trimming: there is one trimming task less than
\* threads, so the list has not reached the cap and the slack.
LEMMA LedgerStore ==
    ASSUME ListsInv, NEW a \in Requests, AppendRecord(a), target[a] = "reports"
    PROVE  a \in Unreported /\ Ledger!Store(a)
<1>. TypeOK
  BY DEF ListsInv
<1>1. UNCHANGED <<subject, credit, scan, applied, mail>>
  BY DEF AppendRecord, Step, outcome, operator
<1>2. ring'["reports"] = Append(ring["reports"], a)
  BY DEF AppendRecord, TypeOK, Rings
<1>3. a \in Unreported /\ Unreported' = Unreported \ {a}
  BY DEF AppendRecord, Step, TypeOK, Unreported, Reached
<1>4. Len(reports) < MaxKept + Threads
  <2>1. /\ Trimming("reports") \subseteq Storing \ {a} /\ a \in Storing
        /\ Storing \subseteq Requests
    BY DEF AppendRecord, Step, Trimming, Storing
  <2>2. /\ Cardinality(Storing \ {a}) = Cardinality(Storing) - 1
        /\ IsFiniteSet(Storing \ {a}) /\ Cardinality(Storing) \in Nat
    BY <2>1, CountOut, RequestsFinite
  <2>3. Cardinality(Trimming("reports")) <= Cardinality(Storing \ {a})
    BY <2>1, <2>2, FS_Subset
  <2>4. Cardinality(Trimming("reports")) \in Nat
    BY RequestsFinite DEF Trimming
  <2>5. Len(reports) <= MaxKept + Cardinality(Trimming("reports"))
    BY DEF ListsInv, CountInv, Counted, Rings, reports
  <2>6. Cardinality(Storing) <= Threads
    BY DEF ListsInv, ThreadsInv
  <2>. QED BY <2>2, <2>3, <2>4, <2>5, <2>6, ReportsAreListed, BoundsAssumption
<1>5. Len(reports') = Len(reports) + 1
  BY <1>2, ReportsAreListed, AppendProperties DEF reports
<1>6. Answering' \in {Answering, [Answering EXCEPT !.torn = FALSE]}
  <2>1. CASE scan.i > Len(reports) + 1
    <3>1. Torn = TRUE /\ Torn' = TRUE
      BY <1>1, <1>5, <2>1, ReportsAreListed DEF Torn, reports
    <3>. QED BY <1>1, <3>1 DEF Answering
  <2>2. CASE ~(scan.i > Len(reports) + 1)
    <3>1. Torn' = FALSE
      BY <1>1, <1>5, <2>2 DEF Torn, reports
    <3>. QED BY <1>1, <3>1, TearingAnswer
  <2>. QED BY <2>1, <2>2
<1>. QED BY <1>1, <1>2, <1>3, <1>4, <1>6 DEF Ledger!Store, reports

\* The list is not below the cap by more than the slack: every pop under way
\* is paid for.
LEMMA LedgerForget ==
    ASSUME ListsInv, NEW a \in Requests, Pop(a), target[a] = "reports"
    PROVE  Ledger!Forget
<1>. TypeOK /\ CountInv
  BY DEF ListsInv
<1>1. UNCHANGED <<subject, credit, scan, applied, mail>>
  BY DEF Pop, Done, Step, outcome, operator
<1>2. ring'["reports"] = Tail(ring["reports"]) /\ ring["reports"] # <<>>
  BY PopFinds DEF Pop, Done, Step, TypeOK, Rings
<1>3. Unreported' = Unreported
  BY DEF Pop, Done, Step, TypeOK, Rings, Unreported, Reached
<1>4. Len(Tail(reports)) = Len(reports) - 1 /\ Len(Tail(reports)) \in Nat
  BY <1>2, ReportsAreListed, HeadTailProperties DEF reports
<1>5. Len(Tail(reports)) + Threads > MaxKept
  <2>1. a \in Popping("reports")
    BY DEF Pop, Done, Step, Popping
  <2>2. Cardinality(Popping("reports")) \in Nat /\ Cardinality(Popping("reports")) # 0
    BY <2>1, RequestsFinite, FS_EmptySet DEF Popping
  <2>3. Len(reports) + Threads > MaxKept + Cardinality(Popping("reports"))
    BY <2>1 DEF ListsInv, RecentInv, Recent, Rings, reports
  <2>. QED BY <1>4, <2>2, <2>3, ReportsAreListed, BoundsAssumption
<1>6. Answering' \in {Answering, [Answering EXCEPT !.torn = Answering.req # Nobody]}
  <2>1. CASE scan.req = Nobody
    <3>1. scan.i = 0
      BY <2>1 DEF TypeOK, NoScan
    <3>2. Torn = FALSE /\ Torn' = FALSE
      BY <1>1, <1>2, <1>4, <3>1, ReportsAreListed DEF Torn, reports
    <3>. QED BY <1>1, <3>2 DEF Answering
  <2>2. CASE scan.req # Nobody /\ scan.i > Len(reports) - 1
    <3>1. Torn' = TRUE
      BY <1>1, <1>2, <1>4, <2>2 DEF Torn, reports
    <3>2. (Answering.req # Nobody) = TRUE
      BY <2>2 DEF Answering
    <3>. QED BY <1>1, <3>1, <3>2, TearingAnswer
  <2>3. CASE scan.req # Nobody /\ ~(scan.i > Len(reports) - 1)
    <3>1. ~(scan.i > Len(reports))
      BY <2>3, ReportsAreListed
    <3>2. Torn = FALSE /\ Torn' = FALSE
      BY <1>1, <1>2, <1>4, <2>3, <3>1 DEF Torn, reports
    <3>. QED BY <1>1, <3>2 DEF Answering
  <2>. QED BY <2>1, <2>2, <2>3
<1>. QED BY <1>1, <1>2, <1>3, <1>5, <1>6 DEF Ledger!Forget, reports

\* What the operator does is visible only in the outcomes it sends.
LEMMA LedgerOperator ==
    ASSUME TypeOK, MailInv, GiveUp \/ StopTelling \/ \E w \in Workloads : Apply(w)
    PROVE  Ledger!Next \/ UNCHANGED Ledger!vars
<1>1. UNCHANGED <<subject, ring, credit, scan, phase, target>>
  BY DEF GiveUp, Apply, StopTelling, Operator, service, outcome
<1>2. UNCHANGED <<Unreported, Answering>>
  BY <1>1 DEF Unreported, Reached, Answering, Torn
<1>3. CASE GiveUp
  BY <1>1, <1>2, <1>3 DEF GiveUp, Ledger!vars
<1>4. ASSUME NEW w \in Workloads, Apply(w) PROVE Ledger!Next
  <2>1. op.req \in 1 .. Len(subject) /\ op.req \in Requests /\ applied[op.req] = NoWorkload
    BY <1>4, LenProperties DEF Apply, TypeOK, Nobody, MailInv, Patched
  <2>2. Ledger!Tell(op.req, w)
    BY <1>1, <1>2, <1>4, <2>1 DEF Apply, Ledger!Tell
  <2>. QED BY <2>1, <2>2 DEF Ledger!Next
<1>5. CASE StopTelling
  <2>1. applied' = applied /\ mail' \in {mail, mail \ {op.req}}
    BY <1>5 DEF StopTelling
  <2>2. CASE mail' = mail
    BY <1>1, <1>2, <2>1, <2>2 DEF Ledger!vars
  <2>3. CASE mail' # mail
    <3>0. op.req \in mail /\ mail' = mail \ {op.req}
      BY <2>1, <2>3
    <3>1. Ledger!Lose(op.req)
      BY <1>1, <1>2, <2>1, <3>0 DEF Ledger!Lose
    <3>. QED BY <3>0, <3>1 DEF Ledger!Next
  <2>. QED BY <2>2, <2>3
<1>. QED BY <1>3, <1>4, <1>5

LEMMA LedgerTake ==
    ASSUME TypeOK, NEW a \in Requests, BeginScan(a)
    PROVE  a \in mail /\ Ledger!Take(a)
<1>1. UNCHANGED <<subject, phase, target, ring, credit, applied>>
  BY DEF BeginScan, service, operator
<1>2. UNCHANGED Unreported
  BY <1>1 DEF Unreported, Reached
<1>3. Answering.req = Nobody /\ a \in mail /\ mail' = mail \ {a}
  BY DEF BeginScan, Answering
<1>4. {r \in Listed : WantsStep(r, a)} = {r \in Ledger!InList : Ledger!Fits(r, a)}
  BY DEF Listed, WantsStep, Ledger!InList, Ledger!Fits
<1>5. scan' = [req |-> a, i |-> Len(reports), due |-> {r \in Listed : WantsStep(r, a)}]
  BY DEF BeginScan, FirstIndex, reports
<1>6. Torn' = FALSE
  BY <1>1, <1>5, ReportsAreListed DEF Torn, reports
<1>7. Answering' = [req |-> a, due |-> {r \in Listed : WantsStep(r, a)}, torn |-> FALSE]
  BY <1>5, <1>6 DEF Answering
<1>. QED BY <1>1, <1>2, <1>3, <1>4, <1>7 DEF Ledger!Take

\* The end of a scan is the answer of the ledger.
LEMMA LedgerAnswer ==
    ASSUME TypeOK, scan.req # Nobody, Reply
    PROVE  Ledger!Answer
<1>1. UNCHANGED <<subject, phase, target, ring, applied, mail>> /\ scan' = NoScan
  BY DEF Reply, service, operator
<1>2. UNCHANGED Unreported
  BY <1>1 DEF Unreported, Reached
<1>3. Torn' = FALSE
  BY <1>1, ReportsAreListed DEF Torn, NoScan, reports
<1>4. Answering' = [req |-> Nobody, due |-> {}, torn |-> FALSE]
  BY <1>1, <1>3 DEF Answering, NoScan
<1>5. Answering.req # Nobody
  BY DEF Answering
<1>. QED BY <1>1, <1>2, <1>4, <1>5 DEF Ledger!Answer, Ledger!NothingTaken

\* What the scan chooses is the newest of what was there to choose from, or
\* newer: that is ScanMissesNothing.
LEMMA LedgerRecord ==
    ASSUME TypeOK, ScanInv, Record
    PROVE  Ledger!Record
<1>1. scan.req # Nobody /\ scan.i \in 1 .. Len(reports)
  BY DEF Record, InRange, reports
<1>2. Ledger!Answer
  BY <1>1, LedgerAnswer DEF Record
<1>3. ~Torn
  BY <1>1, ReportsAreListed DEF Torn, reports
<1>4. ~Answering.torn
  BY <1>3 DEF Answering
<1>5. /\ Ledger!Fits(reports[scan.i], Answering.req)
      /\ credit' = [credit EXCEPT ![reports[scan.i]] = Answering.req]
  BY DEF Record, WantsStep, Ledger!Fits, Answering, reports
<1>6. \A j \in scan.i + 1 .. Len(reports) : reports[j] \notin Answering.due
  <2>. SUFFICES ASSUME NEW j \in scan.i + 1 .. Len(reports), reports[j] \in scan.due
                PROVE  FALSE
    BY DEF Answering
  <2>1. j \in 1 .. Len(reports) /\ j > scan.i
    BY ReportsAreListed
  <2>2. j <= scan.i
    BY <2>1 DEF ScanInv, ScanMissesNothing, reports
  <2>. QED BY <2>1, <2>2, ReportsAreListed
<1>. QED BY <1>1, <1>2, <1>4, <1>5, <1>6 DEF Ledger!Record, reports

LEMMA LedgerNotFound ==
    ASSUME TypeOK, ScanInv, NotFound
    PROVE  Ledger!NotFound
<1>1. Ledger!Answer /\ UNCHANGED credit /\ scan.i = 0
  BY LedgerAnswer DEF NotFound
<1>2. ~Torn
  BY <1>1, ReportsAreListed DEF Torn, reports
<1>3. ~Answering.torn
  BY <1>2 DEF Answering
<1>4. Answering.due \intersect Ledger!InList = {}
  <2>. SUFFICES ASSUME NEW j \in 1 .. Len(reports), reports[j] \in scan.due
                PROVE  FALSE
    BY DEF Answering, Ledger!InList, reports
  <2>1. j <= scan.i
    BY DEF ScanInv, ScanMissesNothing, reports
  <2>. QED BY <1>1, <2>1, ReportsAreListed
<1>. QED BY <1>1, <1>3, <1>4 DEF Ledger!NotFound

LEMMA LedgerFail ==
    ASSUME TypeOK, OutOfRange
    PROVE  Ledger!Fail
<1>1. scan.i > Len(reports) /\ UNCHANGED credit /\ Reply
  BY DEF OutOfRange, reports
<1>2. scan.req # Nobody
  BY <1>1, ReportsAreListed DEF TypeOK, NoScan
<1>3. Torn /\ Ledger!Answer
  BY <1>1, <1>2, LedgerAnswer DEF Torn, reports
<1>. QED BY <1>1, <1>3 DEF Ledger!Fail, Answering

\* An index less changes nothing that the ledger knows of.
LEMMA LedgerPassOver ==
    ASSUME TypeOK, PassOver
    PROVE  UNCHANGED Ledger!vars
<1>1. UNCHANGED <<subject, phase, target, ring, credit, applied, mail>>
  BY DEF PassOver, service, operator
<1>2. UNCHANGED Unreported
  BY <1>1 DEF Unreported, Reached
<1>3. scan.i \in 1 .. Len(reports) /\ scan' = [scan EXCEPT !.i = @ - 1]
  BY DEF PassOver, InRange, reports
<1>4. scan'.req = scan.req /\ scan'.due = scan.due /\ scan'.i = scan.i - 1
  BY <1>3 DEF TypeOK
<1>5. ~(scan.i > Len(reports)) /\ ~(scan.i - 1 > Len(reports))
  BY <1>3, ReportsAreListed
<1>6. Torn = FALSE /\ Torn' = FALSE
  BY <1>1, <1>4, <1>5 DEF Torn, reports
<1>7. UNCHANGED Answering
  BY <1>4, <1>6 DEF Answering
<1>. QED BY <1>1, <1>2, <1>7 DEF Ledger!vars

LEMMA LedgerRestart ==
    ASSUME TypeOK, Restart
    PROVE  Ledger!Restart
<1>1. UNCHANGED <<subject, applied, mail>> /\ scan' = NoScan /\ ring'["reports"] = <<>>
  BY DEF Restart, operator, Rings
<1>2. Unreported' = {}
  BY DEF Restart, Unreported, Reached
<1>3. Len(ring'["reports"]) = 0
  BY <1>1, EmptySeq
<1>4. Torn' = FALSE
  BY <1>1, <1>3 DEF Torn, NoScan
<1>5. Answering' = [req |-> Nobody, due |-> {}, torn |-> FALSE]
  BY <1>1, <1>4 DEF Answering, NoScan
<1>. QED BY <1>1, <1>2, <1>5 DEF Restart, Ledger!Restart, Ledger!NothingTaken

LEMMA LedgerStep ==
    ListsInv /\ MailInv /\ ScanInv /\ [Next]_vars => [Ledger!Next]_(Ledger!vars)
<1>. SUFFICES ASSUME ListsInv, MailInv, ScanInv, [Next]_vars
              PROVE  Ledger!Next \/ UNCHANGED Ledger!vars
  OBVIOUS
<1>. TypeOK /\ AskedInv
  BY DEF ListsInv
<1>1. ASSUME NEW w \in Workloads, Send(w) PROVE Ledger!Next
  BY <1>1, LedgerAsk DEF Ledger!Next
<1>2. CASE GiveUp \/ StopTelling \/ \E w \in Workloads : Apply(w)
  BY <1>2, LedgerOperator
<1>3. ASSUME NEW a \in Requests, Respond(a) \/ StartTask(a) \/ Check(a)
      PROVE  UNCHANGED Ledger!vars
  BY <1>3, LedgerQuiet
<1>4. ASSUME NEW a \in Requests, AppendRecord(a)
      PROVE  Ledger!Next \/ UNCHANGED Ledger!vars
  BY <1>4, LedgerStore, LedgerQuiet DEF Ledger!Next
<1>5. ASSUME NEW a \in Requests, Pop(a)
      PROVE  Ledger!Next \/ UNCHANGED Ledger!vars
  BY <1>5, LedgerForget, LedgerQuiet DEF Ledger!Next
<1>6. ASSUME NEW a \in Requests, BeginScan(a) PROVE Ledger!Next
  BY <1>6, LedgerTake DEF Ledger!Next
<1>7. CASE NotFound \/ OutOfRange \/ Record
  BY <1>7, LedgerNotFound, LedgerFail, LedgerRecord DEF Ledger!Next
<1>8. CASE PassOver
  BY <1>8, LedgerPassOver
<1>9. CASE Restart
  BY <1>9, LedgerRestart DEF Ledger!Next
<1>10. CASE UNCHANGED vars
  <2>1. UNCHANGED <<subject, phase, target, ring, credit, scan, applied, mail>>
    BY <1>10 DEF vars, service, outcome, operator
  <2>2. UNCHANGED <<Unreported, Answering>>
    BY <2>1 DEF Unreported, Reached, Answering, Torn
  <2>. QED BY <2>1, <2>2 DEF Ledger!vars
<1>11. ASSUME NEW w \in Workloads, Ask(w) PROVE Ledger!Next
  BY <1>1, <1>11 DEF Ask
<1>12. CASE Retry
  BY <1>1, <1>12, RetrySends
<1>13. ASSUME NEW a \in Requests, DropReport(a) PROVE Ledger!Next
  BY <1>13, LedgerWithhold DEF Ledger!Next
<1>. QED BY <1>2, <1>3, <1>4, <1>5, <1>6, <1>7, <1>8, <1>9, <1>10, <1>11, <1>12,
         <1>13 DEF Next

\* The service, with its threads and its scan by index, is a ReportLedger.
THEOREM StoreImplementsLedger == Spec => ImplementsLedger
<1>1. ListsInv /\ MailInv /\ ScanInv /\ [Next]_vars => [Ledger!Next]_(Ledger!vars)
  BY LedgerStep
<1>. QED
  BY <1>1, LedgerInit, RecentAlways, ReportsAlways, PTL DEF Spec, ImplementsLedger, Ledger!Spec
=============================================================================
