--------------------------- MODULE Evidence_proofs ---------------------------
(***************************************************************************)
(* For every number of Pods, every length of their logs and every cap: no  *)
(* line is shown under another Pod than its own, and, where the prompt has *)
(* room for what the caps let through, nothing that was gathered is        *)
(* dropped in silence and no node is left out.                             *)
(***************************************************************************)
EXTENDS Evidence, Lists_proofs, SequenceTheorems

\* Every line of the log is read as belonging to its Pod.
WellRead(log) == \A i \in DOMAIN log : IsLine(log, i) => ReadAs(log, i, log[i].pod)

HeaderFree(log) == \A i \in DOMAIN log : ~IsHeader(log, i)

\* A log of a Pod that is looked at itself has no headers; its Pod is number 1.
\* With several Pods, the current one has a header wherever it has lines.
LogInv(log) ==
    /\ log \in Seq(LineType)
    /\ WellRead(log)
    /\ status.kind = "Pod" => HeaderFree(log)

GatherInv ==
    /\ case \in Cases
    /\ status \in StatusType
    /\ status.kind = case.status.kind
    /\ pod \in Nat \ {0}
    /\ phase \in {"idle", "events", "list"} => pod = 1
    /\ status.kind = "Pod" /\ phase \in {"recent", "history"} => pod = 1
    /\ LogInv(recent)
    /\ LogInv(history)

-----------------------------------------------------------------------------
(* Logs *)

\* What a line of a log may be.
LEMMA LineKinds ==
    ASSUME NEW x \in LineType
    PROVE  \/ "pod" \in DOMAIN x /\ "header" \notin DOMAIN x
           \/ "header" \in DOMAIN x /\ "pod" \notin DOMAIN x
           \/ "pod" \notin DOMAIN x /\ "header" \notin DOMAIN x
  BY DEF LineType

\* Only what stands above a line tells whose it is.
LEMMA ReadAsPrefix ==
    ASSUME NEW a, NEW b, NEW i \in Nat, \A j \in 1 .. i : a[j] = b[j], NEW p
    PROVE  ReadAs(a, i, p) <=> ReadAs(b, i, p)
<1>1. \A j \in 1 .. i : IsHeader(a, j) <=> IsHeader(b, j)
  BY DEF IsHeader
<1>2. \A j \in 1 .. i : \A k \in (j + 1) .. i : k \in 1 .. i
  OBVIOUS
<1>. QED BY <1>1, <1>2 DEF ReadAs

\* A log that is cut at its end is read as before.
LEMMA CutKeeps ==
    ASSUME NEW log \in Seq(LineType), WellRead(log), NEW n \in 0 .. Len(log)
    PROVE  /\ SubSeq(log, 1, n) \in Seq(LineType)
           /\ WellRead(SubSeq(log, 1, n))
           /\ HeaderFree(log) => HeaderFree(SubSeq(log, 1, n))
<1>. DEFINE cut == SubSeq(log, 1, n)
<1>1. cut \in Seq(LineType) /\ Len(cut) = n /\ \A j \in 1 .. n : cut[j] = log[j]
  OBVIOUS
<1>2. DOMAIN cut = 1 .. n /\ DOMAIN log = 1 .. Len(log)
  BY <1>1
<1>. HIDE DEF cut
<1>3. ASSUME NEW i \in 1 .. n, IsLine(cut, i) PROVE ReadAs(cut, i, cut[i].pod)
  <2>1. cut[i] = log[i] /\ i \in DOMAIN log /\ IsLine(log, i)
    BY <1>1, <1>2, <1>3 DEF IsLine
  <2>2. ReadAs(log, i, log[i].pod)
    BY <2>1 DEF WellRead
  <2>3. \A j \in 1 .. i : cut[j] = log[j]
    BY <1>1
  <2>. QED BY <2>1, <2>2, <2>3, ReadAsPrefix
<1>4. HeaderFree(log) => HeaderFree(cut)
  BY <1>1, <1>2 DEF HeaderFree, IsHeader
<1>5. cut \in Seq(LineType) /\ WellRead(cut) /\ (HeaderFree(log) => HeaderFree(cut))
  BY <1>1, <1>2, <1>3, <1>4 DEF WellRead
<1>. QED BY <1>5 DEF cut

\* A notice is nobody's line.
LEMMA NoticeKeeps ==
    ASSUME NEW log \in Seq(LineType), WellRead(log), NEW d \in Nat
    PROVE  /\ Append(log, [dropped |-> d]) \in Seq(LineType)
           /\ WellRead(Append(log, [dropped |-> d]))
           /\ HeaderFree(log) => HeaderFree(Append(log, [dropped |-> d]))
<1>. DEFINE new == Append(log, [dropped |-> d])
            m == Len(log)
<1>0. [dropped |-> d] \in LineType /\ m \in Nat
  BY DEF LineType
<1>1. /\ new \in Seq(LineType) /\ DOMAIN new = 1 .. (m + 1) /\ DOMAIN log = 1 .. m
      /\ \A j \in 1 .. m : new[j] = log[j]
      /\ new[m + 1] = [dropped |-> d]
  BY <1>0
<1>2. ~IsLine(new, m + 1) /\ ~IsHeader(new, m + 1)
  BY <1>1 DEF IsLine, IsHeader
<1>. HIDE DEF new
<1>3. ASSUME NEW i \in 1 .. (m + 1), IsLine(new, i) PROVE ReadAs(new, i, new[i].pod)
  <2>1. i \in 1 .. m
    BY <1>0, <1>2, <1>3
  <2>2. new[i] = log[i] /\ IsLine(log, i) /\ ReadAs(log, i, log[i].pod)
    BY <1>1, <1>3, <2>1 DEF IsLine, WellRead
  <2>3. \A j \in 1 .. i : new[j] = log[j]
    BY <1>0, <1>1, <2>1
  <2>. QED BY <1>0, <2>1, <2>2, <2>3, ReadAsPrefix
<1>4. ASSUME HeaderFree(log), NEW i \in 1 .. (m + 1) PROVE ~IsHeader(new, i)
  <2>1. CASE i = m + 1
    BY <1>2, <2>1
  <2>2. CASE i \in 1 .. m
    BY <1>1, <1>4, <2>2 DEF HeaderFree, IsHeader
  <2>. QED BY <1>0, <2>1, <2>2
<1>5. new \in Seq(LineType) /\ WellRead(new) /\ (HeaderFree(log) => HeaderFree(new))
  BY <1>1, <1>3, <1>4 DEF WellRead, HeaderFree
<1>. QED BY <1>5 DEF new

LEMMA TruncateKeeps ==
    ASSUME NEW log \in Seq(LineType), WellRead(log), NEW max \in Int
    PROVE  /\ TruncateLogs(log, max) \in Seq(LineType)
           /\ WellRead(TruncateLogs(log, max))
           /\ HeaderFree(log) => HeaderFree(TruncateLogs(log, max))
<1>1. CASE max <= 0 \/ Len(log) <= max
  BY <1>1 DEF TruncateLogs
<1>2. CASE ~(max <= 0 \/ Len(log) <= max)
  <2>1. max \in 0 .. Len(log) /\ Len(log) - max \in Nat
    BY <1>2
  <2>2. TruncateLogs(log, max) = Append(SubSeq(log, 1, max), [dropped |-> Len(log) - max])
    BY <1>2 DEF TruncateLogs
  <2>. QED BY <2>1, <2>2, CutKeeps, NoticeKeeps
<1>. QED BY <1>1, <1>2

LEMMA FirstKeeps ==
    ASSUME NEW log \in Seq(LineType), WellRead(log), NEW n \in Nat
    PROVE  WellRead(FirstOf(log, n))
<1>1. CASE Len(log) <= n
  BY <1>1 DEF FirstOf
<1>2. CASE ~(Len(log) <= n)
  BY <1>2, CutKeeps DEF FirstOf
<1>. QED BY <1>1, <1>2

\* The lines of Pod p, cut or not, speak of p only and have no header.
Speaks(lines, p) ==
    /\ lines \in Seq(LineType)
    /\ HeaderFree(lines)
    /\ \A i \in DOMAIN lines : IsLine(lines, i) => lines[i].pod = p

LEMMA LinesSpeak == ASSUME NEW p \in Nat, NEW n \in Nat PROVE Speaks(Lines(p, n), p)
<1>1. \A i \in 1 .. n : [pod |-> p, line |-> i] \in LineType
  BY DEF LineType
<1>2. Lines(p, n) \in Seq(LineType) /\ DOMAIN Lines(p, n) = 1 .. n
  BY <1>1 DEF Lines
<1>. QED BY <1>2 DEF Lines, Speaks, HeaderFree, IsHeader, IsLine

\* A notice speaks of nobody.
LEMMA TruncatedLinesSpeak ==
    ASSUME NEW p \in Nat, NEW lines, Speaks(lines, p), NEW max \in Int
    PROVE  Speaks(TruncateLogs(lines, max), p)
<1>2. CASE max <= 0 \/ Len(lines) <= max
  BY <1>2 DEF TruncateLogs
<1>3. CASE ~(max <= 0 \/ Len(lines) <= max)
  <2>0. lines \in Seq(LineType) /\ Len(lines) - max \in Nat /\ max \in 0 .. Len(lines)
    BY <1>3 DEF Speaks
  <2>1. PICK notice \in LineType :
          TruncateLogs(lines, max) = Append(SubSeq(lines, 1, max), notice)
          /\ "pod" \notin DOMAIN notice /\ "header" \notin DOMAIN notice
    BY <1>3, <2>0 DEF TruncateLogs, LineType
  <2>2. PICK new : new = TruncateLogs(lines, max)
    OBVIOUS
  <2>3. /\ new \in Seq(LineType) /\ DOMAIN new = 1 .. (max + 1) /\ DOMAIN lines = 1 .. Len(lines)
        /\ \A i \in 1 .. max : new[i] = lines[i]
        /\ new[max + 1] = notice
    BY <2>0, <2>1, <2>2
  <2>4. ASSUME NEW i \in 1 .. (max + 1)
        PROVE  ~IsHeader(new, i) /\ (IsLine(new, i) => new[i].pod = p)
    <3>1. CASE i = max + 1
      BY <2>1, <2>3, <3>1 DEF IsHeader, IsLine
    <3>2. CASE i \in 1 .. max
      BY <2>0, <2>3, <3>2 DEF Speaks, HeaderFree, IsHeader, IsLine
    <3>. QED BY <2>0, <3>1, <3>2
  <2>. QED BY <2>2, <2>3, <2>4 DEF Speaks, HeaderFree
<1>. QED BY <1>2, <1>3

-----------------------------------------------------------------------------
\* A log without headers goes on with lines of the one Pod there is.
LEMMA PlainBlockKeeps ==
    ASSUME NEW log \in Seq(LineType), WellRead(log), HeaderFree(log),
           NEW lines, Speaks(lines, 1)
    PROVE  log \o lines \in Seq(LineType) /\ WellRead(log \o lines) /\ HeaderFree(log \o lines)
<1>. DEFINE new == log \o lines
            m == Len(log)
<1>0. lines \in Seq(LineType) /\ m \in Nat /\ Len(lines) \in Nat
  BY DEF Speaks
<1>1. /\ new \in Seq(LineType) /\ DOMAIN new = 1 .. (m + Len(lines))
      /\ DOMAIN log = 1 .. m /\ DOMAIN lines = 1 .. Len(lines)
      /\ \A j \in 1 .. m : new[j] = log[j]
      /\ \A j \in (m + 1) .. (m + Len(lines)) : new[j] = lines[j - m] /\ j - m \in 1 .. Len(lines)
  BY <1>0
<1>. HIDE DEF new
<1>2. ASSUME NEW i \in DOMAIN new PROVE ~IsHeader(new, i)
  <2>1. CASE i \in 1 .. m
    BY <1>1, <2>1 DEF HeaderFree, IsHeader
  <2>2. CASE i \in (m + 1) .. (m + Len(lines))
    BY <1>1, <2>2 DEF Speaks, HeaderFree, IsHeader
  <2>. QED BY <1>0, <1>1, <2>1, <2>2
<1>3. ASSUME NEW i \in DOMAIN new, IsLine(new, i) PROVE ReadAs(new, i, new[i].pod)
  <2>1. CASE i \in 1 .. m
    <3>1. new[i] = log[i] /\ IsLine(log, i) /\ ReadAs(log, i, log[i].pod)
      BY <1>1, <1>3, <2>1 DEF IsLine, WellRead
    <3>2. \A j \in 1 .. i : new[j] = log[j]
      BY <1>0, <1>1, <2>1
    <3>. QED BY <1>0, <2>1, <3>1, <3>2, ReadAsPrefix
  <2>2. CASE i \in (m + 1) .. (m + Len(lines))
    <3>1. new[i].pod = 1
      <4>1. new[i] = lines[i - m] /\ i - m \in DOMAIN lines
        BY <1>1, <2>2
      <4>. QED BY <1>3, <4>1 DEF Speaks, IsLine
    <3>2. \A j \in 1 .. i : ~IsHeader(new, j)
      <4>1. \A j \in 1 .. i : j \in 1 .. (m + Len(lines))
        BY <1>0, <2>2
      <4>. QED BY <1>1, <1>2, <4>1
    <3>. QED BY <3>1, <3>2 DEF ReadAs
  <2>. QED BY <1>0, <1>1, <2>1, <2>2
<1>4. new \in Seq(LineType) /\ WellRead(new) /\ HeaderFree(new)
  BY <1>1, <1>2, <1>3 DEF WellRead, HeaderFree
<1>. QED BY <1>4 DEF new

\* Under a header of p, lines of p are read as such, whatever stands above.
LEMMA HeadedBlockKeeps ==
    ASSUME NEW log \in Seq(LineType), WellRead(log), NEW p \in Nat,
           NEW lines, Speaks(lines, p),
           NEW head \in Seq(LineType), Len(head) = 1, head[1] = [header |-> p]
    PROVE  /\ (log \o head) \o lines \in Seq(LineType)
           /\ WellRead((log \o head) \o lines)
<1>. DEFINE new == (log \o head) \o lines
            m == Len(log)
            n == m + 1 + Len(lines)
<1>0. lines \in Seq(LineType) /\ m \in Nat /\ Len(lines) \in Nat
  BY DEF Speaks
<1>a. PICK top \in Seq(LineType) :
        /\ top = log \o head /\ Len(top) = m + 1
        /\ \A j \in 1 .. m : top[j] = log[j]
        /\ top[m + 1] = [header |-> p]
  <2>1. log \o head \in Seq(LineType) /\ Len(log \o head) = m + 1
        /\ \A j \in 1 .. m + 1 : (log \o head)[j] = IF j <= m THEN log[j] ELSE head[j - m]
    <3>1. log \o head \in Seq(LineType) /\ Len(log \o head) = Len(log) + Len(head)
          /\ \A j \in 1 .. Len(log) + Len(head) :
                (log \o head)[j] = IF j <= Len(log) THEN log[j] ELSE head[j - Len(log)]
      BY ConcatProperties
    <3>. QED BY <3>1
  <2>2. \A j \in 1 .. m : j \in 1 .. m + 1 /\ j <= m
    BY <1>0
  <2>3. m + 1 \in 1 .. m + 1 /\ ~(m + 1 <= m) /\ (m + 1) - m = 1
    BY <1>0
  <2>. QED BY <2>1, <2>2, <2>3
<1>b. /\ top \o lines \in Seq(LineType) /\ Len(top \o lines) = n
      /\ \A j \in 1 .. n : (top \o lines)[j] = IF j <= m + 1 THEN top[j] ELSE lines[j - (m + 1)]
  <2>1. /\ top \o lines \in Seq(LineType) /\ Len(top \o lines) = Len(top) + Len(lines)
        /\ \A j \in 1 .. Len(top) + Len(lines) :
              (top \o lines)[j] = IF j <= Len(top) THEN top[j] ELSE lines[j - Len(top)]
    BY <1>0, ConcatProperties
  <2>. QED BY <1>a, <2>1
<1>1. /\ new \in Seq(LineType) /\ DOMAIN new = 1 .. n
      /\ DOMAIN log = 1 .. m /\ DOMAIN lines = 1 .. Len(lines)
      /\ \A j \in 1 .. m : new[j] = log[j]
      /\ new[m + 1] = [header |-> p]
      /\ \A j \in (m + 2) .. n : new[j] = lines[j - (m + 1)] /\ j - (m + 1) \in 1 .. Len(lines)
  <2>1. new = top \o lines
    BY <1>a
  <2>2. DOMAIN new = 1 .. n /\ DOMAIN log = 1 .. m /\ DOMAIN lines = 1 .. Len(lines)
    BY <1>0, <1>b, <2>1, LenProperties
  <2>3. \A j \in 1 .. m : j \in 1 .. n /\ j <= m + 1
    BY <1>0
  <2>4. m + 1 \in 1 .. n
    BY <1>0
  <2>5. \A j \in (m + 2) .. n : j \in 1 .. n /\ ~(j <= m + 1) /\ j - (m + 1) \in 1 .. Len(lines)
    BY <1>0
  <2>. QED BY <1>0, <1>a, <1>b, <2>1, <2>2, <2>3, <2>4, <2>5
<1>. HIDE DEF new
<1>2. \A j \in (m + 2) .. n : ~IsHeader(new, j)
  BY <1>1 DEF Speaks, HeaderFree, IsHeader
<1>3. ASSUME NEW i \in 1 .. n, IsLine(new, i) PROVE ReadAs(new, i, new[i].pod)
  <2>1. CASE i \in 1 .. m
    <3>1. new[i] = log[i] /\ IsLine(log, i) /\ ReadAs(log, i, log[i].pod)
      BY <1>1, <1>3, <2>1 DEF IsLine, WellRead
    <3>2. \A j \in 1 .. i : new[j] = log[j]
      BY <1>0, <1>1, <2>1
    <3>3. i \in Nat
      BY <1>0, <2>1
    <3>4. ReadAs(new, i, log[i].pod)
      BY <3>1, <3>2, <3>3, ReadAsPrefix
    <3>. QED BY <3>1, <3>4
  <2>2. CASE i = m + 1
    BY <1>1, <1>3, <2>2 DEF IsLine
  <2>3. CASE i \in (m + 2) .. n
    <3>1. new[i].pod = p
      <4>1. new[i] = lines[i - (m + 1)] /\ i - (m + 1) \in DOMAIN lines
        BY <1>1, <2>3
      <4>2. IsLine(lines, i - (m + 1))
        BY <1>3, <4>1 DEF IsLine
      <4>. QED BY <4>1, <4>2 DEF Speaks
    <3>2. IsHeader(new, m + 1) /\ new[m + 1].header = p
      BY <1>1 DEF IsHeader
    <3>3. \A k \in ((m + 1) + 1) .. i : ~IsHeader(new, k)
      BY <1>0, <1>2, <2>3
    <3>4. m + 1 \in 1 .. i
      BY <1>0, <2>3
    <3>. QED BY <3>1, <3>2, <3>3, <3>4 DEF ReadAs
  <2>. QED BY <1>0, <2>1, <2>2, <2>3
<1>4. new \in Seq(LineType) /\ WellRead(new)
  BY <1>1, <1>3 DEF WellRead
<1>. QED BY <1>4 DEF new

\* Lines of the Pod in hand, under its header or alone, keep a log in order.
LEMMA BlockKeeps ==
    ASSUME GatherInv, phase \in {"recent", "history"}, NEW log, LogInv(log),
           NEW lines, Speaks(lines, pod)
    PROVE  LogInv(log \o Header(pod) \o lines)
<1>1. CASE status.kind = "Pod"
  <2>1. pod = 1 /\ Header(pod) = <<>> /\ log \o <<>> = log
    BY <1>1 DEF GatherInv, Header, LogInv
  <2>. QED BY <1>1, <2>1, PlainBlockKeeps DEF LogInv
<1>2. CASE status.kind # "Pod"
  <2>1. pod \in Nat /\ log \in Seq(LineType) /\ WellRead(log)
    BY DEF GatherInv, LogInv
  <2>2. PICK head : head = <<[header |-> pod]>>
    OBVIOUS
  <2>3. head \in Seq(LineType) /\ Len(head) = 1 /\ head[1] = [header |-> pod]
    BY <2>1, <2>2 DEF LineType
  <2>4. Header(pod) = head
    BY <1>2, <2>2 DEF Header
  <2>. QED BY <1>2, <2>1, <2>3, <2>4, HeadedBlockKeeps DEF LogInv
<1>. QED BY <1>1, <1>2

-----------------------------------------------------------------------------
(* The invariant *)

LEMMA EmptyLog == LogInv(<<>>)
  BY DEF LogInv, WellRead, HeaderFree

LEMMA GatherInvInit == Init => GatherInv
<1>. SUFFICES ASSUME Init PROVE GatherInv
  OBVIOUS
<1>1. status \in StatusType
  BY CasesAssumption DEF Init, CaseType
<1>2. LogInv(recent) /\ LogInv(history)
  BY EmptyLog DEF Init
<1>3. pod = 1 /\ phase = "idle" /\ case \in Cases /\ status = case.status
  BY DEF Init
<1>. QED BY <1>1, <1>2, <1>3 DEF GatherInv

LEMMA RestartsCapped ==
    ASSUME NEW k \in 0 .. RestartCountThreshold, k < RestartCountThreshold
    PROVE  k + 1 \in 0 .. RestartCountThreshold
  BY DEF RestartCountThreshold

\* A workload keeps its kind.
LEMMA KindStays ==
    ASSUME GatherInv, Kubernetes PROVE status' \in StatusType /\ status'.kind = status.kind
<1>0. status \in StatusType /\ (status.kind = "Pod" => status \in PodStatus)
  BY DEF GatherInv, StatusType, PodStatus, DeploymentStatus, JobStatus
<1>1. ASSUME NEW i \in 1 .. 2, ContainerMoves(i)
      PROVE  status' \in StatusType /\ status'.kind = status.kind
  <2>1. ASSUME NEW from, NEW to \in {"waiting", "running", "terminated"},
               NEW r \in {"", "ContainerCreating", "CrashLoopBackOff", "ImagePullBackOff",
                          "ErrImagePull", "OOMKilled", "Error"}, Moves(i, from, to, r)
        PROVE  status' \in StatusType /\ status'.kind = status.kind
    <3>0. status \in PodStatus /\ i \in DOMAIN status.containers
      BY <1>0, <2>1 DEF Moves
    <3>1. PICK s \in Seq(Container) : s = status.containers
      BY <3>0 DEF PodStatus
    <3>2. i \in 1 .. Len(s) /\ s[i] \in Container
      <4>1. DOMAIN s = 1 .. Len(s)
        BY <3>1, LenProperties
      <4>2. i \in 1 .. Len(s)
        BY <3>0, <3>1, <4>1
      <4>. QED BY <3>1, <4>2, ElementOfSeq
    <3>3. PICK new \in Container : status' = [status EXCEPT !.containers[i] = new]
      <4>. DEFINE n == IF to = "running" /\ s[i].started /\ s[i].restarts < RestartCountThreshold
                       THEN s[i].restarts + 1 ELSE s[i].restarts
                  b == s[i].started \/ to = "running"
      <4>0. s[i].restarts \in 0 .. RestartCountThreshold
        BY <3>2 DEF Container
      <4>1. n \in 0 .. RestartCountThreshold /\ b \in BOOLEAN
        BY <4>0, RestartsCapped
      <4>2. [state |-> to, reason |-> r, started |-> b, restarts |-> n] \in Container
        BY <4>1 DEF Container
      <4>3. status' = [status EXCEPT !.containers[i] =
                         [state |-> to, reason |-> r, started |-> b, restarts |-> n]]
        BY <2>1, <3>1 DEF Moves
      <4>. QED BY <4>2, <4>3
    <3>4. [s EXCEPT ![i] = new] \in Seq(Container)
      BY <3>2, ExceptSeq
    <3>. QED BY <3>0, <3>1, <3>3, <3>4 DEF PodStatus, StatusType
  <2>. QED BY <1>1, <2>1 DEF ContainerMoves, PullFails, Runs, Crashes, BacksOff
<1>2. CASE Ends
  BY <1>0, <1>2 DEF Ends, StatusType, PodStatus
<1>3. CASE DeploymentMoves
  BY <1>0, <1>3 DEF DeploymentMoves, StatusType, PodStatus, DeploymentStatus, JobStatus
<1>4. CASE JobMoves
  BY <1>0, <1>4 DEF JobMoves, StatusType, PodStatus, DeploymentStatus, JobStatus
<1>. QED BY <1>1, <1>2, <1>3, <1>4 DEF Kubernetes

\* The worker has Pod 1 in hand when the workload is a Pod.
LEMMA OnePod ==
    ASSUME GatherInv, status.kind = "Pod" PROVE Len(PodsLookedAt) = 1
  BY CasesAssumption DEF GatherInv, CaseType, PodsLookedAt

LEMMA LastPod ==
    ASSUME GatherInv, status.kind = "Pod" PROVE AfterPod(pod) = "nodes"
<1>1. Len(PodsLookedAt) = 1
  BY OnePod
<1>2. pod \in Nat /\ pod >= 1
  BY DEF GatherInv
<1>. QED BY <1>1, <1>2 DEF AfterPod

LEMMA GatherInvStep == GatherInv /\ [Next]_vars => GatherInv'
<1>. SUFFICES ASSUME GatherInv, [Next]_vars PROVE GatherInv'
  OBVIOUS
<1>1. CASE Kubernetes
  <2>1. status' \in StatusType /\ status'.kind = status.kind
    BY <1>1, KindStays
  <2>. QED BY <1>1, <2>1 DEF Kubernetes, gathered, GatherInv, LogInv, WellRead, HeaderFree,
              ReadAs, IsHeader, IsLine
<1>. DEFINE Still == UNCHANGED <<status, case>>
<1>2. ASSUME Still, UNCHANGED <<recent, history>>
      PROVE  LogInv(recent)' /\ LogInv(history)'
  BY <1>2 DEF GatherInv, LogInv, WellRead, HeaderFree, ReadAs, IsHeader, IsLine
<1>3. CASE Detect \/ CollectEvents
  BY <1>2, <1>3 DEF Detect, CollectEvents, GatherInv
<1>4. CASE ListPods
  BY <1>2, <1>4 DEF ListPods, gathered, GatherInv, AfterPod
<1>5. CASE ListFails \/ RedactFails \/ Done
  <2>1. Still /\ recent' = <<>> /\ history' = <<>> /\ pod' = 1 /\ phase' = "idle"
    BY <1>5 DEF ListFails, RedactFails, Done, Clear
  <2>2. LogInv(recent)' /\ LogInv(history)'
    BY <2>1 DEF LogInv, WellRead, HeaderFree
  <2>. QED BY <2>1, <2>2 DEF GatherInv
<1>7. CASE GetPodLogs
  <2>1. PICK n \in 0 .. MaxLines : Gather(Lines(pod, n))
    BY <1>7 DEF GetPodLogs
  <2>2. n \in Nat /\ pod \in Nat
    BY CapAssumption DEF GatherInv
  <2>3. LogInv(recent \o Header(pod) \o Lines(pod, n))
    BY <1>7, <2>2, LinesSpeak, BlockKeeps DEF GetPodLogs, GatherInv
  <2>4. recent' = recent \o Header(pod) \o Lines(pod, n) /\ Still /\ UNCHANGED history
    BY <1>7, <2>1 DEF GetPodLogs, Gather
  <2>5. LogInv(recent)' /\ LogInv(history)'
    BY <2>3, <2>4 DEF GatherInv, LogInv, WellRead, HeaderFree, ReadAs, IsHeader, IsLine
  <2>6. /\ pod' \in Nat \ {0} /\ phase' \in {"history", "recent", "nodes"}
        /\ status.kind = "Pod" /\ phase' \in {"recent", "history"} => pod' = 1
    <3>1. CASE HasBackend
      BY <1>7, <3>1 DEF GetPodLogs, GoOn, GatherInv
    <3>2. CASE ~HasBackend
      <4>1. phase' = AfterPod(pod) /\ pod' = pod + 1
        BY <1>7, <3>2 DEF GetPodLogs, GoOn
      <4>. QED BY <2>2, <4>1, LastPod DEF GatherInv, AfterPod
    <3>. QED BY <3>1, <3>2
  <2>. QED BY <2>4, <2>5, <2>6 DEF GatherInv
<1>8. CASE GetHistoricalLogs
  <2>0. pod \in Nat /\ Still /\ UNCHANGED recent
    BY <1>8 DEF GetHistoricalLogs, GatherInv
  <2>1. PICK new : history' = new /\ LogInv(new)
    <3>1. CASE HistoryFails
      BY <3>1 DEF HistoryFails, GatherInv
    <3>2. CASE HistoryAnswers
      <4>1. PICK n \in HistoricalLines :
              history' = history \o Header(pod) \o TruncateLogs(Lines(pod, n), case.historyCap)
        BY <3>2 DEF HistoryAnswers
      <4>2. n \in Nat /\ case.historyCap \in Int
        BY CapAssumption, CasesAssumption
           DEF HistoricalLines, KubernetesLines, HTTPLines, GatherInv, CaseType
      <4>3. LogInv(history \o Header(pod) \o TruncateLogs(Lines(pod, n), case.historyCap))
        BY <1>8, <2>0, <4>2, LinesSpeak, TruncatedLinesSpeak, BlockKeeps DEF GetHistoricalLogs, GatherInv
      <4>. QED BY <4>1, <4>3
    <3>. QED BY <1>8, <3>1, <3>2 DEF GetHistoricalLogs
  <2>2. LogInv(recent)' /\ LogInv(history)'
    BY <2>0, <2>1 DEF GatherInv, LogInv, WellRead, HeaderFree, ReadAs, IsHeader, IsLine
  <2>3. /\ pod' \in Nat \ {0} /\ phase' \in {"recent", "nodes"}
        /\ status.kind = "Pod" => phase' = "nodes"
    <3>1. phase' = AfterPod(pod) /\ pod' = pod + 1
      BY <1>8 DEF GetHistoricalLogs
    <3>. QED BY <2>0, <3>1, LastPod DEF GatherInv, AfterPod
  <2>. QED BY <2>0, <2>2, <2>3 DEF GatherInv
<1>9. CASE CollectNode
  BY <1>2, <1>9 DEF CollectNode, GatherInv
<1>10. CASE Send
  <2>0. case.recentCap \in Int
    BY CasesAssumption DEF GatherInv, CaseType
  <2>1. LogInv(TruncateLogs(recent, case.recentCap))
    BY <2>0, TruncateKeeps DEF GatherInv, LogInv
  <2>2. recent' = TruncateLogs(recent, case.recentCap) /\ Still /\ UNCHANGED <<history, pod>>
        /\ phase' = "sent"
    BY <1>10 DEF Send
  <2>3. LogInv(recent)' /\ LogInv(history)'
    BY <2>1, <2>2 DEF GatherInv, LogInv, WellRead, HeaderFree, ReadAs, IsHeader, IsLine
  <2>. QED BY <2>2, <2>3 DEF GatherInv
<1>11. CASE UNCHANGED vars
  BY <1>2, <1>11 DEF vars, gathered, GatherInv
<1>. QED BY <1>1, <1>3, <1>4, <1>5, <1>7, <1>8, <1>9, <1>10, <1>11 DEF Next, Gathers, Collects

-----------------------------------------------------------------------------
\* The LLM reads each line as that of the Pod it came from: a call that fails,
\* with its header or without, leaves no line under the header of another.
THEOREM LinesStayUnderTheirPod == Spec => []LinesUnderTheirPod
<1>1. GatherInv => LinesUnderTheirPod
  <2>. SUFFICES ASSUME GatherInv PROVE LinesUnderTheirPod
    OBVIOUS
  <2>1. WellRead(FirstOf(recent, PromptRecent)) /\ WellRead(FirstOf(history, PromptHistory))
    BY CapAssumption, FirstKeeps DEF GatherInv, LogInv
  <2>2. Prompt.recent = FirstOf(recent, PromptRecent)
        /\ Prompt.history = FirstOf(history, PromptHistory)
    BY DEF Prompt
  <2>. QED BY <2>1, <2>2 DEF LinesUnderTheirPod, WellRead
<1>. QED BY <1>1, GatherInvInit, GatherInvStep, PTL DEF Spec

-----------------------------------------------------------------------------
(* How many lines a log speaks of *)

\* A notice stands for the lines it counts, anything else for itself.
Weight(x) == IF "dropped" \in DOMAIN x THEN x.dropped ELSE 1

\* f[n] is the number of lines the first n elements of the log speak of.
Sums(log, f) ==
    /\ f \in [0 .. Len(log) -> Nat]
    /\ f[0] = 0
    /\ \A n \in 1 .. Len(log) : f[n] = f[n - 1] + Weight(log[n])

LEMMA WeightIsNatural == ASSUME NEW x \in LineType PROVE Weight(x) \in Nat
  BY DEF Weight, LineType

LEMMA SumsExist ==
    ASSUME NEW log \in Seq(LineType)
    PROVE  \E f : Sums(log, f)
<1>. DEFINE Upto(k, f) == /\ f \in [0 .. k -> Nat]
                          /\ f[0] = 0
                          /\ \A n \in 1 .. k : f[n] = f[n - 1] + Weight(log[n])
            S == {k \in Nat : k <= Len(log) => \E f : Upto(k, f)}
<1>1. 0 \in S
  <2>1. Upto(0, [n \in 0 .. 0 |-> 0])
    OBVIOUS
  <2>. QED BY <2>1
<1>2. ASSUME NEW k \in Nat, NEW f, Upto(k, f), k + 1 <= Len(log)
      PROVE  \E g : Upto(k + 1, g)
  <2>1. Upto(k, f)
    BY <1>2
  <2>. DEFINE g == [n \in 0 .. k + 1 |-> IF n <= k THEN f[n] ELSE f[k] + Weight(log[k + 1])]
  <2>2. k + 1 \in DOMAIN log /\ Weight(log[k + 1]) \in Nat
    <3>1. k + 1 \in DOMAIN log /\ log[k + 1] \in LineType
      BY <1>2
    <3>. QED BY <3>1, WeightIsNatural
  <2>3. g \in [0 .. k + 1 -> Nat] /\ g[0] = 0
    BY <2>1, <2>2
  <2>4. ASSUME NEW n \in 1 .. k + 1 PROVE g[n] = g[n - 1] + Weight(log[n])
    <3>1. CASE n <= k
      BY <2>1, <3>1
    <3>2. CASE n = k + 1
      BY <2>1, <3>2
    <3>. QED BY <3>1, <3>2
  <2>. QED BY <2>3, <2>4
<1>3. S = Nat
  <2>1. S \in SUBSET Nat
    OBVIOUS
  <2>2. ASSUME NEW k \in S PROVE k + 1 \in S
    <3>1. k \in Nat /\ k + 1 \in Nat /\ Len(log) \in Nat /\ (k + 1 <= Len(log) => k <= Len(log))
      OBVIOUS
    <3>2. k + 1 <= Len(log) => \E g : Upto(k + 1, g)
      <4>. HIDE DEF Upto
      <4>. QED BY <1>2, <3>1
    <3>. HIDE DEF Upto
    <3>. QED BY <3>1, <3>2
  <2>. HIDE DEF S
  <2>. QED BY <1>1, <2>1, <2>2, Induction
<1>4. Len(log) \in Nat /\ \A k \in Nat : k <= Len(log) => \E f : Upto(k, f)
  <2>. HIDE DEF Upto
  <2>. QED BY <1>3
<1>5. \E f : Upto(Len(log), f)
  <2>. HIDE DEF Upto
  <2>. QED BY <1>4
<1>. QED BY <1>5 DEF Sums

LEMMA SumsAgree ==
    ASSUME NEW log \in Seq(LineType), NEW f, NEW g, Sums(log, f), Sums(log, g)
    PROVE  \A n \in 0 .. Len(log) : f[n] = g[n]
<1>. DEFINE S == {k \in Nat : k <= Len(log) => f[k] = g[k]}
<1>1. 0 \in S
  BY DEF Sums
<1>2. ASSUME NEW k \in S PROVE k + 1 \in S
  <2>. SUFFICES ASSUME k + 1 <= Len(log) PROVE f[k + 1] = g[k + 1]
    OBVIOUS
  <2>1. k + 1 \in 1 .. Len(log) /\ k + 1 - 1 = k /\ f[k] = g[k]
    OBVIOUS
  <2>. QED BY <2>1 DEF Sums
<1>3. S = Nat
  <2>. HIDE DEF S
  <2>1. S \in SUBSET Nat
    BY DEF S
  <2>. QED BY <1>1, <1>2, <2>1, Induction
<1>. QED BY <1>3

\* The last sum is what the log speaks of.
LEMMA SpeaksOfIsTheSum ==
    ASSUME NEW log \in Seq(LineType), NEW f, Sums(log, f)
    PROVE  SpeaksOf(log) = f[Len(log)] /\ f[Len(log)] \in Nat
<1>. DEFINE Step(h) == [n \in 0 .. Len(log) |->
                          IF n = 0 THEN 0
                          ELSE h[n - 1] + IF "dropped" \in DOMAIN log[n] THEN log[n].dropped ELSE 1]
            upTo == CHOOSE h : h = Step(h)
<1>1. SpeaksOf(log) = upTo[Len(log)]
  BY DEF SpeaksOf
<1>2. f = Step(f)
  <2>1. f = [n \in 0 .. Len(log) |-> f[n]] /\ \A n \in 0 .. Len(log) : n = 0 \/ n \in 1 .. Len(log)
    BY DEF Sums
  <2>2. \A n \in 0 .. Len(log) : f[n] = Step(f)[n]
    BY <2>1 DEF Sums, Weight
  <2>. QED BY <2>1, <2>2
<1>3. upTo = Step(upTo)
  <2>. HIDE DEF Step
  <2>. QED BY <1>2
<1>4. Sums(log, upTo)
  <2>a. PICK h : h = upTo
    OBVIOUS
  <2>0. h = Step(h)
    BY <1>3, <2>a
  <2>. HIDE DEF upTo
  <2>1. DOMAIN h = 0 .. Len(log) /\ h[0] = 0 /\ h = [n \in 0 .. Len(log) |-> h[n]]
    BY <2>0
  <2>2. \A n \in 1 .. Len(log) : h[n] = h[n - 1] + Weight(log[n])
    BY <2>0 DEF Weight
  <2>. DEFINE S == {k \in Nat : k <= Len(log) => h[k] \in Nat}
  <2>3. 0 \in S
    BY <2>1
  <2>4. ASSUME NEW k \in S PROVE k + 1 \in S
    <3>. SUFFICES ASSUME k + 1 <= Len(log) PROVE h[k + 1] \in Nat
      OBVIOUS
    <3>1. k + 1 \in 1 .. Len(log) /\ k + 1 - 1 = k /\ h[k] \in Nat /\ log[k + 1] \in LineType
      OBVIOUS
    <3>. QED BY <2>2, <3>1, WeightIsNatural
  <2>5. S = Nat
    <3>. HIDE DEF S
    <3>1. S \in SUBSET Nat
      BY DEF S
    <3>. QED BY <2>3, <2>4, <3>1, Induction
  <2>6. h \in [0 .. Len(log) -> Nat]
    <3>1. \A k \in Nat : k <= Len(log) => h[k] \in Nat
      BY <2>5
    <3>. HIDE DEF S
    <3>. QED BY <2>1, <3>1
  <2>. HIDE DEF Step, S
  <2>. QED BY <2>a, <2>1, <2>2, <2>6 DEF Sums
<1>5. Len(log) \in 0 .. Len(log)
  OBVIOUS
<1>. HIDE DEF upTo
<1>6. f[Len(log)] = upTo[Len(log)]
  BY <1>4, <1>5, SumsAgree
<1>7. f[Len(log)] \in Nat
  BY <1>5 DEF Sums
<1>. QED BY <1>1, <1>6, <1>7

-----------------------------------------------------------------------------
(* Logs that are put together and cut *)

\* No notice: what has not been cut.
NoticeFree(log) == \A i \in DOMAIN log : "dropped" \notin DOMAIN log[i]

\* A log without notices speaks of each of its elements once.
LEMMA NoticeFreeSum ==
    ASSUME NEW log \in Seq(LineType), NoticeFree(log)
    PROVE  SpeaksOf(log) = Len(log)
<1>. DEFINE f == [n \in 0 .. Len(log) |-> n]
<1>1. Sums(log, f)
  BY DEF Sums, NoticeFree, Weight
<1>2. f[Len(log)] = Len(log)
  OBVIOUS
<1>. HIDE DEF f
<1>. QED BY <1>1, <1>2, SpeaksOfIsTheSum

LEMMA ConcatSum ==
    ASSUME NEW a \in Seq(LineType), NEW b \in Seq(LineType)
    PROVE  /\ SpeaksOf(a \o b) = SpeaksOf(a) + SpeaksOf(b)
           /\ SpeaksOf(a) \in Nat /\ SpeaksOf(b) \in Nat
<1>. DEFINE m == Len(a)
            n == Len(b)
<1>0. m \in Nat /\ n \in Nat
  OBVIOUS
<1>1. PICK f : Sums(a, f)
  BY SumsExist
<1>2. PICK g : Sums(b, g)
  BY SumsExist
<1>3. /\ SpeaksOf(a) = f[m] /\ f[m] \in Nat
      /\ SpeaksOf(b) = g[n] /\ g[n] \in Nat
  BY <1>1, <1>2, SpeaksOfIsTheSum
<1>. DEFINE h == [i \in 0 .. (m + n) |-> IF i <= m THEN f[i] ELSE f[m] + g[i - m]]
<1>4. PICK new : new = a \o b
  OBVIOUS
<1>5. /\ new \in Seq(LineType) /\ Len(new) = m + n
      /\ \A i \in 1 .. m : new[i] = a[i]
      /\ \A i \in (m + 1) .. (m + n) : new[i] = b[i - m]
  BY <1>4
<1>6. /\ \A i \in 0 .. m : f[i] \in Nat
      /\ \A i \in 0 .. n : g[i] \in Nat
      /\ f[0] = 0 /\ g[0] = 0
      /\ \A i \in 1 .. m : f[i] = f[i - 1] + Weight(a[i])
      /\ \A i \in 1 .. n : g[i] = g[i - 1] + Weight(b[i])
  BY <1>1, <1>2 DEF Sums
<1>. HIDE DEF m, n
<1>7. h \in [0 .. (m + n) -> Nat]
  <2>1. ASSUME NEW i \in 0 .. (m + n) PROVE h[i] \in Nat
    <3>1. CASE i <= m
      BY <1>0, <1>6, <3>1
    <3>2. CASE ~(i <= m)
      <4>1. i - m \in 0 .. n
        BY <1>0, <3>2
      <4>. QED BY <1>0, <1>3, <1>6, <3>2, <4>1
    <3>. QED BY <3>1, <3>2
  <2>. QED BY <2>1
<1>8. ASSUME NEW i \in 1 .. (m + n) PROVE h[i] = h[i - 1] + Weight(new[i])
  <2>1. CASE i <= m
    BY <1>0, <1>5, <1>6, <2>1
  <2>2. CASE i = m + 1
    <3>1. /\ h[i] = f[m] + g[1] /\ h[i - 1] = f[m] /\ new[i] = b[1]
          /\ g[1] = Weight(b[1])
      <4>1. i - m = 1 /\ i - 1 = m /\ 1 \in 1 .. n /\ i \in (m + 1) .. (m + n) /\ ~(i <= m)
            /\ m \in 0 .. (m + n) /\ i \in 0 .. (m + n) /\ m <= m
        BY <1>0, <2>2
      <4>2. g[1] = g[1 - 1] + Weight(b[1]) /\ g[1] \in Nat /\ 1 - 1 = 0
        BY <1>0, <1>6, <4>1
      <4>3. b[1] \in LineType
        BY <4>1 DEF n
      <4>4. g[1] = Weight(b[1])
        BY <1>6, <4>2, <4>3, WeightIsNatural
      <4>5. h[i] = f[m] + g[1] /\ h[i - 1] = f[m]
        BY <4>1
      <4>6. new[i] = b[1]
        BY <1>5, <4>1
      <4>. QED BY <4>4, <4>5, <4>6
    <3>. QED BY <3>1
  <2>3. CASE i > m + 1
    <3>1. /\ i - m \in 1 .. n /\ (i - 1) - m = (i - m) - 1 /\ (i - m) - 1 \in 0 .. n
          /\ ~(i <= m) /\ ~(i - 1 <= m) /\ i \in 0 .. (m + n) /\ i - 1 \in 0 .. (m + n)
          /\ i \in (m + 1) .. (m + n)
      BY <1>0, <2>3
    <3>2. h[i] = f[m] + g[i - m] /\ h[i - 1] = f[m] + g[(i - m) - 1]
      BY <3>1
    <3>3. new[i] = b[i - m] /\ g[i - m] = g[(i - m) - 1] + Weight(b[i - m])
      BY <1>5, <1>6, <3>1
    <3>4. g[(i - m) - 1] \in Nat /\ b[i - m] \in LineType
      BY <1>6, <3>1 DEF n
    <3>5. Weight(b[i - m]) \in Nat
      BY <3>4, WeightIsNatural
    <3>. HIDE DEF h
    <3>. QED BY <1>3, <3>2, <3>3, <3>4, <3>5
  <2>. QED BY <1>0, <2>1, <2>2, <2>3
<1>9. h[0] = 0 /\ h[m + n] = f[m] + g[n]
  <2>1. CASE n = 0
    BY <1>0, <1>3, <1>6, <2>1
  <2>2. CASE n # 0
    BY <1>0, <1>3, <1>6, <2>2
  <2>. QED BY <2>1, <2>2
<1>. HIDE DEF h
<1>10. Sums(new, h)
  BY <1>5, <1>7, <1>8, <1>9 DEF Sums
<1>11. SpeaksOf(new) = f[m] + g[n]
  BY <1>5, <1>9, <1>10, SpeaksOfIsTheSum
<1>. QED BY <1>3, <1>4, <1>11

\* A notice speaks of as many lines as it says.
LEMMA NoticeSum ==
    ASSUME NEW d \in Nat, NEW notice \in Seq(LineType),
           Len(notice) = 1, notice[1] = [dropped |-> d]
    PROVE  SpeaksOf(notice) = d
<1>. DEFINE f == [n \in 0 .. 1 |-> IF n = 0 THEN 0 ELSE d]
<1>1. Sums(notice, f)
  BY DEF Sums, Weight
<1>2. f[1] = d
  OBVIOUS
<1>. HIDE DEF f
<1>. QED BY <1>1, <1>2, SpeaksOfIsTheSum

\* A log that is cut speaks of as many lines as before, and has one line more
\* than the cap at most.
LEMMA TruncatedSum ==
    ASSUME NEW log \in Seq(LineType), NoticeFree(log), NEW max \in Int
    PROVE  /\ TruncateLogs(log, max) \in Seq(LineType)
           /\ SpeaksOf(TruncateLogs(log, max)) = Len(log)
           /\ max > 0 => Len(TruncateLogs(log, max)) <= max + 1
<1>1. CASE max <= 0 \/ Len(log) <= max
  <2>1. TruncateLogs(log, max) = log
    BY <1>1 DEF TruncateLogs
  <2>2. max > 0 => Len(log) <= max + 1
    BY <1>1
  <2>. QED BY <2>1, <2>2, NoticeFreeSum
<1>2. CASE ~(max <= 0 \/ Len(log) <= max)
  <2>0. max \in 0 .. Len(log) /\ Len(log) - max \in Nat
    BY <1>2
  <2>1. PICK cut : cut = SubSeq(log, 1, max)
    OBVIOUS
  <2>2. cut \in Seq(LineType) /\ Len(cut) = max /\ NoticeFree(cut)
    BY <2>0, <2>1 DEF NoticeFree
  <2>3. PICK notice : notice = <<[dropped |-> Len(log) - max]>>
    OBVIOUS
  <2>4. notice \in Seq(LineType) /\ Len(notice) = 1 /\ notice[1] = [dropped |-> Len(log) - max]
    BY <2>0, <2>3 DEF LineType
  <2>5. TruncateLogs(log, max) = cut \o notice
    BY <1>2, <2>1, <2>2, <2>3, <2>4 DEF TruncateLogs
  <2>6. SpeaksOf(cut) = max /\ SpeaksOf(notice) = Len(log) - max
    BY <2>0, <2>2, <2>4, NoticeFreeSum, NoticeSum
  <2>7. SpeaksOf(cut \o notice) = SpeaksOf(cut) + SpeaksOf(notice)
    BY <2>2, <2>4, ConcatSum
  <2>8. cut \o notice \in Seq(LineType) /\ Len(cut \o notice) = max + 1
    <3>1. cut \o notice \in Seq(LineType) /\ Len(cut \o notice) = Len(cut) + Len(notice)
      BY <2>2, <2>4, ConcatProperties
    <3>. QED BY <2>2, <2>4, <3>1
  <2>. QED BY <2>0, <2>5, <2>6, <2>7, <2>8
<1>. QED BY <1>1, <1>2

-----------------------------------------------------------------------------
(* What is known of the logs at each step *)

TypeInv == TypeOK /\ GatherInv

\* The historical log of p - 1 Pods, each with at most c lines, a header and a
\* notice.
Room(p, c) == (p - 1) * (c + 2)

\* Recent lines are cut once, when they are sent; each Pod adds as many
\* historical lines as the cap, its header and a notice.
CountInv ==
    /\ pod - 1 <= Len(PodsLookedAt)
    /\ phase \in {"recent", "history"} => pod <= Len(PodsLookedAt)
    /\ phase # "sent" => NoticeFree(recent) /\ Len(recent) = fetched.recent
    /\ phase = "sent" =>
         /\ SpeaksOf(recent) = fetched.recent
         /\ case.recentCap > 0 => Len(recent) <= case.recentCap + 1
    /\ SpeaksOf(history) = fetched.history
    /\ case.historyCap > 0 => Len(history) <= Room(pod, case.historyCap)

\* The logs that calls add.
LEMMA LinesAndHeader ==
    ASSUME NEW p \in Nat, NEW n \in Nat
    PROVE  /\ Lines(p, n) \in Seq(LineType) /\ NoticeFree(Lines(p, n)) /\ Len(Lines(p, n)) = n
           /\ Header(p) \in Seq(LineType) /\ NoticeFree(Header(p)) /\ Len(Header(p)) \in 0 .. 1
<1>1. \A i \in 1 .. n : [pod |-> p, line |-> i] \in LineType
  BY DEF LineType
<1>2. DOMAIN Lines(p, n) = 1 .. n /\ Lines(p, n) \in Seq(LineType)
  BY <1>1 DEF Lines
<1>3. NoticeFree(Lines(p, n)) /\ Len(Lines(p, n)) = n
  BY <1>2 DEF NoticeFree, Lines
<1>4. CASE status.kind = "Pod"
  BY <1>2, <1>3, <1>4 DEF Header, NoticeFree
<1>5. CASE status.kind # "Pod"
  <2>1. Header(p) = <<[header |-> p]>> /\ [header |-> p] \in LineType
    BY <1>5 DEF Header, LineType
  <2>2. PICK head : head = Header(p)
    OBVIOUS
  <2>3. head \in Seq(LineType) /\ Len(head) = 1 /\ DOMAIN head = 1 .. 1
        /\ head[1] = [header |-> p]
    BY <2>1, <2>2
  <2>4. NoticeFree(head)
    BY <2>3 DEF NoticeFree
  <2>. QED BY <1>2, <1>3, <2>2, <2>3, <2>4
<1>. QED BY <1>4, <1>5

LEMMA NoticeFreeConcat ==
    ASSUME NEW a \in Seq(LineType), NEW b \in Seq(LineType), NoticeFree(a), NoticeFree(b)
    PROVE  /\ a \o b \in Seq(LineType) /\ NoticeFree(a \o b)
           /\ Len(a \o b) = Len(a) + Len(b)
<1>1. /\ a \o b \in Seq(LineType) /\ Len(a \o b) = Len(a) + Len(b)
      /\ \A i \in 1 .. Len(a) + Len(b) : (a \o b)[i] = IF i <= Len(a) THEN a[i] ELSE b[i - Len(a)]
  BY ConcatProperties
<1>2. PICK new : new = a \o b
  OBVIOUS
<1>3. ASSUME NEW i \in 1 .. Len(a) + Len(b) PROVE "dropped" \notin DOMAIN new[i]
  <2>1. CASE i <= Len(a)
    BY <1>1, <1>2, <2>1 DEF NoticeFree
  <2>2. CASE ~(i <= Len(a))
    <3>1. i - Len(a) \in DOMAIN b /\ new[i] = b[i - Len(a)]
      BY <1>1, <1>2, <2>2
    <3>. QED BY <3>1 DEF NoticeFree
  <2>. QED BY <2>1, <2>2
<1>. QED BY <1>1, <1>2, <1>3 DEF NoticeFree

\* A log that fits is not cut.
LEMMA FirstOfAll == ASSUME NEW s, NEW n, Len(s) <= n PROVE FirstOf(s, n) = s
  BY DEF FirstOf

\* The first elements of a list are those of the list.
LEMMA FirstTyped ==
    ASSUME NEW T, NEW s \in Seq(T), NEW n \in Nat
    PROVE  /\ FirstOf(s, n) \in Seq(T) /\ Len(FirstOf(s, n)) <= n
           /\ Len(FirstOf(s, n)) <= Len(s)
           /\ \A i \in DOMAIN FirstOf(s, n) : FirstOf(s, n)[i] = s[i]
           /\ Len(FirstOf(s, n)) < n => FirstOf(s, n) = s
<1>1. CASE Len(s) <= n
  BY <1>1 DEF FirstOf
<1>2. CASE ~(Len(s) <= n)
  <2>1. n \in 0 .. Len(s)
    BY <1>2
  <2>2. PICK cut : cut = SubSeq(s, 1, n)
    OBVIOUS
  <2>3. cut \in Seq(T) /\ Len(cut) = n /\ \A i \in 1 .. n : cut[i] = s[i]
    BY <2>1, <2>2
  <2>4. FirstOf(s, n) = cut
    BY <1>2, <2>2 DEF FirstOf
  <2>. QED BY <1>2, <2>3, <2>4
<1>. QED BY <1>1, <1>2

LEMMA EmptySum == SpeaksOf(<<>>) = 0
<1>1. <<>> \in Seq(LineType) /\ NoticeFree(<<>>) /\ Len(<<>>) = 0
  BY DEF NoticeFree
<1>. QED BY <1>1, NoticeFreeSum

\* The Pods looked at stay the same as long as the workload keeps its kind.
LEMMA PodsStay ==
    ASSUME case' = case, status'.kind = status.kind
    PROVE  Len(PodsLookedAt)' = Len(PodsLookedAt)
  BY DEF PodsLookedAt

LEMMA PodsAreCounted ==
    ASSUME GatherInv PROVE PodsLookedAt \in Seq(STRING) /\ Len(PodsLookedAt) \in Nat
<1>1. case.pods \in Seq(STRING) /\ PodCap \in Nat
  BY CasesAssumption, CapAssumption DEF GatherInv, CaseType
<1>2. FirstOf(case.pods, PodCap) \in Seq(STRING)
  BY <1>1, FirstTyped
<1>3. PodsLookedAt \in Seq(STRING)
  BY <1>1, <1>2 DEF PodsLookedAt
<1>. QED BY <1>3

\* A Pod more, a cap more.
LEMMA OneMore ==
    ASSUME NEW p \in Int, NEW c \in Int
    PROVE  /\ Room(p, c) \in Int /\ Room(1, c) = 0
           /\ Room(p + 1, c) = Room(p, c) + (c + 2)
<1>1. (p + 1 - 1) * (c + 2) = (p - 1) * (c + 2) + (c + 2)
  OBVIOUS
<1>2. (1 - 1) * (c + 2) = 0
  OBVIOUS
<1>. QED BY <1>1, <1>2 DEF Room

LEMMA MoreOfThem ==
    ASSUME NEW a \in Int, NEW b \in Int, NEW c \in Nat, a <= b
    PROVE  a * c <= b * c
  OBVIOUS

LEMMA CountInvInit == Init => CountInv
<1>. SUFFICES ASSUME Init PROVE CountInv
  OBVIOUS
<1>0. GatherInv
  BY GatherInvInit
<1>1. Len(PodsLookedAt) \in Nat
  BY <1>0, PodsAreCounted
<1>2. /\ pod = 1 /\ phase = "idle" /\ recent = <<>> /\ history = <<>>
      /\ fetched.recent = 0 /\ fetched.history = 0
  BY DEF Init
<1>3. case.historyCap \in Int
  BY <1>0, CasesAssumption DEF GatherInv, CaseType
<1>4. Room(1, case.historyCap) = 0
  BY <1>3, OneMore
<1>5. NoticeFree(recent) /\ Len(recent) = 0 /\ Len(history) = 0 /\ SpeaksOf(history) = 0
  BY <1>2, EmptySum DEF NoticeFree
<1>. QED BY <1>1, <1>2, <1>4, <1>5 DEF CountInv

LEMMA CountInvStep == TypeInv /\ CountInv /\ [Next]_vars => CountInv'
<1>. SUFFICES ASSUME TypeInv, CountInv, [Next]_vars PROVE CountInv'
  OBVIOUS
<1>. DEFINE Still == UNCHANGED <<status, case>>
            pods == Len(PodsLookedAt)
<1>0. /\ pod \in Nat \ {0} /\ pods \in Nat /\ GatherInv
      /\ recent \in Seq(LineType) /\ history \in Seq(LineType)
      /\ fetched \in [recent : Nat, history : Nat]
      /\ case.recentCap \in Int /\ case.historyCap \in Int
  BY PodsAreCounted, CasesAssumption DEF TypeInv, TypeOK, GatherInv, LogInv, CaseType
<1>a. Still => pods' = pods
  BY PodsStay
<1>b. /\ Room(pod, case.historyCap) \in Int
      /\ Room(pod + 1, case.historyCap) = Room(pod, case.historyCap) + (case.historyCap + 2)
  <2>1. pod \in Int /\ case.historyCap \in Int
    BY <1>0
  <2>. QED BY <2>1, OneMore
<1>1. CASE Kubernetes
  <2>1. status'.kind = status.kind /\ UNCHANGED <<case, phase, pod, recent, history, fetched>>
    BY <1>0, <1>1, KindStays DEF Kubernetes, gathered
  <2>2. pods' = pods
    BY <2>1, PodsStay
  <2>. QED BY <2>1, <2>2 DEF CountInv, NoticeFree, SpeaksOf
<1>2. CASE Detect \/ CollectEvents \/ CollectNode \/ UNCHANGED vars
  <2>1. /\ Still /\ UNCHANGED <<pod, recent, history, fetched>>
        /\ phase' # phase => phase' \in {"events", "list"} /\ phase # "sent"
    BY <1>2 DEF Detect, CollectEvents, CollectNode, vars, gathered
  <2>. QED BY <1>a, <2>1 DEF CountInv, NoticeFree, SpeaksOf
<1>3. CASE ListPods
  <2>1. Still /\ UNCHANGED <<pod, recent, history, fetched>> /\ phase = "list"
        /\ phase' = AfterPod(0) /\ pod = 1
    BY <1>0, <1>3 DEF ListPods, gathered, GatherInv
  <2>2. phase' \in {"recent", "nodes"} /\ (phase' = "recent" => 1 <= pods)
    BY <1>0, <2>1 DEF AfterPod
  <2>. QED BY <1>a, <2>1, <2>2 DEF CountInv, NoticeFree, SpeaksOf
<1>4. CASE ListFails \/ RedactFails \/ Done
  <2>1. /\ Still /\ recent' = <<>> /\ history' = <<>> /\ pod' = 1 /\ phase' = "idle"
        /\ fetched'.recent = 0 /\ fetched'.history = 0
    <3>1. Still /\ Clear
      BY <1>4 DEF ListFails, RedactFails, Done
    <3>2. fetched' = [recent |-> 0, history |-> 0]
      BY <3>1 DEF Clear
    <3>3. fetched'.recent = 0 /\ fetched'.history = 0
      BY <3>2
    <3>. QED BY <3>1, <3>3 DEF Clear
  <2>2. NoticeFree(recent)' /\ Len(recent') = 0 /\ Len(history') = 0 /\ SpeaksOf(history)' = 0
    BY <2>1, EmptySum DEF NoticeFree
  <2>3. Room(1, case.historyCap) = 0
    BY <1>0, OneMore
  <2>. QED BY <1>0, <1>a, <2>1, <2>2, <2>3 DEF CountInv
<1>5. CASE GetPodLogs
  <2>1. PICK n \in 0 .. MaxLines : Gather(Lines(pod, n))
    BY <1>5 DEF GetPodLogs
  <2>2. n \in Nat
    BY CapAssumption
  <2>3. PICK block : block = Header(pod) \o Lines(pod, n)
    OBVIOUS
  <2>4. block \in Seq(LineType) /\ NoticeFree(block)
    BY <1>0, <2>2, <2>3, LinesAndHeader, NoticeFreeConcat
  <2>5. Len(recent) = fetched.recent /\ NoticeFree(recent) /\ phase = "recent"
    BY <1>5 DEF CountInv, GetPodLogs
  <2>6. /\ recent' = recent \o block
        /\ fetched'.recent = fetched.recent + Len(block)
        /\ fetched'.history = fetched.history
        /\ Still /\ UNCHANGED history
    <3>1. (recent \o Header(pod)) \o Lines(pod, n) = recent \o block
      <4>1. Header(pod) \in Seq(LineType) /\ Lines(pod, n) \in Seq(LineType)
        BY <1>0, <2>2, LinesAndHeader
      <4>2. \A a, b, c \in Seq(LineType) : (a \o b) \o c = a \o (b \o c)
        BY ConcatAssociative
      <4>. QED BY <1>0, <2>3, <4>1, <4>2, Zenon
    <3>. QED BY <1>0, <1>5, <2>1, <2>3, <3>1 DEF GetPodLogs, Gather
  <2>7. NoticeFree(recent)' /\ Len(recent') = fetched'.recent
    <3>1. NoticeFree(recent \o block) /\ Len(recent \o block) = Len(recent) + Len(block)
      BY <1>0, <2>4, <2>5, NoticeFreeConcat
    <3>. QED BY <2>5, <2>6, <3>1 DEF NoticeFree
  <2>8. /\ phase' \in {"history", "recent", "nodes"} /\ pod' - 1 <= pods
        /\ phase' \in {"recent", "history"} => pod' <= pods
        /\ pod' \in {pod, pod + 1}
    <3>1. pod <= pods
      BY <2>5 DEF CountInv
    <3>2. CASE HasBackend
      BY <1>0, <1>5, <3>1, <3>2 DEF GetPodLogs, GoOn
    <3>3. CASE ~HasBackend
      BY <1>0, <1>5, <3>1, <3>3 DEF GetPodLogs, GoOn, AfterPod
    <3>. QED BY <3>2, <3>3
  <2>9. SpeaksOf(history)' = fetched'.history
    BY <2>6 DEF CountInv, SpeaksOf
  <2>10. case.historyCap > 0 => Len(history) <= Room(pod', case.historyCap)
    <3>. SUFFICES ASSUME case.historyCap > 0
                  PROVE  Len(history) <= Room(pod', case.historyCap)
      OBVIOUS
    <3>1. Len(history) <= Room(pod, case.historyCap)
      BY DEF CountInv
    <3>2. /\ Room(pod, case.historyCap) \in Int
          /\ Room(pod + 1, case.historyCap) = Room(pod, case.historyCap) + (case.historyCap + 2)
      BY <1>b
    <3>3. Len(history) <= Room(pod, case.historyCap) + (case.historyCap + 2)
      <4>1. Len(history) \in Nat
        BY <1>0
      <4>. QED BY <1>0, <3>1, <3>2, <4>1
    <3>. QED BY <2>8, <3>1, <3>2, <3>3
  <2>. QED BY <1>a, <2>6, <2>7, <2>8, <2>9, <2>10 DEF CountInv
<1>6. CASE GetHistoricalLogs
  <2>1. /\ Still /\ UNCHANGED recent /\ pod' = pod + 1 /\ phase' = AfterPod(pod)
        /\ phase = "history" /\ pod <= pods
    BY <1>6 DEF GetHistoricalLogs, CountInv
  <2>2. /\ phase' \in {"recent", "nodes"} /\ pod' - 1 <= pods
        /\ phase' = "recent" => pod' <= pods
    BY <1>0, <2>1 DEF AfterPod
  <2>3. /\ SpeaksOf(history') = fetched'.history /\ fetched'.recent = fetched.recent
        /\ case.historyCap > 0 => Len(history') <= Len(history) + (case.historyCap + 2)
    <3>1. CASE HistoryFails
      <4>1. history' = history /\ fetched' = fetched
        BY <3>1 DEF HistoryFails
      <4>. QED BY <1>0, <4>1 DEF CountInv
    <3>2. CASE HistoryAnswers
      <4>1. PICK n \in HistoricalLines :
              /\ history' = history \o Header(pod) \o TruncateLogs(Lines(pod, n), case.historyCap)
              /\ fetched' = [fetched EXCEPT !.history = @ + Len(Header(pod)) + n]
        BY <3>2 DEF HistoryAnswers
      <4>2. n \in Nat
        BY CapAssumption DEF HistoricalLines, KubernetesLines, HTTPLines
      <4>3. PICK head, lines : head = Header(pod) /\ lines = TruncateLogs(Lines(pod, n), case.historyCap)
        OBVIOUS
      <4>4. /\ head \in Seq(LineType) /\ Len(head) \in 0 .. 1 /\ SpeaksOf(head) = Len(head)
        BY <1>0, <4>2, <4>3, LinesAndHeader, NoticeFreeSum
      <4>5. /\ lines \in Seq(LineType) /\ SpeaksOf(lines) = n
            /\ case.historyCap > 0 => Len(lines) <= case.historyCap + 1
        <5>1. PICK log : log = Lines(pod, n)
          OBVIOUS
        <5>2. log \in Seq(LineType) /\ NoticeFree(log) /\ Len(log) = n
          BY <1>0, <4>2, <5>1, LinesAndHeader
        <5>3. lines = TruncateLogs(log, case.historyCap)
          BY <4>3, <5>1
        <5>. QED BY <1>0, <5>2, <5>3, TruncatedSum
      <4>6. /\ history \o head \in Seq(LineType)
            /\ Len(history \o head) = Len(history) + Len(head)
            /\ SpeaksOf(history \o head) = SpeaksOf(history) + SpeaksOf(head)
        BY <1>0, <4>4, ConcatSum, ConcatProperties
      <4>7. /\ Len((history \o head) \o lines) = Len(history \o head) + Len(lines)
            /\ SpeaksOf((history \o head) \o lines) = SpeaksOf(history \o head) + SpeaksOf(lines)
        BY <4>5, <4>6, ConcatSum, ConcatProperties
      <4>8. SpeaksOf(history) = fetched.history /\ fetched.history \in Nat
        BY <1>0 DEF CountInv
      <4>9. history' = (history \o head) \o lines /\ fetched'.history = fetched.history + Len(head) + n
            /\ fetched'.recent = fetched.recent
        BY <1>0, <4>1, <4>3
      <4>10. SpeaksOf(history') = fetched'.history
        BY <4>2, <4>4, <4>5, <4>6, <4>7, <4>8, <4>9
      <4>11. case.historyCap > 0 => Len(history') <= Len(history) + (case.historyCap + 2)
        <5>1. Len(history) \in Nat /\ Len(lines) \in Nat /\ Len(head) \in Nat /\ Len(head) <= 1
          <6>1. Len(history) \in Nat
            BY <1>0
          <6>2. Len(lines) \in Nat
            BY <4>5
          <6>3. Len(head) \in Nat /\ Len(head) <= 1
            BY <4>4
          <6>. QED BY <6>1, <6>2, <6>3
        <5>2. Len(history') = Len(history) + Len(head) + Len(lines)
          BY <4>6, <4>7, <4>9
        <5>. QED BY <1>0, <4>5, <5>1, <5>2
      <4>. QED BY <4>9, <4>10, <4>11
    <3>. QED BY <1>6, <3>1, <3>2 DEF GetHistoricalLogs
  <2>4. case.historyCap > 0 => Len(history') <= Room(pod', case.historyCap)
    <3>. SUFFICES ASSUME case.historyCap > 0
                  PROVE  Len(history') <= Room(pod', case.historyCap)
      OBVIOUS
    <3>1. Len(history) <= Room(pod, case.historyCap)
      BY DEF CountInv
    <3>2. /\ Room(pod, case.historyCap) \in Int
          /\ Room(pod + 1, case.historyCap) = Room(pod, case.historyCap) + (case.historyCap + 2)
      BY <1>b
    <3>4. history' \in Seq(LineType)
      <4>1. GatherInv'
        BY <1>0, GatherInvStep
      <4>. QED BY <4>1 DEF GatherInv, LogInv
    <3>5. Len(history') \in Nat /\ Len(history) \in Nat
      BY <1>0, <3>4
    <3>6. Len(history') <= Room(pod, case.historyCap) + (case.historyCap + 2)
      BY <1>0, <2>3, <3>1, <3>2, <3>5
    <3>. QED BY <2>1, <3>2, <3>6
  <2>5. NoticeFree(recent)' /\ Len(recent') = fetched'.recent
    BY <2>1, <2>3 DEF CountInv, NoticeFree
  <2>6. SpeaksOf(history)' = fetched'.history
    BY <2>3
  <2>. QED BY <1>a, <2>1, <2>2, <2>4, <2>5, <2>6 DEF CountInv
<1>7. CASE Send
  <2>1. /\ Still /\ UNCHANGED <<pod, history, fetched>> /\ phase = "nodes" /\ phase' = "sent"
        /\ recent' = TruncateLogs(recent, case.recentCap)
    BY <1>7 DEF Send
  <2>2. NoticeFree(recent) /\ Len(recent) = fetched.recent
    BY <2>1 DEF CountInv
  <2>3. /\ SpeaksOf(recent') = fetched.recent
        /\ case.recentCap > 0 => Len(recent') <= case.recentCap + 1
    BY <1>0, <2>1, <2>2, TruncatedSum
  <2>4. SpeaksOf(recent)' = fetched'.recent /\ SpeaksOf(history)' = fetched'.history
    BY <2>1, <2>3 DEF CountInv
  <2>. QED BY <1>a, <2>1, <2>3, <2>4 DEF CountInv
<1>. QED BY <1>1, <1>2, <1>3, <1>4, <1>5, <1>6, <1>7 DEF Next, Gathers, Collects

-----------------------------------------------------------------------------
(* The nodes that are named *)

\* Nodes are named one after the other, in the order of NodeNames.
NodesInv ==
    /\ phase \notin {"nodes", "sent"} => nodes = <<>>
    /\ Len(nodes) <= Len(NodeNames)
    /\ \A i \in DOMAIN nodes : nodes[i] = NodeNames[i]
    /\ phase = "sent" => Len(nodes) = Len(NodeNames)

\* d has each of the names once, and nothing else.
EachOnce(d, names) ==
    /\ \A n \in DOMAIN d : d[n] # "" /\ \E i \in DOMAIN names : d[n] = names[i]
    /\ \A i \in DOMAIN names : names[i] # "" => \E n \in DOMAIN d : d[n] = names[i]
    /\ \A m, n \in DOMAIN d : d[m] = d[n] => m = n

\* The nodes of a list of Pods, each once.
LEMMA DistinctNames ==
    ASSUME NEW names \in Seq(STRING), NEW d, d = Distinct(names)
    PROVE  d \in Seq(STRING) /\ EachOnce(d, names)
<1>. DEFINE k == Len(names)
            I == FirstSeen(names)
<1>0. k \in Nat /\ DOMAIN names = 1 .. k
  OBVIOUS
<1>1. /\ I \in SUBSET (1 .. k) /\ I \in SUBSET DOMAIN names
      /\ \A i \in I : names[i] # "" /\ \A j \in 1 .. (i - 1) : names[j] # names[i]
      /\ \A i \in 1 .. k : names[i] # "" /\ (\A j \in 1 .. (i - 1) : names[j] # names[i]) => i \in I
  BY <1>0 DEF FirstSeen
<1>. HIDE DEF I, k
<1>2. d = Select(names, I)
  BY DEF Distinct, I
<1>3. /\ DOMAIN d = 1 .. Cardinality(I)
      /\ \A n \in 1 .. Cardinality(I) : d[n] = names[Index(I, n)] /\ Index(I, n) \in I
      /\ \A i \in I : \E n \in 1 .. Cardinality(I) : d[n] = names[i]
  <2>1. k \in Nat /\ I \in SUBSET (1 .. k)
    BY <1>0, <1>1
  <2>2. Selected(Select(names, I), names, I)
    BY <2>1, Selection
  <2>3. Selected(d, names, I)
    BY <1>2, <2>2
  <2>. QED BY <2>3 DEF Selected
<1>4. d \in Seq(STRING)
  BY <1>1, <1>2, SelectionTyped
<1>5. ASSUME NEW i \in 1 .. k, names[i] # ""
      PROVE  \E j \in I : names[j] = names[i]
  <2>. DEFINE S == {j \in 1 .. k : names[j] = names[i]}
  <2>1. S \in SUBSET Nat /\ S # {}
    OBVIOUS
  <2>2. PICK j \in S : \A m \in S : j <= m
    <3>. HIDE DEF S
    <3>. QED BY <2>1, LeastNatural
  <2>3. j \in 1 .. k /\ names[j] = names[i]
    OBVIOUS
  <2>4. ASSUME NEW m \in 1 .. (j - 1) PROVE names[m] # names[j]
    <3>1. m \in 1 .. k /\ ~(j <= m)
      BY <1>0, <2>3
    <3>. QED BY <2>2, <2>3, <3>1
  <2>. QED BY <1>1, <1>5, <2>3, <2>4
<1>6. ASSUME NEW n \in DOMAIN d PROVE d[n] # "" /\ \E i \in DOMAIN names : d[n] = names[i]
  BY <1>0, <1>1, <1>3
<1>7. ASSUME NEW i \in DOMAIN names, names[i] # "" PROVE \E n \in DOMAIN d : d[n] = names[i]
  <2>1. PICK j \in I : names[j] = names[i]
    BY <1>0, <1>5, <1>7
  <2>2. PICK n \in 1 .. Cardinality(I) : d[n] = names[j]
    BY <1>3
  <2>. QED BY <1>3, <2>1, <2>2
<1>8. ASSUME NEW m \in DOMAIN d, NEW n \in DOMAIN d, d[m] = d[n] PROVE m = n
  <2>1. /\ Index(I, m) \in I /\ Index(I, n) \in I
        /\ names[Index(I, m)] = names[Index(I, n)]
        /\ Rank(I, Index(I, m)) = m /\ Rank(I, Index(I, n)) = n
    <3>1. \A l \in 1 .. Cardinality(I) : Index(I, l) \in I /\ Rank(I, Index(I, l)) = l
      BY <1>0, <1>1, Indices
    <3>. QED BY <1>3, <1>8, <3>1
  <2>2. ASSUME NEW i \in I, NEW j \in I, names[i] = names[j] PROVE i = j
    <3>1. i \in 1 .. k /\ j \in 1 .. k
      BY <1>1
    <3>2. i \notin 1 .. (j - 1) /\ j \notin 1 .. (i - 1)
      BY <1>1, <2>2
    <3>. QED BY <1>0, <3>1, <3>2
  <2>. QED BY <2>1, <2>2
<1>. QED BY <1>4, <1>6, <1>7, <1>8 DEF EachOnce

LEMMA NamesAreTyped == ASSUME GatherInv PROVE NodeNames \in Seq(STRING)
<1>1. PodsLookedAt \in Seq(STRING) /\ case.nodeCap \in Int
  BY PodsAreCounted, CasesAssumption DEF GatherInv, CaseType
<1>2. Distinct(PodsLookedAt) \in Seq(STRING)
  BY <1>1, DistinctNames
<1>3. Capped(Distinct(PodsLookedAt)) \in Seq(STRING)
  <2>1. CASE case.nodeCap > 0
    <3>1. case.nodeCap \in Nat
      BY <1>1, <2>1
    <3>. QED BY <1>2, <2>1, <3>1, FirstTyped DEF Capped
  <2>2. CASE ~(case.nodeCap > 0)
    BY <1>2, <2>2 DEF Capped
  <2>. QED BY <2>1, <2>2
<1>4. <<>> \in Seq(STRING)
  BY EmptySeq
<1>. QED BY <1>3, <1>4 DEF NodeNames

LEMMA NamesStay ==
    ASSUME case' = case, status'.kind = status.kind
    PROVE  NodeNames' = NodeNames
<1>1. PodsLookedAt' = PodsLookedAt
  BY DEF PodsLookedAt
<1>. QED BY <1>1 DEF NodeNames, Capped

-----------------------------------------------------------------------------
(* Types *)

LEMMA TypeOKInit == Init => TypeOK
<1>. SUFFICES ASSUME Init PROVE TypeOK
  OBVIOUS
<1>1. case \in Cases /\ status \in StatusType /\ status.kind = case.status.kind
  BY GatherInvInit DEF GatherInv
<1>2. /\ phase = "idle" /\ reason = "" /\ events = <<>> /\ pod = 1
      /\ recent = <<>> /\ history = <<>> /\ nodes = <<>>
      /\ fetched = [recent |-> 0, history |-> 0]
  BY DEF Init
<1>3. fetched \in [recent : Nat, history : Nat] /\ phase \in Phases
  BY <1>2 DEF Phases
<1>4. /\ events \in Seq({"own", "other"}) /\ nodes \in Seq(STRING)
      /\ recent \in Seq(LineType) /\ history \in Seq(LineType)
  BY <1>2, EmptySeq
<1>. QED BY <1>1, <1>2, <1>3, <1>4 DEF TypeOK

LEMMA FetchedGrows ==
    ASSUME NEW f \in [recent : Nat, history : Nat], NEW k \in Nat, NEW l \in Nat
    PROVE  /\ [f EXCEPT !.recent = @ + k] \in [recent : Nat, history : Nat]
           /\ [f EXCEPT !.history = @ + k + l] \in [recent : Nat, history : Nat]
  OBVIOUS

LEMMA TypeInvStep == TypeInv /\ [Next]_vars => TypeInv'
<1>. SUFFICES ASSUME TypeInv, [Next]_vars PROVE TypeInv'
  OBVIOUS
<1>0. GatherInv' /\ GatherInv /\ TypeOK
  BY GatherInvStep DEF TypeInv
<1>1. /\ case' \in Cases /\ status' \in StatusType /\ status'.kind = case'.status.kind
      /\ pod' \in Nat /\ recent' \in Seq(LineType) /\ history' \in Seq(LineType)
  BY <1>0 DEF GatherInv, LogInv
<1>. DEFINE Rest == /\ phase \in Phases
                    /\ reason # "" <=> phase # "idle"
                    /\ events \in Seq({"own", "other"})
                    /\ nodes \in Seq(STRING)
                    /\ fetched \in [recent : Nat, history : Nat]
<1>2. Rest
  BY <1>0 DEF TypeOK
<1>3. Rest'
  <2>1. CASE Kubernetes
    BY <1>2, <2>1 DEF Kubernetes, gathered
  <2>2. CASE Detect
    BY <1>2, <2>2 DEF Detect, Failed, Phases
  <2>3. CASE CollectEvents
    <3>1. case.events \in Seq({"own", "other"})
      BY <1>0, CasesAssumption DEF GatherInv, CaseType
    <3>2. OfWorkload(case.events) \in Seq({"own", "other"})
      <4>. DEFINE own == {i \in DOMAIN case.events : case.events[i] = "own"}
      <4>1. own \in SUBSET DOMAIN case.events
        OBVIOUS
      <4>2. Select(case.events, own) \in Seq({"own", "other"})
        <5>. HIDE DEF own
        <5>. QED BY <3>1, <4>1, SelectionTyped
      <4>. QED BY <3>1, <4>2 DEF OfWorkload
    <3>3. events' \in Seq({"own", "other"})
      <4>1. <<>> \in Seq({"own", "other"})
        BY EmptySeq
      <4>. QED BY <2>3, <3>2, <4>1 DEF CollectEvents
    <3>. QED BY <1>2, <2>3, <3>3 DEF CollectEvents, Phases
  <2>4. CASE ListPods
    BY <1>2, <2>4 DEF ListPods, gathered, AfterPod, Phases
  <2>5. CASE ListFails \/ RedactFails \/ Done
    <3>1. Clear
      BY <2>5 DEF ListFails, RedactFails, Done
    <3>2. /\ fetched' \in [recent : Nat, history : Nat]
          /\ phase' = "idle" /\ reason' = "" /\ events' = <<>> /\ nodes' = <<>>
      BY <3>1 DEF Clear
    <3>3. events' \in Seq({"own", "other"}) /\ nodes' \in Seq(STRING) /\ phase' \in Phases
      BY <3>2, EmptySeq DEF Phases
    <3>. QED BY <3>2, <3>3
  <2>6. CASE GetPodLogs
    <3>1. PICK n \in 0 .. MaxLines : Gather(Lines(pod, n))
      BY <2>6 DEF GetPodLogs
    <3>2. Len(Header(pod) \o Lines(pod, n)) \in Nat
      <4>1. n \in Nat /\ pod \in Nat
        BY <1>0, CapAssumption DEF GatherInv
      <4>2. Header(pod) \o Lines(pod, n) \in Seq(LineType)
        BY <4>1, LinesAndHeader, NoticeFreeConcat
      <4>. QED BY <4>2
    <3>3. fetched' \in [recent : Nat, history : Nat]
      BY <1>2, <3>1, <3>2, FetchedGrows DEF Gather
    <3>4. phase' \in Phases \ {"idle"} /\ phase = "recent" /\ UNCHANGED <<reason, events, nodes>>
      BY <2>6 DEF GetPodLogs, GoOn, AfterPod, Phases
    <3>. QED BY <1>2, <3>3, <3>4
  <2>7. CASE GetHistoricalLogs
    <3>1. fetched' \in [recent : Nat, history : Nat]
      <4>1. CASE HistoryFails
        BY <1>2, <4>1 DEF HistoryFails
      <4>2. CASE HistoryAnswers
        <5>1. PICK n \in HistoricalLines :
                fetched' = [fetched EXCEPT !.history = @ + Len(Header(pod)) + n]
          BY <4>2 DEF HistoryAnswers
        <5>2. n \in Nat /\ Len(Header(pod)) \in Nat
          <6>1. n \in Nat /\ pod \in Nat
            BY <1>0, CapAssumption DEF HistoricalLines, KubernetesLines, HTTPLines, GatherInv
          <6>2. Len(Header(pod)) \in 0 .. 1
            BY <6>1, LinesAndHeader
          <6>. QED BY <6>1, <6>2
        <5>. QED BY <1>2, <5>1, <5>2, FetchedGrows
      <4>. QED BY <2>7, <4>1, <4>2 DEF GetHistoricalLogs
    <3>2. phase' \in Phases \ {"idle"} /\ phase = "history" /\ UNCHANGED <<reason, events, nodes>>
      BY <2>7 DEF GetHistoricalLogs, AfterPod, Phases
    <3>. QED BY <1>2, <3>1, <3>2
  <2>8. CASE CollectNode
    <3>1. NodeNames \in Seq(STRING)
      BY <1>0, NamesAreTyped
    <3>2. PICK names \in Seq(STRING) : names = NodeNames
      BY <3>1
    <3>3. Len(nodes) < Len(names) /\ nodes' = Append(nodes, names[Len(nodes) + 1])
      BY <2>8, <3>2 DEF CollectNode
    <3>4. nodes' \in Seq(STRING)
      <4>1. PICK have \in Seq(STRING) : have = nodes
        BY <1>2
      <4>2. names[Len(have) + 1] \in STRING
        <5>1. Len(have) + 1 \in 1 .. Len(names)
          BY <3>3, <4>1
        <5>. QED BY <5>1, ElementOfSeq
      <4>3. Append(have, names[Len(have) + 1]) \in Seq(STRING)
        BY <4>2, AppendProperties
      <4>. QED BY <3>3, <4>1, <4>3
    <3>. QED BY <1>2, <2>8, <3>4 DEF CollectNode
  <2>9. CASE Send
    BY <1>2, <2>9 DEF Send, Phases
  <2>10. CASE UNCHANGED vars
    BY <1>2, <2>10 DEF vars, gathered
  <2>. QED BY <2>1, <2>2, <2>3, <2>4, <2>5, <2>6, <2>7, <2>8, <2>9, <2>10 DEF Next, Gathers, Collects
<1>. QED BY <1>0, <1>1, <1>3 DEF TypeInv, TypeOK

-----------------------------------------------------------------------------
LEMMA NodesInvInit == Init => NodesInv
<1>. SUFFICES ASSUME Init PROVE NodesInv
  OBVIOUS
<1>1. nodes = <<>> /\ phase = "idle"
  BY DEF Init
<1>2. Len(NodeNames) \in Nat
  BY GatherInvInit, NamesAreTyped
<1>. QED BY <1>1, <1>2 DEF NodesInv

LEMMA NodesInvStep == TypeInv /\ NodesInv /\ [Next]_vars => NodesInv'
<1>. SUFFICES ASSUME TypeInv, NodesInv, [Next]_vars PROVE NodesInv'
  OBVIOUS
<1>1. /\ GatherInv /\ nodes \in Seq(STRING)
      /\ NodeNames \in Seq(STRING) /\ Len(NodeNames) \in Nat
  <2>1. GatherInv /\ nodes \in Seq(STRING)
    BY DEF TypeInv, TypeOK
  <2>2. NodeNames \in Seq(STRING)
    BY <2>1, NamesAreTyped
  <2>. QED BY <2>1, <2>2
<1>2. CASE Kubernetes
  <2>1. case' = case /\ status'.kind = status.kind /\ phase' = phase /\ nodes' = nodes
    BY <1>1, <1>2, KindStays DEF Kubernetes, gathered
  <2>2. NodeNames' = NodeNames
    BY <2>1, NamesStay
  <2>. QED BY <2>1, <2>2 DEF NodesInv
<1>3. CASE UNCHANGED vars
  <2>1. case' = case /\ status' = status /\ phase' = phase /\ nodes' = nodes
    BY <1>3 DEF vars, gathered
  <2>2. NodeNames' = NodeNames
    BY <2>1, NamesStay
  <2>. QED BY <2>1, <2>2 DEF NodesInv
<1>4. CASE Gathers
  <2>1. case' = case /\ status' = status
    BY <1>4 DEF Gathers, Collects, Detect, CollectEvents, ListPods, ListFails, RedactFails, GetPodLogs,
              GetHistoricalLogs, CollectNode, Send, Done
  <2>2. NodeNames' = NodeNames
    BY <2>1, NamesStay
  <2>3. CASE Detect \/ CollectEvents \/ ListPods \/ GetPodLogs \/ GetHistoricalLogs
    <3>1. nodes' = nodes /\ phase' # "sent" /\ phase \notin {"nodes", "sent"}
      BY <2>3 DEF Detect, CollectEvents, ListPods, GetPodLogs, GetHistoricalLogs, GoOn,
                AfterPod, gathered
    <3>. QED BY <2>2, <3>1 DEF NodesInv
  <2>4. CASE ListFails \/ RedactFails \/ Done
    <3>1. nodes' = <<>> /\ phase' = "idle"
      BY <2>4 DEF ListFails, RedactFails, Done, Clear
    <3>. QED BY <1>1, <2>2, <3>1 DEF NodesInv
  <2>5. CASE CollectNode
    <3>1. PICK names \in Seq(STRING) : names = NodeNames
      BY <1>1
    <3>2. PICK have \in Seq(STRING) : have = nodes
      BY <1>1
    <3>3. /\ Len(have) < Len(names) /\ nodes' = Append(have, names[Len(have) + 1])
          /\ phase = "nodes" /\ phase' = "nodes"
      BY <2>5, <3>1, <3>2 DEF CollectNode
    <3>4. \A i \in 1 .. Len(have) : have[i] = names[i]
      BY <3>1, <3>2 DEF NodesInv
    <3>5. PICK more : more = Append(have, names[Len(have) + 1])
      OBVIOUS
    <3>6. /\ more \in Seq(STRING) /\ Len(more) = Len(have) + 1
          /\ DOMAIN more = 1 .. (Len(have) + 1)
          /\ \A i \in 1 .. Len(have) : more[i] = have[i]
          /\ more[Len(have) + 1] = names[Len(have) + 1]
      <4>1. names[Len(have) + 1] \in STRING
        <5>1. Len(have) + 1 \in 1 .. Len(names)
          BY <3>3
        <5>. QED BY <5>1, ElementOfSeq
      <4>. QED BY <3>5, <4>1, AppendProperties
    <3>7. \A i \in 1 .. (Len(have) + 1) : i \in 1 .. Len(have) \/ i = Len(have) + 1
      OBVIOUS
    <3>8. Len(more) <= Len(names) /\ \A i \in DOMAIN more : more[i] = names[i]
      BY <3>3, <3>4, <3>6, <3>7
    <3>. QED BY <2>2, <3>1, <3>3, <3>5, <3>8 DEF NodesInv
  <2>6. CASE Send
    <3>1. nodes' = nodes /\ phase = "nodes" /\ phase' = "sent" /\ Len(nodes) = Len(NodeNames)
      BY <2>6 DEF Send
    <3>. QED BY <1>1, <2>2, <3>1 DEF NodesInv
  <2>. QED BY <1>4, <2>3, <2>4, <2>5, <2>6 DEF Gathers, Collects
<1>. QED BY <1>2, <1>3, <1>4 DEF Next

-----------------------------------------------------------------------------
(* What the request holds *)

\* The variables keep their types, whatever the caps and the answers.
THEOREM EvidenceTypes == Spec => []TypeOK
<1>1. Init => TypeInv
  BY GatherInvInit, TypeOKInit DEF TypeInv
<1>2. TypeInv => TypeOK
  BY DEF TypeInv
<1>. QED BY <1>1, <1>2, TypeInvStep, PTL DEF Spec

\* Each line that was gathered is in the prompt or in a notice that is, whatever
\* calls failed: a cap that leaves room for the notice is enough.
THEOREM NothingIsDroppedInSilence == Spec => []NothingDroppedInSilence
<1>1. TypeInv /\ CountInv => NothingDroppedInSilence
  <2>. SUFFICES ASSUME TypeInv, CountInv, phase = "sent"
                PROVE  /\ case.recentCap > 0 /\ case.recentCap + 1 <= PromptRecent
                            => SpeaksOf(Prompt.recent) = fetched.recent
                       /\ case.historyCap > 0
                            /\ Len(PodsLookedAt) * (case.historyCap + 2) <= PromptHistory
                            => SpeaksOf(Prompt.history) = fetched.history
    BY DEF NothingDroppedInSilence
  <2>1. /\ recent \in Seq(LineType) /\ history \in Seq(LineType)
        /\ case.recentCap \in Int /\ case.historyCap \in Int
        /\ PromptRecent \in Nat /\ PromptHistory \in Nat
        /\ pod \in Nat /\ pod - 1 <= Len(PodsLookedAt) /\ Len(PodsLookedAt) \in Nat
    BY CapAssumption, CasesAssumption, PodsAreCounted DEF TypeInv, TypeOK, CountInv, GatherInv, CaseType
  <2>2. /\ Prompt.recent = FirstOf(recent, PromptRecent)
        /\ Prompt.history = FirstOf(history, PromptHistory)
    BY DEF Prompt
  <2>3. ASSUME case.recentCap > 0, case.recentCap + 1 <= PromptRecent
        PROVE  SpeaksOf(Prompt.recent) = fetched.recent
    <3>1. Len(recent) <= case.recentCap + 1 /\ SpeaksOf(recent) = fetched.recent
      BY <2>3 DEF CountInv
    <3>2. Len(recent) <= PromptRecent
      BY <2>1, <2>3, <3>1
    <3>3. FirstOf(recent, PromptRecent) = recent
      BY <3>2, FirstOfAll
    <3>. QED BY <2>2, <3>1, <3>3
  <2>4. ASSUME case.historyCap > 0, Len(PodsLookedAt) * (case.historyCap + 2) <= PromptHistory
        PROVE  SpeaksOf(Prompt.history) = fetched.history
    <3>1. Len(history) <= Room(pod, case.historyCap) /\ SpeaksOf(history) = fetched.history
      BY <2>4 DEF CountInv
    <3>2. (pod - 1) * (case.historyCap + 2) <= Len(PodsLookedAt) * (case.historyCap + 2)
      <4>1. PICK a \in Int, b \in Int, c \in Nat :
              a = pod - 1 /\ b = Len(PodsLookedAt) /\ c = case.historyCap + 2
        BY <2>1, <2>4
      <4>2. a <= b
        BY <2>1, <4>1
      <4>3. a * c <= b * c
        BY <4>2, MoreOfThem
      <4>. QED BY <4>1, <4>3, Zenon
    <3>3. Len(history) <= PromptHistory
      <4>1. PICK most : most = Room(pod, case.historyCap)
        OBVIOUS
      <4>2. PICK room : room = Len(PodsLookedAt) * (case.historyCap + 2)
        OBVIOUS
      <4>3. most \in Int /\ room \in Int
        BY <2>1, <4>1, <4>2 DEF Room
      <4>4. Len(history) <= most /\ most <= room /\ room <= PromptHistory
        BY <2>4, <3>1, <3>2, <4>1, <4>2 DEF Room
      <4>. QED BY <2>1, <4>3, <4>4
    <3>4. FirstOf(history, PromptHistory) = history
      BY <3>3, FirstOfAll
    <3>. QED BY <2>2, <3>1, <3>4
  <2>. QED BY <2>3, <2>4
<1>2. Init => TypeInv /\ CountInv
  BY GatherInvInit, TypeOKInit, CountInvInit DEF TypeInv
<1>3. TypeInv /\ CountInv /\ [Next]_vars => TypeInv' /\ CountInv'
  BY TypeInvStep, CountInvStep
<1>. QED BY <1>1, <1>2, <1>3, PTL DEF Spec

\* Each node of the Pods looked at is in the prompt once, unless the cap is
\* reached: a node does not cost another its place by having several Pods.
THEOREM NodesAreCovered == Spec => []NodesCovered
<1>1. TypeInv /\ NodesInv => NodesCovered
  <2>. DEFINE names == {PodsLookedAt[i] : i \in DOMAIN PodsLookedAt} \ {""}
              shown == {Prompt.nodes[i] : i \in DOMAIN Prompt.nodes}
  <2>. SUFFICES ASSUME TypeInv, NodesInv, phase = "sent", case.includeNodes,
                       case.nodeCap \in 1 .. PromptNodes
                PROVE  /\ shown \subseteq names
                       /\ Cardinality(shown) = Len(Prompt.nodes)
                       /\ Len(Prompt.nodes) < case.nodeCap => shown = names
    BY DEF NodesCovered
  <2>1. /\ PodsLookedAt \in Seq(STRING) /\ PromptNodes \in Nat /\ case.nodeCap \in Nat
        /\ case.nodeCap > 0 /\ case.nodeCap <= PromptNodes
        /\ nodes \in Seq(STRING) /\ NodeNames \in Seq(STRING)
    <3>1. GatherInv /\ nodes \in Seq(STRING)
      BY DEF TypeInv, TypeOK
    <3>2. PodsLookedAt \in Seq(STRING) /\ NodeNames \in Seq(STRING)
      BY <3>1, PodsAreCounted, NamesAreTyped
    <3>. QED BY <3>1, <3>2, CapAssumption
  <2>2. PICK d : d = Distinct(PodsLookedAt)
    OBVIOUS
  <2>3. /\ d \in Seq(STRING)
        /\ \A n \in DOMAIN d : d[n] \in names
        /\ \A x \in names : \E n \in DOMAIN d : d[n] = x
        /\ \A m, n \in DOMAIN d : d[m] = d[n] => m = n
    <3>1. PICK pods \in Seq(STRING) : pods = PodsLookedAt
      BY <2>1
    <3>2. d \in Seq(STRING) /\ EachOnce(d, pods)
      <4>1. d = Distinct(pods)
        BY <2>2, <3>1
      <4>. QED BY <4>1, DistinctNames
    <3>3. names = {pods[i] : i \in DOMAIN pods} \ {""}
      BY <3>1
    <3>. HIDE DEF names
    <3>4. ASSUME NEW n \in DOMAIN d PROVE d[n] \in names
      BY <3>2, <3>3 DEF EachOnce
    <3>5. ASSUME NEW x \in names PROVE \E n \in DOMAIN d : d[n] = x
      <4>1. PICK i \in DOMAIN pods : x = pods[i] /\ pods[i] # ""
        BY <3>3
      <4>. QED BY <3>2, <4>1 DEF EachOnce
    <3>. QED BY <3>2, <3>4, <3>5 DEF EachOnce
  <2>4. NodeNames = FirstOf(d, case.nodeCap)
    BY <2>1, <2>2 DEF NodeNames, Capped
  <2>5. PICK top : top = FirstOf(d, case.nodeCap)
    OBVIOUS
  <2>6. /\ top \in Seq(STRING) /\ Len(top) <= case.nodeCap /\ Len(top) <= Len(d)
        /\ \A i \in DOMAIN top : top[i] = d[i]
        /\ Len(top) < case.nodeCap => top = d
    <3>1. d \in Seq(STRING) /\ case.nodeCap \in Nat
      BY <2>1, <2>3
    <3>. QED BY <2>5, <3>1, FirstTyped
  <2>7. Prompt.nodes = top
    <3>1. Len(nodes) = Len(top) /\ \A i \in DOMAIN nodes : nodes[i] = top[i]
      BY <2>4, <2>5 DEF NodesInv
    <3>2. nodes = top
      BY <2>1, <2>6, <3>1, SeqEqual
    <3>3. Len(nodes) <= PromptNodes
      BY <2>1, <2>6, <3>2
    <3>. QED BY <3>2, <3>3, FirstOfAll DEF Prompt
  <2>. DEFINE k == Len(top)
  <2>8. k \in Nat /\ DOMAIN top = 1 .. k /\ \A i \in 1 .. k : i \in DOMAIN d
    <3>1. Len(top) \in Nat /\ DOMAIN top = 1 .. Len(top) /\ DOMAIN d = 1 .. Len(d) /\ Len(d) \in Nat
      BY <2>3, <2>6, LenProperties
    <3>2. \A i \in 1 .. Len(top) : i \in 1 .. Len(d)
      BY <2>6, <3>1
    <3>. QED BY <3>1, <3>2
  <2>9. shown = {top[i] : i \in 1 .. k}
    BY <2>7, <2>8
  <2>. HIDE DEF shown, names, k
  <2>10. shown \subseteq names
    BY <2>3, <2>6, <2>8, <2>9
  <2>11. Cardinality(shown) = Len(Prompt.nodes)
    <3>1. \A i, j \in 1 .. k : top[i] = top[j] => i = j
      BY <2>3, <2>6, <2>8
    <3>2. top \in Surjection(1 .. k, shown)
      BY <2>6, <2>8, <2>9 DEF Surjection
    <3>3. top \in Injection(1 .. k, shown)
      BY <2>6, <2>8, <2>9, <3>1 DEF Injection, IsInjective
    <3>4. IsFiniteSet(1 .. k) /\ Cardinality(1 .. k) = k
      BY <2>8, FS_Interval
    <3>5. Cardinality(shown) = k
      BY <3>2, <3>3, <3>4, FS_Surjection
    <3>. QED BY <2>7, <3>5 DEF k
  <2>12. Len(Prompt.nodes) < case.nodeCap => shown = names
    BY <2>3, <2>6, <2>7, <2>8, <2>9
  <2>. QED BY <2>10, <2>11, <2>12
<1>2. Init => TypeInv /\ NodesInv
  BY GatherInvInit, TypeOKInit, NodesInvInit DEF TypeInv
<1>3. TypeInv /\ NodesInv /\ [Next]_vars => TypeInv' /\ NodesInv'
  BY TypeInvStep, NodesInvStep
<1>. QED BY <1>1, <1>2, <1>3, PTL DEF Spec
=============================================================================
