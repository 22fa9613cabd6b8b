-------------------------- MODULE LLMClient_proofs --------------------------
(***************************************************************************)
(* Proofs about Client.Analyze, for every number of processes, retries and *)
(* back-off cap and every timeout.                                         *)
(***************************************************************************)
EXTENDS LLMClient, TLAPS

-----------------------------------------------------------------------------
(* Arithmetic: the time of attempts and back-offs *)

\* A product grows with its factor.
LEMMA ProductGrows ==
    ASSUME NEW a \in Int, NEW b \in Int, a <= b, NEW c \in Nat PROVE a * c <= b * c
<1>1. (b - a) * c >= 0
  OBVIOUS
<1>2. (b - a) * c = b * c - a * c
  OBVIOUS
<1>. QED BY <1>1, <1>2

\* The n-th back-off is what the first n take longer than the first n - 1.
LEMMA BackoffAdds ==
    ASSUME NEW n \in Nat \ {0}
    PROVE  /\ TwiceBackoffs(n) = TwiceBackoffs(n - 1) + 2 * Backoff(n)
           /\ TwiceBackoffs(n) \in Nat /\ TwiceBackoffs(n - 1) \in Nat
<1>m. MaxBackoff \in Nat
  BY ClientAssumption
<1>1. CASE n <= MaxBackoff
  <2>1. n * (n + 1) = (n - 1) * ((n - 1) + 1) + 2 * n
    OBVIOUS
  <2>. QED BY <1>1, <1>m, <2>1 DEF TwiceBackoffs, Backoff
<1>2. CASE n = MaxBackoff + 1
  <2>1. n - 1 = MaxBackoff /\ (n - MaxBackoff) * MaxBackoff = MaxBackoff
    BY <1>2, <1>m
  <2>. QED BY <1>2, <1>m, <2>1 DEF TwiceBackoffs, Backoff
<1>3. CASE n > MaxBackoff + 1
  <2>1. ((n - 1) - MaxBackoff) * MaxBackoff + MaxBackoff = (n - MaxBackoff) * MaxBackoff
    BY <1>m
  <2>2. ((n - 1) - MaxBackoff) * MaxBackoff \in Nat
    BY <1>3, <1>m
  <2>. QED BY <1>3, <1>m, <2>1, <2>2 DEF TwiceBackoffs, Backoff
<1>. QED BY <1>1, <1>2, <1>3, <1>m

\* More back-offs take no less time.
LEMMA BackoffsGrow ==
    ASSUME NEW n \in Nat, NEW m \in Nat, n <= m
    PROVE  TwiceBackoffs(n) <= TwiceBackoffs(m) /\ TwiceBackoffs(n) \in Nat
<1>m. MaxBackoff \in Nat /\ MaxBackoff * (MaxBackoff + 1) \in Nat
  BY ClientAssumption
<1>1. \A i, j \in Nat : i <= j => i * (i + 1) <= j * (j + 1)
  <2>. SUFFICES ASSUME NEW i \in Nat, NEW j \in Nat, i <= j PROVE i * (i + 1) <= j * (j + 1)
    OBVIOUS
  <2>1. i * (i + 1) <= j * (i + 1)
    BY ProductGrows
  <2>2. (i + 1) * j <= (j + 1) * j
    BY ProductGrows
  <2>. QED BY <2>1, <2>2
<1>2. \A k \in Nat : k > MaxBackoff => (k - MaxBackoff) * MaxBackoff \in Nat
  BY <1>m
<1>3. CASE m <= MaxBackoff
  BY <1>1, <1>3, <1>m DEF TwiceBackoffs
<1>4. CASE n <= MaxBackoff /\ m > MaxBackoff
  BY <1>1, <1>2, <1>4, <1>m DEF TwiceBackoffs
<1>5. CASE n > MaxBackoff
  <2>1. (n - MaxBackoff) * MaxBackoff <= (m - MaxBackoff) * MaxBackoff
    BY <1>m, ProductGrows
  <2>. QED BY <1>2, <1>5, <1>m, <2>1 DEF TwiceBackoffs
<1>. QED BY <1>3, <1>4, <1>5, <1>m

\* Twice the time of n timeouts and the first b back-offs.
Bound(s, n, b) == 2 * (n * s.timeout) + TwiceBackoffs(b)

\* How the bound grows in an attempt: by its back-off, then by its timeout.
LEMMA BoundAdds ==
    ASSUME NEW s \in Setting, NEW a \in Nat
    PROVE  /\ a > 0 => Bound(s, a, a) = Bound(s, a, a - 1) + 2 * Backoff(a)
           /\ Bound(s, a + 1, a) = Bound(s, a, a) + 2 * s.timeout
           /\ Bound(s, 0, -1) = 0 /\ Bound(s, 0, 0) = 0
           /\ Bound(s, a, a) \in Nat
<1>1. s.timeout \in Nat /\ MaxBackoff \in Nat
  BY ClientAssumption DEF Setting
<1>2. a > 0 => TwiceBackoffs(a) = TwiceBackoffs(a - 1) + 2 * Backoff(a)
               /\ TwiceBackoffs(a - 1) \in Nat
  BY BackoffAdds
<1>3. TwiceBackoffs(a) \in Nat /\ Backoff(a) \in Nat
  BY BackoffsGrow, <1>1 DEF Backoff
<1>4. a * s.timeout \in Nat /\ (a + 1) * s.timeout = a * s.timeout + s.timeout
  BY <1>1
<1>5. TwiceBackoffs(0) = 0 /\ TwiceBackoffs(-1) = 0 /\ 0 * s.timeout = 0
  BY <1>1 DEF TwiceBackoffs
<1>6. Bound(s, a + 1, a) = Bound(s, a, a) + 2 * s.timeout /\ Bound(s, a, a) \in Nat
  BY <1>1, <1>3, <1>4 DEF Bound
<1>7. ASSUME a > 0 PROVE Bound(s, a, a) = Bound(s, a, a - 1) + 2 * Backoff(a)
  BY <1>2, <1>3, <1>4, <1>7 DEF Bound
<1>8. Bound(s, 0, -1) = 0 /\ Bound(s, 0, 0) = 0
  BY <1>5 DEF Bound
<1>. QED BY <1>6, <1>7, <1>8

\* No attempt before the last one ends later than the last one may.
LEMMA BoundGrows ==
    ASSUME NEW s \in Setting, NEW a \in Nat, a <= s.retries
    PROVE  Bound(s, a + 1, a) <= Bound(s, s.retries + 1, s.retries)
           /\ Bound(s, s.retries + 1, s.retries) \in Nat
<1>1. s.timeout \in Nat /\ s.retries \in Nat
  BY DEF Setting
<1>2. (a + 1) * s.timeout <= (s.retries + 1) * s.timeout
  BY <1>1, ProductGrows
<1>3. TwiceBackoffs(a) <= TwiceBackoffs(s.retries) /\ TwiceBackoffs(a) \in Nat
      /\ TwiceBackoffs(s.retries) \in Nat
  BY <1>1, BackoffsGrow
<1>4. (a + 1) * s.timeout \in Nat /\ (s.retries + 1) * s.timeout \in Nat
  BY <1>1
<1>. QED BY <1>2, <1>3, <1>4 DEF Bound

-----------------------------------------------------------------------------
(* The invariant of one call k under setting s: how many requests may have  *)
(* been sent, and how much time may have passed, at each point of the loop  *)

Tries(s) == IF s.retries < 0 THEN 0 ELSE s.retries + 1

Counts(k, s) ==
    /\ k.pc = "idle" => k.sent = 0 /\ k.attempt = 0
    /\ k.pc = "loop" => k.attempt <= Tries(s) /\ k.sent <= k.attempt
    /\ k.pc \in {"backoff", "send"} => k.attempt <= s.retries /\ k.sent <= k.attempt
    /\ k.pc = "await" => k.attempt <= s.retries /\ k.sent <= k.attempt + 1 /\ k.sent > 0
    /\ k.pc \in {"ok", "error"} => k.sent <= Tries(s)
    /\ k.pc = "ok" => k.sent > 0

Times(k, s) ==
    /\ k.pc = "idle" => k.elapsed = 0
    /\ k.pc = "loop" => 2 * k.elapsed <= Bound(s, k.attempt, k.attempt - 1)
    /\ k.pc = "backoff" => 2 * (k.elapsed + k.left) <= Bound(s, k.attempt, k.attempt)
    /\ k.pc = "send" => 2 * k.elapsed <= Bound(s, k.attempt, k.attempt)
    /\ k.pc = "await" => 2 * (k.elapsed + k.left) <= Bound(s, k.attempt + 1, k.attempt)
    /\ k.pc \in {"ok", "error"} =>
         IF s.retries < 0 THEN k.elapsed = 0
         ELSE 2 * k.elapsed <= Bound(s, s.retries + 1, s.retries)

CallInv(k, s) == Counts(k, s) /\ (s.timeout > 0 => Times(k, s))

CallType == [pc : PCs, attempt : Nat, left : Nat, cancelled : BOOLEAN, sent : Nat, elapsed : Nat]

ClientInv == ClientTypeOK /\ \A c \in Clients : CallInv(call[c], setting[c])

\* A call at rest is in order, under every setting.
LEMMA RestingCall ==
    ASSUME NEW k \in CallType, k.pc = "idle", k.sent = 0, k.attempt = 0, k.elapsed = 0,
           NEW s \in Setting
    PROVE  CallInv(k, s)
  BY DEF CallInv, Counts, Times

\* An action that replaces one call by another that is in order.
LEMMA UpdateKeeps ==
    ASSUME ClientInv, NEW c \in Clients, NEW k \in CallType, Update(c, k),
           CallInv(k, setting[c])
    PROVE  ClientInv'
<1>1. ClientTypeOK'
  BY DEF ClientInv, ClientTypeOK, Update, CallType
<1>2. ASSUME NEW d \in Clients PROVE CallInv(call[d], setting[d])'
  <2>1. call'[d] = (IF d = c THEN k ELSE call[d]) /\ setting'[d] = setting[d]
    BY DEF ClientInv, ClientTypeOK, Update
  <2>2. CallInv(call'[d], setting'[d])
    BY <2>1 DEF ClientInv
  <2>. QED BY <2>2 DEF CallInv, Counts, Times, Tries, Bound, TwiceBackoffs
<1>. QED BY <1>1, <1>2 DEF ClientInv

\* What is known of the call that a process is in, for the lemmas that follow.
LEMMA CallTyped ==
    ASSUME ClientInv, NEW c \in Clients
    PROVE  call[c] \in CallType /\ setting[c] \in Setting /\ CallInv(call[c], setting[c])
  BY DEF ClientInv, ClientTypeOK, CallType

\* The next attempt after the request was sent or could not be.
LEMMA NextAttemptKeeps ==
    ASSUME ClientInv, NEW c \in Clients, call[c].pc \in {"send", "await"}, NextAttempt(c)
    PROVE  ClientInv'
<1>. DEFINE k == call[c]
            s == setting[c]
            new == [k EXCEPT !.pc = "loop", !.left = 0, !.attempt = @ + 1]
<1>1. k \in CallType /\ s \in Setting /\ CallInv(k, s)
  BY CallTyped
<1>2. new \in CallType /\ new.pc = "loop" /\ new.attempt = k.attempt + 1
      /\ new.sent = k.sent /\ new.elapsed = k.elapsed
  <2>1. PICK n \in Nat : n = k.attempt + 1
    BY <1>1 DEF CallType
  <2>2. new = [k EXCEPT !.pc = "loop", !.left = 0, !.attempt = n]
    BY <2>1
  <2>. QED BY <1>1, <2>1, <2>2 DEF CallType, PCs
<1>3. Counts(new, s)
  BY <1>1, <1>2 DEF CallInv, Counts, Tries, CallType, Setting
<1>4. ASSUME s.timeout > 0 PROVE 2 * new.elapsed <= Bound(s, new.attempt, new.attempt - 1)
  <2>1. k.attempt \in Nat /\ k.elapsed \in Nat /\ k.left \in Nat /\ s.timeout \in Nat
    BY <1>1 DEF CallType, Setting
  <2>2. Bound(s, k.attempt + 1, k.attempt) = Bound(s, k.attempt, k.attempt) + 2 * s.timeout
        /\ Bound(s, k.attempt, k.attempt) \in Nat
    BY <1>1, <2>1, BoundAdds
  <2>3. 2 * k.elapsed <= Bound(s, k.attempt + 1, k.attempt)
    BY <1>1, <1>4, <2>1, <2>2 DEF CallInv, Times
  <2>4. new.attempt - 1 = k.attempt
    BY <1>2, <2>1
  <2>. QED BY <1>2, <2>3, <2>4
<1>5. CallInv(new, s)
  BY <1>2, <1>3, <1>4 DEF CallInv, Times
<1>. QED BY <1>2, <1>5, UpdateKeeps DEF NextAttempt

\* The end of a call at whatever attempt it has come to.
LEMMA EndKeeps ==
    ASSUME ClientInv, NEW c \in Clients, NEW pc \in {"ok", "error"}, Goto(c, pc),
           \/ call[c].pc = "await"
           \/ call[c].pc = "backoff" /\ pc = "error"
           \/ call[c].pc = "loop" /\ Exhausted(c) /\ pc = "error"
    PROVE  ClientInv'
<1>. DEFINE k == call[c]
            s == setting[c]
            new == [k EXCEPT !.pc = pc, !.left = 0]
<1>1. k \in CallType /\ s \in Setting /\ CallInv(k, s)
  BY CallTyped
<1>2. new \in CallType /\ new.pc = pc /\ new.sent = k.sent /\ new.elapsed = k.elapsed
  BY <1>1 DEF CallType, PCs
<1>t. k.attempt \in Nat /\ k.elapsed \in Nat /\ k.left \in Nat /\ s.timeout \in Nat
      /\ k.sent \in Nat /\ s.retries \in Int
  BY <1>1 DEF CallType, Setting
<1>3. Counts(new, s)
  BY <1>1, <1>2, <1>t DEF CallInv, Counts, Tries
<1>4. ASSUME s.timeout > 0
      PROVE  IF s.retries < 0 THEN new.elapsed = 0
             ELSE 2 * new.elapsed <= Bound(s, s.retries + 1, s.retries)
  <2>1. CASE k.pc \in {"await", "backoff"}
    <3>1. k.attempt <= s.retries
      BY <1>1, <2>1 DEF CallInv, Counts
    <3>2. Bound(s, k.attempt + 1, k.attempt) = Bound(s, k.attempt, k.attempt) + 2 * s.timeout
          /\ Bound(s, k.attempt, k.attempt) \in Nat
      BY <1>1, <1>t, BoundAdds
    <3>3. Bound(s, k.attempt + 1, k.attempt) <= Bound(s, s.retries + 1, s.retries)
          /\ Bound(s, s.retries + 1, s.retries) \in Nat
      BY <1>1, <1>t, <3>1, BoundGrows
    <3>4. 2 * (k.elapsed + k.left) <= Bound(s, k.attempt + 1, k.attempt)
      BY <1>1, <1>4, <1>t, <2>1, <3>2 DEF CallInv, Times
    <3>. QED BY <1>2, <1>t, <3>1, <3>2, <3>3, <3>4
  <2>2. CASE k.pc = "loop" /\ Exhausted(c)
    <3>1. k.attempt > s.retries /\ k.attempt <= Tries(s)
          /\ 2 * k.elapsed <= Bound(s, k.attempt, k.attempt - 1)
      BY <1>1, <1>4, <2>2 DEF CallInv, Counts, Times, Exhausted
    <3>2. CASE s.retries < 0
      <4>1. k.attempt = 0 /\ k.attempt - 1 = -1
        BY <1>t, <3>1, <3>2 DEF Tries
      <4>2. Bound(s, 0, -1) = 0
        BY <1>1, BoundAdds
      <4>. QED BY <1>2, <1>t, <3>1, <3>2, <4>1, <4>2
    <3>3. CASE s.retries >= 0
      <4>1. k.attempt = s.retries + 1 /\ k.attempt - 1 = s.retries
        BY <1>t, <3>1, <3>3 DEF Tries
      <4>. QED BY <1>2, <1>t, <3>1, <3>3, <4>1
    <3>. QED BY <1>t, <3>2, <3>3
  <2>. QED BY <2>1, <2>2
<1>5. CallInv(new, s)
  BY <1>2, <1>3, <1>4 DEF CallInv, Times
<1>. QED BY <1>2, <1>5, UpdateKeeps DEF Goto

\* The steps of the loop up to the request.
LEMMA LoopKeeps ==
    ASSUME ClientInv, NEW c \in Clients, FirstAttempt(c) \/ Wait(c) \/ WakeUp(c)
    PROVE  ClientInv'
<1>. DEFINE k == call[c]
            s == setting[c]
<1>1. k \in CallType /\ s \in Setting /\ CallInv(k, s)
  BY CallTyped
<1>t. k.attempt \in Nat /\ k.elapsed \in Nat /\ k.left \in Nat /\ s.timeout \in Nat
      /\ k.sent \in Nat /\ s.retries \in Int /\ MaxBackoff \in Nat
  BY <1>1, ClientAssumption DEF CallType, Setting
<1>b. /\ k.attempt > 0 => Bound(s, k.attempt, k.attempt)
                            = Bound(s, k.attempt, k.attempt - 1) + 2 * Backoff(k.attempt)
      /\ Bound(s, 0, -1) = 0 /\ Bound(s, 0, 0) = 0
      /\ Bound(s, k.attempt, k.attempt) \in Nat
  BY <1>1, <1>t, BoundAdds
<1>2. CASE FirstAttempt(c)
  <2>. DEFINE new == [k EXCEPT !.pc = "send", !.left = 0]
  <2>1. new \in CallType /\ new.pc = "send" /\ new.sent = k.sent
        /\ new.elapsed = k.elapsed /\ new.attempt = k.attempt
    BY <1>1 DEF CallType, PCs
  <2>2. k.pc = "loop" /\ k.attempt = 0 /\ 0 <= s.retries /\ Update(c, new)
    BY <1>2, <1>t DEF FirstAttempt, At, Goto, Exhausted
  <2>3. Counts(new, s)
    BY <1>1, <1>t, <2>1, <2>2 DEF CallInv, Counts
  <2>4. ASSUME s.timeout > 0 PROVE 2 * new.elapsed <= Bound(s, new.attempt, new.attempt)
    <3>1. k.attempt - 1 = -1
      BY <2>2
    <3>2. 2 * k.elapsed <= Bound(s, k.attempt, k.attempt - 1)
      BY <1>1, <2>2, <2>4 DEF CallInv, Times
    <3>. QED BY <1>b, <2>1, <2>2, <3>1, <3>2
  <2>5. CallInv(new, s)
    BY <2>1, <2>3, <2>4 DEF CallInv, Times
  <2>. QED BY <2>1, <2>2, <2>5, UpdateKeeps
<1>3. CASE Wait(c)
  <2>1. PICK n \in Nat : n = Backoff(k.attempt)
    BY <1>t DEF Backoff
  <2>. DEFINE new == [k EXCEPT !.pc = "backoff", !.left = n]
  <2>2. new \in CallType /\ new.pc = "backoff" /\ new.sent = k.sent /\ new.left = n
        /\ new.elapsed = k.elapsed /\ new.attempt = k.attempt
    BY <1>1 DEF CallType, PCs
  <2>3. k.pc = "loop" /\ k.attempt > 0 /\ k.attempt <= s.retries /\ Update(c, new)
    BY <1>3, <1>t, <2>1 DEF Wait, At, Exhausted
  <2>4. Counts(new, s)
    BY <1>1, <1>t, <2>2, <2>3 DEF CallInv, Counts
  <2>5. ASSUME s.timeout > 0
        PROVE  2 * (new.elapsed + new.left) <= Bound(s, new.attempt, new.attempt)
    <3>1. 2 * k.elapsed <= Bound(s, k.attempt, k.attempt - 1)
      BY <1>1, <2>3, <2>5 DEF CallInv, Times
    <3>2. Bound(s, k.attempt, k.attempt) = Bound(s, k.attempt, k.attempt - 1) + 2 * n
      BY <1>b, <2>1, <2>3
    <3>3. Bound(s, k.attempt, k.attempt - 1) \in Int
      BY <1>t, <2>3, BackoffAdds DEF Bound
    <3>. QED BY <1>t, <2>1, <2>2, <3>1, <3>2, <3>3
  <2>6. CallInv(new, s)
    BY <2>2, <2>4, <2>5 DEF CallInv, Times
  <2>. QED BY <2>2, <2>3, <2>6, UpdateKeeps
<1>4. CASE WakeUp(c)
  <2>. DEFINE new == [k EXCEPT !.pc = "send", !.left = 0]
  <2>1. new \in CallType /\ new.pc = "send" /\ new.sent = k.sent
        /\ new.elapsed = k.elapsed /\ new.attempt = k.attempt
    BY <1>1 DEF CallType, PCs
  <2>2. k.pc = "backoff" /\ k.left = 0 /\ Update(c, new)
    BY <1>4 DEF WakeUp, At, Goto
  <2>3. CallInv(new, s)
    BY <1>1, <1>t, <2>1, <2>2 DEF CallInv, Counts, Times
  <2>. QED BY <2>1, <2>2, <2>3, UpdateKeeps
<1>. QED BY <1>2, <1>3, <1>4

\* The request is sent: its timeout starts.
LEMMA SendKeeps == ASSUME ClientInv, NEW c \in Clients, Send(c) PROVE ClientInv'
<1>. DEFINE k == call[c]
            s == setting[c]
<1>1. k \in CallType /\ s \in Setting /\ CallInv(k, s)
  BY CallTyped
<1>t. k.attempt \in Nat /\ k.elapsed \in Nat /\ k.sent \in Nat /\ s.timeout \in Nat
      /\ s.retries \in Int
  BY <1>1 DEF CallType, Setting
<1>2. PICK n \in Nat : n = k.sent + 1
  BY <1>t
<1>. DEFINE new == [k EXCEPT !.pc = "await", !.left = s.timeout, !.sent = n]
<1>3. new \in CallType /\ new.pc = "await" /\ new.sent = n /\ new.left = s.timeout
      /\ new.elapsed = k.elapsed /\ new.attempt = k.attempt
  BY <1>1, <1>t DEF CallType, PCs
<1>4. k.pc = "send" /\ Update(c, new)
  BY <1>2 DEF Send, At
<1>5. Counts(new, s)
  BY <1>1, <1>2, <1>3, <1>4, <1>t DEF CallInv, Counts
<1>6. ASSUME s.timeout > 0
      PROVE  2 * (new.elapsed + new.left) <= Bound(s, new.attempt + 1, new.attempt)
  <2>1. 2 * k.elapsed <= Bound(s, k.attempt, k.attempt)
    BY <1>1, <1>4, <1>6 DEF CallInv, Times
  <2>2. Bound(s, k.attempt + 1, k.attempt) = Bound(s, k.attempt, k.attempt) + 2 * s.timeout
        /\ Bound(s, k.attempt, k.attempt) \in Nat
    BY <1>1, <1>t, BoundAdds
  <2>. QED BY <1>3, <1>t, <2>1, <2>2
<1>7. CallInv(new, s)
  BY <1>3, <1>5, <1>6 DEF CallInv, Times
<1>. QED BY <1>3, <1>4, <1>7, UpdateKeeps

\* Time spends what was set aside for the running timer.
LEMMA TimeKeeps == ASSUME ClientInv, ClientTime PROVE ClientInv'
<1>1. ASSUME NEW c \in Clients
      PROVE  Later(c) \in CallType /\ CallInv(Later(c), setting[c])
  <2>. DEFINE k == call[c]
              s == setting[c]
  <2>1. k \in CallType /\ s \in Setting /\ CallInv(k, s)
    BY CallTyped
  <2>2. CASE k.pc = "idle"
    BY <2>1, <2>2 DEF Later, At
  <2>3. CASE k.pc # "idle"
    <3>1. PICK l, e \in Nat : /\ l = (IF k.left > 0 THEN k.left - 1 ELSE 0)
                              /\ e = (IF s.timeout > 0 THEN k.elapsed + 1 ELSE k.elapsed)
      BY <2>1 DEF CallType, Setting
    <3>2. Later(c) = [k EXCEPT !.left = l, !.elapsed = e]
      BY <2>3, <3>1 DEF Later, At
    <3>3. /\ Later(c) \in CallType /\ Later(c).pc = k.pc /\ Later(c).attempt = k.attempt
          /\ Later(c).sent = k.sent /\ Later(c).left = l /\ Later(c).elapsed = e
      BY <2>1, <3>1, <3>2 DEF CallType
    <3>4. /\ k.pc \in {"backoff", "await"}
          /\ s.timeout > 0 => k.left > 0
      BY <2>3 DEF ClientTime, Waits, At
    <3>5. Counts(Later(c), s)
      BY <2>1, <3>3, <3>4 DEF CallInv, Counts
    <3>6. ASSUME s.timeout > 0 PROVE l + e = k.left + k.elapsed
      BY <2>1, <3>1, <3>4, <3>6 DEF CallType
    <3>7. ASSUME s.timeout > 0 PROVE Times(Later(c), s)
      <4>1. Later(c).elapsed + Later(c).left = k.elapsed + k.left
        BY <2>1, <3>1, <3>3, <3>6, <3>7 DEF CallType
      <4>2. Times(k, s)
        BY <2>1, <3>7 DEF CallInv
      <4>. QED BY <3>3, <3>4, <4>1, <4>2 DEF Times
    <3>. QED BY <3>3, <3>5, <3>7 DEF CallInv
  <2>. QED BY <2>2, <2>3
<1>2. call' = [c \in Clients |-> Later(c)] /\ setting' = setting
  BY DEF ClientTime
<1>3. ClientTypeOK'
  BY <1>1, <1>2 DEF ClientInv, ClientTypeOK, CallType
<1>4. ASSUME NEW c \in Clients PROVE CallInv(call[c], setting[c])'
  <2>1. call'[c] = Later(c) /\ setting'[c] = setting[c]
    BY <1>2
  <2>2. CallInv(call'[c], setting'[c])
    BY <1>1, <2>1
  <2>. QED BY <2>2 DEF CallInv, Counts, Times, Tries, Bound, TwiceBackoffs
<1>. QED BY <1>3, <1>4 DEF ClientInv

\* The steps between calls.
LEMMA RestKeeps ==
    ASSUME ClientInv, NEW c \in Clients, Call(c) \/ Return(c) \/ Cancel(c)
    PROVE  ClientInv'
<1>. DEFINE k == call[c]
            s == setting[c]
<1>1. k \in CallType /\ s \in Setting /\ CallInv(k, s)
  BY CallTyped
<1>2. CASE Call(c)
  <2>. DEFINE new == [k EXCEPT !.pc = "loop", !.left = 0]
  <2>1. /\ new \in CallType /\ new.pc = "loop" /\ new.sent = 0 /\ new.attempt = 0
        /\ k.pc = "idle" /\ new.elapsed = k.elapsed /\ Update(c, new)
    BY <1>1, <1>2 DEF CallType, PCs, Call, At, Goto, CallInv, Counts
  <2>2. s.timeout > 0 => new.elapsed = 0
    BY <1>1, <2>1 DEF CallInv, Times
  <2>3. 0 <= Tries(s)
    BY <1>1 DEF Tries, Setting
  <2>4. Bound(s, 0, -1) = 0 /\ 0 - 1 = -1
    BY <1>1, BoundAdds
  <2>5. CallInv(new, s)
    BY <2>1, <2>2, <2>3, <2>4 DEF CallInv, Counts, Times
  <2>. QED BY <2>1, <2>5, UpdateKeeps
<1>3. CASE Return(c)
  <2>. DEFINE new == [NoCall EXCEPT !.cancelled = k.cancelled]
  <2>1. new \in CallType /\ Update(c, new) /\ new.pc = "idle" /\ new.sent = 0
        /\ new.attempt = 0 /\ new.elapsed = 0
    BY <1>1, <1>3 DEF CallType, PCs, Return, NoCall
  <2>. QED BY <1>1, <2>1, RestingCall, UpdateKeeps
<1>4. CASE Cancel(c)
  <2>. DEFINE new == [k EXCEPT !.cancelled = TRUE]
  <2>1. /\ new \in CallType /\ new.pc = k.pc /\ new.sent = k.sent /\ new.attempt = k.attempt
        /\ new.left = k.left /\ new.elapsed = k.elapsed /\ Update(c, new)
    BY <1>1, <1>4 DEF CallType, Cancel
  <2>2. CallInv(new, s)
    BY <1>1, <2>1 DEF CallInv, Counts, Times
  <2>. QED BY <2>1, <2>2, UpdateKeeps
<1>. QED BY <1>2, <1>3, <1>4

\* A process that starts is in no call.
LEMMA StartKeeps ==
    ASSUME ClientInv, NEW c \in Clients, NEW s \in Settings[c], Start(c, s)
    PROVE  ClientInv'
<1>1. s \in Setting
  BY ClientAssumption
<1>2. ClientTypeOK'
  BY <1>1 DEF ClientInv, ClientTypeOK, Start, NoCall, PCs
<1>3. ASSUME NEW d \in Clients PROVE CallInv(call[d], setting[d])'
  <2>1. CASE d # c
    <3>1. call'[d] = call[d] /\ setting'[d] = setting[d]
      BY <2>1 DEF ClientInv, ClientTypeOK, Start
    <3>2. CallInv(call'[d], setting'[d])
      BY <3>1 DEF ClientInv
    <3>. QED BY <3>2 DEF CallInv, Counts, Times, Tries, Bound, TwiceBackoffs
  <2>2. CASE d = c
    <3>1. call'[d] = NoCall /\ setting'[d] = s
      BY <2>2 DEF ClientInv, ClientTypeOK, Start
    <3>2. CallInv(NoCall, s)
      BY <1>1, RestingCall DEF NoCall, CallType, PCs
    <3>3. CallInv(call'[d], setting'[d])
      BY <3>1, <3>2
    <3>. QED BY <3>3 DEF CallInv, Counts, Times, Tries, Bound, TwiceBackoffs
  <2>. QED BY <2>1, <2>2
<1>. QED BY <1>2, <1>3 DEF ClientInv

LEMMA ClientInvInit == ClientInit => ClientInv
<1>. SUFFICES ASSUME ClientInit PROVE ClientInv
  OBVIOUS
<1>1. setting \in [Clients -> Setting] /\ \A c \in Clients : setting[c] \in Settings[c]
  BY ClientAssumption DEF ClientInit
<1>2. call \in [Clients -> CallType] /\ \A c \in Clients : call[c] = NoCall
  BY DEF ClientInit, NoCall, CallType, PCs
<1>3. \A s \in Setting : CallInv(NoCall, s)
  BY RestingCall DEF NoCall, CallType, PCs
<1>. QED BY <1>1, <1>2, <1>3 DEF ClientInv, ClientTypeOK, CallType

LEMMA ClientInvStep == ClientInv /\ [ClientNext]_clientVars => ClientInv'
<1>. SUFFICES ASSUME ClientInv, [ClientNext]_clientVars PROVE ClientInv'
  OBVIOUS
<1>1. CASE ClientTime
  BY <1>1, TimeKeeps
<1>2. ASSUME NEW c \in Clients, NEW s \in Settings[c], Start(c, s) PROVE ClientInv'
  BY <1>2, StartKeeps
<1>3. ASSUME NEW c \in Clients, Call(c) \/ Return(c) \/ Cancel(c) PROVE ClientInv'
  BY <1>3, RestKeeps
<1>4. ASSUME NEW c \in Clients, ClientStep(c) PROVE ClientInv'
  <2>1. CASE GiveUp(c)
    BY <2>1, EndKeeps DEF GiveUp, At
  <2>2. CASE FirstAttempt(c) \/ Wait(c) \/ WakeUp(c)
    BY <2>2, LoopKeeps
  <2>3. CASE Abandon(c)
    BY <2>3, EndKeeps DEF Abandon, At
  <2>4. CASE SendFails(c)
    BY <2>4, NextAttemptKeeps DEF SendFails, At
  <2>5. CASE Send(c)
    BY <2>5, SendKeeps
  <2>6. CASE TimesOut(c) \/ Aborted(c)
    BY <2>6, NextAttemptKeeps, EndKeeps DEF TimesOut, Aborted, CutOff, At
  <2>. QED BY <1>4, <2>1, <2>2, <2>3, <2>4, <2>5, <2>6 DEF ClientStep
<1>5. ASSUME NEW c \in Clients, ServiceStep(c) PROVE ClientInv'
  BY <1>5, NextAttemptKeeps, EndKeeps DEF ServiceStep, Responds, Garbles, Refuses, At
<1>6. CASE UNCHANGED clientVars
  BY <1>6 DEF clientVars, ClientInv, ClientTypeOK, CallInv, Counts, Times, Tries, Bound,
             TwiceBackoffs
<1>. QED BY <1>1, <1>2, <1>3, <1>4, <1>5, <1>6 DEF ClientNext

-----------------------------------------------------------------------------
\* The invariant bounds the requests and the time of a call.
LEMMA ClientInvBounds == ClientInv => RequestsBounded /\ CallTimeBounded
<1>. SUFFICES ASSUME ClientInv PROVE RequestsBounded /\ CallTimeBounded
  OBVIOUS
<1>1. ASSUME NEW c \in Clients
      PROVE  call[c].sent <= Attempts(c) /\ (At(c, "ok") => call[c].sent > 0)
  <2>1. call[c] \in CallType /\ setting[c] \in Setting /\ Counts(call[c], setting[c])
    BY CallTyped DEF CallInv
  <2>. QED BY <2>1 DEF CallType, PCs, Setting, Counts, Tries, Attempts, At
<1>2. ASSUME NEW c \in Clients, setting[c].timeout > 0
      PROVE  IF setting[c].retries < 0 THEN call[c].elapsed = 0
             ELSE 2 * call[c].elapsed <= 2 * (Attempts(c) * setting[c].timeout)
                                           + TwiceBackoffs(setting[c].retries)
  <2>. DEFINE k == call[c]
              s == setting[c]
  <2>1. k \in CallType /\ s \in Setting /\ Counts(k, s) /\ Times(k, s)
    BY <1>2, CallTyped DEF CallInv
  <2>t. k.attempt \in Nat /\ k.elapsed \in Nat /\ k.left \in Nat /\ s.timeout \in Nat
        /\ s.retries \in Int /\ k.pc \in PCs
    BY <2>1 DEF CallType, Setting
  <2>2. CASE s.retries < 0
    <3>1. CASE k.pc = "loop"
      <4>1. k.attempt = 0 /\ k.attempt - 1 = -1
        BY <2>1, <2>2, <2>t, <3>1 DEF Counts, Tries
      <4>2. Bound(s, 0, -1) = 0
        BY <2>1, BoundAdds
      <4>. QED BY <2>1, <2>2, <2>t, <3>1, <4>1, <4>2 DEF Times
    <3>. QED BY <2>1, <2>2, <2>t, <3>1 DEF PCs, Counts, Times
  <2>3. CASE s.retries >= 0
    <3>b. Bound(s, s.retries + 1, s.retries) \in Nat
      BY <2>1, <2>3, <2>t, BoundGrows
    <3>1. 2 * k.elapsed <= Bound(s, s.retries + 1, s.retries)
      <4>1. CASE k.pc \in {"backoff", "send", "await"}
        <5>1. k.attempt <= s.retries
          BY <2>1, <4>1 DEF Counts
        <5>2. Bound(s, k.attempt + 1, k.attempt) = Bound(s, k.attempt, k.attempt) + 2 * s.timeout
              /\ Bound(s, k.attempt, k.attempt) \in Nat
          BY <2>1, <2>t, BoundAdds
        <5>3. Bound(s, k.attempt + 1, k.attempt) <= Bound(s, s.retries + 1, s.retries)
          BY <2>1, <2>t, <5>1, BoundGrows
        <5>4. 2 * k.elapsed <= Bound(s, k.attempt + 1, k.attempt)
          BY <2>1, <2>t, <4>1, <5>2 DEF Times
        <5>. QED BY <2>t, <3>b, <5>2, <5>3, <5>4
      <4>2. CASE k.pc = "loop" /\ k.attempt = 0
        <5>1. Bound(s, 0, -1) = 0 /\ 0 - 1 = -1
          BY <2>1, BoundAdds
        <5>. QED BY <2>1, <2>t, <3>b, <4>2, <5>1 DEF Times
      <4>3. CASE k.pc = "loop" /\ k.attempt > 0
        <5>1. PICK a \in Nat : k.attempt = a + 1 /\ a = k.attempt - 1
          BY <2>t, <4>3
        <5>2. a <= s.retries
          BY <2>1, <2>3, <2>t, <4>3, <5>1 DEF Counts, Tries
        <5>3. Bound(s, a + 1, a) <= Bound(s, s.retries + 1, s.retries)
          BY <2>1, <5>2, BoundGrows
        <5>4. Bound(s, a + 1, a) \in Nat
          BY <2>1, <2>t, BoundAdds
        <5>. QED BY <2>1, <2>t, <3>b, <4>3, <5>1, <5>3, <5>4 DEF Times
      <4>4. CASE k.pc = "idle"
        BY <2>1, <2>t, <3>b, <4>4 DEF Times
      <4>5. CASE k.pc \in {"ok", "error"}
        BY <2>1, <2>3, <2>t, <4>5 DEF Times
      <4>. QED BY <2>t, <4>1, <4>2, <4>3, <4>4, <4>5 DEF PCs
    <3>2. Attempts(c) = s.retries + 1
      BY <2>3, <2>t DEF Attempts
    <3>. QED BY <2>3, <2>t, <3>1, <3>2 DEF Bound
  <2>. QED BY <2>2, <2>3, <2>t
<1>. QED BY <1>1, <1>2 DEF RequestsBounded, CallTimeBounded

\* A client sends at most one request more than it has retries.
THEOREM ClientSendsBounded == ClientSpec => []RequestsBounded
  BY ClientInvInit, ClientInvStep, ClientInvBounds, PTL DEF ClientSpec

\* A call holds its worker up for a bounded time.
THEOREM ClientTimeIsBounded == ClientSpec => []CallTimeBounded
  BY ClientInvInit, ClientInvStep, ClientInvBounds, PTL DEF ClientSpec
=============================================================================
