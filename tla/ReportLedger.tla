---------------------------- MODULE ReportLedger ----------------------------
(***************************************************************************)
(* What the LLM service promises about its reports, whatever its threads   *)
(* and the scan of report_outcome do inside: a bounded list, oldest first, *)
(* that gets one report of an analysis at most; and outcomes of which each *)
(* is recorded once at most, on a report of the workload it names that is  *)
(* the newest fitting one or was stored while it was being answered.       *)
(* ReportStore implements this.                                            *)
(***************************************************************************)
EXTENDS Naturals, Sequences

CONSTANTS
    Workloads,  \* what is analysed and patched
    NoWorkload, \* no patch of this analysis was applied
    Analyses,   \* analyses asked for, numbered from 1
    Quoting,    \* analyses whose report looks as if it had an operator step
    Nobody,     \* no analysis
    Cap,        \* how many reports the list is to hold
    Slack       \* how many more, or fewer, it may hold for a while

VARIABLES
    subject,  \* the workloads of the analyses asked for, in order
    open,     \* analyses whose report may still come
    kept,     \* the reports, oldest first
    credit,   \* the outcome recorded in each report
    applied,  \* the workload that the patch of each analysis was applied to
    mail,     \* outcomes on their way
    taken     \* the outcome being answered, the reports it had to choose
              \* from, and whether the list was torn under it

vars == <<subject, open, kept, credit, applied, mail, taken>>

NothingTaken == [req |-> Nobody, due |-> {}, torn |-> FALSE]

Init ==
    /\ subject = <<>>
    /\ open = {}
    /\ kept = <<>>
    /\ credit = [a \in Analyses |-> Nobody]
    /\ applied = [a \in Analyses |-> NoWorkload]
    /\ mail = {}
    /\ taken = NothingTaken

-----------------------------------------------------------------------------
(* Analyses and their reports *)

Ask(w) ==
    /\ Len(subject) + 1 \in Analyses
    /\ subject' = Append(subject, w)
    /\ open' = open \union {Len(subject) + 1}
    /\ UNCHANGED <<kept, credit, applied, mail, taken>>

Store(a) ==
    /\ kept' = Append(kept, a)
    /\ Len(kept) < Cap + Slack
    /\ open' = open \ {a}
    /\ taken' \in {taken, [taken EXCEPT !.torn = FALSE]}
    /\ UNCHANGED <<subject, credit, applied, mail>>

\* No report of this analysis will come.
Withhold(a) ==
    /\ open' = open \ {a}
    /\ UNCHANGED <<subject, kept, credit, applied, mail, taken>>

\* The oldest report goes; this may tear the list under an outcome.
Forget ==
    /\ kept # <<>>
    /\ Len(Tail(kept)) + Slack > Cap
    /\ kept' = Tail(kept)
    /\ taken' \in {taken, [taken EXCEPT !.torn = taken.req # Nobody]}
    /\ UNCHANGED <<subject, open, credit, applied, mail>>

-----------------------------------------------------------------------------
(* Outcomes *)

\* The workload patched bears the name of the one analysed.
Tell(a, w) ==
    /\ a \in 1 .. Len(subject)
    /\ applied[a] = NoWorkload
    /\ w.name = subject[a].name
    /\ applied' = [applied EXCEPT ![a] = w]
    /\ mail' = mail \union {a}
    /\ UNCHANGED <<subject, open, kept, credit, taken>>

Lose(a) ==
    /\ mail' = mail \ {a}
    /\ UNCHANGED <<subject, open, kept, credit, applied, taken>>

Fits(r, a) == subject[r] = applied[a] /\ credit[r] = Nobody /\ r \notin Quoting

InList == {kept[i] : i \in 1 .. Len(kept)}

Take(a) ==
    /\ taken.req = Nobody
    /\ mail' = mail \ {a}
    /\ taken' = [req |-> a, due |-> {r \in InList : Fits(r, a)}, torn |-> FALSE]
    /\ UNCHANGED <<subject, open, kept, credit, applied>>

Answer ==
    /\ taken.req # Nobody
    /\ taken' = NothingTaken
    /\ UNCHANGED <<subject, open, kept, applied, mail>>

\* No report that was there to choose from is newer than the one chosen.
Record ==
    /\ Answer
    /\ ~taken.torn
    /\ \E i \in 1 .. Len(kept) :
         /\ Fits(kept[i], taken.req)
         /\ \A j \in i + 1 .. Len(kept) : kept[j] \notin taken.due
         /\ credit' = [credit EXCEPT ![kept[i]] = taken.req]

NotFound ==
    /\ Answer
    /\ ~taken.torn
    /\ taken.due \intersect InList = {}
    /\ UNCHANGED credit

Fail ==
    /\ Answer
    /\ taken.torn
    /\ UNCHANGED credit

\* Reports and what is being answered are lost, outcomes on their way are not.
Restart ==
    /\ open' = {}
    /\ kept' = <<>>
    /\ credit' = [a \in Analyses |-> Nobody]
    /\ taken' = NothingTaken
    /\ UNCHANGED <<subject, applied, mail>>

Next ==
    \/ \E w \in Workloads : Ask(w) \/ \E a \in Analyses : Tell(a, w)
    \/ \E a \in open : Store(a) \/ Withhold(a)
    \/ \E a \in mail : Lose(a) \/ Take(a)
    \/ Forget \/ Record \/ NotFound \/ Fail \/ Restart

Spec == Init /\ [][Next]_vars
=============================================================================
