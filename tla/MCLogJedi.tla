------------------------------ MODULE MCLogJedi ------------------------------
(* Two operator processes and one workload, for TLC. *)
EXTENDS LogJedi, TLC

CONSTANTS p1, p2, web

\* One process retries often enough for the back-off to be capped, or not at
\* all; the other never retries, with and without a timeout.
MCSettings == p1 :> {[retries |-> 2, timeout |-> 1], [retries |-> -1, timeout |-> 1]}
              @@ p2 :> {[retries |-> 0, timeout |-> 1], [retries |-> 0, timeout |-> 0]}
OneSetting == p1 :> {[retries |-> 0, timeout |-> 1]}
=============================================================================
