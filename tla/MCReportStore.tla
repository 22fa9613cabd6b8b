--------------------------- MODULE MCReportStore ---------------------------
(* A small instance of ReportStore for TLC, and its bound. *)
EXTENDS ReportStore, TLC

CONSTANTS pod, deployment

BothKinds == {pod, deployment}
Alike == Permutations(BothKinds)

\* Bound: two patches are applied in a behaviour, one of them at most to a
\* workload of another kind than the one that was analysed.
FewPatches ==
    LET patched == {a \in Requests : applied[a] # NoWorkload}
    IN  /\ Cardinality(patched) <= 2
        /\ Cardinality({a \in patched : applied[a] # subject[a]}) <= 1
=============================================================================
