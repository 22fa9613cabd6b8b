------------------------------- MODULE Lists -------------------------------
(***************************************************************************)
(* What a loop over a list keeps of it: the elements at some of its        *)
(* indices, in their order.                                                *)
(***************************************************************************)
EXTENDS Naturals, Sequences, FiniteSets

\* How many of the indices I come before i or are i.
Rank(I, i) == Cardinality({j \in I : j <= i})

\* The n-th of the indices I.
Index(I, n) == CHOOSE i \in I : Rank(I, i) = n

Select(s, I) == [n \in 1 .. Cardinality(I) |-> s[Index(I, n)]]
=============================================================================
