------------------------------- MODULE Order -------------------------------
(* Sets of numbers in ascending order, as sort.Ints and the loops that meet   *)
(* positions from the first to the last leave them.                          *)
EXTENDS Integers, FiniteSets

\* The i-th element is the one with i - 1 below it.
Sorted(S) ==
    [i \in 1 .. Cardinality(S) |-> CHOOSE x \in S : Cardinality({y \in S : y < x}) = i - 1]
=============================================================================
