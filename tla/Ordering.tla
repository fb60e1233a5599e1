------------------------------ MODULE Ordering ------------------------------
(***************************************************************************)
(* The numbers of a finite set in ascending order, as ORDER BY id and a    *)
(* loop over growing slots give them.                                      *)
(***************************************************************************)
EXTENDS Integers, FiniteSets

Below(S, d) == {e \in S : e < d}

\* The i-th number is the one that has i - 1 below it.
Ascending(S) ==
    [i \in 1..Cardinality(S) |-> CHOOSE d \in S : Cardinality(Below(S, d)) = i - 1]

\* The elements of s at the places in S, in their order: a filter.
Taken(s, S) == [i \in 1..Cardinality(S) |-> s[Ascending(S)[i]]]
=============================================================================
