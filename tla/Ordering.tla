------------------------------ MODULE Ordering ------------------------------
(***************************************************************************)
(* Python's sorted, which the graph algorithms, the corrections and the    *)
(* adapters use to be deterministic.                                       *)
(***************************************************************************)
EXTENDS Integers, FiniteSets, Functions

(* The elements of a set by their keys, which differ.                      *)
SortedBy(S, key) == AntiFunction([x \in S |-> Cardinality({y \in S : key[y] <= key[x]})])

Ascending(S) == SortedBy(S, [x \in S |-> x])

(* The indices of a list by its values; sorted keeps the order of equals.  *)
RankOrder(values) ==
    AntiFunction([i \in DOMAIN values |->
      Cardinality({j \in DOMAIN values : values[j] < values[i] \/ (values[j] = values[i] /\ j <= i)})])
=============================================================================
