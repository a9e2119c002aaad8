---------------------------- MODULE Multiplicity ----------------------------
(***************************************************************************)
(* The falsification tests of a run and the correction for their number    *)
(* (analysis/falsification.py, adjust_pvalues of analysis/statistics.py).  *)
(*                                                                         *)
(* A p-value is a natural number, Unit standing for 1; Unit is divisible   *)
(* by every number of tests there may be, and every p-value but Unit is a  *)
(* multiple of those numbers, so that p * n / rank is exact.  Rounding of  *)
(* floating-point numbers is left out.                                     *)
(***************************************************************************)
EXTENDS Sequences, Ordering

CONSTANT Unit

Lesser(x, y)  == IF x < y THEN x ELSE y
Greater(x, y) == IF x < y THEN y ELSE x

(* A plausible fault: each value is adjusted alone, the running maximum is forgotten. *)
HolmAlone(values) ==
    LET n     == Len(values)
        order == RankOrder(values)
    IN  [i \in 1..n |->
           LET rank == CHOOSE r \in 1..n : order[r] = i
           IN  Lesser(Unit, (n - rank + 1) * values[i])]

(* Step down from the least value: the factor shrinks, the result does not. *)
Holm(values) ==
    LET n     == Len(values)
        order == RankOrder(values)
        running[rank \in 0..n] ==
          IF rank = 0 THEN 0
          ELSE Greater(running[rank - 1], Lesser(Unit, (n - rank + 1) * values[order[rank]]))
    IN  [i \in 1..n |-> running[CHOOSE rank \in 1..n : order[rank] = i]]

(* Step up from the greatest. *)
BenjaminiHochberg(values) ==
    LET n     == Len(values)
        order == RankOrder(values)
        running[rank \in 1..(n + 1)] ==
          IF rank = n + 1 THEN Unit
          ELSE Lesser(running[rank + 1], (values[order[rank]] * n) \div rank)
    IN  [i \in 1..n |-> running[CHOOSE rank \in 1..n : order[rank] = i]]

Policies == {"none", "holm", "benjamini_hochberg"}

(* Without a correction more than one test is an error. *)
Adjustable(values, method) == method = "none" => Len(values) <= 1

AdjustPvalues(values, method) ==
    CASE method = "none" -> values
      [] method = "holm" -> Holm(values)
      [] method = "benjamini_hochberg" -> BenjaminiHochberg(values)

(* A test is statistical, with a p-value, or was accepted or not at once.  *)
Decided(accepted) == [metric |-> "decided", p |-> Unit, accepted |-> accepted]
ZTest(p) == [metric |-> "z_pvalue", p |-> p, accepted |-> TRUE]

(* The tests that enter the family, by their positions in the list. *)
Statistical(tests) == Ascending({i \in DOMAIN tests : tests[i].metric = "z_pvalue"})

(* execute_tests: which of the tests are accepted, after the correction.   *)
ExecuteTests(tests, method, alpha) ==
    LET family   == Statistical(tests)
        adjusted == AdjustPvalues([k \in DOMAIN family |-> tests[family[k]].p], method)
    IN  [i \in DOMAIN tests |->
           IF \E k \in DOMAIN family : family[k] = i
           THEN adjusted[CHOOSE k \in DOMAIN family : family[k] = i] >= alpha
           ELSE tests[i].accepted]

(***************************************************************************)
(* Reference definitions, without an order of the tests: among those of a  *)
(* family, which hypotheses are rejected at a level.                       *)
(***************************************************************************)
Family(tests) == {i \in DOMAIN tests : tests[i].metric = "z_pvalue"}

(* Holm: everything at least as significant passes its own threshold.      *)
HolmRejects(tests, i, alpha) ==
    \A j \in Family(tests) : tests[j].p <= tests[i].p =>
      tests[j].p * Cardinality({k \in Family(tests) : tests[k].p >= tests[j].p}) < alpha

(* Benjamini and Hochberg: something no more significant passes its own.   *)
BenjaminiHochbergRejects(tests, i, alpha) ==
    \E j \in Family(tests) :
      /\ tests[j].p >= tests[i].p
      /\ tests[j].p * Cardinality(Family(tests)) <
           alpha * Cardinality({k \in Family(tests) : tests[k].p <= tests[j].p})

Rejects(tests, i, method, alpha) ==
    CASE method = "none" -> tests[i].p < alpha
      [] method = "holm" -> HolmRejects(tests, i, alpha)
      [] method = "benjamini_hochberg" -> BenjaminiHochbergRejects(tests, i, alpha)
=============================================================================
