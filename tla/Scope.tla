------------------------------- MODULE Scope -------------------------------
(***************************************************************************)
(* Scopes of claims, models and evidence (core/scope.py): when one lies    *)
(* within another, and how the strengths of a proof route meet.            *)
(*                                                                         *)
(* The functions of the code return the list of reasons why not; here a    *)
(* reason is a conjunct that is false.                                     *)
(***************************************************************************)
EXTENDS Integers

CONSTANTS
    SetFields,     \* domains, populations, regimes, model_families
    Names,         \* what the named sets may list, but for Star
    Precisions,    \* precision regimes, Star among them
    Assumptions,   \* assumption names
    Star           \* "*": everything

ASSUME StarAssumption == Star \notin Names

(* Timestamps are positive; an absent one is 0. *)
NoTime == 0
Time   == Nat \ {0}

ScopeSpec ==
    [sets        : [SetFields -> SUBSET (Names \cup {Star})],
     precision   : Precisions,
     assumptions : SUBSET Assumptions,
     start       : Nat,
     end         : Nat]

(* The intervals that valid_start and valid_end of an evidence item give. *)
Window == [start : Nat, end : Nat]

Ordered(i) == i.start = NoTime \/ i.end = NoTime \/ i.start <= i.end

(* What contracts.validate requires of a ScopeSpec. *)
WellFormed(s) ==
    /\ \A f \in SetFields :
         /\ s.sets[f] # {}
         /\ Star \in s.sets[f] => s.sets[f] = {Star}
    /\ Ordered(s)

SetWithin(inner, outer) == outer = {Star} \/ (Star \notin inner /\ inner \subseteq outer)

(* A plausible fault: an open inner interval is taken to respect any bound. *)
IntervalWithinIfBounded(inner, outer) ==
    /\ outer.start # NoTime /\ inner.start # NoTime => inner.start >= outer.start
    /\ outer.end # NoTime /\ inner.end # NoTime => inner.end <= outer.end

(* A bound of the outer interval needs one of the inner that respects it. *)
IntervalWithin(inner, outer) ==
    /\ outer.start # NoTime => inner.start # NoTime /\ inner.start >= outer.start
    /\ outer.end # NoTime => inner.end # NoTime /\ inner.end <= outer.end

(* A plausible fault: a wildcard precision matches on either side. *)
WithinAnyPrecision(inner, outer) ==
    /\ \A f \in SetFields : SetWithin(inner.sets[f], outer.sets[f])
    /\ outer.assumptions \subseteq inner.assumptions
    /\ inner.precision = outer.precision \/ Star \in {inner.precision, outer.precision}
    /\ IntervalWithin(inner, outer)

Within(inner, outer) ==
    /\ \A f \in SetFields : SetWithin(inner.sets[f], outer.sets[f])
    /\ outer.assumptions \subseteq inner.assumptions
    /\ inner.precision = outer.precision \/ outer.precision = Star
    /\ IntervalWithin(inner, outer)

EvidenceWithin(inner, outer, window) == Within(inner, outer) /\ IntervalWithin(inner, window)

Dimensions == {"provenance", "independence", "time", "model", "reproduction", "scope"}
Vector     == [Dimensions -> BOOLEAN]
NoStrength == [k \in Dimensions |-> FALSE]

(* The meet of no vectors at all is no strength. *)
StrengthMeet(vectors) ==
    IF vectors = {} THEN NoStrength ELSE [k \in Dimensions |-> \A v \in vectors : v[k]]

---------------------------------------------------------------------------
(* What a scope means: the situations it speaks of.                        *)

Situation ==
    [values : [SetFields -> Names], precision : Precisions \ {Star},
     holding : SUBSET Assumptions, time : Nat]

During(interval, time) ==
    /\ interval.start # NoTime => interval.start <= time
    /\ interval.end # NoTime => time <= interval.end

Covers(s, x) ==
    /\ \A f \in SetFields : s.sets[f] = {Star} \/ x.values[f] \in s.sets[f]
    /\ s.assumptions \subseteq x.holding
    /\ s.precision = Star \/ s.precision = x.precision
    /\ During(s, x.time)

AtLeast(v, w) == \A k \in Dimensions : w[k] => v[k]
=============================================================================
