----------------------------- MODULE MCClosure -----------------------------
EXTENDS Closure

MCEvents   == {"a0", "b1", "a2"}
MCEntities == {"A", "B"}

Span(entity, from, to, known) ==
    [entity |-> entity, earliest |-> from, latest |-> to, known_at |-> known]

(* Three events with intervals in any order, touching or overlapping; b1   *)
(* may be reversed, which must not register; in two chronologies a2 is of  *)
(* the other entity, or becomes known too late.                            *)
Chronicle(i, j, k, entity, known) ==
    [a0 |-> Span("A", i[1], i[2], 5), b1 |-> Span("B", j[1], j[2], 5),
     a2 |-> Span(entity, k[1], k[2], known)]

MCChronologies ==
    {Chronicle(i, j, k, "A", 5) :
        i \in {<<1, 1>>, <<1, 2>>}, j \in {<<1, 3>>, <<2, 2>>, <<4, 1>>}, k \in {<<2, 2>>, <<3, 3>>}}
      \cup {Chronicle(<<1, 1>>, <<2, 2>>, <<3, 3>>, "B", 5), Chronicle(<<1, 1>>, <<2, 2>>, <<3, 3>>, "A", 6)}

NoRelation == [kind |-> "none", from |-> "a0", to |-> "a0"]

Plain(exposure, outcome, binding, scope, cutoff) ==
    [causal |-> TRUE, exposure |-> exposure, outcome |-> outcome, binding |-> binding,
     path |-> <<>>, relation |-> NoRelation, scope |-> scope, cutoff |-> cutoff]

(* Edges, one of them not causal, one about other variables, one in a      *)
(* narrower scope, one that came to know later; closures, one of which is  *)
(* an edge itself, one with too short a path; relations.                   *)
MCProtocols ==
    LET ab   == Plain("A", "B", <<"a0", "b1">>, "wide", 6)
        ba   == Plain("B", "A", <<"b1", "a2">>, "wide", 6)
        loop == [Plain("A", "A", Unbound, "wide", 6) EXCEPT !.path = <<"a0", "b1", "a2">>]
    IN  {ab, ba,
         [ab EXCEPT !.cutoff = 5],
         [ab EXCEPT !.scope = "narrow"],
         [ba EXCEPT !.causal = FALSE],
         [ba EXCEPT !.exposure = "A"],
         loop,
         [loop EXCEPT !.scope = "narrow"],
         [loop EXCEPT !.cutoff = 5],
         [loop EXCEPT !.outcome = "B", !.binding = <<"a0", "b1">>, !.scope = "narrow"],
         [loop EXCEPT !.path = <<"a0", "b1">>]}
        \cup
        {[Plain("A", "B", Unbound, "wide", 6) EXCEPT !.relation = [kind |-> k, from |-> "a0", to |-> "b1"]] :
            k \in {"precedes", "overlaps", "contains", "uncertain_order"}}

MCScopeIds == {"narrow", "wide"}
MCInside   == {<<"narrow", "narrow">>, <<"narrow", "wide">>, <<"wide", "wide">>}
=============================================================================
