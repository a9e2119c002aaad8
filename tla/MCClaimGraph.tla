---------------------------- MODULE MCClaimGraph ----------------------------
(***************************************************************************)
(* Three claims over two pieces of evidence: a rests on e1, b has the      *)
(* alternative routes a and e2, c needs b.                                 *)
(***************************************************************************)
EXTENDS ClaimGraph

Listing(values) == [f \in SetFields |-> values]

Narrow == [sets |-> Listing({"x"}), precision |-> "fine", assumptions |-> {},
           start |-> 2, end |-> 3]
Wide   == [sets |-> Listing({"x", "y"}), precision |-> "*", assumptions |-> {},
           start |-> NoTime, end |-> NoTime]

AnyTime == [start |-> NoTime, end |-> NoTime]
Late    == [start |-> 2, end |-> NoTime]

Study(b, c, model, known, cutoff) ==
    [claim |-> [d \in {"a", "b", "c"} |->
                  CASE d = "a" -> [scope |-> Wide, model |-> Wide, mandatory |-> {"e1"}, routes |-> <<>>]
                    [] d = "b" -> [scope |-> b, model |-> model, mandatory |-> {}, routes |-> <<{"a"}, {"e2"}>>]
                    [] d = "c" -> [scope |-> c, model |-> Wide, mandatory |-> {"b"}, routes |-> <<>>]],
     evidence |-> [e \in {"e1", "e2"} |->
                     IF e = "e1" THEN [scope |-> Wide, window |-> AnyTime, known_at |-> 1]
                                 ELSE [scope |-> Wide, window |-> Late, known_at |-> known]],
     protocol |-> [p \in {"pa", "pb", "pc"} |->
                     CASE p = "pa"  -> [claim |-> "a", cutoff |-> cutoff]
                       [] p = "pb"  -> [claim |-> "b", cutoff |-> 1]
                       [] p = "pc"  -> [claim |-> "c", cutoff |-> 1]]]

Fitting == Study(Narrow, Narrow, Wide, 1, 1)

(* Everything fits; then, one at a time: a claim wider than the one it     *)
(* rests on, a model narrower than its claim, evidence and a dependency    *)
(* known too late.                                                         *)
MCStudies ==
    {Fitting,
     Study(Narrow, Wide, Wide, 1, 1),
     Study(Wide, Narrow, Narrow, 1, 1),
     Study(Narrow, Narrow, Wide, 2, 1),
     Study(Narrow, Narrow, Wide, 1, 2)}

OneStudy == {Fitting}

Link(e, c, role) == [evidence |-> e, claim |-> c, role |-> role]

(* Support for every route, and a contradiction of the claim at the bottom. *)
MCLinks == {Link("e1", "a", "supports"), Link("e2", "b", "supports"), Link("e2", "a", "contradicts")}
=============================================================================
