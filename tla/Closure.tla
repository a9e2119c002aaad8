------------------------------ MODULE Closure ------------------------------
(***************************************************************************)
(* Feedback certificates: a claim may rest on a path of events whose edges *)
(* are causal runs of their own (analysis/closure.py, and the parts of G7, *)
(* G8 and G10 in gates/checks.py that speak of events and of edges).       *)
(*                                                                         *)
(* The other gates of a run are one choice.  A run is its content: two     *)
(* runs that agree in all that is kept here are one.                       *)
(***************************************************************************)
EXTENDS Integers, Sequences, FiniteSets

CONSTANTS
    Events, Entities,
    Chronologies,   \* the payloads of the events: see Chronology
    Protocols,      \* what may be run: see ProtocolSpec
    ScopeIds,       \* scopes
    Inside,         \* the pairs <<s, t>> with s within t (module Scope)
    MaxRuns         \* bound: runs recorded

Times == Nat

EventSpec  == [entity : Entities, earliest : Times, latest : Times, known_at : Times]
Chronology == [Events -> EventSpec]

(* A plausible fault: an interval may be reversed. *)
RegistrableReversed(e) == TRUE

(* contracts.validate: an interval is not reversed. *)
Registrable(e) == e.earliest <= e.latest

Unbound == <<>>

(* A protocol and its claim: the variables its estimand relates, the pair  *)
(* of events it is bound to as an edge, the path of its closure (whose     *)
(* edges are chosen among the runs that exist), and a temporal relation.   *)
ProtocolSpec ==
    [causal    : BOOLEAN,
     exposure  : Entities, outcome : Entities,
     binding   : (Events \X Events) \cup {Unbound},
     path      : Seq(Events),
     relation  : [kind : {"none", "precedes", "overlaps", "contains", "uncertain_order"},
                  from : Events, to : Events],
     scope     : ScopeIds,
     cutoff    : Times]

ASSUME ChronologiesAssumption == Chronologies \subseteq Chronology

ASSUME ProtocolsAssumption == Protocols \subseteq ProtocolSpec

ASSUME RunsAssumption == MaxRuns \in Nat

(* Being within is a preorder: ScopeProofs shows it of core/scope.py. *)
ASSUME InsideAssumption ==
    /\ \A s \in ScopeIds : <<s, s>> \in Inside
    /\ \A s, t, u \in ScopeIds : <<s, t>> \in Inside /\ <<t, u>> \in Inside => <<s, u>> \in Inside

VARIABLES
    event,   \* event[e]: the registered EventSpec
    runs     \* the RunRecords, each with its protocol, edges and outcome

vars == <<event, runs>>

Init ==
    /\ event \in Chronologies
    /\ \A e \in Events : Registrable(event[e])
    /\ runs = {}

(* The whole interval of a lies before the one of b. *)
Before(a, b) == event[a].latest < event[b].earliest

(* validate_temporal, for one relation. *)
RelationHolds(r) ==
    LET a == event[r.from]
        b == event[r.to]
    IN  \/ r.kind = "none"
        \/ r.kind = "precedes" /\ Before(r.from, r.to)
        \/ /\ r.kind = "overlaps"
           /\ a.earliest <= b.latest /\ b.earliest <= a.latest
        \/ /\ r.kind = "contains"
           /\ a.earliest <= b.earliest /\ b.latest <= a.latest

(* The events a protocol refers to, itself or through its closure and its relation. *)
Cited(p) ==
    {p.path[i] : i \in DOMAIN p.path} \cup {p.binding[i] : i \in DOMAIN p.binding} \cup
    (IF p.relation.kind = "none" THEN {} ELSE {p.relation.from, p.relation.to})

G7(p) ==
    /\ \A e \in Cited(p) : event[e].known_at <= p.cutoff
    /\ RelationHolds(p.relation)
    /\ p.binding # Unbound => Before(p.binding[1], p.binding[2])

(* A causal edge is about the entities of the events it is bound to.       *)
G8(p) ==
    p.causal /\ p.binding # Unbound =>
      event[p.binding[1]].entity = p.exposure /\ event[p.binding[2]].entity = p.outcome

(* An entity recurs, but only at a later time. *)
PathUnrolled(path) == \A i \in 1..(Len(path) - 1) : Before(path[i], path[i + 1])

(* A plausible fault: an edge run is not asked which events it is bound to. *)
EdgeCertifiedUnbound(run, from, to, scope) ==
    /\ run.protocol.causal
    /\ run.promoted
    /\ <<scope, run.protocol.scope>> \in Inside

(* A plausible fault: the scope of the edge is not compared. *)
EdgeCertifiedAnywhere(run, from, to, scope) ==
    /\ run.protocol.causal
    /\ run.promoted
    /\ run.protocol.binding = <<from, to>>

EdgeCertified(run, from, to, scope) ==
    /\ run.protocol.causal
    /\ run.promoted
    /\ <<scope, run.protocol.scope>> \in Inside
    /\ run.protocol.binding = <<from, to>>

(* validate_closure: no blocker. *)
ClosureValid(path, edges, scope) ==
    /\ Len(path) >= 3
    /\ Len(edges) = Len(path) - 1
    /\ event[path[1]].entity = event[path[Len(path)]].entity
    /\ PathUnrolled(path)
    /\ \A i \in DOMAIN edges : EdgeCertified(edges[i], path[i], path[i + 1], scope)

G10(p, edges) == p.path # <<>> => ClosureValid(p.path, edges, p.scope)

(* A ClosureSpec lists runs that are registered, none of them twice. *)
EdgeLists(p) ==
    IF p.path = <<>> THEN {<<>>}
    ELSE {edges \in [1..(Len(p.path) - 1) -> runs] :
            \A i, j \in DOMAIN edges : edges[i] = edges[j] => i = j}

Run(p) ==
    /\ Cardinality(runs) < MaxRuns
    /\ \E edges \in EdgeLists(p), others \in BOOLEAN :
         runs' = runs \cup {[protocol |-> p, edges |-> edges,
                             promoted |-> others /\ G7(p) /\ G8(p) /\ G10(p, edges)]}
    /\ UNCHANGED event

Next == \E p \in Protocols : Run(p)

Spec == Init /\ [][Next]_vars

---------------------------------------------------------------------------
(* Properties.                                                             *)

(* Events, protocols and edges of runs are those there are.                *)
TypeOK ==
    /\ event \in Chronologies
    /\ \A r \in runs : r.protocol \in Protocols /\ r.promoted \in BOOLEAN
    /\ \A r \in runs : \A i \in DOMAIN r.edges : r.edges[i] \in runs

Certificates == {r \in runs : r.promoted /\ r.protocol.path # <<>>}

(* "A graph cycle alone is not feedback": along a certified path every     *)
(* event is over before any later one begins, not only before the one that *)
(* follows, so that none recurs; the entity at its end is the one it began with.     *)
FeedbackIsUnrolled ==
    \A r \in Certificates : \A i, j \in DOMAIN r.protocol.path :
      /\ i < j => Before(r.protocol.path[i], r.protocol.path[j])
      /\ event[r.protocol.path[1]].entity = event[r.protocol.path[Len(r.protocol.path)]].entity

(* Each edge of a certified path is a run of a causal claim that estimated *)
(* the effect of the earlier event's entity on that of the later one, which *)
(* no single gate compares: G8 compares the edge's own variables with its   *)
(* own events, G10 those events with the path.                             *)
EdgesEstimateThePath ==
    \A r \in Certificates : \A i \in DOMAIN r.edges :
      LET p == r.edges[i].protocol
      IN  /\ p.causal
          /\ p.exposure = event[r.protocol.path[i]].entity
          /\ p.outcome = event[r.protocol.path[i + 1]].entity

(* The runs beneath a run: its edges, and theirs.                          *)
Beneath(r) ==
    LET under[k \in 0..MaxRuns] ==
          IF k = 0 THEN {r}
          ELSE under[k - 1] \cup UNION {{e.edges[i] : i \in DOMAIN e.edges} : e \in under[k - 1]}
    IN  under[MaxRuns]

(* An edge may be certified by a closure in turn: through all levels the   *)
(* runs were promoted and a certificate stays within the scope of each.    *)
CertificateNeverWidens ==
    \A r \in Certificates : \A e \in Beneath(r) :
      e.promoted /\ <<r.protocol.scope, e.protocol.scope>> \in Inside

(* docs: "recursive knowledge cutoff": nothing a certificate rests on was  *)
(* decided with knowledge from after its own cutoff.                       *)
CutoffIsRecursive ==
    \A r \in Certificates : \A e \in Beneath(r) : e.protocol.cutoff <= r.protocol.cutoff
=============================================================================
