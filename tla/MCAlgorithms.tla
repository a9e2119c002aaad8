---------------------------- MODULE MCAlgorithms ----------------------------
(***************************************************************************)
(* Every small input to the pure algorithms the gates rest on: graphs for  *)
(* topological_order, reachable and documentary paths, a scope of evidence, *)
(* its valid time and the scope of a claim for within, the tokens of       *)
(* evidence for clusters, lineages for provenance, stores of records for   *)
(* collect and replay, families of tests for the corrections, and networks *)
(* for max_flow.                                                           *)
(***************************************************************************)
EXTENDS Graph, Scope, Independence, Provenance, Snapshot, Multiplicity, Networks

CONSTANTS
    Nodes, Outside,    \* the nodes of graphs, by the order of their names, and what is none
    NamesListed,       \* the names scopes list: one of Names is left out
    Starts, Ends,      \* bounds of intervals
    Moments,           \* times to ask about: before, at and after each bound
    Refs, Tokens,      \* the number of pieces of evidence, what they may have in common
    Items, Instants,   \* the number of sources and evidence, times of knowledge and cutoffs
    Kinds, Records,    \* kinds of records, how many of each kind there may be
    Tests, PValues,    \* the number of tests, p-values
    Levels,            \* significance levels
    Pipes, Capacities, \* edges of networks from Source to Sink, their capacities
    Source, Sink, Junctions

ASSUME InputsAssumption == Starts \subseteq Nat /\ Ends \subseteq Nat /\ NamesListed \subseteq Names

(* There is a name no scope lists, a precision besides each, a time within *)
(* each interval and times beyond its bounds: enough to tell scopes apart. *)
ASSUME SituationsAssumption ==
    /\ Names \ NamesListed # {}
    /\ Precisions \ {Star} # {}
    /\ \A p \in Precisions \ {Star} : Precisions \ {Star, p} # {}
    /\ {0} \cup Starts \cup Ends \subseteq Moments /\ Moments \subseteq Nat
    /\ \E m \in Moments : \A b \in Starts \cup Ends : b < m

(* Records are numbered from 1: what is no reference is no record. *)
ASSUME ReferencesAssumption == NoRef \notin Nat \ {0}

ASSUME InstantsAssumption == Instants \subseteq Nat

ASSUME NodesAssumption ==
    /\ IsFiniteSet(Nodes) /\ Nodes \subseteq Nat
    /\ \E m, n \in Nodes : m # n

ASSUME RefsAssumption == Refs \in Nat /\ IsFiniteSet(Tokens)

ASSUME TestsAssumption ==
    /\ Tests \in Nat /\ Unit \in Nat
    /\ PValues \subseteq 0..Unit /\ Levels \subseteq 0..Unit

ASSUME NetworkAssumption ==
    /\ IsFiniteSet(Junctions) /\ Junctions \subseteq Nat
    /\ {Source, Sink} \subseteq Junctions /\ Source # Sink
    /\ Pipes \subseteq Junctions \X Junctions /\ Capacities \subseteq Nat
    /\ \A e \in Pipes : <<e[2], e[1]>> \notin Pipes

VARIABLES input, answer
vars == <<input, answer>>

Unasked == [to |-> "nothing"]
Name == [n \in Nodes |-> n]

---------------------------------------------------------------------------
(* Graphs.  The first node may name prerequisites that are not nodes.      *)

Graphs ==
    {[inside EXCEPT ![Min(Nodes)] = @ \cup unknown] :
       inside \in [Nodes -> SUBSET Nodes], unknown \in SUBSET Outside}

AskOrder ==
    /\ input.kind = "graph" /\ answer = Unasked
    /\ answer' = [to |-> "order", is |-> TopologicalOrder(input.parents, Name)]
    /\ UNCHANGED input

(* A causal graph is ordered successfully (G8) before it is searched. *)
AskReachable ==
    /\ answer.to = "order" /\ answer.is.error = "none"
    /\ \E start, end \in Nodes, blocked \in {{}} \cup {{n} : n \in Nodes} :
         answer' = [to |-> "search", start |-> start, end |-> end, blocked |-> blocked,
                    is |-> Reachable(input.parents, Name, start, end, blocked)]
    /\ UNCHANGED input

(* Documentary relations are a graph of any shape. *)
AskPath ==
    /\ input.kind = "graph" /\ answer = Unasked
    /\ \A n \in Nodes : input.parents[n] \subseteq Nodes
    /\ answer' = [to |-> "path", is |->
         [hops \in 1..Cardinality(Nodes) |->
            DocumentaryPath(input.parents, Min(Nodes), Max(Nodes), hops)]]
    /\ UNCHANGED input

---------------------------------------------------------------------------
(* Scopes and intervals as they may be registered.                         *)

Windows == {i \in [start : Starts, end : Ends] : Ordered(i)}

Scopes ==
    {s \in [sets : [SetFields -> ((SUBSET NamesListed) \ {{}}) \cup {{Star}}], precision : Precisions,
            assumptions : SUBSET Assumptions, start : Starts, end : Ends] : WellFormed(s)}

Situations ==
    [values : [SetFields -> Names], precision : Precisions \ {Star},
     holding : SUBSET Assumptions, time : Moments]

(* A claim that depends on this one must lie within its scope. *)
AskNarrower ==
    /\ input.kind = "scopes"
    /\ \E s \in {s \in Scopes : Within(s, input.claim)} : input' = [input EXCEPT !.claim = s]
    /\ UNCHANGED answer

---------------------------------------------------------------------------
(* Lineages: any tokens, in any order.                                     *)

Lists == UNION {{l \in [1..k -> Tokens] : IsInjective(l)} : k \in 0..Cardinality(Tokens)}

AskClusters ==
    /\ input.kind = "lineages" /\ answer = Unasked
    /\ answer' = [to |-> "clusters", is |-> Clusters(input.lineages)]
    /\ UNCHANGED input

---------------------------------------------------------------------------
(* Sources and evidence, numbered in the order they are registered in.     *)
(* Events have a time of knowledge but no lineage.                         *)

EnterItem ==
    /\ input.kind = "items" /\ Len(input.store) < Items
    /\ \E kind \in Lineal \cup {"EventSpec"}, known \in Instants,
          parents \in SUBSET DOMAIN input.store, source \in DOMAIN input.store \cup {0} :
         /\ (kind = "EvidenceItem") = (source # 0)
         /\ kind = "EventSpec" => parents = {}
         /\ LET item == [kind |-> kind, parents |-> parents, source |-> source, known_at |-> known]
            IN  Admissible(input.store, item) /\ input' = [kind |-> "items", store |-> Append(input.store, item)]
    /\ UNCHANGED answer

---------------------------------------------------------------------------
(* Records, in the order they are registered in; the last is a protocol.   *)

OfKind(kind) == {r \in DOMAIN input.store : input.store[r].kind = kind}

AtMostOne(refs) == {{}} \cup {{r} : r \in refs}

MCKinds == {"EvidenceItem", "ClaimSpec", "EvidenceLink", "ReviewRecord",
            "ResolutionSpec", "RunRecord", "ClosureSpec", "ProtocolSpec"}
MCRecords == [k \in MCKinds |-> IF k = "ClaimSpec" THEN 2 ELSE 1]

FirstRecords == <<[kind |-> "EvidenceItem", one |-> NoRef, refs |-> {}, routes |-> <<>>],
                  [kind |-> "ClaimSpec", one |-> NoRef, refs |-> {}, routes |-> <<>>]>>

(* What a record of a kind may refer to: one, refs, routes. *)
OneOf(kind) ==
    CASE kind \in {"EvidenceLink", "RunRecord", "ProtocolSpec"} -> OfKind("ClaimSpec")
      [] kind = "ResolutionSpec" -> OfKind("EvidenceLink")
      [] kind = "ReviewRecord" -> OfKind("EvidenceLink") \cup OfKind("RunRecord")
      [] OTHER -> {NoRef}

RefsOf(kind) ==
    CASE kind = "EvidenceLink" -> {{r} : r \in OfKind("EvidenceItem")}
      [] kind = "ResolutionSpec" -> {{r} : r \in OfKind("ReviewRecord")}
      [] kind = "ClosureSpec" -> {{r} : r \in OfKind("RunRecord")}
      [] kind = "ClaimSpec" -> AtMostOne(OfKind("ClaimSpec") \cup OfKind("ClosureSpec"))
      [] OTHER -> {{}}

RoutesOf(kind) ==
    IF kind = "ClaimSpec" THEN {<<>>} \cup {<<{}, {r}>> : r \in OfKind("EvidenceItem")} ELSE {<<>>}

EnterRecord ==
    /\ input.kind = "records" /\ OfKind("ProtocolSpec") = {}
    /\ \E kind \in Kinds :
         /\ Cardinality(OfKind(kind)) < Records[kind]
         /\ \E one \in OneOf(kind), refs \in RefsOf(kind), routes \in RoutesOf(kind) :
              input' = [kind  |-> "records",
                        store |-> Append(input.store,
                          [kind |-> kind, one |-> one, refs |-> refs, routes |-> routes])]
    /\ UNCHANGED answer

(* The packet of the protocol; one entry may have been lost.               *)
AskReplay ==
    /\ input.kind = "records" /\ OfKind("ProtocolSpec") # {} /\ answer = Unasked
    /\ LET entries == Frozen(input.store, Len(input.store))
       IN  \E lost \in AtMostOne(entries) :
             answer' = [to |-> "replay", whole |-> entries, entries |-> entries \ lost, done |-> {}]
    /\ UNCHANGED input

ReplayEntry ==
    /\ answer.to = "replay"
    /\ \E r \in Registrable(input.store, answer.entries, answer.done) :
         answer' = [answer EXCEPT !.done = @ \cup {r}]
    /\ UNCHANGED input

---------------------------------------------------------------------------
(* Falsification tests, statistical and others, in any order.              *)

AskTests ==
    /\ input.kind = "tests" /\ answer = Unasked
    /\ \E method \in Policies, alpha \in Levels :
         /\ Adjustable(Statistical(input.tests), method)
         /\ answer' = [to |-> "tests", method |-> method, alpha |-> alpha,
                       is |-> ExecuteTests(input.tests, method, alpha)]
    /\ UNCHANGED input

---------------------------------------------------------------------------
MCPipes == {<<1, 2>>, <<1, 5>>, <<2, 3>>, <<2, 4>>, <<5, 3>>, <<3, 6>>, <<4, 6>>}

AskFlow ==
    /\ input.kind = "network" /\ answer = Unasked
    /\ answer' = [to |-> "flow", is |-> MaxFlow(input.capacity, Junctions, Source, Sink)]
    /\ UNCHANGED input

---------------------------------------------------------------------------
Init ==
    /\ \/ \E g \in Graphs : input = [kind |-> "graph", parents |-> g]
       \/ \E e, c \in Scopes, w \in Windows :
            input = [kind |-> "scopes", evidence |-> e, window |-> w, claim |-> c]
       \/ \E l \in [1..Refs -> Lists] : input = [kind |-> "lineages", lineages |-> l]
       \/ input = [kind |-> "items", store |-> <<>>]
       \/ input = [kind |-> "records", store |-> FirstRecords]
       \/ \E t \in [1..Tests -> {ZTest(p) : p \in PValues} \cup {Decided(b) : b \in BOOLEAN}] :
            input = [kind |-> "tests", tests |-> t]
       \/ \E c \in [Pipes -> Capacities] : input = [kind |-> "network", capacity |-> c]
    /\ answer = Unasked

Next ==
    \/ AskOrder \/ AskReachable \/ AskPath \/ AskNarrower \/ AskClusters
    \/ EnterItem \/ EnterRecord \/ AskReplay \/ ReplayEntry \/ AskTests \/ AskFlow

Spec == Init /\ [][Next]_vars

---------------------------------------------------------------------------
(* The order topological_order returns is a topological order of the whole *)
(* graph, and it reports a cycle or a dangling prerequisite exactly when    *)
(* the graph has one: no gate or claim is lost from a legal graph and no   *)
(* circular certification gets through.                                    *)
OrderIsCorrect ==
    answer.to = "order" =>
      CASE answer.is = Dangling -> \E n \in Nodes : input.parents[n] \cap Outside # {}
        [] answer.is = Circular -> \E n \in Nodes : OnACycle(input.parents, n)
        [] OTHER -> IsTopological(input.parents, answer.is.order)

(* reachable answers TRUE exactly when a path avoids the blocked nodes: G8  *)
(* relies on it both ways, for a required path and for a forbidden one.     *)
(* And a documentary path is reported exactly when the end is near enough,  *)
(* although nodes are marked before they are visited and the search is cut  *)
(* off by length; it is a shortest one.                                     *)
SearchIsCorrect ==
    /\ answer.to = "search" =>
         (answer.is <=> PathAvoids(input.parents, answer.start, answer.end, answer.blocked))
    /\ answer.to = "path" =>
         \A hops \in DOMAIN answer.is :
           LET near == {k \in 1..hops : Max(Nodes) \in ReachedBy(input.parents, Min(Nodes), k)}
           IN  answer.is[hops] = IF near = {} THEN 0 ELSE Min(near)

(* within and evidence_within accept exactly the scopes that speak of      *)
(* nothing outside the evidence's scope and valid time: neither an open    *)
(* interval nor a wildcard slips through, and no admissible scope is lost.  *)
WithinIsContainment ==
    input.kind = "scopes" =>
      /\ Within(input.claim, input.evidence) <=>
           \A x \in Situations : Covers(input.claim, x) => Covers(input.evidence, x)
      /\ EvidenceWithin(input.claim, input.evidence, input.window) <=>
           \A x \in Situations :
             Covers(input.claim, x) => Covers(input.evidence, x) /\ During(input.window, x.time)

(* A claim is compared with its direct dependencies and the evidence only: *)
(* along a chain of dependencies, support by evidence is never lost.       *)
SupportIsInherited ==
    [][input.kind = "scopes" /\ EvidenceWithin(input.claim, input.evidence, input.window) =>
         EvidenceWithin(input'.claim, input.evidence, input.window)]_vars

(* "Source echo": whatever the order of the tokens, evidence is counted as *)
(* one exactly if a chain of shared tokens connects it, so that copies of  *)
(* one source never pass for independent corroboration, nor independent    *)
(* evidence for copies.                                                    *)
ClustersAreComponents ==
    answer.to = "clusters" =>
      answer.is = {Component(input.lineages, r) : r \in 1..Refs}

(* Registration compares an item with its direct parents; that is enough   *)
(* for the whole lineage: it has no cycle and nothing in it became known   *)
(* later than the item, so that a run's cutoff admits an item of intact    *)
(* lineage exactly by its own time.  Only a parent that is neither source  *)
(* nor evidence, which registration admits, is refused by every run.       *)
LineageIsSound ==
    input.kind = "items" /\ input.store # <<>> =>
      LET store   == input.store
          item    == Len(store)
          parents == [r \in DOMAIN store |-> ParentsOf(store[r])]
          above   == {r \in DOMAIN store : item \in ClosureOf(parents, {r})}
          foreign == \E r \in above : store[r].kind \notin Lineal
      IN  /\ Ancestors(store, item).error <=> foreign
          /\ ~ foreign => Ancestors(store, item).found = above
          /\ \A cutoff \in Instants, broken \in AtMostOne(DOMAIN store) :
               Verified(store, broken, item, cutoff) <=>
                 ~ foreign /\ store[item].known_at <= cutoff /\ broken \cap above = {}

(* What a protocol freezes can be replayed, in whatever order its entries  *)
(* are in, the packet holds every link of each claim in it and every       *)
(* resolution of each, and a store replayed from it freezes the same.  A   *)
(* packet that lost an entry some other needs is refused, and no other.    *)
SnapshotReplays ==
    answer.to = "replay" =>
      LET store  == input.store
          Closed == \A r \in answer.entries : Checked(store[r]) \subseteq answer.entries
          replayed == [r \in answer.done |-> store[r]]
      IN  /\ Stuck(store, answer.entries, answer.done) => ~ Closed
          /\ answer.done = answer.entries => Closed
          /\ \A r \in DOMAIN store :
               /\ store[r].kind = "EvidenceLink" /\ store[r].one \in answer.whole => r \in answer.whole
               /\ store[r].kind = "ResolutionSpec" /\ store[r].one \in answer.whole => r \in answer.whole
          /\ answer.done = answer.whole => Frozen(replayed, Len(store)) = answer.whole

(* Which negative controls are rejected depends on the p-values alone: not *)
(* on the order of the tests, ties among them or other tests in between,   *)
(* whose own verdicts the correction leaves as they were.                  *)
AdjustmentIsCorrect ==
    answer.to = "tests" =>
      \A i \in DOMAIN input.tests :
        answer.is[i] = IF i \in Family(input.tests)
                       THEN ~ Rejects(input.tests, i, answer.method, answer.alpha)
                       ELSE input.tests[i].accepted

(* The flow reported respects the capacities, is conserved at every        *)
(* junction and is a maximum one, by the capacity of the least cut.        *)
FlowIsMaximal ==
    answer.to = "flow" =>
      LET flow == answer.is.flow
      IN  /\ \A e \in Pipes : flow[e] \in 0..input.capacity[e]
          /\ \A n \in Junctions \ {Source, Sink} :
               SumFunctionOnSet(flow, {e \in Pipes : e[1] = n}) = SumFunctionOnSet(flow, {e \in Pipes : e[2] = n})
          /\ answer.is.total = MinCut(input.capacity, Junctions, Source, Sink)
=============================================================================
