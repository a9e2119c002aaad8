------------------------------ MODULE Networks ------------------------------
(***************************************************************************)
(* The two adapters that search a graph of their data: the maximum flow    *)
(* of adapters/supply.py and the documentary path of adapters/integrity.py. *)
(* Nodes are numbered by the order of their names, capacities are natural  *)
(* numbers (floating-point units and their tolerances are left out).       *)
(* The neighbours of a documentary node come in the order of their edges'   *)
(* ids, of which the length of the path found does not depend.             *)
(***************************************************************************)
EXTENDS Sequences, Ordering

(* What has a node of a search tree as its parent. *)
Adopted(parent, nodes, a) == [b \in DOMAIN parent \cup nodes |-> IF b \in nodes THEN a ELSE parent[b]]

(* One turn of the breadth-first search for a path with room: residual is a *)
(* function on pairs of nodes.  The source is its own parent.              *)
Expand(residual, nodes, s) ==
    LET a   == Head(s.queue)
        new == {b \in nodes : residual[<<a, b>>] > 0 /\ b \notin DOMAIN s.parent}
    IN  [parent |-> Adopted(s.parent, new, a), queue |-> Tail(s.queue) \o Ascending(new)]

SearchTree(residual, nodes, source, sink) ==
    LET turn[k \in 0..Cardinality(nodes)] ==
          IF k = 0 THEN [parent |-> [n \in {source} |-> source], queue |-> <<source>>]
          ELSE LET s == turn[k - 1]
               IN  IF s.queue = <<>> \/ sink \in DOMAIN s.parent THEN s ELSE Expand(residual, nodes, s)
    IN  turn[Cardinality(nodes)].parent

(* The edges of the path from the source to the sink. *)
PathOf(parent, sink) ==
    LET back[k \in 0..Cardinality(DOMAIN parent)] ==
          IF k = 0 THEN sink ELSE parent[back[k - 1]]
    IN  {<<back[k], back[k - 1]>> : k \in 1..Cardinality(DOMAIN parent)} \cap
        {e \in (DOMAIN parent) \X (DOMAIN parent) : e[1] # e[2]}

LeastOf(values) == CHOOSE v \in values : \A w \in values : v <= w

(* A plausible fault: the way back is not opened. *)
AugmentForward(s, path) ==
    LET increment == LeastOf({s.residual[e] : e \in path})
    IN  [residual |-> [e \in DOMAIN s.residual |->
                         IF e \in path THEN s.residual[e] - increment ELSE s.residual[e]],
         total    |-> s.total + increment]

(* The path takes as much as its narrowest edge, which opens the way back. *)
Augment(s, path) ==
    LET increment == LeastOf({s.residual[e] : e \in path})
    IN  [residual |-> [e \in DOMAIN s.residual |->
                         CASE e \in path -> s.residual[e] - increment
                           [] <<e[2], e[1]>> \in path -> s.residual[e] + increment
                           [] OTHER -> s.residual[e]],
         total    |-> s.total + increment]

(* max_flow, for a function from edges to capacities without a pair of     *)
(* antiparallel edges: the flow on each edge, and the total.  Each turn    *)
(* adds at least 1.                                                        *)
MaxFlow(capacity, nodes, source, sink) ==
    LET start  == [residual |-> [e \in nodes \X nodes |-> IF e \in DOMAIN capacity THEN capacity[e] ELSE 0],
                   total    |-> 0]
        bound  == SumFunction(capacity)
        turn[k \in 0..bound] ==
          IF k = 0 THEN start
          ELSE LET s    == turn[k - 1]
                   tree == SearchTree(s.residual, nodes, source, sink)
               IN  IF sink \notin DOMAIN tree THEN s ELSE Augment(s, PathOf(tree, sink))
        end    == turn[bound]
    IN  [total |-> end.total, flow |-> [e \in DOMAIN capacity |-> capacity[e] - end.residual[e]]]

(* One turn of the search for a documentary path: a node is marked when it *)
(* is queued, and expanded only while the path is short enough.            *)
Follow(successors, end, hops, s) ==
    LET a   == Head(s.queue)
        new == IF s.length[a] < hops THEN successors[a] \ DOMAIN s.length ELSE {}
    IN  IF a = end THEN [s EXCEPT !.queue = <<>>, !.found = TRUE]
        ELSE [length |-> [b \in DOMAIN s.length \cup new |->
                            IF b \in new THEN s.length[a] + 1 ELSE s.length[b]],
              queue  |-> Tail(s.queue) \o Ascending(new),
              found  |-> FALSE]

(* The length of the path reported, 0 if there is none (start # end).      *)
DocumentaryPath(successors, start, end, hops) ==
    LET bound == Cardinality(DOMAIN successors)
        turn[k \in 0..bound] ==
          IF k = 0 THEN [length |-> [n \in {start} |-> 0], queue |-> <<start>>, found |-> FALSE]
          ELSE LET s == turn[k - 1]
               IN  IF s.queue = <<>> THEN s ELSE Follow(successors, end, hops, s)
        last  == turn[bound]
    IN  IF last.found THEN last.length[end] ELSE 0

(***************************************************************************)
(* Reference definitions.                                                  *)
(***************************************************************************)
(* The capacity of what leaves a set of nodes. *)
CutCapacity(capacity, side) ==
    SumFunctionOnSet(capacity, {e \in DOMAIN capacity : e[1] \in side /\ e[2] \notin side})

MinCut(capacity, nodes, source, sink) ==
    LeastOf({CutCapacity(capacity, side \cup {source}) : side \in SUBSET (nodes \ {source, sink})})

(* What can be reached by that many steps or fewer. *)
ReachedBy(successors, start, steps) ==
    LET reached[k \in 0..steps] ==
          IF k = 0 THEN {start}
          ELSE reached[k - 1] \cup UNION {successors[n] : n \in reached[k - 1]}
    IN  reached[steps]
=============================================================================
