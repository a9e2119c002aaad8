------------------------------- MODULE Graph -------------------------------
(***************************************************************************)
(* The directed-graph algorithms of fcea/graphs/graph.py.  A graph is a    *)
(* function from each node to the set of its prerequisites (its parents),  *)
(* as in the code's dictionaries.  The code visits nodes in the order of   *)
(* their names; Name maps a node to its position in that order.            *)
(***************************************************************************)
EXTENDS Sequences, SequencesExt, Ordering

(* What topological_order answers: an order, or one of its two errors.     *)
Listed(nodes) == [error |-> "none", order |-> nodes]
Dangling == [error |-> "dangling prerequisite", order |-> <<>>]
Circular == [error |-> "circular certification", order |-> <<>>]

ChildrenOf(parents, node) == {n \in DOMAIN parents : node \in parents[n]}

(* A plausible fault: a child is queued as soon as one prerequisite is listed. *)
KahnStepEager(parents, Name, s) ==
    LET node  == Head(s.queue)
        ready == {n \in ChildrenOf(parents, node) :
                    n \notin ToSet(s.queue) \cup ToSet(s.result)}
    IN  [queue  |-> Tail(s.queue) \o SortedBy(ready, Name),
         degree |-> s.degree,
         result |-> Append(s.result, node)]

(* One turn of the loop of topological_order (Kahn): the head of the queue *)
(* is listed, each of its children loses one prerequisite, and those left  *)
(* without any are queued in the order of their names.                     *)
KahnStep(parents, Name, s) ==
    LET node  == Head(s.queue)
        kids  == ChildrenOf(parents, node)
        ready == {n \in kids : s.degree[n] = 1}
    IN  [queue  |-> Tail(s.queue) \o SortedBy(ready, Name),
         degree |-> [n \in DOMAIN parents |->
                       IF n \in kids THEN s.degree[n] - 1 ELSE s.degree[n]],
         result |-> Append(s.result, node)]

TopologicalOrder(parents, Name) ==
    LET nodes == DOMAIN parents
        start == [queue  |-> SortedBy({n \in nodes : parents[n] = {}}, Name),
                  degree |-> [n \in nodes |-> Cardinality(parents[n])],
                  result |-> <<>>]
        turn[k \in 0..Cardinality(nodes)] ==
          IF k = 0 THEN start
          ELSE LET s == turn[k - 1]
               IN  IF s.queue = <<>> THEN s ELSE KahnStep(parents, Name, s)
        listed == turn[Cardinality(nodes)].result
    IN  IF \E n \in nodes : ~ parents[n] \subseteq nodes THEN Dangling
        ELSE IF Len(listed) # Cardinality(nodes) THEN Circular
        ELSE Listed(listed)

(* A plausible fault: the end is recognised before the blocked set is consulted. *)
SearchStepUnblocked(parents, Name, end, s) ==
    LET node == Head(s.queue)
        next == ChildrenOf(parents, node)
    IN  IF node = end \/ end \in next
        THEN [s EXCEPT !.found = TRUE, !.queue = <<>>]
        ELSE IF node \in s.visited THEN [s EXCEPT !.queue = Tail(@)]
        ELSE [visited |-> s.visited \cup {node},
              queue   |-> Tail(s.queue) \o SortedBy(next \ s.visited, Name),
              found   |-> FALSE]

(* One turn of the loop of reachable: a node already visited is dropped,   *)
(* the end node stops the search, any other node is expanded.              *)
SearchStep(parents, Name, end, s) ==
    LET node == Head(s.queue)
        next == ChildrenOf(parents, node) \ (s.visited \cup {node})
    IN  IF node \in s.visited THEN [s EXCEPT !.queue = Tail(@)]
        ELSE IF node = end THEN [s EXCEPT !.found = TRUE, !.queue = <<>>]
        ELSE [visited |-> s.visited \cup {node},
              queue   |-> Tail(s.queue) \o SortedBy(next, Name),
              found   |-> FALSE]

Reachable(parents, Name, start, end, blocked) ==
    LET edges == Cardinality({e \in (DOMAIN parents) \X (DOMAIN parents) : e[1] \in parents[e[2]]})
        turn[k \in 0..(edges + 1)] ==
          IF k = 0 THEN [visited |-> blocked, queue |-> <<start>>, found |-> FALSE]
          ELSE LET s == turn[k - 1]
               IN  IF s.queue = <<>> THEN s ELSE SearchStep(parents, Name, end, s)
    IN  turn[edges + 1].found

(***************************************************************************)
(* Reference definitions, independent of the algorithms above.             *)
(***************************************************************************)
(* The least set that holds the roots and is closed under one step to a child. *)
ClosureOf(parents, roots) ==
    LET grown[k \in 0..Cardinality(DOMAIN parents)] ==
          IF k = 0 THEN roots
          ELSE grown[k - 1] \cup {n \in DOMAIN parents : parents[n] \cap grown[k - 1] # {}}
    IN  grown[Cardinality(DOMAIN parents)]

OnACycle(parents, node) ==
    node \in ClosureOf(parents, ChildrenOf(parents, node))

(* An order lists every node once, each after all of its prerequisites.    *)
IsTopological(parents, order) ==
    /\ Len(order) = Cardinality(DOMAIN parents)
    /\ ToSet(order) = DOMAIN parents
    /\ \A i \in DOMAIN order : parents[order[i]] \subseteq ToSet(SubSeq(order, 1, i - 1))

(* A path from start to end none of whose nodes, ends included, is blocked. *)
PathAvoids(parents, start, end, blocked) ==
    LET open == DOMAIN parents \ blocked
    IN  /\ {start, end} \subseteq open
        /\ end \in ClosureOf([n \in open |-> parents[n] \cap open], {start})
=============================================================================
