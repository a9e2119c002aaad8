---------------------------- MODULE Independence ----------------------------
(***************************************************************************)
(* clusters of graphs/independence.py: pieces of evidence that share an    *)
(* ancestor, raw bytes or a dependency key count as one for G4.  The       *)
(* components are found with a union-find forest.  Pieces of evidence are  *)
(* numbered by the order of their ids; each comes with the tokens of its   *)
(* lineage, a sequence, since a Python set yields them in some order.      *)
(***************************************************************************)
EXTENDS Integers, SequencesExt

(* The root of x, and the forest after the path to it is halved.           *)
RootOf(forest, x) ==
    LET climb[k \in 0..Cardinality(DOMAIN forest)] ==
          IF k = 0 THEN [at |-> x, forest |-> forest]
          ELSE LET c == climb[k - 1]
                   up == c.forest[c.forest[c.at]]
               IN  IF c.forest[c.at] = c.at THEN c
                   ELSE [at |-> up, forest |-> [c.forest EXCEPT ![c.at] = up]]
    IN  climb[Cardinality(DOMAIN forest)]

(* A plausible fault: the two pieces of evidence are joined, not their roots. *)
JoinLeaves(forest, x, y) ==
    LET low  == IF x < y THEN x ELSE y
        high == IF x < y THEN y ELSE x
    IN  [forest EXCEPT ![high] = low]

(* The greater of the two roots gets the smaller one as its parent.        *)
Join(forest, x, y) ==
    LET first  == RootOf(forest, x)
        second == RootOf(first.forest, y)
        low    == IF first.at < second.at THEN first.at ELSE second.at
        high   == IF first.at < second.at THEN second.at ELSE first.at
    IN  [second.forest EXCEPT ![high] = low]

(* The first piece of evidence with a token leaves its fingerprint; every  *)
(* later one is joined with it.                                            *)
Look(s, ref, token) ==
    IF token \in DOMAIN s.fingerprints
    THEN [s EXCEPT !.forest = Join(s.forest, ref, s.fingerprints[token])]
    ELSE [s EXCEPT !.fingerprints = [t \in DOMAIN @ \cup {token} |-> IF t = token THEN ref ELSE @[t]]]

LookAtAll(s, ref, tokens) == FoldLeft(LAMBDA t, token : Look(t, ref, token), s, tokens)

Clusters(lineages) ==
    LET refs   == [r \in DOMAIN lineages |-> r]
        start  == [forest |-> refs, fingerprints |-> <<>>]
        end    == FoldLeft(LAMBDA s, r : LookAtAll(s, r, lineages[r]), start, refs)
        root   == [r \in DOMAIN lineages |-> RootOf(end.forest, r).at]
    IN  {{s \in DOMAIN lineages : root[s] = root[r]} : r \in DOMAIN lineages}

(***************************************************************************)
(* Reference definition: what a chain of shared tokens connects.           *)
(***************************************************************************)
Component(lineages, r) ==
    LET near(x) == {s \in DOMAIN lineages : ToSet(lineages[s]) \cap ToSet(lineages[x]) # {}}
        grown[k \in 0..Len(lineages)] ==
          IF k = 0 THEN {r} ELSE grown[k - 1] \cup UNION {near(x) : x \in grown[k - 1]}
    IN  grown[Len(lineages)]
=============================================================================
