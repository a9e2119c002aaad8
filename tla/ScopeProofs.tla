---------------------------- MODULE ScopeProofs ----------------------------
(***************************************************************************)
(* Proofs about Scope for every choice of names, assumptions, precisions   *)
(* and times, and the principle of the least natural for the modules that  *)
(* extend this one.                                                        *)
(***************************************************************************)
EXTENDS Scope, TLAPS, WellFoundedInduction

(* A nonempty set of naturals has a least element: this is the induction   *)
(* that the proofs about chains, records and graphs use.                   *)
LEMMA LeastNatural ==
  ASSUME NEW S \in SUBSET Nat, S # {}
  PROVE  \E n \in S : \A m \in S : n <= m
<1> DEFINE R == OpToRel(<, Nat)
<1>1. IsWellFoundedOn(R, Nat)
  BY NatLessThanWellFounded
<1> HIDE DEF R
<1>2. PICK n \in S : \A m \in S : ~ (<<m, n>> \in R)
  BY <1>1, WFMin
<1>3. \A m \in S : ~ (m < n)
  BY <1>2 DEF R, OpToRel
<1> QED
  BY <1>3

(* A set that lies within another lists nothing the other does not cover. *)
LEMMA SetWithinSound ==
  ASSUME NEW inner, NEW outer, NEW v, v # Star, SetWithin(inner, outer),
         inner = {Star} \/ v \in inner
  PROVE  outer = {Star} \/ v \in outer
BY DEF SetWithin

(* Containment of named sets passes along a chain. *)
LEMMA SetWithinTransitive ==
  ASSUME NEW a, NEW b, NEW c, SetWithin(a, b), SetWithin(b, c)
  PROVE  SetWithin(a, c)
BY DEF SetWithin

(* Containment of intervals passes along a chain. *)
LEMMA IntervalTransitive ==
  ASSUME NEW a, NEW b, NEW c,
         a.start \in Nat, b.start \in Nat, c.start \in Nat,
         a.end \in Nat, b.end \in Nat, c.end \in Nat,
         IntervalWithin(a, b), IntervalWithin(b, c)
  PROVE  IntervalWithin(a, c)
BY DEF IntervalWithin, NoTime

(* A scope that within() accepts speaks of nothing outside the outer one.  *)
THEOREM WithinSound ==
  ASSUME NEW inner \in ScopeSpec, NEW outer \in ScopeSpec, Within(inner, outer),
         NEW x \in Situation, Covers(inner, x)
  PROVE  Covers(outer, x)
<1>1. ASSUME NEW f \in SetFields PROVE outer.sets[f] = {Star} \/ x.values[f] \in outer.sets[f]
  <2>1. x.values[f] # Star
    BY StarAssumption DEF Situation
  <2>2. SetWithin(inner.sets[f], outer.sets[f]) /\ (inner.sets[f] = {Star} \/ x.values[f] \in inner.sets[f])
    BY DEF Within, Covers
  <2> QED
    BY <2>1, <2>2, SetWithinSound
<1>2. outer.assumptions \subseteq x.holding
  BY DEF Within, Covers
<1>3. outer.precision = Star \/ outer.precision = x.precision
  BY DEF Within, Covers, Situation
<1>4. inner.start \in Nat /\ inner.end \in Nat /\ outer.start \in Nat /\ outer.end \in Nat /\ x.time \in Nat
  BY DEF ScopeSpec, Situation
<1>5. During(outer, x.time)
  BY <1>4 DEF Within, Covers, IntervalWithin, During, NoTime
<1> QED
  BY <1>1, <1>2, <1>3, <1>5 DEF Covers

(* Chains of scopes collapse: comparing neighbours is enough.              *)
THEOREM WithinTransitive ==
  ASSUME NEW a \in ScopeSpec, NEW b \in ScopeSpec, NEW c \in ScopeSpec, Within(a, b), Within(b, c)
  PROVE  Within(a, c)
<1>1. \A f \in SetFields : SetWithin(a.sets[f], c.sets[f])
  BY SetWithinTransitive DEF Within
<1>2. c.assumptions \subseteq a.assumptions
  BY DEF Within
<1>3. a.precision = c.precision \/ c.precision = Star
  BY DEF Within
<1>4. IntervalWithin(a, c)
  BY IntervalTransitive DEF Within, ScopeSpec
<1> QED
  BY <1>1, <1>2, <1>3, <1>4 DEF Within

(* Every scope that validate admits lies within itself: a claim may have   *)
(* exactly the scope of its model, its evidence or its dependencies.       *)
THEOREM WithinReflexive ==
  ASSUME NEW s \in ScopeSpec, WellFormed(s)
  PROVE  Within(s, s)
<1>1. ASSUME NEW f \in SetFields PROVE SetWithin(s.sets[f], s.sets[f])
  BY DEF WellFormed, SetWithin
<1>2. IntervalWithin(s, s)
  BY DEF IntervalWithin, ScopeSpec
<1> QED
  BY <1>1, <1>2 DEF Within

(* A claim within the scope of a claim supported by evidence lies within   *)
(* the evidence's scope and valid time.                                    *)
THEOREM EvidenceInherited ==
  ASSUME NEW a \in ScopeSpec, NEW b \in ScopeSpec, NEW c \in ScopeSpec, NEW w \in Window,
         Within(a, b), EvidenceWithin(b, c, w)
  PROVE  EvidenceWithin(a, c, w)
<1>1. Within(a, c)
  BY WithinTransitive DEF EvidenceWithin
<1>2. IntervalWithin(a, w)
  BY IntervalTransitive DEF EvidenceWithin, Within, ScopeSpec, Window
<1> QED
  BY <1>1, <1>2 DEF EvidenceWithin

(* The strength of a route is the greatest that no dependency falls short of. *)
THEOREM MeetIsGreatestLowerBound ==
  ASSUME NEW vectors \in SUBSET Vector, vectors # {}
  PROVE  /\ StrengthMeet(vectors) \in Vector
         /\ \A v \in vectors : AtLeast(v, StrengthMeet(vectors))
         /\ \A w \in Vector : (\A v \in vectors : AtLeast(v, w)) => AtLeast(StrengthMeet(vectors), w)
BY DEF StrengthMeet, Vector, AtLeast
=============================================================================
