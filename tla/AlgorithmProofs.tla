-------------------------- MODULE AlgorithmProofs --------------------------
(***************************************************************************)
(* Proofs about the pure algorithms as MCAlgorithms asks them, for every   *)
(* choice of its inputs.                                                   *)
(***************************************************************************)
EXTENDS MCAlgorithms, ScopeProofs, FiniteSetTheorems

(* The small scopes and windows of the checked instance are scopes and windows. *)
LEMMA ScopesAreScopes == Scopes \subseteq ScopeSpec /\ Windows \subseteq Window
<1>1. ASSUME NEW s \in Scopes PROVE s \in ScopeSpec
  <2>1. s \in [sets : [SetFields -> ((SUBSET NamesListed) \ {{}}) \cup {{Star}}], precision : Precisions,
               assumptions : SUBSET Assumptions, start : Starts, end : Ends]
    BY DEF Scopes
  <2>2. ((SUBSET NamesListed) \ {{}}) \cup {{Star}} \subseteq SUBSET (Names \cup {Star})
    BY InputsAssumption
  <2>3. s.sets \in [SetFields -> SUBSET (Names \cup {Star})]
    BY <2>1, <2>2
  <2> QED
    BY <2>1, <2>3, InputsAssumption DEF ScopeSpec
<1>2. Windows \subseteq Window
  BY InputsAssumption DEF Windows, Window
<1> QED
  BY <1>1, <1>2

ScopesInput == [kind : {"scopes"}, evidence : Scopes, window : Windows, claim : Scopes]

(* Only claims are ever narrowed, and to scopes within their own.          *)
LEMMA OnlyNarrowed ==
  ASSUME [Next]_vars
  PROVE  \/ input' = input
         \/ input.kind # "scopes" /\ input'.kind # "scopes"
         \/ input.kind = "scopes" /\
              \E s \in Scopes : Within(s, input.claim) /\ input' = [input EXCEPT !.claim = s]
<1>1. CASE EnterItem
  BY <1>1 DEF EnterItem
<1>2. CASE EnterRecord
  BY <1>2 DEF EnterRecord
<1> QED
  BY <1>1, <1>2 DEF Next, AskOrder, AskReachable, AskPath, AskNarrower, AskClusters,
       AskReplay, ReplayEntry, AskTests, AskFlow, vars

(* What is asked about scopes is asked about scopes. *)
ScopesTyped == input.kind = "scopes" => input \in ScopesInput

LEMMA ScopesStart == Init => ScopesTyped
BY DEF Init, ScopesTyped, ScopesInput

LEMMA ScopesStay ==
  ASSUME ScopesTyped, [Next]_vars
  PROVE  ScopesTyped'
<1>1. CASE input' = input
  BY <1>1 DEF ScopesTyped
<1>2. ASSUME NEW s \in Scopes, input.kind = "scopes", input' = [input EXCEPT !.claim = s] PROVE ScopesTyped'
  BY <1>2 DEF ScopesTyped, ScopesInput
<1>3. CASE input'.kind # "scopes"
  BY <1>3 DEF ScopesTyped
<1> QED
  BY <1>1, <1>2, <1>3, OnlyNarrowed

LEMMA Narrowed ==
  ASSUME ScopesTyped, AskNarrower
  PROVE  input.kind = "scopes" /\ input'.kind = "scopes" /\ answer' = answer
<1>1. input.kind = "scopes" /\ answer' = answer /\ \E s : input' = [input EXCEPT !.claim = s]
  BY DEF AskNarrower
<1>2. input \in ScopesInput
  BY <1>1 DEF ScopesTyped
<1> QED
  BY <1>1, <1>2 DEF ScopesInput

(* Support by evidence is inherited along every chain of dependent claims. *)
THEOREM SupportTheorem == Spec => SupportIsInherited
<1>1. ScopesTyped /\ [Next]_vars =>
        [input.kind = "scopes" /\ EvidenceWithin(input.claim, input.evidence, input.window) =>
           EvidenceWithin(input'.claim, input.evidence, input.window)]_vars
  <2> SUFFICES ASSUME ScopesTyped, Next, input.kind = "scopes",
                      EvidenceWithin(input.claim, input.evidence, input.window)
               PROVE  EvidenceWithin(input'.claim, input.evidence, input.window)
    BY DEF vars
  <2>1. CASE input' = input
    BY <2>1
  <2>2. ASSUME NEW s \in Scopes, Within(s, input.claim), input' = [input EXCEPT !.claim = s]
        PROVE  EvidenceWithin(input'.claim, input.evidence, input.window)
    <3>1. input \in ScopesInput
      BY DEF ScopesTyped
    <3>2. input'.claim = s
      BY <2>2, <3>1 DEF ScopesInput
    <3>3. s \in ScopeSpec /\ input.claim \in ScopeSpec /\ input.evidence \in ScopeSpec /\ input.window \in Window
      BY <3>1, ScopesAreScopes DEF ScopesInput
    <3> QED
      BY <2>2, <3>2, <3>3, EvidenceInherited
  <2> QED
    BY <2>1, <2>2, OnlyNarrowed
<1> QED
  BY <1>1, ScopesStart, ScopesStay, PTL DEF Spec, SupportIsInherited
---------------------------------------------------------------------------
(* The situations asked about tell scopes apart.                           *)

(* An interval of a scope or of evidence: a bound is absent or a moment.   *)
Bounded(i) == i.start \in Starts /\ i.end \in Ends /\ Ordered(i)

LEMMA IntervalSeparated ==
  ASSUME NEW inner, NEW outer, Bounded(inner), Bounded(outer),
         \A m \in Moments : During(inner, m) => During(outer, m)
  PROVE  IntervalWithin(inner, outer)
<1>1. inner.start \in Nat /\ inner.end \in Nat /\ outer.start \in Nat /\ outer.end \in Nat
  BY InputsAssumption DEF Bounded
<1>2. 0 \in Moments /\ inner.start \in Moments /\ inner.end \in Moments
  BY SituationsAssumption DEF Bounded
<1>3. PICK m \in Moments : inner.start < m /\ outer.end < m /\ m \in Nat
  BY SituationsAssumption DEF Bounded
<1>4. ASSUME outer.start # NoTime PROVE inner.start # NoTime /\ inner.start >= outer.start
  <2>1. CASE inner.start = NoTime
    <3>1. During(inner, 0)
      BY <1>1, <2>1 DEF During, NoTime
    <3> QED
      BY <1>1, <1>2, <1>4, <3>1 DEF During, NoTime
  <2>2. CASE inner.start # NoTime
    <3>1. During(inner, inner.start)
      BY <1>1, <2>2 DEF During, NoTime, Bounded, Ordered
    <3> QED
      BY <1>1, <1>2, <1>4, <2>2, <3>1 DEF During
  <2> QED
    BY <2>1, <2>2
<1>5. ASSUME outer.end # NoTime PROVE inner.end # NoTime /\ inner.end <= outer.end
  <2>1. CASE inner.end = NoTime
    <3>1. During(inner, m)
      BY <1>1, <1>3, <2>1 DEF During, NoTime
    <3> QED
      BY <1>1, <1>3, <1>5, <3>1 DEF During, NoTime
  <2>2. CASE inner.end # NoTime
    <3>1. During(inner, inner.end)
      BY <1>1, <2>2 DEF During, NoTime, Bounded, Ordered
    <3> QED
      BY <1>1, <1>2, <1>5, <2>2, <3>1 DEF During
  <2> QED
    BY <2>1, <2>2
<1> QED
  BY <1>4, <1>5 DEF IntervalWithin

(* The scopes asked about list names that are not Star, or are wildcards.  *)
LEMMA ListsOfScopes ==
  ASSUME NEW s \in Scopes, NEW f \in SetFields
  PROVE  s.sets[f] = {Star} \/ (s.sets[f] # {} /\ s.sets[f] \subseteq NamesListed /\ Star \notin s.sets[f])
<1>1. s.sets[f] \in ((SUBSET NamesListed) \ {{}}) \cup {{Star}}
  BY DEF Scopes
<1>2. CASE s.sets[f] = {Star}
  BY <1>2
<1>3. CASE s.sets[f] \in (SUBSET NamesListed) \ {{}}
  <2>1. s.sets[f] # {} /\ s.sets[f] \subseteq NamesListed
    <3>1. s.sets[f] \in SUBSET NamesListed
      BY <1>3
    <3>2. s.sets[f] # {}
      BY <1>3, Zenon
    <3> QED
      BY <3>1, <3>2
  <2>2. Star \notin s.sets[f]
    BY <2>1, InputsAssumption, StarAssumption
  <2> QED
    BY <2>1, <2>2
<1> QED
  BY <1>1, <1>2, <1>3

(* So each field admits a name.                                            *)
LEMMA SomeName ==
  ASSUME NEW s \in Scopes, NEW g \in SetFields
  PROVE  \E v \in Names : s.sets[g] = {Star} \/ v \in s.sets[g]
<1>1. CASE s.sets[g] = {Star}
  BY <1>1, SituationsAssumption
<1>2. CASE s.sets[g] # {Star}
  <2>1. s.sets[g] # {} /\ s.sets[g] \subseteq NamesListed
    BY <1>2, ListsOfScopes
  <2> QED
    BY <2>1, InputsAssumption
<1> QED
  BY <1>1, <1>2

LEMMA ScopeFields ==
  ASSUME NEW s \in Scopes
  PROVE  s.precision \in Precisions /\ s.assumptions \in SUBSET Assumptions /\ Bounded(s)
BY DEF Scopes, WellFormed, Bounded

(* Whatever a scope admits of each field, there is a situation of it.      *)
LEMMA SituationOf ==
  ASSUME NEW s \in Scopes,
         NEW f \in SetFields, NEW n \in Names, s.sets[f] = {Star} \/ n \in s.sets[f],
         NEW p \in Precisions \ {Star}, s.precision = Star \/ s.precision = p,
         NEW m \in Moments, During(s, m)
  PROVE  \E x \in Situations : /\ x.values[f] = n /\ x.precision = p
                               /\ x.holding = s.assumptions /\ x.time = m /\ Covers(s, x)
<1>1. \A g \in SetFields : \E v \in Names : s.sets[g] = {Star} \/ v \in s.sets[g]
  BY SomeName
<1> DEFINE Value(g) == IF g = f THEN n ELSE CHOOSE v \in Names : s.sets[g] = {Star} \/ v \in s.sets[g]
<1>2. \A g \in SetFields : Value(g) \in Names /\ (s.sets[g] = {Star} \/ Value(g) \in s.sets[g])
  BY <1>1
<1>3. Value(f) = n
  OBVIOUS
<1> HIDE DEF Value
<1>4. PICK x : x = [values |-> [g \in SetFields |-> Value(g)], precision |-> p,
                    holding |-> s.assumptions, time |-> m]
  OBVIOUS
<1>5. x \in Situations
  BY <1>2, <1>4, ScopeFields DEF Situations
<1>6. Covers(s, x)
  BY <1>2, <1>4 DEF Covers
<1> QED
  BY <1>3, <1>4, <1>5, <1>6

(* A scope has situations; if no field is singled out, take any.           *)
LEMMA SomeSituation ==
  ASSUME NEW s \in Scopes,
         NEW p \in Precisions \ {Star}, s.precision = Star \/ s.precision = p,
         NEW m \in Moments, During(s, m)
  PROVE  \E x \in Situations : /\ x.precision = p /\ x.holding = s.assumptions
                               /\ x.time = m /\ Covers(s, x)
<1>1. \A g \in SetFields : \E v \in Names : s.sets[g] = {Star} \/ v \in s.sets[g]
  BY SomeName
<1> DEFINE Value(g) == CHOOSE v \in Names : s.sets[g] = {Star} \/ v \in s.sets[g]
<1>2. \A g \in SetFields : Value(g) \in Names /\ (s.sets[g] = {Star} \/ Value(g) \in s.sets[g])
  BY <1>1
<1> HIDE DEF Value
<1>3. PICK x : x = [values |-> [g \in SetFields |-> Value(g)], precision |-> p,
                    holding |-> s.assumptions, time |-> m]
  OBVIOUS
<1>4. x \in Situations
  BY <1>2, <1>3, ScopeFields DEF Situations
<1>5. Covers(s, x)
  BY <1>2, <1>3 DEF Covers
<1> QED
  BY <1>3, <1>4, <1>5

LEMMA SomePrecision ==
  ASSUME NEW s \in Scopes
  PROVE  \E p \in Precisions \ {Star} : s.precision = Star \/ s.precision = p
BY ScopeFields, SituationsAssumption

LEMMA SomeMoment ==
  ASSUME NEW s \in Scopes
  PROVE  \E m \in Moments : During(s, m)
<1>1. s.start \in Moments /\ s.start \in Nat /\ s.end \in Nat
  BY ScopeFields, SituationsAssumption, InputsAssumption DEF Bounded
<1>2. During(s, s.start)
  BY <1>1, ScopeFields DEF Bounded, Ordered, During, NoTime
<1> QED
  BY <1>1, <1>2

(* within() refuses no scope that speaks of nothing outside the outer one. *)
LEMMA WithinComplete ==
  ASSUME NEW inner \in Scopes, NEW outer \in Scopes,
         \A x \in Situations : Covers(inner, x) => Covers(outer, x)
  PROVE  Within(inner, outer)
<1>1. PICK p \in Precisions \ {Star} : inner.precision = Star \/ inner.precision = p
  BY SomePrecision
<1>2. PICK m \in Moments : During(inner, m)
  BY SomeMoment
<1>3. ASSUME NEW f \in SetFields PROVE SetWithin(inner.sets[f], outer.sets[f])
  <2>1. \A n \in Names : inner.sets[f] = {Star} \/ n \in inner.sets[f] =>
                         outer.sets[f] = {Star} \/ n \in outer.sets[f]
    <3> SUFFICES ASSUME NEW n \in Names, inner.sets[f] = {Star} \/ n \in inner.sets[f]
                 PROVE  outer.sets[f] = {Star} \/ n \in outer.sets[f]
      OBVIOUS
    <3>1. PICK x \in Situations : x.values[f] = n /\ Covers(inner, x)
      BY <1>1, <1>2, SituationOf
    <3> QED
      BY <3>1 DEF Covers
  <2>2. CASE outer.sets[f] = {Star}
    BY <2>2 DEF SetWithin
  <2>3. CASE outer.sets[f] # {Star} /\ inner.sets[f] = {Star}
    <3>1. PICK n \in Names : n \notin NamesListed
      BY SituationsAssumption
    <3> QED
      BY <2>1, <2>3, <3>1, ListsOfScopes
  <2>4. CASE outer.sets[f] # {Star} /\ inner.sets[f] # {Star}
    BY <2>1, <2>4, ListsOfScopes, InputsAssumption DEF SetWithin
  <2> QED
    BY <2>2, <2>3, <2>4
<1>4. outer.assumptions \subseteq inner.assumptions
  <2>1. PICK x \in Situations : x.holding = inner.assumptions /\ Covers(inner, x)
    BY <1>1, <1>2, SomeSituation
  <2> QED
    BY <2>1 DEF Covers
<1>5. inner.precision = outer.precision \/ outer.precision = Star
  <2>1. ASSUME NEW q \in Precisions \ {Star}, inner.precision = Star \/ inner.precision = q
        PROVE  outer.precision = Star \/ outer.precision = q
    <3>1. PICK x \in Situations : x.precision = q /\ Covers(inner, x)
      BY <1>2, <2>1, SomeSituation
    <3> QED
      BY <3>1 DEF Covers
  <2>2. CASE inner.precision # Star
    BY <2>1, <2>2, ScopeFields
  <2>3. CASE inner.precision = Star /\ outer.precision # Star
    <3>1. PICK q \in Precisions \ {Star} : q # outer.precision
      BY <2>3, ScopeFields, SituationsAssumption
    <3> QED
      BY <2>1, <2>3, <3>1
  <2> QED
    BY <2>2, <2>3
<1>6. IntervalWithin(inner, outer)
  <2>1. ASSUME NEW k \in Moments, During(inner, k) PROVE During(outer, k)
    <3>1. PICK x \in Situations : x.time = k /\ Covers(inner, x)
      BY <1>1, <2>1, SomeSituation
    <3> QED
      BY <3>1 DEF Covers
  <2> QED
    BY <2>1, ScopeFields, IntervalSeparated
<1> QED
  BY <1>3, <1>4, <1>5, <1>6 DEF Within

(* Likewise for the valid time of evidence, which is compared alone.       *)
LEMMA WindowComplete ==
  ASSUME NEW inner \in Scopes, NEW w \in Windows,
         \A x \in Situations : Covers(inner, x) => During(w, x.time)
  PROVE  IntervalWithin(inner, w)
<1>1. PICK p \in Precisions \ {Star} : inner.precision = Star \/ inner.precision = p
  BY SomePrecision
<1>2. ASSUME NEW k \in Moments, During(inner, k) PROVE During(w, k)
  <2>1. PICK x \in Situations : x.time = k /\ Covers(inner, x)
    BY <1>1, <1>2, SomeSituation
  <2> QED
    BY <2>1
<1>3. Bounded(w)
  BY DEF Windows, Bounded
<1> QED
  BY <1>2, <1>3, ScopeFields, IntervalSeparated

LEMMA WindowSound ==
  ASSUME NEW inner \in Scopes, NEW w \in Windows, IntervalWithin(inner, w),
         NEW x \in Situations, Covers(inner, x)
  PROVE  During(w, x.time)
<1>1. x.time \in Nat
  BY SituationsAssumption DEF Situations
<1>2. inner.start \in Nat /\ inner.end \in Nat /\ w.start \in Nat /\ w.end \in Nat
  BY ScopeFields, InputsAssumption DEF Windows, Bounded
<1>3. During(inner, x.time)
  BY DEF Covers
<1> QED
  BY <1>1, <1>2, <1>3 DEF IntervalWithin, During, NoTime

(* within and evidence_within are exactly containment of what scopes speak *)
(* of: nothing slips through and nothing admissible is refused.            *)
THEOREM ContainmentTheorem == Spec => []WithinIsContainment
<1>1. ScopesTyped => WithinIsContainment
  <2> SUFFICES ASSUME ScopesTyped, input.kind = "scopes" PROVE WithinIsContainment
    BY DEF WithinIsContainment
  <2>1. PICK c, e, w : c = input.claim /\ e = input.evidence /\ w = input.window
    OBVIOUS
  <2>2. c \in Scopes /\ e \in Scopes /\ w \in Windows
    BY <2>1 DEF ScopesTyped, ScopesInput
  <2>3. Situations \subseteq Situation
    BY SituationsAssumption DEF Situations, Situation
  <2>4. Within(c, e) <=> \A x \in Situations : Covers(c, x) => Covers(e, x)
    BY <2>2, <2>3, ScopesAreScopes, WithinSound, WithinComplete
  <2>5. EvidenceWithin(c, e, w) <=>
          \A x \in Situations : Covers(c, x) => Covers(e, x) /\ During(w, x.time)
    <3>1. ASSUME EvidenceWithin(c, e, w)
          PROVE  \A x \in Situations : Covers(c, x) => Covers(e, x) /\ During(w, x.time)
      BY <2>2, <2>4, <3>1, WindowSound DEF EvidenceWithin
    <3>2. ASSUME \A x \in Situations : Covers(c, x) => Covers(e, x) /\ During(w, x.time)
          PROVE  EvidenceWithin(c, e, w)
      BY <2>2, <2>4, <3>2, WindowComplete DEF EvidenceWithin
    <3> QED
      BY <3>1, <3>2
  <2> QED
    BY <2>1, <2>4, <2>5 DEF WithinIsContainment
<1> QED
  BY <1>1, ScopesStart, ScopesStay, PTL DEF Spec

---------------------------------------------------------------------------
(* Sets that grow step by step.                                            *)

(* What grows from step to step has in it all that it ever had.            *)
LEMMA GrowsMonotonically ==
  ASSUME NEW n \in Nat, NEW v, \A k \in 1..n : v[k - 1] \subseteq v[k]
  PROVE  \A k \in 0..n : v[k] \subseteq v[n]
<1> DEFINE Lost == {m \in 0..n : \E j \in 0..m : ~ v[j] \subseteq v[m]}
<1> SUFFICES ASSUME Lost # {} PROVE FALSE
  OBVIOUS
<1>1. PICK m \in Lost : \A k \in Lost : m <= k
  <2>1. Lost \subseteq Nat
    OBVIOUS
  <2> QED
    BY <2>1, LeastNatural
<1>2. PICK j \in 0..m : ~ v[j] \subseteq v[m]
  OBVIOUS
<1>3. j # m /\ m \in 1..n
  BY <1>2
<1>4. m - 1 \notin Lost /\ m - 1 \in 0..n /\ j \in 0..(m - 1)
  BY <1>1, <1>3
<1>5. v[j] \subseteq v[m - 1] /\ v[m - 1] \subseteq v[m]
  BY <1>3, <1>4
<1> QED
  BY <1>2, <1>5

(* As many steps as a finite set has elements are enough for the growth of *)
(* a nonempty part of it to come to an end.                                *)
LEMMA GrowthEnds ==
  ASSUME NEW D, IsFiniteSet(D), NEW n \in Nat, n = Cardinality(D), NEW v, v[0] # {},
         \A k \in 0..n : v[k] \subseteq D,
         \A k \in 1..n : v[k - 1] \subseteq v[k]
  PROVE  \E k \in 1..n : v[k] = v[k - 1]
<1> SUFFICES ASSUME \A k \in 1..n : v[k] # v[k - 1] PROVE FALSE
  OBVIOUS
<1>1. \A k \in 0..n : IsFiniteSet(v[k]) /\ Cardinality(v[k]) \in Nat /\ Cardinality(v[k]) <= n
  BY FS_Subset, FS_CardinalityType
<1> DEFINE Small == {k \in 0..n : Cardinality(v[k]) < k + 1}
<1>2. Small = {}
  <2> SUFFICES ASSUME Small # {} PROVE FALSE
    OBVIOUS
  <2>1. PICK m \in Small : \A k \in Small : m <= k
    <3>1. Small \subseteq Nat
      OBVIOUS
    <3> QED
      BY <3>1, LeastNatural
  <2>2. CASE m = 0
    BY <1>1, <2>2, FS_EmptySet
  <2>3. CASE m # 0
    <3>1. m \in 1..n /\ m - 1 \in 0..n
      BY <2>3
    <3>2. Cardinality(v[m - 1]) >= m
      BY <1>1, <2>1, <3>1
    <3>3. Cardinality(v[m - 1]) < Cardinality(v[m])
      <4>1. v[m - 1] \in SUBSET v[m] /\ v[m - 1] # v[m]
        BY <3>1
      <4>2. Cardinality(v[m - 1]) <= Cardinality(v[m]) /\ Cardinality(v[m]) # Cardinality(v[m - 1])
        BY <1>1, <3>1, <4>1, FS_Subset
      <4> QED
        BY <1>1, <3>1, <4>2
    <3> QED
      BY <1>1, <3>1, <3>2, <3>3
  <2> QED
    BY <2>2, <2>3
<1>3. ~ Cardinality(v[n]) < n + 1
  BY <1>2
<1> QED
  BY <1>1, <1>3

(* A function on the parts of a set can be iterated.                       *)
Iterates(v, D, on, start, n) ==
    /\ v = [k \in 0..n |-> v[k]]
    /\ v[0] = start
    /\ \A k \in 1..n : v[k] = on[v[k - 1]]
    /\ \A k \in 0..n : v[k] \in SUBSET D

LEMMA IteratesExist ==
  ASSUME NEW D, NEW on \in [SUBSET D -> SUBSET D], NEW start \in SUBSET D, NEW n \in Nat
  PROVE  \E v : Iterates(v, D, on, start, n)
<1> DEFINE Missing == {m \in Nat : ~ \E v : Iterates(v, D, on, start, m)}
<1> SUFFICES ASSUME Missing # {} PROVE FALSE
  OBVIOUS
<1>1. PICK m \in Missing : \A k \in Missing : m <= k
  BY LeastNatural
<1>2. m # 0
  <2>1. PICK v : v = [k \in 0..0 |-> start]
    OBVIOUS
  <2>2. Iterates(v, D, on, start, 0)
    BY <2>1 DEF Iterates
  <2> QED
    BY <1>1, <2>2
<1>3. PICK v : Iterates(v, D, on, start, m - 1)
  BY <1>1, <1>2
<1>4. PICK w : w = [k \in 0..m |-> IF k = m THEN on[v[m - 1]] ELSE v[k]]
  OBVIOUS
<1>5. \A k \in 0..(m - 1) : w[k] = v[k]
  BY <1>4
<1>6. /\ v[0] = start /\ \A k \in 1..(m - 1) : v[k] = on[v[k - 1]]
      /\ \A k \in 0..(m - 1) : v[k] \in SUBSET D
  BY <1>3 DEF Iterates
<1>7. w[0] = start
  BY <1>2, <1>5, <1>6
<1>8. ASSUME NEW k \in 1..m PROVE w[k] = on[w[k - 1]] /\ w[k] \in SUBSET D
  <2>1. CASE k = m
    <3>1. m - 1 \in 0..(m - 1) /\ w[m] = on[v[m - 1]]
      BY <1>2, <1>4
    <3> QED
      BY <1>5, <1>6, <2>1, <3>1
  <2>2. CASE k # m
    <3>1. k \in 1..(m - 1) /\ k - 1 \in 0..(m - 1)
      BY <2>2
    <3> QED
      BY <1>5, <1>6, <3>1
  <2> QED
    BY <2>1, <2>2
<1>9. w = [k \in 0..m |-> w[k]]
  BY <1>4
<1>10. \A k \in 0..m : w[k] \in SUBSET D
  <2>1. \A k \in 0..m : k = 0 \/ k \in 1..m
    OBVIOUS
  <2> QED
    BY <1>7, <1>8, <2>1
<1>11. Iterates(w, D, on, start, m)
  BY <1>7, <1>8, <1>9, <1>10 DEF Iterates
<1> QED
  BY <1>1, <1>11

---------------------------------------------------------------------------
(* What collect visits.                                                    *)

Onward(store, seen) == seen \cup UNION {Visits(store, r) : r \in seen}

(* The steps of collect, up to the n-th.                                   *)
Steps(v, store, ref, n) ==
    v = [k \in 0..n |-> IF k = 0 THEN {ref} ELSE Onward(store, v[k - 1])]

LEMMA StepsAre ==
  ASSUME NEW store, NEW ref, NEW n \in Nat, NEW v, Steps(v, store, ref, n)
  PROVE  v[0] = {ref} /\ \A k \in 1..n : v[k] = Onward(store, v[k - 1])
<1>1. \A k \in 0..n : v[k] = IF k = 0 THEN {ref} ELSE Onward(store, v[k - 1])
  <2> DEFINE Step(k) == IF k = 0 THEN {ref} ELSE Onward(store, v[k - 1])
  <2>1. v = [k \in 0..n |-> Step(k)]
    BY DEF Steps
  <2> HIDE DEF Step
  <2>2. \A k \in 0..n : v[k] = Step(k)
    BY <2>1
  <2> QED
    BY <2>2 DEF Step
<1> QED
  BY <1>1

LEMMA StepsExist ==
  ASSUME NEW store, NEW ref \in DOMAIN store, NEW n \in Nat,
         \A r \in DOMAIN store : Visits(store, r) \subseteq DOMAIN store
  PROVE  \E v : Steps(v, store, ref, n)
<1>1. PICK on : on = [S \in SUBSET DOMAIN store |-> Onward(store, S)]
  OBVIOUS
<1>2. on \in [SUBSET DOMAIN store -> SUBSET DOMAIN store]
  BY <1>1 DEF Onward
<1>3. PICK v : Iterates(v, DOMAIN store, on, {ref}, n)
  <2>1. {ref} \in SUBSET DOMAIN store
    OBVIOUS
  <2> QED
    BY <1>2, <2>1, IteratesExist
<1>4. \A k \in 0..n : v[k] = IF k = 0 THEN {ref} ELSE Onward(store, v[k - 1])
  <2>1. ASSUME NEW k \in 1..n PROVE v[k] = Onward(store, v[k - 1])
    <3>1. v[k] = on[v[k - 1]]
      BY <1>3 DEF Iterates
    <3>2. v[k - 1] \in SUBSET DOMAIN store
      <4>1. k - 1 \in 0..n
        OBVIOUS
      <4> QED
        BY <1>3, <4>1 DEF Iterates
    <3> QED
      BY <1>1, <3>1, <3>2
  <2>2. v[0] = {ref}
    BY <1>3 DEF Iterates
  <2>3. \A k \in 0..n : k = 0 \/ (k # 0 /\ k \in 1..n)
    OBVIOUS
  <2> QED
    BY <2>1, <2>2, <2>3
<1>5. v = [k \in 0..n |-> IF k = 0 THEN {ref} ELSE Onward(store, v[k - 1])]
  BY <1>3, <1>4 DEF Iterates
<1> QED
  BY <1>5 DEF Steps

(* collect visits the least set that holds ref and what its records visit. *)
LEMMA CollectIsLeast ==
  ASSUME NEW store, IsFiniteSet(DOMAIN store), NEW ref \in DOMAIN store,
         \A r \in DOMAIN store : Visits(store, r) \subseteq DOMAIN store
  PROVE  /\ ref \in Collect(store, ref)
         /\ Collect(store, ref) \subseteq DOMAIN store
         /\ \A r \in Collect(store, ref) : Visits(store, r) \subseteq Collect(store, ref)
         /\ \A C : ref \in C /\ (\A r \in C : Visits(store, r) \subseteq C) => Collect(store, ref) \subseteq C
<1>1. PICK n \in Nat : n = Cardinality(DOMAIN store)
  BY FS_CardinalityType
<1> DEFINE chosen == CHOOSE v : v = [k \in 0..Cardinality(DOMAIN store) |->
                       IF k = 0 THEN {ref} ELSE v[k - 1] \cup UNION {Visits(store, r) : r \in v[k - 1]}]
<1>2. Steps(chosen, store, ref, n)
  <2>1. \E v : v = [k \in 0..Cardinality(DOMAIN store) |->
                     IF k = 0 THEN {ref} ELSE v[k - 1] \cup UNION {Visits(store, r) : r \in v[k - 1]}]
    <3>1. PICK v : Steps(v, store, ref, n)
      BY StepsExist
    <3> QED
      BY <1>1, <3>1 DEF Steps, Onward
  <2>2. chosen = [k \in 0..Cardinality(DOMAIN store) |->
                   IF k = 0 THEN {ref} ELSE chosen[k - 1] \cup UNION {Visits(store, r) : r \in chosen[k - 1]}]
    BY <2>1
  <2> HIDE DEF chosen
  <2> QED
    BY <1>1, <2>2 DEF Steps, Onward
<1>3. Collect(store, ref) = chosen[n]
  BY <1>1 DEF Collect
<1> HIDE DEF chosen
<1>4. PICK v : v = chosen
  OBVIOUS
<1>5. Collect(store, ref) = v[n] /\ Steps(v, store, ref, n)
  BY <1>2, <1>3, <1>4
<1>6. v[0] = {ref} /\ \A k \in 1..n : v[k] = Onward(store, v[k - 1])
  BY <1>5, StepsAre
<1>7. ASSUME NEW C, ref \in C, \A r \in C : Visits(store, r) \subseteq C
      PROVE  \A k \in 0..n : v[k] \subseteq C
  <2> DEFINE Beyond == {k \in 0..n : ~ v[k] \subseteq C}
  <2> SUFFICES ASSUME Beyond # {} PROVE FALSE
    OBVIOUS
  <2>1. PICK m \in Beyond : \A k \in Beyond : m <= k
    <3>1. Beyond \subseteq Nat
      OBVIOUS
    <3> QED
      BY <3>1, LeastNatural
  <2>2. m # 0
    BY <1>6, <1>7
  <2>3. m \in 1..n /\ v[m - 1] \subseteq C
    BY <2>1, <2>2
  <2>4. v[m] \subseteq C
    BY <1>6, <1>7, <2>3 DEF Onward
  <2> QED
    BY <2>4
<1>8. \A k \in 0..n : v[k] \subseteq DOMAIN store
  BY <1>7
<1>9. \A k \in 1..n : v[k - 1] \subseteq v[k]
  BY <1>6 DEF Onward
<1>10. PICK k \in 1..n : v[k] = v[k - 1]
  BY <1>1, <1>6, <1>8, <1>9, GrowthEnds
<1>11. v[k] \subseteq v[n] /\ ref \in v[k]
  <2>1. \A j \in 0..k : v[j] \subseteq v[k]
    BY <1>9, GrowsMonotonically
  <2> QED
    BY <1>6, <1>9, <2>1, GrowsMonotonically
<1>12. \A r \in v[k] : Visits(store, r) \subseteq v[k]
  BY <1>6, <1>10 DEF Onward
<1>13. v[n] \subseteq v[k]
  BY <1>7, <1>11, <1>12
<1>14. v[n] = v[k]
  BY <1>11, <1>13
<1> QED
  BY <1>5, <1>7, <1>8, <1>11, <1>12, <1>14

---------------------------------------------------------------------------
(* Stores of records.                                                      *)

RecordSpec ==
    [kind : Kinds \cup {"EvidenceItem", "ClaimSpec"}, one : Nat \cup {NoRef}, refs : SUBSET Nat,
     routes : Seq(SUBSET Nat)]

(* References point to earlier records; a link is about a claim, and a     *)
(* resolution about a link.                                                *)
PointsBack(store, r) ==
    /\ References(store[r]) \subseteq 1..(r - 1)
    /\ store[r].kind = "EvidenceLink" =>
         store[r].one \in 1..(r - 1) /\ store[store[r].one].kind = "ClaimSpec"
    /\ store[r].kind = "ResolutionSpec" =>
         store[r].one \in 1..(r - 1) /\ store[store[r].one].kind = "EvidenceLink"

Stored(store) == store \in Seq(RecordSpec) /\ store # <<>> /\ \A r \in DOMAIN store : PointsBack(store, r)

(* Whatever is visited is in the store.                                    *)
LEMMA StoreIsClosed ==
  ASSUME NEW store, Stored(store)
  PROVE  /\ DOMAIN store = 1..Len(store) /\ Len(store) \in Nat \ {0} /\ IsFiniteSet(DOMAIN store)
         /\ \A r \in DOMAIN store : Visits(store, r) \subseteq DOMAIN store
<1>1. DOMAIN store = 1..Len(store) /\ Len(store) \in Nat \ {0}
  BY DEF Stored
<1>2. IsFiniteSet(DOMAIN store)
  BY <1>1, FS_Interval
<1>3. ASSUME NEW r \in DOMAIN store PROVE Visits(store, r) \subseteq DOMAIN store
  <2>1. Checked(store[r]) \subseteq 1..(r - 1)
    BY DEF Stored, PointsBack, Checked
  <2>2. 1..(r - 1) \subseteq DOMAIN store
    BY <1>1
  <2> QED
    BY <2>1, <2>2 DEF Visits, About
<1> QED
  BY <1>1, <1>2, <1>3

(* A record that is visited has its references visited.                    *)
LEMMA VisitedReferences ==
  ASSUME NEW store, NEW r
  PROVE  Checked(store[r]) \subseteq Visits(store, r)
BY DEF Visits

(* The runs freeze adds: the last of each claim visited but the protocol's. *)
Others(store, p) == {r \in Collect(store, p) : store[r].kind = "ClaimSpec"} \ {store[p].one}

LastOf(S) == CHOOSE r \in S : \A s \in S : s <= r

LEMMA FrozenIs ==
  ASSUME NEW store, NEW p
  PROVE  Frozen(store, p) =
           Collect(store, p) \cup
           {LastOf(About(store, "RunRecord", c)) : c \in {d \in Others(store, p) : About(store, "RunRecord", d) # {}}}
<1> DEFINE runs == {About(store, "RunRecord", c) : c \in Others(store, p)}
<1>1. Frozen(store, p) = Collect(store, p) \cup {LastOf(mine) : mine \in runs \ {{}}}
  BY DEF Frozen, Others, LastOf
<1>2. {LastOf(mine) : mine \in runs \ {{}}} =
      {LastOf(About(store, "RunRecord", c)) : c \in {d \in Others(store, p) : About(store, "RunRecord", d) # {}}}
  OBVIOUS
<1> QED
  BY <1>1, <1>2

LEMMA LastIsLast ==
  ASSUME NEW S, S # {}, NEW n \in Nat, S \subseteq 1..n
  PROVE  LastOf(S) \in S /\ \A s \in S : s <= LastOf(S)
<1> DEFINE Bounds == {b \in Nat : \A s \in S : s <= b}
<1>1. n \in Bounds
  OBVIOUS
<1>2. PICK b \in Bounds : \A c \in Bounds : b <= c
  BY <1>1, LeastNatural
<1>3. b \in S
  <2> SUFFICES ASSUME b \notin S PROVE FALSE
    OBVIOUS
  <2>1. \A s \in S : s \in 1..n /\ s < b
    OBVIOUS
  <2>2. PICK s \in S : TRUE
    OBVIOUS
  <2>3. b - 1 \in Nat /\ b - 1 < b
    BY <2>1, <2>2
  <2>4. \A r \in S : r <= b - 1
    BY <2>1
  <2>5. b - 1 \in Bounds
    BY <2>3, <2>4
  <2> QED
    BY <1>2, <2>3, <2>5
<1>4. \E r \in S : \A s \in S : s <= r
  BY <1>3
<1> QED
  BY <1>4 DEF LastOf

---------------------------------------------------------------------------
(* What a protocol freezes.                                                *)

LEMMA CollectOfStore ==
  ASSUME NEW store, Stored(store), NEW p \in DOMAIN store
  PROVE  /\ p \in Collect(store, p)
         /\ Collect(store, p) \subseteq DOMAIN store
         /\ \A r \in Collect(store, p) : Visits(store, r) \subseteq Collect(store, p)
         /\ \A C : p \in C /\ (\A r \in C : Visits(store, r) \subseteq C) => Collect(store, p) \subseteq C
BY StoreIsClosed, CollectIsLeast

(* Only runs are frozen that are not visited.                              *)
LEMMA FrozenBeyond ==
  ASSUME NEW store, Stored(store), NEW p \in DOMAIN store, NEW r \in Frozen(store, p), r \notin Collect(store, p)
  PROVE  \E c \in Others(store, p) : About(store, "RunRecord", c) # {} /\ r = LastOf(About(store, "RunRecord", c))
BY FrozenIs

LEMMA FrozenInStore ==
  ASSUME NEW store, Stored(store), NEW p \in DOMAIN store
  PROVE  /\ Frozen(store, p) \subseteq DOMAIN store
         /\ Collect(store, p) \subseteq Frozen(store, p)
         /\ \A r \in Frozen(store, p) : r \notin Collect(store, p) => store[r].kind = "RunRecord"
<1>1. ASSUME NEW r \in Frozen(store, p), r \notin Collect(store, p)
      PROVE  r \in DOMAIN store /\ store[r].kind = "RunRecord"
  <2>1. PICK c \in Others(store, p) :
          About(store, "RunRecord", c) # {} /\ r = LastOf(About(store, "RunRecord", c))
    BY <1>1, FrozenBeyond
  <2>2. About(store, "RunRecord", c) \subseteq 1..Len(store) /\ Len(store) \in Nat
    BY StoreIsClosed DEF About
  <2>3. r \in About(store, "RunRecord", c)
    BY <2>1, <2>2, LastIsLast
  <2> QED
    BY <2>3 DEF About
<1>2. Collect(store, p) \subseteq Frozen(store, p)
  BY FrozenIs
<1> QED
  BY <1>1, <1>2, CollectOfStore

(* Every link of a claim that is frozen is frozen, and every resolution of *)
(* such a link.                                                            *)
LEMMA LinksAreFrozen ==
  ASSUME NEW store, Stored(store), NEW p \in DOMAIN store, NEW r \in DOMAIN store,
         store[r].kind = "EvidenceLink", store[r].one \in Frozen(store, p)
  PROVE  r \in Collect(store, p)
<1>1. store[store[r].one].kind = "ClaimSpec"
  BY DEF Stored, PointsBack
<1>2. store[r].one \in Collect(store, p)
  BY <1>1, FrozenInStore
<1>3. r \in Visits(store, store[r].one)
  BY <1>1 DEF Visits, About
<1> QED
  BY <1>2, <1>3, CollectOfStore

LEMMA ResolutionsAreFrozen ==
  ASSUME NEW store, Stored(store), NEW p \in DOMAIN store, NEW r \in DOMAIN store, NoRef \notin Nat \ {0},
         store[r].kind = "ResolutionSpec", store[r].one \in Frozen(store, p)
  PROVE  r \in Collect(store, p)
<1>1. PICK l : l = store[r].one
  OBVIOUS
<1>2. l \in DOMAIN store /\ store[l].kind = "EvidenceLink"
  <2>1. l \in 1..(r - 1) /\ store[l].kind = "EvidenceLink"
    BY <1>1 DEF Stored, PointsBack
  <2> QED
    BY <2>1, StoreIsClosed
<1>3. l \in Collect(store, p)
  BY <1>1, <1>2, FrozenInStore
<1>4. PICK c : c = store[l].one
  OBVIOUS
<1>5. c \in 1..(l - 1) /\ store[c].kind = "ClaimSpec"
  BY <1>2, <1>4 DEF Stored, PointsBack
<1>6. c \in Collect(store, p)
  <2>1. c # NoRef
    BY <1>2, <1>5, StoreIsClosed
  <2>2. c \in Checked(store[l])
    BY <1>2, <1>4, <2>1 DEF Checked, References, Managed
  <2> QED
    BY <1>3, <2>2, VisitedReferences, CollectOfStore
<1>7. l \in About(store, "EvidenceLink", c) /\ r \in About(store, "ResolutionSpec", l)
  BY <1>1, <1>2, <1>4 DEF About
<1>8. r \in Visits(store, c)
  BY <1>5, <1>7 DEF Visits
<1> QED
  BY <1>6, <1>8, CollectOfStore

(* A store that holds what was frozen, and nothing else, visits the same   *)
(* from what was visited.                                                  *)
LEMMA VisitsAgain ==
  ASSUME NEW store, Stored(store), NEW p \in DOMAIN store,
         NEW W, W = Frozen(store, p), NEW R, R = [r \in W |-> store[r]],
         NEW r \in Collect(store, p)
  PROVE  Visits(R, r) = Visits(store, r)
<1>1. Collect(store, p) \subseteq W /\ W \subseteq DOMAIN store /\ DOMAIN R = W /\ \A q \in W : R[q] = store[q]
  BY FrozenInStore
<1>2. R[r] = store[r]
  BY <1>1
<1>3. CASE store[r].kind # "ClaimSpec"
  BY <1>2, <1>3 DEF Visits
<1>4. CASE store[r].kind = "ClaimSpec"
  <2>1. About(store, "EvidenceLink", r) \subseteq W
    BY <1>1, <1>4, CollectOfStore DEF Visits
  <2>2. About(R, "EvidenceLink", r) = About(store, "EvidenceLink", r)
    BY <1>1, <2>1 DEF About
  <2>3. ASSUME NEW l \in About(store, "EvidenceLink", r)
        PROVE  About(R, "ResolutionSpec", l) = About(store, "ResolutionSpec", l)
    <3>1. About(store, "ResolutionSpec", l) \subseteq Visits(store, r)
      BY <1>4 DEF Visits
    <3>2. About(store, "ResolutionSpec", l) \subseteq W
      BY <1>1, <3>1, CollectOfStore
    <3> QED
      BY <1>1, <3>2 DEF About
  <2>4. UNION {About(R, "ResolutionSpec", l) : l \in About(R, "EvidenceLink", r)} =
        UNION {About(store, "ResolutionSpec", l) : l \in About(store, "EvidenceLink", r)}
    BY <2>2, <2>3
  <2> QED
    BY <1>2, <1>4, <2>2, <2>4 DEF Visits
<1> QED
  BY <1>3, <1>4

(* So the replayed store collects the same ...                             *)
LEMMA CollectsAgain ==
  ASSUME NEW store, Stored(store), NEW p \in DOMAIN store,
         NEW W, W = Frozen(store, p), NEW R, R = [r \in W |-> store[r]]
  PROVE  Collect(R, p) = Collect(store, p)
<1>1. /\ Collect(store, p) \subseteq W /\ W \subseteq DOMAIN store /\ DOMAIN R = W
      /\ \A q \in W : R[q] = store[q]
      /\ \A q \in W : q \notin Collect(store, p) => store[q].kind = "RunRecord"
  BY FrozenInStore
<1>2. \A q \in Collect(store, p) : Visits(R, q) = Visits(store, q)
  BY VisitsAgain
<1>3. ASSUME NEW q \in W PROVE Visits(R, q) \subseteq W
  <2>1. CASE q \in Collect(store, p)
    BY <1>1, <1>2, <2>1, CollectOfStore
  <2>2. CASE q \notin Collect(store, p)
    BY <1>1, <2>2 DEF Visits, Checked, Managed
  <2> QED
    BY <2>1, <2>2
<1>4. IsFiniteSet(W)
  BY <1>1, StoreIsClosed, FS_Subset
<1>5. p \in W
  BY <1>1, CollectOfStore
<1>6. /\ p \in Collect(R, p)
      /\ \A q \in Collect(R, p) : Visits(R, q) \subseteq Collect(R, p)
      /\ \A C : p \in C /\ (\A q \in C : Visits(R, q) \subseteq C) => Collect(R, p) \subseteq C
  BY <1>1, <1>3, <1>4, <1>5, CollectIsLeast
<1>7. Collect(R, p) \subseteq Collect(store, p)
  BY <1>2, <1>6, CollectOfStore
<1>8. Collect(store, p) \subseteq Collect(R, p)
  BY <1>2, <1>6, <1>7, CollectOfStore
<1> QED
  BY <1>7, <1>8

(* ... and freezes the same.                                               *)
LEMMA FreezesAgain ==
  ASSUME NEW store, Stored(store), NEW p \in DOMAIN store,
         NEW W, W = Frozen(store, p), NEW R, R = [r \in W |-> store[r]]
  PROVE  Frozen(R, p) = W
<1>1. /\ Collect(store, p) \subseteq W /\ W \subseteq DOMAIN store /\ DOMAIN R = W
      /\ \A q \in W : R[q] = store[q]
  BY FrozenInStore
<1>2. Collect(R, p) = Collect(store, p)
  BY CollectsAgain
<1>3. Others(R, p) = Others(store, p)
  BY <1>1, <1>2, CollectOfStore DEF Others
<1>4. ASSUME NEW c \in Others(store, p)
      PROVE  /\ About(R, "RunRecord", c) = About(store, "RunRecord", c) \cap W
             /\ About(store, "RunRecord", c) # {} =>
                  /\ About(R, "RunRecord", c) # {}
                  /\ LastOf(About(R, "RunRecord", c)) = LastOf(About(store, "RunRecord", c))
  <2>1. PICK S, T : S = About(store, "RunRecord", c) /\ T = About(R, "RunRecord", c)
    OBVIOUS
  <2>2. T = S \cap W
    BY <1>1, <2>1 DEF About
  <2>3. ASSUME S # {} PROVE T # {} /\ LastOf(T) = LastOf(S)
    <3>1. S \subseteq 1..Len(store) /\ Len(store) \in Nat
      BY <2>1, StoreIsClosed DEF About
    <3>2. LastOf(S) \in S /\ \A s \in S : s <= LastOf(S)
      BY <2>3, <3>1, LastIsLast
    <3>3. LastOf(S) \in T
      BY <2>1, <2>2, <2>3, <3>2, FrozenIs
    <3>4. LastOf(T) \in T /\ \A s \in T : s <= LastOf(T)
      BY <2>2, <3>1, <3>3, LastIsLast
    <3>5. LastOf(T) <= LastOf(S) /\ LastOf(S) <= LastOf(T)
      BY <2>2, <3>2, <3>3, <3>4
    <3>6. LastOf(S) \in Nat /\ LastOf(T) \in Nat
      <4>1. S \subseteq Nat
        BY <3>1
      <4> QED
        BY <2>2, <3>2, <3>4, <4>1
    <3> QED
      BY <3>3, <3>5, <3>6
  <2> QED
    BY <2>1, <2>2, <2>3
<1> DEFINE With(s) == {d \in Others(store, p) : About(s, "RunRecord", d) # {}}
<1>5. With(R) = With(store)
  BY <1>4
<1>6. {LastOf(About(R, "RunRecord", c)) : c \in With(R)} = {LastOf(About(store, "RunRecord", c)) : c \in With(store)}
  BY <1>4, <1>5
<1>7. Frozen(R, p) = Collect(R, p) \cup {LastOf(About(R, "RunRecord", c)) : c \in With(R)}
  BY <1>3, FrozenIs
<1>8. W = Collect(store, p) \cup {LastOf(About(store, "RunRecord", c)) : c \in With(store)}
  BY FrozenIs
<1> QED
  BY <1>2, <1>6, <1>7, <1>8

(* A packet whose entries have their references is never stuck: the first  *)
(* entry that is missing can be registered.                                *)
LEMMA NeverStuck ==
  ASSUME NEW store, Stored(store), NEW entries, entries \subseteq DOMAIN store,
         NEW done, done \subseteq entries,
         \A r \in entries : Checked(store[r]) \subseteq entries
  PROVE  ~ Stuck(store, entries, done)
<1> SUFFICES ASSUME done # entries, Registrable(store, entries, done) = {} PROVE FALSE
  BY DEF Stuck
<1>1. entries \ done # {} /\ entries \ done \subseteq Nat
  <2>1. DOMAIN store \subseteq Nat
    BY StoreIsClosed
  <2> QED
    BY <2>1
<1>2. PICK r \in entries \ done : \A s \in entries \ done : r <= s
  BY <1>1, LeastNatural
<1>3. Checked(store[r]) \subseteq 1..(r - 1)
  BY DEF Stored, PointsBack, Checked
<1>4. r \in Nat /\ \A s \in Checked(store[r]) : s < r /\ s \in entries
  BY <1>1, <1>3
<1>5. Checked(store[r]) \subseteq done
  BY <1>1, <1>2, <1>4
<1> QED
  BY <1>5 DEF Registrable

---------------------------------------------------------------------------
(* The invariant of what is asked about records.                           *)

ReplayAnswer == [to : {"replay"}, whole : SUBSET Nat, entries : SUBSET Nat, done : SUBSET Nat]

(* A replay has registered entries whose references it has registered.     *)
Replaying ==
    /\ input.kind = "records" /\ OfKind("ProtocolSpec") # {}
    /\ answer \in ReplayAnswer
    /\ answer.whole = Frozen(input.store, Len(input.store))
    /\ answer.entries \subseteq answer.whole
    /\ answer.done \subseteq answer.entries
    /\ \A r \in answer.done : Checked(input.store[r]) \subseteq answer.done

ReplayInv ==
    /\ input.kind = "records" => Stored(input.store)
    /\ answer.to = "replay" => Replaying

LEMMA FirstRecordsStored == Stored(FirstRecords)
<1>1. FirstRecords \in Seq(RecordSpec)
  <2>1. <<>> \in Seq(SUBSET Nat)
    OBVIOUS
  <2>2. ASSUME NEW kind \in {"EvidenceItem", "ClaimSpec"}
        PROVE  [kind |-> kind, one |-> NoRef, refs |-> {}, routes |-> <<>>] \in RecordSpec
    BY <2>1 DEF RecordSpec
  <2> QED
    BY <2>2 DEF FirstRecords
<1>2. DOMAIN FirstRecords = 1..2 /\ FirstRecords # <<>>
  BY DEF FirstRecords
<1>3. \A r \in 1..2 : /\ References(FirstRecords[r]) = {}
                      /\ FirstRecords[r].kind \in {"EvidenceItem", "ClaimSpec"}
  BY DEF FirstRecords, References
<1> QED
  BY <1>1, <1>2, <1>3 DEF Stored, PointsBack

(* What is entered refers to what is in the store, as its kind asks.       *)
LEMMA EnteredRefers ==
  ASSUME input.kind = "records", Stored(input.store), NEW kind \in Kinds,
         NEW one \in OneOf(kind), NEW refs \in RefsOf(kind), NEW routes \in RoutesOf(kind)
  PROVE  LET e == [kind |-> kind, one |-> one, refs |-> refs, routes |-> routes]
             n == Len(input.store)
         IN  /\ e \in RecordSpec
             /\ References(e) \subseteq 1..n
             /\ kind = "EvidenceLink" => one \in 1..n /\ input.store[one].kind = "ClaimSpec"
             /\ kind = "ResolutionSpec" => one \in 1..n /\ input.store[one].kind = "EvidenceLink"
<1>1. PICK n \in Nat : n = Len(input.store) /\ DOMAIN input.store = 1..n
  BY StoreIsClosed
<1>2. \A k : OfKind(k) \subseteq 1..n /\ \A r \in OfKind(k) : input.store[r].kind = k
  BY <1>1 DEF OfKind
<1>3. /\ one \in 1..n \cup {NoRef}
      /\ kind = "EvidenceLink" => one \in 1..n /\ input.store[one].kind = "ClaimSpec"
      /\ kind = "ResolutionSpec" => one \in 1..n /\ input.store[one].kind = "EvidenceLink"
  BY <1>2 DEF OneOf
<1>4. refs \subseteq 1..n
  BY <1>2 DEF RefsOf, AtMostOne
<1>5. routes \in Seq(SUBSET Nat) /\ \A i \in DOMAIN routes : routes[i] \subseteq 1..n
  <2>1. CASE routes = <<>>
    BY <2>1
  <2>2. CASE routes # <<>>
    <3>1. PICK r \in OfKind("EvidenceItem") : routes = <<{}, {r}>>
      BY <2>2 DEF RoutesOf
    <3>2. {r} \subseteq 1..n /\ {r} \in SUBSET Nat /\ {} \in SUBSET Nat
      BY <1>2, <3>1
    <3> QED
      BY <3>1, <3>2
  <2> QED
    BY <2>1, <2>2
<1>6. PICK e : e = [kind |-> kind, one |-> one, refs |-> refs, routes |-> routes]
  OBVIOUS
<1>7. e \in RecordSpec
  <2>1. one \in Nat \cup {NoRef} /\ refs \in SUBSET Nat
    BY <1>3, <1>4
  <2> QED
    BY <1>5, <1>6, <2>1 DEF RecordSpec
<1>8. References(e) \subseteq 1..n
  BY <1>3, <1>4, <1>5, <1>6 DEF References
<1> QED
  BY <1>1, <1>3, <1>6, <1>7, <1>8

LEMMA AppendedStored ==
  ASSUME NEW store, Stored(store), NEW e \in RecordSpec, NEW n, n = Len(store),
         References(e) \subseteq 1..n,
         e.kind = "EvidenceLink" => e.one \in 1..n /\ store[e.one].kind = "ClaimSpec",
         e.kind = "ResolutionSpec" => e.one \in 1..n /\ store[e.one].kind = "EvidenceLink"
  PROVE  Stored(Append(store, e))
<1>1. PICK new : new = Append(store, e)
  OBVIOUS
<1>2. n \in Nat /\ DOMAIN store = 1..n /\ store \in Seq(RecordSpec)
  BY StoreIsClosed DEF Stored
<1>3. /\ new \in Seq(RecordSpec) /\ DOMAIN new = 1..(n + 1) /\ new # <<>>
      /\ new[n + 1] = e /\ \A r \in 1..n : new[r] = store[r]
  BY <1>1, <1>2
<1>4. PointsBack(new, n + 1)
  BY <1>2, <1>3 DEF PointsBack
<1>5. ASSUME NEW r \in 1..n PROVE PointsBack(new, r)
  <2>1. PointsBack(store, r)
    BY <1>2 DEF Stored
  <2>2. \A k \in 1..(r - 1) : new[k] = store[k]
    BY <1>2, <1>3
  <2> QED
    BY <1>3, <2>1, <2>2 DEF PointsBack
<1>6. \A r \in 1..(n + 1) : r \in 1..n \/ r = n + 1
  BY <1>2
<1> QED
  BY <1>1, <1>3, <1>4, <1>5, <1>6 DEF Stored

LEMMA RecordsStart == Init => ReplayInv
BY FirstRecordsStored DEF Init, ReplayInv, Unasked

LEMMA RecordEntered ==
  ASSUME ReplayInv, EnterRecord
  PROVE  ReplayInv'
<1>1. input.kind = "records" /\ OfKind("ProtocolSpec") = {} /\ answer' = answer
  BY DEF EnterRecord
<1>2. Stored(input.store)
  BY <1>1 DEF ReplayInv
<1>3. PICK kind \in Kinds : \E one \in OneOf(kind), refs \in RefsOf(kind), routes \in RoutesOf(kind) :
        input' = [kind  |-> "records",
                  store |-> Append(input.store, [kind |-> kind, one |-> one, refs |-> refs, routes |-> routes])]
  BY DEF EnterRecord
<1>4. PICK one \in OneOf(kind), refs \in RefsOf(kind), routes \in RoutesOf(kind) :
        input' = [kind  |-> "records",
                  store |-> Append(input.store, [kind |-> kind, one |-> one, refs |-> refs, routes |-> routes])]
  BY <1>3
<1>5. PICK store, new, e : /\ store = input.store /\ new = Append(store, e)
                           /\ e = [kind |-> kind, one |-> one, refs |-> refs, routes |-> routes]
  OBVIOUS
<1>6. Stored(new)
  <2>1. /\ e \in RecordSpec /\ References(e) \subseteq 1..Len(store)
        /\ kind = "EvidenceLink" => one \in 1..Len(store) /\ store[one].kind = "ClaimSpec"
        /\ kind = "ResolutionSpec" => one \in 1..Len(store) /\ store[one].kind = "EvidenceLink"
    BY <1>1, <1>2, <1>5, EnteredRefers
  <2>2. e.kind = kind /\ e.one = one
    BY <1>5
  <2> QED
    BY <1>2, <1>5, <2>1, <2>2, AppendedStored
<1>7. input'.store = new
  BY <1>4, <1>5
<1>8. answer'.to # "replay"
  BY <1>1 DEF ReplayInv, Replaying
<1> QED
  BY <1>6, <1>7, <1>8 DEF ReplayInv

(* The packet asked about is the one that freeze makes, less an entry.     *)
LEMMA ReplayAsked ==
  ASSUME ReplayInv, AskReplay
  PROVE  ReplayInv'
<1>1. input.kind = "records" /\ OfKind("ProtocolSpec") # {} /\ input' = input
  BY DEF AskReplay
<1>2. Stored(input.store)
  BY <1>1 DEF ReplayInv
<1>3. PICK whole : whole = Frozen(input.store, Len(input.store))
  OBVIOUS
<1>4. PICK lost : answer' = [to |-> "replay", whole |-> whole, entries |-> whole \ lost, done |-> {}]
  BY <1>3 DEF AskReplay
<1>5. whole \subseteq Nat
  <2>1. Len(input.store) \in DOMAIN input.store /\ DOMAIN input.store \subseteq Nat
    BY <1>2, StoreIsClosed
  <2> QED
    BY <1>2, <1>3, <2>1, FrozenInStore
<1>6. answer' \in ReplayAnswer
  BY <1>4, <1>5 DEF ReplayAnswer
<1>7. Replaying'
  BY <1>1, <1>3, <1>4, <1>6 DEF Replaying, OfKind
<1> QED
  BY <1>1, <1>2, <1>7 DEF ReplayInv

LEMMA EntryReplayed ==
  ASSUME ReplayInv, ReplayEntry
  PROVE  ReplayInv'
<1>1. input' = input /\ answer.to = "replay" /\ Replaying
  BY DEF ReplayEntry, ReplayInv
<1>2. PICK r \in Registrable(input.store, answer.entries, answer.done) :
        answer' = [answer EXCEPT !.done = @ \cup {r}]
  BY DEF ReplayEntry
<1>3. r \in answer.entries /\ Checked(input.store[r]) \subseteq answer.done
  BY <1>2 DEF Registrable
<1>4. PICK done : done = answer.done \cup {r}
  OBVIOUS
<1>5. answer' \in ReplayAnswer /\ answer'.whole = answer.whole /\ answer'.entries = answer.entries /\ answer'.done = done
  BY <1>1, <1>2, <1>3, <1>4 DEF Replaying, ReplayAnswer
<1>6. \A q \in done : Checked(input.store[q]) \subseteq done
  BY <1>1, <1>3, <1>4 DEF Replaying
<1>7. Replaying'
  BY <1>1, <1>3, <1>4, <1>5, <1>6 DEF Replaying, OfKind
<1> QED
  BY <1>1, <1>7 DEF ReplayInv

LEMMA RecordsStay ==
  ASSUME ReplayInv, ScopesTyped, [Next]_vars
  PROVE  ReplayInv'
<1>1. CASE EnterRecord
  BY <1>1, RecordEntered
<1>2. CASE AskReplay
  BY <1>2, ReplayAsked
<1>3. CASE ReplayEntry
  BY <1>3, EntryReplayed
<1>4. CASE UNCHANGED vars
  BY <1>4 DEF vars, ReplayInv, Replaying, OfKind
<1>5. CASE AskOrder \/ AskReachable \/ AskPath \/ AskClusters \/ AskTests \/ AskFlow
  <2>1. input' = input /\ answer'.to # "replay"
    BY <1>5 DEF AskOrder, AskReachable, AskPath, AskClusters, AskTests, AskFlow
  <2> QED
    BY <2>1 DEF ReplayInv
<1>6. CASE AskNarrower \/ EnterItem
  <2>1. input.kind # "records" /\ input'.kind # "records" /\ answer' = answer
    <3>1. CASE AskNarrower
      BY <3>1, Narrowed
    <3>2. CASE EnterItem
      BY <3>2 DEF EnterItem
    <3> QED
      BY <1>6, <3>1, <3>2
  <2>2. answer.to # "replay"
    BY <2>1 DEF ReplayInv, Replaying
  <2> QED
    BY <2>1, <2>2 DEF ReplayInv
<1> QED
  BY <1>1, <1>2, <1>3, <1>4, <1>5, <1>6 DEF Next

(* What a protocol freezes has every link of each claim in it and every    *)
(* resolution; it can be replayed in any order, is refused only if an      *)
(* entry that another needs is lost, and replayed it freezes the same.     *)
THEOREM SnapshotTheorem == Spec => []SnapshotReplays
<1>1. ReplayInv => SnapshotReplays
  <2> SUFFICES ASSUME ReplayInv, answer.to = "replay" PROVE SnapshotReplays
    BY DEF SnapshotReplays
  <2>1. PICK store, p, whole, entries, done :
          /\ store = input.store /\ p = Len(store)
          /\ whole = answer.whole /\ entries = answer.entries /\ done = answer.done
    OBVIOUS
  <2>2. /\ Stored(store) /\ whole = Frozen(store, p)
        /\ entries \subseteq whole /\ done \subseteq entries
        /\ \A r \in done : Checked(store[r]) \subseteq done
    BY <2>1 DEF ReplayInv, Replaying
  <2>3. p \in DOMAIN store /\ whole \subseteq DOMAIN store
    <3>1. p \in DOMAIN store
      BY <2>1, <2>2, StoreIsClosed
    <3> QED
      BY <2>2, <3>1, FrozenInStore
  <2>4. Stuck(store, entries, done) => ~ \A r \in entries : Checked(store[r]) \subseteq entries
    BY <2>2, <2>3, NeverStuck
  <2>5. done = entries => \A r \in entries : Checked(store[r]) \subseteq entries
    BY <2>2
  <2>6. \A r \in DOMAIN store :
          /\ store[r].kind = "EvidenceLink" /\ store[r].one \in whole => r \in whole
          /\ store[r].kind = "ResolutionSpec" /\ store[r].one \in whole => r \in whole
    BY <2>2, <2>3, FrozenInStore, LinksAreFrozen, ResolutionsAreFrozen, ReferencesAssumption
  <2>7. done = whole => Frozen([r \in done |-> store[r]], p) = whole
    <3> SUFFICES ASSUME done = whole PROVE Frozen([r \in done |-> store[r]], p) = whole
      OBVIOUS
    <3>1. PICK R : R = [r \in whole |-> store[r]]
      OBVIOUS
    <3>2. Frozen(R, p) = whole
      BY <2>2, <2>3, <3>1, FreezesAgain
    <3> QED
      BY <3>1, <3>2
  <2> QED
    BY <2>1, <2>4, <2>5, <2>6, <2>7 DEF SnapshotReplays
<1> QED
  BY <1>1, RecordsStart, RecordsStay, ScopesStart, ScopesStay, PTL DEF Spec


---------------------------------------------------------------------------
(* What is above an item: its lineage, itself included.                    *)

Widened(parents, seen) == seen \cup {n \in DOMAIN parents : parents[n] \cap seen # {}}

(* The steps of ClosureOf, up to the n-th.                                 *)
Widens(v, parents, roots, n) ==
    v = [k \in 0..n |-> IF k = 0 THEN roots ELSE Widened(parents, v[k - 1])]

LEMMA WidensAre ==
  ASSUME NEW parents, NEW roots, NEW n \in Nat, NEW v, Widens(v, parents, roots, n)
  PROVE  v[0] = roots /\ \A k \in 1..n : v[k] = Widened(parents, v[k - 1])
<1>1. \A k \in 0..n : v[k] = IF k = 0 THEN roots ELSE Widened(parents, v[k - 1])
  <2> DEFINE Step(k) == IF k = 0 THEN roots ELSE Widened(parents, v[k - 1])
  <2>1. v = [k \in 0..n |-> Step(k)]
    BY DEF Widens
  <2> HIDE DEF Step
  <2>2. \A k \in 0..n : v[k] = Step(k)
    BY <2>1
  <2> QED
    BY <2>2 DEF Step
<1> QED
  BY <1>1

LEMMA WidensExist ==
  ASSUME NEW parents, NEW roots \in SUBSET DOMAIN parents, NEW n \in Nat
  PROVE  \E v : Widens(v, parents, roots, n)
<1>1. PICK on : on = [S \in SUBSET DOMAIN parents |-> Widened(parents, S)]
  OBVIOUS
<1>2. on \in [SUBSET DOMAIN parents -> SUBSET DOMAIN parents]
  BY <1>1 DEF Widened
<1>3. PICK v : Iterates(v, DOMAIN parents, on, roots, n)
  BY <1>2, IteratesExist
<1>4. \A k \in 0..n : v[k] = IF k = 0 THEN roots ELSE Widened(parents, v[k - 1])
  <2>1. ASSUME NEW k \in 1..n PROVE v[k] = Widened(parents, v[k - 1])
    <3>1. v[k] = on[v[k - 1]]
      BY <1>3 DEF Iterates
    <3>2. v[k - 1] \in SUBSET DOMAIN parents
      <4>1. k - 1 \in 0..n
        OBVIOUS
      <4> QED
        BY <1>3, <4>1 DEF Iterates
    <3> QED
      BY <1>1, <3>1, <3>2
  <2>2. v[0] = roots
    BY <1>3 DEF Iterates
  <2>3. \A k \in 0..n : k = 0 \/ (k # 0 /\ k \in 1..n)
    OBVIOUS
  <2> QED
    BY <2>1, <2>2, <2>3
<1>5. v = [k \in 0..n |-> IF k = 0 THEN roots ELSE Widened(parents, v[k - 1])]
  BY <1>3, <1>4 DEF Iterates
<1> QED
  BY <1>5 DEF Widens

(* ClosureOf is the least set with the roots that holds the children of    *)
(* its nodes.                                                              *)
LEMMA ClosureIsLeast ==
  ASSUME NEW parents, IsFiniteSet(DOMAIN parents), NEW roots \in SUBSET DOMAIN parents
  PROVE  /\ roots \subseteq ClosureOf(parents, roots)
         /\ ClosureOf(parents, roots) \subseteq DOMAIN parents
         /\ \A i \in DOMAIN parents :
              parents[i] \cap ClosureOf(parents, roots) # {} => i \in ClosureOf(parents, roots)
         /\ \A C : roots \subseteq C /\ (\A i \in DOMAIN parents : parents[i] \cap C # {} => i \in C)
                     => ClosureOf(parents, roots) \subseteq C
<1>1. PICK n \in Nat : n = Cardinality(DOMAIN parents)
  BY FS_CardinalityType
<1> DEFINE chosen == CHOOSE v : v = [k \in 0..Cardinality(DOMAIN parents) |->
                       IF k = 0 THEN roots ELSE v[k - 1] \cup {i \in DOMAIN parents : parents[i] \cap v[k - 1] # {}}]
<1>2. Widens(chosen, parents, roots, n)
  <2>1. \E v : v = [k \in 0..Cardinality(DOMAIN parents) |->
                      IF k = 0 THEN roots ELSE v[k - 1] \cup {i \in DOMAIN parents : parents[i] \cap v[k - 1] # {}}]
    <3>1. PICK v : Widens(v, parents, roots, n)
      BY WidensExist
    <3> QED
      BY <1>1, <3>1 DEF Widens, Widened
  <2>2. chosen = [k \in 0..Cardinality(DOMAIN parents) |->
          IF k = 0 THEN roots
          ELSE chosen[k - 1] \cup {i \in DOMAIN parents : parents[i] \cap chosen[k - 1] # {}}]
    BY <2>1
  <2> HIDE DEF chosen
  <2> QED
    BY <1>1, <2>2 DEF Widens, Widened
<1>3. ClosureOf(parents, roots) = chosen[n]
  BY <1>1 DEF ClosureOf
<1> HIDE DEF chosen
<1>4. PICK v : v = chosen
  OBVIOUS
<1>5. ClosureOf(parents, roots) = v[n] /\ Widens(v, parents, roots, n)
  BY <1>2, <1>3, <1>4
<1>6. v[0] = roots /\ \A k \in 1..n : v[k] = Widened(parents, v[k - 1])
  BY <1>5, WidensAre
<1>7. ASSUME NEW C, roots \subseteq C, \A i \in DOMAIN parents : parents[i] \cap C # {} => i \in C
      PROVE  \A k \in 0..n : v[k] \subseteq C
  <2> DEFINE Beyond == {k \in 0..n : ~ v[k] \subseteq C}
  <2> SUFFICES ASSUME Beyond # {} PROVE FALSE
    OBVIOUS
  <2>1. PICK m \in Beyond : \A k \in Beyond : m <= k
    <3>1. Beyond \subseteq Nat
      OBVIOUS
    <3> QED
      BY <3>1, LeastNatural
  <2>2. m # 0
    BY <1>6, <1>7
  <2>3. m \in 1..n /\ v[m - 1] \subseteq C
    BY <2>1, <2>2
  <2>4. v[m] \subseteq C
    BY <1>6, <1>7, <2>3 DEF Widened
  <2> QED
    BY <2>4
<1>8. \A k \in 0..n : v[k] \subseteq DOMAIN parents
  BY <1>7
<1>9. \A k \in 1..n : v[k - 1] \subseteq v[k]
  BY <1>6 DEF Widened
<1>10. roots \subseteq v[n]
  <2>1. 0 \in 0..n
    OBVIOUS
  <2> QED
    BY <1>6, <1>9, <2>1, GrowsMonotonically
<1>11. \A i \in DOMAIN parents : parents[i] \cap v[n] # {} => i \in v[n]
  <2>1. CASE roots = {}
    <3>1. v[n] \subseteq {}
      BY <1>7, <2>1
    <3> QED
      BY <3>1
  <2>2. CASE roots # {}
    <3>1. PICK k \in 1..n : v[k] = v[k - 1]
      BY <1>1, <1>6, <1>8, <1>9, <2>2, GrowthEnds
    <3>2. roots \subseteq v[k]
      <4>1. \A j \in 0..k : v[j] \subseteq v[k]
        BY <1>9, GrowsMonotonically
      <4>2. 0 \in 0..k
        OBVIOUS
      <4> QED
        BY <1>6, <4>1, <4>2
    <3>3. \A i \in DOMAIN parents : parents[i] \cap v[k] # {} => i \in v[k]
      BY <1>6, <3>1 DEF Widened
    <3>4. v[n] \subseteq v[k]
      <4>1. n \in 0..n
        OBVIOUS
      <4> QED
        BY <1>7, <3>2, <3>3, <4>1
    <3>5. v[k] \subseteq v[n]
      BY <1>9, GrowsMonotonically
    <3> QED
      BY <3>3, <3>4, <3>5
  <2> QED
    BY <2>1, <2>2
<1> QED
  BY <1>5, <1>7, <1>8, <1>10, <1>11

Above(parents, i) == {r \in DOMAIN parents : i \in ClosureOf(parents, {r})}

(* The lineage of an item is the item and the lineages of its parents.     *)
LEMMA AboveIs ==
  ASSUME NEW parents, IsFiniteSet(DOMAIN parents), \A r \in DOMAIN parents : parents[r] \subseteq DOMAIN parents,
         NEW i \in DOMAIN parents
  PROVE  Above(parents, i) = {i} \cup UNION {Above(parents, p) : p \in parents[i]}
<1> SUFFICES ASSUME NEW r \in DOMAIN parents
             PROVE  i \in ClosureOf(parents, {r}) <=> r = i \/ \E p \in parents[i] : p \in ClosureOf(parents, {r})
  BY DEF Above
<1>1. PICK C : C = ClosureOf(parents, {r})
  OBVIOUS
<1>2. /\ {r} \subseteq C /\ C \subseteq DOMAIN parents
      /\ \A k \in DOMAIN parents : parents[k] \cap C # {} => k \in C
      /\ \A B : {r} \subseteq B /\ (\A k \in DOMAIN parents : parents[k] \cap B # {} => k \in B) => C \subseteq B
  <2>1. {r} \in SUBSET DOMAIN parents
    OBVIOUS
  <2> QED
    BY <1>1, <2>1, ClosureIsLeast
<1>3. ASSUME r # i, \A p \in parents[i] : p \notin C PROVE i \notin C
  <2>1. {r} \subseteq C \ {i}
    BY <1>2, <1>3
  <2>2. \A k \in DOMAIN parents : parents[k] \cap (C \ {i}) # {} => k \in C \ {i}
    BY <1>2, <1>3
  <2>3. C \subseteq C \ {i}
    BY <1>2, <2>1, <2>2
  <2> QED
    BY <2>3
<1>4. ASSUME NEW p \in parents[i], p \in C PROVE i \in C
  BY <1>2, <1>4
<1> QED
  BY <1>1, <1>2, <1>3, <1>4

---------------------------------------------------------------------------
(* What ancestors finds.                                                   *)

ItemSpec == [kind : Lineal \cup {"EventSpec"}, parents : SUBSET Nat, source : Nat, known_at : Nat]

(* Items as registration admits them: parents come first.                  *)
Registered(store) ==
    /\ store \in Seq(ItemSpec)
    /\ \A r \in DOMAIN store :
         /\ ParentsOf(store[r]) \subseteq 1..(r - 1)
         /\ store[r].kind = "EvidenceItem" => store[r].source \in 1..(r - 1)
         /\ store[r].kind = "EventSpec" => store[r].parents = {}
         /\ Admissible(store, store[r])

ParentsIn(store) == [r \in DOMAIN store |-> ParentsOf(store[r])]

(* What a visit of r finds, beneath the items in active.                   *)
Met(visit, store, active, r) ==
    LET above == {visit[<<active \cup {r}, p>>] : p \in ParentsOf(store[r])}
    IN  IF r \in active \/ store[r].kind \notin Lineal
        THEN [found |-> {}, error |-> TRUE]
        ELSE [found |-> {r} \cup UNION {v.found : v \in above},
              error |-> \E v \in above : v.error]

Visited(visit, store) == visit = [at \in (SUBSET DOMAIN store) \X DOMAIN store |-> Met(visit, store, at[1], at[2])]

(* So far: the visits of the first m items are as they should be.          *)
VisitedUpTo(f, store, m) ==
    /\ f = [at \in (SUBSET DOMAIN store) \X DOMAIN store |-> f[at]]
    /\ \A at \in (SUBSET DOMAIN store) \X DOMAIN store : at[2] <= m => f[at] = Met(f, store, at[1], at[2])

LEMMA MetSame ==
  ASSUME NEW f, NEW g, NEW store, NEW active, NEW r,
         \A p \in ParentsOf(store[r]) : f[<<active \cup {r}, p>>] = g[<<active \cup {r}, p>>]
  PROVE  Met(f, store, active, r) = Met(g, store, active, r)
<1>1. {f[<<active \cup {r}, p>>] : p \in ParentsOf(store[r])} = {g[<<active \cup {r}, p>>] : p \in ParentsOf(store[r])}
  OBVIOUS
<1> QED
  BY <1>1 DEF Met

LEMMA MetIs ==
  ASSUME NEW visit, NEW store, NEW active, NEW r, r \notin active, store[r].kind \in Lineal
  PROVE  /\ Met(visit, store, active, r).error <=> \E p \in ParentsOf(store[r]) : visit[<<active \cup {r}, p>>].error
         /\ Met(visit, store, active, r).found =
              {r} \cup UNION {visit[<<active \cup {r}, p>>].found : p \in ParentsOf(store[r])}
<1> DEFINE above == {visit[<<active \cup {r}, p>>] : p \in ParentsOf(store[r])}
<1>1. Met(visit, store, active, r) = [found |-> {r} \cup UNION {v.found : v \in above}, error |-> \E v \in above : v.error]
  BY DEF Met
<1>2. {v.found : v \in above} = {visit[<<active \cup {r}, p>>].found : p \in ParentsOf(store[r])}
  OBVIOUS
<1>3. (\E v \in above : v.error) <=> \E p \in ParentsOf(store[r]) : visit[<<active \cup {r}, p>>].error
  OBVIOUS
<1> HIDE DEF above
<1>4. /\ Met(visit, store, active, r).found = {r} \cup UNION {v.found : v \in above}
      /\ Met(visit, store, active, r).error = \E v \in above : v.error
  BY <1>1
<1> QED
  BY <1>2, <1>3, <1>4

(* There is a function that visits so: parents come first.                 *)
LEMMA VisitedExists ==
  ASSUME NEW store, Registered(store)
  PROVE  \E visit : Visited(visit, store)
<1>1. PICK n \in Nat : n = Len(store) /\ DOMAIN store = 1..n
  BY DEF Registered
<1>2. PICK At : At = (SUBSET DOMAIN store) \X DOMAIN store
  OBVIOUS
<1> DEFINE Missing == {m \in 0..n : ~ \E f : VisitedUpTo(f, store, m)}
<1>3. Missing = {}
  <2> SUFFICES ASSUME Missing # {} PROVE FALSE
    OBVIOUS
  <2>1. PICK m \in Missing : \A k \in Missing : m <= k
    <3>1. Missing \subseteq Nat
      OBVIOUS
    <3> QED
      BY <3>1, LeastNatural
  <2>2. \A at \in At : at[1] \in SUBSET DOMAIN store /\ at[2] \in 1..n
    BY <1>1, <1>2
  <2>3. m # 0
    <3>1. PICK f : f = [at \in At |-> {}]
      OBVIOUS
    <3>2. VisitedUpTo(f, store, 0)
      BY <1>2, <2>2, <3>1 DEF VisitedUpTo
    <3> QED
      BY <2>1, <3>2
  <2>4. PICK f : VisitedUpTo(f, store, m - 1)
    <3>1. m - 1 \in 0..n /\ m - 1 \notin Missing
      BY <2>1, <2>3
    <3> QED
      BY <3>1
  <2>5. PICK g : g = [at \in At |-> IF at[2] = m THEN Met(f, store, at[1], m) ELSE f[at]]
    OBVIOUS
  <2>6. g = [at \in At |-> g[at]]
    BY <2>5
  <2>7. ASSUME NEW at \in At, at[2] <= m PROVE g[at] = Met(g, store, at[1], at[2])
    <3>1. PICK active, r : active = at[1] /\ r = at[2] /\ at = <<active, r>>
      BY <1>2
    <3>2. active \in SUBSET DOMAIN store /\ r \in 1..n /\ r <= m
      BY <2>2, <2>7, <3>1
    <3>3. g[at] = Met(f, store, active, r)
      <4>1. CASE r = m
        BY <2>5, <3>1, <4>1
      <4>2. CASE r # m
        <5>1. r <= m - 1
          BY <3>2, <4>2
        <5>2. f[at] = Met(f, store, active, r)
          BY <1>2, <2>4, <3>1, <5>1 DEF VisitedUpTo
        <5> QED
          BY <2>5, <3>1, <4>2, <5>2
      <4> QED
        BY <4>1, <4>2
    <3>4. ASSUME NEW p \in ParentsOf(store[r]) PROVE g[<<active \cup {r}, p>>] = f[<<active \cup {r}, p>>]
      <4>1. p \in 1..(r - 1)
        BY <1>1, <3>2 DEF Registered
      <4>2. p \in 1..n /\ p # m /\ active \cup {r} \in SUBSET DOMAIN store
        BY <1>1, <3>2, <4>1
      <4>3. <<active \cup {r}, p>> \in At
        BY <1>1, <1>2, <4>2
      <4> QED
        BY <2>5, <4>2, <4>3
    <3>5. Met(g, store, active, r) = Met(f, store, active, r)
      BY <3>4, MetSame
    <3> QED
      BY <3>1, <3>3, <3>5
  <2>8. VisitedUpTo(g, store, m)
    BY <1>2, <2>6, <2>7 DEF VisitedUpTo
  <2> QED
    BY <2>1, <2>8
<1>4. PICK f : VisitedUpTo(f, store, n)
  <2>1. n \in 0..n /\ n \notin Missing
    BY <1>3
  <2> QED
    BY <2>1
<1>5. \A at \in At : f[at] = Met(f, store, at[1], at[2])
  <2>1. \A at \in At : at[2] <= n
    BY <1>1, <1>2
  <2> QED
    BY <1>2, <1>4, <2>1 DEF VisitedUpTo
<1>6. f = [at \in At |-> Met(f, store, at[1], at[2])]
  <2>1. f = [at \in At |-> f[at]]
    BY <1>2, <1>4 DEF VisitedUpTo
  <2> QED
    BY <1>5, <2>1
<1> QED
  BY <1>2, <1>6 DEF Visited

LEMMA AncestorsVisit ==
  ASSUME NEW store, Registered(store), NEW ref
  PROVE  \E visit : Visited(visit, store) /\ Ancestors(store, ref) = visit[<<{}, ref>>]
<1> DEFINE chosen == CHOOSE visit : visit = [at \in (SUBSET DOMAIN store) \X DOMAIN store |->
                       LET active == at[1]
                           r      == at[2]
                           above  == {visit[<<active \cup {r}, p>>] : p \in ParentsOf(store[r])}
                       IN  IF r \in active \/ store[r].kind \notin Lineal
                           THEN [found |-> {}, error |-> TRUE]
                           ELSE [found |-> {r} \cup UNION {v.found : v \in above},
                                 error |-> \E v \in above : v.error]]
<1>1. chosen = CHOOSE visit : Visited(visit, store)
  BY DEF Visited, Met
<1>2. Ancestors(store, ref) = chosen[<<{}, ref>>]
  BY DEF Ancestors
<1> HIDE DEF chosen
<1>3. Visited(chosen, store)
  BY <1>1, VisitedExists
<1> QED
  BY <1>2, <1>3

LEMMA RegisteredIs ==
  ASSUME NEW store, Registered(store)
  PROVE  /\ Len(store) \in Nat /\ DOMAIN store = 1..Len(store) /\ IsFiniteSet(DOMAIN store)
         /\ \A r \in DOMAIN store : /\ ParentsOf(store[r]) \subseteq 1..(r - 1)
                                    /\ ParentsOf(store[r]) \subseteq DOMAIN store
                                    /\ store[r].known_at \in Nat
         /\ \A r \in DOMAIN store :
              Above(ParentsIn(store), r) = {r} \cup UNION {Above(ParentsIn(store), p) : p \in ParentsOf(store[r])}
<1>1. Len(store) \in Nat /\ DOMAIN store = 1..Len(store)
  BY DEF Registered
<1>2. IsFiniteSet(DOMAIN store)
  BY <1>1, FS_Interval
<1>3. ASSUME NEW r \in DOMAIN store
      PROVE  /\ ParentsOf(store[r]) \subseteq 1..(r - 1)
             /\ ParentsOf(store[r]) \subseteq DOMAIN store
             /\ store[r].known_at \in Nat
  <2>1. ParentsOf(store[r]) \subseteq 1..(r - 1)
    BY DEF Registered
  <2>2. 1..(r - 1) \subseteq DOMAIN store
    BY <1>1
  <2>3. store[r] \in ItemSpec
    BY DEF Registered
  <2> QED
    BY <2>1, <2>2, <2>3 DEF ItemSpec
<1>4. PICK parents : parents = ParentsIn(store)
  OBVIOUS
<1>5. DOMAIN parents = DOMAIN store /\ \A r \in DOMAIN store : parents[r] = ParentsOf(store[r])
  BY <1>4 DEF ParentsIn
<1>6. ASSUME NEW r \in DOMAIN store
      PROVE  Above(parents, r) = {r} \cup UNION {Above(parents, p) : p \in ParentsOf(store[r])}
  <2>1. Above(parents, r) = {r} \cup UNION {Above(parents, p) : p \in parents[r]}
    BY <1>2, <1>3, <1>5, AboveIs
  <2> QED
    BY <1>5, <2>1
<1> QED
  BY <1>1, <1>2, <1>3, <1>4, <1>6

(* A parent that is neither a source nor evidence.                         *)
Foreign(store, r) == \E q \in Above(ParentsIn(store), r) : store[q].kind \notin Lineal

(* The visit of an item finds what is above it, or reports that something  *)
(* foreign is.                                                             *)
LEMMA VisitFinds ==
  ASSUME NEW store, Registered(store), NEW visit, Visited(visit, store)
  PROVE  \A r \in DOMAIN store : \A active \in SUBSET DOMAIN store :
           active \cap 1..r = {} =>
             /\ visit[<<active, r>>].error <=> Foreign(store, r)
             /\ ~ Foreign(store, r) => visit[<<active, r>>].found = Above(ParentsIn(store), r)
<1> DEFINE Right(r) == \A active \in SUBSET DOMAIN store :
           active \cap 1..r = {} =>
             /\ visit[<<active, r>>].error <=> Foreign(store, r)
             /\ ~ Foreign(store, r) => visit[<<active, r>>].found = Above(ParentsIn(store), r)
           Wrong == {r \in DOMAIN store : ~ Right(r)}
<1> HIDE DEF Right
<1> SUFFICES ASSUME Wrong # {} PROVE FALSE
  BY DEF Right
<1>1. PICK r \in Wrong : \A k \in Wrong : r <= k
  <2>1. Wrong \subseteq Nat
    BY RegisteredIs
  <2> QED
    BY <2>1, LeastNatural
<1>2. r \in DOMAIN store /\ r \in Nat /\ ~ Right(r)
  BY RegisteredIs
<1>3. PICK P : P = ParentsOf(store[r])
  OBVIOUS
<1>4. \A p \in P : p \in DOMAIN store /\ p \in 1..(r - 1) /\ Right(p)
  <2>1. \A p \in P : p \in DOMAIN store /\ p \in 1..(r - 1)
    BY <1>2, <1>3, RegisteredIs
  <2>2. \A p \in P : p \notin Wrong
    BY <1>1, <1>2, <2>1
  <2> QED
    BY <2>1, <2>2
<1>5. Above(ParentsIn(store), r) = {r} \cup UNION {Above(ParentsIn(store), p) : p \in P}
  BY <1>2, <1>3, RegisteredIs
<1>6. Foreign(store, r) <=> store[r].kind \notin Lineal \/ \E p \in P : Foreign(store, p)
  BY <1>5 DEF Foreign
<1>7. ASSUME NEW active \in SUBSET DOMAIN store, active \cap 1..r = {}
      PROVE  /\ visit[<<active, r>>].error <=> Foreign(store, r)
             /\ ~ Foreign(store, r) => visit[<<active, r>>].found = Above(ParentsIn(store), r)
  <2>1. visit[<<active, r>>] = Met(visit, store, active, r)
    <3>1. PICK at : at = <<active, r>>
      OBVIOUS
    <3>2. at \in (SUBSET DOMAIN store) \X DOMAIN store /\ at[1] = active /\ at[2] = r
      BY <1>2, <3>1
    <3> QED
      BY <3>1, <3>2 DEF Visited
  <2>2. CASE store[r].kind \notin Lineal
    <3>1. Met(visit, store, active, r) = [found |-> {}, error |-> TRUE]
      BY <2>2 DEF Met
    <3> QED
      BY <1>6, <2>1, <2>2, <3>1
  <2>3. CASE store[r].kind \in Lineal
    <3>1. r \notin active
      BY <1>2, <1>7, RegisteredIs
    <3>2. /\ visit[<<active, r>>].error <=> \E p \in P : visit[<<active \cup {r}, p>>].error
          /\ visit[<<active, r>>].found = {r} \cup UNION {visit[<<active \cup {r}, p>>].found : p \in P}
      <4>1. PICK met : met = Met(visit, store, active, r)
        OBVIOUS
      <4>2. /\ met.error <=> \E p \in P : visit[<<active \cup {r}, p>>].error
            /\ met.found = {r} \cup UNION {visit[<<active \cup {r}, p>>].found : p \in P}
        BY <1>3, <2>3, <3>1, <4>1, MetIs, Zenon
      <4>3. visit[<<active, r>>] = met
        BY <2>1, <4>1
      <4> QED
        BY <4>2, <4>3, Zenon
    <3>3. ASSUME NEW p \in P
          PROVE  /\ visit[<<active \cup {r}, p>>].error <=> Foreign(store, p)
                 /\ ~ Foreign(store, p) => visit[<<active \cup {r}, p>>].found = Above(ParentsIn(store), p)
      <4>1. active \cup {r} \in SUBSET DOMAIN store /\ (active \cup {r}) \cap 1..p = {}
        BY <1>2, <1>4, <1>7
      <4> QED
        BY <1>4, <4>1 DEF Right
    <3>4. visit[<<active, r>>].error <=> Foreign(store, r)
      BY <1>6, <2>3, <3>2, <3>3
    <3>5. ASSUME ~ Foreign(store, r) PROVE visit[<<active, r>>].found = Above(ParentsIn(store), r)
      <4>1. \A p \in P : visit[<<active \cup {r}, p>>].found = Above(ParentsIn(store), p)
        BY <1>6, <3>3, <3>5
      <4> QED
        BY <1>5, <3>2, <4>1
    <3> QED
      BY <3>4, <3>5
  <2> QED
    BY <2>2, <2>3
<1>8. Right(r)
  BY <1>7 DEF Right
<1> QED
  BY <1>2, <1>8

---------------------------------------------------------------------------
(* What verify_evidence accepts.                                           *)

LEMMA ParentsKnown ==
  ASSUME NEW store, Registered(store), NEW r \in DOMAIN store
  PROVE  \A p \in ParentsOf(store[r]) : store[p].known_at <= store[r].known_at
<1>1. store[r].kind \in Lineal \cup {"EventSpec"} /\ Admissible(store, store[r])
  <2>1. store[r] \in ItemSpec /\ Admissible(store, store[r])
    BY DEF Registered
  <2> QED
    BY <2>1 DEF ItemSpec
<1>2. CASE store[r].kind = "SourceSpec"
  BY <1>1, <1>2 DEF Admissible, ParentsOf, NotBefore
<1>3. CASE store[r].kind = "EvidenceItem"
  BY <1>1, <1>3 DEF Admissible, NotBefore
<1>4. CASE store[r].kind = "EventSpec"
  BY <1>4 DEF Registered, ParentsOf
<1> QED
  BY <1>1, <1>2, <1>3, <1>4 DEF Lineal

(* Comparing neighbours is enough for the whole lineage.                   *)
LEMMA LineageKnown ==
  ASSUME NEW store, Registered(store)
  PROVE  \A r \in DOMAIN store : \A q \in Above(ParentsIn(store), r) : store[q].known_at <= store[r].known_at
<1> DEFINE Late == {r \in DOMAIN store : \E q \in Above(ParentsIn(store), r) : ~ store[q].known_at <= store[r].known_at}
<1> SUFFICES ASSUME Late # {} PROVE FALSE
  OBVIOUS
<1>1. PICK r \in Late : \A k \in Late : r <= k
  <2>1. Late \subseteq Nat
    BY RegisteredIs
  <2> QED
    BY <2>1, LeastNatural
<1>2. PICK q \in Above(ParentsIn(store), r) : ~ store[q].known_at <= store[r].known_at
  OBVIOUS
<1>3. r \in DOMAIN store /\ r \in Nat /\ store[r].known_at \in Nat /\ q \in DOMAIN store /\ store[q].known_at \in Nat
  BY RegisteredIs DEF Above, ParentsIn
<1>4. q # r
  BY <1>2, <1>3
<1>5. PICK p \in ParentsOf(store[r]) : q \in Above(ParentsIn(store), p)
  BY <1>3, <1>4, RegisteredIs
<1>6. p \in DOMAIN store /\ p \in 1..(r - 1) /\ store[p].known_at \in Nat
  BY <1>3, <1>5, RegisteredIs
<1>7. store[q].known_at <= store[p].known_at
  BY <1>1, <1>3, <1>5, <1>6
<1>8. store[p].known_at <= store[r].known_at
  BY <1>3, <1>5, ParentsKnown
<1> QED
  BY <1>2, <1>3, <1>6, <1>7, <1>8

(* The lineage of a source or of evidence has a source in it.              *)
LEMMA LineageHasSource ==
  ASSUME NEW store, Registered(store), NEW r \in DOMAIN store, ~ Foreign(store, r)
  PROVE  \E q \in Above(ParentsIn(store), r) : store[q].kind = "SourceSpec"
<1>1. Above(ParentsIn(store), r) = {r} \cup UNION {Above(ParentsIn(store), p) : p \in ParentsOf(store[r])}
  BY RegisteredIs
<1>2. store[r].kind \in Lineal
  BY <1>1 DEF Foreign
<1>3. CASE store[r].kind = "SourceSpec"
  BY <1>1, <1>3
<1>4. CASE store[r].kind = "EvidenceItem"
  <2>1. PICK s : s = store[r].source
    OBVIOUS
  <2>2. s \in ParentsOf(store[r]) /\ store[s].kind = "SourceSpec"
    BY <1>4, <2>1 DEF ParentsOf, Registered, Admissible
  <2>3. s \in Above(ParentsIn(store), s)
    BY <2>2, RegisteredIs
  <2> QED
    BY <1>1, <2>2, <2>3
<1> QED
  BY <1>2, <1>3, <1>4 DEF Lineal

LEMMA AncestorsAre ==
  ASSUME NEW store, Registered(store), NEW r \in DOMAIN store
  PROVE  /\ Ancestors(store, r).error <=> Foreign(store, r)
         /\ ~ Foreign(store, r) => Ancestors(store, r).found = Above(ParentsIn(store), r)
<1>1. PICK visit : Visited(visit, store) /\ Ancestors(store, r) = visit[<<{}, r>>]
  BY AncestorsVisit
<1>2. {} \in SUBSET DOMAIN store /\ {} \cap 1..r = {}
  OBVIOUS
<1>3. /\ visit[<<{}, r>>].error <=> Foreign(store, r)
      /\ ~ Foreign(store, r) => visit[<<{}, r>>].found = Above(ParentsIn(store), r)
  BY <1>1, <1>2, VisitFinds
<1> QED
  BY <1>1, <1>3, Zenon

LEMMA VerifiedIs ==
  ASSUME NEW store, Registered(store), NEW r \in DOMAIN store, NEW broken, NEW cutoff \in Nat
  PROVE  Verified(store, broken, r, cutoff) <=>
           ~ Foreign(store, r) /\ store[r].known_at <= cutoff /\ broken \cap Above(ParentsIn(store), r) = {}
<1>1. PICK lineage : lineage = Ancestors(store, r)
  OBVIOUS
<1>2. lineage.error <=> Foreign(store, r)
  BY <1>1, AncestorsAre, Zenon
<1>3. Verified(store, broken, r, cutoff) <=>
        /\ ~ Foreign(store, r)
        /\ \A q \in lineage.found :
             /\ store[q].known_at <= cutoff
             /\ q \notin broken
             /\ store[q].kind = "EvidenceItem" =>
                  \A p \in ParentsOf(store[q]) : NotBefore(store[q], store[p])
        /\ \E q \in lineage.found : store[q].kind = "SourceSpec"
  BY <1>1, <1>2, Zenon DEF Verified
<1>4. CASE Foreign(store, r)
  BY <1>3, <1>4
<1>5. CASE ~ Foreign(store, r)
  <2>1. PICK above : above = Above(ParentsIn(store), r)
    OBVIOUS
  <2>2. lineage.found = above
    BY <1>1, <1>5, <2>1, AncestorsAre
  <2>3. \E q \in above : store[q].kind = "SourceSpec"
    BY <1>5, <2>1, LineageHasSource
  <2>4. r \in above /\ above \subseteq DOMAIN store
    <3>1. r \in above
      BY <2>1, RegisteredIs
    <3>2. above \subseteq DOMAIN store
      BY <2>1 DEF Above, ParentsIn
    <3> QED
      BY <3>1, <3>2
  <2>5. \A q \in above : \A p \in ParentsOf(store[q]) : NotBefore(store[q], store[p])
    BY <2>4, ParentsKnown DEF NotBefore
  <2>6. (\A q \in above : store[q].known_at <= cutoff) <=> store[r].known_at <= cutoff
    <3>1. \A q \in above : store[q].known_at <= store[r].known_at /\ store[q].known_at \in Nat
      BY <2>1, <2>4, LineageKnown, RegisteredIs
    <3> QED
      BY <2>4, <3>1
  <2> QED
    BY <1>3, <1>5, <2>1, <2>2, <2>3, <2>5, <2>6
<1> QED
  BY <1>4, <1>5

---------------------------------------------------------------------------
(* The invariant of what is asked about lineages.                          *)

LineageInv == input.kind = "items" => Registered(input.store)

LEMMA ItemsStart == Init => LineageInv
<1>1. Registered(<<>>)
  BY DEF Registered
<1> QED
  BY <1>1 DEF Init, LineageInv

LEMMA ItemAppended ==
  ASSUME NEW store, Registered(store), NEW item \in ItemSpec,
         ParentsOf(item) \subseteq DOMAIN store,
         item.kind = "EvidenceItem" => item.source \in DOMAIN store,
         item.kind = "EventSpec" => item.parents = {},
         Admissible(store, item)
  PROVE  Registered(Append(store, item))
<1>1. PICK new, n : new = Append(store, item) /\ n = Len(store)
  OBVIOUS
<1>2. n \in Nat /\ DOMAIN store = 1..n
  BY <1>1, RegisteredIs
<1>3. /\ new \in Seq(ItemSpec) /\ DOMAIN new = 1..(n + 1)
      /\ new[n + 1] = item /\ \A r \in 1..n : new[r] = store[r]
  BY <1>1, <1>2 DEF Registered
<1>4. ASSUME NEW it, ParentsOf(it) \subseteq 1..n, it.kind = "EvidenceItem" => it.source \in 1..n,
             Admissible(store, it)
      PROVE  Admissible(new, it)
  <2>1. CASE it.kind = "SourceSpec"
    <3>1. it.parents \subseteq 1..n
      BY <1>4, <2>1 DEF ParentsOf
    <3> QED
      BY <1>3, <1>4, <2>1, <3>1 DEF Admissible
  <2>2. CASE it.kind # "SourceSpec"
    BY <1>3, <1>4, <2>2 DEF Admissible
  <2> QED
    BY <2>1, <2>2
<1>5. ASSUME NEW r \in 1..n
      PROVE  /\ ParentsOf(new[r]) \subseteq 1..(r - 1)
             /\ new[r].kind = "EvidenceItem" => new[r].source \in 1..(r - 1)
             /\ new[r].kind = "EventSpec" => new[r].parents = {}
             /\ Admissible(new, new[r])
  <2>1. new[r] = store[r]
    BY <1>3
  <2>2. /\ ParentsOf(store[r]) \subseteq 1..(r - 1)
        /\ store[r].kind = "EvidenceItem" => store[r].source \in 1..(r - 1)
        /\ store[r].kind = "EventSpec" => store[r].parents = {}
        /\ Admissible(store, store[r])
    BY <1>2 DEF Registered
  <2>3. 1..(r - 1) \subseteq 1..n
    BY <1>2
  <2>4. Admissible(new, store[r])
    BY <1>4, <2>2, <2>3
  <2> QED
    BY <2>1, <2>2, <2>4
<1>6. Admissible(new, item)
  BY <1>2, <1>4
<1>7. \A r \in 1..(n + 1) : r \in 1..n \/ r = n + 1
  BY <1>2
<1>8. (n + 1) - 1 = n
  BY <1>2
<1>9. \A r \in DOMAIN new : /\ ParentsOf(new[r]) \subseteq 1..(r - 1)
                            /\ new[r].kind = "EvidenceItem" => new[r].source \in 1..(r - 1)
                            /\ new[r].kind = "EventSpec" => new[r].parents = {}
                            /\ Admissible(new, new[r])
  <2>1. ASSUME NEW r \in DOMAIN new, r = n + 1
        PROVE  /\ ParentsOf(new[r]) \subseteq 1..(r - 1)
               /\ new[r].kind = "EvidenceItem" => new[r].source \in 1..(r - 1)
               /\ new[r].kind = "EventSpec" => new[r].parents = {}
               /\ Admissible(new, new[r])
    BY <1>2, <1>3, <1>6, <1>8, <2>1
  <2> QED
    BY <1>3, <1>5, <1>7, <2>1
<1> QED
  BY <1>1, <1>3, <1>9 DEF Registered

LEMMA ItemEntered ==
  ASSUME LineageInv, EnterItem
  PROVE  LineageInv'
<1>1. input.kind = "items" /\ Registered(input.store)
  BY DEF EnterItem, LineageInv
<1>2. PICK store : store = input.store
  OBVIOUS
<1>3. PICK kind \in Lineal \cup {"EventSpec"}, known \in Instants,
           parents \in SUBSET DOMAIN store, source \in DOMAIN store \cup {0} :
        /\ (kind = "EvidenceItem") = (source # 0)
        /\ kind = "EventSpec" => parents = {}
        /\ LET item == [kind |-> kind, parents |-> parents, source |-> source, known_at |-> known]
           IN  Admissible(store, item) /\ input' = [kind |-> "items", store |-> Append(store, item)]
  BY <1>2 DEF EnterItem
<1> DEFINE item == [kind |-> kind, parents |-> parents, source |-> source, known_at |-> known]
<1>4. /\ item.kind = kind /\ item.parents = parents /\ item.source = source /\ item.known_at = known
      /\ Admissible(store, item) /\ input' = [kind |-> "items", store |-> Append(store, item)]
  BY <1>3
<1>5. DOMAIN store \subseteq Nat
  BY <1>1, <1>2, RegisteredIs
<1>6. item \in ItemSpec
  BY <1>3, <1>5, InstantsAssumption DEF ItemSpec
<1> HIDE DEF item
<1>7. item.kind = "EvidenceItem" => item.source \in DOMAIN store
  BY <1>3, <1>4
<1>8. ParentsOf(item) \subseteq DOMAIN store
  BY <1>4, <1>7 DEF ParentsOf
<1>9. Registered(Append(store, item))
  BY <1>1, <1>2, <1>3, <1>4, <1>6, <1>7, <1>8, ItemAppended
<1> QED
  BY <1>4, <1>9 DEF LineageInv

LEMMA ItemsStay ==
  ASSUME LineageInv, ScopesTyped, [Next]_vars
  PROVE  LineageInv'
<1>1. CASE EnterItem
  BY <1>1, ItemEntered
<1>2. CASE EnterRecord
  BY <1>2 DEF EnterRecord, LineageInv
<1>3. CASE AskNarrower
  BY <1>3, Narrowed DEF LineageInv
<1>4. CASE ~ EnterItem /\ ~ EnterRecord /\ ~ AskNarrower
  <2>1. input' = input
    BY <1>4 DEF Next, AskOrder, AskReachable, AskPath, AskClusters,
         AskReplay, ReplayEntry, AskTests, AskFlow, vars
  <2> QED
    BY <2>1 DEF LineageInv
<1> QED
  BY <1>1, <1>2, <1>3, <1>4

(* What LineageIsSound says of a store.                                    *)
SoundStore(store) ==
    LET item    == Len(store)
        parents == [r \in DOMAIN store |-> ParentsOf(store[r])]
        above   == {r \in DOMAIN store : item \in ClosureOf(parents, {r})}
        foreign == \E r \in above : store[r].kind \notin Lineal
    IN  /\ Ancestors(store, item).error <=> foreign
        /\ ~ foreign => Ancestors(store, item).found = above
        /\ \A cutoff \in Instants, broken \in AtMostOne(DOMAIN store) :
             Verified(store, broken, item, cutoff) <=>
               ~ foreign /\ store[item].known_at <= cutoff /\ broken \cap above = {}

LEMMA RegisteredIsSound ==
  ASSUME NEW store, Registered(store), store # <<>>
  PROVE  SoundStore(store)
<1> DEFINE item    == Len(store)
           above   == {r \in DOMAIN store : item \in ClosureOf([k \in DOMAIN store |-> ParentsOf(store[k])], {r})}
           foreign == \E r \in above : store[r].kind \notin Lineal
<1>1. item \in DOMAIN store
  <2>1. store \in Seq(ItemSpec)
    BY DEF Registered
  <2> QED
    BY <2>1
<1>2. above = Above(ParentsIn(store), item)
  BY DEF Above, ParentsIn
<1>3. foreign <=> Foreign(store, item)
  <2> HIDE DEF above
  <2> QED
    BY <1>2 DEF Foreign
<1>4. SoundStore(store) <=>
        /\ Ancestors(store, item).error <=> foreign
        /\ ~ foreign => Ancestors(store, item).found = above
        /\ \A cutoff \in Instants, broken \in AtMostOne(DOMAIN store) :
             Verified(store, broken, item, cutoff) <=>
               ~ foreign /\ store[item].known_at <= cutoff /\ broken \cap above = {}
  BY Zenon DEF SoundStore
<1> HIDE DEF item, above, foreign
<1>5. /\ Ancestors(store, item).error <=> foreign
      /\ ~ foreign => Ancestors(store, item).found = above
  BY <1>1, <1>2, <1>3, AncestorsAre, Zenon
<1>6. ASSUME NEW cutoff \in Instants, NEW broken
      PROVE  Verified(store, broken, item, cutoff) <=>
               ~ foreign /\ store[item].known_at <= cutoff /\ broken \cap above = {}
  <2>1. cutoff \in Nat
    BY InstantsAssumption
  <2> QED
    BY <1>1, <1>2, <1>3, <2>1, VerifiedIs, Zenon
<1> QED
  BY <1>4, <1>5, <1>6, Zenon

(* Registration compares an item with its direct parents only; nothing in  *)
(* its lineage became known later, so that a cutoff admits an item of      *)
(* intact lineage by its own time, and refuses it only then, or if a       *)
(* parent is neither source nor evidence.                                  *)
THEOREM LineageTheorem == Spec => []LineageIsSound
<1>1. LineageInv => LineageIsSound
  <2>1. LineageIsSound <=> (input.kind = "items" /\ input.store # <<>> => SoundStore(input.store))
    BY Zenon DEF LineageIsSound, SoundStore
  <2> QED
    BY <2>1, RegisteredIsSound DEF LineageInv
<1> QED
  BY <1>1, ItemsStart, ItemsStay, ScopesStart, ScopesStay, PTL DEF Spec
---------------------------------------------------------------------------
(* Induction and recursion up to a number, for sets and functions.         *)

(* What holds of 0 and passes from each number to the next holds up to n.  *)
LEMMA UpTo ==
  ASSUME NEW n \in Nat, NEW S, 0 \in S, \A k \in 1..n : k - 1 \in S => k \in S
  PROVE  \A k \in 0..n : k \in S
<1> DEFINE Missing == {k \in Nat : k \in 0..n /\ k \notin S}
<1> SUFFICES ASSUME Missing # {} PROVE FALSE
  OBVIOUS
<1>1. PICK m \in Missing : \A k \in Missing : m <= k
  BY LeastNatural
<1>2. m \in 1..n
  BY <1>1
<1>3. m - 1 \in 0..n /\ m - 1 \notin Missing
  BY <1>1, <1>2
<1> QED
  BY <1>1, <1>2, <1>3

(* The successive values of a recursion that takes one step at each number. *)
Course(f, D, a, step, n) ==
    /\ f \in [0..n -> D]
    /\ f[0] = a
    /\ \A k \in 1..n : f[k] = step[k][f[k - 1]]

LEMMA CourseExists ==
  ASSUME NEW n \in Nat, NEW D, NEW a \in D, NEW step \in [1..n -> [D -> D]]
  PROVE  \E f : Course(f, D, a, step, n)
<1> DEFINE S == {m \in 0..n : \E f : Course(f, D, a, step, m)}
<1>1. 0 \in S
  <2>1. Course([k \in 0..0 |-> a], D, a, step, 0)
    BY DEF Course
  <2> QED
    BY <2>1
<1>2. ASSUME NEW m \in 1..n, m - 1 \in S PROVE m \in S
  <2>1. PICK f : Course(f, D, a, step, m - 1)
    BY <1>2
  <2>2. PICK g : g = [k \in 0..m |-> IF k = m THEN step[m][f[m - 1]] ELSE f[k]]
    OBVIOUS
  <2>3. f \in [0..(m - 1) -> D] /\ f[0] = a /\ \A k \in 1..(m - 1) : f[k] = step[k][f[k - 1]]
    BY <2>1 DEF Course
  <2>4. step[m][f[m - 1]] \in D
    BY <2>3
  <2>5. g \in [0..m -> D] /\ g[0] = a
    BY <2>2, <2>3, <2>4
  <2>6. ASSUME NEW k \in 1..m PROVE g[k] = step[k][g[k - 1]]
    BY <2>2, <2>3
  <2>7. Course(g, D, a, step, m)
    BY <2>5, <2>6 DEF Course
  <2> QED
    BY <2>7
<1> HIDE DEF S
<1>3. \A m \in 1..n : m - 1 \in S => m \in S
  BY <1>2
<1>4. \A k \in 0..n : k \in S
  BY <1>1, <1>3, UpTo
<1> QED
  BY <1>4 DEF S

----------------------------------------------------------------------------
(* Sorting.  A ranking numbers the elements of a finite set.               *)

LEMMA RankingInverts ==
  ASSUME NEW S, IsFiniteSet(S), NEW n, n = Cardinality(S), NEW rank \in [S -> 1..n],
         \A x, y \in S : rank[x] = rank[y] => x = y
  PROVE  /\ n \in Nat
         /\ AntiFunction(rank) \in [1..n -> S]
         /\ \A k \in 1..n : rank[AntiFunction(rank)[k]] = k
         /\ \A x \in S : AntiFunction(rank)[rank[x]] = x
<1>1. n \in Nat
  BY FS_CardinalityType
<1>2. IsFiniteSet(1..n) /\ Cardinality(1..n) = n
  BY <1>1, FS_Interval
<1>3. rank \in Injection(S, 1..n)
  BY DEF Injection, IsInjective
<1>4. rank \in Surjection(S, 1..n)
  BY <1>2, <1>3, FS_Injection
<1>5. \A k \in 1..n : \E x \in S : rank[x] = k
  BY <1>4 DEF Surjection
<1>6. Range(rank) = 1..n
  BY <1>5 DEF Range
<1>7. AntiFunction(rank) = [k \in 1..n |-> CHOOSE x \in S : k \in Range(rank) => rank[x] = k]
  BY <1>6 DEF AntiFunction, Inverse
<1>8. \A k \in 1..n : AntiFunction(rank)[k] \in S /\ rank[AntiFunction(rank)[k]] = k
  BY <1>5, <1>6, <1>7
<1> QED
  BY <1>1, <1>7, <1>8

(* Counting what does not come later ranks the elements of a total order.  *)
LEMMA CountingRanks ==
  ASSUME NEW S, IsFiniteSet(S), NEW n, n = Cardinality(S), NEW upto \in [S -> SUBSET S],
         \A x \in S : x \in upto[x],
         \A x, y \in S : x # y => (x \in upto[y] <=> y \notin upto[x]),
         \A x, y \in S : x \in upto[y] => upto[x] \subseteq upto[y],
         NEW rank, rank = [x \in S |-> Cardinality(upto[x])]
  PROVE  /\ rank \in [S -> 1..n]
         /\ \A x, y \in S : rank[x] = rank[y] => x = y
         /\ \A x, y \in S : rank[x] <= rank[y] <=> x \in upto[y]
<1>1. ASSUME NEW x \in S PROVE IsFiniteSet(upto[x]) /\ Cardinality(upto[x]) \in 1..n
  <2>1. IsFiniteSet(upto[x]) /\ Cardinality(upto[x]) <= n /\ Cardinality(upto[x]) \in Nat /\ n \in Nat
    BY FS_Subset, FS_CardinalityType
  <2>2. Cardinality(upto[x]) # 0
    BY <2>1, FS_EmptySet
  <2> QED
    BY <2>1, <2>2
<1>2. ASSUME NEW x \in S, NEW y \in S, x \in upto[y], x # y PROVE Cardinality(upto[x]) < Cardinality(upto[y])
  <2>1. upto[x] \subseteq upto[y] /\ upto[x] # upto[y]
    BY <1>2
  <2>2. Cardinality(upto[x]) <= Cardinality(upto[y]) /\ Cardinality(upto[x]) # Cardinality(upto[y])
    BY <1>1, <2>1, FS_Subset
  <2> QED
    BY <1>1, <2>2
<1>3. \A x \in S : rank[x] = Cardinality(upto[x])
  OBVIOUS
<1> QED
  BY <1>1, <1>2, <1>3

(* SortedBy lists the elements of a finite set once each.                  *)
LEMMA SortedIs ==
  ASSUME NEW S, IsFiniteSet(S), NEW key, \A x \in S : key[x] \in Int,
         \A x, y \in S : key[x] = key[y] => x = y
  PROVE  /\ Cardinality(S) \in Nat
         /\ SortedBy(S, key) \in [1..Cardinality(S) -> S]
         /\ \A i, j \in 1..Cardinality(S) : SortedBy(S, key)[i] = SortedBy(S, key)[j] => i = j
         /\ \A x \in S : \E i \in 1..Cardinality(S) : SortedBy(S, key)[i] = x
         /\ \A i, j \in 1..Cardinality(S) : i < j => key[SortedBy(S, key)[i]] < key[SortedBy(S, key)[j]]
<1>0. PICK upto : upto = [x \in S |-> {y \in S : key[y] <= key[x]}]
  OBVIOUS
<1>n. PICK n : n = Cardinality(S)
  OBVIOUS
<1>1. PICK rank : rank = [x \in S |-> Cardinality(upto[x])]
  OBVIOUS
<1>2. SortedBy(S, key) = AntiFunction(rank)
  BY <1>0, <1>1 DEF SortedBy
<1>3. /\ upto \in [S -> SUBSET S]
      /\ \A x \in S : x \in upto[x]
      /\ \A x, y \in S : x # y => (x \in upto[y] <=> y \notin upto[x])
      /\ \A x, y \in S : x \in upto[y] => upto[x] \subseteq upto[y]
  BY <1>0
<1>4. /\ rank \in [S -> 1..n]
      /\ \A x, y \in S : rank[x] = rank[y] => x = y
      /\ \A x, y \in S : rank[x] <= rank[y] <=> x \in upto[y]
  BY <1>n, <1>1, <1>3, CountingRanks
<1>5. /\ n \in Nat
      /\ AntiFunction(rank) \in [1..n -> S]
      /\ \A k \in 1..n : rank[AntiFunction(rank)[k]] = k
      /\ \A x \in S : AntiFunction(rank)[rank[x]] = x
  BY <1>n, <1>4, RankingInverts
<1>6. ASSUME NEW i \in 1..n, NEW j \in 1..n, i < j
      PROVE  key[AntiFunction(rank)[i]] < key[AntiFunction(rank)[j]]
  <2>1. PICK x \in S, y \in S : x = AntiFunction(rank)[i] /\ y = AntiFunction(rank)[j]
    BY <1>5
  <2>2. rank[x] = i /\ rank[y] = j
    BY <1>5, <2>1
  <2>3. y \notin upto[x]
    BY <1>4, <1>6, <2>2
  <2>4. key[x] < key[y]
    BY <1>0, <2>3
  <2> QED
    BY <2>1, <2>4
<1> QED
  BY <1>2, <1>4, <1>5, <1>6, <1>n
---------------------------------------------------------------------------
(* Lists without repetition, and loops over a queue.                       *)

LEMMA SetOfAppend ==
  ASSUME NEW S, NEW s \in Seq(S), NEW e \in S
  PROVE  /\ Append(s, e) \in Seq(S) /\ ToSet(Append(s, e)) = ToSet(s) \cup {e}
         /\ Len(Append(s, e)) = Len(s) + 1
         /\ IsInjective(s) /\ e \notin ToSet(s) => IsInjective(Append(s, e))
<1>1. PICK t : t = Append(s, e)
  OBVIOUS
<1>2. t \in Seq(S) /\ Len(t) = Len(s) + 1 /\ t[Len(s) + 1] = e /\ \A i \in 1..Len(s) : t[i] = s[i]
  BY <1>1
<1>3. DOMAIN t = 1..(Len(s) + 1) /\ DOMAIN s = 1..Len(s) /\ Len(s) \in Nat
  BY <1>2
<1>4. ToSet(t) = ToSet(s) \cup {e}
  BY <1>2, <1>3 DEF ToSet
<1>5. ASSUME IsInjective(s), e \notin ToSet(s) PROVE IsInjective(t)
  <2>1. \A i \in 1..Len(s) : s[i] # e
    BY <1>3, <1>5 DEF ToSet
  <2>2. \A i, j \in 1..Len(s) : s[i] = s[j] => i = j
    BY <1>3, <1>5 DEF IsInjective
  <2>3. \A i \in 1..(Len(s) + 1) : i \in 1..Len(s) \/ i = Len(s) + 1
    BY <1>3
  <2> QED
    BY <1>2, <1>3, <2>1, <2>2, <2>3 DEF IsInjective
<1> QED
  BY <1>1, <1>2, <1>4, <1>5

LEMMA SetOfConcat ==
  ASSUME NEW S, NEW s \in Seq(S), NEW t \in Seq(S)
  PROVE  /\ s \o t \in Seq(S) /\ ToSet(s \o t) = ToSet(s) \cup ToSet(t)
         /\ Len(s \o t) = Len(s) + Len(t)
         /\ IsInjective(s) /\ IsInjective(t) /\ ToSet(s) \cap ToSet(t) = {} => IsInjective(s \o t)
<1>1. PICK u : u = s \o t
  OBVIOUS
<1>2. /\ u \in Seq(S) /\ Len(u) = Len(s) + Len(t) /\ DOMAIN u = 1..(Len(s) + Len(t))
      /\ DOMAIN s = 1..Len(s) /\ DOMAIN t = 1..Len(t) /\ Len(s) \in Nat /\ Len(t) \in Nat
  BY <1>1
<1>3. \A i \in 1..(Len(s) + Len(t)) : u[i] = IF i <= Len(s) THEN s[i] ELSE t[i - Len(s)]
  BY <1>1
<1>4. \A i \in 1..Len(s) : i \in DOMAIN u /\ u[i] = s[i]
  BY <1>2, <1>3
<1>5. \A i \in 1..Len(t) : i + Len(s) \in DOMAIN u /\ u[i + Len(s)] = t[i]
  BY <1>2, <1>3
<1>6. ASSUME NEW i \in DOMAIN u
      PROVE  (i \in 1..Len(s) /\ u[i] = s[i]) \/ (i - Len(s) \in 1..Len(t) /\ u[i] = t[i - Len(s)])
  BY <1>2, <1>3
<1>7. ToSet(u) = ToSet(s) \cup ToSet(t)
  <2>1. ToSet(u) \subseteq ToSet(s) \cup ToSet(t)
    BY <1>2, <1>6 DEF ToSet
  <2>2. ToSet(s) \subseteq ToSet(u)
    BY <1>2, <1>4 DEF ToSet
  <2>3. ToSet(t) \subseteq ToSet(u)
    BY <1>2, <1>5 DEF ToSet
  <2> QED
    BY <2>1, <2>2, <2>3
<1>8. ASSUME IsInjective(s), IsInjective(t), ToSet(s) \cap ToSet(t) = {}, NEW i \in DOMAIN u, NEW j \in DOMAIN u, u[i] = u[j]
      PROVE  i = j
  <2>1. \A a \in 1..Len(s), b \in 1..Len(t) : s[a] # t[b]
    BY <1>2, <1>8 DEF ToSet
  <2>2. \A a, b \in 1..Len(s) : s[a] = s[b] => a = b
    BY <1>2, <1>8 DEF IsInjective
  <2>3. \A a, b \in 1..Len(t) : t[a] = t[b] => a = b
    BY <1>2, <1>8 DEF IsInjective
  <2>4. i \in Int /\ j \in Int
    BY <1>2
  <2> QED
    BY <1>2, <1>6, <1>8, <2>1, <2>2, <2>3, <2>4
<1> QED
  BY <1>1, <1>2, <1>7, <1>8 DEF IsInjective

LEMMA SetOfTail ==
  ASSUME NEW S, NEW s \in Seq(S), s # <<>>
  PROVE  /\ Head(s) \in S /\ Tail(s) \in Seq(S) /\ ToSet(s) = {Head(s)} \cup ToSet(Tail(s))
         /\ Len(Tail(s)) = Len(s) - 1 /\ Len(s) \in Nat \ {0}
         /\ IsInjective(s) => IsInjective(Tail(s)) /\ Head(s) \notin ToSet(Tail(s))
<1>1. PICK t : t = Tail(s)
  OBVIOUS
<1>2. Len(s) \in Nat /\ Len(s) # 0 /\ DOMAIN s = 1..Len(s)
  OBVIOUS
<1>3. t \in Seq(S) /\ Len(t) = Len(s) - 1 /\ DOMAIN t = 1..(Len(s) - 1)
  BY <1>1, <1>2
<1>4. \A i \in 1..(Len(s) - 1) : t[i] = s[i + 1]
  BY <1>1, <1>2
<1>5. Head(s) = s[1] /\ Head(s) \in S
  BY <1>2
<1>6. \A i \in 1..Len(s) : i = 1 \/ (i - 1 \in 1..(Len(s) - 1) /\ t[i - 1] = s[i])
  BY <1>2, <1>4
<1>7. ToSet(s) = {Head(s)} \cup ToSet(t)
  <2>1. ToSet(s) \subseteq {Head(s)} \cup ToSet(t)
    BY <1>2, <1>3, <1>5, <1>6 DEF ToSet
  <2>2. \A i \in 1..(Len(s) - 1) : i + 1 \in 1..Len(s)
    BY <1>2
  <2>3. Head(s) \in ToSet(s)
    BY <1>2, <1>5 DEF ToSet
  <2>4. \A i \in 1..(Len(s) - 1) : t[i] \in ToSet(s)
    BY <1>2, <1>4, <2>2 DEF ToSet
  <2>5. {Head(s)} \cup ToSet(t) \subseteq ToSet(s)
    BY <1>3, <2>3, <2>4 DEF ToSet
  <2> QED
    BY <2>1, <2>5
<1>8. ASSUME IsInjective(s) PROVE IsInjective(t) /\ Head(s) \notin ToSet(t)
  <2>1. \A i, j \in 1..Len(s) : s[i] = s[j] => i = j
    BY <1>2, <1>8 DEF IsInjective
  <2>2. \A i \in 1..(Len(s) - 1) : i + 1 \in 1..Len(s) /\ i + 1 # 1
    BY <1>2
  <2>3. \A i, j \in 1..(Len(s) - 1) : t[i] = t[j] => i = j
    BY <1>2, <1>4, <2>1, <2>2
  <2>4. \A i \in 1..(Len(s) - 1) : t[i] # s[1]
    BY <1>2, <1>4, <2>1, <2>2
  <2> QED
    BY <1>3, <1>5, <2>3, <2>4 DEF IsInjective, ToSet
<1> QED
  BY <1>1, <1>2, <1>3, <1>5, <1>7, <1>8

LEMMA SetOfPrefix ==
  ASSUME NEW S, NEW s \in Seq(S), NEW i \in 1..(Len(s) + 1)
  PROVE  ToSet(SubSeq(s, 1, i - 1)) = {s[j] : j \in 1..(i - 1)}
<1>1. PICK t : t = SubSeq(s, 1, i - 1)
  OBVIOUS
<1>2. DOMAIN t = 1..(i - 1) /\ \A j \in 1..(i - 1) : t[j] = s[j]
  BY <1>1
<1> QED
  BY <1>1, <1>2 DEF ToSet

LEMMA SetOfEmpty == ToSet(<<>>) = {} /\ IsInjective(<<>>)
BY DEF ToSet, IsInjective

(* A list without repetition is as long as its set is large.               *)
LEMMA LengthIsCardinality ==
  ASSUME NEW S, NEW s \in Seq(S), IsInjective(s)
  PROVE  IsFiniteSet(ToSet(s)) /\ Cardinality(ToSet(s)) = Len(s)
<1>1. PICK n \in Nat : n = Len(s) /\ DOMAIN s = 1..n
  OBVIOUS
<1>2. s \in [1..n -> ToSet(s)]
  BY <1>1 DEF ToSet
<1>3. s \in Surjection(1..n, ToSet(s))
  BY <1>1, <1>2 DEF Surjection, ToSet
<1>4. s \in Injection(1..n, ToSet(s))
  BY <1>2 DEF Injection
<1>5. ExistsBijection(1..n, ToSet(s))
  BY <1>3, <1>4 DEF ExistsBijection, Bijection
<1>6. IsFiniteSet(ToSet(s)) /\ Cardinality(ToSet(s)) = n
  BY <1>5, FS_CountingElements, FS_NatBijection
<1> QED
  BY <1>1, <1>6

(* The elements of a set by keys, as a list.                               *)
LEMMA SetOfSorted ==
  ASSUME NEW N, NEW S \in SUBSET N, IsFiniteSet(S), NEW key, \A x \in S : key[x] \in Int,
         \A x, y \in S : key[x] = key[y] => x = y
  PROVE  /\ SortedBy(S, key) \in Seq(N) /\ ToSet(SortedBy(S, key)) = S /\ IsInjective(SortedBy(S, key))
         /\ Len(SortedBy(S, key)) = Cardinality(S) /\ Cardinality(S) \in Nat
<1>1. PICK n, s : n = Cardinality(S) /\ s = SortedBy(S, key)
  OBVIOUS
<1>2. /\ n \in Nat /\ s \in [1..n -> S]
      /\ \A i, j \in 1..n : s[i] = s[j] => i = j
      /\ \A x \in S : \E i \in 1..n : s[i] = x
  BY <1>1, SortedIs
<1>3. s \in Seq(N) /\ Len(s) = n /\ DOMAIN s = 1..n
  BY <1>2
<1> QED
  BY <1>1, <1>2, <1>3 DEF ToSet, IsInjective

(* Equal turns of a loop.                                                  *)
Loop(t, a, on, n) == t = [k \in 0..n |-> IF k = 0 THEN a ELSE on[t[k - 1]]]

LEMMA LoopExists ==
  ASSUME NEW n \in Nat, NEW D, NEW a \in D, NEW on \in [D -> D]
  PROVE  \E t : Loop(t, a, on, n)
<1>1. PICK step : step = [k \in 1..n |-> on]
  OBVIOUS
<1>2. PICK t : Course(t, D, a, step, n)
  BY <1>1, CourseExists
<1>3. \A k \in 0..n : t[k] = IF k = 0 THEN a ELSE on[t[k - 1]]
  <2>1. \A k \in 0..n : k # 0 => k \in 1..n
    OBVIOUS
  <2> QED
    BY <1>1, <1>2, <2>1 DEF Course
<1> QED
  BY <1>2, <1>3 DEF Course, Loop

LEMMA LoopIs ==
  ASSUME NEW n \in Nat, NEW D, NEW a \in D, NEW on \in [D -> D],
         NEW t, Loop(t, a, on, n)
  PROVE  /\ t[0] = a
         /\ \A k \in 1..n : t[k - 1] \in D /\ t[k] = on[t[k - 1]]
         /\ \A k \in 0..n : t[k] \in D
<1> DEFINE Step(k) == IF k = 0 THEN a ELSE on[t[k - 1]]
<1>1. t = [k \in 0..n |-> Step(k)]
  BY DEF Loop
<1> HIDE DEF Step
<1>2. \A k \in 0..n : t[k] = Step(k)
  BY <1>1
<1> USE DEF Step
<1>3. t[0] = a /\ \A k \in 1..n : t[k] = on[t[k - 1]]
  BY <1>2
<1> DEFINE Typed == {k \in 0..n : t[k] \in D}
<1>4. 0 \in Typed
  BY <1>3
<1>5. \A k \in 1..n : k - 1 \in Typed => k \in Typed
  BY <1>3
<1> HIDE DEF Typed, Step
<1>6. \A k \in 0..n : k \in Typed
  BY <1>4, <1>5, UpTo
<1>7. \A k \in 0..n : t[k] \in D
  BY <1>6 DEF Typed
<1>8. \A k \in 1..n : k - 1 \in 0..n
  OBVIOUS
<1> QED
  BY <1>3, <1>7, <1>8
---------------------------------------------------------------------------
(* topological_order.                                                      *)

KahnMet(s) == ToSet(s.queue) \cup ToSet(s.result)

(* What Kahn's loop keeps: the nodes met are those whose prerequisites are *)
(* all listed, each is met once, and a degree counts what is not listed.   *)
KahnInv(parents, s) ==
    /\ s \in [queue : Seq(DOMAIN parents), degree : [DOMAIN parents -> Nat], result : Seq(DOMAIN parents)]
    /\ IsInjective(s.queue) /\ IsInjective(s.result) /\ ToSet(s.queue) \cap ToSet(s.result) = {}
    /\ \A n \in DOMAIN parents : s.degree[n] = Cardinality(parents[n] \ ToSet(s.result))
    /\ \A n \in DOMAIN parents : n \in KahnMet(s) <=> parents[n] \subseteq ToSet(s.result)
    /\ \A i \in DOMAIN s.result : parents[s.result[i]] \subseteq ToSet(SubSeq(s.result, 1, i - 1))

IsGraph(parents, key) ==
    /\ IsFiniteSet(DOMAIN parents)
    /\ \A n \in DOMAIN parents : parents[n] \subseteq DOMAIN parents /\ key[n] \in Int
    /\ \A m, n \in DOMAIN parents : key[m] = key[n] => m = n

KahnStart(parents, key) ==
    [queue  |-> SortedBy({n \in DOMAIN parents : parents[n] = {}}, key),
     degree |-> [n \in DOMAIN parents |-> Cardinality(parents[n])],
     result |-> <<>>]

LEMMA KahnStarts ==
  ASSUME NEW parents, NEW key, IsGraph(parents, key)
  PROVE  KahnInv(parents, KahnStart(parents, key))
<1>1. PICK N, R, q, s : /\ N = DOMAIN parents /\ R = {n \in N : parents[n] = {}}
                        /\ q = SortedBy(R, key) /\ s = KahnStart(parents, key)
  OBVIOUS
<1>2. s.queue = q /\ s.degree = [n \in N |-> Cardinality(parents[n])] /\ s.result = <<>>
      /\ s = [queue |-> q, degree |-> s.degree, result |-> <<>>]
  BY <1>1 DEF KahnStart
<1>3. q \in Seq(N) /\ ToSet(q) = R /\ IsInjective(q)
  <2>1. R \in SUBSET N /\ IsFiniteSet(R)
    BY <1>1, FS_Subset DEF IsGraph
  <2> QED
    BY <1>1, <2>1, SetOfSorted DEF IsGraph
<1>4. s.degree \in [N -> Nat]
  BY <1>1, <1>2, FS_Subset, FS_CardinalityType DEF IsGraph
<1>5. <<>> \in Seq(N) /\ ToSet(<<>>) = {} /\ IsInjective(<<>>)
  BY SetOfEmpty
<1>6. s \in [queue : Seq(N), degree : [N -> Nat], result : Seq(N)]
  BY <1>2, <1>3, <1>4, <1>5
<1>7. \A n \in N : parents[n] \ ToSet(s.result) = parents[n]
  BY <1>2, <1>5
<1>8. \A n \in N : s.degree[n] = Cardinality(parents[n] \ ToSet(s.result))
  BY <1>2, <1>7
<1>9. \A n \in N : n \in KahnMet(s) <=> parents[n] \subseteq ToSet(s.result)
  BY <1>1, <1>2, <1>3, <1>5 DEF KahnMet
<1>10. DOMAIN s.result = {}
  BY <1>2
<1> QED
  BY <1>1, <1>2, <1>3, <1>5, <1>6, <1>8, <1>9, <1>10 DEF KahnInv

LEMMA KahnStepKeeps ==
  ASSUME NEW parents, NEW key, IsGraph(parents, key), NEW s, KahnInv(parents, s), s.queue # <<>>
  PROVE  KahnInv(parents, KahnStep(parents, key, s)) /\ Len(KahnStep(parents, key, s).result) = Len(s.result) + 1
<1>1. PICK N, node, kids, ready, z :
        /\ N = DOMAIN parents /\ node = Head(s.queue) /\ kids = ChildrenOf(parents, node)
        /\ ready = {n \in kids : s.degree[n] = 1} /\ z = KahnStep(parents, key, s)
  OBVIOUS
<1>2. z = [queue  |-> Tail(s.queue) \o SortedBy(ready, key),
           degree |-> [n \in N |-> IF n \in kids THEN s.degree[n] - 1 ELSE s.degree[n]],
           result |-> Append(s.result, node)]
  BY <1>1 DEF KahnStep
<1>3. /\ s.queue \in Seq(N) /\ s.degree \in [N -> Nat] /\ s.result \in Seq(N)
      /\ IsInjective(s.queue) /\ IsInjective(s.result) /\ ToSet(s.queue) \cap ToSet(s.result) = {}
  BY <1>1 DEF KahnInv
<1>4. /\ node \in N /\ Tail(s.queue) \in Seq(N) /\ IsInjective(Tail(s.queue))
      /\ node \notin ToSet(Tail(s.queue)) /\ ToSet(s.queue) = {node} \cup ToSet(Tail(s.queue))
  BY <1>1, <1>3, SetOfTail
<1>5. node \notin ToSet(s.result)
  BY <1>3, <1>4
<1>6. kids = {n \in N : node \in parents[n]}
  BY <1>1 DEF ChildrenOf
<1>7. PICK done, after : done = ToSet(s.result) /\ after = done \cup {node}
  OBVIOUS
<1>8. ASSUME NEW n \in N
      PROVE  /\ IsFiniteSet(parents[n] \ done) /\ IsFiniteSet(parents[n] \ after)
             /\ s.degree[n] = Cardinality(parents[n] \ done)
             /\ Cardinality(parents[n] \ after) = IF n \in kids THEN s.degree[n] - 1 ELSE s.degree[n]
             /\ Cardinality(parents[n] \ after) \in Nat
             /\ n \in kids => (s.degree[n] = 1 <=> parents[n] \subseteq after)
  <2>1. IsFiniteSet(parents[n])
    BY <1>1, FS_Subset DEF IsGraph
  <2>2. IsFiniteSet(parents[n] \ done) /\ IsFiniteSet(parents[n] \ after)
    BY <2>1, FS_Subset
  <2>3. s.degree[n] = Cardinality(parents[n] \ done)
    BY <1>1, <1>7 DEF KahnInv
  <2>4. parents[n] \ after = (parents[n] \ done) \ {node}
    BY <1>7
  <2>5. Cardinality(parents[n] \ after) =
          IF node \in parents[n] \ done THEN Cardinality(parents[n] \ done) - 1 ELSE Cardinality(parents[n] \ done)
    <3>1. PICK P : P = parents[n] \ done
      OBVIOUS
    <3>2. Cardinality(P \ {node}) = IF node \in P THEN Cardinality(P) - 1 ELSE Cardinality(P)
      BY <2>2, <3>1, FS_RemoveElement
    <3> QED
      BY <2>4, <3>1, <3>2
  <2>6. node \in parents[n] \ done <=> n \in kids
    BY <1>5, <1>6, <1>7
  <2>7. Cardinality(parents[n] \ after) \in Nat /\ Cardinality(parents[n] \ done) \in Nat
    BY <2>2, FS_CardinalityType
  <2>8. Cardinality(parents[n] \ after) = 0 <=> parents[n] \subseteq after
    BY <2>2, FS_EmptySet
  <2> QED
    BY <2>2, <2>3, <2>5, <2>6, <2>7, <2>8
<1>9. ready \in SUBSET N /\ ready = {n \in kids : parents[n] \subseteq after}
  BY <1>1, <1>6, <1>8
<1>10. PICK q : q = SortedBy(ready, key)
  OBVIOUS
<1>11. q \in Seq(N) /\ ToSet(q) = ready /\ IsInjective(q)
  <2>1. IsFiniteSet(ready)
    BY <1>1, <1>9, FS_Subset DEF IsGraph
  <2> QED
    BY <1>1, <1>9, <1>10, <2>1, SetOfSorted DEF IsGraph
<1>12. ready \cap (ToSet(s.queue) \cup done) = {}
  <2>1. \A n \in ready : ~ parents[n] \subseteq done
    BY <1>5, <1>6, <1>7, <1>9
  <2> QED
    BY <1>1, <1>7, <1>9, <2>1 DEF KahnInv, KahnMet
<1>13. /\ z.queue \in Seq(N) /\ IsInjective(z.queue)
       /\ ToSet(z.queue) = ToSet(Tail(s.queue)) \cup ready
  <2>1. ToSet(Tail(s.queue)) \cap ToSet(q) = {}
    BY <1>4, <1>11, <1>12
  <2>2. PICK tail : tail = Tail(s.queue)
    OBVIOUS
  <2>3. z.queue = tail \o q
    BY <1>2, <1>10, <2>2
  <2>5. tail \in Seq(N) /\ IsInjective(tail) /\ ToSet(tail) \cap ToSet(q) = {}
    BY <1>4, <2>1, <2>2
  <2>6. tail \o q \in Seq(N) /\ ToSet(tail \o q) = ToSet(tail) \cup ToSet(q) /\ IsInjective(tail \o q)
    BY <1>11, <2>5, SetOfConcat
  <2> QED
    BY <1>11, <2>2, <2>3, <2>6
<1>14. /\ z.result \in Seq(N) /\ IsInjective(z.result) /\ ToSet(z.result) = after
       /\ Len(z.result) = Len(s.result) + 1
  BY <1>2, <1>3, <1>4, <1>5, <1>7, SetOfAppend
<1>15. /\ z.degree = [n \in N |-> Cardinality(parents[n] \ after)] /\ z.degree \in [N -> Nat]
  BY <1>2, <1>8
<1>16. ToSet(z.queue) \cap ToSet(z.result) = {}
  BY <1>3, <1>4, <1>7, <1>12, <1>13, <1>14
<1>17. ASSUME NEW n \in N PROVE n \in KahnMet(z) <=> parents[n] \subseteq ToSet(z.result)
  <2>1. n \in KahnMet(z) <=> n \in KahnMet(s) \/ n \in ready
    BY <1>4, <1>7, <1>13, <1>14 DEF KahnMet
  <2>2. n \in KahnMet(s) <=> parents[n] \subseteq done
    BY <1>1, <1>7 DEF KahnInv
  <2>3. parents[n] \subseteq after <=> parents[n] \subseteq done \/ n \in ready
    BY <1>6, <1>7, <1>9
  <2> QED
    BY <1>14, <2>1, <2>2, <2>3
<1>18. ASSUME NEW i \in DOMAIN z.result
       PROVE  parents[z.result[i]] \subseteq ToSet(SubSeq(z.result, 1, i - 1))
  <2>1. PICK m : m = Len(s.result) /\ m \in Nat /\ DOMAIN s.result = 1..m
    BY <1>3
  <2>2. DOMAIN z.result = 1..(m + 1) /\ z.result[m + 1] = node /\ \A j \in 1..m : z.result[j] = s.result[j]
    BY <1>2, <1>3, <1>4, <2>1
  <2>3. ToSet(SubSeq(z.result, 1, i - 1)) = {z.result[j] : j \in 1..(i - 1)}
    <3>1. i \in 1..(Len(z.result) + 1)
      BY <1>14, <2>1, <2>2
    <3> QED
      BY <1>14, <3>1, SetOfPrefix
  <2>4. \A j \in 1..(i - 1) : j \in 1..m /\ z.result[j] = s.result[j]
    BY <2>1, <2>2
  <2>5. {z.result[j] : j \in 1..(i - 1)} = {s.result[j] : j \in 1..(i - 1)}
    BY <2>4
  <2>6. CASE i = m + 1
    <3>1. parents[node] \subseteq done
      BY <1>1, <1>4, <1>7 DEF KahnInv, KahnMet
    <3>2. done = {s.result[j] : j \in 1..m}
      BY <1>7, <2>1 DEF ToSet
    <3>3. i - 1 = m
      BY <2>1, <2>6
    <3> QED
      BY <2>2, <2>3, <2>5, <2>6, <3>1, <3>2, <3>3
  <2>7. CASE i # m + 1
    <3>1. i \in 1..m /\ z.result[i] = s.result[i]
      BY <2>1, <2>2, <2>7
    <3>2. parents[s.result[i]] \subseteq ToSet(SubSeq(s.result, 1, i - 1))
      BY <2>1, <3>1 DEF KahnInv
    <3>3. ToSet(SubSeq(s.result, 1, i - 1)) = {s.result[j] : j \in 1..(i - 1)}
      <4>1. i \in 1..(Len(s.result) + 1)
        BY <2>1, <3>1
      <4> QED
        BY <1>3, <4>1, SetOfPrefix
    <3> QED
      BY <2>3, <2>5, <3>1, <3>2, <3>3
  <2> QED
    BY <2>6, <2>7
<1>19. z \in [queue : Seq(N), degree : [N -> Nat], result : Seq(N)]
  BY <1>2, <1>13, <1>14, <1>15
<1>20. \A n \in N : z.degree[n] = Cardinality(parents[n] \ ToSet(z.result))
  BY <1>14, <1>15
<1>21. KahnInv(parents, z)
  BY <1>1, <1>13, <1>14, <1>16, <1>17, <1>18, <1>19, <1>20 DEF KahnInv
<1> QED
  BY <1>1, <1>14, <1>21

(* Where each node of a part has a prerequisite in it, there is a cycle:   *)
(* else a node with the most dependents would have fewer than that one.    *)
LEMMA NoFirstMeansCycle ==
  ASSUME NEW parents, IsFiniteSet(DOMAIN parents), NEW U \in SUBSET DOMAIN parents, U # {},
         \A n \in U : \E m \in U : m \in parents[n]
  PROVE  \E n \in U : OnACycle(parents, n)
<1> DEFINE Below(n) == ClosureOf(parents, ChildrenOf(parents, n))
           N == Cardinality(DOMAIN parents)
<1> SUFFICES ASSUME \A n \in U : n \notin Below(n) PROVE FALSE
  BY DEF OnACycle
<1>1. ASSUME NEW n \in DOMAIN parents
      PROVE  /\ ChildrenOf(parents, n) \subseteq Below(n) /\ Below(n) \subseteq DOMAIN parents
             /\ \A i \in DOMAIN parents : parents[i] \cap Below(n) # {} => i \in Below(n)
             /\ \A C : ChildrenOf(parents, n) \subseteq C /\ (\A i \in DOMAIN parents : parents[i] \cap C # {} => i \in C)
                         => Below(n) \subseteq C
  <2>1. ChildrenOf(parents, n) \in SUBSET DOMAIN parents
    BY DEF ChildrenOf
  <2> QED
    BY <2>1, ClosureIsLeast
<1> HIDE DEF Below
<1>2. ASSUME NEW n \in U PROVE Cardinality(Below(n)) \in Nat /\ Cardinality(Below(n)) <= N /\ N \in Nat
  BY <1>1, FS_Subset, FS_CardinalityType
<1>3. PICK rest : rest = [n \in U |-> N - Cardinality(Below(n))]
  OBVIOUS
<1>4. \A n \in U : rest[n] \in Nat /\ rest[n] = N - Cardinality(Below(n))
  BY <1>2, <1>3
<1>5. PICK n \in U : \A m \in U : rest[n] <= rest[m]
  <2>1. {rest[n] : n \in U} \in SUBSET Nat /\ {rest[n] : n \in U} # {}
    BY <1>4
  <2>2. PICK r \in {rest[n] : n \in U} : \A q \in {rest[n] : n \in U} : r <= q
    BY <2>1, LeastNatural
  <2> QED
    BY <2>2
<1>6. PICK m \in U : m \in parents[n]
  OBVIOUS
<1>7. n \in Below(m) /\ n \notin Below(n)
  BY <1>1, <1>6 DEF ChildrenOf
<1>8. Below(n) \subseteq Below(m)
  <2>1. ChildrenOf(parents, n) \subseteq Below(m)
    BY <1>1, <1>7 DEF ChildrenOf
  <2> QED
    BY <1>1, <2>1
<1>9. Cardinality(Below(n)) < Cardinality(Below(m))
  <2>1. Below(n) # Below(m) /\ IsFiniteSet(Below(m))
    BY <1>1, <1>7, FS_Subset
  <2>2. Cardinality(Below(n)) <= Cardinality(Below(m)) /\ Cardinality(Below(n)) # Cardinality(Below(m))
    BY <1>8, <2>1, FS_Subset
  <2> QED
    BY <1>2, <2>2
<1>10. rest[m] < rest[n]
  BY <1>2, <1>4, <1>9
<1> QED
  BY <1>4, <1>5, <1>10

KahnTurn(parents, key, s) == IF s.queue = <<>> THEN s ELSE KahnStep(parents, key, s)

KahnLoop(t, parents, key) ==
    t = [k \in 0..Cardinality(DOMAIN parents) |->
           IF k = 0 THEN KahnStart(parents, key) ELSE KahnTurn(parents, key, t[k - 1])]

LEMMA KahnLoops ==
  ASSUME NEW parents, NEW key, IsGraph(parents, key), NEW n, n = Cardinality(DOMAIN parents)
  PROVE  /\ n \in Nat
         /\ \E t : KahnLoop(t, parents, key)
         /\ \A t : KahnLoop(t, parents, key) =>
              KahnInv(parents, t[n]) /\ (t[n].queue = <<>> \/ Len(t[n].result) = n)
<1>1. n \in Nat
  BY FS_CardinalityType DEF IsGraph
<1>0. PICK D : D = {s \in [queue : Seq(DOMAIN parents), degree : [DOMAIN parents -> Nat], result : Seq(DOMAIN parents)] :
                     KahnInv(parents, s)}
  OBVIOUS
<1>2. PICK a, on : a = KahnStart(parents, key) /\ on = [s \in D |-> KahnTurn(parents, key, s)]
  OBVIOUS
<1>3. a \in D
  BY <1>0, <1>2, KahnStarts DEF KahnInv
<1>4. ASSUME NEW s \in D
      PROVE  /\ on[s] \in D /\ on[s] = KahnTurn(parents, key, s) /\ KahnInv(parents, s)
             /\ s.queue # <<>> => Len(on[s].result) = Len(s.result) + 1
  <2>1. KahnTurn(parents, key, s) \in D /\ (s.queue # <<>> => Len(KahnTurn(parents, key, s).result) = Len(s.result) + 1)
    <3>1. CASE s.queue = <<>>
      BY <1>0, <3>1 DEF KahnTurn
    <3>2. CASE s.queue # <<>>
      <4>1. PICK z : z = KahnStep(parents, key, s)
        OBVIOUS
      <4>2. KahnInv(parents, z) /\ Len(z.result) = Len(s.result) + 1
        BY <1>0, <3>2, <4>1, KahnStepKeeps
      <4>3. KahnTurn(parents, key, s) = z
        BY <3>2, <4>1 DEF KahnTurn
      <4> QED
        BY <1>0, <4>2, <4>3 DEF KahnInv
    <3> QED
      BY <3>1, <3>2
  <2> QED
    BY <1>0, <1>2, <2>1
<1>5. on \in [D -> D]
  BY <1>2, <1>4
<1>6. PICK t0 : Loop(t0, a, on, n)
  BY <1>1, <1>3, <1>5, LoopExists
<1>7. KahnLoop(t0, parents, key)
  <2>1. \A k \in 1..n : t0[k - 1] \in D
    BY <1>1, <1>3, <1>5, <1>6, LoopIs
  <2>2. \A k \in 0..n : k # 0 => k \in 1..n
    OBVIOUS
  <2>3. \A k \in 0..n : (IF k = 0 THEN a ELSE on[t0[k - 1]]) = IF k = 0 THEN KahnStart(parents, key) ELSE KahnTurn(parents, key, t0[k - 1])
    BY <1>2, <1>4, <2>1, <2>2
  <2> QED
    BY <1>6, <2>3 DEF KahnLoop, Loop
<1>8. ASSUME NEW t, KahnLoop(t, parents, key)
      PROVE  KahnInv(parents, t[n]) /\ (t[n].queue = <<>> \/ Len(t[n].result) = n)
  <2> DEFINE Step(k) == IF k = 0 THEN a ELSE KahnTurn(parents, key, t[k - 1])
  <2>1. t = [k \in 0..n |-> Step(k)]
    BY <1>2, <1>8 DEF KahnLoop
  <2> HIDE DEF Step
  <2>2. \A k \in 0..n : t[k] = Step(k)
    BY <2>1
  <2> USE DEF Step
  <2>3. t[0] = a /\ \A k \in 1..n : t[k] = KahnTurn(parents, key, t[k - 1])
    BY <1>1, <2>2
  <2> DEFINE Good == {k \in 0..n : t[k] \in D /\ (t[k].queue = <<>> \/ Len(t[k].result) = k)}
  <2>4. 0 \in Good
    BY <1>1, <1>2, <1>3, <2>3 DEF KahnStart
  <2>5. ASSUME NEW k \in 1..n, k - 1 \in Good PROVE k \in Good
    <3>1. PICK s, z : s = t[k - 1] /\ z = t[k]
      OBVIOUS
    <3>2. s \in D /\ (s.queue = <<>> \/ Len(s.result) = k - 1)
      BY <2>5, <3>1
    <3>3. z = on[s] /\ z = KahnTurn(parents, key, s)
      BY <1>4, <2>3, <3>1, <3>2
    <3>4. z \in D
      BY <1>4, <3>2, <3>3
    <3>5. z.queue = <<>> \/ Len(z.result) = k
      <4>1. CASE s.queue = <<>>
        BY <3>3, <4>1 DEF KahnTurn
      <4>2. CASE s.queue # <<>>
        BY <1>4, <3>2, <3>3, <4>2
      <4> QED
        BY <4>1, <4>2
    <3> QED
      BY <3>1, <3>4, <3>5
  <2> HIDE DEF Good, Step
  <2>6. \A k \in 1..n : k - 1 \in Good => k \in Good
    BY <2>5
  <2>7. \A k \in 0..n : k \in Good
    BY <1>1, <2>4, <2>6, UpTo
  <2>8. n \in Good
    BY <1>1, <2>7
  <2> QED
    BY <1>4, <2>8 DEF Good
<1> QED
  BY <1>1, <1>7, <1>8

(* topological_order lists all nodes of a graph, or finds a cycle.         *)
LEMMA OrderIs ==
  ASSUME NEW parents, NEW key, IsGraph(parents, key)
  PROVE  \/ TopologicalOrder(parents, key) = Circular /\ \E n \in DOMAIN parents : OnACycle(parents, n)
         \/ \E order : TopologicalOrder(parents, key) = Listed(order) /\ IsTopological(parents, order)
<1>1. PICK n : n = Cardinality(DOMAIN parents)
  OBVIOUS
<1> DEFINE chosen == CHOOSE t : t = [k \in 0..Cardinality(DOMAIN parents) |->
                       IF k = 0 THEN KahnStart(parents, key)
                       ELSE LET s == t[k - 1] IN IF s.queue = <<>> THEN s ELSE KahnStep(parents, key, s)]
<1>2. KahnLoop(chosen, parents, key)
  <2>1. \E t : t = [k \in 0..Cardinality(DOMAIN parents) |->
                      IF k = 0 THEN KahnStart(parents, key)
                      ELSE LET s == t[k - 1] IN IF s.queue = <<>> THEN s ELSE KahnStep(parents, key, s)]
    BY KahnLoops DEF KahnLoop, KahnTurn
  <2>2. chosen = [k \in 0..Cardinality(DOMAIN parents) |->
                    IF k = 0 THEN KahnStart(parents, key)
                    ELSE LET s == chosen[k - 1] IN IF s.queue = <<>> THEN s ELSE KahnStep(parents, key, s)]
    BY <2>1
  <2> HIDE DEF chosen
  <2> QED
    BY <2>2 DEF KahnLoop, KahnTurn
<1>3. TopologicalOrder(parents, key) =
        IF Len(chosen[n].result) # n THEN Circular ELSE Listed(chosen[n].result)
  BY <1>1 DEF TopologicalOrder, KahnStart, IsGraph
<1>4. PICK s : s = chosen[n]
  OBVIOUS
<1>5. KahnInv(parents, s) /\ (s.queue = <<>> \/ Len(s.result) = n) /\ n \in Nat
  BY <1>1, <1>2, <1>4, KahnLoops
<1> HIDE DEF chosen
<1>6. PICK listed : listed = s.result
  OBVIOUS
<1>7. /\ listed \in Seq(DOMAIN parents) /\ IsInjective(listed) /\ s.queue \in Seq(DOMAIN parents)
      /\ ToSet(s.queue) \cap ToSet(listed) = {}
  BY <1>5, <1>6 DEF KahnInv
<1>8. Cardinality(ToSet(listed)) = Len(listed) /\ ToSet(listed) \subseteq DOMAIN parents
  <2>1. ToSet(listed) \subseteq DOMAIN parents
    BY <1>7 DEF ToSet
  <2> QED
    BY <1>7, <2>1, LengthIsCardinality
<1>9. CASE Len(listed) = n
  <2>1. ToSet(listed) = DOMAIN parents
    BY <1>1, <1>8, <1>9, FS_Subset DEF IsGraph
  <2>2. IsTopological(parents, listed)
    BY <1>1, <1>5, <1>6, <1>9, <2>1 DEF IsTopological, KahnInv
  <2> QED
    BY <1>3, <1>4, <1>6, <1>9, <2>2
<1>10. CASE Len(listed) # n
  <2>1. s.queue = <<>>
    BY <1>5, <1>6, <1>10
  <2>2. PICK U : U = DOMAIN parents \ ToSet(listed)
    OBVIOUS
  <2>3. U # {}
    BY <1>1, <1>8, <1>10, <2>2
  <2>4. ASSUME NEW i \in U PROVE \E m \in U : m \in parents[i]
    <3>1. i \notin KahnMet(s)
      BY <1>6, <2>1, <2>2, SetOfEmpty DEF KahnMet
    <3>2. ~ parents[i] \subseteq ToSet(listed)
      BY <1>5, <1>6, <2>2, <3>1 DEF KahnInv
    <3> QED
      BY <2>2, <3>2 DEF IsGraph
  <2>5. \E i \in U : OnACycle(parents, i)
    <3>1. U \in SUBSET DOMAIN parents
      BY <2>2
    <3> QED
      BY <2>3, <2>4, <3>1, NoFirstMeansCycle DEF IsGraph
  <2> QED
    BY <1>3, <1>4, <1>6, <1>10, <2>2, <2>5
<1> QED
  BY <1>9, <1>10
---------------------------------------------------------------------------
(* What is asked and answered of the algorithms that are functions.        *)

GraphAsked == input.kind = "graph" /\ input.parents \in [Nodes -> SUBSET (Nodes \cup Outside)]

OrderInv == answer.to = "order" => GraphAsked /\ answer.is = TopologicalOrder(input.parents, Name)

SearchInv ==
    answer.to = "search" =>
      /\ GraphAsked /\ \A n \in Nodes : input.parents[n] \subseteq Nodes
      /\ answer.start \in Nodes /\ answer.end \in Nodes /\ answer.blocked \in SUBSET Nodes
      /\ answer.is = Reachable(input.parents, Name, answer.start, answer.end, answer.blocked)

PathsIn(parents) ==
    [hops \in 1..Cardinality(Nodes) |-> DocumentaryPath(parents, Min(Nodes), Max(Nodes), hops)]

PathInv ==
    answer.to = "path" =>
      /\ GraphAsked /\ \A n \in Nodes : input.parents[n] \subseteq Nodes
      /\ answer.is = PathsIn(input.parents)

ClustersInv ==
    /\ input.kind = "lineages" => input.lineages \in [1..Refs -> Lists]
    /\ answer.to = "clusters" => input.kind = "lineages" /\ answer.is = Clusters(input.lineages)

TestsInv ==
    /\ input.kind = "tests" => input.tests \in [1..Tests -> {ZTest(p) : p \in PValues} \cup {Decided(b) : b \in BOOLEAN}]
    /\ answer.to = "tests" =>
         /\ input.kind = "tests" /\ answer.method \in Policies /\ answer.alpha \in Levels
         /\ Adjustable(Statistical(input.tests), answer.method)
         /\ answer.is = ExecuteTests(input.tests, answer.method, answer.alpha)

FlowInv ==
    /\ input.kind = "network" => input.capacity \in [Pipes -> Capacities]
    /\ answer.to = "flow" => input.kind = "network" /\ answer.is = MaxFlow(input.capacity, Junctions, Source, Sink)

AnswersInv ==
    /\ input.kind = "graph" => GraphAsked
    /\ OrderInv /\ SearchInv /\ PathInv /\ ClustersInv /\ TestsInv /\ FlowInv

LEMMA AnswersStart == Init => AnswersInv
<1> SUFFICES ASSUME Init PROVE AnswersInv
  OBVIOUS
<1>1. answer.to = "nothing"
  BY DEF Init, Unasked
<1>2. input.kind = "graph" => GraphAsked
  <2>1. Graphs \subseteq [Nodes -> SUBSET (Nodes \cup Outside)]
    <3> SUFFICES ASSUME NEW inside \in [Nodes -> SUBSET Nodes], NEW unknown \in SUBSET Outside
                 PROVE  [inside EXCEPT ![Min(Nodes)] = @ \cup unknown] \in [Nodes -> SUBSET (Nodes \cup Outside)]
      BY DEF Graphs
    <3> QED
      OBVIOUS
  <2> QED
    BY <2>1 DEF Init, GraphAsked
<1>3. input.kind = "lineages" => input.lineages \in [1..Refs -> Lists]
  BY DEF Init
<1>4. input.kind = "tests" => input.tests \in [1..Tests -> {ZTest(p) : p \in PValues} \cup {Decided(b) : b \in BOOLEAN}]
  BY DEF Init
<1>5. input.kind = "network" => input.capacity \in [Pipes -> Capacities]
  BY DEF Init
<1> QED
  BY <1>1, <1>2, <1>3, <1>4, <1>5 DEF AnswersInv, OrderInv, SearchInv, PathInv, ClustersInv, TestsInv, FlowInv

(* The inputs of these algorithms are given.                               *)
LEMMA GivenInputs ==
  ASSUME ScopesTyped, [Next]_vars
  PROVE  \/ input' = input
         \/ /\ input.kind \in {"scopes", "items", "records"} /\ input'.kind \in {"scopes", "items", "records"}
            /\ answer' = answer
<1>1. CASE EnterItem
  BY <1>1 DEF EnterItem
<1>2. CASE EnterRecord
  BY <1>2 DEF EnterRecord
<1>3. CASE AskNarrower
  BY <1>3, Narrowed
<1>4. CASE ~ EnterItem /\ ~ EnterRecord /\ ~ AskNarrower
  BY <1>4 DEF Next, AskOrder, AskReachable, AskPath, AskClusters, AskReplay, ReplayEntry, AskTests, AskFlow, vars
<1> QED
  BY <1>1, <1>2, <1>3, <1>4

LEMMA AnswersStay ==
  ASSUME AnswersInv, ScopesTyped, [Next]_vars
  PROVE  AnswersInv'
<1>1. CASE input' # input
  BY <1>1, GivenInputs DEF AnswersInv, OrderInv, SearchInv, PathInv, ClustersInv, TestsInv, FlowInv, GraphAsked
<1>2. ASSUME input' = input
      PROVE  /\ (input.kind = "graph" => GraphAsked)'
             /\ (input.kind = "lineages" => input.lineages \in [1..Refs -> Lists])'
             /\ (input.kind = "tests" => input.tests \in [1..Tests -> {ZTest(p) : p \in PValues} \cup {Decided(b) : b \in BOOLEAN}])'
             /\ (input.kind = "network" => input.capacity \in [Pipes -> Capacities])'
  BY <1>2 DEF AnswersInv, ClustersInv, TestsInv, FlowInv, GraphAsked
<1>3. CASE input' = input /\ answer' = answer
  <2>1. OrderInv' /\ SearchInv' /\ PathInv'
    BY <1>2, <1>3 DEF AnswersInv, OrderInv, SearchInv, PathInv, GraphAsked
  <2>2. ClustersInv' /\ TestsInv' /\ FlowInv'
    BY <1>2, <1>3 DEF AnswersInv, ClustersInv, TestsInv, FlowInv
  <2> QED
    BY <1>2, <1>3, <2>1, <2>2 DEF AnswersInv
<1>4. CASE input' = input /\ answer' # answer
  <2>1. CASE AskOrder
    <3>1. answer'.to = "order" /\ answer'.is = TopologicalOrder(input.parents, Name) /\ input.kind = "graph"
      BY <2>1 DEF AskOrder
    <3> QED
      BY <1>2, <1>4, <3>1 DEF AnswersInv, OrderInv, SearchInv, PathInv, ClustersInv, TestsInv, FlowInv
  <2>2. CASE AskReachable
    <3>1. PICK start \in Nodes, end \in Nodes, blocked \in {{}} \cup {{n} : n \in Nodes} :
            answer' = [to |-> "search", start |-> start, end |-> end, blocked |-> blocked,
                       is |-> Reachable(input.parents, Name, start, end, blocked)]
      BY <2>2 DEF AskReachable
    <3>2. /\ answer'.to = "search" /\ answer'.start \in Nodes /\ answer'.end \in Nodes /\ answer'.blocked \in SUBSET Nodes
          /\ answer'.is = Reachable(input.parents, Name, answer'.start, answer'.end, answer'.blocked)
      BY <3>1
    <3>3. GraphAsked /\ answer.is = TopologicalOrder(input.parents, Name) /\ answer.is.error = "none"
      BY <2>2 DEF AskReachable, AnswersInv, OrderInv
    <3>4. DOMAIN input.parents = Nodes
      BY <3>3 DEF GraphAsked
    <3>5. \A n \in Nodes : input.parents[n] \subseteq Nodes
      <4>1. ASSUME \E n \in Nodes : ~ input.parents[n] \subseteq Nodes PROVE answer.is = Dangling
        BY <3>3, <3>4, <4>1, Zenon DEF TopologicalOrder
      <4>2. Dangling.error # "none"
        BY DEF Dangling
      <4> QED
        BY <3>3, <4>1, <4>2
    <3> QED
      BY <1>2, <1>4, <3>2, <3>3, <3>5 DEF AnswersInv, OrderInv, SearchInv, PathInv, ClustersInv, TestsInv, FlowInv, GraphAsked
  <2>3. CASE AskPath
    <3>1. /\ answer'.to = "path" /\ input.kind = "graph" /\ \A n \in Nodes : input.parents[n] \subseteq Nodes
          /\ answer'.is = PathsIn(input.parents)
      BY <2>3 DEF AskPath, PathsIn
    <3>2. GraphAsked'
      BY <1>2, <1>4, <3>1
    <3>3. PathInv'
      BY <1>4, <3>1, <3>2 DEF PathInv
    <3>4. OrderInv' /\ SearchInv' /\ ClustersInv' /\ TestsInv' /\ FlowInv'
      <4>1. answer'.to = "path"
        BY <3>1
      <4> QED
        BY <1>2, <1>4, <4>1 DEF OrderInv, SearchInv, ClustersInv, TestsInv, FlowInv
    <3> QED
      BY <1>2, <1>4, <3>3, <3>4 DEF AnswersInv
  <2>4. CASE AskClusters
    <3>1. answer'.to = "clusters" /\ answer'.is = Clusters(input.lineages) /\ input.kind = "lineages"
      BY <2>4 DEF AskClusters
    <3> QED
      BY <1>2, <1>4, <3>1 DEF AnswersInv, OrderInv, SearchInv, PathInv, ClustersInv, TestsInv, FlowInv
  <2>5. CASE AskReplay \/ ReplayEntry
    <3>1. answer'.to = "replay"
      <4>1. CASE AskReplay
        BY <4>1 DEF AskReplay
      <4>2. CASE ReplayEntry
        <5>1. answer.to = "replay" /\ \E r : answer' = [answer EXCEPT !.done = @ \cup {r}]
          BY <4>2 DEF ReplayEntry
        <5> QED
          BY <5>1
      <4> QED
        BY <2>5, <4>1, <4>2
    <3> QED
      BY <1>2, <1>4, <3>1 DEF AnswersInv, OrderInv, SearchInv, PathInv, ClustersInv, TestsInv, FlowInv
  <2>6. CASE AskTests
    <3>1. PICK method \in Policies, alpha \in Levels :
            /\ Adjustable(Statistical(input.tests), method)
            /\ answer' = [to |-> "tests", method |-> method, alpha |-> alpha,
                          is |-> ExecuteTests(input.tests, method, alpha)]
      BY <2>6 DEF AskTests
    <3>2. /\ answer'.to = "tests" /\ answer'.method = method /\ answer'.alpha = alpha
          /\ answer'.is = ExecuteTests(input.tests, method, alpha) /\ input.kind = "tests"
      BY <2>6, <3>1 DEF AskTests
    <3> QED
      BY <1>2, <1>4, <3>1, <3>2 DEF AnswersInv, OrderInv, SearchInv, PathInv, ClustersInv, TestsInv, FlowInv
  <2>7. CASE AskFlow
    <3>1. /\ answer'.to = "flow" /\ input.kind = "network"
          /\ answer'.is = MaxFlow(input.capacity, Junctions, Source, Sink)
      BY <2>7 DEF AskFlow
    <3> QED
      BY <1>2, <1>4, <3>1 DEF AnswersInv, OrderInv, SearchInv, PathInv, ClustersInv, TestsInv, FlowInv
  <2>8. CASE AskNarrower \/ EnterItem \/ EnterRecord \/ UNCHANGED vars
    BY <1>4, <2>8 DEF AskNarrower, EnterItem, EnterRecord, vars
  <2> QED
    BY <2>1, <2>2, <2>3, <2>4, <2>5, <2>6, <2>7, <2>8 DEF Next
<1> QED
  BY <1>1, <1>3, <1>4

---------------------------------------------------------------------------
LEMMA NamesAreKeys ==
  ASSUME NEW parents, DOMAIN parents = Nodes, \A n \in Nodes : parents[n] \subseteq Nodes
  PROVE  IsGraph(parents, Name)
<1>1. \A n \in Nodes : Name[n] = n
  BY Zenon DEF Name
<1>2. \A n \in Nodes : Name[n] \in Int
  BY <1>1, NodesAssumption
<1> QED
  BY <1>1, <1>2, NodesAssumption DEF IsGraph

(* topological_order loses no node, finds a cycle or a dangling            *)
(* prerequisite only where there is one, and misses none.                  *)
THEOREM OrderTheorem == Spec => []OrderIsCorrect
<1>1. AnswersInv => OrderIsCorrect
  <2> SUFFICES ASSUME AnswersInv, answer.to = "order" PROVE OrderIsCorrect
    BY DEF OrderIsCorrect
  <2>1. PICK parents, is : parents = input.parents /\ is = answer.is
    OBVIOUS
  <2>2. /\ DOMAIN parents = Nodes /\ \A n \in Nodes : parents[n] \subseteq Nodes \cup Outside
        /\ is = TopologicalOrder(parents, Name)
    BY <2>1 DEF AnswersInv, OrderInv, GraphAsked
  <2>3. Dangling # Circular /\ \A order : Listed(order) # Dangling /\ Listed(order) # Circular /\ Listed(order).order = order
    BY DEF Dangling, Circular, Listed
  <2>4. CASE \E n \in Nodes : ~ parents[n] \subseteq Nodes
    <3>1. is = Dangling
      BY <2>2, <2>4, Zenon DEF TopologicalOrder
    <3>2. \E n \in Nodes : parents[n] \cap Outside # {}
      BY <2>2, <2>4
    <3>3. answer.is = Dangling
      BY <2>1, <3>1
    <3>4. \E n \in Nodes : input.parents[n] \cap Outside # {}
      BY <2>1, <3>2
    <3> QED
      BY <2>3, <3>3, <3>4 DEF OrderIsCorrect
  <2>5. CASE \A n \in Nodes : parents[n] \subseteq Nodes
    <3>1. IsGraph(parents, Name)
      BY <2>2, <2>5, NamesAreKeys
    <3>2. \/ is = Circular /\ \E n \in Nodes : OnACycle(parents, n)
          \/ \E order : is = Listed(order) /\ IsTopological(parents, order)
      BY <2>2, <3>1, OrderIs
    <3>3. CASE is = Circular /\ \E n \in Nodes : OnACycle(parents, n)
      BY <2>1, <2>3, <3>3 DEF OrderIsCorrect
    <3>4. ASSUME NEW order, is = Listed(order), IsTopological(parents, order) PROVE OrderIsCorrect
      <4>1. is # Dangling /\ is # Circular /\ is.order = order
        BY <2>3, <3>4
      <4> QED
        BY <2>1, <3>4, <4>1 DEF OrderIsCorrect
    <3> QED
      BY <3>2, <3>3, <3>4
  <2> QED
    BY <2>4, <2>5
<1> QED
  BY <1>1, AnswersStart, AnswersStay, ScopesStart, ScopesStay, PTL DEF Spec
---------------------------------------------------------------------------
(* reachable.                                                              *)

(* What can be reached without entering a blocked node.                    *)
Avoiding(C, parents, start, blocked) ==
    /\ C \subseteq DOMAIN parents \ blocked
    /\ IF start \in blocked THEN C = {} ELSE start \in C
    /\ \A n \in DOMAIN parents \ blocked : parents[n] \cap C # {} => n \in C
    /\ \A D : start \in D /\ (\A n \in DOMAIN parents \ blocked : parents[n] \cap D # {} => n \in D) => C \subseteq D

LEMMA AvoidingExists ==
  ASSUME NEW parents, IsFiniteSet(DOMAIN parents), NEW blocked,
         NEW start \in DOMAIN parents, NEW end
  PROVE  \E C : Avoiding(C, parents, start, blocked) /\ (PathAvoids(parents, start, end, blocked) <=> end \in C)
<1>1. PICK open, g : open = DOMAIN parents \ blocked /\ g = [n \in open |-> parents[n] \cap open]
  OBVIOUS
<1>2. PathAvoids(parents, start, end, blocked) <=> start \in open /\ end \in open /\ end \in ClosureOf(g, {start})
  BY <1>1, Zenon DEF PathAvoids
<1>3. DOMAIN g = open /\ IsFiniteSet(open) /\ \A n \in open : g[n] = parents[n] \cap open
  BY <1>1, FS_Subset
<1>4. CASE start \in blocked
  <2>1. start \notin open
    BY <1>1, <1>4
  <2>2. Avoiding({}, parents, start, blocked)
    BY <1>4 DEF Avoiding
  <2> QED
    BY <1>2, <2>1, <2>2
<1>5. CASE start \notin blocked
  <2>1. PICK C : C = ClosureOf(g, {start})
    OBVIOUS
  <2>2. {start} \in SUBSET DOMAIN g
    BY <1>1, <1>3, <1>5
  <2>3. /\ {start} \subseteq C /\ C \subseteq open
        /\ \A i \in open : g[i] \cap C # {} => i \in C
        /\ \A D : {start} \subseteq D /\ (\A i \in open : g[i] \cap D # {} => i \in D) => C \subseteq D
    BY <1>3, <2>1, <2>2, ClosureIsLeast
  <2>4. \A i \in open : g[i] \cap C = parents[i] \cap C
    BY <1>3, <2>3
  <2>5. ASSUME NEW D, start \in D, \A n \in open : parents[n] \cap D # {} => n \in D
        PROVE  C \subseteq D
    <3>1. \A i \in open : g[i] \cap D # {} => i \in D
      BY <1>3, <2>5
    <3> QED
      BY <2>3, <2>5, <3>1
  <2>6. Avoiding(C, parents, start, blocked)
    BY <1>1, <1>5, <2>3, <2>4, <2>5 DEF Avoiding
  <2>7. start \in open
    BY <1>1, <1>5
  <2> QED
    BY <1>2, <2>1, <2>3, <2>6, <2>7
<1> QED
  BY <1>4, <1>5

EdgesFrom(parents, nodes) == {e \in (DOMAIN parents) \X (DOMAIN parents) : e[1] \in parents[e[2]] /\ e[1] \in nodes}

LEMMA MoreEdges ==
  ASSUME NEW parents, IsFiniteSet(DOMAIN parents), NEW nodes, NEW node \in DOMAIN parents, node \notin nodes
  PROVE  /\ Cardinality(EdgesFrom(parents, nodes)) \in Nat
         /\ Cardinality(EdgesFrom(parents, nodes \cup {node})) =
              Cardinality(EdgesFrom(parents, nodes)) + Cardinality(ChildrenOf(parents, node))
<1>1. PICK N, old, new, kids :
        /\ N = DOMAIN parents /\ old = EdgesFrom(parents, nodes) /\ kids = ChildrenOf(parents, node)
        /\ new = {e \in N \X N : e[1] = node /\ node \in parents[e[2]]}
  OBVIOUS
<1>2. IsFiniteSet(N \X N)
  BY <1>1, FS_Product
<1>3. IsFiniteSet(old) /\ IsFiniteSet(new) /\ IsFiniteSet(kids)
  BY <1>1, <1>2, FS_Subset DEF EdgesFrom, ChildrenOf
<1>4. EdgesFrom(parents, nodes \cup {node}) = old \cup new /\ old \cap new = {}
  BY <1>1 DEF EdgesFrom
<1>5. Cardinality(old \cup new) = Cardinality(old) + Cardinality(new)
  <2>1. Cardinality(old \cap new) = 0
    BY <1>4, FS_EmptySet
  <2>2. Cardinality(old) \in Nat /\ Cardinality(new) \in Nat
    BY <1>3, FS_CardinalityType
  <2>3. Cardinality(old \cup new) = Cardinality(old) + Cardinality(new) - Cardinality(old \cap new)
    BY <1>3, FS_Union
  <2> QED
    BY <2>1, <2>2, <2>3
<1>6. Cardinality(new) = Cardinality(kids)
  <2>1. PICK f : f = [n \in kids |-> <<node, n>>]
    OBVIOUS
  <2>2. f \in [kids -> new]
    BY <1>1, <2>1 DEF ChildrenOf
  <2>3. \A m, n \in kids : f[m] = f[n] => m = n
    BY <2>1
  <2>4. \A e \in new : \E n \in kids : f[n] = e
    <3> SUFFICES ASSUME NEW e \in new PROVE \E n \in kids : f[n] = e
      OBVIOUS
    <3>1. e = <<node, e[2]>> /\ e[2] \in kids
      BY <1>1 DEF ChildrenOf
    <3> QED
      BY <2>1, <3>1
  <2>5. f \in Bijection(kids, new)
    BY <2>2, <2>3, <2>4 DEF Bijection, Injection, IsInjective, Surjection
  <2> QED
    BY <1>3, <2>5, FS_Bijection DEF ExistsBijection
<1> QED
  BY <1>1, <1>3, <1>4, <1>5, <1>6, FS_CardinalityType

---------------------------------------------------------------------------
(* What the search keeps: what it expanded is reached, the end not among   *)
(* it, and each child of it is expanded, blocked or still in the queue.    *)
SearchOk(parents, C, start, end, blocked, s) ==
    /\ s \in [visited : SUBSET DOMAIN parents, queue : Seq(DOMAIN parents), found : BOOLEAN]
    /\ s.found => end \in C /\ s.queue = <<>>
    /\ ~ s.found =>
         /\ blocked \subseteq s.visited /\ s.visited \ blocked \subseteq C /\ end \notin s.visited \ blocked
         /\ ToSet(s.queue) \subseteq C \cup blocked
         /\ start \in s.visited \cup ToSet(s.queue)
         /\ \A n \in s.visited \ blocked : ChildrenOf(parents, n) \subseteq s.visited \cup ToSet(s.queue)

(* Each turn takes one off the queue, and expanding a node adds no more    *)
(* than it has children.                                                   *)
Spent(parents, blocked, s, k) ==
    s.queue = <<>> \/ k + Len(s.queue) <= 1 + Cardinality(EdgesFrom(parents, s.visited \ blocked))

LEMMA SearchStepKeeps ==
  ASSUME NEW parents, NEW key, IsGraph(parents, key), NEW start \in DOMAIN parents, NEW end, NEW blocked \in SUBSET DOMAIN parents,
         NEW C, Avoiding(C, parents, start, blocked),
         NEW s, SearchOk(parents, C, start, end, blocked, s), s.queue # <<>>
  PROVE  /\ SearchOk(parents, C, start, end, blocked, SearchStep(parents, key, end, s))
         /\ \A k \in Nat : Spent(parents, blocked, s, k) => Spent(parents, blocked, SearchStep(parents, key, end, s), k + 1)
<1>1. PICK N, node, next, z, tail, V :
        /\ N = DOMAIN parents /\ node = Head(s.queue) /\ next = ChildrenOf(parents, node) \ (s.visited \cup {node})
        /\ z = SearchStep(parents, key, end, s) /\ tail = Tail(s.queue) /\ V = s.visited \ blocked
  OBVIOUS
<1>2. /\ s.visited \in SUBSET N /\ s.queue \in Seq(N) /\ s.found = FALSE
      /\ s = [visited |-> s.visited, queue |-> s.queue, found |-> s.found]
      /\ blocked \subseteq s.visited /\ V \subseteq C /\ end \notin V
      /\ ToSet(s.queue) \subseteq C \cup blocked
      /\ start \in s.visited \cup ToSet(s.queue)
      /\ \A n \in V : ChildrenOf(parents, n) \subseteq s.visited \cup ToSet(s.queue)
  BY <1>1 DEF SearchOk
<1>3. /\ node \in N /\ tail \in Seq(N) /\ ToSet(s.queue) = {node} \cup ToSet(tail)
      /\ Len(tail) = Len(s.queue) - 1 /\ Len(s.queue) \in Nat
  BY <1>1, <1>2, SetOfTail
<1>4. ASSUME NEW k \in Nat, Spent(parents, blocked, s, k)
      PROVE  k + Len(s.queue) <= 1 + Cardinality(EdgesFrom(parents, V))
  BY <1>1, <1>4 DEF Spent
<1>5. z = IF node \in s.visited THEN [s EXCEPT !.queue = tail]
          ELSE IF node = end THEN [s EXCEPT !.found = TRUE, !.queue = <<>>]
          ELSE [visited |-> s.visited \cup {node}, queue |-> tail \o SortedBy(next, key), found |-> FALSE]
  BY <1>1, Zenon DEF SearchStep
<1>6. CASE node \in s.visited
  <2>1. z = [visited |-> s.visited, queue |-> tail, found |-> FALSE]
    BY <1>2, <1>5, <1>6
  <2>2. z.visited = s.visited /\ z.queue = tail /\ z.found = FALSE
    BY <2>1
  <2>3. s.visited \cup ToSet(s.queue) = s.visited \cup ToSet(tail)
    BY <1>3, <1>6
  <2>4. SearchOk(parents, C, start, end, blocked, z)
    BY <1>1, <1>2, <1>3, <2>1, <2>2, <2>3 DEF SearchOk
  <2>5. ASSUME NEW k \in Nat, Spent(parents, blocked, s, k) PROVE Spent(parents, blocked, z, k + 1)
    <3>0. PICK m, l : m = Len(s.queue) /\ l = Len(tail) /\ m \in Nat /\ l = m - 1
      BY <1>3
    <3>1. (k + 1) + l = k + m
      <4>1. k \in Nat /\ m \in Nat /\ l = m - 1
        BY <3>0
      <4> QED
        BY <4>1, SMTT(30)
    <3>2. (k + 1) + l <= 1 + Cardinality(EdgesFrom(parents, V))
      BY <1>4, <2>5, <3>0, <3>1
    <3> QED
      BY <1>1, <2>2, <3>0, <3>2 DEF Spent
  <2> QED
    BY <1>1, <2>4, <2>5
<1>7. CASE node \notin s.visited /\ node = end
  <2>1. z = [visited |-> s.visited, queue |-> <<>>, found |-> TRUE]
    BY <1>2, <1>5, <1>7
  <2>2. z.queue = <<>> /\ z.found = TRUE
    BY <2>1
  <2>3. end \in C
    BY <1>2, <1>3, <1>7
  <2>4. SearchOk(parents, C, start, end, blocked, z)
    BY <1>1, <1>2, <2>1, <2>2, <2>3 DEF SearchOk
  <2> QED
    BY <1>1, <2>2, <2>4 DEF Spent
<1>8. CASE node \notin s.visited /\ node # end
  <2>1. PICK q : q = SortedBy(next, key)
    OBVIOUS
  <2>2. next \in SUBSET N /\ IsFiniteSet(next)
    BY <1>1, FS_Subset DEF IsGraph, ChildrenOf
  <2>3. q \in Seq(N) /\ ToSet(q) = next /\ Len(q) = Cardinality(next)
    BY <1>1, <2>1, <2>2, SetOfSorted DEF IsGraph
  <2>4. tail \o q \in Seq(N) /\ ToSet(tail \o q) = ToSet(tail) \cup next /\ Len(tail \o q) = Len(tail) + Len(q)
    <3>1. tail \in Seq(N) /\ q \in Seq(N) /\ ToSet(q) = next
      BY <1>3, <2>3
    <3> QED
      BY <3>1, SetOfConcat
  <2>5. z = [visited |-> s.visited \cup {node}, queue |-> tail \o q, found |-> FALSE]
    BY <1>5, <1>8, <2>1
  <2>6. PICK rest : rest = tail \o q
    OBVIOUS
  <2>7. /\ z = [visited |-> s.visited \cup {node}, queue |-> rest, found |-> FALSE]
        /\ z.visited = s.visited \cup {node} /\ z.queue = rest /\ z.found = FALSE
    BY <2>5, <2>6
  <2>8. rest \in Seq(N) /\ ToSet(rest) = ToSet(tail) \cup next /\ Len(rest) = Len(tail) + Cardinality(next)
    BY <2>3, <2>4, <2>6
  <2>9. node \in C /\ node \notin blocked /\ z.visited \ blocked = V \cup {node} /\ node \notin V
    BY <1>1, <1>2, <1>3, <1>8, <2>7
  <2>10. next \subseteq C
    <3>1. \A n \in next : n \in N \ blocked /\ node \in parents[n]
      BY <1>1, <1>2 DEF ChildrenOf
    <3> QED
      BY <1>1, <2>9, <3>1 DEF Avoiding
  <2>11. \A n \in V \cup {node} : ChildrenOf(parents, n) \subseteq z.visited \cup ToSet(rest)
    BY <1>1, <1>2, <1>3, <2>7, <2>8
  <2>12. SearchOk(parents, C, start, end, blocked, z)
    BY <1>1, <1>2, <1>3, <1>8, <2>7, <2>8, <2>9, <2>10, <2>11 DEF SearchOk
  <2>13. ASSUME NEW k \in Nat, Spent(parents, blocked, s, k) PROVE Spent(parents, blocked, z, k + 1)
    <3>1. PICK kids : kids = ChildrenOf(parents, node)
      OBVIOUS
    <3>2. IsFiniteSet(kids) /\ next \subseteq kids
      BY <1>1, <3>1, FS_Subset DEF IsGraph, ChildrenOf
    <3>3. Cardinality(next) <= Cardinality(kids) /\ Cardinality(next) \in Nat /\ Cardinality(kids) \in Nat
      BY <2>2, <3>2, FS_Subset, FS_CardinalityType
    <3>4. /\ Cardinality(EdgesFrom(parents, V)) \in Nat
          /\ Cardinality(EdgesFrom(parents, V \cup {node})) = Cardinality(EdgesFrom(parents, V)) + Cardinality(kids)
      BY <1>1, <1>3, <2>9, <3>1, MoreEdges DEF IsGraph
    <3>5. PICK m, l, r, i, j, e : /\ m = Len(s.queue) /\ l = Len(tail) /\ r = Len(rest) /\ i = Cardinality(next)
                                  /\ j = Cardinality(kids) /\ e = Cardinality(EdgesFrom(parents, V))
      OBVIOUS
    <3>6. m \in Nat /\ i \in Nat /\ j \in Nat /\ e \in Nat /\ l = m - 1 /\ r = l + i /\ i <= j /\ k + m <= 1 + e
      BY <1>3, <1>4, <2>8, <2>13, <3>3, <3>4, <3>5
    <3>7. (k + 1) + r <= 1 + (e + j)
      BY <3>6
    <3>8. (k + 1) + Len(rest) <= 1 + Cardinality(EdgesFrom(parents, V \cup {node}))
      BY <3>4, <3>5, <3>7
    <3> QED
      BY <2>7, <2>9, <3>8 DEF Spent
  <2> QED
    BY <1>1, <2>12, <2>13
<1> QED
  BY <1>6, <1>7, <1>8
---------------------------------------------------------------------------
SearchStart(start, blocked) == [visited |-> blocked, queue |-> <<start>>, found |-> FALSE]

SearchTurn(parents, key, end, s) == IF s.queue = <<>> THEN s ELSE SearchStep(parents, key, end, s)

SearchLoop(t, parents, key, start, end, blocked, n) ==
    t = [k \in 0..n |-> IF k = 0 THEN SearchStart(start, blocked) ELSE SearchTurn(parents, key, end, t[k - 1])]

LEMMA SearchStarts ==
  ASSUME NEW parents, IsFiniteSet(DOMAIN parents), NEW start \in DOMAIN parents, NEW end, NEW blocked \in SUBSET DOMAIN parents,
         NEW C, Avoiding(C, parents, start, blocked)
  PROVE  /\ SearchOk(parents, C, start, end, blocked, SearchStart(start, blocked))
         /\ Spent(parents, blocked, SearchStart(start, blocked), 0)
<1>1. PICK s, q, N : s = SearchStart(start, blocked) /\ q = <<start>> /\ N = DOMAIN parents
  OBVIOUS
<1>2. s = [visited |-> blocked, queue |-> q, found |-> FALSE]
  BY <1>1 DEF SearchStart
<1>3. q \in Seq(N) /\ ToSet(q) = {start} /\ Len(q) = 1
  <2>1. q \in Seq(N) /\ Len(q) = 1 /\ DOMAIN q = {1} /\ q[1] = start
    BY <1>1
  <2> QED
    BY <2>1 DEF ToSet
<1>4. s.visited = blocked /\ s.queue = q /\ s.found = FALSE /\ blocked \ blocked = {}
  BY <1>2
<1>5. SearchOk(parents, C, start, end, blocked, s)
  BY <1>1, <1>2, <1>3, <1>4 DEF SearchOk, Avoiding
<1>6. Cardinality(EdgesFrom(parents, {})) = 0
  <2>1. EdgesFrom(parents, {}) = {}
    BY DEF EdgesFrom
  <2> QED
    BY <2>1, FS_EmptySet
<1> QED
  BY <1>1, <1>3, <1>4, <1>5, <1>6 DEF Spent

LEMMA SearchLoops ==
  ASSUME NEW parents, NEW key, IsGraph(parents, key), NEW start \in DOMAIN parents, NEW end, NEW blocked \in SUBSET DOMAIN parents,
         NEW C, Avoiding(C, parents, start, blocked), NEW n \in Nat
  PROVE  /\ \E t : SearchLoop(t, parents, key, start, end, blocked, n)
         /\ \A t : SearchLoop(t, parents, key, start, end, blocked, n) =>
              SearchOk(parents, C, start, end, blocked, t[n]) /\ Spent(parents, blocked, t[n], n)
<1>1. PICK D : D = {s \in [visited : SUBSET DOMAIN parents, queue : Seq(DOMAIN parents), found : BOOLEAN] :
                      SearchOk(parents, C, start, end, blocked, s)}
  OBVIOUS
<1>2. PICK a, on : a = SearchStart(start, blocked) /\ on = [s \in D |-> SearchTurn(parents, key, end, s)]
  OBVIOUS
<1>3. a \in D /\ Spent(parents, blocked, a, 0)
  <2>1. SearchOk(parents, C, start, end, blocked, a) /\ Spent(parents, blocked, a, 0)
    BY <1>2, SearchStarts DEF IsGraph
  <2> QED
    BY <1>1, <2>1 DEF SearchOk
<1>4. ASSUME NEW s \in D
      PROVE  /\ on[s] \in D /\ on[s] = SearchTurn(parents, key, end, s) /\ SearchOk(parents, C, start, end, blocked, s)
             /\ \A k \in Nat : Spent(parents, blocked, s, k) => Spent(parents, blocked, on[s], k + 1)
  <2>1. SearchOk(parents, C, start, end, blocked, s)
    BY <1>1
  <2>2. PICK y : y = SearchTurn(parents, key, end, s)
    OBVIOUS
  <2>3. y \in D /\ \A k \in Nat : Spent(parents, blocked, s, k) => Spent(parents, blocked, y, k + 1)
    <3>1. CASE s.queue = <<>>
      BY <2>2, <3>1 DEF SearchTurn, Spent
    <3>2. CASE s.queue # <<>>
      <4>1. PICK z : z = SearchStep(parents, key, end, s)
        OBVIOUS
      <4>2. /\ SearchOk(parents, C, start, end, blocked, z)
            /\ \A k \in Nat : Spent(parents, blocked, s, k) => Spent(parents, blocked, z, k + 1)
        BY <2>1, <3>2, <4>1, SearchStepKeeps
      <4>3. y = z
        BY <2>2, <3>2, <4>1 DEF SearchTurn
      <4> QED
        BY <1>1, <4>2, <4>3 DEF SearchOk
    <3> QED
      BY <3>1, <3>2
  <2> QED
    BY <1>2, <2>1, <2>2, <2>3
<1>5. on \in [D -> D]
  BY <1>2, <1>4
<1>6. PICK t0 : Loop(t0, a, on, n)
  BY <1>3, <1>5, LoopExists
<1>7. SearchLoop(t0, parents, key, start, end, blocked, n)
  <2>1. \A k \in 1..n : t0[k - 1] \in D
    BY <1>3, <1>5, <1>6, LoopIs
  <2>2. \A k \in 0..n : k # 0 => k \in 1..n
    OBVIOUS
  <2>3. \A k \in 0..n : (IF k = 0 THEN a ELSE on[t0[k - 1]]) =
          IF k = 0 THEN SearchStart(start, blocked) ELSE SearchTurn(parents, key, end, t0[k - 1])
    BY <1>2, <1>4, <2>1, <2>2
  <2> QED
    BY <1>6, <2>3 DEF SearchLoop, Loop
<1>8. ASSUME NEW t, SearchLoop(t, parents, key, start, end, blocked, n)
      PROVE  SearchOk(parents, C, start, end, blocked, t[n]) /\ Spent(parents, blocked, t[n], n)
  <2> DEFINE Step(k) == IF k = 0 THEN a ELSE SearchTurn(parents, key, end, t[k - 1])
  <2>1. t = [k \in 0..n |-> Step(k)]
    BY <1>2, <1>8 DEF SearchLoop
  <2> HIDE DEF Step
  <2>2. \A k \in 0..n : t[k] = Step(k)
    BY <2>1
  <2> USE DEF Step
  <2>3. t[0] = a /\ \A k \in 1..n : t[k] = SearchTurn(parents, key, end, t[k - 1])
    BY <2>2
  <2> DEFINE Good == {k \in 0..n : t[k] \in D /\ Spent(parents, blocked, t[k], k)}
  <2>4. 0 \in Good
    BY <1>3, <2>3
  <2>5. ASSUME NEW k \in 1..n, k - 1 \in Good PROVE k \in Good
    <3>1. PICK s, j : s = t[k - 1] /\ j = k - 1
      OBVIOUS
    <3>2. s \in D /\ Spent(parents, blocked, s, j) /\ j \in Nat /\ j + 1 = k
      BY <2>5, <3>1
    <3>3. t[k] = on[s]
      BY <1>4, <2>3, <3>1, <3>2
    <3>4. on[s] \in D /\ Spent(parents, blocked, on[s], k)
      BY <1>4, <3>2
    <3> QED
      BY <3>3, <3>4
  <2> HIDE DEF Good, Step
  <2>6. \A k \in 0..n : k \in Good
    BY <2>4, <2>5, UpTo
  <2>7. n \in Good
    BY <2>6
  <2> QED
    BY <1>4, <2>7 DEF Good
<1> QED
  BY <1>7, <1>8

(* reachable answers TRUE exactly when a path avoids the blocked nodes.    *)
LEMMA ReachableIs ==
  ASSUME NEW parents, NEW key, IsGraph(parents, key), NEW start \in DOMAIN parents, NEW end \in DOMAIN parents,
         NEW blocked \in SUBSET DOMAIN parents
  PROVE  Reachable(parents, key, start, end, blocked) <=> PathAvoids(parents, start, end, blocked)
<1>1. PICK n : n = Cardinality({e \in (DOMAIN parents) \X (DOMAIN parents) : e[1] \in parents[e[2]]}) + 1
  OBVIOUS
<1>2. PICK edges : edges = {e \in (DOMAIN parents) \X (DOMAIN parents) : e[1] \in parents[e[2]]}
  OBVIOUS
<1>3. IsFiniteSet(edges)
  <2>1. IsFiniteSet((DOMAIN parents) \X (DOMAIN parents))
    BY FS_Product DEF IsGraph
  <2> QED
    BY <1>2, <2>1, FS_Subset
<1>4. n \in Nat /\ n = Cardinality(edges) + 1 /\ Cardinality(edges) \in Nat
  BY <1>1, <1>2, <1>3, FS_CardinalityType
<1>5. PICK C : Avoiding(C, parents, start, blocked) /\ (PathAvoids(parents, start, end, blocked) <=> end \in C)
  BY AvoidingExists DEF IsGraph
<1> DEFINE chosen == CHOOSE t : t = [k \in 0..(Cardinality({e \in (DOMAIN parents) \X (DOMAIN parents) : e[1] \in parents[e[2]]}) + 1) |->
                       IF k = 0 THEN [visited |-> blocked, queue |-> <<start>>, found |-> FALSE]
                       ELSE LET s == t[k - 1] IN IF s.queue = <<>> THEN s ELSE SearchStep(parents, key, end, s)]
<1>6. SearchLoop(chosen, parents, key, start, end, blocked, n)
  <2>1. \E t : SearchLoop(t, parents, key, start, end, blocked, n)
    BY <1>4, <1>5, SearchLoops
  <2>2. \E t : t = [k \in 0..(Cardinality({e \in (DOMAIN parents) \X (DOMAIN parents) : e[1] \in parents[e[2]]}) + 1) |->
                      IF k = 0 THEN [visited |-> blocked, queue |-> <<start>>, found |-> FALSE]
                      ELSE LET s == t[k - 1] IN IF s.queue = <<>> THEN s ELSE SearchStep(parents, key, end, s)]
    BY <1>1, <2>1, Zenon DEF SearchLoop, SearchTurn, SearchStart
  <2>3. chosen = [k \in 0..(Cardinality({e \in (DOMAIN parents) \X (DOMAIN parents) : e[1] \in parents[e[2]]}) + 1) |->
                    IF k = 0 THEN [visited |-> blocked, queue |-> <<start>>, found |-> FALSE]
                    ELSE LET s == chosen[k - 1] IN IF s.queue = <<>> THEN s ELSE SearchStep(parents, key, end, s)]
    BY <2>2
  <2> HIDE DEF chosen
  <2> QED
    BY <1>1, <2>3 DEF SearchLoop, SearchTurn, SearchStart
<1>7. Reachable(parents, key, start, end, blocked) = chosen[n].found
  BY <1>1, Zenon DEF Reachable
<1> HIDE DEF chosen
<1>8. PICK s : s = chosen[n]
  OBVIOUS
<1>9. SearchOk(parents, C, start, end, blocked, s) /\ Spent(parents, blocked, s, n)
  BY <1>4, <1>5, <1>6, <1>8, SearchLoops
<1>10. CASE s.found
  BY <1>5, <1>7, <1>8, <1>9, <1>10 DEF SearchOk
<1>11. CASE ~ s.found
  <2>1. s.queue = <<>>
    <3> SUFFICES ASSUME s.queue # <<>> PROVE FALSE
      OBVIOUS
    <3>1. EdgesFrom(parents, s.visited \ blocked) \subseteq edges
      BY <1>2 DEF EdgesFrom
    <3>2. PICK e, m : e = Cardinality(EdgesFrom(parents, s.visited \ blocked)) /\ m = Cardinality(edges)
      OBVIOUS
    <3>3. e <= m /\ e \in Nat
      BY <1>3, <3>1, <3>2, FS_Subset, FS_CardinalityType
    <3>4. PICK l : l = Len(s.queue) /\ l \in Nat /\ l # 0
      BY <1>9 DEF SearchOk
    <3>5. n + l <= 1 + e
      BY <1>9, <3>2, <3>4 DEF Spent
    <3> QED
      BY <1>4, <3>2, <3>3, <3>4, <3>5
  <2>2. PICK V, N : V = s.visited \ blocked /\ N = DOMAIN parents
    OBVIOUS
  <2>3. /\ blocked \subseteq s.visited /\ end \notin V /\ start \in s.visited
        /\ \A i \in V : ChildrenOf(parents, i) \subseteq s.visited
    BY <1>9, <1>11, <2>1, <2>2, SetOfEmpty DEF SearchOk
  <2>4. end \notin C
    <3>1. CASE start \in blocked
      <4>1. C = {}
        BY <3>1, <1>5 DEF Avoiding
      <4> QED
        BY <4>1
    <3>2. CASE start \notin blocked
      <4>1. start \in V
        BY <2>2, <2>3, <3>2
      <4>2. \A i \in N \ blocked : parents[i] \cap V # {} => i \in V
        <5>1. \A i \in V : \A c \in N : i \in parents[c] => c \in s.visited
          BY <2>2, <2>3 DEF ChildrenOf
        <5> QED
          BY <2>2, <5>1
      <4> QED
        BY <1>5, <2>2, <2>3, <4>1, <4>2 DEF Avoiding
    <3> QED
      BY <3>1, <3>2
  <2> QED
    BY <1>5, <1>7, <1>8, <1>11, <2>4
<1> QED
  BY <1>10, <1>11
---------------------------------------------------------------------------
(* Documentary paths.                                                      *)

IsSuccession(successors) ==
    /\ IsFiniteSet(DOMAIN successors) /\ DOMAIN successors \subseteq Nat
    /\ \A n \in DOMAIN successors : successors[n] \subseteq DOMAIN successors

(* What is reached by each number of steps.                                *)
Reaching(r, successors, start, h) ==
    /\ r \in [0..h -> SUBSET DOMAIN successors] /\ r[0] = {start}
    /\ \A k \in 1..h : r[k] = r[k - 1] \cup UNION {successors[n] : n \in r[k - 1]}

LEMMA ReachedIs ==
  ASSUME NEW successors, IsSuccession(successors), NEW start \in DOMAIN successors, NEW h \in Nat
  PROVE  \E r : Reaching(r, successors, start, h) /\ ReachedBy(successors, start, h) = r[h]
<1>1. PICK N, on : N = SUBSET DOMAIN successors /\ on = [m \in N |-> m \cup UNION {successors[n] : n \in m}]
  OBVIOUS
<1>2. on \in [N -> N] /\ {start} \in N
  <2>1. \A m \in N : m \cup UNION {successors[n] : n \in m} \in N
    BY <1>1 DEF IsSuccession
  <2> QED
    BY <1>1, <2>1
<1> DEFINE chosen == CHOOSE t : t = [k \in 0..h |->
                       IF k = 0 THEN {start} ELSE t[k - 1] \cup UNION {successors[n] : n \in t[k - 1]}]
<1>3. ReachedBy(successors, start, h) = chosen[h]
  BY DEF ReachedBy
<1>4. PICK t0 : Loop(t0, {start}, on, h)
  BY <1>2, LoopExists
<1>5. t0 = [k \in 0..h |-> IF k = 0 THEN {start} ELSE t0[k - 1] \cup UNION {successors[n] : n \in t0[k - 1]}]
  <2>1. \A k \in 1..h : t0[k - 1] \in N
    BY <1>2, <1>4, LoopIs
  <2>2. \A k \in 0..h : k # 0 => k \in 1..h
    OBVIOUS
  <2>3. \A k \in 0..h : (IF k = 0 THEN {start} ELSE on[t0[k - 1]]) =
          IF k = 0 THEN {start} ELSE t0[k - 1] \cup UNION {successors[n] : n \in t0[k - 1]}
    BY <1>1, <2>1, <2>2
  <2> QED
    BY <1>4, <2>3 DEF Loop
<1>6. chosen = [k \in 0..h |-> IF k = 0 THEN {start} ELSE chosen[k - 1] \cup UNION {successors[n] : n \in chosen[k - 1]}]
  BY <1>5
<1> HIDE DEF chosen
<1> DEFINE Step(k) == IF k = 0 THEN {start} ELSE chosen[k - 1] \cup UNION {successors[n] : n \in chosen[k - 1]}
<1>7. chosen = [k \in 0..h |-> Step(k)]
  BY <1>6
<1> HIDE DEF Step
<1>8. DOMAIN chosen = 0..h /\ \A k \in 0..h : chosen[k] = Step(k)
  BY <1>7
<1> USE DEF Step
<1>9. chosen[0] = {start} /\ \A k \in 1..h : chosen[k] = chosen[k - 1] \cup UNION {successors[n] : n \in chosen[k - 1]}
  BY <1>8
<1> DEFINE Typed == {k \in 0..h : chosen[k] \in N}
<1>10. 0 \in Typed
  BY <1>2, <1>9
<1>11. ASSUME NEW k \in 1..h, k - 1 \in Typed PROVE k \in Typed
  <2>1. chosen[k - 1] \in N /\ chosen[k] = chosen[k - 1] \cup UNION {successors[n] : n \in chosen[k - 1]}
    BY <1>9, <1>11
  <2>2. chosen[k] \in N
    BY <1>1, <2>1 DEF IsSuccession
  <2> QED
    BY <2>2
<1> HIDE DEF Typed, Step
<1>12. \A k \in 0..h : k \in Typed
  BY <1>10, <1>11, UpTo
<1>13. chosen \in [0..h -> N]
  BY <1>7, <1>12 DEF Typed
<1>14. Reaching(chosen, successors, start, h)
  BY <1>1, <1>9, <1>13 DEF Reaching
<1> QED
  BY <1>3, <1>14

LEMMA ReachingSame ==
  ASSUME NEW successors, NEW start, NEW h \in Nat, NEW j \in 0..h, NEW r, NEW u,
         Reaching(r, successors, start, h), Reaching(u, successors, start, j)
  PROVE  \A k \in 0..j : u[k] = r[k]
<1> DEFINE Same == {k \in 0..j : u[k] = r[k]}
<1>0. u[0] = {start} /\ r[0] = {start}
  BY DEF Reaching
<1>1. 0 \in Same
  BY <1>0
<1>2. ASSUME NEW k \in 1..j, k - 1 \in Same PROVE k \in Same
  <2>1. u[k] = u[k - 1] \cup UNION {successors[n] : n \in u[k - 1]} /\ u[k - 1] = r[k - 1]
    <3>1. u[k - 1] = r[k - 1]
      BY <1>2
    <3> QED
      BY <3>1 DEF Reaching
  <2>2. r[k] = r[k - 1] \cup UNION {successors[n] : n \in r[k - 1]}
    <3>1. k \in 1..h
      OBVIOUS
    <3> QED
      BY <3>1 DEF Reaching
  <2>3. u[k] = r[k] /\ k \in 0..j
    BY <2>1, <2>2
  <2> QED
    BY <2>3
<1>3. j \in Nat
  OBVIOUS
<1> HIDE DEF Same
<1>4. \A k \in 0..j : k \in Same
  BY <1>1, <1>2, <1>3, UpTo
<1> QED
  BY <1>4 DEF Same

LEMMA ReachingExists ==
  ASSUME NEW successors, IsSuccession(successors), NEW start \in DOMAIN successors, NEW h \in Nat
  PROVE  \E r : Reaching(r, successors, start, h) /\ \A k \in 0..h : ReachedBy(successors, start, k) = r[k]
<1>1. PICK r : Reaching(r, successors, start, h)
  BY ReachedIs
<1>2. ASSUME NEW k \in 0..h PROVE ReachedBy(successors, start, k) = r[k]
  <2>1. k \in Nat
    OBVIOUS
  <2>2. PICK u : Reaching(u, successors, start, k) /\ ReachedBy(successors, start, k) = u[k]
    BY <2>1, ReachedIs
  <2>3. \A i \in 0..k : u[i] = r[i]
    BY <1>1, <2>2, ReachingSame
  <2>4. k \in 0..k
    BY <2>1
  <2> QED
    BY <2>2, <2>3, <2>4
<1> QED
  BY <1>1, <1>2

LEMMA ReachingGrows ==
  ASSUME NEW successors, NEW start, NEW h \in Nat, NEW r, Reaching(r, successors, start, h)
  PROVE  \A j \in 0..h : \A i \in 0..j : r[i] \subseteq r[j]
<1> DEFINE Grown == {j \in 0..h : \A i \in 0..j : r[i] \subseteq r[j]}
<1>1. 0 \in Grown
  OBVIOUS
<1>2. ASSUME NEW j \in 1..h, j - 1 \in Grown PROVE j \in Grown
  <2>1. r[j - 1] \subseteq r[j]
    BY DEF Reaching
  <2>2. \A i \in 0..j : i = j \/ i \in 0..(j - 1)
    OBVIOUS
  <2> QED
    BY <1>2, <2>1, <2>2
<1> HIDE DEF Grown
<1>3. \A j \in 0..h : j \in Grown
  BY <1>1, <1>2, UpTo
<1> QED
  BY <1>3 DEF Grown

---------------------------------------------------------------------------
(* What the search keeps: a node is marked with its distance; what is      *)
(* expanded has its successors marked; the queue is in the order of the    *)
(* distances, which differ by one at most, and all that is as near as its  *)
(* head is marked.                                                         *)
Waiting(s) == ToSet(s.queue)

Distances(r, h, s) ==
    \A n \in DOMAIN s.length :
      /\ s.length[n] \in 0..h /\ n \in r[s.length[n]]
      /\ s.length[n] # 0 => n \notin r[s.length[n] - 1]

FollowOk(successors, r, start, end, h, s) ==
    /\ s.length \in [DOMAIN s.length -> 0..h]
    /\ DOMAIN s.length \subseteq DOMAIN successors /\ start \in DOMAIN s.length
    /\ s.queue \in Seq(DOMAIN successors) /\ Waiting(s) \subseteq DOMAIN s.length /\ IsInjective(s.queue)
    /\ s.found \in BOOLEAN /\ s = [length |-> s.length, queue |-> s.queue, found |-> s.found]
    /\ Distances(r, h, s)
    /\ s.found => end \in DOMAIN s.length /\ s.queue = <<>>
    /\ ~ s.found =>
         /\ \A n \in DOMAIN s.length \ Waiting(s) :
              n # end /\ (s.length[n] < h => successors[n] \subseteq DOMAIN s.length)
         /\ \A i, j \in 1..Len(s.queue) : i <= j =>
              s.length[s.queue[i]] <= s.length[s.queue[j]] /\ s.length[s.queue[j]] <= s.length[s.queue[i]] + 1
         /\ s.queue # <<>> => r[s.length[s.queue[1]]] \subseteq DOMAIN s.length

Followed(s, k) == s.queue = <<>> \/ Cardinality(DOMAIN s.length \ Waiting(s)) = k
---------------------------------------------------------------------------
LEMMA ElementOf ==
  ASSUME NEW S, NEW s \in Seq(S)
  PROVE  /\ \A i \in 1..Len(s) : s[i] \in ToSet(s)
         /\ \A x \in ToSet(s) : \E i \in 1..Len(s) : s[i] = x
<1>1. DOMAIN s = 1..Len(s)
  OBVIOUS
<1> QED
  BY <1>1 DEF ToSet

LEMMA ConcatAt ==
  ASSUME NEW S, NEW s \in Seq(S), NEW t \in Seq(S), NEW i \in 1..(Len(s) + Len(t))
  PROVE  IF i <= Len(s) THEN i \in 1..Len(s) /\ (s \o t)[i] = s[i]
         ELSE i - Len(s) \in 1..Len(t) /\ (s \o t)[i] = t[i - Len(s)]
OBVIOUS

LEMMA SetOfAscending ==
  ASSUME NEW N, NEW S \in SUBSET N, N \subseteq Nat, IsFiniteSet(S)
  PROVE  /\ Ascending(S) \in Seq(N) /\ ToSet(Ascending(S)) = S /\ IsInjective(Ascending(S))
         /\ Len(Ascending(S)) = Cardinality(S)
<1>1. PICK key : key = [x \in S |-> x]
  OBVIOUS
<1>2. (\A x \in S : key[x] \in Int) /\ (\A x, y \in S : key[x] = key[y] => x = y)
  BY <1>1
<1>3. Ascending(S) = SortedBy(S, key)
  BY <1>1, Zenon DEF Ascending
<1> QED
  BY <1>2, <1>3, SetOfSorted

LEMMA FollowKeeps ==
  ASSUME NEW successors, IsSuccession(successors), NEW start, NEW end, NEW h \in Nat,
         NEW r, Reaching(r, successors, start, h),
         NEW s, FollowOk(successors, r, start, end, h, s), s.queue # <<>>
  PROVE  /\ FollowOk(successors, r, start, end, h, Follow(successors, end, h, s))
         /\ \A k \in Nat : Followed(s, k) => Followed(Follow(successors, end, h, s), k + 1)
<1>1. PICK N, M, a, d, tail, z, new, length :
        /\ N = DOMAIN successors /\ M = DOMAIN s.length /\ a = Head(s.queue) /\ d = s.length[a] /\ tail = Tail(s.queue)
        /\ new = (IF d < h THEN successors[a] \ M ELSE {}) /\ z = Follow(successors, end, h, s) /\ length = s.length
  OBVIOUS
<1>2. PICK queue, m : queue = s.queue /\ m = Len(tail)
  OBVIOUS
<1>3. /\ length \in [M -> 0..h] /\ M \subseteq N /\ start \in M /\ queue \in Seq(N) /\ ToSet(queue) \subseteq M /\ IsInjective(queue)
      /\ s = [length |-> length, queue |-> queue, found |-> FALSE] /\ DOMAIN length = M
      /\ Distances(r, h, s)
      /\ \A n \in M \ ToSet(queue) : n # end /\ (length[n] < h => successors[n] \subseteq M)
      /\ \A i, j \in 1..Len(queue) : i <= j =>
              length[queue[i]] <= length[queue[j]] /\ length[queue[j]] <= length[queue[i]] + 1
      /\ r[length[queue[1]]] \subseteq M
  BY <1>1, <1>2 DEF FollowOk, Waiting
<1>4. /\ a \in N /\ tail \in Seq(N) /\ ToSet(queue) = {a} \cup ToSet(tail)
      /\ IsInjective(tail) /\ a \notin ToSet(tail) /\ m = Len(queue) - 1 /\ m \in Nat /\ Len(queue) \in Nat
  <2>1. queue \in Seq(N) /\ queue # <<>> /\ a = Head(queue) /\ tail = Tail(queue) /\ IsInjective(queue)
    BY <1>1, <1>2, <1>3
  <2>2. /\ a \in N /\ tail \in Seq(N) /\ ToSet(queue) = {a} \cup ToSet(tail)
        /\ Len(tail) = Len(queue) - 1 /\ Len(queue) \in Nat \ {0}
        /\ IsInjective(tail) /\ a \notin ToSet(tail)
    BY <2>1, SetOfTail
  <2> QED
    BY <1>2, <2>2
<1>5. a = queue[1] /\ \A i \in 1..m : tail[i] = queue[i + 1] /\ i + 1 \in 1..Len(queue)
  BY <1>1, <1>2, <1>3, <1>4
<1>6. \A n \in M : /\ length[n] \in 0..h /\ n \in r[length[n]]
                   /\ length[n] # 0 => n \notin r[length[n] - 1]
  BY <1>1, <1>3 DEF Distances
<1>7. a \in M /\ d = length[a] /\ d \in 0..h /\ a \in r[d] /\ r[d] \subseteq M
  BY <1>1, <1>3, <1>4, <1>5, <1>6
<1>8. z = IF a = end THEN [s EXCEPT !.queue = <<>>, !.found = TRUE]
          ELSE [length |-> [b \in M \cup new |-> IF b \in new THEN d + 1 ELSE length[b]],
                queue  |-> tail \o Ascending(new),
                found  |-> FALSE]
  BY <1>1, Zenon DEF Follow
<1>9. CASE a = end
  <2>1. z = [length |-> length, queue |-> <<>>, found |-> TRUE]
    BY <1>3, <1>8, <1>9
  <2>2. z.length = length /\ z.queue = <<>> /\ z.found = TRUE
    BY <2>1
  <2>3. ToSet(<<>>) = {} /\ IsInjective(<<>>) /\ <<>> \in Seq(N)
    BY SetOfEmpty
  <2>4. Distances(r, h, z)
    BY <1>3, <1>6, <2>2 DEF Distances
  <2>5. FollowOk(successors, r, start, end, h, z)
    BY <1>1, <1>3, <1>7, <1>9, <2>1, <2>2, <2>3, <2>4 DEF FollowOk, Waiting
  <2> QED
    BY <1>1, <2>2, <2>5 DEF Followed
<1>10. CASE a # end
  <2>1. PICK w, rest, len : w = Ascending(new) /\ rest = tail \o w
          /\ len = [b \in M \cup new |-> IF b \in new THEN d + 1 ELSE length[b]]
    OBVIOUS
  <2>2. new \in SUBSET N /\ new \cap M = {} /\ IsFiniteSet(new)
    <3>1. new \in SUBSET N /\ new \cap M = {}
      BY <1>1, <1>4 DEF IsSuccession
    <3> QED
      BY <1>1, <3>1, FS_Subset DEF IsSuccession
  <2>3. w \in Seq(N) /\ ToSet(w) = new /\ IsInjective(w)
    BY <1>1, <2>1, <2>2, SetOfAscending DEF IsSuccession
  <2>4. ToSet(tail) \cap ToSet(w) = {}
    BY <1>3, <1>4, <2>2, <2>3
  <2>5. /\ rest \in Seq(N) /\ ToSet(rest) = ToSet(tail) \cup new /\ IsInjective(rest)
        /\ Len(rest) = m + Len(w)
    <3>1. tail \in Seq(N) /\ IsInjective(tail)
      BY <1>4
    <3>2. /\ tail \o w \in Seq(N) /\ ToSet(tail \o w) = ToSet(tail) \cup ToSet(w) /\ IsInjective(tail \o w)
          /\ Len(tail \o w) = Len(tail) + Len(w)
      BY <2>3, <2>4, <3>1, SetOfConcat
    <3> QED
      BY <1>2, <2>1, <2>3, <3>2
  <2>6. /\ z = [length |-> len, queue |-> rest, found |-> FALSE]
        /\ z.length = len /\ z.queue = rest /\ z.found = FALSE
    BY <1>8, <1>10, <2>1
  <2>7. /\ DOMAIN len = M \cup new /\ \A b \in new : len[b] = d + 1
        /\ \A b \in M : len[b] = length[b]
    BY <2>1, <2>2
  <2>8. ASSUME NEW b \in new PROVE d + 1 \in 1..h /\ b \in r[d + 1] /\ b \notin r[d]
    <3>1. d < h /\ b \in successors[a] /\ b \notin M
      BY <1>1
    <3>2. d + 1 \in 1..h
      BY <1>7, <3>1
    <3>3. r[d + 1] = r[d] \cup UNION {successors[n] : n \in r[d]}
      <4>1. (d + 1) - 1 = d
        BY <1>7
      <4> QED
        BY <3>2, <4>1 DEF Reaching
    <3> QED
      BY <1>7, <3>1, <3>2, <3>3
  <2>9. Distances(r, h, z)
    <3> SUFFICES ASSUME NEW n \in M \cup new
                 PROVE  len[n] \in 0..h /\ n \in r[len[n]] /\ (len[n] # 0 => n \notin r[len[n] - 1])
      BY <2>6, <2>7 DEF Distances
    <3>1. CASE n \in M
      BY <1>6, <2>7, <3>1
    <3>2. CASE n \in new
      <4>1. len[n] = d + 1 /\ (d + 1) - 1 = d
        BY <1>7, <2>7, <3>2
      <4> QED
        BY <1>7, <2>8, <3>2, <4>1
    <3> QED
      BY <3>1, <3>2
  <2>10. (M \cup new) \ ToSet(rest) = (M \ ToSet(queue)) \cup {a} /\ a \notin M \ ToSet(queue)
    BY <1>4, <1>7, <2>2, <2>5
  <2>11. \A n \in (M \cup new) \ ToSet(rest) :
           n # end /\ (len[n] < h => successors[n] \subseteq M \cup new)
    <3> SUFFICES ASSUME NEW n \in (M \ ToSet(queue)) \cup {a}
                 PROVE  n # end /\ (len[n] < h => successors[n] \subseteq M \cup new)
      BY <2>10
    <3>1. len[n] = length[n]
      BY <1>7, <2>7
    <3>2. CASE n = a
      BY <1>1, <1>7, <1>10, <3>1, <3>2
    <3>3. CASE n # a
      BY <1>3, <3>1, <3>3
    <3> QED
      BY <3>2, <3>3
  <2>19. tail \in Seq(N) /\ w \in Seq(N)
    BY <1>4, <2>3
  <2>18. ASSUME NEW i \in 1..Len(rest)
         PROVE  IF i <= m THEN i \in 1..m /\ rest[i] = tail[i] ELSE i - m \in 1..Len(w) /\ rest[i] = w[i - m]
    <3>1. i \in 1..(Len(tail) + Len(w))
      BY <1>2, <2>5
    <3>2. IF i <= Len(tail) THEN i \in 1..Len(tail) /\ (tail \o w)[i] = tail[i]
          ELSE i - Len(tail) \in 1..Len(w) /\ (tail \o w)[i] = w[i - Len(tail)]
      BY <2>19, <3>1, ConcatAt
    <3> QED
      BY <1>2, <2>1, <3>2
  <2>12. ASSUME NEW i \in 1..Len(rest)
         PROVE  \/ i \in 1..m /\ rest[i] = tail[i] /\ rest[i] \in M /\ len[rest[i]] = length[queue[i + 1]]
                \/ ~ i <= m /\ rest[i] \in new /\ len[rest[i]] = d + 1
    <3>1. CASE i <= m
      <4>1. i \in 1..m /\ rest[i] = tail[i]
        BY <2>18, <3>1
      <4>2. tail[i] \in ToSet(tail)
        BY <1>2, <2>19, <4>1, ElementOf
      <4> QED
        BY <1>3, <1>4, <1>5, <2>7, <4>1, <4>2
    <3>2. CASE ~ i <= m
      <4>1. i - m \in 1..Len(w) /\ rest[i] = w[i - m]
        BY <2>18, <3>2
      <4>2. w[i - m] \in ToSet(w)
        BY <2>19, <4>1, ElementOf
      <4> QED
        BY <2>3, <2>7, <3>2, <4>1, <4>2
    <3> QED
      BY <3>1, <3>2
  <2>13. \A i \in 1..m : d <= length[queue[i + 1]] /\ length[queue[i + 1]] <= d + 1 /\ length[queue[i + 1]] \in Nat
    <3>1. \A i \in 1..m : 1 <= i + 1 /\ 1 \in 1..Len(queue)
      BY <1>4
    <3>2. \A i \in 1..m : queue[i + 1] \in M
      <4>1. \A i \in 1..m : queue[i + 1] \in ToSet(queue)
        BY <1>3, <1>5 DEF ToSet
      <4> QED
        BY <1>3, <4>1
    <3>3. \A i \in 1..m : length[queue[1]] <= length[queue[i + 1]] /\ length[queue[i + 1]] <= length[queue[1]] + 1
      <4>1. \A i \in 1..m : i + 1 \in 1..Len(queue)
        BY <1>5
      <4> QED
        BY <1>3, <3>1, <4>1
    <3>4. d = length[queue[1]] /\ \A b \in M : length[b] \in Nat
      BY <1>5, <1>6, <1>7
    <3> QED
      BY <3>2, <3>3, <3>4
  <2>14. \A i, j \in 1..Len(rest) : i <= j => len[rest[i]] <= len[rest[j]] /\ len[rest[j]] <= len[rest[i]] + 1
    <3> SUFFICES ASSUME NEW i \in 1..Len(rest), NEW j \in 1..Len(rest), i <= j
                 PROVE  len[rest[i]] <= len[rest[j]] /\ len[rest[j]] <= len[rest[i]] + 1
      OBVIOUS
    <3>1. CASE j <= m
      <4>1. i <= m /\ i \in 1..m /\ j \in 1..m
        BY <1>4, <3>1
      <4>2. len[rest[i]] = length[queue[i + 1]] /\ len[rest[j]] = length[queue[j + 1]]
        BY <2>12, <3>1, <4>1
      <4>3. i + 1 \in 1..Len(queue) /\ j + 1 \in 1..Len(queue) /\ i + 1 <= j + 1
        BY <1>5, <4>1
      <4> QED
        BY <1>3, <4>2, <4>3
    <3>2. CASE ~ j <= m
      <4>1. len[rest[j]] = d + 1
        BY <2>12, <3>2
      <4>2. len[rest[i]] = d + 1 \/ \E k \in 1..m : len[rest[i]] = length[queue[k + 1]]
        BY <2>12
      <4> QED
        BY <1>7, <2>13, <4>1, <4>2
    <3> QED
      BY <3>1, <3>2
  <2>15. ASSUME rest # <<>> PROVE r[len[rest[1]]] \subseteq M \cup new
    <3>1. 1 \in 1..Len(rest)
      BY <2>5, <2>15
    <3>2. rest[1] \in M \cup new /\ (len[rest[1]] = d \/ len[rest[1]] = d + 1)
      <4>1. len[rest[1]] = d + 1 \/ \E k \in 1..m : len[rest[1]] = length[queue[k + 1]]
        BY <2>12, <3>1
      <4>2. rest[1] \in M \cup new
        BY <2>12, <3>1
      <4>3. ASSUME NEW k \in 1..m, len[rest[1]] = length[queue[k + 1]] PROVE len[rest[1]] = d \/ len[rest[1]] = d + 1
        <5>1. PICK e : e = length[queue[k + 1]]
          OBVIOUS
        <5>2. d <= e /\ e <= d + 1 /\ e \in Nat /\ d \in Nat
          BY <1>7, <2>13, <5>1
        <5>3. e = d \/ e = d + 1
          BY <5>2
        <5> QED
          BY <4>3, <5>1, <5>3
      <4> QED
        BY <4>1, <4>2, <4>3
    <3>3. CASE len[rest[1]] = d
      BY <1>7, <3>3
    <3>4. CASE len[rest[1]] = d + 1
      <4>1. d + 1 \in 1..h /\ d < h
        <5>1. len[rest[1]] \in 0..h
          BY <2>6, <2>7, <2>9, <3>2 DEF Distances
        <5> QED
          BY <1>7, <3>4, <5>1
      <4>2. ASSUME NEW x \in r[d] PROVE successors[x] \subseteq M \cup new
        <5>1. x \in M /\ length[x] \in 0..h
          BY <1>6, <1>7
        <5>2. length[x] <= d
          <6> SUFFICES ASSUME ~ length[x] <= d PROVE FALSE
            OBVIOUS
          <6>1. length[x] # 0 /\ length[x] - 1 \in 0..h /\ d \in 0..(length[x] - 1)
            BY <1>7, <5>1
          <6>2. r[d] \subseteq r[length[x] - 1]
            BY <6>1, ReachingGrows
          <6> QED
            BY <1>6, <5>1, <6>1, <6>2
        <5>3. x \notin ToSet(rest)
          <6> SUFFICES ASSUME x \in ToSet(rest) PROVE FALSE
            OBVIOUS
          <6>1. PICK i \in 1..Len(rest) : rest[i] = x
            BY <2>5 DEF ToSet
          <6>2. len[rest[1]] <= len[rest[i]]
            <7>1. 1 <= i
              OBVIOUS
            <7> QED
              BY <2>14, <3>1, <6>1, <7>1
          <6>3. len[x] = length[x]
            BY <2>7, <5>1
          <6> QED
            BY <1>7, <3>4, <5>1, <5>2, <6>1, <6>2, <6>3
        <5>4. len[x] < h
          BY <1>7, <2>7, <4>1, <5>1, <5>2
        <5> QED
          BY <2>11, <5>1, <5>3, <5>4
      <4>3. r[d + 1] = r[d] \cup UNION {successors[n] : n \in r[d]}
        <5>1. (d + 1) - 1 = d
          BY <1>7
        <5> QED
          BY <4>1, <5>1 DEF Reaching
      <4> QED
        BY <1>7, <3>4, <4>2, <4>3
    <3> QED
      BY <3>2, <3>3, <3>4
  <2>16. FollowOk(successors, r, start, end, h, z)
    <3>1. Waiting(z) = ToSet(rest) /\ ToSet(rest) \subseteq M \cup new /\ M \cup new \subseteq N
      BY <1>3, <1>4, <2>2, <2>5, <2>6 DEF Waiting
    <3>5. len \in [M \cup new -> 0..h]
      BY <2>1, <2>6, <2>7, <2>9 DEF Distances
    <3>2. /\ z.length \in [DOMAIN z.length -> 0..h]
          /\ DOMAIN z.length \subseteq N /\ start \in DOMAIN z.length
          /\ z.queue \in Seq(N) /\ Waiting(z) \subseteq DOMAIN z.length /\ IsInjective(z.queue)
          /\ z.found \in BOOLEAN /\ z = [length |-> z.length, queue |-> z.queue, found |-> z.found]
      BY <1>3, <2>5, <2>6, <2>7, <3>1, <3>5
    <3>3. \A n \in DOMAIN z.length \ Waiting(z) :
            n # end /\ (z.length[n] < h => successors[n] \subseteq DOMAIN z.length)
      BY <2>6, <2>7, <2>11, <3>1
    <3>4. /\ \A i, j \in 1..Len(z.queue) : i <= j =>
              z.length[z.queue[i]] <= z.length[z.queue[j]] /\ z.length[z.queue[j]] <= z.length[z.queue[i]] + 1
          /\ z.queue # <<>> => r[z.length[z.queue[1]]] \subseteq DOMAIN z.length
      BY <2>6, <2>7, <2>14, <2>15
    <3> QED
      BY <1>1, <2>6, <2>9, <3>2, <3>3, <3>4 DEF FollowOk
  <2>17. ASSUME NEW k \in Nat, Followed(s, k) PROVE Followed(z, k + 1)
    <3>1. PICK X : X = M \ ToSet(queue)
      OBVIOUS
    <3>2. IsFiniteSet(X)
      BY <1>1, <1>3, <3>1, FS_Subset DEF IsSuccession
    <3>3. Cardinality(X) = k
      BY <1>1, <1>2, <2>17, <3>1 DEF Followed, Waiting
    <3>4. Cardinality(X \cup {a}) = k + 1
      BY <2>10, <3>1, <3>2, <3>3, FS_AddElement
    <3> QED
      BY <2>6, <2>7, <2>10, <3>1, <3>4 DEF Followed, Waiting
  <2> QED
    BY <1>1, <2>16, <2>17
<1> QED
  BY <1>9, <1>10
---------------------------------------------------------------------------
FollowStart(start) == [length |-> [n \in {start} |-> 0], queue |-> <<start>>, found |-> FALSE]

FollowTurn(successors, end, h, s) == IF s.queue = <<>> THEN s ELSE Follow(successors, end, h, s)

FollowLoop(t, successors, start, end, h, n) ==
    t = [k \in 0..n |-> IF k = 0 THEN FollowStart(start) ELSE FollowTurn(successors, end, h, t[k - 1])]

LEMMA FollowStarts ==
  ASSUME NEW successors, NEW start \in DOMAIN successors, NEW end, NEW h \in Nat,
         NEW r, Reaching(r, successors, start, h)
  PROVE  FollowOk(successors, r, start, end, h, FollowStart(start)) /\ Followed(FollowStart(start), 0)
<1>1. PICK s, q, length : s = FollowStart(start) /\ q = <<start>> /\ length = [n \in {start} |-> 0]
  OBVIOUS
<1>2. s = [length |-> length, queue |-> q, found |-> FALSE] /\ s.length = length /\ s.queue = q /\ s.found = FALSE
  BY <1>1 DEF FollowStart
<1>3. length \in [{start} -> 0..h] /\ DOMAIN length = {start} /\ length[start] = 0
  BY <1>1
<1>4. q \in Seq(DOMAIN successors) /\ ToSet(q) = {start} /\ Len(q) = 1 /\ IsInjective(q) /\ q[1] = start
  <2>1. q \in Seq(DOMAIN successors) /\ Len(q) = 1 /\ DOMAIN q = {1} /\ q[1] = start
    BY <1>1
  <2> QED
    BY <2>1 DEF ToSet, IsInjective
<1>5. r[0] = {start}
  BY DEF Reaching
<1>6. Distances(r, h, s)
  BY <1>2, <1>3, <1>5 DEF Distances
<1>7. Waiting(s) = {start}
  BY <1>2, <1>4 DEF Waiting
<1>8. \A i, j \in 1..Len(q) : length[q[i]] <= length[q[j]] /\ length[q[j]] <= length[q[i]] + 1
  <2>1. \A i \in 1..Len(q) : q[i] = start
    BY <1>4
  <2> QED
    BY <1>3, <2>1
<1>9. FollowOk(successors, r, start, end, h, s)
  BY <1>2, <1>3, <1>4, <1>5, <1>6, <1>7, <1>8 DEF FollowOk
<1>10. Cardinality({}) = 0
  BY FS_EmptySet
<1>11. DOMAIN s.length \ Waiting(s) = {}
  BY <1>2, <1>3, <1>7
<1> QED
  BY <1>1, <1>9, <1>10, <1>11 DEF Followed

LEMMA FollowLoops ==
  ASSUME NEW successors, IsSuccession(successors), NEW start \in DOMAIN successors, NEW end, NEW h \in Nat,
         NEW r, Reaching(r, successors, start, h), NEW n \in Nat
  PROVE  /\ \E t : FollowLoop(t, successors, start, end, h, n)
         /\ \A t : FollowLoop(t, successors, start, end, h, n) =>
              FollowOk(successors, r, start, end, h, t[n]) /\ Followed(t[n], n)
<1>1. PICK D : D = {s \in [length : UNION {[X -> 0..h] : X \in SUBSET DOMAIN successors},
                          queue : Seq(DOMAIN successors), found : BOOLEAN] :
                      FollowOk(successors, r, start, end, h, s)}
  OBVIOUS
<1>0. ASSUME NEW s, FollowOk(successors, r, start, end, h, s) PROVE s \in D
  <2>1. s.length \in UNION {[X -> 0..h] : X \in SUBSET DOMAIN successors}
    <3>1. DOMAIN s.length \in SUBSET DOMAIN successors /\ s.length \in [DOMAIN s.length -> 0..h]
      BY <1>0 DEF FollowOk
    <3> QED
      BY <3>1
  <2>2. s = [length |-> s.length, queue |-> s.queue, found |-> s.found] /\ s.queue \in Seq(DOMAIN successors) /\ s.found \in BOOLEAN
    BY <1>0 DEF FollowOk
  <2> QED
    BY <1>0, <1>1, <2>1, <2>2
<1>2. PICK a, on : a = FollowStart(start) /\ on = [s \in D |-> FollowTurn(successors, end, h, s)]
  OBVIOUS
<1>3. a \in D /\ Followed(a, 0)
  BY <1>0, <1>2, FollowStarts
<1>4. ASSUME NEW s \in D
      PROVE  /\ on[s] \in D /\ on[s] = FollowTurn(successors, end, h, s) /\ FollowOk(successors, r, start, end, h, s)
             /\ \A k \in Nat : Followed(s, k) => Followed(on[s], k + 1)
  <2>1. FollowOk(successors, r, start, end, h, s)
    BY <1>1
  <2>2. PICK y : y = FollowTurn(successors, end, h, s)
    OBVIOUS
  <2>3. y \in D /\ \A k \in Nat : Followed(s, k) => Followed(y, k + 1)
    <3>1. CASE s.queue = <<>>
      BY <2>2, <3>1 DEF FollowTurn, Followed
    <3>2. CASE s.queue # <<>>
      <4>1. PICK z : z = Follow(successors, end, h, s)
        OBVIOUS
      <4>2. /\ FollowOk(successors, r, start, end, h, z)
            /\ \A k \in Nat : Followed(s, k) => Followed(z, k + 1)
        BY <2>1, <3>2, <4>1, FollowKeeps
      <4>3. y = z
        BY <2>2, <3>2, <4>1 DEF FollowTurn
      <4> QED
        BY <1>0, <4>2, <4>3
    <3> QED
      BY <3>1, <3>2
  <2> QED
    BY <1>2, <2>1, <2>2, <2>3
<1>5. on \in [D -> D]
  BY <1>2, <1>4
<1>6. PICK t0 : Loop(t0, a, on, n)
  BY <1>3, <1>5, LoopExists
<1>7. FollowLoop(t0, successors, start, end, h, n)
  <2>1. \A k \in 1..n : t0[k - 1] \in D
    BY <1>3, <1>5, <1>6, LoopIs
  <2>2. \A k \in 0..n : k # 0 => k \in 1..n
    OBVIOUS
  <2>3. \A k \in 0..n : (IF k = 0 THEN a ELSE on[t0[k - 1]]) =
          IF k = 0 THEN FollowStart(start) ELSE FollowTurn(successors, end, h, t0[k - 1])
    BY <1>2, <1>4, <2>1, <2>2
  <2> QED
    BY <1>6, <2>3 DEF FollowLoop, Loop
<1>8. ASSUME NEW t, FollowLoop(t, successors, start, end, h, n)
      PROVE  FollowOk(successors, r, start, end, h, t[n]) /\ Followed(t[n], n)
  <2> DEFINE Step(k) == IF k = 0 THEN a ELSE FollowTurn(successors, end, h, t[k - 1])
  <2>1. t = [k \in 0..n |-> Step(k)]
    BY <1>2, <1>8 DEF FollowLoop
  <2> HIDE DEF Step
  <2>2. \A k \in 0..n : t[k] = Step(k)
    BY <2>1
  <2> USE DEF Step
  <2>3. t[0] = a /\ \A k \in 1..n : t[k] = FollowTurn(successors, end, h, t[k - 1])
    BY <2>2
  <2> DEFINE Good == {k \in 0..n : t[k] \in D /\ Followed(t[k], k)}
  <2>4. 0 \in Good
    BY <1>3, <2>3
  <2>5. ASSUME NEW k \in 1..n, k - 1 \in Good PROVE k \in Good
    <3>1. PICK s, j : s = t[k - 1] /\ j = k - 1
      OBVIOUS
    <3>2. s \in D /\ Followed(s, j) /\ j \in Nat /\ j + 1 = k
      BY <2>5, <3>1
    <3>3. t[k] = on[s]
      BY <1>4, <2>3, <3>1, <3>2
    <3>4. on[s] \in D /\ Followed(on[s], k)
      BY <1>4, <3>2
    <3> QED
      BY <3>3, <3>4
  <2> HIDE DEF Good, Step
  <2>6. \A k \in 0..n : k \in Good
    BY <2>4, <2>5, UpTo
  <2>7. n \in Good
    BY <2>6
  <2> QED
    BY <1>4, <2>7 DEF Good
<1> QED
  BY <1>7, <1>8

(* When the search ends, its end is marked with its distance, or it is     *)
(* farther than the search goes.                                           *)
LEMMA FollowEnds ==
  ASSUME NEW successors, IsSuccession(successors), NEW start \in DOMAIN successors, NEW end, start # end, NEW h \in Nat,
         NEW r, Reaching(r, successors, start, h),
         NEW s, FollowOk(successors, r, start, end, h, s), s.queue = <<>>
  PROVE  IF s.found
         THEN /\ s.length[end] \in 1..h /\ end \in r[s.length[end]]
              /\ \A k \in 0..h : end \in r[k] => s.length[end] <= k
         ELSE \A k \in 0..h : end \notin r[k]
<1>1. PICK length, M : length = s.length /\ M = DOMAIN s.length
  OBVIOUS
<1>2. \A n \in M : /\ length[n] \in 0..h /\ n \in r[length[n]]
                   /\ length[n] # 0 => n \notin r[length[n] - 1]
  BY <1>1 DEF FollowOk, Distances
<1>3. ASSUME NEW x \in M, NEW k \in 0..h, x \in r[k] PROVE length[x] <= k
  <2> SUFFICES ASSUME ~ length[x] <= k PROVE FALSE
    OBVIOUS
  <2>1. length[x] # 0 /\ length[x] - 1 \in 0..h /\ k \in 0..(length[x] - 1)
    BY <1>2
  <2>2. r[k] \subseteq r[length[x] - 1]
    BY <2>1, ReachingGrows
  <2> QED
    BY <1>2, <1>3, <2>1, <2>2
<1>4. CASE s.found
  <2>1. end \in M
    BY <1>1, <1>4 DEF FollowOk
  <2>2. length[end] # 0
    BY <1>2, <2>1 DEF Reaching
  <2> QED
    BY <1>1, <1>2, <1>3, <1>4, <2>1, <2>2
<1>5. CASE ~ s.found
  <2>1. Waiting(s) = {}
    BY SetOfEmpty DEF Waiting
  <2>2. start \in M /\ \A n \in M : n # end /\ (length[n] < h => successors[n] \subseteq M)
    BY <1>1, <1>5, <2>1 DEF FollowOk
  <2> DEFINE Marked == {k \in 0..h : r[k] \subseteq M}
  <2>3. 0 \in Marked
    BY <2>2 DEF Reaching
  <2>4. ASSUME NEW k \in 1..h, k - 1 \in Marked PROVE k \in Marked
    <3>1. r[k] = r[k - 1] \cup UNION {successors[n] : n \in r[k - 1]} /\ r[k - 1] \subseteq M /\ k - 1 \in 0..h
      BY <2>4 DEF Reaching
    <3>2. ASSUME NEW n \in r[k - 1] PROVE successors[n] \subseteq M
      <4>1. n \in M /\ length[n] <= k - 1 /\ length[n] \in 0..h
        BY <1>2, <1>3, <3>1
      <4>2. length[n] < h
        BY <4>1
      <4> QED
        BY <2>2, <4>1, <4>2
    <3>3. r[k] \subseteq M
      BY <3>1, <3>2
    <3> QED
      BY <3>3
  <2> HIDE DEF Marked
  <2>5. \A k \in 0..h : k \in Marked
    BY <2>3, <2>4, UpTo
  <2> QED
    BY <1>5, <2>2, <2>5 DEF Marked
<1> QED
  BY <1>4, <1>5

LEMMA DocumentaryPathIs ==
  ASSUME NEW successors, IsSuccession(successors), NEW start \in DOMAIN successors, NEW end, start # end, NEW h \in Nat,
         NEW near, near = {k \in 1..h : end \in ReachedBy(successors, start, k)}
  PROVE  DocumentaryPath(successors, start, end, h) = IF near = {} THEN 0 ELSE Min(near)
<1>1. PICK n \in Nat : n = Cardinality(DOMAIN successors)
  BY FS_CardinalityType DEF IsSuccession
<1>2. PICK r : Reaching(r, successors, start, h) /\ \A k \in 0..h : ReachedBy(successors, start, k) = r[k]
  BY ReachingExists
<1> DEFINE chosen == CHOOSE t : t = [k \in 0..Cardinality(DOMAIN successors) |->
                       IF k = 0 THEN [length |-> [x \in {start} |-> 0], queue |-> <<start>>, found |-> FALSE]
                       ELSE LET s == t[k - 1] IN IF s.queue = <<>> THEN s ELSE Follow(successors, end, h, s)]
<1>3. FollowLoop(chosen, successors, start, end, h, n)
  <2>1. \E t : FollowLoop(t, successors, start, end, h, n)
    BY <1>2, FollowLoops
  <2>2. \E t : t = [k \in 0..Cardinality(DOMAIN successors) |->
                      IF k = 0 THEN [length |-> [x \in {start} |-> 0], queue |-> <<start>>, found |-> FALSE]
                      ELSE LET s == t[k - 1] IN IF s.queue = <<>> THEN s ELSE Follow(successors, end, h, s)]
    BY <1>1, <2>1, Zenon DEF FollowLoop, FollowTurn, FollowStart
  <2>3. chosen = [k \in 0..Cardinality(DOMAIN successors) |->
                    IF k = 0 THEN [length |-> [x \in {start} |-> 0], queue |-> <<start>>, found |-> FALSE]
                    ELSE LET s == chosen[k - 1] IN IF s.queue = <<>> THEN s ELSE Follow(successors, end, h, s)]
    BY <2>2
  <2> HIDE DEF chosen
  <2> QED
    BY <1>1, <2>3 DEF FollowLoop, FollowTurn, FollowStart
<1>4. DocumentaryPath(successors, start, end, h) = IF chosen[n].found THEN chosen[n].length[end] ELSE 0
  <2>1. DocumentaryPath(successors, start, end, h) =
          IF chosen[Cardinality(DOMAIN successors)].found THEN chosen[Cardinality(DOMAIN successors)].length[end] ELSE 0
    BY DEF DocumentaryPath
  <2> HIDE DEF chosen
  <2> QED
    BY <1>1, <2>1
<1> HIDE DEF chosen
<1>5. PICK s : s = chosen[n]
  OBVIOUS
<1>6. FollowOk(successors, r, start, end, h, s) /\ Followed(s, n)
  BY <1>2, <1>3, <1>5, FollowLoops
<1>7. s.queue = <<>>
  <2> SUFFICES ASSUME s.queue # <<>> PROVE FALSE
    OBVIOUS
  <2>1. PICK M, N, W : M = DOMAIN s.length /\ N = DOMAIN successors /\ W = Waiting(s)
    OBVIOUS
  <2>2. M \subseteq N /\ W \subseteq M /\ Cardinality(M \ W) = n
    BY <1>6, <2>1 DEF FollowOk, Followed
  <2>3. M \ W = N
    <3>1. M \ W \subseteq N
      BY <2>2
    <3> QED
      BY <1>1, <2>1, <2>2, <3>1, FS_Subset DEF IsSuccession
  <2>4. Head(s.queue) \in W
    <3>1. s.queue \in Seq(N)
      BY <1>6, <2>1 DEF FollowOk
    <3> QED
      BY <2>1, <3>1, SetOfTail DEF Waiting
  <2> QED
    BY <2>2, <2>3, <2>4
<1>8. /\ s.found => /\ s.length[end] \in 1..h /\ end \in r[s.length[end]]
                    /\ \A k \in 0..h : end \in r[k] => s.length[end] <= k
      /\ ~ s.found => \A k \in 0..h : end \notin r[k]
  BY <1>2, <1>6, <1>7, FollowEnds
<1>9. near = {k \in 1..h : end \in r[k]}
  <2>1. \A k \in 1..h : k \in 0..h
    OBVIOUS
  <2> QED
    BY <1>2, <2>1
<1>10. CASE s.found
  <2>1. PICK l : l = s.length[end]
    OBVIOUS
  <2>2. l \in near /\ \A k \in near : l <= k
    BY <1>8, <1>9, <1>10, <2>1
  <2>3. near \subseteq Nat
    BY <1>9
  <2>4. Min(near) = l
    BY <2>2, <2>3 DEF Min
  <2> QED
    BY <1>4, <1>5, <1>10, <2>1, <2>2, <2>4
<1>11. CASE ~ s.found
  BY <1>4, <1>5, <1>8, <1>9, <1>11
<1> QED
  BY <1>10, <1>11

LEMMA FiniteHasMax ==
  ASSUME NEW S \in SUBSET Nat, IsFiniteSet(S), S # {}
  PROVE  \E m \in S : \A x \in S : x <= m
<1>1. PICK key, s, n : key = [x \in S |-> x] /\ s = SortedBy(S, key) /\ n = Cardinality(S)
  OBVIOUS
<1>2. \A x \in S : key[x] = x /\ x \in Int
  BY <1>1
<1>3. (\A x \in S : key[x] \in Int) /\ (\A x, y \in S : key[x] = key[y] => x = y)
  BY <1>2
<1>4. /\ n \in Nat /\ s \in [1..n -> S]
      /\ \A x \in S : \E i \in 1..n : s[i] = x
      /\ \A i, j \in 1..n : i < j => key[s[i]] < key[s[j]]
  <2>1. /\ Cardinality(S) \in Nat /\ SortedBy(S, key) \in [1..Cardinality(S) -> S]
        /\ \A x \in S : \E i \in 1..Cardinality(S) : SortedBy(S, key)[i] = x
        /\ \A i, j \in 1..Cardinality(S) : i < j => key[SortedBy(S, key)[i]] < key[SortedBy(S, key)[j]]
    <3>1. \A x \in S : key[x] \in Int
      BY <1>3
    <3>2. \A x, y \in S : key[x] = key[y] => x = y
      BY <1>3
    <3>3. IsFiniteSet(S)
      OBVIOUS
    <3>4. PICK len, srt : len = Cardinality(S) /\ srt = SortedBy(S, key)
      OBVIOUS
    <3>5. len \in Nat /\ srt \in [1..len -> S]
      BY <3>1, <3>2, <3>3, <3>4, SortedIs
    <3>6. \A x \in S : \E i \in 1..len : srt[i] = x
      <4>1. srt \in Seq(Nat) /\ ToSet(srt) = S /\ Len(srt) = len
        BY <3>1, <3>2, <3>3, <3>4, SetOfSorted
      <4> QED
        BY <4>1, ElementOf
    <3>7. \A i, j \in 1..len : i < j => key[srt[i]] < key[srt[j]]
      BY <3>1, <3>2, <3>3, <3>4, SortedIs
    <3> QED
      BY <3>4, <3>5, <3>6, <3>7
  <2> QED
    BY <1>1, <2>1
<1>5. n \in 1..n /\ s[n] \in S
  <2>1. PICK i : i \in 1..n
    BY <1>4
  <2>2. n \in 1..n
    BY <1>4, <2>1
  <2> QED
    BY <1>4, <2>2
<1>6. ASSUME NEW x \in S PROVE x <= s[n]
  <2>1. PICK i \in 1..n : s[i] = x
    BY <1>4
  <2>2. i = n \/ i < n
    BY <1>4
  <2>3. i < n => x < s[n]
    <3>1. i < n => key[s[i]] < key[s[n]]
      BY <1>4, <1>5
    <3>2. key[s[n]] = s[n] /\ key[x] = x
      BY <1>2, <1>5
    <3> QED
      BY <2>1, <3>1, <3>2
  <2>4. x \in Nat /\ s[n] \in Nat
    BY <1>5
  <2>5. i = n => x = s[n]
    BY <2>1
  <2> QED
    BY <2>2, <2>3, <2>4, <2>5
<1> QED
  BY <1>5, <1>6

LEMMA FirstAndLast == Min(Nodes) \in Nodes /\ Min(Nodes) # Max(Nodes)
<1>1. PICK first \in Nodes : \A n \in Nodes : first <= n
  BY NodesAssumption, LeastNatural
<1>2. first = Min(Nodes)
  <2>1. \A y \in Nodes : (\A n \in Nodes : y =< n) => y = first
    BY <1>1, NodesAssumption
  <2> QED
    BY <1>1, <2>1 DEF Min
<1>3. \E m \in Nodes : \A n \in Nodes : n <= m
  BY FiniteHasMax, NodesAssumption
<1>4. Max(Nodes) \in Nodes /\ \A n \in Nodes : n <= Max(Nodes)
  BY <1>3 DEF Max
<1> QED
  BY <1>1, <1>2, <1>4, NodesAssumption

---------------------------------------------------------------------------
(* A path is found exactly when there is one that avoids the blocked nodes, *)
(* and a documentary path exactly when its end is near enough, a shortest.  *)
THEOREM SearchTheorem == Spec => []SearchIsCorrect
<1>1. AnswersInv => SearchIsCorrect
  <2> SUFFICES ASSUME AnswersInv PROVE SearchIsCorrect
    OBVIOUS
  <2>1. PICK parents : parents = input.parents
    OBVIOUS
  <2>2. ASSUME answer.to = "search"
        PROVE  answer.is <=> PathAvoids(input.parents, answer.start, answer.end, answer.blocked)
    <3>1. /\ DOMAIN parents = Nodes /\ \A n \in Nodes : parents[n] \subseteq Nodes
          /\ answer.start \in Nodes /\ answer.end \in Nodes /\ answer.blocked \in SUBSET Nodes
          /\ answer.is = Reachable(parents, Name, answer.start, answer.end, answer.blocked)
      BY <2>1, <2>2 DEF AnswersInv, SearchInv, GraphAsked
    <3>2. IsGraph(parents, Name)
      BY <3>1, NamesAreKeys
    <3>3. PICK start, end, blocked : start = answer.start /\ end = answer.end /\ blocked = answer.blocked
      OBVIOUS
    <3>4. Reachable(parents, Name, start, end, blocked) <=> PathAvoids(parents, start, end, blocked)
      BY <3>1, <3>2, <3>3, ReachableIs
    <3> QED
      BY <2>1, <3>1, <3>3, <3>4
  <2>3. ASSUME answer.to = "path", NEW hops \in DOMAIN answer.is
        PROVE  LET near == {k \in 1..hops : Max(Nodes) \in ReachedBy(input.parents, Min(Nodes), k)}
               IN  answer.is[hops] = IF near = {} THEN 0 ELSE Min(near)
    <3>1. /\ DOMAIN parents = Nodes /\ \A n \in Nodes : parents[n] \subseteq Nodes
          /\ answer.is = PathsIn(parents)
      BY <2>1, <2>3 DEF AnswersInv, PathInv, GraphAsked
    <3>2. hops \in Nat /\ answer.is[hops] = DocumentaryPath(parents, Min(Nodes), Max(Nodes), hops)
      BY <2>3, <3>1 DEF PathsIn
    <3>3. IsSuccession(parents)
      BY <3>1, NodesAssumption DEF IsSuccession
    <3>4. PICK start, end : start = Min(Nodes) /\ end = Max(Nodes)
      OBVIOUS
    <3>5. start \in Nodes /\ start # end
      BY <3>4, FirstAndLast
    <3>6. PICK near : near = {k \in 1..hops : end \in ReachedBy(parents, start, k)}
      OBVIOUS
    <3>7. DocumentaryPath(parents, start, end, hops) = IF near = {} THEN 0 ELSE Min(near)
      BY <3>1, <3>2, <3>3, <3>5, <3>6, DocumentaryPathIs
    <3> QED
      BY <2>1, <3>2, <3>4, <3>6, <3>7
  <2> QED
    BY <2>2, <2>3, Zenon DEF SearchIsCorrect
<1> QED
  BY <1>1, AnswersStart, AnswersStay, ScopesStart, ScopesStay, PTL DEF Spec
---------------------------------------------------------------------------
(* Corrections for multiplicity.                                           *)

(* A list of values and the ranks of its indices.                          *)
Ranked(v, n, order, rank) ==
    /\ n \in Nat /\ v \in [1..n -> Nat]
    /\ order \in [1..n -> 1..n] /\ rank \in [1..n -> 1..n]
    /\ \A k \in 1..n : rank[order[k]] = k
    /\ \A i \in 1..n : order[rank[i]] = i
    /\ \A i, j \in 1..n : rank[i] <= rank[j] => v[i] <= v[j]

LEMMA RankOrderIs ==
  ASSUME NEW n \in Nat, NEW v \in [1..n -> Nat]
  PROVE  \E rank : Ranked(v, n, RankOrder(v), rank)
<1>1. PICK S, upto : S = 1..n /\ upto = [i \in S |-> {j \in S : v[j] < v[i] \/ (v[j] = v[i] /\ j <= i)}]
  OBVIOUS
<1>2. PICK rank : rank = [i \in S |-> Cardinality(upto[i])]
  OBVIOUS
<1>3. IsFiniteSet(S) /\ n = Cardinality(S)
  BY <1>1, FS_Interval
<1>4. /\ upto \in [S -> SUBSET S]
      /\ \A x, y \in S : x \in upto[y] <=> v[x] < v[y] \/ (v[x] = v[y] /\ x <= y)
      /\ \A x \in S : x \in Nat /\ v[x] \in Nat
  BY <1>1
<1>5. \A x \in S : x \in upto[x]
  BY <1>4
<1>6. \A x, y \in S : x # y => (x \in upto[y] <=> y \notin upto[x])
  BY <1>4
<1>7. ASSUME NEW x \in S, NEW y \in S, x \in upto[y] PROVE upto[x] \subseteq upto[y]
  <2> SUFFICES ASSUME NEW u \in S, u \in upto[x] PROVE u \in upto[y]
    BY <1>4
  <2>1. /\ v[x] < v[y] \/ (v[x] = v[y] /\ x <= y)
        /\ v[u] < v[x] \/ (v[u] = v[x] /\ u <= x)
    BY <1>4, <1>7
  <2>2. v[u] < v[y] \/ (v[u] = v[y] /\ u <= y)
    BY <1>4, <2>1
  <2> QED
    BY <1>4, <2>2
<1>8. /\ rank \in [S -> 1..n]
      /\ \A x, y \in S : rank[x] = rank[y] => x = y
      /\ \A x, y \in S : rank[x] <= rank[y] <=> x \in upto[y]
  BY <1>2, <1>3, <1>4, <1>5, <1>6, <1>7, CountingRanks
<1>9. RankOrder(v) = AntiFunction(rank)
  <2>1. DOMAIN v = S
    BY <1>1
  <2>2. rank = [i \in S |-> Cardinality({j \in S : v[j] < v[i] \/ (v[j] = v[i] /\ j <= i)})]
    BY <1>1, <1>2
  <2> QED
    BY <2>1, <2>2, Zenon DEF RankOrder
<1>10. /\ AntiFunction(rank) \in [1..n -> S]
       /\ \A k \in 1..n : rank[AntiFunction(rank)[k]] = k
       /\ \A x \in S : AntiFunction(rank)[rank[x]] = x
  BY <1>3, <1>8, RankingInverts
<1>11. ASSUME NEW i \in S, NEW j \in S, rank[i] <= rank[j] PROVE v[i] <= v[j]
  <2>1. i \in upto[j]
    BY <1>8, <1>11
  <2>2. v[i] < v[j] \/ v[i] = v[j]
    BY <1>4, <2>1
  <2> QED
    BY <1>4, <2>2
<1>12. PICK order : order = AntiFunction(rank)
  OBVIOUS
<1>13. Ranked(v, n, order, rank)
  <2>1. /\ order \in [1..n -> 1..n] /\ rank \in [1..n -> 1..n]
        /\ \A k \in 1..n : rank[order[k]] = k
        /\ \A i \in 1..n : order[rank[i]] = i
    BY <1>1, <1>8, <1>10, <1>12
  <2>2. \A i, j \in 1..n : rank[i] <= rank[j] => v[i] <= v[j]
    BY <1>1, <1>11
  <2> QED
    BY <2>1, <2>2 DEF Ranked
<1> QED
  BY <1>9, <1>12, <1>13

(* As many indices have ranks in a set as there are ranks in it.           *)
LEMMA RankCount ==
  ASSUME NEW v, NEW n, NEW order, NEW rank, Ranked(v, n, order, rank), NEW I \in SUBSET (1..n)
  PROVE  Cardinality({i \in 1..n : rank[i] \in I}) = Cardinality(I)
<1>1. PICK J : J = {i \in 1..n : rank[i] \in I}
  OBVIOUS
<1>2. IsFiniteSet(I)
  <2>1. n \in Nat
    BY DEF Ranked
  <2>2. IsFiniteSet(1..n)
    BY <2>1, FS_Interval
  <2> QED
    BY <2>2, FS_Subset
<1>3. PICK f : f = [k \in I |-> order[k]]
  OBVIOUS
<1>4. f \in [I -> J]
  BY <1>1, <1>3 DEF Ranked
<1>5. \A a, b \in I : f[a] = f[b] => a = b
  BY <1>3 DEF Ranked
<1>6. \A j \in J : \E k \in I : f[k] = j
  BY <1>1, <1>3 DEF Ranked
<1>7. f \in Bijection(I, J)
  BY <1>4, <1>5, <1>6 DEF Bijection, Injection, IsInjective, Surjection
<1> QED
  BY <1>1, <1>2, <1>7, FS_Bijection DEF ExistsBijection

(* Arithmetic.                                                             *)
LEMMA MoreTimes ==
  ASSUME NEW a \in Nat, NEW b \in Nat, NEW c \in Nat, a <= b
  PROVE  a * c <= b * c /\ c * a <= c * b /\ a * c \in Nat
OBVIOUS

LEMMA QuotientBelow ==
  ASSUME NEW a \in Nat, NEW q \in Nat \ {0}, NEW c \in Nat
  PROVE  a \div q \in Nat /\ (a \div q < c <=> a < c * q)
OBVIOUS
---------------------------------------------------------------------------
(* Holm's correction.                                                      *)
HolmRun(running, v, n, order) ==
    /\ running \in [0..n -> Nat] /\ running[0] = 0
    /\ \A r \in 1..n : running[r] = Greater(running[r - 1], Lesser(Unit, (n - r + 1) * v[order[r]]))

LEMMA HolmIs ==
  ASSUME NEW v, NEW n, NEW rank, Ranked(v, n, RankOrder(v), rank)
  PROVE  \E running : HolmRun(running, v, n, RankOrder(v)) /\ \A i \in 1..n : Holm(v)[i] = running[rank[i]]
<1>1. PICK order : order = RankOrder(v)
  OBVIOUS
<1>2. /\ n \in Nat /\ v \in [1..n -> Nat] /\ order \in [1..n -> 1..n] /\ rank \in [1..n -> 1..n]
      /\ \A k \in 1..n : rank[order[k]] = k
      /\ \A i \in 1..n : order[rank[i]] = i
  BY <1>1 DEF Ranked
<1>3. Len(v) = n
  BY <1>2
<1> DEFINE Next1(r, x) == Greater(x, Lesser(Unit, (n - r + 1) * v[order[r]]))
<1>4. \A r \in 1..n : \A x \in Nat : Next1(r, x) \in Nat
  <2> SUFFICES ASSUME NEW r \in 1..n, NEW x \in Nat PROVE Next1(r, x) \in Nat
    OBVIOUS
  <2>1. n - r + 1 \in Nat /\ v[order[r]] \in Nat
    BY <1>2
  <2>2. (n - r + 1) * v[order[r]] \in Nat
    BY <2>1
  <2> QED
    BY <2>2, TestsAssumption DEF Greater, Lesser
<1>5. PICK step : step = [r \in 1..n |-> [x \in Nat |-> Next1(r, x)]]
  OBVIOUS
<1>6. step \in [1..n -> [Nat -> Nat]] /\ \A r \in 1..n : \A x \in Nat : step[r][x] = Next1(r, x)
  <2> HIDE DEF Next1
  <2> QED
    BY <1>4, <1>5
<1>7. PICK f : Course(f, Nat, 0, step, n)
  <2>1. 0 \in Nat
    OBVIOUS
  <2> QED
    BY <1>2, <1>6, <2>1, CourseExists
<1>8. f \in [0..n -> Nat] /\ f[0] = 0 /\ \A r \in 1..n : f[r] = Next1(r, f[r - 1])
  <2> HIDE DEF Next1
  <2>1. f \in [0..n -> Nat] /\ f[0] = 0 /\ \A r \in 1..n : f[r] = step[r][f[r - 1]]
    BY <1>7 DEF Course
  <2>2. \A r \in 1..n : r - 1 \in 0..n
    BY <1>2
  <2>3. \A r \in 1..n : f[r - 1] \in Nat
    BY <2>1, <2>2
  <2>4. \A r \in 1..n : step[r][f[r - 1]] = Next1(r, f[r - 1])
    BY <1>6, <2>3
  <2> QED
    BY <2>1, <2>4
<1>80. \A r \in 1..n : f[r - 1] \in Nat
  <2>1. \A r \in 1..n : r - 1 \in 0..n
    BY <1>2
  <2> QED
    BY <1>8, <2>1
<1> DEFINE chosen == CHOOSE t : t = [r \in 0..n |->
                       IF r = 0 THEN 0 ELSE Greater(t[r - 1], Lesser(Unit, (n - r + 1) * v[order[r]]))]
<1>9. f = [r \in 0..n |-> IF r = 0 THEN 0 ELSE Greater(f[r - 1], Lesser(Unit, (n - r + 1) * v[order[r]]))]
  <2>1. \A r \in 0..n : r # 0 => r \in 1..n
    BY <1>2
  <2>2. \A r \in 0..n : f[r] = IF r = 0 THEN 0 ELSE Next1(r, f[r - 1])
    <3> HIDE DEF Next1
    <3> QED
      BY <1>8, <2>1
  <2> QED
    BY <1>8, <2>2
<1>10. chosen = [r \in 0..n |-> IF r = 0 THEN 0 ELSE Greater(chosen[r - 1], Lesser(Unit, (n - r + 1) * v[order[r]]))]
  BY <1>9
<1>11. Holm(v) = [i \in 1..n |-> chosen[CHOOSE r \in 1..n : order[r] = i]]
  BY <1>1, <1>3 DEF Holm
<1> HIDE DEF chosen
<1>12. chosen = f
  <2> DEFINE Step(r) == IF r = 0 THEN 0 ELSE Next1(r, chosen[r - 1])
  <2>1. chosen = [r \in 0..n |-> Step(r)]
    BY <1>10
  <2> HIDE DEF Step, Next1
  <2>2. DOMAIN chosen = 0..n /\ \A r \in 0..n : chosen[r] = Step(r)
    BY <2>1
  <2> USE DEF Step
  <2>3. chosen[0] = 0 /\ \A r \in 1..n : chosen[r] = Next1(r, chosen[r - 1])
    <3>1. 0 \in 0..n /\ \A r \in 1..n : r \in 0..n /\ r # 0
      BY <1>2
    <3>2. Step(0) = 0 /\ \A r \in 1..n : Step(r) = Next1(r, chosen[r - 1])
      BY <3>1 DEF Step
    <3> HIDE DEF Step
    <3> QED
      BY <2>2, <3>1, <3>2
  <2> DEFINE Same == {r \in 0..n : chosen[r] = f[r]}
  <2>4. 0 \in Same
    BY <1>2, <1>8, <2>3
  <2>5. \A r \in 1..n : r - 1 \in Same => r \in Same
    BY <1>2, <1>8, <2>3
  <2> HIDE DEF Same, Step
  <2>6. \A r \in 0..n : r \in Same
    BY <1>2, <2>4, <2>5, UpTo
  <2>7. \A r \in 0..n : chosen[r] = f[r]
    BY <2>6 DEF Same
  <2> QED
    BY <1>8, <2>1, <2>7
<1>13. \A i \in 1..n : (CHOOSE r \in 1..n : order[r] = i) = rank[i]
  BY <1>2
<1>14. HolmRun(f, v, n, order)
  BY <1>8 DEF HolmRun
<1>15. \A i \in 1..n : Holm(v)[i] = f[rank[i]]
  <2>1. \A i \in 1..n : Holm(v)[i] = f[CHOOSE r \in 1..n : order[r] = i]
    BY <1>11, <1>12
  <2> QED
    BY <1>13, <2>1
<1> QED
  BY <1>1, <1>14, <1>15

(* What the running maximum is below.                                      *)
LEMMA HolmBelow ==
  ASSUME NEW v, NEW n, NEW order, NEW rank, Ranked(v, n, order, rank),
         NEW running, HolmRun(running, v, n, order), NEW alpha \in 0..Unit
  PROVE  \A r \in 0..n : running[r] < alpha <=> 0 < alpha /\ \A q \in 1..r : (n - q + 1) * v[order[q]] < alpha
<1>01. Unit \in Nat
  BY TestsAssumption
<1>02. alpha \in Nat /\ alpha <= Unit
  BY <1>01
<1>03. n \in Nat /\ v \in [1..n -> Nat] /\ order \in [1..n -> 1..n]
  BY DEF Ranked
<1>1. n \in Nat /\ v \in [1..n -> Nat] /\ order \in [1..n -> 1..n] /\ alpha \in Nat /\ alpha <= Unit /\ Unit \in Nat
  BY <1>01, <1>02, <1>03
<1>2. PICK w : w = [q \in 1..n |-> (n - q + 1) * v[order[q]]]
  OBVIOUS
<1>3. \A q \in 1..n : w[q] \in Nat /\ w[q] = (n - q + 1) * v[order[q]]
  <2>1. ASSUME NEW q \in 1..n PROVE (n - q + 1) * v[order[q]] \in Nat
    <3>1. n - q + 1 \in Nat /\ v[order[q]] \in Nat
      BY <1>1
    <3> QED
      BY <3>1
  <2> QED
    BY <1>2, <2>1
<1>4. running \in [0..n -> Nat] /\ running[0] = 0 /\ \A r \in 1..n : running[r] = Greater(running[r - 1], Lesser(Unit, w[r]))
  BY <1>3 DEF HolmRun
<1> DEFINE Good == {r \in 0..n : running[r] < alpha <=> 0 < alpha /\ \A q \in 1..r : w[q] < alpha}
<1>5. 0 \in Good
  BY <1>1, <1>4
<1>6. ASSUME NEW r \in 1..n, r - 1 \in Good PROVE r \in Good
  <2>1. running[r - 1] < alpha <=> 0 < alpha /\ \A q \in 1..(r - 1) : w[q] < alpha
    BY <1>6
  <2>2. running[r] < alpha <=> running[r - 1] < alpha /\ w[r] < alpha
    <3>0. r - 1 \in 0..n
      BY <1>1
    <3>9. running[r - 1] \in Nat /\ w[r] \in Nat
      BY <3>0, <1>3, <1>4
    <3>1. PICK x, y : x = running[r - 1] /\ y = w[r] /\ x \in Nat /\ y \in Nat
      BY <3>9
    <3>2. running[r] = Greater(x, Lesser(Unit, y))
      BY <1>4, <3>1
    <3>3. Greater(x, Lesser(Unit, y)) < alpha <=> x < alpha /\ y < alpha
      <4>1. alpha \in Nat /\ Unit \in Nat /\ alpha <= Unit /\ x \in Nat /\ y \in Nat
        BY <1>1, <3>1
      <4>2. (Lesser(Unit, y) < alpha <=> y < alpha) /\ Lesser(Unit, y) \in Nat
        BY <4>1 DEF Lesser
      <4> QED
        BY <4>1, <4>2 DEF Greater
    <3> QED
      BY <3>1, <3>2, <3>3
  <2>3. (\A q \in 1..r : w[q] < alpha) <=> (\A q \in 1..(r - 1) : w[q] < alpha) /\ w[r] < alpha
    <3>1. \A q \in 1..r : q \in 1..(r - 1) \/ q = r
      BY <1>1
    <3>2. r \in 1..r /\ \A q \in 1..(r - 1) : q \in 1..r
      BY <1>1
    <3> QED
      BY <3>1, <3>2
  <2>4. running[r] < alpha <=> 0 < alpha /\ \A q \in 1..r : w[q] < alpha
    BY <2>1, <2>2, <2>3
  <2>5. r \in 0..n
    BY <1>1
  <2> QED
    BY <2>4, <2>5
<1> HIDE DEF Good
<1>7. \A r \in 0..n : r \in Good
  BY <1>1, <1>5, <1>6, UpTo
<1>8. ASSUME NEW r \in 0..n PROVE running[r] < alpha <=> 0 < alpha /\ \A q \in 1..r : (n - q + 1) * v[order[q]] < alpha
  <2>1. running[r] < alpha <=> 0 < alpha /\ \A q \in 1..r : w[q] < alpha
    BY <1>7 DEF Good
  <2>2. \A q \in 1..r : q \in 1..n
    BY <1>1
  <2> QED
    BY <1>3, <2>1, <2>2
<1> QED
  BY <1>8

LEMMA HolmRejectsIs ==
  ASSUME NEW n \in Nat, NEW v \in [1..n -> Nat], NEW alpha \in 0..Unit, NEW k \in 1..n
  PROVE  Holm(v)[k] < alpha <=>
           \A j \in 1..n : v[j] <= v[k] => v[j] * Cardinality({l \in 1..n : v[l] >= v[j]}) < alpha
<1>1. PICK order, rank : order = RankOrder(v) /\ Ranked(v, n, order, rank)
  BY RankOrderIs
<1>2. PICK running : HolmRun(running, v, n, order) /\ Holm(v)[k] = running[rank[k]]
  BY <1>1, HolmIs
<1>3. /\ order \in [1..n -> 1..n] /\ rank \in [1..n -> 1..n]
      /\ \A q \in 1..n : rank[order[q]] = q
      /\ \A i \in 1..n : order[rank[i]] = i
      /\ \A i, j \in 1..n : rank[i] <= rank[j] => v[i] <= v[j]
      /\ rank[k] \in 1..n /\ alpha \in Nat /\ alpha <= Unit /\ Unit \in Nat
  <2>1. Unit \in Nat
    BY TestsAssumption
  <2>2. alpha \in Nat /\ alpha <= Unit
    BY <2>1
  <2>3. /\ order \in [1..n -> 1..n] /\ rank \in [1..n -> 1..n]
        /\ \A q \in 1..n : rank[order[q]] = q
        /\ \A i \in 1..n : order[rank[i]] = i
        /\ \A i, j \in 1..n : rank[i] <= rank[j] => v[i] <= v[j]
    BY <1>1 DEF Ranked
  <2>4. rank[k] \in 1..n
    BY <2>3
  <2> QED
    BY <2>1, <2>2, <2>3, <2>4
<1>4. Holm(v)[k] < alpha <=> \A q \in 1..rank[k] : (n - q + 1) * v[order[q]] < alpha
  <2>1. running[rank[k]] < alpha <=> 0 < alpha /\ \A q \in 1..rank[k] : (n - q + 1) * v[order[q]] < alpha
    <3>1. rank[k] \in 0..n
      BY <1>3
    <3> QED
      BY <1>1, <1>2, <3>1, HolmBelow
  <2>2. ASSUME \A q \in 1..rank[k] : (n - q + 1) * v[order[q]] < alpha PROVE 0 < alpha
    <3>1. 1 \in 1..rank[k] /\ n - 1 + 1 \in Nat /\ v[order[1]] \in Nat
      BY <1>3
    <3>2. (n - 1 + 1) * v[order[1]] \in Nat /\ (n - 1 + 1) * v[order[1]] < alpha
      BY <2>2, <3>1
    <3> QED
      BY <1>3, <3>2
  <2> QED
    BY <1>2, <2>1, <2>2
<1>5. ASSUME NEW q \in 1..n PROVE Cardinality({l \in 1..n : rank[l] \in q..n}) = n - q + 1 /\ IsFiniteSet({l \in 1..n : rank[l] \in q..n})
  <2>1. q..n \in SUBSET (1..n)
    OBVIOUS
  <2>2. Cardinality({l \in 1..n : rank[l] \in q..n}) = Cardinality(q..n)
    BY <1>1, <2>1, RankCount
  <2>3. Cardinality(q..n) = n - q + 1
    BY FS_Interval
  <2>4. IsFiniteSet(1..n)
    BY FS_Interval
  <2> QED
    BY <2>2, <2>3, <2>4, FS_Subset
<1>6. ASSUME NEW j \in 1..n
      PROVE  /\ IsFiniteSet({l \in 1..n : v[l] >= v[j]}) /\ Cardinality({l \in 1..n : v[l] >= v[j]}) \in Nat
             /\ n - rank[j] + 1 <= Cardinality({l \in 1..n : v[l] >= v[j]})
  <2>1. PICK A, B : A = {l \in 1..n : rank[l] \in rank[j]..n} /\ B = {l \in 1..n : v[l] >= v[j]}
    OBVIOUS
  <2>2. A \subseteq B
    <3>1. \A l \in A : rank[j] <= rank[l]
      BY <1>3, <2>1
    <3> QED
      BY <1>3, <2>1, <3>1
  <2>3. IsFiniteSet(B)
    BY <2>1, FS_Interval, FS_Subset
  <2>4. Cardinality(A) <= Cardinality(B) /\ Cardinality(B) \in Nat
    BY <2>2, <2>3, FS_Subset, FS_CardinalityType
  <2>5. Cardinality(A) = n - rank[j] + 1
    BY <1>3, <1>5, <2>1
  <2> QED
    BY <2>1, <2>3, <2>4, <2>5
<1>7. ASSUME \A j \in 1..n : v[j] <= v[k] => v[j] * Cardinality({l \in 1..n : v[l] >= v[j]}) < alpha,
             NEW q \in 1..rank[k]
      PROVE  (n - q + 1) * v[order[q]] < alpha
  <2>1. PICK j, c : j = order[q] /\ c = Cardinality({l \in 1..n : v[l] >= v[j]})
    OBVIOUS
  <2>20. q \in 1..n /\ q <= rank[k]
    <3>1. PICK x : x = rank[k] /\ x \in 1..n
      BY <1>3
    <3> QED
      BY <1>7, <3>1
  <2>2. q \in 1..n /\ j \in 1..n /\ rank[j] = q
    BY <1>3, <2>1, <2>20
  <2>3. v[j] <= v[k]
    BY <1>3, <2>2, <2>20
  <2>40. v[j] * c < alpha
    BY <1>7, <2>1, <2>2, <2>3
  <2>41. n - q + 1 \in Nat /\ v[j] \in Nat
    BY <2>2
  <2>42. c \in Nat /\ n - q + 1 <= c
    BY <1>6, <2>1, <2>2
  <2>4. v[j] * c < alpha /\ c \in Nat /\ n - q + 1 <= c /\ n - q + 1 \in Nat /\ v[j] \in Nat
    BY <2>40, <2>41, <2>42
  <2>5. PICK a, x : a = n - q + 1 /\ x = v[j]
    OBVIOUS
  <2>60. a \in Nat /\ x \in Nat /\ c \in Nat /\ a <= c
    BY <2>4, <2>5
  <2>61. a * x <= c * x /\ a * x \in Nat
    BY <2>60, MoreTimes
  <2>62. x * c \in Nat /\ x * c = c * x
    BY <2>60
  <2>6. a * x <= c * x /\ a * x \in Nat /\ x * c \in Nat /\ x * c = c * x
    BY <2>61, <2>62
  <2>70. PICK s, t : s = a * x /\ t = x * c /\ s \in Nat /\ t \in Nat
    BY <2>6
  <2>71. s <= t /\ t < alpha /\ alpha \in Nat
    BY <1>3, <2>4, <2>5, <2>6, <2>70
  <2>72. s < alpha
    BY <2>70, <2>71
  <2>7. a * x < alpha
    BY <2>70, <2>72
  <2> QED
    BY <2>1, <2>5, <2>7
<1>8. ASSUME \A q \in 1..rank[k] : (n - q + 1) * v[order[q]] < alpha,
             NEW j \in 1..n, v[j] <= v[k]
      PROVE  v[j] * Cardinality({l \in 1..n : v[l] >= v[j]}) < alpha
  <2>1. PICK q \in {r \in 1..n : v[order[r]] = v[j]} : \A r \in {r \in 1..n : v[order[r]] = v[j]} : q <= r
    <3>1. PICK R : R = {r \in 1..n : v[order[r]] = v[j]}
      OBVIOUS
    <3>2. rank[j] \in R
      BY <1>3, <3>1
    <3>3. R \in SUBSET Nat /\ R # {}
      BY <3>1, <3>2
    <3>4. PICK q \in R : \A r \in R : q <= r
      BY <3>3, LeastNatural
    <3> QED
      BY <3>1, <3>4
  <2>2. q \in 1..n /\ v[order[q]] = v[j] /\ order[q] \in 1..n /\ rank[order[q]] = q
    BY <1>3
  <2>3. \A l \in 1..n : v[l] >= v[j] => q <= rank[l]
    <3> SUFFICES ASSUME NEW l \in 1..n, v[l] >= v[j], ~ q <= rank[l] PROVE FALSE
      OBVIOUS
    <3>1. rank[l] <= rank[order[q]]
      <4>1. rank[l] \in 1..n /\ rank[order[q]] = q /\ q \in 1..n
        BY <1>3, <2>2
      <4>2. \A x, y \in 1..n : ~ y <= x => x <= y
        OBVIOUS
      <4> QED
        BY <4>1, <4>2
    <3>2. v[l] <= v[order[q]]
      BY <1>3, <2>2, <3>1
    <3>3. v[l] = v[j]
      BY <2>2, <3>2
    <3>4. rank[l] \in {r \in 1..n : v[order[r]] = v[j]}
      BY <1>3, <3>3
    <3> QED
      BY <2>1, <3>4
  <2>4. q <= rank[k]
    BY <2>3, <1>8
  <2>5. (n - q + 1) * v[order[q]] < alpha
    BY <1>3, <1>8, <2>2, <2>4
  <2>6. PICK c, a, x : c = Cardinality({l \in 1..n : v[l] >= v[j]}) /\ a = n - q + 1 /\ x = v[j]
    OBVIOUS
  <2>7. c <= a /\ c \in Nat /\ a \in Nat /\ x \in Nat
    <3>1. PICK A, B : A = {l \in 1..n : rank[l] \in q..n} /\ B = {l \in 1..n : v[l] >= v[j]}
      OBVIOUS
    <3>2. B \subseteq A
      BY <1>3, <2>3, <3>1
    <3>3. IsFiniteSet(A) /\ Cardinality(A) = n - q + 1
      BY <1>5, <2>2, <3>1
    <3>4. Cardinality(B) <= Cardinality(A)
      BY <3>2, <3>3, FS_Subset
    <3> QED
      BY <1>6, <2>2, <2>6, <3>1, <3>3, <3>4
  <2>8. c * x <= a * x /\ c * x \in Nat /\ x * c = c * x /\ a * x \in Nat
    BY <2>7, MoreTimes
  <2>9. x * c < alpha
    <3>1. a * x < alpha /\ alpha \in Nat
      BY <1>3, <2>2, <2>5, <2>6
    <3>2. PICK s, t, u : s = a * x /\ t = c * x /\ u = x * c
      OBVIOUS
    <3>3. s \in Nat /\ t \in Nat /\ t <= s /\ u = t /\ s < alpha /\ alpha \in Nat
      BY <2>8, <3>1, <3>2
    <3>4. u < alpha
      BY ONLY <3>3
    <3> QED
      BY <3>2, <3>4
  <2> QED
    BY <2>6, <2>9
<1> QED
  BY <1>4, <1>7, <1>8
---------------------------------------------------------------------------
(* The correction of Benjamini and Hochberg.                               *)
StepUp(running, v, n, order) ==
    /\ running \in [1..(n + 1) -> Nat] /\ running[n + 1] = Unit
    /\ \A r \in 1..n : running[r] = Lesser(running[r + 1], (v[order[r]] * n) \div r)

LEMMA StepUpIs ==
  ASSUME NEW v, NEW n, NEW rank, Ranked(v, n, RankOrder(v), rank)
  PROVE  \E running : /\ StepUp(running, v, n, RankOrder(v))
                      /\ \A i \in 1..n : BenjaminiHochberg(v)[i] = running[rank[i]]
<1>1. PICK order : order = RankOrder(v)
  OBVIOUS
<1>2. /\ n \in Nat /\ v \in [1..n -> Nat] /\ order \in [1..n -> 1..n] /\ rank \in [1..n -> 1..n]
      /\ \A k \in 1..n : rank[order[k]] = k
      /\ \A i \in 1..n : order[rank[i]] = i
  BY <1>1 DEF Ranked
<1>3. Len(v) = n /\ Unit \in Nat
  BY <1>2, TestsAssumption
<1> DEFINE Up(r, x) == Lesser(x, (v[order[r]] * n) \div r)
<1>4. \A r \in 1..n : \A x \in Nat : Up(r, x) \in Nat
  <2> SUFFICES ASSUME NEW r \in 1..n, NEW x \in Nat PROVE Up(r, x) \in Nat
    OBVIOUS
  <2>1. v[order[r]] \in Nat
    BY <1>2
  <2>2. v[order[r]] * n \in Nat
    <3>1. PICK y : y = v[order[r]] /\ y \in Nat
      BY <2>1
    <3>2. n \in Nat /\ y <= y
      BY <1>2, <3>1
    <3>3. y * n \in Nat
      BY ONLY <3>1, <3>2, MoreTimes
    <3> QED
      BY <3>1, <3>3
  <2>3. r \in Nat \ {0}
    OBVIOUS
  <2>4. (v[order[r]] * n) \div r \in Nat
    BY <2>2, <2>3, QuotientBelow
  <2> QED
    BY <2>4 DEF Lesser
<1>5. PICK step : step = [r \in 1..n |-> [x \in Nat |-> Up(n + 1 - r, x)]]
  OBVIOUS
<1>6. step \in [1..n -> [Nat -> Nat]] /\ \A r \in 1..n : \A x \in Nat : step[r][x] = Up(n + 1 - r, x)
  <2> HIDE DEF Up
  <2>1. \A r \in 1..n : n + 1 - r \in 1..n
    BY <1>2
  <2> QED
    BY <1>4, <1>5, <2>1
<1>7. PICK g : Course(g, Nat, Unit, step, n)
  BY <1>2, <1>3, <1>6, CourseExists
<1>8. g \in [0..n -> Nat] /\ g[0] = Unit /\ \A r \in 1..n : g[r] = Up(n + 1 - r, g[r - 1])
  <2> HIDE DEF Up
  <2>1. g \in [0..n -> Nat] /\ g[0] = Unit /\ \A r \in 1..n : g[r] = step[r][g[r - 1]]
    BY <1>7 DEF Course
  <2>2. \A r \in 1..n : r - 1 \in 0..n
    BY <1>2
  <2>3. \A r \in 1..n : g[r - 1] \in Nat
    BY <2>1, <2>2
  <2>4. \A r \in 1..n : step[r][g[r - 1]] = Up(n + 1 - r, g[r - 1])
    BY <1>6, <2>3
  <2> QED
    BY <2>1, <2>4
<1>9. PICK f : f = [r \in 1..(n + 1) |-> g[n + 1 - r]]
  OBVIOUS
<1>10. f \in [1..(n + 1) -> Nat] /\ f[n + 1] = Unit /\ \A r \in 1..n : f[r] = Up(r, f[r + 1])
  <2> HIDE DEF Up
  <2>1. \A r \in 1..(n + 1) : n + 1 - r \in 0..n /\ f[r] = g[n + 1 - r]
    BY <1>2, <1>9
  <2>2. n + 1 \in 1..(n + 1) /\ n + 1 - (n + 1) = 0
    BY <1>2
  <2>3. \A r \in 1..n : /\ r \in 1..(n + 1) /\ r + 1 \in 1..(n + 1) /\ n + 1 - r \in 1..n
                        /\ n + 1 - (r + 1) = (n + 1 - r) - 1 /\ n + 1 - (n + 1 - r) = r
    BY <1>2
  <2>4. f \in [1..(n + 1) -> Nat]
    BY <1>8, <1>9, <2>1
  <2>5. f[n + 1] = Unit
    BY <1>8, <2>1, <2>2
  <2>6. ASSUME NEW r \in 1..n PROVE f[r] = Up(r, f[r + 1])
    <3>1. f[r] = g[n + 1 - r] /\ f[r + 1] = g[(n + 1 - r) - 1]
      BY <2>1, <2>3
    <3>2. g[n + 1 - r] = Up(n + 1 - (n + 1 - r), g[(n + 1 - r) - 1])
      BY <1>8, <2>3
    <3>3. n + 1 - (n + 1 - r) = r
      BY <2>3
    <3> QED
      BY <3>1, <3>2, <3>3
  <2> QED
    BY <2>4, <2>5, <2>6
<1> DEFINE chosen == CHOOSE t : t = [r \in 1..(n + 1) |->
                       IF r = n + 1 THEN Unit ELSE Lesser(t[r + 1], (v[order[r]] * n) \div r)]
<1>11. f = [r \in 1..(n + 1) |-> IF r = n + 1 THEN Unit ELSE Lesser(f[r + 1], (v[order[r]] * n) \div r)]
  <2>1. \A r \in 1..(n + 1) : r # n + 1 => r \in 1..n
    BY <1>2
  <2>2. \A r \in 1..(n + 1) : f[r] = IF r = n + 1 THEN Unit ELSE Up(r, f[r + 1])
    <3> HIDE DEF Up
    <3> QED
      BY <1>10, <2>1
  <2> QED
    BY <1>10, <2>2
<1>12. chosen = [r \in 1..(n + 1) |-> IF r = n + 1 THEN Unit ELSE Lesser(chosen[r + 1], (v[order[r]] * n) \div r)]
  BY <1>11
<1>13. BenjaminiHochberg(v) = [i \in 1..n |-> chosen[CHOOSE r \in 1..n : order[r] = i]]
  BY <1>1, <1>3 DEF BenjaminiHochberg
<1> HIDE DEF chosen
<1>14. chosen = f
  <2> DEFINE Step(r) == IF r = n + 1 THEN Unit ELSE Up(r, chosen[r + 1])
  <2>1. chosen = [r \in 1..(n + 1) |-> Step(r)]
    BY <1>12
  <2> HIDE DEF Step, Up
  <2>2. DOMAIN chosen = 1..(n + 1) /\ \A r \in 1..(n + 1) : chosen[r] = Step(r)
    BY <2>1
  <2>3. chosen[n + 1] = Unit /\ \A r \in 1..n : chosen[r] = Up(r, chosen[r + 1])
    <3>1. n + 1 \in 1..(n + 1) /\ \A r \in 1..n : r \in 1..(n + 1) /\ r # n + 1
      BY <1>2
    <3>2. Step(n + 1) = Unit /\ \A r \in 1..n : Step(r) = Up(r, chosen[r + 1])
      BY <3>1 DEF Step
    <3> QED
      BY <2>2, <3>1, <3>2
  <2> DEFINE Same == {r \in 0..n : chosen[n + 1 - r] = f[n + 1 - r]}
  <2>4. 0 \in Same
    BY <1>2, <1>10, <2>3
  <2>5. ASSUME NEW r \in 1..n, r - 1 \in Same PROVE r \in Same
    <3>1. PICK s : s = n + 1 - r /\ s \in 1..n /\ s + 1 = n + 1 - (r - 1) /\ r \in 0..n
      BY <1>2
    <3>2. chosen[s + 1] = f[s + 1]
      BY <2>5, <3>1
    <3>3. chosen[s] = f[s]
      BY <1>10, <2>3, <3>1, <3>2
    <3> QED
      BY <3>1, <3>3
  <2> HIDE DEF Same
  <2>6. \A r \in 0..n : r \in Same
    BY <1>2, <2>4, <2>5, UpTo
  <2>7. ASSUME NEW r \in 1..(n + 1) PROVE chosen[r] = f[r]
    <3>1. n + 1 - r \in 0..n /\ n + 1 - (n + 1 - r) = r
      BY <1>2
    <3> QED
      BY <2>6, <3>1 DEF Same
  <2> QED
    BY <1>10, <2>1, <2>7
<1>15. \A i \in 1..n : (CHOOSE r \in 1..n : order[r] = i) = rank[i]
  BY <1>2
<1>16. StepUp(f, v, n, order)
  BY <1>10 DEF StepUp
<1>17. \A i \in 1..n : BenjaminiHochberg(v)[i] = f[rank[i]]
  <2>1. \A i \in 1..n : BenjaminiHochberg(v)[i] = f[CHOOSE r \in 1..n : order[r] = i]
    BY <1>13, <1>14
  <2> QED
    BY <1>15, <2>1
<1> QED
  BY <1>1, <1>16, <1>17

(* What the running minimum is below.                                      *)
LEMMA StepUpBelow ==
  ASSUME NEW v, NEW n, NEW order, NEW rank, Ranked(v, n, order, rank),
         NEW running, StepUp(running, v, n, order), NEW alpha \in 0..Unit
  PROVE  \A r \in 1..n : running[r] < alpha <=> \E q \in r..n : v[order[q]] * n < alpha * q
<1>1. Unit \in Nat
  BY TestsAssumption
<1>2. alpha \in Nat /\ alpha <= Unit
  BY <1>1
<1>3. n \in Nat /\ v \in [1..n -> Nat] /\ order \in [1..n -> 1..n]
  BY DEF Ranked
<1> DEFINE Below(q) == v[order[q]] * n < alpha * q
<1>4. ASSUME NEW r \in 1..n PROVE running[r] < alpha <=> running[r + 1] < alpha \/ Below(r)
  <2>1. v[order[r]] \in Nat /\ r \in Nat \ {0} /\ r + 1 \in 1..(n + 1)
    BY <1>3
  <2>2. v[order[r]] * n \in Nat
    <3>1. PICK y : y = v[order[r]] /\ y \in Nat
      BY <2>1
    <3>2. n \in Nat /\ y <= y
      BY <1>3, <3>1
    <3>3. y * n \in Nat
      BY ONLY <3>1, <3>2, MoreTimes
    <3> QED
      BY <3>1, <3>3
  <2>3. PICK x, y : /\ x = running[r + 1] /\ x \in Nat
                    /\ y = (v[order[r]] * n) \div r /\ y \in Nat
                    /\ y < alpha <=> Below(r)
    <3>1. running[r + 1] \in Nat
      BY <2>1 DEF StepUp
    <3>2. /\ (v[order[r]] * n) \div r \in Nat
          /\ (v[order[r]] * n) \div r < alpha <=> v[order[r]] * n < alpha * r
      BY <1>2, <2>1, <2>2, QuotientBelow
    <3> QED
      BY <3>1, <3>2
  <2>4. running[r] = Lesser(x, y)
    BY <2>3 DEF StepUp
  <2> HIDE DEF Below
  <2>5. Lesser(x, y) < alpha <=> x < alpha \/ y < alpha
    BY <1>2, <2>3 DEF Lesser
  <2> QED
    BY <2>3, <2>4, <2>5
<1>5. ~ running[n + 1] < alpha
  BY <1>1, <1>2 DEF StepUp
<1> HIDE DEF Below
<1> DEFINE Good == {s \in 0..n : running[n + 1 - s] < alpha <=> \E q \in (n + 1 - s)..n : Below(q)}
<1>6. 0 \in Good
  <2>1. n + 1 - 0 = n + 1 /\ 0 \in 0..n /\ ~ \E q \in (n + 1)..n : TRUE
    BY <1>3
  <2> QED
    BY <1>5, <2>1
<1>7. ASSUME NEW s \in 1..n, s - 1 \in Good PROVE s \in Good
  <2>1. PICK r : r = n + 1 - s /\ r \in 1..n /\ r + 1 = n + 1 - (s - 1) /\ s \in 0..n
    BY <1>3
  <2>2. running[r + 1] < alpha <=> \E q \in (r + 1)..n : Below(q)
    BY <1>7, <2>1
  <2>3. running[r] < alpha <=> running[r + 1] < alpha \/ Below(r)
    BY <1>4, <2>1
  <2>4. r \in r..n /\ (\A q \in (r + 1)..n : q \in r..n) /\ \A q \in r..n : q = r \/ q \in (r + 1)..n
    BY <1>3, <2>1
  <2>5. running[r] < alpha <=> \E q \in r..n : Below(q)
    BY <2>2, <2>3, <2>4
  <2> QED
    BY <2>1, <2>5
<1> HIDE DEF Good
<1>8. \A s \in 0..n : s \in Good
  BY <1>3, <1>6, <1>7, UpTo
<1>9. ASSUME NEW r \in 1..n PROVE running[r] < alpha <=> \E q \in r..n : Below(q)
  <2>1. n + 1 - r \in 0..n /\ n + 1 - (n + 1 - r) = r
    BY <1>3
  <2> QED
    BY <1>8, <2>1 DEF Good
<1> QED
  BY <1>9 DEF Below

LEMMA StepUpRejectsIs ==
  ASSUME NEW n \in Nat, NEW v \in [1..n -> Nat], NEW alpha \in 0..Unit, NEW k \in 1..n
  PROVE  BenjaminiHochberg(v)[k] < alpha <=>
           \E j \in 1..n : /\ v[j] >= v[k]
                           /\ v[j] * n < alpha * Cardinality({l \in 1..n : v[l] <= v[j]})
<1>1. PICK order, rank : order = RankOrder(v) /\ Ranked(v, n, order, rank)
  BY RankOrderIs
<1>2. PICK running : StepUp(running, v, n, order) /\ BenjaminiHochberg(v)[k] = running[rank[k]]
  BY <1>1, StepUpIs
<1>3. /\ order \in [1..n -> 1..n] /\ rank \in [1..n -> 1..n]
      /\ \A q \in 1..n : rank[order[q]] = q
      /\ \A i \in 1..n : order[rank[i]] = i
      /\ \A i, j \in 1..n : rank[i] <= rank[j] => v[i] <= v[j]
  BY <1>1 DEF Ranked
<1>30. alpha \in Nat
  BY TestsAssumption
<1>31. rank[k] \in 1..n
  BY <1>3
<1>4. BenjaminiHochberg(v)[k] < alpha <=> \E q \in rank[k]..n : v[order[q]] * n < alpha * q
  BY <1>1, <1>2, <1>31, StepUpBelow
<1>5. ASSUME NEW q \in 1..n PROVE Cardinality({l \in 1..n : rank[l] \in 1..q}) = q /\ IsFiniteSet({l \in 1..n : rank[l] \in 1..q})
  <2>1. 1..q \in SUBSET (1..n)
    OBVIOUS
  <2>2. Cardinality({l \in 1..n : rank[l] \in 1..q}) = Cardinality(1..q)
    BY <1>1, <2>1, RankCount
  <2>3. Cardinality(1..q) = q
    BY FS_Interval
  <2>4. IsFiniteSet(1..n)
    BY FS_Interval
  <2> QED
    BY <2>2, <2>3, <2>4, FS_Subset
<1>6. ASSUME NEW q \in rank[k]..n, v[order[q]] * n < alpha * q
      PROVE  \E j \in 1..n : /\ v[j] >= v[k]
                             /\ v[j] * n < alpha * Cardinality({l \in 1..n : v[l] <= v[j]})
  <2>1. q \in 1..n /\ rank[k] <= q
    BY <1>31
  <2>2. PICK j : j = order[q] /\ j \in 1..n /\ rank[j] = q
    BY <1>3, <2>1
  <2>3. v[j] >= v[k]
    <3>1. v[k] <= v[j]
      BY <1>3, <2>1, <2>2
    <3> QED
      BY <2>2, <3>1
  <2>4. PICK A, B : A = {l \in 1..n : rank[l] \in 1..q} /\ B = {l \in 1..n : v[l] <= v[j]}
    OBVIOUS
  <2>5. A \subseteq B
    <3>1. \A l \in A : rank[l] <= rank[j]
      BY <2>2, <2>4
    <3> QED
      BY <1>3, <2>2, <2>4, <3>1
  <2>6. IsFiniteSet(B)
    BY <2>4, FS_Interval, FS_Subset
  <2>7. Cardinality(A) <= Cardinality(B) /\ Cardinality(B) \in Nat
    BY <2>5, <2>6, FS_Subset, FS_CardinalityType
  <2>8. Cardinality(A) = q
    BY <1>5, <2>1, <2>4
  <2>9. PICK c, s, t, u : /\ c = Cardinality(B) /\ s = v[j] * n /\ t = alpha * q /\ u = alpha * c
                          /\ s \in Nat /\ t \in Nat /\ u \in Nat /\ t <= u /\ s < t
    <3>1. v[j] * n \in Nat
      BY <2>2
    <3>2. q \in Nat /\ q <= Cardinality(B)
      BY <2>1, <2>7, <2>8
    <3>3. alpha * q <= alpha * Cardinality(B)
      BY <1>30, <2>7, <3>2, MoreTimes
    <3>4. alpha * q \in Nat /\ alpha * Cardinality(B) \in Nat
      BY <1>30, <2>7, <3>2
    <3>5. v[j] * n < alpha * q
      BY <1>6, <2>2
    <3> QED
      BY <3>1, <3>3, <3>4, <3>5
  <2>10. s < u
    BY <2>9
  <2> QED
    BY <2>2, <2>3, <2>4, <2>9, <2>10
<1>7. ASSUME NEW j \in 1..n, v[j] >= v[k], v[j] * n < alpha * Cardinality({l \in 1..n : v[l] <= v[j]})
      PROVE  \E q \in rank[k]..n : v[order[q]] * n < alpha * q
  <2>0. PICK R : R = {r \in 1..n : v[order[r]] = v[j]}
    OBVIOUS
  <2>1. PICK q \in R : \A r \in R : r <= q
    <3>1. rank[j] \in R
      BY <1>3, <2>0
    <3>2. IsFiniteSet(1..n)
      BY FS_Interval
    <3>3. IsFiniteSet(R) /\ R \in SUBSET Nat /\ R # {}
      BY <2>0, <3>1, <3>2, FS_Subset
    <3> QED
      BY <3>3, FiniteHasMax
  <2>2. q \in 1..n /\ v[order[q]] = v[j] /\ order[q] \in 1..n /\ rank[order[q]] = q
    BY <1>3, <2>0
  <2>3. \A l \in 1..n : v[l] <= v[j] => rank[l] <= q
    <3> SUFFICES ASSUME NEW l \in 1..n, v[l] <= v[j], ~ rank[l] <= q PROVE FALSE
      OBVIOUS
    <3>1. rank[order[q]] <= rank[l]
      BY <1>3, <2>2
    <3>2. v[order[q]] <= v[l]
      BY <1>3, <2>2, <3>1
    <3>3. v[l] = v[j]
      BY <2>2, <3>2
    <3>4. rank[l] \in R
      BY <1>3, <2>0, <3>3
    <3> QED
      BY <2>1, <3>4
  <2>4. q \in rank[k]..n
    <3>1. v[k] <= v[j] \/ v[k] > v[j]
      OBVIOUS
    <3>2. v[k] <= v[j]
      BY <1>7
    <3>3. rank[k] <= q
      BY <2>3, <3>2
    <3> QED
      BY <1>31, <2>2, <3>3
  <2>5. PICK A, B : A = {l \in 1..n : rank[l] \in 1..q} /\ B = {l \in 1..n : v[l] <= v[j]}
    OBVIOUS
  <2>6. B \subseteq A
    <3>1. \A l \in B : rank[l] \in Nat /\ 1 <= rank[l] /\ rank[l] <= q
      BY <1>3, <2>3, <2>5
    <3> QED
      BY <2>2, <2>5, <3>1
  <2>7. IsFiniteSet(A) /\ Cardinality(A) = q
    BY <1>5, <2>2, <2>5
  <2>8. Cardinality(B) <= q /\ Cardinality(B) \in Nat
    <3>1. IsFiniteSet(B) /\ Cardinality(B) <= Cardinality(A)
      BY <2>6, <2>7, FS_Subset
    <3> QED
      BY <2>7, <3>1, FS_CardinalityType
  <2>9. PICK s, t, u : /\ s = v[j] * n /\ t = alpha * Cardinality(B) /\ u = alpha * q
                       /\ s \in Nat /\ t \in Nat /\ u \in Nat /\ t <= u /\ s < t
    <3>1. v[j] * n \in Nat
      OBVIOUS
    <3>2. q \in Nat
      BY <2>2
    <3>3. alpha * Cardinality(B) <= alpha * q
      BY <1>30, <2>8, <3>2, MoreTimes
    <3>4. alpha * q \in Nat /\ alpha * Cardinality(B) \in Nat
      BY <1>30, <2>8, <3>2
    <3>5. v[j] * n < alpha * Cardinality(B)
      BY <1>7, <2>5
    <3> QED
      BY <3>1, <3>3, <3>4, <3>5
  <2>10. s < u
    BY <2>9
  <2> QED
    BY <2>2, <2>4, <2>9, <2>10
<1> QED
  BY <1>4, <1>6, <1>7
---------------------------------------------------------------------------
(* The family of the tests that are statistical, and a list of it.         *)
TestLists == [1..Tests -> {ZTest(p) : p \in PValues} \cup {Decided(b) : b \in BOOLEAN}]

Enumerates(family, F, n) ==
    /\ n \in Nat /\ family \in [1..n -> F]
    /\ \A k, l \in 1..n : family[k] = family[l] => k = l
    /\ \A i \in F : \E k \in 1..n : family[k] = i

LEMMA FamilyListed ==
  ASSUME NEW tests \in TestLists
  PROVE  /\ IsFiniteSet(Family(tests)) /\ \A i \in Family(tests) : tests[i].p \in Nat
         /\ Enumerates(Statistical(tests), Family(tests), Cardinality(Family(tests)))
<1>1. PICK F, N, T : F = Family(tests) /\ N = 1..Tests /\ T = {i \in DOMAIN tests : tests[i].metric = "z_pvalue"}
  OBVIOUS
<1>2. DOMAIN tests = N /\ IsFiniteSet(N) /\ N \subseteq Nat
  BY <1>1, TestsAssumption, FS_Interval DEF TestLists
<1>3. F = T
  BY <1>1 DEF Family
<1>4. F \in SUBSET N /\ IsFiniteSet(F)
  BY <1>1, <1>2, <1>3, FS_Subset
<1>5. ASSUME NEW i \in F PROVE tests[i].p \in Nat
  <2>1. tests[i] \in {ZTest(p) : p \in PValues} \cup {Decided(b) : b \in BOOLEAN} /\ tests[i].metric = "z_pvalue"
    BY <1>1, <1>2, <1>3 DEF TestLists
  <2>2. \A b \in BOOLEAN : Decided(b).metric = "decided"
    BY DEF Decided
  <2>3. PICK p \in PValues : tests[i] = ZTest(p)
    BY <2>1, <2>2
  <2>4. tests[i].p = p
    BY <2>3 DEF ZTest
  <2>5. p \in Nat
    BY TestsAssumption
  <2> QED
    BY <2>4, <2>5
<1>6. PICK family, n : family = Ascending(F) /\ n = Cardinality(F)
  OBVIOUS
<1>7. Statistical(tests) = family
  BY <1>1, <1>3, <1>6 DEF Statistical
<1>8. family \in Seq(F) /\ ToSet(family) = F /\ IsInjective(family) /\ Len(family) = n /\ n \in Nat
  <2>1. F \in SUBSET F /\ F \subseteq Nat
    BY <1>2, <1>4
  <2>2. Ascending(F) \in Seq(F) /\ ToSet(Ascending(F)) = F /\ IsInjective(Ascending(F)) /\ Len(Ascending(F)) = Cardinality(F)
    BY <1>4, <2>1, SetOfAscending
  <2> QED
    BY <1>4, <1>6, <2>2, FS_CardinalityType
<1>9. family \in [1..n -> F]
  BY <1>8
<1>10. \A k, l \in 1..n : family[k] = family[l] => k = l
  BY <1>8, <1>9 DEF IsInjective
<1>11. \A i \in F : \E k \in 1..n : family[k] = i
  BY <1>8, <1>9 DEF ToSet
<1>12. Enumerates(family, F, n)
  BY <1>8, <1>9, <1>10, <1>11 DEF Enumerates
<1> QED
  BY <1>1, <1>4, <1>5, <1>6, <1>7, <1>12

(* A part of the family is as large as the part of the list it is from.    *)
LEMMA PartsCount ==
  ASSUME NEW family, NEW F, NEW n, Enumerates(family, F, n), NEW J \in SUBSET F
  PROVE  Cardinality({k \in 1..n : family[k] \in J}) = Cardinality(J)
<1>1. PICK K : K = {k \in 1..n : family[k] \in J}
  OBVIOUS
<1>2. IsFiniteSet(K)
  <2>1. n \in Nat
    BY DEF Enumerates
  <2>2. IsFiniteSet(1..n)
    BY <2>1, FS_Interval
  <2> QED
    BY <1>1, <2>2, FS_Subset
<1>3. PICK f : f = [k \in K |-> family[k]]
  OBVIOUS
<1>4. f \in [K -> J]
  BY <1>1, <1>3
<1>5. \A a, b \in K : f[a] = f[b] => a = b
  BY <1>1, <1>3 DEF Enumerates
<1>6. \A j \in J : \E k \in K : f[k] = j
  BY <1>1, <1>3 DEF Enumerates
<1>7. f \in Bijection(K, J)
  BY <1>4, <1>5, <1>6 DEF Bijection, Injection, IsInjective, Surjection
<1> QED
  BY <1>1, <1>2, <1>7, FS_Bijection DEF ExistsBijection

(* The corrections, over the family of a list of tests.                    *)
LEMMA FamilyRejects ==
  ASSUME NEW tests \in TestLists, NEW alpha \in 0..Unit,
         NEW n, n = Cardinality(Family(tests)),
         NEW family, family = Statistical(tests),
         NEW v, v = [k \in 1..n |-> tests[family[k]].p],
         NEW k \in 1..n
  PROVE  /\ Holm(v)[k] < alpha <=> HolmRejects(tests, family[k], alpha)
         /\ BenjaminiHochberg(v)[k] < alpha <=> BenjaminiHochbergRejects(tests, family[k], alpha)
<1>1. PICK F : F = Family(tests)
  OBVIOUS
<1>2. Enumerates(family, F, n) /\ \A i \in F : tests[i].p \in Nat
  BY <1>1, FamilyListed
<1>3. /\ n \in Nat /\ family \in [1..n -> F]
      /\ \A i \in F : \E l \in 1..n : family[l] = i
  BY <1>2 DEF Enumerates
<1>4. v \in [1..n -> Nat] /\ \A l \in 1..n : v[l] = tests[family[l]].p
  BY <1>2, <1>3
<1>5. ASSUME NEW j \in 1..n
      PROVE  /\ Cardinality({l \in 1..n : v[l] >= v[j]}) = Cardinality({i \in F : tests[i].p >= tests[family[j]].p})
             /\ Cardinality({l \in 1..n : v[l] <= v[j]}) = Cardinality({i \in F : tests[i].p <= tests[family[j]].p})
  <2>1. PICK A, B, x : /\ x = tests[family[j]].p
                       /\ A = {i \in F : tests[i].p >= x} /\ B = {i \in F : tests[i].p <= x}
    OBVIOUS
  <2>2. v[j] = x
    BY <1>4, <2>1
  <2>3. {l \in 1..n : v[l] >= v[j]} = {l \in 1..n : family[l] \in A}
    BY <1>3, <1>4, <2>1, <2>2
  <2>4. {l \in 1..n : v[l] <= v[j]} = {l \in 1..n : family[l] \in B}
    BY <1>3, <1>4, <2>1, <2>2
  <2>5. A \in SUBSET F /\ B \in SUBSET F
    BY <2>1
  <2>6. Cardinality({l \in 1..n : family[l] \in A}) = Cardinality(A) /\ Cardinality({l \in 1..n : family[l] \in B}) = Cardinality(B)
    BY <1>2, <2>5, PartsCount
  <2> QED
    BY <2>1, <2>3, <2>4, <2>6
<1>6. Holm(v)[k] < alpha <=> HolmRejects(tests, family[k], alpha)
  <2> DEFINE Small(j) == v[j] <= v[k] => v[j] * Cardinality({l \in 1..n : v[l] >= v[j]}) < alpha
             Least(i) == tests[i].p <= tests[family[k]].p =>
                           tests[i].p * Cardinality({l \in F : tests[l].p >= tests[i].p}) < alpha
  <2>1. Holm(v)[k] < alpha <=> \A j \in 1..n : Small(j)
    <3>1. n \in Nat /\ v \in [1..n -> Nat]
      BY <1>3, <1>4
    <3>2. Holm(v)[k] < alpha <=>
            \A j \in 1..n : v[j] <= v[k] => v[j] * Cardinality({l \in 1..n : v[l] >= v[j]}) < alpha
      BY ONLY <3>1, alpha \in 0..Unit, k \in 1..n, HolmRejectsIs
    <3> QED
      BY ONLY <3>2
  <2>2. HolmRejects(tests, family[k], alpha) <=> \A i \in F : Least(i)
    BY <1>1 DEF HolmRejects
  <2>3. ASSUME NEW j \in 1..n PROVE Small(j) <=> Least(family[j])
    BY <1>4, <1>5
  <2> HIDE DEF Small, Least
  <2> QED
    BY <1>3, <2>1, <2>2, <2>3
<1>7. BenjaminiHochberg(v)[k] < alpha <=> BenjaminiHochbergRejects(tests, family[k], alpha)
  <2> DEFINE Small(j) == v[j] >= v[k] /\ v[j] * n < alpha * Cardinality({l \in 1..n : v[l] <= v[j]})
             Least(i) == tests[i].p >= tests[family[k]].p /\
                           tests[i].p * n < alpha * Cardinality({l \in F : tests[l].p <= tests[i].p})
  <2>1. BenjaminiHochberg(v)[k] < alpha <=> \E j \in 1..n : Small(j)
    <3>1. n \in Nat /\ v \in [1..n -> Nat]
      BY <1>3, <1>4
    <3>2. BenjaminiHochberg(v)[k] < alpha <=>
            \E j \in 1..n : v[j] >= v[k] /\ v[j] * n < alpha * Cardinality({l \in 1..n : v[l] <= v[j]})
      BY ONLY <3>1, alpha \in 0..Unit, k \in 1..n, StepUpRejectsIs
    <3> QED
      BY ONLY <3>2
  <2>2. BenjaminiHochbergRejects(tests, family[k], alpha) <=> \E i \in F : Least(i)
    BY <1>1 DEF BenjaminiHochbergRejects
  <2>3. ASSUME NEW j \in 1..n PROVE Small(j) <=> Least(family[j])
    BY <1>4, <1>5
  <2> HIDE DEF Small, Least
  <2> QED
    BY <1>3, <2>1, <2>2, <2>3
<1> QED
  BY <1>6, <1>7

LEMMA AdjustedNat ==
  ASSUME NEW n \in Nat, NEW v \in [1..n -> Nat], NEW k \in 1..n
  PROVE  Holm(v)[k] \in Nat /\ BenjaminiHochberg(v)[k] \in Nat
<1>1. PICK order, rank : order = RankOrder(v) /\ Ranked(v, n, order, rank)
  BY RankOrderIs
<1>2. rank[k] \in 1..n
  BY <1>1 DEF Ranked
<1>3. PICK running : HolmRun(running, v, n, order) /\ Holm(v)[k] = running[rank[k]]
  BY <1>1, HolmIs
<1>4. PICK lowest : StepUp(lowest, v, n, order) /\ BenjaminiHochberg(v)[k] = lowest[rank[k]]
  BY <1>1, StepUpIs
<1>5. rank[k] \in 0..n /\ rank[k] \in 1..(n + 1)
  BY <1>2
<1>6. running[rank[k]] \in Nat
  BY <1>3, <1>5 DEF HolmRun
<1>7. lowest[rank[k]] \in Nat
  BY <1>4, <1>5 DEF StepUp
<1> QED
  BY <1>3, <1>4, <1>6, <1>7

LEMMA ExecuteTestsIs ==
  ASSUME NEW tests \in TestLists, NEW method \in Policies, NEW alpha \in 0..Unit, NEW i \in DOMAIN tests
  PROVE  ExecuteTests(tests, method, alpha)[i] =
           IF i \in Family(tests) THEN ~ Rejects(tests, i, method, alpha) ELSE tests[i].accepted
<1>1. PICK F, n, family, v : /\ F = Family(tests) /\ n = Cardinality(F) /\ family = Statistical(tests)
                             /\ v = [k \in 1..n |-> tests[family[k]].p]
  OBVIOUS
<1>2. Enumerates(family, F, n) /\ \A j \in F : tests[j].p \in Nat
  BY <1>1, FamilyListed
<1>3. n \in Nat /\ family \in [1..n -> F] /\ DOMAIN family = 1..n
  BY <1>2 DEF Enumerates
<1>4. PICK adjusted : adjusted = AdjustPvalues(v, method)
  OBVIOUS
<1>5. ExecuteTests(tests, method, alpha)[i] =
        IF \E k \in 1..n : family[k] = i
        THEN adjusted[CHOOSE k \in 1..n : family[k] = i] >= alpha
        ELSE tests[i].accepted
  <2>1. AdjustPvalues([k \in DOMAIN family |-> tests[family[k]].p], method) = adjusted
    BY <1>1, <1>3, <1>4
  <2>2. ExecuteTests(tests, method, alpha) =
          [j \in DOMAIN tests |->
             IF \E k \in DOMAIN family : family[k] = j
             THEN adjusted[CHOOSE k \in DOMAIN family : family[k] = j] >= alpha
             ELSE tests[j].accepted]
    BY <1>1, <2>1 DEF ExecuteTests
  <2> QED
    BY <1>3, <2>2
<1>6. CASE i \notin F
  <2>1. ~ \E k \in 1..n : family[k] = i
    BY <1>3, <1>6
  <2> QED
    BY <1>1, <1>5, <1>6, <2>1
<1>7. CASE i \in F
  <2>1. PICK k : k = CHOOSE l \in 1..n : family[l] = i
    OBVIOUS
  <2>2. k \in 1..n /\ family[k] = i
    BY <1>2, <1>7, <2>1 DEF Enumerates
  <2>3. ExecuteTests(tests, method, alpha)[i] = (adjusted[k] >= alpha)
    BY <1>5, <2>1, <2>2
  <2>4. v \in [1..n -> Nat] /\ v[k] = tests[i].p
    BY <1>1, <1>2, <1>3, <2>2
  <2>5. adjusted[k] \in Nat /\ (adjusted[k] < alpha <=> Rejects(tests, i, method, alpha))
    <3>1. /\ Holm(v)[k] < alpha <=> HolmRejects(tests, i, alpha)
          /\ BenjaminiHochberg(v)[k] < alpha <=> BenjaminiHochbergRejects(tests, i, alpha)
      BY <1>1, <2>2, FamilyRejects
    <3>2. Holm(v)[k] \in Nat /\ BenjaminiHochberg(v)[k] \in Nat /\ v[k] \in Nat
      BY <1>3, <2>2, <2>4, AdjustedNat
    <3>3. CASE method = "none"
      BY <1>4, <2>4, <3>2, <3>3 DEF AdjustPvalues, Rejects
    <3>4. CASE method = "holm"
      BY <1>4, <3>1, <3>2, <3>4 DEF AdjustPvalues, Rejects
    <3>5. CASE method = "benjamini_hochberg"
      BY <1>4, <3>1, <3>2, <3>5 DEF AdjustPvalues, Rejects
    <3> QED
      BY <3>3, <3>4, <3>5 DEF Policies
  <2>6. alpha \in Nat
    BY TestsAssumption
  <2>7. PICK a, R : a = adjusted[k] /\ R = Rejects(tests, i, method, alpha)
    OBVIOUS
  <2>8. (a >= alpha) = (~ (a < alpha))
    BY <2>5, <2>6, <2>7
  <2>9. (a < alpha) <=> Rejects(tests, i, method, alpha)
    BY <2>5, <2>7
  <2>10. Rejects(tests, i, method, alpha) \in BOOLEAN
    <3>1. CASE method = "none"
      BY <3>1 DEF Rejects
    <3>2. CASE method = "holm"
      BY <3>2 DEF Rejects, HolmRejects
    <3>3. CASE method = "benjamini_hochberg"
      BY <3>3 DEF Rejects, BenjaminiHochbergRejects
    <3> QED
      BY <3>1, <3>2, <3>3 DEF Policies
  <2>11. (a >= alpha) = (~ Rejects(tests, i, method, alpha))
    BY <2>8, <2>9, <2>10
  <2> QED
    BY <1>1, <1>7, <2>3, <2>7, <2>11
<1> QED
  BY <1>6, <1>7

(* Holm's correction and that of Benjamini and Hochberg reject what their  *)
(* definitions by the p-values alone reject, for every list of tests.      *)
THEOREM AdjustmentTheorem == Spec => []AdjustmentIsCorrect
<1>1. AnswersInv => AdjustmentIsCorrect
  <2> SUFFICES ASSUME AnswersInv, answer.to = "tests" PROVE AdjustmentIsCorrect
    BY DEF AdjustmentIsCorrect
  <2>1. PICK tests, method, alpha : tests = input.tests /\ method = answer.method /\ alpha = answer.alpha
    OBVIOUS
  <2>2. tests \in TestLists /\ method \in Policies /\ alpha \in Levels /\ answer.is = ExecuteTests(tests, method, alpha)
    BY <2>1 DEF AnswersInv, TestsInv, TestLists
  <2>3. alpha \in 0..Unit
    BY <2>2, TestsAssumption
  <2>4. \A i \in DOMAIN tests : answer.is[i] =
          IF i \in Family(tests) THEN ~ Rejects(tests, i, method, alpha) ELSE tests[i].accepted
    BY <2>2, <2>3, ExecuteTestsIs
  <2> QED
    BY <2>1, <2>4 DEF AdjustmentIsCorrect
<1> QED
  BY <1>1, AnswersStart, AnswersStay, ScopesStart, ScopesStay, PTL DEF Spec
---------------------------------------------------------------------------
(* Folding a finite set, one picked element at a time.                     *)
FoldOf(F, S, pick, D, base, step) ==
    /\ F \in [SUBSET S -> D]
    /\ F[{}] = base
    /\ \A s \in SUBSET S : s # {} => F[s] = step[pick[s]][F[s \ {pick[s]}]]

LEMMA FoldExists ==
  ASSUME NEW S, IsFiniteSet(S), NEW pick, \A s \in SUBSET S : s # {} => pick[s] \in s,
         NEW D, NEW base \in D, NEW step \in [S -> [D -> D]]
  PROVE  \E F : FoldOf(F, S, pick, D, base, step)
<1>1. PICK n : n = Cardinality(S) /\ n \in Nat
  BY FS_CardinalityType
<1> DEFINE Small(k) == {s \in SUBSET S : Cardinality(s) <= k}
           Partial(F, k) == /\ F \in [Small(k) -> D]
                            /\ F[{}] = base
                            /\ \A s \in Small(k) : s # {} => F[s] = step[pick[s]][F[s \ {pick[s]}]]
           Reached == {k \in 0..n : \E F : Partial(F, k)}
<1>2. \A s \in SUBSET S : IsFiniteSet(s) /\ Cardinality(s) \in Nat /\ Cardinality(s) <= n
  BY <1>1, FS_Subset, FS_CardinalityType
<1>3. \A s \in SUBSET S : Cardinality(s) = 0 <=> s = {}
  BY <1>2, FS_EmptySet
<1>4. Cardinality({}) = 0
  BY FS_EmptySet
<1>5. \A k \in 0..n : {} \in Small(k)
  BY <1>1, <1>4
<1>6. 0 \in Reached
  <2>1. PICK F : F = [s \in Small(0) |-> base]
    OBVIOUS
  <2>2. \A s \in Small(0) : s = {}
    BY <1>2, <1>3
  <2>3. F[{}] = base
    BY <1>1, <1>5, <2>1
  <2>4. Partial(F, 0)
    BY <2>1, <2>2, <2>3
  <2>5. 0 \in 0..n
    BY <1>1
  <2> HIDE DEF Partial
  <2> QED
    BY <2>4, <2>5
<1>7. ASSUME NEW k \in 1..n, k - 1 \in Reached PROVE k \in Reached
  <2>1. PICK F : Partial(F, k - 1)
    BY <1>7
  <2>2. PICK G : G = [s \in Small(k) |-> IF s \in Small(k - 1) THEN F[s] ELSE step[pick[s]][F[s \ {pick[s]}]]]
    OBVIOUS
  <2>3. ASSUME NEW s \in Small(k), s # {}
        PROVE  pick[s] \in S /\ s \ {pick[s]} \in Small(k - 1) /\ s \ {pick[s]} \in Small(k)
    <3>1. pick[s] \in s /\ s \in SUBSET S
      BY <2>3
    <3>2. Cardinality(s \ {pick[s]}) = Cardinality(s) - 1
      BY <1>2, <3>1, FS_RemoveElement
    <3>3. Cardinality(s) \in Nat /\ Cardinality(s) <= k
      BY <1>2, <3>1
    <3> QED
      BY <1>1, <3>1, <3>2, <3>3
  <2>4. ASSUME NEW s \in Small(k) PROVE G[s] \in D
    <3>1. CASE s \in Small(k - 1)
      BY <2>1, <2>2, <3>1
    <3>2. CASE s \notin Small(k - 1)
      <4>0. {} \in Small(k - 1)
        <5>1. k - 1 \in 0..n
          BY <1>1
        <5> HIDE DEF Small
        <5> QED
          BY <1>5, <5>1
      <4>1. s # {}
        BY <3>2, <4>0
      <4>2. G[s] = step[pick[s]][F[s \ {pick[s]}]]
        BY <2>2, <3>2
      <4> HIDE DEF Small
      <4>3. F[s \ {pick[s]}] \in D /\ pick[s] \in S
        BY <2>1, <2>3, <4>1
      <4>4. step[pick[s]] \in [D -> D]
        BY <4>3
      <4> QED
        BY <4>2, <4>3, <4>4
    <3> QED
      BY <3>1, <3>2
  <2>5. k - 1 \in 0..n /\ {} \in Small(k - 1) /\ {} \in Small(k)
    BY <1>1, <1>5
  <2>6. G[{}] = base
    BY <2>1, <2>2, <2>5
  <2>7. ASSUME NEW s \in Small(k), s # {} PROVE G[s] = step[pick[s]][G[s \ {pick[s]}]]
    <3>1. G[s \ {pick[s]}] = F[s \ {pick[s]}]
      <4> HIDE DEF Small
      <4> QED
        BY <2>2, <2>3, <2>7
    <3>2. CASE s \in Small(k - 1)
      <4>1. F[s] = step[pick[s]][F[s \ {pick[s]}]]
        BY <2>1, <2>7, <3>2
      <4> HIDE DEF Small
      <4> QED
        BY <2>2, <3>1, <3>2, <4>1
    <3>3. CASE s \notin Small(k - 1)
      <4> HIDE DEF Small
      <4> QED
        BY <2>2, <3>1, <3>3
    <3> QED
      BY <3>2, <3>3
  <2>8. G \in [Small(k) -> D]
    <3> HIDE DEF Small
    <3> QED
      BY <2>2, <2>4
  <2>9. Partial(G, k)
    BY <2>6, <2>7, <2>8
  <2>10. k \in 0..n
    BY <1>1
  <2> HIDE DEF Partial
  <2> QED
    BY <2>9, <2>10
<1> HIDE DEF Reached
<1>8. \A k \in 0..n : k \in Reached
  BY <1>1, <1>6, <1>7, UpTo
<1>9. n \in 0..n
  BY <1>1
<1>10. PICK F : Partial(F, n)
  <2>1. n \in Reached
    BY <1>8, <1>9
  <2> QED
    BY <2>1 DEF Reached
<1>11. Small(n) = SUBSET S
  BY <1>2
<1> HIDE DEF Small
<1>12. FoldOf(F, S, pick, D, base, step)
  BY <1>10, <1>11 DEF FoldOf
<1> QED
  BY <1>12

(* A list is folded from left to right.                                    *)
OnPrefixes(F, D, base, step, n) ==
    /\ F[{}] = base
    /\ \A m \in 1..n : F[1..(m - 1)] \in D => F[1..m] = step[m][F[1..(m - 1)]]

LEMMA FoldOfPrefixes ==
  ASSUME NEW n \in Nat, NEW D, NEW base \in D, NEW step, step \in [1..n -> [D -> D]],
         NEW F, OnPrefixes(F, D, base, step, n)
  PROVE  \E h : Course(h, D, base, step, n) /\ \A m \in 0..n : h[m] = F[1..m]
<1>0. F[{}] = base /\ \A m \in 1..n : F[1..(m - 1)] \in D => F[1..m] = step[m][F[1..(m - 1)]]
  BY DEF OnPrefixes
<1>1. PICK h : h = [m \in 0..n |-> F[1..m]]
  OBVIOUS
<1>2. PICK A : A = {m \in 0..n : F[1..m] \in D}
  OBVIOUS
<1>3. 1..0 = {} /\ 0 \in 0..n
  OBVIOUS
<1>4. 0 \in A
  BY <1>0, <1>2, <1>3
<1>5. ASSUME NEW m \in 1..n, m - 1 \in A PROVE m \in A
  <2>1. F[1..(m - 1)] \in D
    BY <1>2, <1>5
  <2>2. F[1..m] = step[m][F[1..(m - 1)]]
    BY <1>0, <2>1
  <2>3. F[1..m] \in D /\ m \in 0..n
    BY <2>1, <2>2
  <2> QED
    BY <1>2, <2>3
<1>6. \A m \in 0..n : m \in A
  BY <1>4, <1>5, UpTo
<1>7. \A m \in 0..n : F[1..m] \in D
  BY <1>2, <1>6
<1>8. \A m \in 1..n : m - 1 \in 0..n /\ m \in 0..n
  OBVIOUS
<1>9. \A m \in 1..n : F[1..m] = step[m][F[1..(m - 1)]]
  BY <1>0, <1>7, <1>8
<1>10. \A m \in 1..n : h[m] = step[m][h[m - 1]]
  BY <1>1, <1>8, <1>9
<1>11. h \in [0..n -> D]
  BY <1>1, <1>7
<1>12. h[0] = base
  BY <1>0, <1>1, <1>3
<1>13. Course(h, D, base, step, n)
  BY <1>10, <1>11, <1>12 DEF Course
<1>14. \A m \in 0..n : h[m] = F[1..m]
  BY <1>1
<1> QED
  BY <1>13, <1>14, Zenon

LEMMA GreatestUpTo ==
  ASSUME NEW n \in Nat
  PROVE  /\ \A s \in SUBSET (1..n) : s # {} => Max(s) \in s
         /\ \A m \in 1..n : Max(1..m) = m /\ (1..m) \ {m} = 1..(m - 1)
<1>1. ASSUME NEW s \in SUBSET (1..n), s # {} PROVE Max(s) \in s
  <2>1. IsFiniteSet(1..n)
    BY FS_Interval
  <2>2. IsFiniteSet(s) /\ s \in SUBSET Nat
    <3>1. \A x \in 1..n : x \in Nat
      OBVIOUS
    <3> QED
      BY <2>1, <3>1, FS_Subset
  <2>3. PICK m \in s : \A x \in s : x <= m
    BY <1>1, <2>2, FiniteHasMax
  <2>4. \A x \in s : m >= x
    BY <2>2, <2>3
  <2> QED
    BY <2>4 DEF Max
<1>2. ASSUME NEW m \in 1..n PROVE Max(1..m) = m
  <2>1. m \in 1..m /\ \A y \in 1..m : m >= y
    OBVIOUS
  <2>2. \A x \in 1..m : (\A y \in 1..m : x >= y) => x = m
    OBVIOUS
  <2> QED
    BY <2>1, <2>2 DEF Max
<1> QED
  BY <1>1, <1>2
---------------------------------------------------------------------------
(* The union-find forest.                                                  *)

(* A forest over 1..n whose parents are never greater, and the roots of it. *)
Forest(n, forest, root) ==
    /\ forest \in [1..n -> 1..n] /\ root \in [1..n -> 1..n]
    /\ \A x \in 1..n : forest[x] <= x
    /\ \A x \in 1..n : root[forest[x]] = root[x]
    /\ \A x \in 1..n : forest[root[x]] = root[x]
    /\ \A x \in 1..n : forest[x] = x => root[x] = x

Climb(c) ==
    IF c.forest[c.at] = c.at THEN c
    ELSE [at |-> c.forest[c.forest[c.at]], forest |-> [c.forest EXCEPT ![c.at] = c.forest[c.forest[c.at]]]]

(* Halving a path leaves the roots as they were.                           *)
LEMMA ClimbKeeps ==
  ASSUME NEW n \in Nat, NEW root, NEW c \in [at : 1..n, forest : [1..n -> 1..n]], Forest(n, c.forest, root)
  PROVE  /\ Climb(c) \in [at : 1..n, forest : [1..n -> 1..n]]
         /\ Forest(n, Climb(c).forest, root) /\ root[Climb(c).at] = root[c.at]
         /\ c.forest[c.at] = c.at => Climb(c) = c
         /\ c.forest[c.at] # c.at => Climb(c).at < c.at
<1>1. PICK f, a, z : f = c.forest /\ a = c.at /\ z = Climb(c)
  OBVIOUS
<1>2. f \in [1..n -> 1..n] /\ a \in 1..n
  BY <1>1
<1>3. CASE f[a] = a
  <2>1. z = c
    BY <1>1, <1>3 DEF Climb
  <2> QED
    BY <1>1, <1>3, <2>1
<1>4. CASE f[a] # a
  <2>1. PICK up, g : up = f[f[a]] /\ g = [f EXCEPT ![a] = up]
    OBVIOUS
  <2>2. z = [at |-> up, forest |-> g]
    BY <1>1, <1>4, <2>1 DEF Climb
  <2>3. /\ root \in [1..n -> 1..n]
        /\ \A x \in 1..n : f[x] <= x
        /\ \A x \in 1..n : root[f[x]] = root[x]
        /\ \A x \in 1..n : f[root[x]] = root[x]
        /\ \A x \in 1..n : f[x] = x => root[x] = x
    BY <1>1 DEF Forest
  <2>4. f[a] \in 1..n /\ up \in 1..n /\ up <= f[a] /\ f[a] <= a /\ up < a
    <3>1. PICK b : b = f[a] /\ b \in 1..n
      BY <1>2
    <3>2. b <= a /\ up \in 1..n /\ up <= b
      BY <1>2, <2>1, <2>3, <3>1
    <3>3. up < a
      <4>1. b \in Nat /\ a \in Nat /\ up \in Nat /\ b <= a /\ b # a /\ up <= b
        BY <1>2, <1>4, <3>1, <3>2
      <4> QED
        BY ONLY <4>1
    <3> QED
      BY <3>1, <3>2, <3>3
  <2>5. g \in [1..n -> 1..n] /\ g[a] = up /\ \A x \in 1..n : x # a => g[x] = f[x]
    BY <1>2, <2>1, <2>4
  <2>6. \A x \in 1..n : g[x] <= x
    <3>1. up <= a
      BY <1>2, <2>4
    <3> QED
      BY <2>3, <2>5, <3>1
  <2>7. root[up] = root[a]
    BY <1>2, <2>1, <2>3, <2>4
  <2>8. \A x \in 1..n : root[g[x]] = root[x]
    BY <2>3, <2>5, <2>7
  <2>9. \A x \in 1..n : root[x] # a
    BY <1>4, <2>3
  <2>10. \A x \in 1..n : g[root[x]] = root[x]
    BY <2>3, <2>5, <2>9
  <2>11. \A x \in 1..n : g[x] = x => root[x] = x
    <3>1. g[a] # a
      BY <1>2, <2>4, <2>5
    <3> QED
      BY <2>3, <2>5, <3>1
  <2>12. Forest(n, g, root)
    BY <2>3, <2>5, <2>6, <2>8, <2>10, <2>11 DEF Forest
  <2>13. z.at = up /\ z.forest = g /\ z \in [at : 1..n, forest : [1..n -> 1..n]]
    BY <2>2, <2>4, <2>5
  <2> QED
    BY <1>1, <1>4, <2>4, <2>7, <2>12, <2>13
<1> QED
  BY <1>3, <1>4

ClimbLoop(t, forest, x, n) ==
    t = [k \in 0..n |-> IF k = 0 THEN [at |-> x, forest |-> forest] ELSE Climb(t[k - 1])]

LEMMA ClimbLoops ==
  ASSUME NEW n \in Nat, NEW forest, NEW root, Forest(n, forest, root), NEW x \in 1..n
  PROVE  /\ \E t : ClimbLoop(t, forest, x, n)
         /\ \A t : ClimbLoop(t, forest, x, n) =>
              t[n].at = root[x] /\ Forest(n, t[n].forest, root)
<1>1. PICK D : D = {c \in [at : 1..n, forest : [1..n -> 1..n]] : Forest(n, c.forest, root) /\ root[c.at] = root[x]}
  OBVIOUS
<1>2. PICK a, on : a = [at |-> x, forest |-> forest] /\ on = [c \in D |-> Climb(c)]
  OBVIOUS
<1>3. a \in D /\ a.at = x
  <2>1. forest \in [1..n -> 1..n]
    BY DEF Forest
  <2>2. a.at = x /\ a.forest = forest /\ a \in [at : 1..n, forest : [1..n -> 1..n]]
    BY <1>2, <2>1
  <2> QED
    BY <1>1, <2>2
<1>4. ASSUME NEW c \in D
      PROVE  /\ Climb(c) \in D
             /\ c.forest[c.at] = c.at => Climb(c) = c
             /\ c.forest[c.at] # c.at => Climb(c).at < c.at
  <2>1. c \in [at : 1..n, forest : [1..n -> 1..n]] /\ Forest(n, c.forest, root) /\ root[c.at] = root[x]
    BY <1>1
  <2>2. /\ Climb(c) \in [at : 1..n, forest : [1..n -> 1..n]]
        /\ Forest(n, Climb(c).forest, root) /\ root[Climb(c).at] = root[c.at]
        /\ c.forest[c.at] = c.at => Climb(c) = c
        /\ c.forest[c.at] # c.at => Climb(c).at < c.at
    BY <2>1, ClimbKeeps
  <2> QED
    BY <1>1, <2>1, <2>2
<1>5. on \in [D -> D]
  BY <1>2, <1>4
<1>6. PICK t0 : Loop(t0, a, on, n)
  BY <1>3, <1>5, LoopExists
<1>7. ClimbLoop(t0, forest, x, n)
  <2>1. \A k \in 1..n : t0[k - 1] \in D
    BY <1>3, <1>5, <1>6, LoopIs
  <2>2. \A k \in 0..n : k # 0 => k \in 1..n
    OBVIOUS
  <2>3. \A k \in 0..n : (IF k = 0 THEN a ELSE on[t0[k - 1]]) =
          IF k = 0 THEN [at |-> x, forest |-> forest] ELSE Climb(t0[k - 1])
    BY <1>2, <2>1, <2>2
  <2> QED
    BY <1>6, <2>3 DEF ClimbLoop, Loop
<1>8. ASSUME NEW t, ClimbLoop(t, forest, x, n)
      PROVE  t[n].at = root[x] /\ Forest(n, t[n].forest, root)
  <2> DEFINE Step(k) == IF k = 0 THEN a ELSE Climb(t[k - 1])
  <2>1. t = [k \in 0..n |-> Step(k)]
    BY <1>2, <1>8 DEF ClimbLoop
  <2> HIDE DEF Step
  <2>2. \A k \in 0..n : t[k] = Step(k)
    BY <2>1
  <2> USE DEF Step
  <2>3. t[0] = a /\ \A k \in 1..n : t[k] = Climb(t[k - 1])
    BY <2>2
  <2> DEFINE Good == {k \in 0..n : t[k] \in D /\ (t[k].forest[t[k].at] = t[k].at \/ t[k].at + k <= x)}
  <2>4. 0 \in Good
    BY <1>3, <2>3
  <2>5. ASSUME NEW k \in 1..n, k - 1 \in Good PROVE k \in Good
    <3>1. PICK c, z : c = t[k - 1] /\ z = Climb(c)
      OBVIOUS
    <3>2. c \in D /\ (c.forest[c.at] = c.at \/ c.at + (k - 1) <= x)
      BY <2>5, <3>1
    <3>3. t[k] = z /\ z \in D
      BY <1>4, <2>3, <3>1, <3>2
    <3>4. c.at \in Nat /\ z.at \in Nat
      <4>1. c.at \in 1..n /\ z.at \in 1..n
        BY <1>1, <3>2, <3>3
      <4> QED
        BY <4>1
    <3>5. CASE c.forest[c.at] = c.at
      <4>1. z = c
        BY <1>4, <3>1, <3>2, <3>5
      <4> QED
        BY <3>3, <3>5, <4>1
    <3>6. CASE c.forest[c.at] # c.at
      <4>1. z.at < c.at
        BY <1>4, <3>1, <3>2, <3>6
      <4>2. PICK i, j : i = z.at /\ j = c.at /\ i \in Nat /\ j \in Nat
        BY <3>4
      <4>3. i < j /\ j + (k - 1) <= x
        BY <3>2, <3>6, <4>1, <4>2
      <4>4. i + k <= x
        BY <4>2, <4>3
      <4> QED
        BY <3>3, <4>2, <4>4
    <3> QED
      BY <3>5, <3>6
  <2> HIDE DEF Good, Step
  <2>6. \A k \in 0..n : k \in Good
    BY <2>4, <2>5, UpTo
  <2>7. PICK c : c = t[n]
    OBVIOUS
  <2>8. c \in D /\ (c.forest[c.at] = c.at \/ c.at + n <= x)
    BY <2>6, <2>7 DEF Good
  <2>9. c.at \in 1..n /\ Forest(n, c.forest, root) /\ root[c.at] = root[x]
    BY <1>1, <2>8
  <2>10. c.forest[c.at] = c.at
    <3>1. PICK i : i = c.at
      OBVIOUS
    <3>2. ~ i + n <= x
      BY <2>9, <3>1
    <3> QED
      BY <2>8, <3>1, <3>2
  <2>11. root[c.at] = c.at
    BY <2>9, <2>10 DEF Forest
  <2> QED
    BY <2>7, <2>9, <2>11
<1> QED
  BY <1>7, <1>8

LEMMA RootIs ==
  ASSUME NEW n \in Nat, NEW forest, NEW root, Forest(n, forest, root), NEW x \in 1..n
  PROVE  RootOf(forest, x).at = root[x] /\ Forest(n, RootOf(forest, x).forest, root)
<1>1. DOMAIN forest = 1..n
  BY DEF Forest
<1>2. n = Cardinality(DOMAIN forest)
  BY <1>1, FS_Interval
<1> DEFINE chosen == CHOOSE t : t = [k \in 0..Cardinality(DOMAIN forest) |->
                       IF k = 0 THEN [at |-> x, forest |-> forest]
                       ELSE LET c == t[k - 1]
                                up == c.forest[c.forest[c.at]]
                            IN  IF c.forest[c.at] = c.at THEN c
                                ELSE [at |-> up, forest |-> [c.forest EXCEPT ![c.at] = up]]]
<1>3. RootOf(forest, x) = chosen[Cardinality(DOMAIN forest)]
  BY Zenon DEF RootOf
<1>4. ClimbLoop(chosen, forest, x, Cardinality(DOMAIN forest))
  <2>1. \E t : ClimbLoop(t, forest, x, Cardinality(DOMAIN forest))
    BY <1>2, ClimbLoops
  <2>2. \E t : t = [k \in 0..Cardinality(DOMAIN forest) |->
                       IF k = 0 THEN [at |-> x, forest |-> forest]
                       ELSE LET c == t[k - 1]
                                up == c.forest[c.forest[c.at]]
                            IN  IF c.forest[c.at] = c.at THEN c
                                ELSE [at |-> up, forest |-> [c.forest EXCEPT ![c.at] = up]]]
    BY <2>1, Zenon DEF ClimbLoop, Climb
  <2>3. chosen = [k \in 0..Cardinality(DOMAIN forest) |->
                       IF k = 0 THEN [at |-> x, forest |-> forest]
                       ELSE LET c == chosen[k - 1]
                                up == c.forest[c.forest[c.at]]
                            IN  IF c.forest[c.at] = c.at THEN c
                                ELSE [at |-> up, forest |-> [c.forest EXCEPT ![c.at] = up]]]
    BY <2>2
  <2> HIDE DEF chosen
  <2> QED
    BY <2>3, Zenon DEF ClimbLoop, Climb
<1> HIDE DEF chosen
<1> QED
  BY <1>2, <1>3, <1>4, ClimbLoops

(* Joining two nodes joins what has their roots, and nothing else.         *)
Merged(root, low, high) == [z \in DOMAIN root |-> IF root[z] = high THEN low ELSE root[z]]

Joined(n, g, root, x, y, low, high) ==
    {low, high} = {root[x], root[y]} /\ Forest(n, g, Merged(root, low, high))

LEMMA JoinIs ==
  ASSUME NEW n \in Nat, NEW forest, NEW root, Forest(n, forest, root), NEW x \in 1..n, NEW y \in 1..n
  PROVE  \E low, high : Joined(n, Join(forest, x, y), root, x, y, low, high)
<1>1. PICK first, second : first = RootOf(forest, x) /\ second = RootOf(first.forest, y)
  OBVIOUS
<1>2. first.at = root[x] /\ Forest(n, first.forest, root)
  BY <1>1, RootIs
<1>3. second.at = root[y] /\ Forest(n, second.forest, root)
  BY <1>1, <1>2, RootIs
<1>4. PICK a, b, g : a = root[x] /\ b = root[y] /\ g = second.forest
  OBVIOUS
<1>5. /\ g \in [1..n -> 1..n] /\ root \in [1..n -> 1..n]
      /\ \A z \in 1..n : g[z] <= z
      /\ \A z \in 1..n : root[g[z]] = root[z]
      /\ \A z \in 1..n : g[root[z]] = root[z]
      /\ \A z \in 1..n : g[z] = z => root[z] = z
  BY <1>3, <1>4 DEF Forest
<1>6. a \in 1..n /\ b \in 1..n /\ g[a] = a /\ g[b] = b /\ root[a] = a /\ root[b] = b
  <2>1. a \in 1..n /\ b \in 1..n
    BY <1>4, <1>5
  <2>2. g[root[x]] = root[x] /\ g[root[y]] = root[y]
    BY <1>5
  <2>3. g[a] = a /\ g[b] = b
    BY <1>4, <2>2
  <2>4. root[a] = a /\ root[b] = b
    BY <1>5, <2>1, <2>3
  <2> QED
    BY <2>1, <2>3, <2>4
<1>7. PICK low, high : /\ low = (IF a < b THEN a ELSE b) /\ high = (IF a < b THEN b ELSE a)
  OBVIOUS
<1>8. /\ low \in 1..n /\ high \in 1..n /\ low <= high /\ {low, high} = {a, b}
      /\ g[low] = low /\ g[high] = high /\ root[low] = low /\ root[high] = high
  BY <1>6, <1>7
<1>9. Join(forest, x, y) = [g EXCEPT ![high] = low]
  BY <1>1, <1>2, <1>3, <1>4, <1>7 DEF Join
<1>10. PICK h, top : h = [g EXCEPT ![high] = low] /\ top = [z \in 1..n |-> IF root[z] = high THEN low ELSE root[z]]
  OBVIOUS
<1>11. /\ h \in [1..n -> 1..n] /\ h[high] = low /\ \A z \in 1..n : z # high => h[z] = g[z]
       /\ top \in [1..n -> 1..n] /\ \A z \in 1..n : top[z] = IF root[z] = high THEN low ELSE root[z]
  BY <1>5, <1>8, <1>10
<1>12. \A z \in 1..n : h[z] <= z
  BY <1>5, <1>8, <1>11
<1>13. \A z \in 1..n : top[h[z]] = top[z]
  <2>1. top[low] = low /\ top[high] = low
    BY <1>8, <1>11
  <2>2. ASSUME NEW z \in 1..n, z # high PROVE top[g[z]] = top[z]
    BY <1>5, <1>11
  <2> QED
    BY <1>11, <2>1, <2>2
<1>14. \A z \in 1..n : h[top[z]] = top[z]
  <2>1. h[low] = low
    BY <1>8, <1>11
  <2> SUFFICES ASSUME NEW z \in 1..n PROVE h[top[z]] = top[z]
    OBVIOUS
  <2>2. CASE root[z] = high
    BY <1>11, <2>1, <2>2
  <2>3. CASE root[z] # high
    <3>1. top[z] = root[z] /\ root[z] \in 1..n
      BY <1>5, <1>11, <2>3
    <3> QED
      BY <1>5, <1>11, <2>3, <3>1
  <2> QED
    BY <2>2, <2>3
<1>15. \A z \in 1..n : h[z] = z => top[z] = z
  BY <1>5, <1>8, <1>11
<1>16. Forest(n, h, top)
  BY <1>11, <1>12, <1>13, <1>14, <1>15 DEF Forest
<1>17. {low, high} = {root[x], root[y]}
  BY <1>4, <1>8
<1>18. Forest(n, Join(forest, x, y), Merged(root, low, high))
  <2>1. top = Merged(root, low, high)
    BY <1>5, <1>10 DEF Merged
  <2> QED
    BY <1>9, <1>10, <1>16, <2>1
<1>19. Joined(n, Join(forest, x, y), root, x, y, low, high)
  BY <1>17, <1>18 DEF Joined
<1> QED
  BY <1>19
---------------------------------------------------------------------------
(* Clusters of evidence.                                                   *)

(* What no token connects with anything outside.                           *)
Separate(lineages, n, S) ==
    \A x \in S : \A y \in 1..n : ToSet(lineages[y]) \cap ToSet(lineages[x]) # {} => y \in S

(* Nothing is joined that could be separated.                              *)
Respects(lineages, n, root) ==
    \A S \in SUBSET (1..n) : Separate(lineages, n, S) => \A z \in 1..n : z \in S <=> root[z] \in S

AllTokens(lineages, n) == UNION {ToSet(lineages[r]) : r \in 1..n}

(* What looking at tokens keeps.                                           *)
HeardOk(lineages, n, s) ==
    /\ s \in [forest : [1..n -> 1..n], fingerprints : UNION {[T -> 1..n] : T \in SUBSET AllTokens(lineages, n)}]
    /\ \E root : Forest(n, s.forest, root) /\ Respects(lineages, n, root)
    /\ \A t \in DOMAIN s.fingerprints : t \in ToSet(lineages[s.fingerprints[t]])

(* A piece of evidence is joined with the first one that has the token.    *)
Linked(s, r, t) ==
    /\ t \in DOMAIN s.fingerprints
    /\ RootOf(s.forest, r).at = RootOf(s.forest, s.fingerprints[t]).at

LEMMA LookKeeps ==
  ASSUME NEW n \in Nat, NEW lineages, NEW s, HeardOk(lineages, n, s),
         NEW ref \in 1..n, NEW token \in ToSet(lineages[ref])
  PROVE  /\ HeardOk(lineages, n, Look(s, ref, token))
         /\ Linked(Look(s, ref, token), ref, token)
         /\ \A r \in 1..n : \A t : Linked(s, r, t) => Linked(Look(s, ref, token), r, t)
<1>1. PICK f, p, z, All : f = s.forest /\ p = s.fingerprints /\ z = Look(s, ref, token) /\ All = AllTokens(lineages, n)
  OBVIOUS
<1>2. /\ s \in [forest : [1..n -> 1..n], fingerprints : UNION {[T -> 1..n] : T \in SUBSET All}]
      /\ s = [forest |-> f, fingerprints |-> p] /\ f \in [1..n -> 1..n]
  BY <1>1 DEF HeardOk
<1>3. PICK P \in SUBSET All : p \in [P -> 1..n]
  BY <1>1, <1>2
<1>4. \A t \in P : p[t] \in 1..n /\ t \in ToSet(lineages[p[t]])
  BY <1>1, <1>3 DEF HeardOk
<1>5. PICK root : Forest(n, f, root) /\ Respects(lineages, n, root)
  BY <1>1 DEF HeardOk
<1>6. root \in [1..n -> 1..n] /\ \A r \in 1..n : RootOf(f, r).at = root[r]
  <2>1. Forest(n, f, root)
    BY <1>5
  <2>2. \A r \in 1..n : RootOf(f, r).at = root[r]
    BY <2>1, RootIs
  <2>3. root \in [1..n -> 1..n]
    BY <2>1 DEF Forest
  <2> QED
    BY <2>2, <2>3
<1>7. \A r \in 1..n : \A t : Linked(s, r, t) <=> t \in P /\ root[r] = root[p[t]]
  BY <1>1, <1>3, <1>4, <1>6 DEF Linked
<1>8. token \in All
  BY <1>1 DEF AllTokens
<1>9. CASE token \in P
  <2>1. PICK other, g : other = p[token] /\ g = Join(f, ref, other) /\ other \in 1..n
    BY <1>4, <1>9
  <2>2. z = [s EXCEPT !.forest = g]
    BY <1>1, <1>3, <1>9, <2>1 DEF Look
  <2>3. z.forest = g /\ z.fingerprints = p
    BY <1>2, <2>2
  <2>4. PICK low, high : {low, high} = {root[ref], root[other]} /\ Forest(n, g, Merged(root, low, high))
    <3>1. Forest(n, f, root)
      BY <1>5
    <3>2. other \in 1..n
      BY <2>1
    <3>3. \E low, high : Joined(n, Join(f, ref, other), root, ref, other, low, high)
      BY ONLY n \in Nat, ref \in 1..n, <3>1, <3>2, JoinIs
    <3> QED
      BY <2>1, <3>3 DEF Joined
  <2>5. PICK top : top = Merged(root, low, high)
    OBVIOUS
  <2>6. \A x \in 1..n : top[x] = IF root[x] = high THEN low ELSE root[x]
    BY <1>6, <2>5 DEF Merged
  <2>7. Forest(n, g, top)
    BY <2>4, <2>5
  <2>8. top[ref] = top[other]
    BY <2>1, <2>4, <2>6
  <2>9. Respects(lineages, n, top)
    <3> SUFFICES ASSUME NEW S \in SUBSET (1..n), Separate(lineages, n, S), NEW x \in 1..n
                 PROVE  x \in S <=> top[x] \in S
      BY DEF Respects
    <3>1. \A y \in 1..n : y \in S <=> root[y] \in S
      BY <1>5 DEF Respects
    <3>2. token \in ToSet(lineages[ref]) /\ token \in ToSet(lineages[other])
      BY <1>4, <1>9, <2>1
    <3>3. ref \in S <=> other \in S
      BY <2>1, <3>2 DEF Separate
    <3>4. low \in S <=> high \in S
      BY <2>1, <2>4, <3>1, <3>3
    <3> QED
      BY <2>6, <3>1, <3>4
  <2>10. g \in [1..n -> 1..n]
    BY <2>7 DEF Forest
  <2>11. HeardOk(lineages, n, z)
    <3>1. z \in [forest : [1..n -> 1..n], fingerprints : UNION {[T -> 1..n] : T \in SUBSET All}]
      BY <1>2, <2>2, <2>10
    <3> QED
      BY <1>1, <1>3, <1>4, <2>3, <2>7, <2>9, <3>1 DEF HeardOk
  <2>12. \A r \in 1..n : \A t : Linked(z, r, t) <=> t \in P /\ top[r] = top[p[t]]
    <3>1. \A r \in 1..n : RootOf(g, r).at = top[r]
      BY <2>7, RootIs
    <3> QED
      BY <1>3, <1>4, <2>3, <3>1 DEF Linked
  <2>13. Linked(z, ref, token)
    BY <1>9, <2>1, <2>8, <2>12
  <2>14. ASSUME NEW r \in 1..n, NEW t, Linked(s, r, t) PROVE Linked(z, r, t)
    <3>1. t \in P /\ root[r] = root[p[t]] /\ p[t] \in 1..n
      BY <1>4, <1>7, <2>14
    <3>2. top[r] = top[p[t]]
      BY <2>6, <3>1
    <3> QED
      BY <2>12, <3>1, <3>2
  <2> QED
    BY <1>1, <2>11, <2>13, <2>14
<1>10. CASE token \notin P
  <2>1. PICK q : q = [t \in P \cup {token} |-> IF t = token THEN ref ELSE p[t]]
    OBVIOUS
  <2>2. z = [s EXCEPT !.fingerprints = q]
    BY <1>1, <1>3, <1>10, <2>1 DEF Look
  <2>3. z.forest = f /\ z.fingerprints = q
    BY <1>2, <2>2
  <2>4. q \in [P \cup {token} -> 1..n] /\ q[token] = ref /\ \A t \in P : q[t] = p[t]
    BY <1>3, <1>10, <2>1
  <2>5. P \cup {token} \in SUBSET All
    BY <1>8
  <2>6. q \in UNION {[T -> 1..n] : T \in SUBSET All}
    BY <2>4, <2>5
  <2>7. z \in [forest : [1..n -> 1..n], fingerprints : UNION {[T -> 1..n] : T \in SUBSET All}]
    BY <1>2, <2>2, <2>6
  <2>8. \A t \in P \cup {token} : t \in ToSet(lineages[q[t]])
    BY <1>4, <2>4
  <2>9. HeardOk(lineages, n, z)
    BY <1>1, <1>5, <2>3, <2>4, <2>7, <2>8 DEF HeardOk
  <2>10. Linked(z, ref, token)
    BY <2>3, <2>4 DEF Linked
  <2>11. \A r \in 1..n : \A t : Linked(s, r, t) => Linked(z, r, t)
    BY <1>1, <1>3, <2>3, <2>4 DEF Linked
  <2> QED
    BY <1>1, <2>9, <2>10, <2>11
<1> QED
  BY <1>9, <1>10

LookFold(F, s, ref, tokens) ==
    F = [d \in SUBSET (DOMAIN tokens) |-> IF d = {} THEN s ELSE Look(F[d \ {Max(d)}], ref, tokens[Max(d)])]

(* All tokens of a piece of evidence.                                      *)
LEMMA LookAtAllKeeps ==
  ASSUME NEW n \in Nat, NEW lineages, NEW s, HeardOk(lineages, n, s), NEW ref \in 1..n,
         NEW m \in Nat, NEW tokens, DOMAIN tokens = 1..m, tokens = lineages[ref]
  PROVE  /\ HeardOk(lineages, n, LookAtAll(s, ref, tokens))
         /\ \A t \in ToSet(tokens) : Linked(LookAtAll(s, ref, tokens), ref, t)
         /\ \A r \in 1..n : \A t : Linked(s, r, t) => Linked(LookAtAll(s, ref, tokens), r, t)
<1>1. PICK D : D = {x \in [forest : [1..n -> 1..n], fingerprints : UNION {[T -> 1..n] : T \in SUBSET AllTokens(lineages, n)}] :
                      HeardOk(lineages, n, x)}
  OBVIOUS
<1>2. \A x : x \in D <=> HeardOk(lineages, n, x)
  BY <1>1 DEF HeardOk
<1>3. PICK step : step = [i \in 1..m |-> [x \in D |-> Look(x, ref, tokens[i])]]
  OBVIOUS
<1>4. \A i \in 1..m : tokens[i] \in ToSet(tokens)
  BY DEF ToSet
<1>5. ASSUME NEW i \in 1..m, NEW x \in D
      PROVE  /\ Look(x, ref, tokens[i]) \in D /\ Linked(Look(x, ref, tokens[i]), ref, tokens[i])
             /\ \A r \in 1..n : \A t : Linked(x, r, t) => Linked(Look(x, ref, tokens[i]), r, t)
  <2>1. HeardOk(lineages, n, x) /\ tokens[i] \in ToSet(lineages[ref])
    BY <1>2, <1>4
  <2> QED
    BY <1>2, <2>1, LookKeeps
<1>6. step \in [1..m -> [D -> D]] /\ \A i \in 1..m : \A x \in D : step[i][x] = Look(x, ref, tokens[i])
  BY <1>3, <1>5
<1>7. s \in D
  BY <1>2
<1>8. PICK pick : pick = [d \in SUBSET (1..m) |-> Max(d)]
  OBVIOUS
<1>9. \A d \in SUBSET (1..m) : pick[d] = Max(d) /\ (d # {} => pick[d] \in d)
  BY <1>8, GreatestUpTo
<1>10. PICK F : FoldOf(F, 1..m, pick, D, s, step)
  <2>1. IsFiniteSet(1..m)
    BY FS_Interval
  <2> QED
    BY <1>6, <1>7, <1>9, <2>1, FoldExists
<1>11. LookFold(F, s, ref, tokens)
  <2>1. F \in [SUBSET (1..m) -> D] /\ F[{}] = s
    BY <1>10 DEF FoldOf
  <2>2. ASSUME NEW d \in SUBSET (1..m), d # {} PROVE F[d] = Look(F[d \ {Max(d)}], ref, tokens[Max(d)])
    <3>1. F[d] = step[pick[d]][F[d \ {pick[d]}]]
      BY <1>10, <2>2 DEF FoldOf
    <3>2. pick[d] = Max(d) /\ pick[d] \in 1..m
      BY <1>9, <2>2
    <3>3. F[d \ {pick[d]}] \in D
      BY <2>1
    <3> QED
      BY <1>6, <3>1, <3>2, <3>3
  <2>3. \A d \in SUBSET (1..m) : F[d] = IF d = {} THEN s ELSE Look(F[d \ {Max(d)}], ref, tokens[Max(d)])
    BY <2>1, <2>2
  <2>4. F = [d \in SUBSET (1..m) |-> F[d]]
    BY <2>1
  <2> QED
    BY <2>3, <2>4 DEF LookFold
<1> DEFINE chosen == CHOOSE G : LookFold(G, s, ref, tokens)
<1>12. LookAtAll(s, ref, tokens) = chosen[DOMAIN tokens]
  BY Zenon DEF LookAtAll, FoldLeft, MapThenFoldSet, LookFold
<1>13. LookFold(chosen, s, ref, tokens)
  BY <1>11
<1> HIDE DEF chosen
<1>14. chosen[{}] = s /\ \A i \in 1..m : chosen[1..i] = Look(chosen[1..(i - 1)], ref, tokens[i])
  <2> DEFINE Step(d) == IF d = {} THEN s ELSE Look(chosen[d \ {Max(d)}], ref, tokens[Max(d)])
  <2>1. chosen = [d \in SUBSET (1..m) |-> Step(d)]
    BY <1>13 DEF LookFold
  <2> HIDE DEF Step
  <2>2. \A d \in SUBSET (1..m) : chosen[d] = Step(d)
    BY <2>1
  <2>3. {} \in SUBSET (1..m) /\ \A i \in 1..m : 1..i \in SUBSET (1..m) /\ 1..i # {}
    <3>1. \A i \in 1..m : i \in 1..i /\ \A j \in 1..i : j \in 1..m
      OBVIOUS
    <3> QED
      BY <3>1
  <2>4. \A i \in 1..m : Max(1..i) = i /\ (1..i) \ {Max(1..i)} = 1..(i - 1)
    BY GreatestUpTo
  <2>5. Step({}) = s /\ \A i \in 1..m : Step(1..i) = Look(chosen[1..(i - 1)], ref, tokens[i])
    BY <2>3, <2>4 DEF Step
  <2> QED
    BY <2>2, <2>3, <2>5
<1>15. PICK h : Course(h, D, s, step, m) /\ \A i \in 0..m : h[i] = chosen[1..i]
  <2>1. \A i \in 1..m : chosen[1..(i - 1)] \in D => chosen[1..i] = step[i][chosen[1..(i - 1)]]
    BY <1>6, <1>14
  <2>2. PICK G : G = chosen
    OBVIOUS
  <2>3. OnPrefixes(G, D, s, step, m)
    BY <1>14, <2>1, <2>2 DEF OnPrefixes
  <2>4. step \in [1..m -> [D -> D]]
    BY <1>6
  <2>5. \E h : Course(h, D, s, step, m) /\ \A i \in 0..m : h[i] = G[1..i]
    BY ONLY m \in Nat, <1>7, <2>3, <2>4, FoldOfPrefixes
  <2> QED
    BY <2>2, <2>5
<1>16. /\ h \in [0..m -> D] /\ h[0] = s
       /\ \A i \in 1..m : h[i - 1] \in D /\ h[i] = Look(h[i - 1], ref, tokens[i])
  <2>1. h \in [0..m -> D] /\ h[0] = s /\ \A i \in 1..m : h[i] = step[i][h[i - 1]]
    BY <1>15 DEF Course
  <2>2. \A i \in 1..m : i - 1 \in 0..m
    OBVIOUS
  <2>3. \A i \in 1..m : h[i - 1] \in D
    BY <2>1, <2>2
  <2> QED
    BY <1>6, <2>1, <2>3
<1>17. PICK A : A = {i \in 0..m : /\ \A j \in 1..i : Linked(h[i], ref, tokens[j])
                                 /\ \A r \in 1..n : \A t : Linked(s, r, t) => Linked(h[i], r, t)}
  OBVIOUS
<1>18. 0 \in A
  BY <1>16, <1>17
<1>19. ASSUME NEW i \in 1..m, i - 1 \in A PROVE i \in A
  <2>1. PICK x, y : x = h[i - 1] /\ y = h[i]
    OBVIOUS
  <2>2. x \in D /\ y = Look(x, ref, tokens[i])
    BY <1>16, <2>1
  <2>3. Linked(y, ref, tokens[i]) /\ \A r \in 1..n : \A t : Linked(x, r, t) => Linked(y, r, t)
    BY <1>5, <2>2
  <2>4. /\ \A j \in 1..(i - 1) : Linked(x, ref, tokens[j])
        /\ \A r \in 1..n : \A t : Linked(s, r, t) => Linked(x, r, t)
    BY <1>17, <1>19, <2>1
  <2>5. \A j \in 1..i : j = i \/ j \in 1..(i - 1)
    OBVIOUS
  <2>6. i \in 0..m
    OBVIOUS
  <2>7. \A j \in 1..i : Linked(y, ref, tokens[j])
    BY <2>3, <2>4, <2>5
  <2> QED
    BY <1>17, <2>1, <2>3, <2>4, <2>6, <2>7
<1>20. \A i \in 0..m : i \in A
  BY <1>18, <1>19, UpTo
<1>21. m \in A /\ h[m] \in D /\ h[m] = chosen[1..m]
  <2>1. m \in 0..m
    OBVIOUS
  <2> QED
    BY <1>15, <1>16, <1>20, <2>1
<1>22. LookAtAll(s, ref, tokens) = h[m]
  BY <1>12, <1>21
<1>23. \A t \in ToSet(tokens) : \E j \in 1..m : t = tokens[j]
  BY DEF ToSet
<1> QED
  BY <1>2, <1>17, <1>21, <1>22, <1>23
---------------------------------------------------------------------------
(* What a chain of shared tokens connects.                                 *)
Grows(v, next, r, n) == v[0] = {r} /\ \A k \in 1..n : v[k] = v[k - 1] \cup UNION {next[x] : x \in v[k - 1]}

(* The least set with r that next does not lead out of.                    *)
LeastWith(C, next, D, r) ==
    /\ r \in C /\ C \subseteq D /\ \A x \in C : next[x] \subseteq C
    /\ \A S : r \in S /\ (\A x \in S : x \in D => next[x] \subseteq S) => C \subseteq S

LEMMA GrownIsLeast ==
  ASSUME NEW D, IsFiniteSet(D), NEW n, n = Cardinality(D), NEW next \in [D -> SUBSET D], NEW r \in D,
         NEW v, Grows(v, next, r, n)
  PROVE  LeastWith(v[n], next, D, r)
<1>1. n \in Nat
  BY FS_CardinalityType
<1>2. v[0] = {r} /\ \A k \in 1..n : v[k] = v[k - 1] \cup UNION {next[x] : x \in v[k - 1]}
  BY DEF Grows
<1>3. \A k \in 0..n : v[k] \subseteq D
  <2> DEFINE Good == {k \in 0..n : v[k] \subseteq D}
  <2>1. 0 \in Good
    BY <1>1, <1>2
  <2>2. \A k \in 1..n : k - 1 \in Good => k \in Good
    BY <1>1, <1>2
  <2> HIDE DEF Good
  <2>3. \A k \in 0..n : k \in Good
    BY <1>1, <2>1, <2>2, UpTo
  <2> QED
    BY <2>3 DEF Good
<1>4. ASSUME NEW C, r \in C, \A x \in C : x \in D => next[x] \subseteq C
      PROVE  \A k \in 0..n : v[k] \subseteq C
  <2> DEFINE Good == {k \in 0..n : v[k] \subseteq C}
  <2>1. 0 \in Good
    BY <1>1, <1>2, <1>4
  <2>2. ASSUME NEW k \in 1..n, k - 1 \in Good PROVE k \in Good
    <3>1. k - 1 \in 0..n /\ k \in 0..n
      BY <1>1
    <3>2. v[k - 1] \subseteq C /\ v[k - 1] \subseteq D
      BY <1>3, <2>2, <3>1
    <3>3. \A x \in v[k - 1] : next[x] \subseteq C
      BY <1>4, <3>2
    <3>4. v[k] \subseteq C
      BY <1>2, <3>2, <3>3
    <3> QED
      BY <3>1, <3>4
  <2> HIDE DEF Good
  <2>3. \A k \in 0..n : k \in Good
    BY <1>1, <2>1, <2>2, UpTo
  <2> QED
    BY <2>3 DEF Good
<1>5. \A k \in 1..n : v[k - 1] \subseteq v[k]
  BY <1>2
<1>6. v[0] # {}
  BY <1>2
<1>7. PICK k \in 1..n : v[k] = v[k - 1]
  BY <1>1, <1>3, <1>5, <1>6, GrowthEnds
<1>8. v[k] \subseteq v[n] /\ r \in v[k]
  <2>1. k \in Nat /\ \A j \in 1..k : v[j - 1] \subseteq v[j]
    BY <1>1, <1>5
  <2>2. \A j \in 0..k : v[j] \subseteq v[k]
    BY <2>1, GrowsMonotonically
  <2>3. \A j \in 0..n : v[j] \subseteq v[n]
    BY <1>1, <1>5, GrowsMonotonically
  <2>4. 0 \in 0..k /\ k \in 0..n
    BY <1>1
  <2> QED
    BY <1>2, <2>2, <2>3, <2>4
<1>9. \A x \in v[k] : next[x] \subseteq v[k]
  BY <1>2, <1>7
<1>10. n \in 0..n
  BY <1>1
<1>11. v[n] \subseteq v[k]
  BY <1>4, <1>8, <1>9, <1>10
<1>12. v[n] = v[k]
  BY <1>8, <1>11
<1>13. \A S : r \in S /\ (\A x \in S : x \in D => next[x] \subseteq S) => v[n] \subseteq S
  BY <1>4, <1>10
<1>14. r \in v[n] /\ v[n] \subseteq D /\ \A x \in v[n] : next[x] \subseteq v[n]
  BY <1>3, <1>8, <1>9, <1>10, <1>12
<1> QED
  BY <1>13, <1>14 DEF LeastWith

Near(lineages, x) == {s \in DOMAIN lineages : ToSet(lineages[s]) \cap ToSet(lineages[x]) # {}}

GrowthOf(v, lineages, r) ==
    v = [k \in 0..Len(lineages) |-> IF k = 0 THEN {r} ELSE v[k - 1] \cup UNION {Near(lineages, x) : x \in v[k - 1]}]

LEMMA ComponentIs ==
  ASSUME NEW n \in Nat, NEW lineages, DOMAIN lineages = 1..n, Len(lineages) = n, NEW r \in 1..n
  PROVE  /\ r \in Component(lineages, r) /\ Component(lineages, r) \in SUBSET (1..n)
         /\ Separate(lineages, n, Component(lineages, r))
         /\ \A S \in SUBSET (1..n) : r \in S /\ Separate(lineages, n, S) => Component(lineages, r) \subseteq S
<1>1. PICK D, next : D = 1..n /\ next = [x \in D |-> Near(lineages, x)]
  OBVIOUS
<1>2. next \in [D -> SUBSET D] /\ \A x \in D : next[x] = Near(lineages, x)
  BY <1>1 DEF Near
<1>3. IsFiniteSet(D) /\ n = Cardinality(D) /\ r \in D
  BY <1>1, FS_Interval
<1>4. PICK on : on = [S \in SUBSET D |-> S \cup UNION {next[x] : x \in S}]
  OBVIOUS
<1>5. on \in [SUBSET D -> SUBSET D]
  BY <1>2, <1>4
<1>6. PICK w : Iterates(w, D, on, {r}, n)
  <2>1. {r} \in SUBSET D
    BY <1>3
  <2> QED
    BY <1>5, <2>1, IteratesExist
<1> DEFINE chosen == CHOOSE v : GrowthOf(v, lineages, r)
<1>7. GrowthOf(w, lineages, r)
  <2>1. w = [k \in 0..n |-> w[k]] /\ w[0] = {r}
    BY <1>6 DEF Iterates
  <2>2. ASSUME NEW k \in 1..n PROVE w[k] = w[k - 1] \cup UNION {Near(lineages, x) : x \in w[k - 1]}
    <3>1. k - 1 \in 0..n
      OBVIOUS
    <3>2. w[k - 1] \in SUBSET D /\ w[k] = on[w[k - 1]]
      BY <1>6, <3>1 DEF Iterates
    <3>3. w[k] = w[k - 1] \cup UNION {next[x] : x \in w[k - 1]}
      BY <1>4, <3>2
    <3>4. \A x \in w[k - 1] : next[x] = Near(lineages, x)
      BY <1>2, <3>2
    <3> QED
      BY <3>3, <3>4
  <2>3. \A k \in 0..n : k # 0 => k \in 1..n
    OBVIOUS
  <2>4. \A k \in 0..n : w[k] = IF k = 0 THEN {r} ELSE w[k - 1] \cup UNION {Near(lineages, x) : x \in w[k - 1]}
    BY <2>1, <2>2, <2>3
  <2>5. w = [k \in 0..n |-> IF k = 0 THEN {r} ELSE w[k - 1] \cup UNION {Near(lineages, x) : x \in w[k - 1]}]
    BY <2>1, <2>4
  <2> QED
    BY <2>5 DEF GrowthOf
<1>8. GrowthOf(chosen, lineages, r)
  BY <1>7
<1>9. Component(lineages, r) = chosen[n]
  BY Zenon DEF Component, GrowthOf, Near
<1> HIDE DEF chosen
<1>10. PICK v : v = chosen
  OBVIOUS
<1>11. v = [k \in 0..n |-> IF k = 0 THEN {r} ELSE v[k - 1] \cup UNION {Near(lineages, x) : x \in v[k - 1]}]
  <2>1. GrowthOf(v, lineages, r)
    BY <1>8, <1>10
  <2> QED
    BY <2>1 DEF GrowthOf
<1>12. v[0] = {r} /\ \A k \in 1..n : v[k] = v[k - 1] \cup UNION {Near(lineages, x) : x \in v[k - 1]}
  <2> DEFINE Step(k) == IF k = 0 THEN {r} ELSE v[k - 1] \cup UNION {Near(lineages, x) : x \in v[k - 1]}
  <2>1. v = [k \in 0..n |-> Step(k)]
    BY <1>11
  <2> HIDE DEF Step
  <2>2. \A k \in 0..n : v[k] = Step(k)
    BY <2>1
  <2>3. Step(0) = {r} /\ \A k \in 1..n : Step(k) = v[k - 1] \cup UNION {Near(lineages, x) : x \in v[k - 1]}
    BY DEF Step
  <2>4. 0 \in 0..n /\ \A k \in 1..n : k \in 0..n
    OBVIOUS
  <2> QED
    BY <2>2, <2>3, <2>4
<1>13. \A k \in 0..n : v[k] \subseteq D
  <2> DEFINE Good == {k \in 0..n : v[k] \subseteq D}
  <2>1. 0 \in Good
    BY <1>1, <1>12
  <2>2. \A k \in 1..n : k - 1 \in Good => k \in Good
    BY <1>1, <1>12 DEF Near
  <2> HIDE DEF Good
  <2>3. \A k \in 0..n : k \in Good
    BY <2>1, <2>2, UpTo
  <2> QED
    BY <2>3 DEF Good
<1>14. Grows(v, next, r, n)
  <2> SUFFICES ASSUME NEW k \in 1..n PROVE v[k] = v[k - 1] \cup UNION {next[x] : x \in v[k - 1]}
    BY <1>12 DEF Grows
  <2>1. k - 1 \in 0..n
    OBVIOUS
  <2>2. \A x \in v[k - 1] : next[x] = Near(lineages, x)
    BY <1>2, <1>13, <2>1
  <2> QED
    BY <1>12, <2>2
<1>15. PICK C : C = v[n]
  OBVIOUS
<1>16. /\ r \in C /\ C \subseteq D /\ \A x \in C : next[x] \subseteq C
       /\ \A S : r \in S /\ (\A x \in S : x \in D => next[x] \subseteq S) => C \subseteq S
  <2>1. LeastWith(v[n], next, D, r)
    <3>1. next \in [D -> SUBSET D]
      BY <1>2
    <3> QED
      BY <1>3, <1>14, <3>1, GrownIsLeast
  <2> QED
    BY <1>15, <2>1 DEF LeastWith
<1>17. Component(lineages, r) = C
  BY <1>9, <1>10, <1>15
<1>18. Separate(lineages, n, C)
  <2> SUFFICES ASSUME NEW x \in C, NEW y \in 1..n, ToSet(lineages[y]) \cap ToSet(lineages[x]) # {} PROVE y \in C
    BY DEF Separate
  <2>1. next[x] = Near(lineages, x) /\ next[x] \subseteq C
    BY <1>2, <1>16
  <2> QED
    BY <2>1 DEF Near
<1>19. ASSUME NEW S \in SUBSET (1..n), r \in S, Separate(lineages, n, S) PROVE C \subseteq S
  <2>1. \A x \in S : x \in D => next[x] \subseteq S
    BY <1>1, <1>2, <1>19 DEF Separate, Near
  <2> QED
    BY <1>16, <1>19, <2>1
<1> QED
  BY <1>1, <1>16, <1>17, <1>18, <1>19

---------------------------------------------------------------------------
(* The clusters are the components.                                        *)
HeardAll(lineages, n, s) ==
    HeardOk(lineages, n, s) /\ \A r \in 1..n : \A t \in ToSet(lineages[r]) : Linked(s, r, t)

LEMMA StartHeard ==
  ASSUME NEW n \in Nat, NEW lineages
  PROVE  HeardOk(lineages, n, [forest |-> [r \in 1..n |-> r], fingerprints |-> <<>>])
<1>1. PICK f, p, s : f = [r \in 1..n |-> r] /\ p = <<>> /\ s = [forest |-> f, fingerprints |-> p]
  OBVIOUS
<1>2. f \in [1..n -> 1..n] /\ \A r \in 1..n : f[r] = r
  BY <1>1
<1>3. Forest(n, f, f)
  BY <1>2 DEF Forest
<1>4. Respects(lineages, n, f)
  BY <1>2 DEF Respects
<1>5. DOMAIN p = {} /\ p \in [{} -> 1..n]
  BY <1>1
<1>6. p \in UNION {[T -> 1..n] : T \in SUBSET AllTokens(lineages, n)}
  BY <1>5
<1>7. s \in [forest : [1..n -> 1..n], fingerprints : UNION {[T -> 1..n] : T \in SUBSET AllTokens(lineages, n)}]
  BY <1>1, <1>2, <1>6
<1>8. s.forest = f /\ s.fingerprints = p
  BY <1>1
<1>9. HeardOk(lineages, n, s)
  BY <1>3, <1>4, <1>5, <1>7, <1>8 DEF HeardOk
<1> QED
  BY <1>1, <1>9

ClusterFold(F, lineages, start, refs) ==
    F = [d \in SUBSET (DOMAIN refs) |->
           IF d = {} THEN start ELSE LookAtAll(F[d \ {Max(d)}], refs[Max(d)], lineages[refs[Max(d)]])]

(* Looking at all tokens of all evidence links everything with its tokens. *)
LEMMA AllHeard ==
  ASSUME NEW n \in Nat, NEW lineages, \A r \in 1..n : \E m \in Nat : DOMAIN lineages[r] = 1..m,
         NEW start, HeardOk(lineages, n, start), NEW refs, refs = [r \in 1..n |-> r]
  PROVE  /\ \E F : ClusterFold(F, lineages, start, refs)
         /\ \A F : ClusterFold(F, lineages, start, refs) => HeardAll(lineages, n, F[1..n])
<1>1. PICK D : D = {x \in [forest : [1..n -> 1..n], fingerprints : UNION {[T -> 1..n] : T \in SUBSET AllTokens(lineages, n)}] :
                      HeardOk(lineages, n, x)}
  OBVIOUS
<1>2. \A x : x \in D <=> HeardOk(lineages, n, x)
  BY <1>1 DEF HeardOk
<1>3. PICK step : step = [i \in 1..n |-> [x \in D |-> LookAtAll(x, i, lineages[i])]]
  OBVIOUS
<1>4. ASSUME NEW i \in 1..n, NEW x \in D
      PROVE  /\ LookAtAll(x, i, lineages[i]) \in D
             /\ \A t \in ToSet(lineages[i]) : Linked(LookAtAll(x, i, lineages[i]), i, t)
             /\ \A r \in 1..n : \A t : Linked(x, r, t) => Linked(LookAtAll(x, i, lineages[i]), r, t)
  <2>1. HeardOk(lineages, n, x)
    BY <1>2
  <2>2. PICK m, tokens : m \in Nat /\ DOMAIN tokens = 1..m /\ tokens = lineages[i]
    OBVIOUS
  <2>3. /\ HeardOk(lineages, n, LookAtAll(x, i, tokens))
        /\ \A t \in ToSet(tokens) : Linked(LookAtAll(x, i, tokens), i, t)
        /\ \A r \in 1..n : \A t : Linked(x, r, t) => Linked(LookAtAll(x, i, tokens), r, t)
    BY <2>1, <2>2, LookAtAllKeeps
  <2> QED
    BY <1>2, <2>2, <2>3
<1>5. step \in [1..n -> [D -> D]] /\ \A i \in 1..n : \A x \in D : step[i][x] = LookAtAll(x, i, lineages[i])
  BY <1>3, <1>4
<1>6. start \in D
  BY <1>2
<1>7. PICK pick : pick = [d \in SUBSET (1..n) |-> Max(d)]
  OBVIOUS
<1>8. \A d \in SUBSET (1..n) : pick[d] = Max(d) /\ (d # {} => pick[d] \in d)
  BY <1>7, GreatestUpTo
<1>9. DOMAIN refs = 1..n /\ \A i \in 1..n : refs[i] = i
  OBVIOUS
<1>10. PICK G : FoldOf(G, 1..n, pick, D, start, step)
  <2>1. IsFiniteSet(1..n)
    BY FS_Interval
  <2> QED
    BY <1>5, <1>6, <1>8, <2>1, FoldExists
<1>11. ClusterFold(G, lineages, start, refs)
  <2>1. G \in [SUBSET (1..n) -> D] /\ G[{}] = start
    BY <1>10 DEF FoldOf
  <2>2. ASSUME NEW d \in SUBSET (1..n), d # {} PROVE G[d] = LookAtAll(G[d \ {Max(d)}], refs[Max(d)], lineages[refs[Max(d)]])
    <3>1. G[d] = step[pick[d]][G[d \ {pick[d]}]]
      BY <1>10, <2>2 DEF FoldOf
    <3>2. pick[d] = Max(d) /\ pick[d] \in 1..n /\ refs[Max(d)] = Max(d)
      BY <1>8, <1>9, <2>2
    <3>3. G[d \ {pick[d]}] \in D
      BY <2>1
    <3> QED
      BY <1>5, <3>1, <3>2, <3>3
  <2>3. \A d \in SUBSET (1..n) : G[d] = IF d = {} THEN start ELSE LookAtAll(G[d \ {Max(d)}], refs[Max(d)], lineages[refs[Max(d)]])
    BY <2>1, <2>2
  <2>4. G = [d \in SUBSET (1..n) |-> G[d]]
    BY <2>1
  <2> QED
    BY <1>9, <2>3, <2>4 DEF ClusterFold
<1>12. ASSUME NEW F, ClusterFold(F, lineages, start, refs) PROVE HeardAll(lineages, n, F[1..n])
  <2>1. F[{}] = start /\ \A i \in 1..n : F[1..i] = LookAtAll(F[1..(i - 1)], i, lineages[i])
    <3> DEFINE Step(d) == IF d = {} THEN start ELSE LookAtAll(F[d \ {Max(d)}], refs[Max(d)], lineages[refs[Max(d)]])
    <3>1. F = [d \in SUBSET (1..n) |-> Step(d)]
      BY <1>9, <1>12 DEF ClusterFold
    <3> HIDE DEF Step
    <3>2. \A d \in SUBSET (1..n) : F[d] = Step(d)
      BY <3>1
    <3>3. {} \in SUBSET (1..n) /\ \A i \in 1..n : 1..i \in SUBSET (1..n) /\ 1..i # {}
      <4>1. \A i \in 1..n : i \in 1..i /\ \A j \in 1..i : j \in 1..n
        OBVIOUS
      <4> QED
        BY <4>1
    <3>4. \A i \in 1..n : Max(1..i) = i /\ (1..i) \ {Max(1..i)} = 1..(i - 1) /\ refs[i] = i
      BY <1>9, GreatestUpTo
    <3>5. Step({}) = start /\ \A i \in 1..n : Step(1..i) = LookAtAll(F[1..(i - 1)], i, lineages[i])
      BY <3>3, <3>4 DEF Step
    <3> QED
      BY <3>2, <3>3, <3>5
  <2>2. PICK h : Course(h, D, start, step, n) /\ \A i \in 0..n : h[i] = F[1..i]
    <3>1. F[{}] = start /\ \A i \in 1..n : F[1..(i - 1)] \in D => F[1..i] = step[i][F[1..(i - 1)]]
      BY <1>5, <2>1
    <3>2. step \in [1..n -> [D -> D]]
      BY <1>5
    <3>3. OnPrefixes(F, D, start, step, n)
      BY <3>1 DEF OnPrefixes
    <3> QED
      BY ONLY n \in Nat, <1>6, <3>2, <3>3, FoldOfPrefixes
  <2>3. /\ h \in [0..n -> D] /\ h[0] = start
        /\ \A i \in 1..n : h[i - 1] \in D /\ h[i] = LookAtAll(h[i - 1], i, lineages[i])
    <3>1. h \in [0..n -> D] /\ h[0] = start /\ \A i \in 1..n : h[i] = step[i][h[i - 1]]
      BY <2>2 DEF Course
    <3>2. \A i \in 1..n : i - 1 \in 0..n
      OBVIOUS
    <3>3. \A i \in 1..n : h[i - 1] \in D
      BY <3>1, <3>2
    <3> QED
      BY <1>5, <3>1, <3>3
  <2>4. PICK A : A = {i \in 0..n : \A r \in 1..i : \A t \in ToSet(lineages[r]) : Linked(h[i], r, t)}
    OBVIOUS
  <2>5. 0 \in A
    BY <2>4
  <2>6. ASSUME NEW i \in 1..n, i - 1 \in A PROVE i \in A
    <3>1. PICK x, y : x = h[i - 1] /\ y = h[i]
      OBVIOUS
    <3>2. x \in D /\ y = LookAtAll(x, i, lineages[i])
      BY <2>3, <3>1
    <3>3. /\ \A t \in ToSet(lineages[i]) : Linked(y, i, t)
          /\ \A r \in 1..n : \A t : Linked(x, r, t) => Linked(y, r, t)
      BY <1>4, <3>2
    <3>4. \A r \in 1..(i - 1) : \A t \in ToSet(lineages[r]) : Linked(x, r, t)
      BY <2>4, <2>6, <3>1
    <3>5. \A r \in 1..i : r = i \/ (r \in 1..(i - 1) /\ r \in 1..n)
      OBVIOUS
    <3>6. \A r \in 1..i : \A t \in ToSet(lineages[r]) : Linked(y, r, t)
      BY <3>3, <3>4, <3>5
    <3>7. i \in 0..n
      OBVIOUS
    <3> QED
      BY <2>4, <3>1, <3>6, <3>7
  <2>7. \A i \in 0..n : i \in A
    BY <2>5, <2>6, UpTo
  <2>8. n \in 0..n
    OBVIOUS
  <2>9. HeardOk(lineages, n, h[n])
    BY <1>2, <2>3, <2>8
  <2>10. \A r \in 1..n : \A t \in ToSet(lineages[r]) : Linked(h[n], r, t)
    BY <2>4, <2>7, <2>8
  <2>11. h[n] = F[1..n]
    BY <2>2, <2>8
  <2> QED
    BY <2>9, <2>10, <2>11 DEF HeardAll
<1> QED
  BY <1>11, <1>12

LEMMA ClustersIs ==
  ASSUME NEW n \in Nat, NEW lineages, DOMAIN lineages = 1..n, Len(lineages) = n,
         \A r \in 1..n : \E m \in Nat : DOMAIN lineages[r] = 1..m
  PROVE  Clusters(lineages) = {Component(lineages, r) : r \in 1..n}
<1>1. PICK refs, start : refs = [r \in 1..n |-> r] /\ start = [forest |-> refs, fingerprints |-> <<>>]
  OBVIOUS
<1>2. HeardOk(lineages, n, start)
  BY <1>1, StartHeard
<1> DEFINE chosen == CHOOSE F : ClusterFold(F, lineages, start, refs)
<1>3. ClusterFold(chosen, lineages, start, refs)
  BY <1>1, <1>2, AllHeard
<1> HIDE DEF chosen
<1>4. PICK F, end : F = chosen /\ end = F[1..n]
  OBVIOUS
<1>5. HeardAll(lineages, n, end)
  BY <1>1, <1>2, <1>3, <1>4, AllHeard
<1>6. DOMAIN refs = 1..n /\ refs = [r \in DOMAIN lineages |-> r]
  BY <1>1
<1>7. end = FoldLeft(LAMBDA s, r : LookAtAll(s, r, lineages[r]), start, refs)
  <2>1. FoldLeft(LAMBDA s, r : LookAtAll(s, r, lineages[r]), start, refs) = chosen[DOMAIN refs]
    BY Zenon DEF FoldLeft, MapThenFoldSet, ClusterFold, chosen
  <2> QED
    BY <1>4, <1>6, <2>1, Zenon
<1>8. PICK root : Forest(n, end.forest, root) /\ Respects(lineages, n, root)
  BY <1>5 DEF HeardAll, HeardOk
<1>9. root \in [1..n -> 1..n] /\ \A r \in 1..n : RootOf(end.forest, r).at = root[r]
  <2>1. Forest(n, end.forest, root)
    BY <1>8
  <2>2. \A r \in 1..n : RootOf(end.forest, r).at = root[r]
    BY <2>1, RootIs
  <2>3. root \in [1..n -> 1..n]
    BY <2>1 DEF Forest
  <2> QED
    BY <2>2, <2>3
<1>10. PICK at : at = [r \in DOMAIN lineages |-> RootOf(end.forest, r).at]
  OBVIOUS
<1>11. at = root
  BY <1>9, <1>10
<1>12. Clusters(lineages) = {{s \in DOMAIN lineages : at[s] = at[r]} : r \in DOMAIN lineages}
  <2>1. Clusters(lineages) =
          {{s \in DOMAIN lineages : [q \in DOMAIN lineages |-> RootOf(end.forest, q).at][s] = [q \in DOMAIN lineages |-> RootOf(end.forest, q).at][r]}
             : r \in DOMAIN lineages}
    <3>1. end = FoldLeft(LAMBDA s, r : LookAtAll(s, r, lineages[r]),
                         [forest |-> [r \in DOMAIN lineages |-> r], fingerprints |-> <<>>], [r \in DOMAIN lineages |-> r])
      BY <1>1, <1>6, <1>7, Zenon
    <3> QED
      BY <3>1, Zenon DEF Clusters
  <2> QED
    BY <1>10, <2>1
<1>13. ASSUME NEW r \in 1..n PROVE {s \in 1..n : root[s] = root[r]} = Component(lineages, r)
  <2>1. PICK C, E : C = Component(lineages, r) /\ E = {s \in 1..n : root[s] = root[r]}
    OBVIOUS
  <2>2. /\ r \in C /\ C \in SUBSET (1..n) /\ Separate(lineages, n, C)
        /\ \A S \in SUBSET (1..n) : r \in S /\ Separate(lineages, n, S) => C \subseteq S
    BY <2>1, ComponentIs
  <2>3. Separate(lineages, n, E)
    <3> SUFFICES ASSUME NEW x \in E, NEW y \in 1..n, NEW t \in ToSet(lineages[y]) \cap ToSet(lineages[x]) PROVE y \in E
      BY DEF Separate
    <3>1. x \in 1..n /\ root[x] = root[r]
      BY <2>1
    <3>2. Linked(end, x, t) /\ Linked(end, y, t)
      BY <1>5, <3>1 DEF HeardAll
    <3>3. RootOf(end.forest, x).at = RootOf(end.forest, y).at
      BY <3>2 DEF Linked
    <3>4. root[x] = root[y]
      BY <1>9, <3>1, <3>3
    <3> QED
      BY <2>1, <3>1, <3>4
  <2>4. C \subseteq E
    BY <2>1, <2>2, <2>3
  <2>5. \A z \in 1..n : z \in C <=> root[z] \in C
    BY <1>8, <2>2 DEF Respects
  <2>6. E \subseteq C
    BY <2>1, <2>2, <2>5
  <2> QED
    BY <2>1, <2>4, <2>6
<1>14. \A r \in DOMAIN lineages : {s \in DOMAIN lineages : at[s] = at[r]} = Component(lineages, r)
  BY <1>11, <1>13
<1>15. \A r \in 1..n : {s \in DOMAIN lineages : at[s] = at[r]} = Component(lineages, r)
  BY <1>14
<1>16. {{s \in DOMAIN lineages : at[s] = at[r]} : r \in DOMAIN lineages} = {Component(lineages, r) : r \in 1..n}
  <2> DEFINE Class(r) == {s \in DOMAIN lineages : at[s] = at[r]}
  <2>1. \A r \in 1..n : Class(r) = Component(lineages, r)
    BY <1>15
  <2> HIDE DEF Class
  <2>2. {Class(r) : r \in DOMAIN lineages} = {Component(lineages, r) : r \in 1..n}
    BY <2>1
  <2> QED
    BY <2>2 DEF Class
<1> QED
  BY <1>12, <1>16

(* Evidence counts as one exactly if a chain of shared tokens connects it, *)
(* for any lineages, whatever the order of their tokens.                   *)
THEOREM ClustersTheorem == Spec => []ClustersAreComponents
<1>1. AnswersInv => ClustersAreComponents
  <2> SUFFICES ASSUME AnswersInv, answer.to = "clusters" PROVE ClustersAreComponents
    BY DEF ClustersAreComponents
  <2>1. PICK lineages, n : lineages = input.lineages /\ n = Refs
    OBVIOUS
  <2>2. lineages \in [1..n -> Lists] /\ answer.is = Clusters(lineages)
    BY <2>1 DEF AnswersInv, ClustersInv
  <2>3. n \in Nat /\ Cardinality(Tokens) \in Nat
    BY <2>1, RefsAssumption, FS_CardinalityType
  <2>4. \A l \in Lists : \E m \in Nat : DOMAIN l = 1..m
    BY <2>3 DEF Lists
  <2>5. DOMAIN lineages = 1..n /\ Len(lineages) = n /\ \A r \in 1..n : \E m \in Nat : DOMAIN lineages[r] = 1..m
    BY <2>2, <2>3, <2>4
  <2>6. Clusters(lineages) = {Component(lineages, r) : r \in 1..n}
    BY <2>3, <2>5, ClustersIs
  <2> QED
    BY <2>1, <2>2, <2>6 DEF ClustersAreComponents
<1> QED
  BY <1>1, AnswersStart, AnswersStay, ScopesStart, ScopesStay, PTL DEF Spec
---------------------------------------------------------------------------
(* Sums over finite sets, for the networks.                                *)

(* What passes from the proper subsets of a set to the set holds of all.   *)
LEMMA SubsetsUpTo ==
  ASSUME NEW S, IsFiniteSet(S), NEW P,
         \A s \in SUBSET S : (\A t \in SUBSET s : t # s => t \in P) => s \in P
  PROVE  \A s \in SUBSET S : s \in P
<1> DEFINE Sizes == {Cardinality(s) : s \in {t \in SUBSET S : t \notin P}}
<1>1. \A s \in SUBSET S : IsFiniteSet(s) /\ Cardinality(s) \in Nat
  BY FS_Subset, FS_CardinalityType
<1> SUFFICES ASSUME NEW u \in SUBSET S, u \notin P PROVE FALSE
  OBVIOUS
<1>2. Sizes \in SUBSET Nat /\ Sizes # {}
  BY <1>1
<1>3. PICK m \in Sizes : \A k \in Sizes : m <= k
  BY <1>2, LeastNatural
<1>4. PICK s \in SUBSET S : s \notin P /\ Cardinality(s) = m
  BY <1>3
<1>5. ASSUME NEW t \in SUBSET s, t # s PROVE t \in P
  <2>1. t \in SUBSET S
    BY <1>5
  <2>2. Cardinality(t) < Cardinality(s)
    <3>1. IsFiniteSet(s) /\ t \subseteq s /\ t # s
      BY <1>1, <1>5
    <3>2. Cardinality(t) <= Cardinality(s) /\ (Cardinality(t) = Cardinality(s) => t = s)
      BY <3>1, FS_Subset
    <3> QED
      BY <1>1, <2>1, <3>1, <3>2
  <2>3. Cardinality(t) \notin Sizes
    <3> SUFFICES ASSUME Cardinality(t) \in Sizes PROVE FALSE
      OBVIOUS
    <3>1. Cardinality(s) <= Cardinality(t)
      BY <1>3, <1>4
    <3> QED
      BY <1>1, <2>1, <2>2, <3>1
  <2> QED
    BY <2>1, <2>3
<1> QED
  BY <1>4, <1>5

LEMMA SubsetsGrow ==
  ASSUME NEW S, IsFiniteSet(S), NEW P, {} \in P,
         \A s \in SUBSET S : \A x \in S \ s : s \in P => s \cup {x} \in P
  PROVE  S \in P
<1>1. ASSUME NEW s \in SUBSET S, \A t \in SUBSET s : t # s => t \in P PROVE s \in P
  <2>1. CASE s = {}
    BY <2>1
  <2>2. CASE s # {}
    <3>1. PICK x \in s : TRUE
      BY <2>2
    <3>2. s \ {x} \in P /\ s \ {x} \in SUBSET S /\ x \in S \ (s \ {x})
      BY <1>1, <3>1
    <3>3. (s \ {x}) \cup {x} \in P
      BY <3>2
    <3>4. (s \ {x}) \cup {x} = s
      BY <3>1
    <3> QED
      BY <3>3, <3>4
  <2> QED
    BY <2>1, <2>2
<1>2. \A s \in SUBSET S : s \in P
  BY <1>1, SubsetsUpTo
<1> QED
  BY <1>2

(* The sums of the subsets: in whatever order they are taken.              *)
SumsOf(F, f, S) ==
    /\ F \in [SUBSET S -> Int]
    /\ F[{}] = 0
    /\ \A s \in SUBSET S : \A x \in s : F[s] = f[x] + F[s \ {x}]

SumFold(F, f, S) ==
    F = [d \in SUBSET S |-> IF d = {} THEN 0 ELSE f[CHOOSE x \in d : TRUE] + F[d \ {CHOOSE x \in d : TRUE}]]

LEMMA AnyOrder ==
  ASSUME NEW S, IsFiniteSet(S), NEW f, \A x \in S : f[x] \in Int,
         NEW pick, \A s \in SUBSET S : s # {} => pick[s] \in s,
         NEW F, F \in [SUBSET S -> Int], F[{}] = 0,
         \A s \in SUBSET S : s # {} => F[s] = f[pick[s]] + F[s \ {pick[s]}]
  PROVE  SumsOf(F, f, S)
<1>1. PICK P : P = {s \in SUBSET S : \A x \in s : F[s] = f[x] + F[s \ {x}]}
  OBVIOUS
<1>2. ASSUME NEW s \in SUBSET S, \A t \in SUBSET s : t # s => t \in P PROVE s \in P
  <2>1. ASSUME NEW x \in s PROVE F[s] = f[x] + F[s \ {x}]
    <3>1. PICK y : y = pick[s]
      OBVIOUS
    <3>2. y \in s /\ F[s] = f[y] + F[s \ {y}]
      BY <3>1
    <3>3. CASE x = y
      BY <3>2, <3>3
    <3>4. CASE x # y
      <4>1. PICK a, b, c : a = s \ {y} /\ b = s \ {x} /\ c = (s \ {x}) \ {y}
        OBVIOUS
      <4>2. /\ a \in SUBSET s /\ a # s /\ x \in a /\ a \ {x} = c
            /\ b \in SUBSET s /\ b # s /\ y \in b /\ b \ {y} = c
        BY <3>2, <3>4, <4>1
      <4>3. a \in P /\ b \in P
        BY <1>2, <4>2
      <4>4. F[a] = f[x] + F[c] /\ F[b] = f[y] + F[c]
        BY <1>1, <4>2, <4>3
      <4>5. f[x] \in Int /\ f[y] \in Int /\ F[c] \in Int
        BY <3>2, <4>1
      <4> QED
        BY <3>2, <4>1, <4>4, <4>5
    <3> QED
      BY <3>3, <3>4
  <2> QED
    BY <1>1, <2>1
<1>3. \A s \in SUBSET S : s \in P
  BY <1>2, SubsetsUpTo
<1> QED
  BY <1>1, <1>3 DEF SumsOf

(* Sums do not depend on what they are recursively defined on.             *)
LEMMA SameSums ==
  ASSUME NEW S, IsFiniteSet(S), NEW f, NEW F, SumsOf(F, f, S), NEW T \in SUBSET S, NEW G, SumsOf(G, f, T)
  PROVE  \A s \in SUBSET T : G[s] = F[s]
<1>1. PICK P : P = {s \in SUBSET T : G[s] = F[s]}
  OBVIOUS
<1>2. IsFiniteSet(T)
  BY FS_Subset
<1>3. ASSUME NEW s \in SUBSET T, \A t \in SUBSET s : t # s => t \in P PROVE s \in P
  <2>1. CASE s = {}
    BY <1>1, <2>1 DEF SumsOf
  <2>2. CASE s # {}
    <3>1. PICK x \in s : TRUE
      BY <2>2
    <3>2. s \ {x} \in P
      BY <1>3, <3>1
    <3>3. G[s \ {x}] = F[s \ {x}]
      BY <1>1, <3>2
    <3>4. G[s] = f[x] + G[s \ {x}] /\ F[s] = f[x] + F[s \ {x}]
      BY <3>1 DEF SumsOf
    <3> QED
      BY <1>1, <3>3, <3>4
  <2> QED
    BY <2>1, <2>2
<1>4. \A s \in SUBSET T : s \in P
  BY <1>2, <1>3, SubsetsUpTo
<1> QED
  BY <1>1, <1>4

LEMMA SumIs ==
  ASSUME NEW S, IsFiniteSet(S), NEW f, \A x \in S : f[x] \in Int
  PROVE  \E F : SumsOf(F, f, S) /\ SumFunctionOnSet(f, S) = F[S]
<1>1. PICK pick : pick = [s \in SUBSET S |-> CHOOSE x \in s : TRUE]
  OBVIOUS
<1>2. \A s \in SUBSET S : s # {} => pick[s] \in s
  BY <1>1
<1>3. PICK step : step = [x \in S |-> [y \in Int |-> f[x] + y]]
  OBVIOUS
<1>4. step \in [S -> [Int -> Int]] /\ \A x \in S : \A y \in Int : step[x][y] = f[x] + y
  BY <1>3
<1>5. PICK F0 : FoldOf(F0, S, pick, Int, 0, step)
  <2>1. 0 \in Int
    OBVIOUS
  <2> QED
    BY <1>2, <1>4, <2>1, FoldExists
<1>6. F0 \in [SUBSET S -> Int] /\ F0[{}] = 0 /\ \A s \in SUBSET S : s # {} => F0[s] = f[pick[s]] + F0[s \ {pick[s]}]
  <2>1. /\ F0 \in [SUBSET S -> Int] /\ F0[{}] = 0
        /\ \A s \in SUBSET S : s # {} => F0[s] = step[pick[s]][F0[s \ {pick[s]}]]
    BY <1>5 DEF FoldOf
  <2>2. \A s \in SUBSET S : F0[s \ {pick[s]}] \in Int
    BY <2>1
  <2>3. \A s \in SUBSET S : s # {} => pick[s] \in S
    BY <1>2
  <2> QED
    BY <1>4, <2>1, <2>2, <2>3
<1>7. SumFold(F0, f, S)
  <2>1. \A d \in SUBSET S : F0[d] = IF d = {} THEN 0 ELSE f[CHOOSE x \in d : TRUE] + F0[d \ {CHOOSE x \in d : TRUE}]
    BY <1>1, <1>6
  <2> QED
    BY <1>6, <2>1 DEF SumFold
<1> DEFINE chosen == CHOOSE F : SumFold(F, f, S)
<1>8. SumFold(chosen, f, S)
  BY <1>7
<1>9. SumFunctionOnSet(f, S) = chosen[S]
  BY Zenon DEF SumFunctionOnSet, FoldFunctionOnSet, MapThenFoldSet, SumFold, chosen
<1> HIDE DEF chosen
<1>10. PICK F : F = chosen
  OBVIOUS
<1>11. \A d \in SUBSET S : F[d] = IF d = {} THEN 0 ELSE f[pick[d]] + F[d \ {pick[d]}]
  <2>1. F = [d \in SUBSET S |-> IF d = {} THEN 0 ELSE f[CHOOSE x \in d : TRUE] + F[d \ {CHOOSE x \in d : TRUE}]]
    BY <1>8, <1>10 DEF SumFold
  <2>2. \A d \in SUBSET S : F[d] = IF d = {} THEN 0 ELSE f[CHOOSE x \in d : TRUE] + F[d \ {CHOOSE x \in d : TRUE}]
    BY <2>1
  <2>3. \A d \in SUBSET S : pick[d] = CHOOSE x \in d : TRUE
    BY <1>1
  <2> QED
    BY <2>2, <2>3
<1>12. PICK P : P = {d \in SUBSET S : F[d] \in Int}
  OBVIOUS
<1>13. ASSUME NEW s \in SUBSET S, \A t \in SUBSET s : t # s => t \in P PROVE s \in P
  <2>1. CASE s = {}
    <3>1. F[s] = 0
      BY <1>11, <2>1
    <3> QED
      BY <1>12, <3>1
  <2>2. CASE s # {}
    <3>1. pick[s] \in s /\ s \ {pick[s]} \in SUBSET s /\ s \ {pick[s]} # s
      BY <1>2, <2>2
    <3>2. F[s \ {pick[s]}] \in Int /\ f[pick[s]] \in Int
      BY <1>12, <1>13, <3>1
    <3>3. F[s] = f[pick[s]] + F[s \ {pick[s]}]
      BY <1>11, <2>2
    <3>4. F[s] \in Int
      BY <3>2, <3>3
    <3> QED
      BY <1>12, <3>4
  <2> QED
    BY <2>1, <2>2
<1>14. \A s \in SUBSET S : s \in P
  BY <1>13, SubsetsUpTo
<1>15. F \in [SUBSET S -> Int] /\ F[{}] = 0
  <2>1. DOMAIN F = SUBSET S /\ F = [d \in SUBSET S |-> F[d]]
    BY <1>8, <1>10 DEF SumFold
  <2>2. \A d \in SUBSET S : F[d] \in Int
    BY <1>12, <1>14
  <2> QED
    BY <1>11, <2>1, <2>2
<1>16. SumsOf(F, f, S)
  BY <1>2, <1>11, <1>15, AnyOrder
<1> QED
  BY <1>9, <1>10, <1>16

LEMMA SumAdds ==
  ASSUME NEW S, IsFiniteSet(S), NEW f, \A y \in S : f[y] \in Int
  PROVE  /\ SumFunctionOnSet(f, {}) = 0
         /\ SumFunctionOnSet(f, S) \in Int
         /\ \A T \in SUBSET S : SumFunctionOnSet(f, T) \in Int
         /\ \A T \in SUBSET S : \A x \in S \ T :
              SumFunctionOnSet(f, T \cup {x}) = f[x] + SumFunctionOnSet(f, T)
<1>1. PICK F : SumsOf(F, f, S)
  BY SumIs
<1>2. ASSUME NEW T \in SUBSET S PROVE SumFunctionOnSet(f, T) = F[T]
  <2>1. IsFiniteSet(T) /\ \A y \in T : f[y] \in Int
    BY <1>2, FS_Subset
  <2>2. PICK G : SumsOf(G, f, T) /\ SumFunctionOnSet(f, T) = G[T]
    BY <2>1, SumIs
  <2>3. \A s \in SUBSET T : G[s] = F[s]
    BY <1>1, <2>2, SameSums
  <2> QED
    BY <2>2, <2>3
<1>3. F \in [SUBSET S -> Int] /\ F[{}] = 0 /\ \A s \in SUBSET S : \A x \in s : F[s] = f[x] + F[s \ {x}]
  BY <1>1 DEF SumsOf
<1>4. ASSUME NEW T \in SUBSET S, NEW x \in S \ T
      PROVE  SumFunctionOnSet(f, T \cup {x}) = f[x] + SumFunctionOnSet(f, T)
  <2>1. T \cup {x} \in SUBSET S /\ x \in T \cup {x} /\ (T \cup {x}) \ {x} = T
    OBVIOUS
  <2>2. F[T \cup {x}] = f[x] + F[(T \cup {x}) \ {x}]
    BY <1>3, <2>1
  <2> QED
    BY <1>2, <2>1, <2>2
<1>5. \A T \in SUBSET S : SumFunctionOnSet(f, T) \in Int
  BY <1>2, <1>3
<1>6. {} \in SUBSET S /\ S \in SUBSET S
  OBVIOUS
<1> QED
  BY <1>2, <1>3, <1>4, <1>5, <1>6

(* Sums are equal, or one at most the other, as their terms are.           *)
LEMMA SumAtMost ==
  ASSUME NEW S, IsFiniteSet(S), NEW f, NEW g, \A y \in S : f[y] \in Int /\ g[y] \in Int /\ f[y] <= g[y]
  PROVE  SumFunctionOnSet(f, S) <= SumFunctionOnSet(g, S)
<1>1. PICK P : P = {T \in SUBSET S : SumFunctionOnSet(f, T) <= SumFunctionOnSet(g, T)}
  OBVIOUS
<1>2. \A y \in S : f[y] \in Int
  OBVIOUS
<1>3. \A y \in S : g[y] \in Int
  OBVIOUS
<1>4. {} \in P
  BY <1>1, <1>2, <1>3, SumAdds
<1>5. ASSUME NEW T \in SUBSET S, NEW x \in S \ T, T \in P PROVE T \cup {x} \in P
  <2>1. PICK a, b, u, v : a = SumFunctionOnSet(f, T) /\ b = SumFunctionOnSet(g, T) /\ u = f[x] /\ v = g[x]
    OBVIOUS
  <2>2. a \in Int /\ SumFunctionOnSet(f, T \cup {x}) = u + a
    BY <1>2, <2>1, SumAdds
  <2>3. b \in Int /\ SumFunctionOnSet(g, T \cup {x}) = v + b
    BY <1>3, <2>1, SumAdds
  <2>4. u \in Int /\ v \in Int /\ u <= v /\ a <= b
    BY <1>1, <1>5, <2>1
  <2>5. u + a <= v + b
    BY ONLY <2>2, <2>3, <2>4
  <2> QED
    BY <1>1, <2>2, <2>3, <2>5
<1>6. S \in P
  BY <1>4, <1>5, SubsetsGrow
<1> QED
  BY <1>1, <1>6

LEMMA SumSame ==
  ASSUME NEW S, IsFiniteSet(S), NEW f, NEW g, \A y \in S : f[y] \in Int /\ g[y] = f[y]
  PROVE  SumFunctionOnSet(f, S) = SumFunctionOnSet(g, S)
<1>1. \A y \in S : f[y] \in Int /\ g[y] \in Int /\ f[y] <= g[y] /\ g[y] <= f[y]
  OBVIOUS
<1>2. SumFunctionOnSet(f, S) <= SumFunctionOnSet(g, S) /\ SumFunctionOnSet(g, S) <= SumFunctionOnSet(f, S)
  BY <1>1, SumAtMost
<1>3. SumFunctionOnSet(f, S) \in Int
  BY SumAdds
<1>4. SumFunctionOnSet(g, S) \in Int
  BY <1>1, SumAdds
<1> QED
  BY <1>2, <1>3, <1>4

LEMMA SumPlus ==
  ASSUME NEW S, IsFiniteSet(S), NEW f, NEW g, NEW h,
         \A y \in S : f[y] \in Int /\ g[y] \in Int /\ h[y] = f[y] + g[y]
  PROVE  SumFunctionOnSet(h, S) = SumFunctionOnSet(f, S) + SumFunctionOnSet(g, S)
<1>1. PICK P : P = {T \in SUBSET S : SumFunctionOnSet(h, T) = SumFunctionOnSet(f, T) + SumFunctionOnSet(g, T)}
  OBVIOUS
<1>2. \A y \in S : f[y] \in Int
  OBVIOUS
<1>3. \A y \in S : g[y] \in Int
  OBVIOUS
<1>4. \A y \in S : h[y] \in Int
  OBVIOUS
<1>5. {} \in P
  <2>1. SumFunctionOnSet(f, {}) = 0 /\ SumFunctionOnSet(g, {}) = 0 /\ SumFunctionOnSet(h, {}) = 0
    BY <1>2, <1>3, <1>4, SumAdds
  <2> QED
    BY <1>1, <2>1
<1>6. ASSUME NEW T \in SUBSET S, NEW x \in S \ T, T \in P PROVE T \cup {x} \in P
  <2>1. PICK a, b, c, u, v, w : /\ a = SumFunctionOnSet(f, T) /\ b = SumFunctionOnSet(g, T)
                                /\ c = SumFunctionOnSet(h, T) /\ u = f[x] /\ v = g[x] /\ w = h[x]
    OBVIOUS
  <2>2. a \in Int /\ SumFunctionOnSet(f, T \cup {x}) = u + a
    BY <1>2, <2>1, SumAdds
  <2>3. b \in Int /\ SumFunctionOnSet(g, T \cup {x}) = v + b
    BY <1>3, <2>1, SumAdds
  <2>4. c \in Int /\ SumFunctionOnSet(h, T \cup {x}) = w + c
    BY <1>4, <2>1, SumAdds
  <2>5. u \in Int /\ v \in Int /\ w = u + v /\ c = a + b
    BY <1>1, <1>6, <2>1
  <2>6. w + c = (u + a) + (v + b)
    BY ONLY <2>2, <2>3, <2>4, <2>5
  <2> QED
    BY <1>1, <2>2, <2>3, <2>4, <2>6
<1>7. S \in P
  BY <1>5, <1>6, SubsetsGrow
<1> QED
  BY <1>1, <1>7

LEMMA SumZero ==
  ASSUME NEW S, IsFiniteSet(S), NEW f, \A y \in S : f[y] = 0
  PROVE  SumFunctionOnSet(f, S) = 0
<1>1. \A y \in S : f[y] \in Int /\ f[y] \in Int /\ f[y] = f[y] + f[y]
  OBVIOUS
<1>2. SumFunctionOnSet(f, S) = SumFunctionOnSet(f, S) + SumFunctionOnSet(f, S)
  BY <1>1, SumPlus
<1>3. SumFunctionOnSet(f, S) \in Int
  BY <1>1, SumAdds
<1>4. PICK a : a = SumFunctionOnSet(f, S)
  OBVIOUS
<1>5. a \in Int /\ a = a + a
  BY <1>2, <1>3, <1>4
<1>6. a = 0
  BY ONLY <1>5
<1> QED
  BY <1>4, <1>6

LEMMA SumUnion ==
  ASSUME NEW S, IsFiniteSet(S), NEW T, IsFiniteSet(T), S \cap T = {},
         NEW f, \A y \in S \cup T : f[y] \in Int
  PROVE  SumFunctionOnSet(f, S \cup T) = SumFunctionOnSet(f, S) + SumFunctionOnSet(f, T)
<1>1. PICK P : P = {U \in SUBSET S : SumFunctionOnSet(f, U \cup T) = SumFunctionOnSet(f, U) + SumFunctionOnSet(f, T)}
  OBVIOUS
<1>2. PICK A : A = S \cup T
  OBVIOUS
<1>3. IsFiniteSet(A) /\ \A y \in A : f[y] \in Int
  BY <1>2, FS_Union
<1>4. /\ SumFunctionOnSet(f, {}) = 0
      /\ \A U \in SUBSET A : SumFunctionOnSet(f, U) \in Int
      /\ \A U \in SUBSET A : \A x \in A \ U : SumFunctionOnSet(f, U \cup {x}) = f[x] + SumFunctionOnSet(f, U)
  BY <1>3, SumAdds
<1>5. {} \in P
  <2>1. {} \cup T = T /\ T \in SUBSET A
    BY <1>2
  <2> QED
    BY <1>1, <1>4, <2>1
<1>6. ASSUME NEW U \in SUBSET S, NEW x \in S \ U, U \in P PROVE U \cup {x} \in P
  <2>1. U \in SUBSET A /\ U \cup T \in SUBSET A /\ T \in SUBSET A /\ x \in A \ U /\ x \in A \ (U \cup T)
    BY <1>2
  <2>2. PICK a, b, c, u : /\ a = SumFunctionOnSet(f, U) /\ b = SumFunctionOnSet(f, T)
                          /\ c = SumFunctionOnSet(f, U \cup T) /\ u = f[x]
    OBVIOUS
  <2>3. SumFunctionOnSet(f, U \cup {x}) = u + a /\ SumFunctionOnSet(f, (U \cup T) \cup {x}) = u + c
    BY <1>4, <2>1, <2>2
  <2>4. a \in Int /\ b \in Int /\ u \in Int /\ c = a + b
    BY <1>1, <1>3, <1>4, <1>6, <2>1, <2>2
  <2>5. u + c = (u + a) + b
    BY ONLY <2>4
  <2>6. (U \cup T) \cup {x} = (U \cup {x}) \cup T /\ U \cup {x} \in SUBSET S
    OBVIOUS
  <2>7. SumFunctionOnSet(f, (U \cup {x}) \cup T) = SumFunctionOnSet(f, U \cup {x}) + SumFunctionOnSet(f, T)
    BY <2>2, <2>3, <2>5, <2>6
  <2> QED
    BY <1>1, <2>6, <2>7
<1>7. S \in P
  BY <1>5, <1>6, SubsetsGrow
<1> QED
  BY <1>1, <1>7

(* The terms may be named differently.                                     *)
LEMMA SumRenamed ==
  ASSUME NEW S, IsFiniteSet(S), NEW m, \A x, y \in S : m[x] = m[y] => x = y,
         NEW f, NEW g, \A x \in S : f[x] \in Int /\ g[m[x]] = f[x]
  PROVE  SumFunctionOnSet(g, {m[x] : x \in S}) = SumFunctionOnSet(f, S)
<1>1. PICK T : T = {m[x] : x \in S}
  OBVIOUS
<1>2. IsFiniteSet(T)
  <2>1. PICK h : h = [x \in S |-> m[x]]
    OBVIOUS
  <2>2. h \in Surjection(S, T)
    BY <1>1, <2>1 DEF Surjection
  <2> QED
    BY <2>2, FS_Surjection DEF ExistsSurjection
<1>3. (\A x \in S : f[x] \in Int) /\ (\A y \in T : g[y] \in Int)
  BY <1>1
<1>4. PICK P : P = {U \in SUBSET S : SumFunctionOnSet(g, {m[x] : x \in U}) = SumFunctionOnSet(f, U)}
  OBVIOUS
<1>5. {} \in P
  <2>1. {m[x] : x \in {}} = {}
    OBVIOUS
  <2>2. SumFunctionOnSet(g, {}) = 0 /\ SumFunctionOnSet(f, {}) = 0
    BY <1>2, <1>3, SumAdds
  <2> QED
    BY <1>4, <2>1, <2>2
<1>6. ASSUME NEW U \in SUBSET S, NEW x \in S \ U, U \in P PROVE U \cup {x} \in P
  <2>1. PICK V : V = {m[y] : y \in U}
    OBVIOUS
  <2>2. V \in SUBSET T /\ m[x] \in T \ V /\ {m[y] : y \in U \cup {x}} = V \cup {m[x]}
    BY <1>1, <2>1
  <2>3. SumFunctionOnSet(g, V \cup {m[x]}) = g[m[x]] + SumFunctionOnSet(g, V)
    BY <1>2, <1>3, <2>2, SumAdds
  <2>4. SumFunctionOnSet(f, U \cup {x}) = f[x] + SumFunctionOnSet(f, U)
    BY <1>3, SumAdds
  <2>5. SumFunctionOnSet(g, V) = SumFunctionOnSet(f, U)
    BY <1>4, <1>6, <2>1
  <2>6. U \cup {x} \in SUBSET S /\ g[m[x]] = f[x]
    OBVIOUS
  <2> QED
    BY <1>4, <2>2, <2>3, <2>4, <2>5, <2>6
<1>7. S \in P
  BY <1>5, <1>6, SubsetsGrow
<1> QED
  BY <1>4, <1>7

(* All terms but one are 0.                                                *)
LEMMA SumOfOne ==
  ASSUME NEW S, IsFiniteSet(S), NEW x \in S, NEW f, f[x] \in Int, \A y \in S \ {x} : f[y] = 0
  PROVE  SumFunctionOnSet(f, S) = f[x]
<1>1. PICK R : R = S \ {x}
  OBVIOUS
<1>2. R \in SUBSET S /\ x \in S \ R /\ R \cup {x} = S /\ IsFiniteSet(R)
  BY <1>1, FS_Subset
<1>3. \A y \in S : f[y] \in Int
  OBVIOUS
<1>4. SumFunctionOnSet(f, R \cup {x}) = f[x] + SumFunctionOnSet(f, R)
  BY <1>2, <1>3, SumAdds
<1>5. SumFunctionOnSet(f, R) = 0
  BY <1>1, <1>2, SumZero
<1>6. PICK a, b : a = f[x] /\ b = SumFunctionOnSet(f, R)
  OBVIOUS
<1>7. a \in Int /\ b = 0
  BY <1>5, <1>6
<1>8. a + b = a
  BY ONLY <1>7
<1> QED
  BY <1>2, <1>4, <1>6, <1>8
---------------------------------------------------------------------------
(* Flows and cuts.  c is the capacity on all pairs of nodes, r the room    *)
(* that is left: what a pair lost the opposite pair has gained, and what   *)
(* leaves a node has lost the total at the source, nothing elsewhere.      *)
Back(e) == <<e[2], e[1]>>

Pairs(A) == A \X A
From(N, A) == A \X N
Across(N, A) == A \X (N \ A)

OnPairs(N, c) == c \in [Pairs(N) -> Nat]

Roomy(N, c, r) ==
    /\ OnPairs(N, r)
    /\ \A e \in Pairs(N) : r[e] + r[Back(e)] = c[e] + c[Back(e)]

Spends(N, c, r, n, amount) ==
    SumFunctionOnSet(c, From(N, {n})) = SumFunctionOnSet(r, From(N, {n})) + amount

FlowOk(N, c, r, total, source, sink) ==
    /\ Roomy(N, c, r)
    /\ total \in Nat
    /\ \A n \in N \ {sink} : Spends(N, c, r, n, IF n = source THEN total ELSE 0)

LEMMA PairsFinite ==
  ASSUME NEW N, IsFiniteSet(N), NEW S, S \subseteq Pairs(N)
  PROVE  IsFiniteSet(S)
<1>1. IsFiniteSet(Pairs(N))
  BY FS_Product DEF Pairs
<1> QED
  BY <1>1, FS_Subset

LEMMA AllPairs ==
  ASSUME NEW N, NEW c, OnPairs(N, c)
  PROVE  \A e \in Pairs(N) : c[e] \in Nat /\ c[e] \in Int
BY DEF OnPairs

LEMMA BackIs ==
  ASSUME NEW A, NEW e \in Pairs(A)
  PROVE  Back(e) \in Pairs(A) /\ Back(Back(e)) = e /\ e = <<e[1], e[2]>>
BY DEF Back, Pairs

LEMMA SumBack ==
  ASSUME NEW A, IsFiniteSet(A), NEW f, \A e \in Pairs(A) : f[e] \in Int,
         NEW g, \A e \in Pairs(A) : g[e] = f[Back(e)]
  PROVE  SumFunctionOnSet(g, Pairs(A)) = SumFunctionOnSet(f, Pairs(A))
<1>1. PICK S, m : S = Pairs(A) /\ m = [e \in S |-> Back(e)]
  OBVIOUS
<1>2. IsFiniteSet(S)
  BY <1>1, PairsFinite
<1>3. \A e \in S : Back(e) \in S /\ Back(Back(e)) = e
  BY <1>1, BackIs
<1>4. {m[x] : x \in S} = S
  <2>1. \A x \in S : m[x] = Back(x)
    BY <1>1
  <2>2. \A y \in S : m[Back(y)] = y /\ Back(y) \in S
    BY <1>3, <2>1
  <2>3. \A x \in S : m[x] \in S
    BY <1>3, <2>1
  <2> QED
    BY <2>2, <2>3
<1>5. \A x, y \in S : m[x] = m[y] => x = y
  <2>1. \A x \in S : m[x] = Back(x) /\ Back(m[x]) = x
    BY <1>1, <1>3
  <2> QED
    BY <2>1
<1>6. \A x \in S : f[x] \in Int /\ g[m[x]] = f[x]
  <2>1. \A x \in S : m[x] = Back(x) /\ m[x] \in S
    BY <1>1, <1>3
  <2>2. \A x \in S : g[m[x]] = f[Back(m[x])]
    BY <1>1, <2>1
  <2> QED
    BY <1>1, <1>3, <2>1, <2>2
<1>7. SumFunctionOnSet(g, {m[x] : x \in S}) = SumFunctionOnSet(f, S)
  BY <1>2, <1>5, <1>6, SumRenamed
<1> QED
  BY <1>1, <1>4, <1>7

(* Within a set of nodes, room is only moved.                              *)
LEMMA RoomWithin ==
  ASSUME NEW N, IsFiniteSet(N), NEW c, OnPairs(N, c), NEW r, Roomy(N, c, r), NEW A \in SUBSET N
  PROVE  SumFunctionOnSet(c, Pairs(A)) = SumFunctionOnSet(r, Pairs(A))
<1>1. PICK S, cb, rb, h : /\ S = Pairs(A) /\ cb = [e \in S |-> c[Back(e)]] /\ rb = [e \in S |-> r[Back(e)]]
                          /\ h = [e \in S |-> c[e] + cb[e]]
  OBVIOUS
<1>2. IsFiniteSet(A) /\ IsFiniteSet(S)
  BY <1>1, FS_Subset, PairsFinite
<1>3. ASSUME NEW e \in S
      PROVE  /\ c[e] \in Int /\ r[e] \in Int /\ cb[e] \in Int /\ rb[e] \in Int
             /\ cb[e] = c[Back(e)] /\ rb[e] = r[Back(e)]
             /\ h[e] = c[e] + cb[e] /\ h[e] = r[e] + rb[e]
  <2>1. e \in Pairs(N) /\ Back(e) \in Pairs(N)
    <3>1. Back(e) \in S
      BY <1>1, BackIs
    <3> QED
      BY <1>1, <3>1 DEF Pairs
  <2>2. OnPairs(N, r) /\ r[e] + r[Back(e)] = c[e] + c[Back(e)]
    BY <2>1 DEF Roomy
  <2>4. c[e] \in Int /\ r[e] \in Int /\ c[Back(e)] \in Int /\ r[Back(e)] \in Int
    BY <2>1, <2>2, AllPairs
  <2>3. cb[e] = c[Back(e)] /\ rb[e] = r[Back(e)] /\ h[e] = c[e] + cb[e]
    BY <1>1
  <2> QED
    BY <1>1, <2>2, <2>3, <2>4
<1>4. SumFunctionOnSet(cb, S) = SumFunctionOnSet(c, S)
  <2>1. (\A e \in Pairs(A) : c[e] \in Int) /\ (\A e \in Pairs(A) : cb[e] = c[Back(e)])
    BY <1>1, <1>3
  <2> QED
    BY <1>1, <1>2, <2>1, SumBack
<1>5. SumFunctionOnSet(rb, S) = SumFunctionOnSet(r, S)
  <2>1. (\A e \in Pairs(A) : r[e] \in Int) /\ (\A e \in Pairs(A) : rb[e] = r[Back(e)])
    BY <1>1, <1>3
  <2> QED
    BY <1>1, <1>2, <2>1, SumBack
<1>6. SumFunctionOnSet(h, S) = SumFunctionOnSet(c, S) + SumFunctionOnSet(cb, S)
  <2>1. \A y \in S : c[y] \in Int /\ cb[y] \in Int /\ h[y] = c[y] + cb[y]
    BY <1>3
  <2> QED
    BY <1>2, <2>1, SumPlus
<1>7. SumFunctionOnSet(h, S) = SumFunctionOnSet(r, S) + SumFunctionOnSet(rb, S)
  <2>1. \A y \in S : r[y] \in Int /\ rb[y] \in Int /\ h[y] = r[y] + rb[y]
    BY <1>3
  <2> QED
    BY <1>2, <2>1, SumPlus
<1>8. PICK a, b : a = SumFunctionOnSet(c, S) /\ b = SumFunctionOnSet(r, S)
  OBVIOUS
<1>9. a + a = b + b
  BY <1>4, <1>5, <1>6, <1>7, <1>8
<1>10. a \in Int
  <2>1. \A y \in S : c[y] \in Int
    BY <1>3
  <2> QED
    BY <1>2, <1>8, <2>1, SumAdds
<1>11. b \in Int
  <2>1. \A y \in S : r[y] \in Int
    BY <1>3
  <2> QED
    BY <1>2, <1>8, <2>1, SumAdds
<1>12. a = b
  BY ONLY <1>9, <1>10, <1>11
<1> QED
  BY <1>1, <1>8, <1>12

(* Out of a set of nodes without the sink flows the total, or nothing.     *)
LEMMA SpentBySet ==
  ASSUME NEW N, IsFiniteSet(N), NEW c, OnPairs(N, c), NEW r, NEW total, NEW source, NEW sink,
         FlowOk(N, c, r, total, source, sink), NEW A \in SUBSET N, sink \notin A
  PROVE  SumFunctionOnSet(c, From(N, A)) = SumFunctionOnSet(r, From(N, A)) + (IF source \in A THEN total ELSE 0)
<1> DEFINE Amount(U) == IF source \in U THEN total ELSE 0
<1>1. PICK P : P = {U \in SUBSET A : SumFunctionOnSet(c, From(N, U)) = SumFunctionOnSet(r, From(N, U)) + Amount(U)}
  OBVIOUS
<1>2. OnPairs(N, r) /\ total \in Nat
  BY DEF FlowOk, Roomy
<1>3. IsFiniteSet(A)
  BY FS_Subset
<1>4. {} \in P
  <2>1. From(N, {}) = {} /\ Amount({}) = 0 /\ IsFiniteSet({})
    BY FS_EmptySet DEF From
  <2>2. SumFunctionOnSet(c, {}) = 0 /\ SumFunctionOnSet(r, {}) = 0
    BY <2>1, SumZero
  <2> HIDE DEF Amount
  <2> QED
    BY <1>1, <2>1, <2>2
<1>5. ASSUME NEW U \in SUBSET A, NEW x \in A \ U, U \in P PROVE U \cup {x} \in P
  <2>1. PICK X, Y : X = From(N, U) /\ Y = From(N, {x})
    OBVIOUS
  <2>2. X \cap Y = {} /\ From(N, U \cup {x}) = X \cup Y /\ X \subseteq Pairs(N) /\ Y \subseteq Pairs(N)
    BY <2>1 DEF From, Pairs
  <2>3. IsFiniteSet(X) /\ IsFiniteSet(Y)
    BY <2>2, PairsFinite
  <2>4. (\A y \in X \cup Y : c[y] \in Int) /\ (\A y \in X \cup Y : r[y] \in Int)
    BY <1>2, <2>2, AllPairs
  <2>5. /\ SumFunctionOnSet(c, X \cup Y) = SumFunctionOnSet(c, X) + SumFunctionOnSet(c, Y)
        /\ SumFunctionOnSet(r, X \cup Y) = SumFunctionOnSet(r, X) + SumFunctionOnSet(r, Y)
    BY <2>2, <2>3, <2>4, SumUnion
  <2>6. /\ SumFunctionOnSet(c, X) \in Int /\ SumFunctionOnSet(c, Y) \in Int
        /\ SumFunctionOnSet(r, X) \in Int /\ SumFunctionOnSet(r, Y) \in Int
    <3>1. /\ \A y \in X : c[y] \in Int
          /\ \A y \in Y : c[y] \in Int
          /\ \A y \in X : r[y] \in Int
          /\ \A y \in Y : r[y] \in Int
      BY <2>4
    <3> QED
      BY <2>3, <3>1, SumAdds
  <2>7. SumFunctionOnSet(c, Y) = SumFunctionOnSet(r, Y) + Amount({x})
    <3>1. x \in N \ {sink}
      OBVIOUS
    <3>2. Spends(N, c, r, x, IF x = source THEN total ELSE 0)
      BY <3>1 DEF FlowOk
    <3>3. Amount({x}) = IF x = source THEN total ELSE 0
      OBVIOUS
    <3> HIDE DEF Amount
    <3> QED
      BY <2>1, <3>2, <3>3 DEF Spends
  <2>8. SumFunctionOnSet(c, X) = SumFunctionOnSet(r, X) + Amount(U)
    <3> HIDE DEF Amount
    <3> QED
      BY <1>1, <1>5, <2>1
  <2>9. Amount(U \cup {x}) = Amount(U) + Amount({x}) /\ Amount(U) \in Int /\ Amount({x}) \in Int
    BY <1>2
  <2> HIDE DEF Amount
  <2>10. PICK a, b, d, e, u, v : /\ a = SumFunctionOnSet(c, X) /\ b = SumFunctionOnSet(c, Y)
                                 /\ d = SumFunctionOnSet(r, X) /\ e = SumFunctionOnSet(r, Y)
                                 /\ u = Amount(U) /\ v = Amount({x})
    OBVIOUS
  <2>11. a \in Int /\ b \in Int /\ d \in Int /\ e \in Int /\ u \in Int /\ v \in Int /\ a = d + u /\ b = e + v
    BY <2>6, <2>7, <2>8, <2>9, <2>10
  <2>12. a + b = (d + e) + (u + v)
    BY ONLY <2>11
  <2>13. SumFunctionOnSet(c, X \cup Y) = SumFunctionOnSet(r, X \cup Y) + Amount(U \cup {x})
    BY <2>5, <2>9, <2>10, <2>12
  <2> QED
    BY <1>1, <2>2, <2>13
<1> HIDE DEF Amount
<1>6. A \in P
  BY <1>3, <1>4, <1>5, SubsetsGrow
<1> QED
  BY <1>1, <1>6 DEF Amount

(* The total is what any cut has lost.                                     *)
LEMMA TotalAtCut ==
  ASSUME NEW N, IsFiniteSet(N), NEW c, OnPairs(N, c), NEW r, NEW total, NEW source, NEW sink,
         FlowOk(N, c, r, total, source, sink), NEW A \in SUBSET N, source \in A, sink \notin A
  PROVE  /\ SumFunctionOnSet(c, Across(N, A)) = SumFunctionOnSet(r, Across(N, A)) + total
         /\ SumFunctionOnSet(c, Across(N, A)) \in Int
         /\ SumFunctionOnSet(r, Across(N, A)) \in Int
<1>1. PICK X, Y : X = Pairs(A) /\ Y = Across(N, A)
  OBVIOUS
<1>2. X \cap Y = {} /\ From(N, A) = X \cup Y /\ X \subseteq Pairs(N) /\ Y \subseteq Pairs(N)
  BY <1>1 DEF From, Across, Pairs
<1>3. IsFiniteSet(X) /\ IsFiniteSet(Y)
  BY <1>2, PairsFinite
<1>4. Roomy(N, c, r) /\ OnPairs(N, r) /\ total \in Nat
  BY DEF FlowOk, Roomy
<1>5. (\A y \in X \cup Y : c[y] \in Int) /\ (\A y \in X \cup Y : r[y] \in Int)
  BY <1>2, <1>4, AllPairs
<1>6. /\ SumFunctionOnSet(c, X \cup Y) = SumFunctionOnSet(c, X) + SumFunctionOnSet(c, Y)
      /\ SumFunctionOnSet(r, X \cup Y) = SumFunctionOnSet(r, X) + SumFunctionOnSet(r, Y)
  BY <1>2, <1>3, <1>5, SumUnion
<1>7. /\ SumFunctionOnSet(c, X) \in Int /\ SumFunctionOnSet(c, Y) \in Int
      /\ SumFunctionOnSet(r, X) \in Int /\ SumFunctionOnSet(r, Y) \in Int
  <2>1. /\ \A y \in X : c[y] \in Int
        /\ \A y \in Y : c[y] \in Int
        /\ \A y \in X : r[y] \in Int
        /\ \A y \in Y : r[y] \in Int
    BY <1>5
  <2> QED
    BY <1>3, <2>1, SumAdds
<1>8. SumFunctionOnSet(c, X) = SumFunctionOnSet(r, X)
  <2>1. IsFiniteSet(N) /\ OnPairs(N, c) /\ Roomy(N, c, r) /\ A \in SUBSET N
    BY <1>4
  <2>2. SumFunctionOnSet(c, Pairs(A)) = SumFunctionOnSet(r, Pairs(A))
    BY <2>1, RoomWithin
  <2> QED
    BY <1>1, <2>2
<1>9. SumFunctionOnSet(c, X \cup Y) = SumFunctionOnSet(r, X \cup Y) + total
  <2>1. SumFunctionOnSet(c, From(N, A)) = SumFunctionOnSet(r, From(N, A)) + (IF source \in A THEN total ELSE 0)
    BY SpentBySet
  <2> QED
    BY ONLY source \in A, <1>2, <2>1
<1>10. PICK a, b, d, e : /\ a = SumFunctionOnSet(c, X) /\ b = SumFunctionOnSet(c, Y)
                         /\ d = SumFunctionOnSet(r, X) /\ e = SumFunctionOnSet(r, Y)
  OBVIOUS
<1>11. a \in Int /\ b \in Int /\ d \in Int /\ e \in Int /\ total \in Nat /\ a = d /\ a + b = (d + e) + total
  BY <1>4, <1>6, <1>7, <1>8, <1>9, <1>10
<1>12. b = e + total
  BY ONLY <1>11
<1> QED
  BY <1>1, <1>7, <1>10, <1>12

LEMMA SumNat ==
  ASSUME NEW S, IsFiniteSet(S), NEW f, \A y \in S : f[y] \in Nat
  PROVE  SumFunctionOnSet(f, S) \in Nat
<1>1. PICK zero : zero = [y \in S |-> 0]
  OBVIOUS
<1>2. \A y \in S : zero[y] = 0
  BY <1>1
<1>3. \A y \in S : zero[y] \in Int /\ f[y] \in Int /\ zero[y] <= f[y]
  BY <1>2
<1>4. SumFunctionOnSet(zero, S) = 0
  BY <1>2, SumZero
<1>5. SumFunctionOnSet(zero, S) <= SumFunctionOnSet(f, S)
  BY <1>3, SumAtMost
<1>6. \A y \in S : f[y] \in Int
  OBVIOUS
<1>7. SumFunctionOnSet(f, S) \in Int
  BY <1>6, SumAdds
<1>8. PICK a : a = SumFunctionOnSet(f, S)
  OBVIOUS
<1>9. a \in Int /\ 0 <= a
  BY <1>4, <1>5, <1>7, <1>8
<1> QED
  BY <1>8, <1>9

(* Terms that are left out are 0, or not.                                  *)
LEMMA SumOfPart ==
  ASSUME NEW S, IsFiniteSet(S), NEW f, \A y \in S : f[y] \in Nat, NEW T \in SUBSET S
  PROVE  /\ SumFunctionOnSet(f, T) <= SumFunctionOnSet(f, S)
         /\ (\A y \in S \ T : f[y] = 0) => SumFunctionOnSet(f, T) = SumFunctionOnSet(f, S)
         /\ SumFunctionOnSet(f, T) \in Nat /\ SumFunctionOnSet(f, S) \in Nat
<1>1. PICK R : R = S \ T
  OBVIOUS
<1>2. R \cap T = {} /\ T \cap R = {} /\ T \cup R = S /\ IsFiniteSet(R) /\ IsFiniteSet(T)
  BY <1>1, FS_Subset
<1>3. (\A y \in T : f[y] \in Nat) /\ (\A y \in R : f[y] \in Nat) /\ (\A y \in T \cup R : f[y] \in Int)
  BY <1>1
<1>4. SumFunctionOnSet(f, T \cup R) = SumFunctionOnSet(f, T) + SumFunctionOnSet(f, R)
  BY <1>2, <1>3, SumUnion
<1>5. SumFunctionOnSet(f, T) \in Nat /\ SumFunctionOnSet(f, R) \in Nat /\ SumFunctionOnSet(f, S) \in Nat
  BY <1>2, <1>3, SumNat
<1>6. PICK a, b, d : a = SumFunctionOnSet(f, T) /\ b = SumFunctionOnSet(f, R) /\ d = SumFunctionOnSet(f, S)
  OBVIOUS
<1>7. a \in Nat /\ b \in Nat /\ d \in Nat /\ d = a + b
  BY <1>2, <1>4, <1>5, <1>6
<1>8. a <= d /\ (b = 0 => a = d)
  BY ONLY <1>7
<1>9. (\A y \in S \ T : f[y] = 0) => b = 0
  BY <1>1, <1>2, <1>6, SumZero
<1> QED
  BY <1>6, <1>7, <1>8, <1>9

LEMMA LeastIs ==
  ASSUME NEW values, values \in SUBSET Int, NEW v \in values, \A w \in values : v <= w
  PROVE  LeastOf(values) = v
<1>1. \A u \in values : (\A w \in values : u <= w) => u = v
  BY SMT
<1> QED
  BY <1>1 DEF LeastOf

(* The capacity on all pairs of nodes.                                     *)
Extended(capacity, N) == [e \in Pairs(N) |-> IF e \in DOMAIN capacity THEN capacity[e] ELSE 0]

IsNetwork(capacity, N, source, sink) ==
    /\ IsFiniteSet(N) /\ N \subseteq Nat /\ source \in N /\ sink \in N /\ source # sink
    /\ DOMAIN capacity \subseteq Pairs(N)
    /\ \A e \in DOMAIN capacity : capacity[e] \in Nat /\ Back(e) \notin DOMAIN capacity

LEMMA ExtendedIs ==
  ASSUME NEW capacity, NEW N, NEW source, NEW sink, IsNetwork(capacity, N, source, sink), NEW c, c = Extended(capacity, N)
  PROVE  /\ OnPairs(N, c)
         /\ \A e \in DOMAIN capacity : c[e] = capacity[e] /\ e \in Pairs(N)
         /\ \A e \in Pairs(N) \ DOMAIN capacity : c[e] = 0
<1>1. \A e \in DOMAIN capacity : e \in Pairs(N) /\ capacity[e] \in Nat
  BY DEF IsNetwork
<1> QED
  BY <1>1 DEF Extended, OnPairs

LEMMA CutIs ==
  ASSUME NEW capacity, NEW N, NEW source, NEW sink, IsNetwork(capacity, N, source, sink), NEW c, c = Extended(capacity, N),
         NEW A \in SUBSET N
  PROVE  /\ CutCapacity(capacity, A) = SumFunctionOnSet(c, Across(N, A))
         /\ CutCapacity(capacity, A) \in Nat
         /\ CutCapacity(capacity, A) <= SumFunction(capacity)
         /\ SumFunction(capacity) \in Nat
<1>1. PICK E, X, Y : E = DOMAIN capacity /\ X = {e \in E : e[1] \in A /\ e[2] \notin A} /\ Y = Across(N, A)
  OBVIOUS
<1>2. E \subseteq Pairs(N) /\ \A e \in E : capacity[e] \in Nat
  BY <1>1 DEF IsNetwork
<1>3. IsFiniteSet(E) /\ IsFiniteSet(X) /\ IsFiniteSet(Y) /\ X \in SUBSET E /\ X \in SUBSET Y
  <2>1. IsFiniteSet(N)
    BY DEF IsNetwork
  <2>2. X \subseteq Y
    BY <1>1, <1>2 DEF Across, Pairs
  <2>3. Y \subseteq Pairs(N) /\ X \subseteq E
    BY <1>1 DEF Across, Pairs
  <2>4. IsFiniteSet(E) /\ IsFiniteSet(Y)
    BY <1>2, <2>1, <2>3, PairsFinite
  <2>5. IsFiniteSet(X)
    BY <2>2, <2>4, FS_Subset
  <2> QED
    BY <2>2, <2>3, <2>4, <2>5
<1>4. CutCapacity(capacity, A) = SumFunctionOnSet(capacity, X)
  BY <1>1 DEF CutCapacity
<1>5. /\ SumFunctionOnSet(capacity, X) <= SumFunctionOnSet(capacity, E)
      /\ SumFunctionOnSet(capacity, X) \in Nat /\ SumFunctionOnSet(capacity, E) \in Nat
  BY <1>2, <1>3, SumOfPart
<1>6. SumFunction(capacity) = SumFunctionOnSet(capacity, E)
  BY <1>1 DEF SumFunction
<1>7. OnPairs(N, c) /\ (\A e \in E : c[e] = capacity[e]) /\ (\A e \in Pairs(N) \ E : c[e] = 0)
  <2>1. /\ OnPairs(N, c)
        /\ \A e \in DOMAIN capacity : c[e] = capacity[e] /\ e \in Pairs(N)
        /\ \A e \in Pairs(N) \ DOMAIN capacity : c[e] = 0
    BY ExtendedIs
  <2> QED
    BY <1>1, <2>1
<1>8. SumFunctionOnSet(capacity, X) = SumFunctionOnSet(c, X)
  <2>1. \A y \in X : capacity[y] \in Int /\ c[y] = capacity[y]
    BY <1>2, <1>3, <1>7
  <2> QED
    BY <1>3, <2>1, SumSame
<1>9. SumFunctionOnSet(c, X) = SumFunctionOnSet(c, Y)
  <2>1. Y \subseteq Pairs(N)
    BY <1>1 DEF Across, Pairs
  <2>2. \A y \in Y : c[y] \in Nat
    BY <1>7, <2>1, AllPairs
  <2>3. \A y \in Y \ X : c[y] = 0
    <3>1. ASSUME NEW y \in Y, y \notin X PROVE y \notin E
      BY <1>1, <3>1 DEF Across
    <3> QED
      BY <1>7, <2>1, <3>1
  <2> QED
    BY <1>3, <2>2, <2>3, SumOfPart
<1> QED
  BY <1>1, <1>4, <1>5, <1>6, <1>8, <1>9

(* No flow is more than a cut, and one that fills a cut is maximal.        *)
LEMMA FlowWithinCut ==
  ASSUME NEW capacity, NEW N, NEW source, NEW sink, IsNetwork(capacity, N, source, sink), NEW c, c = Extended(capacity, N),
         NEW r, NEW total, FlowOk(N, c, r, total, source, sink), NEW A \in SUBSET N, source \in A, sink \notin A
  PROVE  /\ total <= CutCapacity(capacity, A)
         /\ (\A e \in Across(N, A) : r[e] = 0) => total = CutCapacity(capacity, A)
<1>1. IsFiniteSet(N) /\ OnPairs(N, c) /\ OnPairs(N, r) /\ total \in Nat
  BY ExtendedIs DEF IsNetwork, FlowOk, Roomy
<1>2. PICK Y : Y = Across(N, A)
  OBVIOUS
<1>3. Y \subseteq Pairs(N) /\ IsFiniteSet(Y)
  <2>1. Y \subseteq Pairs(N)
    BY <1>2 DEF Across, Pairs
  <2> QED
    BY <1>1, <2>1, PairsFinite
<1>4. SumFunctionOnSet(r, Y) \in Nat
  <2>1. \A y \in Y : r[y] \in Nat
    BY <1>1, <1>3, AllPairs
  <2> QED
    BY <1>3, <2>1, SumNat
<1>5. SumFunctionOnSet(c, Y) = SumFunctionOnSet(r, Y) + total
  <2>1. SumFunctionOnSet(c, Across(N, A)) = SumFunctionOnSet(r, Across(N, A)) + total
    BY <1>1, TotalAtCut
  <2> QED
    BY <1>2, <2>1
<1>6. CutCapacity(capacity, A) = SumFunctionOnSet(c, Y)
  BY <1>2, CutIs
<1>7. (\A e \in Y : r[e] = 0) => SumFunctionOnSet(r, Y) = 0
  BY <1>3, SumZero
<1>8. PICK a, b : a = SumFunctionOnSet(c, Y) /\ b = SumFunctionOnSet(r, Y)
  OBVIOUS
<1>9. b \in Nat /\ a = b + total
  BY <1>4, <1>5, <1>8
<1>10. total <= a /\ (b = 0 => total = a)
  BY ONLY <1>1, <1>9
<1> QED
  BY <1>2, <1>6, <1>7, <1>8, <1>10

LEMMA MinCutIs ==
  ASSUME NEW capacity, NEW N, NEW source, NEW sink, IsNetwork(capacity, N, source, sink), NEW c, c = Extended(capacity, N),
         NEW r, NEW total, FlowOk(N, c, r, total, source, sink), NEW A \in SUBSET N, source \in A, sink \notin A,
         \A e \in Across(N, A) : r[e] = 0
  PROVE  total = MinCut(capacity, N, source, sink)
<1>1. PICK values : values = {CutCapacity(capacity, side \cup {source}) : side \in SUBSET (N \ {source, sink})}
  OBVIOUS
<1>2. ASSUME NEW side \in SUBSET (N \ {source, sink})
      PROVE  CutCapacity(capacity, side \cup {source}) \in Nat /\ total <= CutCapacity(capacity, side \cup {source})
  <2>1. PICK B : B = side \cup {source}
    OBVIOUS
  <2>2. B \in SUBSET N /\ source \in B /\ sink \notin B
    BY <2>1 DEF IsNetwork
  <2>3. CutCapacity(capacity, B) \in Nat
    BY <2>2, CutIs
  <2>4. total <= CutCapacity(capacity, B)
    BY <2>2, FlowWithinCut
  <2> QED
    BY <2>1, <2>3, <2>4
<1>3. total = CutCapacity(capacity, A)
  BY FlowWithinCut
<1>4. total \in values
  <2>1. A \ {source} \in SUBSET (N \ {source, sink}) /\ (A \ {source}) \cup {source} = A
    OBVIOUS
  <2>2. CutCapacity(capacity, (A \ {source}) \cup {source}) \in values
    BY <1>1, <2>1
  <2> QED
    BY <1>3, <2>1, <2>2
<1>5. values \in SUBSET Int
  <2>1. \A w \in values : w \in Nat
    BY <1>1, <1>2
  <2> QED
    BY <2>1
<1>6. \A w \in values : total <= w
  BY <1>1, <1>2
<1>7. LeastOf(values) = total
  BY <1>4, <1>5, <1>6, LeastIs
<1> QED
  BY <1>1, <1>7 DEF MinCut
---------------------------------------------------------------------------
(* A path with room, from the sink back to the source.                     *)
IsPath(N, r, P, q, l, source, sink) ==
    /\ l \in Nat \ {0} /\ q \in [0..l -> N] /\ q[0] = sink /\ q[l] = source
    /\ \A i, j \in 0..l : q[i] = q[j] => i = j
    /\ \A i \in 1..l : <<q[i], q[i - 1]>> \in P /\ r[<<q[i], q[i - 1]>>] > 0
    /\ \A e \in P : \E i \in 1..l : e = <<q[i], q[i - 1]>>

LEMMA PathIs ==
  ASSUME NEW N, NEW r, NEW P, NEW q, NEW l, NEW source, NEW sink, IsPath(N, r, P, q, l, source, sink)
  PROVE  /\ \A e \in P : e \in Pairs(N) /\ r[e] > 0 /\ Back(e) \notin P
         /\ P # {}
<1>1. /\ l \in Nat \ {0} /\ q \in [0..l -> N]
      /\ \A i, j \in 0..l : q[i] = q[j] => i = j
      /\ \A i \in 1..l : <<q[i], q[i - 1]>> \in P /\ r[<<q[i], q[i - 1]>>] > 0
      /\ \A e \in P : \E i \in 1..l : e = <<q[i], q[i - 1]>>
  BY DEF IsPath
<1>2. \A i \in 1..l : i \in 0..l /\ i - 1 \in 0..l
  BY <1>1
<1>3. ASSUME NEW e \in P PROVE e \in Pairs(N) /\ r[e] > 0 /\ Back(e) \notin P
  <2>1. PICK i \in 1..l : e = <<q[i], q[i - 1]>>
    BY <1>1
  <2>2. Back(e) \notin P
    <3> SUFFICES ASSUME Back(e) \in P PROVE FALSE
      OBVIOUS
    <3>1. PICK j \in 1..l : Back(e) = <<q[j], q[j - 1]>>
      BY <1>1
    <3>2. Back(e) = <<q[i - 1], q[i]>>
      BY <2>1 DEF Back
    <3>3. q[i - 1] = q[j] /\ q[i] = q[j - 1]
      BY <3>1, <3>2
    <3>4. i - 1 = j /\ i = j - 1
      BY <1>1, <1>2, <3>3
    <3> QED
      BY <3>4
  <2>3. q[i] \in N /\ q[i - 1] \in N
    BY <1>1, <1>2
  <2> QED
    BY <1>1, <2>1, <2>2, <2>3 DEF Pairs
<1>4. 1 \in 1..l
  BY <1>1
<1> QED
  BY <1>1, <1>3, <1>4

LEMMA SumChanged ==
  ASSUME NEW S, IsFiniteSet(S), NEW f, \A y \in S : f[y] \in Int, NEW x \in S,
         NEW g, g[x] \in Int, \A y \in S \ {x} : g[y] = f[y]
  PROVE  SumFunctionOnSet(g, S) = SumFunctionOnSet(f, S) + (g[x] - f[x])
<1>1. PICK d : d = [y \in S |-> g[y] - f[y]]
  OBVIOUS
<1>2. d[x] = g[x] - f[x] /\ d[x] \in Int /\ \A y \in S \ {x} : d[y] = 0
  BY <1>1
<1>3. \A y \in S : f[y] \in Int /\ d[y] \in Int /\ g[y] = f[y] + d[y]
  BY <1>1
<1>4. SumFunctionOnSet(g, S) = SumFunctionOnSet(f, S) + SumFunctionOnSet(d, S)
  BY <1>3, SumPlus
<1>5. SumFunctionOnSet(d, S) = d[x]
  BY <1>2, SumOfOne
<1> QED
  BY <1>2, <1>4, <1>5

LEMMA SumChangedTwice ==
  ASSUME NEW S, IsFiniteSet(S), NEW f, \A y \in S : f[y] \in Int, NEW x \in S, NEW z \in S, x # z,
         NEW g, g[x] \in Int, g[z] \in Int, (g[x] - f[x]) + (g[z] - f[z]) = 0,
         \A y \in S \ {x, z} : g[y] = f[y]
  PROVE  SumFunctionOnSet(g, S) = SumFunctionOnSet(f, S)
<1>1. PICK h : h = [y \in S |-> IF y = x THEN g[x] ELSE f[y]]
  OBVIOUS
<1>2. h[x] = g[x] /\ h[x] \in Int /\ \A y \in S \ {x} : h[y] = f[y]
  BY <1>1
<1>3. h[z] = f[z] /\ (\A y \in S : h[y] \in Int) /\ \A y \in S \ {z} : g[y] = h[y]
  BY <1>1
<1>4. SumFunctionOnSet(h, S) = SumFunctionOnSet(f, S) + (h[x] - f[x])
  BY <1>2, SumChanged
<1>5. SumFunctionOnSet(g, S) = SumFunctionOnSet(h, S) + (g[z] - h[z])
  BY <1>3, SumChanged
<1>6. SumFunctionOnSet(f, S) \in Int
  BY SumAdds
<1>7. PICK a, b, u, v, w, y : /\ a = SumFunctionOnSet(f, S) /\ b = SumFunctionOnSet(g, S)
                              /\ u = g[x] /\ v = f[x] /\ w = g[z] /\ y = f[z]
  OBVIOUS
<1>8. /\ a \in Int /\ u \in Int /\ v \in Int /\ w \in Int /\ y \in Int
      /\ (u - v) + (w - y) = 0 /\ b = (a + (u - v)) + (w - y)
  BY <1>2, <1>3, <1>4, <1>5, <1>6, <1>7
<1>9. a = b
  BY ONLY <1>8
<1> QED
  BY <1>7, <1>9

(* What the path takes.                                                    *)
LEMMA NarrowestIs ==
  ASSUME NEW N, NEW r, OnPairs(N, r), NEW P, P # {}, \A e \in P : e \in Pairs(N) /\ r[e] > 0
  PROVE  /\ LeastOf({r[e] : e \in P}) \in Nat \ {0}
         /\ \A d \in P : LeastOf({r[e] : e \in P}) <= r[d]
<1>1. PICK values : values = {r[e] : e \in P}
  OBVIOUS
<1>2. values \in SUBSET Nat /\ values # {} /\ \A v \in values : v > 0
  BY <1>1, AllPairs
<1>3. PICK v \in values : \A w \in values : v <= w
  BY <1>2, LeastNatural
<1>4. values \in SUBSET Int
  BY <1>2
<1>5. LeastOf(values) = v
  BY <1>3, <1>4, LeastIs
<1> QED
  BY <1>1, <1>2, <1>3, <1>5

Augmented(r, P, v, g) ==
    /\ g = [e \in DOMAIN r |-> g[e]]
    /\ \A e \in DOMAIN r : /\ e \in P => g[e] = r[e] - v
                           /\ e \notin P /\ Back(e) \in P => g[e] = r[e] + v
                           /\ e \notin P /\ Back(e) \notin P => g[e] = r[e]

LEMMA AugmentIs ==
  ASSUME NEW r, NEW total, NEW P, \A e \in P : Back(e) \notin P, NEW v, v = LeastOf({r[e] : e \in P})
  PROVE  \E g : Augment([residual |-> r, total |-> total], P) = [residual |-> g, total |-> total + v] /\ Augmented(r, P, v, g)
<1>1. PICK g : g = [e \in DOMAIN r |-> CASE e \in P -> r[e] - v [] Back(e) \in P -> r[e] + v [] OTHER -> r[e]]
  OBVIOUS
<1>2. Augment([residual |-> r, total |-> total], P) = [residual |-> g, total |-> total + v]
  BY <1>1 DEF Augment, Back
<1>3. g = [e \in DOMAIN r |-> g[e]]
  BY <1>1
<1>4. ASSUME NEW e \in DOMAIN r
      PROVE  /\ e \in P => g[e] = r[e] - v
             /\ e \notin P /\ Back(e) \in P => g[e] = r[e] + v
             /\ e \notin P /\ Back(e) \notin P => g[e] = r[e]
  <2>1. g[e] = CASE e \in P -> r[e] - v [] Back(e) \in P -> r[e] + v [] OTHER -> r[e]
    BY <1>1
  <2>2. ~ (e \in P /\ Back(e) \in P)
    OBVIOUS
  <2> QED
    BY <2>1, <2>2
<1> QED
  BY <1>2, <1>3, <1>4 DEF Augmented

LEMMA AugmentedRoomy ==
  ASSUME NEW N, NEW c, OnPairs(N, c), NEW r, Roomy(N, c, r), NEW P, \A e \in P : e \in Pairs(N) /\ Back(e) \notin P,
         NEW v \in Nat, \A e \in P : v <= r[e], NEW g, Augmented(r, P, v, g)
  PROVE  Roomy(N, c, g)
<1>1. OnPairs(N, r) /\ \A e \in Pairs(N) : r[e] \in Nat /\ c[e] \in Nat
  BY AllPairs DEF Roomy
<1>2. DOMAIN r = Pairs(N) /\ DOMAIN g = Pairs(N)
  BY <1>1 DEF OnPairs, Augmented
<1>3. \A e \in Pairs(N) : Back(e) \in Pairs(N) /\ Back(Back(e)) = e
  BY BackIs
<1>4. ASSUME NEW e \in Pairs(N)
      PROVE  /\ e \in P => g[e] = r[e] - v
             /\ e \notin P /\ Back(e) \in P => g[e] = r[e] + v
             /\ e \notin P /\ Back(e) \notin P => g[e] = r[e]
  BY <1>2 DEF Augmented
<1>5. ASSUME NEW e \in Pairs(N) PROVE g[e] \in Nat
  <2>1. r[e] \in Nat /\ (e \in P => v <= r[e])
    BY <1>1
  <2> QED
    BY <1>4, <2>1
<1>6. ASSUME NEW e \in Pairs(N) PROVE g[e] + g[Back(e)] = c[e] + c[Back(e)]
  <2>1. PICK b : b = Back(e)
    OBVIOUS
  <2>2. b \in Pairs(N) /\ Back(b) = e
    BY <1>3, <2>1
  <2>3. r[e] + r[b] = c[e] + c[b]
    BY <2>1 DEF Roomy
  <2>4. g[e] + g[b] = r[e] + r[b]
    <3>1. r[e] \in Nat /\ r[b] \in Nat
      BY <1>1, <2>2
    <3>2. CASE e \in P
      <4>1. b \notin P
        BY <2>1, <3>2
      <4>2. g[e] = r[e] - v /\ g[b] = r[b] + v
        BY <1>4, <2>2, <3>2, <4>1
      <4> QED
        BY <3>1, <4>2
    <3>3. CASE b \in P
      <4>1. e \notin P
        BY <2>1, <3>3
      <4>2. g[b] = r[b] - v /\ g[e] = r[e] + v
        BY <1>4, <2>1, <2>2, <3>3, <4>1
      <4> QED
        BY <3>1, <4>2
    <3>4. CASE e \notin P /\ b \notin P
      BY <1>4, <2>1, <2>2, <3>4
    <3> QED
      BY <3>2, <3>3, <3>4
  <2> QED
    BY <2>1, <2>3, <2>4
<1>7. OnPairs(N, g)
  <2>1. g = [e \in Pairs(N) |-> g[e]]
    BY <1>2 DEF Augmented
  <2> QED
    BY <1>5, <2>1 DEF OnPairs
<1> QED
  BY <1>6, <1>7 DEF Roomy

(* What leaves a node on the way gains on one side what it loses on the    *)
(* other; only the source loses.                                           *)
LEMMA AugmentedSpends ==
  ASSUME NEW N, IsFiniteSet(N), NEW r, OnPairs(N, r), NEW g, OnPairs(N, g), NEW P, NEW q, NEW l, NEW source, NEW sink,
         source # sink, IsPath(N, r, P, q, l, source, sink),
         NEW v \in Nat, Augmented(r, P, v, g), NEW n \in N \ {sink}
  PROVE  SumFunctionOnSet(r, From(N, {n})) = SumFunctionOnSet(g, From(N, {n})) + (IF n = source THEN v ELSE 0)
<1>1. PICK R : R = From(N, {n})
  OBVIOUS
<1>2. R \subseteq Pairs(N) /\ (\A e \in R : e = <<n, e[2]>> /\ e[2] \in N) /\ \A b \in N : <<n, b>> \in R
  BY <1>1 DEF From, Pairs
<1>3. IsFiniteSet(R) /\ (\A e \in R : r[e] \in Int) /\ (\A e \in R : g[e] \in Int)
  BY <1>2, PairsFinite, AllPairs
<1>4. DOMAIN r = Pairs(N)
  BY DEF OnPairs
<1>5. /\ l \in Nat \ {0} /\ q \in [0..l -> N] /\ q[0] = sink /\ q[l] = source
      /\ \A i, j \in 0..l : q[i] = q[j] => i = j
      /\ \A i \in 1..l : <<q[i], q[i - 1]>> \in P
      /\ \A e \in P : \E i \in 1..l : e = <<q[i], q[i - 1]>>
  BY DEF IsPath
<1>6. \A i \in 1..l : i \in 0..l /\ i - 1 \in 0..l
  BY <1>5
<1>7. ASSUME NEW e \in R
      PROVE  /\ e \in P => g[e] = r[e] - v
             /\ e \notin P /\ Back(e) \in P => g[e] = r[e] + v
             /\ e \notin P /\ Back(e) \notin P => g[e] = r[e]
  BY <1>2, <1>4 DEF Augmented
<1>8. ASSUME NEW e \in R, e \in P PROVE \E i \in 1..l : n = q[i] /\ e = <<n, q[i - 1]>>
  <2>1. PICK i \in 1..l : e = <<q[i], q[i - 1]>>
    BY <1>5, <1>8
  <2>2. e[1] = n /\ e[1] = q[i]
    BY <1>2, <2>1
  <2> QED
    BY <2>1, <2>2
<1>9. ASSUME NEW e \in R, Back(e) \in P PROVE \E i \in 1..l : n = q[i - 1] /\ e = <<n, q[i]>>
  <2>1. PICK i \in 1..l : Back(e) = <<q[i], q[i - 1]>>
    BY <1>5, <1>9
  <2>2. e = <<n, e[2]>> /\ e[1] = n
    BY <1>2
  <2>3. Back(e) = <<e[2], n>>
    BY <2>2 DEF Back
  <2>4. e[2] = q[i] /\ n = q[i - 1]
    BY <2>1, <2>3
  <2> QED
    BY <2>2, <2>4
<1>10. CASE \A i \in 0..l : n # q[i]
  <2>1. n # source
    <3>1. l \in 0..l
      BY <1>5
    <3> QED
      BY <1>5, <1>10, <3>1
  <2>2. \A e \in R : e \notin P /\ Back(e) \notin P
    BY <1>6, <1>8, <1>9, <1>10
  <2>3. \A e \in R : r[e] \in Int /\ g[e] = r[e]
    BY <1>3, <1>7, <2>2
  <2>4. SumFunctionOnSet(r, R) = SumFunctionOnSet(g, R)
    BY <1>3, <2>3, SumSame
  <2>5. SumFunctionOnSet(g, R) \in Int
    BY <1>3, SumAdds
  <2> QED
    BY <1>1, <2>1, <2>4, <2>5
<1>11. ASSUME NEW i \in 0..l, n = q[i] PROVE SumFunctionOnSet(r, R) = SumFunctionOnSet(g, R) + (IF n = source THEN v ELSE 0)
  <2>1. i \in 1..l
    BY <1>5, <1>11
  <2>2. PICK o : o = <<n, q[i - 1]>>
    OBVIOUS
  <2>3. q[i - 1] \in N /\ o \in R /\ o \in P
    BY <1>2, <1>5, <1>6, <1>11, <2>1, <2>2
  <2>4. g[o] = r[o] - v /\ r[o] \in Int /\ g[o] \in Int
    BY <1>3, <1>7, <2>3
  <2>5. \A e \in R : e \in P => e = o
    <3> SUFFICES ASSUME NEW e \in R, e \in P PROVE e = o
      OBVIOUS
    <3>1. PICK j \in 1..l : n = q[j] /\ e = <<n, q[j - 1]>>
      BY <1>8
    <3>2. j = i
      BY <1>5, <1>6, <1>11, <3>1
    <3> QED
      BY <2>2, <3>1, <3>2
  <2>6. \A e \in R : Back(e) \in P => i + 1 \in 1..l /\ e = <<n, q[i + 1]>>
    <3> SUFFICES ASSUME NEW e \in R, Back(e) \in P PROVE i + 1 \in 1..l /\ e = <<n, q[i + 1]>>
      OBVIOUS
    <3>1. PICK j \in 1..l : n = q[j - 1] /\ e = <<n, q[j]>>
      BY <1>9
    <3>2. j - 1 = i
      BY <1>5, <1>6, <1>11, <3>1
    <3>3. i + 1 = j
      BY <3>2
    <3> QED
      BY <3>1, <3>3
  <2>7. CASE i = l
    <3>1. n = source
      BY <1>5, <1>11, <2>7
    <3>2. \A e \in R : Back(e) \notin P
      <4>1. i + 1 \notin 1..l
        BY <2>7
      <4> QED
        BY <2>6, <4>1
    <3>3. \A e \in R \ {o} : g[e] = r[e]
      BY <1>7, <2>5, <3>2
    <3>4. SumFunctionOnSet(g, R) = SumFunctionOnSet(r, R) + (g[o] - r[o])
      BY <1>3, <2>3, <2>4, <3>3, SumChanged
    <3>5. SumFunctionOnSet(r, R) \in Int
      BY <1>3, SumAdds
    <3>6. PICK a, b, x, y : a = SumFunctionOnSet(r, R) /\ b = SumFunctionOnSet(g, R) /\ x = r[o] /\ y = g[o]
      OBVIOUS
    <3>7. a \in Int /\ x \in Int /\ y = x - v /\ v \in Nat /\ b = a + (y - x)
      BY <2>4, <3>4, <3>5, <3>6
    <3>8. a = b + v
      BY ONLY <3>7
    <3> QED
      BY <3>1, <3>6, <3>8
  <2>8. CASE i # l
    <3>1. i + 1 \in 1..l /\ i + 1 \in 0..l /\ l \in 0..l /\ (i + 1) - 1 = i
      BY <1>5, <2>8
    <3>2. n # source
      BY <1>5, <1>11, <2>8, <3>1
    <3>3. PICK w : w = <<n, q[i + 1]>>
      OBVIOUS
    <3>4. w \in R /\ Back(w) \in P
      <4>1. q[i + 1] \in N /\ Back(w) = <<q[i + 1], q[i]>>
        BY <1>5, <1>11, <3>1, <3>3 DEF Back
      <4>2. <<q[i + 1], q[(i + 1) - 1]>> \in P
        BY <1>5, <3>1
      <4> QED
        BY <1>2, <3>1, <3>3, <4>1, <4>2
    <3>5. w # o
      <4>1. q[i + 1] # q[i - 1]
        <5>1. i + 1 # i - 1
          OBVIOUS
        <5> QED
          BY <1>5, <1>6, <2>1, <3>1, <5>1
      <4> QED
        BY <2>2, <3>3, <4>1
    <3>6. w \notin P
      BY <2>5, <3>4, <3>5
    <3>7. g[w] = r[w] + v /\ r[w] \in Int /\ g[w] \in Int
      BY <1>3, <1>7, <3>4, <3>6
    <3>8. \A e \in R \ {o, w} : g[e] = r[e]
      BY <1>7, <2>5, <2>6, <3>3
    <3>9. (g[o] - r[o]) + (g[w] - r[w]) = 0
      BY <2>4, <3>7
    <3>10. SumFunctionOnSet(g, R) = SumFunctionOnSet(r, R)
      BY <1>3, <2>3, <2>4, <3>4, <3>5, <3>7, <3>8, <3>9, SumChangedTwice
    <3>11. SumFunctionOnSet(r, R) \in Int
      BY <1>3, SumAdds
    <3> QED
      BY <3>2, <3>10, <3>11
  <2> QED
    BY <2>7, <2>8
<1> QED
  BY <1>1, <1>10, <1>11

(* A path makes a larger flow of a flow.                                   *)
Enlarged(N, c, r, total, P, source, sink, g, v) ==
    /\ v \in Nat \ {0} /\ FlowOk(N, c, g, total + v, source, sink)
    /\ Augment([residual |-> r, total |-> total], P) = [residual |-> g, total |-> total + v]

LEMMA AugmentKeeps ==
  ASSUME NEW N, IsFiniteSet(N), NEW c, OnPairs(N, c), NEW source \in N, NEW sink \in N, source # sink,
         NEW r, NEW total, FlowOk(N, c, r, total, source, sink),
         NEW P, NEW q, NEW l, IsPath(N, r, P, q, l, source, sink)
  PROVE  \E g, v : Enlarged(N, c, r, total, P, source, sink, g, v)
<1>1. Roomy(N, c, r) /\ OnPairs(N, r) /\ total \in Nat
  BY DEF FlowOk, Roomy
<1>2. P # {} /\ (\A e \in P : e \in Pairs(N) /\ r[e] > 0) /\ (\A e \in P : e \in Pairs(N) /\ Back(e) \notin P)
  BY PathIs
<1>3. PICK v : v = LeastOf({r[e] : e \in P})
  OBVIOUS
<1>4. v \in Nat \ {0} /\ \A e \in P : v <= r[e]
  BY <1>1, <1>2, <1>3, NarrowestIs
<1>5. PICK g : /\ Augment([residual |-> r, total |-> total], P) = [residual |-> g, total |-> total + v]
               /\ Augmented(r, P, v, g)
  BY <1>2, <1>3, AugmentIs
<1>6. Roomy(N, c, g) /\ OnPairs(N, g)
  <2>1. v \in Nat
    BY <1>4
  <2>2. Roomy(N, c, g)
    BY <1>1, <1>2, <1>4, <1>5, <2>1, AugmentedRoomy
  <2> QED
    BY <2>2 DEF Roomy
<1>7. ASSUME NEW n \in N \ {sink} PROVE Spends(N, c, g, n, IF n = source THEN total + v ELSE 0)
  <2>1. PICK a, b, d : /\ a = SumFunctionOnSet(c, From(N, {n})) /\ b = SumFunctionOnSet(r, From(N, {n}))
                       /\ d = SumFunctionOnSet(g, From(N, {n}))
    OBVIOUS
  <2>2. a = b + (IF n = source THEN total ELSE 0)
    BY <2>1 DEF FlowOk, Spends
  <2>3. b = d + (IF n = source THEN v ELSE 0)
    <3>1. v \in Nat
      BY <1>4
    <3> QED
      BY <1>1, <1>5, <1>6, <2>1, <3>1, AugmentedSpends
  <2>4. d \in Int
    <3>1. From(N, {n}) \subseteq Pairs(N)
      BY DEF From, Pairs
    <3>2. IsFiniteSet(From(N, {n})) /\ \A e \in From(N, {n}) : g[e] \in Int
      BY <1>6, <3>1, PairsFinite, AllPairs
    <3> QED
      BY <2>1, <3>2, SumAdds
  <2>5. a = d + (IF n = source THEN total + v ELSE 0)
    <3>1. CASE n = source
      <4>1. a = b + total /\ b = d + v /\ d \in Int /\ v \in Nat /\ total \in Nat
        BY <1>1, <1>4, <2>2, <2>3, <2>4, <3>1
      <4>2. a = d + (total + v)
        BY ONLY <4>1
      <4> QED
        BY <3>1, <4>2
    <3>2. CASE n # source
      <4>1. a = b + 0 /\ b = d + 0 /\ d \in Int
        BY <2>2, <2>3, <2>4, <3>2
      <4>2. a = d + 0
        BY ONLY <4>1
      <4> QED
        BY <3>2, <4>2
    <3> QED
      BY <3>1, <3>2
  <2> QED
    BY <2>1, <2>5 DEF Spends
<1>8. total + v \in Nat
  BY <1>1, <1>4
<1>9. FlowOk(N, c, g, total + v, source, sink)
  BY <1>6, <1>7, <1>8 DEF FlowOk
<1>10. Enlarged(N, c, r, total, P, source, sink, g, v)
  BY <1>4, <1>5, <1>9 DEF Enlarged
<1> QED
  BY <1>10

(* There is a flow to start from: nothing.                                 *)
LEMMA FlowStarts ==
  ASSUME NEW N, IsFiniteSet(N), NEW c, OnPairs(N, c), NEW source \in N, NEW sink \in N
  PROVE  FlowOk(N, c, c, 0, source, sink)
<1>1. ASSUME NEW n \in N PROVE Spends(N, c, c, n, IF n = source THEN 0 ELSE 0)
  <2>1. From(N, {n}) \subseteq Pairs(N)
    BY DEF From, Pairs
  <2>2. IsFiniteSet(From(N, {n})) /\ \A e \in From(N, {n}) : c[e] \in Int
    BY <2>1, PairsFinite, AllPairs
  <2>3. SumFunctionOnSet(c, From(N, {n})) \in Int
    BY <2>2, SumAdds
  <2> QED
    BY <2>3 DEF Spends
<1> QED
  BY <1>1 DEF FlowOk, Roomy

---------------------------------------------------------------------------
(* The search for a path with room: every node of the tree is one step     *)
(* deeper than its parent, and what has been expanded has nothing outside. *)
Depths(N, r, source, parent, depth) ==
    /\ depth \in [DOMAIN parent -> Nat] /\ depth[source] = 0
    /\ \A b \in DOMAIN parent : depth[b] < Cardinality(DOMAIN parent)
    /\ \A b \in DOMAIN parent \ {source} :
         /\ parent[b] \in DOMAIN parent /\ depth[b] = depth[parent[b]] + 1
         /\ r[<<parent[b], b>>] > 0

TreeOk(N, r, source, s) ==
    /\ s = [parent |-> s.parent, queue |-> s.queue]
    /\ source \in DOMAIN s.parent /\ DOMAIN s.parent \subseteq N /\ s.parent[source] = source
    /\ s.parent = [b \in DOMAIN s.parent |-> s.parent[b]]
    /\ s.queue \in Seq(N) /\ ToSet(s.queue) \subseteq DOMAIN s.parent /\ IsInjective(s.queue)
    /\ \A a \in DOMAIN s.parent \ ToSet(s.queue) : \A b \in N : r[<<a, b>>] > 0 => b \in DOMAIN s.parent
    /\ \E depth : Depths(N, r, source, s.parent, depth)

Turned(s, k) == Cardinality(DOMAIN s.parent \ ToSet(s.queue)) = k

LEMMA ExpandKeeps ==
  ASSUME NEW N, IsFiniteSet(N), N \subseteq Nat, NEW r, NEW source,
         NEW s, TreeOk(N, r, source, s), s.queue # <<>>
  PROVE  /\ TreeOk(N, r, source, Expand(r, N, s))
         /\ \A k \in Nat : Turned(s, k) => Turned(Expand(r, N, s), k + 1)
<1>1. PICK parent, queue, a, tail, M, new, z :
        /\ parent = s.parent /\ queue = s.queue /\ a = Head(queue) /\ tail = Tail(queue) /\ M = DOMAIN parent
        /\ new = {b \in N : r[<<a, b>>] > 0 /\ b \notin M} /\ z = Expand(r, N, s)
  OBVIOUS
<1>2. PICK w, rest, adopted : /\ w = Ascending(new) /\ rest = tail \o w
                              /\ adopted = [b \in M \cup new |-> IF b \in new THEN a ELSE parent[b]]
  OBVIOUS
<1>3. /\ source \in M /\ M \subseteq N /\ parent[source] = source
      /\ queue \in Seq(N) /\ ToSet(queue) \subseteq M /\ IsInjective(queue) /\ queue # <<>>
      /\ \A x \in M \ ToSet(queue) : \A b \in N : r[<<x, b>>] > 0 => b \in M
  BY <1>1 DEF TreeOk
<1>4. z = [parent |-> adopted, queue |-> rest]
  BY <1>1, <1>2, Zenon DEF Expand, Adopted
<1>5. z.parent = adopted /\ z.queue = rest /\ DOMAIN adopted = M \cup new
  BY <1>2, <1>4
<1>6. /\ a \in N /\ tail \in Seq(N) /\ ToSet(queue) = {a} \cup ToSet(tail)
      /\ IsInjective(tail) /\ a \notin ToSet(tail)
  BY <1>1, <1>3, SetOfTail
<1>7. new \in SUBSET N /\ new \cap M = {} /\ IsFiniteSet(new) /\ IsFiniteSet(M)
  <2>1. new \in SUBSET N /\ new \cap M = {}
    BY <1>1
  <2> QED
    BY <1>3, <2>1, FS_Subset
<1>8. w \in Seq(N) /\ ToSet(w) = new /\ IsInjective(w)
  BY <1>2, <1>7, SetOfAscending
<1>9. rest \in Seq(N) /\ ToSet(rest) = ToSet(tail) \cup new /\ IsInjective(rest)
  <2>1. ToSet(tail) \cap ToSet(w) = {}
    BY <1>3, <1>6, <1>7, <1>8
  <2> QED
    BY <1>2, <1>6, <1>8, <2>1, SetOfConcat
<1>10. (M \cup new) \ ToSet(rest) = (M \ ToSet(queue)) \cup {a} /\ a \notin M \ ToSet(queue) /\ a \in M
  BY <1>3, <1>6, <1>7, <1>9
<1>11. ASSUME NEW x \in (M \cup new) \ ToSet(rest), NEW b \in N, r[<<x, b>>] > 0 PROVE b \in M \cup new
  <2>1. CASE x = a
    BY <1>1, <1>11, <2>1
  <2>2. CASE x # a
    BY <1>3, <1>10, <1>11, <2>2
  <2> QED
    BY <2>1, <2>2
<1>12. \E depth : Depths(N, r, source, adopted, depth)
  <2>1. PICK depth : Depths(N, r, source, parent, depth)
    BY <1>1 DEF TreeOk
  <2>2. PICK deeper : deeper = [b \in M \cup new |-> IF b \in new THEN depth[a] + 1 ELSE depth[b]]
    OBVIOUS
  <2>3. /\ depth \in [M -> Nat] /\ depth[source] = 0
        /\ \A b \in M : depth[b] < Cardinality(M)
        /\ \A b \in M \ {source} : parent[b] \in M /\ depth[b] = depth[parent[b]] + 1 /\ r[<<parent[b], b>>] > 0
    BY <1>1, <2>1 DEF Depths
  <2>4. /\ Cardinality(M) \in Nat /\ Cardinality(M \cup new) \in Nat /\ Cardinality(M) <= Cardinality(M \cup new)
        /\ (new # {} => Cardinality(M) < Cardinality(M \cup new))
    <3>1. Cardinality(M \cup new) = Cardinality(M) + Cardinality(new) - Cardinality(M \cap new)
      BY <1>7, FS_Union
    <3>2. Cardinality(M \cap new) = 0
      BY <1>7, FS_EmptySet
    <3>3. Cardinality(M) \in Nat /\ Cardinality(new) \in Nat /\ (new # {} => Cardinality(new) # 0)
      BY <1>7, FS_CardinalityType, FS_EmptySet
    <3> QED
      BY <3>1, <3>2, <3>3
  <2>5. (\A b \in M : deeper[b] = depth[b] /\ adopted[b] = parent[b]) /\ (\A b \in new : deeper[b] = depth[a] + 1 /\ adopted[b] = a)
    BY <1>2, <1>7, <2>2
  <2>6. depth[a] \in Nat /\ depth[a] < Cardinality(M)
    BY <1>10, <2>3
  <2>7. deeper \in [M \cup new -> Nat] /\ deeper[source] = 0
    <3>1. (\A b \in M : depth[b] \in Nat) /\ depth[a] + 1 \in Nat
      BY <2>3, <2>6
    <3>3. \A b \in M \cup new : deeper[b] \in Nat
      BY <2>5, <3>1
    <3> QED
      BY <1>3, <2>2, <2>3, <2>5, <3>3
  <2>8. ASSUME NEW b \in M \cup new PROVE deeper[b] < Cardinality(M \cup new)
    <3>1. CASE b \in M
      <4>1. deeper[b] < Cardinality(M) /\ deeper[b] \in Nat
        BY <2>3, <2>5, <3>1
      <4> QED
        BY <2>4, <4>1
    <3>2. CASE b \in new
      <4>1. new # {} /\ deeper[b] = depth[a] + 1
        BY <2>5, <3>2
      <4> QED
        BY <2>4, <2>6, <4>1
    <3> QED
      BY <3>1, <3>2
  <2>9. ASSUME NEW b \in (M \cup new) \ {source}
        PROVE  adopted[b] \in M \cup new /\ deeper[b] = deeper[adopted[b]] + 1 /\ r[<<adopted[b], b>>] > 0
    <3>1. CASE b \in M
      BY <2>3, <2>5, <3>1
    <3>2. CASE b \in new
      BY <1>1, <1>10, <2>5, <3>2
    <3> QED
      BY <3>1, <3>2
  <2>10. Depths(N, r, source, adopted, deeper)
    BY <1>5, <2>7, <2>8, <2>9 DEF Depths
  <2> QED
    BY <2>10
<1>13. TreeOk(N, r, source, z)
  <2>1. adopted = [b \in DOMAIN adopted |-> adopted[b]] /\ adopted[source] = source
    BY <1>2, <1>3, <1>7
  <2>2. /\ z = [parent |-> z.parent, queue |-> z.queue] /\ source \in DOMAIN adopted /\ DOMAIN adopted \subseteq N
        /\ ToSet(rest) \subseteq DOMAIN adopted
    BY <1>3, <1>4, <1>5, <1>6, <1>7, <1>9
  <2>3. \A x \in DOMAIN adopted \ ToSet(rest) : \A b \in N : r[<<x, b>>] > 0 => b \in DOMAIN adopted
    BY <1>5, <1>11
  <2> QED
    BY <1>5, <1>9, <1>12, <2>1, <2>2, <2>3 DEF TreeOk
<1>14. ASSUME NEW k \in Nat, Turned(s, k) PROVE Turned(z, k + 1)
  <2>1. PICK X : X = M \ ToSet(queue)
    OBVIOUS
  <2>2. IsFiniteSet(X)
    BY <1>7, <2>1, FS_Subset
  <2>3. Cardinality(X) = k
    BY <1>1, <1>14, <2>1 DEF Turned
  <2>4. Cardinality(X \cup {a}) = k + 1
    BY <1>10, <2>1, <2>2, <2>3, FS_AddElement
  <2> QED
    BY <1>5, <1>10, <2>1, <2>4 DEF Turned
<1> QED
  BY <1>1, <1>13, <1>14

TreeStart(source) == [parent |-> [n \in {source} |-> source], queue |-> <<source>>]

TreeTurn(r, N, sink, s) ==
    IF s.queue = <<>> \/ sink \in DOMAIN s.parent THEN s ELSE Expand(r, N, s)

TreeLoop(t, r, N, source, sink, n) ==
    t = [k \in 0..n |-> IF k = 0 THEN TreeStart(source) ELSE TreeTurn(r, N, sink, t[k - 1])]

TurnedOrDone(s, sink, k) == s.queue = <<>> \/ sink \in DOMAIN s.parent \/ Turned(s, k)

LEMMA TreeStarts ==
  ASSUME NEW N, IsFiniteSet(N), NEW r, NEW source \in N
  PROVE  TreeOk(N, r, source, TreeStart(source)) /\ Turned(TreeStart(source), 0)
<1>1. PICK s, q, parent : s = TreeStart(source) /\ q = <<source>> /\ parent = [n \in {source} |-> source]
  OBVIOUS
<1>2. s = [parent |-> parent, queue |-> q] /\ s.parent = parent /\ s.queue = q
  BY <1>1 DEF TreeStart
<1>3. DOMAIN parent = {source} /\ parent[source] = source /\ parent = [b \in DOMAIN parent |-> parent[b]]
  BY <1>1
<1>4. q \in Seq(N) /\ ToSet(q) = {source} /\ IsInjective(q)
  <2>1. q \in Seq(N) /\ Len(q) = 1 /\ DOMAIN q = {1} /\ q[1] = source
    BY <1>1
  <2> QED
    BY <2>1 DEF ToSet, IsInjective
<1>5. \E depth : Depths(N, r, source, parent, depth)
  <2>1. PICK depth : depth = [b \in {source} |-> 0]
    OBVIOUS
  <2>2. Cardinality({source}) = 1
    BY FS_Singleton
  <2>3. Depths(N, r, source, parent, depth)
    BY <1>3, <2>1, <2>2 DEF Depths
  <2> QED
    BY <2>3
<1>6. TreeOk(N, r, source, s)
  BY <1>2, <1>3, <1>4, <1>5 DEF TreeOk
<1>7. Turned(s, 0)
  <2>1. Cardinality({}) = 0 /\ DOMAIN s.parent \ ToSet(s.queue) = {}
    BY <1>2, <1>3, <1>4, FS_EmptySet
  <2> QED
    BY <2>1 DEF Turned
<1> QED
  BY <1>1, <1>6, <1>7

LEMMA TreeLoops ==
  ASSUME NEW N, IsFiniteSet(N), N \subseteq Nat, NEW r, NEW source \in N, NEW sink, NEW n \in Nat
  PROVE  /\ \E t : TreeLoop(t, r, N, source, sink, n)
         /\ \A t : TreeLoop(t, r, N, source, sink, n) =>
              TreeOk(N, r, source, t[n]) /\ TurnedOrDone(t[n], sink, n)
<1>1. PICK D : D = {s \in [parent : UNION {[X -> N] : X \in SUBSET N}, queue : Seq(N)] : TreeOk(N, r, source, s)}
  OBVIOUS
<1>0. ASSUME NEW s, TreeOk(N, r, source, s) PROVE s \in D
  <2>1. s.parent \in UNION {[X -> N] : X \in SUBSET N}
    <3>1. PICK p : p = s.parent
      OBVIOUS
    <3>2. DOMAIN p \subseteq N /\ p[source] = source /\ p = [b \in DOMAIN p |-> p[b]]
      BY <1>0, <3>1 DEF TreeOk
    <3>3. \A b \in DOMAIN p \ {source} : p[b] \in DOMAIN p
      BY <1>0, <3>1 DEF TreeOk, Depths
    <3>4. \A b \in DOMAIN p : p[b] \in N
      BY <3>2, <3>3
    <3>5. p \in [DOMAIN p -> N] /\ DOMAIN p \in SUBSET N
      BY <3>2, <3>4
    <3> QED
      BY <3>1, <3>5
  <2>2. s = [parent |-> s.parent, queue |-> s.queue] /\ s.queue \in Seq(N)
    BY <1>0 DEF TreeOk
  <2> QED
    BY <1>0, <1>1, <2>1, <2>2
<1>2. PICK a, on : a = TreeStart(source) /\ on = [s \in D |-> TreeTurn(r, N, sink, s)]
  OBVIOUS
<1>3. a \in D /\ TurnedOrDone(a, sink, 0)
  BY <1>0, <1>2, TreeStarts DEF TurnedOrDone
<1>4. ASSUME NEW s \in D
      PROVE  /\ on[s] \in D /\ on[s] = TreeTurn(r, N, sink, s) /\ TreeOk(N, r, source, s)
             /\ \A k \in Nat : TurnedOrDone(s, sink, k) => TurnedOrDone(on[s], sink, k + 1)
  <2>1. TreeOk(N, r, source, s)
    BY <1>1
  <2>2. PICK y : y = TreeTurn(r, N, sink, s)
    OBVIOUS
  <2>3. y \in D /\ \A k \in Nat : TurnedOrDone(s, sink, k) => TurnedOrDone(y, sink, k + 1)
    <3>1. CASE s.queue = <<>> \/ sink \in DOMAIN s.parent
      BY <2>2, <3>1 DEF TreeTurn, TurnedOrDone
    <3>2. CASE ~ (s.queue = <<>> \/ sink \in DOMAIN s.parent)
      <4>1. PICK z : z = Expand(r, N, s)
        OBVIOUS
      <4>2. TreeOk(N, r, source, z) /\ \A k \in Nat : Turned(s, k) => Turned(z, k + 1)
        BY <2>1, <3>2, <4>1, ExpandKeeps
      <4>3. y = z
        BY <2>2, <3>2, <4>1 DEF TreeTurn
      <4> QED
        BY <1>0, <3>2, <4>2, <4>3 DEF TurnedOrDone
    <3> QED
      BY <3>1, <3>2
  <2> QED
    BY <1>2, <2>1, <2>2, <2>3
<1>5. on \in [D -> D]
  BY <1>2, <1>4
<1>6. PICK t0 : Loop(t0, a, on, n)
  BY <1>3, <1>5, LoopExists
<1>7. TreeLoop(t0, r, N, source, sink, n)
  <2>1. \A k \in 1..n : t0[k - 1] \in D
    BY <1>3, <1>5, <1>6, LoopIs
  <2>2. \A k \in 0..n : k # 0 => k \in 1..n
    OBVIOUS
  <2>3. \A k \in 0..n : (IF k = 0 THEN a ELSE on[t0[k - 1]]) =
          IF k = 0 THEN TreeStart(source) ELSE TreeTurn(r, N, sink, t0[k - 1])
    BY <1>2, <1>4, <2>1, <2>2
  <2> QED
    BY <1>6, <2>3 DEF TreeLoop, Loop
<1>8. ASSUME NEW t, TreeLoop(t, r, N, source, sink, n)
      PROVE  TreeOk(N, r, source, t[n]) /\ TurnedOrDone(t[n], sink, n)
  <2> DEFINE Step(k) == IF k = 0 THEN a ELSE TreeTurn(r, N, sink, t[k - 1])
  <2>1. t = [k \in 0..n |-> Step(k)]
    BY <1>2, <1>8 DEF TreeLoop
  <2> HIDE DEF Step
  <2>2. \A k \in 0..n : t[k] = Step(k)
    BY <2>1
  <2> USE DEF Step
  <2>3. t[0] = a /\ \A k \in 1..n : t[k] = TreeTurn(r, N, sink, t[k - 1])
    BY <2>2
  <2> DEFINE Good == {k \in 0..n : t[k] \in D /\ TurnedOrDone(t[k], sink, k)}
  <2>4. 0 \in Good
    BY <1>3, <2>3
  <2>5. ASSUME NEW k \in 1..n, k - 1 \in Good PROVE k \in Good
    <3>1. PICK s, j : s = t[k - 1] /\ j = k - 1
      OBVIOUS
    <3>2. s \in D /\ TurnedOrDone(s, sink, j) /\ j \in Nat /\ j + 1 = k
      BY <2>5, <3>1
    <3>3. t[k] = on[s]
      BY <1>4, <2>3, <3>1, <3>2
    <3>4. on[s] \in D /\ TurnedOrDone(on[s], sink, k)
      BY <1>4, <3>2
    <3> QED
      BY <3>3, <3>4
  <2> HIDE DEF Good, Step
  <2>6. \A k \in 0..n : k \in Good
    BY <2>4, <2>5, UpTo
  <2>7. n \in Good
    BY <2>6
  <2> QED
    BY <1>4, <2>7 DEF Good
<1> QED
  BY <1>7, <1>8

(* The tree reaches the sink, or nothing outside it can be reached.        *)
IsTree(N, r, source, sink, p) ==
    /\ source \in DOMAIN p /\ DOMAIN p \subseteq N /\ p[source] = source
    /\ \E depth : Depths(N, r, source, p, depth)
    /\ sink \notin DOMAIN p => \A a \in DOMAIN p : \A b \in N : r[<<a, b>>] > 0 => b \in DOMAIN p

LEMMA TreeIs ==
  ASSUME NEW N, IsFiniteSet(N), N \subseteq Nat, NEW r, NEW source \in N, NEW sink
  PROVE  IsTree(N, r, source, sink, SearchTree(r, N, source, sink))
<1>1. PICK n : n = Cardinality(N) /\ n \in Nat
  BY FS_CardinalityType
<1> DEFINE chosen == CHOOSE t : TreeLoop(t, r, N, source, sink, n)
<1>2. TreeLoop(chosen, r, N, source, sink, n)
  BY <1>1, TreeLoops
<1>3. SearchTree(r, N, source, sink) = chosen[n].parent
  <2>1. SearchTree(r, N, source, sink) =
          (CHOOSE t : TreeLoop(t, r, N, source, sink, Cardinality(N)))[Cardinality(N)].parent
    BY Zenon DEF SearchTree, TreeLoop, TreeStart, TreeTurn
  <2> QED
    BY <1>1, <2>1, Zenon
<1> HIDE DEF chosen
<1>4. PICK s, p : s = chosen[n] /\ p = s.parent
  OBVIOUS
<1>5. TreeOk(N, r, source, s) /\ TurnedOrDone(s, sink, n)
  BY <1>1, <1>2, <1>4, TreeLoops
<1>6. ASSUME sink \notin DOMAIN p, NEW a \in DOMAIN p, NEW b \in N, r[<<a, b>>] > 0 PROVE b \in DOMAIN p
  <2>1. s.queue = <<>>
    <3> SUFFICES ASSUME s.queue # <<>> PROVE FALSE
      OBVIOUS
    <3>1. PICK X : X = DOMAIN p \ ToSet(s.queue)
      OBVIOUS
    <3>2. Cardinality(X) = n
      BY <1>4, <1>5, <1>6, <3>1 DEF TurnedOrDone, Turned
    <3>3. Head(s.queue) \in ToSet(s.queue)
      <4>1. s.queue \in Seq(N)
        BY <1>5 DEF TreeOk
      <4> QED
        BY <4>1, SetOfTail
    <3>4. X \subseteq N /\ X # N
      BY <1>4, <1>5, <3>1, <3>3 DEF TreeOk
    <3>5. Cardinality(X) = Cardinality(N) => X = N
      BY <3>4, FS_Subset
    <3> QED
      BY <1>1, <3>2, <3>4, <3>5
  <2>2. DOMAIN p \ ToSet(s.queue) = DOMAIN p
    BY <2>1, SetOfEmpty
  <2> QED
    BY <1>4, <1>5, <1>6, <2>2 DEF TreeOk
<1>7. source \in DOMAIN p /\ DOMAIN p \subseteq N /\ p[source] = source /\ \E depth : Depths(N, r, source, p, depth)
  BY <1>4, <1>5 DEF TreeOk
<1>8. IsTree(N, r, source, sink, p)
  BY <1>6, <1>7 DEF IsTree
<1> QED
  BY <1>3, <1>4, <1>8

(* The parents of the sink are a path with room.                           *)
PathEdges(t, parent, m) ==
    {<<t[k], t[k - 1]>> : k \in 1..m} \cap {e \in (DOMAIN parent) \X (DOMAIN parent) : e[1] # e[2]}

LEMMA PathFound ==
  ASSUME NEW N, IsFiniteSet(N), NEW r, NEW source, NEW sink, source # sink,
         NEW p, IsTree(N, r, source, sink, p), sink \in DOMAIN p
  PROVE  \E q, l : IsPath(N, r, PathOf(p, sink), q, l, source, sink)
<1>1. PICK M, depth : M = DOMAIN p /\ Depths(N, r, source, p, depth)
  BY DEF IsTree
<1>2. /\ source \in M /\ M \subseteq N /\ p[source] = source /\ sink \in M
      /\ depth \in [M -> Nat] /\ depth[source] = 0
      /\ \A b \in M : depth[b] < Cardinality(M)
      /\ \A b \in M \ {source} : p[b] \in M /\ depth[b] = depth[p[b]] + 1 /\ r[<<p[b], b>>] > 0
  BY <1>1 DEF IsTree, Depths
<1>3. PICK m : m = Cardinality(M) /\ m \in Nat
  <2>1. IsFiniteSet(M)
    BY <1>2, FS_Subset
  <2> QED
    BY <2>1, FS_CardinalityType
<1>4. PICK on : on = [b \in M |-> p[b]]
  OBVIOUS
<1>5. on \in [M -> M] /\ \A b \in M : on[b] = p[b]
  BY <1>2, <1>4
<1> DEFINE chosen == CHOOSE t : Loop(t, sink, p, m)
<1>6. Loop(chosen, sink, p, m)
  <2>1. PICK t : Loop(t, sink, on, m)
    BY <1>2, <1>3, <1>5, LoopExists
  <2>2. \A k \in 1..m : t[k - 1] \in M
    BY <1>2, <1>3, <1>5, <2>1, LoopIs
  <2>3. \A k \in 0..m : k # 0 => k \in 1..m
    OBVIOUS
  <2>4. \A k \in 0..m : (IF k = 0 THEN sink ELSE on[t[k - 1]]) = (IF k = 0 THEN sink ELSE p[t[k - 1]])
    BY <1>5, <2>2, <2>3
  <2>5. Loop(t, sink, p, m)
    BY <2>1, <2>4 DEF Loop
  <2> QED
    BY <2>5
<1>7. PathOf(p, sink) = PathEdges(chosen, p, m)
  <2>1. PathOf(p, sink) = PathEdges(CHOOSE t : Loop(t, sink, p, Cardinality(DOMAIN p)), p, Cardinality(DOMAIN p))
    BY Zenon DEF PathOf, PathEdges, Loop
  <2>2. m = Cardinality(DOMAIN p)
    BY <1>1, <1>3
  <2> QED
    BY <2>1, <2>2, Zenon
<1> HIDE DEF chosen
<1>8. PICK t : t = chosen
  OBVIOUS
<1>9. t[0] = sink /\ \A k \in 1..m : t[k] = p[t[k - 1]]
  <2> DEFINE Step(k) == IF k = 0 THEN sink ELSE p[t[k - 1]]
  <2>1. t = [k \in 0..m |-> Step(k)]
    BY <1>6, <1>8 DEF Loop
  <2> HIDE DEF Step
  <2>2. \A k \in 0..m : t[k] = Step(k)
    BY <2>1
  <2> USE DEF Step
  <2> QED
    BY <1>3, <2>2
<1>10. PICK l : l = depth[sink]
  OBVIOUS
<1>11. l \in Nat \ {0} /\ l < m
  <2>1. depth[p[sink]] \in Nat /\ depth[sink] = depth[p[sink]] + 1 /\ depth[sink] < Cardinality(M)
    BY <1>2
  <2> QED
    BY <1>3, <1>10, <2>1
<1>12. \A b \in M : depth[b] \in Nat /\ (depth[b] = 0 => b = source)
  <2>1. \A b \in M \ {source} : depth[p[b]] \in Nat /\ depth[b] = depth[p[b]] + 1
    BY <1>2
  <2> QED
    BY <1>2, <2>1
<1>13. ASSUME NEW k \in 0..l PROVE t[k] \in M /\ depth[t[k]] = l - k
  <2>1. PICK G : G = {i \in 0..l : t[i] \in M /\ depth[t[i]] = l - i}
    OBVIOUS
  <2>2. 0 \in G
    BY <1>2, <1>9, <1>10, <1>11, <2>1
  <2>3. ASSUME NEW i \in 1..l, i - 1 \in G PROVE i \in G
    <3>1. t[i - 1] \in M /\ depth[t[i - 1]] = l - (i - 1)
      BY <2>1, <2>3
    <3>2. PICK b : b = t[i - 1]
      OBVIOUS
    <3>3. b \in M /\ depth[b] = l - (i - 1) /\ depth[b] # 0
      BY <1>11, <3>1, <3>2
    <3>4. p[b] \in M /\ depth[b] = depth[p[b]] + 1 /\ depth[p[b]] \in Nat
      BY <1>2, <3>3
    <3>5. t[i] = p[b]
      <4>1. i \in 1..m
        BY <1>3, <1>11
      <4> QED
        BY <1>9, <3>2, <4>1
    <3>6. depth[t[i]] = l - i
      BY <1>11, <3>3, <3>4, <3>5
    <3> QED
      BY <2>1, <3>4, <3>5, <3>6
  <2>4. \A i \in 0..l : i \in G
    BY <1>11, <2>2, <2>3, UpTo
  <2> QED
    BY <2>1, <2>4
<1>14. t[l] = source
  <2>1. l \in 0..l /\ l - l = 0
    BY <1>11
  <2> QED
    BY <1>12, <1>13, <2>1
<1>15. ASSUME NEW k \in 0..m, l <= k PROVE t[k] = source
  <2>1. PICK G : G = {i \in 0..m : i < l \/ t[i] = source}
    OBVIOUS
  <2>2. 0 \in G
    BY <1>3, <1>11, <2>1
  <2>3. ASSUME NEW i \in 1..m, i - 1 \in G PROVE i \in G
    <3>1. CASE i < l
      BY <2>1, <3>1
    <3>2. CASE i = l
      BY <1>14, <2>1, <3>2
    <3>3. CASE l < i
      <4>1. t[i - 1] = source
        BY <1>11, <2>1, <2>3, <3>3
      <4>2. t[i] = source
        BY <1>2, <1>9, <4>1
      <4> QED
        BY <2>1, <4>2
    <3> QED
      BY <1>11, <3>1, <3>2, <3>3
  <2>4. \A i \in 0..m : i \in G
    BY <1>3, <2>2, <2>3, UpTo
  <2> QED
    BY <1>11, <1>15, <2>1, <2>4
<1>16. PICK q : q = [k \in 0..l |-> t[k]]
  OBVIOUS
<1>17. (\A k \in 0..l : q[k] = t[k]) /\ q \in [0..l -> N]
  BY <1>2, <1>13, <1>16
<1>18. ASSUME NEW i \in 0..l, NEW j \in 0..l, q[i] = q[j] PROVE i = j
  <2>1. l - i = l - j
    BY <1>13, <1>17, <1>18
  <2> QED
    BY <1>11, <2>1
<1>19. PICK P : P = PathEdges(t, p, m)
  OBVIOUS
<1>20. ASSUME NEW i \in 1..l PROVE <<q[i], q[i - 1]>> \in P /\ r[<<q[i], q[i - 1]>>] > 0
  <2>1. i \in 0..l /\ i - 1 \in 0..l /\ i \in 1..m
    BY <1>3, <1>11
  <2>2. PICK a, b : a = t[i] /\ b = t[i - 1]
    OBVIOUS
  <2>3. a \in M /\ b \in M /\ depth[a] = l - i /\ depth[b] = l - (i - 1)
    BY <1>13, <2>1, <2>2
  <2>4. depth[a] # depth[b] /\ depth[b] # 0
    BY <1>11, <2>3
  <2>5. a = p[b] /\ r[<<p[b], b>>] > 0
    BY <1>2, <1>9, <2>1, <2>2, <2>3, <2>4
  <2>6. <<a, b>> \in {<<t[k], t[k - 1]>> : k \in 1..m}
    BY <2>1, <2>2
  <2>7. <<a, b>> \in {e \in (DOMAIN p) \X (DOMAIN p) : e[1] # e[2]}
    BY <1>1, <2>3, <2>4
  <2>8. <<a, b>> \in P
    BY <1>19, <2>6, <2>7 DEF PathEdges
  <2> QED
    BY <1>17, <2>1, <2>2, <2>5, <2>8
<1>21. ASSUME NEW e \in P PROVE \E i \in 1..l : e = <<q[i], q[i - 1]>>
  <2>1. e \in {<<t[k], t[k - 1]>> : k \in 1..m} /\ e[1] # e[2]
    BY <1>19 DEF PathEdges
  <2>2. PICK k \in 1..m : e = <<t[k], t[k - 1]>>
    BY <2>1
  <2>3. t[k] # t[k - 1]
    BY <2>1, <2>2
  <2>4. k \in 1..l
    <3> SUFFICES ASSUME l < k PROVE FALSE
      BY <1>11
    <3>1. k \in 0..m /\ k - 1 \in 0..m /\ l <= k /\ l <= k - 1
      BY <1>3, <1>11
    <3> QED
      BY <1>15, <2>3, <3>1
  <2>5. k \in 0..l /\ k - 1 \in 0..l
    BY <1>11, <2>4
  <2> QED
    BY <1>17, <2>2, <2>4, <2>5
<1>22. q[0] = sink /\ q[l] = source
  BY <1>9, <1>11, <1>14, <1>17
<1>23. IsPath(N, r, P, q, l, source, sink)
  BY <1>11, <1>17, <1>18, <1>20, <1>21, <1>22 DEF IsPath
<1>24. P = PathOf(p, sink)
  BY <1>7, <1>8, <1>19
<1> QED
  BY <1>23, <1>24
---------------------------------------------------------------------------
(* The flow on the edges is what they have lost: at most their capacity,   *)
(* and conserved where the room that leaves a node is what it was.         *)
LEMMA FlowBounded ==
  ASSUME NEW capacity, NEW N, NEW source, NEW sink, IsNetwork(capacity, N, source, sink), NEW c, c = Extended(capacity, N),
         NEW r, Roomy(N, c, r), NEW e \in DOMAIN capacity
  PROVE  /\ r[e] \in Nat /\ capacity[e] - r[e] \in 0..capacity[e]
         /\ c[e] = capacity[e]
<1>1. OnPairs(N, r) /\ e \in Pairs(N) /\ c[e] = capacity[e] /\ capacity[e] \in Nat /\ Back(e) \notin DOMAIN capacity
  <2>1. \A d \in DOMAIN capacity : c[d] = capacity[d] /\ d \in Pairs(N)
    BY ExtendedIs
  <2>2. OnPairs(N, r)
    BY DEF Roomy
  <2>3. capacity[e] \in Nat /\ Back(e) \notin DOMAIN capacity
    BY DEF IsNetwork
  <2> QED
    BY <2>1, <2>2, <2>3
<1>2. Back(e) \in Pairs(N)
  BY <1>1, BackIs
<1>3. r[e] \in Nat /\ r[Back(e)] \in Nat
  BY <1>1, <1>2, AllPairs
<1>4. c[Back(e)] = 0
  BY <1>1, <1>2, ExtendedIs
<1>5. r[e] + r[Back(e)] = c[e] + c[Back(e)]
  BY <1>1 DEF Roomy
<1> QED
  BY <1>1, <1>3, <1>4, <1>5

LEMMA FlowConserved ==
  ASSUME NEW capacity, NEW N, NEW source, NEW sink, IsNetwork(capacity, N, source, sink), NEW c, c = Extended(capacity, N),
         NEW r, Roomy(N, c, r), NEW n \in N, Spends(N, c, r, n, 0),
         NEW f, \A e \in DOMAIN capacity : f[e] = capacity[e] - r[e]
  PROVE  SumFunctionOnSet(f, {e \in DOMAIN capacity : e[1] = n}) = SumFunctionOnSet(f, {e \in DOMAIN capacity : e[2] = n})
<1>1. PICK E, R, Outs, Ins, m, B, x :
        /\ E = DOMAIN capacity /\ R = From(N, {n})
        /\ Outs = {e \in E : e[1] = n} /\ Ins = {e \in E : e[2] = n}
        /\ m = [e \in Ins |-> Back(e)] /\ B = {m[e] : e \in Ins}
        /\ x = [e \in Pairs(N) |-> c[e] - r[e]]
  OBVIOUS
<1>2. /\ IsFiniteSet(N) /\ E \subseteq Pairs(N) /\ OnPairs(N, c) /\ OnPairs(N, r)
      /\ (\A e \in E : c[e] = capacity[e] /\ Back(e) \notin E)
      /\ \A e \in Pairs(N) \ E : c[e] = 0
  <2>1. OnPairs(N, c) /\ (\A e \in E : c[e] = capacity[e]) /\ \A e \in Pairs(N) \ E : c[e] = 0
    BY <1>1, ExtendedIs
  <2> QED
    BY <1>1, <2>1 DEF IsNetwork, Roomy
<1>3. \A e \in Pairs(N) : /\ Back(e) \in Pairs(N) /\ Back(Back(e)) = e /\ e = <<e[1], e[2]>>
                          /\ c[e] \in Nat /\ r[e] \in Nat /\ r[e] + r[Back(e)] = c[e] + c[Back(e)]
                          /\ x[e] = c[e] - r[e]
  <2>1. \A e \in Pairs(N) : Back(e) \in Pairs(N) /\ Back(Back(e)) = e /\ e = <<e[1], e[2]>>
    BY BackIs
  <2>2. \A e \in Pairs(N) : c[e] \in Nat /\ r[e] \in Nat
    BY <1>2, AllPairs
  <2> QED
    BY <1>1, <2>1, <2>2 DEF Roomy
<1>4. \A e \in Pairs(N) : x[e] \in Int /\ x[Back(e)] \in Int /\ x[Back(e)] = 0 - x[e]
  <2> SUFFICES ASSUME NEW e \in Pairs(N) PROVE x[e] \in Int /\ x[Back(e)] \in Int /\ x[Back(e)] = 0 - x[e]
    OBVIOUS
  <2>1. PICK b : b = Back(e)
    OBVIOUS
  <2>2. /\ b \in Pairs(N) /\ c[e] \in Nat /\ c[b] \in Nat /\ r[e] \in Nat /\ r[b] \in Nat
        /\ r[e] + r[b] = c[e] + c[b] /\ x[e] = c[e] - r[e] /\ x[b] = c[b] - r[b]
    BY <1>3, <2>1
  <2> QED
    BY <2>1, <2>2
<1>5. \A e \in E : e \in Pairs(N) /\ f[e] = x[e] /\ f[e] \in Int
  BY <1>1, <1>2, <1>3, <1>4
<1>6. R \subseteq Pairs(N) /\ (\A e \in R : e[1] = n) /\ \A e \in Pairs(N) : e[1] = n => e \in R
  <2>1. R \subseteq Pairs(N) /\ \A e \in R : e[1] = n
    BY <1>1 DEF From, Pairs
  <2>2. ASSUME NEW e \in Pairs(N), e[1] = n PROVE e \in R
    <3>1. e = <<n, e[2]>> /\ e[2] \in N
      BY <1>3, <2>2 DEF Pairs
    <3> QED
      BY <1>1, <3>1 DEF From
  <2> QED
    BY <2>1, <2>2
<1>7. Outs \subseteq R
  BY <1>1, <1>5, <1>6
<1>8. \A e \in Ins : m[e] = Back(e) /\ e \in E /\ e \in Pairs(N) /\ Back(e)[1] = n /\ Back(e) \in R
  <2>1. \A e \in Ins : m[e] = Back(e) /\ e \in E /\ e \in Pairs(N) /\ Back(e)[1] = n
    BY <1>1, <1>2 DEF Back
  <2> QED
    BY <1>3, <1>6, <2>1
<1>9. B \subseteq R /\ Outs \cap B = {}
  <2>1. B \subseteq R
    BY <1>1, <1>8
  <2>2. ASSUME NEW e \in B PROVE e \notin E
    <3>1. PICK d \in Ins : e = m[d]
      BY <1>1
    <3>2. e = Back(d) /\ d \in E
      BY <1>8, <3>1
    <3> QED
      BY <1>2, <3>2
  <2>3. \A e \in Outs : e \in E
    BY <1>1
  <2> QED
    BY <2>1, <2>2, <2>3
<1>10. PICK Rest : Rest = R \ (Outs \cup B)
  OBVIOUS
<1>11. \A e \in Rest : x[e] = 0
  <2> SUFFICES ASSUME NEW e \in Rest PROVE x[e] = 0
    OBVIOUS
  <2>1. e \in R /\ e \notin Outs /\ e \notin B /\ e \in Pairs(N) /\ e[1] = n
    BY <1>6, <1>10
  <2>2. e \notin E
    BY <1>1, <2>1
  <2>3. Back(e) \notin E
    <3> SUFFICES ASSUME Back(e) \in E PROVE FALSE
      OBVIOUS
    <3>1. Back(e)[2] = n
      BY <2>1 DEF Back
    <3>2. Back(e) \in Ins
      BY <1>1, <3>1
    <3>3. m[Back(e)] = e
      BY <1>3, <1>8, <2>1, <3>2
    <3> QED
      BY <1>1, <2>1, <3>2, <3>3
  <2>4. PICK b : b = Back(e)
    OBVIOUS
  <2>5. b \in Pairs(N) /\ r[e] + r[b] = c[e] + c[b] /\ r[e] \in Nat /\ r[b] \in Nat /\ x[e] = c[e] - r[e]
    BY <1>3, <2>1, <2>4
  <2>6. c[e] = 0 /\ c[b] = 0
    BY <1>2, <2>1, <2>2, <2>3, <2>4, <2>5
  <2> QED
    BY <2>5, <2>6
<1>12. IsFiniteSet(R) /\ IsFiniteSet(Outs) /\ IsFiniteSet(Ins) /\ IsFiniteSet(B) /\ IsFiniteSet(Outs \cup B) /\ IsFiniteSet(Rest)
  <2>1. /\ R \subseteq Pairs(N) /\ Outs \subseteq Pairs(N) /\ Ins \subseteq Pairs(N) /\ B \subseteq Pairs(N)
        /\ Outs \cup B \subseteq Pairs(N) /\ Rest \subseteq Pairs(N)
    BY <1>6, <1>7, <1>8, <1>9, <1>10
  <2> QED
    BY <1>2, <2>1, PairsFinite
<1>13. \A e \in R : c[e] \in Int /\ r[e] \in Int /\ x[e] \in Int /\ c[e] = r[e] + x[e]
  BY <1>3, <1>4, <1>6
<1>14. SumFunctionOnSet(c, R) = SumFunctionOnSet(r, R) + SumFunctionOnSet(x, R)
  <2>1. \A e \in R : r[e] \in Int /\ x[e] \in Int /\ c[e] = r[e] + x[e]
    BY <1>13
  <2> QED
    BY <1>12, <2>1, SumPlus
<1>15. SumFunctionOnSet(c, R) = SumFunctionOnSet(r, R) + 0
  BY <1>1 DEF Spends
<1>16. SumFunctionOnSet(r, R) \in Int /\ SumFunctionOnSet(x, R) \in Int
  <2>1. (\A e \in R : r[e] \in Int) /\ (\A e \in R : x[e] \in Int)
    BY <1>13
  <2> QED
    BY <1>12, <2>1, SumAdds
<1>17. SumFunctionOnSet(x, R) = 0
  <2>1. PICK a, b, d : a = SumFunctionOnSet(r, R) /\ b = SumFunctionOnSet(x, R) /\ d = SumFunctionOnSet(c, R)
    OBVIOUS
  <2>2. a \in Int /\ b \in Int /\ d = a + b /\ d = a + 0
    BY <1>14, <1>15, <1>16, <2>1
  <2>3. b = 0
    BY ONLY <2>2
  <2> QED
    BY <2>1, <2>3
<1>18. SumFunctionOnSet(x, R) = SumFunctionOnSet(x, Outs \cup B) + SumFunctionOnSet(x, Rest)
  <2>1. (Outs \cup B) \cap Rest = {} /\ (Outs \cup B) \cup Rest = R
    BY <1>7, <1>9, <1>10
  <2>2. \A e \in (Outs \cup B) \cup Rest : x[e] \in Int
    BY <1>13, <2>1
  <2>3. SumFunctionOnSet(x, (Outs \cup B) \cup Rest) = SumFunctionOnSet(x, Outs \cup B) + SumFunctionOnSet(x, Rest)
    BY <1>12, <2>1, <2>2, SumUnion
  <2> QED
    BY <2>1, <2>3
<1>19. SumFunctionOnSet(x, Outs \cup B) = SumFunctionOnSet(x, Outs) + SumFunctionOnSet(x, B)
  <2>1. \A e \in Outs \cup B : x[e] \in Int
    BY <1>7, <1>9, <1>13
  <2> QED
    BY <1>9, <1>12, <2>1, SumUnion
<1>20. SumFunctionOnSet(x, Rest) = 0
  BY <1>11, <1>12, SumZero
<1>21. SumFunctionOnSet(x, Outs) = SumFunctionOnSet(f, Outs)
  <2>1. \A e \in Outs : x[e] \in Int /\ f[e] = x[e]
    BY <1>1, <1>4, <1>5
  <2> QED
    BY <1>12, <2>1, SumSame
<1>22. PICK y, zero : y = [e \in Ins |-> 0 - f[e]] /\ zero = [e \in Ins |-> 0]
  OBVIOUS
<1>23. \A e \in Ins : f[e] \in Int /\ y[e] \in Int /\ y[e] = 0 - f[e] /\ zero[e] = 0 /\ zero[e] = f[e] + y[e]
  BY <1>5, <1>8, <1>22
<1>24. SumFunctionOnSet(x, B) = SumFunctionOnSet(y, Ins)
  <2>1. \A d, e \in Ins : m[d] = m[e] => d = e
    <3>1. \A e \in Ins : Back(m[e]) = e
      BY <1>3, <1>8
    <3> QED
      BY <3>1
  <2>2. \A e \in Ins : y[e] \in Int /\ x[m[e]] = y[e]
    BY <1>4, <1>5, <1>8, <1>23
  <2>3. SumFunctionOnSet(x, {m[e] : e \in Ins}) = SumFunctionOnSet(y, Ins)
    BY <1>12, <2>1, <2>2, SumRenamed
  <2> QED
    BY <1>1, <2>3
<1>25. SumFunctionOnSet(zero, Ins) = SumFunctionOnSet(f, Ins) + SumFunctionOnSet(y, Ins)
  <2>1. \A e \in Ins : f[e] \in Int /\ y[e] \in Int /\ zero[e] = f[e] + y[e]
    BY <1>23
  <2> QED
    BY <1>12, <2>1, SumPlus
<1>26. SumFunctionOnSet(zero, Ins) = 0
  BY <1>12, <1>23, SumZero
<1>27. SumFunctionOnSet(f, Outs) \in Int /\ SumFunctionOnSet(f, Ins) \in Int /\ SumFunctionOnSet(y, Ins) \in Int
  <2>1. (\A e \in Outs : f[e] \in Int) /\ (\A e \in Ins : f[e] \in Int) /\ (\A e \in Ins : y[e] \in Int)
    BY <1>1, <1>5, <1>23
  <2> QED
    BY <1>12, <2>1, SumAdds
<1>28. PICK a, b, d : a = SumFunctionOnSet(f, Outs) /\ b = SumFunctionOnSet(f, Ins) /\ d = SumFunctionOnSet(y, Ins)
  OBVIOUS
<1>29. a \in Int /\ b \in Int /\ d \in Int /\ (a + d) + 0 = 0 /\ b + d = 0
  BY <1>17, <1>18, <1>19, <1>20, <1>21, <1>24, <1>25, <1>26, <1>27, <1>28
<1>30. a = b
  BY ONLY <1>29
<1> QED
  BY <1>1, <1>28, <1>30
---------------------------------------------------------------------------
(* The maximum flow: each turn adds a path while the search finds one.     *)
FlowStart(capacity, N) ==
    [residual |-> [e \in N \X N |-> IF e \in DOMAIN capacity THEN capacity[e] ELSE 0], total |-> 0]

FlowTurn(N, source, sink, s) ==
    LET tree == SearchTree(s.residual, N, source, sink)
    IN  IF sink \notin DOMAIN tree THEN s ELSE Augment(s, PathOf(tree, sink))

FlowLoop(t, capacity, N, source, sink, n) ==
    t = [k \in 0..n |-> IF k = 0 THEN FlowStart(capacity, N) ELSE FlowTurn(N, source, sink, t[k - 1])]

FlowOf(s, capacity) == [total |-> s.total, flow |-> [e \in DOMAIN capacity |-> capacity[e] - s.residual[e]]]

FlowState(N, c, source, sink, s) ==
    /\ s = [residual |-> s.residual, total |-> s.total]
    /\ FlowOk(N, c, s.residual, s.total, source, sink)

Blocked(N, source, sink, s) == sink \notin DOMAIN SearchTree(s.residual, N, source, sink)

Flowed(N, source, sink, s, k) == Blocked(N, source, sink, s) \/ s.total >= k

(* A turn on a state that is not blocked.                                  *)
LEMMA FlowGrows ==
  ASSUME NEW N, IsFiniteSet(N), N \subseteq Nat, NEW c, OnPairs(N, c), NEW source \in N, NEW sink \in N, source # sink,
         NEW s, FlowState(N, c, source, sink, s), ~ Blocked(N, source, sink, s)
  PROVE  /\ FlowState(N, c, source, sink, FlowTurn(N, source, sink, s))
         /\ s.total \in Nat /\ FlowTurn(N, source, sink, s).total \in Nat
         /\ FlowTurn(N, source, sink, s).total > s.total
<1>1. PICK r, total, tree, P, y : /\ r = s.residual /\ total = s.total /\ tree = SearchTree(r, N, source, sink)
                                  /\ P = PathOf(tree, sink) /\ y = FlowTurn(N, source, sink, s)
  OBVIOUS
<1>2. s = [residual |-> r, total |-> total] /\ FlowOk(N, c, r, total, source, sink)
  BY <1>1 DEF FlowState
<1>3. sink \in DOMAIN tree
  BY <1>1 DEF Blocked
<1>4. y = Augment([residual |-> r, total |-> total], P)
  BY <1>1, <1>2, <1>3, Zenon DEF FlowTurn
<1>5. IsTree(N, r, source, sink, tree)
  BY <1>1, TreeIs
<1>6. PICK q, l : IsPath(N, r, P, q, l, source, sink)
  BY <1>1, <1>3, <1>5, PathFound
<1>7. PICK g, v : Enlarged(N, c, r, total, P, source, sink, g, v)
  <2>1. IsFiniteSet(N) /\ OnPairs(N, c) /\ source # sink
    OBVIOUS
  <2>2. FlowOk(N, c, r, total, source, sink) /\ IsPath(N, r, P, q, l, source, sink)
    BY <1>2, <1>6
  <2> QED
    BY ONLY source \in N, sink \in N, <2>1, <2>2, AugmentKeeps
<1>8. y = [residual |-> g, total |-> total + v] /\ y.residual = g /\ y.total = total + v
  BY <1>4, <1>7 DEF Enlarged
<1>9. FlowState(N, c, source, sink, y)
  BY <1>7, <1>8 DEF Enlarged, FlowState
<1>10. total \in Nat
  BY <1>2 DEF FlowOk
<1>11. total + v \in Nat /\ total + v > total
  <2>1. v \in Nat \ {0}
    BY <1>7 DEF Enlarged
  <2> QED
    BY ONLY <1>10, <2>1
<1> QED
  BY <1>1, <1>8, <1>9, <1>10, <1>11

LEMMA FlowTurns ==
  ASSUME NEW N, IsFiniteSet(N), N \subseteq Nat, NEW c, OnPairs(N, c), NEW source \in N, NEW sink \in N, source # sink,
         NEW s, FlowState(N, c, source, sink, s)
  PROVE  /\ FlowState(N, c, source, sink, FlowTurn(N, source, sink, s))
         /\ \A k \in Nat : Flowed(N, source, sink, s, k) => Flowed(N, source, sink, FlowTurn(N, source, sink, s), k + 1)
<1>1. PICK y : y = FlowTurn(N, source, sink, s)
  OBVIOUS
<1>2. CASE Blocked(N, source, sink, s)
  <2>1. y = s
    BY <1>1, <1>2, Zenon DEF FlowTurn, Blocked
  <2> QED
    BY <1>1, <1>2, <2>1 DEF Flowed
<1>3. CASE ~ Blocked(N, source, sink, s)
  <2>1. FlowState(N, c, source, sink, y)
    BY <1>1, <1>3, FlowGrows
  <2>2. PICK a, b : a = s.total /\ b = y.total
    OBVIOUS
  <2>3. a \in Nat /\ b \in Nat /\ b > a
    BY <1>1, <1>3, <2>2, FlowGrows
  <2>4. ASSUME NEW k \in Nat, Flowed(N, source, sink, s, k) PROVE Flowed(N, source, sink, y, k + 1)
    <3>1. a >= k
      BY <1>3, <2>2, <2>4 DEF Flowed
    <3>2. b >= k + 1
      BY ONLY <2>3, <3>1, k \in Nat
    <3> QED
      BY <2>2, <3>2 DEF Flowed
  <2> QED
    BY <1>1, <2>1, <2>4
<1> QED
  BY <1>2, <1>3

LEMMA FlowLoops ==
  ASSUME NEW capacity, NEW N, NEW source, NEW sink, IsNetwork(capacity, N, source, sink), NEW c, c = Extended(capacity, N),
         NEW n \in Nat
  PROVE  /\ \E t : FlowLoop(t, capacity, N, source, sink, n)
         /\ \A t : FlowLoop(t, capacity, N, source, sink, n) =>
              FlowState(N, c, source, sink, t[n]) /\ Flowed(N, source, sink, t[n], n)
<1>0. /\ IsFiniteSet(N) /\ N \subseteq Nat /\ source \in N /\ sink \in N /\ source # sink
      /\ OnPairs(N, c)
  BY ExtendedIs DEF IsNetwork
<1>1. PICK D : D = {s \in [residual : [Pairs(N) -> Nat], total : Nat] : FlowState(N, c, source, sink, s)}
  OBVIOUS
<1>2. ASSUME NEW s, FlowState(N, c, source, sink, s) PROVE s \in D
  <2>1. s.residual \in [Pairs(N) -> Nat] /\ s.total \in Nat
    BY <1>2 DEF FlowState, FlowOk, Roomy, OnPairs
  <2>2. s = [residual |-> s.residual, total |-> s.total]
    BY <1>2 DEF FlowState
  <2> QED
    BY <1>1, <1>2, <2>1, <2>2
<1>3. PICK a, on : a = FlowStart(capacity, N) /\ on = [s \in D |-> FlowTurn(N, source, sink, s)]
  OBVIOUS
<1>4. a \in D /\ Flowed(N, source, sink, a, 0)
  <2>1. a = [residual |-> c, total |-> 0]
    BY <1>3, Zenon DEF FlowStart, Extended, Pairs
  <2>2. a.residual = c /\ a.total = 0
    BY <2>1
  <2>3. FlowOk(N, c, c, 0, source, sink)
    BY <1>0, FlowStarts
  <2>4. FlowState(N, c, source, sink, a)
    BY <2>1, <2>2, <2>3 DEF FlowState
  <2> QED
    BY <1>2, <2>2, <2>4 DEF Flowed
<1>5. ASSUME NEW s \in D
      PROVE  /\ on[s] \in D /\ on[s] = FlowTurn(N, source, sink, s) /\ FlowState(N, c, source, sink, s)
             /\ \A k \in Nat : Flowed(N, source, sink, s, k) => Flowed(N, source, sink, on[s], k + 1)
  <2>1. FlowState(N, c, source, sink, s)
    BY <1>1
  <2>2. PICK y : y = FlowTurn(N, source, sink, s)
    OBVIOUS
  <2>3. /\ FlowState(N, c, source, sink, y)
        /\ \A k \in Nat : Flowed(N, source, sink, s, k) => Flowed(N, source, sink, y, k + 1)
    BY <1>0, <2>1, <2>2, FlowTurns
  <2>4. on[s] = y /\ y \in D
    BY <1>2, <1>3, <2>2, <2>3
  <2> QED
    BY <2>1, <2>2, <2>3, <2>4
<1>6. on \in [D -> D]
  BY <1>3, <1>5
<1>7. PICK t0 : Loop(t0, a, on, n)
  BY <1>4, <1>6, LoopExists
<1>8. FlowLoop(t0, capacity, N, source, sink, n)
  <2>1. \A k \in 1..n : t0[k - 1] \in D
    BY <1>4, <1>6, <1>7, LoopIs
  <2>2. \A k \in 0..n : k # 0 => k \in 1..n
    OBVIOUS
  <2>3. \A k \in 0..n : (IF k = 0 THEN a ELSE on[t0[k - 1]]) =
          IF k = 0 THEN FlowStart(capacity, N) ELSE FlowTurn(N, source, sink, t0[k - 1])
    BY <1>3, <1>5, <2>1, <2>2
  <2> QED
    BY <1>7, <2>3 DEF FlowLoop, Loop
<1>9. ASSUME NEW t, FlowLoop(t, capacity, N, source, sink, n)
      PROVE  FlowState(N, c, source, sink, t[n]) /\ Flowed(N, source, sink, t[n], n)
  <2> DEFINE Step(k) == IF k = 0 THEN a ELSE FlowTurn(N, source, sink, t[k - 1])
  <2>1. t = [k \in 0..n |-> Step(k)]
    BY <1>3, <1>9 DEF FlowLoop
  <2> HIDE DEF Step
  <2>2. \A k \in 0..n : t[k] = Step(k)
    BY <2>1
  <2> USE DEF Step
  <2>3. t[0] = a /\ \A k \in 1..n : t[k] = FlowTurn(N, source, sink, t[k - 1])
    BY <2>2
  <2> DEFINE Good == {k \in 0..n : t[k] \in D /\ Flowed(N, source, sink, t[k], k)}
  <2>4. 0 \in Good
    BY <1>4, <2>3
  <2>5. ASSUME NEW k \in 1..n, k - 1 \in Good PROVE k \in Good
    <3>1. PICK s, j : s = t[k - 1] /\ j = k - 1
      OBVIOUS
    <3>2. s \in D /\ Flowed(N, source, sink, s, j) /\ j \in Nat /\ j + 1 = k
      BY <2>5, <3>1
    <3>3. t[k] = on[s]
      BY <1>5, <2>3, <3>1, <3>2
    <3>4. on[s] \in D /\ Flowed(N, source, sink, on[s], k)
      BY <1>5, <3>2
    <3> QED
      BY <3>3, <3>4
  <2> HIDE DEF Good, Step
  <2>6. \A k \in 0..n : k \in Good
    BY <2>4, <2>5, UpTo
  <2>7. n \in Good
    BY <2>6
  <2> QED
    BY <1>5, <2>7 DEF Good
<1> QED
  BY <1>8, <1>9

(* It ends with a flow that no path is left to enlarge.                    *)
LEMMA MaxFlowEnds ==
  ASSUME NEW capacity, NEW N, NEW source, NEW sink, IsNetwork(capacity, N, source, sink), NEW c, c = Extended(capacity, N)
  PROVE  \E r, total :
           /\ FlowOk(N, c, r, total, source, sink)
           /\ sink \notin DOMAIN SearchTree(r, N, source, sink)
           /\ MaxFlow(capacity, N, source, sink) = [total |-> total, flow |-> [e \in DOMAIN capacity |-> capacity[e] - r[e]]]
<1>0. /\ IsFiniteSet(N) /\ N \subseteq Nat /\ source \in N /\ sink \in N /\ source # sink
      /\ OnPairs(N, c)
  BY ExtendedIs DEF IsNetwork
<1>1. PICK A : A = {source} /\ A \in SUBSET N /\ source \in A /\ sink \notin A
  BY <1>0
<1>2. PICK n : n = SumFunction(capacity) /\ n \in Nat
  BY <1>1, CutIs
<1> DEFINE chosen == CHOOSE t : FlowLoop(t, capacity, N, source, sink, n)
<1>3. FlowLoop(chosen, capacity, N, source, sink, n)
  BY <1>2, FlowLoops
<1>4. MaxFlow(capacity, N, source, sink) = FlowOf(chosen[n], capacity)
  <2> DEFINE run(m) == CHOOSE t : FlowLoop(t, capacity, N, source, sink, m)
  <2>1. MaxFlow(capacity, N, source, sink) = FlowOf(run(SumFunction(capacity))[SumFunction(capacity)], capacity)
    BY Zenon DEF MaxFlow, FlowLoop, FlowStart, FlowTurn, FlowOf
  <2>2. chosen = run(n)
    OBVIOUS
  <2> HIDE DEF run, chosen
  <2> QED
    BY <1>2, <2>1, <2>2, Zenon
<1> HIDE DEF chosen
<1>5. PICK s, r, total : s = chosen[n] /\ r = s.residual /\ total = s.total
  OBVIOUS
<1>6. FlowState(N, c, source, sink, s) /\ Flowed(N, source, sink, s, n)
  BY <1>2, <1>3, <1>5, FlowLoops
<1>7. Blocked(N, source, sink, s)
  <2> SUFFICES ASSUME ~ Blocked(N, source, sink, s) PROVE FALSE
    OBVIOUS
  <2>1. PICK y, more : y = FlowTurn(N, source, sink, s) /\ more = y.total
    OBVIOUS
  <2>2. FlowState(N, c, source, sink, y) /\ total \in Nat /\ more \in Nat /\ more > total
    BY <1>0, <1>5, <1>6, <2>1, FlowGrows
  <2>3. total >= n
    BY <1>5, <1>6 DEF Flowed
  <2>4. PICK g : g = y.residual
    OBVIOUS
  <2>5. FlowOk(N, c, g, more, source, sink)
    BY <2>1, <2>2, <2>4 DEF FlowState
  <2>6. PICK cut : cut = CutCapacity(capacity, A)
    OBVIOUS
  <2>7. cut \in Nat /\ cut <= n
    BY <1>1, <1>2, <2>6, CutIs
  <2>8. more <= cut
    BY <1>1, <2>5, <2>6, FlowWithinCut
  <2> QED
    BY ONLY <1>2, <2>2, <2>3, <2>7, <2>8
<1>8. FlowOk(N, c, r, total, source, sink) /\ sink \notin DOMAIN SearchTree(r, N, source, sink)
  BY <1>5, <1>6, <1>7 DEF FlowState, Blocked
<1>9. MaxFlow(capacity, N, source, sink) = [total |-> total, flow |-> [e \in DOMAIN capacity |-> capacity[e] - r[e]]]
  BY <1>4, <1>5, Zenon DEF FlowOf
<1> QED
  BY <1>8, <1>9

LEMMA MaxFlowIs ==
  ASSUME NEW capacity, NEW N, NEW source, NEW sink, IsNetwork(capacity, N, source, sink),
         NEW flow, flow = MaxFlow(capacity, N, source, sink).flow
  PROVE  /\ \A e \in DOMAIN capacity : flow[e] \in 0..capacity[e]
         /\ \A n \in N \ {source, sink} :
              SumFunctionOnSet(flow, {e \in DOMAIN capacity : e[1] = n}) = SumFunctionOnSet(flow, {e \in DOMAIN capacity : e[2] = n})
         /\ MaxFlow(capacity, N, source, sink).total = MinCut(capacity, N, source, sink)
<1>0. IsFiniteSet(N) /\ N \subseteq Nat /\ source \in N /\ sink \in N /\ source # sink
  BY DEF IsNetwork
<1>1. PICK c : c = Extended(capacity, N)
  OBVIOUS
<1>2. PICK r, total :
        /\ FlowOk(N, c, r, total, source, sink)
        /\ sink \notin DOMAIN SearchTree(r, N, source, sink)
        /\ MaxFlow(capacity, N, source, sink) = [total |-> total, flow |-> [e \in DOMAIN capacity |-> capacity[e] - r[e]]]
  BY <1>1, MaxFlowEnds
<1>3. flow = [e \in DOMAIN capacity |-> capacity[e] - r[e]] /\ MaxFlow(capacity, N, source, sink).total = total
  BY <1>2
<1>4. Roomy(N, c, r) /\ \A n \in N \ {sink} : Spends(N, c, r, n, IF n = source THEN total ELSE 0)
  BY <1>2 DEF FlowOk
<1>5. \A e \in DOMAIN capacity : flow[e] = capacity[e] - r[e]
  BY <1>3
<1>6. ASSUME NEW e \in DOMAIN capacity PROVE flow[e] \in 0..capacity[e]
  BY <1>1, <1>4, <1>5, FlowBounded
<1>7. ASSUME NEW n \in N \ {source, sink}
      PROVE  SumFunctionOnSet(flow, {e \in DOMAIN capacity : e[1] = n}) = SumFunctionOnSet(flow, {e \in DOMAIN capacity : e[2] = n})
  <2>1. n \in N /\ Spends(N, c, r, n, 0)
    BY <1>4
  <2> QED
    BY <1>1, <1>4, <1>5, <2>1, FlowConserved
<1>8. total = MinCut(capacity, N, source, sink)
  <2>1. PICK tree, A : tree = SearchTree(r, N, source, sink) /\ A = DOMAIN tree
    OBVIOUS
  <2>2. IsTree(N, r, source, sink, tree)
    BY <1>0, <2>1, TreeIs
  <2>3. sink \notin A
    BY <1>2, <2>1
  <2>4. source \in A /\ A \in SUBSET N /\ \A a \in A : \A b \in N : r[<<a, b>>] > 0 => b \in A
    BY <2>1, <2>2, <2>3 DEF IsTree
  <2>5. ASSUME NEW e \in Across(N, A) PROVE r[e] = 0
    <3>1. PICK a \in A, b \in N : b \notin A /\ e = <<a, b>>
      BY DEF Across
    <3>2. e \in Pairs(N)
      BY <2>4, <3>1 DEF Pairs
    <3>3. r[e] \in Nat
      BY <1>4, <3>2, AllPairs DEF Roomy
    <3>4. ~ (r[e] > 0)
      BY <2>4, <3>1
    <3> QED
      BY <3>3, <3>4
  <2> QED
    BY <1>1, <1>2, <2>3, <2>4, <2>5, MinCutIs
<1> QED
  BY <1>3, <1>6, <1>7, <1>8

(* The flow of a supply network is a maximum one, of any network without   *)
(* antiparallel edges: it respects every capacity, is conserved at every   *)
(* junction and is as much as the least cut lets through.                  *)
THEOREM FlowTheorem == Spec => []FlowIsMaximal
<1>1. AnswersInv => FlowIsMaximal
  <2> SUFFICES ASSUME AnswersInv, answer.to = "flow" PROVE FlowIsMaximal
    BY DEF FlowIsMaximal
  <2>1. PICK capacity, flow : capacity = input.capacity /\ flow = answer.is.flow
    OBVIOUS
  <2>2. capacity \in [Pipes -> Capacities] /\ answer.is = MaxFlow(capacity, Junctions, Source, Sink)
    BY <2>1 DEF AnswersInv, FlowInv
  <2>3. DOMAIN capacity = Pipes /\ \A e \in Pipes : capacity[e] \in Capacities
    BY <2>2
  <2>4. IsNetwork(capacity, Junctions, Source, Sink)
    <3>1. DOMAIN capacity \subseteq Pairs(Junctions)
      BY <2>3, NetworkAssumption DEF Pairs
    <3>2. \A e \in DOMAIN capacity : capacity[e] \in Nat /\ Back(e) \notin DOMAIN capacity
      BY <2>3, NetworkAssumption DEF Back
    <3> QED
      BY <3>1, <3>2, NetworkAssumption DEF IsNetwork
  <2>5. flow = MaxFlow(capacity, Junctions, Source, Sink).flow
    BY <2>1, <2>2
  <2>6. /\ \A e \in DOMAIN capacity : flow[e] \in 0..capacity[e]
        /\ \A n \in Junctions \ {Source, Sink} :
             SumFunctionOnSet(flow, {e \in DOMAIN capacity : e[1] = n}) = SumFunctionOnSet(flow, {e \in DOMAIN capacity : e[2] = n})
        /\ MaxFlow(capacity, Junctions, Source, Sink).total = MinCut(capacity, Junctions, Source, Sink)
    BY <2>4, <2>5, MaxFlowIs
  <2> QED
    BY <2>1, <2>2, <2>3, <2>6, Zenon DEF FlowIsMaximal
<1> QED
  BY <1>1, AnswersStart, AnswersStay, ScopesStart, ScopesStay, PTL DEF Spec
=============================================================================
