--------------------------- MODULE ClosureProofs ---------------------------
(***************************************************************************)
(* Proofs about Closure for any number of events, protocols and runs, and  *)
(* paths of any length: the gates compare neighbours on a path and a run   *)
(* with its edges; the certificate speaks of the whole path and of all     *)
(* that lies beneath.                                                      *)
(***************************************************************************)
EXTENDS Closure, TLAPS, WellFoundedInduction

---------------------------------------------------------------------------
(* The inductive invariant.                                                *)

Typed ==
    /\ event \in Chronologies
    /\ \A e \in Events : Registrable(event[e])
    /\ \A r \in runs : r.protocol \in Protocols /\ r.promoted \in BOOLEAN

(* A run has one edge for each step of its path, a run itself.             *)
Fits(r) ==
    IF r.protocol.path = <<>> THEN r.edges = <<>>
    ELSE r.edges \in [1..(Len(r.protocol.path) - 1) -> runs]

(* The gates of a promoted run, which hold of it for ever.                 *)
Judged(r) == r.promoted => G7(r.protocol) /\ G8(r.protocol) /\ G10(r.protocol, r.edges)

IInv == Typed /\ \A r \in runs : Fits(r) /\ Judged(r)

LEMMA InitInvariant == ASSUME Init PROVE IInv
BY DEF Init, IInv, Typed

(* What the gates say of a run depends on the events alone.                *)
LEMMA JudgedStays == ASSUME event' = event, NEW r PROVE Judged(r)' = Judged(r)
BY DEF Judged, G7, G8, G10, Cited, RelationHolds, Before, ClosureValid, PathUnrolled, EdgeCertified

(* Events never change, and a run is added with its gates.                 *)
LEMMA StepInvariant == ASSUME IInv, [Next]_vars PROVE IInv'
<1>1. CASE UNCHANGED vars
  <2>1. event' = event /\ runs' = runs
    BY <1>1 DEF vars
  <2>2. \A r : Judged(r)' = Judged(r)
    BY <2>1, JudgedStays
  <2> QED
    BY <1>1, <2>1, <2>2 DEF vars, IInv, Typed, Fits
<1>2. ASSUME NEW p \in Protocols, Run(p) PROVE IInv'
  <2>1. PICK edges \in EdgeLists(p), others \in BOOLEAN :
          runs' = runs \cup {[protocol |-> p, edges |-> edges,
                              promoted |-> others /\ G7(p) /\ G8(p) /\ G10(p, edges)]}
    BY <1>2 DEF Run
  <2>2. event' = event
    BY <1>2 DEF Run
  <2>3. ASSUME NEW r PROVE Judged(r)' = Judged(r)
    BY <2>2, JudgedStays
  <2>4. PICK new : new = [protocol |-> p, edges |-> edges,
                          promoted |-> others /\ G7(p) /\ G8(p) /\ G10(p, edges)]
    OBVIOUS
  <2>5. Judged(new)
    BY <2>4 DEF Judged
  <2>6. new.protocol \in Protocols /\ new.promoted \in BOOLEAN
    <3>1. G7(p) \in BOOLEAN /\ G8(p) \in BOOLEAN /\ G10(p, edges) \in BOOLEAN
      BY DEF G7, G8, G10, ClosureValid
    <3> QED
      BY <2>4, <3>1
  <2>7. Typed'
    BY <2>1, <2>2, <2>4, <2>6 DEF IInv, Typed, Registrable
  <2>8. \A r \in runs : Fits(r)'
    BY <2>1 DEF IInv, Fits
  <2>9. Fits(new)'
    BY <2>1, <2>4 DEF Fits, EdgeLists
  <2> QED
    BY <2>1, <2>3, <2>4, <2>5, <2>7, <2>8, <2>9 DEF IInv
<1> QED
  BY <1>1, <1>2 DEF Next

(* Feedback certificates keep their invariant.                             *)
THEOREM Inductive == Spec => []IInv
<1>1. Init => IInv
  BY InitInvariant
<1>2. IInv /\ [Next]_vars => IInv'
  BY StepInvariant
<1> QED
  BY <1>1, <1>2, PTL DEF Spec

(* Events, protocols and edges of runs are those there are.                *)
THEOREM TypeCorrect == Spec => []TypeOK
<1>1. IInv => TypeOK
  BY DEF IInv, Typed, Fits, TypeOK
<1> QED
  BY <1>1, Inductive, PTL

---------------------------------------------------------------------------
(* What a certificate says of its path and of what lies beneath it.        *)

(* A nonempty set of naturals has a least element.                         *)
LEMMA LeastNatural ==
  ASSUME NEW S \in SUBSET Nat, S # {}
  PROVE  \E n \in S : \A m \in S : n <= m
<1> DEFINE R == OpToRel(<, Nat)
<1>1. IsWellFoundedOn(R, Nat)
  BY NatLessThanWellFounded
<1> HIDE DEF R
<1>2. PICK n \in S : \A m \in S : ~ (<<m, n>> \in R)
  BY <1>1, WFMin
<1>3. \A m \in S : ~ (m < n)
  BY <1>2 DEF R, OpToRel
<1> QED
  BY <1>3

(* A certificate's path is a sequence of events, and its gates passed.     *)
LEMMA CertificateFacts ==
  ASSUME IInv, NEW r \in Certificates
  PROVE  /\ r \in runs /\ r.protocol.path \in Seq(Events)
         /\ ClosureValid(r.protocol.path, r.edges, r.protocol.scope)
         /\ r.edges \in [1..(Len(r.protocol.path) - 1) -> runs]
         /\ r.protocol.scope \in ScopeIds
<1>1. r \in runs /\ r.promoted /\ r.protocol.path # <<>> /\ r.protocol \in ProtocolSpec
  BY ProtocolsAssumption DEF Certificates, IInv, Typed
<1>2. G10(r.protocol, r.edges) /\ Fits(r)
  BY <1>1 DEF IInv, Judged
<1> QED
  BY <1>1, <1>2 DEF G10, Fits, ProtocolSpec

(* Events and their times.                                                 *)
LEMMA EventTimes ==
  ASSUME IInv, NEW e \in Events
  PROVE  event[e].earliest \in Nat /\ event[e].latest \in Nat /\ event[e].earliest <= event[e].latest
BY ChronologiesAssumption DEF IInv, Typed, Registrable, Chronology, EventSpec, Times

(* On a path whose neighbours are in order, all events are.                *)
LEMMA PathOrdered ==
  ASSUME IInv, NEW path \in Seq(Events), PathUnrolled(path),
         NEW i \in DOMAIN path, NEW j \in DOMAIN path, i < j
  PROVE  Before(path[i], path[j])
<1> DEFINE Bad == {k \in DOMAIN path : i < k /\ ~ Before(path[i], path[k])}
<1> SUFFICES ASSUME Bad # {} PROVE FALSE
  OBVIOUS
<1>1. Bad \in SUBSET Nat
  OBVIOUS
<1>2. PICK k \in Bad : \A m \in Bad : k <= m
  BY <1>1, LeastNatural
<1>3. /\ k \in DOMAIN path /\ i < k /\ k \in Nat /\ i \in Nat \ {0}
      /\ k - 1 \in 1..(Len(path) - 1) /\ k - 1 \in DOMAIN path
  BY <1>2
<1>4. Before(path[k - 1], path[k])
  BY <1>3 DEF PathUnrolled
<1>5. CASE k - 1 = i
  BY <1>2, <1>4, <1>5
<1>6. CASE k - 1 # i
  <2>1. i < k - 1 /\ ~ (k <= k - 1)
    BY <1>3, <1>6
  <2>2. k - 1 \notin Bad
    <3> HIDE DEF Bad
    <3> QED
      BY <1>2, <2>1
  <2>3. Before(path[i], path[k - 1])
    BY <1>3, <2>1, <2>2
  <2>4. path[i] \in Events /\ path[k - 1] \in Events /\ path[k] \in Events
    BY <1>3
  <2>5. Before(path[i], path[k])
    BY <1>4, <2>3, <2>4, EventTimes DEF Before
  <2> QED
    BY <1>2, <2>5
<1> QED
  BY <1>5, <1>6

(* Along a certified path every event is over before any later one begins. *)
THEOREM FeedbackTheorem == Spec => []FeedbackIsUnrolled
<1>1. IInv => FeedbackIsUnrolled
  <2> SUFFICES ASSUME IInv, NEW r \in Certificates,
                      NEW i \in DOMAIN r.protocol.path, NEW j \in DOMAIN r.protocol.path
               PROVE  /\ i < j => Before(r.protocol.path[i], r.protocol.path[j])
                      /\ event[r.protocol.path[1]].entity = event[r.protocol.path[Len(r.protocol.path)]].entity
    BY DEF FeedbackIsUnrolled
  <2> QED
    BY CertificateFacts, PathOrdered DEF ClosureValid
<1> QED
  BY <1>1, Inductive, PTL

(* Each edge estimated the effect that its place on the path needs.        *)
THEOREM EdgesTheorem == Spec => []EdgesEstimateThePath
<1>1. IInv => EdgesEstimateThePath
  <2> SUFFICES ASSUME IInv, NEW r \in Certificates, NEW i \in DOMAIN r.edges
               PROVE  LET p == r.edges[i].protocol
                      IN  /\ p.causal
                          /\ p.exposure = event[r.protocol.path[i]].entity
                          /\ p.outcome = event[r.protocol.path[i + 1]].entity
    BY DEF EdgesEstimateThePath
  <2>1. /\ r.edges[i] \in runs
        /\ EdgeCertified(r.edges[i], r.protocol.path[i], r.protocol.path[i + 1], r.protocol.scope)
    BY CertificateFacts DEF ClosureValid
  <2>2. G8(r.edges[i].protocol)
    BY <2>1 DEF EdgeCertified, IInv, Judged
  <2>3. r.edges[i].protocol.binding # Unbound
    BY <2>1 DEF EdgeCertified, Unbound
  <2> QED
    BY <2>1, <2>2, <2>3 DEF EdgeCertified, G8
<1> QED
  BY <1>1, Inductive, PTL

EdgesOf(S) == UNION {{e.edges[i] : i \in DOMAIN e.edges} : e \in S}

(* The runs that are at most n levels beneath r.                           *)
Levels(f, r, n) == f = [k \in 0..n |-> IF k = 0 THEN {r} ELSE f[k - 1] \cup EdgesOf(f[k - 1])]

(* There is such a function, for each depth.                               *)
LEMMA LevelsExist ==
  ASSUME NEW r, NEW n \in Nat
  PROVE  \E f : Levels(f, r, n)
<1> DEFINE Missing == {m \in Nat : ~ \E f : Levels(f, r, m)}
<1> SUFFICES ASSUME Missing # {} PROVE FALSE
  OBVIOUS
<1>1. PICK m \in Missing : \A k \in Missing : m <= k
  BY LeastNatural
<1>2. m # 0
  <2>1. Levels([k \in 0..0 |-> {r}], r, 0)
    BY DEF Levels
  <2> QED
    BY <1>1, <2>1
<1>3. PICK f : Levels(f, r, m - 1)
  BY <1>1, <1>2
<1> DEFINE g == [k \in 0..m |-> IF k = m THEN f[m - 1] \cup EdgesOf(f[m - 1]) ELSE f[k]]
<1>4. ASSUME NEW k \in 0..m PROVE g[k] = IF k = 0 THEN {r} ELSE g[k - 1] \cup EdgesOf(g[k - 1])
  <2>1. CASE k = m
    <3>1. g[k - 1] = f[m - 1] /\ g[k] = f[m - 1] \cup EdgesOf(f[m - 1])
      BY <1>1, <1>2, <2>1
    <3> QED
      BY <1>2, <2>1, <3>1
  <2>2. CASE k # m
    <3>1. k \in 0..(m - 1) /\ g[k] = f[k] /\ (k # 0 => g[k - 1] = f[k - 1])
      BY <1>1, <2>2
    <3>2. f[k] = IF k = 0 THEN {r} ELSE f[k - 1] \cup EdgesOf(f[k - 1])
      BY <1>3, <3>1 DEF Levels
    <3> HIDE DEF g
    <3> QED
      BY <3>1, <3>2
  <2> QED
    BY <2>1, <2>2
<1>5. Levels(g, r, m)
  <2>1. g = [k \in 0..m |-> g[k]]
    OBVIOUS
  <2> HIDE DEF g
  <2> QED
    BY <1>4, <2>1 DEF Levels
<1> QED
  BY <1>1, <1>5

(* Beneath is the last of the levels.                                      *)
LEMMA BeneathIsLevels ==
  ASSUME NEW r
  PROVE  \E f : Beneath(r) = f[MaxRuns] /\ Levels(f, r, MaxRuns)
<1> DEFINE f == CHOOSE f : f = [k \in 0..MaxRuns |->
             IF k = 0 THEN {r}
             ELSE f[k - 1] \cup UNION {{e.edges[i] : i \in DOMAIN e.edges} : e \in f[k - 1]}]
<1>1. \E h : h = [k \in 0..MaxRuns |->
             IF k = 0 THEN {r}
             ELSE h[k - 1] \cup UNION {{e.edges[i] : i \in DOMAIN e.edges} : e \in h[k - 1]}]
  <2>1. PICK h : Levels(h, r, MaxRuns)
    BY LevelsExist, RunsAssumption
  <2> QED
    BY <2>1 DEF Levels, EdgesOf
<1>2. f = [k \in 0..MaxRuns |->
             IF k = 0 THEN {r}
             ELSE f[k - 1] \cup UNION {{e.edges[i] : i \in DOMAIN e.edges} : e \in f[k - 1]}]
  BY <1>1
<1>3. Beneath(r) = f[MaxRuns]
  BY DEF Beneath
<1> HIDE DEF f
<1>4. Levels(f, r, MaxRuns)
  BY <1>2 DEF Levels, EdgesOf
<1> QED
  BY <1>3, <1>4

(* A promoted run within the scope of which r lies.                        *)
Contains(r, e) == e \in runs /\ e.promoted /\ <<r.protocol.scope, e.protocol.scope>> \in Inside

(* An edge of a promoted run was promoted, in at least its scope.          *)
LEMMA EdgesContain ==
  ASSUME IInv, NEW r \in Certificates, NEW e, Contains(r, e), NEW i \in DOMAIN e.edges
  PROVE  Contains(r, e.edges[i])
<1>1. e \in Certificates
  <2>1. e.protocol.path # <<>>
    BY DEF Contains, IInv, Fits
  <2> QED
    BY <2>1 DEF Contains, Certificates
<1>2. e.edges[i] \in runs /\ EdgeCertified(e.edges[i], e.protocol.path[i], e.protocol.path[i + 1], e.protocol.scope)
  BY <1>1, CertificateFacts DEF ClosureValid
<1>3. r.protocol.scope \in ScopeIds /\ e.protocol.scope \in ScopeIds /\ e.edges[i].protocol.scope \in ScopeIds
  BY <1>1, <1>2, CertificateFacts, ProtocolsAssumption DEF IInv, Typed, ProtocolSpec
<1> QED
  BY <1>2, <1>3, InsideAssumption DEF Contains, EdgeCertified

(* Through all levels of edges that are certificates in turn.              *)
THEOREM CertificateTheorem == Spec => []CertificateNeverWidens
<1>1. IInv => CertificateNeverWidens
  <2> SUFFICES ASSUME IInv, NEW r \in Certificates
               PROVE  \A e \in Beneath(r) : Contains(r, e)
    BY DEF CertificateNeverWidens, Contains
  <2>1. PICK f : Beneath(r) = f[MaxRuns] /\ Levels(f, r, MaxRuns)
    BY BeneathIsLevels
  <2> DEFINE Bad == {k \in 0..MaxRuns : ~ \A e \in f[k] : Contains(r, e)}
  <2>2. Bad = {}
    <3> SUFFICES ASSUME Bad # {} PROVE FALSE
      OBVIOUS
    <3>1. Bad \in SUBSET Nat
      OBVIOUS
    <3>2. PICK k \in Bad : \A m \in Bad : k <= m
      BY <3>1, LeastNatural
    <3>3. k \in 0..MaxRuns /\ f[k] = IF k = 0 THEN {r} ELSE f[k - 1] \cup EdgesOf(f[k - 1])
      BY <2>1, <3>2 DEF Levels
    <3>4. CASE k = 0
      <4>1. Contains(r, r)
        BY CertificateFacts, InsideAssumption DEF Contains, Certificates
      <4> QED
        BY <3>2, <3>3, <3>4, <4>1
    <3>5. CASE k # 0
      <4>1. k - 1 \in 0..MaxRuns /\ ~ (k <= k - 1)
        BY <3>3, <3>5, RunsAssumption
      <4>2. k - 1 \notin Bad
        <5> HIDE DEF Bad
        <5> QED
          BY <3>2, <4>1
      <4>3. \A e \in f[k - 1] : Contains(r, e)
        BY <4>1, <4>2
      <4>4. \A e \in EdgesOf(f[k - 1]) : Contains(r, e)
        BY <4>3, EdgesContain DEF EdgesOf
      <4> QED
        BY <3>2, <3>3, <3>5, <4>3, <4>4
    <3> QED
      BY <3>4, <3>5
  <2>3. MaxRuns \in 0..MaxRuns
    BY RunsAssumption
  <2> QED
    BY <2>1, <2>2, <2>3
<1> QED
  BY <1>1, Inductive, PTL
=============================================================================
