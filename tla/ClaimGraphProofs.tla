-------------------------- MODULE ClaimGraphProofs --------------------------
(***************************************************************************)
(* Proofs about ClaimGraph for any number of claims, routes, evidence,     *)
(* protocols and runs: what the freeze pins and the gates compare, of one  *)
(* run and its neighbours, makes the whole proof beneath a promoted run.   *)
(***************************************************************************)
EXTENDS ClaimGraph, ScopeProofs

---------------------------------------------------------------------------
(* The inductive invariant.                                                *)

FreezeSpec ==
    [frozen : BOOLEAN, links : SUBSET Links, resolved : SUBSET Links, pinned : [Claims -> Nat]]

RunSpec ==
    [protocol : Protocols, claim : Claims, scope : ScopeSpec, cutoff : Cutoffs, active : Nat,
     supporting : SUBSET Evidence, promoted : BOOLEAN, selected : Nat, strength : Vector]

Typed ==
    /\ study \in Studies
    /\ registered \subseteq Claims
    /\ links \subseteq Links
    /\ resolved \subseteq links
    /\ freezes \in [Protocols -> FreezeSpec]
    /\ runs \in Seq(RunSpec)

(* A freeze holds what was registered, and pins runs of the claims it pins. *)
Frozen ==
    \A p \in Protocols :
      /\ freezes[p].links \subseteq links
      /\ freezes[p].resolved \subseteq freezes[p].links
      /\ freezes[p].frozen => ClaimOf(p) \in registered
      /\ \A d \in Claims : freezes[p].pinned[d] # 0 =>
           freezes[p].pinned[d] \in DOMAIN runs /\ runs[freezes[p].pinned[d]].claim = d

(* Registered claims can be ranked: what a claim rests on ranks lower.     *)
Grounded ==
    \E n \in Nat : \E rank \in [registered -> 0..n] : \A c \in registered :
      \A d \in DependenciesOf(c) \cap Claims : d \in registered /\ rank[d] < rank[c]

(* A record speaks of a frozen protocol, which pins earlier runs.          *)
Recorded(i) ==
    LET p == runs[i].protocol
    IN  /\ freezes[p].frozen
        /\ runs[i].claim = ClaimOf(p)
        /\ runs[i].scope = ScopeOf(p)
        /\ runs[i].cutoff = CutoffOf(p)
        /\ \A d \in Claims : freezes[p].pinned[d] < i

(* The dependency d of a promoted run r, by the run that its freeze pins.  *)
Pinned(r, d) == freezes[r.protocol].pinned[d]

Carried(r, d) ==
    /\ Pinned(r, d) \in DOMAIN runs
    /\ runs[Pinned(r, d)].claim = d
    /\ runs[Pinned(r, d)].promoted
    /\ Within(r.scope, runs[Pinned(r, d)].scope)
    /\ runs[Pinned(r, d)].cutoff <= r.cutoff

Known(r, e) == study.evidence[e].known_at <= r.cutoff

(* What the gates of a promoted run amount to, one step deep.  That no     *)
(* earlier route is empty matters for the replay only: in it another       *)
(* evidence may verify, and an earlier route may be the active one.        *)
Route(r) == Conjunction(r.claim, r.selected)

Selection(r) ==
    /\ r.selected = r.active
    /\ r.selected \in DOMAIN Routes(r.claim)
    /\ \A k \in DOMAIN Routes(r.claim) : k <= r.selected => Conjunction(r.claim, k) # {}

Foundation(r) ==
    /\ \A d \in Route(r) \cap Claims : Carried(r, d)
    /\ Route(r) \cap Evidence \subseteq Linked(r.protocol, "supports")
    /\ r.supporting =
         (Route(r) \cap Evidence) \cup UNION {runs[Pinned(r, d)].supporting : d \in Route(r) \cap Claims}
    /\ r.supporting # {}

Limits(r) ==
    /\ Within(r.scope, study.claim[r.claim].model)
    /\ \A e \in r.supporting : EvidenceFits(r.protocol, e) /\ Known(r, e)
    /\ \A e \in Linked(r.protocol, "contradicts") : Known(r, e)
    /\ G13(r.protocol)

Decision(r) == Selection(r) /\ Foundation(r) /\ Limits(r) /\ r.strength = FullStrength

Decided == \A i \in DOMAIN runs : Recorded(i) /\ (runs[i].promoted => Decision(runs[i]))

IInv == Typed /\ Frozen /\ Grounded /\ Decided

---------------------------------------------------------------------------
(* The operators of the model.                                             *)

(* First selects the least route.                                          *)
LEMMA FirstIsLeast ==
  ASSUME NEW S \in SUBSET Nat, S # {}
  PROVE  First(S) \in S /\ \A k \in S : First(S) <= k
BY LeastNatural DEF First

(* What the payloads of a study are.                                       *)
LEMMA Payloads ==
  ASSUME Typed
  PROVE  /\ \A c \in Claims : /\ study.claim[c].scope \in ScopeSpec
                             /\ study.claim[c].model \in ScopeSpec
                             /\ study.claim[c].mandatory \subseteq Claims \cup Evidence
                             /\ study.claim[c].routes \in Seq(SUBSET (Claims \cup Evidence))
         /\ \A e \in Evidence : /\ study.evidence[e].scope \in ScopeSpec
                                /\ study.evidence[e].window \in Window
                                /\ study.evidence[e].known_at \in Cutoffs
         /\ \A p \in Protocols : ClaimOf(p) \in Claims /\ CutoffOf(p) \in Cutoffs /\ ScopeOf(p) \in ScopeSpec
<1>1. study \in StudySpace
  BY StudiesAssumption DEF Typed
<1> QED
  BY <1>1 DEF StudySpace, ClaimOf, CutoffOf, ScopeOf

(* A claim has routes, numbered from 1, of claims and evidence.            *)
LEMMA RoutesOfClaims ==
  ASSUME Typed, NEW c \in Claims
  PROVE  /\ Routes(c) \in Seq(SUBSET (Claims \cup Evidence))
         /\ DOMAIN Routes(c) \subseteq Nat \ {0}
         /\ 1 \in DOMAIN Routes(c)
         /\ \A k \in DOMAIN Routes(c) : Conjunction(c, k) \subseteq Claims \cup Evidence
<1>1. /\ study.claim[c].mandatory \subseteq Claims \cup Evidence
      /\ study.claim[c].routes \in Seq(SUBSET (Claims \cup Evidence))
  BY Payloads
<1>2. Routes(c) \in Seq(SUBSET (Claims \cup Evidence)) /\ Routes(c) # <<>>
  <2>1. CASE study.claim[c].routes = <<>>
    <3>1. {} \in SUBSET (Claims \cup Evidence)
      OBVIOUS
    <3>2. Routes(c) = <<{}>>
      BY <2>1 DEF Routes
    <3> QED
      BY <3>1, <3>2
  <2>2. CASE study.claim[c].routes # <<>>
    BY <1>1, <2>2 DEF Routes
  <2> QED
    BY <2>1, <2>2
<1>3. \A k \in DOMAIN Routes(c) : Routes(c)[k] \subseteq Claims \cup Evidence
  BY <1>2
<1> QED
  BY <1>1, <1>2, <1>3 DEF Conjunction

(* The conjunction of a route is among the dependencies of its claim.      *)
LEMMA RoutesAreDependencies ==
  ASSUME NEW c, NEW k \in DOMAIN Routes(c)
  PROVE  Conjunction(c, k) \subseteq DependenciesOf(c)
BY DEF DependenciesOf

(* Frozen links are about evidence.                                        *)
LEMMA LinkedEvidence ==
  ASSUME Typed, NEW p \in Protocols, NEW role
  PROVE  Linked(p, role) \subseteq Evidence
BY LinksAssumption DEF Typed, FreezeSpec, Linked, LinkSpace

(* A run is one of the records.                                            *)
LEMMA RunsAreRecords ==
  ASSUME Typed, NEW i \in DOMAIN runs
  PROVE  runs[i] \in RunSpec /\ i \in Nat \ {0} /\ i <= Len(runs)
BY DEF Typed

(* The meet of full strengths is full.                                     *)
LEMMA FullMeet ==
  ASSUME NEW V, V # {}, \A v \in V : v = FullStrength
  PROVE  StrengthMeet(V) = FullStrength
<1>1. \A k \in Dimensions : \A v \in V : v[k] = TRUE
  BY DEF FullStrength
<1> QED
  BY <1>1 DEF StrengthMeet, FullStrength

---------------------------------------------------------------------------
(* One run.                                                                *)

(* A route that passed rests on linked evidence in scope and time, and on  *)
(* promoted runs of its claims.                                            *)
LEMMA PassedRoute ==
  ASSUME Typed, Frozen, NEW p \in Protocols, NEW intact, NEW store, store.runs \subseteq DOMAIN runs,
         NEW k \in PassingRoutes(p, intact, store)
  PROVE  /\ k \in DOMAIN Routes(ClaimOf(p)) /\ k \in Nat
         /\ \A e \in Conjunction(ClaimOf(p), k) \cap Evidence :
              /\ e \in Linked(p, "supports") /\ e \in intact
              /\ study.evidence[e].known_at <= CutoffOf(p)
              /\ EvidenceFits(p, e)
         /\ \A d \in Conjunction(ClaimOf(p), k) \cap Claims :
              /\ freezes[p].pinned[d] \in DOMAIN runs
              /\ runs[freezes[p].pinned[d]].claim = d
              /\ runs[freezes[p].pinned[d]].promoted
              /\ Within(ScopeOf(p), runs[freezes[p].pinned[d]].scope)
              /\ runs[freezes[p].pinned[d]].cutoff <= CutoffOf(p)
<1>1. /\ k \in DOMAIN Routes(ClaimOf(p))
      /\ \A d \in Conjunction(ClaimOf(p), k) : Admitted(p, d, intact, store)
  BY DEF PassingRoutes
<1>2. k \in Nat
  BY <1>1, Payloads, RoutesOfClaims
<1>3. \A e \in Conjunction(ClaimOf(p), k) \cap Evidence : EvidenceAdmitted(p, e, intact)
  BY <1>1 DEF Admitted
<1>4. \A d \in Conjunction(ClaimOf(p), k) \cap Claims : ClaimAdmitted(p, d, store)
  BY <1>1, IdsAssumption DEF Admitted
<1>5. ASSUME NEW d \in Conjunction(ClaimOf(p), k) \cap Claims
      PROVE  freezes[p].pinned[d] \in DOMAIN runs /\ runs[freezes[p].pinned[d]].claim = d
  <2>1. freezes[p].pinned[d] \in DOMAIN runs
    BY <1>4 DEF ClaimAdmitted
  <2>2. freezes[p].pinned[d] # 0
    BY <2>1, RunsAreRecords
  <2> QED
    BY <2>1, <2>2 DEF Frozen
<1> QED
  BY <1>1, <1>2, <1>3, <1>4, <1>5 DEF EvidenceAdmitted, ClaimAdmitted

(* The evidence that supports a route is evidence.                         *)
LEMMA SupportingTyped ==
  ASSUME Typed, Frozen, NEW p \in Protocols, NEW k
  PROVE  Supporting(p, k) \subseteq Evidence
<1>1. ASSUME NEW d \in Claims, freezes[p].pinned[d] # 0
      PROVE  runs[freezes[p].pinned[d]].supporting \subseteq Evidence
  <2>1. freezes[p].pinned[d] \in DOMAIN runs
    BY <1>1 DEF Frozen
  <2> QED
    BY <2>1, RunsAreRecords DEF RunSpec
<1> QED
  BY <1>1 DEF Supporting

(* Of a route that passed, the supporting evidence is all the evidence the *)
(* route names and all that its claims were promoted with.                 *)
LEMMA SupportingPassed ==
  ASSUME Typed, Frozen, NEW p \in Protocols, NEW intact, NEW store, store.runs \subseteq DOMAIN runs,
         NEW k \in PassingRoutes(p, intact, store)
  PROVE  Supporting(p, k) =
           (Conjunction(ClaimOf(p), k) \cap Evidence) \cup
           UNION {runs[freezes[p].pinned[d]].supporting : d \in Conjunction(ClaimOf(p), k) \cap Claims}
<1> DEFINE route == Conjunction(ClaimOf(p), k)
<1>1. route \cap Evidence \cap Linked(p, "supports") = route \cap Evidence
  BY PassedRoute
<1>2. \A d \in route \cap Claims : freezes[p].pinned[d] # 0
  BY PassedRoute, RunsAreRecords
<1>3. {d \in route \cap Claims : freezes[p].pinned[d] # 0} = route \cap Claims
  BY <1>2
<1> QED
  BY <1>1, <1>3 DEF Supporting

(* The passing routes are naturals; the active one is the first of them.   *)
LEMMA ActiveIsFirst ==
  ASSUME Typed, NEW p \in Protocols, NEW intact, NEW store
  PROVE  LET passing == PassingRoutes(p, intact, store)
         IN  /\ passing \subseteq DOMAIN Routes(ClaimOf(p)) /\ passing \subseteq Nat
             /\ ActiveRoute(passing) \in Nat
             /\ passing # {} => /\ ActiveRoute(passing) \in passing
                               /\ \A k \in passing : ActiveRoute(passing) <= k
<1> DEFINE passing == PassingRoutes(p, intact, store)
<1>1. passing \subseteq DOMAIN Routes(ClaimOf(p)) /\ passing \subseteq Nat
  BY Payloads, RoutesOfClaims DEF PassingRoutes
<1>2. CASE passing = {}
  BY <1>1, <1>2 DEF ActiveRoute
<1>3. CASE passing # {}
  <2>1. First(passing) \in passing /\ \A k \in passing : First(passing) <= k
    BY <1>1, <1>3, FirstIsLeast
  <2> QED
    BY <1>1, <1>3, <2>1 DEF ActiveRoute
<1> QED
  BY <1>2, <1>3

(* A run's outcome is a record.                                            *)
LEMMA OutcomeTyped ==
  ASSUME Typed, Frozen, NEW p \in Protocols, NEW intact, NEW others \in BOOLEAN, NEW store
  PROVE  Outcome(p, intact, others, store) \in RunSpec
<1> DEFINE passing    == PassingRoutes(p, intact, store)
           supporting == Supporting(p, ActiveRoute(passing))
           proven     == ProofRoutes(p, supporting, passing)
           promoted   == /\ others
                         /\ G0(p, store) /\ G4(supporting) /\ G6(p, supporting)
                         /\ G7(p, supporting, intact) /\ G13(p)
                         /\ proven # {}
<1>1. ActiveRoute(passing) \in Nat /\ passing \subseteq Nat
  BY ActiveIsFirst
<1>2. supporting \in SUBSET Evidence
  BY SupportingTyped
<1>3. promoted \in BOOLEAN
  BY DEF G0, G4, G6, G7, G13
<1>4. (IF promoted THEN First(proven) ELSE 0) \in Nat
  <2>1. proven \subseteq Nat
    BY <1>1 DEF ProofRoutes
  <2> QED
    BY <2>1, FirstIsLeast
<1>5. (IF promoted THEN RouteStrength(p, First(proven)) ELSE NoStrength) \in Vector
  BY DEF RouteStrength, StrengthMeet, NoStrength, Vector
<1>6. ClaimOf(p) \in Claims /\ ScopeOf(p) \in ScopeSpec /\ CutoffOf(p) \in Cutoffs
  BY Payloads
<1>7. Outcome(p, intact, others, store) =
        [protocol |-> p, claim |-> ClaimOf(p), scope |-> ScopeOf(p), cutoff |-> CutoffOf(p),
         active |-> ActiveRoute(passing), supporting |-> supporting, promoted |-> promoted,
         selected |-> IF promoted THEN First(proven) ELSE 0,
         strength |-> IF promoted THEN RouteStrength(p, First(proven)) ELSE NoStrength]
  BY DEF Outcome
<1> HIDE DEF passing, supporting, proven, promoted
<1> QED
  BY <1>1, <1>2, <1>3, <1>4, <1>5, <1>6, <1>7 DEF RunSpec

(* A route through promoted runs is of full strength.                      *)
LEMMA PassedStrength ==
  ASSUME Typed, Frozen, Decided, NEW p \in Protocols, NEW intact, NEW store, store.runs \subseteq DOMAIN runs,
         NEW k \in PassingRoutes(p, intact, store), Conjunction(ClaimOf(p), k) # {}
  PROVE  RouteStrength(p, k) = FullStrength
<1> DEFINE route == Conjunction(ClaimOf(p), k)
           V == {IF d \in Evidence THEN FullStrength ELSE runs[freezes[p].pinned[d]].strength : d \in route}
<1>1. ASSUME NEW d \in route, d \notin Evidence
      PROVE  runs[freezes[p].pinned[d]].strength = FullStrength
  <2>1. d \in Claims
    BY <1>1, PassedRoute, Payloads, RoutesOfClaims
  <2>2. freezes[p].pinned[d] \in DOMAIN runs /\ runs[freezes[p].pinned[d]].promoted
    BY <2>1, PassedRoute
  <2> QED
    BY <2>2 DEF Decided, Decision
<1>2. V # {} /\ \A v \in V : v = FullStrength
  BY <1>1
<1>3. RouteStrength(p, k) = StrengthMeet(V)
  BY DEF RouteStrength
<1> HIDE DEF V
<1> QED
  BY <1>2, <1>3, FullMeet

(* What a promoted outcome shows of its proof, one step deep.              *)
LEMMA PromotedIsDecided ==
  ASSUME Typed, Frozen, Decided, NEW p \in Protocols, NEW intact, NEW others \in BOOLEAN, NEW store,
         store.runs \subseteq DOMAIN runs, Outcome(p, intact, others, store).promoted
  PROVE  Decision(Outcome(p, intact, others, store))
<1> DEFINE c          == ClaimOf(p)
           passing    == PassingRoutes(p, intact, store)
           active     == ActiveRoute(passing)
           supporting == Supporting(p, active)
           proven     == ProofRoutes(p, supporting, passing)
           out        == Outcome(p, intact, others, store)
<1>1. /\ G4(supporting) /\ G6(p, supporting) /\ G7(p, supporting, intact) /\ G13(p)
      /\ proven # {}
      /\ out.protocol = p /\ out.claim = c /\ out.scope = ScopeOf(p) /\ out.cutoff = CutoffOf(p)
      /\ out.active = active /\ out.supporting = supporting
      /\ out.selected = First(proven) /\ out.strength = RouteStrength(p, First(proven))
  BY DEF Outcome
<1>2. /\ passing \subseteq DOMAIN Routes(c) /\ passing \subseteq Nat
      /\ active \in passing /\ \A k \in passing : active <= k
  BY <1>1, ActiveIsFirst DEF ProofRoutes
<1>3. supporting = (Conjunction(c, active) \cap Evidence) \cup
                   UNION {runs[freezes[p].pinned[d]].supporting : d \in Conjunction(c, active) \cap Claims}
  BY <1>2, SupportingPassed
<1>4. Conjunction(c, active) # {} /\ Conjunction(c, active) \cap Evidence \subseteq supporting
  <2>1. supporting # {}
    BY <1>1 DEF G4
  <2> HIDE DEF supporting, active, c
  <2> QED
    BY <1>3, <2>1
<1>5. First(proven) = active
  <2>1. active \in proven
    BY <1>2, <1>4 DEF ProofRoutes
  <2>2. proven \subseteq passing /\ proven \subseteq Nat
    BY <1>2 DEF ProofRoutes
  <2>3. First(proven) \in proven /\ First(proven) <= active
    BY <2>1, <2>2, FirstIsLeast
  <2> QED
    BY <1>2, <2>2, <2>3
<1>6. ASSUME NEW k \in DOMAIN Routes(c), k <= active PROVE Conjunction(c, k) # {}
  <2> SUFFICES ASSUME Conjunction(c, k) = {} PROVE FALSE
    OBVIOUS
  <2>1. k \in passing
    BY DEF PassingRoutes
  <2>2. k = active
    BY <1>2, <1>6, <2>1
  <2> QED
    BY <1>4, <2>2
<1>7. Selection(out)
  BY <1>1, <1>2, <1>5, <1>6 DEF Selection
<1>8. Foundation(out)
  <2>1. \A d \in Conjunction(c, active) \cap Claims : Carried(out, d)
    BY <1>1, <1>2, PassedRoute DEF Carried, Pinned
  <2>2. Route(out) = Conjunction(c, active)
    BY <1>1, <1>5 DEF Route
  <2>3. {runs[Pinned(out, d)].supporting : d \in Conjunction(c, active) \cap Claims} =
        {runs[freezes[p].pinned[d]].supporting : d \in Conjunction(c, active) \cap Claims}
    BY <1>1 DEF Pinned
  <2>4. Conjunction(c, active) \cap Evidence \subseteq Linked(p, "supports")
    BY <1>2, PassedRoute
  <2> HIDE DEF out, active, supporting
  <2> QED
    BY <1>1, <1>3, <2>1, <2>2, <2>3, <2>4 DEF Foundation, G4
<1>9. Limits(out)
  BY <1>1 DEF Limits, Known, G6, G7
<1>10. out.strength = FullStrength
  BY <1>1, <1>2, <1>4, <1>5, PassedStrength
<1> QED
  BY <1>7, <1>8, <1>9, <1>10 DEF Decision

---------------------------------------------------------------------------
(* The invariant is inductive.                                             *)

(* What a step may never do to what a run was decided from.                *)
Kept ==
    /\ study' = study
    /\ \A i \in DOMAIN runs : i \in DOMAIN runs' /\ runs'[i] = runs[i]
    /\ \A p \in Protocols : freezes[p].frozen => freezes'[p] = freezes[p]

(* Payloads, records and freezes are immutable.                            *)
LEMMA StepKeeps == ASSUME Typed, [Next]_vars PROVE Kept
<1>1. ASSUME NEW c \in Claims, RegisterClaim(c) PROVE Kept
  BY <1>1 DEF RegisterClaim, Kept
<1>2. ASSUME NEW l \in Links, RegisterLink(l) \/ Resolve(l) PROVE Kept
  BY <1>2 DEF RegisterLink, Resolve, Kept
<1>3. ASSUME NEW p \in Protocols, Freeze(p) PROVE Kept
  BY <1>3 DEF Freeze, Kept, Typed
<1>4. ASSUME NEW p \in Protocols, Run(p) PROVE Kept
  <2>1. PICK out : runs' = Append(runs, out)
    BY <1>4 DEF Run
  <2> QED
    BY <1>4, <2>1 DEF Run, Kept, Typed
<1>5. CASE UNCHANGED vars
  BY <1>5 DEF vars, Kept
<1> QED
  BY <1>1, <1>2, <1>3, <1>4, <1>5 DEF Next

(* So what a run was decided from stays as it was.                         *)
LEMMA DecisionStays ==
  ASSUME Kept, NEW r, r.protocol \in Protocols, freezes[r.protocol].frozen, Decision(r)
  PROVE  Decision(r)'
<1>1. freezes'[r.protocol] = freezes[r.protocol] /\ study' = study
  BY DEF Kept
<1>2. /\ \A c, k : (Routes(c))' = Routes(c) /\ (Conjunction(c, k))' = Conjunction(c, k)
      /\ (Route(r))' = Route(r)
  BY <1>1 DEF Routes, Conjunction, Route
<1>3. Selection(r)'
  BY <1>2 DEF Decision, Selection
<1>4. ASSUME NEW d \in Route(r) \cap Claims
      PROVE  Carried(r, d)' /\ Pinned(r, d) \in DOMAIN runs /\ (Pinned(r, d))' = Pinned(r, d)
  <2>1. Carried(r, d)
    BY DEF Decision, Foundation
  <2> QED
    BY <1>1, <2>1 DEF Carried, Pinned, Kept
<1>5. Foundation(r)'
  <2>1. {runs[Pinned(r, d)].supporting : d \in Route(r) \cap Claims} =
        {runs'[(Pinned(r, d))'].supporting : d \in Route(r) \cap Claims}
    BY <1>4 DEF Kept
  <2>2. (Linked(r.protocol, "supports"))' = Linked(r.protocol, "supports")
    BY <1>1 DEF Linked, ClaimOf
  <2> QED
    BY <1>2, <1>4, <2>1, <2>2 DEF Decision, Foundation
<1>6. Limits(r)'
  BY <1>1 DEF Decision, Limits, EvidenceFits, ScopeOf, ClaimOf, Known, Linked, G13
<1> QED
  BY <1>3, <1>5, <1>6 DEF Decision

(* The latest run of a claim is a run of that claim.                       *)
LEMMA LatestIsARun ==
  ASSUME Typed, NEW d, LatestRun(d) # 0
  PROVE  LatestRun(d) \in DOMAIN runs /\ runs[LatestRun(d)].claim = d
<1> DEFINE mine == {i \in DOMAIN runs : runs[i].claim = d}
           gaps == {Len(runs) - i : i \in mine}
<1>1. mine # {} /\ LatestRun(d) = CHOOSE i \in mine : \A j \in mine : j <= i
  BY DEF LatestRun
<1>2. gaps \in SUBSET Nat /\ gaps # {}
  BY <1>1, RunsAreRecords DEF Typed
<1>3. PICK g \in gaps : \A h \in gaps : g <= h
  BY <1>2, LeastNatural
<1>4. PICK i \in mine : g = Len(runs) - i
  OBVIOUS
<1>5. ASSUME NEW j \in mine PROVE j <= i
  <2>1. g <= Len(runs) - j
    BY <1>3
  <2>2. i \in Nat /\ j \in Nat /\ Len(runs) \in Nat
    BY RunsAreRecords DEF Typed
  <2> QED
    BY <1>4, <2>1, <2>2
<1>6. LatestRun(d) \in mine
  BY <1>1, <1>5
<1> QED
  BY <1>6

LEMMA TypedStep == ASSUME Typed, Frozen, [Next]_vars PROVE Typed'
<1>1. ASSUME NEW c \in Claims, RegisterClaim(c) PROVE Typed'
  BY <1>1 DEF RegisterClaim, Typed
<1>2. ASSUME NEW l \in Links, RegisterLink(l) PROVE Typed'
  BY <1>2 DEF RegisterLink, Typed
<1>3. ASSUME NEW l \in Links, Resolve(l) PROVE Typed'
  BY <1>3 DEF Resolve, Typed
<1>4. ASSUME NEW p \in Protocols, Freeze(p) PROVE Typed'
  <2> DEFINE pins == [d \in Claims |-> IF d \in Cone(ClaimOf(p)) \ {ClaimOf(p)} THEN LatestRun(d) ELSE 0]
             new  == [frozen |-> TRUE, links |-> CollectedLinks(ClaimOf(p)),
                      resolved |-> CollectedResolutions(ClaimOf(p)), pinned |-> pins]
  <2>1. ASSUME NEW d \in Claims PROVE LatestRun(d) \in Nat
    BY LatestIsARun, RunsAreRecords
  <2>2. pins \in [Claims -> Nat]
    BY <2>1
  <2>3. CollectedLinks(ClaimOf(p)) \in SUBSET Links /\ CollectedResolutions(ClaimOf(p)) \in SUBSET Links
    BY DEF CollectedLinks, CollectedResolutions, Typed
  <2> HIDE DEF pins
  <2>4. new \in FreezeSpec
    BY <2>2, <2>3 DEF FreezeSpec
  <2>5. freezes' = [freezes EXCEPT ![p] = new]
    BY <1>4 DEF Freeze, pins
  <2> HIDE DEF new
  <2> QED
    BY <1>4, <2>4, <2>5 DEF Freeze, Typed
<1>5. ASSUME NEW p \in Protocols, Run(p) PROVE Typed'
  <2>1. PICK intact \in SUBSET Evidence, others \in BOOLEAN :
          runs' = Append(runs, Outcome(p, intact, others, Live))
    BY <1>5 DEF Run
  <2>2. Outcome(p, intact, others, Live) \in RunSpec
    BY OutcomeTyped
  <2> QED
    BY <1>5, <2>1, <2>2 DEF Run, Typed
<1>6. CASE UNCHANGED vars
  BY <1>6 DEF vars, Typed
<1> QED
  BY <1>1, <1>2, <1>3, <1>4, <1>5, <1>6 DEF Next

LEMMA FrozenStep == ASSUME Typed, Frozen, [Next]_vars PROVE Frozen'
<1>1. Kept
  BY StepKeeps
<1>2. registered \subseteq registered' /\ links \subseteq links'
  BY DEF Next, RegisterClaim, RegisterLink, Resolve, Freeze, Run, vars
<1>3. ASSUME NEW q \in Protocols, freezes'[q] = freezes[q]
      PROVE  /\ freezes'[q].links \subseteq links' /\ freezes'[q].resolved \subseteq freezes'[q].links
             /\ freezes'[q].frozen => (ClaimOf(q))' \in registered'
             /\ \A d \in Claims : freezes'[q].pinned[d] # 0 =>
                  freezes'[q].pinned[d] \in DOMAIN runs' /\ runs'[freezes'[q].pinned[d]].claim = d
  BY <1>1, <1>2, <1>3 DEF Frozen, Kept, ClaimOf
<1>4. ASSUME NEW p \in Protocols, Freeze(p) PROVE Frozen'
  <2>1. \A q \in Protocols \ {p} : freezes'[q] = freezes[q]
    BY <1>4 DEF Freeze, Typed
  <2>2. /\ freezes'[p].links = CollectedLinks(ClaimOf(p))
        /\ freezes'[p].resolved = CollectedResolutions(ClaimOf(p))
        /\ \A d \in Claims : freezes'[p].pinned[d] = 0 \/ freezes'[p].pinned[d] = LatestRun(d)
        /\ ClaimOf(p) \in registered
        /\ UNCHANGED <<study, registered, links, runs>>
    BY <1>4 DEF Freeze, Typed
  <2>3. \A d \in Claims : freezes'[p].pinned[d] # 0 =>
          freezes'[p].pinned[d] \in DOMAIN runs' /\ runs'[freezes'[p].pinned[d]].claim = d
    BY <2>2, LatestIsARun
  <2>4. freezes'[p].links \subseteq links' /\ freezes'[p].resolved \subseteq freezes'[p].links
    BY <2>2 DEF CollectedLinks, CollectedResolutions
  <2>5. (ClaimOf(p))' \in registered'
    BY <2>2 DEF ClaimOf
  <2> QED
    BY <1>3, <2>1, <2>3, <2>4, <2>5 DEF Frozen
<1>5. CASE UNCHANGED freezes
  BY <1>3, <1>5 DEF Frozen
<1> QED
  BY <1>4, <1>5 DEF Next, RegisterClaim, RegisterLink, Resolve, Run, vars

(* A new claim ranks above all that are registered.                        *)
LEMMA GroundedStep == ASSUME Typed, Grounded, [Next]_vars PROVE Grounded'
<1>1. Kept
  BY StepKeeps
<1>2. \A c : (DependenciesOf(c))' = DependenciesOf(c)
  BY <1>1 DEF Kept, DependenciesOf, Conjunction, Routes
<1> PICK n \in Nat :
      \E rank \in [registered -> 0..n] : \A c \in registered :
        \A d \in DependenciesOf(c) \cap Claims : d \in registered /\ rank[d] < rank[c]
  BY DEF Grounded
<1>3. PICK rank \in [registered -> 0..n] : \A c \in registered :
        \A d \in DependenciesOf(c) \cap Claims : d \in registered /\ rank[d] < rank[c]
  OBVIOUS
<1>4. ASSUME NEW c \in Claims, RegisterClaim(c) PROVE Grounded'
  <2> DEFINE above == [b \in registered' |-> IF b = c THEN n + 1 ELSE rank[b]]
  <2>1. registered' = registered \cup {c} /\ c \notin registered /\ DependenciesOf(c) \cap Claims \subseteq registered
    BY <1>4 DEF RegisterClaim
  <2>2. above \in [registered' -> 0..(n + 1)]
    BY <2>1
  <2>3. ASSUME NEW b \in registered', NEW d \in DependenciesOf(b) \cap Claims
        PROVE  d \in registered' /\ above[d] < above[b]
    <3>1. d \in registered /\ d # c
      BY <1>3, <2>1
    <3>2. above[d] = rank[d] /\ rank[d] \in 0..n
      BY <2>1, <3>1
    <3> QED
      BY <1>3, <2>1, <3>1, <3>2
  <2>4. n + 1 \in Nat
    OBVIOUS
  <2> HIDE DEF above
  <2> QED
    BY <1>2, <2>2, <2>3, <2>4 DEF Grounded
<1>5. CASE UNCHANGED registered
  BY <1>2, <1>5 DEF Grounded
<1> QED
  BY <1>4, <1>5 DEF Next, RegisterLink, Resolve, Freeze, Run, vars

LEMMA DecidedStep == ASSUME Typed, Frozen, Decided, [Next]_vars PROVE Decided'
<1>1. Kept
  BY StepKeeps
<1>2. ASSUME NEW i \in DOMAIN runs
      PROVE  (Recorded(i) /\ (runs[i].promoted => Decision(runs[i])))'
  <2>1. PICK r : r = runs[i]
    OBVIOUS
  <2>2. Recorded(i) /\ (r.promoted => Decision(r)) /\ r.protocol \in Protocols
    BY <2>1, RunsAreRecords DEF Decided, RunSpec
  <2>3. runs'[i] = r /\ freezes'[r.protocol] = freezes[r.protocol] /\ freezes[r.protocol].frozen
    BY <1>1, <2>1, <2>2 DEF Kept, Recorded
  <2>4. Recorded(i)'
    BY <1>1, <2>1, <2>2, <2>3 DEF Recorded, ClaimOf, ScopeOf, CutoffOf, Kept
  <2>5. r.promoted => Decision(r)'
    BY <1>1, <2>2, <2>3, DecisionStays
  <2> QED
    BY <2>3, <2>4, <2>5
<1>3. ASSUME NEW p \in Protocols, Run(p) PROVE Decided'
  <2>1. PICK intact \in SUBSET Evidence, others \in BOOLEAN :
          runs' = Append(runs, Outcome(p, intact, others, Live))
    BY <1>3 DEF Run
  <2>2. PICK out : out = Outcome(p, intact, others, Live)
    OBVIOUS
  <2>3. PICK new \in Nat : new = Len(runs) + 1
    BY DEF Typed
  <2>4. /\ out.protocol = p /\ out.claim = ClaimOf(p) /\ out.scope = ScopeOf(p) /\ out.cutoff = CutoffOf(p)
        /\ freezes[p].frozen
    BY <1>3, <2>2 DEF Outcome, Run
  <2>5. runs'[new] = out /\ DOMAIN runs' = DOMAIN runs \cup {new} /\ UNCHANGED <<study, freezes>>
    BY <1>3, <2>1, <2>2, <2>3 DEF Run, Typed
  <2>6. Recorded(new)'
    <3>1. \A d \in Claims : freezes[p].pinned[d] < new
      BY <2>3, RunsAreRecords DEF Frozen, Typed
    <3> QED
      BY <2>4, <2>5, <3>1 DEF Recorded, ClaimOf, ScopeOf, CutoffOf
  <2>7. out.promoted => Decision(out)'
    <3>1. out.promoted => Decision(out)
      BY <2>2, PromotedIsDecided DEF Live
    <3> QED
      BY <1>1, <2>4, <3>1, DecisionStays
  <2> QED
    BY <1>2, <2>5, <2>6, <2>7 DEF Decided
<1>4. CASE UNCHANGED runs
  BY <1>2, <1>4 DEF Decided
<1> QED
  BY <1>3, <1>4 DEF Next, RegisterClaim, RegisterLink, Resolve, Freeze, vars

(* Nothing is registered, frozen or run at first.                          *)
LEMMA InitInvariant == ASSUME Init PROVE IInv
<1>1. Typed
  BY DEF Init, Typed, FreezeSpec, NotFrozen
<1>2. Frozen
  BY DEF Init, Frozen, NotFrozen
<1>3. Grounded
  <2>1. [c \in {} |-> 0] \in [{} -> 0..0] /\ registered = {}
    BY DEF Init
  <2> QED
    BY <2>1 DEF Grounded
<1>4. Decided
  BY DEF Init, Decided
<1> QED
  BY <1>1, <1>2, <1>3, <1>4 DEF IInv

(* The claim graph keeps its invariant.                                    *)
THEOREM Inductive == Spec => []IInv
<1>1. Init => IInv
  BY InitInvariant
<1>2. IInv /\ [Next]_vars => IInv'
  BY TypedStep, FrozenStep, GroundedStep, DecidedStep DEF IInv
<1> QED
  BY <1>1, <1>2, PTL DEF Spec

(* Freezes and runs hold only what is registered.                          *)
THEOREM TypeCorrect == Spec => []TypeOK
<1>1. IInv => TypeOK
  <2> SUFFICES ASSUME IInv PROVE TypeOK
    OBVIOUS
  <2>1. \A p \in Protocols : \A c \in Claims : freezes[p].pinned[c] \in 0..Len(runs)
    BY DEF IInv, Typed, FreezeSpec, Frozen
  <2>2. \A i \in DOMAIN runs :
          /\ runs[i].protocol \in Protocols /\ runs[i].claim = ClaimOf(runs[i].protocol)
          /\ runs[i].supporting \subseteq Evidence
          /\ runs[i].strength \in Vector
    BY RunsAreRecords DEF IInv, Decided, Recorded, RunSpec
  <2> QED
    BY <2>1, <2>2 DEF IInv, Typed, Frozen, TypeOK
<1> QED
  BY <1>1, Inductive, PTL

(* The route that is certified is the one whose evidence was examined.     *)
THEOREM SelectionTheorem == Spec => []SelectedIsActive
<1>1. IInv => SelectedIsActive
  BY DEF IInv, Decided, Decision, Selection, SelectedIsActive, Promoted
<1> QED
  BY <1>1, Inductive, PTL

---------------------------------------------------------------------------
(* Replay.                                                                 *)

(* What supports a route of promoted claims and fitting evidence fits the  *)
(* claim and was known in time.                                            *)
LEMMA SupportFits ==
  ASSUME IInv, NEW p \in Protocols, NEW intact, NEW store, store.runs \subseteq DOMAIN runs,
         NEW k \in PassingRoutes(p, intact, store), NEW e \in Supporting(p, k)
  PROVE  EvidenceFits(p, e) /\ study.evidence[e].known_at <= CutoffOf(p)
<1> USE DEF IInv
<1>1. CASE e \in Conjunction(ClaimOf(p), k) \cap Evidence
  BY <1>1, PassedRoute
<1>2. ASSUME NEW d \in Conjunction(ClaimOf(p), k) \cap Claims, e \in runs[freezes[p].pinned[d]].supporting
      PROVE  EvidenceFits(p, e) /\ study.evidence[e].known_at <= CutoffOf(p)
  <2> DEFINE j == freezes[p].pinned[d]
  <2>1. j \in DOMAIN runs /\ runs[j].promoted /\ Within(ScopeOf(p), runs[j].scope) /\ runs[j].cutoff <= CutoffOf(p)
    BY PassedRoute
  <2>2. Decision(runs[j]) /\ Recorded(j) /\ runs[j] \in RunSpec
    BY <2>1, RunsAreRecords DEF Decided
  <2>3. EvidenceFits(runs[j].protocol, e) /\ study.evidence[e].known_at <= runs[j].cutoff /\ e \in Evidence
    BY <1>2, <2>2 DEF Decision, Limits, Known, RunSpec
  <2>4. /\ ScopeOf(p) \in ScopeSpec /\ runs[j].scope \in ScopeSpec
        /\ study.evidence[e].scope \in ScopeSpec /\ study.evidence[e].window \in Window
        /\ study.evidence[e].known_at \in Nat /\ runs[j].cutoff \in Nat /\ CutoffOf(p) \in Nat
    BY <2>2, <2>3, Payloads DEF RunSpec, Cutoffs
  <2>5. EvidenceWithin(runs[j].scope, study.evidence[e].scope, study.evidence[e].window)
    BY <2>2, <2>3 DEF EvidenceFits, Recorded
  <2>6. EvidenceFits(p, e)
    BY <2>1, <2>4, <2>5, EvidenceInherited DEF EvidenceFits
  <2>7. study.evidence[e].known_at <= CutoffOf(p)
    BY <2>1, <2>3, <2>4
  <2> QED
    BY <2>6, <2>7
<1> QED
  BY <1>1, <1>2, SupportingPassed

(* A promoted run is promoted again from what its packet holds.            *)
LEMMA PromotedAgain ==
  ASSUME IInv, NEW i \in DOMAIN runs, runs[i].promoted
  PROVE  Outcome(runs[i].protocol, Evidence, TRUE, Replayed(runs[i].protocol)).promoted
<1> USE DEF IInv
<1> DEFINE p          == runs[i].protocol
           r          == runs[i]
           c          == ClaimOf(p)
           store      == Replayed(p)
           passing    == PassingRoutes(p, Evidence, store)
           active     == ActiveRoute(passing)
           supporting == Supporting(p, active)
           proven     == ProofRoutes(p, supporting, passing)
<1>1. p \in Protocols /\ Recorded(i) /\ Decision(r) /\ r.claim = c /\ r.cutoff = CutoffOf(p) /\ r.scope = ScopeOf(p)
  BY RunsAreRecords DEF Decided, Recorded, RunSpec
<1>2. store.runs \subseteq DOMAIN runs /\ store.links = freezes[p].links
  BY <1>1 DEF Replayed, Frozen
<1>3. r.selected \in passing
  <2>1. r.selected \in DOMAIN Routes(c)
    BY <1>1 DEF Decision, Selection
  <2>2. ASSUME NEW e \in Conjunction(c, r.selected), e \in Evidence PROVE EvidenceAdmitted(p, e, Evidence)
    <3>1. e \in r.supporting
      BY <1>1, <2>2 DEF Decision, Foundation, Route
    <3>2. EvidenceFits(p, e) /\ study.evidence[e].known_at <= CutoffOf(p)
      BY <1>1, <3>1 DEF Decision, Limits, Known
    <3>3. e \in Linked(p, "supports")
      BY <1>1, <2>2 DEF Decision, Foundation, Route
    <3> QED
      BY <2>2, <3>2, <3>3 DEF EvidenceAdmitted
  <2>3. ASSUME NEW d \in Conjunction(c, r.selected), d \notin Evidence PROVE ClaimAdmitted(p, d, store)
    <3>1. d \in Claims
      BY <1>1, <2>1, <2>3, Payloads, RoutesOfClaims
    <3>2. Carried(r, d)
      BY <1>1, <3>1 DEF Decision, Foundation, Route
    <3>3. freezes[p].pinned[d] \in store.runs
      BY <3>1, <3>2, RunsAreRecords DEF Carried, Pinned, Replayed
    <3> QED
      BY <1>1, <3>2, <3>3 DEF ClaimAdmitted, Carried, Pinned
  <2> QED
    BY <2>1, <2>2, <2>3 DEF PassingRoutes, Admitted
<1>4. active \in passing /\ active \in DOMAIN Routes(c) /\ active <= r.selected
  BY <1>1, <1>3, ActiveIsFirst
<1>5. supporting = (Conjunction(c, active) \cap Evidence) \cup
                   UNION {runs[freezes[p].pinned[d]].supporting : d \in Conjunction(c, active) \cap Claims}
  BY <1>1, <1>2, <1>4, SupportingPassed
<1>6. Conjunction(c, active) # {} /\ Conjunction(c, active) \subseteq Claims \cup Evidence
  BY <1>1, <1>4, Payloads, RoutesOfClaims DEF Decision, Selection
<1>7. supporting # {}
  <2>1. ASSUME NEW d \in Conjunction(c, active) \cap Claims PROVE runs[freezes[p].pinned[d]].supporting # {}
    <3>1. freezes[p].pinned[d] \in DOMAIN runs /\ runs[freezes[p].pinned[d]].promoted
      BY <1>1, <1>2, <1>4, PassedRoute
    <3> QED
      BY <3>1 DEF Decided, Decision, Foundation
  <2>2. CASE Conjunction(c, active) \cap Evidence # {}
    BY <1>5, <2>2
  <2>3. CASE Conjunction(c, active) \cap Evidence = {}
    <3>1. PICK d \in Conjunction(c, active) \cap Claims : TRUE
      BY <1>6, <2>3
    <3>2. runs[freezes[p].pinned[d]].supporting \subseteq supporting
      BY <1>5, <3>1
    <3> QED
      BY <2>1, <3>1, <3>2
  <2> QED
    BY <2>2, <2>3
<1>8. \A e \in supporting : EvidenceFits(p, e) /\ study.evidence[e].known_at <= CutoffOf(p)
  BY <1>1, <1>2, <1>4, SupportFits
<1>9. G0(p, store) /\ G4(supporting) /\ G6(p, supporting) /\ G13(p)
  BY <1>1, <1>2, <1>7, <1>8 DEF G0, G4, G6, Decision, Limits
<1>10. G7(p, supporting, Evidence)
  <2>1. \A e \in Linked(p, "contradicts") : study.evidence[e].known_at <= CutoffOf(p)
    BY <1>1 DEF Decision, Limits, Known
  <2>2. supporting \subseteq Evidence /\ Linked(p, "contradicts") \subseteq Evidence
    BY <1>1, SupportingTyped, LinkedEvidence
  <2> QED
    BY <1>8, <2>1, <2>2 DEF G7
<1>11. active \in proven
  BY <1>4, <1>5, <1>6 DEF ProofRoutes
<1> HIDE DEF passing, supporting, proven, store
<1> QED
  BY <1>9, <1>10, <1>11 DEF Outcome, passing, supporting, proven, store

(* "Full gate replay from the archive": what a run promoted, its packet    *)
(* promotes with the same strength, whatever was registered since.         *)
THEOREM ReplayTheorem == Spec => []ReplayAgrees
<1>1. IInv => ReplayAgrees
  <2> SUFFICES ASSUME IInv, NEW i \in DOMAIN runs, runs[i].promoted
               PROVE  LET p     == runs[i].protocol
                          again == Outcome(p, Evidence, TRUE, Replayed(p))
                      IN  again.promoted /\ again.strength = runs[i].strength
    BY DEF ReplayAgrees, Promoted
  <2> DEFINE p     == runs[i].protocol
             again == Outcome(p, Evidence, TRUE, Replayed(p))
  <2>1. p \in Protocols /\ runs[i].strength = FullStrength
    BY RunsAreRecords DEF IInv, Decided, Decision, RunSpec
  <2>2. Replayed(p).runs \subseteq DOMAIN runs
    BY <2>1 DEF Replayed, IInv, Frozen
  <2>3. again.promoted
    BY PromotedAgain
  <2>4. Decision(again)
    BY <2>1, <2>2, <2>3, PromotedIsDecided DEF IInv
  <2> QED
    BY <2>1, <2>3, <2>4 DEF Decision
<1> QED
  BY <1>1, Inductive, PTL

---------------------------------------------------------------------------
(* The proof beneath a run.                                                *)

(* What lies below each of the first n runs, if rests on what rests says.  *)
Unfolds(f, rests, n) ==
    f = [j \in 1..n |-> {j} \cup UNION {f[k] : k \in rests[j] \cap 1..(j - 1)}]

(* There is such a function: a run rests on earlier runs only.             *)
LEMMA UnfoldingExists ==
  ASSUME NEW rests, NEW n \in Nat
  PROVE  \E f : Unfolds(f, rests, n)
<1> DEFINE Missing == {m \in Nat : ~ \E f : Unfolds(f, rests, m)}
<1> SUFFICES ASSUME Missing # {} PROVE FALSE
  OBVIOUS
<1>1. PICK m \in Missing : \A k \in Missing : m <= k
  BY LeastNatural
<1>2. m # 0
  <2>1. Unfolds([j \in {} |-> {}], rests, 0)
    BY DEF Unfolds
  <2> QED
    BY <1>1, <2>1
<1>3. PICK f : Unfolds(f, rests, m - 1)
  BY <1>1, <1>2
<1> DEFINE Below(j) == {j} \cup UNION {f[k] : k \in rests[j] \cap 1..(j - 1)}
           g == [j \in 1..m |-> IF j = m THEN Below(m) ELSE f[j]]
<1>4. ASSUME NEW j \in 1..m PROVE g[j] = {j} \cup UNION {g[k] : k \in rests[j] \cap 1..(j - 1)}
  <2>1. {g[k] : k \in rests[j] \cap 1..(j - 1)} = {f[k] : k \in rests[j] \cap 1..(j - 1)}
    <3>1. \A k \in 1..(j - 1) : g[k] = f[k]
      BY <1>1
    <3> QED
      BY <3>1
  <2>2. g[j] = Below(j)
    <3>1. CASE j = m
      BY <3>1
    <3>2. CASE j # m
      <4>1. j \in 1..(m - 1)
        BY <1>1, <3>2
      <4>2. f[j] = Below(j)
        BY <1>3, <4>1 DEF Unfolds
      <4> QED
        BY <3>2, <4>2
    <3> QED
      BY <3>1, <3>2
  <2> HIDE DEF g
  <2> QED
    BY <2>1, <2>2
<1>5. Unfolds(g, rests, m)
  <2>1. g = [j \in 1..m |-> g[j]]
    OBVIOUS
  <2> HIDE DEF g
  <2> QED
    BY <1>4, <2>1 DEF Unfolds
<1> QED
  BY <1>1, <1>5

(* Beneath is defined by it.                                               *)
LEMMA BeneathUnfolds ==
  ASSUME NEW i \in Nat
  PROVE  \E f : /\ Beneath(i) = f[i]
               /\ \A j \in 1..i : f[j] = {j} \cup UNION {f[k] : k \in RestsOn(j) \cap 1..(j - 1)}
<1> DEFINE rests == [j \in 1..i |-> RestsOn(j)]
           f == CHOOSE f : f = [j \in 1..i |-> {j} \cup UNION {f[k] : k \in RestsOn(j) \cap 1..(j - 1)}]
<1>1. \E h : h = [j \in 1..i |-> {j} \cup UNION {h[k] : k \in RestsOn(j) \cap 1..(j - 1)}]
  <2>1. PICK h : Unfolds(h, rests, i)
    BY UnfoldingExists
  <2> QED
    BY <2>1 DEF Unfolds
<1>2. f = [j \in 1..i |-> {j} \cup UNION {f[k] : k \in RestsOn(j) \cap 1..(j - 1)}]
  BY <1>1
<1>3. Beneath(i) = f[i]
  BY DEF Beneath
<1> HIDE DEF f
<1>4. \A j \in 1..i : f[j] = {j} \cup UNION {f[k] : k \in RestsOn(j) \cap 1..(j - 1)}
  BY <1>2
<1> QED
  BY <1>3, <1>4

Named(i) == Conjunction(runs[i].claim, runs[i].selected) \cap Evidence

(* The runs a promoted run rests on directly.                              *)
LEMMA Neighbours ==
  ASSUME IInv, NEW i \in DOMAIN runs, runs[i].promoted
  PROVE  /\ \A k \in RestsOn(i) :
              /\ k \in 1..(i - 1) /\ k \in DOMAIN runs /\ runs[k].promoted
              /\ Within(runs[i].scope, runs[k].scope)
              /\ runs[k].cutoff <= runs[i].cutoff
              /\ runs[k].claim \in DependenciesOf(runs[i].claim) \cap Claims
         /\ runs[i].supporting = Named(i) \cup UNION {runs[k].supporting : k \in RestsOn(i)}
<1>1. Decision(runs[i]) /\ Recorded(i)
  BY DEF IInv, Decided
<1>2. RestsOn(i) = {Pinned(runs[i], d) : d \in Route(runs[i]) \cap Claims}
  BY DEF RestsOn, Pinned, Route
<1>3. ASSUME NEW d \in Route(runs[i]) \cap Claims
      PROVE  LET k == Pinned(runs[i], d)
             IN  /\ k \in 1..(i - 1) /\ k \in DOMAIN runs /\ runs[k].promoted
                 /\ Within(runs[i].scope, runs[k].scope)
                 /\ runs[k].cutoff <= runs[i].cutoff
                 /\ runs[k].claim \in DependenciesOf(runs[i].claim) \cap Claims
  <2>1. Carried(runs[i], d)
    BY <1>1 DEF Decision, Foundation
  <2>2. Pinned(runs[i], d) < i
    BY <1>1 DEF Recorded, Pinned
  <2>3. Pinned(runs[i], d) \in Nat \ {0} /\ i \in Nat
    BY <2>1, RunsAreRecords DEF Carried, IInv
  <2>4. d \in DependenciesOf(runs[i].claim)
    BY <1>1, RoutesAreDependencies DEF Decision, Selection, Route
  <2> QED
    BY <2>1, <2>2, <2>3, <2>4 DEF Carried
<1>4. {runs[Pinned(runs[i], d)].supporting : d \in Route(runs[i]) \cap Claims} =
      {runs[k].supporting : k \in RestsOn(i)}
  BY <1>2
<1>5. runs[i].supporting = Named(i) \cup UNION {runs[k].supporting : k \in RestsOn(i)}
  BY <1>1, <1>4 DEF Decision, Foundation, Route, Named
<1> QED
  BY <1>2, <1>3, <1>5

(* What a run hands up to the one it is beneath: an earlier promotion of a *)
(* claim that ranks lower, no later knowledge, at least its scope.         *)
Upholds(j, i, rank) ==
    /\ j \in 1..i /\ j \in DOMAIN runs
    /\ runs[j].promoted
    /\ runs[j].cutoff <= runs[i].cutoff
    /\ Within(runs[i].scope, runs[j].scope)
    /\ j # i => j < i /\ rank[runs[j].claim] < rank[runs[i].claim]

(* Comparing neighbours is enough.                                         *)
LEMMA UpholdsTransitive ==
  ASSUME Typed, NEW n \in Nat, NEW rank \in [registered -> 0..n],
         \A l \in DOMAIN runs : runs[l].claim \in registered,
         NEW i \in DOMAIN runs, NEW k, NEW j, k # i, Upholds(k, i, rank), Upholds(j, k, rank)
  PROVE  Upholds(j, i, rank)
<1>1. i \in Nat /\ k \in Nat /\ j \in Nat /\ k \in DOMAIN runs /\ j \in DOMAIN runs
  BY RunsAreRecords DEF Upholds
<1>2. /\ runs[i].scope \in ScopeSpec /\ runs[k].scope \in ScopeSpec /\ runs[j].scope \in ScopeSpec
      /\ runs[i].cutoff \in Nat /\ runs[k].cutoff \in Nat /\ runs[j].cutoff \in Nat
  BY <1>1, RunsAreRecords DEF RunSpec, Cutoffs
<1>3. Within(runs[i].scope, runs[j].scope)
  BY <1>2, WithinTransitive DEF Upholds
<1>4. /\ rank[runs[i].claim] \in Nat /\ rank[runs[k].claim] \in Nat /\ rank[runs[j].claim] \in Nat
  BY <1>1
<1> QED
  BY <1>1, <1>2, <1>3, <1>4 DEF Upholds

(* Every run beneath a promoted run upholds it, and together they name all *)
(* the evidence it is supported by.                                        *)
LEMMA ProofBeneath ==
  ASSUME IInv, NEW i \in DOMAIN runs, runs[i].promoted,
         NEW n \in Nat, NEW rank \in [registered -> 0..n],
         \A c \in registered : \A d \in DependenciesOf(c) \cap Claims : d \in registered /\ rank[d] < rank[c]
  PROVE  /\ \A j \in Beneath(i) : Upholds(j, i, rank)
         /\ runs[i].supporting = UNION {Named(j) : j \in Beneath(i)}
<1> USE DEF IInv
<1>1. PICK f : /\ Beneath(i) = f[i]
               /\ \A j \in 1..i : f[j] = {j} \cup UNION {f[k] : k \in RestsOn(j) \cap 1..(j - 1)}
  BY RunsAreRecords, BeneathUnfolds
<1>2. \A j \in DOMAIN runs : runs[j].claim \in registered /\ runs[j].protocol \in Protocols
  BY RunsAreRecords DEF Decided, Recorded, Frozen, RunSpec
<1>3. i \in Nat /\ i \in 1..i /\ 1..i \subseteq DOMAIN runs
  BY RunsAreRecords DEF Typed
<1> DEFINE Sound(h) == /\ \A j \in f[h] : Upholds(j, h, rank)
                       /\ runs[h].supporting = UNION {Named(j) : j \in f[h]}
           Bad == {h \in 1..i : runs[h].promoted /\ ~ Sound(h)}
<1>4. Bad = {}
  <2> SUFFICES ASSUME Bad # {} PROVE FALSE
    OBVIOUS
  <2>1. PICK h \in Bad : \A k \in Bad : h <= k
    <3>1. Bad \in SUBSET Nat
      OBVIOUS
    <3> QED
      BY <3>1, LeastNatural
  <2>2. h \in DOMAIN runs /\ runs[h].promoted /\ h \in 1..i /\ h \in Nat
    BY <1>3, <2>1
  <2>3. RestsOn(h) \subseteq 1..(h - 1)
    BY <2>2, Neighbours
  <2>4. f[h] = {h} \cup UNION {f[k] : k \in RestsOn(h)}
    <3>1. RestsOn(h) \cap 1..(h - 1) = RestsOn(h)
      BY <2>3
    <3> QED
      BY <1>1, <2>2, <3>1
  <2>5. ASSUME NEW k \in RestsOn(h) PROVE Sound(k) /\ Upholds(k, h, rank) /\ k # h
    <3>1. /\ k \in 1..(h - 1) /\ k \in DOMAIN runs /\ runs[k].promoted
          /\ Within(runs[h].scope, runs[k].scope) /\ runs[k].cutoff <= runs[h].cutoff
          /\ runs[k].claim \in DependenciesOf(runs[h].claim) \cap Claims
      BY <2>2, Neighbours
    <3>2. k \in 1..i /\ k < h /\ ~ (h <= k)
      BY <1>3, <2>2, <3>1
    <3>3. k \notin Bad
      <4> HIDE DEF Bad
      <4> QED
        BY <2>1, <3>2
    <3>4. rank[runs[k].claim] < rank[runs[h].claim]
      BY <1>2, <2>2, <3>1
    <3> QED
      BY <2>2, <3>1, <3>2, <3>3, <3>4 DEF Upholds
  <2>6. Upholds(h, h, rank)
    <3>1. runs[h].scope \in ScopeSpec /\ runs[h].cutoff \in Nat
      BY <2>2, RunsAreRecords DEF RunSpec, Cutoffs
    <3>2. WellFormed(runs[h].scope)
      BY <1>2, <2>2, StudiesAssumption, Payloads DEF Decided, Recorded, ScopeOf, Typed
    <3> QED
      BY <2>2, <3>1, <3>2, WithinReflexive DEF Upholds
  <2>7. ASSUME NEW j \in f[h] PROVE Upholds(j, h, rank)
    <3>1. CASE j = h
      BY <2>6, <3>1
    <3>2. ASSUME NEW k \in RestsOn(h), j \in f[k] PROVE Upholds(j, h, rank)
      <4>1. Upholds(j, k, rank)
        BY <2>5, <3>2
      <4> QED
        BY <1>2, <2>2, <2>5, <4>1, UpholdsTransitive
    <3> QED
      BY <2>4, <3>1, <3>2
  <2>8. runs[h].supporting = UNION {Named(j) : j \in f[h]}
    <3>1. \A k \in RestsOn(h) : runs[k].supporting = UNION {Named(j) : j \in f[k]}
      BY <2>5
    <3>2. runs[h].supporting = Named(h) \cup UNION {runs[k].supporting : k \in RestsOn(h)}
      BY <2>2, Neighbours
    <3> HIDE DEF Bad
    <3> QED
      BY <2>4, <3>1, <3>2
  <2> QED
    BY <2>1, <2>7, <2>8
<1>5. Sound(i)
  BY <1>3, <1>4
<1> QED
  BY <1>1, <1>5

(* The same, for some ranking.                                             *)
LEMMA ProofIsSound ==
  ASSUME IInv
  PROVE  \E n \in Nat : \E rank \in [registered -> 0..n] :
           \A i \in Promoted :
             /\ \A j \in Beneath(i) : Upholds(j, i, rank)
             /\ runs[i].supporting = UNION {Named(j) : j \in Beneath(i)}
<1> PICK n \in Nat :
      \E rank \in [registered -> 0..n] : \A c \in registered :
        \A d \in DependenciesOf(c) \cap Claims : d \in registered /\ rank[d] < rank[c]
  BY DEF IInv, Grounded
<1>1. PICK rank \in [registered -> 0..n] : \A c \in registered :
        \A d \in DependenciesOf(c) \cap Claims : d \in registered /\ rank[d] < rank[c]
  OBVIOUS
<1>2. \A i \in Promoted : /\ \A j \in Beneath(i) : Upholds(j, i, rank)
                         /\ runs[i].supporting = UNION {Named(j) : j \in Beneath(i)}
  BY <1>1, ProofBeneath DEF Promoted
<1> QED
  BY <1>2

(* Nothing is promoted on what was not, or by itself through others.       *)
THEOREM FoundationTheorem == Spec => []ProofIsWellFounded
<1>1. IInv => ProofIsWellFounded
  <2> SUFFICES ASSUME IInv, NEW i \in Promoted, NEW j \in Beneath(i) \ {i}
               PROVE  /\ j < i /\ j \in Promoted
                      /\ runs[j].claim # runs[i].claim
                      /\ runs[j].cutoff <= runs[i].cutoff
    BY DEF ProofIsWellFounded
  <2> PICK n \in Nat : \E rank \in [registered -> 0..n] : \A k \in Promoted :
                        \A l \in Beneath(k) : Upholds(l, k, rank)
    BY ProofIsSound
  <2>1. PICK rank \in [registered -> 0..n] : Upholds(j, i, rank)
    OBVIOUS
  <2>2. runs[i].claim \in registered /\ i \in DOMAIN runs
    BY RunsAreRecords DEF Promoted, IInv, Decided, Recorded, Frozen, RunSpec
  <2>3. rank[runs[i].claim] \in Nat
    BY <2>2
  <2> QED
    BY <2>1, <2>3 DEF Upholds, Promoted
<1> QED
  BY <1>1, Inductive, PTL

(* A chain of dependencies never widens a result.                          *)
THEOREM ScopeTheorem == Spec => []ScopeNeverWidens
<1>1. IInv => ScopeNeverWidens
  <2> SUFFICES ASSUME IInv, NEW i \in Promoted, NEW j \in Beneath(i)
               PROVE  /\ Within(runs[i].scope, runs[j].scope)
                      /\ Within(runs[i].scope, study.claim[runs[j].claim].model)
    BY DEF ScopeNeverWidens
  <2>1. i \in DOMAIN runs /\ j \in DOMAIN runs /\ runs[j].promoted /\ Within(runs[i].scope, runs[j].scope)
    BY ProofIsSound DEF Upholds, Promoted
  <2>2. Within(runs[j].scope, study.claim[runs[j].claim].model)
    BY <2>1 DEF IInv, Decided, Decision, Limits
  <2>3. /\ runs[i].scope \in ScopeSpec /\ runs[j].scope \in ScopeSpec
        /\ study.claim[runs[j].claim].model \in ScopeSpec
    BY <2>1, RunsAreRecords, Payloads DEF IInv, RunSpec
  <2> QED
    BY <2>1, <2>2, <2>3, WithinTransitive
<1> QED
  BY <1>1, Inductive, PTL

(* A verdict reports all the evidence its proof rests on, and it all fits. *)
THEOREM CompletenessTheorem == Spec => []SupportIsComplete
<1>1. IInv => SupportIsComplete
  <2> SUFFICES ASSUME IInv, NEW i \in Promoted
               PROVE  /\ runs[i].supporting # {}
                      /\ runs[i].supporting =
                           UNION {Conjunction(runs[j].claim, runs[j].selected) \cap Evidence : j \in Beneath(i)}
                      /\ \A e \in runs[i].supporting :
                           /\ EvidenceWithin(runs[i].scope, study.evidence[e].scope, study.evidence[e].window)
                           /\ study.evidence[e].known_at <= runs[i].cutoff
    BY DEF SupportIsComplete
  <2>1. Decision(runs[i]) /\ Recorded(i)
    BY DEF IInv, Decided, Promoted
  <2>2. runs[i].supporting = UNION {Named(j) : j \in Beneath(i)}
    BY ProofIsSound
  <2>3. {Named(j) : j \in Beneath(i)} =
        {Conjunction(runs[j].claim, runs[j].selected) \cap Evidence : j \in Beneath(i)}
    BY DEF Named
  <2>4. runs[i].supporting # {}
    BY <2>1 DEF Decision, Foundation
  <2>5. \A e \in runs[i].supporting :
          /\ EvidenceWithin(runs[i].scope, study.evidence[e].scope, study.evidence[e].window)
          /\ study.evidence[e].known_at <= runs[i].cutoff
    BY <2>1 DEF Decision, Limits, Known, EvidenceFits, Recorded
  <2> QED
    BY <2>2, <2>3, <2>4, <2>5
<1> QED
  BY <1>1, Inductive, PTL
=============================================================================
