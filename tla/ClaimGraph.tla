----------------------------- MODULE ClaimGraph -----------------------------
(***************************************************************************)
(* Claims that rest on evidence and on other claims: registration, links,  *)
(* protocol freeze with the dependency runs it pins (service.collect and   *)
(* freeze), the proof routes RunContext prechecks, and the gates that judge *)
(* them (G0, G6, G7, G13, G15 of gates/checks.py).                         *)
(*                                                                         *)
(* Everything else a run needs to be promoted (module GateRun) is one      *)
(* choice, and so is whether a piece of evidence still verifies.           *)
(***************************************************************************)
EXTENDS Scope, FiniteSets, Sequences

CONSTANTS
    Claims, Evidence, Protocols,
    Studies,       \* the payloads of these records: see StudySpace
    Links,         \* the evidence links that may be registered: see LinkSpace
    MaxRuns        \* bound: runs recorded

ASSUME IdsAssumption == Claims \cap Evidence = {}

Cutoffs == Nat \ {0}

(* What the records with these ids declare: scopes and models of claims,   *)
(* their conjunctions and alternative routes, scope, valid time and time of *)
(* knowledge of evidence, claim and cutoff of protocols.                   *)
StudySpace ==
    [claim    : [Claims -> [scope : ScopeSpec, model : ScopeSpec,
                            mandatory : SUBSET (Claims \cup Evidence),
                            routes : Seq(SUBSET (Claims \cup Evidence))]],
     evidence : [Evidence -> [scope : ScopeSpec, window : Window, known_at : Cutoffs]],
     protocol : [Protocols -> [claim : Claims, cutoff : Cutoffs]]]

LinkSpace == [evidence : Evidence, claim : Claims, role : {"supports", "contradicts"}]

ASSUME LinksAssumption == Links \subseteq LinkSpace

(* contracts.validate admits no other scopes. *)
ASSUME StudiesAssumption ==
    /\ Studies \subseteq StudySpace
    /\ \A s \in Studies : \A c \in Claims : WellFormed(s.claim[c].scope)

VARIABLES
    study,        \* the payloads, immutable
    registered,   \* the claims registered so far
    links,        \* the evidence links registered so far, all material
    resolved,     \* contradicting links with an approved, evidence-bearing resolution
    freezes,      \* freezes[p]: the ProtocolFreeze of p, NotFrozen before
    runs          \* RunRecords in the order of their registration

vars == <<study, registered, links, resolved, freezes, runs>>

NotFrozen == [frozen |-> FALSE, links |-> {}, resolved |-> {}, pinned |-> [c \in Claims |-> 0]]

Init ==
    /\ study \in Studies
    /\ registered = {}
    /\ links = {}
    /\ resolved = {}
    /\ freezes = [p \in Protocols |-> NotFrozen]
    /\ runs = <<>>

---------------------------------------------------------------------------
(* Registration.                                                           *)

(* No proof route at all is one empty route. *)
Routes(c) == IF study.claim[c].routes = <<>> THEN <<{}>> ELSE study.claim[c].routes

(* The conjunction that route i of c stands for. *)
Conjunction(c, i) == study.claim[c].mandatory \cup Routes(c)[i]

DependenciesOf(c) == UNION {Conjunction(c, i) : i \in DOMAIN Routes(c)}

(* Every reference of a record must exist before it is inserted. *)
RegisterClaim(c) ==
    /\ c \notin registered
    /\ DependenciesOf(c) \cap Claims \subseteq registered
    /\ registered' = registered \cup {c}
    /\ UNCHANGED <<study, links, resolved, freezes, runs>>

RegisterLink(l) ==
    /\ l.claim \in registered
    /\ l \notin links
    /\ links' = links \cup {l}
    /\ UNCHANGED <<study, registered, resolved, freezes, runs>>

(* A review of the link and the ResolutionSpec that cites it. *)
Resolve(l) ==
    /\ l \in links \ resolved
    /\ l.role = "contradicts"
    /\ resolved' = resolved \cup {l}
    /\ UNCHANGED <<study, registered, links, freezes, runs>>

---------------------------------------------------------------------------
(* Freeze.                                                                 *)

(* The claims a claim rests on, itself included: the claims collect visits. *)
Cone(c) ==
    LET visited[k \in 0..Cardinality(Claims)] ==
          IF k = 0 THEN {c}
          ELSE visited[k - 1] \cup (UNION {DependenciesOf(d) : d \in visited[k - 1]} \cap Claims)
    IN  visited[Cardinality(Claims)]

(* The last of the runs of claim d, 0 if there is none. *)
LatestRun(d) ==
    LET mine == {i \in DOMAIN runs : runs[i].claim = d}
    IN  IF mine = {} THEN 0 ELSE CHOOSE i \in mine : \A j \in mine : j <= i

ClaimOf(p) == study.protocol[p].claim

CollectedLinks(c) == {l \in links : l.claim \in Cone(c)}

CollectedResolutions(c) == resolved \cap CollectedLinks(c)

Freeze(p) ==
    /\ ~ freezes[p].frozen
    /\ ClaimOf(p) \in registered
    /\ freezes' = [freezes EXCEPT ![p] =
         [frozen   |-> TRUE,
          links    |-> CollectedLinks(ClaimOf(p)),
          resolved |-> CollectedResolutions(ClaimOf(p)),
          pinned   |-> [d \in Claims |->
                          IF d \in Cone(ClaimOf(p)) \ {ClaimOf(p)} THEN LatestRun(d) ELSE 0]]]
    /\ UNCHANGED <<study, registered, links, resolved, runs>>

---------------------------------------------------------------------------
(* A run, in the store it was asked for in or in the one reproduce_packet  *)
(* builds from its frozen inputs alone.                                    *)

Live == [links |-> links, runs |-> DOMAIN runs]

Replayed(p) == [links |-> freezes[p].links, runs |-> {freezes[p].pinned[d] : d \in Claims} \ {0}]

ScopeOf(p)  == study.claim[ClaimOf(p)].scope
CutoffOf(p) == study.protocol[p].cutoff

Linked(p, role) ==
    {l.evidence : l \in {k \in freezes[p].links : k.claim = ClaimOf(p) /\ k.role = role}}

EvidenceFits(p, e) ==
    EvidenceWithin(ScopeOf(p), study.evidence[e].scope, study.evidence[e].window)

(* precheck_routes: an evidence dependency of a route. *)
EvidenceAdmitted(p, e, intact) ==
    /\ e \in Linked(p, "supports")
    /\ e \in intact
    /\ study.evidence[e].known_at <= CutoffOf(p)
    /\ EvidenceFits(p, e)

(* A plausible fault: the knowledge cutoff of the dependency is not compared. *)
ClaimAdmittedAnyTime(p, d, store) ==
    LET run == freezes[p].pinned[d]
    IN  /\ run \in store.runs
        /\ runs[run].promoted
        /\ Within(ScopeOf(p), runs[run].scope)

(* A plausible fault: the last run of the dependency is taken, not the one pinned. *)
ClaimAdmittedLatest(p, d, store) ==
    \E run \in store.runs :
      /\ runs[run].claim = d
      /\ \A other \in store.runs : runs[other].claim = d => other <= run
      /\ runs[run].promoted
      /\ Within(ScopeOf(p), runs[run].scope)
      /\ runs[run].cutoff <= CutoffOf(p)

(* precheck_routes: a claim dependency of a route. *)
ClaimAdmitted(p, d, store) ==
    LET run == freezes[p].pinned[d]
    IN  /\ run \in store.runs
        /\ runs[run].promoted
        /\ Within(ScopeOf(p), runs[run].scope)
        /\ runs[run].cutoff <= CutoffOf(p)

Admitted(p, d, intact, store) ==
    IF d \in Evidence THEN EvidenceAdmitted(p, d, intact) ELSE ClaimAdmitted(p, d, store)

PassingRoutes(p, intact, store) ==
    {i \in DOMAIN Routes(ClaimOf(p)) :
       \A d \in Conjunction(ClaimOf(p), i) : Admitted(p, d, intact, store)}

First(routes) == CHOOSE i \in routes : \A j \in routes : i <= j

(* The first route without blockers, the first of all if each has some. *)
ActiveRoute(passing) == IF passing = {} THEN 1 ELSE First(passing)

(* A plausible fault: evidence of the routes that are not active counts too. *)
SupportingAnyRoute(p, active) ==
    Linked(p, "supports") \cup
    UNION {runs[freezes[p].pinned[d]].supporting :
             d \in {c \in Conjunction(ClaimOf(p), active) \cap Claims : freezes[p].pinned[c] # 0}}

(* The evidence that supports the active route, that of its claims included. *)
Supporting(p, active) ==
    LET route == Conjunction(ClaimOf(p), active)
    IN  (route \cap Evidence \cap Linked(p, "supports")) \cup
        UNION {runs[freezes[p].pinned[d]].supporting :
                 d \in {c \in route \cap Claims : freezes[p].pinned[c] # 0}}

(* The links of the claim in the store are those frozen. *)
G0(p, store) ==
    {l \in store.links : l.claim = ClaimOf(p)} = {l \in freezes[p].links : l.claim = ClaimOf(p)}

(* At least one cluster of supporting evidence. *)
G4(supporting) == supporting # {}

(* A plausible fault: the claim is not compared with the scope of its model. *)
G6EvidenceOnly(p, supporting) == \A e \in supporting : EvidenceFits(p, e)

G6(p, supporting) ==
    /\ Within(ScopeOf(p), study.claim[ClaimOf(p)].model)
    /\ \A e \in supporting : EvidenceFits(p, e)

(* Recursive knowledge cutoff, for the contradicting evidence too. *)
G7(p, supporting, intact) ==
    \A e \in supporting \cup Linked(p, "contradicts") :
      e \in intact /\ study.evidence[e].known_at <= CutoffOf(p)

(* Every contradiction of the claim of this run is resolved. *)
G13(p) ==
    \A l \in freezes[p].links :
      l.claim = ClaimOf(p) /\ l.role = "contradicts" => l \in freezes[p].resolved

(* A plausible fault: any run of a dependency will do, once the gates passed. *)
ProofRoutesUnchecked(p, supporting, passing) ==
    {i \in DOMAIN Routes(ClaimOf(p)) :
       /\ Conjunction(ClaimOf(p), i) # {}
       /\ Conjunction(ClaimOf(p), i) \cap Evidence \subseteq supporting
       /\ \A d \in Conjunction(ClaimOf(p), i) \cap Claims : freezes[p].pinned[d] # 0}

(* G15: the routes whose precheck passed and whose evidence is supporting. *)
ProofRoutes(p, supporting, passing) ==
    {i \in passing :
       /\ Conjunction(ClaimOf(p), i) # {}
       /\ Conjunction(ClaimOf(p), i) \cap Evidence \subseteq supporting}

FullStrength == [k \in Dimensions |-> TRUE]

RouteStrength(p, i) ==
    StrengthMeet({IF d \in Evidence THEN FullStrength ELSE runs[freezes[p].pinned[d]].strength :
                    d \in Conjunction(ClaimOf(p), i)})

(* The record of a run: promoted when every gate passed, and only then with *)
(* the strength of the route it selected.                                  *)
Outcome(p, intact, others, store) ==
    LET passing    == PassingRoutes(p, intact, store)
        active     == ActiveRoute(passing)
        supporting == Supporting(p, active)
        proven     == ProofRoutes(p, supporting, passing)
        promoted   == /\ others
                      /\ G0(p, store) /\ G4(supporting) /\ G6(p, supporting)
                      /\ G7(p, supporting, intact) /\ G13(p)
                      /\ proven # {}
    IN  [protocol   |-> p,
         claim      |-> ClaimOf(p),
         scope      |-> ScopeOf(p),
         cutoff     |-> CutoffOf(p),
         active     |-> active,
         supporting |-> supporting,
         promoted   |-> promoted,
         selected   |-> IF promoted THEN First(proven) ELSE 0,
         strength   |-> IF promoted THEN RouteStrength(p, First(proven)) ELSE NoStrength]

Run(p) ==
    /\ freezes[p].frozen
    /\ Len(runs) < MaxRuns
    /\ \E intact \in SUBSET Evidence, others \in BOOLEAN :
         runs' = Append(runs, Outcome(p, intact, others, Live))
    /\ UNCHANGED <<study, registered, links, resolved, freezes>>

Next ==
    \/ \E c \in Claims : RegisterClaim(c)
    \/ \E l \in Links : RegisterLink(l) \/ Resolve(l)
    \/ \E p \in Protocols : Freeze(p) \/ Run(p)

Spec == Init /\ [][Next]_vars

---------------------------------------------------------------------------
(* Properties.                                                             *)

(* Freezes and runs hold only what is registered.                          *)
TypeOK ==
    /\ registered \subseteq Claims
    /\ links \subseteq Links /\ resolved \subseteq links
    /\ \A p \in Protocols :
         /\ freezes[p].links \subseteq links /\ freezes[p].resolved \subseteq freezes[p].links
         /\ \A c \in Claims : freezes[p].pinned[c] \in 0..Len(runs)
    /\ \A i \in DOMAIN runs :
         /\ runs[i].protocol \in Protocols /\ runs[i].claim = ClaimOf(runs[i].protocol)
         /\ runs[i].supporting \subseteq Evidence
         /\ runs[i].strength \in Vector

(* The runs that run i was decided from directly, through its selected route. *)
RestsOn(i) ==
    {freezes[runs[i].protocol].pinned[d] :
       d \in Conjunction(runs[i].claim, runs[i].selected) \cap Claims}

(* ... and through the routes of those in turn. *)
Beneath(i) ==
    LET below[j \in 1..i] == {j} \cup UNION {below[k] : k \in RestsOn(j) \cap 1..(j - 1)}
    IN  below[i]

Promoted == {i \in DOMAIN runs : runs[i].promoted}

(* A promoted run certifies the route whose evidence its gates examined:   *)
(* RunContext picks the active route before the gates, G15 selects one     *)
(* after them, and the two agree.                                          *)
SelectedIsActive == \A i \in Promoted : runs[i].selected = runs[i].active

(* The whole proof beneath a promoted run was promoted too, earlier, about *)
(* other claims and with no later knowledge; nothing supports itself.      *)
ProofIsWellFounded ==
    \A i \in Promoted : \A j \in Beneath(i) \ {i} :
      /\ j < i /\ j \in Promoted
      /\ runs[j].claim # runs[i].claim
      /\ runs[j].cutoff <= runs[i].cutoff

(* A promoted claim lies within the scope of every claim and every model   *)
(* beneath it, although only neighbours are ever compared: a chain of      *)
(* dependencies never widens a result.                                     *)
ScopeNeverWidens ==
    \A i \in Promoted : \A j \in Beneath(i) :
      /\ Within(runs[i].scope, runs[j].scope)
      /\ Within(runs[i].scope, study.claim[runs[j].claim].model)

(* The evidence a promoted verdict reports is all the evidence beneath it, *)
(* there is some, and each item fits its scope and was known in time.      *)
SupportIsComplete ==
    \A i \in Promoted :
      /\ runs[i].supporting # {}
      /\ runs[i].supporting =
           UNION {Conjunction(runs[j].claim, runs[j].selected) \cap Evidence : j \in Beneath(i)}
      /\ \A e \in runs[i].supporting :
           /\ EvidenceWithin(runs[i].scope, study.evidence[e].scope, study.evidence[e].window)
           /\ study.evidence[e].known_at <= runs[i].cutoff

(* "full gate replay from the archive": a promoted run is promoted again,  *)
(* with the same strength, in a store that holds only what its packet does, *)
(* whatever links, resolutions and runs were registered since its protocol *)
(* was frozen, or since it ran.                                            *)
ReplayAgrees ==
    \A i \in Promoted :
      LET p     == runs[i].protocol
          again == Outcome(p, Evidence, TRUE, Replayed(p))
      IN  again.promoted /\ again.strength = runs[i].strength

(* "Material contradictions remain relevant globally": a promoted run has  *)
(* no unresolved contradiction of any claim beneath it in its own freeze.  *)
ContradictionsAreGlobal ==
    \A i \in Promoted : \A j \in Beneath(i) : \A l \in freezes[runs[i].protocol].links :
      l.claim = runs[j].claim /\ l.role = "contradicts" =>
        l \in freezes[runs[i].protocol].resolved
=============================================================================
