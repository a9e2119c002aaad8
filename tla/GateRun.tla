------------------------------ MODULE GateRun ------------------------------
(***************************************************************************)
(* One run of a frozen protocol: Service.run evaluates the sixteen gates   *)
(* in a topological order of their dependencies (gates/engine.py), the     *)
(* gates of gates/checks.py read and write the run's context, make_verdict *)
(* derives the three status axes, and release reads the stored record.     *)
(*                                                                         *)
(* What a gate finds in the data is a choice of its action; what it does   *)
(* with the finding, with the claim's declarations and with the context is *)
(* the code's.                                                             *)
(***************************************************************************)
EXTENDS Integers, FiniteSets

CONSTANTS
    Plans,   \* the declarations of the runs considered, a subset of PlanSpace
    Order    \* the order in which the engine evaluates the gates

Gates == {"G0", "G1", "G2", "G3", "G4", "G5", "G6", "G7", "G8", "G9",
          "G10", "G11", "G12", "G13", "G14", "G15"}

Dependencies ==
    [g \in Gates |->
       CASE g = "G0"  -> {}
         [] g = "G1"  -> {"G0"}
         [] g = "G2"  -> {"G1"}
         [] g = "G3"  -> {"G2"}
         [] g \in {"G4", "G6", "G7"} -> {"G3"}
         [] g = "G5"  -> {"G4"}
         [] g \in {"G8", "G9", "G12", "G14"} -> {"G5", "G7"}
         [] g = "G10" -> {"G5", "G6", "G7"}
         [] g = "G11" -> {"G9"}
         [] g = "G13" -> {"G3", "G7"}
         [] g = "G15" -> Gates \ {"G15"}]

(* topological_order lists every gate once, after its prerequisites.       *)
ASSUME OrderAssumption ==
    /\ Order \in [1..16 -> Gates]
    /\ \A g \in Gates : \E i \in 1..16 : Order[i] = g
    /\ \A i, j \in 1..16 : Order[i] = Order[j] => i = j
    /\ \A i \in 1..16 : \A p \in Dependencies[Order[i]] : \E j \in 1..(i - 1) : Order[j] = p

ClaimTypes == {"OBSERVATION", "ASSOCIATION", "CAUSAL_EFFECT", "MECHANISM", "EXISTENTIAL",
               "UNIVERSAL_NEGATIVE", "MODEL_COMPATIBILITY", "INTENT", "LEGAL_GUILT"}
Adapters   == {"science", "policy", "public_health", "market", "supply",
               "climate", "physics", "integrity"}
Causal     == {"CAUSAL_EFFECT", "MECHANISM"}
Quantified == {"UNIVERSAL_NEGATIVE", "EXISTENTIAL"}
Prohibited == {"INTENT", "LEGAL_GUILT"}

Outcomes         == {"PASS", "FAIL", "INCONCLUSIVE", "BLOCKED", "NOT_IMPLEMENTED"}
AnalysisStates   == {"SUPPORTED", "NOT_SUPPORTED", "FALSIFIED", "INCONCLUSIVE"}
ScientificStates == AnalysisStates \cup {"CERTIFIED_WITHIN_SCOPE", "UNRESOLVED"}
ValidityStates   == {"VALID", "OUTSIDE_DOMAIN", "MODEL_INVALID", "DATA_INSUFFICIENT",
                     "PROVENANCE_FAILURE", "TEMPORAL_FAILURE", "IDENTIFICATION_FAILURE"}
Promotable       == {"SUPPORTED", "CERTIFIED_WITHIN_SCOPE"}

(* What the records of the study declare, as far as a gate branches on it. *)
(* quantifier is "unused" unless the method is finite_predicate.           *)
PlanSpace ==
    [claim_type      : ClaimTypes,
     adapter         : Adapters,
     quantifier      : {"unused", "none", "exists"},
     mode            : {"confirmatory", "exploratory"},
     closure         : BOOLEAN,     \* closure_ref is given
     coverage        : BOOLEAN,     \* coverage_ref is given
     counterfactuals : BOOLEAN,     \* at least one counterfactual is declared
     controls        : BOOLEAN,     \* the required tests and a negative control are frozen
     contradictions  : BOOLEAN]     \* a material contradicting link is frozen

ASSUME PlansAssumption == Plans \subseteq PlanSpace

(* The registered adapters: what each may claim and what its analyses can say. *)
SupportedClaims(adapter) ==
    CASE adapter = "science"       -> {"MODEL_COMPATIBILITY", "UNIVERSAL_NEGATIVE", "EXISTENTIAL"}
      [] adapter = "policy"        -> {"CAUSAL_EFFECT", "ASSOCIATION", "MECHANISM"}
      [] adapter = "public_health" -> {"CAUSAL_EFFECT", "ASSOCIATION"}
      [] adapter \in {"market", "climate"} -> {"ASSOCIATION"}
      [] adapter = "supply"        -> {"MODEL_COMPATIBILITY"}
      [] adapter = "physics"       -> {"MODEL_COMPATIBILITY", "EXISTENTIAL"}
      [] adapter = "integrity"     -> {"OBSERVATION"}

Finite(p) == p.quantifier # "unused"

(* A plausible fault: an undecided estimate is reported as UNRESOLVED, a    *)
(* state no analysis may return.                                           *)
ConclusionsUnresolved(p) ==
    CASE p.adapter \in {"policy", "public_health"} -> {"SUPPORTED", "FALSIFIED", "UNRESOLVED"}
      [] OTHER -> {"SUPPORTED", "NOT_SUPPORTED"}

Conclusions(p) ==
    CASE p.adapter = "science" -> IF p.quantifier = "exists" THEN {"SUPPORTED", "NOT_SUPPORTED"}
                                                             ELSE {"SUPPORTED", "FALSIFIED"}
      [] p.adapter \in {"policy", "public_health"} -> {"SUPPORTED", "FALSIFIED", "INCONCLUSIVE"}
      [] p.adapter = "climate" -> {"SUPPORTED", "INCONCLUSIVE"}
      [] OTHER -> {"SUPPORTED", "NOT_SUPPORTED"}

(* A counterfactual may change any parameter but the inference thresholds, *)
(* the quantifier of a finite method included.                             *)
AlternativeConclusions(p) ==
    IF Finite(p) THEN {"SUPPORTED", "NOT_SUPPORTED", "FALSIFIED"} ELSE Conclusions(p)

VARIABLES
    plan,             \* the frozen declarations
    phase,            \* where Service.run stands
    next,             \* index in Order of the gate to evaluate
    outcome,          \* outcome recorded for each gate, "none" before
    analysis,         \* c.analysis: scientific state of the numerical result, "none" before G5
    alternatives,     \* c.counterfactual_results: their scientific states
    rejected,         \* targets of the critical tests in c.falsification that were not accepted
    reproduction,     \* c.reproduction
    covered,          \* c.coverage_certified
    strength,         \* some component of c.strength is TRUE
    verdict           \* the verdict stored with the RunRecord

context == <<analysis, alternatives, rejected, reproduction, covered, strength>>
vars    == <<plan, phase, next, outcome, context, verdict>>

NoVerdict == [execution |-> "none", scientific |-> "none", validity |-> "none", strength |-> FALSE]

(* The context, the outcomes and the verdict are in their ranges.          *)
TypeOK ==
    /\ plan \in PlanSpace
    /\ phase \in {"started", "gates", "recorded", "lost"}
    /\ next \in 1..17
    /\ outcome \in [Gates -> Outcomes \cup {"none"}]
    /\ analysis \in AnalysisStates \cup {"none"}
    /\ alternatives \subseteq AnalysisStates
    /\ rejected \subseteq {"model", "hypothesis"}
    /\ reproduction \in {"none", "equivalent", "mismatch"}
    /\ covered \in BOOLEAN
    /\ strength \in BOOLEAN
    /\ verdict \in [execution  : {"none", "COMPLETE", "BLOCKED", "ERROR"},
                    scientific : ScientificStates \cup {"none"},
                    validity   : ValidityStates \cup {"none"},
                    strength   : BOOLEAN]

Init ==
    /\ plan \in Plans
    /\ phase = "started"
    /\ next = 1
    /\ outcome = [g \in Gates |-> "none"]
    /\ analysis = "none"
    /\ alternatives = {}
    /\ rejected = {}
    /\ reproduction = "none"
    /\ covered = FALSE
    /\ strength = FALSE
    /\ verdict = NoVerdict

(* RunContext is built: every referenced record decodes, routes are prechecked. *)
Prepare ==
    /\ phase = "started"
    /\ phase' = "gates"
    /\ UNCHANGED <<plan, next, outcome, context, verdict>>

---------------------------------------------------------------------------
(* The engine.                                                             *)

(* It is g's turn. *)
Turn(g) == phase = "gates" /\ next \in 1..16 /\ Order[next] = g

(* A plausible fault: only a prerequisite that failed holds a gate back. *)
ReadyUnlessFailed(g) == Turn(g) /\ \A p \in Dependencies[g] : outcome[p] # "FAIL"

Ready(g) == Turn(g) /\ \A p \in Dependencies[g] : outcome[p] = "PASS"

Record(g, out) ==
    /\ outcome' = [outcome EXCEPT ![g] = out]
    /\ next' = next + 1
    /\ UNCHANGED <<plan, phase, verdict>>

(* A gate with a prerequisite that did not pass is never called. *)
Block(g) ==
    /\ Turn(g)
    /\ \E p \in Dependencies[g] : outcome[p] # "PASS"
    /\ Record(g, "BLOCKED")
    /\ UNCHANGED context

---------------------------------------------------------------------------
(* The gates.  An FCEAError raised by a check is its FAIL.                 *)

(* Frozen hashes, live evidence links and prospective date. *)
G0 == /\ Ready("G0")
      /\ \E out \in {"PASS", "FAIL"} : Record("G0", out)
      /\ UNCHANGED context

(* A plausible fault: the method's quantifier is not consulted. *)
ClaimFitsAdapter(p) == p.claim_type \in SupportedClaims(p.adapter)

(* The adapter supports the claim type, and its method the quantifier. *)
ClaimFitsMethod(p) ==
    /\ p.claim_type \in SupportedClaims(p.adapter)
    /\ p.quantifier = "none" => p.claim_type = "UNIVERSAL_NEGATIVE"
    /\ p.quantifier = "exists" => p.claim_type = "EXISTENTIAL"
    /\ ~ Finite(p) /\ p.adapter = "science" => p.claim_type = "MODEL_COMPATIBILITY"

G1 == /\ Ready("G1")
      /\ \E out \in {"PASS", "FAIL"} :
           /\ out = "PASS" => ClaimFitsMethod(plan)
           /\ Record("G1", out)
      /\ UNCHANGED context

(* Raw sources readable and hash-correct, legal basis stated. *)
G2 == /\ Ready("G2")
      /\ \E out \in {"PASS", "FAIL"} : Record("G2", out)
      /\ UNCHANGED context

(* Lineage and re-extraction of the active evidence. *)
G3 == /\ Ready("G3")
      /\ \E out \in {"PASS", "FAIL"} : Record("G3", out)
      /\ UNCHANGED context

(* Units, row identifiers, independent clusters. *)
G4 == /\ Ready("G4")
      /\ \E out \in {"PASS", "FAIL"} : Record("G4", out)
      /\ UNCHANGED context

(* Assumptions and predicates; then the adapter's analysis becomes part of *)
(* the context, also when its own diagnostics say that the model is invalid. *)
G5 == /\ Ready("G5")
      /\ UNCHANGED <<alternatives, rejected, reproduction, covered, strength>>
      /\ \/ Record("G5", "FAIL") /\ UNCHANGED analysis
         \/ /\ Finite(plan) => plan.adapter = "science"
            /\ \E out \in {"PASS", "FAIL"}, state \in Conclusions(plan) :
                 Record("G5", out) /\ analysis' = state

(* The claim's scope lies within the model's and the evidence's. *)
G6 == /\ Ready("G6")
      /\ \E out \in {"PASS", "FAIL"} : Record("G6", out)
      /\ UNCHANGED context

(* Nothing known, signalled or realised after its cutoff. *)
G7 == /\ Ready("G7")
      /\ \E out \in {"PASS", "FAIL"} : Record("G7", out)
      /\ UNCHANGED context

(* Only a causal claim needs identification; only the policy and public-   *)
(* health methods have a route to it; a cyclic causal graph is an error.   *)
G8 == /\ Ready("G8")
      /\ \E out \in {"PASS", "FAIL", "INCONCLUSIVE", "NOT_IMPLEMENTED"} :
           /\ plan.claim_type \notin Causal => out = "PASS"
           /\ plan.adapter \notin {"policy", "public_health"} /\ plan.claim_type \in Causal
                => out = "NOT_IMPLEMENTED"
           /\ Record("G8", out)
      /\ UNCHANGED context

(* Each declared alternative is analysed; one that is unfounded, unchanged, *)
(* moves a threshold or leaves the model's domain fails the gate and leaves *)
(* no result.                                                               *)
G9 == /\ Ready("G9")
      /\ UNCHANGED <<analysis, rejected, reproduction, covered, strength>>
      /\ \/ ~ plan.counterfactuals /\ Record("G9", "INCONCLUSIVE") /\ UNCHANGED alternatives
         \/ plan.counterfactuals /\ Record("G9", "FAIL") /\ UNCHANGED alternatives
         \/ /\ plan.counterfactuals
            /\ Record("G9", "PASS")
            /\ \E results \in SUBSET AlternativeConclusions(plan) :
                 results # {} /\ alternatives' = results

(* A declared closure is validated; a mechanism claim must declare one. *)
G10 == /\ Ready("G10")
       /\ \E out \in {"PASS", "FAIL", "INCONCLUSIVE"} :
            /\ IF plan.closure THEN out \in {"PASS", "FAIL"}
               ELSE out = IF plan.claim_type = "MECHANISM" THEN "INCONCLUSIVE" ELSE "PASS"
            /\ Record("G10", out)
       /\ UNCHANGED context

(* A plausible fault: only causal claims are compared. *)
CausalConclusionStable == plan.claim_type \in Causal => alternatives \subseteq {analysis}

(* Sign stability, and for a causal or quantified claim the same scientific *)
(* state in every alternative.                                              *)
ConclusionStable ==
    plan.claim_type \in Causal \cup Quantified => alternatives \subseteq {analysis}

G11 == /\ Ready("G11")
       /\ \E out \in {"PASS", "INCONCLUSIVE"} :
            /\ out = "PASS" => ConclusionStable
            /\ Record("G11", out)
       /\ UNCHANGED context

(* The frozen tests.  A malformed test is an error that leaves no test     *)
(* record; otherwise each critical rejection fails the gate.               *)
G12 == /\ Ready("G12")
       /\ UNCHANGED <<analysis, alternatives, reproduction, covered, strength>>
       /\ \/ ~ plan.controls /\ Record("G12", "INCONCLUSIVE") /\ UNCHANGED rejected
          \/ plan.controls /\ Record("G12", "FAIL") /\ UNCHANGED rejected
          \/ /\ plan.controls
             /\ rejected' \in SUBSET {"model", "hypothesis"}
             /\ Record("G12", IF rejected' = {} THEN "PASS" ELSE "FAIL")

(* Every material contradiction has an approved, evidence-bearing resolution. *)
G13 == /\ Ready("G13")
       /\ \E out \in {"PASS", "FAIL", "INCONCLUSIVE"} :
            /\ ~ plan.contradictions => out = "PASS"
            /\ Record("G13", out)
       /\ UNCHANGED context

(* The analysis is repeated in a fresh interpreter, which may also fail or *)
(* exceed its 45 seconds.                                                  *)
G14 == /\ Ready("G14")
       /\ UNCHANGED <<analysis, alternatives, rejected, covered, strength>>
       /\ \/ Record("G14", "FAIL") /\ UNCHANGED reproduction
          \/ Record("G14", "FAIL") /\ reproduction' = "mismatch"
          \/ Record("G14", "PASS") /\ reproduction' = "equivalent"

(* A plausible fault: finite enumeration without a coverage record is enough. *)
FiniteMethod == Finite(plan)

(* The firewall: the first check that applies decides; a complete proof    *)
(* route sets the strength, an exhaustive coverage is noted, even if a     *)
(* later check stops the claim.                                            *)
CoverageDeclared == Finite(plan) /\ plan.coverage

NeedsCoverage == plan.claim_type = "UNIVERSAL_NEGATIVE"

(* No complete route, or the records of one cannot be read. *)
G15Stops ==
    \E out \in {"FAIL", "INCONCLUSIVE"} :
      /\ plan.claim_type \in Prohibited => out = "FAIL"
      /\ Record("G15", out)

(* A plausible fault: an existential claim passes without a witness. *)
G15CoversAnyWitness ==
    /\ plan.claim_type \notin Prohibited
    /\ strength' \in BOOLEAN
    /\ \/ /\ NeedsCoverage
          /\ Record("G15", IF CoverageDeclared THEN "FAIL" ELSE "INCONCLUSIVE")
          /\ UNCHANGED covered
       \/ /\ NeedsCoverage => CoverageDeclared
          /\ covered' = NeedsCoverage
          /\ Record("G15", IF plan.mode # "confirmatory" THEN "INCONCLUSIVE" ELSE "PASS")

G15Covers ==
    /\ plan.claim_type \notin Prohibited
    /\ strength' \in BOOLEAN
    /\ \/ /\ NeedsCoverage
          /\ Record("G15", IF CoverageDeclared THEN "FAIL" ELSE "INCONCLUSIVE")
          /\ UNCHANGED covered
       \/ /\ NeedsCoverage => CoverageDeclared
          /\ covered' = NeedsCoverage
          /\ Record("G15",
               IF \/ plan.claim_type = "EXISTENTIAL" /\ analysis # "SUPPORTED"
                  \/ plan.mode # "confirmatory"
               THEN "INCONCLUSIVE" ELSE "PASS")

G15 == /\ Ready("G15")
       /\ UNCHANGED <<analysis, alternatives, rejected, reproduction>>
       /\ \/ G15Stops /\ UNCHANGED <<covered, strength>>
          \/ G15Covers

EvaluateGate ==
    \/ \E g \in Gates : Block(g)
    \/ G0 \/ G1 \/ G2 \/ G3 \/ G4 \/ G5 \/ G6 \/ G7
    \/ G8 \/ G9 \/ G10 \/ G11 \/ G12 \/ G13 \/ G14 \/ G15

---------------------------------------------------------------------------
(* make_verdict.                                                           *)

(* A plausible fault: a blocked gate is taken for a skipped one. *)
FailedUnlessSkipped == {g \in Gates : outcome[g] \notin {"PASS", "BLOCKED", "INCONCLUSIVE"}}

Failed == {g \in Gates : outcome[g] # "PASS"}

AnalysisConclusion ==
    IF analysis = "none" \/ Failed # {} THEN "INCONCLUSIVE"
    ELSE IF analysis = "SUPPORTED" /\ covered THEN "CERTIFIED_WITHIN_SCOPE"
    ELSE analysis

(* The gates whose failure invalidates the run, in the order they are asked. *)
ValidityGate == <<"G1", "G2", "G3", "G4", "G5", "G6", "G7", "G8">>

Invalidity(i) ==
    CASE i \in {1, 5} -> "MODEL_INVALID"
      [] i \in {2, 3} -> "PROVENANCE_FAILURE"
      [] i = 4 -> "DATA_INSUFFICIENT"
      [] i = 6 -> "OUTSIDE_DOMAIN"
      [] i = 7 -> "TEMPORAL_FAILURE"
      [] OTHER -> "IDENTIFICATION_FAILURE"

(* A plausible fault: only a FAIL invalidates. *)
InvalidatingByFail == {i \in 1..8 : outcome[ValidityGate[i]] = "FAIL"}

(* A BLOCKED gate is passed over: the gate that blocked it is the reason.  *)
Invalidating == {i \in 1..8 : outcome[ValidityGate[i]] \notin {"PASS", "BLOCKED"}}

GateValidity ==
    IF outcome["G0"] # "PASS" THEN "MODEL_INVALID"
    ELSE IF Invalidating = {} THEN "VALID"
    ELSE Invalidity(CHOOSE i \in Invalidating : \A j \in Invalidating : i <= j)

(* A plausible fault: open contradictions and scope are not consulted. *)
FalsifierGatesFewer == {"G2", "G3", "G5", "G7", "G8", "G14"}

(* A valid operational falsifier presupposes these gates. *)
FalsifierGates == {"G2", "G3", "G5", "G6", "G7", "G8", "G13", "G14"}

ControlRejected == GateValidity = "VALID" /\ outcome["G12"] = "FAIL" /\ "model" \in rejected

Validity == IF ControlRejected THEN "MODEL_INVALID" ELSE GateValidity

Execution == IF GateValidity # "VALID" \/ outcome["G14"] # "PASS" THEN "BLOCKED" ELSE "COMPLETE"

Scientific ==
    IF GateValidity # "VALID" \/ outcome["G14"] # "PASS" THEN "UNRESOLVED"
    ELSE IF ControlRejected THEN "INCONCLUSIVE"
    ELSE IF /\ outcome["G12"] = "FAIL" /\ rejected # {}
            /\ \A g \in FalsifierGates : outcome[g] = "PASS" THEN "FALSIFIED"
    ELSE AnalysisConclusion

ReportedStrength == strength /\ Scientific \in Promotable

MakeVerdict ==
    /\ phase = "gates"
    /\ next = 17
    /\ verdict' = [execution |-> Execution, scientific |-> Scientific,
                   validity |-> Validity, strength |-> ReportedStrength]
    /\ phase' = "recorded"
    /\ UNCHANGED <<plan, next, outcome, context>>

ErrorVerdict == [execution |-> "ERROR", scientific |-> "UNRESOLVED",
                 validity |-> "MODEL_INVALID", strength |-> FALSE]

(* An exception other than a check's FCEAError, in the context, in a gate, *)
(* or from the comparison of the software digest: the run is recorded as   *)
(* an error.  The context keeps what was computed, the gates are dropped.  *)
Fail ==
    /\ phase \in {"started", "gates"}
    /\ verdict' = ErrorVerdict
    /\ phase' = "recorded"
    /\ UNCHANGED <<plan, next, outcome, context>>

(* An exception outside the try, in the handler itself, in the manifest or *)
(* in the put, whatever the verdict was to be: the run was started and has *)
(* no record.  A number that canonical JSON does not admit ends a run so,  *)
(* because the manifest digests the analysis and the record holds it.      *)
Escape ==
    /\ phase \in {"started", "gates"}
    /\ phase' = "lost"
    /\ UNCHANGED <<plan, next, outcome, context, verdict>>

Next == Prepare \/ EvaluateGate \/ MakeVerdict \/ Fail \/ Escape

Spec == Init /\ [][Next]_vars

---------------------------------------------------------------------------
(* release: the lines that read the stored record.                         *)

(* A plausible fault: a falsified run is released whatever else is open. *)
ReleasableFalsified ==
    /\ phase = "recorded"
    /\ verdict.execution = "COMPLETE" /\ verdict.validity = "VALID"
    /\ \A g \in Gates : outcome[g] # "PASS" => verdict.scientific = "FALSIFIED"
    /\ reproduction = "equivalent"

(* What release requires of the run's record. *)
Releasable ==
    /\ phase = "recorded"
    /\ verdict.execution = "COMPLETE" /\ verdict.validity = "VALID"
    /\ \A g \in Gates : outcome[g] # "PASS" =>
         verdict.scientific = "FALSIFIED" /\ g \in {"G12", "G15"}
    /\ reproduction = "equivalent"

---------------------------------------------------------------------------
(* Properties.                                                             *)

(* "Fail-closed promotion": a promotable verdict comes from a run in which *)
(* every gate was evaluated and passed, the analysis itself concluded      *)
(* SUPPORTED, was reproduced, and the protocol was confirmatory.  Only such *)
(* a verdict carries the strength of its route on to dependent claims.     *)
PromotionNeedsEveryGate ==
    verdict.scientific \in Promotable \/ verdict.strength =>
      /\ \A g \in Gates : outcome[g] = "PASS"
      /\ verdict.execution = "COMPLETE" /\ verdict.validity = "VALID"
      /\ analysis = "SUPPORTED" /\ reproduction = "equivalent"
      /\ plan.mode = "confirmatory"

(* An exhaustive certificate is given to a universal negative only, found  *)
(* by the finite method over a declared coverage, and a universal negative *)
(* is never promoted with anything less ("no universal negative from an    *)
(* incomplete search").                                                    *)
CertificateIsExhaustive ==
    verdict.scientific \in Promotable =>
      (   verdict.scientific = "CERTIFIED_WITHIN_SCOPE"
      <=> plan.claim_type = "UNIVERSAL_NEGATIVE" /\ plan.quantifier = "none" /\ plan.coverage)

(* A promoted causal, mechanism or quantified claim kept its conclusion in  *)
(* every declared counterfactual, of which there is at least one.          *)
PromotionIsRobust ==
    verdict.scientific \in Promotable /\ plan.claim_type \in Causal \cup Quantified =>
      plan.counterfactuals /\ alternatives = {"SUPPORTED"}

(* Whatever is concluded, be it only INCONCLUSIVE, is about what the method *)
(* computes: never intent or legal guilt, a universal negative exactly if   *)
(* the method counts that there is no witness, and the existence of one if  *)
(* the method looks for one, which of the others only the oscillator's does.*)
FirewallHolds ==
    verdict.scientific \notin {"none", "UNRESOLVED"} =>
      /\ plan.claim_type \notin Prohibited
      /\ plan.claim_type = "UNIVERSAL_NEGATIVE" <=> plan.quantifier = "none"
      /\ plan.quantifier = "exists" => plan.claim_type = "EXISTENTIAL"
      /\ plan.claim_type = "EXISTENTIAL" => plan.quantifier = "exists" \/ plan.adapter = "physics"

(* Quantifiers are refuted as logic has it.  An enumeration that found no   *)
(* witness leaves an existential claim open, it is neither NOT_SUPPORTED    *)
(* nor, but by a rejected test of the hypothesis, FALSIFIED.  A universal   *)
(* negative is refuted by a witness or by such a test, the witness counting *)
(* only over a declared coverage and if every counterfactual has one too.   *)
RefutationFitsQuantifier ==
    LET byAnalysis == verdict.scientific = "NOT_SUPPORTED"
                      \/ (verdict.scientific = "FALSIFIED" /\ rejected = {})
    IN  /\ plan.claim_type = "EXISTENTIAL" => ~ byAnalysis
        /\ plan.claim_type = "UNIVERSAL_NEGATIVE" /\ byAnalysis =>
              verdict.scientific = "FALSIFIED" /\ plan.coverage /\ alternatives = {"FALSIFIED"}

(* A FALSIFIED verdict rests on a valid model: either a critical test of   *)
(* the hypothesis, and none of the model, was rejected while scope,        *)
(* contradictions, identification and reproduction were in order, or the   *)
(* analysis of a run that passed every gate said so.  A rejected control   *)
(* of the model always makes the run invalid instead.                      *)
FalsificationIsGenuine ==
    /\ verdict.scientific = "FALSIFIED" =>
         /\ verdict.validity = "VALID" /\ verdict.execution = "COMPLETE"
         /\ \A g \in Gates \ {"G9", "G10", "G11", "G12", "G15"} : outcome[g] = "PASS"
         /\ rejected = {"hypothesis"} \/ (rejected = {} /\ analysis = "FALSIFIED" /\ Failed = {})
    /\ phase = "recorded" /\ "model" \in rejected => verdict.validity # "VALID"

(* The pass over BLOCKED gates never hides a failure: a VALID run passed   *)
(* each of G0..G8.                                                         *)
ValidityIsNotMasked ==
    verdict.validity = "VALID" =>
      \A g \in {"G0"} \cup {ValidityGate[i] : i \in 1..8} : outcome[g] = "PASS"

(* The gates that dereference c.analysis are called only once it is set:   *)
(* in no run does one of them meet None and turn a study into an error.    *)
AnalysisIsSetWhenUsed ==
    \A g \in {"G8", "G11", "G14", "G15"} : outcome[g] \notin {"none", "BLOCKED"} => analysis # "none"

(* What may be released is what the machine concluded: every gate passed   *)
(* and the verdict is the analysis' own, or the hypothesis was falsified    *)
(* with nothing else open than the two gates this explains.                *)
ReleaseIsConclusive ==
    Releasable =>
      \/ /\ Failed = {}
         /\ verdict.scientific = IF covered /\ analysis = "SUPPORTED"
                                 THEN "CERTIFIED_WITHIN_SCOPE" ELSE analysis
      \/ /\ Failed = {"G12", "G15"} /\ outcome["G15"] = "BLOCKED"
         /\ verdict.scientific = "FALSIFIED" /\ rejected = {"hypothesis"}
=============================================================================
