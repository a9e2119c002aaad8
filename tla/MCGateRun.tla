----------------------------- MODULE MCGateRun -----------------------------
(***************************************************************************)
(* The gate run in the order the engine really computes, for declarations  *)
(* that between them reach every branch of every gate.                     *)
(***************************************************************************)
EXTENDS GateRun, Sequences

G == INSTANCE Graph

(* The positions of "G0", "G1", "G10", ..., "G15", "G2", ..., "G9" in the  *)
(* order of strings.                                                       *)
ByString == <<"G0", "G1", "G10", "G11", "G12", "G13", "G14", "G15",
              "G2", "G3", "G4", "G5", "G6", "G7", "G8", "G9">>
Name == [g \in Gates |-> CHOOSE i \in 1..16 : ByString[i] = g]

MCOrder == <<"G0", "G1", "G2", "G3", "G4", "G6", "G7", "G5",
             "G13", "G10", "G12", "G14", "G8", "G9", "G11", "G15">>

(* It is what topological_order computes from the gates' dependencies:     *)
(* every run evaluates temporal consistency before the model,              *)
(* contradictions before closure, and escalation last.                     *)
ASSUME EnginesOrder == MCOrder = G!TopologicalOrder(Dependencies, Name).order

(* A claim with every declaration its promotion needs. *)
Full(type, adapter, quantifier) ==
    [claim_type |-> type, adapter |-> adapter, quantifier |-> quantifier,
     mode |-> "confirmatory", closure |-> FALSE, coverage |-> FALSE,
     counterfactuals |-> TRUE, controls |-> TRUE, contradictions |-> TRUE]

ConfirmatoryPlans ==
    {Full("CAUSAL_EFFECT", "policy", "unused"),
     [Full("MECHANISM", "policy", "unused") EXCEPT !.closure = TRUE],
     [Full("UNIVERSAL_NEGATIVE", "science", "none") EXCEPT !.coverage = TRUE],
     Full("EXISTENTIAL", "science", "exists"),
     Full("EXISTENTIAL", "physics", "unused"),
     Full("ASSOCIATION", "climate", "unused")}

(* Declarations that a gate must stop. *)
DeficientPlans ==
    {[Full("MECHANISM", "policy", "unused") EXCEPT !.contradictions = FALSE],
     Full("UNIVERSAL_NEGATIVE", "science", "none"),
     Full("UNIVERSAL_NEGATIVE", "science", "exists"),
     Full("EXISTENTIAL", "science", "unused"),
     Full("MODEL_COMPATIBILITY", "supply", "none"),
     Full("CAUSAL_EFFECT", "market", "unused"),
     Full("INTENT", "integrity", "unused"),
     Full("LEGAL_GUILT", "integrity", "unused"),
     [Full("MODEL_COMPATIBILITY", "physics", "unused") EXCEPT !.mode = "exploratory"],
     [Full("OBSERVATION", "integrity", "unused") EXCEPT !.counterfactuals = FALSE],
     [Full("MODEL_COMPATIBILITY", "science", "unused") EXCEPT !.controls = FALSE]}

MCPlans == ConfirmatoryPlans \cup DeficientPlans
=============================================================================
