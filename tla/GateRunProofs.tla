--------------------------- MODULE GateRunProofs ---------------------------
(***************************************************************************)
(* Proofs about GateRun for every set of declarations and every order that *)
(* lists the gates once, each after its prerequisites.                     *)
(*                                                                         *)
(* The safety properties speak of the recorded verdict, which is computed  *)
(* from the outcomes and the context at the end.  They need two facts that  *)
(* the gates build up along the way: the shape of the outcomes (Engine) and *)
(* what a PASS of each gate says about the declarations and the context    *)
(* (Findings).                                                             *)
(***************************************************************************)
EXTENDS GateRun, TLAPS

(* Every step of the engine, whatever the gate: its turn, one outcome, and  *)
(* BLOCKED exactly when some prerequisite did not pass.                    *)
EngineStep(g, out) ==
    /\ Turn(g)
    /\ Record(g, out)
    /\ out \in Outcomes
    /\ out = "BLOCKED" <=> \E p \in Dependencies[g] : outcome[p] # "PASS"

(* Evaluating or blocking a gate is a step of the engine, whatever the gate does. *)
LEMMA StepsOfTheEngine == ASSUME EvaluateGate PROVE \E g \in Gates, out \in Outcomes : EngineStep(g, out)
<1>1. ASSUME NEW g \in Gates, Block(g) PROVE EngineStep(g, "BLOCKED")
  BY <1>1 DEF Block, EngineStep, Outcomes
<1>2. ASSUME NEW g \in Gates, NEW out \in Outcomes \ {"BLOCKED"}, Ready(g), Record(g, out)
      PROVE  EngineStep(g, out)
  BY <1>2 DEF Ready, EngineStep
<1>3. ASSUME NEW g \in Gates, NEW out \in {"PASS", "FAIL", "INCONCLUSIVE", "NOT_IMPLEMENTED"},
             Ready(g), Record(g, out)
      PROVE  \E h \in Gates, o \in Outcomes : EngineStep(h, o)
  BY <1>2, <1>3 DEF Outcomes
<1>4. ASSUME NEW g \in Gates, Block(g) PROVE \E h \in Gates, o \in Outcomes : EngineStep(h, o)
  BY <1>1, <1>4 DEF Outcomes
<1>5. CASE \E g \in Gates : Block(g)
  BY <1>4, <1>5
<1>6. CASE G0
  BY <1>3, <1>6 DEF G0, Gates
<1>7. CASE G1
  BY <1>3, <1>7 DEF G1, Gates
<1>8. CASE G2
  BY <1>3, <1>8 DEF G2, Gates
<1>9. CASE G3
  BY <1>3, <1>9 DEF G3, Gates
<1>10. CASE G4
  BY <1>3, <1>10 DEF G4, Gates
<1>11. CASE G5
  BY <1>3, <1>11 DEF G5, Gates
<1>12. CASE G6
  BY <1>3, <1>12 DEF G6, Gates
<1>13. CASE G7
  BY <1>3, <1>13 DEF G7, Gates
<1>14. CASE G8
  BY <1>3, <1>14 DEF G8, Gates
<1>15. CASE G9
  BY <1>3, <1>15 DEF G9, Gates
<1>16. CASE G10
  BY <1>3, <1>16 DEF G10, Gates
<1>17. CASE G11
  BY <1>3, <1>17 DEF G11, Gates
<1>18. CASE G12
  BY <1>3, <1>18 DEF G12, Gates
<1>19. CASE G13
  BY <1>3, <1>19 DEF G13, Gates
<1>20. CASE G14
  BY <1>3, <1>20 DEF G14, Gates
<1>21. CASE G15
  BY <1>3, <1>21 DEF G15, G15Stops, G15Covers, Gates
<1> QED
  BY <1>5, <1>6, <1>7, <1>8, <1>9, <1>10, <1>11, <1>12, <1>13, <1>14, <1>15,
     <1>16, <1>17, <1>18, <1>19, <1>20, <1>21 DEF EvaluateGate

---------------------------------------------------------------------------
(* The shape of the outcomes: the gates before next are recorded, those    *)
(* from next on are not; a gate other than BLOCKED had passing             *)
(* prerequisites, a BLOCKED one a prerequisite that did not pass.          *)
Engine ==
    /\ \A i \in 1..16 : outcome[Order[i]] = "none" <=> next <= i
    /\ \A g \in Gates : \A p \in Dependencies[g] :
         outcome[g] \notin {"none", "BLOCKED"} => outcome[p] = "PASS"
    /\ \A g \in Gates :
         outcome[g] = "BLOCKED" => \E p \in Dependencies[g] : outcome[p] \notin {"none", "PASS"}

(* The engine's dependencies are a function from gates to sets of gates. *)
LEMMA DependenciesAreGates == Dependencies \in [Gates -> SUBSET Gates]
  BY DEF Dependencies, Gates

(* The type invariant holds initially and is kept by every step.           *)
LEMMA TypeInit == ASSUME Init PROVE TypeOK
<1>1. plan \in PlanSpace
  BY PlansAssumption DEF Init
<1>2. verdict \in [execution  : {"none", "COMPLETE", "BLOCKED", "ERROR"},
                  scientific : ScientificStates \cup {"none"},
                  validity   : ValidityStates \cup {"none"},
                  strength   : BOOLEAN]
  BY DEF Init, NoVerdict
<1>3. outcome \in [Gates -> Outcomes \cup {"none"}]
  BY DEF Init
<1>4. phase \in {"started", "gates", "recorded", "lost"} /\ next \in 1..17
  BY DEF Init
<1>5. /\ analysis \in AnalysisStates \cup {"none"}
      /\ alternatives \subseteq AnalysisStates
      /\ rejected \subseteq {"model", "hypothesis"}
      /\ reproduction \in {"none", "equivalent", "mismatch"}
      /\ covered \in BOOLEAN /\ strength \in BOOLEAN
  BY DEF Init
<1> QED
  BY <1>1, <1>2, <1>3, <1>4, <1>5 DEF TypeOK

(* Every step keeps the variables in their ranges. *)
LEMMA TypeStep == ASSUME TypeOK, [Next]_vars PROVE TypeOK'
<1> USE DEF TypeOK
<1>1. CASE Prepare
  BY <1>1 DEF Prepare, context
<1>2. CASE EvaluateGate
  <2>1. PICK g \in Gates, out \in Outcomes : EngineStep(g, out)
    BY <1>2, StepsOfTheEngine
  <2>2. /\ plan' = plan /\ phase' = phase /\ verdict' = verdict
        /\ next' = next + 1 /\ next \in 1..16
        /\ outcome' = [outcome EXCEPT ![g] = out]
    BY <2>1 DEF EngineStep, Record, Turn
  <2>3. next' \in 1..17 /\ outcome' \in [Gates -> Outcomes \cup {"none"}]
    BY <2>2
  <2>4. Conclusions(plan) \subseteq AnalysisStates /\ AlternativeConclusions(plan) \subseteq AnalysisStates
    BY DEF Conclusions, AlternativeConclusions, AnalysisStates
  <2>5. /\ analysis' \in AnalysisStates \cup {"none"}
        /\ alternatives' \subseteq AnalysisStates
        /\ rejected' \subseteq {"model", "hypothesis"}
        /\ reproduction' \in {"none", "equivalent", "mismatch"}
        /\ covered' \in BOOLEAN
        /\ strength' \in BOOLEAN
    BY <1>2, <2>4 DEF EvaluateGate, Block, G0, G1, G2, G3, G4, G5, G6, G7, G8, G9, G10, G11,
         G12, G13, G14, G15, G15Stops, G15Covers, NeedsCoverage, context
  <2> QED
    BY <2>2, <2>3, <2>5
<1>3. CASE MakeVerdict
  <2>1. Execution \in {"COMPLETE", "BLOCKED"}
    BY DEF Execution
  <2>2. Validity \in ValidityStates
    BY DEF Validity, GateValidity, Invalidity, ValidityStates
  <2>3. Scientific \in ScientificStates
    BY DEF Scientific, AnalysisConclusion, ScientificStates, AnalysisStates
  <2>4. ReportedStrength \in BOOLEAN
    BY DEF ReportedStrength
  <2> QED
    BY <1>3, <2>1, <2>2, <2>3, <2>4 DEF MakeVerdict, context
<1>4. CASE Fail
  BY <1>4 DEF Fail, ErrorVerdict, ScientificStates, ValidityStates, context
<1>5. CASE Escape
  BY <1>5 DEF Escape, context
<1>6. CASE UNCHANGED vars
  BY <1>6 DEF vars, context
<1> QED
  BY <1>1, <1>2, <1>3, <1>4, <1>5, <1>6 DEF Next

(* Type correctness: whatever the gates find, outcomes, context and verdict *)
(* stay within the vocabulary of core/status.py.                           *)
THEOREM TypeCorrect == Spec => []TypeOK
  BY TypeInit, TypeStep, PTL DEF Spec

(* The engine's part of the invariant holds when a run starts. *)
LEMMA EngineInit == ASSUME Init PROVE Engine
  BY OrderAssumption, DependenciesAreGates DEF Init, Engine

(* Every step keeps the engine's part: outcomes are those of the gates passed so far. *)
LEMMA EngineInductive == ASSUME TypeOK, Engine, [Next]_vars PROVE Engine'
<1>1. CASE EvaluateGate
  <2>1. PICK g \in Gates, out \in Outcomes : EngineStep(g, out)
    BY <1>1, StepsOfTheEngine
  <2>2. /\ next \in 1..16 /\ Order[next] = g /\ next' = next + 1
        /\ outcome' = [outcome EXCEPT ![g] = out]
        /\ out = "BLOCKED" <=> \E p \in Dependencies[g] : outcome[p] # "PASS"
    BY <2>1 DEF EngineStep, Record, Turn
  <2>3. outcome[g] = "none"
    BY <2>2 DEF Engine
  <2>4. out # "none"
    BY DEF Outcomes
  <2>5. \A p \in Dependencies[g] : p \in Gates /\ outcome[p] # "none" /\ p # g
    <3> SUFFICES ASSUME NEW p \in Dependencies[g] PROVE p \in Gates /\ outcome[p] # "none" /\ p # g
      OBVIOUS
    <3>1. PICK j \in 1..(next - 1) : Order[j] = p
      BY <2>2, OrderAssumption
    <3>2. j \in 1..16 /\ ~ next <= j
      BY <2>2, <3>1 DEF TypeOK
    <3> QED
      BY <2>3, <3>1, <3>2, OrderAssumption DEF Engine
  <2>6. \A h \in Gates : outcome'[h] = IF h = g THEN out ELSE outcome[h]
    BY <2>2 DEF TypeOK
  <2>7. \A i \in 1..16 : outcome'[Order[i]] = "none" <=> next' <= i
    <3> SUFFICES ASSUME NEW i \in 1..16 PROVE outcome'[Order[i]] = "none" <=> next' <= i
      OBVIOUS
    <3>1. Order[i] \in Gates /\ (Order[i] = g <=> i = next)
      BY <2>2, OrderAssumption
    <3> QED
      BY <2>2, <2>4, <2>6, <3>1 DEF Engine, TypeOK
  <2>8. \A h \in Gates : \A p \in Dependencies[h] :
          outcome'[h] \notin {"none", "BLOCKED"} => outcome'[p] = "PASS"
    <3> SUFFICES ASSUME NEW h \in Gates, NEW p \in Dependencies[h],
                        outcome'[h] \notin {"none", "BLOCKED"}
                 PROVE  outcome'[p] = "PASS"
      OBVIOUS
    <3>1. p \in Gates
      BY DependenciesAreGates
    <3>2. CASE h = g
      BY <2>2, <2>5, <2>6, <3>1, <3>2
    <3>3. CASE h # g
      BY <2>3, <2>6, <3>1, <3>3 DEF Engine
    <3> QED
      BY <3>2, <3>3
  <2>9. \A h \in Gates :
          outcome'[h] = "BLOCKED" => \E p \in Dependencies[h] : outcome'[p] \notin {"none", "PASS"}
    <3> SUFFICES ASSUME NEW h \in Gates, outcome'[h] = "BLOCKED"
                 PROVE  \E p \in Dependencies[h] : outcome'[p] \notin {"none", "PASS"}
      OBVIOUS
    <3>1. CASE h = g
      <4>1. PICK p \in Dependencies[g] : outcome[p] # "PASS"
        BY <2>2, <2>6, <3>1
      <4> QED
        BY <2>5, <2>6, <3>1, <4>1
    <3>2. CASE h # g
      <4>1. PICK p \in Dependencies[h] : outcome[p] \notin {"none", "PASS"}
        BY <2>6, <3>2 DEF Engine
      <4>2. p \in Gates
        BY DependenciesAreGates
      <4> QED
        BY <2>3, <2>6, <4>1, <4>2
    <3> QED
      BY <3>1, <3>2
  <2> QED
    BY <2>7, <2>8, <2>9 DEF Engine
<1>2. CASE Prepare \/ MakeVerdict \/ Fail \/ Escape \/ UNCHANGED vars
  <2>1. next' = next /\ outcome' = outcome
    BY <1>2 DEF Prepare, MakeVerdict, Fail, Escape, vars
  <2> QED
    BY <2>1 DEF Engine
<1> QED
  BY <1>1, <1>2 DEF Next

---------------------------------------------------------------------------
(* What a PASS says about the declarations and the context.                *)
Findings ==
    /\ outcome["G1"] = "PASS" => ClaimFitsMethod(plan)
    /\ outcome["G5"] = "PASS" => analysis \in Conclusions(plan)
    /\ outcome["G9"] = "PASS" => plan.counterfactuals /\ alternatives # {}
    /\ outcome["G11"] = "PASS" => ConclusionStable
    /\ rejected # {} => outcome["G12"] = "FAIL"
    /\ outcome["G14"] = "PASS" => reproduction = "equivalent"
    /\ outcome["G15"] = "PASS" =>
         /\ plan.mode = "confirmatory"
         /\ NeedsCoverage => CoverageDeclared /\ covered
         /\ plan.claim_type = "EXISTENTIAL" => analysis = "SUPPORTED"
    /\ covered => NeedsCoverage

(* An adapter's conclusion is a state of an analysis, never "none". *)
LEMMA ConclusionsAreStates == Conclusions(plan) \subseteq AnalysisStates /\ "none" \notin AnalysisStates
  BY DEF Conclusions, AnalysisStates

(* The gate whose turn it is has no outcome yet: no gate is evaluated twice. *)
LEMMA Fresh == ASSUME Engine, NEW g, Turn(g) PROVE outcome[g] = "none"
  BY DEF Engine, Turn

(* The gates that read the analysis depend on G5, directly or through others. *)
LEMMA DependenciesOfTheModel ==
    /\ {"G5", "G7"} \subseteq Dependencies["G8"]
    /\ {"G5", "G7"} \subseteq Dependencies["G9"]
    /\ {"G5", "G7"} \subseteq Dependencies["G14"]
    /\ "G9" \in Dependencies["G11"]
    /\ {"G5", "G9", "G11", "G12", "G14"} \subseteq Dependencies["G15"]
  BY DEF Dependencies, Gates

(* The gates that use the analysis come after the gate that computes it.   *)
LEMMA ModelFirst ==
  ASSUME Engine, outcome["G5"] = "none"
  PROVE  \A g \in {"G8", "G9", "G11", "G14", "G15"} : outcome[g] \in {"none", "BLOCKED"}
  BY DependenciesOfTheModel DEF Engine, Gates

(* G9 has been evaluated before G11 reads what it left in the context. *)
LEMMA CounterfactualsFirst ==
  ASSUME Engine, outcome["G9"] = "none"
  PROVE  outcome["G11"] \in {"none", "BLOCKED"}
  BY DependenciesOfTheModel DEF Engine, Gates

(* Nothing is found before the first gate. *)
LEMMA FindingsInit == ASSUME Init PROVE Findings
  BY DEF Init, Findings, Gates

(* A gate that only records its outcome, and is none of those Findings     *)
(* speaks of or records something else than PASS, keeps Findings.          *)
LEMMA FindingsKept ==
  ASSUME TypeOK, Engine, Findings, NEW g \in Gates, NEW out \in Outcomes,
         Turn(g), Record(g, out), UNCHANGED context,
         g \in {"G1", "G5", "G9", "G11", "G14", "G15"} => out # "PASS"
  PROVE  Findings'
<1>1. outcome' = [outcome EXCEPT ![g] = out] /\ plan' = plan
  BY DEF Record
<1>2. outcome[g] = "none"
  BY Fresh
<1>3. \A h \in Gates : outcome'[h] = IF h = g THEN out ELSE outcome[h]
  BY <1>1 DEF TypeOK
<1> QED
  BY <1>1, <1>2, <1>3 DEF Findings, context, ConclusionStable, NeedsCoverage, CoverageDeclared, Gates

(* Every step keeps what the recorded outcomes say about the context. *)
LEMMA FindingsInductive == ASSUME TypeOK, Engine, Findings, [Next]_vars PROVE Findings'
<1>1. ASSUME NEW g \in Gates, NEW out, Turn(g), Record(g, out), TypeOK
      PROVE  /\ outcome[g] = "none" /\ plan' = plan
             /\ \A h \in Gates : outcome'[h] = IF h = g THEN out ELSE outcome[h]
  BY <1>1, Fresh DEF Record, TypeOK
<1>2. ASSUME NEW g \in Gates, Block(g) PROVE Findings'
  BY <1>2, FindingsKept DEF Block, Outcomes
<1>3. CASE G0
  BY <1>3, FindingsKept DEF G0, Ready, Gates, Outcomes
<1>4. CASE G1
  BY <1>4, <1>1 DEF G1, Ready, Gates, Findings, context, ConclusionStable, NeedsCoverage, CoverageDeclared
<1>5. CASE G2
  BY <1>5, FindingsKept DEF G2, Ready, Gates, Outcomes
<1>6. CASE G3
  BY <1>6, FindingsKept DEF G3, Ready, Gates, Outcomes
<1>7. CASE G4
  BY <1>7, FindingsKept DEF G4, Ready, Gates, Outcomes
<1>8. CASE G5
  <2>1. outcome["G5"] = "none"
    BY <1>8, Fresh DEF G5, Ready
  <2>2. \A g \in {"G8", "G9", "G11", "G14", "G15"} : outcome[g] \in {"none", "BLOCKED"}
    BY <2>1, ModelFirst
  <2> QED
    BY <1>8, <1>1, <2>2
       DEF G5, Ready, Gates, Findings, ConclusionStable, NeedsCoverage, CoverageDeclared
<1>9. CASE G6
  BY <1>9, FindingsKept DEF G6, Ready, Gates, Outcomes
<1>10. CASE G7
  BY <1>10, FindingsKept DEF G7, Ready, Gates, Outcomes
<1>11. CASE G8
  BY <1>11, FindingsKept DEF G8, Ready, Gates, Outcomes
<1>12. CASE G9
  <2>1. outcome["G9"] = "none"
    BY <1>12, Fresh DEF G9, Ready
  <2>2. outcome["G11"] \in {"none", "BLOCKED"}
    BY <2>1, CounterfactualsFirst
  <2>3. PICK out \in Outcomes :
          /\ Record("G9", out)
          /\ out = "PASS" => plan.counterfactuals /\ alternatives' # {}
    BY <1>12 DEF G9, Outcomes
  <2>4. Turn("G9") /\ UNCHANGED <<analysis, rejected, reproduction, covered>>
    BY <1>12 DEF G9, Ready
  <2>5. plan' = plan /\ \A h \in Gates : outcome'[h] = IF h = "G9" THEN out ELSE outcome[h]
    BY <1>1, <2>3, <2>4 DEF Gates
  <2> QED
    BY <2>2, <2>3, <2>4, <2>5
       DEF Gates, Findings, ConclusionStable, NeedsCoverage, CoverageDeclared
<1>13. CASE G10
  BY <1>13, FindingsKept DEF G10, Ready, Gates, Outcomes
<1>14. CASE G11
  BY <1>14, <1>1 DEF G11, Ready, Gates, Findings, context, ConclusionStable, NeedsCoverage, CoverageDeclared
<1>15. CASE G12
  BY <1>15, <1>1 DEF G12, Ready, Gates, Findings, ConclusionStable, NeedsCoverage, CoverageDeclared
<1>16. CASE G13
  BY <1>16, FindingsKept DEF G13, Ready, Gates, Outcomes
<1>17. CASE G14
  BY <1>17, <1>1 DEF G14, Ready, Gates, Findings, ConclusionStable, NeedsCoverage, CoverageDeclared
<1>18. CASE G15
  <2>1. PICK out \in Outcomes :
          /\ Record("G15", out)
          /\ out = "PASS" => /\ plan.mode = "confirmatory"
                             /\ NeedsCoverage => CoverageDeclared /\ covered'
                             /\ plan.claim_type = "EXISTENTIAL" => analysis = "SUPPORTED"
    <3>1. CASE G15Stops
      BY <3>1 DEF G15Stops, Outcomes
    <3>2. CASE G15Covers
      BY <3>2 DEF G15Covers, Outcomes
    <3> QED
      BY <1>18, <3>1, <3>2 DEF G15
  <2>2. covered' => NeedsCoverage
    BY <1>18 DEF G15, G15Covers, Findings
  <2>3. Turn("G15") /\ UNCHANGED <<analysis, alternatives, rejected, reproduction>>
    BY <1>18 DEF G15, Ready
  <2>4. plan' = plan /\ \A h \in Gates : outcome'[h] = IF h = "G15" THEN out ELSE outcome[h]
    BY <1>1, <2>1, <2>3 DEF Gates
  <2> QED
    BY <2>1, <2>2, <2>3, <2>4
       DEF Gates, Findings, ConclusionStable, NeedsCoverage, CoverageDeclared
<1>19. CASE Prepare \/ MakeVerdict \/ Fail \/ Escape \/ UNCHANGED vars
  <2>1. plan' = plan /\ outcome' = outcome /\ UNCHANGED context
    BY <1>19 DEF Prepare, MakeVerdict, Fail, Escape, vars
  <2> QED
    BY <2>1 DEF Findings, context, ConclusionStable, NeedsCoverage, CoverageDeclared
<1> QED
  BY <1>2, <1>3, <1>4, <1>5, <1>6, <1>7, <1>8, <1>9, <1>10, <1>11, <1>12, <1>13, <1>14, <1>15,
     <1>16, <1>17, <1>18, <1>19 DEF Next, EvaluateGate

---------------------------------------------------------------------------
(* The recorded verdict is the error verdict or the one make_verdict       *)
(* derives from the final outcomes and context.                            *)
Derived == [execution |-> Execution, scientific |-> Scientific,
            validity |-> Validity, strength |-> ReportedStrength]

Recorded ==
    /\ phase # "recorded" => verdict = NoVerdict
    /\ phase = "recorded" => verdict = ErrorVerdict \/ (next = 17 /\ verdict = Derived)

(* Every step keeps the stored verdict equal to what make_verdict or the error path derives. *)
LEMMA RecordedInductive == ASSUME TypeOK, Recorded, [Next]_vars PROVE Recorded'
<1>1. CASE Prepare
  BY <1>1 DEF Prepare, Recorded
<1>2. CASE EvaluateGate
  <2>1. PICK g \in Gates, out \in Outcomes : EngineStep(g, out)
    BY <1>2, StepsOfTheEngine
  <2> QED
    BY <2>1 DEF EngineStep, Turn, Record, Recorded, NoVerdict
<1>3. CASE MakeVerdict
  <2>1. /\ plan' = plan /\ next' = next /\ outcome' = outcome /\ UNCHANGED context
        /\ next = 17 /\ phase' = "recorded" /\ verdict' = Derived
    BY <1>3 DEF MakeVerdict, Derived
  <2>2. Derived' = Derived
    BY <2>1 DEF Derived, Execution, Scientific, Validity, ReportedStrength, ControlRejected,
       GateValidity, Invalidating, AnalysisConclusion, Failed, context
  <2> QED
    BY <2>1, <2>2 DEF Recorded
<1>4. CASE Fail
  BY <1>4 DEF Fail, Recorded, ErrorVerdict
<1>5. CASE Escape
  BY <1>5 DEF Escape, Recorded, NoVerdict
<1>6. CASE UNCHANGED vars
  <2>1. Derived' = Derived
    BY <1>6 DEF Derived, Execution, Scientific, Validity, ReportedStrength, ControlRejected,
       GateValidity, Invalidating, AnalysisConclusion, Failed, context, vars
  <2> QED
    BY <1>6, <2>1 DEF Recorded, vars, NoVerdict, ErrorVerdict
<1> QED
  BY <1>1, <1>2, <1>3, <1>4, <1>5, <1>6 DEF Next

IInv == TypeOK /\ Engine /\ Findings /\ Recorded

(* The inductive invariant.                                                *)
THEOREM Inductive == Spec => []IInv
<1>1. Init => IInv
  BY TypeInit, EngineInit, FindingsInit DEF IInv, Recorded, Init
<1>2. IInv /\ [Next]_vars => IInv'
  BY TypeStep, EngineInductive, FindingsInductive, RecordedInductive DEF IInv
<1> QED
  BY <1>1, <1>2, PTL DEF Spec

---------------------------------------------------------------------------
(* The safety properties follow from the inductive invariant.              *)

LEMMA AllEvaluated == ASSUME IInv, next = 17 PROVE \A g \in Gates : outcome[g] # "none"
<1> SUFFICES ASSUME NEW g \in Gates PROVE outcome[g] # "none"
  OBVIOUS
<1>1. PICK i \in 1..16 : Order[i] = g
  BY OrderAssumption
<1> QED
  BY <1>1 DEF IInv, Engine

(* make_verdict's pass over BLOCKED gates is sound: if none of the gates   *)
(* G1..G8 is its own cause of failure and G0 passed, all of them passed.   *)
LEMMA ValidityComplete ==
  ASSUME IInv, next = 17, GateValidity = "VALID"
  PROVE  \A g \in {"G0", "G1", "G2", "G3", "G4", "G5", "G6", "G7", "G8"} : outcome[g] = "PASS"
<1>1. outcome["G0"] = "PASS" /\ Invalidating = {}
  BY DEF GateValidity, Invalidity
<1>2. \A g \in {"G1", "G2", "G3", "G4", "G5", "G6", "G7", "G8"} : outcome[g] \in {"PASS", "BLOCKED"}
  <2>1. \A i \in 1..8 : outcome[ValidityGate[i]] \in {"PASS", "BLOCKED"}
    BY <1>1 DEF Invalidating
  <2> QED
    BY <2>1 DEF ValidityGate
<1>3. ASSUME NEW g \in Gates, outcome[g] \in {"PASS", "BLOCKED"},
             \A p \in Dependencies[g] : outcome[p] = "PASS"
      PROVE  outcome[g] = "PASS"
  BY <1>3 DEF IInv, Engine
<1>4. outcome["G1"] = "PASS"
  BY <1>1, <1>2, <1>3 DEF Dependencies, Gates
<1>5. outcome["G2"] = "PASS"
  BY <1>4, <1>2, <1>3 DEF Dependencies, Gates
<1>6. outcome["G3"] = "PASS"
  BY <1>5, <1>2, <1>3 DEF Dependencies, Gates
<1>7. outcome["G4"] = "PASS" /\ outcome["G6"] = "PASS" /\ outcome["G7"] = "PASS"
  BY <1>6, <1>2, <1>3 DEF Dependencies, Gates
<1>8. outcome["G5"] = "PASS"
  BY <1>7, <1>2, <1>3 DEF Dependencies, Gates
<1>9. outcome["G8"] = "PASS"
  BY <1>7, <1>8, <1>2, <1>3 DEF Dependencies, Gates
<1> QED
  BY <1>1, <1>4, <1>5, <1>6, <1>7, <1>8, <1>9

(* A promotable scientific state is the analysis' own, in a run without a  *)
(* failed gate.                                                            *)
LEMMA PromotionOrigin ==
  ASSUME IInv, verdict.scientific \in Promotable
  PROVE  /\ next = 17 /\ verdict = Derived /\ Failed = {}
         /\ analysis = "SUPPORTED"
         /\ verdict.scientific = IF covered THEN "CERTIFIED_WITHIN_SCOPE" ELSE "SUPPORTED"
<1>1. verdict # NoVerdict /\ verdict # ErrorVerdict
  BY DEF NoVerdict, ErrorVerdict, Promotable
<1>2. next = 17 /\ verdict = Derived
  BY <1>1 DEF IInv, Recorded
<1>3. verdict.scientific = Scientific
  BY <1>2 DEF Derived
<1>4. Scientific = AnalysisConclusion
  BY <1>3 DEF Scientific, Promotable
<1>5. analysis # "none" /\ Failed = {}
  BY <1>3, <1>4 DEF AnalysisConclusion, Promotable
<1>6. analysis \in AnalysisStates
  BY <1>5 DEF IInv, TypeOK
<1> QED
  BY <1>2, <1>3, <1>4, <1>5, <1>6 DEF AnalysisConclusion, Promotable, AnalysisStates

(* A strength is only reported with a promotable state.                    *)
LEMMA StrengthIsPromoted ==
  ASSUME IInv, verdict.strength
  PROVE  verdict.scientific \in Promotable
<1>1. verdict # NoVerdict /\ verdict # ErrorVerdict
  BY DEF NoVerdict, ErrorVerdict
<1>2. verdict = Derived
  BY <1>1 DEF IInv, Recorded
<1> QED
  BY <1>2 DEF Derived, ReportedStrength

(* The invariant implies that a promotable verdict has all gates passed. *)
LEMMA Promoted == ASSUME IInv PROVE PromotionNeedsEveryGate
<1> SUFFICES ASSUME verdict.scientific \in Promotable PROVE
      /\ \A g \in Gates : outcome[g] = "PASS"
      /\ verdict.execution = "COMPLETE" /\ verdict.validity = "VALID"
      /\ analysis = "SUPPORTED" /\ reproduction = "equivalent"
      /\ plan.mode = "confirmatory"
  BY StrengthIsPromoted DEF PromotionNeedsEveryGate
<1>1. verdict = Derived /\ Failed = {} /\ analysis = "SUPPORTED"
  BY PromotionOrigin
<1>2. \A g \in Gates : outcome[g] = "PASS"
  BY <1>1 DEF Failed
<1>3. GateValidity = "VALID"
  BY <1>2 DEF GateValidity, Invalidating, ValidityGate, Gates
<1>4. Validity = "VALID" /\ Execution = "COMPLETE"
  BY <1>2, <1>3 DEF Validity, Execution, ControlRejected, Gates
<1> QED
  BY <1>1, <1>2, <1>4 DEF IInv, Findings, Derived, Gates

(* The invariant implies that certificates come from exhaustive coverage. *)
LEMMA Exhaustive == ASSUME IInv PROVE CertificateIsExhaustive
<1> SUFFICES ASSUME verdict.scientific \in Promotable PROVE
      (   verdict.scientific = "CERTIFIED_WITHIN_SCOPE"
      <=> plan.claim_type = "UNIVERSAL_NEGATIVE" /\ plan.quantifier = "none" /\ plan.coverage)
  BY DEF CertificateIsExhaustive
<1>1. /\ \A g \in Gates : outcome[g] = "PASS"
      /\ verdict.scientific = "CERTIFIED_WITHIN_SCOPE" <=> covered
  BY PromotionOrigin DEF Failed
<1>2. covered <=> plan.claim_type = "UNIVERSAL_NEGATIVE"
  BY <1>1 DEF IInv, Findings, NeedsCoverage, Gates
<1>3. ClaimFitsMethod(plan)
  BY <1>1 DEF IInv, Findings, Gates
<1>4. plan.quantifier \in {"unused", "none", "exists"}
  BY DEF IInv, TypeOK, PlanSpace
<1>5. NeedsCoverage => plan.quantifier = "none" /\ plan.coverage
  BY <1>1, <1>3, <1>4 DEF IInv, Findings, NeedsCoverage, CoverageDeclared, Finite, ClaimFitsMethod, Gates
<1> QED
  BY <1>1, <1>2, <1>5 DEF NeedsCoverage

(* The invariant implies that promoted conclusions hold in the counterfactuals. *)
LEMMA Robust == ASSUME IInv PROVE PromotionIsRobust
<1> SUFFICES ASSUME verdict.scientific \in Promotable, plan.claim_type \in Causal \cup Quantified
             PROVE  plan.counterfactuals /\ alternatives = {"SUPPORTED"}
  BY DEF PromotionIsRobust
<1>1. outcome["G9"] = "PASS" /\ outcome["G11"] = "PASS" /\ analysis = "SUPPORTED"
  BY PromotionOrigin DEF Failed, Gates
<1> QED
  BY <1>1 DEF IInv, Findings, ConclusionStable

(* A verdict with a scientific conclusion is make_verdict's, and the gates of validity passed. *)
LEMMA ConcludedIsValid ==
  ASSUME IInv, verdict.scientific \notin {"none", "UNRESOLVED"}
  PROVE  /\ next = 17 /\ verdict = Derived /\ GateValidity = "VALID"
         /\ outcome["G1"] = "PASS" /\ outcome["G5"] = "PASS"
<1>1. verdict # NoVerdict /\ verdict # ErrorVerdict
  BY DEF NoVerdict, ErrorVerdict
<1>2. next = 17 /\ verdict = Derived
  BY <1>1 DEF IInv, Recorded
<1>3. GateValidity = "VALID"
  BY <1>2 DEF Derived, Scientific
<1> QED
  BY <1>2, <1>3, ValidityComplete

(* Two adapters admit quantified claims, and one of them both kinds. *)
LEMMA QuantifyingAdapters ==
  ASSUME TypeOK, ClaimFitsMethod(plan)
  PROVE  /\ plan.claim_type = "UNIVERSAL_NEGATIVE" => plan.adapter = "science"
         /\ plan.claim_type = "EXISTENTIAL" => plan.adapter \in {"science", "physics"}
<1>1. plan.adapter \in Adapters
  BY DEF TypeOK, PlanSpace
<1> QED
  BY <1>1 DEF ClaimFitsMethod, SupportedClaims, Adapters

(* The invariant implies that what is concluded fits what the method computes. *)
LEMMA Firewall == ASSUME IInv PROVE FirewallHolds
<1> SUFFICES ASSUME verdict.scientific \notin {"none", "UNRESOLVED"}
             PROVE  /\ plan.claim_type \notin Prohibited
                    /\ plan.claim_type = "UNIVERSAL_NEGATIVE" <=> plan.quantifier = "none"
                    /\ plan.quantifier = "exists" => plan.claim_type = "EXISTENTIAL"
                    /\ plan.claim_type = "EXISTENTIAL" =>
                          plan.quantifier = "exists" \/ plan.adapter = "physics"
  BY DEF FirewallHolds
<1>1. ClaimFitsMethod(plan)
  BY ConcludedIsValid DEF IInv, Findings
<1>2. plan.adapter \in Adapters /\ plan.quantifier \in {"unused", "none", "exists"}
  BY DEF IInv, TypeOK, PlanSpace
<1>3. plan.claim_type \notin Prohibited
  BY <1>1, <1>2 DEF ClaimFitsMethod, SupportedClaims, Prohibited, Adapters
<1>4. /\ plan.claim_type = "UNIVERSAL_NEGATIVE" => plan.adapter = "science"
      /\ plan.claim_type = "EXISTENTIAL" => plan.adapter \in {"science", "physics"}
  BY <1>1, QuantifyingAdapters DEF IInv
<1> QED
  BY <1>1, <1>2, <1>3, <1>4 DEF ClaimFitsMethod, Finite

(* The invariant implies that quantified claims are refuted as their quantifier allows. *)
LEMMA Refuted == ASSUME IInv PROVE RefutationFitsQuantifier
<1> SUFFICES ASSUME verdict.scientific = "NOT_SUPPORTED"
                    \/ (verdict.scientific = "FALSIFIED" /\ rejected = {})
             PROVE  /\ plan.claim_type # "EXISTENTIAL"
                    /\ plan.claim_type = "UNIVERSAL_NEGATIVE" =>
                          verdict.scientific = "FALSIFIED" /\ plan.coverage /\ alternatives = {"FALSIFIED"}
  BY DEF RefutationFitsQuantifier
<1>1. verdict = Derived /\ outcome["G1"] = "PASS" /\ outcome["G5"] = "PASS"
  BY ConcludedIsValid
<1>2. verdict.scientific = AnalysisConclusion
  BY <1>1 DEF Derived, Scientific
<1>3. Failed = {} /\ verdict.scientific = analysis
  BY <1>2 DEF AnalysisConclusion
<1>4. \A g \in Gates : outcome[g] = "PASS"
  BY <1>3 DEF Failed
<1>5. plan.claim_type # "EXISTENTIAL"
  BY <1>3, <1>4 DEF IInv, Findings, Gates
<1>6. ASSUME plan.claim_type = "UNIVERSAL_NEGATIVE"
      PROVE  verdict.scientific = "FALSIFIED" /\ plan.coverage /\ alternatives = {"FALSIFIED"}
  <2>1. plan.adapter = "science" /\ plan.quantifier = "none"
    BY <1>1, <1>6, Firewall, QuantifyingAdapters DEF FirewallHolds, IInv, Findings
  <2>2. analysis = "FALSIFIED"
    BY <1>1, <1>3, <2>1 DEF IInv, Findings, Conclusions
  <2>3. plan.coverage
    BY <1>4, <1>6 DEF IInv, Findings, NeedsCoverage, CoverageDeclared, Gates
  <2>4. alternatives # {} /\ alternatives \subseteq {analysis}
    BY <1>4, <1>6 DEF IInv, Findings, ConclusionStable, Quantified, Gates
  <2> QED
    BY <1>3, <2>2, <2>3, <2>4
<1> QED
  BY <1>5, <1>6

(* The invariant implies that an invalidating gate shows in the validity axis. *)
LEMMA Unmasked == ASSUME IInv PROVE ValidityIsNotMasked
<1> SUFFICES ASSUME verdict.validity = "VALID"
             PROVE  \A g \in {"G0"} \cup {ValidityGate[i] : i \in 1..8} : outcome[g] = "PASS"
  BY DEF ValidityIsNotMasked
<1>1. verdict # NoVerdict /\ verdict # ErrorVerdict
  BY DEF NoVerdict, ErrorVerdict
<1>2. next = 17 /\ Validity = "VALID"
  BY <1>1 DEF IInv, Recorded, Derived
<1>3. GateValidity = "VALID"
  BY <1>2 DEF Validity
<1>4. \A i \in 1..8 : outcome[ValidityGate[i]] = "PASS"
  BY <1>2, <1>3, ValidityComplete DEF ValidityGate
<1> QED
  BY <1>2, <1>3, <1>4, ValidityComplete

(* The invariant implies that FALSIFIED is said on valid premises only. *)
LEMMA Genuine == ASSUME IInv PROVE FalsificationIsGenuine
<1>1. rejected \subseteq {"model", "hypothesis"} /\ (rejected # {} => outcome["G12"] = "FAIL")
  BY DEF IInv, TypeOK, Findings
<1>2. ASSUME verdict.scientific = "FALSIFIED"
      PROVE  /\ verdict.validity = "VALID" /\ verdict.execution = "COMPLETE"
             /\ \A g \in Gates \ {"G9", "G10", "G11", "G12", "G15"} : outcome[g] = "PASS"
             /\ rejected = {"hypothesis"} \/ (rejected = {} /\ analysis = "FALSIFIED" /\ Failed = {})
  <2>1. verdict # NoVerdict /\ verdict # ErrorVerdict
    BY <1>2 DEF NoVerdict, ErrorVerdict
  <2>2. next = 17 /\ verdict = Derived
    BY <2>1 DEF IInv, Recorded
  <2>3. Scientific = "FALSIFIED"
    BY <1>2, <2>2 DEF Derived
  <2>4. GateValidity = "VALID" /\ outcome["G14"] = "PASS" /\ ~ ControlRejected
    BY <2>3 DEF Scientific
  <2>5. Validity = "VALID" /\ Execution = "COMPLETE"
    BY <2>4 DEF Validity, Execution
  <2>6. \A g \in {"G0", "G1", "G2", "G3", "G4", "G5", "G6", "G7", "G8"} : outcome[g] = "PASS"
    BY <2>2, <2>4, ValidityComplete
  <2>7. \/ outcome["G12"] = "FAIL" /\ rejected # {} /\ outcome["G13"] = "PASS"
        \/ AnalysisConclusion = "FALSIFIED"
    BY <2>3, <2>4 DEF Scientific, FalsifierGates
  <2>8. CASE outcome["G12"] = "FAIL" /\ rejected # {} /\ outcome["G13"] = "PASS"
    <3>1. "model" \notin rejected
      BY <2>4, <2>8 DEF ControlRejected
    <3>2. rejected = {"hypothesis"}
      BY <1>1, <2>8, <3>1
    <3> QED
      BY <2>2, <2>4, <2>5, <2>6, <2>8, <3>2 DEF Derived, Gates
  <2>9. CASE AnalysisConclusion = "FALSIFIED"
    <3>1. Failed = {} /\ analysis = "FALSIFIED"
      BY <2>9 DEF AnalysisConclusion
    <3>2. \A g \in Gates : outcome[g] = "PASS"
      BY <3>1 DEF Failed
    <3> QED
      BY <1>1, <2>2, <2>5, <3>1, <3>2 DEF Derived, Gates
  <2> QED
    BY <2>7, <2>8, <2>9
<1>3. ASSUME phase = "recorded", "model" \in rejected
      PROVE  verdict.validity # "VALID"
  <2>1. CASE verdict = ErrorVerdict
    BY <2>1 DEF ErrorVerdict
  <2>2. CASE verdict = Derived
    <3>1. outcome["G12"] = "FAIL"
      BY <1>1, <1>3
    <3>2. Validity # "VALID"
      BY <1>3, <3>1 DEF Validity, ControlRejected
    <3> QED
      BY <2>2, <3>2 DEF Derived
  <2> QED
    BY <1>3, <2>1, <2>2 DEF IInv, Recorded
<1> QED
  BY <1>2, <1>3 DEF FalsificationIsGenuine

(* The invariant implies that no gate reads an analysis that was not computed. *)
LEMMA AnalysisSet == ASSUME IInv PROVE AnalysisIsSetWhenUsed
<1> SUFFICES ASSUME NEW g \in {"G8", "G11", "G14", "G15"}, outcome[g] \notin {"none", "BLOCKED"}
             PROVE  analysis # "none"
  BY DEF AnalysisIsSetWhenUsed
<1>1. \A h \in Gates : outcome[h] \notin {"none", "BLOCKED"} =>
        \A p \in Dependencies[h] : outcome[p] = "PASS"
  BY DEF IInv, Engine
<1>2. CASE g \in {"G8", "G14", "G15"}
  BY <1>1, <1>2, DependenciesOfTheModel, ConclusionsAreStates DEF IInv, Findings, Gates
<1>3. CASE g = "G11"
  <2>1. outcome["G9"] = "PASS"
    BY <1>1, <1>3, DependenciesOfTheModel DEF Gates
  <2>2. outcome["G5"] = "PASS"
    BY <1>1, <2>1, DependenciesOfTheModel DEF Gates
  <2> QED
    BY <2>2, ConclusionsAreStates DEF IInv, Findings
<1> QED
  BY <1>2, <1>3

(* The invariant implies that release accepts conclusive, reproduced runs only. *)
LEMMA Conclusive == ASSUME IInv PROVE ReleaseIsConclusive
<1> SUFFICES ASSUME Releasable PROVE
      \/ /\ Failed = {}
         /\ verdict.scientific = IF covered /\ analysis = "SUPPORTED"
                                 THEN "CERTIFIED_WITHIN_SCOPE" ELSE analysis
      \/ /\ Failed = {"G12", "G15"} /\ outcome["G15"] = "BLOCKED"
         /\ verdict.scientific = "FALSIFIED" /\ rejected = {"hypothesis"}
  BY DEF ReleaseIsConclusive
<1>1. verdict # ErrorVerdict /\ phase = "recorded"
  BY DEF Releasable, ErrorVerdict
<1>2. next = 17 /\ verdict = Derived
  BY <1>1 DEF IInv, Recorded
<1>3. Validity = "VALID" /\ verdict.scientific = Scientific
  BY <1>2 DEF Releasable, Derived
<1>4. GateValidity = "VALID" /\ ~ ControlRejected
  BY <1>3 DEF Validity
<1>5. \A g \in {"G0", "G1", "G2", "G3", "G4", "G5", "G6", "G7", "G8"} : outcome[g] = "PASS"
  BY <1>2, <1>4, ValidityComplete
<1>6. CASE Failed = {}
  <2>1. \A g \in Gates : outcome[g] = "PASS"
    BY <1>6 DEF Failed
  <2>2. analysis # "none"
    BY <1>5, ConclusionsAreStates DEF IInv, Findings
  <2>3. Scientific = AnalysisConclusion
    BY <1>4, <2>1 DEF Scientific, Gates
  <2> QED
    BY <1>3, <1>6, <2>2, <2>3 DEF AnalysisConclusion
<1>7. CASE Failed # {}
  <2>1. Failed \subseteq {"G12", "G15"} /\ verdict.scientific = "FALSIFIED"
    BY <1>7 DEF Failed, Releasable
  <2>2. AnalysisConclusion = "INCONCLUSIVE"
    BY <1>7 DEF AnalysisConclusion
  <2>3. outcome["G12"] = "FAIL" /\ rejected # {}
    BY <1>3, <2>1, <2>2 DEF Scientific
  <2>4. rejected = {"hypothesis"}
    <3>1. "model" \notin rejected
      BY <1>4, <2>3 DEF ControlRejected
    <3> QED
      BY <2>3, <3>1 DEF IInv, TypeOK
  <2>5. outcome["G15"] = "BLOCKED"
    <3>1. "G12" \in Dependencies["G15"]
      BY DependenciesOfTheModel
    <3>2. outcome["G15"] # "none"
      BY <1>2, AllEvaluated DEF Gates
    <3> QED
      BY <2>3, <3>1, <3>2 DEF IInv, Engine, Gates
  <2>6. Failed = {"G12", "G15"}
    BY <2>1, <2>3, <2>5 DEF Failed, Gates
  <2> QED
    BY <2>1, <2>4, <2>5, <2>6
<1> QED
  BY <1>6, <1>7

---------------------------------------------------------------------------
(* Fail-closed promotion: only a run that passed every gate, reproduced    *)
(* and confirmatory, gets a promotable verdict or a proof strength.        *)
THEOREM PromotionTheorem == Spec => []PromotionNeedsEveryGate
  BY Inductive, Promoted, PTL

(* An exhaustive certificate exactly for a covered finite universal negative. *)
THEOREM ExhaustiveTheorem == Spec => []CertificateIsExhaustive
  BY Inductive, Exhaustive, PTL

(* A promoted causal or quantified conclusion is unanimous over the counterfactuals. *)
THEOREM RobustTheorem == Spec => []PromotionIsRobust
  BY Inductive, Robust, PTL

(* Intent and legal guilt never get a scientific conclusion, nor does a    *)
(* quantified claim from a method that does not quantify so.               *)
THEOREM FirewallTheorem == Spec => []FirewallHolds
  BY Inductive, Firewall, PTL

(* Without a witness an existential claim stays open; a universal negative *)
(* is refuted by one in a covered domain, in every counterfactual.         *)
THEOREM RefutationTheorem == Spec => []RefutationFitsQuantifier
  BY Inductive, Refuted, PTL

(* FALSIFIED rests on a valid model; a rejected control makes the run invalid. *)
THEOREM FalsificationTheorem == Spec => []FalsificationIsGenuine
  BY Inductive, Genuine, PTL

(* The pass over BLOCKED gates in make_verdict hides no failure.           *)
THEOREM ValidityTheorem == Spec => []ValidityIsNotMasked
  BY Inductive, Unmasked, PTL

(* No gate reads the analysis before it is set.                            *)
THEOREM AnalysisTheorem == Spec => []AnalysisIsSetWhenUsed
  BY Inductive, AnalysisSet, PTL

(* What release accepts is conclusive.                                     *)
THEOREM ReleaseTheorem == Spec => []ReleaseIsConclusive
  BY Inductive, Conclusive, PTL
=============================================================================
