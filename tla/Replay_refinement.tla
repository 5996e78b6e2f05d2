------------------------- MODULE Replay_refinement -------------------------
(***************************************************************************)
(* The replay engine implements RunContract, for every set of recipes,     *)
(* every page and every value of the bounds. The fairness of the contract  *)
(* stays with TLC.                                                         *)
(***************************************************************************)
EXTENDS Replay_proofs

-----------------------------------------------------------------------------
(* The contract's business answer comes from a step that is left: overlays *)
(* and outcomes are looked for in a step, never in the success phase.      *)

InStep == pc \in {"perceive", "dismiss", "dismissed"} => i < Goal

(* The recipe, and with it what is left at a position, stays the same.     *)
LEMMA GoalStays == task' = task => Goal' = Goal
  BY DEF Goal, Steps, Artifact

(* Every step of the engine, and a resume, keeps to that.                  *)
LEMMA InStepStep == InStep /\ [Next]_vars => InStep'
<1> SUFFICES ASSUME InStep, [Next]_vars
             PROVE  InStep'
  OBVIOUS
<1>1. Goal' = Goal
  BY GoalStays DEF Next, EngineStep, vars, call, Act, Perceive, TrustPaused, Deny, Dismiss,
     AfterDismiss, BusinessOutcome, NoOutcome, FinalLook, Retry, AfterWait, GiveUp, StepDone,
     Succeed, OutputsMissing, DriverRaises, Resume
<1>2. CASE Act \/ Dismiss
  BY <1>1, <1>2 DEF Act, Dismiss, InStep
<1>3. ASSUME NEW o, Perceive(o) \/ TrustPaused(o) \/ AfterDismiss(o)
      PROVE  InStep'
  BY <1>1, <1>3 DEF Perceive, TrustPaused, AfterDismiss, Trusted, InStep
<1>4. ASSUME NEW o, Deny(o) \/ FinalLook(o) \/ AfterWait(o)
      PROVE  InStep'
  BY <1>4 DEF Deny, FinalLook, AfterWait, Fail, Return, InStep
<1>5. CASE BusinessOutcome \/ NoOutcome \/ Retry \/ GiveUp \/ StepDone \/ Succeed
           \/ OutputsMissing \/ DriverRaises \/ Resume
  BY <1>5 DEF BusinessOutcome, NoOutcome, Retry, GiveUp, StepDone, Succeed, OutputsMissing,
     DriverRaises, Resume, Fail, Return, InStep
<1>6. CASE UNCHANGED vars
  BY <1>1, <1>6 DEF vars, InStep
<1> QED
  BY <1>2, <1>3, <1>4, <1>5, <1>6 DEF Next, EngineStep

(* In every reachable state overlays and outcomes are looked for in a step.*)
LEMMA InStepInvariant == Spec => []InStep
<1>1. Init => InStep
  BY DEF Init, InStep
<1> QED
  BY <1>1, InStepStep, PTL DEF Spec

-----------------------------------------------------------------------------
(* A fresh run is a contract with all the steps of its recipe left.        *)
LEMMA RefineInit == Init => Contract!Init
<1> SUFFICES ASSUME Init PROVE Contract!Init
  OBVIOUS
<1>1. TypeOK
  BY TypeInit DEF TypeInv
<1>2. Goal \in Nat /\ Goal >= 1 /\ i = 1
  BY <1>1, RecipeShape DEF Init
<1>3. task.on_stuck \in BOOLEAN
  BY <1>1, Zenon DEF TypeOK
<1>4. result.status = "running" /\ Len(raised) = 0
  BY RunningStatus DEF Init
<1> QED
  BY <1>2, <1>3, <1>4 DEF Contract!Init

(* A step inside a call is none of the contract's.                         *)
LEMMA RefineLocal ==
  ASSUME UNCHANGED <<task, i, result, raised>>
  PROVE  UNCHANGED Contract!vars
  BY GoalStays DEF Contract!vars

(* A call that fails or pauses gets stuck, in the contract's sense.        *)
LEMMA RefineFail ==
  ASSUME TypeInv, Phase, pc # "done", UNCHANGED <<task, i>>,
         NEW expected, NEW log, Fail(expected, log)
  PROVE  Contract!GetStuck
<1>1. TypeOK
  BY DEF TypeInv
<1>2. raised \in Seq(1..Goal) /\ i \in 1..Goal
  BY <1>1, Zenon DEF TypeOK
<1>3. result.status = "running"
  BY DEF Phase
<1>4. result'.status = (IF resumable THEN "paused" ELSE "failure")
  BY DEF Fail, Return
<1>5. Len(raised') = IF task.on_stuck THEN Len(raised) + 1 ELSE Len(raised)
  <2>1. Len(Append(raised, i)) = Len(raised) + 1
    BY <1>2
  <2> QED
    BY <2>1 DEF Fail
<1> QED
  BY <1>3, <1>4, <1>5, GoalStays DEF Contract!GetStuck

(* An exception of the driver is the ending that models.py does not have.  *)
LEMMA RefineRaise == TypeInv /\ Phase /\ DriverRaises => Contract!Raise
<1> SUFFICES ASSUME TypeInv, Phase, DriverRaises PROVE Contract!Raise
  OBVIOUS
<1>1. UNCHANGED <<task, raised, i>> /\ pc # "done" /\ result'.status = "raised"
  BY DEF DriverRaises, DriverCall, call, Running
<1>2. result.status = "running"
  BY <1>1 DEF Phase
<1> QED
  BY <1>1, <1>2, GoalStays DEF Contract!Raise

(* Every other step of the engine, and a resume, is what models.py lets a  *)
(* run do, or nothing at all.                                              *)
LEMMA RefinePromised ==
  TypeInv /\ Phase /\ InStep /\ [Next]_vars /\ ~DriverRaises
    => [Contract!Promised \/ Contract!Resume]_(Contract!vars)
<1> SUFFICES ASSUME TypeInv, Phase, InStep, [Next]_vars, ~DriverRaises
             PROVE  Contract!Promised \/ Contract!Resume \/ UNCHANGED Contract!vars
  OBVIOUS
<1> USE DEF Contract!Promised
<1>1. TypeOK
  BY DEF TypeInv
<1>2. Goal \in Nat /\ i \in Nat
  BY <1>1, RecipeShape, Position
<1>3. pc # "done" => result.status = "running"
  BY DEF Phase
<1>4. CASE Act \/ Dismiss \/ NoOutcome \/ Retry
  BY <1>4, RefineLocal DEF Act, Dismiss, NoOutcome, Retry, call
<1>5. ASSUME NEW o, \/ Perceive(o) \/ TrustPaused(o) \/ FinalLook(o) \/ AfterWait(o)
                    \/ AfterDismiss(o)
      PROVE  UNCHANGED Contract!vars
  BY <1>5, RefineLocal DEF Perceive, TrustPaused, FinalLook, AfterWait, AfterDismiss, call
<1>6. ASSUME NEW o, Deny(o)
      PROVE  Contract!GetStuck
  BY <1>6, RefineFail DEF Deny, call
<1>7. CASE BusinessOutcome
  <2>1. UNCHANGED <<task, raised, i>> /\ pc # "done" /\ pc = "dismiss"
    BY <1>7 DEF BusinessOutcome, call
  <2>2. result'.status = "business_outcome"
    BY <1>7 DEF BusinessOutcome, Return
  <2>3. Goal - i > 0
    BY <1>2, <2>1 DEF InStep
  <2> QED
    BY <1>3, <2>1, <2>2, <2>3, GoalStays DEF Contract!AnswerBusinessOutcome
<1>8. CASE GiveUp
  BY <1>8, RefineFail DEF GiveUp, call
<1>9. CASE StepDone
  <2>1. UNCHANGED <<task, raised, result>> /\ i' = i + 1 /\ pc # "done" /\ i < Goal
    BY <1>9 DEF StepDone, call
  <2>2. Goal - i > 0 /\ Goal - (i + 1) = (Goal - i) - 1
    BY <1>2, <2>1
  <2> QED
    BY <1>3, <2>1, <2>2, GoalStays DEF Contract!CompleteStep
<1>10. CASE Succeed
  <2>1. UNCHANGED <<task, raised, i>> /\ pc # "done" /\ result'.status = "success" /\ i = Goal
    BY <1>10 DEF Succeed, call, Return
  <2> QED
    BY <1>2, <1>3, <2>1, GoalStays DEF Contract!Succeed
<1>11. CASE OutputsMissing
  BY <1>11, RefineFail DEF OutputsMissing, call
<1>12. CASE Resume
  <2>1. /\ task' = task /\ i' = i /\ raised' = raised /\ result' = Running
        /\ result.status = "paused"
    BY <1>12 DEF Resume, Phase, Stuck
  <2> QED
    BY <2>1, RunningStatus, GoalStays DEF Contract!Resume
<1>13. CASE UNCHANGED vars
  BY <1>13, RefineLocal DEF vars
<1> QED
  BY <1>4, <1>5, <1>6, <1>7, <1>8, <1>9, <1>10, <1>11, <1>12, <1>13 DEF Next, EngineStep

LEMMA RefineStep ==
  TypeInv /\ Phase /\ InStep /\ [Next]_vars => [Contract!Next]_(Contract!vars)
BY RefineRaise, RefinePromised DEF Contract!Next, Contract!Progress

(* Whatever the recipe and the page, a run works through its steps, ends   *)
(* in exactly one way, succeeds only with no step left, and raises a       *)
(* handoff for a Failure or a Paused only.  An exception of the driver is  *)
(* one of those ways.                                                      *)
THEOREM KeepsContract == Spec => Contract!Spec
<1> QED
  BY RefineInit, RefineStep, TypeInvariant, PhaseInvariant, InStepInvariant, PTL
     DEF Spec, Contract!Spec

(* It is the only one that models.py does not have: as long as no call of  *)
(* the driver raises, every run returns exactly one of the three results,  *)
(* or a Paused.                                                            *)
THEOREM KeepsPromise == Spec /\ [][~DriverRaises]_vars => EveryRunReturns
<1>1. /\ TypeInv /\ Phase /\ InStep /\ [Next]_vars /\ [~DriverRaises]_vars
      => [Contract!Promised \/ Contract!Resume]_(Contract!vars)
  <2>1. UNCHANGED vars => UNCHANGED Contract!vars
    BY RefineLocal DEF vars
  <2> QED
    BY <2>1, RefinePromised
<1> QED
  BY <1>1, RefineInit, TypeInvariant, PhaseInvariant, InStepInvariant, PTL
     DEF Spec, EveryRunReturns, Contract!PromisedSpec
=============================================================================
