---------------------------- MODULE Replay_proofs ----------------------------
(***************************************************************************)
(* Theorems about the replay engine, for every set of recipes, every page  *)
(* and every value of the bounds.                                          *)
(***************************************************************************)
EXTENDS Replay, TLAPS

-----------------------------------------------------------------------------
(* Type correctness.  TypeOK bounds the two loop counters, and the bound   *)
(* is not inductive by itself: it holds because the counter is below its   *)
(* maximum between the driver call of an iteration and the end of it.      *)

TypeInv ==
  /\ TypeOK
  /\ pc = "dismissed" => dismissals < MAX_INTERSTITIAL_DISMISSALS
  /\ pc = "waited" => attempts < MAX_SLOW_RETRIES
  /\ result.status = "paused" => result.step >= 1

(* Appending keeps a sequence a sequence over its set.                     *)
LEMMA AppendType ==
  ASSUME NEW S, NEW s \in Seq(S), NEW e \in S
  PROVE  Append(s, e) \in Seq(S)
  OBVIOUS

(* What the recipe of a run consists of.                                   *)
LEMMA RecipeShape ==
  ASSUME TypeOK
  PROVE  /\ Len(Steps) \in Nat
         /\ Goal \in Nat
         /\ Goal >= 1
         /\ DOMAIN Steps = 1..Len(Steps)
         /\ Artifact \in Artifacts
         /\ \A k \in 1..Len(Steps) : Steps[k] \in Step
         /\ \A k \in DOMAIN Artifact.known_interstitials :
              Artifact.known_interstitials[k].name \in Names
         /\ \A k \in DOMAIN Artifact.known_outcomes :
              Artifact.known_outcomes[k].name \in Names
<1>1. Artifact \in Artifacts
  BY DEF TypeOK, Artifact
<1>2. Artifact \in CapabilityArtifact
  BY <1>1, ArtifactsAssumption
<1>3. /\ Steps \in Seq(Step)
      /\ Artifact.known_interstitials \in Seq(Rule)
      /\ Artifact.known_outcomes \in Seq(Rule)
  BY <1>2 DEF CapabilityArtifact, Steps
<1>4. \A k \in 1..Len(Steps) : Steps[k] \in Step
  BY <1>3
<1>5. \A r \in Rule : r.name \in Names
  BY DEF Rule
<1> QED
  BY <1>1, <1>3, <1>4, <1>5 DEF Goal

(* Where the engine is in it.                                              *)
LEMMA Position == TypeOK => /\ i \in Nat
                            /\ i \in 1..Goal
                            /\ i \in 0..Goal
                            /\ i < Goal => i \in 1..Len(Steps) /\ i + 1 \in 1..Goal
<1> SUFFICES ASSUME TypeOK
             PROVE  /\ i \in Nat
                    /\ i \in 1..Goal
                    /\ i \in 0..Goal
                    /\ i < Goal => i \in 1..Len(Steps) /\ i + 1 \in 1..Goal
  OBVIOUS
<1>1. Len(Steps) \in Nat /\ Goal \in Nat
  BY RecipeShape
<1>2. i \in 1..Goal
  BY Zenon DEF TypeOK
<1> QED
  BY <1>1, <1>2 DEF Goal

(* An event of the current step is one of the log's.                       *)
LEMMA EventType ==
  ASSUME TypeOK, NEW c \in {"slow_load", "interstitial"}, NEW name \in Names \cup {""},
         NEW n \in Nat
  PROVE  Event(c, name, n) \in RecoveredEvent
<1>1. i \in Nat
  BY Zenon, Position
<1> QED
  BY <1>1 DEF Event, RecoveredEvent

(* The log with the slow load it may gain is a log.                        *)
LEMMA SettledLogType == TypeOK => SettledLog \in Seq(RecoveredEvent)
<1> SUFFICES ASSUME TypeOK PROVE SettledLog \in Seq(RecoveredEvent)
  OBVIOUS
<1>1. attempts \in Nat
  BY BoundsAssumption DEF TypeOK
<1>2. Event("slow_load", "", attempts) \in RecoveredEvent
  BY <1>1, EventType
<1>3. recovered \in Seq(RecoveredEvent)
  BY DEF TypeOK
<1>4. Append(recovered, Event("slow_load", "", attempts)) \in Seq(RecoveredEvent)
  BY <1>2, <1>3, AppendType
<1> QED
  BY <1>3, <1>4 DEF SettledLog

(* Returning keeps the log and the result within their types.              *)
LEMMA ReturnType ==
  ASSUME TypeOK, NEW status \in Status, NEW about \in About, NEW outputs \in Outputs,
         NEW log \in Seq(RecoveredEvent), Return(status, about, outputs, log)
  PROVE  /\ pc' = "done"
         /\ recovered' \in Seq(RecoveredEvent)
         /\ result' \in [status : Status, step : 0..Goal, about : About,
                         outputs : Outputs, recovered : Seq(RecoveredEvent)]
         /\ result'.step >= 1
<1>1. i \in 0..Goal /\ i >= 1
  BY Position
<1> QED
  BY <1>1 DEF Return

(* A call that fails or pauses keeps log, result and handoffs in type.     *)
LEMMA FailType ==
  ASSUME TypeOK, NEW expected \in About, NEW log \in Seq(RecoveredEvent),
         Fail(expected, log)
  PROVE  /\ pc' = "done"
         /\ recovered' \in Seq(RecoveredEvent)
         /\ result' \in [status : Status, step : 0..Goal, about : About,
                         outputs : Outputs, recovered : Seq(RecoveredEvent)]
         /\ result'.step >= 1
         /\ raised' \in Seq(1..Goal)
<1>1. (IF resumable THEN "paused" ELSE "failure") \in Status
  BY DEF Status
<1>2. <<>> \in Outputs
  BY DEF Outputs
<1>3. raised' \in Seq(1..Goal)
  <2>1. raised \in Seq(1..Goal) /\ i \in 1..Goal
    BY Zenon DEF TypeOK
  <2>2. Append(raised, i) \in Seq(1..Goal)
    BY <2>1, AppendType
  <2>3. raised' = Append(raised, i) \/ raised' = raised
    BY Zenon DEF Fail
  <2> QED
    BY <2>1, <2>2, <2>3
<1>4. Return(IF resumable THEN "paused" ELSE "failure", expected, <<>>, log)
  BY DEF Fail
<1> QED
  BY <1>1, <1>2, <1>3, <1>4, ReturnType

(* A fresh run is in type.                                                 *)
LEMMA TypeInit == Init => TypeInv
<1> SUFFICES ASSUME Init PROVE TypeInv
  OBVIOUS
<1>1. task \in [artifact : Artifacts, allowed : Allowlists, on_stuck : BOOLEAN]
  BY DEF Init
<1>2. Artifact \in CapabilityArtifact
  BY <1>1, ArtifactsAssumption DEF Artifact
<1>3. Len(Steps) \in Nat
  BY <1>2 DEF CapabilityArtifact, Steps
<1>4. Goal \in Nat /\ Goal >= 1
  BY <1>3 DEF Goal
<1>5. Running \in [status : Status, step : 0..Goal, about : About, outputs : Outputs,
                   recovered : Seq(RecoveredEvent)]
  <2>1. "running" \in Status /\ "" \in About /\ <<>> \in Outputs
    BY DEF Status, About, Outputs
  <2>2. <<>> \in Seq(RecoveredEvent)
    OBVIOUS
  <2>3. 0 \in 0..Goal
    BY <1>4
  <2> QED
    BY <2>1, <2>2, <2>3 DEF Running
<1>6. acted \in [1..Len(Steps) -> Nat]
  BY DEF Init, Steps, Artifact
<1>7. /\ start \in 0..Goal
      /\ i \in 1..Goal
      /\ dismissals \in 0..MAX_INTERSTITIAL_DISMISSALS
      /\ attempts \in 0..MAX_SLOW_RETRIES
      /\ resumes \in 0..MaxResumes
  BY <1>4, BoundsAssumption DEF Init
<1>8. recovered \in Seq(RecoveredEvent) /\ raised \in Seq(1..Goal)
  BY DEF Init
<1>9. TypeOK
  BY <1>1, <1>5, <1>6, <1>7, <1>8 DEF Init, TypeOK
<1> QED
  BY <1>9 DEF Init, TypeInv, Running

(* The type of the next state, given that the task does not change: the    *)
(* sets below are those of the present state.                              *)
LEMMA TypeFrame ==
  ASSUME TypeOK,
         task' = task,
         resumable' \in BOOLEAN,
         start' \in 0..Goal,
         pc' \in {"step", "perceive", "dismiss", "dismissed", "await", "waited", "done"},
         i' \in 1..Goal,
         obs' \in Observations \cup {NoObservation},
         dismissals' \in 0..MAX_INTERSTITIAL_DISMISSALS,
         attempts' \in 0..MAX_SLOW_RETRIES,
         recovered' \in Seq(RecoveredEvent),
         result' \in [status : Status, step : 0..Goal, about : About, outputs : Outputs,
                      recovered : Seq(RecoveredEvent)],
         raised' \in Seq(1..Goal),
         acted' \in [1..Len(Steps) -> Nat],
         resumes' \in 0..MaxResumes
  PROVE  TypeOK'
<1>1. Steps' = Steps /\ Goal' = Goal
  BY DEF Steps, Artifact, Goal
<1>2. task' \in [artifact : Artifacts, allowed : Allowlists, on_stuck : BOOLEAN]
  BY Zenon DEF TypeOK
<1> QED
  BY <1>1, <1>2, Zenon DEF TypeOK

(* The same for a step that leaves the call, the position and the history  *)
(* of the run alone.                                                       *)
LEMMA TypeLocal ==
  ASSUME TypeOK,
         UNCHANGED <<call, i, recovered, result, raised, acted, resumes>>,
         pc' \in {"step", "perceive", "dismiss", "dismissed", "await", "waited", "done"},
         obs' \in Observations \cup {NoObservation},
         dismissals' \in 0..MAX_INTERSTITIAL_DISMISSALS,
         attempts' \in 0..MAX_SLOW_RETRIES
  PROVE  TypeOK'
<1>1. /\ task' = task /\ resumable' = resumable /\ start' = start /\ i' = i
      /\ recovered' = recovered /\ result' = result /\ raised' = raised
      /\ acted' = acted /\ resumes' = resumes
  BY DEF call
<1>2. /\ resumable' \in BOOLEAN
      /\ start' \in 0..Goal
      /\ i' \in 1..Goal
      /\ recovered' \in Seq(RecoveredEvent)
      /\ result' \in [status : Status, step : 0..Goal, about : About, outputs : Outputs,
                      recovered : Seq(RecoveredEvent)]
      /\ raised' \in Seq(1..Goal)
      /\ acted' \in [1..Len(Steps) -> Nat]
      /\ resumes' \in 0..MaxResumes
  BY <1>1, Zenon DEF TypeOK
<1> QED
  BY <1>1, <1>2, TypeFrame, Zenon

(* The same for a call that returns.                                       *)
LEMMA TypeReturn ==
  ASSUME TypeOK,
         UNCHANGED <<call, i, acted, resumes>>,
         pc' = "done",
         obs' \in Observations \cup {NoObservation},
         dismissals' \in 0..MAX_INTERSTITIAL_DISMISSALS,
         attempts' \in 0..MAX_SLOW_RETRIES,
         recovered' \in Seq(RecoveredEvent),
         result' \in [status : Status, step : 0..Goal, about : About, outputs : Outputs,
                      recovered : Seq(RecoveredEvent)],
         result'.step >= 1,
         raised' \in Seq(1..Goal)
  PROVE  TypeInv'
<1>1. /\ task' = task /\ resumable' = resumable /\ start' = start /\ i' = i
      /\ acted' = acted /\ resumes' = resumes
  BY DEF call
<1>2. /\ resumable' \in BOOLEAN
      /\ start' \in 0..Goal
      /\ i' \in 1..Goal
      /\ acted' \in [1..Len(Steps) -> Nat]
      /\ resumes' \in 0..MaxResumes
  BY <1>1, Zenon DEF TypeOK
<1>3. pc' \in {"step", "perceive", "dismiss", "dismissed", "await", "waited", "done"}
  OBVIOUS
<1>4. TypeOK'
  BY <1>1, <1>2, <1>3, TypeFrame, Zenon
<1> QED
  BY <1>4 DEF TypeInv

(* Every step of the engine, and a resume, keeps the types.                *)
LEMMA TypeStep == TypeInv /\ [Next]_vars => TypeInv'
<1> SUFFICES ASSUME TypeInv, [Next]_vars
             PROVE  TypeInv'
  OBVIOUS
<1>1. TypeOK
  BY DEF TypeInv
<1>2. /\ obs \in Observations \cup {NoObservation}
      /\ dismissals \in 0..MAX_INTERSTITIAL_DISMISSALS
      /\ attempts \in 0..MAX_SLOW_RETRIES
      /\ recovered \in Seq(RecoveredEvent)
      /\ result \in [status : Status, step : 0..Goal, about : About, outputs : Outputs,
                     recovered : Seq(RecoveredEvent)]
      /\ raised \in Seq(1..Goal)
      /\ acted \in [1..Len(Steps) -> Nat]
      /\ resumes \in 0..MaxResumes
      /\ resumable \in BOOLEAN
      /\ start \in 0..Goal
      /\ task \in [artifact : Artifacts, allowed : Allowlists, on_stuck : BOOLEAN]
  BY <1>1, Zenon DEF TypeOK
<1>3. 0 \in 0..MAX_INTERSTITIAL_DISMISSALS /\ 0 \in 0..MAX_SLOW_RETRIES
  BY BoundsAssumption
<1>4. /\ "allowed action" \in About /\ "checkpoint" \in About
      /\ "outputs present" \in About /\ "" \in About
  BY DEF About
<1>5. result.status = "paused" => result.step >= 1
  BY DEF TypeInv
<1>6. CASE Act
  <2>1. i \in 1..Len(Steps)
    BY <1>1, <1>6, Position DEF Act
  <2>2. acted[i] + 1 \in Nat
    BY <1>2, <2>1
  <2>3. acted' \in [1..Len(Steps) -> Nat]
    BY <1>2, <1>6, <2>1, <2>2 DEF Act
  <2>4. /\ task' = task /\ resumable' = resumable /\ start' = start /\ i' = i
        /\ obs' = obs /\ dismissals' = dismissals /\ attempts' = attempts
        /\ recovered' = recovered /\ result' = result /\ raised' = raised
        /\ resumes' = resumes /\ pc' = "perceive"
    BY <1>6 DEF Act, call
  <2>5. i' \in 1..Goal
    BY <1>1, <2>4, Position
  <2>6. pc' \in {"step", "perceive", "dismiss", "dismissed", "await", "waited", "done"}
    BY <2>4
  <2>7. TypeOK'
    BY <1>1, <1>2, <2>3, <2>4, <2>5, <2>6, TypeFrame, Zenon
  <2> QED
    BY <1>5, <2>4, <2>7 DEF TypeInv
<1>7. ASSUME NEW o \in Observations,
             \/ Perceive(o)
             \/ TrustPaused(o)
             \/ FinalLook(o)
      PROVE  TypeInv'
  <2>1. /\ UNCHANGED <<call, i, recovered, result, raised, acted, resumes>>
        /\ pc' \in {"dismiss", "await"}
        /\ obs' = o
        /\ dismissals' = dismissals \/ dismissals' = 0
        /\ attempts' = attempts \/ attempts' = 0
    BY <1>7 DEF Perceive, TrustPaused, FinalLook
  <2>2. pc' \in {"step", "perceive", "dismiss", "dismissed", "await", "waited", "done"}
    BY <2>1
  <2>3. /\ dismissals' \in 0..MAX_INTERSTITIAL_DISMISSALS
        /\ attempts' \in 0..MAX_SLOW_RETRIES
        /\ obs' \in Observations \cup {NoObservation}
    BY <1>2, <1>3, <2>1
  <2>4. TypeOK'
    BY <1>1, <2>1, <2>2, <2>3, TypeLocal, Zenon
  <2> QED
    BY <1>5, <2>1, <2>4 DEF TypeInv
<1>8. ASSUME NEW o \in Observations, Deny(o)
      PROVE  TypeInv'
  <2>1. /\ UNCHANGED <<call, i, acted, resumes>>
        /\ obs' = o /\ dismissals' = dismissals /\ attempts' = attempts
        /\ Fail("allowed action", recovered)
    BY <1>8 DEF Deny
  <2> QED
    BY <1>1, <1>2, <1>4, <2>1, FailType, TypeReturn
<1>9. CASE Dismiss
  <2>1. /\ UNCHANGED <<call, i, recovered, result, raised, acted, resumes>>
        /\ pc' = "dismissed" /\ obs' = obs /\ dismissals' = dismissals /\ attempts' = attempts
        /\ dismissals < MAX_INTERSTITIAL_DISMISSALS
    BY <1>9 DEF Dismiss, Overlay
  <2>2. TypeOK'
    BY <1>1, <1>2, <2>1, TypeLocal
  <2> QED
    BY <1>5, <2>1, <2>2 DEF TypeInv
<1>10. ASSUME NEW o \in Observations, AfterDismiss(o)
       PROVE  TypeInv'
  <2>1. PICK k \in DOMAIN Artifact.known_interstitials :
          recovered' = Append(recovered,
                              Event("interstitial", Artifact.known_interstitials[k].name,
                                    dismissals + 1))
    BY <1>10 DEF AfterDismiss
  <2>2. dismissals + 1 \in Nat /\ dismissals + 1 \in 0..MAX_INTERSTITIAL_DISMISSALS
    BY <1>2, <1>10, BoundsAssumption DEF AfterDismiss, TypeInv
  <2>3. Artifact.known_interstitials[k].name \in Names \cup {""}
    BY <1>1, RecipeShape
  <2>4. recovered' \in Seq(RecoveredEvent)
    BY <1>1, <1>2, <2>1, <2>2, <2>3, EventType, AppendType
  <2>5. /\ task' = task /\ resumable' = resumable /\ start' = start /\ i' = i
        /\ obs' = o /\ dismissals' = dismissals + 1 /\ attempts' = attempts
        /\ result' = result /\ raised' = raised /\ acted' = acted
        /\ resumes' = resumes /\ pc' = "dismiss"
    BY <1>10 DEF AfterDismiss, call
  <2>6. /\ i' \in 1..Goal
        /\ pc' \in {"step", "perceive", "dismiss", "dismissed", "await", "waited", "done"}
        /\ dismissals' \in 0..MAX_INTERSTITIAL_DISMISSALS
        /\ obs' \in Observations \cup {NoObservation}
    BY <1>1, <2>2, <2>5, Position
  <2>7. TypeOK'
    BY <1>1, <1>2, <2>4, <2>5, <2>6, TypeFrame, Zenon
  <2> QED
    BY <1>5, <2>5, <2>7 DEF TypeInv
<1>11. CASE BusinessOutcome
  <2>1. PICK k \in DOMAIN Artifact.known_outcomes :
          Return("business_outcome", Artifact.known_outcomes[k].name, <<>>, recovered)
    BY <1>11 DEF BusinessOutcome
  <2>2. Artifact.known_outcomes[k].name \in About
    BY <1>1, RecipeShape DEF About
  <2>3. "business_outcome" \in Status /\ <<>> \in Outputs
    BY DEF Status, Outputs
  <2>4. /\ UNCHANGED <<call, i, acted, resumes>>
        /\ obs' = obs /\ dismissals' = 0 /\ attempts' = attempts /\ raised' = raised
    BY <1>11 DEF BusinessOutcome
  <2> QED
    BY <1>1, <1>2, <1>3, <2>1, <2>2, <2>3, <2>4, ReturnType, TypeReturn
<1>12. CASE NoOutcome
  <2>1. /\ UNCHANGED <<call, i, recovered, result, raised, acted, resumes>>
        /\ pc' = "await" /\ obs' = obs /\ dismissals' = 0 /\ attempts' = 0
    BY <1>12 DEF NoOutcome
  <2>2. TypeOK'
    BY <1>1, <1>2, <1>3, <2>1, TypeLocal
  <2> QED
    BY <1>5, <2>1, <2>2 DEF TypeInv
<1>13. CASE Retry
  <2>1. /\ UNCHANGED <<call, i, recovered, result, raised, acted, resumes>>
        /\ pc' = "waited" /\ obs' = obs /\ dismissals' = dismissals /\ attempts' = attempts
        /\ attempts < MAX_SLOW_RETRIES
    BY <1>13 DEF Retry
  <2>2. TypeOK'
    BY <1>1, <1>2, <2>1, TypeLocal
  <2> QED
    BY <1>5, <2>1, <2>2 DEF TypeInv
<1>14. ASSUME NEW o \in Observations, AfterWait(o)
       PROVE  TypeInv'
  <2>1. /\ UNCHANGED <<call, i, recovered, result, raised, acted, resumes>>
        /\ pc' = "await" /\ obs' = o /\ dismissals' = dismissals /\ attempts' = attempts + 1
        /\ attempts < MAX_SLOW_RETRIES
    BY <1>14 DEF AfterWait, TypeInv
  <2>2. attempts' \in 0..MAX_SLOW_RETRIES
    BY <1>2, <2>1, BoundsAssumption
  <2>3. TypeOK'
    BY <1>1, <1>2, <2>1, <2>2, TypeLocal
  <2> QED
    BY <1>5, <2>1, <2>3 DEF TypeInv
<1>15. CASE GiveUp
  <2>1. /\ UNCHANGED <<call, i, acted, resumes>>
        /\ obs' = obs /\ dismissals' = dismissals /\ attempts' = 0
        /\ Fail("checkpoint", recovered)
    BY <1>15 DEF GiveUp
  <2> QED
    BY <1>1, <1>2, <1>3, <1>4, <2>1, FailType, TypeReturn
<1>16. CASE StepDone
  <2>1. /\ task' = task /\ resumable' = resumable /\ start' = start /\ i' = i + 1
        /\ obs' = obs /\ dismissals' = dismissals /\ attempts' = 0
        /\ recovered' = SettledLog /\ result' = result /\ raised' = raised
        /\ acted' = acted /\ resumes' = resumes /\ pc' = "step" /\ i < Goal
    BY <1>16 DEF StepDone, call
  <2>2. recovered' \in Seq(RecoveredEvent)
    BY <1>1, <2>1, SettledLogType
  <2>3. /\ i' \in 1..Goal
        /\ pc' \in {"step", "perceive", "dismiss", "dismissed", "await", "waited", "done"}
    BY <1>1, <2>1, Position
  <2>4. TypeOK'
    BY <1>1, <1>2, <1>3, <2>1, <2>2, <2>3, TypeFrame, Zenon
  <2> QED
    BY <1>5, <2>1, <2>4 DEF TypeInv
<1>17. CASE Succeed
  <2>1. /\ UNCHANGED <<call, i, acted, resumes>>
        /\ obs' = obs /\ dismissals' = dismissals /\ attempts' = 0 /\ raised' = raised
        /\ Return("success", "", OutputsOf(Artifact, obs), SettledLog)
    BY <1>17 DEF Succeed
  <2>2. OutputsOf(Artifact, obs) \in Outputs
    <3>1. Artifact \in Artifacts
      BY <1>1, RecipeShape
    <3> QED
      BY <1>2, <3>1 DEF Outputs
  <2>3. "success" \in Status /\ SettledLog \in Seq(RecoveredEvent)
    BY <1>1, SettledLogType DEF Status
  <2> QED
    BY <1>1, <1>2, <1>3, <1>4, <2>1, <2>2, <2>3, ReturnType, TypeReturn
<1>18. CASE OutputsMissing
  <2>1. /\ UNCHANGED <<call, i, acted, resumes>>
        /\ obs' = obs /\ dismissals' = dismissals /\ attempts' = 0
        /\ Fail("outputs present", SettledLog)
    BY <1>18 DEF OutputsMissing
  <2>2. SettledLog \in Seq(RecoveredEvent)
    BY <1>1, SettledLogType
  <2> QED
    BY <1>1, <1>2, <1>3, <1>4, <2>1, <2>2, FailType, TypeReturn
<1>19. CASE DriverRaises
  <2>1. /\ UNCHANGED <<call, i, acted, resumes>>
        /\ pc' = "done" /\ obs' = obs /\ dismissals' = dismissals /\ attempts' = attempts
        /\ recovered' = recovered /\ raised' = raised
        /\ result' = [status |-> "raised", step |-> i, about |-> "", outputs |-> <<>>,
                      recovered |-> <<>>]
    BY <1>19 DEF DriverRaises, Running
  <2>2. "raised" \in Status /\ <<>> \in Outputs
    BY DEF Status, Outputs
  <2>3. i \in 0..Goal /\ i >= 1
    BY <1>1, Position
  <2>4. <<>> \in Seq(RecoveredEvent)
    OBVIOUS
  <2>5. /\ result' \in [status : Status, step : 0..Goal, about : About, outputs : Outputs,
                        recovered : Seq(RecoveredEvent)]
        /\ result'.step >= 1
    BY <1>4, <2>1, <2>2, <2>3, <2>4
  <2> QED
    BY <1>1, <1>2, <2>1, <2>5, TypeReturn
<1>20. CASE Resume
  <2>1. /\ task' = task /\ start' = result.step /\ i' = result.step
        /\ recovered' = result.recovered /\ resumable' \in BOOLEAN /\ pc' = "step"
        /\ result' = Running /\ obs' = NoObservation /\ resumes' = resumes + 1
        /\ dismissals' = dismissals /\ attempts' = attempts /\ raised' = raised
        /\ acted' = acted /\ result.status = "paused" /\ resumes < MaxResumes
    BY <1>20 DEF Resume
  <2>2. Goal \in Nat
    BY <1>1, RecipeShape
  <2>3. result.step \in 0..Goal /\ result.recovered \in Seq(RecoveredEvent)
    BY <1>2
  <2>4. /\ start' \in 0..Goal
        /\ i' \in 1..Goal
        /\ recovered' \in Seq(RecoveredEvent)
        /\ resumes' \in 0..MaxResumes
    BY <1>2, <1>5, <2>1, <2>2, <2>3, BoundsAssumption
  <2>5. result' \in [status : Status, step : 0..Goal, about : About, outputs : Outputs,
                     recovered : Seq(RecoveredEvent)]
    <3>1. "running" \in Status /\ <<>> \in Outputs
      BY DEF Status, Outputs
    <3>2. 0 \in 0..Goal /\ <<>> \in Seq(RecoveredEvent)
      BY <2>2
    <3> QED
      BY <1>4, <2>1, <3>1, <3>2 DEF Running
  <2>6. /\ pc' \in {"step", "perceive", "dismiss", "dismissed", "await", "waited", "done"}
        /\ obs' \in Observations \cup {NoObservation}
    BY <2>1
  <2>7. TypeOK'
    BY <1>1, <1>2, <2>1, <2>4, <2>5, <2>6, TypeFrame, Zenon
  <2> QED
    BY <2>1, <2>7 DEF TypeInv, Running
<1>21. CASE UNCHANGED vars
  BY <1>21 DEF vars, TypeInv, TypeOK, Steps, Goal, Artifact
<1> QED
  BY <1>6, <1>7, <1>8, <1>9, <1>10, <1>11, <1>12, <1>13, <1>14, <1>15, <1>16, <1>17,
     <1>18, <1>19, <1>20, <1>21 DEF Next, EngineStep

(* In every reachable state the variables are of their types and the loop  *)
(* counters within MAX_SLOW_RETRIES and MAX_INTERSTITIAL_DISMISSALS.       *)
THEOREM TypeInvariant == Spec => []TypeInv
<1> QED
  BY TypeInit, TypeStep, PTL DEF Spec

(* Every variable of the engine is of its type in every reachable state.   *)
THEOREM TypeCorrect == Spec => []TypeOK
<1>1. TypeInv => TypeOK
  BY DEF TypeInv
<1> QED
  BY <1>1, TypeInvariant, PTL

-----------------------------------------------------------------------------
(* Where a call stands: it never is before the step it was resumed at, a   *)
(* resumed call knows that it is one, it is done exactly when it has a     *)
(* result, and a ResumeState holds the engine's own position and log.      *)

Phase ==
  /\ start <= i
  /\ start = 0 <=> resumes = 0
  /\ pc = "done" <=> result.status # "running"
  /\ Stuck => result.step = i
  /\ result.status = "paused" => result.recovered = recovered

(* What the result of a call says while it runs.                           *)
LEMMA RunningStatus == Running.status = "running"
  BY DEF Running

(* A fresh run is in phase.                                                *)
LEMMA PhaseInit == Init => Phase
<1> SUFFICES ASSUME Init PROVE Phase
  OBVIOUS
<1>1. result.status = "running" /\ pc # "done"
  BY RunningStatus DEF Init
<1>2. start = 0 /\ resumes = 0 /\ start <= i
  BY DEF Init
<1> QED
  BY <1>1, <1>2 DEF Phase, Stuck

(* A step inside a call that changes neither position nor result.          *)
LEMMA PhaseLocal ==
  ASSUME Phase, pc # "done", pc' # "done", UNCHANGED <<start, i, result, resumes>>
  PROVE  Phase'
  BY DEF Phase, Stuck

(* A return from where a call is running.                                  *)
LEMMA PhaseReturn ==
  ASSUME Phase, UNCHANGED <<start, i, resumes>>,
         NEW status \in Status \ {"running"}, NEW about, NEW outputs, NEW log,
         Return(status, about, outputs, log)
  PROVE  Phase'
  BY DEF Phase, Stuck, Return, Status

(* A call that fails or pauses stays in phase.                             *)
LEMMA PhaseFail ==
  ASSUME Phase, UNCHANGED <<start, i, resumes>>, NEW expected, NEW log, Fail(expected, log)
  PROVE  Phase'
<1>1. (IF resumable THEN "paused" ELSE "failure") \in Status \ {"running"}
  BY DEF Status
<1>2. Return(IF resumable THEN "paused" ELSE "failure", expected, <<>>, log)
  BY DEF Fail
<1> QED
  BY <1>1, <1>2, PhaseReturn

(* Every step of the engine, and a resume, keeps the phases.               *)
LEMMA PhaseStep == TypeInv /\ Phase /\ [Next]_vars => Phase'
<1> SUFFICES ASSUME TypeInv, Phase, [Next]_vars
             PROVE  Phase'
  OBVIOUS
<1>1. i \in Nat /\ start \in Nat /\ resumes \in Nat /\ i >= 1
  <2>1. TypeOK
    BY DEF TypeInv
  <2>2. Goal \in Nat
    BY <2>1, RecipeShape
  <2>3. start \in 0..Goal /\ resumes \in 0..MaxResumes
    BY <2>1, Zenon DEF TypeOK
  <2> QED
    BY <2>1, <2>2, <2>3, Position, BoundsAssumption
<1>2. CASE Act
  BY <1>2, PhaseLocal DEF Act, call
<1>3. ASSUME NEW o, Perceive(o) \/ TrustPaused(o) \/ FinalLook(o) \/ AfterWait(o)
      PROVE  Phase'
  BY <1>3, PhaseLocal DEF Perceive, TrustPaused, FinalLook, AfterWait, call
<1>4. ASSUME NEW o, Deny(o)
      PROVE  Phase'
  BY <1>4, PhaseFail DEF Deny, call
<1>5. CASE Dismiss \/ NoOutcome \/ Retry
  BY <1>5, PhaseLocal DEF Dismiss, NoOutcome, Retry, call
<1>6. ASSUME NEW o, AfterDismiss(o)
      PROVE  Phase'
  BY <1>6 DEF AfterDismiss, call, Phase, Stuck
<1>7. CASE BusinessOutcome
  <2>1. PICK k \in DOMAIN Artifact.known_outcomes :
          Return("business_outcome", Artifact.known_outcomes[k].name, <<>>, recovered)
    BY <1>7 DEF BusinessOutcome
  <2>2. UNCHANGED <<start, i, resumes>>
    BY <1>7 DEF BusinessOutcome, call
  <2>3. "business_outcome" \in Status \ {"running"}
    BY DEF Status
  <2> QED
    BY <2>1, <2>2, <2>3, PhaseReturn
<1>8. CASE GiveUp
  BY <1>8, PhaseFail DEF GiveUp, call
<1>9. CASE StepDone
  <2>1. UNCHANGED <<start, result, resumes>> /\ i' = i + 1 /\ pc = "await" /\ pc' = "step"
    BY <1>9 DEF StepDone, call
  <2> QED
    BY <1>1, <2>1 DEF Phase, Stuck
<1>10. CASE Succeed
  <2>1. "success" \in Status \ {"running"}
    BY DEF Status
  <2> QED
    BY <1>10, <2>1, PhaseReturn DEF Succeed, call
<1>11. CASE OutputsMissing
  BY <1>11, PhaseFail DEF OutputsMissing, call
<1>12. CASE DriverRaises
  BY <1>12 DEF DriverRaises, call, Phase, Stuck, Running
<1>13. CASE Resume
  <2>1. /\ result.status = "paused" /\ start' = result.step /\ i' = result.step
        /\ pc' = "step" /\ result' = Running /\ resumes' = resumes + 1
    BY <1>13 DEF Resume
  <2>2. result.step = i
    BY <2>1 DEF Phase, Stuck
  <2>3. result'.status = "running" /\ pc' # "done"
    BY <2>1, RunningStatus
  <2>4. start' <= i' /\ start' # 0 /\ resumes' # 0
    BY <1>1, <2>1, <2>2
  <2> QED
    BY <2>3, <2>4 DEF Phase, Stuck
<1>14. CASE UNCHANGED vars
  BY <1>14 DEF vars, Phase, Stuck
<1> QED
  BY <1>2, <1>3, <1>4, <1>5, <1>6, <1>7, <1>8, <1>9, <1>10, <1>11, <1>12, <1>13, <1>14
     DEF Next, EngineStep

(* Position, result and ResumeState agree in every reachable state.         *)
THEOREM PhaseInvariant == Spec => []Phase
<1> QED
  BY PhaseInit, PhaseStep, TypeInvariant, PTL DEF Spec

-----------------------------------------------------------------------------
(* Which actions were issued.  AtMostOnceUnsafe and NoStepSkipped speak of *)
(* the steps the engine left behind; to carry them over StepDone and over  *)
(* a pause, the invariant says what is known of the current step in each   *)
(* phase: nothing was issued for it when it is entered, it was issued once *)
(* the engine looks at its effect, and a paused step was issued unless the *)
(* gate denied it.                                                         *)

Covered(k) == acted[k] >= 1 \/ (resumes > 0 /\ ~Permitted(k) /\ ~Steps[k].retry_safe)

Issued ==
  /\ \A k \in DOMAIN Steps : k > i => acted[k] = 0
  /\ pc = "step" /\ i < Goal /\ start # i => acted[i] = 0
  /\ pc \in {"perceive", "dismiss", "dismissed", "await", "waited"} /\ i < Goal => Covered(i)
  /\ result.status = "paused" /\ i < Goal => acted[i] >= 1 \/ ~Permitted(i)
  /\ pc = "step" /\ start = i /\ i < Goal => acted[i] >= 1 \/ ~Permitted(i)
  /\ \A k \in 1..(i - 1) : Covered(k)
  /\ AtMostOnceUnsafe

(* A step that issues nothing and stays where it is.                       *)
LEMMA IssuedLocal ==
  ASSUME Issued, UNCHANGED <<call, i, acted, resumes>>,
         pc' # "step",
         pc' \in {"perceive", "dismiss", "dismissed", "await", "waited"} /\ i < Goal
           => Covered(i),
         result'.status = "paused" /\ i < Goal => acted[i] >= 1 \/ ~Permitted(i)
  PROVE  Issued'
<1>1. /\ task' = task /\ start' = start /\ i' = i /\ acted' = acted /\ resumes' = resumes
  BY DEF call
<1>2. Steps' = Steps /\ Goal' = Goal
  BY <1>1 DEF Steps, Artifact, Goal
<1>3. \A k : Permitted(k)' = Permitted(k) /\ Covered(k)' = Covered(k)
  BY <1>1, <1>2 DEF Permitted, Covered
<1>4. AtMostOnceUnsafe'
  BY <1>1, <1>2 DEF Issued, AtMostOnceUnsafe
<1> QED
  BY <1>1, <1>2, <1>3, <1>4 DEF Issued

(* Nothing is issued before a run starts.                                  *)
LEMMA IssuedInit == Init => Issued
<1> SUFFICES ASSUME Init PROVE Issued
  OBVIOUS
<1>1. TypeOK
  BY TypeInit DEF TypeInv
<1>2. DOMAIN Steps = 1..Len(Steps) /\ Len(Steps) \in Nat /\ Goal = Len(Steps) + 1
  BY <1>1, RecipeShape DEF Goal
<1>3. \A k \in 1..Len(Steps) : acted[k] = 0
  BY DEF Init, Steps, Artifact
<1>4. i = 1 /\ start = 0 /\ pc = "step" /\ result.status = "running"
  BY RunningStatus DEF Init
<1> QED
  BY <1>2, <1>3, <1>4 DEF Issued, AtMostOnceUnsafe

(* Every step of the engine, and a resume, keeps the count of actions.     *)
LEMMA IssuedStep == TypeInv /\ Phase /\ Issued /\ [Next]_vars => Issued'
<1> SUFFICES ASSUME TypeInv, Phase, Issued, [Next]_vars
             PROVE  Issued'
  OBVIOUS
<1>1. TypeOK
  BY DEF TypeInv
<1>2. /\ DOMAIN Steps = 1..Len(Steps) /\ Len(Steps) \in Nat /\ Goal = Len(Steps) + 1
      /\ i \in 1..Goal
      /\ acted \in [1..Len(Steps) -> Nat]
  <2>1. acted \in [1..Len(Steps) -> Nat]
    BY <1>1, Zenon DEF TypeOK
  <2> QED
    BY <1>1, <2>1, RecipeShape, Position DEF Goal
<1>3. start \in Nat /\ resumes \in Nat
  <2>1. start \in 0..Goal /\ resumes \in 0..MaxResumes
    BY <1>1, Zenon DEF TypeOK
  <2> QED
    BY <1>2, <2>1, BoundsAssumption
<1>4. CASE Act
  <2>1. /\ task' = task /\ start' = start /\ i' = i /\ resumes' = resumes
        /\ result' = result /\ pc = "step" /\ pc' = "perceive" /\ i < Goal
        /\ acted' = [acted EXCEPT ![i] = @ + 1]
        /\ ~Trusted
    BY <1>4 DEF Act, call
  <2>2. Steps' = Steps /\ Goal' = Goal
    BY <2>1 DEF Steps, Artifact, Goal
  <2>3. i \in 1..Len(Steps)
    BY <1>2, <2>1
  <2>4. /\ acted'[i] = acted[i] + 1
        /\ \A k \in 1..Len(Steps) : k # i => acted'[k] = acted[k]
    BY <1>2, <2>1, <2>3
  <2>5. result.status # "paused"
    BY <2>1 DEF Phase
  <2>6. ~Steps[i].retry_safe => acted[i] = 0
    BY <2>1 DEF Trusted, Issued
  <2>7. AtMostOnceUnsafe'
    BY <1>2, <2>2, <2>4, <2>6 DEF Issued, AtMostOnceUnsafe
  <2>8. \A k \in 1..Len(Steps) : Covered(k) => Covered(k)'
    BY <1>2, <2>1, <2>2, <2>4 DEF Covered, Permitted
  <2>9. Covered(i)'
    BY <1>2, <2>1, <2>3, <2>4 DEF Covered
  <2>10. \A k \in 1..(i' - 1) : Covered(k)'
    BY <1>2, <2>1, <2>8 DEF Issued
  <2>11. \A k \in DOMAIN Steps' : k > i' => acted'[k] = 0
    BY <1>2, <2>1, <2>2, <2>4 DEF Issued
  <2> QED
    BY <2>1, <2>2, <2>5, <2>7, <2>9, <2>10, <2>11 DEF Issued
<1>5. ASSUME NEW o, Perceive(o) \/ AfterWait(o)
      PROVE  Issued'
  BY <1>5, IssuedLocal DEF Perceive, AfterWait, Issued, Phase
<1>6. ASSUME NEW o, TrustPaused(o)
      PROVE  Issued'
  <2>1. /\ UNCHANGED <<call, i, acted, resumes>>
        /\ result' = result /\ pc = "step" /\ pc' = "dismiss" /\ Trusted
    BY <1>6 DEF TrustPaused
  <2>2. start = i /\ i < Goal /\ ~Steps[i].retry_safe
    BY <2>1 DEF Trusted
  <2>3. resumes > 0
    BY <1>2, <1>3, <2>2 DEF Phase
  <2>4. Covered(i)
    BY <2>1, <2>2, <2>3 DEF Issued, Covered
  <2>5. result'.status # "paused"
    BY <2>1 DEF Phase
  <2> QED
    BY <2>1, <2>4, <2>5, IssuedLocal
<1>7. ASSUME NEW o, FinalLook(o)
      PROVE  Issued'
  BY <1>2, <1>7, IssuedLocal DEF FinalLook, Phase
<1>8. ASSUME NEW o, Deny(o)
      PROVE  Issued'
  <2>1. /\ UNCHANGED <<call, i, acted, resumes>>
        /\ pc' = "done" /\ ~Permitted(i)
    BY <1>8 DEF Deny, Fail, Return
  <2> QED
    BY <2>1, IssuedLocal
<1>9. CASE Dismiss \/ NoOutcome \/ Retry
  BY <1>9, IssuedLocal DEF Dismiss, NoOutcome, Retry, Issued, Phase
<1>10. ASSUME NEW o, AfterDismiss(o)
       PROVE  Issued'
  BY <1>10, IssuedLocal DEF AfterDismiss, Issued, Phase
<1>11. CASE BusinessOutcome
  BY <1>11, IssuedLocal DEF BusinessOutcome, Return
<1>12. CASE GiveUp
  <2>1. /\ UNCHANGED <<call, i, acted, resumes>>
        /\ pc = "await" /\ pc' = "done"
    BY <1>12 DEF GiveUp, Fail, Return
  <2>2. i < Goal => acted[i] >= 1 \/ ~Permitted(i)
    BY <2>1 DEF Issued, Covered
  <2> QED
    BY <2>1, <2>2, IssuedLocal
<1>13. CASE StepDone
  <2>1. /\ task' = task /\ start' = start /\ i' = i + 1 /\ resumes' = resumes
        /\ result' = result /\ acted' = acted
        /\ pc = "await" /\ pc' = "step" /\ i < Goal
    BY <1>13 DEF StepDone, call
  <2>2. Steps' = Steps /\ Goal' = Goal
    BY <2>1 DEF Steps, Artifact, Goal
  <2>3. \A k : Covered(k)' = Covered(k)
    BY <2>1, <2>2 DEF Covered, Permitted
  <2>4. Covered(i)
    BY <2>1 DEF Issued
  <2>5. \A k \in 1..(i' - 1) : Covered(k)'
    BY <1>2, <2>1, <2>3, <2>4 DEF Issued
  <2>6. result'.status # "paused"
    BY <2>1 DEF Phase
  <2>7. start' # i'
    BY <1>2, <1>3, <2>1 DEF Phase
  <2>8. \A k \in DOMAIN Steps : k > i => acted'[k] = 0
    BY <2>1 DEF Issued
  <2>9. AtMostOnceUnsafe'
    BY <2>1, <2>2 DEF Issued, AtMostOnceUnsafe
  <2>10. /\ \A k \in DOMAIN Steps' : k > i' => acted'[k] = 0
         /\ i' < Goal' => acted'[i'] = 0
    BY <1>2, <2>1, <2>2, <2>8
  <2> QED
    BY <2>1, <2>5, <2>6, <2>7, <2>9, <2>10 DEF Issued
<1>14. CASE Succeed
  BY <1>14, IssuedLocal DEF Succeed, Return
<1>15. CASE OutputsMissing
  <2>1. /\ UNCHANGED <<call, i, acted, resumes>>
        /\ i = Goal /\ pc' = "done"
    BY <1>15 DEF OutputsMissing, Fail, Return
  <2> QED
    BY <1>2, <2>1, IssuedLocal
<1>16. CASE DriverRaises
  BY <1>16, IssuedLocal DEF DriverRaises, Running
<1>17. CASE Resume
  <2>1. /\ task' = task /\ start' = result.step /\ i' = result.step
        /\ pc' = "step" /\ result' = Running /\ resumes' = resumes + 1
        /\ acted' = acted /\ result.status = "paused"
    BY <1>17 DEF Resume
  <2>2. i' = i /\ start' = i
    BY <2>1 DEF Phase, Stuck
  <2>3. Steps' = Steps /\ Goal' = Goal
    BY <2>1 DEF Steps, Artifact, Goal
  <2>4. \A k : Permitted(k)' = Permitted(k)
    BY <2>1, <2>3 DEF Permitted
  <2>5. \A k : Covered(k) => Covered(k)'
    BY <1>3, <2>1, <2>3, <2>4 DEF Covered
  <2>6. i < Goal => acted[i] >= 1 \/ ~Permitted(i)
    BY <2>1 DEF Issued
  <2>7. result'.status = "running"
    BY <2>1, RunningStatus
  <2>8. AtMostOnceUnsafe'
    BY <2>1, <2>3 DEF Issued, AtMostOnceUnsafe
  <2>9. \A k \in 1..(i' - 1) : Covered(k)'
    BY <2>2, <2>5 DEF Issued
  <2>10. \A k \in DOMAIN Steps' : k > i' => acted'[k] = 0
    BY <2>1, <2>2, <2>3 DEF Issued
  <2> QED
    BY <2>1, <2>2, <2>3, <2>4, <2>6, <2>7, <2>8, <2>9, <2>10 DEF Issued
<1>18. CASE UNCHANGED vars
  BY <1>18 DEF vars, Issued, Covered, Permitted, AtMostOnceUnsafe, Steps, Goal, Artifact
<1> QED
  BY <1>4, <1>5, <1>6, <1>7, <1>8, <1>9, <1>10, <1>11, <1>12, <1>13, <1>14, <1>15,
     <1>16, <1>17, <1>18 DEF Next, EngineStep

(* The count of actions is right in every reachable state.                 *)
LEMMA IssuedInvariant == Spec => []Issued
  BY IssuedInit, IssuedStep, TypeInvariant, PhaseInvariant, PTL DEF Spec

(* However often a run is paused and resumed, a step that is not           *)
(* retry_safe is issued to the bank at most once.                          *)
THEOREM UnsafeStepsIssuedOnce == Spec => []AtMostOnceUnsafe
<1>1. Issued => AtMostOnceUnsafe
  BY DEF Issued
<1> QED
  BY <1>1, IssuedInvariant, PTL

(* The engine never leaves a step behind that it did not issue, unless the *)
(* gate denied that step and a resume then trusted it.                     *)
THEOREM StepsAreIssued == Spec => []NoStepSkipped
<1>1. Issued => NoStepSkipped
  BY DEF Issued, NoStepSkipped, Covered
<1> QED
  BY <1>1, IssuedInvariant, PTL

-----------------------------------------------------------------------------
(* Handoffs.  The hook's calls are counted against the pauses of the run;  *)
(* that they name later and later steps holds because none of them names a *)
(* step the engine has not reached.                                        *)

Handoffs ==
  /\ HandoffAccounting
  /\ \A m \in DOMAIN raised : raised[m] <= i

(* No handoff is raised before a run starts.                               *)
LEMMA HandoffsInit == Init => Handoffs
<1> SUFFICES ASSUME Init PROVE Handoffs
  OBVIOUS
<1>1. result.status = "running" /\ raised = <<>> /\ resumes = 0
  BY RunningStatus DEF Init
<1>2. Len(raised) = 0 /\ DOMAIN raised = {}
  BY <1>1
<1>3. ~Stuck
  BY <1>1 DEF Stuck
<1> QED
  BY <1>1, <1>2, <1>3 DEF Handoffs, HandoffAccounting

(* A step that does not end the call in a stuck state.                     *)
LEMMA HandoffsLocal ==
  ASSUME TypeInv, Handoffs, UNCHANGED <<task, raised, resumes>>, ~Stuck, ~Stuck',
         i' \in Nat, i' >= i
  PROVE  Handoffs'
<1>1. TypeOK
  BY DEF TypeInv
<1>2. raised \in Seq(1..Goal) /\ Goal \in Nat /\ i \in Nat
  BY <1>1, RecipeShape, Position, Zenon DEF TypeOK
<1>3. HandoffAccounting'
  BY DEF Handoffs, HandoffAccounting
<1>4. \A m \in DOMAIN raised : raised[m] \in Nat /\ raised[m] <= i
  BY <1>2 DEF Handoffs
<1> QED
  BY <1>2, <1>3, <1>4 DEF Handoffs

(* A call that fails or pauses accounts for the handoff it raises.         *)
LEMMA HandoffsFail ==
  ASSUME TypeInv, Phase, Handoffs, pc # "done", UNCHANGED <<task, i, resumes>>,
         NEW expected, NEW log, Fail(expected, log)
  PROVE  Handoffs'
<1>1. TypeOK
  BY DEF TypeInv
<1>2. /\ i \in 1..Goal
      /\ raised \in Seq(1..Goal)
      /\ resumes \in 0..MaxResumes
      /\ task.on_stuck \in BOOLEAN
  BY <1>1, Zenon DEF TypeOK
<1>3. Goal \in Nat /\ resumes \in Nat
  BY <1>1, <1>2, RecipeShape, BoundsAssumption
<1>4. ~Stuck
  BY DEF Phase, Stuck
<1>5. /\ result'.status = (IF resumable THEN "paused" ELSE "failure")
      /\ result'.step = i
  BY DEF Fail, Return
<1>6. Stuck'
  BY <1>5 DEF Stuck
<1>7. CASE task.on_stuck
  <2>1. raised' = Append(raised, i)
    BY <1>7 DEF Fail
  <2>2. Len(raised) = resumes
    BY <1>4, <1>7, <1>3 DEF Handoffs, HandoffAccounting
  <2>3. /\ Len(raised') = resumes + 1
        /\ raised'[Len(raised')] = i
        /\ DOMAIN raised' = 1..(Len(raised) + 1)
        /\ \A m \in 1..Len(raised) : raised'[m] = raised[m]
    BY <1>2, <2>1, <2>2
  <2>4. \A m \in 1..Len(raised) : raised[m] \in Nat /\ raised[m] <= i
    BY <1>2, <1>3 DEF Handoffs
  <2>5. \A m, n \in 1..Len(raised) : m <= n => raised[m] <= raised[n]
    BY <1>2, <1>7 DEF Handoffs, HandoffAccounting
  <2>6. \A m \in DOMAIN raised' : raised'[m] <= i
    BY <1>2, <1>3, <2>2, <2>3, <2>4
  <2>7. \A m, n \in DOMAIN raised' : m <= n => raised'[m] <= raised'[n]
    <3> SUFFICES ASSUME NEW m \in DOMAIN raised', NEW n \in DOMAIN raised', m <= n
                 PROVE  raised'[m] <= raised'[n]
      OBVIOUS
    <3>1. CASE n = Len(raised) + 1
      BY <3>1, <1>3, <2>2, <2>3, <2>6
    <3>2. CASE n # Len(raised) + 1
      <4>1. m \in 1..Len(raised) /\ n \in 1..Len(raised)
        BY <1>3, <2>2, <2>3, <3>2
      <4> QED
        BY <2>3, <2>5, <4>1
    <3> QED
      BY <3>1, <3>2
  <2> QED
    BY <1>5, <1>6, <1>7, <2>3, <2>6, <2>7 DEF Handoffs, HandoffAccounting
<1>8. CASE ~task.on_stuck
  <2>1. raised' = raised
    BY <1>8 DEF Fail
  <2> QED
    BY <1>8, <2>1 DEF Handoffs, HandoffAccounting
<1> QED
  BY <1>7, <1>8

(* Every step of the engine, and a resume, keeps the account.              *)
LEMMA HandoffsStep == TypeInv /\ Phase /\ Handoffs /\ [Next]_vars => Handoffs'
<1> SUFFICES ASSUME TypeInv, Phase, Handoffs, [Next]_vars
             PROVE  Handoffs'
  OBVIOUS
<1>1. i \in Nat /\ resumes \in Nat
  <2>1. TypeOK
    BY DEF TypeInv
  <2>2. resumes \in 0..MaxResumes
    BY <2>1, Zenon DEF TypeOK
  <2> QED
    BY <2>1, <2>2, Position, BoundsAssumption
<1>2. pc # "done" => ~Stuck
  BY DEF Phase, Stuck
<1>3. CASE Act \/ Dismiss \/ NoOutcome \/ Retry
  <2>1. UNCHANGED <<task, raised, resumes, result, i>> /\ pc # "done"
    BY <1>3 DEF Act, Dismiss, NoOutcome, Retry, call
  <2> QED
    BY <1>1, <1>2, <2>1, HandoffsLocal DEF Stuck
<1>4. ASSUME NEW o, \/ Perceive(o) \/ TrustPaused(o) \/ FinalLook(o) \/ AfterWait(o)
                    \/ AfterDismiss(o)
      PROVE  Handoffs'
  <2>1. UNCHANGED <<task, raised, resumes, result, i>> /\ pc # "done"
    BY <1>4 DEF Perceive, TrustPaused, FinalLook, AfterWait, AfterDismiss, call
  <2> QED
    BY <1>1, <1>2, <2>1, HandoffsLocal DEF Stuck
<1>5. ASSUME NEW o, Deny(o)
      PROVE  Handoffs'
  BY <1>5, HandoffsFail DEF Deny, call
<1>6. CASE BusinessOutcome
  <2>1. UNCHANGED <<task, raised, resumes, i>> /\ pc # "done"
    BY <1>6 DEF BusinessOutcome, call
  <2>2. result'.status = "business_outcome"
    BY <1>6 DEF BusinessOutcome, Return
  <2> QED
    BY <1>1, <1>2, <2>1, <2>2, HandoffsLocal DEF Stuck
<1>7. CASE GiveUp
  BY <1>7, HandoffsFail DEF GiveUp, call
<1>8. CASE StepDone
  <2>1. UNCHANGED <<task, raised, resumes, result>> /\ i' = i + 1 /\ pc # "done"
    BY <1>8 DEF StepDone, call
  <2> QED
    BY <1>1, <1>2, <2>1, HandoffsLocal DEF Stuck
<1>9. CASE Succeed
  <2>1. UNCHANGED <<task, raised, resumes, i>> /\ pc # "done" /\ result'.status = "success"
    BY <1>9 DEF Succeed, call, Return
  <2> QED
    BY <1>1, <1>2, <2>1, HandoffsLocal DEF Stuck
<1>10. CASE OutputsMissing
  BY <1>10, HandoffsFail DEF OutputsMissing, call
<1>11. CASE DriverRaises
  <2>1. UNCHANGED <<task, raised, resumes, i>> /\ pc # "done"
    BY <1>11 DEF DriverRaises, DriverCall, call
  <2>2. result'.status = "raised"
    BY <1>11 DEF DriverRaises, Running
  <2> QED
    BY <1>1, <1>2, <2>1, <2>2, HandoffsLocal DEF Stuck
<1>12. CASE Resume
  <2>1. /\ task' = task /\ i' = i /\ raised' = raised /\ resumes' = resumes + 1
        /\ result' = Running /\ Stuck
    BY <1>12 DEF Resume, Phase, Stuck
  <2>2. ~Stuck'
    BY <2>1, RunningStatus DEF Stuck
  <2> QED
    BY <1>1, <2>1, <2>2 DEF Handoffs, HandoffAccounting
<1>13. CASE UNCHANGED vars
  BY <1>13 DEF vars, Handoffs, HandoffAccounting, Stuck
<1> QED
  BY <1>3, <1>4, <1>5, <1>6, <1>7, <1>8, <1>9, <1>10, <1>11, <1>12, <1>13
     DEF Next, EngineStep

(* A stuck state is handed over exactly once, nothing else is, and the     *)
(* handoffs of a run move forward through the recipe.                      *)
THEOREM HandoffsAccounted == Spec => []HandoffAccounting
<1>1. Handoffs => HandoffAccounting
  BY DEF Handoffs
<1> QED
  BY <1>1, HandoffsInit, HandoffsStep, TypeInvariant, PhaseInvariant, PTL DEF Spec

=============================================================================
