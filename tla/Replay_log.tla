----------------------------- MODULE Replay_log -----------------------------
(***************************************************************************)
(* What the log of recovered events says of a run, and that no step of a   *)
(* run goes back, for every set of recipes, every page and every value of  *)
(* the bounds.                                                             *)
(***************************************************************************)
EXTENDS Replay_proofs

-----------------------------------------------------------------------------
(* RecoveryLog is not inductive: that the entries are in step order is     *)
(* kept by an append only because no entry is of a step yet to come.       *)

Log ==
  /\ RecoveryLog
  /\ \A n \in DOMAIN recovered : recovered[n].step <= i

(* The log of a fresh run is empty.                                        *)
LEMMA LogInit == Init => Log
  BY DEF Init, Log, RecoveryLog

(* The recipe stays the same.                                              *)
LEMMA SameGoal == task' = task => Goal' = Goal
  BY DEF Goal, Steps, Artifact

(* The numbers in a log.                                                   *)
LEMMA LogShape ==
  TypeOK => /\ i \in Nat
            /\ Goal \in Nat
            /\ i <= Goal
            /\ recovered \in Seq(RecoveredEvent)
            /\ Len(recovered) \in Nat
            /\ DOMAIN recovered = 1..Len(recovered)
            /\ \A n \in DOMAIN recovered : /\ recovered[n] \in RecoveredEvent
                                           /\ recovered[n].step \in Nat
<1> SUFFICES ASSUME TypeOK
             PROVE  /\ i \in Nat /\ Goal \in Nat /\ i <= Goal
                    /\ recovered \in Seq(RecoveredEvent)
                    /\ Len(recovered) \in Nat
                    /\ DOMAIN recovered = 1..Len(recovered)
                    /\ \A n \in DOMAIN recovered : /\ recovered[n] \in RecoveredEvent
                                                   /\ recovered[n].step \in Nat
  OBVIOUS
<1>1. Goal \in Nat
  BY RecipeShape
<1>2. i \in 1..Goal /\ recovered \in Seq(RecoveredEvent)
  BY Zenon DEF TypeOK
<1>3. \A n \in DOMAIN recovered : recovered[n] \in RecoveredEvent
  BY <1>2
<1>4. \A n \in DOMAIN recovered : recovered[n].step \in Nat
  BY <1>3 DEF RecoveredEvent
<1> QED
  BY <1>1, <1>2, <1>3, <1>4

(* A step that leaves the log and the position alone.                      *)
LEMMA LogLocal ==
  ASSUME Log, UNCHANGED <<task, i, recovered>>
  PROVE  Log'
  BY SameGoal DEF Log, RecoveryLog

(* An entry about the present step, with a count within its bound, may be  *)
(* added; one about a slow load only when the engine leaves the step.      *)
LEMMA LogAppend ==
  ASSUME TypeOK, Log, task' = task,
         NEW e \in RecoveredEvent, recovered' = Append(recovered, e),
         e.step = i,
         i' \in Nat, i' >= i,
         e.condition = "slow_load" =>
           (i < i' \/ i = Goal) /\ e.attempts \in 1..MAX_SLOW_RETRIES,
         e.condition = "interstitial" => e.attempts \in 1..MAX_INTERSTITIAL_DISMISSALS
  PROVE  Log'
<1> DEFINE L == Len(recovered)
<1>1. /\ i \in Nat /\ Goal \in Nat /\ L \in Nat
      /\ DOMAIN recovered = 1..L
      /\ \A n \in 1..L : recovered[n].step \in Nat
  BY LogShape
<1>2. /\ DOMAIN recovered' = 1..(L + 1)
      /\ recovered'[L + 1] = e
      /\ \A n \in 1..L : recovered'[n] = recovered[n]
  BY <1>1, LogShape
<1>3. Goal' = Goal
  BY SameGoal
<1> HIDE DEF L
<1>4. \A n \in 1..L : recovered[n].step <= i
  BY <1>1 DEF Log
<1>5. \A n \in DOMAIN recovered' : recovered'[n].step <= i
  BY <1>1, <1>2, <1>4
<1>6. \A n \in DOMAIN recovered' : recovered'[n].step <= i'
  BY <1>1, <1>2, <1>4
<1>7. \A m, n \in DOMAIN recovered' : m <= n => recovered'[m].step <= recovered'[n].step
  <2> SUFFICES ASSUME NEW m \in 1..(L + 1), NEW n \in 1..(L + 1), m <= n
               PROVE  recovered'[m].step <= recovered'[n].step
    BY <1>2
  <2>1. CASE n = L + 1
    BY <1>2, <1>5, <2>1
  <2>2. CASE n # L + 1
    <3>1. m \in 1..L /\ n \in 1..L
      BY <1>1, <2>2
    <3>2. recovered[m].step <= recovered[n].step
      BY <1>1, <3>1 DEF Log, RecoveryLog
    <3> QED
      BY <1>2, <3>1, <3>2
  <2> QED
    BY <2>1, <2>2
<1>8. \A m \in 1..L : recovered[m].condition = "slow_load" /\ recovered[m].step < Goal
                        => recovered[m].step < i
  BY <1>1 DEF Log, RecoveryLog
<1>9. \A m, n \in DOMAIN recovered' :
        /\ recovered'[m].condition = "slow_load"
        /\ recovered'[n].condition = "slow_load"
        /\ recovered'[m].step = recovered'[n].step
        /\ recovered'[m].step < Goal
        => m = n
  <2> SUFFICES ASSUME NEW m \in 1..(L + 1), NEW n \in 1..(L + 1),
                      recovered'[m].condition = "slow_load",
                      recovered'[n].condition = "slow_load",
                      recovered'[m].step = recovered'[n].step,
                      recovered'[m].step < Goal
               PROVE  m = n
    BY <1>2
  <2>1. CASE m \in 1..L /\ n \in 1..L
    BY <1>1, <1>2, <2>1 DEF Log, RecoveryLog
  <2>2. CASE m \in 1..L /\ n = L + 1
    BY <1>1, <1>2, <1>8, <2>2
  <2>3. CASE m = L + 1 /\ n \in 1..L
    BY <1>1, <1>2, <1>8, <2>3
  <2> QED
    BY <1>1, <2>1, <2>2, <2>3
<1>10. \A n \in DOMAIN recovered' :
         /\ recovered'[n].condition = "slow_load"
              => /\ recovered'[n].step < i' \/ recovered'[n].step = Goal
                 /\ recovered'[n].attempts \in 1..MAX_SLOW_RETRIES
         /\ recovered'[n].condition = "interstitial"
              => recovered'[n].attempts \in 1..MAX_INTERSTITIAL_DISMISSALS
  <2> TAKE n \in DOMAIN recovered'
  <2>1. CASE n = L + 1
    BY <1>1, <1>2, <2>1
  <2>2. CASE n \in 1..L
    <3>1. recovered'[n] = recovered[n] /\ recovered[n].step \in Nat /\ n \in DOMAIN recovered
      BY <1>1, <1>2, <2>2
    <3> QED
      BY <1>1, <3>1 DEF Log, RecoveryLog
  <2> QED
    BY <1>1, <1>2, <2>1, <2>2
<1> QED
  BY <1>3, <1>6, <1>7, <1>9, <1>10 DEF Log, RecoveryLog

(* The log may gain the slow load of the present step when the engine      *)
(* leaves it, and in the success phase.                                    *)
LEMMA LogSettles ==
  ASSUME TypeOK, Log, task' = task, recovered' = SettledLog,
         i' \in Nat, i' >= i, i < i' \/ i = Goal
  PROVE  Log'
<1>1. i \in 1..Goal /\ attempts \in 0..MAX_SLOW_RETRIES
  BY Zenon DEF TypeOK
<1>2. i \in Nat /\ Goal \in Nat /\ attempts \in Nat /\ MAX_SLOW_RETRIES \in Nat
  BY <1>1, LogShape, BoundsAssumption
<1>3. attempts > 0 => attempts \in 1..MAX_SLOW_RETRIES
  BY <1>1, <1>2
<1>4. CASE attempts > 0
  <2> DEFINE e == Event("slow_load", "", attempts)
  <2>1. e \in RecoveredEvent
    BY <1>2 DEF Event, RecoveredEvent
  <2>2. e.step = i /\ e.condition = "slow_load" /\ e.attempts = attempts
    BY DEF Event
  <2>3. recovered' = Append(recovered, e)
    BY <1>4 DEF SettledLog
  <2> HIDE DEF e
  <2>4. e.attempts \in 1..MAX_SLOW_RETRIES
    BY <1>3, <1>4, <2>2
  <2> QED
    BY <2>1, <2>2, <2>3, <2>4, LogAppend
<1>5. CASE ~(attempts > 0)
  <2>1. recovered' = recovered
    BY <1>5 DEF SettledLog
  <2>2. Goal' = Goal
    BY SameGoal
  <2>3. \A n \in DOMAIN recovered : recovered[n].step \in Nat
    BY LogShape
  <2>4. \A n \in DOMAIN recovered : recovered[n].step <= i'
    BY <1>2, <2>3 DEF Log
  <2>5. \A n \in DOMAIN recovered : recovered[n].step < i => recovered[n].step < i'
    BY <1>2, <2>3
  <2> QED
    BY <2>1, <2>2, <2>4, <2>5 DEF Log, RecoveryLog
<1> QED
  BY <1>4, <1>5

(* Every step of the engine, and a resume, keeps the log in order.         *)
LEMMA LogStep == TypeInv /\ Phase /\ Log /\ [Next]_vars => Log'
<1> SUFFICES ASSUME TypeInv, Phase, Log, [Next]_vars
             PROVE  Log'
  OBVIOUS
<1>1. TypeOK
  BY DEF TypeInv
<1>2. i \in Nat /\ Goal \in Nat /\ i <= i
  BY <1>1, LogShape
<1>3. CASE Act \/ Dismiss \/ NoOutcome \/ Retry \/ DriverRaises
  BY <1>3, LogLocal DEF Act, Dismiss, NoOutcome, Retry, DriverRaises, call
<1>4. ASSUME NEW o, Perceive(o) \/ TrustPaused(o) \/ FinalLook(o) \/ AfterWait(o)
      PROVE  Log'
  BY <1>4, LogLocal DEF Perceive, TrustPaused, FinalLook, AfterWait, call
<1>5. ASSUME NEW o, Deny(o)
      PROVE  Log'
  BY <1>5, LogLocal DEF Deny, Fail, Return, call
<1>6. ASSUME NEW o, AfterDismiss(o)
      PROVE  Log'
  <2>1. PICK k \in DOMAIN Artifact.known_interstitials :
          recovered' = Append(recovered,
                              Event("interstitial", Artifact.known_interstitials[k].name,
                                    dismissals + 1))
    BY <1>6 DEF AfterDismiss
  <2>2. task' = task /\ i' = i /\ pc = "dismissed"
    BY <1>6 DEF AfterDismiss, call
  <2>3. /\ dismissals \in 0..MAX_INTERSTITIAL_DISMISSALS
        /\ dismissals < MAX_INTERSTITIAL_DISMISSALS
    BY <1>1, <2>2, Zenon DEF TypeInv, TypeOK
  <2>4. dismissals + 1 \in 1..MAX_INTERSTITIAL_DISMISSALS /\ dismissals + 1 \in Nat
    BY <2>3, BoundsAssumption
  <2> DEFINE e == Event("interstitial", Artifact.known_interstitials[k].name, dismissals + 1)
  <2>5. e \in RecoveredEvent
    BY <1>1, <2>1, <2>4, RecipeShape, EventType
  <2>6. e.step = i /\ e.condition = "interstitial" /\ e.attempts = dismissals + 1
    BY DEF Event
  <2>7. recovered' = Append(recovered, e)
    BY <2>1
  <2> HIDE DEF e
  <2> QED
    BY <1>1, <1>2, <2>2, <2>4, <2>5, <2>6, <2>7, LogAppend
<1>7. CASE BusinessOutcome \/ GiveUp
  BY <1>7, LogLocal DEF BusinessOutcome, GiveUp, Fail, Return, call
<1>8. CASE StepDone
  <2>1. task' = task /\ recovered' = SettledLog /\ i' = i + 1
    BY <1>8 DEF StepDone, call
  <2>2. i' \in Nat /\ i' >= i /\ i < i'
    BY <1>2, <2>1
  <2> QED
    BY <1>1, <2>1, <2>2, LogSettles
<1>9. CASE Succeed \/ OutputsMissing
  <2>1. task' = task /\ recovered' = SettledLog /\ i' = i /\ i = Goal
    BY <1>9 DEF Succeed, OutputsMissing, Fail, Return, call
  <2> QED
    BY <1>1, <1>2, <2>1, LogSettles
<1>10. CASE Resume
  <2>1. task' = task /\ i' = result.step /\ recovered' = result.recovered
        /\ result.status = "paused"
    BY <1>10 DEF Resume
  <2>2. i' = i /\ recovered' = recovered
    BY <2>1 DEF Phase, Stuck
  <2> QED
    BY <2>1, <2>2, LogLocal
<1>11. CASE UNCHANGED vars
  BY <1>11, LogLocal DEF vars
<1> QED
  BY <1>3, <1>4, <1>5, <1>6, <1>7, <1>8, <1>9, <1>10, <1>11 DEF Next, EngineStep

(* Across all the pauses of a run its log is in step order, logs a step's  *)
(* slow load at most once, and no count in it exceeds its bound.           *)
THEOREM LogIsInOrder == Spec => []RecoveryLog
<1>1. Log => RecoveryLog
  BY DEF Log
<1> QED
  BY <1>1, LogInit, LogStep, TypeInvariant, PhaseInvariant, PTL DEF Spec

-----------------------------------------------------------------------------
(* No step goes back.                                                      *)

Forward ==
  /\ i' >= i
  /\ \A k \in 1..(i - 1) : acted'[k] = acted[k]
  /\ Len(recovered') >= Len(recovered)
  /\ \A n \in DOMAIN recovered : recovered'[n] = recovered[n]

(* An appended sequence keeps its entries.                                 *)
LEMMA AppendKeeps ==
  ASSUME NEW S, NEW s \in Seq(S), NEW x \in S
  PROVE  /\ Len(Append(s, x)) = Len(s) + 1
         /\ \A n \in 1..Len(s) : Append(s, x)[n] = s[n]
  OBVIOUS

(* A log that stays or gains an entry keeps the ones it has.               *)
LEMMA LogKept ==
  ASSUME TypeOK, i' >= i, \A k \in 1..(i - 1) : acted'[k] = acted[k],
         recovered' = recovered \/ \E e \in RecoveredEvent : recovered' = Append(recovered, e)
  PROVE  Forward
<1>1. recovered \in Seq(RecoveredEvent) /\ Len(recovered) \in Nat
      /\ DOMAIN recovered = 1..Len(recovered)
  BY LogShape
<1>2. CASE recovered' = recovered
  BY <1>1, <1>2 DEF Forward
<1>3. ASSUME NEW e \in RecoveredEvent, recovered' = Append(recovered, e)
      PROVE  Forward
  <2>1. /\ Len(recovered') = Len(recovered) + 1
        /\ \A n \in 1..Len(recovered) : recovered'[n] = recovered[n]
    BY <1>1, <1>3, AppendKeeps, Zenon
  <2> QED
    BY <1>1, <2>1 DEF Forward
<1> QED
  BY <1>2, <1>3

(* The slow load of the present step is one entry.                         *)
LEMMA SettledEntry ==
  ASSUME TypeOK
  PROVE  \/ SettledLog = recovered
         \/ \E e \in RecoveredEvent : SettledLog = Append(recovered, e)
<1>1. attempts \in 0..MAX_SLOW_RETRIES
  BY Zenon DEF TypeOK
<1>2. attempts \in Nat
  BY <1>1, BoundsAssumption
<1>3. Event("slow_load", "", attempts) \in RecoveredEvent
  BY <1>2, EventType
<1> QED
  BY <1>3 DEF SettledLog

(* Every step of the engine, and a resume, goes forward.                   *)
LEMMA ForwardStep == TypeInv /\ Phase /\ [Next]_vars => [Forward]_vars
<1> SUFFICES ASSUME TypeInv, Phase, Next
             PROVE  Forward
  OBVIOUS
<1>1. TypeOK
  BY DEF TypeInv
<1>2. i \in Nat /\ i >= i /\ i + 1 >= i
  BY <1>1, LogShape
<1>3. CASE Act
  <2>1. acted' = [acted EXCEPT ![i] = @ + 1] /\ i' = i /\ recovered' = recovered
    BY <1>3 DEF Act
  <2>2. acted \in [1..Len(Steps) -> Nat]
    BY <1>1, Zenon DEF TypeOK
  <2>3. \A k \in 1..(i - 1) : acted'[k] = acted[k]
    BY <1>2, <2>1, <2>2
  <2> QED
    BY <1>1, <1>2, <2>1, <2>3, LogKept
<1>4. CASE Dismiss \/ NoOutcome \/ Retry \/ DriverRaises
  BY <1>1, <1>2, <1>4, LogKept DEF Dismiss, NoOutcome, Retry, DriverRaises
<1>5. ASSUME NEW o, Perceive(o) \/ TrustPaused(o) \/ FinalLook(o) \/ AfterWait(o)
      PROVE  Forward
  BY <1>1, <1>2, <1>5, LogKept DEF Perceive, TrustPaused, FinalLook, AfterWait
<1>6. ASSUME NEW o, Deny(o)
      PROVE  Forward
  BY <1>1, <1>2, <1>6, LogKept DEF Deny, Fail, Return
<1>7. ASSUME NEW o, AfterDismiss(o)
      PROVE  Forward
  <2>1. PICK k \in DOMAIN Artifact.known_interstitials :
          recovered' = Append(recovered,
                              Event("interstitial", Artifact.known_interstitials[k].name,
                                    dismissals + 1))
    BY <1>7 DEF AfterDismiss
  <2>2. dismissals \in 0..MAX_INTERSTITIAL_DISMISSALS
    BY <1>1, Zenon DEF TypeOK
  <2>3. dismissals + 1 \in Nat
    BY <2>2, BoundsAssumption
  <2>4. Event("interstitial", Artifact.known_interstitials[k].name, dismissals + 1)
          \in RecoveredEvent
    BY <1>1, <2>1, <2>3, RecipeShape, EventType
  <2>5. i' = i /\ acted' = acted
    BY <1>7 DEF AfterDismiss
  <2> QED
    BY <1>1, <1>2, <2>1, <2>4, <2>5, LogKept
<1>8. CASE BusinessOutcome \/ GiveUp
  BY <1>1, <1>2, <1>8, LogKept DEF BusinessOutcome, GiveUp, Fail, Return
<1>9. CASE StepDone \/ Succeed \/ OutputsMissing
  <2>1. recovered' = SettledLog /\ acted' = acted /\ (i' = i \/ i' = i + 1)
    BY <1>9 DEF StepDone, Succeed, OutputsMissing, Fail, Return
  <2> QED
    BY <1>1, <1>2, <2>1, SettledEntry, LogKept
<1>10. CASE Resume
  <2>1. i' = result.step /\ recovered' = result.recovered /\ acted' = acted
        /\ result.status = "paused"
    BY <1>10 DEF Resume
  <2>2. i' = i /\ recovered' = recovered
    BY <2>1 DEF Phase, Stuck
  <2> QED
    BY <1>1, <1>2, <2>1, <2>2, LogKept
<1> QED
  BY <1>3, <1>4, <1>5, <1>6, <1>7, <1>8, <1>9, <1>10 DEF Next, EngineStep

(* No step of a run, a resume included, takes it back to an earlier step,  *)
(* issues the action of one again, or loses an entry of the log.           *)
THEOREM NeverGoesBack == Spec => NoRegress
<1> QED
  BY ForwardStep, TypeInvariant, PhaseInvariant, PTL DEF Spec, NoRegress, Forward
=============================================================================
