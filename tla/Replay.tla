------------------------------- MODULE Replay -------------------------------
(***************************************************************************)
(* The replay engine, app/replay.py: walk the steps of a recipe against a  *)
(* driver, verify checkpoints, dismiss known overlays, wait for slow pages *)
(* a bounded number of times, classify what happened, and pause and resume.*)
(*                                                                         *)
(* The driver is left free here: an observation is any member of           *)
(* Observations, and any driver call may raise.  Every action that         *)
(* perceives takes the observation as a parameter, so FakeReplay and       *)
(* LiveReplay compose the engine with a driver by conjunction.             *)
(*                                                                         *)
(* Steps are numbered from 1; Goal, one past the last step, stands for the *)
(* final "success" phase.  pc says where in the loop body the engine is:   *)
(*   step      head of the loop, or of the success phase                   *)
(*   perceive  the step's act() was issued, perceive() is next             *)
(*   dismiss   head of the loop of _dismiss_known_interstitials            *)
(*   dismissed an overlay's act() was issued, perceive() is next           *)
(*   await     head of the loop of _await_checkpoint                       *)
(*   waited    act("wait") was issued, perceive() is next                  *)
(*   done      replay() has returned or raised                             *)
(*                                                                         *)
(* A definition whose name ends in _Bug... is the definition after it with *)
(* a bug a change to the code could bring in; no specification uses it.    *)
(* PROJECT.json says which property notices it.                            *)
(***************************************************************************)
EXTENDS Recipe

CONSTANTS
  Artifacts,                    \* recipes a run may be given
  Observations,                 \* what the driver may show
  Allowlists,                   \* allowed_actions of the gates a run may use
  MAX_SLOW_RETRIES,
  MAX_INTERSTITIAL_DISMISSALS,
  MaxResumes                    \* model bound: resumes of one run

ASSUME ArtifactsAssumption == Artifacts \subseteq CapabilityArtifact
ASSUME ObservationsAssumption ==
  \A o \in Observations : o.screen \in Names /\ DOMAIN o.fields \subseteq Names
ASSUME AllowlistsAssumption == Allowlists \subseteq SUBSET Names
ASSUME BoundsAssumption ==
  /\ MAX_SLOW_RETRIES \in Nat
  /\ MAX_INTERSTITIAL_DISMISSALS \in Nat
  /\ MaxResumes \in Nat

VARIABLES
  task,        \* what replay() is called with: artifact, gate's allowlist, hook or not
  resumable,   \* the parameter of this call; a resume may choose another
  start,       \* resume.step_index of this call (from 1), 0 for a fresh run
  pc,
  i,           \* the step the loop is at
  obs,         \* the local variable obs
  dismissals,  \* local of _dismiss_known_interstitials, 0 outside it
  attempts,    \* local of _await_checkpoint, 0 outside it
  recovered,   \* the log of recovered events
  result,      \* what replay() returned, status "running" before that
  raised,      \* steps named in the contexts on_stuck was called with, in order
  acted,       \* per step, how often its action was issued to the driver
  resumes      \* how often the run was resumed

call == <<task, resumable, start>>
vars == <<task, resumable, start, pc, i, obs, dismissals, attempts, recovered,
          result, raised, acted, resumes>>

Artifact == task.artifact
Steps    == Artifact.steps
Goal     == Len(Steps) + 1
Expected == IF i = Goal THEN Artifact.success ELSE Steps[i].checkpoint

Permitted(k) == GateCheck(task.allowed, Steps[k].action) # "deny"

Trusted_BugInverted == i < Goal /\ i = start /\ Steps[i].retry_safe

(* The step a resumed call starts at is not redone unless it is retry_safe.*)
Trusted == i < Goal /\ i = start /\ ~Steps[i].retry_safe

Running == [status |-> "running", step |-> 0, about |-> "", outputs |-> <<>>,
            recovered |-> <<>>]
NoObservation == [screen |-> "", fields |-> <<>>]

(* A RecoveredEvent; condition "interstitial:<name>" keeps its two parts.  *)
Event(condition, name, n) ==
  [step |-> i, condition |-> condition, name |-> name, attempts |-> n]

-----------------------------------------------------------------------------
Init ==
  /\ task \in [artifact : Artifacts, allowed : Allowlists, on_stuck : BOOLEAN]
  /\ resumable \in BOOLEAN
  /\ start = 0
  /\ pc = "step"
  /\ i = 1
  /\ obs = NoObservation
  /\ dismissals = 0
  /\ attempts = 0
  /\ recovered = <<>>
  /\ result = Running
  /\ raised = <<>>
  /\ acted = [k \in 1..Len(task.artifact.steps) |-> 0]
  /\ resumes = 0

(* replay() returns: the log so far is kept on whatever it returns.        *)
Return(status, about, outputs, log) ==
  /\ pc' = "done"
  /\ recovered' = log
  /\ result' = [status |-> status, step |-> i, about |-> about,
                outputs |-> outputs, recovered |-> log]

Fail_BugHookOnlyWhenResumable(expected, log) ==
  /\ raised' = IF task.on_stuck /\ resumable THEN Append(raised, i) ELSE raised
  /\ Return(IF resumable THEN "paused" ELSE "failure", expected, <<>>, log)

(* _fail: call the hook if there is one, then pause or fail.               *)
Fail(expected, log) ==
  /\ raised' = IF task.on_stuck THEN Append(raised, i) ELSE raised
  /\ Return(IF resumable THEN "paused" ELSE "failure", expected, <<>>, log)

-----------------------------------------------------------------------------
(* The head of the loop over the steps.                                    *)

(* The step's action goes to the driver; its ActionResult is not looked at.*)
Act ==
  /\ pc = "step"
  /\ i < Goal
  /\ ~Trusted
  /\ Permitted(i)
  /\ acted' = [acted EXCEPT ![i] = @ + 1]
  /\ pc' = "perceive"
  /\ UNCHANGED <<call, i, obs, dismissals, attempts, recovered, result, raised, resumes>>

Perceive(o) ==
  /\ pc = "perceive"
  /\ obs' = o
  /\ dismissals' = 0
  /\ pc' = "dismiss"
  /\ UNCHANGED <<call, i, attempts, recovered, result, raised, acted, resumes>>

(* The paused step is trusted to have run: only look again.                *)
TrustPaused(o) ==
  /\ pc = "step"
  /\ Trusted
  /\ obs' = o
  /\ dismissals' = 0
  /\ pc' = "dismiss"
  /\ UNCHANGED <<call, i, attempts, recovered, result, raised, acted, resumes>>

Deny(o) ==
  /\ pc = "step"
  /\ i < Goal
  /\ ~Trusted
  /\ ~Permitted(i)
  /\ obs' = o
  /\ Fail("allowed action", recovered)
  /\ UNCHANGED <<call, i, dismissals, attempts, acted, resumes>>

-----------------------------------------------------------------------------
(* _dismiss_known_interstitials, then the known outcomes.                  *)

Overlay_BugOffByOne ==
  dismissals <= MAX_INTERSTITIAL_DISMISSALS /\ Matches(Artifact.known_interstitials, obs)

Overlay == /\ dismissals < MAX_INTERSTITIAL_DISMISSALS
           /\ Matches(Artifact.known_interstitials, obs)

(* The overlay's own action goes to the driver, past the gate.             *)
Dismiss ==
  /\ pc = "dismiss"
  /\ Overlay
  /\ pc' = "dismissed"
  /\ UNCHANGED <<call, i, obs, dismissals, attempts, recovered, result, raised, acted, resumes>>

AfterDismiss(o) ==
  /\ pc = "dismissed"
  /\ obs' = o
  /\ dismissals' = dismissals + 1
  /\ \E k \in DOMAIN Artifact.known_interstitials :
       /\ FirstMatch(Artifact.known_interstitials, obs, k)
       /\ recovered' = Append(recovered,
                              Event("interstitial", Artifact.known_interstitials[k].name,
                                    dismissals + 1))
  /\ pc' = "dismiss"
  /\ UNCHANGED <<call, i, attempts, result, raised, acted, resumes>>

BusinessOutcome_BugRoutedThroughFail ==
  /\ pc = "dismiss"
  /\ ~Overlay
  /\ Matches(Artifact.known_outcomes, obs)
  /\ Fail("no outcome", recovered)
  /\ dismissals' = 0
  /\ UNCHANGED <<call, i, obs, attempts, acted, resumes>>

BusinessOutcome ==
  /\ pc = "dismiss"
  /\ ~Overlay
  /\ \E k \in DOMAIN Artifact.known_outcomes :
       /\ FirstMatch(Artifact.known_outcomes, obs, k)
       /\ Return("business_outcome", Artifact.known_outcomes[k].name, <<>>, recovered)
  /\ dismissals' = 0
  /\ UNCHANGED <<call, i, obs, attempts, raised, acted, resumes>>

NoOutcome ==
  /\ pc = "dismiss"
  /\ ~Overlay
  /\ ~Matches(Artifact.known_outcomes, obs)
  /\ dismissals' = 0
  /\ attempts' = 0
  /\ pc' = "await"
  /\ UNCHANGED <<call, i, obs, recovered, result, raised, acted, resumes>>

-----------------------------------------------------------------------------
(* _await_checkpoint, and what its caller does with the observation.       *)

(* The success phase only looks: no overlay is dismissed, no outcome       *)
(* recognised.                                                             *)
FinalLook(o) ==
  /\ pc = "step"
  /\ i = Goal
  /\ obs' = o
  /\ attempts' = 0
  /\ pc' = "await"
  /\ UNCHANGED <<call, i, dismissals, recovered, result, raised, acted, resumes>>

Retry ==
  /\ pc = "await"
  /\ ~Check(obs, Expected)
  /\ attempts < MAX_SLOW_RETRIES
  /\ pc' = "waited"
  /\ UNCHANGED <<call, i, obs, dismissals, attempts, recovered, result, raised, acted, resumes>>

AfterWait_BugUncounted(o) ==
  /\ pc = "waited"
  /\ obs' = o
  /\ pc' = "await"
  /\ UNCHANGED <<call, i, dismissals, attempts, recovered, result, raised, acted, resumes>>

AfterWait(o) ==
  /\ pc = "waited"
  /\ obs' = o
  /\ attempts' = attempts + 1
  /\ pc' = "await"
  /\ UNCHANGED <<call, i, dismissals, recovered, result, raised, acted, resumes>>

GiveUp_BugWithoutHandoff ==
  /\ pc = "await"
  /\ ~Check(obs, Expected)
  /\ attempts = MAX_SLOW_RETRIES
  /\ Return("failure", "checkpoint", <<>>, recovered)
  /\ attempts' = 0
  /\ UNCHANGED <<call, i, obs, dismissals, raised, acted, resumes>>

GiveUp ==
  /\ pc = "await"
  /\ ~Check(obs, Expected)
  /\ attempts = MAX_SLOW_RETRIES
  /\ Fail("checkpoint", recovered)
  /\ attempts' = 0
  /\ UNCHANGED <<call, i, obs, dismissals, acted, resumes>>

SettledLog_BugAlways == Append(recovered, Event("slow_load", "", attempts))
SettledLog_BugNever  == recovered

(* The log once the checkpoint holds: a wait that helped is recorded.      *)
SettledLog ==
  IF attempts > 0 THEN Append(recovered, Event("slow_load", "", attempts)) ELSE recovered

StepDone ==
  /\ pc = "await"
  /\ Check(obs, Expected)
  /\ i < Goal
  /\ recovered' = SettledLog
  /\ i' = i + 1
  /\ pc' = "step"
  /\ attempts' = 0
  /\ UNCHANGED <<call, obs, dismissals, result, raised, acted, resumes>>

OutputsPresent == Artifact.outputs \subseteq DOMAIN obs.fields

Succeed ==
  /\ pc = "await"
  /\ Check(obs, Expected)
  /\ i = Goal
  /\ OutputsPresent
  /\ Return("success", "", OutputsOf(Artifact, obs), SettledLog)
  /\ attempts' = 0
  /\ UNCHANGED <<call, i, obs, dismissals, raised, acted, resumes>>

OutputsMissing ==
  /\ pc = "await"
  /\ Check(obs, Expected)
  /\ i = Goal
  /\ ~OutputsPresent
  /\ Fail("outputs present", SettledLog)
  /\ attempts' = 0
  /\ UNCHANGED <<call, i, obs, dismissals, acted, resumes>>

-----------------------------------------------------------------------------
(* A driver call is outstanding where the engine waits for an act() or the *)
(* perceive() after it, and where a perceive() is all the step head does.  *)
DriverCall ==
  \/ pc \in {"perceive", "dismissed", "waited"}
  \/ pc = "step" /\ (i = Goal \/ Trusted)
  \/ pc = "step" /\ i < Goal /\ ~Permitted(i)

(* replay() has no try: an exception of the driver leaves it as it is.     *)
DriverRaises ==
  /\ DriverCall
  /\ pc' = "done"
  /\ result' = [Running EXCEPT !.status = "raised", !.step = i]
  /\ UNCHANGED <<call, i, obs, dismissals, attempts, recovered, raised, acted, resumes>>

Resume_BugPastPausedStep ==
  /\ result.status = "paused"
  /\ resumes < MaxResumes
  /\ start' = result.step
  /\ i' = IF result.step < Goal THEN result.step + 1 ELSE Goal
  /\ recovered' = result.recovered
  /\ resumable' \in BOOLEAN
  /\ pc' = "step"
  /\ result' = Running
  /\ obs' = NoObservation
  /\ resumes' = resumes + 1
  /\ UNCHANGED <<task, dismissals, attempts, raised, acted>>

Resume_BugFreshLog ==
  /\ result.status = "paused"
  /\ resumes < MaxResumes
  /\ start' = result.step
  /\ i' = result.step
  /\ recovered' = <<>>
  /\ resumable' \in BOOLEAN
  /\ pc' = "step"
  /\ result' = Running
  /\ obs' = NoObservation
  /\ resumes' = resumes + 1
  /\ UNCHANGED <<task, dismissals, attempts, raised, acted>>

(* The caller passes the ResumeState of a Paused back in: the log and the  *)
(* index come from it, the steps before the index are skipped.             *)
Resume ==
  /\ result.status = "paused"
  /\ resumes < MaxResumes
  /\ start' = result.step
  /\ i' = result.step
  /\ recovered' = result.recovered
  /\ resumable' \in BOOLEAN
  /\ pc' = "step"
  /\ result' = Running
  /\ obs' = NoObservation
  /\ resumes' = resumes + 1
  /\ UNCHANGED <<task, dismissals, attempts, raised, acted>>

EngineStep ==
  \/ Act
  \/ \E o \in Observations : Perceive(o)
  \/ \E o \in Observations : TrustPaused(o)
  \/ \E o \in Observations : Deny(o)
  \/ Dismiss
  \/ \E o \in Observations : AfterDismiss(o)
  \/ BusinessOutcome
  \/ NoOutcome
  \/ \E o \in Observations : FinalLook(o)
  \/ Retry
  \/ \E o \in Observations : AfterWait(o)
  \/ GiveUp
  \/ StepDone
  \/ Succeed
  \/ OutputsMissing
  \/ DriverRaises

Next == EngineStep \/ Resume

Spec == Init /\ [][Next]_vars

(* The engine is a loop of one thread, and a driver call returns or raises *)
(* (Playwright bounds every call); nobody has to resume a paused run.      *)
FairSpec == Spec /\ WF_vars(EngineStep)

-----------------------------------------------------------------------------
(* Properties.                                                             *)

RecoveredEvent == [step : Nat, condition : {"slow_load", "interstitial"},
                   name : Names \cup {""}, attempts : Nat]

(* What a result is about: the outcome's name, or what a failure expected. *)
About == Names \cup {"", "allowed action", "checkpoint", "outputs present"}

Outputs ==
  {<<>>} \cup {OutputsOf(a, o) : a \in Artifacts, o \in Observations \cup {NoObservation}}

Status == {"running", "success", "business_outcome", "failure", "paused", "raised"}

(* Every variable holds a value of its type: the engine's locals, the log, *)
(* the result contract and the history variables.                          *)
TypeOK ==
  /\ task \in [artifact : Artifacts, allowed : Allowlists, on_stuck : BOOLEAN]
  /\ resumable \in BOOLEAN
  /\ start \in 0..Goal
  /\ pc \in {"step", "perceive", "dismiss", "dismissed", "await", "waited", "done"}
  /\ i \in 1..Goal
  /\ obs \in Observations \cup {NoObservation}
  /\ dismissals \in 0..MAX_INTERSTITIAL_DISMISSALS
  /\ attempts \in 0..MAX_SLOW_RETRIES
  /\ recovered \in Seq(RecoveredEvent)
  /\ result \in [status : Status, step : 0..Goal, about : About, outputs : Outputs,
                 recovered : Seq(RecoveredEvent)]
  /\ raised \in Seq(1..Goal)
  /\ acted \in [1..Len(Steps) -> Nat]
  /\ resumes \in 0..MaxResumes

(* The docstring of replay(): a step that is not retry_safe (a submit) is  *)
(* issued to the bank at most once in a run, however often the run is      *)
(* paused and resumed.                                                     *)
AtMostOnceUnsafe == \A k \in DOMAIN Steps : ~Steps[k].retry_safe => acted[k] <= 1

(* A step the engine has left behind was issued to the driver; the one     *)
(* exception is a step the gate denied and a resume then trusted.          *)
NoStepSkipped ==
  \A k \in 1..(i - 1) :
    \/ acted[k] >= 1
    \/ resumes > 0 /\ ~Permitted(k) /\ ~Steps[k].retry_safe

Stuck == result.status \in {"paused", "failure"}

(* on_stuck is called exactly once for each Paused or Failure of the run,  *)
(* for no Success, BusinessOutcome or exception, names the step of the     *)
(* result, and over a run's pauses names later and later steps.            *)
HandoffAccounting ==
  IF task.on_stuck
  THEN /\ Len(raised) = resumes + (IF Stuck THEN 1 ELSE 0)
       /\ Stuck => raised[Len(raised)] = result.step
       /\ \A m, n \in DOMAIN raised : m <= n => raised[m] <= raised[n]
  ELSE raised = <<>>

(* The recovered log of a run, across its pauses, is in step order; a      *)
(* step's slow load is logged once, when its checkpoint came true; each    *)
(* entry is within the bound of its loop.                                  *)
RecoveryLog ==
  /\ \A m, n \in DOMAIN recovered : m <= n => recovered[m].step <= recovered[n].step
  /\ \A m, n \in DOMAIN recovered :
       /\ recovered[m].condition = "slow_load"
       /\ recovered[n].condition = "slow_load"
       /\ recovered[m].step = recovered[n].step
       /\ recovered[m].step < Goal
       => m = n
  /\ \A n \in DOMAIN recovered :
       /\ recovered[n].condition = "slow_load"
            => /\ recovered[n].step < i \/ recovered[n].step = Goal
               /\ recovered[n].attempts \in 1..MAX_SLOW_RETRIES
       /\ recovered[n].condition = "interstitial"
            => recovered[n].attempts \in 1..MAX_INTERSTITIAL_DISMISSALS

(* No step, a resume included, takes the run back to an earlier step of    *)
(* the recipe, issues the action of one again, or loses or rewrites an     *)
(* entry of the log.                                                       *)
NoRegress ==
  [][/\ i' >= i
     /\ \A k \in 1..(i - 1) : acted'[k] = acted[k]
     /\ Len(recovered') >= Len(recovered)
     /\ \A n \in DOMAIN recovered : recovered'[n] = recovered[n]]_vars

(* A call of replay() comes to an end: no page, however it behaves, keeps  *)
(* the retry and dismissal loops going forever.                            *)
Terminates == result.status = "running" ~> result.status # "running"

(* The engine as its callers know it: status, steps left, handoffs.        *)
Contract == INSTANCE RunContract
              WITH status   <- result.status,
                   left     <- Goal - i,
                   hooked   <- task.on_stuck,
                   handoffs <- Len(raised)

(* What the engine keeps to, whatever the recipe and the page: the         *)
(* contract of models.py with one ending more, the exception of a driver   *)
(* call (see EveryRunReturns below); and it always comes to an ending.     *)
ContractSpec == Contract!FairSpec

-----------------------------------------------------------------------------
(* What the repository says of the program and the code does not do.       *)

(* app/replay.py:134-135: the paused step that is not redone "already ran  *)
(* before the pause".                                                      *)
TrustedStepRan == (pc = "step" /\ Trusted) => acted[i] >= 1

(* app/models.py:85: "Every run returns exactly ONE of these three" (or a  *)
(* Paused, :127-131).  An exception of the driver is none of them: no      *)
(* result, no hook called, no ResumeState.                                 *)
EveryRunReturns == Contract!PromisedSpec
=============================================================================
