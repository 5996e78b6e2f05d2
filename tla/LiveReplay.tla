----------------------------- MODULE LiveReplay -----------------------------
(***************************************************************************)
(* The replay engine on the real page of BankPage, with the human who      *)
(* fixes the page of a paused run over CDP (scripts/run_handoff_resume.py, *)
(* scripts/simulated_human_action.py).                                     *)
(***************************************************************************)
EXTENDS Replay, BankPage

CONSTANTS
  Inputs,         \* the inputs dicts of the runs
  Drifts          \* sets of locators of the recipe that the page has lost

(* What a caller may ask for is a string; None is what a name gets that is *)
(* not among the inputs.                                                   *)
ASSUME InputsAssumption ==
  /\ "" \in Names
  /\ \A given \in Inputs :
       "" \notin DOMAIN given /\ \A f \in DOMAIN given : given[f] \in Names \ {None}
(* The recipes for this page type the member id and output the balance.    *)
ASSUME LookupAssumption ==
  \A a \in Artifacts :
    /\ \A k \in DOMAIN a.steps : a.steps[k].value_from \in {"", "member_id"}
    /\ a.outputs = {"savings_balance"}
(* They search for a member and read: nothing that they type into or click *)
(* is on the member page.                                                  *)
ASSUME SearchAssumption ==
  \A a \in Artifacts :
    /\ DOMAIN a.steps = 1..3
    /\ a.steps[1].action = "type" /\ a.steps[1].value_from = "member_id"
    /\ \E r \in DOMAIN a.steps[1].target : a.steps[1].target[r].value = "textbox::"
    /\ a.steps[1].checkpoint = NoCheckpoint
    /\ a.steps[2].action = "click" /\ a.steps[2].checkpoint = Screen("detail")
    /\ \E r \in DOMAIN a.steps[2].target : a.steps[2].target[r].value = "button::"
    /\ a.steps[3].action = "read" /\ a.steps[3].checkpoint = Field("savings_balance")
    /\ a.success = Field("savings_balance")
    /\ \A k \in DOMAIN a.known_outcomes : a.known_outcomes[k].detect = Screen("not_found")
    /\ a.known_interstitials = <<>>
ASSUME ControlsAssumption ==
  \A a \in Artifacts : \A k \in {1, 2} : \A r \in DOMAIN a.steps[k].target :
    \A id \in DOMAIN MEMBERS, hide \in BOOLEAN :
      a.steps[k].target[r].value \notin Shows(MemberPage(id, FALSE, hide))
(* What the page shows is among what the engine may be shown.              *)
ASSUME LivePagesAssumption ==
  /\ LivePerceive(SearchPage(FALSE, FALSE)) \in Observations
  /\ \A id \in DOMAIN MEMBERS \cup {""}, hide \in BOOLEAN :
       LivePerceive(MemberPage(id, FALSE, hide)) \in Observations
(* A slow page comes within the click's attempt and the engine's retries.  *)
ASSUME SlowBankAssumption == SlowAttempts <= MAX_SLOW_RETRIES + 1

VARIABLES
  inputs,
  fixed      \* the human process has done its work for the present pause

world == <<inputs, drifted, page, nav, fixed>>
liveVars == <<vars, world>>

LiveInit ==
  /\ Init
  /\ inputs \in Inputs
  /\ drifted \in Drifts
  /\ page \in {SearchPage(slow, hide) : slow, hide \in BOOLEAN}
  /\ nav = NoNav
  /\ fixed = FALSE

(* act() for a step: the engine does not look at the ok=False of a ladder  *)
(* that is exhausted.                                                      *)
LiveAct(step) ==
  /\ DriverAct(step.action, step.target, ValueOf(step, inputs))
  /\ UNCHANGED <<inputs, drifted, fixed>>

-----------------------------------------------------------------------------
(* Left out, because none of the recipes here reaches it: Deny, as the     *)
(* scripts' gate allows every action of a step; the dismissals, as there   *)
(* are no interstitials; and OutputsMissing, as the one output is what the *)
(* success checkpoint asks for.                                            *)
Looking ==
  \E o \in {LivePerceive(page)} :
    \/ Perceive(o)
    \/ TrustPaused(o)
    \/ FinalLook(o)
    \/ AfterWait(o)

Deciding == BusinessOutcome \/ NoOutcome \/ GiveUp \/ StepDone \/ Succeed

LiveEngineStep ==
  \/ Act /\ LiveAct(Steps[i])
  \/ Retry /\ WaitBriefly(page, nav) /\ UNCHANGED <<inputs, drifted, fixed>>
  \/ (Looking \/ Deciding) /\ UNCHANGED world

(* input_value() of a box that the commit took away times out.             *)
PerceiveRaises ==
  /\ nav # NoNav
  /\ page.path = "search"
  /\ DriverRaises
  /\ UNCHANGED world

(* The slow page arrives between two calls.                                *)
NavCommit ==
  /\ NavCommits
  /\ UNCHANGED <<vars, inputs, drifted, fixed>>

HumanFix_BugFlagsKept ==
  /\ result.status = "paused"
  /\ ~fixed
  /\ "member_id" \in DOMAIN inputs
  /\ page' = MemberPage(inputs["member_id"], page.slow, page.hide)
  /\ nav' = NoNav
  /\ fixed' = TRUE
  /\ UNCHANGED <<vars, inputs, drifted>>

(* The human process takes the paused page to the member's page, without   *)
(* the flags; a navigation still in flight is cancelled by this one.       *)
HumanFix ==
  /\ result.status = "paused"
  /\ ~fixed
  /\ "member_id" \in DOMAIN inputs
  /\ page' = MemberPage(inputs["member_id"], FALSE, FALSE)
  /\ nav' = NoNav
  /\ fixed' = TRUE
  /\ UNCHANGED <<vars, inputs, drifted>>

LiveResume_BugFixedNotReset ==
  /\ fixed
  /\ Resume
  /\ UNCHANGED <<fixed, inputs, drifted, page, nav>>

(* The script resumes when the human process has ended without an error.   *)
LiveResume ==
  /\ fixed
  /\ Resume
  /\ fixed' = FALSE
  /\ UNCHANGED <<inputs, drifted, page, nav>>

LiveNext ==
  LiveEngineStep \/ PerceiveRaises \/ NavCommit \/ HumanFix \/ LiveResume

(* Driver calls return or raise; the human process is run with a timeout   *)
(* and the script resumes right after it.  Nothing makes an early commit   *)
(* happen: WaitBriefly is what a slow page is sure to be there after.      *)
LiveSpec == LiveInit /\ [][LiveNext]_liveVars
                     /\ WF_liveVars(LiveEngineStep)
                     /\ WF_liveVars(HumanFix) /\ WF_liveVars(LiveResume)

-----------------------------------------------------------------------------
PageTypeOK ==
  /\ TypeOK
  /\ inputs \in Inputs
  /\ drifted \in Drifts
  /\ page \in [path : {"search", "member"}, member : Names, box : Names,
               slow : BOOLEAN, hide : BOOLEAN]
  /\ nav = NoNav \/ nav \in [to : Names, slow : BOOLEAN, hide : BOOLEAN,
                             attempts : 1..SlowAttempts]
  /\ fixed => result.status = "paused"

Member == IF "member_id" \in DOMAIN inputs THEN inputs["member_id"] ELSE ""
Known  == Member \in DOMAIN MEMBERS

(* A success carries the balance of the member the caller asked for, also  *)
(* after a pause, a human's navigation and a resume, and also when the     *)
(* page lost a control and a step did nothing.                             *)
RightBalance ==
  result.status = "success" =>
    /\ Known
    /\ result.outputs = [f \in {"savings_balance"} |-> MEMBERS[Member].savings]

(* On a page that has the recipe's controls a run never tells the caller   *)
(* that a member the bank has does not exist, however late the page comes. *)
NotFoundIsTrue ==
  (result.status = "business_outcome" /\ drifted = {}) => ~Known

(* The page has the recipe's controls, the bank the member, the balance    *)
(* shows, and nobody has touched the run.                                  *)
Smooth == drifted = {} /\ Known /\ ~page.hide /\ ~fixed /\ resumes = 0

(* A slow page is recovered from: a smooth run that is over is a success,  *)
(* and at most the attempts the slow load takes beyond the click's own are *)
(* logged, once.  The one exception is a perceive() that raised in the     *)
(* click's step of a slow page (see SlowLoadSucceeds below); a page that   *)
(* is not slow always gives the success.                                   *)
SlowLoadRecovers ==
  Smooth =>
    /\ pc = "done" => \/ result.status = "success"
                      \/ result.status = "raised" /\ result.step = 2 /\ page.slow
    /\ Len(recovered) <= 1
    /\ \A n \in DOMAIN recovered :
         /\ recovered[n].step = 2
         /\ recovered[n].attempts < SlowAttempts

(* A run paused for a known member gets to the balance once the human took *)
(* the page there and the script resumed it.                               *)
HandedOverRunCompletes ==
  (result.status = "paused" /\ Known /\ resumes < MaxResumes)
    ~> result.status = "success"

(* A resumed run does not search again, even where it redoes the click: on *)
(* the page the human fixed nothing is typed, submitted or left, whatever  *)
(* the ladder of the step falls back to.                                   *)
ResumeDoesNotSearchAgain ==
  [][resumes > 0 /\ resumes' = resumes => UNCHANGED <<page, nav>>]_liveVars

-----------------------------------------------------------------------------
(* tests/test_replay.py:31-33: an unknown member "must come back as        *)
(* business_outcome, never as failure".                                    *)
UnknownMemberNeverFails ==
  (Stuck /\ drifted = {} /\ "member_id" \in DOMAIN inputs) => Known

(* models.py:85-86: the three results are what "stops a real business      *)
(* answer ("no such member") from being mistaken for a crash"; here it is  *)
(* the other way round.  tests/test_replay.py:3-4: "a crash must name      *)
(* exactly where it happened".  Typing into a box that is not there is no  *)
(* answer about the member.                                                *)
LostControlIsNoAnswer == (result.status = "business_outcome") => ~Known

(* tests/test_replay.py:53-55: a slow load within the retries is "not a    *)
(* hard failure" and "the run must still succeed"; app/driver.py:212-217:  *)
(* a mid-navigation perceive() "is what triggers the bounded retry".  The  *)
(* one that finds the text box and then asks for its value raises.         *)
SlowLoadSucceeds == (Smooth /\ pc = "done") => result.status = "success"
=============================================================================
