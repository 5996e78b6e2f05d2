------------------------------ MODULE RoundTrip ------------------------------
(***************************************************************************)
(* From a discovery to an answer: a discovery script records a run and     *)
(* writes what came of it (scripts/run_discovery.py,                       *)
(* scripts/run_discovery_notfound.py), the merge makes one approved recipe *)
(* of the two draft files (scripts/merge_and_approve.py), and that recipe  *)
(* is replayed on a fresh page (scripts/run_replay.py).                    *)
(*                                                                         *)
(* The scripts share nothing but files, which outlive them: the script     *)
(* that is run finds what earlier runs of both have left.                  *)
(*                                                                         *)
(* stage is the script that runs: discover, merge, replay; approved when   *)
(* the merge has written its recipe, refused when it stopped with nothing  *)
(* written.  The replay's variables are idle until it starts.              *)
(***************************************************************************)
EXTENDS LiveReplay, Discovery

CONSTANTS
  Earlier,   \* what the files may hold from earlier runs, per script
  Masks      \* strings with account-shaped numbers -> the same with these masked

(* Both scripts name the balance as the goal of the run.                   *)
ASSUME GoalAssumption == \A j \in Jobs : j.success = Field("savings_balance")
(* Nothing that a page shows is a number to be masked, or is made of one.  *)
ASSUME MasksAssumption ==
  \A t \in DOMAIN Masks, p \in ServerPages : {t, Masks[t]} \cap Shows(p) = {}

(* The inputs that each of the two scripts passes to run_discovery.        *)
ScriptInputs == [success  |-> [member_id |-> "12345"],
                 notfound |-> [member_id |-> "99999"]]

(* The step log and the draft that a script's runs have left, not always   *)
(* the same run.                                                           *)
OfThisLoop(file, s) ==
  /\ file.log \in Seq(TurnLog)
  /\ \A k \in DOMAIN file.log : Logged(file.log[k])
  /\ \A a \in file.draft : /\ Compiled(a, ScriptInputs[s]["member_id"])
                          /\ a.success = Field("savings_balance")

(* Earlier runs were of this loop, too.                                    *)
ASSUME EarlierAssumption ==
  \A s \in DOMAIN ScriptInputs : \A file \in Earlier[s] : OfThisLoop(file, s)

VARIABLES
  stage,
  script,     \* the discovery script that is run
  files,      \* per script: its step log and its draft, a set of one or empty
  approved,   \* the approved recipe, a set of one or empty
  review,     \* history: what the drafts and the log looked like when merged
  rung_log    \* of the replay's driver: the rung of each ladder it tried

trip == <<stage, script, files, approved, review, rung_log>>
tripVars == <<vars, inputs, fixed, drifted, page, nav, discovery, trip>>

NoFile   == [log |-> <<>>, draft |-> {}]
NoReview == [sound |-> FALSE, compared |-> FALSE, rungs |-> <<>>]
NoTask   == [artifact |-> [steps |-> <<>>], allowed |-> {}, on_stuck |-> TRUE]

TripInit ==
  /\ DiscoveryInit
  /\ stage = "discover"
  /\ script \in DOMAIN ScriptInputs
  /\ job.inputs = ScriptInputs[script]
  /\ files \in [success : Earlier.success, notfound : Earlier.notfound]
  /\ approved = {}
  /\ review = NoReview
  /\ rung_log = <<>>
  /\ task = NoTask /\ resumable = FALSE /\ start = 0 /\ pc = "done" /\ i = 1
  /\ obs = NoObservation /\ dismissals = 0 /\ attempts = 0 /\ recovered = <<>>
  /\ result = Running /\ raised = <<>> /\ acted = <<>> /\ resumes = 0
  /\ inputs = job.inputs /\ fixed = FALSE

Discovering ==
  /\ stage = "discover"
  /\ DiscoveryStep
  /\ UNCHANGED <<vars, inputs, fixed, trip>>

(* The page that discovery looks at arrives between two calls.             *)
PageArrives ==
  /\ stage = "discover"
  /\ phase # "ended"
  /\ NavCommits
  /\ UNCHANGED <<vars, inputs, fixed, drifted, discovery, trip>>

-----------------------------------------------------------------------------
(* The step log is written after each run that returned, the draft file    *)
(* only when there is a draft: otherwise an earlier one stays.             *)
Evidence ==
  IF stop = "raised" THEN files[script]
  ELSE [log   |-> turns,
        draft |-> IF draft = {} THEN files[script].draft ELSE draft]

(* The discovery script ends and its browser is closed.                    *)
WriteEvidence ==
  /\ stage = "discover"
  /\ phase = "ended"
  /\ files' = [files EXCEPT ![script] = Evidence]
  /\ stage' = "merge"
  /\ stop' = "saved"
  /\ turns' = <<>>
  /\ draft' = {}
  /\ page' = job.entry
  /\ nav' = NoNav
  /\ seen' = LivePerceive(job.entry)
  /\ UNCHANGED <<vars, inputs, fixed, job, phase, drifted, script, approved, review,
                 rung_log>>

-----------------------------------------------------------------------------
(* redact() on the way to the file masks account-shaped numbers in every   *)
(* string; in a recipe these are in what the model called a control, and   *)
(* in the name it gave an outcome.                                         *)
Redacted(text) == IF text \in DOMAIN Masks THEN Masks[text] ELSE text

RedactedLadder(ladder) ==
  [r \in DOMAIN ladder |-> [ladder[r] EXCEPT !.value = Redacted(@)]]

RedactedSteps(steps) ==
  [k \in DOMAIN steps |-> [steps[k] EXCEPT !.target = RedactedLadder(@)]]

Merged_BugFirstGuessDropped(success, notfound) ==
  [success EXCEPT
     !.steps = [k \in DOMAIN success.steps |->
                  [success.steps[k] EXCEPT !.target = IF @ = <<>> THEN @ ELSE Tail(@)]],
     !.known_outcomes = notfound.known_outcomes]

Merged_BugBothDraftsSteps(success, notfound) ==
  [success EXCEPT
     !.steps = RedactedSteps(notfound.steps \o @),
     !.known_outcomes = notfound.known_outcomes]

(* The steps of the success draft with the outcome of the other one.       *)
Merged(success, notfound) ==
  [success EXCEPT
     !.steps = RedactedSteps(@),
     !.known_outcomes = [k \in DOMAIN notfound.known_outcomes |->
                           [notfound.known_outcomes[k] EXCEPT !.name = Redacted(@)]]]

(* What a person who approves a recipe sees to in the two drafts: the      *)
(* typed text is the input, the search is submitted and led to the member, *)
(* the balance is among the outputs, and the other run's outcome is        *)
(* recognised by the not-found page.                                       *)
Sound(s, n) ==
  /\ \A k \in DOMAIN s.steps :
       /\ s.steps[k].action = "type" => s.steps[k].value_from = "member_id"
       /\ s.steps[k].action = "click" => s.steps[k].checkpoint = Screen("detail")
  /\ {"type", "click"} \subseteq {s.steps[k].action : k \in DOMAIN s.steps}
  /\ "savings_balance" \in s.outputs
  /\ \A k \in DOMAIN n.known_outcomes : n.known_outcomes[k].detect = Screen("not_found")

(* The step log beside a draft is of a run with the steps of the draft: it *)
(* may be of a later run that came to none.                                *)
SameRun(s, log) ==
  /\ Len(s.steps) = Len(log)
  /\ \A k \in DOMAIN s.steps : log[k].ok /\ s.steps[k].target = log[k].ladder

(* No script reads the files after the merge, so the model forgets them.   *)
Merge ==
  /\ stage = "merge"
  /\ \E s \in files.success.draft, n \in files.notfound.draft :
       /\ Len(n.known_outcomes) = 1
       /\ approved' = {Merged(s, n)}
       /\ review' = [sound    |-> Sound(s, n),
                     compared |-> SameRun(s, files.success.log),
                     rungs    |-> [k \in DOMAIN files.success.log |-> files.success.log[k].rung]]
  /\ files' = [f \in DOMAIN files |-> NoFile]
  /\ stage' = "approved"
  /\ UNCHANGED <<vars, inputs, fixed, drifted, page, nav, discovery, script, rung_log>>

(* A draft is missing, or the second has no outcome to merge.              *)
RefuseMerge ==
  /\ stage = "merge"
  /\ \A s \in files.success.draft, n \in files.notfound.draft : Len(n.known_outcomes) # 1
  /\ stage' = "refused"
  /\ UNCHANGED <<vars, inputs, fixed, drifted, page, nav, discovery, script, files, approved,
                 review, rung_log>>

-----------------------------------------------------------------------------
(* One scenario of run_replay.py: a fresh browser on the entry page, with  *)
(* or without its flags.                                                   *)
StartReplay ==
  /\ stage = "approved"
  /\ stage' = "replay"
  /\ \E recipe \in approved, allowed \in Allowlists :
       /\ task' = [artifact |-> recipe, allowed |-> allowed, on_stuck |-> TRUE]
       /\ acted' = [k \in DOMAIN recipe.steps |-> 0]
  /\ inputs' \in Inputs
  /\ drifted' \in Drifts
  /\ page' \in {SearchPage(slow, hide) : slow, hide \in BOOLEAN}
  /\ nav' = NoNav
  /\ pc' = "step"
  /\ UNCHANGED <<resumable, start, i, obs, dismissals, attempts, recovered, result, raised,
                 resumes, fixed, discovery, script, files, approved, review, rung_log>>

(* act() enters the rung of each ladder it tries, 0 for one that is        *)
(* exhausted; a wait has no ladder, and so no entry.                       *)
RungOf(step) == IF step.target = <<>> THEN <<>> ELSE <<ResolvedRung(step.target, page)>>

Replaying ==
  /\ stage = "replay"
  /\ pc # "done"
  /\ \/ LiveEngineStep \/ PerceiveRaises
     \/ NavCommit
  /\ rung_log' = IF acted' # acted THEN rung_log \o RungOf(Steps[i]) ELSE rung_log
  /\ UNCHANGED <<discovery, stage, script, files, approved, review>>

TripNext ==
  \/ Discovering \/ PageArrives \/ WriteEvidence
  \/ Merge \/ RefuseMerge
  \/ StartReplay \/ Replaying

(* As in Discovery; the scripts after it are run by a person, or not.      *)
TripSpec == TripInit /\ [][TripNext]_tripVars /\ WF_tripVars(Discovering)

-----------------------------------------------------------------------------
(* Properties.                                                             *)

Ended == result.status # "running"

(* No recipe that comes out of a discovery answers with the data of the    *)
(* member it was recorded with, whatever the model decided then: a success *)
(* is about the member the caller asks for.                                *)
NothingFrozen ==
  result.status = "success" =>
    /\ Known
    /\ \A f \in DOMAIN result.outputs : result.outputs[f] = Cells(Member)[f]

(* A recipe whose drafts were reviewed serves every member, on fast and    *)
(* slow pages, with the search button's name changed too: the balance for  *)
(* a known one, a business outcome for an unknown one.  On a slow page an  *)
(* unknown member may also be a failure, and perceive() may raise.         *)
ReviewedRecipeServes ==
  (stage = "replay" /\ Ended /\ review.sound /\ ~page.hide /\ drifted \subseteq {"button::Search"}) =>
    \/ Known /\ result.status = "success" /\ "savings_balance" \in DOMAIN result.outputs
    \/ ~Known /\ result.status = "business_outcome"
    \/ page.slow /\ (result.status = "raised" \/ (~Known /\ Stuck))

(* Replayed for the member it was recorded with, a recipe finds each of    *)
(* its controls on the rung that discovery found it on, so that the two    *)
(* step logs can be compared line by line; a wait, which has no rung and   *)
(* no entry in the driver's log, would shift the lines.                    *)
SameRungs ==
  (/\ stage = "replay"
   /\ result.status = "success"
   /\ Member = ScriptInputs.success["member_id"]
   /\ drifted = {}
   /\ review.sound /\ review.compared
   /\ \A k \in DOMAIN Steps : Steps[k].action # "wait") => rung_log = review.rungs
=============================================================================
