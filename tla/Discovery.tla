------------------------------ MODULE Discovery ------------------------------
(***************************************************************************)
(* The discovery loop, app/discovery.py: show the page to a language model,*)
(* carry out the one action it decides, look again, and compile the turns  *)
(* of a run that reached its goal, or a business outcome, into a draft.    *)
(*                                                                         *)
(* The model may decide anything in Decisions at any time: its decision is *)
(* about the page it was shown, which need not be the page that is there   *)
(* when the action is carried out.                                         *)
(*                                                                         *)
(* phase says where run_discovery is:                                      *)
(*   decide   head of the loop, or waiting for the model's decision        *)
(*   look     the decided action was issued to the driver, perceive() next *)
(*   ended    run_discovery has returned or raised                         *)
(***************************************************************************)
EXTENDS BankPage, FiniteSets

CONSTANTS
  Jobs,        \* what run_discovery is called with: inputs, success, entry page
  Decisions,   \* what the model may decide
  Words,       \* description -> its words in lower case
  Strip,       \* typed text -> the text without surrounding blanks
  MAX_STEPS

ASSUME JobsAssumption ==
  Jobs \subseteq [inputs  : [{"member_id"} -> Names \ {None}],
                  success : Checkpoint,
                  entry   : {SearchPage(slow, hide) : slow, hide \in BOOLEAN}]
ASSUME DecisionsAssumption ==
  Decisions \subseteq [action  : {"type", "click", "read", "wait", "done", "outcome"},
                       target  : Names,
                       value   : Names \cup {None},
                       outcome : Names]
ASSUME MaxStepsAssumption == MAX_STEPS \in Nat
(* The bank's member ids have no blanks around them.                       *)
ASSUME StripAssumption ==
  \A d \in Decisions : d.value \in DOMAIN MEMBERS => Strip[d.value] = d.value

VARIABLES
  job,     \* the arguments of run_discovery
  phase,
  seen,    \* the local variable obs
  turns,   \* the turns that acted; "done" and "outcome" end the loop
  stop,    \* stop_reason; "running" before there is one, "raised" after an
           \* exception, "saved" once a script has put the result into files
  draft    \* the artifact returned: a set of one, or empty for None

discovery == <<job, phase, seen, turns, stop, draft>>
discoveryVars == <<discovery, drifted, page, nav>>

-----------------------------------------------------------------------------
(* The words of a field's key, and the label _build_ladder makes of it.    *)
KeyWords == [member_id       |-> {"member", "id"},
             name            |-> {"name"},
             savings_balance |-> {"savings", "balance"}]
Title    == [member_id |-> "Member Id", name |-> "Name", savings_balance |-> "Savings Balance"]

(* The order of the rows, which is the order of the dict of fields.        *)
RowOrder == <<"member_id", "name", "savings_balance">>

Overlap(target, key) == Cardinality(Words[target] \cap KeyWords[key])

(* _best_label_match: the first of the fields that share most words with   *)
(* the description, "" when none shares any.                               *)
BestLabelMatch(target, fields) ==
  LET matching == {n \in DOMAIN RowOrder :
                     RowOrder[n] \in DOMAIN fields /\ Overlap(target, RowOrder[n]) > 0}
      best == {n \in matching : \A k \in matching :
                 Overlap(target, RowOrder[k]) <= Overlap(target, RowOrder[n])}
  IN IF best = {} THEN "" ELSE RowOrder[CHOOSE n \in best : \A k \in best : n <= k]

Rung(strategy, value) == [strategy |-> strategy, value |-> value]

(* _build_ladder; the second part of its answer is the field of a read.    *)
FieldKey(action, target, o) ==
  IF action = "read" THEN BestLabelMatch(target, o.fields) ELSE ""

BuildLadder(action, target, o) ==
  CASE action = "type" ->
         <<Rung("role_name", "textbox::" \o target), Rung("role_name", "textbox::")>>
    [] action = "click" ->
         <<Rung("role_name", "button::" \o target), Rung("role_name", "link::" \o target),
           Rung("role_name", "button::")>>
    [] action = "read" ->
         LET key == FieldKey(action, target, o)
         IN <<Rung("role_name", "cell::" \o target),
              Rung("attribute", "[aria-label=" \o target \o "]"),
              Rung("label_anchor", IF key = "" THEN target ELSE Title[key])>>
    [] OTHER -> <<>>

(* The strings that the loop makes of a description are strings, like any. *)
ASSUME StringsAssumption ==
  /\ {"", "search", "detail", "not_found", "unnamed_outcome", "textbox::", "button::"}
       \subseteq Names
  /\ \A key \in DOMAIN Title : key \in Names /\ Title[key] \in Names
  /\ \A d \in Decisions :
       {"textbox::" \o d.target, "button::" \o d.target, "link::" \o d.target,
        "cell::" \o d.target, "[aria-label=" \o d.target \o "]"} \subseteq Names
(* The member page is rows of text: it has no box, no button and no link,  *)
(* whatever the model calls the one it looks for.                          *)
ASSUME DecisionControlsAssumption ==
  \A d \in Decisions, id \in DOMAIN MEMBERS, hide \in BOOLEAN :
    {"textbox::" \o d.target, "textbox::", "button::" \o d.target, "link::" \o d.target,
     "button::"} \cap Shows(MemberPage(id, FALSE, hide)) = {}
(* No description is at once the text of one page's cell and, by its words,*)
(* the label of another page's row.                                        *)
ASSUME SteadyAssumption ==
  \A d \in Decisions, p \in ServerPages :
    Steady(BuildLadder(d.action, d.target, LivePerceive(p)))

-----------------------------------------------------------------------------
(* _compile_artifact.                                                      *)

(* The input that a typed text is, blanks aside; "" (None) for any other   *)
(* text, which the recipe then has no place for.                           *)
Binding(value) ==
  IF value \in {None, ""} THEN ""
  ELSE IF Strip[value] = job.inputs["member_id"] THEN "member_id" ELSE ""

CompileStep(turn) ==
  [action     |-> turn.action,
   target     |-> turn.ladder,
   value_from |-> IF turn.action = "type" THEN Binding(turn.value) ELSE "",
   checkpoint |-> IF turn.action = "click" THEN Screen(turn.after)
                  ELSE IF turn.action = "read" /\ turn.field # "" THEN Field(turn.field)
                  ELSE NoCheckpoint,
   retry_safe |-> TRUE]

CompileArtifact(ts, outcomes) ==
  [steps   |-> [k \in DOMAIN ts |-> CompileStep(ts[k])],
   success |-> job.success,
   outputs |-> {ts[k].field : k \in {n \in DOMAIN ts : ts[n].action = "read"}} \ {""},
   known_outcomes      |-> outcomes,
   known_interstitials |-> <<>>]

-----------------------------------------------------------------------------
DiscoveryInit ==
  /\ job \in Jobs
  /\ phase = "decide"
  /\ page = job.entry
  /\ nav = NoNav
  /\ drifted = {}
  /\ seen = LivePerceive(page)
  /\ turns = <<>>
  /\ stop = "running"
  /\ draft = {}

(* run_discovery returns; a draft comes with a success or an outcome only. *)
StopWith(reason, ts, outcomes) ==
  /\ phase' = "ended"
  /\ stop' = reason
  /\ draft' = IF reason \in {"success", "business_outcome"}
              THEN {CompileArtifact(ts, outcomes)} ELSE {}

(* The model is asked while the turns and the time last.                   *)
Asked == phase = "decide" /\ Len(turns) < MAX_STEPS

DecideDone_BugTakenAtItsWord ==
  /\ Asked
  /\ \E d \in Decisions : d.action = "done"
  /\ StopWith("success", turns, <<>>)
  /\ UNCHANGED <<job, seen, turns, page, nav, drifted>>

(* "done" is checked on the observation the model was shown.               *)
DecideDone ==
  /\ Asked
  /\ \E d \in Decisions : d.action = "done"
  /\ StopWith(IF Check(seen, job.success) THEN "success" ELSE "dead_end", turns, <<>>)
  /\ UNCHANGED <<job, seen, turns, page, nav, drifted>>

(* "outcome" is not checked: whatever screen was seen becomes its detector.*)
DecideOutcome ==
  /\ Asked
  /\ \E d \in Decisions :
       /\ d.action = "outcome"
       /\ StopWith("business_outcome", turns,
                   <<[name   |-> IF d.outcome = "" THEN "unnamed_outcome" ELSE d.outcome,
                      detect |-> Screen(seen.screen)]>>)
  /\ UNCHANGED <<job, seen, turns, page, nav, drifted>>

Turn(d, ladder) ==
  [action |-> d.action, value |-> d.value, ladder |-> ladder,
   rung   |-> IF d.action = "wait" THEN 0 ELSE ResolvedRung(ladder, page),
   field  |-> FieldKey(d.action, d.target, seen),
   ok     |-> ActOk(d.action, ladder), after |-> ""]

Do_BugOneTurnMore ==
  /\ phase = "decide"
  /\ Len(turns) <= MAX_STEPS
  /\ \E d \in Decisions :
       /\ d.action \in {"type", "click", "read", "wait"}
       /\ LET ladder == BuildLadder(d.action, d.target, seen)
          IN /\ DriverAct(d.action, ladder, d.value)
             /\ turns' = Append(turns, Turn(d, ladder))
  /\ phase' = "look"
  /\ UNCHANGED <<job, seen, stop, draft, drifted>>

(* The decided action goes to the driver.  Its turn is entered here, and   *)
(* completed by the perceive() that follows.                               *)
Do ==
  /\ Asked
  /\ \E d \in Decisions :
       /\ d.action \in {"type", "click", "read", "wait"}
       /\ LET ladder == BuildLadder(d.action, d.target, seen)
          IN /\ DriverAct(d.action, ladder, d.value)
             /\ turns' = Append(turns, Turn(d, ladder))
  /\ phase' = "look"
  /\ UNCHANGED <<job, seen, stop, draft, drifted>>

LastTurn == turns[Len(turns)]

Look_BugGoalBeforeOk ==
  /\ phase = "look"
  /\ seen' = LivePerceive(page)
  /\ turns' = [turns EXCEPT ![Len(turns)].after = seen'.screen]
  /\ \/ /\ LastTurn.action = "read" /\ Check(seen', job.success)
        /\ StopWith("success", turns', <<>>)
     \/ /\ ~(LastTurn.action = "read" /\ Check(seen', job.success))
        /\ ~LastTurn.ok
        /\ StopWith("dead_end", turns', <<>>)
     \/ /\ ~(LastTurn.action = "read" /\ Check(seen', job.success))
        /\ LastTurn.ok
        /\ phase' = "decide"
        /\ UNCHANGED <<stop, draft>>
  /\ UNCHANGED <<job, page, nav, drifted>>

Look_BugFailedTurnNotCounted ==
  /\ phase = "look"
  /\ seen' = LivePerceive(page)
  /\ \/ /\ ~LastTurn.ok
        /\ turns' = SubSeq(turns, 1, Len(turns) - 1)
        /\ phase' = "decide"
        /\ UNCHANGED <<stop, draft>>
     \/ /\ LastTurn.ok
        /\ turns' = [turns EXCEPT ![Len(turns)].after = seen'.screen]
        /\ \/ /\ LastTurn.action = "read" /\ Check(seen', job.success)
              /\ StopWith("success", turns', <<>>)
           \/ /\ ~(LastTurn.action = "read" /\ Check(seen', job.success))
              /\ phase' = "decide"
              /\ UNCHANGED <<stop, draft>>
  /\ UNCHANGED <<job, page, nav, drifted>>

(* What perceive() shows completes the turn.  A turn that did nothing ends *)
(* the run; only a read can conclude it.                                   *)
Look ==
  /\ phase = "look"
  /\ seen' = LivePerceive(page)
  /\ turns' = [turns EXCEPT ![Len(turns)].after = seen'.screen]
  /\ \/ /\ ~LastTurn.ok
        /\ StopWith("dead_end", turns', <<>>)
     \/ /\ LastTurn.ok
        /\ LastTurn.action = "read" /\ Check(seen', job.success)
        /\ StopWith("success", turns', <<>>)
     \/ /\ LastTurn.ok
        /\ ~(LastTurn.action = "read" /\ Check(seen', job.success))
        /\ phase' = "decide"
        /\ UNCHANGED <<stop, draft>>
  /\ UNCHANGED <<job, page, nav, drifted>>

OutOfTurns ==
  /\ phase = "decide"
  /\ Len(turns) = MAX_STEPS
  /\ StopWith("max_steps", turns, <<>>)
  /\ UNCHANGED <<job, seen, turns, page, nav, drifted>>

(* The clock is looked at between turns, and at no other time.             *)
Timeout ==
  /\ Asked
  /\ StopWith("timeout", turns, <<>>)
  /\ UNCHANGED <<job, seen, turns, page, nav, drifted>>

(* No exception of the model's client or of the driver is caught: neither  *)
(* turns nor artifact are returned.                                        *)
DiscoveryRaises ==
  /\ phase # "ended"
  /\ StopWith("raised", turns, <<>>)
  /\ UNCHANGED <<job, seen, turns, page, nav, drifted>>

DiscoveryStep ==
  DecideDone \/ DecideOutcome \/ Do \/ Look \/ OutOfTurns \/ Timeout \/ DiscoveryRaises

DiscoveryNext ==
  \/ DiscoveryStep
  \/ phase # "ended" /\ NavCommits /\ UNCHANGED <<discovery, drifted>>

(* The loop is one thread.  Each driver call returns or raises; that the   *)
(* model's client does is an assumption, since the code gives it no limit. *)
DiscoverySpec ==
  DiscoveryInit /\ [][DiscoveryNext]_discoveryVars /\ WF_discoveryVars(DiscoveryStep)

-----------------------------------------------------------------------------
(* What discovery leaves in its two files.                                 *)

(* A turn that found its control did so on some page of the server, at the *)
(* rung that the log names.                                                *)
Logged(turn) ==
  turn.ok /\ turn.ladder # <<>> =>
    \E p \in ServerPages : FoundAt(turn.ladder, Shows(p), turn.rung)

Offers(step, value) == \E r \in DOMAIN step.target : step.target[r].value = value

Finds(target, p) == \E r \in DOMAIN target : target[r].value \in Shows(p)

(* What a click looks for is a button or a link, and those are on no       *)
(* member page.                                                            *)
OffMemberPage(target) ==
  \A id \in DOMAIN MEMBERS, hide \in BOOLEAN : ~Finds(target, MemberPage(id, FALSE, hide))

CompiledStep(step) ==
  /\ step.value_from \in {"", "member_id"}
  /\ Len(step.target) <= 3
  /\ Steady(step.target)
  /\ \/ step.action = "type" /\ Offers(step, "textbox::") /\ step.checkpoint = NoCheckpoint
     \/ /\ step.action = "click" /\ Offers(step, "button::") /\ OffMemberPage(step.target)
        /\ step.checkpoint.kind = "screen"
     \/ /\ step.action = "read" /\ step.target # <<>>
        /\ step.checkpoint \in {NoCheckpoint} \cup {Field(f) : f \in DOMAIN Labels}
     \/ step.action = "wait" /\ step.target = <<>> /\ step.checkpoint = NoCheckpoint

(* The click that brought up a member.                                     *)
Led(step) == step.action = "click" /\ step.checkpoint = Screen("detail")

(* The steps of a draft fit together: nothing is typed or clicked where    *)
(* there is nothing to type into or to click, and what was read was there, *)
(* on the search page or, if only the input was typed, on member's page.   *)
InOrder(steps, k, member) ==
  /\ steps[k].action \in {"type", "click"} => \A j \in 1..(k - 1) : ~Led(steps[j])
  /\ steps[k].action = "read" =>
       /\ \/ \E j \in 1..(k - 1) : steps[j].action = "click"
          \/ steps[k].checkpoint = NoCheckpoint /\ Finds(steps[k].target, SearchPage(FALSE, FALSE))
       /\ \/ \A j \in 1..(k - 1) : ~Led(steps[j])
          \/ \E j \in 1..(k - 1) : steps[j].action = "type" /\ steps[j].value_from = ""
          \/ Finds(steps[k].target, MemberPage(member, FALSE, FALSE))

(* The draft of a run for this member.                                     *)
Compiled(a, member) ==
  /\ a \in CapabilityArtifact
  /\ a.outputs \subseteq DOMAIN Labels
  /\ a.known_interstitials = <<>>
  /\ \A k \in DOMAIN a.steps : CompiledStep(a.steps[k]) /\ InOrder(a.steps, k, member)

-----------------------------------------------------------------------------
(* Properties.                                                             *)

TurnLog == [action : {"type", "click", "read", "wait"}, value : Names \cup {None},
            ladder : Seq(Locator), rung : 0..3, field : {""} \cup DOMAIN Title,
            ok : BOOLEAN, after : {"", "search", "detail", "not_found"}]

StopReason == {"success", "business_outcome", "max_steps", "timeout", "dead_end"}

(* Every variable of the loop holds a value of its type; there are at most *)
(* MAX_STEPS turns, and a run stops exactly with a reason.                 *)
DiscoveryTypeOK ==
  /\ job \in Jobs
  /\ phase \in {"decide", "look", "ended"}
  /\ seen.screen \in {"search", "detail", "not_found"}
  /\ turns \in Seq(TurnLog)
  /\ Len(turns) <= MAX_STEPS
  /\ stop \in StopReason \cup {"running", "raised", "saved"}
  /\ (stop = "running") <=> (phase # "ended")
  /\ draft \subseteq CapabilityArtifact

(* A run that says it succeeded did: the goal shows on the page that is    *)
(* there, although "done" is judged on what was seen before the model was  *)
(* asked, and the page may have changed since.                             *)
GoalReached == stop = "success" => Check(LivePerceive(page), job.success)

(* A draft is compiled for a success and for a business outcome only, and  *)
(* each of its steps is one that the driver was able to carry out.         *)
DraftWasCarriedOut ==
  /\ draft # {} <=> stop \in {"success", "business_outcome"}
  /\ draft # {} => \A k \in DOMAIN turns : turns[k].ok

(* Discovery ends, whatever the model decides and the page shows.          *)
DiscoveryEnds == phase # "ended" ~> phase = "ended"

-----------------------------------------------------------------------------
(* What the repository says of the program and the code does not do.       *)

(* app/discovery.py:296-303: only a read can conclude the goal, so that    *)
(* the loop does not stop with "a draft with a passing success checkpoint  *)
(* but no declared output".                                                *)
SuccessDeclaresOutput == \A a \in draft : stop = "success" => a.outputs # {}
=============================================================================
