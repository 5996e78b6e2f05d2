-------------------------- MODULE LiveReplay_proofs --------------------------
(***************************************************************************)
(* A run on the live page is one of the engine, and its result is about the*)
(* member that was asked for: for any table of members, any recipes that   *)
(* search and read, any controls the page may have lost, and any pauses,   *)
(* human navigations and resumes.  A resumed run does not search again; on a*)
(* page that has its controls no known member is reported not found, and a *)
(* slow page is got over.                                                  *)
(*                                                                         *)
(* The argument: whatever text reaches the page is the one the caller gave *)
(* or none, so the member page shown, or on its way, is that member's or   *)
(* nobody's; so whatever was read is about that member; so is a result     *)
(* made of it (LiveInv).  After the human's navigation no step of a recipe *)
(* finds anything to type into or to click (FixedPage).  With the controls *)
(* there the id is in the box before the search is sent, so the page on its*)
(* way is the member's, never nobody's (Searches).  The attempts left to a *)
(* slow page and the waits already made are together fewer than it takes at*)
(* all (InTime), so it is there before the engine gives up (ArriveInv).    *)
(***************************************************************************)
EXTENDS LiveReplay, Replay_proofs

(* What may stand in the text box, and whose page may be shown.            *)
Own == {"", Member}

OwnPage == [path : {"search", "member"}, member : Own, box : Own,
            slow : BOOLEAN, hide : BOOLEAN]
OwnNav  == [to : Own, slow : BOOLEAN, hide : BOOLEAN, attempts : 1..SlowAttempts]

PageInv == page \in OwnPage /\ (nav = NoNav \/ nav \in OwnNav)

(* Values that are those of the member asked for, and no others.           *)
About_Member(fields) ==
  \A f \in DOMAIN fields : Known /\ fields[f] = Cells(Member)[f]

(* The recipe types nothing but the member id.                             *)
TypesTheInput ==
  /\ \A k \in DOMAIN Steps : Steps[k].value_from \in {"", "member_id"}
  /\ "" \notin DOMAIN inputs

(* The engine is within the recipe, also where it would be resumed.        *)
Within ==
  /\ Len(Steps) \in Nat
  /\ DOMAIN Steps = 1..Len(Steps)
  /\ i \in 1..Goal
  /\ result.status = "paused" => result.step \in 1..Goal

(* A success was made of the observation the engine still has.             *)
MadeOfObs ==
  result.status = "success" =>
    /\ pc = "done"
    /\ result.outputs = OutputsOf(Artifact, obs)
    /\ OutputsPresent
    /\ Check(obs, Artifact.success)

LiveInv ==
  PageInv /\ TypesTheInput /\ About_Member(obs.fields) /\ Within /\ MadeOfObs

-----------------------------------------------------------------------------
(* A step types what the caller gave, or nothing.                          *)
LEMMA TypedIsOwn ==
  ASSUME NEW step, "" \notin DOMAIN inputs, step.value_from \in {"", "member_id"}
  PROVE  (IF ValueOf(step, inputs) = None THEN "" ELSE ValueOf(step, inputs)) \in Own
BY DEF ValueOf, Own, Member

(* The search page is nobody's.                                            *)
LEMMA SearchPageIsOwn ==
  ASSUME NEW slow \in BOOLEAN, NEW hide \in BOOLEAN
  PROVE  SearchPage(slow, hide) \in OwnPage
BY DEF SearchPage, OwnPage, Own

(* What perceive() makes of a page that stays.                             *)
LEMMA OnePageRead ==
  ASSUME NEW p
  PROVE  LivePerceive(p) =
           [screen |-> IF NoSuchMember(p) THEN "not_found"
                       ELSE IF p.path = "member" THEN "detail" ELSE "search",
            fields |-> [f \in Rows(p) |-> Cells(p.member)[f]]]
<1> DEFINE screen == IF NoSuchMember(p) THEN "not_found"
                     ELSE IF p.path = "member" THEN "detail" ELSE "search"
<1>1. (IF screen = "detail" THEN Rows(p) ELSE {}) = Rows(p)
  BY DEF Rows, NoSuchMember
<1>2. LivePerceive(p) =
        [screen |-> screen,
         fields |-> [f \in (IF screen = "detail" THEN Rows(p) ELSE {}) |-> Cells(p.member)[f]]]
  BY Zenon DEF LivePerceive, PerceiveFrom
<1> QED
  BY <1>1, <1>2, Zenon

(* perceive() reads the values of the member whose page is shown.          *)
LEMMA PerceivesOwn ==
  ASSUME PageInv
  PROVE  About_Member(LivePerceive(page).fields)
<1>1. LivePerceive(page).fields = [f \in Rows(page) |-> Cells(page.member)[f]]
  BY OnePageRead DEF NoSuchMember
<1>2. ASSUME NEW f \in Rows(page)
      PROVE  page.member = Member /\ Known
  <2>1. page.member \in DOMAIN MEMBERS
    BY <1>2 DEF Rows
  <2>2. page.member \in Own
    BY DEF PageInv, OwnPage
  <2> QED BY <2>1, <2>2, MembersAssumption DEF Own, Known
<1> QED BY <1>1, <1>2 DEF About_Member

(* A navigation that commits shows the page it was for.                    *)
LEMMA CommitIsOwn ==
  ASSUME NEW n \in OwnNav
  PROVE  Commit(n) \in OwnPage
BY DEF Commit, MemberPage, OwnPage, OwnNav, Own

(* A wait leaves the page, or brings the one in flight.                    *)
LEMMA WaitKeepsPage ==
  ASSUME NEW p \in OwnPage, NEW n, n = NoNav \/ n \in OwnNav,
         WaitBriefly(p, n), UNCHANGED inputs
  PROVE  PageInv'
<1>0. Own' = Own /\ OwnPage' = OwnPage /\ OwnNav' = OwnNav
  BY DEF Own, OwnPage, OwnNav, Member
<1>1. CASE n = NoNav
  BY <1>0, <1>1 DEF WaitBriefly, PageInv
<1>2. CASE n # NoNav /\ n.attempts = 1
  BY <1>0, <1>2, CommitIsOwn DEF WaitBriefly, PageInv
<1>3. CASE n # NoNav /\ n.attempts # 1
  <2>1. page' = p /\ nav' = [n EXCEPT !.attempts = @ - 1] /\ n \in OwnNav
    BY <1>3 DEF WaitBriefly
  <2>2. n.attempts - 1 \in 1..SlowAttempts
    BY <1>3, <2>1, SlowAttemptsAssumption DEF OwnNav
  <2>3. nav' \in OwnNav
    BY <2>1, <2>2 DEF OwnNav
  <2> QED BY <1>0, <2>1, <2>3 DEF PageInv
<1> QED BY <1>1, <1>2, <1>3

(* A fast page takes one attempt, a slow one all of them.                  *)
LEMMA AttemptsInRange == 1 \in 1..SlowAttempts /\ SlowAttempts \in 1..SlowAttempts
<1>1. SlowAttempts \in Nat /\ SlowAttempts # 0
  BY SlowAttemptsAssumption
<1>2. SlowAttempts \in Nat /\ 1 <= SlowAttempts
  BY <1>1
<1> QED BY <1>2

(* act() keeps the page within the member's own, if the text it types is.  *)
LEMMA ActKeepsPage ==
  ASSUME PageInv, UNCHANGED inputs, NEW action, NEW target, NEW value,
         (IF value = None THEN "" ELSE value) \in Own,
         DriverAct(action, target, value)
  PROVE  PageInv'
<1>0. Own' = Own /\ OwnPage' = OwnPage /\ OwnNav' = OwnNav
  BY DEF Own, OwnPage, OwnNav, Member
<1>1. page \in OwnPage /\ (nav = NoNav \/ nav \in OwnNav)
  BY DEF PageInv
<1>2. Submitted(page) \in OwnNav
  <2>1. page.box \in Own /\ page.slow \in BOOLEAN /\ page.hide \in BOOLEAN
    BY <1>1 DEF OwnPage
  <2>2. (IF page.slow THEN SlowAttempts ELSE 1) \in 1..SlowAttempts
    <3>1. 1 \in 1..SlowAttempts /\ SlowAttempts \in 1..SlowAttempts
      BY AttemptsInRange
    <3>2. CASE page.slow
      BY <3>1, <3>2, Zenon
    <3>3. CASE ~page.slow
      BY <3>1, <3>3, Zenon
    <3> QED BY <3>2, <3>3
  <2> QED BY <2>1, <2>2 DEF Submitted, OwnNav
<1>3. CASE WaitBriefly(page, nav)
  BY <1>1, <1>3, WaitKeepsPage
<1>4. CASE WaitBriefly(page, Submitted(page))
  BY <1>1, <1>2, <1>4, WaitKeepsPage
<1>5. CASE page' = [page EXCEPT !.box = IF value = None THEN "" ELSE value] /\ UNCHANGED nav
  <2>1. page' \in OwnPage
    BY <1>1, <1>5 DEF OwnPage
  <2> QED BY <1>0, <1>1, <1>5, <2>1 DEF PageInv
<1>6. CASE UNCHANGED <<page, nav>>
  BY <1>0, <1>1, <1>6 DEF PageInv
<1> QED BY <1>3, <1>4, <1>5, <1>6 DEF DriverAct

-----------------------------------------------------------------------------
(* What a step that does not concern the page keeps of the invariant.      *)

(* The observation of a call that has seen nothing has no fields.          *)
LEMMA NothingSeen ==
  ASSUME NEW o, o = NoObservation
  PROVE  DOMAIN o.fields = {}
<1>1. o.fields = <<>>
  BY DEF NoObservation
<1>2. DOMAIN <<>> = {}
  OBVIOUS
<1> QED BY <1>1, <1>2

(* The values read are the member's as long as nothing else is read.       *)
LEMMA FieldsKept ==
  ASSUME LiveInv, UNCHANGED inputs, obs' = obs \/ obs' = LivePerceive(page)
  PROVE  About_Member(obs.fields)'
<1>1. About_Member(obs'.fields)
  BY PerceivesOwn DEF LiveInv
<1>2. Member' = Member /\ Known' = Known
  BY DEF Member, Known
<1> QED BY <1>1, <1>2 DEF About_Member, Cells

(* An unchanged page stays within the member's own.                        *)
LEMMA PageKept ==
  ASSUME PageInv, UNCHANGED <<inputs, page, nav>>
  PROVE  PageInv'
BY DEF PageInv, OwnPage, OwnNav, Own, Member

(* The recipe and the inputs of a run are those it was called with.        *)
LEMMA RecipeKept ==
  ASSUME TypesTheInput, UNCHANGED <<task, inputs>>
  PROVE  TypesTheInput' /\ Steps' = Steps /\ Goal' = Goal
BY DEF TypesTheInput, Steps, Artifact, Goal

(* A step of the engine that is no success, and how it may move.           *)
LEMMA Moves ==
  ASSUME LiveInv, UNCHANGED <<task, inputs>>,
         i' = i \/ (i < Goal /\ i' = i + 1),
         \/ pc # "done" /\ result' = result
         \/ result'.status # "success" /\ (result'.status = "paused" => result'.step = i /\ i' = i)
  PROVE  Within' /\ MadeOfObs'
<1>1. Steps' = Steps /\ Goal' = Goal /\ Goal = Len(Steps) + 1
  BY DEF Steps, Artifact, Goal
<1>2. Within'
  BY <1>1 DEF LiveInv, Within
<1>3. MadeOfObs'
  BY DEF LiveInv, MadeOfObs
<1> QED BY <1>2, <1>3

-----------------------------------------------------------------------------
(* One lemma per kind of step.                                             *)

(* perceive(), wherever the engine calls it.                               *)
LEMMA LookingKeeps ==
  ASSUME LiveInv, Looking, UNCHANGED world
  PROVE  LiveInv'
<1>1. /\ UNCHANGED <<task, inputs, page, nav, i, result>>
      /\ obs' = LivePerceive(page)
      /\ pc # "done"
  BY DEF Looking, Perceive, TrustPaused, FinalLook, AfterWait, call, world
<1>2. PageInv' /\ TypesTheInput'
  BY <1>1, PageKept, RecipeKept DEF LiveInv
<1>3. About_Member(obs.fields)'
  BY <1>1, FieldsKept
<1>4. Within' /\ MadeOfObs'
  BY <1>1, Moves
<1> QED BY <1>2, <1>3, <1>4 DEF LiveInv

(* What the engine decides on what it has seen, short of a success.        *)
LEMMA DecidingKeeps ==
  ASSUME LiveInv, BusinessOutcome \/ NoOutcome \/ GiveUp \/ StepDone, UNCHANGED world
  PROVE  LiveInv'
<1>1. UNCHANGED <<task, inputs, page, nav, obs>>
  BY DEF BusinessOutcome, NoOutcome, GiveUp, StepDone, call, world
<1>2. i' = i \/ (i < Goal /\ i' = i + 1)
  BY DEF BusinessOutcome, NoOutcome, GiveUp, StepDone
<1>3. \/ pc # "done" /\ result' = result
      \/ result'.status # "success" /\ (result'.status = "paused" => result'.step = i /\ i' = i)
  BY DEF BusinessOutcome, NoOutcome, GiveUp, StepDone, Fail, Return
<1>4. PageInv' /\ TypesTheInput'
  BY <1>1, PageKept, RecipeKept DEF LiveInv
<1>5. About_Member(obs.fields)'
  BY <1>1, FieldsKept
<1>6. Within' /\ MadeOfObs'
  BY <1>1, <1>2, <1>3, Moves
<1> QED BY <1>4, <1>5, <1>6 DEF LiveInv

(* A success is made of the observation that satisfied the goal.           *)
LEMMA SucceedKeeps ==
  ASSUME LiveInv, Succeed, UNCHANGED world
  PROVE  LiveInv'
<1>1. UNCHANGED <<task, inputs, page, nav, obs, i>>
  BY DEF Succeed, call, world
<1>2. PageInv' /\ TypesTheInput'
  BY <1>1, PageKept, RecipeKept DEF LiveInv
<1>3. About_Member(obs.fields)'
  BY <1>1, FieldsKept
<1>4. Within'
  BY <1>1 DEF LiveInv, Within, Steps, Artifact, Goal, Succeed, Return
<1>5. MadeOfObs'
  <2>1. pc' = "done" /\ result'.outputs = OutputsOf(Artifact, obs)
    BY DEF Succeed, Return
  <2>2. OutputsPresent /\ Check(obs, Artifact.success)
    BY DEF Succeed, Expected
  <2> QED BY <1>1, <2>1, <2>2 DEF MadeOfObs, OutputsPresent, Artifact, OutputsOf, Check
<1> QED BY <1>2, <1>3, <1>4, <1>5 DEF LiveInv

(* The step's action types what the caller gave, or nothing.               *)
LEMMA ActKeeps ==
  ASSUME LiveInv, Act, LiveAct(Steps[i])
  PROVE  LiveInv'
<1>1. UNCHANGED <<task, inputs, i, result, obs>> /\ pc # "done" /\ i < Goal
  BY DEF Act, LiveAct, call
<1>2. i \in DOMAIN Steps
  BY <1>1 DEF LiveInv, Within, Goal
<1>3. PageInv'
  <2>1. (IF ValueOf(Steps[i], inputs) = None THEN "" ELSE ValueOf(Steps[i], inputs)) \in Own
    BY <1>2, TypedIsOwn DEF LiveInv, TypesTheInput
  <2>2. DriverAct(Steps[i].action, Steps[i].target, ValueOf(Steps[i], inputs))
    BY DEF LiveAct
  <2> QED BY <1>1, <2>1, <2>2, ActKeepsPage DEF LiveInv
<1>4. TypesTheInput'
  BY <1>1, RecipeKept DEF LiveInv
<1>5. About_Member(obs.fields)'
  BY <1>1, FieldsKept
<1>6. Within' /\ MadeOfObs'
  BY <1>1, Moves
<1> QED BY <1>3, <1>4, <1>5, <1>6 DEF LiveInv

(* The wait of a retry brings the page in flight, or leaves the page.      *)
LEMMA RetryKeeps ==
  ASSUME LiveInv, Retry, WaitBriefly(page, nav), UNCHANGED inputs
  PROVE  LiveInv'
<1>1. UNCHANGED <<task, inputs, i, result, obs>> /\ pc # "done"
  BY DEF Retry, call
<1>2. PageInv'
  BY <1>1, WaitKeepsPage DEF LiveInv, PageInv
<1>3. TypesTheInput'
  BY <1>1, RecipeKept DEF LiveInv
<1>4. About_Member(obs.fields)'
  BY <1>1, FieldsKept
<1>5. Within' /\ MadeOfObs'
  BY <1>1, Moves
<1> QED BY <1>2, <1>3, <1>4, <1>5 DEF LiveInv

(* perceive() raises; the result names the step and is no success.         *)
LEMMA RaiseKeeps ==
  ASSUME LiveInv, PerceiveRaises
  PROVE  LiveInv'
<1>1. UNCHANGED <<task, inputs, i, obs, page, nav>> /\ result'.status = "raised"
  BY DEF PerceiveRaises, DriverRaises, Running, call, world
<1>2. PageInv' /\ TypesTheInput'
  BY <1>1, PageKept, RecipeKept DEF LiveInv
<1>3. About_Member(obs.fields)'
  BY <1>1, FieldsKept
<1>4. Within' /\ MadeOfObs'
  BY <1>1, Moves
<1> QED BY <1>2, <1>3, <1>4 DEF LiveInv

(* A commit, or a human's navigation, concerns nothing but the page.       *)
LEMMA PageOnly ==
  ASSUME LiveInv, PageInv', UNCHANGED <<vars, inputs>>
  PROVE  LiveInv'
<1>1. UNCHANGED <<task, inputs, i, obs, pc, result>>
  BY DEF vars, call
<1>2. TypesTheInput'
  BY <1>1, RecipeKept DEF LiveInv
<1>3. About_Member(obs.fields)'
  BY <1>1, FieldsKept
<1>4. Within' /\ MadeOfObs'
  BY <1>1 DEF LiveInv, Within, MadeOfObs, Steps, Artifact, Goal, OutputsPresent
<1> QED BY <1>2, <1>3, <1>4 DEF LiveInv

(* The slow page arrives: it is the member's.                              *)
LEMMA CommitKeeps ==
  ASSUME LiveInv, NavCommit
  PROVE  LiveInv'
<1>1. page' = Commit(nav) /\ nav' = NoNav /\ nav # NoNav /\ UNCHANGED <<vars, inputs>>
  BY DEF NavCommit, NavCommits
<1>2. Commit(nav) \in OwnPage
  BY <1>1, CommitIsOwn DEF LiveInv, PageInv
<1>3. PageInv'
  BY <1>1, <1>2 DEF PageInv, OwnPage, Own, Member
<1> QED BY <1>1, <1>3, PageOnly

(* The human goes to the page of the member that the caller gave.          *)
LEMMA HumanKeeps ==
  ASSUME LiveInv, HumanFix
  PROVE  LiveInv'
<1>1. /\ page' = MemberPage(Member, FALSE, FALSE)
      /\ nav' = NoNav
      /\ UNCHANGED <<vars, inputs>>
  BY DEF HumanFix, Member
<1>2. PageInv'
  BY <1>1 DEF PageInv, MemberPage, OwnPage, Own, Member
<1> QED BY <1>1, <1>2, PageOnly

(* A resume is back at the paused step, with nothing seen yet.             *)
LEMMA ResumeKeeps ==
  ASSUME LiveInv, LiveResume
  PROVE  LiveInv'
<1>1. /\ UNCHANGED <<task, inputs, page, nav>>
      /\ result.status = "paused" /\ i' = result.step
      /\ obs' = NoObservation /\ result' = Running
  BY DEF LiveResume, Resume
<1>2. PageInv' /\ TypesTheInput'
  BY <1>1, PageKept, RecipeKept DEF LiveInv
<1>3. About_Member(obs.fields)'
  <2>1. DOMAIN obs'.fields = {}
    BY <1>1, NothingSeen
  <2> QED BY <2>1 DEF About_Member
<1>4. Within' /\ MadeOfObs'
  BY <1>1 DEF LiveInv, Within, MadeOfObs, Running, Steps, Artifact, Goal
<1> QED BY <1>2, <1>3, <1>4 DEF LiveInv

(* Every step of a run keeps the invariant.                                *)
LEMMA EngineKeeps ==
  ASSUME LiveInv, LiveEngineStep
  PROVE  LiveInv'
<1>1. CASE Act /\ LiveAct(Steps[i])
  BY <1>1, ActKeeps
<1>2. CASE Retry /\ WaitBriefly(page, nav) /\ UNCHANGED <<inputs, drifted, fixed>>
  BY <1>2, RetryKeeps
<1>3. CASE Looking /\ UNCHANGED world
  BY <1>3, LookingKeeps
<1>4. CASE Deciding /\ UNCHANGED world
  BY <1>4, DecidingKeeps, SucceedKeeps DEF Deciding
<1> QED BY <1>1, <1>2, <1>3, <1>4 DEF LiveEngineStep

-----------------------------------------------------------------------------
(* A run starts on the search page, with nothing seen.                     *)
LEMMA LiveInitInv == LiveInit => LiveInv
<1> SUFFICES ASSUME LiveInit PROVE LiveInv
  OBVIOUS
<1>1. task.artifact \in Artifacts /\ inputs \in Inputs
  BY DEF LiveInit, Init
<1>2. PageInv
  BY SearchPageIsOwn DEF LiveInit, PageInv
<1>3. TypesTheInput
  BY <1>1, LookupAssumption, InputsAssumption DEF TypesTheInput, Steps, Artifact
<1>4. About_Member(obs.fields)
  <2>1. obs = NoObservation
    BY DEF LiveInit, Init
  <2>2. DOMAIN obs.fields = {}
    BY <2>1, NothingSeen
  <2> QED BY <2>2 DEF About_Member
<1>5. Within
  <2>1. Steps \in Seq(Step)
    BY <1>1, ArtifactsAssumption DEF Steps, Artifact, CapabilityArtifact
  <2>2. Len(Steps) \in Nat /\ DOMAIN Steps = 1..Len(Steps)
    BY <2>1
  <2>3. i = 1 /\ result.status = "running"
    BY DEF LiveInit, Init, Running
  <2> QED BY <2>2, <2>3 DEF Within, Goal
<1>6. MadeOfObs
  BY DEF LiveInit, Init, Running, MadeOfObs
<1> QED BY <1>2, <1>3, <1>4, <1>5, <1>6 DEF LiveInv

(* Whatever was read is about the member asked for, in every state.        *)
THEOREM LiveReadsOwn == LiveSpec => []LiveInv
<1>1. LiveInit => LiveInv
  BY LiveInitInv
<1>2. LiveInv /\ [LiveNext]_liveVars => LiveInv'
  <2> SUFFICES ASSUME LiveInv, [LiveNext]_liveVars PROVE LiveInv'
    OBVIOUS
  <2>1. CASE LiveEngineStep
    BY <2>1, EngineKeeps
  <2>2. CASE PerceiveRaises
    BY <2>2, RaiseKeeps
  <2>3. CASE NavCommit
    BY <2>3, CommitKeeps
  <2>4. CASE HumanFix
    BY <2>4, HumanKeeps
  <2>5. CASE LiveResume
    BY <2>5, ResumeKeeps
  <2>6. CASE UNCHANGED liveVars
    <3>1. UNCHANGED <<vars, inputs, page, nav>>
      BY <2>6 DEF liveVars, world
    <3> QED BY <3>1, PageKept, PageOnly DEF LiveInv
  <2> QED BY <2>1, <2>2, <2>3, <2>4, <2>5, <2>6 DEF LiveNext
<1> QED BY <1>1, <1>2, PTL DEF LiveSpec

(* No step of a run exchanges its recipe.                                  *)
LEMMA TaskKept == [LiveNext]_liveVars => task' = task
BY DEF LiveNext, LiveEngineStep, Looking, Deciding, PerceiveRaises, NavCommit,
       HumanFix, LiveResume, Act, Retry, Perceive, TrustPaused, FinalLook, AfterWait,
       BusinessOutcome, NoOutcome, GiveUp, StepDone, Succeed, DriverRaises, Resume,
       liveVars, vars, call

(* The recipe of a run is one of those it could be called with.            *)
LEMMA RecipeIsGiven == LiveSpec => [](Artifact \in Artifacts)
<1>1. LiveInit => Artifact \in Artifacts
  BY DEF LiveInit, Init, Artifact
<1>2. Artifact \in Artifacts /\ [LiveNext]_liveVars => (Artifact \in Artifacts)'
  <2>1. ASSUME [LiveNext]_liveVars PROVE task' = task
    BY <2>1, TaskKept
  <2> QED BY <2>1 DEF Artifact
<1> QED BY <1>1, <1>2, PTL DEF LiveSpec

(* A success carries the balance of the member that was asked for.         *)
THEOREM LiveRightBalance == LiveSpec => []RightBalance
<1>1. ASSUME LiveInv, Artifact \in Artifacts PROVE RightBalance
  <2> SUFFICES ASSUME result.status = "success"
               PROVE  /\ Known
                      /\ result.outputs = [f \in {"savings_balance"} |-> MEMBERS[Member].savings]
    BY DEF RightBalance
  <2>1. Artifact.outputs = {"savings_balance"}
    BY <1>1, LookupAssumption
  <2>2. /\ result.outputs = OutputsOf(Artifact, obs)
        /\ "savings_balance" \in DOMAIN obs.fields
    BY <1>1, <2>1 DEF LiveInv, MadeOfObs, OutputsPresent
  <2>3. Known /\ obs.fields["savings_balance"] = Cells(Member)["savings_balance"]
    BY <1>1, <2>2 DEF LiveInv, About_Member
  <2>4. Cells(Member)["savings_balance"] = MEMBERS[Member].savings
    BY DEF Cells
  <2>5. result.outputs = [f \in {"savings_balance"} |-> obs.fields[f]]
    BY <2>1, <2>2 DEF OutputsOf
  <2> QED BY <2>3, <2>4, <2>5
<1> QED BY <1>1, LiveReadsOwn, RecipeIsGiven, PTL

-----------------------------------------------------------------------------
(* The composition implements the engine.                                  *)

(* What the page shows the engine may be shown: only the address, the      *)
(* member and the flag that hides the balance matter to perceive().        *)
LEMMA LiveShows ==
  ASSUME PageInv
  PROVE  LivePerceive(page) \in Observations
<1>1. page.path \in {"search", "member"} /\ page.hide \in BOOLEAN
  BY DEF PageInv, OwnPage
<1>2. CASE page.path = "search"
  <2>1. LivePerceive(page) = LivePerceive(SearchPage(FALSE, FALSE))
    BY <1>2, OnePageRead DEF NoSuchMember, Rows, SearchPage
  <2> QED BY <2>1, LivePagesAssumption
<1>3. CASE page.path = "member" /\ page.member \in DOMAIN MEMBERS
  <2>1. LivePerceive(page) = LivePerceive(MemberPage(page.member, FALSE, page.hide))
    BY <1>3, OnePageRead DEF NoSuchMember, Rows, MemberPage
  <2> QED BY <1>1, <1>3, <2>1, LivePagesAssumption
<1>4. CASE page.path = "member" /\ page.member \notin DOMAIN MEMBERS
  <2>1. LivePerceive(page) = LivePerceive(MemberPage("", FALSE, page.hide))
    BY <1>4, MembersAssumption, OnePageRead DEF NoSuchMember, Rows, MemberPage
  <2> QED BY <1>1, <2>1, LivePagesAssumption
<1> QED BY <1>1, <1>2, <1>3, <1>4

(* A step of the composition is one of the engine.                         *)
LEMMA LiveStepIsEngine ==
  ASSUME LiveInv, [LiveNext]_liveVars
  PROVE  [Next]_vars
<1>1. CASE Looking
  BY <1>1, LiveShows DEF LiveInv, Looking, Next, EngineStep
<1>2. CASE Deciding
  BY <1>2 DEF Deciding, Next, EngineStep
<1>3. CASE Act \/ Retry \/ DriverRaises \/ Resume
  BY <1>3 DEF Next, EngineStep
<1>4. CASE UNCHANGED vars
  BY <1>4
<1> QED
  BY <1>1, <1>2, <1>3, <1>4
  DEF LiveNext, LiveEngineStep, PerceiveRaises, NavCommit, HumanFix, LiveResume, liveVars

(* Every run on the real page is one of the engine: what holds of the      *)
(* engine whatever the driver does holds of a replay in the browser.       *)
THEOREM LiveKeepsEngine == LiveSpec => Spec
<1>1. LiveInit => Init
  BY DEF LiveInit
<1>2. LiveInv /\ [LiveNext]_liveVars => [Next]_vars
  BY LiveStepIsEngine
<1> QED
  BY <1>1, <1>2, LiveReadsOwn, PTL DEF LiveSpec, Spec

(* What a step of a run leaves as it is.                                   *)
LEMMA LiveFrame ==
  ASSUME [LiveNext]_liveVars
  PROVE  /\ task' = task /\ inputs' = inputs /\ drifted' = drifted
         /\ Steps' = Steps /\ Goal' = Goal /\ Artifact' = Artifact
         /\ Member' = Member /\ (Known' <=> Known)
<1>1. task' = task
  BY TaskKept
<1>2. inputs' = inputs /\ drifted' = drifted
  BY DEF LiveNext, LiveEngineStep, LiveAct, PerceiveRaises, NavCommit, HumanFix, LiveResume,
     liveVars, world
<1>3. Artifact' = Artifact
  BY <1>1 DEF Artifact
<1>4. Steps' = Steps
  BY <1>3 DEF Steps
<1>5. Goal' = Goal
  BY <1>4 DEF Goal
<1>6. Member' = Member
  BY <1>2 DEF Member
<1>7. Known' <=> Known
  BY <1>6 DEF Known
<1> QED
  BY <1>1, <1>2, <1>3, <1>4, <1>5, <1>6, <1>7

(* The run was called with inputs and a page that there are, and the human *)
(* is done only while the run is paused.                                   *)
Called == inputs \in Inputs /\ drifted \in Drifts /\ (fixed => result.status = "paused")

RunInv == TypeInv /\ Phase /\ LiveInv /\ Called

LEMMA RunInvInit == LiveInit => RunInv
<1> SUFFICES ASSUME LiveInit PROVE RunInv
  OBVIOUS
<1>1. Init /\ Called
  BY DEF LiveInit, Called
<1> QED
  BY <1>1, TypeInit, PhaseInit, LiveInitInv DEF RunInv

LEMMA RunInvStep == RunInv /\ LiveInv' /\ [LiveNext]_liveVars => RunInv'
<1> SUFFICES ASSUME RunInv, LiveInv', [LiveNext]_liveVars PROVE RunInv'
  OBVIOUS
<1>1. TypeInv' /\ Phase'
  BY LiveStepIsEngine, TypeStep, PhaseStep DEF RunInv
<1>2. Called'
  <2>1. inputs' = inputs /\ drifted' = drifted
    BY LiveFrame
  <2>2. ASSUME fixed' PROVE result'.status = "paused"
    <3>1. CASE LiveEngineStep
      <4>1. fixed' = fixed /\ pc # "done"
        BY <3>1 DEF LiveEngineStep, LiveAct, Act, Retry, Looking, Deciding, Perceive,
           TrustPaused, FinalLook, AfterWait, BusinessOutcome, NoOutcome, GiveUp, StepDone,
           Succeed, world
      <4> QED
        BY <2>2, <4>1 DEF RunInv, Phase, Called
    <3>2. CASE PerceiveRaises
      <4>1. fixed' = fixed /\ pc # "done"
        BY <3>2 DEF PerceiveRaises, DriverRaises, DriverCall, world
      <4> QED
        BY <2>2, <4>1 DEF RunInv, Phase, Called
    <3>3. CASE HumanFix
      BY <3>3 DEF HumanFix, vars
    <3>4. CASE LiveResume
      BY <2>2, <3>4 DEF LiveResume
    <3>5. CASE NavCommit \/ UNCHANGED liveVars
      BY <2>2, <3>5 DEF NavCommit, liveVars, vars, world, RunInv, Called
    <3> QED
      BY <3>1, <3>2, <3>3, <3>4, <3>5 DEF LiveNext
  <2> QED
    BY <2>1, <2>2 DEF RunInv, Called
<1> QED
  BY <1>1, <1>2 DEF RunInv

LEMMA RunInvariant == LiveSpec => []RunInv
  BY RunInvInit, RunInvStep, LiveReadsOwn, PTL DEF LiveSpec

(* Every variable of the engine and of the page is of its type.            *)
THEOREM LiveTypes == LiveSpec => []PageTypeOK
<1>1. RunInv => PageTypeOK
  <2> SUFFICES ASSUME RunInv PROVE PageTypeOK
    OBVIOUS
  <2>1. TypeOK /\ inputs \in Inputs /\ drifted \in Drifts
        /\ (fixed => result.status = "paused") /\ PageInv
    BY DEF RunInv, Called, TypeInv, LiveInv
  <2>2. Own \subseteq Names
    BY <2>1, InputsAssumption DEF Own, Member
  <2>3. page \in [path : {"search", "member"}, member : Names, box : Names,
                  slow : BOOLEAN, hide : BOOLEAN]
    BY <2>1, <2>2 DEF PageInv, OwnPage
  <2>4. nav = NoNav \/ nav \in [to : Names, slow : BOOLEAN, hide : BOOLEAN,
                                attempts : 1..SlowAttempts]
    BY <2>1, <2>2 DEF PageInv, OwnNav
  <2> QED
    BY <2>1, <2>3, <2>4 DEF PageTypeOK
<1> QED
  BY <1>1, RunInvariant, PTL

-----------------------------------------------------------------------------
(* After the human's navigation nothing moves the page.                    *)

(* A page the human fixed stays as it was left, through the resumed calls. *)
FixedPage ==
  fixed \/ resumes > 0 =>
    /\ "member_id" \in DOMAIN inputs
    /\ page = MemberPage(inputs["member_id"], FALSE, FALSE)
    /\ nav = NoNav

LEMMA FixedPageIsMembers ==
  ASSUME FixedPage, fixed \/ resumes > 0
  PROVE  page.path = "member"
<1>1. page = MemberPage(inputs["member_id"], FALSE, FALSE)
  BY DEF FixedPage
<1> QED
  BY <1>1 DEF MemberPage

(* The recipe of a run, step by step.                                      *)
LEMMA LiveRecipe ==
  ASSUME TypeOK
  PROVE  /\ Goal = 4 /\ i \in {1, 2, 3, 4} /\ DOMAIN Steps = 1..3
         /\ Steps[1].action = "type" /\ Steps[1].value_from = "member_id"
         /\ \E r \in DOMAIN Steps[1].target : Steps[1].target[r].value = "textbox::"
         /\ Steps[1].checkpoint = NoCheckpoint
         /\ Steps[2].action = "click" /\ Steps[2].checkpoint = Screen("detail")
         /\ \E r \in DOMAIN Steps[2].target : Steps[2].target[r].value = "button::"
         /\ Steps[3].action = "read" /\ Steps[3].checkpoint = Field("savings_balance")
         /\ Artifact.success = Field("savings_balance")
         /\ \A k \in DOMAIN Artifact.known_outcomes :
              Artifact.known_outcomes[k].detect = Screen("not_found")
<1>1. Artifact \in Artifacts /\ Len(Steps) \in Nat /\ DOMAIN Steps = 1..Len(Steps)
  BY RecipeShape
<1>2. /\ DOMAIN Steps = 1..3
      /\ Steps[1].action = "type" /\ Steps[1].value_from = "member_id"
      /\ \E r \in DOMAIN Steps[1].target : Steps[1].target[r].value = "textbox::"
      /\ Steps[1].checkpoint = NoCheckpoint
      /\ Steps[2].action = "click" /\ Steps[2].checkpoint = Screen("detail")
      /\ \E r \in DOMAIN Steps[2].target : Steps[2].target[r].value = "button::"
      /\ Steps[3].action = "read" /\ Steps[3].checkpoint = Field("savings_balance")
      /\ Artifact.success = Field("savings_balance")
      /\ \A k \in DOMAIN Artifact.known_outcomes :
           Artifact.known_outcomes[k].detect = Screen("not_found")
  BY <1>1, SearchAssumption, Zenon DEF Steps
<1>3. Len(Steps) = 3
  <2>1. \A n : n \in 1..Len(Steps) <=> n \in 1..3
    BY <1>1, <1>2
  <2>2. Len(Steps) >= 3
    BY <1>1, <2>1
  <2>3. Len(Steps) \in 1..Len(Steps)
    BY <1>1, <2>2
  <2> QED
    BY <1>1, <2>1, <2>2, <2>3
<1>4. Goal = 4
  BY <1>3 DEF Goal
<1>5. i \in {1, 2, 3, 4}
  BY <1>4, Position
<1> QED
  BY <1>2, <1>4, <1>5

(* On the member page there is nothing to type into or to click.           *)
LEMMA NothingToClick ==
  ASSUME TypeOK, PageInv, page.path = "member", NEW k \in {1, 2}
  PROVE  ~Resolves(Steps[k].target, page)
<1>1. Artifact \in Artifacts
  BY RecipeShape
<1>2. page.hide \in BOOLEAN
  BY DEF PageInv, OwnPage
<1>3. CASE page.member \in DOMAIN MEMBERS
  <2>1. Shows(page) = Shows(MemberPage(page.member, FALSE, page.hide))
    BY <1>3 DEF Shows, Rows, MemberPage
  <2>2. \A r \in DOMAIN Steps[k].target :
          Steps[k].target[r].value \notin Shows(MemberPage(page.member, FALSE, page.hide))
    BY <1>1, <1>2, <1>3, ControlsAssumption DEF Steps
  <2> QED
    BY <2>1, <2>2 DEF Resolves, Present
<1>4. CASE page.member \notin DOMAIN MEMBERS
  <2>1. Rows(page) = {}
    BY <1>4 DEF Rows
  <2>2. Present(page) = {}
    BY <2>1 DEF Present, Shows
  <2> QED
    BY <2>2 DEF Resolves
<1> QED
  BY <1>3, <1>4

(* So no step of the recipe moves it.                                      *)
LEMMA MemberPageStays ==
  ASSUME TypeOK, PageInv, page.path = "member", i < Goal, LiveAct(Steps[i])
  PROVE  UNCHANGED <<page, nav>>
<1>1. DriverAct(Steps[i].action, Steps[i].target, ValueOf(Steps[i], inputs))
  BY DEF LiveAct
<1>2. i \in {1, 2, 3}
  BY LiveRecipe
<1>3. CASE i \in {1, 2}
  <2>1. Steps[i].action \in {"type", "click"} /\ ~Resolves(Steps[i].target, page)
    BY <1>3, LiveRecipe, NothingToClick
  <2> QED
    BY <1>1, <2>1 DEF DriverAct
<1>4. CASE i = 3
  <2>1. Steps[i].action = "read"
    BY <1>4, LiveRecipe
  <2> QED
    BY <1>1, <2>1 DEF DriverAct
<1> QED
  BY <1>2, <1>3, <1>4

LEMMA FixedPageStep == RunInv /\ FixedPage /\ [LiveNext]_liveVars => FixedPage'
<1> SUFFICES ASSUME RunInv, FixedPage, [LiveNext]_liveVars PROVE FixedPage'
  OBVIOUS
<1>1. TypeOK /\ PageInv /\ inputs' = inputs
  BY LiveFrame DEF RunInv, TypeInv, LiveInv
<1>2. ASSUME UNCHANGED <<fixed, resumes>>,
             page.path = "member" /\ nav = NoNav => UNCHANGED <<page, nav>>
      PROVE  FixedPage'
  <2>1. \A id : MemberPage(id, FALSE, FALSE).path = "member"
    BY DEF MemberPage
  <2>2. fixed \/ resumes > 0 => UNCHANGED <<page, nav>>
    BY <1>2, <2>1 DEF FixedPage
  <2> QED
    BY <1>1, <1>2, <2>2 DEF FixedPage
<1>3. CASE Act /\ LiveAct(Steps[i])
  <2>1. UNCHANGED <<fixed, resumes>> /\ i < Goal
    BY <1>3 DEF Act, LiveAct
  <2> QED
    BY <1>1, <1>2, <1>3, <2>1, MemberPageStays
<1>4. CASE Retry /\ WaitBriefly(page, nav) /\ UNCHANGED <<inputs, drifted, fixed>>
  BY <1>2, <1>4 DEF Retry, WaitBriefly
<1>5. CASE (Looking \/ Deciding \/ PerceiveRaises) /\ UNCHANGED world
  <2>1. UNCHANGED <<fixed, resumes, page, nav>>
    BY <1>5 DEF Looking, Deciding, PerceiveRaises, Perceive, TrustPaused, FinalLook,
       AfterWait, BusinessOutcome, NoOutcome, GiveUp, StepDone, Succeed, DriverRaises, world
  <2> QED
    BY <1>2, <2>1
<1>6. CASE NavCommit
  BY <1>2, <1>6 DEF NavCommit, NavCommits, vars
<1>7. CASE HumanFix
  BY <1>7 DEF HumanFix, FixedPage
<1>8. CASE LiveResume
  BY <1>8 DEF LiveResume, FixedPage
<1>9. CASE UNCHANGED liveVars
  BY <1>2, <1>9 DEF liveVars, vars, world
<1> QED
  BY <1>3, <1>4, <1>5, <1>6, <1>7, <1>8, <1>9 DEF LiveNext, LiveEngineStep, PerceiveRaises

LEMMA FixedPageInvariant == LiveSpec => []FixedPage
<1>1. LiveInit => FixedPage
  BY DEF LiveInit, Init, FixedPage
<1> QED
  BY <1>1, FixedPageStep, RunInvariant, PTL DEF LiveSpec

(* A resumed run does not search again, even where it redoes the click.    *)
THEOREM ResumeStaysOnPage == LiveSpec => ResumeDoesNotSearchAgain
<1>1. FixedPage /\ FixedPage' /\ [LiveNext]_liveVars =>
        [resumes > 0 /\ resumes' = resumes => UNCHANGED <<page, nav>>]_liveVars
  BY LiveFrame DEF FixedPage
<1> QED
  BY <1>1, FixedPageInvariant, PTL DEF LiveSpec, ResumeDoesNotSearchAgain

-----------------------------------------------------------------------------
(* A member that the bank has is never said not to exist.                  *)

(* With the recipe's controls there, and a member that the bank has: the   *)
(* member page is, or will be, that member's, because the id is in the box *)
(* before the search is submitted; and so no not-found page is seen.       *)
Searches ==
  /\ page.path = "member" => page.member = Member
  /\ nav # NoNav => nav.to = Member
  /\ page.path = "search" /\ (i > 1 \/ pc # "step" \/ nav # NoNav) => page.box = Member
  /\ obs.screen # "not_found"
  /\ result.status # "business_outcome"

SearchInv == drifted = {} /\ Known => Searches

(* perceive() sees the member's page for what it is.                       *)
LEMMA SeesMember ==
  ASSUME PageInv, Known, page.path = "member" => page.member = Member
  PROVE  /\ LivePerceive(page).screen # "not_found"
         /\ LivePerceive(page).screen = "detail" <=> page.path = "member"
         /\ page.path = "member" /\ ~page.hide =>
              "savings_balance" \in DOMAIN LivePerceive(page).fields
<1>1. page.path \in {"search", "member"}
  BY DEF PageInv, OwnPage
<1>2. CASE page.path = "search"
  BY <1>2, OnePageRead DEF NoSuchMember
<1>3. CASE page.path = "member"
  BY <1>3, OnePageRead DEF NoSuchMember, Known, Rows
<1> QED
  BY <1>1, <1>2, <1>3

(* A wait brings the page that was on its way, sooner or later.            *)
LEMMA WaitArrives ==
  ASSUME NEW p \in OwnPage, NEW n, n = NoNav \/ n \in OwnNav, WaitBriefly(p, n)
  PROVE  \/ page' = p /\ (nav' = n \/ nav' = [n EXCEPT !.attempts = @ - 1])
         \/ n # NoNav /\ page' = MemberPage(n.to, n.slow, n.hide) /\ nav' = NoNav
  BY DEF WaitBriefly, Commit

(* The id of a member that the bank has is typed as it was given.          *)
LEMMA TypedIsMember ==
  ASSUME inputs \in Inputs, Known, NEW step, step.value_from = "member_id"
  PROVE  ValueOf(step, inputs) = Member /\ Member # None
<1>1. "member_id" \in DOMAIN inputs
  BY MembersAssumption DEF Known, Member
<1> QED
  BY <1>1, InputsAssumption DEF ValueOf, Member

(* On the search page the box and the button are there.                    *)
LEMMA ControlsThere ==
  ASSUME TypeOK, drifted = {}, page.path = "search", NEW k \in {1, 2}
  PROVE  Resolves(Steps[k].target, page)
<1>1. {"textbox::", "button::"} \subseteq Present(page)
  BY DEF Present, Shows
<1>2. \E r \in DOMAIN Steps[k].target : Steps[k].target[r].value \in {"textbox::", "button::"}
  BY LiveRecipe
<1> QED
  BY <1>1, <1>2 DEF Resolves

(* What a step's action does to the search page: the id is typed, then it  *)
(* is submitted.                                                           *)
LEMMA SearchPageActs ==
  ASSUME RunInv, drifted = {}, Known, page.path = "search", i < Goal, LiveAct(Steps[i])
  PROVE  /\ i = 1 => page' = [page EXCEPT !.box = Member] /\ nav' = nav
         /\ i = 2 => WaitBriefly(page, Submitted(page))
         /\ i = 3 => UNCHANGED <<page, nav>>
<1>1. /\ DriverAct(Steps[i].action, Steps[i].target, ValueOf(Steps[i], inputs))
      /\ TypeOK /\ inputs \in Inputs
  BY DEF LiveAct, RunInv, TypeInv, Called
<1>2. CASE i = 1
  <2>1. /\ Steps[i].action = "type" /\ Resolves(Steps[i].target, page)
        /\ ValueOf(Steps[i], inputs) = Member /\ Member # None
    BY <1>1, <1>2, LiveRecipe, ControlsThere, TypedIsMember
  <2> QED
    BY <1>1, <1>2, <2>1 DEF DriverAct
<1>3. CASE i = 2
  <2>1. Steps[i].action = "click" /\ Resolves(Steps[i].target, page)
    BY <1>1, <1>3, LiveRecipe, ControlsThere
  <2> QED
    BY <1>1, <1>3, <2>1 DEF DriverAct
<1>4. CASE i = 3
  <2>1. Steps[i].action = "read"
    BY <1>1, <1>4, LiveRecipe
  <2> QED
    BY <1>1, <1>4, <2>1 DEF DriverAct
<1> QED
  BY <1>1, <1>2, <1>3, <1>4, LiveRecipe

LEMMA SearchActs ==
  ASSUME RunInv, drifted = {}, Known, Searches, Act, LiveAct(Steps[i])
  PROVE  Searches'
<1>1. /\ TypeOK /\ PageInv /\ Member' = Member /\ i \in {1, 2, 3, 4}
      /\ page \in OwnPage /\ page.path \in {"search", "member"}
  BY LiveFrame, LiveRecipe
  DEF RunInv, TypeInv, LiveInv, LiveNext, LiveEngineStep, PageInv, OwnPage
<1>2. UNCHANGED <<i, obs, result>> /\ pc' = "perceive" /\ i < Goal
  BY DEF Act
<1>3. CASE page.path = "member"
  <2>1. UNCHANGED <<page, nav>>
    BY <1>1, <1>2, <1>3, MemberPageStays
  <2> QED
    BY <1>1, <1>2, <1>3, <2>1 DEF Searches
<1>4. CASE page.path = "search" /\ i = 1
  <2>1. page' = [page EXCEPT !.box = Member] /\ nav' = nav
    BY <1>2, <1>4, SearchPageActs
  <2>2. page'.path = "search" /\ page'.box = Member
    BY <1>1, <1>4, <2>1 DEF OwnPage
  <2> QED
    BY <1>1, <1>2, <2>1, <2>2 DEF Searches
<1>5. CASE page.path = "search" /\ i = 2
  <2> DEFINE n == Submitted(page)
  <2>1. WaitBriefly(page, n) /\ page.box = Member
    BY <1>2, <1>5, SearchPageActs DEF Searches
  <2>2. n.to = Member
    BY <2>1 DEF Submitted
  <2>3. CASE page' = page /\ (nav' = n \/ nav' = [n EXCEPT !.attempts = @ - 1])
    <3>1. nav'.to = Member
      BY <2>2, <2>3 DEF Submitted
    <3> QED
      BY <1>1, <1>2, <1>5, <2>1, <2>3, <3>1 DEF Searches
  <2>4. CASE page' = MemberPage(n.to, n.slow, n.hide) /\ nav' = NoNav
    <3>1. page'.path = "member" /\ page'.member = Member
      BY <2>2, <2>4 DEF MemberPage
    <3> QED
      BY <1>1, <1>2, <2>4, <3>1 DEF Searches
  <2> QED
    BY <2>1, <2>3, <2>4 DEF WaitBriefly, Commit
<1>6. CASE page.path = "search" /\ i = 3
  <2>1. UNCHANGED <<page, nav>>
    BY <1>2, <1>6, SearchPageActs
  <2> QED
    BY <1>1, <1>2, <1>6, <2>1 DEF Searches
<1> QED
  BY <1>1, <1>2, <1>3, <1>4, <1>5, <1>6, LiveRecipe

(* The page that was on its way is the member's.                           *)
LEMMA SearchArrives ==
  ASSUME Searches, Member' = Member, UNCHANGED <<i, obs, result>>,
         nav # NoNav, page' = MemberPage(nav.to, nav.slow, nav.hide), nav' = NoNav
  PROVE  Searches'
<1>1. page'.path = "member" /\ page'.member = Member
  BY DEF Searches, MemberPage
<1> QED
  BY <1>1 DEF Searches

(* A step that leaves the page.                                            *)
LEMMA SearchStays ==
  ASSUME Searches, Member' = Member, UNCHANGED <<page, nav>>,
         obs'.screen # "not_found", result'.status # "business_outcome",
         page.path = "search" /\ (i' > 1 \/ pc' # "step") => i > 1 \/ pc # "step"
  PROVE  Searches'
BY DEF Searches

LEMMA SearchWaits ==
  ASSUME PageInv, Searches, Member' = Member, Retry, WaitBriefly(page, nav)
  PROVE  Searches'
<1>1. UNCHANGED <<i, obs, result>> /\ pc = "await"
  BY DEF Retry
<1>2. page \in OwnPage /\ (nav = NoNav \/ nav \in OwnNav)
  BY DEF PageInv
<1>3. CASE nav = NoNav
  BY <1>1, <1>3 DEF WaitBriefly, Searches
<1>4. CASE nav # NoNav /\ page' = page /\ nav' = [nav EXCEPT !.attempts = @ - 1]
  <2>1. nav'.to = nav.to
    BY <1>2, <1>4 DEF OwnNav
  <2> QED
    BY <1>1, <1>4, <2>1 DEF Searches
<1>5. CASE nav # NoNav /\ page' = MemberPage(nav.to, nav.slow, nav.hide) /\ nav' = NoNav
  BY <1>1, <1>5, SearchArrives
<1> QED
  BY <1>3, <1>4, <1>5 DEF WaitBriefly, Commit

LEMMA SearchLooks ==
  ASSUME RunInv, FixedPage, Known, Searches, Member' = Member, Looking, UNCHANGED world
  PROVE  Searches'
<1>1. PICK o \in {LivePerceive(page)} :
        Perceive(o) \/ TrustPaused(o) \/ FinalLook(o) \/ AfterWait(o)
  BY DEF Looking
<1>2. obs' = LivePerceive(page) /\ UNCHANGED <<i, result>>
      /\ (pc = "step" => i = start \/ i = Goal)
  BY <1>1 DEF Perceive, TrustPaused, FinalLook, AfterWait, Trusted
<1>3. PageInv /\ TypeOK /\ Goal = 4 /\ i \in {1, 2, 3, 4}
  BY LiveRecipe DEF RunInv, TypeInv, LiveInv
<1>4. obs'.screen # "not_found"
  BY <1>2, <1>3, SeesMember DEF Searches
<1>5. ASSUME pc = "step", i = 1 PROVE page.path = "member"
  <2>1. start = 1
    BY <1>2, <1>3, <1>5
  <2>2. resumes # 0 /\ resumes \in Nat
    BY <1>3, <2>1, BoundsAssumption DEF RunInv, Phase, TypeOK
  <2>3. resumes > 0
    BY <2>2
  <2> QED
    BY <2>3, FixedPageIsMembers
<1>6. UNCHANGED <<page, nav>> /\ result'.status # "business_outcome"
  BY <1>2 DEF world, Searches
<1>7. page.path = "search" /\ (i' > 1 \/ pc' # "step") => i > 1 \/ pc # "step"
  BY <1>2, <1>3, <1>5
<1> QED
  BY <1>4, <1>6, <1>7, SearchStays

LEMMA SearchDecides ==
  ASSUME RunInv, Searches, Member' = Member, Deciding, UNCHANGED world
  PROVE  Searches'
<1>1. TypeOK /\ Goal = 4 /\ i \in {1, 2, 3, 4} /\ UNCHANGED <<page, nav, obs>>
  BY LiveRecipe
  DEF RunInv, TypeInv, Deciding, BusinessOutcome, NoOutcome, GiveUp, StepDone,
      Succeed, world
<1>2. ~BusinessOutcome
  <2>1. \A k \in DOMAIN Artifact.known_outcomes :
          Check(obs, Artifact.known_outcomes[k].detect) => obs.screen = "not_found"
    BY <1>1, LiveRecipe DEF Check, Screen
  <2> QED
    BY <2>1 DEF BusinessOutcome, FirstMatch, Searches
<1>3. i > 1 \/ pc # "step"
  BY <1>2 DEF Deciding, NoOutcome, GiveUp, StepDone, Succeed
<1>4. result'.status # "business_outcome"
  <2>1. CASE NoOutcome \/ StepDone
    BY <2>1 DEF NoOutcome, StepDone, Searches
  <2>2. CASE GiveUp
    BY <2>2 DEF GiveUp, Fail, Return
  <2>3. CASE Succeed
    BY <2>3 DEF Succeed, Return
  <2> QED
    BY <1>2, <2>1, <2>2, <2>3 DEF Deciding
<1> QED
  BY <1>1, <1>3, <1>4, SearchStays DEF Searches

LEMMA SearchesStep ==
  ASSUME RunInv, FixedPage, drifted = {}, Known, Searches, [LiveNext]_liveVars
  PROVE  Searches'
<1>1. PageInv /\ Member' = Member /\ Member = inputs["member_id"]
  <2>1. Member # ""
    BY MembersAssumption DEF Known
  <2> QED
    BY <2>1, LiveFrame DEF RunInv, LiveInv, Member
<1>2. CASE Act /\ LiveAct(Steps[i])
  BY <1>2, SearchActs
<1>3. CASE Retry /\ WaitBriefly(page, nav)
  BY <1>1, <1>3, SearchWaits
<1>4. CASE Looking /\ UNCHANGED world
  BY <1>1, <1>4, SearchLooks
<1>5. CASE Deciding /\ UNCHANGED world
  BY <1>1, <1>5, SearchDecides DEF world
<1>6. CASE PerceiveRaises
  <2>1. UNCHANGED <<i, obs, page, nav>> /\ nav # NoNav /\ result'.status = "raised"
    BY <1>6 DEF PerceiveRaises, DriverRaises, Running, world
  <2> QED
    BY <1>1, <2>1 DEF Searches
<1>7. CASE NavCommit
  BY <1>1, <1>7, SearchArrives DEF NavCommit, NavCommits, Commit, vars
<1>8. CASE HumanFix
  <2>1. page' = MemberPage(Member, FALSE, FALSE) /\ nav' = NoNav /\ UNCHANGED <<obs, result>>
    BY <1>1, <1>8 DEF HumanFix, vars
  <2>2. page'.path = "member" /\ page'.member = Member
    BY <2>1 DEF MemberPage
  <2> QED
    BY <1>1, <2>1, <2>2 DEF Searches
<1>9. CASE LiveResume
  <2>1. page.path = "member" /\ UNCHANGED <<page, nav>>
    BY <1>9, FixedPageIsMembers DEF LiveResume
  <2>2. obs' = NoObservation /\ result' = Running
    BY <1>9 DEF LiveResume, Resume
  <2>3. obs'.screen # "not_found" /\ result'.status # "business_outcome"
    BY <2>2 DEF NoObservation, Running
  <2> QED
    BY <1>1, <2>1, <2>3, SearchStays
<1>10. CASE UNCHANGED liveVars
  BY <1>1, <1>10 DEF liveVars, vars, world, Searches
<1> QED
  BY <1>2, <1>3, <1>4, <1>5, <1>6, <1>7, <1>8, <1>9, <1>10 DEF LiveNext, LiveEngineStep

LEMMA SearchInvariant == LiveSpec => []SearchInv
<1>1. LiveInit => SearchInv
  <2> SUFFICES ASSUME LiveInit PROVE Searches
    BY DEF SearchInv
  <2>1. obs = NoObservation /\ result = Running /\ i = 1 /\ pc = "step"
    BY DEF LiveInit, Init
  <2>2. PICK slow \in BOOLEAN, hide \in BOOLEAN : page = SearchPage(slow, hide)
    BY DEF LiveInit
  <2>3. page.path = "search"
    BY <2>2 DEF SearchPage
  <2>4. obs.screen # "not_found"
    BY <2>1 DEF NoObservation
  <2>5. result.status # "business_outcome"
    BY <2>1 DEF Running
  <2>6. nav = NoNav /\ ~(i > 1) /\ pc = "step"
    BY <2>1 DEF LiveInit
  <2> QED
    BY <2>3, <2>4, <2>5, <2>6 DEF Searches
<1>2. RunInv /\ FixedPage /\ SearchInv /\ [LiveNext]_liveVars => SearchInv'
  BY SearchesStep, LiveFrame DEF SearchInv
<1> QED
  BY <1>1, <1>2, RunInvariant, FixedPageInvariant, PTL DEF LiveSpec

(* On a page that has the recipe's controls a run never tells the caller   *)
(* that a member the bank has does not exist, however late the page comes. *)
THEOREM NotFoundProved == LiveSpec => []NotFoundIsTrue
<1>1. SearchInv => NotFoundIsTrue
  BY DEF SearchInv, Searches, NotFoundIsTrue
<1> QED
  BY <1>1, SearchInvariant, PTL
-----------------------------------------------------------------------------
(* A slow page is recovered from.                                          *)

(* The flags, slow and the one that hides the balance, ride along with the *)
(* navigation.                                                             *)
FlagsOf(p) == <<p.slow, p.hide>>

SameFlags == nav # NoNav => FlagsOf(nav) = FlagsOf(page)

(* The search page is left by the click of step 2, and what the slow page  *)
(* still takes, with the waits already made, is less than it takes at all. *)
(* Only a slow page is still on its way when the click is done.            *)
InTime ==
  /\ page.path = "member" => nav = NoNav
  /\ nav # NoNav => page.slow
  /\ i = 1 \/ (i = 2 /\ pc = "step") => page.path = "search" /\ nav = NoNav
  /\ i = 2 /\ pc # "step" /\ page.path = "search" =>
       /\ nav # NoNav
       /\ nav.attempts + attempts + (IF pc = "waited" THEN 1 ELSE 0) < SlowAttempts
  /\ i > 2 => page.path = "member"

(* The waits of step 2 have not been too many, and no other step waits.    *)
Patient ==
  /\ pc \in {"step", "perceive", "dismiss"} => attempts = 0
  /\ i # 2 => attempts = 0 /\ pc # "waited"
  /\ i = 2 => attempts < SlowAttempts
  /\ i = 2 /\ pc = "waited" => attempts + 2 <= SlowAttempts
  /\ i = 2 /\ pc \in {"dismiss", "await"} /\ obs.screen # "detail" =>
       attempts + 2 <= SlowAttempts

(* What has been seen of the member's page is its balance.                 *)
Seen ==
  pc \in {"dismiss", "await"} =>
    /\ obs.screen = "detail" => page.path = "member"
    /\ i > 2 => "savings_balance" \in DOMAIN obs.fields

(* The log holds the one wait of step 2, once that step is done.           *)
Noted ==
  /\ ~Stuck
  /\ i <= 2 => recovered = <<>>
  /\ Len(recovered) <= 1
  /\ \A n \in DOMAIN recovered : recovered[n].step = 2 /\ recovered[n].attempts < SlowAttempts

(* A run that is over is a success, or was ended by a torn read.           *)
RightEnd ==
  pc = "done" => \/ result.status = "success"
                 \/ result.status = "raised" /\ result.step = 2 /\ page.slow

Arriving == InTime /\ Patient /\ Seen /\ Noted /\ RightEnd
ArriveInv == SameFlags /\ (Smooth => Arriving)

(* The numbers the argument counts with.                                   *)
LEMMA Counts ==
  ASSUME RunInv
  PROVE  /\ i \in {1, 2, 3, 4} /\ Goal = 4 /\ attempts \in Nat
         /\ attempts <= MAX_SLOW_RETRIES /\ MAX_SLOW_RETRIES \in Nat
         /\ SlowAttempts \in Nat /\ SlowAttempts >= 1
         /\ PageInv /\ page \in OwnPage /\ page.path \in {"search", "member"}
         /\ nav # NoNav => nav \in OwnNav /\ nav.attempts \in Nat /\ nav.attempts >= 1
<1>1. TypeOK /\ PageInv
  BY DEF RunInv, TypeInv, LiveInv
<1>2. attempts \in 0..MAX_SLOW_RETRIES /\ MAX_SLOW_RETRIES \in Nat
  BY <1>1, BoundsAssumption DEF TypeOK
<1>3. SlowAttempts \in Nat /\ SlowAttempts >= 1
  BY SlowAttemptsAssumption
<1>4. nav # NoNav => nav \in OwnNav /\ nav.attempts \in 1..SlowAttempts
  BY <1>1 DEF PageInv, OwnNav
<1>5. page \in OwnPage /\ page.path \in {"search", "member"}
  BY <1>1 DEF PageInv, OwnPage
<1> QED
  BY <1>1, <1>2, <1>3, <1>4, <1>5, LiveRecipe

(* A wait leaves the flags alone.                                          *)
LEMMA WaitSameFlags ==
  ASSUME NEW p \in OwnPage, NEW n, n = NoNav \/ n \in OwnNav, n # NoNav => FlagsOf(n) = FlagsOf(p),
         WaitBriefly(p, n)
  PROVE  FlagsOf(page') = FlagsOf(p) /\ (nav' # NoNav => FlagsOf(nav') = FlagsOf(p))
<1>1. CASE n = NoNav
  BY <1>1 DEF WaitBriefly
<1>2. CASE n # NoNav /\ page' = p /\ nav' = [n EXCEPT !.attempts = @ - 1]
  <2>1. FlagsOf(nav') = FlagsOf(n)
    BY <1>2 DEF OwnNav, FlagsOf
  <2> QED
    BY <1>2, <2>1
<1>3. CASE n # NoNav /\ page' = MemberPage(n.to, n.slow, n.hide) /\ nav' = NoNav
  BY <1>3 DEF MemberPage, FlagsOf
<1> QED
  BY <1>1, <1>2, <1>3 DEF WaitBriefly, Commit

(* Submitting the form makes a navigation that takes an attempt or more.   *)
LEMMA SubmittedIsOwn ==
  ASSUME PageInv
  PROVE  Submitted(page) \in OwnNav /\ Submitted(page) # NoNav
         /\ FlagsOf(Submitted(page)) = FlagsOf(page) /\ Submitted(page).attempts <= SlowAttempts
<1>1. page.box \in Own /\ page.slow \in BOOLEAN /\ page.hide \in BOOLEAN
  BY DEF PageInv, OwnPage
<1>2. (IF page.slow THEN SlowAttempts ELSE 1) \in 1..SlowAttempts
  <2>1. CASE page.slow
    BY <2>1, AttemptsInRange, Zenon
  <2>2. CASE ~page.slow
    BY <2>2, AttemptsInRange, Zenon
  <2> QED
    BY <2>1, <2>2
<1>3. Submitted(page) \in OwnNav
  BY <1>1, <1>2 DEF Submitted, OwnNav
<1>4. Submitted(page).attempts \in 1..SlowAttempts
  BY <1>3 DEF OwnNav
<1>5. NoNav.attempts = 0
  BY DEF NoNav
<1>6. FlagsOf(Submitted(page)) = FlagsOf(page)
  BY DEF Submitted, FlagsOf
<1> QED
  BY <1>3, <1>4, <1>5, <1>6, SlowAttemptsAssumption

(* What is done to the page leaves the flags alone.                        *)
LEMMA ActSameFlags ==
  ASSUME PageInv, SameFlags, NEW action, NEW target, NEW value, DriverAct(action, target, value)
  PROVE  FlagsOf(page') = FlagsOf(page) /\ SameFlags'
<1>1. page \in OwnPage /\ (nav = NoNav \/ nav \in OwnNav)
  BY DEF PageInv
<1>2. CASE WaitBriefly(page, nav)
  BY <1>1, <1>2, WaitSameFlags DEF SameFlags
<1>3. CASE WaitBriefly(page, Submitted(page))
  BY <1>1, <1>3, WaitSameFlags, SubmittedIsOwn DEF SameFlags
<1>4. CASE page' = [page EXCEPT !.box = IF value = None THEN "" ELSE value] /\ nav' = nav
  <2>1. FlagsOf(page') = FlagsOf(page)
    BY <1>1, <1>4 DEF OwnPage, FlagsOf
  <2> QED
    BY <1>4, <2>1 DEF SameFlags
<1>5. CASE UNCHANGED <<page, nav>>
  BY <1>5 DEF SameFlags
<1> QED
  BY <1>2, <1>3, <1>4, <1>5 DEF DriverAct

LEMMA StepSameFlags ==
  ASSUME PageInv, SameFlags, [LiveNext]_liveVars
  PROVE  SameFlags' /\ (FlagsOf(page') = FlagsOf(page) \/ HumanFix)
<1>1. page \in OwnPage /\ (nav = NoNav \/ nav \in OwnNav)
  BY DEF PageInv
<1>2. CASE \E step : LiveAct(step)
  BY <1>2, ActSameFlags DEF LiveAct
<1>3. CASE WaitBriefly(page, nav)
  BY <1>1, <1>3, WaitSameFlags DEF SameFlags
<1>4. CASE NavCommit
  <2>1. nav # NoNav /\ page' = MemberPage(nav.to, nav.slow, nav.hide) /\ nav' = NoNav
    BY <1>4 DEF NavCommit, NavCommits, Commit
  <2>2. FlagsOf(page') = FlagsOf(nav)
    BY <2>1 DEF MemberPage, FlagsOf
  <2> QED
    BY <2>1, <2>2 DEF SameFlags
<1>5. CASE HumanFix
  BY <1>5 DEF HumanFix, SameFlags
<1>6. CASE UNCHANGED <<page, nav>>
  BY <1>6 DEF SameFlags
<1> QED
  BY <1>2, <1>3, <1>4, <1>5, <1>6
  DEF LiveNext, LiveEngineStep, PerceiveRaises, LiveResume, liveVars, world

(* A run that is still smooth was so before the step.                      *)
LEMMA SmoothBack ==
  ASSUME RunInv, SameFlags, [LiveNext]_liveVars
  PROVE  SameFlags' /\ (Smooth' => Smooth /\ ~HumanFix /\ ~LiveResume)
<1>1. resumes \in Nat
  BY BoundsAssumption DEF RunInv, TypeInv, TypeOK
<1>2. Smooth' => ~HumanFix /\ ~LiveResume
  <2>1. ASSUME Smooth' PROVE fixed' = FALSE /\ resumes' = 0
    BY <2>1 DEF Smooth
  <2>2. HumanFix => fixed' = TRUE
    BY DEF HumanFix
  <2>3. LiveResume => resumes' = resumes + 1
    BY DEF LiveResume, Resume
  <2> QED
    BY <1>1, <2>1, <2>2, <2>3
<1>3. HumanFix \/ LiveResume \/ UNCHANGED <<fixed, resumes>>
  <2>1. CASE (Act /\ LiveAct(Steps[i])) \/ (Retry /\ UNCHANGED fixed)
    BY <2>1 DEF Act, LiveAct, Retry
  <2>2. CASE (Looking \/ Deciding) /\ UNCHANGED world
    BY <2>2 DEF Looking, Deciding, Perceive, TrustPaused, FinalLook, AfterWait,
       BusinessOutcome, NoOutcome, GiveUp, StepDone, Succeed, world
  <2>3. CASE PerceiveRaises \/ NavCommit \/ UNCHANGED liveVars
    BY <2>3 DEF PerceiveRaises, DriverRaises, NavCommit, liveVars, vars, world
  <2> QED
    BY <2>1, <2>2, <2>3 DEF LiveNext, LiveEngineStep
<1>4. SameFlags' /\ (page'.hide = page.hide \/ HumanFix)
  BY StepSameFlags DEF RunInv, LiveInv, FlagsOf
<1> QED
  BY <1>2, <1>3, <1>4, LiveFrame DEF Smooth

(* The log is as it was, and the run has not stopped for a human.          *)
LEMMA NotedKept ==
  ASSUME Noted, recovered' = recovered, i' <= 2 => i <= 2, result'.status \notin {"paused", "failure"}
  PROVE  Noted'
BY DEF Noted, Stuck

(* One wait leaves the search page, with one attempt less to go, or shows  *)
(* the member's page with nothing on its way.                              *)
LEMMA WaitShortens ==
  ASSUME NEW p \in OwnPage, NEW n \in OwnNav, n # NoNav, WaitBriefly(p, n)
  PROVE  \/ /\ page' = p /\ nav' # NoNav
            /\ n.attempts \in Nat /\ n.attempts >= 2 /\ nav'.attempts = n.attempts - 1
         \/ page'.path = "member" /\ nav' = NoNav
<1>1. n.attempts \in 1..SlowAttempts /\ SlowAttempts \in Nat
  BY SlowAttemptsAssumption DEF OwnNav
<1>2. CASE n.attempts = 1
  <2>1. page' = MemberPage(n.to, n.slow, n.hide) /\ nav' = NoNav
    BY <1>2 DEF WaitBriefly, Commit
  <2>2. page'.path = "member"
    BY <2>1 DEF MemberPage
  <2> QED
    BY <2>1, <2>2
<1>3. CASE n.attempts # 1
  <2>1. page' = p /\ nav' = [n EXCEPT !.attempts = @ - 1]
    BY <1>3 DEF WaitBriefly
  <2>2. nav'.attempts = n.attempts - 1 /\ n.attempts >= 2
    BY <1>1, <1>3, <2>1 DEF OwnNav
  <2>3. n.attempts \in Nat
    BY <1>1
  <2>4. nav'.attempts # 0
    BY <2>2, <2>3
  <2>5. NoNav.attempts = 0
    BY DEF NoNav
  <2>6. nav' # NoNav
    BY <2>4, <2>5, Zenon
  <2> QED
    BY <2>1, <2>2, <2>3, <2>6
<1> QED
  BY <1>2, <1>3

(* What each step waits for.                                               *)
LEMMA Awaited ==
  ASSUME RunInv
  PROVE  /\ i = 1 => Check(obs, Expected)
         /\ i = 2 => (Check(obs, Expected) <=> obs.screen = "detail")
         /\ i \in {3, 4} => (Check(obs, Expected) <=> "savings_balance" \in DOMAIN obs.fields)
<1>1. TypeOK /\ Goal = 4
  BY LiveRecipe DEF RunInv, TypeInv
<1>2. CASE i = 1
  <2>1. Steps[1].checkpoint = NoCheckpoint
    BY <1>1, LiveRecipe
  <2>2. Expected = NoCheckpoint
    BY <1>1, <1>2, <2>1 DEF Expected
  <2>3. NoCheckpoint.kind = "none"
    BY DEF NoCheckpoint
  <2> QED
    BY <1>2, <2>2, <2>3 DEF Check
<1>3. CASE i = 2
  <2>1. Expected = Screen("detail")
    BY <1>1, <1>3, LiveRecipe DEF Expected
  <2> QED
    BY <1>3, <2>1 DEF Check, Screen
<1>4. CASE i \in {3, 4}
  <2>1. Expected = Field("savings_balance")
    BY <1>1, <1>4, LiveRecipe DEF Expected
  <2> QED
    BY <1>4, <2>1 DEF Check, Field
<1> QED
  BY <1>2, <1>3, <1>4

LEMMA ArriveActs ==
  ASSUME RunInv, Smooth, Arriving, Act, LiveAct(Steps[i])
  PROVE  Arriving'
<1>1. /\ i' = i /\ pc = "step" /\ pc' = "perceive" /\ i < Goal
      /\ UNCHANGED <<obs, attempts, recovered, result>>
  BY DEF Act
<1>2. attempts = 0 /\ i \in {1, 2, 3} /\ SlowAttempts \in Nat /\ PageInv
      /\ page.path \in {"search", "member"} /\ SlowAttempts >= 1 /\ page \in OwnPage
  BY <1>1, Counts DEF Arriving, Patient
<1>3. Patient' /\ Seen' /\ RightEnd'
  BY <1>1, <1>2 DEF Arriving, Patient, Seen, RightEnd
<1>4. Noted'
  BY <1>1, NotedKept DEF Arriving, Noted, Stuck
<1>5. CASE i = 1
  <2>1. page.path = "search" /\ nav = NoNav
    BY <1>5 DEF Arriving, InTime
  <2>2. page' = [page EXCEPT !.box = Member] /\ nav' = nav
    BY <1>1, <1>5, <2>1, SearchPageActs DEF Smooth
  <2>3. page'.path = "search"
    BY <1>2, <2>1, <2>2 DEF OwnPage
  <2>4. InTime'
    BY <1>1, <1>5, <2>1, <2>2, <2>3 DEF InTime
  <2> QED
    BY <1>3, <1>4, <2>4 DEF Arriving
<1>6. CASE i = 2
  <2>1. page.path = "search"
    BY <1>1, <1>6 DEF Arriving, InTime
  <2>2. WaitBriefly(page, Submitted(page))
    BY <1>1, <1>6, <2>1, SearchPageActs DEF Smooth
  <2>3. Submitted(page) \in OwnNav /\ Submitted(page) # NoNav
        /\ Submitted(page).attempts <= SlowAttempts
    BY <1>2, SubmittedIsOwn
  <2>4. InTime'
    <3>1. CASE /\ page' = page /\ nav' # NoNav
               /\ Submitted(page).attempts \in Nat /\ Submitted(page).attempts >= 2
               /\ nav'.attempts = Submitted(page).attempts - 1
      <4>1. nav'.attempts + attempts' + (IF pc' = "waited" THEN 1 ELSE 0) < SlowAttempts
        BY <1>1, <1>2, <2>3, <3>1
      <4>2. page'.slow
        BY <3>1 DEF Submitted
      <4> QED
        BY <1>1, <1>6, <2>1, <3>1, <4>1, <4>2 DEF InTime
    <3>2. CASE page'.path = "member" /\ nav' = NoNav
      BY <1>1, <1>6, <3>2 DEF InTime
    <3> QED
      BY <1>2, <2>2, <2>3, <3>1, <3>2, WaitShortens
  <2> QED
    BY <1>3, <1>4, <2>4 DEF Arriving
<1>7. CASE i = 3
  <2>1. page.path = "member"
    BY <1>7 DEF Arriving, InTime
  <2>2. UNCHANGED <<page, nav>>
    BY <1>1, <1>2, <2>1, MemberPageStays DEF RunInv, TypeInv
  <2>3. InTime'
    BY <1>1, <1>7, <2>1, <2>2 DEF InTime, Arriving
  <2> QED
    BY <1>3, <1>4, <2>3 DEF Arriving
<1> QED
  BY <1>2, <1>5, <1>6, <1>7

LEMMA ArriveWaits ==
  ASSUME RunInv, Smooth, Arriving, Retry, WaitBriefly(page, nav)
  PROVE  Arriving'
<1>1. /\ i' = i /\ pc = "await" /\ pc' = "waited" /\ ~Check(obs, Expected)
      /\ UNCHANGED <<obs, attempts, recovered, result, task>>
  BY DEF Retry, call
<1>2. /\ i \in {1, 2, 3, 4} /\ Goal = 4 /\ attempts \in Nat /\ SlowAttempts \in Nat
      /\ page \in OwnPage /\ page.path \in {"search", "member"}
      /\ nav # NoNav => nav \in OwnNav /\ nav.attempts \in Nat
  BY Counts
<1>3. i = 2 /\ obs.screen # "detail"
  <2>1. i > 2 => "savings_balance" \in DOMAIN obs.fields
    BY <1>1 DEF Arriving, Seen
  <2> QED
    BY <1>1, <1>2, <2>1, Awaited
<1>4. Patient' /\ Seen' /\ RightEnd'
  BY <1>1, <1>2, <1>3 DEF Arriving, Patient, Seen, RightEnd
<1>5. Noted'
  BY <1>1, NotedKept DEF Arriving, Noted, Stuck
<1>6. InTime'
  <2>1. CASE page.path = "member"
    BY <1>1, <1>2, <1>3, <2>1 DEF Arriving, InTime, WaitBriefly
  <2>2. CASE page.path = "search"
    <3>1. nav # NoNav /\ page.slow /\ nav.attempts + attempts < SlowAttempts
      BY <1>1, <1>2, <1>3, <2>2 DEF Arriving, InTime
    <3>2. CASE page' = page /\ nav' # NoNav /\ nav'.attempts = nav.attempts - 1
      <4>1. nav'.attempts + attempts' + 1 < SlowAttempts
        BY <1>1, <1>2, <3>1, <3>2
      <4> QED
        BY <1>1, <1>3, <2>2, <3>1, <3>2, <4>1 DEF InTime
    <3>3. CASE page'.path = "member" /\ nav' = NoNav
      BY <1>1, <1>3, <3>3 DEF InTime
    <3> QED
      BY <1>2, <3>1, <3>2, <3>3, WaitShortens
  <2> QED
    BY <1>2, <2>1, <2>2
<1> QED
  BY <1>4, <1>5, <1>6 DEF Arriving

LEMMA ArriveLooks ==
  ASSUME RunInv, Smooth, Searches, Arriving, Looking, UNCHANGED world
  PROVE  Arriving'
<1>1. /\ i \in {1, 2, 3, 4} /\ Goal = 4 /\ attempts \in Nat /\ SlowAttempts \in Nat
      /\ PageInv /\ page.path \in {"search", "member"}
      /\ nav # NoNav => nav.attempts \in Nat /\ nav.attempts >= 1
  BY Counts
<1>2. PICK o \in {LivePerceive(page)} :
        Perceive(o) \/ TrustPaused(o) \/ FinalLook(o) \/ AfterWait(o)
  BY DEF Looking
<1>3. UNCHANGED <<i, recovered, result, page, nav>> /\ obs' = LivePerceive(page)
  BY <1>2 DEF Perceive, TrustPaused, FinalLook, AfterWait, world
<1>4. ~TrustPaused(o)
  <2>1. start = 0
    BY DEF RunInv, Phase, Smooth
  <2> QED
    BY <1>1, <2>1 DEF TrustPaused, Trusted
<1>5. /\ obs'.screen = "detail" <=> page.path = "member"
      /\ page.path = "member" => "savings_balance" \in DOMAIN obs'.fields
  BY <1>1, <1>3, SeesMember DEF Searches, Smooth
<1>6. Seen'
  BY <1>1, <1>3, <1>5 DEF Arriving, InTime, Seen
<1>7. Noted'
  BY <1>3, NotedKept DEF Arriving, Noted, Stuck
<1>8. RightEnd'
  BY <1>2, <1>4 DEF Perceive, FinalLook, AfterWait, RightEnd
<1>9. CASE Perceive(o) \/ FinalLook(o)
  <2>1. pc' \in {"dismiss", "await"} /\ attempts' = 0 /\ attempts = 0 /\ pc \in {"perceive", "step"}
        /\ (pc = "step" => i = 4)
    BY <1>1, <1>9 DEF Perceive, FinalLook, Arriving, Patient
  <2>2. InTime'
    BY <1>1, <1>3, <2>1 DEF Arriving, InTime
  <2>3. i = 2 /\ page.path = "search" => 2 <= SlowAttempts
    BY <1>1, <2>1 DEF Arriving, InTime
  <2>4. Patient'
    BY <1>1, <1>3, <1>5, <2>1, <2>3 DEF Arriving, Patient
  <2> QED
    BY <1>6, <1>7, <1>8, <2>2, <2>4 DEF Arriving
<1>10. CASE AfterWait(o)
  <2>1. pc' = "await" /\ attempts' = attempts + 1 /\ pc = "waited"
    BY <1>10 DEF AfterWait
  <2>2. i = 2 /\ attempts + 2 <= SlowAttempts
    BY <2>1 DEF Arriving, Patient
  <2>3. page.path = "search" => nav # NoNav /\ nav.attempts + attempts + 1 < SlowAttempts
    BY <2>1, <2>2 DEF Arriving, InTime
  <2>4. page.path = "search" => nav # NoNav /\ nav.attempts + attempts' < SlowAttempts
                               /\ attempts' + 2 <= SlowAttempts
    BY <1>1, <2>1, <2>3
  <2>5. InTime'
    BY <1>1, <1>3, <2>1, <2>2, <2>4 DEF Arriving, InTime
  <2>6. attempts' < SlowAttempts
    BY <1>1, <2>1, <2>2
  <2>7. Patient'
    BY <1>1, <1>3, <1>5, <2>1, <2>2, <2>4, <2>6 DEF Patient
  <2> QED
    BY <1>6, <1>7, <1>8, <2>5, <2>7 DEF Arriving
<1> QED
  BY <1>2, <1>4, <1>9, <1>10

(* An empty log with one entry appended is that entry.                     *)
LEMMA FirstEntry ==
  ASSUME NEW e
  PROVE  Len(Append(<<>>, e)) = 1
         /\ \A n \in DOMAIN Append(<<>>, e) : Append(<<>>, e)[n] = e
<1>1. Append(<<>>, e) = <<e>>
  OBVIOUS
<1> QED
  BY <1>1

(* The log of a step that has ended: step 2 notes its waits, if any.       *)
LEMMA SettledNoted ==
  ASSUME RunInv, Arriving, pc = "await", Check(obs, Expected)
  PROVE  /\ i # 2 => SettledLog = recovered
         /\ Len(SettledLog) <= 1
         /\ \A n \in DOMAIN SettledLog :
              SettledLog[n].step = 2 /\ SettledLog[n].attempts < SlowAttempts
<1>1. attempts \in Nat
  BY Counts
<1>2. CASE attempts = 0
  BY <1>2 DEF SettledLog, Arriving, Noted
<1>3. CASE attempts > 0
  <2>1. i = 2 /\ recovered = <<>> /\ attempts < SlowAttempts
    BY <1>3 DEF Arriving, Patient, Noted
  <2>2. SettledLog = Append(<<>>, Event("slow_load", "", attempts))
    BY <1>3, <2>1 DEF SettledLog
  <2>3. Event("slow_load", "", attempts).step = 2
        /\ Event("slow_load", "", attempts).attempts = attempts
    BY <2>1 DEF Event
  <2> DEFINE e == Event("slow_load", "", attempts)
  <2> HIDE DEF e
  <2>4. e.step = 2 /\ e.attempts = attempts /\ SettledLog = Append(<<>>, e)
    BY <2>2, <2>3 DEF e
  <2>5. Len(SettledLog) = 1 /\ \A n \in DOMAIN SettledLog : SettledLog[n] = e
    BY <2>4, FirstEntry
  <2> QED
    BY <2>1, <2>4, <2>5
<1> QED
  BY <1>1, <1>2, <1>3

LEMMA ArriveDecides ==
  ASSUME RunInv, Smooth, Searches, Arriving, Deciding, UNCHANGED world
  PROVE  Arriving'
<1>1. /\ i \in {1, 2, 3, 4} /\ Goal = 4 /\ attempts \in Nat /\ SlowAttempts \in Nat
      /\ attempts <= MAX_SLOW_RETRIES /\ MAX_SLOW_RETRIES \in Nat /\ SlowAttempts >= 1
      /\ page.path \in {"search", "member"} /\ TypeOK
  BY Counts DEF RunInv, TypeInv
<1>2. UNCHANGED <<page, nav>>
  BY DEF world
<1>3. CASE NoOutcome
  <2>1. /\ pc = "dismiss" /\ pc' = "await" /\ attempts' = 0
        /\ UNCHANGED <<i, obs, recovered, result>>
    BY <1>3 DEF NoOutcome
  <2>2. attempts = 0
    BY <2>1 DEF Arriving, Patient
  <2>3. InTime' /\ Patient'
    BY <1>1, <1>2, <2>1, <2>2 DEF Arriving, InTime, Patient
  <2>4. Seen'
    BY <1>2, <2>1 DEF Arriving, Seen
  <2>5. Noted'
    BY <2>1, NotedKept DEF Arriving, Noted, Stuck
  <2> QED
    BY <2>1, <2>3, <2>4, <2>5 DEF Arriving, RightEnd
<1>4. CASE GiveUp
  <2>1. pc = "await" /\ ~Check(obs, Expected) /\ attempts = MAX_SLOW_RETRIES
    BY <1>4 DEF GiveUp
  <2>2. i > 2 => "savings_balance" \in DOMAIN obs.fields
    BY <2>1 DEF Arriving, Seen
  <2>3. i = 2 /\ obs.screen # "detail"
    BY <1>1, <2>1, <2>2, Awaited
  <2>4. attempts + 2 <= SlowAttempts
    BY <2>1, <2>3 DEF Arriving, Patient
  <2> QED
    BY <1>1, <2>1, <2>4, SlowBankAssumption
<1>5. CASE StepDone
  <2>1. /\ pc = "await" /\ pc' = "step" /\ Check(obs, Expected) /\ i < 4
        /\ i' = i + 1 /\ attempts' = 0 /\ recovered' = SettledLog /\ UNCHANGED result
    BY <1>1, <1>5 DEF StepDone
  <2>2. i = 2 => page.path = "member"
    BY <1>1, <2>1, Awaited DEF Arriving, Seen
  <2>3. InTime'
    BY <1>1, <1>2, <2>1, <2>2 DEF Arriving, InTime
  <2>4. Patient' /\ Seen'
    BY <1>1, <2>1 DEF Patient, Seen
  <2>5. i' <= 2 => recovered' = <<>>
    <3>1. ASSUME i' <= 2 PROVE i = 1
      BY <1>1, <2>1, <3>1
    <3> QED
      BY <2>1, <3>1, SettledNoted DEF Arriving, Noted
  <2>6. Noted'
    BY <2>1, <2>5, SettledNoted DEF Arriving, Noted, Stuck
  <2> QED
    BY <2>1, <2>3, <2>4, <2>6 DEF Arriving, RightEnd
<1>6. CASE Succeed
  <2>1. /\ pc = "await" /\ pc' = "done" /\ Check(obs, Expected) /\ i = 4 /\ i' = i
        /\ attempts' = 0 /\ recovered' = SettledLog /\ result'.status = "success"
    BY <1>1, <1>6 DEF Succeed, Return
  <2>2. recovered' = recovered
    BY <2>1, SettledNoted
  <2>3. InTime' /\ Patient' /\ Seen'
    BY <1>1, <1>2, <2>1 DEF Arriving, InTime, Patient, Seen
  <2>4. Noted'
    BY <2>1, <2>2, NotedKept DEF Arriving
  <2> QED
    BY <2>1, <2>3, <2>4 DEF Arriving, RightEnd
<1>7. ~BusinessOutcome
  <2>1. \A k \in DOMAIN Artifact.known_outcomes :
          Check(obs, Artifact.known_outcomes[k].detect) => obs.screen = "not_found"
    BY <1>1, LiveRecipe DEF Check, Screen
  <2> QED
    BY <2>1 DEF BusinessOutcome, FirstMatch, Searches
<1> QED
  BY <1>3, <1>4, <1>5, <1>6, <1>7 DEF Deciding

(* The driver raises before the slow page has come; nobody is handed over. *)
LEMMA ArriveRaises ==
  ASSUME RunInv, Arriving, PerceiveRaises
  PROVE  Arriving'
<1>1. /\ pc' = "done" /\ result'.status = "raised" /\ result'.step = i /\ nav # NoNav
      /\ UNCHANGED <<i, obs, attempts, recovered, page, nav>>
  BY DEF PerceiveRaises, DriverRaises, Running, world
<1>2. /\ i \in {1, 2, 3, 4} /\ attempts \in Nat /\ SlowAttempts \in Nat
      /\ page.path \in {"search", "member"} /\ (nav # NoNav => nav.attempts \in Nat)
  BY Counts
<1>3. i = 2 /\ pc # "step"
  BY <1>1, <1>2 DEF Arriving, InTime
<1>4. InTime'
  BY <1>1, <1>2, <1>3 DEF Arriving, InTime
<1>5. Patient' /\ Seen'
  BY <1>1, <1>3 DEF Arriving, Patient, Seen
<1>6. Noted'
  BY <1>1, NotedKept DEF Arriving
<1>7. RightEnd'
  BY <1>1, <1>3 DEF Arriving, InTime, RightEnd
<1> QED
  BY <1>4, <1>5, <1>6, <1>7 DEF Arriving

LEMMA ArriveCommits ==
  ASSUME RunInv, SameFlags, Arriving, NavCommit
  PROVE  Arriving'
<1>1. /\ nav # NoNav /\ nav' = NoNav /\ page' = MemberPage(nav.to, nav.slow, nav.hide)
      /\ UNCHANGED <<i, pc, obs, attempts, recovered, result>>
  BY DEF NavCommit, NavCommits, Commit, vars
<1>2. page'.path = "member" /\ page'.slow = page.slow
  BY <1>1 DEF MemberPage, SameFlags, FlagsOf
<1>3. i = 2 /\ pc # "step"
  BY <1>1, Counts DEF Arriving, InTime
<1>4. InTime' /\ Patient' /\ Seen'
  BY <1>1, <1>2, <1>3 DEF Arriving, InTime, Patient, Seen
<1>5. Noted'
  BY <1>1 DEF Arriving, Noted, Stuck
<1>6. RightEnd'
  BY <1>1, <1>2 DEF Arriving, RightEnd
<1> QED
  BY <1>4, <1>5, <1>6 DEF Arriving

LEMMA ArriveStep == RunInv /\ SearchInv /\ ArriveInv /\ [LiveNext]_liveVars => ArriveInv'
<1> SUFFICES ASSUME RunInv, SearchInv, ArriveInv, [LiveNext]_liveVars, Smooth'
             PROVE  Arriving'
  BY SmoothBack DEF ArriveInv
<1>1. Smooth /\ Searches /\ Arriving /\ ~HumanFix /\ ~LiveResume
  BY SmoothBack DEF ArriveInv, SearchInv, Smooth
<1>2. CASE LiveEngineStep
  BY <1>1, <1>2, ArriveActs, ArriveWaits, ArriveLooks, ArriveDecides DEF LiveEngineStep
<1>3. CASE PerceiveRaises
  BY <1>1, <1>3, ArriveRaises
<1>4. CASE NavCommit
  BY <1>1, <1>4, ArriveCommits DEF ArriveInv
<1>5. CASE UNCHANGED liveVars
  BY <1>1, <1>5 DEF liveVars, vars, world, Arriving, InTime, Patient, Seen, Noted, Stuck, RightEnd
<1> QED
  BY <1>1, <1>2, <1>3, <1>4, <1>5 DEF LiveNext

LEMMA ArriveInit == LiveInit => ArriveInv
<1> SUFFICES ASSUME LiveInit PROVE ArriveInv
  OBVIOUS
<1>1. /\ pc = "step" /\ i = 1 /\ attempts = 0 /\ recovered = <<>> /\ result = Running
      /\ nav = NoNav
  BY DEF LiveInit, Init
<1>2. PICK slow \in BOOLEAN, hide \in BOOLEAN : page = SearchPage(slow, hide)
  BY DEF LiveInit
<1>3. page.path = "search"
  BY <1>2 DEF SearchPage
<1>4. InTime /\ Patient /\ Seen
  BY <1>1, <1>3 DEF InTime, Patient, Seen
<1>5. Noted
  <2>1. Len(recovered) = 0 /\ DOMAIN recovered = {}
    BY <1>1
  <2>2. ~Stuck
    BY <1>1 DEF Stuck, Running
  <2> QED
    BY <1>1, <2>1, <2>2 DEF Noted
<1> QED
  BY <1>1, <1>4, <1>5 DEF ArriveInv, SameFlags, Arriving, RightEnd

(* A slow page is recovered from: a smooth run that is over is a success,  *)
(* unless a read torn by the slow page raised at the click's step, and the *)
(* waits that the slow load took are logged once, at that step.            *)
THEOREM SlowLoadProved == LiveSpec => []SlowLoadRecovers
<1>1. RunInv /\ SearchInv /\ ArriveInv /\ [LiveNext]_liveVars => ArriveInv'
  BY ArriveStep
<1>2. LiveInit => ArriveInv
  BY ArriveInit
<1>3. ArriveInv => SlowLoadRecovers
  BY DEF ArriveInv, Arriving, Noted, RightEnd, SlowLoadRecovers
<1> QED
  BY <1>1, <1>2, <1>3, RunInvariant, SearchInvariant, PTL DEF LiveSpec


-----------------------------------------------------------------------------
(* What perceive() puts together of a page that is being replaced.         *)

(* A read that is torn between the search page and the page after it is a  *)
(* whole read of one of them.                                              *)
LEMMA TornIsWhole ==
  ASSUME NEW p, NEW q, p.path = "search"
  PROVE  TornReads(p, q) \subseteq {LivePerceive(p), LivePerceive(q)}
<1>1. ~NoSuchMember(p) /\ p.path # "member"
  BY DEF NoSuchMember
<1>2. PerceiveFrom(p, p, p) = LivePerceive(p) /\ PerceiveFrom(q, q, q) = LivePerceive(q)
  BY Zenon DEF LivePerceive
<1>3. \A rows : PerceiveFrom(p, p, rows) = [screen |-> "search", fields |-> <<>>]
  <2> TAKE rows
  <2>1. PerceiveFrom(p, p, rows) = [screen |-> "search", fields |-> [f \in {} |-> Cells(rows.member)[f]]]
    BY <1>1 DEF PerceiveFrom
  <2> QED
    BY <2>1
<1>4. PerceiveFrom(p, q, q) \in {LivePerceive(p), LivePerceive(q)}
  <2>1. CASE NoSuchMember(q)
    BY <2>1 DEF PerceiveFrom, LivePerceive
  <2>2. CASE ~NoSuchMember(q)
    <3>1. PerceiveFrom(p, q, q) = [screen |-> "search", fields |-> [f \in {} |-> Cells(q.member)[f]]]
      BY <1>1, <2>2 DEF PerceiveFrom
    <3>2. PerceiveFrom(p, q, q) = [screen |-> "search", fields |-> <<>>]
      BY <3>1
    <3> QED
      BY <1>2, <1>3, <3>2
  <2> QED
    BY <2>1, <2>2
<1> QED
  BY <1>2, <1>3, <1>4 DEF TornReads

(* A navigation is in flight over the search page only.                    *)
Leaving == nav # NoNav => page.path = "search"

(* A wait does not put a navigation in flight over another page.           *)
LEMMA WaitLeaves ==
  ASSUME NEW p, NEW n, n # NoNav => p.path = "search", WaitBriefly(p, n)
  PROVE  Leaving'
BY DEF WaitBriefly, Leaving

LEMMA LeavingStep == RunInv /\ Leaving /\ [LiveNext]_liveVars => Leaving'
<1> SUFFICES ASSUME RunInv, Leaving, [LiveNext]_liveVars PROVE Leaving'
  OBVIOUS
<1>1. TypeOK /\ PageInv /\ page \in OwnPage /\ page.path \in {"search", "member"}
  BY DEF RunInv, TypeInv, LiveInv, PageInv, OwnPage
<1>2. CASE Act /\ LiveAct(Steps[i])
  <2>1. CASE page.path = "member"
    <3>1. i < Goal
      BY <1>2 DEF Act
    <3> QED
      BY <1>1, <1>2, <2>1, <3>1, MemberPageStays DEF Leaving
  <2>2. CASE page.path = "search"
    <3>1. CASE \E n : WaitBriefly(page, n)
      BY <2>2, <3>1, WaitLeaves
    <3>2. CASE \E box : page' = [page EXCEPT !.box = box]
      BY <1>1, <2>2, <3>2 DEF Leaving, OwnPage
    <3>3. CASE UNCHANGED <<page, nav>>
      BY <3>3 DEF Leaving
    <3> QED
      BY <1>2, <3>1, <3>2, <3>3 DEF LiveAct, DriverAct
  <2> QED
    BY <1>1, <2>1, <2>2
<1>3. CASE WaitBriefly(page, nav)
  BY <1>3, WaitLeaves DEF Leaving
<1>4. CASE NavCommit \/ HumanFix
  BY <1>4 DEF NavCommit, NavCommits, HumanFix, Leaving
<1>5. CASE UNCHANGED <<page, nav>>
  BY <1>5 DEF Leaving
<1> QED
  BY <1>2, <1>3, <1>4, <1>5
  DEF LiveNext, LiveEngineStep, PerceiveRaises, LiveResume, liveVars, world

LEMMA LeavingInvariant == LiveSpec => []Leaving
<1>1. LiveInit => Leaving
  BY DEF LiveInit, Leaving
<1> QED
  BY <1>1, LeavingStep, RunInvariant, PTL DEF LiveSpec

(* A perceive() that a navigation tears returns what it would have         *)
(* returned before it or after it.                                         *)
THEOREM TornReadsProved == LiveSpec => []TornReadsAreWhole
<1>1. Leaving => TornReadsAreWhole
  BY TornIsWhole DEF Leaving, TornReadsAreWhole
<1> QED
  BY <1>1, LeavingInvariant, PTL
=============================================================================
