--------------------------- MODULE FakeReplay_proofs ---------------------------
(***************************************************************************)
(* What POST /invoke answers is what the bank's state calls for: for any   *)
(* table of members, any inputs, pages of any slowness, any bounds of the  *)
(* loops and of the resumes, and any allowlists.                           *)
(*                                                                         *)
(* The argument: every run of the composition is one of the engine alone,  *)
(* so the engine's invariants hold of it (FakeKeepsEngine).  What the      *)
(* engine decides on is what the bank shows at that moment (BankInv), and  *)
(* the waits of all calls and those left to the page add up to what the    *)
(* page is slow by (VerdictInv).                                           *)
(***************************************************************************)
EXTENDS FakeReplay, Replay_proofs

(* The engine decides on what the bank shows; past the search that is the  *)
(* member, and the page has come.                                          *)
BankInv ==
  /\ bank \in Bank
  /\ inputs \in Inputs
  /\ bank.screen = "detail" => bank.current \in DOMAIN MEMBERS
  /\ pc # "dismissed"
  /\ pc \in {"dismiss", "await"} => obs = FakePerceive(bank)
  /\ pc \notin {"await", "waited"} => attempts = 0
  /\ i >= 3 => bank.screen = "detail" /\ bank.slow_remaining = 0

(* A success is one of the last phase, and a run that was never paused has *)
(* passed the gate at each of its steps.                                   *)
PassedGate ==
  /\ result.status = "success" => i = Goal
  /\ resumes = 0 =>
       /\ \A k \in 1..(i - 1) : Permitted(k)
       /\ pc \notin {"step", "done"} /\ i < Goal => Permitted(i)

AllPermitted == \A k \in DOMAIN Steps : Permitted(k)

(* The waits before this call that the page still counts.                  *)
Earlier == IF Steps[2].retry_safe THEN 0 ELSE MAX_SLOW_RETRIES * resumes

(* The first step has put the member's id into the search box.             *)
Typing ==
  i = 1 =>
    /\ bank.screen = "search" /\ resumes = 0 /\ pc \notin {"waited", "done"} /\ attempts = 0
    /\ pc # "step" => bank.query = Member

(* The search is submitted: the page answers it, and it has been waited    *)
(* for as long as the page was slow, less what is left of that.            *)
Searching ==
  i = 2 =>
    /\ bank.query = Member
    /\ resumes > 0 => start = 2
    /\ pc = "step" /\ resumes = 0 => bank.screen = "search"
    /\ (pc # "step" \/ resumes > 0) /\ Known =>
         /\ bank.screen = "detail" /\ bank.current = Member
         /\ pc \in {"perceive", "dismiss", "await"} =>
              bank.slow_remaining + attempts + Earlier = bank.slow_turns
         /\ pc = "waited" => bank.slow_remaining + attempts + 1 + Earlier = bank.slow_turns
         /\ pc = "step" /\ ~Steps[2].retry_safe =>
              bank.slow_remaining + Earlier = bank.slow_turns
         /\ pc = "done" => TooSlow
         /\ pc = "done" /\ ~Steps[2].retry_safe =>
              bank.slow_remaining + Earlier + MAX_SLOW_RETRIES = bank.slow_turns
    /\ (pc # "step" \/ resumes > 0) /\ ~Known =>
         /\ bank.screen = "not_found" /\ resumes = 0
         /\ pc \in {"perceive", "dismiss", "done"}

(* The member's page is there, in time; beyond the read its balance shows. *)
Reading ==
  i >= 3 =>
    /\ Known /\ ~TooSlow /\ bank.query = Member /\ bank.current = Member
    /\ ~bank.hide_balance => pc # "waited" /\ attempts = 0
    /\ i = 4 => ~bank.hide_balance

(* A result is of the step that calls for it.                              *)
Answering ==
  /\ result.status = "success" =>
       i = 4 /\ result.outputs = [f \in {"savings_balance"} |-> MEMBERS[Member].savings]
  /\ result.status = "business_outcome" => i = 2 /\ ~Known /\ result.about = "member_not_found"
  /\ Stuck => Known /\ i \in {2, 3}
  /\ result.status # "raised"

VerdictInv == AllPermitted => Typing /\ Searching /\ Reading /\ Answering

(* The log that a run without a pause has made so far.                     *)
WaitLog ==
  IF bank.slow_turns = 0 THEN <<>>
  ELSE <<[step |-> 2, condition |-> "slow_load", name |-> "", attempts |-> bank.slow_turns]>>

LogInv ==
  AllPermitted /\ resumes = 0 =>
    /\ i <= 2 => recovered = <<>>
    /\ i >= 3 => recovered = WaitLog
    /\ result.status = "success" => result.recovered = recovered

-----------------------------------------------------------------------------
(* The recipe, step by step.                                               *)
LEMMA FakeRecipe ==
  ASSUME TypeOK
  PROVE  /\ Len(Steps) = 3 /\ Goal = 4 /\ DOMAIN Steps = 1..3
         /\ Artifact.success = Field("savings_balance")
         /\ Artifact.outputs = {"savings_balance"}
         /\ Artifact.known_interstitials = <<>>
         /\ Artifact.known_outcomes =
              <<[name |-> "member_not_found", detect |-> Screen("not_found")]>>
         /\ Steps[1].action = "type" /\ Steps[1].target[1].value = "search_box"
         /\ Steps[1].value_from = "member_id" /\ Steps[1].checkpoint = NoCheckpoint
         /\ Steps[1].retry_safe
         /\ Steps[2].action = "click" /\ Steps[2].target[1].value = "search_button"
         /\ Steps[2].checkpoint = Screen("detail") /\ Steps[2].retry_safe \in BOOLEAN
         /\ Steps[3].action = "read" /\ Steps[3].retry_safe
         /\ Steps[3].checkpoint = Field("savings_balance")
<1>1. Artifact \in Artifacts
  BY DEF TypeOK, Artifact
<1>2. PICK safe \in BOOLEAN : Artifact = FakeDiscovery(safe)
  BY <1>1, FakeRecipesAssumption
<1>3. /\ Artifact.success = Field("savings_balance")
      /\ Artifact.outputs = {"savings_balance"}
      /\ Artifact.known_interstitials = <<>>
      /\ Artifact.known_outcomes =
           <<[name |-> "member_not_found", detect |-> Screen("not_found")]>>
  BY <1>2 DEF FakeDiscovery
<1> DEFINE s1 == [action |-> "type", target |-> Target("role_name", "search_box"),
                  value_from |-> "member_id", checkpoint |-> NoCheckpoint,
                  retry_safe |-> TRUE]
           s2 == [action |-> "click", target |-> Target("role_name", "search_button"),
                  value_from |-> "", checkpoint |-> Screen("detail"), retry_safe |-> safe]
           s3 == [action |-> "read", target |-> Target("label_anchor", "savings_balance"),
                  value_from |-> "", checkpoint |-> Field("savings_balance"),
                  retry_safe |-> TRUE]
<1>4. Steps = <<s1, s2, s3>>
  BY <1>2, Zenon DEF FakeDiscovery, Steps
<1>5. Target("role_name", "search_box")[1].value = "search_box"
  BY DEF Target
<1>6. Target("role_name", "search_button")[1].value = "search_button"
  BY DEF Target
<1>7. /\ s1.action = "type" /\ s1.target[1].value = "search_box"
      /\ s1.value_from = "member_id" /\ s1.checkpoint = NoCheckpoint /\ s1.retry_safe
  BY <1>5
<1>8. /\ s2.action = "click" /\ s2.target[1].value = "search_button"
      /\ s2.checkpoint = Screen("detail") /\ s2.retry_safe = safe
  BY <1>6
<1>9. s3.action = "read" /\ s3.retry_safe /\ s3.checkpoint = Field("savings_balance")
  OBVIOUS
<1> HIDE DEF s1, s2, s3
<1>10. Len(Steps) = 3 /\ DOMAIN Steps = 1..3 /\ Goal = 4
  BY <1>4 DEF Goal
<1>11. Steps[1] = s1 /\ Steps[2] = s2 /\ Steps[3] = s3
  BY <1>4
<1> QED
  BY <1>3, <1>7, <1>8, <1>9, <1>10, <1>11

(* There is one outcome and no overlay to look for.                        *)
LEMMA FakeRules ==
  ASSUME TypeOK, NEW o
  PROVE  /\ ~Matches(Artifact.known_interstitials, o)
         /\ Matches(Artifact.known_outcomes, o) <=> o.screen = "not_found"
         /\ DOMAIN Artifact.known_outcomes = {1}
         /\ Artifact.known_outcomes[1].name = "member_not_found"
<1>1. /\ Artifact.known_interstitials = <<>>
      /\ Artifact.known_outcomes =
           <<[name |-> "member_not_found", detect |-> Screen("not_found")]>>
  BY FakeRecipe
<1>2. DOMAIN Artifact.known_interstitials = {} /\ DOMAIN Artifact.known_outcomes = {1}
  BY <1>1
<1>3. /\ Artifact.known_outcomes[1].name = "member_not_found"
      /\ Artifact.known_outcomes[1].detect = Screen("not_found")
  BY <1>1
<1>4. Check(o, Screen("not_found")) <=> o.screen = "not_found"
  BY DEF Check, Screen
<1> QED
  BY <1>2, <1>3, <1>4 DEF Matches

(* What the bank shows the engine may be shown.                            *)
LEMMA FakeShows ==
  ASSUME BankInv
  PROVE  FakePerceive(bank) \in Observations
<1>1. /\ bank.screen \in {"search", "detail", "not_found"}
      /\ bank.hide_balance \in BOOLEAN /\ bank.slow_remaining \in Nat
      /\ bank.screen = "detail" => bank.current \in DOMAIN MEMBERS
  BY DEF BankInv, Bank
<1>2. CASE bank.screen # "detail"
  BY <1>1, <1>2, FakePagesAssumption DEF FakePerceive
<1>3. CASE bank.screen = "detail"
  <2> DEFINE b == [screen |-> "detail", current |-> bank.current,
                   hide_balance |-> bank.hide_balance,
                   slow_remaining |-> IF bank.slow_remaining > 0 THEN 1 ELSE 0]
  <2>1. FakePerceive(b) \in Observations
    BY <1>1, <1>3, FakePagesAssumption
  <2>2. /\ b.screen = bank.screen /\ b.current = bank.current
        /\ b.hide_balance = bank.hide_balance
        /\ b.slow_remaining > 0 <=> bank.slow_remaining > 0
    BY <1>1, <1>3
  <2>3. FakePerceive(bank) = FakePerceive(b)
    <3> HIDE DEF b
    <3> QED
      BY <2>2, Zenon DEF FakePerceive
  <2> QED
    BY <2>1, <2>3
<1> QED
  BY <1>2, <1>3

(* What it shows, by the state it is in.                                   *)
LEMMA FakeScreens ==
  ASSUME NEW b, b.slow_remaining \in Nat, b.hide_balance \in BOOLEAN
  PROVE  /\ b.screen # "detail" => FakePerceive(b).screen = b.screen
         /\ b.screen = "detail" => FakePerceive(b).screen \in {"detail", "loading"}
         /\ FakePerceive(b).screen = "detail" <=> b.screen = "detail" /\ b.slow_remaining = 0
         /\ "savings_balance" \in DOMAIN FakePerceive(b).fields <=>
              b.screen = "detail" /\ b.slow_remaining = 0 /\ ~b.hide_balance
         /\ "savings_balance" \in DOMAIN FakePerceive(b).fields =>
              FakePerceive(b).fields["savings_balance"] = MEMBERS[b.current].savings
<1>1. DOMAIN <<>> = {}
  OBVIOUS
<1>2. CASE b.screen # "detail"
  BY <1>1, <1>2 DEF FakePerceive
<1>3. CASE b.screen = "detail" /\ b.slow_remaining > 0
  BY <1>1, <1>3 DEF FakePerceive
<1>4. CASE b.screen = "detail" /\ ~(b.slow_remaining > 0)
  BY <1>4 DEF FakePerceive
<1> QED
  BY <1>2, <1>3, <1>4

(* A step of the composition is one of the engine.                         *)
LEMMA FakeStepIsEngine ==
  ASSUME BankInv, [FakeNext]_fakeVars
  PROVE  [Next]_vars
<1>1. CASE Looking
  BY <1>1, FakeShows DEF Looking, Next, EngineStep
<1>2. CASE Deciding
  BY <1>2 DEF Deciding, Next, EngineStep
<1>3. CASE Act \/ Retry \/ Resume
  BY <1>3 DEF Next, EngineStep
<1>4. CASE UNCHANGED vars
  BY <1>4
<1> QED
  BY <1>1, <1>2, <1>3, <1>4 DEF FakeNext, FakeEngineStep, HumanFix, FakeResume, fakeVars

-----------------------------------------------------------------------------
(* The driver's calls, one by one.                                         *)

(* The first step types the id that was given, and nothing if none was.    *)
LEMMA TypesMember ==
  ASSUME TypeOK, inputs \in Inputs
  PROVE  FakeAct(bank, Steps[1]) = [bank EXCEPT !.query = Member] /\ Member \in Names
<1>1. /\ Steps[1].action = "type" /\ Steps[1].target[1].value = "search_box"
      /\ Steps[1].value_from = "member_id"
  BY FakeRecipe
<1>2. FakeAct(bank, Steps[1]) = FakeType(bank, ValueOf(Steps[1], inputs))
  BY <1>1 DEF FakeAct
<1>3. CASE "member_id" \in DOMAIN inputs
  BY <1>1, <1>2, <1>3, FakeInputsAssumption DEF ValueOf, FakeType, Member
<1>4. CASE "member_id" \notin DOMAIN inputs
  BY <1>1, <1>2, <1>4, FakeInputsAssumption DEF ValueOf, FakeType, Member
<1> QED
  BY <1>3, <1>4

(* The second submits the search, the third only reads.                    *)
LEMMA ClicksAndReads ==
  ASSUME TypeOK
  PROVE  FakeAct(bank, Steps[2]) = FakeClick(bank) /\ FakeAct(bank, Steps[3]) = bank
<1>1. /\ Steps[2].action = "click" /\ Steps[2].target[1].value = "search_button"
      /\ Steps[3].action = "read"
  BY FakeRecipe
<1> QED
  BY <1>1 DEF FakeAct

(* A click shows the member, or that there is none.                        *)
LEMMA ClickShows ==
  ASSUME bank \in Bank, DOMAIN MEMBERS \subseteq Names
  PROVE  /\ FakeClick(bank) \in Bank
         /\ FakeClick(bank).query = bank.query
         /\ FakeClick(bank).slow_turns = bank.slow_turns
         /\ FakeClick(bank).hide_balance = bank.hide_balance
         /\ bank.query \in DOMAIN MEMBERS =>
              /\ FakeClick(bank).screen = "detail"
              /\ FakeClick(bank).current = bank.query
              /\ FakeClick(bank).slow_remaining = bank.slow_turns
         /\ bank.query \notin DOMAIN MEMBERS => FakeClick(bank).screen = "not_found"
<1>1. bank.slow_turns \in Nat
  BY SlowTurnsAssumption DEF Bank
<1>2. CASE bank.query \in DOMAIN MEMBERS
  BY <1>1, <1>2 DEF FakeClick, Bank
<1>3. CASE bank.query \notin DOMAIN MEMBERS
  BY <1>3 DEF FakeClick, Bank
<1> QED
  BY <1>2, <1>3

(* A wait is one turn less to go.                                          *)
LEMMA WaitCounts ==
  ASSUME bank \in Bank
  PROVE  /\ FakeWait(bank) \in Bank
         /\ FakeWait(bank).screen = bank.screen /\ FakeWait(bank).current = bank.current
         /\ FakeWait(bank).query = bank.query
         /\ FakeWait(bank).slow_turns = bank.slow_turns
         /\ FakeWait(bank).hide_balance = bank.hide_balance
         /\ bank.slow_remaining = 0 => FakeWait(bank).slow_remaining = 0
         /\ bank.slow_remaining > 0 => FakeWait(bank).slow_remaining + 1 = bank.slow_remaining
<1>1. bank.slow_remaining \in Nat
  BY DEF Bank
<1>2. CASE bank.slow_remaining > 0
  <2>1. FakeWait(bank) = [bank EXCEPT !.slow_remaining = bank.slow_remaining - 1]
    BY <1>2 DEF FakeWait
  <2>2. bank.slow_remaining - 1 \in Nat
    BY <1>1, <1>2
  <2> QED
    BY <1>1, <1>2, <2>1, <2>2 DEF Bank
<1>3. CASE bank.slow_remaining = 0
  <2>1. FakeWait(bank) = [bank EXCEPT !.slow_remaining = 0]
    BY <1>3 DEF FakeWait
  <2> QED
    BY <1>3, <2>1 DEF Bank
<1> QED
  BY <1>1, <1>2, <1>3

-----------------------------------------------------------------------------
(* BankInv, one lemma per kind of step.                                    *)

(* A step of a run that leaves the bank, the inputs and the position alone.*)
LEMMA BankLocal ==
  ASSUME BankInv, UNCHANGED <<bank, inputs, i>>, pc' # "dismissed",
         pc' \in {"dismiss", "await"} => obs' = FakePerceive(bank),
         pc' \notin {"await", "waited"} => attempts' = 0
  PROVE  BankInv'
  BY DEF BankInv

(* What the engine decides keeps the observation it decided on.            *)
LEMMA BankDecides ==
  ASSUME TypeOK, BankInv, Deciding, UNCHANGED <<bank, inputs>>
  PROVE  BankInv'
<1>1. CASE StepDone
  <2>1. /\ i' = i + 1 /\ pc' = "step" /\ attempts' = 0 /\ i < Goal /\ pc = "await"
        /\ Check(obs, Steps[i].checkpoint)
    BY <1>1, Position, FakeRecipe DEF StepDone, Expected
  <2>2. /\ i \in 1..3 /\ Steps[2].checkpoint = Screen("detail")
        /\ obs = FakePerceive(bank)
        /\ bank.slow_remaining \in Nat /\ bank.hide_balance \in BOOLEAN
    BY <2>1, Position, FakeRecipe DEF BankInv, Bank
  <2>3. ASSUME i' >= 3 PROVE bank.screen = "detail" /\ bank.slow_remaining = 0
    <3>1. CASE i = 2
      <4>1. obs.screen = "detail"
        BY <2>1, <2>2, <3>1 DEF Check, Screen
      <4> QED
        BY <2>2, <4>1, FakeScreens
    <3>2. CASE i = 3
      BY <3>2 DEF BankInv
    <3> QED
      BY <2>1, <2>2, <2>3, <3>1, <3>2
  <2> QED
    BY <2>1, <2>3 DEF BankInv
<1>2. CASE BusinessOutcome \/ NoOutcome \/ GiveUp \/ Succeed \/ OutputsMissing
  <2>1. UNCHANGED <<i, obs>> /\ pc \in {"dismiss", "await"} /\ pc' \in {"done", "await"}
    BY <1>2 DEF BusinessOutcome, NoOutcome, GiveUp, Succeed, OutputsMissing, Fail, Return
  <2>2. pc' \notin {"await", "waited"} => attempts' = 0
    BY <1>2 DEF BankInv, BusinessOutcome, NoOutcome, GiveUp, Succeed, OutputsMissing
  <2> QED
    BY <2>1, <2>2, BankLocal DEF BankInv
<1> QED
  BY <1>1, <1>2 DEF Deciding

(* perceive() shows what the bank shows.                                   *)
LEMMA BankLooks ==
  ASSUME TypeOK, BankInv, Looking, UNCHANGED <<bank, inputs>>
  PROVE  BankInv'
<1>1. CASE Perceive(FakePerceive(bank)) \/ TrustPaused(FakePerceive(bank))
  BY <1>1, BankLocal DEF Perceive, TrustPaused, BankInv
<1>2. CASE Deny(FakePerceive(bank))
  BY <1>2, BankLocal DEF Deny, Fail, Return, BankInv
<1>3. CASE FinalLook(FakePerceive(bank)) \/ AfterWait(FakePerceive(bank))
  BY <1>3, BankLocal DEF FinalLook, AfterWait, BankInv
<1> QED
  BY <1>1, <1>2, <1>3 DEF Looking

(* Beyond the search nothing that is issued takes the bank elsewhere.      *)
LEMMA BankActs ==
  ASSUME TypeOK, BankInv, UNCHANGED inputs,
         \/ Act /\ bank' = FakeAct(bank, Steps[i])
         \/ Retry /\ bank' = FakeWait(bank)
  PROVE  BankInv'
<1>1. /\ i' = i /\ pc' \in {"perceive", "waited"}
      /\ pc' # "waited" => attempts' = 0
      /\ bank \in Bank /\ inputs \in Inputs
  BY DEF Act, Retry, BankInv
<1>2. CASE Act /\ bank' = FakeAct(bank, Steps[i])
  <2>1. i \in 1..3
    BY <1>2, Position, FakeRecipe DEF Act
  <2>2. CASE i = 1
    <3>1. bank' = [bank EXCEPT !.query = Member] /\ Member \in Names
      BY <1>1, <1>2, <2>2, TypesMember
    <3>2. bank' \in Bank /\ bank'.screen = bank.screen /\ bank'.current = bank.current
      BY <1>1, <3>1 DEF Bank
    <3> QED
      BY <1>1, <2>2, <3>2 DEF BankInv
  <2>3. CASE i = 2
    <3>1. bank' = FakeClick(bank)
      BY <1>2, <2>3, ClicksAndReads
    <3>2. bank' \in Bank /\ (bank'.screen = "detail" => bank'.current \in DOMAIN MEMBERS)
      BY <1>1, <3>1, ClickShows, FakeInputsAssumption
    <3> QED
      BY <1>1, <2>3, <3>2 DEF BankInv
  <2>4. CASE i = 3
    <3>1. bank' = bank
      BY <1>2, <2>4, ClicksAndReads
    <3> QED
      BY <1>1, <3>1 DEF BankInv
  <2> QED
    BY <2>1, <2>2, <2>3, <2>4
<1>3. CASE Retry /\ bank' = FakeWait(bank)
  <2>1. /\ bank' \in Bank /\ bank'.screen = bank.screen /\ bank'.current = bank.current
        /\ bank.slow_remaining = 0 => bank'.slow_remaining = 0
    BY <1>1, <1>3, WaitCounts
  <2>2. pc' = "waited"
    BY <1>3 DEF Retry
  <2> QED
    BY <1>1, <2>1, <2>2 DEF BankInv
<1> QED
  BY <1>2, <1>3

-----------------------------------------------------------------------------
(* A run starts with the bank at its search page.                          *)
LEMMA BankInit == FakeInit => BankInv
<1> SUFFICES ASSUME FakeInit PROVE BankInv
  OBVIOUS
<1>1. i = 1 /\ pc = "step" /\ attempts = 0
  BY DEF FakeInit, Init
<1>2. /\ bank \in [screen : {"search"}, query : {""}, current : {None},
                    hide_balance : BOOLEAN, slow_turns : SlowTurns, slow_remaining : {0}]
      /\ inputs \in Inputs
  BY DEF FakeInit
<1>3. "" \in Names /\ None \in Names
  BY FakeInputsAssumption
<1>4. PICK hide \in BOOLEAN, slow \in SlowTurns :
        bank = [screen |-> "search", query |-> "", current |-> None,
                hide_balance |-> hide, slow_turns |-> slow, slow_remaining |-> 0]
  BY <1>2
<1>5. bank.screen = "search" /\ bank \in Bank
  BY <1>3, <1>4 DEF Bank
<1>6. /\ pc # "dismissed" /\ pc \notin {"dismiss", "await"} /\ ~(i >= 3)
      /\ bank.screen # "detail"
  BY <1>1, <1>5
<1> QED
  BY <1>1, <1>2, <1>5, <1>6, Zenon DEF BankInv

FakeInv == TypeInv /\ Phase /\ BankInv

(* Every step of the composition keeps the engine's invariants and         *)
(* BankInv.                                                                *)
LEMMA FakeInvStep == FakeInv /\ [FakeNext]_fakeVars => FakeInv'
<1> SUFFICES ASSUME FakeInv, [FakeNext]_fakeVars PROVE FakeInv'
  OBVIOUS
<1>1. TypeOK /\ BankInv
  BY DEF FakeInv, TypeInv
<1>2. TypeInv' /\ Phase'
  BY <1>1, FakeStepIsEngine, TypeStep, PhaseStep DEF FakeInv
<1>3. CASE FakeEngineStep
  <2>1. BankInv'
    BY <1>1, <1>3, BankActs, BankLooks, BankDecides DEF FakeEngineStep
  <2> QED
    BY <1>2, <2>1 DEF FakeInv
<1>4. CASE HumanFix
  <2>1. /\ bank' = [bank EXCEPT !.hide_balance = FALSE] /\ bank \in Bank
        /\ UNCHANGED <<vars, inputs>>
        /\ result.status = "paused"
    BY <1>1, <1>4 DEF HumanFix, BankInv
  <2>2. bank' \in Bank /\ bank'.screen = bank.screen /\ bank'.current = bank.current
        /\ bank'.slow_remaining = bank.slow_remaining
    BY <2>1 DEF Bank
  <2>3. pc = "done"
    BY <2>1 DEF FakeInv, Phase
  <2> QED
    BY <1>1, <1>2, <2>1, <2>2, <2>3 DEF FakeInv, BankInv, vars
<1>5. CASE FakeResume
  <2>1. /\ UNCHANGED <<bank, inputs, attempts>> /\ result.status = "paused"
        /\ i' = result.step /\ pc' = "step"
    BY <1>5 DEF FakeResume, Resume
  <2>2. pc = "done" /\ i' = i
    BY <2>1 DEF FakeInv, Phase, Stuck
  <2>3. attempts' = 0
    BY <1>1, <2>1, <2>2 DEF BankInv
  <2> QED
    BY <1>1, <1>2, <2>1, <2>2, <2>3, BankLocal DEF FakeInv
<1>6. CASE UNCHANGED fakeVars
  BY <1>1, <1>2, <1>6 DEF FakeInv, BankInv, fakeVars, vars
<1> QED
  BY <1>3, <1>4, <1>5, <1>6 DEF FakeNext

(* These invariants hold in every state of a run on the bank.              *)
LEMMA FakeInvariant == FakeSpec => []FakeInv
<1>1. FakeInit => Init
  BY DEF FakeInit
<1>2. FakeInit => FakeInv
  BY <1>1, TypeInit, PhaseInit, BankInit DEF FakeInv
<1> QED
  BY <1>2, FakeInvStep, PTL DEF FakeSpec

(* Every run on the in-memory bank is one of the engine: what holds of the *)
(* engine whatever the driver does holds of POST /invoke.                  *)
THEOREM FakeKeepsEngine == FakeSpec => Spec
<1>1. FakeInit => Init
  BY DEF FakeInit
<1>2. FakeInv /\ [FakeNext]_fakeVars => [Next]_vars
  BY FakeStepIsEngine DEF FakeInv
<1> QED
  BY <1>1, <1>2, FakeInvariant, PTL DEF FakeSpec, Spec

(* Every variable of engine and bank is of its type; in particular the     *)
(* member the bank shows is one that it has.                               *)
THEOREM FakeTypes == FakeSpec => []BankTypeOK
<1>1. FakeInv => BankTypeOK
  BY DEF FakeInv, TypeInv, BankInv, BankTypeOK
<1> QED
  BY <1>1, FakeInvariant, PTL

(* A call made while the balance is hidden does not succeed, and one that  *)
(* gets stuck at a permitted read found the balance hidden.                *)
THEOREM HiddenStops == FakeSpec => HiddenBalanceStops
<1> DEFINE Stops ==
      /\ bank.hide_balance /\ result.status = "running" => result'.status # "success"
      /\ result.status = "running" /\ Stuck' /\ i = 3 /\ Permitted(3) => bank.hide_balance
<1>1. FakeInv /\ [FakeNext]_fakeVars => [Stops]_fakeVars
  <2> SUFFICES ASSUME FakeInv, [FakeNext]_fakeVars PROVE [Stops]_fakeVars
    OBVIOUS
  <2>1. /\ TypeOK /\ BankInv
        /\ Goal = 4 /\ Artifact.success = Field("savings_balance")
        /\ Steps[3].checkpoint = Field("savings_balance") /\ Steps[3].retry_safe
        /\ bank.slow_remaining \in Nat /\ bank.hide_balance \in BOOLEAN
    BY FakeRecipe DEF FakeInv, TypeInv, BankInv, Bank
  <2>2. CASE Succeed
    <3>1. /\ Check(obs, Field("savings_balance")) /\ obs = FakePerceive(bank)
          /\ result'.status = "success"
      BY <2>1, <2>2 DEF Succeed, Expected, Return, BankInv
    <3>2. ~bank.hide_balance
      BY <2>1, <3>1, FakeScreens DEF Check, Field
    <3> QED
      BY <3>1, <3>2 DEF Stuck
  <2>3. CASE GiveUp
    <3>1. /\ ~Check(obs, Expected) /\ obs = FakePerceive(bank)
          /\ result'.status \in {"paused", "failure"}
      BY <2>1, <2>3 DEF GiveUp, Fail, Return, BankInv
    <3>2. ASSUME i = 3 PROVE bank.hide_balance
      <4>1. Expected = Field("savings_balance") /\ bank.screen = "detail"
            /\ bank.slow_remaining = 0
        BY <2>1, <3>2 DEF Expected, BankInv
      <4>2. "savings_balance" \notin DOMAIN obs.fields
        BY <3>1, <4>1 DEF Check, Field
      <4> QED
        BY <2>1, <3>1, <4>1, <4>2, FakeScreens
    <3> QED
      BY <3>1, <3>2
  <2>4. CASE OutputsMissing
    <3>1. result'.status \in {"paused", "failure"} /\ i = 4
      BY <2>1, <2>4 DEF OutputsMissing, Fail, Return
    <3> QED
      BY <3>1
  <2>5. CASE BusinessOutcome
    BY <2>5 DEF BusinessOutcome, Return, Stuck
  <2>6. CASE \E o : Deny(o)
    <3>0. PICK o : Deny(o)
      BY <2>6
    <3>1. result'.status \in {"paused", "failure"} /\ ~Permitted(i)
      BY <3>0 DEF Deny, Fail, Return
    <3> QED
      BY <3>1
  <2>7. CASE result' = result \/ result.status = "paused"
    BY <2>7 DEF Stuck
  <2>8. ASSUME ~Succeed, ~GiveUp, ~OutputsMissing, ~BusinessOutcome, ~ \E o : Deny(o)
        PROVE  result' = result \/ result.status = "paused"
    BY <2>8 DEF FakeNext, FakeEngineStep, HumanFix, FakeResume, Looking, Deciding, Act,
       Retry, Perceive, TrustPaused, FinalLook, AfterWait, NoOutcome, StepDone, Resume,
       fakeVars, vars
  <2> QED
    BY <2>2, <2>3, <2>4, <2>5, <2>6, <2>7, <2>8
<1> QED
  BY <1>1, FakeInvariant, PTL DEF FakeSpec, HiddenBalanceStops

-----------------------------------------------------------------------------
(* The verdict.  What the lemmas on the single steps have in common: the   *)
(* ranges of the counters, and what the engine's invariants say of the     *)
(* position.                                                               *)
LEMMA Ranges ==
  ASSUME FakeInv
  PROVE  /\ TypeOK /\ BankInv
         /\ i \in {1, 2, 3, 4} /\ Goal = 4
         /\ bank \in Bank /\ bank.slow_remaining \in Nat /\ bank.slow_turns \in Nat
         /\ bank.hide_balance \in BOOLEAN
         /\ MAX_SLOW_RETRIES \in Nat /\ attempts \in Nat /\ attempts <= MAX_SLOW_RETRIES
         /\ pc = "waited" => attempts < MAX_SLOW_RETRIES
         /\ resumes \in Nat
         /\ Earlier \in Nat /\ (resumes = 0 => Earlier = 0)
         /\ Steps[2].retry_safe => Earlier = 0
         /\ TooSlow <=> bank.slow_turns > Earlier + MAX_SLOW_RETRIES
         /\ start = 0 <=> resumes = 0
         /\ pc = "done" <=> result.status # "running"
<1>1. TypeOK /\ BankInv /\ bank \in Bank
  BY DEF FakeInv, TypeInv, BankInv
<1>2. Goal = 4 /\ Steps[2].retry_safe \in BOOLEAN
  BY <1>1, FakeRecipe
<1>3. i \in {1, 2, 3, 4}
  BY <1>1, <1>2, Position
<1>4. MAX_SLOW_RETRIES \in Nat /\ MaxResumes \in Nat
  BY BoundsAssumption
<1>5. /\ attempts \in 0..MAX_SLOW_RETRIES /\ resumes \in 0..MaxResumes
      /\ pc = "waited" => attempts < MAX_SLOW_RETRIES
  BY <1>1, Zenon DEF TypeOK, FakeInv, TypeInv
<1>6. attempts \in Nat /\ attempts <= MAX_SLOW_RETRIES /\ resumes \in Nat
  BY <1>4, <1>5
<1>7. /\ MAX_SLOW_RETRIES * resumes \in Nat
      /\ resumes = 0 => MAX_SLOW_RETRIES * resumes = 0
      /\ MAX_SLOW_RETRIES * (resumes + 1) = MAX_SLOW_RETRIES * resumes + MAX_SLOW_RETRIES
  BY <1>4, <1>6
<1>8. /\ bank.slow_remaining \in Nat /\ bank.slow_turns \in Nat
      /\ bank.hide_balance \in BOOLEAN
  BY <1>1, SlowTurnsAssumption DEF Bank
<1>9. /\ Earlier \in Nat /\ (resumes = 0 => Earlier = 0)
      /\ Steps[2].retry_safe => Earlier = 0
      /\ TooSlow <=> bank.slow_turns > Earlier + MAX_SLOW_RETRIES
  <2>1. CASE Steps[2].retry_safe
    BY <1>4, <1>8, <2>1 DEF Earlier, TooSlow
  <2>2. CASE ~Steps[2].retry_safe
    BY <1>7, <2>2 DEF Earlier, TooSlow
  <2> QED
    BY <1>2, <2>1, <2>2
<1>10. /\ start = 0 <=> resumes = 0
       /\ pc = "done" <=> result.status # "running"
  BY DEF FakeInv, Phase
<1> QED
  BY <1>1, <1>2, <1>3, <1>4, <1>5, <1>6, <1>8, <1>9, <1>10

(* Nothing of the call changes in a step.                                  *)
LEMMA FakeFrame ==
  ASSUME [FakeNext]_fakeVars
  PROVE  /\ task' = task /\ inputs' = inputs
         /\ Steps' = Steps /\ Goal' = Goal /\ Artifact' = Artifact
         /\ Member' = Member /\ Known' = Known
         /\ AllPermitted' <=> AllPermitted
<1>1. task' = task /\ inputs' = inputs
  BY DEF FakeNext, FakeEngineStep, HumanFix, FakeResume, Looking, Deciding, Act, Retry,
     Perceive, TrustPaused, Deny, FinalLook, AfterWait, BusinessOutcome, NoOutcome, GiveUp,
     StepDone, Succeed, OutputsMissing, Resume, fakeVars, vars, call
<1>2. Steps' = Steps /\ Goal' = Goal /\ Artifact' = Artifact
  BY <1>1 DEF Steps, Goal, Artifact
<1>3. Member' = Member /\ Known' = Known
  BY <1>1 DEF Member, Known
<1>4. AllPermitted' <=> AllPermitted
  BY <1>1, <1>2 DEF AllPermitted, Permitted
<1> QED
  BY <1>1, <1>2, <1>3, <1>4

(* What the checkpoint of each step says of the bank it is checked on.     *)
LEMMA Checked ==
  ASSUME FakeInv, pc = "await"
  PROVE  /\ obs = FakePerceive(bank)
         /\ i = 1 => Check(obs, Expected)
         /\ i = 2 => (Check(obs, Expected) <=> bank.screen = "detail" /\ bank.slow_remaining = 0)
         /\ i >= 3 => (Check(obs, Expected) <=> ~bank.hide_balance)
         /\ i >= 3 => ("savings_balance" \in DOMAIN obs.fields <=> ~bank.hide_balance)
         /\ "savings_balance" \in DOMAIN obs.fields =>
              obs.fields["savings_balance"] = MEMBERS[bank.current].savings
<1>1. TypeOK /\ Goal = 4 /\ i \in {1, 2, 3, 4}
  BY Ranges
<1>2. /\ obs = FakePerceive(bank)
      /\ bank.slow_remaining \in Nat /\ bank.hide_balance \in BOOLEAN
      /\ i >= 3 => bank.screen = "detail" /\ bank.slow_remaining = 0
  BY Ranges DEF BankInv
<1>3. /\ obs.screen = "detail" <=> bank.screen = "detail" /\ bank.slow_remaining = 0
      /\ i >= 3 => ("savings_balance" \in DOMAIN obs.fields <=> ~bank.hide_balance)
      /\ "savings_balance" \in DOMAIN obs.fields =>
           obs.fields["savings_balance"] = MEMBERS[bank.current].savings
  BY <1>2, FakeScreens
<1>4. ASSUME i = 1 PROVE Check(obs, Expected)
  <2>1. Expected = NoCheckpoint
    BY <1>1, <1>4, FakeRecipe DEF Expected
  <2> QED
    BY <2>1 DEF Check, NoCheckpoint
<1>5. ASSUME i = 2 PROVE Check(obs, Expected) <=> obs.screen = "detail"
  <2>1. Expected = Screen("detail")
    BY <1>1, <1>5, FakeRecipe DEF Expected
  <2> QED
    BY <2>1 DEF Check, Screen
<1>6. ASSUME i >= 3 PROVE Check(obs, Expected) <=> "savings_balance" \in DOMAIN obs.fields
  <2>1. Expected = Field("savings_balance")
    BY <1>1, <1>6, FakeRecipe DEF Expected
  <2> QED
    BY <2>1 DEF Check, Field
<1> QED
  BY <1>2, <1>3, <1>4, <1>5, <1>6

(* A page stays as slow as it is, and the waits before this call are       *)
(* counted anew only by a resume.                                          *)
LEMMA SlowFrame ==
  ASSUME FakeInv, [FakeNext]_fakeVars
  PROVE  /\ bank'.slow_turns = bank.slow_turns
         /\ resumes' = resumes => Earlier' = Earlier /\ (TooSlow' <=> TooSlow)
<1>1. TypeOK /\ bank \in Bank /\ inputs \in Inputs
  BY DEF FakeInv, TypeInv, BankInv
<1>2. ASSUME Act, bank' = FakeAct(bank, Steps[i])
      PROVE  bank'.slow_turns = bank.slow_turns
  <2>1. i \in 1..3
    BY <1>1, <1>2, Position, FakeRecipe DEF Act
  <2>2. i = 1 => bank' = [bank EXCEPT !.query = Member]
    BY <1>1, <1>2, TypesMember
  <2>3. i = 2 => bank' = FakeClick(bank)
    BY <1>1, <1>2, ClicksAndReads
  <2>4. i = 3 => bank' = bank
    BY <1>1, <1>2, ClicksAndReads
  <2>5. i = 1 => bank'.slow_turns = bank.slow_turns
    BY <1>1, <2>2 DEF Bank
  <2>6. i = 2 => bank'.slow_turns = bank.slow_turns
    BY <1>1, <2>3, ClickShows, FakeInputsAssumption
  <2> QED
    BY <2>1, <2>4, <2>5, <2>6
<1>3. ASSUME bank' = FakeWait(bank) PROVE bank'.slow_turns = bank.slow_turns
  BY <1>1, <1>3, WaitCounts
<1>4. ASSUME HumanFix PROVE bank'.slow_turns = bank.slow_turns
  BY <1>1, <1>4 DEF HumanFix, Bank
<1>5. bank'.slow_turns = bank.slow_turns
  BY <1>2, <1>3, <1>4 DEF FakeNext, FakeEngineStep, FakeResume, fakeVars
<1>6. ASSUME resumes' = resumes PROVE Earlier' = Earlier /\ (TooSlow' <=> TooSlow)
  BY <1>5, <1>6, FakeFrame DEF Earlier, TooSlow
<1> QED
  BY <1>5, <1>6

-----------------------------------------------------------------------------
(* VerdictInv, one lemma per kind of step of a permitted recipe.           *)

LEMMA VerdictLooks ==
  ASSUME FakeInv, VerdictInv, AllPermitted, Looking, UNCHANGED <<bank, inputs>>
  PROVE  VerdictInv'
<1>1. /\ Typing /\ Searching /\ Reading /\ Answering
      /\ [FakeNext]_fakeVars
  BY DEF VerdictInv, FakeNext, FakeEngineStep
<1>2. PICK o \in {FakePerceive(bank)} :
        Perceive(o) \/ TrustPaused(o) \/ Deny(o) \/ FinalLook(o) \/ AfterWait(o)
  BY DEF Looking
<1>3. ~Deny(o)
  BY Ranges, Position, FakeRecipe DEF Deny, AllPermitted
<1>4. /\ UNCHANGED <<i, start, resumes, result>>
      /\ pc' \in {"dismiss", "await"}
  BY <1>2, <1>3 DEF Perceive, TrustPaused, FinalLook, AfterWait, call
<1>5. /\ Earlier' = Earlier /\ (TooSlow' <=> TooSlow) /\ Steps' = Steps
      /\ Member' = Member /\ (Known' <=> Known)
  BY <1>1, <1>4, SlowFrame, FakeFrame
<1>6. TrustPaused(o) => i = 2 /\ resumes > 0 /\ ~Steps[2].retry_safe
  BY <1>1, Ranges, FakeRecipe DEF TrustPaused, Trusted
<1>7. Perceive(o) \/ TrustPaused(o) => attempts' = attempts /\ pc' = "dismiss"
  BY DEF Perceive, TrustPaused
<1>8. Perceive(o) => pc = "perceive"
  BY DEF Perceive
<1>9. FinalLook(o) => i = 4 /\ attempts' = 0 /\ pc = "step" /\ pc' = "await"
  BY Ranges DEF FinalLook
<1>10. AfterWait(o) => pc = "waited" /\ attempts' = attempts + 1 /\ pc' = "await"
  BY DEF AfterWait
<1>11. TrustPaused(o) => pc = "step" /\ attempts = 0
  BY Ranges DEF TrustPaused, BankInv
<1>12. Typing'
  BY <1>1, <1>2, <1>3, <1>4, <1>5, <1>6, <1>7, <1>8, <1>9, <1>10, <1>11 DEF Typing
<1>13. Searching'
  BY <1>1, <1>2, <1>3, <1>4, <1>5, <1>6, <1>7, <1>8, <1>9, <1>10, <1>11, Ranges
  DEF Searching
<1>14. Reading'
  BY <1>1, <1>2, <1>3, <1>4, <1>5, <1>6, <1>7, <1>8, <1>9, <1>10, <1>11 DEF Reading
<1>15. Answering'
  BY <1>1, <1>4, <1>5 DEF Answering, Stuck
<1> QED
  BY <1>12, <1>13, <1>14, <1>15 DEF VerdictInv

LEMMA VerdictActs ==
  ASSUME FakeInv, VerdictInv, AllPermitted, Act, bank' = FakeAct(bank, Steps[i]),
         UNCHANGED inputs
  PROVE  VerdictInv'
<1>1. /\ Typing /\ Searching /\ Reading /\ Answering
      /\ [FakeNext]_fakeVars
  BY DEF VerdictInv, FakeNext, FakeEngineStep
<1>2. /\ UNCHANGED <<i, start, resumes, result, attempts>>
      /\ pc = "step" /\ pc' = "perceive" /\ i < 4 /\ ~Trusted
  BY Ranges DEF Act, call
<1>3. /\ Earlier' = Earlier /\ (TooSlow' <=> TooSlow) /\ Steps' = Steps
      /\ Member' = Member /\ (Known' <=> Known)
  BY <1>1, <1>2, SlowFrame, FakeFrame
<1>4. Answering'
  BY <1>1, <1>2, <1>3 DEF Answering, Stuck
<1>5. attempts = 0 /\ TypeOK /\ inputs \in Inputs /\ bank \in Bank
  BY <1>2, Ranges DEF BankInv
<1>6. CASE i = 1
  <2>1. bank' = [bank EXCEPT !.query = Member]
    BY <1>5, <1>6, TypesMember
  <2>2. bank'.query = Member /\ bank'.screen = bank.screen
    BY <1>5, <2>1 DEF Bank
  <2>3. Typing'
    BY <1>1, <1>2, <1>3, <1>5, <1>6, <2>2 DEF Typing
  <2> QED
    BY <1>2, <1>4, <1>6, <2>3 DEF VerdictInv, Searching, Reading
<1>7. CASE i = 2
  <2>1. bank' = FakeClick(bank)
    BY <1>5, <1>7, ClicksAndReads
  <2>2. /\ bank'.query = bank.query /\ bank.query = Member
        /\ Known => /\ bank'.screen = "detail" /\ bank'.current = Member
                    /\ bank'.slow_remaining = bank.slow_turns
        /\ ~Known => bank'.screen = "not_found"
    BY <1>1, <1>5, <1>7, <2>1, ClickShows, FakeInputsAssumption DEF Searching, Known
  <2>3. ~Known => resumes = 0
    BY <1>1, <1>2, <1>7, Ranges DEF Searching
  <2>4. Earlier = 0
    <3>1. CASE resumes = 0
      BY <3>1, Ranges
    <3>2. CASE resumes > 0
      <4>1. start = 2
        BY <1>1, <1>7, <3>2 DEF Searching
      <4>2. Steps[2].retry_safe
        BY <1>2, <1>7, <4>1, Ranges DEF Trusted
      <4> QED
        BY <4>2, Ranges
    <3> QED
      BY <3>1, <3>2, Ranges
  <2>5. bank'.slow_turns = bank.slow_turns /\ bank.slow_turns \in Nat
    BY <1>1, SlowFrame, Ranges
  <2>6. Searching'
    BY <1>1, <1>2, <1>3, <1>5, <1>7, <2>2, <2>3, <2>4, <2>5 DEF Searching
  <2> QED
    BY <1>2, <1>4, <1>7, <2>6 DEF VerdictInv, Typing, Reading
<1>8. CASE i = 3
  <2>1. bank' = bank
    BY <1>5, <1>8, ClicksAndReads
  <2>2. Reading'
    BY <1>1, <1>2, <1>3, <1>5, <1>8, <2>1 DEF Reading
  <2> QED
    BY <1>2, <1>4, <1>8, <2>2 DEF VerdictInv, Typing, Searching
<1> QED
  BY <1>2, <1>6, <1>7, <1>8, Ranges

(* A wait is asked for at the click while the page is slow, and at the     *)
(* read while the balance is hidden.                                       *)
LEMMA VerdictWaits ==
  ASSUME FakeInv, VerdictInv, AllPermitted, Retry, bank' = FakeWait(bank),
         UNCHANGED inputs
  PROVE  VerdictInv'
<1>1. /\ Typing /\ Searching /\ Reading /\ Answering
      /\ [FakeNext]_fakeVars
  BY DEF VerdictInv, FakeNext, FakeEngineStep
<1>2. /\ UNCHANGED <<i, start, resumes, result, attempts>>
      /\ pc = "await" /\ pc' = "waited" /\ ~Check(obs, Expected)
  BY DEF Retry, call
<1>3. /\ Earlier' = Earlier /\ (TooSlow' <=> TooSlow) /\ Steps' = Steps
      /\ Member' = Member /\ (Known' <=> Known)
  BY <1>1, <1>2, SlowFrame, FakeFrame
<1>4. Answering'
  BY <1>1, <1>2, <1>3 DEF Answering, Stuck
<1>5. /\ bank'.screen = bank.screen /\ bank'.current = bank.current
      /\ bank'.query = bank.query /\ bank'.slow_turns = bank.slow_turns
      /\ bank'.hide_balance = bank.hide_balance
      /\ bank.slow_remaining > 0 => bank'.slow_remaining + 1 = bank.slow_remaining
  BY Ranges, WaitCounts
<1>6. i # 1
  BY <1>2, Checked
<1>7. CASE i = 2
  <2>1. Known /\ bank.screen = "detail"
    BY <1>1, <1>2, <1>7 DEF Searching
  <2>2. bank.slow_remaining # 0
    BY <1>2, <1>7, <2>1, Checked
  <2>3. bank.slow_remaining > 0 /\ bank'.slow_remaining \in Nat
    BY <2>2, Ranges, WaitCounts DEF Bank
  <2>4. Searching'
    BY <1>1, <1>2, <1>3, <1>5, <1>7, <2>1, <2>3, Ranges DEF Searching
  <2> QED
    BY <1>2, <1>4, <1>7, <2>4 DEF VerdictInv, Typing, Reading
<1>8. CASE i \in {3, 4}
  <2>1. bank.hide_balance
    BY <1>2, <1>8, Checked
  <2>2. Reading'
    BY <1>1, <1>2, <1>3, <1>5, <1>8, <2>1 DEF Reading
  <2> QED
    BY <1>2, <1>4, <1>8, <2>2 DEF VerdictInv, Typing, Searching
<1> QED
  BY <1>6, <1>7, <1>8, Ranges

(* The outcome is recognised exactly when the search found nobody.         *)
LEMMA VerdictOutcomes ==
  ASSUME FakeInv, VerdictInv, AllPermitted, BusinessOutcome \/ NoOutcome,
         UNCHANGED <<bank, inputs>>
  PROVE  VerdictInv'
<1>1. /\ Typing /\ Searching /\ Reading /\ Answering
      /\ [FakeNext]_fakeVars
  BY DEF VerdictInv, FakeNext, FakeEngineStep, Deciding
<1>2. /\ UNCHANGED <<i, start, resumes>> /\ pc = "dismiss"
  BY DEF BusinessOutcome, NoOutcome, Return, call
<1>3. /\ Earlier' = Earlier /\ (TooSlow' <=> TooSlow) /\ Steps' = Steps
      /\ Member' = Member /\ (Known' <=> Known)
  BY <1>1, <1>2, SlowFrame, FakeFrame
<1>4. attempts = 0 /\ obs = FakePerceive(bank)
  BY <1>2, Ranges DEF BankInv
<1>5. Matches(Artifact.known_outcomes, obs) <=> bank.screen = "not_found"
  BY <1>4, Ranges, FakeRules, FakeScreens
<1>6. CASE BusinessOutcome
  <2>1. bank.screen = "not_found"
    <3>1. Matches(Artifact.known_outcomes, obs)
      BY <1>6 DEF BusinessOutcome, FirstMatch, Matches
    <3> QED
      BY <1>5, <3>1
  <2>2. i = 2 /\ ~Known
    BY <1>1, <1>2, <2>1, Ranges DEF Typing, Searching, BankInv
  <2>3. PICK k \in DOMAIN Artifact.known_outcomes :
          Return("business_outcome", Artifact.known_outcomes[k].name, <<>>, recovered)
    BY <1>6 DEF BusinessOutcome
  <2>4. /\ pc' = "done" /\ result'.status = "business_outcome"
        /\ result'.about = "member_not_found"
    <3>1. k = 1 /\ Artifact.known_outcomes[1].name = "member_not_found"
      BY <2>3, Ranges, FakeRules
    <3> QED
      BY <2>3, <3>1 DEF Return
  <2>5. Answering'
    BY <1>2, <1>3, <2>2, <2>4 DEF Answering, Stuck
  <2>6. Searching'
    BY <1>1, <1>2, <1>3, <2>2, <2>4 DEF Searching
  <2> QED
    BY <1>2, <2>2, <2>5, <2>6 DEF VerdictInv, Typing, Reading
<1>7. CASE NoOutcome
  <2>1. bank.screen # "not_found" /\ pc' = "await" /\ attempts' = 0 /\ result' = result
    BY <1>5, <1>7 DEF NoOutcome
  <2>2. Answering'
    BY <1>1, <1>2, <1>3, <2>1 DEF Answering, Stuck
  <2>3. Typing'
    BY <1>1, <1>2, <1>3, <2>1 DEF Typing
  <2>4. Searching'
    BY <1>1, <1>2, <1>3, <1>4, <2>1 DEF Searching
  <2>5. Reading'
    BY <1>1, <1>2, <1>3, <2>1 DEF Reading
  <2> QED
    BY <2>2, <2>3, <2>4, <2>5 DEF VerdictInv
<1> QED
  BY <1>6, <1>7

(* A step is done, or given up, by what its checkpoint says of the bank.   *)
LEMMA VerdictChecks ==
  ASSUME FakeInv, VerdictInv, AllPermitted,
         StepDone \/ GiveUp \/ Succeed \/ OutputsMissing,
         UNCHANGED <<bank, inputs>>
  PROVE  VerdictInv'
<1>1. /\ Typing /\ Searching /\ Reading /\ Answering
      /\ [FakeNext]_fakeVars
  BY DEF VerdictInv, FakeNext, FakeEngineStep, Deciding
<1>2. UNCHANGED <<start, resumes>> /\ pc = "await" /\ attempts' = 0
  BY DEF StepDone, GiveUp, Succeed, OutputsMissing, Fail, Return, call
<1>3. /\ Earlier' = Earlier /\ (TooSlow' <=> TooSlow) /\ Steps' = Steps
      /\ Member' = Member /\ (Known' <=> Known)
  BY <1>1, <1>2, SlowFrame, FakeFrame
<1>4. CASE StepDone
  <2>1. /\ i < 4 /\ i' = i + 1 /\ pc' = "step" /\ result' = result
        /\ Check(obs, Expected)
    BY <1>4, Ranges DEF StepDone
  <2>2. Answering'
    <3>1. pc' # "done" /\ result.status = "running"
      BY <1>2, <2>1, Ranges
    <3> QED
      BY <2>1, <3>1 DEF Answering, Stuck
  <2>3. CASE i = 1
    BY <1>1, <1>2, <1>3, <2>1, <2>2, <2>3, Ranges
    DEF Typing, Searching, Reading, VerdictInv
  <2>4. CASE i = 2
    <3>1. Known /\ bank.screen = "detail" /\ bank.current = Member /\ bank.query = Member
          /\ bank.slow_remaining + attempts + Earlier = bank.slow_turns
      BY <1>1, <1>2, <2>4 DEF Searching
    <3>2. bank.slow_remaining = 0
      BY <1>2, <2>1, <2>4, Checked
    <3>3. ~TooSlow
      BY <3>1, <3>2, Ranges
    <3>4. Reading'
      BY <1>2, <1>3, <2>1, <2>4, <3>1, <3>3 DEF Reading
    <3> QED
      BY <2>1, <2>2, <2>4, <3>4 DEF Typing, Searching, VerdictInv
  <2>5. CASE i = 3
    <3>1. ~bank.hide_balance
      BY <1>2, <2>1, <2>5, Checked
    <3>2. Reading'
      BY <1>1, <1>2, <1>3, <2>1, <2>5, <3>1 DEF Reading
    <3> QED
      BY <2>1, <2>2, <2>5, <3>2 DEF Typing, Searching, VerdictInv
  <2> QED
    BY <2>1, <2>3, <2>4, <2>5, Ranges
<1>5. CASE GiveUp
  <2>1. /\ i' = i /\ pc' = "done" /\ ~Check(obs, Expected)
        /\ attempts = MAX_SLOW_RETRIES
        /\ result'.status \in {"paused", "failure"}
    BY <1>5 DEF GiveUp, Fail, Return
  <2>2. CASE i = 2
    <3>1. Known /\ bank.screen = "detail" /\ bank.current = Member /\ bank.query = Member
          /\ bank.slow_remaining + attempts + Earlier = bank.slow_turns
      BY <1>1, <1>2, <2>2 DEF Searching
    <3>2. bank.slow_remaining # 0
      BY <1>2, <2>1, <2>2, <3>1, Checked
    <3>3. /\ TooSlow
          /\ bank.slow_remaining + Earlier + MAX_SLOW_RETRIES = bank.slow_turns
      BY <2>1, <3>1, <3>2, Ranges
    <3>4. Searching'
      BY <1>1, <1>2, <1>3, <2>1, <2>2, <3>1, <3>3 DEF Searching
    <3>5. Answering'
      BY <1>3, <2>1, <2>2, <3>1 DEF Answering, Stuck
    <3> QED
      BY <2>1, <2>2, <3>4, <3>5 DEF Typing, Reading, VerdictInv
  <2>3. CASE i \in {3, 4}
    <3>1. bank.hide_balance
      BY <1>2, <2>1, <2>3, Checked
    <3>2. i = 3 /\ Known
      BY <1>1, <2>3, <3>1 DEF Reading
    <3>3. Reading'
      BY <1>1, <1>2, <1>3, <2>1, <3>1, <3>2 DEF Reading
    <3>4. Answering'
      BY <1>3, <2>1, <3>2 DEF Answering, Stuck
    <3> QED
      BY <2>1, <3>2, <3>3, <3>4 DEF Typing, Searching, VerdictInv
  <2> QED
    BY <1>2, <2>1, <2>2, <2>3, Ranges, Checked
<1>6. ASSUME Succeed \/ OutputsMissing
      PROVE  /\ i = 4 /\ i' = 4 /\ pc' = "done" /\ Known /\ bank.current = Member
             /\ "savings_balance" \in DOMAIN obs.fields
             /\ Reading'
  <2>1. i = 4 /\ i' = 4 /\ pc' = "done"
    BY <1>6, Ranges DEF Succeed, OutputsMissing, Fail, Return
  <2>2. Known /\ bank.current = Member /\ ~bank.hide_balance
    BY <1>1, <2>1 DEF Reading
  <2>3. "savings_balance" \in DOMAIN obs.fields
    BY <1>2, <2>1, <2>2, Checked
  <2>4. Reading'
    BY <1>1, <1>2, <1>3, <2>1 DEF Reading
  <2> QED
    BY <2>1, <2>2, <2>3, <2>4
<1>7. CASE Succeed
  <2>1. /\ result'.status = "success" /\ result'.outputs = OutputsOf(Artifact, obs)
    BY <1>7 DEF Succeed, Return
  <2>2. OutputsOf(Artifact, obs) = [f \in {"savings_balance"} |-> obs.fields[f]]
    BY <1>6, <1>7, Ranges, FakeRecipe DEF OutputsOf
  <2>3. obs.fields["savings_balance"] = MEMBERS[Member].savings
    BY <1>2, <1>6, <1>7, Checked
  <2>4. result'.outputs = [f \in {"savings_balance"} |-> MEMBERS[Member].savings]
    BY <2>1, <2>2, <2>3
  <2>5. [f \in {"savings_balance"} |-> MEMBERS[Member].savings]' =
          [f \in {"savings_balance"} |-> MEMBERS[Member].savings]
    BY <1>3
  <2>6. Answering'
    BY <1>3, <1>6, <1>7, <2>1, <2>4, <2>5 DEF Answering, Stuck
  <2> QED
    BY <1>6, <1>7, <2>6 DEF Typing, Searching, VerdictInv
<1>8. ~OutputsMissing
  <2> SUFFICES ASSUME OutputsMissing PROVE FALSE
    OBVIOUS
  <2>1. "savings_balance" \in DOMAIN obs.fields
    BY <1>6
  <2> QED
    BY <2>1, Ranges, FakeRecipe DEF OutputsMissing, OutputsPresent
<1> QED
  BY <1>4, <1>5, <1>7, <1>8

(* Between two calls a human brings the balance back, or the caller        *)
(* resumes: waits of the call that paused then count as earlier ones.      *)
LEMMA VerdictResumes ==
  ASSUME FakeInv, VerdictInv, AllPermitted, HumanFix \/ FakeResume
  PROVE  VerdictInv'
<1>1. /\ Typing /\ Searching /\ Reading /\ Answering
      /\ [FakeNext]_fakeVars
  BY DEF VerdictInv, FakeNext
<1>2. /\ result.status = "paused" /\ inputs' = inputs /\ attempts' = attempts
  BY DEF HumanFix, FakeResume, Resume, vars
<1>3. pc = "done" /\ attempts = 0 /\ i \in {2, 3} /\ Known /\ result.step = i
  BY <1>1, <1>2, Ranges DEF Answering, Stuck, BankInv, FakeInv, Phase
<1>4. /\ Steps' = Steps /\ Member' = Member /\ (Known' <=> Known)
      /\ bank'.slow_turns = bank.slow_turns
  BY <1>1, SlowFrame, FakeFrame
<1>5. CASE HumanFix
  <2>1. /\ UNCHANGED <<start, resumes, pc, i, result>>
        /\ bank' = [bank EXCEPT !.hide_balance = FALSE] /\ bank \in Bank
    BY <1>5, Ranges DEF HumanFix, vars
  <2>2. /\ bank'.screen = bank.screen /\ bank'.current = bank.current
        /\ bank'.query = bank.query /\ bank'.slow_remaining = bank.slow_remaining
    BY <2>1 DEF Bank
  <2>3. Earlier' = Earlier /\ (TooSlow' <=> TooSlow)
    BY <1>1, <2>1, SlowFrame
  <2>4. Searching'
    BY <1>1, <1>2, <1>3, <1>4, <2>1, <2>2, <2>3 DEF Searching
  <2>5. Reading'
    BY <1>1, <1>2, <1>3, <1>4, <2>1, <2>2, <2>3 DEF Reading
  <2>6. Answering'
    BY <1>1, <1>4, <2>1 DEF Answering, Stuck
  <2> QED
    BY <1>3, <2>1, <2>4, <2>5, <2>6 DEF Typing, VerdictInv
<1>6. CASE FakeResume
  <2>1. /\ start' = i /\ i' = i /\ pc' = "step" /\ bank' = bank
        /\ resumes' = resumes + 1 /\ result' = Running
    BY <1>3, <1>6 DEF FakeResume, Resume
  <2>2. Answering'
    BY <2>1, RunningStatus DEF Answering, Stuck
  <2>3. Steps[2].retry_safe \in BOOLEAN
    BY Ranges, FakeRecipe
  <2>4. /\ ~Steps[2].retry_safe => Earlier' = Earlier + MAX_SLOW_RETRIES
        /\ Steps[2].retry_safe => Earlier' = Earlier
        /\ ~TooSlow => ~TooSlow'
    <3>1. CASE Steps[2].retry_safe
      BY <1>4, <2>1, <3>1 DEF Earlier, TooSlow
    <3>2. CASE ~Steps[2].retry_safe
      <4>1. /\ MAX_SLOW_RETRIES \in Nat /\ resumes \in Nat
        BY Ranges
      <4>2. /\ MAX_SLOW_RETRIES * (resumes + 1) = MAX_SLOW_RETRIES * resumes + MAX_SLOW_RETRIES
            /\ MAX_SLOW_RETRIES * ((resumes + 1) + 1) =
                 MAX_SLOW_RETRIES * resumes + MAX_SLOW_RETRIES + MAX_SLOW_RETRIES
            /\ MAX_SLOW_RETRIES * resumes \in Nat
        BY <4>1
      <4>3. Earlier' = Earlier + MAX_SLOW_RETRIES
        BY <1>4, <2>1, <3>2, <4>2 DEF Earlier
      <4>4. /\ TooSlow <=> bank.slow_turns > MAX_SLOW_RETRIES * (resumes + 1)
            /\ TooSlow' <=> bank.slow_turns > MAX_SLOW_RETRIES * ((resumes + 1) + 1)
        BY <1>4, <2>1, <3>2 DEF TooSlow
      <4>5. bank.slow_turns \in Nat
        BY Ranges
      <4>6. ~TooSlow => ~TooSlow'
        BY <4>1, <4>2, <4>4, <4>5
      <4> QED
        BY <3>2, <4>3, <4>6
    <3> QED
      BY <2>3, <3>1, <3>2
  <2>5. Searching'
    BY <1>1, <1>3, <1>4, <2>1, <2>3, <2>4, Ranges DEF Searching
  <2>6. Reading'
    BY <1>1, <1>2, <1>3, <1>4, <2>1, <2>4 DEF Reading
  <2> QED
    BY <1>3, <2>1, <2>2, <2>5, <2>6 DEF Typing, VerdictInv
<1> QED
  BY <1>5, <1>6

LEMMA VerdictInit == FakeInit => VerdictInv
<1> SUFFICES ASSUME FakeInit PROVE VerdictInv
  OBVIOUS
<1>1. /\ i = 1 /\ pc = "step" /\ resumes = 0 /\ attempts = 0
      /\ result.status = "running" /\ bank.screen = "search"
  BY RunningStatus DEF FakeInit, Init
<1> QED
  BY <1>1 DEF VerdictInv, Typing, Searching, Reading, Answering, Stuck

LEMMA VerdictStep == FakeInv /\ VerdictInv /\ [FakeNext]_fakeVars => VerdictInv'
<1> SUFFICES ASSUME FakeInv, VerdictInv, [FakeNext]_fakeVars PROVE VerdictInv'
  OBVIOUS
<1>1. CASE ~AllPermitted
  BY <1>1, FakeFrame DEF VerdictInv
<1>2. CASE AllPermitted
  <2>1. CASE FakeEngineStep
    BY <1>2, <2>1, VerdictLooks, VerdictActs, VerdictWaits, VerdictOutcomes, VerdictChecks
    DEF FakeEngineStep, Deciding
  <2>2. CASE HumanFix \/ FakeResume
    BY <1>2, <2>2, VerdictResumes
  <2>3. CASE UNCHANGED fakeVars
    <3>1. /\ UNCHANGED <<bank, i, start, resumes, result, pc, attempts>>
      BY <2>3 DEF fakeVars, vars
    <3>2. /\ Earlier' = Earlier /\ (TooSlow' <=> TooSlow) /\ Steps' = Steps
          /\ Member' = Member /\ (Known' <=> Known) /\ (AllPermitted' <=> AllPermitted)
      BY <3>1, SlowFrame, FakeFrame
    <3> QED
      BY <3>1, <3>2 DEF VerdictInv, Typing, Searching, Reading, Answering, Stuck
  <2> QED
    BY <2>1, <2>2, <2>3 DEF FakeNext
<1> QED
  BY <1>1, <1>2

(* Whenever a call of replay() on the bank has returned, its result is the *)
(* one the bank's state calls for, and the balance it returns is that of   *)
(* the member that was asked for.                                          *)
THEOREM BankVerdict == FakeSpec => []Verdict
<1>1. FakeInv /\ VerdictInv => Verdict
  <2> SUFFICES ASSUME FakeInv, VerdictInv, result.status # "running", AllPermitted
               PROVE  \/ ~Known /\ result.status = "business_outcome"
                           /\ result.about = "member_not_found"
                      \/ Known /\ TooSlow /\ Stuck /\ result.step = 2
                      \/ Known /\ Stuck /\ result.step = 3
                      \/ /\ Known /\ ~TooSlow /\ ~bank.hide_balance
                         /\ result.status = "success"
                         /\ result.outputs = [f \in {"savings_balance"} |->
                                                MEMBERS[Member].savings]
    BY DEF Verdict, AllPermitted
  <2>1. /\ Searching /\ Reading /\ Answering
    BY DEF VerdictInv
  <2>2. /\ result.status \in Status /\ pc = "done" /\ (Stuck => result.step = i)
    BY Ranges DEF TypeOK, FakeInv, Phase
  <2>3. CASE result.status = "success"
    BY <2>1, <2>3 DEF Answering, Reading
  <2>4. CASE result.status = "business_outcome"
    BY <2>1, <2>4 DEF Answering
  <2>5. CASE Stuck
    BY <2>1, <2>2, <2>5 DEF Answering, Searching
  <2> QED
    BY <2>1, <2>2, <2>3, <2>4, <2>5 DEF Status, Answering, Stuck
<1> QED
  BY <1>1, VerdictInit, VerdictStep, FakeInvariant, PTL DEF FakeSpec

-----------------------------------------------------------------------------
(* The log of a run without a pause.                                       *)

(* A call that fails or pauses is no success.                              *)
LEMMA FailIsNoSuccess ==
  ASSUME NEW expected, NEW log, Fail(expected, log)
  PROVE  pc' = "done" /\ recovered' = log /\ result'.status # "success"
<1>1. Return(IF resumable THEN "paused" ELSE "failure", expected, <<>>, log)
  BY DEF Fail
<1>2. result'.status = IF resumable THEN "paused" ELSE "failure"
  BY <1>1 DEF Return
<1> QED
  BY <1>1, <1>2 DEF Return

(* A step is taken up only when the gate permits it; a resume alone may    *)
(* trust one that was denied.                                              *)
LEMMA GateStep == FakeInv /\ PassedGate /\ [FakeNext]_fakeVars => PassedGate'
<1> SUFFICES ASSUME FakeInv, PassedGate, [FakeNext]_fakeVars PROVE PassedGate'
  OBVIOUS
<1>1. /\ Goal' = Goal /\ \A k : Permitted(k)' <=> Permitted(k)
  BY FakeFrame DEF Permitted
<1>2. Goal = 4 /\ i \in {1, 2, 3, 4} /\ resumes \in Nat
  BY Ranges
<1>3. CASE Act
  <2>1. /\ i' = i /\ resumes' = resumes /\ result' = result /\ Permitted(i)
    BY <1>3 DEF Act
  <2> QED
    BY <1>1, <1>2, <2>1 DEF PassedGate
<1>4. CASE StepDone
  <2>1. /\ i' = i + 1 /\ resumes' = resumes /\ result' = result /\ pc = "await"
        /\ pc' = "step" /\ i < Goal
    BY <1>4 DEF StepDone
  <2>2. result.status = "running"
    BY <2>1, Ranges
  <2>3. ASSUME resumes' = 0 PROVE \A k \in 1..(i' - 1) : Permitted(k)
    BY <1>2, <2>1, <2>3 DEF PassedGate
  <2> QED
    BY <1>1, <2>1, <2>2, <2>3 DEF PassedGate
<1>5. CASE FakeResume
  <2>1. resumes' = resumes + 1 /\ result' = Running
    BY <1>5 DEF FakeResume, Resume
  <2> QED
    BY <1>2, <2>1, RunningStatus DEF PassedGate
<1>6. CASE Succeed
  <2>1. /\ i' = i /\ i = Goal /\ resumes' = resumes /\ pc' = "done"
    BY <1>6 DEF Succeed, Return
  <2> QED
    BY <1>1, <1>2, <2>1 DEF PassedGate
<1>7. ASSUME Looking \/ Retry \/ HumanFix \/ BusinessOutcome \/ NoOutcome \/ GiveUp
               \/ OutputsMissing \/ UNCHANGED fakeVars
      PROVE  PassedGate'
  <2>1. /\ i' = i /\ resumes' = resumes
        /\ result'.status = "success" => result' = result
        /\ pc' \notin {"step", "done"} /\ i < Goal /\ resumes = 0
             => pc \notin {"step", "done"}
    <3>1. CASE Looking
      <4>1. PICK o : Perceive(o) \/ TrustPaused(o) \/ Deny(o) \/ FinalLook(o) \/ AfterWait(o)
        BY <3>1 DEF Looking
      <4>2. resumes = 0 => ~TrustPaused(o)
        BY <1>2, Ranges DEF TrustPaused, Trusted
      <4>3. ASSUME Deny(o) PROVE i' = i /\ resumes' = resumes /\ pc' = "done"
                                /\ result'.status # "success"
        BY <4>3, FailIsNoSuccess DEF Deny
      <4>4. ASSUME FinalLook(o) PROVE i' = i /\ resumes' = resumes /\ i = Goal
                                     /\ result' = result
        BY <4>4 DEF FinalLook
      <4>5. ASSUME Perceive(o) \/ AfterWait(o)
            PROVE  i' = i /\ resumes' = resumes /\ result' = result
                   /\ pc \in {"perceive", "waited"}
        BY <4>5 DEF Perceive, AfterWait
      <4>6. ASSUME TrustPaused(o)
            PROVE  i' = i /\ resumes' = resumes /\ result' = result
        BY <4>6 DEF TrustPaused
      <4> QED
        BY <1>2, <4>1, <4>2, <4>3, <4>4, <4>5, <4>6
    <3>2. CASE Retry \/ HumanFix \/ UNCHANGED fakeVars
      BY <3>2 DEF Retry, HumanFix, fakeVars, vars
    <3>3. CASE BusinessOutcome
      BY <3>3 DEF BusinessOutcome, Return
    <3>4. CASE NoOutcome
      BY <3>4 DEF NoOutcome
    <3>5. CASE GiveUp \/ OutputsMissing
      BY <3>5, FailIsNoSuccess DEF GiveUp, OutputsMissing
    <3> QED
      BY <1>7, <3>1, <3>2, <3>3, <3>4, <3>5
  <2> QED
    BY <1>1, <2>1 DEF PassedGate
<1> QED
  BY <1>3, <1>4, <1>5, <1>6, <1>7 DEF FakeNext, FakeEngineStep, Deciding

(* The first entry of a log is its only one.                               *)
LEMMA FirstEntry ==
  ASSUME NEW e
  PROVE  Append(<<>>, e) = <<e>>
  OBVIOUS

(* While the log is that of one slow load or of none, a success returns it.*)
LEMMA LogStep ==
  FakeInv /\ VerdictInv /\ LogInv /\ [FakeNext]_fakeVars => LogInv'
<1> SUFFICES ASSUME FakeInv, VerdictInv, LogInv, [FakeNext]_fakeVars,
                    AllPermitted', resumes' = 0
             PROVE  /\ i' <= 2 => recovered' = <<>>
                    /\ i' >= 3 => recovered' = WaitLog'
                    /\ result'.status = "success" => result'.recovered = recovered'
  BY DEF LogInv
<1>1. ~FakeResume
  BY Ranges DEF FakeResume, Resume
<1>2. resumes = 0 /\ AllPermitted /\ WaitLog' = WaitLog
  <2>1. resumes' = resumes
    BY <1>1 DEF FakeNext, FakeEngineStep, HumanFix, Looking, Deciding, Act, Retry,
       Perceive, TrustPaused, Deny, FinalLook, AfterWait, BusinessOutcome, NoOutcome,
       GiveUp, StepDone, Succeed, OutputsMissing, fakeVars, vars
  <2> QED
    BY <2>1, FakeFrame, SlowFrame DEF WaitLog
<1>3. /\ i <= 2 => recovered = <<>>
      /\ i >= 3 => recovered = WaitLog
      /\ result.status = "success" => result.recovered = recovered
      /\ Typing /\ Searching /\ Reading
  BY <1>2 DEF LogInv, VerdictInv
<1>4. i \in {1, 2, 3, 4} /\ Earlier = 0 /\ attempts \in Nat /\ bank.slow_turns \in Nat
      /\ bank.slow_remaining \in Nat
  BY <1>2, Ranges
<1>5. CASE StepDone
  <2>1. /\ i' = i + 1 /\ pc = "await" /\ recovered' = SettledLog /\ result' = result
        /\ i < 4 /\ Check(obs, Expected)
    BY <1>5, Ranges DEF StepDone
  <2>2. result.status = "running"
    BY <2>1, Ranges
  <2>3. CASE i = 1
    BY <1>3, <2>1, <2>2, <2>3 DEF Typing, SettledLog
  <2>4. CASE i = 2
    <3>1. attempts = bank.slow_turns
      <4>1. Known
        BY <1>3, <2>1, <2>4 DEF Searching
      <4>2. bank.slow_remaining + attempts + Earlier = bank.slow_turns
        BY <1>3, <2>1, <2>4, <4>1 DEF Searching
      <4>3. bank.slow_remaining = 0
        BY <2>1, <2>4, Checked
      <4> QED
        BY <1>4, <4>2, <4>3
    <3>2. Event("slow_load", "", attempts) =
            [step |-> 2, condition |-> "slow_load", name |-> "", attempts |-> bank.slow_turns]
      BY <2>4, <3>1 DEF Event
    <3>3. recovered' = WaitLog
      <4>1. recovered = <<>>
        BY <1>3, <2>4
      <4>2. CASE attempts > 0
        <5>1. SettledLog = Append(<<>>, Event("slow_load", "", attempts))
          BY <4>1, <4>2, Zenon DEF SettledLog
        <5>2. SettledLog = <<Event("slow_load", "", attempts)>>
          BY <5>1, FirstEntry, Zenon
        <5>3. bank.slow_turns # 0
          BY <3>1, <4>2
        <5> QED
          BY <2>1, <3>2, <5>2, <5>3, Zenon DEF WaitLog
      <4>3. CASE attempts = 0
        <5>1. SettledLog = <<>>
          BY <4>1, <4>3 DEF SettledLog
        <5> QED
          BY <2>1, <3>1, <4>3, <5>1, Zenon DEF WaitLog
      <4> QED
        BY <1>4, <4>2, <4>3
    <3> QED
      BY <1>2, <2>1, <2>2, <2>4, <3>3
  <2>5. CASE i = 3
    <3>1. attempts = 0
      BY <1>3, <2>1, <2>5, Checked DEF Reading
    <3> QED
      BY <1>2, <1>3, <2>1, <2>2, <2>5, <3>1 DEF SettledLog
  <2> QED
    BY <1>4, <2>1, <2>3, <2>4, <2>5
<1>6. CASE Succeed
  <2>1. /\ i' = i /\ i = 4 /\ recovered' = SettledLog /\ result'.recovered = SettledLog
    BY <1>6, Ranges DEF Succeed, Return
  <2>2. attempts = 0
    BY <1>3, <2>1 DEF Reading
  <2> QED
    BY <1>2, <1>3, <2>1, <2>2 DEF SettledLog
<1>7. CASE OutputsMissing
  <2>1. pc = "await" /\ i = 4 /\ ~("savings_balance" \in DOMAIN obs.fields)
    BY <1>7, Ranges, FakeRecipe DEF OutputsMissing, OutputsPresent
  <2>2. ~bank.hide_balance
    BY <1>3, <2>1 DEF Reading
  <2> QED
    BY <2>1, <2>2, Checked
<1>8. ASSUME ~StepDone, ~Succeed, ~OutputsMissing
      PROVE  /\ i' = i /\ recovered' = recovered
             /\ result'.status = "success" => result' = result
  <2>1. CASE Looking
    <3>1. PICK o : Perceive(o) \/ TrustPaused(o) \/ Deny(o) \/ FinalLook(o) \/ AfterWait(o)
      BY <2>1 DEF Looking
    <3> QED
      BY <3>1, FailIsNoSuccess DEF Perceive, TrustPaused, Deny, FinalLook, AfterWait
  <2>2. CASE Act \/ Retry \/ HumanFix \/ UNCHANGED fakeVars
    BY <2>2 DEF Act, Retry, HumanFix, fakeVars, vars
  <2>3. CASE BusinessOutcome
    BY <2>3 DEF BusinessOutcome, Return
  <2>4. CASE NoOutcome
    BY <2>4 DEF NoOutcome
  <2>5. CASE GiveUp
    BY <2>5, FailIsNoSuccess DEF GiveUp
  <2> QED
    BY <1>1, <1>8, <2>1, <2>2, <2>3, <2>4, <2>5 DEF FakeNext, FakeEngineStep, Deciding
<1> QED
  BY <1>2, <1>3, <1>5, <1>6, <1>7, <1>8

(* A run that succeeds without a pause logged the waiting there was.       *)
THEOREM WaitingVisible == FakeSpec => []RecoveryVisible
<1>1. FakeInit => PassedGate /\ LogInv
  <2> SUFFICES ASSUME FakeInit PROVE PassedGate /\ LogInv
    OBVIOUS
  <2>1. i = 1 /\ pc = "step" /\ recovered = <<>> /\ result.status = "running"
    BY RunningStatus DEF FakeInit, Init
  <2> QED
    BY <2>1 DEF PassedGate, LogInv
<1>2. FakeInv /\ PassedGate /\ LogInv => RecoveryVisible
  <2> SUFFICES ASSUME FakeInv, PassedGate, LogInv, result.status = "success", resumes = 0
               PROVE  result.recovered = WaitLog
    BY DEF RecoveryVisible, WaitLog
  <2>1. i = 4
    BY Ranges DEF PassedGate
  <2>2. AllPermitted
    BY <2>1, Ranges, FakeRecipe DEF PassedGate, AllPermitted
  <2> QED
    BY <2>1, <2>2 DEF LogInv
<1>3. FakeSpec => [](FakeInv /\ VerdictInv)
  BY VerdictInit, VerdictStep, FakeInvariant, PTL DEF FakeSpec
<1> QED
  BY <1>1, <1>2, <1>3, GateStep, LogStep, PTL DEF FakeSpec
=============================================================================
