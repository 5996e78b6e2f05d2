--------------------------- MODULE RoundTrip_proofs ---------------------------
(***************************************************************************)
(* Nothing of the recording is frozen into a recipe: whatever the model    *)
(* decided in the discovery, whatever earlier runs left in the files and   *)
(* whatever redaction does to the controls' names, a replay that succeeds  *)
(* answers about the member its caller asks for.                           *)
(*                                                                         *)
(* The argument: no draft types anything but the member id (Discovery's    *)
(* invariant), the files and the merge keep it so, and a replay of such a  *)
(* recipe reads only what is the member's (LiveReplay's invariant).        *)
(*                                                                         *)
(* And what discovery promises by itself holds in the scripts: its drafts, *)
(* its types, and that a success is one.  Its loop is over when its page   *)
(* is taken by the next script, and what it returned is then in the files. *)
(*                                                                         *)
(* So does what Discovery_proofs says of the evidence (FilesInv).  Drafts  *)
(* that also pass the review make a recipe that fills the box, submits     *)
(* once and reads after it (Reviewed), which redaction does not change     *)
(* (ReviewInv).  Its replay is followed phase by phase: which page it is   *)
(* on, how long the slow one still takes and what the engine sees          *)
(* (ServeInv); from there it can only end as ReviewedRecipeServes says.    *)
(* And as each step acts on the page that its control was found on, the    *)
(* rungs it logs are those of the discovery (RungsInv).                    *)
(***************************************************************************)
EXTENDS RoundTrip, LiveReplay_proofs, Discovery_proofs

(* What the invariants of discovery make of a draft.                       *)
Replayable(a) == TypesMemberId(a) /\ a.success = Field("savings_balance")

Idle == /\ pc = "done"
        /\ result = Running
        /\ obs = NoObservation
        /\ i = 1

TripInv ==
  /\ DraftInv
  /\ "success" \in DOMAIN files
  /\ \A s \in DOMAIN files : \A a \in files[s].draft : Replayable(a)
  /\ \A a \in approved : Replayable(a)
  /\ stage # "replay" => Idle
  /\ stage = "replay" => LiveInv /\ Artifact.success = Field("savings_balance")

-----------------------------------------------------------------------------
(* The drafts of a discovery are replayable.                               *)
LEMMA DraftsReplayable ==
  ASSUME DraftInv
  PROVE  \A a \in draft : Replayable(a)
BY GoalAssumption DEF DraftInv, Goals, Replayable

(* So are those of earlier runs.                                           *)
LEMMA EarlierReplayable ==
  ASSUME NEW s \in DOMAIN ScriptInputs, NEW file, OfThisLoop(file, s), NEW a \in file.draft
  PROVE  Replayable(a)
<1>1. Compiled(a, ScriptInputs[s]["member_id"]) /\ a.success = Field("savings_balance")
  BY DEF OfThisLoop
<1>2. /\ a \in CapabilityArtifact
      /\ \A k \in DOMAIN a.steps : a.steps[k].value_from \in {"", "member_id"}
  BY <1>1 DEF Compiled, CompiledStep
<1>3. a.steps \in Seq(Step) /\ IsRecipe(a)
  BY <1>2 DEF CapabilityArtifact, IsRecipe
<1>4. IsList(a.steps)
  BY <1>3, ListOfSeq
<1>5. \A k \in DOMAIN a.steps : a.steps[k] \in Step
  BY <1>3
<1>6. \A step \in Step : IsStep(step)
  BY DEF Step, IsStep
<1> QED BY <1>1, <1>2, <1>3, <1>4, <1>5, <1>6 DEF Replayable, TypesMemberId

(* The merge takes the steps of one draft, and what is redacted in them is *)
(* not what they type.                                                     *)
LEMMA MergedReplayable ==
  ASSUME NEW s, NEW n, Replayable(s)
  PROVE  Replayable(Merged(s, n))
<1> DEFINE steps == RedactedSteps(s.steps)
<1>1. /\ IsRecipe(s) /\ IsList(s.steps)
      /\ Len(s.steps) \in Nat /\ DOMAIN s.steps = 1..Len(s.steps)
      /\ \A k \in DOMAIN s.steps :
           IsStep(s.steps[k]) /\ s.steps[k].value_from \in {"", "member_id"}
  BY ListShape DEF Replayable, TypesMemberId
<1>2. /\ DOMAIN steps = 1..Len(s.steps)
      /\ \A k \in DOMAIN steps :
           IsStep(steps[k]) /\ steps[k].value_from \in {"", "member_id"}
  <2>1. DOMAIN steps = DOMAIN s.steps
    BY DEF RedactedSteps
  <2>2. ASSUME NEW k \in DOMAIN s.steps
        PROVE  IsStep(steps[k]) /\ steps[k].value_from = s.steps[k].value_from
    <3>1. PICK target : steps[k] = [s.steps[k] EXCEPT !.target = target]
      BY DEF RedactedSteps
    <3>2. IsStep(s.steps[k])
      BY <1>1
    <3> HIDE DEF steps
    <3> QED BY <3>1, <3>2 DEF IsStep
  <2> HIDE DEF steps
  <2> QED BY <1>1, <2>1, <2>2
<1>3. IsList(steps)
  <2>1. steps \in [1..Len(s.steps) -> {steps[k] : k \in DOMAIN steps}]
    BY <1>1 DEF RedactedSteps
  <2> QED BY <1>1, <2>1, ListOfFunction
<1>4. /\ Merged(s, n).steps = steps
      /\ Merged(s, n).success = s.success
      /\ IsRecipe(Merged(s, n))
  <2>1. PICK outcomes :
          Merged(s, n) = [s EXCEPT !.steps = steps, !.known_outcomes = outcomes]
    BY DEF Merged
  <2> HIDE DEF steps
  <2> QED BY <1>1, <2>1 DEF IsRecipe
<1> HIDE DEF steps
<1> QED BY <1>2, <1>3, <1>4 DEF Replayable, TypesMemberId

(* The replay's variables do not move before it starts.                    *)
LEMMA IdleKept ==
  ASSUME Idle, UNCHANGED vars
  PROVE  Idle'
BY DEF Idle, vars, Running, NoObservation

-----------------------------------------------------------------------------
(* A step of the discovery, of the page it looks at, or none.              *)
LEMMA DiscoveringKeeps ==
  ASSUME TripInv, stage # "replay", UNCHANGED <<vars, trip>>, DraftInv'
  PROVE  TripInv'
<1>1. UNCHANGED <<stage, files, approved>>
  BY DEF trip
<1>2. Idle'
  BY IdleKept DEF TripInv
<1> QED BY <1>1, <1>2 DEF TripInv

(* The script writes the draft it has, or leaves the earlier one.          *)
LEMMA WriteKeeps ==
  ASSUME TripInv, WriteEvidence
  PROVE  TripInv'
<1>1. /\ phase = "ended" /\ stage' = "merge" /\ stop' = "saved" /\ turns' = <<>> /\ draft' = {}
      /\ files' = [files EXCEPT ![script] = Evidence]
      /\ UNCHANGED <<vars, job, phase, approved>>
      /\ stage # "replay"
  BY DEF WriteEvidence
<1>2. Idle'
  BY <1>1, IdleKept DEF TripInv
<1>3. DraftInv'
  <2>1. <<>> \in Seq({}) /\ Len(<<>>) = 0 /\ DOMAIN <<>> = {}
    OBVIOUS
  <2>2. IsList(turns') /\ Len(turns') = 0 /\ DOMAIN turns' = {}
    BY <1>1, <2>1, ListOfSeq
  <2> QED BY <1>1, <2>2 DEF TripInv, DraftInv, IsList
<1>4. \A s \in DOMAIN files' : \A a \in files'[s].draft : Replayable(a)
  <2>1. \A a \in draft : Replayable(a)
    BY DraftsReplayable DEF TripInv
  <2>2. \A a \in Evidence.draft : a \in draft \/ a \in files[script].draft
    BY DEF Evidence
  <2> QED BY <1>1, <2>1, <2>2 DEF TripInv
<1> QED BY <1>1, <1>2, <1>3, <1>4 DEF TripInv

(* The merge approves a recipe that is replayable.                         *)
LEMMA MergeKeeps ==
  ASSUME TripInv, Merge
  PROVE  TripInv'
<1>1. /\ stage # "replay" /\ stage' = "approved"
      /\ files' = [f \in DOMAIN files |-> NoFile]
      /\ UNCHANGED <<vars, discovery>>
  BY DEF Merge
<1>2. PICK s, n : s \in files.success.draft /\ approved' = {Merged(s, n)}
  BY DEF Merge
<1>3. Idle' /\ DraftInv'
  BY <1>1, IdleKept, LoopKept DEF TripInv
<1>4. Replayable(Merged(s, n))
  BY <1>2, MergedReplayable DEF TripInv
<1>5. \A f \in DOMAIN files' : files'[f].draft = {}
  BY <1>1 DEF NoFile
<1> QED BY <1>1, <1>2, <1>3, <1>4, <1>5 DEF TripInv

(* A refused merge changes nothing that matters here.                      *)
LEMMA RefuseKeeps ==
  ASSUME TripInv, RefuseMerge
  PROVE  TripInv'
<1>1. /\ stage # "replay" /\ stage' = "refused"
      /\ UNCHANGED <<vars, discovery, files, approved>>
  BY DEF RefuseMerge
<1>2. Idle' /\ DraftInv'
  BY <1>1, IdleKept, LoopKept DEF TripInv
<1> QED BY <1>1, <1>2 DEF TripInv

(* A replay starts with an approved recipe, on a fresh search page.        *)
LEMMA StartKeeps ==
  ASSUME TripInv, StartReplay
  PROVE  TripInv'
<1>1. /\ stage # "replay" /\ stage' = "replay"
      /\ inputs' \in Inputs /\ nav' = NoNav
      /\ UNCHANGED <<i, obs, result, discovery, files, approved>>
      /\ Idle
  BY DEF StartReplay, TripInv
<1>2. PICK recipe \in approved : task'.artifact = recipe
  BY DEF StartReplay
<1>3. /\ Replayable(recipe)
      /\ Artifact' = recipe /\ Steps' = recipe.steps
  BY <1>2 DEF TripInv, Artifact, Steps
<1>4. PageInv'
  <2>1. PICK slow \in BOOLEAN, hide \in BOOLEAN : page' = SearchPage(slow, hide)
    BY DEF StartReplay
  <2> QED BY <1>1, <2>1 DEF PageInv, SearchPage, OwnPage, Own
<1>5. TypesTheInput'
  BY <1>1, <1>3, InputsAssumption DEF TypesTheInput, Replayable, TypesMemberId
<1>6. About_Member(obs.fields)'
  <2>1. DOMAIN obs'.fields = {}
    BY <1>1, NothingSeen DEF Idle
  <2> QED BY <2>1 DEF About_Member
<1>7. Within'
  <2>1. Len(recipe.steps) \in Nat /\ DOMAIN recipe.steps = 1..Len(recipe.steps)
    BY <1>3, ListShape DEF Replayable, TypesMemberId
  <2>2. i' = 1 /\ result'.status = "running" /\ Goal' = Len(recipe.steps) + 1
    BY <1>1, <1>3 DEF Idle, Running, Goal
  <2>3. 1 \in 1..(Len(recipe.steps) + 1)
    BY <2>1
  <2> QED BY <1>3, <2>1, <2>2, <2>3 DEF Within
<1>8. MadeOfObs'
  BY <1>1 DEF MadeOfObs, Idle, Running
<1>9. DraftInv'
  BY <1>1, LoopKept DEF TripInv
<1>10. (Artifact.success = Field("savings_balance"))'
  BY <1>3 DEF Replayable
<1>11. LiveInv'
  BY <1>4, <1>5, <1>6, <1>7, <1>8 DEF LiveInv
<1> QED BY <1>1, <1>9, <1>10, <1>11 DEF TripInv

(* A step of the replay is one of LiveReplay.                              *)
LEMMA ReplayingKeeps ==
  ASSUME TripInv, Replaying
  PROVE  TripInv'
<1>1. /\ stage = "replay"
      /\ UNCHANGED <<discovery, stage, files, approved>>
      /\ LiveEngineStep \/ PerceiveRaises \/ NavCommit
  BY DEF Replaying
<1>2. LiveInv'
  BY <1>1, EngineKeeps, RaiseKeeps, CommitKeeps DEF TripInv
<1>3. Artifact' = Artifact
  BY <1>1, TaskKept DEF LiveNext, Artifact
<1>4. DraftInv'
  BY <1>1, LoopKept DEF TripInv
<1> QED BY <1>1, <1>2, <1>3, <1>4 DEF TripInv

-----------------------------------------------------------------------------
(* The scripts start with what earlier runs have left.                     *)
LEMMA TripInitInv == TripInit => TripInv
<1> SUFFICES ASSUME TripInit PROVE TripInv
  OBVIOUS
<1>1. DraftInv
  BY DraftInit DEF TripInit
<1>2. \A s \in DOMAIN files : \A a \in files[s].draft : Replayable(a)
  <2>1. files \in [success : Earlier.success, notfound : Earlier.notfound]
    BY DEF TripInit
  <2>2. \A s \in DOMAIN files : s \in DOMAIN ScriptInputs /\ files[s] \in Earlier[s]
    BY <2>1 DEF ScriptInputs
  <2>3. \A s \in DOMAIN files : OfThisLoop(files[s], s)
    BY <2>2, EarlierAssumption
  <2> QED BY <2>2, <2>3, EarlierReplayable
<1>3. stage = "discover" /\ approved = {} /\ Idle
  BY DEF TripInit, Idle
<1>4. "success" \in DOMAIN files
  BY DEF TripInit
<1> QED BY <1>1, <1>2, <1>3, <1>4 DEF TripInv

(* Every step of the scripts keeps the recipes and the run as they are to  *)
(* be.                                                                     *)
LEMMA TripStep == TripInv /\ [TripNext]_tripVars => TripInv'
<1> SUFFICES ASSUME TripInv, [TripNext]_tripVars PROVE TripInv'
  OBVIOUS
<1>1. CASE Discovering
  <2>1. DraftInv'
    BY <1>1, DiscoveryKeeps DEF Discovering, TripInv
  <2> QED BY <1>1, <2>1, DiscoveringKeeps DEF Discovering
<1>2. CASE PageArrives
  <2>1. DraftInv'
    BY <1>2, LoopKept DEF PageArrives, TripInv
  <2> QED BY <1>2, <2>1, DiscoveringKeeps DEF PageArrives
<1>3. CASE WriteEvidence
  BY <1>3, WriteKeeps
<1>4. CASE Merge
  BY <1>4, MergeKeeps
<1>5. CASE RefuseMerge
  BY <1>5, RefuseKeeps
<1>6. CASE StartReplay
  BY <1>6, StartKeeps
<1>7. CASE Replaying
  BY <1>7, ReplayingKeeps
<1>8. CASE UNCHANGED tripVars
  <2>1. UNCHANGED <<vars, inputs, page, nav, discovery, trip>>
    BY <1>8 DEF tripVars
  <2>2. DraftInv'
    BY <2>1, LoopKept DEF TripInv
  <2>3. CASE stage # "replay"
    BY <2>1, <2>2, <2>3, DiscoveringKeeps
  <2>4. CASE stage = "replay"
    <3>1. LiveInv'
      BY <2>1, <2>4, PageKept, PageOnly DEF TripInv, LiveInv
    <3>2. UNCHANGED <<stage, files, approved>> /\ Artifact' = Artifact
      BY <2>1 DEF trip, vars, call, Artifact
    <3> QED BY <2>2, <2>4, <3>1, <3>2 DEF TripInv
  <2> QED BY <2>3, <2>4
<1> QED BY <1>1, <1>2, <1>3, <1>4, <1>5, <1>6, <1>7, <1>8 DEF TripNext

LEMMA TripInvariant == TripSpec => []TripInv
  BY TripStep, TripInitInv, PTL DEF TripSpec

(* No recipe that comes out of a discovery answers about the member it was *)
(* recorded with: a success is about the member the caller asks for.       *)
THEOREM TripNothingFrozen == TripSpec => []NothingFrozen
<1>1. TripInv => NothingFrozen
  <2> SUFFICES ASSUME TripInv, result.status = "success"
               PROVE  /\ Known
                      /\ \A f \in DOMAIN result.outputs : result.outputs[f] = Cells(Member)[f]
    BY DEF NothingFrozen
  <2>1. LiveInv /\ Artifact.success = Field("savings_balance")
    <3>1. Running.status = "running"
      BY DEF Running
    <3>2. ~Idle
      BY <3>1 DEF Idle
    <3> QED BY <3>2 DEF TripInv
  <2>2. /\ result.outputs = OutputsOf(Artifact, obs)
        /\ Check(obs, Field("savings_balance"))
    BY <2>1 DEF LiveInv, MadeOfObs
  <2>3. "savings_balance" \in DOMAIN obs.fields
    BY <2>2 DEF Check, Field
  <2>4. Known
    BY <2>1, <2>3 DEF LiveInv, About_Member
  <2>5. \A f \in DOMAIN result.outputs :
          f \in DOMAIN obs.fields /\ result.outputs[f] = obs.fields[f]
    BY <2>2 DEF OutputsOf
  <2> QED BY <2>1, <2>4, <2>5 DEF LiveInv, About_Member
<1> QED
  BY <1>1, TripInvariant, PTL

(* In the scripts, too, a draft comes of a success or an outcome only, and *)
(* each of its steps was carried out.                                      *)
THEOREM TripDrafts == TripSpec => []DraftWasCarriedOut
<1>1. TripInv => DraftWasCarriedOut
  BY ListShape DEF TripInv, DraftInv, DraftWasCarriedOut, CarriedOut
<1> QED
  BY <1>1, TripInvariant, PTL

-----------------------------------------------------------------------------
(* A discovery that a script reports as a success was one.                 *)

(* The loop is of its types, and while its page is the one there is, a     *)
(* field was seen on it or none.                                           *)
TripLoop ==
  /\ LoopTypes
  /\ stage = "discover" => SeenInv
  /\ stage # "discover" => stop # "success"

LEMMA TripLoopInit == TripInit => TripLoop
<1> SUFFICES ASSUME TripInit PROVE TripLoop
  OBVIOUS
<1>1. LoopTypes /\ SeenInv
  BY TypesInit, SeenInit DEF TripInit
<1>2. stage = "discover"
  BY DEF TripInit
<1> QED
  BY <1>1, <1>2 DEF TripLoop

LEMMA TripLoopStep == TripLoop /\ [TripNext]_tripVars => TripLoop'
<1> SUFFICES ASSUME TripLoop, [TripNext]_tripVars PROVE TripLoop'
  OBVIOUS
<1>1. CASE Discovering
  <2>1. stage = "discover" /\ stage' = stage /\ DiscoveryStep
    BY <1>1 DEF Discovering, trip
  <2> QED
    BY <2>1, TypesStep, SeenStep DEF TripLoop
<1>2. CASE PageArrives
  <2>1. stage = "discover" /\ stage' = stage /\ NavCommits /\ UNCHANGED discovery
    BY <1>2 DEF PageArrives, trip
  <2> QED
    BY <2>1, TypesKept, ArrivalSees DEF TripLoop
<1>3. CASE WriteEvidence
  <2>1. /\ stage' = "merge" /\ phase = "ended" /\ stop' = "saved" /\ turns' = <<>> /\ draft' = {}
        /\ seen' = LivePerceive(job.entry) /\ UNCHANGED <<job, phase>>
    BY <1>3 DEF WriteEvidence
  <2>2. turns' \in Seq(TurnLog) /\ Len(turns') = 0
    BY <2>1
  <2>3. LoopTypes'
    BY <2>1, <2>2, ScreenType, MaxStepsAssumption DEF TripLoop, LoopTypes, DiscoveryTypeOK
  <2> QED
    BY <2>1, <2>3 DEF TripLoop
<1>4. CASE Merge \/ RefuseMerge \/ StartReplay \/ Replaying
  <2>1. UNCHANGED discovery /\ stage # "discover" /\ stage' # "discover"
    BY <1>4 DEF Merge, RefuseMerge, StartReplay, Replaying
  <2>2. stop' = stop
    BY <2>1 DEF discovery
  <2> QED
    BY <2>1, <2>2, TypesKept DEF TripLoop
<1>5. CASE UNCHANGED tripVars
  <2>1. UNCHANGED <<discovery, page, nav>> /\ stage' = stage
    BY <1>5 DEF tripVars, trip
  <2>2. LoopTypes'
    BY <2>1, TypesKept DEF TripLoop
  <2>3. UNCHANGED <<job, phase, seen, stop>>
    BY <2>1 DEF discovery
  <2>4. SeenInv => SeenInv'
    BY <2>1, <2>3 DEF SeenInv, PageTypes
  <2> QED
    BY <2>1, <2>2, <2>3, <2>4 DEF TripLoop
<1> QED
  BY <1>1, <1>2, <1>3, <1>4, <1>5 DEF TripNext

LEMMA TripLoopInvariant == TripSpec => []TripLoop
  BY TripLoopInit, TripLoopStep, PTL DEF TripSpec

(* The loop's variables are of their types in the discovery scripts too,   *)
(* and stay so when what it returned has been written to the files.        *)
THEOREM TripTypes == TripSpec => []DiscoveryTypeOK
<1>1. TripLoop => DiscoveryTypeOK
  BY DEF TripLoop, LoopTypes
<1> QED
  BY <1>1, TripLoopInvariant, PTL

(* A run that says it succeeded did: the balance shows on the page that is *)
(* there, although "done" is judged on what was seen before the model was  *)
(* asked.                                                                  *)
THEOREM TripGoalReached == TripSpec => []GoalReached
<1>1. ASSUME TripLoop PROVE GoalReached
  <2>1. CASE stage = "discover"
    <3>1. job \in Jobs
      BY <1>1 DEF TripLoop, LoopTypes, DiscoveryTypeOK
    <3>2. job.success = Field("savings_balance")
      BY <3>1, GoalAssumption
    <3>3. job.success.kind = "field"
      BY <3>2 DEF Field
    <3> QED
      BY <1>1, <2>1, <3>3, SeenGoal DEF TripLoop
  <2>2. CASE stage # "discover"
    BY <1>1, <2>2 DEF TripLoop, GoalReached
  <2> QED
    BY <2>1, <2>2
<1> QED
  BY <1>1, TripLoopInvariant, PTL

-----------------------------------------------------------------------------
(* The files of the scripts are of the loop they were written by.          *)

(* The discovery is the one of the script that is run.                     *)
FilesInv ==
  /\ script \in DOMAIN ScriptInputs
  /\ job.inputs = ScriptInputs[script]
  /\ DOMAIN files = DOMAIN ScriptInputs
  /\ \A s \in DOMAIN ScriptInputs : OfThisLoop(files[s], s)
  /\ stage = "discover" => TurnsInv

LEMMA NoFileOfThisLoop ==
  ASSUME NEW s PROVE OfThisLoop(NoFile, s)
<1>1. NoFile.log = <<>> /\ NoFile.draft = {}
  BY DEF NoFile
<1>2. <<>> \in Seq(TurnLog) /\ DOMAIN <<>> = {}
  OBVIOUS
<1> QED
  BY <1>1, <1>2 DEF OfThisLoop

(* What a run leaves is of this loop, whether it has a draft or not.       *)
LEMMA EvidenceOfThisLoop ==
  ASSUME TripInv, LoopTypes, FilesInv, stage = "discover"
  PROVE  OfThisLoop(Evidence, script)
<1>1. OfThisLoop(files[script], script)
  BY DEF FilesInv
<1>2. EvidenceFits /\ turns \in Seq(TurnLog)
  BY EvidenceOfTurns DEF TripInv, FilesInv, LoopTypes, DiscoveryTypeOK
<1>3. RunsFor = ScriptInputs[script]["member_id"]
  BY DEF RunsFor, FilesInv
<1>4. \A a \in draft : /\ Compiled(a, ScriptInputs[script]["member_id"])
                      /\ a.success = Field("savings_balance")
  BY <1>2, <1>3, DraftsReplayable DEF TripInv, EvidenceFits, Replayable
<1>5. CASE stop = "raised"
  BY <1>1, <1>5 DEF Evidence
<1>6. CASE stop # "raised"
  <2>1. Evidence.log = turns /\ \A a \in Evidence.draft : a \in draft \/ a \in files[script].draft
    BY <1>6 DEF Evidence
  <2> QED
    BY <1>1, <1>2, <1>4, <2>1 DEF OfThisLoop, EvidenceFits
<1> QED
  BY <1>5, <1>6

LEMMA FilesInit == TripInit => FilesInv
<1> SUFFICES ASSUME TripInit PROVE FilesInv
  OBVIOUS
<1>1. /\ script \in DOMAIN ScriptInputs /\ job.inputs = ScriptInputs[script]
      /\ files \in [success : Earlier.success, notfound : Earlier.notfound]
      /\ TurnsInv
  BY TurnsInit DEF TripInit
<1>2. DOMAIN files = DOMAIN ScriptInputs /\ \A s \in DOMAIN ScriptInputs : files[s] \in Earlier[s]
  BY <1>1 DEF ScriptInputs
<1> QED
  BY <1>1, <1>2, EarlierAssumption DEF FilesInv

LEMMA FilesStep == TripInv /\ TripLoop /\ FilesInv /\ [TripNext]_tripVars => FilesInv'
<1> SUFFICES ASSUME TripInv, TripLoop, FilesInv, [TripNext]_tripVars PROVE FilesInv'
  OBVIOUS
<1>1. CASE Discovering
  <2>1. stage = "discover" /\ DiscoveryStep /\ UNCHANGED <<stage, script, files>>
    BY <1>1 DEF Discovering, trip
  <2>2. job' = job
    BY <2>1 DEF DiscoveryStep, DecideDone, DecideOutcome, Do, Look, OutOfTurns, Timeout,
       DiscoveryRaises
  <2>3. TurnsInv'
    BY <2>1, TurnsStep DEF TripInv, TripLoop, FilesInv
  <2> QED
    BY <2>1, <2>2, <2>3 DEF FilesInv
<1>2. CASE PageArrives
  <2>1. stage = "discover" /\ NavCommits /\ UNCHANGED <<discovery, drifted, stage, script, files>>
    BY <1>2 DEF PageArrives, trip
  <2>2. job' = job
    BY <2>1 DEF discovery
  <2>3. TurnsInv'
    BY <2>1, ArrivalWalks DEF TripLoop, FilesInv
  <2> QED
    BY <2>1, <2>2, <2>3 DEF FilesInv
<1>3. CASE WriteEvidence
  <2>1. /\ stage = "discover" /\ stage' = "merge" /\ UNCHANGED <<job, script>>
        /\ files' = [files EXCEPT ![script] = Evidence]
    BY <1>3 DEF WriteEvidence
  <2>2. OfThisLoop(Evidence, script)
    BY <2>1, EvidenceOfThisLoop DEF TripLoop
  <2> QED
    BY <2>1, <2>2 DEF FilesInv
<1>4. CASE Merge
  <2>1. /\ files' = [f \in DOMAIN files |-> NoFile] /\ stage # "discover" /\ stage' # "discover"
        /\ UNCHANGED <<job, script>>
    BY <1>4 DEF Merge, discovery
  <2> QED
    BY <2>1, NoFileOfThisLoop DEF FilesInv
<1>5. CASE RefuseMerge \/ StartReplay \/ Replaying
  <2>1. stage # "discover" /\ stage' # "discover" /\ UNCHANGED <<job, script, files>>
    BY <1>5 DEF RefuseMerge, StartReplay, Replaying, discovery
  <2> QED
    BY <2>1 DEF FilesInv
<1>6. CASE UNCHANGED tripVars
  <2>1. UNCHANGED <<discovery, drifted, page, nav, stage, script, files>>
    BY <1>6 DEF tripVars, trip
  <2>2. job' = job
    BY <2>1 DEF discovery
  <2>3. TurnsInv => TurnsInv'
    BY <2>1, TurnsKept
  <2> QED
    BY <2>1, <2>2, <2>3 DEF FilesInv
<1> QED
  BY <1>1, <1>2, <1>3, <1>4, <1>5, <1>6 DEF TripNext

LEMMA FilesInvariant == TripSpec => [](TripInv /\ TripLoop /\ FilesInv)
  BY TripInitInv, TripStep, TripLoopInit, TripLoopStep, FilesInit, FilesStep, PTL DEF TripSpec

(* Whatever the model decides in a discovery, and whatever runs came       *)
(* before: the files that the merge reads are of runs of this loop, for    *)
(* the member that their script asks for.                                  *)
FilesOfThisLoop == \A s \in DOMAIN ScriptInputs : OfThisLoop(files[s], s)

THEOREM TripFiles == TripSpec => []FilesOfThisLoop
<1>1. FilesInv => FilesOfThisLoop
  BY DEF FilesInv, FilesOfThisLoop
<1> QED
  BY <1>1, FilesInvariant, PTL

-----------------------------------------------------------------------------
(* What a reviewed recipe is: it types the member id, submits the search   *)
(* once, and then reads on the member's page.                              *)

(* The step that submits the search.                                       *)
TheClick(steps) == CHOOSE c \in DOMAIN steps : steps[c].action = "click"

(* c is the one step that submits, and what the others are about.          *)
Submits(steps, c) ==
  /\ c \in DOMAIN steps
  /\ steps[c].action = "click" /\ steps[c].checkpoint = Screen("detail")
  /\ Offers(steps[c], "button::")

Fills(step) ==
  step.action = "type" /\ Offers(step, "textbox::") /\ step.value_from = "member_id"

FillsBefore(steps, c) ==
  /\ \A k \in DOMAIN steps : k < c =>
       /\ steps[k].checkpoint = NoCheckpoint
       /\ Fills(steps[k]) \/ steps[k].action \in {"read", "wait"}
  /\ \E k \in DOMAIN steps : k < c /\ Fills(steps[k])

ReadsAfter(steps, c) ==
  \A k \in DOMAIN steps : k > c =>
    /\ steps[k].action \in {"read", "wait"}
    /\ steps[k].checkpoint \in {NoCheckpoint} \cup {Field(f) : f \in DOMAIN Labels}

Searching(steps, c) == Submits(steps, c) /\ FillsBefore(steps, c) /\ ReadsAfter(steps, c)

(* The page a step is for, when the recipe is replayed for the member that *)
(* it was recorded with.                                                   *)
PageAt(k, c, member) ==
  IF k <= c THEN SearchPage(FALSE, FALSE) ELSE MemberPage(member, FALSE, FALSE)

(* In a reviewed draft nothing is clicked twice, and nothing typed after.  *)
LEMMA SoundSearches ==
  ASSUME NEW s, NEW n, NEW member, Compiled(s, member), Sound(s, n)
  PROVE  /\ TheClick(s.steps) \in 1..Len(s.steps)
         /\ Searching(s.steps, TheClick(s.steps))
         /\ \A k \in DOMAIN s.steps :
              /\ s.steps[k].target \in Seq(Locator)
              /\ s.steps[k].action # "wait" =>
                   Finds(s.steps[k].target, PageAt(k, TheClick(s.steps), member))
<1> DEFINE steps == s.steps
           c == TheClick(steps)
<1>1. steps \in Seq(Step) /\ DOMAIN steps = 1..Len(steps) /\ Len(steps) \in Nat
  BY DEF Compiled, CapabilityArtifact
<1>2. \A k \in DOMAIN steps : CompiledStep(steps[k]) /\ InOrder(steps, k, member)
  BY DEF Compiled
<1>3. \A k \in DOMAIN steps :
        /\ steps[k].action = "type" => steps[k].value_from = "member_id"
        /\ steps[k].action = "click" => steps[k].checkpoint = Screen("detail")
  BY DEF Sound
<1>4. /\ \E k \in DOMAIN steps : steps[k].action = "click"
      /\ \E k \in DOMAIN steps : steps[k].action = "type"
  <2>1. {"type", "click"} \subseteq {steps[k].action : k \in DOMAIN steps}
    BY DEF Sound
  <2>2. "click" \in {steps[k].action : k \in DOMAIN steps}
        /\ "type" \in {steps[k].action : k \in DOMAIN steps}
    BY <2>1
  <2> QED
    BY <2>2
<1>5. c \in 1..Len(steps) /\ steps[c].action = "click"
  BY <1>1, <1>4 DEF TheClick
<1>6. \A k \in DOMAIN steps : steps[k].target \in Seq(Locator)
  <2>1. \A k \in DOMAIN steps : steps[k] \in Step
    BY <1>1
  <2>2. \A step \in Step : step.target \in Seq(Locator)
    BY DEF Step
  <2> QED
    BY <2>1, <2>2
<1> HIDE DEF steps, c
<1>7. \A k \in DOMAIN steps :
        \/ /\ steps[k].action = "type" /\ Offers(steps[k], "textbox::")
           /\ steps[k].checkpoint = NoCheckpoint
        \/ steps[k].action = "click" /\ Offers(steps[k], "button::")
        \/ /\ steps[k].action = "read"
           /\ steps[k].checkpoint \in {NoCheckpoint} \cup {Field(f) : f \in DOMAIN Labels}
        \/ steps[k].action = "wait" /\ steps[k].checkpoint = NoCheckpoint
  BY <1>2 DEF CompiledStep
<1>8. Led(steps[c])
  BY <1>1, <1>3, <1>5 DEF Led
<1>9. \A k \in DOMAIN steps : k > c => steps[k].action \in {"read", "wait"}
  <2> SUFFICES ASSUME NEW k \in DOMAIN steps, k > c, steps[k].action \in {"type", "click"}
               PROVE  FALSE
    BY <1>7
  <2>1. \A j \in 1..(k - 1) : ~Led(steps[j])
    BY <1>2 DEF InOrder
  <2>2. c \in 1..(k - 1)
    BY <1>1, <1>5
  <2> QED
    BY <1>8, <2>1, <2>2
<1>10. \A k \in DOMAIN steps : k < c => steps[k].action # "click"
  <2> SUFFICES ASSUME NEW k \in DOMAIN steps, k < c, steps[k].action = "click" PROVE FALSE
    OBVIOUS
  <2>1. \A j \in 1..(c - 1) : ~Led(steps[j])
    BY <1>1, <1>2, <1>5 DEF InOrder
  <2>2. k \in 1..(c - 1)
    BY <1>1, <1>5
  <2>3. Led(steps[k])
    BY <1>3 DEF Led
  <2> QED
    BY <2>1, <2>2, <2>3
<1>11. ASSUME NEW k \in DOMAIN steps, k < c, steps[k].action = "read"
       PROVE  steps[k].checkpoint = NoCheckpoint /\ Finds(steps[k].target, SearchPage(FALSE, FALSE))
  <2>1. \A j \in 1..(k - 1) : j \in DOMAIN steps /\ j < c
    BY <1>1, <1>5, <1>11
  <2>2. \A j \in 1..(k - 1) : steps[j].action # "click"
    BY <1>10, <2>1
  <2> QED
    BY <1>2, <1>11, <2>2 DEF InOrder
<1>12. ASSUME NEW k \in DOMAIN steps, k > c, steps[k].action = "read"
       PROVE  Finds(steps[k].target, MemberPage(member, FALSE, FALSE))
  <2>1. c \in 1..(k - 1) /\ \A j \in 1..(k - 1) : j \in DOMAIN steps
    BY <1>1, <1>5, <1>12
  <2>2. \A j \in 1..(k - 1) : steps[j].action = "type" => steps[j].value_from # ""
    BY <1>3, <2>1
  <2> QED
    BY <1>2, <1>8, <1>12, <2>1, <2>2 DEF InOrder
<1>13. Submits(steps, c)
  BY <1>1, <1>3, <1>5, <1>7 DEF Submits
<1>14. FillsBefore(steps, c)
  <2>1. \A k \in DOMAIN steps : k < c =>
          /\ steps[k].checkpoint = NoCheckpoint
          /\ Fills(steps[k]) \/ steps[k].action \in {"read", "wait"}
    BY <1>3, <1>7, <1>10, <1>11 DEF Fills
  <2>2. PICK k \in DOMAIN steps : steps[k].action = "type"
    BY <1>4 DEF steps
  <2>3. k < c
    <3>1. k # c /\ ~(k > c)
      BY <1>5, <1>9, <2>2
    <3>2. k \in Nat /\ c \in Nat
      BY <1>1, <1>5
    <3> QED
      BY <3>1, <3>2
  <2>4. Fills(steps[k])
    BY <1>3, <1>7, <2>2 DEF Fills
  <2> QED
    BY <2>1, <2>3, <2>4 DEF FillsBefore
<1>15. ReadsAfter(steps, c)
  BY <1>7, <1>9 DEF ReadsAfter
<1>16. ASSUME NEW k \in DOMAIN steps, steps[k].action # "wait"
       PROVE  Finds(steps[k].target, PageAt(k, c, member))
  <2>0. k \in Nat /\ c \in Nat
    BY <1>1, <1>5
  <2>1. /\ "textbox::" \in Shows(SearchPage(FALSE, FALSE))
        /\ "button::" \in Shows(SearchPage(FALSE, FALSE))
    BY DEF Shows, SearchPage
  <2>2. CASE k > c
    <3>0. ~(k <= c)
      BY <2>0, <2>2
    <3>1. PageAt(k, c, member) = MemberPage(member, FALSE, FALSE)
      BY <3>0 DEF PageAt
    <3> QED
      BY <1>9, <1>12, <1>16, <2>2, <3>1
  <2>3. CASE k <= c
    <3>1. PageAt(k, c, member) = SearchPage(FALSE, FALSE)
      BY <2>3 DEF PageAt
    <3>2. k < c \/ k = c
      BY <2>0, <2>3
    <3>3. CASE k = c
      BY <1>13, <2>1, <3>1, <3>3 DEF Submits, Offers, Finds
    <3>4. CASE k < c
      BY <1>11, <1>14, <1>16, <2>1, <3>1, <3>4 DEF FillsBefore, Fills, Offers, Finds
    <3> QED
      BY <3>2, <3>3, <3>4
  <2> QED
    BY <2>0, <2>2, <2>3
<1> QED
  BY <1>5, <1>6, <1>13, <1>14, <1>15, <1>16 DEF Searching, steps, c

(* Nothing else is clicked.                                                *)
LEMMA OneClick ==
  ASSUME NEW steps, NEW c, DOMAIN steps \subseteq Nat, Searching(steps, c)
  PROVE  TheClick(steps) = c
<1>1. c \in DOMAIN steps /\ steps[c].action = "click"
  BY DEF Searching, Submits
<1>2. ASSUME NEW k \in DOMAIN steps, steps[k].action = "click" PROVE k = c
  <2>1. ~(k < c) /\ ~(k > c)
    BY <1>2 DEF Searching, FillsBefore, ReadsAfter, Fills
  <2> QED
    BY <1>1, <2>1
<1> QED
  BY <1>1, <1>2 DEF TheClick

(* Redaction leaves alone whatever is on a page of the server, and makes   *)
(* nothing that is.                                                        *)
LEMMA RedactedShows ==
  ASSUME NEW p \in ServerPages, NEW v
  PROVE  /\ Redacted(v) \in Shows(p) <=> v \in Shows(p)
         /\ v \in Shows(p) => Redacted(v) = v
<1>1. CASE v \in DOMAIN Masks
  <2>1. {v, Masks[v]} \cap Shows(p) = {}
    BY <1>1, MasksAssumption
  <2> QED
    BY <1>1, <2>1 DEF Redacted
<1>2. CASE v \notin DOMAIN Masks
  BY <1>2 DEF Redacted
<1> QED
  BY <1>1, <1>2

(* What it leaves of a step.                                               *)
LEMMA RedactedStep ==
  ASSUME NEW steps, NEW k \in DOMAIN steps, steps[k] \in Step
  PROVE  LET step == RedactedSteps(steps)[k]
         IN /\ step.action = steps[k].action /\ step.checkpoint = steps[k].checkpoint
            /\ step.value_from = steps[k].value_from
            /\ DOMAIN step.target = DOMAIN steps[k].target
            /\ \A r \in DOMAIN step.target :
                 step.target[r].value = Redacted(steps[k].target[r].value)
<1> DEFINE ladder == RedactedLadder(steps[k].target)
           step == RedactedSteps(steps)[k]
<1>1. step = [steps[k] EXCEPT !.target = ladder]
  BY DEF RedactedSteps
<1>2. \A s \in Step : s.target \in Seq(Locator)
  BY DEF Step
<1>3. steps[k].target \in Seq(Locator)
  BY <1>2
<1>4. \A r \in DOMAIN steps[k].target : steps[k].target[r] \in Locator
  BY <1>3
<1>5. \A r \in DOMAIN steps[k].target : ladder[r].value = Redacted(steps[k].target[r].value)
  BY <1>4 DEF Locator, RedactedLadder
<1>6. DOMAIN ladder = DOMAIN steps[k].target
  BY DEF RedactedLadder
<1> HIDE DEF ladder, step
<1>7. /\ step.action = steps[k].action /\ step.checkpoint = steps[k].checkpoint
      /\ step.value_from = steps[k].value_from /\ step.target = ladder
  BY <1>1 DEF Step
<1>8. \A r \in DOMAIN step.target : step.target[r].value = Redacted(steps[k].target[r].value)
  BY <1>5, <1>6, <1>7
<1> QED
  BY <1>6, <1>7, <1>8 DEF step

(* A ladder is found after redaction where it was before.                  *)
LEMMA RedactedFound ==
  ASSUME NEW p \in ServerPages, NEW ladder \in Seq(Locator), NEW redacted, NEW r,
         DOMAIN redacted = DOMAIN ladder,
         \A q \in DOMAIN redacted : redacted[q].value = Redacted(ladder[q].value)
  PROVE  FoundAt(ladder, Shows(p), r) => FoundAt(redacted, Shows(p), r)
<1> SUFFICES ASSUME FoundAt(ladder, Shows(p), r) PROVE FoundAt(redacted, Shows(p), r)
  OBVIOUS
<1>1. \A q \in DOMAIN redacted : redacted[q].value \in Shows(p) <=> ladder[q].value \in Shows(p)
  BY RedactedShows
<1>2. r \in DOMAIN ladder /\ \A q \in 1..(r - 1) : q \in DOMAIN ladder
  BY DEF FoundAt
<1> QED
  BY <1>1, <1>2 DEF FoundAt

(* A recipe that searches still does.                                      *)
LEMMA RedactedSearches ==
  ASSUME NEW steps \in Seq(Step), NEW c, Searching(steps, c)
  PROVE  Searching(RedactedSteps(steps), c)
<1> DEFINE redacted == RedactedSteps(steps)
<1>1. DOMAIN redacted = DOMAIN steps
  BY DEF RedactedSteps
<1>2. \A k \in DOMAIN steps :
        /\ redacted[k].action = steps[k].action /\ redacted[k].checkpoint = steps[k].checkpoint
        /\ redacted[k].value_from = steps[k].value_from
  BY RedactedStep
<1>3. ASSUME NEW k \in DOMAIN steps, NEW v \in {"textbox::", "button::"}, Offers(steps[k], v)
      PROVE  Offers(redacted[k], v)
  <2>1. PICK r \in DOMAIN steps[k].target : steps[k].target[r].value = v
    BY <1>3 DEF Offers
  <2>2. /\ DOMAIN redacted[k].target = DOMAIN steps[k].target
        /\ redacted[k].target[r].value = Redacted(v)
    BY <2>1, RedactedStep
  <2>3. v \in Shows(SearchPage(FALSE, FALSE)) /\ SearchPage(FALSE, FALSE) \in ServerPages
    BY OnServer DEF Shows, SearchPage
  <2> QED
    BY <2>1, <2>2, <2>3, RedactedShows DEF Offers
<1> HIDE DEF redacted
<1>4. Submits(redacted, c)
  BY <1>1, <1>2, <1>3 DEF Searching, Submits
<1>5. \A k \in DOMAIN steps : Fills(steps[k]) => Fills(redacted[k])
  BY <1>2, <1>3 DEF Fills
<1>6. FillsBefore(redacted, c)
  BY <1>1, <1>2, <1>5 DEF Searching, FillsBefore
<1>7. ReadsAfter(redacted, c)
  BY <1>1, <1>2 DEF Searching, ReadsAfter
<1> QED
  BY <1>4, <1>6, <1>7 DEF Searching, redacted

(* The approved recipe, reviewed; and the rungs that the log beside the    *)
(* draft has for it, when the log is of a run with its steps.              *)
RecordedFor == ScriptInputs["success"]["member_id"]

Reviewed(a) ==
  /\ Searching(a.steps, TheClick(a.steps))
  /\ a.success = Field("savings_balance")
  /\ "savings_balance" \in a.outputs /\ a.outputs \subseteq DOMAIN Labels
  /\ a.known_interstitials = <<>>
  /\ DOMAIN a.known_outcomes = {1} /\ a.known_outcomes[1].detect = Screen("not_found")

Compares(a, rungs) ==
  /\ rungs = [k \in DOMAIN a.steps |-> rungs[k]]
  /\ \A k \in DOMAIN a.steps : a.steps[k].action # "wait" =>
       /\ DOMAIN a.steps[k].target \subseteq 1..3
       /\ FoundAt(a.steps[k].target, Shows(PageAt(k, TheClick(a.steps), RecordedFor)), rungs[k])

ReviewInv ==
  \A a \in approved : review.sound =>
    Reviewed(a) /\ (review.compared => Compares(a, review.rungs))

(* Where anything is found, there is a page of the server.                 *)
LEMMA FoundOnServer ==
  ASSUME NEW ladder, NEW k, NEW c, NEW id, Finds(ladder, PageAt(k, c, id))
  PROVE  PageAt(k, c, id) \in ServerPages
<1> DEFINE q == PageAt(k, c, id)
<1>1. q \in {SearchPage(FALSE, FALSE), MemberPage(id, FALSE, FALSE)} /\ Shows(q) # {}
  BY DEF PageAt, Finds
<1> HIDE DEF q
<1>2. CASE q = SearchPage(FALSE, FALSE)
  BY <1>2, OnServer DEF q
<1>3. CASE q = MemberPage(id, FALSE, FALSE)
  <2>1. q.path = "member" /\ q.member = id
    BY <1>3 DEF MemberPage
  <2>2. id \in DOMAIN MEMBERS
    BY <1>1, <2>1, EmptyShows
  <2> QED
    BY <1>3, <2>2, OnServer DEF q
<1> QED
  BY <1>1, <1>2, <1>3

(* A control that is found on a page is found where the log says.          *)
LEMMA LoggedRung ==
  ASSUME NEW ladder \in Seq(Locator), Len(ladder) <= 3, Steady(ladder),
         NEW p \in ServerPages, NEW rung, FoundAt(ladder, Shows(p), rung),
         NEW k, NEW c, NEW id, Finds(ladder, PageAt(k, c, id))
  PROVE  FoundAt(ladder, Shows(PageAt(k, c, id)), rung)
<1> DEFINE q == PageAt(k, c, id)
<1>1. q \in ServerPages
  BY FoundOnServer
<1>2. PICK r \in DOMAIN ladder : FoundAt(ladder, Shows(q), r)
  BY StopsSomewhere DEF Finds
<1> HIDE DEF q
<1>3. rung \in DOMAIN ladder
  BY DEF FoundAt
<1>4. rung = r
  BY <1>1, <1>2, <1>3 DEF Steady
<1> QED
  BY <1>2, <1>4 DEF q

(* What the merge makes of two reviewed drafts is a reviewed recipe.       *)
LEMMA MergedReviewed ==
  ASSUME NEW s, NEW n, Compiled(s, RecordedFor), s.success = Field("savings_balance"),
         Sound(s, n), NEW member, Compiled(n, member), Len(n.known_outcomes) = 1
  PROVE  Reviewed(Merged(s, n)) /\ TheClick(Merged(s, n).steps) = TheClick(s.steps)
<1> DEFINE a == Merged(s, n)
           c == TheClick(s.steps)
           outcomes == [k \in DOMAIN n.known_outcomes |->
                          [n.known_outcomes[k] EXCEPT !.name = Redacted(@)]]
<1>1. s \in CapabilityArtifact /\ n \in CapabilityArtifact
  BY DEF Compiled
<1>2. s.steps \in Seq(Step) /\ n.known_outcomes \in Seq(Rule)
  BY <1>1 DEF CapabilityArtifact
<1>3. a = [s EXCEPT !.steps = RedactedSteps(s.steps), !.known_outcomes = outcomes]
  BY DEF Merged
<1>4. DOMAIN n.known_outcomes = {1} /\ n.known_outcomes[1] \in Rule
  BY <1>2
<1>5. DOMAIN outcomes = {1} /\ outcomes[1].detect = n.known_outcomes[1].detect
  BY <1>4 DEF Rule
<1>6. n.known_outcomes[1].detect = Screen("not_found")
  BY <1>4 DEF Sound
<1>7. Searching(RedactedSteps(s.steps), c)
  BY <1>2, SoundSearches, RedactedSearches
<1>8. DOMAIN RedactedSteps(s.steps) \subseteq Nat
  <2>1. DOMAIN s.steps \subseteq Nat
    BY <1>2
  <2> QED
    BY <2>1 DEF RedactedSteps
<1>9. TheClick(RedactedSteps(s.steps)) = c
  BY <1>7, <1>8, OneClick
<1> HIDE DEF a, outcomes, c
<1>10. /\ a.steps = RedactedSteps(s.steps) /\ a.known_outcomes = outcomes
       /\ a.success = s.success /\ a.outputs = s.outputs
       /\ a.known_interstitials = s.known_interstitials
  BY <1>1, <1>3 DEF CapabilityArtifact
<1>11. /\ "savings_balance" \in s.outputs /\ s.outputs \subseteq DOMAIN Labels
       /\ s.known_interstitials = <<>>
  BY DEF Sound, Compiled
<1>12. Reviewed(a) /\ TheClick(a.steps) = c
  BY <1>5, <1>6, <1>7, <1>9, <1>10, <1>11 DEF Reviewed
<1> QED
  BY <1>12 DEF a, c

(* A log of the draft's own run has the rungs of the merged recipe.        *)
LEMMA MergedCompares ==
  ASSUME NEW s, NEW n, NEW log, Compiled(s, RecordedFor), Sound(s, n), SameRun(s, log),
         log \in Seq(TurnLog), \A k \in DOMAIN log : Logged(log[k]),
         TheClick(Merged(s, n).steps) = TheClick(s.steps)
  PROVE  Compares(Merged(s, n), [k \in DOMAIN log |-> log[k].rung])
<1> DEFINE a == Merged(s, n)
           c == TheClick(s.steps)
           rungs == [k \in DOMAIN log |-> log[k].rung]
<1>1. s \in CapabilityArtifact /\ s.steps \in Seq(Step)
  BY DEF Compiled, CapabilityArtifact
<1>2. a.steps = RedactedSteps(s.steps)
  BY <1>1 DEF Merged, CapabilityArtifact
<1>3. DOMAIN a.steps = DOMAIN s.steps
  BY <1>2 DEF RedactedSteps
<1>4. DOMAIN log = DOMAIN s.steps
  BY <1>1 DEF SameRun
<1>5. rungs = [k \in DOMAIN a.steps |-> rungs[k]] /\ \A k \in DOMAIN log : rungs[k] = log[k].rung
  BY <1>3, <1>4
<1> HIDE DEF rungs, c
<1>6. ASSUME NEW k \in DOMAIN a.steps, a.steps[k].action # "wait"
      PROVE  /\ DOMAIN a.steps[k].target \subseteq 1..3
             /\ FoundAt(a.steps[k].target, Shows(PageAt(k, c, RecordedFor)), rungs[k])
  <2> DEFINE q == PageAt(k, c, RecordedFor)
             ladder == s.steps[k].target
  <2>0. s.steps[k] \in Step
    BY <1>1, <1>3
  <2>1. /\ a.steps[k].action = s.steps[k].action
        /\ DOMAIN a.steps[k].target = DOMAIN ladder
        /\ \A r \in DOMAIN a.steps[k].target : a.steps[k].target[r].value = Redacted(ladder[r].value)
    BY <1>2, <1>3, <2>0, RedactedStep
  <2>2. ladder \in Seq(Locator) /\ Finds(ladder, q)
    BY <1>3, <1>6, <2>1, SoundSearches DEF c
  <2>3. Len(ladder) <= 3 /\ Steady(ladder)
    BY <1>3 DEF Compiled, CompiledStep
  <2>4. log[k].ok /\ log[k].ladder = ladder /\ Logged(log[k])
    BY <1>3, <1>4 DEF SameRun
  <2>5. ladder # <<>>
    <3>1. DOMAIN ladder # {}
      BY <2>2 DEF Finds
    <3> QED
      BY <3>1
  <2>6. PICK p \in ServerPages : FoundAt(ladder, Shows(p), rungs[k])
    BY <1>3, <1>4, <1>5, <2>4, <2>5 DEF Logged
  <2>7. FoundAt(ladder, Shows(q), rungs[k])
    BY <2>2, <2>3, <2>6, LoggedRung
  <2>8. q \in ServerPages
    BY <2>2, FoundOnServer
  <2> HIDE DEF q, ladder
  <2>9. FoundAt(a.steps[k].target, Shows(q), rungs[k])
    BY <2>1, <2>2, <2>7, <2>8, RedactedFound
  <2>10. DOMAIN ladder \subseteq 1..3
    BY <2>2, <2>3, Z3
  <2> QED
    BY <2>1, <2>9, <2>10 DEF q
<1>7. Compares(a, rungs)
  BY <1>5, <1>6 DEF Compares, c
<1> QED
  BY <1>7 DEF a, rungs

LEMMA ReviewStep == FilesInv /\ ReviewInv /\ [TripNext]_tripVars => ReviewInv'
<1> SUFFICES ASSUME FilesInv, ReviewInv, [TripNext]_tripVars PROVE ReviewInv'
  OBVIOUS
<1>1. CASE Merge
  <2>1. PICK s \in files.success.draft, n \in files.notfound.draft :
          /\ Len(n.known_outcomes) = 1
          /\ approved' = {Merged(s, n)}
          /\ review' = [sound    |-> Sound(s, n),
                        compared |-> SameRun(s, files.success.log),
                        rungs    |-> [k \in DOMAIN files.success.log |->
                                        files.success.log[k].rung]]
    BY <1>1 DEF Merge
  <2>2. "success" \in DOMAIN ScriptInputs /\ "notfound" \in DOMAIN ScriptInputs
    BY DEF ScriptInputs
  <2>3. OfThisLoop(files["success"], "success") /\ OfThisLoop(files["notfound"], "notfound")
    BY <2>2 DEF FilesInv
  <2>4. /\ Compiled(s, RecordedFor) /\ s.success = Field("savings_balance")
        /\ Compiled(n, ScriptInputs["notfound"]["member_id"])
        /\ files.success.log \in Seq(TurnLog)
        /\ \A k \in DOMAIN files.success.log : Logged(files.success.log[k])
    BY <2>3 DEF OfThisLoop, RecordedFor
  <2>5. /\ review'.sound <=> Sound(s, n)
        /\ review'.compared <=> SameRun(s, files.success.log)
        /\ review'.rungs = [k \in DOMAIN files.success.log |-> files.success.log[k].rung]
    BY <2>1, Zenon
  <2>6. ASSUME review'.sound
        PROVE  /\ Reviewed(Merged(s, n))
               /\ review'.compared => Compares(Merged(s, n), review'.rungs)
    <3>1. Reviewed(Merged(s, n)) /\ TheClick(Merged(s, n).steps) = TheClick(s.steps)
      BY <2>1, <2>4, <2>5, <2>6, MergedReviewed
    <3>2. ASSUME review'.compared PROVE Compares(Merged(s, n), review'.rungs)
      BY <2>4, <2>5, <2>6, <3>1, <3>2, MergedCompares
    <3> QED
      BY <3>1, <3>2
  <2> QED
    BY <2>1, <2>6 DEF ReviewInv
<1>2. CASE UNCHANGED <<approved, review>>
  BY <1>2 DEF ReviewInv
<1> QED
  BY <1>1, <1>2
  DEF TripNext, Discovering, PageArrives, WriteEvidence, RefuseMerge, StartReplay, Replaying,
      tripVars, trip

LEMMA ReviewInit == TripInit => ReviewInv
  BY DEF TripInit, ReviewInv

LEMMA ReviewInvariant == TripSpec => []ReviewInv
  BY ReviewInit, ReviewStep, FilesInvariant, PTL DEF TripSpec

-----------------------------------------------------------------------------
(* What a reviewed recipe does when it is replayed on a page that has its  *)
(* controls, the search button's name aside, and shows the balance.        *)

(* The replay is a fresh call, of an approved recipe; before it nothing    *)
(* has been waited for, and no ladder tried.                               *)
Fresh ==
  /\ start = 0
  /\ stage # "replay" => attempts = 0 /\ rung_log = <<>>
  /\ stage = "replay" => Artifact \in approved /\ inputs \in Inputs /\ SameFlags

(* What a step of the replay leaves as it is.                              *)
LEMMA ReplayFrame ==
  ASSUME TripInv, Fresh, Replaying
  PROVE  /\ stage = "replay" /\ LiveInv
         /\ UNCHANGED <<stage, approved, review, start, task, inputs, drifted>>
         /\ Artifact' = Artifact /\ Steps' = Steps /\ Goal' = Goal
         /\ Member' = Member /\ (Known' <=> Known)
         /\ SameFlags' /\ FlagsOf(page') = FlagsOf(page)
         /\ page'.slow = page.slow /\ page'.hide = page.hide
<1>1. /\ stage = "replay" /\ UNCHANGED <<stage, approved, review>>
      /\ LiveEngineStep \/ PerceiveRaises \/ NavCommit
  BY DEF Replaying
<1>2. LiveInv /\ SameFlags
  BY <1>1 DEF TripInv, Fresh
<1>3. [LiveNext]_liveVars
  BY <1>1 DEF LiveNext
<1>4. UNCHANGED <<start, fixed>>
  BY <1>1 DEF LiveEngineStep, Looking, Deciding, PerceiveRaises, NavCommit, Act, LiveAct, Retry,
     Perceive, TrustPaused, FinalLook, AfterWait, BusinessOutcome, NoOutcome, GiveUp, StepDone,
     Succeed, DriverRaises, vars, call, world
<1>5. ~HumanFix
  BY <1>4 DEF HumanFix
<1>6. SameFlags' /\ FlagsOf(page') = FlagsOf(page)
  BY <1>2, <1>3, <1>5, StepSameFlags DEF LiveInv
<1>7. page'.slow = page.slow /\ page'.hide = page.hide
  BY <1>6 DEF FlagsOf
<1> QED
  BY <1>1, <1>2, <1>3, <1>4, <1>6, <1>7, LiveFrame

LEMMA FreshInit == TripInit => Fresh
  BY DEF TripInit, Fresh

LEMMA FreshStep == TripInv /\ Fresh /\ [TripNext]_tripVars => Fresh'
<1> SUFFICES ASSUME TripInv, Fresh, [TripNext]_tripVars PROVE Fresh'
  OBVIOUS
<1>1. CASE StartReplay
  <2>1. PICK recipe \in approved : task'.artifact = recipe
    BY <1>1 DEF StartReplay
  <2>2. /\ UNCHANGED <<start, approved>> /\ inputs' \in Inputs /\ nav' = NoNav
        /\ stage' = "replay"
    BY <1>1 DEF StartReplay
  <2>3. Artifact' \in approved' /\ SameFlags'
    BY <2>1, <2>2 DEF Artifact, SameFlags
  <2> QED
    BY <2>2, <2>3 DEF Fresh
<1>2. CASE Replaying
  <2>1. Artifact \in approved /\ inputs \in Inputs
    BY <1>2, ReplayFrame DEF Fresh
  <2> QED
    BY <1>2, <2>1, ReplayFrame DEF Fresh
<1>3. CASE Discovering \/ PageArrives \/ WriteEvidence \/ Merge \/ RefuseMerge
  <2>1. UNCHANGED <<start, attempts, rung_log>> /\ stage # "replay" /\ stage' # "replay"
    BY <1>3 DEF Discovering, PageArrives, WriteEvidence, Merge, RefuseMerge, vars, trip
  <2> QED
    BY <2>1 DEF Fresh
<1>4. CASE UNCHANGED tripVars
  <2>1. UNCHANGED <<start, task, attempts, stage, approved, rung_log, inputs, page, nav>>
    BY <1>4 DEF tripVars, vars, trip
  <2>2. Artifact' = Artifact /\ (SameFlags => SameFlags')
    BY <2>1 DEF Artifact, SameFlags
  <2> QED
    BY <2>1, <2>2 DEF Fresh
<1> QED
  BY <1>1, <1>2, <1>3, <1>4 DEF TripNext

(* The cases that the review is about.                                     *)
Serving ==
  stage = "replay" /\ review.sound /\ ~page.hide /\ drifted \subseteq {"button::Search"}

SearchStep == TheClick(Steps)

(* The parts of an approved recipe, for the step the replay is at.         *)
LEMMA ServedRecipe ==
  ASSUME TripInv, ReviewInv, Fresh, Serving
  PROVE  /\ LiveInv /\ Searching(Steps, SearchStep)
         /\ SearchStep \in Nat /\ SearchStep >= 1 /\ Len(Steps) \in Nat /\ SearchStep < Goal
         /\ i \in Nat /\ i >= 1 /\ i <= Goal /\ Goal \in Nat
         /\ \A k \in 1..Len(Steps) : k \in DOMAIN Steps
         /\ i < Goal => i \in DOMAIN Steps
         /\ ~Trusted /\ ~Overlay
         /\ i < SearchStep => Expected = NoCheckpoint
         /\ i = SearchStep => Expected = Screen("detail")
         /\ i > SearchStep => Expected \in {NoCheckpoint} \cup {Field(f) : f \in DOMAIN Labels}
         /\ i = Goal => Expected = Field("savings_balance")
         /\ "savings_balance" \in Artifact.outputs
         /\ DOMAIN Artifact.known_outcomes = {1}
         /\ Artifact.known_outcomes[1].detect = Screen("not_found")
<1> DEFINE c == SearchStep
<1>1. LiveInv /\ Reviewed(Artifact) /\ start = 0
  BY DEF Serving, TripInv, ReviewInv, Fresh
<1>2. /\ Len(Steps) \in Nat /\ DOMAIN Steps = 1..Len(Steps) /\ i \in 1..Goal
      /\ Goal = Len(Steps) + 1
  BY <1>1 DEF LiveInv, Within, Goal
<1>3. Searching(Steps, c) /\ Artifact.success = Field("savings_balance")
  BY <1>1 DEF Reviewed, Steps, SearchStep
<1>4. c \in 1..Len(Steps)
  BY <1>2, <1>3 DEF Searching, Submits
<1> HIDE DEF c
<1>5. /\ c \in Nat /\ c >= 1 /\ c < Goal
      /\ i \in Nat /\ i >= 1 /\ i <= Goal /\ Goal \in Nat
      /\ i < Goal => i \in DOMAIN Steps
  BY <1>2, <1>4
<1>6. i = Goal => Expected = Field("savings_balance")
  BY <1>3 DEF Expected
<1>7. i < Goal => Expected = Steps[i].checkpoint
  <2>1. i < Goal => i # Goal
    BY <1>5
  <2> QED
    BY <2>1 DEF Expected
<1>8. i < c => Expected = NoCheckpoint
  <2>1. i < c => i < Goal
    BY <1>5
  <2> QED
    BY <1>3, <1>5, <1>7, <2>1 DEF Searching, FillsBefore
<1>9. i = c => Expected = Screen("detail")
  BY <1>3, <1>5, <1>7 DEF Searching, Submits
<1>10. i > c => Expected \in {NoCheckpoint} \cup {Field(f) : f \in DOMAIN Labels}
  <2>1. CASE i < Goal
    BY <1>3, <1>5, <1>7, <2>1 DEF Searching, ReadsAfter
  <2>2. CASE i = Goal
    BY <1>6, <2>2 DEF Labels
  <2> QED
    BY <1>5, <2>1, <2>2
<1>11. ~Trusted
  BY <1>1, <1>5 DEF Trusted
<1>12. ~Overlay
  <2>1. DOMAIN Artifact.known_interstitials = {}
    BY <1>1 DEF Reviewed
  <2> QED
    BY <2>1 DEF Overlay, Matches
<1> QED
  BY <1>1, <1>2, <1>3, <1>5, <1>6, <1>8, <1>9, <1>10, <1>11, <1>12 DEF Reviewed, c

(* Something has been typed by now.                                        *)
Typed == \E k \in DOMAIN Steps : Fills(Steps[k]) /\ (k < i \/ (k = i /\ pc # "step"))

(* Until the search is submitted the run is on the search page, with the   *)
(* member id in the box once it is typed; and it comes past that step on   *)
(* the page of a member that the bank has.                                 *)
Reaches ==
  /\ page.path = "member" => page.member = Member /\ nav = NoNav
  /\ nav # NoNav => nav.to = Member /\ page.slow
  /\ i < SearchStep \/ (i = SearchStep /\ pc = "step") => page.path = "search" /\ nav = NoNav
  /\ page.path = "search" /\ Typed => page.box = Member
  /\ i > SearchStep => Known /\ page.path = "member"

(* Nothing else is waited for, and what the slow page still takes, with    *)
(* the waits already made, is less than it takes at all.                   *)
Waits ==
  /\ attempts \in Nat
  /\ i # SearchStep => attempts = 0 /\ pc # "waited"
  /\ pc \in {"step", "perceive", "dismiss"} => attempts = 0
  /\ i = SearchStep /\ pc \notin {"step", "done"} /\ page.path = "search" =>
       /\ nav # NoNav
       /\ nav.attempts + attempts + (IF pc = "waited" THEN 1 ELSE 0) < SlowAttempts
  /\ i = SearchStep /\ pc \in {"dismiss", "await"} /\ obs.screen = "search" =>
       attempts + 2 <= SlowAttempts
  /\ i = SearchStep /\ pc \in {"await", "waited"} /\ ~Known => page.slow

(* The engine decides on the page that is there, or on the search page     *)
(* that was there until the slow one came.                                 *)
Watches ==
  pc \in {"dismiss", "await"} =>
    \/ obs = LivePerceive(page)
    \/ i = SearchStep /\ page.slow /\ obs = LivePerceive(SearchPage(FALSE, FALSE))

(* How the run may end.                                                    *)
Served ==
  \/ Known /\ result.status = "success" /\ "savings_balance" \in DOMAIN result.outputs
  \/ ~Known /\ result.status = "business_outcome"
  \/ page.slow /\ (result.status = "raised" \/ (~Known /\ Stuck))

ServeInv ==
  /\ pc \in {"step", "perceive", "dismiss", "await", "waited", "done"}
  /\ pc = "done" <=> result.status # "running"
  /\ Reaches /\ Waits /\ Watches
  /\ pc = "done" => Served

ServeContext == TripInv /\ ReviewInv /\ Fresh /\ Serving /\ ServeInv

(* What there is to see on the pages of such a run.                        *)
LEMMA ServedPages ==
  ASSUME ServeContext
  PROVE  /\ page \in OwnPage /\ page.path \in {"search", "member"} /\ page.slow \in BOOLEAN
         /\ nav # NoNav => /\ nav \in OwnNav /\ nav.attempts \in Nat /\ nav.attempts >= 1
                           /\ page.path = "search"
         /\ LivePerceive(SearchPage(FALSE, FALSE)).screen = "search"
         /\ page.path = "search" => LivePerceive(page) = LivePerceive(SearchPage(FALSE, FALSE))
         /\ page.path = "member" /\ Known =>
              /\ LivePerceive(page).screen = "detail"
              /\ DOMAIN LivePerceive(page).fields = DOMAIN Labels
         /\ page.path = "member" /\ ~Known => LivePerceive(page).screen = "not_found"
<1>1. PageInv /\ ~page.hide /\ Reaches
  BY ServedRecipe DEF ServeContext, ServeInv, Serving, LiveInv
<1>2. page \in OwnPage /\ page.path \in {"search", "member"} /\ page.slow \in BOOLEAN
  BY <1>1 DEF PageInv, OwnPage
<1>3. ASSUME nav # NoNav
      PROVE  /\ nav \in OwnNav /\ nav.attempts \in Nat /\ nav.attempts >= 1
             /\ page.path = "search"
  <2>1. nav \in OwnNav
    BY <1>1, <1>3 DEF PageInv
  <2>2. nav.attempts \in 1..SlowAttempts /\ SlowAttempts \in Nat
    BY <2>1, SlowAttemptsAssumption DEF OwnNav
  <2> QED
    BY <1>1, <1>2, <1>3, <2>1, <2>2 DEF Reaches
<1>4. LivePerceive(SearchPage(FALSE, FALSE)).screen = "search"
  BY OnePageRead DEF NoSuchMember, SearchPage
<1>5. page.path = "search" => LivePerceive(page) = LivePerceive(SearchPage(FALSE, FALSE))
  BY SearchShows
<1>6. ASSUME page.path = "member"
      PROVE  /\ Known => /\ LivePerceive(page).screen = "detail"
                         /\ DOMAIN LivePerceive(page).fields = DOMAIN Labels
             /\ ~Known => LivePerceive(page).screen = "not_found"
  <2>1. page.member = Member
    BY <1>1, <1>6 DEF Reaches
  <2>2. Known => Rows(page) = {"member_id", "name", "savings_balance"}
    BY <1>1, <1>6, <2>1 DEF Rows, Known
  <2>3. Known => Rows(page) = DOMAIN Labels
    BY <2>2 DEF Labels
  <2> QED
    BY <1>6, <2>1, <2>3, OnePageRead DEF NoSuchMember, Known
<1> QED
  BY <1>2, <1>3, <1>4, <1>5, <1>6

(* What the three kinds of checkpoint ask for.                             *)
LEMMA Checks ==
  ASSUME NEW o
  PROVE  /\ Check(o, NoCheckpoint)
         /\ \A s : Check(o, Screen(s)) <=> o.screen = s
         /\ \A f : Check(o, Field(f)) <=> f \in DOMAIN o.fields
BY DEF Check, NoCheckpoint, Screen, Field

(* No step but the search has to wait for its checkpoint.                  *)
LEMMA OnlySearchWaits ==
  ASSUME ServeContext, pc = "await", i # SearchStep
  PROVE  Check(obs, Expected)
<1>1. Reaches /\ obs = LivePerceive(page)
  BY DEF ServeContext, ServeInv, Watches
<1>2. i < SearchStep \/ i > SearchStep
  BY ServedRecipe DEF ServeContext
<1>3. CASE i < SearchStep
  BY <1>3, ServedRecipe, Checks DEF ServeContext
<1>4. CASE i > SearchStep
  <2>1. DOMAIN obs.fields = DOMAIN Labels
    BY <1>1, <1>4, ServedPages DEF Reaches
  <2>2. Expected \in {NoCheckpoint} \cup {Field(f) : f \in DOMAIN Labels}
    BY <1>4, ServedRecipe DEF ServeContext
  <2> QED
    BY <2>1, <2>2, Checks
<1> QED
  BY <1>2, <1>3, <1>4

(* A step that types the member id types what the caller gave.             *)
LEMMA FilledIn ==
  ASSUME inputs \in Inputs, NEW step, step.value_from = "member_id"
  PROVE  (IF ValueOf(step, inputs) = None THEN "" ELSE ValueOf(step, inputs)) = Member
<1>1. CASE "member_id" \in DOMAIN inputs
  BY <1>1, InputsAssumption DEF ValueOf, Member
<1>2. CASE "member_id" \notin DOMAIN inputs
  BY <1>2 DEF ValueOf, Member
<1> QED
  BY <1>1, <1>2

(* What the driver does with the step's action.                            *)
LEMMA ServedActs ==
  ASSUME ServeContext, Act, LiveAct(Steps[i])
  PROVE  /\ i < SearchStep =>
              /\ nav' = NoNav /\ page'.path = "search"
              /\ page'.box = Member \/ (page'.box = page.box /\ ~Fills(Steps[i]))
         /\ i = SearchStep =>
              \/ /\ page' = page /\ page.slow /\ page.box = Member
                 /\ nav' # NoNav /\ nav'.to = Member /\ nav'.attempts \in Nat
                 /\ nav'.attempts < SlowAttempts
              \/ page'.path = "member" /\ page'.member = Member /\ nav' = NoNav
         /\ i > SearchStep => UNCHANGED <<page, nav>>
<1> DEFINE c == SearchStep
           step == Steps[i]
           value == ValueOf(step, inputs)
<1>1. /\ pc = "step" /\ i < Goal /\ i \in DOMAIN Steps /\ Searching(Steps, c)
      /\ Reaches /\ inputs \in Inputs /\ drifted \subseteq {"button::Search"}
      /\ c \in Nat /\ i \in Nat /\ c \in DOMAIN Steps
  BY ServedRecipe DEF Act, ServeContext, ServeInv, Fresh, Serving, Searching, Submits
<1>2. DriverAct(step.action, step.target, value)
  BY DEF LiveAct
<1>3. page \in OwnPage
  BY ServedPages
<1>4. page.path = "search" =>
        "textbox::" \in Present(page) /\ "button::" \in Present(page)
  BY <1>1 DEF Present, Shows
<1>5. (IF value = None THEN "" ELSE value) = Member \/ step.value_from # "member_id"
  BY <1>1, FilledIn
<1> HIDE DEF c, step, value
<1>6. ASSUME i < c
      PROVE  /\ nav' = NoNav /\ page'.path = "search"
             /\ page'.box = Member \/ (page'.box = page.box /\ ~Fills(step))
  <2>1. page.path = "search" /\ nav = NoNav
    BY <1>1, <1>6 DEF Reaches, c
  <2>2. CASE Fills(step)
    <3>1. step.action = "type" /\ step.value_from = "member_id" /\ Resolves(step.target, page)
      BY <1>4, <2>1, <2>2 DEF Fills, Offers, Resolves
    <3>2. page' = [page EXCEPT !.box = Member] /\ nav' = nav
      BY <1>2, <1>5, <3>1 DEF DriverAct
    <3>3. page'.box = Member /\ page'.path = "search"
      BY <1>3, <2>1, <3>2 DEF OwnPage
    <3> QED
      BY <2>1, <3>2, <3>3
  <2>3. CASE ~Fills(step)
    <3>1. step.action \in {"read", "wait"}
      BY <1>1, <1>6, <2>3 DEF Searching, FillsBefore, step
    <3>2. page' = page /\ nav' = nav
      BY <1>2, <2>1, <3>1 DEF DriverAct, WaitBriefly
    <3> QED
      BY <2>1, <2>3, <3>2
  <2> QED
    BY <2>2, <2>3
<1>7. ASSUME i = c
      PROVE  \/ /\ page' = page /\ page.slow /\ page.box = Member
                /\ nav' # NoNav /\ nav'.to = Member /\ nav'.attempts \in Nat
                /\ nav'.attempts < SlowAttempts
             \/ page'.path = "member" /\ page'.member = Member /\ nav' = NoNav
  <2> DEFINE n == Submitted(page)
  <2>1. page.path = "search" /\ nav = NoNav
    BY <1>1, <1>7 DEF Reaches, c
  <2>2. Typed
    <3>1. PICK k \in DOMAIN Steps : k < c /\ Fills(Steps[k])
      BY <1>1 DEF Searching, FillsBefore
    <3> QED
      BY <1>7, <3>1 DEF Typed
  <2>3. page.box = Member
    BY <1>1, <2>1, <2>2 DEF Reaches
  <2>4. step.action = "click" /\ Resolves(step.target, page)
    BY <1>1, <1>4, <1>7, <2>1 DEF Searching, Submits, Offers, Resolves, step
  <2>5. WaitBriefly(page, n)
    BY <1>2, <2>4 DEF DriverAct
  <2>6. n.to = Member /\ n.attempts = IF page.slow THEN SlowAttempts ELSE 1
    BY <2>3 DEF Submitted
  <2>7. n \in OwnNav /\ n # NoNav
    BY SubmittedIsOwn, ServedRecipe DEF ServeContext, LiveInv
  <2> HIDE DEF n
  <2>8. SlowAttempts \in Nat
    BY SlowAttemptsAssumption
  <2>9. CASE n.attempts = 1
    <3>1. page' = MemberPage(n.to, n.slow, n.hide) /\ nav' = NoNav
      BY <2>5, <2>7, <2>9 DEF WaitBriefly, Commit
    <3> QED
      BY <2>6, <3>1 DEF MemberPage
  <2>10. CASE n.attempts # 1
    <3>1. page' = page /\ nav' = [n EXCEPT !.attempts = @ - 1]
      BY <2>5, <2>7, <2>10 DEF WaitBriefly
    <3>2. page.slow /\ n.attempts = SlowAttempts
      BY <2>6, <2>10
    <3>3. n.attempts \in 1..SlowAttempts
      BY <2>7 DEF OwnNav
    <3>4. nav'.to = Member /\ nav'.attempts = n.attempts - 1
      BY <2>6, <2>7, <3>1 DEF OwnNav
    <3>5. nav'.attempts \in Nat /\ nav'.attempts # 0 /\ nav'.attempts < SlowAttempts
      BY <2>8, <2>10, <3>2, <3>3, <3>4
    <3>6. NoNav.attempts = 0
      BY DEF NoNav
    <3>7. nav' # NoNav
      BY <3>5, <3>6, Zenon
    <3> QED
      BY <2>3, <3>1, <3>2, <3>4, <3>5, <3>7
  <2> QED
    BY <2>9, <2>10
<1>8. ASSUME i > c PROVE UNCHANGED <<page, nav>>
  <2>1. nav = NoNav
    BY <1>1, <1>8 DEF Reaches, c
  <2>2. step.action \in {"read", "wait"}
    BY <1>1, <1>8 DEF Searching, ReadsAfter, step
  <2> QED
    BY <1>2, <2>1, <2>2 DEF DriverAct, WaitBriefly
<1> QED
  BY <1>6, <1>7, <1>8 DEF c, step

(* What a step of such a replay leaves alone.                              *)
LEMMA ServeFrame ==
  ASSUME ServeContext, Replaying
  PROVE  /\ Steps' = Steps /\ Goal' = Goal /\ SearchStep' = SearchStep
         /\ Member' = Member /\ (Known' <=> Known) /\ (Serving' <=> Serving)
         /\ page'.slow = page.slow
<1>1. /\ Steps' = Steps /\ Goal' = Goal /\ Member' = Member /\ (Known' <=> Known)
      /\ UNCHANGED <<stage, review, drifted>> /\ page'.slow = page.slow /\ page'.hide = page.hide
  BY ReplayFrame DEF ServeContext
<1> QED
  BY <1>1 DEF SearchStep, Serving

LEMMA ServeActs ==
  ASSUME ServeContext, Replaying, Act, LiveAct(Steps[i])
  PROVE  ServeInv'
<1> DEFINE c == SearchStep
<1>1. /\ pc = "step" /\ pc' = "perceive" /\ i < Goal /\ UNCHANGED <<i, obs, attempts, result>>
  BY DEF Act
<1>2. /\ Steps' = Steps /\ SearchStep' = c /\ Member' = Member /\ (Known' <=> Known)
      /\ page'.slow = page.slow
  BY ServeFrame
<1>3. c \in Nat /\ i \in Nat /\ Searching(Steps, c) /\ Reaches /\ Waits
      /\ result.status = "running"
  BY <1>1, ServedRecipe DEF ServeContext, ServeInv
<1>4. /\ i < c =>
           /\ nav' = NoNav /\ page'.path = "search"
           /\ page'.box = Member \/ (page'.box = page.box /\ ~Fills(Steps[i]))
      /\ i = c =>
           \/ /\ page' = page /\ page.slow /\ page.box = Member
              /\ nav' # NoNav /\ nav'.to = Member /\ nav'.attempts \in Nat
              /\ nav'.attempts < SlowAttempts
           \/ page'.path = "member" /\ page'.member = Member /\ nav' = NoNav
      /\ i > c => UNCHANGED <<page, nav>>
  BY ServedActs
<1>5. attempts = 0
  BY <1>1, <1>3 DEF Waits
<1>6. Typed' => Typed \/ Fills(Steps[i])
  BY <1>1, <1>2 DEF Typed
<1> HIDE DEF c
<1>7. CASE i < c
  <2>1. Typed' => page'.box = Member
    <3>1. page.path = "search"
      BY <1>3, <1>7 DEF Reaches, c
    <3> QED
      BY <1>3, <1>4, <1>6, <1>7, <3>1 DEF Reaches
  <2>2. ~(i > c) /\ i # c
    BY <1>3, <1>7
  <2>3. Reaches'
    BY <1>1, <1>2, <1>4, <1>7, <2>1, <2>2 DEF Reaches
  <2>4. Waits'
    BY <1>1, <1>2, <1>5, <2>2 DEF Waits
  <2> QED
    BY <1>1, <1>3, <2>3, <2>4 DEF ServeInv, Watches
<1>8. CASE i = c
  <2>1. ~(i > c) /\ ~(i < c)
    BY <1>3, <1>8
  <2>0. page.path = "search"
    BY <1>1, <1>3, <1>8 DEF Reaches, c
  <2>2. Reaches'
    BY <1>1, <1>2, <1>4, <1>8, <2>0, <2>1 DEF Reaches
  <2>3. page'.path = "search" =>
          nav' # NoNav /\ nav'.attempts \in Nat /\ nav'.attempts < SlowAttempts
    BY <1>4, <1>8
  <2>4. page'.path = "search" =>
          nav' # NoNav /\ nav'.attempts + attempts' + (IF pc' = "waited" THEN 1 ELSE 0) < SlowAttempts
    BY <1>1, <1>5, <2>3
  <2>5. Waits'
    BY <1>1, <1>2, <1>5, <1>8, <2>4 DEF Waits
  <2> QED
    BY <1>1, <1>3, <2>2, <2>5 DEF ServeInv, Watches
<1>9. CASE i > c
  <2>1. ~(i < c) /\ i # c
    BY <1>3, <1>9
  <2>2. Known /\ page.path = "member" /\ page.member = Member /\ nav = NoNav
    BY <1>3, <1>9 DEF Reaches, c
  <2>3. Reaches'
    BY <1>1, <1>2, <1>4, <1>9, <2>1, <2>2 DEF Reaches
  <2>4. Waits'
    BY <1>1, <1>2, <1>5, <2>1 DEF Waits
  <2> QED
    BY <1>1, <1>3, <2>3, <2>4 DEF ServeInv, Watches
<1> QED
  BY <1>3, <1>7, <1>8, <1>9

(* A wait of the search brings the page nearer, or there.                  *)
LEMMA ServeWaits ==
  ASSUME ServeContext, Replaying, Retry, WaitBriefly(page, nav)
  PROVE  ServeInv'
<1>1. /\ pc = "await" /\ pc' = "waited" /\ UNCHANGED <<i, obs, attempts, result>>
      /\ ~Check(obs, Expected)
  BY DEF Retry
<1>2. /\ Steps' = Steps /\ SearchStep' = SearchStep /\ Member' = Member /\ (Known' <=> Known)
      /\ page'.slow = page.slow
  BY ServeFrame
<1>3. i = SearchStep
  BY <1>1, OnlySearchWaits
<1>4. /\ SearchStep \in Nat /\ i \in Nat /\ Reaches /\ Waits /\ attempts \in Nat
      /\ result.status = "running"
  BY <1>1, ServedRecipe DEF ServeContext, ServeInv, Waits
<1>5. ~(i < SearchStep) /\ ~(i > SearchStep)
  BY <1>3, <1>4
<1>6. Typed' = Typed
  BY <1>1, <1>2 DEF Typed
<1>7. /\ page \in OwnPage /\ page.path \in {"search", "member"}
      /\ nav # NoNav => nav \in OwnNav /\ page.path = "search"
  BY ServedPages
<1>8. CASE nav = NoNav
  <2>1. page' = page /\ nav' = NoNav
    BY <1>8 DEF WaitBriefly
  <2>2. page.path = "member"
    BY <1>1, <1>3, <1>4, <1>7, <1>8 DEF Waits
  <2>3. Reaches'
    BY <1>1, <1>2, <1>3, <1>4, <1>5, <1>6, <2>1, <2>2 DEF Reaches
  <2>4. Waits'
    BY <1>1, <1>2, <1>3, <1>4, <2>1, <2>2 DEF Waits
  <2> QED
    BY <1>1, <1>4, <2>3, <2>4 DEF ServeInv, Watches
<1>9. CASE nav # NoNav /\ page'.path = "member" /\ nav' = NoNav
  <2>1. page'.member = nav.to
    <3>1. page.path = "search" /\ page'.path # "search"
      BY <1>7, <1>9
    <3>2. page' = page \/ page' = MemberPage(nav.to, nav.slow, nav.hide)
      BY <1>7, <1>9, WaitArrives
    <3>3. page' = MemberPage(nav.to, nav.slow, nav.hide)
      BY <3>1, <3>2
    <3> QED
      BY <3>3 DEF MemberPage
  <2>2. Reaches'
    BY <1>1, <1>2, <1>4, <1>5, <1>9, <2>1 DEF Reaches
  <2>3. Waits'
    BY <1>1, <1>2, <1>3, <1>4, <1>9 DEF Waits
  <2> QED
    BY <1>1, <1>4, <2>2, <2>3 DEF ServeInv, Watches
<1>10. CASE /\ nav # NoNav /\ page' = page /\ nav' # NoNav
            /\ nav.attempts \in Nat /\ nav.attempts >= 2 /\ nav'.attempts = nav.attempts - 1
  <2>1. nav'.to = nav.to
    BY <1>7, <1>10, WaitArrives DEF OwnNav
  <2>2. Reaches'
    BY <1>1, <1>2, <1>4, <1>5, <1>6, <1>7, <1>10, <2>1 DEF Reaches
  <2>3. nav.attempts + attempts < SlowAttempts /\ SlowAttempts \in Nat
    BY <1>1, <1>3, <1>4, <1>7, <1>10, SlowAttemptsAssumption DEF Waits
  <2>4. nav'.attempts + attempts' + (IF pc' = "waited" THEN 1 ELSE 0) < SlowAttempts
    <3>1. nav'.attempts + attempts + 1 < SlowAttempts
      BY <1>4, <1>10, <2>3
    <3> QED
      BY <1>1, <3>1
  <2>5. Waits'
    BY <1>1, <1>2, <1>3, <1>4, <1>10, <2>4 DEF Waits
  <2> QED
    BY <1>1, <1>4, <2>2, <2>5 DEF ServeInv, Watches
<1> QED
  BY <1>7, <1>8, <1>9, <1>10, WaitShortens

(* What perceive() shows is what is there.                                 *)
LEMMA ServeLooks ==
  ASSUME ServeContext, Replaying, Looking, UNCHANGED world
  PROVE  ServeInv'
<1>1. /\ UNCHANGED <<page, nav, i, result>> /\ obs' = LivePerceive(page)
      /\ ~TrustPaused(LivePerceive(page))
      /\ \/ pc = "perceive" /\ pc' = "dismiss" /\ attempts' = attempts
         \/ pc = "step" /\ i = Goal /\ pc' = "await" /\ attempts' = 0
         \/ pc = "waited" /\ pc' = "await" /\ attempts' = attempts + 1
  BY ServedRecipe DEF ServeContext, Looking, Perceive, TrustPaused, FinalLook, AfterWait, world
<1>2. /\ Steps' = Steps /\ SearchStep' = SearchStep /\ Member' = Member /\ (Known' <=> Known)
      /\ Goal' = Goal
  BY ServeFrame
<1>3. /\ SearchStep \in Nat /\ i \in Nat /\ SearchStep < Goal /\ Goal \in Nat
      /\ Reaches /\ Waits /\ attempts \in Nat /\ result.status = "running"
      /\ SlowAttempts \in Nat
  BY <1>1, ServedRecipe, SlowAttemptsAssumption DEF ServeContext, ServeInv, Waits
<1>4. Typed' => Typed \/ i = Goal
  BY <1>1, <1>2 DEF Typed
<1>5. i = Goal => i > SearchStep
  BY <1>3
<1>6. ~(i = SearchStep /\ pc = "step" /\ i = Goal)
  BY <1>3
<1>7. Reaches'
  BY <1>1, <1>2, <1>3, <1>4, <1>5 DEF Reaches
<1>8. obs'.screen = "search" => page.path = "search"
  <2>1. page.path = "member" => LivePerceive(page).screen \in {"detail", "not_found"}
    BY ServedPages
  <2> QED
    BY <1>1, <2>1, ServedPages
<1>9. page.path = "search" => (nav # NoNav => nav.attempts \in Nat /\ nav.attempts >= 1)
  BY ServedPages
<1>10. CASE pc = "perceive" /\ pc' = "dismiss" /\ attempts' = attempts
  <2>1. attempts = 0
    BY <1>3, <1>10 DEF Waits
  <2>2. i = SearchStep /\ page.path = "search" =>
          nav # NoNav /\ nav.attempts < SlowAttempts /\ 2 <= SlowAttempts
    BY <1>3, <1>9, <1>10, <2>1 DEF Waits
  <2>3. i = SearchStep /\ page.path = "search" =>
          nav' # NoNav
          /\ nav'.attempts + attempts' + (IF pc' = "waited" THEN 1 ELSE 0) < SlowAttempts
    BY <1>1, <1>9, <1>10, <2>1, <2>2
  <2>4. i = SearchStep /\ obs'.screen = "search" => attempts' + 2 <= SlowAttempts
    BY <1>8, <1>10, <2>1, <2>2
  <2>5. Waits'
    BY <1>1, <1>2, <1>3, <1>10, <2>1, <2>3, <2>4 DEF Waits
  <2> QED
    BY <1>1, <1>3, <1>7, <1>10, <2>5 DEF ServeInv, Watches
<1>11. CASE pc = "step" /\ i = Goal /\ pc' = "await" /\ attempts' = 0
  <2>1. i # SearchStep
    BY <1>3, <1>11
  <2>2. Waits'
    BY <1>1, <1>2, <1>11, <2>1 DEF Waits
  <2> QED
    BY <1>1, <1>3, <1>7, <1>11, <2>2 DEF ServeInv, Watches
<1>12. CASE pc = "waited" /\ pc' = "await" /\ attempts' = attempts + 1
  <2>1. i = SearchStep
    BY <1>3, <1>12 DEF Waits
  <2>2. page.path = "search" => nav # NoNav /\ nav.attempts + attempts + 1 < SlowAttempts
    BY <1>3, <1>12, <2>1 DEF Waits
  <2>3. page.path = "search" =>
          nav' # NoNav
          /\ nav'.attempts + attempts' + (IF pc' = "waited" THEN 1 ELSE 0) < SlowAttempts
    <3>1. page.path = "search" => nav.attempts + (attempts + 1) + 0 < SlowAttempts
      BY <1>3, <1>9, <2>2
    <3> QED
      BY <1>1, <1>12, <2>2, <3>1
  <2>4. obs'.screen = "search" => attempts' + 2 <= SlowAttempts
    <3>1. page.path = "search" => attempts + 1 + 2 <= SlowAttempts
      BY <1>3, <1>9, <2>2
    <3> QED
      BY <1>8, <1>12, <3>1
  <2>5. attempts' \in Nat
    BY <1>3, <1>12
  <2>6. ~Known => page.slow
    BY <1>3, <1>12, <2>1 DEF Waits
  <2>7. Waits'
    BY <1>1, <1>2, <1>12, <2>1, <2>3, <2>4, <2>5, <2>6 DEF Waits
  <2> QED
    BY <1>1, <1>3, <1>7, <1>12, <2>7 DEF ServeInv, Watches
<1> QED
  BY <1>1, <1>10, <1>11, <1>12

(* The run ends, and how it does is one of the ways that it may.           *)
LEMMA ServeEnds ==
  ASSUME ServeContext, Replaying, UNCHANGED <<page, nav, i>>, pc \notin {"step", "done"},
         pc' = "done", result'.status # "running", Served', attempts' \in {0, attempts}
  PROVE  ServeInv'
<1>1. /\ Steps' = Steps /\ SearchStep' = SearchStep /\ Member' = Member /\ (Known' <=> Known)
  BY ServeFrame
<1>2. Reaches /\ Waits
  BY DEF ServeContext, ServeInv
<1>3. Typed' = Typed
  BY <1>1 DEF Typed
<1>4. Reaches'
  BY <1>1, <1>2, <1>3 DEF Reaches
<1>5. Waits'
  BY <1>1, <1>2 DEF Waits
<1> QED
  BY <1>4, <1>5 DEF ServeInv, Watches

(* The not-found page is recognised for a member that the bank has not.    *)
LEMMA ServeAnswers ==
  ASSUME ServeContext, Replaying, BusinessOutcome, UNCHANGED world
  PROVE  ServeInv'
<1>1. /\ pc = "dismiss" /\ pc' = "done" /\ result'.status = "business_outcome"
      /\ UNCHANGED <<i, obs, attempts, page, nav>>
      /\ \E k \in DOMAIN Artifact.known_outcomes : Check(obs, Artifact.known_outcomes[k].detect)
  BY DEF BusinessOutcome, Return, FirstMatch, world
<1>2. obs.screen = "not_found"
  BY <1>1, ServedRecipe, Checks DEF ServeContext
<1>3. page.path = "search" => LivePerceive(page).screen = "search"
  BY ServedPages
<1>4. obs = LivePerceive(page)
  BY <1>1, <1>2, ServedPages DEF ServeContext, ServeInv, Watches
<1>5. ~Known
  BY <1>2, <1>3, <1>4, ServedPages
<1>6. Served'
  BY <1>1, <1>5, ServeFrame DEF Served
<1> QED
  BY <1>1, <1>6, ServeEnds

(* Where no outcome shows, the engine goes on to the checkpoint.           *)
LEMMA ServeGoesOn ==
  ASSUME ServeContext, Replaying, NoOutcome, UNCHANGED world
  PROVE  ServeInv'
<1>1. /\ pc = "dismiss" /\ pc' = "await" /\ attempts' = 0
      /\ UNCHANGED <<i, obs, result, page, nav>>
      /\ \A k \in DOMAIN Artifact.known_outcomes : ~Check(obs, Artifact.known_outcomes[k].detect)
  BY DEF NoOutcome, Matches, world
<1>2. obs.screen # "not_found"
  BY <1>1, ServedRecipe, Checks DEF ServeContext
<1>3. /\ Steps' = Steps /\ SearchStep' = SearchStep /\ Member' = Member /\ (Known' <=> Known)
  BY ServeFrame
<1>4. Reaches /\ Waits /\ Watches /\ result.status = "running" /\ attempts = 0
  BY <1>1 DEF ServeContext, ServeInv, Waits
<1>5. Typed' = Typed
  BY <1>1, <1>3 DEF Typed
<1>6. Reaches'
  BY <1>1, <1>3, <1>4, <1>5 DEF Reaches
<1>7. i = SearchStep /\ ~Known => page.slow
  <2> SUFFICES ASSUME i = SearchStep, ~Known, ~page.slow PROVE FALSE
    OBVIOUS
  <2>1. obs = LivePerceive(page)
    BY <1>1, <1>4 DEF Watches
  <2>2. page.path = "search"
    BY <1>2, <2>1, ServedPages
  <2>3. nav # NoNav
    BY <1>1, <1>4, <2>2 DEF Waits
  <2> QED
    BY <1>4, <2>3 DEF Reaches
<1>8. Waits'
  BY <1>1, <1>3, <1>4, <1>7 DEF Waits
<1>9. Watches'
  BY <1>1, <1>3, <1>4 DEF Watches
<1> QED
  BY <1>1, <1>4, <1>6, <1>8, <1>9 DEF ServeInv

(* The engine gives a member up that the bank has not, on a slow page; one *)
(* that it has is there before.                                            *)
LEMMA ServeGivesUp ==
  ASSUME ServeContext, Replaying, GiveUp, UNCHANGED world
  PROVE  ServeInv'
<1>1. /\ pc = "await" /\ pc' = "done" /\ result'.status \in {"paused", "failure"}
      /\ ~Check(obs, Expected) /\ attempts = MAX_SLOW_RETRIES /\ attempts' = 0
      /\ UNCHANGED <<i, obs, page, nav>>
  BY DEF GiveUp, Fail, Return, world
<1>2. i = SearchStep
  BY <1>1, OnlySearchWaits
<1>3. obs.screen # "detail"
  BY <1>1, <1>2, ServedRecipe, Checks DEF ServeContext
<1>4. Waits /\ Watches
  BY DEF ServeContext, ServeInv
<1>5. ASSUME Known PROVE FALSE
  <2>1. obs.screen = "search"
    BY <1>1, <1>3, <1>4, <1>5, ServedPages DEF Watches
  <2>2. attempts + 2 <= SlowAttempts
    BY <1>1, <1>2, <1>4, <2>1 DEF Waits
  <2>3. SlowAttempts <= MAX_SLOW_RETRIES + 1 /\ MAX_SLOW_RETRIES \in Nat /\ SlowAttempts \in Nat
    BY SlowBankAssumption, BoundsAssumption, SlowAttemptsAssumption
  <2> QED
    BY <1>1, <2>2, <2>3
<1>6. page.slow
  BY <1>1, <1>2, <1>4, <1>5 DEF Waits
<1>7. Served'
  BY <1>1, <1>5, <1>6, ServeFrame DEF Served, Stuck
<1> QED
  BY <1>1, <1>7, ServeEnds

(* The checkpoint holds: past the search, the member's page is there.      *)
LEMMA ServeStepDone ==
  ASSUME ServeContext, Replaying, StepDone, UNCHANGED world
  PROVE  ServeInv'
<1>1. /\ pc = "await" /\ pc' = "step" /\ attempts' = 0 /\ i' = i + 1 /\ i < Goal
      /\ Check(obs, Expected) /\ UNCHANGED <<obs, result, page, nav>>
  BY DEF StepDone, world
<1>2. /\ Steps' = Steps /\ SearchStep' = SearchStep /\ Member' = Member /\ (Known' <=> Known)
  BY ServeFrame
<1>3. /\ SearchStep \in Nat /\ i \in Nat /\ Len(Steps) \in Nat
      /\ DOMAIN Steps = 1..Len(Steps)
  BY ServedRecipe DEF ServeContext, LiveInv, Within
<1>4. Reaches /\ Waits /\ Watches /\ result.status = "running"
  BY <1>1 DEF ServeContext, ServeInv
<1>5. i = SearchStep => Known /\ page.path = "member"
  <2> SUFFICES ASSUME i = SearchStep PROVE Known /\ page.path = "member"
    OBVIOUS
  <2>1. obs.screen = "detail"
    BY <1>1, ServedRecipe, Checks DEF ServeContext
  <2> QED
    BY <1>1, <1>4, <2>1, ServedPages DEF Watches
<1>6. Typed' => Typed
  <2>1. \A k \in DOMAIN Steps : k < i + 1 => k < i \/ k = i
    BY <1>3
  <2> QED
    BY <1>1, <1>2, <2>1 DEF Typed
<1>7. /\ i' > SearchStep => i > SearchStep \/ i = SearchStep
      /\ i' < SearchStep \/ i' = SearchStep => i < SearchStep
  BY <1>1, <1>3
<1>8. Reaches'
  BY <1>1, <1>2, <1>4, <1>5, <1>6, <1>7 DEF Reaches
<1>9. Waits'
  BY <1>1 DEF Waits
<1> QED
  BY <1>1, <1>4, <1>8, <1>9 DEF ServeInv, Watches

(* A success has the balance.                                              *)
LEMMA ServeSucceeds ==
  ASSUME ServeContext, Replaying, Succeed, UNCHANGED world
  PROVE  ServeInv'
<1>1. /\ pc = "await" /\ pc' = "done" /\ result'.status = "success" /\ attempts' = 0
      /\ i = Goal /\ Check(obs, Expected) /\ UNCHANGED <<i, page, nav>>
      /\ result'.outputs = OutputsOf(Artifact, obs)
  BY DEF Succeed, Return, world
<1>2. "savings_balance" \in DOMAIN obs.fields /\ "savings_balance" \in Artifact.outputs
  BY <1>1, ServedRecipe, Checks DEF ServeContext
<1>3. "savings_balance" \in DOMAIN result'.outputs
  BY <1>1, <1>2 DEF OutputsOf
<1>4. Known
  <2>1. i > SearchStep
    BY <1>1, ServedRecipe DEF ServeContext
  <2> QED
    BY <2>1 DEF ServeContext, ServeInv, Reaches
<1>5. Served'
  BY <1>1, <1>3, <1>4, ServeFrame DEF Served
<1> QED
  BY <1>1, <1>5, ServeEnds

(* perceive() raises on a slow page only.                                  *)
LEMMA ServeRaises ==
  ASSUME ServeContext, Replaying, PerceiveRaises
  PROVE  ServeInv'
<1>1. /\ pc' = "done" /\ result'.status = "raised" /\ nav # NoNav
      /\ UNCHANGED <<i, attempts, page, nav>> /\ DriverCall
  BY DEF PerceiveRaises, DriverRaises, Running, world
<1>2. page.slow
  BY <1>1 DEF ServeContext, ServeInv, Reaches
<1>3. Served'
  BY <1>1, <1>2, ServeFrame DEF Served
<1>4. pc \notin {"step", "done"}
  <2>1. pc # "done"
    BY DEF Replaying
  <2>2. ASSUME pc = "step" PROVE FALSE
    <3>1. i < SearchStep \/ i = SearchStep \/ i > SearchStep
      BY ServedRecipe DEF ServeContext
    <3> QED
      BY <1>1, <2>2, <3>1 DEF ServeContext, ServeInv, Reaches
  <2> QED
    BY <2>1, <2>2
<1> QED
  BY <1>1, <1>3, <1>4, ServeEnds

(* The slow page comes: it is the member's.                                *)
LEMMA ServeCommits ==
  ASSUME ServeContext, Replaying, NavCommit
  PROVE  ServeInv'
<1>1. /\ nav # NoNav /\ nav' = NoNav /\ page' = MemberPage(nav.to, nav.slow, nav.hide)
      /\ UNCHANGED <<i, pc, obs, attempts, result>> /\ pc # "done"
  BY DEF NavCommit, NavCommits, Commit, Replaying, vars
<1>2. /\ Steps' = Steps /\ SearchStep' = SearchStep /\ Member' = Member /\ (Known' <=> Known)
      /\ page'.slow = page.slow
  BY ServeFrame
<1>3. Reaches /\ Waits /\ Watches /\ page.path = "search"
  BY <1>1, ServedPages DEF ServeContext, ServeInv
<1>4. page'.path = "member" /\ page'.member = nav.to
  BY <1>1 DEF MemberPage
<1>5. i = SearchStep /\ pc # "step"
  <2>1. i < SearchStep \/ i = SearchStep \/ i > SearchStep
    BY ServedRecipe DEF ServeContext
  <2> QED
    BY <1>1, <1>3, <2>1 DEF Reaches
<1>6. ~(i < SearchStep) /\ ~(i > SearchStep)
  BY <1>5, ServedRecipe DEF ServeContext
<1>7. Reaches'
  BY <1>1, <1>2, <1>3, <1>4, <1>5, <1>6 DEF Reaches
<1>8. Waits'
  BY <1>1, <1>2, <1>3, <1>4 DEF Waits
<1>9. Watches'
  BY <1>1, <1>2, <1>3, <1>5, ServedPages DEF Watches, Reaches
<1> QED
  BY <1>1, <1>7, <1>8, <1>9 DEF ServeContext, ServeInv

(* The replay starts on the search page, at the first step.                *)
LEMMA ServeStarts ==
  ASSUME TripInv, ReviewInv, Fresh, StartReplay, TripInv', ReviewInv', Fresh', Serving'
  PROVE  ServeInv'
<1>1. /\ pc' = "step" /\ i' = 1 /\ nav' = NoNav /\ result'.status = "running" /\ attempts' = 0
  <2>1. /\ stage = "approved" /\ pc' = "step" /\ nav' = NoNav
        /\ UNCHANGED <<i, result, attempts>>
    BY DEF StartReplay
  <2>2. attempts = 0 /\ i = 1 /\ result = Running
    BY <2>1 DEF TripInv, Idle, Fresh
  <2> QED
    BY <2>1, <2>2 DEF Running
<1>2. PICK slow \in BOOLEAN, hide \in BOOLEAN : page' = SearchPage(slow, hide)
  BY DEF StartReplay
<1>3. page'.path = "search"
  BY <1>2 DEF SearchPage
<1>4. (SearchStep \in Nat /\ SearchStep >= 1 /\ Len(Steps) \in Nat /\ LiveInv)'
  BY ServedRecipe, PTL
<1>5. /\ SearchStep' \in Nat /\ SearchStep' >= 1 /\ Len(Steps)' \in Nat
      /\ (DOMAIN Steps = 1..Len(Steps))'
  BY <1>4 DEF LiveInv, Within
<1>6. ~Typed'
  BY <1>1, <1>5 DEF Typed
<1>7. ~(i' > SearchStep') /\ (i' < SearchStep' \/ i' = SearchStep')
  BY <1>1, <1>5
<1>8. Reaches'
  BY <1>1, <1>3, <1>6, <1>7 DEF Reaches
<1>9. Waits'
  BY <1>1 DEF Waits
<1> QED
  BY <1>1, <1>8, <1>9 DEF ServeInv, Watches

(* A step of the replay.                                                   *)
LEMMA ServeReplays ==
  ASSUME ServeContext, Replaying
  PROVE  ServeInv'
<1>1. CASE Act /\ LiveAct(Steps[i])
  BY <1>1, ServeActs
<1>2. CASE Retry /\ WaitBriefly(page, nav)
  BY <1>2, ServeWaits
<1>3. CASE Looking /\ UNCHANGED world
  BY <1>3, ServeLooks
<1>4. CASE Deciding /\ UNCHANGED world
  BY <1>4, ServeAnswers, ServeGoesOn, ServeGivesUp, ServeStepDone, ServeSucceeds DEF Deciding
<1>5. CASE PerceiveRaises
  BY <1>5, ServeRaises
<1>6. CASE NavCommit
  BY <1>6, ServeCommits
<1>7. LiveEngineStep \/ PerceiveRaises \/ NavCommit
  BY DEF Replaying
<1> QED
  BY <1>1, <1>2, <1>3, <1>4, <1>5, <1>6, <1>7 DEF LiveEngineStep

(* A reviewed recipe keeps to what it is to do.                            *)
LEMMA ServeStep ==
  ASSUME TripInv, ReviewInv, Fresh, Serving => ServeInv, [TripNext]_tripVars,
         TripInv', ReviewInv', Fresh', Serving'
  PROVE  ServeInv'
<1>1. CASE StartReplay
  BY <1>1, ServeStarts
<1>2. CASE Replaying
  <2>1. Serving
    BY <1>2, ReplayFrame DEF Serving
  <2> QED
    BY <1>2, <2>1, ServeReplays DEF ServeContext
<1>3. CASE Discovering \/ PageArrives \/ WriteEvidence \/ Merge \/ RefuseMerge
  <2>1. stage' # "replay"
    BY <1>3 DEF Discovering, PageArrives, WriteEvidence, Merge, RefuseMerge, trip
  <2> QED
    BY <2>1 DEF Serving
<1>4. CASE UNCHANGED tripVars
  <2>1. UNCHANGED <<task, pc, i, obs, attempts, result, inputs, drifted, page, nav, stage, review>>
    BY <1>4 DEF tripVars, vars, trip
  <2>2. /\ Steps' = Steps /\ SearchStep' = SearchStep /\ Member' = Member /\ (Known' <=> Known)
    BY <2>1 DEF Steps, Artifact, SearchStep, Member, Known
  <2>3. Serving
    BY <2>1 DEF Serving
  <2>4. Typed' = Typed
    BY <2>1, <2>2 DEF Typed
  <2>5. Reaches'
    BY <2>1, <2>2, <2>3, <2>4 DEF ServeInv, Reaches
  <2>6. Waits'
    BY <2>1, <2>2, <2>3 DEF ServeInv, Waits
  <2>7. Watches'
    BY <2>1, <2>2, <2>3 DEF ServeInv, Watches
  <2>8. Served <=> Served'
    BY <2>1, <2>2 DEF Served, Stuck
  <2> QED
    BY <2>1, <2>3, <2>5, <2>6, <2>7, <2>8 DEF ServeInv
<1> QED
  BY <1>1, <1>2, <1>3, <1>4 DEF TripNext

ServingServes == Serving => ServeInv

LEMMA ServeInvariant ==
  TripSpec => [](TripInv /\ ReviewInv /\ Fresh /\ ServingServes)
<1>1. TripInit => ServingServes
  BY DEF TripInit, ServingServes, Serving
<1>2. /\ TripInv /\ ReviewInv /\ Fresh /\ ServingServes /\ [TripNext]_tripVars
      /\ TripInv' /\ ReviewInv' /\ Fresh'
      => ServingServes'
  BY ServeStep DEF ServingServes
<1>3. TripSpec => []Fresh
  BY FreshInit, FreshStep, TripInvariant, PTL DEF TripSpec
<1> QED
  BY <1>1, <1>2, <1>3, TripInvariant, ReviewInvariant, PTL DEF TripSpec

(* A recipe whose drafts were reviewed serves every member, on fast and on *)
(* slow pages: run_replay.py answers with the balance of a known one and   *)
(* with the business outcome for an unknown one.                           *)
THEOREM TripServes == TripSpec => []ReviewedRecipeServes
<1>1. ServingServes => ReviewedRecipeServes
  <2> SUFFICES ASSUME ServingServes, stage = "replay", Ended, review.sound, ~page.hide,
                      drifted \subseteq {"button::Search"}
               PROVE  \/ Known /\ result.status = "success"
                            /\ "savings_balance" \in DOMAIN result.outputs
                      \/ ~Known /\ result.status = "business_outcome"
                      \/ page.slow /\ (result.status = "raised" \/ (~Known /\ Stuck))
    BY DEF ReviewedRecipeServes
  <2>1. ServeInv
    BY DEF ServingServes, Serving
  <2> QED
    BY <2>1 DEF ServeInv, Ended, Served
<1> QED
  BY <1>1, ServeInvariant, PTL

-----------------------------------------------------------------------------
(* The rungs of the replay.  What counts acts does so for every step, a    *)
(* balance that was seen is on a page that shows it, and a success comes   *)
(* after the last step.                                                    *)
CountsAndSees ==
  stage = "replay" =>
    /\ acted \in [DOMAIN Steps -> Nat]
    /\ "savings_balance" \in DOMAIN obs.fields => ~page.hide
    /\ result.status = "success" => i = Goal

(* What the engine's step does to the counts, the observation and the      *)
(* result.                                                                 *)
LEMMA CountFrame ==
  ASSUME Replaying
  PROVE  /\ \/ Act /\ LiveAct(Steps[i])
            \/ ~Act /\ acted' = acted
         /\ \/ obs' = obs
            \/ obs' = LivePerceive(page) /\ page' = page
         /\ \/ UNCHANGED result
            \/ result'.status # "success"
            \/ i = Goal /\ UNCHANGED i
<1>1. LiveEngineStep \/ PerceiveRaises \/ NavCommit
  BY DEF Replaying
<1>2. CASE Act /\ LiveAct(Steps[i])
  BY <1>2 DEF Act
<1>3. CASE Retry
  BY <1>3 DEF Retry, Act
<1>4. CASE Looking /\ UNCHANGED world
  <2>1. obs' = LivePerceive(page) /\ acted' = acted /\ pc' # "perceive" /\ UNCHANGED result
    BY <1>4 DEF Looking, Perceive, TrustPaused, FinalLook, AfterWait
  <2> QED
    BY <1>4, <2>1 DEF world, Act
<1>5. CASE Deciding
  <2>1. ~Act /\ UNCHANGED <<acted, obs>>
    BY <1>5 DEF Deciding, BusinessOutcome, NoOutcome, GiveUp, StepDone, Succeed, Act
  <2>2. CASE BusinessOutcome \/ GiveUp
    <3>1. result'.status # "success"
      BY <2>2 DEF BusinessOutcome, GiveUp, Fail, Return
    <3> QED
      BY <2>1, <3>1
  <2>3. CASE NoOutcome \/ StepDone
    BY <2>1, <2>3 DEF NoOutcome, StepDone
  <2>4. CASE Succeed
    BY <2>1, <2>4 DEF Succeed
  <2> QED
    BY <1>5, <2>2, <2>3, <2>4 DEF Deciding
<1>6. CASE PerceiveRaises
  BY <1>6 DEF PerceiveRaises, DriverRaises, Running, Act
<1>7. CASE NavCommit
  <2>1. UNCHANGED <<pc, obs, acted, result>>
    BY <1>7 DEF NavCommit, vars
  <2> QED
    BY <2>1 DEF Act
<1> QED
  BY <1>1, <1>2, <1>3, <1>4, <1>5, <1>6, <1>7 DEF LiveEngineStep

LEMMA CountStep ==
  ASSUME TripInv, Fresh, CountsAndSees, [TripNext]_tripVars
  PROVE  CountsAndSees'
<1>1. CASE StartReplay
  <2>1. PICK recipe \in approved :
          task'.artifact = recipe /\ acted' = [k \in DOMAIN recipe.steps |-> 0]
    BY <1>1 DEF StartReplay
  <2>2. acted' \in [DOMAIN recipe.steps -> Nat] /\ Steps' = recipe.steps
    BY <2>1 DEF Steps, Artifact
  <2>3. obs' = NoObservation /\ result'.status = "running"
    <3>1. stage = "approved" /\ UNCHANGED <<obs, result>>
      BY <1>1 DEF StartReplay
    <3>2. obs = NoObservation /\ result = Running
      BY <3>1 DEF TripInv, Idle
    <3> QED
      BY <3>1, <3>2 DEF Running
  <2>4. DOMAIN obs'.fields = {}
    BY <2>3, NothingSeen
  <2> QED
    BY <2>2, <2>3, <2>4 DEF CountsAndSees
<1>2. CASE Replaying
  <2>1. stage = "replay" /\ Steps' = Steps /\ Goal' = Goal /\ page'.hide = page.hide
    BY <1>2, ReplayFrame
  <2>2. acted' \in [DOMAIN Steps' -> Nat]
    <3>1. CASE acted' = acted
      BY <2>1, <3>1 DEF CountsAndSees
    <3>2. CASE Act
      <4>1. acted' = [acted EXCEPT ![i] = acted[i] + 1]
        BY <3>2 DEF Act
      <4>2. acted \in [DOMAIN Steps -> Nat]
        BY <2>1 DEF CountsAndSees
      <4>3. \A k \in DOMAIN Steps : acted'[k] \in Nat
        BY <4>1, <4>2
      <4>4. acted' = [k \in DOMAIN Steps |-> acted'[k]]
        BY <4>1, <4>2
      <4> QED
        BY <2>1, <4>3, <4>4
    <3>3. acted' = acted \/ Act
      BY <1>2, CountFrame
    <3> QED
      BY <3>1, <3>2, <3>3
  <2>3. ASSUME "savings_balance" \in DOMAIN obs'.fields PROVE ~page'.hide
    <3>1. CASE obs' = obs
      BY <2>1, <2>3, <3>1 DEF CountsAndSees
    <3>2. CASE obs' = LivePerceive(page)
      <4>1. "savings_balance" \in Rows(page)
        BY <2>3, <3>2, OnePageRead
      <4> QED
        BY <2>1, <4>1 DEF Rows
    <3> QED
      BY <1>2, <3>1, <3>2, CountFrame
  <2>4. result'.status = "success" => i' = Goal'
    <3>1. result.status # "success"
      BY <1>2, ReplayFrame DEF LiveInv, MadeOfObs, Replaying
    <3> QED
      BY <1>2, <2>1, <3>1, CountFrame
  <2> QED
    BY <2>2, <2>3, <2>4 DEF CountsAndSees
<1>3. CASE Discovering \/ PageArrives \/ WriteEvidence \/ Merge \/ RefuseMerge
  <2>1. stage' # "replay"
    BY <1>3 DEF Discovering, PageArrives, WriteEvidence, Merge, RefuseMerge, trip
  <2> QED
    BY <2>1 DEF CountsAndSees
<1>4. CASE UNCHANGED tripVars
  <2>1. UNCHANGED <<task, acted, obs, result, i, page, stage>>
    BY <1>4 DEF tripVars, vars, trip
  <2> QED
    BY <2>1 DEF CountsAndSees, Goal, Steps, Artifact
<1> QED
  BY <1>1, <1>2, <1>3, <1>4 DEF TripNext

(* A ladder of three rungs at most is found on one of them.                *)
LEMMA OneRung ==
  ASSUME NEW ladder, DOMAIN ladder \subseteq 1..3, NEW p, NEW r,
         FoundAt(ladder, Present(p), r)
  PROVE  ladder # <<>> /\ ResolvedRung(ladder, p) = r
<1>1. r \in DOMAIN ladder /\ ladder[r].value \in Present(p)
  BY DEF FoundAt
<1>2. ASSUME NEW q \in DOMAIN ladder, FoundAt(ladder, Present(p), q) PROVE q = r
  <2>1. q \in 1..3 /\ r \in 1..3 /\ ladder[q].value \in Present(p)
    BY <1>1, <1>2 DEF FoundAt
  <2>2. q \notin 1..(r - 1)
    BY <2>1 DEF FoundAt
  <2>3. r \notin 1..(q - 1)
    BY <1>1, <1>2 DEF FoundAt
  <2> QED
    BY <2>1, <2>2, <2>3
<1>3. Resolves(ladder, p)
  BY <1>1 DEF Resolves
<1>4. ResolvedRung(ladder, p) = CHOOSE q \in DOMAIN ladder : FoundAt(ladder, Present(p), q)
  BY <1>3 DEF ResolvedRung
<1>5. ResolvedRung(ladder, p) = r
  BY <1>1, <1>2, <1>4
<1>6. DOMAIN <<>> = {}
  OBVIOUS
<1> QED
  BY <1>1, <1>5, <1>6

(* The step log of a replay that can be compared.                          *)
Comparing ==
  /\ Serving
  /\ review.compared
  /\ drifted = {}
  /\ Member = RecordedFor
  /\ \A k \in DOMAIN Steps : Steps[k].action # "wait"

(* The steps that have been carried out.                                   *)
Worked == IF pc = "step" \/ i = Goal THEN i - 1 ELSE i

RungsInv == Comparing => rung_log = [k \in 1..Worked |-> review.rungs[k]]

(* The control is looked for on the page that discovery found it on.       *)
LEMMA RungTried ==
  ASSUME ServeContext, Comparing, pc = "step", i < Goal
  PROVE  RungOf(Steps[i]) = <<review.rungs[i]>>
<1> DEFINE c == SearchStep
           target == Steps[i].target
           q == PageAt(i, c, RecordedFor)
<1>1. i \in DOMAIN Steps /\ i \in Nat /\ c \in Nat /\ Reaches
  BY ServedRecipe DEF ServeContext, ServeInv
<1>2. Compares(Artifact, review.rungs)
  BY DEF Comparing, Serving, ServeContext, ReviewInv, Fresh
<1>3. DOMAIN target \subseteq 1..3 /\ FoundAt(target, Shows(q), review.rungs[i])
  BY <1>1, <1>2 DEF Compares, Comparing, Steps, SearchStep
<1> HIDE DEF c, target
<1>4. Shows(page) = Shows(q)
  <2>1. CASE i <= c
    <3>1. page.path = "search"
      <4>1. i < c \/ i = c
        BY <1>1, <2>1
      <4> QED
        BY <1>1, <4>1 DEF Reaches, c
    <3>2. q = SearchPage(FALSE, FALSE)
      BY <2>1 DEF PageAt
    <3> QED
      BY <3>1, <3>2, SearchShows
  <2>2. CASE ~(i <= c)
    <3>1. i > c
      BY <1>1, <2>2
    <3>2. page.path = "member" /\ page.member = RecordedFor /\ ~page.hide
      BY <1>1, <3>1 DEF Reaches, Comparing, Serving, c
    <3>3. q = MemberPage(RecordedFor, FALSE, FALSE)
      BY <2>2 DEF PageAt
    <3> HIDE DEF q
    <3>4. q.path = "member" /\ q.member = RecordedFor /\ ~q.hide
      BY <3>3 DEF MemberPage
    <3>5. Rows(page) = Rows(q)
      BY <3>2, <3>4 DEF Rows
    <3> QED
      BY <3>2, <3>4, <3>5 DEF Shows
  <2> QED
    BY <2>1, <2>2
<1>5. Present(page) = Shows(q)
  BY <1>4 DEF Present, Comparing
<1>6. target # <<>> /\ ResolvedRung(target, page) = review.rungs[i]
  BY <1>3, <1>5, OneRung
<1> QED
  BY <1>6 DEF RungOf, target

(* One more entry.                                                         *)
LEMMA OneMore ==
  ASSUME NEW n \in Nat, n >= 1, NEW f
  PROVE  [k \in 1..(n - 1) |-> f[k]] \o <<f[n]>> = [k \in 1..n |-> f[k]]
<1> DEFINE S == {f[k] : k \in 1..n}
           s == [k \in 1..(n - 1) |-> f[k]]
           t == [k \in 1..n |-> f[k]]
<1>1. n - 1 \in Nat /\ n \in 1..n /\ \A k \in 1..(n - 1) : k \in 1..n
  OBVIOUS
<1>2. s \in [1..(n - 1) -> S] /\ t \in [1..n -> S]
  BY <1>1
<1>3. s \in Seq(S) /\ t \in Seq(S)
  BY <1>1, <1>2, SeqDef
<1>4. Len(s) = n - 1 /\ Len(t) = n
  BY <1>1, <1>3, LenProperties
<1>5. /\ \A k \in 1..(n - 1) : s[k] = f[k]
      /\ \A k \in 1..n : t[k] = f[k]
  OBVIOUS
<1>6. f[n] \in S
  BY <1>1
<1> HIDE DEF s, t, S
<1>7. /\ Append(s, f[n]) \in Seq(S) /\ Len(Append(s, f[n])) = n
      /\ \A k \in 1..(n - 1) : Append(s, f[n])[k] = f[k]
      /\ Append(s, f[n])[n] = f[n]
  <2>1. /\ Append(s, f[n]) \in Seq(S) /\ Len(Append(s, f[n])) = Len(s) + 1
        /\ \A k \in 1..Len(s) : Append(s, f[n])[k] = s[k]
        /\ Append(s, f[n])[Len(s) + 1] = f[n]
    BY <1>3, <1>6, AppendProperties
  <2>2. Len(s) + 1 = n
    BY <1>4
  <2> QED
    BY <1>4, <1>5, <2>1, <2>2
<1>8. \A k \in 1..n : Append(s, f[n])[k] = t[k]
  <2>1. \A k \in 1..n : k \in 1..(n - 1) \/ k = n
    OBVIOUS
  <2> QED
    BY <1>1, <1>5, <1>7, <2>1
<1>9. Append(s, f[n]) = t
  BY <1>3, <1>4, <1>7, <1>8, SeqEqual
<1>10. s \o <<f[n]>> = Append(s, f[n])
  BY <1>3, <1>6, AppendIsConcat
<1> QED
  BY <1>9, <1>10 DEF s, t

(* Only an act works one more step off.                                    *)
LEMMA WorkedKept ==
  ASSUME ServeContext, Replaying, ~Act
  PROVE  Worked' = Worked
<1>1. Goal' = Goal /\ SearchStep < Goal /\ Goal \in Nat /\ i \in Nat
  BY ServeFrame, ServedRecipe DEF ServeContext
<1>2. CASE UNCHANGED i /\ (pc' = "step" <=> pc = "step")
  BY <1>1, <1>2 DEF Worked
<1>3. CASE UNCHANGED i /\ pc = "step" /\ i = Goal
  BY <1>1, <1>3 DEF Worked
<1>4. CASE pc = "await" /\ pc' = "step" /\ i' = i + 1 /\ i < Goal
  <2>1. Worked = i /\ Worked' = (i + 1) - 1
    BY <1>1, <1>4 DEF Worked
  <2> QED
    BY <1>1, <2>1
<1>5. LiveEngineStep \/ PerceiveRaises \/ NavCommit
  BY DEF Replaying
<1>6. CASE Retry
  BY <1>2, <1>6 DEF Retry
<1>7. CASE Looking
  <2>1. ~TrustPaused(LivePerceive(page))
    BY ServedRecipe DEF ServeContext, TrustPaused
  <2> QED
    BY <1>2, <1>3, <1>7, <2>1 DEF Looking, Perceive, FinalLook, AfterWait
<1>8. CASE StepDone
  BY <1>4, <1>8 DEF StepDone
<1>9. CASE BusinessOutcome \/ NoOutcome \/ GiveUp \/ Succeed
  BY <1>2, <1>9 DEF BusinessOutcome, NoOutcome, GiveUp, Fail, Succeed, Return
<1>10. CASE PerceiveRaises
  <2>1. nav # NoNav /\ UNCHANGED i /\ pc' = "done" /\ DriverCall
    BY <1>10 DEF PerceiveRaises, DriverRaises
  <2>2. ASSUME pc = "step" PROVE FALSE
    <3>1. i < SearchStep \/ i = SearchStep \/ i > SearchStep
      BY ServedRecipe DEF ServeContext
    <3> QED
      BY <2>1, <2>2, <3>1 DEF ServeContext, ServeInv, Reaches
  <2> QED
    BY <1>2, <2>1, <2>2
<1>11. CASE NavCommit
  BY <1>2, <1>11 DEF NavCommit, vars
<1> QED
  BY <1>5, <1>6, <1>7, <1>8, <1>9, <1>10, <1>11 DEF LiveEngineStep, Deciding

(* Every act of a replay that can be compared logs the rung of its step.   *)
LEMMA RungsReplay ==
  ASSUME ServeContext, CountsAndSees, RungsInv, Replaying, Comparing'
  PROVE  rung_log' = [k \in 1..Worked' |-> review'.rungs[k]]
<1>1. /\ Steps' = Steps /\ Goal' = Goal /\ Member' = Member
      /\ UNCHANGED <<review, drifted, stage>>
  BY ReplayFrame DEF ServeContext
<1>2. Comparing
  BY <1>1 DEF Comparing, ServeContext
<1>3. rung_log = [k \in 1..Worked |-> review.rungs[k]]
  BY <1>2 DEF RungsInv
<1>4. CASE Act
  <2>1. /\ pc = "step" /\ pc' = "perceive" /\ i' = i /\ i < Goal
        /\ acted' = [acted EXCEPT ![i] = acted[i] + 1]
    BY <1>4 DEF Act
  <2>2. i \in Nat /\ i >= 1 /\ i \in DOMAIN Steps /\ Goal \in Nat
    BY <2>1, ServedRecipe DEF ServeContext
  <2>3. acted' # acted
    <3>1. acted \in [DOMAIN Steps -> Nat]
      BY <1>2 DEF CountsAndSees, Comparing, Serving
    <3>2. acted'[i] = acted[i] + 1 /\ acted[i] \in Nat
      BY <2>1, <2>2, <3>1
    <3> QED
      BY <3>2
  <2>4. rung_log' = rung_log \o RungOf(Steps[i])
    BY <2>3 DEF Replaying
  <2>5. RungOf(Steps[i]) = <<review.rungs[i]>>
    BY <1>2, <2>1, RungTried
  <2>6. Worked = i - 1 /\ Worked' = i
    BY <1>1, <2>1, <2>2 DEF Worked
  <2> DEFINE f == review.rungs
  <2>7. [k \in 1..(i - 1) |-> f[k]] \o <<f[i]>> = [k \in 1..i |-> f[k]]
    <3> HIDE DEF f
    <3> QED
      BY <2>2, OneMore
  <2> QED
    BY <1>1, <1>3, <2>4, <2>5, <2>6, <2>7
<1>5. CASE ~Act
  <2>1. acted' = acted
    BY <1>5, CountFrame
  <2>2. rung_log' = rung_log
    BY <2>1 DEF Replaying
  <2> QED
    BY <1>1, <1>3, <1>5, <2>2, WorkedKept
<1> QED
  BY <1>4, <1>5

LEMMA RungsStep ==
  ASSUME TripInv, ReviewInv, Fresh, ServingServes, CountsAndSees, RungsInv, [TripNext]_tripVars
  PROVE  RungsInv'
<1> SUFFICES ASSUME Comparing'
             PROVE  rung_log' = [k \in 1..Worked' |-> review'.rungs[k]]
  BY DEF RungsInv
<1>1. CASE StartReplay
  <2>1. /\ stage = "approved" /\ pc' = "step" /\ UNCHANGED <<i, rung_log>>
    BY <1>1 DEF StartReplay
  <2>2. i = 1 /\ rung_log = <<>>
    BY <2>1 DEF TripInv, Idle, Fresh
  <2>3. Worked' = 0
    BY <2>1, <2>2 DEF Worked
  <2>4. [k \in 1..0 |-> review'.rungs[k]] = <<>>
    OBVIOUS
  <2> QED
    BY <2>1, <2>2, <2>3, <2>4
<1>2. CASE Replaying
  <2>1. Serving
    BY <1>2, ReplayFrame DEF Comparing, Serving
  <2> QED
    BY <1>2, <2>1, RungsReplay DEF ServeContext, ServingServes
<1>3. CASE Discovering \/ PageArrives \/ WriteEvidence \/ Merge \/ RefuseMerge
  <2>1. stage' # "replay"
    BY <1>3 DEF Discovering, PageArrives, WriteEvidence, Merge, RefuseMerge, trip
  <2> QED
    BY <2>1 DEF Comparing, Serving
<1>4. CASE UNCHANGED tripVars
  <2>1. UNCHANGED <<task, pc, i, inputs, drifted, page, stage, review, rung_log>>
    BY <1>4 DEF tripVars, vars, trip
  <2>2. Comparing /\ Worked' = Worked
    BY <2>1 DEF Comparing, Serving, Worked, Steps, Artifact, Member, Goal
  <2> QED
    BY <2>1, <2>2 DEF RungsInv
<1> QED
  BY <1>1, <1>2, <1>3, <1>4 DEF TripNext

(* Replayed for the member it was recorded with, on the page that it was   *)
(* recorded on, a recipe resolves each control on the rung that discovery  *)
(* logged: the two step logs can be compared line by line.                 *)
THEOREM TripRungs == TripSpec => []SameRungs
<1>1. TripInit => CountsAndSees /\ RungsInv
  BY DEF TripInit, CountsAndSees, RungsInv, Comparing, Serving
<1>2. TripSpec => [](CountsAndSees /\ RungsInv)
  BY <1>1, ServeInvariant, CountStep, RungsStep, PTL DEF TripSpec
<1>3. TripInv /\ ReviewInv /\ Fresh /\ ServingServes /\ CountsAndSees /\ RungsInv => SameRungs
  <2> SUFFICES ASSUME TripInv, ReviewInv, Fresh, ServingServes, CountsAndSees, RungsInv,
                      stage = "replay", result.status = "success", Member = RecordedFor,
                      drifted = {}, review.sound, review.compared,
                      \A k \in DOMAIN Steps : Steps[k].action # "wait"
               PROVE  rung_log = review.rungs
    BY DEF SameRungs, RecordedFor
  <2>1. /\ Check(obs, Field("savings_balance")) /\ pc = "done" /\ Within
    BY DEF TripInv, LiveInv, MadeOfObs
  <2>2. ~page.hide
    BY <2>1, Checks DEF CountsAndSees
  <2>3. Serving
    BY <2>2 DEF Serving
  <2>4. Comparing
    BY <2>3 DEF Comparing
  <2>5. Compares(Artifact, review.rungs)
    BY DEF ReviewInv, Fresh
  <2>6. review.rungs = [k \in 1..Len(Steps) |-> review.rungs[k]]
    BY <2>1, <2>5 DEF Compares, Steps, Within
  <2>7. i = Goal
    BY DEF CountsAndSees
  <2>8. Worked = Len(Steps)
    BY <2>1, <2>7 DEF Worked, Goal, Within
  <2> QED
    BY <2>4, <2>6, <2>8 DEF RungsInv
<1> QED
  BY <1>2, <1>3, ServeInvariant, PTL


-----------------------------------------------------------------------------
(* A perceive() that a navigation tears is whole in the scripts, too: what *)
(* a recipe clicks on is never on a member page, so that a navigation is   *)
(* in flight over the search page only.                                    *)
ClicksAreOffPage(a) ==
  \A k \in DOMAIN a.steps : a.steps[k].action = "click" => OffMemberPage(a.steps[k].target)

TornInv ==
  /\ \A a \in approved : ClicksAreOffPage(a)
  /\ stage # "discover" => Leaving

(* The merge keeps it so.                                                  *)
LEMMA MergedOffPage ==
  ASSUME NEW s, NEW n, NEW member, Compiled(s, member)
  PROVE  ClicksAreOffPage(Merged(s, n))
<1> DEFINE a == Merged(s, n)
<1>1. s \in CapabilityArtifact /\ s.steps \in Seq(Step)
  BY DEF Compiled, CapabilityArtifact
<1>2. a.steps = RedactedSteps(s.steps)
  BY <1>1 DEF Merged, CapabilityArtifact
<1>3. DOMAIN a.steps = DOMAIN s.steps
  BY <1>2 DEF RedactedSteps
<1> HIDE DEF a
<1>4. ASSUME NEW k \in DOMAIN a.steps, a.steps[k].action = "click"
      PROVE  OffMemberPage(a.steps[k].target)
  <2> DEFINE ladder == s.steps[k].target
  <2>1. s.steps[k] \in Step
    BY <1>1, <1>3
  <2>2. /\ a.steps[k].action = s.steps[k].action
        /\ DOMAIN a.steps[k].target = DOMAIN ladder
        /\ \A r \in DOMAIN a.steps[k].target : a.steps[k].target[r].value = Redacted(ladder[r].value)
    BY <1>2, <1>3, <2>1, RedactedStep
  <2>3. OffMemberPage(ladder)
    BY <1>3, <1>4, <2>2 DEF Compiled, CompiledStep
  <2> HIDE DEF ladder
  <2> SUFFICES ASSUME NEW id \in DOMAIN MEMBERS, NEW hide \in BOOLEAN,
                      NEW r \in DOMAIN a.steps[k].target
               PROVE  a.steps[k].target[r].value \notin Shows(MemberPage(id, FALSE, hide))
    BY DEF OffMemberPage, Finds
  <2>4. MemberPage(id, FALSE, hide) \in ServerPages
    BY OnServer
  <2>5. ladder[r].value \notin Shows(MemberPage(id, FALSE, hide))
    BY <2>2, <2>3 DEF OffMemberPage, Finds
  <2> QED
    BY <2>2, <2>4, <2>5, RedactedShows
<1> QED
  BY <1>4 DEF ClicksAreOffPage, a

LEMMA TornReplay ==
  ASSUME TripInv, Fresh, TornInv, Replaying
  PROVE  Leaving'
<1>1. stage = "replay" /\ LiveInv
  BY ReplayFrame
<1>2. /\ page \in OwnPage /\ page.path \in {"search", "member"} /\ page.hide \in BOOLEAN
      /\ Leaving
  BY <1>1 DEF LiveInv, PageInv, OwnPage, TornInv
<1>3. CASE Act /\ LiveAct(Steps[i])
  <2>1. DriverAct(Steps[i].action, Steps[i].target, ValueOf(Steps[i], inputs))
    BY <1>3 DEF LiveAct
  <2>2. CASE Steps[i].action = "wait"
    BY <1>2, <2>1, <2>2, WaitLeaves DEF DriverAct, Leaving
  <2>3. CASE Steps[i].action = "click" /\ Resolves(Steps[i].target, page)
    <3>1. i \in DOMAIN Steps
      <4>1. /\ Len(Steps) \in Nat /\ DOMAIN Steps = 1..Len(Steps) /\ i \in 1..Goal
            /\ Goal = Len(Steps) + 1 /\ i < Goal
        BY <1>1, <1>3 DEF LiveInv, Within, Goal, Act
      <4> QED
        BY <4>1
    <3>2. OffMemberPage(Steps[i].target)
      BY <1>1, <2>3, <3>1 DEF TornInv, Fresh, ClicksAreOffPage, Steps
    <3>3. page.path = "search"
      BY <1>2, <2>3, <3>2, OffPageStuck
    <3> QED
      BY <2>1, <2>3, <3>3, WaitLeaves DEF DriverAct
  <2>4. CASE UNCHANGED nav /\ page' = [page EXCEPT !.box = page'.box]
    BY <1>2, <2>4 DEF Leaving, OwnPage
  <2>5. CASE UNCHANGED <<page, nav>>
    BY <1>2, <2>5 DEF Leaving
  <2> QED
    BY <2>1, <2>2, <2>3, <2>4, <2>5 DEF DriverAct
<1>4. CASE WaitBriefly(page, nav)
  BY <1>2, <1>4, WaitLeaves DEF Leaving
<1>5. CASE NavCommit
  BY <1>5 DEF NavCommit, NavCommits, Leaving
<1>6. CASE UNCHANGED <<page, nav>>
  BY <1>2, <1>6 DEF Leaving
<1> QED
  BY <1>3, <1>4, <1>5, <1>6 DEF Replaying, LiveEngineStep, PerceiveRaises, world

LEMMA TornStep ==
  FilesInv /\ TripInv /\ TripLoop /\ Fresh /\ TornInv /\ [TripNext]_tripVars => TornInv'
<1> SUFFICES ASSUME FilesInv, TripInv, TripLoop, Fresh, TornInv, [TripNext]_tripVars
             PROVE  TornInv'
  OBVIOUS
<1>1. CASE Discovering \/ PageArrives
  <2>1. stage' = "discover" /\ approved' = approved
    BY <1>1 DEF Discovering, PageArrives, trip
  <2> QED
    BY <2>1 DEF TornInv
<1>2. CASE WriteEvidence \/ StartReplay
  <2>1. approved' = approved /\ nav' = NoNav
    BY <1>2 DEF WriteEvidence, StartReplay
  <2> QED
    BY <2>1 DEF TornInv, Leaving
<1>3. CASE Merge
  <2>1. PICK s \in files.success.draft, n \in files.notfound.draft : approved' = {Merged(s, n)}
    BY <1>3 DEF Merge
  <2>2. OfThisLoop(files["success"], "success")
    BY DEF FilesInv, ScriptInputs
  <2>3. Compiled(s, ScriptInputs["success"]["member_id"])
    BY <2>1, <2>2 DEF OfThisLoop
  <2>4. ClicksAreOffPage(Merged(s, n))
    BY <2>3, MergedOffPage
  <2>5. UNCHANGED <<page, nav>> /\ stage # "discover"
    BY <1>3 DEF Merge
  <2> QED
    BY <2>1, <2>4, <2>5 DEF TornInv, Leaving
<1>4. CASE RefuseMerge
  <2>1. UNCHANGED <<page, nav, approved>> /\ stage # "discover"
    BY <1>4 DEF RefuseMerge
  <2> QED
    BY <2>1 DEF TornInv, Leaving
<1>5. CASE Replaying
  BY <1>5, TornReplay DEF TornInv, Replaying
<1>6. CASE UNCHANGED tripVars
  <2>1. UNCHANGED <<page, nav, approved, stage>>
    BY <1>6 DEF tripVars, trip
  <2> QED
    BY <2>1 DEF TornInv, Leaving
<1> QED
  BY <1>1, <1>2, <1>3, <1>4, <1>5, <1>6 DEF TripNext

(* A perceive() that a navigation tears, of discovery or of the replay,    *)
(* returns what it would have returned before it or after it.              *)
THEOREM TripTornReads == TripSpec => []TornReadsAreWhole
<1>1. TripInit => TornInv
  BY DEF TripInit, TornInv
<1>2. TripLoop /\ TornInv => TornReadsAreWhole
  <2> SUFFICES ASSUME TripLoop, TornInv, nav # NoNav
               PROVE  TornReads(page, Commit(nav)) \subseteq {LivePerceive(page), LivePerceive(Commit(nav))}
    BY DEF TornReadsAreWhole
  <2>1. page.path = "search"
    BY DEF TripLoop, SeenInv, PageTypes, TornInv, Leaving
  <2> QED
    BY <2>1, TornIsWhole
<1>3. TripSpec => []Fresh
  BY FreshInit, FreshStep, TripInvariant, PTL DEF TripSpec
<1> QED
  BY <1>1, <1>2, <1>3, TornStep, FilesInvariant, PTL DEF TripSpec
=============================================================================
