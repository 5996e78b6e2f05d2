--------------------------- MODULE Discovery_proofs ---------------------------
(***************************************************************************)
(* What a draft is worth before anyone has looked at it: each of its steps *)
(* was carried out, it types nothing but the input, it is a recipe in the  *)
(* sense of the contracts, and its steps fit together on the bank's pages. *)
(* For every model and everything it may decide, for every page and any    *)
(* bound of turns.                                                         *)
(*                                                                         *)
(* The argument: at the head of the loop every turn so far was carried out,*)
(* while the page is looked at all but the last were, and the loop ends    *)
(* there when that one was not (DraftInv).  A field that was seen is still *)
(* there when the model's answer is acted on, because nothing leads away   *)
(* from the member page (SeenInv).  Nothing leads there but a click, and   *)
(* nothing to another member's than typing another id (PageFits): so what  *)
(* a draft reads is where a replay of it will look (TurnsInv).             *)
(***************************************************************************)
EXTENDS Discovery, SequenceTheorems, TLAPS

(* A sequence, of whatever its members are.                                *)
IsList(s) == s \in Seq({s[k] : k \in DOMAIN s})

(* A record with the fields of a turn, whatever their values are.          *)
IsTurn(t) ==
  t = [action |-> t.action, value |-> t.value, ladder |-> t.ladder, rung |-> t.rung,
       field |-> t.field, ok |-> t.ok, after |-> t.after]

CarriedOut(n) == \A k \in 1..n : turns[k].ok

(* Likewise for the steps of a recipe, and a recipe.                       *)
IsStep(s) ==
  s = [action |-> s.action, target |-> s.target, value_from |-> s.value_from,
       checkpoint |-> s.checkpoint, retry_safe |-> s.retry_safe]
IsRecipe(a) ==
  a = [steps |-> a.steps, success |-> a.success, outputs |-> a.outputs,
       known_outcomes |-> a.known_outcomes, known_interstitials |-> a.known_interstitials]

(* A recipe whose steps type the member id or nothing.                     *)
TypesMemberId(a) ==
  /\ IsRecipe(a)
  /\ IsList(a.steps)
  /\ \A k \in DOMAIN a.steps :
       IsStep(a.steps[k]) /\ a.steps[k].value_from \in {"", "member_id"}

Goals == {j.success : j \in Jobs}

DraftInv ==
  /\ job \in Jobs
  /\ IsList(turns)
  /\ \A k \in DOMAIN turns : IsTurn(turns[k])
  /\ phase = "decide" => CarriedOut(Len(turns))
  /\ phase = "look" => Len(turns) # 0 /\ CarriedOut(Len(turns) - 1)
  /\ phase # "ended" => draft = {}
  /\ draft # {} <=> stop \in {"success", "business_outcome"}
  /\ draft # {} => CarriedOut(Len(turns))
  /\ \A a \in draft : TypesMemberId(a) /\ a.success \in Goals

-----------------------------------------------------------------------------
(* A function on 1..n is a list.                                           *)
LEMMA ListOfFunction ==
  ASSUME NEW s, NEW n \in Nat, s \in [1..n -> {s[k] : k \in DOMAIN s}]
  PROVE  IsList(s)
BY SeqDef DEF IsList

(* A sequence over a set is a list, and has the shape of one.              *)
LEMMA ListOfSeq ==
  ASSUME NEW S, NEW s \in Seq(S)
  PROVE  IsList(s) /\ Len(s) \in Nat /\ DOMAIN s = 1..Len(s)
<1>1. Len(s) \in Nat /\ DOMAIN s = 1..Len(s)
  OBVIOUS
<1>2. s \in [1..Len(s) -> {s[k] : k \in DOMAIN s}]
  BY <1>1
<1> QED BY <1>1, <1>2, ListOfFunction

(* The shape of a list.                                                    *)
LEMMA ListShape ==
  ASSUME NEW s, IsList(s)
  PROVE  Len(s) \in Nat /\ DOMAIN s = 1..Len(s)
BY ListOfSeq DEF IsList

(* What appending does to it.                                              *)
LEMMA ListAppend ==
  ASSUME NEW s, IsList(s), NEW x
  PROVE  /\ IsList(Append(s, x))
         /\ Len(Append(s, x)) = Len(s) + 1
         /\ \A k \in 1..Len(s) : Append(s, x)[k] = s[k]
         /\ Append(s, x)[Len(s) + 1] = x
<1> DEFINE S == {s[k] : k \in DOMAIN s} \cup {x}
<1>1. Len(s) \in Nat /\ DOMAIN s = 1..Len(s)
  BY ListShape
<1>2. s \in Seq(S)
  <2>1. s \in [1..Len(s) -> S]
    BY <1>1, SeqDef DEF IsList
  <2> QED BY <1>1, <2>1, SeqDef
<1>3. x \in S
  OBVIOUS
<1> HIDE DEF S
<1>4. Append(s, x) \in Seq(S)
  BY <1>2, <1>3
<1>5. IsList(Append(s, x))
  BY <1>4, ListOfSeq
<1>6. Len(Append(s, x)) = Len(s) + 1
  BY <1>2, <1>3
<1>7. \A k \in 1..Len(s) : Append(s, x)[k] = s[k]
  BY <1>1, <1>2, <1>3
<1>8. Append(s, x)[Len(s) + 1] = x
  BY <1>1, <1>2, <1>3
<1> QED BY <1>5, <1>6, <1>7, <1>8

-----------------------------------------------------------------------------
(* Every recipe that is compiled types the member id or nothing.           *)
LEMMA CompiledTypesMemberId ==
  ASSUME NEW ts, IsList(ts), NEW outcomes, job \in Jobs
  PROVE  /\ TypesMemberId(CompileArtifact(ts, outcomes))
         /\ CompileArtifact(ts, outcomes).success \in Goals
<1> DEFINE steps == [k \in DOMAIN ts |-> CompileStep(ts[k])]
<1>1. Len(ts) \in Nat /\ DOMAIN ts = 1..Len(ts)
  BY ListShape
<1>2. IsList(steps)
  <2>1. steps \in [1..Len(ts) -> {steps[k] : k \in DOMAIN steps}]
    BY <1>1
  <2> QED BY <1>1, <2>1, ListOfFunction
<1>3. \A turn : IsStep(CompileStep(turn)) /\ CompileStep(turn).value_from \in {"", "member_id"}
  BY DEF CompileStep, Binding, IsStep
<1>4. \A k \in DOMAIN steps : IsStep(steps[k]) /\ steps[k].value_from \in {"", "member_id"}
  BY <1>3
<1>5. /\ CompileArtifact(ts, outcomes).steps = steps
      /\ IsRecipe(CompileArtifact(ts, outcomes))
  BY DEF CompileArtifact, IsRecipe
<1>6. CompileArtifact(ts, outcomes).success \in Goals
  BY DEF CompileArtifact, Goals
<1> HIDE DEF steps
<1> QED BY <1>2, <1>4, <1>5, <1>6 DEF TypesMemberId

(* What a run keeps when it ends: a reason to keep a draft needs all turns *)
(* of it to have been carried out.                                         *)
LEMMA StopKeeps ==
  ASSUME job \in Jobs, UNCHANGED job, IsList(turns'),
         \A k \in DOMAIN turns' : IsTurn(turns'[k]),
         NEW reason, NEW outcomes, StopWith(reason, turns', outcomes),
         reason \in {"success", "business_outcome"} => CarriedOut(Len(turns))'
  PROVE  DraftInv'
<1>1. phase' = "ended" /\ stop' = reason
  BY DEF StopWith
<1>2. draft' # {} <=> reason \in {"success", "business_outcome"}
  BY DEF StopWith
<1>3. \A a \in draft' : TypesMemberId(a) /\ a.success \in Goals
  BY CompiledTypesMemberId DEF StopWith
<1>4. (\A k \in DOMAIN turns : IsTurn(turns[k]))'
  OBVIOUS
<1>5. (\A a \in draft : TypesMemberId(a) /\ a.success \in Goals)'
  BY <1>3
<1>6. (IsList(turns))'
  BY DEF IsList
<1> QED BY <1>1, <1>2, <1>4, <1>5, <1>6 DEF DraftInv

(* A turn is entered, and not known to be carried out until it is looked   *)
(* at.                                                                     *)
LEMMA DoKeeps ==
  ASSUME DraftInv, Do
  PROVE  DraftInv'
<1>1. /\ phase = "decide" /\ phase' = "look"
      /\ UNCHANGED <<job, stop, draft>>
  BY DEF Do, Asked
<1>2. PICK x : turns' = Append(turns, x) /\ IsTurn(x)
  <2>1. PICK d, ladder : turns' = Append(turns, Turn(d, ladder))
    BY DEF Do
  <2>2. IsTurn(Turn(d, ladder))
    BY DEF Turn, IsTurn
  <2> QED BY <2>1, <2>2
<1>3. /\ IsList(turns) /\ CarriedOut(Len(turns)) /\ draft = {}
      /\ Len(turns) \in Nat /\ DOMAIN turns = 1..Len(turns)
  BY <1>1, ListShape DEF DraftInv
<1>4. /\ IsList(turns')
      /\ Len(turns') = Len(turns) + 1
      /\ \A k \in 1..Len(turns) : turns'[k] = turns[k]
      /\ turns'[Len(turns) + 1] = x
  BY <1>2, <1>3, ListAppend
<1>5. DOMAIN turns' = 1..(Len(turns) + 1)
  BY <1>4, ListShape
<1>6. \A k \in DOMAIN turns' : IsTurn(turns'[k])
  BY <1>2, <1>3, <1>4, <1>5 DEF DraftInv
<1>7. Len(turns') # 0 /\ \A k \in 1..(Len(turns') - 1) : turns'[k].ok
  BY <1>3, <1>4 DEF CarriedOut
<1>8. IsList(turns)'
  BY <1>4 DEF IsList
<1>9. (phase = "look" => Len(turns) # 0 /\ CarriedOut(Len(turns) - 1))'
  BY <1>7 DEF CarriedOut
<1> QED BY <1>1, <1>3, <1>6, <1>8, <1>9 DEF DraftInv

(* What perceive() shows leaves what the turns did as it is.               *)
LEMMA LookKeeps ==
  ASSUME DraftInv, Look
  PROVE  DraftInv'
<1>1. /\ phase = "look" /\ draft = {} /\ IsList(turns)
      /\ Len(turns) # 0 /\ CarriedOut(Len(turns) - 1)
      /\ Len(turns) \in Nat /\ DOMAIN turns = 1..Len(turns)
      /\ UNCHANGED job /\ job \in Jobs
  BY ListShape DEF DraftInv, Look
<1>2. PICK screen : turns' = [turns EXCEPT ![Len(turns)].after = screen]
  BY DEF Look
<1>3. /\ DOMAIN turns' = DOMAIN turns
      /\ \A k \in DOMAIN turns : IsTurn(turns'[k]) /\ turns'[k].ok = turns[k].ok
  BY <1>1, <1>2 DEF DraftInv, IsTurn
<1>4. IsList(turns') /\ Len(turns') = Len(turns)
  <2>0. turns' = [k \in 1..Len(turns) |-> turns'[k]]
    BY <1>1, <1>2
  <2>1. turns' \in [1..Len(turns) -> {turns'[k] : k \in DOMAIN turns'}]
    BY <1>1, <1>3, <2>0
  <2>2. IsList(turns')
    BY <1>1, <2>1, ListOfFunction
  <2> QED BY <1>1, <1>3, <2>2, ListShape
<1>5. LastTurn.ok => CarriedOut(Len(turns))'
  BY <1>1, <1>3, <1>4 DEF LastTurn, CarriedOut
<1>6. CASE ~LastTurn.ok /\ StopWith("dead_end", turns', <<>>)
  BY <1>1, <1>3, <1>4, <1>6, StopKeeps
<1>7. CASE LastTurn.ok /\ StopWith("success", turns', <<>>)
  BY <1>1, <1>3, <1>4, <1>5, <1>7, StopKeeps
<1>8. CASE LastTurn.ok /\ phase' = "decide" /\ UNCHANGED <<stop, draft>>
  <2>1. IsList(turns)'
    BY <1>4 DEF IsList
  <2> QED BY <1>1, <1>3, <1>5, <1>8, <2>1 DEF DraftInv
<1> QED BY <1>6, <1>7, <1>8 DEF Look

(* A run that ends while the model decides keeps the turns it has.         *)
LEMMA EndKeeps ==
  ASSUME DraftInv, UNCHANGED <<job, turns>>,
         NEW reason, NEW outcomes, StopWith(reason, turns, outcomes),
         reason \in {"success", "business_outcome"} => phase = "decide"
  PROVE  DraftInv'
<1>1. job \in Jobs /\ IsList(turns') /\ \A k \in DOMAIN turns' : IsTurn(turns'[k])
  BY DEF DraftInv
<1>2. StopWith(reason, turns', outcomes)
  BY DEF StopWith
<1>3. reason \in {"success", "business_outcome"} => CarriedOut(Len(turns))'
  BY DEF DraftInv, CarriedOut
<1> QED BY <1>1, <1>2, <1>3, StopKeeps

(* Every step of the loop keeps what is known of its draft.                *)
LEMMA DiscoveryKeeps ==
  ASSUME DraftInv, DiscoveryStep
  PROVE  DraftInv'
<1>1. CASE DecideDone
  BY <1>1, EndKeeps DEF DecideDone, Asked
<1>2. CASE DecideOutcome
  <2>1. PICK d \in Decisions :
          StopWith("business_outcome", turns,
                   <<[name   |-> IF d.outcome = "" THEN "unnamed_outcome" ELSE d.outcome,
                      detect |-> Screen(seen.screen)]>>)
    BY <1>2 DEF DecideOutcome
  <2> QED BY <1>2, <2>1, EndKeeps DEF DecideOutcome, Asked
<1>3. CASE Do
  BY <1>3, DoKeeps
<1>4. CASE Look
  BY <1>4, LookKeeps
<1>5. CASE OutOfTurns \/ Timeout \/ DiscoveryRaises
  BY <1>5, EndKeeps DEF OutOfTurns, Timeout, DiscoveryRaises
<1> QED BY <1>1, <1>2, <1>3, <1>4, <1>5 DEF DiscoveryStep

(* What does not concern the loop does not concern its draft.              *)
LEMMA LoopKept ==
  ASSUME DraftInv, UNCHANGED discovery
  PROVE  DraftInv'
<1>1. UNCHANGED <<job, phase, turns, stop, draft>>
  BY DEF discovery
<1> QED BY <1>1 DEF DraftInv, CarriedOut

(* A discovery starts without turns and without a draft.                   *)
LEMMA DraftInit == DiscoveryInit => DraftInv
<1> SUFFICES ASSUME DiscoveryInit PROVE DraftInv
  OBVIOUS
<1>1. job \in Jobs /\ turns = <<>> /\ phase = "decide" /\ stop = "running" /\ draft = {}
  BY DEF DiscoveryInit
<1>2. <<>> \in Seq({}) /\ Len(<<>>) = 0 /\ DOMAIN <<>> = {}
  OBVIOUS
<1>3. IsList(turns) /\ Len(turns) = 0 /\ DOMAIN turns = {}
  BY <1>1, <1>2, ListOfSeq
<1> QED BY <1>1, <1>3 DEF DraftInv, CarriedOut

(* A draft comes with a success and a business outcome only, and each of   *)
(* its steps was carried out: for any model, any page and any MAX_STEPS.   *)
THEOREM DiscoveryDrafts == DiscoverySpec => []DraftWasCarriedOut
<1>1. DraftInv => DraftWasCarriedOut
  BY ListShape DEF DraftInv, DraftWasCarriedOut, CarriedOut
<1>2. DraftInv /\ [DiscoveryNext]_discoveryVars => DraftInv'
  <2> SUFFICES ASSUME DraftInv, [DiscoveryNext]_discoveryVars PROVE DraftInv'
    OBVIOUS
  <2>1. CASE DiscoveryStep
    BY <2>1, DiscoveryKeeps
  <2>2. CASE UNCHANGED discovery
    BY <2>2, LoopKept
  <2> QED BY <2>1, <2>2 DEF DiscoveryNext, discoveryVars
<1> QED BY <1>1, <1>2, DraftInit, PTL DEF DiscoverySpec
-----------------------------------------------------------------------------
(* The values that the loop makes are of their types.                      *)

(* The first of up to three places.                                        *)
LEMMA LeastOfThree ==
  ASSUME NEW S, S \subseteq 1..3, S # {}
  PROVE  \E n \in S : \A k \in S : n <= k
<1>1. CASE 1 \in S
  BY <1>1
<1>2. CASE 1 \notin S /\ 2 \in S
  <2>1. \A k \in S : k = 2 \/ k = 3
    BY <1>2
  <2> QED
    BY <1>2, <2>1
<1>3. CASE 1 \notin S /\ 2 \notin S
  <2>1. \A k \in S : k = 3
    BY <1>3
  <2>2. PICK n : n \in S
    OBVIOUS
  <2>3. n = 3 /\ \A k \in S : k = n
    BY <2>1, <2>2
  <2> QED
    BY <2>2, <2>3
<1> QED
  BY <1>1, <1>2, <1>3

(* A label is found for one of the keys, or for none.                      *)
LEMMA LabelType ==
  ASSUME NEW target, NEW fields
  PROVE  BestLabelMatch(target, fields) \in {""} \cup DOMAIN Title
<1> DEFINE matching == {n \in DOMAIN RowOrder :
                          RowOrder[n] \in DOMAIN fields /\ Overlap(target, RowOrder[n]) > 0}
           best == {n \in matching : \A k \in matching :
                      Overlap(target, RowOrder[k]) <= Overlap(target, RowOrder[n])}
           first == CHOOSE n \in best : \A k \in best : n <= k
<1>1. BestLabelMatch(target, fields) = IF best = {} THEN "" ELSE RowOrder[first]
  BY DEF BestLabelMatch
<1>2. best \subseteq 1..3
  <2>1. DOMAIN RowOrder = 1..3
    BY DEF RowOrder
  <2> QED
    BY <2>1
<1>3. \A n \in 1..3 : RowOrder[n] \in DOMAIN Title
  BY DEF RowOrder, Title
<1> HIDE DEF matching, best
<1>4. best # {} => first \in best
  BY <1>2, LeastOfThree
<1> QED
  BY <1>1, <1>2, <1>3, <1>4

(* A ladder has at most three rungs, each a locator.                       *)
LEMMA LadderType ==
  ASSUME NEW d \in Decisions, NEW o
  PROVE  /\ BuildLadder(d.action, d.target, o) \in Seq(Locator)
         /\ Len(BuildLadder(d.action, d.target, o)) <= 3
<1>1. /\ d.target \in Names
      /\ {"textbox::", "button::"} \subseteq Names
      /\ {"textbox::" \o d.target, "button::" \o d.target, "link::" \o d.target,
          "cell::" \o d.target, "[aria-label=" \o d.target \o "]"} \subseteq Names
  BY DecisionsAssumption, StringsAssumption
<1>2. \A v \in Names : {Rung("role_name", v), Rung("attribute", v), Rung("label_anchor", v)}
                        \subseteq Locator
  BY DEF Rung, Locator
<1>3. ASSUME NEW x \in Locator, NEW y \in Locator, NEW z \in Locator
      PROVE  /\ <<x, y, z>> \in Seq(Locator) /\ Len(<<x, y, z>>) <= 3
             /\ <<x, y>> \in Seq(Locator) /\ Len(<<x, y>>) <= 3
             /\ <<>> \in Seq(Locator) /\ Len(<<>>) <= 3
  OBVIOUS
<1>4. CASE d.action = "type"
  BY <1>1, <1>2, <1>3, <1>4 DEF BuildLadder
<1>5. CASE d.action = "click"
  BY <1>1, <1>2, <1>3, <1>5 DEF BuildLadder
<1>6. CASE d.action = "read"
  <2> DEFINE key == FieldKey(d.action, d.target, o)
             label == IF key = "" THEN d.target ELSE Title[key]
  <2>1. BuildLadder(d.action, d.target, o) =
          <<Rung("role_name", "cell::" \o d.target),
            Rung("attribute", "[aria-label=" \o d.target \o "]"),
            Rung("label_anchor", label)>>
    BY <1>6 DEF BuildLadder
  <2>2. key \in {""} \cup DOMAIN Title
    BY LabelType DEF FieldKey
  <2>3. label \in Names
    BY <1>1, <2>2, StringsAssumption
  <2> HIDE DEF key, label
  <2> QED
    BY <1>1, <1>2, <1>3, <2>1, <2>3
<1>7. CASE d.action \notin {"type", "click", "read"}
  BY <1>1, <1>2, <1>3, <1>7 DEF BuildLadder
<1> QED
  BY <1>4, <1>5, <1>6, <1>7

(* A ladder that finds anything stops at a rung, the first that does.      *)
LEMMA StopsSomewhere ==
  ASSUME NEW S, NEW ladder \in Seq(S), Len(ladder) <= 3, NEW shown,
         \E r \in DOMAIN ladder : ladder[r].value \in shown
  PROVE  \E r \in DOMAIN ladder : FoundAt(ladder, shown, r)
<1> DEFINE there == {r \in DOMAIN ladder : ladder[r].value \in shown}
<1>1. DOMAIN ladder = 1..Len(ladder) /\ Len(ladder) \in Nat
  OBVIOUS
<1>2. there # {} /\ there \subseteq 1..3
  BY <1>1
<1>3. PICK n \in there : \A k \in there : n <= k
  BY <1>2, LeastOfThree
<1>4. \A q \in 1..(n - 1) : ladder[q].value \notin shown
  <2> SUFFICES ASSUME NEW q \in 1..(n - 1), ladder[q].value \in shown PROVE FALSE
    OBVIOUS
  <2>1. n \in DOMAIN ladder /\ n \in 1..3
    BY <1>2, <1>3
  <2>2. q \in there /\ q < n
    BY <1>1, <2>1
  <2> QED
    BY <1>3, <2>1, <2>2
<1> QED
  BY <1>3, <1>4 DEF FoundAt

LEMMA RungFound ==
  ASSUME NEW S, NEW ladder \in Seq(S), Len(ladder) <= 3, NEW p, Resolves(ladder, p)
  PROVE  /\ ResolvedRung(ladder, p) \in DOMAIN ladder
         /\ FoundAt(ladder, Present(p), ResolvedRung(ladder, p))
<1>1. \E r \in DOMAIN ladder : FoundAt(ladder, Present(p), r)
  BY StopsSomewhere DEF Resolves
<1> QED
  BY <1>1 DEF ResolvedRung

(* The rung that a ladder stops at.                                        *)
LEMMA RungType ==
  ASSUME NEW ladder \in Seq(Locator), Len(ladder) <= 3
  PROVE  ResolvedRung(ladder, page) \in 0..3
<1>1. DOMAIN ladder \subseteq 1..3
  BY Z3
<1>2. CASE Resolves(ladder, page)
  BY <1>1, <1>2, RungFound
<1>3. CASE ~Resolves(ladder, page)
  BY <1>3 DEF ResolvedRung
<1> QED
  BY <1>2, <1>3

(* A turn, as it is entered.                                               *)
LEMMA TurnType ==
  ASSUME NEW d \in Decisions, d.action \in {"type", "click", "read", "wait"}
  PROVE  Turn(d, BuildLadder(d.action, d.target, seen)) \in TurnLog
<1> DEFINE ladder == BuildLadder(d.action, d.target, seen)
<1>1. ladder \in Seq(Locator) /\ Len(ladder) <= 3
  BY LadderType
<1> HIDE DEF ladder
<1>2. (IF d.action = "wait" THEN 0 ELSE ResolvedRung(ladder, page)) \in 0..3
  BY <1>1, RungType
<1>3. FieldKey(d.action, d.target, seen) \in {""} \cup DOMAIN Title
  BY LabelType DEF FieldKey
<1>4. ActOk(d.action, ladder) \in BOOLEAN
  BY DEF ActOk, Resolves
<1>5. d.value \in Names \cup {None}
  BY DecisionsAssumption
<1>6. Turn(d, ladder) \in TurnLog
  BY <1>1, <1>2, <1>3, <1>4, <1>5 DEF Turn, TurnLog
<1> QED
  BY <1>6 DEF ladder

(* A turn is compiled into a step of a recipe.                             *)
LEMMA StepType ==
  ASSUME NEW turn \in TurnLog
  PROVE  CompileStep(turn) \in Step
<1>1. /\ turn.action \in {"type", "click", "read", "wait"} /\ turn.ladder \in Seq(Locator)
      /\ turn.field \in Names /\ turn.after \in Names
      /\ {"", "member_id"} \subseteq Names
  BY StringsAssumption DEF TurnLog, Title
<1>2. (IF turn.action = "type" THEN Binding(turn.value) ELSE "") \in Names
  BY <1>1 DEF Binding
<1>3. NoCheckpoint \in Checkpoint /\ \A s \in Names : Screen(s) \in Checkpoint /\ Field(s) \in Checkpoint
  <2>1. ASSUME NEW s \in Names PROVE Screen(s) \in Checkpoint
    BY DEF Screen, Checkpoint
  <2>2. ASSUME NEW s \in Names PROVE Field(s) \in Checkpoint
    BY DEF Field, Checkpoint
  <2>3. NoCheckpoint \in Checkpoint
    BY <1>1 DEF NoCheckpoint, Checkpoint
  <2> QED
    BY <2>1, <2>2, <2>3
<1>4. (IF turn.action = "click" THEN Screen(turn.after)
       ELSE IF turn.action = "read" /\ turn.field # "" THEN Field(turn.field)
       ELSE NoCheckpoint) \in Checkpoint
  BY <1>1, <1>3
<1> QED
  BY <1>1, <1>2, <1>4 DEF CompileStep, Step

(* The turns are compiled into a recipe.                                   *)
LEMMA CompiledType ==
  ASSUME job \in Jobs, NEW ts \in Seq(TurnLog), NEW outcomes \in Seq(Rule)
  PROVE  CompileArtifact(ts, outcomes) \in CapabilityArtifact
<1> DEFINE steps == [k \in DOMAIN ts |-> CompileStep(ts[k])]
           read == {ts[k].field : k \in {n \in DOMAIN ts : ts[n].action = "read"}} \ {""}
<1>1. Len(ts) \in Nat /\ DOMAIN ts = 1..Len(ts) /\ \A k \in DOMAIN ts : ts[k] \in TurnLog
  OBVIOUS
<1>2. steps \in Seq(Step)
  <2>1. steps \in [1..Len(ts) -> Step]
    BY <1>1, StepType
  <2> QED
    BY <1>1, <2>1, SeqDef
<1>3. read \subseteq Names
  BY <1>1, StringsAssumption DEF TurnLog
<1>4. job.success \in Checkpoint
  BY JobsAssumption
<1>5. <<>> \in Seq(Rule)
  OBVIOUS
<1>6. CompileArtifact(ts, outcomes) =
        [steps |-> steps, success |-> job.success, outputs |-> read,
         known_outcomes |-> outcomes, known_interstitials |-> <<>>]
  BY DEF CompileArtifact
<1> HIDE DEF steps, read
<1> QED
  BY <1>2, <1>3, <1>4, <1>5, <1>6 DEF CapabilityArtifact

-----------------------------------------------------------------------------
(* The loop keeps its types and its bound.                                 *)

LoopTypes == DiscoveryTypeOK /\ (phase = "look" => Len(turns) # 0)

(* A run that ends, with the turns it has.                                 *)
LEMMA StopTypes ==
  ASSUME job \in Jobs, UNCHANGED job, turns' \in Seq(TurnLog), Len(turns') <= MAX_STEPS,
         seen'.screen \in {"search", "detail", "not_found"},
         NEW reason \in StopReason \cup {"raised"}, NEW outcomes \in Seq(Rule),
         StopWith(reason, turns', outcomes)
  PROVE  LoopTypes'
<1>1. phase' = "ended" /\ stop' = reason
  BY DEF StopWith
<1>2. draft' \subseteq CapabilityArtifact
  BY CompiledType DEF StopWith
<1>3. stop' # "running"
  BY <1>1 DEF StopReason
<1> QED
  BY <1>1, <1>2, <1>3 DEF LoopTypes, DiscoveryTypeOK

(* What perceive() makes of a page that stays.                             *)
LEMMA OnePageSeen ==
  ASSUME NEW p
  PROVE  LivePerceive(p) =
           [screen |-> IF NoSuchMember(p) THEN "not_found"
                       ELSE IF p.path = "member" THEN "detail" ELSE "search",
            fields |-> [f \in Rows(p) |-> Cells(p.member)[f]]]
<1> DEFINE screen == IF NoSuchMember(p) THEN "not_found"
                     ELSE IF p.path = "member" THEN "detail" ELSE "search"
<1>1. (IF screen = "detail" THEN Rows(p) ELSE {}) = Rows(p)
  BY DEF Rows, NoSuchMember
<1>2. LivePerceive(p) =
        [screen |-> screen,
         fields |-> [f \in (IF screen = "detail" THEN Rows(p) ELSE {}) |-> Cells(p.member)[f]]]
  BY Zenon DEF LivePerceive, PerceiveFrom
<1> QED
  BY <1>1, <1>2, Zenon

(* The screen that perceive() makes out.                                   *)
LEMMA ScreenType ==
  ASSUME NEW p
  PROVE  LivePerceive(p).screen \in {"search", "detail", "not_found"}
BY OnePageSeen DEF NoSuchMember

LEMMA DoTypes ==
  ASSUME LoopTypes, Do
  PROVE  LoopTypes'
<1>1. /\ Len(turns) < MAX_STEPS /\ phase = "decide" /\ phase' = "look"
      /\ UNCHANGED <<job, seen, stop, draft>>
  BY DEF Do, Asked
<1>2. PICK x \in TurnLog : turns' = Append(turns, x)
  <2>1. PICK d \in Decisions :
          /\ d.action \in {"type", "click", "read", "wait"}
          /\ turns' = Append(turns, Turn(d, BuildLadder(d.action, d.target, seen)))
    BY DEF Do
  <2> QED
    BY <2>1, TurnType
<1>3. turns \in Seq(TurnLog) /\ Len(turns) \in Nat
  BY DEF LoopTypes, DiscoveryTypeOK
<1>4. turns' \in Seq(TurnLog) /\ Len(turns') = Len(turns) + 1
  BY <1>2, <1>3
<1>5. Len(turns') <= MAX_STEPS /\ Len(turns') # 0
  BY <1>1, <1>3, <1>4, MaxStepsAssumption
<1> QED
  BY <1>1, <1>4, <1>5 DEF LoopTypes, DiscoveryTypeOK

LEMMA LookTypes ==
  ASSUME LoopTypes, Look
  PROVE  LoopTypes'
<1>1. /\ phase = "look" /\ turns \in Seq(TurnLog) /\ Len(turns) \in Nat /\ Len(turns) # 0
      /\ Len(turns) <= MAX_STEPS /\ job \in Jobs /\ UNCHANGED job
      /\ DOMAIN turns = 1..Len(turns)
  BY DEF Look, LoopTypes, DiscoveryTypeOK
<1>2. seen'.screen \in {"search", "detail", "not_found"}
  BY ScreenType DEF Look
<1>3. turns' = [turns EXCEPT ![Len(turns)] = [@ EXCEPT !.after = seen'.screen]]
  BY DEF Look
<1>4. turns' \in Seq(TurnLog) /\ Len(turns') = Len(turns)
  <2>1. Len(turns) \in DOMAIN turns /\ turns[Len(turns)] \in TurnLog
    BY <1>1
  <2>2. [turns[Len(turns)] EXCEPT !.after = seen'.screen] \in TurnLog
    BY <1>2, <2>1 DEF TurnLog
  <2> QED
    BY <1>1, <1>3, <2>1, <2>2
<1>5. <<>> \in Seq(Rule)
  OBVIOUS
<1>6. CASE StopWith("dead_end", turns', <<>>) \/ StopWith("success", turns', <<>>)
  BY <1>1, <1>2, <1>4, <1>5, <1>6, StopTypes DEF StopReason
<1>7. CASE phase' = "decide" /\ UNCHANGED <<stop, draft>>
  BY <1>1, <1>2, <1>4, <1>7 DEF LoopTypes, DiscoveryTypeOK
<1> QED
  BY <1>6, <1>7 DEF Look

LEMMA EndTypes ==
  ASSUME LoopTypes, UNCHANGED <<job, turns, seen>>,
         NEW reason \in StopReason \cup {"raised"}, NEW outcomes \in Seq(Rule),
         StopWith(reason, turns, outcomes)
  PROVE  LoopTypes'
<1>1. /\ job \in Jobs /\ turns' \in Seq(TurnLog) /\ Len(turns') <= MAX_STEPS
      /\ seen'.screen \in {"search", "detail", "not_found"}
  BY DEF LoopTypes, DiscoveryTypeOK
<1>2. StopWith(reason, turns', outcomes)
  BY DEF StopWith
<1> QED
  BY <1>1, <1>2, StopTypes

LEMMA TypesStep ==
  ASSUME LoopTypes, DiscoveryStep
  PROVE  LoopTypes'
<1>1. <<>> \in Seq(Rule)
  OBVIOUS
<1>2. CASE DecideDone
  BY <1>1, <1>2, EndTypes DEF DecideDone, StopReason
<1>3. CASE DecideOutcome
  <2>1. PICK d \in Decisions :
          StopWith("business_outcome", turns,
                   <<[name   |-> IF d.outcome = "" THEN "unnamed_outcome" ELSE d.outcome,
                      detect |-> Screen(seen.screen)]>>)
    BY <1>3 DEF DecideOutcome
  <2> DEFINE name == IF d.outcome = "" THEN "unnamed_outcome" ELSE d.outcome
             rule == [name |-> name, detect |-> Screen(seen.screen)]
  <2>2. name \in Names /\ seen.screen \in Names
    BY DecisionsAssumption, StringsAssumption DEF LoopTypes, DiscoveryTypeOK
  <2> HIDE DEF name
  <2>3. rule \in Rule
    <3>1. Screen(seen.screen) \in Checkpoint
      BY <2>2 DEF Screen, Checkpoint
    <3> QED
      BY <2>2, <3>1 DEF Rule
  <2>4. <<rule>> \in Seq(Rule)
    BY <2>3
  <2>5. StopWith("business_outcome", turns, <<rule>>) /\ UNCHANGED <<job, turns, seen>>
    BY <1>3, <2>1 DEF DecideOutcome, name
  <2> HIDE DEF rule
  <2> QED
    BY <2>4, <2>5, EndTypes DEF StopReason
<1>4. CASE Do
  BY <1>4, DoTypes
<1>5. CASE Look
  BY <1>5, LookTypes
<1>6. CASE OutOfTurns \/ Timeout \/ DiscoveryRaises
  BY <1>1, <1>6, EndTypes DEF OutOfTurns, Timeout, DiscoveryRaises, StopReason
<1> QED
  BY <1>2, <1>3, <1>4, <1>5, <1>6 DEF DiscoveryStep

LEMMA TypesKept ==
  ASSUME LoopTypes, UNCHANGED discovery
  PROVE  LoopTypes'
<1>1. UNCHANGED <<job, phase, seen, turns, stop, draft>>
  BY DEF discovery
<1> QED
  BY <1>1 DEF LoopTypes, DiscoveryTypeOK

LEMMA TypesInit == DiscoveryInit => LoopTypes
<1> SUFFICES ASSUME DiscoveryInit PROVE LoopTypes
  OBVIOUS
<1>1. /\ job \in Jobs /\ turns = <<>> /\ phase = "decide" /\ stop = "running" /\ draft = {}
      /\ seen = LivePerceive(page)
  BY DEF DiscoveryInit
<1>2. turns \in Seq(TurnLog) /\ Len(turns) = 0
  BY <1>1
<1> QED
  BY <1>1, <1>2, ScreenType, MaxStepsAssumption DEF LoopTypes, DiscoveryTypeOK

(* Whatever the model decides, the loop's variables are of their types,    *)
(* every draft is a recipe, and the turns stay within their bound.         *)
THEOREM DiscoveryTypes == DiscoverySpec => []DiscoveryTypeOK
<1>1. LoopTypes /\ [DiscoveryNext]_discoveryVars => LoopTypes'
  BY TypesStep, TypesKept DEF DiscoveryNext, discoveryVars
<1>2. LoopTypes => DiscoveryTypeOK
  BY DEF LoopTypes
<1> QED
  BY <1>1, <1>2, TypesInit, PTL DEF DiscoverySpec

-----------------------------------------------------------------------------
(* Where a field is seen, the page is the member's and stays there.        *)

Texts == Names \cup {""}

PageTypes ==
  /\ page \in [path : {"search", "member"}, member : Texts, box : Texts,
               slow : BOOLEAN, hide : BOOLEAN]
  /\ nav = NoNav \/ nav \in [to : Texts, slow : BOOLEAN, hide : BOOLEAN, attempts : Nat \ {0}]

(* The observation that the next decision is made on, if it has a field,   *)
(* is what the page still shows; a success was concluded on it.            *)
SeenInv ==
  /\ PageTypes
  /\ page.path = "member" => nav = NoNav
  /\ DOMAIN seen.fields # {} => page.path = "member" /\ seen = LivePerceive(page)
  /\ phase # "ended" => stop # "success"
  /\ stop = "success" => Check(seen, job.success)

(* A page without rows shows no fields.                                    *)
LEMMA FieldsOfRows ==
  ASSUME NEW p, DOMAIN LivePerceive(p).fields # {}
  PROVE  p.path = "member"
<1>1. DOMAIN LivePerceive(p).fields = Rows(p)
  BY OnePageSeen DEF NoSuchMember
<1> QED
  BY <1>1 DEF Rows

(* What the rungs of a ladder look for.                                    *)
LEMMA TwoRungs ==
  ASSUME NEW s, NEW a, NEW b, s = <<Rung("role_name", a), Rung("role_name", b)>>
  PROVE  \A r \in DOMAIN s : s[r].value \in {a, b}
BY DEF Rung

LEMMA ThreeRungs ==
  ASSUME NEW s, NEW a, NEW b, NEW c,
         s = <<Rung("role_name", a), Rung("role_name", b), Rung("role_name", c)>>
  PROVE  \A r \in DOMAIN s : s[r].value \in {a, b, c}
BY DEF Rung

(* A box, a button and a link are what a typing or a click looks for; the  *)
(* member page has none.                                                   *)
LEMMA DecidedOffPage ==
  ASSUME NEW d \in Decisions, d.action \in {"type", "click"}, NEW o
  PROVE  OffMemberPage(BuildLadder(d.action, d.target, o))
<1> DEFINE ladder == BuildLadder(d.action, d.target, o)
           controls == {"textbox::" \o d.target, "textbox::", "button::" \o d.target,
                        "link::" \o d.target, "button::"}
<1>1. \A r \in DOMAIN ladder : ladder[r].value \in controls
  <2>1. CASE d.action = "type"
    <3>1. ladder = <<Rung("role_name", "textbox::" \o d.target), Rung("role_name", "textbox::")>>
      BY <2>1 DEF BuildLadder
    <3>2. \A r \in DOMAIN ladder : ladder[r].value \in {"textbox::" \o d.target, "textbox::"}
      BY <3>1, TwoRungs, Zenon
    <3> QED
      BY <3>2, Zenon
  <2>2. CASE d.action = "click"
    <3>1. ladder = <<Rung("role_name", "button::" \o d.target),
                     Rung("role_name", "link::" \o d.target), Rung("role_name", "button::")>>
      BY <2>2 DEF BuildLadder
    <3>2. \A r \in DOMAIN ladder :
            ladder[r].value \in {"button::" \o d.target, "link::" \o d.target, "button::"}
      BY <3>1, ThreeRungs, Zenon
    <3> QED
      BY <3>2, Zenon
  <2> QED
    BY <2>1, <2>2
<1>2. \A id \in DOMAIN MEMBERS, hide \in BOOLEAN :
        controls \cap Shows(MemberPage(id, FALSE, hide)) = {}
  BY DecisionControlsAssumption
<1> HIDE DEF ladder, controls
<1>3. OffMemberPage(ladder)
  BY <1>1, <1>2 DEF OffMemberPage, Finds
<1> QED
  BY <1>3 DEF ladder

(* A ladder that looks for nothing on the member page finds nothing there. *)
LEMMA OffPageStuck ==
  ASSUME NEW ladder, OffMemberPage(ladder), page.path = "member", page.hide \in BOOLEAN
  PROVE  ~Resolves(ladder, page)
<1>1. CASE page.member \in DOMAIN MEMBERS
  <2>1. Shows(page) = Shows(MemberPage(page.member, FALSE, page.hide))
    BY <1>1 DEF Shows, Rows, MemberPage
  <2> QED
    BY <1>1, <2>1 DEF OffMemberPage, Finds, Resolves, Present
<1>2. CASE page.member \notin DOMAIN MEMBERS
  <2>1. Rows(page) = {}
    BY <1>2 DEF Rows
  <2> QED
    BY <2>1 DEF Resolves, Present, Shows
<1> QED
  BY <1>1, <1>2

(* On the member page no typing and no click finds anything.               *)
LEMMA NothingToDo ==
  ASSUME PageTypes, page.path = "member", NEW d \in Decisions, d.action \in {"type", "click"},
         NEW o
  PROVE  ~Resolves(BuildLadder(d.action, d.target, o), page)
BY DecidedOffPage, OffPageStuck DEF PageTypes

(* A commit, and a wait, keep the page of its types.                       *)
LEMMA WaitTypes ==
  ASSUME PageTypes, NEW n,
         n = NoNav \/ n \in [to : Texts, slow : BOOLEAN, hide : BOOLEAN, attempts : Nat \ {0}],
         WaitBriefly(page, n)
  PROVE  /\ PageTypes' /\ (nav' # NoNav => page'.path = page.path)
         /\ n = NoNav => UNCHANGED page /\ nav' = NoNav
<1>1. CASE n = NoNav
  BY <1>1 DEF WaitBriefly, PageTypes
<1>2. CASE n # NoNav /\ page' = MemberPage(n.to, n.slow, n.hide) /\ nav' = NoNav
  BY <1>2 DEF PageTypes, MemberPage, Texts
<1>3. CASE n # NoNav /\ n.attempts # 1
  <2>1. page' = page /\ nav' = [n EXCEPT !.attempts = @ - 1]
    BY <1>3 DEF WaitBriefly
  <2>2. n.attempts \in Nat \ {0} /\ n.attempts - 1 \in Nat \ {0}
    BY <1>3
  <2>3. nav' \in [to : Texts, slow : BOOLEAN, hide : BOOLEAN, attempts : Nat \ {0}]
    BY <1>3, <2>1, <2>2
  <2> QED
    BY <1>3, <2>1, <2>3 DEF PageTypes
<1> QED
  BY <1>1, <1>2, <1>3 DEF WaitBriefly, Commit

(* What a decided action does to the page: to the member's page, nothing.  *)
LEMMA DecidedActs ==
  ASSUME PageTypes, page.path = "member" => nav = NoNav,
         NEW d \in Decisions, d.action \in {"type", "click", "read", "wait"}, NEW o,
         DriverAct(d.action, BuildLadder(d.action, d.target, o), d.value)
  PROVE  /\ PageTypes'
         /\ page'.path = "member" => nav' = NoNav
         /\ page.path = "member" => page' = page
<1> DEFINE ladder == BuildLadder(d.action, d.target, o)
<1>1. /\ page.path \in {"search", "member"} /\ page.box \in Texts
      /\ page.slow \in BOOLEAN /\ page.hide \in BOOLEAN
  BY DEF PageTypes
<1>2. d.action \in {"type", "click"} /\ Resolves(ladder, page) => page.path = "search"
  BY <1>1, NothingToDo
<1> HIDE DEF ladder
<1>3. DriverAct(d.action, ladder, d.value)
  BY DEF ladder
<1>4. CASE WaitBriefly(page, nav)
  <2>1. nav = NoNav \/ nav \in [to : Texts, slow : BOOLEAN, hide : BOOLEAN,
                                attempts : Nat \ {0}]
    BY DEF PageTypes
  <2>2. /\ PageTypes' /\ (nav' # NoNav => page'.path = page.path)
        /\ nav = NoNav => UNCHANGED page /\ nav' = NoNav
    BY <1>4, <2>1, WaitTypes
  <2> QED
    BY <1>1, <2>2
<1>5. CASE page.path = "search" /\ WaitBriefly(page, Submitted(page))
  <2>1. (IF page.slow THEN SlowAttempts ELSE 1) \in Nat \ {0}
    BY SlowAttemptsAssumption
  <2>2. Submitted(page) \in [to : Texts, slow : BOOLEAN, hide : BOOLEAN, attempts : Nat \ {0}]
    BY <1>1, <2>1 DEF Submitted
  <2>3. PageTypes' /\ (nav' # NoNav => page'.path = page.path)
    BY <1>5, <2>2, WaitTypes
  <2> QED
    BY <1>5, <2>3
<1>6. CASE /\ page.path = "search"
           /\ page' = [page EXCEPT !.box = IF d.value = None THEN "" ELSE d.value]
           /\ UNCHANGED nav
  <2>1. (IF d.value = None THEN "" ELSE d.value) \in Texts
    BY DecisionsAssumption DEF Texts
  <2>2. page'.path = page.path /\ PageTypes'
    BY <1>6, <2>1 DEF PageTypes
  <2> QED
    BY <1>6, <2>2
<1>7. CASE UNCHANGED <<page, nav>>
  BY <1>7 DEF PageTypes
<1> QED
  BY <1>2, <1>3, <1>4, <1>5, <1>6, <1>7 DEF DriverAct

LEMMA DoSees ==
  ASSUME SeenInv, Do
  PROVE  SeenInv'
<1>1. phase = "decide" /\ UNCHANGED <<job, seen, stop>>
  BY DEF Do, Asked
<1>2. PICK d \in Decisions :
        /\ d.action \in {"type", "click", "read", "wait"}
        /\ DriverAct(d.action, BuildLadder(d.action, d.target, seen), d.value)
  BY DEF Do
<1>3. /\ PageTypes' /\ (page'.path = "member" => nav' = NoNav)
      /\ page.path = "member" => page' = page
  BY <1>2, DecidedActs DEF SeenInv
<1> QED
  BY <1>1, <1>3 DEF SeenInv

LEMMA LookSees ==
  ASSUME SeenInv, Look
  PROVE  SeenInv'
<1>1. /\ phase = "look" /\ seen' = LivePerceive(page) /\ UNCHANGED <<job, page, nav>>
      /\ stop # "success"
  BY DEF Look, SeenInv
<1>2. PageTypes' /\ (page'.path = "member" => nav' = NoNav)
  BY <1>1 DEF SeenInv, PageTypes
<1>3. DOMAIN seen'.fields # {} => page'.path = "member" /\ seen' = LivePerceive(page')
  BY <1>1, FieldsOfRows
<1>4. CASE StopWith("dead_end", turns', <<>>)
  BY <1>2, <1>3, <1>4 DEF SeenInv, StopWith
<1>5. CASE Check(seen', job.success) /\ StopWith("success", turns', <<>>)
  BY <1>1, <1>2, <1>3, <1>5 DEF SeenInv, StopWith
<1>6. CASE UNCHANGED stop
  BY <1>1, <1>2, <1>3, <1>6 DEF SeenInv
<1> QED
  BY <1>4, <1>5, <1>6 DEF Look

LEMMA EndSees ==
  ASSUME SeenInv, UNCHANGED <<job, seen, page, nav>>,
         NEW reason, NEW ts, NEW outcomes, StopWith(reason, ts, outcomes),
         reason = "success" => Check(seen, job.success)
  PROVE  SeenInv'
<1>1. phase' = "ended" /\ stop' = reason
  BY DEF StopWith
<1> QED
  BY <1>1 DEF SeenInv, PageTypes

LEMMA SeenStep ==
  ASSUME SeenInv, DiscoveryStep
  PROVE  SeenInv'
<1>1. CASE DecideDone
  BY <1>1, EndSees DEF DecideDone
<1>2. CASE DecideOutcome
  <2>1. PICK d \in Decisions :
          StopWith("business_outcome", turns,
                   <<[name   |-> IF d.outcome = "" THEN "unnamed_outcome" ELSE d.outcome,
                      detect |-> Screen(seen.screen)]>>)
    BY <1>2 DEF DecideOutcome
  <2>2. UNCHANGED <<job, seen, page, nav>>
    BY <1>2 DEF DecideOutcome
  <2>3. \E ts, outcomes : StopWith("business_outcome", ts, outcomes)
    BY <2>1, Zenon
  <2> QED
    BY <2>2, <2>3, EndSees
<1>3. CASE Do
  BY <1>3, DoSees
<1>4. CASE Look
  BY <1>4, LookSees
<1>5. CASE OutOfTurns \/ Timeout \/ DiscoveryRaises
  BY <1>5, EndSees DEF OutOfTurns, Timeout, DiscoveryRaises
<1> QED
  BY <1>1, <1>2, <1>3, <1>4, <1>5 DEF DiscoveryStep

(* Before the page that is on its way has come no field was seen.          *)
LEMMA ArrivalSees ==
  ASSUME SeenInv, NavCommits, UNCHANGED discovery
  PROVE  SeenInv'
<1>1. /\ nav # NoNav /\ nav' = NoNav /\ page' = MemberPage(nav.to, nav.slow, nav.hide)
      /\ UNCHANGED <<job, phase, seen, stop>>
  BY DEF NavCommits, Commit, discovery
<1>2. PageTypes'
  BY <1>1 DEF SeenInv, PageTypes, MemberPage, Texts
<1>3. DOMAIN seen.fields = {}
  BY <1>1 DEF SeenInv
<1> QED
  BY <1>1, <1>2, <1>3 DEF SeenInv

LEMMA SeenInit == DiscoveryInit => SeenInv
<1> SUFFICES ASSUME DiscoveryInit PROVE SeenInv
  OBVIOUS
<1>1. /\ job \in Jobs /\ phase = "decide" /\ page = job.entry /\ nav = NoNav
      /\ stop = "running" /\ seen = LivePerceive(page)
  BY DEF DiscoveryInit
<1>2. PICK slow \in BOOLEAN, hide \in BOOLEAN : page = SearchPage(slow, hide)
  <2>1. job.entry \in {SearchPage(slow, hide) : slow, hide \in BOOLEAN}
    BY <1>1, JobsAssumption
  <2> QED
    BY <1>1, <2>1
<1>3. PageTypes
  <2>1. page = [path |-> "search", member |-> "", box |-> "", slow |-> slow, hide |-> hide]
    BY <1>2 DEF SearchPage
  <2>2. "" \in Texts
    BY DEF Texts
  <2>3. page \in [path : {"search", "member"}, member : Texts, box : Texts,
                  slow : BOOLEAN, hide : BOOLEAN]
    BY <2>1, <2>2
  <2> QED
    BY <1>1, <2>3 DEF PageTypes
<1>4. page.path = "search"
  BY <1>2 DEF SearchPage
<1>5. DOMAIN seen.fields = {}
  BY <1>1, <1>4, FieldsOfRows
<1> QED
  BY <1>1, <1>3, <1>4, <1>5 DEF SeenInv

(* A success for a field was concluded on the page that is still there.    *)
LEMMA SeenGoal ==
  ASSUME SeenInv, job.success.kind = "field"
  PROVE  GoalReached
<1> SUFFICES ASSUME stop = "success" PROVE Check(LivePerceive(page), job.success)
  BY DEF GoalReached
<1>1. Check(seen, job.success)
  BY DEF SeenInv
<1>2. DOMAIN seen.fields # {}
  BY <1>1 DEF Check
<1> QED
  BY <1>1, <1>2 DEF SeenInv

-----------------------------------------------------------------------------
(* What a draft is like, and the log beside it.                            *)

BoundTo(turn, member) ==
  turn.action = "type" => turn.value \notin {None, ""} /\ Strip[turn.value] = member
LedTurn(turn) == turn.action = "click" /\ turn.after = "detail"

(* A turn by itself: its ladder is of its action, and found what it found. *)
TurnShape(t) ==
  /\ Len(t.ladder) <= 3
  /\ Steady(t.ladder)
  /\ Logged(t)
  /\ t.action = "type" => \E r \in DOMAIN t.ladder : t.ladder[r].value = "textbox::"
  /\ t.action = "click" => /\ \E r \in DOMAIN t.ladder : t.ladder[r].value = "button::"
                           /\ OffMemberPage(t.ladder)
  /\ t.action = "read" => t.ladder # <<>>
  /\ t.action = "wait" => t.ladder = <<>>

(* A turn after those before it (InOrder, of the turns).                   *)
ReadFits(ts, k, member) ==
  /\ \/ \E j \in 1..(k - 1) : ts[j].action = "click"
     \/ ts[k].field = "" /\ Finds(ts[k].ladder, SearchPage(FALSE, FALSE))
  /\ \/ \A j \in 1..(k - 1) : ~LedTurn(ts[j])
     \/ \E j \in 1..(k - 1) : ~BoundTo(ts[j], member)
     \/ Finds(ts[k].ladder, MemberPage(member, FALSE, FALSE))

TurnFits(ts, k, member) ==
  /\ ts[k].ok /\ ts[k].action \in {"type", "click"} => \A j \in 1..(k - 1) : ~LedTurn(ts[j])
  /\ ts[k].ok /\ ts[k].action = "read" => ReadFits(ts, k, member)

RunsFor == job.inputs["member_id"]

(* An id that the bank has, if it is on the page at all, is the input.     *)
OwnId(text) == text \in DOMAIN MEMBERS => text = RunsFor

(* How far the run got: nothing leads to a member page but a click, and    *)
(* nothing to another member's than typing something else.                 *)
PageFits ==
  /\ (\A k \in DOMAIN turns : turns[k].action # "click") => page.path = "search" /\ nav = NoNav
  /\ (\E k \in DOMAIN turns : LedTurn(turns[k])) =>
       page.path = "member" /\ page.member \in DOMAIN MEMBERS
  /\ (\A k \in DOMAIN turns : BoundTo(turns[k], RunsFor)) =>
       OwnId(page.box) /\ OwnId(page.member) /\ OwnId(nav.to)

TurnsInv ==
  /\ drifted = {}
  /\ \E p \in ServerPages : seen = LivePerceive(p)
  /\ \A k \in DOMAIN turns : TurnShape(turns[k]) /\ TurnFits(turns, k, RunsFor)
  /\ PageFits
  /\ phase = "look" => turns[Len(turns)].after = ""
  /\ \A a \in draft : \E outcomes : a = CompileArtifact(turns, outcomes)

(* The search page looks the same whatever its form carries along.         *)
LEMMA SearchShows ==
  ASSUME NEW p, p.path = "search"
  PROVE  /\ Shows(p) = Shows(SearchPage(FALSE, FALSE))
         /\ LivePerceive(p) = LivePerceive(SearchPage(FALSE, FALSE))
<1>1. SearchPage(FALSE, FALSE).path = "search"
  BY DEF SearchPage
<1>2. \A q : q.path = "search" => Rows(q) = {}
  BY DEF Rows
<1>3. \A q : q.path = "search" => LivePerceive(q) = [screen |-> "search", fields |-> <<>>]
  <2> SUFFICES ASSUME NEW q, q.path = "search"
               PROVE  LivePerceive(q) = [screen |-> "search", fields |-> <<>>]
    OBVIOUS
  <2>1. LivePerceive(q) = [screen |-> "search", fields |-> [f \in {} |-> Cells(q.member)[f]]]
    BY <1>2, OnePageSeen DEF NoSuchMember
  <2>2. [f \in {} |-> Cells(q.member)[f]] = <<>>
    OBVIOUS
  <2> QED
    BY <2>1, <2>2
<1> QED
  BY <1>1, <1>3 DEF Shows

(* So does a member's page, but for the row that is hidden or not.         *)
LEMMA MemberShows ==
  ASSUME NEW p, p.path = "member", p.member \in DOMAIN MEMBERS
  PROVE  /\ Shows(p) = Shows(MemberPage(p.member, FALSE, p.hide))
         /\ LivePerceive(p) = LivePerceive(MemberPage(p.member, FALSE, p.hide))
         /\ Shows(p) \subseteq Shows(MemberPage(p.member, FALSE, FALSE))
<1> DEFINE q == MemberPage(p.member, FALSE, p.hide)
           o == MemberPage(p.member, FALSE, FALSE)
<1>1. /\ q.path = "member" /\ q.member = p.member /\ q.hide = p.hide
      /\ o.path = "member" /\ o.member = p.member /\ o.hide = FALSE
  BY DEF MemberPage
<1> HIDE DEF q, o
<1>2. Rows(q) = Rows(p) /\ Rows(p) \subseteq Rows(o)
  BY <1>1 DEF Rows
<1>3. Shows(q) = Shows(p) /\ LivePerceive(q) = LivePerceive(p)
  BY <1>1, <1>2, OnePageSeen DEF NoSuchMember, Shows
<1>4. \A x \in {p, o} :
        Shows(x) = {Labels[f] : f \in Rows(x)} \cup {"cell::" \o Labels[f] : f \in Rows(x)}
                     \cup {"cell::" \o Cells(p.member)[f] : f \in Rows(x)}
  BY <1>1 DEF Shows
<1>5. Shows(p) \subseteq Shows(o)
  BY <1>2, <1>4, Zenon
<1> QED
  BY <1>3, <1>5 DEF q, o

(* Any other page is that of a member whom nobody knows.                   *)
LEMMA EmptyShows ==
  ASSUME NEW p, p.path = "member", p.member \notin DOMAIN MEMBERS, NEW hide \in BOOLEAN
  PROVE  /\ Shows(p) = {} /\ LivePerceive(p) = LivePerceive(MemberPage("", FALSE, hide))
<1> DEFINE q == MemberPage("", FALSE, hide)
<1>1. q.path = "member" /\ q.member = ""
  BY DEF MemberPage
<1> HIDE DEF q
<1>2. q.member \notin DOMAIN MEMBERS
  BY <1>1, MembersAssumption
<1>3. Rows(p) = {} /\ Rows(q) = {}
  BY <1>2 DEF Rows
<1>4. Shows(p) = {}
  BY <1>3 DEF Shows
<1>5. \A x \in {p, q} : LivePerceive(x) = [screen |-> "not_found", fields |-> <<>>]
  <2> SUFFICES ASSUME NEW x \in {p, q}
               PROVE  LivePerceive(x) = [screen |-> "not_found", fields |-> <<>>]
    OBVIOUS
  <2>1. LivePerceive(x) = [screen |-> "not_found", fields |-> [f \in {} |-> Cells(x.member)[f]]]
    BY <1>1, <1>2, <1>3, OnePageSeen DEF NoSuchMember
  <2>2. [f \in {} |-> Cells(x.member)[f]] = <<>>
    OBVIOUS
  <2> QED
    BY <2>1, <2>2
<1> QED
  BY <1>4, <1>5 DEF q

LEMMA OnServer ==
  /\ SearchPage(FALSE, FALSE) \in ServerPages
  /\ \A id \in DOMAIN MEMBERS \cup {""}, hide \in BOOLEAN :
       MemberPage(id, FALSE, hide) \in ServerPages
<1>1. SearchPage(FALSE, FALSE) \in ServerPages
  BY DEF ServerPages
<1>2. ASSUME NEW id \in DOMAIN MEMBERS \cup {""}, NEW hide \in BOOLEAN
      PROVE  MemberPage(id, FALSE, hide) \in ServerPages
  <2>1. CASE hide = TRUE
    BY <2>1 DEF ServerPages
  <2>2. CASE hide = FALSE
    BY <2>2 DEF ServerPages
  <2> QED
    BY <2>1, <2>2
<1> QED
  BY <1>1, <1>2

(* Whatever is found, or seen, is found or seen on a page of the server.   *)
LEMMA PageOfServer ==
  ASSUME NEW p, p.path \in {"search", "member"}, p.hide \in BOOLEAN
  PROVE  /\ \E q \in ServerPages : LivePerceive(p) = LivePerceive(q)
         /\ Shows(p) # {} => \E q \in ServerPages : Shows(p) = Shows(q)
<1>1. CASE p.path = "search"
  <2>1. SearchPage(FALSE, FALSE) \in ServerPages
    BY DEF ServerPages
  <2> QED
    BY <1>1, <2>1, SearchShows
<1>2. CASE p.path = "member" /\ p.member \in DOMAIN MEMBERS
  <2>1. MemberPage(p.member, FALSE, p.hide) \in ServerPages
    BY <1>2, OnServer
  <2> QED
    BY <1>2, <2>1, MemberShows
<1>3. CASE p.path = "member" /\ p.member \notin DOMAIN MEMBERS
  <2>1. MemberPage("", FALSE, FALSE) \in ServerPages
    BY OnServer
  <2>2. Shows(p) = {} /\ LivePerceive(p) = LivePerceive(MemberPage("", FALSE, FALSE))
    BY <1>3, EmptyShows
  <2> QED
    BY <2>1, <2>2
<1> QED
  BY <1>1, <1>2, <1>3

-----------------------------------------------------------------------------
(* A ladder of each kind, and what it always holds.                        *)
LEMMA LadderShape ==
  ASSUME NEW d \in Decisions, NEW o
  PROVE  LET ladder == BuildLadder(d.action, d.target, o)
         IN /\ d.action = "type" => \E r \in DOMAIN ladder : ladder[r].value = "textbox::"
            /\ d.action = "click" => \E r \in DOMAIN ladder : ladder[r].value = "button::"
            /\ d.action = "read" => ladder # <<>>
            /\ d.action = "wait" => ladder = <<>>
<1> DEFINE ladder == BuildLadder(d.action, d.target, o)
<1>1. ASSUME d.action = "type" PROVE \E r \in DOMAIN ladder : ladder[r].value = "textbox::"
  <2>1. ladder = <<Rung("role_name", "textbox::" \o d.target), Rung("role_name", "textbox::")>>
    BY <1>1 DEF BuildLadder
  <2>2. 2 \in DOMAIN ladder /\ ladder[2] = Rung("role_name", "textbox::")
    BY <2>1
  <2> QED
    BY <2>2 DEF Rung
<1>2. ASSUME d.action = "click" PROVE \E r \in DOMAIN ladder : ladder[r].value = "button::"
  <2>1. ladder = <<Rung("role_name", "button::" \o d.target),
                   Rung("role_name", "link::" \o d.target), Rung("role_name", "button::")>>
    BY <1>2 DEF BuildLadder
  <2>2. 3 \in DOMAIN ladder /\ ladder[3] = Rung("role_name", "button::")
    BY <2>1
  <2> QED
    BY <2>2 DEF Rung
<1>3. ASSUME d.action = "read" PROVE ladder # <<>>
  <2>1. PICK a, b, c : ladder = <<a, b, c>>
    BY <1>3 DEF BuildLadder
  <2>2. Len(<<a, b, c>>) = 3 /\ Len(<<>>) = 0
    OBVIOUS
  <2> QED
    BY <2>1, <2>2
<1>4. ASSUME d.action = "wait" PROVE ladder = <<>>
  BY <1>4 DEF BuildLadder
<1> HIDE DEF ladder
<1>5. /\ d.action = "type" => \E r \in DOMAIN ladder : ladder[r].value = "textbox::"
      /\ d.action = "click" => \E r \in DOMAIN ladder : ladder[r].value = "button::"
      /\ d.action = "read" => ladder # <<>>
      /\ d.action = "wait" => ladder = <<>>
  BY <1>1, <1>2, <1>3, <1>4
<1> QED
  BY <1>5 DEF ladder

(* What is entered with a turn.                                            *)
LEMMA TurnHas ==
  ASSUME NEW d, NEW ladder
  PROVE  /\ Turn(d, ladder).action = d.action /\ Turn(d, ladder).value = d.value
         /\ Turn(d, ladder).ladder = ladder
         /\ Turn(d, ladder).rung = IF d.action = "wait" THEN 0 ELSE ResolvedRung(ladder, page)
         /\ Turn(d, ladder).field = FieldKey(d.action, d.target, seen)
         /\ Turn(d, ladder).ok = ActOk(d.action, ladder)
         /\ Turn(d, ladder).after = ""
BY DEF Turn

(* A decided turn, as it is entered.                                       *)
LEMMA TurnEntered ==
  ASSUME drifted = {}, PageTypes, \E p \in ServerPages : seen = LivePerceive(p),
         NEW d \in Decisions, d.action \in {"type", "click", "read", "wait"}
  PROVE  TurnShape(Turn(d, BuildLadder(d.action, d.target, seen)))
<1> DEFINE ladder == BuildLadder(d.action, d.target, seen)
           t == Turn(d, ladder)
<1>1. /\ t.action = d.action /\ t.ladder = ladder /\ t.ok = ActOk(d.action, ladder)
      /\ t.rung = IF d.action = "wait" THEN 0 ELSE ResolvedRung(ladder, page)
  BY DEF Turn
<1>2. ladder \in Seq(Locator) /\ Len(ladder) <= 3
  BY LadderType
<1>3. Steady(ladder)
  BY SteadyAssumption
<1>4. /\ d.action = "type" => \E r \in DOMAIN ladder : ladder[r].value = "textbox::"
      /\ d.action = "click" => \E r \in DOMAIN ladder : ladder[r].value = "button::"
      /\ d.action = "read" => ladder # <<>>
      /\ d.action = "wait" => ladder = <<>>
  BY LadderShape
<1> HIDE DEF ladder, t
<1>5. Logged(t)
  <2> SUFFICES ASSUME t.ok, t.ladder # <<>>
               PROVE  \E p \in ServerPages : FoundAt(t.ladder, Shows(p), t.rung)
    BY DEF Logged
  <2>1. d.action # "wait" /\ Resolves(ladder, page)
    BY <1>1, <1>4 DEF ActOk
  <2>2. FoundAt(ladder, Shows(page), t.rung)
    BY <1>1, <1>2, <2>1, RungFound DEF Present
  <2>3. Shows(page) # {}
    BY <2>2 DEF FoundAt
  <2>4. page.path \in {"search", "member"} /\ page.hide \in BOOLEAN
    BY DEF PageTypes
  <2>5. PICK q \in ServerPages : Shows(page) = Shows(q)
    BY <2>3, <2>4, PageOfServer
  <2> QED
    BY <1>1, <2>2, <2>5
<1>6. d.action = "click" => OffMemberPage(ladder)
  BY DecidedOffPage DEF ladder
<1>7. TurnShape(t)
  BY <1>1, <1>2, <1>3, <1>4, <1>5, <1>6 DEF TurnShape
<1> QED
  BY <1>7 DEF t, ladder

(* No field is read where none is seen.                                    *)
LEMMA NoFieldNoKey ==
  ASSUME NEW o, DOMAIN o.fields = {}, NEW action, NEW target
  PROVE  FieldKey(action, target, o) = ""
BY DEF FieldKey, BestLabelMatch

(* A turn that was carried out could be, where it was entered.             *)
LEMMA TurnFitsIn ==
  ASSUME SeenInv, TurnsInv, turns \in Seq(TurnLog),
         NEW d \in Decisions, d.action \in {"type", "click", "read", "wait"},
         NEW ts, ts = Append(turns, Turn(d, BuildLadder(d.action, d.target, seen)))
  PROVE  TurnFits(ts, Len(turns) + 1, RunsFor)
<1> DEFINE ladder == BuildLadder(d.action, d.target, seen)
           n == Len(turns)
<1>1. /\ n \in Nat /\ DOMAIN turns = 1..n
      /\ \A j \in 1..n : ts[j] = turns[j]
      /\ ts[n + 1] = Turn(d, ladder)
  BY ListOfSeq, ListAppend
<1>0. Resolves(ladder, page) /\ d.action \in {"type", "click"} => page.path # "member"
  BY NothingToDo DEF SeenInv
<1> HIDE DEF ladder, n
<1>2. /\ ts[n + 1].action = d.action /\ ts[n + 1].ladder = ladder
      /\ ts[n + 1].ok = ActOk(d.action, ladder)
      /\ ts[n + 1].field = FieldKey(d.action, d.target, seen)
  <2>1. /\ Turn(d, ladder).action = d.action /\ Turn(d, ladder).value = d.value
        /\ Turn(d, ladder).ladder = ladder /\ Turn(d, ladder).ok = ActOk(d.action, ladder)
        /\ Turn(d, ladder).field = FieldKey(d.action, d.target, seen)
        /\ Turn(d, ladder).after = ""
    BY TurnHas
  <2> QED
    BY <1>1, <2>1
<1>3. (n + 1) - 1 = n
  BY <1>1
<1>4. PageTypes /\ drifted = {} /\ PageFits
  BY DEF SeenInv, TurnsInv
<1>5. ASSUME ActOk(d.action, ladder), d.action \in {"type", "click"}, NEW j \in 1..n
      PROVE  ~LedTurn(turns[j])
  <2> SUFFICES ASSUME LedTurn(turns[j]) PROVE FALSE
    OBVIOUS
  <2>1. page.path = "member"
    BY <1>1, <1>4 DEF PageFits
  <2> QED
    BY <1>0, <1>5, <2>1 DEF ActOk
<1>6. ASSUME ActOk(d.action, ladder), d.action = "read"
      PROVE  ReadFits(ts, n + 1, RunsFor)
  <2>1. PICK r \in DOMAIN ladder : ladder[r].value \in Shows(page)
    BY <1>4, <1>6 DEF ActOk, Resolves, Present
  <2>3. ASSUME \A j \in 1..n : turns[j].action # "click"
        PROVE  ts[n + 1].field = "" /\ Finds(ladder, SearchPage(FALSE, FALSE))
    <3>1. page.path = "search"
      BY <1>1, <1>4, <2>3 DEF PageFits
    <3>2. DOMAIN seen.fields = {}
      BY <3>1 DEF SeenInv
    <3>3. ts[n + 1].field = ""
      BY <1>2, <3>2, NoFieldNoKey
    <3>4. Finds(ladder, SearchPage(FALSE, FALSE))
      BY <2>1, <3>1, SearchShows DEF Finds
    <3> QED
      BY <3>3, <3>4
  <2>4. \/ \E j \in 1..n : ts[j].action = "click"
        \/ ts[n + 1].field = "" /\ Finds(ts[n + 1].ladder, SearchPage(FALSE, FALSE))
    BY <1>1, <1>2, <2>3
  <2>5. ASSUME NEW j \in 1..n, LedTurn(turns[j]), \A k \in 1..n : BoundTo(turns[k], RunsFor)
        PROVE  Finds(ladder, MemberPage(RunsFor, FALSE, FALSE))
    <3>1. page.path = "member" /\ page.member \in DOMAIN MEMBERS /\ OwnId(page.member)
      BY <1>1, <1>4, <2>5 DEF PageFits
    <3>2. page.member = RunsFor
      BY <3>1 DEF OwnId
    <3>3. Shows(page) \subseteq Shows(MemberPage(RunsFor, FALSE, FALSE))
      BY <3>1, <3>2, MemberShows
    <3> QED
      BY <2>1, <3>3 DEF Finds
  <2>6. \/ \A j \in 1..n : ~LedTurn(ts[j])
        \/ \E j \in 1..n : ~BoundTo(ts[j], RunsFor)
        \/ Finds(ts[n + 1].ladder, MemberPage(RunsFor, FALSE, FALSE))
    BY <1>1, <1>2, <2>5
  <2> QED
    BY <1>3, <2>4, <2>6 DEF ReadFits
<1>7. TurnFits(ts, n + 1, RunsFor)
  BY <1>1, <1>2, <1>3, <1>5, <1>6 DEF TurnFits
<1> QED
  BY <1>7 DEF n

(* What is known of a turn depends on the turns before it.                 *)
LEMMA FitsKept ==
  ASSUME NEW ts, NEW us, NEW member, NEW k \in Nat, TurnFits(ts, k, member),
         \A j \in 1..(k - 1) : us[j] = ts[j],
         us[k].action = ts[k].action, us[k].ladder = ts[k].ladder, us[k].ok = ts[k].ok,
         us[k].field = ts[k].field
  PROVE  TurnFits(us, k, member)
BY DEF TurnFits, ReadFits

(* Where the run got to by the turn that was entered last.                 *)
LEMMA DoFits ==
  ASSUME SeenInv, TurnsInv, turns \in Seq(TurnLog), UNCHANGED job,
         NEW d \in Decisions, d.action \in {"type", "click", "read", "wait"},
         DriverAct(d.action, BuildLadder(d.action, d.target, seen), d.value),
         turns' = Append(turns, Turn(d, BuildLadder(d.action, d.target, seen)))
  PROVE  PageFits'
<1> DEFINE ladder == BuildLadder(d.action, d.target, seen)
           n == Len(turns)
<1>1. /\ n \in Nat /\ DOMAIN turns = 1..n
      /\ IsList(turns') /\ Len(turns') = n + 1
      /\ \A j \in 1..n : turns'[j] = turns[j]
      /\ turns'[n + 1] = Turn(d, ladder)
  BY ListOfSeq, ListAppend
<1>2. DOMAIN turns' = 1..(n + 1)
  BY <1>1, ListShape
<1>3. /\ turns'[n + 1].action = d.action /\ turns'[n + 1].value = d.value
      /\ turns'[n + 1].after = ""
  <2> HIDE DEF ladder, n
  <2>1. /\ Turn(d, ladder).action = d.action /\ Turn(d, ladder).value = d.value
        /\ Turn(d, ladder).ladder = ladder /\ Turn(d, ladder).ok = ActOk(d.action, ladder)
        /\ Turn(d, ladder).field = FieldKey(d.action, d.target, seen)
        /\ Turn(d, ladder).after = ""
    BY TurnHas
  <2> QED
    BY <1>1, <2>1
<1>4. PageTypes /\ PageFits /\ (page.path = "member" => nav = NoNav)
  BY DEF SeenInv, TurnsInv
<1>5. page.path = "member" => page' = page
  BY <1>4, DecidedActs
<1>6. DriverAct(d.action, ladder, d.value)
  OBVIOUS
<1> HIDE DEF ladder, n
<1>0. /\ n + 1 \in 1..(n + 1)
      /\ \A k \in 1..n : k \in 1..(n + 1)
      /\ \A k \in 1..(n + 1) : k \in 1..n \/ k = n + 1
  BY <1>1
<1>7. ASSUME \A k \in 1..(n + 1) : turns'[k].action # "click"
      PROVE  page'.path = "search" /\ nav' = NoNav
  <2>1. page.path = "search" /\ nav = NoNav /\ d.action # "click"
    BY <1>0, <1>1, <1>3, <1>4, <1>7 DEF PageFits
  <2>2. page'.path = page.path /\ nav' = NoNav
    BY <1>4, <1>6, <2>1 DEF DriverAct, WaitBriefly, PageTypes
  <2> QED
    BY <2>1, <2>2
<1>8. ASSUME NEW k \in 1..(n + 1), LedTurn(turns'[k])
      PROVE  page'.path = "member" /\ page'.member \in DOMAIN MEMBERS
  <2>1. k \in 1..n
    BY <1>0, <1>3, <1>8 DEF LedTurn
  <2>2. page.path = "member" /\ page.member \in DOMAIN MEMBERS
    BY <1>1, <1>4, <1>8, <2>1 DEF PageFits
  <2> QED
    BY <1>5, <2>2
<1>9. ASSUME \A k \in 1..(n + 1) : BoundTo(turns'[k], RunsFor)
      PROVE  OwnId(page'.box) /\ OwnId(page'.member) /\ OwnId(nav'.to)
  <2>1. OwnId(page.box) /\ OwnId(page.member) /\ OwnId(nav.to)
    BY <1>1, <1>4, <1>9 DEF PageFits
  <2>2. OwnId("") /\ NoNav.to = ""
    BY MembersAssumption DEF OwnId, NoNav
  <2>3. ASSUME NEW p, NEW m, WaitBriefly(p, m), m = NoNav \/ OwnId(m.to),
               OwnId(p.box), OwnId(p.member),
               m = NoNav \/ m \in [to : Texts, slow : BOOLEAN, hide : BOOLEAN,
                                   attempts : Nat \ {0}]
        PROVE  OwnId(page'.box) /\ OwnId(page'.member) /\ OwnId(nav'.to)
    <3>1. CASE m = NoNav
      BY <2>2, <2>3, <3>1 DEF WaitBriefly
    <3>2. CASE m # NoNav /\ page' = MemberPage(m.to, m.slow, m.hide) /\ nav' = NoNav
      <4>1. page'.box = "" /\ page'.member = m.to
        BY <3>2 DEF MemberPage
      <4> QED
        BY <2>2, <2>3, <3>2, <4>1
    <3>3. CASE m # NoNav /\ page' = p /\ nav' = [m EXCEPT !.attempts = @ - 1]
      <4>1. nav'.to = m.to
        BY <2>3, <3>3
      <4> QED
        BY <2>3, <3>3, <4>1
    <3> QED
      BY <2>3, <3>1, <3>2, <3>3 DEF WaitBriefly, Commit
  <2>4. CASE WaitBriefly(page, nav)
    BY <1>4, <2>1, <2>3, <2>4 DEF PageTypes
  <2>5. CASE WaitBriefly(page, Submitted(page))
    <3>1. Submitted(page).to = page.box
      BY DEF Submitted
    <3>2. (IF page.slow THEN SlowAttempts ELSE 1) \in Nat \ {0}
      BY SlowAttemptsAssumption
    <3>3. Submitted(page) \in [to : Texts, slow : BOOLEAN, hide : BOOLEAN,
                               attempts : Nat \ {0}]
      BY <1>4, <3>2 DEF Submitted, PageTypes
    <3> QED
      BY <2>1, <2>3, <2>5, <3>1, <3>3
  <2>6. CASE /\ d.action = "type"
             /\ page' = [page EXCEPT !.box = IF d.value = None THEN "" ELSE d.value]
             /\ UNCHANGED nav
    <3>1. BoundTo(turns'[n + 1], RunsFor)
      BY <1>1, <1>9
    <3>2. d.value \notin {None, ""} /\ Strip[d.value] = RunsFor
      BY <1>3, <2>6, <3>1 DEF BoundTo
    <3>3. OwnId(d.value)
      BY <3>2, StripAssumption DEF OwnId
    <3>4. page'.box = d.value /\ page'.member = page.member
      BY <1>4, <2>6, <3>2 DEF PageTypes
    <3> QED
      BY <2>1, <2>6, <3>3, <3>4
  <2>7. CASE UNCHANGED <<page, nav>>
    BY <2>1, <2>7
  <2> QED
    BY <1>6, <2>4, <2>5, <2>6, <2>7 DEF DriverAct
<1>10. RunsFor' = RunsFor
  BY DEF RunsFor
<1> QED
  BY <1>2, <1>7, <1>8, <1>9, <1>10 DEF PageFits, OwnId

(* The turns before, and the one that is entered.                          *)
LEMMA DoWalks ==
  ASSUME LoopTypes, DraftInv, SeenInv, TurnsInv, Do
  PROVE  TurnsInv'
<1>1. /\ turns \in Seq(TurnLog) /\ phase = "decide" /\ phase' = "look" /\ draft = {}
      /\ UNCHANGED <<job, seen, draft, drifted>> /\ drifted = {} /\ PageTypes
  BY DEF LoopTypes, DiscoveryTypeOK, Do, Asked, TurnsInv, SeenInv, DraftInv
<1>2. PICK d \in Decisions :
        /\ d.action \in {"type", "click", "read", "wait"}
        /\ DriverAct(d.action, BuildLadder(d.action, d.target, seen), d.value)
        /\ turns' = Append(turns, Turn(d, BuildLadder(d.action, d.target, seen)))
  BY DEF Do
<1> DEFINE t == Turn(d, BuildLadder(d.action, d.target, seen))
           n == Len(turns)
<1>3. /\ n \in Nat /\ DOMAIN turns = 1..n
      /\ IsList(turns') /\ Len(turns') = n + 1
      /\ \A j \in 1..n : turns'[j] = turns[j]
      /\ turns'[n + 1] = t
  BY <1>1, <1>2, ListOfSeq, ListAppend
<1>4. DOMAIN turns' = 1..(n + 1)
  BY <1>3, ListShape
<1>5. TurnShape(t) /\ t.after = ""
  <2>1. \E p \in ServerPages : seen = LivePerceive(p)
    BY DEF TurnsInv
  <2> QED
    BY <1>1, <1>2, <2>1, TurnEntered, TurnHas
<1>6. TurnFits(turns', n + 1, RunsFor)
  BY <1>1, <1>2, TurnFitsIn
<1>7. PageFits'
  BY <1>1, <1>2, DoFits
<1> HIDE DEF t, n
<1>8. ASSUME NEW k \in 1..(n + 1) PROVE TurnShape(turns'[k]) /\ TurnFits(turns', k, RunsFor)
  <2>1. CASE k = n + 1
    BY <1>3, <1>5, <1>6, <2>1
  <2>2. CASE k # n + 1
    <3>1. k \in 1..n /\ k \in Nat /\ \A j \in 1..(k - 1) : j \in 1..n
      BY <1>3, <2>2
    <3>2. TurnShape(turns[k]) /\ TurnFits(turns, k, RunsFor)
      BY <1>3, <3>1 DEF TurnsInv
    <3>3. turns'[k] = turns[k] /\ \A j \in 1..(k - 1) : turns'[j] = turns[j]
      BY <1>3, <3>1
    <3>4. TurnFits(turns', k, RunsFor)
      BY <3>1, <3>2, <3>3, FitsKept
    <3> QED
      BY <3>2, <3>3, <3>4
  <2> QED
    BY <2>1, <2>2
<1>9. turns'[Len(turns')].after = ""
  BY <1>3, <1>5
<1>10. RunsFor' = RunsFor
  BY <1>1 DEF RunsFor
<1> QED
  BY <1>1, <1>4, <1>7, <1>8, <1>9, <1>10 DEF TurnsInv

(* What perceive() shows is where the last turn led.                       *)
LEMMA LookWalks ==
  ASSUME LoopTypes, DraftInv, SeenInv, TurnsInv, Look
  PROVE  TurnsInv'
<1> DEFINE n == Len(turns)
<1>1. /\ turns \in Seq(TurnLog) /\ n \in Nat /\ n # 0 /\ DOMAIN turns = 1..n
      /\ seen' = LivePerceive(page) /\ UNCHANGED <<job, page, nav, drifted>>
      /\ phase = "look" /\ phase' # "look" /\ PageTypes
  BY DEF LoopTypes, DiscoveryTypeOK, Look, SeenInv, StopWith
<1>2. turns' = [turns EXCEPT ![n] = [@ EXCEPT !.after = seen'.screen]]
  BY DEF Look
<1>3. \A k \in 1..n : IsTurn(turns[k])
  BY <1>1 DEF DraftInv
<1>4. /\ DOMAIN turns' = 1..n
      /\ \A k \in 1..n : k # n => turns'[k] = turns[k]
      /\ \A k \in 1..n : /\ turns'[k].action = turns[k].action
                         /\ turns'[k].value = turns[k].value
                         /\ turns'[k].ladder = turns[k].ladder
                         /\ turns'[k].rung = turns[k].rung
                         /\ turns'[k].field = turns[k].field
                         /\ turns'[k].ok = turns[k].ok
      /\ turns'[n].after = seen'.screen
  BY <1>1, <1>2, <1>3 DEF IsTurn
<1> HIDE DEF n
<1>5. ASSUME NEW k \in 1..n PROVE TurnShape(turns'[k]) /\ TurnFits(turns', k, RunsFor)
  <2>1. TurnShape(turns[k]) /\ TurnFits(turns, k, RunsFor)
    BY <1>1 DEF TurnsInv
  <2>2. TurnShape(turns'[k])
    BY <1>4, <2>1 DEF TurnShape, Logged
  <2>3. k \in Nat /\ \A j \in 1..(k - 1) : j \in 1..n /\ j # n
    BY <1>1
  <2>4. \A j \in 1..(k - 1) : turns'[j] = turns[j]
    BY <1>4, <2>3
  <2>5. TurnFits(turns', k, RunsFor)
    BY <1>4, <2>1, <2>3, <2>4, FitsKept
  <2> QED
    BY <2>2, <2>5
<1>6. RunsFor' = RunsFor
  BY <1>1 DEF RunsFor
<1>7. PageFits'
  <2>1. PageFits
    BY DEF TurnsInv
  <2>2. ASSUME NEW k \in 1..n, LedTurn(turns'[k])
        PROVE  page.path = "member" /\ page.member \in DOMAIN MEMBERS
    <3>1. CASE k = n
      <4>1. LivePerceive(page).screen = "detail"
        BY <1>1, <1>4, <2>2, <3>1 DEF LedTurn
      <4> QED
        BY <1>1, <4>1, OnePageSeen DEF NoSuchMember, PageTypes
    <3>2. CASE k # n
      BY <1>1, <1>4, <2>1, <2>2, <3>2 DEF PageFits
    <3> QED
      BY <3>1, <3>2
  <2>3. (\A k \in 1..n : turns'[k].action # "click") => page.path = "search" /\ nav = NoNav
    BY <1>1, <1>4, <2>1 DEF PageFits
  <2>4. (\A k \in 1..n : BoundTo(turns'[k], RunsFor)) =>
          OwnId(page.box) /\ OwnId(page.member) /\ OwnId(nav.to)
    BY <1>1, <1>4, <2>1 DEF PageFits, BoundTo
  <2> QED
    BY <1>1, <1>4, <1>6, <2>2, <2>3, <2>4 DEF PageFits, OwnId
<1>8. \E p \in ServerPages : seen' = LivePerceive(p)
  BY <1>1, PageOfServer DEF PageTypes
<1>9. (\A a \in draft : \E outcomes : a = CompileArtifact(turns, outcomes))'
  <2>1. draft' = {} \/ draft' = {CompileArtifact(turns', <<>>)}
    BY <1>1 DEF Look, StopWith, DraftInv
  <2>2. CompileArtifact(turns, <<>>)' = CompileArtifact(turns', <<>>)
    BY <1>1 DEF CompileArtifact, CompileStep, Binding
  <2> QED
    BY <2>1, <2>2
<1> QED
  BY <1>1, <1>4, <1>5, <1>6, <1>7, <1>8, <1>9 DEF TurnsInv

(* A run that ends while the model decides keeps the turns it has.         *)
LEMMA EndWalks ==
  ASSUME TurnsInv, UNCHANGED <<job, seen, turns, page, nav, drifted>>,
         NEW reason, NEW outcomes, StopWith(reason, turns, outcomes)
  PROVE  TurnsInv'
<1>1. phase' = "ended" /\ (draft' = {} \/ draft' = {CompileArtifact(turns, outcomes)})
  BY DEF StopWith
<1>2. RunsFor' = RunsFor /\ CompileArtifact(turns, outcomes)' = CompileArtifact(turns, outcomes)
  BY DEF RunsFor, CompileArtifact, CompileStep, Binding
<1>3. PageFits'
  BY <1>2 DEF TurnsInv, PageFits, OwnId
<1>4. (\A a \in draft : \E o : a = CompileArtifact(turns, o))'
  BY <1>1, <1>2
<1> QED
  BY <1>1, <1>2, <1>3, <1>4 DEF TurnsInv

LEMMA TurnsStep ==
  ASSUME LoopTypes, DraftInv, SeenInv, TurnsInv, DiscoveryStep
  PROVE  TurnsInv'
<1>1. CASE DecideDone
  BY <1>1, EndWalks DEF DecideDone
<1>2. CASE DecideOutcome
  <2>1. PICK outcomes : StopWith("business_outcome", turns, outcomes)
    BY <1>2 DEF DecideOutcome
  <2>2. UNCHANGED <<job, seen, turns, page, nav, drifted>>
    BY <1>2 DEF DecideOutcome
  <2> QED
    BY <2>1, <2>2, EndWalks
<1>3. CASE Do
  BY <1>3, DoWalks
<1>4. CASE Look
  BY <1>4, LookWalks
<1>5. CASE OutOfTurns \/ Timeout \/ DiscoveryRaises
  BY <1>5, EndWalks DEF OutOfTurns, Timeout, DiscoveryRaises
<1> QED
  BY <1>1, <1>2, <1>3, <1>4, <1>5 DEF DiscoveryStep

(* The page that arrives is that of the id in the search that was sent.    *)
LEMMA ArrivalWalks ==
  ASSUME SeenInv, TurnsInv, NavCommits, UNCHANGED <<discovery, drifted>>
  PROVE  TurnsInv'
<1>1. /\ nav # NoNav /\ nav' = NoNav /\ page' = MemberPage(nav.to, nav.slow, nav.hide)
      /\ UNCHANGED <<job, phase, seen, turns, draft, drifted>>
      /\ page.path # "member"
  BY DEF NavCommits, Commit, discovery, SeenInv
<1>2. RunsFor' = RunsFor /\ \A o : CompileArtifact(turns, o)' = CompileArtifact(turns, o)
  BY <1>1 DEF RunsFor, CompileArtifact, CompileStep, Binding
<1>3. OwnId("") /\ NoNav.to = ""
  BY MembersAssumption DEF OwnId, NoNav
<1>4. page'.box = "" /\ page'.member = nav.to
  BY <1>1 DEF MemberPage
<1>5. PageFits'
  BY <1>1, <1>2, <1>3, <1>4 DEF TurnsInv, PageFits, OwnId
<1>6. (\A a \in draft : \E o : a = CompileArtifact(turns, o))'
  BY <1>1, <1>2 DEF TurnsInv
<1> QED
  BY <1>1, <1>2, <1>5, <1>6 DEF TurnsInv

LEMMA TurnsKept ==
  ASSUME TurnsInv, UNCHANGED <<discovery, drifted, page, nav>>
  PROVE  TurnsInv'
<1>1. UNCHANGED <<job, phase, seen, turns, draft, page, nav, drifted>>
  BY DEF discovery
<1>2. RunsFor' = RunsFor /\ \A o : CompileArtifact(turns, o)' = CompileArtifact(turns, o)
  BY <1>1 DEF RunsFor, CompileArtifact, CompileStep, Binding
<1>3. PageFits'
  BY <1>1, <1>2 DEF TurnsInv, PageFits, OwnId
<1>4. (\A a \in draft : \E o : a = CompileArtifact(turns, o))'
  BY <1>1, <1>2 DEF TurnsInv
<1> QED
  BY <1>1, <1>2, <1>3, <1>4 DEF TurnsInv

LEMMA TurnsInit == DiscoveryInit => TurnsInv
<1> SUFFICES ASSUME DiscoveryInit PROVE TurnsInv
  OBVIOUS
<1>1. /\ job \in Jobs /\ phase = "decide" /\ page = job.entry /\ nav = NoNav /\ drifted = {}
      /\ turns = <<>> /\ draft = {} /\ seen = LivePerceive(page)
  BY DEF DiscoveryInit
<1>2. PICK slow \in BOOLEAN, hide \in BOOLEAN : page = SearchPage(slow, hide)
  <2>1. job.entry \in {SearchPage(slow, hide) : slow, hide \in BOOLEAN}
    BY <1>1, JobsAssumption
  <2> QED
    BY <1>1, <2>1
<1>3. page.path = "search" /\ page.hide \in BOOLEAN /\ page.box = "" /\ page.member = ""
  BY <1>2 DEF SearchPage
<1>4. DOMAIN turns = {}
  BY <1>1
<1>5. OwnId("") /\ NoNav.to = ""
  BY MembersAssumption DEF OwnId, NoNav
<1>6. PageFits
  BY <1>1, <1>3, <1>4, <1>5 DEF PageFits
<1>7. \E p \in ServerPages : seen = LivePerceive(p)
  <2>1. \E p \in ServerPages : LivePerceive(page) = LivePerceive(p)
    <3>1. page.path \in {"search", "member"}
      BY <1>3
    <3>2. page.hide \in BOOLEAN
      BY <1>3
    <3> QED
      BY <3>1, <3>2, PageOfServer
  <2> QED
    BY <1>1, <2>1
<1> QED
  BY <1>1, <1>4, <1>6, <1>7 DEF TurnsInv

-----------------------------------------------------------------------------
(* A turn is compiled into a step that is as the turn was.                 *)
LEMMA StepCompiled ==
  ASSUME NEW t \in TurnLog, TurnShape(t)
  PROVE  CompiledStep(CompileStep(t))
<1> DEFINE s == CompileStep(t)
<1>1. /\ s.action = t.action /\ s.target = t.ladder
      /\ s.value_from = IF t.action = "type" THEN Binding(t.value) ELSE ""
      /\ s.checkpoint = IF t.action = "click" THEN Screen(t.after)
                        ELSE IF t.action = "read" /\ t.field # "" THEN Field(t.field)
                        ELSE NoCheckpoint
  BY DEF CompileStep
<1> HIDE DEF s
<1>2. t.action \in {"type", "click", "read", "wait"} /\ t.field \in {""} \cup DOMAIN Labels
  BY DEF TurnLog, Title, Labels
<1>3. s.value_from \in {"", "member_id"}
  BY <1>1 DEF Binding
<1>4. Screen(t.after).kind = "screen"
  BY DEF Screen
<1>5. ASSUME t.action = "type" PROVE CompiledStep(s)
  BY <1>1, <1>3, <1>5 DEF TurnShape, CompiledStep, Offers
<1>6. ASSUME t.action = "click" PROVE CompiledStep(s)
  BY <1>1, <1>3, <1>4, <1>6 DEF TurnShape, CompiledStep, Offers
<1>7. ASSUME t.action = "read" PROVE CompiledStep(s)
  <2>1. s.checkpoint \in {NoCheckpoint} \cup {Field(f) : f \in DOMAIN Labels}
    BY <1>1, <1>2, <1>7
  <2> QED
    BY <1>1, <1>3, <1>7, <2>1 DEF TurnShape, CompiledStep
<1>8. ASSUME t.action = "wait" PROVE CompiledStep(s)
  BY <1>1, <1>3, <1>8 DEF TurnShape, CompiledStep
<1>9. CompiledStep(s)
  BY <1>2, <1>5, <1>6, <1>7, <1>8
<1> QED
  BY <1>9 DEF s

(* Turns that were all carried out make a draft whose steps fit together.  *)
LEMMA RecipeCompiled ==
  ASSUME job \in Jobs, NEW ts \in Seq(TurnLog), NEW outcomes,
         CompileArtifact(ts, outcomes) \in CapabilityArtifact,
         \A k \in DOMAIN ts : TurnShape(ts[k]) /\ TurnFits(ts, k, RunsFor) /\ ts[k].ok
  PROVE  Compiled(CompileArtifact(ts, outcomes), RunsFor)
<1> DEFINE a == CompileArtifact(ts, outcomes)
           n == Len(ts)
<1>1. /\ a.steps = [k \in DOMAIN ts |-> CompileStep(ts[k])]
      /\ a.outputs = {ts[k].field : k \in {m \in DOMAIN ts : ts[m].action = "read"}} \ {""}
      /\ a.known_interstitials = <<>>
  BY DEF CompileArtifact
<1>2. n \in Nat /\ DOMAIN ts = 1..n /\ \A k \in 1..n : ts[k] \in TurnLog
  OBVIOUS
<1> HIDE DEF a, n
<1>3. a.outputs \subseteq DOMAIN Labels
  <2>1. DOMAIN Title = DOMAIN Labels
    BY DEF Title, Labels
  <2>2. \A k \in 1..n : ts[k].field \in {""} \cup DOMAIN Labels
    BY <1>2, <2>1 DEF TurnLog
  <2> SUFFICES ASSUME NEW f \in a.outputs PROVE f \in DOMAIN Labels
    OBVIOUS
  <2>3. PICK k \in DOMAIN ts : f = ts[k].field
    BY <1>1
  <2>4. f # ""
    BY <1>1
  <2> QED
    BY <1>2, <2>2, <2>3, <2>4
<1>4. DOMAIN a.steps = 1..n /\ \A k \in 1..n : a.steps[k] = CompileStep(ts[k])
  BY <1>1, <1>2
<1>5. \A t : /\ CompileStep(t).action = t.action /\ CompileStep(t).target = t.ladder
             /\ CompileStep(t).value_from = IF t.action = "type" THEN Binding(t.value) ELSE ""
             /\ CompileStep(t).checkpoint = IF t.action = "click" THEN Screen(t.after)
                        ELSE IF t.action = "read" /\ t.field # "" THEN Field(t.field)
                        ELSE NoCheckpoint
  BY DEF CompileStep
<1>6. \A k \in 1..n : CompiledStep(a.steps[k])
  BY <1>2, <1>4, StepCompiled
<1>7. \A j \in 1..n : Led(a.steps[j]) => LedTurn(ts[j])
  <2> SUFFICES ASSUME NEW j \in 1..n, Led(a.steps[j]) PROVE LedTurn(ts[j])
    OBVIOUS
  <2>0. /\ a.steps[j].action = ts[j].action
        /\ ts[j].action = "click" => a.steps[j].checkpoint = Screen(ts[j].after)
    BY <1>4, <1>5
  <2>1. ts[j].action = "click" /\ Screen(ts[j].after) = Screen("detail")
    BY <2>0 DEF Led
  <2>2. Screen(ts[j].after).arg = ts[j].after /\ Screen("detail").arg = "detail"
    BY DEF Screen
  <2> QED
    BY <2>1, <2>2 DEF LedTurn
<1>8. \A j \in 1..n : ~BoundTo(ts[j], RunsFor) =>
                        a.steps[j].action = "type" /\ a.steps[j].value_from = ""
  BY <1>4, <1>5 DEF BoundTo, Binding, RunsFor
<1>9. ASSUME NEW k \in 1..n PROVE InOrder(a.steps, k, RunsFor)
  <2>1. TurnFits(ts, k, RunsFor) /\ ts[k].ok
    BY <1>2
  <2>2. k \in Nat /\ \A j \in 1..(k - 1) : j \in 1..n
    BY <1>2
  <2>3. a.steps[k].action = ts[k].action /\ a.steps[k].target = ts[k].ladder
    BY <1>4, <1>5
  <2>4. a.steps[k].action \in {"type", "click"} => \A j \in 1..(k - 1) : ~Led(a.steps[j])
    BY <1>7, <2>1, <2>2, <2>3 DEF TurnFits
  <2>5. ASSUME a.steps[k].action = "read"
        PROVE  /\ \/ \E j \in 1..(k - 1) : a.steps[j].action = "click"
                  \/ /\ a.steps[k].checkpoint = NoCheckpoint
                     /\ Finds(a.steps[k].target, SearchPage(FALSE, FALSE))
               /\ \/ \A j \in 1..(k - 1) : ~Led(a.steps[j])
                  \/ \E j \in 1..(k - 1) : /\ a.steps[j].action = "type"
                                           /\ a.steps[j].value_from = ""
                  \/ Finds(a.steps[k].target, MemberPage(RunsFor, FALSE, FALSE))
    <3>1. ReadFits(ts, k, RunsFor)
      BY <2>1, <2>3, <2>5 DEF TurnFits
    <3>2. ts[k].field = "" => a.steps[k].checkpoint = NoCheckpoint
      BY <1>4, <1>5, <2>3, <2>5
    <3>3. \A j \in 1..(k - 1) : a.steps[j].action = ts[j].action
      BY <1>4, <1>5, <2>2
    <3> QED
      BY <1>7, <1>8, <2>2, <2>3, <3>1, <3>2, <3>3 DEF ReadFits
  <2> QED
    BY <2>4, <2>5 DEF InOrder
<1>10. Compiled(a, RunsFor)
  BY <1>1, <1>3, <1>4, <1>6, <1>9 DEF Compiled, a
<1> QED
  BY <1>10 DEF a

(* What discovery has to say when it ends: its draft, and the log of it.   *)
LEMMA DraftCompiled ==
  ASSUME LoopTypes, DraftInv, TurnsInv, NEW a \in draft
  PROVE  Compiled(a, RunsFor)
<1>1. job \in Jobs /\ turns \in Seq(TurnLog) /\ a \in CapabilityArtifact
  BY DEF LoopTypes, DiscoveryTypeOK
<1>2. PICK outcomes : a = CompileArtifact(turns, outcomes)
  BY DEF TurnsInv
<1>3. \A k \in DOMAIN turns : turns[k].ok
  BY <1>1 DEF DraftInv, CarriedOut
<1> QED
  BY <1>1, <1>2, <1>3, RecipeCompiled DEF TurnsInv

(* What run_discovery returns and logs: a draft whose steps fit together,  *)
(* and a log of controls that were where it says.                          *)
EvidenceFits ==
  /\ \A a \in draft : Compiled(a, RunsFor)
  /\ \A k \in DOMAIN turns : Logged(turns[k])

LEMMA EvidenceOfTurns ==
  ASSUME LoopTypes, DraftInv, TurnsInv
  PROVE  EvidenceFits
BY DraftCompiled DEF TurnsInv, TurnShape, EvidenceFits

(* Whatever the model decides, and whenever the page arrives: nothing is   *)
(* typed or clicked after the click that led to a member; a read before    *)
(* any click is of the search page and checks no field; one after it       *)
(* finds its control on the page of the member the run was for, if nothing *)
(* else was typed; and the rung in the log is one the control has.         *)
THEOREM DiscoveryEvidence == DiscoverySpec => []EvidenceFits
<1> DEFINE Inv == LoopTypes /\ DraftInv /\ SeenInv /\ TurnsInv
<1>1. DiscoveryInit => Inv
  BY TypesInit, DraftInit, SeenInit, TurnsInit
<1>2. Inv /\ [DiscoveryNext]_discoveryVars => Inv'
  <2> SUFFICES ASSUME Inv, [DiscoveryNext]_discoveryVars PROVE Inv'
    OBVIOUS
  <2>1. CASE DiscoveryStep
    BY <2>1, TypesStep, DiscoveryKeeps, SeenStep, TurnsStep
  <2>2. CASE NavCommits /\ UNCHANGED <<discovery, drifted>>
    BY <2>2, TypesKept, LoopKept, ArrivalSees, ArrivalWalks
  <2>3. CASE UNCHANGED discoveryVars
    <3>1. UNCHANGED <<discovery, drifted, page, nav>>
      BY <2>3 DEF discoveryVars
    <3>2. UNCHANGED <<job, phase, seen, stop>>
      BY <3>1 DEF discovery
    <3>3. SeenInv'
      BY <3>1, <3>2 DEF SeenInv, PageTypes
    <3> QED
      BY <3>1, <3>3, TypesKept, LoopKept, TurnsKept
  <2> QED
    BY <2>1, <2>2, <2>3 DEF DiscoveryNext
<1>3. Inv => EvidenceFits
  BY EvidenceOfTurns
<1> QED
  BY <1>1, <1>2, <1>3, PTL DEF DiscoverySpec
===========================================================================
