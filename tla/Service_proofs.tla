---------------------------- MODULE Service_proofs ----------------------------
(***************************************************************************)
(* Theorems about the HTTP service, for any number of clients and of       *)
(* artifacts.                                                              *)
(***************************************************************************)
EXTENDS Service, TLAPS

(* An approve that has marked its artifact is about an approved one.       *)
MarkedInv ==
  \A c \in Clients : pc[c] = "save_approved" => artifacts[art[c]] = "approved"

(* HandoffHasContext is not inductive: a take that has been let through    *)
(* sets the state later, when the token may have been released.            *)
ContextInv ==
  handoff.context = NoContext =>
    \/ handoff.state = "AGENT_CONTROL" /\ \A c \in Clients : pc[c] # "take"
    \/ \E c \in Clients : pc[c] \in {"stuck_context", "request_context"}

ServiceInv == ServiceTypeOK /\ DraftNeverRuns /\ MarkedInv

-----------------------------------------------------------------------------
(* Where a request is after a step of its handler.                         *)
LEMMA GotoType ==
  ASSUME pc \in [Clients -> Positions], NEW c \in Clients,
         NEW from, NEW to \in Positions, Goto(c, from, to)
  PROVE  /\ pc' \in [Clients -> Positions]
         /\ pc'[c] = to /\ pc[c] = from
         /\ \A d \in Clients \ {c} : pc'[d] = pc[d]
BY DEF Goto

(* An artifact that is made has a number, and the others keep theirs.      *)
LEMMA ArtifactMade ==
  ASSUME artifacts \in Seq({"draft", "approved"})
  PROVE  /\ Append(artifacts, "draft") \in Seq({"draft", "approved"})
         /\ Len(Append(artifacts, "draft")) = Len(artifacts) + 1
         /\ \A n \in 1..Len(artifacts) : Append(artifacts, "draft")[n] = artifacts[n]
OBVIOUS

(* Marking an artifact is about that one.                                  *)
LEMMA ArtifactMarked ==
  ASSUME artifacts \in Seq({"draft", "approved"}), NEW n \in 1..Len(artifacts)
  PROVE  /\ [artifacts EXCEPT ![n] = "approved"] \in Seq({"draft", "approved"})
         /\ Len([artifacts EXCEPT ![n] = "approved"]) = Len(artifacts)
         /\ \A m \in 1..Len(artifacts) :
              [artifacts EXCEPT ![n] = "approved"][m] =
                IF m = n THEN "approved" ELSE artifacts[m]
OBVIOUS

(* The service starts with nothing to replay and no request in a handler.  *)
LEMMA ServiceInit == Init => ServiceInv /\ ContextInv
<1> SUFFICES ASSUME Init PROVE ServiceInv /\ ContextInv
  OBVIOUS
<1>1. <<>> \in Seq({"draft", "approved"}) /\ Len(<<>>) = 0
  OBVIOUS
<1>2. /\ artifacts \in Seq({"draft", "approved"}) /\ Len(artifacts) = 0
      /\ 0 \in 0..Len(artifacts) /\ Len(artifacts) <= MaxDrafts
  <2>1. artifacts = <<>>
    BY DEF Init
  <2>2. 0 \in 0..0 /\ 0 <= MaxDrafts
    BY MaxDraftsAssumption
  <2> QED BY <1>1, <2>1, <2>2
<1>3. \A c \in Clients : pc[c] = "idle" /\ art[c] = 0
  BY DEF Init
<1>4. /\ pc \in [Clients -> Positions]
      /\ art \in [Clients -> 0..Len(artifacts)]
      /\ catalog \in 0..Len(artifacts)
  BY <1>2 DEF Init, Positions
<1>5. /\ handoff \in [state : Tokens, context : Clients \cup {NoContext}]
      /\ answer \in Answers /\ holders \subseteq Clients
  BY DEF Init, Tokens, Answers
<1>6. ServiceTypeOK
  BY <1>2, <1>3, <1>4, <1>5 DEF ServiceTypeOK
<1>7. DraftNeverRuns /\ MarkedInv
  BY <1>3 DEF DraftNeverRuns, MarkedInv
<1>8. ContextInv
  BY <1>3 DEF ContextInv, Init
<1> QED BY <1>6, <1>7, <1>8 DEF ServiceInv

-----------------------------------------------------------------------------
(* What a step of one client has to see to: its own request, and that an   *)
(* artifact which is approved stays so.                                    *)
HasArt == {"save_draft", "answer_draft", "mark", "save_approved", "check",
           "replay", "stuck", "stuck_context"}
Guarded == {"replay", "stuck", "stuck_context", "save_approved"}

Own(c) ==
  /\ pc' \in [Clients -> Positions]
  /\ art' \in [Clients -> 0..Len(artifacts')]
  /\ \A d \in Clients \ {c} : pc'[d] = pc[d] /\ art'[d] = art[d]
  /\ pc'[c] \in HasArt => art'[c] # 0
  /\ pc'[c] \in Guarded => artifacts'[art'[c]] = "approved"

Shared ==
  /\ artifacts' \in Seq({"draft", "approved"})
  /\ Len(artifacts') <= MaxDrafts
  /\ Len(artifacts) <= Len(artifacts')
  /\ \A n \in 1..Len(artifacts) : artifacts[n] = "approved" => artifacts'[n] = "approved"
  /\ catalog' \in 0..Len(artifacts')
  /\ handoff' \in [state : Tokens, context : Clients \cup {NoContext}]
  /\ answer' \in Answers
  /\ holders' \subseteq Clients

(* A step that sees to both keeps the invariant.                           *)
LEMMA StepKeeps ==
  ASSUME ServiceInv, NEW c \in Clients, Own(c), Shared
  PROVE  ServiceInv'
<1>1. ASSUME NEW d \in Clients, d # c
      PROVE  /\ pc'[d] \in HasArt => art'[d] # 0
             /\ pc'[d] \in Guarded => artifacts'[art'[d]] = "approved"
  <2>1. pc'[d] = pc[d] /\ art'[d] = art[d] /\ art[d] \in 0..Len(artifacts)
    BY <1>1 DEF Own, ServiceInv, ServiceTypeOK
  <2>2. pc[d] \in HasArt => art[d] # 0
    BY DEF ServiceInv, ServiceTypeOK, HasArt
  <2>3. pc[d] \in Guarded => artifacts[art[d]] = "approved"
    BY DEF ServiceInv, DraftNeverRuns, MarkedInv, Guarded
  <2>4. pc[d] \in Guarded => art[d] \in 1..Len(artifacts)
    <3>1. Len(artifacts) \in Nat
      BY DEF ServiceInv, ServiceTypeOK
    <3> QED BY <2>1, <2>2, <3>1 DEF Guarded, HasArt
  <2> QED BY <2>1, <2>2, <2>3, <2>4 DEF Shared
<1>2. \A d \in Clients :
        /\ pc'[d] \in HasArt => art'[d] # 0
        /\ pc'[d] \in Guarded => artifacts'[art'[d]] = "approved"
  BY <1>1 DEF Own
<1>3. ServiceTypeOK'
  BY <1>2 DEF ServiceTypeOK, Own, Shared, HasArt
<1>4. DraftNeverRuns' /\ MarkedInv'
  BY <1>2 DEF DraftNeverRuns, MarkedInv, Guarded
<1> QED BY <1>3, <1>4 DEF ServiceInv

(* A handler that returns has nothing in its hands.                        *)
LEMMA AnswerOwn ==
  ASSUME ServiceInv, NEW c \in Clients, NEW from, NEW status, Answer(c, from, status),
         UNCHANGED artifacts
  PROVE  Own(c) /\ answer' = status
<1>1. "idle" \in Positions /\ pc \in [Clients -> Positions]
      /\ art \in [Clients -> 0..Len(artifacts)] /\ Len(artifacts) \in Nat
  BY DEF ServiceInv, ServiceTypeOK, Positions
<1>2. Goto(c, from, "idle") /\ art' = [art EXCEPT ![c] = 0] /\ answer' = status
  BY DEF Answer
<1>3. /\ pc' \in [Clients -> Positions] /\ pc'[c] = "idle"
      /\ \A d \in Clients \ {c} : pc'[d] = pc[d]
  BY <1>1, <1>2, GotoType
<1>4. art' \in [Clients -> 0..Len(artifacts)] /\ \A d \in Clients \ {c} : art'[d] = art[d]
  BY <1>1, <1>2
<1> QED BY <1>2, <1>3, <1>4 DEF Own, HasArt, Guarded

(* A handler that goes on with the artifact it has, or needs none.         *)
LEMMA GotoOwn ==
  ASSUME ServiceInv, NEW c \in Clients, NEW from, NEW to \in Positions, Goto(c, from, to),
         UNCHANGED <<art, artifacts>>,
         to \in HasArt => from \in HasArt,
         to \in Guarded => artifacts[art[c]] = "approved"
  PROVE  Own(c)
<1>1. pc \in [Clients -> Positions] /\ art \in [Clients -> 0..Len(artifacts)]
  BY DEF ServiceInv, ServiceTypeOK
<1>2. /\ pc' \in [Clients -> Positions] /\ pc'[c] = to /\ pc[c] = from
      /\ \A d \in Clients \ {c} : pc'[d] = pc[d]
  BY <1>1, GotoType
<1>3. pc[c] \in HasArt => art[c] # 0
  BY DEF ServiceInv, ServiceTypeOK, HasArt
<1> QED BY <1>1, <1>2, <1>3 DEF Own

(* Nothing shared changes, or only the token, the answer or the holders.   *)
LEMMA SharedKept ==
  ASSUME ServiceInv, UNCHANGED <<artifacts, catalog>>,
         handoff' \in [state : Tokens, context : Clients \cup {NoContext}],
         answer' \in Answers, holders' \subseteq Clients
  PROVE  Shared
<1>1. artifacts \in Seq({"draft", "approved"}) /\ Len(artifacts) \in Nat
      /\ Len(artifacts) <= MaxDrafts /\ catalog \in 0..Len(artifacts)
  BY DEF ServiceInv, ServiceTypeOK
<1> QED BY <1>1 DEF Shared

-----------------------------------------------------------------------------
(* One lemma per request.                                                  *)

(* The types that every step uses.                                         *)
LEMMA Types ==
  ASSUME ServiceInv
  PROVE  /\ artifacts \in Seq({"draft", "approved"}) /\ Len(artifacts) \in Nat
         /\ pc \in [Clients -> Positions]
         /\ art \in [Clients -> 0..Len(artifacts)]
         /\ catalog \in 0..Len(artifacts)
         /\ handoff \in [state : Tokens, context : Clients \cup {NoContext}]
         /\ answer \in Answers /\ holders \subseteq Clients
BY DEF ServiceInv, ServiceTypeOK

(* The artifact of a handler that has one.                                 *)
LEMMA InHand ==
  ASSUME ServiceInv, NEW c \in Clients, pc[c] \in HasArt
  PROVE  art[c] \in 1..Len(artifacts) /\ artifacts[art[c]] \in {"draft", "approved"}
<1>1. art[c] # 0
  BY DEF ServiceInv, ServiceTypeOK, HasArt
<1>2. art[c] \in 1..Len(artifacts)
  BY <1>1, Types
<1> QED BY <1>2, Types

(* A discovery adds an artifact and saves it under the name.               *)
LEMMA DiscoverKeeps ==
  ASSUME ServiceInv, NEW c \in Clients,
         Discover(c) \/ SaveDraft(c) \/ AnswerDiscover(c)
  PROVE  ServiceInv'
<1>1. CASE Discover(c)
  <2>1. /\ Goto(c, "idle", "save_draft") /\ Len(artifacts) < MaxDrafts
        /\ artifacts' = Append(artifacts, "draft")
        /\ art' = [art EXCEPT ![c] = Len(artifacts) + 1]
        /\ UNCHANGED <<catalog, handoff, answer, holders>>
    BY <1>1 DEF Discover
  <2>2. /\ artifacts' \in Seq({"draft", "approved"})
        /\ Len(artifacts') = Len(artifacts) + 1
        /\ \A n \in 1..Len(artifacts) : artifacts'[n] = artifacts[n]
    BY <2>1, Types, ArtifactMade
  <2>3. Shared
    BY <2>1, <2>2, Types, MaxDraftsAssumption DEF Shared
  <2>4. /\ pc' \in [Clients -> Positions] /\ pc'[c] = "save_draft"
        /\ \A d \in Clients \ {c} : pc'[d] = pc[d]
    BY <2>1, Types, GotoType DEF Positions
  <2>5. /\ art' \in [Clients -> 0..Len(artifacts')] /\ art'[c] # 0
        /\ \A d \in Clients \ {c} : art'[d] = art[d]
    BY <2>1, <2>2, Types
  <2>6. Own(c)
    BY <2>4, <2>5 DEF Own, Guarded
  <2> QED BY <2>3, <2>6, StepKeeps
<1>2. CASE SaveDraft(c)
  <2>1. /\ Goto(c, "save_draft", "answer_draft") /\ catalog' = art[c]
        /\ UNCHANGED <<art, artifacts, handoff, answer, holders>>
    BY <1>2 DEF SaveDraft
  <2>2. Own(c)
    BY <2>1, GotoOwn DEF Positions, HasArt, Guarded
  <2>3. Shared
    BY <2>1, Types DEF Shared, ServiceInv, ServiceTypeOK
  <2> QED BY <2>2, <2>3, StepKeeps
<1>3. CASE AnswerDiscover(c)
  <2>1. /\ Answer(c, "answer_draft", artifacts[art[c]])
        /\ UNCHANGED <<artifacts, catalog, handoff, holders>>
        /\ pc[c] = "answer_draft"
    BY <1>3 DEF AnswerDiscover, Answer, Goto
  <2>2. Own(c) /\ answer' = artifacts[art[c]]
    BY <2>1, AnswerOwn
  <2>3. answer' \in Answers
    BY <2>1, <2>2, InHand DEF HasArt, Answers
  <2> QED BY <2>1, <2>2, <2>3, Types, SharedKept, StepKeeps
<1> QED BY <1>1, <1>2, <1>3

(* A handler that finds the artifact in the store takes it in its hands.   *)
LEMMA GetKeeps ==
  ASSUME ServiceInv, NEW c \in Clients, NEW next \in {"mark", "check"}, Get(c, next)
  PROVE  ServiceInv'
<1>1. /\ Goto(c, "idle", next) /\ art' = [art EXCEPT ![c] = catalog] /\ catalog # 0
      /\ UNCHANGED <<artifacts, catalog, handoff, answer, holders>>
  BY DEF Get
<1>2. /\ pc' \in [Clients -> Positions] /\ pc'[c] = next
      /\ \A d \in Clients \ {c} : pc'[d] = pc[d]
  BY <1>1, Types, GotoType DEF Positions
<1>3. /\ art' \in [Clients -> 0..Len(artifacts)] /\ art'[c] # 0
      /\ \A d \in Clients \ {c} : art'[d] = art[d]
  BY <1>1, Types
<1>4. Own(c)
  BY <1>1, <1>2, <1>3 DEF Own, Guarded
<1> QED BY <1>1, <1>4, Types, SharedKept, StepKeeps

(* An approval marks the artifact, and saves it marked.                    *)
LEMMA ApproveKeeps ==
  ASSUME ServiceInv, NEW c \in Clients,
         Approve(c) \/ NoSuchCapability(c) \/ Mark(c) \/ SaveApproved(c)
  PROVE  ServiceInv'
<1>1. CASE Approve(c)
  BY <1>1, GetKeeps DEF Approve
<1>2. CASE NoSuchCapability(c)
  <2>1. /\ Answer(c, "idle", "404")
        /\ UNCHANGED <<artifacts, catalog, handoff, holders>>
    BY <1>2 DEF NoSuchCapability
  <2>2. Own(c) /\ answer' \in Answers
    BY <2>1, AnswerOwn DEF Answers
  <2> QED BY <2>1, <2>2, Types, SharedKept, StepKeeps
<1>3. CASE Mark(c)
  <2>1. /\ Goto(c, "mark", "save_approved") /\ pc[c] = "mark"
        /\ artifacts' = [artifacts EXCEPT ![art[c]] = "approved"]
        /\ UNCHANGED <<art, catalog, handoff, answer, holders>>
    BY <1>3 DEF Mark, Goto
  <2>2. art[c] \in 1..Len(artifacts)
    BY <2>1, InHand DEF HasArt
  <2>3. /\ artifacts' \in Seq({"draft", "approved"})
        /\ Len(artifacts') = Len(artifacts)
        /\ \A n \in 1..Len(artifacts) :
             artifacts'[n] = IF n = art[c] THEN "approved" ELSE artifacts[n]
    BY <2>1, <2>2, Types, ArtifactMarked
  <2>4. Shared
    BY <2>1, <2>3, Types DEF Shared, ServiceInv, ServiceTypeOK
  <2>5. /\ pc' \in [Clients -> Positions]
        /\ \A d \in Clients \ {c} : pc'[d] = pc[d]
    BY <2>1, Types, GotoType DEF Positions
  <2>6. Own(c)
    BY <2>1, <2>2, <2>3, <2>5, Types DEF Own
  <2> QED BY <2>4, <2>6, StepKeeps
<1>4. CASE SaveApproved(c)
  <2>1. /\ Answer(c, "save_approved", "approved") /\ catalog' = art[c]
        /\ UNCHANGED <<artifacts, handoff, holders>>
    BY <1>4 DEF SaveApproved
  <2>2. Own(c) /\ answer' \in Answers
    BY <2>1, AnswerOwn DEF Answers
  <2>3. Shared
    BY <2>1, <2>2, Types DEF Shared, ServiceInv, ServiceTypeOK
  <2> QED BY <2>2, <2>3, StepKeeps
<1> QED BY <1>1, <1>2, <1>3, <1>4

(* An invoke replays what it has found to be approved.                     *)
LEMMA InvokeKeeps ==
  ASSUME ServiceInv, NEW c \in Clients,
         Invoke(c) \/ RefuseDraft(c) \/ StartReplay(c) \/ ReplayEnds(c) \/ ReplayStuck(c)
  PROVE  ServiceInv'
<1>1. CASE Invoke(c)
  BY <1>1, GetKeeps DEF Invoke
<1>2. CASE RefuseDraft(c)
  <2>1. Answer(c, "check", "409") /\ UNCHANGED <<artifacts, catalog, handoff, holders>>
    BY <1>2 DEF RefuseDraft
  <2>2. Own(c) /\ answer' \in Answers
    BY <2>1, AnswerOwn DEF Answers
  <2> QED BY <2>1, <2>2, Types, SharedKept, StepKeeps
<1>3. CASE StartReplay(c)
  <2>1. /\ Goto(c, "check", "replay") /\ artifacts[art[c]] = "approved"
        /\ UNCHANGED <<art, artifacts, catalog, handoff, answer, holders>>
    BY <1>3 DEF StartReplay
  <2>2. Own(c)
    BY <2>1, GotoOwn DEF Positions, HasArt
  <2> QED BY <2>1, <2>2, Types, SharedKept, StepKeeps
<1>4. CASE ReplayEnds(c)
  <2>1. PICK status \in {"success", "business_outcome", "500"} : Answer(c, "replay", status)
    BY <1>4 DEF ReplayEnds
  <2>2. UNCHANGED <<artifacts, catalog, handoff, holders>>
    BY <1>4 DEF ReplayEnds
  <2>3. Own(c) /\ answer' \in Answers
    BY <2>1, <2>2, AnswerOwn DEF Answers
  <2> QED BY <2>2, <2>3, Types, SharedKept, StepKeeps
<1>5. CASE ReplayStuck(c)
  <2>1. /\ Goto(c, "replay", "stuck") /\ pc[c] = "replay"
        /\ UNCHANGED <<art, artifacts, catalog, handoff, answer, holders>>
    BY <1>5 DEF ReplayStuck, Goto
  <2>2. artifacts[art[c]] = "approved"
    BY <2>1 DEF ServiceInv, DraftNeverRuns
  <2>3. Own(c)
    BY <2>1, <2>2, GotoOwn DEF Positions, HasArt
  <2> QED BY <2>1, <2>3, Types, SharedKept, StepKeeps
<1> QED BY <1>1, <1>2, <1>3, <1>4, <1>5

(* The token concerns no artifact.                                         *)
LEMMA TokenKeeps ==
  ASSUME ServiceInv, NEW c \in Clients,
         \/ RequestHandoff(c) \/ RaiseState(c) \/ RaiseContext(c)
         \/ NoPendingHandoff(c) \/ TakeCheck(c) \/ Take(c) \/ Release(c) \/ AnswerToken(c)
  PROVE  ServiceInv'
<1>0. UNCHANGED <<artifacts, catalog>>
  BY DEF RequestHandoff, RaiseState, RaiseContext, NoPendingHandoff, TakeCheck, Take, Release,
         AnswerToken
<1>1. Own(c) /\ answer' \in Answers
  <2>1. CASE RaiseState(c)
    <3>0. UNCHANGED <<art, artifacts, answer>>
      BY <2>1 DEF RaiseState
    <3>1. CASE Goto(c, "stuck", "stuck_context")
      <4>1. artifacts[art[c]] = "approved"
        BY <3>1 DEF Goto, ServiceInv, DraftNeverRuns
      <4> QED BY <3>0, <3>1, <4>1, GotoOwn, Types DEF Positions, HasArt
    <3>2. CASE Goto(c, "request", "request_context")
      BY <3>0, <3>2, GotoOwn, Types DEF Positions, HasArt, Guarded
    <3> QED BY <2>1, <3>1, <3>2 DEF RaiseState
  <2>2. CASE RaiseContext(c)
    <3>1. CASE Answer(c, "stuck_context", "failure")
      BY <1>0, <3>1, AnswerOwn DEF Answers
    <3>2. CASE Goto(c, "request_context", "answer_token") /\ UNCHANGED <<art, answer>>
      BY <1>0, <3>2, GotoOwn, Types DEF Positions, HasArt, Guarded
    <3> QED BY <2>2, <3>1, <3>2 DEF RaiseContext
  <2>3. CASE RequestHandoff(c) \/ TakeCheck(c) \/ Take(c) \/ Release(c)
    <3>1. UNCHANGED <<art, artifacts, answer>>
      BY <2>3 DEF RequestHandoff, TakeCheck, Take, Release
    <3>2. PICK from, to :
            Goto(c, from, to) /\ to \in {"request", "take", "answer_token"}
      BY <2>3 DEF RequestHandoff, TakeCheck, Take, Release
    <3>3. to \in Positions /\ to \notin HasArt /\ to \notin Guarded
      BY <3>2 DEF Positions, HasArt, Guarded
    <3> QED BY <3>1, <3>2, <3>3, GotoOwn, Types
  <2>4. CASE NoPendingHandoff(c) \/ AnswerToken(c)
    <3>1. PICK from, status : Answer(c, from, status) /\ status \in Answers
      BY <2>4, Types DEF NoPendingHandoff, AnswerToken, Answers
    <3> QED BY <1>0, <3>1, AnswerOwn
  <2> QED BY <2>1, <2>2, <2>3, <2>4
<1>2. /\ handoff' \in [state : Tokens, context : Clients \cup {NoContext}]
      /\ holders' \subseteq Clients
  BY Types DEF RequestHandoff, RaiseState, RaiseContext, NoPendingHandoff, TakeCheck, Take,
               Release, AnswerToken, Tokens
<1> QED BY <1>0, <1>1, <1>2, SharedKept, StepKeeps

(* The invariant is inductive.                                             *)
LEMMA ServiceStep == ServiceInv /\ [Next]_vars => ServiceInv'
<1> SUFFICES ASSUME ServiceInv, [Next]_vars PROVE ServiceInv'
  OBVIOUS
<1>1. CASE Next
  <2>1. PICK c \in Clients : Handle(c)
    BY <1>1 DEF Next
  <2> QED BY <2>1, DiscoverKeeps, ApproveKeeps, InvokeKeeps, TokenKeeps DEF Handle
<1>2. CASE UNCHANGED vars
  BY <1>2 DEF vars, ServiceInv, ServiceTypeOK, DraftNeverRuns, MarkedInv
<1> QED BY <1>1, <1>2

(* Every variable of the service holds a value of its type.                *)
THEOREM ServiceTypes == Spec => []ServiceTypeOK
<1>1. ServiceInv => ServiceTypeOK
  BY DEF ServiceInv
<1> QED BY <1>1, ServiceInit, ServiceStep, PTL DEF Spec

(* Only approved artifacts are replayed, however many requests overlap.    *)
THEOREM OnlyApprovedRun == Spec => []DraftNeverRuns
<1>1. ServiceInv => DraftNeverRuns
  BY DEF ServiceInv
<1> QED BY <1>1, ServiceInit, ServiceStep, PTL DEF Spec

-----------------------------------------------------------------------------
(* The context of the token.                                               *)

(* A step that leaves the token, and is not about raising or taking it.    *)
LEMMA ElsewhereKeeps ==
  ASSUME ServiceInv, ContextInv, NEW c \in Clients, NEW from, NEW to, Goto(c, from, to),
         from \notin {"stuck_context", "request_context"}, to # "take", UNCHANGED handoff
  PROVE  ContextInv'
<1>1. pc \in [Clients -> Positions] /\ pc[c] = from /\ pc' = [pc EXCEPT ![c] = to]
  BY Types DEF Goto
<1> QED BY <1>1 DEF ContextInv

(* Every step of every request keeps it.                                   *)
LEMMA ContextKeeps ==
  ASSUME ServiceInv, ContextInv, NEW c \in Clients, Handle(c)
  PROVE  ContextInv'
<1>0. pc \in [Clients -> Positions]
      /\ handoff \in [state : Tokens, context : Clients \cup {NoContext}]
  BY Types
<1>1. CASE RaiseState(c)
  <2>1. handoff'.context = handoff.context /\ pc'[c] \in {"stuck_context", "request_context"}
    BY <1>0, <1>1 DEF RaiseState, Goto
  <2> QED BY <2>1 DEF ContextInv
<1>2. CASE RaiseContext(c)
  <2>1. handoff'.context = c
    BY <1>0, <1>2 DEF RaiseContext
  <2> QED BY <2>1, NoContextAssumption DEF ContextInv
<1>3. CASE TakeCheck(c) \/ Take(c)
  <2>1. /\ handoff'.context = handoff.context
        /\ handoff.state # "AGENT_CONTROL" \/ pc[c] = "take"
        /\ pc[c] \in {"idle", "take"}
        /\ \A d \in Clients \ {c} : pc'[d] = pc[d]
    BY <1>0, <1>3 DEF TakeCheck, Take, Goto
  <2> QED BY <2>1 DEF ContextInv
<1>4. CASE Release(c)
  <2>1. /\ handoff'.context = handoff.context /\ handoff'.state = "AGENT_CONTROL"
        /\ pc[c] = "idle" /\ pc'[c] = "answer_token"
        /\ \A d \in Clients \ {c} : pc'[d] = pc[d]
    BY <1>0, <1>4 DEF Release, Goto
  <2> QED BY <2>1 DEF ContextInv
<1>5. CASE Discover(c) \/ SaveDraft(c) \/ AnswerDiscover(c)
  BY <1>5, ElsewhereKeeps DEF Discover, SaveDraft, AnswerDiscover, Answer
<1>6. CASE Approve(c) \/ NoSuchCapability(c) \/ Mark(c) \/ SaveApproved(c)
  BY <1>6, ElsewhereKeeps DEF Approve, Get, NoSuchCapability, Mark, SaveApproved, Answer
<1>7. CASE Invoke(c) \/ RefuseDraft(c) \/ StartReplay(c) \/ ReplayEnds(c) \/ ReplayStuck(c)
  BY <1>7, ElsewhereKeeps DEF Invoke, Get, RefuseDraft, StartReplay, ReplayEnds, ReplayStuck,
                              Answer
<1>8. CASE RequestHandoff(c) \/ NoPendingHandoff(c) \/ AnswerToken(c)
  BY <1>8, ElsewhereKeeps DEF RequestHandoff, NoPendingHandoff, AnswerToken, Answer
<1> QED BY <1>1, <1>2, <1>3, <1>4, <1>5, <1>6, <1>7, <1>8 DEF Handle

(* No interleaving of requests, takes and releases leaves the human with a *)
(* token that says nothing, but for the moment between the two writes.     *)
THEOREM HandoffKeepsContext == Spec => []HandoffHasContext
<1>1. ContextInv => HandoffHasContext
  BY DEF ContextInv, HandoffHasContext
<1>2. ServiceInv /\ ContextInv /\ [Next]_vars => ContextInv'
  <2> SUFFICES ASSUME ServiceInv, ContextInv, [Next]_vars PROVE ContextInv'
    OBVIOUS
  <2>1. CASE Next
    BY <2>1, ContextKeeps DEF Next
  <2>2. CASE UNCHANGED vars
    BY <2>2 DEF vars, ContextInv
  <2> QED BY <2>1, <2>2
<1> QED BY <1>1, <1>2, ServiceInit, ServiceStep, PTL DEF Spec

-----------------------------------------------------------------------------
(* An approval stays until a discovery saves a draft over it.              *)

(* A handler that answers an approve has marked the artifact it saves; no  *)
(* other step but a saved draft lets the catalog stand for one that is not *)
(* approved.                                                               *)
LEMMA ApprovalStep ==
  ASSUME ServiceInv, NEW c \in Clients, Handle(c)
  PROVE  /\ catalog # 0 /\ artifacts[catalog] = "approved"
              => artifacts'[catalog'] = "approved" \/ SaveDraft(c)
         /\ pc[c] = "save_approved" /\ pc'[c] = "idle" => artifacts'[catalog'] = "approved"
<1>0. /\ artifacts \in Seq({"draft", "approved"}) /\ Len(artifacts) \in Nat
      /\ pc \in [Clients -> Positions]
      /\ catalog \in 0..Len(artifacts)
  BY Types
<1>1. CASE Discover(c)
  <2>1. /\ pc[c] = "idle" /\ catalog' = catalog
        /\ \A n \in 1..Len(artifacts) : artifacts'[n] = artifacts[n]
    BY <1>0, <1>1, ArtifactMade DEF Discover, Goto
  <2> QED BY <1>0, <2>1
<1>2. CASE Mark(c)
  <2>1. pc[c] = "mark" /\ catalog' = catalog
        /\ artifacts' = [artifacts EXCEPT ![art[c]] = "approved"]
    BY <1>2 DEF Mark, Goto
  <2>2. art[c] \in 1..Len(artifacts)
    BY <2>1, InHand DEF HasArt
  <2>3. \A n \in 1..Len(artifacts) :
          artifacts'[n] = IF n = art[c] THEN "approved" ELSE artifacts[n]
    BY <1>0, <2>1, <2>2, ArtifactMarked
  <2> QED BY <1>0, <2>1, <2>3
<1>3. CASE SaveApproved(c)
  <2>1. pc[c] = "save_approved" /\ artifacts' = artifacts /\ catalog' = art[c]
    BY <1>3 DEF SaveApproved, Answer, Goto
  <2>2. artifacts[art[c]] = "approved"
    BY <2>1 DEF ServiceInv, MarkedInv
  <2> QED BY <2>1, <2>2
<1>4. CASE SaveDraft(c)
  BY <1>4 DEF SaveDraft, Goto
<1>5. CASE \/ AnswerDiscover(c) \/ Approve(c) \/ NoSuchCapability(c)
           \/ Invoke(c) \/ RefuseDraft(c) \/ StartReplay(c) \/ ReplayEnds(c)
           \/ ReplayStuck(c)
  BY <1>5 DEF AnswerDiscover, Approve, Get, NoSuchCapability, Invoke, RefuseDraft, StartReplay,
              ReplayEnds, ReplayStuck, Answer, Goto
<1>6. CASE \/ RequestHandoff(c) \/ RaiseState(c) \/ RaiseContext(c) \/ NoPendingHandoff(c)
           \/ TakeCheck(c) \/ Take(c) \/ Release(c) \/ AnswerToken(c)
  BY <1>6 DEF RequestHandoff, RaiseState, RaiseContext, NoPendingHandoff, TakeCheck, Take,
              Release, AnswerToken, Answer, Goto
<1> QED BY <1>1, <1>2, <1>3, <1>4, <1>5, <1>6 DEF Handle

(* An approval takes effect when it answers, and stays.                    *)
THEOREM ApprovalsStay == Spec => ApprovalStays
<1> DEFINE A ==
      /\ catalog # 0 /\ artifacts[catalog] = "approved"
           => \/ artifacts'[catalog'] = "approved"
              \/ \E c \in Clients : pc[c] = "save_draft" /\ pc'[c] = "answer_draft"
      /\ \A c \in Clients :
           pc[c] = "save_approved" /\ pc'[c] = "idle" => artifacts'[catalog'] = "approved"
<1>1. ServiceInv /\ [Next]_vars => [A]_vars
  <2> SUFFICES ASSUME ServiceInv, Next PROVE A
    OBVIOUS
  <2>1. PICK c \in Clients : Handle(c)
    BY DEF Next
  <2>2. pc \in [Clients -> Positions]
    BY Types
  <2>3. \A d \in Clients \ {c} : pc'[d] = pc[d]
    BY <2>1, <2>2, Zenon
       DEF Handle, Discover, SaveDraft, AnswerDiscover, Approve, NoSuchCapability, Mark,
           SaveApproved, Invoke, RefuseDraft, StartReplay, ReplayEnds, ReplayStuck,
           RequestHandoff, RaiseState, RaiseContext, NoPendingHandoff, TakeCheck, Take,
           Release, AnswerToken, Get, Answer, Goto
  <2>4. SaveDraft(c) => pc[c] = "save_draft" /\ pc'[c] = "answer_draft"
    BY <2>2 DEF SaveDraft, Goto
  <2>5. \A d \in Clients :
          pc[d] = "save_approved" /\ pc'[d] = "idle" => artifacts'[catalog'] = "approved"
    BY <2>1, <2>3, ApprovalStep
  <2> QED BY <2>1, <2>4, <2>5, ApprovalStep
<1>2. ApprovalStays <=> [][A]_vars
  BY DEF ApprovalStays
<1> QED BY <1>1, <1>2, ServiceInit, ServiceStep, PTL DEF Spec
=============================================================================
