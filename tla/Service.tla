------------------------------- MODULE Service -------------------------------
(***************************************************************************)
(* The HTTP service, app/main.py, on the store of app/store.py: discover,  *)
(* approve and invoke a capability, and pass the handoff token around.     *)
(*                                                                         *)
(* The handlers are plain functions, which FastAPI runs in a pool of       *)
(* threads, and nothing is locked.  A client has one request outstanding;  *)
(* the handlers of different clients interleave between any two accesses   *)
(* to what they share:                                                     *)
(*   - the store's dict, whose only key is the one name fake_discovery     *)
(*     ever produces;                                                      *)
(*   - the artifacts in it, shared by reference: approve changes the very  *)
(*     object that another handler got, and discover's response is put     *)
(*     together from the object after its handler returned;                *)
(*   - the dict of the token, which the handoff handlers return itself.    *)
(*                                                                         *)
(* An artifact is its place in the sequence of all artifacts made, and     *)
(* what is kept of it is its approval state.  A replay is one step that    *)
(* ends in a way RunContract allows a hooked run that is not resumable.    *)
(***************************************************************************)
EXTENDS Naturals, Sequences, FiniteSets

CONSTANTS
  Clients,
  NoContext,    \* the None of the token's context
  MaxDrafts     \* model bound: artifacts ever discovered

ASSUME NoContextAssumption == NoContext \notin Clients
ASSUME MaxDraftsAssumption == MaxDrafts \in Nat

VARIABLES
  pc,          \* where in its handler a client's request is, or "idle"
  art,         \* the handler's local variable art, 0 before it is set
  artifacts,   \* approval_state of every artifact made
  catalog,     \* the artifact saved under the name, 0 for none
  handoff,     \* the token; its context is the client whose request raised it
  answer,      \* what the last answer of the service says, "" before the first
  holders      \* clients that were given the token and nobody released it

vars == <<pc, art, artifacts, catalog, handoff, answer, holders>>

Init ==
  /\ pc = [c \in Clients |-> "idle"]
  /\ art = [c \in Clients |-> 0]
  /\ artifacts = <<>>
  /\ catalog = 0
  /\ handoff = [state |-> "AGENT_CONTROL", context |-> NoContext]
  /\ answer = ""
  /\ holders = {}

Goto(c, from, to) ==
  /\ pc[c] = from
  /\ pc' = [pc EXCEPT ![c] = to]

(* The handler returns; its locals are gone.                               *)
Answer(c, from, status) ==
  /\ Goto(c, from, "idle")
  /\ art' = [art EXCEPT ![c] = 0]
  /\ answer' = status

-----------------------------------------------------------------------------
(* POST /discover                                                          *)

Discover_BugReusesEntry(c) ==
  /\ Goto(c, "idle", "save_draft")
  /\ Len(artifacts) < MaxDrafts
  /\ artifacts' = IF catalog = 0 THEN Append(artifacts, "draft")
                  ELSE [artifacts EXCEPT ![catalog] = "draft"]
  /\ art' = [art EXCEPT ![c] = IF catalog = 0 THEN Len(artifacts) + 1 ELSE catalog]
  /\ UNCHANGED <<catalog, handoff, answer, holders>>

Discover(c) ==
  /\ Goto(c, "idle", "save_draft")
  /\ Len(artifacts) < MaxDrafts
  /\ artifacts' = Append(artifacts, "draft")
  /\ art' = [art EXCEPT ![c] = Len(artifacts) + 1]
  /\ UNCHANGED <<catalog, handoff, answer, holders>>

SaveDraft(c) ==
  /\ Goto(c, "save_draft", "answer_draft")
  /\ catalog' = art[c]
  /\ UNCHANGED <<art, artifacts, handoff, answer, holders>>

AnswerDiscover(c) ==
  /\ Answer(c, "answer_draft", artifacts[art[c]])
  /\ UNCHANGED <<artifacts, catalog, handoff, holders>>

-----------------------------------------------------------------------------
(* POST /capabilities/{name}/approve                                       *)

Get_BugNoExistenceCheck(c, next) ==
  /\ Goto(c, "idle", next)
  /\ art' = [art EXCEPT ![c] = catalog]
  /\ UNCHANGED <<artifacts, catalog, handoff, answer, holders>>

(* store.get, for approve and invoke.                                      *)
Get(c, next) ==
  /\ catalog # 0
  /\ Goto(c, "idle", next)
  /\ art' = [art EXCEPT ![c] = catalog]
  /\ UNCHANGED <<artifacts, catalog, handoff, answer, holders>>

(* 404 to an approve or an invoke.                                         *)
NoSuchCapability(c) ==
  /\ catalog = 0
  /\ Answer(c, "idle", "404")
  /\ UNCHANGED <<artifacts, catalog, handoff, holders>>

Approve(c) == Get(c, "mark")

Mark_BugOnACopy(c) ==
  /\ Goto(c, "mark", "save_approved")
  /\ artifacts' = Append(artifacts, "approved")
  /\ UNCHANGED <<art, catalog, handoff, answer, holders>>

Mark(c) ==
  /\ Goto(c, "mark", "save_approved")
  /\ artifacts' = [artifacts EXCEPT ![art[c]] = "approved"]
  /\ UNCHANGED <<art, catalog, handoff, answer, holders>>

SaveApproved(c) ==
  /\ Answer(c, "save_approved", "approved")
  /\ catalog' = art[c]
  /\ UNCHANGED <<artifacts, handoff, holders>>

-----------------------------------------------------------------------------
(* POST /capabilities/{name}/invoke                                        *)

Invoke(c) == Get(c, "check")

RefuseDraft(c) ==
  /\ Answer(c, "check", "409")
  /\ artifacts[art[c]] # "approved"
  /\ UNCHANGED <<artifacts, catalog, handoff, holders>>

StartReplay(c) ==
  /\ Goto(c, "check", "replay")
  /\ artifacts[art[c]] = "approved"
  /\ UNCHANGED <<art, artifacts, catalog, handoff, answer, holders>>

ReplayEnds(c) ==
  /\ \E status \in {"success", "business_outcome", "500"} : Answer(c, "replay", status)
  /\ UNCHANGED <<artifacts, catalog, handoff, holders>>

(* replay() calls _on_replay_stuck before it returns its Failure.          *)
ReplayStuck(c) ==
  /\ Goto(c, "replay", "stuck")
  /\ UNCHANGED <<art, artifacts, catalog, handoff, answer, holders>>

-----------------------------------------------------------------------------
(* The token.                                                              *)

RequestHandoff(c) ==
  /\ Goto(c, "idle", "request")
  /\ UNCHANGED <<art, artifacts, catalog, handoff, answer, holders>>

(* _raise_handoff, from a stuck replay or from a request: state, context.  *)
RaiseState(c) ==
  /\ Goto(c, "stuck", "stuck_context") \/ Goto(c, "request", "request_context")
  /\ handoff' = [handoff EXCEPT !.state = "HANDOFF_REQUESTED"]
  /\ UNCHANGED <<art, artifacts, catalog, answer, holders>>

RaiseContext_BugOnlyForRuns(c) ==
  \/ /\ Answer(c, "stuck_context", "failure")
     /\ handoff' = [handoff EXCEPT !.context = c]
     /\ UNCHANGED <<artifacts, catalog, holders>>
  \/ /\ Goto(c, "request_context", "answer_token")
     /\ UNCHANGED <<art, artifacts, catalog, handoff, answer, holders>>

RaiseContext(c) ==
  /\ \/ Answer(c, "stuck_context", "failure")
     \/ Goto(c, "request_context", "answer_token") /\ UNCHANGED <<art, answer>>
  /\ handoff' = [handoff EXCEPT !.context = c]
  /\ UNCHANGED <<artifacts, catalog, holders>>

NoPendingHandoff(c) ==
  /\ handoff.state # "HANDOFF_REQUESTED"
  /\ Answer(c, "idle", "409")
  /\ UNCHANGED <<artifacts, catalog, handoff, holders>>

TakeCheck(c) ==
  /\ handoff.state = "HANDOFF_REQUESTED"
  /\ Goto(c, "idle", "take")
  /\ UNCHANGED <<art, artifacts, catalog, handoff, answer, holders>>

Take(c) ==
  /\ Goto(c, "take", "answer_token")
  /\ handoff' = [handoff EXCEPT !.state = "HUMAN_CONTROL"]
  /\ holders' = holders \cup {c}
  /\ UNCHANGED <<art, artifacts, catalog, answer>>

(* Anybody may release, at any time; the context stays.                    *)
Release(c) ==
  /\ Goto(c, "idle", "answer_token")
  /\ handoff' = [handoff EXCEPT !.state = "AGENT_CONTROL"]
  /\ holders' = {}
  /\ UNCHANGED <<art, artifacts, catalog, answer>>

AnswerToken(c) ==
  /\ Answer(c, "answer_token", handoff.state)
  /\ UNCHANGED <<artifacts, catalog, handoff, holders>>

-----------------------------------------------------------------------------
Handle(c) ==
  \/ Discover(c) \/ SaveDraft(c) \/ AnswerDiscover(c)
  \/ Approve(c) \/ NoSuchCapability(c) \/ Mark(c) \/ SaveApproved(c)
  \/ Invoke(c) \/ RefuseDraft(c) \/ StartReplay(c) \/ ReplayEnds(c) \/ ReplayStuck(c)
  \/ RequestHandoff(c) \/ RaiseState(c) \/ RaiseContext(c)
  \/ NoPendingHandoff(c) \/ TakeCheck(c) \/ Take(c) \/ Release(c) \/ AnswerToken(c)

Next == \E c \in Clients : Handle(c)

Spec == Init /\ [][Next]_vars

-----------------------------------------------------------------------------
Positions == {"idle", "save_draft", "answer_draft", "mark", "save_approved", "check",
              "replay", "stuck", "request", "stuck_context", "request_context",
              "take", "answer_token"}
Tokens == {"AGENT_CONTROL", "HANDOFF_REQUESTED", "HUMAN_CONTROL"}
Answers == Tokens \cup {"", "draft", "approved", "404", "409", "500", "success",
                        "business_outcome", "failure"}

(* Every variable holds a value of its type; a handler past its store.get  *)
(* has an artifact in its hands, and an answer that names an approval      *)
(* state, a result or a state of the token is one of those there are.      *)
ServiceTypeOK ==
  /\ pc \in [Clients -> Positions]
  /\ artifacts \in Seq({"draft", "approved"})
  /\ Len(artifacts) <= MaxDrafts
  /\ art \in [Clients -> 0..Len(artifacts)]
  /\ catalog \in 0..Len(artifacts)
  /\ handoff \in [state : Tokens, context : Clients \cup {NoContext}]
  /\ answer \in Answers
  /\ holders \subseteq Clients
  /\ \A c \in Clients :
       pc[c] \in {"save_draft", "answer_draft", "mark", "save_approved", "check",
                  "replay", "stuck", "stuck_context"} => art[c] # 0

(* An agent never runs a capability that is not signed off: from the check *)
(* of an invoke to its last step the artifact that is replayed is an       *)
(* approved one, whatever is discovered or approved under its name         *)
(* meanwhile.                                                              *)
DraftNeverRuns ==
  \A c \in Clients :
    pc[c] \in {"replay", "stuck", "stuck_context"} => artifacts[art[c]] = "approved"

(* An approval takes effect and stays: when approve answers, the name      *)
(* stands for an approved artifact, and only a discover that saves makes   *)
(* it a draft again - no approve that overlaps other requests does.        *)
ApprovalStays ==
  [][/\ catalog # 0 /\ artifacts[catalog] = "approved"
        => \/ artifacts'[catalog'] = "approved"
           \/ \E c \in Clients : pc[c] = "save_draft" /\ pc'[c] = "answer_draft"
     /\ \A c \in Clients :
          pc[c] = "save_approved" /\ pc'[c] = "idle" => artifacts'[catalog'] = "approved"]_vars

(* A handoff that is pending or taken says what it is about, unless a      *)
(* request is still between its two writes: once those are through, no     *)
(* interleaving of requests, takes and releases leaves a human without a   *)
(* context.  A take in that window does hand the token over without one    *)
(* (main.py:38-39, 137-139); the property says nothing of it.              *)
HandoffHasContext ==
  handoff.context = NoContext =>
    \/ handoff.state = "AGENT_CONTROL"
    \/ \E c \in Clients : pc[c] \in {"stuck_context", "request_context"}

-----------------------------------------------------------------------------
(* What the repository says of the program and the code does not do.       *)

(* app/main.py:29: the control token has "one holder at a time".           *)
OneHolder == Cardinality(holders) <= 1
=============================================================================
