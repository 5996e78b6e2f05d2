----------------------------- MODULE RunContract -----------------------------
(***************************************************************************)
(* What a run of a capability promises its caller (app/models.py, "result  *)
(* contract" and "pause / resume"), without recipe, page or log: it works  *)
(* through a number of steps, it ends in exactly one way, only a run with  *)
(* no step left succeeds, a business answer comes from one of the steps, a *)
(* handoff is raised for a Failure or a Paused and for nothing else, and   *)
(* resuming a paused run continues with the steps it had left.             *)
(*                                                                         *)
(* There are two contracts.  PromisedSpec is the one of models.py: "Every  *)
(* run returns exactly ONE of these three", or a Paused if the caller      *)
(* opted in.  Spec adds one ending that models.py does not have: Raise, an *)
(* exception instead of a result.  The engine keeps Spec; it keeps         *)
(* PromisedSpec only as long as no call of its driver raises.  Of          *)
(* models.py neither keeps the outputs, names, ids and the log of a        *)
(* result: what is in them is said of the engine itself.                   *)
(***************************************************************************)
EXTENDS Naturals

VARIABLES
  status,    \* "running", or the status of what was returned
  left,      \* steps of the recipe not completed
  hooked,    \* whether on_stuck is wired
  handoffs   \* how often it was called

vars == <<status, left, hooked, handoffs>>

Init ==
  /\ status = "running"
  /\ left \in Nat
  /\ hooked \in BOOLEAN
  /\ handoffs = 0

CompleteStep ==
  /\ status = "running"
  /\ left > 0
  /\ left' = left - 1
  /\ UNCHANGED <<status, hooked, handoffs>>

Succeed ==
  /\ status = "running"
  /\ left = 0
  /\ status' = "success"
  /\ UNCHANGED <<left, hooked, handoffs>>

AnswerBusinessOutcome ==
  /\ status = "running"
  /\ left > 0
  /\ status' = "business_outcome"
  /\ UNCHANGED <<left, hooked, handoffs>>

GetStuck ==
  /\ status = "running"
  /\ status' \in {"failure", "paused"}
  /\ handoffs' = IF hooked THEN handoffs + 1 ELSE handoffs
  /\ UNCHANGED <<left, hooked>>

(* Not in models.py: the run is over, with no result, no handoff and       *)
(* nothing to resume.                                                      *)
Raise ==
  /\ status = "running"
  /\ status' = "raised"
  /\ UNCHANGED <<left, hooked, handoffs>>

Resume ==
  /\ status = "paused"
  /\ status' = "running"
  /\ UNCHANGED <<left, hooked, handoffs>>

(* What models.py lets a run do next.                                      *)
Promised == CompleteStep \/ Succeed \/ AnswerBusinessOutcome \/ GetStuck

PromisedSpec == Init /\ [][Promised \/ Resume]_vars

Progress == Promised \/ Raise

Next == Progress \/ Resume

Spec == Init /\ [][Next]_vars

FairSpec == Spec /\ WF_vars(Progress)
=============================================================================
