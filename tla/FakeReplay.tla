----------------------------- MODULE FakeReplay -----------------------------
(***************************************************************************)
(* The replay engine on the in-memory bank of app/driver.py,               *)
(* FakeBankDriver: what POST /invoke runs, and what the tests drive.       *)
(*                                                                         *)
(* Replay's actions are conjoined with what the driver call they make does *)
(* to the bank.  The bank shows no overlay and raises nothing, so the      *)
(* engine's Dismiss, AfterDismiss and DriverRaises have no part here.      *)
(***************************************************************************)
EXTENDS Replay

CONSTANTS
  MEMBERS,     \* member id -> [name, savings]
  Inputs,      \* the inputs dicts a caller may send
  SlowTurns    \* the values of slow_turns

ASSUME SlowTurnsAssumption == SlowTurns \subseteq Nat
(* What a caller may type is a string; None is what a name gets that is    *)
(* not among the inputs.                                                   *)
ASSUME FakeInputsAssumption ==
  /\ {"", None} \subseteq Names
  /\ DOMAIN MEMBERS \subseteq Names
  /\ \A given \in Inputs :
       "" \notin DOMAIN given /\ \A f \in DOMAIN given : given[f] \in Names \ {None}

Target(strategy, control) == <<[strategy |-> strategy, value |-> control]>>

(* The recipe that POST /discover stores and POST /invoke replays; the     *)
(* tests also pause it at a click that is not safe to redo.                *)
FakeDiscovery(retry_safe) ==
  [steps |-> <<
     [action |-> "type", target |-> Target("role_name", "search_box"),
      value_from |-> "member_id", checkpoint |-> NoCheckpoint, retry_safe |-> TRUE],
     [action |-> "click", target |-> Target("role_name", "search_button"),
      value_from |-> "", checkpoint |-> Screen("detail"), retry_safe |-> retry_safe],
     [action |-> "read", target |-> Target("label_anchor", "savings_balance"),
      value_from |-> "", checkpoint |-> Field("savings_balance"), retry_safe |-> TRUE]>>,
   success |-> Field("savings_balance"),
   outputs |-> {"savings_balance"},
   known_outcomes |-> <<[name |-> "member_not_found", detect |-> Screen("not_found")]>>,
   known_interstitials |-> <<>>]

ASSUME FakeRecipesAssumption == Artifacts \subseteq {FakeDiscovery(TRUE), FakeDiscovery(FALSE)}

VARIABLES
  bank,        \* the FakeBankDriver of the run
  inputs       \* the inputs of the run

fakeVars == <<vars, bank, inputs>>

Bank == [screen : {"search", "detail", "not_found"}, query : Names, current : Names,
         hide_balance : BOOLEAN, slow_turns : SlowTurns, slow_remaining : Nat]

FakeInit ==
  /\ Init
  /\ inputs \in Inputs
  /\ bank \in [screen : {"search"}, query : {""}, current : {None},
               hide_balance : BOOLEAN, slow_turns : SlowTurns, slow_remaining : {0}]

FakePerceive_BugBlankBalance(b) ==
  IF b.screen # "detail" THEN [screen |-> b.screen, fields |-> <<>>]
  ELSE IF b.slow_remaining > 0 THEN [screen |-> "loading", fields |-> <<>>]
  ELSE [screen |-> "detail",
        fields |-> [member_id |-> b.current, name |-> MEMBERS[b.current].name,
                    savings_balance |-> IF b.hide_balance THEN ""
                                        ELSE MEMBERS[b.current].savings]]

(* FakeBankDriver.perceive; the controls it lists are read by nobody.      *)
FakePerceive(b) ==
  IF b.screen # "detail" THEN [screen |-> b.screen, fields |-> <<>>]
  ELSE IF b.slow_remaining > 0 THEN [screen |-> "loading", fields |-> <<>>]
  ELSE LET shown == {"member_id", "name"}
                      \cup (IF b.hide_balance THEN {} ELSE {"savings_balance"})
           all == [member_id |-> b.current, name |-> MEMBERS[b.current].name,
                   savings_balance |-> MEMBERS[b.current].savings]
       IN [screen |-> "detail", fields |-> [f \in shown |-> all[f]]]

(* FakeBankDriver.act: the control is the top locator's value.  Reads and  *)
(* unknown actions leave the bank as it is.                                *)
FakeType(b, value) == [b EXCEPT !.query = IF value = None THEN "" ELSE value]

FakeClick_BugCurrentNotSet(b) ==
  IF b.query \in DOMAIN MEMBERS
  THEN [b EXCEPT !.screen = "detail", !.slow_remaining = b.slow_turns]
  ELSE [b EXCEPT !.screen = "not_found"]

FakeClick(b) ==
  IF b.query \in DOMAIN MEMBERS
  THEN [b EXCEPT !.current = b.query, !.screen = "detail",
                 !.slow_remaining = b.slow_turns]
  ELSE [b EXCEPT !.screen = "not_found"]

FakeWait(b) ==
  [b EXCEPT !.slow_remaining = IF @ > 0 THEN @ - 1 ELSE 0]

FakeAct(b, step) ==
  LET control == step.target[1].value
  IN CASE step.action = "type" /\ control = "search_box" ->
            FakeType(b, ValueOf(step, inputs))
       [] step.action = "click" /\ control = "search_button" -> FakeClick(b)
       [] step.action = "wait" -> FakeWait(b)
       [] OTHER -> b

(* What the bank shows is among what the engine may be shown.              *)
ASSUME FakePagesAssumption ==
  /\ \A screen \in {"search", "not_found"} : FakePerceive([screen |-> screen]) \in Observations
  /\ \A id \in DOMAIN MEMBERS, hide \in BOOLEAN, slow \in {0, 1} :
       FakePerceive([screen |-> "detail", current |-> id, hide_balance |-> hide,
                     slow_remaining |-> slow]) \in Observations

-----------------------------------------------------------------------------
Looking ==
  \E o \in {FakePerceive(bank)} :
    \/ Perceive(o)
    \/ TrustPaused(o)
    \/ Deny(o)
    \/ FinalLook(o)
    \/ AfterWait(o)

Deciding ==
  BusinessOutcome \/ NoOutcome \/ GiveUp \/ StepDone \/ Succeed \/ OutputsMissing

FakeEngineStep ==
  \/ Act /\ bank' = FakeAct(bank, Steps[i]) /\ UNCHANGED inputs
  \/ Retry /\ bank' = FakeWait(bank) /\ UNCHANGED inputs
  \/ (Looking \/ Deciding) /\ UNCHANGED <<bank, inputs>>

(* While the run is paused a human brings the balance back, as             *)
(* tests/test_resume.py does.                                              *)
HumanFix ==
  /\ result.status = "paused"
  /\ bank.hide_balance
  /\ bank' = [bank EXCEPT !.hide_balance = FALSE]
  /\ UNCHANGED <<vars, inputs>>

FakeResume == Resume /\ UNCHANGED <<bank, inputs>>

FakeNext == FakeEngineStep \/ HumanFix \/ FakeResume

(* The engine runs on until it returns; the script that paused a run       *)
(* resumes it once the human is done (scripts/run_handoff_resume.py).      *)
FakeSpec == FakeInit /\ [][FakeNext]_fakeVars
                     /\ WF_fakeVars(FakeEngineStep)
                     /\ WF_fakeVars(HumanFix) /\ WF_fakeVars(FakeResume)

-----------------------------------------------------------------------------
BankTypeOK ==
  /\ TypeOK
  /\ bank \in Bank
  /\ inputs \in Inputs
  /\ bank.screen = "detail" => bank.current \in DOMAIN MEMBERS

Member == IF "member_id" \in DOMAIN inputs THEN inputs["member_id"] ELSE ""
Known  == Member \in DOMAIN MEMBERS

(* The waits of every call so far could not outlast the slow page: a click *)
(* that is redone on resume starts the slow load over, a click that is not *)
(* lets it go on.                                                          *)
TooSlow ==
  bank.slow_turns >
    IF Steps[2].retry_safe THEN MAX_SLOW_RETRIES
                           ELSE MAX_SLOW_RETRIES * (resumes + 1)

(* Whenever a call of replay() has returned, its result is the one the     *)
(* bank's state calls for: "no such member" for exactly the ids the bank   *)
(* does not have, stuck at the search for a page slower than the retries,  *)
(* stuck at the read for a hidden balance, and otherwise the balance of    *)
(* the member that was asked for, never another's.                         *)
Verdict ==
  (result.status # "running" /\ \A k \in DOMAIN Steps : Permitted(k)) =>
     \/ ~Known /\ result.status = "business_outcome" /\ result.about = "member_not_found"
     \/ Known /\ TooSlow /\ Stuck /\ result.step = 2
     \/ Known /\ Stuck /\ result.step = 3
     \/ /\ Known /\ ~TooSlow /\ ~bank.hide_balance
        /\ result.status = "success"
        /\ result.outputs = [f \in {"savings_balance"} |-> MEMBERS[Member].savings]

(* A hidden balance is never reported as a success with a missing value:   *)
(* a call made while it is hidden does not succeed, and one that gets      *)
(* stuck at the read found it hidden.                                      *)
HiddenBalanceStops ==
  [][/\ (bank.hide_balance /\ result.status = "running") => result'.status # "success"
     /\ (result.status = "running" /\ Stuck' /\ i = 3 /\ Permitted(3))
          => bank.hide_balance]_fakeVars

(* The waiting a caller sees in the log is the waiting there was: a run    *)
(* that succeeds without a pause logged one slow load, of as many attempts *)
(* as the page was slow, or none.                                          *)
RecoveryVisible ==
  (result.status = "success" /\ resumes = 0) =>
     result.recovered =
       IF bank.slow_turns = 0 THEN <<>>
       ELSE <<[step |-> 2, condition |-> "slow_load", name |-> "",
               attempts |-> bank.slow_turns]>>

(* A run of a permitted recipe that paused for a known member, resumed by  *)
(* its caller, gets to the balance: always when it stopped at the read     *)
(* and, for a click that is not redone, when the page needs no more waits  *)
(* than one call has.                                                      *)
PausedRunCompletes ==
  /\ result.status = "paused"
  /\ Permitted(2)
  /\ resumes < MaxResumes
  /\ \/ result.step = 3 /\ ~bank.hide_balance
     \/ /\ result.step = 2 /\ ~bank.hide_balance
        /\ ~Steps[2].retry_safe /\ bank.slow_remaining <= MAX_SLOW_RETRIES
  ~> result.status = "success"
=============================================================================
