------------------------------ MODULE MCReplay ------------------------------
(***************************************************************************)
(* The engine against a driver that may show anything at any time: the     *)
(* recipe of app/store.py with a dialog the page may show, and a variant   *)
(* whose click and read may not be redone and whose goal is a screen.      *)
(***************************************************************************)
EXTENDS Replay

Target(control) == <<[strategy |-> "role_name", value |-> control]>>

LookupSavings(retry_safe, success) ==
  [steps |-> <<
     [action |-> "type", target |-> Target("search_box"), value_from |-> "member_id",
      checkpoint |-> NoCheckpoint, retry_safe |-> TRUE],
     [action |-> "click", target |-> Target("search_button"), value_from |-> "",
      checkpoint |-> Screen("detail"), retry_safe |-> retry_safe],
     [action |-> "read", target |-> Target("savings_balance"), value_from |-> "",
      checkpoint |-> Field("savings_balance"), retry_safe |-> retry_safe]>>,
   success |-> success,
   outputs |-> {"savings_balance"},
   known_outcomes |-> <<[name |-> "member_not_found", detect |-> Screen("not_found")]>>,
   known_interstitials |-> <<[name |-> "session_dialog", detect |-> Screen("dialog")]>>]

MCArtifacts == {LookupSavings(TRUE, Field("savings_balance")),
                LookupSavings(FALSE, Screen("detail"))}

Page(screen, fields) == [screen |-> screen, fields |-> [f \in fields |-> "v"]]

MCObservations ==
  {Page("detail", {}), Page("detail", {"savings_balance"}), Page("not_found", {}),
   Page("dialog", {}), Page("dialog", {"savings_balance"})}

MCNames == STRING

AllActions == {"type", "click", "read", "wait", "navigate"}
MCAllowlists == {AllActions, AllActions \ {"click"}}
=============================================================================
