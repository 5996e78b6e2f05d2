---------------------------- MODULE MCLiveReplay ----------------------------
(***************************************************************************)
(* The approved recipe (evidence/approved-recipe) on the legacy server.    *)
(***************************************************************************)
EXTENDS LiveReplay, TLC

Rung(strategy, value) == [strategy |-> strategy, value |-> value]

ApprovedRecipe ==
  [steps |-> <<
     [action |-> "type",
      target |-> <<Rung("role_name", "textbox::the Member ID text box"),
                   Rung("role_name", "textbox::")>>,
      value_from |-> "member_id", checkpoint |-> NoCheckpoint, retry_safe |-> TRUE],
     [action |-> "click",
      target |-> <<Rung("role_name", "button::Search button"),
                   Rung("role_name", "link::Search button"),
                   Rung("role_name", "button::")>>,
      value_from |-> "", checkpoint |-> Screen("detail"), retry_safe |-> TRUE],
     [action |-> "read",
      target |-> <<Rung("role_name", "cell::the savings balance"),
                   Rung("attribute", "[aria-label=the savings balance]"),
                   Rung("label_anchor", "Savings Balance")>>,
      value_from |-> "", checkpoint |-> Field("savings_balance"), retry_safe |-> TRUE]>>,
   success |-> Field("savings_balance"),
   outputs |-> {"savings_balance"},
   known_outcomes |-> <<[name |-> "member_not_found", detect |-> Screen("not_found")]>>,
   known_interstitials |-> <<>>]

(* The same recipe with a click that is not safe to redo.                  *)
MCArtifacts ==
  {ApprovedRecipe, [ApprovedRecipe EXCEPT !.steps[2].retry_safe = FALSE]}

MCMEMBERS == ("12345" :> [name |-> "Ada Lovelace", savings |-> "$4,210.55"])
          @@ ("67890" :> [name |-> "Alan Turing", savings |-> "$980.00"])

MCInputs == {[member_id |-> "12345"], [member_id |-> "67890"], [member_id |-> "99999"]}
MCDrifts == SUBSET {"textbox::", "button::"}

Shown(id, fields) ==
  [screen |-> "detail",
   fields |-> [f \in fields |-> IF f = "member_id" THEN id
                                ELSE IF f = "name" THEN MCMEMBERS[id].name
                                ELSE MCMEMBERS[id].savings]]

MCObservations ==
  [screen : {"search", "not_found"}, fields : {<<>>}]
    \cup {Shown(id, {"member_id", "name"}) : id \in DOMAIN MCMEMBERS}
    \cup {Shown(id, {"member_id", "name", "savings_balance"}) : id \in DOMAIN MCMEMBERS}

MCNames == STRING
MCAllowlists == {{"type", "click", "read", "wait", "navigate"}}
=============================================================================
