----------------------------- MODULE MCRoundTrip -----------------------------
(***************************************************************************)
(* The two discovery scripts on the legacy server, with a model that       *)
(* decides as the recorded one did or otherwise, and the replays of what   *)
(* comes out.                                                              *)
(***************************************************************************)
EXTENDS RoundTrip, TLC

MCMEMBERS == ("12345" :> [name |-> "Ada Lovelace", savings |-> "$4,210.55"])
          @@ ("67890" :> [name |-> "Alan Turing", savings |-> "$980.00"])

(* The scripts' own address has no flags; a bank that is slow by itself is *)
(* the page with the slow flag.                                            *)
MCJobs == [inputs  : {ScriptInputs[s] : s \in DOMAIN ScriptInputs},
           success : {Field("savings_balance")},
           entry   : {SearchPage(slow, FALSE) : slow \in BOOLEAN}]

Decision(action, target, value, outcome) ==
  [action |-> action, target |-> target, value |-> value, outcome |-> outcome]

MCDecisions ==
  {Decision("type", "the Member ID text box", v, "") : v \in {"12345", "12345 ", "99999"}}
    \cup {Decision("click", t, None, "") : t \in {"Search button", "Search"}}
    \cup {Decision("read", t, None, "") :
            t \in {"savings of account 0012345678", "the name", "the member id",
                  "$4,210.55"}}
    \cup {Decision("wait", "the page", None, ""), Decision("done", "the page", None, "")}
    \cup {Decision("outcome", "the message", None, n) : n \in {"member_not_found"}}

MCWords == ("savings of account 0012345678" :> {"savings", "of", "account", "0012345678"})
        @@ ("the name" :> {"the", "name"})
        @@ ("the member id" :> {"the", "member", "id"})
        @@ ("$4,210.55" :> {"$4,210.55"})

MCStrip == ("12345" :> "12345") @@ ("12345 " :> "12345") @@ ("99999" :> "99999")

MCMasks ==
  ("cell::savings of account 0012345678" :> "cell::savings of account <redacted>")
    @@ ("[aria-label=savings of account 0012345678]" :>
          "[aria-label=savings of account <redacted>]")

(* The drafts and step logs in evidence/.                                  *)
Recorded(action, value, ladder, rung, field, after) ==
  [action |-> action, value |-> value, ladder |-> ladder, rung |-> rung, field |-> field,
   ok |-> TRUE, after |-> after]

RecordedTurns(typed, found) ==
  <<Recorded("type", typed,
             <<Rung("role_name", "textbox::the Member ID text box"),
               Rung("role_name", "textbox::")>>, 2, "", "search"),
    Recorded("click", None,
             <<Rung("role_name", "button::Search button"),
               Rung("role_name", "link::Search button"),
               Rung("role_name", "button::")>>, 3, "", found)>>

SuccessTurns ==
  Append(RecordedTurns("12345", "detail"),
         Recorded("read", None,
                  <<Rung("role_name", "cell::the savings balance"),
                    Rung("attribute", "[aria-label=the savings balance]"),
                    Rung("label_anchor", "Savings Balance")>>,
                  3, "savings_balance", "detail"))

RecordedStep(turn) ==
  [action |-> turn.action, target |-> turn.ladder,
   value_from |-> IF turn.action = "type" THEN "member_id" ELSE "",
   checkpoint |-> IF turn.action = "click" THEN Screen(turn.after)
                  ELSE IF turn.action = "read" THEN Field(turn.field) ELSE NoCheckpoint,
   retry_safe |-> TRUE]

RecordedDraft(turns0, outputs, outcomes) ==
  [steps |-> [k \in DOMAIN turns0 |-> RecordedStep(turns0[k])],
   success |-> Field("savings_balance"), outputs |-> outputs,
   known_outcomes |-> outcomes, known_interstitials |-> <<>>]

MCEarlier ==
  [success  |-> {NoFile,
                 [log   |-> SuccessTurns,
                  draft |-> {RecordedDraft(SuccessTurns, {"savings_balance"}, <<>>)}]},
   notfound |-> {NoFile,
                 [log   |-> RecordedTurns("99999", "not_found"),
                  draft |-> {RecordedDraft(RecordedTurns("99999", "not_found"), {},
                               <<[name   |-> "member_not_found",
                                  detect |-> Screen("not_found")]>>)}]}]

(* What the engine may be shown is what the page shows.                    *)
MCObservations ==
  {LivePerceive(p) : p \in {SearchPage(FALSE, FALSE)}
     \cup {MemberPage(id, FALSE, hide) : id \in DOMAIN MCMEMBERS \cup {""}, hide \in BOOLEAN}}

MCInputs == {[member_id |-> "12345"], [member_id |-> "67890"], [member_id |-> "99999"]}
MCDrifts == {{}, {"button::Search"}, {"textbox::"}}
MCNames == STRING
MCAllowlists == {{"type", "click", "read", "wait", "navigate"}}
=============================================================================
