---------------------------- MODULE MCFakeReplay ----------------------------
(***************************************************************************)
(* The recipe and the members of the repository, the inputs of its tests   *)
(* and an inputs dict without the member id, pages as slow as two calls'   *)
(* waits and slower.                                                       *)
(***************************************************************************)
EXTENDS FakeReplay, TLC

MCArtifacts == {FakeDiscovery(TRUE), FakeDiscovery(FALSE)}

MCMEMBERS == ("12345" :> [name |-> "Ada Lovelace", savings |-> "$4,210.55"])
          @@ ("67890" :> [name |-> "Alan Turing", savings |-> "$980.00"])

MCInputs == {[member_id |-> "12345"], [member_id |-> "67890"], [member_id |-> "99999"],
             <<>>}

Shown(id, fields) ==
  [screen |-> "detail",
   fields |-> [f \in fields |-> IF f = "member_id" THEN id
                                ELSE IF f = "name" THEN MCMEMBERS[id].name
                                ELSE MCMEMBERS[id].savings]]
Blank(o) == [o EXCEPT !.fields.savings_balance = ""]

(* What a driver may show the engine; the bank shows no blank balance.     *)
MCObservations ==
  [screen : {"search", "not_found", "loading"}, fields : {<<>>}]
    \cup {Shown(id, {"member_id", "name"}) : id \in DOMAIN MCMEMBERS}
    \cup {Shown(id, {"member_id", "name", "savings_balance"}) : id \in DOMAIN MCMEMBERS}
    \cup {Blank(Shown(id, {"member_id", "name", "savings_balance"})) : id \in DOMAIN MCMEMBERS}

MCNames == STRING

AllActions == {"type", "click", "read", "wait", "navigate"}
MCAllowlists == {AllActions, AllActions \ {"click"}}
MCSlowTurns == 0..7
=============================================================================
