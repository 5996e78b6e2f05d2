------------------------------- MODULE Recipe -------------------------------
(***************************************************************************)
(* The typed contracts of app/models.py and the two pure decisions taken   *)
(* on them: whether an observation satisfies a checkpoint (app/replay.py,  *)
(* _check) and whether the safety gate lets an action through              *)
(* (app/safety.py, SafetyGate.check).                                      *)
(*                                                                         *)
(* A checkpoint string is the record it parses to: "screen==s",            *)
(* "field:f", or anything else.  None and the empty string are not         *)
(* checkpoints; every caller of _check treats them as "nothing to check",  *)
(* which is what a checkpoint of the third kind does.                      *)
(***************************************************************************)
EXTENDS Naturals, Sequences

CONSTANT Names   \* the strings recipes, pages and members are made of

Screen(s)    == [kind |-> "screen", arg |-> s]
Field(f)     == [kind |-> "field", arg |-> f]
NoCheckpoint == [kind |-> "none", arg |-> ""]

Checkpoint == [kind : {"screen", "field", "none"}, arg : Names]

Locator == [strategy : {"role_name", "attribute", "label_anchor", "coordinates"},
            value : Names]

(* value_from is the name of the input after "input.", "" when absent.     *)
Step == [action     : {"type", "click", "read", "navigate", "wait"},
         target     : Seq(Locator),
         value_from : Names,
         checkpoint : Checkpoint,
         retry_safe : BOOLEAN]

(* known_outcomes and known_interstitials: lists searched in order.        *)
Rule == [name : Names, detect : Checkpoint]

CapabilityArtifact == [steps               : Seq(Step),
                       success             : Checkpoint,
                       outputs             : SUBSET Names,
                       known_outcomes      : Seq(Rule),
                       known_interstitials : Seq(Rule)]

(* An observation is the screen it shows and its readable fields, a        *)
(* function from field names to values.                                    *)
Check(obs, checkpoint) ==
  /\ checkpoint.kind = "screen" => obs.screen = checkpoint.arg
  /\ checkpoint.kind = "field"  => checkpoint.arg \in DOMAIN obs.fields

(* k is the first rule of the list that the observation matches.           *)
FirstMatch(rules, obs, k) ==
  /\ k \in DOMAIN rules
  /\ Check(obs, rules[k].detect)
  /\ \A j \in 1..(k - 1) : ~Check(obs, rules[j].detect)

Matches(rules, obs) == \E k \in DOMAIN rules : Check(obs, rules[k].detect)

RISKY_ACTIONS == {"submit", "delete", "confirm", "transfer"}

GateCheck(allowed, action) ==
  IF action \in RISKY_ACTIONS THEN "needs_approval"
  ELSE IF action \in allowed THEN "allow" ELSE "deny"

(* The outputs of an artifact that an observation has a value for.         *)
OutputsOf(artifact, obs) ==
  [f \in artifact.outputs \cap DOMAIN obs.fields |-> obs.fields[f]]

(* Definitions ending in _Bug...: see the head of Replay.                  *)
None == "None"
ValueOf_BugPrefixKept(step, inputs) == None
ValueOf_BugRecordedLiteral(step, inputs) == "12345"

(* inputs is a function from the names of the inputs given to their        *)
(* values; inputs.get() of a name that is not there is None.               *)
ValueOf(step, inputs) ==
  IF step.value_from \in DOMAIN inputs THEN inputs[step.value_from] ELSE None
=============================================================================
