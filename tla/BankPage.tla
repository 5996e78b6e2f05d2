------------------------------ MODULE BankPage ------------------------------
(***************************************************************************)
(* The browser page that discovery, replay and a human share: the server   *)
(* of legacy_bank/server.py behind PlaywrightBankDriver of app/driver.py.  *)
(*                                                                         *)
(* A navigation is asynchronous.  The click that starts it does not wait   *)
(* for it (no_wait_after); click and wait then give it one                 *)
(* NAV_ATTEMPT_TIMEOUT_MS each.  Time is counted in those attempts:        *)
(* SlowAttempts = ceil(SLOW_LOAD_SECONDS / NAV_ATTEMPT_TIMEOUT_MS) of them *)
(* are enough for the slow page, one is enough for any other.  It may also *)
(* commit earlier, at any point between two driver calls, because          *)
(* perceive() and a model's decision take time of their own.               *)
(*                                                                         *)
(* perceive() makes several reads that a commit can separate (TornReads).  *)
(* What it puts together then is what it would have read wholly before the *)
(* commit or wholly after it (TornReadsAreWhole), so a perceive() is one   *)
(* read of one page in the modules that use this one.  Or it raises: the   *)
(* box it counted is gone when input_value() asks for it.                  *)
(*                                                                         *)
(* Left out of act(): "navigate" (page.goto).  No recipe that is replayed  *)
(* on this page has such a step (SearchAssumption, CompileArtifact), no    *)
(* decision of a model is one, and the human of the handoff navigates      *)
(* without the driver.                                                     *)
(***************************************************************************)
EXTENDS Recipe

CONSTANTS
  MEMBERS,        \* member id -> [name, savings], the server's table
  SlowAttempts    \* attempts after which the slow page is there for certain

ASSUME SlowAttemptsAssumption == SlowAttempts \in Nat \ {0}
(* A search with an empty box finds nobody.                                *)
ASSUME MembersAssumption == "" \notin DOMAIN MEMBERS

VARIABLES
  drifted,   \* locator values that match nothing on the page any more
  page,      \* the committed document: address, hidden flags, text box
  nav        \* the navigation in flight, or NoNav

NoNav == [to |-> "", slow |-> FALSE, hide |-> FALSE, attempts |-> 0]

(* search_page and member_detail: slow and hide_balance ride along as      *)
(* hidden fields of the form.  member is the id the member page is for.    *)
SearchPage(slow, hide) ==
  [path |-> "search", member |-> "", box |-> "", slow |-> slow, hide |-> hide]
MemberPage(id, slow, hide) ==
  [path |-> "member", member |-> id, box |-> "", slow |-> slow, hide |-> hide]

-----------------------------------------------------------------------------
(* The rows of the member page: the key perceive() makes of the label, and *)
(* the label itself.                                                       *)
Labels == [member_id |-> "Member ID", name |-> "Name", savings_balance |-> "Savings Balance"]

(* What the rows say about a member.                                       *)
Cells(id) ==
  [member_id |-> id, name |-> MEMBERS[id].name, savings_balance |-> MEMBERS[id].savings]

Rows(p) ==
  IF p.path = "member" /\ p.member \in DOMAIN MEMBERS
  THEN {"member_id", "name"} \cup (IF p.hide THEN {} ELSE {"savings_balance"})
  ELSE {}

(* The page whose text says "No such member".                              *)
NoSuchMember(p) == p.path = "member" /\ p.member \notin DOMAIN MEMBERS

(* perceive reads the address, the text and the rows of a page, in this    *)
(* order: here each from a document of its own.  The text decides before   *)
(* the address; every two-cell row of the member page is a field.          *)
PerceiveFrom(address, text, rows) ==
  LET screen == IF NoSuchMember(text) THEN "not_found"
                ELSE IF address.path = "member" THEN "detail" ELSE "search"
  IN [screen |-> screen,
      fields |-> [f \in (IF screen = "detail" THEN Rows(rows) ELSE {}) |-> Cells(rows.member)[f]]]

(* perceive of a page that stays.                                          *)
LivePerceive(p) == PerceiveFrom(p, p, p)

TornReads_BugTextBeforeAddress(p, q) ==
  {PerceiveFrom(p, p, p), PerceiveFrom(p, p, q), PerceiveFrom(q, p, q), PerceiveFrom(q, q, q)}

(* perceive while page q takes the place of p: from some read on it is q   *)
(* that answers.  The address is still that of p when the first read made  *)
(* evaluate() raise and page.url, which it falls back to, is a step stale. *)
TornReads(p, q) ==
  {PerceiveFrom(p, p, p), PerceiveFrom(p, p, q), PerceiveFrom(p, q, q), PerceiveFrom(q, q, q)}

(* What the page has for a locator to match.  The text box has no name,    *)
(* the button is called Search; a row's label anchors its value, and each  *)
(* of the two cells is found by its own text.  No element of this server   *)
(* has an aria-label, and there is no link.  Four cells are left out that  *)
(* get_by_role("cell") would find by their whole text: the headers "Member *)
(* Search" and "Member <id>", the sentence of the not-found page, and the  *)
(* cell around the form.  No description recorded is one of these texts,   *)
(* and a label anchor finds none of them, having no cell to their right.   *)
Shows(p) ==
  IF p.path = "search"
  THEN {"textbox::", "button::", "button::Search", "cell::Member ID", "Member ID"}
  ELSE {Labels[f] : f \in Rows(p)}
         \cup {"cell::" \o Labels[f] : f \in Rows(p)}
         \cup {"cell::" \o Cells(p.member)[f] : f \in Rows(p)}

Present_BugButtonEverywhere(p) ==
  {"textbox::", "button::", "button::Search", "Savings Balance"} \ drifted

(* The locators that match something on the page.                          *)
Present(p) == Shows(p) \ drifted

(* _resolve: the ladder is tried from the top, any rung will do.           *)
Resolves(target, p) == \E r \in DOMAIN target : target[r].value \in Present(p)

(* Rung r is the first of the ladder to match something that is shown.     *)
FoundAt(target, shown, r) ==
  /\ r \in DOMAIN target
  /\ target[r].value \in shown
  /\ \A q \in 1..(r - 1) : target[q].value \notin shown

(* The rung it stops at, 0 when the ladder is exhausted.                   *)
ResolvedRung(target, p) ==
  IF Resolves(target, p)
  THEN CHOOSE r \in DOMAIN target : FoundAt(target, Present(p), r)
  ELSE 0

(* The pages this server has, as far as they look different.               *)
ServerPages ==
  {SearchPage(FALSE, FALSE)}
    \cup {MemberPage(id, FALSE, FALSE) : id \in DOMAIN MEMBERS \cup {""}}
    \cup {MemberPage(id, FALSE, TRUE) : id \in DOMAIN MEMBERS \cup {""}}

(* A ladder that stops at the same rung on every page it finds anything on.*)
Steady(target) ==
  \A p, q \in ServerPages : \A r, s \in DOMAIN target :
    FoundAt(target, Shows(p), r) /\ FoundAt(target, Shows(q), s) => r = s

-----------------------------------------------------------------------------
Commit(n) == MemberPage(n.to, n.slow, n.hide)

WaitBriefly_BugNoWait(p, n) == page' = p /\ nav' = n

(* One short wait (_wait_briefly_for_navigation): the navigation in flight *)
(* commits, or has one attempt less to go.                                 *)
WaitBriefly(p, n) ==
  IF n = NoNav THEN page' = p /\ nav' = NoNav
  ELSE IF n.attempts = 1 THEN page' = Commit(n) /\ nav' = NoNav
  ELSE page' = p /\ nav' = [n EXCEPT !.attempts = @ - 1]

(* Submitting the form starts a navigation to the member page.             *)
Submitted(p) ==
  [to |-> p.box, slow |-> p.slow, hide |-> p.hide,
   attempts |-> IF p.slow THEN SlowAttempts ELSE 1]

(* act(): what it does to the page, and the ok of its ActionResult.  With  *)
(* an exhausted ladder, or none, it does nothing.  The action is never     *)
(* "navigate" (see above).                                                 *)
DriverAct(action, target, value) ==
  IF action = "wait" THEN WaitBriefly(page, nav)
  ELSE IF action = "click" /\ Resolves(target, page) THEN WaitBriefly(page, Submitted(page))
  ELSE IF action = "type" /\ Resolves(target, page)
    THEN /\ page' = [page EXCEPT !.box = IF value = None THEN "" ELSE value]
         /\ UNCHANGED nav
  ELSE UNCHANGED <<page, nav>>

ActOk(action, target) == action = "wait" \/ Resolves(target, page)

(* The slow page arrives between two calls.                                *)
NavCommits ==
  /\ nav # NoNav
  /\ page' = Commit(nav)
  /\ nav' = NoNav

-----------------------------------------------------------------------------
(* A perceive() that the navigation in flight tears returns what it would  *)
(* have returned before it or after it, and never a mixture of the two:    *)
(* no rows of one member under another's address, no member page where the *)
(* text says that there is no such member.                                 *)
TornReadsAreWhole ==
  nav # NoNav => TornReads(page, Commit(nav)) \subseteq {LivePerceive(page), LivePerceive(Commit(nav))}
=============================================================================
