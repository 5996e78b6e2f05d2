# TLA+ models of the computer-use automation service

This directory models the program in `src/`: a service that records what an
agent does on a legacy banking page as a *recipe*, lets a human approve it,
and replays it deterministically for callers, pausing for a human when it gets
stuck. The models are checked with TLC; theorems about the engine, the fake
bank, the live page, discovery, the way from a discovery to a replay, and the
service are proved with TLAPS.

## 1. The system

| Component | State it keeps | Operations | Interacts with |
|---|---|---|---|
| Typed contracts (`app/models.py`) | none | artifact, result and resume types | everything |
| Safety gate (`app/safety.py`) | allowlist, redaction keys | `check`, `redact` | called by replay before a step, and on everything written down |
| Replay engine (`app/replay.py`) | position, last observation, two retry counters, the recovered log | `replay`, with resume | driver (perceive/act), gate, the `on_stuck` hook |
| Fake bank (`app/driver.py`, `FakeBankDriver`) | screen, query, current member, hidden balance, slow turns left | `perceive`, `act` | replay |
| Playwright driver (`app/driver.py`) | the browser page, rung log | `perceive`, `act`, locator ladder, bounded wait | replay, discovery, the legacy server, other CDP clients |
| Legacy bank (`legacy_bank/server.py`) | member table | search page, member page (slow, without balance) | the browser |
| HTTP service (`app/main.py`) | store, handoff token | discover, approve, invoke, handoff request / take / release | clients, store, replay |
| Store, fake discovery (`app/store.py`) | artifacts by name | `save`, `get`, `list` | service |
| Handoff script and human process (`scripts/run_handoff_resume.py`, `scripts/simulated_human_action.py`) | the paused run | pause, human navigates over CDP, resume | replay, browser |
| Discovery (`app/discovery.py`) | turns, last observation | observe - decide - act loop, guess a locator ladder, compile a draft | driver, model |
| Discovery scripts (`scripts/run_discovery.py`, `scripts/run_discovery_notfound.py`) | a step log and a draft file each | one discovery, write what came of it | discovery, files |
| Merge (`scripts/merge_and_approve.py`) | the approved recipe's file | two drafts to one approved recipe | the files of the discovery scripts |
| Replay script (`scripts/run_replay.py`) | a step log per scenario | replay the approved recipe, compare the rungs | replay, the approved recipe |

What is hard in it, and which properties are for it:

* **Replay**: a run is paused and resumed, by several calls, at any step. Which
  steps were issued to the bank, what the log says and whom the hook told must
  be right over the whole sequence: `AtMostOnceUnsafe`, `NoStepSkipped`,
  `RecoveryLog`, `NoRegress`, `HandoffAccounting`. Its loops depend on a page
  that may never change: `Terminates`. It must never present one kind of
  ending as another: `Verdict`, `HiddenBalanceStops`, `NotFoundIsTrue`. And it
  should always come to one of them, which an exception of the driver prevents:
  `EveryRunReturns`.
* **The live page**: navigations are asynchronous, a read can be torn by one,
  a locator may find nothing, and a human navigates the same page. The result
  must still be about the member that was asked for (`RightBalance`), a torn
  read must not be a mixture of two pages (`TornReadsAreWhole`), slow pages must
  be got over (`SlowLoadRecovers`, `SlowLoadSucceeds`), and a resume must not
  search again (`ResumeDoesNotSearchAgain`).
* **The service**: handlers run in a thread pool over shared objects, with no
  lock: `DraftNeverRuns`, `ApprovalStays`, `HandoffHasContext`, `OneHolder`.
* **Discovery**: a model that may decide anything looks at a page that may
  change while it thinks. A run that says it succeeded must have
  (`GoalReached`), a draft must hold only what was carried out
  (`DraftWasCarriedOut`), and the loop must end (`DiscoveryEnds`).
* **From a discovery to an answer**: four scripts hand files to each other, and
  files of earlier runs lie there too. A recipe recorded with one member must
  never answer another caller with that member's data (`NothingFrozen`); one
  whose drafts were reviewed must serve every member, on slow pages too
  (`ReviewedRecipeServes`); and its replay must find the controls as the
  discovery did (`SameRungs`).

`PROJECT.json` lists every hazard at its line, with the properties that cover it.

## 2. The modules

```
Recipe <-- Replay ----+--> FakeReplay
   ^         |        |
   |         |        +--> LiveReplay --+
   |         +--> RunContract           |--> RoundTrip
   |              (refined by Replay)   |
   +-- BankPage ------+--> LiveReplay   |
                      +--> Discovery ---+
Service

proofs:  Replay_proofs <-- Replay_log, Replay_refinement
         Replay_proofs <-- FakeReplay_proofs
         Replay_proofs <-- LiveReplay_proofs
         LiveReplay_proofs, Discovery_proofs <-- RoundTrip_proofs
         Service_proofs
```
(an arrow goes from a module to those that extend it)

**Recipe** has the types of `models.py` and the pure decisions taken on them.
A checkpoint string is the record it parses to; `value_from` is the name after
`input.`; `Check` is `_check`, `GateCheck` is `SafetyGate.check`, `FirstMatch`
the searches in list order for overlays and outcomes, `ValueOf` the lookup of
an input, `None` included. Strings are drawn from a constant `Names`.

**Replay** is `replay()` with its helpers. `pc` is a position in its loops (the
module's head lists them), `i` the step, `Goal` the success phase. One call of
the driver is one point at which the world may change, so an action runs from
just after one `perceive()` to just after the next one, or to an `act()`:

| Action | Code |
|---|---|
| `Act`, `Perceive` | 138-150: gate, input value, `act`, `perceive` |
| `TrustPaused` | 133-136: a resumed step that may not be redone |
| `Deny` | 138-143 |
| `Dismiss`, `AfterDismiss` | 43-53, one iteration of the overlay loop |
| `BusinessOutcome`, `NoOutcome` | 152-159 |
| `Retry`, `AfterWait` | 66-69, one iteration of the wait |
| `StepDone`, `GiveUp` | 70-73, 161-167, and 172-175 in the success phase |
| `FinalLook`, `Succeed`, `OutputsMissing` | 169-184 |
| `DriverRaises` | an exception of any of those driver calls: nothing catches it |
| `Resume` | 124-131, a new call with the `ResumeState` of a `Paused` |

`Fail` is `_fail`: call the hook if there is one, then pause or fail. The
variables `acted` (how often a step's action was issued) and `raised` (the steps
the hook was told) are history, read by properties only; `resumes` is bounded
by `MaxResumes`. A recipe, an allowlist and the presence of a hook are chosen
in `Init`; a resumed call may choose `resumable` anew, as the code lets it.

The driver is free in `Replay`: every observation is any member of
`Observations`. The two compositions conjoin each engine action with what its
driver call does, and give the observation the driver would make.

**FakeReplay** adds the in-memory bank (`bank` has the fields of the class) and
the test's human, who flips `hide_balance` while the run is paused. Its recipe is
`FakeDiscovery`, what `fake_discovery` stores, and the one the tests change the
click of.

**BankPage** is the browser page: the legacy server behind the Playwright
driver. `page` is the committed document, `nav` the navigation in flight. A
click that submits the form starts one; click and wait each give it one
`NAV_ATTEMPT_TIMEOUT_MS`. Time is counted in those attempts: the slow page
takes 3 s and an attempt 1.2 s, so after `SlowAttempts` = 3 of them it is there
for certain; and because a `perceive()` and a model take time themselves, it
may come earlier at any point between two calls (`NavCommits`). `DriverAct` is
`act()`, `ActOk` its `ok`, `ResolvedRung` the entry it makes in the rung log.
`Shows` says which locators the server's page has something for, `drifted` which
of them it has lost, and `Present` what is left: the locators that match. `FoundAt`
says at which rung a ladder stops, on any set of what is shown, `ServerPages` are
the pages that look different, and a ladder is `Steady` if it stops at the same
rung on all of them where it stops at all. 

`perceive()` reads the address, then the text, then the rows or the text box, and
a commit can come between any two of these reads. `PerceiveFrom` makes an
observation of three documents, one for each read, and `TornReads` are those that
a commit between them can bring about; the fallback to `page.url`, which is the
address before the navigation when `evaluate()` raised in the middle of it, gives
the same ones. `TornReadsAreWhole` says that each is what `perceive()` would have read wholly
before the commit or wholly after it: the not-found text decides before the
address does, and the address of the search page reads no rows. That is why the
actions use `LivePerceive`, one read of one page. The other possibility is an
exception, when the text box it counted is gone as `input_value()` asks for it.

Two things of this page are left out. `act("navigate")`: no recipe or decision here
has one (`run_replay.py` navigates to the entry page before the run, the human of the
handoff without the driver). And four cells that `get_by_role("cell")` would find by
their whole text, in `Shows`: the two headers, the sentence of the not-found page
and the cell around the form; no description that was recorded is one of them.

**LiveReplay** is the engine on that page, with the human process that fixes the
page of a paused run. A step whose ladder is exhausted does nothing and the
engine goes on, as the code does; `PerceiveRaises` is the exception above. Of the
engine's actions it has those its recipes reach: the scripts' gate allows every
action of a step, so there is no `Deny`; there are no interstitials to dismiss; and
the one output is what the success checkpoint asks for, so there is no
`OutputsMissing`. `FakeReplay` has the first and `Replay` all of them.

**Discovery** is `run_discovery` on that page. `Decisions` is what the model may
answer, at any time and whatever it was shown; the action is built from the
observation it *was* shown (`seen`) and carried out on the page that is there.

| Action | Code |
|---|---|
| `DecideDone`, `DecideOutcome` | 242-272: the two answers that end the loop |
| `Do` | 274-282: the ladder, the action, its turn |
| `Look` | 283-306: the next observation, the dead end, the goal |
| `OutOfTurns`, `Timeout` | 235-237 and 307-308: the two bounds |
| `DiscoveryRaises` | an exception of the model's client or the driver |

`turns` holds the turns that acted; a `done` or an `outcome` ends the loop at
once and compiles nothing of itself, so it is not kept. `CompileArtifact` is
`_compile_artifact`, `BuildLadder` and `BestLabelMatch` the guesses of a ladder.
What these do to strings is given by small functions over the strings that
occur: `Words` (the words of a description), `Strip` (a typed text without
blanks), `Title` (the label rebuilt from a field's key).
`Compiled` and `Logged` say what can be told of a draft and of a step log by
looking at them: each step has the rungs the loop guesses and a checkpoint of the
kind it derives, and a click looks for nothing that is on a member page
(`CompiledStep`); the steps fit together (`InOrder`: nothing is
typed or clicked after the click that led to a member, and what was read was
there); each rung in the log is one that the control has on some page of the
server.

**RoundTrip** puts the scripts one after the other: `Discovering` (one of the two
discovery scripts), `WriteEvidence`, `Merge` or `RefuseMerge`, `StartReplay`,
`Replaying`. `stage` is the script that runs. `files` are the step log and the
draft of each discovery script; what earlier runs may have left in them
(`Earlier`) is chosen in `Init`, because the draft is written only when there is
one and the log always. It is of this loop (`OfThisLoop`): a draft is `Compiled`
for the member of its script, the turns of a log are `Logged`; the two need not be
of the same run. No script reads them after the merge, and the model
forgets them there, as it forgets the turns once they are saved (`stop` is
"saved" from then on). `Masks` is what `redact` makes of the controls' names, `RedactedLadder` of a
ladder.
`review` is history, read by properties only: whether the drafts were such as a
person approves (`Sound`: the typed text is the input, the search was submitted
and led to the member, the balance is an output, the other run's outcome is
recognised by the not-found page), whether the step log beside the draft is of
the run that made it (`SameRun`), and the rungs in it.

**RunContract** is the abstract specification of a run: steps left, a status,
handoffs. It has no recipe, page, counters or log. `Replay!Contract` maps
`left` to `Goal - i` and `handoffs` to the length of `raised`. There are two contracts
in it. `PromisedSpec` is the one that `models.py` states: every run returns exactly
one of three results, or a `Paused`. The engine does not keep it
(`EveryRunReturns`, run `replay_raise`): an exception of a driver call leaves
`replay()` with none of the four. `Spec` adds this as a fifth ending, `Raise`; that
one the engine keeps (`ContractSpec`: TLC checks `FairSpec`, fairness included). The
theorem `KeepsPromise` says that `Raise` is the whole difference.

**Service** is `main.py` on the store. Each client has at most one request
outstanding, `pc` says where its handler is, and the actions of different
clients interleave between any two accesses to the shared dict, artifacts and
token. Artifacts are shared by reference, and discover's and the token's
answers are put together from the shared object after the handler returned;
both are in the model. A replay is one step there, ending in one of the ways
`RunContract` allows a hooked run that is not resumable. `holders` is history:
who was given the token since the last release. The GET handlers change
nothing and are left out; names other than the one `fake_discovery` uses are
never in the catalog, and their requests are 404 like those to an empty one.

Definitions whose names contain `_Bug` are variants with a bug that a change
could bring in. No specification uses them; `PROJECT.json` says which property
fails with each.

## 3. The runs

| Run | Bounds | States | What it shows |
|---|---|---|---|
| `replay_engine` | 2 recipes, 5 observations, 2 allowlists, 2 retries, 1 dismissal, 2 resumes | 358,300 | the engine's promises against an arbitrary page; refinement of `RunContract`; termination |
| `replay_fake` | the repository's recipe (click redone or not), 4 inputs, slow for 0 to 7 waits, 2 resumes | 21,164 | each result is the right one for the bank |
| `replay_live` | the approved recipe (click redone or not), 3 members, all flags, text box and button lost or not, 2 resumes | 8,280 | results, slow loads and handoff on a real page |
| `service` | 3 clients, 2 artifacts | 1,498,188 | catalog and token under every interleaving |
| `round_trip` | 11 decisions, 4 turns, fast and slow page; drafts of earlier runs there or not; replays for 3 members, all flags, the search button renamed or the text box lost or neither | 1,249,106 | what a discovery concludes, what a merged recipe answers, that discovery ends |

*Why these are enough.* The engine never looks at more than the present step,
the step before a resume and its own counters. Three steps are a first, a
middle and a last one; one with nothing to check, one with a screen and one
with a field. Two retries and one dismissal have a last iteration and, for the
waits, one before it. A second resume is the first that resumes a resumed
call. With the real bounds (3 and 3) the fake and live runs are complete, and
7 slow turns are more than two calls can wait (6). A recipe needs three turns
(type, click, read), and the fourth is a second try at any of them, a wait, or
one too many. The decisions have, for each turn, what the recorded model
answered and what else a ladder or a binding depends on: a text that is the
input, one that is it but for a blank (the bank is asked for "12345 ", whom it
does not know), and one that is not; a control by another name, and by its own;
a read of each field, of an account number that redaction masks, and of the
balance itself as a text; a wait; `done` and `outcome` anywhere. In the service two
artifacts are an old and a new one, and three clients let a discover and an
approve overlap with a third request.

`CHECK_DEADLOCK FALSE` is set for the replay runs: a run that has returned and
is not resumed stops. The service never stops, and its deadlock check is on.

Seven runs stop at a violation of something a comment, a doc or a test says, two of
the engine, three of the live page, one each of the service and of discovery;
`findings` in `PROJECT.json` quotes the lines:

* `replay_raise`: a run may return none of the three results and no `Paused`, but an
  exception, with no handoff raised and nothing to resume.
* `live_slow_raise`: that happens in a slow load within the bound, which a test says
  must succeed: the page comes between `count()` and `input_value()`.
* `replay_trusted_step`: a denied step is trusted, on resume, to have run.
* `live_unknown_member`: an unknown member on a slow page is a failure.
* `live_lost_control`: a lost text box becomes `member_not_found`.
* `service_one_holder`: two clients are given the token. TLC's trace has two
  takes between check and set. In CPython builds that switch threads only at
  calls and backward jumps that race is narrow, but a request raised while the
  token is held, followed by a second take, gives two holders with no overlap.
* `round_trip_no_output`: `done`, said where the balance shows, is a success
  whose draft declares no output.

Three more sentences of the repository are not kept; the models have what the code
does instead, and no run checks the sentence:

* `replay.py:39-40` bounds the dismissals "for the whole run, not per step". The
  counter is local to `_dismiss_known_interstitials`, so the bound is per step
  (`Perceive` and `TrustPaused` of `Replay` set it back), which is what `RecoveryLog` says.
* `main.py:119-121` says that a handoff request carries its context. `RaiseState` and
  `RaiseContext` are two writes, and a take between them hands the token over without
  one. `HandoffHasContext` exempts that window. With the interpreter lock of usual
  builds no thread is switched there.
* `tests/test_smoke.py:26` says that discover always returns a draft. Its answer is put
  together from the object that the catalog has by then (`AnswerDiscover`), and an
  approve in between makes it say approved.

What the properties of `RoundTrip` do not claim, because the code does not do
it, and no text in the repository says it does:

* An `outcome` declared while the search page still shows makes a recipe that
  answers every caller with it, and a click recorded on a slow page asserts the
  search page. `ReviewedRecipeServes` asks for the review that notices both.
* Any read concludes the goal once the balance shows, so a recipe may return the
  name. `NothingFrozen` says it is the right member's.
* A read of "Member ID" is a dead end in a discovery: the label is rebuilt from
  the key as "Member Id", which is on no page.
* The replay script pairs steps and rung log by position, and a wait has no rung;
  after one, each step is printed with the rung of the next. `SameRungs` is about
  recipes without a wait.
* After a discovery that came to nothing, the step log is that run's and the draft
  an earlier one's. `SameRungs` is about a log that is of the draft's run.

*Fairness.* `Replay!FairSpec` assumes that the engine takes steps: it is one
thread without locks, and each driver call returns or raises (Playwright
bounds each, the fake bank is immediate). Nobody is assumed to resume a paused
run. `FakeSpec` and `LiveSpec` also assume that the human's fix and the resume
happen, because the script does both, one after the other, with a timeout on
the human process. Nothing makes an early `NavCommit` happen.
`DiscoverySpec` and `TripSpec` assume that the loop of a discovery takes steps:
driver calls are bounded as above; the call of the model's client has no limit
in the code, and that it returns or raises is an assumption. The scripts after
a discovery are run by a person, or not. `Service!Spec` has no fairness, since no
liveness is claimed of it.

## 4. What is proved

`Replay_proofs`, `Replay_log` and `Replay_refinement` prove, for any set of recipes, observations and allowlists,
any bounds of the loops and of the resumes (the named assumptions of `Replay`:
recipes are artifacts in the sense of `models.py`, observations have a screen
and fields, bounds are natural numbers):

* `TypeCorrect`: `TypeOK`. It bounds both counters, which is not inductive:
  after a driver call the counter is incremented without a test. `TypeInv`
  adds that it is below its maximum between the call and the increment, and
  that a paused result names a step.
* `PhaseInvariant`: position and result agree. A call is done exactly when it
  has a result; a result names the step the engine is at; the log of a
  `ResumeState` is the engine's; `start <= i`, and `start` is 0 exactly for a
  call that is not resumed. The remaining theorems use it at returns and at
  `Resume`.
* `UnsafeStepsIssuedOnce` (`AtMostOnceUnsafe`) and `StepsAreIssued`
  (`NoStepSkipped`) come from one invariant, `Issued`. Neither is inductive:
  both speak of steps left behind, so what is known of the *present* step in
  each phase has to be added. Later steps have not been issued; at the head of
  a step that is not a resumed one nothing was issued; once the engine looks
  at the step's effect it was; a paused step was, unless the gate denied it.
  The at-most-once claim then follows because the only action that issues is
  not enabled for a trusted step.
* `HandoffsAccounted` (`HandoffAccounting`): the invariant adds that no handoff
  names a step that the engine has not reached, which keeps them in order.

* `LogIsInOrder` (`RecoveryLog`, in `Replay_log`): entries in step order, one
  slow load per step, counts within their bounds. An append keeps the order only
  because no entry is of a step yet to come, which `Log` adds; a slow load is
  logged once because the engine leaves the step (or ends the call) with it.
* `NeverGoesBack` (`NoRegress`): each step, a resume included, keeps the counts
  of the steps behind it and the entries of the log. A resume needs `Phase`:
  the engine restarts from the position and log of a `ResumeState`, and these
  are its own.
* `KeepsContract` (in `Replay_refinement`): `Spec => Contract!Spec`, every run of
  the engine is a run of `RunContract` under its refinement mapping, an exception
  being one of the endings there. `KeepsPromise`: as long as no driver call raises
  it keeps the contract of `models.py`, which has no such ending. The
  contract's business answer comes only while a step is left; `InStep` says that
  overlays and outcomes are looked for in a step, not in the success phase.

**The fake bank** (`FakeReplay_proofs`), for any table of members, any inputs, any
slowness of a page, any bounds of the loops and of the resumes, and any
allowlists. The recipe is the one `fake_discovery` emits, with a click that is
redone or not (`FakeRecipesAssumption`); a caller types strings
(`FakeInputsAssumption`); `FakePagesAssumption` lets the free driver of `Replay`
show what the bank does.

* `FakeKeepsEngine`: `FakeSpec => Spec`. Each step of the composition is one of
  the engine, so `Replay`'s invariants (`TypeInv`, `Phase`) hold of it and are used
  below. `BankInv` is what this needs of the bank: it only shows members that it
  has, and between a `perceive()` and the next call what the engine has seen is
  what the bank still shows.
* `FakeTypes` (`BankTypeOK`) follows, and `HiddenStops` (`HiddenBalanceStops`),
  for which `BankInv` adds that past the click the member's page has come.
* `BankVerdict` (`Verdict`) is far from inductive: it speaks of results, and a
  result depends on all the calls before it. `VerdictInv` says where each phase
  of each step must stand. Before the click the bank is at the search with
  the asked-for id in its box. At the click's checkpoint the page's remaining
  slowness, the waits of this call and those of the calls before add up to
  `slow_turns`; the earlier calls count only if the click is not redone, since
  redoing it starts the load again, and that is exactly how `TooSlow` is
  defined. Past it the member is known and the page was not too slow.
* `WaitingVisible` (`RecoveryVisible`) adds what the log holds at each step of a
  run without a pause; that such a run has passed the gate at every step
  (`PassedGate`) puts `VerdictInv` at its disposal.

**The live page** (`LiveReplay_proofs`), for any table of members that has no
member without an id, any pauses, human navigations and resumes, and any
recipes that type the member id or nothing and output the balance
(`LookupAssumption`).

* `LiveRightBalance` is `RightBalance`, for any lost controls and any
  `SlowAttempts`. The property speaks of a result, and the result of an
  observation made earlier, on a page that may have gone since. `LiveInv`
  (`LiveReadsOwn`) therefore follows the member through all of them: what stands
  in the text box, whose page is shown and whose is in flight are the asked-for
  member's or nobody's; so is every field read; a success was made of the
  observation the engine still has. A resume keeps it because it forgets the
  observation, a human's navigation because it goes to the same member.
* `LiveKeepsEngine`: `LiveSpec => Spec`, with the asynchronous page, the human and
  a torn read as the driver's doing. `LiveTypes` (`PageTypeOK`) rests on it.
* `ResumeStaysOnPage` (`ResumeDoesNotSearchAgain`), from `FixedPage`: once the human
  has navigated, the page is the member's, plain, and nothing is in flight.
  Redoing the search there finds no box and no button, so it does nothing.
* `NotFoundProved` (`NotFoundIsTrue`), from `Searches`: if all controls are there and
  the bank has the member, the box holds the id from the first step on, so
  what the click submits, and any page that comes of it, is that member's.
  `LiveInv` is not enough: "that member's or nobody's" admits the empty search
  whose answer is the not-found page, which a lost text box does bring about
  (`live_lost_control`).
* `SlowLoadProved` (`SlowLoadRecovers`), from `ArriveInv`: a run that is over is a
  success, but for one whose `perceive()` raised in the click's step of a slow page.
  `InTime`: at the click's step, while the search page still shows, the attempts
  that the navigation has left and the waits the engine has made are together
  fewer than `SlowAttempts`, because the click took one; and only a slow page is
  still in flight then. `Patient` bounds the waits accordingly, `Seen` says that
  what the engine sees of the member's page is its balance, `Noted` that it does
  not get stuck and that the log holds that wait at most, `RightEnd` how a run has
  ended. TLC checked the invariant on the small instance before it was proved.
* `TornReadsProved` (`TornReadsAreWhole`): of the two pages only the second may be a
  member page (`TornIsWhole`), since a navigation is in flight over the search page
  only (`Leaving`), which rests on the same fact as `ResumeStaysOnPage`.

The last four need more of a recipe than the first. `SearchAssumption`: it types
into a text box, clicks a button and reads, with the checkpoints that the
recorded and approved recipe of this repository has. `ControlsAssumption`:
nothing it types into or clicks is on a member page, which the server builds of
rows of text only. `LivePagesAssumption` is the free driver again.
`SlowBankAssumption` is `SlowAttempts <= MAX_SLOW_RETRIES + 1`, one attempt by the
click and one by each wait: the code has 3 s against 1.2 s, so 3, and three
retries. With one attempt more the theorem is false.

**Discovery** (`Discovery_proofs`). `DiscoveryDrafts` is `DraftWasCarriedOut` for any
decisions, pages and bound of turns. At the head of the loop every turn was
carried out; while the page is looked at all but the last were, and that one is
tested before anything is concluded. `DraftInv` also says what a draft types:
the member id or nothing. `DiscoveryTypes` is `DiscoveryTypeOK`: turns and ladders
are of their types, the turns within `MAX_STEPS` also after one more has been
carried out (`LoopTypes` says that a page is only looked at after a turn), and
what is compiled of them is a recipe. `StringsAssumption` is that the strings the
loop makes of a description are strings.

`DiscoveryEvidence` is `EvidenceFits`: a draft is `Compiled` for the run's member,
and its log `Logged`. No run checks it, since it is what `Earlier` assumes of
earlier runs; the theorem is why that assumption is justified. A turn is made from
the page the model was shown and carried out on the page that is there, so
`TurnsInv` says of each turn what its ladder is and what it found (`TurnShape`), and
how it fits to those before it (`TurnFits`). `PageFits` ties the turns to the page:
without a click it is the search page; after a click that led to a member it is a
member's; and if the run typed nothing but its input, every id on the page that
the bank has is that input. `StripAssumption` (no member id has blanks around it) is
for the last of these: a typed text counts as the input if it equals it *but for
blanks*, while the server looks up what was typed, blanks included, and must then
find nobody.

**The round trip** (`RoundTrip_proofs`). `TripNothingFrozen` is `NothingFrozen` for any
discovery, any drafts of earlier runs (`EarlierAssumption`: ones this loop
compiled, for the goal both scripts name), any masks and any replay. `TripInv`
joins the two invariants above: drafts, files and the approved recipe type the
member id or nothing, through the merge and its redaction; a replay that has
not started is idle; one that has satisfies `LiveInv`. `TripDrafts` and `TripTypes`
carry discovery's own theorems over to the scripts.

`TripGoalReached` is `GoalReached`. The loop judges a `done` by an observation made
before the model was asked, and the page may have moved while the model
thought. `SeenInv` says why that does no harm: an observation with a field in
it is of a member page; a page in flight is only there while the search page
still shows; and no decision leads away from the member page, since its ladder
finds no box, button or link there (`DecisionControlsAssumption`, about the
server's page as `ControlsAssumption` is). So what was seen is still there.

`TripServes` is `ReviewedRecipeServes`, for any decisions of the model in the two
discoveries, any members, files of earlier runs, masks, lengths of a slow load up
to `MAX_SLOW_RETRIES + 1` attempts, and with or without the button's name on the
page. Four invariants carry what is known from one script to the next:

1. `FilesInv` (theorem `TripFiles`): what the files hold is of this loop, whichever
   run left it. Log and draft are spoken of separately, because a run without a
   draft replaces the one and not the other.
2. `ReviewInv`: if the review was sound, the approved recipe is `Reviewed`. The lemma
   `SoundSearches` is the heart of it: of a compiled draft whose typed texts are
   the input and whose clicks led to a member, `InOrder` leaves only recipes that
   fill the text box, click *once*, and read afterwards on the member's page
   (`Searching`). `RedactedSearches` takes that through redaction.
3. `Fresh`: the replay is a new call of an approved recipe, with the flags of its
   page in every navigation.
4. `ServeInv`, for a replay under the review's conditions (`Serving`): up to the
   search the page is the search page, with the caller's id in the box once it was
   typed, and past it the page of a member the bank has (`Reaches`); only the
   search waits, and its waits and what the slow page still takes are together
   less than `SlowAttempts` (`Waits`); what the engine decides on is the page
   that is there, or the search page that was there until the slow one came
   (`Watches`). There is one lemma for each action of the engine (`ServeActs`,
   `ServeWaits`, `ServeLooks`, `ServeAnswers`, ...), and a run that has ended has ended as
   it may (`Served`).

`TripRungs` is `SameRungs`. `Compares`, part of `ReviewInv`, says that each rung of the
log is the one at which the recipe's ladder stops on the page its step acts on; a
log of the draft's own run has it (`MergedCompares`), because ladders are steady.
`RungsInv` says that in a replay for the recorded member, with no control lost, the
driver has logged these rungs for the steps worked off so far. Each act keeps it:
by `ServeInv` the page is the one that `Compares` speaks of (`RungTried`), and a
ladder stops at one rung only (`OneRung`).

`TripTornReads` is `TornReadsAreWhole` in the scripts. During a discovery `SeenInv`
has it; a replay starts the recipe's own navigations, and for a recipe that was not
reviewed `TornInv` shows that no step of it clicks on anything of a member page,
through compilation, merge and redaction (`MergedOffPage`).

These proofs add two assumptions on the strings. `SteadyAssumption`: no description
is both the text of a cell on one page and, by the words it shares, the label of a
row on another. The driver matches names exactly, so this is about a model that
calls a control by a text that only some pages show; no description recorded in
`evidence/` does. `MasksAssumption`: nothing that a page of this server shows is
masked, or is what a masked text becomes. `SafetyGate` masks runs of 8 to 17 digits, and
ids, names, balances and labels here have none.

**The service** (`Service_proofs`), for any number of clients and artifacts:
`ServiceTypes` (`ServiceTypeOK`), `OnlyApprovedRun` (`DraftNeverRuns`),
`ApprovalsStay` (`ApprovalStays`) and `HandoffKeepsContext` (`HandoffHasContext`).
An artifact never goes back from approved to draft, which makes the first two
inductive; for an approve that answers, `MarkedInv` adds that its artifact is
marked. `HandoffHasContext` is not inductive: a take checks first and sets the
state later, when the token may have been released, so `ContextInv` also asks
for a request between its two writes while a take is on its way.

Only checked by TLC:

* liveness (`Terminates`, `PausedRunCompletes`, `HandedOverRunCompletes`,
  `DiscoveryEnds`) and the fairness part of the refinement (`ContractSpec`), which
  are out of TLAPS's reach.

Every invariant and every action property of the runs that pass is a theorem, each
run's with the specification of that run.

What `BuildLadder`, `CompileArtifact` and `FirstMatch` compute is used in the proofs
by its definition. None of them is recursive.

## 5. Not modelled

* `SafetyGate.redact` on handoff contexts and step logs: it changes text that
  nothing reads back. What it does to a recipe is in `RoundTrip`.
* `env.py`, the demo script, what is printed, screenshots, the accessibility
  tree, run ids, HTTP validation: they do not take part in what happens.
* Coordinate targets: no recipe has one.
* The prompt and the model: its answer is free.
* A handoff of a recipe that came out of a discovery: `RoundTrip` replays as
  `run_replay.py` does, not resumable; pause and resume are in `LiveReplay`.

## 6. Plan

1. Done: `Recipe`, `Replay`, `RunContract`, `FakeReplay`, `BankPage`, `LiveReplay`,
   `Discovery`, `RoundTrip`, `Service`, and the proofs of section 4.
2. `Redaction`: masking by key and by content as functions on nested data,
   against a reference definition.
