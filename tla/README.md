# A TLA+ model of AzurLaneAutoScript-Headless

The repository lets ALAS, a script that plays Azur Lane, work without looking at
pixels. The game runs in Android with a null renderer; a small observer inside
the game's process publishes typed snapshots of its UI; a Python controller
reads them over a forwarded socket, decides what is on the screen, and admits
single, budgeted inputs through ADB. Around it there is a lifecycle that starts,
qualifies and stops such a runtime, and a bounded trace of what happened.

What can go wrong here is rarely one function. It is the order of things: a
screen that was read before a tap took effect, a tap that is reported as failed
and arrived, a cleanup after a phase that failed half-way, two threads that
close one log. This directory models those parts, checks them on small
instances with TLC, and proves the most important properties for every instance
with TLAPS.

- [Parts of the system](#parts-of-the-system)
- [Modules](#modules)
- [The models and the code](#the-models-and-the-code)
- [Runs](#runs)
- [Where the code and its documents differ](#where-the-code-and-its-documents-differ)
- [Proofs](#proofs)
- [What is not modelled](#what-is-not-modelled)
- [Plan](#plan)

## Parts of the system

Paths are relative to the repository; `py/` is `python/alas_headless/`,
`null/` is `overlays/angle-g3/src/libANGLE/renderer/null/`.

| Part | State it keeps | Operations | What is hard |
|---|---|---|---|
| Runtime trace (`py/runtime_trace.py`) | sequence number, closed flag, three counters, writer error, bounded queue, file | `emit`, `close`, `summary`, the writer thread | emitters, writer and closers run concurrently, and only part of it is under the lock; full queue, dying or hanging writer, timeouts |
| In-process observer (`null/Il2CppNamespaceProbe.cpp`, `null/ObserverServer.cpp`) | registered main thread, generation, three published snapshots; one connection | frame tick, probe, publish; `/v1/state`, `/v1/snapshot`, `/v1/buttons`, `/v1/ui` | frame threads race to register; publications come between two reads of the globals; the process may die |
| Observer transport and oracle reads (`py/semantic_oracle.py`) | forward, expected PID, last generation | `open`, `close`, `request`, `read_state`, `read_ui_state` | two requests for one view; a forward to a process that is gone; late answers |
| Page, dialog and target classification (`py/semantic_oracle.py`) | none | about 200 predicates over one snapshot, and the `click_*` calls that use them | large, but sequential and pure |
| Campaign flow (`py/alas_adapter.py`, `integration/alas/0001-semantic-oracle-hooks.patch`) | one context: budgets, receipts, panels, proofs | begin, enter stage, prepare fleets, sortie or cancel, confirmations, end | every input is checked against an old screen, and is booked after it was made; it may be lost, late, or delivered and reported as failed |
| Combat, viewport and camera inputs (`py/alas_adapter.py`, `py/alas_combat_action.py`, `..._admission.py`, `py/alas_camera_positioning.py`, `..._camera_view.py`, `py/alas_viewport_continuation.py`, `scripts/python/qualify_alas_campaign_viewport.py`) | in the campaign context: three one-shot leases, two admissions, the armed swipe | admit an enemy or an empty cell, arm and drop a swipe intent, swipe, update the camera, complete, recheck, tap the grid, confirm the battle | swipes are booked before they are made and the tap after it was made; a camera that goes on moving after a swipe was proven; battles that are left and met again |
| Commission flow (`py/alas_adapter.py`, the same patch) | one context: two budgets, selected row, receipts, two proofs | begin, collect a finished commission, close its popups, select a row, recommend ships, start, confirmations, end | commissions finish on their own; rows that look alike; a cached popup that is clicked twice |
| Other flows of the adapter: login, mission, mail, tactical, research, dorm, build | one context each, with budgets and receipts | `begin_*`, `end_*`, `click`, `appear`, and the helpers that make an input and wait for its effect | the game changes between the decision and the tap; receipts that are returned again for some seconds, and inputs that are repeated after them; targets found again by place and not by name |
| Semantic session and package gate (`py/alas_adapter.py`, `py/alas_package_process_lease.py`, `py/runtime.py`) | bridge, adapter, pinned package and process, context variable | open, close, accept lease | the process changes under the session; errors while cleaning up |
| Runtime qualification and backends (`py/runtime_qualification.py`, `py/runtime_backend*.py`) | phases, failure, cleanup failure; kept settings, bridges | `qualify`, each backend phase, restart, reboot, `stop` | any command may fail with its effect; the device, the game and the emulator die on their own; PIDs are reused |
| Runtime command (`py/runtime_command.py`) | processes it started | run, start, stop_owned | timeouts, escalation from wait to kill, stopping only what it owns |
| Update admission (`py/runtime_artifacts.py`) | the admitted lock on disk | stage, verify, admit | order of the steps, what a failure leaves |
| Evidence index (`py/runtime_evidence.py`) | none | a fold over manifests | - |
| Controlled combat episode (`py/alas_combat_controlled_episode.py`, `scripts/python/capture_alas_combat_*.py`, `commit_alas_combat_resource_action.py`) | none but the files the tools leave | record, acquire, close a page, take a checkpoint, analyse | five processes and an operator that share the game and a directory; any of them may be killed at any step, and any set of files may be handed to the analysis |
| Combat observer, traces and replay (`py/alas_combat_observer.py`, `..._trace.py`, `..._state_replay.py`, `..._branch_replay.py`) | the last accepted observation; a replay state | observe, append, replay | orders of observations and inputs that a recorded trace may have |
| Combat reviews and evidence (`py/alas_combat_mapping_review.py`, `..._rare_evidence.py`, `..._result_evidence.py`, `..._surface_multiplex.py`) | none | validation of documents | - |
| Map sync and previews (`py/alas_map_sync.py`, `py/alas_decision_preview.py`, `py/alas_goto_input_preview.py`) | state of ALAS that is swapped for a while: the class-level map, the config, the projection, the sleep function | project a reading, let ALAS choose, run its `_goto()` up to the click | an exception anywhere between the swap and its undoing |
| Scripts, ANGLE patches, provisioning, Unity and GLES probes | - | build, start, measure | outside the controller |

How they interact: the scripts call `qualify` or open a session. `qualify` calls
one backend, which runs ADB through the runtime command and opens bridges of the
oracle's transport. The session owns a bridge, an oracle and an adapter. The
patched ALAS calls only the adapter; the adapter calls the oracle, and the
oracle reads the observer through the bridge and taps through it. The bridge
and the qualification write to the trace. The observer knows nobody: it answers
whoever connects.

What makes each part correct, in a sentence: the *trace* never blocks its caller
and hides no loss but the one of `trace_lost` below; a *view* that the oracle accepts is something the game
showed during the read; the *campaign flow* never makes more inputs than were
granted, goes into battle only with the fleet it proved, and its proofs are
true; a *commission flow* makes the inputs it was granted, each on the control it was
meant for; the *combat inputs* stay within their leases, one kind of swipe to an
invocation, and what is called a proven battle is one that was won, and won on
the admitted cell where the fleet had ammunition for another; a *task flow*
spends what it was granted on what it decided; a
*preview* leaves ALAS as it found it; an *episode* that the analysis accepts is
one battle, whatever files were mixed; a *qualification* leaves the device as it
found it or says that it did not, and calls recovered only what is new.

## Modules

| Module | Lines up with | State machine |
|---|---|---|
| `RuntimeTrace` | runtime trace | yes |
| `AtomicView` | what a reader is promised | abstract specification |
| `Observer` | observer, transport, reads; implements `AtomicView` | yes |
| `CampaignFlow` | the campaign flow up to the battle | yes |
| `CombatInput` | the camera swipes and the grid tap of the campaign flow, the viewport qualification script | yes |
| `CommissionFlow` | the commission flow | yes |
| `TaskBase` | what the other flows have in common: the call, the tap, the context | actions only |
| `ResearchTask`, `DormTask`, `BuildTask`, `TacticalTask`, `MissionTask` | the pages and the calls of one task each | actions only |
| `TaskFlows` | the five tasks under one next-state relation | yes |
| `MapPreview` | map sync, decision preview, goto prefix | actions only |
| `ControlledEpisode` | the acquisition (over `MapPreview`), its recorder, the commit script, the checkpoint, the analysis | yes |
| `RuntimeQualification` | qualification over both backends, and the device | yes |
| `MC...` | model values and bounds for TLC | |
| `...Proofs` | theorems of the module named | |

The modules meet where the parts do. `Observer` establishes what `CampaignFlow`
and `CommissionFlow` take as given: a look at the screen is one publication, with a generation that
grows (the other flows need only the first half of that). `CombatInput` begins
where `CampaignFlow` ends, on the campaign map with a fresh context. The
acquisition of `ControlledEpisode` makes its grid tap through the steps of
`MapPreview`, and the tap itself is the one input that `CombatInput` grants.
`RuntimeQualification` uses the bridge of `Observer` as "a forward and a
PID". `RuntimeTrace` is below all of them and none depends on what it does, as
`emit` returns in every case.

## The models and the code

### RuntimeTrace

A record is its sequence number. The queue is kept as all items ever put
(`puts`) and the number taken (`gets`), so that "the file is what was put" can
be said. The steps are cut at the lock and at nothing else: taking a number is
one step; the put, the count of a drop, the load and the store of
`self._invalid += 1`, the writer's get, its write with flush, and its counter
are steps of their own. `WriterFail` may happen in `open`, `write` and `flush`;
a failed flush may have left its line. `close` is three waits, each of which
ends with its event or with its timeout. Only the enabled recorder is modelled;
`span` and the other conveniences reach the state through `emit`.

`refused` is a history variable, the number the unlocked counter is an attempt
at: two threads that load `self._invalid` before either stores it count as one,
and a late store takes the counter back. `LossIsTold` says what a summary is
worth in spite of that, at the moment any `close` reads it: the refusals it tells
are no more than there were, and none only if there was none; and without a drop,
a refusal and a writer error every number that was given out is in the file, or
still on its way to it. For the first closer, whose writer has stopped, "on
its way" is behind the sentinel or about to be put there, which is what
`trace_lost` is about.

Bounds: `MaxSequence` (records that get a number), `MaxInvalid` (counted refusals
after which no further call is refused; with two of them a third may be under way,
and its store take the counter back). With
`MaxQueue` 1 or 2 and three records from two threads the queue is full, empty,
and full behind a sentinel.

### AtomicView and Observer

`Observer` has three actors. In the game, any thread that swaps frames may
register and tick; the registered one takes a generation, probes, and publishes
the three globals under their lock, or is refused on the way. The server
answers one connection at a time and takes that lock once per global, which is
where a publication may come in between; `/v1/state` tries three times. The
client asks one endpoint, or falls back to two when the build does not serve
the combined one, and accepts or refuses. The game may be restarted in any
state; the client's forward then leads nowhere until the session is opened anew.

A publication is named by process and generation and carries the fault it would
be refused for. The combined endpoint compares generations only, as the code
does. `AtomicView` is the promise: what is accepted was current at some moment
of the read, as a whole. `AtomicViewSpec` is the refinement, with the current
publication and "a read is under way" substituted; `window`, the set of
publications current during the read, and `view` are the abstract variables
themselves, kept as history. The legacy pair cannot keep this promise and does
not claim to; for it `HalvesAgree` is checked.

Not in this module: reuse of a PID by the next process, an age limit that
refuses an old snapshot (refusals are free), and the text endpoints.

### CampaignFlow

One `_CampaignFlowContext` and the calls on it. Every call with input has three
moments, between which the game moves: the adapter's own checks (`Ask...`), the
oracle's fresh read of its target (`Aim`), and the tap. The tap returns and is
booked (`TapReturns`), or reaches the game and raises (`TapRaisesLate`); a tap
that neither reaches the game nor returns is `CallRaises`. The game handles taps
later (`Handle`) and the observer publishes later still (`Publish`).

The caller is ALAS, which is not in the repository except for the patch. So the
caller is free: while nothing has raised, any call in any order, which includes
what ALAS does. After an exception the patch's `finally` clauses fix the rest:
close the dropdown, cancel, end. The game is external too, and minimal: which
layer is shown, which dropdown is open, which fleets are selected; a tap on a
control that is not on top does nothing. A publication that shows nothing new
is left out except where the context remembers the current generation, because
only there a greater number makes a difference. The settings a sortie is
qualified for (`authorize_campaign_sortie` reviews them one by one) are one
constant, `Qualified`.

One thing about ALAS's own order is in the patch and so in the model: fleets are
chosen between a stage entry and the sortie that follows it, inside the patched
methods (`Entering`). Without that a panel could be confirmed before its stage
was entered, on a picture from an earlier invocation.

`Preflight` is the simulation that `authorize_campaign_fleet_preparation` makes
of ALAS's own clears and choices.

Bounds: `MaxGeneration` (publications), `MaxInvocations`, `MaxPending` (taps the
game has not handled).

### CombatInput

The campaign context again, with the fields these inputs read and write. `Maps`
is the logical map, `Views` the places of the camera: two views differ in the
point of every cell, and `Exposed` says in which of them a cell has nothing
above it. Of the generations only this is left: a call waits for a publication
that came after its first read (`call.later`).

The budgets are told apart by when they are booked. `AskSwipe` takes the unit,
then the oracle looks for its target (`AimSwipe`), then the swipe is injected,
and only then is its effect proven (`EndSwipe`): the same logical map, every cell
moved, and the target exposed. The tap is the other way round (`TapReturns`
books, `TapRaisesLate` does not). A swipe moves the camera once, or once more
after it was seen to have moved (`more`). A tap that meets a camera that has
moved may hit any cell.

The caller is ALAS, free to make any call in any order, and free to go on as if
an exception had not happened (`past.ignored`); or it is the script
`qualify_alas_campaign_viewport.py`, which lets every exception through. The
script replaces the goto preview of a first flow by a flow that positions the
camera and one that decides again and runs the original `_goto()` up to its grid
click. `Steps` is what its proxies let through at each stage, `script.log` what
they count. A session with both a positioning and a combat budget never swipes
for both in one invocation, which is why the script needs several.

`ProofIsOfBattle` takes no counter of the code at its word: a battle may be left
with the enemy still there and met again, and the fleet may have been sent
elsewhere by hand. What a combat proof looks at is a count that ALAS keeps from
what it sees (`Counted`, a step of the publication), the enemy that is gone, the
fleet on its cell, and one unit of ammunition less. The last is what keeps a
second battle out, and it cannot where the admitted fleet had one unit left: a
fleet that has none may fight on with none. So the property names the cell only
for a fleet with more than one.

Bounds: `MaxInvocations`, `MaxPending`.

### CommissionFlow

Built like `CampaignFlow`: a free caller until something raises, adapter checks
(`Ask...`), a fresh look and the tap (`TapReturns`, `TapRaisesLate`), a game
that handles taps later. Two calls wait after their tap (`Waited`). After an
exception the patch only ends the flow, so there is no rollback.

The game has one page on top, and a status for each row. Running commissions
finish at any moment (`Finish`). A finish input collects all that have finished
and shows two popups. A row's `face` is what its detail page shows of it, name,
level and duration; rows may share one, and so a detail page may belong to another
row than the selected one. `ships` is "at least three ships are assigned",
`ZeroOil` the rows the code accepts. The receipts are reduced to what is asked
of them: the popups closed, a claim made, a start made. The list is one page
without scrolling, and generations are left out: `wait_for` asks for a later
one, the model's wait for any, which allows more.

Bounds: `MaxInvocations`, `MaxPending`.

### TaskBase, the five tasks, and TaskFlows

A call with input has two moments here: what the adapter reads and checks
(`Ask...`), and the oracle's own read of its target just before the tap
(`...Visible`). What the second read does not ask again is exactly what may have
changed: a research card is found again by its place, a food by its card and not
by its count, a seat by its number. `Booked` takes the unit after the tap, or
finds it taken (`MISSION_MULTI` takes its unit before). `...Time` is what the
game does alone: projects finish and change places, ships eat, a course ends, an
order is built, a mission is done.

ALAS runs one task at a time, so the game is the part of it that one task sees,
and the task is chosen at the start. The windows of 12, 20 and 45 seconds within
which an input returns the receipt of the one before are not timed: after a
window the input may be made again, so it may be made at any time. The loop of
`dorm_feed_food` is that many single portions. A project that finished is
collected and another with the same code takes its place. The helpers that make
two inputs go on by `NextInput`. `BUILD_PLUS` and `BUILD_MINUS` are not used by
the patch for one order, and left out, and with them the count and the cubes
that a submit checks: a submit may be refused for any reason (`CallRaises`).
`Appetite` is the largest `max_consumption` of a wait for a fed portion.
The mission state is stable after two reads that agree; the code wants a later
generation for the second, which the observer gives a page that did not change
every few frames, and so the model lets any two reads do. Where the model differs
from the code in these points it allows more, and no property rests on that. The
same holds of `Faces` in `CommissionFlow`: a face stands for the name, level and
duration compared on the detail, and for the name, level and type compared when
it starts.

The properties speak of what happens when the game handles the tap, not of what
the adapter thought when it asked. `begun` tells the projects that the taps of
this invocation have started from those that were running. Three things are
allowed because the code allows them: a project that finishes between the look
and the tap is collected although the tap was paid as an inspection; a start with
nothing selected starts what is open; and the number after that of the seated
ships may be that of an occupied seat, where the tap then does nothing.

Bounds: `MaxInvocations`, `MaxPending`.

### MapPreview and ControlledEpisode

`MapPreview` has one action for every step between two places where the code may
raise, and one for every way to raise. Its readings are whole: cells, routes and
geometry are compared by ALAS's own code, which is not here.

`ControlledEpisode` has five actors: the game with an operator who also plays by
hand, the recorder, the acquisition, the commit script, and the checkpoint. They
share the game and the files. Every tool may be killed at any step (`...Ends`);
files that were written stay. A trace counts the samples of a page in a row and
keeps what `ControlFrames` of them have proven. A frame of two generations
counts as the later one. The recorder of an acquisition that was killed may go
on; its acquisition has left no file that would name it, so it is dropped.

`Accepts` is the analysis: of any acquisition, any set of receipts and any
checkpoint on disk, whatever run they are from. `EpisodeIsWitnessed` says what an
accepted set is worth; the number of a battle, in readings and receipts, is
history that no tool sees.

`Inside` lets a step of the preview that only this process sees follow the last
one at once. A session opens by the fingerprint of the package or by a trace that
vouches for the process (`Gate`). Process ids are not used again here. One run of
the commit script at a time, and the errors of a `close()` end the tool that
meets them.

Two limits of the evidence can be read off the model. The samples that prove the
S pages need not be from after the grid input: it is the receipts that are. And
the page tap looks at the foreground again but takes the process identity from
its cache, so a game that was restarted in between may get it.

Bounds: `MaxProcesses`, `MaxAcquisitions`, `MaxCommits`, `MaxCheckpoints`,
`MaxGeneration`, `MaxPending`.

### RuntimeQualification

`After` is the order of the phases of `qualify()`, for a plain lifecycle, a game
recovery and an Android recovery. A phase without effect on the device is one
step; the launch, the routing, the observer phase and the restarts are cut at
every ADB command. A command (`Deliver`) takes effect and is reported as done,
or takes effect and is reported as failed; one without effect is `PhaseFails`.
`stop()` is cut the same way: the settings are forgotten, each is written, all
are read back; the bridge is closed; the emulator is stopped. The verdict
(`Report`) may be downgraded for a fingerprint or a trace, which is a free
choice here.

The device is external: it goes down some time after it was asked to reboot,
boots, its game dies or is started by somebody else, with PIDs from a small set
that are used again. The KVM emulator dies at any time. `touched` and `original`
are history variables. Games carry a number that nobody reads, to tell a new
process from an old one with the same PID.

`NSettings` stands for the four ANGLE settings. A setting has the wanted value
or the device's own.

## Runs

| Run | Module | Instance | What it shows |
|---|---|---|---|
| `trace_safety` | RuntimeTrace | 2 emitters, 2 closers, queue of 2, 3 records, 2 refusals | nothing is lost or doubled, the file is in put order, a clean summary is that of a complete file, one sentinel, a summary tells of a loss if there was one |
| `trace_live` | RuntimeTrace | 2 emitters, 1 closer, queue of 1 | `emit` and `close` return though the writer hangs or died; a scheduled writer comes to the sentinel |
| `trace_lost` | RuntimeTrace | as above | counterexample, see below |
| `observer_reads` | Observer | 2 processes, 4 generations; 2 frame threads with the combined endpoint, 1 with the two older ones | publications move forward; the combined endpoint implements `AtomicView`; the halves of a legacy pair are from one process and within the skew |
| `campaign_sortie` | CampaignFlow | all 27 panels and 4 requests up to the plan; beyond it one panel with a clear and two choices, 6 publications, 2 invocations | inputs within budgets, selections and proofs true, battle only as proven, a sortie follows its own stage entry, the plan reaches the request |
| `combat_inputs` | CombatInput | 2 enemies, 2 seas, 2 views, 2 invocations, 2 unhandled inputs; budgets for a tap alone, for everything, and for one positioning | inputs within the leases, one kind of swipe; a proof is of a battle won, on its cell where there was ammunition for two; the script makes no grid tap and ends with a rechecked enemy |
| `commission_inputs` | CommissionFlow | 2 invocations, 3 rows, two alike, one of these costing oil | inputs within budgets; a start is of the selected face and free; a start proof is true; a close hits its popup |
| `commission_claims` | CommissionFlow | the same | counterexample, see below |
| `task_flows` | TaskFlows | 2 projects, foods, pools, ships and books; one unit of each kind, two for feeding and starting; 2 invocations and 2 unhandled taps (1 and 1 for research) | inputs within budgets in every flow; what the game does is what was decided on an older picture of it |
| `controlled_episode` | ControlledEpisode | 2 targets, 2 processes, 1 acquisition, 3 receipts, 1 checkpoint, 9 publications, a page proven by 1 sample | swaps are undone; an accepted episode is one battle, on its target, in its process, graded S, with the receipts of its own pages |
| `qualification_cleanup` | RuntimeQualification | all configurations, 2 settings, 2 PIDs, 3 games, 2 boots | leftovers are reported, a pass leaves nothing, recovered is new, launches are routed |
| `qualification_changed` | RuntimeQualification | the same | counterexample, see below |

Why the bounds are enough. *Trace*: the interesting conflicts involve two
threads of a kind, and a queue that is full; the third record is the one that
arrives behind the sentinel or finds no room. *Observer*: a pair goes wrong by
one publication between two reads, and the skew of the legacy pair is 2, so 4
generations exceed it; three attempts can all be spoiled. Two processes give one
restart, before, during and after a read; a legacy session of the second process
is followed for two generations, which is the skew. *Campaign*: six publications are the
stage, the map, the panel, its last change, the battle, and one to spare; a
second tap cannot be injected by the same caller before the first returned, and
one unhandled tap is enough for every stale look. A second invocation is where
leftovers of the first matter, a third sees the same; `Focus` follows one panel
beyond the plan, and into a second invocation only after the first has raised.
*Combat inputs*: two enemies are one to admit and one to hit by mistake, and each
is covered in one of the two views, so that a swipe is needed for either; of two
seas one is the fleet's and one the target of a positioning. Two unhandled inputs
are a swipe of one invocation and one of the next. *Commission*: two rows
that look alike are needed to open the wrong one, a third that does not to select
something else in between; one of the two costs oil. All initial statuses are
tried. *Task flows*: two of a kind are one to decide on and one to get instead;
budgets of two let a portion and a project follow another of the same
invocation. `Focus` keeps research, whose screens and context are the largest,
to one invocation and one unhandled tap. *Episode*: two battles, one of which is
the target's, are what files can be mixed from; of the seven pages that an S
battle may show, the four optional ones are left out (`Unseen`), so three
receipts are a complete set. Nine publications are two for each receipt, one
before the input, one for it and one for the checkpoint. `Hopeful` leaves out
states from which the analysis can accept nothing any more, and says why for
each conjunct; states with a raised preview are such, and the proof of
`SwapsUndone` covers them. *Qualification*: the
second setting is the one a failed first write must not keep from being
restored; three games are the one before, the one after and one started by
somebody else; two boots are the emulator's own and the reboot.

Deadlock is not checked in any run because every instance stops: budgets are
used up, a run of `qualify` ends, the game of an episode has no publications
left, and the bounds end the rest.

*Fairness* is used in `trace_live` only (`FairSpec`): an emitter that is inside
`emit` and a closer that is inside `close` go on, since the operating system
schedules a runnable thread and the waits of `close` are timed. No fairness is
assumed for the writer, which may hang in a write; `SealEndsWriter` has that
assumption as its premise, and says what it is good for. Nothing makes a thread
start a call.

Each property of a passing run has a mutant: a changed action, defined next to
the real one and marked so, under which the run finds the property violated.

## Where the code and its documents differ

- `trace_lost` / `EveryRecordReported`. `docs/runtime-foundation.md:226-227`
  says that the summary reports recorded and dropped records, and lines 142-144
  that a pass is downgraded when a record was dropped. An `emit` that has its
  number when `close` seals the queue puts its record behind the sentinel and
  returns `True`; the record is not in the file and in no counter
  (`py/runtime_trace.py:199-212` against 316-323). `CleanSummary`, which does
  hold, speaks of everything put before the sentinel.
- `qualification_changed` / `ChangeReported`. `docs/runtime-foundation.md:140-142`
  says that the manifest binds whether the runner changed runtime state. The
  code asks whether it owns the instance or was to launch the game
  (`py/runtime_qualification.py:348-350`). A recovery on an external device with
  restarts allowed and without `launch_game` restarts the game or reboots
  Android, and reports `false`.

- `commission_claims` / `ClaimsFunded`. The comment at
  `py/alas_adapter.py:4583-4585` says that the counter is read again so that "a
  second commission completing after the preflight cannot turn a one-item budget
  into a multi-claim action". What is read is a publication, and the tap is
  handled later; a commission that finishes in between is collected too, with
  one unit of the budget. The reward proof, "one before, zero after", holds in
  that case as well.

A tap that is reported as failed may have reached the game, and is then not
booked against its budget. The model shows why this is not an overdraft:
after an exception nothing but the rollback is called (`Admitted`, and its
mutant, which lets the caller go on).

## Proofs

All theorems are checked by TLAPS from the assumptions named in the modules,
which say no more than that bounds are natural numbers, that selections and
grants have the stated shape, that the cells of a map are of one kind each, and
that `None` (or `Nothing`) is not a value it stands against. TLC evaluates them in
every run. Each invariant below was first checked by TLC on the instance of its
run; the proofs hold for all constants, and without the constraints that only
TLC needs (`Focus` and `Hopeful` in the `MC` modules).

Every safety property of a passing run is a theorem.

**`RuntimeTraceProofs`** - for any number of threads and any queue size.
`FileIsPutOrder` is not inductive: whether the file is a prefix of the queue
depends on where the writer is in its loop. `WriterCursor` fixes, per place, how
far the file is behind the cursor; `WriterCounter` does it for the counter; a
closer past its join without an error has met a stopped writer (`CloserPlace`),
and a stopped writer has met the sentinel. `FirstCloser` says that one closer
goes past the closed flag, and that no sentinel exists before it does.
`NothingIsLost` (`Conservation`) counts: of the threads that hold a number there
are finitely many even if there are infinitely many threads, as each number is
held once (`Countable`), and each step moves one number from one place of the
sum to another. `LossesAreTold` (`LossIsTold`) is about the step that reads the
summary. The counter it reads is kept between one and the refusals by what each
refused thread holds: no more than had been counted when it loaded
(`RefusalCount`). Without a drop every number is held by its thread or was put
(`NothingDropped`); what was put is in the file or not yet passed by the writer
unless the writer failed (`PutIsNotLost`), and then the summary has its error.

**`ObserverProofs`** - for any number of processes, generations and frame
threads. `IInv` follows a publication outwards: the globals are one publication,
no later than the last generation taken (`Published`); a tick under way has a
generation nobody has published (`TicksFit`), from which `PublicationsMoveForward`;
what a connection has seen so far is in the window of the read (`ServingFits`),
and so is what a good answer says (`AnswerFits`). An older half with the
generation of the current publication is the current one, which is why comparing
generations is enough. `ViewsAgree` follows, and `CombinedIsAtomic` is the
refinement: the initial states are initial in `AtomicView`, and every step is one
of its steps or a stutter. What the abstract system sees of a state is `Seen`, so
the steps that leave it alone are one case.

**`CampaignFlowProofs`** - for all fleets, panels, requests and budgets.
`PreflightReaches`, a statement about the pure simulation, by cases on the rows;
`EveryPlanReaches`, that every context has such a request and panel;
`TypeCorrect`, which needs that an input under way fits its context
(`CallFits`: for example that a sortie in flight has a prepared panel) and that
taps name rows (`TapsFit`); `BudgetsAdmit`. The last is about funds: a tap may
reach the game unbooked, so "delivered plus left equals granted" is false in
general. It is true while nothing has raised (`Ledger`), an input under way
still has its unit, and after an exception no input call can begin; the sum of
the three is `Funded`, and it is inductive.

`ProofsTell` and `SortiesFollowEntries` rest on `Layered`. The game leaves the
chapter by a stage tap and returns by a cancel, and taps for the one side are
asked for while the other is not published: so in the queue the stage taps are
a block of their own (`QueueFits`), and after a cancel no stage tap follows
(`Back`). The receipts of a running invocation then tell what was delivered in
it (`Told`). `SelectionsAreReal` and `SortiesAsProven` need what happens on the
panel (`Held`): until an invocation asks for its fleets nothing is on its way
that could touch the selection (`Unasked`); a row whose published number is not
the game's was cleared in this invocation, or an open dropdown is published
(`Mutated`); a choice made after a clear stays behind it in the queue; and what
was confirmed stays the game's (`Confirmed`, `SortieFits`).

The proof of these two corrected the model. In an earlier form ALAS could ask
for fleets before it had entered the stage, and they are false there: a
"clear" left over from an invocation with an empty plan, or a panel published
before the entry, makes the record and the game differ. The run missed it, for
its `Focus` follows one panel only. The patch fixes the order
(`integration/alas/0001-semantic-oracle-hooks.patch:1152-1250`), so it is now a
guard (`Entering`), and `SelectionIsReal` speaks of invocations with an entry.

**`CommissionFlowProofs`** - for all rows, faces, budgets and queues of taps.
`TypeCorrect`; `FundedInputs`, by the same three parts as above (`Funded`);
`ClosesAlwaysLand`, `StartProofsAreTrue`, `StartsSelected`. A close lands because
of `PopupsAhead`: a close under way belongs to a popup that the game and its last
publication both show, there is only one, and a popup that is shown and has no
receipt is still there. The last conjunct needs the claim: a flow that has not
made one cannot close, and one that makes it sees the summary, not a popup.
A start proof is true by `RowsKnown`: every row that is pending somewhere, in
the game, in a publication, selected or under a tap, is pending now or has been
started by the flow, so one that is seen running has been. A start is of the
selected face by `OneAhead`: taps are aimed at two pages at most, first those
left over from the page below, which now meet nothing, and then those for the
page on top; and while the publication lags behind a change of page there are
only the former. So the detail that was read is the one that is open when the
start is handled (`DetailRead`).

**`CombatInputProofs`** - for any cells, views and budgets, a camera that moves
when it likes, and a caller that ignores exceptions. `TypeCorrect` and
`LeasesAreKept`. `LeasesKept` counts what reached the game, so it is inductive
only with the unit of a swipe that was taken and not yet injected (`Flying`),
and with the reason why the two kinds exclude each other: a swipe for a battle
has an admission and no positioning, and neither comes about once the other kind
was made (`SwipesApart`, which needs the count of placed swipes, `PlacedWithin`).
The tap is the other case: its unit is still there until it is booked, unless
its exception is on its way to the caller or was ignored (`TapFunded`). Most
steps touch none of it (`QuietStep`).

`ScriptOnlyPreviews` goes by the stage of the script: what may be under way in
each (`Fitting`), how many swipes its invocation has made and has still to prove
(`Previewing`). `ProofsAreOfBattles` compares maps: of two maps of which one
came later, an enemy that is gone took ammunition, and of two gone enemies each
took its own, until none was left (`Follows`). What was read, admitted and shown
is an earlier map of the game (`MapsFollow`), and a battle that ALAS counted is
one that a publication shows (`BattlesCount`). This proof too corrected its
property: for a fleet with one unit left the ammunition does not keep a second
battle out, so `ProofIsOfBattle` no longer names the cell for it. The run has
two units and could not meet the case.

**`TaskFlowsProofs`** - for any projects, foods, pools, ships, books and
budgets. `TypeCorrect` and `InputsAreFunded`. The invariant `Well` has the sets
of one task as parameters: game, context, call and taps are that task's own, and
the unit of a call under way is still in the context or was taken in advance
(`Reserved`, `Ledger`). Begin, end, publication and a raise are proved once for
any such sets, the calls and effects of each task in three lemmas of its own
(`...Asks`, `...Moves`, `...Steps`).

`DoesAsDecided` says that what a tap does is what was decided on an earlier
picture. Three of the tasks have a page whose inputs can be made nowhere else
(the cards, the pools, the books). `OneAhead(P, O)`, with lemmas for a step that
handles, injects or leaves the taps alone, says that taps of the other side come
first and do nothing, and that there are only such taps while the publication
lags behind a change of side. What was read on a side then holds when the tap
of the call arrives, or the tap meets nothing. Each task adds its own part:
- dorm (`Calm`): outside the wait of a feed no portion is on its way, the
  published stock is the game's, and the ships have at most eaten since;
- construction: before the flow has seen an empty queue it cannot come to the
  order's page (`QueueUnread`), and before it has ordered the orders only get
  fewer (`Unordered`);
- tactical class: outside the wait of a selection the published book is the
  selected one (`BookStands`), and a selection waited for is the last tap, done
  when it is published (`BookAwaited`);
- research: from the start on, no tap is on its way that opens another project
  (`Locked`), and a project runs because the flow has started it or is published
  as running (`Fresh`, `RunningRead`).
All of this is for an invocation that began `clean`; without it the property is
not claimed.

**`ControlledEpisodeProofs`** - for any targets and bounds, and also where the
run does not look. `SwapsAreUndone`: the invariant `Preserved` says what each
stage of the preview has swapped: the map of the campaign is the reading it
projects, and while ALAS chooses or runs its prefix the class-level map is the
campaign's. `TypeCorrect` and `EpisodesAreWitnessed` rest on `Witnessing`, in four
parts. What is left of enemies and ammunition tells which battles were won and
how many (`GameTold`). Whatever a tool holds or a file says is well-formed
(`ToolsFormed`) and of one recorded process with the pinned package (`Linked`,
`Sound`). Every frame that anybody keeps is true (`KeptTrue`): its generation was
published, a page shows the result of its battle, and a map shows exactly the
battles won by then (`MapTells`). And frames of one process are in the order of
their generations (`InOrder`), on a clock that only the battles drive (`Clock`).
An accepted set has a map before and a map after that differ by one enemy and
one unit, so one battle lies between them (`OneBattle`), and its pages lie in
the same interval. Nothing of it uses what `Hopeful` asks or how many samples
prove a page.

**`RuntimeQualificationProofs`** - for any number of settings and PIDs,
whatever fails. `EveryLeftoverReported`, `PassIsClean`. The argument follows the
only copy of the settings: on the device until the backend has read them, with
the backend from then on, with `stop()` once it took them (`Kept`), so the
comparison at its end is with the right ones (`Restored`). That `stop()` is
called in every run that could have changed something is `Started`; the emulator
is `Halted`. An installed forward belongs, while nothing has failed, to the
bridge held or to the one waited for, and no phase between a restart and the
next observer phase holds one (`Held`). `RecoveriesAreNew` compares games by
their numbers, which no code reads: what was seen first is not newer than what runs,
and if it is as old it is what runs; the same holds between it and what was seen
after the recovery (`SeenFits`). So two PIDs that differ are of two games, and the
later is the newer one (`Newer`).
`LaunchesAreRouted`: nobody writes a setting between the verification and the
launch (`LaunchRouted`). `TypeCorrect` needs a count of its own: a forward is
added by a wait for the observer, and a run waits twice (`FewForwards`).

Only model-checked: `EmitReturns` and the other liveness properties of
`trace_live`, since fairness and ENABLED are out of the provers' reach. Recursive
definitions and induction over data are not used by any of the theorems.

## What is not modelled

- The classification of pages, dialogs and rows: pure functions of one
  snapshot, with no state or order in them; a model would be a copy. What a flow
  asks of a screen appears in its module as a condition on `shown`.
- The contents of snapshots, JSON, fingerprints, locks and evidence documents.
  Where a check on them decides something, the decision is a free choice.
- Time. A timeout is a choice that is always possible while waiting; deadlines
  and the age limit of snapshots are not compared, and the windows in which a
  receipt is returned again may be over at any moment.
- Crashes of the controller: nothing is persisted that a restart would read. The
  evidence tools do leave files, and `ControlledEpisode` kills them anywhere.
- Login and mail, the pages that a flow passes through on its way, the passive
  transition windows, and the lists of other flows that each `begin_*` refuses
  to be nested in: ALAS runs one task at a time.
- Geometry, routes and roadblocks of the campaign map, and which enemy the
  battle branch of ALAS prefers.
- The replays of recorded battles (`..._state_replay.py`, `..._branch_replay.py`),
  which run ALAS itself, and the review documents.
- `runtime_command.py`, `runtime_artifacts.py`, `runtime_evidence.py`, the other
  scripts, the ANGLE patches and the provisioning: see the plan for the first two.

## Plan

In this order, most important first. The first eight are done.

1. `RuntimeTrace`, with proofs.
2. `AtomicView`, `Observer`, with proofs. Left: reuse of a process id, the age
   limit.
3. `CampaignFlow`, with proofs. Left: the auto-search toggle, the back and the
   menu clicks.
4. `RuntimeQualification`, with proofs. Left: whether a recovered device has
   booted anew.
5. `CommissionFlow`, with proofs. Left: the tabs and the scrolling of its list.
6. `CombatInput`, with proofs. Left: a composition with `CampaignFlow` in which
   the sortie's proof is what a combat flow begins with.
7. `TaskBase`, the five tasks, `TaskFlows`, with proofs. Left: mail and login; two
   contexts open at once (`begin_mission_reward` looks at neither the mail nor the
   commission context).
8. `MapPreview`, `ControlledEpisode`, with proofs. Left: process ids that are
   used again.
9. `SemanticSession`: open, close, the gate, the process lease, over the
   `Observer`'s game. It refines `Reopen`.
10. `UpdateAdmission` and `RuntimeCommand`.
11. `CombatReplay`: the replay automaton as a function over traces, against a
    reference definition.
