# Verification of Windows Stage Manager

TLA+ models of Windows Stage Manager, the TLC runs that check them and the
TLAPS proofs about them. Paths are relative to the repository root, which is
`src/` here: `src/window/...` in the text is `src/src/window/...` in
`PROJECT.json`.

## 1. The system

Windows Stage Manager watches the Windows desktop and moves background windows
so that their title bars stay reachable when a window is activated or dragged.
Three threads do the work:

| thread | code | what it does |
| --- | --- | --- |
| UI thread | `app_lifecycle.cpp`, `tray_controller.cpp` | message loop, tray menu, emergency hotkey, settings; starts, stops and rebuilds the pipeline |
| hook thread | `win_event_hook.cpp` | receives WinEvents, filters them and pushes them into the `EventQueue` |
| coordinator thread | `coordinator_loop` in `app_lifecycle.cpp`, `mvp_coordinator.cpp` | collects a batch of events, decides what to lay out, captures a snapshot, solves, applies |

They share the bounded `EventQueue`, the atomics `enabled_`, `dry_run_` and
`coordinator_stop_`, and the `MoveTransactionGuard`. Everything else belongs to
one thread, and the desktop belongs to nobody: the user and every other program
change it between any two steps of the program.

### Components

For each: its state, its operations, whom it talks to, what is hard about it,
and what makes it correct.

**Hook thread** (`platform/win32/win_event_hook.cpp`). State: the installed
hooks, the registry from hook to owner, a sequence counter, the right-click
tracker. `start`/`stop` shake hands with the thread; `accept_event` filters,
stamps and pushes; `accept_mouse_event` remembers right clicks. Hard: late
callbacks after `stop`, a full queue, matching a right click with a foreground
event that comes later. Correct: no event is pushed after the owner is gone, a
dropped event is noticed, a right-click activation is marked as such.

**Event queue, coalescer, reconcile timer** (`window/event_queue.cpp`,
`event_coalescer.cpp`, `reconcile_scheduler.cpp`). State: a bounded deque, a
drop counter and a closed flag; the next due time. Hard: the queue at its limit,
waking the consumer on close, one order for events of several sources, a loss
that happens after the loop has looked. Correct:
what is not dropped is delivered once and in order, drops lead to a full
reconcile, closing wakes the consumer.

**Coordinator** (`window/mvp_coordinator.cpp`). State between batches: active
and foreground window, the suppressed window, the drag, the pending activation,
the queued repair with its delay, the transaction with its monitor and its seen
layouts. `process` folds a batch and takes one decision, `settle` lays out.
It reads the snapshot provider, calls the solver and the applier, activates and
cancels the guard. Hard: events in every order and lost events, flags that each
branch clears selectively, failed and stale snapshots, pauses in the middle,
repairs that must neither starve nor hammer. Correct: the user's own placement
wins, old work never runs around a new window, an activation is placed once, an
unfinished layout is repaired after a delay and in quiet.

**Move transaction** (`window/move_transaction.cpp`). State: the guard's stamp
and cancelled flag, one remembered failure per handle. Operations: activate,
cancel (from any thread), allows; record and look up failures. Correct: nothing
moves on a cancelled or older stamp, except the move already under way; a window
that refused is left alone.

**Applier** (`window/move_applier.cpp`, `internal_move_tracker.cpp`,
`platform/win32/window_mover.cpp`). State: the locals of one call, and the
tokens by which the program recognises the echo of its own moves. It moves one
window at a time and verifies each. Hard: windows that move, close or change
hands between check and move, cancellation between check and move, partial
failure without rollback. Correct: `Applied` means in place, a token stays
behind only for a move that landed, a half-done plan asks for a reconcile.

**Lifecycle** (`app/app_lifecycle.cpp`, `tray_controller.cpp`, `settings.cpp`,
`settings_dialog.cpp`, the threads of `platform/win32/win_event_hook.cpp`). State:
`enabled_`, `dry_run_`, the settings and their file, the pipeline objects, the
tray status, the failure episode. Pausing, resuming, changing a setting (stop,
join, save, rebuild), reporting status by posted messages. Hard: the pause races
with a batch, the joins wait without a timeout, a dialog's message loop runs
every other handler, posted reports are stale when they arrive, saving can fail
or be cut off. Correct: a pause takes hold, stopping completes, nothing uses an
object of the old pipeline, nothing is forgotten over a restart, the tray comes
to show what the program does.

**Identity tracking** (`window/window_identity.cpp`,
`tracking_window_provider.cpp`). State: process and generation by handle.
Hard: handles are
reused, and what ends an identity is an event that may be late, lost, or thrown
away by a paused coordinator. Correct: a window does not go by the key of an
earlier one of its handle for longer than that news takes.

**Title bar solver** (`solver/title_bar_solver.cpp`, with
`visibility_analyzer.cpp`, `geometry/`). A snapshot in, moves out; its state is
the copy of the snapshot it works on. Hard: it stops at any window for any of
four reasons, with a trial placement in its copy; the coordinator runs it again
on what it has left. Correct: the active window stays, the titles it has got to
are visible, the plan is what it did, solving its own result moves nothing.

**Generic layout solver** (`layout_solver.cpp`, `candidate_generator.cpp`,
`candidate_ranker.cpp`, `region.cpp`): searches, steps and staircases for three
visibility goals. The program itself calls the title bar solver only; these are
reached from `tools/`. Hard: regions cut and joined under a limit, candidates
truncated, a search under limits of moves, states and time. Correct: what is
called solved can be recognised.

**The rest** (what the settings mean, menus, localization, logging, metrics,
development tools) parses, displays and writes; nothing in it runs concurrently
with state of its own. `PROJECT.json` lists every part with its status.

## 2. Modules

| module | models | code |
| --- | --- | --- |
| `MoveTransaction` | guard and failure memory, as operators on records | `move_transaction.cpp` |
| `LayoutTransaction` | one transaction step by step, with the UI thread and the desktop racing it | `move_applier.cpp`, `window_mover.cpp`, the stop and rebuild of `app_lifecycle.cpp` |
| `MoveContract` | abstract: what the rest of the system relies on when it hands a plan to the applier | implemented by `LayoutTransaction` |
| `Coordinator` | `process` and `settle` against the user, other programs, the queue and the pause | `mvp_coordinator.cpp` |
| `EventPipeline` | from the hook's callbacks over the queue to the batch | `win_event_hook.cpp`, `event_queue.cpp`, `event_coalescer.cpp`, `reconcile_scheduler.cpp`, `coordinator_loop` |
| `WindowIdentity` | the identities of windows, as operators on the tracker's entries | `window_identity.cpp`, `tracking_window_provider.cpp` |
| `EventContract` | abstract: what the coordinator relies on about its events | implemented by `EventPipeline` |
| `Lifecycle` | the message thread, the pipeline's threads, settings, tray and restarts | `app_lifecycle.cpp`, `tray_controller.cpp`, saving in `settings.cpp`, the threads of `win_event_hook.cpp` |
| `Geometry`, `TitleBar` | rectangles and scaling; when a title bar can be recognised | `rect.h`, `interaction_zones.cpp`, `dpi.cpp`; the title bar part of `visibility_analyzer.cpp` |
| `TitleBarSolver` | the staircase, and reconciles of its own result | `title_bar_solver.cpp` |
| `Region`, `Visibility`, `Candidates` | sets of rectangles, the other visibility goals, the places a window may go to and what they cost | `region.cpp`, `visibility_analyzer.cpp`, `candidate_generator.cpp`, `candidate_ranker.cpp` |
| `LayoutSolver` | every solver behind one question | `layout_solver.cpp` |
| `*_proofs` | theorems about `LayoutTransaction`, `Coordinator`, `Lifecycle`, `EventPipeline`, `TitleBarSolver`, `Visibility`, `LayoutSolver` | |
| `MC*` | small instances for TLC | |

`LayoutTransaction` and `Coordinator` meet at the applier. `LayoutTransaction` takes any plan the
solver could return and looks at every step of applying it; `Coordinator` takes
the applier as one action and looks at everything that leads to a plan and
follows from its outcome. `EventPipeline` ends where `Coordinator` begins, with the
batch; `Coordinator` has a simpler queue of its own, whose events carry what the
decisions look at. `TitleBarSolver` is the solver `Coordinator` leaves open:
there it is any layout. `Lifecycle` goes around all of them: a batch is its
begin, when it reads `enabled_`, and the report it ends with.

### LayoutTransaction

`pc` is where the coordinator thread is: `idle` and `gather` in
`coordinator_loop`, `batch` inside `process`, `solved` when a plan exists, then
the stages of `apply()`: `before` (first snapshot), `check` (guard, failure
memory, snapshot), `issue` (token registered, native move next), `verify`. The
steps are cut where another thread or program can change something the next step
uses. The UI thread is `Pause`/`CancelOnPause` (the hotkey handler stores
`enabled_` and cancels the guard, in that order), `Resume`, and
`ChangeSetting`/`Restart` (set the stop flag, join, rebuild). The desktop is
`Shove`, `Close` and `Reuse`.

A window's key is handle, owner and era: the owners of a handle are numbered in
turn, and era counts how often the tracker forgot the handle. Places stand for
rectangles within the tolerance; one trait stands for style, monitor and
visibility, of which only a change matters. `stamp` stands for transaction id
and generation, which the code always increments together.

### Coordinator

The environment (`SwitchTo`, `Press`, `DragTo`, `Release`, `Shove`, `Change`,
`Close`, `Open`, `Pause`, `Resume`) changes the desktop and leaves in `inbox`
the events Windows reports for that. Two of its choices are the awkward habits
the code comments on: a press of a background window reports its foreground
and its move/size start in either order, and the end of a drag may go
unreported. `BeginBatch` takes the inbox (with or without the periodic
reconcile), one action per event type folds the batch, one action per branch
takes the decision, and `settle` is snapshot, guards, solution and applier.

| variable | member |
| --- | --- |
| `active`, `foreground`, `suppressed` | `active_window_`, `foreground_window_`, `suppressed_activation_window_` |
| `pending` | `pending_activation_retry_`, `pending_activation_placement_` |
| `retry` | `background_retry_window_`, `background_retry_at_ms_` (as the time left), `background_retry_delay_ms_` |
| `calm` | `event_time_ms_ - last_external_change_ms_`, cut off at the quiet time |
| `drag` | `dragging_window_`, `dragging_start_rect_`, the two drag flags |
| `startMonitor`, `seen` | `starting_monitor_`, `transaction_seen_states_` |
| `permitted` | does `guard_` allow the present transaction |
| `tokens` | the handles in `InternalMoveTracker` |

The solver is any layout that keeps the active window where it is, or at `Home`
if it is to be placed; `Readable` decides whether violations remain. That is
wider than the real solver, so what holds here does not depend on its quality.
The hash of a layout also covers the Z order, which is left out of `seen`:
within one transaction it changes only behind the program's back.
`handMoved` and `credit` are history, read by properties only.

### EventPipeline

The desktop posts notifications (`posted`); `EventProc` is one callback of the
hook thread: filter, number, mark if a right click explains it, push. `queue` is
the bounded deque and `unseen` the drops the loop has not reported, the
difference of the two counters of the code. The loop is `WaitPop`, `Gather`
(the rest of the queue, the reconcile if it is due), `Process` (the drops, the
coalescer) and `FinishBatch`; it is cut where a push or a stop can come between.
`Tick` lets the next reconcile come nearer and a right click age. A right click
is `ButtonDown`, `ButtonUp` and, at any time from the press until too long after
the release, `RightActivate`; `cause` remembers which activations it caused.
`MoveSizeEnd`, `Show` and `Hide` travel like the kinds modelled, as does the
`Destroy` of a child window, which the filter lets through and which ends nothing.

`nth` numbers the windows a handle has been given to (`ReuseHandle`), and
`entries` is the tracker's map, an entry being the number of the window it was
made for (`WindowIdentity`). `FinishBatch` is `process()` as far as they go: its
loop reads the events in order, ends end entries, and where a drag starts
(`StartDrag`) a snapshot makes them, as one after the loop does (`WholeBatch`). Two
returns leave events unread: a pause, before the first (`PausedBatch`), and a
snapshot that fails at the start of a drag, in the middle of the loop
(`AbandonedBatch`); `unread` remembers the ends thrown away by either. A
`HookError` has the number 0 and is sorted first, so only a pause throws it away.

`EventContract` has no threads: events are accepted or refused, and a report
takes a prefix of what was accepted. `backlog` is what the loop has gathered
followed by the queue, `owed` is `unseen > 0`.

### TitleBarSolver and LayoutSolver

Windows have two rectangles, the one that is placed and the one that is painted,
a scale, a title bar height and the flags the solvers ask. `arranged` is the copy the
staircase works on, `accepted` the windows it has got to, `anchor` the rectangle
the next one is put up and left of; `OutsideWorkArea`, `Blocked`, `OverLimit` and
`Complete` are its ends. `Reconcile` hands the result to the next call.

`LayoutSolver` adds `ask`, the method with its goal and limits. One action is one
turn of a loop: `Pop` takes a node off the depth-first stack and tries the best
places for its nearest unrecognised window, `Enhance` spends spare space,
`StepNext`/`StepTaken` move one window by a search of its own, `Climb` is a
closure round of staircases. Where the code reads the clock, the time may have run
out (`SearchTimesOut`, `EnhancementEnds`, `ClimbStops`). Hash collisions are left
out: a layout is its hash.

Regions are built the way the code builds them, cut by cut and join by join,
with the limit on their rectangles. What a user sees is defined apart from that,
pixel by pixel (`TitleShown`, `StripShown`, `CornerShown`), and the properties speak
of it.

### Lifecycle

`ui` says where the message thread is: in its loop (its own or a dialog's), or
in a handler that waits for a thread (`stopping`, `starting`) or works on the
file (`write`, `remove`, `rename`), with the job it goes on with afterwards. A
handler that never waits is one action. `hook` and `loop` are the two threads:
the hook thread publishes its id and the result of installing the hooks before
`start()` returns, and ends when a posted quit reaches it; the coordinator thread
looks at the stop flag between batches. `built` stands for the objects both use
and the settings they were made with. `posted` is the queue of reports. `Killed`
ends the process anywhere, between the steps of a save too, and `Starts` begins
again from the file. Every field of the settings besides `enabled` is one
opaque value. A second dialog on top of an open one is left out.

## 3. Runs

Each run is one question. States are distinct states found by TLC; every run
takes between a second and four minutes.

| run | question | bounds | result |
| --- | --- | --- | --- |
| `transaction` | is a transaction safe against pause, settings, desktop, and does it implement `MoveContract` | 2 windows, 2 places, 2 transactions, 2 owners, plans of 2 moves, one change behind the program | holds, 934k states |
| `transaction_live` | does stopping complete, does a pause take hold | one transaction, identities forgotten once, the applier going on after failures, fair threads | holds, 462k states |
| `pause_is_immediate` | does the hotkey stop moves at once, as documented | one window | violated |
| `coordinator` | do suppression, drags, activations and repairs stay consistent | 2 windows, 2 monitors, 3 changes of the desktop of any kind, 1 failing call, queue of 3, delays 2 and 4 quiet periods | holds, 2.2M states |
| `coordinator_live` | are pending activations and repairs ever served | 2 changes, one window possibly still loading, fair coordinator thread | holds, 85k states |
| `suppression_survives_layout` | does a normal activation end suppression | 4 changes | violated |
| `token_hides_drag` | is a dragged window left where the user put it | 4 changes, queue of 6 | violated |
| `events` | does the pipeline implement `EventContract`, recognise right clicks, report losses and tell windows apart | 2 handles, one given to one process only, queue of 2, 3 notifications (activations, moves, drags, ends), 1 click, close, display change or stop, each handle reused once, reconciles not told apart by number, fair loop | holds, 1.2M states |
| `solvers` | are solved layouts recognisable, title bar plans explained and stable | 347 layouts of 3 or 4 windows on 13 by 11 pixels, every method and goal, 0, 1 or 3 moves, 1 to 4 states | holds, 105k states |
| `title_hides` | does a partial layout keep what could be recognised | the same layouts, title bar goal | violated |
| `lifecycle` | do settings, threads, file and tray stay consistent over changes, failures and restarts | 2 inputs, 1 failing call, 1 kill, 2 posted reports, fair threads | holds, 1.5M states |
| `emergency_stop` | does the emergency stop hold until the user enables management | 2 inputs, no failure | violated |

### Properties of LayoutTransaction

- `AtMostOneMoveAfterCancel`: a cancellation is outrun by at most the move
  already past the guard's check.
- `FailedWindowLeftAlone`: in one transaction a window that refused is not moved
  again, although the memory keeps one entry per handle and handles are reused.
- `DryRunNeverMoves`: the mode belongs to the UI thread, and only the join keeps
  a running batch from seeing it change.
- `TokensOnlyForLandedMoves`, `AppliedMeansInPlace`, `PartialFailureReported`:
  what a return of `apply()` promises, on every path.
- `ImplementsContract`: every native move is one the plan called for, in order,
  on a ticket given while the transaction was live.
- `StopCompletes`, `PauseTakesHold`: liveness.

### Properties of Coordinator

- `QueuedWorkYields`: a repair waits only for the active window, without drag,
  suppression and pending activation; an activation only without drag.
- `UserComesFirst`: nothing is laid out during a drag or around the suppressed
  window.
- `UnfinishedIsQueued`: however the applier returns, the plan stands with readable
  titles or a repair around the active window is queued.
- `PlacementsAnswerActivations`: every placement of a window answers an
  activation of its own, through lost and repeated events, pending activations
  and repairs.
- `RepairWaitsItsTurn`, `RepairsBackOff`: no solver run gets around a queued
  repair's delay and quiet time; fruitless repairs come at doubling intervals.
- `PendingIsSettled`, `RepairIsTried`: liveness.

### Properties of EventPipeline

- `LossHasCompany`: a loss nobody has reported comes with an event to be
  reported, or the loop would sleep over it (it skips empty batches before it
  looks at the counter).
- `ImplementsContract`: what the coordinator gets is what happened, each event once
  and in order, only superseded places missing, and losses reported, although
  batches are sorted by numbers of three independent counters.
- `MarksFollowClicks`: activations by a right click are marked, after a press of
  any length and announced early or late. Once the button is up, no others are: only
  the window clicked, and only until too long after the release. While the button is
  down the code marks whatever is activated, an activation posted before the press
  included; SOFTWARE_FEATURES.md:104 describes that.
- `KeysTellWindowsApart`: a window has the key of an earlier one only while the
  end of that one is posted, queued, gathered or in the batch, is lost and not yet
  reported, or was thrown away unread, by a pause or with the rest of a batch after
  a drag start whose snapshot failed, while automation is on. SOFTWARE_DESIGN.md:236
  knows no exception; what is thrown away unread leaves the old key until events are
  lost, the handle ends again or the pipeline is rebuilt.
- `LossesAreReported`, `ReconcileRecurs`: liveness.

### Properties of the solvers

- `AcceptedAreShown`: at every step the titles of all windows the staircase has
  got to, and of the managed ones above them, are visible pixel by pixel.
- `PlanExplainsLayout`: the moves are the difference between snapshot and layout,
  one per window, within limit and work area, whatever ends the staircase.
- `ReconcileSettles`: solving a result again moves nothing, or after a call that
  ran out of moves gets further.
- `SolvedIsRecognisable`: whatever method and goal, a layout called solved can be
  recognised, judged pixel by pixel and not by the regions that found it.
- `UpperLayersStayFixed`: the search never comes back to a layer of the Z order.

### Properties of Lifecycle

- `ObjectsOutliveThreads`: no thread runs without the objects it uses.
- `PipelineIsWhole`: between handlers the pipeline is complete, works with the
  current settings and is not told to stop, or is gone altogether, however
  settings change, dialogs nest and hooks fail.
- `SavedIsCurrent`: between handlers the file holds the settings in memory,
  unless the last save failed.
- `SettingsHaveNoReader`: settings are replaced only while no coordinator thread
  reads them.
- `NoticesAreForNewFailures`: a notification is for a failure that began after
  the one notified before it, though reports come late or get lost.
- `TrayCatchesUp`, `HandlersReturn`: liveness.

### Why the bounds are enough

The conflicts the properties are about are between two windows (the one the
program works for and another), two transactions or two owners of a handle (the
old and the new), one failure and one change behind the program's back between
two steps. The counterexamples of the violated runs need at most four changes of
the desktop, and each property has a mutant, a plausible bug in a definition
(marked `(mutant)` in the modules), that TLC finds within the same bounds: a guard
dropped, a flag not cleared, a delay not doubled. The queue of three overflows
in the `coordinator` run, the queue of two in `events`, where a third
notification meets it full while the loop is between its steps. In `lifecycle`
two inputs are a handler and the one that races it, nests in it or follows it,
one fault is a hook, a save or a notification that fails, and one kill leaves a
second life to look back at the file. In `solvers` three windows are the active
one, one that covers and one that is covered; the fourth is a layer the
staircase may not reach. Sizes are a few strips, so that a window hides all of another,
one of its edges or a corner, with windows that are fixed, unmanaged, on
another monitor or out of the Z order, and the limits on moves, states,
candidates and rectangles all bite. The environment stops after its bounded
number of changes, so the liveness runs speak of a desktop that comes to rest.

### Fairness

`LayoutTransaction`: weak fairness of the loop's steps (`Gather`, `BatchBegins`,
`DisabledBatch`, `BatchEnds`), of `apply()` and of the two UI handlers once
begun. The operating system schedules both threads, `wait_pop` returns after
50 ms at the latest, a batch is finite and no step blocks on another thread;
`Activate`, `Solve`, `Pause` and the desktop owe nothing. `Coordinator`: weak
fairness of the coordinator thread as a whole, for the same reason; which
enabled step it takes, whether a capture fails and what the user does stay open.
`Lifecycle`: weak fairness of each of its three threads; users, faults, kills,
restarts and the cooldown owe nothing. `EventPipeline`: weak fairness of the loop;
callbacks, time, users and the message thread owe nothing. Deadlock is not checked in the `Lifecycle` runs only:
a program whose pipeline could not start has no coordinator thread and waits for
its user, who has used up the bounded inputs.

## 4. Where the code and its documents part

Five runs state a sentence of the documentation and TLC shows an execution of
the model that breaks it; `PROJECT.json` quotes the sentences and the lines.

1. *Pausing is not immediate* (`pause_is_immediate`). `enabled_` is read when a
   batch begins; the batch activates the guard later, which undoes the
   cancellation of a pause in between, and makes its moves.
2. *Suppression outlives a normal activation* (`suppression_survives_layout`).
   If the activated window is still loading in all three snapshots, it is laid
   out later on the pending path, which does not end the suppression; reconciles
   and repairs then stay off.
3. *A token hides a drag* (`token_hides_drag`). The echo of an own move and the
   user's drag of the same window can reach one batch; the token swallows the
   coalesced change and the drag's end places the window automatically.
4. *A partial layout hides a title* (`title_hides`). A placed window is checked
   against the windows above it only. If the staircase stops at a later one,
   that one's title may have been readable before and be covered now.
5. *A dialog undoes the emergency stop* (`emergency_stop`). The settings dialog
   saves the copy made when it opened, with the `enabled` flag from before the
   hotkey.

Two more are behaviours of `Coordinator` without a run. If the snapshot at a
drag's beginning fails, the monitor check at its end uses the monitor of an older
transaction (`docs/SOFTWARE_DESIGN.md:384` promises the drag's). Events are
thrown away unread while automation is off (`docs/SOFTWARE_FEATURES.md:15`); a
switch during a pause is missed, and after resuming the desktop is arranged
around the window that was active before.

## 5. Proofs

`LayoutTransaction_proofs` holds for any sets of windows, places and traits and
any bounds, from `ConstantsAssumption` alone.

- `TypeCorrect`: the type invariant, one step per action. Return paths share
  lemmas (`ReturnType`, `FailType`, `FailMoveType`).
- `CancellationOutrunByOneMove`: `overrun <= 1` is not inductive. `OverrunInv`
  adds why: a live guard has no overrun behind it, and a move past the guard's
  check has none yet.
- `DryRunIsHarmless`: `DryRunInv` extends the claim to every stage of a call
  after `apply()` looked at the mode; `Restart` is the step that needs the join.
- `RefusalIsRemembered`: the memory may lose an entry when another owner of the
  same handle fails, so the invariant `RefusalInv` accounts for every refusal.
  It is remembered, or a newer key of the handle has superseded it and no
  plan names it (`RefusalsAccountedFor`). This needs that keys grow
  (`RefusedKeysAreOld`), that plans name current keys (`PlanIsCurrent`) and that
  what a plan names is no older than what was refused
  (`PlanIsNewerThanRefusals`).

`LayoutContract_proofs` goes on from there.

- `ContractKept`: the transaction implements `MoveContract`. A step that issues a
  move is the contract's move of the next window on a ticket of its own, one
  that starts or ends a call is the contract's, and every other is a stutter. The
  type invariant and `DryRunInv` are what the step lemmas use.
- `TokensAreForLandedMoves`, `AppliedIsInPlace`, `PartialFailuresAreReported`: what
  a call promises as it returns. `CallInv` says what is known at each place of
  `apply()`: the windows before the current one are applied or have been skipped,
  of those touched at most the current one is not yet applied, a token that the
  call has not found belongs to one of them, and the last look was at the desktop
  as it is. `ReturnsAreOfAKind` lists the ways out.

`Lifecycle_proofs` holds for any settings, any number of inputs, faults and
kills and message queues of any length, from `ConstantsAssumption` alone.

- `TypeCorrect`: the type invariant; the stop, the save and the end of the
  process are lemmas, since several handlers share them.
- `ObjectsOutlive`, `PipelineStaysWhole`, `SettingsAreUnshared`: neither of the
  first two is inductive. `PipelineInv` says what there is of the pipeline at every
  place of the message thread: whole or gone in the loop; gone while a handler
  that stopped it works on the file; in a stop, the objects as long as a thread
  is left. The joins (`Stopped`) and the handshake of the hook's start
  (`StartSucceeds`) are the steps that carry it.
- `SettingsAreSaved`: `SavedInv` extends the claim to a pipeline being started.
- `NoticesAreNews`: `NoticeInv` counts the failures not notified yet: the reports in
  the message queue that will begin an episode (`Entries`), and one more if the
  present failure's report was lost. Posting a report adds an entry only for a
  failure that is new, or that was counted when its report was lost
  (`PostedEntries`); handling one takes away its own entry and no other
  (`HandledEntries`, by a bijection between the queue and its tail).

`Coordinator_proofs` holds for any windows, monitors, rectangles and judgement of
readability, any queue, delays and number of faults, from `ConstantsAssumption`
alone.

- `Invariance`: `Inv` is the types, `StageInv`, `QueuedWorkYields` and
  `UserComesFirst` together. The last two are not inductive: a branch of
  `process()` relies on what earlier ones have cleared. `StageInv` says what.
  A changed foreground has already cleared the repair; a switch is settled with
  neither repair nor drag, around a window that is not suppressed; the layout
  after a drag finds no repair; when the plan is applied no activation is
  pending; what is dragged is the active window; what waits for its window is not
  suppressed. One lemma per action, and one per part where the action touches it.
- `TypeCorrect`, `QueuedWorkGivesWay`, `UserHasPrecedence` follow from it.
- `NoLayoutIsForgotten`, `RepairsAreNotOvertaken`, `RepairsGrowRarer`: the action
  properties, by cases over the steps that leave the stage (`StepsAtStages`). The
  last one needs `PlanMoves`, that a plan moves something: a repair that succeeds
  then changes the desktop.

- `PlacementsAreAsked`: no window is placed at a new spot more often than it was
  brought to the front. What may still ask for a placement lies in many places:
  events queued and at hand, the batch's activation, a drag not yet moved, what is
  pending. `CreditInv` is a ledger of every window: its credit covers what is
  claimed for it at present (`Claims`) and what the events to come can still claim.
  The latter depends on who is the window in hand when each is handled, so
  `Ledger` asks for a certificate: two functions of the position in the queue, for
  the case that the window is the one in hand and that it is not, related by a
  local rule at each event (`Tally`). Taking an event from the front shifts the
  certificate, an activation adds one to it (`TallyShifts`, `TallyGrows`). `Noted`
  says what each stage knows of the activation it works on.

`EventPipeline_proofs` holds for any finite set of windows and any capacity,
interval and timing.

- `LossesHaveCompany`: a loss needs a full queue (or a stop), and the loop empties
  the queue only into its own hands. `LossInv` adds that the loop holds nothing
  unless it gathers or reports.
- `EventTypes`: the type invariant. `BoundInv` adds why the queue and the numbers
  stay within bounds: what is accepted was posted.
- `RightClicksAreMarked`: an action property. `ClickInv` says that what a right click
  has yet to explain is an activation of the window clicked, and that the tracker
  still has that window and is not too old.
- `KeysAreOwn`: `KeysInv` speaks of windows that no longer exist as well. An entry
  of the tracker may carry the number of an earlier window of the same handle only
  while the end of that window is on its way, lost but not yet reported, or was
  thrown away unread. However a batch is left, an end in it was read or is among the
  events known as missed (`FinishBatchReturns`): each is before or after the drag
  start at which the loop was cut (`EndInParts`).
- `PipelineKeepsContract`: the pipeline implements `EventContract`. `OrderInv` says
  that what the loop holds and what is queued is in the order of the numbers; a
  batch then summarises what was gathered (`Summarises`), since of the events of
  one window and kind the last is kept, at its rank.

`TitleBarSolver_proofs` holds for snapshots of any number of windows, sizes and
scales and for any requirements.

- `ReadableIsShown`: the exposure analysis is sound. It looks at a title strip and
  the rectangles over it; where it accepts, no pixel of the required part is
  covered or off the screen (`CoveredTitle`).
- `TypeCorrect`, `MovesExplainLayout`: `PlanInv` adds that windows not yet reached
  are where they were and that the moves are about accepted windows.
- `AcceptedTitlesAreSeen`: the solver checks a placement against the windows
  above it, so placing a lower window cannot disturb an accepted one only if the
  Z order is the snapshot's (`DepthKept`, from `MovesExplainLayout`) and each
  check covers everything above (`ShownInv`). `ReadableIsShown` turns what the
  solver checks into pixels.

- `ReconcilesAreStable`: a reconcile of the layout the staircase has left moves
  nothing. Every window it has placed stands where the one before it says
  (`ProgressInv`), so the second call wants each where it already is. It finds
  each one readable for the reason the first call did (`BeforeInv`), and stops at
  the window the first stopped at, for the same reason (`RepeatInv`). It may get
  further only where the first had used up its moves. The theorem assumes
  `FramedSnapshots`: what is painted of a window that may be moved lies within its
  rectangle, as the desktop manager reports it. The solver refuses numbers out of
  the native range; without the assumption a moved window could leave that
  range by its shadow. The snapshots of the runs satisfy it.

`Visibility_proofs` holds for windows of any number, size and scale and for any
limit on the rectangles of a region.

- `AnalysisIsSound`: what the analysis of exposed edges accepts can be seen. The
  argument goes through the regions. `SubtractAllPixels`, `UnitePixels` and
  `IntersectPixels` say that an operation answers exactly the pixels it should,
  however its rectangles were cut and joined, or gives up as too complex. Then
  what is exposed of a window is shown (`ExposedPixels`), and a rectangle of it
  that is long and deep enough along an edge holds a strip; in the channel of a corner
  there is one place only for it, so that the two strips meet (`ChannelStart`). The operations are
  folds over finite sets; `FoldExists` shows by induction over their size that a
  fold is what its recursive definition says.
- `ScanIsSound`: a scan without violations has looked at every window that counts.

`LayoutSolver_proofs` holds for any snapshots, limits, goals and candidates, and
wherever the time runs out. It assumes `LayersAssumption`, that two windows have
different layers: `collect_z_order()` numbers the windows in Z order. Windows that
are missing from it all have -1; nothing is assumed of those. `StableAssumption`
says that remembered positions are rectangles.

- `SolverTypeCorrect`: the types of nodes, steps, staircases and answers, as part
  of `SearchInv` and, when the title bar solver is asked, `TitleInv`.
- `UpperLayersAreFixed`: `GoodNodes` says of every node of the search that its
  layers down to the one moved last can be recognised. A node is made by moving
  the nearest unrecognised window to a place where it can be recognised. The
  windows above it can be still, since a window hides none that is above it
  (`LowerDoesNotHide`), and no other window shares its layer.
- `SolvedIsSeen`: a layout is answered as solved only when a scan of it found
  nothing (`ScannedClean`), or when it was enhanced by moves that leave it so
  (`Clean`); `ScanIsSound` turns that into pixels. A local search moves its window
  at most once, which is why the layout it ends with is that of its answer.

Out of the prover's reach and left to TLC: the liveness properties, which rest on
fairness. Every invariant and every action property of the passing runs is proved.

## 6. Not modelled

- The Z-order branch of the applier and mover: no caller plans reorders.
- 32-bit and 64-bit overflow in geometry and costs: coordinates are integers. The
  title bar solver refuses what is out of range (`Solvable`), the generic one
  saturates.
- Hit testing, window classification and the placement of an activated window:
  functions of one snapshot; `Coordinator` has one place to go to (`Home`).
- The fields of the settings, their parsing and limits; menus, localization,
  logging, metrics, tools.
- Environment changes (display, settings, DPI) push a reconcile
  (`MarkEnvironmentChanged` in `EventPipeline`); in `Coordinator` every reconcile
  is the timer's.
- The failure counter of `coordinator_health.cpp`: `observe` always answers
  `Continue`, so the safety trip of the message thread is never posted.
- Memory failure, and two processes of the program (a named mutex forbids it).

## 7. Plan

What is left, in this order.

1. Activation placement: alignment within the work area, as the assumption on
   `Home` that `Coordinator` makes.
2. The classification of windows as a module of its own, with the trait of a
   window in `Coordinator` as its abstraction.
3. Parsing and limits of the settings.
