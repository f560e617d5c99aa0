----------------------------- MODULE Coordinator -----------------------------
(***************************************************************************)
(* MvpCoordinator: how the events of the desktop become layouts.           *)
(*                                                                         *)
(* The user and other programs change the desktop and leave events in the  *)
(* queue; the coordinator thread takes all of them as one batch together   *)
(* with the periodic reconcile, folds them into its state one by one, and  *)
(* then takes at most one decision: suppress, follow a foreground switch,  *)
(* finish a drag, or reconcile.  The last three settle: take a snapshot,   *)
(* solve, apply, and queue a repair if the layout is unfinished.  The      *)
(* desktop and the pause key interleave with every step.                   *)
(*                                                                         *)
(* Abstractions.  A position is a member of Rects; the solver may return   *)
(* any layout of the managed windows that leaves the active one alone, and *)
(* Readable says which layouts show every title bar.  One transaction      *)
(* number stands for id and generation, and since the applier is always    *)
(* called with the present one, permitted says all the guard can say:      *)
(* does it allow the present transaction?  The applier itself, step by     *)
(* step, is LayoutTransaction; here it is one action.  A reused handle     *)
(* belongs to another process, and era is the generation its key gets.     *)
(* Time is counted in quiet periods (250 ms), and relative: how long ago   *)
(* the last external change was, how long until the retry is due.          *)
(***************************************************************************)
EXTENDS Integers, Sequences, FiniteSets

CONSTANTS
  Hwnds,          (* window handles                                         *)
  Monitors,       (* monitor handles                                        *)
  Rects,          (* where a window can be on its monitor                   *)
  Home,           (* where an activated window is placed                    *)
  None,           (* no window, no monitor, no rectangle                    *)
  Readable(_),    (* does a layout [window -> rectangle] show every title?  *)
  PlaceActivated, (* Settings::placeActivatedWindow                         *)
  Quiet,          (* the quiet time before a retry                          *)
  FirstDelay,     (* the first retry delay                                  *)
  MaxDelay,       (* the longest retry delay                                *)
  Capacity,       (* EventQueue capacity                                    *)
  Attempts,       (* kMaximumCaptureAttempts                                *)
  Steps,          (* bound: how much time passes between two batches        *)
  Doings,         (* bound: the kinds of things the desktop does            *)
  MaxActions,     (* bound: how many of them it does                        *)
  MaxFaults,      (* bound: captures and applications that fail             *)
  Desks,          (* the desktops the program may be started on             *)
  MaxEra          (* bound: windows that own one handle in turn             *)

Traits == {"Gone", "Unmanaged", "Loading", "Managed"}

ASSUME ConstantsAssumption ==
  /\ IsFiniteSet(Hwnds) /\ Hwnds # {}
  /\ None \notin Hwnds \cup Monitors \cup Rects
  /\ Home \in Rects
  /\ \A l \in UNION {[ws -> Rects] : ws \in SUBSET Hwnds} : Readable(l) \in BOOLEAN
  /\ PlaceActivated \in BOOLEAN
  /\ Quiet \in Nat /\ FirstDelay \in Nat \ {0} /\ MaxDelay \in Nat
  /\ FirstDelay <= MaxDelay
  /\ Capacity \in Nat \ {0} /\ Attempts \in Nat \ {0}
  /\ Steps \subseteq Nat /\ Desks \subseteq [Hwnds -> [era : {0}, trait : Traits, monitor : Monitors, rect : Rects]]
  /\ Doings \subseteq {"switch", "right click", "press", "drag", "release", "shove", "change",
                      "close", "open", "pause"}
  /\ MaxActions \in Nat /\ MaxFaults \in Nat /\ MaxEra \in Nat

VARIABLES
  (* The desktop and the queue. *)
  desk,       (* the windows, by handle                                     *)
  front,      (* the window in the foreground                               *)
  held,       (* the window the user is dragging                            *)
  inbox,      (* events queued for the coordinator                          *)
  lost,       (* the queue has dropped events that no batch has noticed     *)
  actions,    (* how often the desktop has changed                          *)
  faults,     (* how many calls have failed                                 *)
  (* AppLifecycle. *)
  enabled,    (* enabled_                                                   *)
  dryRun,     (* dry_run_                                                   *)
  (* MvpCoordinator. *)
  active,     (* active_window_                                             *)
  foreground, (* foreground_window_                                         *)
  suppressed, (* suppressed_activation_window_                              *)
  pending,    (* pending_activation_retry_, pending_activation_placement_   *)
  retry,      (* background_retry_window_, _at_ms_ and _delay_ms_           *)
  calm,       (* event_time_ms_ - last_external_change_ms_, at most Quiet   *)
  drag,       (* dragging_window_, _start_rect_, _started_by_activation_    *)
              (* and _location_change_seen_                                 *)
  startMonitor, (* starting_monitor_                                        *)
  seen,       (* transaction_seen_states_                                   *)
  permitted,  (* guard_ allows the present transaction                      *)
  tokens,     (* handles with an active InternalMoveToken                   *)
  pc,         (* where process() is                                         *)
  batch,      (* its locals                                                 *)
  plan,       (* the layout handed to the applier                           *)
  (* History: read by properties only. *)
  handMoved,  (* windows the user has moved since they came to the front    *)
  credit      (* activations of each window not yet answered by a placement *)

world == <<desk, front, held, actions>>
queue == <<inbox, lost>>
modes == <<enabled, dryRun>>
outside == <<world, queue, faults, modes>>
focus == <<active, foreground, suppressed>>
work  == <<pending, retry, calm>>
txn   == <<startMonitor, seen, permitted>>
notes == <<handMoved, credit>>
vars == <<world, queue, faults, modes, focus, work, drag, txn, tokens, pc, batch, plan, notes>>

-----------------------------------------------------------------------------
(* Types and small operators                                               *)

Window == [era : 0..MaxEra, trait : Traits, monitor : Monitors, rect : Rects]
Desk == [Hwnds -> Window]
EventTypes == {"MoveSizeStart", "MoveSizeEnd", "Foreground", "LocationChange", "Show",
               "Destroy"}
EventRecord == [type : EventTypes, hwnd : Hwnds, suppress : BOOLEAN]
Causes == {"none", "switch", "drag", "pending", "retry", "reconcile"}
Stages == {"idle", "events", "switch", "settle", "apply"}

NoDrag == [hwnd |-> None, rect |-> None, activated |-> FALSE, moved |-> FALSE]
NoPending == [on |-> FALSE, place |-> FALSE]
NoRetry == [hwnd |-> None, era |-> 0, wait |-> 0, delay |-> FirstDelay]
NoSnap == <<>>
NoPlan == [wins |-> {}, to |-> <<>>]
NoBatch ==
  [events |-> <<>>, full |-> FALSE, fg |-> None, changed |-> FALSE, suppress |-> FALSE,
   ended |-> None, tries |-> 0, snap |-> NoSnap, place |-> FALSE, rect |-> None,
   cause |-> "none"]

Present(d, h) == d[h].trait # "Gone"
Managed(d, h) == d[h].trait = "Managed"
Least(a, b) == IF a <= b THEN a ELSE b

(* The batch's managed windows: the active one and its peers on the same   *)
(* monitor.                                                                *)
ManagedSet(d, h) == {w \in Hwnds : Managed(d, w) /\ d[w].monitor = d[h].monitor}

(* hash_layout(): the identity and place of every window of the layout.    *)
StateOf(d, to) == [w \in DOMAIN to |-> <<d[w].era, to[w]>>]

(* The identities the provider gave these windows are forgotten: what is   *)
(* remembered about them will match no window again.                       *)
Unknown == MaxEra + 1
ForgottenRetry(ws, wait) ==
  [retry EXCEPT !.wait = wait, !.era = IF retry.hwnd \in ws THEN Unknown ELSE @]
ForgottenSeen(ws) ==
  IF seen = {} THEN {} ELSE {s \in seen : DOMAIN s \cap ws = {}} \cup {NoSnap}

LayoutOf(d, wins) == [w \in wins |-> d[w].rect]

(* EventQueue::try_push for each event: what does not fit is dropped.      *)
Enqueue(es) ==
  /\ inbox' = SubSeq(inbox \o es, 1, Least(Capacity, Len(inbox) + Len(es)))
  /\ lost' = (lost \/ Len(inbox) + Len(es) > Capacity)

Evt(type, h) == [type |-> type, hwnd |-> h, suppress |-> FALSE]

-----------------------------------------------------------------------------
(* The user and other programs                                             *)

Acts(doing) ==
  /\ doing \in Doings /\ actions < MaxActions
  /\ actions' = actions + 1
  /\ UNCHANGED <<faults, dryRun, focus, work, drag, startMonitor, seen, tokens,
                 pc, batch, plan>>

OnDesktop(doing) == Acts(doing) /\ UNCHANGED <<enabled, permitted>>

(* A window comes to the front; a right click is recognised as such.       *)
SwitchTo(h, right) ==
  /\ held = None /\ Present(desk, h)
  /\ front' = h
  /\ Enqueue(<<[type |-> "Foreground", hwnd |-> h, suppress |-> right]>>)
  /\ handMoved' = IF front = h THEN handMoved ELSE handMoved \ {h}
  /\ credit' = IF front = h THEN credit ELSE [credit EXCEPT ![h] = @ + 1]
  /\ OnDesktop(IF right THEN "right click" ELSE "switch")
  /\ UNCHANGED <<desk, held>>

(* The user takes hold of a window, which brings it to the front; Windows  *)
(* reports the two in either order.                                        *)
Press(h) ==
  LET start == Evt("MoveSizeStart", h)
      fore == Evt("Foreground", h)
  IN  /\ held = None /\ Present(desk, h)
      /\ front' = h /\ held' = h
      /\ IF front = h
           THEN /\ Enqueue(<<start>>)
                /\ UNCHANGED <<handMoved, credit>>
           ELSE /\ \/ Enqueue(<<fore, start>>)
                   \/ Enqueue(<<start, fore>>)
                /\ handMoved' = handMoved \ {h}
                /\ credit' = [credit EXCEPT ![h] = @ + 1]
      /\ OnDesktop("press")
      /\ UNCHANGED desk

(* The held window follows the mouse, to another monitor perhaps. *)
DragTo(r, m) ==
  /\ held # None
  /\ <<r, m>> # <<desk[held].rect, desk[held].monitor>>
  /\ desk' = [desk EXCEPT ![held].rect = r, ![held].monitor = m]
  /\ handMoved' = handMoved \cup {held}
  /\ Enqueue(<<Evt("LocationChange", held)>>)
  /\ OnDesktop("drag")
  /\ UNCHANGED <<front, held, credit>>

(* The user lets go; Windows sometimes omits the event. *)
Release ==
  /\ held # None
  /\ held' = None
  /\ \/ Enqueue(<<Evt("MoveSizeEnd", held)>>)
     \/ UNCHANGED queue
  /\ OnDesktop("release")
  /\ UNCHANGED <<desk, front, handMoved, credit>>

(* A program moves its window. *)
Shove(h, r) ==
  /\ h # held /\ Present(desk, h) /\ r # desk[h].rect
  /\ desk' = [desk EXCEPT ![h].rect = r]
  /\ Enqueue(<<Evt("LocationChange", h)>>)
  /\ OnDesktop("shove")
  /\ UNCHANGED <<front, held, handMoved, credit>>

(* A window finishes loading, is minimised, shown, given an owned dialog:  *)
(* it becomes managed or stops being so, with or without an event.         *)
Change(h, t) ==
  /\ h # held /\ Present(desk, h) /\ t \notin {"Gone", desk[h].trait}
  /\ desk' = [desk EXCEPT ![h].trait = t]
  /\ \/ Enqueue(<<Evt("Show", h)>>)
     \/ UNCHANGED queue
  /\ OnDesktop("change")
  /\ UNCHANGED <<front, held, handMoved, credit>>

Close(h) ==
  /\ h # held /\ Present(desk, h)
  /\ desk' = [desk EXCEPT ![h].trait = "Gone"]
  /\ front' = IF front = h THEN None ELSE front
  /\ Enqueue(<<Evt("Destroy", h)>>)
  /\ OnDesktop("close")
  /\ UNCHANGED <<held, handMoved, credit>>

(* The handle is given to a new window, behind the others. *)
Open(h, t) ==
  /\ ~ Present(desk, h) /\ t # "Gone" /\ desk[h].era < MaxEra
  /\ desk' = [desk EXCEPT ![h].trait = t, ![h].era = @ + 1]
  /\ Enqueue(<<Evt("Show", h)>>)
  /\ handMoved' = handMoved \ {h}
  /\ OnDesktop("open")
  /\ UNCHANGED <<front, held, credit>>

(* Pausing cancels the guard (the two steps of it are LayoutTransaction's). *)
Pause ==
  /\ enabled
  /\ enabled' = FALSE /\ permitted' = FALSE
  /\ Acts("pause")
  /\ UNCHANGED <<desk, front, held, queue, handMoved, credit>>

Resume ==
  /\ ~ enabled
  /\ enabled' = TRUE
  /\ Acts("pause")
  /\ UNCHANGED <<desk, front, held, queue, permitted, handMoved, credit>>

-----------------------------------------------------------------------------
(* process(): the batch begins                                             *)

Waits(dt) ==
  /\ calm' = Least(calm + dt, Quiet)
  /\ inbox' = <<>> /\ lost' = FALSE

(* coordinator_loop() has drained the queue; the periodic reconcile is due *)
(* (at most once in its interval) or not.  Dropped events are looked for   *)
(* only if there are others; the HookError that stands for them comes      *)
(* first and makes the provider forget every window.                       *)
BeginBatch(dt, timer) ==
  /\ pc = "idle" /\ enabled
  /\ IF timer THEN dt > 0 ELSE inbox # <<>>
  /\ pc' = "events"
  /\ batch' = [NoBatch EXCEPT !.events = inbox, !.full = timer \/ lost]
  /\ LET gone == IF lost THEN Hwnds ELSE {}
     IN  /\ retry' = ForgottenRetry(gone, IF dt >= retry.wait THEN 0 ELSE retry.wait - dt)
         /\ seen' = ForgottenSeen(gone)
  /\ Waits(dt)
  /\ UNCHANGED <<world, faults, modes, focus, pending, drag, startMonitor, permitted,
                 tokens, plan, notes>>

(* While paused every batch drops its events and everything queued.        *)
DisabledBatch(dt, timer) ==
  /\ pc = "idle" /\ ~ enabled
  /\ IF timer THEN dt > 0 ELSE inbox # <<>>
  /\ permitted' = FALSE
  /\ retry' = NoRetry
  /\ pending' = NoPending
  /\ suppressed' = None
  /\ drag' = NoDrag
  /\ Waits(dt)
  /\ UNCHANGED <<world, faults, modes, active, foreground, startMonitor, seen,
                 tokens, pc, batch, plan, notes>>

-----------------------------------------------------------------------------
(* process(): the events of the batch, one by one                          *)

(* EventCoalescer: of the location changes of a window the last one stays. *)
Superseded(e) ==
  e.type = "LocationChange" /\ \E i \in 2..Len(batch.events) : batch.events[i] = e

Handle(type) ==
  /\ pc = "events" /\ batch.events # <<>>
  /\ Head(batch.events).type = type /\ ~ Superseded(Head(batch.events))

Rest == [batch EXCEPT !.events = Tail(@)]
EndBatch == pc' = "idle" /\ batch' = NoBatch
Fails == faults < MaxFaults /\ faults' = faults + 1

Coalesced ==
  /\ pc = "events" /\ batch.events # <<>> /\ Superseded(Head(batch.events))
  /\ batch' = Rest
  /\ UNCHANGED <<outside, focus, work, drag, txn, tokens, pc, plan, notes>>

(* The work queued before the drag stays queued (mutant). *)
StartsDragKeepingWork(h) ==
  /\ calm' = 0
  /\ active' = h
  /\ seen' = {}
  /\ UNCHANGED <<retry, pending>>

(* What a move/size start does before its snapshot: it opens a transaction *)
(* and clears whatever was queued; moving a window that was already in the *)
(* foreground is a manual placement.                                       *)
StartsDrag(h) ==
  /\ retry' = NoRetry
  /\ pending' = NoPending
  /\ calm' = 0
  /\ active' = h
  /\ seen' = {}

DragSuppression(h, preceded) ==
  IF ~ preceded /\ foreground = h THEN h ELSE suppressed

Preceded(h) == batch.fg = h /\ batch.changed

MoveSizeStart ==
  LET h == Head(batch.events).hwnd
      kept == DragSuppression(h, Preceded(h))
  IN  /\ Handle("MoveSizeStart")
      /\ StartsDrag(h)
      /\ startMonitor' = IF Present(desk, h) THEN desk[h].monitor ELSE None
      /\ drag' = [hwnd |-> h, rect |-> IF Present(desk, h) THEN desk[h].rect ELSE None,
                  activated |-> Preceded(h), moved |-> FALSE]
      /\ suppressed' = IF Managed(desk, h) /\ h # kept THEN None ELSE kept
      /\ permitted' = TRUE
      /\ batch' = IF Preceded(h) /\ batch.suppress
                    THEN [Rest EXCEPT !.ended = None]
                    ELSE [Rest EXCEPT !.ended = None, !.fg = None, !.changed = FALSE,
                                      !.suppress = FALSE]
      /\ UNCHANGED <<outside, foreground, tokens, pc, plan, handMoved, credit>>

(* Without the snapshot the rest of the batch is dropped. *)
MoveSizeStartBlind ==
  LET h == Head(batch.events).hwnd
  IN  /\ Handle("MoveSizeStart") /\ Fails
      /\ StartsDrag(h)
      /\ drag' = [hwnd |-> h, rect |-> None, activated |-> Preceded(h), moved |-> FALSE]
      /\ suppressed' = DragSuppression(h, Preceded(h))
      /\ permitted' = FALSE
      /\ EndBatch
      /\ UNCHANGED <<world, queue, modes, foreground, startMonitor, tokens, plan,
                     handMoved, credit>>

Foreground ==
  LET e == Head(batch.events)
      h == e.hwnd
  IN  /\ Handle("Foreground")
      /\ foreground' = h
      /\ IF h # foreground
           THEN /\ retry' = NoRetry
                /\ calm' = 0
                /\ drag' = [drag EXCEPT !.activated = @ \/ drag.hwnd = h]
           ELSE UNCHANGED <<retry, calm, drag>>
      /\ batch' = [Rest EXCEPT !.fg = h, !.suppress = e.suppress,
                               !.changed = @ \/ h # foreground]
      /\ UNCHANGED <<outside, active, suppressed, pending, txn, tokens, pc, plan,
                     notes>>

MoveSizeEnd ==
  LET h == Head(batch.events).hwnd
  IN  /\ Handle("MoveSizeEnd")
      /\ batch' = IF drag.hwnd = h THEN [Rest EXCEPT !.ended = h] ELSE Rest
      /\ UNCHANGED <<outside, focus, work, drag, txn, tokens, pc, plan, notes>>

(* A location change is the echo of an own move if there is a token, and   *)
(* else the doing of the user or a program.                                *)
LocationChange ==
  LET h == Head(batch.events).hwnd
  IN  /\ Handle("LocationChange")
      /\ tokens' = tokens \ {h}
      /\ IF h \in tokens
           THEN UNCHANGED <<calm, drag>>
           ELSE /\ calm' = 0
                /\ drag' = [drag EXCEPT !.moved = @ \/ drag.hwnd = h]
      /\ batch' = Rest
      /\ UNCHANGED <<outside, focus, pending, retry, txn, pc, plan, notes>>

Show ==
  /\ Handle("Show")
  /\ calm' = 0
  /\ batch' = Rest
  /\ UNCHANGED <<outside, focus, pending, retry, drag, txn, tokens, pc, plan,
                 notes>>

Destroy ==
  LET h == Head(batch.events).hwnd
  IN  /\ Handle("Destroy")
      /\ calm' = 0
      /\ suppressed' = IF suppressed = h THEN None ELSE suppressed
      /\ retry' = ForgottenRetry({h}, retry.wait)
      /\ seen' = ForgottenSeen({h})
      /\ batch' = Rest
      /\ UNCHANGED <<outside, active, foreground, pending, drag, startMonitor, permitted,
                     tokens, pc, plan, notes>>

-----------------------------------------------------------------------------
(* process(): what the batch comes to                                      *)

Folded == pc = "events" /\ batch.events = <<>>

(* The return to a suppressed window lays it out (mutant). *)
SuppressesRightClicks == batch.fg # None /\ batch.suppress

(* A right click, or the return to the window whose layout is suppressed.  *)
Suppresses ==
  /\ batch.fg # None
  /\ batch.suppress \/ (batch.changed /\ batch.fg = suppressed)

(* A repeated foreground event is a switch too (mutant). *)
SwitchesOnEveryEvent ==
  /\ ~ Suppresses
  /\ batch.fg # None /\ batch.fg # drag.hwnd

(* A genuine switch supersedes a drag, except of the dragged window itself. *)
Switches ==
  /\ ~ Suppresses
  /\ batch.fg # None /\ batch.changed /\ batch.fg # drag.hwnd

EndsDrag ==
  /\ ~ Suppresses /\ ~ Switches
  /\ batch.ended # None /\ batch.ended = drag.hwnd

Reconciles == ~ Suppresses /\ ~ Switches /\ ~ EndsDrag /\ batch.full

Suppress ==
  /\ Folded /\ Suppresses
  /\ permitted' = FALSE
  /\ retry' = NoRetry
  /\ pending' = NoPending
  /\ drag' = NoDrag
  /\ active' = batch.fg
  /\ suppressed' = IF batch.suppress THEN batch.fg ELSE suppressed
  /\ EndBatch
  /\ UNCHANGED <<outside, foreground, calm, startMonitor, seen, tokens, plan,
                 notes>>

(* The switch opens a transaction and stays pending until it is settled.   *)
BeginSwitch ==
  /\ Folded /\ Switches
  /\ drag' = NoDrag
  /\ active' = batch.fg
  /\ pending' = [on |-> TRUE, place |-> PlaceActivated]
  /\ seen' = {}
  /\ permitted' = FALSE
  /\ pc' = "switch"
  /\ UNCHANGED <<outside, foreground, suppressed, retry, calm, startMonitor,
                 tokens, batch, plan, notes>>

(* The snapshot shows the window, and all the queries about it succeeded.  *)
WellSeen ==
  /\ batch.snap # NoSnap
  /\ batch.snap[active].trait \notin {"Gone", "Loading"}

(* Up to three captures, until one shows the window well.  A capture that  *)
(* fails replaces the snapshot of one that did not.                        *)
CaptureAgain ==
  /\ pc = "switch" /\ batch.tries < Attempts
  /\ ~ WellSeen
  /\ \/ /\ batch' = [batch EXCEPT !.tries = @ + 1, !.snap = desk]
        /\ UNCHANGED faults
     \/ /\ Fails
        /\ batch' = [batch EXCEPT !.tries = @ + 1, !.snap = NoSnap]
  /\ UNCHANGED <<world, queue, modes, focus, work, drag, txn, tokens, pc, plan,
                 notes>>

SwitchLost ==
  /\ pc = "switch" /\ batch.tries = Attempts /\ batch.snap = NoSnap
  /\ EndBatch
  /\ UNCHANGED <<outside, focus, work, drag, txn, tokens, plan, notes>>

SwitchSeen ==
  LET snap == batch.snap
      there == Present(snap, active)
  IN  /\ pc = "switch" /\ snap # NoSnap
      /\ WellSeen \/ batch.tries = Attempts
      /\ startMonitor' = IF there THEN snap[active].monitor ELSE None
      /\ suppressed' = IF Managed(snap, active) /\ active # suppressed THEN None
                                                                       ELSE suppressed
      /\ permitted' = TRUE
      /\ pc' = "settle"
      /\ batch' = [batch EXCEPT !.place = PlaceActivated, !.cause = "switch"]
      /\ UNCHANGED <<outside, active, foreground, work, drag, seen, tokens, plan,
                     handMoved, credit>>

(* The end of a manual placement leaves the desktop alone. *)
EndManualDrag ==
  /\ Folded /\ EndsDrag /\ suppressed = batch.ended
  /\ foreground' = batch.ended
  /\ drag' = NoDrag
  /\ permitted' = FALSE
  /\ EndBatch
  /\ UNCHANGED <<outside, active, suppressed, work, startMonitor, seen, tokens,
                 plan, notes>>

EndDrag ==
  /\ Folded /\ EndsDrag /\ suppressed # batch.ended
  /\ foreground' = batch.ended
  /\ drag' = NoDrag
  /\ pc' = "settle"
  /\ batch' = [batch EXCEPT !.place = drag.activated /\ ~ drag.moved /\ PlaceActivated,
                            !.rect = drag.rect, !.cause = "drag"]
  /\ UNCHANGED <<outside, active, suppressed, work, txn, tokens, plan, notes>>

(* Pending activations wait for the end of dry run (mutant). *)
SettlesPendingLive(snap) == ~ dryRun /\ pending.on /\ Managed(snap, active)

(* An activation still pending whose window has turned up. *)
SettlesPending(snap) == pending.on /\ Managed(snap, active)

(* A due repair does not wait for quiet (mutant). *)
RetryDueAtOnce ==
  /\ retry.hwnd # None /\ ~ dryRun /\ drag = NoDrag /\ suppressed = None
  /\ retry.wait = 0

(* A repair is due once its delay is over and the desktop has been quiet.  *)
RetryDue ==
  /\ retry.hwnd # None /\ ~ dryRun /\ drag = NoDrag /\ suppressed = None
  /\ retry.wait = 0 /\ calm = Quiet

RetryValid(snap) ==
  /\ retry.hwnd = active /\ Managed(snap, active)
  /\ snap[active].era = retry.era /\ snap[active].monitor = startMonitor

Stands(snap) == [batch EXCEPT !.snap = snap]

ReconcileFails ==
  /\ Folded /\ Reconciles /\ Fails
  /\ EndBatch
  /\ UNCHANGED <<world, queue, modes, focus, work, drag, txn, tokens, plan,
                 notes>>

ReconcilePending ==
  /\ Folded /\ Reconciles /\ SettlesPending(desk)
  /\ startMonitor' = desk[active].monitor
  /\ permitted' = TRUE
  /\ pc' = "settle"
  /\ batch' = [Stands(desk) EXCEPT !.place = pending.place, !.cause = "pending"]
  /\ UNCHANGED <<outside, focus, work, drag, seen, tokens, plan, handMoved,
                 credit>>

(* The due repair is a transaction of its own. *)
ReconcileRetry ==
  /\ Folded /\ Reconciles /\ ~ SettlesPending(desk)
  /\ RetryDue /\ RetryValid(desk)
  /\ seen' = {}
  /\ permitted' = TRUE
  /\ pc' = "settle"
  /\ batch' = [Stands(desk) EXCEPT !.cause = "retry"]
  /\ UNCHANGED <<outside, focus, work, drag, startMonitor, tokens, plan, notes>>

(* A due repair whose window has changed is kept (mutant). *)
KeptRetryAlways == retry

(* A due repair of a window that is gone, unmanaged, reused or elsewhere   *)
(* is dropped; the delay it had reached stays.                             *)
KeptRetry ==
  IF RetryDue /\ ~ RetryValid(desk) THEN [NoRetry EXCEPT !.delay = retry.delay] ELSE retry

ReconcilePlain ==
  /\ Folded /\ Reconciles /\ ~ SettlesPending(desk) /\ ~ (RetryDue /\ RetryValid(desk))
  /\ retry' = KeptRetry
  /\ KeptRetry.hwnd = None /\ ~ dryRun /\ drag = NoDrag /\ suppressed = None
  /\ permitted' = TRUE
  /\ pc' = "settle"
  /\ batch' = [Stands(desk) EXCEPT !.cause = "reconcile"]
  /\ UNCHANGED <<outside, focus, pending, calm, drag, startMonitor, seen, tokens,
                 plan, notes>>

ReconcileIdle ==
  /\ Folded /\ Reconciles /\ ~ SettlesPending(desk) /\ ~ (RetryDue /\ RetryValid(desk))
  /\ KeptRetry.hwnd # None \/ dryRun \/ drag # NoDrag \/ suppressed # None
  /\ retry' = KeptRetry
  /\ EndBatch
  /\ UNCHANGED <<outside, focus, pending, calm, drag, txn, tokens, plan, notes>>

NothingToDo ==
  /\ Folded /\ ~ Suppresses /\ ~ Switches /\ ~ EndsDrag /\ ~ batch.full
  /\ EndBatch
  /\ UNCHANGED <<outside, focus, work, drag, txn, tokens, plan, notes>>

-----------------------------------------------------------------------------
(* settle(): the end of every layout attempt                               *)

(* The delay doubles without a limit (mutant). *)
RequeuedUncapped(snap, progress) ==
  LET delay == IF progress THEN FirstDelay ELSE retry.delay
  IN  [hwnd |-> active, era |-> snap[active].era, wait |-> delay, delay |-> 2 * delay]

(* The delay does not double (mutant). *)
RequeuedSteadily(snap, progress) ==
  [hwnd |-> active, era |-> snap[active].era, wait |-> FirstDelay, delay |-> FirstDelay]

(* An unfinished layout is queued for repair under the window's key, after *)
(* a delay that doubles while the repairs achieve nothing.                 *)
Requeued(snap, progress) ==
  LET delay == IF progress THEN FirstDelay ELSE retry.delay
  IN  [hwnd |-> active, era |-> snap[active].era, wait |-> delay,
       delay |-> IF progress THEN FirstDelay ELSE Least(2 * delay, MaxDelay)]

Settled(unfinished, progress) ==
  /\ EndBatch
  /\ plan' = NoPlan
  /\ retry' = IF unfinished /\ ~ dryRun /\ suppressed = None /\ drag = NoDrag
                THEN Requeued(batch.snap, progress)
                ELSE NoRetry

(* The snapshot after a drag: a stale one leaves the intent pending. *)
SettleCapture ==
  /\ pc = "settle" /\ batch.snap = NoSnap
  /\ batch' = Stands(desk)
  /\ UNCHANGED <<outside, focus, work, drag, txn, tokens, pc, plan, notes>>

SettleStale ==
  /\ pc = "settle" /\ batch.snap = NoSnap /\ Fails
  /\ ~ dryRun /\ suppressed = None /\ drag = NoDrag
  /\ pending' = [on |-> TRUE, place |-> batch.place]
  /\ EndBatch
  /\ UNCHANGED <<world, queue, modes, focus, retry, calm, drag, txn, tokens, plan,
                 notes>>

SettleBlind ==
  /\ pc = "settle" /\ batch.snap = NoSnap /\ Fails
  /\ Settled(FALSE, FALSE)
  /\ UNCHANGED <<world, queue, modes, focus, pending, calm, drag, txn, tokens,
                 notes>>

(* The rectangle noted when the drag began must still be the window's.     *)
Places ==
  batch.place /\ (batch.rect = None \/ batch.snap[active].rect = batch.rect)

(* The guards of settle_impl() in their order.                             *)
Ready == pc = "settle" /\ batch.snap # NoSnap
Available == active # None /\ Managed(batch.snap, active)
InPlace == startMonitor # None /\ batch.snap[active].monitor = startMonitor
Alone == Cardinality(ManagedSet(batch.snap, active)) < 2 /\ ~ Places

SettleUnavailable ==
  /\ Ready /\ ~ Available
  /\ Settled(FALSE, FALSE)
  /\ UNCHANGED <<outside, focus, pending, calm, drag, txn, tokens, notes>>

SettleElsewhere ==
  /\ Ready /\ Available /\ (~ InPlace \/ Alone)
  /\ pending' = NoPending
  /\ Settled(FALSE, FALSE)
  /\ UNCHANGED <<outside, focus, calm, drag, txn, tokens, notes>>

(* What the solver may return: the active window stays, or goes home if it *)
(* is to be placed (and its placement fits); the others go anywhere.       *)
Layouts ==
  LET wins == ManagedSet(batch.snap, active)
      now == batch.snap[active].rect
  IN  {to \in [wins -> Rects] : to[active] \in (IF Places THEN {now, Home} ELSE {now})}

Observed == StateOf(batch.snap, LayoutOf(batch.snap, ManagedSet(batch.snap, active)))
Seen == IF seen = {} THEN {Observed} ELSE seen

(* The solver finds nothing to move, or a layout this transaction has      *)
(* already been in.                                                        *)
SettleUnchanged ==
  /\ Ready /\ Available /\ InPlace /\ ~ Alone
  /\ \E to \in Layouts :
       /\ StateOf(batch.snap, to) \in Seen \cup {Observed}
       /\ Settled(~ Readable(to), FALSE)
       /\ seen' \in {Seen, Seen \cup {StateOf(batch.snap, to)}}
  /\ pending' = NoPending
  /\ UNCHANGED <<outside, focus, calm, drag, startMonitor, permitted, tokens,
                 notes>>

SettleSolved ==
  /\ Ready /\ Available /\ InPlace /\ ~ Alone
  /\ \E to \in Layouts :
       /\ StateOf(batch.snap, to) \notin Seen \cup {Observed}
       /\ plan' = [wins |-> {w \in DOMAIN to : to[w] # batch.snap[w].rect}, to |-> to]
       /\ seen' = Seen \cup {StateOf(batch.snap, to)}
  /\ pending' = NoPending
  /\ pc' = "apply"
  /\ UNCHANGED <<outside, focus, retry, calm, drag, startMonitor, permitted,
                 tokens, batch, notes>>

-----------------------------------------------------------------------------
(* VerifiedMoveApplier::apply and the verification after it                *)

(* Which of the planned windows can still be moved: those the snapshot     *)
(* shows as they are.                                                      *)
Movable == {w \in plan.wins : desk[w] = batch.snap[w]}

(* Only the moves are looked at (mutant). *)
VerifiedMovesOnly(done) == done = plan.wins

(* The coordinator's own look at the outcome, at the windows it manages.   *)
Verified(done) ==
  /\ done = plan.wins
  /\ \A w \in DOMAIN plan.to :
       desk[w].era = batch.snap[w].era /\ desk[w].monitor = batch.snap[w].monitor
       /\ Present(desk, w) /\ (w \in done \/ desk[w].rect = batch.snap[w].rect)

ApplyDry ==
  /\ pc = "apply" /\ dryRun
  /\ Settled(FALSE, FALSE)
  /\ UNCHANGED <<outside, focus, pending, calm, drag, txn, tokens, notes>>

ApplyRefused ==
  /\ pc = "apply" /\ ~ dryRun /\ ~ permitted
  /\ Settled(TRUE, FALSE)
  /\ UNCHANGED <<outside, focus, pending, calm, drag, txn, tokens, notes>>

Echoes(done) == {[n \in 1..Cardinality(done) |-> Evt("LocationChange", f[n])] :
                   f \in {g \in [1..Cardinality(done) -> done] :
                            \A w \in done : \E n \in 1..Cardinality(done) : g[n] = w}}

(* The moves that land are reported as location changes like any other.    *)
(* The plan stops at the first window that has changed or, a fault,        *)
(* refuses; the active window comes first.  A verification that fails over *)
(* a complete plan (a changed Z order, a position off by a pixel) is a     *)
(* fault as well.                                                          *)
ApplyMoves(done, fine) ==
  /\ pc = "apply" /\ ~ dryRun /\ permitted
  /\ done \subseteq Movable
  /\ (active \in plan.wins /\ done # {}) => active \in done
  /\ fine => Verified(done)
  /\ IF (Movable = plan.wins /\ done # plan.wins) \/ (Verified(done) /\ ~ fine)
       THEN Fails
       ELSE UNCHANGED faults
  /\ desk' = [w \in Hwnds |-> IF w \in done THEN [desk[w] EXCEPT !.rect = plan.to[w]]
                                            ELSE desk[w]]
  /\ tokens' = tokens \cup done
  /\ \E es \in Echoes(done) : Enqueue(es)
  /\ credit' = IF active \in done THEN [credit EXCEPT ![active] = @ - 1] ELSE credit
  /\ Settled(~ fine \/ ~ Readable(plan.to), fine)
  /\ UNCHANGED <<front, held, actions, modes, focus, pending, calm, drag, txn,
                 handMoved>>

-----------------------------------------------------------------------------
(* The system                                                              *)

Init ==
  /\ desk \in Desks
  /\ front = None /\ held = None
  /\ inbox = <<>> /\ lost = FALSE
  /\ actions = 0 /\ faults = 0
  /\ enabled = TRUE /\ dryRun \in BOOLEAN
  /\ active = None /\ foreground = None /\ suppressed = None
  /\ pending = NoPending /\ retry = NoRetry /\ calm = Quiet
  /\ drag = NoDrag
  /\ startMonitor = None /\ seen = {} /\ permitted = FALSE
  /\ tokens = {}
  /\ pc = "idle" /\ batch = NoBatch /\ plan = NoPlan
  /\ handMoved = {} /\ credit = [h \in Hwnds |-> 0]

User ==
  \/ \E h \in Hwnds, right \in BOOLEAN : SwitchTo(h, right)
  \/ \E h \in Hwnds : Press(h)
  \/ \E r \in Rects, m \in Monitors : DragTo(r, m)
  \/ Release
  \/ Pause
  \/ Resume

Programs ==
  \/ \E h \in Hwnds, r \in Rects : Shove(h, r)
  \/ \E h \in Hwnds, t \in Traits : Change(h, t) \/ Open(h, t)
  \/ \E h \in Hwnds : Close(h)

HandleEvent ==
  \/ Coalesced
  \/ MoveSizeStart
  \/ MoveSizeStartBlind
  \/ Foreground
  \/ MoveSizeEnd
  \/ LocationChange
  \/ Show
  \/ Destroy

Decide ==
  \/ Suppress
  \/ BeginSwitch
  \/ CaptureAgain
  \/ SwitchLost
  \/ SwitchSeen
  \/ EndManualDrag
  \/ EndDrag
  \/ ReconcileFails
  \/ ReconcilePending
  \/ ReconcileRetry
  \/ ReconcilePlain
  \/ ReconcileIdle
  \/ NothingToDo

Settle ==
  \/ SettleCapture
  \/ SettleStale
  \/ SettleBlind
  \/ SettleUnavailable
  \/ SettleElsewhere
  \/ SettleUnchanged
  \/ SettleSolved

Apply ==
  \/ ApplyDry
  \/ ApplyRefused
  \/ \E done \in SUBSET plan.wins, fine \in BOOLEAN : ApplyMoves(done, fine)

Thread ==
  \/ \E dt \in Steps, timer \in BOOLEAN : BeginBatch(dt, timer) \/ DisabledBatch(dt, timer)
  \/ HandleEvent
  \/ Decide
  \/ Settle
  \/ Apply

Next == User \/ Programs \/ Thread

Spec == Init /\ [][Next]_vars

(* The coordinator thread keeps running: its loop waits at most 50 ms for  *)
(* an event and the reconcile timer never stops.  The user and the other   *)
(* programs owe nothing.                                                   *)
FairSpec == Spec /\ WF_vars(Thread)

-----------------------------------------------------------------------------
(* Properties                                                              *)

(* The state between and during batches: the locals of process() exist     *)
(* only inside it, the plan only while it is applied.                      *)
TypeOK ==
  /\ desk \in Desk
  /\ front \in Hwnds \cup {None} /\ held \in Hwnds \cup {None}
  /\ inbox \in Seq(EventRecord) /\ Len(inbox) <= Capacity /\ lost \in BOOLEAN
  /\ actions \in 0..MaxActions /\ faults \in 0..MaxFaults
  /\ enabled \in BOOLEAN /\ dryRun \in BOOLEAN
  /\ {active, foreground, suppressed} \subseteq Hwnds \cup {None}
  /\ pending \in [on : BOOLEAN, place : BOOLEAN]
  /\ retry \in [hwnd : Hwnds \cup {None}, era : 0..Unknown, wait : 0..MaxDelay,
                 delay : FirstDelay..MaxDelay]
  /\ calm \in 0..Quiet
  /\ drag \in [hwnd : Hwnds \cup {None}, rect : Rects \cup {None}, activated : BOOLEAN,
                moved : BOOLEAN]
  /\ startMonitor \in Monitors \cup {None} /\ permitted \in BOOLEAN
  /\ tokens \subseteq Hwnds
  /\ pc \in Stages
  /\ batch \in [events : Seq(EventRecord), full : BOOLEAN, fg : Hwnds \cup {None},
                 changed : BOOLEAN, suppress : BOOLEAN, ended : Hwnds \cup {None},
                 tries : 0..Attempts, snap : Desk \cup {NoSnap}, place : BOOLEAN,
                 rect : Rects \cup {None}, cause : Causes]
  /\ pc = "idle" => batch = NoBatch
  /\ pc # "apply" => plan = NoPlan
  /\ pc = "apply" =>
       /\ batch.snap # NoSnap /\ active \in DOMAIN plan.to
       /\ \E ws \in SUBSET Hwnds : plan.to \in [ws -> Rects]
       /\ plan.wins = {w \in DOMAIN plan.to : plan.to[w] # batch.snap[w].rect}

(* Work queued for later never meets the user's own: a repair waits only   *)
(* for the active window, while none is being dragged and no manual        *)
(* placement stands, an activation only while no window is being dragged,  *)
(* and never both wait (process(), where each kind of event has to clear   *)
(* what the others left).                                                  *)
QueuedWorkYields ==
  /\ retry.hwnd # None =>
       retry.hwnd = active /\ drag = NoDrag /\ suppressed = None /\ ~ pending.on
  /\ pending.on => drag = NoDrag

(* No layout is computed or applied while a window is being dragged, nor   *)
(* around the window whose manual placement or right click suppressed it   *)
(* (README: a window that is already active is not placed again).          *)
UserComesFirst ==
  pc \in {"settle", "apply"} => drag = NoDrag /\ (active = None \/ active # suppressed)

(* No unfinished layout is forgotten: when the applier returns, whatever   *)
(* stopped it or moved a window behind its back, the windows of the plan   *)
(* stand on the desktop with readable title bars, or a repair around the   *)
(* active window is queued (settle_impl()'s verification and settle()).    *)
UnfinishedIsQueued ==
  [][pc = "apply" /\ pc' = "idle" /\ ~ dryRun /\ suppressed = None
       => \/ retry'.hwnd = active
          \/ Readable([w \in DOMAIN plan.to |-> desk'[w].rect])]_vars

(* While a repair of a window that is still there is queued, no reconcile  *)
(* solves again before the delay is over and the desktop has been quiet    *)
(* (SOFTWARE_DESIGN: an ordinary reconcile must not get around the gates). *)
RepairWaitsItsTurn ==
  [][pc = "events" /\ pc' = "settle" /\ retry.hwnd # None
       => retry.wait = 0 /\ calm = Quiet]_vars

(* Every placement of an activated window answers an activation of its own *)
(* (a window that is already active is not placed again), through lost and *)
(* repeated events, pending activations and repairs.                       *)
PlacementsAnswerActivations == \A h \in Hwnds : credit[h] >= 0

(* A repair that achieved nothing is not repeated sooner than the one      *)
(* before it, up to the longest delay.                                     *)
RepairsBackOff ==
  [][batch.cause = "retry" /\ pc' = "idle" /\ retry'.hwnd # None /\ desk' = desk
       => retry'.wait = retry.delay /\ retry'.delay = Least(2 * retry.delay, MaxDelay)]_vars

(* An activation that found its window missing or still loading is not     *)
(* lost: while automation is on, it is laid out once the window is         *)
(* managed, unless something supersedes it.                                *)
PendingIsSettled ==
  (enabled /\ pending.on /\ active # None /\ Managed(desk, active))
    ~> (~ enabled \/ ~ pending.on \/ ~ Managed(desk, active))

(* A queued repair is tried or cancelled; nothing can put it off forever.  *)
RepairIsTried ==
  (enabled /\ retry.hwnd # None)
    ~> (~ enabled \/ retry.hwnd = None \/ batch.cause = "retry")

-----------------------------------------------------------------------------
(* What the documentation says and the code does not do                    *)

(* A manual placement stands only until another managed window is normally *)
(* activated (README): a layout applied around another window ends it.     *)
LayoutEndsSuppression == pc = "apply" => suppressed = None

DragHandled == batch.cause = "drag" /\ held # active /\ inbox = <<>>

(* The final position of a window the user dragged takes precedence over   *)
(* automatic placement (README): the layout at the end of a drag, all of   *)
(* whose events the coordinator has had, does not move the window the user *)
(* has moved.                                                              *)
DraggedWindowStays ==
  [][pc = "apply" /\ pc' = "idle" /\ DragHandled /\ active \in handMoved
       => desk'[active].rect = desk[active].rect]_vars
=============================================================================
