---------------------------- MODULE EventPipeline ----------------------------
(***************************************************************************)
(* How what happens on the desktop becomes batches for the coordinator:    *)
(* the callbacks of the hook thread (WinEventHook), which accept, mark and *)
(* number events; the queue between the threads (EventQueue); and the loop *)
(* of the coordinator thread, which gathers what has arrived, adds a       *)
(* periodic reconcile and the news of lost events, and coalesces.          *)
(*                                                                         *)
(* The identities of windows are kept here too, since the events end them. *)
(*                                                                         *)
(* Time is counted down: the age of the right click and the time left to   *)
(* the next reconcile.  Abstracted: MoveSizeEnd, Show and Hide travel the  *)
(* way MoveSizeStart or Destroy do, as does the Destroy of a child window, *)
(* which ends nothing; what else the coordinator does with a batch is      *)
(* Coordinator's.                                                          *)
(***************************************************************************)
EXTENDS Integers, FiniteSets, Sequences, SequencesExt, WindowIdentity

CONSTANTS
  Hwnds,        (* handles of root windows                                  *)
  OneProcess,   (* those that are given to windows of one process only       *)
  Capacity,     (* events the queue holds                                   *)
  Interval,     (* time between two reconciles                              *)
  MaximumDelay, (* age to which a right click explains an activation        *)
  MaxNotices,   (* bound: notifications accepted                            *)
  MaxPosted,    (* bound: notifications on their way                        *)
  MaxExtras,    (* bound: clicks, lost windows, changes of displays, a stop  *)
  MaxPolls      (* bound: reconciles counted, later ones have the last number  *)

ASSUME ConstantsAssumption ==
  /\ Hwnds \subseteq Nat \ {0} /\ IsFiniteSet(Hwnds) /\ OneProcess \subseteq Hwnds
  /\ Capacity \in Nat \ {0} /\ Interval \in Nat \ {0} /\ MaximumDelay \in Nat
  /\ MaxNotices \in Nat /\ MaxPosted \in Nat /\ MaxExtras \in Nat
  /\ MaxPolls \in Nat

WindowKinds == {"MoveSizeStart", "Foreground", "LocationChange", "Destroy"}
ObjectKinds == {"LocationChange", "Destroy"}

VARIABLES
  nth,       (* handle by handle: 2n - 1 while its nth window exists, 2n when *)
             (* that is gone                                                 *)
  held,      (* the right button is down                                    *)
  clicked,   (* the window it went down on, until the system activates it   *)
  posted,    (* notifications on their way to the hook thread               *)
  clicks, changes,  (* so far                                               *)
  tracker,   (* RightClickActivationTracker: its root and the time since    *)
  sequence,  (* sequence_ of the hook                                       *)
  queue,     (* EventQueue                                                  *)
  unseen,    (* dropped_count_ - observed_drops: all that is asked of either *)
  stop,      (* coordinator_stop_, set just before the queue is closed       *)
  loop,      (* the coordinator thread: where it is and what it has gathered *)
  untilDue,  (* time to next_due_ms_ of the reconcile scheduler             *)
  polls,     (* its sequence_                                               *)
  batch,     (* the batch the coordinator is working on                     *)
  entries,   (* entries_ of the identity tracker                            *)
  unread     (* history: entries whose end the coordinator threw away unread *)

(* The windows that exist. *)
alive == {w \in Hwnds : nth[w] % 2 = 1}

desktopVars == <<nth, held, clicked, posted, clicks, changes>>
queueVars == <<queue, unseen>>
identityVars == <<entries, unread>>
loopVars == <<stop, loop, untilDue, polls, batch, identityVars>>
vars == <<desktopVars, tracker, sequence, queueVars, loopVars>>

(* own: the notification is about the root window itself, not a part of it. *)
(* cause is history: a right click of the user made the system activate the *)
(* window ("stale" once that is too long ago, or another click followed),  *)
(* or something else did.                                                  *)
Causes == {"right", "stale", "plain"}
Notice == [kind : WindowKinds, hwnd : Hwnds, own : BOOLEAN, cause : Causes]
Event == [kind : WindowKinds \cup {"Reconcile", "HookError"}, hwnd : Hwnds \cup {0},
          sequence : Nat, suppressLayout : BOOLEAN]

Synthetic(kind, number) ==
  [kind |-> kind, hwnd |-> 0, sequence |-> number, suppressLayout |-> FALSE]

TypeOK ==
  /\ nth \in [Hwnds -> 1 .. 3] /\ held \in BOOLEAN /\ clicked \in Hwnds \cup {0}
  /\ posted \in Seq(Notice) /\ Len(posted) <= MaxPosted
  /\ clicks \in 0 .. MaxExtras
  /\ changes \in 0 .. MaxExtras
  /\ tracker \in [root : Hwnds \cup {0}, age : 0 .. MaximumDelay + 1]
  /\ sequence \in 0 .. MaxNotices
  /\ queue \in Seq(Event) /\ Len(queue) <= Capacity
  /\ unseen \in Nat
  /\ stop \in BOOLEAN
  /\ loop \in [at : {"wait", "gather", "report", "process", "done"},
               events : Seq(Event)]
  /\ untilDue \in 0 .. Interval /\ polls \in 0 .. MaxPolls
  /\ batch \in Seq(Event)
  /\ entries \in [Hwnds -> {0, 1, 3}] /\ unread \subseteq Hwnds

Init ==
  /\ nth = [w \in Hwnds |-> 1] /\ held = FALSE /\ clicked = 0 /\ posted = <<>>
  /\ clicks = 0 /\ changes = 0
  /\ tracker = [root |-> 0, age |-> 0] /\ sequence = 0
  /\ queue = <<>> /\ unseen = 0
  /\ stop = FALSE /\ loop = [at |-> "wait", events |-> <<>>]
  /\ untilDue = Interval /\ polls = 0 /\ batch = <<>>
  /\ entries = [w \in Hwnds |-> 0] /\ unread = {}

-----------------------------------------------------------------------------
(* The desktop *)

Post(kind, w, own, cause) ==
  /\ Len(posted) < MaxPosted /\ sequence + Len(posted) < MaxNotices
  /\ posted' = Append(posted, [kind |-> kind, hwnd |-> w, own |-> own, cause |-> cause])

Extras ==
  clicks + changes + Cardinality({w \in Hwnds : nth[w] > 1}) + (IF stop THEN 1 ELSE 0)

(* Something other than the right button activates a window. *)
Activate == \E w \in alive :
  /\ Post("Foreground", w, TRUE, "plain")
  /\ UNCHANGED <<nth, held, clicked, clicks, changes, tracker, sequence, queueVars, loopVars>>

(* A right click does; some frameworks are late to say so. *)
RightActivate == \E w \in alive \cap {clicked} :
  /\ held \/ tracker.age <= MaximumDelay
  /\ Post("Foreground", w, TRUE, "right")
  /\ clicked' = 0
  /\ UNCHANGED <<nth, held, clicks, changes, tracker, sequence, queueVars, loopVars>>

(* The user takes hold of a window. *)
StartDrag == \E w \in alive :
  /\ Post("MoveSizeStart", w, TRUE, "plain")
  /\ UNCHANGED <<nth, held, clicked, clicks, changes, tracker, sequence, queueVars, loopVars>>

(* A window, or something in it, moves. *)
Move == \E w \in alive, own \in BOOLEAN :
  /\ Post("LocationChange", w, own, "plain")
  /\ UNCHANGED <<nth, held, clicked, clicks, changes, tracker, sequence, queueVars, loopVars>>

DestroyWindow == \E w \in alive :
  /\ nth[w] = 1 /\ Extras < MaxExtras
  /\ Post("Destroy", w, TRUE, "plain")
  /\ nth' = [nth EXCEPT ![w] = 2]
  /\ clicked' = IF clicked = w THEN 0 ELSE clicked
  /\ UNCHANGED <<held, clicks, changes, tracker, sequence, queueVars, loopVars>>

(* The handle of a window that is gone is given to another one. *)
ReuseHandle == \E w \in Hwnds \ alive :
  /\ nth' = [nth EXCEPT ![w] = 3]
  /\ UNCHANGED <<held, clicked, posted, clicks, changes, tracker, sequence, queueVars, loopVars>>

(* Activations by an earlier click are no longer expected to be recognised. *)
Forgotten(notice) ==
  IF notice.cause = "right" THEN [notice EXCEPT !.cause = "stale"] ELSE notice
ForgetClicks == posted' = [i \in DOMAIN posted |-> Forgotten(posted[i])]

ClickAges == tracker.root # 0 /\ tracker.age <= MaximumDelay

Tick ==
  /\ untilDue > 0 \/ ClickAges
  /\ untilDue' = IF untilDue > 0 THEN untilDue - 1 ELSE 0
  /\ tracker' = IF ClickAges THEN [tracker EXCEPT !.age = @ + 1] ELSE tracker
  /\ IF ~ held /\ tracker.age >= MaximumDelay THEN ForgetClicks ELSE UNCHANGED posted
  /\ UNCHANGED <<nth, held, clicked, clicks, changes, sequence, queueVars,
                 stop, loop, polls, batch, identityVars>>

-----------------------------------------------------------------------------
(* The hook thread *)

(* The low-level mouse hook runs before the press reaches any window; the  *)
(* pointer may be over no window.                                          *)
ButtonDown == \E w \in alive \cup {0} :
  /\ ~ held /\ Extras < MaxExtras
  /\ clicks' = clicks + 1 /\ held' = TRUE /\ clicked' = w
  /\ tracker' = [root |-> w, age |-> 0]
  /\ ForgetClicks
  /\ UNCHANGED <<nth, changes, sequence, queueVars, loopVars>>

(* The release does not renew the click (mutant).                          *)
ButtonUpKeepsTime ==
  /\ held /\ held' = FALSE
  /\ UNCHANGED <<nth, clicked, posted, clicks, changes, tracker, sequence, queueVars, loopVars>>

ButtonUp ==
  /\ held /\ held' = FALSE
  /\ tracker' = IF tracker.root # 0 THEN [tracker EXCEPT !.age = 0] ELSE tracker
  /\ UNCHANGED <<nth, clicked, posted, clicks, changes, sequence, queueVars, loopVars>>

(* The push ignores the capacity (mutant).                                 *)
TryPushUnbounded(e) ==
  IF stop THEN unseen' = unseen + 1 /\ UNCHANGED queue
  ELSE queue' = Append(queue, e) /\ UNCHANGED unseen

(* EventQueue::try_push *)
TryPush(e) ==
  IF stop \/ Len(queue) >= Capacity
  THEN unseen' = unseen + 1 /\ UNCHANGED queue
  ELSE queue' = Append(queue, e) /\ UNCHANGED unseen

(* Parts of windows are filtered out, and windows that are gone by the time *)
(* the callback runs.                                                      *)
IsAccepted(notice) ==
  /\ notice.kind \in ObjectKinds => notice.own
  /\ notice.kind = "Destroy" \/ notice.hwnd \in alive

Suppressed(notice) ==
  /\ notice.kind = "Foreground"
  /\ \/ held
     \/ tracker.root = notice.hwnd /\ tracker.age <= MaximumDelay

EventProc ==
  /\ posted # <<>> /\ posted' = Tail(posted)
  /\ LET notice == Head(posted) IN
       IF IsAccepted(notice)
       THEN /\ sequence' = sequence + 1
            /\ TryPush([kind |-> notice.kind, hwnd |-> notice.hwnd, sequence |-> sequence',
                        suppressLayout |-> Suppressed(notice)])
       ELSE UNCHANGED <<sequence, queueVars>>
  /\ UNCHANGED <<nth, held, clicked, clicks, changes, tracker, loopVars>>

-----------------------------------------------------------------------------
(* The message thread *)

MarkEnvironmentChanged ==
  /\ Extras < MaxExtras /\ ~ stop
  /\ changes' = changes + 1
  /\ TryPush(Synthetic("Reconcile", changes'))
  /\ UNCHANGED <<nth, held, clicked, posted, clicks, tracker, sequence, loopVars>>

(* stop_window_manager sets the flag and closes the queue.                  *)
Stop ==
  /\ Extras < MaxExtras /\ ~ stop
  /\ stop' = TRUE
  /\ UNCHANGED <<desktopVars, tracker, sequence, queueVars, loop, untilDue, polls, batch, identityVars>>

-----------------------------------------------------------------------------
(* The coordinator thread *)

Goto(at, events) == loop' = [at |-> at, events |-> events]

(* while (!coordinator_stop_.load()) *)
StartOver == Goto(IF stop THEN "done" ELSE "wait", <<>>)

(* wait_pop returns an event, or nothing after 50 ms or when it is closed.  *)
WaitPop ==
  /\ loop.at = "wait"
  /\ IF queue = <<>> THEN Goto("gather", <<>>) /\ UNCHANGED queue
     ELSE Goto("gather", <<Head(queue)>>) /\ queue' = Tail(queue)
  /\ UNCHANGED <<desktopVars, tracker, sequence, unseen, stop, untilDue, polls, batch, identityVars>>

Poll ==
  /\ polls' = IF polls < MaxPolls THEN polls + 1 ELSE polls
  /\ untilDue' = Interval

(* The loop starts over before it looks at the scheduler (mutant).         *)
GatherEarlyContinue ==
  /\ loop.at = "gather"
  /\ queue' = <<>>
  /\ LET arrived == loop.events \o queue IN
       IF arrived # <<>> /\ untilDue = 0
       THEN Poll /\ Goto("report", Append(arrived, Synthetic("Reconcile", polls + 1)))
       ELSE /\ IF arrived = <<>> THEN StartOver ELSE Goto("report", arrived)
            /\ UNCHANGED <<untilDue, polls>>
  /\ UNCHANGED <<desktopVars, tracker, sequence, unseen, stop, batch, identityVars>>

(* After the coalescing delay everything that has arrived is taken, and a  *)
(* reconcile is added when it is time; with nothing at hand the loop starts *)
(* over.                                                                   *)
Gather ==
  /\ loop.at = "gather"
  /\ queue' = <<>>
  /\ LET arrived == loop.events \o queue IN
       IF untilDue = 0
       THEN Poll /\ Goto("report", Append(arrived, Synthetic("Reconcile", polls + 1)))
       ELSE /\ IF arrived = <<>> THEN StartOver ELSE Goto("report", arrived)
            /\ UNCHANGED <<untilDue, polls>>
  /\ UNCHANGED <<desktopVars, tracker, sequence, unseen, stop, batch, identityVars>>

(* Locations are coalesced across other events of the window: the first    *)
(* place in the batch is kept (mutant).                                    *)
CoalesceInPlace(events) ==
  LET Repeated(i) == \E j \in DOMAIN events :
        /\ j < i /\ events[i].kind = "LocationChange" /\ events[j].kind = "LocationChange"
        /\ events[j].hwnd = events[i].hwnd
      order == SetToSortSeq({i \in DOMAIN events : ~ Repeated(i)}, <)
  IN [k \in DOMAIN order |-> events[order[k]]]

(* EventCoalescer::coalesce *)
KindOrder == [MoveSizeStart |-> 0, Foreground |-> 2, LocationChange |-> 3, Destroy |-> 6, Reconcile |-> 7,
              HookError |-> 8]
Before(d, e) ==
  \/ d.sequence < e.sequence
  \/ d.sequence = e.sequence /\ d.hwnd < e.hwnd
  \/ d.sequence = e.sequence /\ d.hwnd = e.hwnd /\ KindOrder[d.kind] < KindOrder[e.kind]

Superseded(events, i) == \E j \in DOMAIN events :
  /\ j > i /\ events[i].kind = "LocationChange" /\ events[j].kind = "LocationChange"
  /\ events[j].hwnd = events[i].hwnd

Kept(events) == {i \in DOMAIN events : ~ Superseded(events, i)}

(* The sort is stable. *)
Earlier(events, i, j) ==
  \/ Before(events[i], events[j])
  \/ ~ Before(events[j], events[i]) /\ i < j

(* How many of the events kept are placed before the ith. *)
Rank(events, i) == Cardinality({j \in Kept(events) : Earlier(events, j, i)})

Coalesce(events) ==
  [k \in 1 .. Cardinality(Kept(events)) |->
     events[CHOOSE i \in Kept(events) : Rank(events, i) = k - 1]]

(* observed_drops is not brought up to date (mutant).                      *)
ProcessForgetsObserved ==
  /\ loop.at = "report" /\ Goto("process", <<>>)
  /\ batch' = Coalesce(IF unseen > 0
                       THEN Append(loop.events, Synthetic("HookError", 0))
                       ELSE loop.events)
  /\ UNCHANGED <<desktopVars, tracker, sequence, queueVars, stop, untilDue, polls, identityVars>>

(* Losses are counted and not reported (mutant).                           *)
ProcessSilently ==
  /\ loop.at = "report" /\ Goto("process", <<>>)
  /\ unseen' = 0
  /\ batch' = Coalesce(loop.events)
  /\ UNCHANGED <<desktopVars, tracker, sequence, queue, stop, untilDue, polls, identityVars>>

(* Losses are looked up last, and reported with the batch. *)
Process ==
  /\ loop.at = "report" /\ Goto("process", <<>>)
  /\ unseen' = 0
  /\ batch' = Coalesce(IF unseen > 0
                       THEN Append(loop.events, Synthetic("HookError", 0))
                       ELSE loop.events)
  /\ UNCHANGED <<desktopVars, tracker, sequence, queue, stop, untilDue, polls, identityVars>>

EndIsIn(events, w) == \E i \in DOMAIN events : Ends(events[i], w)

DragStarts(events) == {i \in DOMAIN events : events[i].kind = "MoveSizeStart"}

(* MvpCoordinator::process as far as identities go.  Its loop tells the    *)
(* provider of every event and looks at the desktop where a drag starts.   *)
(* The entry of a window is what the last look after its last end has left. *)
Shown(known) == AfterSnapshot(known, alive, nth, OneProcess)
AfterLoop(events, looks) ==
  LET known == AfterEvents(entries, events)
      LookedSince(w) ==
        \E n \in looks : \A i \in DOMAIN events : Ends(events[i], w) => i < n
  IN [w \in Hwnds |-> IF LookedSince(w) THEN Shown(known)[w] ELSE known[w]]

(* process() returns and has not read the events missed. *)
Returns(known, missed) ==
  /\ loop.at = "process" /\ StartOver
  /\ entries' = known
  /\ unread' = {w \in Hwnds : known[w] # 0 /\ (w \in unread \/ EndIsIn(missed, w))}
  /\ batch' = <<>>
  /\ UNCHANGED <<desktopVars, tracker, sequence, queueVars, stop, untilDue, polls>>

(* While automation is paused it returns before the first event. *)
PausedBatch == Returns(entries, batch)

(* The look at the desktop as a drag starts fails: the events after the    *)
(* start are thrown away.                                                  *)
AbandonedBatch == \E n \in DragStarts(batch) :
  LET read == SubSeq(batch, 1, n) IN
    Returns(AfterLoop(read, DragStarts(read) \ {n}), SubSeq(batch, n + 1, Len(batch)))

(* All events are read; the look at the desktop that follows may fail or   *)
(* not be necessary.                                                       *)
WholeBatch == \E captured \in BOOLEAN :
  LET known == AfterLoop(batch, DragStarts(batch)) IN
    Returns(IF captured THEN Shown(known) ELSE known, <<>>)

FinishBatch == PausedBatch \/ AbandonedBatch \/ WholeBatch

CoordinatorLoop == WaitPop \/ Gather \/ Process \/ FinishBatch

(* The threads have ended. *)
Ended == loop.at = "done" /\ posted = <<>> /\ UNCHANGED vars

Next ==
  \/ Activate \/ RightActivate \/ StartDrag \/ Move \/ DestroyWindow \/ ReuseHandle \/ Tick
  \/ ButtonDown \/ ButtonUp \/ EventProc
  \/ MarkEnvironmentChanged \/ Stop
  \/ CoordinatorLoop \/ Ended

Spec == Init /\ [][Next]_vars

(* The scheduler runs the coordinator thread.  Nothing makes anyone else    *)
(* act.                                                                    *)
FairSpec == Spec /\ WF_vars(CoordinatorLoop)

-----------------------------------------------------------------------------
(* Correctness *)

(* While an unreported loss exists the loop cannot go to sleep over it: the *)
(* counter is read only after a batch was found not to be empty            *)
(* (app_lifecycle.cpp:571-579), so a loss must always come with an event   *)
(* still to be reported.                                                   *)
LossHasCompany ==
  unseen > 0 => stop \/ queue # <<>> \/ loop.events # <<>>

(* A batch tells what happened in the order it happened, each event once,  *)
(* although it is sorted by numbers from three independent counters; no    *)
(* loss stays unreported.                                                  *)
Contract == INSTANCE EventContract WITH
  backlog <- loop.events \o queue,
  owed <- unseen > 0,
  report <- batch
ImplementsContract == Contract!Spec

(* An activation that a right click of the user caused is marked, whether   *)
(* it is announced while the button is down or late, and after a press of   *)
(* any length.  Once the button is up no activation is marked but those of *)
(* the window that was clicked, until too long after the release; while it *)
(* is down the code marks whatever is activated.                           *)
MarksFollowClicks ==
  [][EventProc /\ Len(queue') > Len(queue) /\ Head(posted).kind = "Foreground" =>
       LET notice == Head(posted)
           marked == Last(queue').suppressLayout
       IN /\ notice.cause = "right" => marked
          /\ marked /\ ~ held =>
               notice.hwnd = tracker.root /\ tracker.age <= MaximumDelay /\ clicks > 0]_vars

(* Lost events are made good by a look at the whole desktop, unless the     *)
(* manager is stopped.                                                      *)
LossesAreReported == unseen > 0 ~> Contract!Carries(batch, "HookError") \/ stop

(* Periodic reconciles do not starve, whatever arrives meanwhile.           *)
ReconcileRecurs == untilDue = 0 ~> Contract!Carries(batch, "Reconcile") \/ stop

(* A window is not known by the key of an earlier one of its handle, whose  *)
(* moves, failures and places would be taken for its own, except while the  *)
(* end of the earlier one is on its way, lost but not yet reported, or      *)
(* after the coordinator threw it away unread: in a pause, or with the     *)
(* rest of a batch in which a drag starts that it has no snapshot for.     *)
KeysTellWindowsApart ==
  \A w \in alive : entries[w] \notin {0, nth[w]} =>
    \/ w \in unread
    \/ unseen > 0
    \/ EndIsIn(posted \o loop.events \o queue \o batch, w)
============================================================================
