-------------------------- MODULE LayoutTransaction --------------------------
(***************************************************************************)
(* One layout transaction from the batch that opens it to the last window  *)
(* that is moved, with the threads that race with it:                      *)
(*                                                                         *)
(*   - the coordinator thread: coordinator_loop, the activation discipline *)
(*     of MvpCoordinator::process, and VerifiedMoveApplier::apply step by  *)
(*     step, split where it reads or writes something another thread or    *)
(*     another program can change (the guard, the desktop);                *)
(*   - the UI thread: pausing (tray entry or Ctrl+Alt+F12), resuming, and  *)
(*     changing a setting, which stops and rebuilds the whole pipeline;    *)
(*   - the desktop: the user and other programs move, restyle, close and   *)
(*     open windows at any time, between any two steps.                    *)
(*                                                                         *)
(* What the transaction wants to move is any plan the solver could return  *)
(* for the desktop it was given; MvpCoordinator's reasons for planning are *)
(* the business of the Coordinator module.  Rectangles are members of      *)
(* Places: two rectangles within the position tolerance are the same place.*)
(* Sizes never change (SWP_NOSIZE), so a place is a position.              *)
(***************************************************************************)
EXTENDS MoveTransaction, Sequences

CONSTANTS
  Hwnds,           (* window handles                                        *)
  Places,          (* where a window can be                                 *)
  Unreadable,      (* the place of a window whose geometry query failed     *)
  Traits,          (* style, monitor, visibility and topmost state, as one  *)
  StopOnFailure,   (* MoveApplyOptions::stopOnFailure                       *)
  MaxStamp,        (* bound: transactions opened by one coordinator         *)
  MaxOwner,        (* bound: processes that own one handle in turn          *)
  MaxEra,          (* bound: times the identity of a handle is forgotten    *)
  MaxDisturbances, (* bound: changes the desktop makes behind the program   *)
  MaxPlan          (* bound: moves in one plan                              *)

ASSUME ConstantsAssumption ==
  /\ Unreadable \notin Places
  /\ StopOnFailure \in BOOLEAN
  /\ MaxStamp \in Nat /\ MaxOwner \in Nat \ {0} /\ MaxEra \in Nat
  /\ MaxDisturbances \in Nat /\ MaxPlan \in Nat

VARIABLES
  desktop,       (* the real windows: owner, alive, place, trait by handle    *)
  disturbances,  (* how often the desktop changed behind the program          *)
  enabled,       (* AppLifecycle::enabled_                                    *)
  dryRun,        (* AppLifecycle::dry_run_                                    *)
  ui,            (* what the UI thread is in the middle of                    *)
  pc,            (* where the coordinator thread is                           *)
  era,           (* how often WindowIdentityTracker forgot each handle         *)
  stamp,         (* next_transaction_id_ (and layout_generation_)             *)
  guard,         (* the MoveTransactionGuard                                  *)
  failures,      (* the MoveFailureTracker                                    *)
  tokens,        (* handles with an active InternalMoveToken                  *)
  plan,          (* the moves handed to apply()                               *)
  index,         (* the move apply() is at (failedMoveIndex)                  *)
  snapshot,      (* the snapshot apply() compares with                        *)
  invariants,    (* the trait each moved window had before its first move     *)
  applied,       (* indexes of verified moves (appliedMoves)                  *)
  failed,        (* indexes of refused moves (failedMoves)                    *)
  result,        (* what apply() last returned                                *)
  (* History: read by properties only. *)
  overrun,       (* native moves issued since the guard was last cancelled    *)
  touched,       (* indexes of this call's plan natively moved                *)
  refused,       (* windows that failed in transaction `stamp'                *)
  carried        (* tokens already active when this call began                *)

world   == <<desktop, disturbances>>
uiVars  == <<enabled, dryRun, ui>>
call    == <<plan, index, snapshot, invariants, applied, failed>>
history == <<overrun, touched, refused, carried>>
vars == <<world, uiVars, pc, era, stamp, guard, failures, tokens, call, result, history>>

-----------------------------------------------------------------------------
(* Windows, snapshots, plans                                               *)

(* A WindowKey: handle, owning process, and the generation the tracker     *)
(* gives the pair, which is new when it had forgotten the handle or knew   *)
(* another owner of it.  The owners of a handle are numbered in the order  *)
(* they get it, so owner and era stand for process and generation.  A      *)
(* handle that the same process reuses before its Destroy event is handled *)
(* keeps its key in the code and is no change here.                        *)
Key == [hwnd : Hwnds, owner : 1..MaxOwner, era : 0..MaxEra]
Window == [owner : 1..MaxOwner, alive : BOOLEAN, place : Places, trait : Traits]
SeenWindow ==
  [owner : 1..MaxOwner, alive : BOOLEAN, place : Places \cup {Unreadable}, trait : Traits]
Move == [win : Key, from : Places, to : Places]
Stages == {"idle", "gather", "batch", "solved", "before", "check", "issue",
           "verify"}
Statuses == {"none", "DryRun", "Applied", "SnapshotFailed", "WindowUnavailable",
             "WindowDestroyed", "NativeMoveFailed", "MoveRejected",
             "VerificationFailed", "Cancelled", "NonCooperative"}

NoSnapshot == <<>>
NoTraits == <<>>
NoResult == [status |-> "none", reconcile |-> FALSE]

(* find_window(): is the window with this key in the snapshot?  (Nothing   *)
(* is forgotten during a call, so the era need not be compared.)           *)
Present(shot, key) == shot[key.hwnd].alive /\ shot[key.hwnd].owner = key.owner

(* usable_window() and rectangles_match(): an unreadable window is nowhere. *)
At(shot, key, place) == Present(shot, key) /\ shot[key.hwnd].place = place

(* preserves_invariant() against the trait noted before the first move. *)
Preserved(shot, key) == shot[key.hwnd].trait = invariants[key.hwnd]

(* A last look at nothing (mutant). *)
MisplacedUnchecked(shot) == {}

(* The verified moves that a later snapshot no longer confirms. *)
Misplaced(shot) ==
  {i \in applied : ~ (At(shot, plan[i].win, plan[i].to) /\ Preserved(shot, plan[i].win))}

(* provider_.capture(): a usable snapshot shows the desktop as it is, with *)
(* the geometry of some windows possibly unreadable.                       *)
Captures ==
  {[h \in Hwnds |->
      IF h \in blurred THEN [desktop[h] EXCEPT !.place = Unreadable] ELSE desktop[h]]
    : blurred \in SUBSET {h \in Hwnds : desktop[h].alive}}

KeyOf(h) == [hwnd |-> h, owner |-> desktop[h].owner, era |-> era[h]]

(* A move of a live window from where it is.                               *)
Moves ==
  {[win |-> KeyOf(h), from |-> desktop[h].place, to |-> p] :
     h \in {w \in Hwnds : desktop[w].alive}, p \in Places}

(* What a solver run on the present desktop may return: at most one move   *)
(* per window, each to another place (valid_plan() accepts all of them).   *)
Plans ==
  {s \in UNION {[1..n -> Moves] : n \in 1..MaxPlan} :
     /\ \A i \in DOMAIN s : s[i].from # s[i].to
     /\ \A i, j \in DOMAIN s : i # j => s[i].win # s[j].win}

Current == plan[index]

-----------------------------------------------------------------------------
(* The UI thread                                                           *)

(* Ctrl+Alt+F12, or the tray's toggle while enabled: enabled_ first, ...   *)
Pause ==
  /\ ui = "ready" /\ enabled
  /\ enabled' = FALSE
  /\ ui' = "pausing"
  /\ UNCHANGED <<world, dryRun, pc, era, stamp, guard, failures, tokens, call, result, history>>

(* ... then move_guard_->cancel(). *)
CancelOnPause ==
  /\ ui = "pausing"
  /\ ui' = "ready"
  /\ guard' = CancelledGuard(guard)
  /\ UNCHANGED <<world, enabled, dryRun, pc, era, stamp, failures, tokens, call, result,
                 history>>

Resume ==
  /\ ui = "ready" /\ ~ enabled
  /\ enabled' = TRUE
  /\ UNCHANGED <<world, dryRun, ui, pc, era, stamp, guard, failures, tokens, call, result,
                 history>>

(* A changed setting: move_guard_->cancel(), then stop_window_manager()    *)
(* raises coordinator_stop_ and joins the coordinator thread ...           *)
ChangeSetting ==
  /\ ui = "ready"
  /\ ui' = "stopping"
  /\ guard' = CancelledGuard(guard)
  /\ UNCHANGED <<world, enabled, dryRun, pc, era, stamp, failures, tokens, call, result,
                 history>>

(* The pipeline rebuilt without joining the thread (mutant). *)
RestartWithoutJoin ==
  /\ ui = "stopping"
  /\ ui' = "ready"
  /\ enabled' \in BOOLEAN /\ dryRun' \in BOOLEAN
  /\ UNCHANGED <<world, pc, era, stamp, guard, failures, tokens, call, result, history>>

(* ... which returns once the thread has left its loop; everything is then *)
(* destroyed and start_window_manager() builds it anew, under the modes    *)
(* the settings dialog has stored in between.                              *)
Restart ==
  /\ ui = "stopping" /\ pc = "idle"
  /\ ui' = "ready"
  /\ era' = [h \in Hwnds |-> 0]
  /\ stamp' = 0
  /\ guard' = ClosedGuard
  /\ failures' = NoFailures
  /\ tokens' = {}
  /\ result' = NoResult
  /\ enabled' \in BOOLEAN /\ dryRun' \in BOOLEAN
  /\ overrun' = 0 /\ touched' = {} /\ refused' = {} /\ carried' = {}
  /\ UNCHANGED <<world, pc, call>>

-----------------------------------------------------------------------------
(* The desktop                                                             *)

Disturb(h, w) ==
  /\ disturbances < MaxDisturbances
  /\ disturbances' = disturbances + 1
  /\ desktop' = [desktop EXCEPT ![h] = w]
  /\ UNCHANGED <<uiVars, pc, era, stamp, guard, failures, tokens, call, result, history>>

(* The user or another program moves or restyles a window. *)
Shove(h) ==
  /\ desktop[h].alive
  /\ \E p \in Places, t \in Traits :
       /\ <<p, t>> # <<desktop[h].place, desktop[h].trait>>
       /\ Disturb(h, [desktop[h] EXCEPT !.place = p, !.trait = t])

Close(h) ==
  /\ desktop[h].alive
  /\ Disturb(h, [desktop[h] EXCEPT !.alive = FALSE])

(* The handle is given to a window of another process. *)
Reuse(h) ==
  /\ desktop[h].owner < MaxOwner
  /\ \E o \in (desktop[h].owner + 1)..MaxOwner :
       Disturb(h, [desktop[h] EXCEPT !.owner = o, !.alive = TRUE])

-----------------------------------------------------------------------------
(* The coordinator thread up to the call of apply()                        *)

(* A loop that does not look at coordinator_stop_ (mutant). *)
GatherUntilJoined ==
  /\ pc = "idle"
  /\ pc' = "gather"
  /\ result' = NoResult
  /\ UNCHANGED <<world, uiVars, era, stamp, guard, failures, tokens, call, history>>

(* while (!coordinator_stop_): the thread waits for events. *)
Gather ==
  /\ pc = "idle" /\ ui # "stopping"
  /\ pc' = "gather"
  /\ result' = NoResult
  /\ UNCHANGED <<world, uiVars, era, stamp, guard, failures, tokens, call, history>>

(* A batch that does not look at enabled_ (mutant). *)
BatchBeginsPaused ==
  /\ pc = "gather"
  /\ pc' = "batch"
  /\ UNCHANGED <<world, uiVars, era, stamp, guard, failures, tokens, call, result, history>>

(* process(events, enabled_.load(), ...) with enabled: from here on the    *)
(* batch never looks at enabled_ again.                                    *)
BatchBegins ==
  /\ pc = "gather" /\ enabled
  /\ pc' = "batch"
  /\ UNCHANGED <<world, uiVars, era, stamp, guard, failures, tokens, call, result, history>>

(* The same call with automation paused: cancel and return. *)
DisabledBatch ==
  /\ pc = "gather" /\ ~ enabled
  /\ pc' = "idle"
  /\ guard' = CancelledGuard(guard)
  /\ UNCHANGED <<world, uiVars, era, stamp, failures, tokens, call, result, history>>

(* A LocationChange of a window with an active token is taken for the      *)
(* program's own move and uses the token up.                               *)
CompleteInternalMove(h) ==
  /\ pc = "batch" /\ h \in tokens
  /\ tokens' = tokens \ {h}
  /\ UNCHANGED <<world, uiVars, pc, era, stamp, guard, failures, call, result, history>>

(* provider_.handle_event(): a Destroy event makes the tracker forget its  *)
(* handle, a HookError (events were lost) all of them.                     *)
ForgetIdentity(forgotten) ==
  /\ pc = "batch"
  /\ \A h \in forgotten : era[h] < MaxEra
  /\ era' = [h \in Hwnds |-> IF h \in forgotten THEN era[h] + 1 ELSE era[h]]
  /\ UNCHANGED <<world, uiVars, pc, stamp, guard, failures, tokens, call, result,
                 history>>

(* A move/size start, a foreground change or a due retry opens a new       *)
(* transaction; a reconcile activates the present one again.               *)
Activate ==
  /\ pc = "batch"
  /\ \E s \in {stamp, stamp + 1} :
       /\ s <= MaxStamp
       /\ stamp' = s
       /\ guard' = Activated(s)
       /\ refused' = IF s = stamp THEN refused ELSE {}
  /\ overrun' = 0
  /\ UNCHANGED <<world, uiVars, pc, era, failures, tokens, call, result, touched, carried>>

(* The transaction's first snapshot fails: numbered, never activated; only *)
(* a move/size start has cancelled the guard.                              *)
OpeningFails ==
  /\ pc = "batch" /\ stamp < MaxStamp
  /\ pc' = "idle"
  /\ stamp' = stamp + 1
  /\ guard' \in {guard, CancelledGuard(guard)}
  /\ refused' = {}
  /\ UNCHANGED <<world, uiVars, era, failures, tokens, call, result, overrun, touched, carried>>

(* The batch ends without a layout to apply; a foreground change or a drag *)
(* that suppresses layout cancels the guard on its way out.                *)
BatchEnds ==
  /\ pc = "batch"
  /\ pc' = "idle"
  /\ guard' \in {guard, CancelledGuard(guard)}
  /\ UNCHANGED <<world, uiVars, era, stamp, failures, tokens, call, result, history>>

(* settle(): capture and solve.  Before the first transaction there is no  *)
(* active window and hence no plan.                                        *)
Solve ==
  /\ pc = "batch" /\ stamp > 0
  /\ plan' \in Plans
  /\ index' = 1
  /\ pc' = "solved"
  /\ UNCHANGED <<world, uiVars, era, stamp, guard, failures, tokens, snapshot, invariants,
                 applied, failed, result, history>>

-----------------------------------------------------------------------------
(* VerifiedMoveApplier::apply                                              *)

(* Every return: of the call's locals only the result is left.             *)
Return(status, reconcile) ==
  /\ pc' = "idle"
  /\ result' = [status |-> status, reconcile |-> reconcile]
  /\ plan' = <<>> /\ index' = 0
  /\ snapshot' = NoSnapshot /\ invariants' = NoTraits
  /\ applied' = {} /\ failed' = {}
  /\ touched' = {} /\ carried' = {}
  /\ UNCHANGED <<world, uiVars, era, stamp, guard, overrun>>

(* The same without asking for a reconcile (mutant). *)
SnapshotLostUnreported == Return("SnapshotFailed", FALSE)

(* A capture failed before a move or after the last one. *)
SnapshotLost == Return("SnapshotFailed", TRUE)

(* record_failure(), for the tracker and in the result. *)
NoteFailure(key) ==
  /\ failures' = RecordFailure(failures, stamp, key)
  /\ refused' = refused \cup {key}

(* record_failure() and return. *)
Fail(status, key) == NoteFailure(key) /\ Return(status, TRUE)

(* record_failure(), failedMoves, and on to the next move unless           *)
(* stopOnFailure asks to return.                                           *)
FailMove(status, key) ==
  \/ StopOnFailure /\ Fail(status, key)
  \/ /\ ~ StopOnFailure
     /\ NoteFailure(key)
     /\ failed' = failed \cup {index}
     /\ index' = index + 1
     /\ pc' = "check"
     /\ UNCHANGED <<world, uiVars, era, stamp, guard, result, plan, snapshot, invariants,
                    applied, overrun, touched, carried>>

(* The request: a dry run is over before the guard is ever asked. *)
Begin ==
  /\ pc = "solved"
  /\ UNCHANGED <<failures, tokens, refused>>
  /\ \/ dryRun /\ Return("DryRun", FALSE)
     \/ ~ dryRun /\ ~ Allows(guard, stamp) /\ Return("Cancelled", TRUE)
     \/ /\ ~ dryRun /\ Allows(guard, stamp)
        /\ pc' = "before"
        /\ invariants' = NoTraits
        /\ carried' = tokens
        /\ UNCHANGED <<world, uiVars, era, stamp, guard, plan, index, snapshot, applied,
                       failed, result, overrun, touched>>

CaptureBefore ==
  /\ pc = "before"
  /\ UNCHANGED <<failures, tokens, refused>>
  /\ \/ SnapshotLost
     \/ /\ pc' = "check"
        /\ snapshot' \in Captures
        /\ UNCHANGED <<world, uiVars, era, stamp, guard, plan, index, invariants, applied,
                       failed, result, overrun, touched, carried>>

(* The head of the loop for one move: guard, failure memory, the place the *)
(* solver saw; then the token for the move about to be made.               *)
CheckMove ==
  /\ pc = "check" /\ index <= Len(plan)
  /\ \/ /\ ~ Allows(guard, stamp)
        /\ Return("Cancelled", TRUE)
        /\ UNCHANGED <<failures, tokens, refused>>
     \/ /\ Allows(guard, stamp)
        /\ IsNonCooperative(failures, stamp, Current.win)
        /\ Return("NonCooperative", TRUE)
        /\ UNCHANGED <<failures, tokens, refused>>
     \/ /\ Allows(guard, stamp)
        /\ ~ IsNonCooperative(failures, stamp, Current.win)
        /\ ~ At(snapshot, Current.win, Current.from)
        /\ FailMove("WindowUnavailable", Current.win)
        /\ UNCHANGED tokens
     \/ /\ Allows(guard, stamp)
        /\ ~ IsNonCooperative(failures, stamp, Current.win)
        /\ At(snapshot, Current.win, Current.from)
        /\ invariants' = [h \in DOMAIN invariants \cup {Current.win.hwnd} |->
                            IF h \in DOMAIN invariants THEN invariants[h]
                                                      ELSE snapshot[h].trait]
        /\ tokens' = tokens \cup {Current.win.hwnd}
        /\ pc' = "issue"
        /\ UNCHANGED <<world, uiVars, era, stamp, guard, failures, plan, index, snapshot,
                       applied, failed, result, history>>

(* SetWindowPos on any window that has the handle now (mutant). *)
NativeMoveByHandle ==
  /\ pc = "issue" /\ desktop[Current.win.hwnd].alive
  /\ desktop' = [desktop EXCEPT ![Current.win.hwnd].place = Current.to]
  /\ pc' = "verify"
  /\ overrun' = IF guard.cancelled THEN overrun + 1 ELSE 0
  /\ touched' = touched \cup {index}
  /\ UNCHANGED <<disturbances, uiVars, era, stamp, guard, failures, tokens, call, result,
                 refused, carried>>

(* Win32WindowMover::move finds a live window of the expected process and  *)
(* SetWindowPos succeeds; the window takes the new place or stays put.     *)
NativeMove ==
  /\ pc = "issue" /\ Present(desktop, Current.win)
  /\ \E p \in {Current.to, desktop[Current.win.hwnd].place} :
       desktop' = [desktop EXCEPT ![Current.win.hwnd].place = p]
  /\ pc' = "verify"
  /\ overrun' = IF guard.cancelled THEN overrun + 1 ELSE 0
  /\ touched' = touched \cup {index}
  /\ UNCHANGED <<disturbances, uiVars, era, stamp, guard, failures, tokens, call, result,
                 refused, carried>>

(* The token of a refused move is kept (mutant). *)
NativeMoveFailsKeepingToken ==
  /\ pc = "issue"
  /\ FailMove("NativeMoveFailed", Current.win)
  /\ UNCHANGED tokens

(* The window is gone, another process owns its handle, or SetWindowPos is *)
(* refused: nothing moves and the token is withdrawn.                      *)
NativeMoveFails ==
  /\ pc = "issue"
  /\ tokens' = tokens \ {Current.win.hwnd}
  /\ FailMove(IF desktop[Current.win.hwnd].alive THEN "NativeMoveFailed"
                                                 ELSE "WindowDestroyed",
              Current.win)

(* The snapshot after the move decides whether it counts as applied: yes, ...*)
VerifyMove ==
  /\ pc = "verify"
  /\ \E after \in Captures :
       /\ At(after, Current.win, Current.to) /\ Preserved(after, Current.win)
       /\ snapshot' = after
  /\ applied' = applied \cup {index}
  /\ index' = index + 1
  /\ pc' = "check"
  /\ UNCHANGED <<world, uiVars, era, stamp, guard, failures, tokens, plan, invariants,
                 failed, result, history>>

(* ... or no, for want of a snapshot or because of what it shows. *)
RejectMove ==
  /\ pc = "verify"
  /\ tokens' = tokens \ {Current.win.hwnd}
  /\ \/ Fail("SnapshotFailed", Current.win)
     \/ \E after \in Captures :
          /\ ~ (At(after, Current.win, Current.to) /\ Preserved(after, Current.win))
          /\ Fail(IF Present(after, Current.win) THEN "MoveRejected"
                                                 ELSE "WindowDestroyed", Current.win)

(* After the last move every applied window is looked at once more. *)
FinalVerify ==
  /\ pc = "check" /\ index > Len(plan)
  /\ \/ /\ SnapshotLost
        /\ UNCHANGED <<failures, tokens, refused>>
     \/ \E final \in Captures : \E i \in Misplaced(final) :
          /\ Fail("VerificationFailed", plan[i].win)
          /\ tokens' = tokens \ {plan[i].win.hwnd}
     \/ /\ \E final \in Captures : Misplaced(final) = {}
        /\ IF applied = {}
           THEN Return("NativeMoveFailed", TRUE)
           ELSE Return("Applied", failed # {})
        /\ UNCHANGED <<failures, tokens, refused>>

-----------------------------------------------------------------------------
(* The specification                                                       *)

Init ==
  /\ desktop \in [Hwnds -> [owner : {1}, alive : {TRUE}, place : Places, trait : Traits]]
  /\ disturbances = 0
  /\ enabled \in BOOLEAN /\ dryRun \in BOOLEAN /\ ui = "ready"
  /\ pc = "idle" /\ era = [h \in Hwnds |-> 0] /\ stamp = 0
  /\ guard = ClosedGuard /\ failures = NoFailures /\ tokens = {}
  /\ plan = <<>> /\ index = 0 /\ snapshot = NoSnapshot /\ invariants = NoTraits
  /\ applied = {} /\ failed = {} /\ result = NoResult
  /\ overrun = 0 /\ touched = {} /\ refused = {} /\ carried = {}

UserInterface == Pause \/ CancelOnPause \/ Resume \/ ChangeSetting \/ Restart

Desktop == \E h \in Hwnds : Shove(h) \/ Close(h) \/ Reuse(h)

Batch ==
  \/ Gather \/ BatchBegins \/ DisabledBatch
  \/ \E h \in Hwnds : CompleteInternalMove(h) \/ ForgetIdentity({h})
  \/ ForgetIdentity(Hwnds)
  \/ Activate \/ OpeningFails \/ BatchEnds \/ Solve

Apply ==
  \/ Begin \/ CaptureBefore \/ CheckMove \/ NativeMove \/ NativeMoveFails
  \/ VerifyMove \/ RejectMove \/ FinalVerify

Next == UserInterface \/ Desktop \/ Batch \/ Apply

Spec == Init /\ [][Next]_vars

(* The operating system runs both threads: a batch is finite, a handler    *)
(* that has begun completes, and join() returns once the thread has left.  *)
Fairness ==
  /\ WF_vars(Gather) /\ WF_vars(BatchBegins) /\ WF_vars(DisabledBatch)
  /\ WF_vars(BatchEnds) /\ WF_vars(Apply)
  /\ WF_vars(CancelOnPause) /\ WF_vars(Restart)

FairSpec == Spec /\ Fairness

-----------------------------------------------------------------------------
(* Properties                                                              *)

Calling == pc \in {"solved", "before", "check", "issue", "verify"}
Returns == Calling /\ pc' = "idle"

(* The shape of the state: in particular a call's locals exist only during *)
(* the call, and apply() is at a move of its plan whenever it moves one.   *)
TypeOK ==
  /\ desktop \in [Hwnds -> Window]
  /\ disturbances \in 0..MaxDisturbances
  /\ enabled \in BOOLEAN /\ dryRun \in BOOLEAN
  /\ ui \in {"ready", "pausing", "stopping"}
  /\ pc \in Stages
  /\ era \in [Hwnds -> 0..MaxEra]
  /\ stamp \in 0..MaxStamp
  /\ guard \in [stamp : 0..MaxStamp, cancelled : BOOLEAN]
  /\ failures \in [stamp : 0..MaxStamp, windows : SUBSET Key]
  /\ tokens \subseteq Hwnds
  /\ plan \in Seq(Move) /\ index \in 0..(Len(plan) + 1)
  /\ (plan # <<>>) = Calling
  /\ Calling => index \in 1..(Len(plan) + 1)
  /\ pc \in {"issue", "verify"} => index \in DOMAIN plan
  /\ snapshot \in [Hwnds -> SeenWindow] \cup {NoSnapshot}
  /\ pc \in {"check", "issue", "verify"} => snapshot \in [Hwnds -> SeenWindow]
  /\ DOMAIN invariants \subseteq Hwnds
  /\ \A h \in DOMAIN invariants : invariants[h] \in Traits
  /\ applied \subseteq DOMAIN plan /\ failed \subseteq DOMAIN plan
  /\ result \in [status : Statuses, reconcile : BOOLEAN]
  /\ overrun \in Nat
  /\ touched \subseteq DOMAIN plan
  /\ refused \subseteq Key /\ carried \subseteq Hwnds

(* Pausing, a changed setting or a new drag cancels the guard while        *)
(* apply() may be between its look at the guard and the native move        *)
(* (move_applier.cpp:301 and :343): that one move may still happen, a      *)
(* second one never, however the threads interleave, unless a later batch  *)
(* activates the guard again.                                              *)
AtMostOneMoveAfterCancel == overrun <= 1

(* A window that refused a move in this transaction is not moved again     *)
(* before the next one, whichever batch tries: plans of the same           *)
(* transaction meet the failure memory, also after other windows failed    *)
(* and others took over their handles.  A window is what its WindowKey     *)
(* says: one whose identity was forgotten is another one.                  *)
FailedWindowLeftAlone == pc = "issue" => Current.win \notin refused

(* A token makes the coordinator take the window's next LocationChange for *)
(* its own and miss a change the user made, so a call may leave behind     *)
(* only the tokens it found and those of its verified moves, whichever way *)
(* it returns.                                                             *)
TokensOnlyForLandedMoves ==
  [][(Returns /\ pc # "solved") =>
       tokens' \subseteq carried \cup {plan[i].win.hwnd : i \in applied}]_vars

(* A dry run touches nothing, although the mode is changed by another      *)
(* thread: stop_window_manager() joins the coordinator thread first.       *)
DryRunNeverMoves == pc \in {"issue", "verify"} => ~ dryRun

(* When apply() answers Applied, every window it moved was still at its    *)
(* target, unchanged otherwise, when it looked last, although any other    *)
(* program may have moved it again after it was verified.  With            *)
(* stopOnFailure the whole plan is in place.                               *)
AppliedMeansInPlace ==
  [][(Returns /\ result'.status = "Applied") =>
       /\ \A i \in applied : /\ At(desktop, plan[i].win, plan[i].to)
                             /\ Preserved(desktop, plan[i].win)
       /\ StopOnFailure => applied = DOMAIN plan]_vars

(* Once a window has been touched, a call that does not end in Applied     *)
(* asks for a reconcile, and at most one of the windows it touched is in   *)
(* an unverified place.                                                    *)
PartialFailureReported ==
  [][(Returns /\ touched # {} /\ result'.status # "Applied") =>
       /\ result'.reconcile
       /\ \E last \in touched : touched \subseteq applied \cup {last}]_vars

(* Liveness: the UI thread waits in join() without a timeout; the          *)
(* coordinator thread leaves its loop whatever the desktop does, so a      *)
(* changed setting always takes effect.                                    *)
StopCompletes == ui = "stopping" ~> ui = "ready"

(* Liveness: once automation stays off, the coordinator thread eventually  *)
(* stops moving windows for good.                                          *)
PauseTakesHold == <>[](~ enabled) => <>[](pc \notin {"issue", "verify"})

(* What README.md and the feature guide say of Ctrl+Alt+F12: management is *)
(* disabled immediately and the present transaction is cancelled.  Then no *)
(* move would be cleared once the handler has returned.                    *)
NoMoveClearedWhilePaused ==
  [][(pc = "check" /\ pc' = "issue") => enabled \/ ui = "pausing"]_vars

(* The applier as the coordinator sees it. *)
Contract == INSTANCE MoveContract WITH
  live <- ~ guard.cancelled /\ guard.stamp = stamp,
  job  <- IF Calling
          THEN [plan |-> plan,
                next |-> IF pc = "verify" THEN index + 1 ELSE index,
                ticket |-> pc = "issue"]
          ELSE [plan |-> <<>>, next |-> 0, ticket |-> FALSE]

(* Each native move of the program is one the plan called for, in order,   *)
(* on a ticket of its own given while the transaction was live.            *)
ImplementsContract == Contract!Spec
=============================================================================
