----------------------------- MODULE Lifecycle ------------------------------
(***************************************************************************)
(* The life of the program as its message thread sees it (AppLifecycle):   *)
(* starting and stopping the pipeline (hook thread, queue, coordinator     *)
(* thread), the settings and their file, dialogs whose message loops run   *)
(* every other handler, the reports the coordinator thread posts, and the  *)
(* tray icon that shows them.  The process may be killed at any moment and *)
(* started again.                                                          *)
(*                                                                         *)
(* Abstracted: what the settings hold besides enabled is one opaque value; *)
(* a batch is its begin, when it reads enabled_, and the report it ends    *)
(* with (Coordinator and LayoutTransaction model what it does).            *)
(* CoordinatorHealthMonitor::observe never asks for automation to be       *)
(* disabled, so the safety trip it could cause is left out.                *)
(***************************************************************************)
EXTENDS Integers, Sequences

CONSTANTS
  Values,      (* the settings besides enabled                              *)
  Default,     (* their value in Settings{}                                 *)
  None,
  Capacity,    (* messages a thread's queue holds; further posts are lost   *)
  Inputs,      (* what the user does                                        *)
  Outcomes,    (* what batches report                                       *)
  MaxInputs,   (* bound: user inputs                                        *)
  MaxFaults,   (* bound: failing calls of the system                        *)
  MaxCrashes,  (* bound: times the process is killed                        *)
  MaxEpisodes  (* bound: layout failures the user was not told of           *)

Settings == [enabled : BOOLEAN, value : Values]

(* The statuses of a batch as far as the message thread tells them apart:  *)
(* Recovered is Applied, or Idle after a solver run that found nothing to  *)
(* do; Idle also stands for Dragging, DryRun and PartiallySolved.          *)
Reports == {"Disabled", "Idle", "Recovered", "Unsatisfiable", "Suspended",
            "ApiError", "Rebuilding"}

ASSUME ConstantsAssumption ==
  /\ Default \in Values /\ None \notin Values /\ None \notin Settings
  /\ Capacity \in Nat \ {0}
  /\ Inputs \subseteq {"hotkey", "toggle", "quick", "dialog", "custom", "exit"}
  /\ Outcomes \subseteq Reports \ {"Disabled"}
  /\ MaxInputs \in Nat /\ MaxFaults \in Nat /\ MaxCrashes \in Nat
  /\ MaxEpisodes \in Nat

VARIABLES
  file,       (* settings.ini, or None                                      *)
  settings,   (* settings_                                                  *)
  enabled,    (* enabled_                                                   *)
  built,      (* the settings the pipeline's objects were made with, or None *)
  hook,       (* the hook thread                                            *)
  loop,       (* the coordinator thread                                     *)
  stop,       (* coordinator_stop_                                          *)
  posted,     (* status messages in the message thread's queue              *)
  ui,         (* where the message thread is, and for which job             *)
  dialog,     (* the open dialog: what it is and the draft it works on      *)
  tray,       (* TrayController::status_                                    *)
  reported,   (* LayoutFailureEpisode::reported_                            *)
  cooling,    (* the last notification is less than its cooldown ago        *)
  emergency,  (* history: the user stopped the program by hotkey, and has   *)
              (* not enabled it in the tray since                           *)
  unsaved,    (* history: the last save failed                              *)
  failing,    (* history: a batch failed, and none has recovered since      *)
  unnoticed,  (* history: failures of that kind minus notifications         *)
  spent       (* counters of the bounds                                     *)

pipeline == <<built, hook, loop, stop>>
switches == <<settings, enabled>>
screen == <<tray, reported, cooling>>
episodes == <<failing, unnoticed>>
history == <<emergency, unsaved, failing, unnoticed>>
vars == <<file, settings, enabled, built, hook, loop, stop, posted, ui, dialog,
          tray, reported, cooling, emergency, unsaved, failing, unnoticed, spent>>

---------------------------------------------------------------------------
(* Values of the parts of the state. *)

NoHook == [at |-> "none", id |-> FALSE, quit |-> FALSE]
NewHook == [NoHook EXCEPT !.at = "new"]
NoDialog == [kind |-> "none", draft |-> None]
At(place) == [at |-> place, job |-> "none", asked |-> None]
Working == {"check", "wait", "managing", "paused"}

(* The message thread takes messages only in its loop or a dialog's. *)
Pumping == ui.at = "loop"

Shown(on) == IF on THEN "Running" ELSE "Paused"

Faulty ==
  /\ spent.faults < MaxFaults
  /\ spent' = [spent EXCEPT !.faults = @ + 1]

Input(kind) ==
  /\ Pumping /\ kind \in Inputs
  /\ spent.inputs < MaxInputs
  /\ spent' = [spent EXCEPT !.inputs = @ + 1]

---------------------------------------------------------------------------
(* The pipeline is built (start_window_manager up to the hook's start).    *)
Build(value) ==
  /\ built' = value /\ hook' = NewHook
  /\ UNCHANGED <<loop, stop>>

(* A hook whose thread id is published too late to be found by a stop. (mutant) *)
HookBeginsUnnamed ==
  /\ hook.at = "new"
  /\ \/ /\ hook' = [hook EXCEPT !.at = "on"]
        /\ UNCHANGED spent
     \/ /\ hook' = [hook EXCEPT !.at = "failed"]
        /\ Faulty
  /\ UNCHANGED <<file, settings, enabled, built, loop, stop, posted, ui, dialog,
                 screen, history>>

(* The hook thread installs its hooks, or cannot.  Its id is published     *)
(* before the starting thread may go on.                                   *)
HookBegins ==
  /\ hook.at = "new"
  /\ \/ /\ hook' = [hook EXCEPT !.at = "on", !.id = TRUE]
        /\ UNCHANGED spent
     \/ /\ hook' = [hook EXCEPT !.at = "failed"]
        /\ Faulty
  /\ UNCHANGED <<file, settings, enabled, built, loop, stop, posted, ui, dialog,
                 screen, history>>

(* It leaves its message loop when WM_QUIT reaches it, and ends. *)
HookEnds ==
  /\ hook.at = "on" /\ hook.quit
  /\ hook' = NoHook
  /\ UNCHANGED <<file, settings, enabled, built, loop, stop, posted, ui, dialog,
                 screen, history, spent>>

(* The stop flag stays up from the last stop. (mutant) *)
StartKeepingStop ==
  /\ ui.at = "starting" /\ hook.at = "on"
  /\ loop' = "check"
  /\ tray' = Shown(enabled)
  /\ ui' = At("loop")
  /\ UNCHANGED <<file, settings, enabled, built, hook, stop, posted, dialog,
                 reported, cooling, history, spent>>

(* The hooks are installed: the coordinator thread starts. *)
StartSucceeds ==
  /\ ui.at = "starting" /\ hook.at = "on"
  /\ stop' = FALSE /\ loop' = "check"
  /\ tray' = Shown(enabled)
  /\ ui' = At("loop")
  /\ UNCHANGED <<file, settings, enabled, built, hook, posted, dialog, reported,
                 cooling, history, spent>>

(* They could not be: everything is torn down again, and the tray says so. *)
StartFails ==
  /\ ui.at = "starting" /\ hook.at = "failed"
  /\ built' = None /\ hook' = NoHook /\ stop' = TRUE
  /\ tray' = "ApiError"
  /\ ui' = At("loop")
  /\ UNCHANGED <<file, settings, enabled, loop, posted, dialog, reported,
                 cooling, history, spent>>

(* stop_window_manager begins: the stop flag goes up, the queue is closed  *)
(* (which wakes the coordinator thread), the hook thread is told to quit.  *)
StopBegins(job, asked) ==
  /\ stop' = TRUE
  /\ hook' = [hook EXCEPT !.quit = hook.id]
  /\ ui' = [at |-> "stopping", job |-> job, asked |-> asked]
  /\ tray' = IF job = "exit" THEN tray ELSE "Rebuilding"
  /\ UNCHANGED <<file, switches, built, loop, posted, reported, cooling, history>>

(* Both threads are joined, then the objects they used are destroyed, and  *)
(* the job the stop was for goes on: the settings are replaced and saved,  *)
(* or the program ends.                                                    *)
Joined == hook.at = "none" /\ loop \in {"none", "ended"}

GoesOn ==
  /\ settings' = ui.asked
  /\ enabled' = IF ui.job = "dialog" THEN ui.asked.enabled ELSE enabled
  /\ ui' = [At("write") EXCEPT !.job = ui.job]
  /\ built' = None /\ loop' = "none"
  /\ UNCHANGED <<file, hook, stop, posted, dialog, screen, history, spent>>

(* The process is gone, and with it everything but the file. *)
Off ==
  /\ settings' = [enabled |-> TRUE, value |-> Default] /\ enabled' = TRUE
  /\ built' = None /\ hook' = NoHook /\ loop' = "none" /\ stop' = FALSE
  /\ posted' = <<>> /\ ui' = At("off") /\ dialog' = NoDialog
  /\ tray' = "Gone" /\ reported' = FALSE /\ cooling' = FALSE
  /\ unsaved' = FALSE /\ failing' = FALSE /\ unnoticed' = 0
  /\ UNCHANGED <<file, emergency>>

(* The hook thread is not waited for. (mutant) *)
StoppedBeforeHook ==
  /\ ui.at = "stopping" /\ loop \in {"none", "ended"}
  /\ IF ui.job = "exit" THEN Off /\ UNCHANGED spent ELSE GoesOn

(* The coordinator thread is not waited for. (mutant) *)
StoppedBeforeLoop ==
  /\ ui.at = "stopping" /\ hook.at = "none"
  /\ IF ui.job = "exit" THEN Off /\ UNCHANGED spent ELSE GoesOn

Stopped ==
  /\ ui.at = "stopping" /\ Joined
  /\ IF ui.job = "exit" THEN Off /\ UNCHANGED spent ELSE GoesOn

---------------------------------------------------------------------------
(* persist_settings: a temporary file is written, the old file removed and *)
(* the temporary one renamed; a failure is only logged.  Then the handler  *)
(* returns, or the pipeline is built anew.                                 *)
SaveReturns(failed) ==
  /\ unsaved' = failed
  /\ IF ui.job = "none"
     THEN /\ ui' = At("loop")
          /\ UNCHANGED <<pipeline, tray>>
     ELSE /\ ui' = At("starting")
          /\ Build(settings.value)
          /\ tray' = IF ui.job = "dialog" THEN Shown(enabled) ELSE tray
  /\ UNCHANGED <<switches, posted, dialog, reported, cooling, emergency, episodes>>

SaveWrites ==
  /\ ui.at = "write"
  /\ ui' = [ui EXCEPT !.at = "remove"]
  /\ UNCHANGED <<file, switches, pipeline, posted, dialog, screen, history, spent>>

SaveCannotWrite ==
  /\ ui.at = "write"
  /\ Faulty
  /\ SaveReturns(TRUE)
  /\ UNCHANGED file

(* Whether the removal succeeds is not looked at. *)
SaveRemoves ==
  /\ ui.at = "remove"
  /\ ui' = [ui EXCEPT !.at = "rename"]
  /\ \/ file' = None /\ UNCHANGED spent
     \/ file' = file /\ Faulty
  /\ UNCHANGED <<switches, pipeline, posted, dialog, screen, history>>

(* A rename that fails takes the temporary file with it. *)
SaveRenames ==
  /\ ui.at = "rename"
  /\ \/ file' = settings /\ SaveReturns(FALSE) /\ UNCHANGED spent
     \/ file' = file /\ SaveReturns(TRUE) /\ Faulty

---------------------------------------------------------------------------
(* The program starts: the settings come from the file, or are the         *)
(* defaults if there is none (load_settings).                              *)
Starts ==
  /\ ui.at = "off"
  /\ settings' = IF file = None THEN [enabled |-> TRUE, value |-> Default] ELSE file
  /\ enabled' = settings'.enabled
  /\ tray' = Shown(enabled')
  /\ Build(settings'.value)
  /\ ui' = At("starting")
  /\ unsaved' = (file = None)
  /\ UNCHANGED <<file, posted, dialog, reported, cooling, emergency, episodes, spent>>

(* It is killed: by the system, the user or a fault. *)
Killed ==
  /\ ui.at # "off" /\ spent.crashes < MaxCrashes
  /\ spent' = [spent EXCEPT !.crashes = @ + 1]
  /\ Off

---------------------------------------------------------------------------
(* The coordinator thread looks at the stop flag between batches only; it  *)
(* waits for events, the reconcile timer or the queue's closing, and reads *)
(* enabled_ as it begins the batch.  Rounds without events change nothing. *)
LoopOnly == UNCHANGED <<file, switches, built, hook, stop, ui, dialog, screen,
                        emergency, unsaved, spent>>

LoopChecks ==
  /\ loop = "check"
  /\ loop' = IF stop THEN "ended" ELSE "wait"
  /\ LoopOnly /\ UNCHANGED <<posted, episodes>>

BatchBegins ==
  /\ loop = "wait"
  /\ loop' = IF enabled THEN "managing" ELSE "paused"
  /\ LoopOnly /\ UNCHANGED <<posted, episodes>>

(* Its report is posted to the message thread; a full queue loses it.      *)
(* Failures are counted when they begin: after a recovery or a pause.      *)
BatchEnds ==
  /\ loop \in {"managing", "paused"}
  /\ loop' = "check"
  /\ \E report \in IF loop = "paused" THEN {"Disabled"} ELSE Outcomes :
       /\ posted' = IF Len(posted) < Capacity THEN Append(posted, report) ELSE posted
       /\ IF report = "Unsatisfiable" /\ ~ failing
          THEN /\ unnoticed < MaxEpisodes
               /\ failing' = TRUE /\ unnoticed' = unnoticed + 1
          ELSE /\ failing' = (failing /\ report \notin {"Recovered", "Disabled"})
               /\ UNCHANGED unnoticed
  /\ LoopOnly

---------------------------------------------------------------------------
(* The report's own name, as if the two enumerations were one. (mutant) *)
TrayAfterCast(report) == IF report \in {"Idle", "Recovered"} THEN Shown(enabled) ELSE report

(* A disabled batch falls through to the default. (mutant) *)
TrayAfterDefault(report) ==
  CASE report = "Disabled" -> tray
    [] report \in {"Unsatisfiable", "Suspended"} -> "Unsatisfiable"
    [] report \in {"ApiError", "Rebuilding"} -> report
    [] OTHER -> Shown(enabled)

(* update_runtime_status: what the tray shows after a report. *)
TrayAfter(report) ==
  CASE report = "Disabled" -> "Paused"
    [] report \in {"Unsatisfiable", "Suspended"} -> "Unsatisfiable"
    [] report \in {"ApiError", "Rebuilding"} -> report
    [] OTHER -> Shown(enabled)

(* Any report of a batch that did not fail ends it. (mutant) *)
ReportedUntilIdle(report) == reported /\ report = "Unsatisfiable"

(* LayoutFailureEpisode::observe: the episode is over once a report says   *)
(* that the layout was verified, or that the program is paused.            *)
Reported(report) == reported /\ report \notin {"Recovered", "Disabled"}

(* One status message is handled.  The first failure of an episode is      *)
(* notified, unless the last notification was just now.                    *)
Report ==
  /\ Pumping /\ posted # <<>>
  /\ posted' = Tail(posted)
  /\ tray' = TrayAfter(Head(posted))
  /\ reported' = (Reported(Head(posted)) \/ Head(posted) = "Unsatisfiable")
  /\ LET entered == Head(posted) = "Unsatisfiable" /\ ~ Reported(Head(posted))
     IN  \/ /\ entered /\ ~ cooling
            /\ cooling' = TRUE
            /\ unnoticed' = IF unnoticed > 0 THEN unnoticed - 1 ELSE 0
            /\ UNCHANGED spent
         \/ /\ entered /\ ~ cooling /\ Faulty       (* the balloon is refused *)
            /\ UNCHANGED <<cooling, unnoticed>>
         \/ /\ ~ entered \/ cooling
            /\ UNCHANGED <<cooling, unnoticed, spent>>
  /\ UNCHANGED <<file, switches, pipeline, ui, dialog, emergency, unsaved, failing>>

CoolingPasses ==
  /\ cooling
  /\ cooling' = FALSE
  /\ UNCHANGED <<file, switches, pipeline, posted, ui, dialog, tray, reported,
                 history, spent>>

---------------------------------------------------------------------------
(* Handlers of the user's inputs. *)

SetEnabled(on) ==
  /\ enabled' = on
  /\ settings' = [settings EXCEPT !.enabled = on]
  /\ tray' = Shown(on)

(* It is not saved. (mutant) *)
HotkeyUnsaved ==
  /\ Input("hotkey")
  /\ SetEnabled(FALSE)
  /\ emergency' = TRUE
  /\ UNCHANGED <<file, pipeline, posted, ui, dialog, reported, cooling, unsaved, episodes>>

(* WM_HOTKEY.  (The cancelled guard is LayoutTransaction's.) *)
Hotkey ==
  /\ Input("hotkey")
  /\ SetEnabled(FALSE)
  /\ emergency' = TRUE
  /\ ui' = At("write")
  /\ UNCHANGED <<file, pipeline, posted, dialog, reported, cooling, unsaved, episodes>>

(* ToggleEnabled, by a click on the icon or in its menu. *)
Toggle ==
  /\ Input("toggle")
  /\ SetEnabled(~ enabled)
  /\ emergency' = (emergency /\ ~ enabled')
  /\ ui' = At("write")
  /\ UNCHANGED <<file, pipeline, posted, dialog, reported, cooling, unsaved, episodes>>

(* ApplySetting, from the menu of quick settings. *)
QuickSetting ==
  /\ Input("quick")
  /\ \E value \in Values \ {settings.value} :
       StopBegins("setting", [settings EXCEPT !.value = value])
  /\ UNCHANGED dialog

(* OpenSettings and RequestCustomSetting open a modal dialog.  Its message *)
(* loop goes on handling inputs and reports; a second dialog on top of it  *)
(* is left out.  The settings dialog works on a copy of the settings.      *)
OpenDialog(kind) ==
  /\ Input(kind) /\ dialog = NoDialog
  /\ dialog' = [kind |-> kind, draft |-> settings]
  /\ UNCHANGED <<file, switches, pipeline, posted, ui, screen, history>>

DialogClosed == dialog' = NoDialog

DialogCancelled ==
  /\ Pumping /\ dialog # NoDialog
  /\ DialogClosed
  /\ UNCHANGED <<file, switches, pipeline, posted, ui, screen, history, spent>>

(* The draft replaces the settings, if it differs from them. *)
DialogSaved ==
  /\ Pumping /\ dialog.kind = "dialog"
  /\ \E value \in Values :
       LET updated == [dialog.draft EXCEPT !.value = value]
       IN  /\ updated # settings
           /\ StopBegins("dialog", updated)
  /\ DialogClosed
  /\ UNCHANGED spent

(* ApplyCustomSetting: the one value asked for, if it is not the current.  *)
CustomSaved ==
  /\ Pumping /\ dialog.kind = "custom"
  /\ \E value \in Values \ {settings.value} :
       StopBegins("setting", [settings EXCEPT !.value = value])
  /\ DialogClosed
  /\ UNCHANGED spent

(* Exit, WM_CLOSE and the session's end destroy the message window, and    *)
(* with it a dialog it owns.                                               *)
Exit ==
  /\ Input("exit")
  /\ StopBegins("exit", None)
  /\ DialogClosed

---------------------------------------------------------------------------
Init ==
  /\ file \in Settings \cup {None}
  /\ settings = [enabled |-> TRUE, value |-> Default] /\ enabled = TRUE
  /\ built = None /\ hook = NoHook /\ loop = "none" /\ stop = FALSE
  /\ posted = <<>> /\ ui = At("off") /\ dialog = NoDialog
  /\ tray = "Gone" /\ reported = FALSE /\ cooling = FALSE
  /\ emergency = FALSE /\ unsaved = FALSE
  /\ failing = FALSE /\ unnoticed = 0
  /\ spent = [inputs |-> 0, faults |-> 0, crashes |-> 0]

User ==
  \/ Hotkey \/ Toggle \/ QuickSetting \/ Exit
  \/ OpenDialog("dialog") \/ OpenDialog("custom")
  \/ DialogCancelled \/ DialogSaved \/ CustomSaved

(* What the message thread does on its own, once started. *)
MessageThread ==
  \/ StartSucceeds \/ StartFails \/ Stopped
  \/ SaveWrites \/ SaveCannotWrite \/ SaveRemoves \/ SaveRenames
  \/ Report

HookThread == HookBegins \/ HookEnds
CoordinatorThread == LoopChecks \/ BatchBegins \/ BatchEnds

Next ==
  \/ Starts \/ Killed \/ User \/ CoolingPasses
  \/ MessageThread \/ HookThread \/ CoordinatorThread

Spec == Init /\ [][Next]_vars

(* The system schedules the three threads; users, faults and time do as    *)
(* they like.                                                              *)
Fairness ==
  /\ WF_vars(MessageThread) /\ WF_vars(HookThread) /\ WF_vars(CoordinatorThread)

FairSpec == Spec /\ Fairness

---------------------------------------------------------------------------
(* Types; a handler has settings to apply exactly while it stops the       *)
(* pipeline for them, and what the tray shows is one of its own statuses.  *)
TypeOK ==
  /\ file \in Settings \cup {None} /\ settings \in Settings /\ enabled \in BOOLEAN
  /\ built \in Values \cup {None}
  /\ hook \in [at : {"none", "new", "on", "failed"}, id : BOOLEAN, quit : BOOLEAN]
  /\ loop \in Working \cup {"none", "ended"} /\ stop \in BOOLEAN
  /\ posted \in Seq(Reports) /\ Len(posted) <= Capacity
  /\ ui \in [at : {"off", "starting", "loop", "stopping", "write", "remove", "rename"},
            job : {"none", "setting", "dialog", "exit"}, asked : Settings \cup {None}]
  /\ ui.asked # None <=> ui.at = "stopping" /\ ui.job # "exit"
  /\ dialog \in [kind : {"none", "dialog", "custom"}, draft : Settings \cup {None}]
  /\ dialog.draft = None <=> dialog.kind = "none"
  /\ tray \in {"Gone", "Running", "Paused", "Unsatisfiable", "ApiError", "Rebuilding"}
  /\ reported \in BOOLEAN /\ cooling \in BOOLEAN
  /\ emergency \in BOOLEAN /\ unsaved \in BOOLEAN
  /\ failing \in BOOLEAN /\ unnoticed \in 0 .. MaxEpisodes
  /\ spent \in [inputs : 0 .. MaxInputs, faults : 0 .. MaxFaults,
                crashes : 0 .. MaxCrashes]

(* No thread runs without the objects it uses: the queue the hook pushes   *)
(* to, the coordinator the loop calls (app_lifecycle.cpp:502-547).         *)
ObjectsOutliveThreads ==
  hook.at \in {"new", "on"} \/ loop \in Working => built # None

(* When the message thread takes its next message the pipeline is whole,   *)
(* works with the current settings and is not told to stop, or is gone     *)
(* altogether: however often settings change, dialogs nest or hooks fail.  *)
PipelineIsWhole ==
  Pumping =>
    \/ built = None /\ hook.at = "none" /\ loop = "none"
    \/ /\ built = settings.value
       /\ hook.at = "on" /\ ~ hook.quit
       /\ loop \in Working /\ ~ stop

(* Between handlers the file holds the settings in memory, unless the last *)
(* save failed: a restart or a crash then forgets nothing.                 *)
SavedIsCurrent == Pumping /\ ~ unsaved => file = settings

(* The settings the coordinator thread reads are replaced only while it    *)
(* does not run (docs/SOFTWARE_DESIGN.md:137).                             *)
SettingsHaveNoReader ==
  [][settings'.value # settings.value /\ ui'.at # "off" => loop \in {"none", "ended"}]_vars

(* Every notification is for a failure that began, in the coordinator      *)
(* thread's order of things, after the one notified before it.             *)
NoticesAreForNewFailures == [][cooling' /\ ~ cooling => unnoticed > 0]_vars

(* The reports of older batches cannot leave the tray wrong for good: it   *)
(* comes to show a lasting pause, and stops showing one that is over.      *)
TrayCatchesUp ==
  /\ <>[](~ enabled /\ built # None) => <>[](tray = "Paused")
  /\ <>[](enabled /\ built # None) => <>[](tray # "Paused")

(* Starting, stopping and saving return: no handler waits for a thread     *)
(* that waits for something else.                                          *)
HandlersReturn == ui.at \notin {"off", "loop"} ~> ui.at \in {"off", "loop"}

(* "Press Ctrl+Alt+F12 ... Select Enable management from the tray menu to  *)
(* resume" (README.md:17): the emergency stop holds until then, whatever   *)
(* else the user does and however often the program restarts.              *)
EmergencyStopHolds == emergency /\ Pumping => ~ enabled
=============================================================================
