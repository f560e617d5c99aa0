-------------------------- MODULE Lifecycle_proofs --------------------------
(***************************************************************************)
(* Machine-checked safety of Lifecycle, for any settings, any number of    *)
(* inputs, faults and kills, and message queues of any length: the types,  *)
(* that the pipeline is whole and its threads never lack an object, that   *)
(* settings are saved, and that notifications are for new failures.        *)
(***************************************************************************)
EXTENDS Lifecycle, TLAPS, SequenceTheorems, FiniteSetTheorems, FunctionTheorems

-----------------------------------------------------------------------------
(* Type correctness                                                        *)

(* The defaults are settings, and None is not. *)
LEMMA DefaultType ==
  [enabled |-> TRUE, value |-> Default] \in Settings /\ None \notin Settings
BY ConstantsAssumption DEF Settings

(* The parts of the state are well formed while the program does not run. *)
LEMMA OffParts ==
  /\ NoHook \in [at : {"none", "new", "on", "failed"}, id : BOOLEAN, quit : BOOLEAN]
  /\ At("off") \in [at : {"off", "starting", "loop", "stopping", "write", "remove", "rename"},
                    job : {"none", "setting", "dialog", "exit"},
                    asked : Settings \cup {None}]
  /\ At("off").asked = None /\ At("off").at = "off"
  /\ NoDialog \in [kind : {"none", "dialog", "custom"}, draft : Settings \cup {None}]
  /\ NoDialog.draft = None /\ NoDialog.kind = "none"
  /\ <<>> \in Seq(Reports) /\ Len(<<>>) <= Capacity
BY ConstantsAssumption, EmptySeq DEF NoHook, At, NoDialog

LEMMA TypeInit == Init => TypeOK
<1> SUFFICES ASSUME Init
             PROVE  TypeOK
  OBVIOUS
<1>1. spent \in [inputs : 0 .. MaxInputs, faults : 0 .. MaxFaults,
                 crashes : 0 .. MaxCrashes]
  BY ConstantsAssumption DEF Init
<1>2. unnoticed \in 0 .. MaxEpisodes
  BY ConstantsAssumption DEF Init
<1> QED
  BY <1>1, <1>2, DefaultType, OffParts DEF Init, TypeOK

(* What an input, a failing call or neither does to the counters. *)
SpentByOne ==
  \/ UNCHANGED spent
  \/ Faulty
  \/ spent.inputs < MaxInputs /\ spent' = [spent EXCEPT !.inputs = @ + 1]

(* They stay within their bounds. *)
LEMMA SpentType ==
  ASSUME TypeOK, SpentByOne
  PROVE  spent' \in [inputs : 0 .. MaxInputs, faults : 0 .. MaxFaults,
                     crashes : 0 .. MaxCrashes]
BY ConstantsAssumption DEF TypeOK, SpentByOne, Faulty

(* The end of the process leaves a well-formed state. *)
LEMMA OffType ==
  ASSUME TypeOK, Off,
         spent' \in [inputs : 0 .. MaxInputs, faults : 0 .. MaxFaults,
                     crashes : 0 .. MaxCrashes]
  PROVE  TypeOK'
<1>1. unnoticed' \in 0 .. MaxEpisodes
  BY ConstantsAssumption DEF Off
<1> QED
  BY <1>1, DefaultType, OffParts DEF TypeOK, Off

(* So does the beginning of a stop for settings that exist or for the end. *)
LEMMA StopBeginsType ==
  ASSUME TypeOK, NEW job \in {"setting", "dialog", "exit"},
         NEW asked \in Settings \cup {None}, asked # None <=> job # "exit",
         StopBegins(job, asked),
         dialog' \in {dialog, NoDialog},
         SpentByOne
  PROVE  TypeOK'
<1>1. spent' \in [inputs : 0 .. MaxInputs, faults : 0 .. MaxFaults,
                  crashes : 0 .. MaxCrashes]
  BY SpentType
<1>2. /\ dialog' \in [kind : {"none", "dialog", "custom"}, draft : Settings \cup {None}]
      /\ dialog'.draft = None <=> dialog'.kind = "none"
  BY DEF TypeOK, NoDialog
<1>3. /\ hook' \in [at : {"none", "new", "on", "failed"}, id : BOOLEAN, quit : BOOLEAN]
  BY DEF TypeOK, StopBegins
<1>4. /\ ui' \in [at : {"off", "starting", "loop", "stopping", "write", "remove", "rename"},
                  job : {"none", "setting", "dialog", "exit"},
                  asked : Settings \cup {None}]
      /\ ui'.asked # None <=> ui'.at = "stopping" /\ ui'.job # "exit"
  BY DEF StopBegins
<1> QED
  BY <1>1, <1>2, <1>3, <1>4 DEF TypeOK, StopBegins, switches, episodes, history

(* A save that returns goes back to the loop or builds the pipeline. *)
LEMMA SaveReturnsType ==
  ASSUME TypeOK, NEW failed \in BOOLEAN, SaveReturns(failed),
         file' \in {file, settings},
         SpentByOne
  PROVE  TypeOK'
<1>1. spent' \in [inputs : 0 .. MaxInputs, faults : 0 .. MaxFaults,
                  crashes : 0 .. MaxCrashes]
  BY SpentType
<1>2. settings.value \in Values
  BY DEF TypeOK, Settings
<1>3. CASE ui.job = "none"
  BY <1>1, <1>3, ConstantsAssumption
  DEF TypeOK, SaveReturns, At, pipeline, switches, episodes
<1>4. CASE ui.job # "none"
  <2>1. hook' \in [at : {"none", "new", "on", "failed"}, id : BOOLEAN, quit : BOOLEAN]
    BY <1>4 DEF SaveReturns, Build, NewHook, NoHook
  <2>2. tray' \in {tray, "Running", "Paused"}
    BY <1>4 DEF SaveReturns, Shown
  <2> QED
    BY <1>1, <1>2, <1>4, <2>1, <2>2, ConstantsAssumption
    DEF TypeOK, SaveReturns, Build, At, switches, episodes
<1> QED
  BY <1>3, <1>4

LEMMA TypeStep == TypeOK /\ [Next]_vars => TypeOK'
<1> SUFFICES ASSUME TypeOK, [Next]_vars
             PROVE  TypeOK'
  OBVIOUS
<1> USE ConstantsAssumption
<1>1. CASE Starts
  <2>1. settings' \in Settings
    BY <1>1 DEF Starts, TypeOK, Settings
  <2> QED
    BY <1>1, <2>1 DEF Starts, TypeOK, Build, NewHook, NoHook, At, Shown, Settings, episodes
<1>2. CASE Killed
  <2>1. spent' \in [inputs : 0 .. MaxInputs, faults : 0 .. MaxFaults,
                    crashes : 0 .. MaxCrashes]
    BY <1>2 DEF Killed, TypeOK
  <2> QED
    BY <1>2, <2>1, OffType DEF Killed
<1>3. CASE User
  <2> DEFINE Typed == spent' \in [inputs : 0 .. MaxInputs, faults : 0 .. MaxFaults,
                                  crashes : 0 .. MaxCrashes]
  <2>1. CASE Hotkey
    <3>1. Typed
      BY <2>1, SpentType DEF Hotkey, Input, SpentByOne
    <3>2. settings' \in Settings
      BY <2>1 DEF Hotkey, SetEnabled, TypeOK, Settings
    <3>3. enabled' \in BOOLEAN /\ emergency' \in BOOLEAN /\ tray' = "Paused"
      BY <2>1 DEF Hotkey, SetEnabled, Shown
    <3>4. /\ ui' = At("write")
          /\ UNCHANGED <<file, pipeline, posted, dialog, reported, cooling, unsaved, episodes>>
      BY <2>1 DEF Hotkey
    <3> QED
      BY <3>1, <3>2, <3>3, <3>4 DEF TypeOK, At, pipeline, episodes
  <2>2. CASE Toggle
    <3>1. Typed
      BY <2>2, SpentType DEF Toggle, Input, SpentByOne
    <3>2. settings' \in Settings /\ enabled' \in BOOLEAN
      BY <2>2 DEF Toggle, SetEnabled, TypeOK, Settings
    <3>3. emergency' \in BOOLEAN /\ tray' \in {"Running", "Paused"}
      BY <2>2 DEF Toggle, SetEnabled, Shown
    <3> QED
      BY <2>2, <3>1, <3>2, <3>3 DEF Toggle, TypeOK, At, pipeline, episodes
  <2>3. CASE QuickSetting
    <3>1. PICK value \in Values : StopBegins("setting", [settings EXCEPT !.value = value])
      BY <2>3 DEF QuickSetting
    <3>2. [settings EXCEPT !.value = value] \in Settings
      BY DEF TypeOK, Settings
    <3> QED
      BY <2>3, <3>1, <3>2, StopBeginsType DEF QuickSetting, Input, SpentByOne
  <2>4. CASE Exit
    BY <2>4, StopBeginsType DEF Exit, DialogClosed, Input, SpentByOne
  <2>5. ASSUME NEW kind \in {"dialog", "custom"}, OpenDialog(kind)
        PROVE  TypeOK'
    <3>1. Typed
      BY <2>5, SpentType DEF OpenDialog, Input, SpentByOne
    <3> QED
      BY <2>5, <3>1 DEF OpenDialog, TypeOK, switches, pipeline, screen, history
  <2>6. CASE DialogCancelled
    BY <2>6 DEF DialogCancelled, DialogClosed, NoDialog, TypeOK, switches, pipeline,
                screen, history
  <2>7. CASE DialogSaved
    <3>1. PICK value \in Values :
            StopBegins("dialog", [dialog.draft EXCEPT !.value = value])
      BY <2>7 DEF DialogSaved
    <3>2. [dialog.draft EXCEPT !.value = value] \in Settings
      BY <2>7 DEF DialogSaved, TypeOK, Settings
    <3> QED
      BY <2>7, <3>1, <3>2, StopBeginsType DEF DialogSaved, DialogClosed, SpentByOne
  <2>8. CASE CustomSaved
    <3>1. PICK value \in Values : StopBegins("setting", [settings EXCEPT !.value = value])
      BY <2>8 DEF CustomSaved
    <3>2. [settings EXCEPT !.value = value] \in Settings
      BY DEF TypeOK, Settings
    <3> QED
      BY <2>8, <3>1, <3>2, StopBeginsType DEF CustomSaved, DialogClosed, SpentByOne
  <2> QED
    BY <1>3, <2>1, <2>2, <2>3, <2>4, <2>5, <2>6, <2>7, <2>8 DEF User
<1>4. CASE CoolingPasses
  <2>1. UNCHANGED <<file, switches, pipeline, posted, ui, dialog, tray, reported,
                    history, spent>>
    BY <1>4 DEF CoolingPasses
  <2>2. cooling' \in BOOLEAN
    BY <1>4 DEF CoolingPasses
  <2> QED
    BY <2>1, <2>2 DEF TypeOK, switches, pipeline, history
<1>5. CASE MessageThread
  <2>1. CASE StartSucceeds
    BY <2>1 DEF StartSucceeds, TypeOK, At, Shown, Working, history
  <2>2. CASE StartFails
    BY <2>2 DEF StartFails, TypeOK, At, NoHook, history
  <2>3. CASE Stopped
    <3>1. CASE ui.job = "exit"
      BY <2>3, <3>1, SpentType, OffType DEF Stopped, SpentByOne
    <3>2. CASE ui.job # "exit"
      BY <2>3, <3>2 DEF Stopped, GoesOn, TypeOK, At, Settings, screen, history
    <3> QED
      BY <3>1, <3>2
  <2>4. CASE SaveWrites
    BY <2>4 DEF SaveWrites, TypeOK, switches, pipeline, screen, history
  <2>5. CASE SaveCannotWrite
    BY <2>5, SaveReturnsType DEF SaveCannotWrite, SpentByOne
  <2>6. CASE SaveRemoves
    <3>1. spent' \in [inputs : 0 .. MaxInputs, faults : 0 .. MaxFaults,
                      crashes : 0 .. MaxCrashes]
      BY <2>6, SpentType DEF SaveRemoves, SpentByOne
    <3> QED
      BY <2>6, <3>1 DEF SaveRemoves, TypeOK, switches, pipeline, screen, history
  <2>7. CASE SaveRenames
    BY <2>7, SaveReturnsType DEF SaveRenames, SpentByOne
  <2>8. CASE Report
    <3>1. posted' \in Seq(Reports) /\ Len(posted') <= Capacity /\ Head(posted) \in Reports
      BY <2>8, EmptySeq, HeadTailProperties DEF Report, TypeOK
    <3>2. tray' \in {"Running", "Paused", "Unsatisfiable", "ApiError", "Rebuilding"}
      BY <2>8, <3>1 DEF Report, TrayAfter, Reports, Shown
    <3>3. reported' \in BOOLEAN
      BY <2>8 DEF Report, Reported, TypeOK
    <3>4. spent' \in [inputs : 0 .. MaxInputs, faults : 0 .. MaxFaults,
                      crashes : 0 .. MaxCrashes]
      BY <2>8, SpentType DEF Report, SpentByOne
    <3>5. cooling' = TRUE \/ cooling' = cooling
      BY <2>8 DEF Report
    <3>6. \/ unnoticed' = unnoticed
          \/ unnoticed' = IF unnoticed > 0 THEN unnoticed - 1 ELSE 0
      BY <2>8 DEF Report
    <3>7. cooling' \in BOOLEAN
      BY <3>5 DEF TypeOK
    <3>8. unnoticed' \in 0 .. MaxEpisodes
      BY <3>6 DEF TypeOK
    <3> QED
      BY <2>8, <3>1, <3>2, <3>3, <3>4, <3>7, <3>8 DEF Report, TypeOK, switches, pipeline
  <2> QED
    BY <1>5, <2>1, <2>2, <2>3, <2>4, <2>5, <2>6, <2>7, <2>8 DEF MessageThread
<1>6. CASE HookThread
  <2>1. spent' \in [inputs : 0 .. MaxInputs, faults : 0 .. MaxFaults,
                    crashes : 0 .. MaxCrashes]
    BY <1>6, SpentType DEF HookThread, HookBegins, HookEnds, SpentByOne
  <2>2. hook' \in [at : {"none", "new", "on", "failed"}, id : BOOLEAN, quit : BOOLEAN]
    <3>1. CASE HookBegins
      <4>1. \/ hook' = [hook EXCEPT !.at = "on", !.id = TRUE]
            \/ hook' = [hook EXCEPT !.at = "failed"]
        BY <3>1 DEF HookBegins
      <4> QED
        BY <4>1 DEF TypeOK
    <3>2. CASE HookEnds
      BY <3>2 DEF HookEnds, NoHook
    <3> QED
      BY <1>6, <3>1, <3>2 DEF HookThread
  <2>3. UNCHANGED <<file, settings, enabled, built, loop, stop, posted, ui, dialog,
                    screen, history>>
    BY <1>6 DEF HookThread, HookBegins, HookEnds
  <2> QED
    BY <2>1, <2>2, <2>3 DEF TypeOK, screen, history
<1>7. CASE CoordinatorThread
  <2>1. CASE LoopChecks
    BY <2>1 DEF LoopChecks, LoopOnly, TypeOK, Working, switches, screen, episodes
  <2>2. CASE BatchBegins
    BY <2>2 DEF BatchBegins, LoopOnly, TypeOK, Working, switches, screen, episodes
  <2>3. CASE BatchEnds
    <3>1. PICK report \in Reports :
            /\ posted' = IF Len(posted) < Capacity THEN Append(posted, report) ELSE posted
            /\ \/ unnoticed < MaxEpisodes /\ unnoticed' = unnoticed + 1 /\ failing' = TRUE
               \/ unnoticed' = unnoticed /\ failing' \in BOOLEAN
      BY <2>3 DEF BatchEnds, Reports
    <3>2. posted' \in Seq(Reports) /\ Len(posted') <= Capacity
      BY <3>1, AppendProperties DEF TypeOK
    <3>3. unnoticed' \in 0 .. MaxEpisodes
      BY <3>1 DEF TypeOK
    <3>4. failing' \in BOOLEAN
      BY <3>1
    <3> QED
      BY <2>3, <3>2, <3>3, <3>4 DEF BatchEnds, LoopOnly, TypeOK, Working, switches, screen
  <2> QED
    BY <1>7, <2>1, <2>2, <2>3 DEF CoordinatorThread
<1>8. CASE UNCHANGED vars
  BY <1>8 DEF vars, TypeOK
<1> QED
  BY <1>1, <1>2, <1>3, <1>4, <1>5, <1>6, <1>7, <1>8 DEF Next

(* Types hold in every behaviour, with the settings a handler is to apply  *)
(* and the draft of a dialog there exactly when they are needed.           *)
THEOREM TypeCorrect == Spec => []TypeOK
BY TypeInit, TypeStep, PTL DEF Spec

-----------------------------------------------------------------------------
(* The pipeline                                                            *)

(* Nothing of a pipeline is there, or all of it. *)
Gone == built = None /\ hook.at = "none" /\ loop = "none"

Whole ==
  /\ built = settings.value
  /\ hook.at = "on" /\ hook.id /\ ~ hook.quit
  /\ loop \in Working /\ ~ stop

(* What there is of the pipeline, by where the message thread is.  In a    *)
(* stop both threads end in their own time, but while one has not the      *)
(* objects are there; before a rebuild everything has gone.                *)
PipelineInv ==
  /\ ui.at = "off" => Gone
  /\ ui.at = "loop" => Gone \/ Whole
  /\ ui.at \in {"write", "remove", "rename"} =>
       Gone \/ (ui.job = "none" /\ Whole)
  /\ ui.at = "starting" =>
       /\ built = settings.value /\ loop = "none"
       /\ hook.at \in {"new", "on", "failed"} /\ ~ hook.quit
       /\ hook.at = "on" => hook.id
  /\ ui.at = "stopping" =>
       /\ hook.at \in {"none", "on"}
       /\ loop \in Working \cup {"none", "ended"}
       /\ built = None => hook.at = "none" /\ loop = "none"

LEMMA PipelineInit == Init => PipelineInv
BY DEF Init, PipelineInv, Gone, NoHook, At

(* A stop that begins with a pipeline whole or gone. *)
LEMMA StopBeginsPipeline ==
  ASSUME TypeOK, Gone \/ Whole, NEW job, NEW asked, StopBegins(job, asked)
  PROVE  PipelineInv'
<1>1. ui'.at = "stopping" /\ built' = built /\ loop' = loop
  BY DEF StopBegins
<1>2. hook'.at = hook.at
  BY DEF StopBegins, TypeOK
<1>3. Whole => built # None
  BY ConstantsAssumption DEF Whole, TypeOK, Settings
<1> QED
  BY <1>1, <1>2, <1>3 DEF PipelineInv, Gone, Whole

(* A save that returns. *)
LEMMA SaveReturnsPipeline ==
  ASSUME PipelineInv, ui.at \in {"write", "remove", "rename"},
         NEW failed, SaveReturns(failed)
  PROVE  PipelineInv'
<1>1. CASE ui.job = "none"
  <2>1. Gone \/ Whole
    BY DEF PipelineInv
  <2>2. ui'.at = "loop" /\ UNCHANGED <<pipeline, switches>>
    BY <1>1 DEF SaveReturns, At
  <2>3. Gone' \/ Whole'
    BY <2>1, <2>2 DEF Gone, Whole, pipeline, switches
  <2> QED
    BY <2>2, <2>3 DEF PipelineInv
<1>2. CASE ui.job # "none"
  <2>1. Gone
    BY <1>2 DEF PipelineInv
  <2>2. ui'.at = "starting" /\ Build(settings.value) /\ UNCHANGED settings
    BY <1>2 DEF SaveReturns, At, switches
  <2> QED
    BY <2>1, <2>2 DEF PipelineInv, Gone, Build, NewHook, NoHook
<1> QED
  BY <1>1, <1>2

(* A step that leaves the pipeline, its settings and the place alone. *)
LEMMA PipelineUntouched ==
  ASSUME PipelineInv, UNCHANGED <<pipeline, settings, ui>>
  PROVE  PipelineInv'
BY DEF PipelineInv, Gone, Whole, pipeline

LEMMA PipelineStep == TypeOK /\ PipelineInv /\ [Next]_vars => PipelineInv'
<1> SUFFICES ASSUME TypeOK, PipelineInv, [Next]_vars
             PROVE  PipelineInv'
  OBVIOUS
<1>1. CASE Starts
  <2>1. ui.at = "off" /\ ui'.at = "starting" /\ Build(settings'.value)
    BY <1>1 DEF Starts, At
  <2> QED
    BY <2>1 DEF PipelineInv, Gone, Build, NewHook, NoHook
<1>2. ASSUME Off
      PROVE  PipelineInv'
  BY <1>2 DEF Off, PipelineInv, Gone, NoHook, At
<1>3. CASE User
  <2>1. ASSUME SetEnabled(enabled'), ui.at = "loop", ui' = At("write"), UNCHANGED pipeline
        PROVE  PipelineInv'
    <3>1. settings'.value = settings.value
      BY <2>1 DEF SetEnabled, TypeOK, Settings
    <3>2. Gone' \/ Whole'
      BY <2>1, <3>1 DEF PipelineInv, Gone, Whole, pipeline
    <3>3. ui'.at = "write" /\ ui'.job = "none"
      BY <2>1 DEF At
    <3> QED
      BY <3>2, <3>3 DEF PipelineInv
  <2>2. CASE Hotkey
    BY <2>1, <2>2 DEF Hotkey, Input, Pumping, SetEnabled
  <2>3. CASE Toggle
    BY <2>1, <2>3 DEF Toggle, Input, Pumping, SetEnabled
  <2>4. ASSUME ui.at = "loop", NEW job, NEW asked, StopBegins(job, asked)
        PROVE  PipelineInv'
    BY <2>4, StopBeginsPipeline DEF PipelineInv
  <2>5. CASE QuickSetting
    BY <2>4, <2>5 DEF QuickSetting, Input, Pumping
  <2>6. CASE Exit
    BY <2>4, <2>6 DEF Exit, Input, Pumping
  <2>7. CASE DialogSaved
    BY <2>4, <2>7 DEF DialogSaved, Pumping
  <2>8. CASE CustomSaved
    BY <2>4, <2>8 DEF CustomSaved, Pumping
  <2>9. CASE DialogCancelled \/ OpenDialog("dialog") \/ OpenDialog("custom")
    BY <2>9, PipelineUntouched DEF DialogCancelled, OpenDialog, switches
  <2> QED
    BY <1>3, <2>2, <2>3, <2>5, <2>6, <2>7, <2>8, <2>9 DEF User
<1>4. CASE MessageThread
  <2>1. CASE StartSucceeds
    <3>1. hook.id /\ ~ hook.quit
      BY <2>1 DEF StartSucceeds, PipelineInv
    <3>2. Whole'
      BY <2>1, <3>1 DEF StartSucceeds, PipelineInv, Whole, Working
    <3> QED
      BY <2>1, <3>2 DEF StartSucceeds, PipelineInv, At
  <2>2. CASE StartFails
    BY <2>2 DEF StartFails, PipelineInv, Gone, NoHook, At
  <2>3. CASE Stopped
    <3>1. hook.at = "none"
      BY <2>3 DEF Stopped, Joined
    <3>2. CASE GoesOn
      <4>1. Gone'
        BY <3>1, <3>2 DEF GoesOn, Gone
      <4>2. ui'.at = "write"
        BY <3>2 DEF GoesOn, At
      <4> QED
        BY <4>1, <4>2 DEF PipelineInv
    <3> QED
      BY <2>3, <3>2, <1>2 DEF Stopped
  <2>4. CASE SaveWrites \/ SaveRemoves
    <3>1. /\ ui.at \in {"write", "remove"} /\ ui'.at \in {"remove", "rename"}
          /\ ui'.job = ui.job /\ UNCHANGED <<switches, pipeline>>
      BY <2>4 DEF SaveWrites, SaveRemoves, TypeOK
    <3>2. Gone' <=> Gone
      BY <3>1 DEF Gone, pipeline
    <3>3. Whole' <=> Whole
      BY <3>1 DEF Whole, pipeline, switches
    <3> QED
      BY <3>1, <3>2, <3>3 DEF PipelineInv
  <2>5. CASE SaveCannotWrite \/ SaveRenames
    BY <2>5, SaveReturnsPipeline DEF SaveCannotWrite, SaveRenames
  <2>6. CASE Report
    BY <2>6, PipelineUntouched DEF Report, switches
  <2> QED
    BY <1>4, <2>1, <2>2, <2>3, <2>4, <2>5, <2>6 DEF MessageThread
<1>5. CASE HookThread
  <2>1. UNCHANGED <<settings, built, loop, stop, ui>>
    BY <1>5 DEF HookThread, HookBegins, HookEnds
  <2>2. CASE HookBegins
    <3>1. ui.at = "starting"
      BY <2>2 DEF HookBegins, PipelineInv, Gone, Whole, TypeOK
    <3>2. hook'.at \in {"on", "failed"} /\ hook'.quit = hook.quit
          /\ (hook'.at = "on" => hook'.id)
      BY <2>2 DEF HookBegins, TypeOK
    <3> QED
      BY <2>1, <3>1, <3>2 DEF PipelineInv
  <2>3. CASE HookEnds
    <3>1. ui.at = "stopping"
      BY <2>3 DEF HookEnds, PipelineInv, Gone, Whole, TypeOK
    <3>2. hook'.at = "none"
      BY <2>3 DEF HookEnds, NoHook
    <3> QED
      BY <2>1, <3>1, <3>2 DEF PipelineInv
  <2> QED
    BY <1>5, <2>2, <2>3 DEF HookThread
<1>6. CASE CoordinatorThread
  <2>1. /\ UNCHANGED <<settings, built, hook, stop, ui>>
        /\ loop \in Working
        /\ loop' \in Working \cup {"ended"} /\ (~ stop => loop' \in Working)
    BY <1>6 DEF CoordinatorThread, LoopChecks, BatchBegins, BatchEnds, LoopOnly, switches,
                Working
  <2>2. ~ Gone /\ loop # "none"
    BY <2>1 DEF Gone, Working
  <2>3. Whole => Whole'
    BY <2>1 DEF Whole
  <2> QED
    BY <2>1, <2>2, <2>3 DEF PipelineInv
<1>7. CASE CoolingPasses
  BY <1>7, PipelineUntouched DEF CoolingPasses, switches
<1>8. CASE UNCHANGED vars
  BY <1>8, PipelineUntouched DEF vars, pipeline
<1> QED
  BY <1>1, <1>2, <1>3, <1>4, <1>5, <1>6, <1>7, <1>8 DEF Next, Killed

(* PipelineInv holds in every behaviour. *)
LEMMA PipelineInvariant == Spec => []PipelineInv
BY PipelineInit, PipelineStep, TypeCorrect, PTL DEF Spec

(* The two threads never run without the queue, the coordinator and the    *)
(* other objects that start_window_manager made for them.                  *)
THEOREM ObjectsOutlive == Spec => []ObjectsOutliveThreads
<1>1. TypeOK /\ PipelineInv => ObjectsOutliveThreads
  <2> SUFFICES ASSUME TypeOK, PipelineInv, built = None,
                      hook.at \in {"new", "on"} \/ loop \in Working
               PROVE  FALSE
    BY DEF ObjectsOutliveThreads
  <2>1. ~ Gone
    BY DEF Gone, Working
  <2>2. built # settings.value
    BY ConstantsAssumption DEF TypeOK, Settings
  <2> QED
    BY <2>1, <2>2 DEF PipelineInv, Gone, Whole, TypeOK
<1> QED
  BY <1>1, PipelineInvariant, TypeCorrect, PTL

(* Between handlers the pipeline is complete and has the current settings, *)
(* or is gone: no setting change, failed hook or nested dialog leaves half *)
(* of one behind.                                                          *)
THEOREM PipelineStaysWhole == Spec => []PipelineIsWhole
<1>1. PipelineInv => PipelineIsWhole
  BY DEF PipelineInv, PipelineIsWhole, Pumping, Gone, Whole
<1> QED
  BY <1>1, PipelineInvariant, PTL

(* Settings are replaced only while no coordinator thread reads them.      *)
THEOREM SettingsAreUnshared == Spec => SettingsHaveNoReader
<1> DEFINE Unshared ==
      settings'.value # settings.value /\ ui'.at # "off" => loop \in {"none", "ended"}
<1>1. TypeOK /\ PipelineInv /\ [Next]_vars => [Unshared]_vars
  <2> SUFFICES ASSUME TypeOK, PipelineInv, Next, settings'.value # settings.value,
                      ui'.at # "off"
               PROVE  loop \in {"none", "ended"}
    OBVIOUS
  <2>1. CASE Starts
    BY <2>1 DEF Starts, PipelineInv, Gone
  <2>2. CASE Stopped
    BY <2>2 DEF Stopped, Joined
  <2>3. ~ Off
    BY DEF Off, At
  <2>4. ~ (Hotkey \/ Toggle)
    BY DEF Hotkey, Toggle, SetEnabled, TypeOK, Settings
  <2>5. settings' # settings
    OBVIOUS
  <2>6. ~ (QuickSetting \/ Exit \/ OpenDialog("dialog") \/ OpenDialog("custom")
           \/ DialogCancelled \/ DialogSaved \/ CustomSaved)
    BY <2>5 DEF QuickSetting, Exit, OpenDialog, DialogCancelled, DialogSaved, CustomSaved,
                StopBegins, switches
  <2>7. ~ (StartSucceeds \/ StartFails \/ SaveWrites \/ SaveCannotWrite \/ SaveRemoves
           \/ SaveRenames \/ Report)
    BY <2>5 DEF StartSucceeds, StartFails, SaveWrites, SaveCannotWrite, SaveRemoves,
                SaveRenames, SaveReturns, Report, switches
  <2>8. ~ (HookThread \/ CoordinatorThread \/ CoolingPasses)
    BY <2>5 DEF HookThread, HookBegins, HookEnds, CoordinatorThread, LoopChecks,
                BatchBegins, BatchEnds, LoopOnly, CoolingPasses, switches
  <2> QED
    BY <2>1, <2>2, <2>3, <2>4, <2>6, <2>7, <2>8 DEF Next, Killed, User, MessageThread
<1> QED
  BY <1>1, PipelineInvariant, TypeCorrect, PTL DEF Spec, SettingsHaveNoReader

-----------------------------------------------------------------------------
(* The settings file                                                       *)

(* A pipeline that is being started has settings that were saved or loaded. *)
SavedInv == ui.at \in {"loop", "starting"} /\ ~ unsaved => file = settings

LEMMA SavedStep == TypeOK /\ SavedInv /\ [Next]_vars => SavedInv'
<1> SUFFICES ASSUME TypeOK, SavedInv, [Next]_vars, ui'.at \in {"loop", "starting"}, ~ unsaved'
             PROVE  file' = settings'
  BY DEF SavedInv
<1>1. CASE Starts
  BY <1>1 DEF Starts
<1>2. ~ Off
  BY DEF Off, At
<1>3. ~ (Hotkey \/ Toggle)
  <2>1. Hotkey \/ Toggle => ui' = At("write")
    BY DEF Hotkey, Toggle
  <2>2. At("write").at = "write"
    BY DEF At
  <2> QED
    BY <2>1, <2>2
<1>4. ~ (QuickSetting \/ Exit \/ DialogSaved \/ CustomSaved)
  BY DEF QuickSetting, Exit, DialogSaved, CustomSaved, StopBegins
<1>5. ~ (Stopped \/ SaveWrites \/ SaveRemoves)
  <2>1. ~ GoesOn
    BY DEF GoesOn, At
  <2>2. ~ SaveWrites
    BY DEF SaveWrites, TypeOK
  <2>3. ~ SaveRemoves
    BY DEF SaveRemoves, TypeOK
  <2> QED
    BY <1>2, <2>1, <2>2, <2>3 DEF Stopped
<1>6. CASE SaveCannotWrite \/ SaveRenames
  <2>1. file' = settings /\ SaveReturns(FALSE)
    BY <1>6 DEF SaveCannotWrite, SaveRenames, SaveReturns
  <2> QED
    BY <2>1 DEF SaveReturns, switches
<1>7. ASSUME UNCHANGED <<file, settings, unsaved>>, ui.at \in {"loop", "starting"}
      PROVE  file' = settings'
  BY <1>7 DEF SavedInv
<1>8. CASE StartSucceeds \/ StartFails \/ Report
  BY <1>7, <1>8 DEF StartSucceeds, StartFails, Report, Pumping, history, switches
<1>9. CASE OpenDialog("dialog") \/ OpenDialog("custom") \/ DialogCancelled
  BY <1>7, <1>9 DEF OpenDialog, DialogCancelled, Input, Pumping, history, switches
<1>10. CASE HookThread \/ CoordinatorThread \/ CoolingPasses
  BY <1>7, <1>10 DEF HookThread, HookBegins, HookEnds, CoordinatorThread, LoopChecks,
                     BatchBegins, BatchEnds, LoopOnly, CoolingPasses, history, switches
<1>11. CASE UNCHANGED vars
  BY <1>7, <1>11 DEF vars
<1> QED
  BY <1>1, <1>2, <1>3, <1>4, <1>5, <1>6, <1>8, <1>9, <1>10, <1>11
  DEF Next, User, MessageThread, Killed

(* Between handlers the file holds the settings in memory, unless the last *)
(* save failed, whatever was killed, changed or lost before.               *)
THEOREM SettingsAreSaved == Spec => []SavedIsCurrent
<1>1. Init => SavedInv
  BY DEF Init, SavedInv, At
<1>2. SavedInv => SavedIsCurrent
  BY DEF SavedInv, SavedIsCurrent, Pumping
<1> QED
  BY <1>1, <1>2, SavedStep, TypeCorrect, PTL DEF Spec
-----------------------------------------------------------------------------
(* Notifications                                                           *)

Closes(report) == report \in {"Recovered", "Disabled"}

(* Is the episode open when the first n reports have been handled?         *)
OpenAt(reports, open, n) ==
  \/ \E j \in 1 .. n : /\ reports[j] = "Unsatisfiable"
                       /\ \A k \in j + 1 .. n : ~ Closes(reports[k])
  \/ open /\ \A k \in 1 .. n : ~ Closes(reports[k])

(* The reports that will be the first of an episode. *)
Entries(reports, open) ==
  {i \in DOMAIN reports : reports[i] = "Unsatisfiable" /\ ~ OpenAt(reports, open, i - 1)}
OpenAfter(reports, open) == OpenAt(reports, open, Len(reports))

LEMMA EntriesFinite ==
  ASSUME NEW reports \in Seq(Reports), NEW open \in BOOLEAN
  PROVE  IsFiniteSet(Entries(reports, open)) /\ Cardinality(Entries(reports, open)) \in Nat
<1>1. IsFiniteSet(1 .. Len(reports))
  BY FS_Interval, LenProperties
<1>2. Entries(reports, open) \in SUBSET (1 .. Len(reports))
  BY LenProperties DEF Entries
<1> QED
  BY <1>1, <1>2, FS_Subset, FS_CardinalityType

(* A set of numbers moved by one has as many elements. *)
LEMMA ShiftedSize ==
  ASSUME NEW A, NEW B, IsFiniteSet(A), \A i \in A : i \in Int /\ i + 1 \in B,
         \A i \in B : i \in Int /\ i - 1 \in A
  PROVE  Cardinality(B) = Cardinality(A)
<1> DEFINE F == [i \in A |-> i + 1]
<1>1. F \in [A -> B]
  OBVIOUS
<1>2. \A a, b \in A : F[a] = F[b] => a = b
  OBVIOUS
<1>3. \A b \in B : \E a \in A : F[a] = b
  <2> SUFFICES ASSUME NEW b \in B
               PROVE  F[b - 1] = b
    OBVIOUS
  <2>1. b - 1 \in A /\ b - 1 + 1 = b
    OBVIOUS
  <2> QED
    BY <2>1
<1>4. F \in Bijection(A, B)
  BY <1>1, <1>2, <1>3, Fun_IsBij
<1> QED
  BY <1>4, FS_Bijection DEF ExistsBijection

(* A report that is posted begins an episode or not, and leaves one open   *)
(* or not.                                                                 *)
LEMMA PostedEntries ==
  ASSUME NEW reports \in Seq(Reports), NEW open \in BOOLEAN, NEW report \in Reports
  PROVE  LET more == Append(reports, report)
         IN  /\ Cardinality(Entries(more, open)) =
                  Cardinality(Entries(reports, open))
                    + (IF report = "Unsatisfiable" /\ ~ OpenAfter(reports, open) THEN 1 ELSE 0)
             /\ OpenAfter(more, open) <=>
                  report = "Unsatisfiable" \/ (OpenAfter(reports, open) /\ ~ Closes(report))
<1> DEFINE more == Append(reports, report)
           n == Len(reports)
<1>1. /\ n \in Nat /\ more \in Seq(Reports) /\ Len(more) = n + 1 /\ more[n + 1] = report
      /\ DOMAIN reports = 1 .. n /\ DOMAIN more = 1 .. n + 1
      /\ \A i \in 1 .. n : more[i] = reports[i]
  BY AppendProperties, LenProperties
<1> HIDE DEF more, n
<1>2. \A m \in 0 .. n : OpenAt(more, open, m) <=> OpenAt(reports, open, m)
  <2> SUFFICES ASSUME NEW m \in 0 .. n
               PROVE  OpenAt(more, open, m) <=> OpenAt(reports, open, m)
    OBVIOUS
  <2>1. \A k \in 1 .. m : more[k] = reports[k]
    BY <1>1
  <2> QED
    BY <2>1, <1>1 DEF OpenAt
<1>3. OpenAfter(reports, open) <=> OpenAt(more, open, n)
  BY <1>1, <1>2 DEF OpenAfter, n
<1>4. OpenAfter(more, open) <=>
        report = "Unsatisfiable" \/ (OpenAt(more, open, n) /\ ~ Closes(report))
  <2>1. OpenAfter(more, open) <=> OpenAt(more, open, n + 1)
    BY <1>1 DEF OpenAfter
  <2>2. 1 .. n + 1 = (1 .. n) \cup {n + 1}
    BY <1>1
  <2>3. \A j \in 1 .. n : j + 1 .. n + 1 = (j + 1 .. n) \cup {n + 1}
    BY <1>1
  <2>4. n + 1 + 1 .. n + 1 = {}
    BY <1>1
  <2> DEFINE Quiet(l, j) == \A k \in l .. j : ~ Closes(more[k])
  <2>5. \A j \in 1 .. n : Quiet(j + 1, n + 1) <=> Quiet(j + 1, n) /\ ~ Closes(report)
    BY <2>3, <1>1
  <2>6. Quiet(1, n + 1) <=> Quiet(1, n) /\ ~ Closes(report)
    BY <2>2, <1>1
  <2>7. Quiet(n + 1 + 1, n + 1)
    BY <2>4
  <2>8. OpenAt(more, open, n + 1) <=>
          \/ \E j \in 1 .. n + 1 : more[j] = "Unsatisfiable" /\ Quiet(j + 1, n + 1)
          \/ open /\ Quiet(1, n + 1)
    BY Zenon DEF OpenAt
  <2>9. OpenAt(more, open, n) <=>
          \/ \E j \in 1 .. n : more[j] = "Unsatisfiable" /\ Quiet(j + 1, n)
          \/ open /\ Quiet(1, n)
    BY Zenon DEF OpenAt
  <2> HIDE DEF Quiet
  <2>10. (\E j \in 1 .. n + 1 : more[j] = "Unsatisfiable" /\ Quiet(j + 1, n + 1)) <=>
           \/ \E j \in 1 .. n : more[j] = "Unsatisfiable" /\ Quiet(j + 1, n + 1)
           \/ report = "Unsatisfiable"
    BY <2>2, <2>7, <1>1
  <2> QED
    BY <2>1, <2>5, <2>6, <2>8, <2>9, <2>10
<1>5. Entries(more, open) =
        Entries(reports, open)
          \cup (IF report = "Unsatisfiable" /\ ~ OpenAfter(reports, open) THEN {n + 1} ELSE {})
  BY <1>1, <1>2, <1>3 DEF Entries
<1>6. n + 1 \notin Entries(reports, open)
  BY <1>1 DEF Entries
<1>7. Cardinality(Entries(reports, open) \cup {n + 1}) = Cardinality(Entries(reports, open)) + 1
  BY <1>6, EntriesFinite, FS_AddElement
<1>8. Cardinality(Entries(reports, open)) \in Nat
  BY EntriesFinite
<1>9. OpenAfter(reports, open) <=> OpenAt(more, open, n)
  BY <1>3
<1> QED
  <2>1. CASE report = "Unsatisfiable" /\ ~ OpenAfter(reports, open)
    BY <2>1, <1>4, <1>5, <1>7, <1>9 DEF more
  <2>2. CASE ~ (report = "Unsatisfiable" /\ ~ OpenAfter(reports, open))
    <3>1. Entries(more, open) = Entries(reports, open)
      BY <2>2, <1>5
    <3> QED
      BY <2>2, <3>1, <1>4, <1>8, <1>9 DEF more
  <2> QED
    BY <2>1, <2>2

(* Handling a report takes its entry away, if it is one, and no other.     *)
LEMMA HandledEntries ==
  ASSUME NEW reports \in Seq(Reports), NEW open \in BOOLEAN, reports # <<>>, NEW still,
         still = ((open /\ ~ Closes(Head(reports))) \/ Head(reports) = "Unsatisfiable")
  PROVE  LET entered == Head(reports) = "Unsatisfiable" /\ ~ open
         IN  /\ Cardinality(Entries(reports, open)) =
                  Cardinality(Entries(Tail(reports), still)) + (IF entered THEN 1 ELSE 0)
             /\ OpenAfter(Tail(reports), still) <=> OpenAfter(reports, open)
<1> DEFINE rest == Tail(reports)
           n == Len(rest)
<1>1. /\ n \in Nat /\ rest \in Seq(Reports) /\ Len(reports) = n + 1
      /\ DOMAIN rest = 1 .. n /\ DOMAIN reports = 1 .. n + 1
      /\ Head(reports) = reports[1]
      /\ \A i \in 1 .. n : rest[i] = reports[i + 1]
  BY HeadTailProperties, LenProperties
<1> HIDE DEF rest, n
<1>2. \A i \in 0 .. n : OpenAt(rest, still, i) <=> OpenAt(reports, open, i + 1)
  <2> SUFFICES ASSUME NEW i \in 0 .. n
               PROVE  OpenAt(rest, still, i) <=> OpenAt(reports, open, i + 1)
    OBVIOUS
  <2> DEFINE Quiet(l) == \A k \in l .. i + 1 : ~ Closes(reports[k])
             Rested(l) == \A k \in l .. i : ~ Closes(rest[k])
  <2>1. \A j \in 0 .. i : Rested(j + 1) <=> Quiet(j + 2)
    <3> SUFFICES ASSUME NEW j \in 0 .. i
                 PROVE  Rested(j + 1) <=> Quiet(j + 2)
      OBVIOUS
    <3>1. \A k \in j + 1 .. i : k + 1 \in j + 2 .. i + 1 /\ rest[k] = reports[k + 1]
      BY <1>1
    <3>2. \A k \in j + 2 .. i + 1 : k - 1 \in j + 1 .. i /\ rest[k - 1] = reports[k]
      BY <1>1
    <3> QED
      BY <3>1, <3>2
  <2>2. OpenAt(rest, still, i) <=>
          \/ \E j \in 1 .. i : rest[j] = "Unsatisfiable" /\ Rested(j + 1)
          \/ still /\ Rested(1)
    BY Zenon DEF OpenAt
  <2>3. OpenAt(reports, open, i + 1) <=>
          \/ \E j \in 1 .. i + 1 : reports[j] = "Unsatisfiable" /\ Quiet(j + 1)
          \/ open /\ Quiet(1)
    BY Zenon DEF OpenAt
  <2>4. Quiet(1) <=> ~ Closes(reports[1]) /\ Quiet(2)
    <3>1. 1 .. i + 1 = {1} \cup 2 .. i + 1
      OBVIOUS
    <3> QED
      BY <3>1
  <2> HIDE DEF Quiet, Rested
  <2>5. Rested(1) <=> Quiet(2)
    <3>1. 0 \in 0 .. i /\ 0 + 1 = 1 /\ 0 + 2 = 2
      OBVIOUS
    <3> QED
      BY <2>1, <3>1
  <2>6. ASSUME NEW j \in 1 .. i, rest[j] = "Unsatisfiable", Rested(j + 1)
        PROVE  j + 1 \in 1 .. i + 1 /\ reports[j + 1] = "Unsatisfiable" /\ Quiet(j + 1 + 1)
    <3>1. j \in 0 .. i /\ j \in 1 .. n /\ j + 2 = j + 1 + 1 /\ j + 1 \in 1 .. i + 1
      BY <1>1
    <3> QED
      BY <2>1, <2>6, <3>1, <1>1
  <2>7. ASSUME NEW j \in 1 .. i + 1, reports[j] = "Unsatisfiable", Quiet(j + 1), j # 1
        PROVE  j - 1 \in 1 .. i /\ rest[j - 1] = "Unsatisfiable" /\ Rested(j - 1 + 1)
    <3>1. /\ j - 1 \in 0 .. i /\ j - 1 \in 1 .. n /\ j - 1 + 2 = j + 1
          /\ j - 1 \in 1 .. i /\ j - 1 + 1 = j
      BY <2>7, <1>1
    <3>2. Rested(j - 1 + 1)
      BY <2>1, <2>7, <3>1
    <3>3. rest[j - 1] = reports[j - 1 + 1]
      BY <3>1, <1>1
    <3> QED
      BY <2>7, <3>1, <3>2, <3>3
  <2>8. 1 \in 1 .. i + 1 /\ 1 + 1 = 2
    OBVIOUS
  <2>9. ASSUME OpenAt(rest, still, i) PROVE OpenAt(reports, open, i + 1)
    <3>1. CASE still /\ Rested(1)
      <4>1. (open /\ ~ Closes(reports[1])) \/ reports[1] = "Unsatisfiable"
        BY <3>1, <1>1
      <4> QED
        BY <3>1, <4>1, <2>3, <2>4, <2>5, <2>8
    <3>2. CASE \E j \in 1 .. i : rest[j] = "Unsatisfiable" /\ Rested(j + 1)
      BY <3>2, <2>3, <2>6
    <3> QED
      BY <2>2, <2>9, <3>1, <3>2
  <2>10. ASSUME OpenAt(reports, open, i + 1) PROVE OpenAt(rest, still, i)
    <3>1. CASE open /\ Quiet(1)
      BY <3>1, <1>1, <2>2, <2>4, <2>5
    <3>2. ASSUME NEW j \in 1 .. i + 1, reports[j] = "Unsatisfiable", Quiet(j + 1)
          PROVE  OpenAt(rest, still, i)
      <4>1. CASE j = 1
        BY <3>2, <4>1, <1>1, <2>2, <2>5, <2>8
      <4>2. CASE j # 1
        BY <3>2, <4>2, <2>2, <2>7
      <4> QED
        BY <4>1, <4>2
    <3> QED
      BY <2>3, <2>10, <3>1, <3>2
  <2> QED
    BY <2>9, <2>10
<1>3. OpenAfter(rest, still) <=> OpenAfter(reports, open)
  BY <1>1, <1>2 DEF OpenAfter, n
<1>4. 1 \in Entries(reports, open) <=> Head(reports) = "Unsatisfiable" /\ ~ open
  BY <1>1 DEF Entries, OpenAt
<1>5. \A i \in 1 .. n : i \in Entries(rest, still) <=> i + 1 \in Entries(reports, open)
  BY <1>1, <1>2 DEF Entries
<1>6. Cardinality(Entries(reports, open) \ {1}) = Cardinality(Entries(rest, still))
  <2> DEFINE A == Entries(rest, still)
             B == Entries(reports, open) \ {1}
  <2>1. IsFiniteSet(A)
    BY <1>1, EntriesFinite DEF Closes
  <2>2. A \subseteq 1 .. n /\ B \subseteq 2 .. n + 1
    BY <1>1 DEF Entries
  <2>3. \A i \in A : i \in Int /\ i + 1 \in B
    BY <1>5, <2>2
  <2>4. \A i \in B : i \in Int /\ i - 1 \in A
    <3> SUFFICES ASSUME NEW i \in B
                 PROVE  i \in Int /\ i - 1 \in A
      OBVIOUS
    <3>1. i \in 2 .. n + 1
      BY <2>2
    <3>2. i - 1 \in 1 .. n /\ i - 1 + 1 = i /\ i \in Int
      BY <1>1, <3>1
    <3> QED
      BY <1>5, <3>2
  <2> HIDE DEF A, B
  <2>5. Cardinality(B) = Cardinality(A)
    BY <2>1, <2>3, <2>4, ShiftedSize
  <2> QED
    BY <2>5 DEF A, B
<1>7. /\ Cardinality(Entries(reports, open) \ {1}) =
           IF 1 \in Entries(reports, open) THEN Cardinality(Entries(reports, open)) - 1
                                           ELSE Cardinality(Entries(reports, open))
      /\ Cardinality(Entries(reports, open)) \in Nat
  BY EntriesFinite, FS_RemoveElement
<1> QED
  BY <1>3, <1>4, <1>6, <1>7 DEF rest

(* The failures not notified yet: those that are reported in the queue,    *)
(* and the present one if its report was lost.                             *)
Unreported ==
  Cardinality(Entries(posted, reported))
    + (IF failing /\ ~ OpenAfter(posted, reported) THEN 1 ELSE 0)
NoticeInv == Unreported <= unnoticed

LEMMA NoticeKept ==
  ASSUME NoticeInv, UNCHANGED <<posted, reported, failing, unnoticed>>
  PROVE  NoticeInv'
BY DEF NoticeInv, Unreported

LEMMA NothingReported == \A open : Cardinality(Entries(<<>>, open)) = 0
<1>1. \A open : Entries(<<>>, open) = {}
  BY EmptySeq, LenProperties DEF Entries
<1> QED
  BY <1>1, FS_EmptySet

(* A batch that fails anew is counted whether its report is lost or not.   *)
LEMMA BatchNotice == TypeOK /\ NoticeInv /\ BatchEnds => NoticeInv'
<1> SUFFICES ASSUME TypeOK, NoticeInv, BatchEnds
             PROVE  NoticeInv'
  OBVIOUS
<1>1. PICK report \in Reports :
        /\ posted' \in {posted, Append(posted, report)}
        /\ IF report = "Unsatisfiable" /\ ~ failing
           THEN failing' = TRUE /\ unnoticed' = unnoticed + 1
           ELSE /\ failing' = (failing /\ report \notin {"Recovered", "Disabled"})
                /\ unnoticed' = unnoticed
  <2>1. Outcomes \subseteq Reports /\ "Disabled" \in Reports
    BY ConstantsAssumption DEF Reports
  <2> QED
    BY <2>1 DEF BatchEnds
<1>2. reported' = reported
  BY DEF BatchEnds, LoopOnly, screen
<1>3. /\ posted \in Seq(Reports) /\ reported \in BOOLEAN /\ failing \in BOOLEAN
      /\ unnoticed \in Nat
  BY ConstantsAssumption DEF TypeOK
<1> DEFINE more == Append(posted, report)
           open == OpenAfter(posted, reported)
           count == Cardinality(Entries(posted, reported))
<1>4. /\ Cardinality(Entries(more, reported)) =
           count + (IF report = "Unsatisfiable" /\ ~ open THEN 1 ELSE 0)
      /\ OpenAfter(more, reported) <=> report = "Unsatisfiable" \/ (open /\ ~ Closes(report))
  BY <1>3, PostedEntries
<1>5. count \in Nat
  BY <1>3, EntriesFinite
<1>6. count + (IF failing /\ ~ open THEN 1 ELSE 0) <= unnoticed
  BY DEF NoticeInv, Unreported
<1>7. Unreported' = Cardinality(Entries(posted', reported))
                      + (IF failing' /\ ~ OpenAfter(posted', reported) THEN 1 ELSE 0)
  BY <1>2 DEF Unreported
<1> HIDE DEF more, open, count
<1>8. CASE posted' = posted
  <2>1. Unreported' = count + (IF failing' /\ ~ open THEN 1 ELSE 0)
    BY <1>7, <1>8 DEF count, open
  <2> QED
    BY <2>1, <1>1, <1>3, <1>5, <1>6 DEF NoticeInv
<1>9. CASE posted' = more
  <2>1. Unreported' = count + (IF report = "Unsatisfiable" /\ ~ open THEN 1 ELSE 0)
                        + (IF failing' /\ ~ (report = "Unsatisfiable" \/ (open /\ ~ Closes(report)))
                             THEN 1 ELSE 0)
    BY <1>4, <1>7, <1>9
  <2> QED
    <3>1. Closes(report) <=> report \in {"Recovered", "Disabled"}
      BY DEF Closes
    <3>2. CASE report = "Unsatisfiable" /\ ~ failing
      BY <3>2, <2>1, <1>1, <1>3, <1>5, <1>6 DEF NoticeInv
    <3>3. CASE report = "Unsatisfiable" /\ failing
      BY <3>3, <2>1, <1>1, <1>3, <1>5, <1>6 DEF NoticeInv
    <3>4. CASE report # "Unsatisfiable"
      <4>1. /\ unnoticed' = unnoticed
            /\ failing' /\ ~ (open /\ ~ Closes(report)) => failing /\ ~ open
        BY <3>1, <3>4, <1>1, <1>3
      <4>2. Unreported' = count + (IF failing' /\ ~ (open /\ ~ Closes(report)) THEN 1 ELSE 0)
        BY <3>4, <2>1, <1>5
      <4>3. Unreported' <= unnoticed
        <5>1. CASE failing' /\ ~ (open /\ ~ Closes(report))
          BY <5>1, <4>1, <4>2, <1>6
        <5>2. CASE ~ (failing' /\ ~ (open /\ ~ Closes(report)))
          BY <5>2, <4>2, <1>3, <1>5, <1>6
        <5> QED
          BY <5>1, <5>2
      <4> QED
        BY <4>1, <4>3 DEF NoticeInv
    <3> QED
      BY <3>2, <3>3, <3>4, <1>3
<1> QED
  BY <1>1, <1>8, <1>9 DEF more

(* A notification is for a report that begins an episode, and takes it.    *)
LEMMA ReportNotice ==
  ASSUME TypeOK, NoticeInv, Report
  PROVE  NoticeInv' /\ (cooling' /\ ~ cooling => unnoticed > 0)
<1> DEFINE entered == Head(posted) = "Unsatisfiable" /\ ~ reported
           count == Cardinality(Entries(posted, reported))
<1>1. /\ posted \in Seq(Reports) /\ reported \in BOOLEAN /\ failing \in BOOLEAN
      /\ unnoticed \in Nat /\ posted # <<>>
  BY ConstantsAssumption DEF TypeOK, Report
<1>2. /\ posted' = Tail(posted) /\ failing' = failing
      /\ reported' = ((reported /\ ~ Closes(Head(posted))) \/ Head(posted) = "Unsatisfiable")
  BY DEF Report, Reported, Closes
<1>3. \/ entered /\ unnoticed' = (IF unnoticed > 0 THEN unnoticed - 1 ELSE 0)
      \/ unnoticed' = unnoticed /\ cooling' = cooling
  BY DEF Report, Reported
<1>4. /\ count = Cardinality(Entries(posted', reported')) + (IF entered THEN 1 ELSE 0)
      /\ OpenAfter(posted', reported') <=> OpenAfter(posted, reported)
  BY <1>1, <1>2, HandledEntries
<1>5. count \in Nat /\ Cardinality(Entries(posted', reported')) \in Nat
  <2>1. posted' \in Seq(Reports)
    BY <1>1, <1>2, HeadTailProperties
  <2> QED
    BY <2>1, <1>1, <1>2, EntriesFinite
<1>6. count + (IF failing /\ ~ OpenAfter(posted, reported) THEN 1 ELSE 0) <= unnoticed
  BY DEF NoticeInv, Unreported
<1>7. Unreported' = Cardinality(Entries(posted', reported'))
                      + (IF failing /\ ~ OpenAfter(posted, reported) THEN 1 ELSE 0)
  BY <1>2, <1>4 DEF Unreported
<1> HIDE DEF count, entered
<1>8. NoticeInv'
  BY <1>1, <1>3, <1>4, <1>5, <1>6, <1>7 DEF NoticeInv
<1> QED
  BY <1>1, <1>3, <1>4, <1>5, <1>6, <1>8

LEMMA NoticeStep ==
  TypeOK /\ NoticeInv /\ [Next]_vars
    => NoticeInv' /\ [cooling' /\ ~ cooling => unnoticed > 0]_vars
<1> SUFFICES ASSUME TypeOK, NoticeInv, [Next]_vars
             PROVE  NoticeInv' /\ (cooling' /\ ~ cooling => unnoticed > 0)
  OBVIOUS
<1> DEFINE Same == UNCHANGED <<posted, reported, failing, unnoticed, cooling>>
<1>1. CASE Same
  BY <1>1, NoticeKept, Zenon
<1>2. CASE Off
  <2>1. posted' = <<>> /\ ~ failing' /\ unnoticed' = 0 /\ ~ cooling'
    BY <1>2 DEF Off
  <2> QED
    BY <2>1, NothingReported DEF NoticeInv, Unreported
<1>3. CASE Report
  BY <1>3, ReportNotice
<1>4. CASE BatchEnds
  BY <1>4, BatchNotice DEF BatchEnds, LoopOnly, screen
<1>5. CASE CoolingPasses
  BY <1>5, NoticeKept DEF CoolingPasses, history
<1>6. GoesOn => Same
  BY DEF GoesOn, screen, history
<1>7. Stopped => Same \/ Off
  BY <1>6 DEF Stopped
<1>8. Starts \/ Hotkey \/ Toggle => Same
  BY DEF Starts, Hotkey, Toggle, episodes
<1>9. QuickSetting \/ Exit \/ DialogSaved \/ CustomSaved => Same
  BY DEF QuickSetting, Exit, DialogSaved, CustomSaved, StopBegins, history
<1>10. OpenDialog("dialog") \/ OpenDialog("custom") \/ DialogCancelled => Same
  BY DEF OpenDialog, DialogCancelled, screen, history
<1>11. StartSucceeds \/ StartFails \/ HookBegins \/ HookEnds => Same
  BY DEF StartSucceeds, StartFails, HookBegins, HookEnds, screen, history
<1>12. SaveWrites \/ SaveCannotWrite \/ SaveRemoves \/ SaveRenames => Same
  BY DEF SaveWrites, SaveCannotWrite, SaveRemoves, SaveRenames, SaveReturns, screen,
         history, episodes
<1>13. LoopChecks \/ BatchBegins => Same
  BY DEF LoopChecks, BatchBegins, LoopOnly, screen, episodes
<1>14. UNCHANGED vars => Same
  BY DEF vars
<1> HIDE DEF Same
<1> QED
  BY <1>1, <1>2, <1>3, <1>4, <1>5, <1>7, <1>8, <1>9, <1>10, <1>11, <1>12, <1>13, <1>14
  DEF Next, User, MessageThread, HookThread, CoordinatorThread, Killed

(* The user is notified of a failure at most once, and only of failures    *)
(* that began after the one notified before, whatever reports are lost.    *)
THEOREM NoticesAreNews == Spec => NoticesAreForNewFailures
<1>1. Init => NoticeInv
  BY NothingReported DEF Init, NoticeInv, Unreported
<1> QED
  BY <1>1, NoticeStep, TypeCorrect, PTL DEF Spec, NoticesAreForNewFailures
=============================================================================
