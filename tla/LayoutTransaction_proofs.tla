---------------------- MODULE LayoutTransaction_proofs ----------------------
(***************************************************************************)
(* Machine-checked safety of LayoutTransaction, for any number of windows, *)
(* transactions, disturbances and planned moves.                           *)
(***************************************************************************)
EXTENDS LayoutTransaction, TLAPS, SequenceTheorems

FailureMemory == [stamp : 0..MaxStamp, windows : SUBSET Key]
Guards == [stamp : 0..MaxStamp, cancelled : BOOLEAN]

-----------------------------------------------------------------------------
(* Type correctness                                                        *)

(* What a capture shows is a window seen for every handle. *)
LEMMA CapturesType ==
  ASSUME desktop \in [Hwnds -> Window]
  PROVE  Captures \subseteq [Hwnds -> SeenWindow]
BY DEF Captures, Window, SeenWindow

(* A plan is a nonempty sequence of moves. *)
LEMMA PlansType ==
  ASSUME desktop \in [Hwnds -> Window], era \in [Hwnds -> 0..MaxEra],
         NEW p \in Plans
  PROVE  p \in Seq(Move) /\ Len(p) \in Nat \ {0} /\ DOMAIN p = 1..Len(p)
<1>1. Moves \subseteq Move
  BY DEF Moves, Move, KeyOf, Key, Window
<1>2. PICK n \in 1..MaxPlan : p \in [1..n -> Moves]
  BY DEF Plans
<1>3. n \in Nat \ {0}
  BY <1>2, ConstantsAssumption
<1>4. p \in [1..n -> Move]
  BY <1>1, <1>2
<1> QED
  BY <1>3, <1>4

(* Recording a failure keeps the memory well formed. *)
LEMMA RecordFailureType ==
  ASSUME NEW f \in FailureMemory, NEW s \in 0..MaxStamp, NEW k \in Key
  PROVE  RecordFailure(f, s, k) \in FailureMemory
BY DEF RecordFailure, FailureMemory

(* Every return of apply() leaves a well-formed state. *)
LEMMA ReturnType ==
  ASSUME TypeOK, NEW status \in Statuses, NEW reconcile \in BOOLEAN,
         Return(status, reconcile),
         failures' \in FailureMemory, tokens' \subseteq Hwnds, refused' \subseteq Key
  PROVE  TypeOK'
BY DEF TypeOK, Return, FailureMemory, world, uiVars, Calling, Stages, NoSnapshot, NoTraits

(* record_failure() followed by a return. *)
LEMMA FailType ==
  ASSUME TypeOK, NEW status \in Statuses, NEW k \in Key, Fail(status, k),
         tokens' \subseteq Hwnds
  PROVE  TypeOK'
<1>1. failures' \in FailureMemory
  BY RecordFailureType DEF TypeOK, Fail, NoteFailure, FailureMemory
<1>2. refused' \subseteq Key
  BY DEF TypeOK, Fail, NoteFailure
<1> QED
  BY <1>1, <1>2, ReturnType DEF Fail

(* A failed move, whether apply() returns or goes on. *)
LEMMA FailMoveType ==
  ASSUME TypeOK, NEW status \in Statuses, NEW k \in Key, FailMove(status, k),
         Calling, index \in DOMAIN plan, snapshot \in [Hwnds -> SeenWindow],
         tokens' \subseteq Hwnds
  PROVE  TypeOK'
<1>1. CASE Fail(status, k)
  BY <1>1, FailType
<1>2. CASE ~ StopOnFailure /\ ~ Fail(status, k)
  <2>1. /\ NoteFailure(k)
        /\ failed' = failed \cup {index} /\ index' = index + 1 /\ pc' = "check"
        /\ UNCHANGED <<world, uiVars, era, stamp, guard, result, plan, snapshot,
                       invariants, applied, overrun, touched, carried>>
    BY <1>2 DEF FailMove
  <2>2. failures' \in FailureMemory /\ refused' \subseteq Key
    BY <2>1, RecordFailureType DEF TypeOK, NoteFailure, FailureMemory
  <2>3. index' \in 1..(Len(plan') + 1)
    BY <2>1 DEF TypeOK
  <2> QED
    BY <2>1, <2>2, <2>3 DEF TypeOK, FailureMemory, world, uiVars, Calling, Stages
<1> QED
  BY <1>1, <1>2 DEF FailMove

(* Every element of the plan is a move of a window with a key. *)
LEMMA PlanElementType ==
  ASSUME TypeOK, NEW i \in DOMAIN plan
  PROVE  plan[i] \in Move /\ plan[i].win \in Key /\ plan[i].win.hwnd \in Hwnds
<1>1. plan \in Seq(Move)
  BY DEF TypeOK
<1>2. plan[i] \in Move
  BY <1>1
<1>3. plan[i].win \in Key
  BY <1>2 DEF Move
<1> QED
  BY <1>2, <1>3 DEF Key

LEMMA CancelledGuardType ==
  ASSUME NEW g \in Guards
  PROVE  CancelledGuard(g) \in Guards
BY DEF Guards, CancelledGuard

LEMMA TypeInit == Init => TypeOK
<1> SUFFICES ASSUME Init PROVE TypeOK
  OBVIOUS
<1>1. desktop \in [Hwnds -> Window]
  <2>1. {1} \subseteq 1..MaxOwner /\ {TRUE} \subseteq BOOLEAN
    BY ConstantsAssumption
  <2>2. ASSUME NEW w \in [owner : {1}, alive : {TRUE}, place : Places, trait : Traits]
        PROVE  w \in Window
    BY <2>1 DEF Window
  <2> QED
    BY <2>2 DEF Init
<1>2. guard \in [stamp : 0..MaxStamp, cancelled : BOOLEAN]
  BY ConstantsAssumption DEF Init, ClosedGuard
<1>3. failures \in [stamp : 0..MaxStamp, windows : SUBSET Key]
  BY ConstantsAssumption DEF Init, NoFailures
<1>4. result \in [status : Statuses, reconcile : BOOLEAN]
  BY DEF Init, NoResult, Statuses
<1>5. plan \in Seq(Move) /\ Len(plan) = 0 /\ DOMAIN plan = {} /\ plan = <<>>
  BY DEF Init
<1> QED
  BY <1>1, <1>2, <1>3, <1>4, <1>5, ConstantsAssumption
  DEF Init, TypeOK, Stages, NoSnapshot, NoTraits, Calling

LEMMA TypeStep == TypeOK /\ [Next]_vars => TypeOK'
<1> SUFFICES ASSUME TypeOK, [Next]_vars PROVE TypeOK'
  OBVIOUS
<1> USE ConstantsAssumption DEF world, uiVars, call, history
<1>1. CASE Pause
  BY <1>1 DEF Pause, TypeOK, Calling
<1>2. CASE CancelOnPause
  BY <1>2 DEF CancelOnPause, TypeOK, Calling, CancelledGuard
<1>3. CASE Resume
  BY <1>3 DEF Resume, TypeOK, Calling
<1>4. CASE ChangeSetting
  BY <1>4 DEF ChangeSetting, TypeOK, Calling, CancelledGuard
<1>5. CASE Restart
  BY <1>5 DEF Restart, TypeOK, Calling, ClosedGuard, NoFailures, NoResult, Statuses
<1>6. ASSUME NEW h \in Hwnds, Shove(h) \/ Close(h) \/ Reuse(h) PROVE TypeOK'
  <2>0. PICK w \in Window : Disturb(h, w)
    <3>1. desktop[h] \in Window
      BY DEF TypeOK
    <3>2. CASE Shove(h)
      BY <3>1, <3>2 DEF Shove, Window
    <3>3. CASE Close(h)
      BY <3>1, <3>3 DEF Close, Window
    <3>4. CASE Reuse(h)
      <4>1. PICK o \in (desktop[h].owner + 1)..MaxOwner :
                   Disturb(h, [desktop[h] EXCEPT !.owner = o, !.alive = TRUE])
        BY <3>4 DEF Reuse
      <4>2. o \in 1..MaxOwner
        BY <3>1, <4>1 DEF Window
      <4> QED
        BY <3>1, <4>1, <4>2 DEF Window
    <3> QED
      BY <1>6, <3>2, <3>3, <3>4
  <2>1. /\ disturbances' \in 0..MaxDisturbances
        /\ desktop' \in [Hwnds -> Window]
    BY <2>0 DEF Disturb, TypeOK
  <2>2. UNCHANGED <<uiVars, pc, era, stamp, guard, failures, tokens, call, result, history>>
    BY <1>6 DEF Shove, Close, Reuse, Disturb
  <2> QED
    BY <2>1, <2>2 DEF TypeOK, Calling
<1>7. CASE Gather
  BY <1>7 DEF Gather, TypeOK, Calling, Stages, NoResult, Statuses
<1>8. CASE BatchBegins
  BY <1>8 DEF BatchBegins, TypeOK, Calling, Stages
<1>9. CASE DisabledBatch
  BY <1>9, CancelledGuardType DEF DisabledBatch, TypeOK, Calling, Stages, Guards
<1>10. ASSUME NEW h \in Hwnds, CompleteInternalMove(h) PROVE TypeOK'
  BY <1>10 DEF CompleteInternalMove, TypeOK, Calling
<1>11. ASSUME NEW H \in SUBSET Hwnds, ForgetIdentity(H) PROVE TypeOK'
  BY <1>11 DEF ForgetIdentity, TypeOK, Calling
<1>12. CASE Activate
  BY <1>12 DEF Activate, TypeOK, Calling, Activated
<1>13. CASE OpeningFails
  BY <1>13, CancelledGuardType DEF OpeningFails, TypeOK, Calling, Stages, Guards
<1>14. CASE BatchEnds
  BY <1>14, CancelledGuardType DEF BatchEnds, TypeOK, Calling, Stages, Guards
<1>15. CASE Solve
  <2>1. plan' \in Seq(Move) /\ Len(plan') \in Nat \ {0} /\ DOMAIN plan' = 1..Len(plan')
    BY <1>15, PlansType DEF Solve, TypeOK
  <2> QED
    BY <1>15, <2>1 DEF Solve, TypeOK, Calling, Stages
<1>16. CASE Begin
  <2>1. CASE Return("DryRun", FALSE) \/ Return("Cancelled", TRUE)
    BY <1>16, <2>1, ReturnType DEF Begin, Statuses, TypeOK, FailureMemory
  <2>2. CASE ~ (Return("DryRun", FALSE) \/ Return("Cancelled", TRUE))
    <3>1. /\ pc = "solved" /\ pc' = "before" /\ invariants' = NoTraits
          /\ carried' = tokens
          /\ UNCHANGED <<world, uiVars, era, stamp, guard, plan, index, snapshot,
                         applied, failed, result, overrun, touched>>
          /\ UNCHANGED <<failures, tokens, refused>>
      BY <1>16, <2>2 DEF Begin
    <3> QED
      BY <3>1 DEF TypeOK, Calling, Stages, NoTraits
  <2> QED
    BY <2>1, <2>2
<1>17. CASE CaptureBefore
  <2>1. CASE SnapshotLost
    BY <1>17, <2>1, ReturnType DEF CaptureBefore, SnapshotLost, Statuses, TypeOK, FailureMemory
  <2>2. CASE ~ SnapshotLost
    BY <1>17, <2>2, CapturesType DEF CaptureBefore, TypeOK, Calling, Stages
  <2> QED
    BY <2>1, <2>2
<1>18. CASE CheckMove
  <2>1. index \in DOMAIN plan /\ Calling
    BY <1>18 DEF CheckMove, TypeOK, Calling
  <2>2. Current.win \in Key /\ Current.win.hwnd \in Hwnds
    BY <2>1, PlanElementType DEF Current
  <2>3. CASE /\ Return("Cancelled", TRUE) \/ Return("NonCooperative", TRUE)
             /\ UNCHANGED <<failures, tokens, refused>>
    BY <2>3, ReturnType DEF Statuses, TypeOK, FailureMemory
  <2>4. CASE FailMove("WindowUnavailable", Current.win) /\ UNCHANGED tokens
    <3>1. snapshot \in [Hwnds -> SeenWindow] /\ tokens' \subseteq Hwnds
      BY <1>18, <2>4 DEF CheckMove, TypeOK
    <3> QED
      BY <3>1, <2>1, <2>2, <2>4, FailMoveType DEF Statuses
  <2>5. CASE /\ invariants' = [h \in DOMAIN invariants \cup {Current.win.hwnd} |->
                                 IF h \in DOMAIN invariants THEN invariants[h]
                                                           ELSE snapshot[h].trait]
             /\ tokens' = tokens \cup {Current.win.hwnd}
             /\ pc' = "issue"
             /\ UNCHANGED <<world, uiVars, era, stamp, guard, failures, plan, index,
                            snapshot, applied, failed, result, history>>
    <3>1. snapshot \in [Hwnds -> SeenWindow]
      BY <1>18 DEF CheckMove, TypeOK
    <3>2. /\ DOMAIN invariants' \subseteq Hwnds
          /\ \A h \in DOMAIN invariants' : invariants'[h] \in Traits
      BY <3>1, <2>2, <2>5 DEF TypeOK, SeenWindow
    <3> QED
      BY <3>1, <3>2, <2>1, <2>2, <2>5 DEF TypeOK, Calling, Stages
  <2> QED
    BY <1>18, <2>3, <2>4, <2>5 DEF CheckMove
<1>19. CASE NativeMove
  <2>1. index \in DOMAIN plan
    BY <1>19 DEF NativeMove, TypeOK
  <2>2. Current \in Move /\ Current.win.hwnd \in Hwnds
    BY <2>1, PlanElementType DEF Current
  <2>3. desktop' \in [Hwnds -> Window]
    <3>1. PICK q \in {Current.to, desktop[Current.win.hwnd].place} :
                 desktop' = [desktop EXCEPT ![Current.win.hwnd].place = q]
      BY <1>19 DEF NativeMove
    <3>2. desktop \in [Hwnds -> Window] /\ q \in Places
      BY <2>2, <3>1 DEF TypeOK, Window, Move
    <3> QED
      BY <2>2, <3>1, <3>2 DEF Window
  <2>4. overrun' \in Nat
    BY <1>19 DEF NativeMove, TypeOK
  <2> QED
    BY <1>19, <2>1, <2>3, <2>4 DEF NativeMove, TypeOK, Calling, Stages
<1>20. CASE NativeMoveFails
  <2>1. index \in DOMAIN plan /\ Calling /\ snapshot \in [Hwnds -> SeenWindow]
    BY <1>20 DEF NativeMoveFails, TypeOK, Calling
  <2>2. Current.win \in Key
    BY <2>1, PlanElementType DEF Current
  <2>3. tokens' \subseteq Hwnds
    BY <1>20 DEF NativeMoveFails, TypeOK
  <2> QED
    BY <1>20, <2>1, <2>2, <2>3, FailMoveType DEF NativeMoveFails, Statuses
<1>21. CASE VerifyMove
  <2>1. snapshot' \in [Hwnds -> SeenWindow]
    BY <1>21, CapturesType DEF VerifyMove, TypeOK
  <2>2. index \in DOMAIN plan /\ index' \in 1..(Len(plan) + 1)
    BY <1>21 DEF VerifyMove, TypeOK
  <2> QED
    BY <1>21, <2>1, <2>2 DEF VerifyMove, TypeOK, Calling, Stages
<1>22. CASE RejectMove
  <2>1. index \in DOMAIN plan
    BY <1>22 DEF RejectMove, TypeOK
  <2>2. Current.win \in Key
    BY <2>1, PlanElementType DEF Current
  <2>3. tokens' \subseteq Hwnds
    BY <1>22 DEF RejectMove, TypeOK
  <2>4. \E status \in Statuses : Fail(status, Current.win)
    BY <1>22 DEF RejectMove, Statuses
  <2> QED
    BY <2>2, <2>3, <2>4, FailType
<1>23. CASE FinalVerify
  <2>1. CASE SnapshotLost /\ UNCHANGED <<failures, tokens, refused>>
    BY <2>1, ReturnType DEF SnapshotLost, Statuses, TypeOK, FailureMemory
  <2>2. CASE \E final \in Captures : \E i \in Misplaced(final) :
                /\ Fail("VerificationFailed", plan[i].win)
                /\ tokens' = tokens \ {plan[i].win.hwnd}
    <3>1. PICK i \in applied : /\ Fail("VerificationFailed", plan[i].win)
                               /\ tokens' = tokens \ {plan[i].win.hwnd}
      BY <2>2 DEF Misplaced
    <3>2. plan[i].win \in Key
      BY <3>1, PlanElementType DEF TypeOK
    <3> QED
      BY <3>1, <3>2, FailType DEF Statuses, TypeOK
  <2>3. CASE /\ IF applied = {} THEN Return("NativeMoveFailed", TRUE)
                                ELSE Return("Applied", failed # {})
             /\ UNCHANGED <<failures, tokens, refused>>
    BY <2>3, ReturnType DEF Statuses, TypeOK, FailureMemory
  <2> QED
    BY <1>23, <2>1, <2>2, <2>3 DEF FinalVerify
<1>24. CASE UNCHANGED vars
  BY <1>24 DEF vars, TypeOK, Calling
<1> QED
  BY <1>1, <1>2, <1>3, <1>4, <1>5, <1>6, <1>7, <1>8, <1>9, <1>10, <1>11, <1>12, <1>13,
     <1>14, <1>15, <1>16, <1>17, <1>18, <1>19, <1>20, <1>21, <1>22, <1>23, <1>24
  DEF Next, UserInterface, Desktop, Batch, Apply

(* Type correctness: the locals of apply() exist exactly while it runs, and *)
(* whenever it moves or verifies, the index is one of the plan's.           *)
THEOREM TypeCorrect == Spec => []TypeOK
BY TypeInit, TypeStep, PTL DEF Spec

-----------------------------------------------------------------------------
(* A cancelled transaction moves at most one more window                   *)

(* Why one and not two: a live guard has no overrun behind it, and a move  *)
(* is cleared (check to issue) only while the guard is live; so a guard    *)
(* found cancelled at a cleared move was cancelled after the clearing, and *)
(* nothing has been moved since.                                           *)
OverrunInv ==
  /\ ~ guard.cancelled => overrun = 0
  /\ pc = "issue" => overrun = 0
  /\ overrun \in {0, 1}

LEMMA OverrunStep == TypeOK /\ OverrunInv /\ [Next]_vars => OverrunInv'
<1> SUFFICES ASSUME TypeOK, OverrunInv, [Next]_vars PROVE OverrunInv'
  OBVIOUS
<1>1. CASE UNCHANGED <<guard, overrun>> /\ (pc' = "issue" => pc = "issue")
  BY <1>1 DEF OverrunInv
<1>2. CASE guard' = CancelledGuard(guard) /\ UNCHANGED overrun /\ (pc' = "issue" => pc = "issue")
  <2>1. guard'.cancelled
    BY <1>2 DEF CancelledGuard, TypeOK
  <2> QED
    BY <1>2, <2>1 DEF OverrunInv
<1>3. CASE overrun' = 0
  BY <1>3 DEF OverrunInv
<1>4. CASE CheckMove
  <2>1. CASE Allows(guard, stamp) /\ UNCHANGED <<guard, overrun>>
    BY <2>1 DEF OverrunInv, Allows
  <2>2. CASE Return("Cancelled", TRUE) \/ Return("NonCooperative", TRUE)
    BY <2>2, <1>1 DEF Return
  <2>3. CASE FailMove("WindowUnavailable", Current.win)
    BY <2>3, <1>1 DEF FailMove, Fail, Return
  <2> QED
    BY <1>4, <2>1, <2>2, <2>3 DEF CheckMove, history
<1>5. CASE NativeMove
  BY <1>5 DEF NativeMove, OverrunInv
<1>6. CASE UserInterface
  BY <1>6, <1>1, <1>2, <1>3
  DEF UserInterface, Pause, CancelOnPause, Resume, ChangeSetting, Restart, history
<1>7. CASE Desktop
  BY <1>7, <1>1 DEF Desktop, Shove, Close, Reuse, Disturb, history
<1>8. CASE Batch
  BY <1>8, <1>1, <1>2, <1>3
  DEF Batch, Gather, BatchBegins, DisabledBatch, CompleteInternalMove, ForgetIdentity,
      Activate, OpeningFails, BatchEnds, Solve, history
<1>9. CASE Begin \/ CaptureBefore
  BY <1>9, <1>1 DEF Begin, CaptureBefore, SnapshotLost, Return
<1>10. CASE NativeMoveFails
  BY <1>10, <1>1 DEF NativeMoveFails, FailMove, Fail, Return
<1>11. CASE VerifyMove
  BY <1>11, <1>1 DEF VerifyMove, history
<1>12. CASE RejectMove
  BY <1>12, <1>1 DEF RejectMove, Fail, Return
<1>13. CASE FinalVerify
  BY <1>13, <1>1 DEF FinalVerify, SnapshotLost, Fail, Return
<1>14. CASE UNCHANGED vars
  BY <1>14, <1>1 DEF vars, history
<1> QED
  BY <1>4, <1>5, <1>6, <1>7, <1>8, <1>9, <1>10, <1>11, <1>12, <1>13, <1>14
  DEF Next, Apply

(* However the UI thread, the desktop and the coordinator thread interleave, *)
(* at most one native move follows a cancellation of the guard.             *)
THEOREM CancellationOutrunByOneMove == Spec => []AtMostOneMoveAfterCancel
<1>1. Init => OverrunInv
  BY DEF Init, OverrunInv
<1>2. OverrunInv => AtMostOneMoveAfterCancel
  BY DEF OverrunInv, AtMostOneMoveAfterCancel
<1> QED
  BY <1>1, <1>2, TypeCorrect, OverrunStep, PTL DEF Spec

-----------------------------------------------------------------------------
(* A dry run moves nothing                                                 *)

(* apply() gets past its first test only without dryRun, and dryRun is set *)
(* only while no call is under way.                                        *)
DryRunInv == pc \in {"before", "check", "issue", "verify"} => ~ dryRun

LEMMA DryRunStep == DryRunInv /\ [Next]_vars => DryRunInv'
<1> SUFFICES ASSUME DryRunInv, [Next]_vars PROVE DryRunInv'
  OBVIOUS
<1> USE DEF DryRunInv, uiVars
<1>1. CASE UserInterface
  BY <1>1 DEF UserInterface, Pause, CancelOnPause, Resume, ChangeSetting, Restart
<1>2. CASE Desktop
  BY <1>2 DEF Desktop, Shove, Close, Reuse, Disturb
<1>3. CASE Batch
  BY <1>3
  DEF Batch, Gather, BatchBegins, DisabledBatch, CompleteInternalMove, ForgetIdentity,
      Activate, OpeningFails, BatchEnds, Solve
<1>4. CASE Begin
  BY <1>4 DEF Begin, Return
<1>5. CASE CaptureBefore \/ CheckMove \/ NativeMove \/ NativeMoveFails
  BY <1>5 DEF CaptureBefore, CheckMove, NativeMove, NativeMoveFails, SnapshotLost,
              FailMove, Fail, Return
<1>6. CASE VerifyMove \/ RejectMove \/ FinalVerify
  BY <1>6 DEF VerifyMove, RejectMove, FinalVerify, SnapshotLost, Fail, Return
<1>7. CASE UNCHANGED vars
  BY <1>7 DEF vars
<1> QED
  BY <1>1, <1>2, <1>3, <1>4, <1>5, <1>6, <1>7 DEF Next, Apply

(* No window is moved in dry-run mode, although the mode belongs to another *)
(* thread.                                                                  *)
THEOREM DryRunIsHarmless == Spec => []DryRunNeverMoves
<1>1. Init => DryRunInv
  BY DEF Init, DryRunInv
<1>2. DryRunInv => DryRunNeverMoves
  BY DEF DryRunInv, DryRunNeverMoves
<1> QED
  BY <1>1, <1>2, DryRunStep, PTL DEF Spec

-----------------------------------------------------------------------------
(* A window that refused is left alone                                     *)

(* The failure memory holds one entry per handle, so a later owner's entry *)
(* can push out an earlier one.  That is harmless because an entry is only *)
(* pushed out by a newer key of the handle, and a superseded key is never  *)
(* planned again.                                                          *)
Remembered(k) == failures.stamp = stamp /\ k \in failures.windows
Superseded(k) == k.owner < desktop[k.hwnd].owner \/ k.era < era[k.hwnd]

RefusedKeysAreOld ==
  \A k \in refused : k.owner <= desktop[k.hwnd].owner /\ k.era <= era[k.hwnd]

PlanIsCurrent ==
  \A i \in DOMAIN plan :
    /\ plan[i].win.owner <= desktop[plan[i].win.hwnd].owner
    /\ plan[i].win.era = era[plan[i].win.hwnd]
    /\ \A j \in DOMAIN plan : plan[i].win.hwnd = plan[j].win.hwnd => i = j

PlanIsNewerThanRefusals ==
  \A k \in refused : \A i \in DOMAIN plan :
    k.hwnd = plan[i].win.hwnd => k.owner <= plan[i].win.owner /\ k.era <= plan[i].win.era

RefusalsAccountedFor ==
  \A k \in refused :
    Remembered(k) \/ (Superseded(k) /\ \A i \in DOMAIN plan : plan[i].win # k)

RefusalInv ==
  /\ RefusedKeysAreOld /\ PlanIsCurrent
  /\ PlanIsNewerThanRefusals /\ RefusalsAccountedFor

(* Owners and eras are numbers. *)
LEMMA KeyNumbers ==
  ASSUME NEW k \in Key
  PROVE  k.hwnd \in Hwnds /\ k.owner \in Nat /\ k.era \in Nat
BY ConstantsAssumption DEF Key

LEMMA WindowNumbers ==
  ASSUME NEW d \in [Hwnds -> Window], NEW h \in Hwnds
  PROVE  d[h].owner \in Nat
<1>1. d[h] \in Window
  OBVIOUS
<1> QED
  BY <1>1, ConstantsAssumption DEF Window

LEMMA EraNumbers ==
  ASSUME NEW e \in [Hwnds -> 0..MaxEra], NEW h \in Hwnds
  PROVE  e[h] \in Nat
BY ConstantsAssumption

(* A step that lets windows and identities only grow older, and at most    *)
(* ends the call, keeps the accounting.                                    *)
LEMMA RefusalFrame ==
  ASSUME TypeOK, TypeOK', RefusalInv,
         UNCHANGED <<refused, failures, stamp>>,
         plan' = plan \/ plan' = <<>>,
         \A h \in Hwnds : desktop[h].owner <= desktop'[h].owner /\ era[h] <= era'[h],
         plan' # <<>> => era' = era
  PROVE  RefusalInv'
<1>1. \A k \in refused : /\ k.hwnd \in Hwnds /\ k.owner \in Nat /\ k.era \in Nat
  BY KeyNumbers DEF TypeOK
<1>2. \A h \in Hwnds : /\ desktop[h].owner \in Nat /\ desktop'[h].owner \in Nat
                       /\ era[h] \in Nat /\ era'[h] \in Nat
  <2>1. /\ desktop \in [Hwnds -> Window] /\ desktop' \in [Hwnds -> Window]
        /\ era \in [Hwnds -> 0..MaxEra] /\ era' \in [Hwnds -> 0..MaxEra]
    BY DEF TypeOK
  <2> QED
    BY <2>1, WindowNumbers, EraNumbers
<1>3. \A i \in DOMAIN plan : /\ plan[i].win.hwnd \in Hwnds /\ plan[i].win.owner \in Nat
  BY PlanElementType, ConstantsAssumption DEF Key
<1>4. DOMAIN plan' \subseteq DOMAIN plan /\ \A i \in DOMAIN plan' : plan'[i] = plan[i]
  OBVIOUS
<1>5. DOMAIN plan' # {} => era' = era
  OBVIOUS
<1>6. RefusedKeysAreOld'
  BY <1>1, <1>2 DEF RefusalInv, RefusedKeysAreOld
<1>7. PlanIsCurrent'
  BY <1>2, <1>3, <1>4, <1>5 DEF RefusalInv, PlanIsCurrent
<1>8. PlanIsNewerThanRefusals'
  BY <1>4 DEF RefusalInv, PlanIsNewerThanRefusals
<1>9. RefusalsAccountedFor'
  BY <1>1, <1>2, <1>4 DEF RefusalInv, RefusalsAccountedFor, Remembered, Superseded
<1> QED
  BY <1>6, <1>7, <1>8, <1>9 DEF RefusalInv

(* A new transaction starts with a clean slate. *)
LEMMA RefusalReset ==
  ASSUME refused' = {}, plan' = <<>>
  PROVE  RefusalInv'
BY DEF RefusalInv, RefusedKeysAreOld, PlanIsCurrent, PlanIsNewerThanRefusals,
       RefusalsAccountedFor

(* Recording the failure of a planned window keeps the accounting. *)
LEMMA RefusalNoted ==
  ASSUME TypeOK, RefusalInv, NEW i \in DOMAIN plan,
         NoteFailure(plan[i].win), UNCHANGED <<desktop, era, stamp>>,
         plan' = plan \/ plan' = <<>>
  PROVE  RefusalInv'
<1> DEFINE w == plan[i].win
<1>1. w \in Key
  BY PlanElementType
<1>2. /\ refused' = refused \cup {w}
      /\ failures'.stamp = stamp
      /\ w \in failures'.windows
      /\ \A k \in refused : Remembered(k) /\ k.hwnd # w.hwnd => k \in failures'.windows
  BY DEF NoteFailure, RecordFailure, Remembered
<1>3. DOMAIN plan' \subseteq DOMAIN plan /\ \A j \in DOMAIN plan' : plan'[j] = plan[j]
  OBVIOUS
<1>4. \A j \in DOMAIN plan : plan[j].win.hwnd = w.hwnd => j = i
  BY DEF RefusalInv, PlanIsCurrent
<1>5. w.owner <= desktop[w.hwnd].owner /\ w.era = era[w.hwnd]
  BY DEF RefusalInv, PlanIsCurrent
<1>6. RefusedKeysAreOld'
  <2>1. w.era <= w.era
    BY <1>1, ConstantsAssumption DEF Key
  <2> QED
    BY <1>2, <1>5, <2>1 DEF RefusalInv, RefusedKeysAreOld
<1>7. PlanIsCurrent'
  BY <1>3 DEF RefusalInv, PlanIsCurrent
<1>8. PlanIsNewerThanRefusals'
  <2>1. w.owner <= w.owner /\ w.era <= w.era
    BY <1>1, ConstantsAssumption DEF Key
  <2> QED
    BY <1>2, <1>3, <1>4, <2>1 DEF RefusalInv, PlanIsNewerThanRefusals
<1>9. ASSUME NEW k \in refused, k # w, k.hwnd = w.hwnd
      PROVE  Superseded(k) /\ \A j \in DOMAIN plan : plan[j].win # k
  <2>1. k \in Key
    BY DEF TypeOK
  <2>2. k.owner # w.owner \/ k.era # w.era
    BY <1>1, <1>9, <2>1 DEF Key
  <2>3. k.owner <= w.owner /\ k.era <= w.era
    BY <1>9 DEF RefusalInv, PlanIsNewerThanRefusals
  <2>4. /\ k.owner \in Nat /\ k.era \in Nat /\ w.owner \in Nat /\ w.era \in Nat
        /\ desktop[w.hwnd].owner \in Nat
    <3>1. desktop \in [Hwnds -> Window]
      BY DEF TypeOK
    <3> QED
      BY <1>1, <2>1, <3>1, KeyNumbers, WindowNumbers
  <2>5. Superseded(k)
    BY <1>5, <1>9, <2>2, <2>3, <2>4 DEF Superseded
  <2> QED
    BY <1>4, <1>9, <2>5
<1>10. RefusalsAccountedFor'
  <2> SUFFICES ASSUME NEW k \in refused'
               PROVE  Remembered(k)' \/ (Superseded(k)' /\ \A j \in DOMAIN plan' : plan'[j].win # k)
    BY DEF RefusalsAccountedFor
  <2>1. CASE k = w
    BY <1>2, <2>1 DEF Remembered
  <2>2. CASE k # w /\ k.hwnd = w.hwnd
    BY <1>2, <1>3, <1>9, <2>2 DEF Superseded
  <2>3. CASE k.hwnd # w.hwnd
    <3>1. k \in refused
      BY <1>2, <2>3
    <3>2. CASE Remembered(k)
      BY <1>2, <2>3, <3>1, <3>2 DEF Remembered
    <3>3. CASE ~ Remembered(k)
      BY <1>3, <3>1, <3>3 DEF RefusalInv, RefusalsAccountedFor, Superseded
    <3> QED
      BY <3>2, <3>3
  <2> QED
    BY <2>1, <2>2, <2>3
<1> QED
  BY <1>6, <1>7, <1>8, <1>10 DEF RefusalInv

(* A plan made now names the present owners and identities. *)
LEMMA RefusalPlanned ==
  ASSUME TypeOK, RefusalInv, plan' \in Plans,
         UNCHANGED <<desktop, era, refused, failures, stamp>>
  PROVE  RefusalInv'
<1>1. ASSUME NEW i \in DOMAIN plan'
      PROVE  \E h \in Hwnds : plan'[i].win = KeyOf(h)
  <2>1. PICK n \in 1..MaxPlan : plan' \in [1..n -> Moves]
    BY DEF Plans
  <2>2. plan'[i] \in Moves
    BY <1>1, <2>1
  <2> QED
    BY <2>2 DEF Moves
<1>2. \A i \in DOMAIN plan' : /\ plan'[i].win.owner = desktop[plan'[i].win.hwnd].owner
                             /\ plan'[i].win.era = era[plan'[i].win.hwnd]
                             /\ plan'[i].win.hwnd \in Hwnds
                             /\ plan'[i].win = KeyOf(plan'[i].win.hwnd)
  <2> SUFFICES ASSUME NEW i \in DOMAIN plan'
               PROVE  /\ plan'[i].win.owner = desktop[plan'[i].win.hwnd].owner
                      /\ plan'[i].win.era = era[plan'[i].win.hwnd]
                      /\ plan'[i].win.hwnd \in Hwnds
                      /\ plan'[i].win = KeyOf(plan'[i].win.hwnd)
    OBVIOUS
  <2>1. PICK h \in Hwnds : plan'[i].win = KeyOf(h)
    BY <1>1
  <2> QED
    BY <2>1 DEF KeyOf
<1>3. \A i, j \in DOMAIN plan' : plan'[i].win.hwnd = plan'[j].win.hwnd => i = j
  BY <1>2 DEF Plans
<1>4. \A h \in Hwnds : desktop[h].owner \in Nat /\ era[h] \in Nat
  BY ConstantsAssumption DEF TypeOK, Window
<1>5. \A k \in refused : k.owner \in Nat /\ k.era \in Nat
  BY ConstantsAssumption DEF TypeOK, Key
<1>6. RefusedKeysAreOld'
  BY DEF RefusalInv, RefusedKeysAreOld
<1>7. PlanIsCurrent'
  BY <1>2, <1>3, <1>4 DEF PlanIsCurrent
<1>8. PlanIsNewerThanRefusals'
  BY <1>2 DEF RefusalInv, RefusedKeysAreOld, PlanIsNewerThanRefusals
<1>9. \A k \in refused : Superseded(k) => \A i \in DOMAIN plan' : plan'[i].win # k
  BY <1>2, <1>4, <1>5 DEF Superseded
<1>10. RefusalsAccountedFor'
  BY <1>9 DEF RefusalInv, RefusalsAccountedFor, Remembered, Superseded
<1> QED
  BY <1>6, <1>7, <1>8, <1>10 DEF RefusalInv

LEMMA RefusalStep == TypeOK /\ TypeOK' /\ RefusalInv /\ [Next]_vars => RefusalInv'
<1> SUFFICES ASSUME TypeOK, TypeOK', RefusalInv, [Next]_vars PROVE RefusalInv'
  OBVIOUS
<1> USE DEF world, uiVars, call, history
<1>0. \A h \in Hwnds : /\ desktop[h].owner \in Nat /\ era[h] \in Nat
                       /\ desktop[h].owner <= desktop[h].owner /\ era[h] <= era[h]
  <2>1. desktop \in [Hwnds -> Window] /\ era \in [Hwnds -> 0..MaxEra]
    BY DEF TypeOK
  <2>2. \A h \in Hwnds : desktop[h].owner \in Nat /\ era[h] \in Nat
    BY <2>1, WindowNumbers, EraNumbers
  <2> QED
    BY <2>2
<1>1. CASE /\ UNCHANGED <<refused, failures, stamp, desktop, era>>
           /\ plan' = plan \/ plan' = <<>>
  BY <1>0, <1>1, RefusalFrame
<1>2. ASSUME NEW status, NEW reconcile, Return(status, reconcile),
             UNCHANGED <<failures, refused>>
      PROVE  RefusalInv'
  BY <1>1, <1>2 DEF Return
<1>3. ASSUME NEW status, NEW i \in DOMAIN plan, Fail(status, plan[i].win)
      PROVE  RefusalInv'
  BY <1>3, RefusalNoted DEF Fail, Return
<1>4. ASSUME NEW status, Current = plan[index], index \in DOMAIN plan,
             FailMove(status, Current.win)
      PROVE  RefusalInv'
  <2>1. CASE Fail(status, Current.win)
    BY <1>3, <1>4, <2>1
  <2>2. CASE /\ NoteFailure(Current.win)
             /\ UNCHANGED <<world, uiVars, era, stamp, guard, result, plan, snapshot,
                            invariants, applied, overrun, touched, carried>>
    BY <1>4, <2>2, RefusalNoted
  <2> QED
    BY <1>4, <2>1, <2>2 DEF FailMove
<1>5. Current = plan[index]
  BY DEF Current
<1>6. CASE UserInterface
  <2>1. CASE Restart
    BY <2>1, RefusalReset DEF Restart, TypeOK, Calling
  <2> QED
    BY <1>1, <1>6, <2>1 DEF UserInterface, Pause, CancelOnPause, Resume, ChangeSetting
<1>7. ASSUME NEW h \in Hwnds, Shove(h) \/ Close(h) \/ Reuse(h) PROVE RefusalInv'
  <2>1. /\ UNCHANGED <<refused, failures, stamp, era, plan>>
        /\ \A g \in Hwnds : g # h => desktop'[g] = desktop[g]
    BY <1>7 DEF Shove, Close, Reuse, Disturb, TypeOK
  <2>2. desktop[h] \in Window /\ desktop \in [Hwnds -> Window]
    BY DEF TypeOK
  <2>3. desktop[h].owner <= desktop'[h].owner
    <3>1. CASE Shove(h) \/ Close(h)
      BY <1>0, <2>2, <3>1 DEF Shove, Close, Disturb, Window
    <3>2. CASE Reuse(h)
      <4>1. PICK o \in (desktop[h].owner + 1)..MaxOwner :
                   Disturb(h, [desktop[h] EXCEPT !.owner = o, !.alive = TRUE])
        BY <3>2 DEF Reuse
      <4>2. desktop'[h].owner = o
        BY <2>2, <4>1 DEF Disturb, Window
      <4> QED
        BY <1>0, <4>1, <4>2
    <3> QED
      BY <1>7, <3>1, <3>2
  <2>4. \A g \in Hwnds : desktop[g].owner <= desktop'[g].owner /\ era[g] <= era'[g]
    BY <1>0, <2>1, <2>3
  <2> QED
    BY <2>1, <2>4, RefusalFrame
<1>8. ASSUME NEW H \in SUBSET Hwnds, ForgetIdentity(H) PROVE RefusalInv'
  <2>1. /\ UNCHANGED <<refused, failures, stamp, desktop, plan>> /\ plan' = <<>>
        /\ \A h \in Hwnds : era'[h] \in {era[h], era[h] + 1}
    BY <1>8 DEF ForgetIdentity, TypeOK, Calling
  <2>2. \A h \in Hwnds : desktop[h].owner <= desktop'[h].owner /\ era[h] <= era'[h]
    BY <1>0, <2>1
  <2> QED
    BY <2>1, <2>2, RefusalFrame
<1>9. CASE Activate
  <2>1. plan' = <<>>
    BY <1>9 DEF Activate, TypeOK, Calling
  <2>2. CASE stamp' = stamp /\ refused' = refused
    BY <1>1, <1>9, <2>2 DEF Activate
  <2>3. CASE refused' = {}
    BY <2>1, <2>3, RefusalReset
  <2> QED
    BY <1>9, <2>2, <2>3 DEF Activate
<1>10. CASE OpeningFails
  BY <1>10, RefusalReset DEF OpeningFails, TypeOK, Calling
<1>11. CASE Solve
  BY <1>11, RefusalPlanned DEF Solve
<1>12. CASE Gather \/ BatchBegins \/ DisabledBatch \/ BatchEnds
  BY <1>1, <1>12 DEF Gather, BatchBegins, DisabledBatch, BatchEnds
<1>13. ASSUME NEW h \in Hwnds, CompleteInternalMove(h) PROVE RefusalInv'
  BY <1>1, <1>13 DEF CompleteInternalMove
<1>14. CASE Begin
  <2>1. CASE Return("DryRun", FALSE) \/ Return("Cancelled", TRUE)
    BY <1>2, <1>14, <2>1 DEF Begin
  <2> QED
    BY <1>1, <1>14, <2>1 DEF Begin
<1>15. CASE CaptureBefore
  <2>1. CASE SnapshotLost
    BY <1>2, <1>15, <2>1 DEF CaptureBefore, SnapshotLost
  <2> QED
    BY <1>1, <1>15, <2>1 DEF CaptureBefore
<1>16. CASE CheckMove
  <2>1. index \in DOMAIN plan
    BY <1>16 DEF CheckMove, TypeOK, Calling
  <2>2. CASE /\ Return("Cancelled", TRUE) \/ Return("NonCooperative", TRUE)
             /\ UNCHANGED <<failures, tokens, refused>>
    BY <1>2, <2>2
  <2>3. CASE FailMove("WindowUnavailable", Current.win)
    BY <1>4, <1>5, <2>1, <2>3
  <2> QED
    BY <1>1, <1>16, <2>2, <2>3 DEF CheckMove
<1>17. CASE NativeMove
  <2>1. Current.win.hwnd \in Hwnds
    BY <1>5, <1>17, PlanElementType DEF NativeMove, TypeOK
  <2>2. UNCHANGED <<refused, failures, stamp, era, plan>>
    BY <1>17 DEF NativeMove
  <2>3. PICK q : desktop' = [desktop EXCEPT ![Current.win.hwnd].place = q]
    BY <1>17 DEF NativeMove
  <2>4. \A h \in Hwnds : desktop'[h].owner = desktop[h].owner
    <3> SUFFICES ASSUME NEW h \in Hwnds PROVE desktop'[h].owner = desktop[h].owner
      OBVIOUS
    <3>1. desktop[h] \in Window /\ desktop \in [Hwnds -> Window]
      BY DEF TypeOK
    <3> QED
      BY <2>1, <2>3, <3>1 DEF Window
  <2> QED
    BY <1>0, <2>2, <2>4, RefusalFrame
<1>18. CASE NativeMoveFails
  <2>1. index \in DOMAIN plan
    BY <1>18 DEF NativeMoveFails, TypeOK
  <2> QED
    BY <1>4, <1>5, <1>18, <2>1 DEF NativeMoveFails
<1>19. CASE VerifyMove
  BY <1>1, <1>19 DEF VerifyMove
<1>20. CASE RejectMove
  <2>1. index \in DOMAIN plan
    BY <1>20 DEF RejectMove, TypeOK
  <2>2. PICK status : Fail(status, Current.win)
    BY <1>20 DEF RejectMove
  <2> QED
    BY <1>3, <1>5, <2>1, <2>2
<1>21. CASE FinalVerify
  <2>1. CASE SnapshotLost /\ UNCHANGED <<failures, tokens, refused>>
    BY <1>2, <2>1 DEF SnapshotLost
  <2>2. CASE \E final \in Captures : \E i \in Misplaced(final) :
                /\ Fail("VerificationFailed", plan[i].win)
                /\ tokens' = tokens \ {plan[i].win.hwnd}
    BY <1>3, <2>2 DEF Misplaced, TypeOK
  <2>3. CASE /\ IF applied = {} THEN Return("NativeMoveFailed", TRUE)
                                ELSE Return("Applied", failed # {})
             /\ UNCHANGED <<failures, tokens, refused>>
    BY <1>2, <2>3
  <2> QED
    BY <1>21, <2>1, <2>2, <2>3 DEF FinalVerify
<1>22. CASE UNCHANGED vars
  BY <1>1, <1>22 DEF vars
<1> QED
  BY <1>6, <1>7, <1>8, <1>9, <1>10, <1>11, <1>12, <1>13, <1>14, <1>15, <1>16, <1>17, <1>18,
     <1>19, <1>20, <1>21, <1>22 DEF Next, Desktop, Batch, Apply

(* The move just cleared is not one of a window that refused: the failure  *)
(* memory was asked, and a refusal it no longer holds is superseded.       *)
LEMMA ClearedStep ==
  TypeOK /\ TypeOK' /\ RefusalInv /\ FailedWindowLeftAlone /\ [Next]_vars
    => FailedWindowLeftAlone'
<1> SUFFICES ASSUME TypeOK, TypeOK', RefusalInv, FailedWindowLeftAlone, [Next]_vars
             PROVE  FailedWindowLeftAlone'
  OBVIOUS
<1> USE DEF world, uiVars, call, history
<1>1. CASE pc' # "issue"
  BY <1>1 DEF FailedWindowLeftAlone
<1>2. CASE pc = "issue" /\ UNCHANGED <<plan, index, refused>>
  BY <1>2 DEF FailedWindowLeftAlone, Current
<1>3. CASE CheckMove
  <2>1. CASE /\ ~ IsNonCooperative(failures, stamp, Current.win)
             /\ UNCHANGED <<plan, index, refused>>
    <3>1. index \in DOMAIN plan
      BY <1>3 DEF CheckMove, TypeOK, Calling
    <3>2. Current.win \notin refused
      BY <2>1, <3>1 DEF IsNonCooperative, Current, RefusalInv, RefusalsAccountedFor, Remembered
    <3> QED
      BY <2>1, <3>2 DEF FailedWindowLeftAlone, Current
  <2>2. CASE Return("Cancelled", TRUE) \/ Return("NonCooperative", TRUE)
    BY <1>1, <2>2 DEF Return
  <2>3. CASE FailMove("WindowUnavailable", Current.win)
    BY <1>1, <2>3 DEF FailMove, Fail, Return
  <2> QED
    BY <1>3, <2>1, <2>2, <2>3 DEF CheckMove
<1>4. CASE UserInterface
  <2>1. CASE Restart
    BY <1>1, <2>1 DEF Restart
  <2> QED
    BY <1>1, <1>2, <1>4, <2>1 DEF UserInterface, Pause, CancelOnPause, Resume, ChangeSetting
<1>5. CASE Desktop
  BY <1>1, <1>2, <1>5 DEF Desktop, Shove, Close, Reuse, Disturb
<1>6. CASE Batch
  BY <1>1, <1>6
  DEF Batch, Gather, BatchBegins, DisabledBatch, CompleteInternalMove, ForgetIdentity,
      Activate, OpeningFails, BatchEnds, Solve
<1>7. CASE Begin \/ CaptureBefore \/ NativeMove \/ NativeMoveFails
  BY <1>1, <1>7 DEF Begin, CaptureBefore, NativeMove, NativeMoveFails, SnapshotLost,
                    FailMove, Fail, Return
<1>8. CASE VerifyMove \/ RejectMove \/ FinalVerify
  BY <1>1, <1>8 DEF VerifyMove, RejectMove, FinalVerify, SnapshotLost, Fail, Return
<1>9. CASE UNCHANGED vars
  BY <1>1, <1>2, <1>9 DEF vars
<1> QED
  BY <1>3, <1>4, <1>5, <1>6, <1>7, <1>8, <1>9 DEF Next, Apply

(* A window that refused a move is not moved again in its transaction,     *)
(* however many other windows fail, and whoever takes over its handle.     *)
THEOREM RefusalIsRemembered == Spec => []FailedWindowLeftAlone
<1>1. Init => RefusalInv /\ FailedWindowLeftAlone
  BY DEF Init, RefusalInv, RefusedKeysAreOld, PlanIsCurrent, PlanIsNewerThanRefusals,
         RefusalsAccountedFor, FailedWindowLeftAlone
<1> QED
  BY <1>1, TypeCorrect, RefusalStep, ClearedStep, PTL DEF Spec

=============================================================================
