------------------------ MODULE LayoutContract_proofs ------------------------
(***************************************************************************)
(* What a call of apply() promises, for any windows, plans and bounds:     *)
(* LayoutTransaction implements MoveContract, and each of its returns      *)
(* keeps the promises that are made about returns.                         *)
(*                                                                         *)
(* The argument for the refinement: outside of a call there is no job; a   *)
(* call takes its plan one move at a time; and the guard is asked between  *)
(* taking a ticket and having none.  Each step is one of the contract's.   *)
(***************************************************************************)
EXTENDS LayoutTransaction_proofs

(* What the mapping shows of a call. *)
Live == ~ guard.cancelled /\ guard.stamp = stamp
Job == IF Calling
       THEN [plan |-> plan,
             next |-> IF pc = "verify" THEN index + 1 ELSE index,
             ticket |-> pc = "issue"]
       ELSE [plan |-> <<>>, next |-> 0, ticket |-> FALSE]

-----------------------------------------------------------------------------
(* The steps of the contract                                               *)

LEMMA OutsideStep ==
  UNCHANGED <<Live, dryRun, Job>> => Contract!Next
BY DEF Contract!Next, Contract!Outside, Live, Job

LEMMA PermitStep ==
  UNCHANGED <<desktop, dryRun, Job>> => Contract!Next
BY DEF Contract!Next, Contract!Permit, Live, Job

LEMMA ConfigureStep ==
  ~ Calling /\ UNCHANGED <<desktop, Job>> => Contract!Next
BY DEF Contract!Next, Contract!Configure, Contract!Working, Contract!NoJob, Live, Job

LEMMA FinishStep ==
  TypeOK /\ Calling /\ ~ Calling' /\ UNCHANGED <<desktop, dryRun, guard, stamp>> => Contract!Next
<1> SUFFICES ASSUME TypeOK, Calling, ~ Calling', UNCHANGED <<desktop, dryRun, guard, stamp>>
             PROVE  Contract!Next
  OBVIOUS
<1>1. plan # <<>>
  BY DEF TypeOK
<1>2. Job.plan = plan /\ Job' = [plan |-> <<>>, next |-> 0, ticket |-> FALSE]
  BY DEF Job
<1>3. Job # [plan |-> <<>>, next |-> 0, ticket |-> FALSE]
  BY <1>1, <1>2
<1> QED
  BY <1>2, <1>3 DEF Contract!Next, Contract!Finish, Contract!Working, Contract!NoJob, Live, Job

LEMMA AcceptStep ==
  TypeOK /\ Solve => Contract!Next
<1> SUFFICES ASSUME TypeOK, Solve
             PROVE  Contract!Next
  OBVIOUS
<1>1. ~ Calling /\ Calling' /\ index' = 1 /\ pc' = "solved"
      /\ UNCHANGED <<desktop, dryRun, guard, stamp>>
  BY DEF Solve, Calling, world, uiVars
<1>2. plan' \in Seq(Move)
  BY PlansType DEF Solve, TypeOK
<1>3. Move \subseteq Contract!Move
  BY ConstantsAssumption DEF Move, Key, Contract!Move
<1>4. plan' \in Seq(Contract!Move)
  BY <1>2, <1>3
<1>5. Job = [plan |-> <<>>, next |-> 0, ticket |-> FALSE]
      /\ Job' = [plan |-> plan', next |-> 1, ticket |-> FALSE]
  BY <1>1 DEF Job
<1> QED
  BY <1>1, <1>4, <1>5
  DEF Contract!Next, Contract!Accept, Contract!Working, Contract!NoJob, Live, Job

Held == TRUE
NotHeld == FALSE
JobAt(p, n, t) == [plan |-> p, next |-> n, ticket |-> t]
GoneOn(j) == [j EXCEPT !.next = @ + 1, !.ticket = FALSE]
Ticketed(j) == [j EXCEPT !.ticket = TRUE]

LEMMA JobFields ==
  ASSUME NEW p, NEW n \in Int, NEW t \in BOOLEAN, NEW j, j = JobAt(p, n, t)
  PROVE  /\ GoneOn(j) = JobAt(p, n + 1, NotHeld)
         /\ Ticketed(j) = JobAt(p, n, Held)
         /\ j.plan = p /\ j.next = n /\ j.ticket = t
<1> USE DEF JobAt
<1>1. j.plan = p /\ j.next = n
  OBVIOUS
<1>2. j.ticket = t
  BY Zenon
<1>3. [j EXCEPT !.next = n + 1] = [plan |-> p, next |-> n + 1, ticket |-> t]
  BY SMT
<1>4. \A f \in BOOLEAN, m \in Int : \A k :
        k = [plan |-> p, next |-> m, ticket |-> t]
        => [k EXCEPT !.ticket = f] = [plan |-> p, next |-> m, ticket |-> f]
  BY SMT
<1>5. [[j EXCEPT !.next = n + 1] EXCEPT !.ticket = FALSE]
        = [plan |-> p, next |-> n + 1, ticket |-> FALSE]
  <2>1. n + 1 \in Int
    OBVIOUS
  <2> QED
    BY <1>3, <1>4, <2>1
<1>6. [j EXCEPT !.next = @ + 1, !.ticket = FALSE]
        = [[j EXCEPT !.next = n + 1] EXCEPT !.ticket = FALSE]
  BY <1>1
<1>7. GoneOn(j) = JobAt(p, n + 1, NotHeld)
  BY <1>5, <1>6 DEF GoneOn, NotHeld
<1>8. Ticketed(j) = JobAt(p, n, Held)
  BY <1>4 DEF Ticketed, Held
<1> QED
  BY <1>1, <1>2, <1>7, <1>8

(* One more move of the plan is over and no ticket is held. *)
LEMMA SkipStep ==
  ASSUME TypeOK, pc \in {"check", "issue"}, index \in DOMAIN plan,
         pc' = "check", index' = index + 1, UNCHANGED <<plan, desktop, dryRun, guard, stamp>>
  PROVE  Contract!Next
<1>1. Calling /\ Calling' /\ pc # "verify" /\ pc' # "verify" /\ pc' # "issue"
  BY DEF Calling
<1> DEFINE t == pc = "issue"
<1>2. Job = JobAt(plan, index, t) /\ Job' = JobAt(plan, index + 1, NotHeld)
  BY <1>1 DEF Job, JobAt, NotHeld
<1>3. t \in BOOLEAN /\ index \in Int
  BY DEF TypeOK
<1> HIDE DEF t
<1>4. Job' = GoneOn(Job) /\ Job.plan = plan /\ Job.next = index
  BY <1>2, <1>3, JobFields
<1>5. Job.next \in DOMAIN Job.plan
  BY <1>4
<1> QED
  BY <1>4, <1>5 DEF Contract!Next, Contract!Skip, Live, Job, GoneOn

LEMMA TicketStep ==
  ASSUME TypeOK, DryRunInv, pc = "check", index \in DOMAIN plan, Allows(guard, stamp),
         pc' = "issue", UNCHANGED <<plan, index, desktop, dryRun, guard, stamp>>
  PROVE  Contract!Next
<1>1. Calling /\ Calling' /\ Live /\ ~ dryRun
  BY DEF Calling, Live, Allows, DryRunInv
<1>2. Job = JobAt(plan, index, NotHeld) /\ Job' = JobAt(plan, index, Held)
  BY <1>1 DEF Job, JobAt, Held, NotHeld
<1>3. NotHeld \in BOOLEAN /\ index \in Int
  BY DEF TypeOK, NotHeld
<1>4. Job' = Ticketed(Job) /\ Job.plan = plan /\ Job.next = index /\ Job.ticket = NotHeld
  BY <1>2, <1>3, JobFields
<1>5. Job.next \in DOMAIN Job.plan /\ ~ Job.ticket
  BY <1>4 DEF NotHeld
<1> QED
  BY <1>1, <1>4, <1>5 DEF Contract!Next, Contract!Ticket, Live, Job, Ticketed

LEMMA ExecuteStep ==
  TypeOK /\ NativeMove => Contract!Next
<1> SUFFICES ASSUME TypeOK, NativeMove
             PROVE  Contract!Next
  OBVIOUS
<1>1. /\ pc = "issue" /\ pc' = "verify" /\ index \in DOMAIN plan
      /\ Present(desktop, plan[index].win)
      /\ UNCHANGED <<plan, index, dryRun, guard, stamp>>
  BY DEF NativeMove, Current, TypeOK, call, uiVars
<1>2. PICK p \in {Current.to, desktop[Current.win.hwnd].place} :
        desktop' = [desktop EXCEPT ![Current.win.hwnd].place = p]
  BY DEF NativeMove
<1>3. plan[index].win.hwnd \in Hwnds /\ desktop \in [Hwnds -> Window]
  BY <1>1, PlanElementType DEF TypeOK
<1>4. desktop[plan[index].win.hwnd] \in Window
  BY <1>3
<1>5. \/ UNCHANGED desktop
      \/ desktop' = [desktop EXCEPT ![plan[index].win.hwnd].place = plan[index].to]
  BY <1>2, <1>3, <1>4 DEF Current, Window
<1>6. Job = JobAt(plan, index, Held) /\ Job' = JobAt(plan, index + 1, NotHeld)
  BY <1>1 DEF Job, Calling, JobAt, Held, NotHeld
<1>7. Held \in BOOLEAN /\ index \in Int
  BY DEF TypeOK, Held
<1>8. Job' = GoneOn(Job) /\ Job.plan = plan /\ Job.next = index /\ Job.ticket = Held
  BY <1>6, <1>7, JobFields
<1>9. Job.ticket /\ Job.plan[Job.next] = plan[index]
  BY <1>8 DEF Held
<1> QED
  BY <1>1, <1>5, <1>8, <1>9
  DEF Contract!Next, Contract!Execute, Contract!Due, Live, Job, Present, GoneOn

-----------------------------------------------------------------------------
(* The steps of the program                                                *)

LEMMA ReturnMaps ==
  ASSUME TypeOK, Calling, NEW status, NEW reconcile, Return(status, reconcile)
  PROVE  Contract!Next
<1>1. ~ Calling' /\ UNCHANGED <<desktop, dryRun, guard, stamp>>
  BY DEF Return, Calling, world, uiVars
<1> QED
  BY <1>1, FinishStep

LEMMA FailMoveMaps ==
  ASSUME TypeOK, pc \in {"check", "issue"}, index \in DOMAIN plan,
         NEW status, NEW key, FailMove(status, key)
  PROVE  Contract!Next
<1>1. Calling
  BY DEF Calling
<1>2. CASE Fail(status, key)
  BY <1>1, <1>2, ReturnMaps DEF Fail
<1>3. CASE /\ index' = index + 1 /\ pc' = "check"
           /\ UNCHANGED <<world, uiVars, stamp, guard, plan>>
  BY <1>3, SkipStep DEF world, uiVars
<1> QED
  BY <1>2, <1>3 DEF FailMove

LEMMA StepMaps == TypeOK /\ DryRunInv /\ [Next]_vars => [Contract!Next]_(Contract!vars)
<1> SUFFICES ASSUME TypeOK, DryRunInv, [Next]_vars
             PROVE  Contract!Next
  OBVIOUS
<1> USE DEF world, uiVars, call, history
<1>1. CASE /\ UNCHANGED <<plan, index, desktop, dryRun>>
           /\ Calling' = Calling
           /\ pc' = "verify" <=> pc = "verify"
           /\ pc' = "issue" <=> pc = "issue"
  <2>1. Job' = Job
    BY <1>1 DEF Job, JobAt
  <2> QED
    BY <1>1, <2>1, PermitStep
<1>2. CASE UserInterface
  <2>1. CASE Restart
    <3>1. ~ Calling /\ ~ Calling' /\ UNCHANGED desktop
      BY <2>1 DEF Restart, Calling
    <3> QED
      BY <3>1, ConfigureStep DEF Job
  <2> QED
    BY <1>1, <1>2, <2>1
    DEF UserInterface, Pause, CancelOnPause, Resume, ChangeSetting, Calling
<1>3. CASE Desktop
  <2>1. UNCHANGED <<dryRun, pc, guard, stamp, plan, index>>
    BY <1>3 DEF Desktop, Shove, Close, Reuse, Disturb
  <2> QED
    BY <2>1, OutsideStep DEF Live, Job, Calling
<1>4. CASE Batch
  <2>1. CASE Solve
    BY <2>1, AcceptStep
  <2>2. CASE ~ Solve
    <3>1. ~ Calling /\ ~ Calling' /\ UNCHANGED <<desktop, dryRun>>
      BY <1>4, <2>2
      DEF Batch, Gather, BatchBegins, DisabledBatch, CompleteInternalMove, ForgetIdentity,
          Activate, OpeningFails, BatchEnds, Calling
    <3> QED
      BY <3>1, PermitStep DEF Job
  <2> QED
    BY <2>1, <2>2
<1>5. CASE Begin
  <2>1. Calling
    BY <1>5 DEF Begin, Calling
  <2>2. CASE Return("DryRun", FALSE) \/ Return("Cancelled", TRUE)
    BY <2>1, <2>2, ReturnMaps
  <2>3. CASE pc = "solved" /\ pc' = "before" /\ UNCHANGED <<plan, index, desktop, dryRun>>
    BY <1>1, <2>3 DEF Calling
  <2> QED
    BY <1>5, <2>2, <2>3 DEF Begin
<1>6. CASE CaptureBefore
  <2>1. Calling
    BY <1>6 DEF CaptureBefore, Calling
  <2>2. CASE SnapshotLost
    BY <2>1, <2>2, ReturnMaps DEF SnapshotLost
  <2> QED
    BY <1>1, <1>6, <2>2 DEF CaptureBefore, Calling
<1>7. CASE CheckMove
  <2>1. index \in DOMAIN plan /\ pc = "check" /\ Calling
    BY <1>7 DEF CheckMove, TypeOK, Calling
  <2>2. CASE Return("Cancelled", TRUE) \/ Return("NonCooperative", TRUE)
    BY <2>1, <2>2, ReturnMaps
  <2>3. CASE FailMove("WindowUnavailable", Current.win)
    BY <2>1, <2>3, FailMoveMaps
  <2>4. CASE /\ Allows(guard, stamp) /\ pc' = "issue"
             /\ UNCHANGED <<plan, index, desktop, dryRun, guard, stamp>>
    BY <2>1, <2>4, TicketStep
  <2> QED
    BY <1>7, <2>2, <2>3, <2>4 DEF CheckMove
<1>8. CASE NativeMove
  BY <1>8, ExecuteStep
<1>9. CASE NativeMoveFails
  <2>1. index \in DOMAIN plan /\ pc = "issue"
    BY <1>9 DEF NativeMoveFails, TypeOK
  <2> QED
    BY <1>9, <2>1, FailMoveMaps DEF NativeMoveFails
<1>10. CASE VerifyMove
  <2>1. /\ Calling /\ Calling' /\ pc = "verify" /\ pc' = "check" /\ index' = index + 1
        /\ UNCHANGED <<plan, desktop, dryRun>>
    BY <1>10 DEF VerifyMove, Calling
  <2>2. Job' = Job
    BY <2>1 DEF Job
  <2> QED
    BY <2>1, <2>2, PermitStep
<1>11. CASE RejectMove
  <2>1. Calling /\ \E status : Fail(status, Current.win)
    BY <1>11 DEF RejectMove, Calling
  <2> QED
    BY <2>1, ReturnMaps DEF Fail
<1>12. CASE FinalVerify
  <2>1. Calling /\ \E status, reconcile : Return(status, reconcile)
    BY <1>12 DEF FinalVerify, SnapshotLost, Fail, Calling
  <2> QED
    BY <2>1, ReturnMaps
<1>13. CASE UNCHANGED vars
  BY <1>1, <1>13 DEF vars, Calling
<1> QED
  BY <1>2, <1>3, <1>4, <1>5, <1>6, <1>7, <1>8, <1>9, <1>10, <1>11, <1>12, <1>13
  DEF Next, Apply

(* However the threads and the desktop interleave, what the applier does   *)
(* to the desktop is what MoveContract allows: the moves of the plan in    *)
(* order, each on a ticket of its own given by a live transaction, and     *)
(* none in dry-run mode.                                                   *)
THEOREM ContractKept == Spec => ImplementsContract
<1>1. Init => Contract!Init
  BY DEF Init, ClosedGuard, Calling, Contract!Init, Contract!NoJob
<1>2. Init => DryRunInv
  BY DEF Init, DryRunInv
<1> QED
  BY <1>1, <1>2, StepMaps, TypeCorrect, DryRunStep, PTL
  DEF Spec, ImplementsContract, Contract!Spec

-----------------------------------------------------------------------------
(* The promises of a return                                                *)

(* What a call knows on its way: every move before the present one is      *)
(* verified or was refused, only the present one may be in the air, and    *)
(* there is a token for nothing else.                                      *)
TokensInUse ==
  carried \cup {plan[i].win.hwnd : i \in applied}
          \cup (IF pc \in {"issue", "verify"} THEN {Current.win.hwnd} ELSE {})

CallInv ==
  /\ pc \in {"solved", "before"} => index = 1 /\ applied = {} /\ touched = {}
  /\ pc \in {"check", "issue"} => touched \subseteq applied
  /\ pc = "verify" => touched \subseteq applied \cup {index}
  /\ StopOnFailure /\ pc \in {"check", "issue", "verify"} => applied = 1..(index - 1)
  /\ pc \in {"before", "check", "issue", "verify"} => tokens \subseteq TokensInUse

LEMMA CallKept ==
  ASSUME CallInv, UNCHANGED <<pc, index, plan, applied, touched, tokens, carried>>
  PROVE  CallInv'
BY DEF CallInv, TokensInUse, Current

LEMMA CallOver ==
  ASSUME ~ Calling'
  PROVE  CallInv'
BY DEF CallInv, Calling

LEMMA FailMoveCall ==
  ASSUME TypeOK, CallInv, pc \in {"check", "issue"}, index \in DOMAIN plan,
         NEW status, NEW key, FailMove(status, key),
         tokens' \subseteq carried \cup {plan[i].win.hwnd : i \in applied}
  PROVE  CallInv'
<1>1. CASE Fail(status, key)
  BY <1>1, CallOver DEF Fail, Return, Calling
<1>2. CASE /\ ~ StopOnFailure /\ pc' = "check"
           /\ UNCHANGED <<plan, applied, touched, carried>>
  BY <1>2 DEF CallInv, TokensInUse
<1> QED
  BY <1>1, <1>2 DEF FailMove

LEMMA CallNext == TypeOK /\ CallInv /\ [Next]_vars => CallInv'
<1> SUFFICES ASSUME TypeOK, CallInv, [Next]_vars
             PROVE  CallInv'
  OBVIOUS
<1> USE DEF world, uiVars, call, history
<1>1. CASE UserInterface
  <2>1. CASE Restart
    BY <2>1, CallOver DEF Restart, Calling
  <2> QED
    BY <1>1, <2>1, CallKept
    DEF UserInterface, Pause, CancelOnPause, Resume, ChangeSetting
<1>2. CASE Desktop
  BY <1>2, CallKept DEF Desktop, Shove, Close, Reuse, Disturb
<1>3. CASE Batch
  <2>1. CASE Solve
    <3>1. pc' = "solved" /\ index' = 1 /\ UNCHANGED <<applied, touched>> /\ plan = <<>>
      BY <2>1 DEF Solve, TypeOK, Calling
    <3>2. applied = {} /\ touched = {}
      <4>1. DOMAIN plan = {}
        BY <3>1
      <4> QED
        BY <4>1 DEF TypeOK
    <3> QED
      BY <3>1, <3>2 DEF CallInv
  <2>2. CASE ~ Solve
    <3>1. ~ Calling'
      BY <1>3, <2>2
      DEF Batch, Gather, BatchBegins, DisabledBatch, CompleteInternalMove, ForgetIdentity,
          Activate, OpeningFails, BatchEnds, Calling
    <3> QED
      BY <3>1, CallOver
  <2> QED
    BY <2>1, <2>2
<1>4. ASSUME NEW status, NEW reconcile, Return(status, reconcile)
      PROVE  CallInv'
  BY <1>4, CallOver DEF Return, Calling
<1>5. CASE Begin
  <2>1. CASE /\ pc = "solved" /\ pc' = "before" /\ carried' = tokens
             /\ UNCHANGED <<tokens, plan, index, applied, touched>>
    BY <2>1 DEF CallInv, TokensInUse
  <2> QED
    BY <1>4, <1>5, <2>1 DEF Begin
<1>6. CASE CaptureBefore
  <2>1. CASE /\ pc = "before" /\ pc' = "check"
             /\ UNCHANGED <<tokens, plan, index, applied, touched, carried>>
    BY <2>1 DEF CallInv, TokensInUse
  <2> QED
    BY <1>4, <1>6, <2>1 DEF CaptureBefore, SnapshotLost
<1>7. CASE CheckMove
  <2>1. index \in DOMAIN plan /\ pc = "check"
    BY <1>7 DEF CheckMove, TypeOK, Calling
  <2>2. CASE FailMove("WindowUnavailable", Current.win) /\ UNCHANGED tokens
    <3>1. tokens' \subseteq carried \cup {plan[i].win.hwnd : i \in applied}
      BY <2>1, <2>2 DEF CallInv, TokensInUse
    <3> QED
      BY <2>1, <2>2, <3>1, FailMoveCall
  <2>3. CASE /\ tokens' = tokens \cup {Current.win.hwnd} /\ pc' = "issue"
             /\ UNCHANGED <<plan, index, applied, touched, carried>>
    BY <2>1, <2>3 DEF CallInv, TokensInUse, Current
  <2> QED
    BY <1>4, <1>7, <2>2, <2>3 DEF CheckMove
<1>8. CASE NativeMove
  <2>1. /\ pc = "issue" /\ pc' = "verify" /\ touched' = touched \cup {index}
        /\ UNCHANGED <<plan, index, applied, tokens, carried>>
    BY <1>8 DEF NativeMove
  <2> QED
    BY <2>1 DEF CallInv, TokensInUse, Current
<1>9. CASE NativeMoveFails
  <2>1. pc = "issue" /\ index \in DOMAIN plan /\ tokens' = tokens \ {Current.win.hwnd}
    BY <1>9 DEF NativeMoveFails, TypeOK
  <2>2. tokens' \subseteq carried \cup {plan[i].win.hwnd : i \in applied}
    BY <2>1 DEF CallInv, TokensInUse
  <2> QED
    BY <1>9, <2>1, <2>2, FailMoveCall DEF NativeMoveFails
<1>10. CASE VerifyMove
  <2>1. /\ pc = "verify" /\ pc' = "check" /\ index' = index + 1 /\ index \in DOMAIN plan
        /\ applied' = applied \cup {index}
        /\ UNCHANGED <<plan, tokens, touched, carried>>
    BY <1>10 DEF VerifyMove, TypeOK
  <2>2. index \in Nat \ {0}
    BY <2>1 DEF TypeOK
  <2>3. StopOnFailure => applied' = 1..(index' - 1)
    <3>1. ASSUME StopOnFailure
          PROVE  applied' = 1..(index' - 1)
      <4>1. applied = 1..(index - 1) /\ index' - 1 = index
        BY <2>1, <2>2, <3>1 DEF CallInv
      <4>2. 1..index = 1..(index - 1) \cup {index}
        BY <2>2
      <4> QED
        BY <2>1, <4>1, <4>2
    <3> QED
      BY <3>1
  <2>4. tokens' \subseteq TokensInUse'
    <3>1. tokens \subseteq carried \cup {plan[i].win.hwnd : i \in applied \cup {index}}
      BY <2>1 DEF CallInv, TokensInUse, Current
    <3> QED
      BY <2>1, <3>1 DEF TokensInUse
  <2> QED
    BY <2>1, <2>3, <2>4 DEF CallInv
<1>11. CASE RejectMove
  BY <1>4, <1>11 DEF RejectMove, Fail
<1>12. CASE FinalVerify
  BY <1>4, <1>12 DEF FinalVerify, SnapshotLost, Fail
<1>13. CASE UNCHANGED vars
  BY <1>13, CallKept DEF vars
<1> QED
  BY <1>1, <1>2, <1>3, <1>5, <1>6, <1>7, <1>8, <1>9, <1>10, <1>11, <1>12, <1>13
  DEF Next, Apply

(* The four kinds of returns. *)
FinalLook == \E final \in Captures : Misplaced(final) = {}
Reported == result'.status # "Applied" /\ result'.reconcile
ReturnKinds ==
  \/ pc = "solved" /\ result'.status # "Applied"
  \/ pc \in {"before", "check"} /\ Reported /\ tokens' \subseteq tokens
  \/ pc \in {"issue", "verify"} /\ Reported /\ tokens' = tokens \ {Current.win.hwnd}
  \/ /\ pc = "check" /\ index > Len(plan) /\ FinalLook /\ UNCHANGED tokens
     /\ result'.status = "Applied" \/ Reported

LEMMA ReturnsAreOfAKind == TypeOK /\ [Next]_vars => (Returns => ReturnKinds)
<1> SUFFICES ASSUME TypeOK, [Next]_vars, Calling, pc' = "idle"
             PROVE  ReturnKinds
  BY DEF Returns
<1> USE DEF history
<1>1. pc \in {"solved", "before", "check", "issue", "verify"}
  BY DEF Calling
<1>2. /\ \A status : Return(status, TRUE) /\ status # "Applied" => Reported
      /\ \A status, reconcile : Return(status, reconcile) => result'.status = status
  BY DEF Return, Reported
<1>3. \A status, key : FailMove(status, key) => Return(status, TRUE)
  BY DEF FailMove, Fail
<1>4. ~ UserInterface /\ ~ Desktop /\ ~ UNCHANGED vars /\ ~ Batch
  BY <1>1 DEF UserInterface, Pause, CancelOnPause, Resume, ChangeSetting, Restart,
     Desktop, Shove, Close, Reuse, Disturb, vars,
     Batch, Gather, BatchBegins, DisabledBatch, CompleteInternalMove, ForgetIdentity,
     Activate, OpeningFails, BatchEnds, Solve
<1>5. CASE Begin
  <2>1. CASE Return("DryRun", FALSE) \/ Return("Cancelled", TRUE)
    <3>1. result'.status # "Applied"
      BY <1>2, <2>1
    <3> QED
      BY <1>5, <3>1 DEF Begin, ReturnKinds
  <2> QED
    BY <1>5, <2>1 DEF Begin
<1>6. CASE CaptureBefore
  <2>1. CASE Return("SnapshotFailed", TRUE)
    <3>1. Reported
      BY <1>2, <2>1
    <3> QED
      BY <1>6, <3>1 DEF CaptureBefore, ReturnKinds
  <2> QED
    BY <1>6, <2>1 DEF CaptureBefore, SnapshotLost
<1>7. CASE CheckMove
  <2>1. CASE \E status \in {"Cancelled", "NonCooperative", "WindowUnavailable"} : Return(status, TRUE)
    <3>1. Reported
      BY <1>2, <2>1
    <3> QED
      BY <1>7, <3>1 DEF CheckMove, ReturnKinds
  <2> QED
    BY <1>3, <1>7, <2>1 DEF CheckMove
<1>8. CASE NativeMove \/ VerifyMove
  BY <1>8 DEF NativeMove, VerifyMove
<1>9. CASE NativeMoveFails
  <2>1. \E status \in {"NativeMoveFailed", "WindowDestroyed"} : FailMove(status, Current.win)
    BY <1>9 DEF NativeMoveFails
  <2>2. PICK status \in {"NativeMoveFailed", "WindowDestroyed"} : Return(status, TRUE)
    BY <1>3, <2>1
  <2>3. Reported
    BY <1>2, <2>2 DEF Reported
  <2> QED
    BY <1>9, <2>3 DEF NativeMoveFails, ReturnKinds
<1>10. CASE RejectMove
  <2>1. PICK status \in {"SnapshotFailed", "MoveRejected", "WindowDestroyed"} :
          Return(status, TRUE)
    BY <1>10 DEF RejectMove, Fail
  <2>2. Reported
    BY <1>2, <2>1 DEF Reported
  <2> QED
    BY <1>10, <2>2 DEF RejectMove, ReturnKinds
<1>11. CASE FinalVerify
  <2>0. pc = "check" /\ index > Len(plan)
    BY <1>11 DEF FinalVerify
  <2>1. CASE Return("SnapshotFailed", TRUE) /\ UNCHANGED tokens
    <3>1. Reported
      BY <1>2, <2>1
    <3> QED
      BY <2>0, <2>1, <3>1 DEF ReturnKinds
  <2>2. CASE \E i : Fail("VerificationFailed", plan[i].win) /\ tokens' = tokens \ {plan[i].win.hwnd}
    <3>1. Reported /\ tokens' \subseteq tokens
      BY <1>2, <2>2 DEF Fail
    <3> QED
      BY <2>0, <3>1 DEF ReturnKinds
  <2>3. CASE /\ FinalLook /\ UNCHANGED tokens
             /\ IF applied = {} THEN Return("NativeMoveFailed", TRUE)
                               ELSE Return("Applied", failed # {})
    <3>1. result'.status = "Applied" \/ Reported
      BY <1>2, <2>3
    <3> QED
      BY <2>0, <2>3, <3>1 DEF ReturnKinds
  <2> QED
    BY <1>11, <2>1, <2>2, <2>3 DEF FinalVerify, SnapshotLost, FinalLook
<1> QED
  BY <1>4, <1>5, <1>6, <1>7, <1>8, <1>9, <1>10, <1>11 DEF Next, Apply

(* The last snapshot shows a window in its place only if it is there. *)
LEMMA LookIsTrue ==
  ASSUME TypeOK, FinalLook, NEW i \in applied
  PROVE  At(desktop, plan[i].win, plan[i].to) /\ Preserved(desktop, plan[i].win)
<1>1. PICK final \in Captures : Misplaced(final) = {}
  BY DEF FinalLook
<1>2. At(final, plan[i].win, plan[i].to) /\ Preserved(final, plan[i].win)
  BY <1>1 DEF Misplaced
<1> DEFINE h == plan[i].win.hwnd
<1>3. h \in Hwnds /\ plan[i].to \in Places /\ desktop \in [Hwnds -> Window]
  BY PlanElementType DEF TypeOK, Move
<1>4. plan[i].to # Unreadable
  BY <1>3, ConstantsAssumption
<1>5. PICK blurred \in SUBSET {g \in Hwnds : desktop[g].alive} :
        final = [g \in Hwnds |->
                   IF g \in blurred THEN [desktop[g] EXCEPT !.place = Unreadable] ELSE desktop[g]]
  BY <1>1 DEF Captures
<1>6. final[h] = IF h \in blurred THEN [desktop[h] EXCEPT !.place = Unreadable] ELSE desktop[h]
  BY <1>3, <1>5
<1>7. desktop[h] \in Window
  BY <1>3
<1>8. final[h].place # Unreadable
  BY <1>2, <1>4 DEF At
<1>9. final[h] = desktop[h]
  BY <1>6, <1>7, <1>8 DEF Window
<1> QED
  BY <1>2, <1>9 DEF At, Present, Preserved

LEMMA TokensStep ==
  TypeOK /\ CallInv /\ [Next]_vars =>
    ((Returns /\ pc # "solved") =>
       tokens' \subseteq carried \cup {plan[i].win.hwnd : i \in applied})
<1> SUFFICES ASSUME TypeOK, CallInv, [Next]_vars, Returns, pc # "solved"
             PROVE  tokens' \subseteq carried \cup {plan[i].win.hwnd : i \in applied}
  OBVIOUS
<1>1. ReturnKinds
  BY ReturnsAreOfAKind
<1>2. pc \in {"before", "check", "issue", "verify"}
  BY DEF Returns, Calling
<1> QED
  BY <1>1, <1>2 DEF ReturnKinds, CallInv, TokensInUse

LEMMA AppliedStep ==
  TypeOK /\ CallInv /\ [Next]_vars =>
    ((Returns /\ result'.status = "Applied") =>
       /\ \A i \in applied : /\ At(desktop, plan[i].win, plan[i].to)
                             /\ Preserved(desktop, plan[i].win)
       /\ StopOnFailure => applied = DOMAIN plan)
<1> SUFFICES ASSUME TypeOK, CallInv, [Next]_vars, Returns, result'.status = "Applied"
             PROVE  /\ \A i \in applied : /\ At(desktop, plan[i].win, plan[i].to)
                                          /\ Preserved(desktop, plan[i].win)
                    /\ StopOnFailure => applied = DOMAIN plan
  OBVIOUS
<1>1. pc = "check" /\ index > Len(plan) /\ FinalLook
  BY ReturnsAreOfAKind DEF ReturnKinds, Reported
<1>2. \A i \in applied : /\ At(desktop, plan[i].win, plan[i].to)
                         /\ Preserved(desktop, plan[i].win)
  BY <1>1, LookIsTrue
<1>3. ASSUME StopOnFailure
      PROVE  applied = DOMAIN plan
  <2>1. plan \in Seq(Move) /\ index \in 1..(Len(plan) + 1) /\ Len(plan) \in Nat
        /\ DOMAIN plan = 1..Len(plan)
    BY <1>1, LenProperties DEF TypeOK, Calling
  <2>2. index - 1 = Len(plan)
    BY <1>1, <2>1
  <2> QED
    BY <1>1, <1>3, <2>1, <2>2 DEF CallInv
<1> QED
  BY <1>2, <1>3

LEMMA PartialStep ==
  TypeOK /\ CallInv /\ [Next]_vars =>
    ((Returns /\ touched # {} /\ result'.status # "Applied") =>
       /\ result'.reconcile
       /\ \E last \in touched : touched \subseteq applied \cup {last})
<1> SUFFICES ASSUME TypeOK, CallInv, [Next]_vars, Returns, touched # {},
                    result'.status # "Applied"
             PROVE  /\ result'.reconcile
                    /\ \E last \in touched : touched \subseteq applied \cup {last}
  OBVIOUS
<1>1. pc \notin {"solved", "before"} /\ Calling
  BY DEF CallInv, Returns
<1>2. CASE pc = "verify"
  <2>1. result'.reconcile
    BY <1>2, ReturnsAreOfAKind DEF ReturnKinds, Reported
  <2>2. touched \subseteq applied \cup {index}
    BY <1>2 DEF CallInv
  <2> QED
    BY <2>1, <2>2
<1>3. CASE pc \in {"check", "issue"}
  <2>1. touched \subseteq applied
    BY <1>3 DEF CallInv
  <2>2. result'.reconcile
    BY <1>3, <2>1, ReturnsAreOfAKind DEF ReturnKinds, Reported
  <2> QED
    BY <2>1, <2>2
<1> QED
  BY <1>1, <1>2, <1>3 DEF Calling

LEMMA CallInit == Init => CallInv
BY DEF Init, CallInv

(* A call of apply() leaves behind the tokens it has found and those of    *)
(* its verified moves, whichever way it returns.                           *)
THEOREM TokensAreForLandedMoves == Spec => TokensOnlyForLandedMoves
BY CallInit, CallNext, TokensStep, TypeCorrect, PTL DEF Spec, TokensOnlyForLandedMoves

(* "Applied" says that every window apply() has moved was in its place     *)
(* when it looked last, and with stopOnFailure that this is the whole plan.*)
THEOREM AppliedIsInPlace == Spec => AppliedMeansInPlace
BY CallInit, CallNext, AppliedStep, TypeCorrect, PTL DEF Spec, AppliedMeansInPlace

(* A call that has touched a window and is not "Applied" asks for a        *)
(* reconcile, and leaves at most one window where nobody has verified it.  *)
THEOREM PartialFailuresAreReported == Spec => PartialFailureReported
BY CallInit, CallNext, PartialStep, TypeCorrect, PTL DEF Spec, PartialFailureReported
=============================================================================
