------------------------- MODULE Coordinator_proofs -------------------------
(***************************************************************************)
(* Machine-checked safety of Coordinator, for any windows, monitors and    *)
(* rectangles, any queue, delays and faults: what is queued for later      *)
(* never meets what the user is doing, an unfinished layout is never       *)
(* forgotten, and no window is placed more often than it is activated.     *)
(***************************************************************************)
EXTENDS Coordinator, TLAPS, SequenceTheorems, FiniteSetTheorems

-----------------------------------------------------------------------------
(* The inductive invariant                                                 *)

BatchRecord ==
  [events : Seq(EventRecord), full : BOOLEAN, fg : Hwnds \cup {None},
   changed : BOOLEAN, suppress : BOOLEAN, ended : Hwnds \cup {None},
   tries : 0..Attempts, snap : Desk \cup {NoSnap}, place : BOOLEAN,
   rect : Rects \cup {None}, cause : Causes]
DragRecord ==
  [hwnd : Hwnds \cup {None}, rect : Rects \cup {None}, activated : BOOLEAN,
   moved : BOOLEAN]
RetryRecord ==
  [hwnd : Hwnds \cup {None}, era : 0..Unknown, wait : 0..MaxDelay,
   delay : FirstDelay..MaxDelay]
PendingRecord == [on : BOOLEAN, place : BOOLEAN]

(* The desktop, the queue and the user's settings. *)
QueueOK == inbox \in Seq(EventRecord) /\ Len(inbox) <= Capacity /\ lost \in BOOLEAN
DesktopOK ==
  /\ desk \in Desk
  /\ front \in Hwnds \cup {None} /\ held \in Hwnds \cup {None}
  /\ actions \in 0..MaxActions /\ enabled \in BOOLEAN
WorldOK == DesktopOK /\ QueueOK /\ faults \in 0..MaxFaults /\ dryRun \in BOOLEAN

(* What the coordinator remembers between batches. *)
FocusOK ==
  /\ active \in Hwnds \cup {None} /\ foreground \in Hwnds \cup {None}
  /\ suppressed \in Hwnds \cup {None}
WorkOK == pending \in PendingRecord /\ retry \in RetryRecord /\ calm \in 0..Quiet
MemoryOK ==
  /\ drag \in DragRecord
  /\ startMonitor \in Monitors \cup {None} /\ permitted \in BOOLEAN
  /\ tokens \subseteq Hwnds

(* The locals of process(). *)
LocalsOK ==
  /\ pc \in Stages
  /\ batch \in BatchRecord
  /\ pc = "idle" => batch = NoBatch
PlanOK ==
  /\ pc # "apply" => plan = NoPlan
  /\ pc = "apply" =>
       /\ batch.snap # NoSnap /\ active \in DOMAIN plan.to
       /\ \E ws \in SUBSET Hwnds : plan.to \in [ws -> Rects]
       /\ plan.wins = {w \in DOMAIN plan.to : plan.to[w] # batch.snap[w].rect}

(* What each stage of process() may rely on: the queue of repairs is empty *)
(* once the foreground is known to have changed, and stays so until the    *)
(* switch is settled; what is dragged is the active window; what waits for *)
(* its window is not suppressed.                                           *)
StageInv ==
  /\ pc \in {"events", "switch"} => batch.cause = "none"
  /\ pc = "events" /\ batch.changed => retry.hwnd = None
  /\ pc = "switch" =>
       retry.hwnd = None /\ drag = NoDrag /\ active # None /\ active # suppressed
  /\ pc = "settle" /\ batch.snap = NoSnap => retry.hwnd = None /\ active # None
  /\ pc = "apply" => ~ pending.on
  /\ drag.hwnd # None => drag.hwnd = active
  /\ pending.on => active # None /\ active # suppressed

Types == WorldOK /\ FocusOK /\ WorkOK /\ MemoryOK /\ LocalsOK /\ PlanOK
Inv == Types /\ StageInv /\ QueuedWorkYields /\ UserComesFirst

LEMMA TypesMeanTypeOK == Types <=> TypeOK
BY Zenon DEF Types, TypeOK, WorldOK, DesktopOK, QueueOK, FocusOK, WorkOK, MemoryOK, LocalsOK,
       PlanOK, BatchRecord, DragRecord, RetryRecord, PendingRecord

-----------------------------------------------------------------------------
(* Records                                                                 *)

LEMMA NoneApart == None \notin Hwnds /\ None \notin Monitors /\ None \notin Rects
BY ConstantsAssumption

LEMMA Numbers ==
  /\ Quiet \in Nat /\ FirstDelay \in Nat /\ 0 < FirstDelay /\ MaxDelay \in Nat
  /\ FirstDelay <= MaxDelay /\ Capacity \in Nat /\ Attempts \in Nat
  /\ MaxActions \in Nat /\ MaxFaults \in Nat /\ MaxEra \in Nat
<1>1. /\ Quiet \in Nat /\ FirstDelay \in Nat \ {0} /\ MaxDelay \in Nat
      /\ FirstDelay <= MaxDelay /\ Capacity \in Nat \ {0} /\ Attempts \in Nat \ {0}
      /\ MaxActions \in Nat /\ MaxFaults \in Nat /\ MaxEra \in Nat
  BY Zenon, ConstantsAssumption
<1> QED
  BY <1>1

LEMMA NothingType ==
  /\ NoBatch \in BatchRecord /\ NoDrag \in DragRecord
  /\ NoPending \in PendingRecord /\ NoRetry \in RetryRecord
<1>1. NoBatch \in BatchRecord
  <2>1. <<>> \in Seq(EventRecord)
    BY EmptySeq
  <2>2. 0 \in 0..Attempts
    BY Numbers
  <2> QED
    BY <2>1, <2>2 DEF NoBatch, BatchRecord, NoSnap, Causes
<1>2. NoRetry \in RetryRecord
  <2>1. Unknown \in Nat /\ 0 \in 0..Unknown /\ 0 \in 0..MaxDelay
    BY Numbers DEF Unknown
  <2>2. FirstDelay \in FirstDelay..MaxDelay
    BY Numbers
  <2> QED
    BY <2>1, <2>2 DEF NoRetry, RetryRecord
<1> QED
  BY <1>1, <1>2 DEF NoDrag, DragRecord, NoPending, PendingRecord

(* The desktop is never taken for a missing snapshot. *)
LEMMA DeskIsSnap ==
  ASSUME NEW d \in Desk
  PROVE  d # NoSnap /\ (\A h \in Hwnds : d[h] \in Window)
<1>1. DOMAIN d = Hwnds /\ Hwnds # {}
  BY ConstantsAssumption DEF Desk
<1>2. DOMAIN <<>> = {}
  BY EmptySeq, LenProperties
<1> QED
  BY <1>1, <1>2 DEF Desk, NoSnap

-----------------------------------------------------------------------------
(* The queue                                                               *)

LEMMA EnqueueType ==
  ASSUME QueueOK, NEW es \in Seq(EventRecord), Enqueue(es)
  PROVE  QueueOK'
<1> DEFINE all == inbox \o es
           n == Least(Capacity, Len(inbox) + Len(es))
<1>1. inbox \in Seq(EventRecord) /\ Len(inbox) \in Nat /\ Len(es) \in Nat
  BY LenProperties DEF QueueOK
<1>2. all \in Seq(EventRecord) /\ Len(all) = Len(inbox) + Len(es)
  BY <1>1, ConcatProperties
<1>3. Capacity \in Nat
  BY Numbers
<1>4. n \in Nat /\ n <= Capacity /\ n <= Len(all)
  BY <1>1, <1>2, <1>3 DEF Least
<1>5. inbox' = SubSeq(all, 1, n)
  BY DEF Enqueue
<1> HIDE DEF all, n
<1>6. \A i \in 1..n : all[i] \in EventRecord
  <2>1. \A i \in 1..n : i \in 1..Len(all)
    BY <1>1, <1>2, <1>4
  <2> QED
    BY <1>2, <2>1, ElementOfSeq
<1>7. inbox' \in Seq(EventRecord) /\ Len(inbox') = IF 1 <= n THEN n - 1 + 1 ELSE 0
  BY <1>4, <1>5, <1>6, SubSeqProperties
<1>8. Len(inbox') <= Capacity
  BY <1>3, <1>4, <1>7
<1>9. lost' \in BOOLEAN
  BY DEF Enqueue, QueueOK
<1> QED
  BY <1>7, <1>8, <1>9 DEF QueueOK

LEMMA EvtType ==
  ASSUME NEW type \in EventTypes, NEW h \in Hwnds
  PROVE  <<Evt(type, h)>> \in Seq(EventRecord)
<1>1. Evt(type, h) \in EventRecord
  BY DEF Evt, EventRecord
<1> QED
  BY <1>1

LEMMA QueueUnchanged == QueueOK /\ UNCHANGED queue => QueueOK'
BY DEF QueueOK, queue

-----------------------------------------------------------------------------
(* The user and other programs                                             *)

(* What the desktop does leaves the coordinator as it is. *)
Aside == <<focus, work, drag, startMonitor, tokens, pc, batch, plan, dryRun>>

LEMMA AsideKeeps ==
  ASSUME Inv, UNCHANGED Aside, permitted' \in BOOLEAN
  PROVE  FocusOK' /\ WorkOK' /\ MemoryOK' /\ LocalsOK' /\ PlanOK'
         /\ StageInv' /\ QueuedWorkYields' /\ UserComesFirst'
<1>1. /\ active' = active /\ foreground' = foreground /\ suppressed' = suppressed
      /\ pending' = pending /\ retry' = retry /\ calm' = calm /\ drag' = drag
      /\ startMonitor' = startMonitor /\ tokens' = tokens /\ pc' = pc
      /\ batch' = batch /\ plan' = plan
  BY DEF Aside, focus, work
<1>2. FocusOK' /\ WorkOK' /\ MemoryOK'
  BY <1>1 DEF Inv, Types, FocusOK, WorkOK, MemoryOK
<1>3. LocalsOK' /\ PlanOK'
  BY <1>1, Zenon DEF Inv, Types, LocalsOK, PlanOK
<1>4. StageInv' /\ QueuedWorkYields' /\ UserComesFirst'
  BY <1>1, Zenon DEF Inv, StageInv, QueuedWorkYields, UserComesFirst
<1> QED
  BY <1>2, <1>3, <1>4

LEMMA ActsAside ==
  ASSUME Inv, NEW doing, Acts(doing), permitted' \in BOOLEAN
  PROVE  /\ UNCHANGED Aside
         /\ actions' \in 0..MaxActions /\ faults' \in 0..MaxFaults /\ dryRun' \in BOOLEAN
<1>1. UNCHANGED Aside
  BY DEF Acts, Aside
<1>2. actions \in 0..MaxActions /\ actions < MaxActions /\ actions' = actions + 1
  BY DEF Acts, Inv, Types, WorldOK, DesktopOK
<1>3. actions' \in 0..MaxActions
  BY <1>2, Numbers
<1>4. faults' = faults /\ dryRun' = dryRun
  BY DEF Acts
<1> QED
  BY <1>1, <1>3, <1>4 DEF Inv, Types, WorldOK

LEMMA OnDesktopAside ==
  ASSUME Inv, NEW doing, OnDesktop(doing)
  PROVE  Acts(doing) /\ enabled' = enabled /\ permitted' = permitted
BY DEF OnDesktop

LEMMA DeskChange ==
  ASSUME desk \in Desk, NEW h \in Hwnds, NEW d \in Window
  PROVE  [desk EXCEPT ![h] = d] \in Desk
BY DEF Desk

LEMMA SwitchToType ==
  ASSUME Inv, NEW h \in Hwnds, NEW right \in BOOLEAN, SwitchTo(h, right)
  PROVE  Inv'
<1>1. OnDesktop(IF right THEN "right click" ELSE "switch")
  BY Zenon DEF SwitchTo
<1>2. permitted' \in BOOLEAN /\ enabled' \in BOOLEAN
  BY <1>1, OnDesktopAside DEF Inv, Types, MemoryOK, WorldOK, DesktopOK
<1>3. /\ UNCHANGED Aside
      /\ actions' \in 0..MaxActions /\ faults' \in 0..MaxFaults /\ dryRun' \in BOOLEAN
  BY <1>1, <1>2, ActsAside, OnDesktopAside
<1>4. QueueOK'
  <2>1. [type |-> "Foreground", hwnd |-> h, suppress |-> right] \in EventRecord
    BY DEF EventRecord, EventTypes
  <2>2. <<[type |-> "Foreground", hwnd |-> h, suppress |-> right]>> \in Seq(EventRecord)
    BY <2>1
  <2>3. Enqueue(<<[type |-> "Foreground", hwnd |-> h, suppress |-> right]>>)
    BY Zenon DEF SwitchTo
  <2> QED
    BY <2>2, <2>3, EnqueueType DEF Inv, Types, WorldOK
<1>5. DesktopOK'
  BY <1>2, <1>3 DEF SwitchTo, Inv, Types, WorldOK, DesktopOK
<1>6. WorldOK'
  BY <1>3, <1>4, <1>5 DEF WorldOK
<1> QED
  BY <1>2, <1>3, <1>6, AsideKeeps DEF Inv, Types

LEMMA PressType ==
  ASSUME Inv, NEW h \in Hwnds, Press(h)
  PROVE  Inv'
<1>1. OnDesktop("press")
  BY Zenon DEF Press
<1>2. permitted' \in BOOLEAN /\ enabled' \in BOOLEAN
  BY <1>1, OnDesktopAside DEF Inv, Types, MemoryOK, WorldOK, DesktopOK
<1>3. /\ UNCHANGED Aside
      /\ actions' \in 0..MaxActions /\ faults' \in 0..MaxFaults /\ dryRun' \in BOOLEAN
  BY <1>1, <1>2, ActsAside, OnDesktopAside
<1>4. QueueOK'
  <2>1. Evt("MoveSizeStart", h) \in EventRecord /\ Evt("Foreground", h) \in EventRecord
    BY DEF Evt, EventRecord, EventTypes
  <2>2. /\ <<Evt("MoveSizeStart", h)>> \in Seq(EventRecord)
        /\ <<Evt("Foreground", h), Evt("MoveSizeStart", h)>> \in Seq(EventRecord)
        /\ <<Evt("MoveSizeStart", h), Evt("Foreground", h)>> \in Seq(EventRecord)
    BY <2>1
  <2>3. \/ Enqueue(<<Evt("MoveSizeStart", h)>>)
        \/ Enqueue(<<Evt("Foreground", h), Evt("MoveSizeStart", h)>>)
        \/ Enqueue(<<Evt("MoveSizeStart", h), Evt("Foreground", h)>>)
    BY Zenon DEF Press
  <2> QED
    BY <2>2, <2>3, EnqueueType DEF Inv, Types, WorldOK
<1>5. DesktopOK'
  BY <1>2, <1>3 DEF Press, Inv, Types, WorldOK, DesktopOK
<1>6. WorldOK'
  BY <1>3, <1>4, <1>5 DEF WorldOK
<1> QED
  BY <1>2, <1>3, <1>6, AsideKeeps DEF Inv, Types

(* The other actions leave at most one event each. *)
LEMMA OneEvent ==
  ASSUME Inv, NEW type \in EventTypes, NEW h \in Hwnds,
         NEW doing, OnDesktop(doing),
         Enqueue(<<Evt(type, h)>>) \/ UNCHANGED queue,
         desk' \in Desk, front' \in Hwnds \cup {None}, held' \in Hwnds \cup {None}
  PROVE  Inv'
<1>1. permitted' \in BOOLEAN /\ enabled' \in BOOLEAN
  BY OnDesktopAside DEF Inv, Types, MemoryOK, WorldOK, DesktopOK
<1>2. /\ UNCHANGED Aside
      /\ actions' \in 0..MaxActions /\ faults' \in 0..MaxFaults /\ dryRun' \in BOOLEAN
  BY <1>1, ActsAside, OnDesktopAside
<1>3. QueueOK'
  BY EvtType, EnqueueType, QueueUnchanged DEF Inv, Types, WorldOK
<1>4. WorldOK'
  BY <1>1, <1>2, <1>3 DEF WorldOK, DesktopOK
<1> QED
  BY <1>1, <1>2, <1>4, AsideKeeps DEF Inv, Types

LEMMA DragToType ==
  ASSUME Inv, NEW r \in Rects, NEW m \in Monitors, DragTo(r, m)
  PROVE  Inv'
<1>1. held \in Hwnds /\ desk \in Desk
  BY DEF DragTo, Inv, Types, WorldOK, DesktopOK
<1>2. desk' = [desk EXCEPT ![held].rect = r, ![held].monitor = m]
  BY Zenon DEF DragTo
<1>3. desk' \in Desk
  BY <1>1, <1>2 DEF Desk, Window
<1>4. /\ OnDesktop("drag") /\ Enqueue(<<Evt("LocationChange", held)>>)
      /\ front' = front /\ held' = held
  BY Zenon DEF DragTo
<1>5. "LocationChange" \in EventTypes
  BY DEF EventTypes
<1>6. front' \in Hwnds \cup {None} /\ held' \in Hwnds \cup {None}
  BY <1>4 DEF Inv, Types, WorldOK, DesktopOK
<1> QED
  BY <1>1, <1>3, <1>4, <1>5, <1>6, OneEvent

LEMMA ReleaseType ==
  ASSUME Inv, Release
  PROVE  Inv'
<1>1. held \in Hwnds
  BY DEF Release, Inv, Types, WorldOK, DesktopOK
<1>2. OnDesktop("release") /\ held' = None /\ UNCHANGED <<desk, front>>
  BY Zenon DEF Release
<1>3. Enqueue(<<Evt("MoveSizeEnd", held)>>) \/ UNCHANGED queue
  BY Zenon DEF Release
<1>4. "MoveSizeEnd" \in EventTypes
  BY DEF EventTypes
<1>5. desk' \in Desk /\ front' \in Hwnds \cup {None} /\ held' \in Hwnds \cup {None}
  BY <1>2 DEF Inv, Types, WorldOK, DesktopOK
<1> QED
  BY <1>1, <1>2, <1>3, <1>4, <1>5, OneEvent

LEMMA ProgramsType ==
  ASSUME Inv, Programs
  PROVE  Inv'
<1>1. desk \in Desk /\ front \in Hwnds \cup {None} /\ held \in Hwnds \cup {None}
  BY DEF Inv, Types, WorldOK, DesktopOK
<1>2. \A h \in Hwnds : desk[h] \in Window
  BY <1>1, DeskIsSnap
<1>3. {"LocationChange", "Show", "Destroy"} \subseteq EventTypes
  BY DEF EventTypes
<1>4. ASSUME NEW h \in Hwnds, NEW r \in Rects, Shove(h, r)
      PROVE  Inv'
  <2>1. /\ desk' = [desk EXCEPT ![h].rect = r] /\ front' = front /\ held' = held
        /\ Enqueue(<<Evt("LocationChange", h)>>) /\ OnDesktop("shove")
    BY <1>4, Zenon DEF Shove
  <2>2. desk' \in Desk
    BY <1>1, <2>1 DEF Desk, Window
  <2> QED
    BY <1>1, <1>3, <2>1, <2>2, OneEvent
<1>5. ASSUME NEW h \in Hwnds, NEW t \in Traits, Change(h, t)
      PROVE  Inv'
  <2>1. /\ desk' = [desk EXCEPT ![h].trait = t] /\ front' = front /\ held' = held
        /\ Enqueue(<<Evt("Show", h)>>) \/ UNCHANGED queue
        /\ OnDesktop("change")
    BY <1>5, Zenon DEF Change
  <2>2. desk' \in Desk
    BY <1>1, <2>1 DEF Desk, Window
  <2> QED
    BY <1>1, <1>3, <2>1, <2>2, OneEvent
<1>6. ASSUME NEW h \in Hwnds, NEW t \in Traits, Open(h, t)
      PROVE  Inv'
  <2>1. /\ desk' = [desk EXCEPT ![h].trait = t, ![h].era = desk[h].era + 1]
        /\ desk[h].era < MaxEra
        /\ Enqueue(<<Evt("Show", h)>>) /\ OnDesktop("open")
        /\ front' = front /\ held' = held
    BY <1>6, Zenon DEF Open
  <2>2. desk[h].era + 1 \in 0..MaxEra
    BY <1>2, <2>1, Numbers DEF Window
  <2>3. desk' \in Desk
    BY <1>1, <2>1, <2>2 DEF Desk, Window
  <2> QED
    BY <1>1, <1>3, <2>1, <2>3, OneEvent
<1>7. ASSUME NEW h \in Hwnds, Close(h)
      PROVE  Inv'
  <2>1. /\ desk' = [desk EXCEPT ![h].trait = "Gone"] /\ held' = held
        /\ front' = (IF front = h THEN None ELSE front)
        /\ Enqueue(<<Evt("Destroy", h)>>) /\ OnDesktop("close")
    BY <1>7, Zenon DEF Close
  <2>2. desk' \in Desk
    BY <1>1, <2>1 DEF Desk, Window, Traits
  <2> QED
    BY <1>1, <1>3, <2>1, <2>2, OneEvent
<1> QED
  BY <1>4, <1>5, <1>6, <1>7, Zenon DEF Programs

LEMMA UserType ==
  ASSUME Inv, User
  PROVE  Inv'
<1>1. ASSUME Pause \/ Resume
      PROVE  Inv'
  <2>1. /\ Acts("pause") /\ UNCHANGED <<desk, front, held, queue>>
        /\ enabled' \in BOOLEAN /\ permitted' \in BOOLEAN
    BY <1>1 DEF Pause, Resume, Inv, Types, MemoryOK
  <2>2. /\ UNCHANGED Aside
        /\ actions' \in 0..MaxActions /\ faults' \in 0..MaxFaults /\ dryRun' \in BOOLEAN
    BY <2>1, ActsAside
  <2>3. QueueOK'
    BY <2>1, QueueUnchanged DEF Inv, Types, WorldOK
  <2>4. DesktopOK'
    BY <2>1, <2>2 DEF Inv, Types, WorldOK, DesktopOK
  <2>5. WorldOK'
    BY <2>2, <2>3, <2>4 DEF WorldOK
  <2> QED
    BY <2>1, <2>2, <2>5, AsideKeeps DEF Inv, Types
<1> QED
  BY <1>1, SwitchToType, PressType, DragToType, ReleaseType, Zenon DEF User

-----------------------------------------------------------------------------
(* process(): shapes of its steps                                          *)

LEMMA FailsType ==
  ASSUME faults \in 0..MaxFaults, UNCHANGED faults \/ Fails
  PROVE  faults' \in 0..MaxFaults
BY Numbers DEF Fails

(* A step of the coordinator that leaves the desktop alone. *)
LEMMA WorldKept ==
  ASSUME Inv, UNCHANGED <<world, queue, modes>>, UNCHANGED faults \/ Fails
  PROVE  WorldOK' /\ dryRun' = dryRun
<1>1. /\ desk' = desk /\ front' = front /\ held' = held /\ actions' = actions
      /\ enabled' = enabled /\ dryRun' = dryRun
  BY DEF world, modes
<1>2. QueueOK'
  BY QueueUnchanged DEF Inv, Types, WorldOK
<1>3. faults' \in 0..MaxFaults
  BY FailsType DEF Inv, Types, WorldOK
<1> QED
  BY <1>1, <1>2, <1>3 DEF Inv, Types, WorldOK, DesktopOK

LEMMA OutsideKept ==
  ASSUME Inv, UNCHANGED outside
  PROVE  WorldOK' /\ dryRun' = dryRun
<1>1. UNCHANGED <<world, queue, modes>> /\ UNCHANGED faults
  BY DEF outside
<1> QED
  BY <1>1, WorldKept

(* What remains of the invariant when the batch is over. *)
LEMMA BatchOver ==
  ASSUME EndBatch, plan' = NoPlan, WorldOK', FocusOK', WorkOK', MemoryOK',
         QueuedWorkYields',
         drag'.hwnd # None => drag'.hwnd = active',
         pending'.on => active' # None /\ active' # suppressed'
  PROVE  Inv'
<1>1. pc' = "idle" /\ batch' = NoBatch
  BY DEF EndBatch
<1>2. LocalsOK' /\ PlanOK'
  BY <1>1, NothingType DEF LocalsOK, PlanOK, Stages
<1>3. StageInv' /\ UserComesFirst'
  BY <1>1 DEF StageInv, UserComesFirst
<1> QED
  BY <1>2, <1>3 DEF Inv, Types

(* ... after each of its events *)
LEMMA BatchGoesOn ==
  ASSUME pc' = "events", plan' = NoPlan, WorldOK', FocusOK', WorkOK', MemoryOK',
         batch' \in BatchRecord, batch'.cause = "none",
         batch'.changed => retry'.hwnd = None,
         QueuedWorkYields',
         drag'.hwnd # None => drag'.hwnd = active',
         pending'.on => active' # None /\ active' # suppressed'
  PROVE  Inv'
<1>1. LocalsOK' /\ PlanOK'
  BY DEF LocalsOK, PlanOK, Stages
<1>2. StageInv' /\ UserComesFirst'
  BY DEF StageInv, UserComesFirst
<1> QED
  BY <1>1, <1>2 DEF Inv, Types

(* ... and when it comes to a layout. *)
LEMMA BatchSettles ==
  ASSUME pc' = "settle", plan' = NoPlan, WorldOK', FocusOK', WorkOK', MemoryOK',
         batch' \in BatchRecord,
         batch'.snap = NoSnap => retry'.hwnd = None /\ active' # None,
         QueuedWorkYields',
         drag' = NoDrag, active' = None \/ active' # suppressed',
         pending'.on => active' # None /\ active' # suppressed'
  PROVE  Inv'
<1>1. LocalsOK' /\ PlanOK'
  BY DEF LocalsOK, PlanOK, Stages
<1>2. drag'.hwnd = None
  BY DEF NoDrag
<1>3. StageInv' /\ UserComesFirst'
  BY <1>2 DEF StageInv, UserComesFirst
<1> QED
  BY <1>1, <1>3 DEF Inv, Types

LEMMA FocusKept == ASSUME Inv, UNCHANGED focus PROVE FocusOK'
BY DEF Inv, Types, FocusOK, focus

(* What Inv says while the events of a batch are folded in. *)
LEMMA Folding ==
  ASSUME Inv, pc = "events"
  PROVE  /\ plan = NoPlan /\ batch.cause = "none"
         /\ batch.changed => retry.hwnd = None
         /\ drag.hwnd # None => drag.hwnd = active
         /\ pending.on => active # None /\ active # suppressed
BY Zenon DEF Inv, Types, PlanOK, StageInv

LEMMA RestType ==
  ASSUME Inv, batch.events # <<>>
  PROVE  /\ Head(batch.events) \in EventRecord
         /\ Rest \in BatchRecord /\ Rest.cause = batch.cause
         /\ Rest.changed = batch.changed
<1>1. batch \in BatchRecord
  BY DEF Inv, Types, LocalsOK
<1>2. batch.events \in Seq(EventRecord)
  BY <1>1 DEF BatchRecord
<1>3. Head(batch.events) \in EventRecord /\ Tail(batch.events) \in Seq(EventRecord)
  BY <1>2, HeadTailProperties
<1>4. ASSUME NEW es \in Seq(EventRecord)
      PROVE  /\ [batch EXCEPT !.events = es] \in BatchRecord
             /\ [batch EXCEPT !.events = es].cause = batch.cause
             /\ [batch EXCEPT !.events = es].changed = batch.changed
  BY <1>1, <1>4 DEF BatchRecord
<1> QED
  BY <1>3, <1>4 DEF Rest

LEMMA HandleType ==
  ASSUME Inv, NEW type, Handle(type)
  PROVE  /\ pc = "events" /\ batch.events # <<>>
         /\ Head(batch.events).hwnd \in Hwnds /\ Head(batch.events).hwnd # None
         /\ Head(batch.events).suppress \in BOOLEAN
<1>1. pc = "events" /\ batch.events # <<>>
  BY DEF Handle
<1>2. Head(batch.events) \in EventRecord
  BY <1>1, RestType
<1> QED
  BY <1>1, <1>2, NoneApart DEF EventRecord

LEMMA ForgottenRetryType ==
  ASSUME Inv, NEW ws, NEW wait \in 0..MaxDelay
  PROVE  /\ ForgottenRetry(ws, wait) \in RetryRecord
         /\ ForgottenRetry(ws, wait).hwnd = retry.hwnd
<1>1. retry \in RetryRecord
  BY DEF Inv, Types, WorkOK
<1>2. Unknown \in 0..Unknown
  BY Numbers DEF Unknown
<1> DEFINE known == IF retry.hwnd \in ws THEN Unknown ELSE retry.era
<1>3. known \in 0..Unknown
  BY <1>1, <1>2 DEF RetryRecord
<1>4. ASSUME NEW era \in 0..Unknown
      PROVE  /\ [retry EXCEPT !.wait = wait, !.era = era] \in RetryRecord
             /\ [retry EXCEPT !.wait = wait, !.era = era].hwnd = retry.hwnd
  BY <1>1 DEF RetryRecord
<1>5. ForgottenRetry(ws, wait) =
        [retry EXCEPT !.wait = wait, !.era = known]
  BY <1>1 DEF ForgottenRetry, RetryRecord
<1> HIDE DEF known
<1>6. /\ [retry EXCEPT !.wait = wait, !.era = known] \in RetryRecord
      /\ [retry EXCEPT !.wait = wait, !.era = known].hwnd = retry.hwnd
  BY <1>3, <1>4, Zenon
<1> QED
  BY <1>5, <1>6, Zenon

(* Noting that a window has been activated or has moved of its own accord *)
(* does not start a drag.                                                  *)
LEMMA DragNotes ==
  ASSUME NEW d \in DragRecord, NEW h \in Hwnds
  PROVE  /\ [d EXCEPT !.activated = d.activated \/ d.hwnd = h] \in DragRecord
         /\ [d EXCEPT !.activated = d.activated \/ d.hwnd = h].hwnd = d.hwnd
         /\ d = NoDrag => [d EXCEPT !.activated = d.activated \/ d.hwnd = h] = NoDrag
         /\ [d EXCEPT !.moved = d.moved \/ d.hwnd = h] \in DragRecord
         /\ [d EXCEPT !.moved = d.moved \/ d.hwnd = h].hwnd = d.hwnd
         /\ d = NoDrag => [d EXCEPT !.moved = d.moved \/ d.hwnd = h] = NoDrag
<1>1. ASSUME NEW b \in BOOLEAN
      PROVE  /\ [d EXCEPT !.activated = b] \in DragRecord
             /\ [d EXCEPT !.activated = b].hwnd = d.hwnd
             /\ [d EXCEPT !.moved = b] \in DragRecord
             /\ [d EXCEPT !.moved = b].hwnd = d.hwnd
  BY <1>1 DEF DragRecord
<1>2. (d.activated \/ d.hwnd = h) \in BOOLEAN /\ (d.moved \/ d.hwnd = h) \in BOOLEAN
  OBVIOUS
<1>3. ASSUME d = NoDrag
      PROVE  (d.activated \/ d.hwnd = h) = FALSE /\ (d.moved \/ d.hwnd = h) = FALSE
  BY <1>3, NoneApart, Zenon DEF NoDrag
<1>4. ASSUME d = NoDrag
      PROVE  [d EXCEPT !.activated = FALSE] = NoDrag /\ [d EXCEPT !.moved = FALSE] = NoDrag
  <2>1. [d EXCEPT !.activated = d.activated] = d /\ [d EXCEPT !.moved = d.moved] = d
    BY DEF DragRecord
  <2>2. d.activated = FALSE /\ d.moved = FALSE
    BY <1>4, Zenon DEF NoDrag
  <2> QED
    BY <1>4, <2>1, <2>2, Zenon
<1>5. ASSUME d = NoDrag
      PROVE  /\ [d EXCEPT !.activated = d.activated \/ d.hwnd = h] = NoDrag
             /\ [d EXCEPT !.moved = d.moved \/ d.hwnd = h] = NoDrag
  BY <1>3, <1>4, <1>5, Zenon
<1> QED
  BY <1>1, <1>2, <1>5, Zenon

-----------------------------------------------------------------------------
(* process(): the batch begins                                             *)

LEMMA WaitsType ==
  ASSUME Inv, NEW dt \in Nat, Waits(dt)
  PROVE  calm' \in 0..Quiet /\ QueueOK'
<1>1. calm \in 0..Quiet /\ calm' = Least(calm + dt, Quiet)
  BY DEF Inv, Types, WorkOK, Waits
<1>2. calm' \in 0..Quiet
  BY <1>1, Numbers DEF Least
<1>3. inbox' = <<>> /\ lost' = FALSE /\ Len(<<>>) = 0
  BY EmptySeq DEF Waits
<1>4. <<>> \in Seq(EventRecord) /\ 0 <= Capacity
  BY EmptySeq, Numbers
<1>5. QueueOK'
  BY <1>3, <1>4 DEF QueueOK
<1> QED
  BY <1>2, <1>5

LEMMA BeginBatchType ==
  ASSUME Inv, NEW dt \in Nat, NEW timer \in BOOLEAN, BeginBatch(dt, timer)
  PROVE  Inv'
<1> DEFINE gone == IF lost THEN Hwnds ELSE {}
           wait == IF dt >= retry.wait THEN 0 ELSE retry.wait - dt
<1>1. /\ pc = "idle" /\ pc' = "events" /\ plan' = plan
      /\ batch' = [NoBatch EXCEPT !.events = inbox, !.full = timer \/ lost]
      /\ retry' = ForgottenRetry(gone, wait) /\ Waits(dt)
      /\ UNCHANGED <<world, faults, modes, focus, pending, drag, startMonitor, permitted,
                     tokens>>
  BY Zenon DEF BeginBatch
<1>2. /\ retry \in RetryRecord /\ inbox \in Seq(EventRecord) /\ lost \in BOOLEAN
      /\ MemoryOK /\ pending \in PendingRecord
  BY DEF Inv, Types, WorkOK, WorldOK, QueueOK
<1>3. wait \in 0..MaxDelay
  BY <1>2, Numbers DEF RetryRecord
<1>4. retry' \in RetryRecord /\ retry'.hwnd = retry.hwnd
  <2> HIDE DEF wait, gone
  <2> QED
    BY <1>1, <1>3, ForgottenRetryType
<1>5. QueueOK' /\ calm' \in 0..Quiet
  BY <1>1, WaitsType
<1>6. UNCHANGED <<desk, front, held, actions, faults, enabled, dryRun, pending, drag,
                  active, foreground, suppressed, startMonitor, permitted, tokens>>
  BY <1>1 DEF world, modes, focus
<1>7. WorldOK'
  BY <1>5, <1>6 DEF Inv, Types, WorldOK, DesktopOK
<1>8. FocusOK' /\ WorkOK' /\ MemoryOK'
  BY <1>2, <1>4, <1>5, <1>6 DEF Inv, Types, FocusOK, WorkOK, MemoryOK
<1>9. ASSUME NEW full \in BOOLEAN
      PROVE  /\ [NoBatch EXCEPT !.events = inbox, !.full = full] \in BatchRecord
             /\ [NoBatch EXCEPT !.events = inbox, !.full = full].cause = "none"
             /\ ~ [NoBatch EXCEPT !.events = inbox, !.full = full].changed
  <2>1. NoBatch \in BatchRecord /\ NoBatch.cause = "none"
    BY NothingType DEF NoBatch
  <2>2. [NoBatch EXCEPT !.events = inbox, !.full = full].changed = FALSE
    BY Zenon DEF NoBatch
  <2>3. /\ [NoBatch EXCEPT !.events = inbox, !.full = full] \in BatchRecord
        /\ [NoBatch EXCEPT !.events = inbox, !.full = full].cause = NoBatch.cause
    BY <1>2, <1>9, <2>1 DEF BatchRecord
  <2> QED
    BY <2>1, <2>2, <2>3
<1>10. (timer \/ lost) \in BOOLEAN
  OBVIOUS
<1>11. batch' \in BatchRecord /\ batch'.cause = "none" /\ ~ batch'.changed
  BY <1>1, <1>9, <1>10, Zenon
<1>12. QueuedWorkYields'
  BY <1>4, <1>6 DEF Inv, QueuedWorkYields
<1>13. /\ drag'.hwnd # None => drag'.hwnd = active'
       /\ pending'.on => active' # None /\ active' # suppressed'
  BY <1>6 DEF Inv, StageInv
<1>14. plan' = NoPlan
  BY <1>1 DEF Inv, Types, PlanOK
<1> QED
  BY <1>1, <1>7, <1>8, <1>11, <1>12, <1>13, <1>14, BatchGoesOn

LEMMA DisabledBatchType ==
  ASSUME Inv, NEW dt \in Nat, NEW timer \in BOOLEAN, DisabledBatch(dt, timer)
  PROVE  Inv'
<1>1. /\ pc = "idle" /\ pc' = pc /\ batch' = batch /\ plan' = plan
      /\ retry' = NoRetry /\ pending' = NoPending /\ drag' = NoDrag /\ Waits(dt)
      /\ suppressed' = None /\ active' = active /\ foreground' = foreground
      /\ permitted' = FALSE /\ startMonitor' = startMonitor /\ tokens' = tokens
      /\ UNCHANGED <<world, faults, modes>>
  BY Zenon DEF DisabledBatch
<1>2. QueueOK' /\ calm' \in 0..Quiet
  BY <1>1, WaitsType
<1>3. WorldOK'
  BY <1>1, <1>2 DEF Inv, Types, WorldOK, DesktopOK, world, modes
<1>4. FocusOK' /\ MemoryOK'
  BY <1>1, NothingType DEF Inv, Types, FocusOK, MemoryOK
<1>5. WorkOK'
  BY <1>1, <1>2, NothingType DEF WorkOK
<1>6. batch = NoBatch /\ plan = NoPlan
  BY <1>1 DEF Inv, Types, LocalsOK, PlanOK
<1>7. QueuedWorkYields'
  BY <1>1 DEF QueuedWorkYields, NoRetry, NoPending
<1>8. drag'.hwnd = None /\ ~ pending'.on
  BY <1>1 DEF NoDrag, NoPending
<1> QED
  BY <1>1, <1>3, <1>4, <1>5, <1>6, <1>7, <1>8, BatchOver DEF EndBatch

-----------------------------------------------------------------------------
(* process(): its events                                                   *)

LEMMA NothingQueued ==
  /\ NoRetry.hwnd = None /\ ~ NoPending.on /\ NoDrag.hwnd = None
BY DEF NoRetry, NoPending, NoDrag

LEMMA EndedField ==
  ASSUME NEW b \in BatchRecord, NEW h \in Hwnds \cup {None}
  PROVE  /\ [b EXCEPT !.ended = h] \in BatchRecord
         /\ [b EXCEPT !.ended = h].cause = b.cause
         /\ [b EXCEPT !.ended = h].changed = b.changed
BY DEF BatchRecord

LEMMA BatchFields ==
  ASSUME NEW b \in BatchRecord, NEW h \in Hwnds \cup {None},
         NEW c \in BOOLEAN, NEW s \in BOOLEAN
  PROVE  /\ [b EXCEPT !.ended = None, !.fg = h, !.changed = c, !.suppress = s] \in BatchRecord
         /\ [b EXCEPT !.ended = None, !.fg = h, !.changed = c, !.suppress = s].cause = b.cause
BY DEF BatchRecord

LEMMA StartsDragType ==
  ASSUME NEW h \in Hwnds, StartsDrag(h)
  PROVE  /\ WorkOK' /\ QueuedWorkYields'
         /\ active' = h /\ retry'.hwnd = None /\ ~ pending'.on
<1>1. retry' = NoRetry /\ pending' = NoPending /\ calm' = 0 /\ active' = h
  BY DEF StartsDrag
<1>2. WorkOK'
  BY <1>1, NothingType, Numbers DEF WorkOK
<1>3. QueuedWorkYields'
  BY <1>1, NothingQueued DEF QueuedWorkYields
<1> QED
  BY <1>1, <1>2, <1>3, NothingQueued

LEMMA MoveSizeStartType ==
  ASSUME Inv, MoveSizeStart
  PROVE  Inv'
<1> DEFINE h == Head(batch.events).hwnd
           kept == DragSuppression(h, Preceded(h))
<1>1. /\ Handle("MoveSizeStart") /\ StartsDrag(h)
      /\ startMonitor' = (IF Present(desk, h) THEN desk[h].monitor ELSE None)
      /\ drag' = [hwnd |-> h, rect |-> IF Present(desk, h) THEN desk[h].rect ELSE None,
                  activated |-> Preceded(h), moved |-> FALSE]
      /\ suppressed' = (IF Managed(desk, h) /\ h # kept THEN None ELSE kept)
      /\ permitted' = TRUE /\ foreground' = foreground /\ tokens' = tokens
      /\ batch' = (IF Preceded(h) /\ batch.suppress
                    THEN [Rest EXCEPT !.ended = None]
                    ELSE [Rest EXCEPT !.ended = None, !.fg = None, !.changed = FALSE,
                                      !.suppress = FALSE])
      /\ UNCHANGED outside /\ pc' = pc /\ plan' = plan
  BY Zenon DEF MoveSizeStart
<1>2. pc = "events" /\ batch.events # <<>> /\ h \in Hwnds
  BY <1>1, HandleType
<1>3. Rest \in BatchRecord /\ Rest.cause = batch.cause /\ batch.cause = "none" /\ plan = NoPlan
  BY <1>2, RestType, Folding
<1> HIDE DEF h
<1>4. desk[h] \in Window /\ Preceded(h) \in BOOLEAN
  BY <1>2, DeskIsSnap DEF Inv, Types, WorldOK, DesktopOK, Preceded
<1>5. /\ kept \in Hwnds \cup {None}
      /\ desk[h].rect \in Rects /\ desk[h].monitor \in Monitors
  BY <1>2, <1>4 DEF Inv, Types, FocusOK, DragSuppression, Window
<1> HIDE DEF kept
<1>6. FocusOK'
  BY <1>1, <1>2, <1>5 DEF StartsDrag, Inv, Types, FocusOK
<1>7. drag' \in DragRecord /\ drag'.hwnd = h
  <2> DEFINE r == IF Present(desk, h) THEN desk[h].rect ELSE None
  <2>1. r \in Rects \cup {None}
    BY <1>5
  <2> HIDE DEF r
  <2>2. ASSUME NEW a \in BOOLEAN
        PROVE  /\ [hwnd |-> h, rect |-> r, activated |-> a, moved |-> FALSE] \in DragRecord
               /\ [hwnd |-> h, rect |-> r, activated |-> a, moved |-> FALSE].hwnd = h
    BY <1>2, <2>1, <2>2 DEF DragRecord
  <2>3. drag' = [hwnd |-> h, rect |-> r, activated |-> Preceded(h), moved |-> FALSE]
    BY <1>1, Zenon DEF r
  <2> QED
    BY <1>4, <2>2, <2>3, Zenon
<1>8. MemoryOK'
  BY <1>1, <1>5, <1>7 DEF Inv, Types, MemoryOK
<1>9. batch' \in BatchRecord /\ batch'.cause = "none"
  <2>1. /\ [Rest EXCEPT !.ended = None] \in BatchRecord
        /\ [Rest EXCEPT !.ended = None].cause = "none"
    BY <1>3, EndedField
  <2>2. /\ [Rest EXCEPT !.ended = None, !.fg = None, !.changed = FALSE,
                        !.suppress = FALSE] \in BatchRecord
        /\ [Rest EXCEPT !.ended = None, !.fg = None, !.changed = FALSE,
                        !.suppress = FALSE].cause = "none"
    <3>1. None \in Hwnds \cup {None} /\ FALSE \in BOOLEAN
      OBVIOUS
    <3> QED
      BY <1>3, <3>1, BatchFields, Zenon
  <2> QED
    BY <1>1, <2>1, <2>2, Zenon
<1> QED
  BY <1>1, <1>2, <1>3, <1>6, <1>7, <1>8, <1>9, OutsideKept, StartsDragType, BatchGoesOn

LEMMA MoveSizeStartBlindType ==
  ASSUME Inv, MoveSizeStartBlind
  PROVE  Inv'
<1> DEFINE h == Head(batch.events).hwnd
<1>1. /\ Handle("MoveSizeStart") /\ StartsDrag(h)
      /\ drag' = [hwnd |-> h, rect |-> None, activated |-> Preceded(h), moved |-> FALSE]
      /\ suppressed' = DragSuppression(h, Preceded(h))
      /\ permitted' = FALSE /\ foreground' = foreground /\ tokens' = tokens
      /\ startMonitor' = startMonitor /\ Fails /\ EndBatch /\ plan' = plan
      /\ UNCHANGED <<world, queue, modes>>
  BY Zenon DEF MoveSizeStartBlind
<1>2. pc = "events" /\ h \in Hwnds /\ plan = NoPlan
  BY <1>1, HandleType, Folding
<1> HIDE DEF h
<1>3. FocusOK'
  BY <1>1, <1>2 DEF StartsDrag, Inv, Types, FocusOK, DragSuppression
<1>4. drag' \in DragRecord /\ drag'.hwnd = h
  <2>1. Preceded(h) \in BOOLEAN
    BY DEF Preceded
  <2>2. ASSUME NEW a \in BOOLEAN
        PROVE  /\ [hwnd |-> h, rect |-> None, activated |-> a, moved |-> FALSE] \in DragRecord
               /\ [hwnd |-> h, rect |-> None, activated |-> a, moved |-> FALSE].hwnd = h
    BY <1>2, <2>2 DEF DragRecord
  <2> QED
    BY <1>1, <2>1, <2>2, Zenon
<1>5. MemoryOK'
  BY <1>1, <1>4 DEF Inv, Types, MemoryOK
<1>6. WorldOK'
  BY <1>1, WorldKept
<1> QED
  BY <1>1, <1>2, <1>3, <1>4, <1>5, <1>6, StartsDragType, BatchOver

LEMMA ForegroundType ==
  ASSUME Inv, Foreground
  PROVE  Inv'
<1> DEFINE e == Head(batch.events)
           h == e.hwnd
           changed == Rest.changed \/ h # foreground
<1>1. /\ Handle("Foreground") /\ foreground' = h
      /\ IF h # foreground
           THEN /\ retry' = NoRetry /\ calm' = 0
                /\ drag' = [drag EXCEPT !.activated = drag.activated \/ drag.hwnd = h]
           ELSE UNCHANGED <<retry, calm, drag>>
      /\ UNCHANGED <<outside, active, suppressed, pending, txn, tokens, pc, plan>>
  BY Zenon DEF Foreground
<1>2. pc = "events" /\ batch.events # <<>> /\ h \in Hwnds /\ e.suppress \in BOOLEAN
  BY <1>1, HandleType
<1>3. /\ Rest \in BatchRecord /\ Rest.cause = "none" /\ Rest.changed = batch.changed
      /\ plan = NoPlan
      /\ batch.changed => retry.hwnd = None
      /\ drag.hwnd # None => drag.hwnd = active
      /\ pending.on => active # None /\ active # suppressed
  BY <1>2, RestType, Folding
<1>4. batch' = [Rest EXCEPT !.fg = h, !.suppress = e.suppress, !.changed = changed]
  <2>1. batch' = [Rest EXCEPT !.fg = h, !.suppress = e.suppress,
                              !.changed = @ \/ h # foreground]
    BY Zenon DEF Foreground
  <2> QED
    BY <1>3, <2>1 DEF BatchRecord
<1>5. changed \in BOOLEAN
  OBVIOUS
<1>6. changed => h # foreground \/ retry.hwnd = None
  BY <1>3, Zenon
<1> HIDE DEF changed
<1>7. batch' \in BatchRecord /\ batch'.cause = "none" /\ batch'.changed = changed
  <2>1. h \in Hwnds \cup {None}
    BY <1>2
  <2> HIDE DEF h, e
  <2>2. ASSUME NEW c \in BOOLEAN, NEW s \in BOOLEAN
        PROVE  /\ [Rest EXCEPT !.fg = h, !.suppress = s, !.changed = c] \in BatchRecord
               /\ [Rest EXCEPT !.fg = h, !.suppress = s, !.changed = c].cause = "none"
               /\ [Rest EXCEPT !.fg = h, !.suppress = s, !.changed = c].changed = c
    BY <1>3, <2>1, <2>2 DEF BatchRecord
  <2>3. e.suppress \in BOOLEAN
    BY <1>2
  <2> QED
    BY <1>4, <1>5, <2>2, <2>3, Zenon
<1> HIDE DEF h, e
<1>8. drag \in DragRecord /\ retry \in RetryRecord /\ pending \in PendingRecord /\ calm \in 0..Quiet
  BY DEF Inv, Types, MemoryOK, WorkOK
<1>9. /\ drag' \in DragRecord /\ drag'.hwnd = drag.hwnd
      /\ drag = NoDrag => drag' = NoDrag
  <2>1. CASE h # foreground
    <3>1. drag' = [drag EXCEPT !.activated = drag.activated \/ drag.hwnd = h]
      BY <1>1, <2>1, Zenon
    <3>2. /\ [drag EXCEPT !.activated = drag.activated \/ drag.hwnd = h] \in DragRecord
          /\ [drag EXCEPT !.activated = drag.activated \/ drag.hwnd = h].hwnd = drag.hwnd
          /\ drag = NoDrag =>
               [drag EXCEPT !.activated = drag.activated \/ drag.hwnd = h] = NoDrag
      BY <1>2, <1>8, DragNotes
    <3> QED
      BY <3>1, <3>2, Zenon
  <2>2. CASE ~ (h # foreground)
    BY <1>1, <1>8, <2>2, Zenon
  <2> QED
    BY <2>1, <2>2
<1>10. /\ retry' \in RetryRecord /\ calm' \in 0..Quiet
       /\ h # foreground => retry'.hwnd = None
       /\ retry'.hwnd # None => retry' = retry
  BY <1>1, <1>8, NothingType, NothingQueued, Numbers
<1>11. FocusOK' /\ WorkOK' /\ MemoryOK'
  BY <1>1, <1>2, <1>8, <1>9, <1>10 DEF Inv, Types, FocusOK, WorkOK, MemoryOK, txn
<1>12. batch'.changed => retry'.hwnd = None
  BY <1>1, <1>6, <1>7, <1>10
<1>13. QueuedWorkYields'
  BY <1>1, <1>9, <1>10, Zenon DEF Inv, QueuedWorkYields
<1>14. WorldOK'
  BY <1>1, OutsideKept
<1> QED
  BY <1>1, <1>2, <1>3, <1>7, <1>9, <1>11, <1>12, <1>13, <1>14, BatchGoesOn

(* Events that leave the focus and what is queued alone. *)
LEMMA QuietEvent ==
  ASSUME Inv, pc = "events", batch.events # <<>>,
         UNCHANGED <<outside, focus, pending, retry, txn, pc, plan>>,
         batch' \in BatchRecord, batch'.cause = batch.cause, batch'.changed = batch.changed,
         calm' \in 0..Quiet, tokens' \subseteq Hwnds,
         drag' \in DragRecord, drag'.hwnd = drag.hwnd, drag = NoDrag => drag' = NoDrag
  PROVE  Inv'
<1>1. /\ plan = NoPlan /\ batch.cause = "none"
      /\ batch.changed => retry.hwnd = None
      /\ drag.hwnd # None => drag.hwnd = active
      /\ pending.on => active # None /\ active # suppressed
  BY Folding
<1>2. /\ active' = active /\ suppressed' = suppressed /\ pending' = pending
      /\ retry' = retry /\ pc' = pc /\ plan' = plan
  BY DEF focus
<1>3. FocusOK' /\ WorldOK'
  BY FocusKept, OutsideKept
<1>4. WorkOK' /\ MemoryOK'
  BY <1>2 DEF Inv, Types, WorkOK, MemoryOK, txn
<1>5. QueuedWorkYields'
  BY <1>2, Zenon DEF Inv, QueuedWorkYields
<1> QED
  BY <1>1, <1>2, <1>3, <1>4, <1>5, BatchGoesOn

LEMMA QuietEventsType ==
  ASSUME Inv, Coalesced \/ MoveSizeEnd \/ LocationChange \/ Show
  PROVE  Inv'
<1>1. /\ drag \in DragRecord /\ calm \in 0..Quiet /\ 0 \in 0..Quiet /\ tokens \subseteq Hwnds
      /\ batch \in BatchRecord
  BY Numbers DEF Inv, Types, MemoryOK, WorkOK, LocalsOK
<1>2. CASE Coalesced
  <2>1. /\ pc = "events" /\ batch.events # <<>> /\ batch' = Rest
        /\ UNCHANGED <<outside, focus, work, drag, txn, tokens, pc, plan>>
    BY <1>2, Zenon DEF Coalesced
  <2> QED
    BY <1>1, <2>1, RestType, QuietEvent DEF work
<1>3. CASE MoveSizeEnd
  <2> DEFINE h == Head(batch.events).hwnd
  <2>1. /\ Handle("MoveSizeEnd")
        /\ batch' = IF drag.hwnd = h THEN [Rest EXCEPT !.ended = h] ELSE Rest
        /\ UNCHANGED <<outside, focus, work, drag, txn, tokens, pc, plan>>
    BY <1>3, Zenon DEF MoveSizeEnd
  <2>2. pc = "events" /\ batch.events # <<>> /\ h \in Hwnds
    BY <2>1, HandleType
  <2>3. Rest \in BatchRecord /\ Rest.cause = batch.cause /\ Rest.changed = batch.changed
    BY <2>2, RestType
  <2> HIDE DEF h
  <2>4. batch' \in BatchRecord /\ batch'.cause = batch.cause /\ batch'.changed = batch.changed
    BY <2>1, <2>2, <2>3, EndedField
  <2> QED
    BY <1>1, <2>1, <2>2, <2>4, QuietEvent DEF work
<1>4. CASE LocationChange
  <2> DEFINE h == Head(batch.events).hwnd
  <2>1. /\ Handle("LocationChange")
        /\ tokens' = tokens \ {h} /\ batch' = Rest
        /\ IF h \in tokens
             THEN UNCHANGED <<calm, drag>>
             ELSE calm' = 0 /\ drag' = [drag EXCEPT !.moved = drag.moved \/ drag.hwnd = h]
        /\ UNCHANGED <<outside, focus, pending, retry, txn, pc, plan>>
    BY <1>4, Zenon DEF LocationChange
  <2>2. pc = "events" /\ batch.events # <<>> /\ h \in Hwnds
    BY <2>1, HandleType
  <2>3. /\ batch' \in BatchRecord /\ batch'.cause = batch.cause
        /\ batch'.changed = batch.changed
    BY <2>1, <2>2, RestType
  <2> HIDE DEF h
  <2>4. /\ drag' \in DragRecord /\ drag'.hwnd = drag.hwnd
        /\ drag = NoDrag => drag' = NoDrag
    <3>1. CASE h \in tokens
      BY <1>1, <2>1, <3>1
    <3>2. CASE h \notin tokens
      <4>1. drag' = [drag EXCEPT !.moved = drag.moved \/ drag.hwnd = h]
        BY <2>1, <3>2, Zenon
      <4>2. /\ [drag EXCEPT !.moved = drag.moved \/ drag.hwnd = h] \in DragRecord
            /\ [drag EXCEPT !.moved = drag.moved \/ drag.hwnd = h].hwnd = drag.hwnd
            /\ drag = NoDrag => [drag EXCEPT !.moved = drag.moved \/ drag.hwnd = h] = NoDrag
        BY <1>1, <2>2, DragNotes
      <4> QED
        BY <4>1, <4>2, Zenon
    <3> QED
      BY <3>1, <3>2
  <2>5. calm' \in 0..Quiet /\ tokens' \subseteq Hwnds
    BY <1>1, <2>1
  <2> QED
    BY <2>1, <2>2, <2>3, <2>4, <2>5, QuietEvent
<1>5. CASE Show
  <2>1. /\ Handle("Show") /\ calm' = 0 /\ batch' = Rest
        /\ UNCHANGED <<outside, focus, pending, retry, drag, txn, tokens, pc, plan>>
    BY <1>5, Zenon DEF Show
  <2>2. pc = "events" /\ batch.events # <<>>
    BY <2>1, HandleType
  <2> QED
    BY <1>1, <2>1, <2>2, RestType, QuietEvent
<1> QED
  BY <1>2, <1>3, <1>4, <1>5

LEMMA DestroyType ==
  ASSUME Inv, Destroy
  PROVE  Inv'
<1> DEFINE h == Head(batch.events).hwnd
<1>1. /\ Handle("Destroy") /\ calm' = 0 /\ batch' = Rest
      /\ suppressed' = (IF suppressed = h THEN None ELSE suppressed)
      /\ retry' = ForgottenRetry({h}, retry.wait)
      /\ UNCHANGED <<outside, active, foreground, pending, drag, startMonitor, permitted,
                     tokens, pc, plan>>
  BY Zenon DEF Destroy
<1>2. pc = "events" /\ batch.events # <<>> /\ h \in Hwnds
  BY <1>1, HandleType
<1>3. /\ batch' \in BatchRecord /\ batch'.cause = "none" /\ batch'.changed = batch.changed
      /\ plan = NoPlan
      /\ batch.changed => retry.hwnd = None
      /\ drag.hwnd # None => drag.hwnd = active
      /\ pending.on => active # None /\ active # suppressed
  BY <1>1, <1>2, RestType, Folding
<1>4. retry.wait \in 0..MaxDelay
  BY DEF Inv, Types, WorkOK, RetryRecord
<1>5. retry' \in RetryRecord /\ retry'.hwnd = retry.hwnd
  <2> HIDE DEF h
  <2> QED
    BY <1>1, <1>4, ForgottenRetryType
<1> HIDE DEF h
<1>6. FocusOK' /\ WorkOK' /\ MemoryOK'
  BY <1>1, <1>5, Numbers DEF Inv, Types, FocusOK, WorkOK, MemoryOK
<1>7. QueuedWorkYields'
  BY <1>1, <1>5 DEF Inv, QueuedWorkYields
<1>8. WorldOK'
  BY <1>1, OutsideKept
<1> QED
  BY <1>1, <1>2, <1>3, <1>5, <1>6, <1>7, <1>8, BatchGoesOn

-----------------------------------------------------------------------------
(* process(): its decisions                                                *)

LEMMA MemoryKept ==
  ASSUME Inv, UNCHANGED <<startMonitor, tokens>>, permitted' \in BOOLEAN, drag' \in DragRecord
  PROVE  MemoryOK'
BY DEF Inv, Types, MemoryOK

(* What Inv says while the batch is decided upon. *)
LEMMA Deciding ==
  ASSUME Inv, Folded
  PROVE  /\ pc = "events" /\ plan = NoPlan
         /\ batch \in BatchRecord /\ batch.cause = "none"
         /\ batch.fg \in Hwnds \cup {None} /\ batch.ended \in Hwnds \cup {None}
         /\ batch.changed => retry.hwnd = None
         /\ drag.hwnd # None => drag.hwnd = active
         /\ pending.on => active # None /\ active # suppressed
<1>1. pc = "events" /\ batch \in BatchRecord
  BY DEF Folded, Inv, Types, LocalsOK
<1>2. batch.fg \in Hwnds \cup {None} /\ batch.ended \in Hwnds \cup {None}
  BY <1>1 DEF BatchRecord
<1> QED
  BY <1>1, <1>2, Folding

(* A decision that only ends the batch. *)
LEMMA NothingDecided ==
  ASSUME Inv, pc \in {"events", "switch"}, EndBatch,
         UNCHANGED <<world, queue, modes>>, UNCHANGED faults \/ Fails,
         UNCHANGED <<focus, work, drag, txn, tokens, plan>>
  PROVE  Inv'
<1>1. /\ active' = active /\ suppressed' = suppressed /\ pending' = pending
      /\ retry' = retry /\ drag' = drag /\ plan' = plan
  BY DEF focus, work
<1>2. plan = NoPlan
  BY DEF Inv, Types, PlanOK
<1>3. /\ drag.hwnd # None => drag.hwnd = active
      /\ pending.on => active # None /\ active # suppressed
  BY DEF Inv, StageInv
<1>4. WorldOK' /\ FocusOK'
  BY WorldKept, FocusKept
<1>5. WorkOK' /\ MemoryOK'
  BY DEF Inv, Types, WorkOK, MemoryOK, work, txn
<1>6. QueuedWorkYields'
  BY <1>1, Zenon DEF Inv, QueuedWorkYields
<1> QED
  BY <1>1, <1>2, <1>3, <1>4, <1>5, <1>6, BatchOver

LEMMA NothingDecidedType ==
  ASSUME Inv, SwitchLost \/ ReconcileFails \/ NothingToDo
  PROVE  Inv'
<1>1. CASE SwitchLost
  <2>1. pc = "switch" /\ EndBatch /\ UNCHANGED <<outside, focus, work, drag, txn, tokens, plan>>
    BY <1>1, Zenon DEF SwitchLost
  <2> QED
    BY <2>1, NothingDecided DEF outside
<1>2. CASE ReconcileFails
  <2>1. /\ Folded /\ Fails /\ EndBatch
        /\ UNCHANGED <<world, queue, modes, focus, work, drag, txn, tokens, plan>>
    BY <1>2, Zenon DEF ReconcileFails
  <2> QED
    BY <2>1, NothingDecided DEF Folded
<1>3. CASE NothingToDo
  <2>1. Folded /\ EndBatch /\ UNCHANGED <<outside, focus, work, drag, txn, tokens, plan>>
    BY <1>3, Zenon DEF NothingToDo
  <2> QED
    BY <2>1, NothingDecided DEF outside, Folded
<1> QED
  BY <1>1, <1>2, <1>3

LEMMA SuppressType ==
  ASSUME Inv, Suppress
  PROVE  Inv'
<1>1. /\ Folded /\ Suppresses /\ permitted' = FALSE /\ retry' = NoRetry
      /\ pending' = NoPending /\ drag' = NoDrag /\ active' = batch.fg
      /\ suppressed' = (IF batch.suppress THEN batch.fg ELSE suppressed)
      /\ EndBatch
      /\ UNCHANGED <<outside, foreground, calm, startMonitor, seen, tokens, plan>>
  BY Zenon DEF Suppress
<1>2. batch.fg \in Hwnds \cup {None} /\ plan = NoPlan
  BY <1>1, Deciding
<1>3. FocusOK' /\ WorkOK'
  BY <1>1, <1>2, NothingType DEF Inv, Types, FocusOK, WorkOK
<1>4. MemoryOK' /\ WorldOK'
  BY <1>1, NothingType, MemoryKept, OutsideKept
<1>5. QueuedWorkYields'
  BY <1>1, NothingQueued DEF QueuedWorkYields
<1> QED
  BY <1>1, <1>2, <1>3, <1>4, <1>5, NothingQueued, BatchOver

LEMMA BeginSwitchType ==
  ASSUME Inv, BeginSwitch
  PROVE  Inv'
<1>1. /\ Folded /\ Switches /\ drag' = NoDrag /\ active' = batch.fg
      /\ pending' = [on |-> TRUE, place |-> PlaceActivated]
      /\ permitted' = FALSE /\ pc' = "switch" /\ batch' = batch
      /\ UNCHANGED <<outside, foreground, suppressed, retry, calm, startMonitor,
                     tokens, plan>>
  BY Zenon DEF BeginSwitch
<1>2. /\ pc = "events" /\ plan = NoPlan /\ batch \in BatchRecord /\ batch.cause = "none"
      /\ batch.fg \in Hwnds \cup {None}
      /\ batch.changed => retry.hwnd = None
  BY <1>1, Deciding
<1>3. batch.fg # None /\ batch.fg # suppressed /\ retry.hwnd = None
  BY <1>1, <1>2, Zenon DEF Switches, Suppresses
<1>4. pending' \in PendingRecord
  <2>1. PlaceActivated \in BOOLEAN
    BY Zenon, ConstantsAssumption
  <2> QED
    BY <1>1, <2>1 DEF PendingRecord
<1>5. FocusOK' /\ WorkOK'
  BY <1>1, <1>2, <1>4 DEF Inv, Types, FocusOK, WorkOK
<1>6. MemoryOK' /\ WorldOK'
  BY <1>1, NothingType, MemoryKept, OutsideKept
<1>7. LocalsOK' /\ PlanOK'
  BY <1>1, <1>2 DEF LocalsOK, PlanOK, Stages
<1>8. StageInv'
  BY <1>1, <1>2, <1>3, NothingQueued DEF StageInv
<1>9. QueuedWorkYields' /\ UserComesFirst'
  BY <1>1, <1>3 DEF QueuedWorkYields, UserComesFirst
<1> QED
  BY <1>5, <1>6, <1>7, <1>8, <1>9 DEF Inv, Types

LEMMA CaptureAgainType ==
  ASSUME Inv, CaptureAgain
  PROVE  Inv'
<1> DEFINE taken(s) == [batch EXCEPT !.tries = batch.tries + 1, !.snap = s]
<1>1. /\ pc = "switch" /\ pc' = pc /\ batch.tries < Attempts
      /\ batch' = taken(desk) \/ batch' = taken(NoSnap)
      /\ UNCHANGED faults \/ Fails
      /\ UNCHANGED <<world, queue, modes, focus, work, drag, txn, tokens, plan>>
  BY Zenon DEF CaptureAgain
<1>2. batch \in BatchRecord /\ desk \in Desk /\ batch.cause = "none"
  BY <1>1 DEF Inv, Types, LocalsOK, WorldOK, DesktopOK, StageInv
<1>3. batch.tries + 1 \in 0..Attempts
  BY <1>1, <1>2, Numbers DEF BatchRecord
<1>4. \A s \in Desk \cup {NoSnap} : taken(s) \in BatchRecord /\ taken(s).cause = "none"
  BY <1>2, <1>3 DEF BatchRecord
<1> HIDE DEF taken
<1>5. batch' \in BatchRecord /\ batch'.cause = "none"
  BY <1>1, <1>2, <1>4
<1>6. /\ active' = active /\ suppressed' = suppressed /\ pending' = pending
      /\ retry' = retry /\ drag' = drag /\ plan' = plan
  BY <1>1 DEF focus, work
<1>7. WorldOK' /\ FocusOK'
  BY <1>1, WorldKept, FocusKept
<1>8. WorkOK' /\ MemoryOK'
  BY <1>1 DEF Inv, Types, WorkOK, MemoryOK, work, txn
<1>9. LocalsOK' /\ PlanOK'
  BY <1>1, <1>5, <1>6 DEF Inv, Types, LocalsOK, PlanOK, Stages
<1>10. StageInv'
  BY <1>1, <1>5, <1>6 DEF Inv, StageInv
<1>11. QueuedWorkYields' /\ UserComesFirst'
  BY <1>1, <1>6 DEF Inv, QueuedWorkYields, UserComesFirst
<1> QED
  BY <1>7, <1>8, <1>9, <1>10, <1>11 DEF Inv, Types

LEMMA SwitchSeenType ==
  ASSUME Inv, SwitchSeen
  PROVE  Inv'
<1>1. /\ pc = "switch" /\ batch.snap # NoSnap
      /\ startMonitor' = (IF Present(batch.snap, active) THEN batch.snap[active].monitor
                                                         ELSE None)
      /\ suppressed' \in {suppressed, None}
      /\ permitted' = TRUE /\ pc' = "settle"
      /\ batch' = [batch EXCEPT !.place = PlaceActivated, !.cause = "switch"]
      /\ UNCHANGED <<outside, active, foreground, work, drag, tokens, plan>>
  BY Zenon DEF SwitchSeen
<1>2. batch \in BatchRecord /\ plan = NoPlan
  BY <1>1 DEF Inv, Types, LocalsOK, PlanOK
<1>3. /\ retry.hwnd = None /\ drag = NoDrag /\ active # None /\ active # suppressed
      /\ pending.on => active # None /\ active # suppressed
      /\ active \in Hwnds
  BY <1>1 DEF Inv, StageInv, Types, FocusOK
<1>4. PlaceActivated \in BOOLEAN
  BY Zenon, ConstantsAssumption
<1>5. batch' \in BatchRecord /\ batch'.snap = batch.snap
  BY <1>1, <1>2, <1>4 DEF BatchRecord, Causes
<1>6. startMonitor' \in Monitors \cup {None}
  <2>1. batch.snap \in Desk
    BY <1>1, <1>2 DEF BatchRecord
  <2>2. batch.snap[active].monitor \in Monitors
    BY <1>3, <2>1 DEF Desk, Window
  <2> QED
    BY <1>1, <2>2
<1>7. WorldOK'
  BY <1>1, OutsideKept
<1>8. FocusOK' /\ WorkOK' /\ MemoryOK'
  BY <1>1, <1>6 DEF Inv, Types, FocusOK, WorkOK, MemoryOK, work
<1>9. QueuedWorkYields'
  BY <1>1, <1>3 DEF QueuedWorkYields, work
<1>10. active' # None /\ active' # suppressed' /\ drag' = NoDrag
  BY <1>1, <1>3
<1> QED
  BY <1>1, <1>2, <1>5, <1>7, <1>8, <1>9, <1>10, BatchSettles

LEMMA EndManualDragType ==
  ASSUME Inv, EndManualDrag
  PROVE  Inv'
<1>1. /\ Folded /\ foreground' = batch.ended /\ drag' = NoDrag
      /\ permitted' = FALSE /\ EndBatch
      /\ UNCHANGED <<outside, active, suppressed, work, startMonitor, seen, tokens, plan>>
  BY Zenon DEF EndManualDrag
<1>2. /\ plan = NoPlan /\ batch.ended \in Hwnds \cup {None}
      /\ pending.on => active # None /\ active # suppressed
  BY <1>1, Deciding
<1>3. pending' = pending /\ retry' = retry /\ active' = active /\ suppressed' = suppressed
  BY <1>1 DEF work
<1>4. FocusOK' /\ WorkOK'
  BY <1>1, <1>2 DEF Inv, Types, FocusOK, WorkOK, work
<1>5. MemoryOK' /\ WorldOK'
  BY <1>1, NothingType, MemoryKept, OutsideKept
<1>6. QueuedWorkYields'
  BY <1>1, <1>3, Zenon DEF Inv, QueuedWorkYields
<1> QED
  BY <1>1, <1>2, <1>3, <1>4, <1>5, <1>6, NothingQueued, BatchOver

(* The layout after a drag: nothing can have been queued during it. *)
LEMMA EndDragType ==
  ASSUME Inv, EndDrag
  PROVE  Inv'
<1> DEFINE p == drag.activated /\ ~ drag.moved /\ PlaceActivated
<1>1. /\ Folded /\ EndsDrag /\ suppressed # batch.ended
      /\ foreground' = batch.ended /\ drag' = NoDrag /\ pc' = "settle"
      /\ batch' = [batch EXCEPT !.place = p, !.rect = drag.rect, !.cause = "drag"]
      /\ UNCHANGED <<outside, active, suppressed, work, txn, tokens, plan>>
  BY Zenon DEF EndDrag
<1>2. /\ plan = NoPlan /\ batch.ended \in Hwnds \cup {None} /\ batch \in BatchRecord
      /\ drag.hwnd # None => drag.hwnd = active
  BY <1>1, Deciding
<1>3. batch.ended # None /\ batch.ended = drag.hwnd
  BY <1>1, Zenon DEF EndsDrag
<1>4. active = batch.ended /\ active # None /\ active # suppressed
  BY <1>1, <1>2, <1>3
<1>5. drag # NoDrag
  BY <1>3, NothingQueued
<1>6. retry.hwnd = None /\ ~ pending.on
  BY <1>5 DEF Inv, QueuedWorkYields
<1>7. /\ pending' = pending /\ retry' = retry /\ active' = active
      /\ suppressed' = suppressed /\ permitted' = permitted /\ startMonitor' = startMonitor
  BY <1>1 DEF work, txn
<1>8. FocusOK' /\ WorkOK'
  BY <1>1, <1>2 DEF Inv, Types, FocusOK, WorkOK, work
<1>9. MemoryOK' /\ WorldOK'
  BY <1>1, <1>7, NothingType, MemoryKept, OutsideKept DEF Inv, Types, MemoryOK
<1>10. batch' \in BatchRecord
  <2>1. p \in BOOLEAN
    OBVIOUS
  <2>2. drag.rect \in Rects \cup {None}
    BY DEF Inv, Types, MemoryOK, DragRecord
  <2>3. \A b \in BOOLEAN :
          [batch EXCEPT !.place = b, !.rect = drag.rect, !.cause = "drag"] \in BatchRecord
    BY <1>2, <2>2 DEF BatchRecord, Causes
  <2> QED
    BY <1>1, <2>1, <2>3, Zenon
<1>11. QueuedWorkYields'
  BY <1>6, <1>7 DEF QueuedWorkYields
<1> QED
  BY <1>1, <1>2, <1>4, <1>6, <1>7, <1>8, <1>9, <1>10, <1>11, BatchSettles

(* A reconcile that comes to a layout has a snapshot, and every condition *)
(* it depends on is read from the coordinator's state as it is.            *)
LEMMA ReconcileSettlesType ==
  ASSUME Inv, Folded, drag = NoDrag, NEW place \in BOOLEAN, NEW cause \in Causes,
         active = None \/ active # suppressed,
         pc' = "settle",
         batch' = [batch EXCEPT !.snap = desk, !.place = place, !.cause = cause],
         UNCHANGED <<outside, focus, drag, tokens, plan, pending, calm>>,
         startMonitor' \in Monitors \cup {None}, permitted' = TRUE,
         retry' \in RetryRecord, retry'.hwnd # None => retry' = retry
  PROVE  Inv'
<1>1. /\ active' = active /\ suppressed' = suppressed /\ pending' = pending /\ drag' = drag
      /\ calm' = calm
  BY DEF focus
<1>2. /\ plan = NoPlan /\ batch \in BatchRecord /\ pc = "events"
      /\ pending.on => active # None /\ active # suppressed
  BY Deciding
<1>3. desk \in Desk /\ desk # NoSnap
  BY DeskIsSnap DEF Inv, Types, WorldOK, DesktopOK
<1>4. batch' \in BatchRecord /\ batch'.snap # NoSnap
  BY <1>2, <1>3 DEF BatchRecord
<1>5. WorldOK' /\ FocusOK'
  BY OutsideKept, FocusKept
<1>6. WorkOK' /\ MemoryOK'
  BY <1>1 DEF Inv, Types, WorkOK, MemoryOK
<1>7. QueuedWorkYields'
  BY <1>1, Zenon DEF Inv, QueuedWorkYields
<1> QED
  BY <1>1, <1>2, <1>4, <1>5, <1>6, <1>7, BatchSettles

LEMMA BatchTwoFields ==
  ASSUME Inv, NEW cause
  PROVE  [Stands(desk) EXCEPT !.cause = cause]
           = [batch EXCEPT !.snap = desk, !.place = batch.place, !.cause = cause]
<1>1. batch \in BatchRecord
  BY DEF Inv, Types, LocalsOK
<1> QED
  BY <1>1 DEF BatchRecord, Stands

LEMMA ReconcilesType ==
  ASSUME Inv, ReconcilePending \/ ReconcileRetry \/ ReconcilePlain
  PROVE  Inv'
<1>1. /\ batch \in BatchRecord /\ retry \in RetryRecord /\ pending \in PendingRecord
      /\ startMonitor \in Monitors \cup {None}
  BY DEF Inv, Types, LocalsOK, WorkOK, MemoryOK
<1>2. batch.place \in BOOLEAN /\ pending.place \in BOOLEAN
  BY <1>1, Zenon DEF BatchRecord, PendingRecord
<1>3. {"pending", "retry", "reconcile"} \subseteq Causes
  BY DEF Causes
<1>4. CASE ReconcilePending
  <2>1. /\ Folded /\ pending.on /\ startMonitor' = desk[active].monitor
        /\ permitted' = TRUE /\ pc' = "settle"
        /\ batch' = [Stands(desk) EXCEPT !.place = pending.place, !.cause = "pending"]
        /\ UNCHANGED <<outside, focus, work, drag, seen, tokens, plan>>
    BY <1>4, Zenon DEF ReconcilePending, SettlesPending
  <2>2. drag = NoDrag /\ active # None /\ active # suppressed /\ active \in Hwnds
    BY <2>1 DEF Inv, QueuedWorkYields, StageInv, Types, FocusOK
  <2>3. startMonitor' \in Monitors
    BY <2>1, <2>2 DEF Inv, Types, WorldOK, DesktopOK, Desk, Window
  <2>4. batch' = [batch EXCEPT !.snap = desk, !.place = pending.place, !.cause = "pending"]
    BY <1>1, <2>1 DEF Stands, BatchRecord
  <2>5. UNCHANGED <<pending, retry, calm>>
    BY <2>1 DEF work
  <2> QED
    BY <1>1, <1>2, <1>3, <2>1, <2>2, <2>3, <2>4, <2>5, ReconcileSettlesType
<1>5. CASE ReconcileRetry
  <2>1. /\ Folded /\ RetryDue /\ RetryValid(desk) /\ permitted' = TRUE /\ pc' = "settle"
        /\ batch' = [Stands(desk) EXCEPT !.cause = "retry"]
        /\ UNCHANGED <<outside, focus, work, drag, startMonitor, tokens, plan>>
    BY <1>5, Zenon DEF ReconcileRetry
  <2>2. drag = NoDrag /\ suppressed = None
    BY <2>1 DEF RetryDue
  <2>3. batch' = [batch EXCEPT !.snap = desk, !.place = batch.place, !.cause = "retry"]
    BY <2>1, BatchTwoFields
  <2>4. UNCHANGED <<pending, retry, calm>>
    BY <2>1 DEF work
  <2> QED
    BY <1>1, <1>2, <1>3, <2>1, <2>2, <2>3, <2>4, ReconcileSettlesType
<1>6. CASE ReconcilePlain
  <2>1. /\ Folded /\ retry' = KeptRetry /\ KeptRetry.hwnd = None
        /\ drag = NoDrag /\ suppressed = None /\ permitted' = TRUE /\ pc' = "settle"
        /\ batch' = [Stands(desk) EXCEPT !.cause = "reconcile"]
        /\ UNCHANGED <<outside, focus, pending, calm, drag, startMonitor, tokens, plan>>
    BY <1>6, Zenon DEF ReconcilePlain
  <2>2. retry' \in RetryRecord /\ retry'.hwnd = None
    <3>1. [NoRetry EXCEPT !.delay = retry.delay] \in RetryRecord
      BY <1>1, NothingType DEF RetryRecord
    <3> QED
      BY <1>1, <2>1, <3>1 DEF KeptRetry
  <2>3. batch' = [batch EXCEPT !.snap = desk, !.place = batch.place, !.cause = "reconcile"]
    BY <2>1, BatchTwoFields
  <2> QED
    BY <1>1, <1>2, <1>3, <2>1, <2>2, <2>3, ReconcileSettlesType
<1> QED
  BY <1>4, <1>5, <1>6

LEMMA ReconcileIdleType ==
  ASSUME Inv, ReconcileIdle
  PROVE  Inv'
<1>1. /\ Folded /\ retry' = KeptRetry /\ EndBatch
      /\ UNCHANGED <<outside, focus, pending, calm, drag, txn, tokens, plan>>
  BY Zenon DEF ReconcileIdle
<1>2. /\ plan = NoPlan
      /\ drag.hwnd # None => drag.hwnd = active
      /\ pending.on => active # None /\ active # suppressed
  BY <1>1, Deciding
<1>3. retry' \in RetryRecord /\ (retry'.hwnd # None => retry' = retry)
  <2>1. retry \in RetryRecord
    BY DEF Inv, Types, WorkOK
  <2>2. [NoRetry EXCEPT !.delay = retry.delay] \in RetryRecord
        /\ [NoRetry EXCEPT !.delay = retry.delay].hwnd = None
    BY <2>1, NothingType, NothingQueued DEF RetryRecord
  <2> QED
    BY <1>1, <2>1, <2>2 DEF KeptRetry
<1>4. /\ active' = active /\ suppressed' = suppressed /\ pending' = pending /\ drag' = drag
      /\ calm' = calm /\ plan' = plan
  BY <1>1 DEF focus
<1>5. WorldOK' /\ FocusOK'
  BY <1>1, OutsideKept, FocusKept
<1>6. WorkOK' /\ MemoryOK'
  BY <1>1, <1>3 DEF Inv, Types, WorkOK, MemoryOK, txn
<1>7. QueuedWorkYields'
  BY <1>3, <1>4, Zenon DEF Inv, QueuedWorkYields
<1> QED
  BY <1>1, <1>2, <1>4, <1>5, <1>6, <1>7, BatchOver

-----------------------------------------------------------------------------
(* settle(), and the application of the plan                               *)

LEMMA RequeuedType ==
  ASSUME Inv, NEW progress \in BOOLEAN, batch.snap # NoSnap, active \in Hwnds
  PROVE  /\ Requeued(batch.snap, progress) \in RetryRecord
         /\ Requeued(batch.snap, progress).hwnd = active
<1>1. retry \in RetryRecord /\ batch \in BatchRecord
  BY DEF Inv, Types, WorkOK, LocalsOK
<1>2. batch.snap \in Desk
  BY <1>1 DEF BatchRecord
<1>3. batch.snap[active].era \in 0..MaxEra
  BY <1>2 DEF Desk, Window
<1>4. batch.snap[active].era \in 0..Unknown
  BY <1>3, Numbers DEF Unknown
<1>5. retry.delay \in FirstDelay..MaxDelay
  BY <1>1 DEF RetryRecord
<1> DEFINE delay == IF progress THEN FirstDelay ELSE retry.delay
           next == IF progress THEN FirstDelay ELSE Least(2 * delay, MaxDelay)
<1>6. delay \in 0..MaxDelay /\ delay \in FirstDelay..MaxDelay
  BY <1>5, Numbers
<1>7. next \in FirstDelay..MaxDelay
  BY <1>6, Numbers DEF Least
<1>8. Requeued(batch.snap, progress) =
        [hwnd |-> active, era |-> batch.snap[active].era, wait |-> delay, delay |-> next]
  BY DEF Requeued
<1> HIDE DEF delay, next
<1> QED
  BY <1>4, <1>6, <1>7, <1>8 DEF RetryRecord

(* The end of a layout attempt keeps the invariant: a repair is queued     *)
(* only for the active window and only where it may wait.                  *)
LEMMA SettledType ==
  ASSUME Inv, pc \in {"settle", "apply"}, NEW unfinished \in BOOLEAN, NEW progress \in BOOLEAN,
         Settled(unfinished, progress),
         unfinished => batch.snap # NoSnap /\ active \in Hwnds /\ ~ pending'.on,
         WorldOK', pending' \in {pending, NoPending},
         UNCHANGED <<focus, calm, drag, startMonitor, permitted>>, tokens' \subseteq Hwnds
  PROVE  Inv'
<1>1. /\ EndBatch /\ plan' = NoPlan
      /\ retry' = IF unfinished /\ ~ dryRun /\ suppressed = None /\ drag = NoDrag
                    THEN Requeued(batch.snap, progress) ELSE NoRetry
  BY Zenon DEF Settled
<1>2. /\ retry' \in RetryRecord
      /\ retry'.hwnd # None =>
           retry'.hwnd = active /\ drag = NoDrag /\ suppressed = None /\ ~ pending'.on
  <2>1. CASE unfinished /\ ~ dryRun /\ suppressed = None /\ drag = NoDrag
    <3>1. retry' = Requeued(batch.snap, progress)
      BY <1>1, <2>1
    <3>2. retry' \in RetryRecord /\ retry'.hwnd = active
      BY <2>1, <3>1, RequeuedType
    <3> QED
      BY <2>1, <3>2
  <2>2. CASE ~ (unfinished /\ ~ dryRun /\ suppressed = None /\ drag = NoDrag)
    BY <1>1, <2>2, NothingType, NothingQueued
  <2> QED
    BY <2>1, <2>2
<1>3. active' = active /\ foreground' = foreground /\ suppressed' = suppressed
  BY DEF focus
<1>4. /\ drag' = drag
      /\ drag.hwnd # None => drag.hwnd = active
      /\ pending.on => active # None /\ active # suppressed
      /\ pending.on => drag = NoDrag
      /\ pending'.on => pending.on
  BY NothingQueued DEF Inv, StageInv, QueuedWorkYields
<1>5. FocusOK' /\ WorkOK' /\ MemoryOK'
  BY <1>2, <1>3, NothingType DEF Inv, Types, FocusOK, WorkOK, MemoryOK
<1>6. QueuedWorkYields'
  BY <1>2, <1>3, <1>4 DEF QueuedWorkYields
<1> QED
  BY <1>1, <1>3, <1>4, <1>5, <1>6, BatchOver

LEMMA SettleCaptureType ==
  ASSUME Inv, SettleCapture
  PROVE  Inv'
<1>1. /\ pc = "settle" /\ pc' = pc /\ batch.snap = NoSnap /\ batch' = Stands(desk)
      /\ UNCHANGED <<outside, focus, work, drag, txn, tokens, plan>>
  BY Zenon DEF SettleCapture
<1>2. /\ batch \in BatchRecord /\ desk \in Desk /\ desk # NoSnap /\ plan = NoPlan
      /\ drag = NoDrag /\ (active = None \/ active # suppressed)
      /\ pending.on => active # None /\ active # suppressed
  BY <1>1, DeskIsSnap
     DEF Inv, Types, LocalsOK, WorldOK, DesktopOK, PlanOK, UserComesFirst, StageInv
<1>3. batch' \in BatchRecord /\ batch'.snap # NoSnap
  BY <1>1, <1>2 DEF BatchRecord, Stands
<1>4. /\ active' = active /\ suppressed' = suppressed /\ pending' = pending
      /\ retry' = retry /\ drag' = drag /\ plan' = plan
  BY <1>1 DEF focus, work
<1>5. WorldOK' /\ FocusOK'
  BY <1>1, OutsideKept, FocusKept
<1>6. WorkOK' /\ MemoryOK'
  BY <1>1 DEF Inv, Types, WorkOK, MemoryOK, work, txn
<1>7. QueuedWorkYields'
  BY <1>4, Zenon DEF Inv, QueuedWorkYields
<1> QED
  BY <1>1, <1>2, <1>3, <1>4, <1>5, <1>6, <1>7, BatchSettles

LEMMA SettleStaleType ==
  ASSUME Inv, SettleStale
  PROVE  Inv'
<1>1. /\ pc = "settle" /\ batch.snap = NoSnap /\ Fails
      /\ suppressed = None /\ drag = NoDrag /\ EndBatch
      /\ pending' = [on |-> TRUE, place |-> batch.place]
      /\ UNCHANGED <<world, queue, modes, focus, retry, calm, drag, txn, tokens, plan>>
  BY Zenon DEF SettleStale
<1>2. /\ plan = NoPlan /\ batch.place \in BOOLEAN
      /\ retry.hwnd = None /\ active # None
  <2>1. batch \in BatchRecord
    BY DEF Inv, Types, LocalsOK
  <2>2. batch.place \in BOOLEAN
    BY <2>1, Zenon DEF BatchRecord
  <2> QED
    BY <1>1, <2>2 DEF Inv, Types, PlanOK, StageInv
<1>3. pending' \in PendingRecord
  BY <1>1, <1>2 DEF PendingRecord
<1>4. /\ active' = active /\ suppressed' = suppressed /\ retry' = retry /\ drag' = drag
      /\ plan' = plan
  BY <1>1 DEF focus
<1>5. WorldOK' /\ FocusOK'
  BY <1>1, WorldKept, FocusKept
<1>6. WorkOK' /\ MemoryOK'
  BY <1>1, <1>3 DEF Inv, Types, WorkOK, MemoryOK, txn
<1>7. QueuedWorkYields'
  BY <1>1, <1>2, <1>4 DEF QueuedWorkYields
<1>8. active # suppressed /\ NoDrag.hwnd = None
  BY <1>1, <1>2, NothingQueued
<1> QED
  BY <1>1, <1>2, <1>4, <1>5, <1>6, <1>7, <1>8, BatchOver

LEMMA SettleEndsType ==
  ASSUME Inv, SettleBlind \/ SettleUnavailable \/ SettleElsewhere \/ SettleUnchanged
  PROVE  Inv'
<1>1. tokens \subseteq Hwnds
  BY DEF Inv, Types, MemoryOK
<1>2. CASE SettleBlind
  <2>1. /\ pc = "settle" /\ Fails /\ Settled(FALSE, FALSE)
        /\ UNCHANGED <<world, queue, modes, focus, pending, calm, drag, txn, tokens>>
    BY <1>2, Zenon DEF SettleBlind
  <2>2. WorldOK'
    BY <2>1, WorldKept
  <2> QED
    BY <1>1, <2>1, <2>2, SettledType DEF txn
<1>3. CASE SettleUnavailable
  <2>1. /\ pc = "settle" /\ Settled(FALSE, FALSE)
        /\ UNCHANGED <<outside, focus, pending, calm, drag, txn, tokens>>
    BY <1>3, Zenon DEF SettleUnavailable, Ready
  <2>2. WorldOK'
    BY <2>1, OutsideKept
  <2> QED
    BY <1>1, <2>1, <2>2, SettledType DEF txn
<1>4. CASE SettleElsewhere
  <2>1. /\ pc = "settle" /\ Settled(FALSE, FALSE) /\ pending' = NoPending
        /\ UNCHANGED <<outside, focus, calm, drag, txn, tokens>>
    BY <1>4, Zenon DEF SettleElsewhere, Ready
  <2>2. WorldOK'
    BY <2>1, OutsideKept
  <2> QED
    BY <1>1, <2>1, <2>2, SettledType DEF txn
<1>5. CASE SettleUnchanged
  <2>1. PICK to \in Layouts : Settled(~ Readable(to), FALSE)
    BY <1>5, Zenon DEF SettleUnchanged
  <2>2. /\ pc = "settle" /\ batch.snap # NoSnap /\ active # None /\ pending' = NoPending
        /\ UNCHANGED <<outside, focus, calm, drag, startMonitor, permitted, tokens>>
    BY <1>5, Zenon DEF SettleUnchanged, Ready, Available
  <2>3. (~ Readable(to)) \in BOOLEAN
    OBVIOUS
  <2>4. active \in Hwnds /\ ~ pending'.on
    BY <2>2, NothingQueued DEF Inv, Types, FocusOK
  <2>5. WorldOK'
    BY <2>2, OutsideKept
  <2> DEFINE unfinished == ~ Readable(to)
  <2> HIDE DEF unfinished
  <2>6. Settled(unfinished, FALSE) /\ unfinished \in BOOLEAN
    BY <2>1, <2>3 DEF unfinished
  <2> QED
    BY <1>1, <2>2, <2>4, <2>5, <2>6, SettledType
<1> QED
  BY <1>2, <1>3, <1>4, <1>5

LEMMA SettleSolvedType ==
  ASSUME Inv, SettleSolved
  PROVE  Inv'
<1>1. PICK to \in Layouts :
        plan' = [wins |-> {w \in DOMAIN to : to[w] # batch.snap[w].rect}, to |-> to]
  BY Zenon DEF SettleSolved
<1>2. /\ pc = "settle" /\ batch.snap # NoSnap /\ Available
      /\ pending' = NoPending /\ pc' = "apply" /\ batch' = batch
      /\ UNCHANGED <<outside, focus, retry, calm, drag, startMonitor, permitted, tokens>>
  BY Zenon DEF SettleSolved, Ready
<1>3. /\ active' = active /\ suppressed' = suppressed /\ retry' = retry /\ drag' = drag
  BY <1>2 DEF focus
<1>4. WorldOK' /\ FocusOK'
  BY <1>2, OutsideKept, FocusKept
<1>5. WorkOK' /\ MemoryOK'
  BY <1>2, NothingType DEF Inv, Types, WorkOK, MemoryOK
<1>6. LocalsOK'
  BY <1>2 DEF Inv, Types, LocalsOK, Stages
<1>7. PlanOK'
  <2> DEFINE wins == ManagedSet(batch.snap, active)
  <2>1. to \in [wins -> Rects]
    BY <1>1 DEF Layouts
  <2>2. wins \subseteq Hwnds
    BY DEF ManagedSet
  <2>3. active \in wins
    BY <1>2 DEF Available, ManagedSet, Inv, Types, FocusOK
  <2> HIDE DEF wins
  <2>4. /\ plan'.to = to
        /\ plan'.wins = {w \in DOMAIN to : to[w] # batch.snap[w].rect}
    BY <1>1
  <2>5. active' \in DOMAIN plan'.to /\ plan'.to \in [wins -> Rects]
    BY <1>3, <2>1, <2>3, <2>4
  <2>6. plan'.wins = {w \in DOMAIN plan'.to : plan'.to[w] # batch'.snap[w].rect}
    BY <1>2, <2>4
  <2> QED
    BY <1>2, <2>2, <2>5, <2>6 DEF PlanOK
<1>8. StageInv'
  BY <1>2, <1>3, NothingQueued DEF Inv, StageInv
<1>9. QueuedWorkYields' /\ UserComesFirst'
  BY <1>2, <1>3, NothingQueued DEF Inv, QueuedWorkYields, UserComesFirst
<1> QED
  BY <1>4, <1>5, <1>6, <1>7, <1>8, <1>9 DEF Inv, Types

(* What Inv says of the plan while it is applied. *)
LEMMA Applying ==
  ASSUME Inv, pc = "apply"
  PROVE  /\ batch.snap # NoSnap /\ active \in Hwnds /\ ~ pending.on
         /\ DOMAIN plan.to \subseteq Hwnds /\ active \in DOMAIN plan.to
         /\ plan.to \in [DOMAIN plan.to -> Rects]
         /\ plan.wins = {w \in DOMAIN plan.to : plan.to[w] # batch.snap[w].rect}
<1>1. PICK ws \in SUBSET Hwnds : plan.to \in [ws -> Rects]
  BY Zenon DEF Inv, Types, PlanOK
<1>2. /\ batch.snap # NoSnap /\ active \in DOMAIN plan.to /\ ~ pending.on
      /\ plan.wins = {w \in DOMAIN plan.to : plan.to[w] # batch.snap[w].rect}
  BY Zenon DEF Inv, Types, PlanOK, StageInv
<1> QED
  BY <1>1, <1>2

LEMMA EchoesType ==
  ASSUME NEW done \in SUBSET Hwnds, NEW es \in Echoes(done)
  PROVE  es \in Seq(EventRecord)
<1> DEFINE n == Cardinality(done)
<1>1. IsFiniteSet(Hwnds)
  BY Zenon, ConstantsAssumption
<1>2. n \in Nat
  BY <1>1, FS_Subset, FS_CardinalityType
<1>3. PICK f \in [1..n -> done] : es = [k \in 1..n |-> Evt("LocationChange", f[k])]
  BY DEF Echoes
<1>4. \A k \in 1..n : Evt("LocationChange", f[k]) \in EventRecord
  BY DEF Evt, EventRecord, EventTypes
<1> HIDE DEF n
<1>5. es \in [1..n -> EventRecord]
  BY <1>3, <1>4
<1> QED
  BY <1>2, <1>5, SeqDef

LEMMA ApplyMovesType ==
  ASSUME Inv, NEW done \in SUBSET plan.wins, NEW fine \in BOOLEAN, ApplyMoves(done, fine)
  PROVE  Inv'
<1>1. /\ pc = "apply"
      /\ UNCHANGED faults \/ Fails
      /\ desk' = [w \in Hwnds |-> IF w \in done THEN [desk[w] EXCEPT !.rect = plan.to[w]]
                                                ELSE desk[w]]
      /\ tokens' = tokens \cup done
      /\ \E es \in Echoes(done) : Enqueue(es)
      /\ Settled(~ fine \/ ~ Readable(plan.to), fine)
      /\ UNCHANGED <<front, held, actions, modes, focus, pending, calm, drag, txn>>
  BY Zenon DEF ApplyMoves
<1>2. /\ batch.snap # NoSnap /\ active \in Hwnds /\ ~ pending.on
      /\ DOMAIN plan.to \subseteq Hwnds /\ plan.to \in [DOMAIN plan.to -> Rects]
      /\ done \subseteq DOMAIN plan.to
  BY <1>1, Applying
<1>3. done \in SUBSET Hwnds
  BY <1>2
<1>4. desk' \in Desk
  <2>1. desk \in Desk
    BY DEF Inv, Types, WorldOK, DesktopOK
  <2>2. \A w \in Hwnds : desk[w] \in Window
    BY <2>1, DeskIsSnap
  <2>3. \A w \in done : plan.to[w] \in Rects
    BY <1>2
  <2>4. \A w \in done : [desk[w] EXCEPT !.rect = plan.to[w]] \in Window
    BY <1>3, <2>2, <2>3 DEF Window
  <2> QED
    BY <1>1, <2>2, <2>4 DEF Desk
<1>5. QueueOK'
  BY <1>1, <1>3, EchoesType, EnqueueType DEF Inv, Types, WorldOK
<1>6. faults' \in 0..MaxFaults
  BY <1>1, FailsType DEF Inv, Types, WorldOK
<1>7. WorldOK'
  BY <1>1, <1>4, <1>5, <1>6 DEF Inv, Types, WorldOK, DesktopOK, modes
<1>8. tokens' \subseteq Hwnds
  BY <1>1, <1>3 DEF Inv, Types, MemoryOK
<1> DEFINE unfinished == ~ fine \/ ~ Readable(plan.to)
<1>9. unfinished \in BOOLEAN /\ Settled(unfinished, fine)
  BY <1>1, Zenon
<1> HIDE DEF unfinished
<1>10. pending' = pending /\ UNCHANGED <<focus, calm, drag, startMonitor, permitted>>
  BY <1>1 DEF txn
<1> QED
  BY <1>1, <1>2, <1>7, <1>8, <1>9, <1>10, SettledType

LEMMA ApplyType ==
  ASSUME Inv, Apply
  PROVE  Inv'
<1>1. CASE ApplyDry
  <2>1. /\ pc = "apply" /\ Settled(FALSE, FALSE)
        /\ UNCHANGED <<outside, focus, pending, calm, drag, txn, tokens>>
    BY <1>1, Zenon DEF ApplyDry
  <2>2. tokens \subseteq Hwnds
    BY DEF Inv, Types, MemoryOK
  <2> QED
    BY <2>1, <2>2, OutsideKept, SettledType DEF txn
<1>2. CASE ApplyRefused
  <2>1. /\ pc = "apply" /\ Settled(TRUE, FALSE)
        /\ UNCHANGED <<outside, focus, pending, calm, drag, txn, tokens>>
    BY <1>2, Zenon DEF ApplyRefused
  <2>2. tokens \subseteq Hwnds
    BY DEF Inv, Types, MemoryOK
  <2> QED
    BY <2>1, <2>2, OutsideKept, Applying, SettledType DEF txn
<1> QED
  BY <1>1, <1>2, ApplyMovesType DEF Apply

-----------------------------------------------------------------------------
(* The invariant                                                           *)

LEMMA InitType == Init => Inv
<1> SUFFICES ASSUME Init PROVE Inv
  OBVIOUS
<1>1. /\ desk \in Desks /\ front = None /\ held = None /\ inbox = <<>> /\ lost = FALSE
      /\ actions = 0 /\ faults = 0 /\ enabled = TRUE /\ dryRun \in BOOLEAN
      /\ active = None /\ foreground = None /\ suppressed = None
      /\ pending = NoPending /\ retry = NoRetry /\ calm = Quiet /\ drag = NoDrag
      /\ startMonitor = None /\ permitted = FALSE /\ tokens = {}
      /\ pc = "idle" /\ batch = NoBatch /\ plan = NoPlan
  BY Zenon DEF Init
<1>2. desk \in Desk
  <2>1. desk \in [Hwnds -> [era : {0}, trait : Traits, monitor : Monitors, rect : Rects]]
    BY <1>1, ConstantsAssumption, Zenon
  <2>2. 0 \in 0..MaxEra
    BY Numbers
  <2> QED
    BY <2>1, <2>2 DEF Desk, Window
<1>3. QueueOK
  <2>1. <<>> \in Seq(EventRecord) /\ Len(<<>>) = 0 /\ 0 <= Capacity
    BY EmptySeq, Numbers
  <2> QED
    BY <1>1, <2>1 DEF QueueOK
<1>4. WorldOK
  BY <1>1, <1>2, <1>3, Numbers DEF WorldOK, DesktopOK
<1>5. FocusOK /\ WorkOK /\ MemoryOK
  <2>1. Quiet \in 0..Quiet
    BY Numbers
  <2>2. FocusOK /\ MemoryOK
    BY <1>1, NothingType DEF FocusOK, MemoryOK
  <2>3. WorkOK
    BY <1>1, <2>1, NothingType DEF WorkOK
  <2> QED
    BY <2>2, <2>3
<1>6. LocalsOK /\ PlanOK
  BY <1>1, NothingType DEF LocalsOK, PlanOK, Stages
<1>7. StageInv /\ QueuedWorkYields /\ UserComesFirst
  BY <1>1, NothingQueued DEF StageInv, QueuedWorkYields, UserComesFirst
<1> QED
  BY <1>4, <1>5, <1>6, <1>7 DEF Inv, Types

LEMMA NextKeeps ==
  ASSUME Inv, Next
  PROVE  Inv'
<1>1. CASE User
  BY <1>1, UserType
<1>2. CASE Programs
  BY <1>2, ProgramsType
<1>3. ASSUME NEW dt \in Steps, NEW timer \in BOOLEAN,
             BeginBatch(dt, timer) \/ DisabledBatch(dt, timer)
      PROVE  Inv'
  <2>1. dt \in Nat
    BY Zenon, ConstantsAssumption
  <2> QED
    BY <1>3, <2>1, BeginBatchType, DisabledBatchType
<1>4. CASE HandleEvent
  BY <1>4, MoveSizeStartType, MoveSizeStartBlindType, ForegroundType, QuietEventsType,
     DestroyType, Zenon DEF HandleEvent
<1>5. CASE Decide
  BY <1>5, SuppressType, BeginSwitchType, CaptureAgainType, SwitchSeenType,
     NothingDecidedType, EndManualDragType, EndDragType, ReconcilesType,
     ReconcileIdleType, Zenon DEF Decide
<1>6. CASE Settle
  BY <1>6, SettleCaptureType, SettleStaleType, SettleEndsType, SettleSolvedType,
     Zenon DEF Settle
<1>7. CASE Apply
  BY <1>7, ApplyType
<1> QED
  BY <1>1, <1>2, <1>3, <1>4, <1>5, <1>6, <1>7, Zenon DEF Next, Thread

LEMMA StutterKeeps ==
  ASSUME Inv, UNCHANGED vars
  PROVE  Inv'
<1>1. /\ UNCHANGED Aside /\ UNCHANGED <<world, queue, faults, modes>>
      /\ permitted' = permitted
  BY DEF vars, Aside, txn, modes
<1>2. WorldOK' /\ permitted' \in BOOLEAN
  BY <1>1, WorldKept DEF Inv, Types, MemoryOK
<1> QED
  BY <1>1, <1>2, AsideKeeps DEF Inv, Types

THEOREM Invariance == Spec => []Inv
<1>1. Inv /\ [Next]_vars => Inv'
  BY NextKeeps, StutterKeeps
<1> QED
  BY InitType, <1>1, PTL DEF Spec

(* Every variable stays within its type: the queue within its capacity,    *)
(* the delays within their limits, the locals of process() within it, and  *)
(* the plan that is applied is a layout with the active window in it       *)
(* (process(), settle_impl()).                                             *)
THEOREM TypeCorrect == Spec => []TypeOK
<1>1. Inv => TypeOK
  BY TypesMeanTypeOK DEF Inv
<1> QED
  BY <1>1, Invariance, PTL

(* Whatever the user, the programs and the clock do, what is queued never  *)
(* meets what the user is doing: a repair waits only for the active        *)
(* window, never during a drag, a manual placement or a pending            *)
(* activation (process()).                                                 *)
THEOREM QueuedWorkGivesWay == Spec => []QueuedWorkYields
<1>1. Inv => QueuedWorkYields
  BY DEF Inv
<1> QED
  BY <1>1, Invariance, PTL

(* No layout is computed or applied during a drag, or around the window    *)
(* the user placed by hand or clicked with the right button (process(),    *)
(* settle_impl()).                                                         *)
THEOREM UserHasPrecedence == Spec => []UserComesFirst
<1>1. Inv => UserComesFirst
  BY DEF Inv
<1> QED
  BY <1>1, Invariance, PTL

-----------------------------------------------------------------------------
(* What a step may not do                                                  *)

(* Each part of the thread's program runs at its own stage. *)
LEMMA StepsAtStages ==
  /\ User \/ Programs => UNCHANGED <<pc, plan>>
  /\ \A dt, timer : BeginBatch(dt, timer) => pc = "idle" /\ pc' = "events"
  /\ \A dt, timer : DisabledBatch(dt, timer) => pc = "idle" /\ pc' = "idle"
  /\ HandleEvent => pc = "events" /\ pc' \in {"events", "idle"}
  /\ Decide => pc \in {"events", "switch"} /\ pc' \in {"switch", "settle", "idle"}
  /\ Settle => pc = "settle"
  /\ Apply => pc = "apply" /\ pc' = "idle"
<1>1. User \/ Programs => UNCHANGED <<pc, plan>>
  <2>1. \A doing : Acts(doing) => UNCHANGED <<pc, plan>>
    BY DEF Acts
  <2> QED
    BY <2>1, Zenon
       DEF User, Programs, SwitchTo, Press, DragTo, Release, Pause, Resume, Shove, Change,
           Open, Close, OnDesktop
<1>2. \A dt, timer : BeginBatch(dt, timer) => pc = "idle" /\ pc' = "events"
  BY Zenon DEF BeginBatch
<1>3. \A dt, timer : DisabledBatch(dt, timer) => pc = "idle" /\ pc' = "idle"
  <2>1. \A dt, timer : DisabledBatch(dt, timer) => pc = "idle" /\ UNCHANGED pc
    BY Zenon DEF DisabledBatch
  <2> QED
    BY <2>1
<1>4. HandleEvent => pc = "events" /\ pc' \in {"events", "idle"}
  <2>1. HandleEvent => pc = "events" /\ (UNCHANGED pc \/ EndBatch)
    BY Zenon DEF HandleEvent, Handle, Coalesced, MoveSizeStart, MoveSizeStartBlind, Foreground,
           MoveSizeEnd, LocationChange, Show, Destroy
  <2> QED
    BY <2>1 DEF EndBatch
<1>5. Decide => pc \in {"events", "switch"} /\ pc' \in {"switch", "settle", "idle"}
  <2>1. Decide => \/ Folded /\ (pc' = "switch" \/ pc' = "settle" \/ EndBatch)
                  \/ pc = "switch" /\ (UNCHANGED pc \/ pc' = "settle" \/ EndBatch)
    BY Zenon DEF Decide, Suppress, BeginSwitch, CaptureAgain, SwitchLost, SwitchSeen,
           EndManualDrag, EndDrag, ReconcileFails, ReconcilePending, ReconcileRetry,
           ReconcilePlain, ReconcileIdle, NothingToDo
  <2> QED
    BY <2>1 DEF EndBatch, Folded
<1>6. Settle => pc = "settle"
  BY Zenon DEF Settle, SettleCapture, SettleStale, SettleBlind, SettleUnavailable,
       SettleElsewhere, SettleUnchanged, SettleSolved, Ready
<1>7. Apply => pc = "apply" /\ pc' = "idle"
  <2>1. Apply => pc = "apply" /\ EndBatch
    BY Zenon DEF Apply, ApplyDry, ApplyRefused, ApplyMoves, Settled
  <2> QED
    BY <2>1 DEF EndBatch
<1> QED
  BY <1>1, <1>2, <1>3, <1>4, <1>5, <1>6, <1>7

(* What the coordinator does with the outcome of an application. *)
LEMMA ApplicationSettled ==
  ASSUME Inv, Apply, ~ dryRun, suppressed = None
  PROVE  \/ retry'.hwnd = active
         \/ Readable([w \in DOMAIN plan.to |-> desk'[w].rect])
<1>1. /\ pc = "apply" /\ drag = NoDrag
      /\ batch.snap # NoSnap /\ active \in Hwnds
      /\ DOMAIN plan.to \subseteq Hwnds
      /\ plan.to \in [DOMAIN plan.to -> Rects]
      /\ plan.wins = {w \in DOMAIN plan.to : plan.to[w] # batch.snap[w].rect}
  BY StepsAtStages, Applying DEF Inv, UserComesFirst
<1>2. ASSUME NEW progress \in BOOLEAN, Settled(TRUE, progress)
      PROVE  retry'.hwnd = active
  <2>1. retry' = Requeued(batch.snap, progress)
    BY <1>1, <1>2, Zenon DEF Settled
  <2> QED
    BY <1>1, <2>1, RequeuedType
<1>3. CASE ApplyRefused
  BY <1>2, <1>3 DEF ApplyRefused
<1>4. ASSUME NEW done \in SUBSET plan.wins, NEW fine \in BOOLEAN, ApplyMoves(done, fine)
      PROVE  \/ retry'.hwnd = active
             \/ Readable([w \in DOMAIN plan.to |-> desk'[w].rect])
  <2>1. /\ fine => Verified(done)
        /\ desk' = [w \in Hwnds |-> IF w \in done THEN [desk[w] EXCEPT !.rect = plan.to[w]]
                                                  ELSE desk[w]]
        /\ Settled(~ fine \/ ~ Readable(plan.to), fine)
    BY <1>4, Zenon DEF ApplyMoves
  <2>2. CASE ~ fine \/ ~ Readable(plan.to)
    <3>1. retry' = IF (~ fine \/ ~ Readable(plan.to)) /\ ~ dryRun /\ suppressed = None
                        /\ drag = NoDrag
                     THEN Requeued(batch.snap, fine) ELSE NoRetry
      BY <2>1, Zenon DEF Settled
    <3>2. retry' = Requeued(batch.snap, fine)
      BY <1>1, <2>2, <3>1, Zenon
    <3> QED
      BY <1>1, <3>2, RequeuedType
  <2>3. CASE fine /\ Readable(plan.to)
    <3>1. Verified(done)
      BY <2>1, <2>3
    <3>2. /\ done = plan.wins
          /\ \A w \in DOMAIN plan.to : w \in done \/ desk[w].rect = batch.snap[w].rect
      BY <3>1, Zenon DEF Verified
    <3>3. \A w \in Hwnds : desk[w] \in Window
      BY DeskIsSnap DEF Inv, Types, WorldOK, DesktopOK
    <3>4. ASSUME NEW w \in DOMAIN plan.to
          PROVE  desk'[w].rect = plan.to[w]
      <4>1. w \in Hwnds
        BY <1>1
      <4>2. CASE w \in done
        BY <2>1, <3>3, <4>1, <4>2 DEF Window
      <4>3. CASE w \notin done
        BY <1>1, <2>1, <3>2, <4>1, <4>3
      <4> QED
        BY <4>2, <4>3
    <3>5. [w \in DOMAIN plan.to |-> desk'[w].rect] = plan.to
      BY <1>1, <3>4
    <3> QED
      BY <2>3, <3>5, Zenon
  <2> QED
    BY <2>2, <2>3
<1> QED
  BY <1>3, <1>4, Zenon DEF Apply, ApplyDry

(* No layout that was cut short, refused, disturbed or left unreadable is  *)
(* forgotten: a repair around the active window is queued, or the plan is  *)
(* on the desktop with readable titles (settle_impl()).                    *)
THEOREM NoLayoutIsForgotten == Spec => UnfinishedIsQueued
<1>1. ASSUME Inv, [Next]_vars
      PROVE  [pc = "apply" /\ pc' = "idle" /\ ~ dryRun /\ suppressed = None
                => \/ retry'.hwnd = active
                   \/ Readable([w \in DOMAIN plan.to |-> desk'[w].rect])]_vars
  <2> SUFFICES ASSUME Next, pc = "apply", pc' = "idle", ~ dryRun, suppressed = None
               PROVE  \/ retry'.hwnd = active
                      \/ Readable([w \in DOMAIN plan.to |-> desk'[w].rect])
    BY <1>1
  <2>1. Apply
    BY StepsAtStages, Zenon DEF Next, Thread
  <2> QED
    BY <1>1, <2>1, ApplicationSettled
<1> QED
  BY <1>1, Invariance, PTL DEF Spec, UnfinishedIsQueued

(* While a repair is queued, only its own turn and the end of a drag lead  *)
(* to a layout, and the drag has none queued (process()).                  *)
THEOREM RepairsAreNotOvertaken == Spec => RepairWaitsItsTurn
<1>1. ASSUME Inv, [Next]_vars
      PROVE  [pc = "events" /\ pc' = "settle" /\ retry.hwnd # None
                => retry.wait = 0 /\ calm = Quiet]_vars
  <2> SUFFICES ASSUME Next, pc = "events", pc' = "settle", retry.hwnd # None
               PROVE  retry.wait = 0 /\ calm = Quiet
    BY <1>1
  <2>1. drag = NoDrag /\ ~ pending.on
    BY <1>1 DEF Inv, QueuedWorkYields
  <2>2. Decide
    BY StepsAtStages DEF Next, Thread
  <2>3. EndDrag \/ ReconcilePending \/ ReconcileRetry \/ ReconcilePlain
    <3>1. ~ BeginSwitch
      BY DEF BeginSwitch
    <3>2. ~ EndBatch
      BY DEF EndBatch
    <3> QED
      BY <2>2, <3>1, <3>2, Zenon
         DEF Decide, Suppress, CaptureAgain, SwitchLost, SwitchSeen, EndManualDrag,
             ReconcileFails, ReconcileIdle, NothingToDo
  <2>4. ~ EndDrag
    BY <2>1, NothingQueued, Zenon DEF EndDrag, EndsDrag
  <2>5. ~ ReconcilePending
    BY <2>1, Zenon DEF ReconcilePending, SettlesPending
  <2>6. RetryDue
    BY <2>3, <2>4, <2>5, Zenon DEF ReconcileRetry, ReconcilePlain, KeptRetry
  <2> QED
    BY <2>6, Zenon DEF RetryDue
<1> QED
  BY <1>1, Invariance, PTL DEF Spec, RepairWaitsItsTurn

(* A plan that is applied moves something: settle_impl() turns back where  *)
(* the solver has found nothing to move.                                   *)
PlanMoves == pc = "apply" => plan.wins # {}

LEMMA SolvedMoves ==
  ASSUME Inv, SettleSolved
  PROVE  plan'.wins # {}
<1> DEFINE wins == ManagedSet(batch.snap, active)
<1>1. PICK to \in Layouts :
        /\ StateOf(batch.snap, to) # Observed
        /\ plan' = [wins |-> {w \in DOMAIN to : to[w] # batch.snap[w].rect}, to |-> to]
  BY Zenon DEF SettleSolved
<1>2. to \in [wins -> Rects]
  BY <1>1 DEF Layouts
<1> HIDE DEF wins
<1>3. ASSUME \A w \in wins : to[w] = batch.snap[w].rect
      PROVE  StateOf(batch.snap, to) = Observed
  <2>1. LayoutOf(batch.snap, wins) = to
    BY <1>2, <1>3 DEF LayoutOf
  <2> QED
    BY <2>1 DEF Observed, wins
<1>4. plan'.wins = {w \in wins : to[w] # batch.snap[w].rect}
  BY <1>1, <1>2
<1> QED
  BY <1>1, <1>3, <1>4

LEMMA NextKeepsMoves ==
  ASSUME Inv, PlanMoves, [Next]_vars
  PROVE  PlanMoves'
<1>1. CASE UNCHANGED vars \/ User \/ Programs
  <2>1. UNCHANGED <<pc, plan>>
    BY <1>1, StepsAtStages DEF vars
  <2> QED
    BY <2>1 DEF PlanMoves
<1>2. CASE Thread /\ ~ Settle
  BY <1>2, StepsAtStages DEF Thread, PlanMoves
<1>3. CASE Settle
  <2>1. CASE SettleSolved
    BY <2>1, SolvedMoves DEF PlanMoves
  <2>2. CASE ~ SettleSolved
    <3>1. pc' \in {"settle", "idle"}
      <4>1. pc = "settle" /\ (UNCHANGED pc \/ EndBatch)
        BY <1>3, <2>2, Zenon
           DEF Settle, SettleCapture, SettleStale, SettleBlind, SettleUnavailable,
               SettleElsewhere, SettleUnchanged, Settled, Ready
      <4> QED
        BY <4>1 DEF EndBatch
    <3> QED
      BY <3>1 DEF PlanMoves
  <2> QED
    BY <2>1, <2>2
<1> QED
  BY <1>1, <1>2, <1>3 DEF Next, Thread

LEMMA MovesInvariance == Spec => []PlanMoves
<1>1. Init => PlanMoves
  BY DEF Init, PlanMoves
<1> QED
  BY <1>1, NextKeepsMoves, Invariance, PTL DEF Spec

(* What the end of a layout without progress queues. *)
LEMMA BackedOff ==
  ASSUME Inv, NEW unfinished \in BOOLEAN, Settled(unfinished, FALSE), retry'.hwnd # None
  PROVE  retry'.wait = retry.delay /\ retry'.delay = Least(2 * retry.delay, MaxDelay)
<1>1. retry' = Requeued(batch.snap, FALSE)
  BY NothingQueued, Zenon DEF Settled
<1> QED
  BY <1>1 DEF Requeued

(* A complete application that found something to move changes the desktop. *)
LEMMA FineMovesDesk ==
  ASSUME Inv, PlanMoves, NEW done \in SUBSET plan.wins, ApplyMoves(done, TRUE)
  PROVE  desk' # desk
<1>1. /\ pc = "apply" /\ Verified(done) /\ done \subseteq Movable
      /\ desk' = [w \in Hwnds |-> IF w \in done THEN [desk[w] EXCEPT !.rect = plan.to[w]]
                                                ELSE desk[w]]
  BY Zenon DEF ApplyMoves
<1>2. done = plan.wins
  BY <1>1, Zenon DEF Verified
<1>3. PICK w \in done : TRUE
  BY <1>1, <1>2 DEF PlanMoves
<1>4. /\ DOMAIN plan.to \subseteq Hwnds
      /\ plan.wins = {v \in DOMAIN plan.to : plan.to[v] # batch.snap[v].rect}
  BY <1>1, Applying
<1>5. w \in Hwnds /\ plan.to[w] # batch.snap[w].rect /\ desk[w] = batch.snap[w]
  BY <1>1, <1>2, <1>3, <1>4 DEF Movable
<1>6. desk[w] \in Window
  BY <1>5, DeskIsSnap DEF Inv, Types, WorldOK, DesktopOK
<1>7. desk'[w].rect = plan.to[w]
  BY <1>1, <1>3, <1>5, <1>6 DEF Window
<1> QED
  BY <1>5, <1>7

(* Repairs that achieve nothing come at growing intervals, whatever stops  *)
(* them: the guard, a window that has moved, a layout that stays           *)
(* unreadable (settle()).                                                  *)
THEOREM RepairsGrowRarer == Spec => RepairsBackOff
<1>1. ASSUME Inv, PlanMoves, [Next]_vars
      PROVE  [batch.cause = "retry" /\ pc' = "idle" /\ retry'.hwnd # None /\ desk' = desk
                => /\ retry'.wait = retry.delay
                   /\ retry'.delay = Least(2 * retry.delay, MaxDelay)]_vars
  <2> SUFFICES ASSUME Next, batch.cause = "retry", pc' = "idle", retry'.hwnd # None,
                      desk' = desk
               PROVE  /\ retry'.wait = retry.delay
                      /\ retry'.delay = Least(2 * retry.delay, MaxDelay)
    BY <1>1
  <2>1. pc \in {"settle", "apply"}
    <3>1. pc \in Stages /\ (pc = "idle" => batch = NoBatch)
          /\ (pc \in {"events", "switch"} => batch.cause = "none")
      BY <1>1 DEF Inv, Types, LocalsOK, StageInv
    <3>2. NoBatch.cause = "none"
      BY DEF NoBatch
    <3> QED
      BY <3>1, <3>2 DEF Stages
  <2>2. Settle \/ Apply
    <3>1. ~ User /\ ~ Programs
      BY <2>1, StepsAtStages
    <3> QED
      BY <2>1, <3>1, StepsAtStages DEF Next, Thread
  <2>3. ASSUME NEW progress \in BOOLEAN, Settled(FALSE, progress)
        PROVE  FALSE
    BY <2>3, NothingQueued, Zenon DEF Settled
  <2>4. CASE Settle
    <3>1. SettleStale \/ SettleUnchanged
      <4>1. ~ SettleCapture /\ ~ SettleSolved
        BY <2>4, StepsAtStages DEF SettleCapture, SettleSolved
      <4> QED
        BY <2>3, <2>4, <4>1, Zenon
           DEF Settle, SettleBlind, SettleUnavailable, SettleElsewhere
    <3>2. ~ SettleStale
      <4>1. SettleStale => pc = "settle" /\ batch.snap = NoSnap /\ retry' = retry
        BY Zenon DEF SettleStale
      <4> QED
        BY <1>1, <4>1 DEF Inv, StageInv
    <3>3. PICK to \in Layouts : Settled(~ Readable(to), FALSE)
      BY <3>1, <3>2, Zenon DEF SettleUnchanged
    <3>4. (~ Readable(to)) \in BOOLEAN
      OBVIOUS
    <3> QED
      BY <1>1, <3>3, <3>4, BackedOff, Zenon
  <2>5. CASE Apply
    <3>1. CASE ApplyDry
      BY <2>3, <3>1 DEF ApplyDry
    <3>2. CASE ApplyRefused
      BY <1>1, <3>2, BackedOff DEF ApplyRefused
    <3>3. ASSUME NEW done \in SUBSET plan.wins, NEW fine \in BOOLEAN, ApplyMoves(done, fine)
          PROVE  /\ retry'.wait = retry.delay
                 /\ retry'.delay = Least(2 * retry.delay, MaxDelay)
      <4>1. fine = FALSE
        BY <1>1, <3>3, FineMovesDesk
      <4>2. Settled(~ fine \/ ~ Readable(plan.to), fine)
        BY <3>3, Zenon DEF ApplyMoves
      <4>3. (~ fine \/ ~ Readable(plan.to)) \in BOOLEAN
        OBVIOUS
      <4> QED
        BY <1>1, <4>1, <4>2, <4>3, BackedOff, Zenon
    <3> QED
      BY <2>5, <3>1, <3>2, <3>3, Zenon DEF Apply
  <2> QED
    BY <2>2, <2>4, <2>5
<1> QED
  BY <1>1, MovesInvariance, Invariance, PTL DEF Spec, RepairsBackOff

-----------------------------------------------------------------------------
(* Placements and the activations they answer                              *)

(* An event that can make another window the coordinator's foreground.     *)
Marks(e) == e.type \in {"Foreground", "MoveSizeStart"}

(* How often the events from the i-th on can still make h the window to be *)
(* laid out: p[i] times if it is when they are handled, else q[i] times.   *)
(* The desktop's foreground fore stands at the end of the events, since a  *)
(* dropped event still counts.                                             *)
Tally(h, fore, events, p, q) ==
  /\ \A i \in Nat : p[i] <= q[i] /\ q[i] <= p[i] + 1 /\ (fore = h => 1 <= q[i])
  /\ \A i, j \in Nat : i <= j => p[j] <= p[i] /\ q[j] <= q[i]
  /\ \A i \in 1..Len(events) : Marks(events[i]) =>
       IF events[i].hwnd = h THEN p[i + 1] + 1 <= q[i] ELSE q[i + 1] <= p[i]

Tallied(h, fore, events, a, b) ==
  \E p, q \in [Nat -> Nat] : Tally(h, fore, events, p, q) /\ p[1] = a /\ q[1] = b

(* The events of t are those of s without the first k. *)
Without(s, t, k) ==
  /\ Len(s) \in Nat /\ Len(t) \in Nat /\ Len(t) + k <= Len(s)
  /\ \A i \in 1..Len(t) : t[i] = s[i + k]

(* The events of t are those of s and some that mark only later. *)
Extended(s, t, later) ==
  /\ Len(s) \in Nat /\ Len(t) \in Nat /\ Len(s) <= Len(t)
  /\ \A i \in 1..Len(s) : t[i] = s[i]
  /\ \A i \in Len(s) + 1 .. Len(t) : Marks(t[i]) => t[i].hwnd = later

(* After the first k events are handled or dropped. *)
LEMMA TallyShifts ==
  ASSUME NEW h, NEW fore, NEW s, NEW t, NEW k \in Nat,
         NEW p \in [Nat -> Nat], NEW q \in [Nat -> Nat], Tally(h, fore, s, p, q),
         Without(s, t, k)
  PROVE  Tallied(h, fore, t, p[k + 1], q[k + 1])
<1> DEFINE u == [i \in Nat |-> p[i + k]]
           v == [i \in Nat |-> q[i + k]]
<1>1. u \in [Nat -> Nat] /\ v \in [Nat -> Nat]
  OBVIOUS
<1>2. \A i \in Nat : u[i] = p[i + k] /\ v[i] = q[i + k]
  OBVIOUS
<1> HIDE DEF u, v
<1>3. \A i \in Nat : u[i] <= v[i] /\ v[i] <= u[i] + 1 /\ (fore = h => 1 <= v[i])
  <2> SUFFICES ASSUME NEW i \in Nat
               PROVE  u[i] <= v[i] /\ v[i] <= u[i] + 1 /\ (fore = h => 1 <= v[i])
    OBVIOUS
  <2>1. i + k \in Nat
    OBVIOUS
  <2>2. u[i] = p[i + k] /\ v[i] = q[i + k]
    BY <1>2
  <2>3. p[i + k] <= q[i + k] /\ q[i + k] <= p[i + k] + 1 /\ (fore = h => 1 <= q[i + k])
    BY <2>1, Zenon DEF Tally
  <2> QED
    BY <2>2, <2>3
<1>4. \A i, j \in Nat : i <= j => u[j] <= u[i] /\ v[j] <= v[i]
  <2>1. ASSUME NEW i \in Nat, NEW j \in Nat, i <= j
        PROVE  i + k \in Nat /\ j + k \in Nat /\ i + k <= j + k
    BY <2>1
  <2> QED
    BY <1>2, <2>1 DEF Tally
<1>5. ASSUME NEW i \in 1..Len(t), Marks(t[i])
      PROVE  IF t[i].hwnd = h THEN u[i + 1] + 1 <= v[i] ELSE v[i + 1] <= u[i]
  <2>1. i + k \in 1..Len(s) /\ i \in Nat /\ i + 1 \in Nat /\ (i + 1) + k = (i + k) + 1
    BY DEF Without
  <2>2. t[i] = s[i + k]
    BY DEF Without
  <2>3. IF s[i + k].hwnd = h THEN p[i + k + 1] + 1 <= q[i + k] ELSE q[i + k + 1] <= p[i + k]
    BY <1>5, <2>1, <2>2, Zenon DEF Tally
  <2>4. /\ u[i] = p[i + k] /\ v[i] = q[i + k]
        /\ u[i + 1] = p[i + k + 1] /\ v[i + 1] = q[i + k + 1]
    <3>1. u[i] = p[i + k] /\ v[i] = q[i + k]
      BY <1>2, <2>1
    <3>2. u[i + 1] = p[(i + 1) + k] /\ v[i + 1] = q[(i + 1) + k]
      BY <1>2, <2>1, Zenon
    <3> QED
      BY <2>1, <3>1, <3>2
  <2> QED
    BY <2>2, <2>3, <2>4, Zenon
<1>6. u[1] = p[k + 1] /\ v[1] = q[k + 1]
  BY <1>2
<1> QED
  <2>1. Tally(h, fore, t, u, v)
    BY <1>3, <1>4, <1>5 DEF Tally
  <2> QED
    BY <1>1, <1>6, <2>1, Zenon DEF Tallied

(* The desktop brings later to the front, or leaves the front alone, and   *)
(* events of it, if of any window, are added.                              *)
LEMMA TallyGrows ==
  ASSUME NEW h, NEW fore, NEW later, NEW s, NEW t,
         NEW p \in [Nat -> Nat], NEW q \in [Nat -> Nat], Tally(h, fore, s, p, q), Extended(s, t, later),
         NEW d \in {0, 1}, later = h /\ fore # h => d = 1
  PROVE  Tallied(h, later, t, p[1] + d, q[1] + d)
<1> DEFINE n == Len(s)
           last == IF later = h THEN 1 ELSE 0
           u == [i \in Nat |-> IF i <= n + 1 THEN p[i] + d ELSE 0]
           v == [i \in Nat |-> IF i <= n + 1 THEN q[i] + d ELSE last]
<1>1. last \in {0, 1} /\ (later = h <=> last = 1)
  OBVIOUS
<1>2. u \in [Nat -> Nat] /\ v \in [Nat -> Nat]
  <2>1. \A i \in Nat : p[i] + d \in Nat /\ q[i] + d \in Nat
    OBVIOUS
  <2>2. last \in Nat
    BY <1>1
  <2> HIDE DEF last
  <2> QED
    BY <2>1, <2>2
<1>3. \A i \in Nat : /\ u[i] = IF i <= n + 1 THEN p[i] + d ELSE 0
                     /\ v[i] = IF i <= n + 1 THEN q[i] + d ELSE last
  OBVIOUS
<1>4. n \in Nat /\ n = Len(s) /\ Len(t) \in Nat
  BY DEF Extended
<1> HIDE DEF u, v, last, n
<1>5. \A i \in Nat : p[i] \in Nat /\ q[i] \in Nat /\ p[i] <= q[i] /\ q[i] <= p[i] + 1
                     /\ (fore = h => 1 <= q[i])
  BY DEF Tally
<1>6. \A i \in Nat : last <= q[i] + d
  BY <1>1, <1>5
<1>7. ASSUME NEW i \in Nat
      PROVE  u[i] <= v[i] /\ v[i] <= u[i] + 1 /\ (later = h => 1 <= v[i])
  <2>1. p[i] \in Nat /\ q[i] \in Nat /\ p[i] <= q[i] /\ q[i] <= p[i] + 1 /\ last <= q[i] + d
    BY <1>5, <1>6
  <2>2. CASE i <= n + 1
    <3>1. u[i] = p[i] + d /\ v[i] = q[i] + d
      BY <1>3, <2>2
    <3> QED
      BY <1>1, <2>1, <3>1
  <2>3. CASE ~ (i <= n + 1)
    <3>1. u[i] = 0 /\ v[i] = last
      BY <1>3, <2>3
    <3> QED
      BY <1>1, <3>1
  <2> QED
    BY <2>2, <2>3
<1>8. ASSUME NEW i \in Nat, NEW j \in Nat, i <= j PROVE u[j] <= u[i] /\ v[j] <= v[i]
  <2>1. p[j] <= p[i] /\ q[j] <= q[i]
    BY <1>8, Zenon DEF Tally
  <2>2. p[i] \in Nat /\ q[i] \in Nat /\ p[j] \in Nat /\ q[j] \in Nat /\ last <= q[i] + d
    BY <1>5, <1>6
  <2>3. CASE j <= n + 1
    <3>1. i <= n + 1
      BY <1>4, <1>8, <2>3
    <3>2. u[i] = p[i] + d /\ v[i] = q[i] + d /\ u[j] = p[j] + d /\ v[j] = q[j] + d
      BY <1>3, <2>3, <3>1
    <3> QED
      BY <2>1, <2>2, <3>2
  <2>4. CASE ~ (j <= n + 1)
    <3>1. u[j] = 0 /\ v[j] = last
      BY <1>3, <2>4
    <3>2. \/ u[i] = p[i] + d /\ v[i] = q[i] + d
          \/ u[i] = 0 /\ v[i] = last
      BY <1>3
    <3> QED
      BY <1>1, <2>2, <3>1, <3>2
  <2> QED
    BY <2>3, <2>4
<1>9. ASSUME NEW i \in 1..Len(t), Marks(t[i])
      PROVE  IF t[i].hwnd = h THEN u[i + 1] + 1 <= v[i] ELSE v[i + 1] <= u[i]
  <2>1. i \in Nat /\ i + 1 \in Nat
    BY <1>4
  <2>2. CASE i <= n
    <3>1. i \in 1..Len(s) /\ t[i] = s[i]
      <4>1. i \in 1..Len(s)
        BY <1>4, <2>1, <2>2
      <4> QED
        BY <4>1, Zenon DEF Extended
    <3>2. IF t[i].hwnd = h THEN p[i + 1] + 1 <= q[i] ELSE q[i + 1] <= p[i]
      BY <1>9, <3>1, Zenon DEF Tally
    <3>3. i <= n + 1 /\ i + 1 <= n + 1
      BY <1>4, <2>1, <2>2
    <3>4. /\ u[i] = p[i] + d /\ v[i] = q[i] + d
          /\ u[i + 1] = p[i + 1] + d /\ v[i + 1] = q[i + 1] + d
      BY <1>3, <2>1, <3>3
    <3>5. p[i] \in Nat /\ q[i] \in Nat /\ p[i + 1] \in Nat /\ q[i + 1] \in Nat
      BY <1>5, <2>1
    <3>6. CASE t[i].hwnd = h
      <4>1. p[i + 1] + 1 <= q[i]
        BY <3>2, <3>6
      <4> QED
        BY <3>4, <3>5, <3>6, <4>1
    <3>7. CASE t[i].hwnd # h
      <4>1. q[i + 1] <= p[i]
        BY <3>2, <3>7
      <4> QED
        BY <3>4, <3>5, <3>7, <4>1
    <3> QED
      BY <3>6, <3>7
  <2>3. CASE ~ (i <= n)
    <3>1. t[i].hwnd = later
      <4>1. i \in Len(s) + 1 .. Len(t)
        BY <1>4, <2>1, <2>3
      <4> QED
        BY <1>9, <4>1, Zenon DEF Extended
    <3>2. u[i + 1] = 0 /\ v[i + 1] = last
      <4>1. ~ (i + 1 <= n + 1)
        BY <1>4, <2>1, <2>3
      <4> QED
        BY <1>3, <2>1, <4>1
    <3>3. u[i] \in Nat /\ last <= v[i]
      <4>1. u[i] \in Nat /\ last <= q[i] + d
        BY <1>2, <1>6, <2>1
      <4>2. v[i] = q[i] + d \/ v[i] = last
        BY <1>3, <2>1
      <4>3. CASE v[i] = q[i] + d
        BY <4>1, <4>3
      <4>4. CASE v[i] = last
        <5>1. last \in Nat
          BY <1>1
        <5>2. last <= last
          BY <5>1
        <5> QED
          BY <4>1, <4>4, <5>2, Zenon
      <4> QED
        BY <4>2, <4>3, <4>4
    <3>4. CASE later = h
      <4>1. last = 1
        BY <1>1, <3>4
      <4> QED
        BY <3>1, <3>2, <3>3, <3>4, <4>1
    <3>5. CASE later # h
      <4>1. last = 0
        BY <1>1, <3>5
      <4>2. v[i + 1] <= u[i]
        <5>1. v[i + 1] = 0
          BY <3>2, <4>1, Zenon
        <5>2. 0 <= u[i]
          <6> DEFINE x == u[i]
          <6>1. x \in Nat
            BY <3>3, Zenon
          <6> HIDE DEF x
          <6>2. 0 <= x
            BY <6>1
          <6> QED
            BY <6>2 DEF x
        <5> QED
          BY <5>1, <5>2, Zenon
      <4>3. t[i].hwnd # h
        BY <3>1, <3>5
      <4> QED
        BY <4>2, <4>3, Zenon
    <3> QED
      BY <3>4, <3>5
  <2> QED
    BY <2>2, <2>3
<1>10. u[1] = p[1] + d /\ v[1] = q[1] + d
  BY <1>3, <1>4
<1> QED
  <2>1. Tally(h, later, t, u, v)
    BY <1>7, <1>8, <1>9 DEF Tally
  <2> QED
    BY <1>2, <1>10, <2>1, Zenon DEF Tallied

(* The events the coordinator has yet to handle. *)
Coming == batch.events \o inbox

(* The window being dragged is the one to be laid out, although the        *)
(* desktop's events have not named it as the foreground.                   *)
Gripped == drag.hwnd \notin {None, foreground} /\ ~ (pc = "events" /\ batch.changed)
Standing(h) == IF Gripped THEN drag.hwnd = h ELSE foreground = h

(* What may still lead to a placement of h without another event: the end  *)
(* of its drag, its activation in this batch or by the drag, and the       *)
(* placement that is pending or under way.                                 *)
Grips(h) == Gripped /\ drag.hwnd = h
Activated(h) ==
  \/ drag.hwnd = h /\ foreground = h /\ drag.activated /\ ~ drag.moved
  \/ pc = "events" /\ batch.fg = h /\ batch.changed
Placing(h) == active = h /\ ((pending.on /\ pending.place) \/ batch.place)

One(b) == IF b THEN 1 ELSE 0
Claims(h) == One(Grips(h)) + One(Activated(h)) + One(Placing(h))

Ledger(h) ==
  \E p, q \in [Nat -> Nat] :
    /\ Tally(h, front, Coming, p, q)
    /\ (IF Standing(h) THEN p[1] ELSE q[1]) + Claims(h) <= credit[h]

(* What each stage knows of the batch's activation. *)
Noted ==
  /\ pc = "events" => batch.fg \in {None, foreground} /\ (batch.changed => batch.fg # None)
  /\ batch.place => pc \in {"settle", "apply"}
  /\ batch.events # <<>> => pc = "events"
  /\ pc = "switch" /\ PlaceActivated => pending.on /\ pending.place
  /\ pc = "apply" /\ active \in plan.wins => batch.place

CreditType == credit \in [Hwnds -> Int]

LEMMA ClaimsNat == \A h : Claims(h) \in Nat /\ Claims(h)' \in Nat
BY DEF Claims, One

LEMMA TallyNat ==
  ASSUME NEW h, NEW fore, NEW s, NEW p \in [Nat -> Nat], NEW q \in [Nat -> Nat],
         Tally(h, fore, s, p, q), NEW i \in Nat, NEW j \in Nat, i <= j
  PROVE  /\ p[i] \in Nat /\ q[i] \in Nat /\ p[j] \in Nat /\ q[j] \in Nat
         /\ p[i] <= q[i] /\ q[i] <= p[i] + 1 /\ p[j] <= p[i] /\ q[j] <= q[i]
<1>1. p[i] <= q[i] /\ q[i] <= p[i] + 1 /\ p[j] <= p[i] /\ q[j] <= q[i]
  BY Zenon DEF Tally
<1> QED
  BY <1>1

(* A step of the coordinator that takes nobody to the front. *)
LEMMA LedgerEases ==
  ASSUME NEW h \in Hwnds, Ledger(h), NEW k \in Nat, Without(Coming, Coming', k),
         front' = front, CreditType, credit'[h] = credit[h],
         Claims(h)' + One(Standing(h) /\ ~ Standing(h)') <= Claims(h)
  PROVE  Ledger(h)'
<1>1. PICK p, q \in [Nat -> Nat] :
        /\ Tally(h, front, Coming, p, q)
        /\ (IF Standing(h) THEN p[1] ELSE q[1]) + Claims(h) <= credit[h]
  BY Zenon DEF Ledger
<1>2. PICK u, v \in [Nat -> Nat] :
        Tally(h, front, Coming', u, v) /\ u[1] = p[k + 1] /\ v[1] = q[k + 1]
  <2> DEFINE s == Coming
             t == Coming'
             fore == front
  <2>1. Tally(h, fore, s, p, q) /\ Without(s, t, k)
    BY <1>1
  <2> HIDE DEF s, t, fore
  <2>2. Tallied(h, fore, t, p[k + 1], q[k + 1])
    BY <2>1, TallyShifts
  <2> QED
    BY <2>2, Zenon DEF Tallied, t, fore
<1>3. /\ p[1] \in Nat /\ q[1] \in Nat /\ u[1] \in Nat /\ v[1] \in Nat
      /\ p[1] <= q[1] /\ q[1] <= p[1] + 1 /\ u[1] <= p[1] /\ v[1] <= q[1]
  <2>1. 1 \in Nat /\ k + 1 \in Nat /\ 1 <= k + 1
    OBVIOUS
  <2>2. /\ p[1] \in Nat /\ q[1] \in Nat /\ p[k + 1] \in Nat /\ q[k + 1] \in Nat
        /\ p[1] <= q[1] /\ q[1] <= p[1] + 1 /\ p[k + 1] <= p[1] /\ q[k + 1] <= q[1]
    BY <1>1, <2>1, TallyNat, Zenon
  <2> QED
    BY <1>2, <2>2, Zenon
<1>4. u[1] <= v[1]
  BY <1>2, Zenon DEF Tally
<1>5. (IF Standing(h)' THEN u[1] ELSE v[1]) + Claims(h)' <= credit'[h]
  <2>1. Claims(h) \in Nat /\ Claims(h)' \in Nat /\ credit[h] \in Int
    BY ClaimsNat DEF CreditType
  <2> DEFINE a == IF Standing(h) THEN p[1] ELSE q[1]
             b == IF Standing(h)' THEN u[1] ELSE v[1]
             x == One(Standing(h) /\ ~ Standing(h)')
             c == Claims(h)
             e == Claims(h)'
             m == credit[h]
  <2>2. a \in Nat /\ b \in Nat /\ x \in Nat
    BY <1>3 DEF One
  <2>3. b <= a + x
    BY <1>3, <1>4 DEF One
  <2>4. a + c <= m /\ e + x <= c /\ c \in Nat /\ e \in Nat /\ m \in Int
    BY <1>1, <2>1
  <2> HIDE DEF a, b, c, e, m, x
  <2>5. b + e <= m
    BY <2>2, <2>3, <2>4
  <2> QED
    BY <2>5 DEF b, e, m
<1>6. Tally(h, front', Coming', u, v)
  BY <1>2
<1> QED
  BY <1>2, <1>5, <1>6, Zenon DEF Ledger

(* The coordinator handles an event that names g: h has an activation less *)
(* to come, if h is g, or one it need not answer.                          *)
LEMMA LedgerMarks ==
  ASSUME NEW h \in Hwnds, Ledger(h), NEW k \in Nat, 1 <= k, Without(Coming, Coming', k),
         Marks(Coming[1]), front' = front, CreditType, credit'[h] = credit[h],
         IF Coming[1].hwnd = h
           THEN Standing(h)' /\ Claims(h)' <= Claims(h) + One(~ Standing(h))
           ELSE Claims(h)' <= Claims(h)
  PROVE  Ledger(h)'
<1>1. PICK p, q \in [Nat -> Nat] :
        /\ Tally(h, front, Coming, p, q)
        /\ (IF Standing(h) THEN p[1] ELSE q[1]) + Claims(h) <= credit[h]
  BY Zenon DEF Ledger
<1>2. PICK u, v \in [Nat -> Nat] :
        Tally(h, front, Coming', u, v) /\ u[1] = p[k + 1] /\ v[1] = q[k + 1]
  <2> DEFINE s == Coming
             t == Coming'
             fore == front
  <2>1. Tally(h, fore, s, p, q) /\ Without(s, t, k)
    BY <1>1
  <2> HIDE DEF s, t, fore
  <2>2. Tallied(h, fore, t, p[k + 1], q[k + 1])
    BY <2>1, TallyShifts
  <2> QED
    BY <2>2, Zenon DEF Tallied, t, fore
<1>3. /\ p[1] \in Nat /\ q[1] \in Nat /\ u[1] \in Nat /\ v[1] \in Nat
      /\ p[1] <= q[1] /\ u[1] <= p[2] /\ v[1] <= q[2] /\ p[2] \in Nat /\ q[2] \in Nat
      /\ p[2] <= p[1]
  <2>1. 1 \in Nat /\ 2 \in Nat /\ 1 <= 2 /\ k + 1 \in Nat /\ 2 <= k + 1
    OBVIOUS
  <2>2. /\ p[2] \in Nat /\ q[2] \in Nat /\ p[k + 1] \in Nat /\ q[k + 1] \in Nat
        /\ p[k + 1] <= p[2] /\ q[k + 1] <= q[2]
    BY <1>1, <2>1, TallyNat, Zenon
  <2>3. p[1] \in Nat /\ q[1] \in Nat /\ p[1] <= q[1] /\ p[2] <= p[1]
    BY <1>1, <2>1, TallyNat, Zenon
  <2> QED
    BY <1>2, <2>2, <2>3, Zenon
<1>4. IF Coming[1].hwnd = h THEN p[2] + 1 <= q[1] ELSE q[2] <= p[1]
  <2>1. 1 \in 1..Len(Coming)
    <3> HIDE DEF Coming
    <3> QED
      BY DEF Without
  <2>2. IF Coming[1].hwnd = h THEN p[1 + 1] + 1 <= q[1] ELSE q[1 + 1] <= p[1]
    BY <1>1, <2>1, Zenon DEF Tally
  <2>3. 1 + 1 = 2
    OBVIOUS
  <2> QED
    BY <2>2, <2>3, Zenon
<1>5. (IF Standing(h)' THEN u[1] ELSE v[1]) + Claims(h)' <= credit'[h]
  <2>1. Claims(h) \in Nat /\ Claims(h)' \in Nat /\ credit[h] \in Int
    BY ClaimsNat DEF CreditType
  <2>2. u[1] <= v[1]
    BY <1>2, Zenon DEF Tally
  <2> DEFINE c == Claims(h)
             e == Claims(h)'
             m == credit[h]
             st == Standing(h)
             nt == Standing(h)'
             hit == Coming[1].hwnd = h
  <2>3. /\ (IF st THEN p[1] ELSE q[1]) + c <= m /\ c \in Nat /\ e \in Nat /\ m \in Int
        /\ credit'[h] = m
    BY <1>1, <2>1
  <2>4. /\ hit => nt /\ e <= c + (IF ~ st THEN 1 ELSE 0)
        /\ ~ hit => e <= c
    BY DEF One
  <2>5. /\ hit => p[2] + 1 <= q[1]
        /\ ~ hit => q[2] <= p[1]
    BY <1>4
  <2> HIDE DEF c, e, m, st, nt, hit
  <2>6. (IF nt THEN u[1] ELSE v[1]) + e <= m
    BY <1>3, <2>2, <2>3, <2>4, <2>5
  <2> QED
    BY <2>3, <2>6 DEF nt, e
<1>6. Tally(h, front', Coming', u, v)
  BY <1>2
<1> QED
  BY <1>2, <1>5, <1>6, Zenon DEF Ledger

(* The desktop brings a window to the front, or events are added. *)
LEMMA LedgerGrows ==
  ASSUME NEW h \in Hwnds, Ledger(h), Extended(Coming, Coming', front'), CreditType,
         NEW d \in {0, 1}, front' = h /\ front # h => d = 1,
         Standing(h)' = Standing(h), credit'[h] \in Int,
         Claims(h)' + credit[h] + d <= Claims(h) + credit'[h]
  PROVE  Ledger(h)'
<1>1. PICK p, q \in [Nat -> Nat] :
        /\ Tally(h, front, Coming, p, q)
        /\ (IF Standing(h) THEN p[1] ELSE q[1]) + Claims(h) <= credit[h]
  BY Zenon DEF Ledger
<1>2. PICK u, v \in [Nat -> Nat] :
        Tally(h, front', Coming', u, v) /\ u[1] = p[1] + d /\ v[1] = q[1] + d
  <2> DEFINE s == Coming
             t == Coming'
             fore == front
             later == front'
  <2>1. Tally(h, fore, s, p, q) /\ Extended(s, t, later)
    BY <1>1
  <2>3. later = h /\ fore # h => d = 1
    OBVIOUS
  <2> HIDE DEF s, t, fore, later
  <2>2. Tallied(h, later, t, p[1] + d, q[1] + d)
    BY <2>1, <2>3, TallyGrows
  <2> QED
    BY <2>2, Zenon DEF Tallied, t, fore, later
<1>3. p[1] \in Nat /\ q[1] \in Nat
  OBVIOUS
<1>4. (IF Standing(h)' THEN u[1] ELSE v[1]) + Claims(h)' <= credit'[h]
  <2> DEFINE c == Claims(h)
             e == Claims(h)'
             m == credit[h]
             n == credit'[h]
             a == IF Standing(h) THEN p[1] ELSE q[1]
             b == IF Standing(h)' THEN u[1] ELSE v[1]
  <2>1. c \in Nat /\ e \in Nat /\ m \in Int /\ n \in Int /\ a \in Nat
    BY <1>3, ClaimsNat DEF CreditType
  <2>2. b = a + d
    BY <1>2
  <2>3. a + c <= m /\ e + m + d <= c + n
    BY <1>1
  <2> HIDE DEF a, b, c, e, m, n
  <2>4. b + e <= n
    BY <2>1, <2>2, <2>3
  <2> QED
    BY <2>4 DEF b, e, n
<1> QED
  BY <1>2, <1>4, Zenon DEF Ledger

-----------------------------------------------------------------------------
(* The events to come                                                      *)

LEMMA ComingType ==
  ASSUME Inv
  PROVE  /\ batch.events \in Seq(EventRecord) /\ inbox \in Seq(EventRecord)
         /\ Coming \in Seq(EventRecord)
         /\ Len(batch.events) \in Nat /\ Len(inbox) \in Nat
         /\ Len(Coming) = Len(batch.events) + Len(inbox)
         /\ \A i \in 1..Len(Coming) :
              Coming[i] = IF i <= Len(batch.events) THEN batch.events[i]
                                                    ELSE inbox[i - Len(batch.events)]
<1>1. batch.events \in Seq(EventRecord) /\ inbox \in Seq(EventRecord)
  BY DEF Inv, Types, LocalsOK, BatchRecord, WorldOK, QueueOK
<1> DEFINE s == batch.events
<1>2. s \in Seq(EventRecord) /\ inbox \in Seq(EventRecord)
  BY <1>1
<1> HIDE DEF s
<1>3. /\ s \o inbox \in Seq(EventRecord) /\ Len(s) \in Nat /\ Len(inbox) \in Nat
      /\ Len(s \o inbox) = Len(s) + Len(inbox)
      /\ \A i \in 1..Len(s) + Len(inbox) :
           (s \o inbox)[i] = IF i <= Len(s) THEN s[i] ELSE inbox[i - Len(s)]
  BY <1>2, ConcatProperties, LenProperties
<1> QED
  BY <1>2, <1>3 DEF Coming, s

LEMMA WithoutNothing ==
  ASSUME Inv, Coming' = Coming
  PROVE  Without(Coming, Coming', 0)
<1> DEFINE s == Coming
<1>1. Len(s) \in Nat
  BY ComingType
<1> HIDE DEF s
<1>2. Without(s, s, 0)
  BY <1>1 DEF Without
<1> QED
  BY <1>2 DEF s

(* A new batch takes the queue as it is. *)
LEMMA ComingTaken ==
  ASSUME Inv, batch.events = <<>>, batch'.events = inbox, inbox' = <<>>
  PROVE  Coming' = Coming
<1>1. inbox \in Seq(EventRecord)
  BY DEF Inv, Types, WorldOK, QueueOK
<1>2. Coming = <<>> \o inbox /\ Coming' = inbox \o <<>>
  BY DEF Coming
<1> QED
  BY <1>1, <1>2, ConcatEmptySeq

LEMMA WithoutAll ==
  ASSUME Inv, batch.events = <<>>, batch'.events = <<>>, inbox' = <<>>
  PROVE  Without(Coming, Coming', Len(Coming))
<1> DEFINE s == Coming
           t == Coming'
<1>1. Len(s) \in Nat
  BY ComingType
<1>2. t = <<>> \o <<>>
  BY DEF Coming
<1>3. t = <<>>
  BY <1>2
<1> HIDE DEF s, t
<1>4. Without(s, t, Len(s))
  BY <1>1, <1>3 DEF Without
<1> QED
  BY <1>4 DEF s, t

(* An event is handled. *)
LEMMA WithoutOne ==
  ASSUME Inv, batch.events # <<>>, batch'.events = Tail(batch.events), inbox' = inbox
  PROVE  Without(Coming, Coming', 1) /\ Coming[1] = Head(batch.events)
<1> DEFINE s == batch.events
           c == Coming
           t == Tail(s) \o inbox
<1>1. /\ s \in Seq(EventRecord) /\ inbox \in Seq(EventRecord) /\ s # <<>>
      /\ Len(s) \in Nat /\ Len(inbox) \in Nat
      /\ Len(c) = Len(s) + Len(inbox)
      /\ \A i \in 1..Len(c) : c[i] = IF i <= Len(s) THEN s[i] ELSE inbox[i - Len(s)]
  BY ComingType
<1>2. Coming' = t
  BY DEF Coming
<1> HIDE DEF s, c
<1>3. /\ Tail(s) \in Seq(EventRecord) /\ Len(s) >= 1 /\ Len(Tail(s)) = Len(s) - 1
      /\ Head(s) = s[1] /\ \A i \in 1..Len(Tail(s)) : Tail(s)[i] = s[i + 1]
  BY <1>1, HeadTailProperties, EmptySeq, LenProperties
<1>4. /\ Len(t) = Len(s) - 1 + Len(inbox)
      /\ \A i \in 1..Len(t) :
           t[i] = IF i <= Len(s) - 1 THEN Tail(s)[i] ELSE inbox[i - (Len(s) - 1)]
  BY <1>1, <1>3, ConcatProperties
<1> HIDE DEF t
<1>5. ASSUME NEW i \in 1..Len(t) PROVE t[i] = c[i + 1]
  <2>1. i \in Nat /\ i + 1 \in 1..Len(c)
    BY <1>1, <1>3, <1>4
  <2>2. CASE i <= Len(s) - 1
    <3>1. i \in 1..Len(Tail(s)) /\ i + 1 <= Len(s)
      BY <1>1, <1>3, <2>1, <2>2
    <3>2. t[i] = Tail(s)[i] /\ Tail(s)[i] = s[i + 1] /\ c[i + 1] = s[i + 1]
      BY <1>1, <1>3, <1>4, <2>1, <2>2, <3>1
    <3> QED
      BY <3>2
  <2>3. CASE ~ (i <= Len(s) - 1)
    <3>1. ~ (i + 1 <= Len(s)) /\ i - (Len(s) - 1) = (i + 1) - Len(s)
      BY <1>1, <2>1, <2>3
    <3>2. t[i] = inbox[i - (Len(s) - 1)]
      BY <1>4, <2>3
    <3>3. c[i + 1] = inbox[(i + 1) - Len(s)]
      BY <1>1, <2>1, <3>1, Zenon
    <3> QED
      BY <3>1, <3>2, <3>3
  <2> QED
    BY <2>2, <2>3
<1>6. Without(c, t, 1)
  BY <1>1, <1>3, <1>4, <1>5 DEF Without
<1>7. c[1] = Head(s)
  BY <1>1, <1>3
<1> QED
  BY <1>2, <1>6, <1>7 DEF c, s

(* The rest of the batch is dropped. *)
LEMMA WithoutBatch ==
  ASSUME Inv, batch.events # <<>>, batch'.events = <<>>, inbox' = inbox
  PROVE  /\ Without(Coming, Coming', Len(batch.events))
         /\ 1 <= Len(batch.events) /\ Coming[1] = Head(batch.events)
<1> DEFINE s == batch.events
           c == Coming
<1>1. /\ s \in Seq(EventRecord) /\ inbox \in Seq(EventRecord) /\ s # <<>>
      /\ Len(s) \in Nat /\ Len(inbox) \in Nat
      /\ Len(c) = Len(s) + Len(inbox)
      /\ \A i \in 1..Len(c) : c[i] = IF i <= Len(s) THEN s[i] ELSE inbox[i - Len(s)]
  BY ComingType
<1>2. Coming' = inbox
  <2>1. Coming' = <<>> \o inbox
    BY DEF Coming
  <2> QED
    BY <1>1, <2>1, ConcatEmptySeq
<1> HIDE DEF s, c
<1>3. Len(s) >= 1 /\ Head(s) = s[1]
  BY <1>1, HeadTailProperties, EmptySeq, LenProperties
<1>4. ASSUME NEW i \in 1..Len(inbox) PROVE inbox[i] = c[i + Len(s)]
  <2>1. i + Len(s) \in 1..Len(c) /\ ~ (i + Len(s) <= Len(s)) /\ (i + Len(s)) - Len(s) = i
    BY <1>1
  <2>2. c[i + Len(s)] = inbox[(i + Len(s)) - Len(s)]
    BY <1>1, <2>1, Zenon
  <2> QED
    BY <2>1, <2>2
<1>5. Without(c, inbox, Len(s))
  BY <1>1, <1>4 DEF Without
<1>6. c[1] = Head(s)
  BY <1>1, <1>3
<1> QED
  BY <1>2, <1>3, <1>5, <1>6 DEF c, s

(* Events are queued, as many as fit. *)
LEMMA ExtendedByEnqueue ==
  ASSUME Inv, NEW es \in Seq(EventRecord), Enqueue(es), batch'.events = batch.events,
         NEW later, \A i \in 1..Len(es) : Marks(es[i]) => es[i].hwnd = later
  PROVE  Extended(Coming, Coming', later)
<1> DEFINE s == batch.events
           c == Coming
           n == Least(Capacity, Len(inbox) + Len(es))
           r == SubSeq(inbox \o es, 1, n)
           t == s \o r
<1>1. /\ s \in Seq(EventRecord) /\ inbox \in Seq(EventRecord)
      /\ Len(s) \in Nat /\ Len(inbox) \in Nat
      /\ Len(c) = Len(s) + Len(inbox)
      /\ \A i \in 1..Len(c) : c[i] = IF i <= Len(s) THEN s[i] ELSE inbox[i - Len(s)]
  BY ComingType
<1>2. Coming' = t
  BY DEF Coming, Enqueue
<1>3. Len(es) \in Nat /\ Capacity \in Nat /\ Len(inbox) <= Capacity
  BY Numbers, LenProperties DEF Inv, Types, WorldOK, QueueOK
<1>4. n \in Nat /\ Len(inbox) <= n /\ n <= Len(inbox) + Len(es)
  BY <1>1, <1>3 DEF Least
<1> HIDE DEF s, c, n
<1>5. /\ Len(inbox \o es) = Len(inbox) + Len(es) /\ inbox \o es \in Seq(EventRecord)
      /\ \A i \in 1..Len(inbox) + Len(es) :
           (inbox \o es)[i] = IF i <= Len(inbox) THEN inbox[i] ELSE es[i - Len(inbox)]
  BY <1>1, <1>3, ConcatProperties
<1>6. r \in Seq(EventRecord) /\ Len(r) = n /\ \A i \in 1..n : r[i] = (inbox \o es)[i]
  <2> DEFINE all == inbox \o es
  <2>1. all \in Seq(EventRecord) /\ Len(all) = Len(inbox) + Len(es)
    BY <1>5
  <2> HIDE DEF all
  <2>2. \A i \in 1..n : all[i] \in EventRecord
    <3>1. \A i \in 1..n : i \in 1..Len(all)
      BY <1>1, <1>3, <1>4, <2>1
    <3> QED
      BY <2>1, <3>1, ElementOfSeq
  <2>3. /\ SubSeq(all, 1, n) \in Seq(EventRecord)
        /\ Len(SubSeq(all, 1, n)) = IF 1 <= n THEN n - 1 + 1 ELSE 0
        /\ \A i \in 1 .. n - 1 + 1 : SubSeq(all, 1, n)[i] = all[1 + i - 1]
    BY <1>4, <2>2, SubSeqProperties
  <2>4. Len(SubSeq(all, 1, n)) = n
    BY <1>4, <2>3
  <2>5. \A i \in 1..n : i \in 1 .. n - 1 + 1 /\ 1 + i - 1 = i
    BY <1>4
  <2>6. \A i \in 1..n : SubSeq(all, 1, n)[i] = all[i]
    BY <2>3, <2>5
  <2> QED
    BY <2>3, <2>4, <2>6 DEF all
<1> HIDE DEF r
<1>7. /\ Len(t) = Len(s) + n
      /\ \A i \in 1..Len(t) : t[i] = IF i <= Len(s) THEN s[i] ELSE r[i - Len(s)]
  <2>1. s \in Seq(EventRecord) /\ r \in Seq(EventRecord) /\ Len(r) = n
    BY <1>1, <1>6
  <2>2. /\ Len(s \o r) = Len(s) + Len(r)
        /\ \A i \in 1..Len(s) + Len(r) :
             (s \o r)[i] = IF i <= Len(s) THEN s[i] ELSE r[i - Len(s)]
    BY <2>1, ConcatProperties
  <2> QED
    BY <2>1, <2>2
<1> HIDE DEF t
<1>8. ASSUME NEW i \in 1..Len(c) PROVE t[i] = c[i]
  <2>1. i \in Nat /\ i \in 1..Len(t)
    BY <1>1, <1>4, <1>7
  <2>2. CASE i <= Len(s)
    <3>1. t[i] = s[i] /\ c[i] = s[i]
      BY <1>1, <1>7, <2>1, <2>2
    <3> QED
      BY <3>1
  <2>3. CASE ~ (i <= Len(s))
    <3>1. /\ i - Len(s) \in 1..n /\ i - Len(s) \in 1..Len(inbox) + Len(es)
          /\ i - Len(s) <= Len(inbox)
      BY <1>1, <1>3, <1>4, <2>1, <2>3
    <3>2. t[i] = r[i - Len(s)] /\ c[i] = inbox[i - Len(s)]
      BY <1>1, <1>7, <2>1, <2>3
    <3>3. r[i - Len(s)] = (inbox \o es)[i - Len(s)]
      BY <1>6, <3>1
    <3>4. (inbox \o es)[i - Len(s)] = inbox[i - Len(s)]
      BY <1>5, <3>1, Zenon
    <3> QED
      BY <3>2, <3>3, <3>4, Zenon
  <2> QED
    BY <2>2, <2>3
<1>9. ASSUME NEW i \in Len(c) + 1 .. Len(t), Marks(t[i]) PROVE t[i].hwnd = later
  <2>1. i \in Nat /\ i \in 1..Len(t) /\ ~ (i <= Len(s))
    BY <1>1, <1>4, <1>7
  <2>2. /\ i - Len(s) \in 1..n /\ i - Len(s) \in 1..Len(inbox) + Len(es)
        /\ ~ (i - Len(s) <= Len(inbox)) /\ (i - Len(s)) - Len(inbox) \in 1..Len(es)
    BY <1>1, <1>3, <1>4, <1>7, <2>1
  <2>3. t[i] = r[i - Len(s)]
    BY <1>7, <2>1
  <2>4. r[i - Len(s)] = (inbox \o es)[i - Len(s)]
    BY <1>6, <2>2
  <2>5. (inbox \o es)[i - Len(s)] = es[(i - Len(s)) - Len(inbox)]
    BY <1>5, <2>2, Zenon
  <2>6. t[i] = es[(i - Len(s)) - Len(inbox)]
    BY <2>3, <2>4, <2>5, Zenon
  <2> QED
    BY <1>9, <2>2, <2>6, Zenon
<1>10. Extended(c, t, later)
  BY <1>1, <1>4, <1>7, <1>8, <1>9 DEF Extended
<1> QED
  BY <1>2, <1>10 DEF c

-----------------------------------------------------------------------------
(* What the steps of the coordinator do to the claims on a window          *)

Eases(h) == Claims(h)' + One(Standing(h) /\ ~ Standing(h)') <= Claims(h)

LEMMA FewerClaims ==
  ASSUME NEW h, Grips(h)' => Grips(h), Activated(h)' => Activated(h),
         Placing(h)' => Placing(h), Standing(h) => Standing(h)'
  PROVE  Eases(h)
BY DEF Eases, Claims, One

(* The window in hand and the foreground stay as they are, and so does     *)
(* what the batch knows of an activation, unless the batch is decided upon *)
(* and there is none or it is the dragged window's.                        *)
LEMMA SteadyEases ==
  ASSUME NEW h, UNCHANGED <<drag, foreground>>, Placing(h)' => Placing(h),
         pc' = "events" /\ batch'.changed
           => pc = "events" /\ batch.changed /\ batch'.fg = batch.fg,
         pc = "events" /\ batch.changed
           => (pc' = "events" /\ batch'.changed) \/ drag.hwnd = foreground
  PROVE  Eases(h)
<1>1. Gripped' <=> Gripped
  BY DEF Gripped
<1>2. Standing(h)' <=> Standing(h)
  BY <1>1 DEF Standing
<1>3. Grips(h)' => Grips(h)
  BY <1>1 DEF Grips
<1>4. Activated(h)' => Activated(h)
  BY DEF Activated
<1> QED
  BY <1>2, <1>3, <1>4, FewerClaims

LEMMA EndBatchFields ==
  ASSUME EndBatch
  PROVE  /\ pc' = "idle" /\ batch'.events = <<>> /\ batch'.fg = None
         /\ ~ batch'.changed /\ ~ batch'.place
BY DEF EndBatch, NoBatch

LEMMA RestFields ==
  ASSUME Inv, batch.events # <<>>
  PROVE  /\ Rest.events = Tail(batch.events) /\ Rest.fg = batch.fg
         /\ Rest.changed = batch.changed /\ Rest.place = batch.place
         /\ Rest.suppress = batch.suppress
         /\ \A h : [Rest EXCEPT !.ended = h].events = Tail(batch.events)
         /\ \A h : [Rest EXCEPT !.ended = h].fg = batch.fg
         /\ \A h : [Rest EXCEPT !.ended = h].changed = batch.changed
         /\ \A h : [Rest EXCEPT !.ended = h].place = batch.place
<1>1. batch \in BatchRecord
  BY DEF Inv, Types, LocalsOK
<1> QED
  BY <1>1 DEF Rest, BatchRecord

(* An event that starts no drag and names no foreground.                   *)
QuietEvents == Coalesced \/ MoveSizeEnd \/ LocationChange \/ Show \/ Destroy

LEMMA QuietStep ==
  ASSUME Inv, QuietEvents
  PROVE  /\ pc = "events" /\ pc' = "events" /\ batch.events # <<>> /\ inbox' = inbox
         /\ UNCHANGED <<foreground, active, pending, front, credit, plan>>
         /\ batch'.events = Tail(batch.events) /\ batch'.fg = batch.fg
         /\ batch'.changed = batch.changed /\ batch'.place = batch.place
         /\ drag'.hwnd = drag.hwnd /\ drag'.activated = drag.activated
         /\ drag.moved => drag'.moved
<1>1. pc = "events" /\ batch.events # <<>>
  BY Zenon DEF QuietEvents, Coalesced, MoveSizeEnd, LocationChange, Show, Destroy, Handle
<1>2. /\ UNCHANGED <<outside, pc, plan>> /\ UNCHANGED <<foreground, active, pending>>
      /\ credit' = credit
  BY Zenon DEF QuietEvents, Coalesced, MoveSizeEnd, LocationChange, Show, Destroy, focus, work,
     notes
<1>3. batch' = Rest \/ \E h : batch' = [Rest EXCEPT !.ended = h]
  BY Zenon DEF QuietEvents, Coalesced, MoveSizeEnd, LocationChange, Show, Destroy
<1>4. drag' = drag \/ \E b \in BOOLEAN : drag' = [drag EXCEPT !.moved = @ \/ b]
  <2>1. CASE LocationChange
    <3>1. (drag.hwnd = Head(batch.events).hwnd) \in BOOLEAN
      OBVIOUS
    <3>2. drag' = drag \/ drag' = [drag EXCEPT !.moved = @ \/ drag.hwnd = Head(batch.events).hwnd]
      BY <2>1, Zenon DEF LocationChange
    <3> QED
      BY <3>1, <3>2, Zenon
  <2>2. CASE Coalesced \/ MoveSizeEnd \/ Show \/ Destroy
    BY <2>2, Zenon DEF Coalesced, MoveSizeEnd, Show, Destroy
  <2> QED
    BY <2>1, <2>2, Zenon DEF QuietEvents
<1>5. drag \in DragRecord
  BY DEF Inv, Types, MemoryOK
<1>6. /\ drag'.hwnd = drag.hwnd /\ drag'.activated = drag.activated
      /\ drag.moved => drag'.moved
  BY <1>4, <1>5 DEF DragRecord
<1>7. /\ batch'.events = Tail(batch.events) /\ batch'.fg = batch.fg
      /\ batch'.changed = batch.changed /\ batch'.place = batch.place
  BY <1>1, <1>3, RestFields, Zenon
<1>8. inbox' = inbox /\ front' = front
  BY <1>2 DEF outside, world, queue
<1> QED
  BY <1>1, <1>2, <1>6, <1>7, <1>8

LEMMA QuietLedger ==
  ASSUME Inv, Noted, CreditType, QuietEvents
  PROVE  Noted' /\ \A h \in Hwnds : Ledger(h) => Ledger(h)'
<1>1. /\ pc = "events" /\ pc' = "events" /\ batch.events # <<>> /\ inbox' = inbox
      /\ UNCHANGED <<foreground, active, pending, front, credit, plan>>
      /\ batch'.events = Tail(batch.events) /\ batch'.fg = batch.fg
      /\ batch'.changed = batch.changed /\ batch'.place = batch.place
      /\ drag'.hwnd = drag.hwnd /\ drag'.activated = drag.activated
      /\ drag.moved => drag'.moved
  BY QuietStep
<1>2. Noted'
  BY <1>1 DEF Noted
<1>3. ASSUME NEW h \in Hwnds PROVE Eases(h)
  <2>1. Gripped' <=> Gripped
    BY <1>1 DEF Gripped
  <2>2. Standing(h)' <=> Standing(h)
    BY <1>1, <2>1 DEF Standing
  <2>3. Grips(h)' => Grips(h)
    BY <1>1, <2>1 DEF Grips
  <2>4. Activated(h)' => Activated(h)
    BY <1>1 DEF Activated
  <2>5. Placing(h)' => Placing(h)
    BY <1>1 DEF Placing
  <2> QED
    BY <2>2, <2>3, <2>4, <2>5, FewerClaims
<1>4. Without(Coming, Coming', 1)
  BY <1>1, WithoutOne
<1> QED
  BY <1>1, <1>2, <1>3, <1>4, LedgerEases DEF Eases

(* The foreground changes, or is named again. *)
LEMMA ForegroundLedger ==
  ASSUME Inv, Noted, CreditType, Foreground
  PROVE  Noted' /\ \A h \in Hwnds : Ledger(h) => Ledger(h)'
<1>1. Handle("Foreground")
  BY Zenon DEF Foreground
<1>2. PICK g \in Hwnds : g = Head(batch.events).hwnd
  BY <1>1, HandleType
<1>3. /\ Handle("Foreground") /\ foreground' = g
      /\ IF g # foreground THEN drag' = [drag EXCEPT !.activated = @ \/ drag.hwnd = g]
                           ELSE drag' = drag
      /\ batch' = [Rest EXCEPT !.fg = g, !.suppress = Head(batch.events).suppress,
                               !.changed = @ \/ g # foreground]
      /\ UNCHANGED <<outside, active, pending, pc, plan, notes>>
  BY <1>2, Zenon DEF Foreground
<1>4. pc = "events" /\ batch.events # <<>> /\ g \in Hwnds /\ g # None
      /\ Head(batch.events).type = "Foreground"
  BY <1>3, <1>2, HandleType DEF Handle
<1>5. inbox' = inbox /\ front' = front /\ credit' = credit
  BY <1>3 DEF outside, world, queue, notes
<1>6. /\ batch'.events = Tail(batch.events) /\ batch'.fg = g /\ batch'.place = batch.place
      /\ batch'.changed = (batch.changed \/ g # foreground)
  <2>1. batch \in BatchRecord
    BY DEF Inv, Types, LocalsOK
  <2> QED
    BY <1>3, <2>1 DEF Rest, BatchRecord
<1>7. Without(Coming, Coming', 1) /\ Coming[1] = Head(batch.events)
  BY <1>4, <1>5, <1>6, WithoutOne
<1>8. Marks(Coming[1]) /\ Coming[1].hwnd = g
  BY <1>4, <1>7, <1>2 DEF Marks
<1>9. /\ drag'.hwnd = drag.hwnd /\ drag'.moved = drag.moved
      /\ drag'.activated => drag.activated \/ (g # foreground /\ drag.hwnd = g)
  <2>1. drag \in DragRecord
    BY DEF Inv, Types, MemoryOK
  <2> QED
    BY <1>3, <2>1 DEF DragRecord
<1>10. batch.fg \in {None, foreground} /\ (batch.changed => batch.fg # None) /\ ~ batch.place
      /\ batch.changed \in BOOLEAN
  BY <1>4 DEF Noted, Inv, Types, LocalsOK, BatchRecord
<1>11. pc' = "events" /\ active' = active /\ pending' = pending /\ plan' = plan
  BY <1>3, <1>4
<1>12. Noted'
  BY <1>4, <1>6, <1>10, <1>11, <1>3 DEF Noted
<1>13. ASSUME NEW h \in Hwnds
       PROVE  Placing(h)' <=> Placing(h)
  BY <1>6, <1>11 DEF Placing
<1>14. Gripped' <=> drag.hwnd \notin {None, g} /\ ~ batch.changed /\ g = foreground
  BY <1>3, <1>6, <1>9, <1>11 DEF Gripped
<1>15. Gripped' => Gripped
  BY <1>14 DEF Gripped
<1>16. ASSUME NEW h \in Hwnds, h # g
       PROVE  Claims(h)' <= Claims(h)
  <2>1. ~ Activated(h)'
    BY <1>3, <1>6, <1>16 DEF Activated
  <2>2. Grips(h)' => Grips(h)
    BY <1>9, <1>15 DEF Grips
  <2> QED
    BY <1>13, <2>1, <2>2 DEF Claims, One
<1>17. CASE Gripped'
  <2>1. Gripped /\ drag.hwnd # g /\ ~ batch.changed /\ g = foreground
    BY <1>14, <1>15, <1>17
  <2>2. ASSUME NEW h \in Hwnds PROVE Eases(h)
    <3>1. Standing(h)' <=> Standing(h)
      BY <1>9, <1>17, <2>1 DEF Standing
    <3>2. Grips(h)' => Grips(h)
      BY <1>9, <2>1 DEF Grips
    <3>3. Activated(h)' => Activated(h)
      BY <1>3, <1>6, <1>9, <2>1 DEF Activated
    <3> QED
      BY <1>13, <3>1, <3>2, <3>3, FewerClaims
  <2> QED
    BY <1>5, <1>7, <1>12, <2>2, LedgerEases DEF Eases
<1>18. CASE ~ Gripped'
  <2>1. Standing(g)'
    BY <1>3, <1>18 DEF Standing
  <2>2. Claims(g)' <= Claims(g) + One(~ Standing(g))
    <3>1. ~ Grips(g)'
      BY <1>18 DEF Grips
    <3>2. CASE ~ Standing(g)
      BY <1>4, <1>13, <3>1, <3>2 DEF Claims, One
    <3>3. CASE Standing(g) /\ Gripped
      <4>1. Grips(g)
        BY <3>3 DEF Standing, Grips
      <4> QED
        BY <1>4, <1>13, <3>1, <4>1 DEF Claims, One
    <3>4. CASE Standing(g) /\ ~ Gripped
      <4>1. foreground = g
        BY <3>4 DEF Standing
      <4>2. Activated(g)' => Activated(g)
        BY <1>3, <1>4, <1>6, <1>9, <1>10, <4>1 DEF Activated
      <4> QED
        BY <1>4, <1>13, <3>1, <4>2 DEF Claims, One
    <3> QED
      BY <3>2, <3>3, <3>4
  <2>3. 1 \in Nat /\ 1 <= 1
    OBVIOUS
  <2> QED
    BY <1>5, <1>7, <1>8, <1>12, <1>16, <2>1, <2>2, <2>3, LedgerMarks
<1> QED
  BY <1>17, <1>18

(* A drag starts, whether a snapshot shows the window or not. *)
LEMMA DragStarts ==
  ASSUME Inv, Noted, CreditType, NEW g \in Hwnds,
         pc = "events", batch.events # <<>>,
         g = Head(batch.events).hwnd, Head(batch.events).type = "MoveSizeStart",
         NEW k \in Nat, 1 <= k, Without(Coming, Coming', k), Coming[1] = Head(batch.events),
         drag'.hwnd = g, drag'.activated => Preceded(g),
         UNCHANGED <<foreground, front, credit>>, ~ pending'.on, ~ batch'.place,
         batch'.changed => batch'.fg = batch.fg /\ Preceded(g)
  PROVE  \A h \in Hwnds : Ledger(h) => Ledger(h)'
<1>1. batch.fg \in {None, foreground} /\ g # None
  BY NoneApart DEF Noted
<1>2. Preceded(g) => foreground = g /\ batch.fg = g /\ batch.changed
  BY <1>1 DEF Preceded
<1>3. Gripped' <=> g # foreground
  BY <1>1, <1>2 DEF Gripped
<1>4. \A h \in Hwnds : ~ Placing(h)' /\ (Standing(h)' <=> h = g)
  BY <1>3 DEF Placing, Standing
<1>5. \A h \in Hwnds : Activated(h)' => h = g /\ Preceded(g)
  BY <1>2 DEF Activated
<1>6. \A h \in Hwnds : Grips(h)' => h = g /\ g # foreground
  BY <1>3 DEF Grips
<1>7. Marks(Coming[1]) /\ Coming[1].hwnd = g
  BY DEF Marks
<1>8. ASSUME NEW h \in Hwnds, h # g
      PROVE  Claims(h)' <= Claims(h)
  <2>1. ~ Placing(h)' /\ ~ Activated(h)' /\ ~ Grips(h)'
    BY <1>4, <1>5, <1>6, <1>8
  <2> QED
    BY <2>1 DEF Claims, One
<1>9. Claims(g)' <= Claims(g) + One(~ Standing(g))
  <2>1. ~ Placing(g)' /\ (Activated(g)' => Preceded(g)) /\ (Grips(g)' => g # foreground)
    BY <1>4, <1>5, <1>6
  <2>2. Preceded(g) => Activated(g)
    BY <1>2 DEF Activated
  <2>3. g # foreground /\ Standing(g) => Grips(g)
    BY DEF Standing, Grips
  <2> QED
    BY <1>2, <2>1, <2>2, <2>3 DEF Claims, One
<1>10. Standing(g)'
  BY <1>4
<1> QED
  BY <1>7, <1>8, <1>9, <1>10, LedgerMarks

LEMMA MoveSizeStartLedger ==
  ASSUME Inv, Noted, CreditType, MoveSizeStart
  PROVE  Noted' /\ \A h \in Hwnds : Ledger(h) => Ledger(h)'
<1>1. Handle("MoveSizeStart")
  BY Zenon DEF MoveSizeStart
<1>2. PICK g \in Hwnds : g = Head(batch.events).hwnd
  BY <1>1, HandleType
<1>3. /\ StartsDrag(g)
      /\ drag' = [hwnd |-> g, rect |-> IF Present(desk, g) THEN desk[g].rect ELSE None,
                  activated |-> Preceded(g), moved |-> FALSE]
      /\ batch' = IF Preceded(g) /\ batch.suppress
                    THEN [Rest EXCEPT !.ended = None]
                    ELSE [Rest EXCEPT !.ended = None, !.fg = None, !.changed = FALSE,
                                      !.suppress = FALSE]
      /\ UNCHANGED <<outside, foreground, pc, plan, credit>>
  BY <1>2, Zenon DEF MoveSizeStart
<1>4. pc = "events" /\ batch.events # <<>> /\ Head(batch.events).type = "MoveSizeStart"
  BY <1>1 DEF Handle
<1>5. inbox' = inbox /\ front' = front /\ pc' = "events" /\ plan' = plan
  BY <1>3, <1>4 DEF outside, world, queue
<1>6. drag'.hwnd = g /\ (drag'.activated => Preceded(g))
  BY <1>3
<1>7. ~ pending'.on /\ active' = g
  BY <1>3 DEF StartsDrag, NoPending
<1>8. /\ batch'.events = Tail(batch.events) /\ batch'.place = batch.place
      /\ batch'.fg \in {None, batch.fg}
      /\ batch'.changed => batch'.fg = batch.fg /\ Preceded(g)
  <2>1. batch \in BatchRecord
    BY DEF Inv, Types, LocalsOK
  <2>2. CASE Preceded(g) /\ batch.suppress
    <3>1. batch' = [Rest EXCEPT !.ended = None]
      BY <1>3, <2>2
    <3> QED
      BY <1>4, <2>2, <3>1, RestFields
  <2>3. CASE ~ (Preceded(g) /\ batch.suppress)
    <3>1. batch' = [Rest EXCEPT !.ended = None, !.fg = None, !.changed = FALSE,
                                !.suppress = FALSE]
      BY <1>3, <2>3
    <3> QED
      BY <2>1, <3>1 DEF Rest, BatchRecord
  <2> QED
    BY <2>2, <2>3
<1>9. ~ batch.place
  BY <1>4 DEF Noted
<1>10. Noted'
  BY <1>2, <1>3, <1>4, <1>5, <1>8, <1>9, NoneApart DEF Noted, Preceded
<1>11. Without(Coming, Coming', 1) /\ Coming[1] = Head(batch.events)
  BY <1>4, <1>5, <1>8, WithoutOne
<1>12. 1 \in Nat /\ 1 <= 1
  OBVIOUS
<1>13. UNCHANGED <<foreground, front, credit>>
  BY <1>3, <1>5
<1> QED
  BY <1>2, <1>4, <1>6, <1>7, <1>8, <1>9, <1>10, <1>11, <1>12, <1>13, DragStarts

LEMMA MoveSizeStartBlindLedger ==
  ASSUME Inv, Noted, CreditType, MoveSizeStartBlind
  PROVE  Noted' /\ \A h \in Hwnds : Ledger(h) => Ledger(h)'
<1>1. Handle("MoveSizeStart")
  BY Zenon DEF MoveSizeStartBlind
<1>2. PICK g \in Hwnds : g = Head(batch.events).hwnd
  BY <1>1, HandleType
<1>3. /\ StartsDrag(g) /\ EndBatch
      /\ drag' = [hwnd |-> g, rect |-> None, activated |-> Preceded(g), moved |-> FALSE]
      /\ UNCHANGED <<world, queue, foreground, plan, credit>>
  BY <1>2, Zenon DEF MoveSizeStartBlind
<1>4. pc = "events" /\ batch.events # <<>> /\ Head(batch.events).type = "MoveSizeStart"
  BY <1>1 DEF Handle
<1>5. inbox' = inbox /\ front' = front
  BY <1>3 DEF world, queue
<1>6. drag'.hwnd = g /\ (drag'.activated => Preceded(g))
  BY <1>3
<1>7. ~ pending'.on
  BY <1>3 DEF StartsDrag, NoPending
<1>8. /\ pc' = "idle" /\ batch'.events = <<>> /\ batch'.fg = None
      /\ ~ batch'.changed /\ ~ batch'.place
  BY <1>3, EndBatchFields
<1>9. Noted'
  BY <1>8 DEF Noted
<1>10. /\ Without(Coming, Coming', Len(batch.events)) /\ Len(batch.events) \in Nat
       /\ 1 <= Len(batch.events) /\ Coming[1] = Head(batch.events)
  BY <1>4, <1>5, <1>8, WithoutBatch, ComingType
<1>11. PICK k \in Nat : k = Len(batch.events)
  BY <1>10
<1>12. UNCHANGED <<foreground, front, credit>>
  BY <1>3, <1>5
<1>13. Without(Coming, Coming', k) /\ 1 <= k /\ Coming[1] = Head(batch.events)
  BY <1>10, <1>11
<1> QED
  BY <1>2, <1>4, <1>6, <1>7, <1>8, <1>9, <1>12, <1>13, DragStarts

LEMMA NothingHandled ==
  ASSUME Inv, CreditType, batch.events = <<>>, batch'.events = <<>>,
         UNCHANGED <<inbox, front, credit>>, \A h \in Hwnds : Eases(h)
  PROVE  \A h \in Hwnds : Ledger(h) => Ledger(h)'
<1>1. Coming' = Coming
  BY DEF Coming
<1>2. Without(Coming, Coming', 0) /\ 0 \in Nat
  BY <1>1, WithoutNothing
<1> QED
  BY <1>2, LedgerEases DEF Eases

LEMMA OutsideLeaves ==
  ASSUME UNCHANGED <<world, queue>>, UNCHANGED notes
  PROVE  UNCHANGED <<inbox, front, credit>>
BY DEF world, queue, notes

LEMMA BeginBatchLedger ==
  ASSUME Inv, Noted, CreditType, NEW dt, NEW timer, BeginBatch(dt, timer)
  PROVE  Noted' /\ \A h \in Hwnds : Ledger(h) => Ledger(h)'
<1>1. /\ pc = "idle" /\ pc' = "events" /\ inbox' = <<>>
      /\ batch' = [NoBatch EXCEPT !.events = inbox, !.full = timer \/ lost]
      /\ UNCHANGED <<drag, foreground, active, pending, plan>>
      /\ UNCHANGED world /\ UNCHANGED notes
  BY Zenon DEF BeginBatch, Waits, focus
<1>2. batch = NoBatch
  BY <1>1 DEF Inv, Types, LocalsOK
<1>3. /\ batch.events = <<>> /\ ~ batch.changed /\ ~ batch.place
      /\ batch'.events = inbox /\ batch'.fg = None /\ ~ batch'.changed /\ ~ batch'.place
  BY <1>1, <1>2 DEF NoBatch
<1>4. Noted'
  BY <1>1, <1>3 DEF Noted
<1>5. ASSUME NEW h \in Hwnds PROVE Eases(h)
  <2>1. Placing(h)' => Placing(h)
    BY <1>1, <1>3 DEF Placing
  <2> QED
    BY <1>1, <1>3, <2>1, SteadyEases
<1>6. Coming' = Coming
  BY <1>1, <1>3, ComingTaken
<1>7. Without(Coming, Coming', 0) /\ 0 \in Nat
  BY <1>6, WithoutNothing
<1>8. front' = front /\ credit' = credit
  BY <1>1 DEF world, notes
<1> QED
  BY <1>4, <1>5, <1>7, <1>8, LedgerEases DEF Eases

(* The window in hand is let go without being laid out. *)
LEMMA LetGoEases ==
  ASSUME NEW h, drag' = NoDrag, foreground' = foreground, pc' # "events", ~ Placing(h)'
  PROVE  Eases(h)
<1>1. drag'.hwnd = None
  BY NothingQueued
<1>2. ~ Grips(h)' /\ ~ Gripped'
  BY <1>1 DEF Grips, Gripped
<1>3. ~ Activated(h)'
  BY DEF Activated, NoDrag
<1>4. Standing(h) /\ ~ Standing(h)' => Grips(h)
  BY <1>2 DEF Standing, Grips
<1> QED
  BY <1>2, <1>3, <1>4 DEF Eases, Claims, One

LEMMA DisabledBatchLedger ==
  ASSUME Inv, Noted, CreditType, NEW dt, NEW timer, DisabledBatch(dt, timer)
  PROVE  Noted' /\ \A h \in Hwnds : Ledger(h) => Ledger(h)'
<1>1. /\ pc = "idle" /\ pc' = pc /\ inbox' = <<>> /\ batch' = batch /\ plan' = plan
      /\ pending' = NoPending /\ drag' = NoDrag /\ UNCHANGED <<active, foreground>>
      /\ UNCHANGED world /\ UNCHANGED notes
  BY Zenon DEF DisabledBatch, Waits
<1>2. batch = NoBatch
  BY <1>1 DEF Inv, Types, LocalsOK
<1>3. batch.events = <<>> /\ ~ batch.changed /\ ~ batch.place
  BY <1>2 DEF NoBatch
<1>4. Noted'
  BY <1>1, <1>3 DEF Noted
<1>5. ASSUME NEW h \in Hwnds PROVE Eases(h)
  <2>1. ~ Placing(h)'
    BY <1>1, <1>3, NothingQueued DEF Placing
  <2> QED
    BY <1>1, <2>1, LetGoEases
<1>6. Without(Coming, Coming', Len(Coming)) /\ Len(Coming) \in Nat
  BY <1>1, <1>3, WithoutAll, ComingType
<1>7. PICK k \in Nat : Without(Coming, Coming', k)
  BY <1>6
<1>8. front' = front /\ credit' = credit
  BY <1>1 DEF world, notes
<1> QED
  BY <1>4, <1>5, <1>7, <1>8, LedgerEases DEF Eases

-----------------------------------------------------------------------------
(* The decisions                                                           *)

LEMMA SuppressLedger ==
  ASSUME Inv, Noted, CreditType, Suppress
  PROVE  Noted' /\ \A h \in Hwnds : Ledger(h) => Ledger(h)'
<1>1. /\ batch.events = <<>> /\ pending' = NoPending /\ drag' = NoDrag /\ EndBatch
      /\ UNCHANGED <<world, queue>> /\ UNCHANGED notes /\ foreground' = foreground
  BY Zenon DEF Suppress, Folded, outside
<1>2. /\ pc' = "idle" /\ batch'.events = <<>> /\ ~ batch'.changed /\ ~ batch'.place
  BY <1>1, EndBatchFields
<1>3. Noted'
  BY <1>2 DEF Noted
<1>4. ASSUME NEW h \in Hwnds PROVE Eases(h)
  <2>1. ~ Placing(h)'
    BY <1>1, <1>2, NothingQueued DEF Placing
  <2> QED
    BY <1>1, <1>2, <2>1, LetGoEases
<1> QED
  BY <1>1, <1>2, <1>3, <1>4, OutsideLeaves, NothingHandled

LEMMA BeginSwitchLedger ==
  ASSUME Inv, Noted, CreditType, BeginSwitch
  PROVE  Noted' /\ \A h \in Hwnds : Ledger(h) => Ledger(h)'
<1>1. /\ pc = "events" /\ batch.events = <<>> /\ drag' = NoDrag
      /\ active' = batch.fg /\ pending' = [on |-> TRUE, place |-> PlaceActivated]
      /\ pc' = "switch" /\ batch' = batch /\ plan' = plan /\ foreground' = foreground
      /\ UNCHANGED <<world, queue>> /\ UNCHANGED notes
      /\ batch.fg # None /\ batch.changed
  BY Zenon DEF BeginSwitch, Folded, Switches, outside
<1>2. batch.fg = foreground /\ ~ batch.place
  BY <1>1 DEF Noted
<1>3. Noted'
  BY <1>1, <1>2 DEF Noted
<1>4. ASSUME NEW h \in Hwnds PROVE Eases(h)
  <2>1. drag'.hwnd = None
    BY <1>1, NothingQueued
  <2>2. ~ Gripped' /\ ~ Gripped
    BY <1>1, <2>1 DEF Gripped
  <2>3. Standing(h) => Standing(h)'
    BY <1>1, <2>2 DEF Standing
  <2>4. ~ Grips(h)'
    BY <2>2 DEF Grips
  <2>5. ~ Activated(h)'
    BY <1>1 DEF Activated, NoDrag
  <2>6. Placing(h)' => Activated(h)
    BY <1>1, <1>2 DEF Placing, Activated
  <2> QED
    BY <2>3, <2>4, <2>5, <2>6 DEF Eases, Claims, One
<1> QED
  BY <1>1, <1>3, <1>4, OutsideLeaves, NothingHandled

(* A decision that leaves the window in hand and the foreground alone. *)
LEMMA NothingDecidedLedger ==
  ASSUME Inv, Noted, CreditType, Folded, ~ Suppresses, ~ Switches,
         UNCHANGED <<drag, foreground, active, pending>>, plan' = plan,
         UNCHANGED <<inbox, front, credit>>,
         \/ EndBatch
         \/ /\ pc' = "settle" /\ batch'.events = <<>>
            /\ batch'.place => pending.on /\ pending.place
  PROVE  Noted' /\ \A h \in Hwnds : Ledger(h) => Ledger(h)'
<1>1. pc = "events" /\ batch.events = <<>>
  BY DEF Folded
<1>2. pc' # "events" /\ batch'.events = <<>>
      /\ (batch'.place => pc' = "settle" /\ pending.on /\ pending.place)
      /\ pc' \in {"idle", "settle"}
  BY EndBatchFields
<1>3. batch.changed => drag.hwnd = foreground
  BY <1>1 DEF Noted, Suppresses, Switches
<1>4. Noted'
  BY <1>2 DEF Noted
<1>5. ASSUME NEW h \in Hwnds PROVE Eases(h)
  <2>1. Placing(h)' => Placing(h)
    BY <1>2 DEF Placing
  <2> QED
    BY <1>1, <1>2, <1>3, <2>1, SteadyEases
<1> QED
  BY <1>1, <1>2, <1>4, <1>5, NothingHandled

(* A drag ends: it is laid out if it began with an activation. *)
LEMMA DragEnds ==
  ASSUME Inv, Noted, CreditType, Folded, ~ Suppresses, ~ Switches,
         batch.ended # None, batch.ended = drag.hwnd,
         foreground' = batch.ended, drag' = NoDrag, active' = active, pending' = pending,
         UNCHANGED <<inbox, front, credit>>, pc' \in {"settle", "idle"},
         batch'.events = <<>>, batch'.place => pc' = "settle" /\ drag.activated /\ ~ drag.moved
  PROVE  Noted' /\ \A h \in Hwnds : Ledger(h) => Ledger(h)'
<1>1. pc = "events" /\ batch.events = <<>>
  BY DEF Folded
<1>2. Noted'
  BY DEF Noted
<1>3. batch.changed => drag.hwnd = foreground
  BY <1>1 DEF Noted, Suppresses, Switches
<1>4. drag.hwnd = active /\ ~ pending.on
  <2>1. drag # NoDrag
    BY NothingQueued
  <2> QED
    BY <2>1 DEF Inv, StageInv, QueuedWorkYields
<1>5. drag'.hwnd = None
  BY NothingQueued
<1>6. ASSUME NEW h \in Hwnds PROVE Eases(h)
  <2>1. ~ Gripped' /\ ~ Grips(h)'
    BY <1>5 DEF Gripped, Grips
  <2>2. ~ Activated(h)'
    BY DEF Activated, NoDrag
  <2>3. Standing(h)' <=> drag.hwnd = h
    BY <2>1 DEF Standing
  <2>4. Standing(h) => Standing(h)'
    BY <1>3, <2>3 DEF Standing, Gripped
  <2>5. Placing(h)' => h = drag.hwnd /\ drag.activated /\ ~ drag.moved
    BY <1>4 DEF Placing
  <2>6. Placing(h)' => Grips(h) \/ Activated(h)
    BY <1>3, <2>5 DEF Grips, Gripped, Activated
  <2> QED
    BY <2>1, <2>2, <2>4, <2>6 DEF Eases, Claims, One
<1> QED
  BY <1>1, <1>2, <1>6, NothingHandled

LEMMA FoldedBatch ==
  ASSUME Inv, Folded
  PROVE  batch \in BatchRecord /\ batch.events = <<>>
BY DEF Folded, Inv, Types, LocalsOK

LEMMA EndDragLedger ==
  ASSUME Inv, Noted, CreditType, EndManualDrag \/ EndDrag
  PROVE  Noted' /\ \A h \in Hwnds : Ledger(h) => Ledger(h)'
<1>1. /\ Folded /\ ~ Suppresses /\ ~ Switches
      /\ batch.ended # None /\ batch.ended = drag.hwnd
      /\ foreground' = batch.ended /\ drag' = NoDrag /\ active' = active
      /\ UNCHANGED work /\ UNCHANGED outside /\ UNCHANGED notes
  BY Zenon DEF EndManualDrag, EndDrag, EndsDrag
<1>2. pending' = pending /\ UNCHANGED <<inbox, front, credit>>
  BY <1>1, OutsideLeaves DEF work, outside
<1>3. /\ pc' \in {"settle", "idle"} /\ batch'.events = <<>>
      /\ batch'.place => pc' = "settle" /\ drag.activated /\ ~ drag.moved
  <2>1. CASE EndManualDrag
    BY <2>1, EndBatchFields DEF EndManualDrag
  <2>2. CASE EndDrag
    <3> DEFINE p == drag.activated /\ ~ drag.moved /\ PlaceActivated
    <3>1. pc' = "settle" /\ batch' = [batch EXCEPT !.place = p, !.rect = drag.rect, !.cause = "drag"]
      BY <2>2, Zenon DEF EndDrag
    <3> HIDE DEF p
    <3>2. batch'.events = <<>> /\ batch'.place = p
      BY <1>1, <3>1, FoldedBatch DEF BatchRecord
    <3> QED
      BY <3>1, <3>2 DEF p
  <2> QED
    BY <2>1, <2>2
<1> QED
  BY <1>1, <1>2, <1>3, DragEnds

LEMMA ReconcileLedger ==
  ASSUME Inv, Noted, CreditType,
         ReconcileFails \/ ReconcilePending \/ ReconcileRetry \/ ReconcilePlain
           \/ ReconcileIdle \/ NothingToDo
  PROVE  Noted' /\ \A h \in Hwnds : Ledger(h) => Ledger(h)'
<1>1. /\ Folded /\ ~ Suppresses /\ ~ Switches
      /\ UNCHANGED <<drag, foreground, active, pending>> /\ plan' = plan
      /\ UNCHANGED <<world, queue>> /\ credit' = credit
  BY Zenon DEF ReconcileFails, ReconcilePending, ReconcileRetry, ReconcilePlain, ReconcileIdle,
     NothingToDo, Reconciles, focus, work, outside, notes
<1>2. UNCHANGED <<inbox, front, credit>>
  BY <1>1 DEF world, queue
<1>3. ~ batch.place
  BY <1>1 DEF Noted, Folded
<1>4. \/ EndBatch
      \/ pc' = "settle" /\ batch'.events = <<>> /\ (batch'.place => pending.on /\ pending.place)
  <2>1. CASE ReconcileFails \/ ReconcileIdle \/ NothingToDo
    BY <2>1, Zenon DEF ReconcileFails, ReconcileIdle, NothingToDo
  <2>2. CASE ReconcilePending
    <3>1. /\ pc' = "settle" /\ pending.on
          /\ batch' = [[batch EXCEPT !.snap = desk] EXCEPT !.place = pending.place,
                                                           !.cause = "pending"]
      BY <2>2, Zenon DEF ReconcilePending, SettlesPending, Stands
    <3>2. batch'.events = <<>> /\ batch'.place = pending.place
      BY <1>1, <3>1, FoldedBatch DEF BatchRecord
    <3> QED
      BY <3>1, <3>2
  <2>3. CASE ReconcileRetry \/ ReconcilePlain
    <3>1. pc' = "settle" /\ \E c : batch' = [[batch EXCEPT !.snap = desk] EXCEPT !.cause = c]
      BY <2>3, Zenon DEF ReconcileRetry, ReconcilePlain, Stands
    <3>2. batch'.events = <<>> /\ batch'.place = batch.place
      BY <1>1, <3>1, FoldedBatch DEF BatchRecord
    <3> QED
      BY <1>3, <3>1, <3>2
  <2> QED
    BY <2>1, <2>2, <2>3
<1> QED
  BY <1>1, <1>2, <1>4, NothingDecidedLedger

(* A step outside the folding of events that takes nothing in hand and     *)
(* asks for no placement that was not asked for.                           *)
LEMMA LaterLedger ==
  ASSUME Inv, Noted, CreditType, pc \in {"switch", "settle", "apply"}, pc' # "events",
         UNCHANGED <<drag, foreground>>, UNCHANGED <<inbox, front, credit>>,
         batch'.events = <<>>, \A h \in Hwnds : Placing(h)' => Placing(h)
  PROVE  \A h \in Hwnds : Ledger(h) => Ledger(h)'
<1>1. batch.events = <<>>
  BY DEF Noted
<1>2. ASSUME NEW h \in Hwnds PROVE Eases(h)
  BY SteadyEases
<1> QED
  BY <1>1, <1>2, NothingHandled

LEMMA SwitchLedger ==
  ASSUME Inv, Noted, CreditType, CaptureAgain \/ SwitchLost \/ SwitchSeen
  PROVE  Noted' /\ \A h \in Hwnds : Ledger(h) => Ledger(h)'
<1>1. /\ pc = "switch" /\ UNCHANGED <<drag, foreground, active, pending>> /\ plan' = plan
      /\ UNCHANGED <<world, queue>> /\ credit' = credit
  BY Zenon DEF CaptureAgain, SwitchLost, SwitchSeen, focus, work, outside, notes
<1>2. UNCHANGED <<inbox, front, credit>>
  BY <1>1 DEF world, queue
<1>3. /\ batch \in BatchRecord /\ batch.events = <<>> /\ ~ batch.place
      /\ PlaceActivated => pending.on /\ pending.place
  BY <1>1 DEF Noted, Inv, Types, LocalsOK
<1>4. /\ pc' \in {"switch", "settle", "idle"} /\ batch'.events = <<>>
      /\ batch'.place => pc' = "settle" /\ PlaceActivated
  <2>1. CASE CaptureAgain
    <3>1. pc' = pc /\ \E s : batch' = [batch EXCEPT !.tries = @ + 1, !.snap = s]
      BY <2>1, Zenon DEF CaptureAgain
    <3>2. batch'.events = <<>> /\ batch'.place = batch.place
      BY <1>3, <3>1 DEF BatchRecord
    <3> QED
      BY <1>1, <1>3, <3>1, <3>2
  <2>2. CASE SwitchLost
    BY <2>2, EndBatchFields DEF SwitchLost
  <2>3. CASE SwitchSeen
    <3>1. pc' = "settle" /\ batch' = [batch EXCEPT !.place = PlaceActivated, !.cause = "switch"]
      BY <2>3, Zenon DEF SwitchSeen
    <3>2. batch'.events = <<>> /\ batch'.place = PlaceActivated
      BY <1>3, <3>1 DEF BatchRecord
    <3> QED
      BY <3>1, <3>2
  <2> QED
    BY <2>1, <2>2, <2>3
<1>5. Noted'
  BY <1>1, <1>3, <1>4 DEF Noted
<1>6. \A h \in Hwnds : Placing(h)' => Placing(h)
  BY <1>1, <1>3, <1>4 DEF Placing
<1> QED
  BY <1>1, <1>2, <1>4, <1>5, <1>6, LaterLedger

(* The end of a layout. *)
LEMMA SettleEndsLedger ==
  ASSUME Inv, Noted, CreditType, pc \in {"settle", "apply"}, EndBatch,
         UNCHANGED <<drag, foreground, active>>, UNCHANGED <<inbox, front, credit>>,
         pending'.on /\ pending'.place => (pending.on /\ pending.place) \/ batch.place
  PROVE  Noted' /\ \A h \in Hwnds : Ledger(h) => Ledger(h)'
<1>1. /\ pc' = "idle" /\ batch'.events = <<>> /\ ~ batch'.changed /\ ~ batch'.place
  BY EndBatchFields
<1>2. Noted'
  BY <1>1 DEF Noted
<1>3. \A h \in Hwnds : Placing(h)' => Placing(h)
  BY <1>1 DEF Placing
<1> QED
  BY <1>1, <1>2, <1>3, LaterLedger

LEMMA SettlesLedger ==
  ASSUME Inv, Noted, CreditType,
         SettleStale \/ SettleBlind \/ SettleUnavailable \/ SettleElsewhere \/ SettleUnchanged
           \/ ApplyDry \/ ApplyRefused
  PROVE  Noted' /\ \A h \in Hwnds : Ledger(h) => Ledger(h)'
<1>1. /\ pc \in {"settle", "apply"} /\ EndBatch
      /\ UNCHANGED <<drag, foreground, active>> /\ UNCHANGED <<world, queue>>
      /\ credit' = credit
  BY Zenon DEF SettleStale, SettleBlind, SettleUnavailable, SettleElsewhere, SettleUnchanged,
     ApplyDry, ApplyRefused, Settled, Ready, focus, outside, notes
<1>2. \/ pending' = pending \/ pending' = NoPending
      \/ pending' = [on |-> TRUE, place |-> batch.place]
  BY Zenon DEF SettleStale, SettleBlind, SettleUnavailable, SettleElsewhere, SettleUnchanged,
     ApplyDry, ApplyRefused
<1>3. UNCHANGED <<inbox, front, credit>>
  BY <1>1 DEF world, queue
<1>4. pending'.on /\ pending'.place => (pending.on /\ pending.place) \/ batch.place
  BY <1>2, NothingQueued
<1> QED
  BY <1>1, <1>3, <1>4, SettleEndsLedger

LEMMA SettleCaptureLedger ==
  ASSUME Inv, Noted, CreditType, SettleCapture
  PROVE  Noted' /\ \A h \in Hwnds : Ledger(h) => Ledger(h)'
<1>1. /\ pc = "settle" /\ pc' = pc /\ plan' = plan
      /\ batch' = [batch EXCEPT !.snap = desk]
      /\ UNCHANGED <<drag, foreground, active, pending>> /\ UNCHANGED <<world, queue>>
      /\ credit' = credit
  BY Zenon DEF SettleCapture, Stands, focus, work, outside, notes
<1>2. batch'.events = <<>> /\ batch'.place = batch.place
  BY <1>1 DEF Noted, Inv, Types, LocalsOK, BatchRecord
<1>3. Noted'
  BY <1>1, <1>2 DEF Noted
<1>4. \A h \in Hwnds : Placing(h)' => Placing(h)
  BY <1>1, <1>2 DEF Placing
<1>5. UNCHANGED <<inbox, front, credit>>
  BY <1>1 DEF world, queue
<1> QED
  BY <1>1, <1>2, <1>3, <1>4, <1>5, LaterLedger

(* A plan moves the active window only if that is to be placed. *)
LEMMA SettleSolvedLedger ==
  ASSUME Inv, Noted, CreditType, SettleSolved
  PROVE  Noted' /\ \A h \in Hwnds : Ledger(h) => Ledger(h)'
<1>1. /\ pc = "settle" /\ pc' = "apply" /\ batch' = batch /\ pending' = NoPending
      /\ UNCHANGED <<drag, foreground, active>> /\ UNCHANGED <<world, queue>>
      /\ credit' = credit
  BY Zenon DEF SettleSolved, Ready, focus, outside, notes
<1>2. PICK to \in Layouts :
        plan' = [wins |-> {w \in DOMAIN to : to[w] # batch.snap[w].rect}, to |-> to]
  BY Zenon DEF SettleSolved
<1>3. active \in plan'.wins => batch.place
  <2>1. to[active] \in (IF Places THEN {batch.snap[active].rect, Home}
                                  ELSE {batch.snap[active].rect})
    BY <1>2 DEF Layouts
  <2>2. active \in plan'.wins => to[active] # batch.snap[active].rect
    BY <1>2
  <2>3. active \in plan'.wins => Places
    BY <2>1, <2>2
  <2> QED
    BY <2>3, Zenon DEF Places
<1>4. batch.events = <<>>
  BY <1>1 DEF Noted
<1>5. Noted'
  BY <1>1, <1>3, <1>4 DEF Noted
<1>6. \A h \in Hwnds : Placing(h)' => Placing(h)
  BY <1>1, NothingQueued DEF Placing
<1>7. UNCHANGED <<inbox, front, credit>>
  BY <1>1 DEF world, queue
<1> QED
  BY <1>1, <1>4, <1>5, <1>6, <1>7, LaterLedger

(* The moves that land answer the activation that was to be placed.        *)
LEMMA ApplyMovesLedger ==
  ASSUME Inv, Noted, CreditType, NEW done \in SUBSET plan.wins, NEW fine \in BOOLEAN,
         ApplyMoves(done, fine)
  PROVE  Noted' /\ CreditType' /\ \A h \in Hwnds : Ledger(h) => Ledger(h)'
<1>1. /\ pc = "apply" /\ EndBatch
      /\ credit' = (IF active \in done THEN [credit EXCEPT ![active] = @ - 1] ELSE credit)
      /\ UNCHANGED <<drag, foreground, active, pending, front>>
  BY Zenon DEF ApplyMoves, Settled, focus
<1>2. PICK es \in Echoes(done) : Enqueue(es)
  BY Zenon DEF ApplyMoves
<1>3. /\ active \in Hwnds /\ ~ pending.on
      /\ DOMAIN plan.to \subseteq Hwnds /\ plan.wins \subseteq DOMAIN plan.to
  BY <1>1, Applying
<1>4. done \in SUBSET Hwnds
  BY <1>3
<1>5. es \in Seq(EventRecord)
  BY <1>4, EchoesType
<1>6. \A i \in 1..Len(es) : ~ Marks(es[i])
  <2> DEFINE n == Cardinality(done)
  <2>1. n \in Nat
    <3>1. IsFiniteSet(Hwnds)
      BY Zenon, ConstantsAssumption
    <3> QED
      BY <1>4, <3>1, FS_Subset, FS_CardinalityType
  <2>2. PICK f \in [1..n -> done] : es = [k \in 1..n |-> Evt("LocationChange", f[k])]
    BY DEF Echoes
  <2> HIDE DEF n
  <2>3. Len(es) = n
    BY <1>5, <2>1, <2>2, LenProperties
  <2>4. \A i \in 1..n : es[i].type = "LocationChange"
    BY <2>2 DEF Evt
  <2> QED
    BY <2>3, <2>4 DEF Marks
<1>7. /\ pc' = "idle" /\ batch'.events = <<>> /\ ~ batch'.changed /\ ~ batch'.place
  BY <1>1, EndBatchFields
<1>8. batch.events = <<>> /\ (active \in done => batch.place)
  BY <1>1 DEF Noted
<1>9. Noted'
  BY <1>7 DEF Noted
<1>10. Extended(Coming, Coming', front')
  BY <1>2, <1>5, <1>6, <1>7, <1>8, ExtendedByEnqueue
<1>11. CreditType'
  BY <1>1, <1>3 DEF CreditType
<1>12. ASSUME NEW h \in Hwnds, Ledger(h)
       PROVE  Ledger(h)'
  <2>1. Gripped' <=> Gripped
    BY <1>1, <1>7 DEF Gripped
  <2>2. Standing(h)' = Standing(h)
    BY <1>1, <2>1 DEF Standing
  <2>3. Grips(h)' => Grips(h)
    BY <1>1, <2>1 DEF Grips
  <2>4. Activated(h)' => Activated(h)
    BY <1>1, <1>7 DEF Activated
  <2>5. ~ Placing(h)'
    BY <1>1, <1>3, <1>7 DEF Placing
  <2>6. credit[h] \in Int /\ credit'[h] \in Int
    BY <1>11 DEF CreditType
  <2>7. Claims(h)' + credit[h] + 0 <= Claims(h) + credit'[h]
    <3>1. CASE active \in done /\ h = active
      <4>1. credit'[h] = credit[h] - 1
        BY <1>1, <1>3, <3>1 DEF CreditType
      <4>2. Placing(h)
        BY <1>8, <3>1 DEF Placing
      <4> QED
        BY <2>3, <2>4, <2>5, <2>6, <4>1, <4>2 DEF Claims, One
    <3>2. CASE ~ (active \in done /\ h = active)
      <4>1. credit'[h] = credit[h]
        BY <1>1, <1>3, <3>2 DEF CreditType
      <4> QED
        BY <2>3, <2>4, <2>5, <2>6, <4>1 DEF Claims, One
    <3> QED
      BY <3>1, <3>2
  <2>8. 0 \in {0, 1} /\ ~ (front' = h /\ front # h)
    BY <1>1
  <2> QED
    BY <1>10, <1>12, <2>2, <2>6, <2>7, <2>8, LedgerGrows
<1> QED
  BY <1>9, <1>11, <1>12

LEMMA ThreadLedger ==
  ASSUME Inv, Noted, CreditType, \A h \in Hwnds : Ledger(h), Thread
  PROVE  Noted' /\ CreditType' /\ \A h \in Hwnds : Ledger(h)'
<1>1. ASSUME NEW dt, NEW timer, BeginBatch(dt, timer) \/ DisabledBatch(dt, timer)
      PROVE  credit' = credit
  BY <1>1, Zenon DEF BeginBatch, DisabledBatch, notes
<1>2. ASSUME NEW dt, NEW timer, BeginBatch(dt, timer) \/ DisabledBatch(dt, timer)
      PROVE  Noted' /\ CreditType' /\ \A h \in Hwnds : Ledger(h)'
  BY <1>1, <1>2, BeginBatchLedger, DisabledBatchLedger DEF CreditType
<1>3. CASE HandleEvent
  <2>1. QuietEvents \/ MoveSizeStart \/ MoveSizeStartBlind \/ Foreground
    BY <1>3, Zenon DEF HandleEvent, QuietEvents
  <2>2. credit' = credit
    <3>1. QuietEvents => credit' = credit
      BY QuietStep
    <3>2. MoveSizeStart \/ MoveSizeStartBlind \/ Foreground => credit' = credit
      BY Zenon DEF MoveSizeStart, MoveSizeStartBlind, Foreground, notes
    <3> QED
      BY <2>1, <3>1, <3>2
  <2> QED
    BY <2>1, <2>2, QuietLedger, MoveSizeStartLedger, MoveSizeStartBlindLedger, ForegroundLedger
       DEF CreditType
<1>4. CASE Decide
  <2>1. credit' = credit
    BY <1>4, Zenon DEF Decide, Suppress, BeginSwitch, CaptureAgain, SwitchLost, SwitchSeen,
       EndManualDrag, EndDrag, ReconcileFails, ReconcilePending, ReconcileRetry,
       ReconcilePlain, ReconcileIdle, NothingToDo, notes
  <2>2. Noted' /\ \A h \in Hwnds : Ledger(h)'
    BY <1>4, SuppressLedger, BeginSwitchLedger, SwitchLedger, EndDragLedger, ReconcileLedger,
       Zenon DEF Decide
  <2> QED
    BY <2>1, <2>2 DEF CreditType
<1>5. CASE Settle \/ ApplyDry \/ ApplyRefused
  <2>1. credit' = credit
    BY <1>5, Zenon DEF Settle, SettleCapture, SettleStale, SettleBlind, SettleUnavailable,
       SettleElsewhere, SettleUnchanged, SettleSolved, ApplyDry, ApplyRefused, notes
  <2>2. Noted' /\ \A h \in Hwnds : Ledger(h)'
    BY <1>5, SettlesLedger, SettleCaptureLedger, SettleSolvedLedger, Zenon DEF Settle
  <2> QED
    BY <2>1, <2>2 DEF CreditType
<1>6. ASSUME NEW done \in SUBSET plan.wins, NEW fine \in BOOLEAN, ApplyMoves(done, fine)
      PROVE  Noted' /\ CreditType' /\ \A h \in Hwnds : Ledger(h)'
  BY <1>6, ApplyMovesLedger
<1> QED
  BY <1>2, <1>3, <1>4, <1>5, <1>6, Zenon DEF Thread, Apply

-----------------------------------------------------------------------------
(* The desktop                                                             *)

LEMMA ExtendedByNothing ==
  ASSUME Inv, UNCHANGED <<batch, inbox>>, NEW later
  PROVE  Extended(Coming, Coming', later)
<1> DEFINE s == Coming
<1>1. Len(s) \in Nat
  BY ComingType
<1> HIDE DEF s
<1>2. \A i \in Len(s) + 1 .. Len(s) : FALSE
  BY <1>1
<1>3. Extended(s, s, later)
  BY <1>1, <1>2 DEF Extended
<1>4. Coming' = Coming
  BY DEF Coming
<1> QED
  BY <1>3, <1>4 DEF s

(* What the desktop does is an activation of the window it takes to the    *)
(* front, and of no other.                                                 *)
LEMMA DesktopLedger ==
  ASSUME Inv, Noted, CreditType, \A h \in Hwnds : Ledger(h), UNCHANGED Aside,
         Extended(Coming, Coming', front'),
         credit' = IF front' = front \/ front' = None
                     THEN credit ELSE [credit EXCEPT ![front'] = @ + 1]
  PROVE  Noted' /\ CreditType' /\ \A h \in Hwnds : Ledger(h)'
<1>1. /\ active' = active /\ foreground' = foreground /\ pending' = pending /\ drag' = drag
      /\ pc' = pc /\ batch' = batch /\ plan' = plan
  BY DEF Aside, focus, work
<1>2. Noted'
  BY <1>1 DEF Noted
<1>3. CreditType'
  <2>1. ASSUME NEW g PROVE [credit EXCEPT ![g] = @ + 1] \in [Hwnds -> Int]
    <3>1. credit \in [Hwnds -> Int]
      BY DEF CreditType
    <3>2. CASE g \in Hwnds
      <4>1. credit[g] + 1 \in Int
        BY <3>1, <3>2
      <4> QED
        BY <3>1, <3>2, <4>1
    <3>3. CASE g \notin Hwnds
      <4>1. [credit EXCEPT ![g] = @ + 1] = credit
        BY <3>1, <3>3
      <4> QED
        BY <3>1, <4>1
    <3> QED
      BY <3>2, <3>3
  <2>2. credit' = credit \/ credit' = [credit EXCEPT ![front'] = @ + 1]
    OBVIOUS
  <2> QED
    BY <2>1, <2>2, Zenon DEF CreditType
<1>4. ASSUME NEW h \in Hwnds
      PROVE  Ledger(h)'
  <2>1. Standing(h)' = Standing(h) /\ Claims(h)' = Claims(h)
    BY <1>1 DEF Standing, Claims, Gripped, Grips, Activated, Placing, One
  <2>2. PICK d \in {0, 1} : d = IF front' = h /\ front # h THEN 1 ELSE 0
    OBVIOUS
  <2>3. h # None /\ credit[h] \in Int /\ credit'[h] \in Int
    BY <1>3, NoneApart DEF CreditType
  <2>4. credit'[h] = credit[h] + d
    BY <2>2, <2>3 DEF CreditType
  <2>5. Claims(h)' + credit[h] + d <= Claims(h) + credit'[h]
    BY <2>1, <2>3, <2>4, ClaimsNat
  <2> QED
    BY <2>1, <2>2, <2>3, <2>5, LedgerGrows
<1> QED
  BY <1>2, <1>3, <1>4

LEMMA NoMarks ==
  ASSUME Inv, NEW type \in EventTypes \ {"Foreground", "MoveSizeStart"}, NEW h \in Hwnds,
         UNCHANGED batch, Enqueue(<<Evt(type, h)>>) \/ UNCHANGED queue, NEW later
  PROVE  Extended(Coming, Coming', later)
<1>1. CASE Enqueue(<<Evt(type, h)>>)
  <2>1. <<Evt(type, h)>> \in Seq(EventRecord) /\ Len(<<Evt(type, h)>>) = 1
    BY EvtType
  <2>2. \A i \in 1..Len(<<Evt(type, h)>>) : ~ Marks(<<Evt(type, h)>>[i])
    BY <2>1 DEF Marks, Evt
  <2> QED
    BY <1>1, <2>1, <2>2, ExtendedByEnqueue
<1>2. CASE UNCHANGED queue
  BY <1>2, ExtendedByNothing DEF queue
<1> QED
  BY <1>1, <1>2

(* The marks of one window. *)
LEMMA MarksOf ==
  ASSUME Inv, NEW h \in Hwnds, UNCHANGED batch, NEW es \in Seq(EventRecord), Enqueue(es),
         \A i \in 1..Len(es) : es[i].hwnd = h
  PROVE  Extended(Coming, Coming', h)
BY ExtendedByEnqueue

LEMMA SwitchToLedger ==
  ASSUME Inv, Noted, CreditType, \A h \in Hwnds : Ledger(h),
         NEW h \in Hwnds, NEW right \in BOOLEAN, SwitchTo(h, right)
  PROVE  Noted' /\ CreditType' /\ \A g \in Hwnds : Ledger(g)'
<1> DEFINE e == [type |-> "Foreground", hwnd |-> h, suppress |-> right]
<1>1. /\ front' = h /\ Enqueue(<<e>>)
      /\ credit' = (IF front = h THEN credit ELSE [credit EXCEPT ![h] = @ + 1])
      /\ OnDesktop(IF right THEN "right click" ELSE "switch")
  BY Zenon DEF SwitchTo
<1>2. UNCHANGED Aside
  BY <1>1, ActsAside, OnDesktopAside DEF Inv, Types, MemoryOK
<1>3. batch' = batch
  BY <1>2 DEF Aside
<1>4. e \in EventRecord /\ e.hwnd = h
  BY DEF EventRecord, EventTypes
<1> HIDE DEF e
<1>5. <<e>> \in Seq(EventRecord) /\ \A i \in 1..Len(<<e>>) : <<e>>[i].hwnd = h
  BY <1>4
<1>6. Extended(Coming, Coming', front')
  BY <1>1, <1>3, <1>5, MarksOf
<1>7. credit' = IF front' = front \/ front' = None
                  THEN credit ELSE [credit EXCEPT ![front'] = @ + 1]
  BY <1>1, NoneApart
<1> QED
  BY <1>2, <1>6, <1>7, DesktopLedger

LEMMA PressLedger ==
  ASSUME Inv, Noted, CreditType, \A h \in Hwnds : Ledger(h), NEW h \in Hwnds, Press(h)
  PROVE  Noted' /\ CreditType' /\ \A g \in Hwnds : Ledger(g)'
<1> DEFINE start == Evt("MoveSizeStart", h)
           fore == Evt("Foreground", h)
<1>1. /\ front' = h /\ OnDesktop("press")
      /\ credit' = (IF front = h THEN credit ELSE [credit EXCEPT ![h] = @ + 1])
      /\ Enqueue(<<start>>) \/ Enqueue(<<fore, start>>) \/ Enqueue(<<start, fore>>)
  BY Zenon DEF Press
<1>2. UNCHANGED Aside
  BY <1>1, ActsAside, OnDesktopAside DEF Inv, Types, MemoryOK
<1>3. batch' = batch
  BY <1>2 DEF Aside
<1>4. start \in EventRecord /\ start.hwnd = h /\ fore \in EventRecord /\ fore.hwnd = h
  BY DEF Evt, EventRecord, EventTypes
<1> HIDE DEF start, fore
<1>5. ASSUME NEW a \in {start, fore}, NEW b \in {start, fore}
      PROVE  /\ <<a>> \in Seq(EventRecord) /\ <<a, b>> \in Seq(EventRecord)
             /\ \A i \in 1..Len(<<a>>) : <<a>>[i].hwnd = h
             /\ \A i \in 1..Len(<<a, b>>) : <<a, b>>[i].hwnd = h
  BY <1>4
<1>6. Extended(Coming, Coming', front')
  BY <1>1, <1>3, <1>5, MarksOf
<1>7. credit' = IF front' = front \/ front' = None
                  THEN credit ELSE [credit EXCEPT ![front'] = @ + 1]
  BY <1>1, NoneApart
<1> QED
  BY <1>2, <1>6, <1>7, DesktopLedger

(* Everything else on the desktop marks no window. *)
LEMMA UnmarkedLedger ==
  ASSUME Inv, Noted, CreditType, \A h \in Hwnds : Ledger(h),
         NEW doing, Acts(doing), permitted' \in BOOLEAN, front' \in {front, None},
         credit' = credit,
         \/ UNCHANGED queue
         \/ \E type \in EventTypes \ {"Foreground", "MoveSizeStart"}, h \in Hwnds :
              Enqueue(<<Evt(type, h)>>)
  PROVE  Noted' /\ CreditType' /\ \A g \in Hwnds : Ledger(g)'
<1>1. UNCHANGED Aside
  BY ActsAside
<1>2. batch' = batch
  BY <1>1 DEF Aside
<1>3. Extended(Coming, Coming', front')
  <2>1. CASE UNCHANGED queue
    BY <1>2, <2>1, ExtendedByNothing DEF queue
  <2>2. CASE \E type \in EventTypes \ {"Foreground", "MoveSizeStart"}, h \in Hwnds :
               Enqueue(<<Evt(type, h)>>)
    BY <1>2, <2>2, NoMarks
  <2> QED
    BY <2>1, <2>2
<1> QED
  BY <1>1, <1>3, DesktopLedger

LEMMA OutsideLedger ==
  ASSUME Inv, Noted, CreditType, \A h \in Hwnds : Ledger(h), User \/ Programs
  PROVE  Noted' /\ CreditType' /\ \A g \in Hwnds : Ledger(g)'
<1> DEFINE types == EventTypes \ {"Foreground", "MoveSizeStart"}
<1>1. {"LocationChange", "MoveSizeEnd", "Show", "Destroy"} \subseteq types
  BY DEF EventTypes
<1> HIDE DEF types
<1>2. permitted \in BOOLEAN /\ held \in Hwnds \cup {None}
  BY DEF Inv, Types, MemoryOK, WorldOK, DesktopOK
<1>3. ASSUME NEW doing, Acts(doing), permitted' = permitted \/ permitted' = FALSE,
             front' = front \/ front' = None, credit' = credit,
             \/ UNCHANGED queue
             \/ \E type \in types, h \in Hwnds : Enqueue(<<Evt(type, h)>>)
      PROVE  Noted' /\ CreditType' /\ \A g \in Hwnds : Ledger(g)'
  BY <1>2, <1>3, UnmarkedLedger DEF types
<1>4. ASSUME NEW r \in Rects, NEW m \in Monitors, DragTo(r, m)
      PROVE  Noted' /\ CreditType' /\ \A g \in Hwnds : Ledger(g)'
  <2>1. /\ held # None /\ Acts("drag") /\ permitted' = permitted /\ front' = front
        /\ credit' = credit /\ Enqueue(<<Evt("LocationChange", held)>>)
    BY <1>4, Zenon DEF DragTo, OnDesktop
  <2> QED
    BY <1>1, <1>2, <1>3, <2>1
<1>5. CASE Release
  <2>1. /\ held # None /\ Acts("release") /\ permitted' = permitted /\ front' = front
        /\ credit' = credit /\ (Enqueue(<<Evt("MoveSizeEnd", held)>>) \/ UNCHANGED queue)
    BY <1>5, Zenon DEF Release, OnDesktop
  <2> QED
    BY <1>1, <1>2, <1>3, <2>1
<1>6. CASE Pause \/ Resume
  <2>1. /\ Acts("pause") /\ (permitted' = permitted \/ permitted' = FALSE) /\ front' = front
        /\ credit' = credit /\ UNCHANGED queue
    BY <1>6, Zenon DEF Pause, Resume
  <2> QED
    BY <1>3, <2>1
<1>7. ASSUME NEW h \in Hwnds, NEW r \in Rects, Shove(h, r)
      PROVE  Noted' /\ CreditType' /\ \A g \in Hwnds : Ledger(g)'
  <2>1. /\ Acts("shove") /\ permitted' = permitted /\ front' = front
        /\ credit' = credit /\ Enqueue(<<Evt("LocationChange", h)>>)
    BY <1>7, Zenon DEF Shove, OnDesktop
  <2> QED
    BY <1>1, <1>3, <2>1
<1>8. ASSUME NEW h \in Hwnds, NEW t \in Traits, Change(h, t) \/ Open(h, t)
      PROVE  Noted' /\ CreditType' /\ \A g \in Hwnds : Ledger(g)'
  <2>1. /\ Acts("change") \/ Acts("open")
        /\ permitted' = permitted /\ front' = front
        /\ credit' = credit /\ (Enqueue(<<Evt("Show", h)>>) \/ UNCHANGED queue)
    BY <1>8, Zenon DEF Change, Open, OnDesktop
  <2> QED
    BY <1>1, <1>3, <2>1
<1>9. ASSUME NEW h \in Hwnds, Close(h)
      PROVE  Noted' /\ CreditType' /\ \A g \in Hwnds : Ledger(g)'
  <2>1. /\ Acts("close") /\ permitted' = permitted /\ (front' = front \/ front' = None)
        /\ credit' = credit /\ Enqueue(<<Evt("Destroy", h)>>)
    BY <1>9, Zenon DEF Close, OnDesktop
  <2> QED
    BY <1>1, <1>3, <2>1
<1> QED
  BY <1>4, <1>5, <1>6, <1>7, <1>8, <1>9, SwitchToLedger, PressLedger, Zenon DEF User, Programs

CreditInv == Noted /\ CreditType /\ \A h \in Hwnds : Ledger(h)

LEMMA InitCredit == Init => CreditInv
<1> SUFFICES ASSUME Init PROVE CreditInv
  OBVIOUS
<1>1. /\ pc = "idle" /\ batch = NoBatch /\ plan = NoPlan /\ inbox = <<>> /\ front = None
      /\ foreground = None /\ active = None /\ drag = NoDrag /\ pending = NoPending
      /\ credit = [h \in Hwnds |-> 0]
  BY DEF Init
<1>2. batch.events = <<>> /\ ~ batch.changed /\ ~ batch.place
  BY <1>1 DEF NoBatch
<1>3. Noted
  BY <1>1, <1>2 DEF Noted
<1>4. CreditType
  BY <1>1 DEF CreditType
<1>5. ASSUME NEW h \in Hwnds PROVE Ledger(h)
  <2>1. h # None /\ drag.hwnd = None
    BY <1>1, NoneApart, NothingQueued
  <2>2. Claims(h) = 0
    BY <1>1, <1>2, <2>1 DEF Claims, One, Grips, Activated, Placing
  <2>3. ~ Standing(h)
    BY <1>1, <2>1 DEF Standing, Gripped
  <2> DEFINE z == [i \in Nat |-> 0]
  <2>4. z \in [Nat -> Nat] /\ \A i \in Nat : z[i] = 0
    OBVIOUS
  <2> HIDE DEF z
  <2>5. Coming = <<>>
    BY <1>1, <1>2 DEF Coming
  <2>6. Tally(h, front, Coming, z, z)
    BY <1>1, <2>1, <2>4, <2>5 DEF Tally
  <2>7. z[1] + Claims(h) <= credit[h]
    BY <1>1, <2>2, <2>4
  <2> QED
    BY <2>3, <2>4, <2>6, <2>7, Zenon DEF Ledger
<1> QED
  BY <1>3, <1>4, <1>5 DEF CreditInv

LEMMA NextKeepsCredit ==
  ASSUME Inv, CreditInv, [Next]_vars
  PROVE  CreditInv'
<1>1. CASE Thread
  BY <1>1, ThreadLedger DEF CreditInv
<1>2. CASE User \/ Programs
  BY <1>2, OutsideLedger DEF CreditInv
<1>3. CASE UNCHANGED vars
  <2>1. UNCHANGED <<drag, foreground, active, pending, pc, batch, plan, front, inbox, credit>>
    BY <1>3 DEF vars, world, queue, focus, work, notes
  <2>2. Noted' /\ CreditType'
    BY <2>1 DEF CreditInv, Noted, CreditType
  <2>3. ASSUME NEW h \in Hwnds PROVE Ledger(h)'
    <3>1. /\ Coming' = Coming /\ (Standing(h)' <=> Standing(h)) /\ Claims(h)' = Claims(h)
      BY <2>1 DEF Coming, Standing, Claims, Gripped, Grips, Activated, Placing, One
    <3>2. Eases(h)
      BY <3>1, ClaimsNat DEF Eases, One
    <3>3. Without(Coming, Coming', 0) /\ 0 \in Nat
      BY <3>1, WithoutNothing
    <3> QED
      BY <2>1, <3>2, <3>3, LedgerEases DEF CreditInv, Eases
  <2> QED
    BY <2>2, <2>3 DEF CreditInv
<1> QED
  BY <1>1, <1>2, <1>3 DEF Next

(* A window is placed no more often than it has been activated: what the   *)
(* ledger of each window claims is never negative.                         *)
THEOREM PlacementsAreAsked == Spec => []PlacementsAnswerActivations
<1>1. CreditInv => PlacementsAnswerActivations
  <2> SUFFICES ASSUME CreditInv, NEW h \in Hwnds PROVE credit[h] >= 0
    BY DEF PlacementsAnswerActivations
  <2>1. PICK p, q \in [Nat -> Nat] :
          (IF Standing(h) THEN p[1] ELSE q[1]) + Claims(h) <= credit[h]
    BY DEF CreditInv, Ledger
  <2> DEFINE a == IF Standing(h) THEN p[1] ELSE q[1]
             c == Claims(h)
             m == credit[h]
  <2>2. a \in Nat /\ c \in Nat /\ m \in Int /\ a + c <= m
    BY <2>1, ClaimsNat DEF CreditInv, CreditType
  <2> HIDE DEF a, c, m
  <2>3. m >= 0
    BY <2>2
  <2> QED
    BY <2>3 DEF m
<1> QED
  BY <1>1, InitCredit, NextKeepsCredit, Invariance, PTL DEF Spec
=============================================================================
