------------------------ MODULE EventPipeline_proofs ------------------------
(***************************************************************************)
(* Machine-checked safety of EventPipeline, for any windows, any capacity  *)
(* of the queue and any timing: a loss of events is never slept over, what *)
(* follows a right click is marked so, no window goes by the key of an     *)
(* earlier one, and the pipeline implements EventContract.                 *)
(***************************************************************************)
EXTENDS EventPipeline, TLAPS, SequenceTheorems, FiniteSetTheorems

(* What is queued, posted and gathered is well formed. *)
FlowType ==
  /\ posted \in Seq(Notice) /\ queue \in Seq(Event)
  /\ loop \in [at : {"wait", "gather", "report", "process", "done"}, events : Seq(Event)]
  /\ sequence \in Nat /\ changes \in Nat /\ polls \in Nat /\ unseen \in Nat

(* A loss that is still to be reported has company, and the loop holds     *)
(* events only while it gathers or reports.                                *)
LossInv ==
  /\ LossHasCompany
  /\ loop.at \in {"wait", "process", "done"} => loop.events = <<>>

LEMMA SyntheticType ==
  ASSUME NEW n \in Nat
  PROVE  Synthetic("Reconcile", n) \in Event /\ Synthetic("HookError", n) \in Event
BY DEF Synthetic, Event

LEMMA AppendType ==
  ASSUME NEW S, NEW s \in Seq(S), NEW e \in S
  PROVE  Append(s, e) \in Seq(S) /\ Append(s, e) # <<>>
<1>1. Append(s, e) \in Seq(S) /\ Len(Append(s, e)) = Len(s) + 1 /\ Len(s) \in Nat
  OBVIOUS
<1>2. Len(<<>>) = 0
  OBVIOUS
<1> QED
  BY <1>1, <1>2

(* A push that is refused finds the queue full or closed. *)
LEMMA PushType ==
  ASSUME FlowType, NEW e \in Event, TryPush(e)
  PROVE  /\ queue' \in Seq(Event) /\ unseen' \in Nat
         /\ unseen' > 0 => unseen > 0 \/ stop \/ queue' # <<>>
         /\ queue # <<>> => queue' # <<>>
<1>1. queue \in Seq(Event) /\ unseen \in Nat
  BY DEF FlowType
<1>2. CASE stop \/ Len(queue) >= Capacity
  <2>1. unseen' = unseen + 1 /\ queue' = queue
    BY <1>2 DEF TryPush
  <2>2. Len(queue) >= Capacity => queue # <<>>
    BY <1>1, ConstantsAssumption
  <2> QED
    BY <1>1, <1>2, <2>1, <2>2
<1>3. CASE ~ (stop \/ Len(queue) >= Capacity)
  <2>1. queue' = Append(queue, e) /\ unseen' = unseen
    BY <1>3 DEF TryPush
  <2> QED
    BY <1>1, <2>1, AppendType
<1> QED
  BY <1>2, <1>3

LEMMA PostType ==
  ASSUME FlowType, NEW kind \in WindowKinds, NEW w \in alive, NEW own \in BOOLEAN,
         NEW cause \in Causes, Post(kind, w, own, cause)
  PROVE  posted' \in Seq(Notice)
<1>1. [kind |-> kind, hwnd |-> w, own |-> own, cause |-> cause] \in Notice
  BY DEF alive, Notice
<1> QED
  BY <1>1, AppendType DEF FlowType, Post

LEMMA ForgetType ==
  ASSUME FlowType, ForgetClicks
  PROVE  posted' \in Seq(Notice)
<1>1. posted \in Seq(Notice)
  BY DEF FlowType
<1>2. DOMAIN posted = 1..Len(posted) /\ Len(posted) \in Nat
  BY <1>1, LenProperties
<1>3. ASSUME NEW i \in 1..Len(posted)
      PROVE  Forgotten(posted[i]) \in Notice
  <2>1. posted[i] \in Notice
    BY <1>1, ElementOfSeq
  <2>2. CASE posted[i].cause = "right"
    <3>1. [posted[i] EXCEPT !.cause = "stale"] \in Notice
      BY <2>1 DEF Notice, Causes
    <3> QED
      BY <2>2, <3>1 DEF Forgotten
  <2>3. CASE posted[i].cause # "right"
    BY <2>1, <2>3 DEF Forgotten
  <2> QED
    BY <2>2, <2>3
<1>4. posted' = [i \in 1..Len(posted) |-> Forgotten(posted[i])]
  BY <1>2 DEF ForgetClicks
<1> QED
  BY <1>2, <1>3, <1>4

LEMMA LossInit == Init => FlowType /\ LossInv
BY EmptySeq DEF Init, FlowType, LossInv, LossHasCompany

(* Nothing that happens outside the coordinator thread and pushes nothing  *)
(* touches what the claim is about.                                        *)
LEMMA ElsewhereKeeps ==
  ASSUME FlowType, LossInv,
         posted' \in Seq(Notice), changes' \in Nat,
         UNCHANGED <<sequence, queueVars, loop, polls>>, stop => stop'
  PROVE  FlowType' /\ LossInv'
<1>1. /\ sequence' = sequence /\ queue' = queue /\ unseen' = unseen
      /\ loop' = loop /\ polls' = polls
  BY DEF queueVars
<1> QED
  BY <1>1 DEF FlowType, LossInv, LossHasCompany

(* A push leaves its loss, if any, in the company of a full queue. *)
LEMMA PushKeeps ==
  ASSUME FlowType, LossInv, NEW e \in Event, TryPush(e),
         posted' \in Seq(Notice), changes' \in Nat, sequence' \in Nat,
         UNCHANGED <<stop, loop, polls>>
  PROVE  FlowType' /\ LossInv'
<1>1. /\ queue' \in Seq(Event) /\ unseen' \in Nat
      /\ unseen' > 0 => unseen > 0 \/ stop \/ queue' # <<>>
      /\ queue # <<>> => queue' # <<>>
  BY PushType
<1> QED
  BY <1>1 DEF FlowType, LossInv, LossHasCompany

(* The next iteration of the loop begins with nothing gathered. *)
LEMMA StartOverType ==
  ASSUME StartOver
  PROVE  /\ loop' \in [at : {"wait", "gather", "report", "process", "done"}, events : Seq(Event)]
         /\ loop'.events = <<>>
BY EmptySeq DEF StartOver, Goto

LEMMA GotoType ==
  ASSUME NEW at \in {"wait", "gather", "report", "process", "done"},
         NEW events \in Seq(Event), Goto(at, events)
  PROVE  /\ loop' \in [at : {"wait", "gather", "report", "process", "done"}, events : Seq(Event)]
         /\ loop'.at = at /\ loop'.events = events
BY DEF Goto

LEMMA WaitPopKeeps ==
  ASSUME FlowType, LossInv, WaitPop
  PROVE  FlowType' /\ LossInv'
<1>1. /\ loop.at = "wait" /\ loop.events = <<>>
      /\ UNCHANGED <<posted, changes, sequence, unseen, stop, polls>>
  BY DEF WaitPop, LossInv, desktopVars
<1>2. CASE queue = <<>>
  <2>1. Goto("gather", <<>>) /\ queue' = queue
    BY <1>2 DEF WaitPop
  <2>2. /\ loop' \in [at : {"wait", "gather", "report", "process", "done"}, events : Seq(Event)]
        /\ loop'.at = "gather" /\ loop'.events = <<>>
    BY <2>1, GotoType, EmptySeq
  <2> QED
    BY <1>1, <1>2, <2>1, <2>2 DEF FlowType, LossInv, LossHasCompany
<1>3. CASE queue # <<>>
  <2>1. Goto("gather", <<Head(queue)>>) /\ queue' = Tail(queue)
    BY <1>3 DEF WaitPop
  <2>2. Head(queue) \in Event /\ Tail(queue) \in Seq(Event)
    BY <1>3, HeadTailProperties DEF FlowType
  <2>3. <<Head(queue)>> \in Seq(Event) /\ <<Head(queue)>> # <<>>
    BY <2>2
  <2>4. /\ loop' \in [at : {"wait", "gather", "report", "process", "done"}, events : Seq(Event)]
        /\ loop'.at = "gather" /\ loop'.events = <<Head(queue)>>
    BY <2>1, <2>3, GotoType
  <2> QED
    BY <1>1, <2>1, <2>2, <2>3, <2>4 DEF FlowType, LossInv, LossHasCompany
<1> QED
  BY <1>2, <1>3

LEMMA GatherKeeps ==
  ASSUME FlowType, LossInv, Gather
  PROVE  FlowType' /\ LossInv'
<1> DEFINE arrived == loop.events \o queue
<1>1. UNCHANGED <<posted, changes, sequence, unseen, stop>> /\ queue' = <<>>
  BY DEF Gather, desktopVars
<1>2. arrived \in Seq(Event) /\ (arrived = <<>> => loop.events = <<>> /\ queue = <<>>)
  <2>1. loop.events \in Seq(Event) /\ queue \in Seq(Event)
    BY DEF FlowType
  <2> QED
    BY <2>1, ConcatProperties, ConcatEqualIffEmpty
<1>3. queue' \in Seq(Event)
  BY <1>1, EmptySeq
<1>4. CASE untilDue = 0
  <2> DEFINE e == Synthetic("Reconcile", polls + 1)
  <2>1. Poll /\ Goto("report", Append(arrived, e))
    BY <1>4 DEF Gather
  <2>2. polls' \in Nat
    BY <2>1 DEF Poll, FlowType
  <2>3. e \in Event
    BY SyntheticType DEF FlowType
  <2>4. Append(arrived, e) \in Seq(Event) /\ Append(arrived, e) # <<>>
    BY <1>2, <2>3, AppendType
  <2>5. /\ loop' \in [at : {"wait", "gather", "report", "process", "done"}, events : Seq(Event)]
        /\ loop'.at = "report" /\ loop'.events # <<>>
    BY <2>1, <2>4, GotoType
  <2> QED
    BY <1>1, <1>3, <2>2, <2>5 DEF FlowType, LossInv, LossHasCompany
<1>5. CASE untilDue # 0 /\ arrived = <<>>
  <2>1. StartOver /\ polls' = polls
    BY <1>5 DEF Gather
  <2>2. /\ loop' \in [at : {"wait", "gather", "report", "process", "done"}, events : Seq(Event)]
        /\ loop'.events = <<>>
    BY <2>1, StartOverType
  <2>3. unseen > 0 => stop
    BY <1>2, <1>5 DEF LossInv, LossHasCompany
  <2> QED
    BY <1>1, <1>3, <2>1, <2>2, <2>3 DEF FlowType, LossInv, LossHasCompany
<1>6. CASE untilDue # 0 /\ arrived # <<>>
  <2>1. Goto("report", arrived) /\ polls' = polls
    BY <1>6 DEF Gather
  <2>2. /\ loop' \in [at : {"wait", "gather", "report", "process", "done"}, events : Seq(Event)]
        /\ loop'.at = "report" /\ loop'.events # <<>>
    BY <1>2, <1>6, <2>1, GotoType
  <2> QED
    BY <1>1, <1>3, <2>1, <2>2 DEF FlowType, LossInv, LossHasCompany
<1> QED
  BY <1>4, <1>5, <1>6

LEMMA ProcessKeeps ==
  ASSUME FlowType, LossInv, Process
  PROVE  FlowType' /\ LossInv'
<1>1. /\ UNCHANGED <<posted, changes, sequence, queue, stop, polls>>
      /\ unseen' = 0 /\ Goto("process", <<>>)
  BY DEF Process, desktopVars
<1>2. /\ loop' \in [at : {"wait", "gather", "report", "process", "done"}, events : Seq(Event)]
      /\ loop'.at = "process" /\ loop'.events = <<>>
  BY <1>1, GotoType, EmptySeq
<1> QED
  BY <1>1, <1>2 DEF FlowType, LossInv, LossHasCompany

LEMMA FinishBatchKeeps ==
  ASSUME FlowType, LossInv, FinishBatch
  PROVE  FlowType' /\ LossInv'
<1>1. /\ UNCHANGED <<posted, changes, sequence, queue, unseen, stop, polls>>
      /\ StartOver /\ loop.events = <<>>
  BY DEF FinishBatch, PausedBatch, AbandonedBatch, WholeBatch, Returns,
         desktopVars, queueVars, LossInv
<1>2. /\ loop' \in [at : {"wait", "gather", "report", "process", "done"}, events : Seq(Event)]
      /\ loop'.events = <<>>
  BY <1>1, StartOverType
<1> QED
  BY <1>1, <1>2 DEF FlowType, LossInv, LossHasCompany

LEMMA LossNext == FlowType /\ LossInv /\ [Next]_vars => (FlowType /\ LossInv)'
<1> SUFFICES ASSUME FlowType, LossInv, [Next]_vars
             PROVE  (FlowType /\ LossInv)'
  OBVIOUS
<1>1. CASE Activate
  <2>1. posted' \in Seq(Notice)
    BY <1>1, PostType DEF Activate, WindowKinds, Causes
  <2> QED
    BY <1>1, <2>1, ElsewhereKeeps DEF Activate, loopVars, FlowType
<1>2. CASE RightActivate
  <2>1. posted' \in Seq(Notice)
    BY <1>2, PostType DEF RightActivate, WindowKinds, Causes
  <2> QED
    BY <1>2, <2>1, ElsewhereKeeps DEF RightActivate, loopVars, FlowType
<1>3. CASE Move
  <2>1. posted' \in Seq(Notice)
    BY <1>3, PostType DEF Move, WindowKinds, Causes
  <2> QED
    BY <1>3, <2>1, ElsewhereKeeps DEF Move, loopVars, FlowType
<1>4. CASE DestroyWindow
  <2>1. posted' \in Seq(Notice)
    BY <1>4, PostType DEF DestroyWindow, WindowKinds, Causes
  <2> QED
    BY <1>4, <2>1, ElsewhereKeeps DEF DestroyWindow, loopVars, FlowType
<1>5. CASE Tick
  <2>1. posted' \in Seq(Notice)
    BY <1>5, ForgetType DEF Tick, FlowType
  <2> QED
    BY <1>5, <2>1, ElsewhereKeeps DEF Tick, queueVars, FlowType
<1>6. CASE ButtonDown
  <2>1. posted' \in Seq(Notice)
    BY <1>6, ForgetType DEF ButtonDown
  <2> QED
    BY <1>6, <2>1, ElsewhereKeeps DEF ButtonDown, loopVars, FlowType
<1>7. CASE ButtonUp
  BY <1>7, ElsewhereKeeps DEF ButtonUp, loopVars, FlowType
<1>8. CASE EventProc
  <2>1. /\ Head(posted) \in Notice /\ posted' \in Seq(Notice)
        /\ UNCHANGED <<changes, stop, loop, polls>>
    BY <1>8, HeadTailProperties DEF EventProc, FlowType, loopVars
  <2>2. CASE IsAccepted(Head(posted))
    <3> DEFINE e == [kind |-> Head(posted).kind, hwnd |-> Head(posted).hwnd,
                     sequence |-> sequence', suppressLayout |-> Suppressed(Head(posted))]
    <3>1. sequence' = sequence + 1 /\ TryPush(e)
      BY <1>8, <2>2 DEF EventProc
    <3>2. sequence' \in Nat
      BY <3>1 DEF FlowType
    <3>3. Suppressed(Head(posted)) \in BOOLEAN
      BY DEF Suppressed
    <3>4. e \in Event
      BY <2>1, <3>2, <3>3 DEF Notice, Event
    <3> QED
      BY <2>1, <3>1, <3>2, <3>4, PushKeeps DEF FlowType
  <2>3. CASE ~ IsAccepted(Head(posted))
    <3>1. UNCHANGED <<sequence, queueVars>>
      BY <1>8, <2>3 DEF EventProc
    <3> QED
      BY <2>1, <3>1, ElsewhereKeeps DEF FlowType
  <2> QED
    BY <2>2, <2>3
<1>9. CASE MarkEnvironmentChanged
  <2>1. /\ changes' = changes + 1 /\ TryPush(Synthetic("Reconcile", changes'))
        /\ UNCHANGED <<posted, sequence, stop, loop, polls>>
    BY <1>9 DEF MarkEnvironmentChanged, loopVars
  <2>2. changes' \in Nat
    BY <2>1 DEF FlowType
  <2>3. Synthetic("Reconcile", changes') \in Event
    BY <2>2, SyntheticType
  <2> QED
    BY <2>1, <2>2, <2>3, PushKeeps DEF FlowType
<1>10. CASE Stop
  BY <1>10, ElsewhereKeeps DEF Stop, desktopVars, FlowType
<1>11. CASE WaitPop
  BY <1>11, WaitPopKeeps
<1>12. CASE Gather
  BY <1>12, GatherKeeps
<1>13. CASE Process
  BY <1>13, ProcessKeeps
<1>14. CASE FinishBatch
  BY <1>14, FinishBatchKeeps
<1>15. CASE UNCHANGED vars
  BY <1>15, ElsewhereKeeps DEF vars, desktopVars, queueVars, loopVars, FlowType
<1>16. CASE ReuseHandle
  BY <1>16, ElsewhereKeeps DEF ReuseHandle, loopVars, FlowType
<1>17. CASE StartDrag
  <2>1. posted' \in Seq(Notice)
    BY <1>17, PostType DEF StartDrag, WindowKinds, Causes
  <2> QED
    BY <1>17, <2>1, ElsewhereKeeps DEF StartDrag, loopVars, FlowType
<1> QED
  BY <1>1, <1>2, <1>3, <1>4, <1>5, <1>6, <1>7, <1>8, <1>9, <1>10, <1>11, <1>12, <1>13,
     <1>14, <1>15, <1>16, <1>17 DEF Next, CoordinatorLoop, Ended

(* Events that did not fit are never slept over: the loop looks at the     *)
(* counter only when a batch is not empty, and as long as a loss is to be  *)
(* reported and the manager runs, an event is queued or gathered.          *)
THEOREM LossesHaveCompany == Spec => []LossHasCompany
<1>1. LossInv => LossHasCompany
  BY DEF LossInv
<1> QED
  BY LossInit, LossNext, <1>1, PTL DEF Spec

-----------------------------------------------------------------------------
(* How a batch is sorted *)

(* The places of the elements of S in the order R, counted from 0. *)
Places(S, R) == [x \in S |-> Cardinality({y \in S : <<y, x>> \in R})]

(* In a strict order of a finite set the number of predecessors of an       *)
(* element tells its place, and every place is taken.                      *)
LEMMA RankOfOrder ==
  ASSUME NEW S, IsFiniteSet(S), NEW R,
         \A x \in S : <<x, x>> \notin R,
         \A x, y \in S : x # y => <<x, y>> \in R \/ <<y, x>> \in R,
         \A x, y, z \in S : <<x, y>> \in R /\ <<y, z>> \in R => <<x, z>> \in R
  PROVE  /\ Cardinality(S) \in Nat
         /\ Places(S, R) \in [S -> 0 .. Cardinality(S) - 1]
         /\ \A x, y \in S : <<x, y>> \in R => Places(S, R)[x] < Places(S, R)[y]
         /\ \A x, y \in S : Places(S, R)[x] = Places(S, R)[y] => x = y
         /\ \A k \in 0 .. Cardinality(S) - 1 : \E x \in S : Places(S, R)[x] = k
<1> DEFINE Below(x) == {y \in S : <<y, x>> \in R}
           rank == Places(S, R)
           n == Cardinality(S)
<1>0. n \in Nat
  BY FS_CardinalityType
<1>1. ASSUME NEW x \in S
      PROVE  IsFiniteSet(Below(x)) /\ Cardinality(Below(x)) \in 0 .. n - 1
  <2>1. Below(x) \in SUBSET S /\ x \notin Below(x)
    OBVIOUS
  <2>2. IsFiniteSet(Below(x)) /\ Cardinality(Below(x)) <= n /\ (n = Cardinality(Below(x)) => S = Below(x))
    BY <2>1, FS_Subset
  <2>3. Cardinality(Below(x)) \in Nat
    BY <2>2, FS_CardinalityType
  <2>4. Cardinality(Below(x)) # n
    BY <2>1, <2>2
  <2> HIDE DEF Below, n
  <2> QED
    BY <1>0, <2>2, <2>3, <2>4
<1>2. ASSUME NEW x \in S, NEW y \in S, <<x, y>> \in R
      PROVE  Cardinality(Below(x)) < Cardinality(Below(y))
  <2>1. Below(x) \in SUBSET Below(y) /\ x \in Below(y) /\ x \notin Below(x)
    BY <1>2
  <2>2. Cardinality(Below(x)) <= Cardinality(Below(y)) /\ Cardinality(Below(x)) # Cardinality(Below(y))
    BY <1>1, <2>1, FS_Subset
  <2>3. Cardinality(Below(x)) \in 0 .. n-1 /\ Cardinality(Below(y)) \in 0 .. n-1
    BY <1>1
  <2> HIDE DEF Below, n
  <2> QED
    BY <1>0, <2>2, <2>3
<1>3. rank \in [S -> 0 .. n - 1] /\ \A x \in S : rank[x] = Cardinality(Below(x))
  BY <1>1 DEF Places
<1> HIDE DEF rank, Below
<1>4. \A x, y \in S : <<x, y>> \in R => rank[x] < rank[y]
  BY <1>2, <1>3
<1>5. \A x, y \in S : rank[x] = rank[y] => x = y
  <2> SUFFICES ASSUME NEW x \in S, NEW y \in S, rank[x] = rank[y], x # y
               PROVE  FALSE
    OBVIOUS
  <2>1. rank[x] < rank[y] \/ rank[y] < rank[x]
    BY <1>4
  <2>2. rank[x] \in Int /\ rank[y] \in Int
    <3> HIDE DEF n
    <3> QED BY <1>0, <1>3
  <2> QED
    BY <2>1, <2>2
<1>6. rank \in Surjection(S, 0 .. n - 1)
  <2>1. rank \in Injection(S, 0 .. n - 1)
    BY <1>3, <1>5 DEF Injection, IsInjective
  <2>2. IsFiniteSet(0 .. n - 1) /\ Cardinality(0 .. n - 1) = n
    <3> HIDE DEF n
    <3>1. IsFiniteSet(0 .. n - 1) /\ Cardinality(0 .. n-1) = IF 0 > n - 1 THEN 0 ELSE (n - 1) - 0 + 1
       BY <1>0, FS_Interval
    <3> QED BY <3>1, <1>0
  <2> QED
    BY <2>1, <2>2, FS_Injection
<1> HIDE DEF n
<1>7. \A k \in 0 .. n - 1 : \E x \in S : rank[x] = k
  BY <1>6 DEF Surjection
<1> QED
  BY <1>0, <1>3, <1>4, <1>5, <1>7 DEF n, rank

(* The order in which a batch is sorted is strict and total. *)
LEMMA EarlierIsStrictOrder ==
  ASSUME NEW events \in Seq(Event)
  PROVE  /\ \A i \in DOMAIN events : ~ Earlier(events, i, i)
         /\ \A i, j \in DOMAIN events : i # j => Earlier(events, i, j) \/ Earlier(events, j, i)
         /\ \A i, j, k \in DOMAIN events :
              Earlier(events, i, j) /\ Earlier(events, j, k) => Earlier(events, i, k)
<1>1. DOMAIN events \subseteq Int
  BY LenProperties
<1>2. ASSUME NEW i \in DOMAIN events
      PROVE  /\ events[i].sequence \in Int /\ events[i].hwnd \in Int
             /\ KindOrder[events[i].kind] \in Int
  <2>1. events[i] \in Event
    BY LenProperties
  <2>2. events[i].hwnd \in Int /\ events[i].sequence \in Int
    <3>1. events[i].hwnd \in Hwnds \cup {0} /\ events[i].sequence \in Nat
      BY <2>1 DEF Event
    <3>2. Hwnds \cup {0} \subseteq Int
      BY ConstantsAssumption
    <3>3. events[i].hwnd \in Int
      BY <3>1, <3>2
    <3> QED
      BY <3>1, <3>3
  <2>3. events[i].kind \in {"MoveSizeStart", "Foreground", "LocationChange", "Destroy", "Reconcile", "HookError"}
    BY <2>1 DEF Event, WindowKinds
  <2>4. KindOrder[events[i].kind] \in Int
    BY <2>3 DEF KindOrder
  <2> QED
    BY <2>2, <2>4
<1> QED
  BY <1>1, <1>2 DEF Earlier, Before

LEMMA IndicesAreFinite ==
  ASSUME NEW events \in Seq(Event)
  PROVE  IsFiniteSet(Kept(events)) /\ Kept(events) \subseteq DOMAIN events
<1>1. DOMAIN events = 1 .. Len(events) /\ Len(events) \in Nat
  BY LenProperties
<1>2. IsFiniteSet(1 .. Len(events))
  BY <1>1, FS_Interval
<1>3. Kept(events) \in SUBSET (1 .. Len(events))
  BY <1>1 DEF Kept
<1> QED
  BY <1>1, <1>2, <1>3, FS_Subset

(* The ranks of the events kept are their places in the batch. *)
LEMMA RankProperties ==
  ASSUME NEW events \in Seq(Event)
  PROVE  /\ Cardinality(Kept(events)) \in Nat
         /\ \A i \in Kept(events) : Rank(events, i) \in 0 .. Cardinality(Kept(events)) - 1
         /\ \A i, j \in Kept(events) : Earlier(events, i, j) => Rank(events, i) < Rank(events, j)
         /\ \A i, j \in Kept(events) : Rank(events, i) = Rank(events, j) => i = j
         /\ \A k \in 0 .. Cardinality(Kept(events)) - 1 : \E i \in Kept(events) : Rank(events, i) = k
<1> DEFINE K == Kept(events)
           R == {p \in K \X K : Earlier(events, p[1], p[2])}
           rank == Places(K, R)
<1>1. IsFiniteSet(K) /\ K \subseteq DOMAIN events
  BY IndicesAreFinite
<1>2. \A x, y \in K : <<x, y>> \in R <=> Earlier(events, x, y)
  OBVIOUS
<1>3. /\ \A x \in K : <<x, x>> \notin R
      /\ \A x, y \in K : x # y => <<x, y>> \in R \/ <<y, x>> \in R
      /\ \A x, y, z \in K : <<x, y>> \in R /\ <<y, z>> \in R => <<x, z>> \in R
  <2> HIDE DEF K, R
  <2> QED
    BY <1>1, <1>2, EarlierIsStrictOrder
<1>4. ASSUME NEW i \in K
      PROVE  rank[i] = Rank(events, i)
  <2>1. {y \in K : <<y, i>> \in R} = {j \in Kept(events) : Earlier(events, j, i)}
    BY <1>2
  <2> QED
    BY <2>1 DEF Rank, Places
<1> HIDE DEF R
<1>5. /\ Cardinality(K) \in Nat
      /\ rank \in [K -> 0 .. Cardinality(K) - 1]
      /\ \A x, y \in K : <<x, y>> \in R => rank[x] < rank[y]
      /\ \A x, y \in K : rank[x] = rank[y] => x = y
      /\ \A k \in 0 .. Cardinality(K) - 1 : \E x \in K : rank[x] = k
  <2> HIDE DEF K
  <2> QED
    BY <1>1, <1>3, RankOfOrder
<1> HIDE DEF rank
<1>6. ASSUME NEW i \in K
      PROVE  Rank(events, i) \in 0 .. Cardinality(K) - 1
  <2> HIDE DEF K
  <2> QED
    BY <1>4, <1>5
<1>7. ASSUME NEW i \in K, NEW j \in K
      PROVE  /\ Earlier(events, i, j) => Rank(events, i) < Rank(events, j)
             /\ Rank(events, i) = Rank(events, j) => i = j
  <2> HIDE DEF K
  <2>1. rank[i] = Rank(events, i) /\ rank[j] = Rank(events, j)
    BY <1>4
  <2>2. Earlier(events, i, j) => rank[i] < rank[j]
    BY <1>2, <1>5
  <2>3. rank[i] = rank[j] => i = j
    BY <1>5
  <2> QED
    BY <2>1, <2>2, <2>3
<1>8. ASSUME NEW k \in 0 .. Cardinality(K) - 1
      PROVE  \E i \in K : Rank(events, i) = k
  <2> HIDE DEF K
  <2> QED
    BY <1>4, <1>5
<1> QED
  BY <1>5, <1>6, <1>7, <1>8

(* Every event of a batch is one that was kept, and each of these has its   *)
(* place.                                                                  *)
LEMMA CoalesceProperties ==
  ASSUME NEW events \in Seq(Event)
  PROVE  /\ Coalesce(events) \in Seq(Event)
         /\ DOMAIN Coalesce(events) = 1 .. Cardinality(Kept(events))
         /\ \A i \in Kept(events) :
              /\ Rank(events, i) + 1 \in DOMAIN Coalesce(events)
              /\ Coalesce(events)[Rank(events, i) + 1] = events[i]
         /\ \A k \in DOMAIN Coalesce(events) :
              \E i \in Kept(events) : Rank(events, i) + 1 = k /\ Coalesce(events)[k] = events[i]
<1> DEFINE n == Cardinality(Kept(events))
           index(k) == CHOOSE i \in Kept(events) : Rank(events, i) = k - 1
<1>1. n \in Nat /\ Kept(events) \subseteq DOMAIN events
  BY RankProperties, IndicesAreFinite
<1>2. Coalesce(events) = [k \in 1 .. n |-> events[index(k)]]
  BY DEF Coalesce
<1>3. ASSUME NEW k \in 1 .. n
      PROVE  index(k) \in Kept(events) /\ Rank(events, index(k)) = k - 1 /\ events[index(k)] \in Event
  <2>1. k - 1 \in 0 .. n - 1
    BY <1>1
  <2>2. \E i \in Kept(events) : Rank(events, i) = k - 1
    BY <2>1, RankProperties
  <2>3. index(k) \in Kept(events) /\ Rank(events, index(k)) = k - 1
    BY <2>2
  <2> QED
    BY <1>1, <2>3, LenProperties
<1>4. ASSUME NEW i \in Kept(events)
      PROVE  Rank(events, i) + 1 \in 1 .. n /\ index(Rank(events, i) + 1) = i
  <2>1. Rank(events, i) \in 0 .. n - 1
    BY RankProperties
  <2>2. Rank(events, i) + 1 \in 1 .. n /\ Rank(events, i) + 1 - 1 = Rank(events, i)
    BY <1>1, <2>1
  <2> HIDE DEF n, index
  <2>3. index(Rank(events, i) + 1) \in Kept(events) /\ Rank(events, index(Rank(events, i) + 1)) = Rank(events, i)
    <3>1. PICK k \in 1 .. n : k = Rank(events, i) + 1
      BY <2>2
    <3>2. index(k) \in Kept(events) /\ Rank(events, index(k)) = k - 1
      BY <1>3
    <3> QED
      BY <2>1, <2>2, <3>1, <3>2
  <2> QED
    BY <2>2, <2>3, RankProperties
<1> HIDE DEF n, index
<1>5. Coalesce(events) \in Seq(Event)
  BY <1>1, <1>2, <1>3
<1>6. DOMAIN Coalesce(events) = 1 .. n
  BY <1>2
<1>7. ASSUME NEW k \in 1 .. n
      PROVE  Rank(events, index(k)) + 1 = k
  BY <1>1, <1>3
<1> QED
  BY <1>2, <1>3, <1>4, <1>5, <1>6, <1>7 DEF n

-----------------------------------------------------------------------------
(* Types and bounds *)

(* The environment keeps to its bounds; what is accepted was posted.        *)
DesktopBound ==
  /\ nth \in [Hwnds -> 1 .. 3] /\ held \in BOOLEAN /\ clicked \in Hwnds \cup {0}
  /\ Len(posted) <= MaxPosted /\ sequence + Len(posted) <= MaxNotices
  /\ clicks \in Nat /\ Extras <= MaxExtras
  /\ tracker \in [root : Hwnds \cup {0}, age : 0 .. MaximumDelay + 1]
  /\ stop \in BOOLEAN

(* There is a batch only while the coordinator works on it.                 *)
LoopBound ==
  /\ Len(queue) <= Capacity
  /\ untilDue \in 0 .. Interval /\ polls <= MaxPolls
  /\ batch \in Seq(Event) /\ (loop.at # "process" => batch = <<>>)
  /\ entries \in [Hwnds -> {0, 1, 3}] /\ unread \subseteq Hwnds

BoundInv == DesktopBound /\ LoopBound

(* What the environment did besides. *)
Gone(number) == {w \in Hwnds : number[w] > 1}

LEMMA ExtrasType ==
  ASSUME FlowType, BoundInv
  PROVE  /\ IsFiniteSet(Gone(nth)) /\ Cardinality(Gone(nth)) \in Nat
         /\ Extras = clicks + changes + Cardinality(Gone(nth)) + (IF stop THEN 1 ELSE 0)
<1>1. Gone(nth) \in SUBSET Hwnds
  BY DEF Gone
<1>2. IsFiniteSet(Hwnds)
  BY ConstantsAssumption
<1>3. IsFiniteSet(Gone(nth))
  BY <1>1, <1>2, FS_Subset
<1>4. Cardinality(Gone(nth)) \in Nat
  BY <1>3, FS_CardinalityType
<1> QED
  BY <1>3, <1>4 DEF Extras, Gone

LEMMA BoundsGiveTypes == FlowType /\ BoundInv => TypeOK
<1> SUFFICES ASSUME FlowType, BoundInv
             PROVE  TypeOK
  OBVIOUS
<1>1. Len(posted) \in Nat
  BY LenProperties DEF FlowType
<1>2. sequence \in 0 .. MaxNotices /\ polls \in 0 .. MaxPolls
  BY <1>1, ConstantsAssumption DEF FlowType, BoundInv, DesktopBound, LoopBound
<1>3. clicks \in 0 .. MaxExtras /\ changes \in 0 .. MaxExtras
  <2>1. /\ clicks \in Nat /\ changes \in Nat /\ Cardinality(Gone(nth)) \in Nat
        /\ stop \in BOOLEAN /\ MaxExtras \in Nat
        /\ clicks + changes + Cardinality(Gone(nth)) + (IF stop THEN 1 ELSE 0) <= MaxExtras
    BY ExtrasType, ConstantsAssumption DEF FlowType, BoundInv, DesktopBound, LoopBound
  <2> QED
    BY <2>1
<1> QED
  BY <1>2, <1>3 DEF TypeOK, FlowType, BoundInv, DesktopBound, LoopBound

LEMMA BoundInit == Init => BoundInv
<1> SUFFICES ASSUME Init
             PROVE  BoundInv
  OBVIOUS
<1>1. Cardinality({w \in Hwnds : nth[w] > 1}) = 0
  <2>1. {w \in Hwnds : nth[w] > 1} = {}
    BY DEF Init
  <2> QED
    BY <2>1, FS_EmptySet
<1>2. Extras = 0
  BY <1>1 DEF Init, Extras
<1>3. Len(posted) = 0 /\ Len(queue) = 0 /\ batch \in Seq(Event)
  BY EmptySeq DEF Init
<1>4. DesktopBound
  <2>1. 0 <= MaxPosted /\ 0 + 0 <= MaxNotices /\ 0 <= MaxExtras /\ 0 \in 0 .. MaximumDelay + 1
    BY ConstantsAssumption
  <2>2. nth \in [Hwnds -> 1 .. 3]
    BY DEF Init
  <2>3. Len(posted) <= MaxPosted /\ sequence + Len(posted) <= MaxNotices /\ Extras <= MaxExtras
    BY <1>2, <1>3, <2>1 DEF Init
  <2> QED
    BY <2>1, <2>2, <2>3 DEF Init, DesktopBound
<1>5. LoopBound
  BY <1>3, ConstantsAssumption DEF Init, LoopBound
<1> QED
  BY <1>4, <1>5 DEF BoundInv

LEMMA PostBound ==
  ASSUME FlowType, DesktopBound, NEW kind \in WindowKinds, NEW w \in alive,
         NEW own \in BOOLEAN, NEW cause \in Causes, Post(kind, w, own, cause)
  PROVE  Len(posted') <= MaxPosted /\ sequence + Len(posted') <= MaxNotices
<1>1. [kind |-> kind, hwnd |-> w, own |-> own, cause |-> cause] \in Notice
  BY DEF alive, Notice
<1>2. Len(posted') = Len(posted) + 1 /\ Len(posted) \in Nat
  BY <1>1, AppendProperties, LenProperties DEF FlowType, Post
<1>3. Len(posted) < MaxPosted /\ sequence + Len(posted) < MaxNotices /\ sequence \in Nat
  BY DEF Post, FlowType
<1>4. MaxPosted \in Nat /\ MaxNotices \in Nat
  BY ConstantsAssumption
<1> QED
  BY <1>2, <1>3, <1>4

LEMMA ForgetBound ==
  ASSUME FlowType, ForgetClicks
  PROVE  Len(posted') = Len(posted)
<1>1. DOMAIN posted = 1 .. Len(posted) /\ Len(posted) \in Nat
  BY LenProperties DEF FlowType
<1>2. posted' = [i \in 1 .. Len(posted) |-> Forgotten(posted[i])]
  BY <1>1 DEF ForgetClicks
<1>3. DOMAIN posted' = 1 .. Len(posted)
  BY <1>2
<1>4. posted' \in Seq(Notice)
  BY ForgetType
<1> QED
  BY <1>1, <1>3, <1>4, LenProperties

(* Another step of the environment uses up what is left of its bound.       *)
LEMMA ExtraStep ==
  ASSUME FlowType, BoundInv, Extras < MaxExtras,
         NEW d \in 0 .. 1, NEW e \in 0 .. 1, d + e <= 1,
         clicks' = clicks + d, changes' = changes + e, UNCHANGED nth,
         \/ UNCHANGED stop
         \/ d + e = 0 /\ ~ stop /\ stop'
  PROVE  Extras' <= MaxExtras
<1> DEFINE gone == Cardinality(Gone(nth))
<1>1. gone \in Nat /\ Extras = clicks + changes + gone + (IF stop THEN 1 ELSE 0)
  BY ExtrasType
<1>2. Extras' = clicks' + changes' + gone + (IF stop' THEN 1 ELSE 0)
  BY DEF Extras, Gone
<1> HIDE DEF gone
<1>3. /\ MaxExtras \in Nat /\ clicks \in Nat /\ changes \in Nat /\ stop \in BOOLEAN
      /\ clicks + changes + gone + (IF stop THEN 1 ELSE 0) < MaxExtras
  BY <1>1, ConstantsAssumption DEF FlowType, BoundInv, DesktopBound
<1>4. CASE UNCHANGED stop
  BY <1>1, <1>2, <1>3, <1>4
<1>5. CASE d + e = 0 /\ ~ stop /\ stop'
  BY <1>1, <1>2, <1>3, <1>5
<1> QED
  BY <1>4, <1>5

(* The steps of the environment leave the coordinator alone. *)
LEMMA LoopBoundKept ==
  ASSUME LoopBound, UNCHANGED <<queue, untilDue, polls, batch, entries, unread, loop>>
  PROVE  LoopBound'
BY DEF LoopBound

(* The steps of the coordinator leave the environment alone. *)
LEMMA DesktopBoundKept ==
  ASSUME DesktopBound, UNCHANGED <<desktopVars, tracker, sequence, stop>>
  PROVE  DesktopBound'
<1>1. UNCHANGED <<nth, held, clicked, posted, clicks, changes, tracker, sequence, stop>>
  BY DEF desktopVars
<1>2. Extras' = Extras
  BY <1>1 DEF Extras
<1> QED
  BY <1>1, <1>2 DEF DesktopBound

(* What the user does with a window, and the system tells of it. *)
LEMMA TellKeepsBound ==
  ASSUME FlowType, BoundInv, NEW kind \in WindowKinds, NEW w \in alive,
         NEW own \in BOOLEAN, NEW cause \in Causes, Post(kind, w, own, cause),
         clicked' \in Hwnds \cup {0},
         UNCHANGED <<nth, held, clicks, changes, tracker, sequence, queueVars, loopVars>>
  PROVE  BoundInv'
<1>1. Len(posted') <= MaxPosted /\ sequence + Len(posted') <= MaxNotices
  BY PostBound DEF BoundInv
<1>2. Extras' = Extras
  BY DEF Extras, loopVars
<1>3. DesktopBound'
  BY <1>1, <1>2 DEF DesktopBound, BoundInv, loopVars
<1>4. LoopBound'
  BY LoopBoundKept DEF BoundInv, loopVars, queueVars, identityVars
<1> QED
  BY <1>3, <1>4 DEF BoundInv

LEMMA DestroyKeepsBound ==
  ASSUME FlowType, BoundInv, DestroyWindow
  PROVE  BoundInv'
<1>1. PICK w \in alive : /\ nth[w] = 1 /\ Extras < MaxExtras
                         /\ Post("Destroy", w, TRUE, "plain")
                         /\ nth' = [nth EXCEPT ![w] = 2]
                         /\ clicked' = IF clicked = w THEN 0 ELSE clicked
                         /\ UNCHANGED <<held, clicks, changes, tracker, sequence, queueVars, loopVars>>
  BY DEF DestroyWindow
<1>2. Len(posted') <= MaxPosted /\ sequence + Len(posted') <= MaxNotices
  BY <1>1, PostBound DEF BoundInv, WindowKinds, Causes
<1>3. Cardinality(Gone(nth')) = Cardinality(Gone(nth)) + 1
  <2>1. w \in Hwnds /\ nth \in [Hwnds -> 1 .. 3]
    BY DEF alive, BoundInv, DesktopBound
  <2>2. Gone(nth') = Gone(nth) \cup {w} /\ w \notin Gone(nth)
    BY <1>1, <2>1 DEF Gone
  <2>3. IsFiniteSet(Gone(nth))
    BY ExtrasType
  <2> QED
    BY <2>2, <2>3, FS_AddElement
<1>4. Extras' <= MaxExtras
  <2> DEFINE gone == Cardinality(Gone(nth))
  <2>1. gone \in Nat /\ Extras = clicks + changes + gone + (IF stop THEN 1 ELSE 0)
    BY ExtrasType
  <2>2. Extras' = clicks + changes + (gone + 1) + (IF stop THEN 1 ELSE 0)
    BY <1>1, <1>3 DEF Extras, Gone, loopVars
  <2> HIDE DEF gone
  <2>3. MaxExtras \in Nat /\ clicks \in Nat /\ changes \in Nat /\ stop \in BOOLEAN
    BY ConstantsAssumption DEF FlowType, BoundInv, DesktopBound
  <2> QED
    BY <1>1, <2>1, <2>2, <2>3
<1>5. nth' \in [Hwnds -> 1 .. 3]
  <2>1. 2 \in 1 .. 3
    OBVIOUS
  <2> QED
    BY <1>1, <2>1 DEF BoundInv, DesktopBound
<1>6. DesktopBound'
  BY <1>1, <1>2, <1>4, <1>5 DEF DesktopBound, BoundInv, loopVars
<1>7. LoopBound'
  BY <1>1, LoopBoundKept DEF BoundInv, loopVars, queueVars, identityVars
<1> QED
  BY <1>6, <1>7 DEF BoundInv

LEMMA ReuseKeepsBound ==
  ASSUME FlowType, BoundInv, ReuseHandle
  PROVE  BoundInv'
<1>1. PICK w \in Hwnds \ alive :
             /\ nth' = [nth EXCEPT ![w] = 3]
             /\ UNCHANGED <<held, clicked, posted, clicks, changes, tracker, sequence, queueVars, loopVars>>
  BY DEF ReuseHandle
<1>2. nth \in [Hwnds -> 1 .. 3] /\ nth' \in [Hwnds -> 1 .. 3]
  BY <1>1 DEF BoundInv, DesktopBound
<1>3. nth[w] > 1
  BY <1>2 DEF alive
<1>4. Gone(nth') = Gone(nth)
  BY <1>1, <1>2, <1>3 DEF Gone
<1>5. Extras' = Extras
  BY <1>1, <1>4 DEF Extras, Gone, loopVars
<1>6. DesktopBound'
  BY <1>1, <1>2, <1>5 DEF DesktopBound, BoundInv, loopVars
<1>7. LoopBound'
  BY <1>1, LoopBoundKept DEF BoundInv, loopVars, queueVars, identityVars
<1> QED
  BY <1>6, <1>7 DEF BoundInv

LEMMA TickKeepsBound ==
  ASSUME FlowType, BoundInv, Tick
  PROVE  BoundInv'
<1>1. /\ untilDue' = IF untilDue > 0 THEN untilDue - 1 ELSE 0
      /\ tracker' = IF ClickAges THEN [tracker EXCEPT !.age = @ + 1] ELSE tracker
      /\ UNCHANGED <<nth, held, clicked, clicks, changes, sequence, queue, unseen,
                     stop, loop, polls, batch, entries, unread>>
  BY DEF Tick, queueVars, identityVars
<1>2. Len(posted') = Len(posted)
  BY ForgetBound DEF Tick
<1>3. tracker' \in [root : Hwnds \cup {0}, age : 0 .. MaximumDelay + 1]
  BY <1>1, ConstantsAssumption DEF ClickAges, BoundInv, DesktopBound
<1>4. untilDue' \in 0 .. Interval
  BY <1>1, ConstantsAssumption DEF BoundInv, LoopBound
<1>5. Extras' = Extras
  BY <1>1 DEF Extras
<1>6. DesktopBound'
  BY <1>1, <1>2, <1>3, <1>5 DEF DesktopBound, BoundInv
<1>7. LoopBound'
  BY <1>1, <1>4 DEF LoopBound, BoundInv
<1> QED
  BY <1>6, <1>7 DEF BoundInv

LEMMA ButtonDownKeepsBound ==
  ASSUME FlowType, BoundInv, ButtonDown
  PROVE  BoundInv'
<1>1. PICK w \in alive \cup {0} :
        /\ Extras < MaxExtras /\ clicks' = clicks + 1 /\ held' = TRUE /\ clicked' = w
        /\ tracker' = [root |-> w, age |-> 0] /\ ForgetClicks
        /\ UNCHANGED <<nth, changes, sequence, queueVars, loopVars>>
  BY DEF ButtonDown
<1>2. Len(posted') = Len(posted)
  BY <1>1, ForgetBound
<1>3. Extras' <= MaxExtras
  <2>1. changes' = changes + 0
    BY <1>1 DEF FlowType
  <2> QED
    BY <1>1, <2>1, ExtraStep DEF loopVars
<1>4. w \in Hwnds \cup {0} /\ 0 \in 0 .. MaximumDelay + 1
  BY ConstantsAssumption DEF alive
<1>5. clicks' \in Nat
  BY <1>1 DEF BoundInv, DesktopBound
<1>6. DesktopBound'
  BY <1>1, <1>2, <1>3, <1>4, <1>5 DEF DesktopBound, BoundInv, loopVars
<1>7. LoopBound'
  BY <1>1, LoopBoundKept DEF BoundInv, loopVars, queueVars, identityVars
<1> QED
  BY <1>6, <1>7 DEF BoundInv

LEMMA ButtonUpKeepsBound ==
  ASSUME FlowType, BoundInv, ButtonUp
  PROVE  BoundInv'
<1>1. /\ held' = FALSE
      /\ tracker' = IF tracker.root # 0 THEN [tracker EXCEPT !.age = 0] ELSE tracker
      /\ UNCHANGED <<nth, clicked, posted, clicks, changes, sequence, queueVars, loopVars>>
  BY DEF ButtonUp
<1>2. tracker' \in [root : Hwnds \cup {0}, age : 0 .. MaximumDelay + 1]
  BY <1>1, ConstantsAssumption DEF BoundInv, DesktopBound
<1>3. Extras' = Extras
  BY <1>1 DEF Extras, loopVars
<1>4. DesktopBound'
  BY <1>1, <1>2, <1>3 DEF DesktopBound, BoundInv, loopVars
<1>5. LoopBound'
  BY <1>1, LoopBoundKept DEF BoundInv, loopVars, queueVars, identityVars
<1> QED
  BY <1>4, <1>5 DEF BoundInv

LEMMA PushBound ==
  ASSUME FlowType, LoopBound, NEW e \in Event, TryPush(e),
         UNCHANGED <<loop, untilDue, polls, batch, entries, unread>>
  PROVE  LoopBound'
<1>1. queue \in Seq(Event) /\ Len(queue) \in Nat /\ Capacity \in Nat /\ Len(queue) <= Capacity
  BY ConstantsAssumption, LenProperties DEF FlowType, LoopBound
<1>2. CASE stop \/ Len(queue) >= Capacity
  BY <1>2 DEF TryPush, LoopBound
<1>3. CASE ~ (stop \/ Len(queue) >= Capacity)
  <2>1. queue' = Append(queue, e)
    BY <1>3 DEF TryPush
  <2>2. Len(queue') = Len(queue) + 1
    BY <1>1, <2>1, AppendProperties
  <2>3. Len(queue') <= Capacity
    BY <1>1, <1>3, <2>2
  <2> QED
    BY <2>3 DEF LoopBound
<1> QED
  BY <1>2, <1>3

(* What the callback pushes is an event. *)
EventOf(notice, number) ==
  [kind |-> notice.kind, hwnd |-> notice.hwnd, sequence |-> number,
   suppressLayout |-> Suppressed(notice)]

LEMMA EventOfType ==
  ASSUME NEW notice \in Notice, NEW number \in Nat
  PROVE  EventOf(notice, number) \in Event
<1>1. Suppressed(notice) \in BOOLEAN
  BY DEF Suppressed
<1> QED
  BY <1>1 DEF EventOf, Notice, Event

(* A callback, in one of its two outcomes. *)
LEMMA EventProcOutcomes ==
  ASSUME FlowType, EventProc
  PROVE  /\ posted # <<>> /\ posted' = Tail(posted)
         /\ Head(posted) \in Notice /\ Tail(posted) \in Seq(Notice)
         /\ Len(posted) \in Nat /\ Len(posted') = Len(posted) - 1
         /\ \A i \in 1 .. Len(posted') : posted'[i] = posted[i + 1]
         /\ UNCHANGED <<nth, held, clicked, clicks, changes, tracker, loopVars>>
         /\ \/ /\ IsAccepted(Head(posted)) /\ sequence' = sequence + 1
               /\ EventOf(Head(posted), sequence') \in Event
               /\ TryPush(EventOf(Head(posted), sequence'))
            \/ ~ IsAccepted(Head(posted)) /\ UNCHANGED <<sequence, queueVars>>
<1>1. posted \in Seq(Notice) /\ posted # <<>> /\ posted' = Tail(posted)
  BY DEF FlowType, EventProc
<1>2. /\ Head(posted) \in Notice /\ Tail(posted) \in Seq(Notice)
      /\ Len(posted) \in Nat /\ Len(posted') = Len(posted) - 1
      /\ \A i \in 1 .. Len(posted') : posted'[i] = posted[i + 1]
  BY <1>1, HeadTailProperties, LenProperties
<1>3. CASE IsAccepted(Head(posted))
  <2>1. sequence' = sequence + 1 /\ TryPush(EventOf(Head(posted), sequence'))
    BY <1>3 DEF EventProc, EventOf
  <2>2. sequence' \in Nat
    BY <2>1 DEF FlowType
  <2>3. EventOf(Head(posted), sequence') \in Event
    BY <1>2, <2>2, EventOfType
  <2> QED
    BY <1>1, <1>2, <1>3, <2>1, <2>3 DEF EventProc
<1>4. CASE ~ IsAccepted(Head(posted))
  BY <1>1, <1>2, <1>4 DEF EventProc
<1> QED
  BY <1>3, <1>4

LEMMA EventProcKeepsBound ==
  ASSUME FlowType, BoundInv, EventProc
  PROVE  BoundInv'
<1>1. /\ Len(posted) \in Nat /\ Len(posted') = Len(posted) - 1
      /\ UNCHANGED <<nth, held, clicked, clicks, changes, tracker, loopVars>>
      /\ \/ /\ sequence' = sequence + 1
            /\ EventOf(Head(posted), sequence') \in Event
            /\ TryPush(EventOf(Head(posted), sequence'))
         \/ UNCHANGED <<sequence, queueVars>>
  BY EventProcOutcomes
<1>2. Len(posted') <= MaxPosted /\ sequence' + Len(posted') <= MaxNotices
  <2>1. /\ MaxPosted \in Nat /\ MaxNotices \in Nat /\ sequence \in Nat
        /\ Len(posted) <= MaxPosted /\ sequence + Len(posted) <= MaxNotices
    BY ConstantsAssumption DEF FlowType, BoundInv, DesktopBound
  <2>2. sequence' = sequence + 1 \/ sequence' = sequence
    BY <1>1
  <2> QED
    BY <1>1, <2>1, <2>2
<1>3. Extras' = Extras
  BY <1>1 DEF Extras, loopVars
<1>4. DesktopBound'
  BY <1>1, <1>2, <1>3 DEF DesktopBound, BoundInv, loopVars
<1>5. UNCHANGED <<loop, untilDue, polls, batch, entries, unread>>
  BY <1>1 DEF loopVars, identityVars
<1>6. LoopBound'
  <2>1. CASE UNCHANGED queueVars
    BY <1>5, <2>1, LoopBoundKept DEF BoundInv, queueVars
  <2>2. CASE EventOf(Head(posted), sequence') \in Event /\ TryPush(EventOf(Head(posted), sequence'))
    BY <1>5, <2>2, PushBound DEF BoundInv
  <2> QED
    BY <1>1, <2>1, <2>2
<1> QED
  BY <1>4, <1>6 DEF BoundInv

LEMMA EnvironmentKeepsBound ==
  ASSUME FlowType, BoundInv, MarkEnvironmentChanged
  PROVE  BoundInv'
<1>1. /\ Extras < MaxExtras /\ changes' = changes + 1
      /\ TryPush(Synthetic("Reconcile", changes'))
      /\ UNCHANGED <<nth, held, clicked, posted, clicks, tracker, sequence, stop>>
      /\ UNCHANGED <<loop, untilDue, polls, batch, entries, unread>>
  BY DEF MarkEnvironmentChanged, loopVars, identityVars
<1>2. changes' \in Nat
  BY <1>1 DEF FlowType
<1>3. Extras' <= MaxExtras
  <2>1. clicks' = clicks + 0
    BY <1>1 DEF BoundInv, DesktopBound
  <2> QED
    BY <1>1, <2>1, ExtraStep
<1>4. DesktopBound'
  BY <1>1, <1>3 DEF DesktopBound, BoundInv
<1>5. LoopBound'
  BY <1>1, <1>2, SyntheticType, PushBound DEF BoundInv
<1> QED
  BY <1>4, <1>5 DEF BoundInv

LEMMA StopKeepsBound ==
  ASSUME FlowType, BoundInv, Stop
  PROVE  BoundInv'
<1>1. /\ Extras < MaxExtras /\ ~ stop /\ stop' = TRUE
      /\ UNCHANGED <<nth, held, clicked, posted, clicks, changes, tracker, sequence>>
      /\ UNCHANGED <<queue, unseen, loop, untilDue, polls, batch, entries, unread>>
  BY DEF Stop, desktopVars, queueVars, identityVars
<1>2. Extras' <= MaxExtras
  <2>1. clicks' = clicks + 0 /\ changes' = changes + 0
    BY <1>1 DEF FlowType, BoundInv, DesktopBound
  <2> QED
    BY <1>1, <2>1, ExtraStep
<1>3. DesktopBound'
  BY <1>1, <1>2 DEF DesktopBound, BoundInv
<1>4. LoopBound'
  BY <1>1, LoopBoundKept DEF BoundInv
<1> QED
  BY <1>3, <1>4 DEF BoundInv

LEMMA WaitPopKeepsBound ==
  ASSUME FlowType, BoundInv, WaitPop
  PROVE  BoundInv'
<1>1. /\ loop.at = "wait"
      /\ UNCHANGED <<desktopVars, tracker, sequence, unseen, stop, untilDue, polls, batch,
                     entries, unread>>
  BY DEF WaitPop, identityVars
<1>2. Len(queue') <= Capacity
  <2>1. CASE queue = <<>>
    BY <2>1 DEF WaitPop, BoundInv, LoopBound
  <2>2. CASE queue # <<>>
    <3>1. queue' = Tail(queue) /\ queue \in Seq(Event)
      BY <2>2 DEF WaitPop, FlowType
    <3>2. Len(queue') = Len(queue) - 1 /\ Len(queue) \in Nat
      BY <2>2, <3>1, HeadTailProperties, LenProperties
    <3>3. Capacity \in Nat /\ Len(queue) <= Capacity
      BY ConstantsAssumption DEF BoundInv, LoopBound
    <3> QED
      BY <3>2, <3>3
  <2> QED
    BY <2>1, <2>2
<1>3. DesktopBound'
  BY <1>1, DesktopBoundKept DEF BoundInv
<1>4. LoopBound'
  BY <1>1, <1>2 DEF BoundInv, LoopBound
<1> QED
  BY <1>3, <1>4 DEF BoundInv

LEMMA GatherKeepsBound ==
  ASSUME FlowType, BoundInv, Gather
  PROVE  BoundInv'
<1>1. /\ loop.at = "gather" /\ queue' = <<>>
      /\ UNCHANGED <<desktopVars, tracker, sequence, unseen, stop, batch, entries, unread>>
      /\ Poll \/ UNCHANGED <<untilDue, polls>>
  BY DEF Gather, identityVars
<1>2. untilDue' \in 0 .. Interval /\ polls' <= MaxPolls
  <2>1. untilDue \in 0 .. Interval /\ polls <= MaxPolls /\ polls \in Nat
    BY DEF BoundInv, LoopBound, FlowType
  <2>2. Interval \in Nat /\ MaxPolls \in Nat
    BY ConstantsAssumption
  <2> QED
    BY <1>1, <2>1, <2>2 DEF Poll
<1>3. Len(queue') <= Capacity
  BY <1>1, EmptySeq, ConstantsAssumption
<1>4. DesktopBound'
  BY <1>1, DesktopBoundKept DEF BoundInv
<1>5. LoopBound'
  BY <1>1, <1>2, <1>3 DEF BoundInv, LoopBound
<1> QED
  BY <1>4, <1>5 DEF BoundInv

(* What is sorted into a batch. *)
Gathered == IF unseen > 0 THEN Append(loop.events, Synthetic("HookError", 0)) ELSE loop.events

LEMMA GatheredType ==
  ASSUME FlowType
  PROVE  Gathered \in Seq(Event)
<1>1. Synthetic("HookError", 0) \in Event
  BY SyntheticType
<1> QED
  BY <1>1, AppendProperties DEF Gathered, FlowType

LEMMA ProcessKeepsBound ==
  ASSUME FlowType, BoundInv, Process
  PROVE  BoundInv'
<1>1. /\ Goto("process", <<>>) /\ batch' = Coalesce(Gathered)
      /\ UNCHANGED <<desktopVars, tracker, sequence, queue, stop, untilDue, polls, entries, unread>>
  BY DEF Process, Gathered, identityVars
<1>2. batch' \in Seq(Event)
  BY <1>1, GatheredType, CoalesceProperties
<1>3. loop'.at = "process"
  BY <1>1 DEF Goto
<1>4. DesktopBound'
  BY <1>1, DesktopBoundKept DEF BoundInv
<1>5. LoopBound'
  BY <1>1, <1>2, <1>3 DEF BoundInv, LoopBound
<1> QED
  BY <1>4, <1>5 DEF BoundInv

LEMMA ShownTells ==
  ASSUME BoundInv, NEW known \in [Hwnds -> {0, 1, 3}]
  PROVE  /\ Shown(known) \in [Hwnds -> {0, 1, 3}]
         /\ \A w \in Hwnds : Shown(known)[w] \in {known[w], nth[w]}
         /\ \A w \in Hwnds : known[w] = 0 => Shown(known)[w] \in {0, nth[w]}
<1>1. nth \in [Hwnds -> 1 .. 3]
  BY DEF BoundInv, DesktopBound
<1>2. \A w \in alive : nth[w] \in {0, 1, 3}
  BY <1>1 DEF alive
<1> QED
  BY <1>2 DEF Shown, AfterSnapshot

(* After the loop of process() a window goes by the key of an earlier one   *)
(* only if it did before and its end is not among the events read.          *)
LEMMA LoopTells ==
  ASSUME BoundInv, NEW events, NEW looks
  PROVE  /\ AfterLoop(events, looks) \in [Hwnds -> {0, 1, 3}]
         /\ \A w \in Hwnds : AfterLoop(events, looks)[w] \notin {0, nth[w]} =>
              AfterLoop(events, looks)[w] = entries[w] /\ ~ EndIsIn(events, w)
<1> DEFINE known == AfterEvents(entries, events)
           after == AfterLoop(events, looks)
<1>1. entries \in [Hwnds -> {0, 1, 3}]
  BY DEF BoundInv, LoopBound
<1>2. /\ known \in [Hwnds -> {0, 1, 3}]
      /\ \A w \in Hwnds : known[w] = IF EndIsIn(events, w) THEN 0 ELSE entries[w]
  BY <1>1 DEF AfterEvents, EndIsIn
<1> HIDE DEF known
<1>3. /\ Shown(known) \in [Hwnds -> {0, 1, 3}]
      /\ \A w \in Hwnds : Shown(known)[w] \in {known[w], nth[w]}
      /\ \A w \in Hwnds : known[w] = 0 => Shown(known)[w] \in {0, nth[w]}
  BY <1>2, ShownTells
<1>4. /\ after \in [Hwnds -> {0, 1, 3}]
      /\ \A w \in Hwnds : after[w] \in {known[w], Shown(known)[w]}
  BY <1>2, <1>3 DEF AfterLoop, known
<1> HIDE DEF after
<1>5. ASSUME NEW w \in Hwnds, after[w] \notin {0, nth[w]}
      PROVE  after[w] = entries[w] /\ ~ EndIsIn(events, w)
  <2>1. after[w] = known[w] /\ known[w] # 0
    BY <1>3, <1>4, <1>5
  <2> QED
    BY <1>2, <2>1
<1> QED
  BY <1>4, <1>5 DEF after

(* Each end in a batch is before or after a place at which it is cut.       *)
LEMMA EndInParts ==
  ASSUME NEW s \in Seq(Event), NEW n \in DOMAIN s, NEW w, EndIsIn(s, w)
  PROVE  EndIsIn(SubSeq(s, 1, n), w) \/ EndIsIn(SubSeq(s, n + 1, Len(s)), w)
<1> DEFINE first == SubSeq(s, 1, n)
           rest == SubSeq(s, n + 1, Len(s))
<1>1. PICK i \in DOMAIN s : Ends(s[i], w)
  BY DEF EndIsIn
<1>2. Len(s) \in Nat /\ DOMAIN s = 1 .. Len(s)
  BY LenProperties
<1>3. DOMAIN first = 1 .. n /\ \A k \in 1 .. n : first[k] = s[k]
  BY <1>2
<1>4. /\ DOMAIN rest = 1 .. (Len(s) - n)
      /\ \A k \in 1 .. (Len(s) - n) : rest[k] = s[n + k]
  BY <1>2
<1> HIDE DEF first, rest
<1>5. CASE i <= n
  <2>1. i \in DOMAIN first /\ first[i] = s[i]
    BY <1>2, <1>3, <1>5
  <2> QED
    BY <1>1, <2>1 DEF EndIsIn, first
<1>6. CASE ~ (i <= n)
  <2>1. i - n \in 1 .. (Len(s) - n) /\ n + (i - n) = i
    BY <1>2, <1>6
  <2>2. i - n \in DOMAIN rest /\ rest[i - n] = s[i]
    BY <1>4, <2>1
  <2> QED
    BY <1>1, <2>2 DEF EndIsIn, rest
<1> QED
  BY <1>5, <1>6

(* However a batch is left, an end in it was read, or is known as missed.   *)
LEMMA FinishBatchReturns ==
  ASSUME FlowType, BoundInv, FinishBatch
  PROVE  \E known \in [Hwnds -> {0, 1, 3}] : \E missed :
           /\ Returns(known, missed)
           /\ \A w \in Hwnds : known[w] \notin {0, nth[w]} =>
                known[w] = entries[w] /\ (EndIsIn(batch, w) => EndIsIn(missed, w))
<1>1. entries \in [Hwnds -> {0, 1, 3}] /\ batch \in Seq(Event)
  BY DEF BoundInv, LoopBound
<1>2. CASE PausedBatch
  BY <1>1, <1>2 DEF PausedBatch
<1>3. CASE AbandonedBatch
  <2>1. PICK n \in DragStarts(batch) :
          Returns(AfterLoop(SubSeq(batch, 1, n), DragStarts(SubSeq(batch, 1, n)) \ {n}),
                  SubSeq(batch, n + 1, Len(batch)))
    BY <1>3 DEF AbandonedBatch
  <2> DEFINE read == SubSeq(batch, 1, n)
             missed == SubSeq(batch, n + 1, Len(batch))
             known == AfterLoop(read, DragStarts(read) \ {n})
  <2>2. \A w : EndIsIn(batch, w) => EndIsIn(read, w) \/ EndIsIn(missed, w)
    BY <1>1, EndInParts DEF DragStarts
  <2>3. Returns(known, missed)
    BY <2>1
  <2> HIDE DEF read, missed
  <2>4. /\ known \in [Hwnds -> {0, 1, 3}]
        /\ \A w \in Hwnds : known[w] \notin {0, nth[w]} =>
             known[w] = entries[w] /\ ~ EndIsIn(read, w)
    BY LoopTells
  <2> HIDE DEF known
  <2> QED
    BY <2>2, <2>3, <2>4
<1>4. CASE WholeBatch
  <2> DEFINE known == AfterLoop(batch, DragStarts(batch))
  <2>1. Returns(known, <<>>) \/ Returns(Shown(known), <<>>)
    BY <1>4 DEF WholeBatch
  <2>2. /\ known \in [Hwnds -> {0, 1, 3}]
        /\ \A w \in Hwnds : known[w] \notin {0, nth[w]} =>
             known[w] = entries[w] /\ ~ EndIsIn(batch, w)
    BY LoopTells
  <2> HIDE DEF known
  <2>3. /\ Shown(known) \in [Hwnds -> {0, 1, 3}]
        /\ \A w \in Hwnds : Shown(known)[w] \notin {0, nth[w]} =>
             Shown(known)[w] = known[w] /\ known[w] # 0
    BY <2>2, ShownTells
  <2>4. \A w \in Hwnds : Shown(known)[w] \notin {0, nth[w]} =>
          Shown(known)[w] = entries[w] /\ ~ EndIsIn(batch, w)
    BY <2>2, <2>3
  <2>5. CASE Returns(known, <<>>)
    BY <2>2, <2>5
  <2>6. CASE Returns(Shown(known), <<>>)
    BY <2>3, <2>4, <2>6
  <2> QED
    BY <2>1, <2>5, <2>6
<1> QED
  BY <1>2, <1>3, <1>4 DEF FinishBatch

LEMMA FinishBatchKeepsBound ==
  ASSUME FlowType, BoundInv, FinishBatch
  PROVE  BoundInv'
<1>1. PICK known \in [Hwnds -> {0, 1, 3}] : \E missed : Returns(known, missed)
  BY FinishBatchReturns
<1>2. /\ entries' = known /\ unread' \subseteq Hwnds /\ batch' = <<>>
      /\ UNCHANGED <<desktopVars, tracker, sequence, queue, unseen, stop, untilDue, polls>>
  BY <1>1 DEF Returns, queueVars
<1>3. batch' \in Seq(Event) /\ entries' \in [Hwnds -> {0, 1, 3}]
  BY <1>2, EmptySeq
<1>4. DesktopBound'
  BY <1>2, DesktopBoundKept DEF BoundInv
<1>5. LoopBound'
  BY <1>2, <1>3 DEF BoundInv, LoopBound
<1> QED
  BY <1>4, <1>5 DEF BoundInv

LEMMA BoundNext == FlowType /\ BoundInv /\ [Next]_vars => BoundInv'
<1> SUFFICES ASSUME FlowType, BoundInv, [Next]_vars
             PROVE  BoundInv'
  OBVIOUS
<1>1. CASE Activate
  BY <1>1, TellKeepsBound DEF Activate, WindowKinds, Causes, BoundInv, DesktopBound
<1>2. CASE RightActivate
  BY <1>2, TellKeepsBound DEF RightActivate, WindowKinds, Causes
<1>3. CASE Move
  BY <1>3, TellKeepsBound DEF Move, WindowKinds, Causes, BoundInv, DesktopBound
<1>4. CASE UNCHANGED vars
  <2>1. UNCHANGED <<desktopVars, tracker, sequence, stop>>
    BY <1>4 DEF vars, loopVars
  <2>2. UNCHANGED <<queue, untilDue, polls, batch, entries, unread, loop>>
    BY <1>4 DEF vars, loopVars, queueVars, identityVars
  <2> QED
    BY <2>1, <2>2, DesktopBoundKept, LoopBoundKept DEF BoundInv
<1>5. CASE StartDrag
  BY <1>5, TellKeepsBound DEF StartDrag, WindowKinds, Causes, BoundInv, DesktopBound
<1> QED
  BY <1>1, <1>2, <1>3, <1>4, <1>5, DestroyKeepsBound, ReuseKeepsBound, TickKeepsBound,
     ButtonDownKeepsBound, ButtonUpKeepsBound, EventProcKeepsBound, EnvironmentKeepsBound,
     StopKeepsBound, WaitPopKeepsBound, GatherKeepsBound, ProcessKeepsBound,
     FinishBatchKeepsBound
  DEF Next, CoordinatorLoop, Ended

(* Whatever the sequence of activations, moves, clicks, ends of windows and *)
(* stops, every variable keeps its type: the queue never exceeds its        *)
(* capacity, and what the coordinator is given are events, sorted.          *)
THEOREM EventTypes == Spec => []TypeOK
<1>1. FlowType /\ LossInv /\ BoundInv /\ [Next]_vars => (FlowType /\ LossInv /\ BoundInv)'
  BY LossNext, BoundNext
<1>2. Init => FlowType /\ LossInv /\ BoundInv
  BY LossInit, BoundInit
<1>3. FlowType /\ LossInv /\ BoundInv => TypeOK
  BY BoundsGiveTypes
<1> QED
  BY <1>1, <1>2, <1>3, PTL DEF Spec

-----------------------------------------------------------------------------
(* Clicks and marks *)

(* A window that is clicked is the root of the tracker, and an activation   *)
(* that a click is still to explain is announced of that window, in time.   *)
Explained(number) ==
  posted[number].cause = "right" =>
    posted[number].hwnd = tracker.root /\ (held \/ tracker.age <= MaximumDelay)

ClickInv ==
  /\ tracker.root # 0 => clicks > 0
  /\ clicked # 0 => tracker.root = clicked
  /\ \A i \in 1 .. Len(posted) : Explained(i)

LEMMA ClickInit == Init => ClickInv
BY EmptySeq DEF Init, ClickInv

LEMMA PostedLast ==
  ASSUME FlowType, NEW kind \in WindowKinds, NEW w \in alive, NEW own \in BOOLEAN,
         NEW cause \in Causes, Post(kind, w, own, cause)
  PROVE  /\ Len(posted) \in Nat /\ Len(posted') = Len(posted) + 1
         /\ \A i \in 1 .. Len(posted) : posted'[i] = posted[i]
         /\ posted'[Len(posted) + 1] = [kind |-> kind, hwnd |-> w, own |-> own, cause |-> cause]
<1>1. [kind |-> kind, hwnd |-> w, own |-> own, cause |-> cause] \in Notice
  BY DEF alive, Notice
<1> QED
  BY <1>1, AppendProperties, LenProperties DEF FlowType, Post

LEMMA TellKeepsClicks ==
  ASSUME FlowType, ClickInv, NEW kind \in WindowKinds, NEW w \in alive,
         NEW own \in BOOLEAN, NEW cause \in Causes, Post(kind, w, own, cause),
         cause = "right" => w = tracker.root /\ (held \/ tracker.age <= MaximumDelay),
         clicked' \in {clicked, 0}, UNCHANGED <<held, clicks, tracker>>
  PROVE  ClickInv'
<1>1. /\ Len(posted) \in Nat /\ Len(posted') = Len(posted) + 1
      /\ \A i \in 1 .. Len(posted) : posted'[i] = posted[i]
      /\ posted'[Len(posted) + 1] = [kind |-> kind, hwnd |-> w, own |-> own, cause |-> cause]
  BY PostedLast
<1>2. ASSUME NEW i \in 1 .. Len(posted')
      PROVE  Explained(i)'
  <2>1. CASE i \in 1 .. Len(posted)
    BY <1>1, <2>1 DEF ClickInv, Explained
  <2>2. CASE i = Len(posted) + 1
    BY <1>1, <2>2 DEF Explained
  <2> QED
    BY <1>1, <2>1, <2>2
<1> QED
  BY <1>2 DEF ClickInv

(* After a click the announcements of earlier ones explain nothing. *)
LEMMA ForgottenIsNotRight ==
  ASSUME FlowType, ForgetClicks
  PROVE  \A i \in 1 .. Len(posted') : posted'[i].cause # "right"
<1>1. posted \in Seq(Notice) /\ DOMAIN posted = 1 .. Len(posted) /\ Len(posted') = Len(posted)
  BY LenProperties, ForgetBound DEF FlowType
<1>2. ASSUME NEW i \in 1 .. Len(posted)
      PROVE  Forgotten(posted[i]).cause # "right"
  <2>1. posted[i] \in Notice
    BY <1>1, ElementOfSeq
  <2>2. CASE posted[i].cause = "right"
    <3>1. [posted[i] EXCEPT !.cause = "stale"].cause = "stale"
      BY <2>1 DEF Notice
    <3> QED
      BY <2>2, <3>1 DEF Forgotten
  <2>3. CASE posted[i].cause # "right"
    BY <2>3 DEF Forgotten
  <2> QED
    BY <2>2, <2>3
<1> QED
  BY <1>1, <1>2 DEF ForgetClicks

LEMMA ClickNext == FlowType /\ BoundInv /\ ClickInv /\ [Next]_vars => ClickInv'
<1> SUFFICES ASSUME FlowType, BoundInv, ClickInv, [Next]_vars
             PROVE  ClickInv'
  OBVIOUS
<1>1. CASE Activate
  BY <1>1, TellKeepsClicks DEF Activate, WindowKinds, Causes
<1>2. CASE RightActivate
  <2>1. PICK w \in alive \cap {clicked} :
          /\ held \/ tracker.age <= MaximumDelay
          /\ Post("Foreground", w, TRUE, "right")
          /\ clicked' = 0 /\ UNCHANGED <<held, clicks, tracker>>
    BY <1>2 DEF RightActivate
  <2>2. w = tracker.root
    <3>1. w # 0
      BY ConstantsAssumption DEF alive
    <3> QED
      BY <3>1 DEF ClickInv
  <2> QED
    BY <2>1, <2>2, TellKeepsClicks DEF WindowKinds, Causes
<1>3. CASE Move
  BY <1>3, TellKeepsClicks DEF Move, WindowKinds, Causes
<1>4. CASE DestroyWindow
  BY <1>4, TellKeepsClicks DEF DestroyWindow, WindowKinds, Causes
<1>5. CASE Tick
  <2>1. /\ tracker' = IF ClickAges THEN [tracker EXCEPT !.age = @ + 1] ELSE tracker
        /\ UNCHANGED <<held, clicked, clicks>>
    BY <1>5 DEF Tick
  <2>2. /\ tracker.age \in Nat /\ MaximumDelay \in Nat
        /\ tracker'.root = tracker.root /\ tracker'.age \in {tracker.age, tracker.age + 1}
    BY <2>1, ConstantsAssumption DEF BoundInv, DesktopBound
  <2>3. CASE ~ held /\ tracker.age >= MaximumDelay
    <3>1. ForgetClicks
      BY <1>5, <2>3 DEF Tick
    <3>2. \A i \in 1 .. Len(posted') : Explained(i)'
      BY <3>1, ForgottenIsNotRight DEF Explained
    <3> QED
      BY <2>1, <2>2, <3>2 DEF ClickInv
  <2>4. CASE ~ (~ held /\ tracker.age >= MaximumDelay)
    <3>1. posted' = posted
      BY <1>5, <2>4 DEF Tick
    <3>2. held' \/ tracker'.age <= MaximumDelay
      BY <2>1, <2>2, <2>4
    <3>3. ASSUME NEW i \in 1 .. Len(posted')
          PROVE  Explained(i)'
      BY <2>2, <3>1, <3>2 DEF ClickInv, Explained
    <3> QED
      BY <2>1, <2>2, <3>3 DEF ClickInv
  <2> QED
    BY <2>3, <2>4
<1>6. CASE ButtonDown
  <2>1. PICK w \in alive \cup {0} :
          /\ clicks' = clicks + 1 /\ clicked' = w /\ tracker' = [root |-> w, age |-> 0]
          /\ ForgetClicks
    BY <1>6 DEF ButtonDown
  <2>2. clicks' > 0
    BY <2>1 DEF BoundInv, DesktopBound
  <2>3. \A i \in 1 .. Len(posted') : Explained(i)'
    BY <2>1, ForgottenIsNotRight DEF Explained
  <2> QED
    BY <2>1, <2>2, <2>3 DEF ClickInv
<1>7. CASE ButtonUp
  <2>1. /\ tracker' = IF tracker.root # 0 THEN [tracker EXCEPT !.age = 0] ELSE tracker
        /\ UNCHANGED <<clicked, posted, clicks>>
    BY <1>7 DEF ButtonUp
  <2>2. /\ tracker'.root = tracker.root
        /\ tracker.root # 0 => tracker'.age <= MaximumDelay
    BY <2>1, ConstantsAssumption DEF BoundInv, DesktopBound
  <2>3. ASSUME NEW i \in 1 .. Len(posted)
        PROVE  Explained(i)'
    <3>1. posted[i] \in Notice
      BY ElementOfSeq DEF FlowType
    <3>2. posted[i].hwnd # 0
      BY <3>1, ConstantsAssumption DEF Notice
    <3>3. Explained(i)
      BY DEF ClickInv
    <3> QED
      BY <2>1, <2>2, <3>2, <3>3 DEF Explained
  <2> QED
    BY <2>1, <2>2, <2>3 DEF ClickInv
<1>8. CASE EventProc
  <2>1. /\ Len(posted) \in Nat /\ Len(posted') = Len(posted) - 1
        /\ \A i \in 1 .. Len(posted') : posted'[i] = posted[i + 1]
        /\ UNCHANGED <<held, clicked, clicks, tracker>>
    BY <1>8, EventProcOutcomes
  <2>2. ASSUME NEW i \in 1 .. Len(posted')
        PROVE  Explained(i)'
    <3>1. i + 1 \in 1 .. Len(posted) /\ posted'[i] = posted[i + 1]
      BY <2>1
    <3>2. Explained(i + 1)
      BY <3>1 DEF ClickInv
    <3> QED
      BY <2>1, <3>1, <3>2 DEF Explained
  <2> QED
    BY <2>1, <2>2 DEF ClickInv
<1>9. CASE UNCHANGED <<held, clicked, posted, clicks, tracker>>
  BY <1>9 DEF ClickInv, Explained
<1>10. CASE ReuseHandle \/ MarkEnvironmentChanged
  BY <1>9, <1>10 DEF ReuseHandle, MarkEnvironmentChanged
<1>11. CASE Stop \/ CoordinatorLoop \/ UNCHANGED vars
  BY <1>9, <1>11 DEF Stop, CoordinatorLoop, WaitPop, Gather, Process, FinishBatch,
       PausedBatch, AbandonedBatch, WholeBatch, Returns, vars, desktopVars
<1>12. CASE StartDrag
  BY <1>12, TellKeepsClicks DEF StartDrag, WindowKinds, Causes
<1> QED
  BY <1>1, <1>2, <1>3, <1>4, <1>5, <1>6, <1>7, <1>8, <1>10, <1>11, <1>12 DEF Next, Ended

(* A callback that is accepted is marked exactly as Suppressed says. *)
LEMMA MarkIsSuppressed ==
  ASSUME FlowType, EventProc, Len(queue') > Len(queue)
  PROVE  Last(queue').suppressLayout = Suppressed(Head(posted))
<1> DEFINE e == EventOf(Head(posted), sequence')
<1>1. queue \in Seq(Event) /\ Len(queue) \in Nat
  BY LenProperties DEF FlowType
<1>2. e \in Event /\ TryPush(e)
  BY <1>1, EventProcOutcomes DEF queueVars
<1>3. queue' = Append(queue, e)
  BY <1>1, <1>2 DEF TryPush
<1> HIDE DEF e
<1>4. Len(queue') = Len(queue) + 1 /\ queue'[Len(queue) + 1] = e
  BY <1>1, <1>2, <1>3, AppendProperties
<1>5. Last(queue') = e
  BY <1>4 DEF Last
<1> QED
  BY <1>5 DEF e, EventOf

(* For any delay, any windows and any order of clicks, releases, ticks and  *)
(* callbacks: what a right click of the user activates is marked, and, once *)
(* the button is up, nothing but the window that was clicked is, until too  *)
(* long after the release.                                                  *)
THEOREM RightClicksAreMarked == Spec => MarksFollowClicks
<1>1. FlowType /\ LossInv /\ BoundInv /\ ClickInv /\ [Next]_vars
        => (FlowType /\ LossInv /\ BoundInv /\ ClickInv)'
  BY LossNext, BoundNext, ClickNext
<1>2. Init => FlowType /\ LossInv /\ BoundInv /\ ClickInv
  BY LossInit, BoundInit, ClickInit
<1> DEFINE Marks ==
      EventProc /\ Len(queue') > Len(queue) /\ Head(posted).kind = "Foreground" =>
       LET notice == Head(posted)
           marked == Last(queue').suppressLayout
       IN /\ notice.cause = "right" => marked
          /\ marked /\ ~ held =>
               notice.hwnd = tracker.root /\ tracker.age <= MaximumDelay /\ clicks > 0
<1>3. FlowType /\ BoundInv /\ ClickInv /\ [Next]_vars => [Marks]_vars
  <2> SUFFICES ASSUME FlowType, BoundInv, ClickInv, EventProc, Len(queue') > Len(queue),
                      Head(posted).kind = "Foreground"
               PROVE  /\ Head(posted).cause = "right" => Last(queue').suppressLayout
                      /\ Last(queue').suppressLayout /\ ~ held =>
                           /\ Head(posted).hwnd = tracker.root
                           /\ tracker.age <= MaximumDelay /\ clicks > 0
    OBVIOUS
  <2>1. Last(queue').suppressLayout = Suppressed(Head(posted))
    BY MarkIsSuppressed
  <2>2. Head(posted) \in Notice /\ Head(posted) = posted[1] /\ 1 \in 1 .. Len(posted)
    <3>1. Len(posted) \in Nat /\ Len(posted) # 0
      BY EmptySeq, EventProcOutcomes DEF FlowType
    <3> QED
      BY <3>1, EventProcOutcomes, HeadTailProperties DEF FlowType
  <2>3. Explained(1)
    BY <2>2 DEF ClickInv
  <2>4. Head(posted).hwnd # 0
    BY <2>2, ConstantsAssumption DEF Notice
  <2> QED
    BY <2>1, <2>2, <2>3, <2>4 DEF Suppressed, Explained, ClickInv
<1> QED
  BY <1>1, <1>2, <1>3, PTL DEF Spec, MarksFollowClicks

-----------------------------------------------------------------------------
(* The ends of windows *)

LEMMA EndInAppend ==
  ASSUME NEW S, NEW s \in Seq(S), NEW e \in S, NEW w
  PROVE  EndIsIn(Append(s, e), w) <=> EndIsIn(s, w) \/ Ends(e, w)
<1> DEFINE t == Append(s, e)
<1>1. /\ Len(s) \in Nat /\ DOMAIN s = 1 .. Len(s) /\ DOMAIN t = 1 .. (Len(s) + 1)
      /\ \A i \in 1 .. Len(s) : t[i] = s[i]
      /\ t[Len(s) + 1] = e
  BY AppendProperties, LenProperties
<1> HIDE DEF t
<1>2. EndIsIn(s, w) => EndIsIn(t, w)
  BY <1>1 DEF EndIsIn
<1>3. Ends(e, w) => EndIsIn(t, w)
  <2>1. Len(s) + 1 \in DOMAIN t
    BY <1>1
  <2> QED
    BY <1>1, <2>1 DEF EndIsIn
<1>4. EndIsIn(t, w) => EndIsIn(s, w) \/ Ends(e, w)
  BY <1>1 DEF EndIsIn
<1> QED
  BY <1>2, <1>3, <1>4 DEF t

LEMMA EndInConcat ==
  ASSUME NEW S, NEW s \in Seq(S), NEW t \in Seq(S), NEW w
  PROVE  EndIsIn(s \o t, w) <=> EndIsIn(s, w) \/ EndIsIn(t, w)
<1> DEFINE u == s \o t
<1>1. /\ Len(s) \in Nat /\ DOMAIN s = 1 .. Len(s)
      /\ Len(t) \in Nat /\ DOMAIN t = 1 .. Len(t)
      /\ DOMAIN u = 1 .. (Len(s) + Len(t))
      /\ \A i \in 1 .. (Len(s) + Len(t)) : u[i] = IF i <= Len(s) THEN s[i] ELSE t[i - Len(s)]
  BY ConcatProperties, LenProperties
<1> HIDE DEF u
<1>2. EndIsIn(s, w) => EndIsIn(u, w)
  <2> SUFFICES ASSUME NEW i \in 1 .. Len(s), Ends(s[i], w)
               PROVE  \E k \in 1 .. (Len(s) + Len(t)) : Ends(u[k], w)
    BY <1>1 DEF EndIsIn
  <2> QED
    BY <1>1
<1>3. EndIsIn(t, w) => EndIsIn(u, w)
  <2> SUFFICES ASSUME NEW i \in 1 .. Len(t), Ends(t[i], w)
               PROVE  \E k \in 1 .. (Len(s) + Len(t)) : Ends(u[k], w)
    BY <1>1 DEF EndIsIn
  <2>1. /\ Len(s) + i \in 1 .. (Len(s) + Len(t)) /\ ~ (Len(s) + i <= Len(s))
        /\ (Len(s) + i) - Len(s) = i
    BY <1>1
  <2>2. u[Len(s) + i] = t[i]
    BY <1>1, <2>1
  <2> QED
    BY <2>1, <2>2
<1>4. EndIsIn(u, w) => EndIsIn(s, w) \/ EndIsIn(t, w)
  <2> SUFFICES ASSUME NEW i \in 1 .. (Len(s) + Len(t)), Ends(u[i], w)
               PROVE  EndIsIn(s, w) \/ EndIsIn(t, w)
    BY <1>1 DEF EndIsIn
  <2>1. CASE i <= Len(s)
    BY <1>1, <2>1 DEF EndIsIn
  <2>2. CASE ~ (i <= Len(s))
    <3>1. i - Len(s) \in 1 .. Len(t) /\ u[i] = t[i - Len(s)]
      BY <1>1, <2>2
    <3> QED
      BY <1>1, <3>1 DEF EndIsIn
  <2> QED
    BY <2>1, <2>2
<1> QED
  BY <1>2, <1>3, <1>4 DEF u

LEMMA EndInTail ==
  ASSUME NEW S, NEW s \in Seq(S), s # <<>>, NEW w, EndIsIn(s, w)
  PROVE  Ends(Head(s), w) \/ EndIsIn(Tail(s), w)
<1>1. PICK i \in DOMAIN s : Ends(s[i], w)
  BY DEF EndIsIn
<1>2. /\ Len(s) \in Nat /\ DOMAIN s = 1 .. Len(s) /\ DOMAIN Tail(s) = 1 .. (Len(s) - 1)
      /\ \A k \in 1 .. (Len(s) - 1) : Tail(s)[k] = s[k + 1]
  BY HeadTailProperties, LenProperties
<1>3. CASE i = 1
  <2>1. Head(s) = s[1]
    OBVIOUS
  <2> QED
    BY <1>1, <1>3, <2>1
<1>4. CASE i # 1
  <2>1. i - 1 \in 1 .. (Len(s) - 1) /\ (i - 1) + 1 = i
    BY <1>2, <1>4
  <2> QED
    BY <1>1, <1>2, <2>1 DEF EndIsIn
<1> QED
  BY <1>3, <1>4

(* Only locations are coalesced. *)
LEMMA EndInCoalesce ==
  ASSUME NEW events \in Seq(Event), NEW w, EndIsIn(events, w)
  PROVE  EndIsIn(Coalesce(events), w)
<1>1. PICK i \in DOMAIN events : Ends(events[i], w)
  BY DEF EndIsIn
<1>2. i \in Kept(events)
  BY <1>1 DEF Kept, Superseded, Ends
<1> QED
  BY <1>1, <1>2, CoalesceProperties DEF EndIsIn

(* The end of w is on its way to the identity tracker. *)
EndAhead(w) ==
  EndIsIn(posted, w) \/ EndIsIn(loop.events, w) \/ EndIsIn(queue, w) \/ EndIsIn(batch, w)

Misnamed(w) == entries[w] \notin {0, nth[w]}

(* Whether the window exists or not.                                       *)
KeysInv ==
  /\ \A i \in 1 .. Len(posted) : posted[i].kind = "Destroy" => posted[i].own
  /\ \A w \in Hwnds : Misnamed(w) => w \in unread \/ unseen > 0 \/ EndAhead(w)

LEMMA KeysInit == Init => KeysInv
BY EmptySeq DEF Init, KeysInv, Misnamed

LEMMA KeysSuffice == FlowType /\ BoundInv /\ KeysInv => KeysTellWindowsApart
<1> SUFFICES ASSUME FlowType, BoundInv, KeysInv, NEW w \in alive, EndAhead(w)
             PROVE  EndIsIn(posted \o loop.events \o queue \o batch, w)
  BY DEF KeysInv, KeysTellWindowsApart, Misnamed, alive
<1> DEFINE Both == Notice \cup Event
<1>1. posted \in Seq(Both) /\ loop.events \in Seq(Both) /\ queue \in Seq(Both) /\ batch \in Seq(Both)
  <2>1. Notice \subseteq Both /\ Event \subseteq Both
    OBVIOUS
  <2> HIDE DEF Both
  <2>2. posted \in Seq(Notice) /\ loop.events \in Seq(Event) /\ queue \in Seq(Event) /\ batch \in Seq(Event)
    BY DEF FlowType, BoundInv, LoopBound
  <2> QED
    BY <2>1, <2>2, SeqMonotonic
<1> HIDE DEF Both
<1> DEFINE first == posted \o loop.events
           second == first \o queue
<1>2. first \in Seq(Both) /\ (EndIsIn(first, w) <=> EndIsIn(posted, w) \/ EndIsIn(loop.events, w))
  BY <1>1, ConcatProperties, EndInConcat
<1> HIDE DEF first
<1>3. second \in Seq(Both) /\ (EndIsIn(second, w) <=> EndIsIn(first, w) \/ EndIsIn(queue, w))
  BY <1>1, <1>2, ConcatProperties, EndInConcat
<1> HIDE DEF second
<1>4. EndIsIn(second \o batch, w) <=> EndIsIn(second, w) \/ EndIsIn(batch, w)
  BY <1>1, <1>3, EndInConcat
<1>5. EndIsIn(second \o batch, w)
  BY <1>2, <1>3, <1>4 DEF EndAhead
<1> QED
  BY <1>5 DEF first, second

(* A step that does not read the batch keeps the claim when it loses no end *)
(* unnoticed, and tells the end of what it ends.                           *)
LEMMA KeysKept ==
  ASSUME KeysInv, UNCHANGED <<entries, unread>>,
         \A i \in 1 .. Len(posted') : posted'[i].kind = "Destroy" => posted'[i].own,
         \A w \in Hwnds : Misnamed(w)' => Misnamed(w) \/ EndAhead(w)',
         \A w \in Hwnds : EndAhead(w) => EndAhead(w)' \/ unseen' > 0,
         unseen > 0 => unseen' > 0 \/ \A w \in Hwnds : EndAhead(w)'
  PROVE  KeysInv'
BY DEF KeysInv

LEMMA TellKeepsKeys ==
  ASSUME FlowType, KeysInv, NEW kind \in WindowKinds, NEW w \in alive,
         NEW own \in BOOLEAN, NEW cause \in Causes, Post(kind, w, own, cause),
         kind = "Destroy" => own,
         UNCHANGED <<queueVars, loopVars>>,
         \/ UNCHANGED nth
         \/ kind = "Destroy" /\ nth' = [nth EXCEPT ![w] = 2] /\ nth \in [Hwnds -> 1 .. 3]
  PROVE  KeysInv'
<1> DEFINE n == [kind |-> kind, hwnd |-> w, own |-> own, cause |-> cause]
<1>1. n \in Notice /\ posted \in Seq(Notice) /\ posted' = Append(posted, n)
  BY DEF alive, Notice, FlowType, Post
<1>2. /\ Len(posted) \in Nat /\ Len(posted') = Len(posted) + 1
      /\ \A i \in 1 .. Len(posted) : posted'[i] = posted[i]
      /\ posted'[Len(posted) + 1] = n
  BY PostedLast
<1>3. UNCHANGED <<queue, unseen, loop, batch, entries, unread>>
  BY DEF queueVars, loopVars, identityVars
<1>4. \A i \in 1 .. Len(posted') : posted'[i].kind = "Destroy" => posted'[i].own
  BY <1>2 DEF KeysInv
<1>5. \A v : EndIsIn(posted', v) <=> EndIsIn(posted, v) \/ Ends(n, v)
  <2> HIDE DEF n
  <2> QED
    BY <1>1, EndInAppend
<1>6. \A v \in Hwnds : EndAhead(v) => EndAhead(v)'
  BY <1>3, <1>5 DEF EndAhead, EndIsIn
<1>7. \A v \in Hwnds : Misnamed(v)' => Misnamed(v) \/ EndAhead(v)'
  <2>1. CASE UNCHANGED nth
    BY <1>3, <2>1 DEF Misnamed
  <2>2. CASE kind = "Destroy" /\ nth' = [nth EXCEPT ![w] = 2] /\ nth \in [Hwnds -> 1 .. 3]
    <3>1. Ends(n, w)
      BY <2>2 DEF Ends
    <3>2. EndAhead(w)'
      BY <1>5, <3>1 DEF EndAhead
    <3>3. \A v \in Hwnds : v # w => nth'[v] = nth[v]
      BY <2>2
    <3> QED
      BY <1>3, <3>2, <3>3 DEF Misnamed
  <2> QED
    BY <2>1, <2>2
<1> QED
  BY <1>3, <1>4, <1>6, <1>7, KeysKept

LEMMA ForgetKeepsEnds ==
  ASSUME FlowType, KeysInv, ForgetClicks
  PROVE  /\ \A w : EndIsIn(posted', w) <=> EndIsIn(posted, w)
         /\ \A i \in 1 .. Len(posted') : posted'[i].kind = "Destroy" => posted'[i].own
<1>1. posted \in Seq(Notice) /\ DOMAIN posted = 1 .. Len(posted) /\ Len(posted') = Len(posted)
  BY LenProperties, ForgetBound DEF FlowType
<1>2. DOMAIN posted' = DOMAIN posted /\ \A i \in DOMAIN posted : posted'[i] = Forgotten(posted[i])
  BY DEF ForgetClicks
<1>3. ASSUME NEW i \in DOMAIN posted
      PROVE  /\ posted'[i].kind = posted[i].kind /\ posted'[i].hwnd = posted[i].hwnd
             /\ posted'[i].own = posted[i].own
  <2>1. posted[i] \in Notice
    BY <1>1, ElementOfSeq
  <2> QED
    BY <1>2, <2>1 DEF Forgotten, Notice
<1>4. \A i \in 1 .. Len(posted') : posted'[i].kind = "Destroy" => posted'[i].own
  BY <1>1, <1>3 DEF KeysInv
<1>5. \A w : EndIsIn(posted', w) <=> EndIsIn(posted, w)
  BY <1>2, <1>3 DEF EndIsIn, Ends
<1> QED
  BY <1>4, <1>5

(* What is pushed is queued or counted as lost. *)
LEMMA PushTells ==
  ASSUME FlowType, NEW e \in Event, TryPush(e)
  PROVE  /\ \A w : EndIsIn(queue, w) \/ Ends(e, w) => EndIsIn(queue', w) \/ unseen' > 0
         /\ unseen > 0 => unseen' > 0
<1>1. queue \in Seq(Event) /\ unseen \in Nat
  BY DEF FlowType
<1>2. CASE stop \/ Len(queue) >= Capacity
  BY <1>1, <1>2 DEF TryPush
<1>3. CASE ~ (stop \/ Len(queue) >= Capacity)
  <2>1. queue' = Append(queue, e) /\ unseen' = unseen
    BY <1>3 DEF TryPush
  <2>2. \A w : EndIsIn(queue', w) <=> EndIsIn(queue, w) \/ Ends(e, w)
    BY <1>1, <2>1, EndInAppend
  <2> QED
    BY <2>1, <2>2
<1> QED
  BY <1>2, <1>3

LEMMA EventProcKeepsKeys ==
  ASSUME FlowType, KeysInv, EventProc
  PROVE  KeysInv'
<1>1. /\ posted \in Seq(Notice) /\ posted # <<>> /\ posted' = Tail(posted)
      /\ Len(posted) \in Nat /\ Len(posted') = Len(posted) - 1
      /\ \A i \in 1 .. Len(posted') : posted'[i] = posted[i + 1]
      /\ UNCHANGED <<nth, loop, batch, entries, unread>>
      /\ \/ /\ IsAccepted(Head(posted))
            /\ EventOf(Head(posted), sequence') \in Event
            /\ TryPush(EventOf(Head(posted), sequence'))
         \/ ~ IsAccepted(Head(posted)) /\ UNCHANGED <<queue, unseen>>
  BY EventProcOutcomes DEF FlowType, loopVars, queueVars, identityVars
<1>2. \A i \in 1 .. Len(posted') : posted'[i].kind = "Destroy" => posted'[i].own
  <2> TAKE i \in 1 .. Len(posted')
  <2>1. i + 1 \in 1 .. Len(posted) /\ posted'[i] = posted[i + 1]
    BY <1>1
  <2> QED
    BY <2>1 DEF KeysInv
<1>3. ASSUME NEW w \in Hwnds, EndIsIn(posted, w)
      PROVE  EndIsIn(posted', w) \/ Ends(Head(posted), w)
  BY <1>1, <1>3, EndInTail
<1>4. Head(posted).kind = "Destroy" => Head(posted).own
  <2>1. Head(posted) = posted[1] /\ 1 \in 1 .. Len(posted)
    <3>1. Len(posted) # 0
      BY <1>1, EmptySeq
    <3> QED
      BY <1>1, <3>1
  <2> QED
    BY <2>1 DEF KeysInv
<1>5. ASSUME NEW w \in Hwnds, Ends(Head(posted), w)
      PROVE  /\ IsAccepted(Head(posted))
             /\ Ends(EventOf(Head(posted), sequence'), w)
  <2>1. Head(posted).kind = "Destroy" /\ Head(posted).hwnd = w
    <3>1. Head(posted) \in Notice
      BY EventProcOutcomes
    <3> QED
      BY <1>5, <3>1 DEF Notice, WindowKinds, Ends
  <2> QED
    BY <1>4, <2>1 DEF IsAccepted, ObjectKinds, EventOf, Ends
<1>6. CASE TryPush(EventOf(Head(posted), sequence')) /\ EventOf(Head(posted), sequence') \in Event
  <2>1. /\ \A w : EndIsIn(queue, w) \/ Ends(EventOf(Head(posted), sequence'), w)
               => EndIsIn(queue', w) \/ unseen' > 0
        /\ unseen > 0 => unseen' > 0
    BY <1>6, PushTells
  <2>2. \A w \in Hwnds : EndAhead(w) => EndAhead(w)' \/ unseen' > 0
    BY <1>1, <1>3, <1>5, <2>1 DEF EndAhead
  <2>3. \A w \in Hwnds : Misnamed(w)' => Misnamed(w)
    BY <1>1 DEF Misnamed
  <2> QED
    BY <1>1, <1>2, <2>1, <2>2, <2>3, KeysKept
<1>7. CASE ~ IsAccepted(Head(posted)) /\ UNCHANGED <<queue, unseen>>
  <2>1. \A w \in Hwnds : EndAhead(w) => EndAhead(w)'
    BY <1>1, <1>3, <1>5, <1>7 DEF EndAhead
  <2>2. \A w \in Hwnds : Misnamed(w)' => Misnamed(w)
    BY <1>1 DEF Misnamed
  <2> QED
    BY <1>1, <1>2, <1>7, <2>1, <2>2, KeysKept
<1> QED
  BY <1>1, <1>6, <1>7

LEMMA WaitPopKeepsKeys ==
  ASSUME FlowType, LossInv, KeysInv, WaitPop
  PROVE  KeysInv'
<1>1. /\ UNCHANGED <<nth, posted, unseen, batch, entries, unread>>
      /\ loop.events = <<>> /\ queue \in Seq(Event)
  BY DEF WaitPop, desktopVars, identityVars, FlowType, LossInv
<1>2. \A w \in Hwnds : EndIsIn(queue, w) => EndIsIn(loop'.events, w) \/ EndIsIn(queue', w)
  <2>1. CASE queue = <<>>
    BY <2>1 DEF EndIsIn, WaitPop
  <2>2. CASE queue # <<>>
    <3>1. loop'.events = <<Head(queue)>> /\ queue' = Tail(queue)
      BY <2>2 DEF WaitPop, Goto
    <3>2. \A w : EndIsIn(queue, w) => Ends(Head(queue), w) \/ EndIsIn(queue', w)
      BY <1>1, <2>2, <3>1, EndInTail
    <3>3. \A w : Ends(Head(queue), w) => EndIsIn(loop'.events, w)
      BY <3>1 DEF EndIsIn
    <3> QED
      BY <3>2, <3>3
  <2> QED
    BY <2>1, <2>2
<1>3. \A w \in Hwnds : ~ EndIsIn(loop.events, w)
  BY <1>1 DEF EndIsIn
<1>4. \A w \in Hwnds : EndAhead(w) => EndAhead(w)'
  BY <1>1, <1>2, <1>3 DEF EndAhead
<1>5. \A w \in Hwnds : Misnamed(w)' => Misnamed(w)
  BY <1>1 DEF Misnamed
<1>6. \A i \in 1 .. Len(posted') : posted'[i].kind = "Destroy" => posted'[i].own
  BY <1>1 DEF KeysInv
<1> QED
  BY <1>1, <1>4, <1>5, <1>6, KeysKept

LEMMA GatherKeepsKeys ==
  ASSUME FlowType, KeysInv, Gather
  PROVE  KeysInv'
<1> DEFINE arrived == loop.events \o queue
<1>1. UNCHANGED <<nth, posted, unseen, batch, entries, unread>>
  BY DEF Gather, desktopVars, identityVars
<1>2. loop.events \in Seq(Event) /\ queue \in Seq(Event) /\ arrived \in Seq(Event)
  BY ConcatProperties DEF FlowType
<1>3. \A w : EndIsIn(arrived, w) <=> EndIsIn(loop.events, w) \/ EndIsIn(queue, w)
  BY <1>2, EndInConcat
<1>4. \A w \in Hwnds : EndIsIn(arrived, w) => EndIsIn(loop'.events, w)
  <2>1. CASE untilDue = 0
    <3> DEFINE e == Synthetic("Reconcile", polls + 1)
    <3>1. Poll /\ loop'.events = Append(arrived, e)
      BY <2>1 DEF Gather, Goto
    <3>2. e \in Event
      BY <3>1, SyntheticType DEF Poll, FlowType
    <3> HIDE DEF e, arrived
    <3> QED
      BY <1>2, <3>1, <3>2, EndInAppend
  <2>2. CASE untilDue # 0 /\ arrived = <<>>
    <3>1. \A w : ~ EndIsIn(<<>>, w)
      BY DEF EndIsIn
    <3> QED
      BY <2>2, <3>1
  <2>3. CASE untilDue # 0 /\ arrived # <<>>
    <3>1. Goto("report", arrived)
      BY <2>3 DEF Gather
    <3> HIDE DEF arrived
    <3>2. loop'.events = arrived
      BY <3>1 DEF Goto
    <3> QED
      BY <3>2
  <2> QED
    BY <2>1, <2>2, <2>3
<1>5. \A w \in Hwnds : EndAhead(w) => EndAhead(w)'
  <2> HIDE DEF arrived
  <2> QED
    BY <1>1, <1>3, <1>4 DEF EndAhead
<1>6. \A w \in Hwnds : Misnamed(w)' => Misnamed(w)
  BY <1>1 DEF Misnamed
<1>7. \A i \in 1 .. Len(posted') : posted'[i].kind = "Destroy" => posted'[i].own
  BY <1>1 DEF KeysInv
<1> QED
  BY <1>1, <1>5, <1>6, <1>7, KeysKept

LEMMA ProcessKeepsKeys ==
  ASSUME FlowType, BoundInv, KeysInv, Process
  PROVE  KeysInv'
<1>1. /\ UNCHANGED <<nth, posted, queue, entries, unread>>
      /\ batch' = Coalesce(Gathered) /\ batch = <<>>
  BY DEF Process, Gathered, desktopVars, identityVars, BoundInv, LoopBound
<1>2. loop.events \in Seq(Event) /\ unseen \in Nat
  BY DEF FlowType
<1>3. \A w : EndIsIn(Gathered, w) => EndIsIn(batch', w)
  BY <1>1, GatheredType, EndInCoalesce
<1>4. Synthetic("HookError", 0) \in Event /\ \A w : Ends(Synthetic("HookError", 0), w)
  BY SyntheticType DEF Synthetic, Ends
<1>5. \A w : EndIsIn(loop.events, w) \/ unseen > 0 => EndIsIn(Gathered, w)
  <2>1. CASE unseen > 0
    BY <1>2, <1>4, <2>1, EndInAppend DEF Gathered
  <2>2. CASE ~ (unseen > 0)
    BY <2>2 DEF Gathered
  <2> QED
    BY <2>1, <2>2
<1>6. \A w \in Hwnds : EndAhead(w) \/ unseen > 0 => EndAhead(w)'
  <2>1. \A w : ~ EndIsIn(batch, w)
    BY <1>1 DEF EndIsIn
  <2> QED
    BY <1>1, <1>3, <1>5, <2>1 DEF EndAhead
<1>7. \A w \in Hwnds : Misnamed(w)' => Misnamed(w)
  BY <1>1 DEF Misnamed
<1>8. \A i \in 1 .. Len(posted') : posted'[i].kind = "Destroy" => posted'[i].own
  BY <1>1 DEF KeysInv
<1> QED
  BY <1>1, <1>6, <1>7, <1>8, KeysKept

(* The tracker forgets the windows whose end it is told, or the end is noted *)
(* as thrown away; a snapshot gives what it names its own number.           *)
LEMMA FinishBatchKeepsKeys ==
  ASSUME FlowType, BoundInv, LossInv, KeysInv, FinishBatch
  PROVE  KeysInv'
<1>1. PICK known \in [Hwnds -> {0, 1, 3}] : \E missed :
        /\ Returns(known, missed)
        /\ \A w \in Hwnds : known[w] \notin {0, nth[w]} =>
             known[w] = entries[w] /\ (EndIsIn(batch, w) => EndIsIn(missed, w))
  BY FinishBatchReturns
<1>2. PICK missed :
        /\ Returns(known, missed)
        /\ \A w \in Hwnds : known[w] \notin {0, nth[w]} =>
             known[w] = entries[w] /\ (EndIsIn(batch, w) => EndIsIn(missed, w))
  BY <1>1
<1>3. /\ entries' = known
      /\ unread' = {w \in Hwnds : known[w] # 0 /\ (w \in unread \/ EndIsIn(missed, w))}
      /\ UNCHANGED <<nth, posted, queue, unseen>>
      /\ loop.events = <<>>
  BY <1>2 DEF Returns, queueVars, desktopVars, LossInv
<1>4. ASSUME NEW w \in Hwnds, Misnamed(w)'
      PROVE  w \in unread' \/ unseen' > 0 \/ EndAhead(w)'
  <2>1. known[w] = entries[w] /\ known[w] # 0 /\ (EndIsIn(batch, w) => EndIsIn(missed, w))
    BY <1>2, <1>3, <1>4 DEF Misnamed
  <2>2. w \in unread \/ unseen > 0 \/ EndAhead(w)
    BY <1>3, <1>4, <2>1 DEF KeysInv, Misnamed
  <2>3. w \in unread \/ EndIsIn(batch, w) => w \in unread'
    BY <1>3, <2>1
  <2>4. ~ EndIsIn(loop.events, w)
    BY <1>3 DEF EndIsIn
  <2> QED
    BY <1>3, <2>2, <2>3, <2>4 DEF EndAhead
<1> QED
  BY <1>3, <1>4 DEF KeysInv

LEMMA KeysNext == FlowType /\ BoundInv /\ LossInv /\ KeysInv /\ [Next]_vars => KeysInv'
<1> SUFFICES ASSUME FlowType, BoundInv, LossInv, KeysInv, [Next]_vars
             PROVE  KeysInv'
  OBVIOUS
<1>1. CASE Activate
  BY <1>1, TellKeepsKeys DEF Activate, WindowKinds, Causes
<1>2. CASE RightActivate
  BY <1>2, TellKeepsKeys DEF RightActivate, WindowKinds, Causes
<1>3. CASE Move
  BY <1>3, TellKeepsKeys DEF Move, WindowKinds, Causes
<1>4. CASE DestroyWindow
  BY <1>4, TellKeepsKeys DEF DestroyWindow, WindowKinds, Causes, BoundInv, DesktopBound
<1>5. CASE ReuseHandle
  <2>1. PICK w \in Hwnds \ alive :
          /\ nth' = [nth EXCEPT ![w] = 3]
          /\ UNCHANGED <<posted, queue, unseen, loop, batch, entries, unread>>
    BY <1>5 DEF ReuseHandle, queueVars, loopVars, identityVars
  <2>2. entries \in [Hwnds -> {0, 1, 3}] /\ nth \in [Hwnds -> 1 .. 3] /\ nth[w] = 2
    BY DEF BoundInv, LoopBound, DesktopBound, alive
  <2>3. \A v \in Hwnds : Misnamed(v)' => Misnamed(v)
    BY <2>1, <2>2 DEF Misnamed
  <2>4. \A v \in Hwnds : EndAhead(v)' <=> EndAhead(v)
    BY <2>1 DEF EndAhead
  <2> QED
    BY <2>1, <2>3, <2>4 DEF KeysInv
<1>6. CASE ForgetClicks /\ UNCHANGED <<nth, queue, unseen, loop, batch, entries, unread>>
  <2>1. /\ \A w : EndIsIn(posted', w) <=> EndIsIn(posted, w)
        /\ \A i \in 1 .. Len(posted') : posted'[i].kind = "Destroy" => posted'[i].own
    BY <1>6, ForgetKeepsEnds
  <2>2. \A w \in Hwnds : EndAhead(w)' <=> EndAhead(w)
    BY <1>6, <2>1 DEF EndAhead
  <2>3. \A w \in Hwnds : Misnamed(w)' <=> Misnamed(w)
    BY <1>6 DEF Misnamed
  <2> QED
    BY <1>6, <2>1, <2>2, <2>3, KeysKept
<1>7. CASE UNCHANGED <<nth, posted, queue, unseen, loop, batch, entries, unread>>
  BY <1>7 DEF KeysInv, Misnamed, EndAhead
<1>8. CASE Tick
  <2>1. UNCHANGED <<nth, queue, unseen, loop, batch, entries, unread>>
    BY <1>8 DEF Tick, queueVars, identityVars
  <2>2. ForgetClicks \/ UNCHANGED posted
    BY <1>8 DEF Tick
  <2> QED
    BY <1>6, <1>7, <2>1, <2>2
<1>9. CASE ButtonDown
  BY <1>6, <1>9 DEF ButtonDown, queueVars, loopVars, identityVars
<1>10. CASE ButtonUp
  BY <1>7, <1>10 DEF ButtonUp, queueVars, loopVars, identityVars
<1>11. CASE Stop \/ UNCHANGED vars
  BY <1>7, <1>11 DEF Stop, vars, desktopVars, queueVars, loopVars, identityVars
<1>12. CASE MarkEnvironmentChanged
  <2>1. /\ changes' = changes + 1 /\ TryPush(Synthetic("Reconcile", changes'))
        /\ UNCHANGED <<nth, posted, loop, batch, entries, unread>>
    BY <1>12 DEF MarkEnvironmentChanged, loopVars, identityVars
  <2>2. Synthetic("Reconcile", changes') \in Event
    BY <2>1, SyntheticType DEF FlowType
  <2>3. /\ \A w : EndIsIn(queue, w) => EndIsIn(queue', w) \/ unseen' > 0
        /\ unseen > 0 => unseen' > 0
    BY <2>1, <2>2, PushTells
  <2>4. \A w \in Hwnds : EndAhead(w) => EndAhead(w)' \/ unseen' > 0
    BY <2>1, <2>3 DEF EndAhead
  <2>5. \A w \in Hwnds : Misnamed(w)' <=> Misnamed(w)
    BY <2>1 DEF Misnamed
  <2>6. \A i \in 1 .. Len(posted') : posted'[i].kind = "Destroy" => posted'[i].own
    BY <2>1 DEF KeysInv
  <2> QED
    BY <2>1, <2>3, <2>4, <2>5, <2>6, KeysKept
<1>13. CASE StartDrag
  BY <1>13, TellKeepsKeys DEF StartDrag, WindowKinds, Causes
<1> QED
  BY <1>1, <1>2, <1>3, <1>4, <1>5, <1>8, <1>9, <1>10, <1>11, <1>12, <1>13, EventProcKeepsKeys,
     WaitPopKeepsKeys, GatherKeepsKeys, ProcessKeepsKeys, FinishBatchKeepsKeys
  DEF Next, CoordinatorLoop, Ended

(* However windows end and their handles are given away, whatever is lost,  *)
(* delayed or thrown away: a window that goes by the key of an earlier one  *)
(* does so only while the end of that one is still to be told, or was lost  *)
(* and the loss is still to be reported, or was thrown away unread: in a   *)
(* pause, or with the rest of a batch that a failed look at the start of a  *)
(* drag cut short.                                                         *)
THEOREM KeysAreOwn == Spec => []KeysTellWindowsApart
<1>1. FlowType /\ LossInv /\ BoundInv /\ KeysInv /\ [Next]_vars
        => (FlowType /\ LossInv /\ BoundInv /\ KeysInv)'
  BY LossNext, BoundNext, KeysNext
<1>2. Init => FlowType /\ LossInv /\ BoundInv /\ KeysInv
  BY LossInit, BoundInit, KeysInit
<1>3. FlowType /\ LossInv /\ BoundInv /\ KeysInv => KeysTellWindowsApart
  BY KeysSuffice
<1> QED
  BY <1>1, <1>2, <1>3, PTL DEF Spec

-----------------------------------------------------------------------------
(* What the coordinator is promised *)

Backlog == loop.events \o queue

(* Events of windows are held in the order of their numbers, the last of    *)
(* which is n.                                                             *)
InOrder(events, n) ==
  /\ \A i \in 1 .. Len(events) : Contract!OfWindow(events[i]) => events[i].sequence <= n
  /\ \A i, j \in 1 .. Len(events) :
       i < j /\ Contract!OfWindow(events[i]) /\ Contract!OfWindow(events[j])
         => events[i].sequence < events[j].sequence

LEMMA AppendInOrder ==
  ASSUME NEW s \in Seq(Event), NEW n \in Nat, InOrder(s, n), NEW e \in Event, NEW m \in Nat,
         n <= m, Contract!OfWindow(e) => n < e.sequence /\ e.sequence <= m
  PROVE  InOrder(Append(s, e), m)
<1> DEFINE t == Append(s, e)
<1>1. /\ Len(s) \in Nat /\ Len(t) = Len(s) + 1
      /\ \A i \in 1 .. Len(s) : t[i] = s[i] /\ s[i].sequence \in Nat
      /\ t[Len(s) + 1] = e /\ e.sequence \in Nat
  <2>1. \A i \in 1 .. Len(s) : s[i] \in Event
    BY ElementOfSeq
  <2>2. \A d \in Event : d.sequence \in Nat
    BY DEF Event
  <2> QED
    BY <2>1, <2>2, AppendProperties, LenProperties
<1> HIDE DEF t
<1>2. ASSUME NEW i \in 1 .. Len(t), Contract!OfWindow(t[i])
      PROVE  t[i].sequence <= m
  <2>1. CASE i \in 1 .. Len(s)
    <3>1. t[i] = s[i] /\ s[i].sequence <= n /\ s[i].sequence \in Nat
      BY <1>1, <1>2, <2>1 DEF InOrder
    <3> QED
      BY <3>1
  <2>2. CASE i = Len(s) + 1
    BY <1>1, <1>2, <2>2
  <2> QED
    BY <1>1, <2>1, <2>2
<1>3. ASSUME NEW i \in 1 .. Len(t), NEW j \in 1 .. Len(t), i < j,
             Contract!OfWindow(t[i]), Contract!OfWindow(t[j])
      PROVE  t[i].sequence < t[j].sequence
  <2>1. i \in 1 .. Len(s) /\ t[i] = s[i] /\ s[i].sequence \in Nat
    BY <1>1, <1>3
  <2>2. CASE j \in 1 .. Len(s)
    BY <1>1, <1>3, <2>1, <2>2 DEF InOrder
  <2>3. CASE j = Len(s) + 1
    <3>1. s[i].sequence <= n
      BY <1>3, <2>1 DEF InOrder
    <3>2. t[j] = e /\ n < e.sequence
      BY <1>1, <1>3, <2>3
    <3> QED
      BY <1>1, <2>1, <3>1, <3>2
  <2> QED
    BY <1>1, <2>2, <2>3
<1>4. InOrder(t, m)
  BY <1>2, <1>3 DEF InOrder
<1> QED
  BY <1>4 DEF t

LEMMA BacklogType ==
  ASSUME FlowType
  PROVE  /\ loop.events \in Seq(Event) /\ queue \in Seq(Event) /\ Backlog \in Seq(Event)
         /\ Len(loop.events) \in Nat /\ Len(queue) \in Nat
         /\ Len(Backlog) = Len(loop.events) + Len(queue)
BY ConcatProperties, LenProperties DEF FlowType, Backlog

(* A step of the pipeline takes an event, refuses it, hands over what it    *)
(* has gathered, or changes nothing of what is waiting.                    *)
Took == \E e \in Event :
  /\ Backlog' = Append(Backlog, e)
  /\ Contract!OfWindow(e) => e.sequence = sequence + 1 /\ sequence' = sequence + 1
  /\ sequence' \in {sequence, sequence + 1} /\ UNCHANGED <<batch, unseen>>

Refused ==
  /\ UNCHANGED <<Backlog, batch>> /\ sequence' \in {sequence, sequence + 1} /\ unseen' > 0

Handed == Process /\ Backlog' = queue /\ UNCHANGED sequence

Rested == UNCHANGED <<Backlog, sequence, unseen>> /\ batch' \in {batch, <<>>}

LEMMA ConcatAppend ==
  ASSUME NEW S, NEW s \in Seq(S), NEW t \in Seq(S), NEW e \in S
  PROVE  s \o Append(t, e) = Append(s \o t, e)
<1> DEFINE r == <<e>>
           v == s \o t
<1>1. r \in Seq(S) /\ v \in Seq(S)
  BY ConcatProperties
<1>2. Append(t, e) = t \o r /\ Append(v, e) = v \o r
  BY <1>1, AppendIsConcat
<1> HIDE DEF r
<1>3. v \o r = s \o (t \o r)
  BY <1>1, ConcatAssociative
<1> QED
  BY <1>2, <1>3

LEMMA PushSteps ==
  ASSUME FlowType, NEW e \in Event, TryPush(e), UNCHANGED <<loop, batch>>,
         Contract!OfWindow(e) => e.sequence = sequence + 1 /\ sequence' = sequence + 1,
         sequence' \in {sequence, sequence + 1}
  PROVE  Took \/ Refused
<1>1. unseen \in Nat /\ loop.events \in Seq(Event) /\ queue \in Seq(Event)
  BY DEF FlowType
<1>2. CASE stop \/ Len(queue) >= Capacity
  <2>1. unseen' = unseen + 1 /\ queue' = queue
    BY <1>2 DEF TryPush
  <2> QED
    BY <1>1, <2>1 DEF Refused, Backlog
<1>3. CASE ~ (stop \/ Len(queue) >= Capacity)
  <2>1. queue' = Append(queue, e) /\ unseen' = unseen
    BY <1>3 DEF TryPush
  <2>2. loop.events \o Append(queue, e) = Append(loop.events \o queue, e)
    <3> DEFINE s == loop.events
    <3>1. s \in Seq(Event)
      BY <1>1
    <3> HIDE DEF s
    <3>2. s \o Append(queue, e) = Append(s \o queue, e)
      BY <1>1, <3>1, ConcatAppend
    <3> QED
      BY <3>2 DEF s
  <2>3. Backlog' = Append(Backlog, e)
    BY <2>1, <2>2 DEF Backlog
  <2> QED
    BY <2>1, <2>3 DEF Took
<1> QED
  BY <1>2, <1>3

LEMMA SyntheticIsNotOfWindow ==
  ASSUME NEW kind \in {"Reconcile", "HookError"}, NEW n
  PROVE  ~ Contract!OfWindow(Synthetic(kind, n))
BY DEF Contract!OfWindow, Synthetic

LEMMA WaitPopSteps ==
  ASSUME FlowType, LossInv, WaitPop
  PROVE  Rested
<1>1. /\ UNCHANGED <<sequence, unseen, batch>>
      /\ loop.events = <<>> /\ queue \in Seq(Event)
  BY DEF WaitPop, FlowType, LossInv
<1>2. Backlog = queue
  BY <1>1, ConcatEmptySeq DEF Backlog
<1>3. Backlog' = queue
  <2>1. CASE queue = <<>>
    <3>1. loop'.events = <<>> /\ queue' = queue
      BY <2>1 DEF WaitPop, Goto
    <3> QED
      BY <1>1, <3>1, ConcatEmptySeq DEF Backlog
  <2>2. CASE queue # <<>>
    <3> DEFINE t == Tail(queue)
               h == <<Head(queue)>>
    <3>1. loop'.events = h /\ queue' = t
      BY <2>2 DEF WaitPop, Goto
    <3>2. /\ Head(queue) = queue[1] /\ Head(queue) \in Event
          /\ h \in Seq(Event) /\ Len(h) = 1 /\ h[1] = queue[1]
          /\ t \in Seq(Event) /\ Len(t) = Len(queue) - 1 /\ Len(queue) \in Nat
          /\ \A i \in 1 .. Len(t) : t[i] = queue[i + 1]
      BY <1>1, <2>2, HeadTailProperties, LenProperties
    <3> HIDE DEF t, h
    <3>3. /\ h \o t \in Seq(Event) /\ Len(h \o t) = Len(queue)
          /\ \A i \in 1 .. Len(queue) : (h \o t)[i] = IF i <= 1 THEN h[i] ELSE t[i - 1]
      <4>0. h \in Seq(Event) /\ t \in Seq(Event)
        BY <3>2
      <4>1. /\ h \o t \in Seq(Event) /\ Len(h \o t) = Len(h) + Len(t)
            /\ \A i \in 1 .. Len(h) + Len(t) : (h \o t)[i] = IF i <= Len(h) THEN h[i] ELSE t[i - Len(h)]
        BY <4>0, ConcatProperties
      <4> QED
        BY <3>2, <4>1
    <3>4. ASSUME NEW i \in 1 .. Len(queue)
          PROVE  (h \o t)[i] = queue[i]
      <4>1. CASE i = 1
        BY <3>2, <3>3, <4>1
      <4>2. CASE i # 1
        <5>1. i - 1 \in 1 .. Len(t) /\ (i - 1) + 1 = i /\ ~ (i <= 1)
          BY <3>2, <4>2
        <5> QED
          BY <3>2, <3>3, <5>1
      <4> QED
        BY <4>1, <4>2
    <3>5. h \o t = queue
      BY <1>1, <3>3, <3>4, SeqEqual
    <3> QED
      BY <3>1, <3>5 DEF Backlog
  <2> QED
    BY <2>1, <2>2
<1> QED
  BY <1>1, <1>2, <1>3 DEF Rested

LEMMA GatherSteps ==
  ASSUME FlowType, Gather
  PROVE  Took \/ Rested
<1>1. queue' = <<>> /\ UNCHANGED <<sequence, unseen, batch>>
  BY DEF Gather
<1>2. Backlog \in Seq(Event)
  BY BacklogType
<1>3. CASE untilDue = 0
  <2> DEFINE e == Synthetic("Reconcile", polls + 1)
  <2>1. Poll /\ loop'.events = Append(Backlog, e)
    BY <1>3 DEF Gather, Goto, Backlog
  <2>2. e \in Event
    BY SyntheticType DEF FlowType
  <2>3. ~ Contract!OfWindow(e)
    BY SyntheticIsNotOfWindow
  <2> HIDE DEF e
  <2>4. Append(Backlog, e) \in Seq(Event)
    BY <1>2, <2>2, AppendProperties
  <2>5. Backlog' = Append(Backlog, e)
    <3>1. Backlog' = Append(Backlog, e) \o <<>>
      BY <1>1, <2>1 DEF Backlog
    <3> QED
      BY <2>4, <3>1, ConcatEmptySeq
  <2> QED
    BY <1>1, <2>2, <2>3, <2>5 DEF Took
<1>4. CASE untilDue # 0
  <2>1. loop'.events = Backlog
    <3>1. CASE Backlog = <<>>
      BY <1>4, <3>1 DEF Gather, StartOver, Goto, Backlog
    <3>2. CASE Backlog # <<>>
      <4>1. Goto("report", Backlog)
        BY <1>4, <3>2 DEF Gather, Backlog
      <4> QED
        BY <4>1 DEF Goto
    <3> QED
      BY <3>1, <3>2
  <2>2. Backlog' = Backlog \o <<>>
    BY <1>1, <2>1 DEF Backlog
  <2>3. Backlog' = Backlog
    BY <1>2, <2>2, ConcatEmptySeq
  <2> QED
    BY <1>1, <2>3 DEF Rested
<1> QED
  BY <1>3, <1>4

LEMMA Steps ==
  ASSUME FlowType, LossInv, [Next]_vars
  PROVE  Took \/ Refused \/ Handed \/ Rested
<1>1. CASE UNCHANGED <<loop, queue, sequence, unseen, batch>>
  BY <1>1 DEF Rested, Backlog
<1>2. CASE Activate \/ RightActivate \/ StartDrag \/ Move \/ DestroyWindow \/ ReuseHandle
  BY <1>1, <1>2 DEF Activate, RightActivate, StartDrag, Move, DestroyWindow, ReuseHandle, queueVars, loopVars
<1>3. CASE Tick \/ ButtonDown \/ ButtonUp \/ Stop \/ UNCHANGED vars
  BY <1>1, <1>3 DEF Tick, ButtonDown, ButtonUp, Stop, vars, queueVars, loopVars
<1>4. CASE EventProc
  <2>1. UNCHANGED <<loop, batch>>
    BY <1>4, EventProcOutcomes DEF loopVars
  <2>2. CASE /\ sequence' = sequence + 1
             /\ EventOf(Head(posted), sequence') \in Event
             /\ TryPush(EventOf(Head(posted), sequence'))
    <3>1. EventOf(Head(posted), sequence').sequence = sequence + 1
      BY <2>2 DEF EventOf
    <3> QED
      BY <2>1, <2>2, <3>1, PushSteps
  <2>3. CASE UNCHANGED <<sequence, queueVars>>
    BY <1>1, <2>1, <2>3 DEF queueVars
  <2> QED
    BY <1>4, <2>2, <2>3, EventProcOutcomes
<1>5. CASE MarkEnvironmentChanged
  <2>1. /\ changes' = changes + 1 /\ TryPush(Synthetic("Reconcile", changes'))
        /\ UNCHANGED <<loop, batch, sequence>>
    BY <1>5 DEF MarkEnvironmentChanged, loopVars
  <2>2. Synthetic("Reconcile", changes') \in Event /\ ~ Contract!OfWindow(Synthetic("Reconcile", changes'))
    BY <2>1, SyntheticType, SyntheticIsNotOfWindow DEF FlowType
  <2> QED
    BY <2>1, <2>2, PushSteps
<1>6. CASE WaitPop
  BY <1>6, WaitPopSteps
<1>7. CASE Gather
  BY <1>7, GatherSteps
<1>8. CASE Process
  <2>1. loop'.events = <<>> /\ UNCHANGED <<queue, sequence>>
    BY <1>8 DEF Process, Goto
  <2>2. Backlog' = queue
    BY <2>1, ConcatEmptySeq DEF Backlog, FlowType
  <2> QED
    BY <1>8, <2>1, <2>2 DEF Handed
<1>9. CASE FinishBatch
  <2>1. /\ batch' = <<>> /\ UNCHANGED <<queue, sequence, unseen>>
        /\ StartOver /\ loop.at = "process"
    BY <1>9 DEF FinishBatch, PausedBatch, AbandonedBatch, WholeBatch, Returns, queueVars
  <2>2. loop'.events = <<>> /\ loop.events = <<>>
    BY <2>1 DEF StartOver, Goto, LossInv
  <2> QED
    BY <2>1, <2>2 DEF Rested, Backlog
<1> QED
  BY <1>2, <1>3, <1>4, <1>5, <1>6, <1>7, <1>8, <1>9 DEF Next, CoordinatorLoop, Ended

OrderInv == InOrder(Backlog, sequence)

LEMMA OrderInit == Init => OrderInv
<1> SUFFICES ASSUME Init
             PROVE  InOrder(Backlog, sequence)
  BY DEF OrderInv
<1>1. loop.events = <<>> /\ queue = <<>>
  BY DEF Init
<1>2. Backlog = <<>>
  BY <1>1, EmptySeq, ConcatEmptySeq DEF Backlog
<1>3. Len(Backlog) = 0
  BY <1>2, EmptySeq
<1> QED
  BY <1>3 DEF InOrder

LEMMA OrderNext == FlowType /\ LossInv /\ OrderInv /\ [Next]_vars => OrderInv'
<1> SUFFICES ASSUME FlowType, LossInv, OrderInv, [Next]_vars
             PROVE  InOrder(Backlog', sequence')
  BY DEF OrderInv
<1>1. sequence \in Nat /\ Backlog \in Seq(Event) /\ InOrder(Backlog, sequence)
  BY BacklogType DEF FlowType, OrderInv
<1>2. CASE Took
  <2>1. PICK e \in Event :
          /\ Backlog' = Append(Backlog, e)
          /\ Contract!OfWindow(e) => e.sequence = sequence + 1 /\ sequence' = sequence + 1
          /\ sequence' \in {sequence, sequence + 1}
    BY <1>2 DEF Took
  <2>2. /\ sequence' \in Nat /\ sequence <= sequence'
        /\ Contract!OfWindow(e) => sequence < e.sequence /\ e.sequence <= sequence'
    BY <1>1, <2>1
  <2> QED
    BY <1>1, <2>1, <2>2, AppendInOrder
<1>3. CASE Refused \/ Rested
  <2>1. Backlog' = Backlog /\ sequence' \in {sequence, sequence + 1}
    BY <1>3 DEF Refused, Rested
  <2>2. \A d \in Event : d.sequence \in Nat
    BY DEF Event
  <2>3. \A i \in 1 .. Len(Backlog) : Backlog[i].sequence \in Nat
    BY <1>1, <2>2, ElementOfSeq
  <2>4. \A i \in 1 .. Len(Backlog) :
          Contract!OfWindow(Backlog[i]) => Backlog[i].sequence <= sequence'
    BY <1>1, <2>1, <2>3 DEF InOrder
  <2> QED
    BY <1>1, <2>1, <2>4 DEF InOrder
<1>4. CASE Handed
  <2>1. Backlog' = queue /\ sequence' = sequence
    BY <1>4 DEF Handed
  <2> DEFINE n == Len(loop.events)
  <2>2. /\ n \in Nat /\ Len(queue) \in Nat /\ Len(Backlog) = n + Len(queue)
        /\ \A i \in 1 .. Len(queue) : Backlog[n + i] = queue[i]
    <3>1. /\ loop.events \in Seq(Event) /\ queue \in Seq(Event)
          /\ n \in Nat /\ Len(queue) \in Nat /\ Len(Backlog) = n + Len(queue)
      BY BacklogType
    <3>2. \A i \in 1 .. n + Len(queue) : Backlog[i] = IF i <= n THEN loop.events[i] ELSE queue[i - n]
      BY <3>1, ConcatProperties DEF Backlog
    <3> HIDE DEF n
    <3>3. ASSUME NEW i \in 1 .. Len(queue)
          PROVE  Backlog[n + i] = queue[i]
      <4>1. n + i \in 1 .. n + Len(queue) /\ ~ (n + i <= n) /\ (n + i) - n = i
        BY <3>1
      <4> QED
        BY <3>2, <4>1
    <3> QED
      BY <3>1, <3>3
  <2> HIDE DEF n
  <2>3. ASSUME NEW i \in 1 .. Len(queue)
        PROVE  n + i \in 1 .. Len(Backlog) /\ queue[i] = Backlog[n + i]
    BY <2>2
  <2>4. ASSUME NEW i \in 1 .. Len(queue), NEW j \in 1 .. Len(queue), i < j
        PROVE  n + i < n + j
    BY <2>2, <2>4
  <2> QED
    BY <1>1, <2>1, <2>3, <2>4 DEF InOrder
<1> QED
  BY <1>2, <1>3, <1>4, Steps

(* The news of a loss, if any, is all that is sorted in besides.            *)
LEMMA WithNews ==
  ASSUME NEW g \in Seq(Event), NEW h,
         h \in {g, Append(g, Synthetic("HookError", 0))}
  PROVE  /\ h \in Seq(Event) /\ DOMAIN g \subseteq DOMAIN h
         /\ \A i \in DOMAIN g : h[i] = g[i] /\ g[i] \in Event
         /\ \A i \in DOMAIN h : i \notin DOMAIN g => h[i].kind = "HookError"
<1>1. DOMAIN g = 1 .. Len(g) /\ Len(g) \in Nat /\ \A i \in DOMAIN g : g[i] \in Event
  BY LenProperties
<1>2. CASE h = g
  BY <1>1, <1>2
<1>3. CASE h = Append(g, Synthetic("HookError", 0))
  <2> DEFINE e == Synthetic("HookError", 0)
  <2>1. e \in Event /\ e.kind = "HookError"
    BY SyntheticType DEF Synthetic
  <2> HIDE DEF e
  <2>2. h = Append(g, e)
    BY <1>3 DEF e
  <2>3. /\ h \in Seq(Event) /\ DOMAIN h = 1 .. (Len(g) + 1) /\ h[Len(g) + 1] = e
        /\ \A i \in 1 .. Len(g) : h[i] = g[i]
    BY <2>1, <2>2, AppendProperties, LenProperties
  <2> QED
    BY <1>1, <2>1, <2>3
<1> QED
  BY <1>2, <1>3

LEMMA CoalesceSummarises ==
  ASSUME NEW g \in Seq(Event), NEW n, InOrder(g, n), NEW h,
         h \in {g, Append(g, Synthetic("HookError", 0))}
  PROVE  Contract!Summarises(Coalesce(h), g)
<1> DEFINE C == Coalesce(h)
           told == {k \in DOMAIN C : Contract!OfWindow(C[k])}
           kept == {i \in DOMAIN g : Contract!OfWindow(g[i]) /\ ~ Contract!Outdated(g, i)}
           at == [i \in kept |-> Rank(h, i) + 1]
<1>1. /\ h \in Seq(Event) /\ DOMAIN g \subseteq DOMAIN h
      /\ \A i \in DOMAIN g : h[i] = g[i] /\ g[i] \in Event
      /\ \A i \in DOMAIN h : i \notin DOMAIN g => h[i].kind = "HookError"
  BY WithNews
<1>2. /\ \A i \in Kept(h) : Rank(h, i) + 1 \in DOMAIN C /\ C[Rank(h, i) + 1] = h[i]
      /\ \A k \in DOMAIN C : \E i \in Kept(h) : Rank(h, i) + 1 = k /\ C[k] = h[i]
  BY <1>1, CoalesceProperties
<1>3. ASSUME NEW i \in DOMAIN g, ~ Contract!Outdated(g, i)
      PROVE  i \in Kept(h)
  <2> SUFFICES ASSUME NEW j \in DOMAIN h, j > i, h[i].kind = "LocationChange",
                      h[j].kind = "LocationChange", h[j].hwnd = h[i].hwnd
               PROVE  FALSE
    BY <1>1 DEF Kept, Superseded
  <2>1. j \in DOMAIN g
    BY <1>1
  <2>2. h[j] = g[j] /\ h[i] = g[i]
    BY <1>1, <2>1
  <2> QED
    BY <1>3, <2>1, <2>2 DEF Contract!Outdated
<1>4. ASSUME NEW i \in Kept(h), Contract!OfWindow(h[i])
      PROVE  i \in kept
  <2>1. i \in DOMAIN h /\ ~ Superseded(h, i)
    BY DEF Kept
  <2>2. i \in DOMAIN g
    BY <1>1, <1>4, <2>1 DEF Contract!OfWindow
  <2>3. ~ Contract!Outdated(g, i)
    BY <1>1, <2>1, <2>2 DEF Superseded, Contract!Outdated
  <2> QED
    BY <1>1, <1>4, <2>2, <2>3
<1>5. ASSUME NEW i \in kept
      PROVE  /\ i \in DOMAIN g /\ i \in Kept(h) /\ Contract!OfWindow(g[i])
             /\ at[i] = Rank(h, i) + 1 /\ at[i] \in DOMAIN C /\ C[at[i]] = g[i]
  BY <1>1, <1>2, <1>3
<1>6. ASSUME NEW i \in kept, NEW j \in kept, i < j
      PROVE  at[i] < at[j]
  <2>1. i \in 1 .. Len(g) /\ j \in 1 .. Len(g)
    BY <1>5, LenProperties
  <2>2. g[i].sequence < g[j].sequence
    BY <1>5, <1>6, <2>1 DEF InOrder
  <2>3. Earlier(h, i, j)
    BY <1>1, <1>5, <2>2 DEF Earlier, Before
  <2>4. /\ Rank(h, i) < Rank(h, j) /\ Cardinality(Kept(h)) \in Nat
        /\ Rank(h, i) \in 0 .. Cardinality(Kept(h)) - 1 /\ Rank(h, j) \in 0 .. Cardinality(Kept(h)) - 1
    BY <1>1, <1>5, <2>3, RankProperties
  <2> QED
    BY <1>5, <2>4
<1>7. at \in Contract!Surjection(kept, told)
  <2>1. \A i \in kept : at[i] \in told
    BY <1>5
  <2>2. ASSUME NEW k \in told
        PROVE  \E i \in kept : at[i] = k
    <3>1. PICK i \in Kept(h) : Rank(h, i) + 1 = k /\ C[k] = h[i]
      BY <1>2
    <3>2. i \in kept
      BY <1>4, <3>1
    <3> QED
      BY <1>5, <3>1, <3>2
  <2>3. at \in [kept -> told]
    BY <2>1
  <2> HIDE DEF C, told, kept, at
  <2> QED
    BY <2>2, <2>3 DEF Contract!Surjection
<1>8. Contract!Carries(g, "Reconcile") => Contract!Carries(C, "Reconcile")
  <2> SUFFICES ASSUME NEW i \in DOMAIN g, g[i].kind = "Reconcile"
               PROVE  Contract!Carries(C, "Reconcile")
    BY DEF Contract!Carries
  <2>1. i \in Kept(h)
    BY <1>3 DEF Contract!Outdated
  <2>2. Rank(h, i) + 1 \in DOMAIN C /\ C[Rank(h, i) + 1].kind = "Reconcile"
    BY <1>1, <1>2, <2>1
  <2> QED
    BY <2>2 DEF Contract!Carries
<1> HIDE DEF C, told, kept, at
<1>9. /\ \E f \in Contract!Surjection(kept, told) :
          /\ \A i \in kept : C[f[i]] = g[i]
          /\ \A i, j \in kept : i < j => f[i] < f[j]
      /\ Contract!Carries(g, "Reconcile") => Contract!Carries(C, "Reconcile")
  BY <1>5, <1>6, <1>7, <1>8
<1> QED
  BY <1>9 DEF Contract!Summarises, C, told, kept

(* What was gathered is the beginning of what waits. *)
LEMMA BacklogParts ==
  ASSUME FlowType
  PROVE  /\ Len(loop.events) \in 0 .. Len(Backlog)
         /\ SubSeq(Backlog, 1, Len(loop.events)) = loop.events
         /\ SubSeq(Backlog, Len(loop.events) + 1, Len(Backlog)) = queue
<1> DEFINE s == loop.events
           b == s \o queue
           first == SubSeq(b, 1, Len(s))
           rest == SubSeq(b, Len(s) + 1, Len(b))
<1>1. s \in Seq(Event) /\ queue \in Seq(Event) /\ Len(s) \in Nat /\ Len(queue) \in Nat
  BY BacklogType
<1> HIDE DEF s
<1>2. /\ b \in Seq(Event) /\ Len(b) = Len(s) + Len(queue)
      /\ \A i \in 1 .. Len(s) + Len(queue) : b[i] = IF i <= Len(s) THEN s[i] ELSE queue[i - Len(s)]
  BY <1>1, ConcatProperties
<1> HIDE DEF b
<1>3. /\ first \in Seq(Event) /\ Len(first) = Len(s)
      /\ \A i \in 1 .. Len(s) : first[i] = s[i]
  <2>1. \A i \in 1 .. Len(s) : b[i] \in Event /\ b[i] = s[i]
    <3>1. \A i \in 1 .. Len(s) : i \in 1 .. Len(s) + Len(queue) /\ i <= Len(s)
      BY <1>1
    <3> QED
      BY <1>1, <1>2, <3>1, ElementOfSeq
  <2>2. /\ first \in Seq(Event) /\ Len(first) = IF 1 <= Len(s) THEN Len(s) - 1 + 1 ELSE 0
        /\ \A i \in 1 .. Len(s) - 1 + 1 : first[i] = b[1 + i - 1]
    BY <1>1, <2>1, SubSeqProperties
  <2> HIDE DEF first
  <2>3. ASSUME NEW i \in 1 .. Len(s)
        PROVE  first[i] = s[i]
    <3>1. i \in 1 .. Len(s) - 1 + 1 /\ 1 + i - 1 = i
      BY <1>1
    <3> QED
      BY <2>1, <2>2, <3>1
  <2> QED
    BY <1>1, <2>2, <2>3
<1>4. /\ rest \in Seq(Event) /\ Len(rest) = Len(queue)
      /\ \A i \in 1 .. Len(queue) : rest[i] = queue[i]
  <2>1. ASSUME NEW i \in Len(s) + 1 .. Len(b)
        PROVE  b[i] \in Event /\ b[i] = queue[i - Len(s)]
    <3>1. i \in 1 .. Len(s) + Len(queue) /\ ~ (i <= Len(s)) /\ i - Len(s) \in 1 .. Len(queue)
      BY <1>1, <1>2
    <3> QED
      BY <1>1, <1>2, <3>1, ElementOfSeq
  <2>2. Len(s) + 1 \in Int /\ Len(b) \in Int
    BY <1>1, <1>2
  <2>3. /\ rest \in Seq(Event)
        /\ Len(rest) = IF Len(s) + 1 <= Len(b) THEN Len(b) - (Len(s) + 1) + 1 ELSE 0
        /\ \A i \in 1 .. Len(b) - (Len(s) + 1) + 1 : rest[i] = b[(Len(s) + 1) + i - 1]
    BY <2>1, <2>2, SubSeqProperties
  <2> HIDE DEF rest
  <2>4. ASSUME NEW i \in 1 .. Len(queue)
        PROVE  rest[i] = queue[i]
    <3>1. /\ i \in 1 .. Len(b) - (Len(s) + 1) + 1
          /\ (Len(s) + 1) + i - 1 \in Len(s) + 1 .. Len(b)
          /\ ((Len(s) + 1) + i - 1) - Len(s) = i
      BY <1>1, <1>2
    <3> QED
      BY <2>1, <2>3, <3>1
  <2>5. Len(rest) = Len(queue)
    BY <1>1, <1>2, <2>3
  <2> QED
    BY <2>3, <2>4, <2>5
<1> HIDE DEF first, rest
<1>5. first = s
  BY <1>1, <1>3, SeqEqual
<1>6. rest = queue
  BY <1>1, <1>4, SeqEqual
<1>7. Len(s) \in 0 .. Len(b)
  BY <1>1, <1>2
<1> QED
  BY <1>5, <1>6, <1>7 DEF first, rest, b, s, Backlog

LEMMA HandedReports ==
  ASSUME FlowType, LossInv, OrderInv, Handed
  PROVE  Contract!Report
<1> DEFINE n == Len(loop.events)
<1>1. /\ n \in 0 .. Len(Backlog) /\ SubSeq(Backlog, 1, n) = loop.events
      /\ SubSeq(Backlog, n + 1, Len(Backlog)) = queue
  BY BacklogParts
<1>2. /\ batch' = Coalesce(Gathered) /\ unseen' = 0 /\ Backlog' = queue
      /\ loop.events \in Seq(Event)
  BY DEF Handed, Process, Gathered, FlowType
<1>3. InOrder(loop.events, sequence)
  <2>1. /\ loop.events \in Seq(Event) /\ n \in Nat /\ Len(queue) \in Nat
        /\ Len(Backlog) = n + Len(queue) /\ queue \in Seq(Event)
    BY BacklogType
  <2>2. \A i \in 1 .. n + Len(queue) : Backlog[i] = IF i <= n THEN loop.events[i] ELSE queue[i - n]
    BY <2>1, ConcatProperties DEF Backlog
  <2>3. \A i \in 1 .. n : i \in 1 .. Len(Backlog) /\ Backlog[i] = loop.events[i]
    <3> HIDE DEF n
    <3>1. \A i \in 1 .. n : i \in 1 .. n + Len(queue) /\ i <= n
      BY <2>1
    <3> QED
      BY <2>1, <2>2, <3>1
  <2>4. InOrder(Backlog, sequence)
    BY DEF OrderInv
  <2> QED
    BY <2>3, <2>4 DEF InOrder
<1>4. Gathered \in {loop.events, Append(loop.events, Synthetic("HookError", 0))}
  BY DEF Gathered
<1>5. Contract!Summarises(batch', loop.events)
  <2> DEFINE g == loop.events
  <2>1. g \in Seq(Event) /\ InOrder(g, sequence) /\ Gathered \in {g, Append(g, Synthetic("HookError", 0))}
    BY <1>2, <1>3, <1>4
  <2> HIDE DEF g
  <2>2. Contract!Summarises(Coalesce(Gathered), g)
    BY <2>1, CoalesceSummarises
  <2> QED
    BY <1>2, <2>2 DEF g
<1>6. unseen > 0 => Contract!Carries(batch', "HookError")
  <2> SUFFICES ASSUME unseen > 0
               PROVE  \E k \in DOMAIN batch' : batch'[k].kind = "HookError"
    BY DEF Contract!Carries
  <2> DEFINE e == Synthetic("HookError", 0)
             s == loop.events
  <2>1. e \in Event /\ e.kind = "HookError" /\ s \in Seq(Event) /\ Gathered = Append(s, e)
    BY <1>2, SyntheticType DEF Gathered, Synthetic
  <2> HIDE DEF e, s
  <2>2. /\ Gathered \in Seq(Event) /\ Len(s) \in Nat /\ DOMAIN Gathered = 1 .. (Len(s) + 1)
        /\ Gathered[Len(s) + 1] = e
    BY <2>1, AppendProperties, LenProperties
  <2>3. Len(s) + 1 \in Kept(Gathered)
    BY <2>1, <2>2 DEF Kept, Superseded
  <2>4. /\ Rank(Gathered, Len(s) + 1) + 1 \in DOMAIN Coalesce(Gathered)
        /\ Coalesce(Gathered)[Rank(Gathered, Len(s) + 1) + 1] = e
    BY <2>2, <2>3, CoalesceProperties
  <2> QED
    BY <1>2, <2>1, <2>4
<1> HIDE DEF n
<1>7. /\ n \in 0 .. Len(Backlog) /\ Contract!Summarises(batch', SubSeq(Backlog, 1, n))
      /\ Backlog' = SubSeq(Backlog, n + 1, Len(Backlog))
  BY <1>1, <1>2, <1>5
<1>8. (unseen > 0)' = FALSE
  BY <1>2
<1>9. \E k \in 0 .. Len(Backlog) :
        /\ Contract!Summarises(batch', SubSeq(Backlog, 1, k))
        /\ Backlog' = SubSeq(Backlog, k + 1, Len(Backlog))
        /\ unseen > 0 => Contract!Carries(batch', "HookError")
        /\ (unseen > 0)' = FALSE
  BY <1>6, <1>7, <1>8, Zenon
<1> QED
  BY <1>9, Zenon DEF Contract!Report, Backlog

LEMMA ContractNext ==
  FlowType /\ LossInv /\ OrderInv /\ [Next]_vars => [Contract!Next]_(Contract!vars)
<1> SUFFICES ASSUME FlowType, LossInv, OrderInv, [Next]_vars
             PROVE  Contract!Next \/ UNCHANGED Contract!vars
  OBVIOUS
<1>1. CASE Took
  <2>1. PICK e \in Event : Backlog' = Append(Backlog, e) /\ UNCHANGED <<batch, unseen>>
    BY <1>1 DEF Took
  <2> DEFINE b == Backlog
             c == Append(b, e)
  <2>2. /\ b \in Seq(Event) /\ Len(b) \in Nat /\ c \in Seq(Event) /\ Len(c) = Len(b) + 1
        /\ \A i \in 1 .. Len(b) : c[i] = b[i]
    BY BacklogType, AppendProperties, LenProperties
  <2> HIDE DEF b, c
  <2>3. SubSeq(b, 1, Len(b)) = SubSeq(c, 1, Len(b))
    <3> DEFINE l == SubSeq(b, 1, Len(b))
               r == SubSeq(c, 1, Len(b))
    <3>1. \A i \in 1 .. Len(b) : b[i] \in Event /\ c[i] \in Event
      BY <2>2, ElementOfSeq
    <3>2. /\ l \in Seq(Event) /\ Len(l) = IF 1 <= Len(b) THEN Len(b) - 1 + 1 ELSE 0
          /\ \A i \in 1 .. Len(b) - 1 + 1 : l[i] = b[1 + i - 1]
      BY <2>2, <3>1, SubSeqProperties
    <3>3. /\ r \in Seq(Event) /\ Len(r) = IF 1 <= Len(b) THEN Len(b) - 1 + 1 ELSE 0
          /\ \A i \in 1 .. Len(b) - 1 + 1 : r[i] = c[1 + i - 1]
      BY <2>2, <3>1, SubSeqProperties
    <3> HIDE DEF l, r
    <3>4. Len(l) = Len(b) /\ Len(r) = Len(b)
      BY <2>2, <3>2, <3>3
    <3>5. ASSUME NEW i \in 1 .. Len(b)
          PROVE  l[i] = r[i]
      <4>1. i \in 1 .. Len(b) - 1 + 1 /\ 1 + i - 1 = i
        BY <2>2
      <4> QED
        BY <2>2, <3>2, <3>3, <4>1
    <3>6. l = r
      BY <3>2, <3>3, <3>4, <3>5, SeqEqual
    <3> QED
      BY <3>6 DEF l, r
  <2>4. IsPrefix(b, c) /\ Len(c) = Len(b) + 1
    BY <2>2, <2>3 DEF IsPrefix
  <2>5. Len(Backlog') = Len(Backlog) + 1 /\ IsPrefix(Backlog, Backlog')
    BY <2>1, <2>4 DEF b, c
  <2> QED
    BY <2>1, <2>5 DEF Contract!Next, Contract!Accept, Backlog, Contract!IsPrefix
<1>2. CASE Refused
  BY <1>2 DEF Refused, Contract!Next, Contract!Refuse, Backlog
<1>3. CASE Handed
  BY <1>3, HandedReports DEF Contract!Next
<1>4. CASE Rested
  BY <1>4 DEF Rested, Contract!Next, Contract!Finish, Contract!vars, Backlog
<1> QED
  BY <1>1, <1>2, <1>3, <1>4, Steps

(* Every behaviour of the pipeline is one the coordinator may rely on: each *)
(* event of a window that was accepted is reported once, in order, unless a *)
(* later place of the window is; each refusal is followed by a HookError.   *)
THEOREM PipelineKeepsContract == Spec => ImplementsContract
<1>1. FlowType /\ LossInv /\ OrderInv /\ [Next]_vars => (FlowType /\ LossInv /\ OrderInv)'
  BY LossNext, OrderNext
<1>2. Init => FlowType /\ LossInv /\ OrderInv
  BY LossInit, OrderInit
<1>3. Init => Contract!Init
  BY EmptySeq, ConcatEmptySeq DEF Init, Contract!Init
<1>4. FlowType /\ LossInv /\ OrderInv /\ [Next]_vars => [Contract!Next]_(Contract!vars)
  BY ContractNext
<1> QED
  BY <1>1, <1>2, <1>3, <1>4, PTL DEF Spec, ImplementsContract, Contract!Spec

=============================================================================
