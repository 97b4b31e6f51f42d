---------------------------- MODULE WorkerProofs ----------------------------
(***************************************************************************)
(* Proofs about ThumbLanes, for every base goal and every bound.           *)
(*                                                                         *)
(* Inv, types and accounting together (with EmptiedFirst), is inductive:   *)
(* that no counter goes below zero (a type) rests on the equalities of     *)
(* Accounting, and these only make sense for typed counters.  The other    *)
(* invariants are inductive relative to it.                                *)
(***************************************************************************)
EXTENDS ThumbLanes, Artifacts, TLAPS

\* replace() empties the mailbox before it fills it again.
EmptiedFirst == replacing => mailbox = 0

Inv == TypeOK /\ Accounting /\ EmptiedFirst

\* The operators on the lanes stay in their types: update_global_goal,
\* refresh_start_pending.
LEMMA GoalType == ASSUME NEW medium \in Media PROVE GoalFor(medium) \in 1 .. BaseGoal
  BY BaseGoalAssumption DEF GoalFor, Media

LEMMA RefreshedType ==
  ASSUME NEW sp \in Lanes \cup {NoLane}, NEW w, NEW r
  PROVE  Refreshed(sp, w, r) \in Lanes \cup {NoLane}
  BY DEF Refreshed, Lanes, NoLane

LEMMA ClearedType ==
  ASSUME NEW c \in [Lanes -> Nat], NEW l \in Lanes, NEW p, NEW w, NEW r
  PROVE  ClearedAtBoundary(c, l, p, w, r) \in [Lanes -> Nat]
  BY DEF ClearedAtBoundary

\* Before the first request all counters are zero and every permit is free
\* (ThumbWorker::spawn).
THEOREM InitInv == Init => Inv
<1> SUFFICES ASSUME Init PROVE Inv
  OBVIOUS
<1> USE BaseGoalAssumption, BoundsAssumption DEF Init
<1>1. TypeOK
  <2>1. /\ pending \in [Lanes -> Nat]
        /\ waiting \in [Lanes -> Nat]
        /\ running \in [Lanes -> Nat]
        /\ credit \in [Lanes -> Nat]
        /\ jobs \in [Lanes -> Nat]
        /\ fresh \in [Lanes -> Nat]
        /\ behind \in [Loops -> [Lanes -> Nat]]
        /\ chan \in [Channels -> Nat]
    OBVIOUS
  <2>2. goal \in 1 .. BaseGoal /\ permits \in Nat /\ mailbox \in Nat /\ controls \in Nat
    OBVIOUS
  <2>3. pc \in [Loops -> Places]
    BY DEF Places
  <2>4. /\ startPending \in Lanes \cup {NoLane}
        /\ replacing \in BOOLEAN
        /\ woken \in [Loops -> BOOLEAN]
        /\ phase \in Phases
    BY DEF Phases
  <2> QED
    BY <2>1, <2>2, <2>3, <2>4 DEF TypeOK
<1>2. \A k \in Loops : pc[k] = "idle"
  OBVIOUS
<1>3. Accounting
  BY <1>2 DEF Accounting, Lanes, Loops, Channels, Count, Counted, Asking, Owning,
     RunningTotal
<1> QED
  BY <1>1, <1>3 DEF Inv, EmptiedFirst

LEMMA SettleType ==
  ASSUME NEW l \in Lanes, NEW c \in [Lanes -> Nat], NEW sp \in Lanes \cup {NoLane},
         Settle(l, c, sp)
  PROVE  credit' \in [Lanes -> Nat] /\ startPending' \in Lanes \cup {NoLane}
  BY RefreshedType, ClearedType DEF Settle

LEMMA WakeAllType ==
  ASSUME NEW sleepers, woken \in [Loops -> BOOLEAN], WakeAll(sleepers)
  PROVE  woken' \in [Loops -> BOOLEAN]
  BY DEF WakeAll

LEMMA RetireType ==
  ASSUME TypeOK, NEW l \in Lanes, NEW n \in Nat, Retire(l, n)
  PROVE  /\ pending' = [pending EXCEPT ![l] = @ - n]
         /\ credit' \in [Lanes -> Nat]
         /\ startPending' \in Lanes \cup {NoLane}
  BY SettleType DEF Retire, TypeOK

-----------------------------------------------------------------------------
(* Steps of the UI thread and of the scheduler thread *)

USE DEF Inv, EmptiedFirst

LEMMA UserInv == ASSUME Inv, UserStep PROVE Inv'
<1> USE BaseGoalAssumption, BoundsAssumption
<1>1. ASSUME NEW medium \in Media, UpdateGlobalGoal(medium) PROVE Inv'
  <2>1. goal' \in 1 .. BaseGoal
    BY <1>1, GoalType DEF UpdateGlobalGoal
  <2>2. woken' \in [Loops -> BOOLEAN]
    BY <1>1, WakeAllType DEF UpdateGlobalGoal, TypeOK
  <2> QED
    BY <1>1, <2>1, <2>2 DEF UpdateGlobalGoal, TypeOK, Accounting, Count, RunningTotal,
       counters, rest, runtime, mail, world
<1>2. ASSUME NEW c \in Channels, Submit(c) PROVE Inv'
  BY <1>2 DEF Submit, TypeOK, Accounting, Count, RunningTotal, LaneOfChannel, Lanes,
     Channels, rest, runtime, mail, world
<1>3. CASE ReplaceBegin
  <2>1. /\ pending' = [pending EXCEPT !["image"] = @ - mailbox]
        /\ credit' \in [Lanes -> Nat]
        /\ startPending' \in Lanes \cup {NoLane}
    BY <1>3, RetireType DEF ReplaceBegin, TypeOK, Lanes
  <2>2. woken' \in [Loops -> BOOLEAN]
    BY <1>3, WakeAllType DEF ReplaceBegin, TypeOK
  <2> QED
    BY <1>3, <2>1, <2>2 DEF ReplaceBegin, TypeOK, Accounting, Count, RunningTotal, Lanes,
       Channels, runtime, world
<1>4. ASSUME NEW n \in 0 .. MaxMailbox, ReplaceEnd(n) PROVE Inv'
  <2>1. woken' \in [Loops -> BOOLEAN]
    BY <1>4, WakeAllType DEF ReplaceEnd, TypeOK
  <2>2. n \in Nat
    OBVIOUS
  <2>3. pending' \in [Lanes -> Nat]
    BY <1>4, <2>2 DEF ReplaceEnd, TypeOK, Lanes
  <2>4. TypeOK'
    BY <1>4, <2>1, <2>2, <2>3 DEF ReplaceEnd, TypeOK, rest, runtime, world
  <2>5. Accounting'
    BY <1>4, <2>2 DEF ReplaceEnd, TypeOK, Accounting, Count, RunningTotal, Lanes, Channels,
       rest, runtime, world
  <2> QED
    BY <1>4, <2>4, <2>5 DEF ReplaceEnd
<1>5. ASSUME NEW n \in 0 .. MaxMailbox, RemoveDisplayTasks(n) PROVE Inv'
  <2>1. /\ pending' = [pending EXCEPT !["image"] = @ - n]
        /\ credit' \in [Lanes -> Nat]
        /\ startPending' \in Lanes \cup {NoLane}
    BY <1>5, RetireType DEF RemoveDisplayTasks, Lanes
  <2>2. woken' \in [Loops -> BOOLEAN]
    BY <1>5, WakeAllType DEF RemoveDisplayTasks, TypeOK
  <2>3. n \in Nat /\ mailbox - n \in Nat
    BY <1>5 DEF RemoveDisplayTasks, TypeOK
  <2>4. TypeOK'
    BY <1>5, <2>1, <2>2, <2>3 DEF RemoveDisplayTasks, TypeOK, Accounting, Count, Lanes,
       Channels, runtime, world
  <2>5. Accounting'
    BY <1>5, <2>1, <2>3 DEF RemoveDisplayTasks, TypeOK, Accounting, Count, RunningTotal,
       Lanes, Channels, runtime, world
  <2> QED
    BY <1>5, <2>4, <2>5 DEF RemoveDisplayTasks
<1>6. CASE CloseMailbox
  <2>1. /\ pending' = [pending EXCEPT !["image"] = @ - mailbox]
        /\ credit' \in [Lanes -> Nat]
        /\ startPending' \in Lanes \cup {NoLane}
    BY <1>6, RetireType DEF CloseMailbox, TypeOK, Lanes
  <2>2. woken' \in [Loops -> BOOLEAN]
    BY <1>6, WakeAllType DEF CloseMailbox, TypeOK
  <2> QED
    BY <1>6, <2>1, <2>2 DEF CloseMailbox, TypeOK, Accounting, Count, RunningTotal, Lanes,
       Channels, runtime, Phases
<1>7. CASE SendShutdown
  BY <1>7 DEF SendShutdown, TypeOK, Accounting, Count, RunningTotal, counters, rest,
     runtime, mail, Phases
<1> QED
  BY <1>1, <1>2, <1>3, <1>4, <1>5, <1>6, <1>7 DEF UserStep

-----------------------------------------------------------------------------
(* acquire_thumbnail_permit, and the jobs *)

LEMMA EnterInv ==
  ASSUME Inv, NEW k \in Loops, pc[k] = "idle", Enter(k),
         NEW c \in Channels,
         \/ k = "display" /\ UNCHANGED chan
         \/ /\ k # "display" /\ LaneOfChannel(c) = LaneOf(k)
            /\ chan[c] > 0 /\ chan' = [chan EXCEPT ![c] = @ - 1]
  PROVE  Inv'
<1>1. startPending' \in Lanes \cup {NoLane}
  BY RefreshedType DEF Enter, TypeOK
<1>2. TypeOK'
  <2>1. chan' \in [Channels -> Nat]
    BY DEF TypeOK
  <2>2. waiting' \in [Lanes -> Nat]
    BY DEF Enter, TypeOK, LaneOf, Lanes
  <2>3. pc' \in [Loops -> Places] /\ woken' \in [Loops -> BOOLEAN]
    BY DEF Enter, TypeOK, Places
  <2> QED
    BY <1>1, <2>1, <2>2, <2>3 DEF Enter, TypeOK, runtime, mail, world
<1>3. Accounting'
  BY <1>2 DEF Enter, TypeOK, Accounting, Count, Counted, Asking, Owning, RunningTotal,
     LaneOf, LaneOfChannel, Lanes, Channels, Loops, runtime, mail, world
<1> QED
  BY <1>2, <1>3 DEF Enter, mail

LEMMA AcquireInv == ASSUME Inv, NEW k \in Loops, AcquireStep(k) PROVE Inv'
<1>1. CASE Poll(k)
  <2>1. /\ permits' \in Nat
        /\ pc' \in [Loops -> Places]
    BY <1>1 DEF Poll, TypeOK, Places
  <2>2. TypeOK'
    BY <1>1, <2>1 DEF Poll, TypeOK, Loops, counters, rest, mail, world
  <2>3. Accounting'
    BY <1>1, <2>2 DEF Poll, Looks, TypeOK, Accounting, Count, Counted, Asking, Owning,
       RunningTotal, Loops, Lanes, counters, rest, mail, world
  <2> QED BY <1>1, <2>2, <2>3 DEF Poll, mail
<1>2. CASE StartRefused(k)
  <2>1. TypeOK'
    BY <1>2 DEF StartRefused, TypeOK, Places, counters, rest, runtime, mail, world
  <2>2. Accounting'
    BY <1>2, <2>1 DEF StartRefused, TypeOK, Accounting, Count, Counted, Asking, Owning,
       RunningTotal, Loops, Lanes, counters, rest, runtime, mail, world
  <2> QED BY <1>2, <2>1, <2>2 DEF StartRefused, mail
<1>3. CASE Start(k)
  <2> DEFINE l == LaneOf(k)
             c == [credit EXCEPT ![l] = IF @ > 0 THEN @ - 1 ELSE 0]
             sp == IF startPending = l THEN NoLane ELSE startPending
  <2>1. l \in Lanes /\ c \in [Lanes -> Nat] /\ sp \in Lanes \cup {NoLane}
    BY DEF LaneOf, Lanes, TypeOK
  <2>2. credit' \in [Lanes -> Nat] /\ startPending' \in Lanes \cup {NoLane}
    <3>1. Settle(l, c, sp)
      BY <1>3 DEF Start, Started
    <3> QED BY <2>1, <3>1, SettleType
  <2>3. woken' \in [Loops -> BOOLEAN]
    BY <1>3 DEF Start, Started, WakeAllBut, TypeOK
  <2>4. /\ waiting' = [waiting EXCEPT ![l] = @ - 1]
        /\ running' = [running EXCEPT ![l] = @ + 1]
        /\ pc[k] = "admitted" /\ pc' = [pc EXCEPT ![k] = "holding"]
        /\ behind' = [behind EXCEPT ![k] = [m \in Lanes |-> 0]]
        /\ UNCHANGED <<pending, goal, permits, jobs, fresh, mail, chan, world>>
    BY <1>3 DEF Start, Started
  <2>5. waiting[l] > 0
    BY <2>4 DEF TypeOK, Accounting, Count, Asking, LaneOf, Lanes, Loops
  <2>6. TypeOK'
    BY <2>1, <2>2, <2>3, <2>4, <2>5 DEF TypeOK, Places, mail, world
  <2>7. Accounting'
    BY <2>4, <2>6 DEF TypeOK, Accounting, Count, Counted, Asking, Owning, RunningTotal,
       LaneOf, Loops, Lanes, mail, world
  <2> QED BY <2>4, <2>6, <2>7 DEF mail
<1> QED
  BY <1>1, <1>2, <1>3 DEF AcquireStep

LEMMA FinishedType ==
  ASSUME TypeOK, NEW l \in Lanes, Finished(l), running[l] > 0
  PROVE  /\ permits' = permits + 1
         /\ running' = [running EXCEPT ![l] = @ - 1]
         /\ running' \in [Lanes -> Nat]
         /\ UNCHANGED <<pending, waiting, goal>>
         /\ credit' \in [Lanes -> Nat]
         /\ startPending' \in Lanes \cup {NoLane}
         /\ woken' \in [Loops -> BOOLEAN]
<1> DEFINE c == [credit EXCEPT ![l] = IF pending[l] > 0 THEN @ + 1 ELSE @]
<1>1. c \in [Lanes -> Nat]
  BY DEF TypeOK
<1>2. Settle(l, c, startPending)
  BY DEF Finished
<1>3. credit' \in [Lanes -> Nat] /\ startPending' \in Lanes \cup {NoLane}
  <2> HIDE DEF c
  <2> QED BY <1>1, <1>2, SettleType DEF TypeOK
<1>4. woken' \in [Loops -> BOOLEAN]
  BY WakeAllType DEF Finished, TypeOK
<1>5. running' \in [Lanes -> Nat]
  BY DEF Finished, TypeOK
<1> QED
  BY <1>3, <1>4, <1>5 DEF Finished

LEMMA JobInv == ASSUME Inv, NEW l \in Lanes, BeginJob(l) \/ Finish(l) PROVE Inv'
<1>1. CASE BeginJob(l)
  <2>1. fresh[l] > 0
    BY <1>1 DEF BeginJob, TypeOK, Loops
  <2> QED
    BY <1>1, <2>1 DEF BeginJob, TypeOK, Accounting, Count, RunningTotal, counters, rest,
       mail, world
<1>2. CASE Finish(l)
  <2>1. running[l] > 0
    BY <1>2 DEF Finish, TypeOK, Accounting, Count, Lanes
  <2>2. /\ permits' = permits + 1
        /\ running' = [running EXCEPT ![l] = @ - 1]
        /\ running' \in [Lanes -> Nat]
        /\ UNCHANGED <<pending, waiting, goal>>
        /\ credit' \in [Lanes -> Nat]
        /\ startPending' \in Lanes \cup {NoLane}
        /\ woken' \in [Loops -> BOOLEAN]
    BY <1>2, <2>1, FinishedType DEF Finish
  <2>3. jobs' = [jobs EXCEPT ![l] = @ - 1] /\ jobs' \in [Lanes -> Nat]
    BY <1>2 DEF Finish, TypeOK
  <2>4. TypeOK'
    BY <1>2, <2>2, <2>3 DEF Finish, TypeOK, mail, world
  <2>5. Accounting'
    BY <1>2, <2>2, <2>3 DEF Finish, TypeOK, Accounting, Count, RunningTotal, Lanes, mail
  <2> QED BY <1>2, <2>4, <2>5 DEF Finish, mail
<1> QED BY <1>1, <1>2

LEMMA SpawnedType ==
  ASSUME TypeOK, NEW l \in Lanes, Spawned(l)
  PROVE  /\ jobs' = [jobs EXCEPT ![l] = @ + 1]
         /\ jobs' \in [Lanes -> Nat] /\ fresh' \in [Lanes -> Nat]
         /\ behind' \in [Loops -> [Lanes -> Nat]]
  BY DEF Spawned, TypeOK

-----------------------------------------------------------------------------
(* The normal loop and the video loop *)

LEMMA QueueInv == ASSUME Inv, NEW k \in {"normal", "video"}, QueueLoopStep(k) PROVE Inv'
<1>0. k \in Loops /\ LaneOf(k) \in Lanes
  BY DEF Loops, LaneOf, Lanes
<1>1. CASE AcquireStep(k)
  BY <1>0, <1>1, AcquireInv
<1>2. ASSUME NEW c \in Channels, DropRequest(k, c) PROVE Inv'
  <2>1. /\ pending' = [pending EXCEPT ![LaneOf(k)] = @ - 1]
        /\ credit' \in [Lanes -> Nat]
        /\ startPending' \in Lanes \cup {NoLane}
    BY <1>0, <1>2, RetireType DEF DropRequest
  <2>2. woken' \in [Loops -> BOOLEAN]
    BY <1>2, WakeAllType DEF DropRequest, TypeOK
  <2>3. /\ chan[c] > 0 /\ chan' = [chan EXCEPT ![c] = @ - 1]
        /\ chan' \in [Channels -> Nat]
    BY <1>2 DEF DropRequest, Receives, TypeOK
  <2>4. LaneOfChannel(c) = LaneOf(k)
    BY <1>2 DEF DropRequest, Receives, LaneOfChannel, LaneOf
  <2>5. pending' \in [Lanes -> Nat]
    BY <2>1, <2>3, <2>4 DEF TypeOK, Accounting, Count, LaneOfChannel, Lanes, Channels
  <2>6. TypeOK'
    BY <1>2, <2>1, <2>2, <2>3, <2>5 DEF DropRequest, TypeOK, runtime, mail, world
  <2>7. Accounting'
    BY <1>2, <2>1, <2>3, <2>4 DEF DropRequest, TypeOK, Accounting, Count, RunningTotal,
       LaneOf, LaneOfChannel, Lanes, Channels, runtime, mail
  <2> QED BY <1>2, <2>6, <2>7 DEF DropRequest, mail
<1>3. ASSUME NEW c \in Channels, AskPermit(k, c) PROVE Inv'
  <2>1. LaneOfChannel(c) = LaneOf(k) /\ k # "display"
    BY <1>3 DEF AskPermit, Receives, LaneOfChannel, LaneOf
  <2> QED
    BY <1>0, <1>3, <2>1, EnterInv DEF AskPermit, Receives
<1>4. CASE Spawn(k)
  <2>1. /\ pending' = [pending EXCEPT ![LaneOf(k)] = @ - 1]
        /\ credit' \in [Lanes -> Nat]
        /\ startPending' \in Lanes \cup {NoLane}
    BY <1>0, <1>4, RetireType DEF Spawn
  <2>2. woken' \in [Loops -> BOOLEAN]
    BY <1>4, WakeAllType DEF Spawn, TypeOK
  <2>3. /\ jobs' = [jobs EXCEPT ![LaneOf(k)] = @ + 1]
        /\ jobs' \in [Lanes -> Nat] /\ fresh' \in [Lanes -> Nat]
        /\ behind' \in [Loops -> [Lanes -> Nat]]
    BY <1>0, <1>4, SpawnedType DEF Spawn
  <2>4. /\ pc[k] = "holding" /\ pc' = [pc EXCEPT ![k] = "idle"]
        /\ pc' \in [Loops -> Places]
    BY <1>4 DEF Spawn, TypeOK, Places
  <2>5. pending' \in [Lanes -> Nat]
    BY <2>1, <2>4 DEF TypeOK, Accounting, Count, Counted, LaneOf, Lanes, Loops, Channels
  <2>6. TypeOK'
    BY <1>4, <2>1, <2>2, <2>3, <2>4, <2>5 DEF Spawn, TypeOK, mail, world
  <2>7. Accounting'
    <3> USE <1>4, <2>1, <2>3, <2>4 DEF Spawn, TypeOK, Accounting, Count, Counted, Asking,
          Owning, RunningTotal, LaneOf, Lanes, Loops, Channels, mail
    <3>1. CASE k = "normal" BY <3>1
    <3>2. CASE k = "video" BY <3>2
    <3> QED BY <3>1, <3>2
  <2> QED BY <1>4, <2>6, <2>7 DEF Spawn, mail
<1>5. CASE StopLoop(k)
  <2>1. credit' \in [Lanes -> Nat] /\ startPending' \in Lanes \cup {NoLane}
    BY <1>5 DEF StopLoop, ResetTransient
  <2>2. woken' \in [Loops -> BOOLEAN]
    BY <1>5, WakeAllType DEF StopLoop, TypeOK
  <2>3. pc[k] = "idle" /\ pc' = [pc EXCEPT ![k] = "stopped"] /\ pc' \in [Loops -> Places]
    BY <1>5 DEF StopLoop, TypeOK, Places
  <2>4. TypeOK'
    BY <1>5, <2>1, <2>2, <2>3 DEF StopLoop, TypeOK, counters, runtime, mail, world
  <2>5. Accounting'
    BY <1>5, <2>3 DEF StopLoop, TypeOK, Accounting, Count, Counted, Asking, Owning,
       RunningTotal, Lanes, Loops, counters, runtime, mail
  <2> QED BY <1>5, <2>4, <2>5 DEF StopLoop, mail
<1> QED
  BY <1>1, <1>2, <1>3, <1>4, <1>5 DEF QueueLoopStep

LEMMA NormalInv == ASSUME Inv, NormalStep PROVE Inv'
<1>1. CASE QueueLoopStep("normal")
  BY <1>1, QueueInv
<1>2. CASE NormalDuplicate
  <2>1. running["image"] > 0
    BY <1>2 DEF NormalDuplicate, TypeOK, Accounting, Count, Owning, Lanes
  <2>2. /\ permits' = permits + 1
        /\ running' = [running EXCEPT !["image"] = @ - 1]
        /\ running' \in [Lanes -> Nat]
        /\ UNCHANGED <<pending, waiting, goal>>
        /\ credit' \in [Lanes -> Nat]
        /\ startPending' \in Lanes \cup {NoLane}
        /\ woken' \in [Loops -> BOOLEAN]
    BY <1>2, <2>1, FinishedType DEF NormalDuplicate, Lanes
  <2>3. TypeOK'
    <3>1. permits' \in Nat
      BY <2>2 DEF TypeOK
    <3>2. pc' \in [Loops -> Places]
      BY <1>2 DEF NormalDuplicate, TypeOK, Places
    <3> QED BY <1>2, <2>2, <3>1, <3>2 DEF NormalDuplicate, TypeOK, runtime, mail, world
  <2>4. Accounting'
    BY <1>2, <2>2 DEF NormalDuplicate, TypeOK, Accounting, Count, Counted, Asking, Owning,
       RunningTotal, Lanes, Loops, runtime, mail
  <2> QED BY <1>2, <2>3, <2>4 DEF NormalDuplicate, mail
<1>3. CASE NormalRetire
  <2>1. /\ pending' = [pending EXCEPT !["image"] = @ - 1]
        /\ credit' \in [Lanes -> Nat]
        /\ startPending' \in Lanes \cup {NoLane}
    BY <1>3, RetireType DEF NormalRetire, Lanes
  <2>2. woken' \in [Loops -> BOOLEAN]
    BY <1>3, WakeAllType DEF NormalRetire, TypeOK
  <2>3. pending' \in [Lanes -> Nat]
    <3>1. pc["normal"] \in Counted
      BY <1>3 DEF NormalRetire, Counted
    <3>2. pending["image"] > 0
      BY <3>1 DEF TypeOK, Accounting, Count, Channels
    <3> QED BY <2>1, <3>2 DEF TypeOK, Lanes
  <2>4. TypeOK'
    BY <1>3, <2>1, <2>2, <2>3 DEF NormalRetire, TypeOK, Places, runtime, mail, world
  <2>5. Accounting'
    BY <1>3, <2>1 DEF NormalRetire, TypeOK, Accounting, Count, Counted, Asking, Owning,
       RunningTotal, Lanes, Loops, Channels, runtime, mail
  <2> QED BY <1>3, <2>4, <2>5 DEF NormalRetire, mail
<1> QED
  BY <1>1, <1>2, <1>3 DEF NormalStep

LEMMA ControlInv == ASSUME Inv, ControlStep PROVE Inv'
<1>1. CASE NormalClear
  <2>1. credit' \in [Lanes -> Nat] /\ startPending' \in Lanes \cup {NoLane}
    BY <1>1 DEF NormalClear, ResetTransient
  <2>2. woken' \in [Loops -> BOOLEAN]
    BY <1>1, WakeAllType DEF NormalClear, TypeOK
  <2>3. pending' \in [Lanes -> Nat]
    BY <1>1 DEF NormalClear, TypeOK, Accounting, Count, Lanes, Channels
  <2>4. TypeOK'
    BY <1>1, <2>1, <2>2, <2>3 DEF NormalClear, TypeOK, runtime
  <2>5. Accounting'
    BY <1>1 DEF NormalClear, TypeOK, Accounting, Count, RunningTotal, Lanes, Channels, runtime
  <2> QED BY <1>1, <2>4, <2>5 DEF NormalClear
<1>2. ASSUME NEW k \in {"normal", "video"}, ResetLane(k) PROVE Inv'
  <2>1. credit' \in [Lanes -> Nat] /\ startPending' \in Lanes \cup {NoLane}
    BY <1>2 DEF ResetLane, ResetTransient
  <2>2. woken' \in [Loops -> BOOLEAN]
    BY <1>2, WakeAllType DEF ResetLane, TypeOK
  <2> QED
    BY <1>2, <2>1, <2>2 DEF ResetLane, TypeOK, Accounting, Count, RunningTotal, counters,
       runtime, mail
<1> QED
  BY <1>1, <1>2 DEF ControlStep

-----------------------------------------------------------------------------
(* The display loop *)

LEMMA DisplayInv == ASSUME Inv, DisplayStep PROVE Inv'
<1>1. CASE AcquireStep("display")
  BY <1>1, AcquireInv DEF Loops
<1>2. CASE DisplayCancel
  <2>1. pc["display"] \in Asking /\ pc' = [pc EXCEPT !["display"] = "idle"]
    BY <1>2 DEF DisplayCancel, Looks, Asking
  <2>2. /\ waiting' = [waiting EXCEPT !["image"] = @ - 1]
        /\ waiting' \in [Lanes -> Nat]
    BY <1>2, <2>1 DEF DisplayCancel, TypeOK, Accounting, Count, Lanes
  <2>3. credit' \in [Lanes -> Nat] /\ startPending' \in Lanes \cup {NoLane}
    BY <1>2, SettleType DEF DisplayCancel, TypeOK, Lanes
  <2>4. woken' \in [Loops -> BOOLEAN] /\ behind' \in [Loops -> [Lanes -> Nat]]
    BY <1>2 DEF DisplayCancel, WakeAllBut, TypeOK
  <2>5. TypeOK'
    BY <1>2, <2>1, <2>2, <2>3, <2>4 DEF DisplayCancel, TypeOK, Places, mail, world
  <2>6. Accounting'
    <3>1. UNCHANGED <<pending, running, permits, jobs, mailbox, chan>>
      BY <1>2 DEF DisplayCancel, mail
    <3>2. pc["display"] # "admitted"
      BY <1>2 DEF DisplayCancel, Looks
    <3> QED
      BY <2>1, <2>2, <3>1, <3>2 DEF TypeOK, Accounting, Count, Counted, Asking, Owning,
         RunningTotal, Lanes, Loops
  <2> QED BY <1>2, <2>5, <2>6 DEF DisplayCancel, mail
<1>3. CASE DisplayAsk
  <2>1. "image" \in Channels /\ "display" \in Loops
    BY DEF Channels, Loops
  <2> QED
    BY <1>3, <2>1, EnterInv DEF DisplayAsk
<1>4. ASSUME NEW place \in {"spawning", "dropping"}, DisplayTake(place) PROVE Inv'
  <2>1. /\ pending' = [pending EXCEPT !["image"] = @ - 1]
        /\ credit' \in [Lanes -> Nat]
        /\ startPending' \in Lanes \cup {NoLane}
    BY <1>4, RetireType DEF DisplayTake, Lanes
  <2>2. woken' \in [Loops -> BOOLEAN]
    BY <1>4, WakeAllType DEF DisplayTake, TypeOK
  <2>3. pending' \in [Lanes -> Nat] /\ mailbox' \in Nat
    BY <1>4, <2>1 DEF DisplayTake, TypeOK, Accounting, Count, Lanes, Channels
  <2>4. TypeOK'
    BY <1>4, <2>1, <2>2, <2>3 DEF DisplayTake, TypeOK, Places, runtime, world
  <2>5. Accounting'
    BY <1>4, <2>1 DEF DisplayTake, TypeOK, Accounting, Count, Counted, Asking, Owning,
       RunningTotal, Lanes, Loops, Channels, runtime
  <2> QED BY <1>4, <2>4, <2>5 DEF DisplayTake
<1>5. CASE DisplaySpawn
  <2>1. /\ jobs' = [jobs EXCEPT !["image"] = @ + 1]
        /\ jobs' \in [Lanes -> Nat] /\ fresh' \in [Lanes -> Nat]
        /\ behind' \in [Loops -> [Lanes -> Nat]]
    BY <1>5, SpawnedType DEF DisplaySpawn, Lanes
  <2>2. TypeOK'
    BY <1>5, <2>1 DEF DisplaySpawn, TypeOK, Places, counters, rest, mail, world
  <2>3. Accounting'
    BY <1>5, <2>1 DEF DisplaySpawn, TypeOK, Accounting, Count, Counted, Asking, Owning,
       RunningTotal, Lanes, Loops, counters, mail
  <2> QED BY <1>5, <2>2, <2>3 DEF DisplaySpawn, mail
<1>6. CASE DisplayGiveBack
  <2>1. pc["display"] \in Owning /\ pc' = [pc EXCEPT !["display"] = "idle"]
    BY <1>6 DEF DisplayGiveBack, Owning
  <2>2. running["image"] > 0
    BY <2>1 DEF TypeOK, Accounting, Count, Lanes
  <2>3. /\ permits' = permits + 1
        /\ running' = [running EXCEPT !["image"] = @ - 1]
        /\ running' \in [Lanes -> Nat]
        /\ UNCHANGED <<pending, waiting, goal>>
        /\ credit' \in [Lanes -> Nat]
        /\ startPending' \in Lanes \cup {NoLane}
        /\ woken' \in [Loops -> BOOLEAN]
    BY <1>6, <2>2, FinishedType DEF DisplayGiveBack, Lanes
  <2>4. TypeOK'
    <3>1. permits' \in Nat
      BY <2>3 DEF TypeOK
    <3>2. pc' \in [Loops -> Places]
      BY <2>1 DEF TypeOK, Places
    <3> QED BY <1>6, <2>3, <3>1, <3>2 DEF DisplayGiveBack, TypeOK, runtime, mail, world
  <2>5. Accounting'
    BY <1>6, <2>1, <2>3 DEF DisplayGiveBack, TypeOK, Accounting, Count, Counted, Asking,
       Owning, RunningTotal, Lanes, Loops, runtime, mail
  <2> QED BY <1>6, <2>4, <2>5 DEF DisplayGiveBack, mail
<1>7. CASE DisplayStop
  <2>1. TypeOK'
    BY <1>7 DEF DisplayStop, TypeOK, Places, counters, rest, runtime, mail, world
  <2>2. Accounting'
    BY <1>7 DEF DisplayStop, TypeOK, Accounting, Count, Counted, Asking, Owning,
       RunningTotal, Lanes, Loops, counters, runtime, mail
  <2> QED BY <1>7, <2>1, <2>2 DEF DisplayStop, mail
<1> QED
  BY <1>1, <1>2, <1>3, <1>4, <1>5, <1>6, <1>7 DEF DisplayStep

-----------------------------------------------------------------------------
\* No counter of ThumbnailLaneState ever wraps, and each is the number of things
\* it counts: Inv is an invariant of the specification.
THEOREM Correct == Spec => []Inv
<1>1. Inv /\ [Next]_vars => Inv'
  <2> SUFFICES ASSUME Inv, [Next]_vars PROVE Inv'
    OBVIOUS
  <2>1. CASE UNCHANGED vars
    BY <2>1 DEF vars, TypeOK, Accounting, Count, RunningTotal
  <2>2. CASE Next
    BY <2>2, UserInv, NormalInv, QueueInv, DisplayInv, ControlInv, JobInv
    DEF Next, VideoStep
  <2> QED BY <2>1, <2>2
<1> QED
  BY InitInv, <1>1, PTL DEF Spec

\* The types of Inv, on their own.
THEOREM TypeCorrect == Spec => []TypeOK
  BY Correct, PTL DEF Inv

\* The usize counters of ThumbnailLaneState and the semaphore agree with what
\* is queued, waiting, running and lent.
THEOREM AccountingCorrect == Spec => []Accounting
  BY Correct, PTL DEF Inv

\* A lane that may_start admits always finds a permit in the semaphore.
THEOREM SemaphoreCorrect == Spec => []SemaphoreNeverShort
<1>1. Inv => SemaphoreNeverShort
  <2> SUFFICES ASSUME Inv, ThreadFree, NEW l \in Lanes, MayStart(l) PROVE permits > 0
    BY DEF SemaphoreNeverShort
  <2>1. RunningTotal < BaseGoal
    BY BaseGoalAssumption DEF MayStart, TypeOK, RunningTotal, Lanes
  <2>2. \A k \in Loops : Count(k, {"admitted"}) = 0
    BY DEF ThreadFree, Count
  <2>3. permits + RunningTotal = BaseGoal
    BY <2>2, BaseGoalAssumption DEF Accounting, TypeOK, Loops, RunningTotal, Lanes
  <2> QED
    BY <2>1, <2>3, BaseGoalAssumption DEF TypeOK, RunningTotal, Lanes
<1> QED
  BY <1>1, Correct, PTL

-----------------------------------------------------------------------------
(* Credits and start_pending.  Each operation of ThumbnailLaneState has its    *)
(* lemma; an action is one of them, or leaves counters and credits alone.      *)

\* What refresh_start_pending marks is starved, if what it found was not running.
LEMMA RefreshedStarved ==
  ASSUME NEW sp \in Lanes \cup {NoLane}, NEW w \in [Lanes -> Nat], NEW r \in [Lanes -> Nat],
         sp # NoLane => r[sp] = 0, Refreshed(sp, w, r) # NoLane
  PROVE  Starved(Refreshed(sp, w, r), w, r)
  BY DEF Refreshed, Starved, Other, Lanes, NoLane

LEMMA QuietPriorityJustified ==
  ASSUME Inv, Inv', PriorityJustified, UNCHANGED <<waiting, running, rest>>,
         \A l \in Lanes : pending'[l] >= pending[l]
  PROVE  PriorityJustified'
<1>1. StartPendingIsStarved'
  BY DEF PriorityJustified, StartPendingIsStarved, Starved, rest
<1>2. CreditBound'
  BY DEF PriorityJustified, CreditBound, rest
<1>3. CreditHasBacklog'
  BY DEF PriorityJustified, CreditHasBacklog, TypeOK, rest
<1> QED
  BY <1>1, <1>2, <1>3 DEF PriorityJustified

\* The common end of retire, cancel, try_started and finished, whose counters
\* changed on lane l only.
LEMMA SettlePriorityJustified ==
  ASSUME Inv, Inv', PriorityJustified, NEW l \in Lanes, NEW c \in [Lanes -> Nat],
         NEW sp \in Lanes \cup {NoLane}, Settle(l, c, sp),
         sp # NoLane => running'[sp] = 0,
         \A m \in Lanes : c[m] + running'[m] <= BaseGoal,
         \A m \in Lanes \ {l} : c[m] = credit[m] /\ pending'[m] = pending[m]
                                 /\ waiting'[m] = waiting[m] /\ running'[m] = running[m]
  PROVE  PriorityJustified'
<1>1. StartPendingIsStarved'
  <2>1. startPending' = Refreshed(sp, waiting', running')
    BY DEF Settle
  <2> QED
    BY <2>1, RefreshedStarved DEF StartPendingIsStarved, TypeOK
<1>2. /\ \A m \in Lanes : credit'[m] \in {0, c[m]}
      /\ \A m \in Lanes \ {l} : credit'[m] = c[m]
      /\ pending'[l] + waiting'[l] + running'[l] > 0 \/ credit'[l] = 0
  <2>1. credit' = IF pending'[l] = 0 /\ waiting'[l] = 0 /\ running'[l] = 0
                  THEN [c EXCEPT ![l] = 0] ELSE c
    BY DEF Settle, ClearedAtBoundary
  <2>2. pending'[l] \in Nat /\ waiting'[l] \in Nat /\ running'[l] \in Nat
    BY DEF TypeOK
  <2>3. CASE pending'[l] = 0 /\ waiting'[l] = 0 /\ running'[l] = 0
    BY <2>1, <2>3
  <2>4. CASE ~(pending'[l] = 0 /\ waiting'[l] = 0 /\ running'[l] = 0)
    BY <2>1, <2>2, <2>4
  <2> QED BY <2>3, <2>4
<1>3. CreditBound'
  <2> SUFFICES ASSUME NEW m \in Lanes PROVE credit'[m] + running'[m] <= BaseGoal
    BY DEF CreditBound
  <2>1. running'[m] \in Nat /\ c[m] \in Nat
    BY DEF TypeOK
  <2> QED BY <1>2, <2>1, BaseGoalAssumption
<1>4. CreditHasBacklog'
  <2> SUFFICES ASSUME NEW m \in Lanes, credit'[m] > 0
               PROVE  pending'[m] + waiting'[m] + running'[m] > 0
    BY DEF CreditHasBacklog
  <2>1. CASE m = l
    BY <1>2, <2>1
  <2>2. CASE m # l
    BY <1>2, <2>2 DEF PriorityJustified, CreditHasBacklog
  <2> QED BY <2>1, <2>2
<1> QED
  BY <1>1, <1>3, <1>4 DEF PriorityJustified

LEMMA RetirePriorityJustified ==
  ASSUME Inv, Inv', PriorityJustified, NEW l \in Lanes, NEW n \in Nat, Retire(l, n),
         UNCHANGED <<waiting, running>>
  PROVE  PriorityJustified'
<1>1. CASE n = 0
  <2>1. UNCHANGED <<waiting, running, rest>>
    BY <1>1 DEF Retire, rest
  <2>2. \A m \in Lanes : pending'[m] >= pending[m]
    BY <1>1 DEF Retire, TypeOK
  <2> QED
    BY <2>1, <2>2, QuietPriorityJustified
<1>2. CASE n # 0
  <2>1. Settle(l, credit, startPending)
    BY <1>2 DEF Retire
  <2>2. startPending # NoLane => running'[startPending] = 0
    BY DEF PriorityJustified, StartPendingIsStarved, Starved
  <2>3. \A m \in Lanes : credit[m] + running'[m] <= BaseGoal
    BY DEF PriorityJustified, CreditBound
  <2>4. \A m \in Lanes \ {l} : pending'[m] = pending[m]
    BY DEF Retire, TypeOK
  <2> QED
    BY <2>1, <2>2, <2>3, <2>4, SettlePriorityJustified DEF TypeOK
<1> QED BY <1>1, <1>2

LEMMA FinishedPriorityJustified ==
  ASSUME Inv, Inv', PriorityJustified, NEW l \in Lanes, Finished(l)
  PROVE  PriorityJustified'
<1> DEFINE c == [credit EXCEPT ![l] = IF pending[l] > 0 THEN @ + 1 ELSE @]
<1>1. c \in [Lanes -> Nat]
  BY DEF TypeOK
<1>2. Settle(l, c, startPending)
  BY DEF Finished
<1>3. running' = [running EXCEPT ![l] = @ - 1] /\ UNCHANGED <<pending, waiting>>
  BY DEF Finished
<1>4. \A m \in Lanes \ {l} : c[m] = credit[m] /\ pending'[m] = pending[m]
                               /\ waiting'[m] = waiting[m] /\ running'[m] = running[m]
  BY <1>3 DEF TypeOK
<1>5. \A m \in Lanes : c[m] + running'[m] <= BaseGoal
  <2> TAKE m \in Lanes
  <2>1. credit[m] \in Nat /\ running[m] \in Nat /\ running'[m] \in Nat
    BY DEF TypeOK
  <2>2. credit[m] + running[m] <= BaseGoal
    BY DEF PriorityJustified, CreditBound
  <2>3. CASE m = l
    BY <1>3, <2>1, <2>2, <2>3, BaseGoalAssumption DEF TypeOK
  <2>4. CASE m # l
    BY <1>3, <2>2, <2>4 DEF TypeOK
  <2> QED BY <2>3, <2>4
<1>6. startPending # NoLane => running'[startPending] = 0
  BY <1>3 DEF PriorityJustified, StartPendingIsStarved, Starved, TypeOK
<1> HIDE DEF c
<1> QED
  BY <1>1, <1>2, <1>4, <1>5, <1>6, SettlePriorityJustified DEF TypeOK

LEMMA StartPriorityJustified ==
  ASSUME Inv, Inv', PriorityJustified, NEW k \in Loops, Start(k)
  PROVE  PriorityJustified'
<1> DEFINE l == LaneOf(k)
           c == [credit EXCEPT ![l] = IF @ > 0 THEN @ - 1 ELSE 0]
           sp == IF startPending = l THEN NoLane ELSE startPending
<1>1. l \in Lanes /\ c \in [Lanes -> Nat] /\ sp \in Lanes \cup {NoLane}
  BY DEF LaneOf, Lanes, TypeOK
<1>2. Settle(l, c, sp)
  BY DEF Start, Started
<1>3. /\ waiting' = [waiting EXCEPT ![l] = @ - 1]
      /\ running' = [running EXCEPT ![l] = @ + 1]
      /\ UNCHANGED pending
      /\ RunningTotal < goal
  BY DEF Start, Started
<1>4. \A m \in Lanes \ {l} : c[m] = credit[m] /\ pending'[m] = pending[m]
                               /\ waiting'[m] = waiting[m] /\ running'[m] = running[m]
  BY <1>3 DEF TypeOK
<1>5. \A m \in Lanes : c[m] + running'[m] <= BaseGoal
  <2> TAKE m \in Lanes
  <2>1. credit[m] \in Nat /\ running[m] \in Nat /\ running'[m] \in Nat
    BY DEF TypeOK
  <2>2. credit[m] + running[m] <= BaseGoal
    BY DEF PriorityJustified, CreditBound
  <2>3. CASE m = l
    <3>1. running[l] < BaseGoal
      BY <1>1, <1>3, BaseGoalAssumption DEF RunningTotal, TypeOK, Lanes
    <3>2. c[l] = IF credit[l] > 0 THEN credit[l] - 1 ELSE 0
      BY <1>1 DEF TypeOK
    <3>3. running'[l] = running[l] + 1
      BY <1>1, <1>3 DEF TypeOK
    <3> HIDE DEF c, l
    <3> QED BY <2>1, <2>2, <2>3, <3>1, <3>2, <3>3, BaseGoalAssumption
  <2>4. CASE m # l
    BY <1>3, <2>2, <2>4 DEF TypeOK
  <2> QED BY <2>3, <2>4
<1>6. sp # NoLane => running'[sp] = 0
  BY <1>1, <1>3 DEF PriorityJustified, StartPendingIsStarved, Starved, TypeOK
<1> HIDE DEF l, c, sp
<1> QED
  BY <1>1, <1>2, <1>4, <1>5, <1>6, SettlePriorityJustified

LEMMA EnterPriorityJustified ==
  ASSUME Inv, Inv', PriorityJustified, NEW k \in Loops, Enter(k)
  PROVE  PriorityJustified'
<1>1. \A m \in Lanes : waiting'[m] >= waiting[m]
  BY DEF Enter, TypeOK
<1>2. UNCHANGED <<pending, running, credit>>
  BY DEF Enter
<1>3. StartPendingIsStarved'
  <2>1. startPending' = Refreshed(startPending, waiting', running)
    BY DEF Enter
  <2>2. startPending # NoLane => running[startPending] = 0
    BY DEF PriorityJustified, StartPendingIsStarved, Starved
  <2> QED
    BY <1>2, <2>1, <2>2, RefreshedStarved DEF StartPendingIsStarved, TypeOK
<1>4. CreditBound' /\ CreditHasBacklog'
  BY <1>1, <1>2 DEF PriorityJustified, CreditBound, CreditHasBacklog, TypeOK
<1> QED
  BY <1>3, <1>4 DEF PriorityJustified

LEMMA CancelPriorityJustified ==
  ASSUME Inv, Inv', PriorityJustified, DisplayCancel
  PROVE  PriorityJustified'
<1>1. Settle("image", credit, startPending) /\ "image" \in Lanes
  BY DEF DisplayCancel, Lanes
<1>2. UNCHANGED <<pending, running>>
  BY DEF DisplayCancel
<1>3. \A m \in Lanes \ {"image"} : waiting'[m] = waiting[m]
  BY DEF DisplayCancel, TypeOK
<1>4. startPending # NoLane => running'[startPending] = 0
  BY <1>2 DEF PriorityJustified, StartPendingIsStarved, Starved
<1>5. \A m \in Lanes : credit[m] + running'[m] <= BaseGoal
  BY <1>2 DEF PriorityJustified, CreditBound
<1> QED
  BY <1>1, <1>2, <1>3, <1>4, <1>5, SettlePriorityJustified DEF TypeOK

LEMMA ResetPriorityJustified ==
  ASSUME Inv, Inv', PriorityJustified, ResetTransient, UNCHANGED running
  PROVE  PriorityJustified'
<1>1. StartPendingIsStarved'
  BY DEF ResetTransient, StartPendingIsStarved
<1>2. CreditBound'
  <2> SUFFICES ASSUME NEW l \in Lanes PROVE credit'[l] + running'[l] <= BaseGoal
    BY DEF CreditBound
  <2>1. credit'[l] = 0 /\ running'[l] = running[l]
    BY DEF ResetTransient
  <2>2. credit[l] + running[l] <= BaseGoal /\ credit[l] \in Nat /\ running[l] \in Nat
    BY DEF PriorityJustified, CreditBound, TypeOK
  <2> QED BY <2>1, <2>2, BaseGoalAssumption
<1>3. CreditHasBacklog'
  BY DEF CreditHasBacklog, ResetTransient
<1> QED
  BY <1>1, <1>2, <1>3 DEF PriorityJustified

LEMMA StepPriority == ASSUME Inv, Inv', PriorityJustified, [Next]_vars PROVE PriorityJustified'
<1> DEFINE Quiet == /\ UNCHANGED <<waiting, running, rest>>
                    /\ \A l \in Lanes : pending'[l] >= pending[l]
<1>0. ASSUME Quiet PROVE PriorityJustified'
  BY <1>0, QuietPriorityJustified
<1>1. CASE UserStep
  <2>1. ASSUME NEW medium \in Media, UpdateGlobalGoal(medium) PROVE Quiet
    BY <2>1 DEF UpdateGlobalGoal, counters, TypeOK
  <2>2. ASSUME NEW c \in Channels, Submit(c) PROVE Quiet
    BY <2>2 DEF Submit, rest, TypeOK
  <2>3. CASE ReplaceBegin
    BY <2>3, RetirePriorityJustified DEF ReplaceBegin, Lanes, TypeOK
  <2>4. ASSUME NEW n \in 0 .. MaxMailbox, ReplaceEnd(n) PROVE Quiet
    BY <2>4, BoundsAssumption DEF ReplaceEnd, rest, TypeOK
  <2>5. ASSUME NEW n \in 0 .. MaxMailbox, RemoveDisplayTasks(n) PROVE PriorityJustified'
    BY <2>5, RetirePriorityJustified, BoundsAssumption DEF RemoveDisplayTasks, Lanes
  <2>6. CASE CloseMailbox
    BY <2>6, RetirePriorityJustified DEF CloseMailbox, Lanes, TypeOK
  <2>7. CASE SendShutdown
    <3> Quiet BY <2>7 DEF SendShutdown, counters, TypeOK
    <3> QED BY <1>0
  <2> HIDE DEF Quiet
  <2> QED
    BY <1>0, <1>1, <2>1, <2>2, <2>3, <2>4, <2>5, <2>6, <2>7 DEF UserStep
<1>2. ASSUME NEW k \in Loops, AcquireStep(k) PROVE PriorityJustified'
  <2>1. CASE Poll(k) \/ StartRefused(k)
    <3> Quiet BY <2>1 DEF Poll, StartRefused, counters, TypeOK
    <3> QED BY <1>0
  <2>2. CASE Start(k)
    BY <2>2, StartPriorityJustified
  <2> QED BY <1>2, <2>1, <2>2 DEF AcquireStep
<1>3. ASSUME NEW k \in {"normal", "video"}, QueueLoopStep(k) PROVE PriorityJustified'
  <2>0. k \in Loops /\ LaneOf(k) \in Lanes
    BY DEF Loops, LaneOf, Lanes
  <2>1. ASSUME NEW c \in Channels, DropRequest(k, c) PROVE PriorityJustified'
    BY <2>0, <2>1, RetirePriorityJustified DEF DropRequest
  <2>2. ASSUME NEW c \in Channels, AskPermit(k, c) PROVE PriorityJustified'
    BY <2>0, <2>2, EnterPriorityJustified DEF AskPermit
  <2>3. CASE Spawn(k)
    BY <2>0, <2>3, RetirePriorityJustified DEF Spawn
  <2>4. CASE StopLoop(k)
    BY <2>4, ResetPriorityJustified DEF StopLoop, counters
  <2> QED
    BY <1>2, <1>3, <2>0, <2>1, <2>2, <2>3, <2>4 DEF QueueLoopStep
<1>4. CASE NormalDuplicate
  BY <1>4, FinishedPriorityJustified DEF NormalDuplicate, Lanes
<1>5. CASE NormalRetire
  BY <1>5, RetirePriorityJustified DEF NormalRetire, Lanes
<1>6. CASE DisplayStep
  <2>1. CASE DisplayCancel
    BY <2>1, CancelPriorityJustified
  <2>2. CASE DisplayAsk
    BY <2>2, EnterPriorityJustified DEF DisplayAsk, Loops
  <2>3. ASSUME NEW place \in {"spawning", "dropping"}, DisplayTake(place) PROVE PriorityJustified'
    BY <2>3, RetirePriorityJustified DEF DisplayTake, Lanes
  <2>4. CASE DisplaySpawn \/ DisplayStop
    <3> Quiet BY <2>4 DEF DisplaySpawn, DisplayStop, counters, TypeOK
    <3> QED BY <1>0
  <2>5. CASE DisplayGiveBack
    BY <2>5, FinishedPriorityJustified DEF DisplayGiveBack, Lanes
  <2>6. "display" \in Loops
    BY DEF Loops
  <2> QED
    BY <1>2, <1>6, <2>1, <2>2, <2>3, <2>4, <2>5, <2>6 DEF DisplayStep
<1>7. CASE ControlStep
  <2>1. CASE NormalClear
    BY <2>1, ResetPriorityJustified DEF NormalClear
  <2>2. ASSUME NEW k \in {"normal", "video"}, ResetLane(k) PROVE PriorityJustified'
    BY <2>2, ResetPriorityJustified DEF ResetLane, counters
  <2> QED BY <1>7, <2>1, <2>2 DEF ControlStep
<1>8. ASSUME NEW l \in Lanes, BeginJob(l) \/ Finish(l) PROVE PriorityJustified'
  <2>1. CASE BeginJob(l)
    <3> Quiet BY <2>1 DEF BeginJob, counters, TypeOK
    <3> QED BY <1>0
  <2>2. CASE Finish(l)
    BY <2>2, FinishedPriorityJustified DEF Finish
  <2> QED BY <1>8, <2>1, <2>2
<1>9. CASE UNCHANGED vars
  <2> Quiet BY <1>9 DEF vars, rest, TypeOK
  <2> QED BY <1>0
<1> HIDE DEF Quiet
<1> QED
  BY <1>1, <1>3, <1>4, <1>5, <1>6, <1>7, <1>8, <1>9 DEF Next, NormalStep, VideoStep

\* start_pending marks only a starved lane, no lane claims more than the whole
\* budget, and a credit never outlives the work of its lane.
THEOREM PriorityCorrect == Spec => []PriorityJustified
<1>1. Init => PriorityJustified
  BY BaseGoalAssumption DEF Init, PriorityJustified, StartPendingIsStarved, CreditBound,
     CreditHasBacklog
<1>2. Inv /\ Inv' /\ PriorityJustified /\ [Next]_vars => PriorityJustified'
  BY StepPriority
<1> QED
  BY Correct, <1>1, <1>2, PTL DEF Spec

-----------------------------------------------------------------------------
\* Only try_started adds to what runs, and it does so under the goal: lowering
\* the goal between may_start and try_started cannot be overrun.
THEOREM StartsUnderGoalCorrect == Spec => StartsUnderGoal
<1> DEFINE Under == RunningTotal' > RunningTotal => RunningTotal' <= goal'
<1>1. ASSUME Inv, [Next]_vars PROVE Under
  <2> USE <1>1
  <2>0. /\ running["image"] \in Nat /\ running["video"] \in Nat
        /\ RunningTotal \in Nat /\ goal \in Nat
    <3>1. running["image"] \in Nat /\ running["video"] \in Nat
      BY DEF TypeOK, Lanes
    <3>2. goal \in Nat
      BY BaseGoalAssumption DEF TypeOK
    <3> QED BY <3>1, <3>2 DEF RunningTotal
  <2>1. ASSUME UNCHANGED running PROVE Under
    BY <2>0, <2>1 DEF RunningTotal
  <2>2. ASSUME NEW l \in Lanes, Finished(l) PROVE Under
    <3>1. running' = [running EXCEPT ![l] = @ - 1] /\ l \in {"image", "video"}
      BY <2>2 DEF Finished, Lanes
    <3>2. RunningTotal' = RunningTotal - 1
      BY <2>0, <3>1 DEF RunningTotal, TypeOK, Lanes
    <3> QED BY <2>0, <3>2
  <2>3. ASSUME NEW k \in Loops, Start(k) PROVE Under
    <3>1. /\ running' = [running EXCEPT ![LaneOf(k)] = @ + 1]
          /\ RunningTotal < goal /\ goal' = goal
      BY <2>3 DEF Start, Started
    <3>2. RunningTotal' = RunningTotal + 1
      <4>1. LaneOf(k) \in {"image", "video"}
        BY DEF LaneOf
      <4> QED BY <2>0, <3>1, <4>1 DEF RunningTotal, TypeOK, Lanes
    <3> QED BY <2>0, <3>1, <3>2
  <2>4. ASSUME NEW k \in Loops, AcquireStep(k) PROVE Under
    <3>1. CASE Poll(k) \/ StartRefused(k)
      BY <2>1, <3>1 DEF Poll, StartRefused, counters
    <3> QED BY <2>3, <2>4, <3>1 DEF AcquireStep
  <2>5. CASE UserStep
    BY <2>1, <2>5 DEF UserStep, UpdateGlobalGoal, Submit, ReplaceBegin, ReplaceEnd,
       RemoveDisplayTasks, CloseMailbox, SendShutdown, counters
  <2>6. ASSUME NEW k \in {"normal", "video"}, QueueLoopStep(k) PROVE Under
    <3>1. CASE Spawn(k) \/ StopLoop(k) \/ \E c \in Channels : DropRequest(k, c) \/ AskPermit(k, c)
      BY <2>1, <3>1 DEF Spawn, StopLoop, DropRequest, AskPermit, Enter, counters
    <3> QED BY <2>4, <2>6, <3>1 DEF QueueLoopStep, Loops
  <2>7. CASE NormalDuplicate \/ NormalRetire
    BY <2>1, <2>2, <2>7 DEF NormalDuplicate, NormalRetire, Lanes
  <2>8. CASE DisplayStep
    <3>1. CASE DisplayCancel \/ DisplayAsk \/ DisplaySpawn \/ DisplayStop
                 \/ \E place \in {"spawning", "dropping"} : DisplayTake(place)
      BY <2>1, <3>1 DEF DisplayCancel, DisplayAsk, Enter, DisplaySpawn, DisplayStop,
         DisplayTake, counters
    <3>2. CASE DisplayGiveBack
      BY <2>2, <3>2 DEF DisplayGiveBack, Lanes
    <3> QED BY <2>4, <2>8, <3>1, <3>2 DEF DisplayStep, Loops
  <2>9. CASE ControlStep \/ \E l \in Lanes : BeginJob(l) \/ Finish(l)
    BY <2>1, <2>2, <2>9 DEF ControlStep, NormalClear, ResetLane, BeginJob, Finish, counters
  <2>10. CASE UNCHANGED vars
    BY <2>1, <2>10 DEF vars
  <2> HIDE DEF Under
  <2> QED
    BY <2>5, <2>6, <2>7, <2>8, <2>9, <2>10 DEF Next, NormalStep, VideoStep
<1>2. Inv /\ [Next]_vars => [Under]_vars
  BY <1>1
<1> HIDE DEF Under
<1>3. Spec => [][Under]_vars
  BY <1>2, Correct, PTL DEF Spec
<1> QED
  BY <1>3 DEF StartsUnderGoal, Under
-----------------------------------------------------------------------------
(* Wake-ups.  NoLostWakeup speaks of the moments at which no loop is between *)
(* two awaits.  In between, the loop that is at work either has changed      *)
(* nothing a sleeper looks at, or has woken it.                              *)

\* A loop in one of these places is between two awaits.
AtWork == Owning \cup {"entered", "admitted", "retiring"}

\* The runtime has one thread.
OneAtWork == \A j, k \in Loops : pc[j] \in AtWork /\ pc[k] \in AtWork => j = k

\* refresh_start_pending would find nothing new to mark, unless there are no credits:
\* so a loop that enters acquire_thumbnail_permit marks no lane but its own.
MarkIsFresh ==
    startPending = NoLane /\ (credit["image"] > 0 \/ credit["video"] > 0)
        => \A l \in Lanes : ~Starved(l, waiting, running)

SleeperBarred == \A k \in Loops : pc[k] = "waiting" /\ ~woken[k] => ~MayStart(LaneOf(k))

MailAwaited ==
    /\ pc["normal"] = "mailwait" /\ ~woken["normal"] => mailbox > 0 \/ replacing
    /\ pc["display"] \in {"waiting", "admitted"} /\ ~woken["display"]
          => mailbox > 0 \/ replacing

Awake == OneAtWork /\ MarkIsFresh /\ SleeperBarred /\ MailAwaited

LEMMA AwakeSuffices == Inv /\ Awake => NoLostWakeup
  BY DEF Awake, SleeperBarred, MailAwaited, NoLostWakeup

\* All that a step may do to the sleepers without waking them.
LEMMA NobodyDisturbed ==
  ASSUME Inv, SleeperBarred, UNCHANGED <<running, rest, goal>>,
         \A k \in Loops : pc'[k] = "waiting" /\ ~woken'[k] =>
             \/ pc[k] = "waiting" /\ ~woken[k]
             \/ ~MayStart(LaneOf(k))
  PROVE  SleeperBarred'
<1> SUFFICES ASSUME NEW k \in Loops, pc'[k] = "waiting", ~woken'[k] PROVE ~MayStart(LaneOf(k))'
  BY DEF SleeperBarred
<1>1. ~MayStart(LaneOf(k))
  BY DEF SleeperBarred
<1> QED
  BY <1>1 DEF MayStart, RunningTotal, rest

\* A step that wakes all of acquire_thumbnail_permit.
LEMMA AllWoken ==
  ASSUME Inv, \A k \in LaneSleepers : pc'[k] = "waiting" => woken'[k],
         \A k \in Loops : pc'[k] = "waiting" => pc[k] = "waiting"
  PROVE  SleeperBarred'
  BY DEF SleeperBarred, LaneSleepers, Asking

LEMMA WakeAllWakes ==
  ASSUME NEW sleepers \in SUBSET Loops, WakeAll(sleepers), Inv
  PROVE  /\ \A k \in sleepers : woken'[k]
         /\ \A k \in Loops : woken[k] => woken'[k]
  BY DEF WakeAll, TypeOK

LEMMA SleepersAreLoops == LaneSleepers \in SUBSET Loops /\ MailSleepers \in SUBSET Loops
  BY DEF LaneSleepers, MailSleepers, Loops

-----------------------------------------------------------------------------
LEMMA SettleFresh ==
  ASSUME NEW l, NEW c, NEW sp, Settle(l, c, sp), TypeOK' PROVE MarkIsFresh'
  BY DEF Settle, Refreshed, MarkIsFresh, Starved, Other, Lanes, NoLane

LEMMA StepFresh == ASSUME Inv, Inv', MarkIsFresh, [Next]_vars PROVE MarkIsFresh'
<1>1. ASSUME UNCHANGED <<waiting, running, rest>> PROVE MarkIsFresh'
  BY <1>1 DEF MarkIsFresh, Starved, rest
<1>2. ASSUME ResetTransient PROVE MarkIsFresh'
  BY <1>2 DEF MarkIsFresh, ResetTransient, Lanes
<1>3. ASSUME NEW l \in Lanes, NEW n \in Nat, Retire(l, n), UNCHANGED <<waiting, running>>
      PROVE MarkIsFresh'
  BY <1>1, <1>3, SettleFresh DEF Retire, rest
<1>4. ASSUME NEW l \in Lanes, Finished(l) PROVE MarkIsFresh'
  BY <1>4, SettleFresh DEF Finished
<1>5. ASSUME NEW k \in Loops, Enter(k) PROVE MarkIsFresh'
  BY <1>5 DEF Enter, Refreshed, MarkIsFresh, Starved, Other, Lanes, NoLane
<1>6. CASE UserStep
  <2>1. "image" \in Lanes /\ mailbox \in Nat
    BY DEF Lanes, TypeOK
  <2>2. ASSUME NEW n \in 0 .. MaxMailbox, ReplaceEnd(n) \/ RemoveDisplayTasks(n)
        PROVE  MarkIsFresh'
    BY <1>1, <1>3, <2>1, <2>2, BoundsAssumption DEF ReplaceEnd, RemoveDisplayTasks
  <2>3. CASE ReplaceBegin \/ CloseMailbox
    BY <1>3, <2>1, <2>3 DEF ReplaceBegin, CloseMailbox
  <2>4. CASE SendShutdown \/ (\E medium \in Media : UpdateGlobalGoal(medium))
             \/ (\E c \in Channels : Submit(c))
    BY <1>1, <2>4 DEF SendShutdown, UpdateGlobalGoal, Submit, counters
  <2> QED BY <1>6, <2>2, <2>3, <2>4 DEF UserStep
<1>7. ASSUME NEW k \in Loops, AcquireStep(k) PROVE MarkIsFresh'
  BY <1>1, <1>7, SettleFresh DEF AcquireStep, Poll, StartRefused, Start, Started, counters
<1>8. ASSUME NEW k \in {"normal", "video"}, QueueLoopStep(k) PROVE MarkIsFresh'
  <2>1. k \in Loops /\ LaneOf(k) \in Lanes
    BY DEF Loops, LaneOf, Lanes
  <2> QED
    BY <1>2, <1>3, <1>5, <1>7, <1>8, <2>1 DEF QueueLoopStep, DropRequest, AskPermit, Spawn,
       StopLoop, counters
<1>9. CASE NormalDuplicate \/ NormalRetire
  BY <1>3, <1>4, <1>9 DEF NormalDuplicate, NormalRetire, Lanes
<1>10. CASE DisplayStep
  <2>1. "display" \in Loops /\ "image" \in Lanes
    BY DEF Loops, Lanes
  <2>2. CASE DisplayCancel
    BY <2>2, SettleFresh DEF DisplayCancel
  <2>3. CASE DisplaySpawn \/ DisplayStop
    BY <1>1, <2>3 DEF DisplaySpawn, DisplayStop, counters
  <2> QED
    BY <1>3, <1>4, <1>5, <1>7, <1>10, <2>1, <2>2, <2>3 DEF DisplayStep, DisplayAsk, DisplayTake,
       DisplayGiveBack
<1>11. CASE ControlStep
  BY <1>2, <1>11 DEF ControlStep, NormalClear, ResetLane
<1>12. ASSUME NEW l \in Lanes, BeginJob(l) \/ Finish(l) PROVE MarkIsFresh'
  BY <1>1, <1>4, <1>12 DEF BeginJob, Finish, counters
<1>13. CASE UNCHANGED vars
  BY <1>1, <1>13 DEF vars, rest
<1> QED
  BY <1>6, <1>8, <1>9, <1>10, <1>11, <1>12, <1>13 DEF Next, NormalStep, VideoStep

-----------------------------------------------------------------------------
\* A step that moves one loop, which was at work or is not.
LEMMA OneMoves ==
  ASSUME Inv, OneAtWork, NEW k \in Loops, NEW place, pc' = [pc EXCEPT ![k] = place],
         ThreadFree \/ pc[k] \in AtWork \/ place \notin AtWork
  PROVE  OneAtWork'
  BY DEF OneAtWork, ThreadFree, AtWork, TypeOK

LEMMA StepOne == ASSUME Inv, OneAtWork, [Next]_vars PROVE OneAtWork'
<1>1. ASSUME UNCHANGED pc PROVE OneAtWork'
  BY <1>1 DEF OneAtWork
<1>2. CASE UserStep
  BY <1>1, <1>2 DEF UserStep, UpdateGlobalGoal, Submit, ReplaceBegin, ReplaceEnd,
     RemoveDisplayTasks, CloseMailbox, SendShutdown
<1>3. ASSUME NEW k \in Loops, AcquireStep(k) PROVE OneAtWork'
  <2>1. CASE Poll(k)
    BY <2>1, OneMoves DEF Poll, Looks, AtWork
  <2>2. CASE StartRefused(k) \/ Start(k)
    BY <2>2, OneMoves DEF StartRefused, Start, Started, AtWork
  <2> QED BY <1>3, <2>1, <2>2 DEF AcquireStep
<1>4. ASSUME NEW k \in {"normal", "video"}, QueueLoopStep(k) PROVE OneAtWork'
  <2>1. k \in Loops
    BY DEF Loops
  <2>2. ASSUME NEW c \in Channels, DropRequest(k, c) \/ AskPermit(k, c) PROVE OneAtWork'
    BY <1>1, <2>1, <2>2, OneMoves DEF DropRequest, AskPermit, Receives, Enter
  <2>3. CASE Spawn(k) \/ StopLoop(k)
    BY <2>1, <2>3, OneMoves DEF Spawn, StopLoop, AtWork, Owning
  <2> QED BY <1>3, <1>4, <2>1, <2>2, <2>3 DEF QueueLoopStep
<1>5. CASE NormalDuplicate \/ NormalRetire
  BY <1>5, OneMoves DEF NormalDuplicate, NormalRetire, AtWork, Owning, Loops
<1>6. CASE DisplayStep
  <2>1. "display" \in Loops
    BY DEF Loops
  <2>2. CASE DisplayCancel \/ DisplayAsk \/ DisplayStop
    BY <2>1, <2>2, OneMoves DEF DisplayCancel, DisplayAsk, DisplayStop, Enter, AtWork, Owning
  <2>3. CASE DisplaySpawn \/ DisplayGiveBack
    BY <2>1, <2>3, OneMoves DEF DisplaySpawn, DisplayGiveBack, AtWork, Owning
  <2>4. ASSUME NEW place \in {"spawning", "dropping"}, DisplayTake(place) PROVE OneAtWork'
    BY <2>1, <2>4, OneMoves DEF DisplayTake, AtWork, Owning
  <2> QED BY <1>3, <1>6, <2>1, <2>2, <2>3, <2>4 DEF DisplayStep
<1>7. CASE ControlStep \/ (\E l \in Lanes : BeginJob(l) \/ Finish(l)) \/ UNCHANGED vars
  BY <1>1, <1>7 DEF ControlStep, NormalClear, ResetLane, BeginJob, Finish, vars
<1> QED
  BY <1>2, <1>4, <1>5, <1>6, <1>7 DEF Next, NormalStep, VideoStep

-----------------------------------------------------------------------------
\* A loop that enters may find another lane marked only if that lane was barred already.
LEMMA EnterBarred ==
  ASSUME Inv, Inv', PriorityJustified, MarkIsFresh, SleeperBarred, NEW k \in Loops, Enter(k),
         pc[k] = "idle"
  PROVE  SleeperBarred'
<1> SUFFICES ASSUME NEW j \in Loops, pc'[j] = "waiting", ~woken'[j], MayStart(LaneOf(j))'
             PROVE FALSE
  BY DEF SleeperBarred
<1> DEFINE l == LaneOf(k)
           m == LaneOf(j)
<1>1. j # k /\ pc[j] = "waiting" /\ ~woken[j] /\ ~MayStart(m)
  BY DEF Enter, SleeperBarred, TypeOK
<1>2. /\ waiting' = [waiting EXCEPT ![l] = @ + 1] /\ UNCHANGED <<running, credit, goal>>
      /\ startPending' = Refreshed(startPending, waiting', running)
      /\ l \in Lanes /\ m \in Lanes
  BY DEF Enter, LaneOf, Lanes
<1>3. startPending' = m /\ startPending = NoLane
  <2>1. RunningTotal < goal /\ (startPending' # NoLane => startPending' = m)
        /\ (startPending' = NoLane => (credit["image"] = 0 /\ credit["video"] = 0) \/ credit[m] > 0)
    BY <1>2 DEF MayStart, RunningTotal
  <2>2. CASE startPending # NoLane
    <3>1. startPending' = startPending
      <4>1. Starved(startPending, waiting, running) /\ startPending \in Lanes
        BY <2>2 DEF PriorityJustified, StartPendingIsStarved, TypeOK
      <4> QED BY <1>2, <2>2, <4>1 DEF Refreshed, Starved, TypeOK, NoLane
    <3> QED BY <1>1, <2>1, <2>2, <3>1 DEF MayStart
  <2>3. CASE startPending = NoLane /\ startPending' = NoLane
    BY <1>1, <2>1, <2>3 DEF MayStart
  <2> QED BY <2>1, <2>2, <2>3
<1>4. Starved(m, waiting', running)
  <2>1. /\ startPending \in Lanes \cup {NoLane}
        /\ waiting' \in [Lanes -> Nat] /\ running \in [Lanes -> Nat]
    BY DEF TypeOK
  <2>2. m # NoLane
    BY DEF LaneOf, NoLane
  <2> HIDE DEF m
  <2> QED BY <1>2, <1>3, <2>1, <2>2, RefreshedStarved
<1>5. Starved(m, waiting, running)
  <2>1. waiting[m] > 0
    BY <1>1 DEF TypeOK, Accounting, Count, Asking, LaneOf, Loops, Lanes
  <2> QED BY <1>4, <2>1 DEF Starved
<1>6. credit["image"] = 0 /\ credit["video"] = 0
  BY <1>2, <1>3, <1>5 DEF MarkIsFresh, TypeOK, Lanes
<1>7. RunningTotal < goal
  BY <1>2 DEF MayStart, RunningTotal
<1> QED
  BY <1>1, <1>3, <1>6, <1>7 DEF MayStart

\* A loop that looks and stays has nothing to start: the semaphore holds nobody back.
LEMMA PollBarred ==
  ASSUME Inv, OneAtWork, SleeperBarred, NEW k \in Loops, Poll(k)
  PROVE  SleeperBarred'
<1>1. UNCHANGED <<running, rest, goal>>
  BY DEF Poll, counters
<1>2. \A j \in Loops : Count(j, {"admitted"}) = 0
  BY DEF Poll, Looks, OneAtWork, ThreadFree, Count, AtWork
<1>3. ASSUME MayStart(LaneOf(k)) PROVE permits > 0
  <2>1. permits + RunningTotal = BaseGoal
    BY <1>2, BaseGoalAssumption DEF Accounting, TypeOK, Loops, RunningTotal, Lanes
  <2>2. RunningTotal < BaseGoal
    BY <1>3, BaseGoalAssumption DEF MayStart, TypeOK, RunningTotal, Lanes
  <2> QED BY <2>1, <2>2, BaseGoalAssumption DEF TypeOK, RunningTotal, Lanes
<1>4. ASSUME NEW j \in Loops, pc'[j] = "waiting", ~woken'[j]
      PROVE  (pc[j] = "waiting" /\ ~woken[j]) \/ ~MayStart(LaneOf(j))
  BY <1>3, <1>4 DEF Poll, TypeOK
<1> QED
  BY <1>1, <1>4, NobodyDisturbed

LEMMA AcquireBarred ==
  ASSUME Inv, OneAtWork, SleeperBarred, NEW k \in Loops, AcquireStep(k)
  PROVE  SleeperBarred'
<1>1. CASE Poll(k)
  BY <1>1, PollBarred
<1>2. CASE StartRefused(k)
  <2>1. UNCHANGED <<running, rest, goal>> /\ \A l : ~MayStart(l)
    <3>1. ASSUME NEW l, MayStart(l) PROVE FALSE
      <4>1. RunningTotal < goal /\ RunningTotal >= goal
        BY <1>2, <3>1 DEF StartRefused, MayStart
      <4>2. RunningTotal \in Int /\ goal \in Int
        BY BaseGoalAssumption DEF TypeOK, RunningTotal, Lanes
      <4> QED BY <4>1, <4>2
    <3> QED BY <1>2, <3>1 DEF StartRefused, counters
  <2> QED BY <2>1, NobodyDisturbed
<1>3. CASE Start(k)
  BY <1>3, AllWoken DEF Start, Started, WakeAllBut, LaneSleepers, TypeOK
<1> QED BY <1>1, <1>2, <1>3 DEF AcquireStep

LEMMA StepBarred ==
  ASSUME Inv, Inv', PriorityJustified, OneAtWork, MarkIsFresh, SleeperBarred, [Next]_vars
  PROVE  SleeperBarred'
<1>0. ASSUME UNCHANGED <<running, rest, goal, woken>>,
             \A k \in Loops : pc'[k] = "waiting" => pc[k] = "waiting"
      PROVE  SleeperBarred'
  BY <1>0, NobodyDisturbed
<1>1. ASSUME NEW sleepers \in SUBSET Loops, LaneSleepers \subseteq sleepers, WakeAll(sleepers),
             \A k \in Loops : pc'[k] = "waiting" => pc[k] = "waiting"
      PROVE  SleeperBarred'
  BY <1>1, WakeAllWakes, AllWoken
<1>2. CASE UserStep
  <2>1. ASSUME NEW n \in Nat, Retire("image", n), UNCHANGED <<running, goal, pc>>,
               NEW S \in SUBSET Loops, WakeAll(S \cup (IF n = 0 THEN {} ELSE LaneSleepers))
        PROVE  SleeperBarred'
    <3>1. CASE n = 0
      <4>1. UNCHANGED rest
        BY <2>1, <3>1 DEF Retire, rest
      <4>2. \A k \in Loops : ~woken'[k] => ~woken[k]
        BY <2>1 DEF WakeAll, TypeOK
      <4> QED BY <2>1, <4>1, <4>2, NobodyDisturbed
    <3>2. CASE n # 0
      BY <1>1, <2>1, <3>2, SleepersAreLoops
    <3> QED BY <3>1, <3>2
  <2>2. ASSUME NEW medium \in Media, UpdateGlobalGoal(medium) PROVE SleeperBarred'
    BY <1>0, <1>1, <2>2, SleepersAreLoops DEF UpdateGlobalGoal, counters
  <2>3. ASSUME NEW c \in Channels, Submit(c) PROVE SleeperBarred'
    BY <1>0, <2>3 DEF Submit
  <2>4. CASE ReplaceBegin
    <3>1. mailbox \in Nat /\ {} \in SUBSET Loops
      BY DEF TypeOK
    <3>2. WakeAll({} \cup (IF mailbox = 0 THEN {} ELSE LaneSleepers))
      BY <2>4 DEF ReplaceBegin, WakeAll
    <3> QED BY <2>1, <2>4, <3>1, <3>2 DEF ReplaceBegin
  <2>5. ASSUME NEW n \in 0 .. MaxMailbox, ReplaceEnd(n) PROVE SleeperBarred'
    <3>1. \A k \in Loops : ~woken'[k] => ~woken[k]
      BY <2>5 DEF ReplaceEnd, WakeAll, TypeOK
    <3> QED BY <2>5, <3>1, NobodyDisturbed DEF ReplaceEnd
  <2>6. ASSUME NEW n \in 0 .. MaxMailbox, RemoveDisplayTasks(n) PROVE SleeperBarred'
    BY <2>1, <2>6, SleepersAreLoops, BoundsAssumption DEF RemoveDisplayTasks
  <2>7. CASE CloseMailbox
    BY <2>1, <2>7, SleepersAreLoops DEF CloseMailbox, TypeOK
  <2>8. CASE SendShutdown
    BY <1>0, <2>8 DEF SendShutdown, counters
  <2> QED BY <1>2, <2>2, <2>3, <2>4, <2>5, <2>6, <2>7, <2>8 DEF UserStep
<1>3. ASSUME NEW k \in {"normal", "video"}, QueueLoopStep(k) PROVE SleeperBarred'
  <2>0. k \in Loops
    BY DEF Loops
  <2>1. ASSUME NEW c \in Channels, DropRequest(k, c) PROVE SleeperBarred'
    BY <1>1, <2>1, SleepersAreLoops DEF DropRequest
  <2>2. ASSUME NEW c \in Channels, AskPermit(k, c) PROVE SleeperBarred'
    BY <2>0, <2>2, EnterBarred DEF AskPermit, Receives
  <2>3. CASE Spawn(k) \/ StopLoop(k)
    BY <1>1, <2>3, SleepersAreLoops DEF Spawn, StopLoop, TypeOK
  <2> QED BY <1>3, <2>0, <2>1, <2>2, <2>3, AcquireBarred DEF QueueLoopStep
<1>4. CASE NormalDuplicate \/ NormalRetire
  BY <1>1, <1>4, SleepersAreLoops DEF NormalDuplicate, NormalRetire, Finished, TypeOK
<1>5. CASE DisplayStep
  <2>0. "display" \in Loops
    BY DEF Loops
  <2>1. CASE DisplayCancel
    BY <2>1, AllWoken DEF DisplayCancel, WakeAllBut, LaneSleepers, TypeOK
  <2>2. CASE DisplayAsk
    BY <2>0, <2>2, EnterBarred DEF DisplayAsk
  <2>3. ASSUME NEW place \in {"spawning", "dropping"}, DisplayTake(place) PROVE SleeperBarred'
    <3>1. LaneSleepers \cup MailSleepers \in SUBSET Loops
      BY SleepersAreLoops
    <3> QED BY <1>1, <2>3, <3>1 DEF DisplayTake, TypeOK
  <2>4. CASE DisplaySpawn \/ DisplayStop
    BY <1>0, <2>4 DEF DisplaySpawn, DisplayStop, counters, TypeOK
  <2>5. CASE DisplayGiveBack
    BY <1>1, <2>5, SleepersAreLoops DEF DisplayGiveBack, Finished, TypeOK
  <2> QED BY <1>5, <2>0, <2>1, <2>2, <2>3, <2>4, <2>5, AcquireBarred DEF DisplayStep
<1>6. CASE ControlStep
  <2>1. LaneSleepers \cup MailSleepers \in SUBSET Loops
    BY SleepersAreLoops
  <2> QED BY <1>1, <1>6, <2>1, SleepersAreLoops DEF ControlStep, NormalClear, ResetLane
<1>7. ASSUME NEW l \in Lanes, BeginJob(l) \/ Finish(l) PROVE SleeperBarred'
  BY <1>0, <1>1, <1>7, SleepersAreLoops DEF BeginJob, Finish, Finished, counters
<1>8. CASE UNCHANGED vars
  BY <1>0, <1>8 DEF vars, rest
<1> QED
  BY <1>3, <1>2, <1>4, <1>5, <1>6, <1>7, <1>8 DEF Next, NormalStep, VideoStep

-----------------------------------------------------------------------------
\* Whoever empties the mailbox wakes the two loops that look at it.
LEMMA StepMail == ASSUME Inv, MailAwaited, [Next]_vars PROVE MailAwaited'
<1>0. "normal" \in Loops /\ "display" \in Loops
  BY DEF Loops
<1>1. ASSUME mailbox' >= mailbox, mailbox' \in Nat, UNCHANGED replacing,
             pc'["normal"] = "mailwait" /\ ~woken'["normal"]
                => pc["normal"] = "mailwait" /\ ~woken["normal"],
             pc'["display"] \in {"waiting", "admitted"} /\ ~woken'["display"]
                => pc["display"] \in {"waiting", "admitted"} /\ ~woken["display"]
      PROVE  MailAwaited'
  BY <1>1 DEF MailAwaited, TypeOK
<1>2. ASSUME UNCHANGED <<mail, woken>>, NEW k \in Loops, NEW place,
             place \notin {"mailwait", "waiting", "admitted"}, pc' = [pc EXCEPT ![k] = place]
      PROVE  MailAwaited'
  BY <1>1, <1>2 DEF TypeOK, mail
<1>3. ASSUME UNCHANGED <<mail, pc>>, NEW sleepers, WakeAll(sleepers) PROVE MailAwaited'
  BY <1>0, <1>1, <1>3 DEF WakeAll, TypeOK, mail
<1>4. ASSUME UNCHANGED mail, NEW sleepers, WakeAll(sleepers), NEW k \in Loops, NEW place,
             place \notin {"mailwait", "waiting", "admitted"}, pc' = [pc EXCEPT ![k] = place]
      PROVE  MailAwaited'
  BY <1>0, <1>1, <1>4 DEF WakeAll, TypeOK, mail
<1>5. ASSUME NEW sleepers \in SUBSET Loops, MailSleepers \subseteq sleepers, WakeAll(sleepers),
             \A k \in {"normal", "display"} : pc'[k] \in Asking => pc[k] \in Asking
      PROVE  MailAwaited'
  BY <1>5, WakeAllWakes DEF MailAwaited, MailSleepers, Asking
<1>6. LaneSleepers \cup MailSleepers \in SUBSET Loops /\ MailSleepers \in SUBSET Loops
      /\ \A n : MailSleepers \cup (IF n = 0 THEN {} ELSE LaneSleepers) \in SUBSET Loops
  BY SleepersAreLoops
<1>7. CASE UserStep
  <2>1. ASSUME NEW medium \in Media, UpdateGlobalGoal(medium) PROVE MailAwaited'
    <3>1. CASE UNCHANGED woken
      BY <1>1, <2>1, <3>1 DEF UpdateGlobalGoal, mail, TypeOK
    <3>2. CASE WakeAll(LaneSleepers)
      BY <1>3, <2>1, <3>2 DEF UpdateGlobalGoal
    <3> QED BY <2>1, <3>1, <3>2 DEF UpdateGlobalGoal
  <2>2. ASSUME NEW c \in Channels, Submit(c) \/ SendShutdown PROVE MailAwaited'
    <3>1. UNCHANGED <<mail, pc, woken>>
      BY <2>2 DEF Submit, SendShutdown
    <3> QED BY <1>1, <3>1 DEF mail, TypeOK
  <2>3. CASE ReplaceBegin
    BY <2>3 DEF ReplaceBegin, MailAwaited
  <2>4. ASSUME NEW n \in 0 .. MaxMailbox, ReplaceEnd(n) PROVE MailAwaited'
    BY <1>5, <1>6, <2>4 DEF ReplaceEnd
  <2>5. ASSUME NEW n \in 0 .. MaxMailbox, RemoveDisplayTasks(n) PROVE MailAwaited'
    BY <1>5, <1>6, <2>5 DEF RemoveDisplayTasks
  <2>6. CASE CloseMailbox
    BY <1>5, <1>6, <2>6 DEF CloseMailbox
  <2>7. "image" \in Channels
    BY DEF Channels
  <2> QED BY <1>7, <2>1, <2>2, <2>3, <2>4, <2>5, <2>6, <2>7 DEF UserStep
<1>8. ASSUME NEW k \in Loops, Enter(k), UNCHANGED mail PROVE MailAwaited'
  BY <1>0, <1>1, <1>8 DEF Enter, TypeOK, mail
<1>9. ASSUME NEW k \in Loops, AcquireStep(k) PROVE MailAwaited'
  <2>1. CASE Poll(k)
    <3>1. UNCHANGED mail
      BY <2>1 DEF Poll
    <3>2. \A j \in Loops \ {k} : pc'[j] = pc[j] /\ woken'[j] = woken[j]
      BY <2>1 DEF Poll, TypeOK
    <3>3. /\ pc'[k] = "mailwait" => mailbox > 0
          /\ k = "display" => mailbox > 0
      BY <2>1 DEF Poll, TypeOK
    <3> QED BY <1>0, <3>1, <3>2, <3>3 DEF MailAwaited, mail
  <2>2. CASE StartRefused(k)
    BY <1>0, <1>1, <2>2 DEF StartRefused, TypeOK, mail
  <2>3. CASE Start(k)
    BY <1>0, <1>1, <2>3 DEF Start, Started, WakeAllBut, TypeOK, mail
  <2> QED BY <1>9, <2>1, <2>2, <2>3 DEF AcquireStep
<1>10. ASSUME NEW k \in {"normal", "video"}, QueueLoopStep(k) PROVE MailAwaited'
  <2>0. k \in Loops
    BY DEF Loops
  <2>1. ASSUME NEW c \in Channels, DropRequest(k, c) PROVE MailAwaited'
    BY <1>3, <2>1 DEF DropRequest
  <2>2. ASSUME NEW c \in Channels, AskPermit(k, c) PROVE MailAwaited'
    BY <1>8, <2>0, <2>2 DEF AskPermit, Enter
  <2>3. CASE Spawn(k) \/ StopLoop(k)
    BY <1>4, <2>0, <2>3 DEF Spawn, StopLoop
  <2> QED BY <1>9, <1>10, <2>0, <2>1, <2>2, <2>3 DEF QueueLoopStep
<1>11. CASE NormalDuplicate \/ NormalRetire
  BY <1>0, <1>4, <1>11 DEF NormalDuplicate, NormalRetire, Finished
<1>12. CASE DisplayStep
  <2>1. CASE DisplayCancel
    BY <1>0, <1>1, <2>1 DEF DisplayCancel, WakeAllBut, TypeOK, mail
  <2>2. CASE DisplayAsk
    BY <1>0, <1>8, <2>2 DEF DisplayAsk, Enter
  <2>3. ASSUME NEW place \in {"spawning", "dropping"}, DisplayTake(place) PROVE MailAwaited'
    <3>1. \A k \in {"normal", "display"} : pc'[k] \in Asking => pc[k] \in Asking
      BY <2>3 DEF DisplayTake, TypeOK, Asking, Loops
    <3> QED BY <1>5, <1>6, <2>3, <3>1 DEF DisplayTake
  <2>4. CASE DisplaySpawn \/ DisplayStop
    BY <1>0, <1>2, <2>4 DEF DisplaySpawn, DisplayStop
  <2>5. CASE DisplayGiveBack
    BY <1>0, <1>4, <2>5 DEF DisplayGiveBack, Finished
  <2> QED BY <1>0, <1>9, <1>12, <2>1, <2>2, <2>3, <2>4, <2>5 DEF DisplayStep
<1>13. CASE ControlStep
  <2>1. CASE NormalClear
    BY <1>5, <1>6, <2>1 DEF NormalClear
  <2>2. ASSUME NEW k \in {"normal", "video"}, ResetLane(k) PROVE MailAwaited'
    BY <1>3, <2>2 DEF ResetLane
  <2> QED BY <1>13, <2>1, <2>2 DEF ControlStep
<1>14. ASSUME NEW l \in Lanes, BeginJob(l) \/ Finish(l) PROVE MailAwaited'
  BY <1>1, <1>3, <1>14 DEF BeginJob, Finish, Finished, TypeOK, mail
<1>15. CASE UNCHANGED vars
  BY <1>1, <1>15 DEF vars, TypeOK
<1> QED
  BY <1>7, <1>10, <1>11, <1>12, <1>13, <1>14, <1>15 DEF Next, NormalStep, VideoStep

-----------------------------------------------------------------------------
\* The loop at work has changed nothing a sleeper looks at, or has woken it.
THEOREM AwakeCorrect == Spec => []Awake
<1>1. Init => Awake
  <2> SUFFICES ASSUME Init PROVE Awake
    OBVIOUS
  <2>1. \A k \in Loops : pc[k] = "idle"
    BY DEF Init
  <2>2. credit["image"] = 0 /\ credit["video"] = 0 /\ "normal" \in Loops /\ "display" \in Loops
    BY DEF Init, Lanes, Loops
  <2> QED
    BY <2>1, <2>2 DEF Awake, OneAtWork, MarkIsFresh, SleeperBarred, MailAwaited, AtWork, Owning
<1>2. Inv /\ Inv' /\ PriorityJustified /\ Awake /\ [Next]_vars => Awake'
  BY StepFresh, StepOne, StepBarred, StepMail DEF Awake
<1> QED
  BY Correct, PriorityCorrect, <1>1, <1>2, PTL DEF Spec

\* A loop asleep in acquire_thumbnail_permit that nobody has woken since it looked
\* would not start if it looked again, under every interleaving.
THEOREM NoLostWakeupCorrect == Spec => []NoLostWakeup
  BY Correct, AwakeCorrect, AwakeSuffices, PTL

-----------------------------------------------------------------------------
(* At rest.  A loop that waits is barred by the credits of the other lane,   *)
(* since nothing runs and so no start is owed; a lane that holds credits has *)
(* requests or waits itself (CreditHasBacklog), and neither is possible at   *)
(* rest, unless its requests are in a channel that nobody reads any more.    *)

\* What a loop leaves behind: nothing in the channel its Shutdown message came
\* through, nothing in the mailbox.
EmptyAtStop ==
    /\ pc["normal"] = "stopped" => chan["image"] = 0 /\ phase = "shutdown"
    /\ pc["video"] = "stopped" => chan["video"] = 0 /\ phase = "shutdown"
    /\ pc["display"] = "stopped" => phase # "open"
    /\ phase # "open" => mailbox = 0 /\ ~replacing
    /\ \A k \in Loops : pc[k] = "mailwait" => k = "normal"

\* Only a Shutdown stops a loop, and it comes behind the requests of its channel; after
\* CloseMailbox nothing is put into the mailbox.
LEMMA StepEmpty == ASSUME Inv, EmptyAtStop, [Next]_vars PROVE EmptyAtStop'
<1>0. /\ pc \in [Loops -> Places] /\ mailbox \in Nat /\ "normal" \in Loops
      /\ "video" \in Loops /\ "display" \in Loops
  BY DEF Inv, TypeOK, Loops
<1>1. ASSUME UNCHANGED <<chan, mail, phase>>, NEW k \in Loops, NEW place \in Places,
             pc' = [pc EXCEPT ![k] = place], place # "stopped",
             place = "mailwait" => k = "normal"
      PROVE  EmptyAtStop'
  BY <1>0, <1>1 DEF EmptyAtStop, mail
<1>2. ASSUME UNCHANGED <<pc, mail, phase>>, NEW c \in Channels,
             chan' = [chan EXCEPT ![c] = @ - 1], chan[c] > 0
      PROVE  EmptyAtStop'
  BY <1>2 DEF EmptyAtStop, mail, Inv, TypeOK
<1>3. CASE UserStep
  <2>1. ASSUME NEW c \in Channels, Submit(c) PROVE EmptyAtStop'
    BY <2>1 DEF Submit, EmptyAtStop, mail, world, Channels, Inv, TypeOK
  <2>2. ASSUME NEW n \in 0 .. MaxMailbox, RemoveDisplayTasks(n) PROVE EmptyAtStop'
    BY <2>2 DEF RemoveDisplayTasks, EmptyAtStop, world
  <2>3. CASE (\E medium \in Media : UpdateGlobalGoal(medium)) \/ ReplaceBegin
                \/ (\E n \in 0 .. MaxMailbox : ReplaceEnd(n))
    BY <2>3 DEF UpdateGlobalGoal, ReplaceBegin, ReplaceEnd, EmptyAtStop, mail, world
  <2>4. CASE CloseMailbox \/ SendShutdown
    BY <2>4 DEF CloseMailbox, SendShutdown, EmptyAtStop, mail
  <2> QED BY <1>3, <2>1, <2>2, <2>3, <2>4 DEF UserStep
<1>4. ASSUME NEW k \in Loops, Enter(k), UNCHANGED mail,
             chan' = chan \/ \E c \in Channels : chan[c] > 0 /\ chan' = [chan EXCEPT ![c] = @ - 1]
      PROVE  EmptyAtStop'
  <2>1. CASE chan' = chan
    BY <1>1, <1>4, <2>1 DEF Enter, world, Places
  <2>2. ASSUME NEW c \in Channels, chan[c] > 0, chan' = [chan EXCEPT ![c] = @ - 1]
        PROVE  EmptyAtStop'
    BY <1>0, <1>4, <2>2 DEF Enter, world, mail, EmptyAtStop, Inv, TypeOK
  <2> QED BY <1>4, <2>1, <2>2
<1>5. ASSUME NEW k \in Loops, AcquireStep(k) PROVE EmptyAtStop'
  <2>1. CASE Poll(k)
    BY <1>1, <2>1 DEF Poll, world, Places
  <2>2. CASE StartRefused(k)
    BY <1>1, <2>2 DEF StartRefused, world, Places
  <2>3. CASE Start(k)
    BY <1>1, <2>3 DEF Start, Started, world, Places
  <2> QED BY <1>5, <2>1, <2>2, <2>3 DEF AcquireStep
<1>6. ASSUME NEW k \in {"normal", "video"}, QueueLoopStep(k) PROVE EmptyAtStop'
  <2>0. k \in Loops
    BY DEF Loops
  <2>1. ASSUME NEW c \in Channels, DropRequest(k, c) PROVE EmptyAtStop'
    BY <1>2, <2>1 DEF DropRequest, Receives, world
  <2>2. ASSUME NEW c \in Channels, AskPermit(k, c) PROVE EmptyAtStop'
    BY <1>4, <2>0, <2>2 DEF AskPermit, Receives, Enter
  <2>3. CASE Spawn(k)
    BY <1>1, <2>0, <2>3 DEF Spawn, world, Places
  <2>4. CASE StopLoop(k)
    BY <1>0, <2>4 DEF StopLoop, world, mail, EmptyAtStop, LaneOf
  <2> QED BY <1>5, <1>6, <2>0, <2>1, <2>2, <2>3, <2>4 DEF QueueLoopStep
<1>7. CASE NormalDuplicate \/ NormalRetire
  BY <1>0, <1>1, <1>7 DEF NormalDuplicate, NormalRetire, world, Places
<1>8. CASE DisplayStep
  <2>1. CASE DisplayCancel \/ DisplaySpawn \/ DisplayGiveBack
    BY <1>0, <1>1, <2>1 DEF DisplayCancel, DisplaySpawn, DisplayGiveBack, world, Places
  <2>2. CASE DisplayAsk
    BY <1>0, <1>4, <2>2 DEF DisplayAsk, Enter
  <2>3. ASSUME NEW place \in {"spawning", "dropping"}, DisplayTake(place) PROVE EmptyAtStop'
    BY <1>0, <2>3 DEF DisplayTake, world, EmptyAtStop
  <2>4. CASE DisplayStop
    BY <1>0, <2>4 DEF DisplayStop, world, mail, EmptyAtStop
  <2> QED BY <1>0, <1>5, <1>8, <2>1, <2>2, <2>3, <2>4 DEF DisplayStep
<1>9. CASE ControlStep
  BY <1>9 DEF ControlStep, NormalClear, ResetLane, EmptyAtStop, mail
<1>10. CASE (\E l \in Lanes : BeginJob(l) \/ Finish(l)) \/ UNCHANGED vars
  BY <1>10 DEF BeginJob, Finish, vars, world, mail, EmptyAtStop
<1> QED
  BY <1>3, <1>6, <1>7, <1>8, <1>9, <1>10 DEF Next, NormalStep, VideoStep

\* What is true of a lane whose loops rest and whose jobs have ended.
LEMMA RestingLanes ==
  ASSUME Inv, PriorityJustified, AtRest
  PROVE  /\ \A l \in Lanes : running[l] = 0
         /\ startPending = NoLane
         /\ RunningTotal < goal
         /\ \A k \in Loops : pc[k] \in {"stopped", "waiting", "mailwait", "idle"}
<1>1. \A k \in Loops : pc[k] \in {"stopped", "waiting", "mailwait", "idle"}
  BY DEF AtRest, Resting
<1>2. \A l \in Lanes : running[l] = 0
  BY <1>1 DEF AtRest, Inv, Accounting, Count, Owning, Lanes, Loops
<1>3. startPending = NoLane
  <2>1. \A l \in Lanes : ~Starved(l, waiting, running)
    BY <1>2 DEF Starved, Other, Lanes
  <2> QED BY <2>1 DEF PriorityJustified, StartPendingIsStarved, Inv, TypeOK
<1>4. RunningTotal < goal
  <2>1. goal \in Nat /\ goal > 0
    BY BaseGoalAssumption DEF Inv, TypeOK
  <2> QED BY <1>2, <2>1 DEF RunningTotal, Lanes
<1> QED
  BY <1>1, <1>2, <1>3, <1>4

\* A loop that waits at rest holds no credits; one in mailwait implies another in
\* waiting, so the other lane has the credits.
LEMMA RestingWaiter ==
  ASSUME Inv, Awake, PriorityJustified, AtRest, NEW k \in Loops, pc[k] = "waiting"
  PROVE  credit[LaneOf(k)] = 0 /\ credit[Other(LaneOf(k))] > 0
<1>1. ~MayStart(LaneOf(k))
  BY DEF Awake, SleeperBarred, AtRest, Resting
<1>2. LaneOf(k) \in Lanes /\ credit \in [Lanes -> Nat]
  BY DEF LaneOf, Lanes, Inv, TypeOK
<1> QED
  BY <1>1, <1>2, RestingLanes DEF MayStart, Other, Lanes

\* While there is something in the mailbox the display loop waits.
LEMMA RestingMail ==
  ASSUME Inv, EmptyAtStop, AtRest, mailbox > 0
  PROVE  pc["display"] = "waiting"
<1>1. phase = "open" /\ "display" \in Loops
  BY DEF EmptyAtStop, Inv, TypeOK, Loops
<1>2. pc["display"] \notin {"stopped", "mailwait", "idle"}
  BY <1>1 DEF EmptyAtStop, AtRest, Resting, Inv, TypeOK
<1> QED
  BY <1>1, <1>2 DEF AtRest, Resting

\* The waiting loop is barred by the other lane's credits, whose backlog nobody reads.
LEMMA RestSuffices ==
  ASSUME Inv, Awake, PriorityJustified, EmptyAtStop PROVE NobodyWaitsForNobody
<1> SUFFICES ASSUME AtRest, NEW k \in Loops, pc[k] \in Asking PROVE Leftovers
  BY DEF NobodyWaitsForNobody
<1>1. \A j \in Loops : pc[j] \in Asking => pc[j] = "waiting" \/ pc[j] = "mailwait"
  BY RestingLanes DEF Asking
<1>2. ASSUME NEW j \in Loops, pc[j] = "mailwait" PROVE pc["display"] = "waiting" /\ j = "normal"
  <2>1. j = "normal"
    BY <1>2 DEF EmptyAtStop
  <2>2. mailbox > 0
    BY <1>2, <2>1 DEF Awake, MailAwaited, AtRest, Resting
  <2> QED BY <2>1, <2>2, RestingMail
<1>3. PICK j \in Loops : pc[j] = "waiting"
  BY <1>1, <1>2 DEF Loops
<1> DEFINE o == Other(LaneOf(j))
<1>4. o \in Lanes /\ credit[o] > 0 /\ running[o] = 0
  BY <1>3, RestingWaiter, RestingLanes DEF LaneOf, Other, Lanes
<1>5. \A i \in Loops : pc[i] = "waiting" => LaneOf(i) # o
  BY <1>4, RestingWaiter
<1>6. \A i \in Loops : pc[i] \in Asking => LaneOf(i) # o
  BY <1>1, <1>2, <1>5 DEF LaneOf, Loops
<1>7. waiting[o] = 0
  <2>1. CASE o = "image"
    BY <1>6, <2>1 DEF Inv, Accounting, Count, LaneOf, Loops
  <2>2. CASE o = "video"
    BY <1>6, <2>2 DEF Inv, Accounting, Count, LaneOf, Loops
  <2> QED BY <1>4, <2>1, <2>2 DEF Lanes
<1>8. pending[o] > 0
  BY <1>4, <1>7 DEF PriorityJustified, CreditHasBacklog, Inv, TypeOK
<1>9. CASE o = "image"
  <2>1. pc["normal"] \in {"stopped", "idle"} /\ pc["display"] \in {"stopped", "idle"}
    BY <1>6, <1>9, RestingLanes DEF LaneOf, Loops, Asking
  <2>2. Count("normal", Counted) = 0
    BY <2>1 DEF Count, Counted, Asking
  <2>3. mailbox = 0
    BY <2>1, RestingMail DEF Inv, TypeOK
  <2>4. chan["image"] = 0
    BY <2>1 DEF AtRest, Resting, EmptyAtStop, Loops
  <2> QED BY <1>8, <1>9, <2>2, <2>3, <2>4 DEF Inv, Accounting
<1>10. CASE o = "video"
  <2>1. pc["video"] \in {"stopped", "idle"}
    BY <1>6, <1>10, RestingLanes DEF LaneOf, Loops, Asking
  <2>2. Count("video", Counted) = 0
    BY <2>1 DEF Count, Counted, Asking
  <2>3. chan["video"] = 0
    BY <2>1 DEF AtRest, Resting, EmptyAtStop, Loops
  <2>4. chan["videoBackground"] > 0
    BY <1>8, <1>10, <2>2, <2>3 DEF Inv, Accounting, TypeOK, Channels
  <2>5. pc["video"] # "idle"
    BY <2>4 DEF AtRest, Resting, Loops
  <2> QED BY <2>1, <2>4, <2>5 DEF Leftovers
<1> QED
  BY <1>4, <1>9, <1>10 DEF Lanes

\* The lanes never bring each other to a standstill: at rest no loop is inside
\* acquire_thumbnail_permit, in service or while the library closes, unless the
\* video loop has gone and left requests in its background channel.
THEOREM NobodyWaitsCorrect == Spec => []NobodyWaitsForNobody
<1>1. Init => EmptyAtStop
  BY DEF Init, EmptyAtStop, Loops
<1>2. Inv /\ EmptyAtStop /\ [Next]_vars => EmptyAtStop'
  BY StepEmpty
<1>3. Inv /\ Awake /\ PriorityJustified /\ EmptyAtStop => NobodyWaitsForNobody
  BY RestSuffices
<1> QED
  BY Correct, PriorityCorrect, AwakeCorrect, <1>1, <1>2, <1>3, PTL DEF Spec

(***************************************************************************)
(* Proofs about Artifacts, for any books, any number of requests and any   *)
(* number of events.                                                       *)
(*                                                                         *)
(* What is on the disk is right because what holds artifact_gate is right  *)
(* (JobOk, its last two parts), and stays so because whoever empties or    *)
(* prunes the disk needs the gate for itself.  That a check in the gate    *)
(* is enough rests on two facts about the counters: a request of the       *)
(* current folder load was made since the last cache clear, and the        *)
(* revision a task asks for is never newer than the file, so that bytes    *)
(* read after the request and before a successful check are those of the   *)
(* revision asked for.                                                     *)
(***************************************************************************)

\* The history never runs ahead of what it records, nor the Library of the files.
CountersInv ==
    /\ artifactGeneration <= generation
    /\ cleared <= artifactGeneration
    /\ \A b \in Books : /\ removed[b] <= bookGeneration[b]
                        /\ floor[b] <= source[b]
                        /\ seen[b] <= source[b]

\* A task remembers no future, and a current one remembers the last clear.
Remembers(j) ==
    /\ j.generation <= generation
    /\ j.generation = generation => j.born = artifactGeneration
    /\ j.bookGeneration <= bookGeneration[j.book]
    /\ j.revision <= source[j.book]

\* Where a task is, and what it carries.
Carries(j) ==
    /\ j.flight => j.pc \in {"lookup", "decoded", "store", "putGate", "stamp", "mark",
                             "markGate", "answer"}
    /\ j.pc = "lookup" => j.plan \in {"none", "wanted"}
    /\ j.pc \in {"wait", "build"} => j.plan = "slow"
    /\ j.pc = "fast" => j.plan = "fast"
    /\ j.write => j.pc \in {"decoded", "store", "putGate", "stamp", "mark", "markGate",
                            "answer", "thumb", "thumbGate"}
    /\ j.pc \in {"stamp", "thumb"} => j.write

\* The revision its bytes were read from.
ReadFrom(j) ==
    /\ j.pc \in {"decoded", "map"} =>
           j.revision <= j.content /\ j.content <= source[j.book]
    /\ j.write /\ j.pc # "decoded" => j.content = j.revision
    /\ j.plan \in {"fast", "ready"} => j.content = j.revision

\* What a reader of artifact_gate is about to write is still wanted.
MayWrite(j) ==
    /\ j.pc \in {"thumbGate", "mapGate"} =>
           /\ j.born >= cleared
           /\ j.revision >= floor[j.book]
           /\ j.content = j.revision
    /\ j.pc \in {"thumbGate", "mapGate", "markGate"} =>
           j.bookGeneration >= removed[j.book]

JobOk(j) == Remembers(j) /\ Carries(j) /\ ReadFrom(j) /\ MayWrite(j)
JobsInv == \A t \in Tasks : JobOk(job[t])

ArtifactOk(a) ==
    /\ a.bookGeneration >= removed[a.book]
    /\ a.what # "failure" => /\ a.born >= cleared
                             /\ a.revision >= floor[a.book]
                             /\ a.content = a.revision
DiskInv == \A a \in disk : ArtifactOk(a)

\* A task in the inbox is there once, and nobody works on it.
InboxInv ==
    \A i \in 1 .. Len(inbox) : inbox[i].msg = "Task" =>
        /\ job[inbox[i].task].pc = "sent"
        /\ \A k \in 1 .. Len(inbox) :
               inbox[k].msg = "Task" /\ inbox[k].task = inbox[i].task => k = i

FilesInv == FilesTyped /\ CountersInv /\ JobsInv /\ DiskInv

-----------------------------------------------------------------------------
(* Initial states, and the job that does nothing. *)

LEMMA SomeBook == (CHOOSE b \in Books : TRUE) \in Books
  BY BooksAssumption

LEMMA NoJobType == NoJob \in Job /\ Done \in Job
  BY SomeBook DEF NoJob, Done, Job, Stages, Plans

\* A task that is not under way, before its request or after its end.
LEMMA DoneOk ==
  ASSUME artifactGeneration \in Nat, generation \in Nat,
         artifactGeneration <= generation,
         bookGeneration \in [Books -> Nat], source \in [Books -> Revisions]
  PROVE  JobOk(Done) /\ JobOk(NoJob)
  BY SomeBook
  DEF JobOk, Remembers, Carries, ReadFrom, MayWrite, Done, NoJob, Revisions

\* The worker starts with empty disk caches and no requests (ThumbWorker::spawn).
THEOREM FilesInitially == ArtifactsInit => FilesInv
<1> SUFFICES ASSUME ArtifactsInit PROVE FilesInv
  OBVIOUS
<1>1. FilesTyped
  <2>1. inbox \in Seq(Message)
    BY DEF ArtifactsInit
  <2>2. ui \in [step : {"idle", "clear", "remove"}, book : Books]
    BY SomeBook DEF ArtifactsInit, UiIdle
  <2>3. job \in [Tasks -> Job]
    BY NoJobType DEF ArtifactsInit
  <2>4. \A t \in Tasks : ~job[t].flight
    BY DEF ArtifactsInit, NoJob
  <2> QED
    BY <2>1, <2>2, <2>3, <2>4 DEF ArtifactsInit, FilesTyped, Revisions, NoRevision
<1>2. CountersInv
  BY DEF ArtifactsInit, CountersInv, NoRevision
<1>3. JobsInv
  BY <1>1, <1>2, DoneOk DEF ArtifactsInit, JobsInv, FilesTyped, CountersInv
<1>4. DiskInv
  BY DEF ArtifactsInit, DiskInv
<1> QED
  BY <1>1, <1>2, <1>3, <1>4 DEF FilesInv

-----------------------------------------------------------------------------
(* The steps of a task. *)

\* A step of one task that changes none of the counters and, on the disk, adds
\* only artifacts that are right.
LEMMA TaskInv ==
  ASSUME FilesInv, NEW t \in Tasks, NEW j \in Job, JobOk(j), Become(t, j),
         UNCHANGED <<source, seen, ui, generations, history>>,
         forced' \in [Books -> BOOLEAN], inbox' \in Seq(Message),
         events' \in Nat, reserved' \subseteq Key,
         pruned' \subseteq Books \X Nat, prunes' \subseteq Books \X Nat,
         mem' \in [Books -> Nat], disk' \subseteq Artifact,
         \A a \in disk' : ArtifactOk(a)
  PROVE  FilesInv'
<1>1. \A u \in Tasks : JobOk(job'[u])
  BY DEF FilesInv, FilesTyped, JobsInv, Become
<1>2. JobsInv'
  BY <1>1 DEF JobsInv, JobOk, Remembers, Carries, ReadFrom, MayWrite, generations, history
<1>3. job' \in [Tasks -> Job]
  BY DEF FilesInv, FilesTyped, Become
<1>4. FilesTyped'
  BY <1>1, <1>3 DEF FilesInv, FilesTyped, generations, history, JobOk, Carries
<1>5. CountersInv'
  BY DEF FilesInv, CountersInv, generations, history
<1>6. DiskInv'
  BY DEF DiskInv, ArtifactOk, generations, history
<1> QED
  BY <1>2, <1>4, <1>5, <1>6 DEF FilesInv

\* The frame of the actions of a task.
LEMMA WriteFrameType ==
  ASSUME FilesInv, WriteFrame
  PROVE  /\ UNCHANGED <<source, seen, ui, generations, history>>
         /\ forced' \in [Books -> BOOLEAN] /\ inbox' \in Seq(Message)
  BY DEF FilesInv, FilesTyped, WriteFrame, uiVars

\* One that writes nothing to the disk.
LEMMA QuietTaskInv ==
  ASSUME FilesInv, NEW t \in Tasks, NEW j \in Job, JobOk(j), Become(t, j),
         TaskFrame, UNCHANGED disk, reserved' \subseteq Key,
         pruned' \subseteq Books \X Nat, prunes' \subseteq Books \X Nat,
         mem' \in [Books -> Nat]
  PROVE  FilesInv'
<1>1. /\ events' \in Nat /\ disk' \subseteq Artifact
      /\ \A a \in disk' : ArtifactOk(a)
  BY DEF TaskFrame, FilesInv, FilesTyped, DiskInv
<1>2. /\ UNCHANGED <<source, seen, ui, generations, history>>
      /\ forced' \in [Books -> BOOLEAN] /\ inbox' \in Seq(Message)
  BY WriteFrameType DEF TaskFrame
<1> QED
  BY <1>1, <1>2, TaskInv

\* One that ends the task.
LEMMA EndInv ==
  ASSUME FilesInv, NEW t \in Tasks, End(t),
         TaskFrame, UNCHANGED disk, reserved' \subseteq Key,
         pruned' \subseteq Books \X Nat, prunes' \subseteq Books \X Nat,
         mem' \in [Books -> Nat]
  PROVE  FilesInv'
<1>1. JobOk(Done)
  BY DoneOk DEF FilesInv, FilesTyped, CountersInv
<1> QED
  BY <1>1, QuietTaskInv, NoJobType DEF End

\* reserve_page_map_slow and schedule_artifact_prune keep their types.
LEMMA ReserveType ==
  ASSUME reserved \subseteq Key, NEW j \in Job, Reserve(j)
  PROVE  reserved' \subseteq Key
  BY DEF Reserve, KeyOf, Key, Job

LEMMA SchedulePruneType ==
  ASSUME pruned \subseteq Books \X Nat, prunes \subseteq Books \X Nat,
         NEW j \in Job, SchedulePrune(j)
  PROVE  pruned' \subseteq Books \X Nat /\ prunes' \subseteq Books \X Nat
  BY DEF SchedulePrune, Job

LEMMA WrittenType ==
  ASSUME disk \subseteq Artifact, NEW j \in Job,
         NEW what \in {"thumb", "map", "failure"}
  PROVE  Written(what, j) \subseteq Artifact
  BY DEF Written, OnDisk, Artifact, Job, NoRevision

\* What a task adds to the disk is right if the task may write it.
LEMMA WrittenOk ==
  ASSUME DiskInv, NEW j \in Job, NEW what \in {"thumb", "map", "failure"},
         j.bookGeneration >= removed[j.book],
         what # "failure" => /\ j.born >= cleared
                             /\ j.revision >= floor[j.book]
                             /\ j.content = j.revision
  PROVE  \A a \in Written(what, j) : ArtifactOk(a)
  BY DEF Written, DiskInv, ArtifactOk

\* A write happens or fails, and is counted if it does.
LEMMA SaveType ==
  ASSUME FilesInv, NEW artifacts, Save(artifacts)
  PROVE  events' \in Nat /\ disk' \in {disk, artifacts}
  BY DEF FilesInv, FilesTyped, Save, Event

\* The job of a task is typed and right.
LEMMA JobFacts ==
  ASSUME FilesInv, NEW t \in Tasks
  PROVE  /\ job[t] \in Job /\ JobOk(job[t])
         /\ job[t].book \in Books
         /\ reserved \subseteq Key
         /\ pruned \subseteq Books \X Nat /\ prunes \subseteq Books \X Nat
         /\ mem \in [Books -> Nat]
         /\ artifactGeneration \in Nat /\ source[job[t].book] \in Nat
  BY DEF FilesInv, FilesTyped, JobsInv, Job, Revisions

\* A task that moves on without changing what it carries.
LEMMA GotoType ==
  ASSUME FilesInv, NEW t \in Tasks, NEW place \in Stages, Goto(t, place)
  PROVE  /\ [job[t] EXCEPT !.pc = place] \in Job
         /\ Become(t, [job[t] EXCEPT !.pc = place])
  BY JobFacts DEF Goto, Become, Job

LEMMA GotoInv ==
  ASSUME FilesInv, NEW t \in Tasks, NEW place \in Stages, Goto(t, place),
         JobOk([job[t] EXCEPT !.pc = place]),
         TaskFrame, UNCHANGED disk, reserved' \subseteq Key,
         pruned' \subseteq Books \X Nat, prunes' \subseteq Books \X Nat,
         mem' \in [Books -> Nat]
  PROVE  FilesInv'
  BY GotoType, QuietTaskInv

\* The checks in artifact_gate are enough: what is current may be written.
LEMMA CurrentMayWrite ==
  ASSUME FilesInv, NEW t \in Tasks, NEW place \in Stages, IsCurrent(job[t]),
         job[t].content = job[t].revision
  PROVE  MayWrite([job[t] EXCEPT !.pc = place])
<1>1. job[t] \in Job /\ Remembers(job[t])
  BY JobFacts DEF JobOk
<1>2. /\ job[t].born = artifactGeneration /\ artifactGeneration >= cleared
      /\ job[t].bookGeneration >= removed[job[t].book]
      /\ job[t].revision >= floor[job[t].book]
  BY <1>1 DEF FilesInv, FilesTyped, CountersInv, Revisions, IsCurrent, FolderIsCurrent,
      BookIsCurrent,
     SourceIsCurrent, Remembers, Job
<1> QED
  BY <1>1, <1>2 DEF MayWrite, Job

\* The steps of process_thumb.
LEMMA ThumbInv == ASSUME FilesInv, NEW t \in Tasks, ThumbStep(t) PROVE FilesInv'
<1> USE JobFacts
<1> DEFINE j == job[t]
<1>1. CASE Drop(t)
  BY <1>1, EndInv DEF Drop
<1>2. CASE Begin(t)
  <2> DEFINE k == [j EXCEPT !.pc = "lookup", !.flight = TRUE,
                            !.plan = IF j.bypass \/ NoPageMapYet(j) THEN "wanted" ELSE "none"]
  <2>1. k \in Job
    BY ZenonT(60) DEF Job, Stages, Plans
  <2>2. JobOk(k)
    BY <1>2 DEF Begin, Dispatched, Job, JobOk, Remembers, Carries, ReadFrom, MayWrite
  <2>3. pruned' \subseteq Books \X Nat /\ prunes' \subseteq Books \X Nat
    BY <1>2, SchedulePruneType DEF Begin
  <2> QED
    BY <1>2, <2>1, <2>2, <2>3, QuietTaskInv DEF Begin
<1>3. CASE BeginPageMapOnly(t)
  <2> DEFINE i == [j EXCEPT !.artifactGeneration = artifactGeneration]
             k == [i EXCEPT !.pc = "pages"]
  <2>1. i \in Job /\ k \in Job
    BY ZenonT(60) DEF Job, Stages
  <2>2. JobOk(k)
    BY <1>3 DEF BeginPageMapOnly, Job, JobOk, Remembers, Carries, ReadFrom, MayWrite
  <2>3. /\ pruned' \subseteq Books \X Nat /\ prunes' \subseteq Books \X Nat
        /\ reserved' \subseteq Key
    BY <1>3, <2>1, SchedulePruneType, ReserveType DEF BeginPageMapOnly
  <2>4. Become(t, k) \/ End(t)
    BY <1>3 DEF BeginPageMapOnly
  <2> QED
    BY <1>3, <2>1, <2>2, <2>3, <2>4, QuietTaskInv, EndInv DEF BeginPageMapOnly
<1>4. ASSUME NEW content \in Nat, NEW place \in {"answer", "store"},
             j.pc = "lookup", Found(t, content, place),
             TaskFrame, UNCHANGED <<pruned, prunes, mem, disk>>
      PROVE  FilesInv'
  <2> DEFINE i == [j EXCEPT !.artifactGeneration = artifactGeneration,
                            !.content = content, !.pc = place]
  <2>1. ASSUME NEW plan \in Plans PROVE [i EXCEPT !.plan = plan] \in Job
    BY <1>4, <2>1, ZenonT(60) DEF Job, Stages
  <2>2. i \in Job
    BY <1>4, ZenonT(60) DEF Job, Stages
  <2>3. reserved' \subseteq Key
    BY <1>4, <2>2, ReserveType DEF Found
  <2>4. CASE End(t)
    BY <1>4, <2>3, <2>4, EndInv
  <2>5. CASE \E plan \in {"slow", "none"} : Become(t, [i EXCEPT !.plan = plan])
    <3>1. PICK plan \in {"slow", "none"} : Become(t, [i EXCEPT !.plan = plan])
      BY <2>5
    <3>2. [i EXCEPT !.plan = plan] \in Job
      BY <2>1, <3>1 DEF Plans
    <3>3. JobOk([i EXCEPT !.plan = plan])
      BY <1>4, <3>1 DEF Job, JobOk, Remembers, Carries, ReadFrom, MayWrite
    <3> QED
      BY <1>4, <2>3, <3>1, <3>2, <3>3, QuietTaskInv
  <2>6. CASE Become(t, i)
    <3>1. JobOk(i)
      BY <1>4 DEF Job, JobOk, Remembers, Carries, ReadFrom, MayWrite
    <3> QED
      BY <1>4, <2>2, <2>3, <2>6, <3>1, QuietTaskInv
  <2> QED
    BY <1>4, <2>4, <2>5, <2>6 DEF Found
<1>5. CASE FindInMemory(t)
  BY <1>4, <1>5 DEF FindInMemory
<1>6. CASE FindOnDisk(t)
  <2>1. PICK a \in OnDisk("thumb", j) : Found(t, a.content, "store")
    BY <1>6 DEF FindOnDisk
  <2>2. a.content \in Nat
    BY <2>1 DEF OnDisk, FilesInv, FilesTyped, Artifact
  <2> QED
    BY <1>4, <1>6, <2>1, <2>2 DEF FindOnDisk
<1>7. CASE Decode(t)
  <2> DEFINE k == [j EXCEPT !.pc = "decoded", !.content = source[j.book],
                            !.write = TRUE, !.bypass = FALSE]
  <2>1. k \in Job
    BY ZenonT(60) DEF Job, Stages
  <2>2. JobOk(k)
    BY <1>7, <2>1 DEF Decode, Job, JobOk, Remembers, Carries, ReadFrom, MayWrite
  <2> QED
    BY <1>7, <2>1, <2>2, QuietTaskInv, EndInv DEF Decode
<1>8. CASE CheckDecoded(t)
  <2>1. CASE Goto(t, "store") /\ SourceIsCurrent(j)
    <3>1. JobOk([j EXCEPT !.pc = "store"])
      BY <1>8, <2>1 DEF CheckDecoded, SourceIsCurrent, Job, JobOk, Remembers, Carries,
         ReadFrom, MayWrite
    <3> QED
      BY <1>8, <2>1, <3>1, GotoInv DEF CheckDecoded, Stages
  <2> QED
    BY <1>8, <2>1, EndInv DEF CheckDecoded
<1>9. CASE Store(t)
  <2>1. PICK place \in {"putGate", Stored(t)} : Goto(t, place)
    BY <1>9 DEF Store
  <2>2. JobOk([j EXCEPT !.pc = place]) /\ place \in Stages
    BY <1>9, <2>1 DEF Store, Stored, Stages, Job, JobOk, Remembers, Carries, ReadFrom,
       MayWrite
  <2> QED
    BY <1>9, <2>1, <2>2, GotoInv DEF Store
<1>10. CASE PutInMemory(t)
  <2>1. JobOk([j EXCEPT !.pc = Stored(t)]) /\ Stored(t) \in Stages
    BY <1>10 DEF PutInMemory, Stored, Stages, Job, JobOk, Remembers, Carries, ReadFrom,
       MayWrite
  <2>2. mem' \in [Books -> Nat]
    BY <1>10 DEF PutInMemory, Job
  <2> QED
    BY <1>10, <2>1, <2>2, GotoInv DEF PutInMemory
<1>11. CASE Stamp(t)
  <2> DEFINE i == [j EXCEPT !.artifactGeneration = artifactGeneration, !.pc = "answer"]
  <2>1. i \in Job
    BY ZenonT(60) DEF Job, Stages
  <2>2. reserved' \subseteq Key
    BY <1>11, <2>1, ReserveType DEF Stamp
  <2>3. CASE Become(t, i)
    <3>1. JobOk(i)
      BY <1>11 DEF Stamp, Job, JobOk, Remembers, Carries, ReadFrom, MayWrite
    <3> QED
      BY <1>11, <2>1, <2>2, <2>3, <3>1, QuietTaskInv DEF Stamp
  <2>4. CASE Become(t, [i EXCEPT !.plan = "failed", !.pc = "mark"])
    <3>1. [i EXCEPT !.plan = "failed", !.pc = "mark"] \in Job
      BY ZenonT(60) DEF Job, Stages, Plans
    <3>2. JobOk([i EXCEPT !.plan = "failed", !.pc = "mark"])
      BY <1>11 DEF Stamp, Job, JobOk, Remembers, Carries, ReadFrom, MayWrite
    <3> QED
      BY <1>11, <2>2, <2>4, <3>1, <3>2, QuietTaskInv DEF Stamp
  <2>5. ASSUME NEW plan \in {"slow", "none", "fast", "ready"},
               Become(t, [i EXCEPT !.plan = plan])
        PROVE  FilesInv'
    <3>1. [i EXCEPT !.plan = plan] \in Job
      BY <2>5, ZenonT(60) DEF Job, Stages, Plans
    <3>2. JobOk([i EXCEPT !.plan = plan])
      BY <1>11, <2>5 DEF Stamp, Job, JobOk, Remembers, Carries, ReadFrom, MayWrite
    <3> QED
      BY <1>11, <2>2, <2>5, <3>1, <3>2, QuietTaskInv DEF Stamp
  <2> QED
    BY <1>11, <2>3, <2>4, <2>5 DEF Stamp
<1>12. CASE Answer(t)
  <2> DEFINE k == [j EXCEPT !.pc = IF j.write THEN "thumb" ELSE "pages", !.flight = FALSE]
  <2>1. k \in Job
    BY ZenonT(60) DEF Job, Stages
  <2>2. JobOk(k)
    BY <1>12 DEF Answer, Job, JobOk, Remembers, Carries, ReadFrom, MayWrite
  <2>3. mem' \in [Books -> Nat]
    BY <1>12 DEF Answer, Job
  <2> QED
    BY <1>12, <2>1, <2>2, <2>3, QuietTaskInv, EndInv DEF Answer
<1>13. [j EXCEPT !.pc = "pages", !.write = FALSE] \in Job
  BY ZenonT(60) DEF Job, Stages
<1>14. j.pc \in {"thumb", "thumbGate"} => JobOk([j EXCEPT !.pc = "pages", !.write = FALSE])
  BY DEF Job, JobOk, Remembers, Carries, ReadFrom, MayWrite
<1>15. CASE CheckThumb(t)
  <2>1. CASE Goto(t, "thumbGate") /\ IsCurrent(j)
    <3>1. j.pc = "thumb" /\ j.write /\ j.content = j.revision
      BY <1>15 DEF CheckThumb, JobOk, Carries, ReadFrom
    <3>2. MayWrite([j EXCEPT !.pc = "thumbGate"])
      BY <2>1, <3>1, CurrentMayWrite DEF Stages
    <3>3. JobOk([j EXCEPT !.pc = "thumbGate"])
      BY <3>1, <3>2 DEF Job, JobOk, Remembers, Carries, ReadFrom
    <3> QED
      BY <1>15, <2>1, <3>3, GotoInv DEF CheckThumb, Stages
  <2> QED
    BY <1>13, <1>14, <1>15, <2>1, QuietTaskInv DEF CheckThumb, Handed
<1>16. CASE WriteThumb(t)
  <2>1. Become(t, [j EXCEPT !.pc = "pages", !.write = FALSE])
    BY <1>16 DEF WriteThumb, Handed
  <2>2. events' \in Nat /\ disk' \in {disk, Written("thumb", j)}
    BY <1>16, SaveType DEF WriteThumb
  <2>3. \A a \in Written("thumb", j) : ArtifactOk(a)
    BY <1>16, WrittenOk DEF WriteThumb, JobOk, MayWrite, FilesInv
  <2>4. disk' \subseteq Artifact /\ \A a \in disk' : ArtifactOk(a)
    BY <2>2, <2>3, WrittenType DEF FilesInv, FilesTyped, DiskInv
  <2> QED
    BY <1>13, <1>14, <1>16, <2>1, <2>2, <2>4, TaskInv, WriteFrameType DEF WriteThumb
<1> QED
  BY <1>1, <1>2, <1>3, <1>5, <1>6, <1>7, <1>8, <1>9, <1>10, <1>11, <1>12, <1>15, <1>16
  DEF ThumbStep

\* The steps of the deferred page map and of PageMapCoordinator.
LEMMA PageMapInv == ASSUME FilesInv, NEW t \in Tasks, PageMapStep(t) PROVE FilesInv'
<1> USE JobFacts
<1> DEFINE j == job[t]
<1>1. CASE StartPages(t)
  <2> DEFINE k == [j EXCEPT !.pc = "wait", !.content = NoRevision]
  <2>1. k \in Job
    BY ZenonT(60) DEF Job, Stages, NoRevision
  <2>2. CASE Become(t, k) /\ j.plan = "slow"
    <3>1. JobOk(k)
      BY <1>1, <2>2 DEF StartPages, Job, JobOk, Remembers, Carries, ReadFrom, MayWrite
    <3> QED
      BY <1>1, <2>1, <2>2, <3>1, QuietTaskInv DEF StartPages
  <2>3. CASE Goto(t, "fast") /\ j.plan = "fast"
    <3>1. JobOk([j EXCEPT !.pc = "fast"])
      BY <1>1, <2>3 DEF StartPages, Job, JobOk, Remembers, Carries, ReadFrom, MayWrite
    <3> QED
      BY <1>1, <2>3, <3>1, GotoInv DEF StartPages, Stages
  <2>4. CASE Goto(t, "map") /\ j.plan = "ready"
    <3>1. JobOk([j EXCEPT !.pc = "map"])
      BY <1>1, <2>4 DEF StartPages, Job, JobOk, Remembers, Carries, ReadFrom, MayWrite
    <3> QED
      BY <1>1, <2>4, <3>1, GotoInv DEF StartPages, Stages
  <2>5. j.plan \in Plans /\ (BookIsCurrent(j) \/ ~BookIsCurrent(j))
    BY DEF Job
  <2> QED
    BY <1>1, <2>2, <2>3, <2>4, <2>5, EndInv DEF StartPages, Plans
<1>2. CASE Assemble(t)
  <2> DEFINE k == [j EXCEPT !.plan = "slow", !.pc = "wait", !.content = NoRevision]
  <2>1. reserved' \subseteq Key
    BY <1>2, ReserveType DEF Assemble
  <2>2. k \in Job /\ JobOk(k)
    <3>1. k \in Job
      BY ZenonT(60) DEF Job, Stages, Plans, NoRevision
    <3>2. JobOk(k)
      BY <1>2 DEF Assemble, Job, JobOk, Remembers, Carries, ReadFrom, MayWrite
    <3> QED
      BY <3>1, <3>2
  <2>3. CASE Become(t, k)
    BY <1>2, <2>1, <2>2, <2>3, QuietTaskInv DEF Assemble
  <2>4. CASE \E place \in {"map", "mark"} : Goto(t, place)
    <3>1. PICK place \in {"map", "mark"} : Goto(t, place)
      BY <2>4
    <3>2. JobOk([j EXCEPT !.pc = place])
      BY <1>2, <3>1 DEF Assemble, Job, JobOk, Remembers, Carries, ReadFrom, MayWrite
    <3> QED
      BY <1>2, <2>1, <3>1, <3>2, GotoInv DEF Assemble, Stages
  <2> QED
    BY <1>2, <2>1, <2>3, <2>4, EndInv DEF Assemble
<1>3. CASE BeginSlow(t)
  <2>1. JobOk([j EXCEPT !.pc = "build"])
    BY <1>3 DEF BeginSlow, Job, JobOk, Remembers, Carries, ReadFrom, MayWrite
  <2> QED
    BY <1>3, <2>1, GotoInv DEF BeginSlow, Stages
<1>4. CASE Build(t)
  <2> DEFINE i == [j EXCEPT !.content = source[j.book]]
  <2>1. CASE \E place \in {"map", "mark"} : Become(t, [i EXCEPT !.pc = place])
    <3>1. PICK place \in {"map", "mark"} : Become(t, [i EXCEPT !.pc = place])
      BY <2>1
    <3>2. [i EXCEPT !.pc = place] \in Job
      BY <3>1, ZenonT(60) DEF Job, Stages
    <3>3. JobOk([i EXCEPT !.pc = place])
      BY <1>4, <3>1 DEF Build, Job, JobOk, Remembers, Carries, ReadFrom, MayWrite
    <3> QED
      BY <1>4, <3>1, <3>2, <3>3, QuietTaskInv DEF Build
  <2> QED
    BY <1>4, <2>1, EndInv DEF Build
<1>5. CASE CheckMap(t)
  <2>1. CASE Goto(t, "mapGate") /\ IsCurrent(j)
    <3>1. j.pc = "map" /\ j.content = j.revision
      BY <1>5, <2>1 DEF CheckMap, IsCurrent, SourceIsCurrent, JobOk, ReadFrom, Job
    <3>2. MayWrite([j EXCEPT !.pc = "mapGate"])
      BY <2>1, <3>1, CurrentMayWrite DEF Stages
    <3>3. JobOk([j EXCEPT !.pc = "mapGate"])
      BY <3>1, <3>2 DEF Job, JobOk, Remembers, Carries, ReadFrom
    <3> QED
      BY <1>5, <2>1, <3>3, GotoInv DEF CheckMap, Stages
  <2> QED
    BY <1>5, <2>1, EndInv DEF CheckMap
<1>6. CASE WriteMap(t)
  <2>1. /\ events' \in Nat
        /\ disk' \in {disk, Written("map", j) \ OnDisk("failure", j)}
    BY <1>6, SaveType DEF WriteMap
  <2>2. \A a \in Written("map", j) : ArtifactOk(a)
    BY <1>6, WrittenOk DEF WriteMap, JobOk, MayWrite, FilesInv
  <2>3. disk' \subseteq Artifact /\ \A a \in disk' : ArtifactOk(a)
    BY <2>1, <2>2, WrittenType DEF FilesInv, FilesTyped, DiskInv
  <2>4. Done \in Job /\ JobOk(Done)
    BY NoJobType, DoneOk DEF FilesInv, FilesTyped, CountersInv
  <2> QED
    BY <1>6, <2>1, <2>3, <2>4, TaskInv, WriteFrameType DEF WriteMap, End
<1>7. ASSUME AfterMark(t), j.pc \in {"mark", "markGate"},
             WriteFrame, UNCHANGED <<reserved, pruned, prunes, mem>>,
             events' \in Nat, disk' \subseteq Artifact, \A a \in disk' : ArtifactOk(a)
      PROVE  FilesInv'
  <2>1. CASE End(t)
    <3>1. Done \in Job /\ JobOk(Done)
      BY NoJobType, DoneOk DEF FilesInv, FilesTyped, CountersInv
    <3> QED
      BY <1>7, <2>1, <3>1, TaskInv, WriteFrameType DEF End
  <2>2. CASE Goto(t, "answer")
    <3>1. JobOk([j EXCEPT !.pc = "answer"])
      BY <1>7 DEF Job, JobOk, Remembers, Carries, ReadFrom, MayWrite
    <3>2. [j EXCEPT !.pc = "answer"] \in Job /\ Become(t, [j EXCEPT !.pc = "answer"])
      BY <2>2, GotoType DEF Stages
    <3> QED
      BY <1>7, <3>1, <3>2, TaskInv, WriteFrameType
  <2> QED
    BY <1>7, <2>1, <2>2 DEF AfterMark
<1>8. CASE CheckMark(t)
  <2>1. CASE Goto(t, "markGate") /\ BookIsCurrent(j)
    <3>1. j.bookGeneration >= removed[j.book]
      BY <2>1 DEF BookIsCurrent, FilesInv, FilesTyped, CountersInv
    <3>2. JobOk([j EXCEPT !.pc = "markGate"])
      BY <1>8, <3>1 DEF CheckMark, Job, JobOk, Remembers, Carries, ReadFrom, MayWrite
    <3> QED
      BY <1>8, <2>1, <3>2, GotoInv DEF CheckMark, Stages
  <2>2. CASE AfterMark(t)
    <3>1. events' \in Nat /\ disk' \subseteq Artifact /\ \A a \in disk' : ArtifactOk(a)
      BY <1>8 DEF CheckMark, TaskFrame, FilesInv, FilesTyped, DiskInv
    <3> QED
      BY <1>7, <1>8, <2>2, <3>1 DEF CheckMark, TaskFrame
  <2> QED
    BY <1>8, <2>1, <2>2 DEF CheckMark
<1>9. CASE WriteMark(t)
  <2>1. events' \in Nat /\ disk' \in {disk, Written("failure", j)}
    BY <1>9, SaveType DEF WriteMark
  <2>2. \A a \in Written("failure", j) : ArtifactOk(a)
    BY <1>9, WrittenOk DEF WriteMark, JobOk, MayWrite, FilesInv
  <2>3. disk' \subseteq Artifact /\ \A a \in disk' : ArtifactOk(a)
    BY <2>1, <2>2, WrittenType DEF FilesInv, FilesTyped, DiskInv
  <2> QED
    BY <1>7, <1>9, <2>1, <2>3 DEF WriteMark
<1> QED
  BY <1>1, <1>2, <1>3, <1>4, <1>5, <1>6, <1>8, <1>9 DEF PageMapStep

-----------------------------------------------------------------------------
(* The steps of the user and of the worker's loops, which concern many tasks. *)

\* Tasks that are ended, or no longer registered as in flight, are right.
LEMMA EndedOk ==
  ASSUME FilesInv, NEW t \in Tasks
  PROVE  /\ Done \in Job /\ JobOk(Done)
         /\ [job[t] EXCEPT !.flight = FALSE] \in Job
         /\ JobOk([job[t] EXCEPT !.flight = FALSE])
<1>1. job[t] \in Job /\ JobOk(job[t])
  BY JobFacts
<1>2. /\ [job[t] EXCEPT !.flight = FALSE] \in Job
      /\ JobOk([job[t] EXCEPT !.flight = FALSE])
  BY <1>1, ZenonT(60) DEF Job, JobOk, Remembers, Carries, ReadFrom, MayWrite
<1> QED
  BY <1>2, NoJobType, DoneOk DEF FilesInv, FilesTyped, CountersInv

LEMMA EmptyMailboxOk ==
  ASSUME FilesInv, NEW books, EmptyMailbox(books)
  PROVE  job' \in [Tasks -> Job] /\ \A t \in Tasks : JobOk(job'[t])
  BY JobFacts, EndedOk DEF EmptyMailbox

LEMMA ForgetTasksOk ==
  ASSUME FilesInv, ForgetTasks
  PROVE  job' \in [Tasks -> Job] /\ \A t \in Tasks : JobOk(job'[t])
  BY EndedOk DEF ForgetTasks

\* Everything else but the tasks is right already.
LEMMA JobsTypeOK ==
  ASSUME FilesInv, job' \in [Tasks -> Job], \A t \in Tasks : Carries(job'[t]),
         source' \in [Books -> Revisions],
         seen' \in [Books -> Nat], forced' \in [Books -> BOOLEAN],
         ui' \in [step : {"idle", "clear", "remove"}, book : Books],
         events' \in Nat, generation' \in Nat, artifactGeneration' \in Nat,
         bookGeneration' \in [Books -> Nat],
         inbox' \in Seq(Message), reserved' \subseteq Key,
         pruned' \subseteq Books \X Nat, prunes' \subseteq Books \X Nat,
         mem' \in [Books -> Nat], disk' \subseteq Artifact,
         cleared' \in Nat, removed' \in [Books -> Nat], floor' \in [Books -> Nat]
  PROVE  FilesTyped'
  BY DEF FilesTyped, Carries

\* The file of a book changes, or the Library sees it.
LEMMA SourceInv ==
  ASSUME FilesInv, NEW b \in Books, ReplaceSource(b) \/ Scan(b)
  PROVE  FilesInv'
<1>1. CASE ReplaceSource(b)
  <2>1. /\ source' \in [Books -> Revisions]
        /\ \A c \in Books : source[c] <= source'[c]
    <3>1. source \in [Books -> Revisions]
      BY DEF FilesInv, FilesTyped
    <3>2. source' = [source EXCEPT ![b] = source[b] + 1]
      BY <1>1 DEF ReplaceSource
    <3>3. source[b] + 1 \in Revisions
      BY <3>1 DEF Revisions
    <3>4. source' \in [Books -> Revisions]
      BY <3>1, <3>2, <3>3
    <3>5. ASSUME NEW c \in Books PROVE source[c] <= source'[c]
      <4>1. source[c] \in Nat
        BY <3>1 DEF Revisions
      <4>2. source'[c] = IF c = b THEN source[c] + 1 ELSE source[c]
        BY <3>1, <3>2
      <4> QED
        BY <4>1, <4>2
    <3> QED
      BY <3>4, <3>5
  <2>2. ASSUME NEW t \in Tasks PROVE JobOk(job[t])'
    <3>1. /\ job[t] \in Job /\ job[t].book \in Books /\ JobOk(job[t])
          /\ source[job[t].book] \in Nat /\ source'[job[t].book] \in Nat
      BY <2>1, JobFacts DEF Revisions
    <3> QED
      BY <1>1, <2>1, <3>1 DEF ReplaceSource, Job, JobOk, Remembers, Carries, ReadFrom,
         MayWrite, generations, history
  <2>3. FilesTyped'
    <3>1. events' \in Nat
      BY <1>1 DEF ReplaceSource, Event, FilesInv, FilesTyped
    <3> QED
      BY <1>1, <2>1, <3>1 DEF ReplaceSource, FilesInv, FilesTyped, uiVars, generations,
          worker, history
  <2>4. CountersInv'
    BY <1>1, <2>1 DEF ReplaceSource, FilesInv, FilesTyped, Revisions, CountersInv, uiVars,
        generations,
       history
  <2>5. DiskInv'
    BY <1>1 DEF ReplaceSource, FilesInv, DiskInv, ArtifactOk, history
  <2> QED
    BY <2>2, <2>3, <2>4, <2>5 DEF FilesInv, JobsInv
<1>2. CASE Scan(b)
  <2>0. source \in [Books -> Nat]
    BY DEF FilesInv, FilesTyped, Revisions
  <2>1. /\ seen' \in [Books -> Nat] /\ forced' \in [Books -> BOOLEAN]
        /\ \A c \in Books : seen'[c] <= source[c]
    <3>1. /\ seen \in [Books -> Nat] /\ forced \in [Books -> BOOLEAN]
          /\ \A c \in Books : seen[c] <= source[c]
      BY DEF FilesInv, FilesTyped, CountersInv
    <3>2. /\ seen' = [seen EXCEPT ![b] = source[b]]
          /\ forced' \in {[forced EXCEPT ![b] = TRUE], [forced EXCEPT ![b] = FALSE]}
      BY <1>2 DEF Scan
    <3>3. forced' \in [Books -> BOOLEAN]
      BY <3>1, <3>2
    <3> QED
      BY <2>0, <3>1, <3>2, <3>3
  <2>2. JobsInv'
    BY <1>2 DEF Scan, FilesInv, JobsInv, JobOk, Remembers, Carries, ReadFrom, MayWrite,
       generations, history
  <2>3. FilesTyped'
    BY <1>2, <2>1 DEF Scan, FilesInv, FilesTyped, generations, worker, history
  <2>4. CountersInv'
    BY <1>2, <2>1 DEF Scan, FilesInv, CountersInv, generations, history
  <2>5. DiskInv'
    BY <1>2 DEF Scan, FilesInv, DiskInv, ArtifactOk, history
  <2> QED
    BY <2>2, <2>3, <2>4, <2>5 DEF FilesInv
<1> QED
  BY <1>1, <1>2

\* A request is made, or passed on by the scheduler.
LEMMA RequestInv ==
  ASSUME FilesInv, NEW t \in Tasks, NEW b \in Books,
         RequestDisplay(t, b) \/ RequestEntry(t, b) \/ RequestAll(t, b)
  PROVE  FilesInv'
<1> DEFINE asked(place) == [Asked(b) EXCEPT !.pc = place]
<1>1. Asked(b) \in Job /\ JobOk(Asked(b)) /\ Asked(b).pc = "idle"
  <2>1. Asked(b) \in Job
    BY NoJobType, ZenonT(60) DEF Asked, FilesInv, FilesTyped, Job, NoJob
  <2>2. JobOk(Asked(b))
    BY DEF Asked, NoJob, FilesInv, FilesTyped, CountersInv, JobOk, Remembers, Carries, ReadFrom,
       MayWrite
  <2> QED
    BY <2>1, <2>2 DEF Asked, NoJob
<1>2. ASSUME NEW place \in {"mailbox", "sent", "scheduled"}
      PROVE  asked(place) \in Job /\ JobOk(asked(place))
  <2>1. asked(place) \in Job
    BY <1>1, <1>2 DEF Job, Stages
  <2> QED
    BY <1>1, <1>2, <2>1 DEF Job, JobOk, Remembers, Carries, ReadFrom, MayWrite
<1>3. [asked("scheduled") EXCEPT !.plan = "slow"] \in Job
  BY <1>2 DEF Job, Plans
<1>4. JobOk([asked("scheduled") EXCEPT !.plan = "slow"])
  BY <1>1, <1>2 DEF Job, JobOk, Remembers, Carries, ReadFrom, MayWrite
<1>5. PICK k : Become(t, k) /\ k \in Job /\ JobOk(k)
  BY <1>2, <1>3, <1>4 DEF RequestDisplay, RequestEntry, RequestAll
<1>6. /\ UNCHANGED <<source, seen, ui, generations, history>>
      /\ UNCHANGED <<events, reserved, pruned, prunes, mem, disk>>
  BY DEF RequestDisplay, RequestEntry, RequestAll, uiVars, worker
<1>7. inbox' \in Seq(Message) /\ forced' \in [Books -> BOOLEAN]
  <2>1. [msg |-> "Task", task |-> t] \in Message
    BY DEF Message
  <2>2. inbox' \in {inbox, Append(inbox, [msg |-> "Task", task |-> t])}
    BY DEF RequestDisplay, RequestEntry, RequestAll, worker, Send
  <2>3. inbox' \in Seq(Message)
    <3>1. inbox \in Seq(Message)
      BY DEF FilesInv, FilesTyped
    <3> QED
      BY <2>1, <2>2, <3>1
  <2> QED
    BY <2>3 DEF RequestDisplay, RequestEntry, RequestAll, uiVars, FilesInv, FilesTyped
<1> QED
  BY <1>5, <1>6, <1>7, TaskInv DEF FilesInv, FilesTyped, DiskInv

\* What is put into the inbox is a message, and so is what is left in it.
LEMMA InboxType ==
  ASSUME FilesInv
  PROVE  /\ \A m \in Message : Append(inbox, m) \in Seq(Message)
         /\ inbox # <<>> => Tail(inbox) \in Seq(Message) /\ Head(inbox) \in Message
<1>1. inbox \in Seq(Message)
  BY DEF FilesInv, FilesTyped
<1> QED
  BY <1>1

\* A message about no task joins the inbox, or the first one leaves it.
LEMMA AppendInbox ==
  ASSUME FilesTyped, InboxInv, NEW m \in Message, inbox' = Append(inbox, m),
         \A u \in Tasks : job[u].pc = "sent" => job'[u].pc = "sent",
         m.msg = "Task" => job[m.task].pc # "sent" /\ job'[m.task].pc = "sent"
  PROVE  InboxInv'
<1>1. inbox \in Seq(Message)
  BY DEF FilesTyped
<1>2. /\ Len(inbox') = Len(inbox) + 1 /\ Len(inbox) \in Nat
      /\ \A i \in 1 .. Len(inbox) : inbox'[i] = inbox[i]
      /\ inbox'[Len(inbox) + 1] = m
  BY <1>1
<1>3. \A i \in 1 .. Len(inbox) : inbox[i].msg = "Task" => inbox[i].task \in Tasks
  <2>1. \A n \in Message : n.msg = "Task" => n.task \in Tasks
    BY DEF Message
  <2> QED
    BY <1>1, <2>1
<1>4. ASSUME NEW i \in 1 .. Len(inbox), inbox[i].msg = "Task"
      PROVE  /\ job[inbox[i].task].pc = "sent" /\ job'[inbox[i].task].pc = "sent"
             /\ m.msg = "Task" => m.task # inbox[i].task
             /\ \A k \in 1 .. Len(inbox) :
                    inbox[k].msg = "Task" /\ inbox[k].task = inbox[i].task => k = i
  BY <1>3, <1>4 DEF InboxInv
<1>5. ASSUME NEW i \in 1 .. Len(inbox) + 1, inbox'[i].msg = "Task"
      PROVE  /\ job'[inbox'[i].task].pc = "sent"
             /\ \A k \in 1 .. Len(inbox) + 1 :
                    inbox'[k].msg = "Task" /\ inbox'[k].task = inbox'[i].task => k = i
  <2>1. CASE i \in 1 .. Len(inbox)
    <3>1. inbox'[i] = inbox[i]
      BY <1>2, <2>1
    <3>2. ASSUME NEW k \in 1 .. Len(inbox) + 1, inbox'[k].msg = "Task",
                 inbox'[k].task = inbox'[i].task
          PROVE  k = i
      BY <1>2, <1>4, <1>5, <2>1, <3>1, <3>2, SMTT(40)
    <3> QED
      BY <1>4, <1>5, <2>1, <3>1, <3>2
  <2>2. CASE i = Len(inbox) + 1
    <3>1. inbox'[i] = m
      BY <1>2, <2>2
    <3>2. ASSUME NEW k \in 1 .. Len(inbox) + 1, inbox'[k].msg = "Task",
                 inbox'[k].task = inbox'[i].task
          PROVE  k = i
      BY <1>2, <1>4, <1>5, <2>2, <3>1, <3>2
    <3> QED
      BY <1>5, <3>1, <3>2
  <2> QED
    BY <1>2, <2>1, <2>2
<1> QED
  BY <1>2, <1>5 DEF InboxInv

LEMMA TailInbox ==
  ASSUME FilesTyped, InboxInv, inbox # <<>>, inbox' = Tail(inbox),
         \A u \in Tasks : /\ job[u].pc = "sent"
                          /\ Head(inbox).msg = "Task" => u # Head(inbox).task
                          => job'[u].pc = "sent"
  PROVE  InboxInv'
<1>1. inbox \in Seq(Message)
  BY DEF FilesTyped
<1>2. /\ Len(inbox') = Len(inbox) - 1 /\ Len(inbox) \in Nat /\ Len(inbox) >= 1
      /\ \A i \in 1 .. Len(inbox) - 1 : inbox'[i] = inbox[i + 1]
      /\ Head(inbox) = inbox[1]
  BY <1>1
<1>3. \A i \in 1 .. Len(inbox) : inbox[i].msg = "Task" => inbox[i].task \in Tasks
  <2>1. \A n \in Message : n.msg = "Task" => n.task \in Tasks
    BY DEF Message
  <2> QED
    BY <1>1, <2>1
<1>4. ASSUME NEW i \in 1 .. Len(inbox) - 1, inbox'[i].msg = "Task"
      PROVE  /\ job'[inbox'[i].task].pc = "sent"
             /\ \A k \in 1 .. Len(inbox) - 1 :
                    inbox'[k].msg = "Task" /\ inbox'[k].task = inbox'[i].task => k = i
  <2>1. /\ inbox'[i] = inbox[i + 1] /\ i + 1 \in 1 .. Len(inbox) /\ i + 1 # 1
        /\ 1 \in 1 .. Len(inbox)
    BY <1>2, <1>4
  <2>2. /\ job[inbox'[i].task].pc = "sent" /\ inbox'[i].task \in Tasks
        /\ Head(inbox).msg = "Task" => inbox'[i].task # Head(inbox).task
    BY <1>2, <1>3, <1>4, <2>1 DEF InboxInv
  <2>3. ASSUME NEW k \in 1 .. Len(inbox) - 1, inbox'[k].msg = "Task",
               inbox'[k].task = inbox'[i].task
        PROVE  k = i
    <3>1. inbox'[k] = inbox[k + 1] /\ k + 1 \in 1 .. Len(inbox)
      BY <1>2, <2>3
    <3>2. k + 1 = i + 1
      BY <1>4, <2>1, <2>3, <3>1 DEF InboxInv
    <3> QED
      BY <2>3, <1>4, <1>2, <3>2
  <2> QED
    BY <2>2, <2>3
<1>5. SUFFICES ASSUME NEW i \in 1 .. Len(inbox'), inbox'[i].msg = "Task"
               PROVE  /\ job'[inbox'[i].task].pc = "sent"
                      /\ \A k \in 1 .. Len(inbox') :
                             inbox'[k].msg = "Task" /\ inbox'[k].task = inbox'[i].task
                             => k = i
  BY DEF InboxInv
<1>6. 1 .. Len(inbox') = 1 .. Len(inbox) - 1
  BY <1>2
<1> QED
  BY ONLY <1>4, <1>5, <1>6

LEMMA SameInbox ==
  ASSUME FilesTyped, InboxInv, UNCHANGED inbox,
         \A u \in Tasks : job[u].pc = "sent" => job'[u].pc = "sent"
  PROVE  InboxInv'
<1>1. \A i \in 1 .. Len(inbox) : inbox[i].msg = "Task" => inbox[i].task \in Tasks
  <2>1. \A n \in Message : n.msg = "Task" => n.task \in Tasks
    BY DEF Message
  <2> QED
    BY <2>1 DEF FilesTyped
<1> QED
  BY <1>1 DEF InboxInv

\* A task leaves the inbox only by HandleTask.
LEMMA OneStays ==
  ASSUME FilesTyped, NEW t \in Tasks, job[t].pc # "sent",
         (\E j : Become(t, j)) \/ End(t) \/ \E place : Goto(t, place)
  PROVE  \A u \in Tasks : job[u].pc = "sent" => job'[u].pc = "sent"
  BY DEF FilesTyped, Become, End, Goto

LEMMA InboxStepInv == ASSUME FilesTyped, InboxInv, ArtifactsNext PROVE InboxInv'
<1>1. ASSUME NEW t \in Tasks, ThumbStep(t) \/ PageMapStep(t) PROVE InboxInv'
  <2>1. UNCHANGED inbox /\ job[t].pc # "sent"
    <3>1. ThumbStep(t) => UNCHANGED inbox
      BY DEF ThumbStep, Drop, Begin, BeginPageMapOnly, FindInMemory, FindOnDisk, Decode,
         CheckDecoded, Store, PutInMemory, Stamp, Answer, CheckThumb, WriteThumb, TaskFrame,
         WriteFrame
    <3>2. ThumbStep(t) => job[t].pc # "sent"
      BY DEF ThumbStep, Drop, Begin, BeginPageMapOnly, FindInMemory, FindOnDisk, Decode,
         CheckDecoded, Store, PutInMemory, Stamp, Answer, CheckThumb, WriteThumb, Dispatched
    <3>3. PageMapStep(t) => UNCHANGED inbox
      BY DEF PageMapStep, StartPages, Assemble, BeginSlow, Build, CheckMap, WriteMap,
         CheckMark, WriteMark, TaskFrame, WriteFrame
    <3>4. PageMapStep(t) => job[t].pc # "sent"
      <4>1. StartPages(t) => job[t].pc # "sent"
        BY DEF StartPages
      <4>2. Assemble(t) \/ BeginSlow(t) \/ Build(t) => job[t].pc # "sent"
        BY DEF Assemble, BeginSlow, Build
      <4>3. CheckMap(t) \/ WriteMap(t) \/ CheckMark(t) \/ WriteMark(t) => job[t].pc # "sent"
        BY DEF CheckMap, WriteMap, CheckMark, WriteMark
      <4> QED
        BY <4>1, <4>2, <4>3 DEF PageMapStep
    <3> QED
      BY <1>1, <3>1, <3>2, <3>3, <3>4
  <2>2. (\E j : Become(t, j)) \/ End(t) \/ \E place : Goto(t, place)
    <3>1. ThumbStep(t) => (\E j : Become(t, j)) \/ End(t) \/ \E place : Goto(t, place)
      BY DEF ThumbStep, Drop, Begin, BeginPageMapOnly, FindInMemory, FindOnDisk, Decode,
         CheckDecoded, Store, PutInMemory, Stamp, Answer, CheckThumb, WriteThumb, Found,
         Handed
    <3>2. StartPages(t) => (\E j : Become(t, j)) \/ End(t) \/ \E place : Goto(t, place)
      <4>1. job[t].plan \in Plans /\ (BookIsCurrent(job[t]) \/ ~BookIsCurrent(job[t]))
        BY DEF FilesTyped, Job
      <4> QED
        BY <4>1 DEF StartPages, Plans
    <3>3. PageMapStep(t) => (\E j : Become(t, j)) \/ End(t) \/ \E place : Goto(t, place)
      BY <3>2 DEF PageMapStep, Assemble, BeginSlow, Build, CheckMap, WriteMap, CheckMark,
         WriteMark, AfterMark
    <3> QED
      BY <1>1, <3>1, <3>3
  <2> QED
    BY <2>1, <2>2, OneStays, SameInbox
<1>2. ASSUME NEW b \in Books, ReplaceSource(b) \/ Scan(b) PROVE InboxInv'
  BY <1>2, SameInbox DEF ReplaceSource, Scan, worker
<1>3. CASE ClearDisk \/ RemoveDisk \/ \E p \in prunes : Prune(p)
  BY <1>3, SameInbox DEF ClearDisk, RemoveDisk, Prune, worker
<1>4. ASSUME NEW books, EmptyMailbox(books)
      PROVE  \A u \in Tasks : job[u].pc = "sent" => job'[u].pc = "sent"
  BY <1>4 DEF EmptyMailbox
<1>5. CASE LeaveFolder
  <2>1. [msg |-> "ClearPending"] \in Message /\ [msg |-> "ClearPending"].msg # "Task"
    BY DEF Message
  <2> QED
    BY <1>4, <1>5, <2>1, AppendInbox DEF LeaveFolder
<1>6. CASE ClearCache
  <2>1. [msg |-> "ClearCaches"] \in Message /\ [msg |-> "ClearCaches"].msg # "Task"
    BY DEF Message
  <2> QED
    BY <1>4, <1>6, <2>1, AppendInbox DEF ClearCache
<1>7. ASSUME NEW b \in Books, ClearBook(b) PROVE InboxInv'
  <2> DEFINE m == [msg |-> "RemoveArchiveCache", book |-> b]
  <2>1. m \in Message /\ m.msg # "Task"
    BY DEF Message
  <2> QED
    BY <1>4, <1>7, <2>1, AppendInbox DEF ClearBook
<1>8. ASSUME NEW t \in Tasks, NEW b \in Books,
             RequestDisplay(t, b) \/ RequestEntry(t, b) \/ RequestAll(t, b)
      PROVE  InboxInv'
  <2>1. /\ job[t].pc = "idle"
        /\ \A u \in Tasks : job[u].pc = "sent" => job'[u].pc = "sent"
    <3>1. job[t].pc = "idle" /\ \E j : Become(t, j)
      BY <1>8 DEF RequestDisplay, RequestEntry, RequestAll, MayAsk
    <3> QED
      BY <3>1, OneStays
  <2>2. CASE UNCHANGED inbox
    BY <2>1, <2>2, SameInbox
  <2>3. CASE RequestEntry(t, b)
    <3> DEFINE m == [msg |-> "Task", task |-> t]
    <3>1. m \in Message /\ m.task = t
      BY DEF Message
    <3>2. job'[t].pc = "sent"
      BY <2>3, NoJobType DEF RequestEntry, Become, Asked, NoJob, FilesTyped
    <3> QED
      BY <2>1, <2>3, <3>1, <3>2, AppendInbox DEF RequestEntry, Send
  <2> QED
    BY <1>8, <2>2, <2>3 DEF RequestDisplay, RequestAll, worker
<1>9. ASSUME NEW t \in Tasks, SchedulerSend(t) PROVE InboxInv'
  <2>1. /\ job[t].pc = "scheduled"
        /\ \A u \in Tasks : job[u].pc = "sent" => job'[u].pc = "sent"
    BY <1>9, OneStays DEF SchedulerSend
  <2>2. CASE UNCHANGED inbox
    BY <2>1, <2>2, SameInbox
  <2>3. CASE Send(t) /\ Goto(t, "sent")
    <3> DEFINE m == [msg |-> "Task", task |-> t]
    <3>1. m \in Message /\ m.task = t
      BY DEF Message
    <3>2. job'[t].pc = "sent"
      BY <2>3 DEF Goto, FilesTyped, Job
    <3> QED
      BY <2>1, <2>3, <3>1, <3>2, AppendInbox DEF Send
  <2> QED
    BY <1>9, <2>2, <2>3 DEF SchedulerSend
<1>10. CASE HandleTask
  <2>1. /\ inbox # <<>> /\ inbox' = Tail(inbox)
        /\ Goto(Head(inbox).task, "queued") \/ End(Head(inbox).task)
        /\ Head(inbox).msg = "Task"
    BY <1>10 DEF HandleTask
  <2>2. \A u \in Tasks : job[u].pc = "sent" /\ u # Head(inbox).task => job'[u].pc = "sent"
    BY <2>1 DEF Goto, End, Become, FilesTyped
  <2> QED
    BY <2>1, <2>2, TailInbox
<1>11. CASE HandleClearPending \/ HandleClearCaches \/ HandleRemove
  <2>1. \A u \in Tasks : job[u].pc = "sent" => job'[u].pc = "sent"
    <3>1. \A u \in Tasks : [job[u] EXCEPT !.flight = FALSE].pc = job[u].pc
      BY DEF FilesTyped, Job
    <3>2. ForgetTasks => \A u \in Tasks : job[u].pc = "sent" => job'[u].pc = "sent"
      BY <3>1 DEF ForgetTasks
    <3>3. HandleRemove => \A u \in Tasks : job[u].pc = "sent" => job'[u].pc = "sent"
      BY <3>1 DEF HandleRemove
    <3> QED
      BY <1>11, <3>2, <3>3 DEF HandleClearPending, HandleClearCaches
  <2>2. inbox # <<>> /\ inbox' = Tail(inbox)
    BY <1>11 DEF HandleClearPending, HandleClearCaches, HandleRemove
  <2> QED
    BY <2>1, <2>2, TailInbox
<1> QED
  BY <1>1, <1>2, <1>3, <1>5, <1>6, <1>7, <1>8, <1>9, <1>10, <1>11
  DEF ArtifactsNext, UiStep, LoopStep

-----------------------------------------------------------------------------
\* The scheduler and the normal loop, with a message about one task.
LEMMA OneTaskInv ==
  ASSUME FilesInv, InboxInv, (\E t \in Tasks : SchedulerSend(t)) \/ HandleTask
  PROVE  FilesInv'
<1>1. ASSUME NEW t \in Tasks, NEW place \in {"sent", "queued"}, Goto(t, place) \/ End(t),
             job[t].pc \in {"scheduled", "sent"}, inbox' \in Seq(Message),
             UNCHANGED <<source, uiVars, events, generations, reserved, pruned, prunes, mem,
                         disk, history>>
      PROVE  FilesInv'
  <2>1. \E k \in Job : Become(t, k) /\ JobOk(k)
    <3>1. job[t] \in Job /\ JobOk(job[t])
      BY JobFacts
    <3>2. CASE Goto(t, place)
      <4>1. JobOk([job[t] EXCEPT !.pc = place])
        BY <1>1, <3>1 DEF Job, JobOk, Remembers, Carries, ReadFrom, MayWrite
      <4>2. place \in Stages
        BY <1>1 DEF Stages
      <4> QED
        BY <3>2, <4>1, <4>2, GotoType
    <3>3. CASE End(t)
      BY <3>3, EndedOk DEF End
    <3> QED
      BY <1>1, <3>2, <3>3
  <2> QED
    BY <1>1, <2>1, TaskInv DEF uiVars, FilesInv, FilesTyped, DiskInv
<1>2. ASSUME NEW t \in Tasks, SchedulerSend(t) PROVE FilesInv'
  <2>1. inbox' \in Seq(Message)
    <3>1. [msg |-> "Task", task |-> t] \in Message
      BY DEF Message
    <3>2. inbox \in Seq(Message)
      BY DEF FilesInv, FilesTyped
    <3> QED
      BY <1>2, <3>1, <3>2 DEF SchedulerSend, Send
  <2> QED
    BY <1>1, <1>2, <2>1 DEF SchedulerSend
<1>3. CASE HandleTask
  <2>1. /\ Head(inbox) \in Message /\ Head(inbox).msg = "Task"
        /\ inbox' \in Seq(Message)
    BY <1>3, InboxType DEF HandleTask
  <2>2. Head(inbox).task \in Tasks
    BY <2>1 DEF Message
  <2>3. job[Head(inbox).task].pc = "sent"
    <3>1. inbox \in Seq(Message) /\ inbox # <<>>
      BY <1>3 DEF HandleTask, FilesInv, FilesTyped
    <3>2. Head(inbox) = inbox[1] /\ 1 \in 1 .. Len(inbox)
      BY <3>1
    <3> QED
      BY <2>1, <3>2 DEF InboxInv
  <2> QED
    BY <1>1, <1>3, <2>1, <2>2, <2>3 DEF HandleTask
<1> QED
  BY <1>2, <1>3

\* The messages that clear and remove.
LEMMA ClearMessageInv ==
  ASSUME FilesInv, HandleClearPending \/ HandleClearCaches \/ HandleRemove
  PROVE  FilesInv'
<1>1. job' \in [Tasks -> Job] /\ \A t \in Tasks : JobOk(job'[t])
  <2>1. CASE ForgetTasks
    BY <2>1, ForgetTasksOk
  <2>2. CASE HandleRemove
    BY <2>2, JobFacts, EndedOk DEF HandleRemove
  <2> QED
    BY <2>1, <2>2 DEF HandleClearPending, HandleClearCaches
<1>2. UNCHANGED <<source, uiVars, events, generations, prunes, disk, history>>
  BY DEF HandleClearPending, HandleClearCaches, HandleRemove
<1>3. inbox' \in Seq(Message)
  BY InboxType DEF HandleClearPending, HandleClearCaches, HandleRemove
<1>4. /\ reserved' \subseteq Key /\ pruned' \subseteq Books \X Nat
      /\ mem' \in [Books -> Nat]
  <2>1. /\ reserved \subseteq Key /\ pruned \subseteq Books \X Nat
        /\ mem \in [Books -> Nat]
    BY DEF FilesInv, FilesTyped
  <2>2. CASE HandleClearPending
    BY <2>1, <2>2 DEF HandleClearPending
  <2>3. CASE HandleClearCaches
    BY <2>1, <2>3 DEF HandleClearCaches, NoRevision
  <2>4. CASE HandleRemove
    <3>1. /\ reserved' \subseteq reserved /\ pruned' \subseteq pruned
      BY <2>4 DEF HandleRemove
    <3>2. mem' = [mem EXCEPT ![Head(inbox).book] = NoRevision]
      BY <2>4 DEF HandleRemove
    <3>3. mem' \in [Books -> Nat]
      BY <2>1, <3>2 DEF NoRevision
    <3> QED
      BY <2>1, <3>1, <3>3
  <2> QED
    BY <2>2, <2>3, <2>4
<1>5. JobsInv'
  BY <1>1, <1>2 DEF JobsInv, JobOk, Remembers, Carries, ReadFrom, MayWrite, generations, history
<1>6. FilesTyped'
  BY <1>1, <1>2, <1>3, <1>4, JobsTypeOK DEF JobOk, FilesInv, FilesTyped, uiVars,
      generations, history
<1>7. CountersInv' /\ DiskInv'
  BY <1>2 DEF FilesInv, CountersInv, DiskInv, ArtifactOk, uiVars, generations, history
<1> QED
  BY <1>5, <1>6, <1>7 DEF FilesInv

\* What the counters and the lists of the Library are before a step of the user.
LEMMA UserFacts ==
  ASSUME FilesInv
  PROVE  /\ generation \in Nat /\ artifactGeneration \in Nat /\ events \in Nat
         /\ bookGeneration \in [Books -> Nat] /\ source \in [Books -> Nat]
         /\ seen \in [Books -> Nat] /\ forced \in [Books -> BOOLEAN]
         /\ ui \in [step : {"idle", "clear", "remove"}, book : Books]
         /\ cleared \in Nat /\ removed \in [Books -> Nat] /\ floor \in [Books -> Nat]
         /\ CountersInv
  BY DEF FilesInv, FilesTyped, Revisions

\* What the user does bumps a counter first: no task gets younger by it.
LEMMA RaiseInv ==
  ASSUME FilesInv, LeaveFolder \/ ClearCache \/ \E b \in Books : ClearBook(b)
  PROVE  FilesInv'
<1>1. job' \in [Tasks -> Job] /\ \A t \in Tasks : JobOk(job'[t])
  BY EmptyMailboxOk DEF LeaveFolder, ClearCache, ClearBook
<1>2. UNCHANGED <<source, reserved, pruned, prunes, mem, disk, history>>
  BY DEF LeaveFolder, ClearCache, ClearBook
<1>3. /\ \/ generation' = generation + 1
         \/ UNCHANGED <<generation, artifactGeneration>>
      /\ generation' \in Nat /\ artifactGeneration' \in Nat
      /\ artifactGeneration <= artifactGeneration' /\ artifactGeneration' <= generation'
      /\ bookGeneration' \in [Books -> Nat]
      /\ \A b \in Books : bookGeneration[b] <= bookGeneration'[b]
  <2>1. CASE LeaveFolder
    BY <2>1, UserFacts DEF LeaveFolder, CountersInv
  <2>2. CASE ClearCache
    BY <2>2, UserFacts DEF ClearCache, CountersInv
  <2>3. ASSUME NEW b \in Books, ClearBook(b)
        PROVE  /\ UNCHANGED <<generation, artifactGeneration>>
               /\ bookGeneration' \in [Books -> Nat]
               /\ \A c \in Books : bookGeneration[c] <= bookGeneration'[c]
    <3>1. /\ UNCHANGED <<generation, artifactGeneration>>
          /\ bookGeneration' = [bookGeneration EXCEPT ![b] = bookGeneration[b] + 1]
      BY <2>3 DEF ClearBook
    <3> QED
      BY <3>1, UserFacts
  <2> QED
    BY <2>1, <2>2, <2>3, UserFacts DEF CountersInv
<1>4. ASSUME NEW t \in Tasks PROVE JobOk(job[t])'
  <2>1. job'[t] \in Job /\ JobOk(job'[t])
    BY <1>1
  <2>2. generation \in Nat /\ bookGeneration \in [Books -> Nat]
    BY UserFacts
  <2> QED
    BY <1>2, <1>3, <2>1, <2>2 DEF Job, JobOk, Remembers, Carries, ReadFrom, MayWrite, history
<1>5. /\ seen' \in [Books -> Nat] /\ forced' \in [Books -> BOOLEAN]
      /\ \A b \in Books : seen'[b] <= source[b]
  <2>1. CASE LeaveFolder
    BY <2>1, UserFacts DEF LeaveFolder, NoRevision
  <2>2. CASE ClearCache
    BY <2>2, UserFacts DEF ClearCache, CountersInv
  <2>3. ASSUME NEW b \in Books, ClearBook(b)
        PROVE  UNCHANGED seen /\ forced' \in [Books -> BOOLEAN]
    BY <2>3, UserFacts DEF ClearBook
  <2> QED
    BY <2>1, <2>2, <2>3, UserFacts DEF CountersInv
<1>6. ui' \in [step : {"idle", "clear", "remove"}, book : Books]
  <2>1. CASE LeaveFolder
    BY <2>1, UserFacts DEF LeaveFolder
  <2>2. CASE ClearCache
    BY <2>2, UserFacts DEF ClearCache
  <2>3. ASSUME NEW b \in Books, ClearBook(b)
        PROVE  ui' \in [step : {"idle", "clear", "remove"}, book : Books]
    BY <2>3 DEF ClearBook
  <2> QED
    BY <2>1, <2>2, <2>3
<1>7. events' \in Nat
  <2>1. Event
    BY DEF LeaveFolder, ClearCache, ClearBook
  <2> QED
    BY <2>1, UserFacts DEF Event
<1>8. inbox' \in Seq(Message)
  <2>1. [msg |-> "ClearPending"] \in Message /\ [msg |-> "ClearCaches"] \in Message
    BY DEF Message
  <2>2. \A b \in Books : [msg |-> "RemoveArchiveCache", book |-> b] \in Message
    BY DEF Message
  <2>3. \E m \in Message : inbox' = Append(inbox, m)
    BY <2>1, <2>2 DEF LeaveFolder, ClearCache, ClearBook
  <2> QED
    BY <2>3, InboxType
<1>9. FilesTyped'
  <2>1. /\ source' \in [Books -> Revisions] /\ reserved' \subseteq Key
        /\ pruned' \subseteq Books \X Nat /\ prunes' \subseteq Books \X Nat
        /\ mem' \in [Books -> Nat] /\ disk' \subseteq Artifact
        /\ cleared' \in Nat /\ removed' \in [Books -> Nat] /\ floor' \in [Books -> Nat]
    BY <1>2 DEF FilesInv, FilesTyped, history
  <2>2. \A t \in Tasks : Carries(job'[t])
    BY <1>1 DEF JobOk
  <2> QED
    BY <1>1, <1>3, <1>5, <1>6, <1>7, <1>8, <2>1, <2>2, JobsTypeOK
<1>10. CountersInv'
  <2>1. ASSUME NEW b \in Books
        PROVE  /\ removed'[b] <= bookGeneration'[b] /\ floor'[b] <= source'[b]
               /\ seen'[b] <= source'[b]
    BY <1>2, <1>3, <1>5, UserFacts DEF CountersInv, history
  <2>2. artifactGeneration' <= generation' /\ cleared' <= artifactGeneration'
    BY <1>2, <1>3, UserFacts DEF CountersInv, history
  <2> QED
    BY <2>1, <2>2 DEF CountersInv
<1>11. DiskInv'
  BY <1>2 DEF FilesInv, DiskInv, ArtifactOk, history
<1> QED
  BY <1>4, <1>9, <1>10, <1>11 DEF FilesInv, JobsInv

\* Whoever empties or prunes the disk has the gate: no task is about to write.
LEMMA EmptiedInv ==
  ASSUME FilesInv, ClearDisk \/ RemoveDisk \/ \E p \in prunes : Prune(p)
  PROVE  FilesInv'
<1>0. /\ disk \subseteq Artifact /\ prunes \subseteq Books \X Nat
      /\ \A a \in disk : ArtifactOk(a) /\ a.book \in Books /\ a.revision \in Nat
  BY DEF FilesInv, FilesTyped, DiskInv, Artifact
<1>1. GateFree /\ UNCHANGED <<source, generations, job>>
  BY DEF ClearDisk, RemoveDisk, Prune
<1>2. JobsInv'
  BY <1>1 DEF FilesInv, JobsInv, JobOk, Remembers, Carries, ReadFrom, MayWrite, GateFree, InGate,
     generations
\* Pruning: the revision is still that of the file, or nothing is done.
<1>3. ASSUME NEW p \in prunes, Prune(p)
      PROVE  /\ UNCHANGED <<cleared, removed, seen>>
             /\ floor' \in [Books -> Nat] /\ disk' \subseteq disk
             /\ \A b \in Books : floor'[b] <= source[b]
             /\ \A a \in disk' : a.what # "failure" => a.revision >= floor'[a.book]
  <2>1. p[1] \in Books /\ p[2] \in Nat
    BY <1>0, <1>3
  <2>2. UNCHANGED <<cleared, removed, seen>>
    BY <1>3 DEF Prune, uiVars
  <2>3. CASE UNCHANGED <<disk, floor>>
    BY <1>0, <2>2, <2>3, UserFacts DEF ArtifactOk, CountersInv
  <2>4. CASE /\ p[2] = source[p[1]]
             /\ disk' = {a \in disk : a.book = p[1] => a.revision = p[2]}
             /\ floor' = [floor EXCEPT ![p[1]] = p[2]]
    <3>1. /\ floor' \in [Books -> Nat]
          /\ \A b \in Books : floor'[b] = IF b = p[1] THEN p[2] ELSE floor[b]
      BY <2>1, <2>4, UserFacts
    <3>2. \A b \in Books : floor'[b] <= source[b]
      BY <2>4, <3>1, UserFacts DEF CountersInv
    <3>3. ASSUME NEW a \in disk', a.what # "failure" PROVE a.revision >= floor'[a.book]
      <4>1. /\ a \in disk
            /\ a.book = p[1] => a.revision = p[2]
        BY <2>4
      <4>2. a.book \in Books /\ a.revision \in Nat /\ a.revision >= floor[a.book]
        BY ONLY <1>0, <3>3, <4>1 DEF ArtifactOk
      <4>3. CASE a.book = p[1]
        <5>1. floor'[a.book] = p[2] /\ a.revision = p[2]
          BY <3>1, <4>1, <4>2, <4>3
        <5> QED
          BY <2>1, <5>1
      <4>4. CASE a.book # p[1]
        <5>1. floor'[a.book] = floor[a.book]
          BY <3>1, <4>2, <4>4
        <5> QED
          BY <4>2, <5>1
      <4> QED
        BY <4>3, <4>4
    <3> QED
      BY <2>2, <2>4, <3>1, <3>2, <3>3
  <2> QED
    BY <1>3, <2>3, <2>4 DEF Prune
<1>4. ASSUME NEW p \in prunes, Prune(p) PROVE FilesInv'
  <2>1. CountersInv'
    BY <1>1, <1>3, <1>4, UserFacts DEF CountersInv, generations
  <2>2. DiskInv'
    BY <1>0, <1>3, <1>4 DEF DiskInv, ArtifactOk
  <2>3. FilesTyped'
    <3>1. /\ prunes' \subseteq Books \X Nat
          /\ UNCHANGED <<source, uiVars, events, generations, inbox, reserved, pruned, mem, job,
                         cleared, removed>>
      BY <1>0, <1>4 DEF Prune
    <3>2. floor' \in [Books -> Nat] /\ disk' \subseteq Artifact
      BY <1>0, <1>3, <1>4
    <3> QED
      BY <3>1, <3>2 DEF FilesInv, FilesTyped, uiVars, generations
  <2> QED
    BY <1>2, <2>1, <2>2, <2>3 DEF FilesInv
<1>5. CASE ClearDisk
  <2>1. /\ disk' = {} /\ cleared' = artifactGeneration
        /\ UNCHANGED <<source, seen, events, generations, worker, mem, job, removed, floor>>
    BY <1>5 DEF ClearDisk
  <2>2. CountersInv'
    BY <2>1, UserFacts DEF CountersInv, generations
  <2>3. DiskInv'
    BY <2>1 DEF DiskInv
  <2>4. /\ ui' \in [step : {"idle", "clear", "remove"}, book : Books]
        /\ forced' \in [Books -> BOOLEAN] /\ cleared' \in Nat
    BY <1>5, <2>1, SomeBook, UserFacts DEF ClearDisk, UiIdle
  <2>5. FilesTyped'
    BY <2>1, <2>4 DEF FilesInv, FilesTyped, generations, worker
  <2> QED
    BY <1>2, <2>2, <2>3, <2>5 DEF FilesInv
<1>6. CASE RemoveDisk
  <2> DEFINE c == ui.book
  <2>1. /\ disk' = {a \in disk : a.book # c}
        /\ removed' = [removed EXCEPT ![c] = bookGeneration[c]]
        /\ UNCHANGED <<source, seen, forced, events, generations, worker, mem, job, cleared,
                       floor>>
    BY <1>6 DEF RemoveDisk
  <2>2. /\ c \in Books /\ bookGeneration[c] \in Nat
        /\ removed' \in [Books -> Nat]
        /\ \A b \in Books : removed'[b] = IF b = c THEN bookGeneration[c] ELSE removed[b]
    BY <2>1, UserFacts
  <2>3. CountersInv'
    BY <2>1, <2>2, UserFacts DEF CountersInv, generations
  <2>4. DiskInv'
    BY <1>0, <2>1, <2>2 DEF DiskInv, ArtifactOk
  <2>5. ui' \in [step : {"idle", "clear", "remove"}, book : Books]
    BY <1>6, SomeBook DEF RemoveDisk, UiIdle
  <2>6. FilesTyped'
    BY <2>1, <2>2, <2>5 DEF FilesInv, FilesTyped, generations, worker
  <2> QED
    BY <1>2, <2>3, <2>4, <2>6 DEF FilesInv
<1> QED
  BY <1>4, <1>5, <1>6

-----------------------------------------------------------------------------
(* The specification. *)

\* Every step keeps the invariant: the file of a book changes, the user or a loop
\* of the worker does something, or a task moves on.
LEMMA StepInv ==
  ASSUME FilesInv, InboxInv, [ArtifactsNext]_artifactVars
  PROVE  FilesInv' /\ InboxInv'
<1>1. CASE ArtifactsNext
  <2>1. InboxInv'
    BY <1>1, InboxStepInv DEF FilesInv
  <2>2. ASSUME NEW b \in Books, ReplaceSource(b) \/ Scan(b) PROVE FilesInv'
    BY <2>2, SourceInv
  <2>3. CASE UiStep
    <3>1. ASSUME NEW t \in Tasks, NEW b \in Books,
                 RequestDisplay(t, b) \/ RequestEntry(t, b) \/ RequestAll(t, b)
          PROVE  FilesInv'
      BY <3>1, RequestInv
    <3>2. CASE LeaveFolder \/ ClearCache \/ \E b \in Books : ClearBook(b)
      BY <2>1, <3>2, RaiseInv
    <3>3. CASE ClearDisk \/ RemoveDisk
      BY <2>1, <3>3, EmptiedInv
    <3> QED
      BY <2>1, <2>2, <2>3, <3>1, <3>2, <3>3 DEF UiStep
  <2>4. CASE LoopStep
    <3>1. CASE (\E t \in Tasks : SchedulerSend(t)) \/ HandleTask
      BY <2>1, <3>1, OneTaskInv
    <3>2. CASE HandleClearPending \/ HandleClearCaches \/ HandleRemove
      BY <2>1, <3>2, ClearMessageInv
    <3>3. CASE \E p \in prunes : Prune(p)
      BY <2>1, <3>3, EmptiedInv
    <3> QED
      BY <2>4, <3>1, <3>2, <3>3 DEF LoopStep
  <2>5. ASSUME NEW t \in Tasks, ThumbStep(t) \/ PageMapStep(t) PROVE FilesInv'
    <3>1. CASE ThumbStep(t)
      BY <3>1, ThumbInv
    <3>2. CASE PageMapStep(t)
      BY <3>2, PageMapInv
    <3> QED
      BY <2>5, <3>1, <3>2
  <2> QED
    BY <1>1, <2>1, <2>2, <2>3, <2>4, <2>5 DEF ArtifactsNext
<1>2. CASE UNCHANGED artifactVars
  BY <1>2, ZenonT(60) DEF artifactVars, uiVars, generations, worker, history, FilesInv, FilesTyped,
      CountersInv, JobsInv,
     JobOk, Remembers, Carries, ReadFrom, MayWrite, DiskInv, ArtifactOk, InboxInv
<1> QED
  BY <1>1, <1>2

\* The invariant, and with it that a message is about a task nobody works on.
THEOREM ArtifactsCorrect == ArtifactsSpec => [](FilesInv /\ InboxInv)
<1>1. ArtifactsInit => FilesInv /\ InboxInv
  BY FilesInitially DEF ArtifactsInit, InboxInv
<1>2. FilesInv /\ InboxInv /\ [ArtifactsNext]_artifactVars => (FilesInv /\ InboxInv)'
  BY StepInv
<1> QED
  BY <1>1, <1>2, PTL DEF ArtifactsSpec

\* Every variable keeps its type, and a task is registered as in flight only while
\* it is being worked on and has not been answered (in_flight_tasks).
THEOREM ArtifactsTypeCorrect == ArtifactsSpec => []FilesTyped
<1>1. FilesInv => FilesTyped
  BY DEF FilesInv
<1> QED
  BY <1>1, ArtifactsCorrect, PTL

\* "Clear cache" is for good: no thumbnail or page map asked for before the disk
\* caches were emptied is on the disk afterwards.
THEOREM ClearedCorrect == ArtifactsSpec => []ClearedIsGone
<1>1. FilesInv => ClearedIsGone
  BY DEF FilesInv, DiskInv, ArtifactOk, ClearedIsGone, Made
<1> QED
  BY <1>1, ArtifactsCorrect, PTL

\* Clearing the data of a book is for good: none of the three disk caches has a
\* file of it from before, the marks of failed page maps included.
THEOREM RemovedCorrect == ArtifactsSpec => []RemovedIsGone
<1>1. FilesInv => RemovedIsGone
  BY DEF FilesInv, DiskInv, ArtifactOk, RemovedIsGone
<1> QED
  BY <1>1, ArtifactsCorrect, PTL

\* Pruning is for good: no thumbnail or page map of an older revision comes back.
THEOREM PrunedCorrect == ArtifactsSpec => []PrunedIsGone
<1>1. FilesInv => PrunedIsGone
  BY DEF FilesInv, DiskInv, ArtifactOk, PrunedIsGone, Made
<1> QED
  BY <1>1, ArtifactsCorrect, PTL

\* What is filed under a revision of a book was made from that revision.
THEOREM FiledCorrect == ArtifactsSpec => []FiledUnderItsRevision
<1>1. FilesInv => FiledUnderItsRevision
  BY DEF FilesInv, DiskInv, ArtifactOk, FiledUnderItsRevision, Made
<1> QED
  BY <1>1, ArtifactsCorrect, PTL
=============================================================================
