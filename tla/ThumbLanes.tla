----------------------------- MODULE ThumbLanes -----------------------------
(***************************************************************************)
(* The arbitration of thumbnail permits between the image lane and the     *)
(* video lane (infra/worker/thumb_worker.rs): ThumbnailLaneState, the      *)
(* display mailbox as far as the lanes see it, acquire_thumbnail_permit    *)
(* and the three loops that call it.                                       *)
(*                                                                         *)
(* The loops and the completions of jobs run on ONE current-thread tokio   *)
(* runtime, so between two awaits only the UI thread and the background    *)
(* scheduler thread interleave with them (ThreadFree).  The counters of    *)
(* the code are usize: the equalities of Accounting are what keeps them    *)
(* from wrapping below zero.                                               *)
(***************************************************************************)
EXTENDS Integers, FiniteSets

CONSTANTS
    BaseGoal,       \* permits of the physical semaphore (base_goal)
    MaxQueue,       \* bound: requests in one channel
    MaxMailbox,     \* bound: tasks of one replace_display_tasks call
    UsedChannels,   \* the channels that carry requests in this instance
    MaxControls,    \* bound: Clear/Remove messages handled by the loops
    CanShutdown     \* whether the user closes the library in this instance

ASSUME BaseGoalAssumption == BaseGoal \in 2 .. 8
ASSUME BoundsAssumption ==
    MaxQueue \in Nat /\ MaxMailbox \in Nat /\ MaxControls \in Nat
ASSUME CanShutdownAssumption == CanShutdown \in BOOLEAN

Lanes == {"image", "video"}
NoLane == "none"
Channels == {"image", "video", "videoBackground"}
ASSUME UsedChannelsAssumption == UsedChannels \subseteq Channels
Loops == {"normal", "display", "video"}
Media == {"hdd", "ssd", "unknown"}
Phases == {"open", "closing", "shutdown"}

\* Where a loop is.  "entered": about to look for the first time in
\* acquire_thumbnail_permit; "waiting": asleep in it; "mailwait": the normal loop
\* waits for the mailbox to drain; "admitted": may_start said yes and the permit is taken, try_started
\* not yet called; "holding": permit and running guard owned, the task not yet
\* spawned; "retiring": the normal loop gave both back and still counts its
\* request; "spawning"/"dropping": what the display loop does with the permit
\* once it has taken a task out of the mailbox.
Places == {"idle", "entered", "waiting", "mailwait", "admitted", "holding", "retiring",
           "spawning", "dropping", "stopped"}
Owning == {"holding", "spawning", "dropping"}   \* running, but no job yet

VARIABLES
    pending,        \* lane -> pending_requests
    waiting,        \* lane -> loops inside acquire_thumbnail_permit
    running,        \* lane -> LaneRunningGuards alive
    credit,         \* lane -> completion credit
    startPending,   \* the lane owed the next start, or NoLane
    goal,           \* global_goal
    permits,        \* permits left in the semaphore
    jobs,           \* lane -> spawned tasks that still own a permit
    fresh,          \* lane -> those of them the runtime has not polled yet
    behind,         \* loop -> lane -> fresh tasks queued behind that woken loop
    mailbox,        \* tasks in the display mailbox
    replacing,      \* the UI thread is inside replace(), mailbox locked
    chan,           \* channel -> Task requests queued in it
    pc,             \* loop -> place
    woken,          \* loop -> its Notified future has fired
    controls,       \* Clear/Remove messages still to come
    phase           \* shutdown(): not called, mailbox closed, messages sent

counters == <<pending, waiting, running>>
rest == <<credit, startPending>>
runtime == <<jobs, fresh, behind>>
mail == <<mailbox, replacing>>
world == <<controls, phase>>
vars == <<pending, waiting, running, credit, startPending, goal, permits, jobs,
          fresh, behind, mailbox, replacing, chan, pc, woken, controls, phase>>

Other(l) == IF l = "image" THEN "video" ELSE "image"
LaneOf(k) == IF k = "video" THEN "video" ELSE "image"
LaneOfChannel(c) == IF c = "image" THEN "image" ELSE "video"
Asking == {"entered", "waiting", "mailwait", "admitted"}

-----------------------------------------------------------------------------
(* ThumbnailLaneState *)

RunningTotal == running["image"] + running["video"]

\* update_global_goal: the goal a storage medium gives.
GoalFor(medium) ==
    LET wanted == IF medium = "hdd" THEN (IF BaseGoal < 2 THEN BaseGoal ELSE 2)
                  ELSE BaseGoal
    IN IF wanted < 1 THEN 1 ELSE wanted

\* Mutant: the credit survives the empty boundary.
ClearedAtBoundaryNever(c, l, p, w, r) == c

\* clear_completion_credit_at_empty_boundary on lane l.
ClearedAtBoundary(c, l, p, w, r) ==
    IF p[l] = 0 /\ w[l] = 0 /\ r[l] = 0 THEN [c EXCEPT ![l] = 0] ELSE c

Starved(l, w, r) == w[l] > 0 /\ r[l] = 0 /\ r[Other(l)] > 0

\* Mutant of refresh_start_pending: the mark is never given.
RefreshedNever(sp, w, r) == NoLane

\* refresh_start_pending.
Refreshed(sp, w, r) ==
    LET kept == sp # NoLane /\ w[sp] > 0 /\ r[Other(sp)] > 0
    IN IF kept THEN sp
       ELSE IF Starved("image", w, r) THEN "image"
       ELSE IF Starved("video", w, r) THEN "video"
       ELSE NoLane

\* may_start.
MayStart(l) ==
    /\ RunningTotal < goal
    /\ IF startPending # NoLane
       THEN startPending = l
       ELSE (credit["image"] = 0 /\ credit["video"] = 0) \/ credit[l] > 0

\* wake.notify_waiters() of the lanes, of the mailbox.
LaneSleepers == {k \in Loops : pc[k] \in Asking \ {"mailwait"}}
MailSleepers == {k \in {"normal", "display"} : pc[k] \in Asking}
WakeAll(sleepers) == woken' = [k \in Loops |-> woken[k] \/ k \in sleepers]
\* The same from loop j, which leaves acquire_thumbnail_permit with this step.
WakeAllBut(j, sleepers) ==
    woken' = [k \in Loops |-> k # j /\ (woken[k] \/ k \in sleepers)]

\* The tail every lane operation ends with, after it changed the counters:
\* clear the credit of lane l at the empty boundary, then refresh.
Settle(l, c, sp) ==
    /\ credit' = ClearedAtBoundary(c, l, pending', waiting', running')
    /\ startPending' = Refreshed(sp, waiting', running')

\* retire_request_pending, n times in a row (n = 0: not called at all).
Retire(l, n) ==
    /\ pending' = [pending EXCEPT ![l] = @ - n]
    /\ IF n = 0 THEN UNCHANGED <<credit, startPending>>
       ELSE Settle(l, credit, startPending)

\* reset_transient: no refresh.
ResetTransient ==
    /\ startPending' = NoLane
    /\ credit' = [l \in Lanes |-> 0]

-----------------------------------------------------------------------------
Init ==
    /\ pending = [l \in Lanes |-> 0]
    /\ waiting = [l \in Lanes |-> 0]
    /\ running = [l \in Lanes |-> 0]
    /\ credit = [l \in Lanes |-> 0]
    /\ startPending = NoLane
    /\ goal = BaseGoal
    /\ permits = BaseGoal
    /\ jobs = [l \in Lanes |-> 0]
    /\ fresh = [l \in Lanes |-> 0]
    /\ behind = [k \in Loops |-> [l \in Lanes |-> 0]]
    /\ mailbox = 0
    /\ replacing = FALSE
    /\ chan = [c \in Channels |-> 0]
    /\ pc = [k \in Loops |-> "idle"]
    /\ woken = [k \in Loops |-> FALSE]
    /\ controls = MaxControls
    /\ phase = "open"

\* No loop of the runtime is between two awaits.
ThreadFree ==
    \A k \in Loops : pc[k] \notin Owning \cup {"entered", "admitted", "retiring"}

-----------------------------------------------------------------------------
(* The UI thread and the background scheduler thread *)

\* update_global_goal
UpdateGlobalGoal(medium) ==
    /\ phase = "open" /\ ~replacing
    /\ goal' = GoalFor(medium)
    /\ IF goal' = goal THEN UNCHANGED woken ELSE WakeAll(LaneSleepers)
    /\ UNCHANGED <<counters, rest, permits, runtime, mail, chan, pc, world>>

\* request, request_video, and the two sends of background_scheduler_loop,
\* whose thread is joined only in the middle of shutdown().
Submit(c) ==
    /\ CASE c = "image" -> phase # "shutdown"
         [] c = "video" -> phase = "open" /\ ~replacing
         [] c = "videoBackground" -> phase # "shutdown"
    /\ c \in UsedChannels /\ chan[c] < MaxQueue
    /\ pending' = [pending EXCEPT ![LaneOfChannel(c)] = @ + 1]
    /\ chan' = [chan EXCEPT ![c] = @ + 1]
    /\ UNCHANGED <<waiting, running, rest, goal, permits, runtime, mail, pc,
                   woken, world>>

\* replace, first half: the mailbox is locked and every pending task retired.
ReplaceBegin ==
    /\ phase = "open" /\ ~replacing
    /\ replacing' = TRUE
    /\ mailbox' = 0
    /\ UNCHANGED <<waiting, running, goal, permits, runtime, chan, pc, world>>
    /\ Retire("image", mailbox)
    /\ WakeAll(IF mailbox = 0 THEN {} ELSE LaneSleepers)

\* replace, second half: n new tasks marked, the mailbox unlocked.
ReplaceEnd(n) ==
    /\ replacing
    /\ replacing' = FALSE
    /\ mailbox' = n
    /\ pending' = [pending EXCEPT !["image"] = @ + n]
    /\ WakeAll(MailSleepers)
    /\ UNCHANGED <<waiting, running, rest, goal, permits, runtime, chan, pc,
                   world>>

\* remove_by_book_id: n of the pending tasks belong to the book.
RemoveDisplayTasks(n) ==
    /\ phase = "open" /\ ~replacing
    /\ n <= mailbox
    /\ mailbox' = mailbox - n
    /\ UNCHANGED <<waiting, running, goal, permits, runtime, replacing, chan, pc,
                   world>>
    /\ Retire("image", n)
    /\ WakeAll(MailSleepers \cup (IF n = 0 THEN {} ELSE LaneSleepers))

\* Mutant: close() empties the mailbox without a notify_waiters of its own.
CloseMailboxSilent ==
    /\ CanShutdown
    /\ phase = "open" /\ ~replacing
    /\ phase' = "closing"
    /\ mailbox' = 0
    /\ UNCHANGED <<waiting, running, goal, permits, runtime, replacing, chan, pc,
                   controls>>
    /\ Retire("image", mailbox)
    /\ WakeAll(IF mailbox = 0 THEN {} ELSE LaneSleepers)

\* shutdown(), up to display_mailbox.close().
CloseMailbox ==
    /\ CanShutdown
    /\ phase = "open" /\ ~replacing
    /\ phase' = "closing"
    /\ mailbox' = 0
    /\ UNCHANGED <<waiting, running, goal, permits, runtime, replacing, chan, pc,
                   controls>>
    /\ Retire("image", mailbox)
    /\ WakeAll(MailSleepers \cup (IF mailbox = 0 THEN {} ELSE LaneSleepers))

\* shutdown(), after the scheduler thread is joined: one Shutdown message at
\* the end of each channel.
SendShutdown ==
    /\ phase = "closing"
    /\ phase' = "shutdown"
    /\ UNCHANGED <<counters, rest, goal, permits, runtime, mail, chan, pc, woken,
                   controls>>

-----------------------------------------------------------------------------
(* acquire_thumbnail_permit *)

\* Entering it: mark_waiting, which wakes nobody.
Enter(k) ==
    LET l == LaneOf(k) IN
    /\ waiting' = [waiting EXCEPT ![l] = @ + 1]
    /\ startPending' = Refreshed(startPending, waiting', running)
    /\ pc' = [pc EXCEPT ![k] = "entered"]
    /\ woken' = [woken EXCEPT ![k] = FALSE]
    /\ UNCHANGED <<pending, running, credit, goal, permits, runtime, mail, world>>

\* The loop k turns, at once on entering and later when it was notified.
Looks(k) ==
    \/ pc[k] = "entered"
    \/ ThreadFree /\ pc[k] \in {"waiting", "mailwait"} /\ woken[k]

\* One turn of its loop up to the permit: the display gate of the normal loop,
\* may_start and try_acquire_owned; without a permit the loop awaits.
Poll(k) ==
    /\ Looks(k)
    /\ k # "video" => ~replacing
    /\ k = "display" => mailbox > 0
    /\ LET gated == k = "normal" /\ mailbox > 0
           admit == ~gated /\ MayStart(LaneOf(k)) /\ permits > 0
       IN /\ pc' = [pc EXCEPT ![k] = IF gated THEN "mailwait"
                                     ELSE IF admit THEN "admitted"
                                     ELSE "waiting"]
          /\ permits' = IF admit THEN permits - 1 ELSE permits
    /\ woken' = [woken EXCEPT ![k] = FALSE]
    /\ behind' = [behind EXCEPT ![k] = [l \in Lanes |-> 0]]
    /\ UNCHANGED <<counters, rest, goal, jobs, fresh, mail, chan, world>>

\* The display loop finds its mailbox empty: cancel_waiting.
DisplayCancel ==
    /\ Looks("display")
    /\ ~replacing /\ mailbox = 0
    /\ waiting' = [waiting EXCEPT !["image"] = @ - 1]
    /\ pc' = [pc EXCEPT !["display"] = "idle"]
    /\ UNCHANGED <<pending, running, goal, permits, jobs, fresh, mail, chan, world>>
    /\ Settle("image", credit, startPending)
    /\ WakeAllBut("display", LaneSleepers)
    /\ behind' = [behind EXCEPT !["display"] = [l \in Lanes |-> 0]]

\* Mutant: the permit is not dropped when try_started refuses.
StartRefusedLeak(k) ==
    /\ pc[k] = "admitted"
    /\ RunningTotal >= goal
    /\ pc' = [pc EXCEPT ![k] = "waiting"]
    /\ UNCHANGED <<counters, rest, goal, permits, runtime, mail, chan, woken, world>>

\* try_started finds the goal used up: it was lowered since may_start.
StartRefused(k) ==
    /\ pc[k] = "admitted"
    /\ RunningTotal >= goal
    /\ permits' = permits + 1
    /\ pc' = [pc EXCEPT ![k] = "waiting"]
    /\ UNCHANGED <<counters, rest, goal, runtime, mail, chan, woken, world>>

\* What a confirmed start changes, c being the credits left by it.
Started(k, c) ==
    LET l == LaneOf(k) IN
    /\ pc[k] = "admitted"
    /\ pc' = [pc EXCEPT ![k] = "holding"]
    /\ waiting' = [waiting EXCEPT ![l] = @ - 1]
    /\ running' = [running EXCEPT ![l] = @ + 1]
    /\ UNCHANGED <<pending, goal, permits, jobs, fresh, mail, chan, world>>
    /\ Settle(l, c, IF startPending = l THEN NoLane ELSE startPending)
    /\ WakeAllBut(k, LaneSleepers)
    /\ behind' = [behind EXCEPT ![k] = [m \in Lanes |-> 0]]

\* try_started confirms the start: the loop owns permit and running guard.
Start(k) ==
    /\ RunningTotal < goal
    /\ Started(k, [credit EXCEPT ![LaneOf(k)] = IF @ > 0 THEN @ - 1 ELSE 0])

\* Mutant: finished() wakes nobody.
FinishedSilent(l) ==
    /\ permits' = permits + 1
    /\ running' = [running EXCEPT ![l] = @ - 1]
    /\ UNCHANGED <<pending, waiting, goal, woken>>
    /\ Settle(l, [credit EXCEPT ![l] = IF pending[l] > 0 THEN @ + 1 ELSE @],
              startPending)

\* finished() on lane l: permit, then running guard, given back.
Finished(l) ==
    /\ permits' = permits + 1
    /\ running' = [running EXCEPT ![l] = @ - 1]
    /\ UNCHANGED <<pending, waiting, goal>>
    /\ Settle(l, [credit EXCEPT ![l] = IF pending[l] > 0 THEN @ + 1 ELSE @],
              startPending)
    /\ WakeAll(LaneSleepers)

-----------------------------------------------------------------------------
(* Jobs: the tasks spawned by the loops *)

\* A job of lane l is queued behind every loop that is already woken.
Spawned(l) ==
    /\ jobs' = [jobs EXCEPT ![l] = @ + 1]
    /\ fresh' = [fresh EXCEPT ![l] = @ + 1]
    /\ behind' = [k \in Loops |->
                    IF woken[k] THEN [behind[k] EXCEPT ![l] = @ + 1]
                    ELSE behind[k]]

\* First poll of a job (FIFO run queue: the loops ahead of it come first): the
\* decode goes to the blocking pool.
BeginJob(l) ==
    /\ ThreadFree
    /\ \A k \in Loops : fresh[l] > behind[k][l]
    /\ fresh' = [fresh EXCEPT ![l] = @ - 1]
    /\ UNCHANGED <<counters, rest, goal, permits, jobs, behind, mail, chan, pc,
                   woken, world>>

\* A job ends, or its 15 s are over (run_thumb_task).
Finish(l) ==
    /\ ThreadFree
    /\ jobs[l] > fresh[l]
    /\ jobs' = [jobs EXCEPT ![l] = @ - 1]
    /\ Finished(l)
    /\ UNCHANGED <<fresh, behind, mail, chan, pc, world>>

-----------------------------------------------------------------------------
(* The normal loop (k = "normal") and the video loop (k = "video") *)

\* Task requests a loop may receive next: the video loop prefers its visible
\* channel, where Shutdown also arrives.
Receives(k, c) ==
    /\ ThreadFree
    /\ pc[k] = "idle"
    /\ chan[c] > 0
    /\ CASE k = "normal" -> c = "image"
         [] k = "video" -> \/ c = "video"
                           \/ /\ c = "videoBackground"
                              /\ chan["video"] = 0 /\ phase # "shutdown"
         [] OTHER -> FALSE

\* A request that never reaches the permit: an old generation, and for video
\* a cached result, a known failure or a flight already registered.
DropRequest(k, c) ==
    /\ Receives(k, c)
    /\ chan' = [chan EXCEPT ![c] = @ - 1]
    /\ UNCHANGED <<waiting, running, goal, permits, runtime, mail, pc, world>>
    /\ Retire(LaneOf(k), 1)
    /\ WakeAll(LaneSleepers)

\* A request of the current generation: the loop asks for a permit.
AskPermit(k, c) ==
    /\ Receives(k, c)
    /\ phase = "open"
    /\ chan' = [chan EXCEPT ![c] = @ - 1]
    /\ Enter(k)

\* The task is spawned and, at the end of the match arm, its request retired.
Spawn(k) ==
    /\ k # "display"
    /\ pc[k] = "holding"
    /\ Spawned(LaneOf(k))
    /\ pc' = [pc EXCEPT ![k] = "idle"]
    /\ UNCHANGED <<waiting, running, goal, permits, mail, chan, world>>
    /\ Retire(LaneOf(k), 1)
    /\ WakeAll(LaneSleepers)

\* begin_task finds the same task in flight: permit and guard go back while
\* the request is still counted,
NormalDuplicate ==
    /\ pc["normal"] = "holding"
    /\ pc' = [pc EXCEPT !["normal"] = "retiring"]
    /\ Finished("image")
    /\ UNCHANGED <<runtime, mail, chan, world>>

\* and leaving the match arm retires it.
NormalRetire ==
    /\ pc["normal"] = "retiring"
    /\ pc' = [pc EXCEPT !["normal"] = "idle"]
    /\ UNCHANGED <<waiting, running, goal, permits, runtime, mail, chan, world>>
    /\ Retire("image", 1)
    /\ WakeAll(LaneSleepers)

\* ClearPending and ClearCaches: display_mailbox.clear(), then reset_transient
\* (clear() does nothing on a closed mailbox, which is empty).
NormalClear ==
    /\ ThreadFree
    /\ pc["normal"] = "idle" /\ ~replacing
    /\ controls > 0 /\ controls' = controls - 1
    /\ mailbox' = 0
    /\ pending' = [pending EXCEPT !["image"] = @ - mailbox]
    /\ ResetTransient
    /\ WakeAll(LaneSleepers \cup MailSleepers)
    /\ UNCHANGED <<waiting, running, goal, permits, runtime, replacing, chan, pc,
                   phase>>

\* RemoveArchiveCache, RemoveVideoCache; the video loop's ClearCache and
\* RemoveCache.
ResetLane(k) ==
    /\ ThreadFree
    /\ k # "display" /\ pc[k] = "idle"
    /\ controls > 0 /\ controls' = controls - 1
    /\ ResetTransient
    /\ WakeAll(LaneSleepers)
    /\ UNCHANGED <<counters, goal, permits, runtime, mail, chan, pc, phase>>

\* Shutdown, behind every Task of its own channel.
StopLoop(k) ==
    /\ ThreadFree
    /\ k # "display" /\ pc[k] = "idle"
    /\ phase = "shutdown"
    /\ chan[LaneOf(k)] = 0
    /\ pc' = [pc EXCEPT ![k] = "stopped"]
    /\ ResetTransient
    /\ WakeAll(LaneSleepers)
    /\ UNCHANGED <<counters, goal, permits, runtime, mail, chan, world>>

-----------------------------------------------------------------------------
(* The display loop *)

DisplayAsk ==
    /\ ThreadFree
    /\ pc["display"] = "idle"
    /\ ~replacing /\ mailbox > 0
    /\ UNCHANGED chan
    /\ Enter("display")

\* take_next: the first task leaves the mailbox and is retired.
DisplayTake(place) ==
    /\ pc["display"] = "holding"
    /\ ~replacing /\ mailbox > 0
    /\ place = "spawning" => phase = "open"
    /\ mailbox' = mailbox - 1
    /\ pc' = [pc EXCEPT !["display"] = place]
    /\ UNCHANGED <<waiting, running, goal, permits, runtime, replacing, chan,
                   world>>
    /\ Retire("image", 1)
    /\ WakeAll(LaneSleepers \cup MailSleepers)

DisplaySpawn ==
    /\ pc["display"] = "spawning"
    /\ pc' = [pc EXCEPT !["display"] = "idle"]
    /\ Spawned("image")
    /\ UNCHANGED <<counters, rest, goal, permits, mail, chan, woken, world>>

\* Nothing left to take, or the task is stale or already in flight.
DisplayGiveBack ==
    /\ \/ pc["display"] = "dropping"
       \/ pc["display"] = "holding" /\ ~replacing /\ mailbox = 0
    /\ pc' = [pc EXCEPT !["display"] = "idle"]
    /\ Finished("image")
    /\ UNCHANGED <<runtime, mail, chan, world>>

DisplayStop ==
    /\ ThreadFree
    /\ pc["display"] = "idle"
    /\ phase # "open" /\ mailbox = 0
    /\ pc' = [pc EXCEPT !["display"] = "stopped"]
    /\ UNCHANGED <<counters, rest, goal, permits, runtime, mail, chan, woken,
                   world>>

-----------------------------------------------------------------------------
UserStep ==
    \/ \E medium \in Media : UpdateGlobalGoal(medium)
    \/ \E c \in Channels : Submit(c)
    \/ ReplaceBegin
    \/ \E n \in 0 .. MaxMailbox : ReplaceEnd(n)
    \/ \E n \in 0 .. MaxMailbox : RemoveDisplayTasks(n)
    \/ CloseMailbox
    \/ SendShutdown

AcquireStep(k) == Poll(k) \/ StartRefused(k) \/ Start(k)

QueueLoopStep(k) ==
    \/ AcquireStep(k)
    \/ \E c \in Channels : DropRequest(k, c) \/ AskPermit(k, c)
    \/ Spawn(k)
    \/ StopLoop(k)

NormalStep == QueueLoopStep("normal") \/ NormalDuplicate \/ NormalRetire

VideoStep == QueueLoopStep("video")

DisplayStep ==
    \/ AcquireStep("display")
    \/ DisplayCancel
    \/ DisplayAsk
    \/ \E place \in {"spawning", "dropping"} : DisplayTake(place)
    \/ DisplaySpawn
    \/ DisplayGiveBack
    \/ DisplayStop

ControlStep == NormalClear \/ \E k \in {"normal", "video"} : ResetLane(k)

Next ==
    \/ UserStep
    \/ NormalStep
    \/ VideoStep
    \/ DisplayStep
    \/ ControlStep
    \/ \E l \in Lanes : BeginJob(l) \/ Finish(l)

Spec == Init /\ [][Next]_vars

-----------------------------------------------------------------------------
TypeOK ==
    /\ pending \in [Lanes -> Nat]
    /\ waiting \in [Lanes -> Nat]
    /\ running \in [Lanes -> Nat]
    /\ credit \in [Lanes -> Nat]
    /\ startPending \in Lanes \cup {NoLane}
    /\ goal \in 1 .. BaseGoal
    /\ permits \in Nat
    /\ jobs \in [Lanes -> Nat]
    /\ fresh \in [Lanes -> Nat]
    /\ behind \in [Loops -> [Lanes -> Nat]]
    /\ mailbox \in Nat
    /\ replacing \in BOOLEAN
    /\ chan \in [Channels -> Nat]
    /\ pc \in [Loops -> Places]
    /\ woken \in [Loops -> BOOLEAN]
    /\ controls \in Nat
    /\ phase \in Phases

\* 1 if loop k is in one of the places, else 0.
Count(k, places) == IF pc[k] \in places THEN 1 ELSE 0
Counted == Asking \cup {"holding", "retiring"}   \* owns a PendingRequestGuard

\* Every usize counter of ThumbnailLaneState is the number of things it counts:
\* requests queued or in a loop's hands, loops in acquire_thumbnail_permit,
\* guards alive; and the semaphore has lent one permit for each guard and each
\* loop about to get one.  None of the "-= 1" can wrap.
Accounting ==
    /\ pending["image"] = chan["image"] + mailbox + Count("normal", Counted)
    /\ pending["video"] = chan["video"] + chan["videoBackground"]
                            + Count("video", Counted)
    /\ waiting["image"] = Count("normal", Asking) + Count("display", Asking)
    /\ waiting["video"] = Count("video", Asking)
    /\ running["image"] = jobs["image"] + Count("normal", {"holding"})
                            + Count("display", Owning)
    /\ running["video"] = jobs["video"] + Count("video", {"holding"})
    /\ permits + RunningTotal + Count("normal", {"admitted"})
         + Count("display", {"admitted"}) + Count("video", {"admitted"}) = BaseGoal

\* try_acquire_owned never answers NoPermits to a lane that may_start admits:
\* the goal, not the semaphore, is what holds a lane back.
SemaphoreNeverShort ==
    ThreadFree => \A l \in Lanes : MayStart(l) => permits > 0

\* Completion credits cannot accumulate without bound: with the jobs running,
\* a lane never has a claim on more than the whole budget.
CreditBound == \A l \in Lanes : credit[l] + running[l] <= BaseGoal

\* A credit is held only by a lane that still has something to do; otherwise
\* it would bar the other lane for nothing.
CreditHasBacklog ==
    \A l \in Lanes : credit[l] > 0 => pending[l] + waiting[l] + running[l] > 0

\* start_pending names a lane that waits, runs nothing, and is kept waiting by
\* the other lane.
StartPendingIsStarved ==
    startPending # NoLane => Starved(startPending, waiting, running)

\* A lane is put before the other one (by start_pending or by its credits) with
\* reason: the mark and the credits, which only some operations recompute, never
\* outlive the wait or the work they stand for, and do not pile up.
PriorityJustified == StartPendingIsStarved /\ CreditBound /\ CreditHasBacklog

\* No lost wake-up: a loop that sleeps in acquire_thumbnail_permit, and has not
\* been notified since its last look, would not start if it looked again.
NoLostWakeup ==
    /\ \A k \in Loops :
         (pc[k] = "waiting" /\ ~woken[k] /\ ThreadFree) =>
            ~(MayStart(LaneOf(k)) /\ permits > 0)
              \/ (k = "normal" /\ mailbox > 0)
    /\ pc["normal"] = "mailwait" /\ ~woken["normal"] => mailbox > 0 \/ replacing
    /\ pc["display"] = "waiting" /\ ~woken["display"] => mailbox > 0 \/ replacing

\* Loop k does nothing until somebody else does something for it.
Resting(k) ==
    \/ pc[k] = "stopped"
    \/ pc[k] \in {"waiting", "mailwait"} /\ ~woken[k]
    \/ pc[k] = "idle" /\ CASE k = "normal" -> chan["image"] = 0 /\ phase # "shutdown"
                            [] k = "video" -> /\ chan["video"] = 0
                                              /\ chan["videoBackground"] = 0
                                              /\ phase # "shutdown"
                            [] OTHER -> mailbox = 0 /\ phase = "open"

\* No loop runs, no job runs, the UI thread is in no call of the mailbox.
AtRest ==
    /\ \A k \in Loops : Resting(k)
    /\ \A l \in Lanes : jobs[l] = 0
    /\ ~replacing

\* The video loop has read its Shutdown message, which does not wait for the
\* background channel (thumb_worker.rs:3284): requests left there stay pending,
\* and the last video job earns a credit for a lane that will never use it.
Leftovers == pc["video"] = "stopped" /\ chan["videoBackground"] > 0

\* The lanes never wait for each other for ever, in service or while the library
\* closes: once everything is at rest no loop is inside acquire_thumbnail_permit,
\* a loop barred by the other lane's mark or credits having a loop that still
\* works on them.  The one exception is Leftovers, where an image loop can wait
\* for a video start that never comes and worker_main does not return.
NobodyWaitsForNobody ==
    AtRest => Leftovers \/ \A k \in Loops : pc[k] \notin Asking

\* A start is confirmed only under the goal, whatever happened to the goal
\* between may_start and try_started; a lowered goal preempts nothing.
StartsUnderGoal ==
    [][RunningTotal' > RunningTotal => RunningTotal' <= goal']_vars

-----------------------------------------------------------------------------
(* Fairness.  The run queue of the current-thread runtime is FIFO: a runnable
   loop is polled, however often the thread is busy in between, hence SF on the
   steps of the loops and of the jobs; that a job cannot overtake the loops that
   were queued before it is in the model (behind).  A job always ends as far as
   the lanes can tell: normal ones give their permit back after 15 s, and that
   the decoding of a video ends is assumed.  The user and the scheduler thread
   need not do anything, except finish the call they are in. *)
Fairness ==
    /\ SF_vars(NormalStep)
    /\ SF_vars(VideoStep)
    /\ SF_vars(DisplayStep)
    /\ \A l \in Lanes : SF_vars(BeginJob(l)) /\ SF_vars(Finish(l))
    /\ WF_vars(SendShutdown \/ \E n \in 0 .. MaxMailbox : ReplaceEnd(n))

FairSpec == Spec /\ Fairness

\* A request of the current generation comes to nothing, in the hands of a loop
\* or because the mailbox is emptied under the display loop.
Dropping ==
    /\ phase = "open"
    /\ \/ DisplayCancel \/ DisplayGiveBack
       \/ \E k \in {"normal", "video"}, c \in Channels : DropRequest(k, c)
       \/ NormalDuplicate
       \/ DisplayTake("dropping")

\* The load the liveness properties are about: requests may come for ever, but
\* from some point on a loop serves those of the current generation it receives.
\* (A lane that only drops its requests keeps its credit, and with it its
\* priority, until its channel is seen empty.)
Served(k) ==
    (<>[][~Dropping]_vars) => (pc[k] \in Asking ~> pc[k] \notin Asking)

\* No lane starves the other: the video loop, once it asks for a permit, gets one
\* under any load of images, and so does the display loop under any load of videos
\* (or the mailbox is emptied under it).
LanesServed == Served("video") /\ Served("display")
=============================================================================
