---- MODULE Preview ----
(* The preview the Library plays in the cell under the pointer: scenes of  *)
(* a video, frames or time buckets of an animated image, pages of a book.  *)
(*                                                                         *)
(* The user interface holds one preview state, a frame of it at a time.    *)
(* One thread decodes; between the two there are a slot for ONE command    *)
(* (PreviewControl: a newer command replaces the one that waits), a queue  *)
(* of video answers and a slot for ONE other answer (animated_result).     *)
(* Nothing is acknowledged: whether an answer is still coming is known to  *)
(* the user interface by its own marks alone.                              *)
EXTENDS Integers, Sequences, FiniteSets

CONSTANTS Videos, Stills, Moving, \* files by what they are: video, book, animated image
          Desks,                  \* the sets of files the pointer may visit
          Places,                 \* scenes, pages and buckets: a bounded run of naturals
          MaxSession,             \* bound: preview sessions
          MaxChanges,             \* bound: changes of each file
          MaxFrames               \* bound: frames of one animation

Books == Videos \cup Stills \cup Moving

ASSUME PreviewAssumption ==
    /\ Desks \subseteq SUBSET Books
    /\ Places \subseteq Nat /\ 0 \in Places
    /\ MaxSession \in Nat /\ MaxChanges \in Nat /\ MaxFrames \in Nat

None == -1

VARIABLES
  desk,      \* the files the grid shows
  disk,      \* [Books -> Nat] the revision of each file
  list,      \* source_snapshots: the revision the Library knows
  ui,        \* LibraryPreviewState
  pending,   \* PreviewControlState.pending
  results,   \* resp_rx: the answers about videos
  slot,      \* animated_result
  deferred,  \* preview_worker: deferred_command
  video,     \* preview_worker: video_session
  moving,    \* preview_worker: animated_session
  still,     \* preview_worker: static_session
  job        \* what the worker decodes

uiVars == <<ui, pending, slot>>
sessions == <<video, moving, still>>
workVars == <<deferred, sessions, job>>
vars == <<desk, disk, list, ui, pending, results, slot, workVars>>

(* The cell under the pointer, and the target a preview is of.             *)
Cells(b) ==
  IF b \in Videos
    THEN [book : {b}, kind : {"video"}, mode : {"Auto"}, at : {None}]
         \cup [book : {b}, kind : {"video"}, mode : {"Scrub"}, at : Places]
  ELSE [book : {b}, kind : {"animated"}, mode : {"Auto"}, at : {None}]
       \cup IF b \in Stills
            THEN [book : {b}, kind : {"static"}, mode : {"Auto"}, at : Places]
            ELSE [book : {b}, kind : {"animated"}, mode : {"Scrub"}, at : Places]
NoCell == [book |-> "none", kind |-> "none", mode |-> "Auto", at |-> None]

NoTarget == [book |-> "none", kind |-> "none", rev |-> None]
TargetOf(c) == [book |-> c.book, kind |-> c.kind, rev |-> list[c.book]]

NoPicture == [session |-> None, book |-> "none", rev |-> None, at |-> None]

(* One field for each part a value plays; the kind of the target tells a   *)
(* scene from a page and from a bucket.                                    *)
Idle == [session |-> 0, target |-> NoTarget,
         waiting |-> FALSE,     \* hover_deadline is set
         mode |-> "Auto",       \* mode, animated_mode
         want |-> None,         \* latest_scrub_scene_index, latest_static_page_index, ...
         inFlight |-> FALSE,    \* decode_in_flight
         asked |-> None,        \* in_flight_scene_index, static_in_flight_page_index, ...
         submitted |-> None,    \* animated_last_submitted_target_bucket
         shown |-> None,        \* display_scene_index, static_display_page_index, ...
         mask |-> {},           \* animated_abandon_bucket_mask
         started |-> FALSE, failed |-> FALSE, unavailable |-> FALSE,
         placeFailed |-> FALSE, \* static_failed, animated_scrub_failed
         lastFrame |-> None,    \* animated_last_frame_index
         picture |-> NoPicture] \* preview_texture

Command(op, t, s, at, mask) ==
  [op |-> op, session |-> s, book |-> t.book, rev |-> t.rev, at |-> at, mask |-> mask]
NoCommand == Command("none", NoTarget, None, None, {})
Stop == Command("Stop", NoTarget, None, None, {})

Result(kind, c, at, frame, mask, ack) ==
  [kind |-> kind, session |-> c.session, book |-> c.book, rev |-> c.rev,
   at |-> at, frame |-> frame, mask |-> mask, ack |-> ack]
NoResult == Result("none", NoCommand, None, None, {}, FALSE)

NoSession == [session |-> None, book |-> "none", rev |-> None]
SessionOf(c) == [session |-> c.session, book |-> c.book, rev |-> c.rev]
NoMoving == [id |-> NoSession, bucket |-> None, mask |-> {}, done |-> None,
             due |-> FALSE, next |-> 0]
NoJob == [what |-> "none", cmd |-> NoCommand]

Init ==
  /\ desk \in Desks
  /\ disk = [b \in Books |-> 0]
  /\ list = disk
  /\ ui = Idle
  /\ pending = NoCommand /\ deferred = NoCommand
  /\ results = <<>> /\ slot = NoResult
  /\ video = NoSession /\ moving = NoMoving /\ still = NoSession
  /\ job = NoJob

-----------------------------------------------------------------------------
(* The user interface.  A handler is a function of what it may change.     *)
Now == [ui |-> ui, pending |-> pending, slot |-> slot]
Becomes(p) ==
  /\ p.ui.session <= MaxSession
  /\ ui' = p.ui /\ pending' = p.pending /\ slot' = p.slot

SubmitUnlessBusy(p, c) == IF p.pending = NoCommand THEN [p EXCEPT !.pending = c] ELSE p

Submit(p, c) == [p EXCEPT !.pending = c]

SubmitClearing(p, c) == [p EXCEPT !.pending = c, !.slot = NoResult]
SubmitIfIdle(p, c) == IF p.pending = NoCommand THEN Submit(p, c) ELSE p

Ask(p, op, at, mask) == Command(op, p.ui.target, p.ui.session, at, mask)

Invalidate(p) ==
  SubmitClearing([p EXCEPT !.ui = [Idle EXCEPT !.session = p.ui.session + 1]], Stop)

(* The pointer came to another cell, or to a new revision of the file.     *)
NewTarget(p, c) ==
  IF c = NoCell THEN Invalidate(p)
  ELSE [Invalidate(p) EXCEPT
          !.ui.target = TargetOf(c), !.ui.mode = c.mode, !.ui.want = c.at,
          !.ui.waiting = ~ (c.kind = "static" \/ (c.kind = "animated" /\ c.mode = "Scrub"))]

(* It moved within the cell.                                               *)
SameVideo(p, c) == [p EXCEPT !.ui.mode = c.mode, !.ui.want = c.at]
SameBook(p, c) ==
  [p EXCEPT !.ui.want = c.at, !.ui.placeFailed = @ /\ p.ui.want = c.at]

SwitchMode(p) ==
  LET q == [p EXCEPT !.ui.placeFailed = FALSE, !.ui.shown = None, !.ui.submitted = None,
                     !.ui.mask = {}, !.ui.waiting = FALSE]
      r == [q EXCEPT !.ui.lastFrame = None, !.ui.asked = None, !.ui.inFlight = FALSE]
  IN IF p.ui.mode = "Scrub" THEN q
     ELSE IF p.ui.started THEN SubmitClearing(r, Ask(r, "AnimatedAuto", None, {})) ELSE r

SameAnimated(p, c) ==
  LET q == [p EXCEPT !.ui.mode = c.mode, !.ui.want = c.at,
                     !.ui.placeFailed = @ /\ p.ui.want = c.at]
  IN IF p.ui.mode # c.mode THEN SwitchMode(q) ELSE q

Hover(p, c) ==
  IF c = NoCell
    THEN IF p.ui.target = NoTarget THEN p ELSE NewTarget(p, c)
  ELSE IF p.ui.target # TargetOf(c) THEN NewTarget(p, c)
  ELSE IF c.kind = "video" THEN SameVideo(p, c)
  ELSE IF c.kind = "static" THEN SameBook(p, c)
  ELSE SameAnimated(p, c)

(* What each kind of preview asks for in a frame.  "elapsed" says that the *)
(* time it waits for has come, "scene" which scene is due then.            *)
AskScene(p, scene, op) ==
  LET q == [p EXCEPT !.ui.inFlight = TRUE, !.ui.asked = scene]
  IN IF op = "StartVideo" THEN SubmitClearing(q, Ask(q, op, scene, {}))
     ELSE Submit(q, Ask(q, op, scene, {}))

UpdateVideo(p, elapsed, scene) ==
  LET scrub == p.ui.mode = "Scrub"
  IN IF p.ui.failed THEN p
     ELSE IF p.ui.waiting
       THEN IF elapsed
              THEN AskScene([p EXCEPT !.ui.waiting = FALSE],
                            IF scrub THEN p.ui.want ELSE 0, "StartVideo")
              ELSE p
     ELSE IF p.ui.inFlight \/ (scrub /\ p.ui.shown = p.ui.want) \/ (~ scrub /\ ~ elapsed)
       THEN p
     ELSE AskScene(p, IF scrub THEN p.ui.want ELSE scene, "VideoScene")

UpdateStatic(p) ==
  LET first == p.ui.shown = None /\ p.ui.asked = None
      q == [p EXCEPT !.ui.inFlight = TRUE, !.ui.asked = p.ui.want]
      page == Ask(q, "StaticPage", p.ui.want, {})
      start == Ask(q, "StartStatic", p.ui.want, {})
  IN IF p.ui.placeFailed THEN p
     ELSE IF p.ui.inFlight THEN IF p.ui.asked # p.ui.want THEN Submit(q, page) ELSE p
     ELSE IF p.ui.shown = p.ui.want THEN p
     ELSE IF first THEN SubmitClearing(q, start) ELSE Submit(q, page)

(* cancel_pending_animated_scrub: the command is dropped if it still waits.*)
Cancellable(p, at) ==
  /\ p.pending.op = "AnimatedScrub"
  /\ p.pending.session = p.ui.session /\ p.pending.at = at

CancelScrub(p) ==
  LET at == IF p.ui.asked # None THEN p.ui.asked
            ELSE IF p.ui.submitted # None THEN p.ui.submitted ELSE p.ui.want
      q == [p EXCEPT !.ui.mask = IF p.ui.inFlight THEN @ \cup {at} ELSE @]
      r == IF Cancellable(p, at)
             THEN [q EXCEPT !.pending = NoCommand, !.ui.inFlight = FALSE,
                            !.ui.asked = None, !.ui.submitted = None]
             ELSE q
  IN IF r.ui.mask = {} THEN r
     ELSE SubmitIfIdle(r, Ask(r, "AnimatedAbandon", None, r.ui.mask))

AskBucket(p) ==
  LET q == [p EXCEPT !.ui.inFlight = TRUE, !.ui.asked = p.ui.want, !.ui.submitted = p.ui.want]
  IN IF p.ui.started
     THEN LET r == [q EXCEPT !.ui.mask =
                      IF p.ui.inFlight /\ p.ui.asked \notin {None, p.ui.want}
                        THEN @ \cup {p.ui.asked} ELSE @]
          IN SubmitClearing(r, Ask(r, "AnimatedScrub", p.ui.want, r.ui.mask))
     ELSE SubmitClearing([q EXCEPT !.ui.started = TRUE],
                         Ask(q, "StartAnimated", p.ui.want, p.ui.mask))

UpdateAnimated(p, elapsed) ==
  IF p.ui.unavailable THEN p
  ELSE IF p.ui.mode = "Auto"
    THEN IF p.ui.failed \/ p.ui.started \/ ~ p.ui.waiting \/ ~ elapsed THEN p
         ELSE LET q == [p EXCEPT !.ui.waiting = FALSE, !.ui.started = TRUE,
                                 !.ui.submitted = None, !.ui.asked = None]
              IN SubmitClearing(q, Ask(q, "StartAnimated", None, {}))
  ELSE IF p.ui.placeFailed THEN p
  ELSE LET q == [p EXCEPT !.ui.waiting = FALSE]
       IN IF ~ p.ui.started THEN AskBucket(q)
          ELSE IF p.ui.shown = p.ui.want THEN CancelScrub(q)
          ELSE IF p.ui.want \in {p.ui.asked, p.ui.submitted} THEN q ELSE AskBucket(q)

Update(p, elapsed, scene) ==
  IF p.ui.target.kind = "static" THEN UpdateStatic(p)
  ELSE IF p.ui.target.kind = "animated" THEN UpdateAnimated(p, elapsed)
  ELSE IF p.ui.target.kind = "video" THEN UpdateVideo(p, elapsed, scene)
  ELSE p

(* One frame of the grid.  A preview ends when the list is scrolled and    *)
(* when the list has learnt of another revision of its file.               *)
Frame(c, scrolled, elapsed, scene) ==
  LET t == ui.target
      p == IF t # NoTarget /\ (scrolled \/ list[t.book] # t.rev) THEN Invalidate(Now) ELSE Now
  IN /\ Becomes(Update(Hover(p, c), elapsed, scene))
     /\ UNCHANGED <<desk, disk, list, results, workVars>>

(* source_matches_revision: what the list and the disk say of the file now. *)
SourceMatches(m) == list[m.book] = m.rev /\ disk[m.book] = m.rev
OfSession(p, m) == p.ui.session = m.session /\ p.ui.target.book = m.book
OfTarget(p, m) == p.ui.target.book = m.book /\ p.ui.target.rev = m.rev

Show(p, m) ==
  [p EXCEPT !.ui.picture = [session |-> m.session, book |-> m.book, rev |-> m.rev,
                            at |-> m.at]]
Answered(p) == [p EXCEPT !.ui.inFlight = FALSE, !.ui.asked = None]
StopWorker(p) == SubmitClearing(p, Stop)

VideoMatchesAnySession(p, m) == p.ui.inFlight /\ p.ui.asked = m.at /\ OfTarget(p, m)

VideoMatches(p, m) ==
  p.ui.inFlight /\ p.ui.asked = m.at /\ p.ui.session = m.session /\ OfTarget(p, m)

HandleVideo(p, m) ==
  LET fresh == OfTarget(p, m) /\ SourceMatches(m)
      q == Answered(p)
  IN IF OfSession(p, m) /\ ~ fresh THEN Invalidate(p)
     ELSE IF ~ fresh \/ ~ VideoMatches(p, m) THEN p
     ELSE IF m.kind = "Ready" THEN [Show(q, m) EXCEPT !.ui.shown = m.at]
     ELSE IF p.ui.picture = NoPicture THEN StopWorker([q EXCEPT !.ui.failed = TRUE]) ELSE q

StaticMatches(p, m) ==
  /\ p.ui.inFlight /\ p.ui.session = m.session
  /\ p.ui.want = m.at /\ p.ui.asked = m.at
  /\ OfTarget(p, m) /\ p.ui.target.kind = "static"

HandleStatic(p, m) ==
  LET q == Answered(p)
      kept == p.ui.picture # NoPicture /\ p.ui.shown # None
      failed == [q EXCEPT !.ui.placeFailed = TRUE]
  IN IF OfSession(p, m) /\ ~ SourceMatches(m) THEN Invalidate(p)
     ELSE IF ~ SourceMatches(m) \/ ~ StaticMatches(p, m) THEN p
     ELSE IF m.kind = "PageReady"
       THEN [Show(q, m) EXCEPT !.ui.shown = m.at, !.ui.placeFailed = FALSE]
     ELSE StopWorker(IF kept THEN failed
                     ELSE [failed EXCEPT !.ui.picture = NoPicture, !.ui.shown = None])

AnimatedMatches(p, m) ==
  /\ p.ui.session = m.session /\ p.ui.started
  /\ p.ui.mode = (IF m.at # None THEN "Scrub" ELSE "Auto")
  /\ p.ui.want = m.at
  /\ m.at # None => p.ui.asked = m.at
  /\ OfTarget(p, m) /\ p.ui.target.kind = "animated"

(* clear_animated_request_if_matches *)
Release(p, at) ==
  [p EXCEPT !.ui.inFlight = @ /\ p.ui.asked # at,
            !.ui.asked = IF @ = at THEN None ELSE @,
            !.ui.submitted = IF @ = at THEN None ELSE @]
Names(p, m) == p.ui.asked = m.at \/ (m.at # None /\ p.ui.submitted = m.at)

AnimatedReady(p, m) ==
  LET q == Release(p, m.at)
  IN IF AnimatedMatches(p, m) /\ (m.at = None => m.frame > p.ui.lastFrame)
     THEN IF m.at # None
            THEN [Show(q, m) EXCEPT !.ui.shown = m.at, !.ui.placeFailed = FALSE]
            ELSE [Show(q, m) EXCEPT !.ui.shown = None, !.ui.lastFrame = m.frame]
     ELSE IF Names(p, m) THEN q ELSE p

AnimatedFailed(p, m) ==
  LET q == Release(p, m.at)
  IN IF AnimatedMatches(p, m)
     THEN IF m.ack THEN q
          ELSE IF m.at # None THEN [q EXCEPT !.ui.placeFailed = TRUE]
          ELSE StopWorker([q EXCEPT !.ui.started = FALSE, !.ui.failed = TRUE])
     ELSE IF Names(p, m) THEN q ELSE p

AnimatedUnavailable(p, m) ==
  IF AnimatedMatches(p, m)
    THEN [Release(p, m.at) EXCEPT !.ui.started = FALSE, !.ui.unavailable = TRUE] ELSE p

HandleAnimated(p, m) ==
  LET q == [p EXCEPT !.ui.mask = @ \ m.mask]
  IN IF ~ OfSession(p, m) THEN p
     ELSE IF ~ SourceMatches(m) THEN Invalidate(p)
     ELSE IF m.kind = "FrameReady" THEN AnimatedReady(q, m)
     ELSE IF m.kind \in {"FrameFailed", "FrameStale"} THEN AnimatedFailed(q, m)
     ELSE AnimatedUnavailable(q, m)

Handle(p, m) ==
  IF m.kind \in {"Ready", "Failed"} THEN HandleVideo(p, m)
  ELSE IF m.kind \in {"PageReady", "PageFailed"} THEN HandleStatic(p, m)
  ELSE HandleAnimated(p, m)

(* poll_worker takes the answers of the queue first, then the one answer.  *)
Poll ==
  /\ results # <<>> \/ slot # NoResult
  /\ IF results # <<>>
       THEN Becomes(Handle(Now, Head(results))) /\ results' = Tail(results)
       ELSE Becomes(Handle([Now EXCEPT !.slot = NoResult], slot)) /\ results' = results
  /\ UNCHANGED <<desk, disk, list, workVars>>

-----------------------------------------------------------------------------
(* The file, and the Library's knowledge of it.                            *)
FileChange(b) ==
  /\ b \in desk /\ disk[b] < MaxChanges
  /\ disk' = [disk EXCEPT ![b] = @ + 1]
  /\ UNCHANGED <<desk, list, uiVars, results, workVars>>

Refresh ==
  /\ list # disk
  /\ list' = disk
  /\ UNCHANGED <<desk, disk, uiVars, results, workVars>>

-----------------------------------------------------------------------------
(* preview_worker: what it takes next.  A command that waits is newer than *)
(* the deferred one and takes its place.                                   *)
OldestFirst == IF deferred # NoCommand THEN deferred ELSE pending

Newest == IF pending # NoCommand THEN pending ELSE deferred

Current(c) == disk[c.book] = c.rev

Tell(m) == results' = Append(results, m) /\ slot' = slot
Put(m) == slot' = m /\ results' = results
Silent == UNCHANGED <<results, slot>>

VideoResult(kind, c) == Result(kind, c, c.at, None, {}, FALSE)
PageResult(kind, c) == Result(kind, c, c.at, None, {}, FALSE)
FrameResult(kind, c, frame) == Result(kind, c, c.at, frame, c.mask, FALSE)

Begin(what, c) == job' = [what |-> what, cmd |-> c]

StartVideo(c) ==
  /\ moving' = NoMoving /\ still' = NoSession
  /\ slot' = NoResult
  /\ \/ /\ video' = NoSession /\ job' = NoJob
        /\ results' = Append(results, VideoResult("Failed", c))
     \/ /\ Current(c)
        /\ video' = SessionOf(c) /\ Begin("scene", c)
        /\ results' = results

VideoScene(c) ==
  /\ UNCHANGED <<moving, still>>
  /\ \/ /\ video.session # c.session
        /\ Silent /\ video' = video /\ job' = NoJob
     \/ /\ video.session = c.session /\ ~ Current(c)
        /\ video' = NoSession /\ job' = NoJob
        /\ Tell(VideoResult("Failed", c))
     \/ /\ video.session = c.session /\ Current(c)
        /\ Silent /\ video' = video /\ Begin("scene", c)

(* open_animated_preview_session, and the decoding that follows it.        *)
MovingOf(c) == [id |-> SessionOf(c), bucket |-> c.at, mask |-> c.mask, done |-> None,
                due |-> FALSE, next |-> 0]
OpenMoving(c) ==
  /\ video' = NoSession /\ still' = NoSession
  /\ \/ \E kind \in {"FrameFailed", "Unavailable"} :
          Put(FrameResult(kind, c, 0)) /\ moving' = NoMoving /\ job' = NoJob
     \/ /\ Current(c)
        /\ results' = results /\ slot' = IF c.op = "StartAnimated" THEN NoResult ELSE slot
        /\ moving' = MovingOf(c)
        /\ Begin(IF c.at # None THEN "bucket" ELSE "frame", c)

MovingMatches(c) == moving.id = SessionOf(c)

(* clear_abandoned_scrub_guard *)
Unguarded(s, mask) ==
  IF s.bucket # None /\ s.bucket = s.done /\ s.bucket \in mask
    THEN [s EXCEPT !.done = None] ELSE s

AnimatedScrub(c) ==
  LET s == Unguarded(moving, c.mask)
  IN IF MovingMatches(c)
     THEN /\ UNCHANGED <<video, still>> /\ Silent
          /\ IF s.bucket = c.at /\ s.done = c.at
               THEN moving' = [s EXCEPT !.due = FALSE] /\ job' = NoJob
               ELSE /\ moving' = [s EXCEPT !.bucket = c.at, !.mask = c.mask, !.due = FALSE]
                    /\ Begin("bucket", c)
     ELSE OpenMoving(c)

AnimatedAbandon(c) ==
  /\ UNCHANGED <<video, still>> /\ job' = NoJob
  /\ IF moving.id.session = c.session
       THEN /\ moving' = Unguarded(moving, c.mask)
            /\ Put(Result("FrameStale", moving.id, moving.bucket, moving.next, c.mask, TRUE))
       ELSE moving' = moving /\ Silent

AnimatedAuto(c) ==
  IF MovingMatches(c)
    THEN /\ moving' = [moving EXCEPT !.bucket = None, !.mask = {}, !.done = None, !.due = TRUE]
         /\ UNCHANGED <<video, still>> /\ Silent /\ job' = NoJob
    ELSE OpenMoving(c)

(* open_static_preview_session fails when the file or its page map changed.*)
OpenStill(c, clear) ==
  /\ video' = NoSession /\ moving' = NoMoving
  /\ \/ still' = NoSession /\ Put(PageResult("PageFailed", c)) /\ job' = NoJob
     \/ /\ Current(c) /\ still' = SessionOf(c) /\ Begin("page", c)
        /\ results' = results /\ slot' = IF clear THEN NoResult ELSE slot

StaticPage(c) ==
  IF still = SessionOf(c)
    THEN UNCHANGED sessions /\ Silent /\ Begin("page", c)
    ELSE OpenStill(c, FALSE)

CloseAll ==
  /\ video' = NoSession /\ moving' = NoMoving /\ still' = NoSession
  /\ slot' = NoResult /\ results' = results /\ job' = NoJob

Perform(c) ==
  \/ c.op = "StartVideo" /\ StartVideo(c)
  \/ c.op = "VideoScene" /\ VideoScene(c)
  \/ c.op = "StartAnimated" /\ OpenMoving(c)
  \/ c.op = "AnimatedScrub" /\ AnimatedScrub(c)
  \/ c.op = "AnimatedAbandon" /\ AnimatedAbandon(c)
  \/ c.op = "AnimatedAuto" /\ AnimatedAuto(c)
  \/ c.op = "StartStatic" /\ OpenStill(c, TRUE)
  \/ c.op = "StaticPage" /\ StaticPage(c)
  \/ c.op = "Stop" /\ CloseAll

Take ==
  /\ job = NoJob /\ Newest # NoCommand
  /\ Len(results) < 2
  /\ pending' = NoCommand /\ deferred' = NoCommand
  /\ Perform(Newest)
  /\ UNCHANGED <<desk, disk, list, ui>>

(* The next frame of an animation is due, and no command waits.            *)
NextFrame ==
  /\ job = NoJob /\ Newest = NoCommand
  /\ moving.due /\ moving.next < MaxFrames
  /\ Begin("frame", [NoCommand EXCEPT !.session = moving.id.session, !.book = moving.id.book,
                                      !.rev = moving.id.rev, !.mask = moving.mask])
  /\ UNCHANGED <<desk, disk, list, uiVars, results, deferred, sessions>>

(* decode_video_preview_scene, decode_static_preview_page: one call that   *)
(* nothing interrupts.                                                     *)
SceneDone ==
  /\ job.what = "scene" /\ job' = NoJob
  /\ \E kind \in {"Ready", "Failed"} :
       /\ kind = "Ready" => Current(job.cmd)
       /\ Tell(VideoResult(kind, job.cmd))
  /\ UNCHANGED <<desk, disk, list, ui, pending, deferred, sessions>>

PageDone ==
  /\ job.what = "page" /\ job' = NoJob
  /\ \E kind \in {"PageReady", "PageFailed"} :
       /\ kind = "PageReady" => Current(job.cmd)
       /\ Put(PageResult(kind, job.cmd))
  /\ UNCHANGED <<desk, disk, list, ui, pending, deferred, sessions>>

FrameDone ==
  /\ job.what = "frame" /\ job' = NoJob
  /\ \/ /\ Put(FrameResult("FrameFailed", job.cmd, moving.next))
        /\ moving' = [moving EXCEPT !.due = FALSE]
     \/ /\ Current(job.cmd)
        /\ Put(FrameResult("FrameReady", job.cmd, moving.next))
        /\ moving' = [moving EXCEPT !.next = @ + 1, !.due = TRUE]
  /\ UNCHANGED <<desk, disk, list, ui, pending, deferred, video, still>>

YieldForgets ==
  /\ job.what = "bucket" /\ job' = NoJob
  /\ deferred' = pending /\ pending' = NoCommand
  /\ UNCHANGED <<desk, disk, list, ui, results, slot, sessions>>

(* decode_animated_preview_scrub gives way: between two frames it takes    *)
(* the command that waits, and after a turn of frames it defers itself.    *)
Yield ==
  /\ job.what = "bucket"
  /\ job' = NoJob
  /\ IF pending # NoCommand
       THEN deferred' = pending /\ pending' = NoCommand
       ELSE deferred' = [job.cmd EXCEPT !.op = "AnimatedScrub"] /\ pending' = pending
  /\ UNCHANGED <<desk, disk, list, ui, results, slot, sessions>>

BucketFailed ==
  /\ job.what \in {"bucket", "publish"} /\ job' = NoJob
  /\ Put(FrameResult("FrameFailed", job.cmd, moving.next))
  /\ UNCHANGED <<desk, disk, list, ui, pending, deferred, sessions>>

(* The picture of the bucket is there: it is published whatever waits by   *)
(* then.                                                                   *)
BucketDecoded ==
  /\ job.what = "bucket" /\ pending = NoCommand
  /\ job' = [job EXCEPT !.what = "publish"]
  /\ UNCHANGED <<desk, disk, list, uiVars, results, deferred, sessions>>

Publish ==
  /\ job.what = "publish" /\ Current(job.cmd)
  /\ job' = NoJob
  /\ Put(FrameResult("FrameReady", job.cmd, moving.next))
  /\ moving' = [moving EXCEPT !.done = job.cmd.at]
  /\ UNCHANGED <<desk, disk, list, ui, pending, deferred, video, still>>

Next ==
  \/ \E b \in desk, scrolled \in {FALSE, ui.target # NoTarget}, elapsed \in BOOLEAN :
       \E c \in Cells(b) \cup {NoCell}, scene \in IF b \in Videos THEN Places ELSE {0} :
         Frame(c, scrolled, elapsed, scene)
  \/ Poll
  \/ \E b \in desk : FileChange(b)
  \/ Refresh
  \/ Take \/ NextFrame
  \/ SceneDone \/ PageDone \/ FrameDone
  \/ Yield \/ BucketFailed \/ BucketDecoded \/ Publish

Spec == Init /\ [][Next]_vars

-----------------------------------------------------------------------------
(* P1. The picture in the cell is of the file and revision the preview is  *)
(* of, asked for by this preview, and is the place the marks say it shows: *)
(* an answer that comes after the pointer left, or after the list learnt   *)
(* of a new revision, is never shown.                                      *)
PictureOfTarget ==
  ui.picture # NoPicture =>
    /\ ui.picture.session = ui.session
    /\ ui.picture.book = ui.target.book /\ ui.picture.rev = ui.target.rev
    /\ ui.shown # None => ui.picture.at = ui.shown

(* An answer for the place is on its way: in a command the worker will     *)
(* still obey, in its hands, or waiting to be polled.                      *)
Answers(m, at) == m.session = ui.session /\ m.at = at
Serves(c, at) ==
  /\ c.session = ui.session
  /\ IF c.op = "AnimatedAbandon"
       THEN moving.bucket = at /\ moving.id.session = c.session
       ELSE c.at = at /\ (c.op = "VideoScene" => video.session = c.session)
Coming(at) ==
  \/ Serves(Newest, at)
  \/ job.cmd.session = ui.session /\ job.cmd.at = at
  \/ \E i \in DOMAIN results : Answers(results[i], at)
  \/ Answers(slot, at)

(* P2. While a video or a book marks a decoding in flight, and so asks for *)
(* nothing else, the answer it waits for is on its way, although commands  *)
(* and answers replace each other without notice.                          *)
Awaited == ui.inFlight /\ ui.target.kind \in {"video", "static"} => Coming(ui.asked)

(* An animated image marks the bucket it asked for and asks for nothing    *)
(* else while the pointer rests on it.                                     *)
BucketLost ==
  /\ ui.target.kind = "animated" /\ ui.mode = "Scrub" /\ ui.started
  /\ ui.asked \notin {None, ui.shown} /\ ~ Coming(ui.asked)

(* The worker believes that it has shown the bucket, and skips the command *)
(* (should_skip_animated_scrub_command).                                   *)
Skipped ==
  /\ Newest.op = "AnimatedScrub" /\ Newest' = NoCommand
  /\ job' = NoJob /\ moving'.done = Newest.at
(* An abandonment is submitted because no command waits, and is taken      *)
(* before the command the worker has deferred.                             *)
Overtaken == deferred # NoCommand /\ pending = NoCommand /\ pending'.op = "AnimatedAbandon"

(* P3. The bucket asked for is on its way, with two exceptions: a request  *)
(* the worker skips because an earlier answer for the bucket was dropped,  *)
(* and one overtaken while it was deferred.                                *)
OnlyNamedLosses == [][BucketLost' => BucketLost \/ Skipped \/ Overtaken]_vars

(* P4. Once no cell is under the pointer and the worker is at rest it      *)
(* holds no file open, whichever command overtook which.                   *)
NothingHeldOpen ==
  ui.target = NoTarget /\ Newest = NoCommand /\ job = NoJob
    => video = NoSession /\ still = NoSession /\ moving = NoMoving
====
