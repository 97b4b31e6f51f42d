-------------------------- MODULE PreviewProofs --------------------------
(* Proofs about the preview, for every set of files, of places and every   *)
(* bound: the picture shown is of the file and revision under the pointer  *)
(* (PictureOfTarget), an answer that is waited for is coming (Awaited),    *)
(* no file stays open once the pointer has left (NothingHeldOpen), and the *)
(* bucket of an animated image is lost in the two named ways only          *)
(* (OnlyNamedLosses).                                                      *)
(*                                                                         *)
(* One invariant serves the first three.  Nothing is acknowledged between  *)
(* the two threads, so it says where in the pipe -- the command that       *)
(* waits, the one deferred, the decoding, the slot, the queue -- the       *)
(* latest thing asked for is:                                              *)
(*   Book   the latest command of the pipe, or what became of it, is the   *)
(*          page the book waits for: each replaces the one before;         *)
(*   Video  the answers are a queue, and so the scene waited for is the    *)
(*          only thing of its session in the pipe; while none is, the      *)
(*          session is open and the worker has nothing to do;              *)
(*   Ended  after the pointer has left the latest command is the order to  *)
(*          stop, or the worker has obeyed it.                             *)
(* The handlers are functions of the state they may change, so each is     *)
(* shown to take a fine state to a fine one, in whatever order a frame     *)
(* calls them.                                                             *)
(*                                                                         *)
(* An animated image has one answer and one command of a kind at a time,   *)
(* and may lose either.  The second invariant (BucketInv) says what the    *)
(* latest order for a bucket has met so far: it is on its way (Ordered),   *)
(* the animation that is open is at that bucket (Held), or it is lost      *)
(* (Gone).                                                                 *)
EXTENDS Preview, TLAPS

\* The values the variables hold.
Spots == Places \cup {None}
Ops == {"StartVideo", "VideoScene", "StartAnimated", "AnimatedScrub", "AnimatedAbandon",
        "AnimatedAuto", "StartStatic", "StaticPage"}
Requests == [op : Ops, session : Nat, book : Books, rev : Nat, at : Spots, mask : SUBSET Spots]
Commands == Requests \cup {Stop, NoCommand}
Answer(kinds) == [kind : kinds, session : Nat, book : Books, rev : Nat, at : Spots,
                  frame : Nat \cup {None}, mask : SUBSET Spots, ack : BOOLEAN]
VideoAnswers == Answer({"Ready", "Failed"})
OtherAnswers == Answer({"PageReady", "PageFailed", "FrameReady", "FrameFailed", "FrameStale",
                        "Unavailable"})
Opened == [session : Nat, book : Books, rev : Nat]
Animations == [id : Opened, bucket : Spots, mask : SUBSET Spots, done : Spots,
               due : BOOLEAN, next : Nat]
Jobs == [what : {"scene", "page", "frame", "bucket", "publish"}, cmd : Requests]
          \cup [what : {"frame"}, cmd : [op : {"none"}, session : Nat, book : Books, rev : Nat,
                                        at : Spots, mask : SUBSET Spots]]
Targets == [book : Books, kind : {"video", "static", "animated"}, rev : Nat]
Pictures == [session : Nat, book : Books, rev : Nat, at : Spots]
Previews == [session : Nat, target : Targets \cup {NoTarget}, waiting : BOOLEAN,
             mode : {"Auto", "Scrub"}, want : Spots, inFlight : BOOLEAN, asked : Spots,
             submitted : Spots, shown : Spots, mask : SUBSET Spots, started : BOOLEAN,
             failed : BOOLEAN, unavailable : BOOLEAN, placeFailed : BOOLEAN,
             lastFrame : Nat \cup {None}, picture : Pictures \cup {NoPicture}]
States == [ui : Previews, pending : Commands, slot : OtherAnswers \cup {NoResult}]

\* The command the worker will take next, as the user interface knows it.
Latest(p) == IF p.pending # NoCommand THEN p.pending ELSE deferred

\* What is said of a file was true once: the Library's revision is not ahead of
\* the disk, the preview's not ahead of the Library's.
Known ==
    /\ desk \subseteq Books /\ disk \in [Books -> Nat] /\ list \in [Books -> Nat]
    /\ \A b \in Books : list[b] <= disk[b]
Aims(p) == p.ui.target # NoTarget => p.ui.target.rev <= list[p.ui.target.book]

\* The worker: one file is open at a time, and a decoding is of the file that is.
Worker ==
    /\ deferred \in Commands /\ job \in Jobs \cup {NoJob}
    /\ video \in Opened \cup {NoSession} /\ still \in Opened \cup {NoSession}
    /\ moving \in Animations \cup {NoMoving}
    /\ video # NoSession => still = NoSession /\ moving = NoMoving
    /\ still # NoSession => moving = NoMoving
    /\ job # NoJob => deferred = NoCommand
    /\ job.what = "scene" => video.session = job.cmd.session
    /\ job.what = "page" => still # NoSession
    /\ job.what \in {"frame", "bucket", "publish"} => moving # NoMoving

\* Nothing in the pipe is of a session that is still to come.
Older(p, rs) ==
    /\ \A s \in {p.pending.session, deferred.session, job.cmd.session, moving.id.session,
                 p.slot.session} : s <= p.ui.session
    /\ \A i \in DOMAIN rs : rs[i].session <= p.ui.session

Mine(p, m) == /\ m.session = p.ui.session /\ m.at = p.ui.asked
              /\ m.book = p.ui.target.book /\ m.rev = p.ui.target.rev
NoneIn(p, rs) == \A i \in DOMAIN rs : rs[i].session # p.ui.session
Unused(p, rs) ==
    /\ \A s \in {p.pending.session, deferred.session, job.cmd.session, moving.id.session} :
           s # p.ui.session
    /\ NoneIn(p, rs)

Pictured(p) ==
    p.ui.picture # NoPicture =>
        /\ p.ui.picture.session = p.ui.session
        /\ p.ui.picture.book = p.ui.target.book /\ p.ui.picture.rev = p.ui.target.rev
        /\ p.ui.shown # None => p.ui.picture.at = p.ui.shown

\* Where the page asked for is.
PageComing(p) ==
    \/ Latest(p).op \in {"StartStatic", "StaticPage"} /\ Mine(p, Latest(p))
    \/ Latest(p) = NoCommand /\ job.what = "page" /\ Mine(p, job.cmd)
    \/ /\ Latest(p) = NoCommand /\ job = NoJob /\ moving = NoMoving
       /\ p.slot.kind \in {"PageReady", "PageFailed"} /\ Mine(p, p.slot)
Book(p) ==
    p.ui.target.kind = "static" /\ p.ui.inFlight => ~p.ui.placeFailed /\ PageComing(p)

\* Where the scene asked for is; nothing else in the pipe is of this session.
SceneComing(p, rs) ==
    \/ /\ Mine(p, Latest(p)) /\ job.cmd.session # p.ui.session /\ NoneIn(p, rs)
       /\ \/ Latest(p).op = "StartVideo" /\ p.ui.picture = NoPicture
          \/ Latest(p).op = "VideoScene" /\ video.session = p.ui.session
    \/ /\ Latest(p) = NoCommand /\ job.what = "scene" /\ Mine(p, job.cmd) /\ NoneIn(p, rs)
    \/ /\ Latest(p) = NoCommand /\ job = NoJob /\ moving = NoMoving
       /\ \E i \in DOMAIN rs :
            /\ Mine(p, rs[i])
            /\ \A j \in DOMAIN rs : j # i => rs[j].session # p.ui.session
            /\ \/ video.session = p.ui.session
               \/ /\ rs[i].kind = "Failed"
                  /\ p.ui.picture = NoPicture \/ p.ui.target.rev < disk[p.ui.target.book]
SceneNotAsked(p, rs) ==
    IF p.ui.waiting THEN p.ui.picture = NoPicture /\ Unused(p, rs)
    ELSE /\ Latest(p) = NoCommand /\ job = NoJob /\ moving = NoMoving
         /\ video.session = p.ui.session /\ NoneIn(p, rs)
Video(p, rs) ==
    p.ui.target.kind = "video" =>
        IF p.ui.failed THEN ~p.ui.inFlight
        ELSE /\ p.slot.session # p.ui.session
             /\ IF p.ui.inFlight THEN ~p.ui.waiting /\ SceneComing(p, rs)
                ELSE SceneNotAsked(p, rs)

\* The end of a preview: the order to stop waits, or has been obeyed.
Ended(p) ==
    p.ui.target = NoTarget =>
        \/ Latest(p) = Stop
        \/ /\ Latest(p) = NoCommand /\ job = NoJob
           /\ video = NoSession /\ still = NoSession /\ moving = NoMoving

Fine(p, rs) ==
    /\ p \in States /\ Aims(p) /\ Older(p, rs)
    /\ Pictured(p) /\ Book(p) /\ Video(p, rs) /\ Ended(p)
\* Between two frames a book waits for the page the pointer asks for.
Settled(p) == p.ui.target.kind = "static" /\ p.ui.inFlight => p.ui.asked = p.ui.want
Inv == /\ Known /\ Worker /\ results \in Seq(VideoAnswers)
       /\ Fine(Now, results) /\ Settled(Now)

-----------------------------------------------------------------------------
(* The handlers of the user interface: each takes a fine state to one.     *)

LEMMA CommandTypes ==
    /\ Stop \in Commands /\ NoCommand \in Commands
    /\ \A c \in Commands : /\ c \in Requests \/ c = Stop \/ c = NoCommand
                           /\ c.session \in Int
    /\ Stop # NoCommand /\ Stop.session = -1 /\ NoCommand.session = -1
    /\ Stop.op = "Stop" /\ NoCommand.op = "none"
    /\ \A c \in Requests : c.op \in Ops /\ c.session \in Nat /\ c # Stop /\ c # NoCommand
BY DEF Commands, Requests, Ops, Stop, NoCommand, Command, None

LEMMA IdleTypes ==
    ASSUME NEW n \in Nat
    PROVE  [Idle EXCEPT !.session = n] \in Previews
BY PreviewAssumption DEF Idle, Previews, NoTarget, Targets, NoPicture, Pictures, Spots, None

LEMMA Submitted ==
    ASSUME NEW p \in States, NEW c \in Commands
    PROVE  /\ Submit(p, c) \in States /\ Submit(p, c).ui = p.ui
           /\ Submit(p, c).pending = c /\ Submit(p, c).slot = p.slot
           /\ SubmitClearing(p, c) \in States /\ SubmitClearing(p, c).ui = p.ui
           /\ SubmitClearing(p, c).pending = c /\ SubmitClearing(p, c).slot = NoResult
BY DEF Submit, SubmitClearing, States

LEMMA InvalidateParts ==
    ASSUME NEW p \in States
    PROVE  /\ Invalidate(p) \in States
           /\ Invalidate(p).pending = Stop /\ Invalidate(p).slot = NoResult
           /\ Invalidate(p).ui.session = p.ui.session + 1
           /\ Invalidate(p).ui.target = NoTarget /\ Invalidate(p).ui.picture = NoPicture
           /\ ~Invalidate(p).ui.inFlight /\ Invalidate(p).ui.failed = FALSE
<1> DEFINE u == [Idle EXCEPT !.session = p.ui.session + 1]
           r == [p EXCEPT !.ui = u]
           q == Invalidate(p)
<1>1. p.ui.session \in Nat
  BY DEF States, Previews
<1>2. u \in Previews
  BY <1>1, IdleTypes
<1>3. r \in States /\ r.ui = u
  BY <1>2 DEF States
<1>4. /\ u.target = NoTarget /\ u.picture = NoPicture /\ ~u.inFlight /\ u.failed = FALSE
      /\ u.session = p.ui.session + 1
  BY DEF Idle
<1>5. q = SubmitClearing(r, Stop)
  BY DEF Invalidate
<1> HIDE DEF u, r, q
<1>6. q \in States /\ q.ui = u /\ q.pending = Stop /\ q.slot = NoResult
  BY <1>3, <1>5, Submitted, CommandTypes
<1> QED
  BY <1>4, <1>6 DEF q

LEMMA StopFine ==
    ASSUME NEW p \in States, NEW rs, Older(p, rs), Worker, Known,
           \A i \in DOMAIN rs : rs[i].session \in Nat
    PROVE  Fine(Invalidate(p), rs) /\ Settled(Invalidate(p))
<1> DEFINE q == Invalidate(p)
<1>1. /\ q \in States /\ q.pending = Stop /\ q.slot = NoResult
      /\ q.ui.session = p.ui.session + 1 /\ q.ui.target = NoTarget
      /\ q.ui.picture = NoPicture /\ ~q.ui.inFlight
  BY InvalidateParts
<1> HIDE DEF q
<1>2. p.ui.session \in Nat
  BY DEF States, Previews
<1>3. Latest(q) = Stop
  BY <1>1, CommandTypes DEF Latest
<1>4. Aims(q) /\ Pictured(q) /\ Book(q) /\ Video(q, rs) /\ Ended(q) /\ Settled(q)
  BY <1>1, <1>3 DEF Aims, Pictured, Book, Video, Ended, Settled, NoTarget
<1>5. Older(q, rs)
  <2>1. NoResult.session = -1
    BY DEF NoResult, Result, NoCommand, Command, None
  <2>2. deferred.session \in Int /\ job.cmd.session \in Int /\ moving.id.session \in Int
    BY CommandTypes
    DEF Worker, Jobs, NoJob, Animations, NoMoving, NoSession, Opened, Requests, None
  <2> QED
    BY <1>1, <1>2, <2>1, <2>2, CommandTypes DEF Older
<1> QED
  BY <1>1, <1>4, <1>5 DEF Fine, q

\* What the marks that matter here say is all the same after the step.
LEMMA Kept ==
    ASSUME NEW p, NEW rs, Fine(p, rs), NEW q \in States,
           q.pending = p.pending, q.slot = p.slot,
           q.ui.session = p.ui.session, q.ui.target = p.ui.target,
           q.ui.picture = p.ui.picture, q.ui.shown = p.ui.shown,
           q.ui.inFlight = p.ui.inFlight, q.ui.asked = p.ui.asked,
           q.ui.waiting = p.ui.waiting, q.ui.failed = p.ui.failed,
           q.ui.placeFailed => p.ui.placeFailed
    PROVE  Fine(q, rs)
<1>1. Latest(q) = Latest(p)
  BY DEF Latest
<1>2. Aims(q) /\ Older(q, rs) /\ Pictured(q) /\ Ended(q)
  BY <1>1 DEF Fine, Aims, Older, Pictured, Ended
<1>3. Book(q)
  BY <1>1 DEF Fine, Book, PageComing, Mine
<1>4. SceneComing(p, rs) => SceneComing(q, rs)
  BY <1>1 DEF SceneComing, Mine, NoneIn
<1>5. SceneNotAsked(p, rs) => SceneNotAsked(q, rs)
  BY <1>1 DEF SceneNotAsked, Unused, NoneIn
<1>6. Video(q, rs)
  BY <1>4, <1>5 DEF Fine, Video
<1> QED
  BY <1>2, <1>3, <1>6 DEF Fine

\* An animated image marks what it asked for as well, but nothing here rests on
\* those marks.
LEMMA Moves ==
    ASSUME NEW p, NEW rs, Fine(p, rs), p.ui.target.kind = "animated", NEW q \in States,
           q.ui.session = p.ui.session, q.ui.target = p.ui.target, Pictured(q),
           q.pending.session <= p.ui.session, q.slot.session <= p.ui.session
    PROVE  Fine(q, rs) /\ Settled(q)
<1>1. q.ui.target # NoTarget
  BY DEF NoTarget
<1> QED
  BY <1>1 DEF Fine, Aims, Older, Book, Video, Ended, Settled

LEMMA AskType ==
    ASSUME NEW p \in States, p.ui.target # NoTarget, NEW op \in Ops, NEW at \in Spots,
           NEW mask \in SUBSET Spots
    PROVE  /\ Ask(p, op, at, mask) \in Requests /\ Ask(p, op, at, mask) \in Commands
           /\ Ask(p, op, at, mask).session = p.ui.session
           /\ Ask(p, op, at, mask).op = op
           /\ Ask(p, op, at, mask).at = at
           /\ Ask(p, op, at, mask).book = p.ui.target.book
           /\ Ask(p, op, at, mask).rev = p.ui.target.rev
BY DEF Ask, Command, States, Previews, Targets, Requests, Commands

CellSet == [book : Books, kind : {"video", "static", "animated"}, mode : {"Auto", "Scrub"},
            at : Spots]
LEMMA CellTypes == \A b \in Books : Cells(b) \subseteq CellSet
BY DEF Cells, CellSet, Spots

LEMMA SubmitFits ==
    ASSUME NEW p, NEW rs, Fine(p, rs), p.ui.target.kind = "animated",
           NEW q \in States, q.ui.session = p.ui.session, q.ui.target = p.ui.target,
           Pictured(q), q.slot.session <= p.ui.session,
           NEW op \in Ops, NEW at \in Spots, NEW mask \in SUBSET Spots
    PROVE  /\ Fine(SubmitClearing(q, Ask(q, op, at, mask)), rs)
           /\ Settled(SubmitClearing(q, Ask(q, op, at, mask)))
           /\ Fine(Submit(q, Ask(q, op, at, mask)), rs)
           /\ Settled(Submit(q, Ask(q, op, at, mask)))
<1> DEFINE c == Ask(q, op, at, mask)
<1>1. q.ui.target # NoTarget
  BY DEF NoTarget
<1>2. c \in Commands /\ c.session = p.ui.session
  BY <1>1, AskType
<1>3. /\ Submit(q, c) \in States /\ Submit(q, c).ui = q.ui
      /\ Submit(q, c).pending = c /\ Submit(q, c).slot = q.slot
      /\ SubmitClearing(q, c) \in States /\ SubmitClearing(q, c).ui = q.ui
      /\ SubmitClearing(q, c).pending = c /\ SubmitClearing(q, c).slot = NoResult
  BY <1>2, Submitted
<1>4. NoResult.session <= p.ui.session /\ p.ui.session \in Nat
  BY DEF NoResult, Result, NoCommand, Command, None, Fine, States, Previews
<1> HIDE DEF c
<1>5. Pictured(Submit(q, c)) /\ Pictured(SubmitClearing(q, c))
  BY <1>3 DEF Pictured
<1>6. Fine(Submit(q, c), rs) /\ Settled(Submit(q, c))
  BY <1>2, <1>3, <1>4, <1>5, Moves
<1>7. Fine(SubmitClearing(q, c), rs) /\ Settled(SubmitClearing(q, c))
  BY <1>2, <1>3, <1>4, <1>5, Moves
<1> QED
  BY <1>6, <1>7 DEF c

LEMMA NewTargetFine ==
    ASSUME NEW p, NEW rs, Fine(p, rs), NEW c \in CellSet, Worker, Known,
           \A i \in DOMAIN rs : rs[i].session \in Nat
    PROVE  Fine(NewTarget(p, c), rs)
<1> DEFINE w == ~ (c.kind = "static" \/ (c.kind = "animated" /\ c.mode = "Scrub"))
           s == Invalidate(p)
           q == [s EXCEPT !.ui.target = TargetOf(c), !.ui.mode = c.mode, !.ui.want = c.at,
                          !.ui.waiting = w]
<1>1. p \in States /\ Older(p, rs) /\ p.ui.session \in Nat
  BY DEF Fine, States, Previews
<1>2. /\ s \in States /\ s.pending = Stop /\ s.slot = NoResult
      /\ s.ui.session = p.ui.session + 1 /\ s.ui.picture = NoPicture /\ ~s.ui.inFlight
      /\ s.ui.failed = FALSE
  BY <1>1, InvalidateParts
<1>3. NewTarget(p, c) = q
  BY DEF NewTarget, CellSet, NoCell
<1>4. TargetOf(c) \in Targets /\ TargetOf(c).rev = list[c.book] /\ TargetOf(c).book = c.book
  BY DEF TargetOf, Targets, CellSet, Known
<1>5. TargetOf(c).kind = "video" => w
  BY DEF TargetOf
<1> HIDE DEF s
<1>6. /\ q \in States /\ q.pending = Stop /\ q.slot = NoResult /\ q.ui.target = TargetOf(c)
      /\ q.ui.session = p.ui.session + 1 /\ q.ui.picture = NoPicture /\ ~q.ui.inFlight
      /\ q.ui.failed = FALSE /\ q.ui.waiting = w
  <2>1. w \in BOOLEAN
    OBVIOUS
  <2> HIDE DEF w
  <2> QED
    BY <1>2, <1>4, <2>1 DEF States, Previews, CellSet
<1> HIDE DEF q, w
<1>7. Latest(q) = Stop
  BY <1>6, CommandTypes DEF Latest
<1>8. NoResult.session = -1
  BY DEF NoResult, Result, NoCommand, Command, None
<1>9. deferred.session \in Int /\ job.cmd.session \in Int /\ moving.id.session \in Int
  BY CommandTypes
  DEF Worker, Jobs, NoJob, Animations, NoMoving, NoSession, Opened, Requests, None
<1>10. Older(q, rs) /\ Unused(q, rs)
  BY <1>1, <1>6, <1>8, <1>9, CommandTypes DEF Older, Unused, NoneIn
<1>11. Video(q, rs)
  BY <1>1, <1>5, <1>6, <1>8, <1>10 DEF Video, SceneNotAsked
<1>12. Aims(q) /\ Pictured(q) /\ Book(q) /\ Ended(q)
  <2>1. list[c.book] \in Nat
    BY DEF Known, CellSet
  <2>2. Aims(q)
    BY <1>4, <1>6, <2>1 DEF Aims
  <2> QED
    BY <1>4, <1>6, <1>7, <2>2 DEF Pictured, Book, Ended
<1> QED
  BY <1>3, <1>6, <1>10, <1>11, <1>12 DEF Fine

LEMMA SwitchModeFine ==
    ASSUME NEW p, NEW rs, Fine(p, rs), p.ui.target.kind = "animated"
    PROVE  Fine(SwitchMode(p), rs)
<1> DEFINE q == [p EXCEPT !.ui.placeFailed = FALSE, !.ui.shown = None, !.ui.submitted = None,
                          !.ui.mask = {}, !.ui.waiting = FALSE]
           r == [q EXCEPT !.ui.lastFrame = None, !.ui.asked = None, !.ui.inFlight = FALSE]
<1>1. p \in States /\ Pictured(p) /\ p.pending.session <= p.ui.session
      /\ p.slot.session <= p.ui.session
  BY DEF Fine, Older
<1>2. /\ q \in States /\ q.ui.session = p.ui.session /\ q.ui.target = p.ui.target
      /\ q.pending = p.pending /\ q.slot = p.slot
      /\ q.ui.picture = p.ui.picture /\ q.ui.shown = None
  BY <1>1, ZenonT(60) DEF States, Previews, Spots
<1>3. SwitchMode(p) = IF p.ui.mode = "Scrub" THEN q
                      ELSE IF p.ui.started
                        THEN SubmitClearing(r, Ask(r, "AnimatedAuto", None, {})) ELSE r
  BY DEF SwitchMode
<1> HIDE DEF q
<1>4. /\ r \in States /\ r.ui.session = p.ui.session /\ r.ui.target = p.ui.target
      /\ r.pending = p.pending /\ r.slot = p.slot
      /\ r.ui.picture = p.ui.picture /\ r.ui.shown = None
  <2>1. None \in Spots /\ None \in Nat \cup {None}
    BY DEF Spots
  <2> QED
    BY <1>2, <2>1 DEF States, Previews
<1> HIDE DEF r
<1>5. Pictured(q) /\ Pictured(r)
  BY <1>1, <1>2, <1>4 DEF Pictured
<1>6. Fine(q, rs) /\ Fine(r, rs)
  BY <1>1, <1>2, <1>4, <1>5, Moves
<1>7. Fine(SubmitClearing(r, Ask(r, "AnimatedAuto", None, {})), rs)
  BY <1>1, <1>4, <1>5, SubmitFits DEF Ops, Spots
<1> QED
  BY <1>3, <1>6, <1>7

LEMMA HoverFine ==
    ASSUME NEW p, NEW rs, Fine(p, rs), NEW c \in CellSet \cup {NoCell}, Worker, Known,
           \A i \in DOMAIN rs : rs[i].session \in Nat
    PROVE  Fine(Hover(p, c), rs)
<1>1. p \in States /\ Older(p, rs)
  BY DEF Fine
<1>2. CASE c = NoCell
  BY <1>1, <1>2, StopFine DEF Hover, NewTarget
<1>3. CASE c # NoCell /\ p.ui.target # TargetOf(c)
  BY <1>3, NewTargetFine DEF Hover
<1>4. CASE c # NoCell /\ p.ui.target = TargetOf(c)
  <2>1. c \in CellSet /\ p.ui.target.kind = c.kind
    BY <1>4 DEF TargetOf
  <2>2. CASE c.kind = "video"
    <3>1. Hover(p, c) = SameVideo(p, c)
      BY <1>4, <2>2 DEF Hover
    <3>2. Fine(SameVideo(p, c), rs)
      <4> DEFINE q == SameVideo(p, c)
      <4>1. /\ q \in States /\ q.pending = p.pending /\ q.slot = p.slot
            /\ q.ui.session = p.ui.session /\ q.ui.target = p.ui.target
            /\ q.ui.picture = p.ui.picture /\ q.ui.shown = p.ui.shown
            /\ q.ui.inFlight = p.ui.inFlight /\ q.ui.asked = p.ui.asked
            /\ q.ui.waiting = p.ui.waiting /\ q.ui.failed = p.ui.failed
            /\ q.ui.placeFailed = p.ui.placeFailed
        BY <1>1, <2>1 DEF SameVideo, States, Previews, CellSet
      <4> HIDE DEF q
      <4>2. Fine(q, rs)
        BY <4>1, Kept
      <4> QED
        BY <4>2 DEF q
    <3> QED
      BY <3>1, <3>2
  <2>3. CASE c.kind = "static"
    <3>1. Hover(p, c) = SameBook(p, c)
      BY <1>4, <2>3 DEF Hover
    <3>2. Fine(SameBook(p, c), rs)
      <4> DEFINE q == SameBook(p, c)
      <4>1. /\ q \in States /\ q.pending = p.pending /\ q.slot = p.slot
            /\ q.ui.session = p.ui.session /\ q.ui.target = p.ui.target
            /\ q.ui.picture = p.ui.picture /\ q.ui.shown = p.ui.shown
            /\ q.ui.inFlight = p.ui.inFlight /\ q.ui.asked = p.ui.asked
            /\ q.ui.waiting = p.ui.waiting /\ q.ui.failed = p.ui.failed
            /\ q.ui.placeFailed => p.ui.placeFailed
        BY <1>1, <2>1 DEF SameBook, States, Previews, CellSet
      <4> HIDE DEF q
      <4>2. Fine(q, rs)
        BY <4>1, Kept
      <4> QED
        BY <4>2 DEF q
    <3> QED
      BY <3>1, <3>2
  <2>4. CASE c.kind = "animated"
    <3> DEFINE q == [p EXCEPT !.ui.mode = c.mode, !.ui.want = c.at,
                              !.ui.placeFailed = @ /\ p.ui.want = c.at]
    <3>1. Hover(p, c) = IF p.ui.mode # c.mode THEN SwitchMode(q) ELSE q
      BY <1>4, <2>4 DEF Hover, SameAnimated
    <3>2. /\ q \in States /\ q.pending = p.pending /\ q.slot = p.slot
          /\ q.ui.session = p.ui.session /\ q.ui.target = p.ui.target
          /\ q.ui.picture = p.ui.picture /\ q.ui.shown = p.ui.shown
          /\ q.ui.inFlight = p.ui.inFlight /\ q.ui.asked = p.ui.asked
          /\ q.ui.waiting = p.ui.waiting /\ q.ui.failed = p.ui.failed
          /\ q.ui.placeFailed => p.ui.placeFailed
      BY <1>1, <2>1 DEF States, Previews, CellSet
    <3> HIDE DEF q
    <3>3. Fine(q, rs) /\ q.ui.target.kind = "animated"
      BY <2>1, <2>4, <3>2, Kept
    <3> QED
      BY <3>1, <3>3, SwitchModeFine
  <2> QED
    BY <2>1, <2>2, <2>3, <2>4 DEF CellSet
<1> QED
  BY <1>2, <1>3, <1>4

LEMMA NoneTypes ==
    /\ NoCommand.session = -1 /\ NoResult.session = -1 /\ NoResult.kind = "none"
    /\ NoJob.cmd = NoCommand /\ NoJob.what = "none"
    /\ NoMoving.id.session = -1 /\ NoSession.session = -1
    /\ \A o \in Opened : o # NoSession
    /\ \A m \in Animations : m # NoMoving
    /\ \A j \in Jobs : j # NoJob
BY DEF NoResult, Result, NoCommand, Command, NoJob, NoMoving, NoSession, Opened, Animations, Jobs,
       None

\* A scene is asked for: the first when the pointer has rested, the next when the
\* last has been answered.
LEMMA AskSceneFine ==
    ASSUME NEW p, NEW rs, Fine(p, rs), p.ui.target.kind = "video", ~p.ui.failed, ~p.ui.inFlight,
           NEW scene \in Spots, NEW op \in {"StartVideo", "VideoScene"},
           op = "StartVideo" <=> p.ui.waiting, Worker
    PROVE  /\ Fine(AskScene([p EXCEPT !.ui.waiting = FALSE], scene, op), rs)
           /\ Settled(AskScene([p EXCEPT !.ui.waiting = FALSE], scene, op))
<1> DEFINE q0 == [p EXCEPT !.ui.waiting = FALSE]
           q == [q0 EXCEPT !.ui.inFlight = TRUE, !.ui.asked = scene]
           c == Ask(q, op, scene, {})
           r == AskScene(q0, scene, op)
<1>1. p \in States /\ p.ui.session \in Nat /\ p.ui.target # NoTarget
  BY DEF Fine, States, Previews, NoTarget
<1>2. q0 \in States /\ q0.ui.waiting = FALSE /\ q0.pending = p.pending /\ q0.slot = p.slot
      /\ q0.ui.session = p.ui.session /\ q0.ui.target = p.ui.target
      /\ q0.ui.picture = p.ui.picture /\ q0.ui.shown = p.ui.shown /\ q0.ui.failed = p.ui.failed
  BY <1>1 DEF States, Previews
<1> HIDE DEF q0
<1>3. q \in States /\ q.ui.waiting = FALSE /\ q.pending = p.pending /\ q.slot = p.slot
      /\ q.ui.session = p.ui.session /\ q.ui.target = p.ui.target
      /\ q.ui.picture = p.ui.picture /\ q.ui.shown = p.ui.shown /\ q.ui.failed = p.ui.failed
      /\ q.ui.inFlight = TRUE /\ q.ui.asked = scene
  BY <1>2 DEF States, Previews
<1>4. r = IF op = "StartVideo" THEN SubmitClearing(q, c) ELSE Submit(q, c)
  BY DEF AskScene
<1> HIDE DEF q, r
<1>5. /\ c \in Requests /\ c \in Commands /\ c.session = p.ui.session /\ c.op = op
      /\ c.at = scene /\ c.book = p.ui.target.book /\ c.rev = p.ui.target.rev
  BY <1>1, <1>3, AskType DEF Ops
<1> HIDE DEF c
<1>6. r \in States /\ r.ui = q.ui /\ r.pending = c /\ r.slot \in {NoResult, p.slot}
  BY <1>3, <1>4, <1>5, Submitted
<1>7. Latest(r) = c /\ Mine(r, c)
  BY <1>3, <1>5, <1>6, CommandTypes DEF Latest, Mine
<1>8. /\ p.slot.session # p.ui.session /\ SceneNotAsked(p, rs)
      /\ job.cmd.session # p.ui.session /\ NoneIn(p, rs)
  BY <1>1, NoneTypes DEF Fine, Video, SceneNotAsked, Unused
<1>9. SceneComing(r, rs)
  <2>1. NoneIn(r, rs)
    BY <1>3, <1>6, <1>8 DEF NoneIn
  <2>2. CASE op = "StartVideo"
    BY <1>3, <1>5, <1>6, <1>7, <1>8, <2>1, <2>2 DEF SceneComing, SceneNotAsked
  <2>3. CASE op = "VideoScene"
    BY <1>3, <1>5, <1>6, <1>7, <1>8, <2>1, <2>3 DEF SceneComing, SceneNotAsked
  <2> QED
    BY <2>2, <2>3
<1>10. Video(r, rs)
  BY <1>1, <1>3, <1>6, <1>8, <1>9, NoneTypes DEF Video
<1>11. Older(r, rs)
  BY <1>1, <1>3, <1>5, <1>6, NoneTypes DEF Fine, Older
<1>12. Aims(r) /\ Pictured(r) /\ Book(r) /\ Ended(r) /\ Settled(r)
  BY <1>1, <1>3, <1>6 DEF Fine, Aims, Pictured, Book, Ended, Settled
<1> QED
  BY <1>6, <1>10, <1>11, <1>12 DEF Fine, r, q0

LEMMA UpdateVideoFine ==
    ASSUME NEW p, NEW rs, Fine(p, rs), p.ui.target.kind = "video", NEW elapsed \in BOOLEAN,
           NEW scene \in Spots, 0 \in Spots, Worker
    PROVE  Fine(UpdateVideo(p, elapsed, scene), rs) /\ Settled(UpdateVideo(p, elapsed, scene))
<1>1. p \in States /\ p.ui.want \in Spots /\ p.ui.waiting \in BOOLEAN
  BY DEF Fine, States, Previews
<1>2. p.ui.waiting /\ ~p.ui.failed => ~p.ui.inFlight
  BY DEF Fine, Video
<1>3. ~p.ui.waiting => [p EXCEPT !.ui.waiting = FALSE] = p
  BY <1>1 DEF States, Previews
<1>7. Settled(p)
  BY DEF Settled
<1>4. CASE ~p.ui.failed /\ p.ui.waiting /\ elapsed
  <2> DEFINE s == IF p.ui.mode = "Scrub" THEN p.ui.want ELSE 0
  <2>1. UpdateVideo(p, elapsed, scene) = AskScene([p EXCEPT !.ui.waiting = FALSE], s, "StartVideo")
    BY <1>4 DEF UpdateVideo
  <2>2. s \in Spots
    BY <1>1
  <2> HIDE DEF s
  <2> QED
    BY <1>2, <1>4, <2>1, <2>2, AskSceneFine
<1>5. CASE ~p.ui.failed /\ ~p.ui.waiting /\ ~p.ui.inFlight
  <2> DEFINE s == IF p.ui.mode = "Scrub" THEN p.ui.want ELSE scene
  <2>1. UpdateVideo(p, elapsed, scene) \in {p, AskScene(p, s, "VideoScene")}
    BY <1>5 DEF UpdateVideo
  <2>2. s \in Spots
    BY <1>1
  <2> HIDE DEF s
  <2>3. /\ Fine(AskScene([p EXCEPT !.ui.waiting = FALSE], s, "VideoScene"), rs)
        /\ Settled(AskScene([p EXCEPT !.ui.waiting = FALSE], s, "VideoScene"))
    BY <1>5, <2>2, AskSceneFine
  <2> QED
    BY <1>3, <1>5, <1>7, <2>1, <2>3
<1>6. CASE p.ui.failed \/ (p.ui.waiting /\ ~elapsed) \/ (~p.ui.waiting /\ p.ui.inFlight)
  BY <1>6, <1>7 DEF UpdateVideo
<1> QED
  BY <1>4, <1>5, <1>6

LEMMA AskPageFine ==
    ASSUME NEW p, NEW rs, Fine(p, rs), p.ui.target.kind = "static", ~p.ui.placeFailed,
           NEW op \in {"StartStatic", "StaticPage"}, NEW q \in States,
           q.slot = p.slot, q.ui.session = p.ui.session, q.ui.target = p.ui.target,
           q.ui.picture = p.ui.picture, q.ui.shown = p.ui.shown,
           q.ui.inFlight = TRUE, q.ui.asked = p.ui.want, q.ui.want = p.ui.want,
           q.ui.placeFailed = p.ui.placeFailed
    PROVE  /\ Fine(Submit(q, Ask(q, op, p.ui.want, {})), rs)
           /\ Settled(Submit(q, Ask(q, op, p.ui.want, {})))
           /\ Fine(SubmitClearing(q, Ask(q, op, p.ui.want, {})), rs)
           /\ Settled(SubmitClearing(q, Ask(q, op, p.ui.want, {})))
<1> DEFINE c == Ask(q, op, p.ui.want, {})
<1>1. p \in States /\ p.ui.session \in Nat /\ p.ui.target # NoTarget /\ p.ui.want \in Spots
  BY DEF Fine, States, Previews, NoTarget
<1>3. /\ c \in Requests /\ c \in Commands /\ c.session = p.ui.session /\ c.op = op
      /\ c.at = p.ui.want /\ c.book = p.ui.target.book /\ c.rev = p.ui.target.rev
  <2>1. op \in Ops /\ {} \in SUBSET Spots /\ q.ui.target # NoTarget
    BY <1>1 DEF Ops
  <2>2. /\ c \in Requests /\ c \in Commands /\ c.session = q.ui.session /\ c.op = op
        /\ c.at = p.ui.want /\ c.book = q.ui.target.book /\ c.rev = q.ui.target.rev
    BY <1>1, <2>1, AskType
  <2> QED
    BY <2>2
<1> HIDE DEF c
<1>4. ASSUME NEW r \in States, r.ui = q.ui, r.pending = c, r.slot \in {NoResult, p.slot}
      PROVE  Fine(r, rs) /\ Settled(r)
  <2>1. Latest(r) = c /\ Mine(r, c)
    BY <1>3, <1>4, CommandTypes DEF Latest, Mine
  <2>2. Book(r) /\ Settled(r)
    BY <1>3, <1>4, <2>1 DEF Book, PageComing, Settled
  <2>3. Older(r, rs)
    BY <1>1, <1>3, <1>4, NoneTypes DEF Fine, Older
  <2>4. Aims(r) /\ Pictured(r) /\ Video(r, rs) /\ Ended(r)
    BY <1>1, <1>4 DEF Fine, Aims, Pictured, Video, Ended
  <2> QED
    BY <1>4, <2>2, <2>3, <2>4 DEF Fine
<1>5. /\ Submit(q, c) \in States /\ Submit(q, c).ui = q.ui
      /\ Submit(q, c).pending = c /\ Submit(q, c).slot = p.slot
      /\ SubmitClearing(q, c) \in States /\ SubmitClearing(q, c).ui = q.ui
      /\ SubmitClearing(q, c).pending = c /\ SubmitClearing(q, c).slot = NoResult
  BY <1>3, Submitted
<1> QED
  BY <1>4, <1>5 DEF c

LEMMA UpdateStaticFine ==
    ASSUME NEW p, NEW rs, Fine(p, rs), p.ui.target.kind = "static"
    PROVE  Fine(UpdateStatic(p), rs) /\ Settled(UpdateStatic(p))
<1> DEFINE q == [p EXCEPT !.ui.inFlight = TRUE, !.ui.asked = p.ui.want]
<1>1. p.ui.placeFailed => ~p.ui.inFlight
  BY DEF Fine, Book
<1>2. CASE p.ui.placeFailed \/ (p.ui.inFlight /\ p.ui.asked = p.ui.want)
           \/ (~p.ui.inFlight /\ p.ui.shown = p.ui.want)
  BY <1>1, <1>2 DEF UpdateStatic, Settled
<1>3. CASE /\ ~p.ui.placeFailed /\ (p.ui.inFlight => p.ui.asked # p.ui.want)
           /\ (~p.ui.inFlight => p.ui.shown # p.ui.want)
  <2>1. UpdateStatic(p) \in {Submit(q, Ask(q, "StaticPage", p.ui.want, {})),
                             SubmitClearing(q, Ask(q, "StartStatic", p.ui.want, {}))}
    BY <1>3 DEF UpdateStatic
  <2>2. /\ q \in States /\ q.slot = p.slot
        /\ q.ui.session = p.ui.session /\ q.ui.target = p.ui.target
        /\ q.ui.picture = p.ui.picture /\ q.ui.shown = p.ui.shown
        /\ q.ui.inFlight = TRUE /\ q.ui.asked = p.ui.want /\ q.ui.want = p.ui.want
        /\ q.ui.placeFailed = p.ui.placeFailed
    BY DEF Fine, States, Previews
  <2> HIDE DEF q
  <2>3. ASSUME NEW op \in {"StartStatic", "StaticPage"}
        PROVE  /\ Fine(Submit(q, Ask(q, op, p.ui.want, {})), rs)
               /\ Settled(Submit(q, Ask(q, op, p.ui.want, {})))
               /\ Fine(SubmitClearing(q, Ask(q, op, p.ui.want, {})), rs)
               /\ Settled(SubmitClearing(q, Ask(q, op, p.ui.want, {})))
    BY <1>3, <2>2, AskPageFine
  <2> QED
    BY <2>1, <2>3
<1> QED
  BY <1>2, <1>3

LEMMA AskBucketFine ==
    ASSUME NEW p, NEW rs, Fine(p, rs), p.ui.target.kind = "animated"
    PROVE  Fine(AskBucket(p), rs) /\ Settled(AskBucket(p))
<1> DEFINE q == [p EXCEPT !.ui.inFlight = TRUE, !.ui.asked = p.ui.want,
                          !.ui.submitted = p.ui.want]
           s == [q EXCEPT !.ui.started = TRUE]
           mask == IF p.ui.inFlight /\ p.ui.asked \notin {None, p.ui.want}
                     THEN q.ui.mask \cup {p.ui.asked} ELSE q.ui.mask
           r == [q EXCEPT !.ui.mask = mask]
<1>1. /\ p \in States /\ p.ui.want \in Spots /\ p.ui.asked \in Spots /\ Pictured(p)
      /\ p.ui.session \in Nat /\ p.slot.session <= p.ui.session /\ p.ui.mask \in SUBSET Spots
  BY DEF Fine, States, Previews, Older
<1>2. /\ q \in States /\ q.ui.session = p.ui.session /\ q.ui.target = p.ui.target
      /\ q.slot = p.slot /\ q.ui.picture = p.ui.picture /\ q.ui.shown = p.ui.shown
      /\ q.ui.mask \in SUBSET Spots
  BY <1>1 DEF States, Previews
<1>3. AskBucket(p) = IF p.ui.started
                     THEN SubmitClearing(r, Ask(r, "AnimatedScrub", p.ui.want, r.ui.mask))
                     ELSE SubmitClearing(s, Ask(q, "StartAnimated", p.ui.want, p.ui.mask))
  BY DEF AskBucket
<1> HIDE DEF q
<1>4. /\ s \in States /\ s.ui.session = p.ui.session /\ s.ui.target = p.ui.target
      /\ s.slot = p.slot /\ s.ui.picture = p.ui.picture /\ s.ui.shown = p.ui.shown
  BY <1>2 DEF States, Previews
<1>5. mask \in SUBSET Spots
  BY <1>1, <1>2
<1> HIDE DEF mask
<1>6. /\ r \in States /\ r.ui.session = p.ui.session /\ r.ui.target = p.ui.target
      /\ r.slot = p.slot /\ r.ui.picture = p.ui.picture /\ r.ui.shown = p.ui.shown
      /\ r.ui.mask \in SUBSET Spots
  BY <1>2, <1>5 DEF States, Previews
<1>7. Ask(q, "StartAnimated", p.ui.want, p.ui.mask) = Ask(s, "StartAnimated", p.ui.want, p.ui.mask)
  BY <1>2, <1>4 DEF Ask
<1> HIDE DEF r, s
<1>8. Pictured(r) /\ Pictured(s)
  BY <1>1, <1>4, <1>6 DEF Pictured
<1>9. /\ Fine(SubmitClearing(r, Ask(r, "AnimatedScrub", p.ui.want, r.ui.mask)), rs)
      /\ Settled(SubmitClearing(r, Ask(r, "AnimatedScrub", p.ui.want, r.ui.mask)))
  BY <1>1, <1>6, <1>8, SubmitFits DEF Ops
<1>10. /\ Fine(SubmitClearing(s, Ask(s, "StartAnimated", p.ui.want, p.ui.mask)), rs)
       /\ Settled(SubmitClearing(s, Ask(s, "StartAnimated", p.ui.want, p.ui.mask)))
  BY <1>1, <1>4, <1>8, SubmitFits DEF Ops
<1> QED
  BY <1>3, <1>7, <1>9, <1>10

LEMMA CancelScrubFine ==
    ASSUME NEW p, NEW rs, Fine(p, rs), p.ui.target.kind = "animated"
    PROVE  Fine(CancelScrub(p), rs) /\ Settled(CancelScrub(p))
<1> DEFINE at == IF p.ui.asked # None THEN p.ui.asked
                 ELSE IF p.ui.submitted # None THEN p.ui.submitted ELSE p.ui.want
           mask == IF p.ui.inFlight THEN p.ui.mask \cup {at} ELSE p.ui.mask
           q == [p EXCEPT !.ui.mask = mask]
           t == [q EXCEPT !.pending = NoCommand, !.ui.inFlight = FALSE,
                          !.ui.asked = None, !.ui.submitted = None]
           r == IF Cancellable(p, at) THEN t ELSE q
<1>1. /\ p \in States /\ p.ui.want \in Spots /\ p.ui.asked \in Spots /\ p.ui.submitted \in Spots
      /\ Pictured(p) /\ p.ui.session \in Nat /\ p.slot.session <= p.ui.session
      /\ p.pending.session <= p.ui.session /\ p.ui.mask \in SUBSET Spots
  BY DEF Fine, States, Previews, Older
<1>2. mask \in SUBSET Spots
  BY <1>1
<1>3. CancelScrub(p) = IF r.ui.mask = {} THEN r
                       ELSE SubmitIfIdle(r, Ask(r, "AnimatedAbandon", None, r.ui.mask))
  BY <1>1 DEF CancelScrub, States, Previews
<1> HIDE DEF mask, at
<1>4. /\ q \in States /\ q.ui.session = p.ui.session /\ q.ui.target = p.ui.target
      /\ q.slot = p.slot /\ q.ui.picture = p.ui.picture /\ q.ui.shown = p.ui.shown
      /\ q.ui.mask \in SUBSET Spots /\ q.pending = p.pending
  BY <1>1, <1>2 DEF States, Previews
<1> HIDE DEF q
<1>5. /\ t \in States /\ t.ui.session = p.ui.session /\ t.ui.target = p.ui.target
      /\ t.slot = p.slot /\ t.ui.picture = p.ui.picture /\ t.ui.shown = p.ui.shown
      /\ t.ui.mask \in SUBSET Spots /\ t.pending = NoCommand
  <2>1. None \in Spots /\ NoCommand \in Commands
    BY DEF Spots, Commands
  <2> QED
    BY <1>4, <2>1 DEF States, Previews
<1> HIDE DEF t
<1>6. /\ r \in States /\ r.ui.session = p.ui.session /\ r.ui.target = p.ui.target
      /\ r.slot = p.slot /\ r.ui.picture = p.ui.picture /\ r.ui.shown = p.ui.shown
      /\ r.ui.mask \in SUBSET Spots /\ r.pending.session <= p.ui.session
  BY <1>1, <1>4, <1>5, NoneTypes
<1> HIDE DEF r
<1>7. Pictured(r)
  BY <1>1, <1>6 DEF Pictured
<1>8. Fine(r, rs) /\ Settled(r)
  BY <1>1, <1>6, <1>7, Moves
<1>9. /\ Fine(Submit(r, Ask(r, "AnimatedAbandon", None, r.ui.mask)), rs)
      /\ Settled(Submit(r, Ask(r, "AnimatedAbandon", None, r.ui.mask)))
  BY <1>1, <1>6, <1>7, SubmitFits DEF Ops, Spots
<1> QED
  BY <1>3, <1>8, <1>9 DEF SubmitIfIdle

LEMMA UpdateAnimatedFine ==
    ASSUME NEW p, NEW rs, Fine(p, rs), p.ui.target.kind = "animated", NEW elapsed \in BOOLEAN
    PROVE  Fine(UpdateAnimated(p, elapsed), rs) /\ Settled(UpdateAnimated(p, elapsed))
<1> DEFINE a == [p EXCEPT !.ui.waiting = FALSE, !.ui.started = TRUE,
                          !.ui.submitted = None, !.ui.asked = None]
           q == [p EXCEPT !.ui.waiting = FALSE]
<1>1. /\ p \in States /\ Pictured(p) /\ p.ui.session \in Nat
      /\ p.slot.session <= p.ui.session /\ p.pending.session <= p.ui.session
  BY DEF Fine, States, Previews, Older
<1>2. /\ UpdateAnimated(p, elapsed) \in
           {p, SubmitClearing(a, Ask(a, "StartAnimated", None, {})), AskBucket(q),
            CancelScrub(q), q}
  BY DEF UpdateAnimated
<1>3. /\ a \in States /\ a.ui.session = p.ui.session /\ a.ui.target = p.ui.target
      /\ a.slot = p.slot /\ a.ui.picture = p.ui.picture /\ a.ui.shown = p.ui.shown
  <2>1. None \in Spots
    BY DEF Spots
  <2> QED
    BY <1>1, <2>1 DEF States, Previews
<1>4. /\ q \in States /\ q.ui.session = p.ui.session /\ q.ui.target = p.ui.target
      /\ q.slot = p.slot /\ q.ui.picture = p.ui.picture /\ q.ui.shown = p.ui.shown
      /\ q.pending = p.pending
  BY <1>1 DEF States, Previews
<1> HIDE DEF a, q
<1>5. Pictured(a) /\ Pictured(q)
  BY <1>1, <1>3, <1>4 DEF Pictured
<1>6. Fine(q, rs) /\ Settled(q) /\ Settled(p) /\ q.ui.target.kind = "animated"
  BY <1>1, <1>4, <1>5, Moves DEF Settled
<1>7. /\ Fine(AskBucket(q), rs) /\ Fine(CancelScrub(q), rs)
      /\ Settled(AskBucket(q)) /\ Settled(CancelScrub(q))
  BY <1>6, AskBucketFine, CancelScrubFine
<1>8. /\ Fine(SubmitClearing(a, Ask(a, "StartAnimated", None, {})), rs)
      /\ Settled(SubmitClearing(a, Ask(a, "StartAnimated", None, {})))
  BY <1>1, <1>3, <1>5, SubmitFits DEF Ops, Spots
<1> QED
  BY <1>2, <1>6, <1>7, <1>8

LEMMA UpdateFine ==
    ASSUME NEW p, NEW rs, Fine(p, rs), NEW elapsed \in BOOLEAN, NEW scene \in Spots, 0 \in Spots,
           Worker
    PROVE  Fine(Update(p, elapsed, scene), rs) /\ Settled(Update(p, elapsed, scene))
<1>1. CASE p.ui.target.kind = "static"
  BY <1>1, UpdateStaticFine DEF Update
<1>2. CASE p.ui.target.kind = "animated"
  BY <1>2, UpdateAnimatedFine DEF Update
<1>3. CASE p.ui.target.kind = "video"
  BY <1>3, UpdateVideoFine DEF Update
<1>4. CASE p.ui.target.kind \notin {"static", "animated", "video"}
  BY <1>4 DEF Update, Settled
<1> QED
  BY <1>1, <1>2, <1>3, <1>4

LEMMA Queue ==
    ASSUME NEW S, NEW rs \in Seq(S), rs # <<>>
    PROVE  /\ Head(rs) = rs[1] /\ 1 \in DOMAIN rs /\ Head(rs) \in S /\ Tail(rs) \in Seq(S)
           /\ \A i \in DOMAIN Tail(rs) : i + 1 \in DOMAIN rs /\ Tail(rs)[i] = rs[i + 1]
           /\ \A i \in DOMAIN rs : i # 1 => i - 1 \in DOMAIN Tail(rs) /\ Tail(rs)[i - 1] = rs[i]
OBVIOUS

\* An answer about a video: it is the one awaited, or it is dropped.
LEMMA HandleVideoFine ==
    ASSUME NEW p, NEW rs \in Seq(VideoAnswers), rs # <<>>, Fine(p, rs), Settled(p), Worker, Known
    PROVE  /\ Fine(HandleVideo(p, Head(rs)), Tail(rs))
           /\ Settled(HandleVideo(p, Head(rs)))
<1> DEFINE m == Head(rs)
           T == Tail(rs)
           fresh == OfTarget(p, m) /\ SourceMatches(m)
           q == Answered(p)
<1>1. /\ m = rs[1] /\ 1 \in DOMAIN rs /\ m \in VideoAnswers /\ T \in Seq(VideoAnswers)
      /\ \A i \in DOMAIN T : i + 1 \in DOMAIN rs /\ T[i] = rs[i + 1]
      /\ \A i \in DOMAIN rs : i # 1 => i - 1 \in DOMAIN T /\ T[i - 1] = rs[i]
  BY Queue
<1> HIDE DEF m, T
<1>2. /\ p \in States /\ p.ui \in Previews /\ p.ui.session \in Nat
      /\ m.session \in Nat /\ m.book \in Books /\ m.rev \in Nat /\ m.at \in Spots
      /\ m.kind \in {"Ready", "Failed"}
  BY <1>1 DEF Fine, States, Previews, VideoAnswers, Answer
<1>3. \A i \in DOMAIN T : T[i].session \in Nat
  <2>1. \A i \in DOMAIN T : T[i] \in VideoAnswers
    BY <1>1
  <2> QED
    BY <2>1 DEF VideoAnswers, Answer
<1>4. Older(p, T)
  BY <1>1 DEF Fine, Older
<1>5. NoneIn(p, rs) => NoneIn(p, T)
  BY <1>1 DEF NoneIn
<1>6. CASE OfSession(p, m) /\ ~fresh
  <2>1. HandleVideo(p, m) = Invalidate(p)
    BY <1>6 DEF HandleVideo
  <2> QED
    BY <1>2, <1>3, <1>4, <2>1, StopFine DEF m, T
<1>7. CASE ~(OfSession(p, m) /\ ~fresh) /\ (~fresh \/ ~VideoMatches(p, m))
  <2>1. HandleVideo(p, m) = p
    BY <1>7 DEF HandleVideo
  <2>2. ASSUME p.ui.inFlight, SceneComing(p, rs) PROVE SceneComing(p, T)
    <3>1. CASE NoneIn(p, rs)
      BY <1>5, <2>2, <3>1 DEF SceneComing, NoneIn, Mine
    <3>2. CASE ~NoneIn(p, rs)
      <4>1. PICK i \in DOMAIN rs :
              /\ Mine(p, rs[i])
              /\ \A j \in DOMAIN rs : j # i => rs[j].session # p.ui.session
              /\ \/ video.session = p.ui.session
                 \/ /\ rs[i].kind = "Failed"
                    /\ p.ui.picture = NoPicture \/ p.ui.target.rev < disk[p.ui.target.book]
        BY <2>2, <3>2 DEF SceneComing
      <4>2. Latest(p) = NoCommand /\ job = NoJob /\ moving = NoMoving
        BY <2>2, <3>2 DEF SceneComing
      <4>3. i # 1
        BY <1>1, <1>7, <2>2, <4>1 DEF Mine, OfSession, OfTarget, VideoMatches
      <4>4. i - 1 \in DOMAIN T /\ T[i - 1] = rs[i]
        BY <1>1, <4>3
      <4>5. \A j \in DOMAIN T : j # i - 1 => T[j].session # p.ui.session
        BY <1>1, <4>1
      <4> QED
        BY <4>1, <4>2, <4>4, <4>5 DEF SceneComing
    <3> QED
      BY <3>1, <3>2
  <2>3. SceneNotAsked(p, rs) => SceneNotAsked(p, T)
    BY <1>5 DEF SceneNotAsked, Unused
  <2>4. Video(p, T)
    BY <2>2, <2>3 DEF Fine, Video
  <2>5. Fine(p, T)
    BY <1>4, <2>4 DEF Fine
  <2> QED
    BY <2>1, <2>5 DEF m, T
<1>8. CASE fresh /\ VideoMatches(p, m)
  <2> DEFINE shown == [Show(q, m) EXCEPT !.ui.shown = m.at]
             failed == [q EXCEPT !.ui.failed = TRUE]
             stopped == StopWorker(failed)
             r == HandleVideo(p, m)
  <2>1. /\ p.ui.inFlight /\ p.ui.asked = m.at /\ p.ui.session = m.session
        /\ p.ui.target.book = m.book /\ p.ui.target.rev = m.rev /\ disk[m.book] = m.rev
    BY <1>8 DEF VideoMatches, OfTarget, SourceMatches
  <2>2. r = IF m.kind = "Ready" THEN shown
            ELSE IF p.ui.picture = NoPicture THEN stopped ELSE q
    BY <1>8 DEF HandleVideo
  <2>3. /\ q \in States /\ q.pending = p.pending /\ q.slot = p.slot
        /\ q.ui.session = p.ui.session /\ q.ui.target = p.ui.target
        /\ q.ui.picture = p.ui.picture /\ q.ui.shown = p.ui.shown /\ ~q.ui.inFlight
        /\ q.ui.waiting = p.ui.waiting /\ q.ui.failed = p.ui.failed
    <3>1. None \in Spots
      BY DEF Spots
    <3> QED
      BY <1>2, <3>1 DEF Answered, States, Previews
  <2> HIDE DEF q
  <2>4. /\ shown \in States /\ shown.pending = p.pending /\ shown.slot = p.slot
        /\ shown.ui.session = p.ui.session /\ shown.ui.target = p.ui.target
        /\ shown.ui.shown = m.at /\ ~shown.ui.inFlight /\ shown.ui.waiting = p.ui.waiting
        /\ shown.ui.failed = p.ui.failed
        /\ shown.ui.picture = [session |-> m.session, book |-> m.book, rev |-> m.rev,
                               at |-> m.at]
    BY <1>2, <2>3 DEF Show, States, Previews, Pictures
  <2>5. /\ failed \in States /\ failed.pending = p.pending
        /\ failed.ui.session = p.ui.session /\ failed.ui.target = p.ui.target
        /\ failed.ui.picture = p.ui.picture /\ failed.ui.shown = p.ui.shown
        /\ ~failed.ui.inFlight /\ failed.ui.failed = TRUE
    BY <2>3 DEF States, Previews
  <2> HIDE DEF failed
  <2>6. /\ stopped \in States /\ stopped.ui = failed.ui /\ stopped.pending = Stop
        /\ stopped.slot = NoResult
    BY <2>5, Submitted, CommandTypes DEF StopWorker
  <2> HIDE DEF shown, stopped
  <2>7. p.ui.target # NoTarget
    BY <1>2, <2>1 DEF NoTarget, None
  <2>8. /\ r \in States /\ r.ui.session = p.ui.session /\ r.ui.target = p.ui.target
        /\ ~r.ui.inFlight /\ r.pending \in {p.pending, Stop} /\ r.slot \in {p.slot, NoResult}
    BY <2>2, <2>3, <2>4, <2>5, <2>6
  <2>9. Pictured(r)
    BY <2>1, <2>2, <2>3, <2>4, <2>5, <2>6 DEF Pictured, Fine
  <2>10. Older(r, T)
    BY <1>2, <1>4, <2>8, NoneTypes, CommandTypes DEF Older
  <2>11. ASSUME p.ui.target.kind = "video" PROVE Video(r, T)
    <3>1. ~p.ui.failed /\ ~p.ui.waiting /\ SceneComing(p, rs) /\ p.slot.session # p.ui.session
      BY <2>1, <2>11 DEF Fine, Video
    <3>2. ~NoneIn(p, rs)
      BY <1>1, <2>1 DEF NoneIn
    <3>3. PICK i \in DOMAIN rs :
            /\ Mine(p, rs[i])
            /\ \A j \in DOMAIN rs : j # i => rs[j].session # p.ui.session
            /\ \/ video.session = p.ui.session
               \/ /\ rs[i].kind = "Failed"
                  /\ p.ui.picture = NoPicture \/ p.ui.target.rev < disk[p.ui.target.book]
      BY <3>1, <3>2 DEF SceneComing
    <3>4. Latest(p) = NoCommand /\ job = NoJob /\ moving = NoMoving
      BY <3>1, <3>2 DEF SceneComing
    <3>5. i = 1
      BY <1>1, <2>1, <3>3
    <3>6. NoneIn(r, T)
      <4> SUFFICES ASSUME NEW j \in DOMAIN T PROVE T[j].session # p.ui.session
        BY <2>8 DEF NoneIn
      <4>1. j + 1 # 1 /\ j + 1 \in DOMAIN rs /\ T[j] = rs[j + 1]
        BY <1>1
      <4> QED
        BY <3>3, <3>5, <4>1
    <3>7. ~(p.ui.target.rev < disk[p.ui.target.book])
      BY <1>2, <2>1
    <3>8. m.kind = "Ready" \/ p.ui.picture # NoPicture => video.session = p.ui.session
      BY <1>1, <3>3, <3>5, <3>7
    <3>9. r = stopped \/ (/\ video.session = p.ui.session /\ r.pending = p.pending
                          /\ r.slot = p.slot /\ ~r.ui.waiting /\ ~r.ui.failed)
      BY <2>2, <2>3, <2>4, <3>1, <3>8
    <3>10. CASE r = stopped
      BY <2>5, <2>6, <3>10 DEF Video
    <3>11. CASE r # stopped
      <4>1. Latest(r) = NoCommand
        BY <3>4, <3>9, <3>11 DEF Latest
      <4>2. SceneNotAsked(r, T)
        BY <2>8, <3>4, <3>6, <3>9, <3>11, <4>1 DEF SceneNotAsked
      <4> QED
        BY <2>8, <3>1, <3>9, <3>11, <4>2 DEF Video
    <3> QED
      BY <3>10, <3>11
  <2>12. Aims(r) /\ Book(r) /\ Ended(r) /\ Settled(r)
    BY <2>7, <2>8 DEF Fine, Aims, Book, Ended, Settled
  <2>13. Video(r, T)
    BY <2>8, <2>11 DEF Video
  <2> QED
    BY <2>8, <2>9, <2>10, <2>12, <2>13 DEF Fine, m, T
<1> QED
  BY <1>6, <1>7, <1>8

\* Taking the answer out of the slot is fine in itself, but for a book whose page
\* it is.
LEMMA Taken ==
    ASSUME NEW p0, NEW rs, Fine(p0, rs), NEW p \in States, p.ui = p0.ui,
           p.pending = p0.pending, p.slot = NoResult,
           \/ p0.slot.kind \notin {"PageReady", "PageFailed"}
           \/ ~(p0.ui.inFlight /\ p0.ui.target.kind = "static" /\ Mine(p0, p0.slot))
    PROVE  Fine(p, rs)
<1>1. Latest(p) = Latest(p0) /\ p.ui.session \in Nat
  BY DEF Latest, Fine, States, Previews
<1>2. Aims(p) /\ Older(p, rs) /\ Pictured(p) /\ Ended(p)
  BY <1>1, NoneTypes DEF Fine, Aims, Older, Pictured, Ended
<1>3. Book(p)
  BY <1>1 DEF Fine, Book, PageComing, Mine
<1>4. SceneComing(p0, rs) => SceneComing(p, rs)
  BY <1>1 DEF SceneComing, Mine, NoneIn
<1>5. SceneNotAsked(p0, rs) => SceneNotAsked(p, rs)
  BY <1>1 DEF SceneNotAsked, Unused, NoneIn
<1>6. Video(p, rs)
  BY <1>1, <1>4, <1>5, NoneTypes DEF Fine, Video
<1> QED
  BY <1>2, <1>3, <1>6 DEF Fine

\* An answer about a page.
LEMMA HandleStaticFine ==
    ASSUME NEW p0, NEW rs \in Seq(VideoAnswers), Fine(p0, rs), Settled(p0), Worker, Known,
           NEW p \in States, p.ui = p0.ui, p.pending = p0.pending, p.slot = NoResult,
           NEW m \in OtherAnswers, m = p0.slot, m.kind \in {"PageReady", "PageFailed"}
    PROVE  Fine(HandleStatic(p, m), rs) /\ Settled(HandleStatic(p, m))
<1> DEFINE q == Answered(p)
           shown == [Show(q, m) EXCEPT !.ui.shown = m.at, !.ui.placeFailed = FALSE]
           failed == [q EXCEPT !.ui.placeFailed = TRUE]
           bare == [failed EXCEPT !.ui.picture = NoPicture, !.ui.shown = None]
           r == HandleStatic(p, m)
<1>1. /\ p.ui \in Previews /\ p.ui.session \in Nat
      /\ m.session \in Nat /\ m.book \in Books /\ m.rev \in Nat /\ m.at \in Spots
  BY DEF States, Previews, OtherAnswers, Answer
<1>2. \A i \in DOMAIN rs : rs[i].session \in Nat
  <2>1. \A i \in DOMAIN rs : rs[i] \in VideoAnswers
    OBVIOUS
  <2> QED
    BY <2>1 DEF VideoAnswers, Answer
<1>3. Older(p, rs)
  BY <1>1, NoneTypes DEF Fine, Older
<1>4. CASE OfSession(p, m) /\ ~SourceMatches(m)
  BY <1>2, <1>3, <1>4, StopFine DEF HandleStatic
<1>5. CASE ~(OfSession(p, m) /\ ~SourceMatches(m)) /\ (~SourceMatches(m) \/ ~StaticMatches(p, m))
  <2>1. r = p
    BY <1>5 DEF HandleStatic
  <2>2. ~(p0.ui.inFlight /\ p0.ui.target.kind = "static" /\ Mine(p0, p0.slot))
    BY <1>5 DEF Mine, OfSession, OfTarget, StaticMatches, Settled
  <2>3. Fine(p, rs) /\ Settled(p)
    BY <2>2, Taken DEF Settled
  <2> QED
    BY <2>1, <2>3
<1>6. CASE SourceMatches(m) /\ StaticMatches(p, m)
  <2>1. /\ p.ui.session = m.session /\ p.ui.target.book = m.book /\ p.ui.target.rev = m.rev
        /\ p.ui.target.kind = "static"
    BY <1>6 DEF StaticMatches, OfTarget
  <2>2. r \in {shown, StopWorker(failed), StopWorker(bare)}
    BY <1>6 DEF HandleStatic
  <2>3. /\ q \in States /\ q.pending = p.pending /\ q.slot = p.slot
        /\ q.ui.session = p.ui.session /\ q.ui.target = p.ui.target
        /\ q.ui.picture = p.ui.picture /\ q.ui.shown = p.ui.shown /\ ~q.ui.inFlight
    <3>1. None \in Spots
      BY DEF Spots
    <3> QED
      BY <1>1, <3>1 DEF Answered, States, Previews
  <2> HIDE DEF q
  <2>4. /\ shown \in States /\ shown.pending = p.pending /\ shown.slot = p.slot
        /\ shown.ui.session = p.ui.session /\ shown.ui.target = p.ui.target
        /\ shown.ui.shown = m.at /\ ~shown.ui.inFlight
        /\ shown.ui.picture = [session |-> m.session, book |-> m.book, rev |-> m.rev,
                               at |-> m.at]
    <3> DEFINE s == Show(q, m)
    <3>1. /\ s \in States /\ s.pending = p.pending /\ s.slot = p.slot
          /\ s.ui.session = p.ui.session /\ s.ui.target = p.ui.target /\ ~s.ui.inFlight
          /\ s.ui.picture = [session |-> m.session, book |-> m.book, rev |-> m.rev,
                             at |-> m.at]
      BY <1>1, <2>3 DEF Show, States, Previews, Pictures
    <3> HIDE DEF s
    <3>2. shown = [s EXCEPT !.ui.shown = m.at, !.ui.placeFailed = FALSE]
      BY DEF s
    <3> HIDE DEF shown
    <3> QED
      BY <1>1, <3>1, <3>2 DEF States, Previews
  <2>5. /\ failed \in States /\ failed.pending = p.pending /\ failed.slot = p.slot
        /\ failed.ui.session = p.ui.session /\ failed.ui.target = p.ui.target
        /\ failed.ui.picture = p.ui.picture /\ failed.ui.shown = p.ui.shown
        /\ ~failed.ui.inFlight
    BY <2>3 DEF States, Previews
  <2> HIDE DEF failed, shown
  <2>6. /\ bare \in States /\ bare.pending = p.pending /\ bare.slot = p.slot
        /\ bare.ui.session = p.ui.session /\ bare.ui.target = p.ui.target
        /\ bare.ui.picture = NoPicture /\ ~bare.ui.inFlight
    <3>1. None \in Spots
      BY DEF Spots
    <3> QED
      BY <2>5, <3>1 DEF States, Previews
  <2> HIDE DEF bare
  <2>7. ASSUME NEW f \in States
        PROVE  /\ StopWorker(f) \in States /\ StopWorker(f).ui = f.ui
               /\ StopWorker(f).pending = Stop /\ StopWorker(f).slot = NoResult
    BY Submitted, CommandTypes DEF StopWorker
  <2>8. /\ r \in States /\ r.ui.session = p.ui.session /\ r.ui.target = p.ui.target
        /\ ~r.ui.inFlight /\ r.pending \in {p.pending, Stop} /\ r.slot = NoResult
    BY <2>2, <2>4, <2>5, <2>6, <2>7
  <2>9. Pictured(r)
    <3>1. CASE r = shown
      BY <2>1, <2>4, <3>1 DEF Pictured
    <3>2. CASE r = StopWorker(failed)
      BY <2>5, <2>7, <3>2 DEF Pictured, Fine
    <3>3. CASE r = StopWorker(bare)
      BY <2>6, <2>7, <3>3 DEF Pictured
    <3> QED
      BY <2>2, <3>1, <3>2, <3>3
  <2>10. Older(r, rs)
    BY <1>1, <1>3, <2>8, NoneTypes, CommandTypes DEF Older
  <2>11. r.ui.target # NoTarget
    BY <2>1, <2>8 DEF NoTarget
  <2> QED
    BY <2>1, <2>8, <2>9, <2>10, <2>11 DEF Fine, Aims, Book, Video, Ended, Settled
<1> QED
  BY <1>4, <1>5, <1>6

\* A mark of what was asked for is withdrawn, or none.
LEMMA Withdrawn ==
    ASSUME NEW p, NEW rs, Fine(p, rs), Settled(p), NEW q \in States,
           q.pending = p.pending, q.slot = p.slot,
           q.ui.session = p.ui.session, q.ui.target = p.ui.target,
           q.ui.picture = p.ui.picture, q.ui.shown = p.ui.shown,
           q.ui.want = p.ui.want, q.ui.failed = p.ui.failed, q.ui.placeFailed = p.ui.placeFailed,
           q.ui.inFlight => p.ui.inFlight /\ q.ui.asked = p.ui.asked,
           p.ui.target.kind = "video" => p.ui.failed
    PROVE  Fine(q, rs) /\ Settled(q)
<1>1. Latest(q) = Latest(p)
  BY DEF Latest
<1>2. Aims(q) /\ Older(q, rs) /\ Pictured(q) /\ Ended(q) /\ Settled(q)
  BY <1>1 DEF Fine, Aims, Older, Pictured, Ended, Settled
<1>3. Book(q)
  BY <1>1 DEF Fine, Book, PageComing, Mine
<1>4. Video(q, rs)
  BY DEF Fine, Video
<1> QED
  BY <1>2, <1>3, <1>4 DEF Fine

LEMMA ReleaseParts ==
    ASSUME NEW p \in States, NEW at \in Spots
    PROVE  /\ Release(p, at) \in States
           /\ Release(p, at).pending = p.pending /\ Release(p, at).slot = p.slot
           /\ Release(p, at).ui.session = p.ui.session /\ Release(p, at).ui.target = p.ui.target
           /\ Release(p, at).ui.picture = p.ui.picture /\ Release(p, at).ui.shown = p.ui.shown
           /\ Release(p, at).ui.want = p.ui.want /\ Release(p, at).ui.failed = p.ui.failed
           /\ Release(p, at).ui.placeFailed = p.ui.placeFailed
           /\ Release(p, at).ui.inFlight =>
                p.ui.inFlight /\ Release(p, at).ui.asked = p.ui.asked
<1> DEFINE f == p.ui.inFlight /\ p.ui.asked # at
           a == IF p.ui.asked = at THEN None ELSE p.ui.asked
           s == IF p.ui.submitted = at THEN None ELSE p.ui.submitted
           q == [p EXCEPT !.ui.inFlight = f, !.ui.asked = a, !.ui.submitted = s]
<1>1. /\ p.ui \in Previews /\ p.ui.inFlight \in BOOLEAN /\ p.ui.asked \in Spots
      /\ p.ui.submitted \in Spots
  BY DEF States, Previews
<1>2. f \in BOOLEAN /\ a \in Spots /\ s \in Spots
  BY <1>1 DEF Spots
<1>3. Release(p, at) = q
  BY DEF Release, States, Previews
<1>4. f => p.ui.inFlight /\ a = p.ui.asked
  OBVIOUS
<1> HIDE DEF f, a, s
<1>5. /\ q \in States /\ q.pending = p.pending /\ q.slot = p.slot
      /\ q.ui.session = p.ui.session /\ q.ui.target = p.ui.target
      /\ q.ui.picture = p.ui.picture /\ q.ui.shown = p.ui.shown
      /\ q.ui.want = p.ui.want /\ q.ui.failed = p.ui.failed
      /\ q.ui.placeFailed = p.ui.placeFailed /\ q.ui.inFlight = f /\ q.ui.asked = a
  BY <1>1, <1>2 DEF States, Previews
<1> QED
  BY <1>3, <1>4, <1>5

\* A step of the user interface: what it leaves alone keeps what is said of it.
LEMMA Unmoved ==
    ASSUME Worker, Known, UNCHANGED <<desk, disk, list, workVars>>,
           NEW rs \in Seq(VideoAnswers), results' = rs,
           NEW r, Fine(r, rs), Settled(r),
           r = [ui |-> ui', pending |-> pending', slot |-> slot']
    PROVE  Inv'
<1>1. Now' = r
  BY DEF Now
<1>2. Worker' /\ Known'
  BY DEF Worker, Known, workVars, sessions
<1>3. Fine(r, rs)'
  BY DEF Fine, Aims, Older, Pictured, Book, PageComing, Video, SceneComing, SceneNotAsked, Unused,
     NoneIn, Ended, Latest, workVars, sessions
<1> QED
  BY <1>1, <1>2, <1>3 DEF Inv, Fine, Settled

\* An answer about an animated image: it shows the bucket or the frame asked for,
\* or withdraws the mark of what it names.
LEMMA HandleAnimatedFine ==
    ASSUME NEW p, NEW rs \in Seq(VideoAnswers), Fine(p, rs), Settled(p), Worker, Known,
           NEW m \in OtherAnswers,
           p.ui.target.kind = "video" /\ ~p.ui.failed => m.session # p.ui.session
    PROVE  Fine(HandleAnimated(p, m), rs) /\ Settled(HandleAnimated(p, m))
<1> DEFINE q == [p EXCEPT !.ui.mask = @ \ m.mask]
           r == HandleAnimated(p, m)
           f == Release(q, m.at)
<1>1. /\ p \in States /\ p.ui \in Previews /\ p.ui.session \in Nat /\ Older(p, rs)
      /\ m.session \in Nat /\ m.book \in Books /\ m.rev \in Nat /\ m.at \in Spots
      /\ m.frame \in Nat \cup {None}
  BY DEF Fine, States, Previews, OtherAnswers, Answer
<1>2. \A i \in DOMAIN rs : rs[i].session \in Nat
  <2>1. \A i \in DOMAIN rs : rs[i] \in VideoAnswers
    OBVIOUS
  <2> QED
    BY <2>1 DEF VideoAnswers, Answer
<1>3. CASE ~OfSession(p, m)
  BY <1>3 DEF HandleAnimated
<1>4. CASE OfSession(p, m) /\ ~SourceMatches(m)
  BY <1>1, <1>2, <1>4, StopFine DEF HandleAnimated
<1>5. CASE OfSession(p, m) /\ SourceMatches(m)
  <2>1. r \in {AnimatedReady(q, m), AnimatedFailed(q, m), AnimatedUnavailable(q, m)}
    BY <1>5 DEF HandleAnimated
  <2>2. /\ q \in States /\ q.pending = p.pending /\ q.slot = p.slot
        /\ q.ui.session = p.ui.session /\ q.ui.target = p.ui.target
        /\ q.ui.picture = p.ui.picture /\ q.ui.shown = p.ui.shown
        /\ q.ui.want = p.ui.want /\ q.ui.failed = p.ui.failed
        /\ q.ui.placeFailed = p.ui.placeFailed /\ q.ui.inFlight = p.ui.inFlight
        /\ q.ui.asked = p.ui.asked
    BY <1>1 DEF States, Previews
  <2>3. p.ui.target.kind = "video" => p.ui.failed
    BY <1>5 DEF OfSession
  <2> HIDE DEF q, r
  <2>4. /\ f \in States /\ f.pending = q.pending /\ f.slot = q.slot
        /\ f.ui.session = q.ui.session /\ f.ui.target = q.ui.target
        /\ f.ui.picture = q.ui.picture /\ f.ui.shown = q.ui.shown
        /\ f.ui.want = q.ui.want /\ f.ui.failed = q.ui.failed
        /\ f.ui.placeFailed = q.ui.placeFailed
        /\ f.ui.inFlight => q.ui.inFlight /\ f.ui.asked = q.ui.asked
    BY <1>1, <2>2, ReleaseParts
  <2> HIDE DEF f
  <2>5. Fine(q, rs) /\ Settled(q)
    BY <2>2, <2>3, Withdrawn
  <2>6. Fine(f, rs) /\ Settled(f)
    BY <2>2, <2>3, <2>4, Withdrawn
  <2>7. CASE ~AnimatedMatches(q, m)
    <3>1. r \in {q, f}
      BY <2>1, <2>7 DEF AnimatedReady, AnimatedFailed, AnimatedUnavailable, f
    <3> QED
      BY <2>5, <2>6, <3>1 DEF r
  <2>8. CASE AnimatedMatches(q, m)
    <3> DEFINE s == Show(f, m)
               at == [s EXCEPT !.ui.shown = m.at, !.ui.placeFailed = FALSE]
               frame == [s EXCEPT !.ui.shown = None, !.ui.lastFrame = m.frame]
               lost == [f EXCEPT !.ui.placeFailed = TRUE]
               over == [f EXCEPT !.ui.started = FALSE, !.ui.failed = TRUE]
               gone == [f EXCEPT !.ui.started = FALSE, !.ui.unavailable = TRUE]
    <3>1. /\ q.ui.session = m.session /\ q.ui.target.book = m.book /\ q.ui.target.rev = m.rev
          /\ q.ui.target.kind = "animated"
      BY <2>8 DEF AnimatedMatches, OfTarget
    <3>2. r \in {at, frame, f, q, lost, StopWorker(over), gone}
      BY <2>1, <2>8 DEF AnimatedReady, AnimatedFailed, AnimatedUnavailable, f
    <3>3. /\ s \in States /\ s.pending = p.pending /\ s.slot = p.slot
          /\ s.ui.session = p.ui.session /\ s.ui.target = p.ui.target
          /\ s.ui.picture = [session |-> m.session, book |-> m.book, rev |-> m.rev,
                             at |-> m.at]
      BY <1>1, <2>2, <2>4, ZenonT(60) DEF Show, States, Previews, Pictures
    <3> HIDE DEF s
    <3>4. /\ at \in States /\ at.pending = p.pending /\ at.slot = p.slot
          /\ at.ui.session = p.ui.session /\ at.ui.target = p.ui.target
          /\ at.ui.picture = s.ui.picture /\ at.ui.shown = m.at
      BY <1>1, <3>3, ZenonT(60) DEF States, Previews
    <3>5. None \in Spots
      BY DEF Spots
    <3>6. /\ frame \in States /\ frame.pending = p.pending /\ frame.slot = p.slot
          /\ frame.ui.session = p.ui.session /\ frame.ui.target = p.ui.target
          /\ frame.ui.picture = s.ui.picture /\ frame.ui.shown = None
      BY <1>1, <3>3, <3>5 DEF States, Previews
    <3>7. /\ lost \in States /\ lost.pending = p.pending /\ lost.slot = p.slot
          /\ lost.ui.session = p.ui.session /\ lost.ui.target = p.ui.target
          /\ lost.ui.picture = p.ui.picture /\ lost.ui.shown = p.ui.shown
      BY <2>2, <2>4 DEF States, Previews
    <3>8. /\ over \in States /\ over.pending = p.pending /\ over.slot = p.slot
          /\ over.ui.session = p.ui.session /\ over.ui.target = p.ui.target
          /\ over.ui.picture = p.ui.picture /\ over.ui.shown = p.ui.shown
      BY <2>2, <2>4, ZenonT(60) DEF States, Previews
    <3>9. /\ gone \in States /\ gone.pending = p.pending /\ gone.slot = p.slot
          /\ gone.ui.session = p.ui.session /\ gone.ui.target = p.ui.target
          /\ gone.ui.picture = p.ui.picture /\ gone.ui.shown = p.ui.shown
      BY <2>2, <2>4, ZenonT(60) DEF States, Previews
    <3> HIDE DEF at, frame, lost, over, gone
    <3>10. /\ StopWorker(over) \in States /\ StopWorker(over).ui = over.ui
           /\ StopWorker(over).pending = Stop /\ StopWorker(over).slot = NoResult
      BY <3>8, Submitted, CommandTypes DEF StopWorker
    <3>11. Pictured(at) /\ Pictured(frame)
      <4>1. /\ s.ui.picture.session = p.ui.session /\ s.ui.picture.book = p.ui.target.book
            /\ s.ui.picture.rev = p.ui.target.rev /\ s.ui.picture.at = m.at
        BY <2>2, <3>1, <3>3
      <4> QED
        BY <3>4, <3>6, <4>1 DEF Pictured
    <3>12. Pictured(lost) /\ Pictured(gone) /\ Pictured(StopWorker(over))
      BY <3>7, <3>8, <3>9, <3>10 DEF Pictured, Fine
    <3>13. /\ p.pending.session <= p.ui.session /\ p.slot.session <= p.ui.session
           /\ Stop.session <= p.ui.session /\ NoResult.session <= p.ui.session
      BY <1>1, NoneTypes, CommandTypes DEF Older
    <3>14. p.ui.target.kind = "animated"
      BY <2>2, <3>1
    <3>15. Fine(at, rs) /\ Settled(at)
      BY <3>4, <3>11, <3>13, <3>14, Moves
    <3>16. Fine(frame, rs) /\ Settled(frame)
      BY <3>6, <3>11, <3>13, <3>14, Moves
    <3>17. Fine(lost, rs) /\ Settled(lost)
      BY <3>7, <3>12, <3>13, <3>14, Moves
    <3>18. Fine(gone, rs) /\ Settled(gone)
      BY <3>9, <3>12, <3>13, <3>14, Moves
    <3>19. Fine(StopWorker(over), rs) /\ Settled(StopWorker(over))
      BY <3>8, <3>10, <3>12, <3>13, <3>14, Moves
    <3> QED
      BY <2>5, <2>6, <3>2, <3>15, <3>16, <3>17, <3>18, <3>19 DEF r
  <2> QED
    BY <2>7, <2>8 DEF r
<1> QED
  BY <1>3, <1>4, <1>5

-----------------------------------------------------------------------------
(* The steps of the user interface.                                        *)

LEMMA FrameInv ==
    ASSUME Inv, NEW c \in CellSet \cup {NoCell}, NEW scrolled \in BOOLEAN,
           NEW elapsed \in BOOLEAN, NEW scene \in Spots, Frame(c, scrolled, elapsed, scene)
    PROVE  Inv'
<1> DEFINE t == ui.target
           p == IF t # NoTarget /\ (scrolled \/ list[t.book] # t.rev) THEN Invalidate(Now) ELSE Now
           h == Hover(p, c)
           r == Update(h, elapsed, scene)
<1>1. /\ Worker /\ Known /\ results \in Seq(VideoAnswers) /\ Fine(Now, results)
      /\ 0 \in Spots /\ Now \in States /\ Older(Now, results)
  BY PreviewAssumption DEF Inv, Fine, Spots
<1>2. \A i \in DOMAIN results : results[i].session \in Nat
  <2>1. \A i \in DOMAIN results : results[i] \in VideoAnswers
    BY <1>1
  <2> QED
    BY <2>1 DEF VideoAnswers, Answer
<1>3. Fine(p, results)
  BY <1>1, <1>2, StopFine
<1> HIDE DEF p
<1>4. Fine(h, results)
  BY <1>1, <1>2, <1>3, HoverFine
<1> HIDE DEF h
<1>5. Fine(r, results) /\ Settled(r)
  BY <1>1, <1>4, UpdateFine
<1>6. /\ ui' = r.ui /\ pending' = r.pending /\ slot' = r.slot
      /\ UNCHANGED <<desk, disk, list, results, workVars>>
  BY DEF Frame, Becomes, p, h
<1>7. r = [ui |-> r.ui, pending |-> r.pending, slot |-> r.slot]
  BY <1>5 DEF Fine, States
<1> HIDE DEF r
<1> QED
  BY <1>1, <1>5, <1>6, <1>7, Unmoved

LEMMA PollInv ==
    ASSUME Inv, Poll
    PROVE  Inv'
<1>1. /\ Worker /\ Known /\ results \in Seq(VideoAnswers) /\ Fine(Now, results)
      /\ Settled(Now) /\ Now \in States
      /\ Now.ui = ui /\ Now.slot = slot /\ Now.pending = pending
  BY DEF Inv, Fine, Now
<1>2. CASE results # <<>>
  <2> DEFINE m == Head(results)
             r == HandleVideo(Now, m)
             rs == Tail(results)
  <2>1. m \in VideoAnswers /\ rs \in Seq(VideoAnswers)
    BY <1>1, <1>2, Queue
  <2>2. Handle(Now, m) = r
    BY <2>1 DEF Handle, VideoAnswers, Answer
  <2>3. Fine(r, rs) /\ Settled(r)
    BY <1>1, <1>2, HandleVideoFine
  <2>4. /\ ui' = r.ui /\ pending' = r.pending /\ slot' = r.slot /\ results' = rs
        /\ UNCHANGED <<desk, disk, list, workVars>>
    BY <1>2, <2>2 DEF Poll, Becomes
  <2> HIDE DEF r, rs
  <2>6. r = [ui |-> r.ui, pending |-> r.pending, slot |-> r.slot]
    BY <2>3 DEF Fine, States
  <2> QED
    BY <1>1, <2>1, <2>3, <2>4, <2>6, Unmoved
<1>3. CASE results = <<>> /\ slot # NoResult
  <2> DEFINE p == [Now EXCEPT !.slot = NoResult]
             r == Handle(p, slot)
  <2>1. slot \in OtherAnswers
    BY <1>1, <1>3 DEF States
  <2>2. p \in States /\ p.ui = ui /\ p.pending = pending /\ p.slot = NoResult
    BY <1>1 DEF States
  <2>3. r = IF slot.kind \in {"PageReady", "PageFailed"} THEN HandleStatic(p, slot)
            ELSE HandleAnimated(p, slot)
    BY <2>1 DEF Handle, OtherAnswers, Answer
  <2>4. /\ ui' = r.ui /\ pending' = r.pending /\ slot' = r.slot /\ results' = results
        /\ UNCHANGED <<desk, disk, list, workVars>>
    BY <1>3 DEF Poll, Becomes
  <2> HIDE DEF p
  <2>5. ASSUME Fine(r, results), Settled(r) PROVE Inv'
    <3> HIDE DEF r
    <3>1. r = [ui |-> r.ui, pending |-> r.pending, slot |-> r.slot]
      BY <2>5 DEF Fine, States
    <3> QED
      BY <1>1, <2>4, <2>5, <3>1, Unmoved
  <2>6. CASE slot.kind \in {"PageReady", "PageFailed"}
    <3>1. Fine(HandleStatic(p, slot), results) /\ Settled(HandleStatic(p, slot))
      BY <1>1, <2>1, <2>2, <2>6, HandleStaticFine
    <3> QED
      BY <2>3, <2>6, <2>5, <3>1
  <2>7. CASE slot.kind \notin {"PageReady", "PageFailed"}
    <3>1. Fine(p, results) /\ Settled(p)
      BY <1>1, <2>2, <2>7, Taken DEF Settled
    <3>2. p.ui.target.kind = "video" /\ ~p.ui.failed => slot.session # p.ui.session
      BY <1>1, <2>2 DEF Fine, Video
    <3>3. Fine(HandleAnimated(p, slot), results) /\ Settled(HandleAnimated(p, slot))
      BY <1>1, <2>1, <3>1, <3>2, HandleAnimatedFine
    <3> QED
      BY <2>3, <2>7, <2>5, <3>3
  <2> QED
    BY <2>6, <2>7
<1> QED
  BY <1>2, <1>3 DEF Poll

LEMMA LibraryInv ==
    ASSUME Inv, (\E b \in desk : FileChange(b)) \/ Refresh
    PROVE  Inv'
<1>1. /\ Worker /\ Known /\ results \in Seq(VideoAnswers) /\ Fine(Now, results) /\ Settled(Now)
  BY DEF Inv
<1>2. UNCHANGED <<uiVars, results, workVars>>
  BY DEF FileChange, Refresh
<1>3. /\ disk' \in [Books -> Nat] /\ list' \in [Books -> Nat]
      /\ \A b \in Books : list'[b] <= disk'[b] /\ disk[b] <= disk'[b] /\ list[b] <= list'[b]
  <2>1. CASE Refresh
    BY <1>1, <2>1 DEF Known, Refresh
  <2>2. ASSUME NEW b \in desk, FileChange(b)
        PROVE  /\ disk' \in [Books -> Nat] /\ list' \in [Books -> Nat]
               /\ \A c \in Books : /\ list'[c] <= disk'[c] /\ disk[c] <= disk'[c]
                                    /\ list[c] <= list'[c]
    <3>1. /\ b \in Books /\ disk \in [Books -> Nat] /\ list \in [Books -> Nat]
          /\ disk' = [disk EXCEPT ![b] = @ + 1] /\ list' = list
          /\ \A c \in Books : list[c] <= disk[c]
      BY <1>1, <2>2 DEF Known, FileChange
    <3>2. \A c \in Books : disk'[c] \in Nat /\ list[c] \in Nat /\ disk[c] \in Nat
                           /\ disk'[c] \in {disk[c], disk[c] + 1}
      BY <3>1
    <3>3. disk' \in [Books -> Nat]
      BY <3>1
    <3> QED
      BY <3>1, <3>2, <3>3
  <2> QED
    BY <2>1, <2>2
<1>4. Known'
  BY <1>1, <1>3 DEF Known, FileChange, Refresh
<1>5. Worker'
  BY <1>1, <1>2 DEF Worker, workVars, sessions
<1>6. Now' = Now
  BY <1>2 DEF Now, uiVars
<1>7. Latest(Now)' = Latest(Now)
  BY <1>2, <1>6 DEF Latest, workVars
<1>8. ui.target \in Targets \cup {NoTarget}
  BY <1>1 DEF Fine, States, Previews, Now
<1>9. Aims(Now)'
  <2> SUFFICES ASSUME ui.target # NoTarget PROVE ui.target.rev <= list'[ui.target.book]
    BY <1>6 DEF Aims, Now
  <2>1. /\ ui.target.rev \in Nat /\ ui.target.book \in Books
        /\ ui.target.rev <= list[ui.target.book]
    BY <1>1, <1>8 DEF Fine, Aims, Now, Targets
  <2>2. list[ui.target.book] \in Nat /\ list'[ui.target.book] \in Nat
        /\ list[ui.target.book] <= list'[ui.target.book]
    BY <1>1, <1>3, <2>1 DEF Known
  <2> QED
    BY <2>1, <2>2
<1>10. /\ Older(Now, results)' /\ Pictured(Now)' /\ Ended(Now)' /\ Settled(Now)' /\ Book(Now)'
       /\ (Now \in States)'
  BY <1>1, <1>2, <1>6, <1>7
  DEF Fine, Older, Pictured, Ended, Settled, Book, PageComing, Mine, workVars, sessions
<1>11. SceneNotAsked(Now, results) => SceneNotAsked(Now, results)'
  BY <1>2, <1>6, <1>7 DEF SceneNotAsked, Unused, NoneIn, workVars, sessions
<1>12. ASSUME ui.target.kind = "video", SceneComing(Now, results)
       PROVE  SceneComing(Now, results)'
  <2>1. ui.target.rev < disk[ui.target.book] => ui.target.rev < disk'[ui.target.book]
    <3>1. ui.target.rev \in Nat /\ ui.target.book \in Books
      BY <1>8, <1>12 DEF Targets, NoTarget
    <3>2. /\ disk[ui.target.book] \in Nat /\ disk'[ui.target.book] \in Nat
          /\ disk[ui.target.book] <= disk'[ui.target.book]
      BY <1>1, <1>3, <3>1 DEF Known
    <3> QED
      BY <3>1, <3>2
  <2> QED
    BY <1>2, <1>6, <1>7, <1>12, <2>1 DEF SceneComing, Mine, NoneIn, Now, workVars, sessions
<1>13. Video(Now, results)'
  BY <1>1, <1>2, <1>6, <1>11, <1>12 DEF Fine, Video, Now
<1> QED
  BY <1>1, <1>2, <1>4, <1>5, <1>9, <1>10, <1>13 DEF Inv, Fine

-----------------------------------------------------------------------------
(* The steps of the worker.                                                *)

LEMMA Worked ==
    ASSUME Inv, UNCHANGED <<desk, disk, list, ui>>, Worker', pending' \in Commands,
           slot' \in OtherAnswers \cup {NoResult}, results' \in Seq(VideoAnswers),
           Older(Now, results)', Book(Now)', Video(Now, results)', Ended(Now)'
    PROVE  Inv'
<1>1. (Now \in States)'
  BY DEF Inv, Fine, States, Now
<1>2. Known' /\ Aims(Now)' /\ Pictured(Now)' /\ Settled(Now)'
  BY DEF Inv, Fine, Known, Aims, Pictured, Settled, Now
<1> QED
  BY <1>1, <1>2 DEF Inv, Fine

\* What the invariant says, in terms of the variables.
LEMMA Facts ==
    ASSUME Inv
    PROVE  /\ Worker /\ Known /\ results \in Seq(VideoAnswers) /\ Fine(Now, results)
           /\ ui \in Previews /\ ui.session \in Nat /\ pending \in Commands
           /\ slot \in OtherAnswers \cup {NoResult}
           /\ Newest = Latest(Now) /\ Now.ui = ui /\ Now.pending = pending /\ Now.slot = slot
           /\ Now'.ui = ui' /\ Now'.pending = pending' /\ Now'.slot = slot'
           /\ \A i \in DOMAIN results : results[i].session \in Nat
<1>1. \A i \in DOMAIN results : results[i] \in VideoAnswers
  BY DEF Inv
<1>2. \A i \in DOMAIN results : results[i].session \in Nat
  BY <1>1 DEF VideoAnswers, Answer
<1> QED
  BY <1>2 DEF Inv, Fine, States, Previews, Now, Newest, Latest

\* A decoding of an animated image is over, or goes on to its publication.
LEMMA FrameOver ==
    ASSUME Inv, UNCHANGED <<desk, disk, list, ui, pending, deferred, video, still, results>>,
           job.what \in {"frame", "bucket", "publish"},
           job' = NoJob \/ (job.what = "bucket" /\ job' = [job EXCEPT !.what = "publish"]),
           slot' = slot \/ (slot' \in OtherAnswers /\ slot'.session = job.cmd.session),
           moving' \in Animations, moving'.id = moving.id
    PROVE  Inv'
<1>1. /\ Worker /\ Fine(Now, results) /\ results \in Seq(VideoAnswers) /\ ui.session \in Nat
      /\ pending \in Commands /\ slot \in OtherAnswers \cup {NoResult}
      /\ Now.ui = ui /\ Now.pending = pending /\ Now.slot = slot
      /\ Now'.ui = ui' /\ Now'.pending = pending' /\ Now'.slot = slot'
  BY Facts
<1>2. job \in Jobs /\ job # NoJob /\ moving # NoMoving
  BY <1>1, NoneTypes DEF Worker
<1>3. job' \in Jobs \cup {NoJob} /\ (job' # NoJob => job'.what = "publish" /\ job'.cmd = job.cmd)
  BY <1>2 DEF Jobs
<1>4. Worker'
  BY <1>1, <1>2, <1>3, NoneTypes DEF Worker
<1>5. Latest(Now)' = Latest(Now)
  BY <1>1 DEF Latest
<1>6. job.cmd.session <= ui.session /\ job'.cmd.session <= ui.session
  BY <1>1, <1>3, NoneTypes DEF Fine, Older
<1>7. Older(Now, results)'
  BY <1>1, <1>6 DEF Fine, Older
<1>8. Book(Now)'
  BY <1>1, <1>2, <1>5 DEF Fine, Book, PageComing, Mine
<1>9. Ended(Now)'
  BY <1>1, <1>2, <1>5 DEF Fine, Ended
<1>10. ASSUME ui.target.kind = "video", ~ui.failed PROVE job.cmd.session # ui.session
  BY <1>1, <1>2, <1>10 DEF Fine, Video, SceneComing, SceneNotAsked, Unused
<1>11. job'.cmd.session \in {-1, job.cmd.session}
  BY <1>3, NoneTypes
<1>12. ASSUME ui.target.kind = "video", ~ui.failed, SceneComing(Now, results)
       PROVE  SceneComing(Now, results)'
  <2>1. job'.cmd.session # ui.session
    BY <1>1, <1>10, <1>11, <1>12
  <2> QED
    BY <1>1, <1>2, <1>5, <1>12, <2>1 DEF SceneComing, Mine, NoneIn
<1>13. ASSUME ui.target.kind = "video", ~ui.failed, SceneNotAsked(Now, results)
       PROVE  SceneNotAsked(Now, results)'
  <2>1. job'.cmd.session # ui.session
    BY <1>1, <1>10, <1>11, <1>13
  <2> QED
    BY <1>1, <1>2, <1>5, <1>13, <2>1 DEF SceneNotAsked, Unused, NoneIn
<1>14. Video(Now, results)'
  BY <1>1, <1>10, <1>12, <1>13 DEF Fine, Video
<1> QED
  BY <1>1, <1>4, <1>7, <1>8, <1>9, <1>14, Worked

LEMMA FrameAnswer ==
    ASSUME NEW kind \in {"FrameReady", "FrameFailed", "FrameStale", "Unavailable"},
           NEW c, c.session \in Nat, c.book \in Books, c.rev \in Nat, c.at \in Spots,
           c.mask \in SUBSET Spots, NEW frame \in Nat
    PROVE  FrameResult(kind, c, frame) \in OtherAnswers
             /\ FrameResult(kind, c, frame).session = c.session
BY DEF FrameResult, Result, OtherAnswers, Answer

LEMMA FramesInv ==
    ASSUME Inv, FrameDone \/ BucketFailed \/ BucketDecoded \/ Publish
    PROVE  Inv'
<1>1. Worker /\ job.what \in {"frame", "bucket", "publish"}
  BY Facts DEF FrameDone, BucketFailed, BucketDecoded, Publish
<1>2. job \in Jobs /\ moving \in Animations /\ moving.next \in Nat
  BY <1>1, NoneTypes DEF Worker, Animations
<1>3. /\ job.cmd.session \in Nat /\ job.cmd.book \in Books /\ job.cmd.rev \in Nat
      /\ job.cmd.at \in Spots /\ job.cmd.mask \in SUBSET Spots
  BY <1>2 DEF Jobs, Requests
<1>4. \A kind \in {"FrameReady", "FrameFailed"} :
        /\ FrameResult(kind, job.cmd, moving.next) \in OtherAnswers
        /\ FrameResult(kind, job.cmd, moving.next).session = job.cmd.session
  BY <1>2, <1>3, FrameAnswer
<1>5. CASE FrameDone
  <2>1. moving' \in Animations /\ moving'.id = moving.id
    <3>1. \/ moving' = [moving EXCEPT !.due = FALSE]
          \/ moving' = [moving EXCEPT !.next = @ + 1, !.due = TRUE]
      BY <1>5 DEF FrameDone
    <3>2. CASE moving' = [moving EXCEPT !.due = FALSE]
      BY <1>2, <3>2 DEF Animations
    <3>3. CASE moving' = [moving EXCEPT !.next = @ + 1, !.due = TRUE]
      <4>1. moving.next + 1 \in Nat
        BY <1>2
      <4> QED
        BY <1>2, <3>3, <4>1 DEF Animations
    <3> QED
      BY <3>1, <3>2, <3>3
  <2>2. slot' \in OtherAnswers /\ slot'.session = job.cmd.session /\ results' = results
    BY <1>4, <1>5 DEF FrameDone, Put
  <2> QED
    BY <1>1, <1>5, <2>1, <2>2, FrameOver DEF FrameDone
<1>6. CASE BucketFailed
  <2>1. slot' \in OtherAnswers /\ slot'.session = job.cmd.session /\ results' = results
    BY <1>4, <1>6 DEF BucketFailed, Put
  <2> QED
    BY <1>1, <1>2, <1>6, <2>1, FrameOver DEF BucketFailed, sessions
<1>7. CASE BucketDecoded
  BY <1>1, <1>2, <1>7, FrameOver DEF BucketDecoded, uiVars, sessions
<1>8. CASE Publish
  <2>1. moving' \in Animations /\ moving'.id = moving.id
    BY <1>2, <1>3, <1>8 DEF Publish, Animations
  <2>2. slot' \in OtherAnswers /\ slot'.session = job.cmd.session /\ results' = results
    BY <1>4, <1>8 DEF Publish, Put
  <2> QED
    BY <1>1, <1>8, <2>1, <2>2, FrameOver DEF Publish
<1> QED
  BY <1>5, <1>6, <1>7, <1>8

LEMMA Results ==
    ASSUME NEW c \in Requests
    PROVE  /\ \A kind \in {"Ready", "Failed"} :
                /\ VideoResult(kind, c) \in VideoAnswers
                /\ VideoResult(kind, c).kind = kind
                /\ VideoResult(kind, c).session = c.session /\ VideoResult(kind, c).at = c.at
                /\ VideoResult(kind, c).book = c.book /\ VideoResult(kind, c).rev = c.rev
           /\ \A kind \in {"PageReady", "PageFailed"} :
                /\ PageResult(kind, c) \in OtherAnswers
                /\ PageResult(kind, c).kind = kind
                /\ PageResult(kind, c).session = c.session /\ PageResult(kind, c).at = c.at
                /\ PageResult(kind, c).book = c.book /\ PageResult(kind, c).rev = c.rev
BY DEF VideoResult, PageResult, Result, Requests, VideoAnswers, OtherAnswers, Answer

LEMMA Appended ==
    ASSUME NEW S, NEW rs \in Seq(S), NEW m \in S
    PROVE  /\ Append(rs, m) \in Seq(S)
           /\ Len(rs) + 1 \in DOMAIN Append(rs, m) /\ Append(rs, m)[Len(rs) + 1] = m
           /\ \A i \in DOMAIN Append(rs, m) :
                i # Len(rs) + 1 => i \in DOMAIN rs /\ Append(rs, m)[i] = rs[i]
OBVIOUS

\* The answer awaited is the last of the queue, and the only one of its session.
LEMMA LastIsMine ==
    ASSUME NEW p, NEW rs \in Seq(VideoAnswers), NEW m \in VideoAnswers, NoneIn(p, rs), Mine(p, m)
    PROVE  /\ Len(rs) + 1 \in DOMAIN Append(rs, m) /\ Append(rs, m)[Len(rs) + 1] = m
           /\ Mine(p, Append(rs, m)[Len(rs) + 1])
           /\ \A j \in DOMAIN Append(rs, m) :
                j # Len(rs) + 1 => Append(rs, m)[j].session # p.ui.session
<1>1. /\ Len(rs) + 1 \in DOMAIN Append(rs, m) /\ Append(rs, m)[Len(rs) + 1] = m
      /\ \A j \in DOMAIN Append(rs, m) :
           j # Len(rs) + 1 => j \in DOMAIN rs /\ Append(rs, m)[j] = rs[j]
  BY Appended
<1> QED
  BY <1>1 DEF NoneIn

LEMMA SceneDoneInv ==
    ASSUME Inv, SceneDone
    PROVE  Inv'
<1>1. /\ Worker /\ Fine(Now, results) /\ results \in Seq(VideoAnswers) /\ ui.session \in Nat
      /\ pending \in Commands /\ slot \in OtherAnswers \cup {NoResult}
      /\ Now.ui = ui /\ Now.pending = pending /\ Now.slot = slot
      /\ Now'.ui = ui' /\ Now'.pending = pending' /\ Now'.slot = slot'
  BY Facts
<1>2. /\ job.what = "scene" /\ job' = NoJob
      /\ UNCHANGED <<desk, disk, list, ui, pending, deferred, sessions, slot>>
  BY DEF SceneDone, Tell
<1>3. job # NoJob /\ job \in Jobs /\ deferred = NoCommand
  BY <1>1, <1>2, NoneTypes DEF Worker
<1>4. job.cmd \in Requests /\ job.cmd.session \in Nat
  BY <1>2, <1>3 DEF Jobs, Requests
<1>5. PICK kind \in {"Ready", "Failed"} : results' = Append(results, VideoResult(kind, job.cmd))
  BY DEF SceneDone, Tell
<1> DEFINE m == VideoResult(kind, job.cmd)
<1>6. /\ m \in VideoAnswers /\ m.session = job.cmd.session /\ m.at = job.cmd.at
      /\ m.book = job.cmd.book /\ m.rev = job.cmd.rev
  BY <1>4, Results
<1> HIDE DEF m
<1>7. /\ results' \in Seq(VideoAnswers)
      /\ \A i \in DOMAIN results' :
           \/ i \in DOMAIN results /\ results'[i] = results[i]
           \/ results'[i].session = job.cmd.session
  BY <1>1, <1>5, <1>6, Appended DEF m
<1>8. Latest(Now)' = Latest(Now)
  BY <1>1, <1>2 DEF Latest
<1>9. Worker'
  BY <1>1, <1>2, NoneTypes DEF Worker, sessions
<1>10. job.cmd.session <= ui.session
  BY <1>1 DEF Fine, Older
<1>11. Older(Now, results)'
  BY <1>1, <1>2, <1>7, <1>10, NoneTypes DEF Fine, Older, sessions
<1>12. Book(Now)'
  BY <1>1, <1>2, <1>3, <1>8 DEF Fine, Book, PageComing, Mine
<1>13. Ended(Now)'
  BY <1>1, <1>2, <1>3, <1>8 DEF Fine, Ended
<1>14. job.cmd.session # ui.session /\ NoneIn(Now, results) => NoneIn(Now, results)'
  BY <1>1, <1>2, <1>7 DEF NoneIn
<1>15. ASSUME ui.target.kind = "video", ~ui.failed, SceneComing(Now, results)
       PROVE  SceneComing(Now, results)'
  <2>1. CASE Latest(Now) # NoCommand
    BY <1>1, <1>2, <1>3, <1>8, <1>14, <1>15, <2>1, NoneTypes DEF SceneComing, Mine, sessions
  <2>2. CASE Latest(Now) = NoCommand
    <3>1. Mine(Now, job.cmd) /\ NoneIn(Now, results)
      BY <1>1, <1>3, <1>15, <2>2, CommandTypes DEF SceneComing, Mine
    <3>2. Mine(Now', m) /\ NoneIn(Now', results)
      BY <1>1, <1>2, <1>6, <3>1 DEF Mine, NoneIn
    <3>3. /\ Len(results) + 1 \in DOMAIN results'
          /\ Mine(Now', results'[Len(results) + 1])
          /\ \A k \in DOMAIN results' :
               k # Len(results) + 1 => results'[k].session # ui.session
      BY <1>1, <1>2, <1>5, <1>6, <3>2, LastIsMine DEF m
    <3>4. video' = video /\ video.session = ui.session /\ moving' = NoMoving
      BY <1>1, <1>2, <1>4, <3>1, NoneTypes DEF Mine, Worker, sessions
    <3> QED
      BY <1>1, <1>2, <1>8, <2>2, <3>3, <3>4 DEF SceneComing, Mine
  <2> QED
    BY <2>1, <2>2
<1>16. ASSUME ui.target.kind = "video", ~ui.failed, SceneNotAsked(Now, results)
       PROVE  SceneNotAsked(Now, results)'
  <2>1. ui.waiting /\ job.cmd.session # ui.session /\ NoneIn(Now, results)
    BY <1>1, <1>3, <1>16 DEF SceneNotAsked, Unused
  <2> QED
    BY <1>1, <1>2, <1>14, <1>16, <2>1, NoneTypes DEF SceneNotAsked, Unused, sessions
<1>17. Video(Now, results)'
  BY <1>1, <1>2, <1>15, <1>16 DEF Fine, Video
<1> QED
  BY <1>1, <1>2, <1>7, <1>9, <1>11, <1>12, <1>13, <1>17, Worked

LEMMA PageDoneInv ==
    ASSUME Inv, PageDone
    PROVE  Inv'
<1>1. /\ Worker /\ Fine(Now, results) /\ results \in Seq(VideoAnswers) /\ ui.session \in Nat
      /\ pending \in Commands /\ slot \in OtherAnswers \cup {NoResult}
      /\ Now.ui = ui /\ Now.pending = pending /\ Now.slot = slot
      /\ Now'.ui = ui' /\ Now'.pending = pending' /\ Now'.slot = slot'
  BY Facts
<1>2. /\ job.what = "page" /\ job' = NoJob
      /\ UNCHANGED <<desk, disk, list, ui, pending, deferred, sessions, results>>
  BY DEF PageDone, Put
<1>3. job # NoJob /\ job \in Jobs /\ deferred = NoCommand /\ moving = NoMoving
  BY <1>1, <1>2, NoneTypes DEF Worker
<1>4. job.cmd \in Requests /\ job.cmd.session \in Nat
  BY <1>2, <1>3 DEF Jobs, Requests
<1>5. /\ slot' \in OtherAnswers /\ slot'.session = job.cmd.session /\ slot'.at = job.cmd.at
      /\ slot'.book = job.cmd.book /\ slot'.rev = job.cmd.rev
      /\ slot'.kind \in {"PageReady", "PageFailed"}
  BY <1>4, Results DEF PageDone, Put
<1>6. Latest(Now)' = Latest(Now)
  BY <1>1, <1>2 DEF Latest
<1>7. Worker'
  BY <1>1, <1>2, NoneTypes DEF Worker, sessions
<1>8. job.cmd.session <= ui.session
  BY <1>1 DEF Fine, Older
<1>9. Older(Now, results)'
  BY <1>1, <1>2, <1>5, <1>8, NoneTypes DEF Fine, Older, sessions
<1>10. Book(Now)'
  <2>1. CASE Latest(Now) # NoCommand
    BY <1>1, <1>2, <1>6, <2>1 DEF Fine, Book, PageComing, Mine
  <2>2. CASE Latest(Now) = NoCommand
    BY <1>1, <1>2, <1>3, <1>5, <1>6, <2>2, CommandTypes DEF Fine, Book, PageComing, Mine, sessions
  <2> QED
    BY <2>1, <2>2
<1>11. Ended(Now)'
  BY <1>1, <1>2, <1>3, <1>6 DEF Fine, Ended
<1>12. ASSUME ui.target.kind = "video", ~ui.failed PROVE job.cmd.session # ui.session
  BY <1>1, <1>2, <1>3, <1>12 DEF Fine, Video, SceneComing, SceneNotAsked, Unused
<1>13. ASSUME ui.target.kind = "video", ~ui.failed, SceneComing(Now, results)
       PROVE  SceneComing(Now, results)'
  BY <1>1, <1>2, <1>3, <1>6, <1>13, NoneTypes DEF SceneComing, Mine, NoneIn, sessions
<1>14. ASSUME ui.target.kind = "video", ~ui.failed, SceneNotAsked(Now, results)
       PROVE  SceneNotAsked(Now, results)'
  BY <1>1, <1>2, <1>3, <1>6, <1>14, NoneTypes DEF SceneNotAsked, Unused, NoneIn, sessions
<1>15. Video(Now, results)'
  BY <1>1, <1>2, <1>5, <1>12, <1>13, <1>14 DEF Fine, Video
<1> QED
  BY <1>1, <1>2, <1>5, <1>7, <1>9, <1>10, <1>11, <1>15, Worked

LEMMA NextFrameInv ==
    ASSUME Inv, NextFrame
    PROVE  Inv'
<1>1. /\ Worker /\ Fine(Now, results) /\ results \in Seq(VideoAnswers) /\ ui.session \in Nat
      /\ pending \in Commands /\ slot \in OtherAnswers \cup {NoResult}
      /\ Newest = Latest(Now) /\ Now.ui = ui /\ Now.pending = pending /\ Now.slot = slot
      /\ Now'.ui = ui' /\ Now'.pending = pending' /\ Now'.slot = slot'
  BY Facts
<1> DEFINE c == [NoCommand EXCEPT !.session = moving.id.session, !.book = moving.id.book,
                                  !.rev = moving.id.rev, !.mask = moving.mask]
<1>2. /\ job = NoJob /\ Latest(Now) = NoCommand /\ moving.due /\ job' = [what |-> "frame", cmd |-> c]
      /\ UNCHANGED <<desk, disk, list, ui, pending, slot, results, deferred, sessions>>
  BY <1>1 DEF NextFrame, uiVars, Begin
<1>3. moving \in Animations /\ moving # NoMoving
  BY <1>1, <1>2, NoneTypes DEF Worker, NoMoving
<1>4. /\ c.op = "none" /\ c.session = moving.id.session /\ job' \in Jobs
  <2>1. /\ moving.id.session \in Nat /\ moving.id.book \in Books /\ moving.id.rev \in Nat
        /\ moving.mask \in SUBSET Spots
    BY <1>3 DEF Animations, Opened
  <2>2. /\ c.op = "none" /\ c.session = moving.id.session /\ c.at = None
        /\ c \in [op : {"none"}, session : Nat, book : Books, rev : Nat, at : Spots,
                  mask : SUBSET Spots]
    BY <2>1 DEF NoCommand, Command, Spots
  <2> HIDE DEF c
  <2> QED
    BY <1>2, <2>2 DEF Jobs
<1> HIDE DEF c
<1>5. deferred = NoCommand /\ Latest(Now)' = NoCommand
  BY <1>1, <1>2 DEF Latest, Newest
<1>6. Worker'
  BY <1>1, <1>2, <1>3, <1>4, <1>5, NoneTypes DEF Worker, sessions
<1>7. Older(Now, results)'
  BY <1>1, <1>2, <1>4 DEF Fine, Older, sessions
<1>8. Book(Now)'
  BY <1>1, <1>2, <1>3, CommandTypes, NoneTypes DEF Fine, Book, PageComing
<1>9. Ended(Now)'
  BY <1>1, <1>2, <1>3, CommandTypes DEF Fine, Ended
<1>10. Video(Now, results)'
  <2>1. ASSUME ui.target.kind = "video", ~ui.failed PROVE ui.waiting /\ ~ui.inFlight
    BY <1>1, <1>2, <1>3, <2>1, CommandTypes, NoneTypes
    DEF Fine, Video, SceneComing, SceneNotAsked, Mine
  <2>2. SceneNotAsked(Now, results) /\ ui.waiting => SceneNotAsked(Now, results)'
    BY <1>1, <1>2, <1>4 DEF SceneNotAsked, Unused, NoneIn, sessions
  <2> QED
    BY <1>1, <1>2, <2>1, <2>2 DEF Fine, Video
<1> QED
  BY <1>1, <1>2, <1>6, <1>7, <1>8, <1>9, <1>10, Worked

LEMMA YieldInv ==
    ASSUME Inv, Yield
    PROVE  Inv'
<1>1. /\ Worker /\ Fine(Now, results) /\ results \in Seq(VideoAnswers) /\ ui.session \in Nat
      /\ pending \in Commands /\ slot \in OtherAnswers \cup {NoResult}
      /\ Now.ui = ui /\ Now.pending = pending /\ Now.slot = slot
      /\ Now'.ui = ui' /\ Now'.pending = pending' /\ Now'.slot = slot'
  BY Facts
<1>2. /\ job.what = "bucket" /\ job' = NoJob
      /\ UNCHANGED <<desk, disk, list, ui, results, slot, sessions>>
  BY DEF Yield
<1>3. job # NoJob /\ job \in Jobs /\ deferred = NoCommand
  BY <1>1, <1>2, NoneTypes DEF Worker
<1>4. job.cmd \in Requests
  BY <1>2, <1>3 DEF Jobs
<1>5. CASE pending # NoCommand
  <2>1. deferred' = pending /\ pending' = NoCommand
    BY <1>5 DEF Yield
  <2>2. Latest(Now)' = Latest(Now)
    BY <1>1, <1>5, <2>1 DEF Latest
  <2>3. Worker' /\ pending' \in Commands
    BY <1>1, <1>2, <2>1, NoneTypes, CommandTypes DEF Worker, sessions
  <2>4. Older(Now, results)'
    BY <1>1, <1>2, <2>1, NoneTypes DEF Fine, Older, sessions
  <2>5. Book(Now)'
    BY <1>1, <1>2, <1>3, <2>2 DEF Fine, Book, PageComing, Mine
  <2>6. Ended(Now)'
    BY <1>1, <1>2, <1>3, <2>2 DEF Fine, Ended
  <2>7. SceneComing(Now, results) => SceneComing(Now, results)'
    BY <1>1, <1>2, <1>3, <2>2, NoneTypes DEF SceneComing, Mine, NoneIn, sessions
  <2>8. SceneNotAsked(Now, results) => SceneNotAsked(Now, results)'
    BY <1>1, <1>2, <1>3, <2>1, <2>2, NoneTypes DEF SceneNotAsked, Unused, NoneIn, sessions
  <2>9. Video(Now, results)'
    BY <1>1, <1>2, <2>7, <2>8 DEF Fine, Video
  <2> QED
    BY <1>1, <1>2, <2>3, <2>4, <2>5, <2>6, <2>9, Worked
<1>6. CASE pending = NoCommand
  <2> DEFINE c == [job.cmd EXCEPT !.op = "AnimatedScrub"]
  <2>1. deferred' = c /\ pending' = NoCommand
    BY <1>6 DEF Yield
  <2>2. c \in Requests /\ c.session = job.cmd.session
    BY <1>4 DEF Requests, Ops
  <2> HIDE DEF c
  <2>3. Latest(Now) = NoCommand
    BY <1>1, <1>3, <1>6 DEF Latest
  <2>4. Worker' /\ pending' \in Commands
    BY <1>1, <1>2, <2>1, <2>2, NoneTypes, CommandTypes DEF Worker, sessions, Commands
  <2>5. Older(Now, results)'
    BY <1>1, <1>2, <2>1, <2>2, NoneTypes DEF Fine, Older, sessions
  <2>6. Book(Now)'
    BY <1>1, <1>2, <1>3, <2>3, CommandTypes DEF Fine, Book, PageComing
  <2>7. Ended(Now)'
    BY <1>1, <1>2, <1>3, <2>3, CommandTypes DEF Fine, Ended
  <2>8. Video(Now, results)'
    <3>1. ASSUME ui.target.kind = "video", ~ui.failed PROVE ui.waiting /\ ~ui.inFlight
      BY <1>1, <1>2, <1>3, <2>3, <3>1, CommandTypes, NoneTypes
      DEF Fine, Video, SceneComing, SceneNotAsked, Mine
    <3>2. SceneNotAsked(Now, results) /\ ui.waiting => SceneNotAsked(Now, results)'
      BY <1>1, <1>2, <2>1, <2>2, NoneTypes DEF SceneNotAsked, Unused, NoneIn, sessions
    <3> QED
      BY <1>1, <1>2, <3>1, <3>2 DEF Fine, Video
  <2> QED
    BY <1>1, <1>2, <2>4, <2>5, <2>6, <2>7, <2>8, Worked
<1> QED
  BY <1>5, <1>6

\* What every command leaves: the worker's state is in order, and whatever is new
\* is of the command's session.
Outcome(c) ==
    /\ video' \in Opened \cup {NoSession} /\ still' \in Opened \cup {NoSession}
    /\ moving' \in Animations \cup {NoMoving}
    /\ job' \in Jobs \cup {NoJob}
    /\ video' # NoSession => still' = NoSession /\ moving' = NoMoving
    /\ still' # NoSession => moving' = NoMoving
    /\ job'.what = "scene" => video'.session = job'.cmd.session
    /\ job'.what = "page" => still' # NoSession
    /\ job'.what \in {"frame", "bucket", "publish"} => moving' # NoMoving
    /\ job' = NoJob \/ job'.cmd = c
    /\ slot' \in {slot, NoResult} \/ (slot' \in OtherAnswers /\ slot'.session = c.session)
    /\ results' \in {results, Append(results, VideoResult("Failed", c))}
    /\ moving'.id.session \in {-1, moving.id.session, c.session}

LEMMA SessionOfType ==
    ASSUME NEW c \in Requests
    PROVE  /\ SessionOf(c) \in Opened /\ SessionOf(c) # NoSession
           /\ SessionOf(c).session = c.session
BY NoneTypes DEF SessionOf, Opened, Requests

LEMMA BegunType ==
    ASSUME NEW c \in Requests, NEW what \in {"scene", "page", "frame", "bucket"}, Begin(what, c)
    PROVE  job' \in Jobs /\ job'.what = what /\ job'.cmd = c
BY DEF Begin, Jobs

LEMMA StartVideoOutcome ==
    ASSUME Worker, NEW c \in Requests, StartVideo(c)
    PROVE  /\ Outcome(c) /\ slot' = NoResult
           /\ \/ /\ job' = NoJob /\ moving' = NoMoving
                 /\ results' = Append(results, VideoResult("Failed", c))
              \/ results' = results /\ job'.what = "scene" /\ job'.cmd = c
<1>1. moving' = NoMoving /\ still' = NoSession /\ slot' = NoResult
  BY DEF StartVideo
<1>2. CASE /\ video' = NoSession /\ job' = NoJob
           /\ results' = Append(results, VideoResult("Failed", c))
  BY <1>1, <1>2, NoneTypes DEF Outcome
<1>3. CASE video' = SessionOf(c) /\ Begin("scene", c) /\ results' = results
  BY <1>1, <1>3, NoneTypes, SessionOfType, BegunType DEF Outcome
<1> QED
  BY <1>1, <1>2, <1>3, BegunType DEF StartVideo

LEMMA VideoSceneOutcome ==
    ASSUME Worker, NEW c \in Requests, VideoScene(c), job = NoJob
    PROVE  /\ Outcome(c) /\ slot' = slot /\ moving' = moving
           /\ \/ video.session # c.session
              \/ /\ job' = NoJob /\ ~Current(c) /\ moving' = NoMoving
                 /\ results' = Append(results, VideoResult("Failed", c))
              \/ results' = results /\ job'.what = "scene" /\ job'.cmd = c
<1>1. moving' = moving /\ still' = still
  BY DEF VideoScene
<1>2. CASE video.session # c.session /\ Silent /\ video' = video /\ job' = NoJob
  BY <1>1, <1>2, NoneTypes DEF Outcome, Worker, Silent
<1>3. CASE /\ video.session = c.session /\ ~ Current(c) /\ video' = NoSession /\ job' = NoJob
           /\ Tell(VideoResult("Failed", c))
  <2>1. c.session \in Nat /\ video # NoSession
    BY <1>3, NoneTypes DEF Requests
  <2> QED
    BY <1>1, <1>3, <2>1, NoneTypes DEF Outcome, Worker, Tell
<1>4. CASE video.session = c.session /\ Silent /\ video' = video /\ Begin("scene", c)
  BY <1>1, <1>4, NoneTypes, BegunType DEF Outcome, Worker, Silent
<1> QED
  BY <1>2, <1>3, <1>4 DEF VideoScene

LEMMA OpenMovingOutcome ==
    ASSUME Worker, NEW c \in Requests, OpenMoving(c)
    PROVE  Outcome(c)
<1>1. video' = NoSession /\ still' = NoSession
  BY DEF OpenMoving
<1>2. ASSUME NEW kind \in {"FrameFailed", "Unavailable"}, Put(FrameResult(kind, c, 0)),
             moving' = NoMoving, job' = NoJob
      PROVE  Outcome(c)
  <2>1. FrameResult(kind, c, 0) \in OtherAnswers /\ FrameResult(kind, c, 0).session = c.session
    BY FrameAnswer DEF Requests
  <2> QED
    BY <1>1, <1>2, <2>1, NoneTypes DEF Outcome, Put
<1>3. CASE /\ results' = results /\ slot' \in {NoResult, slot} /\ moving' = MovingOf(c)
           /\ Begin(IF c.at # None THEN "bucket" ELSE "frame", c)
  <2>1. MovingOf(c) \in Animations /\ MovingOf(c).id.session = c.session
    BY SessionOfType DEF MovingOf, Animations, Requests, Spots
  <2>2. PICK what \in {"bucket", "frame"} : Begin(what, c)
    BY <1>3
  <2>3. job' \in Jobs /\ job'.what = what /\ job'.cmd = c
    BY <2>2, BegunType
  <2> QED
    BY <1>1, <1>3, <2>1, <2>3, NoneTypes DEF Outcome
<1> QED
  BY <1>2, <1>3 DEF OpenMoving

LEMMA UnguardedType ==
    ASSUME NEW s \in Animations, NEW mask
    PROVE  Unguarded(s, mask) \in Animations /\ Unguarded(s, mask).id = s.id
BY DEF Unguarded, Animations, Spots

LEMMA MatchesOpen ==
    ASSUME Worker, NEW c \in Requests, MovingMatches(c) \/ moving.id.session = c.session
    PROVE  moving \in Animations /\ moving # NoMoving /\ video = NoSession /\ still = NoSession
BY NoneTypes, SessionOfType DEF Worker, MovingMatches, NoMoving, Requests

LEMMA AnimatedScrubOutcome ==
    ASSUME Worker, NEW c \in Requests, AnimatedScrub(c)
    PROVE  Outcome(c)
<1> DEFINE s == Unguarded(moving, c.mask)
<1>1. CASE MovingMatches(c)
  <2>1. moving \in Animations /\ moving # NoMoving /\ video = NoSession /\ still = NoSession
    BY <1>1, MatchesOpen
  <2>2. s \in Animations /\ s.id = moving.id
    BY <2>1, UnguardedType
  <2>3. /\ UNCHANGED <<video, still, results, slot>>
        /\ \/ moving' = [s EXCEPT !.due = FALSE] /\ job' = NoJob
           \/ /\ moving' = [s EXCEPT !.bucket = c.at, !.mask = c.mask, !.due = FALSE]
              /\ Begin("bucket", c)
    BY <1>1 DEF AnimatedScrub, Silent
  <2> HIDE DEF s
  <2>4. moving' \in Animations /\ moving'.id = moving.id
    BY <2>2, <2>3 DEF Animations, Requests
  <2>5. job' = NoJob \/ (job' \in Jobs /\ job'.what = "bucket" /\ job'.cmd = c)
    BY <2>3, BegunType
  <2> QED
    BY <2>1, <2>3, <2>4, <2>5, NoneTypes DEF Outcome
<1>2. CASE ~MovingMatches(c)
  BY <1>2, OpenMovingOutcome DEF AnimatedScrub
<1> QED
  BY <1>1, <1>2

LEMMA AnimatedAutoOutcome ==
    ASSUME Worker, NEW c \in Requests, AnimatedAuto(c)
    PROVE  Outcome(c)
<1>1. CASE MovingMatches(c)
  <2>1. moving \in Animations /\ moving # NoMoving /\ video = NoSession /\ still = NoSession
    BY <1>1, MatchesOpen
  <2>2. /\ UNCHANGED <<video, still, results, slot>> /\ job' = NoJob
        /\ moving' = [moving EXCEPT !.bucket = None, !.mask = {}, !.done = None, !.due = TRUE]
    BY <1>1 DEF AnimatedAuto, Silent
  <2>3. None \in Spots
    BY DEF Spots
  <2>4. moving' \in Animations /\ moving'.id = moving.id
    BY <2>1, <2>2, <2>3 DEF Animations
  <2> QED
    BY <2>1, <2>2, <2>4, NoneTypes DEF Outcome
<1>2. CASE ~MovingMatches(c)
  BY <1>2, OpenMovingOutcome DEF AnimatedAuto
<1> QED
  BY <1>1, <1>2

LEMMA AnimatedAbandonOutcome ==
    ASSUME Worker, NEW c \in Requests, AnimatedAbandon(c)
    PROVE  Outcome(c)
<1>1. UNCHANGED <<video, still>> /\ job' = NoJob
  BY DEF AnimatedAbandon
<1>2. CASE moving.id.session = c.session
  <2> DEFINE m == Result("FrameStale", moving.id, moving.bucket, moving.next, c.mask, TRUE)
  <2>1. moving \in Animations /\ moving # NoMoving /\ video = NoSession /\ still = NoSession
    BY <1>2, MatchesOpen
  <2>2. moving' = Unguarded(moving, c.mask) /\ slot' = m /\ results' = results
    BY <1>2 DEF AnimatedAbandon, Put
  <2>3. m \in OtherAnswers /\ m.session = c.session
    BY <1>2, <2>1 DEF Result, OtherAnswers, Answer, Animations, Opened, Requests
  <2>4. moving' \in Animations /\ moving'.id = moving.id
    BY <2>1, <2>2, UnguardedType
  <2> QED
    BY <1>1, <2>1, <2>2, <2>3, <2>4, NoneTypes DEF Outcome
<1>3. CASE moving.id.session # c.session
  BY <1>1, <1>3, NoneTypes DEF AnimatedAbandon, Silent, Outcome, Worker
<1> QED
  BY <1>2, <1>3

\* A page is in the worker's hands, or its failure in the slot.
PageTaken(c) ==
    \/ job'.what = "page" /\ job'.cmd = c
    \/ job' = NoJob /\ moving' = NoMoving /\ slot' = PageResult("PageFailed", c)

LEMMA OpenStillOutcome ==
    ASSUME Worker, NEW c \in Requests, NEW clear \in BOOLEAN, OpenStill(c, clear)
    PROVE  Outcome(c) /\ PageTaken(c)
<1>1. video' = NoSession /\ moving' = NoMoving
  BY DEF OpenStill
<1>2. CASE still' = NoSession /\ Put(PageResult("PageFailed", c)) /\ job' = NoJob
  <2>1. PageResult("PageFailed", c) \in OtherAnswers
        /\ PageResult("PageFailed", c).session = c.session
    BY Results
  <2> QED
    BY <1>1, <1>2, <2>1, NoneTypes DEF Outcome, PageTaken, Put
<1>3. CASE /\ still' = SessionOf(c) /\ Begin("page", c)
           /\ results' = results /\ slot' \in {NoResult, slot}
  BY <1>1, <1>3, NoneTypes, SessionOfType, BegunType DEF Outcome, PageTaken
<1> QED
  BY <1>2, <1>3 DEF OpenStill

LEMMA StaticPageOutcome ==
    ASSUME Worker, NEW c \in Requests, StaticPage(c)
    PROVE  Outcome(c) /\ PageTaken(c)
<1>1. CASE still = SessionOf(c)
  <2>1. still # NoSession /\ moving = NoMoving /\ video = NoSession
    BY <1>1, SessionOfType DEF Worker
  <2>2. UNCHANGED <<video, moving, still, results, slot>> /\ Begin("page", c)
    BY <1>1 DEF StaticPage, sessions, Silent
  <2> QED
    BY <2>1, <2>2, NoneTypes, BegunType DEF Outcome, PageTaken, Worker
<1>2. CASE still # SessionOf(c)
  BY <1>2, OpenStillOutcome DEF StaticPage
<1> QED
  BY <1>1, <1>2

LEMMA PerformOutcome ==
    ASSUME Worker, NEW c \in Requests, Perform(c), job = NoJob
    PROVE  /\ Outcome(c)
           /\ c.op \in {"StartStatic", "StaticPage"} => PageTaken(c)
<1>1. CASE c.op = "StartVideo"
  BY <1>1, StartVideoOutcome DEF Perform
<1>2. CASE c.op = "VideoScene"
  BY <1>2, VideoSceneOutcome DEF Perform
<1>3. CASE c.op = "StartAnimated"
  BY <1>3, OpenMovingOutcome DEF Perform
<1>4. CASE c.op = "AnimatedScrub"
  BY <1>4, AnimatedScrubOutcome DEF Perform
<1>5. CASE c.op = "AnimatedAbandon"
  BY <1>5, AnimatedAbandonOutcome DEF Perform
<1>6. CASE c.op = "AnimatedAuto"
  BY <1>6, AnimatedAutoOutcome DEF Perform
<1>7. CASE c.op = "StartStatic"
  BY <1>7, OpenStillOutcome DEF Perform
<1>8. CASE c.op = "StaticPage"
  BY <1>8, StaticPageOutcome DEF Perform
<1> QED
  BY <1>1, <1>2, <1>3, <1>4, <1>5, <1>6, <1>7, <1>8 DEF Requests, Ops

LEMMA TakeInv ==
    ASSUME Inv, Take
    PROVE  Inv'
<1>1. /\ Worker /\ Known /\ Fine(Now, results) /\ results \in Seq(VideoAnswers)
      /\ ui.session \in Nat
      /\ pending \in Commands /\ slot \in OtherAnswers \cup {NoResult}
      /\ Newest = Latest(Now) /\ Now.ui = ui /\ Now.pending = pending /\ Now.slot = slot
      /\ Now'.ui = ui' /\ Now'.pending = pending' /\ Now'.slot = slot'
  BY Facts
<1> DEFINE c == Newest
<1>2. /\ job = NoJob /\ c # NoCommand /\ pending' = NoCommand /\ deferred' = NoCommand
      /\ Perform(c) /\ UNCHANGED <<desk, disk, list, ui>>
  BY DEF Take
<1>3. c = Latest(Now) /\ c \in Commands /\ c.session <= ui.session
  BY <1>1 DEF Latest, Worker, Fine, Older
<1>4. Latest(Now)' = NoCommand
  BY <1>1, <1>2 DEF Latest
<1> HIDE DEF c
<1>5. CASE c = Stop
  <2>1. /\ video' = NoSession /\ moving' = NoMoving /\ still' = NoSession
        /\ slot' = NoResult /\ results' = results /\ job' = NoJob
    BY <1>2, <1>5, CommandTypes DEF Perform, CloseAll
  <2>2. Worker'
    BY <1>2, <2>1, NoneTypes DEF Worker, Commands
  <2>3. Older(Now, results)'
    BY <1>1, <1>2, <2>1, NoneTypes DEF Fine, Older
  <2>4. Book(Now)'
    BY <1>1, <1>2, <1>3, <1>5, CommandTypes DEF Fine, Book, PageComing
  <2>5. Ended(Now)'
    BY <1>4, <2>1 DEF Ended
  <2>6. ASSUME ui.target.kind = "video", ~ui.failed
        PROVE  ui.waiting /\ ~ui.inFlight /\ SceneNotAsked(Now, results)
    BY <1>1, <1>2, <1>3, <1>5, <2>6, CommandTypes DEF Fine, Video, SceneComing, SceneNotAsked
  <2>7. SceneNotAsked(Now, results) /\ ui.waiting => SceneNotAsked(Now, results)'
    BY <1>1, <1>2, <2>1, NoneTypes DEF SceneNotAsked, Unused, NoneIn
  <2>8. Video(Now, results)'
    <3>1. ui.target.kind = "video" /\ ui.failed => ~ui.inFlight
      BY <1>1 DEF Fine, Video
    <3>2. slot'.session # ui.session
      BY <1>1, <2>1, NoneTypes
    <3> QED
      BY <1>1, <1>2, <2>6, <2>7, <3>1, <3>2 DEF Video
  <2> QED
    BY <1>1, <1>2, <2>1, <2>2, <2>3, <2>4, <2>5, <2>8, CommandTypes, Worked
<1>6. CASE c \in Requests
  <2>1. Outcome(c) /\ (c.op \in {"StartStatic", "StaticPage"} => PageTaken(c))
    BY <1>1, <1>2, <1>6, PerformOutcome
  <2>2. Worker'
    BY <1>2, <2>1, CommandTypes DEF Outcome, Worker
  <2>3. c.session \in Nat /\ c.session # -1
    BY <1>6 DEF Requests
  <2>4. /\ VideoResult("Failed", c) \in VideoAnswers
        /\ VideoResult("Failed", c).session = c.session
        /\ VideoResult("Failed", c).kind = "Failed"
        /\ VideoResult("Failed", c).at = c.at
        /\ VideoResult("Failed", c).book = c.book /\ VideoResult("Failed", c).rev = c.rev
    BY <1>6, Results
  <2>5. /\ results' \in Seq(VideoAnswers)
        /\ \A i \in DOMAIN results' :
             \/ i \in DOMAIN results /\ results'[i] = results[i]
             \/ results'[i].session = c.session
    <3>1. CASE results' = results
      BY <1>1, <3>1
    <3>2. CASE results' = Append(results, VideoResult("Failed", c))
      BY <1>1, <2>4, <3>2, Appended
    <3> QED
      BY <2>1, <3>1, <3>2 DEF Outcome
  <2>6. slot' \in OtherAnswers \cup {NoResult} /\ slot'.session \in {-1, slot.session, c.session}
    BY <1>1, <2>1, NoneTypes DEF Outcome
  <2>7. job'.cmd.session \in {-1, c.session} /\ moving'.id.session \in {-1, moving.id.session, c.session}
    BY <2>1, NoneTypes DEF Outcome
  <2>8. Older(Now, results)'
    BY <1>1, <1>2, <1>3, <2>5, <2>6, <2>7, NoneTypes DEF Fine, Older
  <2>9. Ended(Now)'
    BY <1>1, <1>2, <1>3, <1>6, CommandTypes DEF Fine, Ended
  <2>10. Book(Now)'
    <3> SUFFICES ASSUME ui.target.kind = "static", ui.inFlight
                 PROVE  ~ui.placeFailed /\ PageComing(Now)'
      BY <1>1, <1>2 DEF Book
    <3>1. ~ui.placeFailed /\ c.op \in {"StartStatic", "StaticPage"} /\ Mine(Now, c)
      BY <1>1, <1>2, <1>3 DEF Fine, Book, PageComing
    <3>2. PageTaken(c)
      BY <2>1, <3>1
    <3>3. CASE job'.what = "page" /\ job'.cmd = c
      BY <1>1, <1>2, <1>4, <3>1, <3>3 DEF PageComing, Mine
    <3>4. CASE job' = NoJob /\ moving' = NoMoving /\ slot' = PageResult("PageFailed", c)
      <4>1. /\ slot'.kind = "PageFailed" /\ slot'.session = c.session /\ slot'.at = c.at
            /\ slot'.book = c.book /\ slot'.rev = c.rev
        BY <1>6, <3>4, Results
      <4> QED
        BY <1>1, <1>2, <1>4, <3>1, <3>4, <4>1 DEF PageComing, Mine
    <3> QED
      BY <3>1, <3>2, <3>3, <3>4 DEF PageTaken
  <2>11. ASSUME ui.target.kind = "video", ~ui.failed, ~ui.inFlight
         PROVE  Video(Now, results)'
    <3>1. ui.waiting /\ SceneNotAsked(Now, results) /\ slot.session # ui.session
      BY <1>1, <1>2, <1>3, <2>11 DEF Fine, Video, SceneNotAsked
    <3>2. c.session # ui.session
      BY <1>1, <1>3, <3>1 DEF SceneNotAsked, Unused, Latest
    <3>3. SceneNotAsked(Now, results)'
      BY <1>1, <1>2, <2>5, <2>7, <3>1, <3>2, NoneTypes DEF SceneNotAsked, Unused, NoneIn
    <3> QED
      BY <1>1, <1>2, <2>6, <2>11, <3>1, <3>2, <3>3 DEF Video
  <2>12. ASSUME ui.target.kind = "video", ~ui.failed, ui.inFlight
         PROVE  Video(Now, results)'
    <3>1. ~ui.waiting /\ SceneComing(Now, results) /\ slot.session # ui.session
      BY <1>1, <2>12 DEF Fine, Video
    <3>2. /\ Mine(Now, c) /\ NoneIn(Now, results)
          /\ \/ c.op = "StartVideo" /\ ui.picture = NoPicture
             \/ c.op = "VideoScene" /\ video.session = ui.session
      BY <1>1, <1>2, <1>3, <3>1 DEF SceneComing
    <3>3. /\ slot'.session # ui.session
          /\ \/ /\ job' = NoJob /\ moving' = NoMoving
                /\ results' = Append(results, VideoResult("Failed", c))
                /\ ui.picture = NoPicture \/ ui.target.rev < disk[ui.target.book]
             \/ results' = results /\ job'.what = "scene" /\ job'.cmd = c
      <4>1. CASE c.op = "StartVideo"
        BY <1>1, <1>2, <1>6, <3>2, <4>1, StartVideoOutcome, NoneTypes DEF Perform
      <4>2. CASE c.op = "VideoScene"
        <5>1. /\ slot' = slot
              /\ \/ video.session # c.session
                 \/ /\ job' = NoJob /\ ~Current(c) /\ moving' = NoMoving
                    /\ results' = Append(results, VideoResult("Failed", c))
                 \/ results' = results /\ job'.what = "scene" /\ job'.cmd = c
          BY <1>1, <1>2, <1>6, <4>2, VideoSceneOutcome DEF Perform
        <5>2. video.session = c.session /\ c.book = ui.target.book /\ c.rev = ui.target.rev
          BY <1>1, <3>2, <4>2 DEF Mine
        <5>3. ~Current(c) => ui.target.rev < disk[ui.target.book]
          <6>1. /\ c.book \in Books /\ c.rev \in Nat /\ disk[c.book] \in Nat /\ list[c.book] \in Nat
                /\ list[c.book] <= disk[c.book]
            BY <1>1, <1>6 DEF Known, Requests
          <6>2. c.rev <= list[c.book]
            BY <1>1, <2>12, <5>2 DEF Fine, Aims, NoTarget
          <6> QED
            BY <5>2, <6>1, <6>2 DEF Current
        <5> QED
          BY <3>1, <5>1, <5>2, <5>3
      <4> QED
        BY <3>2, <4>1, <4>2
    <3>4. SceneComing(Now, results)'
      <4>1. CASE results' = results /\ job'.what = "scene" /\ job'.cmd = c
        BY <1>1, <1>2, <1>4, <3>2, <4>1 DEF SceneComing, Mine, NoneIn
      <4>2. CASE /\ job' = NoJob /\ moving' = NoMoving
                 /\ results' = Append(results, VideoResult("Failed", c))
                 /\ ui.picture = NoPicture \/ ui.target.rev < disk[ui.target.book]
        <5> DEFINE m == VideoResult("Failed", c)
                   n == Len(results) + 1
        <5>1. Mine(Now', m) /\ NoneIn(Now', results)
          BY <1>1, <1>2, <2>4, <3>2 DEF Mine, NoneIn
        <5>2. m \in VideoAnswers /\ m.kind = "Failed" /\ results' = Append(results, m)
          BY <2>4, <4>2
        <5> HIDE DEF m
        <5>3. /\ n \in DOMAIN results' /\ results'[n] = m /\ Mine(Now', results'[n])
              /\ \A k \in DOMAIN results' : k # n => results'[k].session # ui.session
          BY <1>1, <1>2, <5>1, <5>2, LastIsMine
        <5> HIDE DEF n
        <5> QED
          BY <1>1, <1>2, <1>4, <4>2, <5>2, <5>3 DEF SceneComing, Mine
      <4> QED
        BY <3>3, <4>1, <4>2
    <3> QED
      BY <1>1, <1>2, <2>12, <3>1, <3>3, <3>4 DEF Video
  <2>13. ASSUME ui.target.kind = "video", ui.failed PROVE ~ui.inFlight
    BY <1>1, <2>13 DEF Fine, Video
  <2>14. Video(Now, results)'
    BY <1>1, <1>2, <2>11, <2>12, <2>13 DEF Video
  <2> QED
    BY <1>1, <1>2, <2>2, <2>5, <2>6, <2>8, <2>9, <2>10, <2>14, CommandTypes, Worked
<1> QED
  BY <1>2, <1>3, <1>5, <1>6, CommandTypes

-----------------------------------------------------------------------------
(* The theorems.                                                           *)

LEMMA InitInv == Init => Inv
<1> SUFFICES ASSUME Init PROVE Inv
  OBVIOUS
<1>1. /\ ui = Idle /\ pending = NoCommand /\ deferred = NoCommand /\ results = <<>>
      /\ slot = NoResult /\ video = NoSession /\ moving = NoMoving /\ still = NoSession
      /\ job = NoJob
  BY DEF Init
<1>2. Known
  BY PreviewAssumption DEF Init, Known
<1>3. Worker
  BY <1>1, CommandTypes, NoneTypes DEF Worker
<1>4. Idle \in Previews
  BY PreviewAssumption DEF Idle, Previews, NoTarget, Targets, NoPicture, Pictures, Spots, None
<1>5. /\ Idle.session = 0 /\ Idle.target = NoTarget /\ Idle.picture = NoPicture
      /\ ~Idle.inFlight /\ NoTarget.kind = "none"
  BY DEF Idle, NoTarget
<1>6. Now \in States /\ Now.ui = Idle /\ Now.pending = NoCommand /\ Now.slot = NoResult
  BY <1>1, <1>4, CommandTypes DEF Now, States
<1>7. Latest(Now) = NoCommand
  BY <1>1, <1>6 DEF Latest
<1>8. results \in Seq(VideoAnswers) /\ DOMAIN results = {}
  BY <1>1
<1> QED
  BY <1>1, <1>2, <1>3, <1>5, <1>6, <1>7, <1>8, NoneTypes
  DEF Inv, Fine, Aims, Older, Pictured, Book, Video, Ended, Settled

LEMMA NextInv == Inv /\ [Next]_vars => Inv'
<1> SUFFICES ASSUME Inv, [Next]_vars PROVE Inv'
  OBVIOUS
<1>1. Known
  BY DEF Inv
<1>2. ASSUME NEW b \in desk, NEW scrolled \in {FALSE, ui.target # NoTarget},
             NEW elapsed \in BOOLEAN, NEW c \in Cells(b) \cup {NoCell},
             NEW scene \in IF b \in Videos THEN Places ELSE {0},
             Frame(c, scrolled, elapsed, scene)
      PROVE  Inv'
  <2>1. b \in Books
    BY <1>1 DEF Known
  <2>2. c \in CellSet \cup {NoCell} /\ scrolled \in BOOLEAN /\ scene \in Spots
    BY <2>1, CellTypes, PreviewAssumption DEF Spots
  <2> QED
    BY <1>2, <2>2, FrameInv
<1>3. CASE UNCHANGED vars
  <2>1. UNCHANGED <<desk, disk, list, workVars>> /\ results' = results
    BY <1>3 DEF vars, workVars
  <2>2. Now = [ui |-> ui', pending |-> pending', slot |-> slot']
    BY <1>3 DEF vars, uiVars, Now
  <2> QED
    BY <2>1, <2>2, Unmoved DEF Inv
<1> QED
  BY <1>2, <1>3, PollInv, LibraryInv, TakeInv, NextFrameInv, SceneDoneInv, PageDoneInv, FramesInv,
     YieldInv
  DEF Next

LEMMA InvHolds == Spec => []Inv
BY InitInv, NextInv, PTL DEF Spec

\* P1. The picture in the cell is of the file, the revision and the preview under
\* the pointer (handle_preview_response, source_matches_revision).
THEOREM PictureCorrect == Spec => []PictureOfTarget
<1>1. Inv => PictureOfTarget
  BY DEF Inv, Fine, Pictured, Now, PictureOfTarget
<1> QED
  BY <1>1, InvHolds, PTL

\* P2. What a video or a book waits for is on its way, although commands and
\* answers replace each other (PreviewControl, decode_in_flight).
THEOREM AwaitedCorrect == Spec => []Awaited
<1>1. Inv => Awaited
  <2> SUFFICES ASSUME Inv, ui.inFlight, ui.target.kind \in {"video", "static"}
               PROVE  Coming(ui.asked)
    BY DEF Awaited
  <2>1. /\ Fine(Now, results) /\ Newest = Latest(Now) /\ Now.ui = ui /\ Now.slot = slot
    BY Facts
  <2>2. CASE ui.target.kind = "video"
    <3>1. SceneComing(Now, results)
      BY <2>1, <2>2 DEF Fine, Video
    <3> QED
      BY <2>1, <3>1 DEF SceneComing, Coming, Serves, Answers, Mine
  <2>3. CASE ui.target.kind = "static"
    <3>1. PageComing(Now)
      BY <2>1, <2>3 DEF Fine, Book
    <3> QED
      BY <2>1, <3>1 DEF PageComing, Coming, Serves, Answers, Mine
  <2> QED
    BY <2>2, <2>3
<1> QED
  BY <1>1, InvHolds, PTL

\* P4. With no cell under the pointer and the worker at rest no file is held open
\* (PreviewCommand::Stop overwrites what waits, and is overwritten by a target).
THEOREM ClosedCorrect == Spec => []NothingHeldOpen
<1>1. Inv => NothingHeldOpen
  <2> SUFFICES ASSUME Inv, ui.target = NoTarget, Newest = NoCommand, job = NoJob
               PROVE  video = NoSession /\ still = NoSession /\ moving = NoMoving
    BY DEF NothingHeldOpen
  <2> QED
    BY Facts, CommandTypes DEF Fine, Ended
<1> QED
  BY <1>1, InvHolds, PTL

-----------------------------------------------------------------------------
(* The bucket an animated image asks for (P3).                             *)

ImageOps == {"StartAnimated", "AnimatedScrub", "AnimatedAbandon", "AnimatedAuto"}
BucketOps == {"StartAnimated", "AnimatedScrub"}
ImageKinds == {"FrameReady", "FrameFailed", "FrameStale", "Unavailable"}

Image(p) == p.ui.target.kind = "animated"
Asking(p) == Image(p) /\ p.ui.mode = "Scrub" /\ p.ui.asked # None
Own(p, m) == m.session = p.ui.session

\* What is of this session is of its file, and of the kind of its file.
Related(p, rs) ==
    /\ NoneIn(p, rs)
    /\ \A c \in {p.pending, deferred} : Own(p, c) => c.op \in ImageOps /\ OfTarget(p, c)
    /\ Own(p, job.cmd) => job.what \in {"frame", "bucket", "publish"} /\ OfTarget(p, job.cmd)
    /\ Own(p, moving.id) => OfTarget(p, moving.id)
    /\ Own(p, p.slot) => p.slot.kind \in ImageKinds /\ OfTarget(p, p.slot)

\* The marks of an animated image among each other.
Signs(p) ==
    /\ IF p.ui.mode = "Auto" THEN p.ui.asked = None /\ p.ui.shown = None
       ELSE p.ui.want # None
    /\ p.ui.submitted = p.ui.asked
    /\ p.ui.placeFailed => p.ui.asked = None
    /\ p.ui.unavailable => ~p.ui.started
    /\ p.ui.shown # None => p.ui.started

\* An animation at rest on a bucket has no frame due; the decoding is of its bucket.
Hands ==
    /\ job.what \in {"bucket", "publish"} =>
         moving.bucket = job.cmd.at /\ moving.id = SessionOf(job.cmd)
    /\ job.what = "frame" => job.cmd.at = None /\ moving.bucket = None
    /\ moving.bucket # None => ~moving.due

\* An order for a bucket empties the slot.  Until the decoding it overtakes is
\* over nothing fills it again; if the decoding gives way the order is deferred
\* with the slot still empty, and a decoding that defers itself is of the bucket.
Cleared(p) == job.what = "bucket" /\ p.pending.op \in BucketOps => p.slot = NoResult
Carried(p) ==
    deferred.op \in BucketOps /\ Own(p, deferred) =>
        \/ moving.id.session = deferred.session /\ moving.bucket = deferred.at
        \/ ~Own(p, p.slot)

\* The latest order is for the bucket asked for; or it has been taken, and the
\* animation is at that bucket; or the bucket is lost.
Ordered(p) ==
    /\ Latest(p).op \in BucketOps /\ Own(p, Latest(p))
    /\ Latest(p).at = p.ui.asked
Quiet(p) ==
    \/ Latest(p) = NoCommand
    \/ Latest(p).op = "AnimatedAbandon" /\ Own(p, Latest(p))
Held(p) ==
    /\ \/ job = NoJob
       \/ job.what \in {"bucket", "publish"} /\ Own(p, job.cmd) /\ job.cmd.at = p.ui.asked
    /\ moving = NoMoving \/ (Own(p, moving.id) /\ moving.bucket = p.ui.asked)
Gone(p) ==
    /\ job.what \in {"none", "frame"}
    /\ ~(Own(p, p.slot) /\ p.slot.at = p.ui.asked)
    /\ ~(Own(p, moving.id) /\ moving.bucket = p.ui.asked)
Tracked(p) == Asking(p) => Ordered(p) \/ (Quiet(p) /\ (Held(p) \/ Gone(p)))

\* Until a session has started nothing of it is decoded.  Once a bucket of it has
\* been decoded the animation stays open, so that it can no longer turn out to be
\* unavailable; when it does, nothing else is under way.
OnBucket(p) == job.what \in {"bucket", "publish"} /\ Own(p, job.cmd)
Unstarted(p) ==
    ~p.ui.started =>
        /\ ~OnBucket(p)
        /\ ~Own(p, Latest(p)) \/ Latest(p).op = "AnimatedAbandon"
Open(p) ==
    /\ Own(p, moving.id)
    /\ \A c \in {p.pending, deferred} : c = NoCommand \/ (Own(p, c) /\ c.op # "StartAnimated")
BucketReady(p) == p.slot.kind = "FrameReady" /\ Own(p, p.slot) /\ p.slot.at # None
StaysOpen(p) ==
    /\ p.ui.shown # None => Open(p)
    /\ p.ui.started /\ (BucketReady(p) \/ OnBucket(p)) => Open(p)
Closed(p) ==
    p.slot.kind = "Unavailable" /\ Own(p, p.slot) =>
        /\ job = NoJob /\ moving = NoMoving /\ deferred = NoCommand
        /\ p.pending = NoCommand \/ (p.pending.op = "AnimatedAbandon" /\ Own(p, p.pending))
\* While the image plays, the order to play is the latest one or has been taken.
Playing(p) ==
    p.ui.mode = "Auto" /\ p.ui.started =>
        /\ \/ Latest(p) = NoCommand /\ job.what \notin {"bucket", "publish"}
           \/ /\ Latest(p).op \in {"StartAnimated", "AnimatedAuto"} /\ Own(p, Latest(p))
              /\ Latest(p).at = None
        /\ OnBucket(p) /\ Own(p, p.slot) => p.slot.at # None

Course(p) == Unstarted(p) /\ StaysOpen(p) /\ Closed(p) /\ Playing(p)
Buckets(p, rs) ==
    Image(p) =>
        Related(p, rs) /\ Signs(p) /\ Cleared(p) /\ Carried(p) /\ Tracked(p) /\ Course(p)

\* Between two frames the pointer is at the bucket asked for or at the one shown.
Rests(p) == Asking(p) /\ p.ui.started => p.ui.want \in {p.ui.asked, p.ui.shown}
BucketInv == Hands /\ Buckets(Now, results) /\ Rests(Now)

\* What a frame of the grid does to the bucket asked for: it orders one, or leaves
\* it as it was and at most abandons others.
Turned(p, q) ==
    Asking(q) =>
        \/ q.pending.op \in BucketOps /\ Own(q, q.pending) /\ q.pending.at = q.ui.asked
        \/ /\ Asking(p) /\ q.slot = p.slot
           /\ q.ui.session = p.ui.session /\ q.ui.asked = p.ui.asked
           /\ q.ui.shown = p.ui.shown /\ q.ui.started = p.ui.started
           /\ \/ q.pending = p.pending
              \/ p.pending = NoCommand /\ q.pending.op = "AnimatedAbandon"

\* The commands stay as they are.
LEMMA Stays ==
    ASSUME NEW p \in States, NEW rs, Image(p), Buckets(p, rs),
           NEW q \in States, q.ui.session = p.ui.session, q.ui.target = p.ui.target, Signs(q),
           q.pending = p.pending, q.slot \in {p.slot, NoResult},
           q.ui.asked = None \/ (q.ui.asked = p.ui.asked /\ q.ui.mode = p.ui.mode),
           q.ui.started = p.ui.started,
           q.ui.shown # None => p.ui.shown # None \/ Open(p),
           q.ui.mode = p.ui.mode \/ q.ui.mode = "Scrub" \/ ~q.ui.started
    PROVE  Buckets(q, rs)
<1>1. q.ui.session \in Nat /\ Latest(q) = Latest(p)
  BY DEF States, Previews, Latest
<1>2. Related(q, rs) /\ Cleared(q) /\ Carried(q)
  BY <1>1, NoneTypes
  DEF Buckets, Related, NoneIn, Cleared, Carried, Own, OfTarget
<1>3. Tracked(q)
  <2> SUFFICES ASSUME Asking(q) PROVE Ordered(q) \/ (Quiet(q) /\ (Held(q) \/ Gone(q)))
    BY DEF Tracked
  <2>1. Asking(p) /\ q.ui.asked = p.ui.asked
    BY DEF Asking, Image
  <2>2. Ordered(p) => Ordered(q)
    BY <1>1, <2>1 DEF Ordered, Own
  <2>3. Quiet(p) => Quiet(q)
    BY <1>1, <2>1 DEF Quiet, Own
  <2>4. Held(p) => Held(q)
    BY <1>1, <2>1 DEF Held, Own
  <2>5. Gone(p) => Gone(q)
    BY <1>1, <2>1, NoneTypes DEF Gone, Own
  <2> QED
    BY <2>1, <2>2, <2>3, <2>4, <2>5 DEF Buckets, Tracked
<1>4. Open(p) => Open(q)
  BY DEF Open, Own
<1>5. StaysOpen(q)
  BY <1>1, <1>4, NoneTypes DEF Buckets, Course, StaysOpen, BucketReady, OnBucket, Own
<1>6. Unstarted(q) /\ Closed(q) /\ Playing(q)
  BY <1>1, NoneTypes DEF Buckets, Course, Unstarted, Closed, Playing, OnBucket, Own
<1> QED
  BY <1>2, <1>3, <1>5, <1>6 DEF Buckets, Course

\* The order for a bucket is withdrawn.
LEMMA Withdraws ==
    ASSUME NEW p \in States, NEW rs, Image(p), Buckets(p, rs),
           NEW q \in States, q.ui.session = p.ui.session, q.ui.target = p.ui.target, Signs(q),
           q.pending = NoCommand, q.slot = p.slot, q.ui.asked = None,
           p.ui.started, q.ui.started, q.ui.mode = "Scrub", q.ui.shown = p.ui.shown
    PROVE  Buckets(q, rs)
<1>1. /\ q.ui.session \in Nat /\ q.pending.session = -1 /\ q.pending.op \notin BucketOps
      /\ q.ui.mode # "Auto"
  BY CommandTypes DEF States, Previews, BucketOps
<1>2. Related(q, rs) /\ Cleared(q) /\ Carried(q)
  BY <1>1, NoneTypes DEF Buckets, Related, NoneIn, Cleared, Carried, Own, OfTarget
<1>3. Open(p) => Open(q)
  BY DEF Open, Own
<1>4. StaysOpen(q)
  BY <1>3 DEF Buckets, Course, StaysOpen, BucketReady, OnBucket, Own
<1>5. Unstarted(q) /\ Closed(q) /\ Playing(q)
  BY <1>1 DEF Buckets, Course, Unstarted, Closed, Playing, Own
<1> QED
  BY <1>2, <1>4, <1>5 DEF Buckets, Course, Tracked, Asking

\* The worker is told to stop: the animation failed to play.
LEMMA Stops ==
    ASSUME NEW p \in States, NEW rs, Image(p), Buckets(p, rs), ~OnBucket(p),
           NEW q \in States, q.ui.session = p.ui.session, q.ui.target = p.ui.target, Signs(q),
           q.pending = Stop, q.slot = NoResult, q.ui.asked = None, ~q.ui.started
    PROVE  Buckets(q, rs)
<1>1. /\ q.ui.session \in Nat /\ q.pending.session = -1 /\ q.pending.op \notin BucketOps
      /\ q.pending # NoCommand
  BY CommandTypes DEF States, Previews, BucketOps
<1>2. Latest(q) = Stop /\ ~Own(q, Latest(q)) /\ ~Own(q, q.slot) /\ ~OnBucket(q)
  BY <1>1, NoneTypes DEF Latest, Own, OnBucket
<1>3. Related(q, rs) /\ Cleared(q) /\ Carried(q)
  BY <1>1, <1>2 DEF Buckets, Related, NoneIn, Cleared, Carried, Own, OfTarget
<1>4. Course(q)
  BY <1>2 DEF Signs, Course, StaysOpen, Unstarted, Closed, Playing
<1> QED
  BY <1>3, <1>4 DEF Buckets, Tracked, Asking

\* Something is ordered.
LEMMA Orders ==
    ASSUME NEW p \in States, NEW rs, Image(p), Buckets(p, rs),
           NEW q \in States, q.ui.session = p.ui.session, q.ui.target = p.ui.target, Signs(q),
           q.pending.op \in BucketOps \cup {"AnimatedAuto"},
           Own(q, q.pending), OfTarget(q, q.pending),
           q.slot = NoResult, q.ui.started,
           q.ui.asked = None \/ (q.pending.op \in BucketOps /\ q.pending.at = q.ui.asked),
           q.pending.op = "StartAnimated" <=> ~p.ui.started,
           q.ui.mode = "Auto" => q.pending.op # "AnimatedScrub" /\ q.pending.at = None,
           q.ui.shown \in {None, p.ui.shown}
    PROVE  Buckets(q, rs)
<1>1. q.ui.session \in Nat /\ q.pending.op \in ImageOps /\ q.pending # NoCommand
  BY CommandTypes DEF States, Previews, BucketOps, ImageOps
<1>2. Latest(q) = q.pending /\ ~Own(q, q.slot)
  BY <1>1, NoneTypes DEF Latest, Own
<1>3. Related(q, rs) /\ Cleared(q) /\ Carried(q)
  BY <1>1, <1>2 DEF Buckets, Related, NoneIn, Cleared, Carried, Own, OfTarget
<1>4. Tracked(q)
  BY <1>2 DEF Tracked, Asking, Ordered
<1>5. p.ui.started /\ Open(p) => Open(q)
  BY DEF Open, Own
<1>6. StaysOpen(q)
  <2>1. p.ui.started => StaysOpen(q)
    BY <1>2, <1>5 DEF Buckets, Course, StaysOpen, BucketReady, OnBucket, Own
  <2>2. ~p.ui.started => q.ui.shown = None /\ ~OnBucket(q)
    BY DEF Buckets, Course, Signs, Unstarted, OnBucket, Own
  <2> QED
    BY <1>2, <2>1, <2>2 DEF StaysOpen, BucketReady
<1>7. Unstarted(q) /\ Closed(q) /\ Playing(q)
  BY <1>2 DEF Unstarted, Closed, Playing, BucketOps
<1> QED
  BY <1>3, <1>4, <1>6, <1>7 DEF Buckets, Course

\* Buckets are abandoned: a command that was deferred is overtaken.
LEMMA Abandons ==
    ASSUME NEW p \in States, NEW rs, Image(p), Buckets(p, rs), Worker, Hands,
           NEW q \in States, q.ui.session = p.ui.session, q.ui.target = p.ui.target, Signs(q),
           p.pending = NoCommand, q.pending.op = "AnimatedAbandon",
           Own(q, q.pending), OfTarget(q, q.pending), q.slot = p.slot,
           q.ui.asked = None \/ (q.ui.asked = p.ui.asked /\ q.ui.mode = p.ui.mode),
           p.ui.started, q.ui.started, q.ui.mode = "Scrub", q.ui.shown = p.ui.shown
    PROVE  Buckets(q, rs)
<1>1. q.ui.session \in Nat /\ q.pending.op \in ImageOps /\ q.pending # NoCommand
      /\ q.pending.op \notin BucketOps /\ q.ui.mode # "Auto"
  BY CommandTypes DEF States, Previews, BucketOps, ImageOps
<1>2. Latest(q) = q.pending /\ Latest(p) = deferred /\ Quiet(q)
  BY <1>1 DEF Latest, Quiet
<1>3. Related(q, rs) /\ Cleared(q) /\ Carried(q)
  BY <1>1 DEF Buckets, Related, NoneIn, Cleared, Carried, Own, OfTarget
<1>4. Tracked(q)
  <2> SUFFICES ASSUME Asking(q) PROVE Held(q) \/ Gone(q)
    BY <1>2 DEF Tracked
  <2>1. Asking(p) /\ q.ui.asked = p.ui.asked
    BY DEF Asking, Image
  <2>2. CASE Ordered(p)
    <3>1. /\ deferred.op \in BucketOps /\ Own(p, deferred) /\ deferred.at = p.ui.asked
      BY <1>2, <2>2 DEF Ordered
    <3>2. job = NoJob
      BY <3>1, CommandTypes DEF Worker, BucketOps
    <3>3. \/ Own(p, moving.id) /\ moving.bucket = p.ui.asked
          \/ ~Own(p, p.slot)
      BY <3>1 DEF Buckets, Carried, Own
    <3> QED
      BY <2>1, <3>2, <3>3, NoneTypes DEF Held, Gone, Own
  <2>3. CASE Quiet(p) /\ (Held(p) \/ Gone(p))
    BY <2>1, <2>3 DEF Held, Gone, Own
  <2> QED
    BY <2>1, <2>2, <2>3 DEF Buckets, Tracked
<1>5. Open(p) => Open(q)
  BY <1>1 DEF Open, Own
<1>6. StaysOpen(q)
  BY <1>5 DEF Buckets, Course, StaysOpen, BucketReady, OnBucket, Own
<1>7. Unstarted(q) /\ Closed(q) /\ Playing(q)
  BY <1>1 DEF Buckets, Course, Unstarted, Closed, Playing, Own
<1> QED
  BY <1>3, <1>4, <1>6, <1>7 DEF Buckets, Course

\* A new session: nothing in the pipe is of it.
LEMMA Renews ==
    ASSUME NEW p \in States, NEW rs, Older(p, rs), Worker,
           \A i \in DOMAIN rs : rs[i].session \in Nat,
           NEW q \in States, q.ui.session = p.ui.session + 1, Image(q) => Signs(q),
           q.pending = Stop, q.slot = NoResult, q.ui.asked = None, ~q.ui.started
    PROVE  Buckets(q, rs) /\ Turned(p, q)
<1>1. p.ui.session \in Nat
  BY DEF States, Previews
<1>2. deferred.session \in Int /\ job.cmd.session \in Int /\ moving.id.session \in Int
  BY CommandTypes
  DEF Worker, Jobs, NoJob, Animations, NoMoving, NoSession, Opened, Requests, None
<1>3. /\ ~Own(q, deferred) /\ ~Own(q, job.cmd)
      /\ ~Own(q, moving.id) /\ ~Own(q, q.pending)
      /\ ~Own(q, q.slot) /\ NoneIn(q, rs) /\ q.pending.op = "Stop"
  BY <1>1, <1>2, CommandTypes, NoneTypes DEF Older, NoneIn, Own
<1>4. Related(q, rs) /\ Cleared(q) /\ Carried(q)
  BY <1>3 DEF Related, Cleared, Carried
<1>5. ~Own(q, Latest(q)) /\ ~OnBucket(q)
  BY <1>3, CommandTypes DEF Latest, OnBucket
<1>6. Image(q) => Course(q)
  BY <1>3, <1>5 DEF Course, Unstarted, StaysOpen, Closed, Playing, Signs
<1> QED
  BY <1>4, <1>6 DEF Buckets, Tracked, Asking, Turned

\* A cell of an animated image that is scrubbed names a bucket.
HoverCells ==
    {c \in CellSet : c.kind = "animated" /\ c.mode = "Scrub" => c.at # None} \cup {NoCell}
LEMMA HoverCellTypes ==
    /\ \A b \in Books : Cells(b) \cup {NoCell} \subseteq HoverCells
    /\ HoverCells \subseteq CellSet \cup {NoCell}
BY PreviewAssumption DEF Cells, HoverCells, CellSet, Spots, None

\* What an order of the user interface says.
LEMMA AskOwn ==
    ASSUME NEW p \in States, p.ui.target # NoTarget, NEW op \in Ops, NEW at \in Spots,
           NEW mask \in SUBSET Spots
    PROVE  /\ Ask(p, op, at, mask) \in Requests /\ Ask(p, op, at, mask) \in Commands
           /\ Ask(p, op, at, mask).op = op /\ Ask(p, op, at, mask).at = at
           /\ Own(p, Ask(p, op, at, mask)) /\ OfTarget(p, Ask(p, op, at, mask))
BY AskType DEF Own, OfTarget

LEMMA InvalidateMarks ==
    ASSUME NEW p \in States
    PROVE  /\ Invalidate(p).ui.asked = None /\ Invalidate(p).ui.submitted = None
           /\ Invalidate(p).ui.shown = None /\ Invalidate(p).ui.started = FALSE
           /\ Invalidate(p).ui.placeFailed = FALSE /\ Invalidate(p).ui.unavailable = FALSE
BY DEF Invalidate, SubmitClearing, Idle, States

LEMMA InvalidateBuckets ==
    ASSUME NEW p \in States, NEW rs
    PROVE  /\ Buckets(Invalidate(p), rs) /\ Turned(p, Invalidate(p))
           /\ ~Image(Invalidate(p))
<1>1. Invalidate(p).ui.target = NoTarget
  BY InvalidateParts
<1>2. NoTarget.kind # "animated"
  BY DEF NoTarget
<1>3. ~Image(Invalidate(p))
  BY <1>1, <1>2 DEF Image
<1> QED
  BY <1>3 DEF Buckets, Turned, Asking

\* The pointer comes to another cell.
LEMMA NewTargetBuckets ==
    ASSUME NEW p \in States, NEW rs, Older(p, rs), NEW c \in HoverCells, c # NoCell, Worker, Known,
           \A i \in DOMAIN rs : rs[i].session \in Nat
    PROVE  Buckets(NewTarget(p, c), rs) /\ Turned(p, NewTarget(p, c))
<1> DEFINE w == ~ (c.kind = "static" \/ (c.kind = "animated" /\ c.mode = "Scrub"))
           s == Invalidate(p)
           q == [s EXCEPT !.ui.target = TargetOf(c), !.ui.mode = c.mode, !.ui.want = c.at,
                          !.ui.waiting = w]
<1>1. NewTarget(p, c) = q
  BY DEF NewTarget
<1>2. /\ s \in States /\ s.pending = Stop /\ s.slot = NoResult
      /\ s.ui.session = p.ui.session + 1
      /\ s.ui.asked = None /\ s.ui.submitted = None /\ s.ui.shown = None
      /\ s.ui.started = FALSE /\ s.ui.placeFailed = FALSE /\ s.ui.unavailable = FALSE
  BY InvalidateParts, InvalidateMarks
<1>3. c \in CellSet /\ TargetOf(c) \in Targets /\ TargetOf(c).kind = c.kind
  BY HoverCellTypes DEF TargetOf, Targets, CellSet, Known
<1>4. w \in BOOLEAN
  OBVIOUS
<1> HIDE DEF s, w
<1>5. /\ q \in States /\ q.pending = Stop /\ q.slot = NoResult
      /\ q.ui.session = p.ui.session + 1
      /\ q.ui.asked = None /\ q.ui.submitted = None /\ q.ui.shown = None
      /\ q.ui.started = FALSE /\ q.ui.placeFailed = FALSE /\ q.ui.unavailable = FALSE
      /\ q.ui.target = TargetOf(c) /\ q.ui.mode = c.mode /\ q.ui.want = c.at
  BY <1>2, <1>3, <1>4, ZenonT(60) DEF States, Previews, CellSet
<1> HIDE DEF q
<1>6. Image(q) => Signs(q)
  BY <1>3, <1>5 DEF Image, Signs, HoverCells, CellSet
<1> QED
  BY <1>1, <1>5, <1>6, Renews

\* The pointer moves within an animated image.
LEMMA SameAnimatedBuckets ==
    ASSUME NEW p \in States, NEW rs, Buckets(p, rs), Image(p), NEW c \in HoverCells, c # NoCell,
           c.kind = "animated"
    PROVE  Buckets(SameAnimated(p, c), rs) /\ Turned(p, SameAnimated(p, c))
<1> DEFINE same == p.ui.placeFailed /\ p.ui.want = c.at
           q == [p EXCEPT !.ui.mode = c.mode, !.ui.want = c.at, !.ui.placeFailed = same]
           s == [q EXCEPT !.ui.placeFailed = FALSE, !.ui.shown = None, !.ui.submitted = None,
                          !.ui.mask = {}, !.ui.waiting = FALSE]
           r == [s EXCEPT !.ui.lastFrame = None, !.ui.asked = None, !.ui.inFlight = FALSE]
           d == Ask(r, "AnimatedAuto", None, {})
           a == SubmitClearing(r, d)
           h == SameAnimated(p, c)
<1>1. /\ c \in CellSet /\ (c.mode = "Scrub" => c.at # None) /\ c.mode \in {"Auto", "Scrub"}
      /\ Signs(p) /\ p.ui.mode \in {"Auto", "Scrub"} /\ None \in Spots
  BY HoverCellTypes DEF HoverCells, CellSet, Buckets, States, Previews, Spots
<1>2. h = IF p.ui.mode # c.mode THEN SwitchMode(q) ELSE q
  BY DEF SameAnimated
<1>3. same \in BOOLEAN /\ (same => p.ui.placeFailed)
  BY DEF States, Previews
<1> HIDE DEF same, h
<1>4. /\ q \in States /\ q.pending = p.pending /\ q.slot = p.slot
      /\ q.ui.session = p.ui.session /\ q.ui.target = p.ui.target
      /\ q.ui.mode = c.mode /\ q.ui.want = c.at /\ q.ui.placeFailed = same
      /\ q.ui.asked = p.ui.asked /\ q.ui.submitted = p.ui.submitted
      /\ q.ui.shown = p.ui.shown /\ q.ui.started = p.ui.started
      /\ q.ui.unavailable = p.ui.unavailable
  BY <1>1, <1>3 DEF States, Previews, CellSet
<1> HIDE DEF q
<1>5. SwitchMode(q) = IF c.mode = "Scrub" THEN s ELSE IF q.ui.started THEN a ELSE r
  BY <1>4 DEF SwitchMode
<1>6. /\ s \in States /\ s.pending = p.pending /\ s.slot = p.slot
      /\ s.ui.session = p.ui.session /\ s.ui.target = p.ui.target
      /\ s.ui.mode = c.mode /\ s.ui.want = c.at /\ s.ui.placeFailed = FALSE
      /\ s.ui.asked = p.ui.asked /\ s.ui.submitted = None
      /\ s.ui.shown = None /\ s.ui.started = p.ui.started
      /\ s.ui.unavailable = p.ui.unavailable
  BY <1>1, <1>4, ZenonT(60) DEF States, Previews
<1> HIDE DEF s, a
<1>7. /\ r \in States /\ r.pending = p.pending /\ r.slot = p.slot
      /\ r.ui.session = p.ui.session /\ r.ui.target = p.ui.target
      /\ r.ui.mode = c.mode /\ r.ui.want = c.at /\ r.ui.placeFailed = FALSE
      /\ r.ui.asked = None /\ r.ui.submitted = None
      /\ r.ui.shown = None /\ r.ui.started = p.ui.started
      /\ r.ui.unavailable = p.ui.unavailable
  BY <1>1, <1>6 DEF States, Previews
<1> HIDE DEF r
<1>8. CASE p.ui.mode = c.mode
  <2>1. Signs(q)
    BY <1>1, <1>3, <1>4, <1>8 DEF Signs
  <2>2. Buckets(q, rs)
    BY <1>4, <1>8, <2>1, Stays
  <2>3. Turned(p, q)
    BY <1>4, <1>8 DEF Turned, Asking
  <2> QED
    BY <1>2, <1>8, <2>2, <2>3 DEF h
<1>9. CASE p.ui.mode # c.mode /\ c.mode = "Scrub"
  <2>1. s.ui.asked = None
    BY <1>1, <1>6, <1>9 DEF Signs
  <2>2. Signs(s)
    BY <1>1, <1>6, <1>9, <2>1 DEF Signs
  <2>3. Buckets(s, rs)
    BY <1>6, <1>9, <2>1, <2>2, Stays
  <2>4. Turned(p, s)
    BY <2>1 DEF Turned, Asking
  <2> QED
    BY <1>2, <1>5, <1>9, <2>3, <2>4 DEF h
<1>10. CASE p.ui.mode # c.mode /\ c.mode = "Auto" /\ ~p.ui.started
  <2>1. Signs(r)
    BY <1>1, <1>7, <1>10 DEF Signs
  <2>2. Buckets(r, rs)
    BY <1>7, <1>10, <2>1, Stays
  <2>3. Turned(p, r)
    BY <1>7 DEF Turned, Asking
  <2> QED
    BY <1>2, <1>4, <1>5, <1>10, <2>2, <2>3 DEF h
<1>11. CASE p.ui.mode # c.mode /\ c.mode = "Auto" /\ p.ui.started
  <2>1. r.ui.target # NoTarget
    BY <1>7 DEF Image, NoTarget
  <2>2. /\ d \in Commands /\ d.op = "AnimatedAuto" /\ d.at = None /\ Own(r, d) /\ OfTarget(r, d)
    BY <1>1, <1>7, <2>1, AskOwn DEF Ops
  <2> HIDE DEF d
  <2>3. a \in States /\ a.ui = r.ui /\ a.pending = d /\ a.slot = NoResult
    BY <1>7, <2>2, Submitted DEF a
  <2>4. Signs(a) /\ Own(a, d) /\ OfTarget(a, d)
    BY <1>1, <1>7, <1>11, <2>2, <2>3 DEF Signs, Own, OfTarget
  <2>5. Buckets(a, rs)
    BY <1>7, <1>11, <2>2, <2>3, <2>4, Orders
  <2>6. Turned(p, a)
    BY <1>7, <2>3 DEF Turned, Asking
  <2> QED
    BY <1>2, <1>4, <1>5, <1>11, <2>5, <2>6 DEF h
<1> QED
  BY <1>1, <1>8, <1>9, <1>10, <1>11

\* The pointer moves: the bucket asked for stays, or nothing is asked for.
LEMMA HoverBuckets ==
    ASSUME NEW p, NEW rs, Fine(p, rs), Buckets(p, rs), NEW c \in HoverCells, Worker, Known,
           \A i \in DOMAIN rs : rs[i].session \in Nat
    PROVE  Buckets(Hover(p, c), rs) /\ Turned(p, Hover(p, c))
<1>1. p \in States /\ Older(p, rs) /\ c \in CellSet \cup {NoCell}
  BY HoverCellTypes DEF Fine
<1>2. CASE c = NoCell /\ p.ui.target = NoTarget
  BY <1>2 DEF Hover, Turned, Asking, Image, NoTarget
<1>3. CASE c = NoCell /\ p.ui.target # NoTarget
  BY <1>1, <1>3, InvalidateBuckets DEF Hover, NewTarget
<1>4. CASE c # NoCell /\ p.ui.target # TargetOf(c)
  BY <1>1, <1>4, NewTargetBuckets DEF Hover
<1>5. CASE c # NoCell /\ p.ui.target = TargetOf(c) /\ c.kind \in {"video", "static"}
  <2> DEFINE v == SameVideo(p, c)
             b == SameBook(p, c)
  <2>1. Hover(p, c) \in {v, b}
    BY <1>5 DEF Hover
  <2>2. v.ui.target = p.ui.target /\ b.ui.target = p.ui.target
    BY <1>1 DEF SameVideo, SameBook, States, Previews
  <2>3. ~Image(v) /\ ~Image(b)
    BY <1>5, <2>2 DEF Image, TargetOf
  <2> HIDE DEF v, b
  <2>4. Buckets(v, rs) /\ Buckets(b, rs) /\ Turned(p, v) /\ Turned(p, b)
    BY <2>3 DEF Buckets, Turned, Asking
  <2> QED
    BY <2>1, <2>4
<1>6. CASE c # NoCell /\ p.ui.target = TargetOf(c) /\ c.kind = "animated"
  <2>1. Image(p) /\ Hover(p, c) = SameAnimated(p, c)
    BY <1>6 DEF Image, TargetOf, Hover
  <2> QED
    BY <1>1, <1>6, <2>1, SameAnimatedBuckets
<1> QED
  BY <1>1, <1>2, <1>3, <1>4, <1>5, <1>6 DEF CellSet


\* The bucket the pointer is at is ordered.
LEMMA AskBucketOrders ==
    ASSUME NEW p \in States, NEW rs, Image(p), p.ui.mode = "Scrub", Buckets(p, rs),
           ~p.ui.placeFailed, ~p.ui.unavailable
    PROVE  /\ Buckets(AskBucket(p), rs) /\ Turned(p, AskBucket(p))
           /\ Rests(AskBucket(p))
<1> DEFINE q == [p EXCEPT !.ui.inFlight = TRUE, !.ui.asked = p.ui.want,
                          !.ui.submitted = p.ui.want]
           s == [q EXCEPT !.ui.started = TRUE]
           mask == IF p.ui.inFlight /\ p.ui.asked \notin {None, p.ui.want}
                     THEN q.ui.mask \cup {p.ui.asked} ELSE q.ui.mask
           r == [q EXCEPT !.ui.mask = mask]
           op == IF p.ui.started THEN "AnimatedScrub" ELSE "StartAnimated"
           a == AskBucket(p)
<1>1. /\ p.ui.want \in Spots /\ p.ui.asked \in Spots /\ p.ui.mask \in SUBSET Spots
      /\ p.ui.session \in Nat /\ Signs(p) /\ p.ui.target # NoTarget /\ p.ui.want # None
      /\ p.ui.started \in BOOLEAN
  BY DEF States, Previews, Buckets, Image, NoTarget, Signs
<1>2. /\ q \in States /\ q.ui.session = p.ui.session /\ q.ui.target = p.ui.target
      /\ q.ui.mode = p.ui.mode /\ q.ui.want = p.ui.want /\ q.ui.asked = p.ui.want
      /\ q.ui.submitted = p.ui.want /\ q.ui.started = p.ui.started /\ q.ui.shown = p.ui.shown
      /\ q.ui.placeFailed = p.ui.placeFailed /\ q.ui.unavailable = p.ui.unavailable
      /\ q.ui.mask \in SUBSET Spots
  BY <1>1 DEF States, Previews
<1>3. a = IF p.ui.started
          THEN SubmitClearing(r, Ask(r, "AnimatedScrub", p.ui.want, r.ui.mask))
          ELSE SubmitClearing(s, Ask(q, "StartAnimated", p.ui.want, p.ui.mask))
  BY DEF AskBucket
<1> HIDE DEF q, a
<1>4. /\ s \in States /\ s.ui.session = p.ui.session /\ s.ui.target = p.ui.target
      /\ s.ui.mode = p.ui.mode /\ s.ui.want = p.ui.want /\ s.ui.asked = p.ui.want
      /\ s.ui.submitted = p.ui.want /\ s.ui.started = TRUE /\ s.ui.shown = p.ui.shown
      /\ s.ui.placeFailed = p.ui.placeFailed /\ s.ui.unavailable = p.ui.unavailable
  BY <1>2 DEF States, Previews
<1>5. mask \in SUBSET Spots
  BY <1>1, <1>2
<1> HIDE DEF mask
<1>6. /\ r \in States /\ r.ui.session = p.ui.session /\ r.ui.target = p.ui.target
      /\ r.ui.mode = p.ui.mode /\ r.ui.want = p.ui.want /\ r.ui.asked = p.ui.want
      /\ r.ui.submitted = p.ui.want /\ r.ui.started = p.ui.started /\ r.ui.shown = p.ui.shown
      /\ r.ui.placeFailed = p.ui.placeFailed /\ r.ui.unavailable = p.ui.unavailable
      /\ r.ui.mask \in SUBSET Spots
  BY <1>2, <1>5 DEF States, Previews
<1> HIDE DEF r, s
<1>7. \E u \in {r, s}, c \in Requests :
        /\ a = SubmitClearing(u, c) /\ c.op = op /\ c.session = p.ui.session
        /\ OfTarget(p, c) /\ c.at = p.ui.want /\ u.ui.started = TRUE
  <2> DEFINE c == Ask(r, "AnimatedScrub", p.ui.want, r.ui.mask)
             d == Ask(q, "StartAnimated", p.ui.want, p.ui.mask)
  <2>1. /\ c \in Requests /\ c.op = "AnimatedScrub" /\ c.session = p.ui.session
        /\ OfTarget(p, c) /\ c.at = p.ui.want
    BY <1>1, <1>6, AskType DEF Ops, OfTarget
  <2>2. /\ d \in Requests /\ d.op = "StartAnimated" /\ d.session = p.ui.session
        /\ OfTarget(p, d) /\ d.at = p.ui.want
    BY <1>1, <1>2, AskType DEF Ops, OfTarget
  <2> HIDE DEF c, d
  <2>3. (p.ui.started /\ a = SubmitClearing(r, c)) \/ (~p.ui.started /\ a = SubmitClearing(s, d))
    BY <1>3 DEF c, d
  <2> QED
    BY <1>1, <1>4, <1>6, <2>1, <2>2, <2>3
<1>8. PICK u \in {r, s}, c \in Requests :
        /\ a = SubmitClearing(u, c) /\ c.op = op /\ c.session = p.ui.session
        /\ OfTarget(p, c) /\ c.at = p.ui.want /\ u.ui.started = TRUE
  BY <1>7
<1>9. /\ u \in States /\ u.ui.session = p.ui.session /\ u.ui.target = p.ui.target
      /\ u.ui.mode = p.ui.mode /\ u.ui.want = p.ui.want /\ u.ui.asked = p.ui.want
      /\ u.ui.submitted = p.ui.want /\ u.ui.shown = p.ui.shown
      /\ u.ui.placeFailed = p.ui.placeFailed /\ u.ui.unavailable = p.ui.unavailable
  BY <1>4, <1>6
<1>10. a \in States /\ a.ui = u.ui /\ a.pending = c /\ a.slot = NoResult
  BY <1>8, <1>9, Submitted DEF Commands
<1>11. /\ Signs(a) /\ Own(a, c) /\ OfTarget(a, c)
       /\ c.op \in BucketOps /\ (c.op = "StartAnimated" <=> ~p.ui.started)
  BY <1>1, <1>8, <1>9, <1>10 DEF Signs, Own, OfTarget, BucketOps
<1> HIDE DEF op
<1>12. Buckets(a, rs)
  BY <1>8, <1>9, <1>10, <1>11, Orders
<1>13. Turned(p, a)
  BY <1>8, <1>9, <1>10, <1>11 DEF Turned, Own
<1>14. Rests(a)
  BY <1>9, <1>10 DEF Rests
<1> QED
  BY <1>12, <1>13, <1>14 DEF a

\* The bucket in the cell is the one the pointer is at: what is asked for beside it
\* is withdrawn if it waits, and abandoned if it does not.
LEMMA CancelScrubAbandons ==
    ASSUME NEW p \in States, NEW rs, Image(p), Buckets(p, rs), Worker, Hands,
           p.ui.started, p.ui.mode = "Scrub", p.ui.shown = p.ui.want
    PROVE  /\ Buckets(CancelScrub(p), rs) /\ Turned(p, CancelScrub(p))
           /\ Rests(CancelScrub(p))
<1> DEFINE at == IF p.ui.asked # None THEN p.ui.asked
                 ELSE IF p.ui.submitted # None THEN p.ui.submitted ELSE p.ui.want
           mask == IF p.ui.inFlight THEN p.ui.mask \cup {at} ELSE p.ui.mask
           q == [p EXCEPT !.ui.mask = mask]
           t == [q EXCEPT !.pending = NoCommand, !.ui.inFlight = FALSE,
                          !.ui.asked = None, !.ui.submitted = None]
           r == IF Cancellable(p, at) THEN t ELSE q
           a == CancelScrub(p)
<1>1. /\ p.ui.want \in Spots /\ p.ui.asked \in Spots /\ p.ui.submitted \in Spots
      /\ p.ui.mask \in SUBSET Spots /\ Signs(p) /\ p.ui.target # NoTarget
      /\ p.ui.mask \cup {at} \in SUBSET Spots
  BY DEF States, Previews, Buckets, Image, NoTarget
<1>2. mask \in SUBSET Spots
  BY <1>1
<1>3. a = IF r.ui.mask = {} THEN r
          ELSE SubmitIfIdle(r, Ask(r, "AnimatedAbandon", None, r.ui.mask))
  BY <1>1 DEF CancelScrub, States, Previews
<1> HIDE DEF mask, at, a
<1>4. /\ q \in States /\ q.ui.session = p.ui.session /\ q.ui.target = p.ui.target
      /\ q.ui.mode = "Scrub" /\ q.ui.want = p.ui.want /\ q.ui.asked = p.ui.asked
      /\ q.ui.submitted = p.ui.submitted
      /\ q.ui.placeFailed = p.ui.placeFailed /\ q.ui.unavailable = p.ui.unavailable
      /\ q.ui.shown = p.ui.shown /\ q.ui.started = p.ui.started
      /\ q.ui.mask \in SUBSET Spots /\ q.pending = p.pending /\ q.slot = p.slot
  BY <1>1, <1>2 DEF States, Previews
<1> HIDE DEF q
<1>5. /\ t \in States /\ t.ui.session = p.ui.session /\ t.ui.target = p.ui.target
      /\ t.ui.mode = "Scrub" /\ t.ui.want = p.ui.want /\ t.ui.asked = None
      /\ t.ui.submitted = None
      /\ t.ui.placeFailed = p.ui.placeFailed /\ t.ui.unavailable = p.ui.unavailable
      /\ t.ui.shown = p.ui.shown /\ t.ui.started = p.ui.started
      /\ t.ui.mask \in SUBSET Spots /\ t.pending = NoCommand /\ t.slot = p.slot
  <2>1. None \in Spots /\ NoCommand \in Commands
    BY DEF Spots, Commands
  <2> QED
    BY <1>4, <2>1, ZenonT(60) DEF States, Previews
<1> HIDE DEF t
<1>6. Signs(q) /\ Signs(t)
  BY <1>1, <1>4, <1>5 DEF Signs
<1>7. Buckets(q, rs) /\ Turned(p, q) /\ q.ui.mode = p.ui.mode
  BY <1>4, <1>6, Stays DEF Turned, Asking, Image
<1>8. Buckets(t, rs) /\ Turned(p, t)
  BY <1>5, <1>6, Withdraws DEF Turned, Asking
<1>9. /\ r \in States /\ r.ui.session = p.ui.session /\ r.ui.target = p.ui.target
      /\ r.ui.mask \in SUBSET Spots /\ Signs(r) /\ Buckets(r, rs) /\ Turned(p, r)
      /\ r.ui.started /\ r.ui.mode = "Scrub" /\ r.ui.shown = p.ui.shown
      /\ r.ui.want = p.ui.want
      /\ \/ r.ui.asked = None
         \/ /\ r.ui.asked = p.ui.asked /\ r.pending = p.pending
            /\ r.slot = p.slot /\ r.ui.started = p.ui.started
  BY <1>4, <1>5, <1>6, <1>7, <1>8
<1> HIDE DEF r
<1>10. CASE a = r
  BY <1>9, <1>10 DEF a, Rests
<1>11. CASE a # r
  <2> DEFINE d == Ask(r, "AnimatedAbandon", None, r.ui.mask)
  <2>1. r.pending = NoCommand /\ a = Submit(r, d)
    BY <1>3, <1>11 DEF SubmitIfIdle
  <2>2. /\ d \in Commands /\ d.op = "AnimatedAbandon" /\ Own(r, d) /\ OfTarget(r, d)
    <3>1. None \in Spots
      BY DEF Spots
    <3> QED
      BY <1>1, <1>9, <3>1, AskOwn DEF Ops
  <2> HIDE DEF d
  <2>3. a \in States /\ a.ui = r.ui /\ a.pending = d /\ a.slot = r.slot
    BY <1>9, <2>1, <2>2, Submitted
  <2>4. Signs(a) /\ Image(r) /\ Own(a, d) /\ OfTarget(a, d)
    BY <1>9, <2>2, <2>3 DEF Signs, Image, Own, OfTarget
  <2>5. Buckets(a, rs)
    BY <1>9, <2>1, <2>2, <2>3, <2>4, Abandons
  <2>6. Turned(p, a)
    <3> SUFFICES ASSUME Asking(a)
                 PROVE  /\ Asking(p) /\ a.slot = p.slot
                        /\ a.ui.session = p.ui.session /\ a.ui.asked = p.ui.asked
                        /\ a.ui.shown = p.ui.shown /\ a.ui.started = p.ui.started
                        /\ p.pending = NoCommand /\ a.pending.op = "AnimatedAbandon"
      BY DEF Turned
    <3> QED
      BY <1>9, <2>1, <2>2, <2>3 DEF Asking, Image
  <2> QED
    BY <1>9, <2>3, <2>5, <2>6 DEF a, Rests
<1> QED
  BY <1>10, <1>11

\* Two such steps are one.
LEMMA TurnedTwice ==
    ASSUME NEW p, NEW h, NEW q, Turned(p, h), Turned(h, q)
    PROVE  Turned(p, q)
<1> SUFFICES ASSUME Asking(q),
                    ~(/\ q.pending.op \in BucketOps /\ Own(q, q.pending)
                      /\ q.pending.at = q.ui.asked)
             PROVE  /\ Asking(p) /\ q.slot = p.slot
                    /\ q.ui.session = p.ui.session /\ q.ui.asked = p.ui.asked
                    /\ q.ui.shown = p.ui.shown /\ q.ui.started = p.ui.started
                    /\ \/ q.pending = p.pending
                       \/ p.pending = NoCommand /\ q.pending.op = "AnimatedAbandon"
  BY DEF Turned
<1>1. /\ Asking(h) /\ q.slot = h.slot
      /\ q.ui.session = h.ui.session /\ q.ui.asked = h.ui.asked
      /\ q.ui.shown = h.ui.shown /\ q.ui.started = h.ui.started
      /\ \/ q.pending = h.pending
         \/ h.pending = NoCommand /\ q.pending.op = "AnimatedAbandon"
  BY DEF Turned
<1>2. ~(/\ h.pending.op \in BucketOps /\ Own(h, h.pending)
        /\ h.pending.at = h.ui.asked)
  BY <1>1, CommandTypes DEF BucketOps, Own
<1>3. /\ Asking(p) /\ h.slot = p.slot
      /\ h.ui.session = p.ui.session /\ h.ui.asked = p.ui.asked
      /\ h.ui.shown = p.ui.shown /\ h.ui.started = p.ui.started
      /\ \/ h.pending = p.pending
         \/ p.pending = NoCommand /\ h.pending.op = "AnimatedAbandon"
  BY <1>1, <1>2 DEF Turned
<1> QED
  BY <1>1, <1>3, CommandTypes

\* What an animated image asks for in a frame.
LEMMA UpdateAnimatedBuckets ==
    ASSUME NEW p \in States, NEW rs, Image(p), Buckets(p, rs), Worker, Hands,
           NEW elapsed \in BOOLEAN
    PROVE  /\ Buckets(UpdateAnimated(p, elapsed), rs)
           /\ Turned(p, UpdateAnimated(p, elapsed))
           /\ Rests(UpdateAnimated(p, elapsed))
<1> DEFINE a == [p EXCEPT !.ui.waiting = FALSE, !.ui.started = TRUE,
                          !.ui.submitted = None, !.ui.asked = None]
           q == [p EXCEPT !.ui.waiting = FALSE]
           s == SubmitClearing(a, Ask(a, "StartAnimated", None, {}))
           u == UpdateAnimated(p, elapsed)
<1>1. Signs(p) /\ p.ui.target # NoTarget /\ p.ui.mode \in {"Auto", "Scrub"}
  BY DEF Buckets, Image, NoTarget, States, Previews
<1>2. /\ q \in States /\ q.ui.session = p.ui.session /\ q.ui.target = p.ui.target
      /\ q.ui.mode = p.ui.mode /\ q.ui.want = p.ui.want /\ q.ui.asked = p.ui.asked
      /\ q.ui.submitted = p.ui.submitted
      /\ q.ui.placeFailed = p.ui.placeFailed /\ q.ui.unavailable = p.ui.unavailable
      /\ q.ui.shown = p.ui.shown /\ q.ui.started = p.ui.started
      /\ q.pending = p.pending /\ q.slot = p.slot
  BY DEF States, Previews
<1>3. \/ u = p /\ (p.ui.unavailable \/ p.ui.mode = "Auto" \/ p.ui.placeFailed)
      \/ p.ui.mode = "Auto" /\ ~p.ui.started /\ ~p.ui.unavailable /\ u = s
      \/ /\ p.ui.mode = "Scrub" /\ ~p.ui.placeFailed /\ ~p.ui.unavailable
         /\ \/ u = AskBucket(q)
            \/ p.ui.started /\ p.ui.shown = p.ui.want /\ u = CancelScrub(q)
            \/ p.ui.want \in {p.ui.asked, p.ui.submitted} /\ u = q
  BY <1>1 DEF UpdateAnimated
<1>4. None \in Spots
  BY DEF Spots
<1>5. /\ a \in States /\ a.ui.session = p.ui.session /\ a.ui.target = p.ui.target
      /\ a.ui.mode = p.ui.mode /\ a.ui.want = p.ui.want /\ a.ui.asked = None
      /\ a.ui.submitted = None /\ a.ui.started = TRUE /\ a.ui.shown = p.ui.shown
      /\ a.ui.placeFailed = p.ui.placeFailed /\ a.ui.unavailable = p.ui.unavailable
      /\ a.pending = p.pending /\ a.slot = p.slot
  BY <1>4 DEF States, Previews
<1> HIDE DEF q, a, u
<1>6. Turned(p, p)
  BY DEF Turned
<1>7. CASE u = p /\ (p.ui.unavailable \/ p.ui.mode = "Auto" \/ p.ui.placeFailed)
  <2>1. Rests(p)
    BY <1>1, <1>7 DEF Rests, Asking, Signs
  <2> QED
    BY <1>6, <1>7, <2>1 DEF u
<1>8. CASE p.ui.mode = "Auto" /\ ~p.ui.started /\ ~p.ui.unavailable /\ u = s
  <2> DEFINE d == Ask(a, "StartAnimated", None, {})
  <2>1. /\ d \in Commands /\ d.op = "StartAnimated" /\ d.at = None
        /\ Own(a, d) /\ OfTarget(a, d)
    BY <1>1, <1>4, <1>5, AskOwn DEF Ops
  <2>2. s = SubmitClearing(a, d)
    OBVIOUS
  <2> HIDE DEF d, s
  <2>3. s \in States /\ s.ui = a.ui /\ s.pending = d /\ s.slot = NoResult
    BY <1>5, <2>1, <2>2, Submitted
  <2>4. Signs(s) /\ Own(s, d) /\ OfTarget(s, d) /\ d.op \in BucketOps
    BY <1>1, <1>5, <1>8, <2>1, <2>3 DEF Signs, Own, OfTarget, BucketOps
  <2>5. Buckets(s, rs)
    BY <1>5, <1>8, <2>1, <2>3, <2>4, Orders
  <2>6. Turned(p, s) /\ Rests(s)
    BY <1>5, <2>3 DEF Turned, Asking, Rests
  <2> QED
    BY <1>8, <2>5, <2>6 DEF u
<1>9. CASE /\ p.ui.mode = "Scrub" /\ ~p.ui.placeFailed /\ ~p.ui.unavailable
           /\ \/ u = AskBucket(q)
              \/ p.ui.started /\ p.ui.shown = p.ui.want /\ u = CancelScrub(q)
              \/ p.ui.want \in {p.ui.asked, p.ui.submitted} /\ u = q
  <2>1. Signs(q) /\ Image(q) /\ q.ui.mode = "Scrub"
    BY <1>1, <1>2, <1>9 DEF Signs, Image
  <2>2. Buckets(q, rs) /\ Turned(p, q)
    BY <1>2, <2>1, Stays DEF Turned, Asking, Image
  <2>3. CASE u = AskBucket(q)
    <3>1. Buckets(u, rs) /\ Turned(q, u) /\ Rests(u)
      BY <1>2, <1>9, <2>1, <2>2, <2>3, AskBucketOrders
    <3> QED
      BY <2>2, <3>1, TurnedTwice DEF u
  <2>4. CASE p.ui.started /\ p.ui.shown = p.ui.want /\ u = CancelScrub(q)
    <3>1. Buckets(u, rs) /\ Turned(q, u) /\ Rests(u)
      BY <1>2, <1>9, <2>1, <2>2, <2>4, CancelScrubAbandons
    <3> QED
      BY <2>2, <3>1, TurnedTwice DEF u
  <2>5. CASE p.ui.want \in {p.ui.asked, p.ui.submitted} /\ u = q
    <3>1. Rests(q)
      BY <1>1, <1>2, <2>5 DEF Rests, Signs
    <3> QED
      BY <2>2, <2>5, <3>1 DEF u
  <2> QED
    BY <1>9, <2>3, <2>4, <2>5
<1> QED
  BY <1>3, <1>7, <1>8, <1>9

\* What any preview asks for in a frame.
LEMMA UpdateBuckets ==
    ASSUME NEW p, NEW rs, Fine(p, rs), Buckets(p, rs), Worker, Hands,
           NEW elapsed \in BOOLEAN, NEW scene
    PROVE  /\ Buckets(Update(p, elapsed, scene), rs)
           /\ Turned(p, Update(p, elapsed, scene))
           /\ Rests(Update(p, elapsed, scene))
<1> DEFINE u == Update(p, elapsed, scene)
<1>1. p \in States
  BY DEF Fine
<1>2. CASE Image(p)
  <2>1. u = UpdateAnimated(p, elapsed)
    BY <1>2 DEF Update, Image
  <2> HIDE DEF u
  <2>2. Buckets(u, rs) /\ Turned(p, u) /\ Rests(u)
    BY <1>1, <1>2, <2>1, UpdateAnimatedBuckets
  <2> QED
    BY <2>2 DEF u
<1>3. CASE ~Image(p)
  <2>1. u \in {UpdateStatic(p), UpdateVideo(p, elapsed, scene), p}
    BY <1>3 DEF Update, Image
  <2>2. UpdateStatic(p).ui.target = p.ui.target
    BY <1>1 DEF UpdateStatic, Submit, SubmitClearing, States, Previews
  <2>3. UpdateVideo(p, elapsed, scene).ui.target = p.ui.target
    BY <1>1 DEF UpdateVideo, AskScene, Submit, SubmitClearing, States, Previews
  <2>4. ~Image(u)
    BY <1>3, <2>1, <2>2, <2>3 DEF Image
  <2> QED
    BY <2>4 DEF Buckets, Turned, Asking, Rests
<1> QED
  BY <1>2, <1>3

\* What is said of the bucket is said of the variables.
LEMMA SameBuckets ==
    ASSUME UNCHANGED workVars, NEW r, NEW rs, Buckets(r, rs), Rests(r), results' = rs,
           r = [ui |-> ui', pending |-> pending', slot |-> slot'], Hands
    PROVE  BucketInv'
<1>1. Now' = r
  BY DEF Now
<1>2. Hands'
  BY DEF Hands, workVars, sessions
<1>3. Related(r, rs)' <=> Related(r, rs)
  BY DEF Related, NoneIn, workVars, sessions
<1>4. Tracked(r)' <=> Tracked(r)
  BY DEF Tracked, Ordered, Quiet, Held, Gone, Latest, workVars, sessions
<1>5. (Cleared(r) /\ Carried(r))' <=> (Cleared(r) /\ Carried(r))
  BY DEF Cleared, Carried, workVars, sessions
<1>6. Course(r)' <=> Course(r)
  BY DEF Course, Unstarted, StaysOpen, Closed, Playing, OnBucket, Open, Latest, workVars, sessions
<1>7. Buckets(r, rs)'
  BY <1>3, <1>4, <1>5, <1>6 DEF Buckets
<1>8. (results = rs)'
  OBVIOUS
<1> QED
  BY <1>1, <1>2, <1>7, <1>8 DEF BucketInv

LEMMA FrameBuckets ==
    ASSUME Inv, BucketInv, NEW c \in HoverCells, NEW scrolled \in BOOLEAN,
           NEW elapsed \in BOOLEAN, NEW scene \in Spots, Frame(c, scrolled, elapsed, scene)
    PROVE  BucketInv' /\ Turned(Now, Now')
<1> DEFINE t == ui.target
           p == IF t # NoTarget /\ (scrolled \/ list[t.book] # t.rev) THEN Invalidate(Now) ELSE Now
           h == Hover(p, c)
           r == Update(h, elapsed, scene)
<1>1. /\ Worker /\ Known /\ results \in Seq(VideoAnswers) /\ Fine(Now, results)
      /\ 0 \in Spots /\ Now \in States /\ Older(Now, results) /\ Hands
      /\ Buckets(Now, results) /\ c \in CellSet \cup {NoCell}
  BY PreviewAssumption, HoverCellTypes DEF Inv, Fine, Spots, BucketInv
<1>2. \A i \in DOMAIN results : results[i].session \in Nat
  BY Facts
<1>3. Fine(p, results) /\ Buckets(p, results) /\ Turned(Now, p)
  <2>1. CASE p = Now
    BY <1>1, <2>1 DEF Turned
  <2>2. CASE p = Invalidate(Now)
    BY <1>1, <1>2, <2>2, StopFine, InvalidateBuckets
  <2> QED
    BY <2>1, <2>2
<1> HIDE DEF p
<1>4. Fine(h, results) /\ Buckets(h, results) /\ Turned(p, h)
  BY <1>1, <1>2, <1>3, HoverFine, HoverBuckets
<1> HIDE DEF h
<1>5. Fine(r, results) /\ Buckets(r, results) /\ Turned(h, r) /\ Rests(r)
  BY <1>1, <1>4, UpdateFine, UpdateBuckets
<1>6. /\ ui' = r.ui /\ pending' = r.pending /\ slot' = r.slot
      /\ UNCHANGED <<desk, disk, list, results, workVars>>
  BY DEF Frame, Becomes, p, h
<1>7. r = [ui |-> r.ui, pending |-> r.pending, slot |-> r.slot]
  BY <1>5 DEF Fine, States
<1>8. Turned(Now, r)
  BY <1>3, <1>4, <1>5, TurnedTwice
<1> HIDE DEF r
<1>9. BucketInv'
  BY <1>1, <1>5, <1>6, <1>7, SameBuckets
<1>10. Now' = r
  BY <1>6, <1>7 DEF Now
<1> QED
  BY <1>8, <1>9, <1>10


\* The marks that an answer takes back.
LEMMA ReleaseMarks ==
    ASSUME NEW p \in States, NEW at \in Spots
    PROVE  /\ Release(p, at).ui.asked = IF p.ui.asked = at THEN None ELSE p.ui.asked
           /\ Release(p, at).ui.submitted = IF p.ui.submitted = at THEN None ELSE p.ui.submitted
           /\ Release(p, at).ui.mode = p.ui.mode /\ Release(p, at).ui.started = p.ui.started
           /\ Release(p, at).ui.unavailable = p.ui.unavailable
BY DEF Release, States, Previews

\* The animation turns out to be unavailable.
LEMMA GivesUp ==
    ASSUME NEW p \in States, NEW rs, Image(p), Buckets(p, rs),
           p.slot.kind = "Unavailable", Own(p, p.slot),
           NEW q \in States, q.ui.session = p.ui.session, q.ui.target = p.ui.target,
           q.ui.mode = p.ui.mode, q.ui.want = p.ui.want, q.ui.shown = p.ui.shown,
           q.ui.placeFailed = p.ui.placeFailed,
           q.pending = p.pending, q.slot = NoResult,
           q.ui.asked = None, q.ui.submitted = None, q.ui.started = FALSE
    PROVE  Buckets(q, rs)
<1>1. /\ job = NoJob /\ moving = NoMoving /\ deferred = NoCommand /\ p.ui.session \in Nat
      /\ p.pending = NoCommand \/ (p.pending.op = "AnimatedAbandon" /\ Own(p, p.pending))
  BY DEF Buckets, Course, Closed, States, Previews
<1>2. ~Own(p, moving.id) /\ ~Own(q, q.slot)
  BY <1>1, NoneTypes DEF Own
<1>3. Signs(q)
  BY <1>2 DEF Buckets, Signs, Course, StaysOpen, Open
<1>4. /\ ~Own(q, job.cmd) /\ ~Own(q, deferred) /\ ~OnBucket(q) /\ deferred.op \notin BucketOps
      /\ ~Own(q, Latest(q)) \/ Latest(q).op = "AnimatedAbandon"
  BY <1>1, NoneTypes, CommandTypes DEF Own, OnBucket, Latest, BucketOps
<1>5. Related(q, rs) /\ Cleared(q) /\ Carried(q)
  BY <1>2, <1>4 DEF Buckets, Related, NoneIn, Cleared, Carried, Own, OfTarget
<1>6. Course(q)
  BY <1>2, <1>3, <1>4 DEF Signs, Course, Unstarted, StaysOpen, Closed, Playing
<1> QED
  BY <1>3, <1>5, <1>6 DEF Buckets, Tracked, Asking

\* What an answer does to the bucket asked for: if it is still asked for, the answer
\* was for another.
Polled(p, q) ==
    Asking(q) /\ q.ui.started =>
        /\ Asking(p) /\ p.ui.started /\ q.pending = p.pending
        /\ q.ui.session = p.ui.session /\ q.ui.asked = p.ui.asked /\ q.ui.shown = p.ui.shown
        /\ q.slot = p.slot \/ ~(Own(p, p.slot) /\ p.slot.at = p.ui.asked)

\* The answer to an animated image.
LEMMA HandleAnimatedBuckets ==
    ASSUME NEW p0 \in States, NEW rs, Image(p0), Buckets(p0, rs), Rests(p0),
           NEW m \in OtherAnswers, m = p0.slot,
           NEW p \in States, p.ui = p0.ui, p.pending = p0.pending, p.slot = NoResult
    PROVE  /\ Buckets(HandleAnimated(p, m), rs) /\ Rests(HandleAnimated(p, m))
           /\ Polled(p0, HandleAnimated(p, m))
<1> DEFINE q == [p EXCEPT !.ui.mask = @ \ m.mask]
           r == HandleAnimated(p, m)
           f == Release(q, m.at)
<1>1. /\ p.ui \in Previews /\ p.ui.session \in Nat /\ Signs(p0)
      /\ m.session \in Nat /\ m.book \in Books /\ m.rev \in Nat /\ m.at \in Spots
      /\ m.frame \in Nat \cup {None} /\ p.ui.mode \in {"Auto", "Scrub"}
      /\ p.ui.started \in BOOLEAN
  BY DEF States, Previews, OtherAnswers, Answer, Buckets
<1>2. Own(p0, p0.slot) => OfTarget(p0, m) /\ m.kind \in ImageKinds
  BY DEF Buckets, Related
<1>3. CASE ~OfSession(p, m)
  <2>1. r = p
    BY <1>3 DEF HandleAnimated
  <2>2. ~Own(p0, p0.slot)
    BY <1>2, <1>3 DEF OfSession, Own, OfTarget
  <2>3. Signs(p) /\ Buckets(p, rs)
    <3>1. Signs(p)
      BY <1>1 DEF Signs
    <3> QED
      BY <3>1, Stays
  <2>4. Rests(p) /\ Polled(p0, p)
    BY <2>2 DEF Rests, Polled, Asking, Image, Own
  <2> QED
    BY <2>1, <2>3, <2>4
<1>4. CASE OfSession(p, m) /\ ~SourceMatches(m)
  <2>1. r = Invalidate(p)
    BY <1>4 DEF HandleAnimated
  <2>2. Buckets(Invalidate(p), rs) /\ ~Image(Invalidate(p))
    BY InvalidateBuckets
  <2> QED
    BY <2>1, <2>2 DEF Rests, Polled, Asking
<1>5. CASE OfSession(p, m) /\ SourceMatches(m)
  <2>1. r = IF m.kind = "FrameReady" THEN AnimatedReady(q, m)
            ELSE IF m.kind \in {"FrameFailed", "FrameStale"} THEN AnimatedFailed(q, m)
            ELSE AnimatedUnavailable(q, m)
    BY <1>5 DEF HandleAnimated
  <2>2. /\ q \in States /\ q.pending = p0.pending /\ q.slot = NoResult
        /\ q.ui.session = p0.ui.session /\ q.ui.target = p0.ui.target
        /\ q.ui.shown = p0.ui.shown /\ q.ui.want = p0.ui.want
        /\ q.ui.placeFailed = p0.ui.placeFailed /\ q.ui.unavailable = p0.ui.unavailable
        /\ q.ui.asked = p0.ui.asked /\ q.ui.submitted = p0.ui.submitted
        /\ q.ui.mode = p0.ui.mode /\ q.ui.started = p0.ui.started
    BY <1>1 DEF States, Previews
  <2>3. Own(p0, p0.slot) /\ Own(p0, m) /\ OfTarget(p0, m) /\ m.kind \in ImageKinds
    BY <1>2, <1>5 DEF OfSession, Own
  <2> HIDE DEF q, r
  <2>4. /\ f \in States /\ f.pending = p0.pending /\ f.slot = NoResult
        /\ f.ui.session = p0.ui.session /\ f.ui.target = p0.ui.target
        /\ f.ui.shown = p0.ui.shown /\ f.ui.want = p0.ui.want
        /\ f.ui.placeFailed = p0.ui.placeFailed /\ f.ui.unavailable = p0.ui.unavailable
        /\ f.ui.asked = (IF p0.ui.asked = m.at THEN None ELSE p0.ui.asked)
        /\ f.ui.submitted = f.ui.asked
        /\ f.ui.mode = p0.ui.mode /\ f.ui.started = p0.ui.started
    BY <1>1, <2>2, ReleaseParts, ReleaseMarks DEF Signs
  <2> HIDE DEF f
  <2>5. Signs(q) /\ Buckets(q, rs) /\ Rests(q)
    <3>1. Signs(q)
      BY <1>1, <2>2 DEF Signs
    <3>2. Buckets(q, rs)
      BY <2>2, <3>1, Stays
    <3> QED
      BY <2>2, <3>1, <3>2 DEF Rests, Asking, Image
  <2>6. Signs(f) /\ Buckets(f, rs) /\ Rests(f) /\ Polled(p0, f)
    <3>1. Signs(f)
      BY <1>1, <2>4 DEF Signs
    <3>2. Buckets(f, rs)
      BY <2>4, <3>1, Stays
    <3> QED
      BY <2>4, <3>1, <3>2 DEF Rests, Asking, Image, Polled
  <2>7. CASE ~AnimatedMatches(q, m)
    <3>1. r = f \/ (r = q /\ ~(m.kind # "Unavailable" /\ Names(q, m)))
      BY <2>1, <2>3, <2>7 DEF AnimatedReady, AnimatedFailed, AnimatedUnavailable, f, ImageKinds
    <3>2. CASE r = q /\ ~(m.kind # "Unavailable" /\ Names(q, m))
      <4>1. ASSUME Asking(q), q.ui.started PROVE m.at # q.ui.asked
        <5>1. CASE m.kind # "Unavailable"
          BY <3>2, <5>1 DEF Names
        <5>2. CASE m.kind = "Unavailable"
          <6>1. moving = NoMoving
            BY <2>3, <5>2 DEF Buckets, Course, Closed
          <6>2. ~Own(p0, moving.id)
            BY <1>1, <6>1, NoneTypes DEF Own
          <6>3. p0.ui.shown = None
            BY <6>2 DEF Buckets, Course, StaysOpen, Open
          <6>4. q.ui.want = q.ui.asked
            BY <2>2, <2>5, <4>1, <6>3 DEF Rests, Signs, Asking
          <6>5. q.ui.session = m.session /\ OfTarget(q, m)
            BY <2>2, <2>3 DEF Own, OfTarget
          <6> QED
            BY <2>7, <4>1, <6>4, <6>5 DEF AnimatedMatches, Asking, Image
        <5> QED
          BY <5>1, <5>2
      <4>2. Polled(p0, q)
        BY <2>2, <4>1 DEF Polled, Asking, Image
      <4> QED
        BY <2>5, <3>2, <4>2 DEF r
    <3> QED
      BY <2>6, <3>1, <3>2 DEF r
  <2>8. CASE AnimatedMatches(q, m)
    <3> DEFINE s == Show(f, m)
               at == [s EXCEPT !.ui.shown = m.at, !.ui.placeFailed = FALSE]
               frame == [s EXCEPT !.ui.shown = None, !.ui.lastFrame = m.frame]
               lost == [f EXCEPT !.ui.placeFailed = TRUE]
               over == [f EXCEPT !.ui.started = FALSE, !.ui.failed = TRUE]
               gone == [f EXCEPT !.ui.started = FALSE, !.ui.unavailable = TRUE]
    <3>1. /\ q.ui.started /\ q.ui.mode = (IF m.at # None THEN "Scrub" ELSE "Auto")
          /\ q.ui.want = m.at /\ (m.at # None => q.ui.asked = m.at)
      BY <2>8 DEF AnimatedMatches
    <3>2. f.ui.asked = None /\ p0.ui.started /\ p0.ui.unavailable = FALSE
      BY <1>1, <2>2, <2>4, <3>1 DEF Signs, States, Previews
    <3> HIDE DEF s, at, frame, lost, over, gone
    <3>3. Names(q, m)
      BY <1>1, <2>2, <3>1 DEF Names, Signs
    <3>4. m.kind = "FrameReady" => r = f \/ (r = at /\ m.at # None) \/ (r = frame /\ m.at = None)
      BY <2>1, <2>8, <3>3 DEF AnimatedReady, f, s, at, frame
    <3>5. m.kind \in {"FrameFailed", "FrameStale"} =>
              r = f \/ (r = lost /\ m.at # None) \/ (r = StopWorker(over) /\ m.at = None)
      BY <2>1, <2>8, <3>3 DEF AnimatedFailed, f, lost, over
    <3>6. m.kind = "Unavailable" => r = gone
      BY <2>1, <2>8 DEF AnimatedUnavailable, f, gone
    <3>7. \/ r = f
          \/ r = at /\ m.kind = "FrameReady" /\ m.at # None
          \/ r = frame /\ m.at = None
          \/ r = lost /\ m.at # None
          \/ r = StopWorker(over) /\ m.at = None
          \/ r = gone /\ m.kind = "Unavailable"
      BY <2>3, <3>4, <3>5, <3>6 DEF ImageKinds
    <3>8. /\ s \in States /\ s.pending = p0.pending /\ s.slot = NoResult
          /\ s.ui.session = p0.ui.session /\ s.ui.target = p0.ui.target
          /\ s.ui.shown = p0.ui.shown /\ s.ui.want = p0.ui.want
          /\ s.ui.placeFailed = p0.ui.placeFailed /\ s.ui.unavailable = p0.ui.unavailable
          /\ s.ui.asked = None /\ s.ui.submitted = None
          /\ s.ui.mode = p0.ui.mode /\ s.ui.started = p0.ui.started
      <4> DEFINE z == [session |-> m.session, book |-> m.book, rev |-> m.rev, at |-> m.at]
      <4>1. z \in Pictures
        BY <1>1 DEF Pictures
      <4>2. s = [f EXCEPT !.ui.picture = z]
        BY DEF s, Show
      <4> HIDE DEF z
      <4>3. /\ s \in States /\ s.pending = f.pending /\ s.slot = f.slot
            /\ s.ui.session = f.ui.session /\ s.ui.target = f.ui.target
            /\ s.ui.shown = f.ui.shown /\ s.ui.want = f.ui.want
            /\ s.ui.placeFailed = f.ui.placeFailed /\ s.ui.unavailable = f.ui.unavailable
            /\ s.ui.asked = f.ui.asked /\ s.ui.submitted = f.ui.submitted
            /\ s.ui.mode = f.ui.mode /\ s.ui.started = f.ui.started
        BY <2>4, <4>1, <4>2 DEF States, Previews
      <4> QED
        BY <2>4, <3>2, <4>3
    <3>9. None \in Spots
      BY DEF Spots
    <3>10. CASE r = at /\ m.kind = "FrameReady" /\ m.at # None
      <4>1. /\ at \in States /\ at.pending = p0.pending /\ at.slot = NoResult
            /\ at.ui.session = p0.ui.session /\ at.ui.target = p0.ui.target
            /\ at.ui.shown = m.at /\ at.ui.want = p0.ui.want
            /\ at.ui.placeFailed = FALSE /\ at.ui.unavailable = p0.ui.unavailable
            /\ at.ui.asked = None /\ at.ui.submitted = None
            /\ at.ui.mode = p0.ui.mode /\ at.ui.started = p0.ui.started
        <5>1. at = [s EXCEPT !.ui.shown = m.at, !.ui.placeFailed = FALSE]
          BY DEF at
        <5>2. s \in States /\ m.at \in Spots
          BY <1>1, <3>8
        <5>3. /\ at \in States /\ at.pending = s.pending /\ at.slot = s.slot
              /\ at.ui.session = s.ui.session /\ at.ui.target = s.ui.target
              /\ at.ui.shown = m.at /\ at.ui.want = s.ui.want
              /\ at.ui.placeFailed = FALSE /\ at.ui.unavailable = s.ui.unavailable
              /\ at.ui.asked = s.ui.asked /\ at.ui.submitted = s.ui.submitted
              /\ at.ui.mode = s.ui.mode /\ at.ui.started = s.ui.started
          BY <5>1, <5>2, ZenonT(60) DEF States, Previews
        <5> QED
          BY <3>8, <5>3
      <4>2. Signs(at) /\ Open(p0)
        BY <1>1, <2>2, <2>3, <3>1, <3>2, <3>10, <4>1
        DEF Signs, Buckets, Course, StaysOpen, BucketReady
      <4>3. Buckets(at, rs)
        BY <4>1, <4>2, Stays
      <4>4. Rests(at) /\ Polled(p0, at)
        BY <4>1 DEF Rests, Polled, Asking
      <4> QED
        BY <3>10, <4>3, <4>4 DEF r
    <3>11. CASE r = frame /\ m.at = None
      <4>1. /\ frame \in States /\ frame.pending = p0.pending /\ frame.slot = NoResult
            /\ frame.ui.session = p0.ui.session /\ frame.ui.target = p0.ui.target
            /\ frame.ui.shown = None /\ frame.ui.want = p0.ui.want
            /\ frame.ui.placeFailed = p0.ui.placeFailed
            /\ frame.ui.unavailable = p0.ui.unavailable
            /\ frame.ui.asked = None /\ frame.ui.submitted = None
            /\ frame.ui.mode = p0.ui.mode /\ frame.ui.started = p0.ui.started
        <5>1. frame = [s EXCEPT !.ui.shown = None, !.ui.lastFrame = m.frame]
          BY DEF frame
        <5>2. s \in States /\ m.frame \in Nat \cup {None}
          BY <1>1, <3>8
        <5>3. frame \in States
          BY <3>9, <5>2 DEF frame, States, Previews
        <5>4. /\ frame.pending = s.pending /\ frame.slot = s.slot
              /\ frame.ui.session = s.ui.session /\ frame.ui.target = s.ui.target
              /\ frame.ui.shown = None /\ frame.ui.want = s.ui.want
              /\ frame.ui.placeFailed = s.ui.placeFailed
              /\ frame.ui.unavailable = s.ui.unavailable
              /\ frame.ui.asked = s.ui.asked /\ frame.ui.submitted = s.ui.submitted
              /\ frame.ui.mode = s.ui.mode /\ frame.ui.started = s.ui.started
          BY <3>9, <5>1, <5>2 DEF States, Previews
        <5> QED
          BY <3>8, <5>4, <5>3
      <4>2. Signs(frame)
        BY <1>1, <2>2, <3>1, <3>2, <3>11, <4>1 DEF Signs
      <4>3. Buckets(frame, rs)
        BY <4>1, <4>2, Stays
      <4>4. Rests(frame) /\ Polled(p0, frame)
        BY <4>1 DEF Rests, Polled, Asking
      <4> QED
        BY <3>11, <4>3, <4>4 DEF r
    <3>12. CASE r = lost /\ m.at # None
      <4>1. /\ lost \in States /\ lost.pending = p0.pending /\ lost.slot = NoResult
            /\ lost.ui.session = p0.ui.session /\ lost.ui.target = p0.ui.target
            /\ lost.ui.shown = p0.ui.shown /\ lost.ui.want = p0.ui.want
            /\ lost.ui.unavailable = p0.ui.unavailable
            /\ lost.ui.asked = None /\ lost.ui.submitted = None
            /\ lost.ui.mode = p0.ui.mode /\ lost.ui.started = p0.ui.started
        <5>1. lost = [f EXCEPT !.ui.placeFailed = TRUE]
          BY DEF lost
        <5>2. /\ lost \in States /\ lost.pending = f.pending /\ lost.slot = f.slot
              /\ lost.ui.session = f.ui.session /\ lost.ui.target = f.ui.target
              /\ lost.ui.shown = f.ui.shown /\ lost.ui.want = f.ui.want
              /\ lost.ui.unavailable = f.ui.unavailable
              /\ lost.ui.asked = f.ui.asked /\ lost.ui.submitted = f.ui.submitted
              /\ lost.ui.mode = f.ui.mode /\ lost.ui.started = f.ui.started
          BY <2>4, <5>1 DEF States, Previews
        <5> QED
          BY <2>4, <3>2, <5>2
      <4>2. Signs(lost)
        BY <1>1, <2>2, <3>1, <3>2, <3>12, <4>1 DEF Signs
      <4>3. Buckets(lost, rs)
        BY <4>1, <4>2, Stays
      <4>4. Rests(lost) /\ Polled(p0, lost)
        BY <4>1 DEF Rests, Polled, Asking
      <4> QED
        BY <3>12, <4>3, <4>4 DEF r
    <3>13. CASE r = StopWorker(over) /\ m.at = None
      <4>1. /\ over \in States
            /\ over.ui.session = p0.ui.session /\ over.ui.target = p0.ui.target
            /\ over.ui.shown = p0.ui.shown /\ over.ui.want = p0.ui.want
            /\ over.ui.placeFailed = p0.ui.placeFailed
            /\ over.ui.unavailable = p0.ui.unavailable
            /\ over.ui.asked = None /\ over.ui.submitted = None
            /\ over.ui.mode = p0.ui.mode /\ over.ui.started = FALSE
        <5>1. over = [f EXCEPT !.ui.started = FALSE, !.ui.failed = TRUE]
          BY DEF over
        <5>2. f \in States
          BY <2>4
        <5>3. over \in States
          BY <5>2, ZenonT(60) DEF over, States, Previews
        <5>4. /\ over.ui.session = f.ui.session /\ over.ui.target = f.ui.target
              /\ over.ui.shown = f.ui.shown /\ over.ui.want = f.ui.want
              /\ over.ui.placeFailed = f.ui.placeFailed
              /\ over.ui.unavailable = f.ui.unavailable
              /\ over.ui.asked = f.ui.asked /\ over.ui.submitted = f.ui.submitted
              /\ over.ui.mode = f.ui.mode /\ over.ui.started = FALSE
          BY <5>1, <5>2 DEF States, Previews
        <5> QED
          BY <2>4, <3>2, <5>4, <5>3
      <4> DEFINE o == StopWorker(over)
      <4>2. o \in States /\ o.ui = over.ui /\ o.pending = Stop /\ o.slot = NoResult
        BY <4>1, Submitted, CommandTypes DEF StopWorker
      <4> HIDE DEF o
      <4>3. p0.ui.mode = "Auto" /\ Signs(o) /\ ~OnBucket(p0)
        BY <1>1, <2>2, <2>3, <3>1, <3>2, <3>13, <4>1, <4>2
        DEF Signs, Buckets, Course, Playing
      <4>4. Buckets(o, rs)
        BY <4>1, <4>2, <4>3, Stops
      <4>5. Rests(o) /\ Polled(p0, o)
        BY <4>1, <4>2 DEF Rests, Polled, Asking
      <4> QED
        BY <3>13, <4>4, <4>5 DEF r, o
    <3>14. CASE r = gone /\ m.kind = "Unavailable"
      <4>1. /\ gone \in States /\ gone.pending = p0.pending /\ gone.slot = NoResult
            /\ gone.ui.session = p0.ui.session /\ gone.ui.target = p0.ui.target
            /\ gone.ui.shown = p0.ui.shown /\ gone.ui.want = p0.ui.want
            /\ gone.ui.placeFailed = p0.ui.placeFailed
            /\ gone.ui.asked = None /\ gone.ui.submitted = None
            /\ gone.ui.mode = p0.ui.mode /\ gone.ui.started = FALSE
        <5>1. gone = [f EXCEPT !.ui.started = FALSE, !.ui.unavailable = TRUE]
          BY DEF gone
        <5>2. f \in States
          BY <2>4
        <5>3. gone \in States
          BY <5>2, ZenonT(60) DEF gone, States, Previews
        <5>4. /\ gone.pending = f.pending /\ gone.slot = f.slot
              /\ gone.ui.session = f.ui.session /\ gone.ui.target = f.ui.target
              /\ gone.ui.shown = f.ui.shown /\ gone.ui.want = f.ui.want
              /\ gone.ui.placeFailed = f.ui.placeFailed
              /\ gone.ui.asked = f.ui.asked /\ gone.ui.submitted = f.ui.submitted
              /\ gone.ui.mode = f.ui.mode /\ gone.ui.started = FALSE
          BY <5>1, <5>2 DEF States, Previews
        <5> QED
          BY <2>4, <3>2, <5>4, <5>3
      <4>2. Buckets(gone, rs)
        BY <2>3, <3>14, <4>1, GivesUp
      <4>3. Rests(gone) /\ Polled(p0, gone)
        BY <4>1 DEF Rests, Polled, Asking
      <4> QED
        BY <3>14, <4>2, <4>3 DEF r
    <3> QED
      BY <2>6, <3>7, <3>10, <3>11, <3>12, <3>13, <3>14 DEF r
  <2> QED
    BY <2>7, <2>8 DEF r
<1> QED
  BY <1>3, <1>4, <1>5


\* An answer changes the target to none, or not at all.
LEMMA HandleKeeps ==
    ASSUME NEW p \in States, NEW m
    PROVE  /\ HandleVideo(p, m).ui.target \in {p.ui.target, NoTarget}
           /\ HandleStatic(p, m).ui.target \in {p.ui.target, NoTarget}
           /\ HandleAnimated(p, m).ui.target \in {p.ui.target, NoTarget}
<1>1. Invalidate(p).ui.target = NoTarget
  BY InvalidateParts
<1>2. HandleVideo(p, m).ui.target \in {p.ui.target, Invalidate(p).ui.target}
  BY DEF HandleVideo, Show, Answered, StopWorker, SubmitClearing, States, Previews
<1>3. HandleStatic(p, m).ui.target \in {p.ui.target, Invalidate(p).ui.target}
  BY DEF HandleStatic, Show, Answered, StopWorker, SubmitClearing, States, Previews
<1>4. HandleAnimated(p, m).ui.target \in {p.ui.target, Invalidate(p).ui.target}
  BY DEF HandleAnimated, AnimatedReady, AnimatedFailed, AnimatedUnavailable, Release, Show,
         StopWorker, SubmitClearing, States, Previews
<1> QED
  BY <1>1, <1>2, <1>3, <1>4

\* An answer is polled.
LEMMA PollBuckets ==
    ASSUME Inv, BucketInv, Poll
    PROVE  BucketInv' /\ Polled(Now, Now')
<1>1. /\ Worker /\ Known /\ results \in Seq(VideoAnswers) /\ Fine(Now, results) /\ Now \in States
      /\ Hands /\ Buckets(Now, results) /\ Rests(Now) /\ Settled(Now)
      /\ Now.ui = ui /\ Now.slot = slot /\ Now.pending = pending
  BY DEF Inv, Fine, Now, BucketInv
<1>2. ASSUME NEW r, NEW rs, Buckets(r, rs), Rests(r), Polled(Now, r), r \in States,
             ui' = r.ui, pending' = r.pending, slot' = r.slot, results' = rs,
             UNCHANGED workVars
      PROVE  BucketInv' /\ Polled(Now, Now')
  <2>1. r = [ui |-> ui', pending |-> pending', slot |-> slot']
    BY <1>2 DEF States
  <2>2. Now' = r
    BY <2>1 DEF Now
  <2> QED
    BY <1>1, <1>2, <2>1, <2>2, SameBuckets
<1>3. CASE results # <<>>
  <2> DEFINE m == Head(results)
             r == HandleVideo(Now, m)
             rs == Tail(results)
  <2>1. m \in VideoAnswers /\ rs \in Seq(VideoAnswers)
    BY <1>1, <1>3, Queue
  <2>2. /\ m = results[1] /\ 1 \in DOMAIN results
        /\ \A i \in DOMAIN rs : i + 1 \in DOMAIN results /\ rs[i] = results[i + 1]
    BY <1>1, <1>3
  <2>3. Handle(Now, m) = r
    BY <2>1 DEF Handle, VideoAnswers, Answer
  <2>4. Fine(r, rs)
    BY <1>1, <1>3, HandleVideoFine
  <2>5. /\ ui' = r.ui /\ pending' = r.pending /\ slot' = r.slot /\ results' = rs
        /\ UNCHANGED workVars
    BY <1>3, <2>3 DEF Poll, Becomes
  <2>6. CASE Image(Now)
    <3>1. NoneIn(Now, results)
      BY <1>1, <2>6 DEF Buckets, Related
    <3>2. m.session # Now.ui.session
      BY <2>2, <3>1 DEF NoneIn
    <3>3. r = Now
      BY <3>2 DEF HandleVideo, OfSession, VideoMatches
    <3> HIDE DEF r, rs
    <3>4. NoneIn(Now, rs)
      BY <2>2, <3>1 DEF NoneIn
    <3>5. Buckets(Now, rs)
      BY <1>1, <3>4 DEF Buckets, Related
    <3>6. Polled(Now, Now)
      BY DEF Polled
    <3> QED
      BY <1>1, <1>2, <2>5, <3>3, <3>5, <3>6
  <2>7. CASE ~Image(Now)
    <3>1. r.ui.target \in {Now.ui.target, NoTarget}
      BY <1>1, HandleKeeps
    <3> HIDE DEF r, rs
    <3>2. ~Image(r)
      BY <2>7, <3>1 DEF Image, NoTarget
    <3>3. Buckets(r, rs) /\ Rests(r) /\ Polled(Now, r)
      BY <3>2 DEF Buckets, Rests, Polled, Asking
    <3> QED
      BY <1>2, <2>4, <2>5, <3>3 DEF Fine
  <2> QED
    BY <2>6, <2>7
<1>4. CASE results = <<>> /\ slot # NoResult
  <2> DEFINE p == [Now EXCEPT !.slot = NoResult]
             r == Handle(p, slot)
  <2>1. slot \in OtherAnswers
    BY <1>1, <1>4 DEF States
  <2>2. p \in States /\ p.ui = ui /\ p.pending = pending /\ p.slot = NoResult
    BY <1>1 DEF States
  <2>3. r = IF slot.kind \in {"PageReady", "PageFailed"} THEN HandleStatic(p, slot)
            ELSE HandleAnimated(p, slot)
    BY <2>1 DEF Handle, OtherAnswers, Answer
  <2>4. /\ ui' = r.ui /\ pending' = r.pending /\ slot' = r.slot /\ results' = results
        /\ UNCHANGED workVars
    BY <1>4 DEF Poll, Becomes
  <2> HIDE DEF p
  <2>5. r \in States
    <3>1. CASE slot.kind \in {"PageReady", "PageFailed"}
      <4>1. Fine(HandleStatic(p, slot), results)
        BY <1>1, <2>1, <2>2, <3>1, HandleStaticFine
      <4> QED
        BY <2>3, <3>1, <4>1 DEF Fine
    <3>2. CASE slot.kind \notin {"PageReady", "PageFailed"}
      <4>1. Fine(p, results) /\ Settled(p)
        BY <1>1, <2>2, <3>2, Taken DEF Settled
      <4>2. p.ui.target.kind = "video" /\ ~p.ui.failed => slot.session # p.ui.session
        BY <1>1, <2>2 DEF Fine, Video
      <4>3. Fine(HandleAnimated(p, slot), results)
        BY <1>1, <2>1, <4>1, <4>2, HandleAnimatedFine
      <4> QED
        BY <2>3, <3>2, <4>3 DEF Fine
    <3> QED
      BY <3>1, <3>2
  <2>6. CASE Image(Now)
    <3>1. CASE slot.kind \in {"PageReady", "PageFailed"}
      <4>1. ~StaticMatches(p, slot)
        BY <1>1, <2>2, <2>6 DEF StaticMatches, Image
      <4>2. r \in {p, Invalidate(p)}
        BY <2>3, <3>1, <4>1 DEF HandleStatic
      <4> HIDE DEF r
      <4>3. /\ Buckets(Invalidate(p), results) /\ Rests(Invalidate(p))
            /\ Polled(Now, Invalidate(p))
        BY <2>2, InvalidateBuckets DEF Rests, Polled, Asking
      <4>4. ~Own(Now, Now.slot)
        BY <1>1, <2>6, <3>1 DEF Buckets, Related, ImageKinds
      <4>5. Signs(p)
        BY <1>1, <2>2, <2>6 DEF Buckets, Signs
      <4>6. Buckets(p, results)
        BY <1>1, <2>2, <2>6, <4>5, Stays
      <4>7. Rests(p) /\ Polled(Now, p)
        BY <1>1, <2>2, <4>4 DEF Rests, Polled, Asking, Image
      <4> QED
        BY <1>2, <2>4, <2>5, <4>2, <4>3, <4>6, <4>7
    <3>2. CASE slot.kind \notin {"PageReady", "PageFailed"}
      <4>1. r = HandleAnimated(p, slot)
        BY <2>3, <3>2
      <4> HIDE DEF r
      <4>2. Buckets(r, results) /\ Rests(r) /\ Polled(Now, r)
        BY <1>1, <2>1, <2>2, <2>6, <4>1, HandleAnimatedBuckets
      <4> QED
        BY <1>2, <2>4, <2>5, <4>2
    <3> QED
      BY <3>1, <3>2
  <2>7. CASE ~Image(Now)
    <3>1. r.ui.target \in {p.ui.target, NoTarget}
      BY <2>2, <2>3, HandleKeeps
    <3> HIDE DEF r
    <3>2. ~Image(r)
      BY <1>1, <2>2, <2>7, <3>1 DEF Image, NoTarget
    <3>3. Buckets(r, results) /\ Rests(r) /\ Polled(Now, r)
      BY <3>2 DEF Buckets, Rests, Polled, Asking
    <3> QED
      BY <1>2, <2>4, <2>5, <3>3
  <2> QED
    BY <2>6, <2>7
<1> QED
  BY <1>3, <1>4 DEF Poll


\* A step of the worker: the bucket asked for, if it was on its way, still is.
NotDropped == Asking(Now) /\ Coming(ui.asked) => Coming(ui.asked)' \/ Skipped

LEMMA WorkedBuckets ==
    ASSUME Inv, BucketInv, ui' = ui, Hands',
           Image(Now) => /\ Related(Now, results)' /\ Cleared(Now)' /\ Carried(Now)'
                         /\ Tracked(Now)' /\ Course(Now)'
    PROVE  BucketInv'
<1>1. Now.ui = ui /\ Now'.ui = ui'
  BY Facts
<1>2. (Image(Now)' <=> Image(Now)) /\ (Signs(Now)' <=> Signs(Now)) /\ (Rests(Now)' <=> Rests(Now))
  BY <1>1 DEF Image, Signs, Rests, Asking
<1> QED
  BY <1>2 DEF BucketInv, Buckets

\* A bucket that is gone is not on its way.
LEMMA GoneIsLost ==
    ASSUME Inv, BucketInv, Asking(Now), Quiet(Now), Gone(Now)
    PROVE  ~Coming(ui.asked)
<1>1. /\ Now.ui = ui /\ Now.slot = slot /\ Newest = Latest(Now) /\ ui.session \in Nat
      /\ Hands /\ Related(Now, results) /\ ui.asked # None /\ Worker
  BY Facts DEF BucketInv, Buckets, Asking
<1>2. ~Serves(Newest, ui.asked)
  BY <1>1, CommandTypes DEF Serves, Quiet, Gone, Own
<1>3. ~(job.cmd.session = ui.session /\ job.cmd.at = ui.asked)
  <2>1. CASE job.what = "frame"
    BY <1>1, <2>1 DEF Hands
  <2>2. CASE job.what = "none"
    <3>1. job = NoJob
      BY <1>1, <2>2 DEF Worker, Jobs
    <3> QED
      BY <1>1, <3>1, NoneTypes
  <2> QED
    BY <2>1, <2>2 DEF Gone
<1>4. ~Answers(slot, ui.asked) /\ \A i \in DOMAIN results : ~Answers(results[i], ui.asked)
  BY <1>1 DEF Answers, Gone, Own, Related, NoneIn
<1> QED
  BY <1>2, <1>3, <1>4 DEF Coming

\* A scene or a page is of another session; a scene is told in the queue.
LEMMA OthersDoneBuckets ==
    ASSUME Inv, BucketInv, SceneDone \/ PageDone
    PROVE  BucketInv' /\ NotDropped
<1>1. /\ Worker /\ Fine(Now, results) /\ results \in Seq(VideoAnswers) /\ ui.session \in Nat
      /\ pending \in Commands /\ Newest = Latest(Now)
      /\ Now.ui = ui /\ Now.pending = pending /\ Now.slot = slot
      /\ Now'.ui = ui' /\ Now'.pending = pending' /\ Now'.slot = slot'
  BY Facts
<1>2. /\ job.what \in {"scene", "page"} /\ job' = NoJob
      /\ UNCHANGED <<ui, pending, deferred, video, moving, still>>
  BY DEF SceneDone, PageDone, sessions
<1>3. job # NoJob /\ job \in Jobs
  BY <1>1, <1>2, NoneTypes DEF Worker
<1>4. job.cmd \in Requests
  BY <1>2, <1>3 DEF Jobs
<1>5. \/ /\ slot' = slot
         /\ \E m \in VideoAnswers : m.session = job.cmd.session /\ results' = Append(results, m)
      \/ /\ results' = results /\ slot'.session = job.cmd.session
  <2>1. CASE SceneDone
    BY <1>4, <2>1, Results DEF SceneDone, Tell
  <2>2. CASE PageDone
    BY <1>4, <2>2, Results DEF PageDone, Put
  <2> QED
    BY <2>1, <2>2
<1>6. /\ \A i \in DOMAIN results' :
           \/ i \in DOMAIN results /\ results'[i] = results[i]
           \/ results'[i].session = job.cmd.session
      /\ \A i \in DOMAIN results : i \in DOMAIN results' /\ results'[i] = results[i]
      /\ slot' = slot \/ slot'.session = job.cmd.session
  BY <1>1, <1>5
<1>7. Latest(Now)' = Latest(Now) /\ Newest' = Newest
  BY <1>1, <1>2 DEF Latest, Newest
<1>8. Hands'
  BY <1>2, NoneTypes DEF BucketInv, Hands
<1>9. ASSUME Image(Now)
      PROVE  /\ Related(Now, results) /\ Cleared(Now) /\ Carried(Now) /\ Tracked(Now) /\ Course(Now)
             /\ ~Own(Now, job.cmd)
  BY <1>2, <1>9 DEF BucketInv, Buckets, Related
<1>10. ASSUME Image(Now), Asking(Now) PROVE Ordered(Now)
  BY <1>2, <1>3, <1>9, <1>10 DEF Tracked, Held, Gone
<1>11. ASSUME Image(Now) PROVE Related(Now, results)'
  BY <1>1, <1>2, <1>6, <1>9, <1>11, NoneTypes DEF Related, NoneIn, Own, OfTarget
<1>12. ASSUME Image(Now) PROVE Cleared(Now)' /\ Carried(Now)'
  BY <1>1, <1>2, <1>6, <1>9, <1>12, NoneTypes DEF Cleared, Carried, Own
<1>13. ASSUME Image(Now) PROVE Tracked(Now)'
  BY <1>1, <1>2, <1>7, <1>10, <1>13 DEF Tracked, Asking, Image, Ordered, Own
<1>14. ASSUME Image(Now) PROVE Course(Now)'
  <2>1. ~OnBucket(Now)' /\ (Open(Now)' <=> Open(Now))
    BY <1>1, <1>2, NoneTypes DEF OnBucket, Open, Own
  <2>2. StaysOpen(Now)'
    BY <1>1, <1>2, <1>6, <1>9, <1>14, <2>1 DEF Course, StaysOpen, BucketReady, Own
  <2>3. Unstarted(Now)' /\ Closed(Now)' /\ Playing(Now)'
    BY <1>1, <1>2, <1>3, <1>6, <1>7, <1>9, <1>14, <2>1, NoneTypes
    DEF Course, Unstarted, Closed, Playing, Own
  <2> QED
    BY <2>2, <2>3 DEF Course
<1>15. BucketInv'
  BY <1>2, <1>8, <1>11, <1>12, <1>13, <1>14, WorkedBuckets
<1>16. NotDropped
  <2> SUFFICES ASSUME Asking(Now) PROVE Coming(ui.asked)'
    BY DEF NotDropped
  <2>1. Ordered(Now)
    BY <1>10 DEF Asking
  <2>2. Serves(Newest, ui.asked)'
    BY <1>1, <1>2, <1>7, <2>1 DEF Ordered, Serves, Own, BucketOps
  <2> QED
    BY <2>2 DEF Coming
<1> QED
  BY <1>15, <1>16


\* The next frame of an animation that plays, or one that has been decoded.
LEMMA NextFrameBuckets ==
    ASSUME Inv, BucketInv, NextFrame
    PROVE  BucketInv' /\ NotDropped
<1> DEFINE c == [NoCommand EXCEPT !.session = moving.id.session, !.book = moving.id.book,
                                  !.rev = moving.id.rev, !.mask = moving.mask]
<1>1. /\ Worker /\ ui.session \in Nat /\ pending \in Commands /\ Newest = Latest(Now)
      /\ Now.ui = ui /\ Now.pending = pending /\ Now.slot = slot
      /\ Now'.ui = ui' /\ Now'.pending = pending' /\ Now'.slot = slot' /\ Hands
  BY Facts DEF BucketInv
<1>2. /\ job = NoJob /\ Latest(Now) = NoCommand /\ moving.due
      /\ job' = [what |-> "frame", cmd |-> c]
      /\ UNCHANGED <<ui, pending, slot, results, deferred, video, moving, still>>
  BY <1>1 DEF NextFrame, uiVars, sessions, Begin
<1>3. /\ c.session = moving.id.session /\ c.book = moving.id.book /\ c.rev = moving.id.rev
      /\ c.at = None
  BY DEF NoCommand, Command
<1> HIDE DEF c
<1>4. job'.what = "frame" /\ job'.cmd = c
  BY <1>2
<1>5. /\ moving # NoMoving /\ moving.bucket = None /\ Latest(Now)' = NoCommand
  <2>1. moving # NoMoving
    BY <1>2 DEF NoMoving
  <2> QED
    BY <1>1, <1>2, <2>1 DEF Hands, Latest
<1>6. Hands'
  BY <1>1, <1>2, <1>3, <1>4, <1>5 DEF Hands
<1>7. ASSUME Image(Now)
      PROVE  /\ Related(Now, results) /\ Cleared(Now) /\ Carried(Now) /\ Tracked(Now) /\ Course(Now)
  BY <1>7 DEF BucketInv, Buckets
<1>8. ASSUME Asking(Now) PROVE Quiet(Now) /\ Gone(Now)
  <2>1. ~Ordered(Now)
    BY <1>2, CommandTypes DEF Ordered, BucketOps
  <2>2. ~Held(Now)
    BY <1>1, <1>5, <1>8 DEF Held, Asking
  <2> QED
    BY <1>7, <1>8, <2>1, <2>2 DEF Tracked, Asking
<1>9. ASSUME Image(Now) PROVE Related(Now, results)' /\ Cleared(Now)' /\ Carried(Now)'
  BY <1>1, <1>2, <1>3, <1>4, <1>7, <1>9 DEF Related, NoneIn, Cleared, Carried, Own, OfTarget
<1>10. ASSUME Image(Now) PROVE Tracked(Now)'
  <2> SUFFICES ASSUME Asking(Now) PROVE Quiet(Now)' /\ Gone(Now)'
    BY <1>1, <1>2 DEF Tracked, Asking, Image
  <2> QED
    BY <1>1, <1>2, <1>4, <1>5, <1>8 DEF Quiet, Gone, Own
<1>11. ASSUME Image(Now) PROVE Course(Now)'
  <2>1. /\ ~OnBucket(Now)' /\ (Open(Now)' <=> Open(Now))
    BY <1>1, <1>2, <1>4 DEF OnBucket, Open, Own
  <2>2. StaysOpen(Now)'
    BY <1>1, <1>2, <1>7, <1>11, <2>1 DEF Course, StaysOpen, BucketReady, Own
  <2>3. Unstarted(Now)' /\ Closed(Now)' /\ Playing(Now)'
    BY <1>1, <1>2, <1>4, <1>5, <1>7, <1>11, <2>1, CommandTypes
    DEF Course, Unstarted, Closed, Playing, Own
  <2> QED
    BY <2>2, <2>3 DEF Course
<1>12. BucketInv'
  BY <1>2, <1>6, <1>9, <1>10, <1>11, WorkedBuckets
<1>13. NotDropped
  BY <1>8, GoneIsLost DEF NotDropped
<1> QED
  BY <1>12, <1>13

LEMMA FrameDoneBuckets ==
    ASSUME Inv, BucketInv, FrameDone
    PROVE  BucketInv' /\ NotDropped
<1>1. /\ Worker /\ ui.session \in Nat /\ pending \in Commands /\ Newest = Latest(Now)
      /\ Now.ui = ui /\ Now.pending = pending /\ Now.slot = slot
      /\ Now'.ui = ui' /\ Now'.pending = pending' /\ Now'.slot = slot' /\ Hands
  BY Facts DEF BucketInv
<1>2. /\ job.what = "frame" /\ job' = NoJob
      /\ UNCHANGED <<ui, pending, deferred, video, still, results>>
  BY DEF FrameDone, Put
<1>3. /\ job # NoJob /\ deferred = NoCommand /\ moving \in Animations /\ moving # NoMoving
      /\ moving.bucket = None /\ job.cmd.at = None
  BY <1>1, <1>2, NoneTypes DEF Worker, Hands
<1>4. /\ moving'.id = moving.id /\ moving'.bucket = moving.bucket /\ moving' \in Animations
      /\ moving' # NoMoving
  <2>1. moving'.id = moving.id /\ moving'.bucket = moving.bucket /\ moving' \in Animations
    <3>1. CASE moving' = [moving EXCEPT !.due = FALSE]
      BY <1>3, <3>1 DEF Animations
    <3>2. CASE moving' = [moving EXCEPT !.next = @ + 1, !.due = TRUE]
      <4>1. moving.next + 1 \in Nat
        BY <1>3 DEF Animations
      <4> QED
        BY <1>3, <3>2, <4>1 DEF Animations
    <3> QED
      BY <3>1, <3>2 DEF FrameDone
  <2> QED
    BY <2>1, NoneTypes
<1>5. /\ slot'.kind \in {"FrameFailed", "FrameReady"} /\ slot'.session = job.cmd.session
      /\ slot'.book = job.cmd.book /\ slot'.rev = job.cmd.rev /\ slot'.at = None
  BY <1>3 DEF FrameDone, Put, FrameResult, Result
<1>6. Latest(Now)' = Latest(Now) /\ Newest' = Newest
  BY <1>1, <1>2 DEF Latest, Newest
<1>7. Hands'
  BY <1>2, <1>3, <1>4, NoneTypes DEF Hands
<1>8. ASSUME Image(Now)
      PROVE  /\ Related(Now, results) /\ Cleared(Now) /\ Carried(Now) /\ Tracked(Now) /\ Course(Now)
  BY <1>8 DEF BucketInv, Buckets
<1>9. ASSUME Asking(Now) PROVE Ordered(Now) \/ (Quiet(Now) /\ Gone(Now))
  BY <1>2, <1>3, <1>8, <1>9 DEF Tracked, Held, Asking
<1>10. ASSUME Image(Now) PROVE Related(Now, results)' /\ Cleared(Now)' /\ Carried(Now)'
  <2>1. Related(Now, results)'
    BY <1>1, <1>2, <1>4, <1>5, <1>8, <1>10, NoneTypes
    DEF Related, NoneIn, Own, OfTarget, ImageKinds
  <2>2. Cleared(Now)' /\ Carried(Now)'
    BY <1>1, <1>2, <1>3, NoneTypes, CommandTypes DEF Cleared, Carried, BucketOps
  <2> QED
    BY <2>1, <2>2
<1>11. ASSUME Image(Now) PROVE Tracked(Now)'
  <2> SUFFICES ASSUME Asking(Now) PROVE Ordered(Now)' \/ (Quiet(Now)' /\ Gone(Now)')
    BY <1>1, <1>2 DEF Tracked, Asking, Image
  <2>1. Ordered(Now) => Ordered(Now)'
    BY <1>1, <1>2, <1>6 DEF Ordered, Own
  <2>2. Quiet(Now) /\ Gone(Now) => Quiet(Now)' /\ Gone(Now)'
    BY <1>1, <1>2, <1>4, <1>5, <1>6, <1>11, NoneTypes DEF Quiet, Gone, Own, Asking
  <2> QED
    BY <1>9, <2>1, <2>2
<1>12. ASSUME Image(Now) PROVE Course(Now)'
  <2>1. /\ ~OnBucket(Now)' /\ (Open(Now)' <=> Open(Now)) /\ ~BucketReady(Now)'
    BY <1>1, <1>2, <1>4, <1>5, NoneTypes DEF OnBucket, Open, Own, BucketReady
  <2>2. StaysOpen(Now)'
    BY <1>1, <1>2, <1>8, <1>12, <2>1 DEF Course, StaysOpen
  <2>3. Unstarted(Now)' /\ Closed(Now)' /\ Playing(Now)'
    BY <1>1, <1>2, <1>5, <1>6, <1>8, <1>12, <2>1, NoneTypes
    DEF Course, Unstarted, Closed, Playing, Own
  <2> QED
    BY <2>2, <2>3 DEF Course
<1>13. BucketInv'
  BY <1>2, <1>7, <1>10, <1>11, <1>12, WorkedBuckets
<1>14. NotDropped
  <2> SUFFICES ASSUME Asking(Now), Ordered(Now) PROVE Coming(ui.asked)'
    BY <1>9, GoneIsLost DEF NotDropped
  <2>1. Serves(Newest, ui.asked)'
    BY <1>1, <1>2, <1>6 DEF Ordered, Serves, Own, BucketOps
  <2> QED
    BY <2>1 DEF Coming
<1> QED
  BY <1>13, <1>14

\* A bucket has been decoded, or could not be.
LEMMA BucketOverBuckets ==
    ASSUME Inv, BucketInv, BucketFailed \/ Publish
    PROVE  BucketInv' /\ NotDropped
<1>1. /\ Worker /\ ui.session \in Nat /\ pending \in Commands /\ Newest = Latest(Now)
      /\ Now.ui = ui /\ Now.pending = pending /\ Now.slot = slot
      /\ Now'.ui = ui' /\ Now'.pending = pending' /\ Now'.slot = slot' /\ Hands
  BY Facts DEF BucketInv
<1>2. /\ job.what \in {"bucket", "publish"} /\ job' = NoJob
      /\ UNCHANGED <<ui, pending, deferred, video, still, results>>
  BY DEF BucketFailed, Publish, Put, sessions
<1>3. /\ job # NoJob /\ deferred = NoCommand /\ moving \in Animations /\ moving # NoMoving
      /\ moving.bucket = job.cmd.at /\ moving.id = SessionOf(job.cmd)
  BY <1>1, <1>2, NoneTypes DEF Worker, Hands
<1>4. /\ moving'.id = moving.id /\ moving'.bucket = moving.bucket /\ moving'.due = moving.due
      /\ moving' # NoMoving
  <2>1. job.cmd \in Requests
    BY <1>1, <1>2, <1>3 DEF Worker, Jobs
  <2>2. /\ moving'.id = moving.id /\ moving'.bucket = moving.bucket /\ moving'.due = moving.due
        /\ moving' \in Animations
    BY <1>3, <2>1 DEF BucketFailed, Publish, sessions, Animations, Requests
  <2> QED
    BY <2>2, NoneTypes
<1>5. /\ slot'.kind \in {"FrameFailed", "FrameReady"} /\ slot'.session = job.cmd.session
      /\ slot'.book = job.cmd.book /\ slot'.rev = job.cmd.rev /\ slot'.at = job.cmd.at
  BY DEF BucketFailed, Publish, Put, FrameResult, Result
<1>6. Latest(Now)' = Latest(Now) /\ Newest' = Newest
  BY <1>1, <1>2 DEF Latest, Newest
<1>7. Hands'
  BY <1>1, <1>2, <1>4, NoneTypes DEF Hands
<1>8. ASSUME Image(Now)
      PROVE  /\ Related(Now, results) /\ Cleared(Now) /\ Carried(Now) /\ Tracked(Now) /\ Course(Now)
  BY <1>8 DEF BucketInv, Buckets
<1>9. ASSUME Asking(Now) PROVE Ordered(Now) \/ (Quiet(Now) /\ Held(Now))
  BY <1>2, <1>8, <1>9 DEF Tracked, Gone, Asking
<1>10. ASSUME Image(Now) PROVE Related(Now, results)' /\ Cleared(Now)' /\ Carried(Now)'
  <2>1. Related(Now, results)'
    BY <1>1, <1>2, <1>4, <1>5, <1>8, <1>10, NoneTypes
    DEF Related, NoneIn, Own, OfTarget, ImageKinds
  <2>2. Cleared(Now)' /\ Carried(Now)'
    BY <1>1, <1>2, <1>3, NoneTypes, CommandTypes DEF Cleared, Carried, BucketOps
  <2> QED
    BY <2>1, <2>2
<1>11. ASSUME Image(Now) PROVE Tracked(Now)'
  <2> SUFFICES ASSUME Asking(Now) PROVE Ordered(Now)' \/ (Quiet(Now)' /\ Held(Now)')
    BY <1>1, <1>2 DEF Tracked, Asking, Image
  <2>1. Ordered(Now) => Ordered(Now)'
    BY <1>1, <1>2, <1>6 DEF Ordered, Own
  <2>2. Quiet(Now) /\ Held(Now) => Quiet(Now)' /\ Held(Now)'
    BY <1>1, <1>2, <1>3, <1>4, <1>6, NoneTypes DEF Quiet, Held, Own
  <2> QED
    BY <1>9, <2>1, <2>2
<1>12. ASSUME Image(Now) PROVE Course(Now)'
  <2>1. /\ ~OnBucket(Now)' /\ (Open(Now)' <=> Open(Now))
        /\ BucketReady(Now)' => OnBucket(Now)
    BY <1>1, <1>2, <1>4, <1>5, NoneTypes DEF OnBucket, Open, Own, BucketReady
  <2>2. StaysOpen(Now)'
    BY <1>1, <1>2, <1>8, <1>12, <2>1 DEF Course, StaysOpen
  <2>3. Unstarted(Now)' /\ Closed(Now)' /\ Playing(Now)'
    BY <1>1, <1>2, <1>5, <1>6, <1>8, <1>12, <2>1, NoneTypes
    DEF Course, Unstarted, Closed, Playing, Own
  <2> QED
    BY <2>2, <2>3 DEF Course
<1>13. BucketInv'
  BY <1>2, <1>7, <1>10, <1>11, <1>12, WorkedBuckets
<1>14. NotDropped
  <2> SUFFICES ASSUME Asking(Now) PROVE Coming(ui.asked)'
    BY DEF NotDropped
  <2>1. Ordered(Now) => Serves(Newest, ui.asked)'
    BY <1>1, <1>2, <1>6 DEF Ordered, Serves, Own, BucketOps
  <2>2. Held(Now) => Answers(slot, ui.asked)'
    BY <1>1, <1>2, <1>3, <1>5 DEF Held, Answers, Own
  <2> QED
    BY <1>9, <2>1, <2>2 DEF Coming
<1> QED
  BY <1>13, <1>14

\* The picture of the bucket is there.
LEMMA BucketDecodedBuckets ==
    ASSUME Inv, BucketInv, BucketDecoded
    PROVE  BucketInv' /\ NotDropped
<1>1. /\ Worker /\ ui.session \in Nat /\ pending \in Commands /\ Newest = Latest(Now)
      /\ Now.ui = ui /\ Now.pending = pending /\ Now.slot = slot
      /\ Now'.ui = ui' /\ Now'.pending = pending' /\ Now'.slot = slot' /\ Hands
  BY Facts DEF BucketInv
<1>2. /\ job.what = "bucket" /\ job' = [job EXCEPT !.what = "publish"]
      /\ UNCHANGED <<ui, pending, slot, deferred, video, moving, still, results>>
  BY DEF BucketDecoded, uiVars, sessions
<1>3. job # NoJob /\ job'.what = "publish" /\ job'.cmd = job.cmd
  BY <1>1, <1>2, NoneTypes DEF Worker, Jobs
<1>4. Latest(Now)' = Latest(Now) /\ Newest' = Newest
  BY <1>1, <1>2 DEF Latest, Newest
<1>5. Hands'
  BY <1>1, <1>2, <1>3 DEF Hands
<1>6. ASSUME Image(Now)
      PROVE  /\ Related(Now, results) /\ Cleared(Now) /\ Carried(Now) /\ Tracked(Now) /\ Course(Now)
  BY <1>6 DEF BucketInv, Buckets
<1>7. ASSUME Image(Now) PROVE Related(Now, results)' /\ Cleared(Now)' /\ Carried(Now)'
  BY <1>1, <1>2, <1>3, <1>6, <1>7 DEF Related, NoneIn, Cleared, Carried, Own, OfTarget
<1>8. ASSUME Image(Now) PROVE Tracked(Now)'
  <2> SUFFICES ASSUME Asking(Now) PROVE Ordered(Now)' \/ (Quiet(Now)' /\ Held(Now)')
    BY <1>1, <1>2 DEF Tracked, Asking, Image
  <2>1. Ordered(Now) => Ordered(Now)'
    BY <1>1, <1>2, <1>4 DEF Ordered, Own
  <2>2. Quiet(Now) /\ Held(Now) => Quiet(Now)' /\ Held(Now)'
    BY <1>1, <1>2, <1>3, <1>4 DEF Quiet, Held, Own
  <2> QED
    BY <1>2, <1>6, <1>8, <2>1, <2>2 DEF Tracked, Gone
<1>9. ASSUME Image(Now) PROVE Course(Now)'
  <2>1. (OnBucket(Now)' <=> OnBucket(Now)) /\ (Open(Now)' <=> Open(Now))
    BY <1>1, <1>2, <1>3 DEF OnBucket, Open, Own
  <2>2. StaysOpen(Now)'
    BY <1>1, <1>2, <1>6, <1>9, <2>1 DEF Course, StaysOpen, BucketReady, Own
  <2>3. Unstarted(Now)' /\ Closed(Now)' /\ Playing(Now)'
    BY <1>1, <1>2, <1>3, <1>4, <1>6, <1>9, <2>1
    DEF Course, Unstarted, Closed, Playing, Own
  <2> QED
    BY <2>2, <2>3 DEF Course
<1>10. BucketInv'
  BY <1>2, <1>5, <1>7, <1>8, <1>9, WorkedBuckets
<1>11. NotDropped
  BY <1>2, <1>3, <1>4 DEF NotDropped, Coming, Serves, Answers
<1> QED
  BY <1>10, <1>11


\* The decoding of a bucket gives way.
LEMMA YieldBuckets ==
    ASSUME Inv, BucketInv, Yield
    PROVE  BucketInv' /\ NotDropped
<1>1. /\ Worker /\ ui.session \in Nat /\ pending \in Commands /\ Newest = Latest(Now)
      /\ Now.ui = ui /\ Now.pending = pending /\ Now.slot = slot
      /\ Now'.ui = ui' /\ Now'.pending = pending' /\ Now'.slot = slot' /\ Hands
  BY Facts DEF BucketInv
<1>2. /\ job.what = "bucket" /\ job' = NoJob
      /\ UNCHANGED <<ui, results, slot, video, moving, still>>
  BY DEF Yield, sessions
<1>3. /\ job # NoJob /\ deferred = NoCommand /\ job.cmd \in Requests
      /\ moving.bucket = job.cmd.at /\ moving.id = SessionOf(job.cmd) /\ moving # NoMoving
      /\ moving.id.session = job.cmd.session
  <2>1. /\ job # NoJob /\ deferred = NoCommand /\ job.cmd \in Requests
        /\ moving.bucket = job.cmd.at /\ moving.id = SessionOf(job.cmd) /\ moving # NoMoving
    BY <1>1, <1>2, NoneTypes DEF Worker, Hands, Jobs
  <2> QED
    BY <2>1 DEF SessionOf
<1>4. Hands'
  BY <1>1, <1>2, NoneTypes DEF Hands
<1>5. ASSUME Image(Now)
      PROVE  /\ Related(Now, results) /\ Cleared(Now) /\ Carried(Now) /\ Tracked(Now) /\ Course(Now)
  BY <1>5 DEF BucketInv, Buckets
<1>6. ASSUME Asking(Now) PROVE Ordered(Now) \/ (Quiet(Now) /\ Held(Now))
  BY <1>2, <1>5, <1>6 DEF Tracked, Gone, Asking
<1>7. ~OnBucket(Now)'
  BY <1>2, NoneTypes DEF OnBucket
<1>8. ASSUME Image(Now) PROVE Closed(Now)'
  BY <1>1, <1>2, <1>3, <1>5, <1>8 DEF Course, Closed, Own
<1>9. CASE pending # NoCommand
  <2>1. deferred' = pending /\ pending' = NoCommand
    BY <1>9 DEF Yield
  <2>2. Latest(Now) = pending /\ Latest(Now)' = pending /\ Newest' = Newest
    BY <1>1, <1>9, <2>1 DEF Latest, Newest
  <2>3. ASSUME Image(Now) PROVE Related(Now, results)'
    BY <1>1, <1>2, <1>3, <1>5, <2>1, <2>3, NoneTypes DEF Related, NoneIn, Own, OfTarget
  <2>4. ASSUME Image(Now) PROVE Cleared(Now)' /\ Carried(Now)'
    BY <1>1, <1>2, <1>5, <2>1, <2>4, NoneTypes DEF Cleared, Carried, Own
  <2>5. ASSUME Image(Now) PROVE Tracked(Now)'
    <3> SUFFICES ASSUME Asking(Now) PROVE Ordered(Now)' \/ (Quiet(Now)' /\ Held(Now)')
      BY <1>1, <1>2 DEF Tracked, Asking, Image
    <3>1. Ordered(Now) => Ordered(Now)'
      BY <1>1, <1>2, <2>2 DEF Ordered, Own
    <3>2. Quiet(Now) /\ Held(Now) => Quiet(Now)' /\ Held(Now)'
      BY <1>1, <1>2, <2>2 DEF Quiet, Held, Own
    <3> QED
      BY <1>6, <3>1, <3>2
  <2>6. ASSUME Image(Now) PROVE Course(Now)'
    <3>1. Open(Now) => Open(Now)'
      BY <1>1, <1>2, <2>1 DEF Open, Own
    <3>2. StaysOpen(Now)'
      BY <1>1, <1>2, <1>5, <1>7, <2>6, <3>1 DEF Course, StaysOpen, BucketReady, Own
    <3>3. Unstarted(Now)' /\ Playing(Now)'
      BY <1>1, <1>2, <1>5, <1>7, <2>2, <2>6, NoneTypes DEF Course, Unstarted, Playing, Own
    <3> QED
      BY <1>8, <2>6, <3>2, <3>3 DEF Course
  <2>7. BucketInv'
    BY <1>2, <1>4, <2>3, <2>4, <2>5, <2>6, WorkedBuckets
  <2>8. NotDropped
    <3> SUFFICES ASSUME Asking(Now) PROVE Coming(ui.asked)'
      BY DEF NotDropped
    <3>1. Ordered(Now) => Serves(Newest, ui.asked)'
      BY <1>1, <1>2, <2>2 DEF Ordered, Serves, Own, BucketOps
    <3>2. Quiet(Now) /\ Held(Now) => Serves(Newest, ui.asked)'
      BY <1>1, <1>2, <1>3, <1>9, <2>2 DEF Quiet, Held, Serves, Own
    <3> QED
      BY <1>6, <3>1, <3>2 DEF Coming
  <2> QED
    BY <2>7, <2>8
<1>10. CASE pending = NoCommand
  <2> DEFINE c == [job.cmd EXCEPT !.op = "AnimatedScrub"]
  <2>1. deferred' = c /\ pending' = NoCommand
    BY <1>10 DEF Yield
  <2>2. /\ c \in Requests /\ c.op = "AnimatedScrub" /\ c.session = job.cmd.session
        /\ c.book = job.cmd.book /\ c.rev = job.cmd.rev /\ c.at = job.cmd.at
    BY <1>3 DEF Requests, Ops
  <2> HIDE DEF c
  <2>3. Latest(Now) = NoCommand /\ Latest(Now)' = c /\ Newest' = c
    BY <1>1, <1>3, <1>10, <2>1 DEF Latest, Newest
  <2>4. ASSUME Asking(Now) PROVE Held(Now)
    BY <1>6, <2>3, <2>4, CommandTypes DEF Ordered, BucketOps
  <2>5. ASSUME Image(Now) PROVE Related(Now, results)'
    <3>1. Own(Now, c) => OfTarget(Now, c) /\ c.op \in ImageOps
      BY <1>5, <2>2, <2>5 DEF Related, Own, OfTarget, ImageOps
    <3> QED
      BY <1>1, <1>2, <1>5, <2>1, <2>5, <3>1, NoneTypes DEF Related, NoneIn, Own, OfTarget
  <2>6. Cleared(Now)' /\ Carried(Now)'
    BY <1>1, <1>2, <1>3, <2>1, <2>2, NoneTypes DEF Cleared, Carried, Own
  <2>7. ASSUME Image(Now) PROVE Tracked(Now)'
    <3> SUFFICES ASSUME Asking(Now) PROVE Ordered(Now)'
      BY <1>1, <1>2 DEF Tracked, Asking, Image
    <3> QED
      BY <1>1, <1>2, <1>3, <2>2, <2>3, <2>4 DEF Held, Ordered, Own, BucketOps
  <2>8. ASSUME Image(Now) PROVE Course(Now)'
    <3>1. Open(Now) => Open(Now)'
      BY <1>1, <1>2, <1>3, <2>1, <2>2 DEF Open, Own
    <3>2. StaysOpen(Now)'
      BY <1>1, <1>2, <1>5, <1>7, <2>8, <3>1 DEF Course, StaysOpen, BucketReady, Own
    <3>3. Unstarted(Now)'
      BY <1>1, <1>2, <1>5, <1>7, <2>2, <2>3, <2>8 DEF Course, Unstarted, OnBucket, Own
    <3>4. Playing(Now)'
      BY <1>1, <1>2, <1>5, <2>3, <2>8, CommandTypes DEF Course, Playing
    <3> QED
      BY <1>8, <2>8, <3>2, <3>3, <3>4 DEF Course
  <2>9. BucketInv'
    BY <1>2, <1>4, <2>5, <2>6, <2>7, <2>8, WorkedBuckets
  <2>10. NotDropped
    <3> SUFFICES ASSUME Asking(Now) PROVE Coming(ui.asked)'
      BY DEF NotDropped
    <3>1. Serves(Newest, ui.asked)'
      BY <1>1, <1>2, <1>3, <2>2, <2>3, <2>4 DEF Held, Serves, Own
    <3> QED
      BY <3>1 DEF Coming
  <2> QED
    BY <2>9, <2>10
<1> QED
  BY <1>9, <1>10


\* The worker takes the command c.
Takes(c) ==
    /\ job = NoJob /\ c = Newest /\ c # NoCommand
    /\ pending' = NoCommand /\ deferred' = NoCommand /\ ui' = ui

LEMMA TakesFacts ==
    ASSUME Inv, BucketInv, NEW c, Takes(c)
    PROVE  /\ Worker /\ Hands /\ c \in Commands /\ c \in {pending, deferred} /\ c # NoCommand
           /\ job = NoJob /\ Latest(Now) = c /\ ui' = ui /\ ui.session \in Nat
           /\ pending' = NoCommand /\ deferred' = NoCommand
           /\ Newest = c /\ Newest' = NoCommand /\ Latest(Now)' = NoCommand
           /\ Now.ui = ui /\ Now.pending = pending /\ Now.slot = slot
           /\ Now'.ui = ui' /\ Now'.pending = pending' /\ Now'.slot = slot'
           /\ Cleared(Now)' /\ Carried(Now)'
           /\ Image(Now) => /\ Related(Now, results) /\ Tracked(Now) /\ Unstarted(Now)
                            /\ StaysOpen(Now) /\ Closed(Now) /\ Playing(Now)
<1>1. /\ Worker /\ ui.session \in Nat /\ pending \in Commands /\ Newest = Latest(Now)
      /\ Now.ui = ui /\ Now.pending = pending /\ Now.slot = slot
      /\ Now'.ui = ui' /\ Now'.pending = pending' /\ Now'.slot = slot' /\ Hands
  BY Facts DEF BucketInv
<1>2. c \in Commands /\ c \in {pending, deferred} /\ Latest(Now) = c
  BY <1>1 DEF Takes, Newest, Worker
<1>3. Newest' = NoCommand /\ Latest(Now)' = NoCommand
  BY <1>1 DEF Takes, Newest, Latest
<1>4. Cleared(Now)' /\ Carried(Now)'
  BY <1>1, CommandTypes DEF Takes, Cleared, Carried, BucketOps
<1> QED
  BY <1>1, <1>2, <1>3, <1>4 DEF Takes, BucketInv, Buckets, Course

LEMMA TakenBuckets ==
    ASSUME Inv, BucketInv, NEW c, Takes(c), Hands',
           Image(Now) => /\ Related(Now, results)' /\ Tracked(Now)'
                         /\ Unstarted(Now)' /\ StaysOpen(Now)' /\ Closed(Now)' /\ Playing(Now)'
    PROVE  BucketInv'
BY TakesFacts, WorkedBuckets DEF Course

\* An order for a scene or a page, and the order to stop, are of another session.
LEMMA OtherTaken ==
    ASSUME Inv, BucketInv, NEW c, Takes(c), c \in Requests => c.op \notin ImageOps,
           moving' \in {moving, NoMoving},
           job' = NoJob \/ (job'.what \in {"scene", "page"} /\ job'.cmd = c),
           slot' \in {slot, NoResult} \/ slot'.session = c.session,
           \A i \in DOMAIN results' :
             \/ i \in DOMAIN results /\ results'[i] = results[i]
             \/ results'[i].session = c.session
    PROVE  BucketInv' /\ NotDropped
<1>1. /\ Worker /\ Hands /\ c \in Commands /\ c \in {pending, deferred} /\ c # NoCommand
      /\ job = NoJob /\ Latest(Now) = c /\ ui' = ui /\ ui.session \in Nat
      /\ pending' = NoCommand /\ deferred' = NoCommand /\ Latest(Now)' = NoCommand
      /\ Now.ui = ui /\ Now.pending = pending /\ Now.slot = slot
      /\ Now'.ui = ui' /\ Now'.pending = pending' /\ Now'.slot = slot'
      /\ Image(Now) => /\ Related(Now, results) /\ Tracked(Now) /\ Unstarted(Now)
                       /\ StaysOpen(Now) /\ Closed(Now) /\ Playing(Now)
  BY TakesFacts
<1>2. Hands'
  BY <1>1, NoneTypes DEF Hands, NoMoving
<1>3. ASSUME Image(Now) PROVE c.session # ui.session
  BY <1>1, <1>3, CommandTypes DEF Related, Own
<1>4. ASSUME Image(Now) PROVE Related(Now, results)'
  BY <1>1, <1>3, <1>4, NoneTypes DEF Related, NoneIn, Own, OfTarget
<1>5. ASSUME Image(Now) PROVE ~Asking(Now)
  BY <1>1, <1>3, <1>5 DEF Tracked, Ordered, Quiet, Own
<1>6. ASSUME Image(Now) PROVE Tracked(Now)'
  BY <1>1, <1>5, <1>6 DEF Tracked, Asking, Image
<1>7. ASSUME Image(Now) PROVE Unstarted(Now)' /\ StaysOpen(Now)' /\ Closed(Now)' /\ Playing(Now)'
  <2>1. ~OnBucket(Now)' /\ ~Open(Now)
    BY <1>1, <1>3, <1>7, NoneTypes DEF OnBucket, Open, Own
  <2>2. Unstarted(Now)'
    BY <1>1, <2>1, NoneTypes DEF Unstarted, Own
  <2>3. StaysOpen(Now)'
    BY <1>1, <1>3, <1>7, <2>1, NoneTypes DEF StaysOpen, BucketReady, Own
  <2>4. Closed(Now)'
    BY <1>1, <1>3, <1>7, NoneTypes DEF Closed, Own
  <2>5. Playing(Now)'
    BY <1>1, <1>3, <1>7 DEF Playing, Own
  <2> QED
    BY <2>2, <2>3, <2>4, <2>5
<1>8. BucketInv'
  BY <1>2, <1>4, <1>6, <1>7, TakenBuckets
<1> QED
  BY <1>5, <1>8 DEF NotDropped, Asking

\* An animation is opened: not one that is open already.
LEMMA OpenMovingTaken ==
    ASSUME Inv, BucketInv, NEW c \in Requests, Takes(c), OpenMoving(c),
           c.op \in {"StartAnimated", "AnimatedScrub", "AnimatedAuto"},
           c.op = "StartAnimated" \/ ~MovingMatches(c)
    PROVE  BucketInv' /\ NotDropped
<1>1. /\ Worker /\ Hands /\ c \in {pending, deferred} /\ c # NoCommand
      /\ job = NoJob /\ Latest(Now) = c /\ ui' = ui /\ ui.session \in Nat
      /\ pending' = NoCommand /\ deferred' = NoCommand /\ Latest(Now)' = NoCommand
      /\ Now.ui = ui /\ Now.pending = pending /\ Now.slot = slot
      /\ Now'.ui = ui' /\ Now'.pending = pending' /\ Now'.slot = slot'
      /\ Image(Now) => /\ Related(Now, results) /\ Tracked(Now) /\ Unstarted(Now)
                       /\ StaysOpen(Now) /\ Closed(Now) /\ Playing(Now)
  BY TakesFacts
<1>2. \/ /\ slot'.kind \in {"FrameFailed", "Unavailable"} /\ slot'.session = c.session
         /\ slot'.book = c.book /\ slot'.rev = c.rev /\ slot'.at = c.at
         /\ moving' = NoMoving /\ job' = NoJob
      \/ /\ slot' \in {slot, NoResult}
         /\ moving'.id = SessionOf(c) /\ moving'.bucket = c.at /\ moving'.due = FALSE
         /\ job'.what = (IF c.at # None THEN "bucket" ELSE "frame") /\ job'.cmd = c
  BY DEF OpenMoving, Put, FrameResult, Result, MovingOf, Begin
<1>3. results' = results
  BY DEF OpenMoving, Put
<1>4. /\ SessionOf(c).session = c.session /\ SessionOf(c).book = c.book
      /\ SessionOf(c).rev = c.rev
  BY DEF SessionOf
<1>5. Hands'
  BY <1>2, NoneTypes DEF Hands, NoMoving
<1>6. ASSUME Image(Now) PROVE Own(Now, c) => OfTarget(Now, c)
  BY <1>1, <1>6 DEF Related
<1>7. ASSUME Image(Now) PROVE ~Open(Now)
  <2> SUFFICES ASSUME Open(Now) PROVE FALSE
    OBVIOUS
  <2>1. Own(Now, c) /\ Own(Now, moving.id) /\ c.op # "StartAnimated"
    BY <1>1 DEF Open
  <2>2. OfTarget(Now, c) /\ OfTarget(Now, moving.id)
    BY <1>1, <1>6, <1>7, <2>1 DEF Related
  <2>3. moving.id \in Opened
    BY <1>1, <2>1, NoneTypes DEF Worker, Animations, Own
  <2>4. moving.id = SessionOf(c)
    BY <2>1, <2>2, <2>3 DEF Opened, SessionOf, Own, OfTarget
  <2> QED
    BY <2>1, <2>4 DEF MovingMatches
<1>8. ASSUME Image(Now) PROVE Related(Now, results)'
  BY <1>1, <1>2, <1>3, <1>4, <1>6, <1>8, NoneTypes
  DEF Related, NoneIn, Own, OfTarget, ImageKinds
<1>9. ASSUME Asking(Now) PROVE Ordered(Now)
  BY <1>1, <1>9 DEF Tracked, Quiet, Asking
<1>10. ASSUME Image(Now) PROVE Tracked(Now)'
  <2> SUFFICES ASSUME Asking(Now) PROVE Quiet(Now)' /\ Held(Now)'
    BY <1>1 DEF Tracked, Asking, Image
  <2> QED
    BY <1>1, <1>2, <1>4, <1>9 DEF Ordered, Quiet, Held, Own, Asking
<1>11. ASSUME Image(Now) PROVE Unstarted(Now)' /\ StaysOpen(Now)' /\ Closed(Now)' /\ Playing(Now)'
  <2>1. OnBucket(Now)' => Own(Now, c) /\ c.at # None /\ Open(Now)'
    BY <1>1, <1>2, <1>4, NoneTypes DEF OnBucket, Own, Open
  <2>2. Unstarted(Now)'
    BY <1>1, <1>11, <2>1, NoneTypes DEF Unstarted, Own
  <2>3. StaysOpen(Now)'
    BY <1>1, <1>2, <1>7, <1>11, <2>1, NoneTypes DEF StaysOpen, BucketReady, Own
  <2>4. Closed(Now)'
    BY <1>1, <1>2, <1>11, NoneTypes, CommandTypes DEF Closed, Own
  <2>5. Playing(Now)'
    BY <1>1, <1>2, <1>11, <2>1, NoneTypes DEF Playing, Own
  <2> QED
    BY <2>2, <2>3, <2>4, <2>5
<1>12. BucketInv'
  BY <1>5, <1>8, <1>10, <1>11, TakenBuckets
<1>13. NotDropped
  <2> SUFFICES ASSUME Asking(Now) PROVE Coming(ui.asked)'
    BY DEF NotDropped
  <2>1. c.session = ui.session /\ c.at = ui.asked
    BY <1>1, <1>9 DEF Ordered, Own
  <2> QED
    BY <1>1, <1>2, <2>1 DEF Coming, Answers
<1> QED
  BY <1>12, <1>13

\* A bucket of the animation that is open is decoded, or believed to be shown.
LEMMA ScrubTaken ==
    ASSUME Inv, BucketInv, NEW c \in Requests, Takes(c), AnimatedScrub(c),
           c.op = "AnimatedScrub", MovingMatches(c)
    PROVE  BucketInv' /\ NotDropped
<1>1. /\ Worker /\ Hands /\ c \in {pending, deferred} /\ c # NoCommand
      /\ job = NoJob /\ Latest(Now) = c /\ ui' = ui /\ ui.session \in Nat
      /\ pending' = NoCommand /\ deferred' = NoCommand /\ Latest(Now)' = NoCommand
      /\ Newest = c /\ Newest' = NoCommand
      /\ Now.ui = ui /\ Now.pending = pending /\ Now.slot = slot
      /\ Now'.ui = ui' /\ Now'.pending = pending' /\ Now'.slot = slot'
      /\ Image(Now) => /\ Related(Now, results) /\ Tracked(Now) /\ Unstarted(Now)
                       /\ StaysOpen(Now) /\ Closed(Now) /\ Playing(Now)
  BY TakesFacts
<1>2. /\ SessionOf(c).session = c.session /\ SessionOf(c).book = c.book
      /\ SessionOf(c).rev = c.rev /\ moving.id = SessionOf(c)
  BY DEF SessionOf, MovingMatches
<1>3. /\ slot' = slot /\ results' = results
      /\ moving'.id = moving.id /\ moving'.bucket = c.at /\ moving'.due = FALSE
      /\ \/ job' = NoJob /\ moving'.done = c.at
         \/ job'.what = "bucket" /\ job'.cmd = c
  <2> DEFINE s == Unguarded(moving, c.mask)
  <2>1. moving \in Animations
    BY <1>1, <1>2, MatchesOpen DEF MovingMatches
  <2>2. s \in Animations /\ s.id = moving.id
    BY <2>1, UnguardedType
  <2> HIDE DEF s
  <2>3. slot' = slot /\ results' = results
    BY DEF AnimatedScrub, Silent
  <2>4. \/ s.bucket = c.at /\ s.done = c.at /\ moving' = [s EXCEPT !.due = FALSE] /\ job' = NoJob
        \/ /\ moving' = [s EXCEPT !.bucket = c.at, !.mask = c.mask, !.due = FALSE]
           /\ job' = [what |-> "bucket", cmd |-> c]
    BY DEF AnimatedScrub, Begin, s
  <2>5. CASE /\ s.bucket = c.at /\ s.done = c.at
             /\ moving' = [s EXCEPT !.due = FALSE] /\ job' = NoJob
    <3>1. /\ moving'.id = s.id /\ moving'.bucket = s.bucket /\ moving'.due = FALSE
          /\ moving'.done = s.done
      BY <2>2, <2>5 DEF Animations
    <3> QED
      BY <2>2, <2>3, <2>5, <3>1
  <2>6. CASE /\ moving' = [s EXCEPT !.bucket = c.at, !.mask = c.mask, !.due = FALSE]
             /\ job' = [what |-> "bucket", cmd |-> c]
    <3>1. moving'.id = s.id /\ moving'.bucket = c.at /\ moving'.due = FALSE
      BY <2>2, <2>6 DEF Animations
    <3> QED
      BY <2>2, <2>3, <2>6, <3>1
  <2> QED
    BY <2>4, <2>5, <2>6
<1>4. Hands'
  BY <1>2, <1>3, NoneTypes DEF Hands
<1>5. ASSUME Image(Now) PROVE Related(Now, results)'
  BY <1>1, <1>2, <1>3, <1>5, NoneTypes DEF Related, NoneIn, Own, OfTarget
<1>6. ASSUME Asking(Now) PROVE Ordered(Now)
  BY <1>1, <1>6 DEF Tracked, Quiet, Asking
<1>7. ASSUME Image(Now) PROVE Tracked(Now)'
  <2> SUFFICES ASSUME Asking(Now) PROVE Quiet(Now)' /\ Held(Now)'
    BY <1>1 DEF Tracked, Asking, Image
  <2> QED
    BY <1>1, <1>2, <1>3, <1>6 DEF Ordered, Quiet, Held, Own
<1>8. ASSUME Image(Now) PROVE Unstarted(Now)' /\ StaysOpen(Now)' /\ Closed(Now)' /\ Playing(Now)'
  <2>1. OnBucket(Now)' => Own(Now, c) /\ Open(Now)'
    BY <1>1, <1>2, <1>3, NoneTypes DEF OnBucket, Own, Open
  <2>2. Open(Now) => Open(Now)'
    BY <1>1, <1>3 DEF Open, Own
  <2>3. Unstarted(Now)'
    BY <1>1, <1>8, <2>1, NoneTypes DEF Unstarted, Own
  <2>4. StaysOpen(Now)'
    BY <1>1, <1>3, <1>8, <2>1, <2>2 DEF StaysOpen, BucketReady, Own
  <2>5. Closed(Now)'
    BY <1>1, <1>3, <1>8 DEF Closed, Own
  <2>6. Playing(Now)'
    BY <1>1, <1>8 DEF Playing, Own
  <2> QED
    BY <2>3, <2>4, <2>5, <2>6
<1>9. BucketInv'
  BY <1>4, <1>5, <1>7, <1>8, TakenBuckets
<1>10. NotDropped
  <2> SUFFICES ASSUME Asking(Now) PROVE Coming(ui.asked)' \/ Skipped
    BY DEF NotDropped
  <2>1. c.session = ui.session /\ c.at = ui.asked
    BY <1>1, <1>6 DEF Ordered, Own
  <2> QED
    BY <1>1, <1>3, <2>1 DEF Coming, Skipped
<1> QED
  BY <1>9, <1>10

\* An abandonment is acknowledged for the bucket the animation is at.
LEMMA AbandonTaken ==
    ASSUME Inv, BucketInv, NEW c \in Requests, Takes(c), AnimatedAbandon(c),
           c.op = "AnimatedAbandon"
    PROVE  BucketInv' /\ NotDropped
<1>1. /\ Worker /\ Hands /\ c \in {pending, deferred} /\ c # NoCommand
      /\ job = NoJob /\ Latest(Now) = c /\ ui' = ui /\ ui.session \in Nat
      /\ pending' = NoCommand /\ deferred' = NoCommand /\ Latest(Now)' = NoCommand
      /\ Newest = c
      /\ Now.ui = ui /\ Now.pending = pending /\ Now.slot = slot
      /\ Now'.ui = ui' /\ Now'.pending = pending' /\ Now'.slot = slot'
      /\ Image(Now) => /\ Related(Now, results) /\ Tracked(Now) /\ Unstarted(Now)
                       /\ StaysOpen(Now) /\ Closed(Now) /\ Playing(Now)
  BY TakesFacts
<1>2. c.session \in Nat /\ (moving = NoMoving => moving.id.session # c.session)
  BY NoneTypes DEF Requests
<1>3. /\ job' = NoJob /\ results' = results
      /\ moving'.id = moving.id /\ moving'.bucket = moving.bucket /\ moving'.due = moving.due
      /\ \/ /\ moving.id.session = c.session
            /\ slot'.kind = "FrameStale" /\ slot'.session = moving.id.session
            /\ slot'.book = moving.id.book /\ slot'.rev = moving.id.rev
            /\ slot'.at = moving.bucket
         \/ moving.id.session # c.session /\ slot' = slot /\ moving' = moving
  <2>1. CASE moving.id.session = c.session
    <3> DEFINE s == Unguarded(moving, c.mask)
    <3>1. moving \in Animations
      BY <1>1, <1>2, <2>1 DEF Worker
    <3>2. s.id = moving.id /\ s.bucket = moving.bucket /\ s.due = moving.due
      BY <3>1 DEF Unguarded, Animations
    <3> HIDE DEF s
    <3>3. /\ moving' = s /\ job' = NoJob /\ results' = results
          /\ slot' = Result("FrameStale", moving.id, moving.bucket, moving.next, c.mask, TRUE)
      BY <2>1 DEF AnimatedAbandon, Put, s
    <3> QED
      BY <2>1, <3>2, <3>3 DEF Result
  <2>2. CASE moving.id.session # c.session
    BY <2>2 DEF AnimatedAbandon, Silent
  <2> QED
    BY <2>1, <2>2
<1>4. Hands'
  BY <1>1, <1>3, NoneTypes DEF Hands
<1>5. ASSUME Image(Now) PROVE Related(Now, results)'
  BY <1>1, <1>3, <1>5, NoneTypes DEF Related, NoneIn, Own, OfTarget, ImageKinds
<1>6. ASSUME Asking(Now) PROVE Quiet(Now) /\ (Held(Now) \/ Gone(Now)) /\ Own(Now, c)
  BY <1>1, <1>6 DEF Tracked, Ordered, Quiet, Asking, BucketOps
<1>7. ASSUME Image(Now) PROVE Tracked(Now)'
  <2> SUFFICES ASSUME Asking(Now) PROVE Quiet(Now)' /\ (Held(Now)' \/ Gone(Now)')
    BY <1>1 DEF Tracked, Asking, Image
  <2>1. Quiet(Now)'
    BY <1>1 DEF Quiet
  <2>2. Held(Now) => Held(Now)'
    BY <1>1, <1>2, <1>3 DEF Held, Own
  <2>3. Gone(Now) => Gone(Now)'
    BY <1>1, <1>3, NoneTypes DEF Gone, Own
  <2> QED
    BY <1>6, <2>1, <2>2, <2>3
<1>8. ASSUME Image(Now) PROVE Unstarted(Now)' /\ StaysOpen(Now)' /\ Closed(Now)' /\ Playing(Now)'
  <2>1. ~OnBucket(Now)'
    BY <1>3, NoneTypes DEF OnBucket
  <2>2. Open(Now) => Open(Now)'
    BY <1>1, <1>3 DEF Open, Own
  <2>3. Unstarted(Now)'
    BY <1>1, <2>1, NoneTypes DEF Unstarted, Own
  <2>4. StaysOpen(Now)'
    BY <1>1, <1>3, <1>8, <2>1, <2>2 DEF StaysOpen, BucketReady, Own
  <2>5. Closed(Now)'
    BY <1>1, <1>3, <1>8 DEF Closed, Own
  <2>6. Playing(Now)'
    BY <1>1, <1>8 DEF Playing, Own
  <2> QED
    BY <2>3, <2>4, <2>5, <2>6
<1>9. BucketInv'
  BY <1>4, <1>5, <1>7, <1>8, TakenBuckets
<1>10. NotDropped
  <2> SUFFICES ASSUME Asking(Now), Coming(ui.asked) PROVE Coming(ui.asked)'
    BY DEF NotDropped
  <2>1. Held(Now) /\ c.session = ui.session /\ ui.asked # None
    BY <1>1, <1>6, GoneIsLost DEF Own, Asking
  <2>2. CASE moving = NoMoving
    <3>1. ~Serves(Newest, ui.asked) /\ slot' = slot
      BY <1>1, <1>2, <1>3, <2>2 DEF Serves
    <3>2. ~(job.cmd.session = ui.session /\ job.cmd.at = ui.asked)
      BY <1>1, NoneTypes
    <3> QED
      BY <1>1, <1>3, <3>1, <3>2 DEF Coming, Answers
  <2>3. CASE moving # NoMoving
    <3>1. moving.id.session = ui.session /\ moving.bucket = ui.asked
      BY <1>1, <2>1, <2>3 DEF Held, Own
    <3> QED
      BY <1>1, <1>3, <2>1, <3>1 DEF Coming, Answers
  <2> QED
    BY <2>2, <2>3
<1> QED
  BY <1>9, <1>10

\* The animation that is open goes on playing.
LEMMA AutoTaken ==
    ASSUME Inv, BucketInv, NEW c \in Requests, Takes(c), AnimatedAuto(c),
           c.op = "AnimatedAuto", MovingMatches(c)
    PROVE  BucketInv' /\ NotDropped
<1>1. /\ Worker /\ Hands /\ c \in {pending, deferred} /\ c # NoCommand
      /\ job = NoJob /\ Latest(Now) = c /\ ui' = ui /\ ui.session \in Nat
      /\ pending' = NoCommand /\ deferred' = NoCommand /\ Latest(Now)' = NoCommand
      /\ Now.ui = ui /\ Now.pending = pending /\ Now.slot = slot
      /\ Now'.ui = ui' /\ Now'.pending = pending' /\ Now'.slot = slot'
      /\ Image(Now) => /\ Related(Now, results) /\ Tracked(Now) /\ Unstarted(Now)
                       /\ StaysOpen(Now) /\ Closed(Now) /\ Playing(Now)
  BY TakesFacts
<1>2. /\ slot' = slot /\ results' = results /\ job' = NoJob
      /\ moving'.id = moving.id /\ moving'.bucket = None
  <2>1. moving \in Animations
    BY <1>1, MatchesOpen
  <2> QED
    BY <2>1 DEF AnimatedAuto, Silent, Animations
<1>3. Hands'
  BY <1>2, NoneTypes DEF Hands
<1>4. ASSUME Image(Now) PROVE Related(Now, results)'
  BY <1>1, <1>2, <1>4, NoneTypes DEF Related, NoneIn, Own, OfTarget
<1>5. ~Asking(Now)
  BY <1>1 DEF Asking, Tracked, Ordered, Quiet, BucketOps
<1>6. ASSUME Image(Now) PROVE Tracked(Now)'
  BY <1>1, <1>5 DEF Tracked, Asking, Image
<1>7. ASSUME Image(Now) PROVE Unstarted(Now)' /\ StaysOpen(Now)' /\ Closed(Now)' /\ Playing(Now)'
  <2>1. ~OnBucket(Now)'
    BY <1>2, NoneTypes DEF OnBucket
  <2>2. Open(Now) => Open(Now)'
    BY <1>1, <1>2 DEF Open, Own
  <2>3. Unstarted(Now)'
    BY <1>1, <2>1, NoneTypes DEF Unstarted, Own
  <2>4. StaysOpen(Now)'
    BY <1>1, <1>2, <1>7, <2>1, <2>2 DEF StaysOpen, BucketReady, Own
  <2>5. Closed(Now)'
    BY <1>1, <1>2, <1>7 DEF Closed, Own
  <2>6. Playing(Now)'
    BY <1>1, <1>2, <2>1, NoneTypes DEF Playing
  <2> QED
    BY <2>3, <2>4, <2>5, <2>6
<1>8. BucketInv'
  BY <1>3, <1>4, <1>6, <1>7, TakenBuckets
<1> QED
  BY <1>5, <1>8 DEF NotDropped


LEMMA TakeBuckets ==
    ASSUME Inv, BucketInv, Take
    PROVE  BucketInv' /\ NotDropped
<1> DEFINE c == Newest
<1>1. /\ Takes(c) /\ Perform(c) /\ Worker /\ results \in Seq(VideoAnswers)
  BY Facts DEF Take, Takes
<1>2. c \in Commands /\ c # NoCommand
  BY <1>1, TakesFacts
<1> HIDE DEF c
<1>3. CASE c = Stop
  <2>1. /\ moving' = NoMoving /\ job' = NoJob /\ slot' = NoResult /\ results' = results
        /\ c \notin Requests
    BY <1>1, <1>3, CommandTypes DEF Perform, CloseAll
  <2> QED
    BY <1>1, <2>1, OtherTaken
<1>4. CASE c \in Requests /\ c.op \in {"StartVideo", "VideoScene", "StartStatic", "StaticPage"}
  <2>1. c.op \notin ImageOps
    BY <1>4 DEF ImageOps
  <2>2. /\ VideoResult("Failed", c) \in VideoAnswers
        /\ VideoResult("Failed", c).session = c.session
        /\ PageResult("PageFailed", c).session = c.session
    BY <1>4, Results
  <2>3. /\ moving' \in {moving, NoMoving}
        /\ job' = NoJob \/ (job'.what \in {"scene", "page"} /\ job'.cmd = c)
        /\ slot' \in {slot, NoResult} \/ slot'.session = c.session
        /\ results' \in {results, Append(results, VideoResult("Failed", c))}
    <3>1. CASE c.op = "StartVideo"
      BY <1>1, <3>1 DEF Perform, StartVideo, Begin
    <3>2. CASE c.op = "VideoScene"
      BY <1>1, <3>2 DEF Perform, VideoScene, Silent, Tell, Begin
    <3>3. CASE c.op = "StartStatic"
      BY <1>1, <2>2, <3>3 DEF Perform, OpenStill, Put, Begin
    <3>4. CASE c.op = "StaticPage"
      BY <1>1, <2>2, <3>4 DEF Perform, StaticPage, OpenStill, Put, Silent, Begin, sessions
    <3> QED
      BY <1>4, <3>1, <3>2, <3>3, <3>4
  <2>4. \A i \in DOMAIN results' :
          \/ i \in DOMAIN results /\ results'[i] = results[i]
          \/ results'[i].session = c.session
    <3>1. CASE results' = results
      BY <3>1
    <3>2. CASE results' = Append(results, VideoResult("Failed", c))
      BY <1>1, <2>2, <3>2, Appended
    <3> QED
      BY <2>3, <3>1, <3>2
  <2> QED
    BY <1>1, <2>1, <2>3, <2>4, OtherTaken
<1>5. CASE c \in Requests /\ c.op = "StartAnimated"
  BY <1>1, <1>5, OpenMovingTaken DEF Perform
<1>6. CASE c \in Requests /\ c.op = "AnimatedScrub"
  <2>1. AnimatedScrub(c)
    BY <1>1, <1>6 DEF Perform
  <2>2. ~MovingMatches(c) => OpenMoving(c)
    BY <2>1 DEF AnimatedScrub
  <2> QED
    BY <1>1, <1>6, <2>1, <2>2, OpenMovingTaken, ScrubTaken
<1>7. CASE c \in Requests /\ c.op = "AnimatedAbandon"
  BY <1>1, <1>7, AbandonTaken DEF Perform
<1>8. CASE c \in Requests /\ c.op = "AnimatedAuto"
  <2>1. AnimatedAuto(c)
    BY <1>1, <1>8 DEF Perform
  <2>2. ~MovingMatches(c) => OpenMoving(c)
    BY <2>1 DEF AnimatedAuto
  <2> QED
    BY <1>1, <1>8, <2>1, <2>2, OpenMovingTaken, AutoTaken
<1> QED
  BY <1>2, <1>3, <1>4, <1>5, <1>6, <1>7, <1>8, CommandTypes DEF Ops

\* The file changes, or the list learns of it: nothing of this moves.
LEMMA LibraryBuckets ==
    ASSUME Inv, BucketInv, UNCHANGED <<uiVars, results, workVars>>
    PROVE  BucketInv' /\ NotDropped
<1>1. Now = [ui |-> ui', pending |-> pending', slot |-> slot'] /\ UNCHANGED workVars
  BY DEF Now, uiVars
<1>2. BucketInv'
  BY <1>1, SameBuckets DEF BucketInv
<1>3. Coming(ui.asked)' <=> Coming(ui.asked)
  BY DEF Coming, Serves, Answers, Newest, uiVars, workVars, sessions
<1> QED
  BY <1>2, <1>3 DEF NotDropped

LEMMA InitBuckets == Init => BucketInv
<1> SUFFICES ASSUME Init PROVE BucketInv
  OBVIOUS
<1>1. Now.ui.target = NoTarget /\ NoTarget.kind = "none"
  BY DEF Init, Now, Idle, NoTarget
<1>2. ~Image(Now)
  BY <1>1 DEF Image
<1>3. Hands
  BY NoneTypes DEF Init, Hands, NoMoving
<1> QED
  BY <1>2, <1>3 DEF BucketInv, Buckets, Rests, Asking

LEMMA NextBuckets ==
    ASSUME Inv, BucketInv, [Next]_vars
    PROVE  /\ BucketInv'
           /\ \/ NotDropped /\ ui' = ui
              \/ Turned(Now, Now') /\ UNCHANGED <<results, workVars>>
              \/ Polled(Now, Now') /\ Poll
<1>1. Known
  BY DEF Inv
<1>2. ASSUME NEW b \in desk, NEW scrolled \in {FALSE, ui.target # NoTarget},
             NEW elapsed \in BOOLEAN, NEW c \in Cells(b) \cup {NoCell},
             NEW scene \in IF b \in Videos THEN Places ELSE {0},
             Frame(c, scrolled, elapsed, scene)
      PROVE  BucketInv' /\ Turned(Now, Now') /\ UNCHANGED <<results, workVars>>
  <2>1. b \in Books
    BY <1>1 DEF Known
  <2>2. c \in HoverCells /\ scrolled \in BOOLEAN /\ scene \in Spots
    BY <2>1, HoverCellTypes, PreviewAssumption DEF Spots
  <2> QED
    BY <1>2, <2>2, FrameBuckets DEF Frame
<1>3. CASE UNCHANGED vars
  BY <1>3, LibraryBuckets DEF vars, uiVars
<1>4. CASE (\E b \in desk : FileChange(b)) \/ Refresh
  BY <1>4, LibraryBuckets DEF FileChange, Refresh, uiVars
<1>5. CASE Take
  BY <1>5, TakeBuckets DEF Take
<1>6. CASE NextFrame
  BY <1>6, NextFrameBuckets DEF NextFrame, uiVars
<1>7. CASE SceneDone \/ PageDone
  BY <1>7, OthersDoneBuckets DEF SceneDone, PageDone
<1>8. CASE FrameDone
  BY <1>8, FrameDoneBuckets DEF FrameDone
<1>9. CASE Yield
  BY <1>9, YieldBuckets DEF Yield
<1>10. CASE BucketFailed \/ Publish
  BY <1>10, BucketOverBuckets DEF BucketFailed, Publish
<1>11. CASE BucketDecoded
  BY <1>11, BucketDecodedBuckets DEF BucketDecoded, uiVars
<1>12. CASE Poll
  BY <1>12, PollBuckets
<1> QED
  BY <1>2, <1>3, <1>4, <1>5, <1>6, <1>7, <1>8, <1>9, <1>10, <1>11, <1>12 DEF Next

LEMMA OnlyNamed ==
    ASSUME Inv, BucketInv, [Next]_vars, BucketLost', ~Skipped, ~Overtaken
    PROVE  BucketLost
<1>1. /\ Now.ui = ui /\ Now.pending = pending /\ Now.slot = slot
      /\ Now'.ui = ui' /\ Now'.pending = pending' /\ Now'.slot = slot'
      /\ ui.session \in Nat /\ pending \in Commands /\ Newest = Latest(Now)
      /\ BucketInv' /\ Inv'
  BY Facts, NextBuckets, NextInv
<1>2. /\ ui'.target.kind = "animated" /\ ui'.mode = "Scrub" /\ ui'.started
      /\ ui'.asked # None /\ ui'.asked # ui'.shown /\ ~Coming(ui.asked)'
  BY DEF BucketLost
<1>3. Asking(Now')
  BY <1>1, <1>2 DEF Asking, Image
<1>4. CASE NotDropped /\ ui' = ui
  BY <1>1, <1>2, <1>3, <1>4 DEF NotDropped, BucketLost, Asking, Image
<1>5. CASE Turned(Now, Now') /\ UNCHANGED <<results, workVars>>
  <2>1. ~(/\ pending'.op \in BucketOps /\ pending'.session = ui'.session
          /\ pending'.at = ui'.asked)
    <3> SUFFICES ASSUME pending'.op \in BucketOps, pending'.session = ui'.session,
                        pending'.at = ui'.asked
                 PROVE  FALSE
      OBVIOUS
    <3>1. Newest' = pending'
      BY CommandTypes DEF Newest, BucketOps
    <3>2. Serves(Newest, ui.asked)'
      BY <3>1 DEF Serves, BucketOps
    <3> QED
      BY <1>2, <3>2 DEF Coming
  <2>2. /\ Asking(Now) /\ slot' = slot
        /\ ui'.session = ui.session /\ ui'.asked = ui.asked
        /\ ui'.shown = ui.shown /\ ui'.started = ui.started
        /\ \/ pending' = pending
           \/ pending = NoCommand /\ pending'.op = "AnimatedAbandon"
    BY <1>1, <1>3, <1>5, <2>1 DEF Turned, Own
  <2>3. CASE pending' = pending
    <3>1. Coming(ui.asked) => Coming(ui.asked)'
      BY <1>5, <2>2, <2>3 DEF Coming, Serves, Answers, Newest, workVars, sessions
    <3> QED
      BY <1>1, <1>2, <2>2, <3>1 DEF BucketLost, Asking, Image
  <2>4. CASE pending = NoCommand /\ pending'.op = "AnimatedAbandon"
    <3>1. deferred = NoCommand
      BY <2>4 DEF Overtaken
    <3>2. Newest = NoCommand
      BY <2>4, <3>1 DEF Newest
    <3>3. ~Serves(Newest, ui.asked)
      BY <1>1, <3>2, CommandTypes DEF Serves
    <3>4. Coming(ui.asked) => Coming(ui.asked)'
      BY <1>5, <2>2, <3>3 DEF Coming, Answers, workVars, sessions
    <3> QED
      BY <1>1, <1>2, <2>2, <3>4 DEF BucketLost, Asking, Image
  <2> QED
    BY <2>2, <2>3, <2>4
<1>6. CASE Polled(Now, Now') /\ Poll
  <2>1. /\ Asking(Now) /\ ui.started /\ pending' = pending
        /\ ui'.session = ui.session /\ ui'.asked = ui.asked /\ ui'.shown = ui.shown
        /\ slot' = slot \/ ~(slot.session = ui.session /\ slot.at = ui.asked)
    BY <1>1, <1>2, <1>3, <1>6 DEF Polled, Own
  <2>2. Related(Now, results)
    BY <2>1 DEF BucketInv, Buckets, Asking
  <2>3. \A i \in DOMAIN results : ~Answers(results[i], ui.asked)
    BY <1>1, <2>2 DEF Related, NoneIn, Answers
  <2>4. Coming(ui.asked) => Coming(ui.asked)'
    BY <1>6, <2>1, <2>3 DEF Poll, Coming, Serves, Answers, Newest, workVars, sessions
  <2> QED
    BY <1>1, <1>2, <2>1, <2>4 DEF BucketLost, Asking, Image
<1> QED
  BY <1>4, <1>5, <1>6, NextBuckets

LEMMA BucketInvHolds == Spec => []BucketInv
<1>1. Inv /\ BucketInv /\ [Next]_vars => BucketInv'
  BY NextBuckets
<1> QED
  BY <1>1, InitBuckets, InvHolds, PTL DEF Spec

\* P3. The bucket an animated image has asked for is on its way until it is shown,
\* with the two exceptions that are named (should_skip_animated_scrub_command,
\* submit_if_idle).
THEOREM LossesNamed == Spec => OnlyNamedLosses
<1>1. Inv /\ BucketInv /\ [Next]_vars => [BucketLost' => BucketLost \/ Skipped \/ Overtaken]_vars
  BY OnlyNamed
<1> QED
  BY <1>1, InvHolds, BucketInvHolds, PTL DEF Spec, OnlyNamedLosses
=============================================================================
