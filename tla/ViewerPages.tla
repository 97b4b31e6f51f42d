----------------------------- MODULE ViewerPages -----------------------------
(***************************************************************************)
(* How the viewer turns pages: ViewerState (ui/viewer/state.rs), the input *)
(* of one frame (ui/viewer/mod.rs) and the two interactive threads of the  *)
(* page loader (infra/worker/viewer_loader.rs).                            *)
(*                                                                         *)
(* The UI thread keeps three page numbers: the one displayed, the one      *)
(* requested and the one the reader wants (target).  A view is one page or *)
(* two; its pages come from textures or decoded frames still held, or from *)
(* the loader, whose even and odd pages have a thread each, fed by a box   *)
(* that holds one message: a message sent replaces the one in the box.     *)
(* While a view loads, a page turn is queued, the last one only.           *)
(*                                                                         *)
(* Left out: sizes and quality of what is decoded (a change of quality is  *)
(* a reload), what is in the caches (a static page may be in any of them), *)
(* the frames of an animation, and the background threads (Prefetch).      *)
(***************************************************************************)
EXTENDS Integers, Sequences, FiniteSets

CONSTANTS
    N,          \* pages of the book
    Animations, \* the pages that are animations
    Portrait,   \* the pages the page map records as taller than wide
    PageMap,    \* TRUE: the page map is complete, so AUTO can be chosen
    Starts,     \* the pages the book may be opened at
    Settings,   \* the layouts it may be opened with
    Helds,      \* where the left and the right page of a view may be held
    MaxNav,     \* bound: navigations begun
    MaxErrors   \* bound: times the book cannot be opened

Found == {"texture", "frames", "nowhere"}

ASSUME PagesAssumption ==
    /\ N \in Nat \ {0}
    /\ Animations \subseteq 0 .. N - 1 /\ Portrait \subseteq 0 .. N - 1
    /\ PageMap \in BOOLEAN
    /\ Starts \subseteq 0 .. N - 1
    /\ Settings \subseteq {"single", "spread", "auto"} \X BOOLEAN
    /\ Helds \subseteq Found \X Found
    /\ MaxNav \in Nat /\ MaxErrors \in Nat

BookPages == 0 .. N - 1
NoPage == -1
Sides == {"left", "right"}
Threads == {0, 1}
ThreadOf(p) == p % 2

NoId == <<0, NoPage, "none">>
NoMsg == [id |-> NoId, kind |-> "none"]
Prune == [id |-> NoId, kind |-> "prune"]
Msg(nav, p, k) == [id |-> <<nav, p, k>>, kind |-> k]
PageOf(id) == id[2]

Blank == [page |-> NoPage, filling |-> FALSE]
Holds(p) == [page |-> p, filling |-> FALSE]
NoGroup == [page |-> NoPage, pages |-> <<NoPage, NoPage>>, ids |-> [s \in Sides |-> NoId], got |-> {}]
NoJob == [msg |-> NoMsg, looked |-> FALSE]

VARIABLES
    v,        \* the viewer's state; v.box[s] holds the message the thread of
              \* shard s has not taken
    job,      \* job[s]: the request it works on, and whether it looked back at the box
    opened,   \* the shards whose thread has the book open
    answers,  \* results sent to the UI thread, in order
    errors    \* times the book could not be opened

pagesVars == <<v, job, opened, answers, errors>>

(***************************************************************************)
(* The pages of a view.                                                    *)
(***************************************************************************)
\* build_auto_spread_plan: whether a page is the first of its unit.
Anchor(blank) ==
    LET first[p \in BookPages] ==
          \/ p = 0
          \/ ~first[p - 1]
          \/ ~({p - 1, p} \subseteq Portrait)
          \/ blank /\ p = 1
    IN  first

AutoPages(p, blank) ==
    LET first == Anchor(blank)
        a == IF first[p] THEN p ELSE p - 1
    IN  <<a, IF a + 1 \in BookPages /\ ~first[a + 1] THEN a + 1 ELSE NoPage>>

\* display_pages_for_physical_page (request_view_pages while the number of
\* pages is not known: the second page of a spread is asked for anyway).
ViewPages(w, p) ==
    IF w.count > 0 /\ p >= w.count THEN <<NoPage, NoPage>>
    ELSE CASE w.setting = "single" -> <<p, NoPage>>
           [] w.setting = "auto"   -> AutoPages(p, w.blank)
           [] w.setting = "spread" ->
                <<p, IF \/ w.blank /\ p = 0
                        \/ w.count > 0 /\ p + 1 >= w.count THEN NoPage ELSE p + 1>>

\* adopt_page_count_if_empty.
Adopted(w, n) ==
    IF w.count # 0 \/ n = 0 THEN w
    ELSE LET Within(p) == IF p < n THEN p ELSE n - 1
         IN  [w EXCEPT !.count = n, !.requested = Within(@), !.displayed = Within(@),
                       !.target = Within(@)]

(***************************************************************************)
(* Putting a view on the screen.  An operator on the viewer's state w also *)
(* carries the boxes (w.box), into which it sends.                         *)
(***************************************************************************)
\* begin_nav: the streams of the earlier view are told to end, in both boxes.
BeginNav(w) == [w EXCEPT !.nav = @ + 1, !.box = [s \in Threads |-> Prune]]

Sent(w, ps, kind) ==
    [s \in Threads |-> IF \E p \in ps : ThreadOf(p) = s
                        THEN Msg(w.nav, CHOOSE p \in ps : ThreadOf(p) = s, kind)
                        ELSE w.box[s]]

\* commit_display_contents, finalize_display_commit up to the queue.
Committed(w, pages, left, right) ==
    [w EXCEPT !.left = Holds(left), !.right = Holds(right),
              !.loading = FALSE,
              !.displayed = w.requested,
              !.mode = IF w.requested = w.target THEN "sequential" ELSE @,
              !.slides = IF @ = "waits" THEN "armed" ELSE @,
              !.stream = IF {left, right} \cap Animations # {} THEN w.requested ELSE NoPage,
              !.resume = IF pages[1] # NoPage THEN pages[1] ELSE @]

\* resolve_display_page_state: where each page of the view is found: a texture,
\* decoded frames, or nowhere.  Animations are never kept.
Places(w, ps, held) ==
    [i \in 1..2 |-> IF ps[i] = NoPage THEN "no page"
                   ELSE IF ps[i] \in Animations \/ w.count = 0 THEN "nowhere" ELSE held[i]]

\* try_apply_display_commit, try_apply_partial_display_reuse_commit: a view that needs no thread.
AllHeld(on) ==
    \/ {on[1], on[2]} \subseteq {"texture", "no page"}
    \/ {on[1], on[2]} \subseteq {"frames", "no page"}
    \/ {on[1], on[2]} = {"texture", "frames"}

\* start_partial_display_request: the result made of a page found as frames.
KeptFrames(w, ps, on) ==
    {[side |-> IF i = 1 THEN "left" ELSE "right", ok |-> TRUE, count |-> w.count,
      left |-> IF i = 1 THEN ps[1] ELSE NoPage,
      right |-> IF i = 2 THEN ps[2] ELSE NoPage] : i \in {j \in 1..2 : on[j] = "frames"}}

\* start_display_request: the pages that are not found are asked for as one
\* group, and so is a texture beside a page that is not found.
Display(w, page, held) ==
    LET ps == ViewPages(w, page)
        on == Places(w, ps, held)
        asked == {i \in 1..2 : on[i] \in {"texture", "nowhere"}}
        Id(i) == IF i \in asked THEN <<w.nav, ps[i], "display">> ELSE NoId
    IN  IF AllHeld(on)
          THEN Committed(w, ps, ps[1], ps[2])
          ELSE [w EXCEPT
                 !.box = Sent(w, {ps[i] : i \in asked}, "display"),
                 !.group = [page |-> page, pages |-> ps,
                            ids |-> [s \in Sides |-> IF s = "left" THEN Id(1) ELSE Id(2)],
                            got |-> KeptFrames(w, ps, on)]]

\* Mutant: the results of the view given up are still awaited.
StartViewKeepsGroup(w, page, held) ==
    Display([w EXCEPT !.loading = TRUE, !.error = FALSE,
                      !.slides = IF @ = "off" THEN @ ELSE "waits",
                      !.requested = page, !.target = page,
                      !.stream = NoPage, !.fills = [s \in Sides |-> NoId]], page, held)

\* start_view_request.
StartView(w, page, held) ==
    Display([w EXCEPT !.loading = TRUE, !.error = FALSE,
                      !.slides = IF @ = "off" THEN @ ELSE "waits",
                      !.requested = page, !.target = page,
                      !.stream = NoPage, !.fills = [s \in Sides |-> NoId],
                      !.group = NoGroup], page, held)

\* consume_queued_view.
Consumed(w, held) ==
    IF w.queue = NoPage THEN w
    ELSE LET w1 == [w EXCEPT !.queue = NoPage]
         IN  IF w.queue = w.requested THEN w1 ELSE StartView(w1, w.queue, held)

\* load_view and reload_current_view: the queue is left as it is, and followed
\* when the view could be shown at once.
LoadView(w, page, held, next) ==
    LET w1 == StartView(BeginNav(w), page, held)
    IN  IF w1.loading THEN w1 ELSE Consumed(w1, next)

\* request_view.
RequestView(w, page, held) ==
    LET w1 == [BeginNav(w) EXCEPT !.target = page]
    IN  IF w.loading THEN [w1 EXCEPT !.queue = page]
        ELSE StartView([w1 EXCEPT !.queue = NoPage], page, held)

(***************************************************************************)
(* Results.                                                                *)
(***************************************************************************)
\* Mutant: the page that was asked for is shown wherever the reader is by now.
OnPathAlways(w, page) == TRUE

\* result_is_on_current_navigation_path.
OnPath(w, page) ==
    IF w.target >= w.displayed THEN page \in w.displayed .. w.target
    ELSE page \in w.target .. w.displayed

\* apply_display_result: r holds what is shown left and right of the view `page`.
Applied(w, page, pages, r, held) ==
    LET w1 == Adopted(w, r.count)
        hurried == w1.mode = "latest" /\ w1.queue # NoPage /\ w1.target # w1.requested
        shown == IF hurried THEN [w1 EXCEPT !.requested = page] ELSE w1
    IN  IF ~r.ok
          THEN Consumed([w1 EXCEPT !.error = TRUE, !.loading = FALSE, !.slides = "off",
                                   !.stream = NoPage, !.fills = [s \in Sides |-> NoId]], held)
          ELSE IF hurried /\ ~OnPath(w1, page) THEN Consumed(w1, held)
          ELSE Consumed(Committed(shown, pages, r.left, r.right), held)

\* The group's results as one: what the right page's thread loaded stands on the
\* left of its result, and a page kept from before on its own side.
Merged(got) ==
    LET Of(s) == {r \in got : r.side = s}
    IN  IF Of("left") = {} THEN CHOOSE r \in got : TRUE
        ELSE LET l == CHOOSE r \in Of("left") : TRUE
             IN  IF Of("right") = {} THEN l
                 ELSE [l EXCEPT !.right = (CHOOSE r \in Of("right") : TRUE).left]

\* absorb_interactive_partial and apply_display_result: a result of the group.
Absorbed(w, a, held) ==
    LET side == CHOOSE s \in Sides : w.group.ids[s] = a.id
        got == w.group.got \cup
                 {[side |-> side, ok |-> a.ok, count |-> a.count,
                   left |-> a.page, right |-> NoPage]}
        done == \A s \in Sides : w.group.ids[s] = NoId \/ \E r \in got : r.side = s
    IN  IF done
          THEN Applied([w EXCEPT !.group = NoGroup], w.group.page, w.group.pages, Merged(got), held)
          ELSE [w EXCEPT !.group.got = got]

\* Mutant: the answer for one side ends the wait of both.
ChunkTakenForBoth(w, s, a) ==
    LET w1 == [w EXCEPT !.fills = [sd \in Sides |-> NoId]]
    IN  IF s = "left" THEN [w1 EXCEPT !.left.filling = FALSE]
        ELSE [w1 EXCEPT !.right.filling = FALSE]

\* apply_animation_stream_chunk_result: frames for the stream shown on side s.  The
\* sizes of textures do not change here, so no frame is refused for its size
\* (state.rs:6015, 6048).
ChunkTaken(w, s, a) ==
    LET w1 == [w EXCEPT !.fills[s] = NoId]
        More(c) == IF a.page = NoPage THEN c ELSE [page |-> a.page, filling |-> FALSE]
    IN  IF w.stream # w.displayed \/ w.mode = "latest" THEN w1
        ELSE IF s = "left" THEN [w1 EXCEPT !.left = More(@)] ELSE [w1 EXCEPT !.right = More(@)]

\* handle_polled_loader_result: a result that nothing waits for is dropped.
IsPending(w, id) == \E s \in Sides : w.group.ids[s] = id

Polled(w, a, held) ==
    IF IsPending(w, a.id) THEN Absorbed(w, a, held)
    ELSE IF \E s \in Sides : w.fills[s] = a.id
      THEN ChunkTaken(w, CHOOSE s \in Sides : w.fills[s] = a.id, a)
    ELSE w

(***************************************************************************)
(* The UI thread.                                                          *)
(***************************************************************************)
UI(w) == v' = w /\ UNCHANGED <<job, opened, answers, errors>>

\* ViewerState::new.
PagesInit ==
    /\ \E p \in Starts, s \in Settings :
          /\ (s[1] = "auto") => PageMap
          /\ v = [count |-> 0, displayed |-> p, requested |-> p, target |-> p,
                  setting |-> s[1], blank |-> s[2],
                  loading |-> TRUE, error |-> FALSE, initial |-> TRUE,
                  mode |-> "sequential", nav |-> 0, queue |-> NoPage, group |-> NoGroup,
                  left |-> Blank, right |-> Blank, stream |-> NoPage,
                  fills |-> [sd \in Sides |-> NoId], slides |-> "off", resume |-> NoPage,
                  box |-> [sh \in Threads |-> NoMsg]]
    /\ job = [s \in Threads |-> NoJob]
    /\ opened = {}
    /\ answers = <<>>
    /\ errors = 0

\* apply_start_page_before_initial_load: the Library's answer.
LibraryAnswers ==
    /\ v.initial
    /\ \E p \in Starts : UI([v EXCEPT !.requested = p, !.displayed = p, !.target = p])

\* start_initial_load.
InitialLoad ==
    /\ v.initial
    /\ \E h, h2 \in Helds : UI(LoadView([v EXCEPT !.initial = FALSE], v.requested, h, h2))

MayTurn == ~v.initial /\ v.nav < MaxNav

\* navigation_base_page.
Base(w) ==
    IF w.mode = "latest" THEN w.target ELSE IF w.loading THEN w.requested ELSE w.displayed

\* go_next and go_prev; NoPage: there is nowhere to go.
NextPage(w) ==
    LET ps == ViewPages(w, Base(w))
        step == IF w.count > 0 /\ ps[2] # NoPage THEN 2 ELSE 1
        ahead == {p \in BookPages : p > Base(w) /\ Anchor(w.blank)[p]}
    IN  IF w.setting = "auto"
          THEN IF ahead = {} THEN NoPage ELSE CHOOSE p \in ahead : \A q \in ahead : p <= q
          ELSE IF Base(w) + step < w.count THEN Base(w) + step ELSE NoPage

PreviousPage(w) ==
    LET ps == ViewPages(w, Base(w))
        step == IF w.count > 0 /\ ps[2] # NoPage THEN 2 ELSE 1
        start == IF w.setting = "auto" THEN AutoPages(Base(w), w.blank)[1] ELSE Base(w)
        behind == {p \in BookPages : p < start /\ Anchor(w.blank)[p]}
    IN  IF w.setting = "auto"
          THEN IF behind = {} THEN NoPage ELSE CHOOSE p \in behind : \A q \in behind : p >= q
          ELSE IF Base(w) = 0 THEN NoPage ELSE IF Base(w) > step THEN Base(w) - step ELSE 0

FirstPage(w) == IF w.target = 0 THEN NoPage ELSE 0

LastPage(w) == LET last == IF w.count = 0 THEN 0 ELSE w.count - 1
               IN  IF w.target = last THEN NoPage ELSE last

\* The page a key or the wheel asks for.
Destination(w, dir) ==
    CASE dir = "next"     -> NextPage(w)
      [] dir = "previous" -> PreviousPage(w)
      [] dir = "first"    -> FirstPage(w)
      [] dir = "last"     -> LastPage(w)

Directions == {"next", "previous", "first", "last"}

Moved(w, dir, held) ==
    LET p == Destination(w, dir)
    IN  IF p = NoPage THEN w ELSE RequestView(w, p, held)

\* A key or the wheel: two within 180 ms are a hurry (register_nav_input); when
\* the target did not move, the mode is put back.
Turn ==
    /\ MayTurn
    /\ \E dir \in Directions, h \in Helds, mode \in {"sequential", "latest"} :
          LET w == Moved([v EXCEPT !.slides = "off", !.mode = mode], dir, h)
          IN  /\ mode = "latest" => v.nav > 1
              /\ UI(IF w.target = v.target THEN [w EXCEPT !.mode = v.mode] ELSE w)

\* The slider, or the progress bar of the toolbar.
Seek ==
    /\ MayTurn
    /\ \E p \in 0 .. (IF v.count = 0 THEN 0 ELSE v.count - 1), h \in Helds :
          UI(RequestView(v, p, h))

\* toggle_spread.
ToggleSpread ==
    /\ MayTurn
    /\ \E h, h2 \in Helds :
          LET setting == CASE v.setting = "auto"   -> "single"
                           [] v.setting = "single" -> "spread"
                           [] v.setting = "spread" -> IF PageMap THEN "auto" ELSE "single"
          IN  UI(LoadView([v EXCEPT !.setting = setting], Base(v), h, h2))

\* toggle_cover_blank.
ToggleCoverBlank ==
    /\ MayTurn
    /\ \E h, h2 \in Helds : UI(LoadView([v EXCEPT !.blank = ~@], Base(v), h, h2))

\* set_quality and reload_current_view: no frame of the old quality is held.
Reload ==
    /\ MayTurn
    /\ \E h2 \in Helds : UI(LoadView(v, v.requested, <<"nowhere", "nowhere">>, h2))

Shows(w) == w.left.page # NoPage \/ w.right.page # NoPage

\* toggle_slideshow.
ToggleSlideshow ==
    /\ ~v.initial
    /\ UI([v EXCEPT !.slides = IF @ # "off" THEN "off"
                               ELSE IF v.loading \/ ~Shows(v) THEN "waits" ELSE "armed"])

\* set_slideshow_interval_secs.
SetInterval ==
    /\ ~v.initial /\ v.slides # "off"
    /\ UI([v EXCEPT !.slides = "armed"])

\* A frame starts the clock of a slide that is on the screen.
ArmSlideshow ==
    /\ v.slides = "waits" /\ ~v.loading /\ Shows(v)
    /\ UI([v EXCEPT !.slides = "armed"])

\* The clock of a slide has run out: the next one, or the end of the show.
SlideshowTick ==
    /\ v.slides = "armed" /\ MayTurn
    /\ \E h \in Helds :
          LET w == Moved([v EXCEPT !.mode = "sequential"], "next", h)
          IN  UI([w EXCEPT !.slides = IF w.target = v.target THEN "off" ELSE "waits"])

\* maybe_request_animation_stream_fill: more frames of the animations shown.
MayFill(side) ==
    /\ ~v.loading /\ v.queue = NoPage /\ v.mode # "latest"
    /\ v.stream # NoPage /\ v.stream = v.displayed
    /\ v.fills[side] = NoId
    /\ v[side].page \in Animations /\ ~v[side].filling

FillStream ==
    \E sides \in (SUBSET Sides) \ {{}} :
       /\ \A s \in sides : MayFill(s)
       /\ UI([v EXCEPT
               !.box = Sent(v, {v[s].page : s \in sides}, "fill"),
               !.fills = [s \in Sides |->
                            IF s \in sides THEN <<v.nav, v[s].page, "fill">> ELSE @[s]],
               !.left.filling = @ \/ "left" \in sides,
               !.right.filling = @ \/ "right" \in sides])

\* poll_loader.
Poll ==
    /\ answers # <<>>
    /\ \E h \in Helds : v' = Polled(v, Head(answers), h)
    /\ answers' = Tail(answers)
    /\ UNCHANGED <<job, opened, errors>>

(***************************************************************************)
(* The thread of a shard.                                                  *)
(***************************************************************************)
\* The box is emptied; a message to end streams asks for nothing else.  That a
\* request for frames of an earlier navigation is skipped (viewer_loader.rs:698) is
\* not here: within a book a thread gets its messages in the order of nav_id, the
\* latest that begin_nav has given.
TakeMsg(s) ==
    /\ job[s] = NoJob /\ v.box[s] # NoMsg
    /\ v' = [v EXCEPT !.box[s] = NoMsg]
    /\ job' = [job EXCEPT ![s].msg = IF v.box[s] = Prune THEN NoMsg ELSE v.box[s]]
    /\ UNCHANGED <<opened, answers, errors>>

\* A request that another one has followed into the box is given up.
Look(s) ==
    /\ job[s].msg # NoMsg /\ ~job[s].looked
    /\ job' = [job EXCEPT ![s] = IF v.box[s] # NoMsg THEN NoJob ELSE [@ EXCEPT !.looked = TRUE]]
    /\ UNCHANGED <<v, opened, answers, errors>>

\* Mutant: a result that a newer request has overtaken is thrown away.
FinishUnlessOvertaken(s) ==
    /\ job[s].looked
    /\ job' = [job EXCEPT ![s] = NoJob]
    /\ answers' = IF v.box[s] # NoMsg THEN answers
                  ELSE Append(answers, [id |-> job[s].msg.id, page |-> PageOf(job[s].msg.id),
                                        ok |-> TRUE, count |-> N])
    /\ opened' = opened \cup {s}
    /\ UNCHANGED <<v, errors>>

\* process_request: the page asked for, or none past the end of the book.
FinishJob(s) ==
    LET id == job[s].msg.id
        Answer(p, ok, n) == Append(answers, [id |-> id, page |-> p, ok |-> ok, count |-> n])
    IN  /\ job[s].looked
        /\ job' = [job EXCEPT ![s] = NoJob]
        /\ \/ /\ answers' = Answer(IF PageOf(id) < N THEN PageOf(id) ELSE NoPage, TRUE, N)
              /\ opened' = opened \cup {s}
              /\ UNCHANGED errors
           \/ /\ s \notin opened /\ errors < MaxErrors
              /\ answers' = Answer(NoPage, FALSE, 0)
              /\ errors' = errors + 1
              /\ UNCHANGED opened
        /\ UNCHANGED v

PagesNext ==
    \/ LibraryAnswers \/ InitialLoad \/ Turn \/ Seek \/ ToggleSpread \/ ToggleCoverBlank
    \/ Reload \/ ToggleSlideshow \/ SetInterval \/ ArmSlideshow \/ SlideshowTick
    \/ FillStream \/ Poll
    \/ \E s \in Threads : TakeMsg(s) \/ Look(s) \/ FinishJob(s)

PagesSpec == PagesInit /\ [][PagesNext]_pagesVars

(***************************************************************************)
(* Properties.                                                             *)
(***************************************************************************)
\* When nothing loads and nothing failed, the screen shows the page the viewer
\* counts as displayed and no other, reading resumes at it, and it is the page the
\* reader asked for: no page turn is left in the queue.
IdleShowsView ==
    ~v.initial /\ ~v.loading /\ ~v.error =>
        LET ps == ViewPages(v, v.displayed)
        IN  /\ v.left.page = ps[1]
            /\ v.right.page \in {ps[2], NoPage}
            /\ v.resume = ps[1]
            /\ v.target = v.displayed /\ v.queue = NoPage

\* A result that is awaited can still come.
OnItsWay(id) ==
    \/ \E s \in Threads :
          \/ v.box[s].id = id
          \/ job[s].msg.id = id /\ (job[s].looked \/ v.box[s] = NoMsg)
    \/ \E k \in DOMAIN answers : answers[k].id = id

Answerable ==
    \/ v.initial
    \/ /\ v.group # NoGroup
       /\ \A s \in Sides : \/ v.group.ids[s] = NoId
                           \/ \E r \in v.group.got : r.side = s
                           \/ OnItsWay(v.group.ids[s])

\* Nothing but a page turn makes the viewer wait for a result that cannot come.
OnlyATurnLoses ==
    [][v.loading /\ Answerable /\ v'.loading /\ v'.nav = v.nav => Answerable']_pagesVars

\* A page shown on the way, while the reader hurries on, lies between the page
\* displayed before and the one they want.
ApproachesTarget ==
    [][LET hurries == v.mode = "latest" /\ v.queue # NoPage /\ v.queue = v.target
           path == IF v.target >= v.displayed THEN v.displayed .. v.target
                   ELSE v.target .. v.displayed
       IN  hurries /\ v'.nav = v.nav => v'.displayed \in path]_pagesVars

\* An animation on the screen that waits for frames will get an answer.
StreamWaits ==
    ~v.loading /\ v.stream # NoPage =>
        \A s \in Sides : v[s].filling => v.fills[s] # NoId /\ OnItsWay(v.fills[s])

=============================================================================
