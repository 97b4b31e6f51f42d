# CBZ Tools Viewer: a TLA+ model of its concurrent core

This directory holds TLA+ modules about CBZ Tools Viewer, the TLC configurations
that check them, and proofs for TLAPS. It is read beside the source: every
definition that stands for code names the lines it stands for in `PROJECT.json`
("map").

## The system

The program is one executable in two roles. The **Library** process shows a folder
as a grid of books and videos, makes their thumbnails and page maps in the
background and keeps them in disk caches. For each opened book it starts a
**Viewer** process, which reads, decodes and shows pages. The two talk over a pipe.
A **launcher** unpacks the program and starts it. Several Library processes may run
at once.

| Component | State it keeps | Operations | Talks to |
|---|---|---|---|
| Thumbnail lanes and display mailbox (`infra/worker/thumb_worker.rs`) | per lane: pending, waiting and running counters, completion credit; `start_pending`; the global goal; a semaphore; the mailbox | submit, replace, remove, ask for a permit, start, finish, reset, shut down | UI thread and scheduler thread (submit), three loops on a current-thread runtime |
| Thumbnail results and caches (`thumb_worker.rs`, `infra/cache/*`) | the three generations, in-flight set, pruned revisions, memory cache, disk caches, `artifact_gate` | request, look up, decode, answer, write behind, prune, clear, remove | UI (channel), page-map coordinator, disk |
| Page-map coordinator (`infra/page_map/coordinator.rs`) | slow states by task key, one build permit | fast, ready, complete, mark failure, clear | worker, disk caches, UI (status) |
| Background scheduler (`thumb_worker.rs`) | job list, credit, visible ids | replace, set visible, clear | UI, worker channels |
| Preview worker (`thumb_worker.rs`) | one pending command, sessions | submit, scrub, abandon | UI |
| CBZ rebuild (`infra/archive/cbz_rebuild*.rs`) | files of a directory, plan, outcome | plan, prepare, validate, finalize, roll back | Library UI, Viewer (asks for it) |
| Viewer page streaming (`ui/viewer/worker_manager.rs`, `streaming_cache.rs`) | last snapshot, requests under way, slot per worker, marks; the L2 page cache | take a snapshot, plan, dispatch, admit or drop what was decoded, evict | Viewer state (commands, cache), loader |
| Viewer loader (`infra/worker/viewer_loader.rs`) | one-place mailbox per worker, result channels, open books of the workers | request, replace, decode, prune, shut down | Viewer state, page streaming |
| Viewer state (`ui/viewer/state.rs`) | page, spread plan, delete range | next, previous, jump, toggle | loader, caches |
| Viewer caches (`ui/viewer/working_set.rs`, `gpu_*`) | textures with budgets | insert, evict, warm up | loader, GPU |
| IPC (`infra/ipc.rs`, `app/viewer_ops.rs`, `app/viewer_app.rs`) | request ids, children, pending confirmations | send, answer, retry, detach | both processes |
| Library loading (`ui/library.rs`, `infra/library_watch.rs`) | load generation, entries, watcher | load, scan, differential scan | scanner thread, watcher thread, thumbnail worker |
| File operations (`app/file_ops.rs`) | selection, undo of names | delete, rename, move, clear book data | Library, caches |
| External tools (`infra/worker/external_tool_worker.rs`) | queue, child | run | UI |
| Stores (`infra/*_store.rs`, `infra/config_io.rs`, `session.rs`) | files | load, save | Library processes |
| Launcher (`launcher/`) | payload directory | extract, start | file system |

### What is hard here, and what makes each part correct

* **Lanes.** Three loops, their jobs, the UI thread and the scheduler thread share
  counters of type `usize`. A decrement too many wraps and bars a lane for ever; a
  wake-up between a look and an await is lost; a credit that outlives its lane shuts
  the other one out. Correct: every counter counts what its name says, no lost
  wake-up, credits bounded and justified, starts only under the goal, neither lane
  starves, and no loop is left waiting for the other lane when the library closes.
* **Artifacts.** Work is answered long before it is written; meanwhile the book's
  file is replaced, or the user leaves the folder or clears caches. Correct: a clear, a
  removal or a pruning is never undone by late work, and what is filed under a
  revision was made from it.
* **The grid's thumbnails.** A set of keys, replaced as a whole, is the only request; a
  register of running tasks suppresses repetitions; results of an older folder, file
  or request arrive late. Correct: a texture is of the revision the list knows, and an
  entry the grid waits for is on its way.
* **Previews.** One slot holds the newest command, nothing is acknowledged, and the
  pointer moves on. Correct: no picture of another file or place, and what the
  interface waits for will come.
* **Rebuild.** Three renames that may fail or be cut off by a kill, under names
  shared by several processes. Correct: no page is lost that was not to be deleted, no
  file is overwritten, reports tell the truth.
* **Page streaming.** The manager plans against a snapshot of the view and a cache that
  both change while its requests are under way; it forgets requests it cannot take
  back, and the workers' mailboxes replace what they hold. Correct: no awaited request
  is lost, nothing is decoded twice or evicted for something worse, the cache keeps
  its limit, and a reader who stays somewhere finds the pages around decoded.
* **Turning pages.** Three page numbers, two threads with boxes of one message, and a
  prune that may overtake a request. Correct: when nothing loads the screen shows the
  page displayed and it is the one wanted; a hurry only shows pages on its way.
* **Reading ahead.** Textures a page a frame, for a frame somebody must ask for;
  threads for the neighbours under a budget. Correct: nothing that could be prepared
  is left for a frame nobody asked for, but in the cases `Awake` names; the nearer page wins; a
  prepared neighbour opens at once.
* **Library and Viewer.** Answers come after newer questions, the pipe breaks between
  an action and its answer, events are handled later than they were recorded. Correct:
  nothing awaited is lost, only the book the dialog named is deleted, the selection follows.
* **The list of a folder.** Loads, scans, reloads and the watcher overtake each other;
  a selection and a dialog hold positions. Correct: no visible change is lost, the selection
  stays on its books, the list settles.
* **Stores.** Processes write whole files from copies they read earlier. Correct: a record
  is lost only to a stale copy, and what is shown, told and left behind is right but for that.

The full list of hazards, each at its line, is `PROJECT.json` "hazards"; one that
no property covers says why.

## The modules

| Module | Models | Used by |
|---|---|---|
| `ThumbLanes` | lanes, mailbox, `acquire_thumbnail_permit`, the normal, display and video loops | `MCThumbLanes`, `WorkerProofs` |
| `Artifacts` | thumbnail worker results, generations, gate, caches, page-map coordinator | `MCArtifacts`, `WorkerProofs` |
| `ThumbDisplay` | the grid's requests, mailbox, queues, running tasks, scheduler, results | `MCThumbDisplay`, `LibraryProofs` |
| `Preview` | the preview slot, sessions, answers and the interface that waits for them | `MCPreview`, `PreviewProofs` |
| `BookStore` | abstract: a book loses confirmed pages, all at once, or nothing | `CbzRebuild` |
| `CbzRebuild` | the rebuild transaction, one action per file operation | `MCCbzRebuild`, `CbzRebuildProofs` |
| `StreamingCache` | operators: order of pages, planner, admission, evictions of the L2 cache | `Prefetch`, `Textures` |
| `Prefetch` | UI snapshots, the manager's loop, mailboxes and background workers | `MCPrefetch`, `ViewerProofs` |
| `ViewerPages` | page turning, the interactive threads, animation streams | `MCViewerPages`, `ViewerProofs` |
| `Textures` | texture history, warm-up cache, frames | `ReadAhead`, `ReadAheadProofs` |
| `Spad` | pages of the neighbouring books, their budgets and threads | `ReadAhead`, `ReadAheadProofs` |
| `ReadAhead` | the two composed: read a book, go to its neighbour, show it | `MCReadAhead`, `ReadAheadProofs` |
| `NavOrder` | operators: the book before and after, in three orders | `ViewerIpc` |
| `ViewerIpc` | a Viewer's two threads, the pipe, the Library's two threads | `MCViewerIpc`, `ViewerIpcProofs` |
| `LibraryList` | loads, scans, watcher, reload, selection and dialogs | `MCLibraryList`, `LibraryProofs` |
| `Stores` | `book_state.json`, favourites and groups with all their writers | `MCStores`, `StoresProofs` |

An `MC` module gives the constants their values; a `...Proofs` module holds theorems.

### ThumbLanes

State: `pending`, `waiting`, `running`, `credit`, `startPending`, `goal` are the fields
of `ThumbnailLaneState`; `permits` is the semaphore; `mailbox` the length of the
display mailbox, `replacing` that the UI thread is between the two halves of
`replace()`; `pc` says where each loop is in `acquire_thumbnail_permit` or after it;
`woken` whether its `Notify` fired since its last look; `fresh` and `behind` are the
run queue of the runtime as far as the order of a woken loop and newly spawned jobs
matters.

The loops and jobs run on **one** current-thread runtime, so between two awaits only
the UI and scheduler threads interleave. `ThreadFree` states it, and it is why
`may_start` and `try_started` of two loops never overlap while the goal, which the
UI thread sets, can change between them (`Start` and `StartRefused`). The display
loop takes its task after it owns a permit and may find the mailbox emptied
(`DisplayGiveBack`).

`Accounting` ties every counter to the things it counts. `PriorityJustified` says that
credit and mark mean what the code takes them for (credit is bounded and belongs to
a lane with a backlog, `start_pending` to a lane that was held back); `NoLostWakeup`
that a sleeping loop would not start if it looked. `NobodyWaitsForNobody` goes on to the state in
which everything sleeps (`AtRest`), while requests are served as well as while the library closes: no
loop is then inside `acquire_thumbnail_permit`. `Leftovers` is its one exception, a video loop that has read
its `Shutdown` with requests left in the background channel. The exception is needed: without it TLC finds
the normal loop barred for ever by credits of the lane that has stopped.

Fairness (`Fairness`): the runtime polls its queue in FIFO order, hence strong
fairness of each loop's step and of each lane's jobs; an ordinary job
ends as far as the lanes can tell, because it gives its permit back after 15 s; that
the decoding of a video ends is assumed, nothing in the code bounds it; the user need do nothing except finish a call begun.
Liveness is stated for loads served from some point on (`Served`): a lane that only
drops requests keeps its priority by design.

### Artifacts

A `job` is one thumbnail request with all that follows from it, from the display
mailbox, the worker's inbox or the scheduler to its last write. Its fields are those
of `ThumbTask` and of the deferred requests: the revision asked for, the three
generations it remembers, `bypass_cache`, and `content`, the revision the bytes were
read from. Revisions are numbers: `source[b]` counts how often the file was replaced.
(A file with the old size and time but new content is outside the model, as it is
outside what the program can notice.)

The gate is a readers-writer lock: a reader is a job in one of the places `InGate`,
between its last check and its write; a writer (`ClearDisk`, `RemoveDisk`, `Prune`)
is one step that needs `GateFree`. Counters are raised *before* the gate is asked
for, exactly as in `clear_cache_state` and `remove_worker_book_cache`, so a check that
passed in the gate can be followed by the raise and then by the write, but the files are
deleted only after it.

`cleared`, `removed` and `floor` are history: what the last clear, removal or pruning
promised. `born` is history too: the cache clears before the request.

The properties are about the disk caches. What the caches in memory may still answer
is listed under "Where the code and its documents differ".

### CbzRebuild and BookStore

One directory with a.rar and a.cbz (whose rebuilds share the temporary and the output
name), several Library processes, each at one file operation (`pc`). Every operation
may fail (`MaxFaults`), every process may be killed at any step (`Crash`; what it
made stays). `Path::exists` answers FALSE on an error, `symlink_metadata` reports it. The
user may clean up leftovers while no rebuild is running.

`RefinesBookStore` maps a book to the pages all its complete archives still have, and
shows the transaction implements `BookStore`: whatever fails, a book is in its
old or its new state. `TrueToItsReport` is about the report: rolled back or not
committed means the book is there under its own name as the user chose it, and a
report of success means what was selected is what the archive has.

### Prefetch and StreamingCache

`StreamingCache` has no state: `DesiredSequence` is the policy, `Plan`,
`EvictCandidates` and `Admission` are the planner, `EvictToBudget`, `InsertEntry` and
`TouchEntry` the cache, a sequence of entries in the order of use. `PolicyOrder` compares
`DesiredSequence` with the closed form of the order that is meant (`OrderAsMeant`); the rest is checked
through `Prefetch`.

In `Prefetch` the UI thread replaces `view` (`Act`), sends it with a frame (`Publish`)
and takes pages from the cache (`LookUp`). `phase` says where the loop of
`worker_manager_loop` is: it takes all commands (`Update`), then results one by one
(`Handle`), after each at most one command, then a pump if the result was used
(`Refill`). `Update` and `Refill` contain `pump_background_work`, `Handle` all of
`handle_background_result_streaming`; each is one step, since nothing but the cache,
under its lock, is shared meanwhile. `slots` is `prefetch_inflight_pages_by_shard`,
`pending` the mailboxes (`SharedQueue`), `working` and `results` the workers and their
channel.

A render condition stands for quality, texture limit, display area, spread setting and
cover together, and gives every page a signature, of which only the width is kept.
Request ids are counted up by the code; the model takes the least that nothing
mentions, which keeps the state space finite and is no different as long as ids are
compared only for equality.

`RequestsKept` is about the mailboxes; `CacheSound` (the limit kept, no page twice, none
decoded that is there) and `Evictions` relate cache, requests under way and the order
of pages at that moment; `WantedDecoded` says that dropped, forgotten and late results
never leave the pump asleep.

Fairness (`FairSpec`): a frame that was asked for is drawn, and each worker and the
manager's thread run. For the manager `WF` is written with its guard in place of
ENABLED; `TypeOK` says that a free id, the only other condition, always exists.

### ThumbDisplay

One action per frame phase, per loop and per message. The grid asks for images with a
replaceable set of tasks (`mailbox`, whose order the layout decides and the model leaves open) and
for videos with a "requested" mark; `flights` are the running tasks, each with its entry in the
register that suppresses repetitions. A thumbnail is the revision it was asked for. egui draws
two frames for one request to repaint; the model draws one, the worse case for requests made once.

`TextureOfSnapshot`: a texture or a failure on the grid is of the revision the list
knows. `OnlyNamedLosses`: what the grid waits for is asked for, running or answered,
and stops being so in three ways only, each a design decision of the code: a `Clear` handled
late, a task superseded while its entry is in the register, and a task of the scheduler that ends
while its entry is off screen.

### Preview

The interface (`ui`), the one-place command slot (`pending`), the worker with its
deferred command and its three sessions, and two ways back: a queue for videos, a slot for the
rest. A picture is named by file, revision and place.

`PictureOfTarget`: what is shown is of the target. `Awaited`: what the interface waits for is in
the slot, deferred, worked on or answered, for a video and a book. For an animated image
`OnlyNamedLosses` names the two exceptions: a request `Skipped` because the worker takes its bucket
for shown, while the answer was dropped, and one `Overtaken` by an abandonment while it is deferred. `NothingHeldOpen`: a worker at rest keeps no session open that the interface has left.

### ViewerIpc and NavOrder

The Viewer's window thread (`viewer`) queues requests, its I/O thread (`io`) sends one at
a time and waits for the answer; the Library's thread of the pipe (`server`) answers some
by itself, leaves `events` for the window thread (`library`) and waits for its word
where the code does. The pipe may break between any two steps. Books are numbers in the order of
names; `NavOrder` finds the neighbour of a book in the published order, the order
before, or the directory's listing, as `viewer_ops.rs` does.

`AwaitedIsOnTheWay`: a request the Viewer has marked as pending is in a queue, in the
pipe, with the server or its answer is on the way, or the loss of the pipe is.
`DeletesOnlyWhatWasAsked`: only the book the dialog was opened for is removed.
`SelectionFollows`: once the events are drained the Library selects the book it last sent the
Viewer to, or none when its list does not show it; a rebuild of the book moves the selection
while its answer is awaited. `NavigationIsAnswered`: a request for
another book, or for a deletion, does not stay pending. Weak fairness is assumed of the threads
and of the frames of both windows, which the code draws while messages are pending; not of the user.

### LibraryList

The folder on `disk`, the list in two forms (`raw` as known, `list` as shown), threads of
loads and scans, and the watcher with its dirty flag. `StaleListNoticed`: when the list
differs from the folder in a way that could be seen, a look is due. `SelectionSurvivesScan`: a scan
keeps the selection on its books. `ListSettles`: when the folder stays as it is the list becomes
like it. Dialogs hold positions (`dialog`); what that costs is told below. Weak fairness is
assumed of polling, which every frame does, and of the threads.

### ViewerPages

`v` is the state of `ViewerState`: the page displayed, requested and wanted, the
view that loads, the queue of one turn, the two boxes and what each thread is at. A page of a
view may be held as texture or frames (`Helds`), or comes from the loader.

`IdleShowsView`: when nothing loads and nothing failed, the screen shows the page displayed
and no other, it is the page wanted, no turn is queued, and reading resumes there.
`StreamWaits`: an animation on the screen that waits for frames will get an answer.
`OnlyATurnLoses`: nothing but a page turn makes a loading view wait for a result that cannot
come (that a turn does is told below). `ApproachesTarget`: while the reader hurries on, a page
shown on the way lies between the one displayed before and the one wanted.

### Textures, Spad and ReadAhead

`Textures` is a Viewer's frame: show or ask for a view, then `WarmUp`, then `Upload`
one page; `ready` is what L2 holds. `Spad` are the targets beside the book, their budgets
and their two threads. `ReadAhead` composes them: in mode "reading" `Spad` runs, `Reopen`
hands its pages to the textures, then the book is "opening" and "opened".

`Awake`: nothing that could be prepared, neither a neighbour's page nor a texture, waits for a
frame nobody asked for, but in four cases. A neighbour's pages wait behind a gate that has
moved since the last frame, none being asked for (`OpenedUnseen`: the manager asks for its frame before
it settles the status that opens the gate, or not at all, see below). One page of a neighbour is
skipped by the code (`OneTooMany`, see below). And two frames may go to sleep over a texture (`dozed`). The frame of a commit uploads
nothing and asks for another only if more than one page is to be uploaded. And `plan_gpu_warmup`
counts the pages left to upload (`pending_uploads`) while the pages its upload replaces are still
in its list: nearer pages may be uploaded, with room left afterwards for one that was replaced,
and no frame comes to fill it (`MayFitAgain`: several were replaced and not all had to go, or
L2 has the page in fewer bytes by now). The next frame, whatever draws it, uploads that page.
`NearerWins`: what a frame takes from the warm-up cache though it is still wanted makes room for a
nearer page, no more goes than that page needs, the farthest first.
`OpensReady`: a neighbour SPAD has prepared undisturbed opens without loading. Undisturbed
(`WellPrepared`) means: SPAD is at rest and the layout has not changed; the page the book opens at
is the one it began with and the first of its view; no page of that view failed; the width it
decoded for suits the view; and what is handed over (`Handover`) fits the warm-up cache.

### Stores

`disk` is `book_state.json`, a record per path; a Library thread reads all, changes one record
and writes all, in two steps, so the threads of the pipes (`thread`), the window thread (`ui`)
and the Viewers' own copies (`viewer`) overlap. `favs` and `groups` are the other two files. What
the changes made one after the other should have come to is history (`due`), and so is what
became of each session; `late` and `off` name the paths of which less is claimed.

A session whose status is the record's rewrites the whole file all the same when the page to resume at or
the number of pages has changed (`moved` in `SessionWrites`), and so spreads what else its copy holds.
`RecordKept`: the records in the file are those the changes should have come to; a stale copy
loses others, and `due` follows it only where a copy was stale or a read or write failed.
`HudAgrees`: at rest the Library shows the status in the file. `ToldOnce`: a session is told at
most once, and every one that ended is told, unless its Viewer gave up or was killed.
`NothingLeftBehind`: a path without a book has no record, favourite or group at rest, and a
favourite in memory is one in the file.

## The runs

| Run | Config | Shows | Bounds, and why they are enough |
|---|---|---|---|
| `lanes_safety` | `LanesSafety.cfg` | `Accounting`, `PriorityJustified`, `NoLostWakeup`, `NobodyWaitsForNobody` | goal 3 leaves room for one lane to run two jobs while the other waits; both image sources and the background video channel, which is the one the video loop can leave requests in when it stops; a mailbox of 2; one control message; the library may be closed at any time |
| `lanes_live` | `LanesLive.cfg` | `LanesServed` | goal 2 is the smallest the program uses, and the tightest for starvation; the display mailbox and the visible video channel, a request in each |
| `rebuild` | `Rebuild.cfg` | `TrueToItsReport`, `RefinesBookStore` | two processes, two books, two faults (one for the operation, one for its rollback), any number of kills; the processes are symmetric |
| `artifacts` | `Artifacts.cfg` | `ClearedIsGone`, `RemovedIsGone`, `PrunedIsGone`, `FiledUnderItsRevision` | one book (books share nothing but the build permit and the counters of the folder), two requests, two events: an old and a new one, with a change before and one between; requests are symmetric |
| `thumb_display` | `ThumbDisplay.cfg` | `TextureOfSnapshot`, `OnlyNamedLosses` | a folder of one video with two events (file change, load, clear) and one of a book with one: the two kinds take different ways; two commands for the scheduler; a frame takes all results (`MaxLeft` = 0, the theorems are for any number left to the next) |
| `preview` | `Preview.cfg` | `PictureOfTarget`, `Awaited`, `NothingHeldOpen`, `OnlyNamedLosses` | three desks (a video, a book and an animated image, one file in each; two kinds side by side are only in the theorems), two places, three sessions: one shown, one overtaken, one after it; a change of each file, one frame |
| `prefetch` | `Prefetch.cfg` | `RequestsKept`, `CacheSound`, `PolicyOrder`, `Evictions`, `WantedDecoded` | four pages and two workers: each has a page in its slot and one waiting; three events of the reader: one under way, one that resets it, one back; limits with room for all, for half, and for less than one page; the order of pages for books of 1, 2, 7 and 14 pages (bursts of one up to 12 pages ahead, of two with 14 pages) |
| `viewer_pages` | `ViewerPages.cfg` | `IdleShowsView`, `StreamWaits`, `OnlyATurnLoses`, `ApproachesTarget` | three pages, two of them animations and portraits: a spread and a page alone; single pages, and AUTO with a blank first; four navigations: one loading, one queued, one replacing it, one back; one failure to open |
| `read_ahead` | `ReadAhead.cfg` | `Awake`, `NearerWins`, `OpensReady` | four pages, the last of half the area of the others; single pages and spreads; five neighbourhoods (known and unknown page counts, an entry page at the end, a count that is one too high); room for one page of history at full width or two in a spread, and half as much again ahead: a page can replace two and leave room for one of them; one turn |
| `viewer_ipc` | `ViewerIpc.cfg` | `AwaitedIsOnTheWay`, `DeletesOnlyWhatWasAsked`, `SelectionFollows`, `NavigationIsAnswered` | two books, in the order of names or with only the second shown; three requests, one of them for a filter, a preview or a tool: a question, a newer one, and one after the answer |
| `library` | `LibraryList.cfg` | `StaleListNoticed`, `SelectionSurvivesScan`, `ListSettles` | two files in one folder and one in another; a filter that hides one; two acts of the user, one change from outside, one scan or watch that fails |
| `stores` | `Stores.cfg` | `RecordKept`, `HudAgrees`, `ToldOnce`, `NothingLeftBehind` | two symmetric Viewers, three paths (two books, room to rename), two sessions, one event: two writers overlap with one change or one failure |

Deadlock is checked in `rebuild` and `viewer_pages`, whose systems can go on
for ever. In the others the budget of events runs out, all work gets done, or the
library is closed, and then nothing is left to do; what it means for the lanes to stop rightly is
`NobodyWaitsForNobody`. Symmetry is used for
safety only: `Rebuild.cfg` has `RefinesBookStore`, whose abstract specification has no
fairness. Every property of a run has a mutant (`PROJECT.json` "mutants"): a plausible
slip in the code, kept as an operator beside the definition it replaces, that makes
the property fail.

## Where the code and its documents differ

Met while the modules were written. The models do what the code does; no run is kept
for these, and the properties above are stated so that they hold with them.

* `thumb_worker.rs:3284`: the video loop breaks at Shutdown and drops the requests of its
  background channel without retiring them, though
  `docs/dev/thumbnail_page_map_design.md:266-289` says pending requests are retired on every
  path. The last video job then earns a credit for a lane that starts nothing any more, the normal loop
  is refused by it and never comes to its own `Shutdown`, and `worker_main`, which waits for both, does
  not return. It is the exception `Leftovers` of `NobodyWaitsForNobody`, which TLC violates without it;
  with it the property is proved, so that closing gets stuck in no other way.
* `worker_manager.rs:981`: the frame for a result is asked for before `update_l2_streaming_status`
  says that the cache has settled, and the other ends of a result (913, 954, 1137, 1156) ask for none, though
  `docs/dev/Spad.md:155` has SPAD go on when the cache is ready. The gate may so open with no frame
  after it, and SPAD sleeps until one is drawn for something else. It is the exception `OpenedUnseen` of `Awake`.
* `thumb_worker.rs:4033`: on an HDD the goal is `min(2)`; the same document, line 221, has
  `max(1, base_goal / 2)`.
* `cbz_rebuild.rs:55`: a temporary archive left by a failed rebuild bars every later one
  until the user deletes it; `docs/operation.md:246` says one can retry.
* `thumb_worker.rs:4949`: a thumbnail in memory carries no revision and may answer a newer
  request (comment at 4860). `thumb_worker.rs:1359`: a late `ClearPending` also drops the
  reservations of the new folder, so a page map may be built twice (`coordinator.rs:117`).
* `streaming_cache.rs:386`: with less room left than any missing page needs, the planner sees a
  cache that is not full and the completion sees no room, and a page is decoded and dropped
  again and again (`docs/dev/SimpleStreaming.md:216`).
* `viewer_app.rs:893`: a second request replaces the first, whose answer is ignored though the
  Library has gone on: its current book may be ahead of the Viewer's (`docs/dev/ipc_contract.md:93`).
* `state.rs:6537` with `viewer_loader.rs:408-423`: a turn while a view loads sends a prune
  that may replace the request of that view, which then loads until the next turn.
* `state.rs:3758` with `3833`: the number of pages recorded of a book is one too high and the book
  would open at its last page. SPAD asks for that page first; if the archive fails to open just then,
  it goes on to the page before, which comes with the true number. The schedule made anew for that
  number begins with page 0, `next_dispatch_index` starts at 0 and is raised for the page that has
  come, and page 0 is passed over. `OneTooMany` names the case. TLC had not met it, since no
  neighbour of the run had such a number; the proof of `SpadAwakeHolds` stopped at it.
* `library.rs:3435`: the answer for a superseded preview bucket acknowledges the bucket though
  its picture is dropped, against the comment at 411.
* `archive_settings.rs:346`: a Viewer writes the copy of `book_state.json` it read at its start,
  and with it old reading states of other books (`docs/operation.md:157`).
* `file_ops.rs:160`: the delete and rename dialogs hold positions, and the list may be replaced
  under them (`docs/operation.md:95`).
* Smaller ones: overrides of groups are stored under the normalised path and removed by the raw one
  (`app/mod.rs:1275`, `1000`); an answered session request unsent at exit is lost; SPAD prepares page 0
  of a book whose start page is beyond its end, and a budget once found `exhausted` is not tried
  again when the layout gives more; pages promoted in ascending order into an LRU evict
  the entry page first when they exceed the limit; the five percent tolerance of a width adds up
  when a texture is relabelled.

## The proofs

The proofs hold for every value of the constants, under the assumption each module names
(`ThumbLanes`: 2 to 8 permits, the goals the program can choose; the others: bounds are
natural numbers, there is a worker, a snapshot has a render condition and a limit, None is not a value,
no order of the list names a book twice, no page is larger than the area it is drawn on, a view is
of pages of the book, sizes of textures are numbers, and the like). So they cover any number of whatever a
module has as a constant (books, processes, pages, Viewers, requests, sessions, events, failures), where a run has
two or three. What is fixed in a module is fixed in its theorems: of the lanes there are two, with three
loops, of a Viewer's shards two. Each module begins with what is proved in it;
each invariant was checked by TLC on the instance of the run before it was proved.

| Module | Theorems | Inductive invariant |
|---|---|---|
| `WorkerProofs` | of the lanes `TypeCorrect`, `AccountingCorrect`, `SemaphoreCorrect`, `PriorityCorrect`, `StartsUnderGoalCorrect`, `NoLostWakeupCorrect`, `NobodyWaitsCorrect`; of artifacts `ArtifactsTypeCorrect`, `ArtifactsCorrect`, `ClearedCorrect`, `RemovedCorrect`, `PrunedCorrect`, `FiledCorrect` | `Inv`, `LaneInv`, `Awake`; `FilesInv`, `InboxInv` |
| `CbzRebuildProofs` | `ReportIsTrue`, `RebuildImplementsBookStore` | `Inv` |
| `ViewerProofs` | `RequestsKeptHolds`, `CacheSoundHolds`, `EvictionsHold`, `PolicyOrderHolds`, `ShowsViewHolds`, `StreamWaitsHolds`, `OnlyATurnLosesHolds`, `ApproachesTargetHolds` | `Inv`, `CacheInv`, `PagesInv` |
| `ReadAheadProofs` | `SpadAwakeHolds`, `AwakeHolds`, `NearerWinsHolds`, `OpensReadyHolds` | `SpadInv`, `TextureInv`, `ReadAheadInv` |
| `LibraryProofs` | `TextureCorrect`, `LossesNamed`, `StaleNoticedCorrect`, `SelectionSurvives` | `Inv`, `WaitInv`, `LookInv`, `SelInv` |
| `PreviewProofs` | `PictureCorrect`, `AwaitedCorrect`, `ClosedCorrect`, `LossesNamed` | `Inv`, `BucketInv` |
| `ViewerIpcProofs` | `DeletionCorrect`, `AwaitedCorrect`, `SelectionCorrect` | `Shapes`, `Numbered`, `AskedIsShown`, `Pipe`, `Tracked`, `Sync` |
| `StoresProofs` | `RecordsCorrect`, `HudCorrect`, `ToldCorrect`, `LeavingsCorrect` | `Inv` |

**WorkerProofs.** The Library's work in the background: the lanes first, then what its tasks leave on the
disk; the two share nothing. For the lanes, `Inv == TypeOK /\ Accounting /\ EmptiedFirst` is inductive. Types alone
are not: that `pending` does not fall below zero when a request is retired follows
from `Accounting`, which says that it equals the requests counted in it.
`Accounting` needs `EmptiedFirst` (while the display set is being replaced the
mailbox is empty), or the second half of `replace` would count requests twice. `LaneInv`
(credit and mark) is inductive relative to `Inv`; each operation of `ThumbnailLaneState` has
a lemma and each action is one of them. `StartsUnderGoal` is about steps: only
`try_started` raises the sum of what runs, and it compares with the goal in the same step.
`NoLostWakeup` is about loops at rest, and rests on what is so when they are not (`Awake`): at
most one loop is at work between two awaits (`OneAtWork`), looking
again would mark no starved lane that is not marked (`MarkIsFresh`), a loop that waits for a permit
and has not been told may not start (`SleeperBarred`), and one that waits for the mailbox, or goes
back to it, has been told when the mailbox is empty (`MailAwaited`). The theorem is about the two lanes and
three loops the code has, whatever the goal, the queues and the number of jobs.
`NobodyWaitsForNobody` follows from the same invariants and from one more: a loop that has stopped has left
nothing in the channel its `Shutdown` came through, nor in the mailbox (`EmptyAtStop`). At rest no lane runs
anything, so no start is owed and there is room under the goal (`RestingLanes`): a loop that waits
is barred by credits of the other lane, and its own lane has none (`RestingWaiter`). So none of the other
lane's loops waits, but its credits mean a backlog (`PriorityJustified`), which by `Accounting`
is in a channel or in the mailbox. A loop that could read it would not rest (`RestingMail`), so it has stopped,
and what it left are `Leftovers`.

For the artifacts, `FilesInv == FilesTyped /\ CountersInv /\ JobsInv /\ DiskInv` is inductive,
together with `InboxInv` (a message about a task is in the inbox once, and nobody
works on that task). The properties speak of the disk only; what makes them inductive
is what the tasks remember. `Remembers`: a task whose folder generation is current was
made since the last cache clear, because every clear raises both counters, and no
task asks for a revision the file has not had. `ReadFrom`: bytes read after the
request are of that revision or a later one, so a check that the file *still* is the one asked
for pins them. `MayWrite`: a task in the gate is right about the history, and no
writer of the history gets the gate meanwhile. `DiskInv` then follows at each write,
and the four properties from it.

**CbzRebuildProofs.** Nothing locks the directory; the temporary archive is the lock.
`TmpIsHeld`: a process past the creation of the temporary file is the only one that works on that
output, and `BackupIsHeld` the like of the backup. What an archive holds follows the process
(`Selected`, `Listed`, `Source`), and that the page lists of a .rar and the .cbz beside it do not
mix from `RarComesFirst` and `Superseded`. `TrueToItsReport` is then a matter of each step. For the
refinement every file operation is shown to be one of a few (`FileSteps`): one that leaves the
pages of every book as they were (`SamePages`), a stutter of `BookStore`, or the commit
(`CommitDeletes`), its `Delete` (`StoreStep`).

**ViewerProofs.** This module is about the Viewer's background decoding with its cache and its page
turning. For the requests of the first, `Inv` is `Kept` (the three parts of `RequestsKept`), `InPlace`,
`IdsUnique`, `Idle` and the types of what they mention. `RequestsKept` alone is not
inductive: a page sent to a free slot might replace an awaited request of another
worker, were mailboxes not kept to pages of their worker (`InPlace`); and the
answer to a forgotten request might end another one, were ids not unique among all
requests anywhere (`IdsUnique`). The plan and the cache play no part: `ChosenFree` is all
the proof uses of them.

The cache comes after page turning in the module. `CacheInv` adds to `CacheSound` that the limit is that of the
snapshot while a request is awaited. The code has it by forgetting its requests when the limit
changes (`ResetRequired`), and without it a result might be weighed against a limit the cache does
not meet: then pages would go for the limit in the same step as for the page that comes, and
`Evictions` could not tell them apart. From `Inv` comes that no two requests under way are for one
page, so that the page which enters is awaited by nobody else. What the cache gives up is summed in two
orders, by `evict_to_budget` in that of the victims and by `BytesIn` in that of the cache.
`BytesSplit` says that both come to the same, as no page has two entries. The sums and selections are recursive
functions in `StreamingCache`; that such a function exists for every sequence is proved once
(`TableExists`, by the least place that would have none), and `SumIs`, `AmongIs`, `DistinctIs` and
`FlattenIs` say from it what each of them is. `InsertFacts`, `EvictFacts` and `AdmissionIs` are then what
the three decisions of the code come to, whatever the cache, the candidates and the limit.

`PolicyOrder` says nothing of the state; its theorem says that `DesiredSequence` gives the order that is
meant (`OrderAsMeant`) for every length of book, page and view. Each page gets a key (`KeyOf`): the
number of pages wanted before it, or less than nothing when it is on the screen. A round of the order is
sorted by the key and above the rounds before it (`RoundIs`), but for a page on the screen that it
brings again; so the rounds put together are `Rising`: what comes for the first time has the greatest
key so far. `Distinct` makes of that a sorted sequence (`DistinctSorted`) in which every page is once
and the rank goes by the key (`SortedRank`). The arithmetic is that of the last round, which is short,
and of the quotient by the burst: a page that a round reaches ahead has as many pages behind before it as
there were rounds (`Passing`).

For page turning, `PagesInv` says what the viewer's record (`ViewInv`), the boxes, requests and
results (`ThreadInv`) and the frames awaited (`WayInv`) can be. `IdleShowsView` needs that the
group which loads is of the view requested and each result kept for it is right for its side
(`GroupFine`, `ResultFine`), that the target is ahead of the request by the queue only, and that a
view which is shown has everything as it should be (`ShowsView`); each operator on the record is
shown to lead from such a record to such a record, and every input of the reader is one step of
two forms (`ReaderStep`): it goes to another view, or it leaves the view and the loader as they
are. That the two pages of a view are asked of two threads rests on their being neighbours
(`ViewIs`), and this, for AUTO, on the first page beginning a unit (`AnchorZero`), proved by a
least counterexample since the table is a recursive function. `OnlyATurnLoses` and
`ApproachesTarget` follow from what each kind of step does (`StepIs`, `PollIs`, `ThreadWay`). One
thing of the invariant TLC corrected: no animation runs while pages are hurried through, but after
a failed load a second turn to the same page can put the mode back to "latest" with the viewer at
rest, so this is claimed only of a view that is the target.

**ReadAheadProofs.** This module takes from `ViewerProofs` what is proved there of sequences and sums.
For SPAD, the theorem is of `SpadSpec`, which is what `ReadAhead` does with SPAD's variables while
a book is read: at rest a side has nothing it could prepare. `SpadInv` says, of every place of a
schedule that was passed, that it is done (`Passed`); of a schedule made before the number of pages
was known, that what it passed has failed, for while the number known is not the book's nothing is
ready; and of the budget, that the pages which are ready take an area each at most (`Afford`), so
that one which is exhausted has two of them. The exception for `OneTooMany` is the least that makes
this inductive, and the code needs it.

For the textures (`TextureInv`), what must be known is the state between the plan and the upload
(`Planned`): the warm-up cache holds just what the view on the screen keeps (`Serving`); the
plan still makes room when it is carried out, with the farthest pages, the last of which was needed
(`Fits`, `Chain`); and either a thread has brought a page since, and asked for a frame, or the plan is the one
the caches call for now (`WellPlanned`). That the plan is such a one (`PlanOverIs`) rests on the order of
the victims (`FarthestIs`, `FallingIs`, by induction on the place) and on `EnoughIs`, which says what the fold
that collects them stops at. `SwappedIs` then says what the cache is after the upload; `NoneLeft`, that if
no further frame is asked for nothing that fits is left waiting, but for what `dozed` names; and
`SwappedJustified`, that whatever went made room, which is `NearerWins`. The other actions must keep
the caches free of two entries of a key and of sizes that are no texture's (`Separate`):
`CommitKeeps` for a display of any number of slots, `PromotedIs` for the pages a neighbour
hands over, of whatever number. `ReadAheadInv` joins this to `SpadInv` by the phase the Viewer is in;
of SPAD it adds what is ready (`ReadyWide`): widths are those some area asks for, all the same
unless the layout has changed, and more places of the schedule lie before the index than pages are
ready, which is what tells that two ready pages are the first two of the schedule when none of them
failed.

`OpensReady` joins the two parts. `RestIsReady` says that at rest each page of the view the book opens
at is among those handed over: either nothing is pending, and the whole schedule was passed, or two
pages are ready, so the first two places were; the schedule begins with the page the book opens at
and goes on with the next; and the page 0 that `OneTooMany` tells of is not in that view. `HandoverIs`
and `PromotedIs` carry them into the warm-up cache: textures of different pages, inserted one by one,
lose none when their sum is within the limit. There they are until the first frame (`Served`), and
`ShownAtOnce` follows `start_display_request` to the commit.

The proof of `WarmupAwake` showed which frames sleep over a page: TLC's instance had none that
replaced another, so the property had held there for want of one; `dozed` and the sizes of the instance are
from this.

**LibraryProofs.** This module is about the Library's grid and its list, which share nothing.
`TextureCorrect` needs no help from the queues: whatever a late result says,
it is shown only when the list is loaded and has the revision the result names, and every step
that changes the list drops the textures of the entries it changes. `LossesNamed` does: each action
is shown to leave a wait with its answer coming, unless one of the three named causes holds before
it. `WaitInv` says what requests and answers can be. All are of revisions the book has had
(`Had`), so an answer "the source has changed" is of a source that will not come back
(`Outdated`) and ends no wait for what is on the disk; and a video waits for what the list has of
it (`InList`), so it takes every current answer. A request that finds a task registered starts
none (`BegunWaits`): that is where the causes come in, for the task it finds must be current, and
seen when it ends. `StaleNoticedCorrect` says what a thread has read is stale only by a change since,
and every change raises the alarm or is on record; what puts the alarm out begins a look in the same
step. `LookInv` adds to the property that a thread reads the folder on screen, and that a reload owed
for a report stays noted. The theorem also showed that deletions by a Viewer still to be heard of do not
weaken the property, which had excepted them. `SelectionSurvives` follows from the books at the
selected positions before and after, whatever the positions are. It needs that the list sorted anew
is a sequence, positions 1 and on (`SortedExists`), or position 0 would not mean none.

**PreviewProofs.** One invariant serves the first three theorems. Nothing is acknowledged between the two
threads, so it says where in the pipe (the command that waits, the one deferred, the decoding, the
slot, the queue) the latest thing asked for is: for a book, whose commands replace each other
(`Book`); for a video, whose answers are a queue (`Video`); and once the pointer has left
(`Ended`). The interface's handlers are functions of the state they may change, so each is shown to
take a state that is `Fine` to one that is, in whatever order a frame calls them. `LossesNamed` is
about steps, and needs to know what the latest order for a bucket of an animated image has met so
far (`BucketInv`). It is on its way (`Ordered`), or has been taken and the open animation is at that bucket
(`Held`), or is lost (`Gone`). An order empties the answer slot, and nothing fills it again before
the decoding it overtakes is over (`Cleared`, `Carried`); an answer taken from the slot can so be
of an older bucket only where an order is still coming. That an animation which turns out to be no
animation takes no order with it needs that one which has shown a bucket stays open
(`StaysOpen`). Both losses are real: the run reaches them.

**ViewerIpcProofs.** That a deletion meets the book of its dialog needs that no answer which can
still come changes the book on screen while the dialog is open: requests are numbered
(`Numbered`), and what was asked was asked of the book that is shown (`AskedIsShown`). What the
Viewer waits for is on its way because one request at a time is in the pipe (`Pipe`), and
because the fields that wait have distinct ids and an answer under such an id is of a kind that settles
the field (`Tracked`); the end of either thread leaves the loss to be told. `SelectionFollows`
speaks of states in which no rebuild is awaited, but what is true of the others must be said too
(`Sync`): from the moment the window thread has rebuilt a book until the answer is polled the
selection may be anywhere (`Astray`), and this is over in time because a rebuild is asked for once
(`Single`), by the dialog that waits for it (`Asked`), and its answer either sends the Viewer
on, with an event that says where to, or ends it. At all other times the last event that moves
the selection names the Viewer's book, or the selection is that book already (`Follow`).

**StoresProofs.** Nothing locks `book_state.json` either. `RecordKept` follows from `Fresh`: a copy
that is not stale is what the file has, so writing it is writing the file with one change. A status
shown wrongly has been noted, or is about to be put right (`Seen`); what a book that has gone left
is there as long as its deletion or renaming is under way only (`Forgotten`); each ended
session is in one line, once, and each Viewer has one of its own (`Lines`, `Own`). At rest
these are `HudAgrees`, `NothingLeftBehind` and `ToldOnce`.

What stays with TLC:

* liveness under fairness, which is out of the prover's reach: `LanesServed`, `WantedDecoded`, `NavigationIsAnswered`, `ListSettles`.

No module that is proved about reaches a RECURSIVE operator.

## What is not modelled

* Decoding, formats of archives and page maps, painting, texts: data.
* In `ThumbLanes`: the content of tasks and which lane a book is of; several base
  goals in one life (it is fixed at start).
* In `Artifacts`: videos and previews; marks of failed thumbnails; renaming and
  deleting books; eviction from the memory cache; which kind of archive a book is (a
  step may be that of any kind); files whose deletion fails while clearing.
* In `CbzRebuild`: power failures (the order in which a file system persists data),
  entries that are no images, and other programs that write the same names.
* In `Prefetch`: the order of pages of the AUTO spread plan, another book or number of
  workers within one Viewer, the interactive and SPAD workers, which pages turn out to be
  animations (a constant, empty in the run), the bytes and generation in `l2_status`, shutdown, a book
  that cannot be opened (`viewer_loader.rs:844`), a command that comes between the loop's look at its
  commands and its look at the results.
* In `ViewerPages`: the preview at a boundary, the deletion of page ranges, the prompt at the end of
  a book; a change of window size or monitor, and with it frames refused for their size
  (`state.rs:6015`). The threads' skip of animation requests of an earlier navigation
  (`viewer_loader.rs:698`) is left out because it is not reached within a book: `nav_id` only grows.
* In `Textures`, `Spad` and `ReadAhead`: animations, the eviction of the interactive cache, the
  quality of SPAD's pages, a second configuration of neighbours; frames that skip the warm-up for an
  animation or while the window changes (`state.rs:2218`).
* In `ThumbDisplay`: the second frame egui draws for a request to repaint.
* In `ViewerIpc`: several Viewers of one Library (two are in `Stores`); a book the Viewer is sent to
  and cannot open, when it stays with the one whose session it has sent (`viewer_app.rs:817`).
* In `Stores`: the end of the Library or of a pipe, after which a session is not told
  (`viewer_app.rs:302`, `338`): `ToldOnce` is for a Library that lives.
* Settings and session files; external tools (one worker thread that runs a queue in order,
  without a timeout); the launcher; parsers; what else `PROJECT.json` marks `not_modelled`.

## Plan

1. `Launcher`: extraction of one payload by several launchers, cut off at any point.
2. `ExternalTools`: the queue and what the Library does to a book while a tool has it.
