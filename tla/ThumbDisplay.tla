---- MODULE ThumbDisplay ----
(* How a thumbnail reaches the Library's grid: the requests the grid makes *)
(* frame by frame (a replaceable set of image keys, a "requested" mark for *)
(* videos), the worker's mailbox, queues and register of running tasks,    *)
(* the background scheduler, and the results on their way back.            *)
(*                                                                         *)
(* Left to other modules: permits and lanes (ThumbLanes), caches, failure  *)
(* marks and page maps (Artifacts), the list itself (LibraryList).  A      *)
(* thumbnail is here the revision of the source it was asked for.          *)
EXTENDS Integers, Sequences, SequencesExt, FiniteSetsExt, Functions

CONSTANTS Images, Videos,   \* entries that show an image, and video files
          Folders,          \* the sets of entries a folder may list
          MaxEvents,        \* bound, by folder: file changes, loads and clears
          MaxSched,         \* bound: commands waiting for the scheduler
          MaxLeft           \* results poll_worker may leave for the next frame

Books == Images \cup Videos

ASSUME DisplayAssumption ==
    /\ Images \cap Videos = {}
    /\ \A f \in Folders : f \subseteq Books /\ IsFiniteSet(f)
    /\ MaxEvents \in [Folders -> Nat] /\ MaxSched \in Nat \ {0}
    /\ MaxLeft \in Nat

None == -1
Counts == 0..Max({MaxEvents[f] : f \in Folders})

VARIABLES
  entries,    \* the entries of the folder
  file,       \* [Books -> Nat] the revision of the file on the disk
  snap,       \* source_snapshots: the revision the list knows
  listed,     \* the list is loaded (FALSE while a folder is being read)
  texture,    \* the revision of the texture an entry shows, or None
  failed,     \* thumb_failed
  asked,      \* thumb_requested of a video, with its requested_* fields
  force,      \* force_reload
  lastSet,    \* last_display_set: whether it is known, and its keys
  lastStale,  \* last_display_stale_retry: the key retried last, if any
  visible,    \* what the grid showed in the last frame
  gen,        \* generation
  bookGen,    \* book_artifact_generations
  visibleIds, \* visible_artifact_ids, which two threads write
  mailbox,    \* DisplayThumbMailbox.pending, in an order the layout of the grid decides
  normalQ,    \* req_rx of the normal loop
  held,       \* the request for which the normal loop awaits a permit
  videoQ,     \* video_req_rx
  videoBg,    \* video_background_req_rx
  flights,    \* the tasks that run, each with its entry in the register
  results,    \* resp_rx
  schedQ,     \* background_scheduler's channel
  jobs,       \* its jobs
  jobGen,     \* job_generation
  ready       \* background_scheduler_ready

uiVars == <<snap, listed, texture, failed, asked, force, lastSet, lastStale, visible>>
schedVars == <<schedQ, jobs, jobGen, ready>>
workVars == <<mailbox, normalQ, held, videoQ, videoBg, flights>>
vars == <<entries, file, uiVars, gen, bookGen, visibleIds, workVars, results, schedVars>>

NotAsked == [rev |-> None, gen |-> None]
NoKey == <<"none", 0, FALSE>>
UnknownSet == [known |-> FALSE, keys |-> {}]

(* ThumbTask and VideoThumbTask: the revision asked for, with the          *)
(* generations at which it was asked and the way it came.                  *)
Task(b, r, f, o) == [b |-> b, rev |-> r, force |-> f, gen |-> gen,
                     bookGen |-> bookGen[b], origin |-> o]
NoTask == [b |-> "none", rev |-> None, force |-> FALSE, gen |-> None,
           bookGen |-> None, origin |-> "none"]
Tasks == [b : Books, rev : Counts, force : BOOLEAN, gen : Counts,
          bookGen : Counts, origin : {"display", "video", "background"}]

DisplayKey(b, f) == <<b, snap[b], f>>

(* What has happened to the library so far. *)
Events == gen + SumFunction(file) + SumFunction(bookGen)

Init ==
  /\ entries \in Folders
  /\ file = [b \in Books |-> 0]
  /\ snap = file
  /\ listed = TRUE
  /\ texture = [b \in Books |-> None]
  /\ failed = [b \in Books |-> FALSE]
  /\ asked = [v \in Videos |-> NotAsked]
  /\ force = [i \in Images |-> FALSE]
  /\ lastSet = UnknownSet
  /\ lastStale = NoKey
  /\ visible = {}
  /\ gen = 0
  /\ bookGen = [b \in Books |-> 0]
  /\ visibleIds = {}
  /\ mailbox = {}
  /\ normalQ = <<>>
  /\ held = NoTask
  /\ videoQ = <<>>
  /\ videoBg = <<>>
  /\ flights = {}
  /\ results = <<>>
  /\ jobs \in SUBSET {Task(b, 0, FALSE, "background") : b \in entries}
  /\ schedQ = <<>>
  /\ jobGen = 0
  /\ ready = FALSE

---------------------------------------------------------------------------
(* The Library, on the interface's thread.                                  *)

(* A command sent again while its twin is the last of the queue is the     *)
(* same command.                                                           *)
SendSched(q, c) == IF q # <<>> /\ Last(q) = c THEN q ELSE Append(q, c)
Cmd(t, ids, js) == [type |-> t, ids |-> ids, jobs |-> js, gen |-> gen']

(* request_all_thumbs: every entry without a thumbnail becomes a job of    *)
(* the scheduler.  The subset leaves out the thumbnails already on the     *)
(* disk, whose books ask for a page map only.                              *)
RequestAll(q) ==
  LET Missing == {b \in Images \cap entries : ~failed'[b] /\ (texture'[b] = None \/ force'[b])}
                 \cup {v \in Videos \cap entries : /\ texture'[v] = None /\ ~failed'[v]
                                      /\ asked'[v] = NotAsked}
      Job(b) == [b |-> b, rev |-> snap'[b], force |-> b \in Images /\ force'[b],
                 gen |-> gen', bookGen |-> bookGen[b], origin |-> "background"]
  IN \E js \in SUBSET {Job(b) : b \in Missing} :
       /\ ready' = FALSE
       /\ schedQ' = SendSched(q, Cmd("Replace", {}, js))

(* clear_books and the fields a new list resets. *)
ForgetThumbs ==
  /\ texture' = [b \in Books |-> None]
  /\ failed' = [b \in Books |-> FALSE]
  /\ asked' = [v \in Videos |-> NotAsked]
  /\ force' = [i \in Images |-> FALSE]
  /\ lastSet' = UnknownSet
  /\ lastStale' = NoKey

(* One frame of show(): the grid shows v; textures outside it may be       *)
(* dropped for the budget; videos without a thumbnail are requested once;  *)
(* the images without one are the display set, sent when it has changed.   *)
ShowFrame(v, evicted) ==
  LET want == {x \in v \cap Videos : /\ texture[x] = None /\ ~failed[x]
                                     /\ asked[x] = NotAsked}
      bare == {i \in v \cap Images : texture[i] = None /\ ~failed[i]}
      keys == {DisplayKey(i, force[i]) : i \in bare}
  IN /\ visible' = v
     /\ visibleIds' = v
     /\ ready' = TRUE
     /\ schedQ' = SendSched(schedQ, [type |-> "SetVisible", ids |-> v,
                                     jobs |-> {}, gen |-> 0])
     /\ texture' = [b \in Books |-> IF b \in evicted THEN None ELSE texture[b]]
     /\ asked' = [x \in Videos |-> IF x \in want THEN [rev |-> snap[x], gen |-> gen]
                                                 ELSE asked[x]]
     /\ \E order \in SetToSeqs({Task(x, snap[x], FALSE, "video") : x \in want}) :
          videoQ' = videoQ \o order
     /\ lastStale' = IF lastStale \in keys THEN lastStale ELSE NoKey
     /\ lastSet' = [known |-> TRUE, keys |-> keys]
     /\ mailbox' = IF lastSet = lastSet' THEN mailbox
                   ELSE {Task(i, snap[i], force[i], "display") : i \in bare}

(* poll_worker comes first, and leaves what it has no time for            *)
(* (MAX_THUMB_RESULTS_PER_FRAME) to the next frame.                        *)
Frame ==
  /\ \E v \in SUBSET entries :
       \E evicted \in SUBSET {i \in Images \ v : texture[i] # None} :
         (v = {} \/ listed) /\ ShowFrame(v, evicted)
  /\ Len(results) <= MaxLeft /\ Len(schedQ') <= MaxSched
  /\ UNCHANGED <<entries, file, snap, listed, failed, force, gen, bookGen, normalQ, held,
                 videoBg, flights, results, jobs, jobGen>>

(* A file of the folder is written again. *)
FileChange ==
  /\ Events < MaxEvents[entries]
  /\ \E b \in entries : file' = [file EXCEPT ![b] = @ + 1]
  /\ UNCHANGED <<entries, uiVars, gen, bookGen, visibleIds, workVars, results, schedVars>>

(* apply_scanned_entries_preserving_state and what its caller asks: the    *)
(* scan may have read a file before its last change.                       *)
Scan ==
  /\ listed
  /\ \E s \in [Books -> Counts] :
       LET changed == {b \in Books : s[b] # snap[b]}
       IN /\ changed # {}
          /\ \A b \in Books : s[b] \in snap[b]..file[b]
          /\ snap' = s
          /\ texture' = [b \in Books |-> IF b \in changed THEN None ELSE texture[b]]
          /\ failed' = [b \in Books |-> b \notin changed /\ failed[b]]
          /\ force' = [i \in Images |-> i \in changed \/ force[i]]
          /\ asked' = [v \in Videos |-> IF v \in changed THEN NotAsked ELSE asked[v]]
  /\ lastSet' = UnknownSet
  /\ lastStale' = NoKey
  /\ gen' = gen
  /\ RequestAll(schedQ)
  /\ UNCHANGED <<entries, file, listed, visible, bookGen, visibleIds, workVars, results,
                 jobs, jobGen>>

(* clear_pending_tasks and clear_cache_state: what takes effect at once,   *)
(* and the orders that wait in the queues of the loops.                    *)
ClearWorker(videoCaches) ==
  /\ Events < MaxEvents[entries]
  /\ gen' = gen + 1
  /\ mailbox' = {}
  /\ visibleIds' = {}
  /\ normalQ' = Append(normalQ, [type |-> "Clear", task |-> NoTask])
  /\ videoQ' = IF videoCaches THEN Append(videoQ, NoTask) ELSE videoQ

(* start_load_dir_async: the list is emptied until the folder is read. *)
StartLoad ==
  /\ ClearWorker(FALSE)
  /\ ready' = FALSE
  /\ schedQ' = SendSched(schedQ, Cmd("Clear", {}, {}))
  /\ ForgetThumbs
  /\ listed' = FALSE
  /\ visible' = {}
  /\ UNCHANGED <<entries, file, snap, bookGen, held, videoBg, flights, results, jobs, jobGen>>

(* The folder has been read: apply_loaded_entries. *)
LoadDone ==
  /\ ~listed
  /\ listed' = TRUE
  /\ snap' = file
  /\ ForgetThumbs
  /\ gen' = gen
  /\ RequestAll(schedQ)
  /\ UNCHANGED <<entries, file, visible, bookGen, visibleIds, workVars, results, jobs, jobGen>>

(* Clear cache of the settings: the worker's state, then reload_thumbs. *)
ClearCaches ==
  /\ listed
  /\ ClearWorker(TRUE)
  /\ ForgetThumbs
  /\ UNCHANGED snap
  /\ RequestAll(SendSched(schedQ, Cmd("Clear", {}, {})))
  /\ UNCHANGED <<entries, file, listed, visible, bookGen, held, videoBg, flights,
                 results, jobs, jobGen>>

(* Clear of one book's settings: clear_book_artifact_state, then           *)
(* remove_book_cache.                                                      *)
ClearBook ==
  \E i \in Images \cap entries :
    /\ listed /\ Events < MaxEvents[entries]
    /\ texture' = [texture EXCEPT ![i] = None]
    /\ failed' = [failed EXCEPT ![i] = FALSE]
    /\ force' = [force EXCEPT ![i] = FALSE]
    /\ lastSet' = [lastSet EXCEPT !.keys = {k \in @ : k[1] # i}]
    /\ lastStale' = IF lastStale[1] = i THEN NoKey ELSE lastStale
    /\ bookGen' = [bookGen EXCEPT ![i] = @ + 1]
    /\ mailbox' = {t \in mailbox : t.b # i}
    /\ normalQ' = Append(normalQ, [type |-> "Remove", task |-> Task(i, 0, FALSE, "display")])
    /\ UNCHANGED <<entries, file, snap, listed, asked, visible, gen, visibleIds, held,
                   videoQ, videoBg, flights, results, schedVars>>

(* The same without the look at the list's own revision. *)
SourceMatchesFile(b, r) == file[b] = r

(* source_matches_revision: the list's revision, and the file as it is. *)
SourceMatches(b, r) == listed /\ snap[b] = r /\ file[b] = r

(* poll_worker takes one result.  A result that fails its checks changes   *)
(* nothing but the mark of a video that waits for exactly this answer.     *)
ShowReady(m) ==
  /\ texture' = [texture EXCEPT ![m.b] = m.rev]
  /\ failed' = [failed EXCEPT ![m.b] = FALSE]

HandleReady(m) ==
  /\ IF m.bookGen = bookGen[m.b] /\ SourceMatches(m.b, m.rev)
       THEN ShowReady(m) ELSE UNCHANGED <<texture, failed>>
  /\ UNCHANGED <<asked, lastSet, lastStale>>

HandleFailed(m) ==
  /\ IF m.bookGen = bookGen[m.b] /\ SourceMatches(m.b, m.rev)
       THEN /\ texture' = [texture EXCEPT ![m.b] = None]
            /\ failed' = [failed EXCEPT ![m.b] = TRUE]
            /\ asked' = [v \in Videos |-> IF v = m.b THEN NotAsked ELSE asked[v]]
       ELSE UNCHANGED <<texture, failed, asked>>
  /\ UNCHANGED <<lastSet, lastStale>>

HandleDisplayStale(m) ==
  LET key == <<m.b, m.rev, m.force>>
      retry == lastStale # key /\ lastSet.known /\ key \in lastSet.keys
  IN /\ lastSet' = IF retry THEN [lastSet EXCEPT !.keys = @ \ {key}] ELSE lastSet
     /\ lastStale' = IF retry THEN key ELSE lastStale
     /\ UNCHANGED <<texture, failed, asked>>

Answered(m) == asked[m.b] = [rev |-> m.rev, gen |-> m.gen]

HandleVideoReady(m) ==
  LET mine == asked[m.b] = NotAsked \/ Answered(m)
  IN /\ IF mine /\ SourceMatches(m.b, m.rev)
          THEN ShowReady(m) ELSE UNCHANGED <<texture, failed>>
     /\ asked' = IF mine THEN [asked EXCEPT ![m.b] = NotAsked] ELSE asked
     /\ UNCHANGED <<lastSet, lastStale>>

HandleVideoStale(m) ==
  /\ asked' = IF Answered(m) THEN [asked EXCEPT ![m.b] = NotAsked] ELSE asked
  /\ UNCHANGED <<texture, failed, lastSet, lastStale>>

Poll ==
  /\ results # <<>>
  /\ LET m == Head(results) IN
       \/ m.type = "Ready" /\ HandleReady(m)
       \/ m.type = "Failed" /\ HandleFailed(m)
       \/ m.type = "DisplayStale" /\ HandleDisplayStale(m)
       \/ m.type = "VideoReady" /\ HandleVideoReady(m)
       \/ m.type = "VideoStale" /\ HandleVideoStale(m)
  /\ results' = Tail(results)
  /\ UNCHANGED <<entries, file, snap, listed, force, visible, gen, bookGen, visibleIds,
                 workVars, schedVars>>

---------------------------------------------------------------------------
(* The worker's loops, all on one thread.                                   *)

(* The same when what a clear takes out of the register still counts. *)
RunningEver(b, r) == \E f \in flights : f.task.b = b

(* begin_task and begin_video_task: one registered task per book and       *)
(* revision, whatever its generation.                                      *)
Running(b, r) == \E f \in flights : f.registered /\ f.task.b = b /\ f.task.rev = r

Begin(t) == flights' = IF Running(t.b, t.rev) THEN flights
                       ELSE flights \cup {[task |-> t, registered |-> TRUE, stage |-> "new"]}

Unregister(S) == {IF f.task.b \in S THEN [f EXCEPT !.registered = FALSE] ELSE f : f \in flights}

(* The normal loop takes a request.  A task of the current generation      *)
(* waits for a permit, and what is queued behind it with it.               *)
NormalTake ==
  /\ held = NoTask /\ normalQ # <<>>
  /\ normalQ' = Tail(normalQ)
  /\ LET r == Head(normalQ) IN
       CASE r.type = "Task" -> /\ held' = IF r.task.gen = gen THEN r.task ELSE NoTask
                               /\ UNCHANGED <<mailbox, flights>>
         [] r.type = "Clear" -> /\ mailbox' = {}
                                /\ flights' = Unregister(Books)
                                /\ UNCHANGED held
         [] r.type = "Remove" -> /\ flights' = Unregister({r.task.b})
                                 /\ UNCHANGED <<mailbox, held>>
  /\ UNCHANGED <<entries, file, uiVars, gen, bookGen, visibleIds, videoQ, videoBg, results, schedVars>>

NormalBegin ==
  /\ held # NoTask
  /\ Begin(held)
  /\ held' = NoTask
  /\ UNCHANGED <<entries, file, uiVars, gen, bookGen, visibleIds, mailbox, normalQ, videoQ,
                 videoBg, results, schedVars>>

(* The display loop, with a permit in hand, takes the first task, which is *)
(* any of them.                                                            *)
DisplayTake ==
  /\ \E t \in mailbox :
       /\ mailbox' = mailbox \ {t}
       /\ IF t.gen = gen THEN Begin(t) ELSE UNCHANGED flights
  /\ UNCHANGED <<entries, file, uiVars, gen, bookGen, visibleIds, normalQ, held, videoQ,
                 videoBg, results, schedVars>>

Msg(t, ty) == [type |-> ty, b |-> t.b, rev |-> t.rev, force |-> t.force,
               gen |-> t.gen, bookGen |-> t.bookGen]

(* should_notify: asked for the screen, or on it when the task ends. *)
Seen(t) == t.origin # "background" \/ t.b \in visibleIds
Notify(t, ty) == results' = IF Seen(t) THEN Append(results, Msg(t, ty)) ELSE results

(* The video loop prefers what the grid asked for.  A hit of the caches or *)
(* a mark of failure answers at once; a miss starts a decode.              *)
VideoTake ==
  /\ videoQ # <<>> \/ videoBg # <<>>
  /\ LET t == IF videoQ # <<>> THEN Head(videoQ) ELSE Head(videoBg)
     IN /\ IF videoQ # <<>> THEN videoQ' = Tail(videoQ) /\ UNCHANGED videoBg
                            ELSE videoBg' = Tail(videoBg) /\ UNCHANGED videoQ
        /\ IF t = NoTask
             THEN flights' = Unregister(Videos) /\ UNCHANGED results
           ELSE IF t.gen # gen
             THEN UNCHANGED <<flights, results>>
           ELSE IF t.rev # file[t.b]
             THEN Notify(t, "VideoStale") /\ UNCHANGED flights
           ELSE \/ Notify(t, "VideoReady") /\ UNCHANGED flights
                \/ Notify(t, "Failed") /\ UNCHANGED flights
                \/ Begin(t) /\ UNCHANGED results
  /\ UNCHANGED <<entries, file, uiVars, gen, bookGen, visibleIds, mailbox, normalQ, held, schedVars>>

(* A task looks at its source before it decodes: process_thumb,            *)
(* process_video_thumb.                                                    *)
Decode ==
  /\ \E f \in flights :
       LET t == f.task
           stale == t.rev # file[t.b] \/ t.bookGen # bookGen[t.b]
       IN /\ f.stage = "new"
          /\ flights' = (flights \ {f}) \cup
                          {[f EXCEPT !.stage = IF stale THEN "stale" ELSE "decoding"]}
  /\ UNCHANGED <<entries, file, uiVars, gen, bookGen, visibleIds, mailbox, normalQ, held,
                 videoQ, videoBg, results, schedVars>>

(* A task ends: nothing is said of a generation that is over.  Of a source *)
(* that has changed, an image says "stale" only if it saw it at the start, *)
(* a video also if it sees it at the end.                                  *)
FinishImage(f) ==
  LET t == f.task IN
    IF f.stage = "stale"
      THEN results' = IF t.origin = "display" \/ t.b \in visibleIds
                        THEN Append(results, Msg(t, "DisplayStale")) ELSE results
      ELSE \/ Notify(t, "Ready")
           \/ IF t.rev = file[t.b] THEN Notify(t, "Failed") ELSE UNCHANGED results

FinishVideo(f) ==
  LET t == f.task IN
    IF f.stage = "stale" \/ t.rev # file[t.b]
      THEN Notify(t, "VideoStale")
      ELSE Notify(t, "VideoReady") \/ Notify(t, "Failed")

Finish ==
  /\ \E f \in flights :
       /\ f.stage # "new"
       /\ flights' = flights \ {f}
       /\ IF f.task.gen # gen \/ f.task.bookGen # bookGen[f.task.b]
            THEN UNCHANGED results
          ELSE IF f.task.b \in Images THEN FinishImage(f) ELSE FinishVideo(f)
  /\ UNCHANGED <<entries, file, uiVars, gen, bookGen, visibleIds, mailbox, normalQ, held,
                 videoQ, videoBg, schedVars>>

---------------------------------------------------------------------------
(* The background scheduler, on a thread of its own.  What it does with    *)
(* `ready' depends on which of its receives it waited in.                  *)
SchedReceive ==
  /\ schedQ # <<>>
  /\ schedQ' = Tail(schedQ)
  /\ LET c == Head(schedQ) IN
       CASE c.type = "SetVisible" -> /\ visibleIds' = c.ids
                                     /\ ready' \in {ready, TRUE}
                                     /\ UNCHANGED <<jobs, jobGen>>
         [] c.type = "Replace" -> /\ jobs' = c.jobs
                                  /\ jobGen' = c.gen
                                  /\ UNCHANGED <<visibleIds, ready>>
         [] c.type = "Clear" -> /\ jobs' = {}
                                /\ jobGen' = gen
                                /\ ready' \in {ready, FALSE}
                                /\ UNCHANGED visibleIds
  /\ UNCHANGED <<entries, file, uiVars, gen, bookGen, workVars, results>>

(* A job is sent unless its book is on the screen, where the grid asks. *)
SchedSend ==
  /\ ready /\ jobs # {}
  /\ IF jobGen # gen
       THEN jobs' = {} /\ jobGen' = gen /\ UNCHANGED <<normalQ, videoBg>>
       ELSE \E j \in jobs :
              /\ jobs' = jobs \ {j}
              /\ normalQ' = IF j.b \in Images \ visibleIds
                              THEN Append(normalQ, [type |-> "Task", task |-> j]) ELSE normalQ
              /\ videoBg' = IF j.b \in Videos \ visibleIds
                              THEN Append(videoBg, j) ELSE videoBg
              /\ UNCHANGED jobGen
  /\ UNCHANGED <<entries, file, uiVars, gen, bookGen, visibleIds, mailbox, held, videoQ,
                 flights, results, schedQ, ready>>

Library == Frame \/ Scan \/ StartLoad \/ LoadDone \/ ClearCaches \/ ClearBook \/ Poll
Worker == NormalTake \/ NormalBegin \/ DisplayTake \/ VideoTake \/ Decode \/ Finish
Scheduler == SchedReceive \/ SchedSend

Next == Library \/ FileChange \/ Worker \/ Scheduler
Spec == Init /\ [][Next]_vars

---------------------------------------------------------------------------
(* What an entry shows is the revision the list has of it: a late result   *)
(* of an older file, folder or clear never reaches the screen.             *)
TextureOfSnapshot ==
  \A b \in Books : texture[b] # None => listed /\ texture[b] = snap[b]

(* An entry that is shown as loading, whose request the Library holds to   *)
(* have been sent and will not send again.                                 *)
Pending(b) ==
  /\ listed /\ texture[b] = None /\ ~failed[b] /\ snap[b] = file[b]
  /\ IF b \in Images
       THEN lastSet.known /\ DisplayKey(b, force[b]) \in lastSet.keys
       ELSE asked[b] # NotAsked

Current(t) == t.gen = gen /\ t.rev = snap[t.b] /\ t.bookGen = bookGen[t.b]

(* Its answer is on the way. *)
Coming(b) ==
  \/ \E t \in mailbox : t.b = b /\ Current(t)
  \/ \E n \in DOMAIN videoQ : videoQ[n].b = b /\ Current(videoQ[n])
  \/ \E f \in flights : f.task.b = b /\ Current(f.task) /\ Seen(f.task)
  \/ \E n \in DOMAIN results :
       /\ results[n].b = b /\ results[n].rev = snap[b]
       /\ results[n].bookGen = bookGen[b]
       /\ results[n].type \in {"VideoReady", "VideoStale"} => results[n].gen = gen

(* The ways the code loses a request: a Clear the normal loop comes to     *)
(* late; a task of an ended generation still registered for it; a task of  *)
(* the scheduler that ends, or is left, while its book is off the screen.  *)
LateClear == \E n \in DOMAIN normalQ : normalQ[n].type = "Clear"
Superseded(b) == \E f \in flights : f.task.b = b /\ f.registered /\ ~Current(f.task)
Unseen(b) == \E f \in flights : f.task.b = b /\ f.task.origin = "background"

Lost(b) == Pending(b) /\ ~Coming(b)

(* A thumbnail the Library waits for is lost only in one of these ways.    *)
OnlyNamedLosses ==
  [][\A b \in Books : Lost(b)' => Lost(b) \/ LateClear \/ Superseded(b) \/ Unseen(b)]_vars
====
