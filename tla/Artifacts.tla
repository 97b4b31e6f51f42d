------------------------------ MODULE Artifacts ------------------------------
(***************************************************************************)
(* Making and keeping the artifacts of a book: its thumbnail and its page  *)
(* map (infra/worker/thumb_worker.rs, infra/page_map/coordinator.rs).      *)
(*                                                                         *)
(* A thumbnail request is worked on by a thread of its own, answered, and  *)
(* only then is what was made written to the disk caches; a page map that  *)
(* is expensive to build is built later still, one book at a time.         *)
(* Meanwhile the book's file may be replaced, and the user may leave the   *)
(* folder, clear the caches or clear the book's own data.  Three counters  *)
(* tell a late result that it is late, and a readers-writer lock           *)
(* (artifact_gate) keeps its last look at them and its write together.     *)
(***************************************************************************)
EXTENDS Integers, Sequences, FiniteSets

CONSTANTS
    Books,
    Tasks,              \* the requests for a thumbnail, each with all that follows
    MaxEvents           \* bound: times a file is replaced, the user leaves the folder,
                        \* clears the caches or the data of a book, or a write fails

ASSUME BooksAssumption == Books # {}
ASSUME EventsAssumption == MaxEvents \in Nat

Revisions == Nat \ {0}
NoRevision == 0

VARIABLES
    source,             \* book -> the revision of its file: size and modification time
    seen,               \* book -> the revision the Library lists, NoRevision if unlisted
    forced,             \* book -> BookViewState::force_reload
    ui,                 \* what the UI thread is in the middle of
    events,             \* counts towards MaxEvents
    generation,         \* the folder loads and cache clears so far
    artifactGeneration, \* the cache clears so far
    bookGeneration,     \* book -> the times its data was cleared
    inbox,              \* messages to the worker's normal loop
    reserved,           \* page_map_slow_states: the keys of slow page maps
    pruned,             \* the revisions whose pruning has been asked for
    prunes,             \* those of them still to be carried out
    mem,                \* ThumbMemCache: book -> the revision of the pixels it holds
    disk,               \* the files of the three disk caches
    job,                \* task -> what it works on
    cleared,            \* artifactGeneration when the disk caches were last emptied
    removed,            \* book -> bookGeneration when its files were last removed
    floor               \* book -> the newest revision that others were pruned for

uiVars == <<seen, forced, ui>>
generations == <<generation, artifactGeneration, bookGeneration>>
worker == <<inbox, reserved, pruned, prunes>>
history == <<cleared, removed, floor>>
artifactVars == <<source, uiVars, events, generations, worker, mem, disk, job, history>>

Stages == {"idle", "done", "mailbox", "scheduled", "sent", "queued", "lookup",
           "decoded", "store", "putGate", "stamp", "answer", "thumb", "thumbGate", "pages", "fast",
           "map", "mapGate", "wait", "build", "mark", "markGate"}
\* Threads that hold artifact_gate for reading.
InGate == {"putGate", "thumbGate", "mapGate", "markGate"}
\* A slow page map is being built or written: page_map_complete_permit is held.
Building == {"build", "map", "mapGate", "mark", "markGate"}
Plans == {"none", "wanted", "fast", "ready", "failed", "slow"}

\* born is not in the code: artifactGeneration when the request was made.
Job == [pc : Stages, book : Books, revision : Nat, generation : Nat,
        artifactGeneration : Nat, bookGeneration : Nat, bypass : BOOLEAN,
        content : Nat, plan : Plans, write : BOOLEAN, flight : BOOLEAN, born : Nat]
Artifact == [what : {"thumb", "map", "failure"}, book : Books, revision : Nat,
             content : Nat, bookGeneration : Nat, born : Nat]
Key == [book : Books, revision : Nat, generation : Nat, artifactGeneration : Nat,
        bookGeneration : Nat]
Message == [msg : {"ClearPending", "ClearCaches"}]
           \cup [msg : {"RemoveArchiveCache"}, book : Books]
           \cup [msg : {"Task"}, task : Tasks]

NoJob == [pc |-> "idle", book |-> CHOOSE b \in Books : TRUE, revision |-> 0,
          generation |-> 0, artifactGeneration |-> 0, bookGeneration |-> 0,
          bypass |-> FALSE, content |-> 0, plan |-> "none", write |-> FALSE,
          flight |-> FALSE, born |-> 0]
UiIdle == [step |-> "idle", book |-> CHOOSE b \in Books : TRUE]

ArtifactsInit ==
    /\ source = [b \in Books |-> 1]
    /\ seen = [b \in Books |-> NoRevision]
    /\ forced = [b \in Books |-> FALSE]
    /\ ui = UiIdle
    /\ events = 0 /\ generation = 0 /\ artifactGeneration = 0
    /\ bookGeneration = [b \in Books |-> 0]
    /\ inbox = <<>> /\ reserved = {} /\ pruned = {} /\ prunes = {}
    /\ mem = [b \in Books |-> NoRevision]
    /\ disk = {}
    /\ job = [t \in Tasks |-> NoJob]
    /\ cleared = 0
    /\ removed = [b \in Books |-> 0]
    /\ floor = [b \in Books |-> 0]

-----------------------------------------------------------------------------
(* What a task looks at. *)

FolderIsCurrent(j) == j.generation = generation
BookIsCurrent(j) == j.bookGeneration = bookGeneration[j.book]
\* thumb_task_file_snapshot_matches
SourceIsCurrent(j) == j.revision = source[j.book]

\* page_map_stale_reason finds none, and so does the write of a thumbnail.
IsCurrent(j) ==
    /\ FolderIsCurrent(j)
    /\ j.artifactGeneration = artifactGeneration
    /\ BookIsCurrent(j)
    /\ SourceIsCurrent(j)

OnDisk(what, j) ==
    {a \in disk : a.what = what /\ a.book = j.book /\ a.revision = j.revision}

\* No writer has artifact_gate when a reader is in it; writers are one step.
GateFree == \A t \in Tasks : job[t].pc \notin InGate

KeyOf(j) == [book |-> j.book, revision |-> j.revision, generation |-> j.generation,
             artifactGeneration |-> j.artifactGeneration,
             bookGeneration |-> j.bookGeneration]

\* reserve_page_map_slow, its result and what it leaves in the map.
MayReserve(j) == BookIsCurrent(j) /\ KeyOf(j) \notin reserved
Reserve(j) == reserved' = IF MayReserve(j) THEN reserved \cup {KeyOf(j)} ELSE reserved

\* schedule_artifact_prune: once for a revision.
SchedulePrune(j) ==
    LET p == <<j.book, j.revision>> IN
    /\ pruned' = pruned \cup {p}
    /\ prunes' = IF p \in pruned THEN prunes ELSE prunes \cup {p}

Written(what, j) ==
    (disk \ OnDisk(what, j))
        \cup {[what |-> what, book |-> j.book, revision |-> j.revision,
               content |-> IF what = "failure" THEN NoRevision ELSE j.content,
               bookGeneration |-> j.bookGeneration, born |-> j.born]}

Event == events < MaxEvents /\ events' = events + 1

Become(t, j) == job' = [job EXCEPT ![t] = j]
Goto(t, place) == job' = [job EXCEPT ![t].pc = place]
Done == [NoJob EXCEPT !.pc = "done"]
End(t) == Become(t, Done)

\* DisplayThumbMailbox::clear and remove_by_book_id.
EmptyMailbox(books) ==
    job' = [t \in Tasks |-> IF job[t].pc = "mailbox" /\ job[t].book \in books
                            THEN Done ELSE job[t]]

-----------------------------------------------------------------------------
(* The user and the UI thread. *)

\* The book's file is replaced, by another program or by deleting pages.
ReplaceSource(b) ==
    /\ Event
    /\ source' = [source EXCEPT ![b] = @ + 1]
    /\ UNCHANGED <<uiVars, generations, worker, mem, disk, job, history>>

\* start_load_dir_async: the lists and the states of the books are dropped, the
\* caches are not.
LeaveFolder ==
    /\ ui.step = "idle" /\ Event
    /\ generation' = generation + 1
    /\ inbox' = Append(inbox, [msg |-> "ClearPending"])
    /\ seen' = [b \in Books |-> NoRevision]
    /\ forced' = [b \in Books |-> FALSE]
    /\ EmptyMailbox(Books)
    /\ UNCHANGED <<source, ui, artifactGeneration, bookGeneration, reserved,
                   pruned, prunes, mem, disk, history>>

\* A scan of the folder lists a book, or finds that the file of one has changed.
\* A folder book is then listed anew, any other is to be loaded past the caches.
\* (The kinds of books are not told apart: each step may be that of any kind.)
Scan(b) ==
    /\ ui.step = "idle" /\ seen[b] # source[b]
    /\ seen' = [seen EXCEPT ![b] = source[b]]
    /\ \/ seen[b] # NoRevision /\ forced' = [forced EXCEPT ![b] = TRUE]
       \/ forced' = [forced EXCEPT ![b] = FALSE]
    /\ UNCHANGED <<source, ui, events, generations, worker, mem, disk, job, history>>

\* A thumbnail is asked for: by what is displayed, through a mailbox that a loop of
\* its own serves; for a single entry, through the inbox; or for the whole folder,
\* as jobs of the background scheduler.
Asked(b) == [NoJob EXCEPT !.book = b, !.revision = seen[b], !.generation = generation,
                          !.bookGeneration = bookGeneration[b], !.bypass = forced[b],
                          !.born = artifactGeneration]
MayAsk(t, b) == ui.step = "idle" /\ seen[b] # NoRevision /\ job[t].pc = "idle"

RequestDisplay(t, b) ==
    /\ MayAsk(t, b)
    /\ Become(t, [Asked(b) EXCEPT !.pc = "mailbox"])
    /\ UNCHANGED <<source, uiVars, events, generations, worker, mem, disk, history>>

Send(t) == inbox' = Append(inbox, [msg |-> "Task", task |-> t])

RequestEntry(t, b) ==
    /\ MayAsk(t, b)
    /\ Send(t)
    /\ Become(t, [Asked(b) EXCEPT !.pc = "sent"])
    /\ forced' = [forced EXCEPT ![b] = FALSE]
    /\ UNCHANGED <<source, seen, ui, events, generations, reserved, pruned, prunes, mem,
                   disk, history>>

\* A book whose thumbnail is on the disk already is to have its page map only.
RequestAll(t, b) ==
    /\ MayAsk(t, b)
    /\ LET j == [Asked(b) EXCEPT !.pc = "scheduled"] IN
       Become(t, IF ~j.bypass /\ OnDisk("thumb", j) # {} THEN [j EXCEPT !.plan = "slow"]
                 ELSE j)
    /\ UNCHANGED <<source, uiVars, events, generations, worker, mem, disk, history>>

\* The scheduler skips what is in view, and what is left of an earlier folder; but
\* it may have looked before the folder was left.
SchedulerSend(t) ==
    /\ job[t].pc = "scheduled"
    /\ \/ Send(t) /\ Goto(t, "sent")
       \/ End(t) /\ UNCHANGED inbox
    /\ UNCHANGED <<source, uiVars, events, generations, reserved, pruned, prunes, mem, disk,
                   history>>

\* "Clear cache" in the settings: the worker is told first, ...
ClearCache ==
    /\ ui.step = "idle" /\ Event
    /\ generation' = generation + 1
    /\ artifactGeneration' = artifactGeneration + 1
    /\ inbox' = Append(inbox, [msg |-> "ClearCaches"])
    /\ ui' = [ui EXCEPT !.step = "clear"]
    /\ EmptyMailbox(Books)
    /\ UNCHANGED <<source, seen, forced, bookGeneration, reserved, pruned, prunes,
                   mem, disk, history>>

\* ... then the disk caches are emptied, alone in artifact_gate.
ClearDisk ==
    /\ ui.step = "clear" /\ GateFree
    /\ disk' = {}
    /\ cleared' = artifactGeneration
    /\ forced' = [b \in Books |-> FALSE]
    /\ ui' = UiIdle
    /\ UNCHANGED <<source, seen, events, generations, worker, mem, job, removed, floor>>

\* The user clears the data of one book: likewise.
ClearBook(b) ==
    /\ ui.step = "idle" /\ seen[b] # NoRevision /\ Event
    /\ bookGeneration' = [bookGeneration EXCEPT ![b] = @ + 1]
    /\ forced' = [forced EXCEPT ![b] = FALSE]
    /\ inbox' = Append(inbox, [msg |-> "RemoveArchiveCache", book |-> b])
    /\ ui' = [step |-> "remove", book |-> b]
    /\ EmptyMailbox({b})
    /\ UNCHANGED <<source, seen, generation, artifactGeneration, reserved, pruned,
                   prunes, mem, disk, history>>

\* Mutant: the files of a book are removed without the lock.
RemoveDiskUngated ==
    /\ ui.step = "remove"
    /\ disk' = {a \in disk : a.book # ui.book}
    /\ removed' = [removed EXCEPT ![ui.book] = bookGeneration[ui.book]]
    /\ ui' = UiIdle
    /\ UNCHANGED <<source, seen, forced, events, generations, worker, mem, job, cleared, floor>>

RemoveDisk ==
    /\ ui.step = "remove" /\ GateFree
    /\ disk' = {a \in disk : a.book # ui.book}
    /\ removed' = [removed EXCEPT ![ui.book] = bookGeneration[ui.book]]
    /\ ui' = UiIdle
    /\ UNCHANGED <<source, seen, forced, events, generations, worker, mem, job, cleared, floor>>

-----------------------------------------------------------------------------
(* The worker's normal loop, and the pruning it spawns. *)

\* A task goes on to run, unless it is of an earlier folder.
HandleTask ==
    /\ inbox # <<>> /\ Head(inbox).msg = "Task"
    /\ inbox' = Tail(inbox)
    /\ LET t == Head(inbox).task IN
       IF FolderIsCurrent(job[t]) THEN Goto(t, "queued") ELSE End(t)
    /\ UNCHANGED <<source, uiVars, events, generations, reserved, pruned, prunes, mem, disk,
                   history>>

\* The display mailbox is emptied, and no task is registered as in flight.
ForgetTasks ==
    job' = [t \in Tasks |-> IF job[t].pc = "mailbox" THEN Done
                            ELSE [job[t] EXCEPT !.flight = FALSE]]

HandleClearPending ==
    /\ inbox # <<>> /\ Head(inbox).msg = "ClearPending"
    /\ inbox' = Tail(inbox)
    /\ ForgetTasks
    /\ reserved' = {}
    /\ UNCHANGED <<source, uiVars, events, generations, pruned, prunes, mem, disk, history>>

HandleClearCaches ==
    /\ inbox # <<>> /\ Head(inbox).msg = "ClearCaches"
    /\ inbox' = Tail(inbox)
    /\ ForgetTasks
    /\ reserved' = {}
    /\ pruned' = {}
    /\ mem' = [b \in Books |-> NoRevision]
    /\ UNCHANGED <<source, uiVars, events, generations, prunes, disk, history>>

HandleRemove ==
    /\ inbox # <<>> /\ Head(inbox).msg = "RemoveArchiveCache"
    /\ inbox' = Tail(inbox)
    /\ LET b == Head(inbox).book IN
       /\ job' = [t \in Tasks |-> IF job[t].book = b THEN [job[t] EXCEPT !.flight = FALSE]
                                  ELSE job[t]]
       /\ reserved' = {k \in reserved : k.book # b}
       /\ pruned' = {p \in pruned : p[1] # b}
       /\ mem' = [mem EXCEPT ![b] = NoRevision]
    /\ UNCHANGED <<source, uiVars, events, generations, prunes, disk, history>>

\* Mutant: old artifacts are pruned without the lock.
PruneUngated(p) ==
    /\ prunes' = prunes \ {p}
    /\ IF p[2] = source[p[1]]
       THEN /\ disk' = {a \in disk : a.book = p[1] => a.revision = p[2]}
            /\ floor' = [floor EXCEPT ![p[1]] = p[2]]
       ELSE UNCHANGED <<disk, floor>>
    /\ UNCHANGED <<source, uiVars, events, generations, inbox, reserved, pruned, mem, job,
                   cleared, removed>>

\* prune_obsolete_artifacts, alone in artifact_gate.
Prune(p) ==
    /\ GateFree
    /\ prunes' = prunes \ {p}
    /\ IF p[2] = source[p[1]]
       THEN /\ disk' = {a \in disk : a.book = p[1] => a.revision = p[2]}
            /\ floor' = [floor EXCEPT ![p[1]] = p[2]]
       ELSE UNCHANGED <<disk, floor>>
    /\ UNCHANGED <<source, uiVars, events, generations, inbox, reserved, pruned, mem, job,
                   cleared, removed>>

-----------------------------------------------------------------------------
(* process_thumb: making a thumbnail, and the start of a page map. *)

\* Actions of a task that change nothing else, apart from what they name.
WriteFrame == UNCHANGED <<source, uiVars, generations, inbox, history>>
TaskFrame == WriteFrame /\ UNCHANGED events

\* A file of a disk cache is written, or the write fails and that is logged.
Save(artifacts) ==
    \/ disk' = artifacts /\ UNCHANGED events
    \/ Event /\ UNCHANGED disk

\* A task is dropped if it is late or its like is in flight, or if the book's data
\* has been cleared or its file replaced meanwhile.
Dispatched(j) == j.pc \in {"mailbox", "queued"}
MayBegin(j) ==
    /\ FolderIsCurrent(j) /\ BookIsCurrent(j) /\ SourceIsCurrent(j)
    /\ ~\E t \in Tasks :
          /\ job[t].flight
          /\ job[t].book = j.book /\ job[t].revision = j.revision

Drop(t) ==
    /\ Dispatched(job[t]) /\ job[t].plan = "none" /\ ~MayBegin(job[t])
    /\ End(t)
    /\ TaskFrame /\ UNCHANGED <<reserved, pruned, prunes, mem, disk>>

NoPageMapYet(j) == OnDisk("map", j) = {} /\ OnDisk("failure", j) = {}

Begin(t) ==
    LET j == job[t] IN
    /\ Dispatched(j) /\ j.plan = "none" /\ MayBegin(j)
    /\ SchedulePrune(j)
    /\ Become(t, [j EXCEPT !.pc = "lookup", !.flight = TRUE,
                           !.plan = IF j.bypass \/ NoPageMapYet(j) THEN "wanted" ELSE "none"])
    /\ TaskFrame /\ UNCHANGED <<reserved, mem, disk>>

\* The request was for the page map only; the thumbnail is on the disk.
BeginPageMapOnly(t) ==
    LET j == [job[t] EXCEPT !.artifactGeneration = artifactGeneration] IN
    /\ j.pc = "queued" /\ j.plan = "slow"
    /\ IF SourceIsCurrent(j) /\ NoPageMapYet(j)
       THEN /\ SchedulePrune(j)
            /\ Reserve(j)
            /\ IF MayReserve(j) THEN Become(t, [j EXCEPT !.pc = "pages"]) ELSE End(t)
       ELSE End(t) /\ UNCHANGED <<pruned, prunes, reserved>>
    /\ TaskFrame /\ UNCHANGED <<mem, disk>>

\* A thumbnail is found in a cache; a page map that is wanted becomes a slow one.
Found(t, content, place) ==
    LET j == [job[t] EXCEPT !.artifactGeneration = artifactGeneration,
                            !.content = content, !.pc = place] IN
    IF ~FolderIsCurrent(j) THEN End(t) /\ UNCHANGED reserved
    ELSE IF j.plan = "wanted"
         THEN /\ Reserve(j)
              /\ Become(t, [j EXCEPT !.plan = IF MayReserve(j) THEN "slow" ELSE "none"])
         ELSE Become(t, j) /\ UNCHANGED reserved

FindInMemory(t) ==
    LET j == job[t] IN
    /\ j.pc = "lookup" /\ ~j.bypass /\ mem[j.book] # NoRevision
    /\ Found(t, mem[j.book], "answer")
    /\ TaskFrame /\ UNCHANGED <<pruned, prunes, mem, disk>>

FindOnDisk(t) ==
    LET j == job[t] IN
    /\ j.pc = "lookup" /\ ~j.bypass /\ mem[j.book] = NoRevision
    /\ \E a \in OnDisk("thumb", j) : Found(t, a.content, "store")
    /\ TaskFrame /\ UNCHANGED <<pruned, prunes, mem, disk>>

\* The file is read, for the thumbnail and for a quick page map.
Decode(t) ==
    LET j == job[t] IN
    /\ j.pc = "lookup"
    /\ j.bypass \/ (mem[j.book] = NoRevision /\ OnDisk("thumb", j) = {})
    /\ \/ Become(t, [j EXCEPT !.pc = "decoded", !.content = source[j.book],
                              !.write = TRUE, !.bypass = FALSE])
       \/ End(t)
    /\ TaskFrame /\ UNCHANGED <<reserved, pruned, prunes, mem, disk>>

CheckDecoded(t) ==
    /\ job[t].pc = "decoded"
    /\ IF FolderIsCurrent(job[t]) /\ SourceIsCurrent(job[t]) THEN Goto(t, "store") ELSE End(t)
    /\ TaskFrame /\ UNCHANGED <<reserved, pruned, prunes, mem, disk>>

\* store_and_ready: a thumbnail nobody looks at is not kept in memory.
Stored(t) == IF job[t].write THEN "stamp" ELSE "answer"

Store(t) ==
    /\ job[t].pc = "store"
    /\ \/ BookIsCurrent(job[t]) /\ Goto(t, "putGate")
       \/ Goto(t, Stored(t))
    /\ TaskFrame /\ UNCHANGED <<reserved, pruned, prunes, mem, disk>>

PutInMemory(t) ==
    /\ job[t].pc = "putGate"
    /\ mem' = [mem EXCEPT ![job[t].book] = job[t].content]
    /\ Goto(t, Stored(t))
    /\ TaskFrame /\ UNCHANGED <<reserved, pruned, prunes, disk>>

\* What becomes of the page map, once the thumbnail has been made: a zip archive
\* leaves it for later, a rar archive needs the slow build; a quick map of an epub
\* or a folder is whole or needs it too, and that of a folder may be broken.
Stamp(t) ==
    LET j == [job[t] EXCEPT !.artifactGeneration = artifactGeneration, !.pc = "answer"] IN
    /\ job[t].pc = "stamp"
    /\ IF j.plan # "wanted"
       THEN Become(t, j) /\ UNCHANGED reserved
       ELSE \/ /\ Reserve(j)
               /\ Become(t, [j EXCEPT !.plan = IF MayReserve(j) THEN "slow" ELSE "none"])
            \/ /\ Become(t, [j EXCEPT !.plan = "failed", !.pc = "mark"])
               /\ UNCHANGED reserved
            \/ /\ \E plan \in {"fast", "ready"} : Become(t, [j EXCEPT !.plan = plan])
               /\ UNCHANGED reserved
    /\ TaskFrame /\ UNCHANGED <<pruned, prunes, mem, disk>>

-----------------------------------------------------------------------------
(* handle_thumb_result and DeferredCache::execute: the answer, then the disk. *)

\* The thumbnail is sent to the UI; a late one is not, and nothing of it is kept.
\* One that has come into view meanwhile is put in memory first.
Answer(t) ==
    LET j == job[t] IN
    /\ j.pc = "answer"
    /\ IF FolderIsCurrent(j) /\ BookIsCurrent(j)
       THEN /\ Become(t, [j EXCEPT !.pc = IF j.write THEN "thumb" ELSE "pages",
                                   !.flight = FALSE])
            /\ \/ mem' = [mem EXCEPT ![j.book] = j.content]
               \/ UNCHANGED mem
       ELSE End(t) /\ UNCHANGED mem
    /\ TaskFrame /\ UNCHANGED <<reserved, pruned, prunes, disk>>

\* The pixels are in the hands of the UI, and the encoded thumbnail is dropped.
Handed(t) == Become(t, [job[t] EXCEPT !.pc = "pages", !.write = FALSE])

\* Mutant: the write of a thumbnail looks at the book's counter and file only.
CheckThumbBookOnly(t) ==
    /\ job[t].pc = "thumb"
    /\ IF BookIsCurrent(job[t]) /\ SourceIsCurrent(job[t])
       THEN Goto(t, "thumbGate") ELSE Handed(t)
    /\ TaskFrame /\ UNCHANGED <<reserved, pruned, prunes, mem, disk>>

CheckThumb(t) ==
    /\ job[t].pc = "thumb"
    /\ IF IsCurrent(job[t]) THEN Goto(t, "thumbGate") ELSE Handed(t)
    /\ TaskFrame /\ UNCHANGED <<reserved, pruned, prunes, mem, disk>>

WriteThumb(t) ==
    /\ job[t].pc = "thumbGate"
    /\ Handed(t)
    /\ Save(Written("thumb", job[t]))
    /\ WriteFrame /\ UNCHANGED <<reserved, pruned, prunes, mem>>

StartPages(t) ==
    LET j == job[t] IN
    /\ j.pc = "pages"
    /\ CASE ~BookIsCurrent(j) \/ j.plan \in {"none", "wanted", "failed"} -> End(t)
         [] BookIsCurrent(j) /\ j.plan = "fast" -> Goto(t, "fast")
         [] BookIsCurrent(j) /\ j.plan = "ready" -> Goto(t, "map")
         [] BookIsCurrent(j) /\ j.plan = "slow" ->
                Become(t, [j EXCEPT !.pc = "wait", !.content = NoRevision])
    /\ TaskFrame /\ UNCHANGED <<reserved, pruned, prunes, mem, disk>>

-----------------------------------------------------------------------------
(* PageMapCoordinator: building a page map and writing it. *)

\* complete_fast: the quick map is whole, incomplete or broken.
Assemble(t) ==
    LET j == job[t] IN
    /\ j.pc = "fast"
    /\ IF ~IsCurrent(j)
       THEN End(t) /\ UNCHANGED reserved
       ELSE \/ Goto(t, "map") /\ UNCHANGED reserved
            \/ /\ Reserve(j)
               /\ IF MayReserve(j)
                  THEN Become(t, [j EXCEPT !.plan = "slow", !.pc = "wait",
                                           !.content = NoRevision])
                  ELSE End(t)
            \/ Goto(t, "mark") /\ UNCHANGED reserved
    /\ TaskFrame /\ UNCHANGED <<pruned, prunes, mem, disk>>

\* complete: slow page maps are built one at a time.
BeginSlow(t) ==
    /\ job[t].pc = "wait"
    /\ \A u \in Tasks : job[u].plan = "slow" => job[u].pc \notin Building
    /\ Goto(t, "build")
    /\ TaskFrame /\ UNCHANGED <<reserved, pruned, prunes, mem, disk>>

\* The whole book is read.  A zip archive that cannot be opened is a failure at
\* once, any other failure only if the file is still the one asked for.
Build(t) ==
    LET j == [job[t] EXCEPT !.content = source[job[t].book]] IN
    /\ j.pc = "build"
    /\ \/ Become(t, [j EXCEPT !.pc = "map"])
       \/ Become(t, [j EXCEPT !.pc = "mark"])
       \/ ~IsCurrent(j) /\ End(t)
    /\ TaskFrame /\ UNCHANGED <<reserved, pruned, prunes, mem, disk>>

\* Mutant: the file is not looked at again before its page map is written.
CheckMapCounters(t) ==
    LET j == job[t] IN
    /\ j.pc = "map"
    /\ IF /\ FolderIsCurrent(j) /\ BookIsCurrent(j)
          /\ j.artifactGeneration = artifactGeneration
       THEN Goto(t, "mapGate") ELSE End(t)
    /\ TaskFrame /\ UNCHANGED <<reserved, pruned, prunes, mem, disk>>

CheckMap(t) ==
    /\ job[t].pc = "map"
    /\ IF IsCurrent(job[t]) THEN Goto(t, "mapGate") ELSE End(t)
    /\ TaskFrame /\ UNCHANGED <<reserved, pruned, prunes, mem, disk>>

\* A page map that has been written clears the mark of an earlier failure.
WriteMap(t) ==
    /\ job[t].pc = "mapGate"
    /\ End(t)
    /\ Save(Written("map", job[t]) \ OnDisk("failure", job[t]))
    /\ WriteFrame /\ UNCHANGED <<reserved, pruned, prunes, mem>>

\* mark_page_map_failure looks at the book's counter only.
AfterMark(t) == IF job[t].plan = "failed" THEN Goto(t, "answer") ELSE End(t)

CheckMark(t) ==
    /\ job[t].pc = "mark"
    /\ IF BookIsCurrent(job[t]) THEN Goto(t, "markGate") ELSE AfterMark(t)
    /\ TaskFrame /\ UNCHANGED <<reserved, pruned, prunes, mem, disk>>

WriteMark(t) ==
    /\ job[t].pc = "markGate"
    /\ AfterMark(t)
    /\ Save(Written("failure", job[t]))
    /\ WriteFrame /\ UNCHANGED <<reserved, pruned, prunes, mem>>

-----------------------------------------------------------------------------
UiStep ==
    \/ LeaveFolder \/ ClearCache \/ ClearDisk \/ RemoveDisk
    \/ \E b \in Books : Scan(b) \/ ClearBook(b)
    \/ \E t \in Tasks, b \in Books : RequestDisplay(t, b) \/ RequestEntry(t, b)
                                   \/ RequestAll(t, b)

LoopStep ==
    \/ HandleTask \/ HandleClearPending \/ HandleClearCaches \/ HandleRemove
    \/ \E p \in prunes : Prune(p)
    \/ \E t \in Tasks : SchedulerSend(t)

ThumbStep(t) ==
    \/ Drop(t) \/ Begin(t) \/ BeginPageMapOnly(t)
    \/ FindInMemory(t) \/ FindOnDisk(t) \/ Decode(t) \/ CheckDecoded(t)
    \/ Store(t) \/ PutInMemory(t) \/ Stamp(t)
    \/ Answer(t) \/ CheckThumb(t) \/ WriteThumb(t)

PageMapStep(t) ==
    \/ StartPages(t) \/ Assemble(t) \/ BeginSlow(t) \/ Build(t)
    \/ CheckMap(t) \/ WriteMap(t) \/ CheckMark(t) \/ WriteMark(t)

ArtifactsNext ==
    \/ \E b \in Books : ReplaceSource(b)
    \/ UiStep
    \/ LoopStep
    \/ \E t \in Tasks : ThumbStep(t) \/ PageMapStep(t)

ArtifactsSpec == ArtifactsInit /\ [][ArtifactsNext]_artifactVars

-----------------------------------------------------------------------------
(* Properties. *)

\* Types; a task is in flight only until it has been answered, and what is not
\* under way has left nothing behind.
FilesTyped ==
    /\ source \in [Books -> Revisions]
    /\ seen \in [Books -> Nat] /\ forced \in [Books -> BOOLEAN]
    /\ ui \in [step : {"idle", "clear", "remove"}, book : Books]
    /\ events \in Nat /\ generation \in Nat /\ artifactGeneration \in Nat
    /\ bookGeneration \in [Books -> Nat]
    /\ inbox \in Seq(Message)
    /\ reserved \subseteq Key
    /\ pruned \subseteq Books \X Nat /\ prunes \subseteq Books \X Nat
    /\ mem \in [Books -> Nat]
    /\ disk \subseteq Artifact
    /\ job \in [Tasks -> Job]
    /\ \A t \in Tasks : job[t].flight =>
           job[t].pc \in {"lookup", "decoded", "store", "putGate", "stamp", "mark", "markGate",
                          "answer"}
    /\ cleared \in Nat /\ removed \in [Books -> Nat] /\ floor \in [Books -> Nat]

\* Thumbnails and page maps, as opposed to marks of failures.
Made == {a \in disk : a.what # "failure"}

\* "Clear cache" is for good: once the disk caches have been emptied no work
\* that was asked for earlier puts a thumbnail or a page map back, however long
\* it takes (the checks of DeferredCache::execute and of the coordinator).
ClearedIsGone == \A a \in Made : a.born >= cleared

\* So is clearing the data of one book, and there the marks of failures, which
\* are written without looking at any other counter, stay away too.
RemovedIsGone == \A a \in disk : a.bookGeneration >= removed[a.book]

\* Once the artifacts of older revisions of a book have been pruned none comes
\* back, though tasks for the older revision may still be at work.
PrunedIsGone == \A a \in Made : a.revision >= floor[a.book]

\* A file in the disk caches is what its name says: made from the revision of
\* the book it is filed under, even if the book is replaced while it is read.
FiledUnderItsRevision == \A a \in Made : a.content = a.revision
=============================================================================
