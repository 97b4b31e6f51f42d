------------------------------- MODULE Stores -------------------------------
(***************************************************************************)
(* The files that remember things about books, and who writes them.        *)
(*                                                                         *)
(* book_state.json holds a record per book: the reading status, the        *)
(* display options.  Every writer writes all of it, and nothing locks it:  *)
(* a Viewer process writes the copy it read when it started, the Library's *)
(* threads for the Viewers and its window thread read it, change one       *)
(* record and write it back (domain/archive_settings.rs).  The favourites  *)
(* are kept in memory and saved (infra/favorite_store.rs); the groups of   *)
(* books are read, changed and written (infra/kind_group_store.rs).        *)
(*                                                                         *)
(* The rest of what Library and Viewer say to each other is in ViewerIpc.  *)
(***************************************************************************)
EXTENDS Naturals, Sequences, FiniteSets

CONSTANTS
    NumPaths,      \* the paths a book may have are 1 .. NumPaths
    Present,       \* those that have one at the start
    Plain,         \* the paths that are their own normal form: no capital letters
    Marked,        \* favourites, and books with a group, at the start
    Viewers,       \* the Viewer processes
    Links,         \* whether a Viewer is opened from the Library: a subset of BOOLEAN
    MaxSessions,   \* how many books are opened in Viewers
    CanFail,       \* whether reads and writes fail, answers are late, Viewers are killed
    MaxEvents      \* how often a display option is set, the Library's user does something to a
                   \* book (clear, delete, rename, star, group), a read or a write fails, an answer
                   \* is given up, a Viewer killed (a favourite or a group that cannot be saved is
                   \* not counted)

ASSUME StoresAssumption ==
    /\ NumPaths \in Nat \ {0} /\ Present \subseteq 1 .. NumPaths /\ Marked \subseteq Present /\ Plain \subseteq 1 .. NumPaths
    /\ Links \subseteq BOOLEAN
    /\ MaxSessions \in Nat /\ MaxEvents \in Nat /\ CanFail \in BOOLEAN

VARIABLES
    files,         \* the paths a book is at
    disk,          \* book_state.json
    viewer,        \* the Viewer processes: see Reading
    line,          \* what each has asked of its thread in the Library
    thread,        \* these threads: the copy of the file one is about to change
    syncs,         \* what they have left for the Library's window thread
    done,          \* books the Library's own deletion is over with
    ui,            \* what the window thread is changing
    hud,           \* the reading status the Library shows
    favs,          \* the favourites in memory,
    favFile,       \*   and in their file
    groups,        \* the books that a group was chosen for, in that file
    sessions,      \* history: what became of each session
    due,           \* history: what the changes made so far should have come to
    late,          \* history: paths whose record was written after the book had gone
    off,           \* history: paths whose status changed unknown to the Library
    events         \* how many of these there have been

vars == <<files, disk, viewer, line, thread, syncs, done, ui, hud, favs, favFile,
          groups, sessions, due, late, off, events>>
favVars  == <<favs, favFile>>
uiVars   == <<syncs, done, ui, hud, groups>>
ipcVars  == <<line, thread>>

-----------------------------------------------------------------------------
(* Records *)

Paths    == 1 .. NumPaths
NoPath   == 0
Statuses == {"Unread", "Reading", "Read"}

\* FileSettings: "none" is the status of a path without a record.
NoRecord  == [status |-> "none", option |-> 0]
Default   == [status |-> "Unread", option |-> 0]
NoRecords == [p \in Paths |-> NoRecord]
Records   == [status : Statuses, option : 0 .. 1] \cup {NoRecord}

\* SettingsStore::get, and the entry that a change makes.
Entry(r)    == IF r = NoRecord THEN Default ELSE r
StatusOf(r) == Entry(r).status

\* set_spread_mode and the others: one option of the entry.
WithOption(r, n) == [Entry(r) EXCEPT !.option = n]

\* Mutant: a book that has been read stays so.
ApplyUpwards(r, shown) ==
    IF shown = "none" \/ r.status = "Read" THEN r
    ELSE [Entry(r) EXCEPT !.status = IF shown = "last" THEN "Read" ELSE "Reading"]

\* apply_reading_session_update: nothing when no page has been shown.
Apply(r, shown) ==
    IF shown = "none" THEN r
    ELSE [Entry(r) EXCEPT !.status = IF shown = "last" THEN "Read" ELSE "Reading"]

\* History: what a session should make of a record.
Judged(r, shown) ==
    CASE shown = "last"  -> [status |-> "Read", option |-> r.option]
      [] shown = "first" -> [status |-> "Reading", option |-> r.option]
      [] OTHER           -> r

\* The page a book is opened at: the one it was left at, unless that setting is off.
StartPage(r) == IF StatusOf(r) = "Read" THEN "last" ELSE "first"

\* remove_path_from_disk, rename_path_on_disk
Without(data, p)    == [data EXCEPT ![p] = NoRecord]
Moved(data, p, to)  ==
    IF data[p] = NoRecord THEN data ELSE [data EXCEPT ![p] = NoRecord, ![to] = data[p]]

\* load_book_state_books: a file that cannot be read is taken for an empty one.
Loaded(ok) == IF ok THEN disk ELSE NoRecords

-----------------------------------------------------------------------------
(* Who is where *)

\* ViewerApp: its copy of the file, the page shown last, and ReadingSessionState.  Of every copy,
\* stale is history: it is not what the file has, for others have written the file since it was
\* read, or it could not be read.
Gone == [state |-> "gone", book |-> NoPath, copy |-> NoRecords, stale |-> FALSE,
         linked |-> FALSE, start |-> "first", shown |-> "none", id |-> 0,
         inFlight |-> FALSE, sent |-> FALSE, next |-> NoPath, closes |-> FALSE]

Asked(kind, v) == [kind |-> kind, book |-> viewer[v].book, shown |-> viewer[v].shown,
                   id |-> viewer[v].id]
Sync(kind, p, next) == [kind |-> kind, book |-> p, next |-> next]

IdleThread == [busy |-> FALSE, copy |-> NoRecords, stale |-> FALSE]
IdleUi     == [op |-> "none", book |-> NoPath, to |-> NoPath, copy |-> NoRecords,
               stale |-> FALSE]

\* Nothing is under way in the Library.
Quiet == /\ \A v \in Viewers : line[v] = <<>> /\ ~thread[v].busy
         /\ syncs = <<>> /\ done = {} /\ ui.op = "none"

Failures(oks) == Cardinality({i \in DOMAIN oks : ~oks[i]})
Spend(n)      == events + n <= MaxEvents /\ events' = events + n
Failing(oks)  == (Failures(oks) > 0 => CanFail) /\ Spend(Failures(oks))
Asking(oks)   == (Failures(oks) > 0 => CanFail) /\ Spend(1 + Failures(oks))

\* write_book_state: the file is replaced, or stays as it was.  The copies of others are stale.
Written(data, ok) == IF ok THEN data ELSE disk
Aged(h, data, ok) == [h EXCEPT !.stale = @ \/ Written(data, ok) # disk]
AgedViewers(data, ok) ==
    [v \in Viewers |-> IF viewer[v].state = "gone" THEN Gone ELSE Aged(viewer[v], data, ok)]
AgedThreads(threads, data, ok) ==
    [v \in Viewers |-> IF threads[v].busy THEN Aged(threads[v], data, ok) ELSE IdleThread]
AgedUi(u, data, ok) == IF u.op = "none" THEN IdleUi ELSE Aged(u, data, ok)

Replace(data, ok, threads, u) ==
    /\ disk' = Written(data, ok)
    /\ thread' = AgedThreads(threads, data, ok) /\ ui' = AgedUi(u, data, ok)

\* What a change should come to: nothing is claimed of one made to a stale copy, or not written.
Due(change, stale, data, ok) == due' = IF stale \/ ~ok THEN Written(data, ok) ELSE change

\* The statuses a write changes, but for the path the Library is told of.
Changed(data, ok, p) ==
    {q \in Paths \ {p} : StatusOf(Written(data, ok)[q]) # StatusOf(disk[q])}
\* Paths without a book that are given a record, or keep it when p is done with.
Late(data, ok, p) ==
    late \cup {q \in Paths \ files : Written(data, ok)[q] # NoRecord /\ (disk[q] = NoRecord \/ q = p)}

Init ==
    /\ files = Present
    /\ disk = NoRecords /\ due = NoRecords
    /\ viewer = [v \in Viewers |-> Gone]
    /\ line = [v \in Viewers |-> <<>>] /\ thread = [v \in Viewers |-> IdleThread]
    /\ syncs = <<>> /\ done = {} /\ ui = IdleUi
    /\ hud = [p \in Paths |-> IF p \in Present THEN "Unread" ELSE "absent"]
    /\ favs = Marked /\ favFile = Marked /\ groups = Marked
    /\ sessions = <<>> /\ late = {} /\ off = {}
    /\ events = 0

-----------------------------------------------------------------------------
(* A Viewer *)

Slot == Len(sessions) < MaxSessions

\* A new ViewerState for the book: its session has shown nothing.
Reading(v, p, copy, stale, linked) ==
    [Gone EXCEPT !.state = "open", !.book = p, !.copy = copy, !.stale = stale, !.linked = linked,
                 !.start = StartPage(disk[p]), !.id = Len(sessions) + 1]

\* ReadingSessionState::begin_notification, send_reading_session_finished: a session is told once.
Tells(w) == w.linked /\ ~w.sent /\ ~w.inFlight

\* A session that its Viewer has ended, if it is told at all.
Ended(w) == IF Tells(w) THEN [sessions EXCEPT ![w.id] = "ended"] ELSE sessions

\* launch_app: the settings are read once, for as long as the process runs.
Open(v) ==
    /\ viewer[v].state = "gone" /\ line[v] = <<>> /\ ~thread[v].busy /\ Slot
    /\ \E p \in files, linked \in Links, ok \in BOOLEAN :
           /\ Failing(<<ok>>)
           /\ viewer' = [viewer EXCEPT ![v] = Reading(v, p, Loaded(ok), ~ok, linked)]
           /\ sessions' = Append(sessions, IF linked THEN "open" ELSE "untold")
    /\ UNCHANGED <<files, disk, ipcVars, uiVars, favVars, due, late, off>>

\* record_display_commit: the first page, or the pages, put on the screen.
Show(v) ==
    /\ viewer[v].state = "open"
    /\ \E page \in {"first", "last"} :
           /\ page # viewer[v].shown
           /\ viewer[v].shown = "none" => page = viewer[v].start
           /\ viewer' = [viewer EXCEPT ![v].shown = page, ![v].start = "first"]
    /\ UNCHANGED <<files, disk, ipcVars, uiVars, favVars, sessions, due, late, off, events>>

\* SettingsStore::set_spread_mode and the others: the copy is changed and written, all of it.
SetOption(v) ==
    LET w    == viewer[v]
        copy == [w.copy EXCEPT ![w.book] = WithOption(@, 1 - Entry(@).option)]
    IN  /\ w.state = "open"
        /\ \E ok \in BOOLEAN :
               /\ Asking(<<ok>>) /\ Replace(copy, ok, thread, ui)
               /\ viewer' = [AgedViewers(copy, ok) EXCEPT
                                ![v] = [w EXCEPT !.copy = copy, !.stale = ~ok]]
               /\ Due([due EXCEPT ![w.book] = WithOption(@, copy[w.book].option)],
                      w.stale, copy, ok)
               /\ off' = off \cup Changed(copy, ok, NoPath) /\ late' = Late(copy, ok, NoPath)
        /\ UNCHANGED <<files, line, syncs, done, hud, groups, favVars, sessions>>

\* reopen_to_path: the old book's session is told without waiting; the copy is kept.
Reopen(v, p) ==
    LET w == viewer[v]
    IN  /\ line' = IF Tells(w) THEN [line EXCEPT ![v] = Append(@, Asked("finished", v))] ELSE line
        /\ viewer' = [viewer EXCEPT ![v] = Reading(v, p, w.copy, w.stale, w.linked)]
        /\ sessions' = Append(Ended(w), IF w.linked THEN "open" ELSE "untold")

\* Another book of the folder.
GoTo(v) ==
    /\ viewer[v].state = "open" /\ Slot
    /\ \E p \in files \ {viewer[v].book} : Reopen(v, p)
    /\ UNCHANGED <<files, disk, thread, uiVars, favVars, due, late, off, events>>

\* ReadingSessionState::discard_notification
Discarded(w) == [w EXCEPT !.inFlight = FALSE, !.sent = TRUE]

\* NavigateTo after a rebuild of the book: nothing is told of its session.
GoOnRebuilt(v) ==
    LET w == Discarded(viewer[v])
    IN  /\ w.state = "open" /\ w.linked /\ w.book \in files /\ Slot
        /\ \E p \in files \ {w.book} :
               viewer' = [viewer EXCEPT ![v] = Reading(v, p, w.copy, w.stale, w.linked)]
        /\ line' = IF Tells(w) THEN [line EXCEPT ![v] = Append(@, Asked("finished", v))] ELSE line
        /\ sessions' = Append([sessions EXCEPT ![w.id] = "untold"], "open")
        /\ UNCHANGED <<files, disk, thread, uiVars, favVars, due, late, off, events>>

\* The user deletes the book on screen, to go on to the next one or to close.
AskDelete(v) ==
    /\ viewer[v].state = "open" /\ viewer[v].linked
    /\ \E closes \in BOOLEAN :
           viewer' = [viewer EXCEPT ![v].state = "deleting", ![v].closes = closes]
    /\ line' = [line EXCEPT ![v] = Append(@, Asked("delete", v))]
    /\ Spend(1)
    /\ UNCHANGED <<files, disk, thread, uiVars, favVars, sessions, due, late, off>>

\* send_reading_session_finished, of a Viewer that closes: it waits for the answer.
Finish(v) ==
    LET w == viewer[v]
    IN  /\ line' = IF Tells(w) THEN [line EXCEPT ![v] = Append(@, Asked("finished", v))] ELSE line
        /\ viewer' = [viewer EXCEPT ![v] = [w EXCEPT !.state = "closing",
                                                     !.inFlight = @ \/ Tells(w)]]
        /\ sessions' = Ended(w)

\* The answer to a deletion: DeleteAndNext opens the next book, DeleteAndClose closes.
Deleted(v) ==
    LET w == viewer[v]
    IN  /\ w.state = "answered"
        /\ IF w.closes \/ w.next = NoPath THEN Finish(v) ELSE Slot /\ Reopen(v, w.next)
        /\ UNCHANGED <<files, disk, thread, uiVars, favVars, due, late, off, events>>

Close(v) ==
    /\ viewer[v].state \in {"open", "deleting"} /\ Finish(v)
    /\ UNCHANGED <<files, disk, thread, uiVars, favVars, due, late, off, events>>

\* The answer has come: complete_notification.
Acked(v) ==
    /\ viewer[v].state = "closing" /\ viewer[v].inFlight /\ line[v] = <<>> /\ ~thread[v].busy
    /\ viewer' = [viewer EXCEPT ![v].inFlight = FALSE, ![v].sent = TRUE]
    /\ UNCHANGED <<files, disk, ipcVars, uiVars, favVars, sessions, due, late, off, events>>

\* Mutant: a session whose answer is late may be told again.
TimedOutFreely(w) == [w EXCEPT !.inFlight = FALSE]

\* It has not come in time.
TimedOut(w) == w

\* A process ends.  Only the request its thread in the Library is at is sure to have been sent.
Sent(v, l) == IF thread[v].busy THEN <<Head(l)>> ELSE <<>>

Untold(l)  == [s \in DOMAIN sessions |-> IF \E i \in DOMAIN l : l[i].id = s /\ l[i].kind = "finished"
                                         THEN "untold" ELSE sessions[s]]

\* on_exit tells the session once more, if it has not been told; the process ends.  What its
\* I/O thread has not sent by then is lost, if the wait was given up.
Exit(v) ==
    LET w    == IF viewer[v].inFlight THEN TimedOut(viewer[v]) ELSE viewer[v]
        more == IF Tells(w) THEN Append(line[v], Asked("finished", v)) ELSE line[v]
    IN  /\ w.state = "closing"
        /\ viewer' = [viewer EXCEPT ![v] = Gone]
        /\ \E lost \in BOOLEAN :
               /\ lost => viewer[v].inFlight /\ Sent(v, more) # more
               /\ line' = [line EXCEPT ![v] = IF lost THEN Sent(v, more) ELSE more]
               /\ sessions' = IF lost THEN Untold(SubSeq(more, Len(Sent(v, more)) + 1, Len(more))) ELSE sessions
               /\ Failing(<<~lost>>)
        /\ UNCHANGED <<files, disk, thread, uiVars, favVars, due, late, off>>

\* The process is killed.
Kill(v) ==
    /\ viewer[v].state \in {"open", "deleting", "answered"} /\ Failing(<<FALSE>>)
    /\ viewer' = [viewer EXCEPT ![v] = Gone]
    /\ LET kept == Sent(v, line[v])
       IN  /\ line' = [line EXCEPT ![v] = kept]
           /\ sessions' = [Untold(SubSeq(line[v], Len(kept) + 1, Len(line[v])))
                              EXCEPT ![viewer[v].id] = "untold"]
    /\ UNCHANGED <<files, disk, thread, uiVars, favVars, due, late, off>>

-----------------------------------------------------------------------------
(* The Library's thread for a Viewer *)

\* update_reading_session_on_disk reads the file ...
SessionReads(v) ==
    /\ ~thread[v].busy /\ line[v] # <<>> /\ Head(line[v]).kind = "finished"
    /\ \E ok \in BOOLEAN :
           /\ Failing(<<ok>>)
           /\ thread' = [thread EXCEPT ![v] = [busy |-> TRUE, copy |-> Loaded(ok), stale |-> ~ok]]
    /\ UNCHANGED <<files, disk, viewer, line, uiVars, favVars, sessions, due, late, off>>

Told(id) == [sessions EXCEPT ![id] = IF @ = "ended" THEN "told" ELSE "wrong"]

\* ... and writes it, if the session changes the record: its status, or the page to
\* go on at or the number of pages (moved), which a status does not show.
SessionWrites(v) ==
    LET m    == Head(line[v])
        copy == thread[v].copy
    IN  /\ thread[v].busy
        /\ \E ok, moved \in BOOLEAN :
           LET same == ~moved /\ Apply(copy[m.book], m.shown) = copy[m.book]
               data == IF same THEN disk ELSE [copy EXCEPT ![m.book] = Apply(@, m.shown)]
           IN  /\ same => ok
               /\ Failing(<<ok>>)
               /\ Replace(data, ok, [thread EXCEPT ![v] = IdleThread], ui)
               /\ viewer' = AgedViewers(data, ok)
               /\ Due([due EXCEPT ![m.book] = Judged(@, m.shown)], thread[v].stale, data, ok)
               /\ off' = off \cup Changed(data, ok, m.book) /\ late' = Late(data, ok, NoPath)
        /\ line' = [line EXCEPT ![v] = Tail(@)]
        /\ syncs' = Append(syncs, Sync("finished", m.book, NoPath))
        /\ sessions' = Told(m.id)
        /\ UNCHANGED <<files, done, hud, groups, favVars>>

Answer(v, state, p) ==
    viewer' = IF viewer[v].state = "deleting"
              THEN [viewer EXCEPT ![v].state = state, ![v].next = p] ELSE viewer

\* The book on the screen is deleted.  The answer, if the Viewer still waits, has the next one.
ThreadDeletes(v) ==
    LET m == Head(line[v])
    IN  /\ ~thread[v].busy /\ line[v] # <<>> /\ m.kind = "delete"
        /\ line' = [line EXCEPT ![v] = Tail(@)]
        /\ IF m.book \in files
           THEN \E p \in {q \in files : q # m.book} \cup {NoPath} :
                    /\ p = NoPath => files = {m.book}
                    /\ files' = files \ {m.book}
                    /\ syncs' = Append(syncs, Sync("deleted", m.book, p))
                    /\ Answer(v, "answered", p)
           ELSE Answer(v, "open", NoPath) /\ UNCHANGED <<files, syncs>>
        /\ UNCHANGED <<disk, thread, done, ui, hud, groups, favVars, sessions, due, late,
                       off, events>>

-----------------------------------------------------------------------------
(* The Library's window thread *)

AtEvents == ui.op = "none"

\* Mutant: the favourites are not read again when they could not be saved.
SaveFavsOnly(s, out, saved, read) ==
    IF saved THEN favs' = (s \cap files) \ out /\ favFile' = (s \cap files) \ out
    ELSE favs' = s /\ UNCHANGED favFile

\* FavoriteStore::save, which compacts, and load when the file could not be written.  Paths that
\* cannot be seen are dropped: those without a book, and those out of reach at the moment.
SaveFavs(s, out, saved, read) ==
    LET Compact(t) == (t \cap files) \ out
    IN  IF saved THEN favs' = Compact(s) /\ favFile' = Compact(s)
        ELSE favs' = (IF read THEN Compact(favFile) ELSE {}) /\ UNCHANGED favFile

\* How a save may go: nothing is read after one that succeeds.
SavesFavs(s) ==
    \E out \in SUBSET files, saved, read \in BOOLEAN : (saved => read) /\ SaveFavs(s, out, saved, read)

\* toggle_favorite, from the Library or asked for by a Viewer.
ToggleFavorite ==
    /\ AtEvents /\ Spend(1)
    /\ \E p \in files : SavesFavs(IF p \in favs THEN favs \ {p} ELSE favs \cup {p})
    /\ UNCHANGED <<files, disk, viewer, ipcVars, uiVars, sessions, due, late, off>>

\* The user gives a book a group, or takes it back: set_overrides_bulk and remove_overrides_bulk,
\* under the normal form of the path.  Nothing is written when the file cannot be read.
AssignGroup ==
    /\ AtEvents /\ Spend(1)
    /\ \E p \in files : groups' \in {groups \cup {p}, groups \ {p}, groups}
    /\ UNCHANGED <<files, disk, viewer, ipcVars, syncs, done, ui, hud, favVars, sessions, due,
                   late, off>>

\* remove_overrides_bulk and rename_override, after a deletion and a rename, are given the path as it
\* is: they find the group of a plain path only, and what they put under another is never found.
Ungrouped(p)     == groups \ ({p} \cap Plain)
Regrouped(p, to) == Ungrouped(p) \cup (IF p \in groups \cap Plain THEN {to} \cap Plain ELSE {})

\* What the window thread does to a record: read the file now, write it in a next step.
Begins(op, p, to, ok) ==
    ui' = [op |-> op, book |-> p, to |-> to, copy |-> Loaded(ok), stale |-> ~ok]

\* commit_clear_book_settings
ClearSettings ==
    /\ AtEvents
    /\ \E p \in files, ok \in BOOLEAN :
           /\ Asking(<<ok>>)
           /\ Begins("clear", p, NoPath, ok)
    /\ UNCHANGED <<files, disk, viewer, ipcVars, syncs, done, hud, groups, favVars, sessions,
                   due, late, off>>

\* A record that is not there is not written.
Removal(p) == IF ui.copy[p] = NoRecord THEN disk ELSE Without(ui.copy, p)

RemovalWritten(p, ok, all) ==
    /\ ui.copy[p] = NoRecord => ok
    /\ Replace(Removal(p), ok, thread, IdleUi)
    /\ viewer' = AgedViewers(Removal(p), ok)
    /\ off' = (off \ {p}) \cup Changed(Removal(p), ok, p)
                 \cup IF disk'[p] = NoRecord THEN {} ELSE {p}
    /\ Due(Without(due, p), ui.stale, Removal(p), ok)
    /\ late' = Late(Removal(p), ok, p) \cup IF all THEN {} ELSE {p}

ClearWrites ==
    LET p == ui.book
    IN  /\ ui.op = "clear"
        /\ \E ok \in BOOLEAN :
               /\ Failing(<<ok>>) /\ RemovalWritten(p, ok, TRUE)
        /\ hud' = [hud EXCEPT ![p] = "absent"]
        /\ UNCHANGED <<files, line, syncs, done, groups, favVars, sessions>>

\* A deletion of the Library's own.
DeleteBook ==
    /\ AtEvents
    /\ \E p \in files : files' = files \ {p} /\ done' = done \cup {p}
    /\ Spend(1)
    /\ UNCHANGED <<disk, viewer, ipcVars, syncs, ui, hud, groups, favVars, sessions, due, late,
                   off>>

\* apply_deleted_path_diff, of its own deletions and of the threads'.
ForgetBook ==
    /\ AtEvents
    /\ \E p \in Paths, ok \in BOOLEAN :
           /\ \/ p \in done /\ done' = done \ {p} /\ UNCHANGED syncs
              \/ /\ syncs # <<>> /\ Head(syncs).kind = "deleted" /\ Head(syncs).book = p
                 /\ syncs' = Tail(syncs) /\ UNCHANGED done
           /\ Failing(<<ok>>)
           /\ IF p \in favs THEN SavesFavs(favs \ {p}) ELSE UNCHANGED favVars
           /\ hud' = [hud EXCEPT ![p] = "absent"]
           /\ Begins("forget", p, NoPath, ok)
    /\ UNCHANGED <<files, disk, viewer, ipcVars, groups, sessions, due, late, off>>

ForgetWrites ==
    LET p == ui.book
    IN  /\ ui.op = "forget"
        /\ \E ok, grouped \in BOOLEAN :
               /\ Failing(<<ok>>) /\ RemovalWritten(p, ok, grouped)
               /\ groups' = IF grouped THEN Ungrouped(p) ELSE groups
        /\ UNCHANGED <<files, line, syncs, done, hud, favVars, sessions>>

\* apply_renamed_path_diff, after the file has been renamed.
RenameBook ==
    /\ AtEvents
    /\ \E p \in files, to \in Paths \ files, ok \in BOOLEAN :
           /\ Asking(<<ok>>)
           /\ files' = (files \ {p}) \cup {to}
           /\ Begins("rename", p, to, ok)
    /\ UNCHANGED <<disk, viewer, ipcVars, syncs, done, hud, groups, favVars, sessions, due,
                   late, off>>

Renamed(s, p, to) == IF p \in s THEN (s \ {p}) \cup {to} ELSE s

RenameWrites ==
    LET p    == ui.book
        to   == ui.to
        same == ui.copy[p] = NoRecord
        data == IF same THEN disk ELSE Moved(ui.copy, p, to)
    IN  /\ ui.op = "rename"
        /\ \E ok, shown, grouped \in BOOLEAN :
               /\ same => ok
               /\ Failing(<<ok, shown>>)
               /\ Replace(data, ok, thread, IdleUi)
               /\ viewer' = AgedViewers(data, ok)
               /\ Due([due EXCEPT ![p] = NoRecord, ![to] = due[p]], ui.stale, data, ok)
               /\ hud' = [hud EXCEPT ![p] = "absent",
                                     ![to] = IF shown THEN StatusOf(disk'[to]) ELSE "Unread"]
               /\ off' = ((off \ {to}) \cup Changed(data, ok, to)) \cup IF shown THEN {} ELSE {to}
               /\ IF p \in favs THEN SavesFavs(Renamed(favs, p, to))
                  ELSE UNCHANGED favVars
               /\ groups' = IF grouped THEN Regrouped(p, to) ELSE groups
               /\ late' = Late(data, ok, p) \cup (IF p \in late \/ (same /\ disk[to] # NoRecord) THEN {to} ELSE {})
                            \cup IF grouped THEN {} ELSE {p}
        /\ UNCHANGED <<files, line, syncs, done, sessions>>

\* Mutant: a status shown already is not read again.
RefreshHudOnce ==
    /\ AtEvents /\ syncs # <<>> /\ Head(syncs).kind = "finished"
    /\ syncs' = Tail(syncs)
    /\ \E ok \in BOOLEAN :
           LET p == Head(syncs).book
           IN  /\ Failing(<<ok>>)
               /\ hud' = IF hud[p] # "absent" THEN hud ELSE [hud EXCEPT ![p] = StatusOf(Loaded(ok)[p])]
               /\ off' = IF ok THEN off \ {p} ELSE off \cup {p}
    /\ UNCHANGED <<files, disk, viewer, ipcVars, done, ui, groups, favVars, sessions, due, late>>

\* drain_pending_viewer_sync_events, of a session: refresh_reading_hud_state_for_path.
RefreshHud ==
    /\ AtEvents /\ syncs # <<>> /\ Head(syncs).kind = "finished"
    /\ syncs' = Tail(syncs)
    /\ \E ok \in BOOLEAN :
           LET p == Head(syncs).book
           IN  /\ Failing(<<ok>>)
               /\ hud' = [hud EXCEPT ![p] = StatusOf(Loaded(ok)[p])]
               /\ off' = IF ok THEN off \ {p} ELSE off \cup {p}
    /\ UNCHANGED <<files, disk, viewer, ipcVars, done, ui, groups, favVars, sessions, due, late>>

\* A folder has been loaded: prefill_reading_hud_states.
LoadDir ==
    /\ AtEvents
    /\ \E ok \in BOOLEAN :
           /\ Failing(<<ok>>) /\ off' = IF ok THEN {} ELSE Paths
           /\ hud' = [p \in Paths |-> IF p \in files THEN StatusOf(Loaded(ok)[p]) ELSE "absent"]
    /\ UNCHANGED <<files, disk, viewer, ipcVars, syncs, done, ui, groups, favVars, sessions, due,
                   late>>

-----------------------------------------------------------------------------

ViewerStep(v) ==
    \/ Open(v) \/ Show(v) \/ SetOption(v) \/ GoTo(v) \/ GoOnRebuilt(v) \/ AskDelete(v)
    \/ Deleted(v) \/ Close(v) \/ Acked(v) \/ Exit(v) \/ Kill(v)

ThreadStep(v) == SessionReads(v) \/ SessionWrites(v) \/ ThreadDeletes(v)

WindowStep ==
    \/ ToggleFavorite \/ AssignGroup \/ ClearSettings \/ ClearWrites \/ DeleteBook
    \/ ForgetBook \/ ForgetWrites \/ RenameBook \/ RenameWrites \/ RefreshHud \/ LoadDir

Next ==
    \/ \E v \in Viewers : ViewerStep(v) \/ ThreadStep(v)
    \/ WindowStep

Spec == Init /\ [][Next]_vars

-----------------------------------------------------------------------------
(* Properties *)

\* The records in the file are what the sessions, the options, the clearings, the deletions and
\* the renames have made of them one after the other, whoever made them.  A change loses others
\* only when its copy of the file was stale (a Viewer's own since the process began, or one of two
\* that overlapped), or could not be read or written.  Of a path whose book had gone when its
\* record was written, or could not be removed, nothing is claimed.
RecordKept == \A p \in Paths \ late : disk[p] = due[p]

\* The Library shows the reading status that is in the file once it has done what is under way,
\* but for books whose status a stale copy changed when another book's was meant, a Viewer wrote,
\* or that could not be read.
HudAgrees ==
    Quiet => \A p \in files \ off : StatusOf(disk[p]) = IF hud[p] = "absent" THEN "Unread" ELSE hud[p]

\* A session is told once at most, one that was given up because its book was rebuilt never,
\* and every one that its Viewer has ended is told, unless that Viewer would not wait longer or
\* was killed.  The Library lives: the end of the pipe, after which a Viewer stops waiting
\* (viewer_app.rs:302-309, 338-345) and the session is not told, is not modelled.
ToldOnce ==
    /\ \A s \in DOMAIN sessions : sessions[s] # "wrong"
    /\ Quiet => \A s \in DOMAIN sessions : sessions[s] # "ended"

\* A path that has no book has no record, no favourite and no group once the Library has done what
\* is under way, unless a stale copy brought the record back, or it was written after the book had gone
\* or could not be removed; the group of a path with capital letters stays.  And a favourite in memory is
\* in the file, even when saving has failed.
NothingLeftBehind ==
    /\ favs \subseteq favFile
    /\ Quiet => \A p \in Paths \ (files \cup late) :
                    /\ disk[p] = NoRecord
                    /\ p \notin favs \cup (groups \cap Plain)
=============================================================================
