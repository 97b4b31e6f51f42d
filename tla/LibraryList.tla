---------------------------- MODULE LibraryList ----------------------------
(***************************************************************************)
(* The Library's list of a folder and what keeps it like the folder: full  *)
(* loads and differential scans by threads of their own, the watcher's     *)
(* dirty flag, reloads asked for by the user or by a finished external     *)
(* tool, and the user's selection and dialogs, which hold positions in a   *)
(* list that changes under them (ui/library.rs, infra/library_watch.rs,    *)
(* app/library_ops.rs, app/file_ops.rs).                                   *)
(*                                                                         *)
(* The UI thread runs one call after another; the threads that scan, the   *)
(* watcher and the world outside come in between.                          *)
(***************************************************************************)
EXTENDS Integers, Sequences, SequencesExt, FiniteSets

CONSTANTS
    Files,        \* names, numbers in the order the list is sorted by
    DirOf,        \* the folder of each name
    Filters,      \* what the filters of the user let through
    Present,      \* the sets of files that may be there at first
    MaxAsks,      \* bound on what the user does
    MaxChanges,   \* bound on changes of the folders from outside
    MaxFaults     \* bound on scans and watches that fail

ASSUME ListAssumption ==
    /\ Files \subseteq Nat \ {0} /\ IsFiniteSet(Files)
    /\ DirOf \in [Files -> Nat \ {0}]
    /\ Files \in Filters /\ Filters \subseteq SUBSET Files /\ Present \subseteq SUBSET Files
    /\ MaxAsks \in Nat /\ MaxChanges \in Nat /\ MaxFaults \in Nat

VARIABLES
    disk,      \* the revision of each file, 0 for none
    dir,       \* current_dir
    raw,       \* raw_entries: the revisions of the files known
    list,      \* entries: what is shown, sorted and filtered
    filter,
    sel,       \* selected_idx, selected_set, anchor_idx, select_all_active
    dialog,    \* the dialog that is open, the positions it is about
    load,      \* the thread of start_load_dir_async and what it has read
    scan,      \* the thread of start_diff_scan_async and what it has read
    refresh,   \* pending_source_changed_refresh
    restore,   \* manual_reload_restore
    arrival,   \* what to select when the load ends
    past,      \* history_back and history_forward
    dirty,     \* the flag of the watcher
    watch,     \* the watcher's thread
    gone,      \* deletions by a Viewer the Library has still to hear of
    missed,    \* history: a change no watch could see since the last look began
    owed,      \* history: the folder was reported as changed and not looked at since
    asks, changes, faults

listVars  == <<raw, list, filter, sel>>
jobVars   == <<load, scan, refresh, restore>>
watchVars == <<dirty, watch>>
bounds    == <<asks, changes, faults>>
libraryVars == <<disk, dir, listVars, dialog, jobVars, arrival, past, watchVars, gone, missed, owed, bounds>>

Dirs    == {DirOf[f] : f \in Files}
NoFiles == [f \in {} |-> 0]
Failed  == [f \in {0} |-> 0]
NoJob   == [state |-> "none", dir |-> 0, seen |-> NoFiles, manual |-> FALSE]
Begun(d, manual) == [state |-> "begun", dir |-> d, seen |-> NoFiles, manual |-> manual]
NoRestore == [on |-> FALSE, path |-> 0]
NoArrival == [after |-> FALSE, path |-> 0, launch |-> 0, drop |-> 0]
NoDialog  == [kind |-> "none", at |-> {}]

\* What a scan finds in folder d.
Listing(d) == [f \in {f \in Files : DirOf[f] = d /\ disk[f] # 0} |-> disk[f]]

-----------------------------------------------------------------------------
(* The list and the selection *)

NoSelection == [at |-> 0, also |-> {}, anchor |-> 0, all |-> FALSE]

Sorted(l) == \A i, j \in DOMAIN l : i < j => l[i] < l[j]
Shown(files, f) == CHOOSE l \in SetToSeqs(DOMAIN files \cap f) : Sorted(l)
Position(l, f)  == IF f = 0 \/ ~Contains(l, f) THEN 0 ELSE CHOOSE i \in DOMAIN l : l[i] = f
PathAt(l, i)    == IF i = 0 \/ i \notin DOMAIN l THEN 0 ELSE l[i]

Effective(s)        == s.also \cup (IF s.at = 0 THEN {} ELSE {s.at})
SelectedPaths(l, s) == {l[i] : i \in Effective(s) \cap DOMAIN l}

\* restore_selection_by_paths
RestoreByPaths(l, s, paths, path, anchor) ==
    LET at == Position(l, path)
    IN  [s EXCEPT !.at = at,
                  !.also = {i \in DOMAIN l : l[i] \in paths} \ {at},
                  !.anchor = IF at = 0 THEN 0
                             ELSE IF Position(l, anchor) # 0 THEN Position(l, anchor) ELSE at]

\* restore_selection_by_path
RestoreByPath(l, s, path) ==
    [s EXCEPT !.at = Position(l, path), !.also = {}, !.anchor = Position(l, path)]

\* rebuild_entries: the selection in the list newly sorted and filtered.
Carried(l, s) ==
    IF s.all THEN NoSelection
    ELSE RestoreByPaths(l, s, SelectedPaths(list, s), PathAt(list, s.at), PathAt(list, s.anchor))

\* Mutant: positions are kept.
KeptPositions(l) == sel

\* apply_scanned_entries_preserving_state
CarriedByScan(l) ==
    RestoreByPaths(l, [sel EXCEPT !.all = FALSE],
                   SelectedPaths(list, sel), PathAt(list, sel.at), PathAt(list, sel.anchor))

\* remove_deleted_path, of the entry at position i: what follows moves up.
Shifted(i, s, length) ==
    LET up(k) == IF k > i THEN k - 1 ELSE k
    IN  [s EXCEPT !.also = {up(k) : k \in s.also \ {i}},
                  !.anchor = up(s.anchor),
                  !.at = IF s.at = i THEN (IF i < length THEN i ELSE IF length > 1 THEN length - 1 ELSE 0)
                         ELSE up(s.at)]

\* apply_deleted_path_diff for one path and the path to select next, on a triple of list variables.
Removed(t, f, next) ==
    LET i == Position(t.list, f)
        l == IF i = 0 THEN t.list ELSE RemoveAt(t.list, i)
        s == IF i = 0 THEN t.sel ELSE Shifted(i, t.sel, Len(t.list))
    IN  [raw  |-> [g \in DOMAIN t.raw \ {f} |-> t.raw[g]],
         list |-> l,
         sel  |-> IF next # 0 THEN RestoreByPath(l, s, next)
                  ELSE IF l = <<>> THEN [s EXCEPT !.at = 0, !.also = {}, !.anchor = 0] ELSE s]

-----------------------------------------------------------------------------
(* Loads, scans and reloads *)

Ask    == asks < MaxAsks /\ asks' = asks + 1
Change == changes < MaxChanges /\ changes' = changes + 1
Fault  == faults < MaxFaults /\ faults' = faults + 1

\* The watcher sees what happens in the folder on screen.
Watched == watch.state = "on" /\ watch.current

\* set_path, when the folder is another one.
Rebind(d) ==
    IF d = dir THEN UNCHANGED watchVars
    ELSE dirty' = FALSE /\ watch' = [watch EXCEPT !.current = FALSE]

\* start_load_dir_async: everything is cleared and every scan under way forgotten.
StartLoadDir(d) ==
    /\ dir' = d /\ Rebind(d)
    /\ raw' = NoFiles /\ list' = <<>> /\ sel' = NoSelection
    /\ load' = Begun(d, FALSE) /\ scan' = NoJob /\ restore' = NoRestore
    /\ refresh' = FALSE /\ missed' = FALSE /\ owed' = FALSE
    /\ UNCHANGED filter

\* invalidate_diff_scan, start_diff_scan_async: reload_current_dir_diff.
ReloadDiff(path) ==
    /\ scan' = Begun(dir, TRUE)
    /\ restore' = [on |-> TRUE, path |-> path]
    /\ refresh' = FALSE

\* A look that begins now sees what was missed, unless a load that has read before it comes after it.
LookBegins ==
    /\ missed' = (missed /\ load.state = "read")
    /\ owed' = FALSE

\* The user presses F5.
ReloadCurrentDir ==
    /\ dialog = NoDialog /\ Ask
    /\ ReloadDiff(PathAt(list, sel.at)) /\ LookBegins
    /\ UNCHANGED <<disk, dir, listVars, dialog, load, arrival, past, watchVars, gone, changes, faults>>

\* The thread of a load reads the folder, or fails to.
LoadReads ==
    /\ load.state = "begun"
    /\ \/ load' = [load EXCEPT !.state = "read", !.seen = Listing(load.dir)] /\ UNCHANGED faults
       \/ Fault /\ load' = [load EXCEPT !.state = "read", !.seen = Failed]
    /\ UNCHANGED <<disk, dir, listVars, dialog, scan, refresh, restore, arrival, past, watchVars, gone,
                   missed, owed, asks, changes>>

ScanReads ==
    /\ scan.state = "begun"
    /\ \/ scan' = [scan EXCEPT !.state = "read", !.seen = Listing(scan.dir)] /\ UNCHANGED faults
       \/ Fault /\ scan' = [scan EXCEPT !.state = "read", !.seen = Failed]
    /\ UNCHANGED <<disk, dir, listVars, dialog, load, refresh, restore, arrival, past, watchVars, gone,
                   missed, owed, asks, changes>>

\* resolve_pending_select, apply_pending_after_load and resolve_pending_drop_select.
Arrived(l) ==
    LET byLaunch == IF arrival.launch = 0 \/ l = <<>> THEN NoSelection
                    ELSE [NoSelection EXCEPT !.at = IF Contains(l, arrival.launch)
                                                    THEN Position(l, arrival.launch) ELSE 1]
        byAfter  == IF arrival.after THEN RestoreByPath(l, byLaunch, arrival.path) ELSE byLaunch
    IN  IF Position(l, arrival.drop) # 0 THEN RestoreByPath(l, byAfter, arrival.drop) ELSE byAfter

\* start_pending_source_changed_refresh, when a load or scan has ended and no other runs.
RefreshNext(other) == refresh /\ other.state = "none"

\* poll_async_load with apply_loaded_dir.  A scan begun meanwhile goes on.
PollAsyncLoad ==
    /\ load.state = "read" /\ load' = NoJob
    /\ IF load.seen = Failed THEN UNCHANGED <<listVars, arrival>>
       ELSE /\ raw' = load.seen /\ list' = Shown(load.seen, filter) /\ sel' = Arrived(list')
            /\ arrival' = NoArrival
            /\ UNCHANGED filter
    /\ IF RefreshNext(scan)
       THEN ReloadDiff(0) /\ missed' = FALSE /\ owed' = FALSE
       ELSE missed' = (missed \/ load.seen = Failed) /\ UNCHANGED <<scan, restore, refresh, owed>>
    /\ UNCHANGED <<disk, dir, dialog, past, watchVars, gone, bounds>>

\* The list and the selection once a scan has been applied.
ListAfterScan == IF scan.seen = raw THEN list ELSE Shown(scan.seen, filter)
SelAfterScan ==
    LET s == IF scan.seen = raw THEN sel ELSE CarriedByScan(ListAfterScan)
    IN  IF scan.manual /\ restore.path # 0 THEN RestoreByPath(ListAfterScan, s, restore.path) ELSE s

\* apply_dir_scan_result with apply_scanned_entries_preserving_state.
ApplyDirScanResult ==
    /\ scan.state = "read"
    /\ IF scan.seen = Failed \/ scan.dir # dir THEN UNCHANGED listVars
       ELSE raw' = scan.seen /\ list' = ListAfterScan /\ sel' = SelAfterScan /\ UNCHANGED filter
    /\ IF RefreshNext(load)
       THEN ReloadDiff(PathAt(list', sel'.at)) /\ missed' = FALSE /\ owed' = FALSE
       ELSE /\ scan' = NoJob /\ restore' = NoRestore
            /\ missed' = (missed \/ scan.seen = Failed)
            /\ UNCHANGED <<refresh, owed>>
    /\ UNCHANGED <<disk, dir, dialog, load, arrival, past, watchVars, gone, bounds>>

\* Mutant: the flag is taken whether or not a scan may start.
TakeDirtyFirst ==
    /\ dirty /\ dirty' = FALSE
    /\ scan' = IF load.state = "none" /\ scan.state = "none" THEN Begun(dir, FALSE) ELSE scan
    /\ missed' = FALSE /\ owed' = FALSE
    /\ UNCHANGED <<disk, dir, listVars, dialog, load, refresh, restore, arrival, past, watch, gone, bounds>>

\* The three-second gate of poll_current_dir_changes has opened.
PollCurrentDirChanges ==
    /\ dirty /\ load.state = "none" /\ scan.state = "none"
    /\ dirty' = FALSE /\ scan' = Begun(dir, FALSE)
    /\ missed' = FALSE /\ owed' = FALSE
    /\ UNCHANGED <<disk, dir, listVars, dialog, load, refresh, restore, arrival, past, watch, gone, bounds>>

-----------------------------------------------------------------------------
(* The watcher's thread *)

\* mark_dirty, which does nothing when the folder has been bound anew.
MarkDirty == dirty' = (dirty \/ watch.current)

\* windows_watch_loop takes the folder of now and asks for notifications, or cannot.
WatchStarts ==
    /\ ~watch.current
    /\ \/ /\ watch' = [state |-> "on", current |-> TRUE, news |-> FALSE]
          /\ UNCHANGED <<dirty, faults>>
       \/ /\ Fault
          /\ watch' = [state |-> "failed", current |-> TRUE, news |-> FALSE] /\ dirty' = TRUE
    /\ UNCHANGED <<disk, dir, listVars, dialog, jobVars, arrival, past, gone, missed, owed, asks, changes>>

WatchNotifies ==
    /\ watch.state = "on" /\ watch.news
    /\ MarkDirty /\ watch' = [watch EXCEPT !.news = FALSE]
    /\ UNCHANGED <<disk, dir, listVars, dialog, jobVars, arrival, past, gone, missed, owed, bounds>>

\* A failed watch is not taken up again for this folder.
WatchFails ==
    /\ watch.state = "on" /\ Fault
    /\ MarkDirty /\ watch' = [watch EXCEPT !.state = "failed", !.news = FALSE]
    /\ UNCHANGED <<disk, dir, listVars, dialog, jobVars, arrival, past, gone, missed, owed, asks, changes>>

-----------------------------------------------------------------------------
(* Outside the Library *)

\* A change of folder d is noticed, or passes unseen.
Noticed(d) ==
    IF d # dir THEN UNCHANGED <<watch, missed>>
    ELSE IF Watched THEN watch' = [watch EXCEPT !.news = TRUE] /\ UNCHANGED missed
    ELSE missed' = TRUE /\ UNCHANGED watch

\* Another program writes, replaces or removes a file.
FileChanges ==
    /\ Change
    /\ \E f \in Files :
           /\ \/ disk' = [disk EXCEPT ![f] = @ + f + Cardinality(Files)]
              \/ disk[f] # 0 /\ disk' = [disk EXCEPT ![f] = 0]
           /\ Noticed(DirOf[f])
    /\ UNCHANGED <<dir, listVars, dialog, jobVars, arrival, past, dirty, gone, owed, asks, faults>>

\* A Viewer deletes its book and goes on to another, or closes.
ViewerDeletes ==
    /\ Change
    /\ \E f \in Files, next \in Files \cup {0} :
           /\ disk[f] # 0 /\ f # next /\ disk' = [disk EXCEPT ![f] = 0]
           /\ gone' = Append(gone, <<f, next>>)
           /\ Noticed(DirOf[f])
    /\ UNCHANGED <<dir, listVars, dialog, jobVars, arrival, past, dirty, owed, asks, faults>>

\* drain_pending_viewer_sync_events, Deleted: apply_deleted_path_diff, also of a book that is there again.
DrainDeleted ==
    /\ gone # <<>> /\ gone' = Tail(gone)
    /\ LET t == Removed([raw |-> raw, list |-> list, sel |-> sel], Head(gone)[1], Head(gone)[2])
       IN  raw' = t.raw /\ list' = t.list /\ sel' = t.sel
    /\ arrival' = [arrival EXCEPT !.path = IF @ = Head(gone)[1] THEN 0 ELSE @,
                                   !.drop = IF @ = Head(gone)[1] THEN 0 ELSE @,
                                   !.launch = IF @ = Head(gone)[1] THEN 0 ELSE @]
    /\ missed' = (missed \/ disk[Head(gone)[1]] # 0)
    /\ UNCHANGED <<disk, dir, filter, dialog, jobVars, past, watchVars, owed, bounds>>

\* Mutant: the scan under way will do.
RefreshIfIdle ==
    /\ Change
    /\ IF load.state = "none" /\ scan.state = "none"
       THEN ReloadDiff(PathAt(list, sel.at)) /\ missed' = FALSE /\ owed' = FALSE
       ELSE owed' = TRUE /\ UNCHANGED <<scan, restore, refresh, missed>>
    /\ UNCHANGED <<disk, dir, listVars, dialog, load, arrival, past, watchVars, gone, asks, faults>>

\* An external tool that was started for a book of the folder has ended: refresh_for_source_changed.
RefreshForSourceChanged ==
    /\ Change
    /\ IF load.state = "none" /\ scan.state = "none"
       THEN ReloadDiff(PathAt(list, sel.at)) /\ missed' = FALSE /\ owed' = FALSE
       ELSE refresh' = TRUE /\ owed' = TRUE /\ UNCHANGED <<scan, restore, missed>>
    /\ UNCHANGED <<disk, dir, listVars, dialog, load, arrival, past, watchVars, gone, asks, faults>>

-----------------------------------------------------------------------------
(* The user *)

\* What an action on the list alone leaves as it is.
NoJobMoves == UNCHANGED <<disk, dir, jobVars, arrival, past, watchVars, gone, missed, owed, changes, faults>>

Click ==
    /\ dialog = NoDialog /\ Ask
    /\ \E i \in DOMAIN list : sel' = [at |-> i, also |-> {}, anchor |-> i, all |-> FALSE]
    /\ UNCHANGED <<raw, list, filter, dialog>> /\ NoJobMoves

\* extend_selection_to
ShiftClick ==
    /\ dialog = NoDialog /\ Ask
    /\ \E i \in DOMAIN list :
           LET from == IF sel.anchor # 0 THEN sel.anchor ELSE IF sel.at # 0 THEN sel.at ELSE i
           IN  sel' = [sel EXCEPT !.at = i, !.all = FALSE,
                                  !.also = @ \cup (IF from <= i THEN from .. i ELSE i .. from)]
    /\ UNCHANGED <<raw, list, filter, dialog>> /\ NoJobMoves

\* ctrl_toggle_selection, remove_from_selection
CtrlClick ==
    /\ dialog = NoDialog /\ Ask
    /\ \E i \in DOMAIN list :
           LET rest == sel.also \ {i}
               next == IF rest = {} THEN 0 ELSE CHOOSE k \in rest : \A o \in rest : k <= o
           IN  sel' = IF i \notin Effective(sel)
                      THEN [at |-> i, also |-> Effective(sel) \cup {i}, anchor |-> i, all |-> FALSE]
                      ELSE [at |-> IF sel.at = i THEN next ELSE sel.at,
                            also |-> IF sel.at = i THEN rest \ {next} ELSE rest,
                            anchor |-> i, all |-> FALSE]
    /\ UNCHANGED <<raw, list, filter, dialog>> /\ NoJobMoves

\* select_all_visible
SelectAll ==
    /\ dialog = NoDialog /\ Ask
    /\ LET at == IF list = <<>> THEN 0 ELSE IF sel.at \in DOMAIN list THEN sel.at ELSE 1
       IN  sel' = [at |-> at, also |-> DOMAIN list \ {at}, anchor |-> at, all |-> list # <<>>]
    /\ UNCHANGED <<raw, list, filter, dialog>> /\ NoJobMoves

\* The topbar and the left pane take input while a dialog is open.
SetFilter ==
    /\ Ask
    /\ \E f \in Filters \ {filter} :
           /\ filter' = f /\ list' = Shown(raw, f) /\ sel' = Carried(list', sel)
    /\ UNCHANGED <<raw, dialog>> /\ NoJobMoves

\* begin_delete, with the selection or the entry under the pointer; begin_rename.
OpenDialog ==
    /\ dialog = NoDialog /\ Ask
    /\ \/ /\ sel.at # 0
          /\ dialog' = [kind |-> "delete", at |-> Effective(sel)]
       \/ \E i \in DOMAIN list, kind \in {"delete", "rename"} :
              dialog' = [kind |-> kind, at |-> {i}]
    /\ UNCHANGED listVars /\ NoJobMoves

CancelDialog ==
    /\ dialog # NoDialog /\ dialog' = NoDialog
    /\ UNCHANGED <<listVars, asks>> /\ NoJobMoves

\* The paths at the dialog's positions, in order.
Targets == [k \in 1 .. Cardinality(dialog.at \cap DOMAIN list) |->
                list[SetToSortSeq(dialog.at \cap DOMAIN list, <)[k]]]

\* commit_delete: the first n targets are deleted, then one cannot be.
CommitDelete ==
    /\ dialog.kind = "delete" /\ dialog' = NoDialog
    /\ \E n \in 0 .. Len(Targets) :
           LET done == {Targets[k] : k \in 1 .. n}
               After[k \in 0 .. n] ==
                   IF k = 0 THEN [raw |-> raw, list |-> list, sel |-> sel]
                   ELSE Removed(After[k - 1], Targets[k], 0)
           IN  /\ \A f \in done : disk[f] # 0
               /\ n < Len(Targets) => disk[Targets[n + 1]] = 0 \/ faults < MaxFaults
               /\ disk' = [f \in Files |-> IF f \in done THEN 0 ELSE disk[f]]
               /\ raw' = After[n].raw /\ list' = After[n].list /\ sel' = After[n].sel
               /\ arrival' = [arrival EXCEPT !.path = IF @ \in done THEN 0 ELSE @,
                                              !.drop = IF @ \in done THEN 0 ELSE @,
                                              !.launch = IF @ \in done THEN 0 ELSE @]
               /\ IF n = 0 THEN UNCHANGED <<watch, missed>> ELSE Noticed(dir)
    /\ UNCHANGED <<dir, filter, jobVars, past, dirty, gone, owed, bounds>>

\* commit_rename: the name may be that of another file, which rename replaces.
CommitRename ==
    /\ dialog.kind = "rename" /\ dialog' = NoDialog
    /\ \E i \in dialog.at, g \in Files :
           IF i \in DOMAIN list /\ disk[PathAt(list, i)] # 0 /\ DirOf[g] = dir /\ g # PathAt(list, i)
           THEN /\ disk' = [disk EXCEPT ![g] = disk[list[i]], ![list[i]] = 0]
                /\ arrival' = [after |-> TRUE, path |-> g,
                               launch |-> IF arrival.launch = list[i] THEN g ELSE arrival.launch,
                               drop |-> IF arrival.drop = list[i] THEN g ELSE arrival.drop]
                /\ StartLoadDir(dir)
           ELSE UNCHANGED <<disk, dir, listVars, jobVars, arrival, watchVars, missed, owed>>
    /\ UNCHANGED <<past, gone, bounds>>

Here == [dir |-> dir, path |-> PathAt(list, sel.at)]

\* navigate_to_dir_with_history; commit_path_edit goes to a folder that way, and to a file in it.
Navigate ==
    /\ Ask
    /\ \E f \in Files, typed \in BOOLEAN :
           /\ typed => disk[f] # 0
           /\ IF DirOf[f] = dir THEN UNCHANGED <<dir, listVars, jobVars, watchVars, past, missed, owed>>
              ELSE /\ past' = [back |-> Append(past.back, Here), forward |-> <<>>]
                   /\ StartLoadDir(DirOf[f])
           /\ DirOf[f] # dir \/ typed
           /\ arrival' = [arrival EXCEPT !.after = TRUE, !.path = IF typed THEN f ELSE 0]
    /\ UNCHANGED <<disk, dialog, gone, changes, faults>>

NavigateBack ==
    /\ past.back # <<>> /\ Ask
    /\ past' = [back |-> Front(past.back), forward |-> Append(past.forward, Here)]
    /\ arrival' = [arrival EXCEPT !.after = TRUE, !.path = Last(past.back).path]
    /\ StartLoadDir(Last(past.back).dir)
    /\ UNCHANGED <<disk, dialog, gone, changes, faults>>

\* Free of the bound, as each step forward needs a step back before it.
NavigateForward ==
    /\ past.forward # <<>>
    /\ past' = [back |-> Append(past.back, Here), forward |-> Front(past.forward)]
    /\ arrival' = [arrival EXCEPT !.after = TRUE, !.path = Last(past.forward).path]
    /\ StartLoadDir(Last(past.forward).dir)
    /\ UNCHANGED <<disk, dialog, gone, bounds>>

\* OpenFavorite of the left pane, also of the folder on screen; a book or folder dropped on the window.
OpenFavoriteOrDrop ==
    /\ Ask /\ past' = [back |-> <<>>, forward |-> <<>>]
    /\ \E f \in Files :
           /\ StartLoadDir(DirOf[f])
           /\ \/ arrival' = [arrival EXCEPT !.after = TRUE, !.path = 0]
              \/ disk[f] # 0 /\ arrival' = [arrival EXCEPT !.drop = f]
              \/ arrival' = [arrival EXCEPT !.drop = 0]
    /\ UNCHANGED <<disk, dialog, gone, changes, faults>>

-----------------------------------------------------------------------------

ListInit ==
    /\ \E present \in Present : disk = [f \in Files |-> IF f \in present THEN f ELSE 0]
    /\ dir \in Dirs
    /\ raw = NoFiles /\ list = <<>> /\ filter = Files /\ sel = NoSelection
    /\ dialog = NoDialog
    /\ load = Begun(dir, FALSE) /\ scan = NoJob /\ refresh = FALSE /\ restore = NoRestore
    /\ \E f \in Files \cup {0} : arrival = [NoArrival EXCEPT !.launch = f]
    /\ past = [back |-> <<>>, forward |-> <<>>]
    /\ dirty = FALSE /\ watch = [state |-> "none", current |-> FALSE, news |-> FALSE]
    /\ gone = <<>> /\ missed = FALSE /\ owed = FALSE
    /\ asks = 0 /\ changes = 0 /\ faults = 0

UserStep ==
    \/ Click \/ ShiftClick \/ CtrlClick \/ SelectAll \/ SetFilter
    \/ OpenDialog \/ CancelDialog \/ CommitDelete \/ CommitRename
    \/ ReloadCurrentDir \/ Navigate \/ NavigateBack \/ NavigateForward \/ OpenFavoriteOrDrop

PollList == PollAsyncLoad \/ ApplyDirScanResult \/ PollCurrentDirChanges \/ DrainDeleted

ListNext ==
    \/ UserStep
    \/ PollList
    \/ LoadReads \/ ScanReads
    \/ WatchStarts \/ WatchNotifies \/ WatchFails
    \/ FileChanges \/ ViewerDeletes \/ RefreshForSourceChanged

ListSpec == ListInit /\ [][ListNext]_libraryVars

\* Frames are drawn, as the threads that end and the watcher ask for them; the threads run.
FairListSpec ==
    /\ ListSpec
    /\ WF_libraryVars(PollAsyncLoad) /\ WF_libraryVars(ApplyDirScanResult)
    /\ WF_libraryVars(PollCurrentDirChanges) /\ WF_libraryVars(DrainDeleted)
    /\ WF_libraryVars(LoadReads) /\ WF_libraryVars(ScanReads)
    /\ WF_libraryVars(WatchStarts) /\ WF_libraryVars(WatchNotifies)
-----------------------------------------------------------------------------
(* Properties *)

\* The list is what a scan would find now, or something makes the Library look again.
Alarm == missed \/ dirty \/ (Watched /\ watch.news)
Fresh(seen) == seen = Listing(dir)
Awaits(job) == job.state = "read" => job.seen = Failed \/ Fresh(job.seen)
LookComes == load.state = "begun" \/ scan.state = "begun"

(***************************************************************************)
(* No change that the watcher can see is lost between the watcher, a load, *)
(* a scan and a reload that overtake one another: as long as the list, or  *)
(* what a thread has read and will put in its place, is not what is on the *)
(* disk, the dirty flag is set or will be, or a look is still to come.     *)
(* And a folder an external tool was reported to have changed is looked at *)
(* after the report.                                                       *)
(***************************************************************************)
StaleListNoticed ==
    /\ ~Alarm /\ load.state = "none" /\ scan.state = "none" => Fresh(raw)
    /\ ~Alarm => Awaits(load) /\ Awaits(scan)
    /\ owed => refresh \/ LookComes

\* Differences that come by a periodic scan leave the user's selection what it was, less what is gone.
SelectionSurvivesScan ==
    [][ApplyDirScanResult /\ ~scan.manual
        => SelectedPaths(list', sel') = SelectedPaths(list, sel) \cap ToSet(list')]_libraryVars

\* Once nothing changes any more the list is that of the folder, but for what no watch could see.
ListSettles == <>[](missed \/ raw = Listing(dir))
=============================================================================
