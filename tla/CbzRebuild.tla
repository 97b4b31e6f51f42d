----------------------------- MODULE CbzRebuild -----------------------------
(***************************************************************************)
(* Deleting pages from an archive (infra/archive/cbz_rebuild.rs and        *)
(* cbz_rebuild_transaction.rs): the rebuilt archive is written next to the *)
(* book under a temporary name, the book is renamed to a backup, the       *)
(* temporary file to the output, and the backup removed.                   *)
(*                                                                         *)
(* Nothing stops two Library processes from showing the same folder, so    *)
(* every file operation is a step of its own, and any of them may fail; a  *)
(* process may also be killed between two of them.  One directory holds    *)
(* the books a.rar and a.cbz, whose rebuilds share one temporary name.     *)
(***************************************************************************)
EXTENDS Integers, FiniteSets

CONSTANTS
    Libraries,      \* the Library processes
    Pages,          \* book ("rar", "cbz") -> the image entries it was made with
    MaxFaults,      \* bound: file operations that fail
    Broken          \* all that is found in an archive not written to its end

Books == {"rar", "cbz"}
AllPages == Pages["rar"] \cup Pages["cbz"]

ASSUME PagesAssumption ==
    /\ DOMAIN Pages = Books
    /\ Pages["rar"] # {} /\ Pages["cbz"] # {}
    /\ Pages["rar"] \cap Pages["cbz"] = {}
ASSUME FaultsAssumption == MaxFaults \in Nat

ASSUME BrokenAssumption == Broken \notin AllPages

\* The content of a file: the images of an archive, at least one (entries that
\* are no images are always kept, and left out here).  A name without a file has
\* no content.
Whole == (SUBSET AllPages) \ {{}}
Partial == {Broken}
NoFile == {}

\* plan_cbz_rebuild_for_library_entry: the names of a rebuild of a book.  Zip
\* archives are rebuilt in place, rar archives as a cbz.
Output == "cbz"
Tmp == "tmp"
Backup(book) == IF book = "rar" THEN "rarBackup" ELSE "cbzBackup"
Names == {"rar", "cbz", "tmp", "rarBackup", "cbzBackup"}

\* Two archives made from one book.
SameBook(s, t) ==
    s # NoFile /\ t # NoFile /\ \E b \in Books : s \subseteq Pages[b] /\ t \subseteq Pages[b]

Places == {"idle", "checkOutput", "checkTmp", "checkBackup", "list", "create",
           "write", "unwrite", "statInput", "statOutput", "statTmp", "statBackup",
           "toBackup", "toOutput", "rollback", "assessInput", "assessBackup",
           "removeBackup"}

VARIABLES
    file,           \* name -> content
    pc,             \* process -> the next file operation of its rebuild
    book,           \* process -> the book it rebuilds
    drop,           \* process -> delete_entries
    keep,           \* process -> keep_entries
    outcome,        \* process -> how its last rebuild ended, or is to be reported
    faults          \* file operations that failed so far

vars == <<file, pc, book, drop, keep, outcome, faults>>
plan == <<book, drop, keep>>

Init ==
    /\ file \in [Names -> {NoFile, Pages["rar"], Pages["cbz"]}]
    /\ \A n \in Names \ Books : file[n] = NoFile
    /\ \A b \in Books : file[b] \in {NoFile, Pages[b]}
    /\ pc = [p \in Libraries |-> "idle"]
    /\ book = [p \in Libraries |-> "cbz"]
    /\ drop = [p \in Libraries |-> {}]
    /\ keep = [p \in Libraries |-> {}]
    /\ outcome = [p \in Libraries |-> "none"]
    /\ faults = 0

Goto(p, place) == pc' = [pc EXCEPT ![p] = place]
Report(p, result) == outcome' = [outcome EXCEPT ![p] = result]
\* The plan goes with the rebuild.
Forget(p) ==
    /\ Goto(p, "idle")
    /\ book' = [book EXCEPT ![p] = Output]
    /\ drop' = [drop EXCEPT ![p] = {}]
    /\ keep' = [keep EXCEPT ![p] = {}]
End(p, result) == Forget(p) /\ Report(p, result)
Continue(p, place) == Goto(p, place) /\ UNCHANGED <<book, drop, keep, outcome>>

Exists(n) == file[n] # NoFile
Fault == faults < MaxFaults /\ faults' = faults + 1
NoFault == UNCHANGED faults
\* An operation that needs cond succeeds; fails, for want of it or for another
\* reason.  A failed operation has changed nothing.
Succeeds(cond) == cond /\ NoFault
Fails(cond) == (~cond /\ NoFault) \/ Fault
Renamed(from, to) == file' = [file EXCEPT ![to] = file[from], ![from] = NoFile]
Removed(n) == file' = [file EXCEPT ![n] = NoFile]

-----------------------------------------------------------------------------
(* prepare_cbz_rebuild_tmp *)

\* The page sets a Viewer offers to delete from a book, never all it shows: a.cbz
\* may be the former a.rar.
Offered(b) ==
    UNION {(SUBSET Pages[m]) \ {{}, Pages[m]} : m \in {b, "rar"}}

\* The user confirms the deletion of pages from an archive the Library lists
\* (its list, and the Viewer's pages, may be out of date).
Plan(p, b, d) ==
    /\ pc[p] = "idle"
    /\ book' = [book EXCEPT ![p] = b]
    /\ drop' = [drop EXCEPT ![p] = d]
    /\ Goto(p, IF b = Output THEN "checkTmp" ELSE "checkOutput")
    /\ Report(p, "none")
    /\ UNCHANGED <<file, keep, faults>>

\* validate_cbz_rebuild_plan_paths: one Path::exists() after the other, each of
\* which answers false when it fails.
CheckName(p, place, n, next) ==
    /\ pc[p] = place
    /\ \/ Fails(Exists(n)) /\ Continue(p, next)
       \/ Succeeds(Exists(n)) /\ End(p, "error")
    /\ UNCHANGED file

CheckPaths(p) ==
    \/ CheckName(p, "checkOutput", Output, "checkTmp")
    \/ CheckName(p, "checkTmp", Tmp, "checkBackup")
    \/ CheckName(p, "checkBackup", Backup(book[p]), "list")

\* collect_cbz_rebuild_archive_selection: every entry to delete must be there,
\* and an image must remain.
Selectable(p) ==
    LET pages == file[book[p]] IN
    pages \in Whole /\ drop[p] \subseteq pages /\ drop[p] # pages

List(p) ==
    /\ pc[p] = "list"
    /\ \/ /\ Succeeds(Selectable(p))
          /\ keep' = [keep EXCEPT ![p] = file[book[p]] \ drop[p]]
          /\ Goto(p, "create")
          /\ UNCHANGED <<book, drop, outcome>>
       \/ Fails(Selectable(p)) /\ End(p, "error")
    /\ UNCHANGED file

\* write_cbz_rebuild_tmp_archive, first half: create_new fails if it exists.
Create(p) ==
    /\ pc[p] = "create"
    /\ \/ /\ Succeeds(~Exists(Tmp))
          /\ file' = [file EXCEPT ![Tmp] = Partial]
          /\ Continue(p, "write")
       \/ Fails(~Exists(Tmp)) /\ End(p, "error") /\ UNCHANGED file

\* Second half: the kept entries are read from the book, by name, and written.
Readable(p) == file[book[p]] \in Whole /\ keep[p] \subseteq file[book[p]]

Write(p) ==
    /\ pc[p] = "write"
    /\ \/ /\ Succeeds(Readable(p))
          /\ file' = [file EXCEPT ![Tmp] = keep[p]]
          /\ Continue(p, "statInput")
       \/ Fails(Readable(p)) /\ Continue(p, "unwrite") /\ UNCHANGED file

\* Its error path: the temporary file is removed, if that works.
Unwrite(p) ==
    /\ pc[p] = "unwrite"
    /\ \/ Succeeds(Removed(Tmp))
       \/ Fault /\ UNCHANGED file
    /\ End(p, "error")

-----------------------------------------------------------------------------
(* finalize_cbz_rebuild_transaction *)

\* One symlink_metadata of validate_preconditions; its failure is Unknown, which
\* is neither Present nor Absent.
Stat(p, place, n, present, next) ==
    /\ pc[p] = place
    /\ \/ Succeeds(Exists(n) = present) /\ Continue(p, next)
       \/ Fails(Exists(n) = present) /\ End(p, "notCommitted")
    /\ UNCHANGED file

\* validate_preconditions
Validate(p) ==
    \/ Stat(p, "statInput", book[p], TRUE,
            IF book[p] = Output THEN "statTmp" ELSE "statOutput")
    \/ Stat(p, "statOutput", Output, FALSE, "statTmp")
    \/ Stat(p, "statTmp", Tmp, TRUE, "statBackup")
    \/ Stat(p, "statBackup", Backup(book[p]), FALSE, "toBackup")

\* The book is renamed to its backup; if that fails, what is reported depends on
\* a second look at both.
ToBackup(p) ==
    /\ pc[p] = "toBackup"
    /\ \/ /\ Succeeds(Exists(book[p]))
          /\ Renamed(book[p], Backup(book[p]))
          /\ Continue(p, "toOutput")
       \/ /\ Fails(Exists(book[p]))
          /\ Goto(p, "assessInput") /\ Report(p, "notCommitted")
          /\ UNCHANGED <<file, plan>>

\* Mutant: the backup goes whether or not the output is in place.
ToOutputBackupFirst(p) ==
    /\ pc[p] = "toOutput"
    /\ \/ /\ Succeeds(Exists(Tmp))
          /\ Renamed(Tmp, Output)
          /\ Continue(p, "removeBackup")
       \/ Fails(Exists(Tmp)) /\ Continue(p, "rollback") /\ Removed(Backup(book[p]))

\* The temporary file is renamed to the output: the commit.
ToOutput(p) ==
    /\ pc[p] = "toOutput"
    /\ \/ Succeeds(Exists(Tmp)) /\ Renamed(Tmp, Output) /\ Continue(p, "removeBackup")
       \/ Fails(Exists(Tmp)) /\ Continue(p, "rollback") /\ UNCHANGED file

\* Mutant: the outcome of the rollback is not looked at.
RollbackUnchecked(p) ==
    /\ pc[p] = "rollback"
    /\ \/ Succeeds(Exists(Backup(book[p]))) /\ Renamed(Backup(book[p]), book[p])
       \/ Fails(Exists(Backup(book[p]))) /\ UNCHANGED file
    /\ End(p, "rolledBack")

\* The backup is renamed back.
Rollback(p) ==
    /\ pc[p] = "rollback"
    /\ \/ /\ Succeeds(Exists(Backup(book[p])))
          /\ Renamed(Backup(book[p]), book[p])
          /\ Goto(p, "assessInput") /\ Report(p, "rolledBack")
          /\ UNCHANGED plan
       \/ /\ Fails(Exists(Backup(book[p])))
          /\ End(p, "recoveryRequired") /\ UNCHANGED file

\* snapshot_artifacts after a failure: only a book that is there, without a
\* backup, is reported as untouched or restored.
Assess(p) ==
    /\ pc[p] \in {"assessInput", "assessBackup"}
    /\ LET asExpected == IF pc[p] = "assessInput" THEN Exists(book[p])
                         ELSE ~Exists(Backup(book[p]))
       IN \/ /\ Succeeds(asExpected)
             /\ IF pc[p] = "assessInput" THEN Continue(p, "assessBackup")
                ELSE End(p, outcome[p])
          \/ Fails(asExpected) /\ End(p, "recoveryRequired")
    /\ UNCHANGED file

\* After the commit the backup is removed; a failure is only a warning.
RemoveBackup(p) ==
    /\ pc[p] = "removeBackup"
    /\ \/ Succeeds(Removed(Backup(book[p]))) /\ End(p, "committed")
       \/ Fault /\ UNCHANGED file /\ End(p, "committedWithWarning")

-----------------------------------------------------------------------------
(* The world *)

\* A Library process is killed and started again.
Crash(p) ==
    /\ pc[p] # "idle"
    /\ End(p, "none")
    /\ UNCHANGED <<file, faults>>

Quiet == \A p \in Libraries : pc[p] = "idle"

\* While no rebuild runs, the user tidies up what one left behind: a temporary
\* file, a backup whose book is there; and puts back a backup whose book is not,
\* the latest if there are two.
CleanTmp ==
    /\ Quiet /\ Exists(Tmp)
    /\ Removed(Tmp)
    /\ UNCHANGED <<pc, plan, outcome, faults>>

CleanBackup(b) ==
    /\ Quiet /\ Exists(Backup(b))
    /\ \E n \in Books : file[n] # NoFile /\ file[n] \subseteq file[Backup(b)]
    /\ Removed(Backup(b))
    /\ UNCHANGED <<pc, plan, outcome, faults>>

RestoreBackup(b) ==
    /\ Quiet /\ Exists(Backup(b)) /\ ~Exists(b)
    /\ \A n \in Books : ~SameBook(file[n], file[Backup(b)])
    /\ \A n \in Books : SameBook(file[Backup(n)], file[Backup(b)]) =>
                            file[Backup(b)] \subseteq file[Backup(n)]
    /\ Renamed(Backup(b), b)
    /\ UNCHANGED <<pc, plan, outcome, faults>>

Rebuild(p) ==
    \/ CheckPaths(p) \/ List(p) \/ Create(p) \/ Write(p) \/ Unwrite(p)
    \/ Validate(p) \/ ToBackup(p) \/ ToOutput(p) \/ Rollback(p) \/ Assess(p)
    \/ RemoveBackup(p)

Next ==
    \/ \E p \in Libraries :
         \/ \E b \in Books : \E d \in Offered(b) : Plan(p, b, d)
         \/ Rebuild(p)
         \/ Crash(p)
    \/ CleanTmp
    \/ \E b \in Books : CleanBackup(b) \/ RestoreBackup(b)

Spec == Init /\ [][Next]_vars

-----------------------------------------------------------------------------
\* No rename lands on an existing file: the Path::exists() of the preparation
\* may be wrong or stale, the second look makes up for it.
NothingOverwritten ==
    \A n \in Names : file'[n] # file[n] =>
        \/ file[n] = NoFile
        \/ file'[n] = NoFile
        \/ file[n] = Partial /\ n = Tmp

\* A rebuild reported as not committed (once its renames began) or rolled back
\* leaves the book under its own name, complete, and without a backup.
FailureLeavesBook(p) ==
    /\ pc[p] \in {"assessInput", "assessBackup", "rollback"} /\ pc'[p] = "idle"
    /\ outcome'[p] \in {"notCommitted", "rolledBack"}
    => /\ file'[book[p]] \in Whole /\ keep[p] \subseteq file'[book[p]]
       /\ file'[Backup(book[p])] = NoFile

\* The commit puts an archive with the kept pages and none of the deleted ones in
\* the place of the book, which it finds in the backup: two rebuilds that share
\* the temporary name never publish each other's archive.
CommitDelivers(p) ==
    pc[p] = "toOutput" /\ pc'[p] = "removeBackup"
    => /\ file'[Output] = keep[p] /\ keep[p] \cap drop[p] = {}
       /\ keep[p] \subseteq file'[Backup(book[p])]
       /\ book[p] # Output => file'[book[p]] = NoFile

\* A rebuild is true to its report whatever fails around it: what it says is
\* committed is in place, what it says is not has left the book as it was, and no
\* other file pays for either (finalize_cbz_rebuild_transaction).
TrueToItsReport ==
    [][/\ NothingOverwritten
       /\ \A p \in Libraries : FailureLeavesBook(p) /\ CommitDelivers(p)]_vars

\* The pages a reader finds: what every complete archive of the book still has.
Archives(b) == {file[n] : n \in Names \ {Tmp}} \cap {s \in Whole : s \subseteq Pages[b]}
CurrentPages(b) ==
    IF Archives(b) = {} THEN {}
    ELSE {page \in Pages[b] : \A s \in Archives(b) : page \in s}

Store == INSTANCE BookStore WITH
    content <- [b \in Books |-> CurrentPages(b)],
    wanted <- {drop[p] : p \in {q \in Libraries : pc[q] # "idle"}}

\* The rebuild implements the abstract deletion: whatever fails, and whoever is
\* killed or interferes, a book is in its old or its new state, never lost, and
\* loses only pages of one confirmed request.
RefinesBookStore == Store!StoreSpec
=============================================================================
