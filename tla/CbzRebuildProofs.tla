-------------------------- MODULE CbzRebuildProofs --------------------------
(***************************************************************************)
(* Proof that a rebuild is true to its report (TrueToItsReport) and that   *)
(* deleting pages implements BookStore (RefinesBookStore), for any number  *)
(* of Library processes, any pages and any number of failing operations.   *)
(*                                                                         *)
(* The temporary name is the lock: create_new lets one process through,    *)
(* and until its archive is the output, or the user tidies up, no other    *)
(* gets past it (TmpIsHeld).  So nobody else touches the book between the  *)
(* second look and the commit, what is committed is the book without the   *)
(* deleted pages (Source), and of the files a process still has to remove  *)
(* a smaller archive is always kept elsewhere (Superseded).                *)
(***************************************************************************)
EXTENDS CbzRebuild, TLAPS

Outcomes == {"none", "error", "notCommitted", "rolledBack", "recoveryRequired",
             "committed", "committedWithWarning"}

TypeOK ==
    /\ file \in [Names -> SUBSET (AllPages \cup {Broken})]
    /\ pc \in [Libraries -> Places]
    /\ book \in [Libraries -> Books]
    /\ drop \in [Libraries -> SUBSET AllPages]
    /\ keep \in [Libraries -> SUBSET AllPages]
    /\ outcome \in [Libraries -> Outcomes]

\* Nothing rewrites the rar archive; the others hold pages of one book each.
Shelves ==
    /\ \A n \in {"rar", "rarBackup"} : file[n] \in {NoFile, Pages["rar"]}
    /\ \A n \in {"cbz", "cbzBackup"} :
          /\ file[n] # Pages["rar"]
          /\ \E b \in Books : file[n] \subseteq Pages[b]

Before == {"statInput", "statOutput", "statTmp", "statBackup", "toBackup"}
Moved == {"toOutput", "rollback"}
Assessing == {"assessInput", "assessBackup"}
HoldsTmp(p) == pc[p] \in {"write", "unwrite"} \cup Before \cup Moved \cup Assessing
HoldsBackup(p) == pc[p] \in Moved \cup {"removeBackup"}

\* From create_new on nobody else is writing, renaming or rolling back.
TmpIsHeld ==
    \A p \in Libraries : HoldsTmp(p) =>
        /\ Exists(Tmp)
        /\ \A q \in Libraries : HoldsTmp(q) => q = p
        /\ pc[p] \in {"write", "unwrite"} => file[Tmp] = Partial
        /\ pc[p] \in Before \cup {"toOutput"} => file[Tmp] = keep[p]

BackupIsHeld ==
    \A p \in Libraries : HoldsBackup(p) =>
        /\ Exists(Backup(book[p]))
        /\ \A q \in Libraries : HoldsBackup(q) /\ book[q] = book[p] => q = p

\* A deletion that has been planned, and the pages selected for it.
Selected(p) ==
    /\ pc[p] # "idle" => drop[p] # {}
    /\ pc[p] = "create" \/ HoldsTmp(p) =>
          keep[p] # {} /\ keep[p] \cap drop[p] = {} /\ keep[p] # Pages["rar"]

\* A listed book shrinks at most; and once it is moved away by somebody else, it
\* comes back or nobody gets past the temporary name.
Listed(p) ==
    pc[p] = "create" =>
        IF book[p] = "rar" THEN Pages["rar"] \ drop[p] \subseteq keep[p]
        ELSE \/ Exists("cbz") /\ file["cbz"] \ drop[p] \subseteq keep[p]
             \/ /\ ~Exists("cbz") /\ Exists(Tmp)
                /\ \A q \in Libraries : HoldsTmp(q) =>
                      /\ book[q] = "cbz" /\ pc[q] \in Moved
                      /\ file["cbzBackup"] \ drop[p] \subseteq keep[p]

\* The book of a rebuild, where it is and what was selected from it.
Source(p) ==
    /\ pc[p] = "write" => file[book[p]] \ drop[p] \subseteq keep[p]
    /\ pc[p] \in Before \cup Assessing => file[book[p]] \ drop[p] = keep[p]
    /\ pc[p] \in {"toBackup"} \cup Assessing => file[Backup(book[p])] = NoFile
    /\ pc[p] \in Moved =>
          file[Backup(book[p])] \ drop[p] = keep[p] /\ file[book[p]] = NoFile
    /\ pc[p] \in {"statTmp", "statBackup", "toBackup"} \cup Moved =>
          (book[p] = "rar" => file["cbz"] = NoFile)

\* A rar archive is there only before its first rebuild.
RarComesFirst ==
    \/ file["rar"] # NoFile
    \/ \E p \in Libraries : book[p] = "rar" /\ pc[p] \in Moved
    => \A n \in {"cbz", "cbzBackup"} : file[n] = NoFile \/ ~(file[n] \subseteq Pages["rar"])

Trash == {Backup(book[p]) : p \in {q \in Libraries : pc[q] = "removeBackup"}}

\* What is about to be removed is still there, in an archive nobody removes.
Superseded ==
    \A t \in Trash :
        \E n \in Names \ ({Tmp} \cup Trash) : Exists(n) /\ file[n] \subseteq file[t]

Inv ==
    /\ TypeOK
    /\ Shelves
    /\ TmpIsHeld
    /\ BackupIsHeld
    /\ \A p \in Libraries : Selected(p) /\ Listed(p) /\ Source(p)
    /\ RarComesFirst
    /\ Superseded

-----------------------------------------------------------------------------

LEMMA InitInv == Init => Inv
<1> SUFFICES ASSUME Init PROVE Inv
  OBVIOUS
<1> USE PagesAssumption
<1>1. /\ \A p \in Libraries : pc[p] = "idle" /\ ~HoldsTmp(p) /\ ~HoldsBackup(p)
      /\ \A n \in {"tmp", "rarBackup", "cbzBackup"} : file[n] = NoFile
      /\ \A b \in {"rar", "cbz"} : file[b] \in {NoFile, Pages[b]}
  BY DEF Init, HoldsTmp, HoldsBackup, Names, Books, Before, Moved, Assessing
<1>2. TypeOK
  BY DEF Init, TypeOK, Names, Books, AllPages, NoFile, Places, Outcomes
<1>3. Shelves /\ RarComesFirst
  BY <1>1 DEF Shelves, RarComesFirst, NoFile, Books, Moved
<1>4. Superseded
  BY <1>1 DEF Superseded, Trash
<1> QED
  BY <1>1, <1>2, <1>3, <1>4
     DEF Inv, TmpIsHeld, BackupIsHeld, Selected, Listed, Source, Before, Moved, Assessing

\* Of a step of p: what the others are at is untouched.
Others(p) ==
    \A q \in Libraries \ {p} :
        pc'[q] = pc[q] /\ book'[q] = book[q] /\ drop'[q] = drop[q] /\ keep'[q] = keep[q]

\* What p does without touching a file: it stays outside the renames, leaves
\* them, or goes on with the same plan and the same locks.
StaysOut(p) == ~HoldsTmp(p)' /\ ~HoldsBackup(p)'
GoesOn(p) ==
    /\ UNCHANGED plan
    /\ HoldsTmp(p) /\ HoldsTmp(p)'
    /\ pc'[p] \in {"write", "unwrite"} => pc[p] \in {"write", "unwrite"}
    /\ pc'[p] \in Before \cup {"toOutput"} => pc[p] \in Before \cup {"toOutput"}
    /\ pc'[p] \in Moved <=> pc[p] \in Moved

LEMMA SameFiles ==
    ASSUME Inv, NEW p \in Libraries, UNCHANGED file, TypeOK', Others(p),
           StaysOut(p) \/ GoesOn(p), Selected(p)', Listed(p)', Source(p)'
    PROVE  Inv'
<1>1. /\ HoldsTmp(p)' => HoldsTmp(p) /\ book'[p] = book[p] /\ keep'[p] = keep[p]
      /\ HoldsBackup(p)' => HoldsBackup(p) /\ book'[p] = book[p]
      /\ pc'[p] \in Moved => pc[p] \in Moved /\ book'[p] = book[p]
      /\ pc'[p] # "removeBackup"
  BY DEF StaysOut, GoesOn, plan, HoldsTmp, HoldsBackup, Before, Moved, Assessing
<1>2. \A q \in Libraries \ {p} :
         /\ HoldsTmp(q)' <=> HoldsTmp(q)
         /\ HoldsBackup(q)' <=> HoldsBackup(q)
         /\ pc'[q] = pc[q] /\ book'[q] = book[q] /\ drop'[q] = drop[q] /\ keep'[q] = keep[q]
  BY DEF Others, HoldsTmp, HoldsBackup
<1>3. Shelves'
  BY DEF Inv, Shelves
<1>4. TmpIsHeld'
  <2> SUFFICES ASSUME NEW q \in Libraries, HoldsTmp(q)'
               PROVE  /\ file[Tmp] # NoFile
                      /\ \A r \in Libraries : HoldsTmp(r)' => r = q
                      /\ pc'[q] \in {"write", "unwrite"} => file[Tmp] = Partial
                      /\ pc'[q] \in Before \cup {"toOutput"} => file[Tmp] = keep'[q]
    BY DEF TmpIsHeld, Exists
  <2>1. /\ HoldsTmp(q) /\ keep'[q] = keep[q]
        /\ pc'[q] \in {"write", "unwrite"} => pc[q] \in {"write", "unwrite"}
        /\ pc'[q] \in Before \cup {"toOutput"} => pc[q] \in Before \cup {"toOutput"}
    BY <1>1, <1>2 DEF StaysOut, GoesOn
  <2> QED
    BY <1>1, <1>2, <2>1 DEF Inv, TmpIsHeld, Exists
<1>5. BackupIsHeld'
  BY <1>1, <1>2 DEF Inv, BackupIsHeld, Exists
<1>6. ASSUME NEW q \in Libraries PROVE (Selected(q) /\ Listed(q) /\ Source(q))'
  <2>1. CASE q = p
    BY <2>1
  <2>2. CASE q # p
    <3>1. Selected(q)' /\ Source(q)'
      BY <1>2, <2>2 DEF Inv, Selected, Source, Exists
    <3>2. ASSUME pc[q] = "create", book[q] # "rar", ~Exists("cbz"),
                 NEW r \in Libraries, HoldsTmp(r)'
          PROVE  book'[r] = "cbz" /\ pc'[r] \in Moved /\ file["cbzBackup"] \ drop[q] \subseteq keep[q]
      <4>1. HoldsTmp(r) /\ book'[r] = book[r] /\ (pc[r] \in Moved => pc'[r] \in Moved)
        BY <1>1, <1>2, <3>2 DEF StaysOut, GoesOn
      <4> QED
        BY <3>2, <4>1 DEF Inv, Listed
    <3>3. Listed(q)'
      BY <1>2, <2>2, <3>2 DEF Inv, Listed, Exists
    <3> QED
      BY <3>1, <3>3
  <2> QED
    BY <2>1, <2>2
<1>7. RarComesFirst'
  BY <1>1, <1>2 DEF Inv, RarComesFirst
<1>8. Superseded'
  <2>1. Trash' \subseteq Trash
    BY <1>1, <1>2 DEF Trash
  <2> QED
    BY <2>1 DEF Inv, Superseded, Exists
<1> QED
  BY <1>3, <1>4, <1>5, <1>6, <1>7, <1>8 DEF Inv

\* A rebuild ends, at any place.
LEMMA EndInv ==
    ASSUME Inv, NEW p \in Libraries, NEW result \in Outcomes, UNCHANGED file, End(p, result)
    PROVE  Inv'
<1>1. TypeOK' /\ pc'[p] = "idle" /\ Others(p)
  BY DEF Inv, TypeOK, End, Forget, Goto, Report, Others, Places, Books, Output
<1>2. StaysOut(p)
  BY <1>1 DEF StaysOut, HoldsTmp, HoldsBackup, Before, Moved, Assessing
<1>3. Selected(p)' /\ Listed(p)' /\ Source(p)'
  BY <1>1, <1>2 DEF Selected, Listed, Source, StaysOut, Before, Moved, Assessing
<1> QED
  BY <1>1, <1>2, <1>3, SameFiles

\* A rebuild goes on while it has no lock.
LEMMA LooksInv ==
    ASSUME Inv, NEW p \in Libraries, UNCHANGED file, TypeOK', Others(p), drop'[p] # {},
           pc'[p] \in {"checkOutput", "checkTmp", "checkBackup", "list"}
    PROVE  Inv'
<1>1. StaysOut(p)
  BY DEF StaysOut, HoldsTmp, HoldsBackup, Before, Moved, Assessing
<1>2. Selected(p)' /\ Listed(p)' /\ Source(p)'
  BY <1>1 DEF Selected, Listed, Source, StaysOut, Before, Moved, Assessing
<1> QED
  BY <1>1, <1>2, SameFiles

\* A rebuild goes on with its locks.
LEMMA GoesOnInv ==
    ASSUME Inv, NEW p \in Libraries, NEW place \in Places, Goto(p, place),
           UNCHANGED <<file, plan>>, outcome' \in [Libraries -> Outcomes],
           \/ pc[p] = "write" /\ place = "unwrite"
           \/ /\ pc[p] \in Before /\ place \in Before \cup {"assessInput"}
              /\ place \in {"statTmp", "statBackup", "toBackup"} /\ book[p] = "rar" =>
                    file["cbz"] = NoFile
              /\ place \in {"toBackup", "assessInput"} => file[Backup(book[p])] = NoFile
           \/ pc[p] = "toOutput" /\ place = "rollback"
           \/ pc[p] = "assessInput" /\ place = "assessBackup"
    PROVE  Inv'
<1>1. TypeOK' /\ pc'[p] = place /\ Others(p)
  BY DEF Inv, TypeOK, Goto, plan, Others
<1>2. GoesOn(p)
  BY <1>1 DEF GoesOn, HoldsTmp, Before, Moved, Assessing, plan
<1>3. Selected(p)'
  BY <1>1, <1>2 DEF Inv, Selected, GoesOn, HoldsTmp, Before, Moved, Assessing, plan
<1>4. Listed(p)'
  BY <1>1 DEF Listed, Before
<1>5. Source(p)'
  BY <1>1 DEF Inv, Source, Before, Moved, Assessing, plan
<1> QED
  BY <1>1, <1>2, <1>3, <1>4, <1>5, SameFiles

LEMMA PlanInv ==
    Inv => \A p \in Libraries, b \in Books : \A d \in Offered(b) : Plan(p, b, d) => Inv'
<1> SUFFICES ASSUME Inv, NEW p \in Libraries, NEW b \in Books, NEW d \in Offered(b), Plan(p, b, d)
             PROVE  Inv'
  OBVIOUS
<1>1. d # {} /\ d \subseteq AllPages
  <2>1. PICK m \in {b, "rar"} : d \in (SUBSET Pages[m]) \ {{}, Pages[m]}
    BY DEF Offered
  <2>2. m = "rar" \/ m = "cbz"
    BY DEF Books
  <2>3. d # {} /\ d \subseteq Pages[m]
    BY <2>1
  <2> QED
    BY <2>2, <2>3 DEF AllPages
<1>2. TypeOK' /\ Others(p) /\ drop'[p] = d
  BY <1>1 DEF Plan, Inv, TypeOK, Others, Goto, Report, Places, Outcomes
<1>3. pc'[p] \in {"checkOutput", "checkTmp"} /\ UNCHANGED file
  BY DEF Plan, Goto, Inv, TypeOK
<1> QED
  BY <1>1, <1>2, <1>3, LooksInv

LEMMA CheckPathsInv == Inv => \A p \in Libraries : CheckPaths(p) => Inv'
<1> SUFFICES ASSUME Inv, NEW p \in Libraries, CheckPaths(p) PROVE Inv'
  OBVIOUS
<1>1. /\ pc[p] # "idle" /\ UNCHANGED file
      /\ \/ End(p, "error")
         \/ \E place \in {"checkTmp", "checkBackup", "list"} : Continue(p, place)
  BY DEF CheckPaths, CheckName
<1>2. CASE End(p, "error")
  BY <1>1, <1>2, EndInv DEF Outcomes
<1>3. ASSUME NEW place \in {"checkTmp", "checkBackup", "list"}, Continue(p, place) PROVE Inv'
  <2>1. TypeOK' /\ Others(p) /\ pc'[p] = place /\ drop'[p] # {}
    BY <1>1, <1>3 DEF Inv, TypeOK, Selected, Continue, Goto, Others, Places
  <2> QED
    BY <1>1, <2>1, LooksInv
<1> QED
  BY <1>1, <1>2, <1>3

LEMMA ListInv == Inv => \A p \in Libraries : List(p) => Inv'
<1> SUFFICES ASSUME Inv, NEW p \in Libraries, List(p) PROVE Inv'
  OBVIOUS
<1>1. CASE End(p, "error")
  BY <1>1, EndInv DEF Outcomes, List
<1>2. CASE ~End(p, "error")
  <2>1. /\ Selectable(p) /\ pc[p] = "list" /\ UNCHANGED <<file, book, drop, outcome>>
        /\ keep' = [keep EXCEPT ![p] = file[book[p]] \ drop[p]] /\ Goto(p, "create")
    BY <1>2 DEF List, Succeeds
  <2>2. /\ file[book[p]] \subseteq AllPages /\ drop[p] \subseteq file[book[p]]
        /\ drop[p] # file[book[p]] /\ drop[p] # {}
    BY <2>1 DEF Selectable, Whole, Inv, Selected
  <2>3. TypeOK' /\ Others(p) /\ pc'[p] = "create" /\ keep'[p] = file[book[p]] \ drop[p]
    BY <2>1, <2>2 DEF Inv, TypeOK, Goto, Others, Places
  <2>4. StaysOut(p)
    BY <2>3 DEF StaysOut, HoldsTmp, HoldsBackup, Before, Moved, Assessing
  <2>5. keep'[p] # Pages["rar"] /\ keep'[p] # {} /\ file[book[p]] # NoFile
    <3>1. CASE book[p] = "rar"
      BY <2>2, <2>3, <3>1, PagesAssumption DEF Inv, Shelves, NoFile
    <3>2. CASE book[p] = "cbz"
      <4>1. PICK b \in Books : file["cbz"] \subseteq Pages[b]
        BY DEF Inv, Shelves
      <4> QED
        BY <2>2, <2>3, <3>2, <4>1, PagesAssumption DEF NoFile, Books
    <3> QED
      BY <3>1, <3>2 DEF Inv, TypeOK, Books
  <2>6. Selected(p)'
    BY <2>1, <2>2, <2>3, <2>5 DEF Selected
  <2>7. Listed(p)'
    <3>1. book[p] = "rar" => file[book[p]] = Pages["rar"]
      BY <2>5 DEF Inv, Shelves
    <3>2. book[p] # "rar" => book[p] = "cbz"
      BY DEF Inv, TypeOK, Books
    <3> QED
      BY <2>1, <2>3, <2>5, <3>1, <3>2 DEF Listed, Exists
  <2>8. Source(p)'
    BY <2>3 DEF Source, Before, Moved, Assessing
  <2> QED
    BY <2>1, <2>3, <2>4, <2>6, <2>7, <2>8, SameFiles
<1> QED
  BY <1>1, <1>2

-----------------------------------------------------------------------------
(* The temporary file *)

\* Before its renames a process touches nothing but the temporary file.
LEMMA TmpOnly ==
    ASSUME Inv, NEW p \in Libraries, Others(p), TypeOK',
           \A n \in Names \ {Tmp} : file'[n] = file[n],
           pc[p] \in {"create", "write", "unwrite"}, pc'[p] \in {"write", "statInput", "idle"}
    PROVE  /\ Shelves' /\ BackupIsHeld' /\ RarComesFirst' /\ Superseded'
           /\ \A q \in Libraries \ {p} : Selected(q)' /\ Source(q)'
<1>1. /\ \A n \in {"rar", "cbz", "rarBackup", "cbzBackup"} : file'[n] = file[n]
      /\ \A b : Backup(b) \in Names \ {Tmp}
  BY DEF Names, Tmp, Backup
<1>2. /\ \A q \in Libraries : HoldsBackup(q)' <=> HoldsBackup(q)
      /\ \A q \in Libraries : HoldsBackup(q) => book'[q] = book[q]
      /\ \A q \in Libraries : pc'[q] \in Moved <=> pc[q] \in Moved
      /\ \A q \in Libraries : pc'[q] = "removeBackup" <=> pc[q] = "removeBackup"
  BY DEF Others, HoldsBackup, Moved
<1>3. \A q \in Libraries \ {p} :
         /\ pc'[q] = pc[q] /\ book'[q] = book[q] /\ drop'[q] = drop[q] /\ keep'[q] = keep[q]
         /\ HoldsTmp(q)' <=> HoldsTmp(q)
  BY DEF Others, HoldsTmp
<1>4. Shelves'
  BY <1>1 DEF Inv, Shelves
<1>5. BackupIsHeld'
  BY <1>1, <1>2 DEF Inv, BackupIsHeld, Exists
<1>6. RarComesFirst'
  BY <1>1, <1>2 DEF Inv, RarComesFirst, HoldsBackup, Moved
<1>7. Trash' = Trash
  BY <1>2 DEF Trash, HoldsBackup
<1>8. Superseded'
  <2> SUFFICES ASSUME NEW t \in Trash
               PROVE  \E n \in Names \ ({Tmp} \cup Trash) : file'[n] # NoFile /\ file'[n] \subseteq file'[t]
    BY <1>7 DEF Superseded, Exists
  <2>1. t \in Names \ {Tmp}
    BY <1>1 DEF Trash
  <2> QED
    BY <2>1 DEF Inv, Superseded, Exists
<1>9. ASSUME NEW q \in Libraries \ {p} PROVE Selected(q)' /\ Source(q)'
  <2>1. book[q] \in Names \ {Tmp}
    BY DEF Inv, TypeOK, Books, Names, Tmp
  <2>2. Selected(q)'
    BY <1>3 DEF Inv, Selected
  <2>3. Source(q)'
    BY <1>1, <1>3, <2>1 DEF Inv, Source
  <2> QED
    BY <2>2, <2>3
<1> QED
  BY <1>4, <1>5, <1>6, <1>8, <1>9

LEMMA CreateInv == Inv => \A p \in Libraries : Create(p) => Inv'
<1> SUFFICES ASSUME Inv, NEW p \in Libraries, Create(p) PROVE Inv'
  OBVIOUS
<1>1. CASE End(p, "error") /\ UNCHANGED file
  BY <1>1, EndInv DEF Outcomes
<1>2. CASE ~(End(p, "error") /\ UNCHANGED file)
  <2>1. /\ pc[p] = "create" /\ ~Exists(Tmp) /\ file' = [file EXCEPT ![Tmp] = Partial]
        /\ Continue(p, "write")
    BY <1>2 DEF Create, Succeeds
  <2>2. TypeOK' /\ Others(p) /\ pc'[p] = "write" /\ UNCHANGED plan
    BY <2>1 DEF Inv, TypeOK, Continue, Goto, Others, Places, Partial, plan
  <2>3. file'[Tmp] = Partial /\ Partial # NoFile /\ \A n \in Names \ {Tmp} : file'[n] = file[n]
    BY <2>1 DEF Inv, TypeOK, Names, Tmp, Partial, NoFile
  <2>4. \A q \in Libraries : ~HoldsTmp(q)
    BY <2>1 DEF Inv, TmpIsHeld
  <2>5. \A q \in Libraries : HoldsTmp(q)' => q = p
    BY <2>2, <2>4 DEF Others, HoldsTmp
  <2>6. TmpIsHeld'
    BY <2>2, <2>3, <2>5 DEF TmpIsHeld, Exists, Before
  <2>7. ASSUME NEW q \in Libraries \ {p} PROVE Listed(q)'
    <3>1. file'["cbz"] = file["cbz"]
      BY <2>3 DEF Names, Tmp
    <3> QED
      BY <2>1, <2>2, <3>1 DEF Inv, Listed, Exists, Others
  <2>8. Selected(p)' /\ Listed(p)'
    BY <2>1, <2>2 DEF Inv, Selected, Listed, plan
  <2>9. Source(p)'
    <3>1. file'[book[p]] = file[book[p]]
      BY <2>3 DEF Inv, TypeOK, Books, Names, Tmp
    <3>2. CASE book[p] = "rar"
      BY <2>1, <2>2, <3>1, <3>2 DEF Inv, Listed, Shelves, Source, plan, NoFile, Before, Moved, Assessing
    <3>3. CASE book[p] = "cbz"
      BY <2>1, <2>2, <3>1, <3>3 DEF Inv, Listed, Source, plan, Before, Moved, Assessing
    <3> QED
      BY <3>2, <3>3 DEF Inv, TypeOK, Books
  <2>10. /\ Shelves' /\ BackupIsHeld' /\ RarComesFirst' /\ Superseded'
         /\ \A q \in Libraries \ {p} : Selected(q)' /\ Source(q)'
    BY <2>1, <2>2, <2>3, TmpOnly
  <2> QED
    BY <2>2, <2>6, <2>7, <2>8, <2>9, <2>10 DEF Inv
<1> QED
  BY <1>1, <1>2

LEMMA WriteInv == Inv => \A p \in Libraries : Write(p) => Inv'
<1> SUFFICES ASSUME Inv, NEW p \in Libraries, Write(p) PROVE Inv'
  OBVIOUS
<1>0. pc[p] = "write" /\ HoldsTmp(p) /\ UNCHANGED plan
  BY DEF Write, HoldsTmp, Continue, plan
<1>1. CASE Continue(p, "unwrite") /\ UNCHANGED file
  BY <1>0, <1>1, GoesOnInv DEF Continue, Places, Inv, TypeOK
<1>2. CASE ~(Continue(p, "unwrite") /\ UNCHANGED file)
  <2>1. /\ Readable(p) /\ file' = [file EXCEPT ![Tmp] = keep[p]] /\ Continue(p, "statInput")
    BY <1>2 DEF Write, Succeeds
  <2>2. TypeOK' /\ Others(p) /\ pc'[p] = "statInput"
    BY <2>1 DEF Inv, TypeOK, Continue, Goto, Others, Places, Names
  <2>3. file'[Tmp] = keep[p] /\ \A n \in Names \ {Tmp} : file'[n] = file[n]
    BY <2>1 DEF Inv, TypeOK, Names, Tmp
  <2>4. \A q \in Libraries : HoldsTmp(q) => q = p
    BY <1>0 DEF Inv, TmpIsHeld
  <2>5. \A q \in Libraries : HoldsTmp(q)' => q = p
    BY <2>2, <2>4 DEF Others, HoldsTmp
  <2>6. keep[p] # {} /\ keep[p] \cap drop[p] = {}
    BY <1>0 DEF Inv, Selected
  <2>7. TmpIsHeld'
    BY <1>0, <2>2, <2>3, <2>5, <2>6 DEF TmpIsHeld, Exists, plan, NoFile, Assessing
  <2>8. ASSUME NEW q \in Libraries \ {p} PROVE Listed(q)'
    <3>1. file'["cbz"] = file["cbz"]
      BY <2>3 DEF Names, Tmp
    <3>2. ~(pc[p] \in Moved)
      BY <1>0 DEF Moved
    <3> QED
      BY <1>0, <2>2, <3>1, <3>2 DEF Inv, Listed, Exists, Others
  <2>9. Selected(p)' /\ Listed(p)'
    BY <1>0, <2>2 DEF Inv, Selected, Listed, plan
  <2>10. Source(p)'
    <3>1. file'[book[p]] = file[book[p]]
      BY <2>3 DEF Inv, TypeOK, Books, Names, Tmp
    <3>2. file[book[p]] \ drop[p] = keep[p]
      BY <1>0, <2>1, <2>6 DEF Inv, Source, Readable
    <3> QED
      BY <1>0, <2>2, <3>1, <3>2 DEF Source, plan, Before, Moved, Assessing
  <2>11. /\ Shelves' /\ BackupIsHeld' /\ RarComesFirst' /\ Superseded'
         /\ \A q \in Libraries \ {p} : Selected(q)' /\ Source(q)'
    BY <1>0, <2>2, <2>3, TmpOnly
  <2> QED
    BY <2>2, <2>7, <2>8, <2>9, <2>10, <2>11 DEF Inv
<1> QED
  BY <1>1, <1>2

LEMMA UnwriteInv == Inv => \A p \in Libraries : Unwrite(p) => Inv'
<1> SUFFICES ASSUME Inv, NEW p \in Libraries, Unwrite(p) PROVE Inv'
  OBVIOUS
<1>0. pc[p] = "unwrite" /\ HoldsTmp(p) /\ End(p, "error")
  BY DEF Unwrite, HoldsTmp
<1>1. CASE UNCHANGED file
  BY <1>0, <1>1, EndInv DEF Outcomes
<1>2. CASE Removed(Tmp)
  <2>1. TypeOK' /\ Others(p) /\ pc'[p] = "idle"
    BY <1>0, <1>2 DEF Inv, TypeOK, End, Forget, Goto, Report, Others, Places, Outcomes, Books,
                      Output, Removed, NoFile
  <2>2. \A n \in Names \ {Tmp} : file'[n] = file[n]
    BY <1>2 DEF Inv, TypeOK, Names, Tmp, Removed
  <2>3. \A q \in Libraries : ~HoldsTmp(q)'
    BY <1>0, <2>1 DEF Inv, TmpIsHeld, Others, HoldsTmp, Before, Moved, Assessing
  <2>4. ASSUME NEW q \in Libraries \ {p} PROVE Listed(q)'
    <3>1. file'["cbz"] = file["cbz"]
      BY <2>2 DEF Names, Tmp
    <3>2. ~(pc[p] \in Moved)
      BY <1>0 DEF Moved
    <3> QED
      BY <1>0, <2>1, <3>1, <3>2 DEF Inv, Listed, Exists, Others
  <2>5. Selected(p)' /\ Listed(p)' /\ Source(p)'
    BY <2>1, <2>3 DEF Selected, Listed, Source, Before, Moved, Assessing
  <2>6. /\ Shelves' /\ BackupIsHeld' /\ RarComesFirst' /\ Superseded'
        /\ \A q \in Libraries \ {p} : Selected(q)' /\ Source(q)'
    BY <1>0, <2>1, <2>2, TmpOnly
  <2> QED
    BY <2>1, <2>3, <2>4, <2>5, <2>6 DEF Inv, TmpIsHeld
<1> QED
  BY <1>1, <1>2 DEF Unwrite, Succeeds

-----------------------------------------------------------------------------
(* The renames *)

LEMMA ValidateInv == Inv => \A p \in Libraries : Validate(p) => Inv'
<1> SUFFICES ASSUME Inv, NEW p \in Libraries, Validate(p) PROVE Inv'
  OBVIOUS
<1>1. CASE End(p, "notCommitted")
  BY <1>1, EndInv DEF Validate, Stat, Outcomes
<1>2. CASE ~End(p, "notCommitted")
  <2>1. PICK place \in {"statOutput", "statTmp", "statBackup", "toBackup"} :
          /\ pc[p] \in Before /\ Goto(p, place)
          /\ UNCHANGED <<file, plan, outcome>>
          /\ place \in {"statTmp", "statBackup", "toBackup"} /\ book[p] = "rar" =>
                pc[p] \in {"statTmp", "statBackup"} \/ file["cbz"] = NoFile
          /\ place = "toBackup" => file[Backup(book[p])] = NoFile
    <3> USE DEF Stat, Continue, Succeeds, Exists, Output, Before, plan
    <3>1. CASE Stat(p, "statInput", book[p], TRUE,
                    IF book[p] = Output THEN "statTmp" ELSE "statOutput")
      BY <1>2, <3>1
    <3>2. CASE Stat(p, "statOutput", Output, FALSE, "statTmp")
      BY <1>2, <3>2
    <3>3. CASE Stat(p, "statTmp", Tmp, TRUE, "statBackup")
      BY <1>2, <3>3
    <3>4. CASE Stat(p, "statBackup", Backup(book[p]), FALSE, "toBackup")
      BY <1>2, <3>4
    <3> QED
      BY <3>1, <3>2, <3>3, <3>4 DEF Validate
  <2>2. place \in {"statTmp", "statBackup", "toBackup"} /\ book[p] = "rar" => file["cbz"] = NoFile
    BY <2>1 DEF Inv, Source
  <2> QED
    BY <2>1, <2>2, GoesOnInv DEF Inv, TypeOK, Places, Before
<1> QED
  BY <1>1, <1>2

\* While p holds the temporary name the others are outside their renames, or
\* have nothing left to do but to remove a backup.
LEMMA Alone ==
    ASSUME Inv, NEW p \in Libraries, HoldsTmp(p), Others(p)
    PROVE  \A q \in Libraries \ {p} :
              /\ ~HoldsTmp(q) /\ ~HoldsTmp(q)' /\ ~(pc[q] \in Moved) /\ ~(pc'[q] \in Moved)
              /\ Selected(q)' /\ Source(q)'
              /\ HoldsBackup(q)' => HoldsBackup(q) /\ pc[q] = "removeBackup"
<1>1. \A q \in Libraries \ {p} : ~HoldsTmp(q)
  BY DEF Inv, TmpIsHeld
<1>2. \A q \in Libraries \ {p} :
         pc'[q] = pc[q] /\ book'[q] = book[q] /\ drop'[q] = drop[q] /\ keep'[q] = keep[q]
  BY DEF Others
<1>3. \A q \in Libraries \ {p} : ~HoldsTmp(q)'
  BY <1>1, <1>2 DEF HoldsTmp
<1>4. \A q \in Libraries \ {p} : Selected(q)'
  BY <1>1, <1>2, <1>3 DEF Inv, Selected
<1>5. \A q \in Libraries \ {p} : Source(q)' /\ ~(pc[q] \in Moved) /\ ~(pc'[q] \in Moved)
  BY <1>1, <1>3 DEF Source, HoldsTmp, Before, Moved, Assessing
<1> QED
  BY <1>1, <1>2, <1>3, <1>4, <1>5 DEF HoldsBackup

LEMMA ToBackupInv == Inv => \A p \in Libraries : ToBackup(p) => Inv'
<1> SUFFICES ASSUME Inv, NEW p \in Libraries, ToBackup(p) PROVE Inv'
  OBVIOUS
<1>0. pc[p] = "toBackup" /\ HoldsTmp(p) /\ UNCHANGED plan
  BY DEF ToBackup, HoldsTmp, Before, Continue, plan
<1>1. CASE UNCHANGED file
  <2>1. CASE Goto(p, "assessInput") /\ Report(p, "notCommitted")
    <3>1. file[Backup(book[p])] = NoFile
      BY <1>0 DEF Inv, Source
    <3> QED
      BY <1>0, <1>1, <2>1, <3>1, GoesOnInv DEF Report, Places, Inv, TypeOK, Outcomes, Before
  <2>2. CASE Renamed(book[p], Backup(book[p]))
    <3>1. FALSE
      BY <1>0, <1>1, <2>2 DEF Inv, TypeOK, Source, Selected, HoldsTmp, Before, Renamed, Names, Books,
                              Backup, NoFile
    <3> QED
      BY <3>1
  <2> QED
    BY <2>1, <2>2 DEF ToBackup
<1>2. CASE ~UNCHANGED file
  <2> DEFINE b == book[p]
             k == Backup(b)
  <2>0. /\ b \in Books /\ b \in {"rar", "cbz"} /\ k \in {"rarBackup", "cbzBackup"}
        /\ b \in Names /\ k \in Names /\ k # Tmp /\ b # Tmp
    BY DEF Inv, TypeOK, Books, Backup, Names, Tmp
  <2>1. Renamed(b, k) /\ Continue(p, "toOutput")
    BY <1>2 DEF ToBackup
  <2>2. TypeOK' /\ Others(p) /\ pc'[p] = "toOutput"
    BY <2>0, <2>1 DEF Inv, TypeOK, Continue, Goto, Others, Places, Renamed, NoFile
  <2>3. /\ file[k] = NoFile /\ file[b] \ drop[p] = keep[p] /\ keep[p] # {}
        /\ file[Tmp] = keep[p]
        /\ b = "rar" => file["cbz"] = NoFile
    BY <1>0 DEF Inv, Source, Selected, TmpIsHeld, Before
  <2>4. file[b] # NoFile
    BY <2>3 DEF NoFile
  <2>5. /\ file'[k] = file[b] /\ file'[b] = NoFile
        /\ \A n \in Names \ {b, k} : file'[n] = file[n]
    BY <2>0, <2>1, <2>3, <2>4 DEF Renamed, Inv, TypeOK
  <2>6. \A q \in Libraries : HoldsTmp(q) => q = p
    BY <1>0 DEF Inv, TmpIsHeld
  <2>7. Shelves'
    BY <2>0, <2>3, <2>5 DEF Inv, Shelves, Backup, Names, NoFile
  <2>8. TmpIsHeld'
    <3>1. file'[Tmp] = keep'[p] /\ Exists(Tmp)'
      BY <1>0, <2>0, <2>3, <2>5 DEF Exists, NoFile, Names, Tmp, plan
    <3> QED
      BY <1>0, <2>2, <3>1, Alone DEF TmpIsHeld, Before
  <2>9. BackupIsHeld'
    <3>1. ASSUME NEW q \in Libraries \ {p}, HoldsBackup(q)'
          PROVE  /\ book'[q] = book[q] /\ book[q] # b
                 /\ Exists(Backup(book[q])) /\ Exists(Backup(book[q]))'
                 /\ \A r \in Libraries : HoldsBackup(r) /\ book[r] = book[q] => r = q
      <4>1. HoldsBackup(q) /\ book'[q] = book[q] /\ book[q] \in Books
        BY <1>0, <2>2, <3>1, Alone DEF Others, Inv, TypeOK
      <4>2. Exists(Backup(book[q])) /\ \A r \in Libraries : HoldsBackup(r) /\ book[r] = book[q] => r = q
        BY <4>1 DEF Inv, BackupIsHeld
      <4> QED
        BY <2>0, <2>3, <2>5, <4>1, <4>2 DEF Exists, Books, Backup, Names
    <3>2. Exists(k)' /\ book'[p] = b
      BY <1>0, <2>4, <2>5 DEF Exists, plan
    <3>3. \A q \in Libraries \ {p} : HoldsBackup(q)' => HoldsBackup(q)
      BY <1>0, <2>2, Alone
    <3> QED
      BY <3>1, <3>2, <3>3 DEF BackupIsHeld
  <2>10. Selected(p)' /\ Listed(p)'
    BY <1>0, <2>2 DEF Inv, Selected, Listed, HoldsTmp, Before, plan
  <2>11. Source(p)'
    BY <1>0, <2>0, <2>2, <2>3, <2>5 DEF Source, Before, Moved, Assessing, plan, Names, Backup
  <2>12. ASSUME NEW q \in Libraries \ {p} PROVE Listed(q)'
    <3>1. pc'[q] = pc[q] /\ book'[q] = book[q] /\ drop'[q] = drop[q] /\ keep'[q] = keep[q]
      BY <2>2 DEF Others
    <3>2. Exists(Tmp)' /\ \A r \in Libraries : HoldsTmp(r)' => r = p
      BY <1>0, <2>2, <2>8, Alone DEF TmpIsHeld, HoldsTmp, Moved
    <3>3. CASE pc[q] = "create" /\ book[q] # "rar"
      <4>1. Exists("cbz") /\ file["cbz"] \ drop[q] \subseteq keep[q]
        BY <1>0, <3>3 DEF Inv, Listed, Moved
      <4>2. CASE b = "rar"
        BY <2>3, <4>1, <4>2 DEF Exists
      <4>3. CASE b = "cbz"
        <5>1. /\ file'["cbzBackup"] = file["cbz"] /\ file'["cbz"] = NoFile
              /\ pc'[p] \in Moved /\ book'[p] = "cbz"
          BY <1>0, <2>2, <2>5, <4>3 DEF Backup, Moved, plan
        <5> QED
          BY <3>1, <3>2, <3>3, <4>1, <5>1 DEF Listed, Exists
      <4> QED
        BY <2>0, <4>2, <4>3
    <3>4. CASE ~(pc[q] = "create" /\ book[q] # "rar")
      BY <3>1, <3>4 DEF Inv, Listed
    <3> QED
      BY <3>3, <3>4
  <2>13. RarComesFirst'
    <3> SUFFICES ASSUME \/ file'["rar"] # NoFile
                        \/ \E q \in Libraries : book'[q] = "rar" /\ pc'[q] \in Moved
                 PROVE  \A n \in {"cbz", "cbzBackup"} :
                           file'[n] = NoFile \/ ~(file'[n] \subseteq Pages["rar"])
      BY DEF RarComesFirst
    <3>1. file["rar"] # NoFile
      BY <1>0, <2>0, <2>2, <2>4, <2>5, Alone DEF plan, Backup, Names
    <3>2. \A n \in {"cbz", "cbzBackup"} : file[n] = NoFile \/ ~(file[n] \subseteq Pages["rar"])
      BY <3>1 DEF Inv, RarComesFirst
    <3> QED
      BY <2>0, <2>5, <3>2 DEF Backup, Names
  <2>14. Superseded'
    <3>1. Trash' = Trash
      <4>1. \A q \in Libraries : /\ pc'[q] = "removeBackup" <=> pc[q] = "removeBackup"
                                 /\ book'[q] = book[q]
        BY <1>0, <2>2 DEF Others, plan
      <4> QED
        BY <4>1 DEF Trash
    <3>2. \A t \in Trash : t # b /\ t # k /\ t \in Names
      <4> SUFFICES ASSUME NEW q \in Libraries, pc[q] = "removeBackup"
                   PROVE  Backup(book[q]) # b /\ Backup(book[q]) # k /\ Backup(book[q]) \in Names
        BY DEF Trash
      <4>1. file[Backup(book[q])] # NoFile
        BY DEF Inv, BackupIsHeld, HoldsBackup, Exists
      <4>2. Backup(book[q]) \in {"rarBackup", "cbzBackup"}
        BY DEF Backup
      <4> QED
        BY <2>0, <2>3, <4>1, <4>2 DEF Names
    <3> SUFFICES ASSUME NEW t \in Trash
                 PROVE  \E n \in Names \ ({Tmp} \cup Trash) : file'[n] # NoFile /\ file'[n] \subseteq file'[t]
      BY <3>1 DEF Superseded, Exists
    <3>3. PICK n \in Names \ ({Tmp} \cup Trash) : file[n] # NoFile /\ file[n] \subseteq file[t]
      BY DEF Inv, Superseded, Exists
    <3>4. file'[t] = file[t]
      BY <2>5, <3>2
    <3>5. CASE n = b
      BY <2>0, <2>5, <3>2, <3>3, <3>4, <3>5
    <3>6. CASE n # b
      BY <2>3, <2>5, <3>3, <3>4, <3>6
    <3> QED
      BY <3>5, <3>6
  <2> QED
    BY <1>0, <2>2, <2>7, <2>8, <2>9, <2>10, <2>11, <2>12, <2>13, <2>14, Alone DEF Inv
<1> QED
  BY <1>1, <1>2

\* The commit: what it finds and what it leaves.
LEMMA CommitFacts ==
    ASSUME Inv, NEW p \in Libraries, ToOutput(p), ~UNCHANGED file
    PROVE  /\ Renamed(Tmp, Output) /\ Continue(p, "removeBackup") /\ pc[p] = "toOutput"
           /\ HoldsTmp(p) /\ HoldsBackup(p) /\ UNCHANGED plan
           /\ TypeOK' /\ Others(p) /\ pc'[p] = "removeBackup"
           /\ book[p] \in {"rar", "cbz"} /\ Backup(book[p]) \in {"rarBackup", "cbzBackup"}
           /\ keep[p] # {} /\ keep[p] # Pages["rar"] /\ keep[p] \cap drop[p] = {}
           /\ file[Backup(book[p])] \ drop[p] = keep[p]
           /\ file[book[p]] = NoFile /\ file["cbz"] = NoFile
           /\ file'["cbz"] = keep[p] /\ file'[Tmp] = NoFile
           /\ \A n \in Names \ {"cbz", Tmp} : file'[n] = file[n]
<1>1. pc[p] = "toOutput" /\ Renamed(Tmp, Output) /\ Continue(p, "removeBackup")
  BY DEF ToOutput
<1>2. HoldsTmp(p) /\ HoldsBackup(p) /\ UNCHANGED plan
  BY <1>1 DEF HoldsTmp, HoldsBackup, Moved, Continue, plan
<1>3. book[p] \in {"rar", "cbz"} /\ Backup(book[p]) \in {"rarBackup", "cbzBackup"}
  BY DEF Inv, TypeOK, Books, Backup
<1>4. /\ keep[p] # {} /\ keep[p] # Pages["rar"] /\ keep[p] \cap drop[p] = {}
      /\ file[Backup(book[p])] \ drop[p] = keep[p] /\ file[book[p]] = NoFile
      /\ file["cbz"] = NoFile /\ file[Tmp] = keep[p]
  BY <1>1, <1>2, <1>3 DEF Inv, Selected, Source, TmpIsHeld, Moved, Before
<1>5. TypeOK' /\ Others(p) /\ pc'[p] = "removeBackup"
  BY <1>1 DEF Inv, TypeOK, Continue, Goto, Others, Places, Renamed, Names, Tmp, Output, NoFile
<1>6. /\ file'["cbz"] = keep[p] /\ file'[Tmp] = NoFile
      /\ \A n \in Names \ {"cbz", Tmp} : file'[n] = file[n]
  BY <1>1, <1>4 DEF Renamed, Inv, TypeOK, Names, Tmp, Output
<1> QED
  BY <1>1, <1>2, <1>3, <1>4, <1>5, <1>6

LEMMA ToOutputInv == Inv => \A p \in Libraries : ToOutput(p) => Inv'
<1> SUFFICES ASSUME Inv, NEW p \in Libraries, ToOutput(p) PROVE Inv'
  OBVIOUS
<1>1. CASE UNCHANGED file
  <2>1. pc[p] = "toOutput" /\ UNCHANGED <<plan, outcome>>
    BY DEF ToOutput, Continue, plan
  <2>2. CASE Goto(p, "rollback")
    BY <1>1, <2>1, <2>2, GoesOnInv DEF Places, Inv, TypeOK
  <2>3. CASE Renamed(Tmp, Output)
    <3>1. HoldsTmp(p) /\ Exists(Tmp)
      BY <2>1 DEF Inv, TmpIsHeld, HoldsTmp, Moved
    <3>2. FALSE
      BY <1>1, <2>3, <3>1 DEF Renamed, Exists, Inv, TypeOK, Names, Tmp, Output
    <3> QED
      BY <3>2
  <2> QED
    BY <2>2, <2>3 DEF ToOutput, Continue
<1>2. CASE ~UNCHANGED file
  <2> DEFINE k == Backup(book[p])
  <2>1. /\ pc[p] = "toOutput" /\ HoldsTmp(p) /\ HoldsBackup(p) /\ UNCHANGED plan
        /\ TypeOK' /\ Others(p) /\ pc'[p] = "removeBackup"
        /\ book[p] \in {"rar", "cbz"} /\ k \in {"rarBackup", "cbzBackup"}
        /\ keep[p] # {} /\ keep[p] # Pages["rar"] /\ keep[p] \cap drop[p] = {}
        /\ file[k] \ drop[p] = keep[p] /\ file[book[p]] = NoFile /\ file["cbz"] = NoFile
        /\ file'["cbz"] = keep[p] /\ file'[Tmp] = NoFile
        /\ \A n \in Names \ {"cbz", Tmp} : file'[n] = file[n]
    BY <1>2, CommitFacts
  <2>2. keep[p] \subseteq file[k] /\ file[k] # NoFile
    BY <2>1 DEF NoFile
  <2>3. Shelves'
    <3>1. \E b \in Books : keep[p] \subseteq Pages[b]
      BY <2>1, <2>2 DEF Inv, Shelves, Books
    <3> QED
      BY <2>1, <3>1 DEF Inv, Shelves, Names, Tmp
  <2>4. \A q \in Libraries : ~HoldsTmp(q)'
    BY <2>1, Alone DEF HoldsTmp, Before, Moved, Assessing
  <2>5. BackupIsHeld'
    <3>1. \A q \in Libraries : HoldsBackup(q)' => HoldsBackup(q) /\ book'[q] = book[q]
      BY <2>1, Alone DEF Others, plan
    <3>2. \A q \in Libraries : file'[Backup(book[q])] = file[Backup(book[q])]
      BY <2>1 DEF Backup, Names, Tmp
    <3> QED
      BY <3>1, <3>2 DEF Inv, BackupIsHeld, Exists
  <2>6. Selected(p)' /\ Listed(p)' /\ Source(p)'
    BY <2>1, <2>4 DEF Inv, Selected, Listed, Source, plan, Before, Moved, Assessing
  <2>7. ASSUME NEW q \in Libraries \ {p} PROVE Listed(q)'
    <3>1. pc'[q] = pc[q] /\ book'[q] = book[q] /\ drop'[q] = drop[q] /\ keep'[q] = keep[q]
      BY <2>1 DEF Others
    <3>2. CASE pc[q] = "create" /\ book[q] # "rar"
      <4>1. book[p] = "cbz" /\ file["cbzBackup"] \ drop[q] \subseteq keep[q]
        BY <2>1, <3>2 DEF Inv, Listed, Exists
      <4>2. file'["cbz"] \ drop[q] \subseteq keep[q] /\ Exists("cbz")'
        BY <2>1, <2>2, <4>1 DEF Backup, Exists, NoFile
      <4> QED
        BY <3>1, <3>2, <4>2 DEF Listed
    <3>3. CASE ~(pc[q] = "create" /\ book[q] # "rar")
      BY <3>1, <3>3 DEF Inv, Listed
    <3> QED
      BY <3>2, <3>3
  <2>8. RarComesFirst'
    <3> SUFFICES ASSUME \/ file'["rar"] # NoFile
                        \/ \E q \in Libraries : book'[q] = "rar" /\ pc'[q] \in Moved
                 PROVE  \A n \in {"cbz", "cbzBackup"} :
                           file'[n] = NoFile \/ ~(file'[n] \subseteq Pages["rar"])
      BY DEF RarComesFirst
    <3>1. file["rar"] # NoFile /\ book[p] = "cbz"
      BY <2>1, <2>4 DEF HoldsTmp, Names, Tmp
    <3>2. ~(file["cbzBackup"] \subseteq Pages["rar"]) /\ k = "cbzBackup"
      BY <2>2, <3>1 DEF Inv, RarComesFirst, Backup
    <3>3. keep[p] \subseteq Pages["cbz"]
      BY <2>2, <3>2 DEF Inv, Shelves, Books
    <3> QED
      BY <2>1, <3>2, <3>3, PagesAssumption DEF Names, Tmp
  <2>9. Superseded'
    <3>1. Trash' = Trash \cup {k}
      <4>1. \A q \in Libraries : book'[q] = book[q]
                                 /\ (pc'[q] = "removeBackup" <=> pc[q] = "removeBackup" \/ q = p)
        BY <2>1 DEF Others, plan
      <4> QED
        BY <4>1 DEF Trash
    <3>2. \A t \in Trash \cup {k} : t \in {"rarBackup", "cbzBackup"}
      BY <2>1 DEF Trash, Backup
    <3> SUFFICES ASSUME NEW t \in Trash \cup {k}
                 PROVE  \E n \in Names \ ({Tmp} \cup Trash \cup {k}) :
                           file'[n] # NoFile /\ file'[n] \subseteq file'[t]
      BY <3>1 DEF Superseded, Exists
    <3>3. file'[t] = file[t]
      BY <2>1, <3>2 DEF Names, Tmp
    <3>4. ASSUME keep[p] \subseteq file[t]
          PROVE  \E n \in Names \ ({Tmp} \cup Trash \cup {k}) :
                    file'[n] # NoFile /\ file'[n] \subseteq file'[t]
      <4>1. "cbz" \in Names \ ({Tmp} \cup Trash \cup {k})
        BY <3>2 DEF Names, Tmp
      <4> QED
        BY <2>1, <3>3, <3>4, <4>1 DEF NoFile
    <3>5. CASE t = k
      BY <2>2, <3>4, <3>5
    <3>6. CASE t \in Trash
      <4>1. PICK n \in Names \ ({Tmp} \cup Trash) : file[n] # NoFile /\ file[n] \subseteq file[t]
        BY <3>6 DEF Inv, Superseded, Exists
      <4>2. CASE n = k
        BY <2>2, <3>4, <4>1, <4>2
      <4>3. CASE n # k
        BY <2>1, <3>3, <4>1, <4>3
      <4> QED
        BY <4>2, <4>3
    <3> QED
      BY <3>5, <3>6
  <2> QED
    BY <2>1, <2>3, <2>4, <2>5, <2>6, <2>7, <2>8, <2>9, Alone DEF Inv, TmpIsHeld
<1> QED
  BY <1>1, <1>2

\* The rollback that finds the backup: what it finds and what it leaves.
LEMMA RollbackFacts ==
    ASSUME Inv, NEW p \in Libraries, Rollback(p), ~End(p, "recoveryRequired")
    PROVE  /\ pc[p] = "rollback" /\ HoldsTmp(p) /\ HoldsBackup(p) /\ UNCHANGED plan
           /\ TypeOK' /\ Others(p) /\ pc'[p] = "assessInput"
           /\ book[p] \in {"rar", "cbz"} /\ Backup(book[p]) \in {"rarBackup", "cbzBackup"}
           /\ file[Backup(book[p])] \ drop[p] = keep[p] /\ file[book[p]] = NoFile
           /\ file[Backup(book[p])] # NoFile
           /\ file'[book[p]] = file[Backup(book[p])] /\ file'[Backup(book[p])] = NoFile
           /\ \A n \in Names \ {book[p], Backup(book[p])} : file'[n] = file[n]
<1>1. /\ pc[p] = "rollback" /\ Renamed(Backup(book[p]), book[p]) /\ Goto(p, "assessInput")
      /\ Report(p, "rolledBack") /\ UNCHANGED plan
  BY DEF Rollback
<1>2. HoldsTmp(p) /\ HoldsBackup(p)
  BY <1>1 DEF HoldsTmp, HoldsBackup, Moved
<1>3. /\ book[p] \in {"rar", "cbz"} /\ Backup(book[p]) \in {"rarBackup", "cbzBackup"}
      /\ book[p] \in Names /\ Backup(book[p]) \in Names
  BY DEF Inv, TypeOK, Books, Backup, Names
<1>4. /\ file[Backup(book[p])] \ drop[p] = keep[p] /\ file[book[p]] = NoFile
      /\ file[Backup(book[p])] # NoFile
  BY <1>1, <1>2 DEF Inv, Source, BackupIsHeld, Exists, Moved
<1>5. TypeOK' /\ Others(p) /\ pc'[p] = "assessInput"
  BY <1>1, <1>3 DEF Inv, TypeOK, Goto, Report, Others, Places, Outcomes, Renamed, NoFile, plan
<1>6. /\ file'[book[p]] = file[Backup(book[p])] /\ file'[Backup(book[p])] = NoFile
      /\ \A n \in Names \ {book[p], Backup(book[p])} : file'[n] = file[n]
  BY <1>1, <1>3 DEF Renamed, Inv, TypeOK
<1> QED
  BY <1>1, <1>2, <1>3, <1>4, <1>5, <1>6

LEMMA RollbackInv == Inv => \A p \in Libraries : Rollback(p) => Inv'
<1> SUFFICES ASSUME Inv, NEW p \in Libraries, Rollback(p) PROVE Inv'
  OBVIOUS
<1> DEFINE b == book[p]
           k == Backup(b)
<1>1. CASE End(p, "recoveryRequired")
  <2>1. CASE UNCHANGED file
    BY <1>1, <2>1, EndInv DEF Outcomes
  <2>2. CASE Goto(p, "assessInput")
    BY <1>1, <2>2 DEF End, Forget, Goto, Inv, TypeOK
  <2> QED
    BY <2>1, <2>2 DEF Rollback
<1>2. CASE ~End(p, "recoveryRequired")
  <2>1. /\ pc[p] = "rollback" /\ HoldsTmp(p) /\ HoldsBackup(p) /\ UNCHANGED plan
        /\ TypeOK' /\ Others(p) /\ pc'[p] = "assessInput"
        /\ b \in {"rar", "cbz"} /\ k \in {"rarBackup", "cbzBackup"}
        /\ file[k] \ drop[p] = keep[p] /\ file[b] = NoFile /\ file[k] # NoFile
        /\ file'[b] = file[k] /\ file'[k] = NoFile
        /\ \A n \in Names \ {b, k} : file'[n] = file[n]
    BY <1>2, RollbackFacts
  <2>2. Shelves'
    BY <2>1 DEF Inv, Shelves, Backup, Names, NoFile
  <2>3. file'[Tmp] = file[Tmp]
    BY <2>1 DEF Names, Tmp
  <2>4. TmpIsHeld'
    <3>1. Exists(Tmp)' /\ HoldsTmp(p)'
      BY <2>1, <2>3 DEF Inv, TmpIsHeld, Exists, HoldsTmp, Assessing
    <3> QED
      BY <2>1, <3>1, Alone DEF TmpIsHeld, Before
  <2>5. \A q \in Libraries : HoldsBackup(q)' =>
           /\ q # p /\ HoldsBackup(q) /\ book'[q] = book[q] /\ book[q] \in Books /\ book[q] # b
           /\ Backup(book[q]) \in Names \ {b, k}
    <3> SUFFICES ASSUME NEW q \in Libraries, HoldsBackup(q)'
                 PROVE  /\ q # p /\ HoldsBackup(q) /\ book'[q] = book[q] /\ book[q] \in Books
                        /\ book[q] # b /\ Backup(book[q]) \in Names \ {b, k}
      OBVIOUS
    <3>1. q # p
      BY <2>1 DEF HoldsBackup, Moved
    <3>2. HoldsBackup(q) /\ book'[q] = book[q] /\ book[q] \in Books
      BY <2>1, <3>1, Alone DEF Others, Inv, TypeOK
    <3>3. book[q] # b
      BY <2>1, <3>1, <3>2 DEF Inv, BackupIsHeld
    <3> QED
      BY <2>1, <3>1, <3>2, <3>3 DEF Books, Backup, Names
  <2>6. BackupIsHeld'
    BY <2>1, <2>5 DEF Inv, BackupIsHeld, Exists
  <2>7. Selected(p)'
    BY <2>1 DEF Inv, Selected, HoldsTmp, Moved, Assessing, plan
  <2>8. Listed(p)' /\ Source(p)'
    BY <2>1 DEF Listed, Source, Before, Moved, Assessing, plan
  <2>9. ASSUME NEW q \in Libraries \ {p} PROVE Listed(q)'
    <3>1. pc'[q] = pc[q] /\ book'[q] = book[q] /\ drop'[q] = drop[q] /\ keep'[q] = keep[q]
      BY <2>1 DEF Others
    <3>2. CASE pc[q] = "create" /\ book[q] # "rar"
      <4>1. CASE b = "cbz"
        BY <2>1, <3>1, <3>2, <4>1 DEF Inv, Listed, Exists, Backup
      <4>2. CASE b = "rar"
        <5>1. file["cbz"] = NoFile
          BY <2>1, <4>2 DEF Inv, Source, Moved
        <5> QED
          BY <2>1, <3>2, <4>2, <5>1 DEF Inv, Listed, Exists
      <4> QED
        BY <2>1, <4>1, <4>2
    <3>3. CASE ~(pc[q] = "create" /\ book[q] # "rar")
      BY <3>1, <3>3 DEF Inv, Listed
    <3> QED
      BY <3>2, <3>3
  <2>10. RarComesFirst'
    <3> SUFFICES ASSUME \/ file'["rar"] # NoFile
                        \/ \E q \in Libraries : book'[q] = "rar" /\ pc'[q] \in Moved
                 PROVE  \A n \in {"cbz", "cbzBackup"} :
                           file'[n] = NoFile \/ ~(file'[n] \subseteq Pages["rar"])
      BY DEF RarComesFirst
    <3>1. pc[p] \in Moved /\ \A q \in Libraries : ~(pc'[q] \in Moved)
      BY <2>1, Alone DEF Moved
    <3>2. file["rar"] # NoFile \/ b = "rar"
      BY <2>1, <3>1 DEF Names
    <3>3. \A n \in {"cbz", "cbzBackup"} : file[n] = NoFile \/ ~(file[n] \subseteq Pages["rar"])
      BY <3>1, <3>2 DEF Inv, RarComesFirst
    <3> QED
      BY <2>1, <3>3 DEF Backup, Names
  <2>11. Superseded'
    <3>1. Trash' = Trash
      <4>1. \A q \in Libraries : book'[q] = book[q]
                                 /\ (pc'[q] = "removeBackup" <=> pc[q] = "removeBackup")
        BY <2>1 DEF Others, plan
      <4> QED
        BY <4>1 DEF Trash
    <3>2. \A t \in Trash : t \in Names \ {b, k}
      BY <2>5, <3>1 DEF Trash, HoldsBackup
    <3> SUFFICES ASSUME NEW t \in Trash
                 PROVE  \E n \in Names \ ({Tmp} \cup Trash) : file'[n] # NoFile /\ file'[n] \subseteq file'[t]
      BY <3>1 DEF Superseded, Exists
    <3>3. PICK n \in Names \ ({Tmp} \cup Trash) : file[n] # NoFile /\ file[n] \subseteq file[t]
      BY DEF Inv, Superseded, Exists
    <3>4. file'[t] = file[t] /\ b \in Names \ ({Tmp} \cup Trash)
      BY <2>1, <3>2 DEF Names, Tmp
    <3>5. CASE n = k
      BY <2>1, <3>3, <3>4, <3>5
    <3>6. CASE n # k
      BY <2>1, <3>3, <3>4, <3>6
    <3> QED
      BY <3>5, <3>6
  <2> QED
    BY <2>1, <2>2, <2>4, <2>6, <2>7, <2>8, <2>9, <2>10, <2>11, Alone DEF Inv
<1> QED
  BY <1>1, <1>2

LEMMA AssessInv == Inv => \A p \in Libraries : Assess(p) => Inv'
<1> SUFFICES ASSUME Inv, NEW p \in Libraries, Assess(p) PROVE Inv'
  OBVIOUS
<1>1. UNCHANGED file /\ outcome[p] \in Outcomes
  BY DEF Assess, Inv, TypeOK
<1>2. CASE End(p, "recoveryRequired") \/ End(p, outcome[p])
  BY <1>1, <1>2, EndInv DEF Outcomes
<1>3. CASE pc[p] = "assessInput" /\ Continue(p, "assessBackup")
  BY <1>1, <1>3, GoesOnInv DEF Continue, plan, Places, Inv, TypeOK
<1> QED
  BY <1>2, <1>3 DEF Assess

LEMMA RemoveBackupInv == Inv => \A p \in Libraries : RemoveBackup(p) => Inv'
<1> SUFFICES ASSUME Inv, NEW p \in Libraries, RemoveBackup(p) PROVE Inv'
  OBVIOUS
<1> DEFINE k == Backup(book[p])
<1>1. CASE UNCHANGED file
  BY <1>1, EndInv DEF RemoveBackup, Outcomes
<1>2. CASE ~UNCHANGED file
  <2>1. pc[p] = "removeBackup" /\ Removed(k) /\ End(p, "committed")
    BY <1>2 DEF RemoveBackup, Succeeds
  <2>2. HoldsBackup(p) /\ k \in {"rarBackup", "cbzBackup"} /\ k \in Names
    BY <2>1 DEF HoldsBackup, Backup, Names
  <2>3. TypeOK' /\ Others(p) /\ pc'[p] = "idle"
    BY <2>1, <2>2 DEF Inv, TypeOK, End, Forget, Goto, Report, Others, Places, Outcomes, Books,
                      Output, Removed, NoFile
  <2>4. file'[k] = NoFile /\ \A n \in Names \ {k} : file'[n] = file[n]
    BY <2>1, <2>2 DEF Inv, TypeOK, Removed
  <2>5. \A q \in Libraries \ {p} :
           /\ pc'[q] = pc[q] /\ book'[q] = book[q] /\ drop'[q] = drop[q] /\ keep'[q] = keep[q]
           /\ HoldsTmp(q)' <=> HoldsTmp(q)
           /\ HoldsBackup(q)' <=> HoldsBackup(q)
           /\ book[q] \in Books
    BY <2>3 DEF Others, HoldsTmp, HoldsBackup, Inv, TypeOK
  <2>6. ~HoldsTmp(p) /\ ~HoldsTmp(p)' /\ ~HoldsBackup(p)'
    BY <2>1, <2>3 DEF HoldsTmp, HoldsBackup, Before, Moved, Assessing
  <2>7. ASSUME NEW q \in Libraries \ {p}, HoldsBackup(q)
        PROVE  book[q] # book[p] /\ Backup(book[q]) \in Names \ {k}
    <3>1. book[q] # book[p]
      BY <2>2, <2>7 DEF Inv, BackupIsHeld
    <3> QED
      BY <2>5, <3>1 DEF Inv, TypeOK, Books, Backup, Names
  <2>8. Shelves'
    BY <2>2, <2>4, PagesAssumption DEF Inv, Shelves, Books, NoFile, Names
  <2>9. TmpIsHeld'
    <3>1. file'[Tmp] = file[Tmp]
      BY <2>2, <2>4 DEF Names, Tmp
    <3> QED
      BY <2>5, <2>6, <3>1 DEF Inv, TmpIsHeld, Exists
  <2>10. BackupIsHeld'
    BY <2>4, <2>5, <2>6, <2>7 DEF Inv, BackupIsHeld, Exists
  <2>11. Selected(p)' /\ Listed(p)' /\ Source(p)'
    BY <2>3, <2>6 DEF Selected, Listed, Source, Before, Moved, Assessing
  <2>12. ASSUME NEW q \in Libraries \ {p} PROVE Selected(q)' /\ Listed(q)' /\ Source(q)'
    <3>1. Selected(q)'
      BY <2>5 DEF Inv, Selected
    <3>2. file'[book[q]] = file[book[q]] /\ file'["cbz"] = file["cbz"] /\ file'[Tmp] = file[Tmp]
      BY <2>2, <2>4, <2>5 DEF Books, Names, Tmp
    <3>3. file'[Backup(book[q])] \in {file[Backup(book[q])], NoFile}
      BY <2>2, <2>4 DEF Backup, Names
    <3>4. pc[q] \in Moved => file'[Backup(book[q])] = file[Backup(book[q])]
      BY <2>4, <2>7 DEF HoldsBackup
    <3>5. Source(q)'
      BY <2>5, <3>2, <3>3, <3>4 DEF Inv, Source
    <3>6. ASSUME pc[q] = "create", book[q] # "rar", ~Exists("cbz"), NEW r \in Libraries, HoldsTmp(r)'
          PROVE  book'[r] = "cbz" /\ pc'[r] \in Moved /\ file'["cbzBackup"] \ drop[q] \subseteq keep[q]
      <4>1. /\ r # p /\ HoldsTmp(r) /\ book'[r] = book[r] /\ pc'[r] = pc[r]
            /\ book[r] = "cbz" /\ pc[r] \in Moved /\ file["cbzBackup"] \ drop[q] \subseteq keep[q]
        BY <2>5, <2>6, <3>6 DEF Inv, Listed
      <4>2. "cbzBackup" \in Names \ {k}
        BY <2>7, <4>1 DEF HoldsBackup, Backup
      <4> QED
        BY <2>4, <4>1, <4>2
    <3>7. Listed(q)'
      BY <2>5, <3>2, <3>6 DEF Inv, Listed, Exists
    <3> QED
      BY <3>1, <3>5, <3>7
  <2>13. RarComesFirst'
    <3>1. \A q \in Libraries : pc'[q] \in Moved => pc[q] \in Moved /\ book'[q] = book[q]
      BY <2>3, <2>5 DEF Moved
    <3>2. file'["rar"] = file["rar"] /\ file'["cbz"] = file["cbz"]
          /\ file'["cbzBackup"] \in {file["cbzBackup"], NoFile}
      BY <2>2, <2>4 DEF Names
    <3> QED
      BY <3>1, <3>2 DEF Inv, RarComesFirst
  <2>14. Superseded'
    <3>1. k \in Trash /\ \A t \in Trash' : t \in Trash /\ t \in Names \ {k}
      <4>1. k \in Trash
        BY <2>1 DEF Trash
      <4>2. ASSUME NEW q \in Libraries, pc'[q] = "removeBackup"
            PROVE  /\ pc[q] = "removeBackup" /\ book'[q] = book[q]
                   /\ Backup(book[q]) \in Names \ {k}
        BY <2>3, <2>5, <2>7, <4>2 DEF HoldsBackup
      <4> QED
        BY <4>1, <4>2 DEF Trash
    <3> SUFFICES ASSUME NEW t \in Trash'
                 PROVE  \E n \in Names \ ({Tmp} \cup Trash') : file'[n] # NoFile /\ file'[n] \subseteq file'[t]
      BY DEF Superseded, Exists
    <3>2. PICK n \in Names \ ({Tmp} \cup Trash) : file[n] # NoFile /\ file[n] \subseteq file[t]
      BY <3>1 DEF Inv, Superseded, Exists
    <3> QED
      BY <2>4, <3>1, <3>2
  <2> QED
    BY <2>3, <2>8, <2>9, <2>10, <2>11, <2>12, <2>13, <2>14 DEF Inv
<1> QED
  BY <1>1, <1>2

LEMMA CrashInv == Inv => \A p \in Libraries : Crash(p) => Inv'
BY EndInv DEF Crash, Outcomes

\* With no rebuild under way only the files matter.
LEMMA QuietInv ==
    ASSUME Inv, Quiet, UNCHANGED <<pc, plan, outcome>>, Shelves', RarComesFirst',
           file' \in [Names -> SUBSET (AllPages \cup {Broken})]
    PROVE  Inv'
<1>1. TypeOK'
  BY DEF Inv, TypeOK, plan
<1>2. \A p \in Libraries : pc'[p] = "idle"
  BY DEF Quiet
<1>3. \A p \in Libraries : ~HoldsTmp(p)' /\ ~HoldsBackup(p)' /\ Listed(p)' /\ Source(p)' /\ Selected(p)'
  BY <1>2 DEF HoldsTmp, HoldsBackup, Listed, Source, Selected, Before, Moved, Assessing
<1>4. Superseded'
  BY <1>2 DEF Superseded, Trash
<1> QED
  BY <1>1, <1>3, <1>4 DEF Inv, TmpIsHeld, BackupIsHeld

LEMMA TidyingInv ==
    Inv /\ (CleanTmp \/ \E b \in Books : CleanBackup(b) \/ RestoreBackup(b)) => Inv'
<1> SUFFICES ASSUME Inv, CleanTmp \/ \E b \in Books : CleanBackup(b) \/ RestoreBackup(b)
             PROVE Inv'
  OBVIOUS
<1>1. Quiet /\ UNCHANGED <<pc, plan, outcome>>
  BY DEF CleanTmp, CleanBackup, RestoreBackup
<1>2. \A p \in Libraries : ~(pc'[p] \in Moved)
  BY <1>1 DEF Quiet, Moved
<1>3. CASE \E n \in {"tmp", "rarBackup", "cbzBackup"} : Removed(n)
  <2>1. PICK n \in {"tmp", "rarBackup", "cbzBackup"} : Removed(n)
    BY <1>3
  <2>2. /\ file' \in [Names -> SUBSET (AllPages \cup {Broken})]
        /\ file'[n] = NoFile /\ \A m \in Names \ {n} : file'[m] = file[m]
    BY <2>1 DEF Removed, Inv, TypeOK, Names, NoFile
  <2>3. Shelves'
    BY <2>2, PagesAssumption DEF Inv, Shelves, Names, NoFile, Books
  <2>4. RarComesFirst'
    BY <1>2, <2>2 DEF Inv, RarComesFirst, Names, NoFile
  <2> QED
    BY <1>1, <2>2, <2>3, <2>4, QuietInv
<1>4. CASE \E b \in Books : RestoreBackup(b)
  <2>1. PICK b \in Books : RestoreBackup(b)
    BY <1>4
  <2> DEFINE k == Backup(b)
  <2>2. /\ b \in {"rar", "cbz"} /\ k \in {"rarBackup", "cbzBackup"} /\ b \in Names /\ k \in Names
        /\ file[k] # NoFile /\ file[b] = NoFile
    BY <2>1 DEF Books, Backup, Names, RestoreBackup, Exists
  <2>3. /\ file' \in [Names -> SUBSET (AllPages \cup {Broken})]
        /\ file'[b] = file[k] /\ file'[k] = NoFile
        /\ \A m \in Names \ {b, k} : file'[m] = file[m]
    BY <2>1, <2>2 DEF RestoreBackup, Renamed, Inv, TypeOK, NoFile
  <2>4. Shelves'
    BY <2>2, <2>3, PagesAssumption DEF Inv, Shelves, Names, NoFile, Books, Backup
  <2>5. RarComesFirst'
    <3>1. CASE b = "rar"
      <4>1. file["rarBackup"] = Pages["rar"]
        BY <2>2, <3>1 DEF Inv, Shelves, Backup
      <4>2. \A n \in Books : ~SameBook(file[n], Pages["rar"])
        BY <2>1, <3>1, <4>1 DEF RestoreBackup, Backup
      <4>3. ~(file["cbz"] # NoFile /\ file["cbz"] \subseteq Pages["rar"])
        BY <4>2, PagesAssumption DEF SameBook, Books, NoFile
      <4>4. ~(file["cbzBackup"] # NoFile /\ file["cbzBackup"] \subseteq Pages["rar"])
        <5>1. SameBook(file["cbzBackup"], Pages["rar"]) => Pages["rar"] \subseteq file["cbzBackup"]
          BY <2>1, <3>1, <4>1 DEF RestoreBackup, Backup, Books
        <5>2. file["cbzBackup"] # Pages["rar"]
          BY DEF Inv, Shelves
        <5> QED
          BY <5>1, <5>2, PagesAssumption DEF SameBook, Books, NoFile
      <4> QED
        BY <2>3, <3>1, <4>3, <4>4 DEF RarComesFirst, Backup, Names
    <3>2. CASE b = "cbz"
      BY <1>2, <2>2, <2>3, <3>2 DEF Inv, RarComesFirst, Backup, Names
    <3> QED
      BY <2>2, <3>1, <3>2
  <2> QED
    BY <1>1, <2>3, <2>4, <2>5, QuietInv
<1> QED
  BY <1>3, <1>4 DEF CleanTmp, CleanBackup, Tmp, Backup

LEMMA NextInv == Inv /\ [Next]_vars => Inv'
<1> SUFFICES ASSUME Inv, [Next]_vars PROVE Inv'
  OBVIOUS
<1>1. ASSUME NEW p \in Libraries, Rebuild(p) PROVE Inv'
  BY <1>1, CheckPathsInv, ListInv, CreateInv, WriteInv, UnwriteInv, ValidateInv, ToBackupInv,
     ToOutputInv, RollbackInv, AssessInv, RemoveBackupInv DEF Rebuild
<1>2. CASE UNCHANGED vars
  BY <1>2 DEF vars, plan, Inv, TypeOK, Shelves, TmpIsHeld, BackupIsHeld, Selected, Listed, Source,
              RarComesFirst, Superseded, Trash, HoldsTmp, HoldsBackup, Exists
<1> QED
  BY <1>1, <1>2, PlanInv, CrashInv, TidyingInv DEF Next

\* The inductive invariant holds of every reachable state.
LEMMA Invariant == Spec => []Inv
BY InitInv, NextInv, PTL DEF Spec

-----------------------------------------------------------------------------
(* What a rebuild reports *)

\* Every step of a process moves its own place and nobody else's.
LEMMA OwnStep ==
    ASSUME Inv, Next, NEW p \in Libraries, pc'[p] # pc[p]
    PROVE  (\E b \in Books : \E d \in Offered(b) : Plan(p, b, d)) \/ Rebuild(p) \/ Crash(p)
<1>1. ASSUME NEW q \in Libraries, NEW place, Goto(q, place) PROVE q = p
  BY <1>1 DEF Goto, Inv, TypeOK
<1>2. ASSUME NEW q \in Libraries, Rebuild(q) PROVE \E place : Goto(q, place)
  BY <1>2 DEF Rebuild, CheckPaths, CheckName, List, Create, Write, Unwrite, Validate, Stat, ToBackup,
              ToOutput, Rollback, Assess, RemoveBackup, Continue, End, Forget
<1>3. ASSUME NEW q \in Libraries, Crash(q) PROVE \E place : Goto(q, place)
  BY <1>3 DEF Crash, End, Forget
<1>4. ASSUME NEW q \in Libraries, NEW b \in Books, NEW d \in Offered(b), Plan(q, b, d)
      PROVE  \E place : Goto(q, place)
  BY <1>4 DEF Plan
<1>5. UNCHANGED pc => FALSE
  OBVIOUS
<1> QED
  BY <1>1, <1>2, <1>3, <1>4, <1>5 DEF Next, CleanTmp, CleanBackup, RestoreBackup

LEMMA NothingOverwrittenHolds == Inv /\ Next => NothingOverwritten
<1> SUFFICES ASSUME Inv, Next PROVE NothingOverwritten
  OBVIOUS
<1>0. file \in [Names -> SUBSET (AllPages \cup {Broken})] /\ Tmp \in Names
  BY DEF Inv, TypeOK, Names, Tmp
<1>1. CASE UNCHANGED file
  BY <1>1 DEF NothingOverwritten
<1>2. CASE \E n \in Names : Removed(n)
  BY <1>0, <1>2 DEF NothingOverwritten, Removed
<1>3. ASSUME NEW n \in Names, NEW m \in Names, Renamed(n, m), file[m] = NoFile
      PROVE  NothingOverwritten
  BY <1>0, <1>3 DEF NothingOverwritten, Renamed
<1>4. ASSUME NEW p \in Libraries, Rebuild(p) PROVE NothingOverwritten
  <2>1. /\ book[p] \in Names /\ Backup(book[p]) \in Names /\ Output \in Names
    BY DEF Inv, TypeOK, Books, Backup, Names, Output
  <2>2. CASE CheckPaths(p) \/ List(p) \/ Validate(p) \/ Assess(p)
    BY <1>1, <2>2 DEF CheckPaths, CheckName, List, Validate, Stat, Assess
  <2>3. CASE Create(p)
    BY <1>0, <1>1, <2>3 DEF Create, Succeeds, Exists, NothingOverwritten
  <2>4. CASE Write(p)
    <3>1. file[Tmp] = Partial
      BY <2>4 DEF Write, Inv, TmpIsHeld, HoldsTmp
    <3> QED
      BY <1>0, <1>1, <2>4, <3>1 DEF Write, NothingOverwritten
  <2>5. CASE Unwrite(p)
    BY <1>0, <1>1, <1>2, <2>5 DEF Unwrite, Succeeds
  <2>6. CASE ToBackup(p)
    <3>1. file[Backup(book[p])] = NoFile
      BY <2>6 DEF ToBackup, Inv, Source
    <3> QED
      BY <1>1, <1>3, <2>1, <2>6, <3>1 DEF ToBackup
  <2>7. CASE ToOutput(p)
    <3>1. CASE ~UNCHANGED file
      BY <1>0, <1>3, <2>1, <2>7, <3>1, CommitFacts DEF Output
    <3> QED
      BY <1>1, <3>1
  <2>8. CASE Rollback(p)
    <3>1. file[book[p]] = NoFile
      BY <2>8 DEF Rollback, Inv, Source, Moved
    <3> QED
      BY <1>1, <1>3, <2>1, <2>8, <3>1 DEF Rollback
  <2>9. CASE RemoveBackup(p)
    BY <1>1, <1>2, <2>1, <2>9 DEF RemoveBackup, Succeeds
  <2> QED
    BY <1>4, <2>2, <2>3, <2>4, <2>5, <2>6, <2>7, <2>8, <2>9 DEF Rebuild
<1>5. CASE CleanTmp \/ \E b \in Books : CleanBackup(b)
  BY <1>0, <1>2, <1>5 DEF CleanTmp, CleanBackup, Backup, Names
<1>6. ASSUME NEW b \in Books, RestoreBackup(b) PROVE NothingOverwritten
  <2>1. b \in Names /\ Backup(b) \in Names /\ Renamed(Backup(b), b) /\ file[b] = NoFile
    BY <1>6 DEF RestoreBackup, Exists, Books, Backup, Names
  <2> QED
    BY <1>3, <2>1
<1> QED
  BY <1>1, <1>4, <1>5, <1>6 DEF Next, Plan, Crash

LEMMA FailureLeavesBookHolds == Inv /\ Next => \A p \in Libraries : FailureLeavesBook(p)
<1> SUFFICES ASSUME Inv, Next, NEW p \in Libraries,
                    pc[p] \in {"assessInput", "assessBackup", "rollback"}, pc'[p] = "idle",
                    outcome'[p] \in {"notCommitted", "rolledBack"}
             PROVE  /\ file'[book[p]] \in Whole /\ keep[p] \subseteq file'[book[p]]
                    /\ file'[Backup(book[p])] = NoFile
  BY DEF FailureLeavesBook
<1>1. Rebuild(p) \/ Crash(p)
  BY OwnStep DEF Plan
<1>2. ~End(p, "recoveryRequired") /\ ~Crash(p)
  BY DEF End, Report, Crash, Inv, TypeOK
<1>3. Rollback(p) \/ Assess(p)
  BY <1>1, <1>2 DEF Rebuild, CheckPaths, CheckName, List, Create, Write, Unwrite, Validate, Stat,
                    ToBackup, ToOutput, RemoveBackup
<1>4. CASE Rollback(p)
  BY <1>2, <1>4, RollbackFacts
<1>5. CASE Assess(p)
  <2>1. UNCHANGED file /\ pc[p] \in Assessing /\ HoldsTmp(p)
    BY <1>5 DEF Assess, Assessing, HoldsTmp
  <2>2. /\ file[book[p]] \ drop[p] = keep[p] /\ keep[p] # {}
        /\ file[Backup(book[p])] = NoFile
    BY <2>1 DEF Inv, Source, Selected
  <2>3. file[book[p]] \subseteq AllPages
    BY PagesAssumption DEF Inv, TypeOK, Shelves, Books, AllPages, NoFile
  <2> QED
    BY <2>1, <2>2, <2>3 DEF Whole
<1> QED
  BY <1>3, <1>4, <1>5

LEMMA CommitDeliversHolds == Inv /\ Next => \A p \in Libraries : CommitDelivers(p)
<1> SUFFICES ASSUME Inv, Next, NEW p \in Libraries, pc[p] = "toOutput", pc'[p] = "removeBackup"
             PROVE  /\ file'[Output] = keep[p] /\ keep[p] \cap drop[p] = {}
                    /\ keep[p] \subseteq file'[Backup(book[p])]
                    /\ book[p] # Output => file'[book[p]] = NoFile
  BY DEF CommitDelivers
<1>1. ToOutput(p)
  <2>1. Rebuild(p) \/ Crash(p)
    BY OwnStep DEF Plan
  <2>2. ~Crash(p)
    BY DEF Crash, End, Forget, Goto, Inv, TypeOK
  <2> QED
    BY <2>1, <2>2 DEF Rebuild, CheckPaths, CheckName, List, Create, Write, Unwrite, Validate, Stat,
                      ToBackup, Rollback, Assess, RemoveBackup
<1>2. ~UNCHANGED file
  <2>1. Renamed(Tmp, Output)
    BY <1>1 DEF ToOutput, Continue, Goto, Inv, TypeOK
  <2>2. Exists(Tmp)
    BY DEF Inv, TmpIsHeld, HoldsTmp, Moved
  <2> QED
    BY <2>1, <2>2 DEF Renamed, Exists, Inv, TypeOK, Names, Tmp, Output
<1>3. /\ keep[p] \cap drop[p] = {} /\ file[Backup(book[p])] \ drop[p] = keep[p]
      /\ file'["cbz"] = keep[p] /\ file[book[p]] = NoFile
      /\ book[p] \in {"rar", "cbz"} /\ Backup(book[p]) \in {"rarBackup", "cbzBackup"}
      /\ \A n \in Names \ {"cbz", Tmp} : file'[n] = file[n]
  BY <1>1, <1>2, CommitFacts
<1> QED
  BY <1>3 DEF Output, Names, Tmp

(***************************************************************************)
(* A rebuild is true to its report, for any number of processes, failures  *)
(* and kills: no rename lands on a file, what is reported as not done has  *)
(* left the book in place, and the commit publishes the pages selected     *)
(* (finalize_cbz_rebuild_transaction).                                     *)
(***************************************************************************)
THEOREM ReportIsTrue == Spec => TrueToItsReport
<1>1. Inv /\ [Next]_vars =>
        [/\ NothingOverwritten
         /\ \A p \in Libraries : FailureLeavesBook(p) /\ CommitDelivers(p)]_vars
  BY NothingOverwrittenHolds, FailureLeavesBookHolds, CommitDeliversHolds
<1> QED
  BY <1>1, Invariant, PTL DEF Spec, TrueToItsReport

-----------------------------------------------------------------------------
(* The refinement *)

Shelf == Names \ {Tmp}

\* What can happen to the archives but for a commit: nothing, a rename to a free
\* name, or the removal of one of which a smaller one is left.
Untouched == \A n \in Shelf : file'[n] = file[n]
Moves == \E n, m \in Shelf : Renamed(n, m) /\ n # m /\ file[m] = NoFile
Drops == \E t \in Shelf : /\ Removed(t)
                          /\ \E n \in Shelf \ {t} : file[n] # NoFile /\ file[n] \subseteq file[t]

LEMMA FileSteps ==
    Inv /\ Next =>
        \/ Untouched \/ Moves \/ Drops
        \/ \E p \in Libraries : ToOutput(p) /\ ~UNCHANGED file
<1> SUFFICES ASSUME Inv, Next, ~\E p \in Libraries : ToOutput(p) /\ ~UNCHANGED file
             PROVE  Untouched \/ Moves \/ Drops
  OBVIOUS
<1>0. file \in [Names -> SUBSET (AllPages \cup {Broken})]
  BY DEF Inv, TypeOK
<1>1. CASE UNCHANGED file
  BY <1>1 DEF Untouched
<1>2. ASSUME NEW s, file' = [file EXCEPT ![Tmp] = s] PROVE Untouched
  BY <1>0, <1>2 DEF Untouched, Shelf
<1>3. ASSUME NEW p \in Libraries, Rebuild(p), ~UNCHANGED file PROVE Untouched \/ Moves \/ Drops
  <2>1. /\ book[p] \in Shelf /\ Backup(book[p]) \in Shelf /\ book[p] # Backup(book[p])
    BY DEF Inv, TypeOK, Books, Backup, Names, Tmp, Shelf
  <2>2. CASE Create(p) \/ Write(p) \/ Unwrite(p)
    BY <1>2, <1>3, <2>2 DEF Create, Write, Unwrite, Succeeds, Removed
  <2>3. CASE ToBackup(p)
    <3>1. file[Backup(book[p])] = NoFile
      BY <2>3 DEF ToBackup, Inv, Source
    <3> QED
      BY <1>3, <2>1, <2>3, <3>1 DEF ToBackup, Moves
  <2>4. CASE Rollback(p)
    <3>1. file[book[p]] = NoFile
      BY <2>4 DEF Rollback, Inv, Source, Moved
    <3> QED
      BY <1>3, <2>1, <2>4, <3>1 DEF Rollback, Moves
  <2>5. CASE RemoveBackup(p)
    <3>1. Removed(Backup(book[p])) /\ pc[p] = "removeBackup"
      BY <1>3, <2>5 DEF RemoveBackup, Succeeds
    <3>2. Backup(book[p]) \in Trash
      BY <3>1 DEF Trash
    <3>3. PICK n \in Names \ ({Tmp} \cup Trash) :
             file[n] # NoFile /\ file[n] \subseteq file[Backup(book[p])]
      BY <3>2 DEF Inv, Superseded, Exists
    <3>4. n \in Shelf \ {Backup(book[p])}
      BY <3>2, <3>3 DEF Shelf
    <3> QED
      BY <2>1, <3>1, <3>3, <3>4 DEF Drops
  <2> QED
    BY <1>3, <2>2, <2>3, <2>4, <2>5
       DEF Rebuild, CheckPaths, CheckName, List, Validate, Stat, Assess
<1>4. CASE CleanTmp
  BY <1>2, <1>4 DEF CleanTmp, Removed
<1>5. ASSUME NEW b \in Books, CleanBackup(b) PROVE Drops
  <2>1. PICK n \in Books : file[n] # NoFile /\ file[n] \subseteq file[Backup(b)]
    BY <1>5 DEF CleanBackup
  <2>2. Backup(b) \in Shelf /\ n \in Shelf \ {Backup(b)}
    BY DEF Backup, Books, Shelf, Names, Tmp
  <2> QED
    BY <1>5, <2>1, <2>2 DEF CleanBackup, Drops
<1>6. ASSUME NEW b \in Books, RestoreBackup(b) PROVE Moves
  <2>1. b \in Shelf /\ Backup(b) \in Shelf /\ b # Backup(b)
    BY DEF Backup, Books, Shelf, Names, Tmp
  <2> QED
    BY <1>6, <2>1 DEF RestoreBackup, Exists, Moves
<1> QED
  BY <1>1, <1>3, <1>4, <1>5, <1>6 DEF Next, Plan, Crash

\* The archives of a book, spelled out.
LEMMA ArchivesAre ==
    \A b : Archives(b) = {s \in Whole : s \subseteq Pages[b] /\ \E n \in Shelf : file[n] = s}
BY DEF Archives, Shelf

LEMMA ArchivesAreNext ==
    \A b : Archives(b)' = {s \in Whole : s \subseteq Pages[b] /\ \E n \in Shelf : file'[n] = s}
BY DEF Archives, Shelf

\* None of these changes what a reader finds.
LEMMA SamePages ==
    ASSUME Inv, Untouched \/ Moves \/ Drops
    PROVE  \A b \in Books : CurrentPages(b)' = CurrentPages(b)
<1>0. file \in [Names -> SUBSET (AllPages \cup {Broken})] /\ Shelf \subseteq Names
  BY DEF Inv, TypeOK, Shelf
<1>1. ASSUME \A s \in Whole : (\E n \in Shelf : file'[n] = s) <=> (\E n \in Shelf : file[n] = s)
      PROVE  \A b \in Books : CurrentPages(b)' = CurrentPages(b)
  <2>1. \A b : Archives(b)' = Archives(b)
    BY <1>1, ArchivesAre, ArchivesAreNext
  <2> QED
    BY <2>1 DEF CurrentPages
<1>2. CASE Untouched
  BY <1>1, <1>2 DEF Untouched
<1>3. CASE Moves
  <2>1. PICK n \in Shelf, m \in Shelf : Renamed(n, m) /\ n # m /\ file[m] = NoFile
    BY <1>3 DEF Moves
  <2>2. /\ file'[m] = file[n] /\ file'[n] = NoFile
        /\ \A o \in Shelf \ {n, m} : file'[o] = file[o]
    BY <1>0, <2>1 DEF Renamed
  <2>3. \A s \in Whole : s # NoFile
    BY DEF Whole, NoFile
  <2> QED
    BY <1>1, <2>1, <2>2, <2>3
<1>4. CASE Drops
  <2>1. PICK t \in Shelf : /\ Removed(t)
                           /\ \E n \in Shelf \ {t} : file[n] # NoFile /\ file[n] \subseteq file[t]
    BY <1>4 DEF Drops
  <2>2. PICK n \in Shelf \ {t} : file[n] # NoFile /\ file[n] \subseteq file[t]
    BY <2>1
  <2>3. file'[t] = NoFile /\ \A o \in Shelf \ {t} : file'[o] = file[o]
    BY <1>0, <2>1 DEF Removed
  <2>4. \A s \in Whole : s # NoFile
    BY DEF Whole, NoFile
  <2> TAKE b \in Books
  <2>5. CASE file[t] \in Archives(b)
    <3>1. file[n] \in Archives(b)' /\ file[n] \in Archives(b)
      <4>1. file[n] \in Whole /\ file[n] \subseteq Pages[b]
        BY <2>2, <2>5, ArchivesAre DEF Whole, NoFile
      <4> QED
        BY <2>2, <2>3, <4>1, ArchivesAre, ArchivesAreNext
    <3>2. Archives(b)' \subseteq Archives(b)
      BY <2>3, <2>4, ArchivesAre, ArchivesAreNext
    <3>3. Archives(b) \subseteq Archives(b)' \cup {file[t]}
      BY <2>3, ArchivesAre, ArchivesAreNext
    <3> QED
      BY <2>2, <3>1, <3>2, <3>3 DEF CurrentPages
  <2>6. CASE file[t] \notin Archives(b)
    <3>1. Archives(b)' = Archives(b)
      BY <2>3, <2>4, <2>6, ArchivesAre, ArchivesAreNext
    <3> QED
      BY <3>1 DEF CurrentPages
  <2> QED
    BY <2>5, <2>6
<1> QED
  BY <1>2, <1>3, <1>4

\* The commit takes the pages to delete from one book, and leaves it some.
LEMMA CommitDeletes ==
    ASSUME Inv, NEW p \in Libraries, ToOutput(p), ~UNCHANGED file
    PROVE  \E b \in Books :
              /\ CurrentPages(b) \ drop[p] # {}
              /\ CurrentPages(b)' = CurrentPages(b) \ drop[p]
              /\ \A c \in Books \ {b} : CurrentPages(c)' = CurrentPages(c)
<1> DEFINE k == Backup(book[p])
           S == file[k]
<1>1. /\ pc[p] = "toOutput" /\ HoldsBackup(p)
      /\ book[p] \in {"rar", "cbz"} /\ k \in {"rarBackup", "cbzBackup"}
      /\ keep[p] # {} /\ S \ drop[p] = keep[p] /\ file[book[p]] = NoFile /\ file["cbz"] = NoFile
      /\ file'["cbz"] = keep[p] /\ \A n \in Names \ {"cbz", Tmp} : file'[n] = file[n]
  BY CommitFacts
<1>2. S # NoFile
  BY <1>1 DEF NoFile
<1>3. PICK b \in Books : S \subseteq Pages[b]
  BY <1>1, <1>2 DEF Inv, Shelves, Books
<1>4. S \in Whole /\ keep[p] \in Whole /\ keep[p] \subseteq S
  BY <1>1, <1>2, <1>3 DEF Whole, AllPages, Books, NoFile
<1>5. /\ k \in Shelf \ {"cbz"} /\ "cbz" \in Shelf
      /\ \A n \in Shelf : n \in {"rar", "cbz", "rarBackup", "cbzBackup"}
  BY <1>1 DEF Shelf, Names, Tmp
<1>6. \A s \in Archives(b) : S \subseteq s
  <2> SUFFICES ASSUME NEW n \in Shelf, file[n] \in Whole, file[n] \subseteq Pages[b]
               PROVE  S \subseteq file[n]
    BY ArchivesAre
  <2>1. file[n] # NoFile /\ n # "cbz"
    BY <1>1 DEF Whole, NoFile
  <2>2. CASE n \in {"rar", "rarBackup"}
    <3>1. file[n] = Pages["rar"] /\ b = "rar"
      BY <1>3, <2>1, <2>2, PagesAssumption DEF Inv, Shelves, Books
    <3> QED
      BY <1>3, <3>1
  <2>3. CASE n = "cbzBackup"
    <3>1. CASE book[p] = "cbz"
      BY <2>3, <3>1 DEF Backup
    <3>2. CASE book[p] = "rar"
      <4>1. ~(file["cbzBackup"] \subseteq Pages["rar"])
        BY <1>1, <2>1, <2>3, <3>2 DEF Inv, RarComesFirst, Moved
      <4>2. S = Pages["rar"]
        BY <1>2, <3>2 DEF Inv, Shelves, Backup
      <4> QED
        BY <1>3, <2>3, <4>1, <4>2, PagesAssumption DEF Books
    <3> QED
      BY <1>1, <3>1, <3>2
  <2> QED
    BY <1>5, <2>1, <2>2, <2>3
<1>7. S \in Archives(b)
  BY <1>3, <1>4, <1>5, ArchivesAre
<1>8. CurrentPages(b) = S
  BY <1>3, <1>6, <1>7 DEF CurrentPages
<1>9. ASSUME NEW c PROVE Archives(c)' = Archives(c) \cup ({keep[p]} \cap {s \in Whole : s \subseteq Pages[c]})
  <2>1. \A n \in Shelf \ {"cbz"} : file'[n] = file[n]
    BY <1>1 DEF Shelf
  <2>2. \A s \in Whole : (\E n \in Shelf : file'[n] = s) <=> s = keep[p] \/ (\E n \in Shelf : file[n] = s)
    <3>1. \A s \in Whole : s # NoFile
      BY DEF Whole, NoFile
    <3> QED
      BY <1>1, <1>5, <2>1, <3>1
  <2> QED
    BY <2>2, ArchivesAre, ArchivesAreNext
<1>10. CurrentPages(b)' = keep[p]
  <2>1. Archives(b)' = Archives(b) \cup {keep[p]}
    BY <1>3, <1>4, <1>9
  <2> QED
    BY <1>3, <1>4, <1>6, <2>1 DEF CurrentPages
<1>11. ASSUME NEW c \in Books \ {b} PROVE CurrentPages(c)' = CurrentPages(c)
  <2>1. ~(keep[p] \subseteq Pages[c])
    BY <1>1, <1>3, <1>4, PagesAssumption DEF Books
  <2>2. Archives(c)' = Archives(c)
    BY <1>9, <2>1
  <2> QED
    BY <2>2 DEF CurrentPages
<1> QED
  BY <1>1, <1>8, <1>10, <1>11

Content == [b \in Books |-> CurrentPages(b)]
Wanted == {drop[p] : p \in {q \in Libraries : pc[q] # "idle"}}

LEMMA StoreBooks == Store!Books = Books /\ Store!AllPages = AllPages
<1>1. Store!Books = Books
  BY PagesAssumption DEF Store!Books
<1> QED
  BY <1>1 DEF Store!AllPages, AllPages, Books

LEMMA StoreInitHolds == Init => Store!StoreInit
<1> SUFFICES ASSUME Init PROVE Store!StoreInit
  OBVIOUS
<1>1. Wanted = {}
  BY DEF Init, Wanted
<1>2. /\ \A b \in Books : file[b] \in {NoFile, Pages[b]}
      /\ \A n \in Shelf \ Books : file[n] = NoFile
  BY DEF Init, Shelf
<1>3. ASSUME NEW b \in Books PROVE CurrentPages(b) \in {{}, Pages[b]}
  <2>1. \A s \in Archives(b) : s = Pages[b]
    <3> SUFFICES ASSUME NEW n \in Shelf, file[n] \in Whole, file[n] \subseteq Pages[b]
                 PROVE  file[n] = Pages[b]
      BY ArchivesAre
    <3>1. n \in Books /\ file[n] = Pages[n]
      BY <1>2 DEF Whole, NoFile
    <3>2. n = b
      BY <3>1, PagesAssumption DEF Books
    <3> QED
      BY <3>1, <3>2
  <2> QED
    BY <2>1 DEF CurrentPages
<1>4. Content \in [Books -> SUBSET AllPages]
  BY <1>3 DEF Content, Books, AllPages
<1> QED
  BY <1>1, <1>3, <1>4, StoreBooks DEF Store!StoreInit, Content, Wanted

LEMMA StoreStep == Inv /\ Inv' /\ [Next]_vars => [Store!StoreNext]_(Store!storeVars)
<1> SUFFICES ASSUME Inv, Inv', [Next]_vars PROVE Store!StoreNext \/ UNCHANGED Store!storeVars
  OBVIOUS
<1>1. Wanted' \in SUBSET SUBSET AllPages
  BY DEF Inv, TypeOK, Wanted
<1>2. ASSUME \A b \in Books : CurrentPages(b)' = CurrentPages(b) PROVE Store!StoreNext
  <2>1. Content' = Content
    BY <1>2 DEF Content
  <2> QED
    BY <1>1, <2>1, StoreBooks DEF Store!StoreNext, Store!ChangeRequests, Content, Wanted
<1>3. CASE UNCHANGED vars
  <2>1. Untouched
    BY <1>3 DEF vars, Untouched
  <2> QED
    BY <1>2, <2>1, SamePages
<1>4. CASE Untouched \/ Moves \/ Drops
  BY <1>2, <1>4, SamePages
<1>5. ASSUME NEW p \in Libraries, ToOutput(p), ~UNCHANGED file PROVE Store!StoreNext
  <2>1. PICK b \in Books : /\ CurrentPages(b) \ drop[p] # {}
                           /\ CurrentPages(b)' = CurrentPages(b) \ drop[p]
                           /\ \A c \in Books \ {b} : CurrentPages(c)' = CurrentPages(c)
    BY <1>5, CommitDeletes
  <2>2. pc[p] = "toOutput" /\ pc'[p] = "removeBackup" /\ Others(p) /\ UNCHANGED plan
    BY <1>5, CommitFacts
  <2>3. Wanted' = Wanted /\ drop[p] \in Wanted
    <3>1. \A q \in Libraries : (pc'[q] # "idle" <=> pc[q] # "idle") /\ drop'[q] = drop[q]
      BY <2>2 DEF Others, plan
    <3> QED
      BY <2>2, <3>1 DEF Wanted
  <2>4. Content' = [Content EXCEPT ![b] = @ \ drop[p]] /\ Content[b] \ drop[p] # {}
    BY <2>1 DEF Content
  <2>5. Store!DeletePages(b, drop[p])
    BY <2>3, <2>4 DEF Store!DeletePages, Content, Wanted
  <2> QED
    BY <2>3, <2>5, StoreBooks DEF Store!StoreNext, Wanted
<1> QED
  BY <1>3, <1>4, <1>5, FileSteps

(***************************************************************************)
(* The rebuild implements BookStore, for any number of Library processes,  *)
(* any pages, any failing file operations and any kills: a book loses only *)
(* the pages of one confirmed request, at the commit and all at once, and  *)
(* keeps a page.                                                           *)
(***************************************************************************)
THEOREM RebuildImplementsBookStore == Spec => RefinesBookStore
<1>1. Init => Store!StoreInit
  BY StoreInitHolds
<1>2. Inv /\ Inv' /\ [Next]_vars => [Store!StoreNext]_(Store!storeVars)
  BY StoreStep
<1> QED
  BY <1>1, <1>2, Invariant, PTL DEF Spec, RefinesBookStore, Store!StoreSpec
=============================================================================
