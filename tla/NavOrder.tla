------------------------------ MODULE NavOrder ------------------------------
(***************************************************************************)
(* How the Library finds the book before and the book after the current    *)
(* one (app/viewer_ops.rs, util/book_nav.rs).  A book is a number: its     *)
(* place in the natural order of the names of its directory.  The Library  *)
(* publishes the order of its list, and the order it had just before, as a *)
(* snapshot the IPC threads read; a book on neither is looked up in the    *)
(* listing of the directory.                                               *)
(***************************************************************************)
EXTENDS Naturals, Sequences, SequencesExt, FiniteSetsExt

NoBook == 0

\* The place of book in books, 0 when it is not there.
Place(books, book) == IF Contains(books, book) THEN CHOOSE i \in DOMAIN books : books[i] = book
                                               ELSE 0

\* The books of the directory in the natural order of their names.
Listing(onDisk) == SetToSortSeq(onDisk, <)

\* list_supported_navigation_books_in_dir when the snapshot is of no use.
FallbackBooks(book, onDisk) ==
    LET books == Listing(onDisk)
    IN  [books |-> books, anchor |-> IF Contains(books, book) THEN Place(books, book) ELSE 1,
         present |-> Contains(books, book)]

(***************************************************************************)
(* Where the current book stands: in the published order; where it stood   *)
(* in the order before; or in the directory.                               *)
(***************************************************************************)
ResolvedBooks(nav, book, onDisk) ==
    IF nav.books # <<>> /\ Contains(nav.books, book) THEN
        [books |-> nav.books, anchor |-> Place(nav.books, book), present |-> TRUE]
    ELSE IF nav.books # <<>> /\ Contains(nav.previous, book) THEN
        [books |-> nav.books, anchor |-> Place(nav.previous, book), present |-> FALSE]
    ELSE FallbackBooks(book, onDisk)

\* Before a deletion the order of the moment before is not consulted.
ResolvedForDelete(nav, book, onDisk) ==
    IF Contains(nav.books, book) THEN nav.books ELSE Listing(onDisk)

\* The last book among the first n, and the first one after them, that still exist.
AvailableBefore(books, n, onDisk) ==
    LET there == {i \in DOMAIN books : i <= n /\ books[i] \in onDisk}
    IN  IF there = {} THEN NoBook ELSE books[Max(there)]

AvailableAfter(books, n, onDisk) ==
    LET there == {i \in DOMAIN books : i > n /\ books[i] \in onDisk}
    IN  IF there = {} THEN NoBook ELSE books[Min(there)]

\* The neighbours of the current book, which may be missing from the order.
Neighbours(resolved, onDisk) ==
    LET last == IF resolved.present THEN resolved.anchor ELSE resolved.anchor - 1
    IN  [prev |-> AvailableBefore(resolved.books, resolved.anchor - 1, onDisk),
         next |-> AvailableAfter(resolved.books, last, onDisk)]

NavTarget(nav, book, onDisk, dir) == Neighbours(ResolvedBooks(nav, book, onDisk), onDisk)[dir]

\* Where a deletion leads: the next book, else the previous one.
AfterDelete(books, book, onDisk) ==
    LET at == Place(books, book)
        next == AvailableAfter(books, at, onDisk)
    IN  IF at = 0 THEN NoBook
        ELSE IF next # NoBook THEN next ELSE AvailableBefore(books, at - 1, onDisk)

(***************************************************************************)
(* Where a rebuild leads.  Unlike a deletion it takes the neighbour of the *)
(* list without asking whether it still exists.                            *)
(***************************************************************************)
AfterRebuild(books, book) ==
    LET at == Place(books, book)
    IN  IF at = 0 \/ Len(books) <= 1 THEN NoBook
        ELSE IF at < Len(books) THEN books[at + 1] ELSE books[at - 1]
=============================================================================
