-------------------------------- MODULE Spad --------------------------------
(***************************************************************************)
(* SPAD: while the reader stays in one book, pages of the books before and *)
(* after it are decoded, each by a thread of its own, so that they open at *)
(* once.  A neighbour is a target with a budget: two pages of its size     *)
(* guaranteed, and a share of the page cache.  A Viewer learns its         *)
(* neighbours once for every book it opens; the model begins there.        *)
(***************************************************************************)
EXTENDS Integers, Sequences, FiniteSets, SequencesExt

CONSTANTS
    Neighbourhoods, \* what may be around: "prev" and "next", where there is such a
                    \* book, -> [count, known, entry, width]: the pages it has, the
                    \* number the Library or a page map told (0: none), the page it
                    \* will open at, the width its own page map asks for (0: unknown)
    Areas,          \* the widths the current layout decodes for
    AreaBytes,      \* width -> the bytes of a page that fills it
    PageBytes,      \* page -> width -> bytes
    ExtraBytes      \* the share of the page cache

\* The widths a neighbour can be decoded for.
SpadWidths ==
    Areas \cup ((UNION {{b[s].width : s \in DOMAIN b} : b \in Neighbourhoods}) \ {0})

\* A width of 0 means that none is known; a page never takes more than its area.
ASSUME SpadAssumption ==
    /\ Areas \subseteq Nat \ {0}
    /\ ExtraBytes \in Nat
    /\ \A w \in SpadWidths : AreaBytes[w] \in Nat \ {0}
    /\ \A b \in Neighbourhoods : \A s \in DOMAIN b :
        /\ b[s] \in [count : Nat, known : Nat, entry : Nat, width : Nat]
        /\ \A p \in 0 .. b[s].count - 1, w \in SpadWidths :
            PageBytes[p][w] \in 0 .. AreaBytes[w]

Guaranteed == 2     \* SPAD_GUARANTEED_PAGE_COUNT

VARIABLES
    book,           \* the neighbour of each side that has one
    target,         \* its SpadTargetState
    spadInflight,   \* the sides with a request under way -> [page, width, answer],
                    \* answer a sequence, empty until the thread has sent it
    area,           \* the width of the current layout
    gate,           \* what the page cache's state and the display allow
    seen,           \* what they allowed when the last frame looked
    due,            \* a frame has been asked for
    resized         \* history: the layout has changed since the neighbours are known

spadVars == <<book, target, spadInflight, area, gate, seen, due, resized>>

SidesPresent == DOMAIN book

Gates == {"closed", "guaranteed", "all"}

(***************************************************************************)
(* A target.                                                               *)
(***************************************************************************)
\* build_spad_target.
NewTarget(b) ==
    [known |-> b.known, entry |-> b.entry, schedule |-> <<>>, index |-> 1,
     ready |-> {}, failed |-> {}, bytes |-> 0, max |-> 0, exhausted |-> FALSE]

WidthFor(s) == IF book[s].width # 0 THEN book[s].width ELSE area

\* refresh_spad_budget_plan.
Budgeted(s, t) == [t EXCEPT !.max = 2 * AreaBytes[WidthFor(s)] + ExtraBytes]

ReadyPages(t) == {r.page : r \in t.ready}

\* ensure_spad_scheduled_pages: from the page it opens at to the end, and the page
\* before when that is the last; two pages while their number is not known.
Scheduled(t) ==
    LET entry == IF t.entry < t.known THEN t.entry ELSE 0
        onward == [i \in 1 .. t.known - entry |-> entry + i - 1]
    IN  IF t.schedule # <<>>
        THEN t
        ELSE IF t.known = 0
        THEN [t EXCEPT !.schedule = <<t.entry, t.entry + 1>>]
        ELSE [t EXCEPT !.entry = entry,
                       !.schedule = IF Len(onward) < 2 /\ entry > 0
                                    THEN Append(onward, entry - 1)
                                    ELSE onward]

Done(t, p) == p \in ReadyPages(t) \cup t.failed

\* The places of the schedule, from its index on, whose pages are not done.
Pending(t) == {i \in t.index .. Len(t.schedule) : ~Done(t, t.schedule[i])}

\* mark_spad_page_failed.
MarkFailed(t, p) ==
    [t EXCEPT !.failed = @ \cup {p},
              !.index = IF @ <= Len(t.schedule) /\ t.schedule[@] = p THEN @ + 1 ELSE @]

\* budget_full_before_dispatch.
CheckBudget(t) == [t EXCEPT !.exhausted = @ \/ t.bytes >= t.max]

\* A page count that is news makes a new schedule.
LearnCount(t, count) ==
    IF count > 0 /\ count # t.known
    THEN Scheduled([t EXCEPT !.known = count, !.schedule = <<>>, !.index = 1])
    ELSE t

\* handle_spad_result.  A book that cannot be opened answers without a count, an
\* animation or a page that is not there without frames.
Handled(t, request, answer) ==
    LET u == LearnCount(t, answer.count)
        bytes == PageBytes[request.page][request.width]
        late == u.known > 0 /\ request.page >= u.known
    IN  IF ~late /\ Done(u, request.page)
        THEN u
        ELSE IF late \/ ~answer.frames
        THEN MarkFailed(u, request.page)
        ELSE IF u.bytes + bytes > u.max
        THEN [MarkFailed(u, request.page) EXCEPT !.exhausted = TRUE]
        ELSE [u EXCEPT !.bytes = @ + bytes,
                       !.ready = @ \cup {[page |-> request.page, width |-> request.width]},
                       !.index = @ + 1]

(***************************************************************************)
(* Frames and threads.                                                     *)
(***************************************************************************)
Waiting(s) == s \in DOMAIN spadInflight /\ spadInflight[s].answer = <<>>
HasAnswer(s) == s \in DOMAIN spadInflight /\ spadInflight[s].answer # <<>>

\* The target after the frame has taken the answer, and been through the gate.
Taken(s) ==
    LET t == Budgeted(s, target[s])
    IN  IF HasAnswer(s) THEN Handled(t, spadInflight[s], Head(spadInflight[s].answer)) ELSE t
Looked(s) == IF gate = "closed" THEN Taken(s) ELSE CheckBudget(Scheduled(Taken(s)))

\* dispatch_spad_request.
Dispatches(s) ==
    /\ gate # "closed"
    /\ ~Waiting(s)
    /\ ~Looked(s).exhausted
    /\ gate = "guaranteed" => Cardinality(Looked(s).ready) < Guaranteed
    /\ Pending(Looked(s)) # {}

Advanced(t) ==
    [t EXCEPT !.index = CHOOSE i \in Pending(t) : \A j \in Pending(t) : i <= j]

SpadRequest(s) ==
    LET t == Advanced(Looked(s))
    IN  [page |-> t.schedule[t.index], width |-> WidthFor(s), answer |-> <<>>]

\* poll_spad, in every frame: new budgets, the answers, and one request for each
\* side that has none, where the gate lets them.
PollSpad ==
    LET sent == {s \in SidesPresent : Dispatches(s)}
    IN  /\ target' = [s \in SidesPresent |->
                         IF s \in sent THEN Advanced(Looked(s)) ELSE Looked(s)]
        /\ spadInflight' = [s \in sent \cup {r \in SidesPresent : Waiting(r)} |->
                           IF s \in sent THEN SpadRequest(s) ELSE spadInflight[s]]
        /\ seen' = gate
        /\ due' = (sent # {})
        /\ UNCHANGED <<book, area, gate, resized>>

\* A thread opens the book, decodes and answers; then a frame is asked for.
DecodeSpad(s) ==
    /\ Waiting(s)
    /\ \E opened, still \in BOOLEAN :
        LET count == IF opened THEN book[s].count ELSE 0
        IN  spadInflight' = [spadInflight EXCEPT ![s].answer =
                <<[count |-> count, frames |-> spadInflight[s].page < count /\ still]>>]
    /\ due' = TRUE
    /\ UNCHANGED <<book, target, area, gate, seen, resized>>

\* The page cache of the current book settles, fills or starts over.  The manager
\* asks for a frame before it says so (the frame may then be over by the time it
\* does), or for none.
Gate ==
    /\ \E g \in Gates : g # gate /\ gate' = g
    /\ UNCHANGED <<book, target, spadInflight, area, seen, due, resized>>

\* The reader toggles the layout, in a frame: the page cache starts over.
Relayout ==
    /\ \E a \in Areas : a # area /\ area' = a
    /\ gate' = "closed"
    /\ due' = TRUE
    /\ resized' = TRUE
    /\ UNCHANGED <<book, target, spadInflight, seen>>

\* configure_spad_targets.
SpadInit ==
    /\ book \in Neighbourhoods
    /\ target = [s \in SidesPresent |-> NewTarget(book[s])]
    /\ spadInflight = <<>>
    /\ area \in Areas
    /\ gate = "closed"
    /\ seen = "closed"
    /\ due = TRUE
    /\ resized = FALSE

SpadNext == PollSpad \/ (\E s \in SidesPresent : DecodeSpad(s)) \/ Gate \/ Relayout

(***************************************************************************)
(* Properties.                                                             *)
(***************************************************************************)
\* The pages of a neighbour from the one it opens at, and the one before that when
\* it is the last.
Promised(b) ==
    LET entry == IF b.entry < b.count THEN b.entry ELSE 0
    IN  {p \in 0 .. b.count - 1 : p >= entry \/ (entry = b.count - 1 /\ p = entry - 1)}

\* The number known of its pages is one too high, and it opens at what would be the
\* last: when the thread first fails to open it and then learns the number from the
\* page before, the new schedule begins with page 0, which is taken for the page
\* that has come, and is skipped, unless it is that page.
OneTooMany(b) == b.count > 1 /\ b.known = b.count + 1 /\ b.entry = b.count

\* The gate has moved since the last frame, and no frame is asked for: the manager
\* asks before update_l2_streaming_status says that the cache has settled
\* (worker_manager.rs:981), or not at all (913, 954, 1137, 1156).  SPAD then sleeps
\* before an open gate until a frame is drawn for something else.
OpenedUnseen == gate # seen

\* The reading ahead falls asleep in no other way: an answer finds a frame; a side
\* that rests before an open gate which the last frame saw has prepared or given up
\* every page promised, or the two guaranteed ones where only they are allowed, or
\* never got the book open, or is at the end of its budget; and that budget holds
\* two pages, unless the layout has changed (poll_spad, dispatch_spad_request,
\* handle_spad_result).
SideAwake(s) ==
    LET t == target[s]
        Rests == s \notin DOMAIN spadInflight /\ ~due /\ gate # "closed"
    IN  /\ HasAnswer(s) => due
        /\ Rests =>
            \/ OpenedUnseen
            \/ t.exhausted
            \/ gate = "guaranteed" /\ Cardinality(t.ready) >= Guaranteed
            \/ /\ t.known = book[s].count
               /\ \A p \in Promised(book[s]) :
                    Done(t, p) \/ (p = 0 /\ OneTooMany(book[s]))
            \/ t.schedule # <<>> /\ ToSet(t.schedule) \subseteq t.failed
        /\ t.exhausted /\ ~resized => Cardinality(t.ready) >= Guaranteed

SpadAwake == \A s \in SidesPresent : SideAwake(s)
=============================================================================
