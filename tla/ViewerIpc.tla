------------------------------ MODULE ViewerIpc ------------------------------
(***************************************************************************)
(* A Viewer process and the Library process it was opened from.            *)
(*                                                                         *)
(* The Viewer's window thread puts requests on a queue; its I/O thread     *)
(* sends one at a time over a named pipe and waits for the answer          *)
(* (app/viewer_app.rs).  In the Library a thread of its own serves the     *)
(* pipe (app/viewer_ops.rs): it keeps the book it takes to be the current  *)
(* one, answers some requests by itself, and for others leaves an event    *)
(* for the window thread and waits for that thread's word (app/mod.rs).    *)
(* Every step of every thread may interleave with every other's.           *)
(***************************************************************************)
EXTENDS NavOrder, FiniteSets

CONSTANTS
    NumBooks,     \* the books of the directory are 1 .. NumBooks
    Orders,       \* the orders the Library's list may take (sort and filter)
    Starts,       \* the books a Viewer is opened on
    MaxAsks,      \* how many requests the user makes
    MaxSideAsks   \* how many of them are for a filter or a preview, of a tool, or of the
                  \* Library's user for another order

ASSUME IpcAssumption == /\ NumBooks \in Nat \ {0} /\ MaxAsks \in Nat
                        /\ MaxSideAsks \in Nat /\ Starts \subseteq 1 .. NumBooks
                        /\ Orders \subseteq Seq(1 .. NumBooks)
                        /\ \A order \in Orders : IsInjective(order)

VARIABLES
    viewer,       \* the Viewer's window: see Viewer below
    requests,     \* requests its window thread has queued
    io,           \* its I/O thread: "ready", "wait" for an answer, or "dead"
    answers,      \* what the I/O thread has handed back to the window thread
    toLibrary,    \* the two directions of the pipe
    toViewer,
    server,       \* the Library's thread for this Viewer
    events,       \* events it left for the Library's window thread
    library,      \* the window thread: the list, the published order, the selection
    onDisk,       \* the books that exist
    removed,      \* history: what deletions removed, with what the user had been asked
    asks          \* requests the user has made so far

vars == <<viewer, requests, io, answers, toLibrary, toViewer, server, events, library,
          onDisk, removed, asks>>
viewerVars  == <<viewer, requests, io, answers>>
pipeVars    == <<toLibrary, toViewer>>
libraryVars == <<server, events, library, onDisk, removed>>

Books     == 1 .. NumBooks
Idle      == [kind |-> "none", id |-> 0]
NoSpad    == [base |-> NoBook, prev |-> NoBook, next |-> NoBook]
NoPreview == [dir |-> "none", id |-> 0, book |-> NoBook]

-----------------------------------------------------------------------------
(* Messages *)

AskedOfWindow == {"favorite", "filter", "filterState", "rebuild"}

\* ViewerToLibrary.  asked is history: the book the deletion dialog was opened for.
Request(kind, id, book, asked) == [kind |-> kind, id |-> id, book |-> book, asked |-> asked]

NoRequest == Request("none", 0, NoBook, NoBook)

\* LibraryToViewer.  base is history: the book the answer was computed for.
Response(kind, id, book, hood, base) ==
    [kind |-> kind, id |-> id, book |-> book, prev |-> hood.prev, next |-> hood.next,
     base |-> base]
Plain(kind, id) == Response(kind, id, NoBook, NoSpad, NoBook)

-----------------------------------------------------------------------------
(* The Viewer's window thread: requests *)

\* Init of ViewerMode and ViewerState, and the first two requests.
ViewerStart(book, mode) ==
    [mode |-> mode, shown |-> book, lastId |-> IF mode = "library" THEN 2 ELSE 1,
     action |-> Idle, statePending |-> IF mode = "gone" THEN 0 ELSE 1, favPending |-> 0, filterPending |-> 0,
     spadPending |-> IF mode = "library" THEN 2 ELSE 0,
     favOf |-> NoBook, favBefore |-> NoBook, dialog |-> "none", asked |-> NoBook,
     offline |-> FALSE, rangeInFlight |-> FALSE, session |-> "open", preview |-> NoPreview,
     spad |-> NoSpad]

FirstRequests(book, mode) ==
    <<Request("state", 1, book, NoBook)>>
        \o IF mode = "library" THEN <<Request("spad", 2, NoBook, NoBook)>> ELSE <<>>

\* mpsc::Sender::send fails once the I/O thread has gone, and its receiver with it.
CanSend == io # "dead"

\* The pending requests are fields of the mode, and go with it.
Detach(v) == [v EXCEPT !.mode = "detached", !.action = Idle, !.statePending = 0, !.favPending = 0,
                       !.filterPending = 0, !.spadPending = 0, !.preview = NoPreview,
                       !.rangeInFlight = FALSE]
Live    == viewer.mode \in {"library", "snapshot", "detached"}
Ask     == asks.all < MaxAsks /\ asks' = [asks EXCEPT !.all = @ + 1]
SideAsk == /\ asks.all < MaxAsks /\ asks.side < MaxSideAsks
           /\ asks' = [all |-> asks.all + 1, side |-> asks.side + 1]
AtKeys  == viewer.mode = "library" /\ viewer.dialog = "none"

\* handle_ipc_navigation: the pending action is the one sent last, whatever was pending.
SendNavigation(kind, v) ==
    LET id == v.lastId + 1
        w  == [v EXCEPT !.lastId = id]
    IN  IF CanSend
        THEN /\ requests' = Append(requests, Request(kind, id, v.shown, NoBook))
             /\ viewer' = [w EXCEPT !.action = [kind |-> kind, id |-> id]]
        ELSE /\ viewer' = [Detach(w) EXCEPT !.offline = @ \/ kind = "probe",
                               !.dialog = IF kind = "rebuild" THEN "rangeFailed" ELSE @]
             /\ UNCHANGED requests

PressBookKey ==
    /\ AtKeys /\ Ask
    /\ \E kind \in {"next", "prev"} : SendNavigation(kind, viewer)
    /\ UNCHANGED <<io, answers, pipeVars, libraryVars>>

\* The dialog opens with a question to the Library, to learn whether it is there.
BeginDeleteDialog ==
    /\ AtKeys /\ Ask
    /\ SendNavigation("probe", [viewer EXCEPT !.dialog = "delete", !.asked = viewer.shown,
                                              !.offline = FALSE])
    /\ UNCHANGED <<io, answers, pipeVars, libraryVars>>

\* The request carries the book on screen, and as history the one the dialog was opened for.
SendDeletion(choice, v) ==
    LET id == v.lastId + 1
        request == Request(choice, id, v.shown, viewer.asked)
    IN  IF CanSend
        THEN /\ requests' = Append(requests, request)
             /\ viewer' = [v EXCEPT !.lastId = id, !.action = [kind |-> choice, id |-> id]]
        ELSE viewer' = [Detach(v) EXCEPT !.offline = TRUE] /\ UNCHANGED requests

ApplyDeleteChoice ==
    /\ viewer.dialog = "delete" /\ Live
    /\ LET v == [viewer EXCEPT !.dialog = "none", !.asked = NoBook]
       IN  \E choice \in {"delete", "deleteNext"} :
               IF viewer.mode # "library" \/ (choice = "deleteNext" /\ viewer.offline)
               THEN viewer' = v /\ UNCHANGED <<requests, asks>>
               ELSE Ask /\ SendDeletion(choice, v)
    /\ UNCHANGED <<io, answers, pipeVars, libraryVars>>

CancelDialog ==
    /\ viewer.dialog # "none" /\ ~viewer.rangeInFlight /\ Live
    /\ viewer' = [viewer EXCEPT !.dialog = "none", !.asked = NoBook, !.offline = FALSE]
    /\ UNCHANGED <<requests, io, answers, pipeVars, libraryVars, asks>>

BeginPageRangeDeleteDialog ==
    /\ AtKeys
    /\ viewer' = [viewer EXCEPT !.dialog = "range", !.rangeInFlight = FALSE]
    /\ UNCHANGED <<requests, io, answers, pipeVars, libraryVars, asks>>

BeginPageRangeRebuildRequest ==
    /\ viewer.dialog = "range" /\ ~viewer.rangeInFlight /\ viewer.mode = "library" /\ Ask
    /\ SendNavigation("rebuild", [viewer EXCEPT !.rangeInFlight = TRUE])
    /\ UNCHANGED <<io, answers, pipeVars, libraryVars>>

RequestFavoriteToggle ==
    /\ AtKeys /\ viewer.favPending = 0 /\ Ask /\ CanSend
    /\ LET id == viewer.lastId + 1
       IN  /\ viewer' = [viewer EXCEPT !.lastId = id, !.favPending = id, !.favOf = NoBook,
                                       !.favBefore = viewer.favOf]
           /\ requests' = Append(requests, Request("favorite", id, viewer.shown, NoBook))
    /\ UNCHANGED <<io, answers, pipeVars, libraryVars>>

\* The file name menu: its filter is not waited for, the state of the filter is.
RequestFilter ==
    /\ viewer.mode \in {"library", "snapshot"} /\ viewer.dialog = "none" /\ SideAsk /\ CanSend
    /\ \E kind \in {"filter", "filterState"} :
           LET id == viewer.lastId + 1
           IN  /\ viewer' = [viewer EXCEPT !.lastId = id,
                       !.filterPending = IF kind = "filterState" THEN id ELSE @]
               /\ requests' = Append(requests, Request(kind, id, NoBook, NoBook))
    /\ UNCHANGED <<io, answers, pipeVars, libraryVars>>

\* At the first or last page: begin_boundary_preview, then the request of the same frame.
BeginBoundaryPreview ==
    /\ AtKeys /\ SideAsk
    /\ \E dir \in {"prev", "next"} :
           /\ viewer.preview.dir # dir
           /\ LET id == viewer.lastId + 1
                  v  == [viewer EXCEPT !.lastId = id]
              IN  IF CanSend
                  THEN /\ viewer' = [v EXCEPT !.preview = [NoPreview EXCEPT !.dir = dir, !.id = id]]
                       /\ requests' = Append(requests, Request("preview", id, NoBook, NoBook))
                  ELSE viewer' = [v EXCEPT !.preview = NoPreview] /\ UNCHANGED requests
    /\ UNCHANGED <<io, answers, pipeVars, libraryVars>>

MovePageOrToggleFullscreen ==
    /\ viewer.preview # NoPreview /\ Live
    /\ viewer' = [viewer EXCEPT !.preview = NoPreview]
    /\ UNCHANGED <<requests, io, answers, pipeVars, libraryVars, asks>>

\* A background tool has ended well: the notice is sent and never answered.
SendSourceChanged ==
    /\ viewer.mode = "library" /\ SideAsk /\ CanSend
    /\ requests' = Append(requests, Request("source", 0, viewer.shown, NoBook))
    /\ UNCHANGED <<viewer, io, answers, pipeVars, libraryVars>>

-----------------------------------------------------------------------------
(* The Viewer's window thread: answers *)

\* send_reading_session_finished: once for each book opened, and only to the Library.
SessionRequest(v) ==
    IF v.mode = "library" /\ v.session = "open"
    THEN [v |-> [v EXCEPT !.lastId = @ + 1, !.session = "sent"],
          q |-> IF CanSend THEN <<Request("session", v.lastId + 1, v.shown, NoBook)>> ELSE <<>>]
    ELSE [v |-> v, q |-> <<>>]

\* What a new book starts from (ViewerState::new, set_spad_adjacent_targets).
OpenedBook(v, book, spad) ==
    [v EXCEPT !.shown = book, !.session = "open", !.preview = NoPreview, !.spadPending = 0,
              !.favOf = book, !.spad = spad]

(***************************************************************************)
(* reopen_to_path: the session of the book that is left is sent without    *)
(* waiting, the new book starts from nothing, and its neighbours are asked *)
(* for unless they came with the answer.  That the new book cannot be      *)
(* opened, when the Viewer stays with the book it has told the end of, is  *)
(* not modelled.                                                           *)
(***************************************************************************)
Reopen(v, answer, spad) ==
    LET left  == SessionRequest(v)
        fresh == OpenedBook(left.v, answer.book, spad)
        id    == fresh.lastId + 1
        asksSpad == spad = NoSpad /\ fresh.mode = "library"
    IN  /\ requests' = requests \o left.q
                         \o IF asksSpad /\ CanSend THEN <<Request("spad", id, NoBook, NoBook)>>
                                                   ELSE <<>>
        /\ viewer' = [fresh EXCEPT !.lastId = IF asksSpad THEN id ELSE @,
                                   !.spadPending = IF asksSpad /\ CanSend THEN id ELSE 0,
                                   !.action = Idle]
        /\ UNCHANGED asks

\* What the last frame leaves of the window's state, and of its user's requests.
Ended(book, mode) == [ViewerStart(book, "gone") EXCEPT !.mode = mode, !.lastId = 0]

\* Closing: the session is sent, and its acknowledgement awaited for a while.
StartClosing(v) ==
    LET left == SessionRequest(v)
    IN  /\ viewer' = Ended(v.shown, IF left.q # <<>> THEN "closing" ELSE "gone")
        /\ requests' = requests \o left.q
        /\ asks' = [all |-> MaxAsks, side |-> MaxSideAsks]

IsCurrent(answer) == viewer.mode = "library" /\ viewer.action.id = answer.id

Stay(v) == viewer' = v /\ UNCHANGED <<requests, asks>>

\* Mutant: the pending action is left in place.
StillPending(v) == v

ClearPendingLibraryAction(v) == [v EXCEPT !.action = Idle]

OnViewerState(answer) ==
    IF viewer.statePending # answer.id THEN Stay(viewer)
    ELSE LET v == [viewer EXCEPT !.statePending = 0, !.favOf = answer.book]
         IN  Stay(IF v.mode = "snapshot" THEN Detach(v) ELSE v)

OnDeleted(answer) ==
    IF ~IsCurrent(answer) THEN Stay(viewer)
    ELSE \/ /\ viewer.action.kind = "deleteNext" /\ answer.book # NoBook
            /\ Reopen(viewer, answer, [base |-> answer.base, prev |-> answer.prev,
                                       next |-> answer.next])
         \/ /\ viewer.action.kind = "delete" \/ answer.book = NoBook
            /\ StartClosing(viewer)

OnNavigateTo(answer) ==
    IF ~IsCurrent(answer) THEN Stay(viewer)
    ELSE IF viewer.action.kind = "rebuild"
    THEN Reopen([viewer EXCEPT !.dialog = "none", !.rangeInFlight = FALSE, !.session = "dropped"],
                answer, NoSpad)
    ELSE Reopen(viewer, answer, NoSpad)

OnNoMoreBooks(answer) ==
    IF ~IsCurrent(answer) THEN Stay(viewer)
    ELSE IF viewer.action.kind = "rebuild"
    THEN StartClosing([viewer EXCEPT !.dialog = "none", !.rangeInFlight = FALSE,
                                     !.session = "dropped"])
    ELSE IF viewer.action.kind = "deleteNext" THEN StartClosing(viewer)
    ELSE Stay(ClearPendingLibraryAction(viewer))

\* restore_pending_favorite_toggle_state.
RestoreFavorite(v) ==
    IF v.favPending = 0 THEN v
    ELSE [v EXCEPT !.favPending = 0, !.favOf = v.favBefore, !.favBefore = NoBook]

\* No answer is marked as worth a retry, so the retry budget is never used.
OnError(answer) ==
    LET kind == viewer.action.kind
    IN  IF viewer.preview.id = answer.id THEN Stay([viewer EXCEPT !.preview = NoPreview])
        ELSE IF IsCurrent(answer) THEN
            Stay([viewer EXCEPT !.action = Idle,
                     !.rangeInFlight = IF kind = "rebuild" THEN FALSE ELSE @,
                     !.dialog = IF kind = "rebuild" THEN "rangeFailed" ELSE @,
                     !.offline = @ \/ kind \in {"probe", "delete", "deleteNext"}])
        ELSE IF viewer.favPending = answer.id THEN Stay(RestoreFavorite(viewer))
        ELSE IF viewer.filterPending = answer.id THEN Stay([viewer EXCEPT !.filterPending = 0])
        ELSE Stay(viewer)

OnFavoriteToggled(answer) ==
    Stay(IF viewer.favPending = answer.id
         THEN [viewer EXCEPT !.favPending = 0, !.favOf = answer.book, !.favBefore = NoBook]
         ELSE viewer)

OnFilterState(answer) ==
    Stay(IF viewer.filterPending = answer.id THEN [viewer EXCEPT !.filterPending = 0] ELSE viewer)

OnProbeAnswered(answer) ==
    Stay(IF IsCurrent(answer) /\ viewer.action.kind = "probe"
         THEN [viewer EXCEPT !.offline = FALSE, !.action = Idle] ELSE viewer)

\* The neighbour on the side the preview is for; its thumbnail may be missing.
OnPreview(answer) ==
    IF viewer.preview.id # answer.id \/ viewer.preview.book # NoBook THEN Stay(viewer)
    ELSE \/ Stay([viewer EXCEPT !.preview = NoPreview])
         \/ /\ answer[viewer.preview.dir] # NoBook
            /\ Stay([viewer EXCEPT !.preview.book = answer[viewer.preview.dir]])

OnSpad(answer) ==
    Stay(IF viewer.mode = "library" /\ viewer.spadPending = answer.id
         THEN [viewer EXCEPT !.spadPending = 0,
                             !.spad = [base |-> answer.base, prev |-> answer.prev,
                                       next |-> answer.next]]
         ELSE viewer)

OnDisconnected ==
    Stay([Detach(RestoreFavorite(viewer)) EXCEPT
             !.dialog = IF viewer.rangeInFlight THEN "rangeFailed" ELSE @])

\* poll_library_ipc.
PollLibraryIpc ==
    /\ viewer.mode \in {"library", "snapshot"} /\ answers # <<>>
    /\ answers' = Tail(answers)
    /\ LET answer == Head(answers)
       IN  CASE answer.kind = "state"       -> OnViewerState(answer)
             [] answer.kind = "deleted"     -> OnDeleted(answer)
             [] answer.kind = "navigate"    -> OnNavigateTo(answer)
             [] answer.kind = "noMore"      -> OnNoMoreBooks(answer)
             [] answer.kind = "error"       -> OnError(answer)
             [] answer.kind = "favorite"    -> OnFavoriteToggled(answer)
             [] answer.kind = "filterState" -> OnFilterState(answer)
             [] answer.kind = "probe"       -> OnProbeAnswered(answer)
             [] answer.kind = "preview"     -> OnPreview(answer)
             [] answer.kind = "spad"        -> OnSpad(answer)
             [] answer.kind = "gone"        -> OnDisconnected
             [] OTHER                       -> Stay(viewer)
    /\ UNCHANGED <<io, pipeVars, libraryVars>>

\* The user closes the window, at any time.
CloseViewer ==
    /\ Live
    /\ StartClosing(viewer)
    /\ UNCHANGED <<io, answers, pipeVars, libraryVars>>

\* While it waits for the acknowledgement the window thread throws the other answers away.
AwaitSessionAck ==
    /\ viewer.mode = "closing"
    /\ \/ /\ answers # <<>> /\ answers' = Tail(answers)
          /\ viewer' = IF Head(answers).kind \in {"sessionAck", "gone"}
                       THEN [viewer EXCEPT !.mode = "gone"] ELSE viewer
       \/ /\ viewer' = [viewer EXCEPT !.mode = "gone"]
          /\ UNCHANGED answers
    /\ UNCHANGED <<requests, io, pipeVars, libraryVars, asks>>

\* The process ends with what its threads had not sent yet.
ViewerExits ==
    /\ viewer.mode = "gone" /\ io # "dead"
    /\ io' = "dead" /\ requests' = <<>> /\ answers' = <<>>
    /\ UNCHANGED <<viewer, toLibrary, toViewer, libraryVars, asks>>

-----------------------------------------------------------------------------
(* The Viewer's I/O thread *)

\* Mutant: the I/O thread goes without a word.
SilentLoss == UNCHANGED answers

ReportLoss == answers' = Append(answers, Plain("gone", 0))

IoSend ==
    /\ io = "ready" /\ requests # <<>>
    /\ requests' = Tail(requests)
    /\ IF server.state # "dead"
       THEN /\ toLibrary' = Append(toLibrary, Head(requests))
            /\ io' = IF Head(requests).kind = "source" THEN "ready" ELSE "wait"
            /\ UNCHANGED answers
       ELSE /\ io' = "dead" /\ ReportLoss
            /\ UNCHANGED toLibrary
    /\ UNCHANGED <<viewer, toViewer, libraryVars, asks>>

\* With the Viewer detached nobody listens any more, and the thread returns.
IoReceive ==
    /\ io = "wait" /\ toViewer # <<>>
    /\ toViewer' = Tail(toViewer)
    /\ IF viewer.mode = "detached"
       THEN io' = "dead" /\ UNCHANGED answers
       ELSE io' = "ready" /\ answers' = Append(answers, Head(toViewer))
    /\ UNCHANGED <<viewer, requests, toLibrary, libraryVars, asks>>

IoReceiveFails ==
    /\ io = "wait" /\ toViewer = <<>> /\ server.state = "dead"
    /\ io' = "dead" /\ ReportLoss
    /\ UNCHANGED <<viewer, requests, pipeVars, libraryVars, asks>>

\* A detached Viewer has dropped its end of the queue: the thread returns.
IoEnd ==
    /\ io = "ready" /\ requests = <<>> /\ viewer.mode = "detached"
    /\ io' = "dead"
    /\ UNCHANGED <<viewer, requests, answers, pipeVars, libraryVars, asks>>

-----------------------------------------------------------------------------
(* The Library's thread for this Viewer *)

Event(kind, id, book, next) == [kind |-> kind, id |-> id, book |-> book, next |-> next]

\* The event for the window thread is left first, then the answer is sent.
Reply(current, answer, news) ==
    /\ events' = events \o news
    /\ toViewer' = IF io # "dead" THEN Append(toViewer, answer) ELSE toViewer
    /\ server' = [server EXCEPT !.state = IF io # "dead" THEN "serve" ELSE "dead",
                                !.current = current]

\* Mutant: the book of the request is not looked at.
AnyBook(request) == TRUE

IsRequestedBookCurrent(request) == request.book = server.current

\* Mutant: the window thread is not told where the Viewer went.
NoNews(id, target) == <<>>

NavigatedNews(id, target) == <<Event("navigated", id, target, NoBook)>>

ServeSource(request) ==
    /\ request.kind = "source"
    /\ events' = Append(events, Event("source", 0, request.book, NoBook))
    /\ UNCHANGED <<server, toViewer, onDisk, removed>>

\* The favourite, the filter and the rebuild are the window thread's business.
ServeByWindow(request) ==
    /\ request.kind \in AskedOfWindow
    /\ IF request.kind = "rebuild" /\ ~IsRequestedBookCurrent(request)
       THEN Reply(server.current, Plain("error", request.id), <<>>)
       ELSE /\ events' = Append(events, Event(request.kind, request.id, request.book,
                   IF request.kind = "rebuild"
                   THEN AfterRebuild(ResolvedForDelete(library.nav, server.current, onDisk),
                                     server.current)
                   ELSE NoBook))
            /\ server' = [server EXCEPT !.state = "waitWindow", !.request = request]
            /\ UNCHANGED toViewer
    /\ UNCHANGED <<onDisk, removed>>

ServeState(request) ==
    /\ request.kind = "state"
    /\ Reply(server.current,
             Response("state", request.id, server.current, NoSpad, NoBook), <<>>)
    /\ UNCHANGED <<onDisk, removed>>

ServeSession(request) ==
    /\ request.kind = "session"
    /\ Reply(server.current, Plain("sessionAck", request.id),
             <<Event("session", request.id, request.book, NoBook)>>)
    /\ UNCHANGED <<onDisk, removed>>

ServeNavigation(request) ==
    /\ request.kind \in {"next", "prev"}
    /\ LET target == NavTarget(library.nav, server.current, onDisk, request.kind)
       IN  IF target = NoBook
           THEN Reply(server.current, Plain("noMore", request.id), <<>>)
           ELSE Reply(target, Response("navigate", request.id, target, NoSpad, NoBook),
                      NavigatedNews(request.id, target))
    /\ UNCHANGED <<onDisk, removed>>

ServeAdjacentBooks(request) ==
    /\ request.kind \in {"probe", "preview", "spad"}
    /\ LET hood == Neighbours(ResolvedBooks(library.nav, server.current, onDisk), onDisk)
       IN  Reply(server.current,
                 Response(request.kind, request.id, NoBook, hood, server.current), <<>>)
    /\ UNCHANGED <<onDisk, removed>>

(***************************************************************************)
(* Delete and DeleteAndNext: only of the current book; where to go next is *)
(* settled before the file goes, and with it the neighbours of that book.  *)
(***************************************************************************)
ServeDelete(request) ==
    /\ request.kind \in {"delete", "deleteNext"}
    /\ LET current == server.current
           books   == ResolvedForDelete(library.nav, current, onDisk)
           next    == IF request.kind = "deleteNext" THEN AfterDelete(books, current, onDisk)
                                                     ELSE NoBook
           left    == SelectSeq(books, LAMBDA b : b # current)
           hood    == IF next = NoBook THEN NoSpad
                      ELSE Neighbours([books |-> left, anchor |-> Place(left, next),
                                       present |-> TRUE], onDisk \ {current})
       IN  IF ~IsRequestedBookCurrent(request) \/ current \notin onDisk
           THEN /\ Reply(current, Plain("error", request.id), <<>>)
                /\ UNCHANGED <<onDisk, removed>>
           ELSE \/ /\ onDisk' = onDisk \ {current}
                   /\ removed' = removed \cup {[book |-> current, asked |-> request.asked]}
                   /\ Reply(IF next = NoBook THEN current ELSE next,
                            Response("deleted", request.id, next, hood, next),
                            <<Event("deleted", request.id, current, next)>>)
                \/ /\ Reply(current, Plain("error", request.id), <<>>)
                   /\ UNCHANGED <<onDisk, removed>>

Serve ==
    /\ server.state = "serve" /\ toLibrary # <<>>
    /\ toLibrary' = Tail(toLibrary)
    /\ LET request == Head(toLibrary)
       IN  \/ ServeSource(request)
           \/ ServeByWindow(request)
           \/ ServeState(request)
           \/ ServeSession(request)
           \/ ServeNavigation(request)
           \/ ServeAdjacentBooks(request)
           \/ ServeDelete(request)
    /\ UNCHANGED <<viewerVars, library, asks>>

\* The window thread's word has come.
ServeWindowAnswer ==
    /\ server.state = "waitWindow" /\ server.word # "none"
    /\ LET request == server.request
           base    == [server EXCEPT !.word = "none", !.next = NoBook, !.request = NoRequest]
           moved   == request.kind = "rebuild" /\ server.word = "ok" /\ server.next # NoBook
           answer  == IF server.word = "failed" THEN Plain("error", request.id)
                      ELSE IF moved THEN Response("navigate", request.id, server.next, NoSpad, NoBook)
                      ELSE IF request.kind = "rebuild" THEN Plain("noMore", request.id)
                      ELSE Response(request.kind, request.id, request.book, NoSpad, NoBook)
       IN  /\ server' = [base EXCEPT !.state = IF io # "dead" THEN "serve" ELSE "dead",
                                     !.current = IF moved THEN server.next ELSE @]
           /\ toViewer' = IF io # "dead" THEN Append(toViewer, answer) ELSE toViewer
           /\ events' = IF moved THEN events \o NavigatedNews(request.id, server.next) ELSE events
    /\ UNCHANGED <<viewerVars, toLibrary, library, onDisk, removed, asks>>

\* The Viewer has gone, the pipe has failed, or the Library is closed.
ServerEnds ==
    /\ server.state # "dead"
    /\ server' = [server EXCEPT !.state = "dead", !.request = NoRequest, !.word = "none",
                                !.next = NoBook]
    /\ toLibrary' = <<>>
    /\ UNCHANGED <<viewerVars, toViewer, events, library, onDisk, removed, asks>>

-----------------------------------------------------------------------------
(* The Library's window thread *)

\* The first entry of that path is removed, if there is one.
Without(books, book) ==
    LET at == Place(books, book) IN IF at = 0 THEN books ELSE RemoveAt(books, at)

\* restore_selection_by_path: a path that is not listed leaves nothing selected.
Select(l, book) == [l EXCEPT !.selected = IF Contains(l.list, book) THEN book ELSE NoBook]

\* The selection is an index: with its entry gone it means the next one, or the last.
AfterRemoval(l, book) ==
    LET left == Without(l.list, book)
        at   == Place(l.list, book)
    IN  IF l.selected # book \/ at = 0 THEN l.selected
        ELSE IF left = <<>> THEN NoBook
        ELSE left[Min({at, Len(left)})]

Forget(l, book) ==
    [l EXCEPT !.list = Without(@, book), !.known = @ \ {book},
              !.selected = AfterRemoval(l, book)]

DrainDeleted(event) ==
    /\ library' = IF event.next = NoBook THEN Forget(library, event.book)
                  ELSE Select(Forget(library, event.book), event.next)
    /\ UNCHANGED <<server, onDisk>>

DrainNavigated(event) ==
    /\ library' = Select(library, event.book)
    /\ UNCHANGED <<server, onDisk>>

\* Nobody listens for the word of a request whose thread has ended.
Tell(word, next) ==
    server' = IF server.state = "dead" THEN server
              ELSE [server EXCEPT !.word = word, !.next = next]

(***************************************************************************)
(* The rebuild: refused or undone; committed, a book of another format     *)
(* giving its name up; or committed and then not found by the list.  The   *)
(* entry is taken off the list and put back, which moves the selection.    *)
(***************************************************************************)
DrainRebuild(event) ==
    \/ /\ Tell("failed", NoBook)
       /\ UNCHANGED <<onDisk, library>>
    \/ /\ event.book \in library.known \cap onDisk
       /\ onDisk' \in {onDisk, onDisk \ {event.book}}
       /\ \/ /\ Tell("ok", event.next)
             /\ library' = IF event.book \in onDisk'
                           THEN [library EXCEPT !.selected = AfterRemoval(library, event.book)]
                           ELSE Forget(library, event.book)
          \/ /\ Tell("failed", NoBook)
             /\ UNCHANGED library

DrainFavorite(event) ==
    /\ \/ event.book \in onDisk /\ Tell("ok", NoBook)
       \/ Tell("failed", NoBook)
    /\ UNCHANGED <<library, onDisk>>

\* drain_pending_viewer_sync_events, one event.
DrainEvent ==
    /\ events # <<>> /\ events' = Tail(events)
    /\ LET event == Head(events)
       IN  CASE event.kind = "deleted"   -> DrainDeleted(event)
             [] event.kind = "navigated" -> DrainNavigated(event)
             [] event.kind = "rebuild"   -> DrainRebuild(event)
             [] event.kind = "favorite"  -> DrainFavorite(event)
             [] event.kind \in {"filter", "filterState"} ->
                    Tell("ok", NoBook) /\ UNCHANGED <<library, onDisk>>
             [] OTHER -> UNCHANGED <<server, library, onDisk>>
    /\ UNCHANGED <<viewerVars, pipeVars, removed, asks>>

\* refresh_library_book_order: the order that was published becomes the previous one.
RefreshLibraryBookOrder ==
    /\ library.nav.books # library.list
    /\ library' = [library EXCEPT !.nav = [books |-> library.list, previous |-> library.nav.books]]
    /\ UNCHANGED <<viewerVars, pipeVars, server, events, onDisk, removed, asks>>

\* The user sorts or filters the list.
ReorderList ==
    /\ SideAsk
    /\ \E order \in Orders :
           /\ order # library.list /\ ToSet(order) \subseteq library.known
           /\ library' = Select([library EXCEPT !.list = order], library.selected)
    /\ UNCHANGED <<viewerVars, pipeVars, server, events, onDisk, removed>>

-----------------------------------------------------------------------------

\* The list as the folder is opened: by name, and books are numbered by name.
NaturalOrder == [book \in Books |-> book]

Init ==
    /\ \E book \in Starts, mode \in {"library", "snapshot"} :
           /\ viewer = ViewerStart(book, mode)
           /\ requests = FirstRequests(book, mode)
           /\ server = [state |-> "serve", current |-> book, word |-> "none", next |-> NoBook,
                        request |-> NoRequest]
           /\ library = [list |-> NaturalOrder, known |-> Books, selected |-> book,
                         nav |-> [books |-> NaturalOrder, previous |-> <<>>]]
    /\ io = "ready" /\ answers = <<>> /\ toLibrary = <<>> /\ toViewer = <<>>
    /\ events = <<>> /\ onDisk = Books /\ removed = {} /\ asks = [all |-> 0, side |-> 0]

UserAction ==
    \/ PressBookKey
    \/ BeginDeleteDialog
    \/ ApplyDeleteChoice
    \/ CancelDialog
    \/ BeginPageRangeDeleteDialog
    \/ BeginPageRangeRebuildRequest
    \/ RequestFavoriteToggle
    \/ RequestFilter
    \/ BeginBoundaryPreview
    \/ MovePageOrToggleFullscreen
    \/ SendSourceChanged
    \/ CloseViewer

Next ==
    \/ UserAction
    \/ PollLibraryIpc
    \/ AwaitSessionAck
    \/ ViewerExits
    \/ IoSend
    \/ IoReceive
    \/ IoReceiveFails
    \/ IoEnd
    \/ Serve
    \/ ServeWindowAnswer
    \/ ServerEnds
    \/ DrainEvent
    \/ RefreshLibraryBookOrder
    \/ ReorderList

Spec == Init /\ [][Next]_vars

\* Both window threads draw frames, and the two I/O threads run.
FairSpec ==
    /\ Spec
    /\ WF_vars(PollLibraryIpc) /\ WF_vars(AwaitSessionAck) /\ WF_vars(IoSend) /\ WF_vars(IoReceive)
    /\ WF_vars(IoReceiveFails)
    /\ WF_vars(Serve) /\ WF_vars(ServeWindowAnswer) /\ WF_vars(DrainEvent)
-----------------------------------------------------------------------------
(* Properties *)

ToAnswer == ToSet(requests) \cup ToSet(toLibrary)
            \cup IF server.state = "waitWindow" THEN {server.request} ELSE {}
Answered == ToSet(toViewer) \cup ToSet(answers)

\* The I/O thread will report, or has reported, that the pipe is gone.
LossReported == (\E a \in Answered : a.kind = "gone") \/ (io = "wait" /\ server.state = "dead")

OnTheWay(id) ==
    id = 0 \/ LossReported \/ (\E m \in ToAnswer \cup Answered : m.id = id)

(***************************************************************************)
(* Whatever the Viewer waits for is on its way: the request or its answer  *)
(* is in one of the queues, or the loss of the pipe is going to be told.   *)
(* The page range dialog, which nothing closes while it waits, is covered. *)
(***************************************************************************)
AwaitedIsOnTheWay ==
    viewer.mode \in {"library", "snapshot"} =>
        /\ OnTheWay(viewer.action.id)
        /\ OnTheWay(viewer.statePending)
        /\ OnTheWay(viewer.favPending)
        /\ OnTheWay(viewer.filterPending)
        /\ OnTheWay(viewer.spadPending)
        /\ viewer.preview.book = NoBook => OnTheWay(viewer.preview.id)
        /\ viewer.rangeInFlight => viewer.action.kind = "rebuild"

(***************************************************************************)
(* A deletion removes the book the dialog was opened for: no answer that   *)
(* arrives while it is open changes the book on screen, and the Library,   *)
(* which may have moved on, refuses to delete any book but its current     *)
(* one.                                                                    *)
(***************************************************************************)
DeletesOnlyWhatWasAsked == \A r \in removed : r.book = r.asked

\* The book the Library's selection is heading for, given the events still to be drained.
Heading ==
    LET told == {i \in DOMAIN events : events[i].kind = "navigated"
                                       \/ (events[i].kind = "deleted" /\ events[i].next # NoBook)}
    IN  IF told = {} THEN library.selected
        ELSE LET e == events[Max(told)] IN IF e.kind = "deleted" THEN e.next ELSE e.book

(***************************************************************************)
(* The Library's selection follows the Viewer: once its events are drained *)
(* the book selected is the one the Viewer was last sent to, or none when  *)
(* the list does not show it.  A rebuild moves the selection for as long   *)
(* as its answer is awaited, and for good when the answer ends the Viewer. *)
(***************************************************************************)
SelectionFollows ==
    viewer.mode = "library" /\ ~viewer.rangeInFlight /\ server.state = "serve" =>
        Heading \in {server.current, NoBook} \/ server.current \notin ToSet(library.list)

\* A request for another book, or for a deletion, does not stay pending.
NavigationIsAnswered ==
    (viewer.mode = "library" /\ viewer.action # Idle)
        ~> (viewer.mode # "library" \/ viewer.action = Idle)
=============================================================================
