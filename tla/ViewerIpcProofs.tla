--------------------------- MODULE ViewerIpcProofs ---------------------------
(***************************************************************************)
(* Proofs, for any number of books, orders of the list and requests, that  *)
(* a deletion removes the book its dialog was opened for                   *)
(* (DeletesOnlyWhatWasAsked), that whatever the Viewer waits for is on its *)
(* way (AwaitedIsOnTheWay), and that the Library's selection follows the   *)
(* Viewer (SelectionFollows).  The second and the third rest on those      *)
(* before them, and are introduced where they begin.                       *)
(*                                                                         *)
(* The first alone is not inductive.  When the choice is made the book on  *)
(* screen must still be the one asked about (AskedIsShown), so no answer   *)
(* may open another book while the dialog is open: what is awaited then is *)
(* the dialog's own probe or nothing, and no request that leads to another *)
(* book is still on its way under the probe's id (Numbered).               *)
(***************************************************************************)
EXTENDS ViewerIpc, SequenceTheorems, TLAPS

\* What is on its way or being served, and of it what leads to another book.
Messages == ToSet(requests) \cup ToSet(toLibrary) \cup {server.request}
              \cup ToSet(toViewer) \cup ToSet(answers)
Leads(m) == m.kind \in {"next", "prev", "rebuild", "navigate"}
NavIds == {m.id : m \in {n \in Messages : Leads(n)}}

Deletions == {r \in ToSet(requests) \cup ToSet(toLibrary) : r.kind \in {"delete", "deleteNext"}}

Queue(s) == s \in Seq(ToSet(s))

Shapes ==
    /\ DOMAIN viewer = {"mode", "shown", "lastId", "action", "statePending", "favPending",
                        "filterPending", "spadPending", "favOf", "favBefore", "dialog",
                        "asked", "offline", "rangeInFlight", "session", "preview", "spad"}
    /\ DOMAIN server = {"state", "current", "word", "next", "request"}
    /\ Queue(requests) /\ Queue(toLibrary) /\ Queue(toViewer) /\ Queue(answers)
    /\ viewer.lastId \in Nat

\* While the deletion dialog is open the Viewer stays on the book it asks about.
AskedIsShown(v) ==
    v.dialog = "delete" => v.asked = v.shown /\ (v.action = Idle \/ v.action.kind = "probe")

\* Ids count up, and none is used for a probe and for a way to another book.
Numbered(v, ids) ==
    \A id \in ids : id \in 1 .. v.lastId /\ (v.action.kind = "probe" => id # v.action.id)

Careful(v, ids) == v.mode = "library" => AskedIsShown(v) /\ Numbered(v, ids)

Inv ==
    /\ Shapes
    /\ Careful(viewer, NavIds)
    /\ \A r \in Deletions : r.book = r.asked
    /\ DeletesOnlyWhatWasAsked

-----------------------------------------------------------------------------
(* Queues *)

LEMMA QueueEmpty == Queue(<<>>) /\ ToSet(<<>>) = {}
BY DEF Queue, ToSet

LEMMA QueueAppend ==
    ASSUME NEW s, Queue(s), NEW e
    PROVE  Queue(Append(s, e)) /\ ToSet(Append(s, e)) = ToSet(s) \cup {e}
<1> DEFINE S == ToSet(s)
<1>1. s \in Seq(S \cup {e})
  BY DEF Queue
<1> HIDE DEF S
<1>2. /\ Append(s, e) \in Seq(S \cup {e}) /\ Len(Append(s, e)) = Len(s) + 1
      /\ Append(s, e)[Len(s) + 1] = e
      /\ \A i \in 1 .. Len(s) : Append(s, e)[i] = s[i]
  BY <1>1
<1>3. DOMAIN s = 1 .. Len(s) /\ DOMAIN Append(s, e) = 1 .. Len(s) + 1 /\ Len(s) \in Nat
  BY <1>1, <1>2
<1>4. ToSet(Append(s, e)) = ToSet(s) \cup {e}
  BY <1>2, <1>3 DEF ToSet
<1> QED
  BY <1>2, <1>4 DEF Queue, S

LEMMA QueueGrows ==
    ASSUME NEW s, Queue(s), NEW e, NEW t, t = s \/ t = Append(s, e)
    PROVE  Queue(t) /\ ToSet(t) \subseteq ToSet(s) \cup {e}
<1>1. CASE t = s
  BY <1>1
<1>2. CASE t = Append(s, e)
  BY <1>2, QueueAppend
<1> QED
  BY <1>1, <1>2

LEMMA QueueTail ==
    ASSUME NEW s, Queue(s), s # <<>>
    PROVE  /\ Head(s) \in ToSet(s) /\ Queue(Tail(s)) /\ ToSet(Tail(s)) \subseteq ToSet(s)
<1> DEFINE S == ToSet(s)
           t == Tail(s)
<1>1. s \in Seq(S)
  BY DEF Queue
<1>2. \A i \in DOMAIN s : s[i] \in S
  BY DEF ToSet
<1> HIDE DEF S
<1>3. /\ t \in Seq(S) /\ Len(t) = Len(s) - 1 /\ Len(s) \in Nat /\ Len(s) # 0
      /\ \A i \in 1 .. Len(s) - 1 : t[i] = s[i + 1]
      /\ Head(s) = s[1]
  BY <1>1
<1>4. DOMAIN s = 1 .. Len(s) /\ DOMAIN t = 1 .. Len(s) - 1
  BY <1>1, <1>3
<1> HIDE DEF t
<1>5. t \in Seq(ToSet(t))
  <2>1. t = [i \in 1 .. Len(t) |-> t[i]]
    BY <1>3
  <2>2. \A i \in 1 .. Len(t) : t[i] \in ToSet(t)
    BY <1>3, <1>4 DEF ToSet
  <2> QED
    BY <2>1, <2>2, <1>3
<1>6. ToSet(t) \subseteq S
  <2>1. SUFFICES ASSUME NEW i \in DOMAIN t PROVE t[i] \in S
    BY DEF ToSet
  <2>2. i + 1 \in DOMAIN s /\ t[i] = s[i + 1]
    BY <1>3, <1>4
  <2> QED
    BY <1>2, <2>2
<1> QED
  BY <1>2, <1>3, <1>4, <1>5, <1>6 DEF Queue, S, t

LEMMA QueueHead == ASSUME NEW s, Queue(s), s # <<>>
                   PROVE  ToSet(s) = {Head(s)} \cup ToSet(Tail(s))
<1> DEFINE S == ToSet(s)
           t == Tail(s)
<1>1. s \in Seq(S)
  BY DEF Queue
<1> HIDE DEF S
<1>2. /\ t \in Seq(S) /\ Len(t) = Len(s) - 1 /\ Len(s) \in Nat /\ Len(s) # 0
      /\ \A i \in 1 .. Len(s) - 1 : t[i] = s[i + 1]
      /\ Head(s) = s[1]
  BY <1>1
<1>3. DOMAIN s = 1 .. Len(s) /\ DOMAIN t = 1 .. Len(s) - 1
  BY <1>1, <1>2
<1>4. ASSUME NEW i \in DOMAIN s PROVE s[i] \in {Head(s)} \cup ToSet(t)
  <2>1. CASE i = 1
    BY <1>2, <2>1
  <2>2. CASE i # 1
    <3>1. i - 1 \in DOMAIN t /\ t[i - 1] = s[i]
      BY <1>2, <1>3, <1>4, <2>2
    <3> QED
      BY <3>1 DEF ToSet
  <2> QED
    BY <2>1, <2>2
<1> QED
  BY <1>4, QueueTail DEF ToSet

LEMMA QueueOne == ASSUME NEW e PROVE Queue(<<e>>) /\ ToSet(<<e>>) = {e}
BY DEF Queue, ToSet

LEMMA QueueConcat ==
    ASSUME NEW s, Queue(s), NEW t, Queue(t)
    PROVE  Queue(s \o t) /\ ToSet(s \o t) = ToSet(s) \cup ToSet(t)
<1> DEFINE S == ToSet(s) \cup ToSet(t)
<1>1. s \in Seq(S) /\ t \in Seq(S)
  BY DEF Queue
<1>2. /\ \A i \in DOMAIN s : s[i] \in ToSet(s)
      /\ \A i \in DOMAIN t : t[i] \in ToSet(t)
  BY DEF ToSet
<1>3. ToSet(s) \subseteq S /\ ToSet(t) \subseteq S
  OBVIOUS
<1> HIDE DEF S
<1>4. /\ s \o t \in Seq(S) /\ Len(s \o t) = Len(s) + Len(t)
      /\ \A i \in 1 .. Len(s) + Len(t) :
            (s \o t)[i] = IF i <= Len(s) THEN s[i] ELSE t[i - Len(s)]
  BY <1>1
<1>5. /\ DOMAIN s = 1 .. Len(s) /\ DOMAIN t = 1 .. Len(t)
      /\ DOMAIN (s \o t) = 1 .. Len(s) + Len(t) /\ Len(s) \in Nat /\ Len(t) \in Nat
  BY <1>1, <1>4
<1>6. ToSet(s \o t) \subseteq ToSet(s) \cup ToSet(t)
  <2>1. SUFFICES ASSUME NEW i \in DOMAIN (s \o t)
                 PROVE  (s \o t)[i] \in ToSet(s) \cup ToSet(t)
    BY DEF ToSet
  <2>2. CASE i <= Len(s)
    BY <2>2, <1>2, <1>4, <1>5
  <2>3. CASE ~(i <= Len(s))
    <3>1. i - Len(s) \in DOMAIN t /\ (s \o t)[i] = t[i - Len(s)]
      BY <2>3, <1>4, <1>5
    <3> QED
      BY <3>1, <1>2
  <2> QED
    BY <2>2, <2>3
<1>7. ToSet(s) \subseteq ToSet(s \o t)
  BY <1>4, <1>5 DEF ToSet
<1>8. ToSet(t) \subseteq ToSet(s \o t)
  <2>1. SUFFICES ASSUME NEW i \in DOMAIN t PROVE t[i] \in ToSet(s \o t)
    BY DEF ToSet
  <2>2. i + Len(s) \in DOMAIN (s \o t) /\ (s \o t)[i + Len(s)] = t[i]
    BY <1>4, <1>5
  <2> QED
    BY <2>2 DEF ToSet
<1> QED
  BY <1>4, <1>6, <1>7, <1>8 DEF Queue, S
-----------------------------------------------------------------------------
(* The invariant at first, and steps that leave the Viewer alone *)

LEMMA InitInv == Init => Inv
<1> SUFFICES ASSUME Init PROVE Inv
  OBVIOUS
<1>1. PICK book \in Starts, mode \in {"library", "snapshot"} :
        /\ viewer = ViewerStart(book, mode)
        /\ requests = FirstRequests(book, mode)
        /\ server = [state |-> "serve", current |-> book, word |-> "none", next |-> NoBook,
                     request |-> NoRequest]
  BY DEF Init
<1>2. /\ toLibrary = <<>> /\ toViewer = <<>> /\ answers = <<>> /\ removed = {}
  BY DEF Init
<1> DEFINE first == <<Request("state", 1, book, NoBook)>>
           second == IF mode = "library" THEN <<Request("spad", 2, NoBook, NoBook)>> ELSE <<>>
<1>3. /\ Queue(first) /\ ToSet(first) = {Request("state", 1, book, NoBook)}
      /\ Queue(second) /\ ToSet(second) \subseteq {Request("spad", 2, NoBook, NoBook)}
  BY QueueOne, QueueEmpty
<1>4. /\ Queue(requests)
      /\ ToSet(requests) \subseteq {Request("state", 1, book, NoBook),
                                    Request("spad", 2, NoBook, NoBook)}
  <2> HIDE DEF first, second
  <2>1. Queue(first \o second) /\ ToSet(first \o second) = ToSet(first) \cup ToSet(second)
    BY <1>3, QueueConcat
  <2>2. requests = first \o second
    BY <1>1 DEF FirstRequests, first, second
  <2> QED
    BY <1>3, <2>1, <2>2
<1>5. \A m \in Messages : ~Leads(m) /\ m.kind \notin {"delete", "deleteNext"}
  BY <1>1, <1>2, <1>4, QueueEmpty DEF Messages, Leads, Request, NoRequest
<1>6. NavIds = {} /\ Deletions = {}
  BY <1>5 DEF NavIds, Deletions, Messages
<1>7. AskedIsShown(viewer)
  BY <1>1 DEF ViewerStart, AskedIsShown
<1>8. Shapes
  BY <1>1, <1>2, <1>4, QueueEmpty DEF Shapes, ViewerStart
<1> QED
  BY <1>2, <1>6, <1>7, <1>8 DEF Inv, Careful, Numbered, DeletesOnlyWhatWasAsked

\* Messages that move, end, or are answered under their own id.
LEMMA Carried ==
    ASSUME Inv, UNCHANGED viewer, Shapes',
           \A m \in Messages' : Leads(m) => \E n \in Messages : Leads(n) /\ n.id = m.id,
           Deletions' \subseteq Deletions,
           \A r \in removed' : r \in removed \/ r.book = r.asked
    PROVE  Inv'
<1>1. NavIds' \subseteq NavIds
  BY DEF NavIds
<1> QED
  BY <1>1 DEF Inv, Careful, Numbered, DeletesOnlyWhatWasAsked

LEMMA IoInv == Inv /\ (IoSend \/ IoReceive \/ IoReceiveFails \/ IoEnd) => Inv'
<1> SUFFICES ASSUME Inv, IoSend \/ IoReceive \/ IoReceiveFails \/ IoEnd PROVE Inv'
  OBVIOUS
<1>0. Shapes
  BY DEF Inv
<1> DEFINE gone == Plain("gone", 0)
<1>1. ~Leads(gone)
  BY DEF Leads, Plain, Response
<1> HIDE DEF gone
<1>2. CASE IoSend
  <2>1. /\ Head(requests) \in ToSet(requests) /\ Queue(requests')
        /\ ToSet(requests') \subseteq ToSet(requests)
    BY <1>0, <1>2, QueueTail DEF IoSend, Shapes
  <2>2. /\ UNCHANGED <<viewer, toViewer, server, removed>>
        /\ toLibrary' = toLibrary \/ toLibrary' = Append(toLibrary, Head(requests))
        /\ answers' = answers \/ answers' = Append(answers, gone)
    BY <1>2 DEF IoSend, ReportLoss, libraryVars, gone
  <2>3. /\ Queue(toLibrary') /\ Queue(answers')
        /\ ToSet(toLibrary') \subseteq ToSet(toLibrary) \cup {Head(requests)}
        /\ ToSet(answers') \subseteq ToSet(answers) \cup {gone}
    BY <1>0, <2>2, QueueGrows DEF Shapes
  <2>4. Shapes'
    BY <1>0, <2>1, <2>2, <2>3 DEF Shapes
  <2>5. Messages' \subseteq Messages \cup {gone}
    BY <2>1, <2>2, <2>3 DEF Messages
  <2>6. Deletions' \subseteq Deletions
    BY <2>1, <2>3 DEF Deletions
  <2> QED
    BY <1>1, <2>2, <2>4, <2>5, <2>6, Carried
<1>3. CASE IoReceive
  <2>1. /\ Head(toViewer) \in ToSet(toViewer) /\ Queue(toViewer')
        /\ ToSet(toViewer') \subseteq ToSet(toViewer)
    BY <1>0, <1>3, QueueTail DEF IoReceive, Shapes
  <2>2. /\ UNCHANGED <<viewer, requests, toLibrary, server, removed>>
        /\ (answers' = answers \/ answers' = Append(answers, Head(toViewer)))
    BY <1>3 DEF IoReceive, libraryVars
  <2>3. Queue(answers') /\ ToSet(answers') \subseteq ToSet(answers) \cup {Head(toViewer)}
    BY <1>0, <2>2, QueueGrows DEF Shapes
  <2>4. Shapes'
    BY <1>0, <2>1, <2>2, <2>3 DEF Shapes
  <2>5. Messages' \subseteq Messages
    BY <2>1, <2>2, <2>3 DEF Messages
  <2>6. Deletions' \subseteq Deletions
    BY <2>2 DEF Deletions
  <2> QED
    BY <2>2, <2>4, <2>5, <2>6, Carried
<1>4. CASE IoReceiveFails \/ IoEnd
  <2>1. /\ UNCHANGED <<viewer, requests, toLibrary, toViewer, server, removed>>
        /\ (answers' = answers \/ answers' = Append(answers, gone))
    BY <1>4 DEF IoReceiveFails, IoEnd, ReportLoss, libraryVars, pipeVars, gone
  <2>2. Queue(answers') /\ ToSet(answers') \subseteq ToSet(answers) \cup {gone}
    BY <1>0, <2>1, QueueGrows DEF Shapes
  <2>3. Shapes'
    BY <1>0, <2>1, <2>2 DEF Shapes
  <2>4. Messages' \subseteq Messages \cup {gone}
    BY <2>1, <2>2 DEF Messages
  <2>5. Deletions' \subseteq Deletions
    BY <2>1 DEF Deletions
  <2> QED
    BY <1>1, <2>1, <2>3, <2>4, <2>5, Carried
<1> QED
  BY <1>2, <1>3, <1>4
-----------------------------------------------------------------------------
(* The Library's two threads *)

\* An answer leads to another book only if its request does.
LEMMA Replied ==
    ASSUME Inv, toLibrary # <<>>, toLibrary' = Tail(toLibrary),
           UNCHANGED <<viewer, requests, answers>>,
           NEW answer, toViewer' = toViewer \/ toViewer' = Append(toViewer, answer),
           Leads(answer) => Leads(Head(toLibrary)) /\ answer.id = Head(toLibrary).id,
           DOMAIN server' = DOMAIN server,
           server'.request \in {server.request, Head(toLibrary)},
           \A r \in removed' : r \in removed \/ r.book = r.asked
    PROVE  Inv'
<1>0. Shapes
  BY DEF Inv
<1>1. /\ Head(toLibrary) \in ToSet(toLibrary) /\ Queue(toLibrary')
      /\ ToSet(toLibrary') \subseteq ToSet(toLibrary)
  BY <1>0, QueueTail DEF Shapes
<1>2. Queue(toViewer') /\ ToSet(toViewer') \subseteq ToSet(toViewer) \cup {answer}
  BY <1>0, QueueGrows DEF Shapes
<1>3. Shapes'
  BY <1>0, <1>1, <1>2 DEF Shapes
<1>4. Messages' \subseteq Messages \cup {answer} /\ Head(toLibrary) \in Messages
  BY <1>1, <1>2 DEF Messages
<1>5. Deletions' \subseteq Deletions
  BY <1>1 DEF Deletions
<1> QED
  BY <1>3, <1>4, <1>5, Carried

\* What Reply does to the server and to the pipe.
LEMMA ReplyFacts ==
    ASSUME Shapes, NEW current, NEW answer, NEW news, Reply(current, answer, news)
    PROVE  /\ toViewer' = toViewer \/ toViewer' = Append(toViewer, answer)
           /\ DOMAIN server' = DOMAIN server /\ server'.request = server.request
BY DEF Reply, Shapes

LEMMA ServeInv == Inv /\ Serve => Inv'
<1> SUFFICES ASSUME Inv, Serve PROVE Inv'
  OBVIOUS
<1> DEFINE request == Head(toLibrary)
<1>0. Shapes
  BY DEF Inv
<1>1. /\ toLibrary # <<>> /\ toLibrary' = Tail(toLibrary)
      /\ UNCHANGED <<viewer, requests, answers>>
  BY DEF Serve, viewerVars
<1>2. CASE ServeSource(request)
  <2>1. Leads(Plain("none", 0)) => FALSE
    BY DEF Leads, Plain, Response
  <2> QED
    BY <1>0, <1>1, <1>2, <2>1, Replied DEF ServeSource
<1>3. CASE ServeByWindow(request)
  <2>1. CASE request.kind = "rebuild" /\ ~IsRequestedBookCurrent(request)
    <3>1. ~Leads(Plain("error", request.id))
      BY DEF Leads, Plain, Response
    <3> QED
      BY <1>0, <1>1, <1>3, <2>1, <3>1, ReplyFacts, Replied DEF ServeByWindow
  <2>2. CASE ~(request.kind = "rebuild" /\ ~IsRequestedBookCurrent(request))
    <3>1. /\ server' = [server EXCEPT !.state = "waitWindow", !.request = request]
          /\ UNCHANGED <<toViewer, removed>>
      BY <1>3, <2>2 DEF ServeByWindow
    <3>2. DOMAIN server' = DOMAIN server /\ server'.request = request
      BY <1>0, <3>1 DEF Shapes
    <3>3. Leads(Plain("error", request.id)) => FALSE
      BY DEF Leads, Plain, Response
    <3> QED
      BY <1>1, <3>1, <3>2, <3>3, Replied
  <2> QED
    BY <2>1, <2>2
<1>4. CASE ServeState(request)
  <2> DEFINE answer == Response("state", request.id, server.current, NoSpad, NoBook)
  <2>1. ~Leads(answer)
    BY DEF Leads, Response
  <2>2. Reply(server.current, answer, <<>>) /\ UNCHANGED removed
    BY <1>4 DEF ServeState
  <2> QED
    BY <1>0, <1>1, <2>1, <2>2, ReplyFacts, Replied
<1>5. CASE ServeSession(request)
  <2> DEFINE answer == Plain("sessionAck", request.id)
  <2>1. ~Leads(answer)
    BY DEF Leads, Response, Plain
  <2>2. /\ Reply(server.current, answer, <<Event("session", request.id, request.book, NoBook)>>)
        /\ UNCHANGED removed
    BY <1>5 DEF ServeSession
  <2> QED
    BY <1>0, <1>1, <2>1, <2>2, ReplyFacts, Replied
<1>6. CASE ServeNavigation(request)
  <2> DEFINE target == NavTarget(library.nav, server.current, onDisk, request.kind)
             none == Plain("noMore", request.id)
             there == Response("navigate", request.id, target, NoSpad, NoBook)
  <2>1. ~Leads(none) /\ there.id = request.id /\ Leads(request)
    BY <1>6 DEF Leads, Response, Plain, ServeNavigation
  <2>2. /\ \/ Reply(server.current, none, <<>>)
           \/ Reply(target, there, NavigatedNews(request.id, target))
        /\ UNCHANGED removed
    BY <1>6 DEF ServeNavigation
  <2> HIDE DEF target, none, there
  <2> QED
    BY <1>0, <1>1, <2>1, <2>2, ReplyFacts, Replied
<1>7. CASE ServeAdjacentBooks(request)
  <2> DEFINE hood == Neighbours(ResolvedBooks(library.nav, server.current, onDisk), onDisk)
             answer == Response(request.kind, request.id, NoBook, hood, server.current)
  <2>1. ~Leads(answer)
    BY <1>7 DEF Leads, Response, ServeAdjacentBooks
  <2>2. Reply(server.current, answer, <<>>) /\ UNCHANGED removed
    BY <1>7 DEF ServeAdjacentBooks
  <2> HIDE DEF hood, answer
  <2> QED
    BY <1>0, <1>1, <2>1, <2>2, ReplyFacts, Replied
<1>8. CASE ServeDelete(request)
  <2>1. request \in Deletions
    BY <1>0, <1>1, <1>8, QueueTail DEF ServeDelete, Deletions, Shapes
  <2>2. request.book = request.asked
    BY <2>1 DEF Inv
  <2>3. PICK current, next, hood, news :
          \/ /\ request.book = server.current
             /\ removed' = removed \cup {[book |-> server.current, asked |-> request.asked]}
             /\ Reply(current, Response("deleted", request.id, next, hood, next), news)
          \/ /\ Reply(current, Plain("error", request.id), news)
             /\ UNCHANGED removed
    BY <1>8 DEF ServeDelete, IsRequestedBookCurrent
  <2>4. /\ ~Leads(Response("deleted", request.id, next, hood, next))
        /\ ~Leads(Plain("error", request.id))
    BY DEF Leads, Response, Plain
  <2>5. \A r \in removed' : r \in removed \/ r.book = r.asked
    BY <2>2, <2>3
  <2>6. CASE Reply(current, Response("deleted", request.id, next, hood, next), news)
    BY <1>0, <1>1, <2>4, <2>5, <2>6, ReplyFacts, Replied
  <2>7. CASE Reply(current, Plain("error", request.id), news)
    BY <1>0, <1>1, <2>4, <2>5, <2>7, ReplyFacts, Replied
  <2> QED
    BY <2>3, <2>6, <2>7
<1> QED
  BY <1>2, <1>3, <1>4, <1>5, <1>6, <1>7, <1>8 DEF Serve

\* The answer to a rebuild leads on under the id of the rebuild.
LEMMA ServeWindowAnswerInv == Inv /\ ServeWindowAnswer => Inv'
<1> SUFFICES ASSUME Inv, ServeWindowAnswer PROVE Inv'
  OBVIOUS
<1> DEFINE request == server.request
<1>0. Shapes
  BY DEF Inv
<1>1. PICK answer :
        /\ toViewer' = toViewer \/ toViewer' = Append(toViewer, answer)
        /\ Leads(answer) => Leads(request) /\ answer.id = request.id
  <2> DEFINE moved == request.kind = "rebuild" /\ server.word = "ok" /\ server.next # NoBook
             failed == Plain("error", request.id)
             there == Response("navigate", request.id, server.next, NoSpad, NoBook)
             none == Plain("noMore", request.id)
             other == Response(request.kind, request.id, request.book, NoSpad, NoBook)
  <2>1. /\ ~Leads(failed) /\ ~Leads(none) /\ there.id = request.id /\ other.id = request.id
        /\ moved => Leads(request)
        /\ Leads(other) => Leads(request)
    BY DEF Leads, Plain, Response
  <2>2. \/ toViewer' = toViewer
        \/ toViewer' = Append(toViewer, failed)
        \/ moved /\ toViewer' = Append(toViewer, there)
        \/ toViewer' = Append(toViewer, none)
        \/ toViewer' = Append(toViewer, other)
    BY DEF ServeWindowAnswer
  <2> HIDE DEF moved, failed, there, none, other
  <2> QED
    BY <2>1, <2>2
<1>2. /\ UNCHANGED <<viewer, requests, answers, toLibrary, removed>>
      /\ DOMAIN server' = DOMAIN server /\ server'.request = NoRequest
  BY <1>0 DEF ServeWindowAnswer, viewerVars, Shapes
<1>3. Queue(toViewer') /\ ToSet(toViewer') \subseteq ToSet(toViewer) \cup {answer}
  BY <1>0, <1>1, QueueGrows DEF Shapes
<1>4. Shapes'
  BY <1>0, <1>2, <1>3 DEF Shapes
<1>5. /\ Messages' \subseteq Messages \cup {answer, NoRequest}
      /\ request \in Messages /\ ~Leads(NoRequest)
  BY <1>2, <1>3 DEF Messages, Leads, NoRequest, Request
<1>6. Deletions' \subseteq Deletions
  BY <1>2 DEF Deletions
<1> QED
  BY <1>1, <1>2, <1>4, <1>5, <1>6, Carried

LEMMA LibraryInv ==
    Inv /\ (ServerEnds \/ DrainEvent \/ RefreshLibraryBookOrder \/ ReorderList) => Inv'
<1> SUFFICES ASSUME Inv, ServerEnds \/ DrainEvent \/ RefreshLibraryBookOrder \/ ReorderList
             PROVE Inv'
  OBVIOUS
<1>0. Shapes
  BY DEF Inv
<1>1. /\ UNCHANGED <<viewer, requests, answers, toViewer, removed>>
      /\ toLibrary' = toLibrary \/ toLibrary' = <<>>
  BY DEF ServerEnds, DrainEvent, RefreshLibraryBookOrder, ReorderList, viewerVars, pipeVars
<1>2. /\ DOMAIN server' = DOMAIN server
      /\ server'.request = server.request \/ server'.request = NoRequest
  BY <1>0 DEF ServerEnds, DrainEvent, RefreshLibraryBookOrder, ReorderList, DrainDeleted,
              DrainNavigated, DrainRebuild, DrainFavorite, Tell, Shapes
<1>3. Queue(toLibrary') /\ ToSet(toLibrary') \subseteq ToSet(toLibrary)
  BY <1>0, <1>1, QueueEmpty DEF Shapes
<1>4. Shapes'
  BY <1>0, <1>1, <1>2, <1>3 DEF Shapes
<1>5. Messages' \subseteq Messages \cup {NoRequest} /\ ~Leads(NoRequest)
  BY <1>1, <1>2, <1>3 DEF Messages, Leads, NoRequest, Request
<1>6. Deletions' \subseteq Deletions
  BY <1>1, <1>3 DEF Deletions
<1> QED
  BY <1>1, <1>4, <1>5, <1>6, Carried
-----------------------------------------------------------------------------
(* The Viewer's window thread *)

\* A step of the window thread that sends some requests: none that leads on
\* under an old id, and no deletion of a book not asked about.
LEMMA Turned ==
    ASSUME Inv, UNCHANGED <<toLibrary, toViewer, server, removed>>,
           Queue(answers'), ToSet(answers') \subseteq ToSet(answers),
           DOMAIN viewer' = DOMAIN viewer, viewer'.lastId \in Nat,
           NEW sent, Queue(requests'), ToSet(requests') \subseteq ToSet(requests) \cup sent,
           \A m \in sent : m.kind \in {"delete", "deleteNext"} => m.book = m.asked,
           viewer'.mode = "library" =>
               /\ viewer.mode = "library"
               /\ AskedIsShown(viewer')
               /\ viewer.lastId <= viewer'.lastId
               /\ viewer'.action.kind = "probe" =>
                     \/ viewer'.action = viewer.action
                     \/ viewer'.action.id \notin 1 .. viewer.lastId
               /\ \A m \in sent : Leads(m) =>
                     /\ m.id \in viewer.lastId + 1 .. viewer'.lastId
                     /\ viewer'.action.kind # "probe"
    PROVE  Inv'
<1>0. Shapes
  BY DEF Inv
<1>1. Shapes'
  BY <1>0 DEF Shapes
<1>2. Messages' \subseteq Messages \cup sent /\ Deletions' \subseteq Deletions \cup
        {m \in sent : m.kind \in {"delete", "deleteNext"}}
  BY DEF Messages, Deletions
<1>3. \A r \in Deletions' : r.book = r.asked
  BY <1>2 DEF Inv
<1>4. ASSUME viewer'.mode = "library" PROVE Numbered(viewer', NavIds')
  <2>1. Numbered(viewer, NavIds) /\ viewer.lastId \in Nat
    BY <1>0, <1>4 DEF Inv, Careful, Shapes
  <2>2. SUFFICES ASSUME NEW m \in Messages', Leads(m)
                 PROVE  /\ m.id \in 1 .. viewer'.lastId
                        /\ viewer'.action.kind = "probe" => m.id # viewer'.action.id
    BY DEF Numbered, NavIds
  <2>3. CASE m \in Messages
    <3>1. /\ m.id \in 1 .. viewer.lastId
          /\ viewer.action.kind = "probe" => m.id # viewer.action.id
      BY <2>1, <2>2, <2>3 DEF Numbered, NavIds
    <3> QED
      BY <1>4, <2>1, <3>1
  <2>4. CASE m \in sent
    BY <1>4, <2>1, <2>2, <2>4
  <2> QED
    BY <1>2, <2>2, <2>3, <2>4
<1> QED
  BY <1>1, <1>3, <1>4 DEF Inv, Careful, DeletesOnlyWhatWasAsked

\* One that takes an answer or none, and sends nothing.
LEMMA Silent ==
    ASSUME Inv, UNCHANGED <<requests, toLibrary, toViewer, server, removed>>,
           answers' = answers \/ (answers # <<>> /\ answers' = Tail(answers)),
           DOMAIN viewer' = DOMAIN viewer, viewer'.lastId = viewer.lastId,
           viewer'.mode = "library" =>
               /\ viewer.mode = "library" /\ AskedIsShown(viewer')
               /\ viewer'.action \in {viewer.action, Idle}
    PROVE  Inv'
<1>0. Shapes
  BY DEF Inv
<1>1. Queue(answers') /\ ToSet(answers') \subseteq ToSet(answers)
  BY <1>0, QueueTail DEF Shapes
<1>2. Idle.kind # "probe"
  BY DEF Idle
<1> DEFINE sent == {}
<1>3. /\ Queue(requests') /\ ToSet(requests') \subseteq ToSet(requests) \cup sent
      /\ viewer'.lastId \in Nat /\ viewer.lastId <= viewer'.lastId
      /\ \A m \in sent : FALSE
  BY <1>0 DEF Shapes
<1>4. viewer'.mode = "library" => (viewer'.action.kind = "probe" => viewer'.action = viewer.action)
  BY <1>2
<1> HIDE DEF sent
<1> QED
  BY <1>1, <1>3, <1>4, Turned

\* One that puts one request on the queue, under the next id.
LEMMA SentOne ==
    ASSUME Inv, UNCHANGED <<answers, toLibrary, toViewer, server, removed>>,
           NEW m, requests' = Append(requests, m),
           m.kind \in {"delete", "deleteNext"} => m.book = m.asked,
           DOMAIN viewer' = DOMAIN viewer, viewer'.lastId = viewer.lastId + 1,
           viewer.mode = "library" \/ viewer'.mode # "library",
           viewer'.mode = "library" => AskedIsShown(viewer'),
           viewer'.action = viewer.action \/ viewer'.action.id = viewer.lastId + 1,
           Leads(m) => m.id = viewer.lastId + 1 /\ viewer'.action.kind # "probe"
    PROVE  Inv'
<1>0. Shapes
  BY DEF Inv
<1>1. Queue(requests') /\ ToSet(requests') = ToSet(requests) \cup {m}
  BY <1>0, QueueAppend DEF Shapes
<1>2. viewer.lastId \in Nat /\ viewer.lastId + 1 \in Nat /\ Queue(answers)
  BY <1>0 DEF Shapes
<1>3. /\ viewer.lastId + 1 \notin 1 .. viewer.lastId /\ viewer.lastId <= viewer'.lastId
      /\ viewer.lastId + 1 \in viewer.lastId + 1 .. viewer'.lastId
  BY <1>2
<1> DEFINE sent == {m}
<1>4. /\ ToSet(requests') \subseteq ToSet(requests) \cup sent
      /\ \A x \in sent : x.kind \in {"delete", "deleteNext"} => x.book = x.asked
  BY <1>1
<1>5. viewer'.mode = "library" =>
          /\ viewer.mode = "library"
          /\ AskedIsShown(viewer')
          /\ viewer.lastId <= viewer'.lastId
          /\ viewer'.action.kind = "probe" =>
                \/ viewer'.action = viewer.action
                \/ viewer'.action.id \notin 1 .. viewer.lastId
          /\ \A x \in sent : Leads(x) =>
                /\ x.id \in viewer.lastId + 1 .. viewer'.lastId
                /\ viewer'.action.kind # "probe"
  BY <1>3
<1>6. Queue(answers') /\ ToSet(answers') \subseteq ToSet(answers) /\ Queue(requests')
  BY <1>1, <1>2
<1>7. viewer'.lastId \in Nat
  BY <1>2
<1> HIDE DEF sent
<1> QED
  BY <1>4, <1>5, <1>6, <1>7, Turned

LEMMA DetachFacts ==
    ASSUME NEW v, DOMAIN v = DOMAIN viewer, Shapes
    PROVE  /\ DOMAIN Detach(v) = DOMAIN viewer /\ Detach(v).lastId = v.lastId
           /\ Detach(v).mode = "detached"
BY DEF Detach, Shapes

\* handle_ipc_navigation, for any question but the deletion's own.
LEMMA NavigationInv ==
    ASSUME Inv, UNCHANGED <<answers, toLibrary, toViewer, server, removed>>,
           NEW kind \in {"next", "prev", "probe", "rebuild"}, NEW v, SendNavigation(kind, v),
           DOMAIN v = DOMAIN viewer, v.lastId = viewer.lastId, v.mode = viewer.mode,
           viewer.mode = "library",
           v.dialog = "delete" => v.asked = v.shown /\ kind = "probe"
    PROVE  Inv'
<1>0. Shapes
  BY DEF Inv
<1> DEFINE id == v.lastId + 1
           w == [v EXCEPT !.lastId = id]
           m == Request(kind, id, v.shown, NoBook)
<1>1. CASE CanSend
  <2>1. /\ requests' = Append(requests, m)
        /\ viewer' = [w EXCEPT !.action = [kind |-> kind, id |-> id]]
    BY <1>1 DEF SendNavigation
  <2>2. /\ DOMAIN viewer' = DOMAIN viewer /\ viewer'.lastId = viewer.lastId + 1
        /\ viewer'.action = [kind |-> kind, id |-> viewer.lastId + 1]
        /\ viewer'.dialog = v.dialog /\ viewer'.asked = v.asked /\ viewer'.shown = v.shown
    BY <1>0, <2>1 DEF Shapes
  <2>3. /\ m.kind = kind /\ m.id = viewer.lastId + 1
        /\ m.kind \notin {"delete", "deleteNext"}
        /\ Leads(m) => kind # "probe"
    BY DEF Request, Leads
  <2>4. AskedIsShown(viewer')
    BY <2>2 DEF AskedIsShown
  <2> HIDE DEF m
  <2> QED
    BY <2>1, <2>2, <2>3, <2>4, SentOne
<1>2. CASE ~CanSend
  <2>1. /\ viewer' = [Detach(w) EXCEPT !.offline = @ \/ kind = "probe",
                         !.dialog = IF kind = "rebuild" THEN "rangeFailed" ELSE @]
        /\ UNCHANGED requests
    BY <1>2 DEF SendNavigation
  <2>2. DOMAIN w = DOMAIN viewer /\ w.lastId = viewer.lastId + 1
    BY <1>0 DEF Shapes
  <2> HIDE DEF w
  <2>3. /\ DOMAIN Detach(w) = DOMAIN viewer /\ Detach(w).lastId = viewer.lastId + 1
        /\ Detach(w).mode = "detached"
    BY <1>0, <2>2, DetachFacts
  <2>4. /\ DOMAIN viewer' = DOMAIN viewer /\ viewer'.lastId = viewer.lastId + 1
        /\ viewer'.mode = "detached"
    BY <1>0, <2>1, <2>3 DEF Shapes
  <2> DEFINE sent == {}
  <2>5. /\ Queue(requests') /\ Queue(answers') /\ viewer'.lastId \in Nat
        /\ ToSet(requests') \subseteq ToSet(requests) \cup sent
        /\ ToSet(answers') \subseteq ToSet(answers)
        /\ \A x \in sent : FALSE
    BY <1>0, <2>1, <2>4 DEF Shapes
  <2> HIDE DEF sent
  <2> QED
    BY <2>1, <2>4, <2>5, Turned
<1> QED
  BY <1>1, <1>2

LEMMA KeysInv ==
    Inv /\ (PressBookKey \/ BeginDeleteDialog \/ BeginPageRangeRebuildRequest) => Inv'
<1> SUFFICES ASSUME Inv, PressBookKey \/ BeginDeleteDialog \/ BeginPageRangeRebuildRequest
             PROVE  Inv'
  OBVIOUS
<1>0. Shapes /\ UNCHANGED <<answers, toLibrary, toViewer, server, removed>>
  BY DEF Inv, PressBookKey, BeginDeleteDialog, BeginPageRangeRebuildRequest, pipeVars, libraryVars
<1>1. CASE PressBookKey
  <2>1. PICK kind \in {"next", "prev"} : SendNavigation(kind, viewer)
    BY <1>1 DEF PressBookKey
  <2>2. viewer.mode = "library" /\ viewer.dialog = "none"
    BY <1>1 DEF PressBookKey, AtKeys
  <2> QED
    BY <1>0, <2>1, <2>2, NavigationInv
<1>2. CASE BeginDeleteDialog
  <2> DEFINE v == [viewer EXCEPT !.dialog = "delete", !.asked = viewer.shown, !.offline = FALSE]
  <2>1. SendNavigation("probe", v) /\ viewer.mode = "library"
    BY <1>2 DEF BeginDeleteDialog, AtKeys
  <2>2. /\ DOMAIN v = DOMAIN viewer /\ v.lastId = viewer.lastId /\ v.mode = viewer.mode
        /\ v.asked = v.shown
    BY <1>0 DEF Shapes
  <2> HIDE DEF v
  <2> QED
    BY <1>0, <2>1, <2>2, NavigationInv
<1>3. CASE BeginPageRangeRebuildRequest
  <2> DEFINE v == [viewer EXCEPT !.rangeInFlight = TRUE]
  <2>1. /\ SendNavigation("rebuild", v)
        /\ viewer.mode = "library" /\ viewer.dialog = "range"
    BY <1>3 DEF BeginPageRangeRebuildRequest
  <2>2. /\ DOMAIN v = DOMAIN viewer /\ v.lastId = viewer.lastId /\ v.mode = viewer.mode
        /\ v.dialog = "range"
    BY <1>0, <2>1 DEF Shapes
  <2> HIDE DEF v
  <2> QED
    BY <1>0, <2>1, <2>2, NavigationInv
<1> QED
  BY <1>1, <1>2, <1>3

\* The choice is made on the book that is asked about.
LEMMA ApplyDeleteChoiceInv == Inv /\ ApplyDeleteChoice => Inv'
<1> SUFFICES ASSUME Inv, ApplyDeleteChoice PROVE Inv'
  OBVIOUS
<1> DEFINE v == [viewer EXCEPT !.dialog = "none", !.asked = NoBook]
<1>0. Shapes /\ UNCHANGED <<answers, toLibrary, toViewer, server, removed>>
  BY DEF Inv, ApplyDeleteChoice, pipeVars, libraryVars
<1>1. /\ DOMAIN v = DOMAIN viewer /\ v.lastId = viewer.lastId /\ v.mode = viewer.mode
      /\ v.dialog = "none" /\ v.shown = viewer.shown /\ v.action = viewer.action
  BY <1>0 DEF Shapes
<1>2. PICK choice \in {"delete", "deleteNext"} :
          \/ viewer' = v /\ UNCHANGED requests
          \/ viewer.mode = "library" /\ SendDeletion(choice, v)
  BY DEF ApplyDeleteChoice
<1> HIDE DEF v
<1>3. CASE viewer' = v /\ UNCHANGED requests
  <2>1. AskedIsShown(v)
    BY <1>1 DEF AskedIsShown
  <2> QED
    BY <1>0, <1>1, <1>3, <2>1, Silent
<1>4. CASE viewer.mode = "library" /\ SendDeletion(choice, v) /\ CanSend
  <2> DEFINE m == Request(choice, v.lastId + 1, v.shown, viewer.asked)
  <2>1. /\ requests' = Append(requests, m)
        /\ viewer' = [v EXCEPT !.lastId = v.lastId + 1,
                               !.action = [kind |-> choice, id |-> v.lastId + 1]]
    BY <1>4 DEF SendDeletion
  <2>2. viewer.asked = viewer.shown
    BY <1>4 DEF Inv, Careful, AskedIsShown, ApplyDeleteChoice
  <2>3. /\ m.book = m.asked /\ ~Leads(m)
    BY <1>1, <2>2 DEF Request, Leads
  <2>4. /\ DOMAIN viewer' = DOMAIN viewer /\ viewer'.lastId = viewer.lastId + 1
        /\ viewer'.action.id = viewer.lastId + 1 /\ viewer'.dialog = "none"
    BY <1>0, <1>1, <2>1 DEF Shapes
  <2>5. AskedIsShown(viewer')
    BY <2>4 DEF AskedIsShown
  <2> HIDE DEF m
  <2> QED
    BY <1>0, <1>4, <2>1, <2>3, <2>4, <2>5, SentOne
<1>5. CASE SendDeletion(choice, v) /\ ~CanSend
  <2>1. viewer' = [Detach(v) EXCEPT !.offline = TRUE] /\ UNCHANGED requests
    BY <1>5 DEF SendDeletion
  <2>2. /\ DOMAIN Detach(v) = DOMAIN viewer /\ Detach(v).lastId = viewer.lastId
        /\ Detach(v).mode = "detached"
    BY <1>0, <1>1, DetachFacts
  <2>3. /\ DOMAIN viewer' = DOMAIN viewer /\ viewer'.lastId = viewer.lastId
        /\ viewer'.mode = "detached"
    BY <1>0, <2>1, <2>2 DEF Shapes
  <2> QED
    BY <1>0, <2>1, <2>3, Silent
<1> QED
  BY <1>2, <1>3, <1>4, <1>5

\* Dialogs that close or open, and a preview that goes.
LEMMA DialogsInv ==
    Inv /\ (CancelDialog \/ BeginPageRangeDeleteDialog \/ MovePageOrToggleFullscreen) => Inv'
<1> SUFFICES ASSUME Inv, CancelDialog \/ BeginPageRangeDeleteDialog \/ MovePageOrToggleFullscreen
             PROVE  Inv'
  OBVIOUS
<1>0. /\ Shapes /\ (viewer.mode = "library" => AskedIsShown(viewer))
      /\ UNCHANGED <<requests, answers, toLibrary, toViewer, server, removed>>
  BY DEF Inv, Careful, CancelDialog, BeginPageRangeDeleteDialog, MovePageOrToggleFullscreen,
         pipeVars, libraryVars
<1>1. /\ DOMAIN viewer' = DOMAIN viewer /\ viewer'.lastId = viewer.lastId
      /\ viewer'.mode = viewer.mode /\ viewer'.action = viewer.action
      /\ viewer'.shown = viewer.shown
      /\ \/ viewer'.dialog \in {"none", "range"}
         \/ viewer'.dialog = viewer.dialog /\ viewer'.asked = viewer.asked
  BY <1>0 DEF Shapes, CancelDialog, BeginPageRangeDeleteDialog, MovePageOrToggleFullscreen
<1>2. viewer'.mode = "library" => AskedIsShown(viewer')
  BY <1>0, <1>1 DEF AskedIsShown
<1> QED
  BY <1>0, <1>1, <1>2, Silent

\* Requests about the book on screen or about none, which lead nowhere.
LEMMA SideRequestsInv ==
    Inv /\ (RequestFavoriteToggle \/ RequestFilter \/ BeginBoundaryPreview) => Inv'
<1> SUFFICES ASSUME Inv, RequestFavoriteToggle \/ RequestFilter \/ BeginBoundaryPreview
             PROVE  Inv'
  OBVIOUS
<1>0. /\ Shapes /\ (viewer.mode = "library" => AskedIsShown(viewer))
      /\ UNCHANGED <<answers, toLibrary, toViewer, server, removed>>
  BY DEF Inv, Careful, RequestFavoriteToggle, RequestFilter, BeginBoundaryPreview,
         pipeVars, libraryVars
<1>1. /\ DOMAIN viewer' = DOMAIN viewer /\ viewer'.lastId = viewer.lastId + 1
      /\ viewer'.mode = viewer.mode /\ viewer'.action = viewer.action
      /\ viewer'.shown = viewer.shown /\ viewer'.dialog = viewer.dialog
      /\ viewer'.asked = viewer.asked
  BY <1>0 DEF Shapes, RequestFavoriteToggle, RequestFilter, BeginBoundaryPreview
<1>2. viewer'.mode = "library" => AskedIsShown(viewer')
  BY <1>0, <1>1 DEF AskedIsShown
<1>3. \/ UNCHANGED requests
      \/ \E kind \in {"favorite", "filter", "filterState", "preview"} : \E book :
            requests' = Append(requests, Request(kind, viewer.lastId + 1, book, NoBook))
  BY DEF RequestFavoriteToggle, RequestFilter, BeginBoundaryPreview
<1>4. CASE UNCHANGED requests
  <2> DEFINE sent == {}
  <2>1. /\ Queue(requests') /\ Queue(answers') /\ viewer'.lastId \in Nat
        /\ viewer.lastId <= viewer'.lastId
        /\ ToSet(requests') \subseteq ToSet(requests) \cup sent
        /\ ToSet(answers') \subseteq ToSet(answers)
        /\ \A x \in sent : FALSE
    BY <1>0, <1>1, <1>4 DEF Shapes
  <2> HIDE DEF sent
  <2> QED
    BY <1>0, <1>1, <1>2, <2>1, Turned
<1>5. ASSUME NEW kind \in {"favorite", "filter", "filterState", "preview"}, NEW book,
             requests' = Append(requests, Request(kind, viewer.lastId + 1, book, NoBook))
      PROVE  Inv'
  <2> DEFINE m == Request(kind, viewer.lastId + 1, book, NoBook)
  <2>1. ~Leads(m) /\ m.kind \notin {"delete", "deleteNext"}
    BY DEF Leads, Request
  <2>2. requests' = Append(requests, m)
    BY <1>5
  <2> HIDE DEF m
  <2> QED
    BY <1>0, <1>1, <1>2, <2>1, <2>2, SentOne
<1> QED
  BY <1>3, <1>4, <1>5

LEMMA SendSourceChangedInv == Inv /\ SendSourceChanged => Inv'
<1> SUFFICES ASSUME Inv, SendSourceChanged PROVE Inv'
  OBVIOUS
<1> DEFINE m == Request("source", 0, viewer.shown, NoBook)
           sent == {m}
<1>0. /\ Shapes /\ viewer.mode = "library" /\ AskedIsShown(viewer)
      /\ UNCHANGED <<viewer, answers, toLibrary, toViewer, server, removed>>
      /\ requests' = Append(requests, m)
  BY DEF Inv, Careful, SendSourceChanged, pipeVars, libraryVars
<1>1. ~Leads(m) /\ m.kind \notin {"delete", "deleteNext"}
  BY DEF Leads, Request
<1> HIDE DEF m
<1>2. /\ Queue(requests') /\ ToSet(requests') = ToSet(requests) \cup sent
  BY <1>0, QueueAppend DEF Shapes
<1>3. /\ \A x \in sent : ~Leads(x) /\ x.kind \notin {"delete", "deleteNext"}
      /\ viewer'.lastId \in Nat /\ viewer.lastId <= viewer'.lastId
      /\ Queue(answers') /\ ToSet(requests') \subseteq ToSet(requests) \cup sent
  BY <1>0, <1>1, <1>2 DEF Shapes
<1> HIDE DEF sent
<1> QED
  BY <1>0, <1>2, <1>3, Turned

\* The last message of a session; it leads nowhere.
LEMMA SessionFacts ==
    ASSUME Shapes, NEW v, DOMAIN v = DOMAIN viewer, v.lastId = viewer.lastId
    PROVE  LET left == SessionRequest(v)
           IN  /\ DOMAIN left.v = DOMAIN viewer /\ left.v.lastId \in Nat
               /\ viewer.lastId <= left.v.lastId
               /\ left.v.dialog = v.dialog
               /\ Queue(left.q)
               /\ \A x \in ToSet(left.q) : ~Leads(x) /\ x.kind \notin {"delete", "deleteNext"}
<1> DEFINE m == Request("session", v.lastId + 1, v.shown, NoBook)
<1>1. ~Leads(m) /\ m.kind \notin {"delete", "deleteNext"}
  BY DEF Leads, Request
<1> HIDE DEF m
<1>2. Queue(<<m>>) /\ ToSet(<<m>>) = {m} /\ Queue(<<>>) /\ ToSet(<<>>) = {}
  BY QueueOne, QueueEmpty
<1>3. CASE v.mode = "library" /\ v.session = "open"
  <2>1. /\ SessionRequest(v).v = [v EXCEPT !.lastId = @ + 1, !.session = "sent"]
        /\ SessionRequest(v).q = IF CanSend THEN <<m>> ELSE <<>>
    BY <1>3 DEF SessionRequest, m
  <2> QED
    BY <1>1, <1>2, <2>1 DEF Shapes
<1>4. CASE ~(v.mode = "library" /\ v.session = "open")
  <2>1. SessionRequest(v).v = v /\ SessionRequest(v).q = <<>>
    BY <1>4 DEF SessionRequest
  <2> QED
    BY <1>2, <2>1 DEF Shapes
<1> QED
  BY <1>3, <1>4

\* start closing: nothing is asked of a Viewer that is about to end.
LEMMA ClosingInv ==
    ASSUME Inv, UNCHANGED <<toLibrary, toViewer, server, removed>>,
           Queue(answers'), ToSet(answers') \subseteq ToSet(answers),
           NEW v, DOMAIN v = DOMAIN viewer, v.lastId = viewer.lastId, StartClosing(v)
    PROVE  Inv'
<1> DEFINE left == SessionRequest(v)
           sent == ToSet(left.q)
<1>0. Shapes
  BY DEF Inv
<1>1. Queue(left.q) /\ \A x \in sent : ~Leads(x) /\ x.kind \notin {"delete", "deleteNext"}
  BY <1>0, SessionFacts
<1>2. requests' = requests \o left.q /\ viewer'.mode \in {"closing", "gone"}
  BY DEF StartClosing, Ended, ViewerStart
<1>3. DOMAIN viewer' = DOMAIN viewer /\ viewer'.lastId = 0
  BY <1>0 DEF StartClosing, Ended, ViewerStart, Shapes
<1> HIDE DEF left
<1>4. Queue(requests') /\ ToSet(requests') \subseteq ToSet(requests) \cup sent
  BY <1>0, <1>1, <1>2, QueueConcat DEF Shapes
<1>5. /\ \A x \in sent : x.kind \in {"delete", "deleteNext"} => x.book = x.asked
      /\ viewer'.mode # "library" /\ viewer'.lastId \in Nat
  BY <1>1, <1>2, <1>3
<1> HIDE DEF sent
<1> QED
  BY <1>3, <1>4, <1>5, Turned

\* reopen_to_path, which no answer brings about while the deletion dialog is open.
LEMMA ReopenInv ==
    ASSUME Inv, UNCHANGED <<toLibrary, toViewer, server, removed>>,
           Queue(answers'), ToSet(answers') \subseteq ToSet(answers),
           viewer.mode = "library",
           NEW v, DOMAIN v = DOMAIN viewer, v.lastId = viewer.lastId, v.dialog # "delete",
           NEW answer, NEW spad, Reopen(v, answer, spad)
    PROVE  Inv'
<1> DEFINE left == SessionRequest(v)
           fresh == OpenedBook(left.v, answer.book, spad)
           id == fresh.lastId + 1
           m == Request("spad", id, NoBook, NoBook)
           asksSpad == spad = NoSpad /\ fresh.mode = "library"
           more == IF asksSpad /\ CanSend THEN <<m>> ELSE <<>>
           sent == ToSet(left.q) \cup {m}
<1>0. Shapes
  BY DEF Inv
<1>1. /\ Queue(left.q)
      /\ \A x \in ToSet(left.q) : ~Leads(x) /\ x.kind \notin {"delete", "deleteNext"}
      /\ DOMAIN left.v = DOMAIN viewer /\ left.v.lastId \in Nat
      /\ viewer.lastId <= left.v.lastId /\ left.v.dialog # "delete"
  BY <1>0, SessionFacts
<1>2. ~Leads(m) /\ m.kind \notin {"delete", "deleteNext"}
  BY DEF Leads, Request
<1>3. /\ requests' = (requests \o left.q) \o more
      /\ viewer' = [fresh EXCEPT !.lastId = IF asksSpad THEN id ELSE @,
                                 !.spadPending = IF asksSpad /\ CanSend THEN id ELSE 0,
                                 !.action = Idle]
  BY DEF Reopen
<1> HIDE DEF left
<1>4. /\ DOMAIN fresh = DOMAIN viewer /\ fresh.lastId = left.v.lastId
      /\ fresh.dialog = left.v.dialog
  BY <1>0, <1>1 DEF OpenedBook, Shapes
<1> HIDE DEF fresh
<1>5. /\ DOMAIN viewer' = DOMAIN viewer /\ viewer'.lastId \in Nat
      /\ viewer.lastId <= viewer'.lastId
      /\ viewer'.dialog # "delete" /\ viewer'.action = Idle
  BY <1>0, <1>1, <1>3, <1>4 DEF Shapes
<1> HIDE DEF m, asksSpad, id
<1>6. Queue(more) /\ ToSet(more) \subseteq {m}
  BY QueueOne, QueueEmpty
<1> HIDE DEF more
<1>7. /\ Queue(requests \o left.q)
      /\ ToSet(requests \o left.q) = ToSet(requests) \cup ToSet(left.q)
  BY <1>0, <1>1, QueueConcat DEF Shapes
<1>8. /\ Queue(requests') /\ ToSet(requests') \subseteq ToSet(requests) \cup sent
      /\ \A x \in sent : ~Leads(x) /\ x.kind \notin {"delete", "deleteNext"}
  BY <1>1, <1>2, <1>3, <1>6, <1>7, QueueConcat
<1>9. AskedIsShown(viewer') /\ viewer'.action.kind # "probe"
  BY <1>5 DEF AskedIsShown, Idle
<1> HIDE DEF sent
<1> QED
  BY <1>5, <1>8, <1>9, Turned

\* An answer after which the Viewer stays where it is.
LEMMA StayInv ==
    ASSUME Inv, UNCHANGED <<toLibrary, toViewer, server, removed>>,
           answers # <<>>, answers' = Tail(answers), NEW v, Stay(v),
           DOMAIN v = DOMAIN viewer, v.lastId = viewer.lastId,
           v.mode = "library" =>
               /\ viewer.mode = "library"
               /\ v.asked = viewer.asked /\ v.shown = viewer.shown
               /\ v.dialog = "delete" => viewer.dialog = "delete"
               /\ v.action \in {viewer.action, Idle}
    PROVE  Inv'
<1>1. viewer' = v /\ UNCHANGED requests
  BY DEF Stay
<1>2. viewer'.mode = "library" => AskedIsShown(viewer')
  BY <1>1 DEF Inv, Careful, AskedIsShown
<1> QED
  BY <1>1, <1>2, Silent

\* The dialog's own probe is all an open deletion dialog waits for.
LEMMA NoWayOut ==
    ASSUME Inv, viewer.mode = "library", NEW m \in Messages, Leads(m), m.id = viewer.action.id
    PROVE  viewer.dialog # "delete"
<1>1. /\ AskedIsShown(viewer) /\ viewer.lastId \in Nat
      /\ m.id \in 1 .. viewer.lastId /\ (viewer.action.kind = "probe" => m.id # viewer.action.id)
  BY DEF Inv, Shapes, Careful, Numbered, NavIds
<1> QED
  BY <1>1 DEF AskedIsShown, Idle

\* The answers that can send the Viewer to another book, or end it.
LEMMA TurningAnswersInv ==
    ASSUME Inv, UNCHANGED <<toLibrary, toViewer, server, removed>>,
           answers # <<>>, answers' = Tail(answers),
           NEW answer, answer = Head(answers),
           \/ OnDeleted(answer)
           \/ answer.kind = "navigate" /\ OnNavigateTo(answer)
           \/ OnNoMoreBooks(answer)
    PROVE  Inv'
<1>0. Shapes
  BY DEF Inv
<1>1. /\ Queue(answers') /\ ToSet(answers') \subseteq ToSet(answers)
      /\ answer \in Messages
  BY <1>0, QueueTail DEF Shapes, Messages
<1> DEFINE w == [viewer EXCEPT !.dialog = "none", !.rangeInFlight = FALSE, !.session = "dropped"]
           hood == [base |-> answer.base, prev |-> answer.prev, next |-> answer.next]
<1>2. /\ DOMAIN w = DOMAIN viewer /\ w.lastId = viewer.lastId /\ w.dialog # "delete"
      /\ w.mode = viewer.mode
  BY <1>0 DEF Shapes
<1> HIDE DEF w
<1>3. CASE ~IsCurrent(answer)
  <2>1. Stay(viewer)
    BY <1>3 DEF OnDeleted, OnNavigateTo, OnNoMoreBooks
  <2> QED
    BY <2>1, StayInv
<1>4. CASE IsCurrent(answer)
  <2>1. viewer.mode = "library" /\ viewer.action.id = answer.id /\ AskedIsShown(viewer)
    BY <1>4 DEF IsCurrent, Inv, Careful
  <2>2. CASE OnDeleted(answer)
    <3>1. CASE viewer.action.kind = "deleteNext" /\ Reopen(viewer, answer, hood)
      <4>1. viewer.dialog # "delete"
        BY <2>1, <3>1 DEF AskedIsShown, Idle
      <4> HIDE DEF hood
      <4> QED
        BY <1>1, <2>1, <3>1, <4>1, ReopenInv
    <3>2. CASE StartClosing(viewer)
      BY <1>1, <3>2, ClosingInv
    <3> QED
      BY <1>4, <2>2, <3>1, <3>2 DEF OnDeleted
  <2>3. CASE answer.kind = "navigate" /\ OnNavigateTo(answer)
    <3>1. viewer.dialog # "delete"
      BY <1>1, <2>1, <2>3, NoWayOut DEF Leads
    <3>2. CASE viewer.action.kind = "rebuild"
      <4>1. Reopen(w, answer, NoSpad)
        BY <1>4, <2>3, <3>2 DEF OnNavigateTo, w
      <4> QED
        BY <1>1, <1>2, <2>1, <4>1, ReopenInv
    <3>3. CASE viewer.action.kind # "rebuild"
      <4>1. Reopen(viewer, answer, NoSpad)
        BY <1>4, <2>3, <3>3 DEF OnNavigateTo
      <4> QED
        BY <1>1, <2>1, <3>1, <4>1, ReopenInv
    <3> QED
      BY <3>2, <3>3
  <2>4. CASE OnNoMoreBooks(answer)
    <3>1. CASE StartClosing(w) \/ StartClosing(viewer)
      BY <1>1, <1>2, <3>1, ClosingInv
    <3>2. CASE Stay(ClearPendingLibraryAction(viewer))
      <4> DEFINE v == ClearPendingLibraryAction(viewer)
      <4>1. /\ DOMAIN v = DOMAIN viewer /\ v.lastId = viewer.lastId /\ v.asked = viewer.asked
            /\ v.shown = viewer.shown /\ v.dialog = viewer.dialog /\ v.action = Idle
        BY <1>0 DEF ClearPendingLibraryAction, Shapes
      <4> HIDE DEF v
      <4> QED
        BY <2>1, <3>2, <4>1, StayInv DEF v
    <3> QED
      BY <1>4, <2>4, <3>1, <3>2 DEF OnNoMoreBooks, w
  <2> QED
    BY <2>2, <2>3, <2>4
<1> QED
  BY <1>3, <1>4

\* The other answers settle one pending request or another.
LEMMA SettlingAnswersInv ==
    ASSUME Inv, UNCHANGED <<toLibrary, toViewer, server, removed>>,
           viewer.mode \in {"library", "snapshot"},
           answers # <<>>, answers' = Tail(answers),
           NEW answer,
           \/ OnViewerState(answer) \/ OnError(answer) \/ OnFavoriteToggled(answer)
           \/ OnFilterState(answer) \/ OnProbeAnswered(answer) \/ OnPreview(answer)
           \/ OnSpad(answer) \/ OnDisconnected \/ Stay(viewer)
    PROVE  Inv'
<1>0. Shapes
  BY DEF Inv
<1> DEFINE Settles(v) ==
             /\ DOMAIN v = DOMAIN viewer /\ v.lastId = viewer.lastId
             /\ v.mode = "library" =>
                   /\ viewer.mode = "library" /\ v.asked = viewer.asked /\ v.shown = viewer.shown
                   /\ v.dialog = "delete" => viewer.dialog = "delete"
                   /\ v.action \in {viewer.action, Idle}
<1>1. ASSUME NEW v, Stay(v), Settles(v) PROVE Inv'
  BY <1>1, StayInv
<1>2. Settles(viewer)
  OBVIOUS
<1>3. ASSUME NEW v, DOMAIN v = DOMAIN viewer, v.lastId = viewer.lastId
      PROVE  Settles(Detach(v))
  BY <1>0, <1>3 DEF Detach, Shapes
<1>4. CASE OnViewerState(answer)
  <2> DEFINE v == [viewer EXCEPT !.statePending = 0, !.favOf = answer.book]
  <2>1. Settles(v) /\ DOMAIN v = DOMAIN viewer /\ v.lastId = viewer.lastId
    BY <1>0 DEF Shapes
  <2>2. Stay(viewer) \/ Stay(v) \/ Stay(Detach(v))
    BY <1>4 DEF OnViewerState
  <2> HIDE DEF v, Settles
  <2> QED
    BY <1>1, <1>2, <1>3, <2>1, <2>2
<1>5. CASE OnError(answer)
  <2> DEFINE p == [viewer EXCEPT !.preview = NoPreview]
             a == [viewer EXCEPT !.action = Idle,
                     !.rangeInFlight = IF viewer.action.kind = "rebuild" THEN FALSE ELSE @,
                     !.dialog = IF viewer.action.kind = "rebuild" THEN "rangeFailed" ELSE @,
                     !.offline = @ \/ viewer.action.kind \in {"probe", "delete", "deleteNext"}]
             f == RestoreFavorite(viewer)
             l == [viewer EXCEPT !.filterPending = 0]
  <2>1. Settles(p) /\ Settles(f) /\ Settles(l)
    BY <1>0 DEF Shapes, RestoreFavorite
  <2>2. Settles(a)
    BY <1>0 DEF Shapes
  <2>3. Stay(p) \/ Stay(a) \/ Stay(f) \/ Stay(l) \/ Stay(viewer)
    BY <1>5 DEF OnError
  <2> HIDE DEF p, a, f, l, Settles
  <2> QED
    BY <1>1, <1>2, <2>1, <2>2, <2>3
<1>6. CASE OnFavoriteToggled(answer) \/ OnFilterState(answer) \/ OnProbeAnswered(answer)
  <2> DEFINE f == [viewer EXCEPT !.favPending = 0, !.favOf = answer.book, !.favBefore = NoBook]
             l == [viewer EXCEPT !.filterPending = 0]
             p == [viewer EXCEPT !.offline = FALSE, !.action = Idle]
  <2>1. Settles(f) /\ Settles(l) /\ Settles(p)
    BY <1>0 DEF Shapes
  <2>2. Stay(f) \/ Stay(l) \/ Stay(p) \/ Stay(viewer)
    BY <1>6 DEF OnFavoriteToggled, OnFilterState, OnProbeAnswered
  <2> HIDE DEF f, l, p, Settles
  <2> QED
    BY <1>1, <1>2, <2>1, <2>2
<1>7. CASE OnPreview(answer) \/ OnSpad(answer)
  <2> DEFINE p == [viewer EXCEPT !.preview = NoPreview]
             b == [viewer EXCEPT !.preview.book = answer[viewer.preview.dir]]
             s == [viewer EXCEPT !.spadPending = 0,
                                 !.spad = [base |-> answer.base, prev |-> answer.prev,
                                           next |-> answer.next]]
  <2>1. Settles(p) /\ Settles(b) /\ Settles(s)
    BY <1>0 DEF Shapes
  <2>2. Stay(p) \/ Stay(b) \/ Stay(s) \/ Stay(viewer)
    BY <1>7 DEF OnPreview, OnSpad
  <2> HIDE DEF p, b, s, Settles
  <2> QED
    BY <1>1, <1>2, <2>1, <2>2
<1>8. CASE OnDisconnected
  <2> DEFINE v == [Detach(RestoreFavorite(viewer)) EXCEPT
                     !.dialog = IF viewer.rangeInFlight THEN "rangeFailed" ELSE @]
  <2>1. Settles(v)
    BY <1>0 DEF Detach, RestoreFavorite, Shapes
  <2>2. Stay(v)
    BY <1>8 DEF OnDisconnected
  <2> HIDE DEF v, Settles
  <2> QED
    BY <1>1, <2>1, <2>2
<1>9. CASE Stay(viewer)
  BY <1>1, <1>2, <1>9
<1> QED
  BY <1>4, <1>5, <1>6, <1>7, <1>8, <1>9

LEMMA PollLibraryIpcInv == Inv /\ PollLibraryIpc => Inv'
<1> SUFFICES ASSUME Inv, PollLibraryIpc PROVE Inv'
  OBVIOUS
<1> DEFINE answer == Head(answers)
<1>1. /\ UNCHANGED <<toLibrary, toViewer, server, removed>>
      /\ viewer.mode \in {"library", "snapshot"} /\ answers # <<>> /\ answers' = Tail(answers)
  BY DEF PollLibraryIpc, pipeVars, libraryVars
<1>2. \/ OnDeleted(answer)
      \/ answer.kind = "navigate" /\ OnNavigateTo(answer)
      \/ OnNoMoreBooks(answer)
      \/ OnViewerState(answer) \/ OnError(answer) \/ OnFavoriteToggled(answer)
      \/ OnFilterState(answer) \/ OnProbeAnswered(answer) \/ OnPreview(answer)
      \/ OnSpad(answer) \/ OnDisconnected \/ Stay(viewer)
  BY DEF PollLibraryIpc
<1> QED
  BY <1>1, <1>2, TurningAnswersInv, SettlingAnswersInv

LEMMA EndingInv == Inv /\ (AwaitSessionAck \/ ViewerExits) => Inv'
<1>1. CASE AwaitSessionAck
  <2> SUFFICES ASSUME Inv, AwaitSessionAck PROVE Inv'
    BY <1>1
  <2>1. /\ UNCHANGED <<requests, toLibrary, toViewer, server, removed>>
        /\ answers' = answers \/ (answers # <<>> /\ answers' = Tail(answers))
    BY DEF AwaitSessionAck, pipeVars, libraryVars
  <2>2. /\ DOMAIN viewer' = DOMAIN viewer /\ viewer'.lastId = viewer.lastId
        /\ viewer'.mode # "library"
    BY DEF AwaitSessionAck, Inv, Shapes
  <2> QED
    BY <2>1, <2>2, Silent
<1>2. CASE ViewerExits
  <2> SUFFICES ASSUME Inv, ViewerExits PROVE Inv'
    BY <1>2
  <2>1. /\ UNCHANGED <<viewer, toLibrary, toViewer, server, removed>>
        /\ requests' = <<>> /\ answers' = <<>>
    BY DEF ViewerExits, libraryVars
  <2>2. Shapes' /\ Messages' \subseteq Messages /\ Deletions' \subseteq Deletions
    BY <2>1, QueueEmpty DEF Inv, Shapes, Messages, Deletions
  <2> QED
    BY <2>1, <2>2, Carried
<1> QED
  BY <1>1, <1>2

LEMMA CloseViewerInv == Inv /\ CloseViewer => Inv'
<1> SUFFICES ASSUME Inv, CloseViewer PROVE Inv'
  OBVIOUS
<1>1. /\ UNCHANGED <<toLibrary, toViewer, server, removed, answers>> /\ StartClosing(viewer)
  BY DEF CloseViewer, pipeVars, libraryVars
<1>2. Queue(answers') /\ ToSet(answers') \subseteq ToSet(answers)
  BY <1>1 DEF Inv, Shapes
<1> QED
  BY <1>1, <1>2, ClosingInv
-----------------------------------------------------------------------------

\* The inductive invariant: every reachable state keeps ids and the open dialog in step.
LEMMA Invariant == Spec => []Inv
<1>1. Inv /\ [Next]_vars => Inv'
  <2> SUFFICES ASSUME Inv, [Next]_vars PROVE Inv'
    OBVIOUS
  <2>1. CASE UserAction
    BY <2>1, NavigationInv, KeysInv, ApplyDeleteChoiceInv, DialogsInv, SideRequestsInv,
       SendSourceChangedInv, CloseViewerInv DEF UserAction
  <2>2. CASE UNCHANGED vars
    <3>1. Shapes' /\ Messages' = Messages /\ Deletions' = Deletions /\ UNCHANGED <<viewer, removed>>
      BY <2>2 DEF vars, Inv, Shapes, Messages, Deletions
    <3> QED
      BY <3>1, Carried
  <2> QED
    BY <2>1, <2>2, IoInv, ServeInv, ServeWindowAnswerInv, LibraryInv, PollLibraryIpcInv, EndingInv
       DEF Next
<1> QED
  BY <1>1, InitInv, PTL DEF Spec

(***************************************************************************)
(* A deletion removes the book the user was asked about: the Viewer names  *)
(* the book on screen when the choice is made (apply_delete_choice), the   *)
(* Library deletes it only while it is its current book, and between the   *)
(* question and the choice no answer changes what is on screen.            *)
(***************************************************************************)
THEOREM DeletionCorrect == Spec => []DeletesOnlyWhatWasAsked
<1>1. Inv => DeletesOnlyWhatWasAsked
  BY DEF Inv
<1> QED
  BY <1>1, Invariant, PTL
-----------------------------------------------------------------------------
(***************************************************************************)
(* Whatever the Viewer waits for is on its way.  The protocol sends one    *)
(* request at a time and waits for its answer, so the pipe holds at most   *)
(* one message that has or is an answer (Pipe); a request, what is made of *)
(* it and its answer bear one id, the fields that wait bear different ids, *)
(* and what comes under the id of a field is of a kind that settles it     *)
(* (Tracked).                                                              *)
(***************************************************************************)

\* The Viewer still listens; once it does not, it never does again.
Linked == viewer.mode \in {"library", "snapshot"}

\* What the Viewer waits for, by id, and the kinds that travel under each id.
Fields == {"action", "state", "favorite", "filter", "spad", "preview"}
Waits(v) == [action |-> v.action.id, state |-> v.statePending, favorite |-> v.favPending,
             filter |-> v.filterPending, spad |-> v.spadPending, preview |-> v.preview.id]

Errands == {"next", "prev", "delete", "deleteNext", "rebuild"}
Settles ==
    [action |-> Errands \cup {"probe", "navigate", "noMore", "deleted", "error"},
     state |-> {"state"}, favorite |-> {"favorite", "error"},
     filter |-> {"filterState", "error"}, spad |-> {"spad"}, preview |-> {"preview"}]

\* The preview is answered once its book is known.
Shown(v, f) == f = "preview" /\ v.preview.book # NoBook

Held == ToAnswer \cup Answered

\* The loss of the pipe is told, or nothing is left for the I/O thread but to tell it.
Losing ==
    \/ \E a \in ToSet(answers) : a.kind = "gone"
    \/ io = "wait" /\ server.state = "dead" /\ toViewer = <<>>
Coming(id) == id = 0 \/ Losing \/ \E m \in Held : m.id = id

-----------------------------------------------------------------------------
(* The pipe *)

Notices(s) == \A m \in ToSet(s) : m.kind = "source"
Quiet == server.state # "waitWindow" /\ Notices(toLibrary)

\* The request whose answer the I/O thread waits for: sent last, so after all notices.
AtTheEnd(s) ==
    /\ s # <<>> /\ s[Len(s)].kind # "source"
    /\ \A i \in 1 .. Len(s) - 1 : s[i].kind = "source"

Waiting ==
    \/ server.state = "serve" /\ toViewer = <<>> /\ AtTheEnd(toLibrary)
    \/ server.state = "waitWindow" /\ toViewer = <<>> /\ Notices(toLibrary)
    \/ Quiet /\ toViewer # <<>> /\ Tail(toViewer) = <<>>
    \/ server.state = "dead" /\ toViewer = <<>> /\ toLibrary = <<>>

Pipe ==
    /\ server.state \in {"serve", "waitWindow", "dead"} /\ io \in {"ready", "wait", "dead"}
    /\ IF server.state = "waitWindow" THEN server.request.kind \in AskedOfWindow
                                      ELSE server.request = NoRequest
    /\ io = "ready" => toViewer = <<>> /\ Quiet
    /\ io = "wait" => Waiting
    /\ io = "dead" /\ Linked => \E a \in ToSet(answers) : a.kind = "gone"

-----------------------------------------------------------------------------
(* The fields that wait *)

Distinct(v) == \A f, g \in Fields : Waits(v)[f] = Waits(v)[g] => f = g \/ Waits(v)[f] = 0

\* What the message m may be, given what v waits for.
Fits(m, v) ==
    /\ m.id \in 0 .. v.lastId
    /\ m.kind = "source" => m.id = 0
    /\ m.id # 0 => \A f \in Fields : m.id = Waits(v)[f] => m.kind \in Settles[f]
    /\ m.id # 0 /\ m.id = v.action.id /\ m.kind = "probe" => v.action.kind = "probe"

Consistent(v) ==
    /\ DOMAIN v.preview = DOMAIN NoPreview
    /\ v.mode = "snapshot" => v.action = Idle /\ v.spadPending = 0
    /\ v.rangeInFlight => v.dialog = "range" /\ v.action.kind = "rebuild"

Tracked ==
    /\ \A f \in Fields : Waits(viewer)[f] \in 0 .. viewer.lastId
    /\ Distinct(viewer) /\ Consistent(viewer)
    /\ \A m \in Messages : Fits(m, viewer)
    /\ \A a \in Answered : a.kind \notin Errands
    /\ \A f \in Fields : Shown(viewer, f) \/ Coming(Waits(viewer)[f])

Awaited == Linked => Tracked

\* At the first state the first requests are queued.
LEMMA InitAwaited == Init => Pipe /\ Awaited
<1> SUFFICES ASSUME Init PROVE Pipe /\ Awaited
  OBVIOUS
<1>0. Shapes
  BY InitInv DEF Inv
<1>1. PICK book \in Starts, mode \in {"library", "snapshot"} :
        /\ viewer = ViewerStart(book, mode)
        /\ requests = FirstRequests(book, mode)
        /\ server = [state |-> "serve", current |-> book, word |-> "none", next |-> NoBook,
                     request |-> NoRequest]
  BY DEF Init
<1>2. /\ toLibrary = <<>> /\ toViewer = <<>> /\ answers = <<>> /\ io = "ready"
  BY DEF Init
<1>3. Pipe
  BY <1>1, <1>2, QueueEmpty DEF Pipe, Quiet, Notices
<1> DEFINE first == Request("state", 1, book, NoBook)
           second == Request("spad", 2, NoBook, NoBook)
<1>4. ToSet(requests) = {first} \cup IF mode = "library" THEN {second} ELSE {}
  <2> DEFINE more == IF mode = "library" THEN <<second>> ELSE <<>>
  <2>1. requests = <<first>> \o more
    BY <1>1 DEF FirstRequests
  <2>2. /\ Queue(<<first>>) /\ ToSet(<<first>>) = {first} /\ Queue(more)
        /\ ToSet(more) = IF mode = "library" THEN {second} ELSE {}
    BY QueueOne, QueueEmpty
  <2> HIDE DEF first, more
  <2> QED
    BY <2>1, <2>2, QueueConcat
<1>5. /\ viewer.lastId = IF mode = "library" THEN 2 ELSE 1
      /\ viewer.mode = mode /\ viewer.action = Idle /\ ~viewer.rangeInFlight
      /\ Waits(viewer) = [action |-> 0, state |-> 1, favorite |-> 0, filter |-> 0,
                          spad |-> IF mode = "library" THEN 2 ELSE 0, preview |-> 0]
  BY <1>1 DEF ViewerStart, Waits, Idle, NoPreview
<1>6. /\ first.id = 1 /\ first.kind = "state" /\ second.id = 2 /\ second.kind = "spad"
      /\ NoRequest.id = 0 /\ NoRequest.kind = "none"
  BY DEF Request, NoRequest
<1>7. Messages = ToSet(requests) \cup {NoRequest} /\ Answered = {} /\ Held = ToSet(requests)
  BY <1>1, <1>2, QueueEmpty DEF Messages, Answered, Held, ToAnswer
<1> HIDE DEF first, second
<1>8. \A f \in Fields : Waits(viewer)[f] \in 0 .. viewer.lastId /\ Coming(Waits(viewer)[f])
  BY <1>4, <1>5, <1>6, <1>7 DEF Fields, Coming
<1>9. Distinct(viewer) /\ Consistent(viewer)
  <2>1. /\ viewer.mode = "snapshot" => viewer.spadPending = 0
        /\ viewer.preview = NoPreview
    BY <1>1 DEF ViewerStart
  <2> QED
    BY <1>5, <2>1 DEF Distinct, Consistent, Fields
<1>10. \A m \in Messages : Fits(m, viewer)
  <2>1. Fits(NoRequest, viewer)
    BY <1>5, <1>6 DEF Fits
  <2>2. Fits(first, viewer)
    BY <1>5, <1>6 DEF Fits, Fields, Settles
  <2>3. mode = "library" => Fits(second, viewer)
    BY <1>5, <1>6 DEF Fits, Fields, Settles
  <2> QED
    BY <1>4, <1>7, <2>1, <2>2, <2>3
<1> QED
  BY <1>3, <1>7, <1>8, <1>9, <1>10 DEF Awaited, Tracked

\* The message m was n, or is made of n.
Follows(m, n) ==
    /\ m.id = n.id
    /\ m.kind \in {"source", "probe"} => m.kind = n.kind
    /\ \A f \in Fields : n.kind \in Settles[f] => m.kind \in Settles[f]

\* A step that leaves the Viewer's window alone, and loses nothing it waits for
\* without the loss being told.
LEMMA Passed ==
    ASSUME Shapes, Awaited, UNCHANGED viewer,
           \A m \in Messages' : m.id = 0 \/ \E n \in Messages : Follows(m, n),
           \A a \in Answered' : a \in Answered \/ a.kind \notin Errands,
           Linked => /\ Losing => Losing'
                     /\ \A m \in Held : m.id = 0 \/ Losing' \/ \E n \in Held' : n.id = m.id
    PROVE  Awaited'
<1> SUFFICES ASSUME Linked' PROVE Tracked'
  BY DEF Awaited
<1>0. Linked /\ Tracked /\ viewer.lastId \in Nat
  BY DEF Linked, Awaited, Shapes
<1>1. ASSUME NEW m \in Messages' PROVE Fits(m, viewer)
  <2>1. CASE m.id = 0
    BY <1>0, <2>1 DEF Fits
  <2>2. CASE m.id # 0
    <3>1. PICK n \in Messages : Follows(m, n)
      BY <1>1, <2>2
    <3>2. Fits(n, viewer)
      BY <1>0 DEF Tracked
    <3> QED
      BY <3>1, <3>2 DEF Fits, Follows
  <2> QED
    BY <2>1, <2>2
<1>2. ASSUME NEW id, Coming(id) PROVE id = 0 \/ Losing' \/ \E n \in Held' : n.id = id
  BY <1>0, <1>2 DEF Coming
<1>3. \A f \in Fields : Shown(viewer, f) \/ Coming(Waits(viewer)[f])'
  BY <1>0, <1>2 DEF Tracked, Coming
<1>4. \A a \in Answered' : a.kind \notin Errands
  BY <1>0 DEF Tracked
<1> QED
  BY <1>0, <1>1, <1>3, <1>4 DEF Tracked

\* A step of the window thread: it takes an answer or none (taken is Idle then), settles
\* what waited for it, and makes at most one field wait for a request it sends.
LEMMA Turn ==
    ASSUME Shapes, Linked, Tracked, UNCHANGED <<io, toLibrary, toViewer, server>>,
           viewer'.lastId \in Nat, viewer.lastId <= viewer'.lastId,
           NEW sent, ToSet(requests') = ToSet(requests) \cup sent,
           NEW taken, taken.kind # "gone",
           ToSet(answers') \subseteq ToSet(answers),
           ToSet(answers) \subseteq {taken} \cup ToSet(answers'),
           NEW h \in Fields,
           \A f \in Fields :
              \/ Waits(viewer')[f] = 0
              \/ /\ Waits(viewer')[f] = Waits(viewer)[f]
                 /\ Shown(viewer', f) \/ (Waits(viewer)[f] # taken.id /\ ~Shown(viewer, f))
              \/ /\ f = h /\ Waits(viewer')[f] \in viewer.lastId + 1 .. viewer'.lastId
                 /\ \E m \in sent : m.id = Waits(viewer')[f],
           \A m \in sent :
              \/ m.id = 0
              \/ /\ m.id \in viewer.lastId + 1 .. viewer'.lastId /\ m.kind # "source"
                 /\ m.id = Waits(viewer')[h] => m.kind \in Settles[h]
                 /\ m.kind = "probe" => viewer'.action.kind = "probe",
           viewer'.action \in {viewer.action, Idle}
              \/ viewer'.action.id \in viewer.lastId + 1 .. viewer'.lastId,
           Consistent(viewer')
    PROVE  Tracked'
<1> DEFINE w == Waits(viewer)
           x == Waits(viewer')
           n0 == viewer.lastId
           n1 == viewer'.lastId
<1>0. /\ n0 \in Nat /\ n1 \in Nat /\ n0 <= n1
      /\ \A f \in Fields : w[f] \in 0 .. n0
      /\ \A f, g \in Fields : w[f] = w[g] => f = g \/ w[f] = 0
  BY DEF Shapes, Tracked, Distinct
<1>1. \A f \in Fields : x[f] = 0 \/ x[f] = w[f] \/ (f = h /\ x[f] \in n0 + 1 .. n1)
  OBVIOUS
<1>2. w.action = viewer.action.id /\ x.action = viewer'.action.id /\ Idle.id = 0
  BY DEF Waits, Idle
<1>3. /\ Messages' = Messages \cup sent \/ Messages' \subseteq Messages \cup sent
      /\ Answered' \subseteq Answered
  BY DEF Messages, Answered
<1>4. \A m \in Messages : Fits(m, viewer)
  BY DEF Tracked
<1>5. ASSUME NEW f \in Fields 
      PROVE  Shown(viewer', f) \/ x[f] = 0 \/ Losing' \/ \E m \in Held' : m.id = x[f]
  <2>1. CASE x[f] = 0
    BY <2>1
  <2>2. CASE x[f] = w[f] /\ w[f] # taken.id /\ ~Shown(viewer, f)
    <3>1. Coming(w[f])
      BY <2>2 DEF Tracked
    <3>2. Losing => Losing'
      BY DEF Losing
    <3>3. ASSUME NEW m \in Held, m.id = w[f] PROVE m \in Held'
      BY <2>2, <3>3 DEF Held, ToAnswer, Answered
    <3> QED
      BY <2>2, <3>1, <3>2, <3>3 DEF Coming
  <2>3. CASE \E m \in sent : m.id = x[f]
    <3>1. sent \subseteq Held'
      BY DEF Held, ToAnswer
    <3> QED
      BY <2>3, <3>1
  <2> QED
    BY <2>1, <2>2, <2>3
<1> HIDE DEF w, x
<1>6. \A f \in Fields : x[f] \in 0 .. n1
  BY <1>0, <1>1
<1>7. \A f, g \in Fields : x[f] = x[g] => f = g \/ x[f] = 0
  BY <1>0, <1>1
<1>8. ASSUME NEW m \in Messages PROVE Fits(m, viewer')
  <2>1. /\ m.id \in 0 .. n0 /\ (m.kind = "source" => m.id = 0)
        /\ m.id # 0 => \A f \in Fields : m.id = w[f] => m.kind \in Settles[f]
        /\ m.id # 0 /\ m.id = w.action /\ m.kind = "probe" => viewer.action.kind = "probe"
    BY <1>2, <1>4 DEF Fits, w
  <2>2. \A f \in Fields : m.id # 0 /\ m.id = x[f] => m.id = w[f]
    BY <1>0, <1>1, <2>1
  <2>3. m.id # 0 /\ m.id = x.action => viewer'.action = viewer.action
    BY <1>0, <1>2, <2>1
  <2> QED
    BY <1>0, <1>2, <2>1, <2>2, <2>3 DEF Fits, x
<1>9. ASSUME NEW m \in sent PROVE Fits(m, viewer')
  <2>1. CASE m.id = 0
    BY <1>0, <2>1 DEF Fits
  <2>2. CASE m.id # 0
    <3>1. /\ m.id \in n0 + 1 .. n1 /\ m.kind # "source"
          /\ m.id = x[h] => m.kind \in Settles[h]
          /\ m.kind = "probe" => viewer'.action.kind = "probe"
      BY <2>2 DEF x
    <3>2. \A f \in Fields : m.id = x[f] => f = h
      BY <1>0, <1>1, <3>1
    <3> QED
      BY <1>0, <3>1, <3>2 DEF Fits, x
  <2> QED
    BY <2>1, <2>2
<1>10. \A a \in Answered' : a.kind \notin Errands
  BY <1>3 DEF Tracked
<1>11. /\ Distinct(viewer')
       /\ \A f \in Fields : Waits(viewer')[f] \in 0 .. viewer'.lastId
  BY <1>6, <1>7 DEF Distinct, x
<1>12. \A f \in Fields : Shown(viewer', f) \/ Coming(Waits(viewer)[f])'
  BY <1>5 DEF x, Coming
<1> HIDE DEF n0, n1
<1> QED
  BY <1>3, <1>8, <1>9, <1>10, <1>11, <1>12 DEF Tracked

\* What a step of the window thread leaves of the pipe.
LEMMA PipeKept ==
    ASSUME Pipe, UNCHANGED <<io, toLibrary, toViewer, server>>,
           Linked' => /\ Linked
                      /\ \A a \in ToSet(answers) : a.kind = "gone" => a \in ToSet(answers')
    PROVE  Pipe'
<1>1. Waiting' = Waiting /\ Quiet' = Quiet
  BY DEF Waiting, Quiet
<1> QED
  BY <1>1 DEF Pipe
-----------------------------------------------------------------------------
(* The two I/O threads *)

\* A request that is sent comes after the notices, and is left when they are served.
LEMMA EndReached ==
    ASSUME NEW s, Queue(s)
    PROVE  /\ \A e : Notices(s) /\ e.kind # "source" => AtTheEnd(Append(s, e))
           /\ AtTheEnd(s) /\ Head(s).kind = "source" => AtTheEnd(Tail(s))
           /\ AtTheEnd(s) /\ Head(s).kind # "source" => Tail(s) = <<>>
           /\ Notices(s) /\ s # <<>> => Head(s).kind = "source"
<1> DEFINE S == ToSet(s)
<1>1. s \in Seq(S)
  BY DEF Queue
<1>2. \A i \in DOMAIN s : s[i] \in S
  BY DEF ToSet
<1> HIDE DEF S
<1>3. DOMAIN s = 1 .. Len(s) /\ Len(s) \in Nat
  BY <1>1
<1>4. Notices(s) => \A i \in 1 .. Len(s) : s[i].kind = "source"
  BY <1>2, <1>3 DEF Notices, S
<1>5. ASSUME NEW e, Notices(s), e.kind # "source" PROVE AtTheEnd(Append(s, e))
  <2>1. s \in Seq(S \cup {e})
    BY <1>1
  <2>2. /\ Append(s, e) \in Seq(S \cup {e}) /\ Len(Append(s, e)) = Len(s) + 1
        /\ Append(s, e)[Len(s) + 1] = e
        /\ \A i \in 1 .. Len(s) : Append(s, e)[i] = s[i]
    BY <2>1
  <2>3. Append(s, e) # <<>>
    BY <1>3, <2>2
  <2> QED
    BY <1>3, <1>4, <1>5, <2>2, <2>3 DEF AtTheEnd
<1>6. ASSUME s # <<>>
      PROVE  /\ Len(s) > 0 /\ Head(s) = s[1] /\ Tail(s) \in Seq(S)
             /\ Len(Tail(s)) = Len(s) - 1 /\ \A i \in 1 .. Len(s) - 1 : Tail(s)[i] = s[i + 1]
  BY <1>1, <1>6
<1>10. \A t \in Seq(S) : t = <<>> <=> Len(t) = 0
  OBVIOUS
<1>7. ASSUME AtTheEnd(s), Head(s).kind = "source" PROVE AtTheEnd(Tail(s))
  <2>1. /\ s # <<>> /\ s[Len(s)].kind # "source"
        /\ \A i \in 1 .. Len(s) - 1 : s[i].kind = "source"
    BY <1>7 DEF AtTheEnd
  <2>2. Len(s) # 1
    BY <1>6, <1>7, <2>1
  <2>3. Len(s) \in Nat /\ Len(s) > 1 /\ Len(Tail(s)) = Len(s) - 1
    BY <1>3, <1>6, <2>1, <2>2
  <2>4. \A i \in 1 .. Len(s) - 1 : Tail(s)[i] = s[i + 1]
    BY <1>6, <2>1
  <2>5. Tail(s) # <<>>
    <3> DEFINE t == Tail(s)
    <3>1. t \in Seq(S) /\ Len(t) # 0
      BY <1>6, <2>1, <2>3
    <3> HIDE DEF t
    <3>2. t # <<>>
      BY <1>10, <3>1
    <3> QED
      BY <3>2 DEF t
  <2>6. Tail(s)[Len(Tail(s))] = s[Len(s)]
    BY <2>3, <2>4
  <2>7. ASSUME NEW i \in 1 .. Len(Tail(s)) - 1 PROVE Tail(s)[i].kind = "source"
    <3>1. i \in 1 .. Len(s) - 1 /\ i + 1 \in 1 .. Len(s) - 1
      BY <2>3, <2>7
    <3> QED
      BY <2>1, <2>4, <3>1
  <2> QED
    BY <2>1, <2>5, <2>6, <2>7 DEF AtTheEnd
<1>8. ASSUME AtTheEnd(s), Head(s).kind # "source" PROVE Tail(s) = <<>>
  <2>1. /\ s # <<>> /\ \A i \in 1 .. Len(s) - 1 : s[i].kind = "source"
    BY <1>8 DEF AtTheEnd
  <2>2. Len(s) = 1
    BY <1>3, <1>6, <1>8, <2>1
  <2>3. Tail(s) \in Seq(S) /\ Len(Tail(s)) = 0
    BY <1>6, <2>1, <2>2
  <2> QED
    BY <1>10, <2>3
<1>9. Notices(s) /\ s # <<>> => Head(s).kind = "source"
  BY <1>3, <1>4, <1>6
<1> QED
  BY <1>5, <1>7, <1>8, <1>9

LEMMA IoAwaited ==
    Shapes /\ Pipe /\ Awaited /\ (IoSend \/ IoReceive \/ IoReceiveFails \/ IoEnd)
        => Pipe' /\ Awaited'
<1> SUFFICES ASSUME Shapes, Pipe, Awaited, IoSend \/ IoReceive \/ IoReceiveFails \/ IoEnd
             PROVE  Pipe' /\ Awaited'
  OBVIOUS
<1> DEFINE gone == Plain("gone", 0)
<1>0. /\ Queue(requests) /\ Queue(toLibrary) /\ Queue(toViewer) /\ Queue(answers)
      /\ UNCHANGED <<viewer, server>>
  BY DEF Shapes, IoSend, IoReceive, IoReceiveFails, IoEnd, libraryVars
<1>1. gone.id = 0 /\ gone.kind = "gone" /\ gone.kind \notin Errands
  BY DEF Plain, Response, Errands
<1> HIDE DEF gone
<1>2. \A m : Follows(m, m)
  BY DEF Follows
<1>3. CASE IoSend
  <2> DEFINE r == Head(requests)
  <2>1. /\ io = "ready" /\ requests # <<>> /\ requests' = Tail(requests)
        /\ UNCHANGED toViewer /\ toViewer = <<>> /\ Quiet
    BY <1>3 DEF IoSend, Pipe, libraryVars
  <2>2. ToSet(requests) = {r} \cup ToSet(requests')
    BY <1>0, <2>1, QueueHead
  <2>3. CASE server.state # "dead"
    <3>1. /\ toLibrary' = Append(toLibrary, r) /\ UNCHANGED answers
          /\ io' = IF r.kind = "source" THEN "ready" ELSE "wait"
      BY <1>3, <2>3 DEF IoSend
    <3> HIDE DEF r
    <3>2. ToSet(toLibrary') = ToSet(toLibrary) \cup {r}
      BY <1>0, <3>1, QueueAppend
    <3>3. Pipe'
      <4>1. r.kind = "source" => Quiet'
        BY <1>0, <2>1, <3>2 DEF Quiet, Notices
      <4>2. r.kind # "source" => Waiting'
        <5>1. r.kind # "source" => AtTheEnd(toLibrary')
          BY <1>0, <2>1, <3>1, EndReached DEF Quiet
        <5> QED
          BY <1>0, <2>1, <2>3, <5>1 DEF Waiting, Pipe, Quiet
      <4> QED
        BY <1>0, <2>1, <2>3, <3>1, <4>1, <4>2 DEF Pipe
    <3>4. Messages' = Messages /\ Held' = Held /\ Answered' = Answered
      BY <1>0, <2>1, <2>2, <3>1, <3>2 DEF Messages, Held, ToAnswer, Answered
    <3>5. Losing => Losing'
      BY <2>1, <3>1 DEF Losing
    <3> QED
      BY <1>0, <1>2, <3>3, <3>4, <3>5, Passed
  <2>4. CASE server.state = "dead"
    <3>1. io' = "dead" /\ answers' = Append(answers, gone) /\ UNCHANGED toLibrary
      BY <1>3, <2>4 DEF IoSend, ReportLoss, gone
    <3> HIDE DEF r
    <3>2. ToSet(answers') = ToSet(answers) \cup {gone}
      BY <1>0, <3>1, QueueAppend
    <3>3. Losing' /\ Pipe'
      BY <1>0, <1>1, <2>4, <3>1, <3>2 DEF Losing, Pipe
    <3>4. Messages' \subseteq Messages \cup {gone} /\ Answered' = Answered \cup {gone}
      BY <1>0, <2>1, <2>2, <3>1, <3>2 DEF Messages, Answered
    <3> QED
      BY <1>0, <1>1, <1>2, <3>3, <3>4, Passed
  <2> QED
    BY <2>3, <2>4
<1>4. CASE IoReceive
  <2> DEFINE a == Head(toViewer)
  <2>1. /\ io = "wait" /\ toViewer # <<>> /\ toViewer' = Tail(toViewer)
        /\ UNCHANGED <<requests, toLibrary>>
        /\ Quiet /\ Tail(toViewer) = <<>>
    BY <1>4 DEF IoReceive, Pipe, Waiting
  <2>2. ToSet(toViewer) = {a} \cup ToSet(toViewer')
    BY <1>0, <2>1, QueueHead
  <2>3. Quiet'
    BY <1>0, <2>1 DEF Quiet
  <2>4. CASE viewer.mode = "detached"
    <3>1. io' = "dead" /\ UNCHANGED answers /\ ~Linked /\ ~Linked'
      BY <1>0, <1>4, <2>4 DEF IoReceive, Linked
    <3> QED
      BY <1>0, <2>1, <3>1 DEF Pipe, Awaited
  <2>5. CASE viewer.mode # "detached"
    <3>1. io' = "ready" /\ answers' = Append(answers, a)
      BY <1>4, <2>5 DEF IoReceive
    <3> HIDE DEF a
    <3>2. ToSet(answers') = ToSet(answers) \cup {a}
      BY <1>0, <3>1, QueueAppend
    <3>3. Pipe'
      BY <1>0, <2>1, <2>3, <3>1 DEF Pipe
    <3>4. Messages' = Messages /\ Held' = Held /\ Answered' = Answered
      BY <1>0, <2>1, <2>2, <3>2 DEF Messages, Held, ToAnswer, Answered
    <3>5. Losing => Losing'
      BY <2>1, <3>2 DEF Losing
    <3> QED
      BY <1>0, <1>2, <3>3, <3>4, <3>5, Passed
  <2> QED
    BY <2>4, <2>5
<1>5. CASE IoReceiveFails
  <2>1. /\ io' = "dead" /\ answers' = Append(answers, gone)
        /\ UNCHANGED <<requests, toLibrary, toViewer>>
    BY <1>5 DEF IoReceiveFails, ReportLoss, gone, pipeVars
  <2>2. ToSet(answers') = ToSet(answers) \cup {gone}
    BY <1>0, <2>1, QueueAppend
  <2>3. Losing' /\ Pipe'
    BY <1>0, <1>1, <2>1, <2>2 DEF Losing, Pipe
  <2>4. Messages' = Messages \cup {gone} /\ Answered' = Answered \cup {gone}
    BY <1>0, <2>1, <2>2 DEF Messages, Answered
  <2> QED
    BY <1>0, <1>1, <1>2, <2>3, <2>4, Passed
<1>6. CASE IoEnd
  <2>1. /\ io' = "dead" /\ ~Linked /\ ~Linked'
        /\ UNCHANGED <<requests, toLibrary, toViewer, answers>>
    BY <1>6 DEF IoEnd, Linked, pipeVars
  <2> QED
    BY <1>0, <2>1 DEF Pipe, Awaited
<1> QED
  BY <1>3, <1>4, <1>5, <1>6
-----------------------------------------------------------------------------
(* The Library's side *)

\* An answer: of one request, under its id, of a kind that settles what the request would.
LEMMA AnswerPassed ==
    ASSUME Shapes, Pipe, Awaited, UNCHANGED <<viewer, requests, answers, io>>,
           server.state # "dead", io # "ready", io = "wait" => toViewer = <<>>,
           NEW request \in Messages, NEW answer, Follows(answer, request),
           answer.kind \notin Errands,
           toViewer' = IF io # "dead" THEN Append(toViewer, answer) ELSE toViewer,
           server'.state = IF io # "dead" THEN "serve" ELSE "dead",
           server'.request = NoRequest,
           ToSet(toLibrary') \subseteq ToSet(toLibrary),
           \A m \in ToAnswer : m.id = 0 \/ m \in ToAnswer' \/ m = request,
           io # "dead" => Notices(toLibrary')
    PROVE  Pipe' /\ Awaited'
<1>1. CASE io = "dead"
  <2>1. /\ UNCHANGED toViewer /\ server'.state = "dead" /\ Linked' = Linked
        /\ Linked => Losing'
    BY <1>1 DEF Pipe, Losing, Linked
  <2>2. Pipe'
    BY <1>1, <2>1 DEF Pipe
  <2>3. /\ \A m \in Messages' : m.id = 0 \/ m \in Messages
        /\ Answered' = Answered
    BY <1>1, <2>1 DEF Messages, Answered, NoRequest, Request
  <2>4. \A m : Follows(m, m)
    BY DEF Follows
  <2> QED
    BY <2>1, <2>2, <2>3, <2>4, Passed
<1>2. CASE io = "wait"
  <2>1. /\ toViewer' = <<answer>> /\ io' = "wait" /\ server'.state = "serve" /\ toViewer = <<>>
    BY <1>2
  <2>2. ToSet(toViewer') = {answer} /\ ToSet(toViewer) = {}
    BY <2>1, QueueOne, QueueEmpty
  <2>3. toViewer' # <<>> /\ Tail(toViewer') = <<>> /\ Quiet'
    BY <1>2, <2>1 DEF Quiet
  <2>4. Pipe'
    BY <1>2, <2>1, <2>3 DEF Pipe, Waiting
  <2>5. /\ \A m \in Messages' : m.id = 0 \/ m \in Messages \/ m = answer
        /\ Answered' = Answered \cup {answer}
    BY <2>2 DEF Messages, Answered, NoRequest, Request
  <2>6. \A m \in Held : m.id = 0 \/ m \in Held' \/ m = request
    BY <2>5 DEF Held
  <2>7. Losing => Losing'
    BY <2>1, <1>2 DEF Losing
  <2>8. answer \in Held' /\ answer.id = request.id
    BY <2>5 DEF Held, Follows
  <2>9. \A m : Follows(m, m)
    BY DEF Follows
  <2> QED
    BY <2>4, <2>5, <2>6, <2>7, <2>8, <2>9, Passed
<1> QED
  BY <1>1, <1>2 DEF Pipe

\* Reply, to the request at the head of the pipe.
LEMMA ReplyAwaited ==
    ASSUME Shapes, Pipe, Awaited, UNCHANGED <<viewer, requests, answers, io>>,
           server.state = "serve", toLibrary # <<>>, toLibrary' = Tail(toLibrary),
           Head(toLibrary).kind # "source",
           NEW answer, Follows(answer, Head(toLibrary)), answer.kind \notin Errands,
           NEW current, NEW news, Reply(current, answer, news)
    PROVE  Pipe' /\ Awaited'
<1> DEFINE request == Head(toLibrary)
<1>1. /\ Queue(toLibrary) /\ ToSet(toLibrary) = {request} \cup ToSet(toLibrary')
      /\ request \in Messages
  BY QueueHead DEF Shapes, Messages
<1>2. ~Quiet
  BY <1>1, EndReached DEF Quiet
<1>3. io # "ready" /\ (io = "wait" => toViewer = <<>> /\ AtTheEnd(toLibrary))
  BY <1>2 DEF Pipe, Waiting
<1>4. io # "dead" => Notices(toLibrary')
  <2>1. CASE io = "dead"
    BY <2>1
  <2>2. CASE io = "wait"
    <3>1. toLibrary' = <<>>
      BY <1>1, <1>3, <2>2, EndReached
    <3> QED
      BY <3>1, QueueEmpty DEF Notices
  <2> QED
    BY <1>3, <2>1, <2>2 DEF Pipe
<1>5. /\ toViewer' = IF io # "dead" THEN Append(toViewer, answer) ELSE toViewer
      /\ server'.state = IF io # "dead" THEN "serve" ELSE "dead"
      /\ server'.request = NoRequest
  BY DEF Reply, Shapes, Pipe
<1>6. \A m \in ToAnswer : m \in ToAnswer' \/ m = request
  BY <1>1 DEF ToAnswer
<1> HIDE DEF request
<1>7. Follows(answer, request) /\ ToSet(toLibrary') \subseteq ToSet(toLibrary)
  BY <1>1 DEF request
<1> QED
  BY <1>1, <1>3, <1>4, <1>5, <1>6, <1>7, AnswerPassed

LEMMA ServeAwaited == Shapes /\ Pipe /\ Awaited /\ Serve => Pipe' /\ Awaited'
<1> SUFFICES ASSUME Shapes, Pipe, Awaited, Serve PROVE Pipe' /\ Awaited'
  OBVIOUS
<1> DEFINE request == Head(toLibrary)
<1>1. /\ toLibrary # <<>> /\ toLibrary' = Tail(toLibrary) /\ server.state = "serve"
      /\ UNCHANGED <<viewer, requests, answers, io>>
  BY DEF Serve, viewerVars
<1>2. /\ Queue(toLibrary) /\ ToSet(toLibrary) = {request} \cup ToSet(toLibrary')
      /\ request \in Messages
  BY <1>1, QueueHead DEF Shapes, Messages
<1>3. CASE ServeSource(request)
  <2>1. request.kind = "source" /\ UNCHANGED <<server, toViewer>>
    BY <1>3 DEF ServeSource
  <2>2. Quiet => Quiet'
    BY <1>2, <2>1 DEF Quiet, Notices
  <2>3. AtTheEnd(toLibrary) => AtTheEnd(toLibrary')
    BY <1>1, <1>2, <2>1, EndReached
  <2>4. Waiting => Waiting'
    BY <1>1, <2>1, <2>2, <2>3 DEF Waiting
  <2>5. Pipe'
    BY <1>1, <2>1, <2>2, <2>4 DEF Pipe, Linked
  <2>6. Messages' \subseteq Messages /\ Answered' = Answered
    BY <1>1, <1>2, <2>1 DEF Messages, Answered
  <2>7. Linked => request.id = 0
    BY <1>2, <2>1 DEF Awaited, Tracked, Fits
  <2>8. \A m \in Held : m \in Held' \/ m = request
    BY <1>1, <1>2, <2>1 DEF Held, ToAnswer, Answered
  <2>9. (Losing => Losing') /\ \A m : Follows(m, m)
    BY <1>1, <2>1 DEF Losing, Follows
  <2> QED
    BY <1>1, <2>5, <2>6, <2>7, <2>8, <2>9, Passed
<1> DEFINE error == Plain("error", request.id)
<1>4. error.kind \notin Errands /\ request.kind \in {"rebuild", "delete", "deleteNext"}
        => Follows(error, request)
  BY DEF Follows, Plain, Response, Errands, Fields, Settles
<1>4a. error.kind \notin Errands
  BY DEF Plain, Response, Errands
<1>5. CASE ServeByWindow(request)
  <2>1. CASE request.kind = "rebuild" /\ ~IsRequestedBookCurrent(request)
    <3>1. Reply(server.current, error, <<>>)
      BY <1>5, <2>1 DEF ServeByWindow
    <3> HIDE DEF error
    <3> QED
      BY <1>1, <1>4, <1>4a, <2>1, <3>1, ReplyAwaited
  <2>2. CASE ~(request.kind = "rebuild" /\ ~IsRequestedBookCurrent(request))
    <3>1. /\ server'.state = "waitWindow" /\ server'.request = request
          /\ UNCHANGED toViewer /\ request.kind \in AskedOfWindow
      BY <1>5, <2>2 DEF ServeByWindow, Shapes
    <3>2. request.kind # "source" /\ ~Quiet
      BY <1>1, <1>2, <3>1, EndReached DEF AskedOfWindow, Quiet
    <3>3. io # "ready" /\ (io = "wait" => toViewer = <<>> /\ AtTheEnd(toLibrary))
      BY <1>1, <3>2 DEF Pipe, Waiting
    <3>4. io = "wait" => Notices(toLibrary')
      BY <1>1, <1>2, <3>2, <3>3, EndReached, QueueEmpty DEF Notices
    <3>5. Pipe'
      BY <1>1, <3>1, <3>3, <3>4 DEF Pipe, Waiting, Linked
    <3>6. Messages' \subseteq Messages /\ Answered' = Answered /\ Held \subseteq Held'
      BY <1>1, <1>2, <3>1 DEF Messages, Answered, Held, ToAnswer
    <3>7. (Losing => Losing') /\ \A m : Follows(m, m)
      BY <1>1, <3>1 DEF Losing, Follows
    <3> QED
      BY <1>1, <3>5, <3>6, <3>7, Passed
  <2> QED
    BY <2>1, <2>2
<1>6. CASE ServeState(request)
  <2> DEFINE answer == Response("state", request.id, server.current, NoSpad, NoBook)
  <2>1. /\ Follows(answer, request) /\ answer.kind \notin Errands /\ request.kind # "source"
        /\ Reply(server.current, answer, <<>>)
    BY <1>6 DEF ServeState, Follows, Response, Errands, Settles, Fields
  <2> HIDE DEF answer
  <2> QED
    BY <1>1, <2>1, ReplyAwaited
<1>7. CASE ServeSession(request)
  <2> DEFINE answer == Plain("sessionAck", request.id)
  <2>1. /\ Follows(answer, request) /\ answer.kind \notin Errands /\ request.kind # "source"
        /\ Reply(server.current, answer, <<Event("session", request.id, request.book, NoBook)>>)
    BY <1>7 DEF ServeSession, Follows, Plain, Response, Errands, Settles, Fields
  <2> HIDE DEF answer
  <2> QED
    BY <1>1, <2>1, ReplyAwaited
<1>8. CASE ServeNavigation(request)
  <2> DEFINE target == NavTarget(library.nav, server.current, onDisk, request.kind)
             none == Plain("noMore", request.id)
             there == Response("navigate", request.id, target, NoSpad, NoBook)
  <2>1. /\ Follows(none, request) /\ none.kind \notin Errands
        /\ Follows(there, request) /\ there.kind \notin Errands /\ request.kind # "source"
    BY <1>8 DEF ServeNavigation, Follows, Plain, Response, Errands, Settles, Fields
  <2>2. \/ Reply(server.current, none, <<>>)
        \/ Reply(target, there, NavigatedNews(request.id, target))
    BY <1>8 DEF ServeNavigation
  <2> HIDE DEF target, none, there
  <2> QED
    BY <1>1, <2>1, <2>2, ReplyAwaited
<1>9. CASE ServeAdjacentBooks(request)
  <2> DEFINE hood == Neighbours(ResolvedBooks(library.nav, server.current, onDisk), onDisk)
             answer == Response(request.kind, request.id, NoBook, hood, server.current)
  <2>1. /\ Follows(answer, request) /\ answer.kind \notin Errands /\ request.kind # "source"
        /\ Reply(server.current, answer, <<>>)
    BY <1>9 DEF ServeAdjacentBooks, Follows, Response, Errands, Settles, Fields
  <2> HIDE DEF hood, answer
  <2> QED
    BY <1>1, <2>1, ReplyAwaited
<1>10. CASE ServeDelete(request)
  <2>1. PICK current, next, hood, news :
          \/ Reply(current, Response("deleted", request.id, next, hood, next), news)
          \/ Reply(current, error, news)
    BY <1>10 DEF ServeDelete
  <2> DEFINE answer == Response("deleted", request.id, next, hood, next)
  <2>2. /\ Follows(answer, request) /\ answer.kind \notin Errands
        /\ request.kind \in {"delete", "deleteNext"} /\ request.kind # "source"
    BY <1>10 DEF ServeDelete, Follows, Response, Errands, Settles, Fields
  <2>3. Reply(current, answer, news) \/ Reply(current, error, news)
    BY <2>1
  <2> HIDE DEF answer, error
  <2> QED
    BY <1>1, <1>4, <1>4a, <2>2, <2>3, ReplyAwaited
<1> QED
  BY <1>3, <1>5, <1>6, <1>7, <1>8, <1>9, <1>10 DEF Serve

LEMMA ServeWindowAnswerAwaited ==
    Shapes /\ Pipe /\ Awaited /\ ServeWindowAnswer => Pipe' /\ Awaited'
<1> SUFFICES ASSUME Shapes, Pipe, Awaited, ServeWindowAnswer PROVE Pipe' /\ Awaited'
  OBVIOUS
<1> DEFINE request == server.request
<1>1. /\ server.state = "waitWindow" /\ UNCHANGED <<viewer, requests, answers, io, toLibrary>>
      /\ request \in Messages /\ request.kind \in AskedOfWindow
  BY DEF ServeWindowAnswer, viewerVars, Messages, Pipe
<1>2. io # "ready" /\ (io = "wait" => toViewer = <<>> /\ Notices(toLibrary))
  BY <1>1 DEF Pipe, Waiting, Quiet
<1>3. /\ server'.state = IF io # "dead" THEN "serve" ELSE "dead"
      /\ server'.request = NoRequest
  BY DEF ServeWindowAnswer, Shapes
<1>4. PICK answer :
        /\ Follows(answer, request) /\ answer.kind \notin Errands
        /\ toViewer' = IF io # "dead" THEN Append(toViewer, answer) ELSE toViewer
  <2> DEFINE moved == request.kind = "rebuild" /\ server.word = "ok" /\ server.next # NoBook
             failed == Plain("error", request.id)
             there == Response("navigate", request.id, server.next, NoSpad, NoBook)
             none == Plain("noMore", request.id)
             other == Response(request.kind, request.id, request.book, NoSpad, NoBook)
             Good(a) == Follows(a, request) /\ a.kind \notin Errands
             Sent(a) == toViewer' = IF io # "dead" THEN Append(toViewer, a) ELSE toViewer
  <2>1. Good(failed)
    BY <1>1 DEF Follows, Plain, Response, Errands, Settles, Fields, AskedOfWindow
  <2>2. request.kind = "rebuild" => Good(there) /\ Good(none)
    BY DEF Follows, Plain, Response, Errands, Settles, Fields
  <2>3. request.kind # "rebuild" => Good(other)
    BY <1>1 DEF Follows, Response, Errands, AskedOfWindow
  <2>4. \/ Sent(failed)
        \/ request.kind = "rebuild" /\ Sent(there)
        \/ request.kind = "rebuild" /\ Sent(none)
        \/ request.kind # "rebuild" /\ Sent(other)
    BY DEF ServeWindowAnswer
  <2> HIDE DEF Good, Sent
  <2>5. PICK a : Good(a) /\ Sent(a)
    BY <2>1, <2>2, <2>3, <2>4
  <2> QED
    BY <2>5 DEF Good, Sent
<1>5. /\ \A m \in ToAnswer : m \in ToAnswer' \/ m = request
      /\ io # "dead" => Notices(toLibrary')
  BY <1>1, <1>2 DEF ToAnswer, Pipe
<1>6. ToSet(toLibrary') \subseteq ToSet(toLibrary) /\ server.state # "dead"
  BY <1>1
<1> HIDE DEF request
<1> QED
  BY <1>1, <1>2, <1>3, <1>4, <1>5, <1>6, AnswerPassed

\* The Library's thread ends: what is lost with it was waited for at the pipe.
LEMMA ServerEndsAwaited == Shapes /\ Pipe /\ Awaited /\ ServerEnds => Pipe' /\ Awaited'
<1> SUFFICES ASSUME Shapes, Pipe, Awaited, ServerEnds PROVE Pipe' /\ Awaited'
  OBVIOUS
<1>1. /\ UNCHANGED <<viewer, requests, answers, io, toViewer>> /\ toLibrary' = <<>>
      /\ server'.state = "dead" /\ server'.request = NoRequest /\ server.state # "dead"
  BY DEF ServerEnds, viewerVars, Shapes
<1>2. ToSet(toLibrary') = {} /\ Notices(toLibrary') /\ Quiet'
  BY <1>1, QueueEmpty DEF Notices, Quiet
<1>3. Pipe'
  <2>1. Waiting => Waiting'
    BY <1>1, <1>2 DEF Waiting
  <2> QED
    BY <1>1, <1>2, <2>1 DEF Pipe, Linked
<1>4. /\ \A m \in Messages' : m.id = 0 \/ m \in Messages
      /\ Answered' = Answered
  BY <1>1, <1>2 DEF Messages, Answered, NoRequest, Request
<1>5. ASSUME Linked, NEW m \in Held PROVE m.id = 0 \/ Losing' \/ m \in Held'
  <2>1. CASE m \in ToSet(requests) \/ m \in Answered
    BY <1>1, <1>4, <2>1 DEF Held, ToAnswer
  <2>2. CASE m \in ToSet(toLibrary) \/ ~Quiet
    <3>1. CASE io = "ready" \/ (toViewer # <<>> /\ io = "wait")
      <4>1. Notices(toLibrary) /\ Quiet
        BY <3>1 DEF Pipe, Quiet, Waiting
      <4>2. m.kind = "source" /\ m \in Messages
        BY <2>2, <4>1 DEF Notices, Messages
      <4> QED
        BY <1>5, <4>2 DEF Awaited, Tracked, Fits
    <3>2. CASE io = "wait" /\ toViewer = <<>>
      BY <1>1, <3>2 DEF Losing
    <3>3. CASE io = "dead"
      BY <1>1, <1>5, <3>3 DEF Losing, Pipe
    <3> QED
      BY <3>1, <3>2, <3>3 DEF Pipe
  <2>3. m \in ToSet(requests) \/ m \in Answered \/ m \in ToSet(toLibrary) \/ ~Quiet
    BY <1>5 DEF Held, ToAnswer, Quiet
  <2> QED
    BY <2>1, <2>2, <2>3
<1>6. (Losing => Losing') /\ \A m : Follows(m, m)
  BY <1>1 DEF Losing, Follows
<1> QED
  BY <1>1, <1>3, <1>4, <1>5, <1>6, Passed

\* Its window thread speaks to the server's thread only.
LEMMA LibraryAwaited ==
    Shapes /\ Pipe /\ Awaited /\ (DrainEvent \/ RefreshLibraryBookOrder \/ ReorderList)
        => Pipe' /\ Awaited'
<1> SUFFICES ASSUME Shapes, Pipe, Awaited,
                    DrainEvent \/ RefreshLibraryBookOrder \/ ReorderList
             PROVE  Pipe' /\ Awaited'
  OBVIOUS
<1>1. UNCHANGED <<viewer, requests, answers, io, toLibrary, toViewer>>
  BY DEF DrainEvent, RefreshLibraryBookOrder, ReorderList, viewerVars, pipeVars
<1>2. server'.state = server.state /\ server'.request = server.request
  BY DEF DrainEvent, RefreshLibraryBookOrder, ReorderList, DrainDeleted, DrainNavigated,
         DrainRebuild, DrainFavorite, Tell, Shapes
<1>3. Pipe'
  <2>1. Waiting' = Waiting /\ Quiet' = Quiet
    BY <1>1, <1>2 DEF Waiting, Quiet
  <2> QED
    BY <1>1, <1>2, <2>1 DEF Pipe, Linked
<1>4. Messages' = Messages /\ Answered' = Answered /\ Held' = Held
  BY <1>1, <1>2 DEF Messages, Answered, Held, ToAnswer
<1>5. (Losing => Losing') /\ \A m : Follows(m, m)
  BY <1>1, <1>2 DEF Losing, Follows
<1> QED
  BY <1>1, <1>3, <1>4, <1>5, Passed
-----------------------------------------------------------------------------
(* The Viewer's window thread: requests *)

\* Nobody waits in a window that has detached, or is closing.
LEMMA NobodyWaits ==
    ASSUME Pipe, UNCHANGED <<io, toLibrary, toViewer, server>>, ~Linked'
    PROVE  Pipe' /\ Awaited'
BY PipeKept DEF Awaited

\* A step that sends nothing, and takes an answer or none (taken is Idle then).
LEMMA Settled ==
    ASSUME Shapes, Pipe, Awaited, Linked,
           UNCHANGED <<requests, io, toLibrary, toViewer, server>>,
           NEW taken,
           \/ UNCHANGED answers /\ taken = Idle
           \/ answers # <<>> /\ answers' = Tail(answers) /\ taken = Head(answers),
           taken.kind # "gone",
           viewer'.lastId \in Nat, viewer.lastId <= viewer'.lastId,
           \A f \in Fields :
              \/ Waits(viewer')[f] = 0
              \/ /\ Waits(viewer')[f] = Waits(viewer)[f]
                 /\ Shown(viewer', f) \/ (Waits(viewer)[f] # taken.id /\ ~Shown(viewer, f)),
           viewer'.action \in {viewer.action, Idle},
           Consistent(viewer')
    PROVE  Pipe' /\ Awaited'
<1>1. /\ ToSet(answers') \subseteq ToSet(answers)
      /\ ToSet(answers) \subseteq {taken} \cup ToSet(answers')
  BY QueueHead DEF Shapes
<1>2. Pipe'
  BY <1>1, PipeKept
<1> DEFINE sent == {}
           h == "state"
<1>3. /\ ToSet(requests') = ToSet(requests) \cup sent /\ \A m \in sent : FALSE
      /\ h \in Fields /\ Tracked
  BY DEF Fields, Awaited
<1> HIDE DEF sent, h
<1>4. Tracked'
  BY <1>1, <1>3, Turn
<1> QED
  BY <1>2, <1>4 DEF Awaited

\* A step that takes no answer, and sends one request for one field, or for none.
LEMMA AskedOne ==
    ASSUME Shapes, Pipe, Awaited, Linked,
           UNCHANGED <<answers, io, toLibrary, toViewer, server>>,
           NEW m, requests' = Append(requests, m),
           m.id = 0 \/ m.id = viewer.lastId + 1, m.id # 0 => m.kind # "source",
           m.kind = "probe" => viewer'.action.kind = "probe",
           viewer'.lastId = viewer.lastId + 1 \/ (m.id = 0 /\ viewer'.lastId = viewer.lastId),
           NEW h \in Fields,
           \/ Waits(viewer')[h] = m.id /\ m.id # 0 /\ m.kind \in Settles[h]
           \/ Waits(viewer')[h] = Waits(viewer)[h] /\ Shown(viewer', h) = Shown(viewer, h),
           \A f \in Fields \ {h} : /\ Waits(viewer')[f] = Waits(viewer)[f]
                                   /\ Shown(viewer', f) = Shown(viewer, f),
           viewer'.action = viewer.action \/ (m.id # 0 /\ viewer'.action.id = m.id),
           Consistent(viewer')
    PROVE  Pipe' /\ Awaited'
<1> DEFINE n0 == viewer.lastId
           n1 == viewer'.lastId
           w == Waits(viewer)
           x == Waits(viewer')
           sent == {m}
<1>0. Pipe' /\ Tracked
  BY PipeKept DEF Awaited, Linked
<1>1. n0 \in Nat /\ n1 \in Nat /\ n0 <= n1 /\ (m.id = 0 \/ m.id \in n0 + 1 .. n1)
  BY DEF Shapes
<1>2. ToSet(requests') = ToSet(requests) \cup sent
  BY QueueAppend DEF Shapes
<1>3. Idle.id = 0 /\ Idle.kind # "gone"
  BY DEF Idle
<1>4. \A f \in Fields : w[f] \in 0 .. n0
  BY <1>0 DEF Tracked
<1>5. ASSUME NEW f \in Fields
      PROVE  \/ x[f] = 0
             \/ x[f] = w[f] /\ (Shown(viewer', f) \/ (w[f] # Idle.id /\ ~Shown(viewer, f)))
             \/ f = h /\ x[f] \in n0 + 1 .. n1 /\ \E r \in sent : r.id = x[f]
  <2>1. CASE x[f] = w[f] /\ Shown(viewer', f) = Shown(viewer, f)
    BY <1>3, <2>1
  <2>2. CASE f = h /\ x[h] = m.id /\ m.id # 0
    BY <1>1, <2>2
  <2> QED
    BY <2>1, <2>2
<1>6. m.id = 0 \/ (/\ m.id \in n0 + 1 .. n1 /\ m.kind # "source"
                   /\ m.id = x[h] => m.kind \in Settles[h]
                   /\ m.kind = "probe" => viewer'.action.kind = "probe")
  <2>1. x[h] = w[h] => m.id = 0 \/ m.id # x[h]
    BY <1>1, <1>4
  <2> QED
    BY <1>1, <2>1
<1>7. viewer'.action = viewer.action \/ viewer'.action.id \in n0 + 1 .. n1
  BY <1>1, <1>6
<1>8. \A r \in sent : \/ r.id = 0
                      \/ /\ r.id \in n0 + 1 .. n1 /\ r.kind # "source"
                         /\ r.id = x[h] => r.kind \in Settles[h]
                         /\ r.kind = "probe" => viewer'.action.kind = "probe"
  BY <1>6
<1>9. ToSet(answers') \subseteq ToSet(answers)
      /\ ToSet(answers) \subseteq {Idle} \cup ToSet(answers')
  OBVIOUS
<1> HIDE DEF sent
<1>10. Tracked'
  BY <1>0, <1>1, <1>2, <1>3, <1>5, <1>7, <1>8, <1>9, Turn
<1> QED
  BY <1>0, <1>10 DEF Awaited

LEMMA SendNavigationAwaited ==
    ASSUME Shapes, Pipe, Awaited, UNCHANGED <<answers, io, toLibrary, toViewer, server>>,
           NEW kind \in {"next", "prev", "probe", "rebuild"}, NEW v, SendNavigation(kind, v),
           viewer.mode = "library", v.mode = "library",
           DOMAIN v = DOMAIN viewer, v.lastId = viewer.lastId,
           Waits(v) = Waits(viewer), v.preview = viewer.preview,
           v.rangeInFlight => v.dialog = "range" /\ kind = "rebuild"
    PROVE  Pipe' /\ Awaited'
<1> DEFINE id == v.lastId + 1
           w == [v EXCEPT !.lastId = id]
           m == Request(kind, id, v.shown, NoBook)
<1>1. CASE CanSend
  <2>1. /\ requests' = Append(requests, m)
        /\ viewer' = [w EXCEPT !.action = [kind |-> kind, id |-> id]]
    BY <1>1 DEF SendNavigation
  <2>2. /\ viewer'.lastId = id /\ viewer'.mode = "library"
        /\ viewer'.action = [kind |-> kind, id |-> id] /\ viewer'.preview = viewer.preview
        /\ viewer'.rangeInFlight = v.rangeInFlight /\ viewer'.dialog = v.dialog
        /\ viewer'.statePending = v.statePending /\ viewer'.favPending = v.favPending
        /\ viewer'.filterPending = v.filterPending /\ viewer'.spadPending = v.spadPending
    BY <2>1 DEF Shapes
  <2>3. \A f \in Fields \ {"action"} : Waits(viewer')[f] = Waits(viewer)[f]
    BY <2>2 DEF Waits, Fields
  <2>4. Waits(viewer').action = id /\ \A f \in Fields : Shown(viewer', f) = Shown(viewer, f)
    BY <2>2 DEF Waits, Shown
  <2>5. m.id = id /\ m.kind = kind /\ kind \in Settles.action /\ kind # "source"
    BY DEF Request, Settles, Errands
  <2>6. Consistent(viewer') /\ Linked /\ "action" \in Fields /\ id \in Nat /\ id # 0
    <3>1. Linked /\ Consistent(viewer)
      BY DEF Linked, Awaited, Tracked
    <3> QED
      BY <2>2, <3>1 DEF Consistent, Shapes, Fields
  <2>7. viewer'.action.id = id /\ viewer'.action.kind = kind
    BY <2>2
  <2> HIDE DEF m, id
  <2>8. id = viewer.lastId + 1
    BY DEF id
  <2> QED
    BY <2>1, <2>2, <2>3, <2>4, <2>5, <2>6, <2>7, <2>8, AskedOne
<1>2. CASE ~CanSend
  <2>1. viewer' = [Detach(w) EXCEPT !.offline = @ \/ kind = "probe",
                         !.dialog = IF kind = "rebuild" THEN "rangeFailed" ELSE @]
    BY <1>2 DEF SendNavigation
  <2>2. DOMAIN w = DOMAIN viewer
    OBVIOUS
  <2> HIDE DEF w
  <2>3. DOMAIN Detach(w) = DOMAIN viewer /\ Detach(w).mode = "detached"
    BY <2>2, DetachFacts
  <2>4. ~Linked'
    BY <2>1, <2>3 DEF Linked, Shapes
  <2> QED
    BY <2>4, NobodyWaits
<1> QED
  BY <1>1, <1>2

LEMMA KeysAwaited ==
    Shapes /\ Pipe /\ Awaited
      /\ (PressBookKey \/ BeginDeleteDialog \/ BeginPageRangeRebuildRequest)
        => Pipe' /\ Awaited'
<1> SUFFICES ASSUME Shapes, Pipe, Awaited,
                    PressBookKey \/ BeginDeleteDialog \/ BeginPageRangeRebuildRequest
             PROVE  Pipe' /\ Awaited'
  OBVIOUS
<1>0. /\ UNCHANGED <<answers, io, toLibrary, toViewer, server>> /\ viewer.mode = "library"
      /\ Consistent(viewer)
  BY DEF PressBookKey, BeginDeleteDialog, BeginPageRangeRebuildRequest, pipeVars, libraryVars,
         AtKeys, Awaited, Linked, Tracked
<1>1. CASE PressBookKey
  <2>1. PICK kind \in {"next", "prev"} : SendNavigation(kind, viewer)
    BY <1>1 DEF PressBookKey
  <2>2. ~viewer.rangeInFlight
    BY <1>0, <1>1 DEF PressBookKey, AtKeys, Consistent
  <2> QED
    BY <1>0, <2>1, <2>2, SendNavigationAwaited
<1>2. CASE BeginDeleteDialog
  <2> DEFINE v == [viewer EXCEPT !.dialog = "delete", !.asked = viewer.shown, !.offline = FALSE]
  <2>1. SendNavigation("probe", v) /\ viewer.dialog = "none"
    BY <1>2 DEF BeginDeleteDialog, AtKeys
  <2>2. /\ DOMAIN v = DOMAIN viewer /\ v.lastId = viewer.lastId /\ v.mode = viewer.mode
        /\ Waits(v) = Waits(viewer) /\ v.preview = viewer.preview /\ ~v.rangeInFlight
    BY <1>0, <2>1 DEF Shapes, Waits, Consistent
  <2> HIDE DEF v
  <2> QED
    BY <1>0, <2>1, <2>2, SendNavigationAwaited
<1>3. CASE BeginPageRangeRebuildRequest
  <2> DEFINE v == [viewer EXCEPT !.rangeInFlight = TRUE]
  <2>1. SendNavigation("rebuild", v) /\ viewer.dialog = "range"
    BY <1>3 DEF BeginPageRangeRebuildRequest
  <2>2. /\ DOMAIN v = DOMAIN viewer /\ v.lastId = viewer.lastId /\ v.mode = viewer.mode
        /\ Waits(v) = Waits(viewer) /\ v.preview = viewer.preview /\ v.dialog = "range"
    BY <1>0, <2>1 DEF Shapes, Waits
  <2> HIDE DEF v
  <2> QED
    BY <1>0, <2>1, <2>2, SendNavigationAwaited
<1> QED
  BY <1>1, <1>2, <1>3

LEMMA ApplyDeleteChoiceAwaited ==
    Shapes /\ Pipe /\ Awaited /\ ApplyDeleteChoice => Pipe' /\ Awaited'
<1> SUFFICES ASSUME Shapes, Pipe, Awaited, ApplyDeleteChoice PROVE Pipe' /\ Awaited'
  OBVIOUS
<1> DEFINE v == [viewer EXCEPT !.dialog = "none", !.asked = NoBook]
<1>0. UNCHANGED <<answers, io, toLibrary, toViewer, server>> /\ viewer.dialog = "delete"
  BY DEF ApplyDeleteChoice, pipeVars, libraryVars
<1>1. PICK choice \in {"delete", "deleteNext"} :
          \/ viewer' = v /\ UNCHANGED requests
          \/ viewer.mode = "library" /\ SendDeletion(choice, v)
  BY DEF ApplyDeleteChoice
<1>2. /\ DOMAIN v = DOMAIN viewer /\ v.lastId = viewer.lastId /\ v.mode = viewer.mode
      /\ v.dialog = "none" /\ v.action = viewer.action /\ v.preview = viewer.preview
      /\ v.rangeInFlight = viewer.rangeInFlight /\ v.spadPending = viewer.spadPending
      /\ Waits(v) = Waits(viewer)
  BY <1>0 DEF Shapes, Waits
<1> HIDE DEF v
<1>3. CASE ~Linked
  <2>1. ~Linked'
    BY <1>1, <1>2, <1>3 DEF Linked
  <2> QED
    BY <1>0, <2>1, NobodyWaits
<1>4. ASSUME Linked PROVE ~viewer.rangeInFlight /\ Consistent(viewer) /\ viewer.lastId \in Nat
  BY <1>0, <1>4 DEF Awaited, Tracked, Consistent, Shapes
<1>5. CASE viewer' = v /\ UNCHANGED requests /\ Linked
  <2>1. /\ Consistent(viewer') /\ Idle.id = 0 /\ Idle.kind # "gone"
        /\ \A f \in Fields : Shown(viewer', f) = Shown(viewer, f)
    BY <1>2, <1>4, <1>5 DEF Consistent, Shown, Idle
  <2> QED
    BY <1>0, <1>2, <1>4, <1>5, <2>1, Settled
<1>6. CASE viewer.mode = "library" /\ SendDeletion(choice, v) /\ CanSend
  <2> DEFINE id == v.lastId + 1
             m == Request(choice, id, v.shown, viewer.asked)
  <2>1. /\ requests' = Append(requests, m) /\ Linked
        /\ viewer' = [v EXCEPT !.lastId = id, !.action = [kind |-> choice, id |-> id]]
    BY <1>6 DEF SendDeletion, Linked
  <2>2. /\ viewer'.lastId = id /\ viewer'.mode = "library"
        /\ viewer'.action = [kind |-> choice, id |-> id] /\ viewer'.preview = viewer.preview
        /\ viewer'.rangeInFlight = v.rangeInFlight
        /\ viewer'.statePending = v.statePending /\ viewer'.favPending = v.favPending
        /\ viewer'.filterPending = v.filterPending /\ viewer'.spadPending = v.spadPending
    BY <1>2, <1>6, <2>1 DEF Shapes
  <2>3. \A f \in Fields \ {"action"} : Waits(viewer')[f] = Waits(v)[f]
    BY <1>2, <2>2 DEF Waits, Fields
  <2>4. Waits(viewer').action = id /\ \A f \in Fields : Shown(viewer', f) = Shown(viewer, f)
    BY <2>2 DEF Waits, Shown
  <2>5. m.id = id /\ m.kind = choice /\ choice \in Settles.action
        /\ choice \notin {"source", "probe"}
    BY DEF Request, Settles, Errands
  <2>6. Consistent(viewer') /\ "action" \in Fields /\ id \in Nat /\ id # 0
    BY <1>2, <1>4, <2>1, <2>2 DEF Consistent, Fields
  <2>7. viewer'.action.id = id
    BY <2>2
  <2> HIDE DEF m, id
  <2>8. id = viewer.lastId + 1
    BY <1>2 DEF id
  <2> QED
    BY <1>0, <1>2, <2>1, <2>2, <2>3, <2>4, <2>5, <2>6, <2>7, <2>8, AskedOne
<1>7. CASE SendDeletion(choice, v) /\ ~CanSend
  <2>1. viewer' = [Detach(v) EXCEPT !.offline = TRUE]
    BY <1>7 DEF SendDeletion
  <2>2. DOMAIN Detach(v) = DOMAIN viewer /\ Detach(v).mode = "detached"
    BY <1>2, DetachFacts
  <2>3. ~Linked'
    BY <2>1, <2>2 DEF Linked, Shapes
  <2> QED
    BY <1>0, <2>3, NobodyWaits
<1> QED
  BY <1>1, <1>3, <1>5, <1>6, <1>7

\* Dialogs that close or open, and a preview that goes.
LEMMA DialogsAwaited ==
    Shapes /\ Pipe /\ Awaited
      /\ (CancelDialog \/ BeginPageRangeDeleteDialog \/ MovePageOrToggleFullscreen)
        => Pipe' /\ Awaited'
<1> SUFFICES ASSUME Shapes, Pipe, Awaited,
                    CancelDialog \/ BeginPageRangeDeleteDialog \/ MovePageOrToggleFullscreen
             PROVE  Pipe' /\ Awaited'
  OBVIOUS
<1>0. UNCHANGED <<requests, answers, io, toLibrary, toViewer, server>>
  BY DEF CancelDialog, BeginPageRangeDeleteDialog, MovePageOrToggleFullscreen,
         pipeVars, libraryVars
<1>1. /\ viewer'.lastId = viewer.lastId /\ viewer'.mode = viewer.mode
      /\ viewer'.action = viewer.action
      /\ viewer'.spadPending = viewer.spadPending /\ viewer'.favPending = viewer.favPending
      /\ viewer'.statePending = viewer.statePending
      /\ viewer'.filterPending = viewer.filterPending
      /\ viewer'.preview = viewer.preview \/ viewer'.preview = NoPreview
  BY DEF Shapes, CancelDialog, BeginPageRangeDeleteDialog, MovePageOrToggleFullscreen
<1>2. CASE ~Linked
  <2>1. ~Linked'
    BY <1>1, <1>2 DEF Linked
  <2> QED
    BY <1>0, <2>1, NobodyWaits
<1>3. CASE Linked
  <2>1. Consistent(viewer) /\ viewer.lastId \in Nat
    BY <1>3 DEF Awaited, Tracked, Shapes
  <2>2. \/ ~viewer'.rangeInFlight
        \/ viewer'.rangeInFlight = viewer.rangeInFlight /\ viewer'.dialog = viewer.dialog
    BY DEF Shapes, CancelDialog, BeginPageRangeDeleteDialog, MovePageOrToggleFullscreen
  <2>3. Consistent(viewer') /\ viewer'.lastId = viewer.lastId
    BY <1>1, <2>1, <2>2 DEF Consistent
  <2>4. \A f \in Fields :
           \/ Waits(viewer')[f] = 0
           \/ Waits(viewer')[f] = Waits(viewer)[f] /\ Shown(viewer', f) = Shown(viewer, f)
    BY <1>1 DEF Fields, Waits, Shown, NoPreview
  <2>5. Idle.id = 0 /\ Idle.kind # "gone"
    BY DEF Idle
  <2> QED
    BY <1>0, <1>1, <1>3, <2>1, <2>3, <2>4, <2>5, Settled
<1> QED
  BY <1>2, <1>3

LEMMA SideRequestsAwaited ==
    Shapes /\ Pipe /\ Awaited
      /\ (RequestFavoriteToggle \/ RequestFilter \/ BeginBoundaryPreview)
        => Pipe' /\ Awaited'
<1> SUFFICES ASSUME Shapes, Pipe, Awaited,
                    RequestFavoriteToggle \/ RequestFilter \/ BeginBoundaryPreview
             PROVE  Pipe' /\ Awaited'
  OBVIOUS
<1>0. UNCHANGED <<answers, io, toLibrary, toViewer, server>> /\ Linked
  BY DEF RequestFavoriteToggle, RequestFilter, BeginBoundaryPreview, pipeVars, libraryVars,
         AtKeys, Linked
<1>1. Consistent(viewer) /\ viewer.lastId \in Nat
  BY <1>0 DEF Awaited, Tracked, Shapes
<1> DEFINE id == viewer.lastId + 1
<1>2. /\ viewer'.lastId = id /\ viewer'.mode = viewer.mode /\ viewer'.action = viewer.action
      /\ viewer'.spadPending = viewer.spadPending
      /\ viewer'.statePending = viewer.statePending
      /\ viewer'.rangeInFlight = viewer.rangeInFlight /\ viewer'.dialog = viewer.dialog
  BY DEF Shapes, RequestFavoriteToggle, RequestFilter, BeginBoundaryPreview
<1>3. Consistent(viewer')
  <2>1. DOMAIN viewer'.preview = DOMAIN NoPreview
    BY <1>1 DEF Shapes, RequestFavoriteToggle, RequestFilter, BeginBoundaryPreview, NoPreview,
                Consistent
  <2> QED
    BY <1>1, <1>2, <2>1 DEF Consistent
<1>4. id # 0 /\ id \in Nat /\ viewer.lastId <= id
  BY <1>1
<1>5. CASE RequestFavoriteToggle
  <2> DEFINE m == Request("favorite", id, viewer.shown, NoBook)
  <2>1. /\ requests' = Append(requests, m) /\ viewer'.favPending = id
        /\ viewer'.filterPending = viewer.filterPending /\ viewer'.preview = viewer.preview
    BY <1>5 DEF RequestFavoriteToggle, Shapes
  <2>2. /\ \A f \in Fields \ {"favorite"} : Waits(viewer')[f] = Waits(viewer)[f]
        /\ \A f \in Fields : Shown(viewer', f) = Shown(viewer, f)
        /\ Waits(viewer').favorite = id /\ "favorite" \in Fields
    BY <1>2, <2>1 DEF Fields, Waits, Shown
  <2>3. m.id = id /\ m.kind \in Settles.favorite /\ m.kind \notin {"source", "probe"}
    BY DEF Request, Settles
  <2> HIDE DEF m
  <2> QED
    BY <1>0, <1>2, <1>3, <1>4, <2>1, <2>2, <2>3, AskedOne
<1>6. CASE RequestFilter
  <2>1. PICK kind \in {"filter", "filterState"} :
          /\ requests' = Append(requests, Request(kind, id, NoBook, NoBook))
          /\ viewer' = [viewer EXCEPT !.lastId = id,
                 !.filterPending = IF kind = "filterState" THEN id ELSE @]
    BY <1>6 DEF RequestFilter
  <2> DEFINE m == Request(kind, id, NoBook, NoBook)
  <2>2. /\ viewer'.favPending = viewer.favPending /\ viewer'.preview = viewer.preview
        /\ viewer'.filterPending = IF kind = "filterState" THEN id ELSE viewer.filterPending
    BY <2>1 DEF Shapes
  <2>3. /\ \A f \in Fields \ {"filter"} : Waits(viewer')[f] = Waits(viewer)[f]
        /\ \A f \in Fields : Shown(viewer', f) = Shown(viewer, f)
        /\ Waits(viewer').filter = IF kind = "filterState" THEN id ELSE Waits(viewer).filter
        /\ "filter" \in Fields
    BY <1>2, <2>2 DEF Fields, Waits, Shown
  <2>4. /\ m.id = id /\ m.kind = kind /\ m.kind \notin {"source", "probe"}
        /\ kind = "filterState" => m.kind \in Settles.filter
    BY DEF Request, Settles
  <2>5. requests' = Append(requests, m)
    BY <2>1
  <2> HIDE DEF m
  <2> QED
    BY <1>0, <1>2, <1>3, <1>4, <2>3, <2>4, <2>5, AskedOne
<1>7. CASE BeginBoundaryPreview
  <2>1. PICK dir \in {"prev", "next"} :
          LET v == [viewer EXCEPT !.lastId = id]
          IN  IF CanSend
              THEN /\ viewer' = [v EXCEPT !.preview = [NoPreview EXCEPT !.dir = dir, !.id = id]]
                   /\ requests' = Append(requests, Request("preview", id, NoBook, NoBook))
              ELSE viewer' = [v EXCEPT !.preview = NoPreview] /\ UNCHANGED requests
    BY <1>7 DEF BeginBoundaryPreview
  <2>2. /\ viewer'.favPending = viewer.favPending
        /\ viewer'.filterPending = viewer.filterPending
    BY <2>1 DEF Shapes
  <2>3. \A f \in Fields \ {"preview"} : /\ Waits(viewer')[f] = Waits(viewer)[f]
                                        /\ Shown(viewer', f) = Shown(viewer, f)
    BY <1>2, <2>2 DEF Fields, Waits, Shown
  <2>4. CASE CanSend
    <3> DEFINE m == Request("preview", id, NoBook, NoBook)
    <3>1. requests' = Append(requests, m) /\ viewer'.preview.id = id
      BY <2>1, <2>4 DEF Shapes, NoPreview
    <3>2. /\ m.id = id /\ m.kind \in Settles.preview /\ m.kind \notin {"source", "probe"}
          /\ "preview" \in Fields /\ Waits(viewer').preview = id
      BY <3>1 DEF Request, Settles, Waits, Fields
    <3> HIDE DEF m
    <3> QED
      BY <1>0, <1>2, <1>3, <1>4, <2>3, <3>1, <3>2, AskedOne
  <2>5. CASE ~CanSend
    <3>1. UNCHANGED requests /\ viewer'.preview = NoPreview
      BY <2>1, <2>5 DEF Shapes
    <3>2. Waits(viewer').preview = 0 /\ Idle.id = 0 /\ Idle.kind # "gone"
      BY <3>1 DEF Waits, NoPreview, Idle
    <3>3. \A f \in Fields :
             \/ Waits(viewer')[f] = 0
             \/ Waits(viewer')[f] = Waits(viewer)[f] /\ Shown(viewer', f) = Shown(viewer, f)
      BY <2>3, <3>2
    <3> QED
      BY <1>0, <1>2, <1>3, <1>4, <3>1, <3>2, <3>3, Settled
  <2> QED
    BY <2>4, <2>5
<1> QED
  BY <1>5, <1>6, <1>7

LEMMA SendSourceChangedAwaited ==
    Shapes /\ Pipe /\ Awaited /\ SendSourceChanged => Pipe' /\ Awaited'
<1> SUFFICES ASSUME Shapes, Pipe, Awaited, SendSourceChanged PROVE Pipe' /\ Awaited'
  OBVIOUS
<1> DEFINE m == Request("source", 0, viewer.shown, NoBook)
           h == "state"
<1>1. /\ UNCHANGED <<viewer, answers, io, toLibrary, toViewer, server>> /\ Linked
      /\ requests' = Append(requests, m)
  BY DEF SendSourceChanged, pipeVars, libraryVars, Linked
<1>2. m.id = 0 /\ m.kind # "probe" /\ h \in Fields /\ Consistent(viewer')
  BY <1>1 DEF Request, Fields, Awaited, Tracked
<1> HIDE DEF m, h
<1>3. /\ viewer'.lastId = viewer.lastId /\ viewer'.action = viewer.action
      /\ \A f \in Fields : /\ Waits(viewer')[f] = Waits(viewer)[f]
                           /\ Shown(viewer', f) = Shown(viewer, f)
  BY <1>1
<1> QED
  BY <1>1, <1>2, <1>3, AskedOne
-----------------------------------------------------------------------------
(* The Viewer's window thread: answers *)

\* The last message of a session is waited for by no field.
LEMMA SessionSends ==
    ASSUME Shapes, NEW v, DOMAIN v = DOMAIN viewer, v.lastId = viewer.lastId
    PROVE  LET left == SessionRequest(v)
           IN  /\ DOMAIN left.v = DOMAIN viewer /\ left.v.mode = v.mode
               /\ left.v.statePending = v.statePending /\ left.v.favPending = v.favPending
               /\ left.v.filterPending = v.filterPending
               /\ left.v.rangeInFlight = v.rangeInFlight
               /\ left.v.lastId \in {viewer.lastId, viewer.lastId + 1}
               /\ Queue(left.q)
               /\ \A x \in ToSet(left.q) : /\ x.kind = "session" /\ x.id = viewer.lastId + 1
                                           /\ left.v.lastId = viewer.lastId + 1
<1> DEFINE m == Request("session", v.lastId + 1, v.shown, NoBook)
<1>1. m.kind = "session" /\ m.id = viewer.lastId + 1
  BY DEF Request
<1> HIDE DEF m
<1>2. Queue(<<m>>) /\ ToSet(<<m>>) = {m} /\ Queue(<<>>) /\ ToSet(<<>>) = {}
  BY QueueOne, QueueEmpty
<1>3. CASE v.mode = "library" /\ v.session = "open"
  <2>1. /\ SessionRequest(v).v = [v EXCEPT !.lastId = @ + 1, !.session = "sent"]
        /\ SessionRequest(v).q = IF CanSend THEN <<m>> ELSE <<>>
    BY <1>3 DEF SessionRequest, m
  <2> QED
    BY <1>1, <1>2, <2>1 DEF Shapes
<1>4. CASE ~(v.mode = "library" /\ v.session = "open")
  <2>1. SessionRequest(v).v = v /\ SessionRequest(v).q = <<>>
    BY <1>4 DEF SessionRequest
  <2> QED
    BY <1>2, <2>1 DEF Shapes
<1> QED
  BY <1>3, <1>4

\* reopen_to_path on the answer to the pending action: the other fields still wait.
LEMMA ReopenAwaited ==
    ASSUME Shapes, Pipe, Awaited, UNCHANGED <<io, toLibrary, toViewer, server>>,
           answers # <<>>, answers' = Tail(answers),
           NEW answer, answer = Head(answers), answer.kind # "gone",
           viewer.mode = "library", answer.id = viewer.action.id,
           NEW v, DOMAIN v = DOMAIN viewer, v.lastId = viewer.lastId, v.mode = "library",
           Waits(v) = Waits(viewer), ~v.rangeInFlight,
           NEW spad, Reopen(v, answer, spad)
    PROVE  Pipe' /\ Awaited'
<1> DEFINE left == SessionRequest(v)
           fresh == OpenedBook(left.v, answer.book, spad)
           id == fresh.lastId + 1
           m == Request("spad", id, NoBook, NoBook)
           asks1 == spad = NoSpad /\ fresh.mode = "library"
           more == IF asks1 /\ CanSend THEN <<m>> ELSE <<>>
           sent == ToSet(left.q) \cup ToSet(more)
           h == "spad"
           n0 == viewer.lastId
           n1 == viewer'.lastId
           w == Waits(viewer)
           x == Waits(viewer')
<1>0. /\ Tracked /\ Linked /\ n0 \in Nat
      /\ \A f \in Fields : w[f] \in 0 .. n0
  BY DEF Awaited, Linked, Tracked, Shapes
<1>1. /\ DOMAIN left.v = DOMAIN viewer /\ left.v.mode = "library"
      /\ left.v.statePending = v.statePending /\ left.v.favPending = v.favPending
      /\ left.v.filterPending = v.filterPending
      /\ ~left.v.rangeInFlight
      /\ left.v.lastId \in {n0, n0 + 1}
      /\ Queue(left.q)
      /\ \A r \in ToSet(left.q) : r.kind = "session" /\ r.id = n0 + 1 /\ left.v.lastId = n0 + 1
  BY SessionSends
<1>2. /\ requests' = (requests \o left.q) \o more
      /\ viewer' = [fresh EXCEPT !.lastId = IF asks1 THEN id ELSE @,
                                 !.spadPending = IF asks1 /\ CanSend THEN id ELSE 0,
                                 !.action = Idle]
  BY DEF Reopen
<1> HIDE DEF left
<1>3. /\ DOMAIN fresh = DOMAIN viewer /\ fresh.lastId = left.v.lastId
      /\ fresh.mode = "library" /\ ~fresh.rangeInFlight /\ fresh.preview = NoPreview
      /\ fresh.statePending = v.statePending /\ fresh.favPending = v.favPending
      /\ fresh.filterPending = v.filterPending
  BY <1>1 DEF OpenedBook, Shapes
<1> HIDE DEF fresh
<1>4. /\ n1 = IF asks1 THEN id ELSE fresh.lastId
      /\ viewer'.spadPending = IF asks1 /\ CanSend THEN id ELSE 0
      /\ viewer'.action = Idle /\ viewer'.mode = "library"
      /\ ~viewer'.rangeInFlight /\ viewer'.preview = NoPreview
      /\ viewer'.statePending = v.statePending /\ viewer'.favPending = v.favPending
      /\ viewer'.filterPending = v.filterPending
  BY <1>2, <1>3 DEF Shapes
<1>5. /\ m.id = id /\ m.kind = "spad"
      /\ Queue(more) /\ ToSet(more) = IF asks1 /\ CanSend THEN {m} ELSE {}
  BY QueueOne, QueueEmpty DEF Request
<1>6. x.action = 0 /\ x.preview = 0 /\ x.spad = (IF asks1 /\ CanSend THEN id ELSE 0)
  BY <1>4 DEF Waits, Idle, NoPreview
<1>7. /\ \A f \in {"state", "favorite", "filter"} : x[f] = w[f]
      /\ Fields = {"state", "favorite", "filter", "action", "preview", "spad"}
  BY <1>4 DEF Waits, Fields
<1>8. /\ Consistent(viewer')
      /\ \A f \in {"state", "favorite", "filter"} : ~Shown(viewer, f)
      /\ \A f \in {"state", "favorite", "filter"} : w[f] = w.action => w[f] = 0
      /\ w.action = answer.id
  BY <1>0, <1>4 DEF Consistent, Shown, Tracked, Distinct, Fields, Waits
<1> HIDE DEF m, more, asks1
<1>9. /\ id \in Nat /\ n0 \in Nat /\ n1 \in Nat /\ n0 <= n1
      /\ asks1 => id \in n0 + 1 .. n1
      /\ \A r \in ToSet(left.q) : r.id \in n0 + 1 .. n1 /\ (asks1 => r.id # id)
  BY <1>0, <1>1, <1>3, <1>4
<1>10. ToSet(requests') = ToSet(requests) \cup sent
  <2>1. /\ Queue(requests \o left.q)
        /\ ToSet(requests \o left.q) = ToSet(requests) \cup ToSet(left.q)
    BY <1>1, QueueConcat DEF Shapes
  <2> QED
    BY <1>2, <1>5, <2>1, QueueConcat
<1>11. /\ ToSet(answers') \subseteq ToSet(answers)
       /\ ToSet(answers) \subseteq {answer} \cup ToSet(answers')
  BY QueueHead DEF Shapes
<1>12. Pipe'
  BY <1>0, <1>11, PipeKept
<1> HIDE DEF w, x
<1>13. ASSUME NEW f \in Fields
       PROVE  \/ x[f] = 0
              \/ x[f] = w[f] /\ (Shown(viewer', f) \/ (w[f] # answer.id /\ ~Shown(viewer, f)))
              \/ f = h /\ x[f] \in n0 + 1 .. n1 /\ \E r \in sent : r.id = x[f]
  <2>1. CASE f \in {"state", "favorite", "filter"}
    BY <1>7, <1>8, <2>1
  <2>2. CASE f = "spad"
    BY <1>5, <1>6, <1>9, <2>2
  <2>3. CASE f \in {"action", "preview"}
    BY <1>6, <2>3
  <2> QED
    BY <1>7, <2>1, <2>2, <2>3
<1>14. ASSUME NEW r \in sent
       PROVE  /\ r.id \in n0 + 1 .. n1 /\ r.kind # "source" /\ r.kind # "probe"
              /\ r.id = x[h] => r.kind \in Settles[h]
  <2>1. CASE r \in ToSet(left.q)
    <3>1. r.kind = "session" /\ r.id \in n0 + 1 .. n1 /\ r.id # x[h]
      BY <1>1, <1>6, <1>9, <2>1
    <3> QED
      BY <3>1
  <2>2. CASE r \in ToSet(more)
    BY <1>5, <1>9, <2>2 DEF Settles
  <2> QED
    BY <2>1, <2>2
<1>15. h \in Fields /\ viewer'.action \in {viewer.action, Idle}
  BY <1>4, <1>7
<1> HIDE DEF sent, h, id, fresh
<1>16. \A f \in Fields :
          \/ Waits(viewer')[f] = 0
          \/ /\ Waits(viewer')[f] = Waits(viewer)[f]
             /\ Shown(viewer', f) \/ (Waits(viewer)[f] # answer.id /\ ~Shown(viewer, f))
          \/ /\ f = h /\ Waits(viewer')[f] \in viewer.lastId + 1 .. viewer'.lastId
             /\ \E r \in sent : r.id = Waits(viewer')[f]
  BY <1>13 DEF w, x
<1>17. \A r \in sent :
          \/ r.id = 0
          \/ /\ r.id \in viewer.lastId + 1 .. viewer'.lastId /\ r.kind # "source"
             /\ r.id = Waits(viewer')[h] => r.kind \in Settles[h]
             /\ r.kind = "probe" => viewer'.action.kind = "probe"
  BY <1>14 DEF x
<1>18. /\ viewer'.lastId \in Nat /\ viewer.lastId <= viewer'.lastId
       /\ Consistent(viewer') /\ Linked /\ Tracked
  BY <1>0, <1>8, <1>9
<1> HIDE DEF n0, n1
<1>19. Tracked'
  BY <1>10, <1>11, <1>15, <1>16, <1>17, <1>18, Turn, ZenonT(60)
<1> QED
  BY <1>12, <1>19 DEF Awaited

\* start closing: nobody waits any more.
LEMMA ClosingAwaited ==
    ASSUME Pipe, UNCHANGED <<io, toLibrary, toViewer, server>>, NEW v, StartClosing(v)
    PROVE  Pipe' /\ Awaited'
<1>1. viewer'.mode \in {"closing", "gone"}
  BY DEF StartClosing, Ended, ViewerStart
<1> QED
  BY <1>1, NobodyWaits DEF Linked

\* What may come under the id of a field that waits.
LEMMA AnswerFits ==
    ASSUME Tracked, NEW answer \in Answered, NEW f \in Fields,
           Waits(viewer)[f] = answer.id, answer.id # 0
    PROVE  /\ answer.kind \in Settles[f] \ Errands
           /\ \A g \in Fields : Waits(viewer)[g] = answer.id => g = f
           /\ f = "action" /\ answer.kind = "probe" => viewer.action.kind = "probe"
<1>1. answer \in Messages
  BY DEF Answered, Messages
<1>2. Fits(answer, viewer) /\ Distinct(viewer) /\ answer.kind \notin Errands
  BY <1>1 DEF Tracked
<1>3. f = "action" => viewer.action.id = answer.id
  BY DEF Waits
<1> QED
  BY <1>2, <1>3 DEF Fits, Distinct

\* The answers that can send the Viewer to another book, or end it.
LEMMA TurningAnswersAwaited ==
    ASSUME Shapes, Pipe, Awaited, UNCHANGED <<io, toLibrary, toViewer, server>>, Linked,
           answers # <<>>, answers' = Tail(answers),
           NEW answer, answer = Head(answers),
           \/ answer.kind = "deleted" /\ OnDeleted(answer)
           \/ answer.kind = "navigate" /\ OnNavigateTo(answer)
           \/ answer.kind = "noMore" /\ OnNoMoreBooks(answer)
    PROVE  Pipe' /\ Awaited'
<1>0. /\ Tracked /\ answer \in Answered /\ answer.kind # "gone" /\ Consistent(viewer)
      /\ viewer.lastId \in Nat
  BY QueueHead DEF Awaited, Answered, Shapes, Tracked
<1>1. ASSUME NEW f \in Fields, Waits(viewer)[f] = answer.id PROVE answer.id = 0 \/ f = "action"
  BY <1>0, <1>1, AnswerFits DEF Settles, Fields
<1>2. CASE ~IsCurrent(answer)
  <2>1. viewer' = viewer /\ UNCHANGED requests
    BY <1>2 DEF OnDeleted, OnNavigateTo, OnNoMoreBooks, Stay
  <2>2. Waits(viewer).action = viewer.action.id /\ "action" \in Fields
    BY DEF Waits, Fields
  <2>3. Waits(viewer).action = 0 \/ Waits(viewer).action # answer.id
    BY <1>0, <1>2, <2>2 DEF IsCurrent, Linked, Consistent, Idle
  <2>4. \A f \in Fields : Waits(viewer)[f] = 0 \/ Waits(viewer)[f] # answer.id
    BY <1>1, <2>3
  <2> QED
    BY <1>0, <2>1, <2>4, Settled
<1>3. CASE IsCurrent(answer)
  <2>1. viewer.mode = "library" /\ viewer.action.id = answer.id
    BY <1>3 DEF IsCurrent
  <2> DEFINE w == [viewer EXCEPT !.dialog = "none", !.rangeInFlight = FALSE,
                                 !.session = "dropped"]
             hood == [base |-> answer.base, prev |-> answer.prev, next |-> answer.next]
  <2>2. /\ DOMAIN w = DOMAIN viewer /\ w.lastId = viewer.lastId /\ w.mode = viewer.mode
        /\ Waits(w) = Waits(viewer) /\ ~w.rangeInFlight
    BY DEF Shapes, Waits
  <2>3. viewer.action.kind # "rebuild" => ~viewer.rangeInFlight
    BY <1>0 DEF Consistent
  <2>4. \/ viewer.action.kind = "deleteNext" /\ Reopen(viewer, answer, hood)
        \/ viewer.action.kind = "rebuild" /\ Reopen(w, answer, NoSpad)
        \/ viewer.action.kind # "rebuild" /\ Reopen(viewer, answer, NoSpad)
        \/ StartClosing(viewer) \/ StartClosing(w)
        \/ /\ viewer.action.kind # "rebuild"
           /\ Stay(ClearPendingLibraryAction(viewer))
    BY <1>3 DEF OnDeleted, OnNavigateTo, OnNoMoreBooks
  <2> HIDE DEF w, hood
  <2>5. CASE \/ viewer.action.kind = "deleteNext" /\ Reopen(viewer, answer, hood)
             \/ viewer.action.kind # "rebuild" /\ Reopen(viewer, answer, NoSpad)
    BY <1>0, <2>1, <2>3, <2>5, ReopenAwaited
  <2>6. CASE Reopen(w, answer, NoSpad)
    BY <1>0, <2>1, <2>2, <2>6, ReopenAwaited
  <2>7. CASE StartClosing(viewer) \/ StartClosing(w)
    BY <2>7, ClosingAwaited
  <2>8. CASE /\ viewer.action.kind # "rebuild"
             /\ Stay(ClearPendingLibraryAction(viewer))
    <3>1. /\ UNCHANGED requests /\ viewer'.lastId = viewer.lastId
          /\ viewer'.mode = viewer.mode /\ viewer'.action = Idle
          /\ viewer'.spadPending = viewer.spadPending /\ viewer'.preview = viewer.preview
          /\ viewer'.favPending = viewer.favPending
          /\ viewer'.statePending = viewer.statePending
          /\ viewer'.filterPending = viewer.filterPending
          /\ viewer'.rangeInFlight = viewer.rangeInFlight
      BY <2>8 DEF Stay, ClearPendingLibraryAction, Shapes
    <3>2. Consistent(viewer')
      BY <1>0, <2>1, <2>3, <2>8, <3>1 DEF Consistent
    <3>3. Waits(viewer').action = 0
      BY <3>1 DEF Waits, Idle
    <3>4. \A f \in Fields \ {"action"} : /\ Waits(viewer')[f] = Waits(viewer)[f]
                                         /\ Shown(viewer', f) = Shown(viewer, f)
      BY <3>1 DEF Waits, Fields, Shown
    <3>5. \A f \in Fields \ {"action"} : Waits(viewer)[f] = 0 \/ Waits(viewer)[f] # answer.id
      BY <1>1
    <3> QED
      BY <1>0, <3>1, <3>2, <3>3, <3>4, <3>5, Settled
  <2> QED
    BY <2>4, <2>5, <2>6, <2>7, <2>8
<1> QED
  BY <1>2, <1>3

\* The other answers settle one field or another.
LEMMA SettlingAnswersAwaited ==
    ASSUME Shapes, Pipe, Awaited, UNCHANGED <<io, toLibrary, toViewer, server>>, Linked,
           answers # <<>>, answers' = Tail(answers),
           NEW answer, answer = Head(answers), answer.kind # "gone",
           \/ answer.kind = "state" /\ OnViewerState(answer)
           \/ answer.kind = "error" /\ OnError(answer)
           \/ answer.kind = "favorite" /\ OnFavoriteToggled(answer)
           \/ answer.kind = "filterState" /\ OnFilterState(answer)
           \/ answer.kind = "probe" /\ OnProbeAnswered(answer)
           \/ answer.kind = "preview" /\ OnPreview(answer)
           \/ answer.kind = "spad" /\ OnSpad(answer)
           \/ /\ answer.kind \notin {"state", "deleted", "navigate", "noMore", "error",
                                     "favorite", "filterState", "probe", "preview", "spad"}
              /\ Stay(viewer)
    PROVE  Pipe' /\ Awaited'
<1> DEFINE Clears(v) == \A f \in Fields :
              \/ Waits(v)[f] = 0
              \/ /\ Waits(v)[f] = Waits(viewer)[f]
                 /\ Shown(v, f) \/ (Waits(viewer)[f] # answer.id /\ ~Shown(viewer, f))
           Goes(v) == /\ v.lastId = viewer.lastId /\ v.action \in {viewer.action, Idle}
                      /\ Consistent(v)
           at == Waits(viewer)
<1>0. /\ Tracked /\ answer \in Answered /\ Consistent(viewer)
      /\ viewer.lastId \in Nat
  BY QueueHead DEF Awaited, Answered, Shapes, Tracked
<1>1. ASSUME NEW v, Stay(v), Clears(v), Goes(v) PROVE Pipe' /\ Awaited'
  <2>1. viewer' = v /\ UNCHANGED requests
    BY <1>1 DEF Stay
  <2> QED
    BY <1>0, <1>1, <2>1, Settled
<1>2. /\ at.action = viewer.action.id /\ at.state = viewer.statePending
      /\ at.favorite = viewer.favPending /\ at.filter = viewer.filterPending
      /\ at.spad = viewer.spadPending /\ at.preview = viewer.preview.id
      /\ Fields = {"action", "state", "favorite", "filter", "spad", "preview"}
  BY DEF Waits, Fields
<1>3. ASSUME NEW f \in Fields, at[f] = answer.id, answer.id # 0
      PROVE  /\ answer.kind = "state" => f = "state"
             /\ answer.kind = "error" => f \in {"action", "favorite", "filter"}
             /\ answer.kind = "favorite" => f = "favorite"
             /\ answer.kind = "filterState" => f = "filter"
             /\ answer.kind = "probe" => f = "action" /\ viewer.action.kind = "probe"
             /\ answer.kind = "preview" => f = "preview"
             /\ answer.kind = "spad" => f = "spad"
             /\ answer.kind \in {"state", "deleted", "navigate", "noMore", "error",
                                 "favorite", "filterState", "probe", "preview", "spad"}
             /\ \A g \in Fields : at[g] = answer.id => g = f
  <2>1. /\ answer.kind \in Settles[f] \ Errands
        /\ \A g \in Fields : Waits(viewer)[g] = answer.id => g = f
        /\ f = "action" /\ answer.kind = "probe" => viewer.action.kind = "probe"
    BY <1>0, <1>3, AnswerFits
  <2> QED
    BY <2>1 DEF Fields, Settles
<1>4. ASSUME NEW v, v.preview = viewer.preview, NEW h \in Fields,
             \A f \in Fields \ {h} : Waits(v)[f] = at[f],
             Waits(v)[h] = 0 \/ (Waits(v)[h] = at[h] /\ at[h] # answer.id /\ ~Shown(viewer, h)),
             at[h] = answer.id \/ \A f \in Fields \ {h} : at[f] # answer.id \/ at[f] = 0
      PROVE  Clears(v)
  <2> SUFFICES ASSUME NEW f \in Fields \ {h}
               PROVE  \/ at[f] = 0
                      \/ Shown(v, f)
                      \/ at[f] # answer.id /\ ~Shown(viewer, f)
    BY <1>4
  <2>1. Shown(v, f) = Shown(viewer, f)
    BY <1>4 DEF Shown
  <2>2. at[f] = 0 \/ at[f] # answer.id
    BY <1>3, <1>4
  <2> QED
    BY <2>1, <2>2
<1>5. ASSUME \A f \in Fields : at[f] = 0 \/ at[f] # answer.id \/ Shown(viewer, f)
      PROVE  Clears(viewer)
  BY <1>5
<1>6. Goes(viewer)
  BY <1>0
<1> HIDE DEF Clears
<1>7. CASE answer.kind = "state" /\ OnViewerState(answer)
  <2> DEFINE v == [viewer EXCEPT !.statePending = 0, !.favOf = answer.book]
  <2>1. CASE viewer.statePending # answer.id
    BY <1>1, <1>2, <1>3, <1>5, <1>6, <1>7, <2>1 DEF OnViewerState
  <2>2. CASE viewer.statePending = answer.id
    <3>1. /\ v.preview = viewer.preview /\ v.mode = viewer.mode
          /\ \A f \in Fields \ {"state"} : Waits(v)[f] = at[f]
          /\ Waits(v).state = 0 /\ Goes(v) /\ DOMAIN v = DOMAIN viewer
      BY <1>0 DEF Shapes, Waits, Fields, Consistent
    <3>2. Stay(v) \/ Stay(Detach(v))
      BY <1>7, <2>2 DEF OnViewerState
    <3> HIDE DEF v
    <3>3. Clears(v)
      BY <1>2, <1>4, <2>2, <3>1
    <3>4. CASE Stay(Detach(v))
      BY <3>1, <3>4, DetachFacts, NobodyWaits DEF Stay, Linked
    <3> QED
      BY <1>1, <3>1, <3>2, <3>3, <3>4
  <2> QED
    BY <2>1, <2>2
<1>8. CASE answer.kind = "error" /\ OnError(answer)
  <2> DEFINE kind == viewer.action.kind
             p == [viewer EXCEPT !.preview = NoPreview]
             a == [viewer EXCEPT !.action = Idle,
                     !.rangeInFlight = IF kind = "rebuild" THEN FALSE ELSE @,
                     !.dialog = IF kind = "rebuild" THEN "rangeFailed" ELSE @,
                     !.offline = @ \/ kind \in {"probe", "delete", "deleteNext"}]
             c == RestoreFavorite(viewer)
             l == [viewer EXCEPT !.filterPending = 0]
  <2>1. CASE viewer.preview.id = answer.id
    <3>1. answer.id = 0
      BY <1>2, <1>3, <1>8, <2>1
    <3>2. /\ \A f \in Fields \ {"preview"} : Waits(p)[f] = at[f] /\ ~Shown(viewer, f)
          /\ Waits(p).preview = 0 /\ Goes(p)
      BY <1>0 DEF Shapes, Waits, Fields, Consistent, NoPreview, Shown
    <3>3. Stay(p)
      BY <1>8, <2>1 DEF OnError
    <3> HIDE DEF p
    <3>4. Clears(p)
      BY <1>2, <3>1, <3>2 DEF Clears
    <3> QED
      BY <1>1, <3>2, <3>3, <3>4
  <2>2. CASE viewer.preview.id # answer.id /\ IsCurrent(answer)
    <3>1. /\ a.preview = viewer.preview /\ a.lastId = viewer.lastId /\ a.action = Idle
          /\ a.mode = viewer.mode /\ a.spadPending = viewer.spadPending
          /\ a.rangeInFlight = (IF kind = "rebuild" THEN FALSE ELSE viewer.rangeInFlight)
          /\ a.statePending = viewer.statePending /\ a.favPending = viewer.favPending
          /\ a.filterPending = viewer.filterPending
      BY DEF Shapes
    <3>2. Stay(a)
      BY <1>8, <2>2 DEF OnError
    <3> HIDE DEF a
    <3>3. /\ \A f \in Fields \ {"action"} : Waits(a)[f] = at[f]
          /\ Waits(a).action = 0 /\ Goes(a) /\ at.action = answer.id /\ "action" \in Fields
      BY <1>0, <1>2, <2>2, <3>1 DEF Waits, Fields, Consistent, IsCurrent, Idle
    <3>4. Clears(a)
      BY <1>4, <3>1, <3>3
    <3> QED
      BY <1>1, <3>2, <3>3, <3>4
  <2>3. CASE viewer.preview.id # answer.id /\ ~IsCurrent(answer)
    <3>1. at.action = 0 \/ at.action # answer.id
      BY <1>0, <1>2, <2>3 DEF IsCurrent, Linked, Consistent, Idle
    <3>2. CASE viewer.favPending = answer.id
      <4>1. /\ c.preview = viewer.preview /\ Waits(c).favorite = 0 /\ Goes(c)
            /\ \A f \in Fields \ {"favorite"} : Waits(c)[f] = at[f]
        BY <1>0 DEF RestoreFavorite, Shapes, Waits, Fields, Consistent
      <4>2. Stay(c)
        BY <1>8, <2>3, <3>2 DEF OnError
      <4> HIDE DEF c
      <4>3. Clears(c)
        BY <1>2, <1>4, <3>2, <4>1
      <4> QED
        BY <1>1, <4>1, <4>2, <4>3
    <3>3. CASE viewer.favPending # answer.id /\ viewer.filterPending = answer.id
      <4>1. /\ l.preview = viewer.preview /\ Waits(l).filter = 0 /\ Goes(l)
            /\ \A f \in Fields \ {"filter"} : Waits(l)[f] = at[f]
        BY <1>0 DEF Shapes, Waits, Fields, Consistent
      <4>2. Stay(l)
        BY <1>8, <2>3, <3>3 DEF OnError
      <4> HIDE DEF l
      <4>3. Clears(l)
        BY <1>2, <1>4, <3>3, <4>1
      <4> QED
        BY <1>1, <4>1, <4>2, <4>3
    <3>4. CASE viewer.favPending # answer.id /\ viewer.filterPending # answer.id
      <4>1. \A f \in Fields : at[f] = 0 \/ at[f] # answer.id
        BY <1>2, <1>3, <1>8, <3>1, <3>4
      <4>2. Stay(viewer)
        BY <1>8, <2>3, <3>4 DEF OnError
      <4> QED
        BY <1>1, <1>5, <1>6, <4>1, <4>2
    <3> QED
      BY <3>2, <3>3, <3>4
  <2> QED
    BY <2>1, <2>2, <2>3
<1>9. CASE answer.kind = "favorite" /\ OnFavoriteToggled(answer)
  <2> DEFINE v == [viewer EXCEPT !.favPending = 0, !.favOf = answer.book, !.favBefore = NoBook]
  <2>1. CASE viewer.favPending # answer.id
    BY <1>1, <1>2, <1>3, <1>5, <1>6, <1>9, <2>1 DEF OnFavoriteToggled
  <2>2. CASE viewer.favPending = answer.id
    <3>1. /\ v.preview = viewer.preview /\ Waits(v).favorite = 0 /\ Goes(v)
          /\ \A f \in Fields \ {"favorite"} : Waits(v)[f] = at[f]
      BY <1>0 DEF Shapes, Waits, Fields, Consistent
    <3>2. Stay(v)
      BY <1>9, <2>2 DEF OnFavoriteToggled
    <3> HIDE DEF v
    <3>3. Clears(v)
      BY <1>2, <1>4, <2>2, <3>1
    <3> QED
      BY <1>1, <3>1, <3>2, <3>3
  <2> QED
    BY <2>1, <2>2
<1>10. CASE answer.kind = "filterState" /\ OnFilterState(answer)
  <2> DEFINE v == [viewer EXCEPT !.filterPending = 0]
  <2>1. CASE viewer.filterPending # answer.id
    BY <1>1, <1>2, <1>3, <1>5, <1>6, <1>10, <2>1 DEF OnFilterState
  <2>2. CASE viewer.filterPending = answer.id
    <3>1. /\ v.preview = viewer.preview /\ Waits(v).filter = 0 /\ Goes(v)
          /\ \A f \in Fields \ {"filter"} : Waits(v)[f] = at[f]
      BY <1>0 DEF Shapes, Waits, Fields, Consistent
    <3>2. Stay(v)
      BY <1>10, <2>2 DEF OnFilterState
    <3> HIDE DEF v
    <3>3. Clears(v)
      BY <1>2, <1>4, <2>2, <3>1
    <3> QED
      BY <1>1, <3>1, <3>2, <3>3
  <2> QED
    BY <2>1, <2>2
<1>11. CASE answer.kind = "probe" /\ OnProbeAnswered(answer)
  <2> DEFINE v == [viewer EXCEPT !.offline = FALSE, !.action = Idle]
  <2>1. CASE IsCurrent(answer) /\ viewer.action.kind = "probe"
    <3>1. /\ v.preview = viewer.preview /\ Waits(v).action = 0 /\ Goes(v)
          /\ \A f \in Fields \ {"action"} : Waits(v)[f] = at[f]
      BY <1>0, <2>1 DEF Shapes, Waits, Fields, Consistent, Idle
    <3>2. Stay(v) /\ at.action = answer.id
      BY <1>2, <1>11, <2>1 DEF OnProbeAnswered, IsCurrent
    <3> HIDE DEF v
    <3>3. Clears(v)
      BY <1>2, <1>4, <3>1, <3>2
    <3> QED
      BY <1>1, <3>1, <3>2, <3>3
  <2>2. CASE ~(IsCurrent(answer) /\ viewer.action.kind = "probe")
    <3>1. \A f \in Fields : at[f] = 0 \/ at[f] # answer.id
      BY <1>0, <1>2, <1>3, <1>11, <2>2 DEF IsCurrent, Linked, Consistent, Idle
    <3>2. Stay(viewer)
      BY <1>11, <2>2 DEF OnProbeAnswered
    <3> QED
      BY <1>1, <1>5, <1>6, <3>1, <3>2
  <2> QED
    BY <2>1, <2>2
<1>12. CASE answer.kind = "preview" /\ OnPreview(answer)
  <2> DEFINE p == [viewer EXCEPT !.preview = NoPreview]
             b == [viewer EXCEPT !.preview.book = answer[viewer.preview.dir]]
  <2>1. CASE viewer.preview.id # answer.id \/ viewer.preview.book # NoBook
    <3>1. \A f \in Fields : at[f] = 0 \/ at[f] # answer.id \/ Shown(viewer, f)
      BY <1>2, <1>3, <1>12, <2>1 DEF Shown
    <3>2. Stay(viewer)
      BY <1>12, <2>1 DEF OnPreview
    <3> QED
      BY <1>1, <1>5, <1>6, <3>1, <3>2
  <2>2. CASE viewer.preview.id = answer.id /\ viewer.preview.book = NoBook
    <3>1. /\ \A f \in Fields \ {"preview"} : Waits(p)[f] = at[f] /\ ~Shown(viewer, f)
          /\ Waits(p).preview = 0 /\ Goes(p)
      BY <1>0 DEF Shapes, Waits, Fields, Consistent, NoPreview, Shown
    <3>2. /\ \A f \in Fields \ {"preview"} : Waits(b)[f] = at[f]
          /\ Goes(b)
      BY <1>0 DEF Shapes, Waits, Fields, Consistent
    <3>3. \A f \in Fields \ {"preview"} : at[f] = 0 \/ at[f] # answer.id
      BY <1>3, <1>12
    <3>4. Stay(p) \/ (Stay(b) /\ answer[viewer.preview.dir] # NoBook)
      BY <1>12, <2>2 DEF OnPreview
    <3>5. CASE Stay(p)
      <4> HIDE DEF p
      <4>1. Clears(p)
        BY <1>2, <3>1, <3>3 DEF Clears
      <4> QED
        BY <1>1, <3>1, <3>5, <4>1
    <3>6. CASE Stay(b) /\ answer[viewer.preview.dir] # NoBook
      <4>1. Waits(b).preview = at.preview /\ Shown(b, "preview")
        BY <1>0, <3>6 DEF Shapes, Waits, Shown, Consistent, NoPreview
      <4> HIDE DEF b
      <4>2. Clears(b)
        BY <1>2, <3>1, <3>2, <3>3, <4>1 DEF Clears
      <4> QED
        BY <1>1, <3>2, <3>6, <4>2
    <3> QED
      BY <3>4, <3>5, <3>6
  <2> QED
    BY <2>1, <2>2
<1>13. CASE answer.kind = "spad" /\ OnSpad(answer)
  <2> DEFINE v == [viewer EXCEPT !.spadPending = 0,
                     !.spad = [base |-> answer.base, prev |-> answer.prev, next |-> answer.next]]
  <2>1. CASE viewer.mode = "library" /\ viewer.spadPending = answer.id
    <3>1. /\ v.preview = viewer.preview /\ Waits(v).spad = 0 /\ Goes(v)
          /\ \A f \in Fields \ {"spad"} : Waits(v)[f] = at[f]
      BY <1>0 DEF Shapes, Waits, Fields, Consistent
    <3>2. Stay(v)
      BY <1>13, <2>1 DEF OnSpad
    <3> HIDE DEF v
    <3>3. Clears(v)
      BY <1>2, <1>4, <2>1, <3>1
    <3> QED
      BY <1>1, <3>1, <3>2, <3>3
  <2>2. CASE ~(viewer.mode = "library" /\ viewer.spadPending = answer.id)
    <3>1. \A f \in Fields : at[f] = 0 \/ at[f] # answer.id
      BY <1>0, <1>2, <1>3, <1>13, <2>2 DEF Linked, Consistent
    <3>2. Stay(viewer)
      BY <1>13, <2>2 DEF OnSpad
    <3> QED
      BY <1>1, <1>5, <1>6, <3>1, <3>2
  <2> QED
    BY <2>1, <2>2
<1>14. CASE /\ answer.kind \notin {"state", "deleted", "navigate", "noMore", "error",
                                   "favorite", "filterState", "probe", "preview", "spad"}
            /\ Stay(viewer)
  <2>1. \A f \in Fields : at[f] = 0 \/ at[f] # answer.id
    BY <1>3, <1>14
  <2> QED
    BY <1>1, <1>5, <1>6, <1>14, <2>1
<1> QED
  BY <1>7, <1>8, <1>9, <1>10, <1>11, <1>12, <1>13, <1>14

LEMMA PollLibraryIpcAwaited ==
    Shapes /\ Pipe /\ Awaited /\ PollLibraryIpc => Pipe' /\ Awaited'
<1> SUFFICES ASSUME Shapes, Pipe, Awaited, PollLibraryIpc PROVE Pipe' /\ Awaited'
  OBVIOUS
<1> DEFINE answer == Head(answers)
<1>1. /\ UNCHANGED <<io, toLibrary, toViewer, server>> /\ Linked
      /\ answers # <<>> /\ answers' = Tail(answers)
  BY DEF PollLibraryIpc, pipeVars, libraryVars, Linked
<1>2. \/ answer.kind = "deleted" /\ OnDeleted(answer)
      \/ answer.kind = "navigate" /\ OnNavigateTo(answer)
      \/ answer.kind = "noMore" /\ OnNoMoreBooks(answer)
      \/ answer.kind = "state" /\ OnViewerState(answer)
      \/ answer.kind = "error" /\ OnError(answer)
      \/ answer.kind = "favorite" /\ OnFavoriteToggled(answer)
      \/ answer.kind = "filterState" /\ OnFilterState(answer)
      \/ answer.kind = "probe" /\ OnProbeAnswered(answer)
      \/ answer.kind = "preview" /\ OnPreview(answer)
      \/ answer.kind = "spad" /\ OnSpad(answer)
      \/ answer.kind = "gone" /\ OnDisconnected
      \/ /\ answer.kind \notin {"state", "deleted", "navigate", "noMore", "error",
                                "favorite", "filterState", "probe", "preview", "spad", "gone"}
         /\ Stay(viewer)
  BY DEF PollLibraryIpc
<1>3. CASE answer.kind = "gone" /\ OnDisconnected
  <2> DEFINE v == RestoreFavorite(viewer)
  <2>1. DOMAIN v = DOMAIN viewer
    BY DEF RestoreFavorite, Shapes
  <2>2. viewer' = [Detach(v) EXCEPT !.dialog = IF viewer.rangeInFlight THEN "rangeFailed" ELSE @]
    BY <1>3 DEF OnDisconnected, Stay
  <2> HIDE DEF v
  <2>3. DOMAIN Detach(v) = DOMAIN viewer /\ Detach(v).mode = "detached"
    BY <2>1, DetachFacts
  <2>4. viewer'.mode = "detached"
    BY <2>2, <2>3 DEF Shapes
  <2> QED
    BY <1>1, <2>4, NobodyWaits DEF Linked
<1>4. CASE answer.kind # "gone"
  BY <1>1, <1>2, <1>4, TurningAnswersAwaited, SettlingAnswersAwaited
<1> QED
  BY <1>2, <1>3, <1>4

LEMMA EndingAwaited ==
    Shapes /\ Pipe /\ Awaited /\ (AwaitSessionAck \/ ViewerExits \/ CloseViewer)
        => Pipe' /\ Awaited'
<1> SUFFICES ASSUME Shapes, Pipe, Awaited, AwaitSessionAck \/ ViewerExits \/ CloseViewer
             PROVE  Pipe' /\ Awaited'
  OBVIOUS
<1>1. CASE AwaitSessionAck
  <2>1. /\ UNCHANGED <<io, toLibrary, toViewer, server>>
        /\ viewer'.mode \in {"closing", "gone"}
    BY <1>1 DEF AwaitSessionAck, pipeVars, libraryVars, Shapes
  <2> QED
    BY <2>1, NobodyWaits DEF Linked
<1>2. CASE ViewerExits
  <2>1. /\ UNCHANGED <<toLibrary, toViewer, server>> /\ io' = "dead" /\ ~Linked'
    BY <1>2 DEF ViewerExits, libraryVars, Linked
  <2> QED
    BY <2>1 DEF Pipe, Awaited
<1>3. CASE CloseViewer
  BY <1>3, ClosingAwaited DEF CloseViewer, pipeVars, libraryVars
<1> QED
  BY <1>1, <1>2, <1>3

LEMMA NextAwaited == Shapes /\ Pipe /\ Awaited /\ [Next]_vars => Pipe' /\ Awaited'
<1> SUFFICES ASSUME Shapes, Pipe, Awaited, [Next]_vars PROVE Pipe' /\ Awaited'
  OBVIOUS
<1>1. CASE UserAction
  BY <1>1, KeysAwaited, ApplyDeleteChoiceAwaited, DialogsAwaited, SideRequestsAwaited,
     SendSourceChangedAwaited, EndingAwaited DEF UserAction
<1>2. CASE UNCHANGED vars
  <2>1. UNCHANGED <<viewer, requests, answers, io, toLibrary, toViewer, server>>
    BY <1>2 DEF vars
  <2>2. Pipe'
    BY <2>1, PipeKept DEF Linked
  <2>3. Messages' = Messages /\ Answered' = Answered /\ Held' = Held
    BY <2>1 DEF Messages, Answered, Held, ToAnswer
  <2>4. (Losing => Losing') /\ \A m : Follows(m, m)
    BY <2>1 DEF Losing, Follows
  <2> QED
    BY <2>1, <2>2, <2>3, <2>4, Passed
<1> QED
  BY <1>1, <1>2, IoAwaited, ServeAwaited, ServeWindowAnswerAwaited, ServerEndsAwaited,
     LibraryAwaited, PollLibraryIpcAwaited, EndingAwaited DEF Next

LEMMA AwaitedSuffices == Shapes /\ Pipe /\ Awaited => AwaitedIsOnTheWay
<1> SUFFICES ASSUME Shapes, Pipe, Awaited, Linked PROVE AwaitedIsOnTheWay
  BY DEF AwaitedIsOnTheWay, Linked
<1>1. Tracked
  BY DEF Awaited
<1>2. Losing => LossReported
  BY DEF Losing, LossReported, Answered
<1>3. \A id : Coming(id) => OnTheWay(id)
  BY <1>2 DEF Coming, OnTheWay, Held
<1>4. ASSUME NEW f \in Fields PROVE Shown(viewer, f) \/ OnTheWay(Waits(viewer)[f])
  BY <1>1, <1>3 DEF Tracked
<1>5. /\ OnTheWay(viewer.action.id) /\ OnTheWay(viewer.statePending)
      /\ OnTheWay(viewer.favPending) /\ OnTheWay(viewer.filterPending)
      /\ OnTheWay(viewer.spadPending)
  BY <1>4 DEF Fields, Waits, Shown
<1>6. viewer.preview.book = NoBook => OnTheWay(viewer.preview.id)
  BY <1>4 DEF Fields, Waits, Shown
<1>7. viewer.rangeInFlight => viewer.action.kind = "rebuild"
  BY <1>1 DEF Tracked, Consistent
<1> QED
  BY <1>5, <1>6, <1>7 DEF AwaitedIsOnTheWay
-----------------------------------------------------------------------------

(***************************************************************************)
(* Whatever a Viewer waits for is on its way: for each of its pending      *)
(* fields, which poll_library_ipc alone clears, the request or its answer  *)
(* is in a queue or being served, or the loss of the pipe is going to be   *)
(* told, whatever ends or is drained in between.                           *)
(***************************************************************************)
THEOREM AwaitedCorrect == Spec => []AwaitedIsOnTheWay
<1>1. Inv => Shapes
  BY DEF Inv
<1> QED
  BY <1>1, InitAwaited, NextAwaited, AwaitedSuffices, Invariant, PTL DEF Spec
-----------------------------------------------------------------------------
(***************************************************************************)
(* The Library's selection follows the Viewer.  The last event that moves  *)
(* it names the Viewer's book, and with none left the selection does, or   *)
(* the book is off the list for good (Follow).  A rebuild breaks this from *)
(* the window thread's word until its answer is polled (Astray): of what   *)
(* bears its id then, nothing but that word and "no more books" is left,   *)
(* for a rebuild is asked for once at a time (Single) and by the dialog    *)
(* that waits for it (Asked).                                              *)
(***************************************************************************)

Moves(e) == e.kind = "navigated" \/ (e.kind = "deleted" /\ e.next # NoBook)
Target(e) == IF e.kind = "deleted" THEN e.next ELSE e.book

Follow ==
    \/ server.current \notin library.known \cup ToSet(library.list)
    \/ /\ \A i \in DOMAIN events : ~Moves(events[i])
       /\ library.selected \in {server.current, NoBook}
    \/ \E i \in DOMAIN events :
          /\ Moves(events[i]) /\ Target(events[i]) = server.current
          /\ \A j \in DOMAIN events : Moves(events[j]) => j <= i

\* The rebuild is done, and its answer will end the Viewer or has moved it.
Astray ==
    /\ viewer.rangeInFlight
    /\ \A m \in Held : m.id = viewer.action.id =>
          \/ m.kind = "noMore"
          \/ /\ m = server.request /\ server.state = "waitWindow"
             /\ m.kind = "rebuild" /\ server.word = "ok"

Rebuilds(m) == m.kind = "rebuild"
Asked == \A m \in ToAnswer : Rebuilds(m) => viewer.rangeInFlight /\ m.id = viewer.action.id

\* Of the stations of a request, those after the Viewer's own queue and before its answers.
Served == ToSet(toLibrary) \cup {server.request} \cup ToSet(toViewer)
Once(s, id) == \A i, j \in DOMAIN s : s[i].id = id /\ s[j].id = id => i = j
Alone(id) ==
    /\ id # 0 /\ Once(requests, id)
    /\ \A m \in ToSet(requests), n \in Served \cup ToSet(answers) : m.id = id => n.id # id
    /\ \A m \in Served, n \in ToSet(answers) : m.id = id => n.id # id
Single == viewer.rangeInFlight => Alone(viewer.action.id)

\* What the window thread is asked for comes last of the events, and once.
AsksWindow ==
    /\ server.state = "serve" => server.word = "none"
    /\ server.state # "dead" =>
        \A i \in DOMAIN events : events[i].kind \in AskedOfWindow =>
            /\ i = Len(events) /\ server.state = "waitWindow"
            /\ server.word = "none" /\ server.request.kind = events[i].kind

Distinctly(list) == list \in Seq(ToSet(list)) /\ NoBook \notin ToSet(list) /\ IsInjective(list)

Library ==
    /\ DOMAIN library = {"list", "known", "selected", "nav"} /\ Distinctly(library.list)
    /\ Queue(events)

\* While the window listens, the I/O thread ends only after the Library's.
Ends == Linked /\ io = "dead" => server.state = "dead"

Wanted == viewer.mode = "library" => Asked /\ Single
Following == viewer.mode = "library" /\ server.state # "dead" => Follow \/ Astray

Sync == Library /\ AsksWindow /\ Ends /\ Wanted /\ Following

-----------------------------------------------------------------------------
(* The list and the events *)

LEMMA RemoveFacts ==
    ASSUME NEW list, Distinctly(list), NEW book
    PROVE  /\ Distinctly(Without(list, book))
           /\ ToSet(Without(list, book)) = ToSet(list) \ {book}
           /\ Place(list, book) = 0 <=> book \notin ToSet(list)
<1> DEFINE at == Place(list, book)
           S == ToSet(list)
<1>1. list \in Seq(S) /\ NoBook \notin S /\ \A i, j \in DOMAIN list : list[i] = list[j] => i = j
  BY DEF Distinctly, IsInjective
<1>2. /\ Len(list) \in Nat /\ DOMAIN list = 1 .. Len(list)
      /\ S = {list[i] : i \in DOMAIN list}
  BY <1>1 DEF ToSet
<1>3. CASE book \notin S
  <2>1. ~Contains(list, book)
    BY <1>2, <1>3 DEF Contains
  <2> QED
    BY <1>3, <2>1 DEF Without, Place
<1>4. CASE book \in S
  <2>1. Contains(list, book)
    BY <1>2, <1>4 DEF Contains
  <2>2. at \in DOMAIN list /\ list[at] = book
    BY <1>2, <1>4, <2>1 DEF Place
  <2> HIDE DEF at
  <2> DEFINE n == Len(list)
             before == SubSeq(list, 1, at - 1)
             after == SubSeq(list, at + 1, n)
             left == before \o after
  <2>3. at # 0 /\ Without(list, book) = left
    <3>1. at # 0 /\ n = Len(list)
      BY <1>2, <2>2
    <3>2. Without(list, book) = RemoveAt(list, at)
      BY <3>1 DEF Without, at
    <3> QED
      BY <3>1, <3>2 DEF RemoveAt
  <2>4. /\ left \in Seq(S) /\ Len(left) = n - 1
        /\ \A i \in 1 .. n - 1 : left[i] = IF i < at THEN list[i] ELSE list[i + 1]
    <3>0. n \in Nat /\ at \in 1 .. n /\ \A i \in 1 .. n : list[i] \in S
      BY <1>2, <2>2
    <3> HIDE DEF n, S
    <3>1. before \in Seq(S) /\ Len(before) = at - 1 /\ \A i \in 1 .. at - 1 : before[i] = list[i]
      <4>1. \A i \in 1 .. at - 1 : list[i] \in S
        BY <3>0
      <4>2. /\ before \in Seq(S) /\ Len(before) = IF 1 <= at - 1 THEN at - 1 - 1 + 1 ELSE 0
            /\ \A i \in 1 .. at - 1 - 1 + 1 : before[i] = list[1 + i - 1]
        BY <3>0, <4>1, SubSeqProperties
      <4>3. \A i \in 1 .. at - 1 : 1 + i - 1 = i
        BY <3>0
      <4> HIDE DEF before
      <4> QED
        BY <3>0, <4>2, <4>3
    <3>2. after \in Seq(S) /\ Len(after) = n - at /\ \A i \in 1 .. n - at : after[i] = list[i + at]
      <4>1. \A i \in at + 1 .. n : list[i] \in S
        BY <3>0
      <4>2. /\ after \in Seq(S) /\ Len(after) = IF at + 1 <= n THEN n - (at + 1) + 1 ELSE 0
            /\ \A i \in 1 .. n - (at + 1) + 1 : after[i] = list[at + 1 + i - 1]
        BY <3>0, <4>1, SubSeqProperties
      <4>3. \A i \in 1 .. n - at : at + 1 + i - 1 = i + at
        BY <3>0
      <4> HIDE DEF after
      <4> QED
        BY <3>0, <4>2, <4>3
    <3> HIDE DEF before, after
    <3>3. left \in Seq(S) /\ Len(left) = Len(before) + Len(after)
      BY <3>1, <3>2
    <3>4. \A i \in 1 .. n - 1 : left[i] = IF i < at THEN before[i] ELSE after[i - (at - 1)]
      BY <3>0, <3>1, <3>2
    <3>5. ASSUME NEW i \in 1 .. n - 1
          PROVE  left[i] = IF i < at THEN list[i] ELSE list[i + 1]
      <4>1. CASE i < at
        <5>1. i \in 1 .. at - 1
          BY <3>0, <4>1
        <5> QED
          BY <3>1, <3>4, <4>1, <5>1
      <4>2. CASE ~(i < at)
        <5>1. i - (at - 1) \in 1 .. n - at /\ i - (at - 1) + at = i + 1
          BY <3>0, <4>2
        <5>2. left[i] = after[i - (at - 1)]
          BY <3>4, <4>2
        <5> HIDE DEF left
        <5> QED
          BY <3>2, <4>2, <5>1, <5>2
      <4> QED
        BY <4>1, <4>2
    <3> QED
      BY <3>0, <3>1, <3>2, <3>3, <3>5
  <2> HIDE DEF left
  <2>5. DOMAIN left = 1 .. Len(list) - 1 /\ ToSet(left) = {left[i] : i \in DOMAIN left}
    BY <1>2, <2>4 DEF ToSet
  <2>6. ToSet(left) = S \ {book}
    <3>1. ASSUME NEW x \in ToSet(left) PROVE x \in S /\ x # book
      <4>1. PICK i \in DOMAIN left : left[i] = x
        BY <2>5, <3>1
      <4>2. CASE i < at
        <5>1. i \in DOMAIN list /\ i # at /\ list[i] = x
          BY <1>2, <2>2, <2>4, <2>5, <4>1, <4>2
        <5> QED
          BY <1>1, <1>2, <2>2, <5>1
      <4>3. CASE ~(i < at)
        <5>1. i + 1 \in DOMAIN list /\ i + 1 # at /\ list[i + 1] = x
          BY <1>2, <2>2, <2>4, <2>5, <4>1, <4>3
        <5> QED
          BY <1>1, <1>2, <2>2, <5>1
      <4> QED
        BY <4>2, <4>3
    <3>2. ASSUME NEW x \in S, x # book PROVE x \in ToSet(left)
      <4>1. PICK i \in DOMAIN list : list[i] = x
        BY <1>2, <3>2
      <4>2. CASE i < at
        BY <1>2, <2>2, <2>4, <2>5, <4>1, <4>2
      <4>3. CASE i > at
        <5>1. i - 1 \in DOMAIN left /\ left[i - 1] = list[i - 1 + 1]
          BY <1>2, <2>2, <2>4, <2>5, <4>1, <4>3
        <5> QED
          BY <1>2, <2>5, <4>1, <5>1
      <4> QED
        BY <1>2, <2>2, <3>2, <4>1, <4>2, <4>3
    <3> QED
      BY <3>1, <3>2
  <2>7. ASSUME NEW i \in DOMAIN left, NEW j \in DOMAIN left, left[i] = left[j] PROVE i = j
    <3>1. PICK p \in DOMAIN list : left[i] = list[p] /\ p = IF i < at THEN i ELSE i + 1
      BY <1>2, <2>2, <2>4, <2>5
    <3>2. PICK q \in DOMAIN list : left[j] = list[q] /\ q = IF j < at THEN j ELSE j + 1
      BY <1>2, <2>2, <2>4, <2>5
    <3>3. p = q
      BY <1>1, <2>7, <3>1, <3>2
    <3> QED
      BY <1>2, <2>2, <2>5, <3>1, <3>2, <3>3
  <2>8. left \in Seq(ToSet(left))
    BY <2>4, <2>5
  <2> QED
    BY <1>1, <1>4, <2>3, <2>6, <2>7, <2>8 DEF Distinctly, IsInjective, at
<1> QED
  BY <1>3, <1>4

LEMMA ForgetFacts ==
    ASSUME Library, NEW book
    PROVE  LET l == Forget(library, book)
           IN  /\ DOMAIN l = DOMAIN library /\ Distinctly(l.list)
               /\ l.known = library.known \ {book} /\ ToSet(l.list) = ToSet(library.list) \ {book}
               /\ library.selected # book \/ book = NoBook => l.selected = library.selected
BY RemoveFacts DEF Library, Forget, AfterRemoval, Distinctly

LEMMA SelectFacts ==
    ASSUME NEW l, DOMAIN l = {"list", "known", "selected", "nav"}, NEW book
    PROVE  /\ DOMAIN Select(l, book) = {"list", "known", "selected", "nav"}
           /\ Select(l, book).list = l.list /\ Select(l, book).known = l.known
           /\ Select(l, book).selected \in {book, NoBook}
BY DEF Select

\* The first event is drained: it moved the selection to the Viewer's book, or not.
LEMMA Drained ==
    ASSUME Library, Follow, events # <<>>, events' = Tail(events),
           server'.current = server.current,
           library'.known \cup ToSet(library'.list)
              \subseteq library.known \cup ToSet(library.list),
           LET e == Head(events)
           IN  IF Moves(e) THEN library'.selected \in {Target(e), NoBook}
               ELSE library.selected \in {server.current, NoBook} =>
                       \/ library'.selected = library.selected
                       \/ server.current \notin library'.known \cup ToSet(library'.list)
    PROVE  Follow'
<1> DEFINE S == ToSet(events)
           e == Head(events)
<1>1. events \in Seq(S)
  BY DEF Library, Queue
<1>2. /\ Len(events) \in Nat /\ Len(events) > 0 /\ DOMAIN events = 1 .. Len(events)
      /\ DOMAIN events' = 1 .. Len(events) - 1
      /\ \A i \in 1 .. Len(events) - 1 : events'[i] = events[i + 1]
      /\ e = events[1]
  BY <1>1
<1> HIDE DEF e
<1>3. CASE server.current \notin library.known \cup ToSet(library.list)
  BY <1>3 DEF Follow
<1>4. CASE /\ \A i \in DOMAIN events : ~Moves(events[i])
           /\ library.selected \in {server.current, NoBook}
  <2>1. \A i \in DOMAIN events' : ~Moves(events'[i])
    BY <1>2, <1>4
  <2>2. ~Moves(e)
    BY <1>2, <1>4
  <2> QED
    BY <1>4, <2>1, <2>2 DEF Follow, e
<1>5. ASSUME NEW i \in DOMAIN events, Moves(events[i]), Target(events[i]) = server.current,
             \A j \in DOMAIN events : Moves(events[j]) => j <= i
      PROVE  Follow'
  <2>1. CASE i = 1
    <3>1. \A j \in DOMAIN events' : ~Moves(events'[j])
      BY <1>2, <1>5, <2>1
    <3>2. library'.selected \in {server.current, NoBook}
      BY <1>2, <1>5, <2>1 DEF e
    <3> QED
      BY <3>1, <3>2 DEF Follow
  <2>2. CASE i # 1
    <3>1. /\ i - 1 \in DOMAIN events' /\ events'[i - 1] = events[i]
          /\ \A j \in DOMAIN events' : Moves(events'[j]) => j <= i - 1
      BY <1>2, <1>5, <2>2
    <3> QED
      BY <1>5, <3>1 DEF Follow
  <2> QED
    BY <2>1, <2>2
<1> QED
  BY <1>3, <1>4, <1>5 DEF Follow

\* An event that moves nothing is left, or none; the Viewer stays where it is.
LEMMA Stayed ==
    ASSUME Library, Follow, UNCHANGED library, server'.current = server.current,
           UNCHANGED events \/ \E e : ~Moves(e) /\ events' = Append(events, e)
    PROVE  Follow'
<1>1. CASE UNCHANGED events
  BY <1>1 DEF Follow
<1>2. ASSUME NEW e, ~Moves(e), events' = Append(events, e) PROVE Follow'
  <2> DEFINE n == Len(events)
  <2>1. events \in Seq(ToSet(events))
    BY DEF Library, Queue
  <2>2. /\ n \in Nat /\ DOMAIN events = 1 .. n /\ DOMAIN events' = 1 .. n + 1
        /\ events'[n + 1] = e /\ \A i \in 1 .. n : events'[i] = events[i]
    BY <1>2, <2>1
  <2> HIDE DEF n
  <2>3. CASE \A i \in DOMAIN events : ~Moves(events[i])
    <3>1. \A i \in DOMAIN events' : ~Moves(events'[i])
      <4> SUFFICES ASSUME NEW i \in 1 .. n + 1 PROVE ~Moves(events'[i])
        BY <2>2
      <4> QED
        BY <1>2, <2>2, <2>3
    <3>2. \/ server.current \notin library.known \cup ToSet(library.list)
          \/ library.selected \in {server.current, NoBook}
      BY <2>3 DEF Follow
    <3> QED
      BY <3>1, <3>2 DEF Follow
  <2>4. ASSUME NEW i \in DOMAIN events, Moves(events[i]), Target(events[i]) = server.current,
               \A j \in DOMAIN events : Moves(events[j]) => j <= i
        PROVE  Follow'
    <3>1. /\ i \in DOMAIN events' /\ events'[i] = events[i]
      BY <2>2
    <3>2. ASSUME NEW j \in DOMAIN events', Moves(events'[j]) PROVE j <= i
      BY <1>2, <2>2, <2>4, <3>2
    <3> QED
      BY <2>4, <3>1, <3>2 DEF Follow
  <2> QED
    BY <2>3, <2>4 DEF Follow
<1> QED
  BY <1>1, <1>2

\* The Viewer is sent to a book, and the event says to which.
LEMMA Told ==
    ASSUME Library, NEW e, Moves(e), events' = Append(events, e), Target(e) = server'.current
    PROVE  Follow'
<1>1. events \in Seq(ToSet(events))
  BY DEF Library, Queue
<1> DEFINE n == Len(events)
<1>2. n + 1 \in DOMAIN events' /\ events'[n + 1] = e /\ \A j \in DOMAIN events' : j <= n + 1
  BY <1>1
<1> QED
  BY <1>2 DEF Follow
-----------------------------------------------------------------------------
(* The Viewer's window thread has no part in the selection. *)

LEMMA Still ==
    ASSUME Library, AsksWindow, Ends, UNCHANGED <<io, server, events, library>>, Linked' => Linked
    PROVE  Library' /\ AsksWindow' /\ Ends' /\ Follow' = Follow
BY DEF Library, AsksWindow, Ends, Follow, Queue, Distinctly

\* It is no longer, or was never, the Library's Viewer.
LEMMA Leaves ==
    ASSUME Sync, UNCHANGED <<io, server, events, library>>, Linked' => Linked,
           viewer'.mode # "library"
    PROVE  Sync'
BY Still DEF Sync, Wanted, Following

LEMMA OnceMore ==
    ASSUME NEW s, Queue(s), NEW m, NEW id,
           \/ m.id # id /\ Once(s, id)
           \/ \A n \in ToSet(s) : n.id # id
    PROVE  Once(Append(s, m), id)
<1> DEFINE n == Len(s)
           t == Append(s, m)
<1>1. /\ n \in Nat /\ DOMAIN s = 1 .. n /\ DOMAIN t = 1 .. n + 1
      /\ \A i \in 1 .. n : t[i] = s[i] /\ s[i] \in ToSet(s)
      /\ t[n + 1] = m
  BY DEF Queue, ToSet
<1> HIDE DEF n, t
<1>2. CASE m.id # id /\ Once(s, id)
  <2> SUFFICES ASSUME NEW i \in 1 .. n + 1, NEW j \in 1 .. n + 1, t[i].id = id, t[j].id = id
               PROVE  i = j
    BY <1>1 DEF Once, t
  <2>1. i \in 1 .. n /\ j \in 1 .. n
    BY <1>1, <1>2
  <2> QED
    BY <1>1, <1>2, <2>1 DEF Once
<1>3. CASE \A x \in ToSet(s) : x.id # id
  <2> SUFFICES ASSUME NEW i \in 1 .. n + 1, NEW j \in 1 .. n + 1, t[i].id = id, t[j].id = id
               PROVE  i = j
    BY <1>1 DEF Once, t
  <2>1. i \notin 1 .. n /\ j \notin 1 .. n
    BY <1>1, <1>3
  <2> QED
    BY <1>1, <2>1
<1> QED
  BY <1>2, <1>3

\* The dialog of a rebuild goes on waiting, or there was none; at most a notice is sent.
LEMMA Kept ==
    ASSUME Shapes, Sync, UNCHANGED <<io, toLibrary, toViewer, server, events, library>>,
           Linked' => Linked, viewer'.mode = "library" => viewer.mode = "library",
           viewer'.rangeInFlight = viewer.rangeInFlight,
           viewer'.action = viewer.action \/ ~viewer.rangeInFlight,
           UNCHANGED requests \/ \E m : m.id = 0 /\ ~Rebuilds(m) /\ requests' = Append(requests, m),
           ToSet(answers') \subseteq ToSet(answers)
    PROVE  Sync'
<1> SUFFICES ASSUME viewer'.mode = "library" PROVE Sync'
  BY Leaves
<1>1. Library' /\ AsksWindow' /\ Ends' /\ Follow' = Follow
  BY Still DEF Sync
<1>2. Asked /\ Single /\ Queue(requests)
  BY DEF Sync, Wanted, Shapes
<1> DEFINE sent == ToSet(requests') \ ToSet(requests)
<1>3. /\ ToSet(requests') = ToSet(requests) \cup sent
      /\ \A m \in sent : m.id = 0 /\ ~Rebuilds(m)
  <2>1. CASE UNCHANGED requests
    BY <2>1
  <2>2. ASSUME NEW m, m.id = 0, ~Rebuilds(m), requests' = Append(requests, m)
        PROVE  ToSet(requests') = ToSet(requests) \cup {m}
    BY <1>2, <2>2, QueueAppend
  <2> QED
    BY <2>1, <2>2
<1> HIDE DEF sent
<1>4. /\ \A m \in ToAnswer' : m \in ToAnswer \/ m \in sent
      /\ Answered' \subseteq Answered /\ Served' = Served
  BY <1>3 DEF ToAnswer, Answered, Served
<1>5. Asked'
  BY <1>2, <1>3, <1>4 DEF Asked
<1>6. ASSUME viewer.rangeInFlight, NEW id, id = viewer.action.id, Alone(id)
      PROVE  Alone(id)'
  <2>1. Once(requests', id)
    <3>1. ASSUME NEW m, m.id = 0, requests' = Append(requests, m) PROVE Once(requests', id)
      <4>1. m.id # id /\ Once(requests, id)
        BY <1>6, <3>1 DEF Alone
      <4> QED
        BY <1>2, <3>1, <4>1, OnceMore
    <3> QED
      BY <1>6, <3>1 DEF Alone
  <2> QED
    BY <1>3, <1>4, <1>6, <2>1 DEF Alone
<1>7. Single'
  BY <1>2, <1>6 DEF Single
<1>8. ASSUME Astray PROVE Astray'
  <2>1. viewer.rangeInFlight /\ viewer.action.id # 0
    BY <1>2, <1>8 DEF Astray, Single, Alone
  <2>2. \A m \in Held' : m \in Held \/ m.id = 0
    BY <1>3, <1>4 DEF Held
  <2> QED
    BY <1>8, <2>1, <2>2 DEF Astray
<1> QED
  BY <1>1, <1>5, <1>7, <1>8 DEF Sync, Wanted, Following

\* The dialog waits no more, because of the answer that is polled, or did not wait.
LEMMA Freed ==
    ASSUME Pipe, Sync, UNCHANGED <<io, toLibrary, toViewer, server, events, library>>,
           Linked' => Linked, viewer'.mode = "library" => viewer.mode = "library",
           ~viewer'.rangeInFlight,
           \/ ~viewer.rangeInFlight
           \/ \E a \in ToSet(answers) : a.id = viewer.action.id /\ a.kind \in {"navigate", "error"},
           NEW sent, ToSet(requests') \subseteq ToSet(requests) \cup sent,
           \A m \in sent : ~Rebuilds(m)
    PROVE  Sync'
<1> SUFFICES ASSUME viewer'.mode = "library" PROVE Sync'
  BY Leaves
<1>1. Library' /\ AsksWindow' /\ Ends' /\ Follow' = Follow
  BY Still DEF Sync
<1>2. Asked /\ Single
  BY DEF Sync, Wanted
<1>3. \A m \in ToAnswer : ~Rebuilds(m)
  <2>1. CASE ~viewer.rangeInFlight
    BY <1>2, <2>1 DEF Asked
  <2>2. ASSUME viewer.rangeInFlight, NEW a \in ToSet(answers), a.id = viewer.action.id
        PROVE  \A m \in ToAnswer : ~Rebuilds(m)
    <3>1. \A m \in ToAnswer : m \in ToSet(requests) \/ m \in Served
      BY DEF ToAnswer, Served
    <3>2. \A m \in ToAnswer : m.id # viewer.action.id
      BY <1>2, <2>2, <3>1 DEF Single, Alone
    <3> QED
      BY <1>2, <3>2 DEF Asked
  <2> QED
    BY <2>1, <2>2
<1>4. \A m \in ToAnswer' : ~Rebuilds(m)
  <2>1. \A m \in ToAnswer' : m \in ToAnswer \/ m \in sent
    BY DEF ToAnswer
  <2> QED
    BY <1>3, <2>1
<1>5. ~Astray
  <2> SUFFICES ASSUME Astray PROVE FALSE
    OBVIOUS
  <2>1. PICK a \in ToSet(answers) : a.id = viewer.action.id /\ a.kind \in {"navigate", "error"}
    BY DEF Astray
  <2>2. a \in Held /\ a.kind # "noMore" /\ a.kind # "rebuild"
    BY <2>1 DEF Held, Answered
  <2> QED
    BY <2>1, <2>2 DEF Astray
<1> QED
  BY <1>1, <1>4, <1>5 DEF Sync, Wanted, Following, Asked, Single

\* A rebuild is asked for, under an id of its own.
LEMMA Begun ==
    ASSUME Shapes, Awaited, Sync,
           UNCHANGED <<io, answers, toLibrary, toViewer, server, events, library>>,
           viewer.mode = "library", viewer'.mode = "library", ~viewer.rangeInFlight,
           viewer'.rangeInFlight,
           NEW m, requests' = Append(requests, m), m.id = viewer.lastId + 1,
           viewer'.action.id = m.id
    PROVE  Sync'
<1> DEFINE id == m.id
<1>0. Tracked /\ viewer.lastId \in Nat /\ Queue(requests) /\ Linked
  BY DEF Awaited, Linked, Shapes
<1>1. Library' /\ AsksWindow' /\ Ends' /\ Follow' = Follow
  BY <1>0, Still DEF Sync
<1>2. Asked /\ (server.state = "dead" \/ Follow)
  BY DEF Sync, Wanted, Following, Astray
<1>3. ToSet(requests') = ToSet(requests) \cup {m}
  BY <1>0, QueueAppend
<1>4. id # 0 /\ \A n \in Messages : n.id # id
  <2>1. \A n \in Messages : n.id \in 0 .. viewer.lastId
    BY <1>0 DEF Tracked, Fits
  <2> QED
    BY <1>0, <2>1
<1>5. Asked'
  <2>1. \A n \in ToAnswer' : n \in ToAnswer \/ n = m
    BY <1>3 DEF ToAnswer
  <2>2. \A n \in ToAnswer : ~Rebuilds(n)
    BY <1>2 DEF Asked
  <2> QED
    BY <2>1, <2>2 DEF Asked
<1>6. /\ \A n \in ToSet(requests) \cup Served \cup ToSet(answers) : n.id # id
      /\ Served' = Served /\ ToSet(answers') = ToSet(answers)
  BY <1>4 DEF Served, Messages
<1>7. Once(requests', id)
  BY <1>0, <1>6, OnceMore
<1> HIDE DEF id
<1>8. Alone(id)'
  BY <1>3, <1>4, <1>6, <1>7 DEF Alone
<1>9. viewer'.action.id = id
  BY DEF id
<1>10. Single'
  BY <1>8, <1>9 DEF Single
<1> QED
  BY <1>1, <1>2, <1>5, <1>10 DEF Sync, Wanted, Following

\* handle_ipc_navigation; of its questions only the rebuild is waited for by its dialog.
LEMMA NavigationSync ==
    ASSUME Shapes, Pipe, Awaited, Sync,
           UNCHANGED <<io, answers, toLibrary, toViewer, server, events, library>>,
           NEW kind \in {"next", "prev", "probe", "rebuild"}, NEW v, SendNavigation(kind, v),
           DOMAIN v = DOMAIN viewer, v.lastId = viewer.lastId, v.mode = "library",
           viewer.mode = "library", ~viewer.rangeInFlight,
           v.rangeInFlight <=> kind = "rebuild"
    PROVE  Sync'
<1> DEFINE id == v.lastId + 1
           w == [v EXCEPT !.lastId = id]
           m == Request(kind, id, v.shown, NoBook)
<1>0. Linked
  BY DEF Linked
<1>1. CASE CanSend
  <2>1. /\ requests' = Append(requests, m)
        /\ viewer' = [w EXCEPT !.action = [kind |-> kind, id |-> id]]
    BY <1>1 DEF SendNavigation
  <2>2. /\ viewer'.mode = "library" /\ viewer'.rangeInFlight = v.rangeInFlight
        /\ viewer'.action = [kind |-> kind, id |-> id] /\ viewer'.action.id = id
    BY <2>1 DEF Shapes
  <2>3. m.id = id /\ m.kind = kind
    BY DEF Request
  <2> HIDE DEF m
  <2>4. CASE kind = "rebuild"
    BY <2>1, <2>2, <2>3, <2>4, Begun DEF Rebuilds
  <2>5. CASE kind # "rebuild"
    <3> DEFINE sent == {m}
    <3>1. ToSet(requests') \subseteq ToSet(requests) \cup sent /\ \A n \in sent : ~Rebuilds(n)
      BY <2>1, <2>3, <2>5, QueueAppend DEF Shapes, Rebuilds
    <3> HIDE DEF sent
    <3> QED
      BY <1>0, <2>2, <2>5, <3>1, Freed
  <2> QED
    BY <2>4, <2>5
<1>2. CASE ~CanSend
  <2>1. viewer' = [Detach(w) EXCEPT !.offline = @ \/ kind = "probe",
                         !.dialog = IF kind = "rebuild" THEN "rangeFailed" ELSE @]
    BY <1>2 DEF SendNavigation
  <2>2. DOMAIN w = DOMAIN viewer
    OBVIOUS
  <2> HIDE DEF w
  <2>3. DOMAIN Detach(w) = DOMAIN viewer /\ Detach(w).mode = "detached"
    BY <2>2, DetachFacts
  <2>4. viewer'.mode = "detached"
    BY <2>1, <2>3 DEF Shapes
  <2> QED
    BY <1>0, <2>4, Leaves
<1> QED
  BY <1>1, <1>2

LEMMA NoDialog ==
    ASSUME Awaited, Linked, viewer.dialog # "range" PROVE ~viewer.rangeInFlight
BY DEF Awaited, Tracked, Consistent

LEMMA KeysSync ==
    Shapes /\ Pipe /\ Awaited /\ Sync
      /\ (PressBookKey \/ BeginDeleteDialog \/ BeginPageRangeRebuildRequest) => Sync'
<1> SUFFICES ASSUME Shapes, Pipe, Awaited, Sync,
                    PressBookKey \/ BeginDeleteDialog \/ BeginPageRangeRebuildRequest
             PROVE  Sync'
  OBVIOUS
<1>1. /\ UNCHANGED <<io, answers, toLibrary, toViewer, server, events, library>>
      /\ viewer.mode = "library" /\ Linked
  BY DEF PressBookKey, BeginDeleteDialog, BeginPageRangeRebuildRequest, AtKeys, pipeVars,
         libraryVars, Linked
<1>2. CASE PressBookKey
  <2>1. PICK kind \in {"next", "prev"} : SendNavigation(kind, viewer)
    BY <1>2 DEF PressBookKey
  <2>2. ~viewer.rangeInFlight
    BY <1>1, <1>2, NoDialog DEF PressBookKey, AtKeys
  <2> QED
    BY <1>1, <2>1, <2>2, NavigationSync
<1>3. CASE BeginDeleteDialog
  <2> DEFINE v == [viewer EXCEPT !.dialog = "delete", !.asked = viewer.shown, !.offline = FALSE]
  <2>1. SendNavigation("probe", v)
    BY <1>3 DEF BeginDeleteDialog
  <2>2. ~viewer.rangeInFlight
    BY <1>1, <1>3, NoDialog DEF BeginDeleteDialog, AtKeys
  <2>3. /\ DOMAIN v = DOMAIN viewer /\ v.lastId = viewer.lastId /\ v.mode = "library"
        /\ ~v.rangeInFlight
    BY <1>1, <2>2 DEF Shapes
  <2> HIDE DEF v
  <2> QED
    BY <1>1, <2>1, <2>2, <2>3, NavigationSync
<1>4. CASE BeginPageRangeRebuildRequest
  <2> DEFINE v == [viewer EXCEPT !.rangeInFlight = TRUE]
  <2>1. SendNavigation("rebuild", v) /\ ~viewer.rangeInFlight
    BY <1>4 DEF BeginPageRangeRebuildRequest
  <2>2. /\ DOMAIN v = DOMAIN viewer /\ v.lastId = viewer.lastId /\ v.mode = "library"
        /\ v.rangeInFlight = TRUE
    BY <1>1 DEF Shapes
  <2> HIDE DEF v
  <2> QED
    BY <1>1, <2>1, <2>2, NavigationSync
<1> QED
  BY <1>2, <1>3, <1>4

LEMMA ApplyDeleteChoiceSync == Shapes /\ Pipe /\ Awaited /\ Sync /\ ApplyDeleteChoice => Sync'
<1> SUFFICES ASSUME Shapes, Pipe, Awaited, Sync, ApplyDeleteChoice PROVE Sync'
  OBVIOUS
<1> DEFINE v == [viewer EXCEPT !.dialog = "none", !.asked = NoBook]
<1>1. /\ UNCHANGED <<io, answers, toLibrary, toViewer, server, events, library>>
      /\ viewer.dialog = "delete" /\ viewer.mode \in {"library", "snapshot", "detached"}
  BY DEF ApplyDeleteChoice, pipeVars, libraryVars, Live
<1>2. PICK choice \in {"delete", "deleteNext"} :
          \/ viewer' = v /\ UNCHANGED requests
          \/ viewer.mode = "library" /\ SendDeletion(choice, v)
  BY DEF ApplyDeleteChoice
<1>3. /\ DOMAIN v = DOMAIN viewer /\ v.mode = viewer.mode /\ v.rangeInFlight = viewer.rangeInFlight
      /\ v.action = viewer.action
  BY DEF Shapes
<1> HIDE DEF v
<1>4. CASE viewer' = v /\ UNCHANGED requests
  BY <1>1, <1>3, <1>4, Kept DEF Linked
<1>5. CASE viewer.mode = "library" /\ SendDeletion(choice, v) /\ CanSend
  <2> DEFINE m == Request(choice, v.lastId + 1, v.shown, viewer.asked)
             sent == {m}
  <2>1. /\ requests' = Append(requests, m)
        /\ viewer' = [v EXCEPT !.lastId = v.lastId + 1,
                               !.action = [kind |-> choice, id |-> v.lastId + 1]]
    BY <1>5 DEF SendDeletion
  <2>2. viewer'.mode = "library" /\ viewer'.rangeInFlight = v.rangeInFlight
    BY <1>3, <1>5, <2>1 DEF Shapes
  <2>3. Linked /\ ~viewer.rangeInFlight
    BY <1>1, <1>5, NoDialog DEF Linked
  <2>4. ToSet(requests') \subseteq ToSet(requests) \cup sent /\ \A n \in sent : ~Rebuilds(n)
    BY <2>1, QueueAppend DEF Shapes, Rebuilds, Request
  <2> HIDE DEF sent
  <2> QED
    BY <1>1, <1>3, <1>5, <2>2, <2>3, <2>4, Freed
<1>6. CASE viewer.mode = "library" /\ SendDeletion(choice, v) /\ ~CanSend
  <2>1. viewer' = [Detach(v) EXCEPT !.offline = TRUE]
    BY <1>6 DEF SendDeletion
  <2>2. DOMAIN Detach(v) = DOMAIN viewer /\ Detach(v).mode = "detached"
    BY <1>3, DetachFacts
  <2>3. viewer'.mode = "detached" /\ Linked
    BY <1>6, <2>1, <2>2 DEF Shapes, Linked
  <2> QED
    BY <1>1, <2>3, Leaves
<1> QED
  BY <1>2, <1>4, <1>5, <1>6

LEMMA DialogsSync ==
    Shapes /\ Pipe /\ Awaited /\ Sync
      /\ (CancelDialog \/ BeginPageRangeDeleteDialog \/ MovePageOrToggleFullscreen) => Sync'
<1> SUFFICES ASSUME Shapes, Pipe, Awaited, Sync,
                    CancelDialog \/ BeginPageRangeDeleteDialog \/ MovePageOrToggleFullscreen
             PROVE  Sync'
  OBVIOUS
<1>1. UNCHANGED <<requests, io, answers, toLibrary, toViewer, server, events, library>>
  BY DEF CancelDialog, BeginPageRangeDeleteDialog, MovePageOrToggleFullscreen, pipeVars, libraryVars
<1>2. BeginPageRangeDeleteDialog => Linked /\ ~viewer.rangeInFlight
  BY NoDialog DEF BeginPageRangeDeleteDialog, AtKeys, Linked
<1>3. viewer'.mode = viewer.mode
  BY DEF CancelDialog, BeginPageRangeDeleteDialog, MovePageOrToggleFullscreen, Shapes
<1>4. CASE BeginPageRangeDeleteDialog
  <2> DEFINE sent == {}
  <2>1. ~viewer'.rangeInFlight
    BY <1>4 DEF BeginPageRangeDeleteDialog, Shapes
  <2>2. ToSet(requests') \subseteq ToSet(requests) \cup sent /\ \A n \in sent : FALSE
    BY <1>1
  <2> HIDE DEF sent
  <2> QED
    BY <1>1, <1>2, <1>3, <1>4, <2>1, <2>2, Freed DEF Linked
<1>5. CASE CancelDialog \/ MovePageOrToggleFullscreen
  <2>1. viewer'.rangeInFlight = viewer.rangeInFlight /\ viewer'.action = viewer.action
    BY <1>5 DEF CancelDialog, MovePageOrToggleFullscreen, Shapes
  <2> QED
    BY <1>1, <1>3, <2>1, Kept DEF Linked
<1> QED
  BY <1>4, <1>5

LEMMA SideRequestsSync ==
    Shapes /\ Pipe /\ Awaited /\ Sync
      /\ (RequestFavoriteToggle \/ RequestFilter \/ BeginBoundaryPreview) => Sync'
<1> SUFFICES ASSUME Shapes, Pipe, Awaited, Sync,
                    RequestFavoriteToggle \/ RequestFilter \/ BeginBoundaryPreview
             PROVE  Sync'
  OBVIOUS
<1>1. UNCHANGED <<io, answers, toLibrary, toViewer, server, events, library>>
  BY DEF RequestFavoriteToggle, RequestFilter, BeginBoundaryPreview, pipeVars, libraryVars
<1>2. viewer'.mode = viewer.mode /\ viewer'.rangeInFlight = viewer.rangeInFlight
  BY DEF RequestFavoriteToggle, RequestFilter, BeginBoundaryPreview, Shapes
<1>3. Linked /\ ~viewer.rangeInFlight
  BY NoDialog DEF RequestFavoriteToggle, RequestFilter, BeginBoundaryPreview, AtKeys, Linked
<1>4. \/ UNCHANGED requests
      \/ \E kind \in {"favorite", "filter", "filterState", "preview"} : \E book :
            requests' = Append(requests, Request(kind, viewer.lastId + 1, book, NoBook))
  BY DEF RequestFavoriteToggle, RequestFilter, BeginBoundaryPreview
<1> DEFINE sent == ToSet(requests') \ ToSet(requests)
<1>5. \A m \in sent : ~Rebuilds(m)
  <2>1. ASSUME NEW kind \in {"favorite", "filter", "filterState", "preview"}, NEW book,
               requests' = Append(requests, Request(kind, viewer.lastId + 1, book, NoBook))
        PROVE  \A m \in sent : ~Rebuilds(m)
    BY <2>1, QueueAppend DEF Shapes, Request, Rebuilds
  <2> QED
    BY <1>4, <2>1
<1>6. ToSet(requests') \subseteq ToSet(requests) \cup sent /\ ToSet(answers') = ToSet(answers)
  BY <1>1
<1> HIDE DEF sent
<1> QED
  BY <1>1, <1>2, <1>3, <1>5, <1>6, Freed DEF Linked

LEMMA SendSourceChangedSync == Shapes /\ Pipe /\ Awaited /\ Sync /\ SendSourceChanged => Sync'
<1> SUFFICES ASSUME Shapes, Sync, SendSourceChanged PROVE Sync'
  OBVIOUS
<1> DEFINE m == Request("source", 0, viewer.shown, NoBook)
<1>1. /\ UNCHANGED <<viewer, io, answers, toLibrary, toViewer, server, events, library>>
      /\ requests' = Append(requests, m)
  BY DEF SendSourceChanged, pipeVars, libraryVars
<1>2. m.id = 0 /\ ~Rebuilds(m)
  BY DEF Request, Rebuilds
<1> HIDE DEF m
<1> QED
  BY <1>1, <1>2, Kept DEF Linked

LEMMA ClosingSync ==
    ASSUME Sync, UNCHANGED <<io, server, events, library>>, NEW v, StartClosing(v)
    PROVE  Sync'
<1>1. viewer'.mode \in {"closing", "gone"}
  BY DEF StartClosing, Ended, ViewerStart
<1> QED
  BY <1>1, Leaves DEF Linked

LEMMA EndingSync ==
    Shapes /\ Pipe /\ Awaited /\ Sync /\ (AwaitSessionAck \/ ViewerExits \/ CloseViewer) => Sync'
<1> SUFFICES ASSUME Shapes, Sync, AwaitSessionAck \/ ViewerExits \/ CloseViewer PROVE Sync'
  OBVIOUS
<1>1. CASE AwaitSessionAck
  <2>1. UNCHANGED <<io, server, events, library>> /\ viewer'.mode \in {"closing", "gone"}
    BY <1>1 DEF AwaitSessionAck, libraryVars, Shapes
  <2> QED
    BY <2>1, Leaves DEF Linked
<1>2. CASE ViewerExits
  <2>1. UNCHANGED <<viewer, server, events, library>> /\ viewer.mode = "gone"
    BY <1>2 DEF ViewerExits, libraryVars
  <2> QED
    BY <2>1 DEF Sync, Library, AsksWindow, Ends, Wanted, Following, Linked, Queue, Distinctly
<1>3. CASE CloseViewer
  BY <1>3, ClosingSync DEF CloseViewer, libraryVars
<1> QED
  BY <1>1, <1>2, <1>3

\* The books of a Viewer follow one another without a word of a rebuild.
LEMMA ReopenSync ==
    ASSUME Shapes, Pipe, Sync, UNCHANGED <<io, toLibrary, toViewer, server, events, library>>,
           ToSet(answers') \subseteq ToSet(answers), Linked, viewer.mode = "library",
           \/ ~viewer.rangeInFlight
           \/ \E a \in ToSet(answers) : a.id = viewer.action.id /\ a.kind \in {"navigate", "error"},
           NEW v, DOMAIN v = DOMAIN viewer, v.lastId = viewer.lastId, ~v.rangeInFlight,
           NEW answer, NEW spad, Reopen(v, answer, spad)
    PROVE  Sync'
<1> DEFINE left == SessionRequest(v)
           fresh == OpenedBook(left.v, answer.book, spad)
           id == fresh.lastId + 1
           m == Request("spad", id, NoBook, NoBook)
           asksSpad == spad = NoSpad /\ fresh.mode = "library"
           more == IF asksSpad /\ CanSend THEN <<m>> ELSE <<>>
           sent == ToSet(left.q) \cup {m}
<1>1. /\ Queue(left.q) /\ \A x \in ToSet(left.q) : ~Rebuilds(x)
      /\ DOMAIN left.v = DOMAIN viewer /\ ~left.v.rangeInFlight
  BY SessionSends DEF Rebuilds
<1>2. ~Rebuilds(m)
  BY DEF Rebuilds, Request
<1>3. /\ requests' = (requests \o left.q) \o more
      /\ viewer' = [fresh EXCEPT !.lastId = IF asksSpad THEN id ELSE @,
                                 !.spadPending = IF asksSpad /\ CanSend THEN id ELSE 0,
                                 !.action = Idle]
  BY DEF Reopen
<1> HIDE DEF left
<1>4. DOMAIN fresh = DOMAIN viewer /\ ~fresh.rangeInFlight
  BY <1>1 DEF OpenedBook, Shapes
<1> HIDE DEF fresh, m, asksSpad, id
<1>5. ~viewer'.rangeInFlight
  BY <1>3, <1>4 DEF Shapes
<1>6. Queue(more) /\ ToSet(more) \subseteq {m}
  BY QueueOne, QueueEmpty
<1> HIDE DEF more
<1>7. /\ Queue(requests \o left.q)
      /\ ToSet(requests \o left.q) = ToSet(requests) \cup ToSet(left.q)
  BY <1>1, QueueConcat DEF Shapes
<1>8. ToSet(requests') \subseteq ToSet(requests) \cup sent /\ \A x \in sent : ~Rebuilds(x)
  BY <1>1, <1>2, <1>3, <1>6, <1>7, QueueConcat
<1> HIDE DEF sent
<1> QED
  BY <1>5, <1>8, Freed

\* The answers that can send the Viewer to another book, or end it.
LEMMA TurningAnswersSync ==
    ASSUME Shapes, Pipe, Awaited, Sync, Linked,
           UNCHANGED <<io, toLibrary, toViewer, server, events, library>>,
           ToSet(answers') \subseteq ToSet(answers), NEW answer \in ToSet(answers),
           \/ OnDeleted(answer)
           \/ answer.kind = "navigate" /\ OnNavigateTo(answer)
           \/ OnNoMoreBooks(answer)
    PROVE  Sync'
<1> DEFINE w == [viewer EXCEPT !.dialog = "none", !.rangeInFlight = FALSE, !.session = "dropped"]
           hood == [base |-> answer.base, prev |-> answer.prev, next |-> answer.next]
<1>1. DOMAIN w = DOMAIN viewer /\ w.lastId = viewer.lastId /\ ~w.rangeInFlight
  BY DEF Shapes
<1>2. viewer.rangeInFlight => viewer.action.kind = "rebuild"
  BY DEF Awaited, Tracked, Consistent
<1> HIDE DEF w, hood
<1>3. CASE ~IsCurrent(answer)
  <2>1. UNCHANGED <<viewer, requests>>
    BY <1>3 DEF OnDeleted, OnNavigateTo, OnNoMoreBooks, Stay
  <2> QED
    BY <2>1, Kept DEF Linked
<1>4. CASE IsCurrent(answer)
  <2>1. viewer.mode = "library" /\ viewer.action.id = answer.id
    BY <1>4 DEF IsCurrent
  <2>2. CASE OnDeleted(answer)
    <3>1. CASE viewer.action.kind = "deleteNext" /\ Reopen(viewer, answer, hood)
      BY <1>2, <2>1, <3>1, ReopenSync
    <3>2. CASE StartClosing(viewer)
      BY <3>2, ClosingSync
    <3> QED
      BY <1>4, <2>2, <3>1, <3>2 DEF OnDeleted, hood
  <2>3. CASE answer.kind = "navigate" /\ OnNavigateTo(answer)
    <3>1. CASE viewer.action.kind = "rebuild"
      <4>1. Reopen(w, answer, NoSpad)
        BY <1>4, <2>3, <3>1 DEF OnNavigateTo, w
      <4> QED
        BY <1>1, <2>1, <2>3, <4>1, ReopenSync
    <3>2. CASE viewer.action.kind # "rebuild"
      <4>1. Reopen(viewer, answer, NoSpad)
        BY <1>4, <2>3, <3>2 DEF OnNavigateTo
      <4> QED
        BY <1>2, <2>1, <3>2, <4>1, ReopenSync
    <3> QED
      BY <3>1, <3>2
  <2>4. CASE OnNoMoreBooks(answer)
    <3>1. CASE StartClosing(w) \/ StartClosing(viewer)
      BY <3>1, ClosingSync
    <3>2. CASE viewer.action.kind # "rebuild" /\ Stay(ClearPendingLibraryAction(viewer))
      <4>1. /\ UNCHANGED requests /\ viewer'.mode = viewer.mode
            /\ viewer'.rangeInFlight = viewer.rangeInFlight
        BY <3>2 DEF ClearPendingLibraryAction, Shapes, Stay
      <4> QED
        BY <1>2, <3>2, <4>1, Kept DEF Linked
    <3> QED
      BY <1>4, <2>4, <3>1, <3>2 DEF OnNoMoreBooks, w
  <2> QED
    BY <2>2, <2>3, <2>4
<1> QED
  BY <1>3, <1>4

\* An error ends the wait of a rebuild's dialog, and is what it waited for.
LEMMA ErrorSync ==
    ASSUME Shapes, Pipe, Awaited, Sync, Linked,
           UNCHANGED <<io, toLibrary, toViewer, server, events, library>>,
           ToSet(answers') \subseteq ToSet(answers), NEW answer \in ToSet(answers),
           answer.kind = "error", OnError(answer)
    PROVE  Sync'
<1>1. viewer.rangeInFlight => viewer.action.kind = "rebuild"
  BY DEF Awaited, Tracked, Consistent
<1>2. UNCHANGED requests
  BY DEF OnError, Stay
<1>3. CASE /\ viewer'.mode = viewer.mode /\ viewer'.rangeInFlight = viewer.rangeInFlight
           /\ viewer'.action = viewer.action \/ ~viewer.rangeInFlight
  BY <1>2, <1>3, Kept DEF Linked
<1>4. CASE viewer'.mode = viewer.mode /\ IsCurrent(answer) /\ ~viewer'.rangeInFlight
  <2> DEFINE sent == {}
  <2>1. ToSet(requests') \subseteq ToSet(requests) \cup sent /\ \A m \in sent : FALSE
    BY <1>2
  <2>2. answer.id = viewer.action.id
    BY <1>4 DEF IsCurrent
  <2> HIDE DEF sent
  <2> QED
    BY <1>4, <2>1, <2>2, Freed DEF Linked
<1>5. CASE viewer.preview.id = answer.id
  <2>1. viewer' = [viewer EXCEPT !.preview = NoPreview]
    BY <1>5 DEF OnError, Stay
  <2> QED
    BY <1>3, <2>1 DEF Shapes
<1>6. CASE viewer.preview.id # answer.id /\ IsCurrent(answer)
  <2> DEFINE kind == viewer.action.kind
  <2>1. viewer' = [viewer EXCEPT !.action = Idle,
                      !.rangeInFlight = IF kind = "rebuild" THEN FALSE ELSE @,
                      !.dialog = IF kind = "rebuild" THEN "rangeFailed" ELSE @,
                      !.offline = @ \/ kind \in {"probe", "delete", "deleteNext"}]
    BY <1>6 DEF OnError, Stay
  <2>2. /\ viewer'.mode = viewer.mode
        /\ viewer'.rangeInFlight = IF kind = "rebuild" THEN FALSE ELSE viewer.rangeInFlight
    BY <2>1 DEF Shapes
  <2> QED
    BY <1>1, <1>4, <1>6, <2>2
<1>7. CASE viewer.preview.id # answer.id /\ ~IsCurrent(answer)
  <2>1. viewer' \in {RestoreFavorite(viewer), [viewer EXCEPT !.filterPending = 0], viewer}
    BY <1>7 DEF OnError, Stay
  <2> QED
    BY <1>3, <2>1 DEF Shapes, RestoreFavorite
<1> QED
  BY <1>5, <1>6, <1>7

\* The others settle something else, or end the Library's Viewer.
LEMMA SettlingAnswersSync ==
    ASSUME Shapes, Pipe, Awaited, Sync, Linked,
           UNCHANGED <<io, toLibrary, toViewer, server, events, library>>,
           ToSet(answers') \subseteq ToSet(answers), NEW answer \in ToSet(answers),
           \/ OnViewerState(answer) \/ OnFavoriteToggled(answer) \/ OnFilterState(answer)
           \/ OnProbeAnswered(answer) \/ OnPreview(answer) \/ OnSpad(answer) \/ OnDisconnected
           \/ Stay(viewer)
    PROVE  Sync'
<1>1. viewer.rangeInFlight => viewer.action.kind = "rebuild"
  BY DEF Awaited, Tracked, Consistent
<1>2. UNCHANGED requests
  BY DEF OnViewerState, OnFavoriteToggled, OnFilterState, OnProbeAnswered, OnPreview, OnSpad,
         OnDisconnected, Stay
<1>3. CASE /\ viewer'.mode = viewer.mode /\ viewer'.rangeInFlight = viewer.rangeInFlight
           /\ viewer'.action = viewer.action \/ ~viewer.rangeInFlight
  BY <1>2, <1>3, Kept DEF Linked
<1>4. CASE viewer'.mode = "detached"
  BY <1>4, Leaves
<1>5. CASE OnViewerState(answer)
  <2> DEFINE v == [viewer EXCEPT !.statePending = 0, !.favOf = answer.book]
  <2>1. viewer' \in {viewer, v, Detach(v)}
    BY <1>5 DEF OnViewerState, Stay
  <2>2. DOMAIN v = DOMAIN viewer
    OBVIOUS
  <2>3. Detach(v).mode = "detached"
    BY <2>2, DetachFacts
  <2>4. /\ v.mode = viewer.mode /\ v.rangeInFlight = viewer.rangeInFlight
        /\ v.action = viewer.action
    BY DEF Shapes
  <2> HIDE DEF v
  <2> QED
    BY <1>3, <1>4, <2>1, <2>3, <2>4
<1>6. CASE OnDisconnected
  <2> DEFINE v == RestoreFavorite(viewer)
  <2>1. DOMAIN v = DOMAIN viewer
    BY DEF RestoreFavorite, Shapes
  <2>2. viewer' = [Detach(v) EXCEPT !.dialog = IF viewer.rangeInFlight THEN "rangeFailed" ELSE @]
    BY <1>6 DEF OnDisconnected, Stay
  <2> HIDE DEF v
  <2>3. DOMAIN Detach(v) = DOMAIN viewer /\ Detach(v).mode = "detached"
    BY <2>1, DetachFacts
  <2>4. viewer'.mode = "detached"
    BY <2>2, <2>3 DEF Shapes
  <2> QED
    BY <1>4, <2>4
<1>7. CASE OnFavoriteToggled(answer) \/ OnFilterState(answer) \/ Stay(viewer) \/ OnSpad(answer)
  <2>1. /\ viewer'.mode = viewer.mode /\ viewer'.rangeInFlight = viewer.rangeInFlight
        /\ viewer'.action = viewer.action
    BY <1>7 DEF OnFavoriteToggled, OnFilterState, OnSpad, Stay, Shapes
  <2> QED
    BY <1>3, <2>1
<1>8. CASE OnPreview(answer)
  <2>1. /\ viewer'.mode = viewer.mode /\ viewer'.rangeInFlight = viewer.rangeInFlight
        /\ viewer'.action = viewer.action
    BY <1>8 DEF OnPreview, Stay, Shapes
  <2> QED
    BY <1>3, <2>1
<1>9. CASE OnProbeAnswered(answer)
  <2>1. CASE viewer.action.kind = "probe"
    <3>1. viewer'.mode = viewer.mode /\ viewer'.rangeInFlight = viewer.rangeInFlight
      BY <1>9 DEF OnProbeAnswered, Stay, Shapes
    <3> QED
      BY <1>1, <1>3, <2>1, <3>1
  <2>2. CASE viewer.action.kind # "probe"
    BY <1>3, <1>9, <2>2 DEF OnProbeAnswered, Stay
  <2> QED
    BY <2>1, <2>2
<1> QED
  BY <1>5, <1>6, <1>7, <1>8, <1>9

LEMMA PollLibraryIpcSync == Shapes /\ Pipe /\ Awaited /\ Sync /\ PollLibraryIpc => Sync'
<1> SUFFICES ASSUME Shapes, Pipe, Awaited, Sync, PollLibraryIpc PROVE Sync'
  OBVIOUS
<1> DEFINE answer == Head(answers)
<1>1. /\ UNCHANGED <<io, toLibrary, toViewer, server, events, library>> /\ Linked
      /\ answers # <<>> /\ answers' = Tail(answers)
  BY DEF PollLibraryIpc, pipeVars, libraryVars, Linked
<1>2. answer \in ToSet(answers) /\ ToSet(answers') \subseteq ToSet(answers)
  BY <1>1, QueueTail, QueueHead DEF Shapes
<1>3. \/ OnDeleted(answer) \/ (answer.kind = "navigate" /\ OnNavigateTo(answer))
      \/ OnNoMoreBooks(answer)
      \/ answer.kind = "error" /\ OnError(answer)
      \/ OnViewerState(answer) \/ OnFavoriteToggled(answer) \/ OnFilterState(answer)
      \/ OnProbeAnswered(answer) \/ OnPreview(answer) \/ OnSpad(answer) \/ OnDisconnected
      \/ Stay(viewer)
  BY DEF PollLibraryIpc
<1> HIDE DEF answer
<1> QED
  BY <1>1, <1>2, <1>3, TurningAnswersSync, ErrorSync, SettlingAnswersSync
-----------------------------------------------------------------------------
(* The queues and the Library's thread *)

LEMMA OnceTail ==
    ASSUME NEW s, Queue(s), s # <<>>, NEW id, Once(s, id)
    PROVE  /\ Once(Tail(s), id)
           /\ Head(s).id = id => \A m \in ToSet(Tail(s)) : m.id # id
<1> DEFINE n == Len(s)
           t == Tail(s)
           h == Head(s)
<1>1. /\ n \in Nat /\ n > 0 /\ DOMAIN s = 1 .. n /\ DOMAIN t = 1 .. n - 1
      /\ \A i \in 1 .. n - 1 : t[i] = s[i + 1]
      /\ h = s[1]
  BY DEF Queue
<1>2. ToSet(t) = {t[i] : i \in DOMAIN t}
  BY DEF ToSet
<1> HIDE DEF n, t, h
<1>3. ASSUME NEW i \in 1 .. n - 1, NEW j \in 1 .. n - 1, t[i].id = id, t[j].id = id PROVE i = j
  <2>1. /\ i + 1 \in DOMAIN s /\ j + 1 \in DOMAIN s
        /\ s[i + 1].id = id /\ s[j + 1].id = id
    BY <1>1, <1>3
  <2>2. i + 1 = j + 1
    BY <2>1 DEF Once
  <2> QED
    BY <1>1, <2>2
<1>4. ASSUME h.id = id, NEW i \in 1 .. n - 1 PROVE t[i].id # id
  <2>1. i + 1 \in DOMAIN s /\ 1 \in DOMAIN s /\ i + 1 # 1
    BY <1>1
  <2> QED
    BY <1>1, <1>4, <2>1 DEF Once
<1>5. Once(t, id)
  BY <1>1, <1>3 DEF Once
<1>6. h.id = id => \A m \in ToSet(t) : m.id # id
  BY <1>1, <1>2, <1>4
<1> QED
  BY <1>5, <1>6 DEF t, h

LEMMA IoSync ==
    Shapes /\ Pipe /\ Awaited /\ Sync /\ (IoSend \/ IoReceive \/ IoReceiveFails \/ IoEnd) => Sync'
<1> SUFFICES ASSUME Shapes, Pipe, Awaited, Sync, IoSend \/ IoReceive \/ IoReceiveFails \/ IoEnd
             PROVE  Sync'
  OBVIOUS
<1> DEFINE gone == Plain("gone", 0)
<1>0. UNCHANGED <<viewer, server, events, library>>
  BY DEF IoSend, IoReceive, IoReceiveFails, IoEnd, libraryVars
<1>1. Library' /\ AsksWindow' /\ Follow' = Follow
  BY <1>0 DEF Sync, Library, AsksWindow, Follow, Queue, Distinctly
<1>2. Ends'
  BY <1>0 DEF Sync, Ends, IoSend, IoReceive, IoReceiveFails, IoEnd, Linked
<1> SUFFICES ASSUME viewer.mode = "library" PROVE Asked' /\ Single' /\ (Astray => Astray')
  BY <1>0, <1>1, <1>2 DEF Sync, Wanted, Following
<1>3. /\ Asked /\ Single /\ Tracked /\ Linked
      /\ Queue(requests) /\ Queue(toLibrary) /\ Queue(toViewer) /\ Queue(answers)
  BY DEF Sync, Wanted, Awaited, Linked, Shapes
<1>4. gone.id = 0 /\ ~Rebuilds(gone)
  BY DEF Plain, Response, Rebuilds
<1> HIDE DEF gone
<1>5. SUFFICES /\ \A m \in ToAnswer' : m \in ToAnswer
               /\ \A m \in Held' : m \in Held \/ m.id = 0
               /\ \A id : Alone(id) => Alone(id)'
  <2>1. Asked' /\ Single'
    BY <1>0, <1>3, <1>5 DEF Asked, Single
  <2>2. ASSUME Astray PROVE Astray'
    <3>1. viewer.action.id # 0
      BY <1>3, <2>2 DEF Astray, Single, Alone
    <3> QED
      BY <1>0, <1>5, <2>2, <3>1 DEF Astray
  <2> QED
    BY <2>1, <2>2
<1>6. CASE IoSend
  <2> DEFINE h == Head(requests)
  <2>1. ToSet(requests) = {h} \cup ToSet(requests') /\ requests # <<>> /\ requests' = Tail(requests)
    BY <1>3, <1>6, QueueHead DEF IoSend
  <2>2. \A id : Once(requests, id) => /\ Once(requests', id)
                                      /\ h.id = id => \A m \in ToSet(requests') : m.id # id
    BY <1>3, <2>1, OnceTail
  <2> HIDE DEF h
  <2>3. CASE server.state # "dead"
    <3>1. ToSet(toLibrary') = ToSet(toLibrary) \cup {h} /\ UNCHANGED <<answers, toViewer>>
      BY <1>3, <1>6, <2>3, QueueAppend DEF IoSend, h
    <3>2. ToAnswer' = ToAnswer /\ Held' = Held /\ Served' = Served \cup {h}
      BY <1>0, <2>1, <3>1 DEF ToAnswer, Held, Answered, Served
    <3>3. ASSUME NEW id, Alone(id) PROVE Alone(id)'
      <4>1. \A m \in ToSet(requests') : m.id = id => h.id # id /\ m \in ToSet(requests)
        BY <2>1, <2>2, <3>3 DEF Alone
      <4>2. \A n \in ToSet(answers) : h.id = id => n.id # id
        BY <2>1, <3>3 DEF Alone
      <4> QED
        BY <2>2, <3>1, <3>2, <3>3, <4>1, <4>2 DEF Alone
    <3> QED
      BY <3>2, <3>3
  <2>4. CASE server.state = "dead"
    <3>1. ToSet(answers') = ToSet(answers) \cup {gone} /\ UNCHANGED <<toLibrary, toViewer>>
      BY <1>3, <1>6, <2>4, QueueAppend DEF IoSend, ReportLoss, gone
    <3>2. /\ \A m \in ToAnswer' : m \in ToAnswer
          /\ \A m \in Held' : m \in Held \/ m = gone
          /\ Served' = Served
      BY <1>0, <2>1, <3>1 DEF ToAnswer, Held, Answered, Served
    <3>3. ASSUME NEW id, Alone(id) PROVE Alone(id)'
      BY <1>4, <2>1, <2>2, <3>1, <3>2, <3>3 DEF Alone
    <3> QED
      BY <1>4, <3>2, <3>3
  <2> QED
    BY <2>3, <2>4
<1>7. CASE IoReceive
  <2> DEFINE h == Head(toViewer)
  <2>1. /\ toViewer # <<>> /\ toViewer' = Tail(toViewer) /\ io = "wait"
        /\ answers' = Append(answers, h) /\ UNCHANGED <<requests, toLibrary>>
    BY <1>7 DEF IoReceive
  <2>2. Quiet /\ toViewer' = <<>>
    BY <2>1 DEF Pipe, Waiting
  <2>3. /\ ToSet(answers') = ToSet(answers) \cup {h} /\ ToSet(toViewer) = {h}
        /\ ToSet(toViewer') = {}
    <3>1. ToSet(answers') = ToSet(answers) \cup {h}
      BY <1>3, <2>1, QueueAppend
    <3>2. ToSet(toViewer') = {}
      BY <2>2, QueueEmpty
    <3>3. ToSet(toViewer) = {h} \cup ToSet(toViewer')
      BY <1>3, <2>1, QueueHead
    <3> QED
      BY <3>1, <3>2, <3>3
  <2> HIDE DEF h
  <2>4. \A m \in Served' : m.id = 0
    <3>1. \A m \in ToSet(toLibrary) : m.id = 0
      BY <1>3, <2>2 DEF Quiet, Notices, Tracked, Fits, Messages
    <3>2. server.request.id = 0
      BY <2>2 DEF Pipe, Quiet, NoRequest, Request
    <3> QED
      BY <1>0, <2>1, <2>3, <3>1, <3>2 DEF Served
  <2>5. ToAnswer' = ToAnswer /\ Held' = Held
    BY <1>0, <2>1, <2>3 DEF ToAnswer, Held, Answered
  <2>6. ASSUME NEW id, Alone(id) PROVE Alone(id)'
    <3>1. \A n \in ToSet(answers') : n \in ToSet(answers) \cup Served
      BY <2>3 DEF Served
    <3> QED
      BY <2>1, <2>4, <2>6, <3>1 DEF Alone
  <2> QED
    BY <2>5, <2>6
<1>8. CASE IoReceiveFails
  <2>1. /\ ToSet(answers') = ToSet(answers) \cup {gone}
        /\ UNCHANGED <<requests, toLibrary, toViewer>>
    BY <1>3, <1>8, QueueAppend DEF IoReceiveFails, pipeVars, ReportLoss, gone
  <2>2. ToAnswer' = ToAnswer /\ Served' = Served /\ \A m \in Held' : m \in Held \/ m = gone
    BY <1>0, <2>1 DEF ToAnswer, Held, Answered, Served
  <2>3. ASSUME NEW id, Alone(id) PROVE Alone(id)'
    BY <1>4, <2>1, <2>2, <2>3 DEF Alone
  <2> QED
    BY <1>4, <2>2, <2>3
<1>9. CASE IoEnd
  BY <1>3, <1>9 DEF IoEnd
<1> QED
  BY <1>6, <1>7, <1>8, <1>9

\* A step of the Library's that keeps or answers what it has received.
LEMMA ServedOn ==
    ASSUME Wanted, UNCHANGED <<viewer, requests, answers>>,
           \A m \in Served' : m.id = 0 \/ \E n \in Served : n.id = m.id,
           \A m \in ToAnswer' : m \in ToAnswer \/ ~Rebuilds(m)
    PROVE  Wanted'
<1> SUFFICES ASSUME viewer.mode = "library" PROVE Asked' /\ Single'
  BY DEF Wanted
<1>1. Asked /\ Single
  BY DEF Wanted
<1>2. ASSUME NEW id, Alone(id) PROVE Alone(id)'
  BY <1>2 DEF Alone
<1> QED
  BY <1>1, <1>2 DEF Asked, Single
-----------------------------------------------------------------------------
(* The Library's thread *)

LEMMA Appended == ASSUME NEW s, Queue(s) PROVE s \o <<>> = s /\ \A e : s \o <<e>> = Append(s, e)
BY DEF Queue

LEMMA QueueStays == ASSUME Library, NEW e PROVE Queue(Append(events, e))
BY QueueAppend DEF Library

\* A request is taken from the pipe, and answered or kept; one event may be left of it.
LEMMA Onward ==
    ASSUME Shapes, Pipe, Sync, UNCHANGED <<viewer, requests, answers, io, library>>,
           server.state = "serve", toLibrary # <<>>, toLibrary' = Tail(toLibrary),
           NEW request, request = Head(toLibrary), request.kind # "noMore",
           NEW answer, answer.id = request.id,
           toViewer' = toViewer \/ toViewer' = Append(toViewer, answer),
           server'.word = server.word, server'.request \in {server.request, request},
           server'.state = "waitWindow" => server'.request = request,
           \/ UNCHANGED events /\ server'.current = server.current
           \/ \E e : /\ events' = Append(events, e)
                     /\ e.kind \in AskedOfWindow =>
                           server'.state = "waitWindow" /\ server'.request.kind = e.kind
                     /\ IF Moves(e) THEN Target(e) = server'.current
                                    ELSE server'.current = server.current
    PROVE  Sync'
<1>1. /\ request \in ToSet(toLibrary) /\ ToSet(toLibrary') \subseteq ToSet(toLibrary)
      /\ ToSet(toViewer') \subseteq ToSet(toViewer) \cup {answer}
      /\ ToSet(toViewer) \subseteq ToSet(toViewer')
  <2>1. ToSet(toLibrary) = {request} \cup ToSet(toLibrary')
    BY QueueHead DEF Shapes
  <2>2. ToSet(Append(toViewer, answer)) = ToSet(toViewer) \cup {answer}
    BY QueueAppend DEF Shapes
  <2> QED
    BY <2>1, <2>2
<1>2. Library'
  <2>1. Queue(events)'
    BY QueueStays DEF Sync, Library, Queue
  <2> QED
    BY <2>1 DEF Sync, Library, Distinctly
<1>3. server.word = "none" /\ \A i \in DOMAIN events : events[i].kind \notin AskedOfWindow
  BY DEF Sync, AsksWindow
<1>4. AsksWindow'
  <2>1. CASE UNCHANGED events
    BY <1>3, <2>1 DEF AsksWindow
  <2>2. ASSUME NEW e, events' = Append(events, e),
               e.kind \in AskedOfWindow =>
                  server'.state = "waitWindow" /\ server'.request.kind = e.kind
        PROVE  AsksWindow'
    <3> DEFINE n == Len(events)
    <3>1. /\ n \in Nat /\ DOMAIN events = 1 .. n /\ DOMAIN events' = 1 .. n + 1
          /\ Len(events') = n + 1 /\ events'[n + 1] = e /\ \A i \in 1 .. n : events'[i] = events[i]
      BY <2>2 DEF Sync, Library, Queue
    <3> HIDE DEF n
    <3>2. ASSUME NEW i \in DOMAIN events', events'[i].kind \in AskedOfWindow
          PROVE  i = n + 1 /\ events'[i] = e
      BY <1>3, <3>1, <3>2
    <3> QED
      BY <1>3, <2>2, <3>1, <3>2 DEF AsksWindow
  <2> QED
    BY <2>1, <2>2
<1>5. Ends'
  BY DEF Sync, Ends, Linked
<1>6. \A m \in ToAnswer' : m \in ToAnswer
  BY <1>1 DEF ToAnswer
<1>7. Wanted'
  <2>1. \A m \in Served' : m.id = 0 \/ \E n \in Served : n.id = m.id
    BY <1>1 DEF Served
  <2> QED
    BY <1>6, <2>1, ServedOn DEF Sync
<1>8. ASSUME Astray PROVE Astray'
  <2>1. \A m \in Held : m.id = viewer.action.id => m.kind = "noMore"
    BY <1>8 DEF Astray
  <2>2. answer.id # viewer.action.id
    BY <1>1, <2>1 DEF Held, ToAnswer
  <2>3. \A m \in Held' : m \in Held \/ m = answer
    BY <1>1, <1>6 DEF Held, Answered
  <2> QED
    BY <1>8, <2>1, <2>2, <2>3 DEF Astray
<1>9. ASSUME Follow PROVE Follow'
  <2>1. CASE UNCHANGED events /\ server'.current = server.current
    BY <1>9, <2>1, Stayed DEF Sync
  <2>2. ASSUME NEW e, events' = Append(events, e),
               IF Moves(e) THEN Target(e) = server'.current
                           ELSE server'.current = server.current
        PROVE  Follow'
    BY <1>9, <2>2, Stayed, Told DEF Sync
  <2> QED
    BY <2>1, <2>2
<1>10. Following'
  BY <1>8, <1>9 DEF Sync, Following
<1> QED
  BY <1>2, <1>4, <1>5, <1>7, <1>10 DEF Sync

\* Reply, to the request at the head of the pipe.
LEMMA ReplySync ==
    ASSUME Shapes, Pipe, Sync, UNCHANGED <<viewer, requests, answers, io, library>>,
           server.state = "serve", toLibrary # <<>>, toLibrary' = Tail(toLibrary),
           NEW request, request = Head(toLibrary), request.kind # "noMore",
           NEW answer, answer.id = request.id, NEW current, NEW news, Reply(current, answer, news),
           \/ news = <<>> /\ current = server.current
           \/ \E e : /\ news = <<e>> /\ e.kind \notin AskedOfWindow
                     /\ IF Moves(e) THEN Target(e) = current ELSE current = server.current
    PROVE  Sync'
<1>1. /\ toViewer' = toViewer \/ toViewer' = Append(toViewer, answer)
      /\ server'.word = server.word /\ server'.request = server.request
      /\ server'.state # "waitWindow" /\ server'.current = current
      /\ events' = events \o news
  BY DEF Reply, Shapes
<1>2. \/ UNCHANGED events /\ server'.current = server.current
      \/ \E e : /\ events' = Append(events, e) /\ e.kind \notin AskedOfWindow
                /\ IF Moves(e) THEN Target(e) = server'.current
                               ELSE server'.current = server.current
  BY <1>1, Appended DEF Sync, Library
<1> QED
  BY <1>1, <1>2, Onward

LEMMA ServeSync == Shapes /\ Pipe /\ Awaited /\ Sync /\ Serve => Sync'
<1> SUFFICES ASSUME Shapes, Pipe, Awaited, Sync, Serve PROVE Sync'
  OBVIOUS
<1> DEFINE request == Head(toLibrary)
           error == Plain("error", request.id)
<1>1. /\ UNCHANGED <<viewer, requests, answers, io, library>> /\ server.state = "serve"
      /\ toLibrary # <<>> /\ toLibrary' = Tail(toLibrary)
  BY DEF Serve, viewerVars
<1>2. error.id = request.id
  BY DEF Plain, Response
<1>3. CASE ServeSource(request)
  <2> DEFINE e == Event("source", 0, request.book, NoBook)
  <2>1. /\ events' = Append(events, e) /\ UNCHANGED <<server, toViewer>>
        /\ request.kind = "source"
    BY <1>3 DEF ServeSource
  <2>2. ~Moves(e) /\ e.kind \notin AskedOfWindow
    BY DEF Event, Moves, AskedOfWindow
  <2> HIDE DEF e, request, error
  <2> QED
    BY <1>1, <1>2, <2>1, <2>2, Onward DEF request
<1>4. CASE ServeByWindow(request)
  <2>1. request.kind # "noMore"
    BY <1>4 DEF ServeByWindow, AskedOfWindow
  <2>2. CASE request.kind = "rebuild" /\ ~IsRequestedBookCurrent(request)
    <3>1. Reply(server.current, error, <<>>)
      BY <1>4, <2>2 DEF ServeByWindow
    <3> HIDE DEF request, error
    <3> QED
      BY <1>1, <1>2, <2>1, <3>1, ReplySync DEF request
  <2>3. CASE ~(request.kind = "rebuild" /\ ~IsRequestedBookCurrent(request))
    <3>1. PICK next : events' = Append(events, Event(request.kind, request.id, request.book, next))
      BY <1>4, <2>3 DEF ServeByWindow
    <3> DEFINE e == Event(request.kind, request.id, request.book, next)
    <3>2. /\ server'.state = "waitWindow" /\ server'.request = request
          /\ server'.word = server.word /\ server'.current = server.current
          /\ UNCHANGED toViewer
      BY <1>4, <2>3 DEF ServeByWindow, Shapes
    <3>3. ~Moves(e) /\ e.kind = request.kind
      BY <1>4 DEF ServeByWindow, Event, Moves, AskedOfWindow
    <3> HIDE DEF e, request, error
    <3>4. events' = Append(events, e)
      BY <3>1 DEF e
    <3> QED
      BY <1>1, <1>2, <2>1, <3>2, <3>3, <3>4, Onward DEF request
  <2> QED
    BY <2>2, <2>3
<1>5. CASE ServeState(request) \/ ServeAdjacentBooks(request)
  <2>1. PICK answer : answer.id = request.id /\ Reply(server.current, answer, <<>>)
    BY <1>5 DEF ServeState, ServeAdjacentBooks, Response
  <2>2. request.kind # "noMore"
    BY <1>5 DEF ServeState, ServeAdjacentBooks
  <2> HIDE DEF request
  <2> QED
    BY <1>1, <2>1, <2>2, ReplySync DEF request
<1>6. CASE ServeSession(request)
  <2> DEFINE answer == Plain("sessionAck", request.id)
             e == Event("session", request.id, request.book, NoBook)
  <2>1. /\ Reply(server.current, answer, <<e>>) /\ request.kind # "noMore"
        /\ answer.id = request.id
    BY <1>6 DEF ServeSession, Plain, Response
  <2>2. ~Moves(e) /\ e.kind \notin AskedOfWindow
    BY DEF Event, Moves, AskedOfWindow
  <2> HIDE DEF answer, e, request
  <2> QED
    BY <1>1, <2>1, <2>2, ReplySync DEF request
<1>7. CASE ServeNavigation(request)
  <2> DEFINE target == NavTarget(library.nav, server.current, onDisk, request.kind)
             none == Plain("noMore", request.id)
             there == Response("navigate", request.id, target, NoSpad, NoBook)
             e == Event("navigated", request.id, target, NoBook)
  <2>1. \/ Reply(server.current, none, <<>>)
        \/ Reply(target, there, <<e>>)
    BY <1>7 DEF ServeNavigation, NavigatedNews
  <2>2. request.kind # "noMore" /\ none.id = request.id /\ there.id = request.id
    BY <1>7 DEF ServeNavigation, Plain, Response
  <2>3. Moves(e) /\ Target(e) = target /\ e.kind \notin AskedOfWindow
    BY DEF Event, Moves, Target, AskedOfWindow
  <2> HIDE DEF target, none, there, e, request
  <2> QED
    BY <1>1, <2>1, <2>2, <2>3, ReplySync DEF request
<1>8. CASE ServeDelete(request)
  <2>1. PICK next, hood :
          \/ Reply(IF next = NoBook THEN server.current ELSE next,
                   Response("deleted", request.id, next, hood, next),
                   <<Event("deleted", request.id, server.current, next)>>)
          \/ Reply(server.current, error, <<>>)
    BY <1>8 DEF ServeDelete
  <2> DEFINE answer == Response("deleted", request.id, next, hood, next)
             e == Event("deleted", request.id, server.current, next)
             current == IF next = NoBook THEN server.current ELSE next
  <2>2. request.kind # "noMore" /\ answer.id = request.id
    BY <1>8 DEF ServeDelete, Response
  <2>3. /\ e.kind \notin AskedOfWindow
        /\ IF Moves(e) THEN Target(e) = current ELSE current = server.current
    BY DEF Event, Moves, Target, AskedOfWindow
  <2>4. Reply(current, answer, <<e>>) \/ Reply(server.current, error, <<>>)
    BY <2>1
  <2> HIDE DEF answer, e, error, current, request
  <2> QED
    BY <1>1, <1>2, <2>2, <2>3, <2>4, ReplySync DEF request
<1> QED
  BY <1>3, <1>4, <1>5, <1>6, <1>7, <1>8 DEF Serve

\* The word has come: the answer of a rebuild sends the Viewer on, or ends it, or fails it.
LEMMA ServeWindowAnswerSync ==
    Shapes /\ Pipe /\ Awaited /\ Sync /\ ServeWindowAnswer => Sync'
<1> SUFFICES ASSUME Shapes, Pipe, Awaited, Sync, ServeWindowAnswer PROVE Sync'
  OBVIOUS
<1> DEFINE request == server.request
           moved == request.kind = "rebuild" /\ server.word = "ok" /\ server.next # NoBook
           answer == IF server.word = "failed" THEN Plain("error", request.id)
                     ELSE IF moved
                     THEN Response("navigate", request.id, server.next, NoSpad, NoBook)
                     ELSE IF request.kind = "rebuild" THEN Plain("noMore", request.id)
                     ELSE Response(request.kind, request.id, request.book, NoSpad, NoBook)
           e == Event("navigated", request.id, server.next, NoBook)
<1>1. /\ server.state = "waitWindow" /\ server.word # "none"
      /\ UNCHANGED <<viewer, requests, answers, io, toLibrary, library>>
      /\ request.kind \in AskedOfWindow
  BY DEF ServeWindowAnswer, viewerVars, Pipe
<1>2. /\ server'.state = IF io # "dead" THEN "serve" ELSE "dead"
      /\ server'.request = NoRequest /\ server'.word = "none"
      /\ server'.current = IF moved THEN server.next ELSE server.current
  BY DEF ServeWindowAnswer, Shapes
<1>3. /\ toViewer' = IF io # "dead" THEN Append(toViewer, answer) ELSE toViewer
      /\ events' = IF moved THEN events \o <<e>> ELSE events
  BY DEF ServeWindowAnswer, NavigatedNews
<1>4. /\ answer.id = request.id
      /\ request.kind = "rebuild" /\ server.word = "ok" /\ ~moved => answer.kind = "noMore"
  BY DEF Plain, Response
<1>5. Moves(e) /\ Target(e) = server.next /\ e.kind \notin AskedOfWindow
  BY DEF Event, Moves, Target, AskedOfWindow
<1> HIDE DEF answer, e
<1>6. events' = IF moved THEN Append(events, e) ELSE events
  BY <1>3, Appended DEF Sync, Library
<1>7. Library'
  <2>1. Queue(events)'
    BY <1>6, QueueStays DEF Sync, Library, Queue
  <2> QED
    BY <1>1, <2>1 DEF Sync, Library, Distinctly
<1>8. AsksWindow'
  <2>1. \A i \in DOMAIN events : events[i].kind \notin AskedOfWindow
    BY <1>1 DEF Sync, AsksWindow
  <2>2. \A i \in DOMAIN events' : events'[i].kind \notin AskedOfWindow
    BY <1>5, <1>6, <2>1 DEF Sync, Library, Queue
  <2> QED
    BY <1>2, <2>2 DEF AsksWindow
<1>9. Ends'
  BY <1>1, <1>2 DEF Sync, Ends, Linked
<1>10. ToSet(toViewer') = ToSet(toViewer) \/ ToSet(toViewer') = ToSet(toViewer) \cup {answer}
  BY <1>3, QueueAppend DEF Shapes
<1>11. /\ \A m \in ToAnswer' : m \in ToSet(requests) \cup ToSet(toLibrary)
       /\ \A m \in ToAnswer' : m \in ToAnswer
  BY <1>1, <1>2 DEF ToAnswer
<1>12. Wanted'
  <2>1. \A m \in Served' : m.id = 0 \/ \E n \in Served : n.id = m.id
    BY <1>1, <1>2, <1>4, <1>10 DEF Served, NoRequest, Request
  <2> QED
    BY <1>1, <1>11, <2>1, ServedOn DEF Sync
<1>13. ASSUME viewer.mode = "library", io # "dead" PROVE Follow' \/ Astray'
  <2>1. Follow \/ Astray
    BY <1>1, <1>13 DEF Sync, Following
  <2>2. CASE moved
    BY <1>2, <1>5, <1>6, <2>2, Told DEF Sync
  <2>3. CASE ~moved /\ Follow
    BY <1>1, <1>2, <1>6, <2>3, Stayed DEF Sync
  <2>4. CASE ~moved /\ Astray
    <3>1. /\ Notices(toLibrary) /\ Tracked /\ Single
      BY <1>1, <1>13 DEF Pipe, Quiet, Waiting, Awaited, Linked, Sync, Wanted
    <3>2. request \in Held /\ request \in Served
      BY <1>1 DEF Held, ToAnswer, Served
    <3>3. answer.id = viewer.action.id => answer.kind = "noMore"
      BY <1>1, <1>4, <2>4, <3>2 DEF Astray, AskedOfWindow
    <3>4. \A m \in Held' : \/ m \in ToSet(requests) \cup ToSet(toLibrary) \cup Answered
                           \/ m = answer
      BY <1>1, <1>10, <1>11 DEF Held, Answered
    <3>5. ASSUME NEW m \in Held, m.id = viewer.action.id, m.kind = "rebuild", m = request
          PROVE  m \notin ToSet(requests) \cup ToSet(toLibrary) \cup Answered
      <4>1. m \notin ToSet(requests)
        BY <2>4, <3>1, <3>2, <3>5 DEF Single, Alone, Astray
      <4>2. m \notin ToSet(toLibrary)
        BY <3>1, <3>5 DEF Notices
      <4>3. m \notin Answered
        BY <3>1, <3>5 DEF Tracked, Errands
      <4> QED
        BY <4>1, <4>2, <4>3
    <3>6. ASSUME NEW m \in Held', m.id = viewer.action.id PROVE m.kind = "noMore"
      <4>1. CASE m = answer
        BY <3>3, <3>6, <4>1
      <4>2. CASE m \in ToSet(requests) \cup ToSet(toLibrary) \cup Answered
        <5>1. m \in Held
          BY <4>2 DEF Held, ToAnswer
        <5> QED
          BY <2>4, <3>5, <3>6, <4>2, <5>1 DEF Astray
      <4> QED
        BY <3>4, <4>1, <4>2
    <3> QED
      BY <1>1, <2>4, <3>6 DEF Astray
  <2> QED
    BY <2>1, <2>2, <2>3, <2>4
<1>14. Following'
  BY <1>1, <1>2, <1>13 DEF Following
<1> QED
  BY <1>7, <1>8, <1>9, <1>12, <1>14 DEF Sync

LEMMA ServerEndsSync == Shapes /\ Sync /\ ServerEnds => Sync'
<1> SUFFICES ASSUME Shapes, Sync, ServerEnds PROVE Sync'
  OBVIOUS
<1>1. /\ UNCHANGED <<viewer, requests, answers, io, toViewer, events, library>>
      /\ toLibrary' = <<>> /\ server'.state = "dead" /\ server'.request = NoRequest
  BY DEF ServerEnds, viewerVars, Shapes
<1>2. ToSet(toLibrary') = {}
  BY <1>1, QueueEmpty
<1>3. /\ \A m \in Served' : m.id = 0 \/ \E n \in Served : n.id = m.id
      /\ \A m \in ToAnswer' : m \in ToAnswer
  BY <1>1, <1>2 DEF Served, ToAnswer, NoRequest, Request
<1>4. Wanted'
  BY <1>1, <1>3, ServedOn DEF Sync
<1> QED
  BY <1>1, <1>4 DEF Sync, Library, AsksWindow, Ends, Following, Queue, Distinctly, Linked
-----------------------------------------------------------------------------
(* The Library's window thread *)

\* What draining an event leaves as it was; what is asked of the window thread comes last.
LEMMA DrainKeeps ==
    ASSUME Shapes, Sync, UNCHANGED <<viewer, requests, answers, io, toLibrary, toViewer>>,
           events # <<>>, events' = Tail(events), NEW e, e = Head(events),
           server'.state = server.state, server'.request = server.request,
           server' = server \/ e.kind \in AskedOfWindow,
           DOMAIN library' = {"list", "known", "selected", "nav"}, Distinctly(library'.list)
    PROVE  /\ Library' /\ AsksWindow' /\ Ends' /\ Wanted' /\ Held' = Held
           /\ server.state # "dead" /\ e.kind \in AskedOfWindow =>
                 server.state = "waitWindow" /\ server.word = "none" /\ server.request.kind = e.kind
<1> DEFINE n == Len(events)
<1>1. /\ n \in Nat /\ n > 0 /\ DOMAIN events = 1 .. n /\ DOMAIN events' = 1 .. n - 1
      /\ Len(events') = n - 1 /\ \A i \in 1 .. n - 1 : events'[i] = events[i + 1]
      /\ e = events[1]
  BY DEF Sync, Library, Queue
<1>2. Queue(events)'
  BY QueueTail DEF Sync, Library, Queue
<1>3. Library'
  BY <1>2 DEF Library
<1> HIDE DEF n
<1>4. ASSUME server.state # "dead", e.kind \in AskedOfWindow
      PROVE  /\ n = 1 /\ server.state = "waitWindow" /\ server.word = "none"
             /\ server.request.kind = e.kind
  <2>1. 1 \in DOMAIN events
    BY <1>1
  <2> QED
    BY <1>1, <1>4, <2>1 DEF Sync, AsksWindow, n
<1>5. AsksWindow'
  <2>1. CASE server' = server
    <3>1. ASSUME server.state # "dead", NEW i \in DOMAIN events', events'[i].kind \in AskedOfWindow
          PROVE  /\ i = Len(events') /\ server.state = "waitWindow"
                 /\ server.word = "none" /\ server.request.kind = events'[i].kind
      <4>1. i + 1 \in DOMAIN events /\ events'[i] = events[i + 1]
        BY <1>1, <3>1
      <4>2. /\ i + 1 = n /\ server.state = "waitWindow"
            /\ server.word = "none" /\ server.request.kind = events'[i].kind
        BY <3>1, <4>1 DEF Sync, AsksWindow, n
      <4> QED
        BY <1>1, <3>1, <4>2
    <3> QED
      BY <2>1, <3>1 DEF Sync, AsksWindow
  <2>2. CASE server' # server
    <3>1. server.state = "dead" \/ (server.state = "waitWindow" /\ DOMAIN events' = {})
      BY <1>1, <1>4, <2>2
    <3> QED
      BY <3>1 DEF AsksWindow
  <2> QED
    BY <2>1, <2>2
<1>6. Ends'
  BY DEF Sync, Ends, Linked
<1>7. Served' = Served /\ ToAnswer' = ToAnswer /\ Held' = Held
  BY DEF Served, ToAnswer, Held, Answered
<1>8. Wanted'
  BY <1>7, ServedOn DEF Sync
<1> QED
  BY <1>3, <1>4, <1>5, <1>6, <1>7, <1>8

\* A rebuild that was done: until its answer is polled the selection may be anywhere.
LEMMA Rebuilt ==
    ASSUME Shapes, Pipe, Awaited, Sync, viewer.mode = "library",
           UNCHANGED <<viewer, requests, answers, io, toLibrary, toViewer>>,
           server.state = "waitWindow", server.request.kind = "rebuild",
           server'.state = server.state, server'.request = server.request, server'.word = "ok"
    PROVE  Astray'
<1> DEFINE request == server.request
<1>1. Linked /\ Tracked /\ Asked /\ Single
  BY DEF Linked, Awaited, Sync, Wanted
<1>2. io = "wait" /\ toViewer = <<>> /\ Notices(toLibrary)
  BY <1>1 DEF Pipe, Quiet, Waiting, Sync, Ends
<1>3. request \in ToAnswer /\ request \in Served
  BY DEF ToAnswer, Served
<1>4. viewer.rangeInFlight /\ request.id = viewer.action.id
  BY <1>1, <1>3 DEF Asked, Rebuilds
<1>5. \A m \in ToSet(toLibrary) : m.id = 0
  BY <1>1, <1>2 DEF Notices, Tracked, Fits, Messages
<1>6. ToSet(toViewer) = {}
  BY <1>2, QueueEmpty
<1>7. ASSUME NEW m \in Held, m.id = viewer.action.id PROVE m = request
  BY <1>1, <1>3, <1>4, <1>5, <1>6, <1>7 DEF Held, ToAnswer, Answered, Single, Alone
<1>8. Held' = Held
  BY DEF Held, ToAnswer, Answered
<1> QED
  BY <1>4, <1>7, <1>8 DEF Astray

LEMMA DrainSync == Shapes /\ Pipe /\ Awaited /\ Sync /\ DrainEvent => Sync'
<1> SUFFICES ASSUME Shapes, Pipe, Awaited, Sync, DrainEvent PROVE Sync'
  OBVIOUS
<1> DEFINE e == Head(events)
<1>1. /\ UNCHANGED <<viewer, requests, answers, io, toLibrary, toViewer>>
      /\ events # <<>> /\ events' = Tail(events) /\ Library
  BY DEF DrainEvent, viewerVars, pipeVars, Sync
<1>2. SUFFICES /\ server'.state = server.state /\ server'.request = server.request
               /\ server'.current = server.current
               /\ server' = server \/ e.kind \in AskedOfWindow
               /\ DOMAIN library' = {"list", "known", "selected", "nav"}
               /\ Distinctly(library'.list)
               /\ library'.known \cup ToSet(library'.list)
                    \subseteq library.known \cup ToSet(library.list)
               /\ \/ e.kind = "rebuild" /\ (server.state # "dead" => server'.word = "ok")
                  \/ IF Moves(e) THEN library'.selected \in {Target(e), NoBook}
                     ELSE library.selected \in {server.current, NoBook} =>
                             \/ library'.selected = library.selected
                             \/ server.current \notin library'.known \cup ToSet(library'.list)
  <2> HIDE DEF e
  <2>1. /\ Library' /\ AsksWindow' /\ Ends' /\ Wanted' /\ Held' = Held
        /\ server.state # "dead" /\ e.kind \in AskedOfWindow =>
              server.state = "waitWindow" /\ server.word = "none" /\ server.request.kind = e.kind
    BY <1>1, <1>2, DrainKeeps DEF e
  <2>2. ASSUME viewer.mode = "library", server.state # "dead" PROVE Follow' \/ Astray'
    <3>1. CASE e.kind = "rebuild" /\ server'.word = "ok"
      <4>1. server.state = "waitWindow" /\ server.request.kind = "rebuild"
        BY <2>1, <2>2, <3>1 DEF AskedOfWindow
      <4> QED
        BY <1>1, <1>2, <2>2, <3>1, <4>1, Rebuilt
    <3>2. CASE Follow /\ ~(e.kind = "rebuild" /\ server'.word = "ok")
      BY <1>1, <1>2, <2>2, <3>2, Drained DEF e
    <3>3. CASE Astray
      <4>1. \A m \in Held : m.id = viewer.action.id =>
               \/ m.kind = "noMore"
               \/ /\ m = server.request /\ server.state = "waitWindow" /\ m.kind = "rebuild"
                  /\ server.word = "ok" /\ server' = server
        BY <1>2, <2>1, <2>2, <3>3 DEF Astray
      <4> QED
        BY <1>1, <2>1, <3>3, <4>1 DEF Astray
    <3> QED
      BY <2>2, <3>1, <3>2, <3>3 DEF Sync, Following
  <2>3. Following'
    BY <1>1, <1>2, <2>2 DEF Following
  <2> QED
    BY <2>1, <2>3 DEF Sync
<1>3. Shapes /\ Distinctly(library.list) /\ DOMAIN library = {"list", "known", "selected", "nav"}
  BY <1>1 DEF Library
<1>4. \A word, next : Tell(word, next) =>
         /\ server'.state = server.state /\ server'.request = server.request
         /\ server'.current = server.current
         /\ server.state # "dead" => server'.word = word
  BY DEF Tell, Shapes
<1> HIDE DEF e
<1>5. CASE e.kind = "deleted"
  <2> DEFINE l == Forget(library, e.book)
  <2>1. library' = (IF e.next = NoBook THEN l ELSE Select(l, e.next)) /\ server' = server
    BY <1>5 DEF DrainEvent, DrainDeleted, e
  <2>2. /\ DOMAIN l = {"list", "known", "selected", "nav"} /\ Distinctly(l.list)
        /\ l.known = library.known \ {e.book} /\ ToSet(l.list) = ToSet(library.list) \ {e.book}
        /\ library.selected # e.book \/ e.book = NoBook => l.selected = library.selected
    BY <1>1, <1>3, ForgetFacts
  <2> HIDE DEF l
  <2>3. CASE e.next = NoBook
    <3>1. ~Moves(e) /\ library' = l
      BY <1>5, <2>1, <2>3 DEF Moves
    <3> QED
      BY <2>1, <2>2, <3>1
  <2>4. CASE e.next # NoBook
    <3>1. Moves(e) /\ Target(e) = e.next /\ library' = Select(l, e.next)
      BY <1>5, <2>1, <2>4 DEF Moves, Target
    <3>2. /\ DOMAIN library' = {"list", "known", "selected", "nav"} /\ library'.list = l.list
          /\ library'.known = l.known /\ library'.selected \in {e.next, NoBook}
      BY <2>2, <3>1, SelectFacts
    <3> QED
      BY <2>1, <2>2, <3>1, <3>2
  <2> QED
    BY <2>3, <2>4
<1>6. CASE e.kind = "navigated"
  <2>1. library' = Select(library, e.book) /\ server' = server
    BY <1>6 DEF DrainEvent, DrainNavigated, e
  <2>2. Moves(e) /\ Target(e) = e.book
    BY <1>6 DEF Moves, Target
  <2>3. /\ DOMAIN library' = {"list", "known", "selected", "nav"} /\ library'.list = library.list
        /\ library'.known = library.known /\ library'.selected \in {e.book, NoBook}
    BY <1>3, <2>1, SelectFacts
  <2> QED
    BY <1>3, <2>1, <2>2, <2>3
<1>7. CASE e.kind = "rebuild"
  <2>1. DrainRebuild(e)
    BY <1>7 DEF DrainEvent, e
  <2>2. ~Moves(e) /\ e.kind \in AskedOfWindow
    BY <1>7 DEF Moves, AskedOfWindow
  <2>3. CASE UNCHANGED library
    <3>1. PICK word, next : Tell(word, next)
      BY <2>1 DEF DrainRebuild
    <3> QED
      BY <1>3, <1>4, <2>2, <2>3, <3>1
  <2>4. CASE Tell("ok", e.next) /\ library' = Forget(library, e.book)
    <3> DEFINE l == Forget(library, e.book)
    <3>1. /\ DOMAIN l = {"list", "known", "selected", "nav"} /\ Distinctly(l.list)
          /\ l.known = library.known \ {e.book} /\ ToSet(l.list) = ToSet(library.list) \ {e.book}
      BY <1>1, <1>3, ForgetFacts
    <3> HIDE DEF l
    <3> QED
      BY <1>4, <1>7, <2>2, <2>4, <3>1 DEF l
  <2>5. CASE /\ Tell("ok", e.next)
             /\ library' = [library EXCEPT !.selected = AfterRemoval(library, e.book)]
    <3>1. /\ DOMAIN library' = DOMAIN library /\ library'.list = library.list
          /\ library'.known = library.known
      BY <1>3, <2>5
    <3> QED
      BY <1>3, <1>4, <1>7, <2>2, <2>5, <3>1
  <2> QED
    BY <2>1, <2>3, <2>4, <2>5 DEF DrainRebuild
<1>8. CASE e.kind \in {"favorite", "filter", "filterState"}
  <2>1. PICK word, next : Tell(word, next) /\ UNCHANGED library
    BY <1>8 DEF DrainEvent, DrainFavorite, e
  <2>2. ~Moves(e) /\ e.kind \in AskedOfWindow
    BY <1>8 DEF Moves, AskedOfWindow
  <2> QED
    BY <1>3, <1>4, <2>1, <2>2
<1>9. CASE e.kind \notin {"deleted", "navigated", "rebuild", "favorite", "filter", "filterState"}
  <2>1. UNCHANGED <<server, library>> /\ ~Moves(e)
    BY <1>9 DEF DrainEvent, Moves, e
  <2> QED
    BY <1>3, <2>1
<1> QED
  BY <1>5, <1>6, <1>7, <1>8, <1>9

\* Another list takes the place of the old; what is selected stays so, or nothing is.
LEMMA Listed ==
    ASSUME Sync, UNCHANGED <<viewer, requests, answers, io, toLibrary, toViewer, server, events>>,
           DOMAIN library' = {"list", "known", "selected", "nav"}, Distinctly(library'.list),
           library'.known \cup ToSet(library'.list)
              \subseteq library.known \cup ToSet(library.list),
           library'.selected \in {library.selected, NoBook}
    PROVE  Sync'
<1>1. Library' /\ AsksWindow' /\ Ends'
  BY DEF Sync, Library, AsksWindow, Ends, Queue, Linked
<1>2. Served' = Served /\ ToAnswer' = ToAnswer /\ Held' = Held
  BY DEF Served, ToAnswer, Held, Answered
<1>3. Wanted'
  BY <1>2, ServedOn DEF Sync
<1>4. Follow => Follow'
  BY DEF Follow
<1>5. Astray => Astray'
  BY <1>2 DEF Astray
<1> QED
  BY <1>1, <1>3, <1>4, <1>5 DEF Sync, Following

LEMMA LibrarySync == Shapes /\ Sync /\ (RefreshLibraryBookOrder \/ ReorderList) => Sync'
<1> SUFFICES ASSUME Shapes, Sync, RefreshLibraryBookOrder \/ ReorderList PROVE Sync'
  OBVIOUS
<1>1. UNCHANGED <<viewer, requests, answers, io, toLibrary, toViewer, server, events>>
  BY DEF RefreshLibraryBookOrder, ReorderList, viewerVars, pipeVars
<1>2. Distinctly(library.list) /\ DOMAIN library = {"list", "known", "selected", "nav"}
  BY DEF Sync, Library
<1>3. CASE RefreshLibraryBookOrder
  <2>1. /\ DOMAIN library' = DOMAIN library /\ library'.list = library.list
        /\ library'.known = library.known /\ library'.selected = library.selected
    BY <1>2, <1>3 DEF RefreshLibraryBookOrder
  <2> QED
    BY <1>1, <1>2, <2>1, Listed
<1>4. CASE ReorderList
  <2>1. PICK order \in Orders :
          /\ ToSet(order) \subseteq library.known
          /\ library' = Select([library EXCEPT !.list = order], library.selected)
    BY <1>4 DEF ReorderList
  <2> DEFINE l == [library EXCEPT !.list = order]
  <2>2. DOMAIN l = DOMAIN library /\ l.list = order /\ l.known = library.known
    BY <1>2
  <2> HIDE DEF l
  <2>3. /\ DOMAIN library' = {"list", "known", "selected", "nav"} /\ library'.list = order
        /\ library'.known = library.known /\ library'.selected \in {library.selected, NoBook}
    BY <1>2, <2>1, <2>2, SelectFacts DEF l
  <2>4. Distinctly(order)
    <3>1. order \in Seq(1 .. NumBooks) /\ IsInjective(order) /\ NumBooks \in Nat
      BY IpcAssumption
    <3>2. DOMAIN order = 1 .. Len(order) /\ \A i \in DOMAIN order : order[i] \in 1 .. NumBooks
      BY <3>1
    <3>3. order \in Seq(ToSet(order)) /\ NoBook \notin ToSet(order)
      BY <3>1, <3>2 DEF ToSet, NoBook
    <3> QED
      BY <3>1, <3>3 DEF Distinctly
  <2> QED
    BY <1>1, <2>1, <2>3, <2>4, Listed
<1> QED
  BY <1>3, <1>4

LEMMA StutterSync == Sync /\ UNCHANGED vars => Sync'
<1> SUFFICES ASSUME Sync, UNCHANGED vars PROVE Sync'
  OBVIOUS
<1>1. UNCHANGED <<viewer, requests, answers, io, toLibrary, toViewer, server, events, library>>
  BY DEF vars
<1> QED
  BY <1>1, Listed DEF Sync, Library
-----------------------------------------------------------------------------
(* The first state, and all steps *)

LEMMA InitSync == Init => Sync
<1> SUFFICES ASSUME Init PROVE Sync
  OBVIOUS
<1>1. PICK book \in Starts, mode \in {"library", "snapshot"} :
        /\ viewer = ViewerStart(book, mode)
        /\ requests = FirstRequests(book, mode)
        /\ server = [state |-> "serve", current |-> book, word |-> "none", next |-> NoBook,
                     request |-> NoRequest]
        /\ library = [list |-> NaturalOrder, known |-> Books, selected |-> book,
                      nav |-> [books |-> NaturalOrder, previous |-> <<>>]]
  BY DEF Init
<1>2. io = "ready" /\ toLibrary = <<>> /\ events = <<>>
  BY DEF Init
<1>3. Distinctly(NaturalOrder)
  <2>1. NumBooks \in Nat
    BY IpcAssumption
  <2>2. DOMAIN NaturalOrder = 1 .. NumBooks /\ \A i \in 1 .. NumBooks : NaturalOrder[i] = i
    BY DEF NaturalOrder, Books
  <2>3. ToSet(NaturalOrder) = 1 .. NumBooks
    BY <2>2 DEF ToSet
  <2>4. NaturalOrder \in Seq(1 .. NumBooks)
    BY <2>1 DEF NaturalOrder, Books
  <2>5. IsInjective(NaturalOrder)
    BY <2>2 DEF IsInjective
  <2> QED
    BY <2>3, <2>4, <2>5 DEF Distinctly, NoBook
<1>4. Library
  BY <1>1, <1>2, <1>3, QueueEmpty DEF Library
<1>5. ~viewer.rangeInFlight
  BY <1>1 DEF ViewerStart
<1> DEFINE first == <<Request("state", 1, book, NoBook)>>
           second == IF mode = "library" THEN <<Request("spad", 2, NoBook, NoBook)>> ELSE <<>>
<1>6. /\ Queue(first) /\ \A m \in ToSet(first) : ~Rebuilds(m)
      /\ Queue(second) /\ \A m \in ToSet(second) : ~Rebuilds(m)
  BY QueueOne, QueueEmpty DEF Rebuilds, Request
<1>7. requests = first \o second
  BY <1>1 DEF FirstRequests
<1> HIDE DEF first, second
<1>8. \A m \in ToSet(requests) : ~Rebuilds(m)
  BY <1>6, <1>7, QueueConcat
<1>9. \A m \in ToAnswer : ~Rebuilds(m)
  BY <1>1, <1>2, <1>8, QueueEmpty DEF ToAnswer
<1>10. Wanted
  BY <1>5, <1>9 DEF Wanted, Asked, Single
<1>11. Follow
  BY <1>1, <1>2 DEF Follow
<1>12. AsksWindow /\ Ends
  BY <1>1, <1>2 DEF AsksWindow, Ends
<1> QED
  BY <1>4, <1>10, <1>11, <1>12 DEF Sync, Following

LEMMA NextSync == Shapes /\ Pipe /\ Awaited /\ Sync /\ [Next]_vars => Sync'
<1> SUFFICES ASSUME Shapes, Pipe, Awaited, Sync, [Next]_vars PROVE Sync'
  OBVIOUS
<1>1. CASE UserAction
  BY <1>1, KeysSync, ApplyDeleteChoiceSync, DialogsSync, SideRequestsSync, SendSourceChangedSync,
     EndingSync DEF UserAction
<1> QED
  BY <1>1, IoSync, ServeSync, ServeWindowAnswerSync, ServerEndsSync, DrainSync, LibrarySync,
     PollLibraryIpcSync, EndingSync, StutterSync DEF Next

LEMMA SyncSuffices == Sync => SelectionFollows
<1> SUFFICES ASSUME Sync, viewer.mode = "library", ~viewer.rangeInFlight, server.state = "serve"
             PROVE  \/ Heading \in {server.current, NoBook}
                    \/ server.current \notin ToSet(library.list)
  BY DEF SelectionFollows
<1> DEFINE told == {i \in DOMAIN events : events[i].kind = "navigated"
                       \/ (events[i].kind = "deleted" /\ events[i].next # NoBook)}
<1>1. told = {i \in DOMAIN events : Moves(events[i])}
  BY DEF Moves
<1>2. Follow
  BY DEF Sync, Following, Astray
<1>3. CASE \A i \in DOMAIN events : ~Moves(events[i])
  <2>1. told = {}
    BY <1>1, <1>3
  <2>2. Heading = library.selected
    BY <2>1 DEF Heading
  <2> QED
    BY <1>2, <1>3, <2>2 DEF Follow
<1>4. ASSUME NEW i \in DOMAIN events, Moves(events[i]), Target(events[i]) = server.current,
             \A j \in DOMAIN events : Moves(events[j]) => j <= i
      PROVE  Heading = server.current
  <2>1. i \in told /\ \A j \in told : j <= i
    BY <1>1, <1>4
  <2>2. told \subseteq Nat
    BY DEF Sync, Library, Queue
  <2>3. told # {} /\ Heading = LET e == events[Max(told)]
                              IN IF e.kind = "deleted" THEN e.next ELSE e.book
    BY <2>1 DEF Heading
  <2> HIDE DEF told
  <2>4. Max(told) = i
    BY <2>1, <2>2 DEF Max
  <2> QED
    BY <1>4, <2>3, <2>4 DEF Target
<1> QED
  BY <1>2, <1>3, <1>4 DEF Follow
-----------------------------------------------------------------------------

(***************************************************************************)
(* The Library's selection follows the Viewer: what the server's thread    *)
(* and a deletion leave for drain_pending_viewer_sync_events to do ends    *)
(* with the book the Viewer was last sent to selected, or with none when   *)
(* the list does not show it, in whatever order the user sorts the list    *)
(* meanwhile; a rebuild's wait excepted.                                   *)
(***************************************************************************)
THEOREM SelectionCorrect == Spec => []SelectionFollows
<1>1. Inv => Shapes
  BY DEF Inv
<1> QED
  BY <1>1, InitAwaited, NextAwaited, InitSync, NextSync, SyncSuffices, Invariant, PTL DEF Spec
=============================================================================
