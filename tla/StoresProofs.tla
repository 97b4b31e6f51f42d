---------------------------- MODULE StoresProofs ----------------------------
(***************************************************************************)
(* What is proved of the stores, for any number of paths, Viewers,         *)
(* sessions and failures: the four invariants of Stores.                   *)
(*                                                                         *)
(* None of them is inductive.  The invariant, Inv, has a part for each:    *)
(*   Fresh      a copy of book_state.json that is not stale is the file,   *)
(*              so that what is written is the file with one change to it  *)
(*              (RecordKept);                                              *)
(*   Seen       a status that the Library shows wrongly is one it has been *)
(*              told of, or is about to look at (HudAgrees);               *)
(*   Forgotten  what a book that has gone left is there only as long as    *)
(*              its deletion or renaming is under way (NothingLeftBehind); *)
(*   Lines, Own a session that has ended is in one Viewer's line, once,    *)
(*              and every Viewer has a session of its own (ToldOnce).      *)
(* Each part is shown to be kept by the steps in a section of its own; the *)
(* last section puts them together.                                        *)
(***************************************************************************)
EXTENDS Stores, SequenceTheorems, TLAPS

\* The values the variables hold.
Data     == [Paths -> Records]
Spots    == Paths \cup {NoPath}
Pages    == {"none", "first", "last"}
Apps     == [state : {"gone", "open", "deleting", "answered", "closing"}, book : Spots,
             copy : Data, stale : BOOLEAN, linked : BOOLEAN, start : Pages, shown : Pages,
             id : Nat, inFlight : BOOLEAN, sent : BOOLEAN, next : Spots, closes : BOOLEAN]
Asks     == [kind : {"finished", "delete"}, book : Paths, shown : Pages, id : Nat]
Threads  == [busy : BOOLEAN, copy : Data, stale : BOOLEAN]
Syncs    == [kind : {"finished", "deleted"}, book : Paths, next : Spots]
Tasks    == [op : {"none", "clear", "forget", "rename"}, book : Spots, to : Spots, copy : Data,
             stale : BOOLEAN]
Outcomes == {"open", "ended", "told", "untold", "wrong"}

\* What the files have, and the copies of them.
Books ==
    /\ files \subseteq Paths /\ done \subseteq Paths /\ late \subseteq Paths /\ off \subseteq Paths
    /\ favs \subseteq Paths /\ favFile \subseteq Paths /\ groups \subseteq Paths
    /\ disk \in Data /\ due \in Data /\ hud \in [Paths -> Statuses \cup {"absent"}]
Actors ==
    /\ viewer \in [Viewers -> Apps] /\ line \in [Viewers -> Seq(Asks)]
    /\ thread \in [Viewers -> Threads] /\ ui \in Tasks
    /\ syncs \in Seq(Syncs) /\ sessions \in Seq(Outcomes)
    /\ \A v \in Viewers : viewer[v].state # "gone" => viewer[v].book \in Paths
    /\ \A v \in Viewers : thread[v].busy => line[v] # <<>> /\ Head(line[v]).kind = "finished"

\* The window thread's task: a book that has been renamed is under its new name, or is leaving.
Noted(kind, p) == \E i \in DOMAIN syncs : syncs[i].kind = kind /\ syncs[i].book = p
Leaving(p) == \/ p \in done \/ Noted("deleted", p)
              \/ ui.op \in {"forget", "rename"} /\ ui.book = p
Task ==
    /\ ui.op # "none" => ui.book \in Paths
    /\ ui.op = "rename" => /\ ui.to \in Paths /\ ui.book \notin files /\ ui.book # ui.to
                           /\ ui.to \in files \/ Leaving(ui.to)

\* A copy that is not stale is what the file has.
Fresh ==
    /\ \A v \in Viewers : viewer[v].state # "gone" /\ ~viewer[v].stale => viewer[v].copy = disk
    /\ \A v \in Viewers : thread[v].busy /\ ~thread[v].stale => thread[v].copy = disk
    /\ ui.op # "none" /\ ~ui.stale => ui.copy = disk

\* A status that is not shown is about to be.
Unseen(p) == \/ Noted("finished", p)
             \/ ui.op = "rename" /\ ui.to = p
             \/ ui.op = "forget" /\ ui.book = p
Shown(p)  == IF hud[p] = "absent" THEN "Unread" ELSE hud[p]
Seen      == /\ \A p \in files \ off : StatusOf(disk[p]) = Shown(p) \/ Unseen(p)
             /\ ui.op = "forget" => hud[ui.book] = "absent"

\* What a book that has gone leaves is about to go.
Bare(p)   == disk[p] = NoRecord /\ p \notin favs /\ p \notin groups \cap Plain
Forgotten == /\ favs \subseteq favFile
             /\ \A p \in Paths \ (files \cup late) : Bare(p) \/ Leaving(p)
             /\ ui.op = "forget" =>
                    ui.book \in files \/ ui.book \notin favs \/ Noted("deleted", ui.book)

\* A session that has ended is told of in one line, once, and in none before.
IsTold(l, v, i) == l[v][i].kind = "finished"
Lines(l, ss) ==
    /\ \A s \in DOMAIN ss : ss[s] # "wrong"
    /\ \A v \in Viewers : \A i \in DOMAIN l[v] :
           IsTold(l, v, i) => l[v][i].id \in DOMAIN ss /\ ss[l[v][i].id] = "ended"
    /\ \A v, w \in Viewers : \A i \in DOMAIN l[v], j \in DOMAIN l[w] :
           IsTold(l, v, i) /\ IsTold(l, w, j) /\ l[v][i].id = l[w][j].id => v = w /\ i = j
    /\ \A s \in DOMAIN ss :
           ss[s] = "ended" => \E v \in Viewers : \E i \in DOMAIN l[v] : IsTold(l, v, i) /\ l[v][i].id = s

\* The session of a Viewer that does not close is under way; one that closes has told it.
Session(w, ss) ==
    w.state # "gone" =>
        /\ w.id \in DOMAIN ss
        /\ w.state # "closing" => /\ ~w.inFlight /\ ~w.sent
                                  /\ ss[w.id] = IF w.linked THEN "open" ELSE "untold"
        /\ w.state = "closing" => ~Tells(w)
Own == /\ \A v \in Viewers : Session(viewer[v], sessions)
       /\ \A v, w \in Viewers : /\ v # w
                                /\ viewer[v].state # "gone" /\ viewer[w].state # "gone"
                                => viewer[v].id # viewer[w].id

Typed == Books /\ Actors
Inv == Typed /\ Task /\ Fresh /\ RecordKept /\ Seen /\ Forgotten /\ Lines(line, sessions) /\ Own

-----------------------------------------------------------------------------
(* Values *)

LEMMA RecordTypes ==
    /\ NoRecord \in Records /\ Default \in Records /\ NoRecords \in Data /\ NoPath \notin Paths
    /\ \A r \in Records : /\ Entry(r) \in [status : Statuses, option : 0 .. 1]
                          /\ Entry(r) \in Records /\ StatusOf(r) \in Statuses
    /\ \A r \in Records, shown \in Pages : Apply(r, shown) \in Records /\ Judged(r, shown) \in Records
    /\ \A r \in Records, n \in 0 .. 1 : [Entry(r) EXCEPT !.option = n] \in Records
    /\ Gone \in Apps /\ IdleThread \in Threads /\ IdleUi \in Tasks
<1>1. /\ NoRecord \in Records /\ Default \in Records /\ NoPath \notin Paths
      /\ Default \in [status : Statuses, option : 0 .. 1]
  BY DEF Records, NoRecord, Default, Statuses, NoPath, Paths
<1>2. NoRecords \in Data
  BY <1>1 DEF NoRecords, Data
<1>3. ASSUME NEW r \in Records
      PROVE  /\ Entry(r) \in [status : Statuses, option : 0 .. 1]
             /\ Entry(r) \in Records /\ StatusOf(r) \in Statuses
  <2>1. Entry(r) \in [status : Statuses, option : 0 .. 1]
    BY <1>1 DEF Entry, Records
  <2>. QED  BY <2>1 DEF StatusOf, Records
<1>4. ASSUME NEW r \in Records, NEW shown \in Pages
      PROVE  Apply(r, shown) \in Records /\ Judged(r, shown) \in Records
  <2>1. Entry(r) \in [status : Statuses, option : 0 .. 1]
    BY <1>3
  <2>2. Apply(r, shown) \in Records
    BY <2>1 DEF Apply, Records, Statuses
  <2>3. r.option \in 0 .. 1
    BY DEF Records, NoRecord
  <2>4. Judged(r, shown) \in Records
    BY <2>3 DEF Judged, Records, Statuses, Pages
  <2>. QED  BY <2>2, <2>4
<1>5. ASSUME NEW r \in Records, NEW n \in 0 .. 1
      PROVE  [Entry(r) EXCEPT !.option = n] \in Records
  BY <1>3 DEF Records
<1>6. Gone \in Apps
  BY <1>2 DEF Gone, Apps, Spots, Pages
<1>7. IdleThread \in Threads /\ IdleUi \in Tasks
  BY <1>2 DEF IdleThread, IdleUi, Threads, Tasks, Spots
<1>. QED  BY <1>1, <1>2, <1>3, <1>4, <1>5, <1>6, <1>7

LEMMA SeqFacts ==
    ASSUME NEW S, NEW s \in Seq(S)
    PROVE  /\ DOMAIN s = 1 .. Len(s) /\ Len(s) \in Nat
           /\ \A i \in DOMAIN s : s[i] \in S
           /\ s # <<>> => /\ Head(s) = s[1] /\ Head(s) \in S /\ 1 \in DOMAIN s
                          /\ Tail(s) \in Seq(S) /\ DOMAIN Tail(s) = 1 .. Len(s) - 1
                          /\ \A i \in DOMAIN Tail(s) : Tail(s)[i] = s[i + 1]
           /\ \A x \in S : /\ Append(s, x) \in Seq(S) /\ DOMAIN Append(s, x) = 1 .. Len(s) + 1
                           /\ Append(s, x)[Len(s) + 1] = x
                           /\ \A i \in 1 .. Len(s) : Append(s, x)[i] = s[i]
OBVIOUS

\* What a write leaves of the copies of others.
LEMMA WrittenTypes ==
    ASSUME Books, NEW data \in Data, NEW ok \in BOOLEAN
    PROVE  Written(data, ok) \in Data
BY DEF Written, Books

LEMMA AgedTypes ==
    ASSUME Books, NEW data \in Data, NEW ok \in BOOLEAN
    PROVE  /\ \A h \in Apps : Aged(h, data, ok) \in Apps
           /\ \A h \in Threads : Aged(h, data, ok) \in Threads
           /\ \A h \in Tasks : Aged(h, data, ok) \in Tasks
<1>1. ASSUME NEW h \in Apps PROVE Aged(h, data, ok) \in Apps
  BY DEF Aged, Apps
<1>2. ASSUME NEW h \in Threads PROVE Aged(h, data, ok) \in Threads
  BY DEF Aged, Threads
<1>3. ASSUME NEW h \in Tasks PROVE Aged(h, data, ok) \in Tasks
  BY DEF Aged, Tasks
<1>. QED  BY <1>1, <1>2, <1>3

\* All but that flag stays as it was.
LEMMA AgedIs ==
    ASSUME Books, NEW data \in Data, NEW ok \in BOOLEAN
    PROVE  /\ \A h \in Apps : LET a == Aged(h, data, ok)
                              IN  /\ a.state = h.state /\ a.book = h.book /\ a.copy = h.copy
                                  /\ a.linked = h.linked /\ a.id = h.id /\ a.sent = h.sent
                                  /\ a.inFlight = h.inFlight /\ a.shown = h.shown
                                  /\ ~a.stale => ~h.stale /\ Written(data, ok) = disk
           /\ \A h \in Threads : LET a == Aged(h, data, ok)
                                 IN  /\ a.busy = h.busy /\ a.copy = h.copy
                                     /\ ~a.stale => ~h.stale /\ Written(data, ok) = disk
           /\ \A h \in Tasks : LET a == Aged(h, data, ok)
                               IN  /\ a.op = h.op /\ a.book = h.book /\ a.to = h.to
                                   /\ a.copy = h.copy
                                   /\ ~a.stale => ~h.stale /\ Written(data, ok) = disk
<1>1. ASSUME NEW h \in Apps
      PROVE  LET a == Aged(h, data, ok)
             IN  /\ a.state = h.state /\ a.book = h.book /\ a.copy = h.copy
                 /\ a.linked = h.linked /\ a.id = h.id /\ a.sent = h.sent
                 /\ a.inFlight = h.inFlight /\ a.shown = h.shown
                 /\ ~a.stale => ~h.stale /\ Written(data, ok) = disk
  BY DEF Aged, Apps
<1>2. ASSUME NEW h \in Threads
      PROVE  LET a == Aged(h, data, ok)
             IN  /\ a.busy = h.busy /\ a.copy = h.copy
                 /\ ~a.stale => ~h.stale /\ Written(data, ok) = disk
  BY DEF Aged, Threads
<1>3. ASSUME NEW h \in Tasks
      PROVE  LET a == Aged(h, data, ok)
             IN  /\ a.op = h.op /\ a.book = h.book /\ a.to = h.to /\ a.copy = h.copy
                 /\ ~a.stale => ~h.stale /\ Written(data, ok) = disk
  BY DEF Aged, Tasks
<1>. QED  BY <1>1, <1>2, <1>3

\* The same of all Viewers: those that run stay so, with their copies.
LEMMA AgedViewersAre ==
    ASSUME Typed, NEW data \in Data, NEW ok \in BOOLEAN
    PROVE  /\ AgedViewers(data, ok) \in [Viewers -> Apps]
           /\ \A v \in Viewers :
                  LET a == AgedViewers(data, ok)[v]
                  IN  /\ a.state = viewer[v].state
                      /\ a.state # "gone" =>
                             /\ a.book = viewer[v].book /\ a.copy = viewer[v].copy
                             /\ a.linked = viewer[v].linked /\ a.id = viewer[v].id
                             /\ a.sent = viewer[v].sent /\ a.inFlight = viewer[v].inFlight
                             /\ ~a.stale => ~viewer[v].stale /\ Written(data, ok) = disk
<1>1. ASSUME NEW v \in Viewers
      PROVE  LET a == AgedViewers(data, ok)[v]
             IN  /\ a \in Apps /\ a.state = viewer[v].state
                 /\ a.state # "gone" =>
                        /\ a.book = viewer[v].book /\ a.copy = viewer[v].copy
                        /\ a.linked = viewer[v].linked /\ a.id = viewer[v].id
                        /\ a.sent = viewer[v].sent /\ a.inFlight = viewer[v].inFlight
                        /\ ~a.stale => ~viewer[v].stale /\ Written(data, ok) = disk
  <2>1. viewer[v] \in Apps /\ Gone \in Apps /\ Books
    BY RecordTypes DEF Typed, Actors
  <2>2. CASE viewer[v].state = "gone"
    <3>1. AgedViewers(data, ok)[v] = Gone
      BY <2>2 DEF AgedViewers
    <3>2. Gone.state = "gone"
      BY DEF Gone
    <3>. QED  BY <2>1, <2>2, <3>1, <3>2
  <2>3. CASE viewer[v].state # "gone"
    <3>1. AgedViewers(data, ok)[v] = Aged(viewer[v], data, ok)
      BY <2>3 DEF AgedViewers
    <3>. QED  BY <2>1, <3>1, AgedTypes, AgedIs
  <2>. QED  BY <2>2, <2>3
<1>. QED  BY <1>1 DEF AgedViewers

\* A write: the file has the data, or is as it was, and every copy is as fresh as it says.
LEMMA ReplaceIs ==
    ASSUME Typed, NEW data \in Data, NEW ok \in BOOLEAN, NEW threads \in [Viewers -> Threads],
           NEW u \in Tasks, Replace(data, ok, threads, u)
    PROVE  /\ disk' = Written(data, ok) /\ disk' \in Data
           /\ thread' \in [Viewers -> Threads] /\ ui' \in Tasks
           /\ \A v \in Viewers : /\ thread'[v].busy = threads[v].busy
                                 /\ thread'[v].busy => thread'[v].copy = threads[v].copy
                                 /\ thread'[v].busy /\ ~thread'[v].stale => ~threads[v].stale /\ disk' = disk
           /\ ui'.op = u.op
           /\ ui'.op # "none" => ui'.book = u.book /\ ui'.to = u.to /\ ui'.copy = u.copy
           /\ ui'.op # "none" /\ ~ui'.stale => ~u.stale /\ disk' = disk
<1>1. disk' = Written(data, ok) /\ disk' \in Data
  BY WrittenTypes DEF Replace, Typed
<1>2. ASSUME NEW v \in Viewers
      PROVE  /\ AgedThreads(threads, data, ok)[v] \in Threads
             /\ thread'[v].busy = threads[v].busy
             /\ thread'[v].busy => thread'[v].copy = threads[v].copy
             /\ thread'[v].busy /\ ~thread'[v].stale => ~threads[v].stale /\ disk' = disk
  <2>1. thread'[v] = IF threads[v].busy THEN Aged(threads[v], data, ok) ELSE IdleThread
    BY DEF Replace, AgedThreads
  <2>2. IdleThread \in Threads /\ IdleThread.busy = FALSE
    BY RecordTypes DEF IdleThread
  <2>3. Aged(threads[v], data, ok) \in Threads
    BY AgedTypes DEF Typed
  <2>4. CASE threads[v].busy
    <3>1. thread'[v] = Aged(threads[v], data, ok) /\ AgedThreads(threads, data, ok)[v] = thread'[v]
      BY <2>1, <2>4 DEF Replace
    <3>2. threads[v] \in Threads /\ Books
      BY DEF Typed
    <3>3. LET a == Aged(threads[v], data, ok)
          IN  /\ a.busy = threads[v].busy /\ a.copy = threads[v].copy
              /\ ~a.stale => ~threads[v].stale /\ Written(data, ok) = disk
      BY <3>2, AgedIs
    <3>. QED  BY <1>1, <2>3, <3>1, <3>3
  <2>5. CASE ~threads[v].busy
    <3>1. threads[v].busy = FALSE
      BY <2>5 DEF Threads
    <3>. QED  BY <2>1, <2>2, <3>1 DEF AgedThreads
  <2>. QED  BY <2>4, <2>5
<1>3. thread' \in [Viewers -> Threads]
  BY <1>2 DEF Replace, AgedThreads
<1>4. /\ ui' \in Tasks /\ ui'.op = u.op
      /\ ui'.op # "none" => ui'.book = u.book /\ ui'.to = u.to /\ ui'.copy = u.copy
      /\ ui'.op # "none" /\ ~ui'.stale => ~u.stale /\ disk' = disk
  <2>1. ui' = IF u.op = "none" THEN IdleUi ELSE Aged(u, data, ok)
    BY DEF Replace, AgedUi
  <2>2. IdleUi \in Tasks /\ IdleUi.op = "none"
    BY RecordTypes DEF IdleUi
  <2>3. CASE u.op = "none"
    BY <2>1, <2>2, <2>3
  <2>4. CASE u.op # "none"
    BY <1>1, <2>1, <2>4, AgedTypes, AgedIs DEF Typed
  <2>. QED  BY <2>3, <2>4
<1>. QED  BY <1>1, <1>2, <1>3, <1>4

-----------------------------------------------------------------------------
(* Every step keeps the values what they are. *)

LEMMA ReadingIs ==
    ASSUME Typed, NEW v \in Viewers, NEW p \in Paths, NEW copy \in Data, NEW stale \in BOOLEAN,
           NEW linked \in BOOLEAN
    PROVE  LET r == Reading(v, p, copy, stale, linked)
           IN  /\ r \in Apps /\ r.state = "open" /\ r.book = p /\ r.copy = copy /\ r.stale = stale
               /\ r.linked = linked /\ r.id = Len(sessions) + 1 /\ ~r.inFlight /\ ~r.sent
<1>1. StartPage(disk[p]) \in Pages
  BY DEF StartPage, Pages
<1>2. Len(sessions) + 1 \in Nat
  BY DEF Typed, Actors
<1>. QED  BY <1>1, <1>2, RecordTypes, ZenonT(60) DEF Reading, Gone, Apps, Spots, Pages

LEMMA AskedIs ==
    ASSUME Typed, NEW v \in Viewers, viewer[v].state # "gone", NEW kind \in {"finished", "delete"}
    PROVE  /\ Asked(kind, v) \in Asks
           /\ Asked(kind, v).kind = kind /\ Asked(kind, v).id = viewer[v].id
<1>1. viewer[v] \in Apps /\ viewer[v].book \in Paths
  BY DEF Typed, Actors
<1>2. viewer[v].shown \in Pages /\ viewer[v].id \in Nat
  BY <1>1 DEF Apps
<1>. QED  BY <1>1, <1>2 DEF Asked, Asks

LEMMA HistoryTypes ==
    ASSUME Typed
    PROVE  /\ \A w : Ended(w) \in Seq(Outcomes) /\ Len(Ended(w)) = Len(sessions)
           /\ \A l : Untold(l) \in Seq(Outcomes) /\ DOMAIN Untold(l) = DOMAIN sessions
           /\ \A s \in Seq(Outcomes), x \in Outcomes : \A i : [s EXCEPT ![i] = x] \in Seq(Outcomes)
           /\ \A i : Told(i) \in Seq(Outcomes)
<1>1. sessions \in Seq(Outcomes)
  BY DEF Typed, Actors
<1>2. \A s \in Seq(Outcomes), x \in Outcomes : \A i :
         [s EXCEPT ![i] = x] \in Seq(Outcomes) /\ Len([s EXCEPT ![i] = x]) = Len(s)
  <2>. SUFFICES ASSUME NEW s \in Seq(Outcomes), NEW x \in Outcomes, NEW i
                PROVE  [s EXCEPT ![i] = x] \in Seq(Outcomes) /\ Len([s EXCEPT ![i] = x]) = Len(s)
    OBVIOUS
  <2>1. CASE i \in DOMAIN s
    BY <2>1, ExceptSeq, LenProperties
  <2>2. CASE i \notin DOMAIN s
    <3>1. [s EXCEPT ![i] = x] = s
      BY <2>2
    <3>. QED  BY <3>1
  <2>. QED  BY <2>1, <2>2
<1>3. \A w : Ended(w) \in Seq(Outcomes) /\ Len(Ended(w)) = Len(sessions)
  <2>. SUFFICES ASSUME NEW w
                PROVE  Ended(w) \in Seq(Outcomes) /\ Len(Ended(w)) = Len(sessions)
    OBVIOUS
  <2>1. "ended" \in Outcomes
    BY DEF Outcomes
  <2>. QED  BY <1>1, <1>2, <2>1 DEF Ended
<1>4. \A l : Untold(l) \in Seq(Outcomes) /\ DOMAIN Untold(l) = DOMAIN sessions
  <2>. SUFFICES ASSUME NEW l
                PROVE  Untold(l) \in Seq(Outcomes) /\ DOMAIN Untold(l) = DOMAIN sessions
    OBVIOUS
  <2>1. /\ DOMAIN sessions = 1 .. Len(sessions) /\ Len(sessions) \in Nat
        /\ \A s \in DOMAIN sessions : sessions[s] \in Outcomes
    BY <1>1
  <2>2. Untold(l) \in [1 .. Len(sessions) -> Outcomes]
    BY <2>1 DEF Untold, Outcomes
  <2>. QED  BY <2>1, <2>2
<1>5. \A i : Told(i) \in Seq(Outcomes)
  <2>. SUFFICES ASSUME NEW i
                PROVE  Told(i) \in Seq(Outcomes)
    OBVIOUS
  <2>. DEFINE x == IF sessions[i] = "ended" THEN "told" ELSE "wrong"
  <2>1. x \in Outcomes
    BY DEF Outcomes
  <2>2. Told(i) = [sessions EXCEPT ![i] = x]
    BY <1>1 DEF Told
  <2>. HIDE DEF x
  <2>. QED  BY <1>1, <1>2, <2>1, <2>2
<1>. QED  BY <1>1, <1>2, <1>3, <1>4, <1>5

\* What a Viewer's thread is at stays the first in its line, and what that line keeps of it.
LEMMA SentIs ==
    ASSUME Typed, NEW v \in Viewers, NEW l \in Seq(Asks), thread[v].busy => l # <<>>
    PROVE  /\ Sent(v, l) \in Seq(Asks)
           /\ thread[v].busy => Sent(v, l) # <<>> /\ Head(Sent(v, l)) = Head(l) /\ Len(Sent(v, l)) = 1
           /\ ~thread[v].busy => Sent(v, l) = <<>>
<1>1. CASE thread[v].busy
  <2>1. Head(l) \in Asks
    BY <1>1
  <2>. QED  BY <1>1, <2>1 DEF Sent
<1>2. CASE ~thread[v].busy
  BY <1>2 DEF Sent
<1>. QED  BY <1>1, <1>2

\* One entry replaced by a value of its kind.
LEMMA PutIs ==
    ASSUME NEW S, NEW T, NEW f \in [S -> T], NEW x \in S, NEW y \in T
    PROVE  /\ [f EXCEPT ![x] = y] \in [S -> T] /\ [f EXCEPT ![x] = y][x] = y
           /\ \A z \in S : z # x => [f EXCEPT ![x] = y][z] = f[z]
OBVIOUS

\* A Viewer, its line and its session change; its thread is at what it was at.
LEMMA ViewerChanges ==
    ASSUME Typed, StoresAssumption, NEW v \in Viewers, NEW w \in Apps, NEW l \in Seq(Asks),
           w.state # "gone" => w.book \in Paths,
           thread[v].busy => l # <<>> /\ Head(l) = Head(line[v]),
           viewer' = [viewer EXCEPT ![v] = w], line' = [line EXCEPT ![v] = l],
           sessions' \in Seq(Outcomes), UNCHANGED <<thread, syncs, ui>>
    PROVE  Actors'
<1>1. viewer \in [Viewers -> Apps] /\ line \in [Viewers -> Seq(Asks)]
  BY DEF Typed, Actors
<1>2. viewer' \in [Viewers -> Apps] /\ line' \in [Viewers -> Seq(Asks)]
  BY <1>1, PutIs
<1>3. \A u \in Viewers : viewer'[u].state # "gone" => viewer'[u].book \in Paths
  BY <1>1, PutIs DEF Typed, Actors
<1>4. \A u \in Viewers : thread'[u].busy => line'[u] # <<>> /\ Head(line'[u]).kind = "finished"
  BY <1>1, PutIs DEF Typed, Actors
<1>. QED  BY <1>2, <1>3, <1>4 DEF Typed, Actors

LEMMA LineGrows ==
    ASSUME Typed, NEW v \in Viewers, NEW m \in Asks
    PROVE  /\ Append(line[v], m) \in Seq(Asks) /\ Append(line[v], m) # <<>>
           /\ thread[v].busy => Head(Append(line[v], m)) = Head(line[v])
<1>1. line[v] \in Seq(Asks) /\ (thread[v].busy => line[v] # <<>>)
  BY DEF Typed, Actors
<1>2. Append(line[v], m) # <<>>
  BY <1>1
<1>3. line[v] # <<>> => Head(Append(line[v], m)) = Head(line[v])
  BY <1>1
<1>. QED  BY <1>1, <1>2, <1>3

LEMMA Same ==
    ASSUME Typed
    PROVE  \A v \in Viewers : /\ line = [line EXCEPT ![v] = line[v]] /\ line[v] \in Seq(Asks)
                              /\ viewer = [viewer EXCEPT ![v] = viewer[v]] /\ viewer[v] \in Apps
BY DEF Typed, Actors

\* The next book: the old one's session may be told of first.
LEMMA ReopenTypes ==
    ASSUME Typed, StoresAssumption, NEW v \in Viewers, viewer[v].state # "gone",
           NEW p \in Paths, Reopen(v, p), UNCHANGED <<thread, syncs, ui>>
    PROVE  Actors'
<1>. DEFINE w == viewer[v]
            r == Reading(v, p, w.copy, w.stale, w.linked)
            l == IF Tells(w) THEN Append(line[v], Asked("finished", v)) ELSE line[v]
<1>1. w \in Apps /\ w.copy \in Data /\ w.stale \in BOOLEAN /\ w.linked \in BOOLEAN
  BY Same DEF Apps
<1>2. r \in Apps /\ r.book = p
  BY <1>1, ReadingIs
<1>3. Asked("finished", v) \in Asks
  BY AskedIs
<1>4. l \in Seq(Asks) /\ (thread[v].busy => l # <<>> /\ Head(l) = Head(line[v]))
  BY <1>3, LineGrows DEF Typed, Actors
<1>5. line' = [line EXCEPT ![v] = l] /\ viewer' = [viewer EXCEPT ![v] = r]
  BY Same DEF Reopen
<1>6. sessions' \in Seq(Outcomes)
  <2>1. Ended(w) \in Seq(Outcomes) /\ (IF w.linked THEN "open" ELSE "untold") \in Outcomes
    BY HistoryTypes DEF Outcomes
  <2>. QED  BY <2>1 DEF Reopen
<1>. HIDE DEF r, l, w
<1>. QED  BY <1>2, <1>4, <1>5, <1>6, ViewerChanges

LEMMA FinishTypes ==
    ASSUME Typed, StoresAssumption, NEW v \in Viewers, viewer[v].state # "gone",
           Finish(v), UNCHANGED <<thread, syncs, ui>>
    PROVE  Actors'
<1>. DEFINE w == viewer[v]
            r == [w EXCEPT !.state = "closing", !.inFlight = @ \/ Tells(w)]
            l == IF Tells(w) THEN Append(line[v], Asked("finished", v)) ELSE line[v]
<1>1. w \in Apps /\ w.book \in Paths
  BY Same DEF Typed, Actors
<1>2. r \in Apps /\ r.book = w.book
  BY <1>1 DEF Apps, Tells
<1>3. Asked("finished", v) \in Asks
  BY AskedIs
<1>4. l \in Seq(Asks) /\ (thread[v].busy => l # <<>> /\ Head(l) = Head(line[v]))
  BY <1>3, LineGrows DEF Typed, Actors
<1>5. line' = [line EXCEPT ![v] = l] /\ viewer' = [viewer EXCEPT ![v] = r]
  BY Same DEF Finish
<1>6. sessions' \in Seq(Outcomes)
  BY HistoryTypes DEF Finish
<1>. HIDE DEF r, l, w
<1>. QED  BY <1>1, <1>2, <1>4, <1>5, <1>6, ViewerChanges DEF w

LEMMA CutTypes ==
    ASSUME Typed, StoresAssumption, NEW v \in Viewers, NEW l \in Seq(Asks),
           thread[v].busy => l # <<>> /\ Head(l) = Head(line[v]),
           viewer' = [viewer EXCEPT ![v] = Gone],
           line' = [line EXCEPT ![v] = l] \/ line' = [line EXCEPT ![v] = Sent(v, l)],
           sessions' \in Seq(Outcomes), UNCHANGED <<thread, syncs, ui>>
    PROVE  Actors'
<1>1. Gone \in Apps /\ Gone.state = "gone"
  BY RecordTypes DEF Gone
<1>2. CASE line' = [line EXCEPT ![v] = l]
  BY <1>1, <1>2, ViewerChanges
<1>3. CASE line' = [line EXCEPT ![v] = Sent(v, l)]
  <2>1. /\ Sent(v, l) \in Seq(Asks)
        /\ thread[v].busy => Sent(v, l) # <<>> /\ Head(Sent(v, l)) = Head(line[v])
    BY SentIs
  <2>. QED  BY <1>1, <1>3, <2>1, ViewerChanges
<1>. QED  BY <1>2, <1>3

LEMMA LoadedIs ==
    ASSUME Typed
    PROVE  \A ok \in BOOLEAN : Loaded(ok) \in Data /\ (ok => Loaded(ok) = disk)
BY RecordTypes DEF Loaded, Typed, Books

\* A display option is set: the data that is written.
Chosen(w) == [w.copy EXCEPT ![w.book] = WithOption(@, 1 - Entry(@).option)]
LEMMA ChosenIs ==
    ASSUME NEW w \in Apps, w.book \in Paths
    PROVE  Chosen(w) \in Data
<1>1. w.copy \in Data /\ w.copy[w.book] \in Records
  BY DEF Apps, Data
<1>. DEFINE r == w.copy[w.book]
            n == 1 - Entry(r).option
<1>2. n \in 0 .. 1
  BY <1>1, RecordTypes
<1>. HIDE DEF n
<1>3. WithOption(r, n) \in Records
  BY <1>1, <1>2, RecordTypes DEF WithOption
<1>4. Chosen(w) = [w.copy EXCEPT ![w.book] = WithOption(r, n)]
  BY DEF Chosen, n
<1>. QED  BY <1>1, <1>3, <1>4 DEF Data

LEMMA ViewerTypes ==
    ASSUME Typed, StoresAssumption, NEW v \in Viewers, ViewerStep(v)
    PROVE  Actors'
<1>. USE DEF Typed
<1>0. viewer[v] \in Apps /\ line[v] \in Seq(Asks) /\ viewer \in [Viewers -> Apps]
      /\ line = [line EXCEPT ![v] = line[v]] /\ files \subseteq Paths
      /\ (thread[v].busy => line[v] # <<>>)
  BY Same DEF Actors, Books
<1>1. CASE Open(v)
  <2>. PICK p \in files, linked \in Links, ok \in BOOLEAN :
           /\ viewer' = [viewer EXCEPT ![v] = Reading(v, p, Loaded(ok), ~ok, linked)]
           /\ sessions' = Append(sessions, IF linked THEN "open" ELSE "untold")
    BY <1>1 DEF Open
  <2>. DEFINE copy == Loaded(ok)
              stale == ~ok
              r == Reading(v, p, copy, stale, linked)
  <2>1. p \in Paths /\ linked \in BOOLEAN /\ copy \in Data /\ stale \in BOOLEAN
    <3>1. p \in Paths /\ linked \in BOOLEAN
      BY <1>0 DEF StoresAssumption
    <3>2. Loaded(ok) \in Data
      BY LoadedIs
    <3>. QED  BY <3>1, <3>2
  <2>2. r \in Apps /\ r.book \in Paths
    <3>. HIDE DEF copy, stale
    <3>. QED  BY <2>1, ReadingIs
  <2>3. sessions' \in Seq(Outcomes)
    BY DEF Actors, Outcomes
  <2>4. viewer' = [viewer EXCEPT ![v] = r] /\ line' = [line EXCEPT ![v] = line[v]]
        /\ UNCHANGED <<thread, syncs, ui>>
    BY <1>0, <1>1 DEF Open, ipcVars, uiVars
  <2>. HIDE DEF r
  <2>. QED  BY <1>0, <2>2, <2>3, <2>4, ViewerChanges
<1>2. CASE Show(v)
  <2>. PICK page \in {"first", "last"} :
           viewer' = [viewer EXCEPT ![v].shown = page, ![v].start = "first"]
    BY <1>2 DEF Show
  <2>. DEFINE r == [viewer[v] EXCEPT !.shown = page, !.start = "first"]
  <2>1. r \in Apps /\ r.book = viewer[v].book
    BY <1>0 DEF Apps, Pages
  <2>2. viewer' = [viewer EXCEPT ![v] = r]
    BY <1>0
  <2>3. UNCHANGED <<line, thread, syncs, ui, sessions>> /\ viewer[v].book \in Paths
    BY <1>2 DEF Show, ipcVars, uiVars, Actors
  <2>. HIDE DEF r
  <2>. QED  BY <1>0, <2>1, <2>2, <2>3, ViewerChanges DEF Actors
<1>4. CASE GoTo(v)
  <2>1. PICK p \in files : Reopen(v, p)
    BY <1>4 DEF GoTo
  <2>2. UNCHANGED <<thread, syncs, ui>> /\ viewer[v].state # "gone" /\ p \in Paths
    BY <1>0, <1>4 DEF GoTo, uiVars
  <2>. QED  BY <2>1, <2>2, ReopenTypes
<1>5. CASE GoOnRebuilt(v)
  <2>. DEFINE w == Discarded(viewer[v])
  <2>1. PICK p \in files :
            viewer' = [viewer EXCEPT ![v] = Reading(v, p, w.copy, w.stale, w.linked)]
    BY <1>5 DEF GoOnRebuilt
  <2>. DEFINE r == Reading(v, p, w.copy, w.stale, w.linked)
  <2>2. w \in Apps /\ w.sent /\ w.id = viewer[v].id /\ w.state = viewer[v].state
    BY <1>0 DEF Apps, Discarded
  <2>3. r \in Apps /\ r.book \in Paths
    <3>1. p \in Paths /\ w.copy \in Data /\ w.stale \in BOOLEAN /\ w.linked \in BOOLEAN
      BY <1>0, <2>2 DEF Apps
    <3>. HIDE DEF w
    <3>. QED  BY <3>1, ReadingIs
  <2>4. line' = line
    BY <1>5, <2>2 DEF GoOnRebuilt, Tells
  <2>5. sessions' \in Seq(Outcomes)
    <3>1. [sessions EXCEPT ![w.id] = "untold"] \in Seq(Outcomes) /\ "open" \in Outcomes
      BY HistoryTypes DEF Actors, Outcomes
    <3>. QED  BY <1>5, <3>1 DEF GoOnRebuilt
  <2>6. UNCHANGED <<thread, syncs, ui>>
    BY <1>5 DEF GoOnRebuilt, uiVars
  <2>7. viewer' = [viewer EXCEPT ![v] = r]
    BY <2>1
  <2>. HIDE DEF r, w
  <2>. QED  BY <1>0, <2>3, <2>4, <2>5, <2>6, <2>7, ViewerChanges
<1>6. CASE AskDelete(v)
  <2>1. PICK closes \in BOOLEAN :
            viewer' = [viewer EXCEPT ![v].state = "deleting", ![v].closes = closes]
    BY <1>6 DEF AskDelete
  <2>. DEFINE r == [viewer[v] EXCEPT !.state = "deleting", !.closes = closes]
              l == Append(line[v], Asked("delete", v))
  <2>2. r \in Apps /\ r.book = viewer[v].book
    BY <1>0 DEF Apps
  <2>3. viewer[v].state # "gone" /\ viewer[v].book \in Paths
    BY <1>6 DEF AskDelete, Actors
  <2>4. Asked("delete", v) \in Asks
    BY <2>3, AskedIs
  <2>5. viewer' = [viewer EXCEPT ![v] = r] /\ line' = [line EXCEPT ![v] = l]
        /\ UNCHANGED <<thread, syncs, ui, sessions>>
    BY <1>0, <1>6, <2>1 DEF AskDelete, uiVars, Actors
  <2>6. l \in Seq(Asks) /\ (thread[v].busy => l # <<>> /\ Head(l) = Head(line[v]))
    BY <2>4, LineGrows
  <2>. HIDE DEF r, l
  <2>. QED  BY <2>2, <2>3, <2>5, <2>6, ViewerChanges DEF Actors
<1>7. CASE Deleted(v)
  <2>1. UNCHANGED <<thread, syncs, ui>> /\ viewer[v].state # "gone"
    BY <1>7 DEF Deleted, uiVars
  <2>2. CASE Finish(v)
    BY <2>1, <2>2, FinishTypes
  <2>3. CASE viewer[v].next # NoPath /\ Reopen(v, viewer[v].next)
    <3>1. viewer[v].next \in Paths
      BY <1>0, <2>3 DEF Apps, Spots
    <3>. QED  BY <2>1, <2>3, <3>1, ReopenTypes
  <2>. QED  BY <1>7, <2>2, <2>3 DEF Deleted
<1>8. CASE Close(v)
  <2>1. UNCHANGED <<thread, syncs, ui>> /\ viewer[v].state # "gone" /\ Finish(v)
    BY <1>8 DEF Close, uiVars
  <2>. QED  BY <2>1, FinishTypes
<1>9. CASE Acked(v)
  <2>. DEFINE r == [viewer[v] EXCEPT !.inFlight = FALSE, !.sent = TRUE]
  <2>1. r \in Apps /\ r.book = viewer[v].book
    BY <1>0 DEF Apps
  <2>2. viewer' = [viewer EXCEPT ![v] = r]
    BY <1>0, <1>9 DEF Acked
  <2>3. UNCHANGED <<line, thread, syncs, ui, sessions>> /\ viewer[v].book \in Paths
    BY <1>9 DEF Acked, ipcVars, uiVars, Actors
  <2>. HIDE DEF r
  <2>. QED  BY <1>0, <2>1, <2>2, <2>3, ViewerChanges DEF Actors
<1>10. CASE Exit(v)
  <2>. DEFINE w == IF viewer[v].inFlight THEN TimedOut(viewer[v]) ELSE viewer[v]
              more == IF Tells(w) THEN Append(line[v], Asked("finished", v)) ELSE line[v]
  <2>1. viewer[v].state # "gone"
    BY <1>10 DEF Exit, TimedOut
  <2>2. Asked("finished", v) \in Asks
    BY <2>1, AskedIs
  <2>3. more \in Seq(Asks) /\ (thread[v].busy => more # <<>> /\ Head(more) = Head(line[v]))
    BY <1>0, <2>2, LineGrows
  <2>4. sessions' \in Seq(Outcomes)
    BY <1>10, HistoryTypes DEF Exit, Actors
  <2>5. /\ viewer' = [viewer EXCEPT ![v] = Gone] /\ UNCHANGED <<thread, syncs, ui>>
        /\ line' = [line EXCEPT ![v] = more] \/ line' = [line EXCEPT ![v] = Sent(v, more)]
    BY <1>10 DEF Exit, uiVars
  <2>. HIDE DEF w, more
  <2>. QED  BY <2>3, <2>4, <2>5, CutTypes
<1>11. CASE Kill(v)
  <2>1. sessions' \in Seq(Outcomes)
    <3>1. \A l : Untold(l) \in Seq(Outcomes) /\ "untold" \in Outcomes
      BY HistoryTypes DEF Outcomes
    <3>2. PICK l, i : sessions' = [Untold(l) EXCEPT ![i] = "untold"]
      BY <1>11 DEF Kill
    <3>. QED  BY <3>1, <3>2, HistoryTypes
  <2>2. /\ viewer' = [viewer EXCEPT ![v] = Gone] /\ UNCHANGED <<thread, syncs, ui>>
        /\ line' = [line EXCEPT ![v] = Sent(v, line[v])]
    BY <1>11 DEF Kill, uiVars
  <2>. QED  BY <1>0, <2>1, <2>2, CutTypes
<1>12. CASE SetOption(v)
  <2>1. viewer[v].book \in Paths /\ viewer[v].state # "gone"
    BY <1>12 DEF SetOption, Actors
  <2>2. Chosen(viewer[v]) \in Data
    BY <1>0, <2>1, ChosenIs
  <2>3. PICK ok \in BOOLEAN :
            /\ Replace(Chosen(viewer[v]), ok, thread, ui)
            /\ viewer' = [AgedViewers(Chosen(viewer[v]), ok) EXCEPT
                             ![v] = [viewer[v] EXCEPT !.copy = Chosen(viewer[v]), !.stale = ~ok]]
    BY <1>12 DEF SetOption, Chosen
  <2>. DEFINE r == [viewer[v] EXCEPT !.copy = Chosen(viewer[v]), !.stale = ~ok]
              old == AgedViewers(Chosen(viewer[v]), ok)
  <2>4. r \in Apps /\ r.book = viewer[v].book
    BY <1>0, <2>2 DEF Apps
  <2>5. thread \in [Viewers -> Threads] /\ ui \in Tasks
    BY DEF Actors
  <2>6. /\ thread' \in [Viewers -> Threads] /\ ui' \in Tasks
        /\ \A u \in Viewers : thread'[u].busy = thread[u].busy
    BY <2>2, <2>3, <2>5, ReplaceIs
  <2>7. /\ old \in [Viewers -> Apps]
        /\ \A u \in Viewers : old[u].state # "gone" => viewer[u].state # "gone" /\ old[u].book = viewer[u].book
    BY <2>2, AgedViewersAre
  <2>8. viewer' = [old EXCEPT ![v] = r]
    BY <2>3
  <2>. HIDE DEF r, old
  <2>9. /\ viewer' \in [Viewers -> Apps]
        /\ \A u \in Viewers : viewer'[u].state # "gone" => viewer'[u].book \in Paths
    <3>1. viewer' \in [Viewers -> Apps] /\ viewer'[v] = r
          /\ \A u \in Viewers : u # v => viewer'[u] = old[u]
      BY <2>4, <2>7, <2>8, PutIs
    <3>. QED  BY <2>1, <2>4, <2>7, <3>1 DEF Actors
  <2>. QED  BY <1>12, <2>6, <2>9, ZenonT(60) DEF SetOption, Actors
<1>. QED  BY <1>1, <1>2, <1>4, <1>5, <1>6, <1>7, <1>8, <1>9, <1>10, <1>11, <1>12 DEF ViewerStep

\* What a session makes of the file.
SessionData(v, moved) ==
    LET m    == Head(line[v])
        copy == thread[v].copy
    IN  IF ~moved /\ Apply(copy[m.book], m.shown) = copy[m.book] THEN disk
        ELSE [copy EXCEPT ![m.book] = Apply(@, m.shown)]

LEMMA SessionDataIs ==
    ASSUME Typed, NEW v \in Viewers, thread[v].busy
    PROVE  (\A moved \in BOOLEAN : SessionData(v, moved) \in Data) /\ Head(line[v]) \in Asks
<1>1. thread[v].copy \in Data /\ Head(line[v]) \in Asks /\ disk \in Data
  <2>1. line[v] \in Seq(Asks) /\ line[v] # <<>> /\ thread[v] \in Threads
    BY DEF Typed, Actors
  <2>. QED  BY <2>1 DEF Threads, Typed, Books
<1>2. Head(line[v]).book \in Paths /\ Head(line[v]).shown \in Pages
  BY <1>1 DEF Asks
<1>3. Apply(thread[v].copy[Head(line[v]).book], Head(line[v]).shown) \in Records
  BY <1>1, <1>2, RecordTypes DEF Data
<1>. QED  BY <1>1, <1>2, <1>3 DEF SessionData, Data

\* An answer changes no session.
LEMMA AnswerIs ==
    ASSUME Typed, NEW v \in Viewers, NEW st \in {"open", "answered"}, NEW p \in Spots, Answer(v, st, p)
    PROVE  /\ viewer' \in [Viewers -> Apps]
           /\ \A u \in Viewers :
                  /\ viewer'[u].state = "gone" <=> viewer[u].state = "gone"
                  /\ viewer'[u].state = "closing" <=> viewer[u].state = "closing"
                  /\ viewer'[u].book = viewer[u].book /\ viewer'[u].copy = viewer[u].copy
                  /\ viewer'[u].stale = viewer[u].stale /\ viewer'[u].linked = viewer[u].linked
                  /\ viewer'[u].id = viewer[u].id /\ viewer'[u].inFlight = viewer[u].inFlight
                  /\ viewer'[u].sent = viewer[u].sent
<1>1. viewer \in [Viewers -> Apps] /\ viewer[v] \in Apps
  BY DEF Typed, Actors
<1>2. CASE viewer[v].state = "deleting"
  <2>. DEFINE r == [viewer[v] EXCEPT !.state = st, !.next = p]
  <2>1. /\ r \in Apps /\ r.state \notin {"gone", "closing"}
        /\ r.book = viewer[v].book /\ r.copy = viewer[v].copy
        /\ r.stale = viewer[v].stale /\ r.linked = viewer[v].linked
        /\ r.id = viewer[v].id /\ r.inFlight = viewer[v].inFlight /\ r.sent = viewer[v].sent
    BY <1>1 DEF Apps
  <2>2. viewer' = [viewer EXCEPT ![v] = r]
    BY <1>1, <1>2 DEF Answer
  <2>. HIDE DEF r
  <2>3. viewer' \in [Viewers -> Apps] /\ viewer'[v] = r /\ \A u \in Viewers : u # v => viewer'[u] = viewer[u]
    BY <1>1, <2>1, <2>2, PutIs
  <2>. QED  BY <1>2, <2>1, <2>3
<1>3. CASE viewer[v].state # "deleting"
  BY <1>1, <1>3 DEF Answer
<1>. QED  BY <1>2, <1>3

\* The first request of a line has been dealt with: no thread is at it any more.
LEMMA LineShrinks ==
    ASSUME Typed, NEW v \in Viewers, line[v] # <<>>, line' = [line EXCEPT ![v] = Tail(@)]
    PROVE  line' \in [Viewers -> Seq(Asks)] /\ \A u \in Viewers : u # v => line'[u] = line[u]
<1>1. line \in [Viewers -> Seq(Asks)] /\ Tail(line[v]) \in Seq(Asks)
  BY DEF Typed, Actors
<1>. QED  BY <1>1

LEMMA ThreadTypes ==
    ASSUME Typed, NEW v \in Viewers, ThreadStep(v)
    PROVE  Actors'
<1>0. /\ thread \in [Viewers -> Threads] /\ ui \in Tasks /\ line[v] \in Seq(Asks)
      /\ viewer \in [Viewers -> Apps] /\ IdleThread \in Threads /\ IdleThread.busy = FALSE
  BY RecordTypes DEF Typed, Actors, IdleThread
<1>1. CASE SessionReads(v)
  <2>1. PICK ok \in BOOLEAN :
            thread' = [thread EXCEPT ![v] = [busy |-> TRUE, copy |-> Loaded(ok), stale |-> ~ok]]
    BY <1>1 DEF SessionReads
  <2>. DEFINE t == [busy |-> TRUE, copy |-> Loaded(ok), stale |-> ~ok]
  <2>2. t \in Threads
    <3>1. Loaded(ok) \in Data
      BY LoadedIs
    <3>. QED  BY <3>1 DEF Threads
  <2>3. thread' = [thread EXCEPT ![v] = t]
    BY <2>1
  <2>. HIDE DEF t
  <2>4. thread' \in [Viewers -> Threads] /\ \A u \in Viewers : u # v => thread'[u] = thread[u]
    BY <1>0, <2>2, <2>3, PutIs
  <2>5. UNCHANGED <<viewer, line, ui, syncs, sessions>> /\ line[v] # <<>> /\ Head(line[v]).kind = "finished"
    BY <1>1 DEF SessionReads, uiVars
  <2>. QED  BY <2>4, <2>5 DEF Typed, Actors
<1>2. CASE SessionWrites(v)
  <2>0. thread[v].busy /\ line' = [line EXCEPT ![v] = Tail(@)] /\ sessions' = Told(Head(line[v]).id)
        /\ syncs' = Append(syncs, Sync("finished", Head(line[v]).book, NoPath))
    BY <1>2 DEF SessionWrites
  <2>1. (\A moved \in BOOLEAN : SessionData(v, moved) \in Data) /\ Head(line[v]) \in Asks
    BY <2>0, SessionDataIs
  <2>2. PICK ok, moved \in BOOLEAN :
            /\ Replace(SessionData(v, moved), ok, [thread EXCEPT ![v] = IdleThread], ui)
            /\ viewer' = AgedViewers(SessionData(v, moved), ok)
    BY <1>2 DEF SessionWrites, SessionData
  <2>. DEFINE threads == [thread EXCEPT ![v] = IdleThread]
  <2>3. /\ threads \in [Viewers -> Threads] /\ threads[v].busy = FALSE
        /\ \A u \in Viewers : u # v => threads[u] = thread[u]
    BY <1>0
  <2>. HIDE DEF threads
  <2>4. /\ thread' \in [Viewers -> Threads] /\ ui' \in Tasks
        /\ \A u \in Viewers : thread'[u].busy = threads[u].busy
    <3>1. SessionData(v, moved) \in Data
      BY <2>1, <2>2
    <3>2. Replace(SessionData(v, moved), ok, threads, ui)
      BY <2>2 DEF threads
    <3>. QED  BY <1>0, <2>3, <3>1, <3>2, ReplaceIs
  <2>5. /\ viewer' \in [Viewers -> Apps]
        /\ \A u \in Viewers : viewer'[u].state # "gone" => viewer[u].state # "gone" /\ viewer'[u].book = viewer[u].book
    BY <2>1, <2>2, AgedViewersAre
  <2>6. line' \in [Viewers -> Seq(Asks)] /\ \A u \in Viewers : u # v => line'[u] = line[u]
    BY <2>0, LineShrinks DEF Typed, Actors
  <2>7. syncs' \in Seq(Syncs) /\ sessions' \in Seq(Outcomes)
    <3>1. Sync("finished", Head(line[v]).book, NoPath) \in Syncs
      BY <2>1 DEF Sync, Syncs, Asks, Spots
    <3>. QED  BY <2>0, <3>1, HistoryTypes DEF Typed, Actors
  <2>. QED  BY <2>3, <2>4, <2>5, <2>6, <2>7, ZenonT(60) DEF Typed, Actors
<1>3. CASE ThreadDeletes(v)
  <2>0. /\ ~thread[v].busy /\ line[v] # <<>> /\ line' = [line EXCEPT ![v] = Tail(@)]
        /\ UNCHANGED <<thread, ui, sessions>>
    BY <1>3 DEF ThreadDeletes
  <2>1. line' \in [Viewers -> Seq(Asks)] /\ \A u \in Viewers : u # v => line'[u] = line[u]
    BY <2>0, LineShrinks
  <2>2. PICK st \in {"open", "answered"}, p \in Spots :
            /\ Answer(v, st, p)
            /\ \/ syncs' = syncs
               \/ Head(line[v]).book \in files /\ syncs' = Append(syncs, Sync("deleted", Head(line[v]).book, p))
    <3>1. NoPath \in Spots /\ files \subseteq Spots
      BY DEF Spots, Typed, Books
    <3>2. CASE Head(line[v]).book \in files
      <4>1. PICK p \in {q \in files : q # Head(line[v]).book} \cup {NoPath} :
                /\ syncs' = Append(syncs, Sync("deleted", Head(line[v]).book, p))
                /\ Answer(v, "answered", p)
        BY <1>3, <3>2 DEF ThreadDeletes
      <4>. QED  BY <3>1, <3>2, <4>1
    <3>3. CASE Head(line[v]).book \notin files
      BY <1>3, <3>1, <3>3 DEF ThreadDeletes
    <3>. QED  BY <3>2, <3>3
  <2>3. syncs' \in Seq(Syncs)
    <3>1. Head(line[v]).book \in files => Sync("deleted", Head(line[v]).book, p) \in Syncs
      BY DEF Sync, Syncs, Typed, Books
    <3>2. syncs \in Seq(Syncs) /\ \A x \in Syncs : Append(syncs, x) \in Seq(Syncs)
      BY DEF Typed, Actors
    <3>. QED  BY <2>2, <3>1, <3>2
  <2>4. /\ viewer' \in [Viewers -> Apps]
        /\ \A u \in Viewers : viewer'[u].state # "gone" => viewer[u].state # "gone" /\ viewer'[u].book = viewer[u].book
    BY <2>2, AnswerIs
  <2>. QED  BY <2>0, <2>1, <2>3, <2>4 DEF Typed, Actors
<1>. QED  BY <1>1, <1>2, <1>3 DEF ThreadStep

LEMMA RemovalIs ==
    ASSUME Typed, NEW p \in Paths
    PROVE  Removal(p) \in Data
<1>1. ui.copy \in Data /\ disk \in Data /\ NoRecord \in Records
  BY RecordTypes DEF Typed, Actors, Books, Tasks
<1>. QED  BY <1>1 DEF Removal, Without, Data

LEMMA MovedIs ==
    ASSUME NEW data \in Data, NEW p \in Paths, NEW to \in Paths
    PROVE  Moved(data, p, to) \in Data
<1>1. NoRecord \in Records /\ data[p] \in Records
  BY RecordTypes DEF Data
<1>. QED  BY <1>1 DEF Moved, Data

LEMMA BeginsIs ==
    ASSUME Typed, NEW op \in {"clear", "forget", "rename"}, NEW p \in Paths, NEW to \in Spots,
           NEW ok \in BOOLEAN, Begins(op, p, to, ok)
    PROVE  /\ ui' \in Tasks /\ ui'.op = op /\ ui'.book = p /\ ui'.to = to
           /\ ~ui'.stale => ui'.copy = disk
<1>1. Loaded(ok) \in Data /\ (ok => Loaded(ok) = disk)
  BY LoadedIs
<1>. QED  BY <1>1 DEF Begins, Tasks, Spots

LEMMA SavedTypes ==
    ASSUME Books, NEW s \in SUBSET Paths, SavesFavs(s)
    PROVE  favs' \subseteq files /\ favs' \subseteq favFile' /\ favFile' \subseteq Paths
BY DEF SavesFavs, SaveFavs, Books

\* The window thread's steps leave the Viewers and their lines, but for the copies.
LEMMA WindowWrites ==
    ASSUME Typed, NEW data \in Data, NEW ok \in BOOLEAN, Replace(data, ok, thread, IdleUi),
           viewer' = AgedViewers(data, ok), UNCHANGED <<line, syncs, sessions>>
    PROVE  Actors'
<1>1. thread \in [Viewers -> Threads] /\ IdleUi \in Tasks
  BY RecordTypes DEF Typed, Actors
<1>2. /\ thread' \in [Viewers -> Threads] /\ ui' \in Tasks
      /\ \A v \in Viewers : thread'[v].busy = thread[v].busy
  BY <1>1, ReplaceIs
<1>3. /\ viewer' \in [Viewers -> Apps]
      /\ \A v \in Viewers : viewer'[v].state # "gone" => viewer[v].state # "gone" /\ viewer'[v].book = viewer[v].book
  BY AgedViewersAre
<1>. QED  BY <1>2, <1>3 DEF Typed, Actors

LEMMA WindowTypes ==
    ASSUME Typed, Task, WindowStep
    PROVE  Actors'
<1>0. Books /\ Actors /\ ui \in Tasks /\ syncs \in Seq(Syncs) /\ NoPath \in Spots /\ Paths \subseteq Spots
      /\ files \subseteq Paths /\ done \subseteq Paths
  BY DEF Typed, Actors, Books, Spots
<1>1. CASE ToggleFavorite \/ AssignGroup \/ DeleteBook
  <2>1. UNCHANGED <<viewer, line, thread, syncs, ui, sessions>>
    BY <1>1 DEF ToggleFavorite, AssignGroup, DeleteBook, ipcVars, uiVars
  <2>. QED  BY <1>0, <2>1 DEF Actors
<1>2. CASE ClearSettings
  <2>1. PICK p \in files, ok \in BOOLEAN : Begins("clear", p, NoPath, ok)
    BY <1>2 DEF ClearSettings
  <2>2. ui' \in Tasks
    BY <1>0, <2>1, BeginsIs
  <2>3. UNCHANGED <<viewer, line, thread, syncs, sessions>>
    BY <1>2 DEF ClearSettings, ipcVars
  <2>. QED  BY <1>0, <2>2, <2>3 DEF Actors
<1>3. CASE ClearWrites \/ ForgetWrites
  <2>1. ui.book \in Paths
    BY <1>3 DEF Task, ClearWrites, ForgetWrites
  <2>2. PICK ok \in BOOLEAN, all \in BOOLEAN : RemovalWritten(ui.book, ok, all)
    BY <1>3 DEF ClearWrites, ForgetWrites
  <2>3. UNCHANGED <<line, syncs, sessions>>
    BY <1>3 DEF ClearWrites, ForgetWrites
  <2>4. Removal(ui.book) \in Data
    BY <2>1, RemovalIs
  <2>. QED  BY <2>2, <2>3, <2>4, WindowWrites DEF RemovalWritten
<1>4. CASE ForgetBook
  <2>1. PICK p \in Paths, ok \in BOOLEAN :
            /\ Begins("forget", p, NoPath, ok)
            /\ syncs' = syncs \/ (syncs # <<>> /\ syncs' = Tail(syncs))
    BY <1>4 DEF ForgetBook
  <2>2. ui' \in Tasks
    BY <1>0, <2>1, BeginsIs
  <2>3. syncs' \in Seq(Syncs)
    BY <1>0, <2>1
  <2>4. UNCHANGED <<viewer, line, thread, sessions>>
    BY <1>4 DEF ForgetBook, ipcVars
  <2>. QED  BY <1>0, <2>2, <2>3, <2>4 DEF Actors
<1>5. CASE RenameBook
  <2>1. PICK p \in files, to \in Paths \ files, ok \in BOOLEAN : Begins("rename", p, to, ok)
    BY <1>5 DEF RenameBook
  <2>2. ui' \in Tasks
    BY <1>0, <2>1, BeginsIs
  <2>3. UNCHANGED <<viewer, line, thread, syncs, sessions>>
    BY <1>5 DEF RenameBook, ipcVars
  <2>. QED  BY <1>0, <2>2, <2>3 DEF Actors
<1>6. CASE RenameWrites
  <2>. DEFINE data == IF ui.copy[ui.book] = NoRecord THEN disk ELSE Moved(ui.copy, ui.book, ui.to)
  <2>1. ui.book \in Paths /\ ui.to \in Paths /\ ui.copy \in Data /\ disk \in Data
    BY <1>0, <1>6 DEF Task, RenameWrites, Tasks, Books
  <2>2. data \in Data
    BY <2>1, MovedIs
  <2>3. PICK ok \in BOOLEAN : Replace(data, ok, thread, IdleUi) /\ viewer' = AgedViewers(data, ok)
    BY <1>6 DEF RenameWrites
  <2>4. UNCHANGED <<line, syncs, sessions>>
    BY <1>6 DEF RenameWrites
  <2>. HIDE DEF data
  <2>. QED  BY <2>2, <2>3, <2>4, WindowWrites
<1>7. CASE RefreshHud \/ LoadDir
  <2>1. syncs' = syncs \/ (syncs # <<>> /\ syncs' = Tail(syncs))
    BY <1>7 DEF RefreshHud, LoadDir
  <2>2. syncs' \in Seq(Syncs)
    BY <1>0, <2>1
  <2>3. UNCHANGED <<viewer, line, thread, ui, sessions>>
    BY <1>7 DEF RefreshHud, LoadDir, ipcVars
  <2>. QED  BY <1>0, <2>2, <2>3 DEF Actors
<1>. QED  BY <1>1, <1>2, <1>3, <1>4, <1>5, <1>6, <1>7 DEF WindowStep

LEMMA ChangedIs ==
    ASSUME Books
    PROVE  \A data, ok, p : Changed(data, ok, p) \subseteq Paths /\ Late(data, ok, p) \subseteq Paths
BY DEF Changed, Late, Books

LEMMA DueTypes ==
    ASSUME Books, NEW change \in Data, NEW stale, NEW data \in Data, NEW ok \in BOOLEAN,
           Due(change, stale, data, ok)
    PROVE  due' \in Data
<1>1. Written(data, ok) \in Data
  BY WrittenTypes
<1>. QED  BY <1>1 DEF Due

\* A write of the whole file: what is said of paths stays said of paths.
LEMMA WriteTypes ==
    ASSUME Books, NEW data \in Data, NEW ok \in BOOLEAN, NEW change \in Data, NEW stale, NEW p, NEW q,
           NEW more \in SUBSET Paths, NEW gone \in SUBSET Paths,
           disk' = Written(data, ok), Due(change, stale, data, ok),
           off' \subseteq off \cup Changed(data, ok, p) \cup more,
           late' \subseteq Late(data, ok, q) \cup gone
    PROVE  disk' \in Data /\ due' \in Data /\ off' \subseteq Paths /\ late' \subseteq Paths
<1>1. disk' \in Data
  BY WrittenTypes
<1>2. due' \in Data
  BY DueTypes
<1>3. Changed(data, ok, p) \subseteq Paths /\ Late(data, ok, q) \subseteq Paths /\ off \subseteq Paths
  BY ChangedIs DEF Books
<1>. QED  BY <1>1, <1>2, <1>3

\* A status that is shown.
LEMMA HudTypes ==
    ASSUME Typed, NEW ok \in BOOLEAN, NEW p \in Paths
    PROVE  StatusOf(Loaded(ok)[p]) \in Statuses /\ StatusOf(disk[p]) \in Statuses
<1>1. Loaded(ok) \in Data /\ disk \in Data
  BY LoadedIs DEF Typed, Books
<1>2. Loaded(ok)[p] \in Records /\ disk[p] \in Records
  BY <1>1 DEF Data
<1>. QED  BY <1>2, RecordTypes

LEMMA BookTypes ==
    ASSUME Typed, Task, Next
    PROVE  Books'
<1>. DEFINE Rest == UNCHANGED <<files, done, favs, favFile, groups, hud>>
            Data1 == disk' \in Data /\ due' \in Data /\ off' \subseteq Paths /\ late' \subseteq Paths
<1>0. Books /\ NoRecord \in Records /\ ui \in Tasks
  BY RecordTypes DEF Typed, Actors
<1>1. ASSUME NEW v \in Viewers, ViewerStep(v) PROVE Books'
  <2>1. CASE SetOption(v)
    <3>1. viewer[v] \in Apps /\ viewer[v].book \in Paths
      BY <2>1 DEF SetOption, Typed, Actors
    <3>2. Chosen(viewer[v]) \in Data
      BY <3>1, ChosenIs
    <3>. DEFINE n == Chosen(viewer[v])[viewer[v].book].option
                change == [due EXCEPT ![viewer[v].book] = WithOption(@, n)]
    <3>3. PICK ok \in BOOLEAN :
              /\ Replace(Chosen(viewer[v]), ok, thread, ui)
              /\ Due(change, viewer[v].stale, Chosen(viewer[v]), ok)
              /\ off' = off \cup Changed(Chosen(viewer[v]), ok, NoPath)
              /\ late' = Late(Chosen(viewer[v]), ok, NoPath)
      BY <2>1 DEF SetOption, Chosen
    <3>4. change \in Data
      <4>1. n \in 0 .. 1
        BY <3>1, <3>2 DEF Data, Records, NoRecord
      <4>2. due[viewer[v].book] \in Records
        BY <1>0, <3>1 DEF Books, Data
      <4>3. WithOption(due[viewer[v].book], n) \in Records
        BY <4>1, <4>2, RecordTypes DEF WithOption
      <4>. QED  BY <1>0, <4>3 DEF Books, Data
    <3>5. disk' = Written(Chosen(viewer[v]), ok)
      BY <3>3 DEF Replace
    <3>. HIDE DEF change
    <3>6. Data1
      BY <1>0, <3>2, <3>3, <3>4, <3>5, WriteTypes
    <3>7. Rest
      BY <2>1 DEF SetOption, favVars
    <3>. QED  BY <1>0, <3>6, <3>7 DEF Books
  <2>2. CASE ~SetOption(v)
    <3>1. Rest /\ UNCHANGED <<disk, due, off, late>>
      BY <1>1, <2>2 DEF ViewerStep, Open, Show, GoTo, GoOnRebuilt, AskDelete, Deleted, Close, Acked,
                        Exit, Kill, uiVars, favVars
    <3>. QED  BY <1>0, <3>1 DEF Books
  <2>. QED  BY <2>1, <2>2
<1>2. ASSUME NEW v \in Viewers, ThreadStep(v) PROVE Books'
  <2>1. CASE SessionReads(v)
    <3>1. Rest /\ UNCHANGED <<disk, due, off, late>>
      BY <2>1 DEF SessionReads, uiVars, favVars
    <3>. QED  BY <1>0, <3>1 DEF Books
  <2>2. CASE SessionWrites(v)
    <3>. DEFINE m == Head(line[v])
                change == [due EXCEPT ![m.book] = Judged(@, m.shown)]
    <3>1. (\A moved \in BOOLEAN : SessionData(v, moved) \in Data) /\ m \in Asks
      BY <2>2, SessionDataIs DEF SessionWrites
    <3>2. PICK ok, moved \in BOOLEAN :
              /\ Replace(SessionData(v, moved), ok, [thread EXCEPT ![v] = IdleThread], ui)
              /\ Due(change, thread[v].stale, SessionData(v, moved), ok)
              /\ off' = off \cup Changed(SessionData(v, moved), ok, m.book)
              /\ late' = Late(SessionData(v, moved), ok, NoPath)
      BY <2>2 DEF SessionWrites, SessionData
    <3>3. change \in Data
      <4>1. m.book \in Paths /\ m.shown \in Pages
        BY <3>1 DEF Asks
      <4>2. due \in Data /\ due[m.book] \in Records
        BY <1>0, <4>1 DEF Books, Data
      <4>3. Judged(due[m.book], m.shown) \in Records
        BY <4>1, <4>2, RecordTypes
      <4>. QED  BY <4>2, <4>3 DEF Data
    <3>4. disk' = Written(SessionData(v, moved), ok)
      BY <3>2 DEF Replace
    <3>. HIDE DEF change
    <3>5. Data1
      BY <1>0, <3>1, <3>2, <3>3, <3>4, WriteTypes
    <3>6. Rest
      BY <2>2 DEF SessionWrites, favVars
    <3>. QED  BY <1>0, <3>5, <3>6 DEF Books
  <2>3. CASE ThreadDeletes(v)
    <3>1. UNCHANGED <<disk, due, off, late, done, favs, favFile, groups, hud>>
      BY <2>3 DEF ThreadDeletes, favVars
    <3>2. files' \subseteq files
      BY <2>3 DEF ThreadDeletes
    <3>. QED  BY <1>0, <3>1, <3>2 DEF Books
  <2>. QED  BY <1>2, <2>1, <2>2, <2>3 DEF ThreadStep
<1>3. CASE ToggleFavorite
  <2>1. PICK p \in files : SavesFavs(IF p \in favs THEN favs \ {p} ELSE favs \cup {p})
    BY <1>3 DEF ToggleFavorite
  <2>. DEFINE s == IF p \in favs THEN favs \ {p} ELSE favs \cup {p}
  <2>2. s \in SUBSET Paths
    BY <1>0 DEF Books
  <2>. HIDE DEF s
  <2>3. favs' \subseteq files /\ favFile' \subseteq Paths
    BY <1>0, <2>1, <2>2, SavedTypes DEF s
  <2>4. UNCHANGED <<files, disk, due, off, late, done, groups, hud>>
    BY <1>3 DEF ToggleFavorite, uiVars
  <2>. QED  BY <1>0, <2>3, <2>4 DEF Books
<1>4. CASE AssignGroup
  <2>1. PICK p \in files : groups' \in {groups \cup {p}, groups \ {p}, groups}
    BY <1>4 DEF AssignGroup
  <2>2. UNCHANGED <<files, disk, due, off, late, done, favs, favFile, hud>>
    BY <1>4 DEF AssignGroup, favVars
  <2>. QED  BY <1>0, <2>1, <2>2 DEF Books
<1>5. CASE ClearSettings
  <2>1. Rest /\ UNCHANGED <<disk, due, off, late>>
    BY <1>5 DEF ClearSettings, favVars
  <2>. QED  BY <1>0, <2>1 DEF Books
<1>6. CASE ClearWrites \/ ForgetWrites
  <2>. DEFINE p == ui.book
              own == {p}
  <2>1. p \in Paths
    BY <1>6 DEF Task, ClearWrites, ForgetWrites
  <2>2. PICK ok \in BOOLEAN, all \in BOOLEAN : RemovalWritten(p, ok, all)
    BY <1>6 DEF ClearWrites, ForgetWrites
  <2>3. Removal(p) \in Data
    BY <2>1, RemovalIs
  <2>4. Without(due, p) \in Data
    BY <1>0, <2>1 DEF Without, Books, Data
  <2>5. disk' = Written(Removal(p), ok)
    BY <2>2 DEF RemovalWritten, Replace
  <2>6. /\ Due(Without(due, p), ui.stale, Removal(p), ok)
        /\ off' \subseteq off \cup Changed(Removal(p), ok, p) \cup own
        /\ late' \subseteq Late(Removal(p), ok, p) \cup own
        /\ own \in SUBSET Paths
    BY <2>1, <2>2 DEF RemovalWritten
  <2>. HIDE DEF p, own
  <2>7. Data1
    BY <1>0, <2>1, <2>3, <2>4, <2>5, <2>6, WriteTypes
  <2>8. hud' \in [Paths -> Statuses \cup {"absent"}]
    BY <1>0, <1>6 DEF ClearWrites, ForgetWrites, Books
  <2>9. groups' \subseteq groups
    BY <1>6 DEF ClearWrites, ForgetWrites, Ungrouped
  <2>10. UNCHANGED <<files, done, favs, favFile>>
    BY <1>6 DEF ClearWrites, ForgetWrites, favVars
  <2>. QED  BY <1>0, <2>7, <2>8, <2>9, <2>10 DEF Books
<1>7. CASE DeleteBook
  <2>1. files' \subseteq files /\ done' \subseteq files \cup done
    BY <1>7 DEF DeleteBook
  <2>2. UNCHANGED <<disk, due, off, late, favs, favFile, groups, hud>>
    BY <1>7 DEF DeleteBook, favVars
  <2>. QED  BY <1>0, <2>1, <2>2 DEF Books
<1>8. CASE ForgetBook
  <2>1. PICK p \in Paths :
            /\ done' \subseteq done
            /\ IF p \in favs THEN SavesFavs(favs \ {p}) ELSE UNCHANGED favVars
            /\ hud' = [hud EXCEPT ![p] = "absent"]
    BY <1>8 DEF ForgetBook
  <2>2. favs' \subseteq Paths /\ favFile' \subseteq Paths
    <3>1. favs \ {p} \in SUBSET Paths
      BY <1>0 DEF Books
    <3>2. CASE p \in favs
      BY <1>0, <2>1, <3>1, <3>2, SavedTypes DEF Books
    <3>3. CASE p \notin favs
      BY <1>0, <2>1, <3>3 DEF Books, favVars
    <3>. QED  BY <3>2, <3>3
  <2>3. hud' \in [Paths -> Statuses \cup {"absent"}]
    BY <1>0, <2>1 DEF Books
  <2>4. UNCHANGED <<files, disk, due, off, late, groups>>
    BY <1>8 DEF ForgetBook
  <2>. QED  BY <1>0, <2>1, <2>2, <2>3, <2>4 DEF Books
<1>9. CASE RenameBook
  <2>1. files' \subseteq Paths
    BY <1>0, <1>9 DEF RenameBook, Books
  <2>2. UNCHANGED <<done, disk, due, off, late, favs, favFile, groups, hud>>
    BY <1>9 DEF RenameBook, favVars
  <2>. QED  BY <1>0, <2>1, <2>2 DEF Books
<1>10. CASE RenameWrites
  <2>. DEFINE p == ui.book
              to == ui.to
              data == IF ui.copy[p] = NoRecord THEN disk ELSE Moved(ui.copy, p, to)
              change == [due EXCEPT ![p] = NoRecord, ![to] = due[p]]
              own == {p, to}
  <2>1. p \in Paths /\ to \in Paths /\ ui.copy \in Data /\ disk \in Data /\ due \in Data
    BY <1>0, <1>10 DEF Task, RenameWrites, Tasks, Books
  <2>2. data \in Data /\ change \in Data
    <3>1. change \in Data
      BY <1>0, <2>1 DEF Data
    <3>. QED  BY <2>1, <3>1, MovedIs
  <2>3. PICK ok \in BOOLEAN, shown \in BOOLEAN, grouped \in BOOLEAN :
            /\ Replace(data, ok, thread, IdleUi)
            /\ Due(change, ui.stale, data, ok)
            /\ hud' = [hud EXCEPT ![p] = "absent",
                                  ![to] = IF shown THEN StatusOf(disk'[to]) ELSE "Unread"]
            /\ off' = ((off \ {to}) \cup Changed(data, ok, to)) \cup IF shown THEN {} ELSE {to}
            /\ IF p \in favs THEN SavesFavs(Renamed(favs, p, to)) ELSE UNCHANGED favVars
            /\ groups' = IF grouped THEN Regrouped(p, to) ELSE groups
            /\ late' \subseteq Late(data, ok, p) \cup {p, to}
    BY <1>10, ZenonT(60) DEF RenameWrites
  <2>4. disk' = Written(data, ok)
    BY <2>3 DEF Replace
  <2>5. /\ off' \subseteq off \cup Changed(data, ok, to) \cup own
        /\ late' \subseteq Late(data, ok, p) \cup own /\ own \in SUBSET Paths
    BY <2>1, <2>3
  <2>. HIDE DEF data, change, p, to, own
  <2>6. Data1
    BY <1>0, <2>1, <2>2, <2>3, <2>4, <2>5, WriteTypes
  <2>7. hud' \in [Paths -> Statuses \cup {"absent"}]
    <3>1. disk'[to] \in Records
      BY <2>1, <2>6 DEF Data
    <3>2. (IF shown THEN StatusOf(disk'[to]) ELSE "Unread") \in Statuses
      BY <3>1, RecordTypes DEF Statuses
    <3>. QED  BY <1>0, <2>1, <2>3, <3>2 DEF Books
  <2>8. favs' \subseteq Paths /\ favFile' \subseteq Paths
    <3>1. Renamed(favs, p, to) \in SUBSET Paths
      BY <1>0, <2>1 DEF Renamed, Books
    <3>2. CASE p \in favs
      BY <1>0, <2>3, <3>1, <3>2, SavedTypes DEF Books
    <3>3. CASE p \notin favs
      BY <1>0, <2>3, <3>3 DEF Books, favVars
    <3>. QED  BY <3>2, <3>3
  <2>9. groups' \subseteq Paths
    BY <1>0, <2>1, <2>3 DEF Regrouped, Ungrouped, Books
  <2>10. UNCHANGED <<files, done>>
    BY <1>10 DEF RenameWrites
  <2>. QED  BY <1>0, <2>6, <2>7, <2>8, <2>9, <2>10 DEF Books
<1>11. CASE RefreshHud
  <2>. DEFINE p == Head(syncs).book
  <2>1. p \in Paths
    <3>1. Head(syncs) \in Syncs
      BY <1>11 DEF RefreshHud, Typed, Actors
    <3>. QED  BY <3>1 DEF Syncs
  <2>2. PICK ok \in BOOLEAN : /\ hud' = [hud EXCEPT ![p] = StatusOf(Loaded(ok)[p])]
                              /\ off' = IF ok THEN off \ {p} ELSE off \cup {p}
    BY <1>11 DEF RefreshHud
  <2>. HIDE DEF p
  <2>3. StatusOf(Loaded(ok)[p]) \in Statuses
    BY <2>1, HudTypes
  <2>4. UNCHANGED <<files, done, disk, due, late, favs, favFile, groups>>
    BY <1>11 DEF RefreshHud, favVars
  <2>. QED  BY <1>0, <2>1, <2>2, <2>3, <2>4 DEF Books
<1>12. CASE LoadDir
  <2>1. PICK ok \in BOOLEAN :
            /\ off' = IF ok THEN {} ELSE Paths
            /\ hud' = [p \in Paths |-> IF p \in files THEN StatusOf(Loaded(ok)[p]) ELSE "absent"]
    BY <1>12 DEF LoadDir
  <2>2. \A p \in Paths : StatusOf(Loaded(ok)[p]) \in Statuses
    BY HudTypes
  <2>3. UNCHANGED <<files, done, disk, due, late, favs, favFile, groups>>
    BY <1>12 DEF LoadDir, favVars
  <2>. QED  BY <1>0, <2>1, <2>2, <2>3 DEF Books
<1>. QED  BY <1>1, <1>2, <1>3, <1>4, <1>5, <1>6, <1>7, <1>8, <1>9, <1>10, <1>11, <1>12
          DEF Next, WindowStep

-----------------------------------------------------------------------------
(* What is noted for the window thread, and its task. *)

LEMMA NotedGrows ==
    ASSUME Typed, NEW x \in Syncs, syncs' = Append(syncs, x)
    PROVE  /\ Noted(x.kind, x.book)'
           /\ \A kind, p : Noted(kind, p) => Noted(kind, p)'
<1>. DEFINE n == Len(syncs)
<1>1. /\ DOMAIN syncs = 1 .. n /\ n \in Nat /\ DOMAIN syncs' = 1 .. n + 1
      /\ syncs'[n + 1] = x /\ \A i \in 1 .. n : syncs'[i] = syncs[i]
  BY SeqFacts DEF Typed, Actors
<1>2. n + 1 \in DOMAIN syncs' /\ \A i \in DOMAIN syncs : i \in DOMAIN syncs'
  BY <1>1
<1>. QED  BY <1>1, <1>2 DEF Noted

LEMMA NotedShrinks ==
    ASSUME Typed, syncs # <<>>, syncs' = Tail(syncs)
    PROVE  \A kind, p : Noted(kind, p) => Noted(kind, p)' \/ (Head(syncs).kind = kind /\ Head(syncs).book = p)
<1>. DEFINE n == Len(syncs)
<1>1. /\ DOMAIN syncs = 1 .. n /\ n \in Nat /\ DOMAIN syncs' = 1 .. n - 1
      /\ Head(syncs) = syncs[1] /\ \A i \in DOMAIN syncs' : syncs'[i] = syncs[i + 1]
  BY SeqFacts DEF Typed, Actors
<1>. SUFFICES ASSUME NEW kind, NEW p, NEW i \in DOMAIN syncs, syncs[i].kind = kind, syncs[i].book = p
              PROVE  Noted(kind, p)' \/ (Head(syncs).kind = kind /\ Head(syncs).book = p)
  BY DEF Noted
<1>2. CASE i = 1
  BY <1>1, <1>2
<1>3. CASE i # 1
  <2>1. i - 1 \in DOMAIN syncs' /\ (i - 1) + 1 = i
    BY <1>1, <1>3
  <2>2. syncs'[i - 1] = syncs[i]
    BY <1>1, <2>1
  <2>. QED  BY <2>1, <2>2 DEF Noted
<1>. QED  BY <1>2, <1>3

\* What the actors outside the window thread do to what it works on: books go, and are noted;
\* sessions are noted; the task stays.
Outside ==
    /\ ui'.op = ui.op
    /\ ui'.op # "none" => ui'.book = ui.book /\ ui'.to = ui.to
    /\ done' = done /\ files' \subseteq files
    /\ \A kind, p : Noted(kind, p) => Noted(kind, p)'
    /\ \A p \in files \ files' : Noted("deleted", p)'

LEMMA OutsideIs ==
    ASSUME Typed, NEW v \in Viewers, ViewerStep(v) \/ ThreadStep(v)
    PROVE  Outside
<1>0. ui \in Tasks /\ thread \in [Viewers -> Threads]
  BY DEF Typed, Actors
<1>1. CASE SetOption(v)
  <2>1. viewer[v] \in Apps /\ viewer[v].book \in Paths
    BY <1>1 DEF SetOption, Typed, Actors
  <2>2. Chosen(viewer[v]) \in Data
    BY <2>1, ChosenIs
  <2>3. PICK ok \in BOOLEAN : Replace(Chosen(viewer[v]), ok, thread, ui)
    BY <1>1 DEF SetOption, Chosen
  <2>4. ui'.op = ui.op /\ (ui'.op # "none" => ui'.book = ui.book /\ ui'.to = ui.to)
    BY <1>0, <2>2, <2>3, ReplaceIs
  <2>5. UNCHANGED <<files, syncs, done>>
    BY <1>1 DEF SetOption
  <2>. QED  BY <2>4, <2>5 DEF Outside, Noted
<1>2. CASE SessionWrites(v)
  <2>1. (\A moved \in BOOLEAN : SessionData(v, moved) \in Data) /\ Head(line[v]) \in Asks
    BY <1>2, SessionDataIs DEF SessionWrites
  <2>2. PICK ok, moved \in BOOLEAN : Replace(SessionData(v, moved), ok, [thread EXCEPT ![v] = IdleThread], ui)
    BY <1>2 DEF SessionWrites, SessionData
  <2>3. ui'.op = ui.op /\ (ui'.op # "none" => ui'.book = ui.book /\ ui'.to = ui.to)
    <3>. DEFINE threads == [thread EXCEPT ![v] = IdleThread]
    <3>1. IdleThread \in Threads
      BY RecordTypes
    <3>2. threads \in [Viewers -> Threads]
      BY <1>0, <3>1
    <3>3. Replace(SessionData(v, moved), ok, threads, ui)
      BY <2>2
    <3>. HIDE DEF threads
    <3>. QED  BY <1>0, <2>1, <3>2, <3>3, ReplaceIs
  <2>4. UNCHANGED <<files, done>> /\ syncs' = Append(syncs, Sync("finished", Head(line[v]).book, NoPath))
    BY <1>2 DEF SessionWrites
  <2>5. Sync("finished", Head(line[v]).book, NoPath) \in Syncs
    BY <2>1 DEF Sync, Syncs, Asks, Spots
  <2>6. \A kind, p : Noted(kind, p) => Noted(kind, p)'
    BY <2>4, <2>5, NotedGrows
  <2>. QED  BY <2>3, <2>4, <2>6 DEF Outside
<1>3. CASE ThreadDeletes(v)
  <2>. DEFINE m == Head(line[v])
  <2>1. UNCHANGED <<ui, done>>
    BY <1>3 DEF ThreadDeletes
  <2>2. CASE m.book \in files
    <3>1. PICK b \in files, p \in Spots :
              files' = files \ {b} /\ syncs' = Append(syncs, Sync("deleted", b, p))
      BY <1>3, <2>2 DEF ThreadDeletes, Spots, Typed, Books
    <3>. DEFINE x == Sync("deleted", b, p)
    <3>2. x \in Syncs /\ x.kind = "deleted" /\ x.book = b
      BY DEF Sync, Syncs, Spots, Typed, Books
    <3>3. Noted(x.kind, x.book)' /\ \A kind, q : Noted(kind, q) => Noted(kind, q)'
      <4>. HIDE DEF x
      <4>. QED  BY <3>1, <3>2, NotedGrows DEF x
    <3>4. Noted("deleted", b)'
      BY <3>3 DEF Sync
    <3>. QED  BY <2>1, <3>1, <3>3, <3>4 DEF Outside
  <2>3. CASE m.book \notin files
    <3>1. UNCHANGED <<files, syncs>>
      BY <1>3, <2>3 DEF ThreadDeletes
    <3>. QED  BY <2>1, <3>1 DEF Outside, Noted
  <2>. QED  BY <2>2, <2>3
<1>4. CASE SessionReads(v)
  <2>1. UNCHANGED <<files, syncs, done, ui>>
    BY <1>4 DEF SessionReads, uiVars
  <2>. QED  BY <2>1 DEF Outside, Noted
<1>5. CASE ViewerStep(v) /\ ~SetOption(v)
  <2>1. UNCHANGED <<files, syncs, done, ui>>
    BY <1>5 DEF ViewerStep, Open, Show, GoTo, GoOnRebuilt, AskDelete, Deleted, Close, Acked,
                Exit, Kill, uiVars
  <2>. QED  BY <2>1 DEF Outside, Noted
<1>. QED  BY <1>1, <1>2, <1>3, <1>4, <1>5 DEF ThreadStep

\* A write of the window thread ends its task.
LEMMA TaskEnds ==
    ASSUME Typed, Task, ClearWrites \/ ForgetWrites \/ RenameWrites
    PROVE  ui'.op = "none"
<1>1. thread \in [Viewers -> Threads] /\ IdleUi \in Tasks /\ IdleUi.op = "none" /\ ui \in Tasks
  BY RecordTypes DEF Typed, Actors, IdleUi
<1>2. CASE ClearWrites \/ ForgetWrites
  <2>1. ui.book \in Paths
    BY <1>2 DEF Task, ClearWrites, ForgetWrites
  <2>2. PICK ok \in BOOLEAN, all \in BOOLEAN : RemovalWritten(ui.book, ok, all)
    BY <1>2 DEF ClearWrites, ForgetWrites
  <2>3. Removal(ui.book) \in Data /\ Replace(Removal(ui.book), ok, thread, IdleUi)
    BY <2>1, <2>2, RemovalIs DEF RemovalWritten
  <2>. QED  BY <1>1, <2>3, ReplaceIs
<1>3. CASE RenameWrites
  <2>. DEFINE data == IF ui.copy[ui.book] = NoRecord THEN disk ELSE Moved(ui.copy, ui.book, ui.to)
  <2>1. ui.book \in Paths /\ ui.to \in Paths /\ ui.copy \in Data /\ disk \in Data
    BY <1>1, <1>3 DEF Task, RenameWrites, Tasks, Typed, Books
  <2>2. data \in Data
    BY <2>1, MovedIs
  <2>3. PICK ok \in BOOLEAN : Replace(data, ok, thread, IdleUi)
    BY <1>3 DEF RenameWrites
  <2>. HIDE DEF data
  <2>. QED  BY <1>1, <2>2, <2>3, ReplaceIs
<1>. QED  BY <1>2, <1>3

LEMMA TaskKept ==
    ASSUME Typed, Task, Next
    PROVE  Task'
<1>0. ui \in Tasks /\ NoPath \in Spots /\ Paths \subseteq Spots /\ files \subseteq Paths
  BY DEF Typed, Actors, Books, Spots
<1>1. ASSUME NEW v \in Viewers, ViewerStep(v) \/ ThreadStep(v) PROVE Task'
  <2>1. Outside
    BY <1>1, OutsideIs
  <2>2. ASSUME ui'.op = "rename" PROVE (ui.to \in files \/ Leaving(ui.to))'
    <3>1. ui.op = "rename" /\ ui'.to = ui.to /\ ui'.book = ui.book
      BY <2>1, <2>2 DEF Outside
    <3>2. ui.to \in files \/ Leaving(ui.to)
      BY <3>1 DEF Task
    <3>3. CASE ui.to \in files
      <4>1. CASE ui.to \in files'
        BY <3>1, <4>1
      <4>2. CASE ui.to \notin files'
        <5>1. PICK p : p = ui.to
          OBVIOUS
        <5>2. Noted("deleted", p)' /\ p = ui'.to
          BY <2>1, <3>1, <3>3, <4>2, <5>1 DEF Outside
        <5>. QED  BY <5>2 DEF Leaving, Noted
      <4>. QED  BY <4>1, <4>2
    <3>4. CASE Leaving(ui.to)
      <4>1. PICK p : p = ui.to
        OBVIOUS
      <4>2. p = ui'.to /\ (p \in done' \/ Noted("deleted", p)' \/ ui'.book = p)
        BY <2>1, <3>1, <3>4, <4>1 DEF Outside, Leaving
      <4>. QED  BY <2>2, <4>2 DEF Leaving, Noted
    <3>. QED  BY <3>2, <3>3, <3>4
  <2>. QED  BY <2>1, <2>2 DEF Task, Outside
<1>2. CASE ToggleFavorite \/ AssignGroup \/ DeleteBook \/ RefreshHud \/ LoadDir
  <2>1. ui.op = "none" /\ ui' = ui
    BY <1>2 DEF ToggleFavorite, AssignGroup, DeleteBook, RefreshHud, LoadDir, AtEvents, uiVars
  <2>. QED  BY <2>1 DEF Task
<1>3. CASE ClearWrites \/ ForgetWrites \/ RenameWrites
  BY <1>3, TaskEnds DEF Task
<1>4. CASE ClearSettings
  <2>1. PICK p \in files, ok \in BOOLEAN : Begins("clear", p, NoPath, ok)
    BY <1>4 DEF ClearSettings
  <2>2. ui'.op = "clear" /\ ui'.book = p
    BY <1>0, <2>1, BeginsIs
  <2>. QED  BY <1>0, <2>2 DEF Task
<1>5. CASE ForgetBook
  <2>1. PICK p \in Paths, ok \in BOOLEAN : Begins("forget", p, NoPath, ok)
    BY <1>5 DEF ForgetBook
  <2>2. ui'.op = "forget" /\ ui'.book = p
    BY <1>0, <2>1, BeginsIs
  <2>. QED  BY <2>2 DEF Task
<1>6. CASE RenameBook
  <2>1. PICK p \in files, to \in Paths \ files, ok \in BOOLEAN :
            files' = (files \ {p}) \cup {to} /\ Begins("rename", p, to, ok)
    BY <1>6 DEF RenameBook
  <2>2. ui'.op = "rename" /\ ui'.book = p /\ ui'.to = to
    BY <1>0, <2>1, BeginsIs
  <2>. QED  BY <1>0, <2>1, <2>2 DEF Task
<1>. QED  BY <1>1, <1>2, <1>3, <1>4, <1>5, <1>6 DEF Next, WindowStep

-----------------------------------------------------------------------------
(* The records are what the changes have made of them. *)

LEMMA WriteKeepsRecords ==
    ASSUME Books, NEW data \in Data, NEW ok \in BOOLEAN, NEW change \in Data, NEW stale \in BOOLEAN,
           disk' = Written(data, ok), Due(change, stale, data, ok),
           ~stale => \A p \in Paths \ late' : data[p] = change[p]
    PROVE  RecordKept'
<1>1. CASE stale \/ ~ok
  BY <1>1 DEF Due, RecordKept
<1>2. CASE ~stale /\ ok
  BY <1>2 DEF Due, RecordKept, Written
<1>. QED  BY <1>1, <1>2

\* A change that is right of fresh data is right of the records as they should be.
LEMMA LateGrows ==
    ASSUME NEW data, NEW ok, NEW p
    PROVE  late \subseteq Late(data, ok, p)
BY DEF Late

LEMMA WithOptionIs ==
    ASSUME NEW r \in Records, NEW n \in 0 .. 1
    PROVE  /\ WithOption(r, n) \in Records /\ WithOption(r, n).option = n
           /\ WithOption(r, n).status = StatusOf(r)
<1>1. Entry(r) \in [status : Statuses, option : 0 .. 1]
  BY RecordTypes
<1>. QED  BY <1>1 DEF WithOption, StatusOf, Records

LEMMA JudgedIs ==
    ASSUME NEW r \in Records, NEW shown \in Pages
    PROVE  Judged(r, shown) = Apply(r, shown)
<1>1. \/ r = NoRecord
      \/ r # NoRecord /\ r \in [status : Statuses, option : 0 .. 1]
  BY DEF Records
<1>2. CASE r = NoRecord
  BY <1>2 DEF Judged, Apply, Entry, NoRecord, Default, Pages
<1>3. CASE r # NoRecord /\ r \in [status : Statuses, option : 0 .. 1]
  <2>1. Entry(r) = r
    BY <1>3 DEF Entry
  <2>2. \A x \in Statuses : [r EXCEPT !.status = x] = [status |-> x, option |-> r.option]
    BY <1>3
  <2>. QED  BY <2>1, <2>2 DEF Judged, Apply, Pages, Statuses
<1>. QED  BY <1>1, <1>2, <1>3

LEMMA RecordsKept ==
    ASSUME Typed, Task, Fresh, RecordKept, Next
    PROVE  RecordKept'
<1>0. Books /\ disk \in Data /\ due \in Data /\ \A p \in Paths : disk[p] \in Records /\ due[p] \in Records
  BY DEF Typed, Books, Data
<1>1. ASSUME NEW v \in Viewers, SetOption(v) PROVE RecordKept'
  <2>. DEFINE w == viewer[v]
              n == Chosen(w)[w.book].option
              change == [due EXCEPT ![w.book] = WithOption(@, n)]
  <2>1. w \in Apps /\ w.book \in Paths /\ w.state # "gone"
    BY <1>1 DEF SetOption, Typed, Actors
  <2>2. Chosen(w) \in Data
    BY <2>1, ChosenIs
  <2>3. PICK ok \in BOOLEAN :
            /\ Replace(Chosen(w), ok, thread, ui) /\ Due(change, w.stale, Chosen(w), ok)
            /\ late' = Late(Chosen(w), ok, NoPath)
    BY <1>1 DEF SetOption, Chosen
  <2>4. w.copy \in Data /\ w.stale \in BOOLEAN /\ w.copy[w.book] \in Records
    BY <2>1 DEF Apps, Data
  <2>5. n \in 0 .. 1 /\ Chosen(w)[w.book] = WithOption(w.copy[w.book], n)
    <3>. DEFINE k == 1 - Entry(w.copy[w.book]).option
    <3>1. Entry(w.copy[w.book]).option \in 0 .. 1
      BY <2>4, RecordTypes
    <3>2. k \in 0 .. 1
      BY <3>1
    <3>3. Chosen(w) = [w.copy EXCEPT ![w.book] = WithOption(w.copy[w.book], k)]
      BY DEF Chosen
    <3>. HIDE DEF k
    <3>4. Chosen(w)[w.book] = WithOption(w.copy[w.book], k)
      BY <2>1, <2>4, <3>3 DEF Data
    <3>5. n = k
      BY <2>4, <3>2, <3>4, WithOptionIs
    <3>. QED  BY <3>2, <3>4, <3>5
  <2>6. \A q \in Paths : q # w.book => Chosen(w)[q] = w.copy[q]
    BY <2>4 DEF Chosen, Data
  <2>7. change \in Data
    BY <1>0, <2>1, <2>5, WithOptionIs DEF Data
  <2>8. ~w.stale => \A p \in Paths \ late' : Chosen(w)[p] = change[p]
    <3>1. late \subseteq late'
      BY <2>3, LateGrows
    <3>2. ~w.stale => w.copy = disk
      BY <2>1 DEF Fresh
    <3>3. \A p \in Paths \ late : disk[p] = due[p]
      BY DEF RecordKept
    <3>4. \A p \in Paths : change[p] = IF p = w.book THEN WithOption(due[p], n) ELSE due[p]
      BY <1>0, <2>1 DEF Data
    <3>. HIDE DEF w, n, change
    <3>. QED  BY <2>5, <2>6, <3>1, <3>2, <3>3, <3>4
  <2>9. disk' = Written(Chosen(w), ok)
    BY <2>3 DEF Replace
  <2>. HIDE DEF w, n, change
  <2>. QED  BY <1>0, <2>2, <2>3, <2>4, <2>7, <2>8, <2>9, WriteKeepsRecords
<1>2. ASSUME NEW v \in Viewers, SessionWrites(v) PROVE RecordKept'
  <2>. DEFINE m == Head(line[v])
              copy == thread[v].copy
              change == [due EXCEPT ![m.book] = Judged(@, m.shown)]
  <2>1. (\A moved \in BOOLEAN : SessionData(v, moved) \in Data) /\ m \in Asks /\ thread[v] \in Threads /\ thread[v].busy
    BY <1>2, SessionDataIs DEF SessionWrites, Typed, Actors
  <2>2. m.book \in Paths /\ m.shown \in Pages /\ copy \in Data /\ thread[v].stale \in BOOLEAN
    BY <2>1 DEF Asks, Threads
  <2>3. PICK ok, moved \in BOOLEAN :
            /\ Replace(SessionData(v, moved), ok, [thread EXCEPT ![v] = IdleThread], ui)
            /\ Due(change, thread[v].stale, SessionData(v, moved), ok)
            /\ late' = Late(SessionData(v, moved), ok, NoPath)
    BY <1>2 DEF SessionWrites, SessionData
  <2>4. change \in Data
    <3>1. due[m.book] \in Records
      BY <1>0, <2>2
    <3>2. Judged(due[m.book], m.shown) \in Records
      BY <2>2, <3>1, RecordTypes
    <3>. HIDE DEF m
    <3>. QED  BY <1>0, <2>2, <3>2 DEF Data
  <2>5. \A p \in Paths : change[p] = IF p = m.book THEN Judged(due[p], m.shown) ELSE due[p]
    BY <1>0, <2>2 DEF Data
  <2>6. copy = disk => \A p \in Paths : SessionData(v, moved)[p] = IF p = m.book THEN Apply(copy[p], m.shown) ELSE copy[p]
    BY <1>0, <2>2 DEF SessionData, Data
  <2>7. ~thread[v].stale => \A p \in Paths \ late' : SessionData(v, moved)[p] = change[p]
    <3>1. late \subseteq late'
      BY <2>3, LateGrows
    <3>2. ~thread[v].stale => copy = disk
      BY <2>1 DEF Fresh
    <3>3. \A p \in Paths \ late : disk[p] = due[p]
      BY DEF RecordKept
    <3>4. \A p \in Paths : Judged(due[p], m.shown) = Apply(due[p], m.shown)
      BY <1>0, <2>2, JudgedIs
    <3>. HIDE DEF m, copy, change
    <3>. QED  BY <2>5, <2>6, <3>1, <3>2, <3>3, <3>4
  <2>8. disk' = Written(SessionData(v, moved), ok)
    BY <2>3 DEF Replace
  <2>. HIDE DEF change
  <2>. QED  BY <1>0, <2>1, <2>2, <2>3, <2>4, <2>7, <2>8, WriteKeepsRecords
<1>3. CASE ClearWrites \/ ForgetWrites
  <2>. DEFINE p == ui.book
  <2>1. p \in Paths /\ ui \in Tasks /\ ui.op # "none"
    BY <1>3 DEF Task, ClearWrites, ForgetWrites, Typed, Actors
  <2>2. PICK ok \in BOOLEAN, all \in BOOLEAN : RemovalWritten(p, ok, all)
    BY <1>3 DEF ClearWrites, ForgetWrites
  <2>3. Removal(p) \in Data /\ ui.stale \in BOOLEAN /\ ui.copy \in Data
    BY <2>1, RemovalIs DEF Tasks
  <2>4. Without(due, p) \in Data
    BY <1>0, <2>1, RecordTypes DEF Without, Data
  <2>5. /\ disk' = Written(Removal(p), ok) /\ Due(Without(due, p), ui.stale, Removal(p), ok)
        /\ late \subseteq late'
    BY <2>2, LateGrows DEF RemovalWritten, Replace
  <2>6. ~ui.stale => \A q \in Paths \ late' : Removal(p)[q] = Without(due, p)[q]
    <3>1. ~ui.stale => ui.copy = disk
      BY <2>1 DEF Fresh
    <3>2. \A q \in Paths \ late : disk[q] = due[q]
      BY DEF RecordKept
    <3>. HIDE DEF p
    <3>. QED  BY <1>0, <2>1, <2>5, <3>1, <3>2 DEF Removal, Without, Data
  <2>. HIDE DEF p
  <2>. QED  BY <1>0, <2>3, <2>4, <2>5, <2>6, WriteKeepsRecords
<1>4. CASE RenameWrites
  <2>. DEFINE p == ui.book
              to == ui.to
              same == ui.copy[p] = NoRecord
              data == IF same THEN disk ELSE Moved(ui.copy, p, to)
              change == [due EXCEPT ![p] = NoRecord, ![to] = due[p]]
  <2>1. /\ p \in Paths /\ to \in Paths /\ p # to /\ ui \in Tasks /\ ui.op # "none"
        /\ ui.copy \in Data /\ ui.stale \in BOOLEAN
    BY <1>4 DEF Task, RenameWrites, Tasks, Typed, Actors
  <2>2. data \in Data /\ change \in Data
    BY <1>0, <2>1, MovedIs, RecordTypes DEF Data
  <2>3. PICK ok \in BOOLEAN, grouped \in BOOLEAN :
            /\ Replace(data, ok, thread, IdleUi) /\ Due(change, ui.stale, data, ok)
            /\ late' = Late(data, ok, p) \cup (IF p \in late \/ (same /\ disk[to] # NoRecord) THEN {to} ELSE {})
                         \cup IF grouped THEN {} ELSE {p}
    BY <1>4 DEF RenameWrites
  <2>4. /\ late \subseteq late' /\ (p \in late => to \in late') /\ (same /\ disk[to] # NoRecord => to \in late')
    BY <2>3, LateGrows
  <2>5. \A q \in Paths : change[q] = IF q = to THEN due[p] ELSE IF q = p THEN NoRecord ELSE due[q]
    BY <1>0, <2>1 DEF Data
  <2>6. ui.copy = disk =>
          \A q \in Paths : data[q] = IF same THEN disk[q] ELSE IF q = to THEN disk[p]
                                     ELSE IF q = p THEN NoRecord ELSE disk[q]
    BY <1>0, <2>1 DEF Moved, Data
  <2>7. ~ui.stale => \A q \in Paths \ late' : data[q] = change[q]
    <3>1. ~ui.stale => ui.copy = disk
      BY <2>1 DEF Fresh
    <3>2. \A q \in Paths \ late : disk[q] = due[q]
      BY DEF RecordKept
    <3>. SUFFICES ASSUME ~ui.stale, NEW q \in Paths \ late'
                  PROVE  data[q] = change[q]
      OBVIOUS
    <3>3. same <=> disk[p] = NoRecord
      BY <3>1
    <3>. HIDE DEF p, to, same, data, change
    <3>4. CASE q = to
      BY <2>1, <2>4, <2>5, <2>6, <3>1, <3>2, <3>3, <3>4
    <3>5. CASE q # to
      BY <2>1, <2>4, <2>5, <2>6, <3>1, <3>2, <3>3, <3>5
    <3>. QED  BY <3>4, <3>5
  <2>8. disk' = Written(data, ok)
    BY <2>3 DEF Replace
  <2>. HIDE DEF data, change
  <2>. QED  BY <1>0, <2>1, <2>2, <2>3, <2>7, <2>8, WriteKeepsRecords
<1>5. CASE UNCHANGED <<disk, due, late>>
  BY <1>5 DEF RecordKept
<1>6. ASSUME NEW v \in Viewers, ViewerStep(v) \/ ThreadStep(v), ~SetOption(v), ~SessionWrites(v)
      PROVE  UNCHANGED <<disk, due, late>>
  BY <1>6 DEF ViewerStep, ThreadStep, Open, Show, GoTo, GoOnRebuilt, AskDelete, Deleted, Close, Acked,
              Exit, Kill, SessionReads, ThreadDeletes
<1>7. ASSUME ToggleFavorite \/ AssignGroup \/ ClearSettings \/ DeleteBook \/ ForgetBook \/ RenameBook
             \/ RefreshHud \/ LoadDir
      PROVE  UNCHANGED <<disk, due, late>>
  BY <1>7 DEF ToggleFavorite, AssignGroup, ClearSettings, DeleteBook, ForgetBook, RenameBook,
              RefreshHud, LoadDir
<1>. QED  BY <1>1, <1>2, <1>3, <1>4, <1>5, <1>6, <1>7 DEF Next, WindowStep

-----------------------------------------------------------------------------
(* A copy that is not stale is what the file has. *)

LEMMA ViewerFresh ==
    ASSUME Typed, Fresh, NEW v \in Viewers, NEW w \in Apps,
           w.state # "gone" /\ ~w.stale => w.copy = disk,
           viewer' = [viewer EXCEPT ![v] = w], UNCHANGED <<disk, thread, ui>>
    PROVE  Fresh'
<1>1. viewer'[v] = w /\ \A u \in Viewers : u # v => viewer'[u] = viewer[u]
  BY DEF Typed, Actors
<1>. QED  BY <1>1 DEF Fresh

LEMMA WriteFresh ==
    ASSUME Typed, Fresh, NEW data \in Data, NEW ok \in BOOLEAN, NEW threads \in [Viewers -> Threads],
           NEW u \in Tasks, Replace(data, ok, threads, u),
           \A v \in Viewers : threads[v].busy => threads[v] = thread[v], u = ui \/ u = IdleUi
    PROVE  /\ \A v \in Viewers : thread'[v].busy /\ ~thread'[v].stale => thread'[v].copy = disk'
           /\ ui'.op # "none" /\ ~ui'.stale => ui'.copy = disk'
<1>1. ASSUME NEW v \in Viewers, thread'[v].busy, ~thread'[v].stale PROVE thread'[v].copy = disk'
  <2>1. threads[v].busy /\ ~threads[v].stale /\ disk' = disk /\ thread'[v].copy = threads[v].copy
    BY <1>1, ReplaceIs
  <2>. QED  BY <2>1 DEF Fresh
<1>2. ASSUME ui'.op # "none", ~ui'.stale PROVE ui'.copy = disk'
  <2>1. u.op # "none" /\ ~u.stale /\ disk' = disk /\ ui'.copy = u.copy
    BY <1>2, ReplaceIs
  <2>2. IdleUi.op = "none"
    BY DEF IdleUi
  <2>. QED  BY <2>1, <2>2 DEF Fresh
<1>. QED  BY <1>1, <1>2

LEMMA OthersFresh ==
    ASSUME Typed, Fresh, NEW data \in Data, NEW ok \in BOOLEAN, disk' = Written(data, ok)
    PROVE  \A v \in Viewers : LET a == AgedViewers(data, ok)[v]
                              IN  a.state # "gone" /\ ~a.stale => a.copy = disk'
<1>. SUFFICES ASSUME NEW v \in Viewers, AgedViewers(data, ok)[v].state # "gone",
                     ~AgedViewers(data, ok)[v].stale
              PROVE  AgedViewers(data, ok)[v].copy = disk'
  OBVIOUS
<1>1. /\ AgedViewers(data, ok)[v].copy = viewer[v].copy /\ viewer[v].state # "gone"
      /\ ~viewer[v].stale /\ disk' = disk
  BY AgedViewersAre
<1>. QED  BY <1>1 DEF Fresh

\* The end of a task: a write of the whole file.
LEMMA TaskWrites ==
    ASSUME Typed, Task, ClearWrites \/ ForgetWrites \/ RenameWrites
    PROVE  \E data \in Data, ok \in BOOLEAN :
               Replace(data, ok, thread, IdleUi) /\ viewer' = AgedViewers(data, ok)
<1>0. Books /\ ui \in Tasks
  BY DEF Typed, Actors
<1>1. CASE ClearWrites \/ ForgetWrites
  <2>1. ui.book \in Paths
    BY <1>1 DEF Task, ClearWrites, ForgetWrites
  <2>2. Removal(ui.book) \in Data
    BY <2>1, RemovalIs
  <2>3. PICK ok \in BOOLEAN, all \in BOOLEAN : RemovalWritten(ui.book, ok, all)
    BY <1>1 DEF ClearWrites, ForgetWrites
  <2>. QED  BY <2>2, <2>3 DEF RemovalWritten
<1>2. CASE RenameWrites
  <2>. DEFINE data == IF ui.copy[ui.book] = NoRecord THEN disk ELSE Moved(ui.copy, ui.book, ui.to)
  <2>1. ui.book \in Paths /\ ui.to \in Paths /\ ui.copy \in Data /\ disk \in Data
    BY <1>0, <1>2 DEF Task, RenameWrites, Tasks, Books
  <2>2. data \in Data
    BY <2>1, MovedIs
  <2>3. \E ok \in BOOLEAN : Replace(data, ok, thread, IdleUi) /\ viewer' = AgedViewers(data, ok)
    BY <1>2 DEF RenameWrites
  <2>. HIDE DEF data
  <2>. QED  BY <2>2, <2>3
<1>. QED  BY <1>1, <1>2

LEMMA FreshKept ==
    ASSUME Typed, StoresAssumption, Task, Fresh, Next
    PROVE  Fresh'
<1>0. /\ Books /\ ui \in Tasks /\ thread \in [Viewers -> Threads] /\ viewer \in [Viewers -> Apps]
      /\ Gone \in Apps /\ Gone.state = "gone" /\ IdleThread \in Threads /\ IdleThread.busy = FALSE
      /\ IdleUi \in Tasks /\ files \subseteq Paths
  BY RecordTypes DEF Typed, Actors, Gone, IdleThread, Books
<1>1. ASSUME NEW v \in Viewers, SetOption(v) PROVE Fresh'
  <2>. DEFINE w == viewer[v]
  <2>1. w \in Apps /\ w.book \in Paths
    BY <1>1 DEF SetOption, Typed, Actors
  <2>2. Chosen(w) \in Data
    BY <2>1, ChosenIs
  <2>3. PICK ok \in BOOLEAN :
            /\ Replace(Chosen(w), ok, thread, ui)
            /\ viewer' = [AgedViewers(Chosen(w), ok) EXCEPT ![v] = [w EXCEPT !.copy = Chosen(w), !.stale = ~ok]]
    BY <1>1 DEF SetOption, Chosen
  <2>. DEFINE old == AgedViewers(Chosen(w), ok)
              r == [w EXCEPT !.copy = Chosen(w), !.stale = ~ok]
  <2>4. r.copy = Chosen(w) /\ (~r.stale => ok)
    BY <2>1 DEF Apps
  <2>5. disk' = Written(Chosen(w), ok)
    BY <2>3 DEF Replace
  <2>6. /\ old \in [Viewers -> Apps]
        /\ \A u \in Viewers : old[u].state # "gone" /\ ~old[u].stale => old[u].copy = disk'
    BY <2>2, <2>5, OthersFresh, AgedViewersAre
  <2>7. viewer' = [old EXCEPT ![v] = r]
    BY <2>3
  <2>8. ~r.stale => r.copy = disk'
    BY <2>4, <2>5 DEF Written
  <2>. HIDE DEF old, r
  <2>9. \A u \in Viewers : viewer'[u].state # "gone" /\ ~viewer'[u].stale => viewer'[u].copy = disk'
    BY <2>6, <2>7, <2>8
  <2>. HIDE DEF w
  <2>10. /\ \A u \in Viewers : thread'[u].busy /\ ~thread'[u].stale => thread'[u].copy = disk'
         /\ ui'.op # "none" /\ ~ui'.stale => ui'.copy = disk'
    BY <1>0, <2>2, <2>3, WriteFresh
  <2>. QED  BY <2>9, <2>10 DEF Fresh
<1>2. ASSUME NEW v \in Viewers, SessionWrites(v) PROVE Fresh'
  <2>1. (\A moved \in BOOLEAN : SessionData(v, moved) \in Data)
    BY <1>2, SessionDataIs DEF SessionWrites
  <2>. DEFINE threads == [thread EXCEPT ![v] = IdleThread]
  <2>2. PICK ok, moved \in BOOLEAN :
            Replace(SessionData(v, moved), ok, threads, ui) /\ viewer' = AgedViewers(SessionData(v, moved), ok)
    BY <1>2 DEF SessionWrites, SessionData
  <2>3. threads \in [Viewers -> Threads] /\ \A u \in Viewers : threads[u].busy => threads[u] = thread[u]
    BY <1>0
  <2>4. disk' = Written(SessionData(v, moved), ok)
    BY <2>2 DEF Replace
  <2>. HIDE DEF threads
  <2>5. /\ \A u \in Viewers : thread'[u].busy /\ ~thread'[u].stale => thread'[u].copy = disk'
        /\ ui'.op # "none" /\ ~ui'.stale => ui'.copy = disk'
    BY <1>0, <2>1, <2>2, <2>3, WriteFresh
  <2>6. \A u \in Viewers : viewer'[u].state # "gone" /\ ~viewer'[u].stale => viewer'[u].copy = disk'
    BY <2>1, <2>2, <2>4, OthersFresh
  <2>. QED  BY <2>5, <2>6 DEF Fresh
<1>3. CASE ClearWrites \/ ForgetWrites \/ RenameWrites
  <2>1. PICK data \in Data, ok \in BOOLEAN :
            Replace(data, ok, thread, IdleUi) /\ viewer' = AgedViewers(data, ok)
    BY <1>3, TaskWrites
  <2>2. disk' = Written(data, ok)
    BY <2>1 DEF Replace
  <2>3. /\ \A u \in Viewers : thread'[u].busy /\ ~thread'[u].stale => thread'[u].copy = disk'
        /\ ui'.op # "none" /\ ~ui'.stale => ui'.copy = disk'
    BY <1>0, <2>1, WriteFresh
  <2>4. \A u \in Viewers : viewer'[u].state # "gone" /\ ~viewer'[u].stale => viewer'[u].copy = disk'
    BY <2>1, <2>2, OthersFresh
  <2>. QED  BY <2>3, <2>4 DEF Fresh
<1>4. ASSUME NEW v \in Viewers, ViewerStep(v), ~SetOption(v) PROVE Fresh'
  <2>. SUFFICES \E w \in Apps : /\ w.state # "gone" /\ ~w.stale => w.copy = disk
                                /\ viewer' = [viewer EXCEPT ![v] = w]
    <3>1. UNCHANGED <<disk, thread, ui>>
      BY <1>4 DEF ViewerStep, Open, Show, GoTo, GoOnRebuilt, AskDelete, Deleted, Close, Acked,
                  Exit, Kill, ipcVars, uiVars
    <3>. QED  BY <3>1, ViewerFresh
  <2>1. viewer[v] \in Apps /\ viewer[v].copy \in Data /\ viewer[v].stale \in BOOLEAN
        /\ viewer[v].linked \in BOOLEAN
    BY <1>0 DEF Apps
  <2>2. viewer[v].state # "gone" /\ ~viewer[v].stale => viewer[v].copy = disk
    BY DEF Fresh
  <2>3. ASSUME NEW p \in Paths, viewer[v].state # "gone",
               viewer' = [viewer EXCEPT ![v] = Reading(v, p, viewer[v].copy, viewer[v].stale, viewer[v].linked)]
        PROVE  \E w \in Apps : /\ w.state # "gone" /\ ~w.stale => w.copy = disk
                               /\ viewer' = [viewer EXCEPT ![v] = w]
    <3>. DEFINE r == Reading(v, p, viewer[v].copy, viewer[v].stale, viewer[v].linked)
    <3>1. r \in Apps /\ r.copy = viewer[v].copy /\ r.stale = viewer[v].stale
      BY <2>1, ReadingIs
    <3>2. viewer' = [viewer EXCEPT ![v] = r]
      BY <2>3
    <3>. HIDE DEF r
    <3>. QED  BY <2>2, <2>3, <3>1, <3>2
  <2>4. ASSUME viewer[v].state # "gone", Finish(v)
        PROVE  \E w \in Apps : /\ w.state # "gone" /\ ~w.stale => w.copy = disk
                               /\ viewer' = [viewer EXCEPT ![v] = w]
    <3>. DEFINE r == [viewer[v] EXCEPT !.state = "closing", !.inFlight = @ \/ Tells(viewer[v])]
    <3>1. r \in Apps /\ r.copy = viewer[v].copy /\ r.stale = viewer[v].stale
      BY <2>1 DEF Apps, Tells
    <3>2. viewer' = [viewer EXCEPT ![v] = r]
      BY <2>4 DEF Finish
    <3>. HIDE DEF r
    <3>. QED  BY <2>2, <2>4, <3>1, <3>2
  <2>5. CASE Open(v)
    <3>1. PICK p \in files, linked \in Links, ok \in BOOLEAN :
              viewer' = [viewer EXCEPT ![v] = Reading(v, p, Loaded(ok), ~ok, linked)]
      BY <2>5 DEF Open
    <3>. DEFINE copy == Loaded(ok)
                stale == ~ok
                r == Reading(v, p, copy, stale, linked)
    <3>2. p \in Paths /\ linked \in BOOLEAN /\ stale \in BOOLEAN
      BY <1>0 DEF StoresAssumption
    <3>3. copy \in Data /\ (~stale => copy = disk)
      BY LoadedIs
    <3>4. viewer' = [viewer EXCEPT ![v] = r]
      BY <3>1
    <3>5. r \in Apps /\ r.copy = copy /\ r.stale = stale
      <4>. HIDE DEF copy, stale
      <4>. QED  BY <3>2, <3>3, ReadingIs
    <3>. HIDE DEF r, copy, stale
    <3>. QED  BY <3>3, <3>4, <3>5
  <2>6. CASE Show(v)
    <3>1. PICK page \in {"first", "last"} : viewer' = [viewer EXCEPT ![v].shown = page, ![v].start = "first"]
      BY <2>6 DEF Show
    <3>. DEFINE r == [viewer[v] EXCEPT !.shown = page, !.start = "first"]
    <3>2. r \in Apps /\ r.copy = viewer[v].copy /\ r.stale = viewer[v].stale /\ viewer[v].state # "gone"
      BY <2>1, <2>6 DEF Apps, Pages, Show
    <3>3. viewer' = [viewer EXCEPT ![v] = r]
      BY <1>0, <3>1
    <3>. HIDE DEF r
    <3>. QED  BY <2>2, <3>2, <3>3
  <2>7. CASE GoTo(v)
    <3>1. PICK p \in files : Reopen(v, p)
      BY <2>7 DEF GoTo
    <3>2. p \in Paths /\ viewer[v].state # "gone"
      BY <1>0, <2>7 DEF GoTo
    <3>. QED  BY <2>3, <3>1, <3>2 DEF Reopen
  <2>8. CASE GoOnRebuilt(v)
    <3>. DEFINE w == Discarded(viewer[v])
    <3>1. PICK p \in files : viewer' = [viewer EXCEPT ![v] = Reading(v, p, w.copy, w.stale, w.linked)]
      BY <2>8 DEF GoOnRebuilt
    <3>2. w.copy = viewer[v].copy /\ w.stale = viewer[v].stale /\ w.linked = viewer[v].linked
          /\ w.state = viewer[v].state
      BY <2>1 DEF Apps, Discarded
    <3>3. p \in Paths /\ viewer[v].state # "gone"
      BY <1>0, <2>8, <3>2 DEF GoOnRebuilt
    <3>. HIDE DEF w
    <3>. QED  BY <2>3, <3>1, <3>2, <3>3
  <2>9. CASE AskDelete(v)
    <3>1. PICK closes \in BOOLEAN : viewer' = [viewer EXCEPT ![v].state = "deleting", ![v].closes = closes]
      BY <2>9 DEF AskDelete
    <3>. DEFINE r == [viewer[v] EXCEPT !.state = "deleting", !.closes = closes]
    <3>2. r \in Apps /\ r.copy = viewer[v].copy /\ r.stale = viewer[v].stale /\ viewer[v].state # "gone"
      BY <2>1, <2>9 DEF Apps, AskDelete
    <3>3. viewer' = [viewer EXCEPT ![v] = r]
      BY <1>0, <3>1
    <3>. HIDE DEF r
    <3>. QED  BY <2>2, <3>2, <3>3
  <2>10. CASE Deleted(v)
    <3>1. viewer[v].state # "gone"
      BY <2>10 DEF Deleted
    <3>2. CASE Finish(v)
      BY <2>4, <3>1, <3>2
    <3>3. CASE viewer[v].next # NoPath /\ Reopen(v, viewer[v].next)
      <4>1. viewer[v].next \in Paths
        BY <2>1, <3>3 DEF Apps, Spots
      <4>. QED  BY <2>3, <3>1, <3>3, <4>1 DEF Reopen
    <3>. QED  BY <2>10, <3>2, <3>3 DEF Deleted
  <2>11. CASE Close(v)
    <3>1. viewer[v].state # "gone" /\ Finish(v)
      BY <2>11 DEF Close
    <3>. QED  BY <2>4, <3>1
  <2>12. CASE Acked(v)
    <3>. DEFINE r == [viewer[v] EXCEPT !.inFlight = FALSE, !.sent = TRUE]
    <3>2. r \in Apps /\ r.copy = viewer[v].copy /\ r.stale = viewer[v].stale /\ viewer[v].state # "gone"
      BY <2>1, <2>12 DEF Apps, Acked
    <3>3. viewer' = [viewer EXCEPT ![v] = r]
      BY <1>0, <2>12 DEF Acked
    <3>. HIDE DEF r
    <3>. QED  BY <2>2, <3>2, <3>3
  <2>13. CASE Exit(v) \/ Kill(v)
    BY <1>0, <2>13 DEF Exit, Kill
  <2>. QED  BY <1>4, <2>5, <2>6, <2>7, <2>8, <2>9, <2>10, <2>11, <2>12, <2>13 DEF ViewerStep
<1>5. ASSUME NEW v \in Viewers, SessionReads(v) PROVE Fresh'
  <2>1. PICK ok \in BOOLEAN :
            thread' = [thread EXCEPT ![v] = [busy |-> TRUE, copy |-> Loaded(ok), stale |-> ~ok]]
    BY <1>5 DEF SessionReads
  <2>2. UNCHANGED <<disk, viewer, ui>>
    BY <1>5 DEF SessionReads, uiVars
  <2>3. ok => Loaded(ok) = disk
    BY LoadedIs
  <2>4. thread'[v].stale = ~ok /\ thread'[v].copy = Loaded(ok) /\ \A u \in Viewers : u # v => thread'[u] = thread[u]
    BY <1>0, <2>1
  <2>. QED  BY <2>2, <2>3, <2>4 DEF Fresh
<1>6. ASSUME NEW v \in Viewers, ThreadDeletes(v) PROVE Fresh'
  <2>1. PICK st \in {"open", "answered"}, p \in Spots : Answer(v, st, p)
    <3>1. NoPath \in Spots /\ files \subseteq Spots
      BY <1>0 DEF Spots
    <3>2. CASE Head(line[v]).book \in files
      BY <1>6, <3>1, <3>2 DEF ThreadDeletes
    <3>3. CASE Head(line[v]).book \notin files
      BY <1>6, <3>1, <3>3 DEF ThreadDeletes
    <3>. QED  BY <3>2, <3>3
  <2>2. \A u \in Viewers : /\ viewer'[u].state = "gone" <=> viewer[u].state = "gone"
                           /\ viewer'[u].copy = viewer[u].copy /\ viewer'[u].stale = viewer[u].stale
    BY <2>1, AnswerIs
  <2>3. UNCHANGED <<disk, thread, ui>>
    BY <1>6 DEF ThreadDeletes
  <2>. QED  BY <2>2, <2>3 DEF Fresh
<1>7. CASE ClearSettings \/ ForgetBook \/ RenameBook
  <2>1. PICK op \in {"clear", "forget", "rename"}, p \in Paths, to \in Spots, ok \in BOOLEAN : Begins(op, p, to, ok)
    <3>1. CASE ClearSettings
      BY <1>0, <3>1 DEF ClearSettings, Spots
    <3>2. CASE ForgetBook
      BY <3>2 DEF ForgetBook, Spots
    <3>3. CASE RenameBook
      BY <1>0, <3>3 DEF RenameBook, Spots
    <3>. QED  BY <1>7, <3>1, <3>2, <3>3
  <2>2. ~ui'.stale => ui'.copy = disk
    BY <2>1, BeginsIs
  <2>3. UNCHANGED <<disk, viewer, thread>>
    BY <1>7 DEF ClearSettings, ForgetBook, RenameBook, ipcVars
  <2>. QED  BY <2>2, <2>3 DEF Fresh
<1>8. CASE ToggleFavorite \/ AssignGroup \/ DeleteBook \/ RefreshHud \/ LoadDir
  <2>1. UNCHANGED <<disk, viewer, thread, ui>>
    BY <1>8 DEF ToggleFavorite, AssignGroup, DeleteBook, RefreshHud, LoadDir, ipcVars, uiVars
  <2>. QED  BY <2>1 DEF Fresh
<1>. QED  BY <1>1, <1>2, <1>3, <1>4, <1>5, <1>6, <1>7, <1>8 DEF Next, ThreadStep, WindowStep

-----------------------------------------------------------------------------
(* The status that is shown is the one in the file, or is about to be. *)

\* A write says which statuses it changes.
LEMMA ChangedSays ==
    ASSUME NEW data, NEW ok, NEW q, disk' = Written(data, ok)
    PROVE  \A p \in Paths : p # q /\ p \notin Changed(data, ok, q) => StatusOf(disk'[p]) = StatusOf(disk[p])
BY DEF Changed

LEMMA SeenKept ==
    ASSUME Typed, Task, Seen, Next
    PROVE  Seen'
<1>0. /\ Books /\ ui \in Tasks /\ files \subseteq Paths /\ hud \in [Paths -> Statuses \cup {"absent"}]
      /\ "absent" \notin Statuses /\ StatusOf(NoRecord) = "Unread"
  BY DEF Typed, Actors, Books, Statuses, StatusOf, Entry, Default
<1>1. ASSUME NEW v \in Viewers, ViewerStep(v) \/ ThreadStep(v) PROVE Seen'
  <2>1. Outside
    BY <1>1, OutsideIs
  <2>2. hud' = hud
    BY <1>1 DEF ViewerStep, ThreadStep, Open, Show, GoTo, GoOnRebuilt, AskDelete, Deleted, Close, Acked,
                Exit, Kill, SessionReads, SessionWrites, ThreadDeletes, SetOption, uiVars
  <2>3. ASSUME NEW p, Unseen(p) PROVE Unseen(p)'
    BY <2>1, <2>3 DEF Unseen, Outside
  <2>4. /\ off \subseteq off'
        /\ \A p \in Paths \ off' : StatusOf(disk'[p]) = StatusOf(disk[p]) \/ Noted("finished", p)'
    <3>1. CASE SetOption(v)
      <4>1. PICK ok \in BOOLEAN : /\ Replace(Chosen(viewer[v]), ok, thread, ui)
                                  /\ off' = off \cup Changed(Chosen(viewer[v]), ok, NoPath)
        BY <3>1 DEF SetOption, Chosen
      <4>2. disk' = Written(Chosen(viewer[v]), ok)
        BY <4>1 DEF Replace
      <4>3. \A p \in Paths : p # NoPath
        BY RecordTypes
      <4>. QED  BY <4>1, <4>2, <4>3, ChangedSays
    <3>2. CASE SessionWrites(v)
      <4>1. (\A moved \in BOOLEAN : SessionData(v, moved) \in Data) /\ Head(line[v]) \in Asks
        BY <3>2, SessionDataIs DEF SessionWrites
      <4>2. PICK b \in Paths, ok, moved \in BOOLEAN :
                /\ Replace(SessionData(v, moved), ok, [thread EXCEPT ![v] = IdleThread], ui)
                /\ off' = off \cup Changed(SessionData(v, moved), ok, b)
                /\ syncs' = Append(syncs, Sync("finished", b, NoPath))
        BY <3>2, <4>1 DEF SessionWrites, SessionData, Asks
      <4>. DEFINE x == Sync("finished", b, NoPath)
      <4>3. x \in Syncs
        BY DEF Sync, Syncs, Spots
      <4>4. Noted(x.kind, x.book)'
        <5>. HIDE DEF x
        <5>. QED  BY <4>2, <4>3, NotedGrows DEF x
      <4>5. Noted("finished", b)'
        BY <4>4 DEF Sync
      <4>6. disk' = Written(SessionData(v, moved), ok)
        BY <4>2 DEF Replace
      <4>. QED  BY <4>2, <4>5, <4>6, ChangedSays
    <3>3. CASE ~SetOption(v) /\ ~SessionWrites(v)
      <4>1. UNCHANGED <<disk, off>>
        BY <1>1, <3>3 DEF ViewerStep, ThreadStep, Open, Show, GoTo, GoOnRebuilt, AskDelete, Deleted, Close,
                          Acked, Exit, Kill, SessionReads, ThreadDeletes
      <4>. QED  BY <4>1
    <3>. QED  BY <3>1, <3>2, <3>3
  <2>5. ASSUME NEW p \in files' \ off' PROVE (StatusOf(disk[p]) = Shown(p) \/ Unseen(p))'
    <3>1. p \in files /\ p \notin off /\ p \in Paths
      BY <1>0, <2>1, <2>4 DEF Outside
    <3>2. CASE Unseen(p)
      BY <2>3, <3>2
    <3>3. CASE StatusOf(disk[p]) = Shown(p)
      BY <2>2, <2>4, <3>1, <3>3 DEF Shown, Unseen
    <3>. QED  BY <3>1, <3>2, <3>3 DEF Seen
  <2>6. (ui.op = "forget" => hud[ui.book] = "absent")'
    BY <2>1, <2>2 DEF Seen, Outside
  <2>. QED  BY <2>5, <2>6 DEF Seen
<1>2. CASE ToggleFavorite \/ AssignGroup \/ DeleteBook
  <2>1. UNCHANGED <<disk, hud, syncs, ui, off>> /\ files' \subseteq files
    BY <1>2 DEF ToggleFavorite, AssignGroup, DeleteBook, uiVars
  <2>. QED  BY <2>1 DEF Seen, Shown, Unseen, Noted
<1>3. CASE ClearSettings
  <2>1. PICK b \in files, ok \in BOOLEAN : Begins("clear", b, NoPath, ok)
    BY <1>3 DEF ClearSettings
  <2>2. ui'.op = "clear" /\ ui.op = "none"
    BY <1>3, <2>1 DEF ClearSettings, AtEvents, Begins
  <2>3. UNCHANGED <<disk, hud, syncs, off, files>>
    BY <1>3 DEF ClearSettings
  <2>. QED  BY <2>2, <2>3 DEF Seen, Shown, Unseen, Noted
<1>4. CASE ClearWrites \/ ForgetWrites
  <2>1. PICK b \in Paths : b = ui.book
    BY <1>4 DEF Task, ClearWrites, ForgetWrites
  <2>2. PICK ok \in BOOLEAN, all \in BOOLEAN : RemovalWritten(b, ok, all)
    BY <1>4, <2>1 DEF ClearWrites, ForgetWrites
  <2>3. /\ disk' = Written(Removal(b), ok)
        /\ off' = (off \ {b}) \cup Changed(Removal(b), ok, b) \cup IF disk'[b] = NoRecord THEN {} ELSE {b}
    BY <2>2 DEF RemovalWritten, Replace
  <2>4. hud'[b] = "absent" /\ \A p \in Paths : p # b => hud'[p] = hud[p]
    BY <1>0, <1>4, <2>1 DEF ClearWrites, ForgetWrites, Seen
  <2>5. UNCHANGED <<files, syncs>> /\ ui'.op = "none"
    BY <1>4, TaskEnds DEF ClearWrites, ForgetWrites
  <2>6. \A p : p # b /\ Unseen(p) => Unseen(p)'
    BY <1>4, <2>1, <2>5 DEF Unseen, Noted, ClearWrites, ForgetWrites
  <2>7. ASSUME NEW p \in files' \ off' PROVE (StatusOf(disk[p]) = Shown(p) \/ Unseen(p))'
    <3>1. p \in files /\ p \in Paths
      BY <1>0, <2>5
    <3>2. CASE p = b
      BY <1>0, <2>3, <2>4, <3>2 DEF Shown
    <3>3. CASE p # b
      <4>1. p \notin off /\ StatusOf(disk'[p]) = StatusOf(disk[p]) /\ hud'[p] = hud[p]
        BY <2>3, <2>4, <3>1, <3>3, ChangedSays
      <4>2. CASE Unseen(p)
        BY <2>6, <3>3, <4>2
      <4>3. CASE StatusOf(disk[p]) = Shown(p)
        BY <4>1, <4>3 DEF Shown
      <4>. QED  BY <3>1, <4>1, <4>2, <4>3 DEF Seen
    <3>. QED  BY <3>2, <3>3
  <2>. QED  BY <2>5, <2>7 DEF Seen
<1>5. CASE ForgetBook
  <2>1. PICK b \in Paths, ok \in BOOLEAN :
            /\ \/ UNCHANGED syncs
               \/ syncs # <<>> /\ Head(syncs).kind = "deleted" /\ syncs' = Tail(syncs)
            /\ hud' = [hud EXCEPT ![b] = "absent"] /\ Begins("forget", b, NoPath, ok)
    BY <1>5 DEF ForgetBook
  <2>2. /\ ui'.op = "forget" /\ ui'.book = b /\ ui.op = "none" /\ UNCHANGED <<files, disk, off>>
        /\ hud'[b] = "absent" /\ \A p \in Paths : p # b => hud'[p] = hud[p]
    BY <1>0, <1>5, <2>1 DEF ForgetBook, AtEvents, Begins
  <2>3. \A p : Noted("finished", p) => Noted("finished", p)'
    <3>1. CASE UNCHANGED syncs
      BY <3>1 DEF Noted
    <3>2. CASE syncs # <<>> /\ Head(syncs).kind = "deleted" /\ syncs' = Tail(syncs)
      BY <3>2, NotedShrinks
    <3>. QED  BY <2>1, <3>1, <3>2
  <2>4. ASSUME NEW p \in files' \ off' PROVE (StatusOf(disk[p]) = Shown(p) \/ Unseen(p))'
    <3>1. p \in files /\ p \in Paths /\ p \notin off
      BY <1>0, <2>2
    <3>2. CASE p = b
      BY <2>2, <3>2 DEF Unseen
    <3>3. CASE Unseen(p)
      BY <2>2, <2>3, <3>3 DEF Unseen
    <3>4. CASE p # b /\ StatusOf(disk[p]) = Shown(p)
      BY <2>2, <3>1, <3>4 DEF Shown
    <3>. QED  BY <3>1, <3>2, <3>3, <3>4 DEF Seen
  <2>. QED  BY <2>2, <2>4 DEF Seen
<1>6. CASE RenameBook
  <2>1. PICK b \in files, to \in Paths \ files, ok \in BOOLEAN :
            files' = (files \ {b}) \cup {to} /\ Begins("rename", b, to, ok)
    BY <1>6 DEF RenameBook
  <2>2. ui'.op = "rename" /\ ui'.to = to /\ ui.op = "none" /\ UNCHANGED <<disk, hud, syncs, off>>
    BY <1>6, <2>1 DEF RenameBook, AtEvents, Begins
  <2>3. \A p : Unseen(p) => Unseen(p)'
    BY <2>2 DEF Unseen, Noted
  <2>4. ASSUME NEW p \in files' \ off' PROVE (StatusOf(disk[p]) = Shown(p) \/ Unseen(p))'
    <3>1. CASE p = to
      BY <2>2, <3>1 DEF Unseen
    <3>2. CASE p # to
      <4>1. p \in files \ off
        BY <2>1, <2>2, <3>2
      <4>. QED  BY <2>2, <2>3, <4>1 DEF Seen, Shown
    <3>. QED  BY <3>1, <3>2
  <2>. QED  BY <2>2, <2>4 DEF Seen
<1>7. CASE RenameWrites
  <2>1. PICK b \in Paths, to \in Paths : b = ui.book /\ to = ui.to /\ b \notin files /\ b # to
    BY <1>7 DEF Task, RenameWrites
  <2>. DEFINE data == IF ui.copy[b] = NoRecord THEN disk ELSE Moved(ui.copy, b, to)
  <2>2. PICK ok \in BOOLEAN, shown \in BOOLEAN :
            /\ Replace(data, ok, thread, IdleUi)
            /\ hud' = [hud EXCEPT ![b] = "absent", ![to] = IF shown THEN StatusOf(disk'[to]) ELSE "Unread"]
            /\ off' = ((off \ {to}) \cup Changed(data, ok, to)) \cup IF shown THEN {} ELSE {to}
    BY <1>7, <2>1 DEF RenameWrites
  <2>3. disk' = Written(data, ok) /\ UNCHANGED <<files, syncs>> /\ ui'.op = "none"
    BY <1>7, <2>2, TaskEnds DEF RenameWrites, Replace
  <2>4. \A p : p # to /\ Unseen(p) => Unseen(p)'
    BY <1>7, <2>1, <2>3 DEF Unseen, Noted, RenameWrites
  <2>5. StatusOf(disk'[to]) \in Statuses
    <3>1. disk'[to] \in Records
      BY BookTypes, <1>7 DEF Books, Data, Next, WindowStep
    <3>. QED  BY <3>1, RecordTypes
  <2>. HIDE DEF data
  <2>6. ASSUME NEW p \in files' \ off' PROVE (StatusOf(disk[p]) = Shown(p) \/ Unseen(p))'
    <3>1. p \in files /\ p \in Paths /\ p # b
      BY <1>0, <2>1, <2>3
    <3>2. CASE p = to
      <4>1. shown
        BY <2>2, <3>2
      <4>2. hud'[to] = StatusOf(disk'[to])
        BY <1>0, <2>1, <2>2, <4>1
      <4>. QED  BY <1>0, <2>5, <3>2, <4>2 DEF Shown
    <3>3. CASE p # to
      <4>1. p \notin off /\ StatusOf(disk'[p]) = StatusOf(disk[p])
        BY <2>2, <2>3, <3>1, <3>3, ChangedSays
      <4>2. hud'[p] = hud[p]
        BY <1>0, <2>2, <3>1, <3>3
      <4>. QED  BY <2>4, <3>1, <3>3, <4>1, <4>2 DEF Seen, Shown
    <3>. QED  BY <3>2, <3>3
  <2>. QED  BY <2>3, <2>6 DEF Seen
<1>8. CASE RefreshHud
  <2>1. /\ syncs # <<>> /\ Head(syncs).kind = "finished" /\ syncs' = Tail(syncs)
        /\ UNCHANGED <<files, disk, ui>> /\ ui.op = "none"
    BY <1>8 DEF RefreshHud, AtEvents
  <2>2. PICK b \in Paths : b = Head(syncs).book
    <3>1. Head(syncs) \in Syncs
      BY <2>1 DEF Typed, Actors
    <3>. QED  BY <3>1 DEF Syncs
  <2>3. PICK ok \in BOOLEAN : /\ hud' = [hud EXCEPT ![b] = StatusOf(Loaded(ok)[b])]
                              /\ off' = IF ok THEN off \ {b} ELSE off \cup {b}
    BY <1>8, <2>2 DEF RefreshHud
  <2>4. \A p : p # b /\ Unseen(p) => Unseen(p)'
    <3>1. \A p : p # b /\ Noted("finished", p) => Noted("finished", p)'
      BY <2>1, <2>2, NotedShrinks
    <3>. QED  BY <2>1, <3>1 DEF Unseen
  <2>5. ASSUME NEW p \in files' \ off' PROVE (StatusOf(disk[p]) = Shown(p) \/ Unseen(p))'
    <3>1. p \in files /\ p \in Paths
      BY <1>0, <2>1
    <3>2. CASE p = b
      <4>1. ok /\ Loaded(ok) = disk
        BY <2>3, <3>2, LoadedIs
      <4>2. hud'[p] = StatusOf(disk[p]) /\ StatusOf(disk[p]) \in Statuses
        BY <1>0, <2>3, <3>1, <3>2, <4>1, HudTypes
      <4>. QED  BY <1>0, <2>1, <4>2 DEF Shown
    <3>3. CASE p # b
      <4>1. p \notin off /\ hud'[p] = hud[p]
        BY <1>0, <2>3, <3>1, <3>3
      <4>. QED  BY <2>1, <2>4, <3>1, <3>3, <4>1 DEF Seen, Shown
    <3>. QED  BY <3>2, <3>3
  <2>. QED  BY <2>1, <2>5 DEF Seen
<1>9. CASE LoadDir
  <2>1. PICK ok \in BOOLEAN :
            /\ off' = IF ok THEN {} ELSE Paths
            /\ hud' = [p \in Paths |-> IF p \in files THEN StatusOf(Loaded(ok)[p]) ELSE "absent"]
    BY <1>9 DEF LoadDir
  <2>2. UNCHANGED <<files, disk, ui>> /\ ui.op = "none"
    BY <1>9 DEF LoadDir, AtEvents
  <2>3. ASSUME NEW p \in files' \ off' PROVE (StatusOf(disk[p]) = Shown(p) \/ Unseen(p))'
    <3>1. p \in files /\ p \in Paths /\ ok /\ Loaded(ok) = disk
      BY <1>0, <2>1, <2>2, LoadedIs
    <3>2. hud'[p] = StatusOf(disk[p]) /\ StatusOf(disk[p]) \in Statuses
      BY <2>1, <3>1, HudTypes
    <3>. QED  BY <1>0, <2>2, <3>2 DEF Shown
  <2>. QED  BY <2>2, <2>3 DEF Seen
<1>. QED  BY <1>1, <1>2, <1>3, <1>4, <1>5, <1>6, <1>7, <1>8, <1>9 DEF Next, WindowStep

-----------------------------------------------------------------------------
(* What a book leaves is gone, or is about to go. *)

\* A write says which paths without a book it gives a record, or leaves with one.
LEMMA LateSays ==
    ASSUME NEW data, NEW ok, NEW q, disk' = Written(data, ok)
    PROVE  /\ late \subseteq Late(data, ok, q)
           /\ \A p \in Paths \ files :
                  p \notin Late(data, ok, q) /\ (disk[p] = NoRecord \/ p = q) => disk'[p] = NoRecord
BY DEF Late

\* Favourites that have been saved are of books that are there.
LEMMA SavedIs ==
    ASSUME NEW s, SavesFavs(s)
    PROVE  favs' \subseteq files /\ favs' \subseteq favFile'
BY DEF SavesFavs, SaveFavs

LEMMA ForgottenKept ==
    ASSUME Typed, Task, Forgotten, Next
    PROVE  Forgotten'
<1>0. Books /\ ui \in Tasks /\ files \subseteq Paths
  BY DEF Typed, Actors, Books
<1>1. ASSUME NEW v \in Viewers, ViewerStep(v) \/ ThreadStep(v) PROVE Forgotten'
  <2>1. Outside
    BY <1>1, OutsideIs
  <2>2. UNCHANGED <<favs, favFile, groups>>
    BY <1>1 DEF ViewerStep, ThreadStep, Open, Show, GoTo, GoOnRebuilt, AskDelete, Deleted, Close, Acked,
                Exit, Kill, SessionReads, SessionWrites, ThreadDeletes, SetOption, favVars, uiVars
  <2>3. ASSUME NEW p, Leaving(p) PROVE Leaving(p)'
    BY <2>1, <2>3 DEF Leaving, Outside
  <2>4. /\ late \subseteq late'
        /\ \A p \in Paths \ (files \cup late') : disk[p] = NoRecord => disk'[p] = NoRecord
    <3>1. CASE SetOption(v)
      <4>1. PICK ok \in BOOLEAN : /\ Replace(Chosen(viewer[v]), ok, thread, ui)
                                  /\ late' = Late(Chosen(viewer[v]), ok, NoPath)
        BY <3>1 DEF SetOption, Chosen
      <4>2. disk' = Written(Chosen(viewer[v]), ok)
        BY <4>1 DEF Replace
      <4>. QED  BY <4>1, <4>2, LateSays
    <3>2. CASE SessionWrites(v)
      <4>1. PICK ok, moved \in BOOLEAN :
                /\ Replace(SessionData(v, moved), ok, [thread EXCEPT ![v] = IdleThread], ui)
                /\ late' = Late(SessionData(v, moved), ok, NoPath)
        BY <3>2 DEF SessionWrites, SessionData
      <4>2. disk' = Written(SessionData(v, moved), ok)
        BY <4>1 DEF Replace
      <4>. QED  BY <4>1, <4>2, LateSays
    <3>3. CASE ~SetOption(v) /\ ~SessionWrites(v)
      <4>1. UNCHANGED <<disk, late>>
        BY <1>1, <3>3 DEF ViewerStep, ThreadStep, Open, Show, GoTo, GoOnRebuilt, AskDelete, Deleted, Close,
                          Acked, Exit, Kill, SessionReads, ThreadDeletes
      <4>. QED  BY <4>1
    <3>. QED  BY <3>1, <3>2, <3>3
  <2>5. ASSUME NEW p \in Paths \ (files' \cup late') PROVE (Bare(p) \/ Leaving(p))'
    <3>1. CASE p \in files
      <4>1. Noted("deleted", p)'
        BY <2>1, <2>5, <3>1 DEF Outside
      <4>. QED  BY <4>1 DEF Leaving
    <3>2. CASE p \notin files
      <4>1. Bare(p) \/ Leaving(p)
        BY <2>4, <2>5, <3>2 DEF Forgotten
      <4>. QED  BY <2>2, <2>3, <2>4, <2>5, <3>2, <4>1 DEF Bare
    <3>. QED  BY <3>1, <3>2
  <2>6. (favs \subseteq favFile)'
    BY <2>2 DEF Forgotten
  <2>7. ASSUME ui'.op = "forget"
        PROVE  (ui.book \in files \/ ui.book \notin favs \/ Noted("deleted", ui.book))'
    <3>1. PICK b : b = ui.book
      OBVIOUS
    <3>2. ui'.book = b /\ (b \in files \/ b \notin favs \/ Noted("deleted", b))
      BY <2>1, <2>7, <3>1 DEF Outside, Forgotten
    <3>3. b \in files' \/ b \notin favs' \/ Noted("deleted", b)'
      BY <2>1, <2>2, <3>2 DEF Outside
    <3>. QED  BY <3>2, <3>3 DEF Noted
  <2>. QED  BY <2>5, <2>6, <2>7 DEF Forgotten
<1>2. CASE ToggleFavorite
  <2>1. PICK s : SavesFavs(s)
    BY <1>2 DEF ToggleFavorite
  <2>2. favs' \subseteq files /\ favs' \subseteq favFile' /\ UNCHANGED <<files, disk, late, groups, syncs, done, ui>>
        /\ ui.op = "none"
    BY <1>2, <2>1, SavedIs DEF ToggleFavorite, AtEvents, uiVars
  <2>. QED  BY <2>2 DEF Forgotten, Bare, Leaving, Noted
<1>3. CASE AssignGroup
  <2>1. groups' \subseteq groups \cup files /\ UNCHANGED <<files, disk, late, favs, favFile, syncs, done, ui>>
    BY <1>3 DEF AssignGroup, favVars
  <2>. QED  BY <2>1 DEF Forgotten, Bare, Leaving, Noted
<1>4. CASE RefreshHud
  <2>1. /\ syncs # <<>> /\ Head(syncs).kind = "finished" /\ syncs' = Tail(syncs)
        /\ UNCHANGED <<files, disk, late, favs, favFile, groups, done, ui>> /\ ui.op = "none"
    BY <1>4 DEF RefreshHud, AtEvents, favVars
  <2>2. \A p : Noted("deleted", p) => Noted("deleted", p)'
    BY <2>1, NotedShrinks
  <2>. QED  BY <2>1, <2>2 DEF Forgotten, Bare, Leaving
<1>5. CASE LoadDir
  <2>1. UNCHANGED <<files, disk, late, favs, favFile, groups, done, ui, syncs>>
    BY <1>5 DEF LoadDir, favVars
  <2>. QED  BY <2>1 DEF Forgotten, Bare, Leaving, Noted
<1>6. CASE ClearSettings
  <2>1. PICK b \in files, ok \in BOOLEAN : Begins("clear", b, NoPath, ok)
    BY <1>6 DEF ClearSettings
  <2>2. /\ ui'.op = "clear" /\ ui.op = "none"
        /\ UNCHANGED <<files, disk, late, favs, favFile, groups, done, syncs>>
    BY <1>6, <2>1 DEF ClearSettings, AtEvents, Begins, favVars
  <2>. QED  BY <2>2 DEF Forgotten, Bare, Leaving, Noted
<1>7. CASE DeleteBook
  <2>1. PICK b \in files : files' = files \ {b} /\ done' = done \cup {b}
    BY <1>7 DEF DeleteBook
  <2>2. UNCHANGED <<disk, late, favs, favFile, groups, syncs, ui>> /\ ui.op = "none"
    BY <1>7 DEF DeleteBook, AtEvents, favVars
  <2>. QED  BY <2>1, <2>2 DEF Forgotten, Bare, Leaving, Noted
<1>8. CASE ForgetBook
  <2>1. PICK b \in Paths, ok \in BOOLEAN :
            /\ \/ done' = done \ {b} /\ UNCHANGED syncs
               \/ syncs # <<>> /\ Head(syncs).book = b /\ syncs' = Tail(syncs) /\ UNCHANGED done
            /\ IF b \in favs THEN SavesFavs(favs \ {b}) ELSE UNCHANGED favVars
            /\ Begins("forget", b, NoPath, ok)
    BY <1>8 DEF ForgetBook
  <2>2. ui'.op = "forget" /\ ui'.book = b /\ ui.op = "none" /\ UNCHANGED <<files, disk, late, groups>>
    BY <1>8, <2>1 DEF ForgetBook, AtEvents, Begins
  <2>3. ASSUME NEW p, Leaving(p) PROVE Leaving(p)'
    <3>1. CASE p = b
      BY <2>2, <3>1 DEF Leaving
    <3>2. CASE p # b
      <4>1. p \in done \/ Noted("deleted", p)
        BY <2>2, <2>3 DEF Leaving
      <4>2. CASE done' = done \ {b} /\ UNCHANGED syncs
        BY <3>2, <4>1, <4>2 DEF Leaving, Noted
      <4>3. CASE syncs # <<>> /\ Head(syncs).book = b /\ syncs' = Tail(syncs) /\ UNCHANGED done
        <5>1. Noted("deleted", p) => Noted("deleted", p)'
          BY <3>2, <4>3, NotedShrinks
        <5>. QED  BY <4>1, <4>3, <5>1 DEF Leaving
      <4>. QED  BY <2>1, <4>2, <4>3
    <3>. QED  BY <3>1, <3>2
  <2>4. /\ (favs \subseteq favFile)'
        /\ favs' \subseteq files \/ (favs' = favs /\ b \notin favs)
    <3>1. CASE b \in favs
      BY <2>1, <3>1, SavedIs
    <3>2. CASE b \notin favs
      BY <2>1, <3>2 DEF Forgotten, favVars
    <3>. QED  BY <3>1, <3>2
  <2>5. ASSUME NEW p \in Paths \ (files' \cup late') PROVE (Bare(p) \/ Leaving(p))'
    <3>1. Bare(p) \/ Leaving(p)
      BY <2>2, <2>5 DEF Forgotten
    <3>2. Bare(p) => Bare(p)'
      BY <2>2, <2>4, <2>5 DEF Bare
    <3>. QED  BY <2>3, <3>1, <3>2
  <2>6. (ui.book \in files \/ ui.book \notin favs)'
    BY <2>2, <2>4
  <2>. QED  BY <2>4, <2>5, <2>6 DEF Forgotten
<1>9. CASE RenameBook
  <2>1. PICK b \in files, to \in Paths \ files, ok \in BOOLEAN :
            files' = (files \ {b}) \cup {to} /\ Begins("rename", b, to, ok)
    BY <1>9 DEF RenameBook
  <2>2. /\ ui'.op = "rename" /\ ui'.book = b /\ ui.op = "none"
        /\ UNCHANGED <<disk, late, favs, favFile, groups, syncs, done>>
    BY <1>9, <2>1 DEF RenameBook, AtEvents, Begins, favVars
  <2>. QED  BY <2>1, <2>2 DEF Forgotten, Bare, Leaving, Noted
<1>10. CASE ClearWrites \/ ForgetWrites
  <2>1. PICK b \in Paths : b = ui.book
    BY <1>10 DEF Task, ClearWrites, ForgetWrites
  <2>2. PICK ok \in BOOLEAN, all \in BOOLEAN :
            /\ RemovalWritten(b, ok, all)
            /\ ForgetWrites => groups' = IF all THEN Ungrouped(b) ELSE groups
    BY <1>10, <2>1 DEF ClearWrites, ForgetWrites
  <2>3. disk' = Written(Removal(b), ok) /\ late' = Late(Removal(b), ok, b) \cup IF all THEN {} ELSE {b}
    BY <2>2 DEF RemovalWritten, Replace
  <2>4. UNCHANGED <<files, syncs, done, favs, favFile>> /\ ui'.op = "none" /\ groups' \subseteq groups
    BY <1>10, TaskEnds DEF ClearWrites, ForgetWrites, Ungrouped, favVars
  <2>5. ASSUME NEW p, Leaving(p), ~ForgetWrites \/ p # b PROVE Leaving(p)'
    BY <1>10, <2>1, <2>4, <2>5 DEF Leaving, Noted, ClearWrites, ForgetWrites
  <2>6. ASSUME NEW p \in Paths \ (files' \cup late') PROVE (Bare(p) \/ Leaving(p))'
    <3>1. /\ p \notin files /\ p \notin late
          /\ (disk[p] = NoRecord \/ p = b => disk'[p] = NoRecord)
      BY <2>3, <2>4, <2>6, LateSays
    <3>2. Bare(p) \/ Leaving(p)
      BY <2>6, <3>1 DEF Forgotten
    <3>3. CASE ~ForgetWrites \/ p # b
      BY <2>4, <2>5, <3>1, <3>2, <3>3 DEF Bare
    <3>4. CASE ForgetWrites /\ p = b
      <4>1. all /\ groups' = Ungrouped(b)
        BY <2>2, <2>3, <2>6, <3>4
      <4>2. p \notin groups' \cap Plain /\ disk'[p] = NoRecord
        BY <3>1, <3>4, <4>1 DEF Ungrouped
      <4>3. p \notin favs \/ Noted("deleted", p)
        BY <2>1, <3>1, <3>4 DEF Forgotten, ForgetWrites
      <4>4. CASE p \notin favs
        BY <2>4, <4>2, <4>4 DEF Bare
      <4>5. CASE Noted("deleted", p)
        BY <2>4, <4>5 DEF Leaving, Noted
      <4>. QED  BY <4>3, <4>4, <4>5
    <3>. QED  BY <3>3, <3>4
  <2>7. (favs \subseteq favFile)'
    BY <2>4 DEF Forgotten
  <2>. QED  BY <2>4, <2>6, <2>7 DEF Forgotten
<1>11. CASE RenameWrites
  <2>1. PICK b \in Paths, to \in Paths : b = ui.book /\ to = ui.to /\ b \notin files /\ b # to
                                         /\ (to \in files \/ Leaving(to))
    BY <1>11 DEF Task, RenameWrites
  <2>. DEFINE data == IF ui.copy[b] = NoRecord THEN disk ELSE Moved(ui.copy, b, to)
  <2>2. PICK ok \in BOOLEAN, grouped \in BOOLEAN :
            /\ Replace(data, ok, thread, IdleUi)
            /\ IF b \in favs THEN SavesFavs(Renamed(favs, b, to)) ELSE UNCHANGED favVars
            /\ groups' = IF grouped THEN Regrouped(b, to) ELSE groups
            /\ Late(data, ok, b) \subseteq late' /\ (~grouped => b \in late')
    BY <1>11, <2>1 DEF RenameWrites
  <2>3. disk' = Written(data, ok) /\ UNCHANGED <<files, syncs, done>> /\ ui'.op = "none" /\ ui.op = "rename"
    BY <1>11, <2>2, TaskEnds DEF RenameWrites, Replace
  <2>. HIDE DEF data
  <2>4. ASSUME NEW p, Leaving(p), p # b PROVE Leaving(p)'
    BY <2>1, <2>3, <2>4 DEF Leaving, Noted
  <2>5. (favs \subseteq favFile)' /\ (favs' \subseteq files \/ (favs' = favs /\ b \notin favs))
    <3>1. CASE b \in favs
      BY <2>2, <3>1, SavedIs
    <3>2. CASE b \notin favs
      BY <2>2, <3>2 DEF Forgotten, favVars
    <3>. QED  BY <3>1, <3>2
  <2>6. groups' \subseteq groups \cup {to}
    BY <2>2 DEF Regrouped, Ungrouped
  <2>7. ASSUME NEW p \in Paths \ (files' \cup late') PROVE (Bare(p) \/ Leaving(p))'
    <3>1. /\ p \notin files /\ p \notin late
          /\ (disk[p] = NoRecord \/ p = b => disk'[p] = NoRecord)
      BY <2>2, <2>3, <2>7, LateSays
    <3>2. CASE p = b
      <4>1. p \notin groups' \cap Plain
        BY <2>1, <2>2, <2>7, <3>2 DEF Regrouped, Ungrouped
      <4>. QED  BY <2>5, <3>1, <3>2, <4>1 DEF Bare
    <3>3. CASE p = to
      BY <2>1, <2>4, <3>1, <3>3
    <3>4. CASE p # b /\ p # to
      <4>1. Bare(p) \/ Leaving(p)
        BY <2>7, <3>1 DEF Forgotten
      <4>. QED  BY <2>4, <2>5, <2>6, <3>1, <3>4, <4>1 DEF Bare
    <3>. QED  BY <3>2, <3>3, <3>4
  <2>. QED  BY <2>3, <2>5, <2>7 DEF Forgotten
<1>. QED  BY <1>1, <1>2, <1>3, <1>4, <1>5, <1>6, <1>7, <1>8, <1>9, <1>10, <1>11 DEF Next, WindowStep

-----------------------------------------------------------------------------
(* Every session that has ended is told of in one line. *)

LEMMA LineAsks ==
    ASSUME NEW l \in [Viewers -> Seq(Asks)], NEW ss, Lines(l, ss), NEW v \in Viewers, NEW m \in Asks,
           m.kind # "finished"
    PROVE  Lines([l EXCEPT ![v] = Append(@, m)], ss)
<1>. DEFINE k == [l EXCEPT ![v] = Append(@, m)]
            n == Len(l[v])
<1>1. /\ l[v] \in Seq(Asks) /\ DOMAIN l[v] = 1 .. n /\ n \in Nat
      /\ DOMAIN k[v] = 1 .. n + 1 /\ k[v][n + 1] = m /\ \A i \in 1 .. n : k[v][i] = l[v][i]
      /\ \A u \in Viewers : u # v => k[u] = l[u]
  OBVIOUS
<1>. HIDE DEF k, n
<1>2. \A u \in Viewers : \A i \in DOMAIN k[u] : IsTold(k, u, i) => i \in DOMAIN l[u] /\ k[u][i] = l[u][i]
  BY <1>1 DEF IsTold
<1>3. \A u \in Viewers : \A i \in DOMAIN l[u] : i \in DOMAIN k[u] /\ k[u][i] = l[u][i]
  BY <1>1
<1>4. Lines(k, ss)
  BY <1>2, <1>3 DEF Lines, IsTold
<1>. QED  BY <1>4 DEF k

LEMMA LineTells ==
    ASSUME NEW l \in [Viewers -> Seq(Asks)], NEW ss \in Seq(Outcomes), Lines(l, ss), NEW v \in Viewers,
           NEW m \in Asks, m.kind = "finished", m.id \in DOMAIN ss, ss[m.id] # "ended"
    PROVE  Lines([l EXCEPT ![v] = Append(@, m)], [ss EXCEPT ![m.id] = "ended"])
<1>. DEFINE k == [l EXCEPT ![v] = Append(@, m)]
            n == Len(l[v])
            st == [ss EXCEPT ![m.id] = "ended"]
<1>1. /\ l[v] \in Seq(Asks) /\ DOMAIN l[v] = 1 .. n /\ n \in Nat
      /\ DOMAIN k[v] = 1 .. n + 1 /\ k[v][n + 1] = m /\ \A i \in 1 .. n : k[v][i] = l[v][i]
      /\ \A u \in Viewers : u # v => k[u] = l[u]
  OBVIOUS
<1>2. DOMAIN st = DOMAIN ss /\ st[m.id] = "ended" /\ \A s \in DOMAIN ss : s # m.id => st[s] = ss[s]
  OBVIOUS
<1>. HIDE DEF k, n, st
<1>3. \A u \in Viewers : \A i \in DOMAIN k[u] :
          \/ u = v /\ i = n + 1 /\ k[u][i] = m
          \/ i \in DOMAIN l[u] /\ k[u][i] = l[u][i] /\ (IsTold(k, u, i) => IsTold(l, u, i) /\ k[u][i].id # m.id)
  BY <1>1 DEF IsTold, Lines
<1>4. \A u \in Viewers : \A i \in DOMAIN l[u] : i \in DOMAIN k[u] /\ k[u][i] = l[u][i]
  <2>1. \A i \in DOMAIN l[v] : i \in DOMAIN k[v] /\ k[v][i] = l[v][i]
    BY <1>1
  <2>. QED  BY <1>1, <2>1
<1>5. \A s \in DOMAIN st : st[s] # "wrong"
  BY <1>2 DEF Lines
<1>6. ASSUME NEW u \in Viewers, NEW i \in DOMAIN k[u], IsTold(k, u, i)
      PROVE  k[u][i].id \in DOMAIN st /\ st[k[u][i].id] = "ended"
  BY <1>2, <1>3, <1>6 DEF Lines, IsTold
<1>7. ASSUME NEW u \in Viewers, NEW w \in Viewers, NEW i \in DOMAIN k[u], NEW j \in DOMAIN k[w],
             IsTold(k, u, i), IsTold(k, w, j), k[u][i].id = k[w][j].id
      PROVE  u = w /\ i = j
  <2>1. CASE u = v /\ i = n + 1 /\ k[u][i] = m
    BY <1>3, <1>7, <2>1
  <2>2. CASE w = v /\ j = n + 1 /\ k[w][j] = m
    BY <1>3, <1>7, <2>2
  <2>3. CASE ~(u = v /\ i = n + 1 /\ k[u][i] = m) /\ ~(w = v /\ j = n + 1 /\ k[w][j] = m)
    <3>1. i \in DOMAIN l[u] /\ k[u][i] = l[u][i] /\ j \in DOMAIN l[w] /\ k[w][j] = l[w][j]
      BY <1>3, <2>3
    <3>. QED  BY <1>7, <3>1 DEF Lines, IsTold
  <2>. QED  BY <2>1, <2>2, <2>3
<1>8. ASSUME NEW s \in DOMAIN st, st[s] = "ended"
      PROVE  \E u \in Viewers : \E i \in DOMAIN k[u] : IsTold(k, u, i) /\ k[u][i].id = s
  <2>1. CASE s = m.id
    <3>1. n + 1 \in DOMAIN k[v] /\ IsTold(k, v, n + 1) /\ k[v][n + 1].id = s
      BY <1>1, <2>1 DEF IsTold
    <3>. QED  BY <3>1
  <2>2. CASE s # m.id
    <3>1. s \in DOMAIN ss /\ ss[s] = "ended"
      BY <1>2, <1>8, <2>2
    <3>2. PICK u \in Viewers : \E i \in DOMAIN l[u] : IsTold(l, u, i) /\ l[u][i].id = s
      BY <3>1 DEF Lines
    <3>3. PICK i \in DOMAIN l[u] : IsTold(l, u, i) /\ l[u][i].id = s
      BY <3>2
    <3>. QED  BY <1>4, <3>3 DEF IsTold
  <2>. QED  BY <2>1, <2>2
<1>9. Lines(k, st)
  BY <1>5, <1>6, <1>7, <1>8 DEF Lines
<1>. QED  BY <1>9 DEF k, st

\* What else becomes of sessions is nothing to the lines.
LEMMA LinesSame ==
    ASSUME NEW l, NEW ss, NEW st, Lines(l, ss), DOMAIN ss \subseteq DOMAIN st,
           \A s \in DOMAIN st : st[s] # "wrong",
           \A s \in DOMAIN st : st[s] = "ended" <=> (s \in DOMAIN ss /\ ss[s] = "ended")
    PROVE  Lines(l, st)
BY DEF Lines

\* The first request has been dealt with.
LEMMA LineTold ==
    ASSUME NEW l \in [Viewers -> Seq(Asks)], NEW ss \in Seq(Outcomes), Lines(l, ss), NEW v \in Viewers,
           l[v] # <<>>, NEW st,
           st = IF Head(l[v]).kind = "finished" THEN [ss EXCEPT ![Head(l[v]).id] = "told"] ELSE ss
    PROVE  Lines([l EXCEPT ![v] = Tail(@)], st)
<1>. DEFINE k == [l EXCEPT ![v] = Tail(@)]
            n == Len(l[v])
            m == Head(l[v])
<1>1. /\ l[v] \in Seq(Asks) /\ DOMAIN l[v] = 1 .. n /\ n \in Nat /\ 1 \in DOMAIN l[v] /\ l[v][1] = m
      /\ DOMAIN k[v] = 1 .. n - 1 /\ \A i \in 1 .. n - 1 : k[v][i] = l[v][i + 1]
      /\ \A u \in Viewers : u # v => k[u] = l[u]
  OBVIOUS
<1>. DEFINE at(u, i) == IF u = v THEN i + 1 ELSE i
<1>2. /\ DOMAIN st = DOMAIN ss
      /\ \A s \in DOMAIN ss : st[s] = IF m.kind = "finished" /\ s = m.id THEN "told" ELSE ss[s]
  OBVIOUS
<1>. HIDE DEF k, n, m
<1>3. \A u \in Viewers : \A i \in DOMAIN k[u] :
          at(u, i) \in DOMAIN l[u] /\ k[u][i] = l[u][at(u, i)] /\ (u # v \/ at(u, i) # 1)
  BY <1>1
<1>4. \A u \in Viewers : \A i \in DOMAIN l[u] :
          \/ u = v /\ i = 1
          \/ \E j \in DOMAIN k[u] : k[u][j] = l[u][i]
  <2>. SUFFICES ASSUME NEW u \in Viewers, NEW i \in DOMAIN l[u], ~(u = v /\ i = 1)
                PROVE  \E j \in DOMAIN k[u] : k[u][j] = l[u][i]
    OBVIOUS
  <2>1. CASE u = v
    <3>1. i - 1 \in DOMAIN k[u] /\ k[u][i - 1] = l[u][i]
      BY <1>1, <2>1
    <3>. QED  BY <3>1
  <2>2. CASE u # v
    BY <1>1, <2>2
  <2>. QED  BY <2>1, <2>2
<1>5. \A s \in DOMAIN st : st[s] # "wrong"
  BY <1>2 DEF Lines
<1>6. ASSUME NEW u \in Viewers, NEW i \in DOMAIN k[u], IsTold(k, u, i)
      PROVE  k[u][i].id \in DOMAIN st /\ st[k[u][i].id] = "ended"
  <2>1. at(u, i) \in DOMAIN l[u] /\ k[u][i] = l[u][at(u, i)] /\ (u # v \/ at(u, i) # 1)
    BY <1>3
  <2>2. IsTold(l, u, at(u, i))
    BY <1>6, <2>1 DEF IsTold
  <2>3. k[u][i].id \in DOMAIN ss /\ ss[k[u][i].id] = "ended"
    BY <2>1, <2>2 DEF Lines
  <2>4. m.kind = "finished" => k[u][i].id # m.id
    <3>. SUFFICES ASSUME m.kind = "finished", k[u][i].id = m.id PROVE FALSE
      OBVIOUS
    <3>1. IsTold(l, v, 1) /\ l[v][1].id = l[u][at(u, i)].id /\ 1 \in DOMAIN l[v]
      BY <1>1, <2>1 DEF IsTold
    <3>. HIDE DEF at
    <3>2. u = v /\ at(u, i) = 1
      BY <2>1, <2>2, <3>1 DEF Lines
    <3>. QED  BY <2>1, <3>2
  <2>. QED  BY <1>2, <2>3, <2>4
<1>7. ASSUME NEW u \in Viewers, NEW w \in Viewers, NEW i \in DOMAIN k[u], NEW j \in DOMAIN k[w],
             IsTold(k, u, i), IsTold(k, w, j), k[u][i].id = k[w][j].id
      PROVE  u = w /\ i = j
  <2>1. /\ at(u, i) \in DOMAIN l[u] /\ k[u][i] = l[u][at(u, i)]
        /\ at(w, j) \in DOMAIN l[w] /\ k[w][j] = l[w][at(w, j)]
    BY <1>3
  <2>2. IsTold(l, u, at(u, i)) /\ IsTold(l, w, at(w, j)) /\ l[u][at(u, i)].id = l[w][at(w, j)].id
    BY <1>7, <2>1 DEF IsTold
  <2>3. u = w /\ at(u, i) = at(w, j)
    <3>. HIDE DEF at
    <3>. QED  BY <2>1, <2>2 DEF Lines
  <2>4. (i \in Nat /\ j \in Nat) \/ u # v
    BY <1>1, <2>3
  <2>. QED  BY <2>3, <2>4
<1>8. ASSUME NEW s \in DOMAIN st, st[s] = "ended"
      PROVE  \E u \in Viewers : \E i \in DOMAIN k[u] : IsTold(k, u, i) /\ k[u][i].id = s
  <2>1. s \in DOMAIN ss /\ ss[s] = "ended" /\ ~(m.kind = "finished" /\ s = m.id)
    BY <1>2, <1>8
  <2>2. PICK u \in Viewers : \E i \in DOMAIN l[u] : IsTold(l, u, i) /\ l[u][i].id = s
    BY <2>1 DEF Lines
  <2>3. PICK i \in DOMAIN l[u] : IsTold(l, u, i) /\ l[u][i].id = s
    BY <2>2
  <2>4. ~(u = v /\ i = 1)
    BY <1>1, <2>1, <2>3 DEF IsTold
  <2>5. PICK j \in DOMAIN k[u] : k[u][j] = l[u][i]
    BY <1>4, <2>4
  <2>. QED  BY <2>3, <2>5 DEF IsTold
<1>9. Lines(k, st)
  BY <1>5, <1>6, <1>7, <1>8 DEF Lines
<1>. QED  BY <1>9 DEF k

\* What comes after the first n requests is lost: nobody is told of those sessions.
Loses(l, ss, v, n, q, st) ==
    /\ n \in 0 .. Len(l[v]) /\ DOMAIN q = 1 .. n /\ \A i \in 1 .. n : q[i] = l[v][i]
    /\ DOMAIN st = DOMAIN ss
    /\ \A s \in DOMAIN ss :
           st[s] = IF \E i \in n + 1 .. Len(l[v]) : IsTold(l, v, i) /\ l[v][i].id = s
                   THEN "untold" ELSE ss[s]

LEMMA LineLoses ==
    ASSUME NEW l \in [Viewers -> Seq(Asks)], NEW ss \in Seq(Outcomes), Lines(l, ss), NEW v \in Viewers,
           NEW n, NEW q \in Seq(Asks), NEW st, Loses(l, ss, v, n, q, st)
    PROVE  Lines([l EXCEPT ![v] = q], st)
<1>. DEFINE k == [l EXCEPT ![v] = q]
            Lost(s) == \E i \in n + 1 .. Len(l[v]) : IsTold(l, v, i) /\ l[v][i].id = s
<1>0. /\ n \in 0 .. Len(l[v]) /\ DOMAIN q = 1 .. n /\ \A i \in 1 .. n : q[i] = l[v][i]
      /\ DOMAIN st = DOMAIN ss
  BY DEF Loses
<1>1. /\ DOMAIN l[v] = 1 .. Len(l[v]) /\ Len(l[v]) \in Nat /\ k[v] = q
      /\ \A u \in Viewers : u # v => k[u] = l[u]
  OBVIOUS
<1>2. \A s \in DOMAIN ss : st[s] = IF Lost(s) THEN "untold" ELSE ss[s]
  BY DEF Loses
<1>. HIDE DEF k
<1>3. \A u \in Viewers : \A i \in DOMAIN k[u] : i \in DOMAIN l[u] /\ k[u][i] = l[u][i] /\ (u = v => i \in 1 .. n)
  <2>1. \A i \in DOMAIN k[v] : i \in DOMAIN l[v] /\ k[v][i] = l[v][i] /\ i \in 1 .. n
    BY <1>0, <1>1
  <2>. QED  BY <1>0, <1>1, <2>1
<1>4. \A s \in DOMAIN st : st[s] # "wrong"
  BY <1>0, <1>2 DEF Lines
<1>5. ASSUME NEW u \in Viewers, NEW i \in DOMAIN k[u], IsTold(k, u, i)
      PROVE  k[u][i].id \in DOMAIN st /\ st[k[u][i].id] = "ended"
  <2>1. i \in DOMAIN l[u] /\ k[u][i] = l[u][i] /\ (u = v => i \in 1 .. n) /\ IsTold(l, u, i)
    BY <1>0, <1>3, <1>5 DEF IsTold
  <2>2. k[u][i].id \in DOMAIN ss /\ ss[k[u][i].id] = "ended"
    BY <2>1 DEF Lines
  <2>3. ~Lost(k[u][i].id)
    <3>. SUFFICES ASSUME NEW j \in n + 1 .. Len(l[v]), IsTold(l, v, j), l[v][j].id = l[u][i].id
                  PROVE  FALSE
      BY <2>1
    <3>1. j \in DOMAIN l[v] /\ ~(j \in 1 .. n)
      BY <1>0, <1>1
    <3>2. u = v /\ i = j
      BY <2>1, <3>1 DEF Lines
    <3>. QED  BY <2>1, <3>1, <3>2
  <2>. QED  BY <1>0, <1>2, <2>2, <2>3
<1>6. ASSUME NEW u \in Viewers, NEW w \in Viewers, NEW i \in DOMAIN k[u], NEW j \in DOMAIN k[w],
             IsTold(k, u, i), IsTold(k, w, j), k[u][i].id = k[w][j].id
      PROVE  u = w /\ i = j
  <2>1. i \in DOMAIN l[u] /\ k[u][i] = l[u][i] /\ j \in DOMAIN l[w] /\ k[w][j] = l[w][j]
    BY <1>0, <1>3
  <2>. QED  BY <1>0, <1>6, <2>1 DEF Lines, IsTold
<1>7. ASSUME NEW s \in DOMAIN st, st[s] = "ended"
      PROVE  \E u \in Viewers : \E i \in DOMAIN k[u] : IsTold(k, u, i) /\ k[u][i].id = s
  <2>1. s \in DOMAIN ss /\ ss[s] = "ended" /\ ~Lost(s)
    BY <1>0, <1>2, <1>7
  <2>2. PICK u \in Viewers : \E i \in DOMAIN l[u] : IsTold(l, u, i) /\ l[u][i].id = s
    BY <2>1 DEF Lines
  <2>3. PICK i \in DOMAIN l[u] : IsTold(l, u, i) /\ l[u][i].id = s
    BY <2>2
  <2>4. CASE u = v
    <3>1. i \in 1 .. n
      <4>1. ~(i \in n + 1 .. Len(l[v]))
        BY <2>1, <2>3, <2>4
      <4>. QED  BY <1>0, <1>1, <2>4, <4>1
    <3>2. i \in DOMAIN k[u] /\ k[u][i] = l[u][i]
      BY <1>0, <1>1, <2>4, <3>1
    <3>. QED  BY <2>3, <3>2 DEF IsTold
  <2>5. CASE u # v
    BY <1>0, <1>1, <2>3, <2>5 DEF IsTold
  <2>. QED  BY <2>4, <2>5
<1>8. Lines(k, st)
  BY <1>0, <1>4, <1>5, <1>6, <1>7 DEF Lines
<1>. QED  BY <1>0, <1>8 DEF k

LEMMA LineCut ==
    ASSUME Typed, Lines(line, sessions), NEW v \in Viewers
    PROVE  LET rest == Untold(SubSeq(line[v], Len(Sent(v, line[v])) + 1, Len(line[v])))
           IN  /\ Lines([line EXCEPT ![v] = Sent(v, line[v])], rest)
               /\ DOMAIN rest = DOMAIN sessions
               /\ \A s \in DOMAIN sessions : sessions[s] # "ended" => rest[s] = sessions[s]
<1>. DEFINE l == line[v]
            n == Len(Sent(v, l))
            tail == SubSeq(l, n + 1, Len(l))
            rest == Untold(tail)
<1>1. /\ line \in [Viewers -> Seq(Asks)] /\ l \in Seq(Asks) /\ (thread[v].busy => l # <<>>)
      /\ sessions \in Seq(Outcomes)
  BY DEF Typed, Actors
<1>2. /\ Sent(v, l) \in Seq(Asks) /\ n \in 0 .. Len(l) /\ DOMAIN Sent(v, l) = 1 .. n
      /\ \A i \in 1 .. n : Sent(v, l)[i] = l[i]
  <2>1. CASE thread[v].busy
    <3>1. Sent(v, l) = <<Head(l)>> /\ Head(l) \in Asks /\ Head(l) = l[1] /\ Len(l) \in Nat /\ Len(l) >= 1
      BY <1>1, <2>1 DEF Sent
    <3>. HIDE DEF l
    <3>2. n = 1
      BY <3>1
    <3>. QED  BY <3>1, <3>2
  <2>2. CASE ~thread[v].busy
    <3>1. Sent(v, l) = <<>> /\ Len(l) \in Nat
      BY <1>1, <2>2 DEF Sent
    <3>. HIDE DEF l
    <3>. QED  BY <3>1
  <2>. QED  BY <2>1, <2>2
<1>3. /\ DOMAIN tail = 1 .. Len(l) - n /\ \A i \in DOMAIN tail : tail[i] = l[n + i]
  BY <1>1, <1>2
<1>. HIDE DEF tail
<1>4. \A s : (\E i \in DOMAIN tail : tail[i].id = s /\ tail[i].kind = "finished")
               <=> \E i \in n + 1 .. Len(l) : IsTold(line, v, i) /\ line[v][i].id = s
  <2>. SUFFICES ASSUME NEW s
                PROVE  (\E i \in DOMAIN tail : tail[i].id = s /\ tail[i].kind = "finished")
                         <=> \E i \in n + 1 .. Len(l) : IsTold(line, v, i) /\ line[v][i].id = s
    OBVIOUS
  <2>0. Len(l) \in Nat /\ n \in Nat
    BY <1>1, <1>2
  <2>1. ASSUME NEW i \in DOMAIN tail, tail[i].id = s, tail[i].kind = "finished"
        PROVE  \E j \in n + 1 .. Len(l) : IsTold(line, v, j) /\ line[v][j].id = s
    <3>. HIDE DEF n
    <3>1. n + i \in n + 1 .. Len(l)
      BY <1>3, <2>0
    <3>2. tail[i] = line[v][n + i]
      BY <1>3
    <3>. QED  BY <2>1, <3>1, <3>2 DEF IsTold
  <2>2. ASSUME NEW i \in n + 1 .. Len(l), IsTold(line, v, i), line[v][i].id = s
        PROVE  \E j \in DOMAIN tail : tail[j].id = s /\ tail[j].kind = "finished"
    <3>1. i - n \in DOMAIN tail /\ n + (i - n) = i
      BY <1>3, <2>0
    <3>2. tail[i - n] = line[v][i]
      BY <1>3, <3>1
    <3>. QED  BY <2>2, <3>1, <3>2 DEF IsTold
  <2>. QED  BY <2>1, <2>2
<1>5. /\ DOMAIN rest = DOMAIN sessions
      /\ \A s \in DOMAIN sessions :
             rest[s] = IF \E i \in n + 1 .. Len(l) : IsTold(line, v, i) /\ line[v][i].id = s
                       THEN "untold" ELSE sessions[s]
  BY <1>4 DEF Untold
<1>6. \A s \in DOMAIN sessions : sessions[s] # "ended" => rest[s] = sessions[s]
  <2>. SUFFICES ASSUME NEW s \in DOMAIN sessions, NEW i \in n + 1 .. Len(l), IsTold(line, v, i), line[v][i].id = s
                PROVE  sessions[s] = "ended"
    BY <1>5
  <2>1. i \in DOMAIN line[v]
    BY <1>1, <1>2
  <2>. QED  BY <2>1 DEF Lines
<1>. DEFINE sent == Sent(v, l)
<1>7. /\ n \in 0 .. Len(line[v]) /\ sent \in Seq(Asks) /\ DOMAIN sent = 1 .. n
      /\ \A i \in 1 .. n : sent[i] = line[v][i]
  BY <1>2
<1>8. /\ DOMAIN rest = DOMAIN sessions
      /\ \A s \in DOMAIN sessions :
             rest[s] = IF \E i \in n + 1 .. Len(line[v]) : IsTold(line, v, i) /\ line[v][i].id = s
                       THEN "untold" ELSE sessions[s]
  BY <1>5
<1>. HIDE DEF rest, n, sent, l
<1>9. Loses(line, sessions, v, n, sent, rest)
  BY <1>7, <1>8 DEF Loses
<1>10. Lines([line EXCEPT ![v] = sent], rest)
  BY <1>1, <1>7, <1>9, LineLoses
<1>. QED  BY <1>5, <1>6, <1>10 DEF rest, n, tail, sent, l

\* One Viewer and its session change; the sessions of the others are as they were.
LEMMA OwnKept ==
    ASSUME Typed, Own, NEW v \in Viewers, NEW w \in Apps, viewer' = [viewer EXCEPT ![v] = w],
           Session(w, sessions'),
           w.state # "gone" => \A u \in Viewers : u # v /\ viewer[u].state # "gone" => viewer[u].id # w.id,
           \A u \in Viewers :
               u # v /\ viewer[u].state # "gone" =>
                   /\ viewer[u].id \in DOMAIN sessions'
                   /\ viewer[u].state # "closing" => sessions'[viewer[u].id] = sessions[viewer[u].id]
    PROVE  Own'
<1>1. viewer'[v] = w /\ \A u \in Viewers : u # v => viewer'[u] = viewer[u]
  BY DEF Typed, Actors
<1>2. ASSUME NEW u \in Viewers PROVE Session(viewer[u], sessions)'
  <2>1. CASE u = v
    BY <1>1, <2>1 DEF Session
  <2>2. CASE u # v
    <3>1. Session(viewer[u], sessions) /\ viewer'[u] = viewer[u]
      BY <1>1, <2>2 DEF Own
    <3>. QED  BY <2>2, <3>1 DEF Session
  <2>. QED  BY <2>1, <2>2
<1>3. ASSUME NEW u \in Viewers, NEW x \in Viewers, u # x, viewer'[u].state # "gone", viewer'[x].state # "gone"
      PROVE  viewer'[u].id # viewer'[x].id
  BY <1>1, <1>3 DEF Own
<1>. QED  BY <1>2, <1>3 DEF Own

\* What is known of a Viewer that shows a book.
LEMMA OwnIs ==
    ASSUME Typed, Own, NEW v \in Viewers, viewer[v].state # "gone"
    PROVE  /\ viewer[v].id \in DOMAIN sessions
           /\ viewer[v].state # "closing" =>
                  /\ ~viewer[v].inFlight /\ ~viewer[v].sent
                  /\ sessions[viewer[v].id] = IF viewer[v].linked THEN "open" ELSE "untold"
                  /\ Tells(viewer[v]) <=> viewer[v].linked
           /\ viewer[v].state = "closing" => ~Tells(viewer[v])
           /\ \A u \in Viewers : u # v /\ viewer[u].state # "gone" =>
                                     viewer[u].id \in DOMAIN sessions /\ viewer[u].id # viewer[v].id
<1>1. Session(viewer[v], sessions) /\ \A u \in Viewers : Session(viewer[u], sessions)
  BY DEF Own
<1>2. \A u \in Viewers : u # v /\ viewer[u].state # "gone" => viewer[u].id # viewer[v].id
  BY DEF Own
<1>. QED  BY <1>1, <1>2 DEF Session, Tells

\* A Viewer ends the session it is at, and tells it if anybody listens.
LEMMA EndedIs ==
    ASSUME Typed, Lines(line, sessions), Own, NEW v \in Viewers,
           viewer[v].state \notin {"gone", "closing"},
           line' = IF Tells(viewer[v]) THEN [line EXCEPT ![v] = Append(@, Asked("finished", v))] ELSE line
    PROVE  /\ Lines(line', Ended(viewer[v])) /\ Ended(viewer[v]) \in Seq(Outcomes)
           /\ DOMAIN Ended(viewer[v]) = DOMAIN sessions
           /\ \A s \in DOMAIN sessions : s # viewer[v].id => Ended(viewer[v])[s] = sessions[s]
<1>. DEFINE w == viewer[v]
            m == Asked("finished", v)
<1>0. line \in [Viewers -> Seq(Asks)] /\ sessions \in Seq(Outcomes)
  BY DEF Typed, Actors
<1>1. /\ w.id \in DOMAIN sessions /\ sessions[w.id] = IF w.linked THEN "open" ELSE "untold"
      /\ Tells(w) <=> w.linked
  BY OwnIs
<1>2. m \in Asks /\ m.kind = "finished" /\ m.id = w.id
  BY AskedIs
<1>3. CASE Tells(w)
  <2>1. PICK k \in Asks : k = m
    BY <1>2
  <2>2. Lines([line EXCEPT ![v] = Append(@, k)], [sessions EXCEPT ![k.id] = "ended"])
    BY <1>0, <1>1, <1>2, <1>3, <2>1, LineTells
  <2>3. line' = [line EXCEPT ![v] = Append(@, k)] /\ Ended(w) = [sessions EXCEPT ![k.id] = "ended"]
    BY <1>2, <1>3, <2>1 DEF Ended
  <2>4. Ended(w) \in Seq(Outcomes)
    BY HistoryTypes
  <2>5. /\ DOMAIN Ended(w) = DOMAIN sessions
        /\ \A s \in DOMAIN sessions : s # w.id => Ended(w)[s] = sessions[s]
    BY <1>2, <2>1, <2>3
  <2>. QED  BY <2>2, <2>3, <2>4, <2>5
<1>4. CASE ~Tells(w)
  BY <1>0, <1>4 DEF Ended
<1>. QED  BY <1>3, <1>4

\* A session that begins: the one after all.
LEMMA Begun ==
    ASSUME NEW l, NEW ss \in Seq(Outcomes), Lines(l, ss), NEW x \in {"open", "untold"}
    PROVE  /\ Lines(l, Append(ss, x)) /\ Append(ss, x)[Len(ss) + 1] = x
           /\ Len(ss) + 1 \in DOMAIN Append(ss, x) /\ Len(ss) + 1 \notin DOMAIN ss
           /\ \A s \in DOMAIN ss : s \in DOMAIN Append(ss, x) /\ Append(ss, x)[s] = ss[s]
<1>. DEFINE st == Append(ss, x)
            n == Len(ss)
<1>1. /\ DOMAIN ss = 1 .. n /\ n \in Nat /\ DOMAIN st = 1 .. n + 1 /\ st[n + 1] = x
      /\ \A s \in 1 .. n : st[s] = ss[s]
  BY DEF Outcomes
<1>. HIDE DEF st, n
<1>2. /\ DOMAIN ss \subseteq DOMAIN st /\ n + 1 \in DOMAIN st /\ n + 1 \notin DOMAIN ss
      /\ \A s \in DOMAIN st : s \in DOMAIN ss \/ s = n + 1
  BY <1>1
<1>3. /\ \A s \in DOMAIN st : st[s] # "wrong"
      /\ \A s \in DOMAIN st : st[s] = "ended" <=> (s \in DOMAIN ss /\ ss[s] = "ended")
  BY <1>1, <1>2 DEF Lines
<1>4. Lines(l, st)
  BY <1>2, <1>3, LinesSame
<1>. QED  BY <1>1, <1>2, <1>4 DEF st, n

LEMMA ReopenTells ==
    ASSUME Typed, Lines(line, sessions), Own, NEW v \in Viewers,
           viewer[v].state \notin {"gone", "closing"}, NEW p \in Paths, Reopen(v, p)
    PROVE  Lines(line', sessions') /\ Own'
<1>. DEFINE w == viewer[v]
            r == Reading(v, p, w.copy, w.stale, w.linked)
            x == IF w.linked THEN "open" ELSE "untold"
<1>1. w \in Apps /\ w.copy \in Data /\ w.stale \in BOOLEAN /\ w.linked \in BOOLEAN
  BY Same DEF Apps
<1>2. r \in Apps /\ r.state = "open" /\ r.linked = w.linked /\ r.id = Len(sessions) + 1
      /\ ~r.inFlight /\ ~r.sent
  BY <1>1, ReadingIs
<1>3. /\ Lines(line', Ended(w)) /\ Ended(w) \in Seq(Outcomes) /\ DOMAIN Ended(w) = DOMAIN sessions
      /\ \A s \in DOMAIN sessions : s # w.id => Ended(w)[s] = sessions[s]
  BY EndedIs DEF Reopen
<1>4. sessions' = Append(Ended(w), x) /\ x \in {"open", "untold"} /\ viewer' = [viewer EXCEPT ![v] = r]
  BY DEF Reopen
<1>5. Len(Ended(w)) = Len(sessions)
  BY HistoryTypes
<1>. HIDE DEF r, x
<1>6. /\ Lines(line', sessions') /\ sessions'[r.id] = x /\ r.id \in DOMAIN sessions' /\ r.id \notin DOMAIN sessions
      /\ \A s \in DOMAIN sessions : s \in DOMAIN sessions' /\ sessions'[s] = Ended(w)[s]
  BY <1>2, <1>3, <1>4, <1>5, Begun
<1>7. \A u \in Viewers : u # v /\ viewer[u].state # "gone" =>
          viewer[u].id \in DOMAIN sessions /\ viewer[u].id # w.id
  BY OwnIs
<1>8. Session(r, sessions')
  BY <1>2, <1>6 DEF Session, x
<1>9. \A u \in Viewers :
          u # v /\ viewer[u].state # "gone" =>
              /\ viewer[u].id # r.id /\ viewer[u].id \in DOMAIN sessions'
              /\ sessions'[viewer[u].id] = sessions[viewer[u].id]
  BY <1>3, <1>6, <1>7
<1>10. Own'
  BY <1>2, <1>4, <1>8, <1>9, OwnKept
<1>. QED  BY <1>6, <1>10

LEMMA FinishTells ==
    ASSUME Typed, Lines(line, sessions), Own, NEW v \in Viewers,
           viewer[v].state \notin {"gone", "closing"}, Finish(v)
    PROVE  Lines(line', sessions') /\ Own'
<1>. DEFINE w == viewer[v]
            r == [w EXCEPT !.state = "closing", !.inFlight = @ \/ Tells(w)]
<1>1. w \in Apps
  BY Same
<1>2. r \in Apps /\ r.state = "closing" /\ r.id = w.id /\ ~Tells(r)
  BY <1>1 DEF Apps, Tells
<1>3. /\ Lines(line', Ended(w)) /\ DOMAIN Ended(w) = DOMAIN sessions
      /\ \A s \in DOMAIN sessions : s # w.id => Ended(w)[s] = sessions[s]
  BY EndedIs DEF Finish
<1>4. sessions' = Ended(w) /\ viewer' = [viewer EXCEPT ![v] = r]
  BY DEF Finish
<1>5. /\ w.id \in DOMAIN sessions
      /\ \A u \in Viewers : u # v /\ viewer[u].state # "gone" =>
             viewer[u].id \in DOMAIN sessions /\ viewer[u].id # w.id
  BY OwnIs
<1>. HIDE DEF r
<1>6. Session(r, sessions')
  BY <1>2, <1>3, <1>4, <1>5 DEF Session
<1>7. \A u \in Viewers :
          u # v /\ viewer[u].state # "gone" =>
              /\ viewer[u].id # r.id /\ viewer[u].id \in DOMAIN sessions'
              /\ sessions'[viewer[u].id] = sessions[viewer[u].id]
  BY <1>2, <1>3, <1>4, <1>5
<1>8. Own'
  BY <1>2, <1>4, <1>6, <1>7, OwnKept
<1>. QED  BY <1>3, <1>4, <1>8

\* No Viewer changes its session, nor does what is changed of others concern one under way.
LEMMA OwnSame ==
    ASSUME Own, DOMAIN sessions \subseteq DOMAIN sessions',
           \A s \in DOMAIN sessions : sessions[s] \in {"open", "untold"} => sessions'[s] = sessions[s],
           \A v \in Viewers : /\ viewer'[v].state = "gone" <=> viewer[v].state = "gone"
                              /\ viewer'[v].state = "closing" <=> viewer[v].state = "closing",
           \A v \in Viewers :
               viewer[v].state # "gone" =>
                   /\ viewer'[v].linked = viewer[v].linked /\ viewer'[v].id = viewer[v].id
                   /\ viewer'[v].sent = viewer[v].sent /\ viewer'[v].inFlight = viewer[v].inFlight
    PROVE  Own'
<1>1. ASSUME NEW v \in Viewers PROVE Session(viewer[v], sessions)'
  <2>1. Session(viewer[v], sessions)
    BY DEF Own
  <2>. QED  BY <2>1 DEF Session, Tells
<1>2. ASSUME NEW v \in Viewers, NEW w \in Viewers, v # w, viewer'[v].state # "gone", viewer'[w].state # "gone"
      PROVE  viewer'[v].id # viewer'[w].id
  BY <1>2 DEF Own
<1>. QED  BY <1>1, <1>2 DEF Own

LEMMA OwnAged ==
    ASSUME Typed, Own, NEW data \in Data, NEW ok \in BOOLEAN, viewer' = AgedViewers(data, ok),
           DOMAIN sessions \subseteq DOMAIN sessions',
           \A s \in DOMAIN sessions : sessions[s] \in {"open", "untold"} => sessions'[s] = sessions[s]
    PROVE  Own'
<1>1. \A v \in Viewers : /\ viewer'[v].state = viewer[v].state
                         /\ viewer[v].state # "gone" =>
                                /\ viewer'[v].linked = viewer[v].linked /\ viewer'[v].id = viewer[v].id
                                /\ viewer'[v].sent = viewer[v].sent /\ viewer'[v].inFlight = viewer[v].inFlight
  BY AgedViewersAre
<1>. QED  BY <1>1, OwnSame

\* One Viewer changes, but nothing of its session.
LEMMA OwnStays ==
    ASSUME Typed, Own, NEW v \in Viewers, NEW w \in Apps, viewer' = [viewer EXCEPT ![v] = w],
           UNCHANGED sessions, viewer[v].state \notin {"gone", "closing"}, w.state \notin {"gone", "closing"},
           w.linked = viewer[v].linked, w.id = viewer[v].id, w.sent = viewer[v].sent,
           w.inFlight = viewer[v].inFlight
    PROVE  Own'
<1>1. viewer'[v] = w /\ \A u \in Viewers : u # v => viewer'[u] = viewer[u]
  BY DEF Typed, Actors
<1>. QED  BY <1>1, OwnSame

LEMMA ViewerTells ==
    ASSUME Typed, StoresAssumption, Lines(line, sessions), Own, NEW v \in Viewers, ViewerStep(v)
    PROVE  Lines(line', sessions') /\ Own'
<1>0. /\ viewer[v] \in Apps /\ viewer \in [Viewers -> Apps] /\ files \subseteq Paths
      /\ line \in [Viewers -> Seq(Asks)] /\ sessions \in Seq(Outcomes)
      /\ Gone \in Apps /\ Gone.state = "gone"
  BY RecordTypes DEF Typed, Actors, Books, Gone
<1>1. CASE Open(v)
  <2>1. PICK p \in files, linked \in Links, ok \in BOOLEAN :
            /\ viewer' = [viewer EXCEPT ![v] = Reading(v, p, Loaded(ok), ~ok, linked)]
            /\ sessions' = Append(sessions, IF linked THEN "open" ELSE "untold")
    BY <1>1 DEF Open
  <2>. DEFINE copy == Loaded(ok)
              stale == ~ok
              r == Reading(v, p, copy, stale, linked)
              x == IF linked THEN "open" ELSE "untold"
  <2>2. p \in Paths /\ linked \in BOOLEAN /\ stale \in BOOLEAN /\ copy \in Data
    <3>1. p \in Paths /\ linked \in BOOLEAN
      BY <1>0 DEF StoresAssumption
    <3>2. copy \in Data
      BY LoadedIs
    <3>. QED  BY <3>1, <3>2
  <2>3. viewer' = [viewer EXCEPT ![v] = r] /\ sessions' = Append(sessions, x) /\ line' = line
    BY <1>1, <2>1 DEF Open, ipcVars
  <2>4. /\ r \in Apps /\ r.state = "open" /\ r.linked = linked /\ r.id = Len(sessions) + 1
        /\ ~r.inFlight /\ ~r.sent
    <3>. HIDE DEF copy, stale
    <3>. QED  BY <2>2, ReadingIs
  <2>5. x \in {"open", "untold"}
    OBVIOUS
  <2>. HIDE DEF r
  <2>6. /\ Lines(line, sessions') /\ sessions'[r.id] = x /\ r.id \in DOMAIN sessions' /\ r.id \notin DOMAIN sessions
        /\ \A s \in DOMAIN sessions : s \in DOMAIN sessions' /\ sessions'[s] = sessions[s]
    <3>. HIDE DEF x
    <3>. QED  BY <1>0, <2>3, <2>4, <2>5, Begun
  <2>7. Session(r, sessions')
    BY <2>4, <2>6 DEF Session
  <2>8. \A u \in Viewers : viewer[u].state # "gone" => viewer[u].id \in DOMAIN sessions
    BY OwnIs
  <2>9. Own'
    BY <2>3, <2>4, <2>6, <2>7, <2>8, OwnKept
  <2>. QED  BY <2>3, <2>6, <2>9
<1>2. CASE Show(v)
  <2>1. PICK page \in {"first", "last"} : viewer' = [viewer EXCEPT ![v].shown = page, ![v].start = "first"]
    BY <1>2 DEF Show
  <2>. DEFINE r == [viewer[v] EXCEPT !.shown = page, !.start = "first"]
  <2>2. /\ r \in Apps /\ r.state = viewer[v].state /\ r.linked = viewer[v].linked /\ r.id = viewer[v].id
        /\ r.sent = viewer[v].sent /\ r.inFlight = viewer[v].inFlight
    BY <1>0 DEF Apps, Pages
  <2>3. viewer' = [viewer EXCEPT ![v] = r] /\ viewer[v].state = "open" /\ UNCHANGED <<line, sessions>>
    BY <1>0, <1>2, <2>1 DEF Show, ipcVars
  <2>. HIDE DEF r
  <2>. QED  BY <2>2, <2>3, OwnStays
<1>3. CASE SetOption(v)
  <2>1. viewer[v].book \in Paths /\ viewer[v].state = "open" /\ UNCHANGED <<line, sessions>>
    BY <1>3 DEF SetOption, Typed, Actors
  <2>2. Chosen(viewer[v]) \in Data
    BY <1>0, <2>1, ChosenIs
  <2>3. PICK ok \in BOOLEAN :
            viewer' = [AgedViewers(Chosen(viewer[v]), ok) EXCEPT
                             ![v] = [viewer[v] EXCEPT !.copy = Chosen(viewer[v]), !.stale = ~ok]]
    BY <1>3 DEF SetOption, Chosen
  <2>. DEFINE r == [viewer[v] EXCEPT !.copy = Chosen(viewer[v]), !.stale = ~ok]
              old == AgedViewers(Chosen(viewer[v]), ok)
  <2>4. /\ r.state = "open" /\ r.linked = viewer[v].linked /\ r.id = viewer[v].id
        /\ r.sent = viewer[v].sent /\ r.inFlight = viewer[v].inFlight
    BY <1>0, <2>1 DEF Apps
  <2>5. /\ old \in [Viewers -> Apps]
        /\ \A u \in Viewers :
               /\ old[u].state = viewer[u].state
               /\ viewer[u].state # "gone" =>
                      /\ old[u].linked = viewer[u].linked /\ old[u].id = viewer[u].id
                      /\ old[u].sent = viewer[u].sent /\ old[u].inFlight = viewer[u].inFlight
    BY <2>2, AgedViewersAre
  <2>6. viewer' = [old EXCEPT ![v] = r]
    BY <2>3
  <2>. HIDE DEF r, old
  <2>7. viewer'[v] = r /\ \A u \in Viewers : u # v => viewer'[u] = old[u]
    BY <2>5, <2>6
  <2>8. Own'
    BY <2>1, <2>4, <2>5, <2>7, OwnSame
  <2>. QED  BY <2>1, <2>8
<1>4. CASE GoTo(v)
  <2>1. PICK p \in files : Reopen(v, p)
    BY <1>4 DEF GoTo
  <2>2. p \in Paths /\ viewer[v].state = "open"
    BY <1>0, <1>4 DEF GoTo
  <2>. QED  BY <2>1, <2>2, ReopenTells
<1>5. CASE GoOnRebuilt(v)
  <2>. DEFINE w == Discarded(viewer[v])
              old == [sessions EXCEPT ![w.id] = "untold"]
  <2>1. PICK p \in files :
            viewer' = [viewer EXCEPT ![v] = Reading(v, p, w.copy, w.stale, w.linked)]
    BY <1>5 DEF GoOnRebuilt
  <2>. DEFINE r == Reading(v, p, w.copy, w.stale, w.linked)
  <2>2. /\ w \in Apps /\ w.sent /\ w.id = viewer[v].id /\ w.state = viewer[v].state
        /\ w.linked = viewer[v].linked
    BY <1>0 DEF Apps, Discarded
  <2>3. viewer[v].state = "open" /\ w.linked /\ line' = line
        /\ sessions' = Append(old, "open") /\ viewer' = [viewer EXCEPT ![v] = r]
    BY <1>5, <2>1, <2>2 DEF GoOnRebuilt, Tells
  <2>4. /\ r \in Apps /\ r.state = "open" /\ r.linked = w.linked /\ r.id = Len(sessions) + 1
        /\ ~r.inFlight /\ ~r.sent
    <3>1. p \in Paths /\ w.copy \in Data /\ w.stale \in BOOLEAN /\ w.linked \in BOOLEAN
      BY <1>0, <2>2 DEF Apps
    <3>. HIDE DEF w
    <3>. QED  BY <3>1, ReadingIs
  <2>5. /\ w.id \in DOMAIN sessions /\ sessions[w.id] = "open"
        /\ \A u \in Viewers : u # v /\ viewer[u].state # "gone" =>
               viewer[u].id \in DOMAIN sessions /\ viewer[u].id # w.id
    BY <2>2, <2>3, OwnIs
  <2>. HIDE DEF w, r
  <2>6. /\ old \in Seq(Outcomes) /\ Len(old) = Len(sessions) /\ DOMAIN old = DOMAIN sessions /\ old[w.id] = "untold"
        /\ \A s \in DOMAIN sessions : s # w.id => old[s] = sessions[s]
    BY <1>0, <2>5 DEF Outcomes
  <2>. HIDE DEF old
  <2>7. Lines(line, old)
    <3>1. /\ \A s \in DOMAIN old : old[s] # "wrong"
          /\ \A s \in DOMAIN old : old[s] = "ended" <=> (s \in DOMAIN sessions /\ sessions[s] = "ended")
      BY <2>5, <2>6 DEF Lines
    <3>. QED  BY <2>6, <3>1, LinesSame
  <2>8. /\ Lines(line, sessions') /\ sessions'[r.id] = "open" /\ r.id \in DOMAIN sessions'
        /\ r.id \notin DOMAIN sessions
        /\ \A s \in DOMAIN sessions : s \in DOMAIN sessions' /\ sessions'[s] = old[s]
    BY <2>3, <2>4, <2>6, <2>7, Begun
  <2>9. Session(r, sessions')
    BY <2>3, <2>4, <2>8 DEF Session
  <2>10. \A u \in Viewers :
            u # v /\ viewer[u].state # "gone" =>
                /\ viewer[u].id # r.id /\ viewer[u].id \in DOMAIN sessions'
                /\ sessions'[viewer[u].id] = sessions[viewer[u].id]
    BY <2>5, <2>6, <2>8
  <2>11. Own'
    BY <2>3, <2>4, <2>9, <2>10, OwnKept
  <2>. QED  BY <2>3, <2>8, <2>11
<1>6. CASE AskDelete(v)
  <2>1. PICK closes \in BOOLEAN : viewer' = [viewer EXCEPT ![v].state = "deleting", ![v].closes = closes]
    BY <1>6 DEF AskDelete
  <2>. DEFINE r == [viewer[v] EXCEPT !.state = "deleting", !.closes = closes]
  <2>2. /\ r \in Apps /\ r.state = "deleting" /\ r.linked = viewer[v].linked /\ r.id = viewer[v].id
        /\ r.sent = viewer[v].sent /\ r.inFlight = viewer[v].inFlight
    BY <1>0 DEF Apps
  <2>3. /\ viewer' = [viewer EXCEPT ![v] = r] /\ viewer[v].state = "open" /\ UNCHANGED sessions
        /\ line' = [line EXCEPT ![v] = Append(@, Asked("delete", v))]
    BY <1>0, <1>6, <2>1 DEF AskDelete
  <2>. HIDE DEF r
  <2>4. Own'
    BY <2>2, <2>3, OwnStays
  <2>5. PICK m \in Asks : m = Asked("delete", v) /\ m.kind # "finished"
    BY <2>3, AskedIs
  <2>6. Lines(line', sessions)
    BY <1>0, <2>3, <2>5, LineAsks
  <2>. QED  BY <2>3, <2>4, <2>6
<1>7. CASE Deleted(v)
  <2>1. viewer[v].state = "answered"
    BY <1>7 DEF Deleted
  <2>2. CASE Finish(v)
    BY <2>1, <2>2, FinishTells
  <2>3. CASE viewer[v].next # NoPath /\ Reopen(v, viewer[v].next)
    <3>1. viewer[v].next \in Paths
      BY <1>0, <2>3 DEF Apps, Spots
    <3>. QED  BY <2>1, <2>3, <3>1, ReopenTells
  <2>. QED  BY <1>7, <2>2, <2>3 DEF Deleted
<1>8. CASE Close(v)
  <2>1. viewer[v].state \notin {"gone", "closing"} /\ Finish(v)
    BY <1>8 DEF Close
  <2>. QED  BY <2>1, FinishTells
<1>9. CASE Acked(v)
  <2>. DEFINE r == [viewer[v] EXCEPT !.inFlight = FALSE, !.sent = TRUE]
  <2>1. r \in Apps /\ r.state = viewer[v].state /\ r.id = viewer[v].id /\ ~Tells(r)
    BY <1>0 DEF Apps, Tells
  <2>2. viewer' = [viewer EXCEPT ![v] = r] /\ viewer[v].state = "closing" /\ UNCHANGED <<line, sessions>>
    BY <1>0, <1>9 DEF Acked, ipcVars
  <2>. HIDE DEF r
  <2>3. /\ viewer[v].id \in DOMAIN sessions
        /\ \A u \in Viewers : u # v /\ viewer[u].state # "gone" =>
               viewer[u].id \in DOMAIN sessions /\ viewer[u].id # viewer[v].id
    BY <2>2, OwnIs
  <2>4. Session(r, sessions')
    BY <2>1, <2>2, <2>3 DEF Session
  <2>5. Own'
    BY <2>1, <2>2, <2>3, <2>4, OwnKept
  <2>. QED  BY <2>2, <2>5
<1>10. CASE Exit(v)
  <2>1. viewer[v].state = "closing"
    BY <1>10 DEF Exit, TimedOut
  <2>2. /\ ~Tells(viewer[v])
        /\ \A u \in Viewers : u # v /\ viewer[u].state # "gone" => viewer[u].id \in DOMAIN sessions
    BY <2>1, OwnIs
  <2>. DEFINE rest == Untold(SubSeq(line[v], Len(Sent(v, line[v])) + 1, Len(line[v])))
  <2>3. /\ viewer' = [viewer EXCEPT ![v] = Gone]
        /\ \/ line' = [line EXCEPT ![v] = line[v]] /\ sessions' = sessions
           \/ line' = [line EXCEPT ![v] = Sent(v, line[v])] /\ sessions' = rest
    BY <1>10, <2>2 DEF Exit, TimedOut
  <2>4. /\ Lines([line EXCEPT ![v] = Sent(v, line[v])], rest) /\ DOMAIN rest = DOMAIN sessions
        /\ \A s \in DOMAIN sessions : sessions[s] # "ended" => rest[s] = sessions[s]
    BY LineCut
  <2>. HIDE DEF rest
  <2>5. /\ Lines(line', sessions') /\ DOMAIN sessions' = DOMAIN sessions
        /\ \A s \in DOMAIN sessions : sessions[s] # "ended" => sessions'[s] = sessions[s]
    <3>1. [line EXCEPT ![v] = line[v]] = line
      BY <1>0
    <3>. QED  BY <2>3, <2>4, <3>1
  <2>6. \A u \in Viewers : viewer[u].state \notin {"gone", "closing"} => sessions[viewer[u].id] # "ended"
    BY OwnIs
  <2>7. Session(Gone, sessions')
    BY <1>0 DEF Session
  <2>8. \A u \in Viewers :
            u # v /\ viewer[u].state # "gone" =>
                /\ viewer[u].id \in DOMAIN sessions'
                /\ viewer[u].state # "closing" => sessions'[viewer[u].id] = sessions[viewer[u].id]
    BY <2>2, <2>5, <2>6
  <2>9. Own'
    BY <1>0, <2>3, <2>7, <2>8, OwnKept
  <2>. QED  BY <2>5, <2>9
<1>11. CASE Kill(v)
  <2>. DEFINE rest == Untold(SubSeq(line[v], Len(Sent(v, line[v])) + 1, Len(line[v])))
  <2>1. /\ viewer[v].state \notin {"gone", "closing"} /\ viewer' = [viewer EXCEPT ![v] = Gone]
        /\ line' = [line EXCEPT ![v] = Sent(v, line[v])]
        /\ sessions' = [rest EXCEPT ![viewer[v].id] = "untold"]
    BY <1>11 DEF Kill
  <2>2. /\ viewer[v].id \in DOMAIN sessions /\ sessions[viewer[v].id] # "ended"
        /\ \A u \in Viewers : u # v /\ viewer[u].state # "gone" =>
               viewer[u].id \in DOMAIN sessions /\ viewer[u].id # viewer[v].id
    BY <2>1, OwnIs
  <2>3. /\ Lines([line EXCEPT ![v] = Sent(v, line[v])], rest) /\ DOMAIN rest = DOMAIN sessions
        /\ \A s \in DOMAIN sessions : sessions[s] # "ended" => rest[s] = sessions[s]
    BY LineCut
  <2>4. /\ DOMAIN sessions' = DOMAIN rest /\ sessions'[viewer[v].id] = "untold"
        /\ \A s \in DOMAIN rest : s # viewer[v].id => sessions'[s] = rest[s]
    BY <2>1, <2>2, <2>3
  <2>. HIDE DEF rest
  <2>5. Lines(line', sessions')
    <3>1. \A s \in DOMAIN sessions' : /\ sessions'[s] # "wrong"
                                      /\ sessions'[s] = "ended" <=> (s \in DOMAIN rest /\ rest[s] = "ended")
      BY <2>2, <2>3, <2>4 DEF Lines
    <3>. QED  BY <2>1, <2>3, <2>4, <3>1, LinesSame
  <2>6. \A u \in Viewers : viewer[u].state \notin {"gone", "closing"} => sessions[viewer[u].id] # "ended"
    BY OwnIs
  <2>7. Session(Gone, sessions')
    BY <1>0 DEF Session
  <2>8. ASSUME NEW u \in Viewers, u # v, viewer[u].state # "gone"
        PROVE  /\ viewer[u].id \in DOMAIN sessions'
               /\ viewer[u].state # "closing" => sessions'[viewer[u].id] = sessions[viewer[u].id]
    <3>1. /\ viewer[u].id \in DOMAIN rest /\ viewer[u].id # viewer[v].id
          /\ sessions'[viewer[u].id] = rest[viewer[u].id]
      BY <2>2, <2>3, <2>4, <2>8
    <3>2. viewer[u].state # "closing" => rest[viewer[u].id] = sessions[viewer[u].id]
      BY <2>2, <2>3, <2>6, <2>8
    <3>. QED  BY <2>4, <3>1, <3>2
  <2>9. Own'
    BY <1>0, <2>1, <2>7, <2>8, OwnKept
  <2>. QED  BY <2>5, <2>9
<1>. QED  BY <1>1, <1>2, <1>3, <1>4, <1>5, <1>6, <1>7, <1>8, <1>9, <1>10, <1>11 DEF ViewerStep

LEMMA ThreadTells ==
    ASSUME Typed, Lines(line, sessions), Own, NEW v \in Viewers, ThreadStep(v)
    PROVE  Lines(line', sessions') /\ Own'
<1>0. /\ line \in [Viewers -> Seq(Asks)] /\ sessions \in Seq(Outcomes) /\ NoPath \in Spots
      /\ files \subseteq Spots
  BY DEF Typed, Actors, Books, Spots
<1>1. CASE SessionReads(v)
  <2>1. UNCHANGED <<viewer, line, sessions>>
    BY <1>1 DEF SessionReads
  <2>2. Own'
    BY <2>1, OwnSame
  <2>. QED  BY <2>1, <2>2
<1>2. CASE SessionWrites(v)
  <2>. DEFINE m == Head(line[v])
  <2>1. /\ thread[v].busy /\ line' = [line EXCEPT ![v] = Tail(@)] /\ sessions' = Told(m.id)
    BY <1>2 DEF SessionWrites
  <2>2. line[v] # <<>> /\ m.kind = "finished" /\ (\A moved \in BOOLEAN : SessionData(v, moved) \in Data)
    BY <2>1, SessionDataIs DEF Typed, Actors
  <2>3. 1 \in DOMAIN line[v] /\ line[v][1] = m
    BY <1>0, <2>2, SeqFacts
  <2>4. m.id \in DOMAIN sessions /\ sessions[m.id] = "ended"
    BY <2>2, <2>3 DEF Lines, IsTold
  <2>5. sessions' = [sessions EXCEPT ![m.id] = "told"]
    BY <2>1, <2>4 DEF Told
  <2>6. Lines(line', sessions')
    <3>1. PICK st : st = [sessions EXCEPT ![m.id] = "told"]
      OBVIOUS
    <3>2. Lines([line EXCEPT ![v] = Tail(@)], st)
      BY <1>0, <2>2, <3>1, LineTold
    <3>. QED  BY <2>1, <2>5, <3>1, <3>2
  <2>7. /\ DOMAIN sessions \subseteq DOMAIN sessions'
        /\ \A s \in DOMAIN sessions : sessions[s] \in {"open", "untold"} => sessions'[s] = sessions[s]
    <3>. HIDE DEF m
    <3>. QED  BY <2>4, <2>5
  <2>8. PICK ok, moved \in BOOLEAN : viewer' = AgedViewers(SessionData(v, moved), ok)
    BY <1>2 DEF SessionWrites, SessionData
  <2>9. Own'
    BY <2>2, <2>7, <2>8, OwnAged
  <2>. QED  BY <2>6, <2>9
<1>3. CASE ThreadDeletes(v)
  <2>1. /\ line[v] # <<>> /\ Head(line[v]).kind = "delete" /\ line' = [line EXCEPT ![v] = Tail(@)]
        /\ sessions' = sessions
    BY <1>3 DEF ThreadDeletes
  <2>2. Lines([line EXCEPT ![v] = Tail(@)], sessions)
    BY <1>0, <2>1, LineTold
  <2>3. PICK st \in {"open", "answered"}, p \in Spots : Answer(v, st, p)
    <3>1. CASE Head(line[v]).book \in files
      BY <1>0, <1>3, <3>1 DEF ThreadDeletes
    <3>2. CASE Head(line[v]).book \notin files
      BY <1>0, <1>3, <3>2 DEF ThreadDeletes
    <3>. QED  BY <3>1, <3>2
  <2>4. Own'
    BY <2>1, <2>3, AnswerIs, OwnSame
  <2>. QED  BY <2>1, <2>2, <2>4
<1>. QED  BY <1>1, <1>2, <1>3 DEF ThreadStep

LEMMA WindowTells ==
    ASSUME Typed, Task, Lines(line, sessions), Own, WindowStep
    PROVE  Lines(line', sessions') /\ Own'
<1>1. UNCHANGED <<line, sessions>>
  BY DEF WindowStep, ToggleFavorite, AssignGroup, ClearSettings, ClearWrites, DeleteBook, ForgetBook,
         ForgetWrites, RenameBook, RenameWrites, RefreshHud, LoadDir, ipcVars
<1>2. CASE ClearWrites \/ ForgetWrites \/ RenameWrites
  <2>1. PICK data \in Data, ok \in BOOLEAN : viewer' = AgedViewers(data, ok)
    BY <1>2, TaskWrites
  <2>. QED  BY <1>1, <2>1, OwnAged
<1>3. CASE ~(ClearWrites \/ ForgetWrites \/ RenameWrites)
  <2>1. viewer' = viewer
    BY <1>3 DEF WindowStep, ToggleFavorite, AssignGroup, ClearSettings, DeleteBook, ForgetBook,
                RenameBook, RefreshHud, LoadDir
  <2>. QED  BY <1>1, <2>1, OwnSame
<1>. QED  BY <1>2, <1>3

-----------------------------------------------------------------------------
(* The invariant *)

LEMMA StartsSo ==
    ASSUME Init, StoresAssumption
    PROVE  Inv
<1>1. /\ Gone \in Apps /\ Gone.state = "gone" /\ IdleThread \in Threads /\ IdleThread.busy = FALSE
      /\ IdleUi \in Tasks /\ IdleUi.op = "none" /\ NoRecords \in Data /\ StatusOf(NoRecord) = "Unread"
      /\ \A p \in Paths : NoRecords[p] = NoRecord
  BY RecordTypes DEF Gone, IdleThread, IdleUi, StatusOf, Entry, Default, NoRecords
<1>2. Typed
  <2>1. Books
    BY <1>1 DEF Init, StoresAssumption, Books, Paths, Statuses
  <2>2. Actors
    BY <1>1 DEF Init, Actors
  <2>. QED  BY <2>1, <2>2 DEF Typed
<1>3. Task /\ Fresh /\ RecordKept
  BY <1>1 DEF Init, Task, Fresh, RecordKept
<1>4. Seen
  <2>1. ASSUME NEW p \in files PROVE StatusOf(disk[p]) = Shown(p)
    <3>1. p \in Paths /\ p \in Present
      BY <2>1 DEF Init, StoresAssumption, Paths
    <3>2. disk[p] = NoRecord /\ hud[p] = "Unread"
      BY <1>1, <3>1 DEF Init
    <3>. QED  BY <1>1, <3>2 DEF Shown
  <2>2. ui.op = "none"
    BY <1>1 DEF Init
  <2>. QED  BY <2>1, <2>2 DEF Seen
<1>5. Forgotten
  BY <1>1 DEF Init, Forgotten, Bare, StoresAssumption
<1>6. Lines(line, sessions) /\ Own
  BY <1>1 DEF Init, Lines, Own, Session
<1>. QED  BY <1>2, <1>3, <1>4, <1>5, <1>6 DEF Inv

LEMMA InvKept ==
    ASSUME Inv, StoresAssumption, [Next]_vars
    PROVE  Inv'
<1>0. Typed /\ Task /\ Fresh /\ RecordKept /\ Seen /\ Forgotten /\ Lines(line, sessions) /\ Own
  BY DEF Inv
<1>1. CASE Next
  <2>1. ASSUME NEW v \in Viewers, ViewerStep(v) PROVE Actors' /\ Lines(line', sessions') /\ Own'
    BY <1>0, <2>1, ViewerTypes, ViewerTells
  <2>2. ASSUME NEW v \in Viewers, ThreadStep(v) PROVE Actors' /\ Lines(line', sessions') /\ Own'
    BY <1>0, <2>2, ThreadTypes, ThreadTells
  <2>3. ASSUME WindowStep PROVE Actors' /\ Lines(line', sessions') /\ Own'
    BY <1>0, <2>3, WindowTypes, WindowTells
  <2>4. Actors' /\ Lines(line', sessions') /\ Own'
    BY <1>1, <2>1, <2>2, <2>3 DEF Next
  <2>5. Books' /\ Task'
    BY <1>0, <1>1, BookTypes, TaskKept
  <2>6. Fresh' /\ RecordKept'
    BY <1>0, <1>1, FreshKept, RecordsKept
  <2>7. Seen' /\ Forgotten'
    BY <1>0, <1>1, SeenKept, ForgottenKept
  <2>. QED  BY <2>4, <2>5, <2>6, <2>7 DEF Inv, Typed
<1>2. CASE UNCHANGED vars
  <2>1. Typed' /\ Task' /\ Fresh' /\ RecordKept'
    BY <1>0, <1>2 DEF vars, Typed, Books, Actors, Task, Leaving, Noted, Fresh, RecordKept
  <2>2. Seen' /\ Forgotten'
    BY <1>0, <1>2 DEF vars, Seen, Unseen, Shown, Noted, Forgotten, Bare, Leaving
  <2>3. Lines(line', sessions') /\ Own'
    <3>1. UNCHANGED <<line, sessions, viewer>>
      BY <1>2 DEF vars
    <3>. QED  BY <1>0, <3>1, OwnSame
  <2>. QED  BY <2>1, <2>2, <2>3 DEF Inv
<1>. QED  BY <1>1, <1>2

\* The invariant holds, whatever the paths, the Viewers, the sessions and the failures.
THEOREM StoresInvariant == Spec => []Inv
<1>1. Init => Inv
  BY StoresAssumption, StartsSo
<1>2. Inv /\ [Next]_vars => Inv'
  BY StoresAssumption, InvKept
<1>. QED  BY <1>1, <1>2, PTL DEF Spec

\* RecordKept: book_state.json has what the changes made to it one after the other come to, whoever
\* made them, but for what a stale copy or a failure lost (domain/archive_settings.rs).
THEOREM RecordsCorrect == Spec => []RecordKept
<1>1. Inv => RecordKept
  BY DEF Inv
<1>. QED  BY <1>1, StoresInvariant, PTL

\* HudAgrees: the status the Library shows is the one in the file, once nothing is under way
\* (refresh_reading_hud_state_for_path, apply_renamed_path_diff).
THEOREM HudCorrect == Spec => []HudAgrees
<1>1. Inv => HudAgrees
  <2>. SUFFICES ASSUME Inv, Quiet, NEW p \in files \ off
                PROVE  StatusOf(disk[p]) = IF hud[p] = "absent" THEN "Unread" ELSE hud[p]
    BY DEF HudAgrees
  <2>1. ~Unseen(p)
    BY DEF Unseen, Noted, Quiet
  <2>. QED  BY <2>1 DEF Inv, Seen, Shown
<1>. QED  BY <1>1, StoresInvariant, PTL

\* ToldOnce: a reading session is told once, and each that has ended is told of or in a line that
\* the Library has still to read (begin_notification, complete_notification, on_exit).
THEOREM ToldCorrect == Spec => []ToldOnce
<1>1. Inv => ToldOnce
  <2>. SUFFICES ASSUME Inv PROVE ToldOnce
    OBVIOUS
  <2>1. \A v \in Viewers : Quiet => DOMAIN line[v] = {}
    BY DEF Quiet
  <2>. QED  BY <2>1 DEF Inv, Lines, ToldOnce
<1>. QED  BY <1>1, StoresInvariant, PTL

\* NothingLeftBehind: a path whose book has gone loses its record, its place among the favourites
\* and its group, and a favourite in memory is one in the file (apply_deleted_path_diff,
\* apply_renamed_path_diff, FavoriteStore::save).
THEOREM LeavingsCorrect == Spec => []NothingLeftBehind
<1>1. Inv => NothingLeftBehind
  <2>. SUFFICES ASSUME Inv PROVE NothingLeftBehind
    OBVIOUS
  <2>1. ASSUME Quiet, NEW p \in Paths PROVE ~Leaving(p)
    BY <2>1 DEF Quiet, Leaving, Noted
  <2>. QED  BY <2>1 DEF Inv, Forgotten, Bare, NothingLeftBehind
<1>. QED  BY <1>1, StoresInvariant, PTL
=============================================================================
