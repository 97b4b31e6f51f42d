---------------------------- MODULE LibraryProofs ----------------------------
(***************************************************************************)
(* Proofs about the Library's window, for every folder and number of       *)
(* events: its grid of thumbnails (ThumbDisplay) and its list of a folder  *)
(* (LibraryList).  The two share nothing; each part stands alone.          *)
(***************************************************************************)
EXTENDS ThumbDisplay, LibraryList, FiniteSetTheorems, SequenceTheorems, WellFoundedInduction, TLAPS

(***************************************************************************)
(* The grid: an entry never shows the thumbnail of another revision than   *)
(* the list's (TextureOfSnapshot), and what the grid waits for is lost in  *)
(* the named ways only (OnlyNamedLosses).                                  *)
(*                                                                         *)
(* The first needs no help from the queues: whatever a result says,        *)
(* poll_worker shows it only when the list is loaded and its own revision  *)
(* is the result's, and every step that changes the list drops the         *)
(* textures of the entries it changes.                                     *)
(*                                                                         *)
(* The second does.  WaitInv says what a request and an answer can be: of  *)
(* a revision the book has had, so that an answer that calls its source    *)
(* changed is outdated for good, and does not end a wait for what is on    *)
(* the disk now; and that a video waits for what the list has of it, so    *)
(* that an answer to a current request is one the video waits for.         *)
(***************************************************************************)

Inv == DOMAIN texture = Books /\ TextureOfSnapshot

LEMMA InitInv == Init => Inv
BY DEF Init, Inv, TextureOfSnapshot

\* A thumbnail is put on the screen only where the list has its revision.
LEMMA ReadyShown ==
    ASSUME Inv, NEW m, ShowReady(m), SourceMatches(m.b, m.rev),
           UNCHANGED <<listed, snap>>
    PROVE  Inv'
BY DEF Inv, TextureOfSnapshot, ShowReady, SourceMatches

\* A step that leaves the list alone and drops textures, or none.
LEMMA Dropped ==
    ASSUME Inv, UNCHANGED <<listed, snap>>,
           NEW lost, texture' = [b \in Books |-> IF b \in lost THEN None ELSE texture[b]]
    PROVE  Inv'
BY DEF Inv, TextureOfSnapshot

LEMMA Forgotten == ForgetThumbs => Inv'
BY DEF ForgetThumbs, Inv, TextureOfSnapshot

LEMMA Kept ==
    ASSUME Inv, UNCHANGED <<listed, snap, texture>>
    PROVE  Inv'
BY DEF Inv, TextureOfSnapshot

LEMMA ScanInv == Inv /\ Scan => Inv'
BY DEF Scan, Inv, TextureOfSnapshot

LEMMA ClearBookInv == Inv /\ ClearBook => Inv'
BY DEF ClearBook, Inv, TextureOfSnapshot

LEMMA FrameInv == Inv /\ Frame => Inv'
<1> SUFFICES ASSUME Inv, Frame PROVE Inv'
  OBVIOUS
<1>1. PICK v, evicted : ShowFrame(v, evicted)
  BY DEF Frame
<1>2. UNCHANGED <<listed, snap>>
  BY DEF Frame
<1> QED
  BY <1>1, <1>2, Dropped DEF ShowFrame

\* Of the five kinds of result two show a thumbnail, under the same checks.
LEMMA PollInv == Inv /\ Poll => Inv'
<1> SUFFICES ASSUME Inv, Poll PROVE Inv'
  OBVIOUS
<1> DEFINE m == Head(results)
<1>1. UNCHANGED <<listed, snap>>
  BY DEF Poll
<1>2. CASE m.type = "Ready" /\ HandleReady(m)
  BY <1>1, <1>2, ReadyShown, Kept DEF HandleReady
<1>3. CASE m.type = "Failed" /\ HandleFailed(m)
  BY <1>1, <1>3 DEF HandleFailed, Inv, TextureOfSnapshot
<1>4. CASE m.type = "DisplayStale" /\ HandleDisplayStale(m)
  BY <1>1, <1>4, Kept DEF HandleDisplayStale
<1>5. CASE m.type = "VideoReady" /\ HandleVideoReady(m)
  BY <1>1, <1>5, ReadyShown, Kept DEF HandleVideoReady
<1>6. CASE m.type = "VideoStale" /\ HandleVideoStale(m)
  BY <1>1, <1>6, Kept DEF HandleVideoStale
<1> QED
  BY <1>2, <1>3, <1>4, <1>5, <1>6 DEF Poll

\* The worker and the scheduler have no part in what is on the screen.
LEMMA OthersInv == Inv /\ (Worker \/ Scheduler \/ FileChange \/ UNCHANGED vars) => Inv'
<1> SUFFICES ASSUME Inv, Worker \/ Scheduler \/ FileChange \/ UNCHANGED vars
             PROVE  UNCHANGED <<listed, snap, texture>>
  BY Kept
<1> QED
  BY DEF Worker, Scheduler, FileChange, vars, uiVars, NormalTake, NormalBegin, DisplayTake,
         VideoTake, Decode, Finish, SchedReceive, SchedSend

\* The thumbnail an entry shows is of the revision the list has of it, whatever
\* results come late (poll_worker, source_matches_revision).
THEOREM TextureCorrect == Spec => []TextureOfSnapshot
<1>1. Inv /\ [Next]_vars => Inv'
  <2> SUFFICES ASSUME Inv, [Next]_vars PROVE Inv'
    OBVIOUS
  <2>1. CASE StartLoad
    BY <2>1, Forgotten DEF StartLoad
  <2>2. CASE LoadDone
    BY <2>2, Forgotten DEF LoadDone
  <2>3. CASE ClearCaches
    BY <2>3, Forgotten DEF ClearCaches
  <2> QED
    BY <2>1, <2>2, <2>3, FrameInv, ScanInv, ClearBookInv, PollInv, OthersInv
    DEF Next, Library
<1> QED
  BY <1>1, InitInv, PTL DEF Spec, Inv

-----------------------------------------------------------------------------
(* The requests the Library waits for (OnlyNamedLosses).                   *)

\* What is asked for and what is answered: of a book and a revision it has had.
Wanted == [b : Books, rev : Nat, force : BOOLEAN, gen : Nat, bookGen : Nat,
           origin : {"display", "video", "background"}]
Said == [type : {"Ready", "Failed", "DisplayStale", "VideoReady", "VideoStale"},
         b : Books, rev : Nat, force : BOOLEAN, gen : Nat, bookGen : Nat]

Had(t) == t.rev <= file[t.b] /\ t.bookGen <= bookGen[t.b]
Outdated(t) == t.rev < file[t.b] \/ t.bookGen < bookGen[t.b]

Requests(B, from) == {t \in Wanted : t.b \in B /\ t.origin \in from /\ Had(t)}
Answers ==
    {m \in Said : /\ m.type = "DisplayStale" => m.b \in Images /\ Outdated(m)
                  /\ m.type \in {"VideoReady", "VideoStale"} => m.b \in Videos}

NormalRequests ==
    [type : {"Task"}, task : Requests(Images, {"background"})]
      \cup [type : {"Clear"}, task : {NoTask}]
      \cup [type : {"Remove"}, task : Requests(Images, {"display"})]
VideoRequests == Requests(Videos, {"video"}) \cup {NoTask}
Orders == [type : {"SetVisible", "Replace", "Clear"}, ids : SUBSET Books,
           jobs : SUBSET Requests(Books, {"background"}), gen : Nat]
Flights ==
    {f \in [task : Requests(Images, {"display", "background"})
                     \cup Requests(Videos, {"video", "background"}),
            registered : BOOLEAN, stage : {"new", "stale", "decoding"}] :
       f.stage = "stale" => Outdated(f.task)}

Types ==
    /\ entries \subseteq Books /\ IsFiniteSet(entries)
    /\ file \in [Books -> Nat] /\ snap \in [Books -> Nat]
    /\ gen \in Nat /\ bookGen \in [Books -> Nat]
    /\ texture \in [Books -> Nat \cup {None}] /\ failed \in [Books -> BOOLEAN]
    /\ asked \in [Videos -> [rev : Nat \cup {None}, gen : Nat \cup {None}]]
    /\ force \in [Images -> BOOLEAN]
    /\ lastSet \in [known : BOOLEAN, keys : SUBSET (Images \X Nat \X BOOLEAN)]

\* The list is never ahead of the disk, and a video waits for what is shown of it.
InList ==
    /\ \A b \in Books : snap[b] <= file[b]
    /\ \A v \in Videos : asked[v] # NotAsked => asked[v] = [rev |-> snap[v], gen |-> gen]

Queued ==
    /\ mailbox \subseteq Requests(Images, {"display"})
    /\ normalQ \in Seq(NormalRequests)
    /\ held \in Requests(Images, {"background"}) \cup {NoTask}
    /\ videoQ \in Seq(VideoRequests)
    /\ videoBg \in Seq(Requests(Videos, {"background"}))
    /\ flights \subseteq Flights
    /\ results \in Seq(Answers)
    /\ schedQ \in Seq(Orders)
    /\ jobs \subseteq Requests(Books, {"background"})

WaitInv == Types /\ InList /\ Queued

\* A sequence of the elements of a finite set has them all.
LEMMA Ordering ==
    ASSUME NEW S, IsFiniteSet(S), NEW q \in SetToSeqs(S)
    PROVE  q \in Seq(S) /\ \A s \in S : \E n \in DOMAIN q : q[n] = s
<1> DEFINE D == 1..Cardinality(S)
<1>1. Cardinality(S) \in Nat
  BY FS_CardinalityType
<1>2. q \in [D -> S] /\ \A i, j \in D : i # j => q[i] # q[j]
  BY Zenon DEF SetToSeqs
<1>3. q \in Injection(D, S)
  BY <1>2 DEF Injection, IsInjective
<1>4. Cardinality(D) = Cardinality(S)
  BY <1>1, FS_Interval
<1>5. q \in Surjection(D, S)
  BY <1>3, <1>4, FS_Injection
<1>6. q \in Seq(S)
  BY <1>1, <1>2
<1> QED
  BY <1>2, <1>5, <1>6 DEF Surjection

\* While nothing happens to the files the sets of requests stay as they are.
LEMMA Same ==
    ASSUME UNCHANGED <<file, bookGen>>
    PROVE  /\ \A B, from : Requests(B, from)' = Requests(B, from)
           /\ Answers' = Answers /\ NormalRequests' = NormalRequests
           /\ VideoRequests' = VideoRequests /\ Orders' = Orders /\ Flights' = Flights
BY DEF Requests, Answers, NormalRequests, VideoRequests, Orders, Flights, Had, Outdated

\* A request remains one, and what is outdated remains so.
LEMMA Later ==
    ASSUME Types, file' \in [Books -> Nat], bookGen' \in [Books -> Nat],
           \A b \in Books : file[b] <= file'[b] /\ bookGen[b] <= bookGen'[b]
    PROVE  /\ \A B, from : Requests(B, from) \subseteq Requests(B, from)'
           /\ Answers \subseteq Answers' /\ NormalRequests \subseteq NormalRequests'
           /\ VideoRequests \subseteq VideoRequests' /\ Orders \subseteq Orders'
           /\ Flights \subseteq Flights'
<1>1. \A t \in Wanted : Had(t) => Had(t)'
  BY DEF Types, Had, Wanted
<1>2. \A t \in Wanted \cup Said : Outdated(t) => Outdated(t)'
  BY DEF Types, Outdated, Wanted, Said
<1>3. \A B, from : Requests(B, from) \subseteq Requests(B, from)'
  BY <1>1 DEF Requests
<1>4. Answers \subseteq Answers'
  BY <1>2 DEF Answers
<1>5. NormalRequests \subseteq NormalRequests' /\ VideoRequests \subseteq VideoRequests'
  BY <1>3 DEF NormalRequests, VideoRequests
<1>6. Orders \subseteq Orders'
  BY <1>3 DEF Orders
<1>7. Flights \subseteq Flights'
  <2> SUFFICES ASSUME NEW f \in Flights PROVE f \in Flights'
    OBVIOUS
  <2>1. f.task \in Wanted
    BY DEF Flights, Requests
  <2> QED
    BY <1>2, <1>3, <2>1 DEF Flights
<1> QED
  BY <1>3, <1>4, <1>5, <1>6, <1>7

LEMMA InitWait == Init => WaitInv
<1> SUFFICES ASSUME Init PROVE WaitInv
  OBVIOUS
<1>1. Types
  BY DisplayAssumption DEF Init, Types, None, NotAsked, UnknownSet, Books
<1>2. InList
  BY DEF Init, InList
<1>3. jobs \subseteq Requests(Books, {"background"})
  <2> SUFFICES ASSUME NEW b \in entries
               PROVE  Task(b, 0, FALSE, "background") \in Requests(Books, {"background"})
    BY DEF Init
  <2> QED
    BY <1>1 DEF Init, Types, Task, Requests, Wanted, Had
<1> QED
  BY <1>1, <1>2, <1>3 DEF Init, WaitInv, Queued

LEMMA Sent ==
    ASSUME NEW S, NEW q \in Seq(S), NEW c \in S
    PROVE  SendSched(q, c) \in Seq(S)
BY DEF SendSched

\* The jobs of a list are requests for its revisions.
LEMMA RequestAllWait ==
    ASSUME WaitInv, UNCHANGED <<file, bookGen>>, snap' \in [Books -> Nat], gen' \in Nat,
           force' \in [Images -> BOOLEAN], \A b \in Books : snap'[b] <= file[b],
           NEW q \in Seq(Orders), RequestAll(q)
    PROVE  schedQ' \in Seq(Orders)
<1> DEFINE Job(b) == [b |-> b, rev |-> snap'[b], force |-> b \in Images /\ force'[b],
                      gen |-> gen', bookGen |-> bookGen[b], origin |-> "background"]
<1>1. ASSUME NEW b \in Books PROVE Job(b) \in Requests(Books, {"background"})
  BY DEF WaitInv, Types, Requests, Wanted, Had
<1>2. PICK js \in SUBSET {Job(b) : b \in Books} : schedQ' = SendSched(q, Cmd("Replace", {}, js))
  <2> HIDE DEF Job
  <2>1. entries \subseteq Books
    BY DEF WaitInv, Types
  <2> USE DEF Job
  <2> QED
    BY <2>1 DEF RequestAll
<1> HIDE DEF Job
<1>3. Cmd("Replace", {}, js) \in Orders
  BY <1>1, <1>2 DEF Cmd, Orders
<1> QED
  BY <1>2, <1>3, Sent

\* The library forgets its thumbnails.
LEMMA ForgetWait ==
    ASSUME WaitInv, ForgetThumbs, UNCHANGED <<entries, file, bookGen>>,
           snap' \in [Books -> Nat], gen' \in Nat, \A b \in Books : snap'[b] <= file[b]
    PROVE  Types' /\ InList'
BY DEF WaitInv, Types, InList, ForgetThumbs, None, NotAsked, UnknownSet

LEMMA ClearWorkerWait ==
    ASSUME WaitInv, UNCHANGED <<file, bookGen>>, NEW videoCaches, ClearWorker(videoCaches)
    PROVE  /\ gen' \in Nat /\ mailbox' = {}
           /\ normalQ' \in Seq(NormalRequests) /\ videoQ' \in Seq(VideoRequests)
<1>1. [type |-> "Clear", task |-> NoTask] \in NormalRequests /\ NoTask \in VideoRequests
  BY DEF NormalRequests, VideoRequests
<1> HIDE DEF NormalRequests, VideoRequests
<1> QED
  BY <1>1 DEF WaitInv, Types, Queued, ClearWorker

LEMMA StartLoadWait == WaitInv /\ StartLoad => WaitInv'
<1> SUFFICES ASSUME WaitInv, StartLoad PROVE WaitInv'
  OBVIOUS
<1>1. UNCHANGED <<entries, file, snap, bookGen>> /\ ForgetThumbs /\ ClearWorker(FALSE)
  BY DEF StartLoad
<1>2. Cmd("Clear", {}, {}) \in Orders
  BY <1>1, ClearWorkerWait DEF Cmd, Orders
<1>3. schedQ' \in Seq(Orders)
  BY <1>2, Sent DEF StartLoad, WaitInv, Queued
<1>4. Types' /\ InList'
  BY <1>1, ClearWorkerWait, ForgetWait DEF WaitInv, Types, InList
<1>5. Queued'
  BY <1>1, <1>3, Same, ClearWorkerWait DEF StartLoad, WaitInv, Queued
<1> QED
  BY <1>4, <1>5 DEF WaitInv

LEMMA LoadDoneWait == WaitInv /\ LoadDone => WaitInv'
<1> SUFFICES ASSUME WaitInv, LoadDone PROVE WaitInv'
  OBVIOUS
<1>1. UNCHANGED <<entries, file, bookGen>> /\ gen' = gen /\ snap' = file /\ ForgetThumbs
  BY DEF LoadDone
<1>2. snap' \in [Books -> Nat] /\ gen' \in Nat /\ \A b \in Books : snap'[b] <= file[b]
  BY <1>1 DEF WaitInv, Types
<1>3. Types' /\ InList'
  BY <1>1, <1>2, ForgetWait
<1>4. schedQ' \in Seq(Orders)
  BY <1>1, <1>2, <1>3, RequestAllWait DEF LoadDone, WaitInv, Queued, Types
<1>5. Queued'
  BY <1>1, <1>4, Same DEF LoadDone, WaitInv, Queued, workVars
<1> QED
  BY <1>3, <1>5 DEF WaitInv

LEMMA ClearCachesWait == WaitInv /\ ClearCaches => WaitInv'
<1> SUFFICES ASSUME WaitInv, ClearCaches PROVE WaitInv'
  OBVIOUS
<1>1. UNCHANGED <<entries, file, snap, bookGen>> /\ ForgetThumbs /\ ClearWorker(TRUE)
  BY DEF ClearCaches
<1>2. Types' /\ InList'
  BY <1>1, ClearWorkerWait, ForgetWait DEF WaitInv, Types, InList
<1>3. SendSched(schedQ, Cmd("Clear", {}, {})) \in Seq(Orders)
  <2>1. Cmd("Clear", {}, {}) \in Orders
    BY <1>1, ClearWorkerWait DEF Cmd, Orders
  <2> QED
    BY <2>1, Sent DEF WaitInv, Queued
<1>4. schedQ' \in Seq(Orders)
  BY <1>1, <1>2, <1>3, RequestAllWait DEF ClearCaches, WaitInv, Types, InList
<1>5. Queued'
  BY <1>1, <1>4, Same, ClearWorkerWait DEF ClearCaches, WaitInv, Queued
<1> QED
  BY <1>2, <1>5 DEF WaitInv

LEMMA ScanWait == WaitInv /\ Scan => WaitInv'
<1> SUFFICES ASSUME WaitInv, Scan PROVE WaitInv'
  OBVIOUS
<1>1. UNCHANGED <<entries, file, bookGen, gen>>
  BY DEF Scan
<1>2. PICK s \in [Books -> Counts] :
        LET changed == {b \in Books : s[b] # snap[b]}
        IN /\ \A b \in Books : s[b] \in snap[b]..file[b]
           /\ snap' = s
           /\ texture' = [b \in Books |-> IF b \in changed THEN None ELSE texture[b]]
           /\ failed' = [b \in Books |-> b \notin changed /\ failed[b]]
           /\ force' = [i \in Images |-> i \in changed \/ force[i]]
           /\ asked' = [v \in Videos |-> IF v \in changed THEN NotAsked ELSE asked[v]]
  BY Zenon DEF Scan
<1>3. snap' \in [Books -> Nat] /\ \A b \in Books : snap'[b] <= file[b]
  <2>1. \A b \in Books : s[b] \in Nat /\ s[b] <= file[b]
    BY <1>2 DEF WaitInv, Types
  <2> QED
    BY <1>2, <2>1
<1>4. Types' /\ InList'
  <2>1. lastSet' = UnknownSet
    BY DEF Scan
  <2> QED
    BY <1>1, <1>2, <1>3, <2>1
    DEF WaitInv, Types, InList, UnknownSet, None, NotAsked, Books
<1>5. schedQ' \in Seq(Orders)
  BY <1>1, <1>3, <1>4, RequestAllWait DEF Scan, WaitInv, Queued, Types
<1>6. Queued'
  BY <1>1, <1>5, Same DEF Scan, WaitInv, Queued, workVars
<1> QED
  BY <1>4, <1>6 DEF WaitInv

\* What a frame asks for: the videos it shows without a thumbnail, each once.
Unasked(v) == {x \in v \cap Videos : texture[x] = None /\ ~failed[x] /\ asked[x] = NotAsked}
Sending(v) == {Task(x, snap[x], FALSE, "video") : x \in Unasked(v)}

LEMMA VideosAsked ==
    ASSUME WaitInv, NEW v \in SUBSET entries, NEW order \in SetToSeqs(Sending(v))
    PROVE  /\ order \in Seq(Requests(Videos, {"video"}))
           /\ \A x \in Unasked(v) : \E n \in DOMAIN order :
                order[n] = Task(x, snap[x], FALSE, "video")
<1> DEFINE f == [x \in Unasked(v) |-> Task(x, snap[x], FALSE, "video")]
<1>1. IsFiniteSet(Unasked(v))
  BY FS_Subset DEF WaitInv, Types, Unasked
<1>2. f \in Surjection(Unasked(v), Sending(v))
  BY DEF Surjection, Sending
<1>3. IsFiniteSet(Sending(v))
  BY <1>1, <1>2, FS_Surjection
<1>4. Sending(v) \subseteq Requests(Videos, {"video"})
  <2> SUFFICES ASSUME NEW x \in Unasked(v)
               PROVE  Task(x, snap[x], FALSE, "video") \in Requests(Videos, {"video"})
    BY DEF Sending
  <2>1. x \in Books /\ x \in Videos /\ snap[x] <= file[x]
    BY DEF WaitInv, Types, InList, Books, Unasked
  <2> QED
    BY <2>1 DEF WaitInv, Types, Task, Requests, Wanted, Had
<1> HIDE DEF f
<1>5. order \in Seq(Sending(v)) /\ \A s \in Sending(v) : \E n \in DOMAIN order : order[n] = s
  BY <1>3, Ordering
<1>6. order \in Seq(Requests(Videos, {"video"}))
  BY <1>4, <1>5
<1> QED
  BY <1>5, <1>6 DEF Sending

LEMMA FrameWait == WaitInv /\ Frame => WaitInv'
<1> SUFFICES ASSUME WaitInv, Frame PROVE WaitInv'
  OBVIOUS
<1>1. UNCHANGED <<entries, file, snap, failed, force, gen, bookGen, normalQ, held, videoBg,
                  flights, results, jobs>>
  BY DEF Frame
<1>2. PICK v, evicted : v \in SUBSET entries /\ ShowFrame(v, evicted)
  BY DEF Frame
<1> DEFINE bare == {i \in v \cap Images : texture[i] = None /\ ~failed[i]}
<1>3. /\ texture' = [b \in Books |-> IF b \in evicted THEN None ELSE texture[b]]
      /\ asked' = [x \in Videos |-> IF x \in Unasked(v) THEN [rev |-> snap[x], gen |-> gen]
                                                  ELSE asked[x]]
      /\ lastSet' = [known |-> TRUE, keys |-> {DisplayKey(i, force[i]) : i \in bare}]
      /\ mailbox' = mailbox \/ mailbox' = {Task(i, snap[i], force[i], "display") : i \in bare}
      /\ \E order \in SetToSeqs(Sending(v)) : videoQ' = videoQ \o order
      /\ schedQ' = SendSched(schedQ, [type |-> "SetVisible", ids |-> v, jobs |-> {}, gen |-> 0])
  BY <1>2, Zenon DEF ShowFrame, Unasked, Sending
<1>4. Types'
  <2>1. \A i \in bare : DisplayKey(i, force[i]) \in Images \X Nat \X BOOLEAN
    BY DEF WaitInv, Types, DisplayKey, Books
  <2>2. lastSet' \in [known : BOOLEAN, keys : SUBSET (Images \X Nat \X BOOLEAN)]
    BY <1>3, <2>1
  <2> QED
    BY <1>1, <1>3, <2>2 DEF WaitInv, Types, Books
<1>5. InList'
  BY <1>1, <1>3 DEF WaitInv, InList
<1>6. mailbox' \subseteq Requests(Images, {"display"})
  <2>1. ASSUME NEW i \in bare
        PROVE  Task(i, snap[i], force[i], "display") \in Requests(Images, {"display"})
    <3>1. i \in Books /\ i \in Images /\ snap[i] <= file[i]
      BY DEF WaitInv, InList, Books
    <3> QED
      BY <3>1 DEF WaitInv, Types, Task, Requests, Wanted, Had
  <2> QED
    BY <1>3, <2>1 DEF WaitInv, Queued
<1>7. videoQ' \in Seq(VideoRequests)
  <2>1. PICK order \in SetToSeqs(Sending(v)) : videoQ' = videoQ \o order
    BY <1>3
  <2>2. order \in Seq(Requests(Videos, {"video"}))
    BY <1>2, VideosAsked
  <2>3. order \in Seq(VideoRequests)
    BY <2>2 DEF VideoRequests
  <2> QED
    BY <2>1, <2>3 DEF WaitInv, Queued
<1>8. schedQ' \in Seq(Orders)
  <2>1. [type |-> "SetVisible", ids |-> v, jobs |-> {}, gen |-> 0] \in Orders
    BY <1>2 DEF WaitInv, Types, Orders
  <2> QED
    BY <1>3, <2>1, Sent DEF WaitInv, Queued
<1>9. Queued'
  BY <1>1, <1>6, <1>7, <1>8, Same DEF WaitInv, Queued
<1> QED
  BY <1>4, <1>5, <1>9 DEF WaitInv

LEMMA FileChangeWait == WaitInv /\ FileChange => WaitInv'
<1> SUFFICES ASSUME WaitInv, FileChange PROVE WaitInv'
  OBVIOUS
<1>1. UNCHANGED <<entries, uiVars, gen, bookGen, workVars, results, schedVars>>
  BY DEF FileChange
<1>2. file' \in [Books -> Nat] /\ \A b \in Books : file[b] <= file'[b]
  BY DEF FileChange, WaitInv, Types
<1>3. Types'
  BY <1>1, <1>2 DEF WaitInv, Types, uiVars
<1>4. InList'
  BY <1>1, <1>2 DEF WaitInv, Types, InList, uiVars
<1>5. Queued'
  <2>1. bookGen' \in [Books -> Nat] /\ \A b \in Books : bookGen[b] <= bookGen'[b]
    BY <1>1 DEF WaitInv, Types
  <2> QED
    BY <1>1, <1>2, <2>1, Later DEF WaitInv, Queued, workVars, schedVars
<1> QED
  BY <1>3, <1>4, <1>5 DEF WaitInv

LEMMA ClearBookWait == WaitInv /\ ClearBook => WaitInv'
<1> SUFFICES ASSUME WaitInv, NEW i \in Images \cap entries,
                    ClearBook!(i)
             PROVE  WaitInv'
  BY DEF ClearBook
<1>1. UNCHANGED <<entries, file, snap, asked, gen, held, videoQ, videoBg, flights, results,
                  schedVars>>
  OBVIOUS
<1>2. bookGen' \in [Books -> Nat] /\ \A b \in Books : bookGen[b] <= bookGen'[b]
  BY DEF WaitInv, Types
<1>3. Types'
  <2>1. lastSet' \in [known : BOOLEAN, keys : SUBSET (Images \X Nat \X BOOLEAN)]
    BY DEF WaitInv, Types
  <2> QED
    BY <1>1, <1>2, <2>1 DEF WaitInv, Types, None
<1>4. InList'
  BY <1>1 DEF WaitInv, InList
<1>5. normalQ' \in Seq(NormalRequests)
  <2>1. Task(i, 0, FALSE, "display") \in Requests(Images, {"display"})
    BY DEF WaitInv, Types, Task, Requests, Wanted, Had, Books
  <2>2. [type |-> "Remove", task |-> Task(i, 0, FALSE, "display")] \in NormalRequests
    BY <2>1 DEF NormalRequests
  <2> QED
    BY <2>2 DEF WaitInv, Queued
<1>6. Queued'
  BY <1>1, <1>2, <1>5, Later, SMTT(40) DEF WaitInv, Types, Queued, schedVars
<1> QED
  BY <1>3, <1>4, <1>6 DEF WaitInv

\* An answer changes what is shown, and the marks of what waited for it.
LEMMA PollWait == WaitInv /\ Poll => WaitInv'
<1> SUFFICES ASSUME WaitInv, Poll PROVE WaitInv'
  OBVIOUS
<1> DEFINE m == Head(results)
<1>1. /\ results # <<>> /\ results' = Tail(results)
      /\ UNCHANGED <<entries, file, snap, listed, force, visible, gen, bookGen, visibleIds,
                     workVars, schedVars>>
  BY DEF Poll
<1>2. m \in Answers /\ results' \in Seq(Answers)
  BY <1>1 DEF WaitInv, Queued
<1> HIDE DEF m
<1>3. m \in Said
  BY <1>2 DEF Answers
<1>4. Types' /\ InList'
  <2>1. CASE HandleReady(m)
    BY <1>1, <1>3, <2>1 DEF HandleReady, ShowReady, Said, WaitInv, Types, InList
  <2>2. CASE HandleFailed(m)
    <3>1. /\ asked' \in [Videos -> [rev : Nat \cup {None}, gen : Nat \cup {None}]]
          /\ \A v \in Videos : asked'[v] \in {asked[v], NotAsked}
      BY <2>2 DEF HandleFailed, WaitInv, Types, None, NotAsked
    <3>2. texture' \in [Books -> Nat \cup {None}] /\ failed' \in [Books -> BOOLEAN]
      BY <2>2 DEF HandleFailed, WaitInv, Types
    <3> QED
      BY <1>1, <2>2, <3>1, <3>2 DEF HandleFailed, WaitInv, Types, InList
  <2>3. CASE HandleDisplayStale(m)
    <3>1. lastSet' \in [known : BOOLEAN, keys : SUBSET (Images \X Nat \X BOOLEAN)]
      BY <2>3 DEF HandleDisplayStale, WaitInv, Types
    <3> QED
      BY <1>1, <2>3, <3>1 DEF HandleDisplayStale, WaitInv, Types, InList
  <2>4. CASE HandleVideoReady(m)
    <3>1. asked' \in [Videos -> [rev : Nat \cup {None}, gen : Nat \cup {None}]]
      BY <2>4 DEF HandleVideoReady, WaitInv, Types, None, NotAsked
    <3>2. texture' \in [Books -> Nat \cup {None}] /\ failed' \in [Books -> BOOLEAN]
      BY <1>3, <2>4 DEF HandleVideoReady, ShowReady, Said, WaitInv, Types
    <3> QED
      BY <1>1, <2>4, <3>1, <3>2 DEF HandleVideoReady, WaitInv, Types, InList
  <2>5. CASE HandleVideoStale(m)
    BY <1>1, <2>5 DEF HandleVideoStale, WaitInv, Types, InList, None, NotAsked
  <2> QED
    BY <2>1, <2>2, <2>3, <2>4, <2>5 DEF Poll, m
<1>5. Queued'
  BY <1>1, <1>2, Same DEF WaitInv, Queued, workVars, schedVars
<1> QED
  BY <1>4, <1>5 DEF WaitInv

\* The worker and the scheduler leave the list and the marks alone.
LEMMA BehindWait ==
    ASSUME WaitInv, UNCHANGED <<entries, file, uiVars, gen, bookGen>>
    PROVE  Types' /\ InList' /\ (Queued' <=>
             /\ mailbox' \subseteq Requests(Images, {"display"})
             /\ normalQ' \in Seq(NormalRequests)
             /\ held' \in Requests(Images, {"background"}) \cup {NoTask}
             /\ videoQ' \in Seq(VideoRequests)
             /\ videoBg' \in Seq(Requests(Videos, {"background"}))
             /\ flights' \subseteq Flights
             /\ results' \in Seq(Answers)
             /\ schedQ' \in Seq(Orders)
             /\ jobs' \subseteq Requests(Books, {"background"}))
<1>1. Types' /\ InList'
  BY DEF WaitInv, Types, InList, uiVars
<1> QED
  BY <1>1, Same DEF Queued

LEMMA BeginFlights ==
    ASSUME WaitInv,
           NEW t \in Requests(Images, {"display", "background"})
                       \cup Requests(Videos, {"video", "background"}),
           Begin(t)
    PROVE  flights' \subseteq Flights
<1>1. [task |-> t, registered |-> TRUE, stage |-> "new"] \in Flights
  BY DEF Flights
<1> QED
  BY <1>1 DEF Begin, WaitInv, Queued

LEMMA UnregisterFlights ==
    ASSUME WaitInv, NEW S, flights' = Unregister(S)
    PROVE  flights' \subseteq Flights
<1>1. \A f \in Flights : [f EXCEPT !.registered = FALSE] \in Flights
  BY DEF Flights
<1> QED
  BY <1>1 DEF Unregister, WaitInv, Queued

LEMMA Sources ==
    /\ Requests(Images, {"display"}) \subseteq Requests(Images, {"display", "background"})
    /\ Requests(Images, {"background"}) \subseteq Requests(Images, {"display", "background"})
    /\ Requests(Videos, {"video"}) \subseteq Requests(Videos, {"video", "background"})
    /\ Requests(Videos, {"background"}) \subseteq Requests(Videos, {"video", "background"})
BY DEF Requests

LEMMA NormalTakeWait == WaitInv /\ NormalTake => WaitInv'
<1> SUFFICES ASSUME WaitInv, NormalTake PROVE WaitInv'
  OBVIOUS
<1> DEFINE r == Head(normalQ)
<1>1. /\ normalQ # <<>> /\ normalQ' = Tail(normalQ)
      /\ UNCHANGED <<entries, file, uiVars, gen, bookGen, visibleIds, videoQ, videoBg, results,
                     schedVars>>
  BY DEF NormalTake
<1>2. r \in NormalRequests /\ normalQ' \in Seq(NormalRequests)
  BY <1>1 DEF WaitInv, Queued
<1> HIDE DEF r
<1>3. \/ /\ r.type = "Task" /\ r.task \in Requests(Images, {"background"})
         /\ held' \in {r.task, NoTask} /\ UNCHANGED <<mailbox, flights>>
      \/ mailbox' = {} /\ flights' = Unregister(Books) /\ UNCHANGED held
      \/ flights' = Unregister({r.task.b}) /\ UNCHANGED <<mailbox, held>>
  BY <1>2 DEF NormalTake, NormalRequests, r
<1>4. /\ mailbox' \subseteq Requests(Images, {"display"})
      /\ held' \in Requests(Images, {"background"}) \cup {NoTask}
      /\ flights' \subseteq Flights
  <2>1. flights' = flights \/ flights' \subseteq Flights
    BY <1>3, UnregisterFlights
  <2> QED
    BY <1>3, <2>1 DEF WaitInv, Queued
<1> QED
  BY <1>1, <1>2, <1>4, BehindWait DEF WaitInv, Queued, schedVars

LEMMA NormalBeginWait == WaitInv /\ NormalBegin => WaitInv'
<1> SUFFICES ASSUME WaitInv, NormalBegin PROVE WaitInv'
  OBVIOUS
<1>1. held \in Requests(Images, {"background"}) /\ Begin(held)
  BY DEF NormalBegin, WaitInv, Queued
<1>2. flights' \subseteq Flights
  BY <1>1, BeginFlights, Sources
<1> QED
  BY <1>2, BehindWait DEF NormalBegin, WaitInv, Queued, schedVars

LEMMA DisplayTakeWait == WaitInv /\ DisplayTake => WaitInv'
<1> SUFFICES ASSUME WaitInv, NEW t \in mailbox, mailbox' = mailbox \ {t},
                    Begin(t) \/ UNCHANGED flights,
                    UNCHANGED <<entries, file, uiVars, gen, bookGen, visibleIds, normalQ, held,
                                videoQ, videoBg, results, schedVars>>
             PROVE  WaitInv'
  BY DEF DisplayTake
<1>1. flights' \subseteq Flights
  BY BeginFlights, Sources DEF WaitInv, Queued
<1> QED
  BY <1>1, BehindWait DEF WaitInv, Queued, schedVars

\* A message of a request is an answer, if what it says of the source is so.
LEMMA NotifyAnswers ==
    ASSUME WaitInv, NEW t \in Wanted,
           NEW ty \in {"Ready", "Failed", "DisplayStale", "VideoReady", "VideoStale"},
           ty = "DisplayStale" => t.b \in Images /\ Outdated(t),
           ty \in {"VideoReady", "VideoStale"} => t.b \in Videos
    PROVE  /\ Append(results, Msg(t, ty)) \in Seq(Answers)
           /\ Notify(t, ty) => results' \in Seq(Answers)
<1>1. Msg(t, ty) \in Answers
  BY DEF Msg, Answers, Said, Wanted, Outdated
<1>2. Append(results, Msg(t, ty)) \in Seq(Answers)
  BY <1>1 DEF WaitInv, Queued
<1> QED
  BY <1>2 DEF Notify, WaitInv, Queued

LEMMA VideoTakeWait == WaitInv /\ VideoTake => WaitInv'
<1> SUFFICES ASSUME WaitInv, VideoTake PROVE WaitInv'
  OBVIOUS
<1> DEFINE t == IF videoQ # <<>> THEN Head(videoQ) ELSE Head(videoBg)
<1>1. /\ videoQ # <<>> \/ videoBg # <<>>
      /\ IF videoQ # <<>> THEN videoQ' = Tail(videoQ) /\ UNCHANGED videoBg
                          ELSE videoBg' = Tail(videoBg) /\ UNCHANGED videoQ
      /\ UNCHANGED <<entries, file, uiVars, gen, bookGen, visibleIds, mailbox, normalQ, held,
                     schedVars>>
      /\ \/ t = NoTask /\ flights' = Unregister(Videos) /\ UNCHANGED results
         \/ UNCHANGED <<flights, results>>
         \/ /\ t # NoTask /\ UNCHANGED flights
            /\ \E ty \in {"VideoStale", "VideoReady", "Failed"} : Notify(t, ty)
         \/ t # NoTask /\ Begin(t) /\ UNCHANGED results
  BY DEF VideoTake
<1>2. t \in Requests(Videos, {"video", "background"}) \cup {NoTask}
  BY <1>1, Sources DEF WaitInv, Queued, VideoRequests
<1>3. videoQ' \in Seq(VideoRequests) /\ videoBg' \in Seq(Requests(Videos, {"background"}))
  <2>1. videoQ \in Seq(VideoRequests) /\ videoBg \in Seq(Requests(Videos, {"background"}))
    BY DEF WaitInv, Queued
  <2>2. CASE videoQ # <<>>
    BY <1>1, <2>1, <2>2
  <2>3. CASE videoQ = <<>>
    BY <1>1, <2>1, <2>3
  <2> QED
    BY <2>2, <2>3
<1> HIDE DEF t
<1>4. flights' \subseteq Flights
  <2>1. flights \subseteq Flights
    BY DEF WaitInv, Queued
  <2> QED
    BY <1>1, <1>2, <2>1, BeginFlights, UnregisterFlights
<1>5. results' \in Seq(Answers)
  <2>1. results \in Seq(Answers)
    BY DEF WaitInv, Queued
  <2>2. t # NoTask => t \in Wanted /\ t.b \in Videos
    BY <1>2 DEF Requests
  <2> QED
    BY <1>1, <2>1, <2>2, NotifyAnswers
<1> QED
  BY <1>1, <1>3, <1>4, <1>5, BehindWait DEF WaitInv, Queued, schedVars

LEMMA DecodeWait == WaitInv /\ Decode => WaitInv'
<1> SUFFICES ASSUME WaitInv, Decode PROVE WaitInv'
  OBVIOUS
<1>1. flights' \subseteq Flights
  <2>1. PICK f \in flights :
          flights' = (flights \ {f}) \cup
            {[f EXCEPT !.stage = IF f.task.rev # file[f.task.b]
                                      \/ f.task.bookGen # bookGen[f.task.b]
                                 THEN "stale" ELSE "decoding"]}
    BY DEF Decode
  <2>2. f \in Flights /\ f.task \in Wanted /\ Had(f.task)
    BY DEF WaitInv, Queued, Flights, Requests
  <2>3. f.task.rev # file[f.task.b] \/ f.task.bookGen # bookGen[f.task.b] => Outdated(f.task)
    <3>1. /\ f.task.rev \in Nat /\ f.task.bookGen \in Nat
          /\ file[f.task.b] \in Nat /\ bookGen[f.task.b] \in Nat
      BY <2>2 DEF Wanted, WaitInv, Types
    <3> QED
      BY <2>2, <3>1 DEF Had, Outdated
  <2>4. [f EXCEPT !.stage = IF f.task.rev # file[f.task.b]
                                 \/ f.task.bookGen # bookGen[f.task.b]
                            THEN "stale" ELSE "decoding"] \in Flights
    BY <2>2, <2>3 DEF Flights
  <2> QED
    BY <2>1, <2>4 DEF WaitInv, Queued
<1> QED
  BY <1>1, BehindWait DEF Decode, WaitInv, Queued, schedVars

LEMMA FinishWait == WaitInv /\ Finish => WaitInv'
<1> SUFFICES ASSUME WaitInv, Finish PROVE WaitInv'
  OBVIOUS
<1>1. PICK f \in flights :
        /\ flights' = flights \ {f} /\ f.stage # "new"
        /\ \/ UNCHANGED results
           \/ f.task.b \in Images /\ FinishImage(f)
           \/ f.task.b \notin Images /\ FinishVideo(f)
  BY DEF Finish
<1>2. /\ f \in Flights /\ f.task \in Wanted /\ f.task.b \in Books
      /\ f.stage = "stale" => Outdated(f.task)
  BY DEF WaitInv, Queued, Flights, Requests, Wanted
<1>3. results' \in Seq(Answers)
  <2>1. results \in Seq(Answers)
    BY DEF WaitInv, Queued
  <2>2. CASE f.task.b \in Images /\ FinishImage(f)
    BY <1>2, <2>1, <2>2, NotifyAnswers DEF FinishImage
  <2>3. CASE f.task.b \notin Images /\ FinishVideo(f)
    BY <1>2, <2>1, <2>3, NotifyAnswers DEF FinishVideo, Books
  <2> QED
    BY <1>1, <2>1, <2>2, <2>3
<1> QED
  BY <1>1, <1>3, BehindWait DEF Finish, WaitInv, Queued, schedVars

LEMMA SchedulerWait == WaitInv /\ Scheduler => WaitInv'
<1> SUFFICES ASSUME WaitInv, Scheduler PROVE WaitInv'
  OBVIOUS
<1>1. CASE SchedReceive
  <2>1. schedQ # <<>> /\ schedQ' = Tail(schedQ)
    BY <1>1 DEF SchedReceive
  <2>2. Head(schedQ) \in Orders /\ schedQ' \in Seq(Orders)
    BY <2>1 DEF WaitInv, Queued
  <2>3. jobs' \subseteq Requests(Books, {"background"})
    BY <1>1, <2>2 DEF SchedReceive, Orders, WaitInv, Queued
  <2> QED
    BY <1>1, <2>2, <2>3, BehindWait DEF SchedReceive, WaitInv, Queued, workVars
<1>2. CASE SchedSend
  <2>1. CASE jobs' = {} /\ UNCHANGED <<normalQ, videoBg>>
    BY <1>2, <2>1, BehindWait DEF SchedSend, WaitInv, Queued
  <2>2. ASSUME NEW j \in jobs, jobs' = jobs \ {j},
               normalQ' = IF j.b \in Images \ visibleIds
                            THEN Append(normalQ, [type |-> "Task", task |-> j]) ELSE normalQ,
               videoBg' = IF j.b \in Videos \ visibleIds THEN Append(videoBg, j) ELSE videoBg
        PROVE  WaitInv'
    <3>1. /\ j.b \in Images => j \in Requests(Images, {"background"})
          /\ j.b \in Videos => j \in Requests(Videos, {"background"})
      BY DEF WaitInv, Queued, Requests
    <3>2. j.b \in Images => [type |-> "Task", task |-> j] \in NormalRequests
      BY <3>1 DEF NormalRequests
    <3>3. normalQ' \in Seq(NormalRequests)
      BY <2>2, <3>2 DEF WaitInv, Queued
    <3>4. videoBg' \in Seq(Requests(Videos, {"background"}))
      BY <2>2, <3>1 DEF WaitInv, Queued
    <3> QED
      BY <1>2, <2>2, <3>3, <3>4, BehindWait DEF SchedSend, WaitInv, Queued
  <2> QED
    BY <1>2, <2>1, <2>2 DEF SchedSend
<1> QED
  BY <1>1, <1>2 DEF Scheduler

LEMMA NextWait == WaitInv /\ [Next]_vars => WaitInv'
<1>1. WaitInv /\ UNCHANGED vars => WaitInv'
  BY BehindWait DEF WaitInv, Queued, vars, workVars, schedVars
<1> QED
  BY <1>1, FrameWait, FileChangeWait, ScanWait, StartLoadWait, LoadDoneWait, ClearCachesWait,
     ClearBookWait, PollWait, NormalTakeWait, NormalBeginWait, DisplayTakeWait, VideoTakeWait,
     DecodeWait, FinishWait, SchedulerWait
  DEF Next, Library, Worker

LEMMA WaitInvHolds == Spec => []WaitInv
BY InitWait, NextWait, PTL DEF Spec

\* Where an answer may be on its way.
InMail(b) == \E t \in mailbox : t.b = b /\ Current(t)
InQueue(b) == \E n \in DOMAIN videoQ : videoQ[n].b = b /\ Current(videoQ[n])
InFlight(b) == \E f \in flights : f.task.b = b /\ Current(f.task) /\ Seen(f.task)
Answer(b, m) ==
    /\ m.b = b /\ m.rev = snap[b] /\ m.bookGen = bookGen[b]
    /\ m.type \in {"VideoReady", "VideoStale"} => m.gen = gen
InResults(b) == \E n \in DOMAIN results : Answer(b, results[n])

LEMMA Ways == \A b : Coming(b) <=> InMail(b) \/ InQueue(b) \/ InFlight(b) \/ InResults(b)
BY DEF Coming, InMail, InQueue, InFlight, InResults, Answer

Named(b) == LateClear \/ Superseded(b) \/ Unseen(b)

\* What is on its way stays there: a task that runs for the screen is seen wherever
\* the grid has scrolled to.
LEMMA StaysComing ==
    ASSUME NEW b, ~Unseen(b), gen' = gen, snap'[b] = snap[b], bookGen'[b] = bookGen[b]
    PROVE  /\ (\A t \in mailbox : t.b = b => t \in mailbox') /\ InMail(b) => Coming(b)'
           /\ (\A n \in DOMAIN videoQ : n \in DOMAIN videoQ' /\ videoQ'[n] = videoQ[n])
                /\ InQueue(b) => Coming(b)'
           /\ (\A f \in flights : \E g \in flights' : g.task = f.task)
                /\ InFlight(b) => Coming(b)'
           /\ (\A n \in DOMAIN results : n \in DOMAIN results' /\ results'[n] = results[n])
                /\ InResults(b) => Coming(b)'
<1>1. (\A t \in mailbox : t.b = b => t \in mailbox') /\ InMail(b) => Coming(b)'
  BY DEF InMail, Coming, Current
<1>2. (\A n \in DOMAIN videoQ : n \in DOMAIN videoQ' /\ videoQ'[n] = videoQ[n])
        /\ InQueue(b) => Coming(b)'
  BY DEF InQueue, Coming, Current
<1>3. (\A f \in flights : \E g \in flights' : g.task = f.task) /\ InFlight(b) => Coming(b)'
  BY DEF InFlight, Coming, Current, Seen, Unseen
<1>4. (\A n \in DOMAIN results : n \in DOMAIN results' /\ results'[n] = results[n])
        /\ InResults(b) => Coming(b)'
  BY DEF InResults, Answer, Coming
<1> QED
  BY <1>1, <1>2, <1>3, <1>4

\* Nobody has looked at a new list, or at a list that has forgotten, yet.
LEMMA ForgetWaits ==
    ASSUME ForgetThumbs, NEW b \in Books
    PROVE  ~Pending(b)'
BY DEF ForgetThumbs, Pending, UnknownSet, Books

LEMMA ScanWaits ==
    ASSUME WaitInv, Scan, NEW b \in Books, ~Lost(b), ~Named(b), Pending(b)'
    PROVE  Coming(b)'
<1>1. b \in Videos
  BY DEF Scan, Pending, UnknownSet, Books
<1>2. PICK s \in [Books -> Counts] :
        LET changed == {c \in Books : s[c] # snap[c]}
        IN /\ snap' = s
           /\ texture' = [c \in Books |-> IF c \in changed THEN None ELSE texture[c]]
           /\ failed' = [c \in Books |-> c \notin changed /\ failed[c]]
           /\ asked' = [v \in Videos |-> IF v \in changed THEN NotAsked ELSE asked[v]]
  BY Zenon DEF Scan
<1>3. UNCHANGED <<file, listed, gen, bookGen, workVars, results>>
  BY DEF Scan
<1>4. b \notin Images
  BY <1>1, DisplayAssumption
<1>5. /\ snap'[b] = snap[b] /\ texture'[b] = texture[b]
      /\ asked'[b] = asked[b] /\ (failed'[b] <=> failed[b])
  <2>1. asked'[b] # NotAsked
    BY <1>4 DEF Pending
  <2>2. s[b] = snap[b]
    BY <1>1, <1>2, <2>1
  <2> QED
    BY <1>1, <1>2, <2>2
<1>6. Coming(b)
  BY <1>3, <1>4, <1>5 DEF Pending, Lost
<1> QED
  BY <1>3, <1>5, <1>6, StaysComing, Ways DEF Named, workVars

LEMMA FrameWaits ==
    ASSUME WaitInv, Frame, NEW b \in Books, ~Lost(b), ~Named(b), Pending(b)'
    PROVE  Coming(b)'
<1>1. UNCHANGED <<file, snap, listed, failed, force, gen, bookGen, flights, results>>
  BY DEF Frame
<1>2. PICK v, evicted : /\ v \in SUBSET entries /\ evicted \in SUBSET Images
                        /\ \A i \in evicted : i \notin v
                        /\ ShowFrame(v, evicted)
  BY DEF Frame
<1> DEFINE bare == {i \in v \cap Images : texture[i] = None /\ ~failed[i]}
<1>3. /\ texture' = [c \in Books |-> IF c \in evicted THEN None ELSE texture[c]]
      /\ asked' = [x \in Videos |-> IF x \in Unasked(v) THEN [rev |-> snap[x], gen |-> gen]
                                                  ELSE asked[x]]
      /\ lastSet' = [known |-> TRUE, keys |-> {DisplayKey(i, force[i]) : i \in bare}]
      /\ mailbox' = IF lastSet = lastSet' THEN mailbox
                    ELSE {Task(i, snap[i], force[i], "display") : i \in bare}
      /\ \E order \in SetToSeqs(Sending(v)) : videoQ' = videoQ \o order
  BY <1>2, Zenon DEF ShowFrame, Unasked, Sending
<1>4. PICK order \in SetToSeqs(Sending(v)) : videoQ' = videoQ \o order
  BY <1>3
<1>5. /\ order \in Seq(Requests(Videos, {"video"}))
      /\ \A x \in Unasked(v) : \E n \in DOMAIN order : order[n] = Task(x, snap[x], FALSE, "video")
  BY <1>2, VideosAsked
<1>6. videoQ \in Seq(VideoRequests)
  BY DEF WaitInv, Queued
<1>7. \A n \in DOMAIN videoQ : n \in DOMAIN videoQ' /\ videoQ'[n] = videoQ[n]
  BY <1>4, <1>5, <1>6
<1>8. CASE b \in Images
  <2>1. b \in bare
    <3>1. PICK i \in bare : DisplayKey(i, force[i]) = DisplayKey(b, force[b])'
      BY <1>3, <1>8 DEF Pending
    <3> QED
      BY <3>1 DEF DisplayKey
  <2>2. CASE lastSet = lastSet'
    <3>1. Coming(b)
      BY <1>1, <1>8, <2>1, <2>2 DEF Pending, Lost, DisplayKey
    <3>2. mailbox' = mailbox
      BY <1>3, <2>2
    <3> QED
      BY <1>1, <1>7, <3>1, <3>2, StaysComing, Ways DEF Named
  <2>3. CASE lastSet # lastSet'
    <3>1. Task(b, snap[b], force[b], "display") \in mailbox'
      BY <1>3, <2>1, <2>3
    <3> QED
      BY <1>1, <3>1 DEF Task, Coming, Current
  <2> QED
    BY <2>2, <2>3
<1>9. CASE b \in Videos
  <2>1. b \notin Images
    BY <1>9, DisplayAssumption
  <2>2. CASE b \in Unasked(v)
    <3>1. PICK n \in DOMAIN order : order[n] = Task(b, snap[b], FALSE, "video")
      BY <1>5, <2>2
    <3>2. Len(videoQ) + n \in DOMAIN videoQ' /\ videoQ'[Len(videoQ) + n] = order[n]
      BY <1>4, <1>5, <1>6
    <3>3. order[n].b = b /\ Current(order[n])'
      BY <1>1, <3>1 DEF Task, Current
    <3> QED
      BY <3>2, <3>3 DEF Coming, Current
  <2>3. CASE b \notin Unasked(v)
    <3>1. texture'[b] = texture[b] /\ asked'[b] = asked[b]
      BY <1>2, <1>3, <1>9, <2>1, <2>3
    <3>2. Coming(b)
      BY <1>1, <2>1, <3>1 DEF Pending, Lost
    <3>3. ~InMail(b)
      BY <2>1 DEF InMail, WaitInv, Queued, Requests
    <3> QED
      BY <1>1, <1>7, <3>2, <3>3, StaysComing, Ways DEF Named
  <2> QED
    BY <2>2, <2>3
<1> QED
  BY <1>8, <1>9 DEF Books

LEMMA FileChangeWaits ==
    ASSUME WaitInv, FileChange, NEW b \in Books, ~Lost(b), ~Named(b), Pending(b)'
    PROVE  Coming(b)'
<1>1. UNCHANGED <<uiVars, gen, bookGen, visibleIds, workVars, results>>
  BY DEF FileChange
<1>2. file'[b] \in {file[b], file[b] + 1}
  BY DEF FileChange, WaitInv, Types
<1>3. snap'[b] = file'[b] /\ snap'[b] = snap[b]
  BY <1>1 DEF Pending, uiVars
<1>4. snap[b] <= file[b] /\ snap[b] \in Nat /\ file[b] \in Nat
  BY DEF WaitInv, Types, InList
<1>5. file[b] = snap[b]
  BY <1>2, <1>3, <1>4
<1>6. Coming(b)
  BY <1>1, <1>5 DEF Pending, Lost, uiVars, DisplayKey
<1> QED
  BY <1>1, <1>6, StaysComing, Ways DEF Named, uiVars, workVars

LEMMA ClearBookWaits ==
    ASSUME WaitInv, ClearBook, NEW b \in Books, ~Lost(b), ~Named(b), Pending(b)'
    PROVE  Coming(b)'
<1>1. PICK i \in Images \cap entries : ClearBook!(i)
  BY DEF ClearBook
<1>2. UNCHANGED <<file, snap, listed, asked, gen, visibleIds, videoQ, flights, results>>
  BY <1>1
<1>3. b # i
  <2> SUFFICES ASSUME b = i PROVE FALSE
    OBVIOUS
  <2>1. DisplayKey(i, force[i])' \in {k \in lastSet.keys : k[1] # i}
    BY <1>1 DEF Pending, WaitInv, Types
  <2> QED
    BY <2>1 DEF DisplayKey
<1>4. /\ texture'[b] = texture[b] /\ failed'[b] = failed[b] /\ bookGen'[b] = bookGen[b]
      /\ b \in Images => force'[b] = force[b]
  BY <1>1, <1>3 DEF WaitInv, Types
<1>5. lastSet'.known = lastSet.known /\ lastSet'.keys \subseteq lastSet.keys
  BY <1>1 DEF WaitInv, Types
<1>6. Coming(b)
  BY <1>2, <1>4, <1>5 DEF Pending, Lost, DisplayKey
<1>7. \A t \in mailbox : t.b = b => t \in mailbox'
  BY <1>1, <1>3
<1> QED
  BY <1>2, <1>4, <1>6, <1>7, StaysComing, Ways DEF Named

\* What the grid believes of itself, apart from what it shows.
LEMMA SamePending ==
    ASSUME UNCHANGED <<file, uiVars>>, NEW b, Pending(b)'
    PROVE  Pending(b)
BY DEF Pending, uiVars, DisplayKey

\* The answer that came is used or was too old; every other is still coming.
LEMMA PollWaits ==
    ASSUME WaitInv, Poll, NEW b \in Books, ~Lost(b), ~Named(b), Pending(b)'
    PROVE  Coming(b)'
<1> DEFINE m == Head(results)
<1>1. /\ results # <<>> /\ results' = Tail(results) /\ m \in Answers
      /\ UNCHANGED <<file, snap, listed, force, gen, bookGen, visibleIds, workVars>>
  BY DEF Poll, WaitInv, Queued
<1>2. \/ m.type = "Ready" /\ HandleReady(m)
      \/ m.type = "Failed" /\ HandleFailed(m)
      \/ m.type = "DisplayStale" /\ HandleDisplayStale(m)
      \/ m.type = "VideoReady" /\ HandleVideoReady(m)
      \/ m.type = "VideoStale" /\ HandleVideoStale(m)
  BY DEF Poll
<1>3. m = results[1] /\ \A n \in DOMAIN results : n # 1 =>
        n - 1 \in DOMAIN results' /\ results'[n - 1] = results[n]
  BY <1>1 DEF WaitInv, Queued
<1> HIDE DEF m
<1>4. m \in Said
  BY <1>1 DEF Answers
<1>5. Pending(b)
  <2>1. texture'[b] = None /\ ~failed'[b] /\ listed /\ snap[b] = file[b]
    BY <1>1 DEF Pending
  <2>2. texture[b] = None /\ ~failed[b]
    <3>1. CASE UNCHANGED <<texture, failed>>
      BY <2>1, <3>1
    <3>2. CASE ShowReady(m)
      BY <1>4, <2>1, <3>2 DEF ShowReady, Said, WaitInv, Types, None
    <3>3. CASE /\ texture' = [texture EXCEPT ![m.b] = None]
               /\ failed' = [failed EXCEPT ![m.b] = TRUE]
      BY <1>4, <2>1, <3>3 DEF Said, WaitInv, Types
    <3> QED
      BY <1>2, <3>1, <3>2, <3>3
      DEF HandleReady, HandleFailed, HandleDisplayStale, HandleVideoReady, HandleVideoStale
  <2>3. CASE b \in Images
    <3>1. lastSet'.known = lastSet.known /\ lastSet'.keys \subseteq lastSet.keys
      BY <1>2 DEF HandleReady, HandleFailed, HandleDisplayStale, HandleVideoReady,
                  HandleVideoStale, WaitInv, Types
    <3> QED
      BY <1>1, <2>1, <2>2, <2>3, <3>1 DEF Pending, DisplayKey
  <2>4. CASE b \notin Images
    <3>1. b \in Videos
      BY <2>4 DEF Books
    <3>2. asked'[b] \in {asked[b], NotAsked}
      BY <1>2, <3>1 DEF HandleReady, HandleFailed, HandleDisplayStale, HandleVideoReady,
                        HandleVideoStale, WaitInv, Types
    <3> QED
      BY <2>1, <2>2, <2>4, <3>2 DEF Pending
  <2> QED
    BY <2>3, <2>4
<1>6. ~Answer(b, m)
  <2> SUFFICES ASSUME Answer(b, m) PROVE FALSE
    OBVIOUS
  <2>1. /\ m.b = b /\ m.bookGen = bookGen[b] /\ SourceMatches(b, m.rev)
        /\ m.rev \in Nat /\ m.rev # None
    BY <1>4, <1>5 DEF Answer, Pending, SourceMatches, Said, None
  <2>2. CASE m.type = "Ready" /\ HandleReady(m)
    BY <2>1, <2>2 DEF HandleReady, ShowReady, Pending, WaitInv, Types
  <2>3. CASE m.type = "Failed" /\ HandleFailed(m)
    BY <2>1, <2>3 DEF HandleFailed, Pending, WaitInv, Types
  <2>4. CASE m.type = "DisplayStale"
    BY <1>1, <2>1, <2>4 DEF Answers, Outdated, SourceMatches, WaitInv, Types
  <2>5. CASE m.type \in {"VideoReady", "VideoStale"}
    <3>1. b \in Videos /\ b \notin Images
      BY <1>1, <2>1, <2>5, DisplayAssumption DEF Answers
    <3>2. Answered(m)
      BY <1>5, <2>1, <2>5, <3>1 DEF Answered, Answer, Pending, WaitInv, InList
    <3>3. asked' = [asked EXCEPT ![b] = NotAsked]
      BY <1>2, <2>1, <2>5, <3>2 DEF HandleVideoReady, HandleVideoStale
    <3> QED
      BY <3>1, <3>3 DEF Pending, WaitInv, Types
  <2> QED
    BY <1>2, <2>2, <2>3, <2>4, <2>5
<1>7. InResults(b) => Coming(b)'
  <2> SUFFICES ASSUME NEW n \in DOMAIN results, Answer(b, results[n]) PROVE Coming(b)'
    BY DEF InResults
  <2>1. n - 1 \in DOMAIN results' /\ results'[n - 1] = results[n]
    BY <1>3, <1>6
  <2> QED
    BY <1>1, <2>1 DEF Answer, Coming
<1>8. Coming(b)
  BY <1>5 DEF Lost
<1> QED
  BY <1>1, <1>7, <1>8, StaysComing, Ways DEF Named, workVars

\* A request for which no task starts finds one under way for the same revision,
\* and unless that one is superseded or may end unseen its answer will do.
LEMMA BegunWaits ==
    ASSUME NEW b, NEW t, t.b = b, Current(t), t.origin # "background", ~Named(b), Begin(t),
           UNCHANGED <<snap, gen, bookGen>>
    PROVE  Coming(b)'
<1>1. CASE Running(t.b, t.rev)
  <2>1. PICK f \in flights : f.registered /\ f.task.b = b
    BY <1>1 DEF Running
  <2>2. Current(f.task) /\ f.task.origin # "background"
    BY <2>1 DEF Named, Superseded, Unseen
  <2>3. f \in flights'
    BY <1>1 DEF Begin
  <2> QED
    BY <2>1, <2>2, <2>3 DEF Coming, Current, Seen
<1>2. CASE ~Running(t.b, t.rev)
  <2>1. [task |-> t, registered |-> TRUE, stage |-> "new"] \in flights'
    BY <1>2 DEF Begin
  <2> QED
    BY <2>1 DEF Coming, Current, Seen
<1> QED
  BY <1>1, <1>2

\* Nothing a task does to the register ends another.
LEMMA TasksStay ==
    ASSUME WaitInv
    PROVE  /\ \A t : Begin(t) => \A f \in flights : \E g \in flights' : g.task = f.task
           /\ \A S : flights' = Unregister(S) =>
                \A f \in flights : \E g \in flights' : g.task = f.task
<1>1. ASSUME NEW t, Begin(t), NEW f \in flights PROVE \E g \in flights' : g.task = f.task
  BY <1>1 DEF Begin
<1>2. ASSUME NEW S, flights' = Unregister(S), NEW f \in flights
      PROVE  \E g \in flights' : g.task = f.task
  <2> DEFINE g == IF f.task.b \in S THEN [f EXCEPT !.registered = FALSE] ELSE f
  <2>1. g \in flights' /\ g.task = f.task
    BY <1>2 DEF Unregister, WaitInv, Queued, Flights
  <2> QED
    BY <2>1
<1> QED
  BY <1>1, <1>2

LEMMA NormalTakeWaits ==
    ASSUME WaitInv, NormalTake, NEW b \in Books, ~Lost(b), ~Named(b), Pending(b)'
    PROVE  Coming(b)'
<1>1. /\ UNCHANGED <<file, uiVars, gen, bookGen, visibleIds, videoQ, results>>
      /\ normalQ # <<>>
  BY DEF NormalTake
<1>2. Coming(b)
  BY <1>1, SamePending DEF Lost
<1>3. 1 \in DOMAIN normalQ /\ Head(normalQ) = normalQ[1] /\ Head(normalQ) \in NormalRequests
  BY <1>1 DEF WaitInv, Queued
<1>4. Head(normalQ).type # "Clear"
  BY <1>3 DEF Named, LateClear
<1>5. mailbox' = mailbox /\ (flights' = flights \/ \E S : flights' = Unregister(S))
  BY <1>3, <1>4 DEF NormalTake, NormalRequests
<1>6. \A f \in flights : \E g \in flights' : g.task = f.task
  BY <1>5, TasksStay
<1> QED
  BY <1>1, <1>2, <1>5, <1>6, StaysComing, Ways DEF Named, uiVars

LEMMA NormalBeginWaits ==
    ASSUME WaitInv, NormalBegin, NEW b \in Books, ~Lost(b), ~Named(b), Pending(b)'
    PROVE  Coming(b)'
<1>1. UNCHANGED <<file, uiVars, gen, bookGen, visibleIds, mailbox, videoQ, results>>
  BY DEF NormalBegin
<1>2. Coming(b)
  BY <1>1, SamePending DEF Lost
<1>3. \A f \in flights : \E g \in flights' : g.task = f.task
  BY TasksStay DEF NormalBegin
<1> QED
  BY <1>1, <1>2, <1>3, StaysComing, Ways DEF Named, uiVars

LEMMA DisplayTakeWaits ==
    ASSUME WaitInv, DisplayTake, NEW b \in Books, ~Lost(b), ~Named(b), Pending(b)'
    PROVE  Coming(b)'
<1>1. PICK t \in mailbox : /\ mailbox' = mailbox \ {t}
                           /\ IF t.gen = gen THEN Begin(t) ELSE UNCHANGED flights
  BY DEF DisplayTake
<1>2. UNCHANGED <<file, uiVars, gen, bookGen, visibleIds, videoQ, results>>
  BY DEF DisplayTake
<1>3. Coming(b)
  BY <1>2, SamePending DEF Lost
<1>4. \A f \in flights : \E g \in flights' : g.task = f.task
  BY <1>1, TasksStay
<1>5. CASE t.b = b /\ Current(t)
  <2>1. t.origin # "background" /\ Begin(t)
    BY <1>1, <1>5 DEF WaitInv, Queued, Requests, Current
  <2> QED
    BY <1>2, <1>5, <2>1, BegunWaits DEF uiVars
<1>6. CASE ~(t.b = b /\ Current(t))
  <2>1. InMail(b) => Coming(b)'
    BY <1>1, <1>2, <1>6 DEF InMail, Coming, Current, uiVars
  <2> QED
    BY <1>2, <1>3, <1>4, <2>1, StaysComing, Ways DEF Named, uiVars
<1> QED
  BY <1>5, <1>6

\* A message of a current request is an answer to it.
LEMMA NotifyWaits ==
    ASSUME WaitInv, NEW t, NEW b, t.b = b, Current(t), UNCHANGED <<snap, gen, bookGen>>,
           NEW ty, results' = Append(results, Msg(t, ty))
    PROVE  Coming(b)'
<1>1. results \in Seq(Answers)
  BY DEF WaitInv, Queued
<1>2. Len(results) + 1 \in DOMAIN results' /\ results'[Len(results) + 1] = Msg(t, ty)
  BY <1>1
<1>3. /\ Msg(t, ty).b = b /\ Msg(t, ty).rev = snap[b] /\ Msg(t, ty).bookGen = bookGen[b]
      /\ Msg(t, ty).gen = gen
  BY DEF Msg, Current
<1> QED
  BY <1>2, <1>3 DEF Coming

LEMMA ResultsStay ==
    ASSUME WaitInv, NEW m, results' \in {results, Append(results, m)}
    PROVE  \A n \in DOMAIN results : n \in DOMAIN results' /\ results'[n] = results[n]
<1>1. results \in Seq(Answers)
  BY DEF WaitInv, Queued
<1> QED
  BY <1>1

LEMMA VideoTakeWaits ==
    ASSUME WaitInv, VideoTake, NEW b \in Books, ~Lost(b), ~Named(b), Pending(b)'
    PROVE  Coming(b)'
<1> DEFINE t == IF videoQ # <<>> THEN Head(videoQ) ELSE Head(videoBg)
<1>1. /\ IF videoQ # <<>> THEN videoQ' = Tail(videoQ) ELSE UNCHANGED videoQ
      /\ UNCHANGED <<file, uiVars, gen, bookGen, visibleIds, mailbox>>
      /\ \/ t = NoTask /\ flights' = Unregister(Videos) /\ UNCHANGED results
         \/ t # NoTask /\ t.gen # gen /\ UNCHANGED <<flights, results>>
         \/ t # NoTask /\ UNCHANGED flights /\ \E ty : Notify(t, ty)
         \/ t # NoTask /\ Begin(t) /\ UNCHANGED results
  BY DEF VideoTake
<1>2. Coming(b)
  BY <1>1, SamePending DEF Lost
<1>3. videoQ \in Seq(VideoRequests)
  BY DEF WaitInv, Queued
<1>4. videoQ # <<>> => t = videoQ[1] /\ \A n \in DOMAIN videoQ : n # 1 =>
        n - 1 \in DOMAIN videoQ' /\ videoQ'[n - 1] = videoQ[n]
  BY <1>1, <1>3
<1>5. videoQ # <<>> => t = NoTask \/ t.origin = "video"
  BY <1>3 DEF VideoRequests, Requests
<1> HIDE DEF t
<1>6. \A f \in flights : \E g \in flights' : g.task = f.task
  BY <1>1, TasksStay
<1>7. \A n \in DOMAIN results : n \in DOMAIN results' /\ results'[n] = results[n]
  BY <1>1, ResultsStay DEF Notify
<1>8. ASSUME videoQ # <<>>, t.b = b, Current(t) PROVE Coming(b)'
  <2>1. t # NoTask /\ t.gen = gen
    BY <1>8 DEF Current, NoTask, WaitInv, Types, None
  <2>2. t.origin = "video" /\ Seen(t)
    BY <1>5, <1>8, <2>1 DEF Seen
  <2> QED
    BY <1>1, <1>8, <2>1, <2>2, BegunWaits, NotifyWaits DEF Notify, uiVars
<1>9. InQueue(b) => Coming(b)'
  <2> SUFFICES ASSUME NEW n \in DOMAIN videoQ, videoQ[n].b = b, Current(videoQ[n])
               PROVE  Coming(b)'
    BY DEF InQueue
  <2>1. videoQ # <<>>
    BY <1>3
  <2>2. CASE n = 1
    BY <1>4, <1>8, <2>1, <2>2
  <2>3. CASE n # 1
    <3>1. n - 1 \in DOMAIN videoQ' /\ videoQ'[n - 1] = videoQ[n]
      BY <1>4, <2>1, <2>3
    <3> QED
      BY <1>1, <3>1 DEF Coming, Current, uiVars
  <2> QED
    BY <2>2, <2>3
<1> QED
  BY <1>1, <1>2, <1>6, <1>7, <1>9, StaysComing, Ways DEF Named, uiVars

LEMMA DecodeWaits ==
    ASSUME WaitInv, Decode, NEW b \in Books, ~Lost(b), ~Named(b), Pending(b)'
    PROVE  Coming(b)'
<1>1. UNCHANGED <<file, uiVars, gen, bookGen, visibleIds, mailbox, videoQ, results>>
  BY DEF Decode
<1>2. Coming(b)
  BY <1>1, SamePending DEF Lost
<1>3. \A f \in flights : \E g \in flights' : g.task = f.task
  <2>1. PICK f, s : f \in flights /\ flights' = (flights \ {f}) \cup {[f EXCEPT !.stage = s]}
    BY DEF Decode
  <2>2. [f EXCEPT !.stage = s].task = f.task
    BY DEF WaitInv, Queued, Flights
  <2> QED
    BY <2>1, <2>2
<1> QED
  BY <1>1, <1>2, <1>3, StaysComing, Ways DEF Named, uiVars

\* A task that ends says so to who waits for it.
LEMMA FinishWaits ==
    ASSUME WaitInv, Finish, NEW b \in Books, ~Lost(b), ~Named(b), Pending(b)'
    PROVE  Coming(b)'
<1>1. UNCHANGED <<file, uiVars, gen, bookGen, visibleIds, mailbox, videoQ>>
  BY DEF Finish
<1>2. Pending(b) /\ Coming(b)
  BY <1>1, SamePending DEF Lost
<1>3. PICK f \in flights :
        /\ flights' = flights \ {f} /\ f.stage # "new"
        /\ IF f.task.gen # gen \/ f.task.bookGen # bookGen[f.task.b]
             THEN UNCHANGED results
           ELSE IF f.task.b \in Images THEN FinishImage(f) ELSE FinishVideo(f)
  BY DEF Finish
<1>4. \A n \in DOMAIN results : n \in DOMAIN results' /\ results'[n] = results[n]
  <2>1. \E m : results' \in {results, Append(results, m)}
    BY <1>3 DEF FinishImage, FinishVideo, Notify
  <2> QED
    BY <2>1, ResultsStay
<1>5. ASSUME f.task.b = b, Current(f.task) PROVE Coming(b)'
  <2>1. /\ Seen(f.task) /\ f.task.rev = file[b]
        /\ f.task.gen = gen /\ f.task.bookGen = bookGen[f.task.b]
    BY <1>2, <1>5 DEF Seen, Named, Unseen, Pending, Current
  <2>2. \E ty : results' = Append(results, Msg(f.task, ty))
    <3>1. CASE b \in Images
      <4>1. f.task.origin = "display"
        BY <1>5, <3>1, DisplayAssumption
        DEF WaitInv, Queued, Flights, Requests, Named, Unseen
      <4> QED
        BY <1>3, <1>5, <2>1, <3>1, <4>1 DEF FinishImage, Notify
    <3>2. CASE b \notin Images
      BY <1>3, <1>5, <2>1, <3>2 DEF FinishVideo, Notify
    <3> QED
      BY <3>1, <3>2
  <2> QED
    BY <1>1, <1>5, <2>2, NotifyWaits DEF uiVars
<1>6. InFlight(b) => Coming(b)'
  <2> SUFFICES ASSUME NEW g \in flights, g.task.b = b, Current(g.task), Seen(g.task)
               PROVE  Coming(b)'
    BY DEF InFlight
  <2>1. CASE g = f
    BY <1>5, <2>1
  <2>2. CASE g # f
    BY <1>1, <1>3, <2>2 DEF Coming, Current, Seen, uiVars
  <2> QED
    BY <2>1, <2>2
<1> QED
  BY <1>1, <1>2, <1>4, <1>6, StaysComing, Ways DEF Named, uiVars

LEMMA SchedulerWaits ==
    ASSUME WaitInv, Scheduler, NEW b \in Books, ~Lost(b), ~Named(b), Pending(b)'
    PROVE  Coming(b)'
<1>1. UNCHANGED <<file, uiVars, gen, bookGen, mailbox, videoQ, flights, results>>
  BY DEF Scheduler, SchedReceive, SchedSend, workVars
<1>2. Coming(b)
  BY <1>1, SamePending DEF Lost
<1> QED
  BY <1>1, <1>2, StaysComing, Ways DEF Named, uiVars

\* The thumbnail the grid waits for is asked for, made or on its way back, and stops
\* being so in the named ways only (display_worker_loop, video_worker_loop,
\* handle_thumb_result, background_artifact_is_visible).
THEOREM LossesNamed == Spec => OnlyNamedLosses
<1>1. ASSUME WaitInv, [Next]_vars, NEW b \in Books, Lost(b)'
      PROVE  Lost(b) \/ LateClear \/ Superseded(b) \/ Unseen(b)
  <2> SUFFICES ASSUME ~Lost(b), ~Named(b) PROVE FALSE
    BY DEF Named
  <2>1. Pending(b)' /\ ~Coming(b)'
    BY <1>1 DEF Lost
  <2>2. CASE StartLoad \/ LoadDone \/ ClearCaches
    BY <2>1, <2>2, ForgetWaits DEF StartLoad, LoadDone, ClearCaches
  <2>3. CASE UNCHANGED vars
    BY <1>1, <2>3 DEF vars, uiVars, workVars, Lost, Pending, Coming, Current, Seen, DisplayKey
  <2> QED
    BY <1>1, <2>1, <2>2, <2>3, FrameWaits, ScanWaits, FileChangeWaits, ClearBookWaits, PollWaits,
       NormalTakeWaits, NormalBeginWaits, DisplayTakeWaits, VideoTakeWaits, DecodeWaits,
       FinishWaits, SchedulerWaits
    DEF Next, Library, Worker
<1>2. WaitInv /\ [Next]_vars =>
        [\A b \in Books : Lost(b)' => Lost(b) \/ LateClear \/ Superseded(b) \/ Unseen(b)]_vars
  BY <1>1
<1> QED
  BY <1>2, WaitInvHolds, PTL DEF Spec, OnlyNamedLosses

-----------------------------------------------------------------------------
(***************************************************************************)
(* The list: what keeps it like the folder loses no change                 *)
(* (StaleListNoticed), and a periodic scan leaves the selection on the     *)
(* books it was on (SelectionSurvivesScan).                                *)
(*                                                                         *)
(* LookInv says what the first rests on: a thread reads the folder on      *)
(* screen, so what it has read is stale only by a change since, which the  *)
(* alarm has seen; and a report that came too early waits for its reload.  *)
(* The second needs no more than that the selection is a record (SelInv)   *)
(* and that the sorted list of a finite set is a sequence, whose positions *)
(* begin at 1 (SortedExists): 0 stands for no position.                    *)
(*                                                                         *)
(* What goes by recursion or by the size of a set is proved from a least   *)
(* counterexample (LeastNat): the sorted list of a set, and the deletions  *)
(* of CommitDelete one after another.                                      *)
(***************************************************************************)
JobShape(j) == j = [state |-> j.state, dir |-> j.dir, seen |-> j.seen, manual |-> j.manual]

\* What the list's state is made of, as far as looks and alarms need it.
LookTyped ==
    /\ disk = [f \in Files |-> disk[f]]
    /\ JobShape(load) /\ JobShape(scan)
    /\ watch \in [state : {"none", "on", "failed"}, current : BOOLEAN, news : BOOLEAN]
    /\ missed \in BOOLEAN /\ dirty \in BOOLEAN

\* A thread reads the folder on screen, and a report that waits for one is kept.
LookInv ==
    /\ LookTyped
    /\ load.state # "none" => load.dir = dir
    /\ scan.state # "none" => scan.dir = dir
    /\ owed => refresh
    /\ StaleListNoticed

lookVars == <<disk, dir, raw, jobVars, watchVars, missed, owed>>

LEMMA LookInit == ListInit => LookInv
<1> SUFFICES ASSUME ListInit PROVE LookInv
  OBVIOUS
<1>1. disk = [f \in Files |-> disk[f]]
  BY DEF ListInit
<1>2. LookTyped
  BY <1>1 DEF ListInit, LookTyped, JobShape, NoJob, Begun
<1>3. load.state = "begun" /\ load.dir = dir /\ scan.state = "none" /\ ~owed
  BY DEF ListInit, NoJob, Begun
<1> QED
  BY <1>2, <1>3 DEF LookInv, StaleListNoticed, Awaits

LEMMA LookKept == ASSUME LookInv, UNCHANGED lookVars PROVE LookInv'
BY DEF lookVars, jobVars, watchVars, LookInv, LookTyped, JobShape, StaleListNoticed, Alarm, Watched,
       Awaits, LookComes, Fresh, Listing

\* A load that begins looks at the folder it goes to.
LEMMA LookLoad ==
    ASSUME LookInv, NEW d, StartLoadDir(d), disk' = [f \in Files |-> disk'[f]]
    PROVE  LookInv'
BY DEF StartLoadDir, Rebind, watchVars, LookInv, LookTyped, JobShape, StaleListNoticed, Alarm,
       Watched, Awaits, LookComes, Begun, NoJob

LEMMA LookReload == ASSUME LookInv, ReloadCurrentDir PROVE LookInv'
BY DEF ReloadCurrentDir, ReloadDiff, LookBegins, listVars, watchVars, LookInv, LookTyped, JobShape,
       StaleListNoticed, Alarm, Watched, Awaits, LookComes, Begun, Fresh, Listing

\* What the parts of a step do to looks and alarms; the lemmas follow the actions.
LEMMA ListingKept == ASSUME UNCHANGED <<disk, dir>> PROVE Listing(dir)' = Listing(dir)
BY DEF Listing

LEMMA LookLoadReads == ASSUME LookInv, LoadReads PROVE LookInv'
<1>1. UNCHANGED <<disk, dir, raw, scan, refresh, watch, dirty, missed, owed>>
  BY DEF LoadReads, listVars, watchVars
<1>2. /\ load'.state = "read" /\ load'.dir = dir /\ JobShape(load')
      /\ load'.seen \in {Listing(dir), Failed}
  BY DEF LoadReads, LookInv, LookTyped, JobShape
<1>3. Listing(dir)' = Listing(dir)
  BY <1>1, ListingKept
<1> QED
  BY <1>1, <1>2, <1>3
     DEF LookInv, LookTyped, JobShape, StaleListNoticed, Alarm, Watched, Awaits, LookComes, Fresh

LEMMA LookScanReads == ASSUME LookInv, ScanReads PROVE LookInv'
<1>1. UNCHANGED <<disk, dir, raw, load, refresh, watch, dirty, missed, owed>>
  BY DEF ScanReads, listVars, watchVars
<1>2. /\ scan'.state = "read" /\ scan'.dir = dir /\ JobShape(scan')
      /\ scan'.seen \in {Listing(dir), Failed}
  BY DEF ScanReads, LookInv, LookTyped, JobShape
<1>3. Listing(dir)' = Listing(dir)
  BY <1>1, ListingKept
<1> QED
  BY <1>1, <1>2, <1>3
     DEF LookInv, LookTyped, JobShape, StaleListNoticed, Alarm, Watched, Awaits, LookComes, Fresh

LEMMA LookPollAsyncLoad == ASSUME LookInv, PollAsyncLoad PROVE LookInv'
<1>1. UNCHANGED <<disk, dir, watch, dirty>> /\ load' = NoJob /\ load.state = "read"
  BY DEF PollAsyncLoad, watchVars
<1>2. Listing(dir)' = Listing(dir)
  BY <1>1, ListingKept
<1>3. load.seen # Failed => raw' = load.seen
  BY DEF PollAsyncLoad
<1>4. CASE RefreshNext(scan)
  <2>1. scan' = Begun(dir, TRUE) /\ missed' = FALSE /\ ~owed'
    BY <1>4 DEF PollAsyncLoad, ReloadDiff
  <2> QED
    BY <1>1, <2>1 DEF LookInv, LookTyped, JobShape, StaleListNoticed, Awaits, LookComes, Begun, NoJob
<1>5. CASE ~RefreshNext(scan)
  <2>1. missed' = (missed \/ load.seen = Failed) /\ UNCHANGED <<scan, refresh, owed>>
    BY <1>5 DEF PollAsyncLoad
  <2> QED
    BY <1>1, <1>2, <1>3, <2>1
       DEF LookInv, LookTyped, JobShape, StaleListNoticed, Alarm, Watched, Awaits, LookComes, Fresh, NoJob
<1> QED
  BY <1>4, <1>5

LEMMA LookApply == ASSUME LookInv, ApplyDirScanResult PROVE LookInv'
<1>1. UNCHANGED <<disk, dir, load, watch, dirty>> /\ scan.state = "read" /\ scan.dir = dir
  BY DEF ApplyDirScanResult, watchVars, LookInv
<1>2. Listing(dir)' = Listing(dir)
  BY <1>1, ListingKept
<1>3. scan.seen # Failed => raw' = scan.seen
  BY <1>1 DEF ApplyDirScanResult
<1>4. CASE RefreshNext(load)
  <2>1. scan' = Begun(dir, TRUE) /\ missed' = FALSE /\ ~owed' /\ load.state = "none"
    BY <1>4 DEF ApplyDirScanResult, ReloadDiff, RefreshNext
  <2> QED
    BY <1>1, <2>1 DEF LookInv, LookTyped, JobShape, StaleListNoticed, Awaits, LookComes, Begun
<1>5. CASE ~RefreshNext(load)
  <2>1. missed' = (missed \/ scan.seen = Failed) /\ scan' = NoJob /\ UNCHANGED <<refresh, owed>>
    BY <1>5 DEF ApplyDirScanResult
  <2> QED
    BY <1>1, <1>2, <1>3, <2>1
       DEF LookInv, LookTyped, JobShape, StaleListNoticed, Alarm, Watched, Awaits, LookComes, Fresh, NoJob
<1> QED
  BY <1>4, <1>5

LEMMA LookPollChanges == ASSUME LookInv, PollCurrentDirChanges PROVE LookInv'
BY DEF PollCurrentDirChanges, listVars, watchVars, LookInv, LookTyped, JobShape,
       StaleListNoticed, Alarm, Watched, Awaits, LookComes, Begun, Fresh, Listing

\* A book that is taken from the list is no longer there, or the alarm is raised.
LEMMA LookDrain == ASSUME LookInv, DrainDeleted PROVE LookInv'
<1> DEFINE f == Head(gone)[1]
<1>1. raw' = [g \in DOMAIN raw \ {f} |-> raw[g]]
  BY DEF DrainDeleted, Removed
<1>2. UNCHANGED <<disk, dir, jobVars, watchVars, owed>> /\ missed' = (missed \/ disk[f] # 0)
  BY DEF DrainDeleted
<1>3. ASSUME Fresh(raw), disk[f] = 0 PROVE raw' = raw
  BY <1>1, <1>3 DEF Fresh, Listing
<1> HIDE DEF f
<1> QED
  BY <1>2, <1>3, ZenonT(60) DEF jobVars, watchVars, LookInv, LookTyped, JobShape, StaleListNoticed, Alarm, Watched,
       Awaits, LookComes, Fresh, Listing

LEMMA LookRefresh == ASSUME LookInv, RefreshForSourceChanged PROVE LookInv'
<1>1. UNCHANGED <<disk, dir, raw, load, watch, dirty>>
  BY DEF RefreshForSourceChanged, listVars, watchVars
<1>2. Listing(dir)' = Listing(dir)
  BY <1>1, ListingKept
<1>3. CASE load.state = "none" /\ scan.state = "none"
  <2>1. scan'.state = "begun" /\ scan'.dir = dir /\ JobShape(scan')
    BY <1>3 DEF RefreshForSourceChanged, ReloadDiff, Begun, JobShape
  <2>2. missed' = FALSE /\ ~owed'
    BY <1>3 DEF RefreshForSourceChanged
  <2> QED
    BY <1>1, <1>3, <2>1, <2>2 DEF LookInv, LookTyped, JobShape, StaleListNoticed, Awaits, LookComes, Begun
<1>4. CASE ~(load.state = "none" /\ scan.state = "none")
  <2>1. refresh' /\ UNCHANGED <<scan, missed>>
    BY <1>4 DEF RefreshForSourceChanged
  <2> QED
    BY <1>1, <1>2, <1>4, <2>1
       DEF LookInv, LookTyped, JobShape, StaleListNoticed, Alarm, Watched, Awaits, LookComes, Fresh
<1> QED
  BY <1>3, <1>4

LEMMA LookWatch == ASSUME LookInv, WatchStarts \/ WatchNotifies \/ WatchFails PROVE LookInv'
<1>1. UNCHANGED <<disk, dir, raw, load, scan, refresh, missed, owed>>
  BY DEF WatchStarts, WatchNotifies, WatchFails, jobVars, listVars
<1>2. Listing(dir)' = Listing(dir)
  BY <1>1, ListingKept
<1>3. LookTyped'
  <2>1. disk' = [f \in Files |-> disk'[f]] /\ JobShape(load') /\ JobShape(scan') /\ missed' \in BOOLEAN
    BY <1>1 DEF LookInv, LookTyped
  <2>2. watch' \in [state : {"none", "on", "failed"}, current : BOOLEAN, news : BOOLEAN]
    <3> DEFINE W == [state : {"none", "on", "failed"}, current : BOOLEAN, news : BOOLEAN]
    <3>1. watch \in W
      BY DEF LookInv, LookTyped
    <3>2. [watch EXCEPT !.news = FALSE] \in W /\ [watch EXCEPT !.state = "failed", !.news = FALSE] \in W
      BY <3>1
    <3>3. /\ [state |-> "on", current |-> TRUE, news |-> FALSE] \in W
          /\ [state |-> "failed", current |-> TRUE, news |-> FALSE] \in W
      OBVIOUS
    <3> QED
      BY <3>2, <3>3 DEF WatchStarts, WatchNotifies, WatchFails
  <2>3. dirty' \in BOOLEAN
    BY DEF WatchStarts, WatchNotifies, WatchFails, MarkDirty, LookInv, LookTyped
  <2> QED
    BY <2>1, <2>2, <2>3 DEF LookTyped, JobShape
<1>4. Alarm => Alarm'
  BY <1>1 DEF WatchStarts, WatchNotifies, WatchFails, MarkDirty, LookInv, LookTyped, Alarm, Watched
<1> QED
  BY <1>1, <1>2, <1>3, <1>4 DEF LookInv, StaleListNoticed, Awaits, LookComes, Fresh

\* A change of the folder raises the alarm; one of another folder does not concern the list.
LEMMA LookChange ==
    ASSUME LookInv, NEW f \in Files, NEW x, disk' = [disk EXCEPT ![f] = x], Noticed(DirOf[f]),
           UNCHANGED <<dir, raw, jobVars, dirty, owed>>
    PROVE  LookInv'
<1>1. ASSUME DirOf[f] # dir PROVE Listing(dir)' = Listing(dir)
  BY <1>1 DEF LookInv, LookTyped, Listing
<1>2. CASE DirOf[f] # dir
  BY <1>1, <1>2 DEF Noticed, jobVars, LookInv, LookTyped, JobShape, StaleListNoticed, Alarm, Watched,
       Awaits, LookComes, Fresh
<1>3. CASE DirOf[f] = dir
  BY <1>3 DEF Noticed, jobVars, LookInv, LookTyped, JobShape, StaleListNoticed, Alarm, Watched, LookComes
<1> QED
  BY <1>2, <1>3

\* The user's own deletions are changes of the folder; without one nothing moves.
LEMMA LookDelete == ASSUME LookInv, CommitDelete PROVE LookInv'
<1> DEFINE After(n) ==
      CHOOSE g : g = [k \in 0 .. n |->
          IF k = 0 THEN [raw |-> raw, list |-> list, sel |-> sel]
          ELSE Removed(g[k - 1], Targets[k], 0)]
<1>1. PICK n \in 0 .. Len(Targets) :
        /\ disk' = [f \in Files |-> IF f \in {Targets[k] : k \in 1 .. n} THEN 0 ELSE disk[f]]
        /\ raw' = After(n)[n].raw
        /\ IF n = 0 THEN UNCHANGED <<watch, missed>> ELSE Noticed(dir)
  BY DEF CommitDelete
<1>2. UNCHANGED <<dir, jobVars, dirty, owed>>
  BY DEF CommitDelete
<1>3. CASE n = 0
  <2>1. raw' = raw
    <3> DEFINE base == [raw |-> raw, list |-> list, sel |-> sel]
               h == [k \in 0 .. 0 |-> base]
               P(g) == g = [k \in 0 .. 0 |-> IF k = 0 THEN base ELSE Removed(g[k - 1], Targets[k], 0)]
    <3>1. P(h)
      OBVIOUS
    <3>2. P(CHOOSE g : P(g))
      BY <3>1
    <3>3. After(0) = (CHOOSE g : P(g))
      OBVIOUS
    <3>4. After(0)[0] = base
      BY <3>2, <3>3
    <3> QED
      BY <1>1, <1>3, <3>4
  <2>2. disk' = disk
    BY <1>1, <1>3 DEF LookInv, LookTyped
  <2> QED
    BY <1>1, <1>2, <1>3, <2>1, <2>2, LookKept DEF lookVars, watchVars
<1>4. CASE n # 0
  BY <1>1, <1>2, <1>4 DEF Noticed, jobVars, LookInv, LookTyped, JobShape, StaleListNoticed, Alarm, Watched,
       LookComes
<1> QED
  BY <1>3, <1>4

LEMMA LookRename == ASSUME LookInv, CommitRename PROVE LookInv'
<1>1. CASE UNCHANGED <<disk, dir, listVars, jobVars, arrival, watchVars, missed, owed>>
  BY <1>1, LookKept DEF lookVars, listVars
<1>2. CASE StartLoadDir(dir) /\ disk' = [f \in Files |-> disk'[f]]
  BY <1>2, LookLoad
<1> QED
  BY <1>1, <1>2 DEF CommitRename, LookInv, LookTyped

LEMMA LookGo ==
    ASSUME LookInv, Navigate \/ NavigateBack \/ NavigateForward \/ OpenFavoriteOrDrop
    PROVE  LookInv'
<1>1. CASE Navigate
  BY <1>1, LookLoad, LookKept DEF Navigate, lookVars, listVars, LookInv, LookTyped
<1>2. CASE NavigateBack
  BY <1>2, LookLoad DEF NavigateBack, LookInv, LookTyped
<1>3. CASE NavigateForward
  BY <1>3, LookLoad DEF NavigateForward, LookInv, LookTyped
<1>4. CASE OpenFavoriteOrDrop
  BY <1>4, LookLoad DEF OpenFavoriteOrDrop, LookInv, LookTyped
<1> QED
  BY <1>1, <1>2, <1>3, <1>4

LEMMA LookStep == LookInv /\ [ListNext]_libraryVars => LookInv'
<1> SUFFICES ASSUME LookInv, [ListNext]_libraryVars PROVE LookInv'
  OBVIOUS
<1>1. CASE \/ Click \/ ShiftClick \/ CtrlClick \/ SelectAll \/ SetFilter \/ OpenDialog \/ CancelDialog
           \/ UNCHANGED libraryVars
  <2>1. UNCHANGED lookVars
    BY <1>1 DEF Click, ShiftClick, CtrlClick, SelectAll, SetFilter, OpenDialog, CancelDialog, NoJobMoves,
                lookVars, listVars, jobVars, watchVars, libraryVars
  <2> QED
    BY <2>1, LookKept
<1>2. CASE CommitDelete \/ CommitRename
  BY <1>2, LookDelete, LookRename
<1>3. CASE Navigate \/ NavigateBack \/ NavigateForward \/ OpenFavoriteOrDrop
  BY <1>3, LookGo
<1>4. CASE ReloadCurrentDir \/ RefreshForSourceChanged
  BY <1>4, LookReload, LookRefresh
<1>5. CASE PollList \/ LoadReads \/ ScanReads
  BY <1>5, LookPollAsyncLoad, LookApply, LookPollChanges, LookDrain, LookLoadReads, LookScanReads
     DEF PollList
<1>6. CASE WatchStarts \/ WatchNotifies \/ WatchFails
  BY <1>6, LookWatch
<1>7. CASE FileChanges \/ ViewerDeletes
  BY <1>7, LookChange DEF FileChanges, ViewerDeletes, listVars
<1> QED
  BY <1>1, <1>2, <1>3, <1>4, <1>5, <1>6, <1>7 DEF ListNext, UserStep

\* No change that could be seen is lost between the watcher, loads, scans and reloads
\* (poll_current_dir_changes, poll_async_load, refresh_for_source_changed).
THEOREM StaleNoticedCorrect == ListSpec => []StaleListNoticed
<1>1. LookInv => StaleListNoticed
  BY DEF LookInv
<1> QED
  BY <1>1, LookInit, LookStep, PTL DEF ListSpec

\* A set of natural numbers has a least one.
LEMMA LeastNat ==
    ASSUME NEW T, T \subseteq Nat, T # {}
    PROVE  \E x \in T : \A y \in T : x <= y
<1> DEFINE R == OpToRel(<, Nat)
<1>1. IsWellFoundedOn(R, Nat)
  BY NatLessThanWellFounded
<1>2. \A x, y \in Nat : y < x => <<y, x>> \in R
  BY DEF OpToRel
<1> HIDE DEF R
<1>3. PICK x \in T : \A y \in T : ~ (<<y, x>> \in R)
  BY <1>1, WFMin
<1>4. \A y \in T : x \in Nat /\ y \in Nat /\ ~(y < x)
  BY <1>2, <1>3
<1>5. \A y \in T : x <= y
  BY <1>4
<1> QED
  BY <1>3, <1>5

\* A finite set of names has a sorted list.
HasSorted(S) == \E l \in SetToSeqs(S) : Sorted(l)

LEMMA SortedExists ==
    ASSUME NEW S, S \subseteq Nat, IsFiniteSet(S)
    PROVE  HasSorted(S)
<1> SUFFICES ASSUME ~HasSorted(S) PROVE FALSE
  OBVIOUS
<1> DEFINE Bad(n) == \E U \in SUBSET Nat : IsFiniteSet(U) /\ Cardinality(U) = n /\ ~HasSorted(U)
           T == {n \in Nat : Bad(n)}
<1>1. T # {} /\ T \subseteq Nat
  <2>1. Cardinality(S) \in Nat /\ S \in SUBSET Nat
    BY FS_CardinalityType
  <2> QED
    BY <2>1
<1>2. PICK m \in T : \A k \in T : m <= k
  <2> HIDE DEF T
  <2> QED
    BY <1>1, LeastNat
<1>3. PICK U \in SUBSET Nat : IsFiniteSet(U) /\ Cardinality(U) = m /\ ~HasSorted(U)
  BY <1>2
<1>4. U # {}
  <2> SUFFICES ASSUME U = {} PROVE FALSE
    OBVIOUS
  <2>1. Cardinality(U) = 0
    BY FS_EmptySet
  <2> DEFINE l == [i \in 1 .. 0 |-> i]
  <2>2. l \in SetToSeqs(U) /\ Sorted(l)
    BY <2>1 DEF SetToSeqs, Sorted
  <2> QED
    BY <2>2, <1>3 DEF HasSorted
<1>5. PICK x \in U : \A y \in U : x <= y
  BY <1>4, LeastNat
<1>6. m \in Nat /\ m > 0 /\ IsFiniteSet(U \ {x}) /\ Cardinality(U \ {x}) = m - 1
  BY <1>3, <1>5, FS_RemoveElement, FS_CardinalityType, FS_EmptySet, SMTT(40)
<1>7. HasSorted(U \ {x})
  <2> SUFFICES ASSUME ~HasSorted(U \ {x}) PROVE FALSE
    OBVIOUS
  <2>1. U \ {x} \in SUBSET Nat /\ m - 1 \in Nat
    BY <1>6
  <2>2. Bad(m - 1)
    BY <2>1, <1>6
  <2>3. m - 1 \in T
    BY <2>1, <2>2
  <2> HIDE DEF T
  <2>4. m <= m - 1
    BY <2>3, <1>2
  <2> QED
    BY <2>4, <1>6
<1>8. PICK l \in SetToSeqs(U \ {x}) : Sorted(l)
  BY <1>7 DEF HasSorted
<1> DEFINE k == [i \in 1 .. m |-> IF i = 1 THEN x ELSE l[i - 1]]
<1>9. /\ l \in [1 .. m - 1 -> U \ {x}]
      /\ \A i, j \in 1 .. m - 1 : i # j => l[i] # l[j]
  BY <1>6, <1>8 DEF SetToSeqs
<1>10. \A i \in 1 .. m : i # 1 => i - 1 \in 1 .. m - 1 /\ k[i] = l[i - 1] /\ k[i] \in U \ {x}
  BY <1>6, <1>9
<1>11. k \in [1 .. m -> U]
  BY <1>6, <1>10, <1>5
<1>12. \A i, j \in 1 .. m : i # j => k[i] # k[j]
  <2> SUFFICES ASSUME NEW i \in 1 .. m, NEW j \in 1 .. m, i # j PROVE k[i] # k[j]
    OBVIOUS
  <2>1. CASE i = 1 \/ j = 1
    BY <2>1, <1>10, <1>6
  <2>2. CASE i # 1 /\ j # 1
    <3>1. i - 1 # j - 1
      OBVIOUS
    <3> QED
      BY <2>2, <3>1, <1>9, <1>10
  <2> QED
    BY <2>1, <2>2
<1>13. k \in SetToSeqs(U)
  BY <1>3, <1>11, <1>12 DEF SetToSeqs
<1>14. Sorted(k)
  <2> SUFFICES ASSUME NEW i \in 1 .. m, NEW j \in 1 .. m, i < j PROVE k[i] < k[j]
    BY <1>11 DEF Sorted
  <2>1. j # 1 /\ k[j] = l[j - 1] /\ k[j] \in U \ {x} /\ j - 1 \in 1 .. m - 1
    BY <1>6, <1>10
  <2>2. CASE i = 1
    <3>1. k[i] = x /\ x \in Nat /\ k[j] \in Nat /\ x <= k[j] /\ x # k[j]
      BY <2>1, <2>2, <1>3, <1>5, <1>6
    <3> QED
      BY <3>1
  <2>3. CASE i # 1
    <3>1. k[i] = l[i - 1] /\ i - 1 \in 1 .. m - 1 /\ i - 1 < j - 1
      BY <2>3, <1>6, <1>10
    <3>2. i - 1 \in DOMAIN l /\ j - 1 \in DOMAIN l
      BY <3>1, <2>1, <1>9
    <3> QED
      BY <2>1, <3>1, <3>2, <1>8 DEF Sorted
  <2> QED
    BY <2>2, <2>3
<1> QED
  BY <1>3, <1>13, <1>14 DEF HasSorted

SelShape(s) == DOMAIN s = {"at", "also", "anchor", "all"}

\* The selection is one, and what a scan has read can be sorted.
SelInv ==
    /\ SelShape(sel)
    /\ filter \subseteq Files
    /\ scan.state = "read" => scan.seen = Failed \/ DOMAIN scan.seen \subseteq Files

selVars == <<sel, filter, scan>>

LEMMA SelInit == ListInit => SelInv
BY DEF ListInit, SelInv, SelShape, NoSelection, NoJob

LEMMA SelKept == ASSUME SelInv, UNCHANGED selVars PROVE SelInv'
BY DEF SelInv, SelShape, selVars

\* Every operator on selections makes one of one.
LEMMA ShapeMade ==
    /\ SelShape(NoSelection)
    /\ \A l, s, path : SelShape(s) => SelShape(RestoreByPath(l, s, path))
    /\ \A l, s, paths, path, anchor : SelShape(s) => SelShape(RestoreByPaths(l, s, paths, path, anchor))
    /\ \A i, s, n : SelShape(s) => SelShape(Shifted(i, s, n))
    /\ \A t, f, next : SelShape(t.sel) => SelShape(Removed(t, f, next).sel)
<1>1. SelShape(NoSelection)
  BY DEF SelShape, NoSelection
<1>2. \A l, s, path : SelShape(s) => SelShape(RestoreByPath(l, s, path))
  BY DEF SelShape, RestoreByPath
<1>3. \A l, s, paths, path, anchor : SelShape(s) => SelShape(RestoreByPaths(l, s, paths, path, anchor))
  BY DEF SelShape, RestoreByPaths
<1>4. \A i, s, n : SelShape(s) => SelShape(Shifted(i, s, n))
  BY DEF SelShape, Shifted
<1>5. ASSUME NEW t, NEW f, NEW next, SelShape(t.sel) PROVE SelShape(Removed(t, f, next).sel)
  <2> DEFINE i == Position(t.list, f)
             l == IF i = 0 THEN t.list ELSE RemoveAt(t.list, i)
             s == IF i = 0 THEN t.sel ELSE Shifted(i, t.sel, Len(t.list))
  <2>1. SelShape(s)
    BY <1>4, <1>5
  <2>2. Removed(t, f, next).sel =
          IF next # 0 THEN RestoreByPath(l, s, next)
          ELSE IF l = <<>> THEN [s EXCEPT !.at = 0, !.also = {}, !.anchor = 0] ELSE s
    BY DEF Removed
  <2> HIDE DEF s, l
  <2>3. SelShape([s EXCEPT !.at = 0, !.also = {}, !.anchor = 0])
    BY <2>1 DEF SelShape
  <2> QED
    BY <2>1, <2>2, <2>3, <1>2
<1> QED
  BY <1>1, <1>2, <1>3, <1>4, <1>5

LEMMA SelLoad == ASSUME SelInv, NEW d, StartLoadDir(d) PROVE SelInv'
BY ShapeMade DEF StartLoadDir, SelInv, NoJob

\* A chain of removals keeps the selection one.
IsChain(g, n, base, target) ==
    g = [k \in 0 .. n |-> IF k = 0 THEN base ELSE Removed(g[k - 1], target[k], 0)]

LEMMA ChainExists ==
    ASSUME NEW base, NEW target, NEW n \in Nat
    PROVE  \E g : IsChain(g, n, base, target)
<1> SUFFICES ASSUME ~ \E g : IsChain(g, n, base, target) PROVE FALSE
  OBVIOUS
<1> DEFINE T == {k \in Nat : ~ \E g : IsChain(g, k, base, target)}
<1>1. T # {} /\ T \subseteq Nat
  OBVIOUS
<1>2. PICK m \in T : \A k \in T : m <= k
  <2> HIDE DEF T
  <2> QED
    BY <1>1, LeastNat
<1>3. m \in Nat /\ ~ \E g : IsChain(g, m, base, target)
  BY <1>2
<1>4. m # 0
  <2> SUFFICES ASSUME m = 0 PROVE FALSE
    OBVIOUS
  <2> DEFINE h == [k \in 0 .. 0 |-> base]
  <2>1. IsChain(h, 0, base, target)
    BY DEF IsChain
  <2> QED
    BY <2>1, <1>3
<1>5. m - 1 \in Nat /\ m - 1 \notin T
  <2>1. m - 1 \in Nat /\ ~(m <= m - 1)
    BY <1>3, <1>4
  <2> HIDE DEF T
  <2> QED
    BY <2>1, <1>2
<1>6. PICK g : IsChain(g, m - 1, base, target)
  BY <1>5
<1> DEFINE h == [k \in 0 .. m |-> IF k = m THEN Removed(g[m - 1], target[m], 0) ELSE g[k]]
<1>7. \A k \in 0 .. m - 1 :
        g[k] = IF k = 0 THEN base ELSE Removed(g[k - 1], target[k], 0)
  BY <1>6 DEF IsChain
<1>8. \A k \in 0 .. m : h[k] = IF k = 0 THEN base ELSE Removed(h[k - 1], target[k], 0)
  <2> SUFFICES ASSUME NEW k \in 0 .. m
               PROVE  h[k] = IF k = 0 THEN base ELSE Removed(h[k - 1], target[k], 0)
    OBVIOUS
  <2>1. CASE k = m
    <3>1. m - 1 \in 0 .. m /\ m - 1 # m /\ m \in 0 .. m
      BY <1>3, <1>4
    <3>2. h[m - 1] = g[m - 1] /\ h[m] = Removed(g[m - 1], target[m], 0)
      BY <3>1
    <3> QED
      BY <2>1, <3>2, <1>4
  <2>2. CASE k = 0
    BY <2>2, <1>3, <1>4, <1>7
  <2>3. CASE k # m /\ k # 0
    <3>1. k \in 0 .. m - 1 /\ k - 1 \in 0 .. m /\ k - 1 # m
      BY <2>3, <1>3
    <3>2. h[k] = g[k] /\ h[k - 1] = g[k - 1]
      BY <3>1, <2>3
    <3> QED
      BY <2>3, <3>1, <3>2, <1>7
  <2> QED
    BY <2>1, <2>2, <2>3
<1>9. IsChain(h, m, base, target)
  BY <1>8 DEF IsChain
<1> QED
  BY <1>3, <1>9

LEMMA ChainShape ==
    ASSUME NEW base, NEW target, NEW n \in Nat, NEW g, IsChain(g, n, base, target), SelShape(base.sel)
    PROVE  SelShape(g[n].sel)
<1> SUFFICES ASSUME ~SelShape(g[n].sel) PROVE FALSE
  OBVIOUS
<1> DEFINE T == {k \in 0 .. n : ~SelShape(g[k].sel)}
<1>1. T # {} /\ T \subseteq Nat
  OBVIOUS
<1>2. PICK m \in T : \A k \in T : m <= k
  <2> HIDE DEF T
  <2> QED
    BY <1>1, LeastNat
<1>3. m \in 0 .. n /\ ~SelShape(g[m].sel)
  BY <1>2
<1>4. g[m] = IF m = 0 THEN base ELSE Removed(g[m - 1], target[m], 0)
  BY <1>3 DEF IsChain
<1>5. m # 0 /\ m - 1 \in 0 .. n /\ ~(m <= m - 1)
  BY <1>3, <1>4
<1>6. m - 1 \notin T
  <2> HIDE DEF T
  <2> QED
    BY <1>2, <1>5
<1>7. SelShape(g[m - 1].sel)
  BY <1>5, <1>6
<1> QED
  BY <1>3, <1>4, <1>5, <1>7, ShapeMade

\* The deletions of commit_delete, one after another.
LEMMA SelDelete == ASSUME SelInv, CommitDelete PROVE SelInv'
<1> DEFINE base == [raw |-> raw, list |-> list, sel |-> sel]
           After(n) == CHOOSE g : IsChain(g, n, base, Targets)
<1>1. PICK n \in 0 .. Len(Targets) : sel' = After(n)[n].sel
  BY DEF CommitDelete, IsChain
<1>2. UNCHANGED <<filter, scan>>
  BY DEF CommitDelete, jobVars
<1>3. n \in Nat
  BY <1>1
<1>4. IsChain(After(n), n, base, Targets)
  <2> HIDE DEF base
  <2> QED
    BY <1>3, ChainExists
<1>5. SelShape(base.sel)
  BY DEF SelInv
<1>6. SelShape(sel')
  <2> HIDE DEF base, After
  <2> QED
    BY <1>1, <1>3, <1>4, <1>5, ChainShape
<1> QED
  BY <1>2, <1>6 DEF SelInv, SelShape

LEMMA SelRename == ASSUME SelInv, CommitRename PROVE SelInv'
<1>1. CASE UNCHANGED listVars /\ UNCHANGED jobVars
  BY <1>1, SelKept DEF selVars, listVars, jobVars
<1>2. CASE StartLoadDir(dir)
  BY <1>2, SelLoad
<1> QED
  BY <1>1, <1>2 DEF CommitRename

LEMMA SelGo ==
    ASSUME SelInv, Navigate \/ NavigateBack \/ NavigateForward \/ OpenFavoriteOrDrop
    PROVE  SelInv'
<1>1. (\E d : StartLoadDir(d)) \/ UNCHANGED selVars
  BY DEF Navigate, NavigateBack, NavigateForward, OpenFavoriteOrDrop, selVars, listVars, jobVars
<1> QED
  BY <1>1, SelLoad, SelKept

\* What the user does with the list alone.
LEMMA SelUser ==
    ASSUME SelInv, Click \/ ShiftClick \/ CtrlClick \/ SelectAll \/ SetFilter \/ OpenDialog \/ CancelDialog
    PROVE  SelInv'
<1>1. UNCHANGED scan
  BY DEF Click, ShiftClick, CtrlClick, SelectAll, SetFilter, OpenDialog, CancelDialog, NoJobMoves, jobVars
<1>2. CASE Click \/ ShiftClick \/ CtrlClick \/ SelectAll
  <2>1. SelShape(sel')
    BY <1>2 DEF Click, ShiftClick, CtrlClick, SelectAll, SelInv, SelShape
  <2>2. UNCHANGED filter
    BY <1>2 DEF Click, ShiftClick, CtrlClick, SelectAll
  <2> QED
    BY <1>1, <2>1, <2>2 DEF SelInv, SelShape
<1>3. CASE SetFilter
  <2>1. filter' \subseteq Files
    BY <1>3, ListAssumption DEF SetFilter
  <2>2. SelShape(Carried(list', sel))
    BY ShapeMade DEF Carried, SelInv
  <2>3. SelShape(sel')
    BY <1>3, <2>2 DEF SetFilter
  <2> QED
    BY <1>1, <2>1, <2>3 DEF SelInv, SelShape
<1>4. CASE OpenDialog \/ CancelDialog
  BY <1>1, <1>4, SelKept DEF OpenDialog, CancelDialog, selVars, listVars
<1> QED
  BY <1>2, <1>3, <1>4

LEMMA SelPoll ==
    ASSUME SelInv, PollList
    PROVE  SelInv'
<1>1. CASE PollAsyncLoad
  <2>1. SelShape(sel')
    <3>1. \A l : SelShape(Arrived(l))
      <4> SUFFICES ASSUME NEW l PROVE SelShape(Arrived(l))
        OBVIOUS
      <4> DEFINE byLaunch == IF arrival.launch = 0 \/ l = <<>> THEN NoSelection
                             ELSE [NoSelection EXCEPT !.at = IF Contains(l, arrival.launch)
                                                             THEN Position(l, arrival.launch) ELSE 1]
                 byAfter == IF arrival.after THEN RestoreByPath(l, byLaunch, arrival.path) ELSE byLaunch
      <4>1. SelShape(byLaunch)
        BY DEF SelShape, NoSelection
      <4>2. Arrived(l) = IF Position(l, arrival.drop) # 0
                         THEN RestoreByPath(l, byAfter, arrival.drop) ELSE byAfter
        BY DEF Arrived
      <4> HIDE DEF byLaunch
      <4> QED
        BY <4>1, <4>2, ShapeMade
    <3> QED
      BY <1>1, <3>1 DEF PollAsyncLoad, SelInv, SelShape, listVars
  <2>2. UNCHANGED filter
    BY <1>1 DEF PollAsyncLoad, listVars
  <2>3. scan' = scan \/ scan'.state = "begun"
    BY <1>1 DEF PollAsyncLoad, ReloadDiff, Begun
  <2> QED
    BY <2>1, <2>2, <2>3 DEF SelInv, SelShape
<1>2. CASE ApplyDirScanResult
  <2>1. \A l : SelShape(CarriedByScan(l))
    <3>1. SelShape([sel EXCEPT !.all = FALSE])
      BY DEF SelInv, SelShape
    <3> QED
      BY <3>1, ShapeMade DEF CarriedByScan
  <2>2. SelShape(SelAfterScan)
    BY <2>1, ShapeMade DEF SelAfterScan, SelInv
  <2>3. SelShape(sel') /\ UNCHANGED filter
    BY <1>2, <2>2 DEF ApplyDirScanResult, SelInv, SelShape, listVars
  <2>4. scan'.state \in {"begun", "none"}
    BY <1>2 DEF ApplyDirScanResult, ReloadDiff, Begun, NoJob
  <2> QED
    BY <2>3, <2>4 DEF SelInv, SelShape
<1>3. CASE PollCurrentDirChanges
  BY <1>3 DEF PollCurrentDirChanges, listVars, Begun, SelInv, SelShape
<1>4. CASE DrainDeleted
  <2> DEFINE t == [raw |-> raw, list |-> list, sel |-> sel]
  <2>1. sel' = Removed(t, Head(gone)[1], Head(gone)[2]).sel /\ UNCHANGED <<filter, scan>>
    BY <1>4 DEF DrainDeleted, jobVars
  <2>2. SelShape(t.sel)
    BY DEF SelInv
  <2>3. SelShape(sel')
    <3> HIDE DEF t
    <3> QED
      BY <2>1, <2>2, ShapeMade
  <2> QED
    BY <2>1, <2>3 DEF SelInv, SelShape
<1> QED
  BY <1>1, <1>2, <1>3, <1>4 DEF PollList

LEMMA SelReads == ASSUME LookInv, SelInv, ScanReads PROVE SelInv'
<1>1. UNCHANGED <<sel, filter>>
  BY DEF ScanReads, listVars
<1>2. scan'.seen = Failed \/ scan'.seen = Listing(scan.dir)
  BY DEF ScanReads, LookInv, LookTyped, JobShape
<1>3. DOMAIN Listing(scan.dir) \subseteq Files
  BY DEF Listing
<1> QED
  BY <1>1, <1>2, <1>3 DEF SelInv, SelShape

LEMMA SelStep == LookInv /\ SelInv /\ [ListNext]_libraryVars => SelInv'
<1> SUFFICES ASSUME LookInv, SelInv, [ListNext]_libraryVars PROVE SelInv'
  OBVIOUS
<1>1. CASE ReloadCurrentDir \/ RefreshForSourceChanged
  <2>1. UNCHANGED <<sel, filter>> /\ (scan' = scan \/ scan'.state = "begun")
    BY <1>1 DEF ReloadCurrentDir, RefreshForSourceChanged, ReloadDiff, Begun, listVars
  <2> QED
    BY <2>1 DEF SelInv, SelShape
<1>2. CASE \/ LoadReads \/ WatchStarts \/ WatchNotifies \/ WatchFails \/ FileChanges \/ ViewerDeletes
           \/ UNCHANGED libraryVars
  BY <1>2, SelKept DEF LoadReads, WatchStarts, WatchNotifies, WatchFails, FileChanges, ViewerDeletes,
                       selVars, listVars, jobVars, libraryVars
<1> QED
  BY <1>1, <1>2, SelDelete, SelRename, SelGo, SelUser, SelPoll, SelReads DEF ListNext, UserStep

\* Where the sorted list is, no position is 0.
LEMMA ShownPositions ==
    ASSUME NEW files, NEW f, DOMAIN files \cap f \subseteq Files
    PROVE  \E n \in Nat : DOMAIN Shown(files, f) = 1 .. n
<1> DEFINE S == DOMAIN files \cap f
<1>1. S \subseteq Nat /\ IsFiniteSet(S)
  BY ListAssumption, FS_Subset
<1>2. HasSorted(S)
  <2> HIDE DEF S
  <2> QED
    BY <1>1, SortedExists
<1>3. Shown(files, f) \in SetToSeqs(S)
  BY <1>2 DEF Shown, HasSorted
<1>4. Cardinality(S) \in Nat
  BY <1>1, FS_CardinalityType
<1> QED
  BY <1>3, <1>4 DEF SetToSeqs

\* The entries selected in the new list are those of the old selection that are in it.
LEMMA SelSurvives ==
    ASSUME SelInv, ApplyDirScanResult, ~scan.manual
    PROVE  SelectedPaths(list', sel') = SelectedPaths(list, sel) \cap ToSet(list')
<1>1. CASE UNCHANGED <<list, sel>>
  BY <1>1 DEF SelectedPaths, Effective, ToSet
<1>2. CASE ~UNCHANGED <<list, sel>>
  <2>1. scan.seen # Failed /\ scan.seen # raw /\ scan.state = "read"
    BY <1>2 DEF ApplyDirScanResult, ListAfterScan, SelAfterScan, listVars
  <2>2. list' = Shown(scan.seen, filter) /\ sel' = CarriedByScan(list')
    BY <1>2, <2>1 DEF ApplyDirScanResult, ListAfterScan, SelAfterScan, listVars
  <2>3. 0 \notin DOMAIN list'
    <3>1. DOMAIN scan.seen \cap filter \subseteq Files
      BY <2>1 DEF SelInv
    <3> QED
      BY <2>2, <3>1, ShownPositions
  <2> DEFINE P == SelectedPaths(list, sel)
             path == PathAt(list, sel.at)
             at == Position(list', path)
  <2>4. /\ sel'.at = at
        /\ sel'.also = {i \in DOMAIN list' : list'[i] \in P} \ {at}
    BY <2>2 DEF SelInv, SelShape, CarriedByScan, RestoreByPaths
  <2>5. path # 0 => path \in P
    BY DEF PathAt, SelectedPaths, Effective
  <2>6. at # 0 => at \in DOMAIN list' /\ list'[at] \in P
    <3> HIDE DEF P, path
    <3>1. at # 0 => path # 0 /\ \E i \in DOMAIN list' : list'[i] = path
      BY DEF Position, Contains
    <3>2. at # 0 => at \in DOMAIN list' /\ list'[at] = path
      BY <3>1 DEF Position
    <3> QED
      BY <3>1, <3>2, <2>5
  <2> HIDE DEF P, path, at
  <2>7. Effective(sel') \cap DOMAIN list' = {i \in DOMAIN list' : list'[i] \in P}
    BY <2>3, <2>4, <2>6 DEF Effective
  <2>8. SelectedPaths(list', sel') = P \cap ToSet(list')
    BY <2>7 DEF SelectedPaths, ToSet
  <2> QED
    BY <2>8 DEF P
<1> QED
  BY <1>1, <1>2

\* A periodic scan that changes the list leaves the selection what it was, less what is
\* gone (apply_scanned_entries_preserving_state, restore_selection_by_paths).
THEOREM SelectionSurvives == ListSpec => SelectionSurvivesScan
<1>1. SelInv /\ [ListNext]_libraryVars =>
        [ApplyDirScanResult /\ ~scan.manual
          => SelectedPaths(list', sel') = SelectedPaths(list, sel) \cap ToSet(list')]_libraryVars
  BY SelSurvives
<1> QED
  BY <1>1, LookInit, LookStep, SelInit, SelStep, PTL DEF ListSpec, SelectionSurvivesScan
=============================================================================
