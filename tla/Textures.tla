------------------------------ MODULE Textures ------------------------------
(***************************************************************************)
(* The textures a Viewer keeps of one book: the history of what was shown  *)
(* and the warm-up cache of what comes next, filled one page a frame from  *)
(* the L2 page cache.  Both are sequences of entries [page, sig, bytes],   *)
(* the least recently used first; sig is the width a page was decoded for. *)
(*                                                                         *)
(* A frame is one action that shows or asks for a view, or does neither    *)
(* (TurnTo, Loaded, ChangeQuality, Glance), then WarmUp and, when it       *)
(* planned a page, Upload.  The threads that fill L2 (Streamed) may run    *)
(* between.                                                                *)
(***************************************************************************)
EXTENDS StreamingCache

CONSTANTS
    Total,          \* the pages of the book
    Layouts,        \* the ways to lay pages out
    ViewOf,         \* layout -> page -> the pages shown when it is turned to
    Need,           \* layout -> page -> the width a view turned to it decodes for
    TextureBytes,   \* page -> width -> bytes
    HistoryLimit, FutureLimit,
    MaxTurns,       \* bound: turns of pages and changes of quality
    Nothing

AllPages == 0 .. Total - 1
Widths == UNION {{Need[l][p] : p \in AllPages} : l \in Layouts}

Filed == [page : AllPages, sig : Nat, bytes : Nat]
Hits == [from : {"history", "warmup"}, entry : Filed]
Plans == [page : AllPages, sig : Nat, victims : SUBSET Filed, more : BOOLEAN]

ASSUME TextureAssumption ==
    /\ Total \in Nat \ {0}
    /\ FutureLimit \in Nat
    /\ \A l \in Layouts, p \in AllPages :
        ViewOf[l][p] \in Seq(AllPages) /\ Need[l][p] \in Nat \ {0}
    /\ \A p \in AllPages, w \in Widths : TextureBytes[p][w] \in Nat
    /\ Nothing \notin Filed \cup Hits \cup Plans

VARIABLES
    history, future,    \* gpu_texture_history, gpu_warmup_cache
    layout, requested,  \* of the view asked for, which is displayed unless loading
    loading,
    ready,              \* page -> the width it is in L2 for, or 0
    frame,              \* where the frame is: "idle", "warm" or "upload"
    fresh,              \* this frame committed a display
    planned,            \* what WarmUp planned to upload
    frameDue,           \* another frame has been asked for
    dozed,              \* the last frame slept over a page that may fit: that of
                        \* a commit, or one that replaced other pages
    turns

textureCaches == <<history, future>>
viewVars == <<layout, requested, loading>>
frameVars == <<frame, fresh, planned, frameDue, dozed>>
textureVars == <<textureCaches, viewVars, ready, frameVars, turns>>

Texture(p, width, shown) == [page |-> p, sig |-> width, bytes |-> TextureBytes[p][shown]]

\* is_suitable_for: a tolerance of five percent.
Suits(width, need) == width * 105 >= need * 100

Gap(a, b) == IF a < b THEN b - a ELSE a - b

(***************************************************************************)
(* The two caches.                                                         *)
(***************************************************************************)
SameKey(e, f) == e.page = f.page /\ e.sig = f.sig

Without(entries, e) == Dropping(entries, Namesakes(entries, e))

HasKey(entries, e) == \E i \in DOMAIN entries : SameKey(entries[i], e)

\* insert: refused when it alone is over the limit, else the older ones go.
Insert(entries, e, limit) ==
    IF e.bytes > limit
    THEN entries
    ELSE EvictToBudget(Append(Without(entries, e), e), limit, {})

\* peek_suitable: of the entries that suit the need, the one nearest to it.
BestOf(entries, p, need) ==
    LET suited == {e \in ToSet(entries) : e.page = p /\ Suits(e.sig, need)}
        Before(e, f) == \/ Gap(e.sig, need) < Gap(f.sig, need)
                        \/ Gap(e.sig, need) = Gap(f.sig, need) /\ e.sig <= f.sig
    IN  IF suited = {}
        THEN Nothing
        ELSE CHOOSE e \in suited : \A f \in suited : Before(e, f)

\* best_gpu_texture_hit_for_page: the history wins when both are as near.
Hit(p, need) ==
    LET h == BestOf(history, p, need)
        w == BestOf(future, p, need)
    IN  IF h # Nothing /\ (w # Nothing => Gap(h.sig, need) <= Gap(w.sig, need))
        THEN [from |-> "history", entry |-> h]
        ELSE IF w # Nothing THEN [from |-> "warmup", entry |-> w] ELSE Nothing

\* One slot of commit_display_contents.  A hit is touched or promoted, if it is
\* still there; what was uploaded is registered under the width asked for.
CommitSlot(caches, slot) ==
    LET e == slot.entry
    IN  CASE slot.from = "history" ->
               IF HasKey(caches.history, e)
               THEN [caches EXCEPT !.history = TouchEntry(@, e)]
               ELSE caches
          [] slot.from = "warmup" ->
               IF HasKey(caches.future, e)
               THEN [history |-> Insert(caches.history, e, HistoryLimit),
                     future |-> Without(caches.future, e)]
               ELSE caches
          [] OTHER ->
               [history |-> Insert(caches.history, e, HistoryLimit),
                future |-> Without(caches.future, e)]

\* commit_display_contents and finalize_display_commit.
Commit(slots) ==
    LET caches[n \in 0 .. Len(slots)] ==
            IF n = 0 THEN [history |-> history, future |-> future]
            ELSE CommitSlot(caches[n - 1], slots[n])
    IN  /\ history' = caches[Len(slots)].history
        /\ future' = caches[Len(slots)].future
        /\ loading' = FALSE
        /\ fresh' = TRUE

(***************************************************************************)
(* Showing a view.                                                         *)
(***************************************************************************)
\* A slot filled from frames of a width; it is filed under the width needed.
Uploaded(p, need, width) == [from |-> "frames", entry |-> Texture(p, need, width)]

\* start_display_request.  Held are the pages whose frames the interactive cache
\* has.  Textures of all pages, or of one and frames of the other, or frames of
\* all commit at once; else the view loads.
Show(p, l, held) ==
    LET need == Need[l][p]
        pages == ViewOf[l][p]
        hits == [i \in DOMAIN pages |-> Hit(pages[i], need)]
        HasFrames(q) == q \in held \/ (ready[q] # 0 /\ Suits(ready[q], need))
        FromFrames(q) == Uploaded(q, need, IF q \in held THEN need ELSE ready[q])
        reused == [i \in DOMAIN pages |->
                      IF hits[i] # Nothing THEN hits[i] ELSE FromFrames(pages[i])]
        Some == \E i \in DOMAIN pages : hits[i] # Nothing
        Rest == \A i \in DOMAIN pages : hits[i] # Nothing \/ HasFrames(pages[i])
        All == \A i \in DOMAIN pages : HasFrames(pages[i])
    IN  /\ layout' = l
        /\ requested' = p
        /\ \/ Some /\ Rest /\ Commit(reused)
           \/ ~(Some /\ Rest) /\ All
                /\ Commit([i \in DOMAIN pages |-> FromFrames(pages[i])])
           \/ ~(Some /\ Rest) /\ ~All
                /\ loading' = TRUE /\ fresh' = FALSE /\ UNCHANGED textureCaches

StartFrame ==
    /\ frame = "idle"
    /\ frame' = "warm"
    /\ frameDue' = FALSE
    /\ UNCHANGED <<planned, dozed>>

\* The reader turns to a page or toggles the layout.
TurnTo ==
    /\ StartFrame
    /\ ~loading
    /\ turns < MaxTurns
    /\ turns' = turns + 1
    /\ \E p \in AllPages, l \in Layouts :
        \E held \in SUBSET ToSet(ViewOf[l][p]) : Show(p, l, held)
    /\ UNCHANGED ready

\* The loader's answer for the view requested is polled.
Loaded ==
    /\ StartFrame
    /\ loading
    /\ LET pages == ViewOf[layout][requested]
           need == Need[layout][requested]
       IN  Commit([i \in DOMAIN pages |-> Uploaded(pages[i], need, need)])
    /\ UNCHANGED <<layout, requested, ready, turns>>

\* set_quality clears both caches; nothing in L2 suits any more, and the view is
\* loaded again.
ChangeQuality ==
    /\ StartFrame
    /\ turns < MaxTurns
    /\ turns' = turns + 1
    /\ history' = <<>>
    /\ future' = <<>>
    /\ ready' = [p \in AllPages |-> 0]
    /\ loading' = TRUE
    /\ fresh' = FALSE
    /\ UNCHANGED <<layout, requested>>

\* A frame that changes nothing: one asked for, or the pointer moved.
Glance ==
    /\ StartFrame
    /\ fresh' = FALSE
    /\ UNCHANGED <<textureCaches, viewVars, ready, turns>>

\* A page L2 has not is put there, perhaps for another page, and a frame asked for.
\* The snapshot it worked from may be of another layout.
Streamed ==
    /\ \E p \in AllPages,
          lost \in {{}} \cup {{q} : q \in {r \in AllPages : ready[r] # 0}} :
        /\ p \notin lost /\ ready[p] = 0
        /\ \E width \in {Need[l][p] : l \in Layouts} :
            ready' = [q \in AllPages |->
                         IF q = p THEN width ELSE IF q \in lost THEN 0 ELSE ready[q]]
    /\ frameDue' = TRUE
    /\ UNCHANGED <<textureCaches, viewVars, frame, fresh, planned, dozed, turns>>

(***************************************************************************)
(* The warm-up, at the end of a frame.                                     *)
(***************************************************************************)
VisibleEnd ==
    CHOOSE p \in ToSet(ViewOf[layout][requested]) :
        \A q \in ToSet(ViewOf[layout][requested]) : q <= p

\* The pages to come, each with the need of a view turned to it.
Upcoming ==
    LET last == VisibleEnd
        order == DesiredSequence(requested, Total, ViewOf[layout][requested])
    IN  {p \in AllPages : p > last /\ Contains(order, p)}
NeedOf(p) == Need[layout][p]

\* An entry is stale when its page is past or not to come, or it does not suit.
Retained ==
    LET upcoming == Upcoming
    IN  Among(future, {e \in ToSet(future) :
                          e.page \in upcoming /\ Suits(e.sig, NeedOf(e.page))})

\* The pages to come that L2 has for the need, and those no texture satisfies.
Candidates == {p \in Upcoming : ready[p] # 0 /\ Suits(ready[p], NeedOf(p))}
Missing ==
    LET entries == ToSet(Retained) \cup ToSet(history)
    IN  {p \in Candidates :
            ~\E e \in entries : e.page = p /\ Suits(e.sig, NeedOf(p))}
BytesFor(p) == TextureBytes[p][ready[p]]

\* Of farther pages first, of a page the widest.
Farther(e, f) == e.page > f.page \/ (e.page = f.page /\ e.sig > f.sig)
Farthest(entries) == CHOOSE e \in entries : \A f \in entries : ~Farther(f, e)
FarthestFirst(entries) ==
    LET part[n \in 0 .. Cardinality(entries)] ==
            IF n = 0 THEN <<>>
            ELSE Append(part[n - 1], Farthest(entries \ ToSet(part[n - 1])))
    IN  part[Cardinality(entries)]

\* Mutant: the nearest page goes first.
VictimsNearestFirst(p) == Reverse(FarthestFirst({e \in ToSet(Retained) : e.page > p}))

\* What may be replaced for a page: farther ones, the farthest first.
Victims(p) == FarthestFirst({e \in ToSet(Retained) : e.page > p})

\* plan_gpu_warmup: the nearest missing page, if there is room or farther pages
\* make enough; more says that others would be left.
PlanWarmup ==
    LET missing == Missing
        fitting == {p \in missing : BytesFor(p) <= FutureLimit}
        first == CHOOSE p \in fitting : \A q \in fitting : p <= q
        needed == BytesIn(Retained) + BytesFor(first)
        victims == EnoughOf(Victims(first), SizesOf(Victims(first)), needed, FutureLimit)
    IN  IF fitting = {} \/ needed - BytesIn(victims) > FutureLimit
        THEN Nothing
        ELSE [page |-> first, sig |-> ready[first], victims |-> ToSet(victims),
              more |-> \E q \in missing : q > first]

\* maybe_run_gpu_warmup up to the look into L2.  The frame of a commit uploads
\* nothing, and asks for another only when more than one page is to be uploaded.
\* Of the conditions that skip a frame (state.rs:2218) only "loading" is here; a
\* pending group counts as loading, and animations and changes of the window, whose
\* frames skip the warm-up too, are not modelled.
WarmUp ==
    /\ frame = "warm"
    /\ LET plan == PlanWarmup
       IN  IF loading
           THEN /\ frame' = "idle"
                /\ dozed' = FALSE
                /\ UNCHANGED <<future, planned, frameDue>>
           ELSE /\ future' = Retained
                /\ IF plan = Nothing \/ fresh
                   THEN /\ frame' = "idle"
                        /\ planned' = Nothing
                        /\ dozed' = (plan # Nothing /\ ~plan.more)
                        /\ frameDue' = (frameDue \/ (plan # Nothing /\ plan.more))
                   ELSE /\ frame' = "upload"
                        /\ planned' = plan
                        /\ dozed' = FALSE
                        /\ UNCHANGED frameDue
    /\ UNCHANGED <<history, viewVars, ready, fresh, turns>>

\* Mutant: an upload asks for no further frame.
MoreToUploadNever == FALSE

\* Whether an upload asks for another frame.
MoreToUpload == planned.more

\* A page replaced may fit again: of several not all had to go, or L2 has it smaller.
MayFitAgain ==
    \/ Cardinality(planned.victims) > 1
    \/ \E e \in planned.victims : ready[e.page] # 0 /\ BytesFor(e.page) < e.bytes

\* The rest of it: unless the page left L2 meanwhile, it replaces the victims.  The
\* pages it replaces are not counted among those to upload.
Upload ==
    /\ frame = "upload"
    /\ IF ready[planned.page] = planned.sig
       THEN /\ future' = Insert(Dropping(future, planned.victims),
                                Texture(planned.page, planned.sig, planned.sig),
                                FutureLimit)
            /\ frameDue' = (frameDue \/ MoreToUpload)
            /\ dozed' = (~MoreToUpload /\ MayFitAgain)
       ELSE UNCHANGED <<future, frameDue, dozed>>
    /\ frame' = "idle"
    /\ planned' = Nothing
    /\ UNCHANGED <<history, viewVars, ready, fresh, turns>>

TextureInit ==
    /\ history = <<>>
    /\ future = <<>>
    /\ layout \in Layouts
    /\ requested \in AllPages
    /\ loading = TRUE
    /\ ready = [p \in AllPages |-> 0]
    /\ frame = "idle"
    /\ fresh = FALSE
    /\ planned = Nothing
    /\ frameDue = FALSE
    /\ dozed = FALSE
    /\ turns = 0

TextureNext ==
    TurnTo \/ Loaded \/ ChangeQuality \/ Glance \/ Streamed \/ WarmUp \/ Upload

(***************************************************************************)
(* Properties.                                                             *)
(***************************************************************************)
\* No page waits for a frame nobody asked for: when the Viewer is at rest, the
\* nearest page to come that L2 holds and no texture shows would not fit beside
\* the nearer ones (maybe_run_gpu_warmup, plan_gpu_warmup).  Two frames may go to
\* sleep over a page (dozed): that of a commit over one last page, and one whose
\* upload replaced pages over those, which it does not count as missing.
WarmupAwake ==
    \/ frame # "idle" \/ frameDue \/ loading \/ dozed
    \/ LET missing == Missing
       IN  \A p \in missing :
        \/ BytesFor(p) > FutureLimit
        \/ \E q \in missing : q < p /\ BytesFor(q) <= FutureLimit
        \/ LET nearer == Among(future, {e \in ToSet(future) :
                                        e.page \in Upcoming /\ e.page < p})
           IN  BytesIn(nearer) + BytesFor(p) > FutureLimit

\* What a frame takes from the warm-up cache though it is still wanted makes room
\* for one nearer page, no more of it goes than that page needs, and the
\* farthest goes first (replacement_evict_candidates).
NearerWins ==
    [][frame = "upload" =>
         LET gone == {e \in ToSet(future) : ~HasKey(future', e)}
             come == {e \in ToSet(future') : ~HasKey(future, e)}
         IN  \A e \in gone :
               /\ \E f \in come : f.page < e.page
               /\ \A f \in ToSet(future') \ come : f.page <= e.page
               /\ \E g \in gone : /\ g.page <= e.page
                                  /\ BytesIn(future') + g.bytes > FutureLimit]_textureVars
=============================================================================
