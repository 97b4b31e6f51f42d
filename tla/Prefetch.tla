------------------------------ MODULE Prefetch ------------------------------
(***************************************************************************)
(* Pages decoded ahead of the reader (ui/viewer/worker_manager.rs): the UI *)
(* thread publishes a snapshot of the view with every frame; the manager   *)
(* thread takes snapshots and results, plans, and hands one page at a time *)
(* to each background worker of ViewerLoader; a worker has a mailbox that  *)
(* holds one request, the latest.                                          *)
(*                                                                         *)
(* A snapshot is a record: cond, the render condition (quality, texture    *)
(* limit, display area, spread setting, cover); anchor, the page streaming *)
(* starts from; visible, the pages on the screen; max, the cache limit;    *)
(* paused, no direction yet or an animation playing.  The book, the number *)
(* of workers and the AUTO plan do not change here.  A signature is the    *)
(* width a page is decoded for.  A request id is the least that nothing    *)
(* mentions: the code counts ids up and never uses one again.              *)
(***************************************************************************)
EXTENDS StreamingCache

CONSTANTS PageCount,     \* pages of the book
          Workers,       \* background_worker_count
          Conditions,    \* render conditions
          SignatureOf,   \* [Conditions -> [pages -> signature]]
          BytesOf,       \* [pages -> [signatures -> bytes of the decoded page]]
          Animated,      \* pages that are decoded to an animation stream
          Snapshots,     \* what the UI may publish
          Ids,           \* request ids
          MaxEvents,     \* bound: how often the reader does something
          MaxCommands,   \* bound: snapshots under way to the manager
          Totals,        \* bound: lengths of books the order of pages is checked for
          None

Pages == 0 .. PageCount - 1
Shards == 0 .. Workers - 1
ShardOf(page) == page % Workers

Signatures == UNION {{SignatureOf[c][p] : p \in Pages} : c \in Conditions}

\* There is a worker; every snapshot has a render condition, pages, a place and a
\* limit; every page has a size; None is something else.
ASSUME ConstantsAssumption ==
    /\ PageCount \in Nat /\ Workers \in Nat \ {0} /\ Totals \subseteq Nat
    /\ \A s \in Snapshots : /\ s.cond \in Conditions /\ s.max \in Nat
                            /\ s.anchor \in Nat /\ s.visible \in Seq(Nat)
    /\ \A p \in Pages, sig \in Signatures : BytesOf[p][sig] \in Nat
    /\ None \notin Pages /\ None \notin Snapshots

Request == [id : Ids, page : Pages, sig : Signatures, cond : Conditions]

ASSUME NoneAssumption == None \notin Request

Entry == [page : Pages, sig : Signatures, bytes : Nat]

VARIABLES
    view,        \* UI: the snapshot of the current state
    repaint,     \* UI: a frame was asked for
    events,      \* how often the reader did something
    commands,    \* Update commands on their way to the manager
    phase,       \* where the manager's loop is
    refill,      \* should_pump of the last result
    snapshot,    \* manager: the last one it took, or None
    saturated,   \* bg_cache_saturated
    tooLarge,    \* bg_admission_state: [page, sig] that never fit
    inflight,    \* bg_inflight_by_request_id
    slots,       \* prefetch_inflight_pages_by_shard
    cache,       \* the L2 cache, the least recently used entry first
    limit,       \* its max_bytes
    settled,     \* l2_status
    pending,     \* the mailbox of each worker
    working,     \* what each worker decodes
    results      \* the background result channel

uiVars == <<view, repaint, events>>
loopVars == <<phase, refill, commands>>
planVars == <<snapshot, saturated, tooLarge, inflight, slots>>
cacheVars == <<cache, limit, settled>>
workerVars == <<pending, working, results>>
vars == <<uiVars, loopVars, planVars, cacheVars, workerVars>>

\* The requests that something mentions, and their ids.
Mentioned ==
    inflight \cup ToSet(results)
        \cup {r \in {pending[s] : s \in Shards} \cup {working[s] : s \in Shards} :
                r # None}
InUse == {r.id : r \in Mentioned}

TypeOK ==
    /\ view \in Snapshots /\ repaint \in BOOLEAN /\ events \in 0 .. MaxEvents
    /\ commands \in Seq(Snapshots) /\ Len(commands) <= MaxCommands
    /\ phase \in {"commands", "results", "command", "refill"}
    /\ refill \in BOOLEAN
    /\ snapshot \in Snapshots \cup {None}
    /\ saturated \in BOOLEAN
    /\ tooLarge \subseteq [page : Pages, sig : Signatures]
    /\ inflight \subseteq Request
    /\ slots \in [Shards -> Pages \cup {None}]
    /\ cache \in Seq(Entry)
    /\ limit \in Nat /\ settled \in BOOLEAN
    /\ pending \in [Shards -> Request \cup {None}]
    /\ working \in [Shards -> Request \cup {None}]
    /\ results \in Seq(Request)
    /\ Cardinality(InUse) + Workers <= Cardinality(Ids)

Init ==
    /\ view \in {s \in Snapshots : s.paused} /\ repaint = TRUE /\ events = 0
    /\ commands = <<>> /\ phase = "commands" /\ refill = FALSE
    /\ snapshot = None /\ saturated = FALSE /\ tooLarge = {}
    /\ inflight = {} /\ slots = [s \in Shards |-> None]
    /\ cache = <<>> /\ limit = 0 /\ settled = FALSE
    /\ pending = [s \in Shards |-> None]
    /\ working = [s \in Shards |-> None]
    /\ results = <<>>

-----------------------------------------------------------------------------
(***************************************************************************)
(* The UI thread.                                                          *)
(***************************************************************************)
\* The reader turns a page, resizes the window, changes a setting or moves the
\* mouse, and a frame is due.
Act ==
    /\ events < MaxEvents
    /\ \E s \in Snapshots : view' = s
    /\ events' = events + 1
    /\ repaint' = TRUE
    /\ UNCHANGED <<loopVars, planVars, cacheVars, workerVars>>

\* publish_worker_manager_state, once per frame.
Publish ==
    /\ repaint /\ Len(commands) < MaxCommands
    /\ repaint' = FALSE
    /\ commands' = Append(commands, view)
    /\ UNCHANGED <<view, events, phase, refill, planVars, cacheVars, workerVars>>

\* A page to show is taken from the L2 cache (get_suitable): an entry up to 5%
\* narrower than required will do, the closest one is taken.
LookUp ==
    /\ \E p \in ToSet(view.visible) :
        LET required == SignatureOf[view.cond][p]
            Distance(e) == IF e.sig < required THEN required - e.sig ELSE e.sig - required
            suitable == {e \in ToSet(cache) : e.page = p /\ e.sig * 105 >= required * 100}
        IN  \E e \in suitable :
              /\ \A f \in suitable : Distance(e) <= Distance(f)
              /\ cache' = TouchEntry(cache, e)
    /\ UNCHANGED <<uiVars, loopVars, planVars, limit, settled, workerVars>>

-----------------------------------------------------------------------------
(***************************************************************************)
(* The manager thread.                                                     *)
(***************************************************************************)
Protected(s) == ToSet(s.visible)

Desired(s) == DesiredSequence(s.anchor, PageCount, s.visible)

PagesIn(requests) == {r.page : r \in requests}

\* build_streaming_cache_context: the plan for the manager's state.
PlanFor(s, entries, full, rejected, requests) ==
    LET spare == Workers - Cardinality(requests)
    IN  Plan(Desired(s), entries, s.max, full, 4 * (IF spare = 0 THEN 1 ELSE spare),
             PagesIn(requests), {k.page : k \in rejected}, Protected(s), spare)

\* Mutant: a page is sent to a worker whose slot is taken.
ChosenBusy(pages, requests, slot) ==
    LET First == {i \in DOMAIN pages :
                    \A j \in 1 .. i - 1 : ShardOf(pages[j]) # ShardOf(pages[i])}
        spare == Workers - Cardinality(requests)
    IN  {p \in Pages : \E i \in First :
            pages[i] = p /\ Cardinality({j \in First : j < i}) < spare}

\* Per worker the first page for it, if its slot is free, as far as there are
\* workers to spare.
Chosen(pages, requests, slot) ==
    LET First == {i \in DOMAIN pages :
                    /\ slot[ShardOf(pages[i])] = None
                    /\ \A j \in 1 .. i - 1 : ShardOf(pages[j]) # ShardOf(pages[i])}
        spare == Workers - Cardinality(requests)
    IN  {p \in Pages : \E i \in First :
            pages[i] = p /\ Cardinality({j \in First : j < i}) < spare}

\* A request id of its own for each worker, the least ones that are free.
FreshIds(shards) ==
    {f \in [shards -> Ids \ InUse] :
        /\ \A g, h \in shards : g # h => f[g] # f[h]
        /\ \A h \in shards : \A i \in Ids \ InUse :
                i < f[h] => \E g \in shards : g < h /\ f[g] = i}

\* dispatch_streaming_pages: each chosen page goes to its worker, in place of a
\* request the worker did not take yet.
Dispatch(s, requests, slot, chosen) ==
    LET given == {ShardOf(p) : p \in chosen}
        PageFor(h) == CHOOSE p \in chosen : ShardOf(p) = h
    IN  \E id \in FreshIds(given) :
        LET New(h) == [id |-> id[h], page |-> PageFor(h),
                       sig |-> SignatureOf[s.cond][PageFor(h)], cond |-> s.cond]
        IN  /\ inflight' = requests \cup {New(h) : h \in given}
            /\ slots' = [h \in Shards |-> IF h \in given THEN PageFor(h) ELSE slot[h]]
            /\ pending' = [h \in Shards |-> IF h \in given THEN New(h) ELSE pending[h]]

\* pump_background_work, on a snapshot and the manager's state before it: apply
\* the cache limit, plan and dispatch.
Pump(s, full, rejected, requests, slot) ==
    IF s.paused
    THEN /\ inflight' = requests /\ slots' = slot
         /\ settled' = FALSE
         /\ UNCHANGED <<cache, limit, pending>>
    ELSE \E kept \in {EvictToBudget(cache, s.max, Protected(s))} :
         \E plan \in {PlanFor(s, kept, full, rejected, requests)} :
            /\ \E chosen \in {Chosen(plan.pages, requests, slot)} :
                    Dispatch(s, requests, slot, chosen)
            /\ settled' = (plan.complete /\ requests = {})
            /\ cache' = kept /\ limit' = s.max

\* bg_cache_saturation_reset_required
ResetRequired(s) ==
    \/ snapshot = None
    \/ snapshot.max # s.max
    \/ snapshot.cond # s.cond

UpdateDue == phase \in {"commands", "command"} /\ commands # <<>>

\* Mutant: what was too large stays so when the limit grows.
UpdateKeepsTooLarge ==
    /\ UpdateDue
    /\ LET s == Head(commands)
       IN  /\ snapshot' = s
           /\ UNCHANGED tooLarge
           /\ IF ResetRequired(s)
              THEN /\ saturated' = FALSE
                   /\ Pump(s, FALSE, tooLarge, {}, [h \in Shards |-> None])
              ELSE /\ UNCHANGED saturated
                   /\ Pump(s, saturated, tooLarge, inflight, slots)
    /\ commands' = Tail(commands)
    /\ phase' = IF phase = "command" THEN "refill" ELSE "commands"
    /\ UNCHANGED <<uiVars, refill, working, results>>

\* apply_worker_manager_command for an Update: when the render condition or the
\* limit changed, forget the requests under way; then pump.
Update ==
    /\ UpdateDue
    /\ LET s == Head(commands)
       IN  /\ snapshot' = s
           /\ IF ResetRequired(s)
              THEN /\ saturated' = FALSE /\ tooLarge' = {}
                   /\ Pump(s, FALSE, {}, {}, [h \in Shards |-> None])
              ELSE /\ UNCHANGED <<saturated, tooLarge>>
                   /\ Pump(s, saturated, tooLarge, inflight, slots)
    /\ commands' = Tail(commands)
    /\ phase' = IF phase = "command" THEN "refill" ELSE "commands"
    /\ UNCHANGED <<uiVars, refill, working, results>>

\* A result that changes nothing but the request it answers.
Ignore ==
    /\ settled' = FALSE /\ refill' = FALSE
    /\ UNCHANGED <<repaint, saturated, tooLarge, cache, limit>>

\* bg_result_is_stale: the request was made under another render condition.
Stale(r) == r.cond # snapshot.cond \/ r.sig # SignatureOf[snapshot.cond][r.page]

\* The request a result answers, unless the manager forgot it.
Answered(r) == {q \in inflight : q.id = r.id}

\* The part of handle_background_result_streaming that weighs a decoded page
\* against the cache, and keeps or drops it.
Admit(r) ==
    LET protected == Protected(snapshot)
        entry == [page |-> r.page, sig |-> r.sig, bytes |-> BytesOf[r.page][r.sig]]
        key == [page |-> r.page, sig |-> r.sig]
    IN  /\ limit' = snapshot.max
        /\ refill' = TRUE
        /\ settled' = (inflight = Answered(r))
        /\ \E kept \in {EvictToBudget(cache, snapshot.max, protected)} :
           \E verdict \in {Admission(Desired(snapshot), kept, snapshot.max, entry, protected)} :
           IF ~verdict.admit
           THEN /\ cache' = kept
                /\ tooLarge' = IF verdict.tooLarge THEN tooLarge \cup {key} ELSE tooLarge
                /\ UNCHANGED <<repaint, saturated>>
           ELSE \E with \in {InsertEntry(kept, entry, snapshot.max, verdict.evict, protected)} :
                LET survived == Contains(with, entry)
                    evicted == \E e \in ToSet(kept) : ~Contains(with, e)
                IN  /\ cache' = with
                    /\ saturated' = (saturated \/ evicted \/ ~survived)
                    /\ repaint' = (repaint \/ survived)
                    /\ tooLarge' = IF survived THEN tooLarge \ {key}
                                   ELSE tooLarge \cup {key}

\* handle_background_result_streaming: an answer to a forgotten request, to one
\* made under other conditions or with an animation in it is dropped.  All
\* commands are taken before the first result; that none is left and that a result
\* is there are one look, so a command sent just between the two waits here until
\* the result has been handled, or is taken before it.
HandleDue ==
    /\ phase = "results" \/ (phase = "commands" /\ commands = <<>>)
    /\ results # <<>>

Handle ==
    /\ HandleDue
    /\ LET r == Head(results)
       IN  IF Answered(r) = {}
           THEN Ignore /\ UNCHANGED <<inflight, slots>>
           ELSE /\ inflight' = inflight \ Answered(r)
                /\ slots' = [slots EXCEPT ![ShardOf(r.page)] =
                                IF @ = r.page THEN None ELSE @]
                /\ IF Stale(r) \/ r.page \in Animated THEN Ignore ELSE Admit(r)
    /\ results' = Tail(results)
    /\ phase' = "command"
    /\ UNCHANGED <<view, events, commands, snapshot, pending, working>>

\* After a result and at most one command: pump again if the result was used,
\* and go on with the next result.
RefillDue == phase = "refill" \/ (phase = "command" /\ commands = <<>>)

Refill ==
    /\ RefillDue
    /\ IF refill
       THEN Pump(snapshot, saturated, tooLarge, inflight, slots)
       ELSE UNCHANGED <<inflight, slots, cacheVars, pending>>
    /\ phase' = IF results = <<>> THEN "commands" ELSE "results"
    /\ UNCHANGED <<uiVars, refill, commands, snapshot, saturated, tooLarge,
                   working, results>>

-----------------------------------------------------------------------------
(***************************************************************************)
(* The background workers (worker_loop; check_superseded is false).        *)
(***************************************************************************)
Take(s) ==
    /\ working[s] = None /\ pending[s] # None
    /\ working' = [working EXCEPT ![s] = pending[s]]
    /\ pending' = [pending EXCEPT ![s] = None]
    /\ UNCHANGED <<uiVars, loopVars, planVars, cacheVars, results>>

\* The result is sent, then a frame asked for.  The book has been opened: the answer
\* without pages of a thread that cannot open it (viewer_loader.rs:844) is left out.
Finish(s) ==
    /\ working[s] # None
    /\ results' = Append(results, working[s])
    /\ working' = [working EXCEPT ![s] = None]
    /\ repaint' = TRUE
    /\ UNCHANGED <<view, events, loopVars, planVars, cacheVars, pending>>

Next ==
    \/ Act \/ Publish \/ LookUp
    \/ Update \/ Handle \/ Refill
    \/ \E s \in Shards : Take(s) \/ Finish(s)

Spec == Init /\ [][Next]_vars

\* A frame that was asked for is drawn, the manager's thread and the workers run.
\* The manager's part is weak fairness with ENABLED written out: its guards are
\* cheap and its steps are not, and there is always a fresh id (TypeOK).
FairSpec ==
    /\ Spec
    /\ WF_vars(Publish)
    /\ \A s \in Shards : WF_vars(Take(s)) /\ WF_vars(Finish(s))
    /\ []<>~UpdateDue \/ []<><<Update>>_vars
    /\ []<>~HandleDue \/ []<><<Handle>>_vars
    /\ []<>~RefillDue \/ []<><<Refill>>_vars

-----------------------------------------------------------------------------
(***************************************************************************)
(* Properties.                                                             *)
(***************************************************************************)
Underway(r) ==
    \/ r \in {pending[s] : s \in Shards} \cup {working[s] : s \in Shards}
    \/ r \in ToSet(results)

\* A mailbox holds one request and a new one replaces it (SharedQueue), and a
\* changed condition makes the manager forget requests that are still under way
\* (apply_worker_manager_command).  Even so a request the manager waits for is
\* never replaced: it is in the mailbox, at the worker or among the results, and
\* its worker's slot is taken by it alone.  A request lost would keep its slot,
\* and its worker idle, for good.
RequestsKept ==
    /\ \A r \in inflight : Underway(r) /\ slots[ShardOf(r.page)] = r.page
    /\ \A r, q \in inflight : ShardOf(r.page) = ShardOf(q.page) => r = q
    /\ \A s \in Shards : slots[s] # None => \E r \in inflight : r.page = slots[s]

\* A page is decoded for the cache once: not while it is cached, and what is
\* cached of a page is one entry, though entries of an older render condition stay
\* in the cache (apply_worker_manager_command resets all but them).
\* And the cache is never over the limit it was given last, when pages come in
\* (insert_with_eviction_candidates) as when the limit falls (evict_to_budget).
CacheSound ==
    /\ PagesIn(inflight) \cap PagesOf(cache) = {}
    /\ Cardinality(PagesOf(cache)) = Len(cache)
    /\ BytesIn(cache) <= limit

\* What leaves the cache.  To make room for a decoded page
\* (plan_completion_admission): only pages off the screen that the present order
\* ranks below it, and the page stays.  To meet the limit (evict_to_budget): a
\* page on the screen only when nothing else is left.
EvictionJustified ==
    LET gone == {e \in ToSet(cache) : ~Contains(cache', e)}
        come == {e \in ToSet(cache') : ~Contains(cache, e)}
    IN  snapshot' # None =>
        /\ \A e \in gone, f \in come :
            BytesIn(cache) <= snapshot'.max =>
                /\ e.page \notin Protected(snapshot')
                /\ Rank(Desired(snapshot'), f.page) < Rank(Desired(snapshot'), e.page)
        /\ gone # {} /\ PagesOf(cache') \ Protected(snapshot') # {} =>
                \A e \in gone : e.page \notin Protected(snapshot')
Evictions == [][EvictionJustified]_vars

\* What the order of pages is meant to be: every page once; what is visible first,
\* then the current page; before the page at a distance forward, one page backward
\* for each whole burst, and before the one at a distance backward, as many bursts
\* forward, as far as there are pages.
OrderAsMeant(total, page, visible) ==
    LET order == DesiredSequence(page, total, visible)
        shown == ToSet(visible) \cap 0 .. total - 1
        burst == Burst(total - 1 - page)
        Before(p) ==
            IF p = page THEN 0
            ELSE IF p > page
            THEN (p - page) + Least(page, (p - page - 1) \div burst)
            ELSE (page - p) + Least(total - 1 - page, (page - p) * burst)
    IN  /\ ToSet(order) = 0 .. total - 1 /\ Len(order) = total
        /\ \A p, q \in 0 .. total - 1 :
            p # q => (Rank(order, p) < Rank(order, q) <=>
                \/ p \in shown /\ q \notin shown
                \/ p \in shown /\ q \in shown /\ p < q
                \/ p \notin shown /\ q \notin shown /\ Before(p) < Before(q))

\* The order in which pages are wanted (desired_sequence) is as it is meant.  (This
\* says nothing of the state, and is looked at in the first ones only.)
PolicyOrder ==
    snapshot = None /\ events = 0 =>
    \A total \in Totals : \A page \in 0 .. total - 1 :
      \A visible \in {<<>>, <<page>>, <<page, page + 1>>} :
        OrderAsMeant(total, page, visible)

MaxSignature == CHOOSE n \in Signatures : \A m \in Signatures : m <= n

\* All pages fit into the cache, whatever they are decoded for.
Roomy(s) ==
    FoldLeft(LAMBDA sum, p : sum + BytesOf[p - 1][MaxSignature], 0,
             [i \in 1 .. PageCount |-> i]) <= s.max

\* If the view stays as it is, streaming is not paused and there is room for the
\* book, every page off the screen is in the cache in the end and nothing more is
\* decoded, whatever was cached, forgotten or dropped before: a dropped result
\* does not pump (handle_background_result_streaming returns false), so others
\* must keep the pump going.
WantedDecoded ==
    \A s \in Snapshots : Roomy(s) /\ ~s.paused =>
        (<>[](view = s) =>
            <>[](inflight = {} /\ Pages \ Protected(s) \subseteq PagesOf(cache)))
=============================================================================
