---------------------------- MODULE ViewerProofs ----------------------------
(***************************************************************************)
(* Proofs about the Viewer's window, for every book and number of events:  *)
(* its background decoding (Prefetch), its page turning (ViewerPages),     *)
(* what its cache of decoded pages keeps and the order pages are wanted in *)
(* (Prefetch again, with StreamingCache).                                  *)
(***************************************************************************)
EXTENDS Prefetch, ViewerPages, SequenceTheorems, FiniteSetTheorems,
        WellFoundedInduction, TLAPS

(***************************************************************************)
(* Background decoding: a request the manager waits for is never replaced  *)
(* (RequestsKept), for every book, number of workers and set of snapshots. *)
(*                                                                         *)
(* RequestsKept alone is not inductive: that a mailbox whose worker has a  *)
(* free slot holds no awaited request needs mailboxes and slots to hold    *)
(* pages of their worker only (InPlace), and that a result frees the slot  *)
(* of no other request needs ids to be unique among all requests anywhere, *)
(* forgotten ones included (IdsUnique).  What the planner and the cache    *)
(* decide does not matter, only that a page is sent to a free slot.        *)
(***************************************************************************)
Typed ==
    /\ view \in Snapshots
    /\ commands \in Seq(Snapshots)
    /\ snapshot \in Snapshots \cup {None}
    /\ refill \in BOOLEAN
    /\ inflight \subseteq Request
    /\ slots \in [Shards -> Pages \cup {None}]
    /\ pending \in [Shards -> Request \cup {None}]
    /\ working \in [Shards -> Request \cup {None}]
    /\ results \in Seq(Request)

\* The parts of RequestsKept, for any set of requests and any slots.
Kept(requests, slot) ==
    /\ \A r \in requests : Underway(r) /\ slot[ShardOf(r.page)] = r.page
    /\ \A r, q \in requests : ShardOf(r.page) = ShardOf(q.page) => r = q
    /\ \A s \in Shards : slot[s] # None => \E r \in requests : r.page = slot[s]

Placed(slot) == \A s \in Shards : slot[s] # None => ShardOf(slot[s]) = s

\* A mailbox and a slot hold pages of their own worker.
InPlace ==
    /\ Placed(slots)
    /\ \A s \in Shards : pending[s] # None => ShardOf(pending[s].page) = s

\* No two requests have the same id.
IdsUnique == \A q, r \in Mentioned : q.id = r.id => q = r

\* Before the first snapshot nothing is asked for.
Idle == snapshot = None => inflight = {} /\ ~refill

Inv ==
    /\ Typed
    /\ Kept(inflight, slots)
    /\ InPlace
    /\ IdsUnique
    /\ Idle

-----------------------------------------------------------------------------
\* Every page has a worker.
LEMMA ShardOfPage ==
    ASSUME NEW p \in Pages
    PROVE  ShardOf(p) \in Shards /\ p # None
BY ConstantsAssumption, SMT DEF Pages, Shards, ShardOf

\* What a request is made of.
LEMMA RequestFields ==
    ASSUME NEW r \in Request
    PROVE  r.id \in Ids /\ r.page \in Pages /\ r # None
BY NoneAssumption DEF Request

\* A request for any page of a snapshot is one.
LEMMA NewRequest ==
    ASSUME NEW s \in Snapshots, NEW p \in Pages, NEW i \in Ids
    PROVE  [id |-> i, page |-> p, sig |-> SignatureOf[s.cond][p], cond |-> s.cond]
               \in Request
<1>1. s.cond \in Conditions
  BY ConstantsAssumption
<1>2. SignatureOf[s.cond][p] \in Signatures
  BY <1>1 DEF Signatures
<1>3. QED
  BY <1>1, <1>2 DEF Request

\* Taking the head of the results leaves all others there.
LEMMA RestOfResults ==
    ASSUME NEW s \in Seq(Request), s # <<>>
    PROVE  /\ Head(s) \in ToSet(s) /\ Head(s) \in Request
           /\ Tail(s) \in Seq(Request)
           /\ ToSet(Tail(s)) \subseteq ToSet(s)
           /\ \A r \in ToSet(s) : r # Head(s) => r \in ToSet(Tail(s))
<1>1. Head(s) = s[1] /\ 1 \in DOMAIN s
  OBVIOUS
<1>2. Tail(s) \in Seq(Request) /\ Len(Tail(s)) = Len(s) - 1
  OBVIOUS
<1>3. \A i \in 1 .. Len(s) - 1 : Tail(s)[i] = s[i + 1]
  OBVIOUS
<1>4. ToSet(Tail(s)) \subseteq ToSet(s)
  <2>1. SUFFICES ASSUME NEW i \in 1 .. Len(s) - 1
                 PROVE  \E j \in DOMAIN s : Tail(s)[i] = s[j]
    BY <1>2 DEF ToSet
  <2>2. i + 1 \in DOMAIN s
    OBVIOUS
  <2>3. QED
    BY <1>3, <2>2
<1>5. ASSUME NEW r \in ToSet(s), r # Head(s)
      PROVE  r \in ToSet(Tail(s))
  <2>1. PICK i \in DOMAIN s : s[i] = r
    BY DEF ToSet
  <2>2. i - 1 \in 1 .. Len(s) - 1
    BY <1>1, <1>5, <2>1
  <2>3. Tail(s)[i - 1] = r
    BY <1>3, <2>1, <2>2
  <2>4. QED
    BY <1>2, <2>2, <2>3 DEF ToSet
<1>6. QED
  BY <1>1, <1>2, <1>4, <1>5 DEF ToSet

\* Adding a result.
LEMMA MoreResults ==
    ASSUME NEW s \in Seq(Request), NEW r \in Request
    PROVE  /\ Append(s, r) \in Seq(Request)
           /\ ToSet(Append(s, r)) = ToSet(s) \cup {r}
<1>1. /\ Append(s, r) \in Seq(Request) /\ Len(Append(s, r)) = Len(s) + 1
      /\ Append(s, r)[Len(s) + 1] = r
      /\ \A i \in 1 .. Len(s) : Append(s, r)[i] = s[i]
  OBVIOUS
<1>2. DOMAIN s = 1 .. Len(s) /\ DOMAIN Append(s, r) = 1 .. Len(s) + 1
  BY <1>1
<1>3. QED
  BY <1>1, <1>2 DEF ToSet

\* Where requests are mentioned.
LEMMA MentionedFacts ==
    ASSUME Typed
    PROVE  /\ inflight \subseteq Mentioned /\ ToSet(results) \subseteq Mentioned
           /\ \A h \in Shards : pending[h] # None => pending[h] \in Mentioned
           /\ \A h \in Shards : working[h] # None => working[h] \in Mentioned
           /\ Mentioned \subseteq Request
<1>1. ToSet(results) \subseteq Request
  BY DEF Typed, ToSet
<1>2. QED
  BY <1>1 DEF Typed, Mentioned

\* Pages are sent to free slots only.
LEMMA ChosenFree ==
    ASSUME NEW pages, NEW requests, NEW slot
    PROVE  /\ Chosen(pages, requests, slot) \subseteq Pages
           /\ \A p \in Chosen(pages, requests, slot) : slot[ShardOf(p)] = None
BY DEF Chosen

\* dispatch_streaming_pages keeps the invariant's parts: what it overwrites in a
\* mailbox is awaited by no one, and what it sends has a new id.
LEMMA DispatchKeeps ==
    ASSUME Typed, InPlace, IdsUnique,
           NEW s \in Snapshots,
           NEW requests, requests \subseteq inflight,
           NEW slot \in [Shards -> Pages \cup {None}],
           Kept(requests, slot), Placed(slot),
           NEW chosen, chosen \subseteq Pages,
           \A p \in chosen : slot[ShardOf(p)] = None,
           Dispatch(s, requests, slot, chosen),
           UNCHANGED <<working, results>>
    PROVE  /\ inflight' \subseteq Request
           /\ slots' \in [Shards -> Pages \cup {None}]
           /\ pending' \in [Shards -> Request \cup {None}]
           /\ Kept(inflight, slots)'
           /\ InPlace'
           /\ IdsUnique'
<1> DEFINE given == {ShardOf(p) : p \in chosen}
           PageFor(h) == CHOOSE p \in chosen : ShardOf(p) = h
<1>1. PICK id \in FreshIds(given) :
        LET New(h) == [id |-> id[h], page |-> PageFor(h),
                       sig |-> SignatureOf[s.cond][PageFor(h)], cond |-> s.cond]
        IN  /\ inflight' = requests \cup {New(h) : h \in given}
            /\ slots' = [h \in Shards |-> IF h \in given THEN PageFor(h) ELSE slot[h]]
            /\ pending' = [h \in Shards |-> IF h \in given THEN New(h) ELSE pending[h]]
  BY DEF Dispatch
<1> DEFINE New(h) == [id |-> id[h], page |-> PageFor(h),
                      sig |-> SignatureOf[s.cond][PageFor(h)], cond |-> s.cond]
<1>2. /\ inflight' = requests \cup {New(h) : h \in given}
      /\ slots' = [h \in Shards |-> IF h \in given THEN PageFor(h) ELSE slot[h]]
      /\ pending' = [h \in Shards |-> IF h \in given THEN New(h) ELSE pending[h]]
  BY <1>1
<1>3. \A h \in given : /\ PageFor(h) \in chosen /\ PageFor(h) \in Pages
                       /\ ShardOf(PageFor(h)) = h /\ h \in Shards
                       /\ slot[h] = None /\ PageFor(h) # None
  <2>1. SUFFICES ASSUME NEW h \in given
                 PROVE  /\ PageFor(h) \in chosen /\ ShardOf(PageFor(h)) = h
    BY ShardOfPage
  <2>2. \E p \in chosen : ShardOf(p) = h
    OBVIOUS
  <2>3. QED
    BY <2>2
<1>4. /\ \A h \in given : id[h] \in Ids /\ id[h] \notin InUse
      /\ \A g, h \in given : g # h => id[g] # id[h]
  BY <1>1 DEF FreshIds
<1>5. \A h \in given : /\ New(h) \in Request /\ New(h).id = id[h]
                       /\ New(h).page = PageFor(h) /\ New(h) # None
  <2>1. SUFFICES ASSUME NEW h \in given PROVE New(h) \in Request
    BY RequestFields
  <2>2. QED
    BY <1>3, <1>4, NewRequest
<1> HIDE DEF New, PageFor
<1>6. inflight' \subseteq Request
  BY <1>2, <1>5 DEF Typed
<1>7. slots' \in [Shards -> Pages \cup {None}]
  BY <1>2, <1>3
<1>8. pending' \in [Shards -> Request \cup {None}]
  BY <1>2, <1>5 DEF Typed
<1>9. Kept(inflight, slots)'
  <2>1. ASSUME NEW r \in inflight'
        PROVE  Underway(r)' /\ slots'[ShardOf(r.page)] = r.page
    <3>1. CASE r \in requests
      <4>1. /\ Underway(r) /\ slot[ShardOf(r.page)] = r.page /\ r \in Request
            /\ r.page # None /\ ShardOf(r.page) \in Shards
        BY <3>1, ShardOfPage, RequestFields DEF Kept, Typed
      <4>2. ShardOf(r.page) \notin given
        BY <1>3, <4>1
      <4>3. slots'[ShardOf(r.page)] = r.page
        BY <1>2, <4>1, <4>2
      <4>4. ASSUME NEW h \in Shards, r = pending[h]
            PROVE  r = pending'[h]
        BY <1>2, <4>1, <4>2, <4>4, RequestFields DEF InPlace
      <4>5. QED
        BY <4>1, <4>3, <4>4 DEF Underway
    <3>2. CASE r \notin requests
      <4>1. PICK h \in given : r = New(h)
        BY <1>2, <2>1, <3>2
      <4>2. h \in Shards /\ r.page = PageFor(h) /\ ShardOf(r.page) = h
        BY <1>3, <1>5, <4>1
      <4>3. slots'[h] = PageFor(h) /\ pending'[h] = r
        BY <1>2, <4>1, <4>2
      <4>4. QED
        BY <4>2, <4>3 DEF Underway
    <3>3. QED
      BY <3>1, <3>2
  <2>2. ASSUME NEW r \in inflight', NEW q \in inflight',
               ShardOf(r.page) = ShardOf(q.page)
        PROVE  r = q
    <3>1. ASSUME NEW x \in requests
          PROVE  ShardOf(x.page) \notin given
      BY <1>3, <3>1, ShardOfPage, RequestFields DEF Kept, Typed
    <3>2. ASSUME NEW h \in given
          PROVE  ShardOf(New(h).page) = h
      BY <1>3, <1>5
    <3>3. QED
      BY <1>2, <2>2, <3>1, <3>2 DEF Kept
  <2>3. ASSUME NEW h \in Shards, slots'[h] # None
        PROVE  \E r \in inflight' : r.page = slots'[h]
    <3>1. CASE h \in given
      BY <1>2, <1>5, <3>1
    <3>2. CASE h \notin given
      BY <1>2, <2>3, <3>2 DEF Kept
    <3>3. QED
      BY <3>1, <3>2
  <2>4. QED
    BY <2>1, <2>2, <2>3 DEF Kept
<1>10. InPlace'
  <2>1. ASSUME NEW h \in Shards, slots'[h] # None
        PROVE  ShardOf(slots'[h]) = h
    BY <1>2, <1>3, <2>1 DEF Placed
  <2>2. ASSUME NEW h \in Shards, pending'[h] # None
        PROVE  ShardOf(pending'[h].page) = h
    BY <1>2, <1>3, <1>5, <2>2 DEF InPlace
  <2>3. QED
    BY <2>1, <2>2 DEF InPlace, Placed
<1>11. IdsUnique'
  <2>1. Mentioned' \subseteq Mentioned \cup {New(h) : h \in given}
    <3>1. ASSUME NEW h \in Shards, pending'[h] # None
          PROVE  pending'[h] \in Mentioned \cup {New(g) : g \in given}
      BY <1>2, <3>1, MentionedFacts
    <3>2. inflight' \subseteq Mentioned \cup {New(h) : h \in given}
      BY <1>2, MentionedFacts
    <3>3. QED
      BY <3>1, <3>2, MentionedFacts DEF Mentioned
  <2>2. ASSUME NEW q \in Mentioned, NEW h \in given
        PROVE  q.id # New(h).id
    BY <1>4, <1>5 DEF InUse
  <2>3. ASSUME NEW g \in given, NEW h \in given, New(g).id = New(h).id
        PROVE  New(g) = New(h)
    BY <1>4, <1>5, <2>3
  <2>4. QED
    BY <2>1, <2>2, <2>3 DEF IdsUnique
<1>12. QED
  BY <1>6, <1>7, <1>8, <1>9, <1>10, <1>11

\* pump_background_work keeps the invariant's parts, paused or not.
LEMMA PumpKeeps ==
    ASSUME Typed, InPlace, IdsUnique,
           NEW s \in Snapshots,
           NEW full, NEW rejected,
           NEW requests, requests \subseteq inflight,
           NEW slot \in [Shards -> Pages \cup {None}],
           Kept(requests, slot), Placed(slot),
           Pump(s, full, rejected, requests, slot),
           UNCHANGED <<working, results>>
    PROVE  /\ inflight' \subseteq Request
           /\ slots' \in [Shards -> Pages \cup {None}]
           /\ pending' \in [Shards -> Request \cup {None}]
           /\ Kept(inflight, slots)'
           /\ InPlace'
           /\ IdsUnique'
<1>1. CASE s.paused
  <2>1. /\ inflight' = requests /\ slots' = slot
        /\ UNCHANGED <<pending, working, results>>
    BY <1>1 DEF Pump
  <2>2. inflight' \subseteq Request /\ pending' \in [Shards -> Request \cup {None}]
    BY <2>1 DEF Typed
  <2>3. Kept(inflight, slots)'
    BY <2>1 DEF Kept, Underway
  <2>4. InPlace'
    BY <2>1 DEF InPlace, Placed
  <2>5. Mentioned' \subseteq Mentioned
    BY <2>1 DEF Mentioned
  <2>6. QED
    BY <2>1, <2>2, <2>3, <2>4, <2>5 DEF IdsUnique
<1>2. CASE ~s.paused
  <2>1. PICK chosen, plan :
          /\ chosen = Chosen(plan.pages, requests, slot)
          /\ Dispatch(s, requests, slot, chosen)
    BY <1>2 DEF Pump
  <2>2. /\ chosen \subseteq Pages
        /\ \A p \in chosen : slot[ShardOf(p)] = None
    BY <2>1, ChosenFree
  <2>3. QED
    BY <2>1, <2>2, DispatchKeeps
<1>3. QED
  BY <1>1, <1>2

\* With nothing awaited and all slots free, as after a reset, nothing is lost.
LEMMA NothingKept == /\ [h \in Shards |-> None] \in [Shards -> Pages \cup {None}]
                     /\ Kept({}, [h \in Shards |-> None])
                     /\ Placed([h \in Shards |-> None])
BY DEF Kept, Placed

-----------------------------------------------------------------------------
(***************************************************************************)
(* The invariant holds in every state.                                     *)
(***************************************************************************)
LEMMA InvInit == Init => Inv
<1> SUFFICES ASSUME Init PROVE Inv
  OBVIOUS
<1> USE DEF Init
<1>1. ToSet(results) = {}
  BY DEF ToSet
<1>2. Mentioned = {}
  BY <1>1 DEF Mentioned
<1>3. Typed
  <2>1. /\ view \in Snapshots
        /\ commands \in Seq(Snapshots) /\ results \in Seq(Request)
    OBVIOUS
  <2>2. /\ slots \in [Shards -> Pages \cup {None}]
        /\ pending \in [Shards -> Request \cup {None}]
        /\ working \in [Shards -> Request \cup {None}]
    OBVIOUS
  <2>3. refill \in BOOLEAN /\ inflight \subseteq Request
    OBVIOUS
  <2>4. QED
    BY <2>1, <2>2, <2>3 DEF Typed
<1>4. Kept(inflight, slots) /\ Placed(slots)
  BY NothingKept
<1>5. QED
  BY <1>2, <1>3, <1>4 DEF Inv, InPlace, IdsUnique, Idle

LEMMA UpdateKeepsInv ==
    ASSUME Inv, Update
    PROVE  Inv'
<1> DEFINE s == Head(commands)
<1>1. /\ commands # <<>> /\ commands' = Tail(commands) /\ snapshot' = s
      /\ UNCHANGED <<view, refill, working, results>>
  BY DEF Update, UpdateDue, uiVars
<1>2. Typed /\ Kept(inflight, slots) /\ InPlace /\ IdsUnique
  BY DEF Inv
<1>3. s \in Snapshots /\ Tail(commands) \in Seq(Snapshots)
  BY <1>1, <1>2 DEF Typed
<1>4. /\ inflight' \subseteq Request
      /\ slots' \in [Shards -> Pages \cup {None}]
      /\ pending' \in [Shards -> Request \cup {None}]
      /\ Kept(inflight, slots)' /\ InPlace' /\ IdsUnique'
  <2>1. CASE ResetRequired(s)
    <3>1. Pump(s, FALSE, {}, {}, [h \in Shards |-> None])
      BY <2>1 DEF Update
    <3>2. QED
      BY <1>1, <1>2, <1>3, <3>1, PumpKeeps, NothingKept
  <2>2. CASE ~ResetRequired(s)
    <3>1. Pump(s, saturated, tooLarge, inflight, slots)
      BY <2>2 DEF Update
    <3>2. slots \in [Shards -> Pages \cup {None}] /\ Placed(slots)
      BY <1>2 DEF Typed, InPlace
    <3>3. QED
      BY <1>1, <1>2, <1>3, <3>1, <3>2, PumpKeeps
  <2>3. QED
    BY <2>1, <2>2
<1>5. Typed'
  BY <1>1, <1>2, <1>3, <1>4 DEF Typed
<1>6. Idle'
  BY <1>1, <1>3, ConstantsAssumption DEF Idle
<1>7. QED
  BY <1>4, <1>5, <1>6 DEF Inv

LEMMA RefillKeepsInv ==
    ASSUME Inv, Refill
    PROVE  Inv'
<1>1. UNCHANGED <<view, commands, snapshot, refill, working, results>>
  BY DEF Refill, uiVars
<1>2. Typed /\ Kept(inflight, slots) /\ InPlace /\ IdsUnique /\ Idle
  BY DEF Inv
<1>3. CASE refill
  <2>1. Pump(snapshot, saturated, tooLarge, inflight, slots)
    BY <1>3 DEF Refill
  <2>2. snapshot \in Snapshots
    BY <1>2, <1>3 DEF Typed, Idle
  <2>3. slots \in [Shards -> Pages \cup {None}] /\ Placed(slots)
    BY <1>2 DEF Typed, InPlace
  <2>4. /\ inflight' \subseteq Request
        /\ slots' \in [Shards -> Pages \cup {None}]
        /\ pending' \in [Shards -> Request \cup {None}]
        /\ Kept(inflight, slots)' /\ InPlace' /\ IdsUnique'
    BY <1>1, <1>2, <2>1, <2>2, <2>3, PumpKeeps
  <2>5. Typed'
    BY <1>1, <1>2, <2>4 DEF Typed
  <2>6. Idle'
    BY <1>1, <2>2, ConstantsAssumption DEF Idle
  <2>7. QED
    BY <2>4, <2>5, <2>6 DEF Inv
<1>4. CASE ~refill
  <2>1. UNCHANGED <<inflight, slots, pending>>
    BY <1>4 DEF Refill, cacheVars
  <2>2. QED
    BY <1>1, <1>2, <2>1
      DEF Inv, Typed, Kept, Underway, InPlace, Placed, IdsUnique, Mentioned, Idle
<1>5. QED
  BY <1>3, <1>4

\* A result frees its own request's slot and no other.
LEMMA HandleKeepsInv ==
    ASSUME Inv, Handle
    PROVE  Inv'
<1> DEFINE r == Head(results)
<1>1. /\ results # <<>> /\ results' = Tail(results)
      /\ UNCHANGED <<view, commands, snapshot, pending, working>>
  BY DEF Handle, HandleDue
<1>2. Typed /\ Kept(inflight, slots) /\ InPlace /\ IdsUnique /\ Idle
  BY DEF Inv
<1>3. /\ r \in ToSet(results) /\ r \in Request
      /\ results' \in Seq(Request)
      /\ ToSet(results') \subseteq ToSet(results)
      /\ \A q \in ToSet(results) : q # r => q \in ToSet(results')
  BY <1>1, <1>2, RestOfResults DEF Typed
<1>4. \A q \in inflight : q # r => Underway(q)'
  BY <1>1, <1>2, <1>3 DEF Kept, Underway
<1>5. \A q \in inflight : q.id = r.id => q = r
  BY <1>2, <1>3, MentionedFacts DEF IdsUnique
<1>6. CASE Answered(r) = {}
  <2>1. UNCHANGED <<inflight, slots>> /\ refill' = FALSE
    BY <1>6 DEF Handle, Ignore
  <2>2. r \notin inflight
    BY <1>6 DEF Answered
  <2>3. Typed'
    BY <1>1, <1>2, <1>3, <2>1 DEF Typed
  <2>4. Kept(inflight, slots)'
    BY <1>2, <1>4, <2>1, <2>2 DEF Kept
  <2>5. Mentioned' \subseteq Mentioned
    BY <1>1, <1>3, <2>1 DEF Mentioned
  <2>6. InPlace' /\ Idle'
    BY <1>1, <1>2, <2>1 DEF InPlace, Placed, Idle
  <2>7. QED
    BY <1>2, <2>3, <2>4, <2>5, <2>6 DEF Inv, IdsUnique
<1>7. CASE Answered(r) # {}
  <2>1. /\ inflight' = inflight \ Answered(r)
        /\ slots' = [slots EXCEPT ![ShardOf(r.page)] =
                        IF @ = r.page THEN None ELSE @]
    BY <1>7 DEF Handle
  <2>2. refill' \in BOOLEAN
    BY <1>7 DEF Handle, Ignore, Admit
  <2>3. Answered(r) = {r} /\ r \in inflight
    BY <1>5, <1>7 DEF Answered
  <2>4. /\ ShardOf(r.page) \in Shards /\ slots[ShardOf(r.page)] = r.page
        /\ slots \in [Shards -> Pages \cup {None}]
    BY <1>2, <1>3, <2>3, ShardOfPage, RequestFields DEF Kept, Typed
  <2>5. slots' = [h \in Shards |-> IF h = ShardOf(r.page) THEN None ELSE slots[h]]
    BY <2>1, <2>4
  <2>6. Typed'
    <3>1. slots' \in [Shards -> Pages \cup {None}]
      BY <2>4, <2>5
    <3>2. QED
      BY <1>1, <1>2, <1>3, <2>1, <2>2, <3>1 DEF Typed
  <2>7. Kept(inflight, slots)'
    <3>1. ASSUME NEW q \in inflight'
          PROVE  Underway(q)' /\ slots'[ShardOf(q.page)] = q.page
      <4>1. q \in inflight /\ q # r /\ q \in Request
        BY <1>2, <2>1, <2>3 DEF Typed
      <4>2. ShardOf(q.page) # ShardOf(r.page) /\ slots[ShardOf(q.page)] = q.page
        BY <1>2, <2>3, <4>1 DEF Kept
      <4>3. ShardOf(q.page) \in Shards
        BY <4>1, ShardOfPage, RequestFields
      <4>4. QED
        BY <1>4, <2>5, <4>1, <4>2, <4>3
    <3>2. ASSUME NEW h \in Shards, slots'[h] # None
          PROVE  \E q \in inflight' : q.page = slots'[h]
      <4>1. slots'[h] = slots[h] /\ h # ShardOf(r.page)
        BY <2>5, <3>2
      <4>2. PICK q \in inflight : q.page = slots[h]
        BY <1>2, <3>2, <4>1 DEF Kept
      <4>3. q # r
        BY <1>2, <3>2, <4>1, <4>2 DEF InPlace, Placed
      <4>4. QED
        BY <2>1, <2>3, <4>1, <4>2, <4>3
    <3>3. QED
      BY <1>2, <2>1, <3>1, <3>2 DEF Kept
  <2>8. Mentioned' \subseteq Mentioned
    BY <1>1, <1>3, <2>1 DEF Mentioned
  <2>9. InPlace'
    BY <1>1, <1>2, <2>5 DEF InPlace, Placed
  <2>10. Idle'
    BY <1>1, <1>2, <2>3 DEF Idle
  <2>11. QED
    BY <1>2, <2>6, <2>7, <2>8, <2>9, <2>10 DEF Inv, IdsUnique
<1>8. QED
  BY <1>6, <1>7

LEMMA TakeKeepsInv ==
    ASSUME Inv, NEW s \in Shards, Take(s)
    PROVE  Inv'
<1>1. /\ working[s] = None /\ pending[s] # None
      /\ working' = [working EXCEPT ![s] = pending[s]]
      /\ pending' = [pending EXCEPT ![s] = None]
      /\ UNCHANGED <<view, commands, snapshot, refill, inflight, slots, results>>
  BY DEF Take, uiVars, loopVars, planVars
<1>2. Typed /\ Kept(inflight, slots) /\ InPlace /\ IdsUnique /\ Idle
  BY DEF Inv
<1>3. /\ working' = [h \in Shards |-> IF h = s THEN pending[s] ELSE working[h]]
      /\ pending' = [h \in Shards |-> IF h = s THEN None ELSE pending[h]]
  BY <1>1, <1>2 DEF Typed
<1>4. Typed'
  BY <1>1, <1>2, <1>3 DEF Typed
<1>5. ASSUME NEW r \in inflight, Underway(r)
      PROVE  Underway(r)'
  <2>1. r # None
    BY <1>2, RequestFields DEF Typed
  <2>2. ASSUME NEW h \in Shards, r = pending[h]
        PROVE  r = pending'[h] \/ r = working'[s]
    BY <1>3, <2>2
  <2>3. ASSUME NEW h \in Shards, r = working[h]
        PROVE  r = working'[h]
    BY <1>1, <1>3, <2>1, <2>3
  <2>4. QED
    BY <1>1, <1>5, <2>2, <2>3 DEF Underway
<1>6. Kept(inflight, slots)'
  BY <1>1, <1>2, <1>5 DEF Kept
<1>7. Mentioned' \subseteq Mentioned
  BY <1>1, <1>3 DEF Mentioned
<1>8. InPlace' /\ Idle'
  BY <1>1, <1>2, <1>3 DEF InPlace, Placed, Idle
<1>9. QED
  BY <1>2, <1>4, <1>6, <1>7, <1>8 DEF Inv, IdsUnique

LEMMA FinishKeepsInv ==
    ASSUME Inv, NEW s \in Shards, Finish(s)
    PROVE  Inv'
<1>1. /\ working[s] # None
      /\ results' = Append(results, working[s])
      /\ working' = [working EXCEPT ![s] = None]
      /\ UNCHANGED <<view, commands, snapshot, refill, inflight, slots, pending>>
  BY DEF Finish, loopVars, planVars
<1>2. Typed /\ Kept(inflight, slots) /\ InPlace /\ IdsUnique /\ Idle
  BY DEF Inv
<1>3. working' = [h \in Shards |-> IF h = s THEN None ELSE working[h]]
  BY <1>1, <1>2 DEF Typed
<1>4. results' \in Seq(Request) /\ ToSet(results') = ToSet(results) \cup {working[s]}
  BY <1>1, <1>2, MoreResults DEF Typed
<1>5. Typed'
  BY <1>1, <1>2, <1>3, <1>4 DEF Typed
<1>6. ASSUME NEW r \in inflight, Underway(r)
      PROVE  Underway(r)'
  <2>1. ASSUME NEW h \in Shards, r = working[h]
        PROVE  r = working'[h] \/ r \in ToSet(results')
    BY <1>3, <1>4, <2>1
  <2>2. QED
    BY <1>1, <1>4, <1>6, <2>1 DEF Underway
<1>7. Kept(inflight, slots)'
  BY <1>1, <1>2, <1>6 DEF Kept
<1>8. Mentioned' \subseteq Mentioned
  BY <1>1, <1>3, <1>4 DEF Mentioned
<1>9. InPlace' /\ Idle'
  BY <1>1, <1>2 DEF InPlace, Placed, Idle
<1>10. QED
  BY <1>2, <1>5, <1>7, <1>8, <1>9 DEF Inv, IdsUnique

\* Every step keeps the invariant.
LEMMA InvNext == Inv /\ [Next]_vars => Inv'
<1> SUFFICES ASSUME Inv, [Next]_vars PROVE Inv'
  OBVIOUS
<1>0. Typed /\ Kept(inflight, slots) /\ InPlace /\ IdsUnique /\ Idle
  BY DEF Inv
<1>1. ASSUME UNCHANGED <<snapshot, refill, inflight, slots, pending, working,
                         results>>,
             view' \in Snapshots, commands' \in Seq(Snapshots)
      PROVE  Inv'
  BY <1>1 DEF Inv, Typed, Kept, Underway, InPlace, Placed, IdsUnique, Mentioned, Idle
<1>2. CASE Act
  BY <1>0, <1>1, <1>2 DEF Act, Typed, loopVars, planVars, workerVars
<1>3. CASE Publish
  <2>1. commands' = Append(commands, view) /\ UNCHANGED view
    BY <1>3 DEF Publish
  <2>2. commands' \in Seq(Snapshots) /\ view' \in Snapshots
    BY <1>0, <2>1 DEF Typed
  <2>3. QED
    BY <1>1, <1>3, <2>2 DEF Publish, planVars, workerVars
<1>4. CASE LookUp
  BY <1>0, <1>1, <1>4 DEF LookUp, Typed, uiVars, loopVars, planVars, workerVars
<1>5. CASE Update
  BY <1>5, UpdateKeepsInv
<1>6. CASE Handle
  BY <1>6, HandleKeepsInv
<1>7. CASE Refill
  BY <1>7, RefillKeepsInv
<1>8. ASSUME NEW s \in Shards, Take(s) \/ Finish(s)
      PROVE  Inv'
  BY <1>8, TakeKeepsInv, FinishKeepsInv
<1>9. CASE UNCHANGED vars
  BY <1>0, <1>1, <1>9 DEF vars, Typed, uiVars, loopVars, planVars, workerVars
<1>10. QED
  BY <1>2, <1>3, <1>4, <1>5, <1>6, <1>7, <1>8, <1>9 DEF Next

\* A request the manager waits for is never replaced, and its worker's slot is
\* taken by it alone.
THEOREM RequestsKeptHolds == Spec => []RequestsKept
<1>1. Inv => RequestsKept
  BY DEF Inv, Kept, RequestsKept
<1>2. QED
  BY <1>1, InvInit, InvNext, PTL DEF Spec

(***************************************************************************)
(* Page turning: at rest the screen shows the view wanted (IdleShowsView), *)
(* a page shown on the way is on the way (ApproachesTarget), and what is   *)
(* awaited can come: for an animation (StreamWaits), and for a view unless *)
(* a page is turned (OnlyATurnLoses).                                      *)
(*                                                                         *)
(* PagesInv says what the viewer's record, the boxes, the requests worked  *)
(* on and the results can be.  Fine is the invariant of the record, which  *)
(* every operator on it is shown to keep: the group that loads is of the   *)
(* view requested, so that when its last result comes the screen shows     *)
(* that view; and the target is ahead of the request by the queue only.    *)
(* Threads keep to pages of their own parity, so that the two pages of a   *)
(* view never meet in one box; and WayInv is StreamWaits without its       *)
(* condition.                                                              *)
(***************************************************************************)
Fields == {"count", "displayed", "requested", "target", "setting", "blank", "loading", "error",
           "initial", "mode", "nav", "queue", "group", "left", "right", "stream", "fills",
           "slides", "resume", "box"}

PageIds == Nat \X Nat \X {"display", "fill"}

\* What the record of the viewer's state is made of.
Shaped(w) ==
    /\ DOMAIN w = Fields
    /\ w.count \in {0, N} /\ w.nav \in Nat
    /\ w.displayed \in BookPages /\ w.requested \in BookPages /\ w.target \in BookPages
    /\ w.queue \in BookPages \cup {NoPage}
    /\ w.setting \in {"single", "spread", "auto"}
    /\ w.loading \in BOOLEAN /\ w.error \in BOOLEAN /\ w.initial \in BOOLEAN
    /\ DOMAIN w.left = {"page", "filling"} /\ DOMAIN w.right = {"page", "filling"}
    /\ w.left.filling \in BOOLEAN /\ w.right.filling \in BOOLEAN
    /\ DOMAIN w.fills = Sides
    /\ DOMAIN w.box = Threads

\* A thread that has loaded an animation has the book open.
Opened(p, op) == p \in Animations => ThreadOf(p) \in op

\* A result for the view ps: what is shown left and right of it.
ResultFine(ps, r, op) ==
    /\ DOMAIN r = {"side", "ok", "count", "left", "right"}
    /\ r.side \in Sides /\ r.ok \in BOOLEAN
    /\ r.count = IF r.ok THEN N ELSE 0
    /\ r.side = "left" => r.right = NoPage /\ (r.ok => r.left = ps[1])
    /\ r.side = "right" => r.left \in {ps[2], NoPage}
    /\ r.left \in BookPages \cup {NoPage} /\ Opened(r.left, op)

\* The view that loads: the pages asked for, and what has come for it.
GroupFine(w, op) ==
    LET g == w.group
    IN  /\ DOMAIN g = {"page", "pages", "ids", "got"}
        /\ g.page = w.requested
        /\ g.pages = ViewPages(w, g.page)
        /\ DOMAIN g.ids = Sides
        /\ \A s \in Sides : g.ids[s] # NoId =>
              /\ g.ids[s] \in PageIds /\ g.ids[s][3] = "display"
              /\ g.ids[s][2] = g.pages[IF s = "left" THEN 1 ELSE 2]
        /\ \A r \in g.got : ResultFine(g.pages, r, op)
        /\ g.ids["left"] # NoId \/ \E r \in g.got : r.side = "left"

ShowsView(w, op) ==
    LET ps == ViewPages(w, w.displayed)
    IN  /\ w.left.page = ps[1]
        /\ w.right.page \in {ps[2], NoPage} /\ w.right.page \in BookPages \cup {NoPage}
        /\ w.resume = ps[1]
        /\ w.displayed = w.requested
        /\ w.stream \in {NoPage, w.displayed}
        /\ w.target = w.requested /\ w.mode = "latest" => w.stream = NoPage
        /\ Opened(w.left.page, op) /\ Opened(w.right.page, op)
        /\ \A s \in Sides : w.fills[s] # NoId =>
              w.fills[s] \in PageIds /\ w.fills[s][2] = w[s].page /\ w.fills[s][3] = "fill"

NoFills(w) == \A s \in Sides : w.fills[s] = NoId

Fine(w, op) ==
    /\ Shaped(w)
    /\ w.queue = NoPage => w.target = w.requested
    /\ w.queue # NoPage => w.target \in {w.requested, w.queue}
    /\ w.loading \/ w.error => NoFills(w) /\ w.stream = NoPage
    /\ w.loading => w.error = FALSE
    /\ w.loading => w.group = NoGroup \/ GroupFine(w, op)
    /\ ~w.loading => w.group = NoGroup
    /\ ~w.loading /\ ~w.error => ShowsView(w, op)

\* A message of the box of thread t, and of the request it works on.
MsgFine(m, t, op) ==
    \/ m \in {NoMsg, Prune}
    \/ m.id \in PageIds /\ ThreadOf(m.id[2]) = t /\ (m.id[3] = "fill" => t \in op)

JobFine(j, t, op) ==
    /\ DOMAIN j = {"msg", "looked"} /\ j.looked \in BOOLEAN
    /\ MsgFine(j.msg, t, op) /\ j.msg # Prune
    /\ j.looked => j.msg # NoMsg

Answer == [id : PageIds, page : BookPages \cup {NoPage}, ok : BOOLEAN, count : {0, N}]

AnswerFine(a, op) ==
    /\ a.page = IF a.ok /\ PageOf(a.id) < N THEN PageOf(a.id) ELSE NoPage
    /\ a.count = IF a.ok THEN N ELSE 0
    /\ a.ok => ThreadOf(PageOf(a.id)) \in op
    /\ a.id[3] = "fill" => a.ok

Filling(w) ==
    ~w.loading /\ w.stream # NoPage => \A s \in Sides : w[s].filling => w.fills[s] # NoId

ViewInv ==
    /\ Fine(v, opened)
    /\ ~v.loading => v.queue = NoPage
    /\ v.initial => v.loading /\ v.group = NoGroup /\ v.mode = "sequential" /\ v.queue = NoPage
    /\ v.loading => v.initial \/ v.group # NoGroup
    /\ Filling(v)

ThreadInv ==
    /\ opened \subseteq Threads
    /\ \A t \in Threads : MsgFine(v.box[t], t, opened)
    /\ DOMAIN job = Threads /\ \A t \in Threads : JobFine(job[t], t, opened)
    /\ answers \in Seq(Answer) /\ \A k \in DOMAIN answers : AnswerFine(answers[k], opened)
    /\ errors \in Nat

WayInv == \A s \in Sides : v.fills[s] # NoId => OnItsWay(v.fills[s])

PagesInv == ViewInv /\ ThreadInv /\ WayInv
-----------------------------------------------------------------------------
\* A set of numbers has a least one: what stands for induction below.
LEMMA LeastNat ==
    ASSUME NEW T, T \subseteq Nat, T # {}
    PROVE  \E x \in T : \A y \in T : x <= y
<1> DEFINE R == OpToRel(<, Nat)
<1>1. IsWellFoundedOn(R, Nat)
  BY NatLessThanWellFounded
<1>2. \A x, y \in Nat : y < x => <<y, x>> \in R
  BY DEF OpToRel
<1> HIDE DEF R
<1>3. PICK x \in T : \A y \in T : ~ (<<y, x>> \in R)
  BY <1>1, WFMin
<1>4. \A y \in T : x \in Nat /\ y \in Nat /\ ~(y < x)
  BY <1>2, <1>3
<1>5. \A y \in T : x <= y
  BY <1>4
<1> QED
  BY <1>3, <1>5

\* Whether a page is the first of its unit, when it is known whether the one before is,
\* and the table of this up to page n.
IsFirst(p, before, blank) == \/ p = 0
                             \/ ~before
                             \/ ~({p - 1, p} \subseteq Portrait)
                             \/ blank /\ p = 1

Firsts(first, n, blank) == first = [p \in 0 .. n |-> IsFirst(p, first[p - 1], blank)]

\* The table exists for every n: a least n without one has a table for n - 1, and
\* one more row is one for n.
LEMMA FirstsExists ==
    ASSUME NEW n \in Nat, NEW blank
    PROVE  \E first : Firsts(first, n, blank)
<1> SUFFICES ASSUME ~ \E first : Firsts(first, n, blank) PROVE FALSE
  OBVIOUS
<1> DEFINE T == {k \in Nat : ~ \E first : Firsts(first, k, blank)}
<1>1. T # {} /\ T \subseteq Nat
  OBVIOUS
<1>2. PICK m \in T : \A k \in T : m <= k
  <2> HIDE DEF T
  <2> QED
    BY <1>1, LeastNat
<1>3. m \in Nat /\ ~ \E first : Firsts(first, m, blank)
  BY <1>2
<1>4. m # 0
  <2> SUFFICES ASSUME m = 0 PROVE FALSE
    OBVIOUS
  <2> DEFINE h == [p \in 0 .. 0 |-> IsFirst(0, 0, blank)]
  <2>1. \A x : IsFirst(0, x, blank) = IsFirst(0, 0, blank)
    BY DEF IsFirst
  <2>2. \A p \in 0 .. 0 : h[p] = IsFirst(p, h[p - 1], blank)
    BY <2>1
  <2>3. Firsts(h, 0, blank)
    BY <2>2 DEF Firsts
  <2> QED
    BY <2>3, <1>3
<1>5. m - 1 \in Nat /\ m - 1 \notin T
  <2>1. m - 1 \in Nat /\ ~(m <= m - 1)
    BY <1>3, <1>4
  <2> HIDE DEF T
  <2> QED
    BY <2>1, <1>2
<1>6. PICK g : Firsts(g, m - 1, blank)
  BY <1>5
<1> DEFINE h == [p \in 0 .. m |-> IF p = m THEN IsFirst(m, g[m - 1], blank) ELSE g[p]]
<1>7. \A p \in 0 .. m - 1 : g[p] = IsFirst(p, g[p - 1], blank)
  BY <1>6 DEF Firsts
<1>8. \A p \in 0 .. m : h[p] = IsFirst(p, h[p - 1], blank)
  <2> SUFFICES ASSUME NEW p \in 0 .. m PROVE h[p] = IsFirst(p, h[p - 1], blank)
    OBVIOUS
  <2>1. CASE p = m
    <3>1. m - 1 \in 0 .. m /\ m - 1 # m /\ m \in 0 .. m
      BY <1>3, <1>4
    <3> QED
      BY <2>1, <3>1
  <2>2. CASE p = 0
    <3>1. h[0] = g[0] /\ 0 \in 0 .. m - 1
      BY <2>2, <1>3, <1>4
    <3>2. \A x : IsFirst(0, x, blank) = IsFirst(0, 0, blank)
      BY DEF IsFirst
    <3> QED
      BY <2>2, <3>1, <3>2, <1>7
  <2>3. CASE p # m /\ p # 0
    <3>1. p \in 0 .. m - 1 /\ p - 1 \in 0 .. m /\ p - 1 # m
      BY <2>3, <1>3
    <3>2. h[p] = g[p] /\ h[p - 1] = g[p - 1]
      BY <3>1, <2>3
    <3> QED
      BY <3>1, <3>2, <1>7
  <2> QED
    BY <2>1, <2>2, <2>3
<1>9. Firsts(h, m, blank)
  BY <1>8 DEF Firsts
<1> QED
  BY <1>3, <1>9

\* The first page begins a unit, so AutoPages never reads a page before it.
LEMMA AnchorZero == ASSUME NEW blank PROVE Anchor(blank)[0]
<1>1. N - 1 \in Nat
  BY PagesAssumption
<1>2. \E first : Firsts(first, N - 1, blank)
  BY <1>1, FirstsExists
<1>3. Firsts(Anchor(blank), N - 1, blank)
  BY <1>2 DEF Firsts, IsFirst, Anchor, BookPages
<1>4. 0 \in 0 .. N - 1
  BY <1>1
<1> QED
  BY <1>3, <1>4 DEF Firsts, IsFirst

\* A view begins with a page of the book, and its second page is the next one.
LEMMA ViewIs ==
    ASSUME NEW w, w.count \in {0, N}, w.setting \in {"single", "spread", "auto"}, NEW p \in BookPages
    PROVE  /\ ViewPages(w, p) = <<ViewPages(w, p)[1], ViewPages(w, p)[2]>>
           /\ ViewPages(w, p)[1] \in BookPages
           /\ ViewPages(w, p)[2] \in {NoPage, ViewPages(w, p)[1] + 1}
           /\ w.count = N => ViewPages(w, p)[2] \in BookPages \cup {NoPage}
<1>1. p \in Nat /\ N \in Nat \ {0} /\ p < N /\ ~(w.count > 0 /\ p >= w.count)
  BY PagesAssumption DEF BookPages
<1>2. CASE w.setting = "single"
  <2>1. ViewPages(w, p) = <<p, NoPage>>
    BY <1>1, <1>2 DEF ViewPages
  <2> QED
    BY <2>1
<1>3. CASE w.setting = "spread"
  <2>1. ViewPages(w, p) = <<p, NoPage>> \/ (ViewPages(w, p) = <<p, p + 1>> /\ ~(w.count > 0 /\ p + 1 >= w.count))
    BY <1>1, <1>3 DEF ViewPages
  <2> QED
    BY <1>1, <2>1 DEF BookPages
<1>4. CASE w.setting = "auto"
  <2>1. ViewPages(w, p) = AutoPages(p, w.blank)
    BY <1>1, <1>4 DEF ViewPages
  <2> DEFINE first == Anchor(w.blank)
             a == IF first[p] THEN p ELSE p - 1
  <2>2. a \in BookPages
    BY <1>1, AnchorZero DEF BookPages
  <2>3. ViewPages(w, p) = <<a, IF a + 1 \in BookPages /\ ~first[a + 1] THEN a + 1 ELSE NoPage>>
    BY <2>1 DEF AutoPages
  <2> HIDE DEF first, a
  <2> QED
    BY <2>2, <2>3
<1> QED
  BY <1>2, <1>3, <1>4

\* A page and the next one are of different threads.
LEMMA OtherThread == \A p \in Int : ThreadOf(p) \in Threads /\ ThreadOf(p) # ThreadOf(p + 1)
BY DEF ThreadOf, Threads
\* The pages of a view depend on the layout and on whether their number is known.
LEMMA SamePages ==
    ASSUME NEW w, NEW u, NEW p, u.count = w.count, u.setting = w.setting, u.blank = w.blank
    PROVE  ViewPages(u, p) = ViewPages(w, p)
BY DEF ViewPages

\* Once their number is known, a view loses at most a page past the end.
LEMMA KnownPages ==
    ASSUME NEW w, NEW u, NEW p \in BookPages, w.count \in {0, N}, u.count = N,
           u.setting = w.setting, u.blank = w.blank, w.setting \in {"single", "spread", "auto"}
    PROVE  /\ ViewPages(u, p)[1] = ViewPages(w, p)[1]
           /\ \A r \in BookPages \cup {NoPage} :
                 r \in {ViewPages(w, p)[2], NoPage} => r \in {ViewPages(u, p)[2], NoPage}
<1>1. p \in Nat /\ N \in Nat \ {0} /\ p < N /\ ~(w.count > 0 /\ p >= w.count) /\ ~(u.count > 0 /\ p >= u.count)
  BY PagesAssumption DEF BookPages
<1>2. CASE w.setting = "single"
  <2>1. ViewPages(w, p) = <<p, NoPage>> /\ ViewPages(u, p) = <<p, NoPage>>
    BY <1>1, <1>2 DEF ViewPages
  <2> QED
    BY <2>1
<1>3. CASE w.setting = "spread"
  <2>1. ViewPages(w, p) = <<p, NoPage>> \/ ViewPages(w, p) = <<p, p + 1>>
    BY <1>1, <1>3 DEF ViewPages
  <2>2. \/ ViewPages(u, p) = <<p, p + 1>>
        \/ ViewPages(u, p) = <<p, NoPage>> /\ (p + 1 >= N \/ ViewPages(w, p) = <<p, NoPage>>)
    BY <1>1, <1>3 DEF ViewPages
  <2>3. \A r \in BookPages \cup {NoPage} : r < N
    BY <1>1 DEF BookPages, NoPage
  <2> QED
    BY <1>1, <2>1, <2>2, <2>3
<1>4. CASE w.setting = "auto"
  <2>1. ViewPages(w, p) = AutoPages(p, w.blank) /\ ViewPages(u, p) = AutoPages(p, w.blank)
    BY <1>1, <1>4 DEF ViewPages
  <2> QED
    BY <2>1
<1> QED
  BY <1>2, <1>3, <1>4

\* What no step of showing a view changes.
Same(w, u) ==
    /\ u.nav = w.nav /\ u.count = w.count /\ u.setting = w.setting /\ u.blank = w.blank
    /\ u.initial = w.initial

\* Nothing is asked for more frames, and no frames are awaited on the screen.
Quiet(w) ==
    /\ NoFills(w)
    /\ ~w.loading /\ w.stream # NoPage => w.left.filling = FALSE /\ w.right.filling = FALSE

QueueFine(w) ==
    /\ w.queue = NoPage => w.target = w.requested
    /\ w.queue # NoPage => w.target \in {w.requested, w.queue}

\* What showing the requested view does to the viewer.
Shown(w, c, op) ==
    /\ Fine(c, op) /\ Quiet(c) /\ Same(w, c)
    /\ c.loading = FALSE /\ c.error = FALSE /\ c.group = NoGroup /\ c.box = w.box
    /\ c.displayed = w.requested /\ c.requested = w.requested
    /\ c.target = w.target /\ c.queue = w.queue

\* Putting the requested view on the screen shows it: commit_display_contents.
LEMMA CommittedFine ==
    ASSUME NEW w, NEW ps, NEW l, NEW r, NEW op, Shaped(w), w.group = NoGroup, NoFills(w), QueueFine(w),
           ps[1] = l, l = ViewPages(w, w.requested)[1], r \in {ViewPages(w, w.requested)[2], NoPage},
           r \in BookPages \cup {NoPage},
           w.error = FALSE, Opened(l, op), Opened(r, op)
    PROVE  Shown(w, Committed(w, ps, l, r), op)
<1> DEFINE c == Committed(w, ps, l, r)
<1>1. DOMAIN w = Fields
  BY DEF Shaped
<1>2. /\ DOMAIN c = Fields /\ c.left = Holds(l) /\ c.right = Holds(r) /\ c.loading = FALSE
      /\ c.displayed = w.requested /\ c.requested = w.requested /\ c.target = w.target /\ c.queue = w.queue
      /\ c.mode = (IF w.requested = w.target THEN "sequential" ELSE w.mode)
      /\ c.stream = (IF {l, r} \cap Animations # {} THEN w.requested ELSE NoPage)
      /\ c.resume = (IF ps[1] # NoPage THEN ps[1] ELSE w.resume)
      /\ c.error = w.error /\ c.group = w.group /\ c.box = w.box /\ c.fills = w.fills
  BY <1>1 DEF Committed, Fields
<1>3. Same(w, c)
  BY <1>1 DEF Committed, Fields, Same
<1> HIDE DEF c
<1>4. Shaped(c)
  <2>1. DOMAIN c.left = {"page", "filling"} /\ c.left.filling = FALSE
    BY <1>2 DEF Holds
  <2>2. DOMAIN c.right = {"page", "filling"} /\ c.right.filling = FALSE
    BY <1>2 DEF Holds
  <2>3. c.initial \in BOOLEAN /\ c.loading \in BOOLEAN /\ c.error \in BOOLEAN
    BY <1>2, <1>3 DEF Shaped, Same
  <2>4. DOMAIN c.fills = Sides /\ DOMAIN c.box = Threads
    BY <1>2 DEF Shaped
  <2> QED
    BY <1>2, <1>3, <2>1, <2>2, <2>3, <2>4 DEF Shaped, Same
<1>5. NoFills(c) /\ Quiet(c)
  BY <1>2 DEF NoFills, Quiet, Holds
<1>6. ViewPages(c, c.displayed) = ViewPages(w, w.requested) /\ l # NoPage
  <2>1. l \in BookPages
    BY ViewIs DEF Shaped
  <2> QED
    BY <1>2, <1>3, <2>1, SamePages, PagesAssumption DEF Same, BookPages, NoPage
<1>7. ShowsView(c, op)
  BY <1>2, <1>5, <1>6 DEF ShowsView, NoFills, Holds
<1>8. Fine(c, op)
  BY <1>2, <1>4, <1>5, <1>7 DEF Fine, QueueFine
<1> QED
  BY <1>2, <1>3, <1>5, <1>8 DEF c, Shown

\* A view without an animation has no stream.
LEMMA CommittedStream ==
    ASSUME NEW w, NEW ps, NEW l, NEW r, Shaped(w), l \notin Animations, r \notin Animations
    PROVE  Committed(w, ps, l, r).stream = NoPage
BY DEF Committed, Shaped, Fields

BoxFine(box, op) == DOMAIN box = Threads /\ \A t \in Threads : MsgFine(box[t], t, op)

\* The boxes after the requests for the pages ps.
SentTo(w, ps, kind, b) ==
    /\ DOMAIN b = Threads
    /\ \A p \in ps : b[ThreadOf(p)].id = <<w.nav, p, kind>>
    /\ \A t \in Threads : \/ \E p \in ps : ThreadOf(p) = t /\ b[t].id = <<w.nav, p, kind>>
                          \/ (\A p \in ps : ThreadOf(p) # t) /\ b[t] = w.box[t]

\* Requests for pages of different threads each get the box of their thread.
LEMMA SentFine ==
    ASSUME NEW w, NEW ps, NEW kind, \A p \in ps : ThreadOf(p) \in Threads,
           \A p, q \in ps : ThreadOf(p) = ThreadOf(q) => p = q
    PROVE  SentTo(w, ps, kind, Sent(w, ps, kind))
<1> DEFINE b == Sent(w, ps, kind)
<1>1. DOMAIN b = Threads
  BY DEF Sent
<1>2. \A p \in ps : b[ThreadOf(p)].id = <<w.nav, p, kind>>
  <2> SUFFICES ASSUME NEW p \in ps PROVE b[ThreadOf(p)].id = <<w.nav, p, kind>>
    OBVIOUS
  <2>1. (CHOOSE q \in ps : ThreadOf(q) = ThreadOf(p)) = p
    OBVIOUS
  <2>2. b[ThreadOf(p)] = Msg(w.nav, p, kind)
    BY <2>1 DEF Sent
  <2> QED
    BY <2>2 DEF Msg
<1>3. \A t \in Threads : (\A p \in ps : ThreadOf(p) # t) => b[t] = w.box[t]
  BY DEF Sent
<1> HIDE DEF b
<1> QED
  BY <1>1, <1>2, <1>3 DEF b, SentTo

\* What is sent to a box is for a page of its thread.
LEMMA SentBoxFine ==
    ASSUME NEW w, NEW ps, NEW kind \in {"display", "fill"}, NEW op, ps \subseteq Nat, w.nav \in Nat,
           \A p, q \in ps : ThreadOf(p) = ThreadOf(q) => p = q,
           BoxFine(w.box, op), kind = "fill" => \A p \in ps : ThreadOf(p) \in op
    PROVE  BoxFine(Sent(w, ps, kind), op)
<1> DEFINE b == Sent(w, ps, kind)
<1>0. \A p \in ps : ThreadOf(p) \in Threads
  BY OtherThread
<1>1. SentTo(w, ps, kind, b)
  BY <1>0, SentFine
<1> HIDE DEF b
<1>2. ASSUME NEW t \in Threads PROVE MsgFine(b[t], t, op)
  <2>1. CASE b[t] = w.box[t]
    BY <2>1 DEF BoxFine
  <2>2. CASE \E p \in ps : ThreadOf(p) = t /\ b[t].id = <<w.nav, p, kind>>
    <3>1. PICK p \in ps : ThreadOf(p) = t /\ b[t].id = <<w.nav, p, kind>>
      BY <2>2
    <3>2. <<w.nav, p, kind>> \in PageIds /\ <<w.nav, p, kind>>[2] = p /\ <<w.nav, p, kind>>[3] = kind
      BY DEF PageIds
    <3> QED
      BY <3>1, <3>2 DEF MsgFine
  <2> QED
    BY <1>1, <2>1, <2>2 DEF SentTo
<1> QED
  BY <1>1, <1>2 DEF b, BoxFine, SentTo

\* No request has the id that stands for none.
LEMMA NoIds == /\ \A id \in PageIds : id # NoId /\ id[3] \in {"display", "fill"} /\ id[2] \in Nat
               /\ NoMsg.id = NoId /\ Prune.id = NoId /\ NoMsg # Prune
BY DEF PageIds, NoId, NoMsg, Prune

\* Where a page of a view is found.
PlaceFine(w, p, at) ==
    /\ at \in {"no page", "nowhere", "texture", "frames"}
    /\ at = "no page" <=> p = NoPage
    /\ at \in {"texture", "frames"} => p \notin Animations /\ w.count # 0

\* A page of the view is held somewhere, or it is nowhere, or there is none.
LEMMA PlacesFine ==
    ASSUME NEW w, NEW ps, NEW held \in Found \X Found
    PROVE  LET on == Places(w, ps, held)
           IN  \A i \in {1, 2} : PlaceFine(w, ps[i], on[i])
<1> DEFINE on == Places(w, ps, held)
<1>1. held[1] \in Found /\ held[2] \in Found
  BY PagesAssumption
<1>2. \A i \in {1, 2} : on[i] = IF ps[i] = NoPage THEN "no page"
                                ELSE IF ps[i] \in Animations \/ w.count = 0 THEN "nowhere" ELSE held[i]
  <2>1. {1, 2} \subseteq 1 .. 2
    OBVIOUS
  <2> QED
    BY <2>1 DEF Places
<1> HIDE DEF on
<1>3. ASSUME NEW i \in {1, 2} PROVE PlaceFine(w, ps[i], on[i])
  <2>1. held[i] \in Found
    BY <1>1
  <2> QED
    BY <1>2, <2>1 DEF Found, PlaceFine
<1> QED
  BY <1>3 DEF on

\* What StartView has done when it returns.
Begun(w, u, page, op) ==
    /\ Fine(u, op) /\ Quiet(u) /\ Same(w, u) /\ BoxFine(u.box, op)
    /\ u.requested = page /\ u.target = page /\ u.queue = w.queue /\ u.error = FALSE
    /\ ~u.loading => u.displayed = page /\ u.stream = NoPage
    /\ u.loading => /\ u.group # NoGroup /\ u.displayed = w.displayed
                    /\ \A s \in Sides : u.group.ids[s] # NoId =>
                          u.box[ThreadOf(PageOf(u.group.ids[s]))].id = u.group.ids[s]

\* start_display_request shows the view, or waits for a group with a request in a box
\* for every page it lacks.
LEMMA DisplayBegins ==
    ASSUME NEW w, NEW page \in BookPages, NEW held \in Found \X Found, NEW op,
           Shaped(w), w.group = NoGroup, NoFills(w), w.stream = NoPage, w.error = FALSE,
           w.loading = TRUE, w.requested = page, w.target = page, BoxFine(w.box, op)
    PROVE  Begun(w, Display(w, page, held), page, op)
<1> DEFINE ps == ViewPages(w, page)
           on == Places(w, ps, held)
           asked == {i \in 1..2 : on[i] \in {"texture", "nowhere"}}
           d == Display(w, page, held)
           Id(i) == IF i \in asked THEN <<w.nav, ps[i], "display">> ELSE NoId
           sent == {ps[i] : i \in asked}
           kept == KeptFrames(w, ps, on)
           ids == [s \in Sides |-> IF s = "left" THEN Id(1) ELSE Id(2)]
<1>1. /\ ps[1] \in BookPages /\ ps[2] \in {NoPage, ps[1] + 1}
      /\ N \in Nat \ {0} /\ Animations \subseteq BookPages
  BY ViewIs, PagesAssumption DEF Shaped, BookPages
<1>2. PlaceFine(w, ps[1], on[1]) /\ PlaceFine(w, ps[2], on[2]) /\ 1 .. 2 = {1, 2}
  BY PlacesFine
<1>3. NoPage \notin Animations /\ ps[1] # NoPage /\ NoPage \notin BookPages
  BY <1>1 DEF BookPages, NoPage
<1>4. CASE AllHeld(on)
  <2>1. d = Committed(w, ps, ps[1], ps[2])
    BY <1>4 DEF Display
  <2>2. {on[1], on[2]} \subseteq {"texture", "frames", "no page"}
    BY <1>4 DEF AllHeld
  <2>3. on[1] \in {"texture", "frames", "no page"} /\ on[2] \in {"texture", "frames", "no page"}
    BY <2>2
  <2> HIDE DEF ps, on, d, asked
  <2>4. Opened(ps[1], op) /\ Opened(ps[2], op)
    BY <1>2, <1>3, <2>3 DEF Opened, PlaceFine
  <2>8. ps[2] \in BookPages \cup {NoPage}
    <3>1. w.count = N => ps[2] \in BookPages \cup {NoPage}
      BY ViewIs DEF ps, Shaped
    <3>2. ps[2] # NoPage => w.count = N
      BY <1>2, <2>3 DEF PlaceFine, Shaped
    <3> QED
      BY <3>1, <3>2
  <2>5. QueueFine(w)
    BY DEF QueueFine
  <2>6. ps[1] = ViewPages(w, w.requested)[1] /\ ps[2] \in {ViewPages(w, w.requested)[2], NoPage}
    BY DEF ps
  <2>9. d.stream = NoPage
    <3>1. ps[1] \notin Animations /\ ps[2] \notin Animations
      BY <1>2, <1>3, <2>3 DEF PlaceFine
    <3> QED
      BY <2>1, <3>1, CommittedStream
  <2>7. Shown(w, d, op)
    BY <2>1, <2>4, <2>5, <2>6, <2>8, CommittedFine
  <2> QED
    BY <2>7, <2>9 DEF Begun, Shown, d
<1>5. CASE ~AllHeld(on)
  <2>1. d = [w EXCEPT !.box = Sent(w, sent, "display"),
                      !.group = [page |-> page, pages |-> ps, ids |-> ids, got |-> kept]]
    BY <1>5 DEF Display
  <2>2. DOMAIN w = Fields
    BY DEF Shaped
  <2>3. /\ DOMAIN d = Fields /\ d.box = Sent(w, sent, "display")
        /\ d.group = [page |-> page, pages |-> ps, ids |-> ids, got |-> kept]
        /\ Same(w, d) /\ d.left = w.left /\ d.right = w.right
        /\ d.displayed = w.displayed /\ d.requested = page /\ d.target = page /\ d.queue = w.queue
        /\ d.loading = TRUE /\ d.error = FALSE /\ d.stream = NoPage /\ d.fills = w.fills
    <3> HIDE DEF ids, ps, sent, kept, d
    <3> QED
      BY <2>1, <2>2 DEF Fields, Same
  <2>4. sent \subseteq {ps[1], ps[2]} /\ sent \subseteq Nat
    <3>1. \A i \in asked : ps[i] # NoPage /\ ps[i] \in {ps[1], ps[2]}
      <4> HIDE DEF ps, on
      <4> QED
        BY <1>2 DEF PlaceFine
    <3>2. \A i \in asked : ps[i] \in Nat
      <4> HIDE DEF ps, on, asked
      <4> QED
        BY <3>1, <1>1 DEF BookPages, NoPage
    <3> HIDE DEF ps, on, asked
    <3> QED
      BY <3>1, <3>2
  <2>5. \A p, q \in sent : ThreadOf(p) = ThreadOf(q) => p = q
    <3> HIDE DEF sent, ps, on, asked
    <3>1. ThreadOf(ps[1]) # ThreadOf(ps[1] + 1)
      BY <1>1, OtherThread DEF BookPages
    <3> QED
      BY <1>1, <2>4, <3>1 DEF NoPage
  <2>6. BoxFine(d.box, op)
    <3> HIDE DEF sent, ps, on, asked, d
    <3> QED
      <4>1. w.nav \in Nat /\ "display" \in {"display", "fill"} /\ "display" # "fill"
        BY DEF Shaped
      <4>2. BoxFine(Sent(w, sent, "display"), op)
        BY <2>4, <2>5, <4>1, SentBoxFine
      <4> QED
        BY <2>3, <4>2
  <2>7. \A p \in sent : d.box[ThreadOf(p)].id = <<w.nav, p, "display">>
    <3> HIDE DEF sent, ps, on, asked, d
    <3>1. \A p \in sent : ThreadOf(p) \in Threads
      BY <2>4, OtherThread
    <3> QED
      BY <2>3, <2>5, <3>1, SentFine DEF SentTo
  <2>8. /\ DOMAIN ids = Sides /\ ids["left"] = Id(1) /\ ids["right"] = Id(2)
        /\ \A i \in asked : Id(i) = <<w.nav, ps[i], "display">> /\ ps[i] \in sent
        /\ \A i : i \notin asked => Id(i) = NoId
    <3> HIDE DEF ps, on, asked
    <3> QED
      BY DEF Sides
  <2> DEFINE at(s) == IF s = "left" THEN 1 ELSE 2
  <2>9. \A s \in Sides : ids[s] # NoId => /\ ids[s] = <<w.nav, ps[at(s)], "display">>
                                          /\ ps[at(s)] \in sent
    <3> HIDE DEF ps, on, asked, ids, sent, Id
    <3> QED
      BY <2>8 DEF Sides
  <2>10. \A p \in sent : LET id == <<w.nav, p, "display">> IN id \in PageIds /\ id[2] = p /\ id[3] = "display"
    <3> HIDE DEF sent
    <3> QED
      BY <2>4 DEF Shaped, PageIds
  <2>11. \A r \in kept : ResultFine(ps, r, op)
    <3> SUFFICES ASSUME NEW r \in kept PROVE ResultFine(ps, r, op)
      OBVIOUS
    <3> HIDE DEF ps, on, asked, d
    <3>1. PICK i \in 1 .. 2 : /\ on[i] = "frames"
                              /\ r = [side |-> IF i = 1 THEN "left" ELSE "right", ok |-> TRUE, count |-> w.count,
                                      left |-> IF i = 1 THEN ps[1] ELSE NoPage,
                                      right |-> IF i = 2 THEN ps[2] ELSE NoPage]
      BY DEF KeptFrames
    <3>2. w.count = N /\ ps[i] \notin Animations
      BY <3>1, <1>2 DEF Shaped, PlaceFine
    <3>3. CASE i = 1
      BY <3>1, <3>2, <3>3, <1>1 DEF ResultFine, Sides, Opened
    <3>4. CASE i = 2
      BY <3>1, <3>2, <3>4, <1>3 DEF ResultFine, Sides, Opened
    <3> QED
      BY <3>3, <3>4
  <2>12. ids["left"] # NoId \/ \E r \in kept : r.side = "left"
    <3>1. CASE on[1] \in {"texture", "nowhere"}
      <4>1. 1 \in asked
        BY <3>1
      <4>2. ids["left"] = <<w.nav, ps[1], "display">>
        BY <4>1, <2>8
      <4> QED
        BY <4>2 DEF NoId
    <3>2. CASE on[1] = "frames"
      <4> DEFINE r(i) == [side |-> IF i = 1 THEN "left" ELSE "right", ok |-> TRUE, count |-> w.count,
                                      left |-> IF i = 1 THEN ps[1] ELSE NoPage,
                                      right |-> IF i = 2 THEN ps[2] ELSE NoPage]
      <4>1. 1 \in {j \in 1..2 : on[j] = "frames"} /\ kept = {r(i) : i \in {j \in 1..2 : on[j] = "frames"}}
        <5> HIDE DEF ps, on
        <5> QED
          BY <3>2 DEF KeptFrames
      <4>2. r(1) \in kept
        <5> HIDE DEF kept, r
        <5> QED
          BY <4>1
      <4>3. r(1).side = "left"
        OBVIOUS
      <4> QED
        BY <4>2, <4>3
    <3>3. on[1] # "no page" /\ on[1] \in {"no page", "nowhere", "texture", "frames"}
      BY <1>2, <1>3 DEF PlaceFine
    <3> QED
      BY <3>1, <3>2, <3>3
  <2>13. ViewPages(d, page) = ps
    BY <2>3, SamePages DEF Same
  <2> HIDE DEF ps, on, asked, ids, sent, kept, d, Id
  <2>14. GroupFine(d, op)
    <3>1. \A s \in Sides : ids[s] # NoId => ids[s] \in PageIds /\ ids[s][3] = "display" /\ ids[s][2] = ps[at(s)]
      BY <2>9, <2>10
    <3> QED
      BY <2>3, <2>8, <2>11, <2>12, <2>13, <3>1 DEF GroupFine
  <2>15. Shaped(d)
    BY <2>3, <2>6 DEF Shaped, Same, BoxFine
  <2>16. NoFills(d) /\ Quiet(d) /\ d.group # NoGroup
    <3>1. d.group.page # NoGroup.page
      BY <2>3, <1>3 DEF NoGroup
    <3> QED
      BY <2>3, <3>1 DEF NoFills, Quiet
  <2>17. Fine(d, op)
    BY <2>3, <2>14, <2>15, <2>16 DEF Fine
  <2>18. \A s \in Sides : d.group.ids[s] # NoId =>
                          d.box[ThreadOf(PageOf(d.group.ids[s]))].id = d.group.ids[s]
    <3>1. \A s \in Sides : ids[s] # NoId => PageOf(ids[s]) = ps[at(s)] /\ ids[s] = <<w.nav, ps[at(s)], "display">> /\ ps[at(s)] \in sent
      BY <2>9, <2>10 DEF PageOf
    <3> QED
      BY <2>3, <2>7, <3>1
  <2> QED
    BY <2>3, <2>6, <2>16, <2>17, <2>18 DEF Begun, d
<1> QED
  BY <1>4, <1>5

\* Fields in which a view that is shown or loads must not change.
Like(w, u) ==
    /\ DOMAIN u = Fields
    /\ u.count = w.count /\ u.setting = w.setting /\ u.blank = w.blank
    /\ u.displayed = w.displayed /\ u.requested = w.requested
    /\ u.loading = w.loading /\ u.error = w.error /\ u.group = w.group
    /\ u.left = w.left /\ u.right = w.right /\ u.resume = w.resume
    /\ u.stream = w.stream /\ u.fills = w.fills

\* Books are opened and never closed.
LEMMA OpenedGrows ==
    ASSUME NEW op, NEW op2, op \subseteq op2, NEW p, Opened(p, op)
    PROVE  Opened(p, op2)
BY DEF Opened

\* The invariant of the record looks at the fields of Like, at the queue and the target.
LEMMA FineKept ==
    ASSUME NEW w, NEW u, NEW op, NEW op2, op \subseteq op2, Fine(w, op), Like(w, u), QueueFine(u),
           u.nav \in Nat, u.target \in BookPages, u.queue \in BookPages \cup {NoPage},
           u.initial \in BOOLEAN, DOMAIN u.box = Threads,
           ~u.loading /\ ~u.error /\ u.target = u.requested /\ u.mode = "latest" => u.stream = NoPage
    PROVE  Fine(u, op2)
<1>1. Shaped(u)
  BY DEF Shaped, Like, Fine
<1>2. \A p : ViewPages(u, p) = ViewPages(w, p)
  BY SamePages DEF Like
<1>3. u.loading => u.group = NoGroup \/ GroupFine(u, op2)
  <2> SUFFICES ASSUME u.loading, u.group # NoGroup PROVE GroupFine(u, op2)
    OBVIOUS
  <2>1. GroupFine(w, op) /\ u.group = w.group /\ u.requested = w.requested
    BY DEF Fine, Like
  <2>2. \A ps, r : ResultFine(ps, r, op) => ResultFine(ps, r, op2)
    BY OpenedGrows DEF ResultFine
  <2> QED
    BY <1>2, <2>1, <2>2 DEF GroupFine
<1>4. ~u.loading /\ ~u.error => ShowsView(u, op2)
  <2> SUFFICES ASSUME ~u.loading, ~u.error PROVE ShowsView(u, op2)
    OBVIOUS
  <2>1. ShowsView(w, op)
    BY DEF Fine, Like
  <2>2. ViewPages(u, u.displayed) = ViewPages(w, w.displayed)
    BY <1>2 DEF Like
  <2>3. Opened(u.left.page, op2) /\ Opened(u.right.page, op2)
    BY <2>1, OpenedGrows DEF ShowsView, Like
  <2>4. u["left"] = w["left"] /\ u["right"] = w["right"] /\ u.fills = w.fills
    BY DEF Like
  <2>5. \A s \in Sides : u.fills[s] # NoId =>
              u.fills[s] \in PageIds /\ u.fills[s][2] = u[s].page /\ u.fills[s][3] = "fill"
    BY <2>1, <2>4 DEF ShowsView, Sides
  <2> QED
    BY <2>1, <2>2, <2>3, <2>5 DEF ShowsView, Like
<1>5. u.loading \/ u.error => NoFills(u) /\ u.stream = NoPage
  BY DEF Fine, Like, NoFills
<1>6. (~u.loading => u.group = NoGroup) /\ (u.loading => u.error = FALSE)
  BY DEF Fine, Like
<1> QED
  BY <1>1, <1>3, <1>4, <1>5, <1>6 DEF Fine, QueueFine

\* start_view_request is start_display_request with everything of the last view dropped.
LEMMA StartViewBegins ==
    ASSUME NEW w, NEW page \in BookPages, NEW held \in Found \X Found, NEW op, Shaped(w), BoxFine(w.box, op)
    PROVE  Begun(w, StartView(w, page, held), page, op)
<1> DEFINE w0 == [w EXCEPT !.loading = TRUE, !.error = FALSE,
                      !.slides = IF @ = "off" THEN @ ELSE "waits",
                      !.requested = page, !.target = page,
                      !.stream = NoPage, !.fills = [s \in Sides |-> NoId],
                      !.group = NoGroup]
<1>1. StartView(w, page, held) = Display(w0, page, held)
  BY DEF StartView
<1>2. DOMAIN w = Fields
  BY DEF Shaped
<1>3. /\ DOMAIN w0 = Fields /\ w0.loading = TRUE /\ w0.error = FALSE /\ w0.requested = page
      /\ w0.target = page /\ w0.stream = NoPage /\ w0.fills = [s \in Sides |-> NoId]
      /\ w0.group = NoGroup /\ w0.box = w.box /\ w0.left = w.left /\ w0.right = w.right
      /\ w0.displayed = w.displayed /\ w0.queue = w.queue /\ Same(w, w0)
  BY <1>2 DEF Fields, Same
<1> HIDE DEF w0
<1>4. NoFills(w0) /\ DOMAIN w0.fills = Sides
  BY <1>3 DEF NoFills
<1>5. Shaped(w0)
  BY <1>3, <1>4 DEF Shaped, Same
<1>6. Begun(w0, Display(w0, page, held), page, op)
  BY <1>3, <1>4, <1>5, DisplayBegins
<1> QED
  BY <1>1, <1>3, <1>6 DEF Begun, Same

\* A view loads and each of its requests is in the box of a thread.
Asking(u) ==
    /\ u.group # NoGroup
    /\ \A s \in Sides : u.group.ids[s] # NoId =>
          u.box[ThreadOf(PageOf(u.group.ids[s]))].id = u.group.ids[s]

\* What has been done when the queue has been followed.
Followed(w, u, op) ==
    /\ Fine(u, op) /\ Same(w, u) /\ BoxFine(u.box, op) /\ u.queue = NoPage
    /\ u.displayed = w.displayed \/ (w.queue # NoPage /\ u.displayed = w.queue)
    /\ Quiet(w) => Quiet(u)
    /\ ~u.loading /\ w.stream = NoPage => u.stream = NoPage
    /\ u.loading => Asking(u) \/ (w.loading /\ w.queue \in {NoPage, w.requested})

\* consume_queued_view leaves no queue: the last turn is followed, or was to this page.
LEMMA ConsumedFollows ==
    ASSUME NEW w, NEW held \in Found \X Found, NEW op, Fine(w, op), BoxFine(w.box, op)
    PROVE  Followed(w, Consumed(w, held), op)
<1> DEFINE w1 == [w EXCEPT !.queue = NoPage]
           u == Consumed(w, held)
<1>1. CASE w.queue = NoPage
  <2>1. u = w
    BY <1>1 DEF Consumed
  <2>2. Followed(w, w, op)
    <3>1. Same(w, w)
      BY DEF Same
    <3>2. w.loading => Asking(w) \/ (w.loading /\ w.queue \in {NoPage, w.requested})
      BY <1>1
    <3> QED
      BY <1>1, <3>1, <3>2 DEF Followed
  <2> QED
    BY <2>1, <2>2
<1>2. DOMAIN w = Fields /\ Shaped(w) /\ QueueFine(w)
  BY DEF Fine, Shaped, QueueFine
<1>3. /\ Like(w, w1) /\ Same(w, w1) /\ w1.queue = NoPage /\ w1.target = w.target
      /\ w1.mode = w.mode /\ w1.box = w.box
  BY <1>2 DEF Like, Same, Fields
<1>4. CASE w.queue # NoPage /\ w.queue = w.requested
  <2>1. u = w1
    BY <1>4 DEF Consumed
  <2> HIDE DEF w1, u
  <2>2. w1.target = w1.requested /\ w.target = w.requested /\ QueueFine(w1)
    BY <1>2, <1>3, <1>4 DEF QueueFine, Like
  <2>3. w1.nav \in Nat /\ w1.target \in BookPages /\ w1.initial \in BOOLEAN /\ DOMAIN w1.box = Threads
    BY <1>2, <1>3 DEF Shaped, Same
  <2>4. ~w1.loading /\ ~w1.error /\ w1.target = w1.requested /\ w1.mode = "latest" => w1.stream = NoPage
    BY <1>3, <2>2 DEF Fine, ShowsView, Like
  <2>5. Fine(w1, op)
    BY <1>3, <2>2, <2>3, <2>4, FineKept
  <2>6. Quiet(w) => Quiet(w1)
    BY <1>3 DEF Quiet, Like, NoFills
  <2> QED
    BY <1>3, <1>4, <2>1, <2>5, <2>6 DEF Followed, Like, u
<1>5. CASE w.queue # NoPage /\ w.queue # w.requested
  <2>1. u = StartView(w1, w.queue, held)
    BY <1>5 DEF Consumed
  <2> HIDE DEF w1, u
  <2>2. Shaped(w1) /\ w.queue \in BookPages
    BY <1>2, <1>3, <1>5 DEF Shaped, Like, Same
  <2>3. Begun(w1, u, w.queue, op)
    BY <1>3, <2>1, <2>2, StartViewBegins
  <2>4. Same(w, u) /\ u.queue = NoPage
    BY <1>3, <2>3 DEF Begun, Same
  <2>5. u.displayed = w.displayed \/ u.displayed = w.queue
    BY <1>3, <2>3 DEF Begun, Like, Fine, Shaped
  <2> QED
    BY <1>5, <2>3, <2>4, <2>5 DEF Begun, Followed, Asking, u
<1> QED
  BY <1>1, <1>4, <1>5

\* What has been done when the reader has gone to another view.
Went(w, u, op) ==
    /\ Fine(u, op) /\ BoxFine(u.box, op) /\ Quiet(u)
    /\ ~u.loading => u.queue = NoPage
    /\ u.loading => u.group # NoGroup
    /\ ~u.loading => u.stream = NoPage
    /\ u.nav = w.nav + 1 /\ u.initial = w.initial

\* begin_nav only counts, and tells the streams to end.
LEMMA BegunNav ==
    ASSUME NEW w, NEW op, Shaped(w)
    PROVE  /\ Like(w, BeginNav(w)) /\ BoxFine(BeginNav(w).box, op)
           /\ BeginNav(w).nav = w.nav + 1 /\ BeginNav(w).initial = w.initial
           /\ BeginNav(w).queue = w.queue /\ BeginNav(w).target = w.target
           /\ BeginNav(w).mode = w.mode /\ Shaped(BeginNav(w))
<1> DEFINE u == BeginNav(w)
<1>1. DOMAIN w = Fields /\ w.nav \in Nat
  BY DEF Shaped
<1>2. /\ Like(w, u) /\ u.nav = w.nav + 1 /\ u.box = [s \in Threads |-> Prune]
      /\ u.initial = w.initial /\ u.queue = w.queue /\ u.target = w.target /\ u.mode = w.mode
  BY <1>1 DEF BeginNav, Like, Fields
<1> HIDE DEF u
<1>3. DOMAIN u.box = Threads /\ \A t \in Threads : u.box[t] = Prune
  BY <1>2
<1>4. BoxFine(u.box, op)
  BY <1>3 DEF BoxFine, MsgFine
<1>5. Shaped(u)
  BY <1>1, <1>2, <1>3 DEF Shaped, Like
<1> QED
  BY <1>2, <1>4, <1>5 DEF u

\* load_view goes to a view, and to the queued one if it could be shown at once.
LEMMA LoadViewGoes ==
    ASSUME NEW w, NEW page \in BookPages, NEW held \in Found \X Found, NEW next \in Found \X Found, NEW op, Shaped(w)
    PROVE  Went(w, LoadView(w, page, held, next), op)
<1> DEFINE b == BeginNav(w)
           w1 == StartView(b, page, held)
           u == LoadView(w, page, held, next)
<1>1. Shaped(b) /\ BoxFine(b.box, op) /\ b.nav = w.nav + 1 /\ b.initial = w.initial
  BY BegunNav
<1> HIDE DEF b
<1>2. Begun(b, w1, page, op)
  BY <1>1, StartViewBegins
<1> HIDE DEF w1
<1>3. CASE w1.loading
  <2>1. u = w1
    BY <1>3 DEF LoadView, w1, b
  <2> HIDE DEF u
  <2>2. Went(w, u, op)
    BY <1>1, <1>2, <1>3, <2>1 DEF Begun, Went, Same
  <2> QED
    BY <2>2 DEF u
<1>4. CASE ~w1.loading
  <2>1. u = Consumed(w1, next)
    BY <1>4 DEF LoadView, w1, b
  <2> HIDE DEF u
  <2>2. Followed(w1, u, op)
    BY <1>2, <2>1, ConsumedFollows DEF Begun
  <2>3. Went(w, u, op)
    BY <1>1, <1>2, <1>4, <2>2 DEF Begun, Followed, Went, Same, Asking
  <2> QED
    BY <2>3 DEF u
<1> QED
  BY <1>3, <1>4

\* request_view goes to a view, or queues it while another loads.
LEMMA RequestViewGoes ==
    ASSUME NEW w, NEW page \in BookPages, NEW held \in Found \X Found, NEW op, Shaped(w),
           w.loading => Fine(w, op) /\ w.group # NoGroup
    PROVE  Went(w, RequestView(w, page, held), op)
<1> DEFINE b == BeginNav(w)
           w1 == [b EXCEPT !.target = page]
           x == [w1 EXCEPT !.queue = page]
           y == [w1 EXCEPT !.queue = NoPage]
           u == RequestView(w, page, held)
<1>1. /\ Like(w, b) /\ Shaped(b) /\ BoxFine(b.box, op)
      /\ b.nav = w.nav + 1 /\ b.initial = w.initial
  BY BegunNav
<1> HIDE DEF b
<1>2. DOMAIN b = Fields
  BY <1>1 DEF Like
<1>3. /\ Like(w, x) /\ x.target = page /\ x.queue = page /\ x.box = b.box
      /\ x.nav = w.nav + 1 /\ x.initial = w.initial
  BY <1>1, <1>2 DEF Like, Fields
<1>4. /\ Like(w, y) /\ y.target = page /\ y.queue = NoPage /\ y.box = b.box
      /\ y.nav = w.nav + 1 /\ y.initial = w.initial
  BY <1>1, <1>2 DEF Like, Fields
<1>5. u = IF w.loading THEN x ELSE StartView(y, page, held)
  BY DEF RequestView, b
<1> HIDE DEF w1, x, y, u
<1>6. CASE w.loading
  <2>1. page # NoPage /\ QueueFine(x)
    BY <1>3, PagesAssumption DEF QueueFine, BookPages, NoPage
  <2>2. x.nav \in Nat /\ x.initial \in BOOLEAN /\ DOMAIN x.box = Threads /\ x.loading
    BY <1>3, <1>1, <1>6 DEF Shaped, BoxFine, Like
  <2>3. Fine(x, op)
    BY <1>3, <1>6, <2>1, <2>2, FineKept
  <2>4. NoFills(w)
    BY <1>6 DEF Fine
  <2>5. Quiet(x)
    BY <1>3, <2>2, <2>4 DEF Quiet, NoFills, Like
  <2>6. Went(w, u, op)
    BY <1>1, <1>3, <1>5, <1>6, <2>2, <2>3, <2>5 DEF Went, Like
  <2> QED
    BY <2>6 DEF u
<1>7. CASE ~w.loading
  <2>1. Shaped(y)
    BY <1>1, <1>4 DEF Shaped, Like, BoxFine
  <2>2. Begun(y, u, page, op)
    BY <1>1, <1>4, <1>5, <1>7, <2>1, StartViewBegins
  <2>3. Went(w, u, op)
    BY <1>4, <2>2 DEF Begun, Went, Same
  <2> QED
    BY <2>3 DEF u
<1> QED
  BY <1>6, <1>7

\* The viewer with all but the number of pages as it was.
Counted(w, u) ==
    /\ Like([w EXCEPT !.count = u.count], u)
    /\ u.nav = w.nav /\ u.initial = w.initial /\ u.target = w.target /\ u.queue = w.queue
    /\ u.mode = w.mode /\ u.box = w.box

\* adopt_page_count_if_empty moves no page number: all are pages of the book.
LEMMA AdoptedCounts ==
    ASSUME NEW w, NEW n \in {0, N}, Shaped(w)
    PROVE  /\ Counted(w, Adopted(w, n)) /\ Shaped(Adopted(w, n))
           /\ Adopted(w, n).count = IF n = N THEN N ELSE w.count
<1> DEFINE Within(p) == IF p < n THEN p ELSE n - 1
           u == [w EXCEPT !.count = n, !.requested = Within(@), !.displayed = Within(@),
                          !.target = Within(@)]
<1>1. N \in Nat \ {0} /\ DOMAIN w = Fields /\ w.count \in {0, N}
  BY PagesAssumption DEF Shaped
<1>2. CASE w.count # 0 \/ n = 0
  <2>1. Adopted(w, n) = w /\ (n = N => w.count = N)
    BY <1>1, <1>2 DEF Adopted
  <2>2. Counted(w, w)
    BY <1>1 DEF Counted, Like, Fields
  <2> QED
    BY <2>1, <2>2, <1>1
<1>3. CASE ~(w.count # 0 \/ n = 0)
  <2>1. Adopted(w, n) = u /\ n = N
    BY <1>3 DEF Adopted
  <2>2. Within(w.requested) = w.requested /\ Within(w.displayed) = w.displayed /\ Within(w.target) = w.target
    BY <1>1, <2>1 DEF Shaped, BookPages
  <2>3. u = [w EXCEPT !.count = n, !.requested = w.requested, !.displayed = w.displayed,
                          !.target = w.target]
    BY <2>2
  <2> HIDE DEF u
  <2>4. Counted(w, u) /\ u.count = N
    BY <1>1, <2>1, <2>3 DEF Counted, Like, Fields
  <2>5. Shaped(u)
    BY <1>1, <2>1, <2>3, <2>4 DEF Shaped, Counted, Like, Fields
  <2> QED
    BY <2>1, <2>4, <2>5
<1> QED
  BY <1>2, <1>3

\* The group's results as one, for the view ps.
MergedFine(ps, m, op) ==
    /\ m.ok \in BOOLEAN /\ m.count = IF m.ok THEN N ELSE 0
    /\ m.ok => m.left = ps[1]
    /\ m.right \in {ps[2], NoPage} /\ m.right \in BookPages \cup {NoPage}
    /\ Opened(m.left, op) /\ Opened(m.right, op)

\* The results of a group make one result for its view.
LEMMA MergedIsFine ==
    ASSUME NEW got, NEW ps, NEW op, \A r \in got : ResultFine(ps, r, op), \E r \in got : r.side = "left"
    PROVE  MergedFine(ps, Merged(got), op)
<1> DEFINE Of(s) == {r \in got : r.side = s}
           l == CHOOSE r \in Of("left") : TRUE
           q == CHOOSE r \in Of("right") : TRUE
<1>1. l \in got /\ l.side = "left" /\ ResultFine(ps, l, op)
  BY \E r \in Of("left") : TRUE
<1>2. Merged(got) = IF Of("right") = {} THEN l ELSE [l EXCEPT !.right = q.left]
  BY <1>1 DEF Merged
<1>3. Of("right") # {} => q \in got /\ q.side = "right" /\ ResultFine(ps, q, op)
  OBVIOUS
<1>4. NoPage \notin Animations
  BY PagesAssumption DEF NoPage
<1> HIDE DEF Of, l, q
<1>5. CASE Of("right") = {}
  BY <1>1, <1>2, <1>4, <1>5 DEF ResultFine, MergedFine, Opened
<1>6. CASE Of("right") # {}
  <2> DEFINE m == [l EXCEPT !.right = q.left]
  <2>1. m.right = q.left /\ m.ok = l.ok /\ m.count = l.count /\ m.left = l.left
    BY <1>1 DEF ResultFine
  <2>2. MergedFine(ps, m, op)
    <3> HIDE DEF m
    <3> QED
      BY <2>1, <1>1, <1>3, <1>6 DEF ResultFine, MergedFine
  <2> QED
    BY <1>2, <1>6, <2>2
<1> QED
  BY <1>5, <1>6

\* The pages between the one displayed and the one the reader wants.
Path(w) == IF w.target >= w.displayed THEN w.displayed .. w.target ELSE w.target .. w.displayed

Hurries(w) == w.mode = "latest" /\ w.queue # NoPage /\ w.queue = w.target

\* What has been done when the results of a view have come.
Settled(w, u, op) ==
    /\ Fine(u, op) /\ BoxFine(u.box, op) /\ Quiet(u) /\ u.queue = NoPage
    /\ u.nav = w.nav /\ u.initial = w.initial
    /\ u.loading => Asking(u)
    /\ Hurries(w) => u.displayed \in Path(w)

\* What is true when a view is put on the screen stays so when the queue is followed.
LEMMA FollowedAnswers ==
    ASSUME NEW w, NEW x, NEW op, NEW held \in Found \X Found, Fine(x, op), BoxFine(x.box, op), Quiet(x),
           x.nav = w.nav, x.initial = w.initial, x.queue = w.queue,
           x.loading => x.queue \notin {NoPage, x.requested},
           Hurries(w) => x.displayed \in Path(w) /\ w.target \in Path(w)
    PROVE  Settled(w, Consumed(x, held), op)
<1> DEFINE u == Consumed(x, held)
<1>1. Followed(x, u, op)
  BY ConsumedFollows
<1> HIDE DEF u
<1>2. Settled(w, u, op)
  BY <1>1 DEF Followed, Settled, Same, Hurries
<1> QED
  BY <1>2 DEF u

\* apply_display_result: an error, a view off the way, or the view requested is shown.
LEMMA AppliedAnswers ==
    ASSUME NEW w, NEW m, NEW held \in Found \X Found, NEW op, Fine(w, op), BoxFine(w.box, op),
           w.loading, w.group = NoGroup, MergedFine(ViewPages(w, w.requested), m, op)
    PROVE  Settled(w, Applied(w, w.requested, ViewPages(w, w.requested), m, held), op)
<1> DEFINE page == w.requested
           ps == ViewPages(w, page)
           w1 == Adopted(w, m.count)
           hurried == w1.mode = "latest" /\ w1.queue # NoPage /\ w1.target # w1.requested
           shown == IF hurried THEN [w1 EXCEPT !.requested = page] ELSE w1
           x == [w1 EXCEPT !.error = TRUE, !.loading = FALSE, !.slides = "off",
                           !.stream = NoPage, !.fills = [s \in Sides |-> NoId]]
           c == Committed(shown, ps, m.left, m.right)
           u == Applied(w, page, ps, m, held)
<1>1. u = IF ~m.ok THEN Consumed(x, held)
          ELSE IF hurried /\ ~OnPath(w1, page) THEN Consumed(w1, held) ELSE Consumed(c, held)
  BY DEF Applied
<1>2. /\ Shaped(w) /\ QueueFine(w) /\ w.error = FALSE /\ NoFills(w) /\ w.stream = NoPage
      /\ w.loading = TRUE
  BY DEF Fine, QueueFine, Shaped
<1>3. m.count \in {0, N} /\ (m.ok => m.count = N)
  BY DEF MergedFine
<1>4. Counted(w, w1) /\ Shaped(w1) /\ (m.ok => w1.count = N)
  BY <1>2, <1>3, AdoptedCounts
<1>5. /\ DOMAIN w1 = Fields /\ w1.requested = page /\ w1.displayed = w.displayed
      /\ w1.target = w.target /\ w1.queue = w.queue /\ w1.mode = w.mode /\ w1.nav = w.nav
      /\ w1.initial = w.initial /\ w1.box = w.box /\ w1.group = NoGroup /\ w1.loading = TRUE
      /\ w1.error = FALSE /\ w1.stream = NoPage /\ w1.fills = w.fills
      /\ w1.setting = w.setting /\ w1.blank = w.blank
  <2>1. DOMAIN w = Fields
    BY <1>2 DEF Shaped
  <2> HIDE DEF w1
  <2> QED
    BY <1>2, <1>4, <2>1 DEF Counted, Like, Fields
<1> HIDE DEF w1
<1>6. /\ DOMAIN shown = Fields /\ shown.requested = page /\ shown.target = w.target
      /\ shown.queue = w.queue /\ shown.nav = w.nav /\ shown.initial = w.initial
      /\ shown.box = w.box /\ shown.group = NoGroup /\ shown.error = FALSE /\ shown.fills = w.fills
      /\ shown.setting = w.setting /\ shown.blank = w.blank /\ shown.count = w1.count
      /\ Shaped(shown)
  <2>1. /\ shown.displayed = w1.displayed /\ shown.loading = w1.loading
        /\ shown.left = w1.left /\ shown.right = w1.right
    BY <1>5 DEF Fields
  <2>2. /\ DOMAIN shown = Fields /\ shown.requested = page /\ shown.target = w.target
        /\ shown.queue = w.queue /\ shown.nav = w.nav /\ shown.initial = w.initial
        /\ shown.box = w.box /\ shown.group = NoGroup /\ shown.error = FALSE /\ shown.fills = w.fills
        /\ shown.setting = w.setting /\ shown.blank = w.blank /\ shown.count = w1.count
    BY <1>5 DEF Fields
  <2> HIDE DEF shown
  <2> QED
    BY <1>4, <1>5, <2>1, <2>2, ZenonT(60) DEF Shaped
<1>7. NoFills(w1) /\ QueueFine(w1) /\ BoxFine(w1.box, op)
  BY <1>2, <1>5 DEF NoFills, QueueFine
<1>8. page \in BookPages /\ w.displayed \in BookPages /\ w.target \in BookPages
  BY <1>2 DEF Shaped
<1>9. w.displayed \in Path(w) /\ w.target \in Path(w)
  BY <1>8, PagesAssumption DEF Path, BookPages
<1>10. CASE ~m.ok
  <2>1. /\ DOMAIN x = Fields /\ x.error = TRUE /\ x.loading = FALSE /\ x.stream = NoPage
        /\ x.fills = [s \in Sides |-> NoId] /\ x.group = NoGroup /\ x.box = w1.box
        /\ x.nav = w1.nav /\ x.initial = w1.initial /\ x.queue = w1.queue /\ x.target = w1.target
        /\ x.requested = w1.requested /\ x.displayed = w1.displayed /\ x.count = w1.count
        /\ x.setting = w1.setting /\ x.left = w1.left /\ x.right = w1.right
    BY <1>5 DEF Fields
  <2> HIDE DEF x
  <2>2. NoFills(x) /\ DOMAIN x.fills = Sides /\ Quiet(x)
    BY <2>1 DEF NoFills, Quiet
  <2>3. Fine(x, op)
    BY <1>4, <1>7, <2>1, <2>2 DEF Fine, Shaped, QueueFine
  <2>4. Settled(w, Consumed(x, held), op)
    BY <1>5, <1>7, <1>9, <2>1, <2>2, <2>3, FollowedAnswers
  <2> QED
    BY <1>1, <1>10, <2>4
<1>11. CASE m.ok /\ hurried /\ ~OnPath(w1, page)
  <2>1. Fine(w1, op)
    BY <1>4, <1>5, <1>7 DEF Fine, QueueFine
  <2>2. Quiet(w1)
    BY <1>5, <1>7 DEF Quiet
  <2>3. w1.queue \notin {NoPage, w1.requested}
    BY <1>7, <1>11 DEF QueueFine
  <2>4. Settled(w, Consumed(w1, held), op)
    BY <1>5, <1>7, <1>9, <2>1, <2>2, <2>3, FollowedAnswers
  <2> QED
    BY <1>1, <1>11, <2>4
<1>12. CASE m.ok /\ ~(hurried /\ ~OnPath(w1, page))
  <2>1. /\ ViewPages(w1, page)[1] = ps[1] /\ m.left = ps[1]
        /\ m.right \in {ViewPages(w1, page)[2], NoPage} /\ m.right \in BookPages \cup {NoPage}
        /\ Opened(m.left, op) /\ Opened(m.right, op)
    <3>1. w.count \in {0, N} /\ w.setting \in {"single", "spread", "auto"}
      BY <1>2 DEF Shaped
    <3>2. w1.count = N
      BY <1>4, <1>12
    <3>3. /\ ViewPages(w1, page)[1] = ps[1]
          /\ \A r \in BookPages \cup {NoPage} : r \in {ps[2], NoPage} => r \in {ViewPages(w1, page)[2], NoPage}
      BY <1>5, <1>8, <3>1, <3>2, KnownPages
    <3> HIDE DEF ps
    <3>4. MergedFine(ps, m, op)
      BY DEF ps
    <3> QED
      BY <1>12, <3>3, <3>4 DEF MergedFine
  <2>2. NoFills(shown) /\ QueueFine(shown) /\ ViewPages(shown, page) = ViewPages(w1, page)
    <3> HIDE DEF shown
    <3> QED
      BY <1>2, <1>5, <1>6, SamePages DEF NoFills, QueueFine
  <2> HIDE DEF ps, shown
  <2>3. Shown(shown, c, op)
    BY <1>6, <2>1, <2>2, CommittedFine
  <2> HIDE DEF c
  <2>4. Hurries(w) => c.displayed \in Path(w)
    <3> SUFFICES ASSUME Hurries(w) PROVE page \in Path(w)
      BY <1>6, <2>3 DEF Shown
    <3>1. CASE w.target = page
      BY <1>9, <3>1
    <3>2. CASE w.target # page
      <4>1. hurried
        BY <1>5, <3>2 DEF Hurries
      <4>2. OnPath(w1, page)
        BY <1>12, <4>1
      <4> QED
        BY <1>5, <4>2 DEF OnPath, Path
    <3> QED
      BY <3>1, <3>2
  <2>5. Settled(w, Consumed(c, held), op)
    BY <1>5, <1>6, <1>7, <1>9, <2>3, <2>4, FollowedAnswers DEF Shown, Same
  <2> QED
    BY <1>1, <1>12, <2>5 DEF ps
<1> QED
  BY <1>10, <1>11, <1>12

\* A result of the group has been kept until the other one comes.
Keeps(w, a, u, op) ==
    /\ Fine(u, op) /\ Same(w, u) /\ Quiet(u) /\ u.box = w.box /\ u.loading /\ u.group # NoGroup
    /\ u.queue = w.queue /\ u.displayed = w.displayed
    /\ u.group.ids = w.group.ids /\ w.group.got \subseteq u.group.got
    /\ \A s \in Sides : w.group.ids[s] = a.id => \E r \in u.group.got : r.side = s

\* The two pages asked for are two requests.
LEMMA GroupIds ==
    ASSUME NEW w, NEW op, Shaped(w), GroupFine(w, op), NEW s \in Sides, NEW s2 \in Sides,
           w.group.ids[s] = w.group.ids[s2], w.group.ids[s] # NoId
    PROVE  s = s2
<1> SUFFICES ASSUME s # s2 PROVE FALSE
  OBVIOUS
<1> DEFINE ps == ViewPages(w, w.group.page)
<1>1. ps[1] \in BookPages /\ ps[2] \in {NoPage, ps[1] + 1} /\ w.group.pages = ps
  BY ViewIs DEF Shaped, GroupFine
<1>2. ps[1] \in Nat /\ ps[1] # ps[2]
  <2> HIDE DEF ps
  <2> QED
    BY <1>1, PagesAssumption DEF BookPages, NoPage
<1>3. w.group.ids["left"] = w.group.ids["right"] /\ w.group.ids["left"] # NoId
  BY DEF Sides
<1>4. w.group.ids["left"][2] = ps[1] /\ w.group.ids["right"][2] = ps[2]
  <2> HIDE DEF ps
  <2> QED
    BY <1>1, <1>3 DEF GroupFine, Sides
<1> HIDE DEF ps
<1> QED
  BY <1>2, <1>3, <1>4

\* absorb_interactive_partial keeps the first of two results, and applies the last.
LEMMA AbsorbedFine ==
    ASSUME NEW w, NEW a \in Answer, NEW held \in Found \X Found, NEW op, Fine(w, op), BoxFine(w.box, op),
           w.loading, w.group # NoGroup, AnswerFine(a, op), IsPending(w, a.id)
    PROVE  LET u == Absorbed(w, a, held) IN Settled(w, u, op) \/ Keeps(w, a, u, op)
<1> DEFINE g == w.group
           ps == ViewPages(w, w.requested)
           side == CHOOSE s \in Sides : g.ids[s] = a.id
           r == [side |-> side, ok |-> a.ok, count |-> a.count, left |-> a.page, right |-> NoPage]
           got == g.got \cup {r}
           done == \A s \in Sides : g.ids[s] = NoId \/ \E q \in got : q.side = s
           x == [w EXCEPT !.group = NoGroup]
           y == [w EXCEPT !.group.got = got]
           u == Absorbed(w, a, held)
<1>1. u = IF done THEN Applied(x, g.page, g.pages, Merged(got), held) ELSE y
  BY DEF Absorbed
<1>2. /\ Shaped(w) /\ GroupFine(w, op) /\ QueueFine(w) /\ w.error = FALSE /\ NoFills(w)
      /\ w.stream = NoPage /\ w.loading = TRUE
  BY DEF Fine, QueueFine, Shaped
<1>3. side \in Sides /\ g.ids[side] = a.id
  BY DEF IsPending
<1>4. /\ a.id \in PageIds /\ a.id # NoId /\ a.page \in BookPages \cup {NoPage} /\ a.ok \in BOOLEAN
      /\ a.count = IF a.ok THEN N ELSE 0
  BY NoIds DEF Answer, AnswerFine
<1>5. /\ DOMAIN g = {"page", "pages", "ids", "got"} /\ g.page = w.requested /\ g.pages = ps
      /\ a.id[2] = ps[IF side = "left" THEN 1 ELSE 2]
      /\ \A q \in g.got : ResultFine(ps, q, op)
      /\ g.ids["left"] # NoId \/ \E q \in g.got : q.side = "left"
  <2> HIDE DEF side
  <2> QED
    BY <1>2, <1>3, <1>4 DEF GroupFine
<1>6. ps[1] \in BookPages /\ N \in Nat \ {0} /\ NoPage \notin Animations /\ \A p \in BookPages : p < N
  BY <1>2, ViewIs, PagesAssumption DEF Shaped, BookPages, NoPage
<1>7. r.side = side /\ r.left = a.page /\ r.ok = a.ok
  OBVIOUS
<1>8. ResultFine(ps, r, op)
  <2> HIDE DEF ps, side
  <2>1. r.side = "left" => (r.ok => r.left = ps[1])
    BY <1>3, <1>4, <1>5, <1>6 DEF AnswerFine, PageOf
  <2>2. r.side = "right" => r.left \in {ps[2], NoPage}
    BY <1>3, <1>4, <1>5, <1>6 DEF AnswerFine, PageOf
  <2>3. Opened(r.left, op)
    BY <1>4, <1>6 DEF AnswerFine, Opened
  <2> QED
    BY <1>3, <1>4, <2>1, <2>2, <2>3 DEF ResultFine
<1> HIDE DEF side, r, ps
<1>9. r \in got /\ g.got \subseteq got /\ \A q \in got : ResultFine(ps, q, op)
  BY <1>5, <1>8
<1>10. CASE done
  <2>1. /\ DOMAIN x = Fields /\ x.group = NoGroup /\ x.box = w.box /\ x.nav = w.nav
        /\ x.initial = w.initial /\ x.queue = w.queue /\ x.target = w.target
        /\ x.requested = w.requested /\ x.displayed = w.displayed /\ x.count = w.count
        /\ x.setting = w.setting /\ x.blank = w.blank /\ x.left = w.left /\ x.right = w.right
        /\ x.error = w.error /\ x.loading = w.loading /\ x.stream = w.stream /\ x.fills = w.fills
        /\ x.mode = w.mode
    BY <1>2 DEF Fields, Shaped
  <2> HIDE DEF x
  <2>2. Fine(x, op)
    BY <1>2, <2>1 DEF Fine, Shaped, QueueFine, NoFills
  <2>3. \E q \in got : q.side = "left"
    BY <1>5, <1>10 DEF Sides
  <2>4. MergedFine(ps, Merged(got), op)
    <3> HIDE DEF got
    <3> QED
      BY <1>9, <2>3, MergedIsFine
  <2>5. ViewPages(x, x.requested) = ps
    BY <2>1, SamePages DEF ps
  <2>6. Settled(x, Applied(x, x.requested, ps, Merged(got), held), op)
    <3> HIDE DEF got
    <3> QED
      BY <1>2, <2>1, <2>2, <2>4, <2>5, AppliedAnswers
  <2>7. Settled(w, Applied(x, x.requested, ps, Merged(got), held), op)
    <3> HIDE DEF got
    <3> QED
      BY <2>1, <2>6 DEF Settled, Hurries, Path
  <2>8. u = Applied(x, x.requested, ps, Merged(got), held)
    BY <1>1, <1>5, <1>10, <2>1
  <2> QED
    BY <2>7, <2>8
<1>11. CASE ~done
  <2>1. u = y
    BY <1>1, <1>11
  <2>2. DOMAIN w = Fields
    BY <1>2 DEF Shaped
  <2>3. y.group = [g EXCEPT !.got = got]
    <3> HIDE DEF got
    <3> QED
      BY <2>2 DEF Fields
  <2>4. /\ y.group.got = got /\ y.group.page = g.page /\ y.group.pages = g.pages
        /\ y.group.ids = g.ids /\ DOMAIN y.group = DOMAIN g
    <3> HIDE DEF got, y
    <3> QED
      BY <1>5, <2>3
  <2>5. /\ DOMAIN y = Fields /\ y.box = w.box /\ y.nav = w.nav
        /\ y.initial = w.initial /\ y.queue = w.queue /\ y.target = w.target
        /\ y.requested = w.requested /\ y.displayed = w.displayed /\ y.count = w.count
        /\ y.setting = w.setting /\ y.blank = w.blank /\ y.left = w.left /\ y.right = w.right
        /\ y.error = w.error /\ y.loading = w.loading /\ y.stream = w.stream /\ y.fills = w.fills
    <3> HIDE DEF got
    <3> QED
      BY <2>2 DEF Fields
  <2> HIDE DEF y, got, done
  <2>6. Shaped(y) /\ Same(w, y) /\ NoFills(y) /\ Quiet(y)
    BY <1>2, <2>5 DEF Shaped, Same, NoFills, Quiet
  <2>7. ViewPages(y, y.requested) = ps
    BY <2>5, SamePages DEF ps
  <2>8. GroupFine(y, op)
    <3>1. g.ids["left"] # NoId \/ \E q \in got : q.side = "left"
      BY <1>5, <1>9
    <3>2. /\ DOMAIN g.ids = Sides
          /\ \A s \in Sides : g.ids[s] # NoId =>
                /\ g.ids[s] \in PageIds /\ g.ids[s][3] = "display"
                /\ g.ids[s][2] = ps[IF s = "left" THEN 1 ELSE 2]
      BY <1>2, <1>5 DEF GroupFine
    <3> QED
      BY <1>5, <1>9, <2>4, <2>5, <2>7, <3>1, <3>2 DEF GroupFine
  <2>9. Fine(y, op)
    BY <1>2, <2>5, <2>6, <2>8 DEF Fine, QueueFine
  <2>10. y.group # NoGroup
    <3>1. y.group.page # NoGroup.page
      BY <1>2, <1>5, <2>4, PagesAssumption DEF NoGroup, Shaped, BookPages, NoPage
    <3> QED
      BY <3>1
  <2>11. \A s \in Sides : g.ids[s] = a.id => \E q \in y.group.got : q.side = s
    BY <1>2, <1>3, <1>4, <1>7, <1>9, <2>4, GroupIds
  <2>12. Keeps(w, a, y, op)
    BY <1>2, <1>9, <2>4, <2>5, <2>6, <2>9, <2>10, <2>11 DEF Keeps
  <2> QED
    BY <2>1, <2>12 DEF y
<1> QED
  BY <1>10, <1>11

\* Frames have been taken for the animation on side s.
Takes(w, s, u, op) ==
    /\ Fine(u, op) /\ Filling(u) /\ Same(w, u)
    /\ u.box = w.box /\ u.loading = w.loading /\ u.queue = w.queue
    /\ u.displayed = w.displayed
    /\ u.fills = [w.fills EXCEPT ![s] = NoId]

\* The two pages on the screen are two pages.
LEMMA ShownPages ==
    ASSUME NEW w, NEW op, Shaped(w), ShowsView(w, op)
    PROVE  /\ w.left.page \in BookPages /\ w.right.page \in BookPages \cup {NoPage}
           /\ w.left.page # w.right.page /\ w.right.page \in {NoPage, w.left.page + 1}
           /\ \A p \in BookPages : p \in Nat /\ p < N /\ p # NoPage
<1> DEFINE ps == ViewPages(w, w.displayed)
<1>1. ps[1] \in BookPages /\ ps[2] \in {NoPage, ps[1] + 1}
  BY ViewIs DEF Shaped
<1>2. \A p \in BookPages : p \in Nat /\ p < N /\ p # NoPage
  BY PagesAssumption DEF BookPages, NoPage
<1>3. w.left.page = ps[1] /\ w.right.page \in {ps[2], NoPage} /\ w.right.page \in BookPages \cup {NoPage}
  BY DEF ShowsView
<1> HIDE DEF ps
<1> QED
  BY <1>1, <1>2, <1>3

\* Frames of an animation replace those of the same page on the same side.
LEMMA ChunkTakenFine ==
    ASSUME NEW w, NEW a \in Answer, NEW op, Fine(w, op), Filling(w), ~w.loading => w.queue = NoPage,
           AnswerFine(a, op), NEW s \in Sides, w.fills[s] = a.id
    PROVE  Takes(w, s, ChunkTaken(w, s, a), op)
<1> DEFINE w1 == [w EXCEPT !.fills[s] = NoId]
           More(c) == IF a.page = NoPage THEN c ELSE [page |-> a.page, filling |-> FALSE]
           u == ChunkTaken(w, s, a)
<1>1. a.id \in PageIds /\ a.id # NoId
  BY NoIds DEF Answer
<1>2. /\ Shaped(w) /\ ~w.loading /\ ~w.error /\ ShowsView(w, op) /\ w.queue = NoPage
      /\ w.target = w.requested /\ (w.mode = "latest" => w.stream = NoPage) /\ w.group = NoGroup /\ w.loading = FALSE
      /\ w.error = FALSE
  BY <1>1 DEF Fine, NoFills, ShowsView, Shaped
<1>3. /\ w.left.page \in BookPages /\ w.right.page \in BookPages \cup {NoPage}
      /\ w.left.page # w.right.page
      /\ \A p \in BookPages : p \in Nat /\ p < N /\ p # NoPage
  BY <1>2, ShownPages
<1>4. a.id[3] = "fill" /\ a.id[2] = w[s].page /\ a.ok /\ w[s].page \in Nat
  BY <1>1, <1>2, NoIds DEF ShowsView, AnswerFine
<1>5. w[s].page \in BookPages /\ a.page = w[s].page /\ a.page # NoPage
  BY <1>3, <1>4 DEF AnswerFine, PageOf, Sides, NoPage
<1>6. /\ DOMAIN w1 = Fields /\ w1.fills = [w.fills EXCEPT ![s] = NoId] /\ Same(w, w1)
      /\ w1.box = w.box /\ w1.queue = w.queue /\ w1.target = w.target
      /\ w1.requested = w.requested /\ w1.displayed = w.displayed
      /\ w1.left = w.left /\ w1.right = w.right /\ w1.resume = w.resume /\ w1.mode = w.mode
      /\ w1.error = w.error /\ w1.loading = w.loading /\ w1.stream = w.stream /\ w1.group = w.group
  BY <1>2 DEF Fields, Shaped, Same
<1> HIDE DEF w1
<1>7. /\ DOMAIN w1.fills = Sides /\ w1.fills[s] = NoId
      /\ \A s2 \in Sides : s2 # s => w1.fills[s2] = w.fills[s2]
  BY <1>2, <1>6 DEF Shaped
<1>8. CASE w.stream # w.displayed \/ w.mode = "latest"
  <2>1. u = w1
    BY <1>8 DEF ChunkTaken, w1
  <2>2. Shaped(w1) /\ w.stream = NoPage
    BY <1>2, <1>6, <1>7, <1>8 DEF Shaped, Same, ShowsView
  <2>3. ViewPages(w1, w1.displayed) = ViewPages(w, w.displayed)
    BY <1>6, SamePages DEF Same
  <2>4. ShowsView(w1, op)
    <3>1. \A s2 \in Sides : w1.fills[s2] # NoId =>
             w1.fills[s2] \in PageIds /\ w1.fills[s2][2] = w1[s2].page /\ w1.fills[s2][3] = "fill"
      BY <1>2, <1>6, <1>7 DEF ShowsView, Sides
    <3> QED
      BY <1>2, <1>6, <2>3, <3>1 DEF ShowsView
  <2>5. Fine(w1, op) /\ Filling(w1)
    BY <1>2, <1>6, <2>2, <2>4 DEF Fine, Filling
  <2>6. Takes(w, s, w1, op)
    BY <1>6, <2>5 DEF Takes
  <2> QED
    BY <2>1, <2>6
<1>9. CASE ~(w.stream # w.displayed \/ w.mode = "latest")
  <2> DEFINE x == IF s = "left" THEN [w1 EXCEPT !.left = More(@)] ELSE [w1 EXCEPT !.right = More(@)]
             shown == [page |-> a.page, filling |-> FALSE]
  <2>1. u = x
    BY <1>9 DEF ChunkTaken, w1
  <2>2. \A c : More(c) = shown
    BY <1>5
  <2>3. /\ x.left = (IF s = "left" THEN shown ELSE w.left)
        /\ x.right = (IF s = "left" THEN w.right ELSE shown)
        /\ DOMAIN x = Fields /\ x.fills = w1.fills /\ Same(w, x)
        /\ x.box = w.box /\ x.queue = w.queue /\ x.target = w.target
        /\ x.requested = w.requested /\ x.displayed = w.displayed
        /\ x.resume = w.resume /\ x.mode = w.mode
        /\ x.error = w.error /\ x.loading = w.loading /\ x.stream = w.stream /\ x.group = w.group
    <3> HIDE DEF More, shown
    <3> QED
      BY <1>6, <2>2 DEF Fields, Same
  <2> HIDE DEF x
  <2>4. /\ DOMAIN x.left = {"page", "filling"} /\ DOMAIN x.right = {"page", "filling"}
        /\ x.left.filling \in BOOLEAN /\ x.right.filling \in BOOLEAN
    <3>1. DOMAIN shown = {"page", "filling"} /\ shown.filling = FALSE
      OBVIOUS
    <3> HIDE DEF shown
    <3>2. CASE s = "left"
      BY <1>2, <2>3, <3>1, <3>2 DEF Shaped
    <3>3. CASE s # "left"
      BY <1>2, <2>3, <3>1, <3>3 DEF Shaped
    <3> QED
      BY <3>2, <3>3
  <2>5. x.left.page = w.left.page /\ x.right.page = w.right.page
    BY <1>5, <2>3 DEF Sides
  <2>6. \A s2 \in Sides : (s2 = s => x[s2] = shown) /\ (s2 # s => x[s2] = w[s2])
    <3> HIDE DEF shown
    <3> QED
      BY <2>3 DEF Sides
  <2>7. Shaped(x)
    BY <1>2, <1>7, <2>3, <2>4 DEF Shaped, Same
  <2>8. ViewPages(x, x.displayed) = ViewPages(w, w.displayed)
    BY <2>3, SamePages DEF Same
  <2>9. ShowsView(x, op)
    <3>1. \A s2 \in Sides : x.fills[s2] # NoId =>
             x.fills[s2] \in PageIds /\ x.fills[s2][2] = x[s2].page /\ x.fills[s2][3] = "fill"
      BY <1>2, <1>7, <2>3, <2>6 DEF ShowsView
    <3> QED
      BY <1>2, <2>3, <2>5, <2>8, <3>1 DEF ShowsView
  <2>10. Fine(x, op)
    BY <1>2, <2>3, <2>7, <2>9 DEF Fine
  <2>11. Filling(x)
    <3> SUFFICES ASSUME x.stream # NoPage, NEW s2 \in Sides, x[s2].filling PROVE x.fills[s2] # NoId
      BY DEF Filling
    <3>1. s2 # s
      BY <2>6
    <3>2. w[s2].filling /\ w.stream # NoPage
      BY <2>3, <2>6, <3>1
    <3>3. w.fills[s2] # NoId
      BY <1>2, <3>2 DEF Filling
    <3> QED
      BY <1>7, <2>3, <3>1, <3>3
  <2>12. Takes(w, s, x, op)
    BY <1>6, <2>3, <2>10, <2>11 DEF Takes
  <2> QED
    BY <2>1, <2>12
<1> QED
  BY <1>8, <1>9

\* A set of pages has a first one and a last one.
LEMMA FirstAndLast ==
    ASSUME NEW T, T \subseteq BookPages, T # {}
    PROVE  /\ \E p \in T : \A q \in T : p <= q
           /\ \E p \in T : \A q \in T : p >= q
<1>1. N \in Nat /\ \A p \in T : p \in Nat /\ p < N
  <2>1. N \in Nat
    BY PagesAssumption
  <2>2. ASSUME NEW p \in T PROVE p \in Nat /\ p < N
    <3>1. p \in 0 .. N - 1
      BY <2>2 DEF BookPages
    <3> QED
      BY <2>1, <3>1
  <2> QED
    BY <2>1, <2>2
<1>2. \E p \in T : \A q \in T : p <= q
  BY <1>1, LeastNat
<1> DEFINE U == {k \in Nat : k <= N /\ N - k \in T}
<1>3. U \subseteq Nat /\ U # {}
  <2>1. PICK p \in T : TRUE
    OBVIOUS
  <2>2. N - p \in Nat /\ N - p <= N /\ N - (N - p) = p
    BY <1>1
  <2>3. N - p \in U
    BY <2>1, <2>2
  <2> QED
    BY <2>3
<1>4. \A q \in T : N - q \in U
  <2> SUFFICES ASSUME NEW q \in T PROVE N - q \in U
    OBVIOUS
  <2>1. N - q \in Nat /\ N - q <= N /\ N - (N - q) = q
    BY <1>1
  <2> QED
    BY <2>1
<1>5. PICK k \in U : \A j \in U : k <= j
  <2> HIDE DEF U
  <2> QED
    BY <1>3, LeastNat
<1>6. k \in Nat /\ N - k \in T
  BY <1>5
<1>7. \A q \in T : N - k >= q
  <2> SUFFICES ASSUME NEW q \in T PROVE N - k >= q
    OBVIOUS
  <2>1. k <= N - q
    <3> HIDE DEF U
    <3> QED
      BY <1>4, <1>5
  <2> QED
    BY <1>1, <1>6, <2>1
<1> QED
  BY <1>2, <1>6, <1>7

\* A key or the wheel asks for a page of the book or for none.
LEMMA DestinationIs ==
    ASSUME NEW w, Shaped(w), NEW dir \in Directions
    PROVE  Destination(w, dir) \in BookPages \cup {NoPage}
<1>1. /\ Base(w) \in BookPages /\ N \in Nat \ {0} /\ w.count \in {0, N} /\ 0 \in BookPages
  BY PagesAssumption DEF Base, Shaped, BookPages
<1>2. NextPage(w) \in BookPages \cup {NoPage}
  <2> DEFINE step == IF w.count > 0 /\ ViewPages(w, Base(w))[2] # NoPage THEN 2 ELSE 1
             ahead == {p \in BookPages : p > Base(w) /\ Anchor(w.blank)[p]}
             first == CHOOSE p \in ahead : \A q \in ahead : p <= q
  <2>1. NextPage(w) = IF w.setting = "auto" THEN IF ahead = {} THEN NoPage ELSE first
                      ELSE IF Base(w) + step < w.count THEN Base(w) + step ELSE NoPage
    BY DEF NextPage
  <2>2. step \in {1, 2}
    OBVIOUS
  <2>3. ahead # {} => first \in ahead
    <3> SUFFICES ASSUME ahead # {} PROVE first \in ahead
      OBVIOUS
    <3>1. ahead \subseteq BookPages
      OBVIOUS
    <3> HIDE DEF ahead
    <3> QED
      BY <3>1, FirstAndLast
  <2>4. ahead \subseteq BookPages
    OBVIOUS
  <2> HIDE DEF step, ahead, first
  <2>5. CASE w.setting = "auto"
    BY <2>1, <2>3, <2>4, <2>5
  <2>6. CASE w.setting # "auto" /\ Base(w) + step < w.count
    <3>1. Base(w) + step \in BookPages
      BY <1>1, <2>2, <2>6 DEF BookPages
    <3> QED
      BY <2>1, <2>6, <3>1
  <2>7. CASE w.setting # "auto" /\ ~(Base(w) + step < w.count)
    BY <2>1, <2>7
  <2> QED
    BY <2>5, <2>6, <2>7
<1>3. PreviousPage(w) \in BookPages \cup {NoPage}
  <2> DEFINE step == IF w.count > 0 /\ ViewPages(w, Base(w))[2] # NoPage THEN 2 ELSE 1
             start == IF w.setting = "auto" THEN AutoPages(Base(w), w.blank)[1] ELSE Base(w)
             behind == {p \in BookPages : p < start /\ Anchor(w.blank)[p]}
             last == CHOOSE p \in behind : \A q \in behind : p >= q
  <2>1. PreviousPage(w) = IF w.setting = "auto" THEN IF behind = {} THEN NoPage ELSE last
                          ELSE IF Base(w) = 0 THEN NoPage
                          ELSE IF Base(w) > step THEN Base(w) - step ELSE 0
    BY DEF PreviousPage
  <2>2. step \in {1, 2}
    OBVIOUS
  <2>3. behind # {} => last \in behind
    <3> SUFFICES ASSUME behind # {} PROVE last \in behind
      OBVIOUS
    <3>1. behind \subseteq BookPages
      OBVIOUS
    <3> HIDE DEF behind
    <3> QED
      BY <3>1, FirstAndLast
  <2>4. behind \subseteq BookPages
    OBVIOUS
  <2> HIDE DEF step, behind, last
  <2>5. CASE w.setting = "auto"
    BY <2>1, <2>3, <2>4, <2>5
  <2>6. CASE w.setting # "auto" /\ Base(w) # 0 /\ Base(w) > step
    <3>1. Base(w) - step \in BookPages
      BY <1>1, <2>2, <2>6 DEF BookPages
    <3> QED
      BY <2>1, <2>6, <3>1
  <2>7. CASE w.setting # "auto" /\ ~(Base(w) # 0 /\ Base(w) > step)
    BY <1>1, <2>1, <2>7
  <2> QED
    BY <2>5, <2>6, <2>7
<1>4. FirstPage(w) \in BookPages \cup {NoPage}
  BY <1>1 DEF FirstPage
<1>5. LastPage(w) \in BookPages \cup {NoPage}
  <2>1. w.count = 0 \/ w.count - 1 \in BookPages
    BY <1>1 DEF BookPages
  <2> QED
    BY <1>1, <2>1 DEF LastPage
<1> QED
  BY <1>2, <1>3, <1>4, <1>5 DEF Directions, Destination

\* The reader has gone to another view: the invariant holds of it.
LEMMA WentKeeps ==
    ASSUME PagesInv, NEW x, NEW u, UI(u), Went(x, u, opened), u.initial = FALSE
    PROVE  PagesInv'
<1>1. v' = u /\ job' = job /\ opened' = opened /\ answers' = answers /\ errors' = errors
  BY DEF UI
<1>2. /\ Fine(v', opened') /\ (\A t \in Threads : MsgFine(v'.box[t], t, opened')) /\ NoFills(v')
      /\ (~v'.loading => v'.queue = NoPage) /\ ~v'.initial
      /\ (v'.loading => v'.group # NoGroup)
      /\ ~v'.loading /\ v'.stream # NoPage => v'.left.filling = FALSE /\ v'.right.filling = FALSE
  BY <1>1 DEF Went, Quiet, BoxFine
<1>3. Filling(v')
  BY <1>2 DEF Filling, Sides
<1>4. ViewInv'
  BY <1>2, <1>3 DEF ViewInv
<1>5. ThreadInv'
  BY <1>1, <1>2 DEF PagesInv, ThreadInv
<1>6. WayInv'
  BY <1>2 DEF WayInv, NoFills
<1> QED
  BY <1>4, <1>5, <1>6 DEF PagesInv

\* Nothing has changed of a view that is shown or loads.
LEMMA LikeKeeps ==
    ASSUME PagesInv, NEW u, UI(u), Like(v, u), u.box = v.box, u.initial = v.initial,
           u.queue = v.queue, u.target = v.target, u.nav = v.nav, u.mode \in {v.mode, "sequential"}
    PROVE  PagesInv'
<1>1. v' = u /\ job' = job /\ opened' = opened /\ answers' = answers /\ errors' = errors
  BY DEF UI
<1>2. Fine(v, opened) /\ Shaped(v)
  BY DEF PagesInv, ViewInv, Fine
<1>3. QueueFine(u)
  BY <1>2 DEF Fine, Like, QueueFine
<1>4. ~u.loading /\ ~u.error /\ u.target = u.requested /\ u.mode = "latest" => u.stream = NoPage
  BY <1>2 DEF Fine, Like, ShowsView
<1>5. /\ u.nav \in Nat /\ u.target \in BookPages /\ u.queue \in BookPages \cup {NoPage}
      /\ u.initial \in BOOLEAN /\ DOMAIN u.box = Threads
  BY <1>2 DEF Shaped
<1>6. Fine(v', opened')
  BY <1>1, <1>2, <1>3, <1>4, <1>5, FineKept
<1>7. Filling(v')
  <2>1. u["left"] = v["left"] /\ u["right"] = v["right"] /\ u.fills = v.fills /\ u.loading = v.loading
        /\ u.stream = v.stream
    BY DEF Like
  <2> QED
    BY <1>1, <2>1 DEF PagesInv, ViewInv, Filling, Sides
<1>8. ViewInv'
  BY <1>1, <1>6, <1>7 DEF PagesInv, ViewInv, Like
<1>9. ThreadInv'
  BY <1>1 DEF PagesInv, ThreadInv
<1>10. WayInv'
  BY <1>1 DEF PagesInv, WayInv, OnItsWay, Like
<1> QED
  BY <1>8, <1>9, <1>10 DEF PagesInv

\* The reader's inputs change the fields of Like not at all or by going to a view.
Apart(w, u) ==
    /\ Like(w, u) /\ u.box = w.box /\ u.initial = w.initial /\ u.queue = w.queue
    /\ u.target = w.target /\ u.nav = w.nav

\* A step of the reader goes to another view, or leaves the one there is.
Goes(u) == \E x : x.nav = v.nav /\ Went(x, u, opened) /\ u.initial = FALSE

Stays(u) == Apart(v, u) /\ u.mode \in {v.mode, "sequential"}

ReaderStep == \E u : UI(u) /\ (Goes(u) \/ Stays(u))

\* Whatever the reader does, the invariant holds.
LEMMA ReaderStepKeeps == ASSUME PagesInv, ReaderStep PROVE PagesInv'
BY WentKeeps, LikeKeeps DEF ReaderStep, Goes, Stays, Apart

\* The mode and the slideshow do not matter to where the reader has gone.
LEMMA WentApart ==
    ASSUME NEW x, NEW w, NEW u, NEW op, Went(x, w, op), Apart(w, u)
    PROVE  Went(x, u, op)
<1>1. Fine(w, op) /\ Shaped(w)
  BY DEF Went, Fine
<1>2. QueueFine(u)
  BY <1>1 DEF Fine, Apart, Like, QueueFine
<1>3. /\ u.nav \in Nat /\ u.target \in BookPages /\ u.queue \in BookPages \cup {NoPage}
      /\ u.initial \in BOOLEAN /\ DOMAIN u.box = Threads
      /\ ~u.loading => u.stream = NoPage
  BY <1>1 DEF Shaped, Apart, Like, Went
<1>4. Fine(u, op)
  BY <1>1, <1>2, <1>3, FineKept DEF Apart
<1> QED
  BY <1>4 DEF Went, Apart, Like, Quiet, NoFills

\* A key leads to another view or nowhere.
LEMMA MovedGoes ==
    ASSUME PagesInv, ~v.initial, NEW w, Apart(v, w), NEW dir \in Directions, NEW held \in Found \X Found
    PROVE  Moved(w, dir, held) = w \/ Went(w, Moved(w, dir, held), opened)
<1>1. Fine(v, opened) /\ Shaped(v) /\ (v.loading => v.group # NoGroup)
  BY DEF PagesInv, ViewInv, Fine
<1>2. Shaped(w)
  BY <1>1 DEF Shaped, Apart, Like
<1>3. Destination(w, dir) \in BookPages \cup {NoPage}
  BY <1>2, DestinationIs
<1>4. CASE Destination(w, dir) = NoPage
  BY <1>4 DEF Moved
<1>5. CASE Destination(w, dir) \in BookPages /\ Destination(w, dir) # NoPage
  <2>1. Moved(w, dir, held) = RequestView(w, Destination(w, dir), held)
    BY <1>5 DEF Moved
  <2>2. ASSUME w.loading PROVE Fine(w, opened) /\ w.group # NoGroup
    <3>1. QueueFine(w)
      BY <1>1 DEF Fine, Apart, Like, QueueFine
    <3>2. /\ w.nav \in Nat /\ w.target \in BookPages /\ w.queue \in BookPages \cup {NoPage}
          /\ w.initial \in BOOLEAN /\ DOMAIN w.box = Threads
      BY <1>2 DEF Shaped
    <3>3. Fine(w, opened)
      BY <1>1, <2>2, <3>1, <3>2, FineKept DEF Apart
    <3> QED
      BY <1>1, <2>2, <3>3 DEF Apart, Like
  <2> QED
    BY <1>2, <1>5, <2>1, <2>2, RequestViewGoes
<1> QED
  BY <1>3, <1>4, <1>5

\* Before the first load the page to begin with can be replaced.
LEMMA LibraryAnswersKeeps == ASSUME PagesInv, LibraryAnswers PROVE PagesInv'
<1>1. PICK p \in Starts : UI([v EXCEPT !.requested = p, !.displayed = p, !.target = p])
  BY DEF LibraryAnswers
<1> DEFINE u == [v EXCEPT !.requested = p, !.displayed = p, !.target = p]
<1>2. /\ v.initial /\ Fine(v, opened) /\ Shaped(v) /\ DOMAIN v = Fields /\ v.loading = TRUE
      /\ v.group = NoGroup /\ v.mode = "sequential" /\ v.queue = NoPage /\ p \in BookPages
  BY PagesAssumption DEF LibraryAnswers, PagesInv, ViewInv, Fine, Shaped, BookPages
<1>3. /\ DOMAIN u = Fields /\ u.requested = p /\ u.displayed = p /\ u.target = p /\ Same(v, u)
      /\ u.loading = v.loading /\ u.group = v.group /\ u.mode = v.mode /\ u.queue = v.queue
      /\ u.error = v.error /\ u.left = v.left /\ u.right = v.right /\ u.stream = v.stream
      /\ u.fills = v.fills /\ u.box = v.box
  BY <1>2 DEF Fields, Same
<1> HIDE DEF u
<1>4. v' = u /\ job' = job /\ opened' = opened /\ answers' = answers /\ errors' = errors
  BY <1>1 DEF UI, u
<1>5. Shaped(u) /\ NoFills(u)
  BY <1>2, <1>3 DEF Shaped, Same, Fine, NoFills
<1>6. Fine(u, opened)
  BY <1>2, <1>3, <1>5 DEF Fine
<1>7. ViewInv'
  BY <1>2, <1>3, <1>4, <1>6 DEF ViewInv, Same, Filling
<1>8. ThreadInv' /\ WayInv'
  BY <1>3, <1>4, <1>5 DEF PagesInv, ThreadInv, WayInv, NoFills
<1> QED
  BY <1>7, <1>8 DEF PagesInv

\* load_view is a step of the reader.
LEMMA LoadViewSteps ==
    ASSUME PagesInv, NEW w, Shaped(w), w.initial = FALSE, NEW page \in BookPages,
           w.nav = v.nav, NEW held \in Found \X Found, NEW next \in Found \X Found,
           UI(LoadView(w, page, held, next))
    PROVE  ReaderStep
<1>1. Went(w, LoadView(w, page, held, next), opened)
  BY LoadViewGoes
<1>2. LoadView(w, page, held, next).initial = FALSE
  BY <1>1 DEF Went
<1> QED
  BY <1>1, <1>2 DEF ReaderStep, Goes

\* So is the first load.
LEMMA InitialLoadSteps == ASSUME PagesInv, InitialLoad PROVE ReaderStep
<1>1. PICK h \in Found \X Found, h2 \in Found \X Found : UI(LoadView([v EXCEPT !.initial = FALSE], v.requested, h, h2))
  BY PagesAssumption DEF InitialLoad
<1> DEFINE w == [v EXCEPT !.initial = FALSE]
<1>2. Shaped(v)
  BY DEF PagesInv, ViewInv, Fine
<1>3. Shaped(w) /\ w.initial = FALSE /\ w.nav = v.nav /\ v.requested \in BookPages
  BY <1>2 DEF Shaped, Fields
<1> HIDE DEF w
<1>4. UI(LoadView(w, v.requested, h, h2))
  BY <1>1 DEF w
<1> QED
  BY <1>3, <1>4, LoadViewSteps

\* A page turn that moves nowhere puts the mode back.
LEMMA TurnSteps == ASSUME PagesInv, Turn PROVE ReaderStep
<1>1. PICK dir \in Directions, h \in Found \X Found, way \in {"sequential", "latest"} :
         LET w == Moved([v EXCEPT !.slides = "off", !.mode = way], dir, h)
         IN  UI(IF w.target = v.target THEN [w EXCEPT !.mode = v.mode] ELSE w)
  BY PagesAssumption DEF Turn
<1> DEFINE x == [v EXCEPT !.slides = "off", !.mode = way]
           w == Moved(x, dir, h)
           u == IF w.target = v.target THEN [w EXCEPT !.mode = v.mode] ELSE w
<1>2. Shaped(v) /\ DOMAIN v = Fields /\ ~v.initial /\ v.initial = FALSE
  BY DEF PagesInv, ViewInv, Fine, Shaped, Turn, MayTurn
<1>3. Apart(v, x)
  BY <1>2 DEF Apart, Like, Fields
<1> HIDE DEF x
<1>4. w = x \/ Went(x, w, opened)
  BY <1>2, <1>3, MovedGoes
<1> HIDE DEF w
<1>5. UI(u)
  BY <1>1 DEF w, x
<1>6. CASE w = x
  <2>1. x.target = v.target /\ DOMAIN x = Fields
    BY <1>3 DEF Apart, Like
  <2>2. u = [x EXCEPT !.mode = v.mode]
    BY <1>6, <2>1
  <2>3. Apart(x, u) /\ u.mode = v.mode
    <3> HIDE DEF u
    <3> QED
      BY <2>1, <2>2 DEF Apart, Like, Fields
  <2> HIDE DEF u
  <2>4. Apart(v, u)
    BY <1>3, <2>3 DEF Apart, Like
  <2> QED
    BY <1>5, <2>3, <2>4 DEF ReaderStep, Stays
<1>7. CASE Went(x, w, opened)
  <2>1. DOMAIN w = Fields /\ w.initial = FALSE
    BY <1>2, <1>3, <1>7 DEF Went, Fine, Shaped, Apart
  <2>2. Apart(w, u)
    BY <2>1 DEF Apart, Like, Fields
  <2> HIDE DEF u
  <2>3. Went(x, u, opened) /\ u.initial = FALSE
    BY <1>7, <2>1, <2>2, WentApart DEF Apart
  <2> QED
    BY <1>3, <1>5, <2>3 DEF ReaderStep, Goes, Apart
<1> QED
  BY <1>4, <1>6, <1>7

\* A tick of the slideshow is a page turn.
LEMMA SlideshowTickSteps == ASSUME PagesInv, SlideshowTick PROVE ReaderStep
<1>1. PICK h \in Found \X Found :
         LET w == Moved([v EXCEPT !.mode = "sequential"], "next", h)
         IN  UI([w EXCEPT !.slides = IF w.target = v.target THEN "off" ELSE "waits"])
  BY PagesAssumption DEF SlideshowTick
<1> DEFINE x == [v EXCEPT !.mode = "sequential"]
           w == Moved(x, "next", h)
           u == [w EXCEPT !.slides = IF w.target = v.target THEN "off" ELSE "waits"]
<1>2. Shaped(v) /\ DOMAIN v = Fields /\ ~v.initial /\ v.initial = FALSE /\ "next" \in Directions
  BY DEF PagesInv, ViewInv, Fine, Shaped, SlideshowTick, MayTurn, Directions
<1>3. Apart(v, x) /\ x.mode = "sequential"
  BY <1>2 DEF Apart, Like, Fields
<1> HIDE DEF x
<1>4. w = x \/ Went(x, w, opened)
  BY <1>2, <1>3, MovedGoes
<1> HIDE DEF w
<1>5. UI(u)
  BY <1>1 DEF w, x
<1>6. DOMAIN w = Fields
  BY <1>3, <1>4 DEF Went, Fine, Shaped, Apart, Like
<1>7. Apart(w, u) /\ u.mode = w.mode
  BY <1>6 DEF Apart, Like, Fields
<1> HIDE DEF u
<1>8. CASE w = x
  <2>1. Apart(v, u) /\ u.mode = "sequential"
    BY <1>3, <1>7, <1>8 DEF Apart, Like
  <2> QED
    BY <1>5, <2>1 DEF ReaderStep, Stays
<1>9. CASE Went(x, w, opened)
  <2>1. Went(x, u, opened) /\ u.initial = FALSE
    BY <1>2, <1>3, <1>7, <1>9, WentApart DEF Apart, Went
  <2> QED
    BY <1>3, <1>5, <2>1 DEF ReaderStep, Goes, Apart
<1> QED
  BY <1>4, <1>8, <1>9

\* The slider asks for a page of the book.
LEMMA SeekSteps == ASSUME PagesInv, Seek PROVE ReaderStep
<1>1. PICK p \in 0 .. (IF v.count = 0 THEN 0 ELSE v.count - 1), h \in Found \X Found : UI(RequestView(v, p, h))
  BY PagesAssumption DEF Seek
<1>2. Fine(v, opened) /\ Shaped(v) /\ v.initial = FALSE /\ (v.loading => v.group # NoGroup)
  BY DEF PagesInv, ViewInv, Fine, Shaped, Seek, MayTurn
<1>3. p \in BookPages
  BY <1>2, PagesAssumption DEF Shaped, BookPages
<1>4. Went(v, RequestView(v, p, h), opened)
  BY <1>2, <1>3, RequestViewGoes
<1> QED
  BY <1>1, <1>2, <1>4 DEF ReaderStep, Goes, Went

\* A layout or quality is changed by loading the view again.
LEMMA LayoutSteps == ASSUME PagesInv, ToggleSpread \/ ToggleCoverBlank \/ Reload PROVE ReaderStep
<1>1. Shaped(v) /\ v.initial = FALSE /\ Base(v) \in BookPages /\ v.requested \in BookPages
  BY DEF PagesInv, ViewInv, Fine, Shaped, ToggleSpread, ToggleCoverBlank, Reload, MayTurn, Base
<1>2. CASE ToggleSpread
  <2> DEFINE setting == CASE v.setting = "auto"   -> "single"
                          [] v.setting = "single" -> "spread"
                          [] v.setting = "spread" -> IF PageMap THEN "auto" ELSE "single"
             w == [v EXCEPT !.setting = setting]
  <2>1. PICK h \in Found \X Found, h2 \in Found \X Found : UI(LoadView(w, Base(v), h, h2))
    BY <1>2, PagesAssumption DEF ToggleSpread
  <2>2. setting \in {"single", "spread", "auto"}
    BY <1>1 DEF Shaped
  <2> HIDE DEF setting
  <2>3. Shaped(w) /\ w.initial = FALSE /\ w.nav = v.nav
    BY <1>1, <2>2 DEF Shaped, Fields
  <2> HIDE DEF w
  <2> QED
    BY <1>1, <2>1, <2>3, LoadViewSteps
<1>3. CASE ToggleCoverBlank
  <2> DEFINE w == [v EXCEPT !.blank = ~@]
  <2>1. PICK h \in Found \X Found, h2 \in Found \X Found : UI(LoadView(w, Base(v), h, h2))
    BY <1>3, PagesAssumption DEF ToggleCoverBlank
  <2>2. Shaped(w) /\ w.initial = FALSE /\ w.nav = v.nav
    BY <1>1 DEF Shaped, Fields
  <2> HIDE DEF w
  <2> QED
    BY <1>1, <2>1, <2>2, LoadViewSteps
<1>4. CASE Reload
  <2>1. PICK h2 \in Found \X Found : UI(LoadView(v, v.requested, <<"nowhere", "nowhere">>, h2))
    BY <1>4, PagesAssumption DEF Reload
  <2>2. <<"nowhere", "nowhere">> \in Found \X Found
    BY DEF Found
  <2> QED
    BY <1>1, <2>1, <2>2, LoadViewSteps
<1> QED
  BY <1>2, <1>3, <1>4

\* Starting and stopping the show touches the clock only.
LEMMA SlideshowSteps == ASSUME PagesInv, ToggleSlideshow \/ SetInterval \/ ArmSlideshow PROVE ReaderStep
<1>1. DOMAIN v = Fields
  BY DEF PagesInv, ViewInv, Fine, Shaped
<1>2. PICK to : UI([v EXCEPT !.slides = to])
  <2>1. CASE ToggleSlideshow
    BY <2>1 DEF ToggleSlideshow
  <2>2. CASE SetInterval
    BY <2>2 DEF SetInterval
  <2>3. CASE ArmSlideshow
    BY <2>3 DEF ArmSlideshow
  <2> QED
    BY <2>1, <2>2, <2>3
<1> DEFINE u == [v EXCEPT !.slides = to]
<1>3. Apart(v, u) /\ u.mode = v.mode
  BY <1>1 DEF Apart, Like, Fields
<1> HIDE DEF u
<1>4. UI(u)
  BY <1>2 DEF u
<1> QED
  BY <1>3, <1>4 DEF ReaderStep, Stays

\* Requests for frames go to the threads of the pages shown, which have the book open.
LEMMA FillStreamKeeps == ASSUME PagesInv, FillStream PROVE PagesInv'
<1> DEFINE After(sides) ==
              [v EXCEPT
               !.box = Sent(v, {v[s].page : s \in sides}, "fill"),
               !.fills = [s \in Sides |->
                            IF s \in sides THEN <<v.nav, v[s].page, "fill">> ELSE @[s]],
               !.left.filling = @ \/ "left" \in sides,
               !.right.filling = @ \/ "right" \in sides]
<1>0. \E sides \in (SUBSET Sides) \ {{}} : (\A s \in sides : MayFill(s)) /\ UI(After(sides))
  BY DEF FillStream
<1> HIDE DEF After
<1>1. PICK sides \in (SUBSET Sides) \ {{}} : (\A s \in sides : MayFill(s)) /\ UI(After(sides))
  BY <1>0
<1> DEFINE ps == {v[s].page : s \in sides}
           b == Sent(v, ps, "fill")
           fl == [s \in Sides |-> IF s \in sides THEN <<v.nav, v[s].page, "fill">> ELSE v.fills[s]]
           u == After(sides)
<1>2. sides \subseteq Sides
  <2>1. sides \in SUBSET Sides
    OBVIOUS
  <2> QED
    BY <2>1
<1>2a. \E s \in sides : TRUE
  OBVIOUS
<1>3. /\ Fine(v, opened) /\ Shaped(v) /\ DOMAIN v = Fields /\ v.loading = FALSE /\ v.error = FALSE
      /\ v.queue = NoPage /\ v.stream # NoPage /\ v.stream = v.displayed /\ v.mode # "latest"
      /\ ShowsView(v, opened) /\ v.group = NoGroup /\ v.initial = FALSE
      /\ \A s \in sides : /\ v.fills[s] = NoId /\ v[s].page \in Animations /\ ~v[s].filling
  BY <1>1, <1>2, <1>2a DEF PagesInv, ViewInv, Fine, Shaped, MayFill
<1>4. /\ v.left.page \in BookPages /\ v.right.page \in BookPages \cup {NoPage}
      /\ v.left.page # v.right.page /\ v.right.page \in {NoPage, v.left.page + 1}
      /\ \A p \in BookPages : p \in Nat /\ p < N /\ p # NoPage
  BY <1>3, ShownPages
<1>5. Animations \subseteq BookPages
  BY PagesAssumption DEF BookPages
<1>6. \A s \in sides : v[s].page \in Nat /\ ThreadOf(v[s].page) \in opened /\ v[s].page \in ps
  <2>1. Opened(v.left.page, opened) /\ Opened(v.right.page, opened)
    BY <1>3 DEF ShowsView
  <2> QED
    BY <1>2, <1>3, <1>4, <1>5, <2>1 DEF Opened, Sides
<1>7. ThreadOf(v.left.page) # ThreadOf(v.left.page + 1)
  BY <1>4, OtherThread
<1>8. \A s \in Sides, s2 \in Sides :
         /\ s # s2 => v[s].page # v[s2].page
         /\ s # s2 /\ v[s].page # NoPage /\ v[s2].page # NoPage => ThreadOf(v[s].page) # ThreadOf(v[s2].page)
  BY <1>4, <1>7 DEF Sides
<1>9. ps \subseteq Nat /\ (\A p \in ps : ThreadOf(p) \in opened /\ ThreadOf(p) \in Threads)
  BY <1>6, OtherThread
<1>10. \A p, q \in ps : ThreadOf(p) = ThreadOf(q) => p = q
  <2> SUFFICES ASSUME NEW s \in sides, NEW s2 \in sides, ThreadOf(v[s].page) = ThreadOf(v[s2].page)
               PROVE  v[s].page = v[s2].page
    OBVIOUS
  <2>1. v[s].page \in Nat /\ v[s2].page \in Nat
    BY <1>6
  <2> QED
    BY <1>2, <1>8, <2>1 DEF NoPage
<1> HIDE DEF ps
<1>11. SentTo(v, ps, "fill", b)
  BY <1>9, <1>10, SentFine
<1>12. BoxFine(b, opened)
  <2>1. BoxFine(v.box, opened) /\ v.nav \in Nat /\ "fill" \in {"display", "fill"}
    BY <1>3 DEF PagesInv, ThreadInv, BoxFine, Shaped
  <2> QED
    BY <1>9, <1>10, <2>1, SentBoxFine
<1>13. /\ DOMAIN u = Fields /\ u.box = b /\ u.fills = fl
       /\ u.left = [v.left EXCEPT !.filling = @ \/ "left" \in sides]
       /\ u.right = [v.right EXCEPT !.filling = @ \/ "right" \in sides]
       /\ Same(v, u) /\ u.loading = FALSE /\ u.error = FALSE /\ u.queue = NoPage
       /\ u.stream = v.stream /\ u.displayed = v.displayed /\ u.requested = v.requested
       /\ u.target = v.target /\ u.mode = v.mode /\ u.resume = v.resume /\ u.group = NoGroup
       /\ u.initial = FALSE
  BY <1>3 DEF Fields, Same, ps, After
<1> HIDE DEF u, b
<1>14. /\ DOMAIN u.left = {"page", "filling"} /\ u.left.page = v.left.page
       /\ u.left.filling = (v.left.filling \/ "left" \in sides)
       /\ DOMAIN u.right = {"page", "filling"} /\ u.right.page = v.right.page
       /\ u.right.filling = (v.right.filling \/ "right" \in sides)
  BY <1>3, <1>13 DEF Shaped
<1>15. /\ DOMAIN u.fills = Sides
       /\ \A s \in sides : u.fills[s] = <<v.nav, v[s].page, "fill">>
       /\ \A s \in Sides \ sides : u.fills[s] = v.fills[s]
  BY <1>2, <1>13
<1>16. \A s \in sides : LET id == u.fills[s] IN id \in PageIds /\ id[2] = v[s].page /\ id[3] = "fill"
  <2> SUFFICES ASSUME NEW s \in sides
               PROVE  LET id == <<v.nav, v[s].page, "fill">>
                      IN  id \in PageIds /\ id[2] = v[s].page /\ id[3] = "fill"
    BY <1>15
  <2>1. v.nav \in Nat /\ v[s].page \in Nat
    BY <1>3, <1>6 DEF Shaped
  <2> QED
    BY <2>1 DEF PageIds
<1>17. Shaped(u)
  BY <1>3, <1>12, <1>13, <1>14, <1>15 DEF Shaped, Same, BoxFine
<1>18. \A s \in Sides : u[s].page = v[s].page /\ u[s].filling = (v[s].filling \/ s \in sides)
  BY <1>14 DEF Sides
<1>19. ShowsView(u, opened)
  <2>1. ViewPages(u, u.displayed) = ViewPages(v, v.displayed)
    BY <1>13, SamePages DEF Same
  <2>2. \A s \in Sides : u.fills[s] # NoId =>
           u.fills[s] \in PageIds /\ u.fills[s][2] = u[s].page /\ u.fills[s][3] = "fill"
    <3> SUFFICES ASSUME NEW s \in Sides, u.fills[s] # NoId
                 PROVE  u.fills[s] \in PageIds /\ u.fills[s][2] = u[s].page /\ u.fills[s][3] = "fill"
      OBVIOUS
    <3>1. CASE s \in sides
      BY <1>16, <1>18, <3>1
    <3>2. CASE s \notin sides
      BY <1>3, <1>15, <1>18, <3>2 DEF ShowsView
    <3> QED
      BY <3>1, <3>2
  <2> QED
    BY <1>3, <1>13, <1>14, <2>1, <2>2 DEF ShowsView
<1>20. v' = u /\ job' = job /\ opened' = opened /\ answers' = answers /\ errors' = errors
  BY <1>1 DEF UI, u
<1>21. Fine(u, opened)
  BY <1>3, <1>13, <1>17, <1>19 DEF Fine
<1>22. Filling(u)
  <2> SUFFICES ASSUME NEW s \in Sides, u[s].filling PROVE u.fills[s] # NoId
    BY DEF Filling
  <2>1. CASE s \in sides
    BY <1>16, <2>1, NoIds
  <2>2. CASE s \notin sides
    BY <1>3, <1>15, <1>18, <2>2 DEF PagesInv, ViewInv, Filling
  <2> QED
    BY <2>1, <2>2
<1>23. ViewInv'
  BY <1>13, <1>20, <1>21, <1>22 DEF ViewInv
<1>24. ThreadInv'
  BY <1>12, <1>13, <1>20 DEF PagesInv, ThreadInv, BoxFine
<1>25. WayInv'
  <2> SUFFICES ASSUME NEW s \in Sides, NEW id, id = u.fills[s], id # NoId PROVE OnItsWay(id)'
    BY <1>20 DEF WayInv
  <2>1. CASE s \in sides
    <3>1. u.fills[s] = <<v.nav, v[s].page, "fill">> /\ PageOf(u.fills[s]) = v[s].page /\ v[s].page \in ps
      BY <1>6, <1>15, <1>16, <2>1 DEF PageOf
    <3>2. b[ThreadOf(v[s].page)].id = u.fills[s]
      BY <1>11, <3>1 DEF SentTo
    <3> QED
      BY <1>9, <1>13, <1>20, <3>1, <3>2 DEF OnItsWay
  <2>2. CASE s \notin sides
    <3>1. u.fills[s] = v.fills[s] /\ v.fills[s] # NoId /\ OnItsWay(v.fills[s])
      BY <1>15, <2>2 DEF PagesInv, WayInv
    <3>2. v.fills[s] \in PageIds /\ PageOf(v.fills[s]) = v[s].page /\ v[s].page \in Nat /\ v.fills[s] # NoId
      BY <1>3, <3>1, NoIds DEF ShowsView, PageOf
    <3>3. \A p \in ps : ThreadOf(p) # ThreadOf(v[s].page)
      BY <1>2, <1>6, <1>8, <2>2, <3>2 DEF ps, NoPage
    <3>4. b[ThreadOf(v[s].page)] = v.box[ThreadOf(v[s].page)]
      BY <1>11, <3>2, <3>3, OtherThread DEF SentTo
    <3>5. ASSUME NEW t \in Threads, v.box[t].id = v.fills[s] \/ job[t].msg.id = v.fills[s]
          PROVE  t = ThreadOf(v[s].page)
      BY <3>2, <3>5, NoIds DEF PagesInv, ThreadInv, MsgFine, JobFine, PageOf
    <3> QED
      BY <1>13, <1>20, <3>1, <3>4, <3>5 DEF OnItsWay
  <2> QED
    BY <2>1, <2>2
<1> QED
  BY <1>23, <1>24, <1>25 DEF PagesInv

\* The results still to be polled, and those to come.
LEMMA AnswersTail ==
    ASSUME NEW S, NEW s \in Seq(S), s # <<>>
    PROVE  /\ Head(s) \in S /\ Head(s) = s[1] /\ 1 \in DOMAIN s /\ Tail(s) \in Seq(S)
           /\ \A k \in DOMAIN Tail(s) : Tail(s)[k] = s[k + 1] /\ k + 1 \in DOMAIN s
           /\ \A k \in DOMAIN s : k # 1 => k - 1 \in DOMAIN Tail(s) /\ Tail(s)[k - 1] = s[k]
<1>1. Len(s) \in Nat /\ Len(s) # 0 /\ DOMAIN s = 1 .. Len(s)
  BY EmptySeq, LenProperties
<1>2. /\ Tail(s) \in Seq(S) /\ Len(Tail(s)) = Len(s) - 1 /\ DOMAIN Tail(s) = 1 .. Len(s) - 1
      /\ \A k \in 1 .. Len(s) - 1 : Tail(s)[k] = s[k + 1]
  BY <1>1, HeadTailProperties, LenProperties
<1>3. Head(s) = s[1] /\ Head(s) \in S
  BY <1>1, HeadTailProperties
<1> QED
  BY <1>1, <1>2, <1>3

\* A step that only takes the head off the answers keeps what is not the head's on its way.
LEMMA PollWay ==
    ASSUME PagesInv, answers # <<>>, NEW id, OnItsWay(id), id # Head(answers).id,
           v'.box = v.box, job' = job, answers' = Tail(answers)
    PROVE  OnItsWay(id)'
<1>1. answers \in Seq(Answer)
  BY DEF PagesInv, ThreadInv
<1>2. CASE \E k \in DOMAIN answers : answers[k].id = id
  <2>1. PICK k \in DOMAIN answers : answers[k].id = id
    BY <1>2
  <2>2. k # 1 /\ k - 1 \in DOMAIN answers' /\ answers'[k - 1].id = id
    BY <1>1, <2>1, AnswersTail
  <2> QED
    BY <2>2 DEF OnItsWay
<1> QED
  BY <1>2 DEF OnItsWay

\* Taking a result off the queue leaves the threads as they are.
LEMMA PollThreads ==
    ASSUME PagesInv, answers # <<>>, BoxFine(v'.box, opened), job' = job, opened' = opened,
           errors' = errors, answers' = Tail(answers)
    PROVE  ThreadInv' /\ Head(answers) \in Answer /\ AnswerFine(Head(answers), opened)
<1>1. answers \in Seq(Answer) /\ \A k \in DOMAIN answers : AnswerFine(answers[k], opened)
  BY DEF PagesInv, ThreadInv
<1>2. /\ Tail(answers) \in Seq(Answer) /\ Head(answers) \in Answer
      /\ AnswerFine(Head(answers), opened)
      /\ \A k \in DOMAIN Tail(answers) : AnswerFine(Tail(answers)[k], opened)
  BY <1>1, AnswersTail
<1> QED
  BY <1>2 DEF PagesInv, ThreadInv, BoxFine

\* A result of the group is polled while a view loads.
LEMMA PendingLoads ==
    ASSUME ViewInv, NEW id \in PageIds, IsPending(v, id)
    PROVE  v.loading /\ v.group # NoGroup /\ v.initial = FALSE
<1>1. Fine(v, opened) /\ Shaped(v)
  BY DEF ViewInv, Fine
<1>2. v.group # NoGroup
  <2> SUFFICES ASSUME v.group = NoGroup PROVE FALSE
    OBVIOUS
  <2>1. \A s \in Sides : v.group.ids[s] = NoId
    BY DEF NoGroup
  <2> QED
    BY <2>1, NoIds DEF IsPending
<1> QED
  BY <1>1, <1>2 DEF Fine, ViewInv, Shaped

\* Frames are awaited on a side of a view that is shown, for the page on that side.
LEMMA FillingIdle ==
    ASSUME ViewInv, NEW s \in Sides, v.fills[s] # NoId
    PROVE  /\ v.loading = FALSE /\ v.error = FALSE /\ ShowsView(v, opened) /\ v.initial = FALSE
           /\ v.fills[s] \in PageIds /\ v.fills[s][2] = v[s].page /\ v.fills[s][3] = "fill"
           /\ \A s2 \in Sides : s2 # s => v.fills[s2] # v.fills[s]
<1>1. Fine(v, opened) /\ Shaped(v)
  BY DEF ViewInv, Fine
<1>2. /\ v.loading = FALSE /\ v.error = FALSE /\ ShowsView(v, opened) /\ v.initial = FALSE
      /\ v.fills[s] \in PageIds /\ v.fills[s][2] = v[s].page /\ v.fills[s][3] = "fill"
  BY <1>1 DEF Fine, NoFills, Shaped, ViewInv, ShowsView
<1>3. \A s2 \in Sides : s2 # s => v[s2].page # v[s].page
  BY <1>1, <1>2, ShownPages DEF Sides
<1>4. ASSUME NEW s2 \in Sides, s2 # s, v.fills[s2] = v.fills[s] PROVE FALSE
  <2>1. v.fills[s2][2] = v[s2].page
    BY <1>2, <1>4 DEF ShowsView
  <2> QED
    BY <1>2, <1>3, <1>4, <2>1
<1> QED
  BY <1>2, <1>4

\* What one polled result does: the view that loads is answered, or one of its two
\* results is kept, or frames come for what is shown, or nothing awaited the result.
PollDoes ==
    \/ /\ v.loading /\ v.group # NoGroup /\ v.initial = FALSE
       /\ Settled(v, v', opened) \/ Keeps(v, Head(answers), v', opened)
    \/ v.loading = FALSE /\ \E s \in Sides : v.fills[s] = Head(answers).id /\ Takes(v, s, v', opened)
    \/ ~IsPending(v, Head(answers).id) /\ v' = v /\ \A s \in Sides : v.fills[s] # Head(answers).id

\* poll_loader does one of these.
LEMMA PollIs == ASSUME PagesInv, Poll PROVE PollDoes
<1> DEFINE a == Head(answers)
<1>1. PICK h \in Found \X Found : v' = Polled(v, a, h)
  BY PagesAssumption DEF Poll
<1>2. answers # <<>> /\ answers \in Seq(Answer) /\ \A k \in DOMAIN answers : AnswerFine(answers[k], opened)
  BY DEF Poll, PagesInv, ThreadInv
<1>3. BoxFine(v.box, opened) /\ Fine(v, opened) /\ Shaped(v) /\ ViewInv
  BY DEF PagesInv, ThreadInv, ViewInv, BoxFine, Fine, Shaped
<1>4. a \in Answer /\ AnswerFine(a, opened)
  BY <1>2, AnswersTail
<1>5. a.id \in PageIds /\ a.id # NoId
  BY <1>4, NoIds DEF Answer
<1>6. CASE IsPending(v, a.id)
  <2> DEFINE u == Absorbed(v, a, h)
  <2>1. v.loading /\ v.group # NoGroup /\ v.initial = FALSE
    BY <1>3, <1>5, <1>6, PendingLoads
  <2>2. v' = u
    BY <1>1, <1>6 DEF Polled
  <2>3. Settled(v, u, opened) \/ Keeps(v, a, u, opened)
    BY <1>3, <1>4, <1>6, <2>1, AbsorbedFine
  <2> HIDE DEF u
  <2> QED
    BY <2>1, <2>2, <2>3 DEF PollDoes
<1>7. CASE ~IsPending(v, a.id) /\ \E s \in Sides : v.fills[s] = a.id
  <2> DEFINE s == CHOOSE s \in Sides : v.fills[s] = a.id
             u == ChunkTaken(v, s, a)
  <2>1. v' = u
    BY <1>1, <1>7 DEF Polled
  <2>2. s \in Sides /\ v.fills[s] = a.id
    BY <1>7
  <2> HIDE DEF s
  <2>3. v.loading = FALSE
    BY <1>3, <1>5, <2>2, FillingIdle
  <2>4. Takes(v, s, u, opened)
    BY <1>3, <1>4, <2>2, ChunkTakenFine DEF ViewInv
  <2> HIDE DEF u
  <2> QED
    BY <2>1, <2>2, <2>3, <2>4 DEF PollDoes
<1>8. CASE ~IsPending(v, a.id) /\ ~ \E s \in Sides : v.fills[s] = a.id
  BY <1>1, <1>8 DEF Polled, PollDoes
<1> QED
  BY <1>6, <1>7, <1>8

\* poll_loader keeps the invariant.
LEMMA PollKeeps == ASSUME PagesInv, Poll PROVE PagesInv'
<1> DEFINE a == Head(answers)
<1>1. /\ answers # <<>> /\ answers' = Tail(answers) /\ job' = job /\ opened' = opened
      /\ errors' = errors
  BY DEF Poll
<1>2. /\ ViewInv /\ WayInv /\ Shaped(v) /\ BoxFine(v.box, opened)
      /\ answers \in Seq(Answer)
  BY DEF PagesInv, ThreadInv, ViewInv, BoxFine, Fine, Shaped
<1>3. a.id \in PageIds /\ a.id # NoId
  <2>1. a \in Answer
    BY <1>1, <1>2, AnswersTail
  <2> QED
    BY <2>1, NoIds DEF Answer
<1>4. PollDoes
  BY PollIs
<1> HIDE DEF a
<1>5. CASE v.initial = FALSE /\ (Settled(v, v', opened) \/ Keeps(v, a, v', opened))
  <2>1. /\ Fine(v', opened) /\ BoxFine(v'.box, opened) /\ Quiet(v') /\ v'.initial = FALSE
        /\ v'.loading => v'.group # NoGroup
        /\ ~v'.loading => v'.queue = NoPage
    <3>1. CASE Settled(v, v', opened)
      BY <1>5, <3>1 DEF Settled, Asking
    <3>2. CASE Keeps(v, a, v', opened)
      BY <1>2, <1>5, <3>2 DEF Keeps, Same
    <3> QED
      BY <1>5, <3>1, <3>2
  <2>2. ViewInv'
    BY <1>1, <2>1 DEF ViewInv, Quiet, Filling, Sides
  <2>3. ThreadInv'
    BY <1>1, <2>1, PollThreads
  <2>4. WayInv'
    BY <2>1 DEF WayInv, Quiet, NoFills
  <2> QED
    BY <2>2, <2>3, <2>4 DEF PagesInv
<1>6. ASSUME v.loading = FALSE, NEW s \in Sides, v.fills[s] = a.id, Takes(v, s, v', opened)
      PROVE  PagesInv'
  <2>1. /\ v.initial = FALSE
        /\ \A s2 \in Sides : s2 # s => v.fills[s2] # a.id
    BY <1>2, <1>3, <1>6, FillingIdle
  <2>2. ViewInv'
    BY <1>1, <1>2, <1>6, <2>1 DEF ViewInv, Takes, Same
  <2>3. ThreadInv'
    BY <1>1, <1>2, <1>6, PollThreads DEF Takes
  <2> SUFFICES ASSUME NEW s2 \in Sides, NEW id, id = v'.fills[s2], id # NoId PROVE OnItsWay(id)'
    BY <2>2, <2>3 DEF PagesInv, WayInv
  <2>4. s2 # s /\ id = v.fills[s2]
    BY <1>2, <1>6 DEF Takes, Shaped
  <2>5. OnItsWay(id) /\ id # a.id
    BY <1>2, <2>1, <2>4 DEF WayInv
  <2> QED
    BY <1>1, <1>6, <2>5, PollWay DEF Takes, a
<1>7. CASE v' = v /\ \A s \in Sides : v.fills[s] # a.id
  <2>1. ViewInv'
    BY <1>1, <1>2, <1>7 DEF ViewInv
  <2>2. ThreadInv'
    BY <1>1, <1>2, <1>7, PollThreads
  <2> SUFFICES ASSUME NEW s2 \in Sides, NEW id, id = v'.fills[s2], id # NoId PROVE OnItsWay(id)'
    BY <2>1, <2>2 DEF PagesInv, WayInv
  <2>3. OnItsWay(id) /\ id # a.id
    BY <1>2, <1>7 DEF WayInv
  <2> QED
    BY <1>1, <1>7, <2>3, PollWay DEF a
<1> QED
  BY <1>4, <1>5, <1>6, <1>7 DEF PollDoes, a

\* A sequence over a set is one over any larger set.
LEMMA SeqGrows == ASSUME NEW S, NEW T, S \subseteq T, NEW s \in Seq(S) PROVE s \in Seq(T)
<1>1. s \in [1 .. Len(s) -> S] /\ Len(s) \in Nat
  BY LenProperties
<1>2. s \in [1 .. Len(s) -> T]
  BY <1>1
<1> QED
  BY <1>1, <1>2, SeqDef

\* What an appended sequence holds.
LEMMA AnswersAppend ==
    ASSUME NEW S, NEW s \in Seq(S), NEW a \in S
    PROVE  /\ Append(s, a) \in Seq(S)
           /\ \A k \in DOMAIN s : k \in DOMAIN Append(s, a) /\ Append(s, a)[k] = s[k]
           /\ \E k \in DOMAIN Append(s, a) : Append(s, a)[k] = a
           /\ \A k \in DOMAIN Append(s, a) : Append(s, a)[k] = a \/ (k \in DOMAIN s /\ Append(s, a)[k] = s[k])
<1>1. Len(s) \in Nat /\ DOMAIN s = 1 .. Len(s)
  BY LenProperties
<1>2. /\ Append(s, a) \in Seq(S) /\ Len(Append(s, a)) = Len(s) + 1 /\ DOMAIN Append(s, a) = 1 .. Len(s) + 1
      /\ \A k \in 1 .. Len(s) : Append(s, a)[k] = s[k]
      /\ Append(s, a)[Len(s) + 1] = a
  BY <1>1, AppendProperties, LenProperties
<1> QED
  BY <1>1, <1>2

\* No step of a thread loses a request.
LEMMA ThreadWay ==
    ASSUME PagesInv, NEW s \in Threads, TakeMsg(s) \/ Look(s) \/ FinishJob(s),
           NEW id, id # NoId, OnItsWay(id)
    PROVE  OnItsWay(id)'
<1>1. /\ answers \in Seq(Answer) /\ DOMAIN job = Threads /\ DOMAIN v = Fields /\ DOMAIN v.box = Threads
      /\ DOMAIN job[s] = {"msg", "looked"}
  BY DEF PagesInv, ThreadInv, ViewInv, Fine, Shaped, JobFine
<1>2. CASE TakeMsg(s)
  <2>1. /\ job[s].msg.id = NoId /\ v'.box = [v.box EXCEPT ![s] = NoMsg] /\ answers' = answers
        /\ job' = [job EXCEPT ![s].msg = IF v.box[s] = Prune THEN NoMsg ELSE v.box[s]]
    BY <1>1, <1>2, NoIds DEF TakeMsg, NoJob, Fields
  <2>2. /\ v'.box[s] = NoMsg /\ (v.box[s] # Prune => job'[s].msg = v.box[s])
        /\ \A t \in Threads : t # s => v'.box[t] = v.box[t] /\ job'[t] = job[t]
    BY <1>1, <2>1
  <2>3. v.box[s].id = id => job'[s].msg.id = id
    BY <2>2, NoIds
  <2> QED
    BY <2>1, <2>2, <2>3 DEF OnItsWay
<1>3. CASE Look(s)
  <2>1. /\ v' = v /\ answers' = answers /\ ~job[s].looked
        /\ job' = [job EXCEPT ![s] = IF v.box[s] # NoMsg THEN NoJob ELSE [@ EXCEPT !.looked = TRUE]]
    BY <1>3 DEF Look
  <2>2. /\ v.box[s] = NoMsg => job'[s].msg = job[s].msg /\ job'[s].looked
        /\ \A t \in Threads : t # s => job'[t] = job[t]
    BY <1>1, <2>1
  <2> QED
    BY <2>1, <2>2 DEF OnItsWay
<1>4. CASE FinishJob(s)
  <2>1. PICK a : /\ answers' = Append(answers, a) /\ a.id = job[s].msg.id
    BY <1>4 DEF FinishJob
  <2>2. v' = v /\ job' = [job EXCEPT ![s] = NoJob]
    BY <1>4 DEF FinishJob
  <2>3. \A t \in Threads : t # s => job'[t] = job[t]
    BY <1>1, <2>2
  <2>4. /\ \A k \in DOMAIN answers : k \in DOMAIN answers' /\ answers'[k] = answers[k]
        /\ \E k \in DOMAIN answers' : answers'[k] = a
    <3>1. answers \in Seq(Answer \cup {a}) /\ a \in Answer \cup {a}
      BY <1>1, SeqGrows
    <3> QED
      BY <2>1, <3>1, AnswersAppend
  <2> QED
    BY <2>1, <2>2, <2>3, <2>4 DEF OnItsWay
<1> QED
  BY <1>2, <1>3, <1>4

\* A thread's box is emptied.
LEMMA TakeMsgKeeps == ASSUME PagesInv, NEW s \in Threads, TakeMsg(s) PROVE PagesInv'
<1> DEFINE u == [v EXCEPT !.box[s] = NoMsg]
           m == IF v.box[s] = Prune THEN NoMsg ELSE v.box[s]
<1>1. /\ job[s] = NoJob /\ v.box[s] # NoMsg /\ v' = u /\ job' = [job EXCEPT ![s].msg = m]
      /\ opened' = opened /\ answers' = answers /\ errors' = errors
  BY DEF TakeMsg
<1>2. /\ Fine(v, opened) /\ Shaped(v) /\ ViewInv /\ ThreadInv /\ WayInv /\ DOMAIN v = Fields
  BY DEF PagesInv, ViewInv, Fine, Shaped
<1>3. /\ Like(v, u) /\ u.box = [v.box EXCEPT ![s] = NoMsg] /\ u.initial = v.initial
      /\ u.queue = v.queue /\ u.target = v.target /\ u.nav = v.nav /\ u.mode = v.mode
  BY <1>2 DEF Like, Fields
<1> HIDE DEF u
<1>4. /\ DOMAIN u.box = Threads /\ u.box[s] = NoMsg
      /\ \A t \in Threads : t # s => u.box[t] = v.box[t]
  BY <1>2, <1>3 DEF Shaped
<1>5. Fine(u, opened)
  <2>1. QueueFine(u)
    BY <1>2, <1>3 DEF QueueFine, Fine, Like
  <2>2. ~u.loading /\ ~u.error /\ u.target = u.requested /\ u.mode = "latest" => u.stream = NoPage
    BY <1>2, <1>3 DEF Fine, Like, ShowsView
  <2>3. /\ u.nav \in Nat /\ u.target \in BookPages /\ u.queue \in BookPages \cup {NoPage}
        /\ u.initial \in BOOLEAN
    BY <1>2, <1>3 DEF Shaped
  <2> QED
    BY <1>2, <1>3, <1>4, <2>1, <2>2, <2>3, FineKept
<1>6. ViewInv'
  <2>1. Filling(u)
    <3>1. u["left"] = v["left"] /\ u["right"] = v["right"] /\ u.fills = v.fills /\ u.loading = v.loading
          /\ u.stream = v.stream
      BY <1>3 DEF Like
    <3> QED
      BY <1>2, <3>1 DEF ViewInv, Filling, Sides
  <2> QED
    BY <1>1, <1>2, <1>3, <1>5, <2>1 DEF ViewInv, Like
<1>7. /\ MsgFine(m, s, opened) /\ m # Prune
      /\ JobFine(job[s], s, opened) /\ job[s].looked = FALSE /\ DOMAIN job = Threads
      /\ DOMAIN job[s] = {"msg", "looked"} /\ job[s].msg = NoMsg
  BY <1>1, <1>2, NoIds DEF ThreadInv, MsgFine, JobFine, NoJob
<1> HIDE DEF m
<1>8. /\ job'[s].msg = m /\ job'[s].looked = FALSE /\ DOMAIN job'[s] = {"msg", "looked"}
      /\ DOMAIN job' = Threads /\ \A t \in Threads : t # s => job'[t] = job[t]
  BY <1>1, <1>7
<1>9. ThreadInv'
  <2>1. \A t \in Threads : MsgFine(u.box[t], t, opened)
    BY <1>2, <1>4 DEF ThreadInv, MsgFine
  <2>2. \A t \in Threads : JobFine(job'[t], t, opened)
    BY <1>2, <1>7, <1>8 DEF ThreadInv, JobFine
  <2> QED
    BY <1>1, <1>2, <1>8, <2>1, <2>2 DEF ThreadInv
<1>10. WayInv'
  BY <1>1, <1>2, <1>3, ThreadWay DEF WayInv, Like
<1> QED
  BY <1>6, <1>9, <1>10 DEF PagesInv

\* A thread that rests has nothing to answer.
LEMMA NoJobFine == \A t, op : JobFine(NoJob, t, op)
<1>1. DOMAIN NoJob = {"msg", "looked"} /\ NoJob.looked = FALSE /\ NoJob.msg = NoMsg
  BY DEF NoJob
<1> QED
  BY <1>1, NoIds DEF JobFine, MsgFine

\* A thread gives up a request that another has followed.
LEMMA LookKeeps == ASSUME PagesInv, NEW s \in Threads, Look(s) PROVE PagesInv'
<1> DEFINE j == IF v.box[s] # NoMsg THEN NoJob ELSE [job[s] EXCEPT !.looked = TRUE]
<1>1. /\ job[s].msg # NoMsg /\ ~job[s].looked /\ job' = [job EXCEPT ![s] = j]
      /\ v' = v /\ opened' = opened /\ answers' = answers /\ errors' = errors
  BY DEF Look
<1>2. ViewInv /\ ThreadInv /\ WayInv /\ JobFine(job[s], s, opened) /\ DOMAIN job = Threads
  BY DEF PagesInv, ThreadInv
<1>3. ViewInv'
  BY <1>1, <1>2 DEF ViewInv
<1>4. /\ v.box[s] # NoMsg => j = NoJob
      /\ v.box[s] = NoMsg => j.msg = job[s].msg /\ j.looked = TRUE /\ DOMAIN j = {"msg", "looked"}
  BY <1>2 DEF JobFine
<1> HIDE DEF j
<1>5. JobFine(j, s, opened)
  <2>1. CASE v.box[s] = NoMsg
    BY <1>1, <1>2, <1>4, <2>1 DEF JobFine
  <2>2. CASE v.box[s] # NoMsg
    BY <1>4, <2>2, NoJobFine
  <2> QED
    BY <2>1, <2>2
<1>6. ThreadInv'
  BY <1>1, <1>2, <1>5 DEF ThreadInv
<1>7. WayInv'
  BY <1>1, <1>2, ThreadWay DEF WayInv
<1> QED
  BY <1>3, <1>6, <1>7 DEF PagesInv

\* A result is of the page asked for, by the thread of that page.
LEMMA FinishJobKeeps == ASSUME PagesInv, NEW s \in Threads, FinishJob(s) PROVE PagesInv'
<1> DEFINE id == job[s].msg.id
           shown == [id |-> id, page |-> IF PageOf(id) < N THEN PageOf(id) ELSE NoPage, ok |-> TRUE, count |-> N]
           failed == [id |-> id, page |-> NoPage, ok |-> FALSE, count |-> 0]
<1>1. /\ job[s].looked /\ job' = [job EXCEPT ![s] = NoJob] /\ v' = v
      /\ \/ answers' = Append(answers, shown) /\ opened' = opened \cup {s} /\ errors' = errors
         \/ answers' = Append(answers, failed) /\ s \notin opened /\ opened' = opened /\ errors' = errors + 1
  BY DEF FinishJob
<1>2. /\ Fine(v, opened) /\ Shaped(v) /\ ViewInv /\ ThreadInv /\ WayInv /\ DOMAIN v = Fields
      /\ JobFine(job[s], s, opened) /\ DOMAIN job = Threads /\ answers \in Seq(Answer)
      /\ DOMAIN v.box = Threads
  BY DEF PagesInv, ViewInv, ThreadInv, Fine, Shaped
<1>3. /\ id \in PageIds /\ ThreadOf(PageOf(id)) = s /\ (id[3] = "fill" => s \in opened)
      /\ id # NoId /\ PageOf(id) \in Nat
  BY <1>1, <1>2, NoIds DEF JobFine, MsgFine, PageOf
<1> HIDE DEF id
<1>4. /\ shown.id = id /\ shown.ok = TRUE /\ shown.count = N
      /\ shown.page = (IF PageOf(id) < N THEN PageOf(id) ELSE NoPage)
      /\ failed.id = id /\ failed.ok = FALSE /\ failed.count = 0 /\ failed.page = NoPage
  OBVIOUS
<1>5. shown \in Answer /\ failed \in Answer
  <2>1. PageOf(id) < N => PageOf(id) \in BookPages
    BY <1>3, PagesAssumption DEF BookPages
  <2> QED
    BY <1>3, <2>1 DEF Answer
<1>6. AnswerFine(shown, opened \cup {s}) /\ (s \notin opened => AnswerFine(failed, opened))
  <2> HIDE DEF shown, failed
  <2> QED
    BY <1>3, <1>4 DEF AnswerFine
<1> HIDE DEF shown, failed
<1>7. PICK a \in {shown, failed} : answers' = Append(answers, a) /\ AnswerFine(a, opened')
  BY <1>1, <1>6
<1>8. a.id = id /\ a \in Answer
  BY <1>4, <1>5, <1>7
<1>9. opened \subseteq opened' /\ opened' \subseteq Threads /\ errors' \in Nat
  BY <1>1, <1>2 DEF ThreadInv
<1>10. ViewInv'
  <2>1. Like(v, v) /\ QueueFine(v)
    BY <1>2 DEF Like, Fine, QueueFine
  <2>2. ~v.loading /\ ~v.error /\ v.target = v.requested /\ v.mode = "latest" => v.stream = NoPage
    BY <1>2 DEF Fine, ShowsView
  <2>3. /\ v.nav \in Nat /\ v.target \in BookPages /\ v.queue \in BookPages \cup {NoPage}
        /\ v.initial \in BOOLEAN
    BY <1>2 DEF Shaped
  <2>4. Fine(v, opened')
    BY <1>2, <1>9, <2>1, <2>2, <2>3, FineKept
  <2> QED
    BY <1>1, <1>2, <2>4 DEF ViewInv
<1>11. /\ job'[s] = NoJob /\ DOMAIN job' = Threads
       /\ \A t \in Threads : t # s => job'[t] = job[t]
  BY <1>1, <1>2
<1>12. ThreadInv'
  <2>1. \A m, t : MsgFine(m, t, opened) => MsgFine(m, t, opened')
    BY <1>9 DEF MsgFine
  <2>2. \A j, t : JobFine(j, t, opened) => JobFine(j, t, opened')
    BY <2>1 DEF JobFine
  <2>3. \A x : AnswerFine(x, opened) => AnswerFine(x, opened')
    BY <1>9 DEF AnswerFine
  <2>4. \A t \in Threads : JobFine(job'[t], t, opened')
    BY <1>2, <1>11, <2>2, NoJobFine DEF ThreadInv
  <2>5. answers' \in Seq(Answer) /\ \A k \in DOMAIN answers' : AnswerFine(answers'[k], opened')
    BY <1>2, <1>7, <1>8, <2>3, AnswersAppend DEF ThreadInv
  <2> QED
    BY <1>1, <1>2, <1>9, <1>11, <2>1, <2>4, <2>5 DEF ThreadInv
<1>13. WayInv'
  BY <1>1, <1>2, ThreadWay DEF WayInv
<1> QED
  BY <1>10, <1>12, <1>13 DEF PagesInv

\* The invariant holds when the Viewer opens.
LEMMA PagesInitFine == PagesInit => PagesInv
<1> SUFFICES ASSUME PagesInit PROVE PagesInv
  OBVIOUS
<1>1. PICK p \in Starts, set \in Settings :
         v = [count |-> 0, displayed |-> p, requested |-> p, target |-> p,
                  setting |-> set[1], blank |-> set[2],
                  loading |-> TRUE, error |-> FALSE, initial |-> TRUE,
                  mode |-> "sequential", nav |-> 0, queue |-> NoPage, group |-> NoGroup,
                  left |-> Blank, right |-> Blank, stream |-> NoPage,
                  fills |-> [sd \in Sides |-> NoId], slides |-> "off", resume |-> NoPage,
                  box |-> [sh \in Threads |-> NoMsg]]
  BY DEF PagesInit
<1>2. job = [t \in Threads |-> NoJob] /\ opened = {} /\ answers = <<>> /\ errors = 0
  BY DEF PagesInit
<1>3. p \in BookPages /\ set[1] \in {"single", "spread", "auto"}
  BY PagesAssumption DEF BookPages
<1>4. /\ DOMAIN v = Fields /\ v.count = 0 /\ v.displayed = p /\ v.requested = p /\ v.target = p
      /\ v.setting = set[1] /\ v.loading = TRUE /\ v.error = FALSE /\ v.initial = TRUE
      /\ v.mode = "sequential" /\ v.nav = 0 /\ v.queue = NoPage /\ v.group = NoGroup
      /\ v.left = Blank /\ v.right = Blank /\ v.stream = NoPage
      /\ v.fills = [sd \in Sides |-> NoId] /\ v.box = [sh \in Threads |-> NoMsg]
  BY <1>1 DEF Fields
<1>5. Shaped(v)
  <2>1. DOMAIN Blank = {"page", "filling"} /\ Blank.filling = FALSE
    BY DEF Blank
  <2>2. DOMAIN v.fills = Sides /\ DOMAIN v.box = Threads
    BY <1>4
  <2>3. /\ DOMAIN v.left = {"page", "filling"} /\ DOMAIN v.right = {"page", "filling"}
        /\ v.left.filling = FALSE /\ v.right.filling = FALSE
    BY <1>4, <2>1
  <2>4. /\ v.count \in {0, N} /\ v.nav \in Nat /\ v.queue \in BookPages \cup {NoPage}
        /\ v.setting \in {"single", "spread", "auto"}
        /\ v.displayed \in BookPages /\ v.requested \in BookPages /\ v.target \in BookPages
    BY <1>3, <1>4
  <2> QED
    BY <1>4, <2>2, <2>3, <2>4 DEF Shaped
<1>6. NoFills(v)
  BY <1>4 DEF NoFills
<1>7. Fine(v, opened)
  BY <1>4, <1>5, <1>6 DEF Fine
<1>8. ViewInv
  BY <1>4, <1>7 DEF ViewInv, Filling
<1>9. \A t \in Threads : MsgFine(v.box[t], t, opened) /\ JobFine(job[t], t, opened)
  BY <1>2, <1>4, NoJobFine DEF MsgFine
<1>10. ThreadInv
  BY <1>2, <1>9 DEF ThreadInv
<1> QED
  BY <1>6, <1>8, <1>10 DEF PagesInv, WayInv, NoFills

\* The steps of a run are of five kinds.
StepKinds ==
    \/ LibraryAnswers \/ ReaderStep \/ FillStream \/ Poll
    \/ \E s \in Threads : TakeMsg(s) \/ Look(s) \/ FinishJob(s)
    \/ UNCHANGED pagesVars

\* Every input of the reader is one step of two forms: ReaderStep.
LEMMA StepIs == ASSUME PagesInv, [PagesNext]_pagesVars PROVE StepKinds
<1>1. CASE InitialLoad \/ Turn \/ Seek
  BY <1>1, InitialLoadSteps, TurnSteps, SeekSteps DEF StepKinds
<1>2. CASE ToggleSpread \/ ToggleCoverBlank \/ Reload
  BY <1>2, LayoutSteps DEF StepKinds
<1>3. CASE ToggleSlideshow \/ SetInterval \/ ArmSlideshow
  BY <1>3, SlideshowSteps DEF StepKinds
<1>4. CASE SlideshowTick
  BY <1>4, SlideshowTickSteps DEF StepKinds
<1> QED
  BY <1>1, <1>2, <1>3, <1>4 DEF PagesNext, StepKinds

\* The invariant is inductive.
LEMMA PagesSteps == PagesInv /\ [PagesNext]_pagesVars => PagesInv'
<1> SUFFICES ASSUME PagesInv, StepKinds PROVE PagesInv'
  BY StepIs
<1>1. CASE LibraryAnswers
  BY <1>1, LibraryAnswersKeeps
<1>2. CASE ReaderStep
  BY <1>2, ReaderStepKeeps
<1>3. CASE FillStream
  BY <1>3, FillStreamKeeps
<1>4. CASE Poll
  BY <1>4, PollKeeps
<1>5. ASSUME NEW s \in Threads, TakeMsg(s) \/ Look(s) \/ FinishJob(s) PROVE PagesInv'
  BY <1>5, TakeMsgKeeps, LookKeeps, FinishJobKeeps
<1>6. CASE UNCHANGED pagesVars
  BY <1>6 DEF pagesVars, PagesInv, ViewInv, ThreadInv, WayInv, OnItsWay
<1> QED
  BY <1>1, <1>2, <1>3, <1>4, <1>5, <1>6 DEF StepKinds

\* The invariant holds throughout.
LEMMA PagesInvHolds == PagesSpec => []PagesInv
BY PagesInitFine, PagesSteps, PTL DEF PagesSpec

\* What is on the screen when nothing loads is the page displayed, and it is the page
\* the reader asked for.
THEOREM ShowsViewHolds == PagesSpec => []IdleShowsView
<1>1. PagesInv => IdleShowsView
  BY DEF PagesInv, ViewInv, Fine, ShowsView, IdleShowsView
<1> QED
  BY <1>1, PagesInvHolds, PTL

\* An animation on the screen that waits for frames waits for a request still on its way.
THEOREM StreamWaitsHolds == PagesSpec => []StreamWaits
<1>1. PagesInv => StreamWaits
  BY DEF PagesInv, ViewInv, Filling, WayInv, StreamWaits
<1> QED
  BY <1>1, PagesInvHolds, PTL

\* No step of a run shows a page off the way while the reader hurries on.
LEMMA StaysOnPath ==
    ASSUME PagesInv, StepKinds, Hurries(v), v'.nav = v.nav
    PROVE  v'.displayed \in Path(v)
<1>1. /\ Fine(v, opened) /\ Shaped(v) /\ v.queue # NoPage /\ v.mode = "latest" /\ v.nav \in Nat
      /\ v.loading /\ v.initial = FALSE
  BY DEF Hurries, PagesInv, ViewInv, Fine, Shaped
<1>2. v.displayed \in Path(v)
  <2>1. v.displayed \in Nat /\ v.target \in Nat
    BY <1>1, PagesAssumption DEF Shaped, BookPages
  <2> QED
    BY <2>1 DEF Path
<1>3. ASSUME ReaderStep PROVE v'.displayed = v.displayed
  <2>1. PICK u : UI(u) /\ (Goes(u) \/ Stays(u))
    BY <1>3 DEF ReaderStep
  <2>2. v' = u /\ Apart(v, u)
    BY <1>1, <2>1 DEF UI, Goes, Went, Stays
  <2> QED
    BY <2>2 DEF Apart, Like
<1>4. ASSUME FillStream PROVE FALSE
  BY <1>1, <1>4 DEF FillStream, MayFill
<1>5. ASSUME Poll PROVE v'.displayed \in Path(v)
  BY <1>1, <1>2, <1>5, PollIs DEF PollDoes, Settled, Keeps
<1>6. ASSUME NEW s \in Threads, TakeMsg(s) \/ Look(s) \/ FinishJob(s) PROVE v'.displayed = v.displayed
  BY <1>1, <1>6 DEF TakeMsg, Look, FinishJob, Shaped, Fields
<1>7. ASSUME UNCHANGED pagesVars PROVE v'.displayed = v.displayed
  BY <1>7 DEF pagesVars
<1>8. ~LibraryAnswers
  BY <1>1 DEF LibraryAnswers
<1> QED
  BY <1>2, <1>3, <1>4, <1>5, <1>6, <1>7, <1>8 DEF StepKinds

\* A page shown while the reader hurries on lies between the page displayed before
\* and the one they want: apply_display_result drops every other result.
THEOREM ApproachesTargetHolds == PagesSpec => ApproachesTarget
<1>1. PagesInv /\ [PagesNext]_pagesVars =>
        [LET hurries == v.mode = "latest" /\ v.queue # NoPage /\ v.queue = v.target
             path == IF v.target >= v.displayed THEN v.displayed .. v.target
                     ELSE v.target .. v.displayed
         IN  hurries /\ v'.nav = v.nav => v'.displayed \in path]_pagesVars
  BY StepIs, StaysOnPath DEF Hurries, Path
<1> QED
  BY <1>1, PagesInvHolds, PTL DEF PagesSpec, ApproachesTarget

\* A result polled leaves what the view that loads still waits for where it was.
LEMMA PollLeavesAnswerable ==
    ASSUME PagesInv, Poll, v.loading, Answerable, v'.loading
    PROVE  Answerable'
<1> DEFINE a == Head(answers)
<1>1. /\ Fine(v, opened) /\ Shaped(v) /\ answers # <<>> /\ job' = job /\ answers' = Tail(answers)
  BY DEF PagesInv, ViewInv, Fine, Poll
<1>2. PollDoes
  BY PollIs
<1>3. CASE v.group # NoGroup /\ v.initial = FALSE /\ Settled(v, v', opened)
  <2>1. Fine(v', opened) /\ Asking(v') /\ GroupFine(v', opened)
    BY <1>3 DEF Settled, Asking, Fine
  <2> SUFFICES ASSUME NEW s \in Sides, NEW id, id = v'.group.ids[s], id # NoId PROVE OnItsWay(id)'
    BY <2>1 DEF Answerable, Asking
  <2>2. id \in PageIds /\ v'.box[ThreadOf(PageOf(id))].id = id
    BY <2>1 DEF GroupFine, Asking
  <2>3. PageOf(id) \in Nat /\ ThreadOf(PageOf(id)) \in Threads
    BY <2>2, OtherThread, NoIds DEF PageOf
  <2> QED
    BY <2>2, <2>3 DEF OnItsWay
<1>4. CASE v.group # NoGroup /\ v.initial = FALSE /\ Keeps(v, a, v', opened)
  <2>1. v'.group # NoGroup /\ v'.group.ids = v.group.ids /\ v.group.got \subseteq v'.group.got
    BY <1>4 DEF Keeps
  <2> SUFFICES ASSUME NEW s \in Sides, NEW id, id = v'.group.ids[s], id # NoId,
                      ~ \E r \in v'.group.got : r.side = s
               PROVE  OnItsWay(id)'
    BY <2>1 DEF Answerable
  <2>2. OnItsWay(id) /\ id # a.id
    BY <1>4, <2>1 DEF Answerable, Keeps
  <2>3. v'.box = v.box
    BY <1>4 DEF Keeps
  <2> QED
    BY <1>1, <2>2, <2>3, PollWay
<1>5. CASE ~IsPending(v, a.id) /\ v' = v
  <2> SUFFICES ASSUME v.initial = FALSE, v.group # NoGroup, NEW s \in Sides, NEW id, id = v.group.ids[s],
                      id # NoId, OnItsWay(id)
               PROVE  OnItsWay(id)'
    BY <1>1, <1>5 DEF Answerable, Shaped
  <2>1. id # a.id
    BY <1>5 DEF IsPending
  <2> QED
    BY <1>1, <1>5, <2>1, PollWay
<1> QED
  BY <1>2, <1>3, <1>4, <1>5 DEF PollDoes

\* The other steps leave it too, but for those that go to another view.
LEMMA StaysAnswerable ==
    ASSUME PagesInv, StepKinds, v.loading, Answerable, v'.loading, v'.nav = v.nav
    PROVE  Answerable'
<1>1. Fine(v, opened) /\ Shaped(v) /\ v.nav \in Nat /\ DOMAIN v = Fields
  BY DEF PagesInv, ViewInv, Fine, Shaped
<1>2. ASSUME LibraryAnswers PROVE Answerable'
  BY <1>1, <1>2 DEF LibraryAnswers, UI, Answerable, Fields
<1>3. ASSUME ReaderStep PROVE Answerable'
  <2>1. PICK u : UI(u) /\ (Goes(u) \/ Stays(u))
    BY <1>3 DEF ReaderStep
  <2>2. v' = u /\ job' = job /\ answers' = answers /\ Apart(v, u)
    BY <1>1, <2>1 DEF UI, Goes, Went, Stays
  <2>3. v'.group = v.group /\ v'.box = v.box /\ v'.initial = v.initial
    BY <2>2 DEF Apart, Like
  <2> QED
    BY <2>2, <2>3 DEF Answerable, OnItsWay
<1>4. ASSUME FillStream PROVE FALSE
  BY <1>4 DEF FillStream, MayFill
<1>5. ASSUME Poll PROVE Answerable'
  BY <1>5, PollLeavesAnswerable
<1>6. ASSUME NEW s \in Threads, TakeMsg(s) \/ Look(s) \/ FinishJob(s) PROVE Answerable'
  <2>1. v'.group = v.group /\ v'.initial = v.initial
    BY <1>1, <1>6 DEF TakeMsg, Look, FinishJob, Fields
  <2> SUFFICES ASSUME v.group # NoGroup, NEW s2 \in Sides, NEW id, id = v'.group.ids[s2], id # NoId, OnItsWay(id)
               PROVE  OnItsWay(id)'
    BY <2>1 DEF Answerable
  <2> QED
    BY <1>6, ThreadWay
<1>7. ASSUME UNCHANGED pagesVars PROVE Answerable'
  BY <1>7 DEF pagesVars, Answerable, OnItsWay
<1> QED
  BY <1>2, <1>3, <1>4, <1>5, <1>6, <1>7 DEF StepKinds

\* Nothing but a page turn makes the viewer wait for a result that cannot come: no
\* step of a thread, no result polled and no frame of an animation does.
THEOREM OnlyATurnLosesHolds == PagesSpec => OnlyATurnLoses
<1>1. PagesInv /\ [PagesNext]_pagesVars =>
        [v.loading /\ Answerable /\ v'.loading /\ v'.nav = v.nav => Answerable']_pagesVars
  BY StepIs, StaysAnswerable
<1> QED
  BY <1>1, PagesInvHolds, PTL DEF PagesSpec, OnlyATurnLoses

(***************************************************************************)
(* The cache of decoded pages: it is within its limit, with one entry of a *)
(* page and none of a page that is awaited (CacheSound), and what leaves   *)
(* it is justified (Evictions).                                            *)
(*                                                                         *)
(* CacheSound alone is not inductive.  A result is weighed against the     *)
(* limit of the snapshot; that this is the limit the cache is within, so   *)
(* that nothing goes but for the page that comes, holds because what was   *)
(* awaited is forgotten when the limit changes: while a request is         *)
(* awaited the two are the same (CacheInv).                                *)
(*                                                                         *)
(* The sums and selections of StreamingCache are recursive functions.      *)
(* That there is one for every sequence is shown once (TableExists), by    *)
(* the least place where there would be none; Counts and Picks are what    *)
(* the two are to the proofs.  What evict_to_budget sums over the victims  *)
(* in the order they go, BytesIn sums over the entries in the order of the *)
(* cache: that both come to the same is BytesSplit, and needs one entry of *)
(* a page, so that no victim is counted twice.                             *)
(***************************************************************************)
\* What holds of 0 and passes from each number to the next holds up to n.
LEMMA Upward ==
    ASSUME NEW n \in Nat, NEW P, 0 \in P, \A k \in 0 .. n - 1 : k \in P => k + 1 \in P
    PROVE  \A k \in 0 .. n : k \in P
<1> DEFINE T == {k \in 0 .. n : k \notin P}
<1>1. SUFFICES ASSUME T # {} PROVE FALSE
  OBVIOUS
<1>2. T \subseteq Nat
  OBVIOUS
<1>3. PICK x \in T : \A y \in T : x <= y
  <2> HIDE DEF T
  <2> QED
    BY <1>1, <1>2, LeastNat
<1>4. x \in 0 .. n /\ x \notin P /\ x # 0
  BY <1>3
<1>5. x - 1 \in 0 .. n - 1 /\ x - 1 \in 0 .. n /\ ~(x <= x - 1)
  BY <1>4
<1>6. x - 1 \notin T
  <2> HIDE DEF T
  <2> QED
    BY <1>3, <1>5
<1>7. x - 1 \in P
  BY <1>5, <1>6
<1> QED
  BY <1>4, <1>5, <1>7

\* A table of values, made row by row.
IsTable(F, n, V, base, step) ==
    /\ F \in [0 .. n -> V]
    /\ F[0] = base
    /\ \A k \in 1 .. n : F[k] = step[k][F[k - 1]]

\* Such a table exists, whatever the step from one row to the next.
LEMMA TableExists ==
    ASSUME NEW n \in Nat, NEW V, NEW base \in V, NEW step \in [1 .. n -> [V -> V]]
    PROVE  \E F : IsTable(F, n, V, base, step)
<1> DEFINE P == {m \in 0 .. n : \E F : IsTable(F, m, V, base, step)}
<1>1. 0 \in P
  <2> DEFINE F == [k \in 0 .. 0 |-> base]
  <2>1. IsTable(F, 0, V, base, step)
    BY DEF IsTable
  <2> HIDE DEF F
  <2> QED
    BY <2>1
<1>2. ASSUME NEW m \in 0 .. n - 1, m \in P PROVE m + 1 \in P
  <2>0. PICK F : IsTable(F, m, V, base, step)
    BY <1>2
  <2>1. F \in [0 .. m -> V] /\ F[0] = base /\ \A k \in 1 .. m : F[k] = step[k][F[k - 1]]
    BY <2>0 DEF IsTable
  <2> DEFINE G == [k \in 0 .. m + 1 |-> IF k = m + 1 THEN step[m + 1][F[m]] ELSE F[k]]
  <2>2. m \in 0 .. m /\ m + 1 \in 1 .. n /\ m + 1 \in 0 .. m + 1 /\ m # m + 1
        /\ 0 \in 0 .. m + 1 /\ 0 # m + 1 /\ m \in 0 .. m + 1
    OBVIOUS
  <2>3. F[m] \in V /\ step[m + 1][F[m]] \in V
    BY <2>1, <2>2
  <2>4. ASSUME NEW k \in 0 .. m + 1 PROVE G[k] \in V
    <3>1. CASE k = m + 1
      BY <3>1, <2>3
    <3>2. CASE k # m + 1
      <4>1. k \in 0 .. m
        BY <3>2
      <4> QED
        BY <3>2, <4>1, <2>1
    <3> QED
      BY <3>1, <3>2
  <2>5. G \in [0 .. m + 1 -> V]
    BY <2>4
  <2>6. G[0] = base /\ G[m] = F[m] /\ G[m + 1] = step[m + 1][F[m]]
    BY <2>1, <2>2
  <2>7. ASSUME NEW k \in 1 .. m + 1 PROVE G[k] = step[k][G[k - 1]]
    <3>1. CASE k = m + 1
      <4>1. k - 1 = m
        BY <3>1
      <4> QED
        BY <3>1, <4>1, <2>6
    <3>2. CASE k # m + 1
      <4>1. k \in 1 .. m /\ k - 1 \in 0 .. m /\ k \in 0 .. m + 1 /\ k - 1 \in 0 .. m + 1 /\ k - 1 # m + 1
        BY <3>2
      <4>2. G[k] = F[k] /\ G[k - 1] = F[k - 1]
        BY <3>2, <4>1
      <4> QED
        BY <4>1, <4>2, <2>1
    <3> QED
      BY <3>1, <3>2
  <2> HIDE DEF G
  <2>8. IsTable(G, m + 1, V, base, step)
    BY <2>5, <2>6, <2>7 DEF IsTable
  <2> QED
    BY <2>2, <2>8
<1>3. \A m \in 0 .. n : m \in P
  <2> HIDE DEF P
  <2> QED
    BY <1>1, <1>2, Upward
<1> QED
  BY <1>3

\* What SumOf has counted up to each place.
Counts(F, s) ==
    /\ F \in [0 .. Len(s) -> Nat]
    /\ F[0] = 0
    /\ \A k \in 1 .. Len(s) : F[k] = F[k - 1] + s[k]
    /\ SumOf(s) = F[Len(s)]

LEMMA SumIs == ASSUME NEW s \in Seq(Nat) PROVE \E F : Counts(F, s)
<1> DEFINE n == Len(s)
           More(x, k) == x + s[k]
           step == [k \in 1 .. n |-> [x \in Nat |-> More(x, k)]]
<1>1. n \in Nat /\ 0 \in Nat /\ \A k \in 1 .. n : k - 1 \in 0 .. n /\ k \in 0 .. n /\ k # 0
  OBVIOUS
<1>2. \A k \in 1 .. n : \A x \in Nat : More(x, k) \in Nat
  <2>1. \A k \in 1 .. n : s[k] \in Nat
    OBVIOUS
  <2> QED
    BY <2>1
<1>3. step \in [1 .. n -> [Nat -> Nat]]
  <2> HIDE DEF More
  <2> QED
    BY <1>2
<1>4. PICK F : IsTable(F, n, Nat, 0, step)
  <2> HIDE DEF step, n
  <2> QED
    BY <1>1, <1>3, TableExists
<1>5. /\ F \in [0 .. n -> Nat] /\ F[0] = 0
      /\ \A k \in 1 .. n : F[k] = More(F[k - 1], k)
  <2>1. F \in [0 .. n -> Nat] /\ F[0] = 0 /\ \A k \in 1 .. n : F[k] = step[k][F[k - 1]]
    BY <1>4 DEF IsTable
  <2>2. \A k \in 1 .. n : F[k - 1] \in Nat
    BY <1>1, <2>1
  <2>3. \A k \in 1 .. n : \A x \in Nat : step[k][x] = More(x, k)
    <3> HIDE DEF More, n
    <3> QED
      OBVIOUS
  <2> HIDE DEF More, step, n
  <2> QED
    BY <2>1, <2>2, <2>3
<1> DEFINE Row(G, k) == IF k = 0 THEN 0 ELSE G[k - 1] + s[k]
           Law(G) == G = [k \in 0 .. n |-> Row(G, k)]
           H == CHOOSE G : Law(G)
<1>6. Law(F)
  <2>1. \A k \in 0 .. n : k = 0 \/ k \in 1 .. n
    BY <1>1
  <2>2. Row(F, 0) = 0 /\ \A k \in 1 .. n : Row(F, k) = More(F[k - 1], k)
    BY <1>1
  <2> HIDE DEF Row, More, n
  <2>3. \A k \in 0 .. n : F[k] = Row(F, k)
    BY <2>1, <2>2, <1>5
  <2> QED
    BY <1>5, <2>3
<1>7. Law(H)
  <2> HIDE DEF Law
  <2> QED
    BY <1>6
<1>8. SumOf(s) = H[n]
  BY DEF SumOf
<1> HIDE DEF H
<1>9. H[0] = 0 /\ \A k \in 1 .. n : H[k] = More(H[k - 1], k)
  <2>1. Row(H, 0) = 0 /\ \A k \in 1 .. n : Row(H, k) = More(H[k - 1], k)
    BY <1>1
  <2>2. \A k \in 0 .. n : H[k] = Row(H, k)
    <3> HIDE DEF Row, n
    <3> QED
      BY <1>7
  <2> HIDE DEF Row, More, n
  <2> QED
    BY <1>1, <2>1, <2>2
<1>10. \A k \in 0 .. n : H[k] \in Nat
  <2> DEFINE P == {k \in 0 .. n : H[k] \in Nat}
  <2> HIDE DEF More, n
  <2>1. 0 \in P
    BY <1>1, <1>9
  <2>2. ASSUME NEW k \in 0 .. n - 1, k \in P PROVE k + 1 \in P
    <3>1. k + 1 \in 1 .. n /\ k + 1 - 1 = k /\ k + 1 \in 0 .. n
      BY <1>1
    <3>2. H[k + 1] = More(H[k], k + 1)
      BY <1>9, <3>1
    <3> QED
      BY <1>2, <2>2, <3>1, <3>2
  <2> HIDE DEF P
  <2>3. \A k \in 0 .. n : k \in P
    BY <1>1, <2>1, <2>2, Upward
  <2> QED
    BY <2>3 DEF P
<1>11. H \in [0 .. n -> Nat]
  <2> HIDE DEF Row, n
  <2> QED
    BY <1>7, <1>10
<1> HIDE DEF n
<1>12. Counts(H, s)
  BY <1>8, <1>9, <1>11 DEF Counts, n
<1> QED
  BY <1>12

\* What Among has taken up to each place.
Picks(F, S, s, wanted) ==
    /\ F \in [0 .. Len(s) -> Seq(S)]
    /\ F[0] = <<>>
    /\ \A k \in 1 .. Len(s) :
          F[k] = IF s[k] \in wanted THEN Append(F[k - 1], s[k]) ELSE F[k - 1]
    /\ Among(s, wanted) = F[Len(s)]

LEMMA AmongIs ==
    ASSUME NEW S, NEW s \in Seq(S), NEW wanted
    PROVE  \E F : Picks(F, S, s, wanted)
<1> DEFINE n == Len(s)
           More(x, k) == IF s[k] \in wanted THEN Append(x, s[k]) ELSE x
           step == [k \in 1 .. n |-> [x \in Seq(S) |-> More(x, k)]]
<1>1. n \in Nat /\ <<>> \in Seq(S) /\ \A k \in 1 .. n : k - 1 \in 0 .. n /\ k \in 0 .. n /\ k # 0
  OBVIOUS
<1>2. \A k \in 1 .. n : \A x \in Seq(S) : More(x, k) \in Seq(S)
  <2>1. \A k \in 1 .. n : s[k] \in S
    OBVIOUS
  <2> QED
    BY <2>1
<1>3. step \in [1 .. n -> [Seq(S) -> Seq(S)]]
  <2> HIDE DEF More
  <2> QED
    BY <1>2
<1>4. PICK F : IsTable(F, n, Seq(S), <<>>, step)
  <2> HIDE DEF step, n
  <2> QED
    BY <1>1, <1>3, TableExists
<1>5. /\ F \in [0 .. n -> Seq(S)] /\ F[0] = <<>>
      /\ \A k \in 1 .. n : F[k] = More(F[k - 1], k)
  <2>1. F \in [0 .. n -> Seq(S)] /\ F[0] = <<>> /\ \A k \in 1 .. n : F[k] = step[k][F[k - 1]]
    BY <1>4 DEF IsTable
  <2>2. \A k \in 1 .. n : F[k - 1] \in Seq(S)
    BY <1>1, <2>1
  <2>3. \A k \in 1 .. n : \A x \in Seq(S) : step[k][x] = More(x, k)
    <3> HIDE DEF More, n
    <3> QED
      OBVIOUS
  <2> HIDE DEF More, step, n
  <2> QED
    BY <2>1, <2>2, <2>3
<1> DEFINE Row(G, k) == IF k = 0 THEN <<>>
                        ELSE IF s[k] \in wanted THEN Append(G[k - 1], s[k]) ELSE G[k - 1]
           Law(G) == G = [k \in 0 .. n |-> Row(G, k)]
           H == CHOOSE G : Law(G)
<1>6. Law(F)
  <2>1. \A k \in 0 .. n : k = 0 \/ k \in 1 .. n
    BY <1>1
  <2>2. Row(F, 0) = <<>> /\ \A k \in 1 .. n : Row(F, k) = More(F[k - 1], k)
    BY <1>1
  <2> HIDE DEF Row, More, n
  <2>3. \A k \in 0 .. n : F[k] = Row(F, k)
    BY <2>1, <2>2, <1>5
  <2> QED
    BY <1>5, <2>3
<1>7. Law(H)
  <2> HIDE DEF Law
  <2> QED
    BY <1>6
<1>8. Among(s, wanted) = H[n]
  BY DEF Among
<1> HIDE DEF H
<1>9. H[0] = <<>> /\ \A k \in 1 .. n : H[k] = More(H[k - 1], k)
  <2>1. Row(H, 0) = <<>> /\ \A k \in 1 .. n : Row(H, k) = More(H[k - 1], k)
    BY <1>1
  <2>2. \A k \in 0 .. n : H[k] = Row(H, k)
    <3> HIDE DEF Row, n
    <3> QED
      BY <1>7
  <2> HIDE DEF Row, More, n
  <2> QED
    BY <1>1, <2>1, <2>2
<1>10. \A k \in 0 .. n : H[k] \in Seq(S)
  <2> DEFINE P == {k \in 0 .. n : H[k] \in Seq(S)}
  <2> HIDE DEF More, n
  <2>1. 0 \in P
    <3>1. H[0] \in Seq(S)
      BY <1>1, <1>9, Zenon
    <3>2. 0 \in 0 .. n
      BY <1>1
    <3> QED
      BY <3>1, <3>2
  <2>2. ASSUME NEW k \in 0 .. n - 1, k \in P PROVE k + 1 \in P
    <3>1. k + 1 \in 1 .. n /\ k + 1 - 1 = k /\ k + 1 \in 0 .. n
      BY <1>1
    <3>2. H[k + 1] = More(H[k], k + 1)
      BY <1>9, <3>1
    <3> QED
      BY <1>2, <2>2, <3>1, <3>2
  <2> HIDE DEF P
  <2>3. \A k \in 0 .. n : k \in P
    BY <1>1, <2>1, <2>2, Upward
  <2> QED
    BY <2>3 DEF P
<1>11. H \in [0 .. n -> Seq(S)]
  <2> HIDE DEF Row, n
  <2> QED
    BY <1>7, <1>10
<1> HIDE DEF n
<1>12. Picks(H, S, s, wanted)
  BY <1>8, <1>9, <1>11 DEF Picks, n
<1> QED
  BY <1>12

\* What Distinct has kept up to each place.
Sifts(F, S, s) ==
    /\ F \in [0 .. Len(s) -> Seq(S)]
    /\ F[0] = <<>>
    /\ \A k \in 1 .. Len(s) :
          F[k] = IF Contains(F[k - 1], s[k]) THEN F[k - 1] ELSE Append(F[k - 1], s[k])
    /\ Distinct(s) = F[Len(s)]

LEMMA DistinctSteps ==
    ASSUME NEW S, NEW s \in Seq(S)
    PROVE  \E F : Sifts(F, S, s)
<1> DEFINE n == Len(s)
           More(x, k) == IF Contains(x, s[k]) THEN x ELSE Append(x, s[k])
           step == [k \in 1 .. n |-> [x \in Seq(S) |-> More(x, k)]]
<1>1. n \in Nat /\ <<>> \in Seq(S) /\ \A k \in 1 .. n : k - 1 \in 0 .. n /\ k \in 0 .. n /\ k # 0
  OBVIOUS
<1>2. \A k \in 1 .. n : \A x \in Seq(S) : More(x, k) \in Seq(S)
  <2>1. \A k \in 1 .. n : s[k] \in S
    OBVIOUS
  <2> QED
    BY <2>1
<1>3. step \in [1 .. n -> [Seq(S) -> Seq(S)]]
  <2> HIDE DEF More
  <2> QED
    BY <1>2
<1>4. PICK F : IsTable(F, n, Seq(S), <<>>, step)
  <2> HIDE DEF step, n
  <2> QED
    BY <1>1, <1>3, TableExists
<1>5. /\ F \in [0 .. n -> Seq(S)] /\ F[0] = <<>>
      /\ \A k \in 1 .. n : F[k] = More(F[k - 1], k)
  <2>1. F \in [0 .. n -> Seq(S)] /\ F[0] = <<>> /\ \A k \in 1 .. n : F[k] = step[k][F[k - 1]]
    BY <1>4 DEF IsTable
  <2>2. \A k \in 1 .. n : F[k - 1] \in Seq(S)
    BY <1>1, <2>1
  <2>3. \A k \in 1 .. n : \A x \in Seq(S) : step[k][x] = More(x, k)
    <3> HIDE DEF More, n
    <3> QED
      OBVIOUS
  <2> HIDE DEF More, step, n
  <2> QED
    BY <2>1, <2>2, <2>3
<1> DEFINE Row(G, k) == IF k = 0 THEN <<>>
                        ELSE LET before == G[k - 1]
                             IN  IF Contains(before, s[k]) THEN before
                                 ELSE Append(before, s[k])
           Law(G) == G = [k \in 0 .. n |-> Row(G, k)]
           H == CHOOSE G : Law(G)
<1>6. Law(F)
  <2>1. \A k \in 0 .. n : k = 0 \/ k \in 1 .. n
    BY <1>1
  <2>2. Row(F, 0) = <<>> /\ \A k \in 1 .. n : Row(F, k) = More(F[k - 1], k)
    BY <1>1
  <2> HIDE DEF Row, More, n
  <2>3. \A k \in 0 .. n : F[k] = Row(F, k)
    BY <2>1, <2>2, <1>5
  <2> QED
    BY <1>5, <2>3
<1>7. Law(H)
  <2> HIDE DEF Law
  <2> QED
    BY <1>6
<1>8. Distinct(s) = H[n]
  BY DEF Distinct
<1> HIDE DEF H
<1>9. H[0] = <<>> /\ \A k \in 1 .. n : H[k] = More(H[k - 1], k)
  <2>1. Row(H, 0) = <<>> /\ \A k \in 1 .. n : Row(H, k) = More(H[k - 1], k)
    BY <1>1
  <2>2. \A k \in 0 .. n : H[k] = Row(H, k)
    <3> HIDE DEF Row, n
    <3> QED
      BY <1>7
  <2> HIDE DEF Row, More, n
  <2> QED
    BY <1>1, <2>1, <2>2
<1>10. \A k \in 0 .. n : H[k] \in Seq(S)
  <2> DEFINE P == {k \in 0 .. n : H[k] \in Seq(S)}
  <2> HIDE DEF More, n
  <2>1. 0 \in P
    <3>1. H[0] \in Seq(S)
      BY <1>1, <1>9, Zenon
    <3>2. 0 \in 0 .. n
      BY <1>1
    <3> QED
      BY <3>1, <3>2
  <2>2. ASSUME NEW k \in 0 .. n - 1, k \in P PROVE k + 1 \in P
    <3>1. k + 1 \in 1 .. n /\ k + 1 - 1 = k /\ k + 1 \in 0 .. n
      BY <1>1
    <3>2. H[k + 1] = More(H[k], k + 1)
      BY <1>9, <3>1
    <3> QED
      BY <1>2, <2>2, <3>1, <3>2
  <2> HIDE DEF P
  <2>3. \A k \in 0 .. n : k \in P
    BY <1>1, <2>1, <2>2, Upward
  <2> QED
    BY <2>3 DEF P
<1>11. H \in [0 .. n -> Seq(S)]
  <2> HIDE DEF Row, n
  <2> QED
    BY <1>7, <1>10
<1> HIDE DEF n
<1>12. Sifts(H, S, s)
  BY <1>8, <1>9, <1>11 DEF Sifts, n
<1> QED
  BY <1>12

\* Distinct makes a sequence of the same kind.
LEMMA DistinctIs ==
    ASSUME NEW S, NEW s \in Seq(S)
    PROVE  Distinct(s) \in Seq(S)
<1>1. PICK F : Sifts(F, S, s)
  BY DistinctSteps
<1>2. Len(s) \in 0 .. Len(s)
  OBVIOUS
<1> QED
  BY <1>1, <1>2 DEF Sifts

\* An element is appended.
LEMMA AppendIs ==
    ASSUME NEW S, NEW s \in Seq(S), NEW x \in S
    PROVE  /\ Append(s, x) \in Seq(S) /\ Len(Append(s, x)) = Len(s) + 1
           /\ DOMAIN Append(s, x) = 1 .. Len(s) + 1 /\ DOMAIN s = 1 .. Len(s) /\ Len(s) \in Nat
           /\ Append(s, x)[Len(s) + 1] = x
           /\ \A i \in 1 .. Len(s) : Append(s, x)[i] = s[i]
           /\ ToSet(Append(s, x)) = ToSet(s) \cup {x}
<1>1. /\ Append(s, x) \in Seq(S) /\ Len(Append(s, x)) = Len(s) + 1
      /\ Append(s, x)[Len(s) + 1] = x
      /\ \A i \in 1 .. Len(s) : Append(s, x)[i] = s[i]
      /\ Len(s) \in Nat
  OBVIOUS
<1>2. DOMAIN s = 1 .. Len(s) /\ DOMAIN Append(s, x) = 1 .. Len(s) + 1
  BY <1>1
<1>3. ToSet(Append(s, x)) = ToSet(s) \cup {x}
  BY <1>1, <1>2 DEF ToSet
<1> QED
  BY <1>1, <1>2, <1>3

\* What Among takes: of a sequence the elements wanted.
LEMMA AmongFacts ==
    ASSUME NEW S, NEW s \in Seq(S), NEW wanted
    PROVE  Among(s, wanted) \in Seq(S) /\ ToSet(Among(s, wanted)) = ToSet(s) \cap wanted
<1> DEFINE n == Len(s)
<1>1. n \in Nat /\ DOMAIN s = 1 .. n /\ \A k \in 1 .. n : s[k] \in S
  OBVIOUS
<1>0. PICK F : Picks(F, S, s, wanted)
  BY AmongIs
<1>2. /\ F \in [0 .. n -> Seq(S)] /\ F[0] = <<>>
      /\ \A k \in 1 .. n :
           F[k] = IF s[k] \in wanted THEN Append(F[k - 1], s[k]) ELSE F[k - 1]
      /\ Among(s, wanted) = F[n]
  BY <1>0 DEF Picks
<1> DEFINE Seen(k) == {s[i] : i \in 1 .. k}
           P == {k \in 0 .. n : ToSet(F[k]) = Seen(k) \cap wanted}
<1>3. 0 \in P
  <2>1. ToSet(F[0]) = {} /\ Seen(0) = {} /\ 0 \in 0 .. n
    BY <1>1, <1>2 DEF ToSet
  <2> QED
    BY <2>1
<1> HIDE DEF n
<1>4. ASSUME NEW k \in 0 .. n - 1, k \in P PROVE k + 1 \in P
  <2>1. k + 1 \in 1 .. n /\ k + 1 - 1 = k /\ k + 1 \in 0 .. n /\ k \in 0 .. n
    BY <1>1
  <2>2. F[k + 1] = IF s[k + 1] \in wanted THEN Append(F[k], s[k + 1]) ELSE F[k]
    BY <1>2, <2>1
  <2>3. s[k + 1] \in S /\ F[k] \in Seq(S)
    BY <1>1, <1>2, <2>1
  <2>4. Seen(k + 1) = Seen(k) \cup {s[k + 1]}
    <3>1. \A i : i \in 1 .. k + 1 <=> i \in 1 .. k \/ i = k + 1
      BY <2>1
    <3> QED
      BY <3>1
  <2>5. ToSet(Append(F[k], s[k + 1])) = ToSet(F[k]) \cup {s[k + 1]}
    BY <2>3, AppendIs
  <2>6. ToSet(F[k]) = Seen(k) \cap wanted
    BY <1>4
  <2> HIDE DEF Seen
  <2> QED
    BY <2>1, <2>2, <2>4, <2>5, <2>6
<1>5. \A k \in 0 .. n : k \in P
  <2> HIDE DEF P
  <2> QED
    BY <1>1, <1>3, <1>4, Upward
<1>6. n \in 0 .. n /\ Seen(n) = ToSet(s)
  BY <1>1 DEF ToSet
<1> QED
  BY <1>2, <1>5, <1>6

-----------------------------------------------------------------------------
\* A sequence without repetitions, and entries that have a number of bytes.
Once(s) == \A i, j \in DOMAIN s : s[i] = s[j] => i = j
Sized(E) == \A e \in E : e.bytes \in Nat

\* A cache has one entry of a page.
Lone(s) == \A i, j \in DOMAIN s : s[i].page = s[j].page => i = j

LEMMA EntrySized == Sized(Entry)
BY DEF Sized, Entry

LEMMA LoneOnce == \A s : Lone(s) => Once(s)
BY DEF Lone, Once

\* It stays so when another element, or an entry of another page, is added.
LEMMA OnceAppend ==
    ASSUME NEW E, NEW s \in Seq(E), NEW e \in E, Once(s), e \notin ToSet(s)
    PROVE  Once(Append(s, e)) /\ Append(s, e) \in Seq(E)
<1> DEFINE t == Append(s, e)
<1>1. /\ t \in Seq(E) /\ DOMAIN t = 1 .. Len(s) + 1 /\ DOMAIN s = 1 .. Len(s) /\ Len(s) \in Nat
      /\ t[Len(s) + 1] = e /\ \A i \in 1 .. Len(s) : t[i] = s[i]
  BY AppendIs
<1>2. \A i \in 1 .. Len(s) : s[i] # e
  BY <1>1 DEF ToSet
<1> HIDE DEF t
<1>3. ASSUME NEW i \in DOMAIN t, NEW j \in DOMAIN t, t[i] = t[j] PROVE i = j
  <2>1. (i \in 1 .. Len(s) \/ i = Len(s) + 1) /\ (j \in 1 .. Len(s) \/ j = Len(s) + 1)
    BY <1>1
  <2>2. CASE i \in 1 .. Len(s) /\ j \in 1 .. Len(s)
    BY <1>1, <1>3, <2>2 DEF Once
  <2>3. CASE i \in 1 .. Len(s) /\ j = Len(s) + 1
    BY <1>1, <1>2, <1>3, <2>3
  <2>4. CASE i = Len(s) + 1 /\ j \in 1 .. Len(s)
    BY <1>1, <1>2, <1>3, <2>4
  <2> QED
    BY <2>1, <2>2, <2>3, <2>4
<1> QED
  BY <1>1, <1>3 DEF Once, t

LEMMA LoneAppend ==
    ASSUME NEW s \in Seq(Entry), NEW e \in Entry, Lone(s), e.page \notin PagesOf(s)
    PROVE  Lone(Append(s, e)) /\ Append(s, e) \in Seq(Entry)
<1> DEFINE t == Append(s, e)
<1>1. /\ t \in Seq(Entry) /\ DOMAIN t = 1 .. Len(s) + 1 /\ DOMAIN s = 1 .. Len(s) /\ Len(s) \in Nat
      /\ t[Len(s) + 1] = e /\ \A i \in 1 .. Len(s) : t[i] = s[i]
  BY AppendIs
<1>2. \A i \in 1 .. Len(s) : s[i].page # e.page
  BY <1>1 DEF PagesOf
<1> HIDE DEF t
<1>3. ASSUME NEW i \in DOMAIN t, NEW j \in DOMAIN t, t[i].page = t[j].page PROVE i = j
  <2>1. (i \in 1 .. Len(s) \/ i = Len(s) + 1) /\ (j \in 1 .. Len(s) \/ j = Len(s) + 1)
    BY <1>1
  <2>2. CASE i \in 1 .. Len(s) /\ j \in 1 .. Len(s)
    BY <1>1, <1>3, <2>2 DEF Lone
  <2>3. CASE i \in 1 .. Len(s) /\ j = Len(s) + 1
    BY <1>1, <1>2, <1>3, <2>3
  <2>4. CASE i = Len(s) + 1 /\ j \in 1 .. Len(s)
    BY <1>1, <1>2, <1>3, <2>4
  <2> QED
    BY <2>1, <2>2, <2>3, <2>4
<1> QED
  BY <1>1, <1>3 DEF Lone, t


\* And when some are taken.
LEMMA OnceAmong ==
    ASSUME NEW E, NEW s \in Seq(E), Once(s), NEW wanted
    PROVE  Once(Among(s, wanted))
<1> DEFINE n == Len(s)
<1>1. n \in Nat /\ DOMAIN s = 1 .. n /\ \A k \in 1 .. n : s[k] \in E
  OBVIOUS
<1>0. PICK F : Picks(F, E, s, wanted)
  BY AmongIs
<1>2. /\ F \in [0 .. n -> Seq(E)] /\ F[0] = <<>>
      /\ \A k \in 1 .. n :
           F[k] = IF s[k] \in wanted THEN Append(F[k - 1], s[k]) ELSE F[k - 1]
      /\ Among(s, wanted) = F[n]
  BY <1>0 DEF Picks
<1> DEFINE P == {k \in 0 .. n : Once(F[k]) /\ \A x \in ToSet(F[k]) : \E i \in 1 .. k : x = s[i]}
<1>3. 0 \in P
  <2>1. ToSet(F[0]) = {} /\ 0 \in 0 .. n /\ DOMAIN F[0] = {}
    BY <1>1, <1>2 DEF ToSet
  <2> QED
    BY <2>1 DEF Once
<1> HIDE DEF n
<1>4. ASSUME NEW k \in 0 .. n - 1, k \in P PROVE k + 1 \in P
  <2>1. k + 1 \in 1 .. n /\ k + 1 - 1 = k /\ k + 1 \in 0 .. n /\ k \in 0 .. n
        /\ \A i \in 1 .. k : i \in 1 .. k + 1 /\ i \in 1 .. n /\ i # k + 1
    BY <1>1
  <2>2. F[k + 1] = IF s[k + 1] \in wanted THEN Append(F[k], s[k + 1]) ELSE F[k]
    BY <1>2, <2>1
  <2>3. s[k + 1] \in E /\ F[k] \in Seq(E)
    BY <1>1, <1>2, <2>1
  <2>4. ToSet(Append(F[k], s[k + 1])) = ToSet(F[k]) \cup {s[k + 1]}
    BY <2>3, AppendIs
  <2>5. Once(F[k]) /\ \A x \in ToSet(F[k]) : \E i \in 1 .. k : x = s[i]
    BY <1>4
  <2>6. s[k + 1] \notin ToSet(F[k])
    <3>1. SUFFICES ASSUME NEW x \in ToSet(F[k]), x = s[k + 1] PROVE FALSE
      OBVIOUS
    <3>2. PICK i \in 1 .. k : x = s[i]
      BY <2>5
    <3> QED
      BY <1>1, <2>1, <3>1, <3>2 DEF Once
  <2>7. Once(Append(F[k], s[k + 1]))
    BY <2>3, <2>5, <2>6, OnceAppend
  <2>8. Once(F[k + 1])
    BY <2>2, <2>5, <2>7
  <2>9. k + 1 \in 1 .. k + 1 /\ \A x \in ToSet(F[k + 1]) : x \in ToSet(F[k]) \/ x = s[k + 1]
    BY <2>1, <2>2, <2>4
  <2>10. \A x \in ToSet(F[k + 1]) : \E i \in 1 .. k + 1 : x = s[i]
    BY <2>1, <2>5, <2>9
  <2> QED
    BY <2>1, <2>8, <2>10
<1>5. \A k \in 0 .. n : k \in P
  <2> HIDE DEF P
  <2> QED
    BY <1>1, <1>3, <1>4, Upward
<1> QED
  BY <1>1, <1>2, <1>5

LEMMA LoneAmong ==
    ASSUME NEW s \in Seq(Entry), Lone(s), NEW wanted
    PROVE  Lone(Among(s, wanted))
<1> DEFINE n == Len(s)
<1>1. n \in Nat /\ DOMAIN s = 1 .. n /\ \A k \in 1 .. n : s[k] \in Entry
  OBVIOUS
<1>0. PICK F : Picks(F, Entry, s, wanted)
  BY AmongIs
<1>2. /\ F \in [0 .. n -> Seq(Entry)] /\ F[0] = <<>>
      /\ \A k \in 1 .. n :
           F[k] = IF s[k] \in wanted THEN Append(F[k - 1], s[k]) ELSE F[k - 1]
      /\ Among(s, wanted) = F[n]
  BY <1>0 DEF Picks
<1> DEFINE P == {k \in 0 .. n : Lone(F[k]) /\ \A x \in ToSet(F[k]) : \E i \in 1 .. k : x = s[i]}
<1>3. 0 \in P
  <2>1. ToSet(F[0]) = {} /\ 0 \in 0 .. n /\ DOMAIN F[0] = {}
    BY <1>1, <1>2 DEF ToSet
  <2> QED
    BY <2>1 DEF Lone
<1> HIDE DEF n
<1>4. ASSUME NEW k \in 0 .. n - 1, k \in P PROVE k + 1 \in P
  <2>1. k + 1 \in 1 .. n /\ k + 1 - 1 = k /\ k + 1 \in 0 .. n /\ k \in 0 .. n
        /\ \A i \in 1 .. k : i \in 1 .. k + 1 /\ i \in 1 .. n /\ i # k + 1
    BY <1>1
  <2>2. F[k + 1] = IF s[k + 1] \in wanted THEN Append(F[k], s[k + 1]) ELSE F[k]
    BY <1>2, <2>1
  <2>3. s[k + 1] \in Entry /\ F[k] \in Seq(Entry)
    BY <1>1, <1>2, <2>1
  <2>4. ToSet(Append(F[k], s[k + 1])) = ToSet(F[k]) \cup {s[k + 1]}
    BY <2>3, AppendIs
  <2>5. Lone(F[k]) /\ \A x \in ToSet(F[k]) : \E i \in 1 .. k : x = s[i]
    BY <1>4
  <2>6. s[k + 1].page \notin PagesOf(F[k])
    <3>1. SUFFICES ASSUME NEW x \in ToSet(F[k]), x.page = s[k + 1].page PROVE FALSE
      BY DEF PagesOf, ToSet
    <3>2. PICK i \in 1 .. k : x = s[i]
      BY <2>5
    <3> QED
      BY <1>1, <2>1, <3>1, <3>2 DEF Lone
  <2>7. Lone(Append(F[k], s[k + 1]))
    BY <2>3, <2>5, <2>6, LoneAppend
  <2>8. Lone(F[k + 1])
    BY <2>2, <2>5, <2>7
  <2>9. k + 1 \in 1 .. k + 1 /\ \A x \in ToSet(F[k + 1]) : x \in ToSet(F[k]) \/ x = s[k + 1]
    BY <2>1, <2>2, <2>4
  <2>10. \A x \in ToSet(F[k + 1]) : \E i \in 1 .. k + 1 : x = s[i]
    BY <2>1, <2>5, <2>9
  <2> QED
    BY <2>1, <2>8, <2>10
<1>5. \A k \in 0 .. n : k \in P
  <2> HIDE DEF P
  <2> QED
    BY <1>1, <1>3, <1>4, Upward
<1> QED
  BY <1>1, <1>2, <1>5


-----------------------------------------------------------------------------
\* One number more.
LEMMA SumAppend ==
    ASSUME NEW s \in Seq(Nat), NEW x \in Nat
    PROVE  SumOf(s) \in Nat /\ SumOf(Append(s, x)) = SumOf(s) + x
<1> DEFINE n == Len(s)
           t == Append(s, x)
<1>1. n \in Nat /\ t \in Seq(Nat) /\ Len(t) = n + 1 /\ t[n + 1] = x /\ \A i \in 1 .. n : t[i] = s[i]
  BY AppendIs
<1>a. PICK F : Counts(F, s)
  BY SumIs
<1>2. /\ F \in [0 .. n -> Nat] /\ F[0] = 0
      /\ \A k \in 1 .. n : F[k] = F[k - 1] + s[k]
      /\ SumOf(s) = F[n]
  BY <1>a DEF Counts
<1>b. PICK G : Counts(G, t)
  <2> HIDE DEF t
  <2> QED
    BY <1>1, SumIs
<1>3. /\ G \in [0 .. Len(t) -> Nat] /\ G[0] = 0
      /\ \A k \in 1 .. Len(t) : G[k] = G[k - 1] + t[k]
      /\ SumOf(t) = G[Len(t)]
  BY <1>b DEF Counts
<1> DEFINE P == {k \in 0 .. n : F[k] = G[k]}
<1> HIDE DEF n, t
<1>4. 0 \in P
  BY <1>1, <1>2, <1>3
<1>5. ASSUME NEW k \in 0 .. n - 1, k \in P PROVE k + 1 \in P
  <2>1. k + 1 \in 1 .. n /\ k + 1 - 1 = k /\ k + 1 \in 0 .. n /\ k + 1 \in 1 .. Len(t)
    BY <1>1
  <2>3. F[k + 1] = F[k] + s[k + 1]
    BY <1>2, <2>1
  <2>4. G[k + 1] = G[k] + t[k + 1]
    BY <1>3, <2>1
  <2>2. F[k + 1] = F[k] + s[k + 1] /\ G[k + 1] = G[k] + t[k + 1] /\ t[k + 1] = s[k + 1]
    BY <1>1, <2>1, <2>3, <2>4
  <2> QED
    BY <1>5, <2>1, <2>2
<1>6. \A k \in 0 .. n : k \in P
  <2> HIDE DEF P
  <2> QED
    BY <1>1, <1>4, <1>5, Upward
<1>7. n \in 0 .. n /\ n + 1 \in 1 .. Len(t) /\ n + 1 - 1 = n
  BY <1>1
<1>8. F[n] = G[n] /\ G[n + 1] = G[n] + x
  BY <1>1, <1>3, <1>6, <1>7
<1>9. F[n] \in Nat
  BY <1>2, <1>7
<1> QED
  BY <1>1, <1>2, <1>3, <1>8, <1>9 DEF t

\* The bytes of no entry and of one more.
LEMMA BytesNone == BytesIn(<<>>) = 0
<1>1. SizesOf(<<>>) = <<>> /\ <<>> \in Seq(Nat) /\ Len(<<>>) = 0
  BY DEF SizesOf
<1>2. PICK F : Counts(F, <<>>)
  BY <1>1, SumIs
<1>3. F[0] = 0 /\ SumOf(<<>>) = F[0]
  BY <1>1, <1>2 DEF Counts
<1> QED
  BY <1>1, <1>3 DEF BytesIn

LEMMA SizesSized ==
    ASSUME NEW E, Sized(E), NEW s \in Seq(E)
    PROVE  /\ SizesOf(s) \in Seq(Nat) /\ Len(SizesOf(s)) = Len(s)
           /\ \A i \in 1 .. Len(s) : SizesOf(s)[i] = s[i].bytes
<1>0. DOMAIN s = 1 .. Len(s) /\ Len(s) \in Nat /\ \A i \in 1 .. Len(s) : s[i] \in E
  OBVIOUS
<1>1. DOMAIN s = 1 .. Len(s) /\ Len(s) \in Nat /\ \A i \in 1 .. Len(s) : s[i].bytes \in Nat
  BY <1>0 DEF Sized
<1>2. SizesOf(s) \in [1 .. Len(s) -> Nat] /\ \A i \in 1 .. Len(s) : SizesOf(s)[i] = s[i].bytes
  BY <1>1 DEF SizesOf
<1> QED
  BY <1>1, <1>2

LEMMA SizesAre ==
    ASSUME NEW s \in Seq(Entry)
    PROVE  /\ SizesOf(s) \in Seq(Nat) /\ Len(SizesOf(s)) = Len(s)
           /\ \A i \in 1 .. Len(s) : SizesOf(s)[i] = s[i].bytes
BY EntrySized, SizesSized


LEMMA SizedAppend ==
    ASSUME NEW E, Sized(E), NEW s \in Seq(E), NEW e \in E
    PROVE  BytesIn(s) \in Nat /\ BytesIn(Append(s, e)) = BytesIn(s) + e.bytes
<1> DEFINE t == Append(s, e)
<1>1. /\ t \in Seq(E) /\ Len(t) = Len(s) + 1 /\ Len(s) \in Nat
      /\ t[Len(s) + 1] = e /\ \A i \in 1 .. Len(s) : t[i] = s[i]
  BY AppendIs
<1>2. e.bytes \in Nat
  BY DEF Sized
<1>3. /\ SizesOf(s) \in Seq(Nat) /\ Len(SizesOf(s)) = Len(s)
      /\ \A i \in 1 .. Len(s) : SizesOf(s)[i] = s[i].bytes
  BY SizesSized
<1>4. /\ SizesOf(t) \in Seq(Nat) /\ Len(SizesOf(t)) = Len(t)
      /\ \A i \in 1 .. Len(t) : SizesOf(t)[i] = t[i].bytes
  BY <1>1, SizesSized
<1> DEFINE u == Append(SizesOf(s), e.bytes)
<1>5. /\ u \in Seq(Nat) /\ Len(u) = Len(SizesOf(s)) + 1
      /\ u[Len(SizesOf(s)) + 1] = e.bytes
      /\ \A i \in 1 .. Len(SizesOf(s)) : u[i] = SizesOf(s)[i]
  BY <1>2, <1>3, AppendIs
<1> HIDE DEF t, u
<1>6. SizesOf(t) = u
  <2>1. Len(u) = Len(SizesOf(t)) /\ Len(u) = Len(s) + 1
    BY <1>1, <1>3, <1>4, <1>5
  <2>2. ASSUME NEW i \in 1 .. Len(u) PROVE SizesOf(t)[i] = u[i]
    <3>1. i \in 1 .. Len(t) /\ (i \in 1 .. Len(s) \/ i = Len(s) + 1)
      BY <1>1, <2>1
    <3>2. CASE i \in 1 .. Len(s)
      BY <1>1, <1>3, <1>4, <1>5, <3>1, <3>2
    <3>3. CASE i = Len(s) + 1
      BY <1>1, <1>3, <1>4, <1>5, <3>1, <3>3
    <3> QED
      BY <3>1, <3>2, <3>3
  <2> DEFINE w == SizesOf(t)
  <2>3. w \in Seq(Nat) /\ u \in Seq(Nat) /\ Len(w) = Len(u) /\ \A i \in 1 .. Len(u) : w[i] = u[i]
    BY <1>4, <1>5, <2>1, <2>2
  <2> HIDE DEF w
  <2>4. w = u
    BY <2>3, SeqEqual
  <2> QED
    BY <2>4 DEF w
<1>7. SumOf(SizesOf(s)) \in Nat /\ SumOf(u) = SumOf(SizesOf(s)) + e.bytes
  BY <1>2, <1>3, SumAppend DEF u
<1> QED
  BY <1>6, <1>7 DEF BytesIn, t

LEMMA BytesAppend ==
    ASSUME NEW s \in Seq(Entry), NEW e \in Entry
    PROVE  BytesIn(s) \in Nat /\ BytesIn(Append(s, e)) = BytesIn(s) + e.bytes
BY EntrySized, SizedAppend


\* The first elements of a sequence.
LEMMA Prefix ==
    ASSUME NEW S, NEW g \in Seq(S), NEW k \in 0 .. Len(g)
    PROVE  /\ SubSeq(g, 1, k) \in Seq(S) /\ Len(SubSeq(g, 1, k)) = k
           /\ \A i \in 1 .. k : SubSeq(g, 1, k)[i] = g[i]
           /\ ToSet(SubSeq(g, 1, k)) = {g[i] : i \in 1 .. k}
<1> DEFINE t == SubSeq(g, 1, k)
<1>1. 1 \in Int /\ k \in Int /\ \A i \in 1 .. k : g[i] \in S /\ 1 + i - 1 = i
  OBVIOUS
<1>2. t \in Seq(S) /\ Len(t) = (IF 1 <= k THEN k - 1 + 1 ELSE 0)
      /\ \A i \in 1 .. k - 1 + 1 : t[i] = g[1 + i - 1]
  BY <1>1, SubSeqProperties
<1> HIDE DEF t
<1>3. Len(t) = k /\ k - 1 + 1 = k
  BY <1>2
<1>4. \A i \in 1 .. k : t[i] = g[i]
  BY <1>1, <1>2, <1>3
<1>5. DOMAIN t = 1 .. k
  BY <1>2, <1>3
<1>6. ToSet(t) = {g[i] : i \in 1 .. k}
  BY <1>4, <1>5 DEF ToSet
<1> QED
  BY <1>2, <1>3, <1>4, <1>6 DEF t

LEMMA NextPrefix ==
    ASSUME NEW S, NEW g \in Seq(S), NEW k \in 0 .. Len(g) - 1
    PROVE  /\ k \in 0 .. Len(g) /\ k + 1 \in 0 .. Len(g) /\ g[k + 1] \in S
           /\ SubSeq(g, 1, k + 1) = Append(SubSeq(g, 1, k), g[k + 1])
           /\ ToSet(SubSeq(g, 1, k + 1)) = ToSet(SubSeq(g, 1, k)) \cup {g[k + 1]}
<1> DEFINE t == SubSeq(g, 1, k)
           u == SubSeq(g, 1, k + 1)
           w == Append(t, g[k + 1])
<1>1. k \in 0 .. Len(g) /\ k + 1 \in 0 .. Len(g) /\ g[k + 1] \in S /\ k \in Nat
  OBVIOUS
<1>2. t \in Seq(S) /\ Len(t) = k /\ \A i \in 1 .. k : t[i] = g[i]
  BY <1>1, Prefix
<1>3. u \in Seq(S) /\ Len(u) = k + 1 /\ \A i \in 1 .. k + 1 : u[i] = g[i]
  BY <1>1, Prefix
<1> HIDE DEF t, u
<1>4. /\ w \in Seq(S) /\ Len(w) = k + 1 /\ w[k + 1] = g[k + 1]
      /\ \A i \in 1 .. k : w[i] = t[i]
      /\ ToSet(w) = ToSet(t) \cup {g[k + 1]}
  BY <1>1, <1>2, AppendIs
<1> HIDE DEF w
<1>5. \A i \in 1 .. k + 1 : u[i] = w[i]
  <2>1. \A i \in 1 .. k + 1 : i \in 1 .. k \/ i = k + 1
    BY <1>1
  <2> QED
    BY <2>1, <1>2, <1>3, <1>4
<1>6. u = w
  BY <1>3, <1>4, <1>5, SeqEqual
<1> QED
  BY <1>1, <1>4, <1>6 DEF t, u, w

-----------------------------------------------------------------------------
\* What is taken without one entry has that many bytes less.
LEMMA SizedLess ==
    ASSUME NEW E, Sized(E), NEW s \in Seq(E), Once(s), NEW wanted, NEW e \in ToSet(s), e \in wanted
    PROVE  BytesIn(Among(s, wanted)) = BytesIn(Among(s, wanted \ {e})) + e.bytes
<1> DEFINE n == Len(s)
           others == wanted \ {e}
<1>1. n \in Nat /\ DOMAIN s = 1 .. n /\ \A k \in 1 .. n : s[k] \in E
  OBVIOUS
<1>2. PICK j \in 1 .. n : s[j] = e
  BY <1>1 DEF ToSet
<1>3. e.bytes \in Nat /\ \A k \in 1 .. n : k # j => s[k] # e
  <2>1. e \in E
    BY <1>1, <1>2
  <2> QED
    BY <2>1, <1>1, <1>2 DEF Once, Sized
<1>4. PICK F : Picks(F, E, s, wanted)
  BY AmongIs
<1>5. /\ F \in [0 .. n -> Seq(E)] /\ F[0] = <<>>
      /\ \A k \in 1 .. n :
           F[k] = IF s[k] \in wanted THEN Append(F[k - 1], s[k]) ELSE F[k - 1]
      /\ Among(s, wanted) = F[n]
  BY <1>4 DEF Picks
<1>6. PICK G : Picks(G, E, s, others)
  BY AmongIs
<1>7. /\ G \in [0 .. n -> Seq(E)] /\ G[0] = <<>>
      /\ \A k \in 1 .. n :
           G[k] = IF s[k] \in others THEN Append(G[k - 1], s[k]) ELSE G[k - 1]
      /\ Among(s, others) = G[n]
  BY <1>6 DEF Picks
<1> DEFINE Share(k) == IF j <= k THEN e.bytes ELSE 0
           P == {k \in 0 .. n : BytesIn(F[k]) = BytesIn(G[k]) + Share(k)}
<1> HIDE DEF n
<1>8. 0 \in P
  <2>1. Share(0) = 0 /\ 0 \in 0 .. n /\ 0 + 0 = 0
    BY <1>1
  <2> QED
    BY <2>1, <1>5, <1>7, BytesNone
<1>9. ASSUME NEW k \in 0 .. n - 1, k \in P PROVE k + 1 \in P
  <2> DEFINE f == F[k]
             g == G[k]
             x == s[k + 1]
  <2>1. k + 1 \in 1 .. n /\ k + 1 - 1 = k /\ k + 1 \in 0 .. n /\ k \in 0 .. n /\ k \in Nat
    BY <1>1
  <2>2. f \in Seq(E) /\ g \in Seq(E) /\ x \in E
    BY <1>1, <1>5, <1>7, <2>1
  <2>3. F[k + 1] = (IF x \in wanted THEN Append(f, x) ELSE f)
    BY <1>5, <2>1
  <2>4. G[k + 1] = (IF x \in others THEN Append(g, x) ELSE g)
    BY <1>7, <2>1
  <2>5. /\ BytesIn(f) \in Nat /\ BytesIn(Append(f, x)) = BytesIn(f) + x.bytes
        /\ BytesIn(g) \in Nat /\ BytesIn(Append(g, x)) = BytesIn(g) + x.bytes
        /\ x.bytes \in Nat
    <3> HIDE DEF f, g, x
    <3> QED
      BY <2>2, SizedAppend DEF Sized
  <2>6. BytesIn(f) = BytesIn(g) + Share(k)
    BY <1>9
  <2>7. CASE k + 1 = j
    <3>1. x = e /\ Share(k) = 0 /\ Share(k + 1) = e.bytes
      BY <1>2, <2>1, <2>7
    <3>2. F[k + 1] = Append(f, x) /\ G[k + 1] = g
      BY <2>3, <2>4, <3>1
    <3> HIDE DEF f, g, x, Share
    <3>3. BytesIn(F[k + 1]) = BytesIn(G[k + 1]) + Share(k + 1)
      BY <3>1, <3>2, <2>5, <2>6
    <3> QED
      BY <3>3, <2>1
  <2>8. CASE k + 1 # j
    <3>1. x # e /\ Share(k) = Share(k + 1) /\ Share(k) \in Nat
      BY <1>2, <1>3, <2>1, <2>8
    <3>2. x \in wanted <=> x \in others
      BY <3>1
    <3> HIDE DEF f, g, x, Share, others
    <3>3. BytesIn(F[k + 1]) = BytesIn(G[k + 1]) + Share(k + 1)
      BY <3>1, <3>2, <2>3, <2>4, <2>5, <2>6
    <3> QED
      BY <3>3, <2>1
  <2> QED
    BY <2>7, <2>8
<1>10. \A k \in 0 .. n : k \in P
  <2> HIDE DEF P
  <2> QED
    BY <1>1, <1>8, <1>9, Upward
<1>11. n \in 0 .. n /\ Share(n) = e.bytes
  BY <1>1, <1>2
<1> QED
  BY <1>5, <1>7, <1>10, <1>11

LEMMA BytesLess ==
    ASSUME NEW s \in Seq(Entry), Lone(s), NEW wanted, NEW e \in ToSet(s), e \in wanted
    PROVE  BytesIn(Among(s, wanted)) = BytesIn(Among(s, wanted \ {e})) + e.bytes
BY EntrySized, LoneOnce, SizedLess, ZenonT(60)


\* All taken are all bytes.
LEMMA SizedAll ==
    ASSUME NEW E, Sized(E), NEW s \in Seq(E), NEW wanted, ToSet(s) \subseteq wanted
    PROVE  BytesIn(Among(s, wanted)) = BytesIn(s)
<1> DEFINE n == Len(s)
           sizes == SizesOf(s)
<1>1. n \in Nat /\ DOMAIN s = 1 .. n /\ \A k \in 1 .. n : s[k] \in E
  OBVIOUS
<1>2. \A k \in 1 .. n : s[k] \in wanted
  BY <1>1 DEF ToSet
<1>3. PICK F : Picks(F, E, s, wanted)
  BY AmongIs
<1>4. /\ F \in [0 .. n -> Seq(E)] /\ F[0] = <<>>
      /\ \A k \in 1 .. n : F[k] = Append(F[k - 1], s[k])
      /\ Among(s, wanted) = F[n]
  BY <1>2, <1>3 DEF Picks
<1>5. sizes \in Seq(Nat) /\ Len(sizes) = n /\ \A i \in 1 .. n : sizes[i] = s[i].bytes
  BY SizesSized
<1>6. PICK G : Counts(G, sizes)
  <2> HIDE DEF sizes
  <2> QED
    BY <1>5, SumIs
<1>7. /\ G \in [0 .. n -> Nat] /\ G[0] = 0
      /\ \A k \in 1 .. n : G[k] = G[k - 1] + sizes[k]
      /\ SumOf(sizes) = G[n]
  <2> HIDE DEF sizes, n
  <2> QED
    BY <1>5, <1>6 DEF Counts
<1> DEFINE P == {k \in 0 .. n : BytesIn(F[k]) = G[k]}
<1> HIDE DEF n, sizes
<1>8. 0 \in P
  BY <1>1, <1>4, <1>7, BytesNone
<1>9. ASSUME NEW k \in 0 .. n - 1, k \in P PROVE k + 1 \in P
  <2>1. k + 1 \in 1 .. n /\ k + 1 - 1 = k /\ k + 1 \in 0 .. n /\ k \in 0 .. n
    BY <1>1
  <2>2. F[k] \in Seq(E) /\ s[k + 1] \in E
    BY <1>1, <1>4, <2>1
  <2>3. BytesIn(Append(F[k], s[k + 1])) = BytesIn(F[k]) + s[k + 1].bytes
    BY <2>2, SizedAppend
  <2>4. F[k + 1] = Append(F[k], s[k + 1])
    BY <1>4, <2>1
  <2>5. G[k + 1] = G[k] + s[k + 1].bytes
    BY <1>5, <1>7, <2>1
  <2>6. BytesIn(F[k + 1]) = G[k + 1]
    BY <1>9, <2>3, <2>4, <2>5
  <2> QED
    BY <2>1, <2>6
<1>10. \A k \in 0 .. n : k \in P
  <2> HIDE DEF P
  <2> QED
    BY <1>1, <1>8, <1>9, Upward
<1>11. BytesIn(F[n]) = G[n]
  BY <1>1, <1>10
<1> QED
  BY <1>4, <1>7, <1>11 DEF BytesIn, sizes

LEMMA BytesAll ==
    ASSUME NEW s \in Seq(Entry), NEW wanted, ToSet(s) \subseteq wanted
    PROVE  BytesIn(Among(s, wanted)) = BytesIn(s)
BY EntrySized, SizedAll


\* The first k of some entries, and all but these.
LEMMA SizedSplit ==
    ASSUME NEW E, Sized(E), NEW s \in Seq(E), Once(s), NEW g \in Seq(E), Once(g),
           ToSet(g) \subseteq ToSet(s), NEW m \in 0 .. Len(g)
    PROVE  BytesIn(Dropping(s, ToSet(SubSeq(g, 1, m)))) + SumOf(SubSeq(SizesOf(g), 1, m))
               = BytesIn(s)
<1> DEFINE n == Len(g)
           sizes == SizesOf(g)
           Rest(k) == ToSet(s) \ ToSet(SubSeq(g, 1, k))
           Freed(k) == SumOf(SubSeq(sizes, 1, k))
           Left(k) == BytesIn(Among(s, Rest(k)))
           P == {k \in 0 .. n : Left(k) + Freed(k) = BytesIn(s)}
<1>1. n \in Nat /\ DOMAIN g = 1 .. n /\ \A k \in 1 .. n : g[k] \in E
  OBVIOUS
<1>2. sizes \in Seq(Nat) /\ Len(sizes) = n /\ \A i \in 1 .. n : sizes[i] = g[i].bytes
  BY SizesSized
<1>3. BytesIn(s) \in Nat
  <2>1. SizesOf(s) \in Seq(Nat)
    BY SizesSized
  <2> QED
    BY <2>1, SumAppend DEF BytesIn
<1>4. 0 \in P
  <2>1. ToSet(SubSeq(g, 1, 0)) = {} /\ SubSeq(sizes, 1, 0) = <<>> /\ 0 \in 0 .. n
    <3>1. 0 \in 0 .. Len(g) /\ {g[i] : i \in 1 .. 0} = {}
      BY <1>1
    <3>2. ToSet(SubSeq(g, 1, 0)) = {}
      BY <3>1, Prefix
    <3> QED
      BY <3>1, <3>2, SubSeqEmpty
  <2>2. SizesOf(<<>>) = <<>>
    BY DEF SizesOf
  <2>3. Freed(0) = 0
    BY <2>1, <2>2, BytesNone DEF BytesIn
  <2>4. Rest(0) = ToSet(s)
    BY <2>1
  <2>5. Left(0) = BytesIn(s)
    BY <2>4, SizedAll
  <2> HIDE DEF Left, Freed
  <2> QED
    BY <1>3, <2>1, <2>3, <2>5
<1>5. ASSUME NEW k \in 0 .. n - 1, k \in P PROVE k + 1 \in P
  <2> DEFINE e == g[k + 1]
  <2>1. /\ k \in 0 .. n /\ k + 1 \in 0 .. n /\ e \in E
        /\ ToSet(SubSeq(g, 1, k + 1)) = ToSet(SubSeq(g, 1, k)) \cup {e}
    BY NextPrefix
  <2>2. k + 1 \in 1 .. n /\ \A i \in 1 .. k : i \in 1 .. n /\ i # k + 1
    BY <1>1
  <2>3. e \in ToSet(s)
    BY <1>1, <2>2 DEF ToSet
  <2>4. e \notin ToSet(SubSeq(g, 1, k))
    <3>1. ToSet(SubSeq(g, 1, k)) = {g[i] : i \in 1 .. k}
      BY <2>1, Prefix
    <3> QED
      BY <3>1, <1>1, <2>2 DEF Once
  <2>5. Rest(k + 1) = Rest(k) \ {e} /\ e \in Rest(k)
    BY <2>1, <2>3, <2>4
  <2>6. Left(k) = Left(k + 1) + e.bytes
    <3> DEFINE r == Rest(k)
    <3>1. e \in r
      BY <2>5
    <3> HIDE DEF Rest, e, r
    <3>2. BytesIn(Among(s, r)) = BytesIn(Among(s, r \ {e})) + e.bytes
      BY <2>3, <3>1, SizedLess, ZenonT(60)
    <3> QED
      BY <2>5, <3>2 DEF r
  <2>7. Freed(k + 1) = Freed(k) + e.bytes /\ Freed(k) \in Nat
    <3>1. k \in 0 .. Len(sizes) - 1 /\ k \in 0 .. Len(sizes)
      BY <1>2, <2>1
    <3> HIDE DEF sizes
    <3>2. SubSeq(sizes, 1, k + 1) = Append(SubSeq(sizes, 1, k), sizes[k + 1])
      BY <1>2, <3>1, NextPrefix
    <3>3. SubSeq(sizes, 1, k) \in Seq(Nat)
      BY <1>2, <3>1, Prefix
    <3>4. sizes[k + 1] = e.bytes /\ e.bytes \in Nat
      BY <1>2, <2>1, <2>2 DEF Sized
    <3> QED
      BY <3>2, <3>3, <3>4, SumAppend
  <2>8. Left(k + 1) \in Nat /\ e.bytes \in Nat
    <3>1. Among(s, Rest(k + 1)) \in Seq(E)
      BY AmongFacts
    <3> HIDE DEF Rest
    <3> QED
      BY <3>1, <2>1, SizedAppend DEF Sized
  <2>9. Left(k) + Freed(k) = BytesIn(s)
    BY <1>5
  <2> HIDE DEF Left, Freed, e
  <2>10. Left(k + 1) + Freed(k + 1) = BytesIn(s)
    BY <2>6, <2>7, <2>8, <2>9
  <2> QED
    BY <2>1, <2>10
<1>6. \A k \in 0 .. n : k \in P
  <2> HIDE DEF P
  <2> QED
    BY <1>1, <1>4, <1>5, Upward
<1> QED
  BY <1>6 DEF Dropping

LEMMA BytesSplit ==
    ASSUME NEW s \in Seq(Entry), Lone(s), NEW g \in Seq(Entry), Lone(g),
           ToSet(g) \subseteq ToSet(s), NEW m \in 0 .. Len(g)
    PROVE  BytesIn(Dropping(s, ToSet(SubSeq(g, 1, m)))) + SumOf(SubSeq(SizesOf(g), 1, m))
               = BytesIn(s)
BY EntrySized, LoneOnce, SizedSplit


\* Entries of a cache have no more bytes than it.
LEMMA SizedPart ==
    ASSUME NEW E, Sized(E), NEW s \in Seq(E), Once(s), NEW g \in Seq(E), Once(g),
           ToSet(g) \subseteq ToSet(s)
    PROVE  BytesIn(g) <= BytesIn(s)
<1> DEFINE n == Len(g)
           rest == Dropping(s, ToSet(SubSeq(g, 1, n)))
<1>1. n \in 0 .. Len(g) /\ SubSeq(g, 1, n) = g
  OBVIOUS
<1>2. SizesOf(g) \in Seq(Nat) /\ Len(SizesOf(g)) = n
  BY SizesSized
<1>3. SubSeq(SizesOf(g), 1, n) = SizesOf(g)
  BY <1>2
<1>4. BytesIn(rest) + BytesIn(g) = BytesIn(s)
  BY <1>1, <1>3, SizedSplit DEF BytesIn
<1>5. rest \in Seq(E)
  BY AmongFacts DEF Dropping
<1> HIDE DEF rest
<1>6. BytesIn(rest) \in Nat /\ BytesIn(g) \in Nat /\ BytesIn(s) \in Nat
  <2>1. \A t \in Seq(E) : BytesIn(t) \in Nat
    BY SizesSized, SumAppend DEF BytesIn
  <2> QED
    BY <1>5, <2>1
<1> QED
  BY <1>4, <1>6

LEMMA BytesOfPart ==
    ASSUME NEW s \in Seq(Entry), Lone(s), NEW g \in Seq(Entry), Lone(g),
           ToSet(g) \subseteq ToSet(s)
    PROVE  BytesIn(g) <= BytesIn(s)
BY EntrySized, LoneOnce, SizedPart


\* Two sequences one after the other.
LEMMA ConcatIs ==
    ASSUME NEW S, NEW s \in Seq(S), NEW t \in Seq(S)
    PROVE  /\ s \o t \in Seq(S) /\ Len(s) \in Nat /\ Len(t) \in Nat
           /\ Len(s \o t) = Len(s) + Len(t)
           /\ \A i \in 1 .. Len(s) : (s \o t)[i] = s[i]
           /\ \A i \in 1 .. Len(t) : (s \o t)[Len(s) + i] = t[i]
           /\ ToSet(s \o t) = ToSet(s) \cup ToSet(t)
<1> DEFINE w == s \o t
<1>1. /\ w \in Seq(S) /\ Len(w) = Len(s) + Len(t)
      /\ \A i \in 1 .. Len(s) + Len(t) :
           w[i] = IF i <= Len(s) THEN s[i] ELSE t[i - Len(s)]
  BY ConcatProperties
<1>2. /\ Len(s) \in Nat /\ Len(t) \in Nat /\ DOMAIN s = 1 .. Len(s) /\ DOMAIN t = 1 .. Len(t)
      /\ DOMAIN w = 1 .. Len(w)
  BY <1>1
<1> HIDE DEF w
<1>3. \A i \in 1 .. Len(s) : i \in 1 .. Len(s) + Len(t) /\ i <= Len(s) /\ w[i] = s[i]
  BY <1>1, <1>2
<1>4. \A i \in 1 .. Len(t) : Len(s) + i \in 1 .. Len(s) + Len(t) /\ w[Len(s) + i] = t[i]
  <2> SUFFICES ASSUME NEW i \in 1 .. Len(t)
               PROVE  Len(s) + i \in 1 .. Len(s) + Len(t) /\ w[Len(s) + i] = t[i]
    OBVIOUS
  <2> DEFINE j == Len(s) + i
  <2>1. j \in 1 .. Len(s) + Len(t) /\ ~(j <= Len(s)) /\ j - Len(s) = i
    BY <1>2
  <2> HIDE DEF j
  <2>2. w[j] = t[i]
    BY <1>1, <2>1
  <2> QED
    BY <2>1, <2>2 DEF j
<1>5. \A i \in 1 .. Len(w) : i \in 1 .. Len(s) \/ (i - Len(s) \in 1 .. Len(t) /\ Len(s) + (i - Len(s)) = i)
  BY <1>1, <1>2
<1>6. ASSUME NEW i \in DOMAIN w PROVE w[i] \in ToSet(s) \cup ToSet(t)
  <2>1. CASE i \in 1 .. Len(s)
    BY <1>2, <1>3, <2>1 DEF ToSet
  <2>2. CASE i \notin 1 .. Len(s)
    <3> DEFINE j == i - Len(s)
    <3>1. j \in 1 .. Len(t) /\ Len(s) + j = i
      BY <1>2, <1>5, <2>2
    <3> HIDE DEF j
    <3>2. w[i] = t[j]
      BY <1>4, <3>1
    <3> QED
      BY <1>2, <3>1, <3>2 DEF ToSet
  <2> QED
    BY <2>1, <2>2
<1>7. \A i \in DOMAIN s : s[i] \in ToSet(w)
  BY <1>1, <1>2, <1>3 DEF ToSet
<1>8. \A i \in DOMAIN t : t[i] \in ToSet(w)
  <2> SUFFICES ASSUME NEW i \in DOMAIN t PROVE t[i] \in ToSet(w)
    OBVIOUS
  <2> DEFINE j == Len(s) + i
  <2>1. j \in DOMAIN w /\ w[j] = t[i]
    BY <1>1, <1>2, <1>4
  <2> HIDE DEF j
  <2> QED
    BY <2>1 DEF ToSet
<1>9. ToSet(w) = ToSet(s) \cup ToSet(t)
  <2>1. ToSet(w) \subseteq ToSet(s) \cup ToSet(t)
    BY <1>6 DEF ToSet
  <2>2. ToSet(s) \subseteq ToSet(w) /\ ToSet(t) \subseteq ToSet(w)
    <3> USE <1>7, <1>8
    <3>1. \A x \in ToSet(s) : x \in ToSet(w)
      <4> SUFFICES ASSUME NEW x \in ToSet(s) PROVE x \in ToSet(w)
        OBVIOUS
      <4>1. PICK i \in DOMAIN s : x = s[i]
        BY DEF ToSet
      <4> QED
        BY <4>1
    <3>2. \A x \in ToSet(t) : x \in ToSet(w)
      <4> SUFFICES ASSUME NEW x \in ToSet(t) PROVE x \in ToSet(w)
        OBVIOUS
      <4>1. PICK i \in DOMAIN t : x = t[i]
        BY DEF ToSet
      <4> QED
        BY <4>1
    <3> QED
      BY <3>1, <3>2
  <2> QED
    BY <2>1, <2>2
<1> QED
  BY <1>1, <1>2, <1>3, <1>4, <1>9 DEF w

LEMMA OnceConcat ==
    ASSUME NEW E, NEW s \in Seq(E), NEW t \in Seq(E), Once(s), Once(t),
           \A e \in ToSet(s), f \in ToSet(t) : e # f
    PROVE  Once(s \o t)
<1> DEFINE w == s \o t
<1>1. /\ w \in Seq(E) /\ Len(s) \in Nat /\ Len(t) \in Nat
      /\ Len(w) = Len(s) + Len(t)
      /\ \A i \in 1 .. Len(s) : w[i] = s[i]
      /\ \A i \in 1 .. Len(t) : w[Len(s) + i] = t[i]
  BY ConcatIs
<1>2. DOMAIN w = 1 .. Len(s) + Len(t) /\ DOMAIN s = 1 .. Len(s) /\ DOMAIN t = 1 .. Len(t)
  BY <1>1
<1> HIDE DEF w
<1>3. \A i \in DOMAIN w : \/ i \in 1 .. Len(s)
                          \/ \E k \in 1 .. Len(t) : i = Len(s) + k
  <2> SUFFICES ASSUME NEW i \in DOMAIN w, i \notin 1 .. Len(s)
               PROVE  \E k \in 1 .. Len(t) : i = Len(s) + k
    OBVIOUS
  <2>1. i - Len(s) \in 1 .. Len(t) /\ i = Len(s) + (i - Len(s))
    BY <1>1, <1>2
  <2> QED
    BY <2>1
<1>4. \A i \in 1 .. Len(s), k \in 1 .. Len(t) : s[i] # t[k]
  BY <1>2 DEF ToSet
<1>5. ASSUME NEW i \in DOMAIN w, NEW j \in DOMAIN w, w[i] = w[j] PROVE i = j
  <2>1. CASE i \in 1 .. Len(s) /\ j \in 1 .. Len(s)
    BY <1>1, <1>2, <1>5, <2>1 DEF Once
  <2>2. ASSUME NEW k \in 1 .. Len(t), i = Len(s) + k, j \in 1 .. Len(s) PROVE FALSE
    BY <1>1, <1>4, <1>5, <2>2
  <2>3. ASSUME NEW k \in 1 .. Len(t), j = Len(s) + k, i \in 1 .. Len(s) PROVE FALSE
    BY <1>1, <1>4, <1>5, <2>3
  <2>4. ASSUME NEW k \in 1 .. Len(t), i = Len(s) + k, NEW h \in 1 .. Len(t), j = Len(s) + h
        PROVE  i = j
    <3>1. w[i] = t[k] /\ w[j] = t[h] /\ k \in DOMAIN t /\ h \in DOMAIN t
      BY <1>1, <1>2, <2>4
    <3>2. t[k] = t[h]
      BY <1>5, <3>1
    <3>3. k = h
      BY <3>1, <3>2 DEF Once
    <3> QED
      BY <2>4, <3>3
  <2> QED
    BY <1>3, <2>1, <2>2, <2>3, <2>4
<1> QED
  BY <1>5 DEF Once, w

LEMMA LoneConcat ==
    ASSUME NEW s \in Seq(Entry), NEW t \in Seq(Entry), Lone(s), Lone(t),
           \A e \in ToSet(s), f \in ToSet(t) : e.page # f.page
    PROVE  Lone(s \o t)
<1> DEFINE w == s \o t
<1>1. /\ w \in Seq(Entry) /\ Len(s) \in Nat /\ Len(t) \in Nat
      /\ Len(w) = Len(s) + Len(t)
      /\ \A i \in 1 .. Len(s) : w[i] = s[i]
      /\ \A i \in 1 .. Len(t) : w[Len(s) + i] = t[i]
  BY ConcatIs
<1>2. DOMAIN w = 1 .. Len(s) + Len(t) /\ DOMAIN s = 1 .. Len(s) /\ DOMAIN t = 1 .. Len(t)
  BY <1>1
<1> HIDE DEF w
<1>3. \A i \in DOMAIN w : \/ i \in 1 .. Len(s)
                          \/ \E k \in 1 .. Len(t) : i = Len(s) + k
  <2> SUFFICES ASSUME NEW i \in DOMAIN w, i \notin 1 .. Len(s)
               PROVE  \E k \in 1 .. Len(t) : i = Len(s) + k
    OBVIOUS
  <2>1. i - Len(s) \in 1 .. Len(t) /\ i = Len(s) + (i - Len(s))
    BY <1>1, <1>2
  <2> QED
    BY <2>1
<1>4. \A i \in 1 .. Len(s), k \in 1 .. Len(t) : s[i].page # t[k].page
  BY <1>2 DEF ToSet
<1>5. ASSUME NEW i \in DOMAIN w, NEW j \in DOMAIN w, w[i].page = w[j].page PROVE i = j
  <2>1. CASE i \in 1 .. Len(s) /\ j \in 1 .. Len(s)
    BY <1>1, <1>2, <1>5, <2>1 DEF Lone
  <2>2. ASSUME NEW k \in 1 .. Len(t), i = Len(s) + k, j \in 1 .. Len(s) PROVE FALSE
    BY <1>1, <1>4, <1>5, <2>2
  <2>3. ASSUME NEW k \in 1 .. Len(t), j = Len(s) + k, i \in 1 .. Len(s) PROVE FALSE
    BY <1>1, <1>4, <1>5, <2>3
  <2>4. ASSUME NEW k \in 1 .. Len(t), i = Len(s) + k, NEW h \in 1 .. Len(t), j = Len(s) + h
        PROVE  i = j
    <3>1. w[i] = t[k] /\ w[j] = t[h] /\ k \in DOMAIN t /\ h \in DOMAIN t
      BY <1>1, <1>2, <2>4
    <3>2. t[k].page = t[h].page
      BY <1>5, <3>1
    <3>3. k = h
      BY <3>1, <3>2 DEF Lone
    <3> QED
      BY <2>4, <3>3
  <2> QED
    BY <1>3, <2>1, <2>2, <2>3, <2>4
<1> QED
  BY <1>5 DEF Lone, w


\* How many victims are enough: as many as it takes, or all; none when nothing is due.
IsEnough(k, victims, sizes, sum, max) ==
    /\ k \in 0 .. Len(victims)
    /\ EnoughOf(victims, sizes, sum, max) = SubSeq(victims, 1, k)
    /\ sum - SumOf(SubSeq(sizes, 1, k)) <= max \/ k = Len(victims)
    /\ \A j \in 0 .. k - 1 : ~(sum - SumOf(SubSeq(sizes, 1, j)) <= max)
    /\ sum <= max => k = 0

LEMMA EnoughIs ==
    ASSUME NEW S, NEW victims \in Seq(S), NEW sizes, NEW sum \in Int, NEW max \in Int
    PROVE  \E k : IsEnough(k, victims, sizes, sum, max)
<1> DEFINE Freed(k) == SumOf(SubSeq(sizes, 1, k))
           T == {k \in 0 .. Len(victims) : sum - Freed(k) <= max}
<1>1. EnoughOf(victims, sizes, sum, max) =
        IF T = {} THEN victims
        ELSE SubSeq(victims, 1, CHOOSE k \in T : \A j \in T : k <= j)
  BY DEF EnoughOf
<1>2. sum <= max => 0 \in T
  <2>1. SubSeq(sizes, 1, 0) = <<>>
    BY SubSeqEmpty
  <2>2. SizesOf(<<>>) = <<>>
    BY DEF SizesOf
  <2>3. Freed(0) = 0
    BY <2>1, <2>2, BytesNone DEF BytesIn
  <2> HIDE DEF Freed
  <2> QED
    BY <2>3
<1>3. CASE T = {}
  <2>1. SubSeq(victims, 1, Len(victims)) = victims /\ Len(victims) \in 0 .. Len(victims)
    OBVIOUS
  <2>2. ~(sum <= max)
    BY <1>2, <1>3
  <2>5. \A j \in 0 .. Len(victims) - 1 : ~(sum - SumOf(SubSeq(sizes, 1, j)) <= max)
    <3>1. \A j \in 0 .. Len(victims) - 1 : j \in 0 .. Len(victims)
      OBVIOUS
    <3> QED
      BY <1>3, <3>1
  <2> HIDE DEF T
  <2>3. EnoughOf(victims, sizes, sum, max) = SubSeq(victims, 1, Len(victims))
    BY <1>1, <1>3, <2>1
  <2>4. IsEnough(Len(victims), victims, sizes, sum, max)
    BY <2>1, <2>2, <2>3, <2>5 DEF IsEnough
  <2> QED
    BY <2>4
<1>4. CASE T # {}
  <2>1. T \subseteq Nat
    OBVIOUS
  <2> DEFINE k == CHOOSE k \in T : \A j \in T : k <= j
  <2>2. k \in T /\ \A j \in T : k <= j
    <3> HIDE DEF T
    <3> QED
      BY <1>4, <2>1, LeastNat
  <2> HIDE DEF k
  <2>3. k \in 0 .. Len(victims) /\ sum - SumOf(SubSeq(sizes, 1, k)) <= max
    BY <2>2
  <2>4. sum <= max => k = 0
    <3>1. 0 \in T => k <= 0
      BY <2>2
    <3> QED
      BY <3>1, <1>2, <2>3
  <2>5. EnoughOf(victims, sizes, sum, max) = SubSeq(victims, 1, k)
    BY <1>1, <1>4 DEF k
  <2>7. \A j \in 0 .. k - 1 : ~(sum - SumOf(SubSeq(sizes, 1, j)) <= max)
    <3>1. \A j \in 0 .. k - 1 : j \in 0 .. Len(victims) /\ ~(k <= j)
      BY <2>3
    <3> QED
      BY <2>2, <3>1
  <2>6. IsEnough(k, victims, sizes, sum, max)
    BY <2>3, <2>4, <2>5, <2>7 DEF IsEnough
  <2> QED
    BY <2>6
<1> QED
  BY <1>3, <1>4

LEMMA EnoughOfThem ==
    ASSUME NEW S, NEW victims \in Seq(S), NEW sizes, NEW sum \in Int, NEW max \in Int
    PROVE  /\ EnoughOf(victims, sizes, sum, max) \in Seq(S)
           /\ ToSet(EnoughOf(victims, sizes, sum, max)) \subseteq ToSet(victims)
<1>0. PICK k : IsEnough(k, victims, sizes, sum, max)
  BY EnoughIs
<1>1. k \in 0 .. Len(victims) /\ EnoughOf(victims, sizes, sum, max) = SubSeq(victims, 1, k)
  BY <1>0 DEF IsEnough
<1>2. /\ ToSet(SubSeq(victims, 1, k)) = {victims[i] : i \in 1 .. k}
      /\ SubSeq(victims, 1, k) \in Seq(S)
  BY <1>1, Prefix
<1>3. \A i \in 1 .. k : i \in DOMAIN victims
  BY <1>1
<1> QED
  BY <1>1, <1>2, <1>3 DEF ToSet

\* The bytes of a cache are a number.
LEMMA SizedNat ==
    ASSUME NEW E, Sized(E), NEW s \in Seq(E)
    PROVE  BytesIn(s) \in Nat
BY SizesSized, SumAppend DEF BytesIn

LEMMA BytesNat == \A s \in Seq(Entry) : BytesIn(s) \in Nat
BY SizesAre, SumAppend DEF BytesIn


\* What is left when some entries are dropped.
LEMMA SizedDropping ==
    ASSUME NEW E, Sized(E), NEW s \in Seq(E), NEW gone
    PROVE  /\ Dropping(s, gone) \in Seq(E)
           /\ ToSet(Dropping(s, gone)) = ToSet(s) \ gone
           /\ Once(s) => Once(Dropping(s, gone))
<1>1. Dropping(s, gone) = Among(s, ToSet(s) \ gone)
  BY DEF Dropping
<1>2. /\ Among(s, ToSet(s) \ gone) \in Seq(E)
      /\ ToSet(Among(s, ToSet(s) \ gone)) = ToSet(s) \cap (ToSet(s) \ gone)
  BY AmongFacts
<1>3. Once(s) => Once(Among(s, ToSet(s) \ gone))
  BY OnceAmong
<1> QED
  BY <1>1, <1>2, <1>3

LEMMA DroppingFacts ==
    ASSUME NEW s \in Seq(Entry), NEW gone
    PROVE  /\ Dropping(s, gone) \in Seq(Entry)
           /\ ToSet(Dropping(s, gone)) = ToSet(s) \ gone
           /\ Lone(s) => Lone(Dropping(s, gone))
<1>1. Dropping(s, gone) = Among(s, ToSet(s) \ gone)
  BY DEF Dropping
<1>2. /\ Among(s, ToSet(s) \ gone) \in Seq(Entry)
      /\ ToSet(Among(s, ToSet(s) \ gone)) = ToSet(s) \cap (ToSet(s) \ gone)
  BY AmongFacts
<1>3. Lone(s) => Lone(Among(s, ToSet(s) \ gone))
  BY LoneAmong
<1> QED
  BY <1>1, <1>2, <1>3


\* evict_to_budget: what is left is within the budget; nothing goes when all is; an
\* entry of a protected page goes only when none but those are left.
LEMMA SizedEvict ==
    ASSUME NEW E, Sized(E), NEW s \in Seq(E), Once(s), NEW max \in Nat, NEW protected
    PROVE  LET t == EvictToBudget(s, max, protected)
           IN  /\ t \in Seq(E) /\ Once(t) /\ ToSet(t) \subseteq ToSet(s)
               /\ BytesIn(t) <= max
               /\ BytesIn(s) <= max => ToSet(t) = ToSet(s) /\ BytesIn(t) = BytesIn(s)
               /\ \E out : t = Dropping(s, out)
               /\ \A e \in ToSet(s) \ ToSet(t), f \in ToSet(t) :
                    e.page \in protected => f.page \in protected
<1> DEFINE spared == {e \in ToSet(s) : e.page \in protected}
           first == Dropping(s, spared)
           last == Among(s, spared)
           order == first \o last
           gone == EnoughOf(order, SizesOf(order), BytesIn(s), max)
           t == EvictToBudget(s, max, protected)
<1>1. t = Dropping(s, ToSet(gone))
  BY DEF EvictToBudget
<1>2. first \in Seq(E) /\ ToSet(first) = ToSet(s) \ spared /\ Once(first)
  BY SizedDropping
<1>3. last \in Seq(E) /\ ToSet(last) = ToSet(s) \cap spared /\ Once(last)
  BY AmongFacts, OnceAmong
<1>4. BytesIn(s) \in Nat
  BY SizedNat
<1>5. \A e \in ToSet(first) : e.page \notin protected
  BY <1>2
<1>6. \A e \in ToSet(last) : e.page \in protected
  BY <1>3
<1>7. ToSet(s) = ToSet(first) \cup ToSet(last)
  BY <1>2, <1>3
<1> HIDE DEF first, last, t, spared
<1>8. /\ order \in Seq(E) /\ Len(first) \in Nat /\ Len(last) \in Nat
      /\ Len(order) = Len(first) + Len(last)
      /\ \A i \in 1 .. Len(first) : order[i] = first[i]
      /\ \A i \in 1 .. Len(last) : order[Len(first) + i] = last[i]
      /\ ToSet(order) = ToSet(s)
  BY <1>2, <1>3, <1>7, ConcatIs
<1>9. Once(order)
  <2>1. \A e \in ToSet(first), f \in ToSet(last) : e # f
    BY <1>5, <1>6
  <2> QED
    BY <1>2, <1>3, <2>1, OnceConcat
<1> HIDE DEF order
<1>a. PICK k : IsEnough(k, order, SizesOf(order), BytesIn(s), max)
  <2>1. BytesIn(s) \in Int /\ max \in Int /\ order \in Seq(E)
    BY <1>4, <1>8
  <2> QED
    BY <2>1, EnoughIs
<1>10. /\ k \in 0 .. Len(order)
       /\ gone = SubSeq(order, 1, k)
       /\ BytesIn(s) - SumOf(SubSeq(SizesOf(order), 1, k)) <= max \/ k = Len(order)
       /\ BytesIn(s) <= max => k = 0
  BY <1>a DEF IsEnough
<1> HIDE DEF gone
<1>11. ToSet(gone) = {order[i] : i \in 1 .. k}
  <2>1. order \in Seq(E) /\ k \in 0 .. Len(order)
    BY <1>8, <1>10
  <2>2. ToSet(SubSeq(order, 1, k)) = {order[i] : i \in 1 .. k}
    BY <2>1, Prefix
  <2> QED
    BY <1>10, <2>2
<1>12. t \in Seq(E) /\ ToSet(t) = ToSet(s) \ ToSet(gone) /\ Once(t)
  BY <1>1, SizedDropping
<1>13. BytesIn(t) <= max
  <2>1. CASE k = Len(order)
    <3>0. DOMAIN order = 1 .. k
      BY <1>8, <2>1
    <3>1. ToSet(gone) = ToSet(order)
      BY <1>11, <3>0 DEF ToSet
    <3>2. ToSet(t) = {}
      BY <1>8, <1>12, <3>1
    <3>3. t = <<>>
      <4>1. Len(t) = 0
        <5>1. SUFFICES ASSUME Len(t) # 0 PROVE FALSE
          OBVIOUS
        <5>2. 1 \in DOMAIN t
          BY <1>12, <5>1
        <5> QED
          BY <3>2, <5>2 DEF ToSet
      <4> QED
        BY <1>12, <4>1
    <3> QED
      BY <3>3, BytesNone
  <2>2. CASE BytesIn(s) - SumOf(SubSeq(SizesOf(order), 1, k)) <= max
    <3>1. BytesIn(t) + SumOf(SubSeq(SizesOf(order), 1, k)) = BytesIn(s)
      BY <1>1, <1>8, <1>9, <1>10, SizedSplit
    <3>2. BytesIn(t) \in Nat
      BY <1>12, SizedNat
    <3>3. SumOf(SubSeq(SizesOf(order), 1, k)) \in Nat
      <4>1. SizesOf(order) \in Seq(Nat) /\ Len(SizesOf(order)) = Len(order)
        BY <1>8, SizesSized
      <4>2. SubSeq(SizesOf(order), 1, k) \in Seq(Nat)
        BY <1>10, <4>1, Prefix
      <4> QED
        BY <4>2, SumAppend
    <3> QED
      BY <1>4, <2>2, <3>1, <3>2, <3>3
  <2> QED
    BY <1>10, <2>1, <2>2
<1>14. BytesIn(s) <= max => ToSet(t) = ToSet(s) /\ BytesIn(t) = BytesIn(s)
  <2>0. SUFFICES ASSUME BytesIn(s) <= max
                 PROVE  ToSet(t) = ToSet(s) /\ BytesIn(t) = BytesIn(s)
    OBVIOUS
  <2>1. k = 0 => {order[i] : i \in 1 .. k} = {}
    OBVIOUS
  <2>2. ToSet(gone) = {}
    BY <1>10, <1>11, <2>0, <2>1
  <2> DEFINE all == ToSet(s) \ ToSet(gone)
  <2>3. all = ToSet(s) /\ t = Among(s, all)
    BY <1>1, <2>2 DEF Dropping
  <2> HIDE DEF all, t
  <2>4. BytesIn(Among(s, all)) = BytesIn(s)
    BY <2>3, SizedAll
  <2> QED
    BY <1>12, <2>2, <2>3, <2>4
<1>15. ASSUME NEW e \in ToSet(s) \ ToSet(t), NEW f \in ToSet(t), e.page \in protected
       PROVE  f.page \in protected
  <2>1. e \in ToSet(gone)
    BY <1>12
  <2>2. PICK i \in 1 .. k : e = order[i]
    BY <1>11, <2>1
  <2>3. i \notin 1 .. Len(first)
    <3>1. SUFFICES ASSUME i \in 1 .. Len(first) PROVE FALSE
      OBVIOUS
    <3>2. e \in ToSet(first)
      BY <1>2, <1>8, <2>2, <3>1 DEF ToSet
    <3> QED
      BY <1>5, <1>15, <3>2
  <2>4. \A j \in 1 .. Len(first) : j \in 1 .. k
    BY <1>8, <1>10, <2>3
  <2>5. ToSet(first) \subseteq ToSet(gone)
    <3>1. DOMAIN first = 1 .. Len(first)
      BY <1>2
    <3>2. \A j \in DOMAIN first : first[j] \in ToSet(gone)
      BY <1>8, <1>11, <2>4, <3>1
    <3> QED
      BY <3>2 DEF ToSet
  <2>6. f \in ToSet(last)
    BY <1>7, <1>12, <2>5
  <2> QED
    BY <1>6, <2>6
<1>17. \E out : t = Dropping(s, out)
  BY <1>1
<1> HIDE DEF t
<1>16. /\ t \in Seq(E) /\ Once(t) /\ ToSet(t) \subseteq ToSet(s)
       /\ BytesIn(t) <= max
       /\ BytesIn(s) <= max => ToSet(t) = ToSet(s) /\ BytesIn(t) = BytesIn(s)
       /\ \E out : t = Dropping(s, out)
       /\ \A e \in ToSet(s) \ ToSet(t), f \in ToSet(t) :
            e.page \in protected => f.page \in protected
  BY <1>12, <1>13, <1>14, <1>15, <1>17
<1> QED
  BY <1>16 DEF t

LEMMA EvictFacts ==
    ASSUME NEW s \in Seq(Entry), Lone(s), NEW max \in Nat, NEW protected
    PROVE  LET t == EvictToBudget(s, max, protected)
           IN  /\ t \in Seq(Entry) /\ Lone(t) /\ ToSet(t) \subseteq ToSet(s)
               /\ BytesIn(t) <= max
               /\ BytesIn(s) <= max => ToSet(t) = ToSet(s)
               /\ \A e \in ToSet(s) \ ToSet(t), f \in ToSet(t) :
                    e.page \in protected => f.page \in protected
<1> DEFINE t == EvictToBudget(s, max, protected)
<1>1. /\ t \in Seq(Entry) /\ ToSet(t) \subseteq ToSet(s) /\ BytesIn(t) <= max
      /\ BytesIn(s) <= max => ToSet(t) = ToSet(s) /\ BytesIn(t) = BytesIn(s)
      /\ \E out : t = Dropping(s, out)
      /\ \A e \in ToSet(s) \ ToSet(t), f \in ToSet(t) :
           e.page \in protected => f.page \in protected
  BY EntrySized, LoneOnce, SizedEvict
<1> HIDE DEF t
<1>2. Lone(t)
  BY <1>1, DroppingFacts
<1>3. /\ t \in Seq(Entry) /\ Lone(t) /\ ToSet(t) \subseteq ToSet(s)
      /\ BytesIn(t) <= max
      /\ BytesIn(s) <= max => ToSet(t) = ToSet(s)
      /\ \A e \in ToSet(s) \ ToSet(t), f \in ToSet(t) :
           e.page \in protected => f.page \in protected
  BY <1>1, <1>2
<1> QED
  BY <1>3 DEF t


\* get: the entry found goes to the end, and that is all.
LEMMA TouchFacts ==
    ASSUME NEW s \in Seq(Entry), Lone(s), NEW e \in ToSet(s)
    PROVE  LET t == TouchEntry(s, e)
           IN  t \in Seq(Entry) /\ Lone(t) /\ ToSet(t) = ToSet(s) /\ BytesIn(t) = BytesIn(s)
<1> DEFINE rest == Dropping(s, {e})
           t == TouchEntry(s, e)
<1>1. e \in Entry
  BY DEF ToSet
<1>2. rest \in Seq(Entry) /\ ToSet(rest) = ToSet(s) \ {e} /\ Lone(rest)
  BY DroppingFacts
<1>3. BytesIn(s) = BytesIn(rest) + e.bytes
  <2>1. BytesIn(Among(s, ToSet(s))) = BytesIn(s)
    BY BytesAll
  <2>2. BytesIn(Among(s, ToSet(s))) = BytesIn(Among(s, ToSet(s) \ {e})) + e.bytes
    BY BytesLess
  <2> QED
    BY <2>1, <2>2 DEF Dropping
<1>4. t = Append(rest, e)
  BY DEF TouchEntry
<1> HIDE DEF rest, t
<1>5. e.page \notin PagesOf(rest)
  <2> SUFFICES ASSUME NEW i \in DOMAIN rest, rest[i].page = e.page PROVE FALSE
    BY DEF PagesOf
  <2>1. rest[i] \in ToSet(rest)
    BY DEF ToSet
  <2>2. rest[i] \in ToSet(s) /\ rest[i] # e
    BY <1>2, <2>1
  <2> QED
    BY <2>2 DEF Lone, ToSet
<1>6. t \in Seq(Entry) /\ Lone(t)
  BY <1>1, <1>2, <1>4, <1>5, LoneAppend
<1>7. ToSet(t) = ToSet(s)
  <2>1. ToSet(t) = ToSet(rest) \cup {e}
    BY <1>1, <1>2, <1>4, AppendIs
  <2> QED
    BY <1>2, <2>1
<1>8. BytesIn(t) = BytesIn(s)
  BY <1>1, <1>2, <1>3, <1>4, BytesAppend
<1> QED
  BY <1>6, <1>7, <1>8 DEF t

\* insert_with_eviction_candidates, for a page that is not cached: the cache stays
\* within the limit, and what goes is of candidates that are not protected.
LEMMA InsertFacts ==
    ASSUME NEW s \in Seq(Entry), Lone(s), NEW e \in Entry, e.page \notin PagesOf(s),
           NEW max \in Nat, BytesIn(s) <= max, NEW S, NEW candidates \in Seq(S), NEW protected
    PROVE  LET t == InsertEntry(s, e, max, candidates, protected)
           IN  /\ t \in Seq(Entry) /\ Lone(t) /\ ToSet(t) \subseteq ToSet(s) \cup {e}
               /\ BytesIn(t) <= max
               /\ \A x \in ToSet(s) \ ToSet(t) :
                    x.page \in ToSet(candidates) /\ x.page \notin protected
<1> DEFINE others == Dropping(s, Namesakes(s, e))
           full == Append(others, e)
           victims == Among(candidates, PagesOf(full) \ (protected \cup {e.page}))
           gone == EnoughOf(victims, PageSizes(full, victims), BytesIn(full), max)
           out == {x \in ToSet(full) : Contains(gone, x.page)}
           left == Dropping(full, out)
           last == EntriesOf(left, e.page)
           t == InsertEntry(s, e, max, candidates, protected)
<1>1. t = IF BytesIn(left) <= max THEN left ELSE Dropping(left, last)
  BY DEF InsertEntry
<1>2. Namesakes(s, e) = {}
  BY DEF Namesakes, PagesOf, ToSet
<1>3. others \in Seq(Entry) /\ ToSet(others) = ToSet(s) /\ Lone(others)
  <2> DEFINE none == Namesakes(s, e)
  <2>1. none = {}
    BY <1>2
  <2> HIDE DEF none
  <2>2. /\ Dropping(s, none) \in Seq(Entry)
        /\ ToSet(Dropping(s, none)) = ToSet(s) \ none
        /\ Lone(s) => Lone(Dropping(s, none))
    BY DroppingFacts
  <2>3. others = Dropping(s, none)
    BY DEF none
  <2> HIDE DEF others
  <2> QED
    BY <2>1, <2>2, <2>3
<1> HIDE DEF others
<1>4. e.page \notin PagesOf(others)
  <2>1. \A u : PagesOf(u) = {x.page : x \in ToSet(u)}
    BY DEF PagesOf, ToSet
  <2> QED
    BY <1>3, <2>1
<1>5. full \in Seq(Entry) /\ Lone(full) /\ ToSet(full) = ToSet(s) \cup {e}
  <2>1. full \in Seq(Entry) /\ Lone(full)
    BY <1>3, <1>4, LoneAppend
  <2>2. ToSet(full) = ToSet(others) \cup {e}
    BY <1>3, AppendIs
  <2> QED
    BY <1>3, <2>1, <2>2
<1> HIDE DEF full
<1>6. victims \in Seq(S) /\ ToSet(victims) \subseteq ToSet(candidates)
      /\ \A p \in ToSet(victims) : p \notin protected
  <2>1. /\ victims \in Seq(S)
        /\ ToSet(victims) = ToSet(candidates) \cap (PagesOf(full) \ (protected \cup {e.page}))
    BY AmongFacts
  <2> QED
    BY <2>1
<1> HIDE DEF victims
<1>7. gone \in Seq(S) /\ ToSet(gone) \subseteq ToSet(victims)
  <2>1. BytesIn(full) \in Int /\ max \in Int
    BY <1>5, BytesNat
  <2> QED
    BY <1>6, <2>1, EnoughOfThem
<1> HIDE DEF gone
<1>8. \A x \in out : x.page \in ToSet(candidates) /\ x.page \notin protected
  <2> SUFFICES ASSUME NEW x \in out PROVE x.page \in ToSet(gone)
    BY <1>6, <1>7
  <2>1. DOMAIN gone = 1 .. Len(gone)
    BY <1>7
  <2> QED
    BY <2>1 DEF Contains, ToSet
<1> HIDE DEF out
<1>9. left \in Seq(Entry) /\ ToSet(left) = ToSet(full) \ out /\ Lone(left)
  BY <1>5, DroppingFacts
<1> HIDE DEF left
<1>10. CASE BytesIn(left) <= max
  <2>1. t = left
    BY <1>1, <1>10
  <2>2. \A x \in ToSet(s) \ ToSet(left) : x \in out
    BY <1>5, <1>9
  <2>3. /\ t \in Seq(Entry) /\ Lone(t) /\ ToSet(t) \subseteq ToSet(s) \cup {e}
        /\ BytesIn(t) <= max
        /\ \A x \in ToSet(s) \ ToSet(t) :
             x.page \in ToSet(candidates) /\ x.page \notin protected
    BY <1>5, <1>8, <1>9, <1>10, <2>1, <2>2
  <2> QED
    BY <2>3
<1>11. CASE ~(BytesIn(left) <= max)
  <2>1. t = Dropping(left, last)
    BY <1>1, <1>11
  <2>2. Dropping(left, last) \in Seq(Entry) /\ Lone(Dropping(left, last))
        /\ ToSet(Dropping(left, last)) = ToSet(left) \ last
    BY <1>9, DroppingFacts
  <2>3. e \notin ToSet(t)
    BY <2>1, <2>2 DEF EntriesOf
  <2>4. ToSet(t) \subseteq ToSet(s)
    BY <1>5, <1>9, <2>1, <2>2, <2>3
  <2>5. t \in Seq(Entry) /\ Lone(t)
    BY <2>1, <2>2
  <2> HIDE DEF t
  <2>6. BytesIn(t) <= BytesIn(s)
    BY <2>4, <2>5, BytesOfPart
  <2>7. BytesIn(t) <= max
    <3>1. BytesIn(t) \in Nat /\ BytesIn(s) \in Nat
      BY <2>5, BytesNat
    <3> QED
      BY <2>6, <3>1
  <2>8. \A x \in ToSet(s) \ ToSet(t) :
             x.page \in ToSet(candidates) /\ x.page \notin protected
    <3> SUFFICES ASSUME NEW x \in ToSet(s) \ ToSet(t)
                 PROVE  x.page \in ToSet(candidates) /\ x.page \notin protected
      OBVIOUS
    <3>1. x.page # e.page
      BY DEF PagesOf, ToSet
    <3>2. x \notin last
      BY <3>1 DEF EntriesOf
    <3>3. x \in out
      BY <1>5, <1>9, <2>1, <2>2, <3>2 DEF t
    <3> QED
      BY <1>8, <3>3
  <2> QED
    BY <2>4, <2>5, <2>7, <2>8 DEF t
<1> QED
  BY <1>10, <1>11

-----------------------------------------------------------------------------
\* The planner asks for pages that are not cached.
LEMMA PlanIs ==
    ASSUME NEW desired \in Seq(Int), NEW entries, NEW max, NEW full, NEW most \in Int,
           NEW asked, NEW rejected, NEW protected, NEW spare
    PROVE  LET pages == Plan(desired, entries, max, full, most, asked, rejected,
                             protected, spare).pages
           IN  \A i \in DOMAIN pages : pages[i] \notin PagesOf(entries)
<1> DEFINE Lacking(p) == p \notin PagesOf(entries) \cup asked \cup rejected \cup protected
           ranks == EvictableRanks(desired, entries, protected)
           Better(p) == \E r \in ranks : Rank(desired, p) < r
           tight == full \/ BytesIn(entries) >= max
           wanted == {p \in ToSet(desired) : Lacking(p) /\ (tight => Better(p))}
           some == Among(desired, wanted)
           pages == Plan(desired, entries, max, full, most, asked, rejected,
                         protected, spare).pages
<1>1. pages = <<>> \/ pages = UpTo(some, most)
  BY DEF Plan
<1>2. some \in Seq(Int) /\ ToSet(some) \subseteq wanted
  <2>1. some \in Seq(Int) /\ ToSet(some) = ToSet(desired) \cap wanted
    BY AmongFacts
  <2> QED
    BY <2>1
<1>3. \A p \in wanted : p \notin PagesOf(entries)
  OBVIOUS
<1> HIDE DEF some, wanted, pages
<1>4. ASSUME NEW i \in DOMAIN UpTo(some, most) PROVE UpTo(some, most)[i] \in ToSet(some)
  <2> DEFINE m == Least(most, Len(some))
             u == SubSeq(some, 1, m)
  <2>1. m \in Int /\ m <= Len(some) /\ UpTo(some, most) = u
    BY <1>2 DEF Least, UpTo
  <2> HIDE DEF m
  <2>2. 1 \in Int /\ \A k \in 1 .. m : some[k] \in Int /\ k \in DOMAIN some
    BY <1>2, <2>1
  <2>0. /\ \A k \in 1 .. m : some[k] \in Int
        /\ m \in Int /\ 1 \in Int
    BY <2>1, <2>2
  <2>3. /\ u \in Seq(Int) /\ Len(u) = (IF 1 <= m THEN m - 1 + 1 ELSE 0)
        /\ \A k \in 1 .. m - 1 + 1 : u[k] = some[1 + k - 1]
    BY <2>0, SubSeqProperties
  <2> HIDE DEF u
  <2>4. i \in 1 .. m
    BY <1>4, <2>1, <2>3
  <2>5. u[i] = some[i]
    BY <2>1, <2>3, <2>4
  <2> QED
    BY <2>1, <2>2, <2>4, <2>5 DEF ToSet
<1>5. \A i \in DOMAIN pages : pages[i] \notin PagesOf(entries)
  <2>1. CASE pages = <<>>
    BY <2>1
  <2>2. CASE pages = UpTo(some, most)
    BY <1>2, <1>3, <1>4, <2>2
  <2> QED
    BY <1>1, <2>1, <2>2
<1> QED
  BY <1>5 DEF pages

\* A rank is a number.
LEMMA RankInt == ASSUME NEW desired \in Seq(Int), NEW p PROVE Rank(desired, p) \in Int
<1>1. CASE Contains(desired, p)
  <2>1. \E i \in DOMAIN desired : desired[i] = p
    BY <1>1 DEF Contains
  <2>2. Rank(desired, p) \in DOMAIN desired
    BY <1>1, <2>1 DEF Rank
  <2> QED
    BY <2>2
<1>2. CASE ~Contains(desired, p)
  BY <1>2 DEF Rank
<1> QED
  BY <1>1, <1>2

\* The pages given up for a page are off the screen and rank below it.
Below(p, page, desired, protected) ==
    p \notin protected /\ Rank(desired, page) < Rank(desired, p)

LEMMA CandidatesAre ==
    ASSUME NEW desired \in Seq(Int), NEW s \in Seq(Entry), NEW protected, NEW page
    PROVE  /\ EvictCandidates(desired, s, protected, page) \in Seq(Int)
           /\ \A p \in ToSet(EvictCandidates(desired, s, protected, page)) :
                Below(p, page, desired, protected)
<1> DEFINE worse == {p \in (PagesOf(s) \cup ToSet(desired)) \ protected :
                        Rank(desired, p) > Rank(desired, page)}
           pages == [i \in DOMAIN s |-> s[i].page]
           cached == Distinct(pages)
           back == Reverse(desired)
           first == Among(cached, worse \ ToSet(desired))
           second == Among(back, worse)
<1>1. EvictCandidates(desired, s, protected, page) = first \o second
  BY DEF EvictCandidates
<1>2. pages \in Seq(Int)
  <2>1. DOMAIN s = 1 .. Len(s) /\ Len(s) \in Nat /\ \A i \in 1 .. Len(s) : s[i] \in Entry
    OBVIOUS
  <2>2. \A i \in 1 .. Len(s) : s[i].page \in Int
    BY <2>1 DEF Entry, Pages
  <2>3. pages \in [1 .. Len(s) -> Int]
    BY <2>1, <2>2
  <2> HIDE DEF pages
  <2> QED
    BY <2>1, <2>3, SMTT(40)
<1>3. cached \in Seq(Int)
  <2> HIDE DEF pages
  <2> QED
    BY <1>2, DistinctIs
<1>4. back \in Seq(Int)
  <2>1. Len(desired) \in Nat /\ \A i \in 1 .. Len(desired) : (Len(desired) - i) + 1 \in 1 .. Len(desired)
    OBVIOUS
  <2>2. \A i \in 1 .. Len(desired) : desired[(Len(desired) - i) + 1] \in Int
    BY <2>1
  <2>3. back \in [1 .. Len(desired) -> Int]
    BY <2>2 DEF Reverse
  <2> HIDE DEF back
  <2> QED
    BY <2>1, <2>3
<1>5. \A p \in worse : Below(p, page, desired, protected)
  <2> SUFFICES ASSUME NEW p \in worse PROVE Rank(desired, page) < Rank(desired, p)
    BY DEF Below
  <2>1. Rank(desired, p) > Rank(desired, page)
    OBVIOUS
  <2>2. Rank(desired, p) \in Int /\ Rank(desired, page) \in Int
    BY RankInt
  <2> QED
    BY <2>1, <2>2
<1> HIDE DEF worse, cached, back
<1>6. first \in Seq(Int) /\ ToSet(first) = ToSet(cached) \cap (worse \ ToSet(desired))
  BY <1>3, AmongFacts
<1>7. second \in Seq(Int) /\ ToSet(second) = ToSet(back) \cap worse
  BY <1>4, AmongFacts
<1> HIDE DEF first, second
<1>8. first \o second \in Seq(Int) /\ ToSet(first \o second) = ToSet(first) \cup ToSet(second)
  BY <1>6, <1>7, ConcatIs
<1> QED
  BY <1>1, <1>5, <1>6, <1>7, <1>8

\* plan_completion_admission gives up such pages only.
LEMMA AdmissionIs ==
    ASSUME NEW desired \in Seq(Int), NEW s \in Seq(Entry), NEW max \in Nat,
           NEW e \in Entry, NEW protected
    PROVE  LET verdict == Admission(desired, s, max, e, protected)
           IN  /\ verdict.evict \in Seq(Int)
               /\ \A p \in ToSet(verdict.evict) : Below(p, e.page, desired, protected)
<1> DEFINE exact == Among(s, Namesakes(s, e))
           needed == BytesIn(s) - BytesIn(exact) + e.bytes
           candidates == EvictCandidates(desired, s, protected, e.page)
           large == {p \in PagesOf(s) : BytesOfPage(s, p) > 0}
           cached == Among(candidates, large)
           evict == EnoughOf(cached, PageSizes(s, cached), needed, max)
           verdict == Admission(desired, s, max, e, protected)
<1>1. verdict.evict = evict \/ verdict.evict = <<>>
  BY DEF Admission
<1>2. needed \in Int
  <2>1. exact \in Seq(Entry)
    BY AmongFacts
  <2>2. BytesIn(exact) \in Nat /\ BytesIn(s) \in Nat /\ e.bytes \in Nat
    <3> HIDE DEF exact
    <3> QED
      BY <2>1, BytesNat DEF Entry
  <2> HIDE DEF exact
  <2> QED
    BY <2>2
<1>3. /\ candidates \in Seq(Int)
      /\ \A p \in ToSet(candidates) : Below(p, e.page, desired, protected)
  BY CandidatesAre
<1> HIDE DEF candidates, needed, large
<1>4. cached \in Seq(Int) /\ ToSet(cached) = ToSet(candidates) \cap large
  BY <1>3, AmongFacts
<1> HIDE DEF cached
<1>5. evict \in Seq(Int) /\ ToSet(evict) \subseteq ToSet(cached)
  BY <1>2, <1>4, EnoughOfThem
<1>6. ToSet(<<>>) = {} /\ <<>> \in Seq(Int)
  BY DEF ToSet
<1> HIDE DEF evict, verdict
<1>7. verdict.evict \in Seq(Int) /\ \A p \in ToSet(verdict.evict) : Below(p, e.page, desired, protected)
  <2>1. CASE verdict.evict = evict
    BY <1>3, <1>4, <1>5, <2>1
  <2>2. CASE verdict.evict = <<>>
    BY <1>6, <2>2
  <2> QED
    BY <1>1, <2>1, <2>2
<1> QED
  BY <1>7 DEF verdict

\* An element of a sequence is where it is looked for.
LEMMA ContainsIs ==
    ASSUME NEW S, NEW s \in Seq(S), NEW e
    PROVE  Contains(s, e) <=> e \in ToSet(s)
<1>1. DOMAIN s = 1 .. Len(s)
  OBVIOUS
<1> QED
  BY <1>1 DEF Contains, ToSet

\* What FlattenSeq has put together up to each place.
Joins(F, S, seqs) ==
    /\ F \in [0 .. Len(seqs) -> Seq(S)]
    /\ F[0] = <<>>
    /\ \A k \in 1 .. Len(seqs) : F[k] = F[k - 1] \o seqs[k]
    /\ FlattenSeq(seqs) = F[Len(seqs)]

LEMMA FlattenSteps ==
    ASSUME NEW S, NEW seqs \in Seq(Seq(S))
    PROVE  \E F : Joins(F, S, seqs)
<1> DEFINE n == Len(seqs)
           More(x, k) == x \o seqs[k]
           step == [k \in 1 .. n |-> [x \in Seq(S) |-> More(x, k)]]
<1>1. n \in Nat /\ <<>> \in Seq(S) /\ \A k \in 1 .. n : k - 1 \in 0 .. n /\ k \in 0 .. n /\ k # 0
  OBVIOUS
<1>2. \A k \in 1 .. n : seqs[k] \in Seq(S)
  OBVIOUS
<1>3. \A k \in 1 .. n : \A x \in Seq(S) : More(x, k) \in Seq(S)
  BY <1>2
<1>4. step \in [1 .. n -> [Seq(S) -> Seq(S)]]
  <2> HIDE DEF More
  <2> QED
    BY <1>3
<1>5. PICK F : IsTable(F, n, Seq(S), <<>>, step)
  <2> HIDE DEF step, n
  <2> QED
    BY <1>1, <1>4, TableExists
<1>6. F \in [0 .. n -> Seq(S)] /\ F[0] = <<>> /\ \A k \in 1 .. n : F[k] = More(F[k - 1], k)
  <2>1. F \in [0 .. n -> Seq(S)] /\ F[0] = <<>> /\ \A k \in 1 .. n : F[k] = step[k][F[k - 1]]
    BY <1>5 DEF IsTable
  <2>2. \A k \in 1 .. n : F[k - 1] \in Seq(S)
    BY <1>1, <2>1
  <2>3. \A k \in 1 .. n : \A x \in Seq(S) : step[k][x] = More(x, k)
    <3> HIDE DEF More, n
    <3> QED
      OBVIOUS
  <2> HIDE DEF More, step, n
  <2> QED
    BY <2>1, <2>2, <2>3
<1>7. FlattenSeq(seqs) = F[n]
  <2>1. CASE n = 0
    <3>1. seqs = <<>>
      BY <2>1
    <3>2. FlattenSeq(seqs) = seqs
      BY <2>1 DEF FlattenSeq
    <3>3. F[n] = F[0]
      BY <2>1
    <3> QED
      BY <1>6, <3>1, <3>2, <3>3, Zenon
  <2>2. CASE n # 0
    <3>1. n \in 1 .. n /\ 1 \in 1 .. n /\ \A k \in 1 .. n : k # 1 => k - 1 \in 1 .. n
      BY <1>1, <2>2
    <3> DEFINE Row(G, k) == IF k = 1 THEN seqs[k] ELSE G[k - 1] \o seqs[k]
               Law(G) == G = [k \in 1 .. n |-> Row(G, k)]
               H == CHOOSE G : Law(G)
               G0 == [k \in 1 .. n |-> F[k]]
    <3>2. F[1] = seqs[1]
      <4>1. F[1] = More(F[0], 1)
        <5>1. F[1] = More(F[1 - 1], 1) /\ 1 - 1 = 0
          <6> HIDE DEF More, n
          <6> QED
            BY <1>6, <3>1
        <5> QED
          BY <5>1
      <4>2. F[1] = <<>> \o seqs[1]
        BY <1>6, <4>1
      <4> HIDE DEF n
      <4>3. seqs[1] \in Seq(S)
        BY <1>2, <3>1
      <4> QED
        BY <4>2, <4>3, ConcatEmptySeq
    <3>3. Law(G0)
      <4>1. \A k \in 1 .. n : k # 1 => F[k] = G0[k - 1] \o seqs[k]
        <5> HIDE DEF n
        <5> QED
          BY <1>6, <3>1
      <4> HIDE DEF n
      <4>2. \A k \in 1 .. n : F[k] = Row(G0, k)
        BY <3>2, <4>1
      <4> HIDE DEF Row
      <4> QED
        BY <4>2
    <3>4. Law(H)
      <4> HIDE DEF Law, G0
      <4> QED
        BY <3>3
    <3>5. FlattenSeq(seqs) = H[n]
      BY <2>2 DEF FlattenSeq
    <3> HIDE DEF H, G0
    <3>6. \A k \in 1 .. n : H[k] = Row(H, k)
      <4> HIDE DEF Row, n
      <4> QED
        BY <3>4
    <3> DEFINE P == {k \in 0 .. n : k # 0 => H[k] = F[k]}
    <3> HIDE DEF n
    <3>7. 0 \in P
      BY <1>1
    <3>8. ASSUME NEW k \in 0 .. n - 1, k \in P PROVE k + 1 \in P
      <4> DEFINE j == k + 1
      <4>1. j \in 1 .. n /\ j - 1 = k /\ j \in 0 .. n /\ (j = 1 <=> k = 0)
        BY <1>1
      <4>2. H[j] = Row(H, j) /\ F[j] = More(F[k], j)
        <5> HIDE DEF Row, More, j
        <5> QED
          BY <1>6, <3>6, <4>1
      <4> HIDE DEF j
      <4>3. CASE k = 0
        <5>1. j = 1 /\ H[j] = seqs[j]
          BY <4>1, <4>2, <4>3
        <5>2. H[j] = F[j]
          BY <3>2, <5>1
        <5> QED
          BY <4>1, <5>2 DEF j
      <4>4. CASE k # 0
        <5>1. H[j] = H[j - 1] \o seqs[j]
          BY <4>1, <4>2, <4>4
        <5>2. H[k] = F[k]
          BY <3>8, <4>4
        <5>3. H[j] = F[j]
          BY <4>1, <4>2, <5>1, <5>2
        <5> QED
          BY <4>1, <5>3 DEF j
      <4> QED
        BY <4>3, <4>4
    <3>9. \A k \in 0 .. n : k \in P
      <4> HIDE DEF P
      <4> QED
        BY <1>1, <3>7, <3>8, Upward
    <3> QED
      BY <1>1, <2>2, <3>5, <3>9
  <2> QED
    BY <2>1, <2>2
<1> HIDE DEF n
<1>8. Joins(F, S, seqs)
  BY <1>6, <1>7 DEF Joins, n
<1> QED
  BY <1>8

\* Sequences one after the other make a sequence.
LEMMA FlattenIs ==
    ASSUME NEW S, NEW seqs \in Seq(Seq(S))
    PROVE  FlattenSeq(seqs) \in Seq(S)
<1>1. PICK F : Joins(F, S, seqs)
  BY FlattenSteps
<1>2. Len(seqs) \in 0 .. Len(seqs)
  OBVIOUS
<1> QED
  BY <1>1, <1>2 DEF Joins

\* A sequence made by a rule for its places.
LEMMA MadeIs ==
    ASSUME NEW S, NEW m \in Int, NEW g \in [1 .. m -> S]
    PROVE  g \in Seq(S)
<1>1. CASE m \in Nat
  BY <1>1
<1>2. CASE m \notin Nat
  <2>1. 1 .. m = 1 .. 0
    BY <1>2
  <2>2. g \in [1 .. 0 -> S]
    BY <2>1
  <2> QED
    BY <2>2
<1> QED
  BY <1>1, <1>2

\* The order of pages is a sequence.
LEMMA DesiredIs == ASSUME NEW s \in Snapshots PROVE Desired(s) \in Seq(Int)
<1> DEFINE N0 == PageCount
           current == Least(s.anchor, N0 - 1)
           forward == N0 - 1 - current
           burst == Burst(forward)
           Reached(r) == Least(r * burst, forward)
           Ahead(r) == [i \in 1 .. Reached(r) - Reached(r - 1) |->
                           current + Reached(r - 1) + i]
           Behind(r) == IF r <= current THEN <<current - r>> ELSE <<>>
           rounds == [r \in 1 .. N0 |-> Ahead(r) \o Behind(r)]
           shown == Among(s.visible, 0 .. N0 - 1)
           all == shown \o <<current>> \o FlattenSeq(rounds)
<1>1. Desired(s) = IF N0 = 0 THEN <<>> ELSE Distinct(all)
  BY DEF Desired, DesiredSequence
<1>2. N0 \in Nat /\ s.anchor \in Nat /\ s.visible \in Seq(Nat)
  BY ConstantsAssumption
<1>3. current \in Int /\ forward \in Int
  BY <1>2 DEF Least
<1> HIDE DEF N0, current
<1>4. burst \in Int
  <2>1. forward \div 6 \in Int
    BY <1>3
  <2> HIDE DEF forward
  <2> QED
    BY <2>1 DEF Burst, Least
<1> HIDE DEF forward, burst
<1>5. \A r \in Int : Reached(r) \in Int
  BY <1>3, <1>4 DEF Least
<1> HIDE DEF Reached
<1>6. ASSUME NEW r \in 1 .. N0 PROVE Ahead(r) \o Behind(r) \in Seq(Int)
  <2> DEFINE from == Reached(r - 1)
             m == Reached(r) - Reached(r - 1)
             ahead == Ahead(r)
             behind == Behind(r)
  <2>1. r \in Int /\ r - 1 \in Int
    BY <1>2
  <2>2. from \in Int /\ m \in Int
    BY <1>5, <2>1
  <2>3. ahead = [i \in 1 .. m |-> current + from + i]
    OBVIOUS
  <2> HIDE DEF from, m, ahead
  <2>4. ahead \in [1 .. m -> Int]
    BY <1>3, <2>2, <2>3
  <2>5. ahead \in Seq(Int)
    BY <2>2, <2>4, MadeIs
  <2>6. behind \in Seq(Int)
    <3>1. <<current - r>> \in Seq(Int)
      BY <1>3, <2>1
    <3>2. <<>> \in Seq(Int)
      OBVIOUS
    <3> QED
      BY <3>1, <3>2, Zenon
  <2> HIDE DEF behind
  <2>7. ahead \o behind \in Seq(Int)
    BY <2>5, <2>6
  <2> QED
    BY <2>7 DEF ahead, behind
<1> HIDE DEF Ahead, Behind
<1>7. rounds \in Seq(Seq(Int))
  <2>1. rounds \in [1 .. N0 -> Seq(Int)]
    BY <1>6
  <2> HIDE DEF rounds
  <2> QED
    BY <1>2, <2>1, MadeIs
<1> HIDE DEF rounds
<1>8. FlattenSeq(rounds) \in Seq(Int)
  BY <1>7, FlattenIs
<1>9. shown \in Seq(Int)
  <2>1. s.visible \in Seq(Int)
    BY <1>2
  <2> QED
    BY <2>1, AmongFacts
<1> HIDE DEF shown
<1>10. all \in Seq(Int)
  <2>1. <<current>> \in Seq(Int)
    BY <1>3
  <2>2. shown \o <<current>> \in Seq(Int)
    BY <1>9, <2>1, ConcatIs
  <2> QED
    BY <1>8, <2>2, ConcatIs
<1> HIDE DEF all
<1>11. Distinct(all) \in Seq(Int)
  BY <1>10, DistinctIs
<1>12. <<>> \in Seq(Int)
  OBVIOUS
<1> QED
  BY <1>1, <1>11, <1>12, Zenon

-----------------------------------------------------------------------------
\* The cache is within its limit and has one entry of a page, none of a page that
\* is awaited; while one is, the limit is that of the snapshot.
CacheFine(entries, max, requests) ==
    /\ entries \in Seq(Entry) /\ max \in Nat
    /\ Lone(entries)
    /\ PagesIn(requests) \cap PagesOf(entries) = {}
    /\ BytesIn(entries) <= max
    /\ IsFiniteSet(requests)

CacheInv ==
    /\ CacheFine(cache, limit, inflight)
    /\ inflight # {} => limit = snapshot.max

\* The pages of some entries are those of a cache.
LEMMA FewerPages ==
    ASSUME NEW s \in Seq(Entry), NEW t \in Seq(Entry), ToSet(t) \subseteq ToSet(s)
    PROVE  PagesOf(t) \subseteq PagesOf(s)
<1>1. \A u : PagesOf(u) = {e.page : e \in ToSet(u)}
  BY DEF PagesOf, ToSet
<1> QED
  BY <1>1

\* What goes and what comes, from one cache to the next.
LEMMA GoneAndCome ==
    ASSUME NEW s \in Seq(Entry), NEW t \in Seq(Entry)
    PROVE  /\ {e \in ToSet(s) : ~Contains(t, e)} = ToSet(s) \ ToSet(t)
           /\ {e \in ToSet(t) : ~Contains(s, e)} = ToSet(t) \ ToSet(s)
BY ContainsIs

\* A step is justified if nothing comes and the pages on the screen go last.
LEMMA OnlyGone ==
    ASSUME cache \in Seq(Entry), cache' \in Seq(Entry), ToSet(cache') \subseteq ToSet(cache),
           \A e \in ToSet(cache) \ ToSet(cache'), f \in ToSet(cache') :
               e.page \in Protected(snapshot') => f.page \in Protected(snapshot')
    PROVE  EvictionJustified
<1> DEFINE gone == ToSet(cache) \ ToSet(cache')
           come == ToSet(cache') \ ToSet(cache)
<1>1. /\ {e \in ToSet(cache) : ~Contains(cache', e)} = gone
      /\ {e \in ToSet(cache') : ~Contains(cache, e)} = come
  BY GoneAndCome
<1>2. come = {}
  OBVIOUS
<1>3. \A u : PagesOf(u) = {e.page : e \in ToSet(u)}
  BY DEF PagesOf, ToSet
<1>4. ASSUME PagesOf(cache') \ Protected(snapshot') # {}
      PROVE  \A e \in gone : e.page \notin Protected(snapshot')
  <2>1. PICK p \in PagesOf(cache') : p \notin Protected(snapshot')
    BY <1>4
  <2>2. PICK f \in ToSet(cache') : f.page = p
    BY <1>3, <2>1
  <2> QED
    BY <2>1, <2>2
<1> HIDE DEF gone, come
<1> QED
  BY <1>1, <1>2, <1>4 DEF EvictionJustified

\* If the cache keeps its entries, whatever their order, nothing needs a reason.
LEMMA NothingGone ==
    ASSUME cache \in Seq(Entry), cache' \in Seq(Entry), ToSet(cache') = ToSet(cache)
    PROVE  EvictionJustified
BY OnlyGone

\* A request is made for a page of the plan.
LEMMA ChosenListed ==
    ASSUME NEW pages, NEW requests, NEW slot, NEW p \in Chosen(pages, requests, slot)
    PROVE  \E i \in DOMAIN pages : pages[i] = p
BY DEF Chosen

\* dispatch_streaming_pages asks for the pages chosen, and for finitely many.
LEMMA DispatchAdds ==
    ASSUME NEW s, NEW requests, IsFiniteSet(requests), NEW slot, NEW chosen,
           chosen \subseteq Pages, Dispatch(s, requests, slot, chosen)
    PROVE  /\ IsFiniteSet(inflight')
           /\ PagesIn(inflight') \subseteq PagesIn(requests) \cup chosen
<1> DEFINE given == {ShardOf(p) : p \in chosen}
           PageFor(h) == CHOOSE p \in chosen : ShardOf(p) = h
<1>1. PICK id \in FreshIds(given) :
        LET New(h) == [id |-> id[h], page |-> PageFor(h),
                       sig |-> SignatureOf[s.cond][PageFor(h)], cond |-> s.cond]
        IN  inflight' = requests \cup {New(h) : h \in given}
  BY DEF Dispatch
<1> DEFINE New(h) == [id |-> id[h], page |-> PageFor(h),
                       sig |-> SignatureOf[s.cond][PageFor(h)], cond |-> s.cond]
           made == {New(h) : h \in given}
           f == [h \in given |-> New(h)]
<1>2. inflight' = requests \cup made
  BY <1>1
<1>3. \A h \in given : New(h).page \in chosen
  <2> SUFFICES ASSUME NEW h \in given PROVE PageFor(h) \in chosen
    OBVIOUS
  <2>1. \E p \in chosen : ShardOf(p) = h
    OBVIOUS
  <2> QED
    BY <2>1
<1>4. IsFiniteSet(given)
  <2>1. given \subseteq Shards
    BY ShardOfPage
  <2>2. IsFiniteSet(Shards)
    <3>1. 0 \in Int /\ Workers - 1 \in Int
      BY ConstantsAssumption
    <3> QED
      BY <3>1, FS_Interval DEF Shards
  <2> HIDE DEF given
  <2> QED
    BY <2>1, <2>2, FS_Subset
<1> HIDE DEF given, New
<1>5. IsFiniteSet(made)
  <2>1. f \in Surjection(given, made)
    BY DEF Surjection
  <2> HIDE DEF f, made
  <2> QED
    BY <1>4, <2>1, FS_Surjection
<1>6. \A r \in made : r.page \in chosen
  BY <1>3
<1> HIDE DEF made
<1>7. IsFiniteSet(inflight')
  BY <1>2, <1>5, FS_Union
<1>8. PagesIn(inflight') \subseteq PagesIn(requests) \cup chosen
  BY <1>2, <1>6 DEF PagesIn
<1> QED
  BY <1>7, <1>8

\* pump_background_work keeps the cache fine, and what goes for the limit is
\* justified: the limit applies before the plan, and the plan asks for no page that
\* is cached.
LEMMA PumpFine ==
    ASSUME CacheInv, NEW s \in Snapshots, NEW full, NEW rejected,
           NEW requests, requests \subseteq inflight, requests # {} => limit = s.max,
           NEW slot, Pump(s, full, rejected, requests, slot), snapshot' = s
    PROVE  CacheInv' /\ EvictionJustified
<1>1. /\ cache \in Seq(Entry) /\ limit \in Nat /\ Lone(cache) /\ BytesIn(cache) <= limit
      /\ PagesIn(inflight) \cap PagesOf(cache) = {} /\ IsFiniteSet(inflight)
  BY DEF CacheInv, CacheFine
<1>2. IsFiniteSet(requests) /\ PagesIn(requests) \cap PagesOf(cache) = {}
  <2>1. IsFiniteSet(requests)
    BY <1>1, FS_Subset
  <2>2. PagesIn(requests) \subseteq PagesIn(inflight)
    BY DEF PagesIn
  <2> QED
    BY <1>1, <2>1, <2>2
<1>3. CASE s.paused
  <2>1. inflight' = requests /\ UNCHANGED <<cache, limit>>
    BY <1>3 DEF Pump
  <2>2. CacheInv'
    BY <1>1, <1>2, <2>1 DEF CacheInv, CacheFine
  <2> QED
    BY <1>1, <2>1, <2>2, NothingGone
<1>4. CASE ~s.paused
  <2> DEFINE kept == EvictToBudget(cache, s.max, Protected(s))
             plan == PlanFor(s, kept, full, rejected, requests)
             chosen == Chosen(plan.pages, requests, slot)
  <2>1. /\ Dispatch(s, requests, slot, chosen)
        /\ cache' = kept /\ limit' = s.max
    BY <1>4 DEF Pump
  <2>2. s.max \in Nat
    BY ConstantsAssumption
  <2>3. /\ kept \in Seq(Entry) /\ Lone(kept) /\ ToSet(kept) \subseteq ToSet(cache)
        /\ BytesIn(kept) <= s.max
        /\ \A e \in ToSet(cache) \ ToSet(kept), f \in ToSet(kept) :
             e.page \in Protected(s) => f.page \in Protected(s)
    BY <1>1, <2>2, EvictFacts
  <2> HIDE DEF kept
  <2>4. \A i \in DOMAIN plan.pages : plan.pages[i] \notin PagesOf(kept)
    <3> DEFINE spare == Workers - Cardinality(requests)
               most == 4 * (IF spare = 0 THEN 1 ELSE spare)
    <3>1. most \in Int
      <4>1. Cardinality(requests) \in Nat /\ Workers \in Nat
        BY <1>2, FS_CardinalityType, ConstantsAssumption
      <4> QED
        BY <4>1
    <3>2. Desired(s) \in Seq(Int)
      BY DesiredIs
    <3>3. plan = Plan(Desired(s), kept, s.max, full, most, PagesIn(requests),
                      {k.page : k \in rejected}, Protected(s), spare)
      BY DEF PlanFor
    <3> HIDE DEF plan, spare, most
    <3> QED
      BY <3>1, <3>2, <3>3, PlanIs
  <2> HIDE DEF plan
  <2>5. chosen \subseteq Pages /\ \A p \in chosen : p \notin PagesOf(kept)
    BY <2>4, ChosenFree, ChosenListed
  <2> HIDE DEF chosen
  <2>6. IsFiniteSet(inflight') /\ PagesIn(inflight') \subseteq PagesIn(requests) \cup chosen
    BY <1>2, <2>1, <2>5, DispatchAdds
  <2>7. PagesOf(kept) \subseteq PagesOf(cache)
    BY <1>1, <2>3, FewerPages
  <2>8. PagesIn(inflight') \cap PagesOf(kept) = {}
    BY <1>2, <2>5, <2>6, <2>7
  <2>9. CacheInv'
    BY <2>1, <2>2, <2>3, <2>6, <2>8 DEF CacheInv, CacheFine
  <2>10. EvictionJustified
    BY <1>1, <2>1, <2>3, OnlyGone
  <2> QED
    BY <2>9, <2>10
<1> QED
  BY <1>3, <1>4

LEMMA CacheInit == Init => CacheInv
<1> SUFFICES ASSUME Init PROVE CacheInv
  OBVIOUS
<1>1. cache = <<>> /\ limit = 0 /\ inflight = {}
  BY DEF Init
<1>2. cache \in Seq(Entry) /\ Lone(cache) /\ PagesOf(cache) = {}
  BY <1>1 DEF Lone, PagesOf
<1>3. BytesIn(cache) <= limit
  BY <1>1, BytesNone
<1>4. IsFiniteSet(inflight)
  BY <1>1, FS_EmptySet
<1> QED
  BY <1>1, <1>2, <1>3, <1>4 DEF CacheInv, CacheFine

\* A new snapshot: unless the limit changed the requests are kept.
LEMMA UpdateFine ==
    ASSUME Inv, CacheInv, Update
    PROVE  CacheInv' /\ EvictionJustified
<1> DEFINE s == Head(commands)
<1>1. commands # <<>> /\ snapshot' = s
  BY DEF Update, UpdateDue
<1>2. s \in Snapshots
  BY <1>1 DEF Inv, Typed
<1>3. CASE ResetRequired(s)
  <2>1. Pump(s, FALSE, {}, {}, [h \in Shards |-> None])
    BY <1>3 DEF Update
  <2> HIDE DEF s
  <2> QED
    BY <1>1, <1>2, <2>1, PumpFine
<1>4. CASE ~ResetRequired(s)
  <2>1. Pump(s, saturated, tooLarge, inflight, slots)
    BY <1>4 DEF Update
  <2>2. inflight # {} => limit = s.max
    BY <1>4 DEF ResetRequired, CacheInv
  <2> HIDE DEF s
  <2> QED
    BY <1>1, <1>2, <2>1, <2>2, PumpFine
<1> QED
  BY <1>3, <1>4

LEMMA RefillFine ==
    ASSUME Inv, CacheInv, Refill
    PROVE  CacheInv' /\ EvictionJustified
<1>1. UNCHANGED snapshot
  BY DEF Refill
<1>2. CASE refill
  <2>1. Pump(snapshot, saturated, tooLarge, inflight, slots)
    BY <1>2 DEF Refill
  <2>2. snapshot \in Snapshots
    BY <1>2 DEF Inv, Typed, Idle
  <2>3. inflight # {} => limit = snapshot.max
    BY DEF CacheInv
  <2> QED
    BY <1>1, <2>1, <2>2, <2>3, PumpFine
<1>3. CASE ~refill
  <2>1. UNCHANGED <<inflight, cache, limit>>
    BY <1>3 DEF Refill, cacheVars
  <2>2. CacheInv'
    BY <1>1, <2>1 DEF CacheInv
  <2>3. cache \in Seq(Entry)
    BY DEF CacheInv, CacheFine
  <2> QED
    BY <2>1, <2>2, <2>3, NothingGone
<1> QED
  BY <1>2, <1>3

\* An entry looked at is as good as before.
LEMMA LookUpFine ==
    ASSUME Inv, CacheInv, LookUp
    PROVE  CacheInv' /\ EvictionJustified
<1>1. PICK e \in ToSet(cache) : cache' = TouchEntry(cache, e)
  BY DEF LookUp
<1>2. UNCHANGED <<snapshot, inflight, limit>>
  BY DEF LookUp, planVars
<1>3. CacheFine(cache, limit, inflight)
  BY DEF CacheInv
<1>4. cache \in Seq(Entry) /\ Lone(cache)
  BY <1>3 DEF CacheFine
<1>5. /\ cache' \in Seq(Entry) /\ Lone(cache')
      /\ ToSet(cache') = ToSet(cache) /\ BytesIn(cache') = BytesIn(cache)
  BY <1>1, <1>4, TouchFacts
<1>6. PagesOf(cache') = PagesOf(cache)
  BY <1>4, <1>5, FewerPages, ZenonT(60)
<1>7. CacheFine(cache', limit', inflight')
  BY <1>2, <1>3, <1>5, <1>6 DEF CacheFine
<1>8. CacheInv'
  BY <1>2, <1>7 DEF CacheInv
<1> QED
  BY <1>4, <1>5, <1>8, NothingGone

\* A decoded page that is weighed: it is not cached, and the limit is the
\* snapshot's, so that what goes goes for it.
LEMMA AdmitFine ==
    ASSUME Inv, CacheInv, NEW r \in inflight, Admit(r), UNCHANGED snapshot,
           inflight' = inflight \ {r}
    PROVE  CacheInv' /\ EvictionJustified
<1> DEFINE protected == Protected(snapshot)
           entry == [page |-> r.page, sig |-> r.sig, bytes |-> BytesOf[r.page][r.sig]]
           desired == Desired(snapshot)
           max == snapshot.max
           kept == EvictToBudget(cache, max, protected)
           verdict == Admission(desired, kept, max, entry, protected)
           with == InsertEntry(kept, entry, max, verdict.evict, protected)
<1>1. /\ cache \in Seq(Entry) /\ Lone(cache) /\ BytesIn(cache) <= limit /\ limit = max
      /\ PagesIn(inflight) \cap PagesOf(cache) = {} /\ IsFiniteSet(inflight)
  BY DEF CacheInv, CacheFine
<1>2. snapshot \in Snapshots /\ r \in Request
  BY DEF Inv, Typed, Idle
<1>3. max \in Nat /\ desired \in Seq(Int)
  BY <1>2, ConstantsAssumption, DesiredIs
<1>4. entry \in Entry
  BY <1>2, ConstantsAssumption DEF Request, Entry
<1>5. r.page \notin PagesOf(cache)
  BY <1>1 DEF PagesIn
<1>6. entry.page = r.page
  OBVIOUS
<1>7. \/ cache' = kept
      \/ cache' = with
  BY DEF Admit
<1>8. limit' = max
  BY DEF Admit
<1> HIDE DEF entry, protected, desired, max
<1>9. /\ kept \in Seq(Entry) /\ Lone(kept) /\ ToSet(kept) = ToSet(cache)
      /\ BytesIn(kept) <= max
  BY <1>1, <1>3, EvictFacts
<1> HIDE DEF kept
<1>10. PagesOf(kept) = PagesOf(cache)
  <2>1. \A u : PagesOf(u) = {e.page : e \in ToSet(u)}
    BY DEF PagesOf, ToSet
  <2> QED
    BY <1>9, <2>1
<1>11. /\ verdict.evict \in Seq(Int)
       /\ \A p \in ToSet(verdict.evict) : Below(p, entry.page, desired, protected)
  BY <1>3, <1>4, <1>9, AdmissionIs
<1> HIDE DEF verdict
<1>12. /\ with \in Seq(Entry) /\ Lone(with) /\ ToSet(with) \subseteq ToSet(kept) \cup {entry}
       /\ BytesIn(with) <= max
       /\ \A x \in ToSet(kept) \ ToSet(with) :
            x.page \in ToSet(verdict.evict) /\ x.page \notin protected
  BY <1>3, <1>4, <1>5, <1>6, <1>9, <1>10, <1>11, InsertFacts
<1> HIDE DEF with
<1>13. /\ cache' \in Seq(Entry) /\ Lone(cache')
       /\ ToSet(cache') \subseteq ToSet(cache) \cup {entry}
       /\ BytesIn(cache') <= max
       /\ \A x \in ToSet(cache) \ ToSet(cache') :
            /\ x.page \notin protected
            /\ Rank(desired, entry.page) < Rank(desired, x.page)
  BY <1>7, <1>9, <1>11, <1>12 DEF Below
<1>14. PagesOf(cache') \subseteq PagesOf(cache) \cup {r.page}
  <2>1. \A u : PagesOf(u) = {e.page : e \in ToSet(u)}
    BY DEF PagesOf, ToSet
  <2> QED
    BY <1>6, <1>13, <2>1
<1>15. \A q \in inflight' : q.page # r.page
  BY <1>2 DEF Inv, Kept
<1>16. PagesIn(inflight') \cap PagesOf(cache') = {}
  <2>1. \A q \in inflight' : q.page \notin PagesOf(cache')
    BY <1>1, <1>14, <1>15 DEF PagesIn
  <2> QED
    BY <2>1 DEF PagesIn
<1>17. IsFiniteSet(inflight')
  BY <1>1, FS_Subset
<1>18. CacheInv'
  BY <1>3, <1>8, <1>13, <1>16, <1>17 DEF CacheInv, CacheFine, max
<1>19. EvictionJustified
  <2> DEFINE gone == ToSet(cache) \ ToSet(cache')
             come == ToSet(cache') \ ToSet(cache)
  <2>1. /\ {e \in ToSet(cache) : ~Contains(cache', e)} = gone
        /\ {e \in ToSet(cache') : ~Contains(cache, e)} = come
    BY <1>1, <1>13, GoneAndCome
  <2>2. come \subseteq {entry}
    BY <1>13
  <2>3. Protected(snapshot') = protected /\ Desired(snapshot') = desired
    BY DEF protected, desired
  <2>4. \A e \in gone : /\ e.page \notin Protected(snapshot')
                        /\ Rank(desired, entry.page) < Rank(desired, e.page)
    BY <1>13, <2>3
  <2>5. \A e \in gone, f \in come :
          /\ e.page \notin Protected(snapshot')
          /\ Rank(Desired(snapshot'), f.page) < Rank(Desired(snapshot'), e.page)
    BY <2>2, <2>3, <2>4
  <2> HIDE DEF gone, come
  <2> QED
    BY <2>1, <2>4, <2>5 DEF EvictionJustified
<1> QED
  BY <1>18, <1>19

LEMMA HandleFine ==
    ASSUME Inv, CacheInv, Handle
    PROVE  CacheInv' /\ EvictionJustified
<1> DEFINE r == Head(results)
<1>1. results # <<>> /\ UNCHANGED snapshot
  BY DEF Handle, HandleDue
<1>2. cache \in Seq(Entry) /\ CacheFine(cache, limit, inflight) /\ IsFiniteSet(inflight)
  BY DEF CacheInv, CacheFine
<1>3. r \in ToSet(results)
  BY <1>1, RestOfResults DEF Inv, Typed
<1>4. \A q \in inflight : q.id = r.id => q = r
  <2>1. inflight \subseteq Mentioned /\ ToSet(results) \subseteq Mentioned
    BY MentionedFacts DEF Inv
  <2> QED
    BY <1>3, <2>1 DEF Inv, IdsUnique
<1>5. ASSUME UNCHANGED <<cache, limit>>, inflight' \subseteq inflight
      PROVE  CacheInv' /\ EvictionJustified
  <2>1. IsFiniteSet(inflight')
    BY <1>2, <1>5, FS_Subset
  <2>2. PagesIn(inflight') \subseteq PagesIn(inflight)
    BY <1>5 DEF PagesIn
  <2>3. CacheInv'
    BY <1>1, <1>5, <2>1, <2>2 DEF CacheInv, CacheFine
  <2> QED
    BY <1>2, <1>5, <2>3, NothingGone
<1>6. CASE Answered(r) = {}
  <2>1. UNCHANGED <<cache, limit, inflight>>
    BY <1>6 DEF Handle, Ignore
  <2> QED
    BY <1>5, <2>1
<1>7. CASE Answered(r) # {}
  <2>1. inflight' = inflight \ Answered(r) /\ (Ignore \/ Admit(r))
    BY <1>7 DEF Handle
  <2>2. Answered(r) = {r} /\ r \in inflight
    BY <1>4, <1>7 DEF Answered
  <2>3. CASE Ignore
    <3>1. UNCHANGED <<cache, limit>>
      BY <2>3 DEF Ignore
    <3> QED
      BY <1>5, <2>1, <3>1
  <2>4. CASE Admit(r)
    <3> HIDE DEF r
    <3> QED
      BY <1>1, <2>1, <2>2, <2>4, AdmitFine
  <2> QED
    BY <2>1, <2>3, <2>4
<1> QED
  BY <1>6, <1>7

\* Every step keeps the cache fine, and is justified in what it gives up.
LEMMA CacheNext ==
    ASSUME Inv, CacheInv, [Next]_vars
    PROVE  CacheInv' /\ [EvictionJustified]_vars
<1>1. ASSUME UNCHANGED <<cache, limit, inflight, snapshot>>
      PROVE  CacheInv' /\ EvictionJustified
  <2>1. CacheInv'
    BY <1>1 DEF CacheInv
  <2>2. cache \in Seq(Entry)
    BY DEF CacheInv, CacheFine
  <2> QED
    BY <1>1, <2>1, <2>2, NothingGone
<1>2. CASE Act
  BY <1>1, <1>2 DEF Act, planVars, cacheVars
<1>3. CASE Publish
  BY <1>1, <1>3 DEF Publish, planVars, cacheVars
<1>4. CASE LookUp
  BY <1>4, LookUpFine
<1>5. CASE Update
  BY <1>5, UpdateFine
<1>6. CASE Handle
  BY <1>6, HandleFine
<1>7. CASE Refill
  BY <1>7, RefillFine
<1>8. ASSUME NEW s \in Shards, Take(s) \/ Finish(s)
      PROVE  CacheInv' /\ EvictionJustified
  BY <1>1, <1>8 DEF Take, Finish, planVars, cacheVars
<1>9. CASE UNCHANGED vars
  <2>1. UNCHANGED <<cache, limit, inflight, snapshot>>
    BY <1>9 DEF vars, planVars, cacheVars
  <2> QED
    BY <1>1, <2>1
<1> QED
  BY <1>2, <1>3, <1>4, <1>5, <1>6, <1>7, <1>8, <1>9 DEF Next

\* A cache with one entry of a page has as many pages as entries.
LEMMA PagesCounted ==
    ASSUME NEW s \in Seq(Entry), Lone(s)
    PROVE  Cardinality(PagesOf(s)) = Len(s)
<1> DEFINE n == Len(s)
           f == [i \in 1 .. n |-> s[i].page]
<1>1. n \in Nat /\ DOMAIN s = 1 .. n
  OBVIOUS
<1>2. f \in Bijection(1 .. n, PagesOf(s))
  BY <1>1 DEF Bijection, Injection, IsInjective, Surjection, PagesOf, Lone
<1> HIDE DEF f, n
<1>3. ExistsBijection(1 .. n, PagesOf(s))
  BY <1>2 DEF ExistsBijection
<1> QED
  BY <1>1, <1>3, FS_CountingElements DEF n

LEMMA CacheInvHolds == Spec => [](Inv /\ CacheInv)
BY InvInit, InvNext, CacheInit, CacheNext, PTL DEF Spec

\* A page is decoded for the cache once, what is cached of a page is one entry, and
\* the cache is within the limit it was given last.
THEOREM CacheSoundHolds == Spec => []CacheSound
<1>1. CacheInv => CacheSound
  BY PagesCounted DEF CacheInv, CacheFine, CacheSound
<1> QED
  BY <1>1, CacheInvHolds, PTL

\* Pages leave the cache for one the present order puts before them, which stays,
\* or to meet the limit, those on the screen last.
THEOREM EvictionsHold == Spec => Evictions
<1>1. Inv /\ CacheInv /\ [Next]_vars => [EvictionJustified]_vars
  BY CacheNext
<1> QED
  BY <1>1, CacheInvHolds, PTL DEF Spec, Evictions

(***************************************************************************)
(* The order in which pages are wanted.  Each page has a key: one on the   *)
(* screen its number less the length of the book, another the number of    *)
(* pages that are wanted before it.  A sequence rises when what it brings  *)
(* for the first time has a greater key than all before it; a round of the *)
(* order is sorted, and above the rounds before it but for pages that are  *)
(* on the screen, so that the rounds together rise and Distinct makes them *)
(* sorted.  They reach every page, and in a sorted sequence the rank goes  *)
(* by the key.                                                             *)
(***************************************************************************)
\* A sequence is in the order of a key.
Sorted(s, key) == \A i, j \in 1 .. Len(s) : i < j => key[s[i]] < key[s[j]]

\* What a sequence brings for the first time has a greater key than all before it.
Rising(s, key) ==
    \A j \in 1 .. Len(s) :
        (\A h \in 1 .. j - 1 : s[h] # s[j]) => \A h \in 1 .. j - 1 : key[s[h]] < key[s[j]]

\* A sorted sequence stays so when something greater is added.
LEMMA SortedAppend ==
    ASSUME NEW S, NEW s \in Seq(S), NEW x \in S, NEW key, Sorted(s, key),
           \A y \in ToSet(s) : key[y] < key[x]
    PROVE  Sorted(Append(s, x), key)
<1> DEFINE t == Append(s, x)
<1>1. /\ Len(t) = Len(s) + 1 /\ Len(s) \in Nat /\ DOMAIN s = 1 .. Len(s)
      /\ t[Len(s) + 1] = x /\ \A i \in 1 .. Len(s) : t[i] = s[i]
  BY AppendIs
<1> HIDE DEF t
<1>2. ASSUME NEW i \in 1 .. Len(t), NEW j \in 1 .. Len(t), i < j
      PROVE  key[t[i]] < key[t[j]]
  <2>1. i \in 1 .. Len(s)
    BY <1>1, <1>2
  <2>2. t[i] = s[i] /\ s[i] \in ToSet(s)
    BY <1>1, <2>1 DEF ToSet
  <2>3. CASE j = Len(s) + 1
    BY <1>1, <2>2, <2>3
  <2>4. CASE j # Len(s) + 1
    <3>1. j \in 1 .. Len(s)
      BY <1>1, <2>4
    <3>2. t[j] = s[j]
      BY <1>1, <3>1
    <3> QED
      BY <1>2, <2>1, <2>2, <3>1, <3>2 DEF Sorted
  <2> QED
    BY <2>3, <2>4
<1> QED
  BY <1>2 DEF Sorted, t

\* A selection of a sorted sequence is sorted.
LEMMA AmongSorted ==
    ASSUME NEW S, NEW s \in Seq(S), NEW wanted, NEW key, Sorted(s, key)
    PROVE  Sorted(Among(s, wanted), key)
<1> DEFINE n == Len(s)
<1>1. n \in Nat /\ DOMAIN s = 1 .. n /\ \A k \in 1 .. n : s[k] \in S
  OBVIOUS
<1>2. PICK F : Picks(F, S, s, wanted)
  BY AmongIs
<1>3. /\ F \in [0 .. n -> Seq(S)] /\ F[0] = <<>>
      /\ \A k \in 1 .. n :
           F[k] = IF s[k] \in wanted THEN Append(F[k - 1], s[k]) ELSE F[k - 1]
      /\ Among(s, wanted) = F[n]
  BY <1>2 DEF Picks
<1> DEFINE Seen(k) == {s[i] : i \in 1 .. k}
           P == {k \in 0 .. n : Sorted(F[k], key) /\ ToSet(F[k]) \subseteq Seen(k)}
<1>4. 0 \in P
  <2>1. ToSet(F[0]) = {} /\ Sorted(F[0], key) /\ 0 \in 0 .. n
    BY <1>1, <1>3 DEF ToSet, Sorted
  <2> QED
    BY <2>1
<1> HIDE DEF n
<1>5. ASSUME NEW k \in 0 .. n - 1, k \in P PROVE k + 1 \in P
  <2> DEFINE j == k + 1
  <2>1. j \in 1 .. n /\ j - 1 = k /\ j \in 0 .. n /\ k \in 0 .. n /\ \A i \in 1 .. k : i \in 1 .. n /\ i < j /\ i \in 1 .. j
    BY <1>1
  <2>2. Sorted(F[k], key) /\ ToSet(F[k]) \subseteq Seen(k) /\ F[k] \in Seq(S) /\ s[j] \in S
    BY <1>1, <1>3, <1>5, <2>1
  <2>3. j \in 1 .. j
    BY <2>1
  <2> HIDE DEF j
  <2>4. F[j] = IF s[j] \in wanted THEN Append(F[k], s[j]) ELSE F[k]
    BY <1>3, <2>1
  <2>5. Seen(k) \subseteq Seen(j) /\ s[j] \in Seen(j)
    BY <2>1, <2>3
  <2>6. \A y \in Seen(k) : key[y] < key[s[j]]
    BY <2>1 DEF Sorted, n
  <2> HIDE DEF Seen
  <2>7. CASE s[j] \in wanted
    <3>1. F[j] = Append(F[k], s[j])
      BY <2>4, <2>7
    <3>2. Sorted(F[j], key)
      BY <2>2, <2>6, <3>1, SortedAppend
    <3>3. ToSet(F[j]) = ToSet(F[k]) \cup {s[j]}
      BY <2>2, <3>1, AppendIs
    <3> QED
      BY <2>1, <2>2, <2>5, <3>2, <3>3 DEF j
  <2>8. CASE s[j] \notin wanted
    BY <2>1, <2>2, <2>4, <2>5, <2>8 DEF j
  <2> QED
    BY <2>7, <2>8
<1>6. \A k \in 0 .. n : k \in P
  <2> HIDE DEF P
  <2> QED
    BY <1>1, <1>4, <1>5, Upward
<1> QED
  BY <1>1, <1>3, <1>6

\* To a rising sequence a sorted one is added, whose elements are not new or greater.
LEMMA RisingConcat ==
    ASSUME NEW S, NEW s \in Seq(S), NEW t \in Seq(S), NEW key,
           Rising(s, key), Sorted(t, key),
           \A x \in ToSet(t) : x \in ToSet(s) \/ \A y \in ToSet(s) : key[y] < key[x]
    PROVE  Rising(s \o t, key)
<1> DEFINE w == s \o t
<1>1. /\ Len(s) \in Nat /\ Len(t) \in Nat /\ Len(w) = Len(s) + Len(t)
      /\ DOMAIN s = 1 .. Len(s) /\ DOMAIN t = 1 .. Len(t)
      /\ \A i \in 1 .. Len(s) : w[i] = s[i]
      /\ \A i \in 1 .. Len(t) : w[Len(s) + i] = t[i]
  BY ConcatIs
<1> HIDE DEF w
<1>2. ASSUME NEW j \in 1 .. Len(w), \A h \in 1 .. j - 1 : w[h] # w[j], NEW h \in 1 .. j - 1
      PROVE  key[w[h]] < key[w[j]]
  <2>1. CASE j \in 1 .. Len(s)
    <3>1. \A g \in 1 .. j - 1 : g \in 1 .. Len(s) /\ w[g] = s[g]
      BY <1>1, <2>1
    <3>2. w[j] = s[j] /\ w[h] = s[h]
      BY <1>1, <2>1, <3>1
    <3>3. \A g \in 1 .. j - 1 : s[g] # s[j]
      BY <1>2, <3>1, <3>2
    <3> QED
      BY <2>1, <3>2, <3>3 DEF Rising
  <2>2. CASE j \notin 1 .. Len(s)
    <3> DEFINE k == j - Len(s)
    <3>1. k \in 1 .. Len(t) /\ Len(s) + k = j /\ \A g \in 1 .. Len(s) : g \in 1 .. j - 1
      BY <1>1, <2>2
    <3> HIDE DEF k
    <3>2. w[j] = t[k] /\ t[k] \in ToSet(t)
      BY <1>1, <3>1 DEF ToSet
    <3>3. t[k] \notin ToSet(s)
      <4> SUFFICES ASSUME NEW g \in 1 .. Len(s), t[k] = s[g] PROVE FALSE
        BY <1>1 DEF ToSet
      <4>1. w[g] = w[j] /\ g \in 1 .. j - 1
        BY <1>1, <3>1, <3>2
      <4> QED
        BY <1>2, <4>1
    <3>4. CASE h \in 1 .. Len(s)
      <4>1. w[h] \in ToSet(s)
        BY <1>1, <3>4 DEF ToSet
      <4> QED
        BY <3>2, <3>3, <4>1
    <3>5. CASE h \notin 1 .. Len(s)
      <4> DEFINE g == h - Len(s)
      <4>1. g \in 1 .. Len(t) /\ Len(s) + g = h /\ g < k
        BY <1>1, <3>1, <3>5
      <4> HIDE DEF g
      <4>2. w[h] = t[g]
        BY <1>1, <4>1
      <4> QED
        BY <3>1, <3>2, <4>1, <4>2 DEF Sorted
    <3> QED
      BY <3>4, <3>5
  <2> QED
    BY <2>1, <2>2
<1> QED
  BY <1>2 DEF Rising, w

\* A sorted sequence is rising.
LEMMA SortedRises == ASSUME NEW S, NEW s \in Seq(S), NEW key, Sorted(s, key) PROVE Rising(s, key)
<1>1. \A j \in 1 .. Len(s) : \A h \in 1 .. j - 1 : h \in 1 .. Len(s) /\ h < j
  OBVIOUS
<1> QED
  BY <1>1 DEF Sorted, Rising

\* What Distinct makes of a rising sequence has its elements, sorted.
LEMMA DistinctSorted ==
    ASSUME NEW S, NEW s \in Seq(S), NEW key, Rising(s, key)
    PROVE  ToSet(Distinct(s)) = ToSet(s) /\ Sorted(Distinct(s), key)
<1> DEFINE n == Len(s)
<1>1. n \in Nat /\ DOMAIN s = 1 .. n /\ \A k \in 1 .. n : s[k] \in S
  OBVIOUS
<1>2. PICK F : Sifts(F, S, s)
  BY DistinctSteps
<1>3. /\ F \in [0 .. n -> Seq(S)] /\ F[0] = <<>>
      /\ \A k \in 1 .. n :
           F[k] = IF Contains(F[k - 1], s[k]) THEN F[k - 1] ELSE Append(F[k - 1], s[k])
      /\ Distinct(s) = F[n]
  BY <1>2 DEF Sifts
<1> DEFINE Seen(k) == {s[i] : i \in 1 .. k}
           P == {k \in 0 .. n : Sorted(F[k], key) /\ ToSet(F[k]) = Seen(k)}
<1>4. 0 \in P
  <2>1. ToSet(F[0]) = {} /\ Seen(0) = {} /\ Sorted(F[0], key) /\ 0 \in 0 .. n
    BY <1>1, <1>3 DEF ToSet, Sorted
  <2> QED
    BY <2>1
<1> HIDE DEF n
<1>5. ASSUME NEW k \in 0 .. n - 1, k \in P PROVE k + 1 \in P
  <2> DEFINE j == k + 1
  <2>1. j \in 1 .. n /\ j - 1 = k /\ j \in 0 .. n /\ k \in 0 .. n
        /\ \A i : i \in 1 .. j <=> i \in 1 .. k \/ i = j
    BY <1>1
  <2>2. Sorted(F[k], key) /\ ToSet(F[k]) = Seen(k) /\ F[k] \in Seq(S) /\ s[j] \in S
    BY <1>1, <1>3, <1>5, <2>1
  <2> HIDE DEF j
  <2>3. F[j] = IF Contains(F[k], s[j]) THEN F[k] ELSE Append(F[k], s[j])
    BY <1>3, <2>1
  <2>4. Seen(j) = Seen(k) \cup {s[j]}
    BY <2>1
  <2>5. Contains(F[k], s[j]) <=> s[j] \in Seen(k)
    BY <2>2, ContainsIs
  <2>6. s[j] \notin Seen(k) => \A y \in Seen(k) : key[y] < key[s[j]]
    <3> SUFFICES ASSUME s[j] \notin Seen(k) PROVE \A y \in Seen(k) : key[y] < key[s[j]]
      OBVIOUS
    <3>1. \A h \in 1 .. j - 1 : s[h] # s[j]
      BY <2>1
    <3>2. \A h \in 1 .. k : key[s[h]] < key[s[j]]
      BY <2>1, <3>1 DEF Rising, n
    <3> QED
      BY <3>2
  <2> HIDE DEF Seen
  <2>7. CASE s[j] \notin Seen(k)
    <3>1. F[j] = Append(F[k], s[j])
      BY <2>3, <2>5, <2>7
    <3>2. Sorted(F[j], key)
      BY <2>2, <2>6, <2>7, <3>1, SortedAppend
    <3>3. ToSet(F[j]) = ToSet(F[k]) \cup {s[j]}
      BY <2>2, <3>1, AppendIs
    <3> QED
      BY <2>1, <2>2, <2>4, <3>2, <3>3 DEF j
  <2>8. CASE s[j] \in Seen(k)
    BY <2>1, <2>2, <2>3, <2>4, <2>5, <2>8 DEF j
  <2> QED
    BY <2>7, <2>8
<1>6. \A k \in 0 .. n : k \in P
  <2> HIDE DEF P
  <2> QED
    BY <1>1, <1>4, <1>5, Upward
<1>7. n \in 0 .. n /\ Seen(n) = ToSet(s)
  BY <1>1 DEF ToSet
<1> QED
  BY <1>3, <1>6, <1>7

\* In a sorted sequence every element is once, and the rank goes by the key.
LEMMA SortedRank ==
    ASSUME NEW S, NEW s \in Seq(S), NEW key \in [S -> Int], Sorted(s, key)
    PROVE  /\ Cardinality(ToSet(s)) = Len(s)
           /\ \A p, q \in ToSet(s) : Rank(s, p) < Rank(s, q) <=> key[p] < key[q]
<1> DEFINE n == Len(s)
           f == [i \in 1 .. n |-> s[i]]
<1>1. n \in Nat /\ DOMAIN s = 1 .. n /\ \A k \in 1 .. n : s[k] \in S /\ key[s[k]] \in Int
  OBVIOUS
<1>2. \A i, j \in 1 .. n : s[i] = s[j] => i = j
  <2> SUFFICES ASSUME NEW i \in 1 .. n, NEW j \in 1 .. n, s[i] = s[j], i # j PROVE FALSE
    OBVIOUS
  <2>1. i < j \/ j < i
    OBVIOUS
  <2> QED
    BY <1>1, <2>1 DEF Sorted
<1>3. f \in Bijection(1 .. n, ToSet(s))
  BY <1>1, <1>2 DEF Bijection, Injection, IsInjective, Surjection, ToSet
<1>4. Cardinality(ToSet(s)) = n
  <2> HIDE DEF f, n
  <2>1. ExistsBijection(1 .. n, ToSet(s))
    BY <1>3 DEF ExistsBijection
  <2> QED
    BY <1>1, <2>1, FS_CountingElements
<1>5. \A p \in ToSet(s) : Rank(s, p) \in 1 .. n /\ s[Rank(s, p)] = p
  <2> SUFFICES ASSUME NEW p \in ToSet(s) PROVE Rank(s, p) \in 1 .. n /\ s[Rank(s, p)] = p
    OBVIOUS
  <2>1. Contains(s, p) /\ \E i \in DOMAIN s : s[i] = p
    BY <1>1, ContainsIs DEF ToSet
  <2>2. Rank(s, p) = CHOOSE i \in DOMAIN s : s[i] = p
    BY <2>1 DEF Rank
  <2> QED
    BY <1>1, <2>1, <2>2
<1>6. ASSUME NEW p \in ToSet(s), NEW q \in ToSet(s)
      PROVE  Rank(s, p) < Rank(s, q) <=> key[p] < key[q]
  <2> DEFINE i == Rank(s, p)
             j == Rank(s, q)
  <2>1. i \in 1 .. n /\ j \in 1 .. n /\ s[i] = p /\ s[j] = q
    BY <1>5
  <2> HIDE DEF i, j
  <2>2. key[p] \in Int /\ key[q] \in Int
    BY <1>1, <2>1
  <2>3. i < j => key[p] < key[q]
    BY <2>1 DEF Sorted
  <2>4. j < i => key[q] < key[p]
    BY <2>1 DEF Sorted
  <2>5. i = j => p = q
    BY <2>1
  <2>6. i < j <=> key[p] < key[q]
    BY <2>1, <2>2, <2>3, <2>4, <2>5
  <2> QED
    BY <2>6 DEF i, j
<1> QED
  BY <1>4, <1>6

\* One sorted sequence after another, whose elements are greater.
LEMMA SortedConcat ==
    ASSUME NEW S, NEW s \in Seq(S), NEW t \in Seq(S), NEW key, Sorted(s, key), Sorted(t, key),
           \A x \in ToSet(s), y \in ToSet(t) : key[x] < key[y]
    PROVE  Sorted(s \o t, key)
<1> DEFINE w == s \o t
<1>1. /\ Len(s) \in Nat /\ Len(t) \in Nat /\ Len(w) = Len(s) + Len(t)
      /\ DOMAIN s = 1 .. Len(s) /\ DOMAIN t = 1 .. Len(t)
      /\ \A i \in 1 .. Len(s) : w[i] = s[i]
      /\ \A i \in 1 .. Len(t) : w[Len(s) + i] = t[i]
  BY ConcatIs
<1> HIDE DEF w
<1>2. ASSUME NEW i \in 1 .. Len(w), NEW j \in 1 .. Len(w), i < j
      PROVE  key[w[i]] < key[w[j]]
  <2>1. CASE j \in 1 .. Len(s)
    <3>1. i \in 1 .. Len(s)
      BY <1>1, <1>2, <2>1
    <3> QED
      BY <1>1, <1>2, <2>1, <3>1 DEF Sorted
  <2>2. CASE j \notin 1 .. Len(s)
    <3> DEFINE k == j - Len(s)
    <3>1. k \in 1 .. Len(t) /\ Len(s) + k = j
      BY <1>1, <2>2
    <3> HIDE DEF k
    <3>2. w[j] = t[k] /\ t[k] \in ToSet(t)
      BY <1>1, <3>1 DEF ToSet
    <3>3. CASE i \in 1 .. Len(s)
      <4>1. w[i] = s[i] /\ s[i] \in ToSet(s)
        BY <1>1, <3>3 DEF ToSet
      <4> QED
        BY <3>2, <4>1
    <3>4. CASE i \notin 1 .. Len(s)
      <4> DEFINE g == i - Len(s)
      <4>1. g \in 1 .. Len(t) /\ Len(s) + g = i /\ g < k
        BY <1>1, <1>2, <3>1, <3>4
      <4> HIDE DEF g
      <4>2. w[i] = t[g]
        BY <1>1, <4>1
      <4> QED
        BY <3>1, <3>2, <4>1, <4>2 DEF Sorted
    <3> QED
      BY <3>3, <3>4
  <2> QED
    BY <2>1, <2>2
<1> QED
  BY <1>2 DEF Sorted, w

\* The quotient by a burst.
LEMMA DivIs ==
    ASSUME NEW b \in 1 .. 12, NEW r \in Nat, NEW x \in Nat, r * b <= x, x < r * b + b
    PROVE  x \div b = r
<1>1. CASE b = 1
  BY <1>1
<1>2. CASE b = 2
  BY <1>2
<1>3. CASE b = 3
  BY <1>3
<1>4. CASE b = 4
  BY <1>4
<1>5. CASE b = 5
  BY <1>5
<1>6. CASE b = 6
  BY <1>6
<1>7. CASE b = 7
  BY <1>7
<1>8. CASE b = 8
  BY <1>8
<1>9. CASE b = 9
  BY <1>9
<1>10. CASE b = 10
  BY <1>10
<1>11. CASE b = 11
  BY <1>11
<1>12. CASE b = 12
  BY <1>12
<1> QED
  BY <1>1, <1>2, <1>3, <1>4, <1>5, <1>6, <1>7, <1>8, <1>9, <1>10, <1>11, <1>12

\* How far ahead so many bursts reach.
Reach(r, b, f) == Least(r * b, f)

LEMMA Reaching ==
    ASSUME NEW b \in 1 .. 12, NEW f \in Nat, NEW r \in Nat \ {0}
    PROVE  /\ Reach(r, b, f) \in Nat /\ Reach(r - 1, b, f) \in Nat
           /\ Reach(r - 1, b, f) <= Reach(r, b, f) /\ Reach(r, b, f) <= f
           /\ f < r => Reach(r, b, f) = f
           /\ Reach(0, b, f) = 0
           /\ Reach(r - 1, b, f) = (IF (r - 1) * b < f THEN (r - 1) * b ELSE f)
           /\ Reach(r, b, f) <= (r - 1) * b + b
<1> DEFINE before == (r - 1) * b
           now == r * b
<1>1. before \in Nat /\ now \in Nat /\ now = before + b /\ 0 * b = 0 /\ now >= r
  <2>1. now = before + b
    OBVIOUS
  <2>2. before \in Nat
    OBVIOUS
  <2>3. 0 * b = 0
    OBVIOUS
  <2>4. before >= r - 1
    <3> DEFINE c == b - 1
    <3>1. (r - 1) * c \in Nat
      OBVIOUS
    <3>2. (r - 1) * c = before - (r - 1)
      OBVIOUS
    <3> HIDE DEF c
    <3>3. before - (r - 1) \in Nat
      BY <3>1, <3>2
    <3> QED
      BY <2>2, <3>3
  <2> QED
    BY <2>1, <2>2, <2>3, <2>4
<1> HIDE DEF before, now
<1>2. Reach(r - 1, b, f) = (IF before < f THEN before ELSE f)
      /\ Reach(r, b, f) = IF now < f THEN now ELSE f
  BY DEF Reach, Least, before, now
<1>3. Reach(0, b, f) = 0
  BY <1>1 DEF Reach, Least
<1>4. /\ Reach(r, b, f) \in Nat /\ Reach(r - 1, b, f) \in Nat
      /\ Reach(r - 1, b, f) <= Reach(r, b, f) /\ Reach(r, b, f) <= f
      /\ f < r => Reach(r, b, f) = f
      /\ Reach(r, b, f) <= before + b
  BY <1>1, <1>2
<1> QED
  BY <1>2, <1>3, <1>4 DEF before

\* A page that a round reaches is so many bursts away.
LEMMA Passing ==
    ASSUME NEW b \in 1 .. 12, NEW f \in Nat, NEW r \in Nat \ {0}, NEW d \in Int,
           Reach(r - 1, b, f) < d, d <= Reach(r, b, f)
    PROVE  (d - 1) \div b = r - 1
<1> DEFINE before == (r - 1) * b
<1>1. before \in Nat
  OBVIOUS
<1> HIDE DEF before
<1>2. /\ Reach(r, b, f) \in Nat /\ Reach(r, b, f) <= f /\ Reach(r, b, f) <= before + b
      /\ Reach(r - 1, b, f) = (IF before < f THEN before ELSE f)
  BY Reaching DEF before
<1>3. d - 1 \in Nat /\ r - 1 \in Nat /\ before <= d - 1 /\ d - 1 < before + b
  BY <1>1, <1>2
<1> QED
  BY <1>3, DivIs DEF before

\* How many pages are wanted before a page off the screen, and the key of a page:
\* those on the screen come first.
Before(total, page, p) ==
    IF p = page THEN 0
    ELSE IF p > page
    THEN (p - page) + Least(page, (p - page - 1) \div Burst(total - 1 - page))
    ELSE (page - p) + Least(total - 1 - page, (page - p) * Burst(total - 1 - page))

KeyOf(total, page, shown) ==
    [p \in 0 .. total - 1 |-> IF p \in shown THEN p - total ELSE Before(total, page, p)]

LEMMA BurstIs == ASSUME NEW f \in Nat PROVE Burst(f) \in 1 .. 12
BY DEF Burst, Least

\* The keys of the pages of a round, ahead and behind.
Keyed(key, total, page, shown, f, b) ==
    /\ key \in [0 .. total - 1 -> Int]
    /\ \A x \in shown : key[x] = x - total
    /\ page \notin shown => key[page] = 0
    /\ \A r \in 1 .. total, d \in Int :
         Reach(r - 1, b, f) < d /\ d <= Reach(r, b, f) =>
             /\ page + d \in 0 .. total - 1
             /\ page + d \notin shown => key[page + d] = d + Least(page, r - 1)
    /\ \A r \in 1 .. page : /\ page - r \in 0 .. total - 1
                            /\ key[page - r] = r + Reach(r, b, f)
    /\ \A p \in 0 .. total - 1 : p \notin shown => key[p] >= 0

LEMMA KeyIs ==
    ASSUME NEW total \in Nat, NEW page \in 0 .. total - 1, NEW shown,
           shown \subseteq {page, page + 1} \cap 0 .. total - 1
    PROVE  Keyed(KeyOf(total, page, shown), total, page, shown,
                 total - 1 - page, Burst(total - 1 - page))
<1> DEFINE key == KeyOf(total, page, shown)
           f == total - 1 - page
           b == Burst(f)
<1>1. f \in Nat /\ b \in 1 .. 12
  BY BurstIs
<1> HIDE DEF b
<1>2. \A p \in 0 .. total - 1 : Before(total, page, p) \in Nat
  <2> SUFFICES ASSUME NEW p \in 0 .. total - 1 PROVE Before(total, page, p) \in Nat
    OBVIOUS
  <2>1. CASE p = page
    BY <2>1 DEF Before
  <2>2. CASE p > page
    <3> DEFINE quotient == (p - page - 1) \div b
    <3>1. quotient \in Nat
      <4>1. p - page - 1 \in Nat
        BY <2>2
      <4> QED
        BY <1>1, <4>1
    <3>2. Before(total, page, p) = (p - page) + Least(page, quotient)
      BY <2>2 DEF Before, b
    <3> HIDE DEF quotient
    <3> QED
      BY <2>2, <3>1, <3>2 DEF Least
  <2>3. CASE p < page
    <3> DEFINE product == (page - p) * b
    <3>1. product \in Nat
      <4>1. page - p \in Nat
        BY <2>3
      <4> QED
        BY <1>1, <4>1
    <3>2. Before(total, page, p) = (page - p) + Least(total - 1 - page, product)
      BY <2>3 DEF Before, b
    <3> HIDE DEF product
    <3> QED
      BY <2>3, <3>1, <3>2 DEF Least
  <2> QED
    BY <2>1, <2>2, <2>3
<1>3. key \in [0 .. total - 1 -> Int]
  <2> HIDE DEF b
  <2>1. \A p \in 0 .. total - 1 :
          (IF p \in shown THEN p - total ELSE Before(total, page, p)) \in Int
    BY <1>2
  <2> QED
    BY <2>1 DEF KeyOf
<1>4. \A p \in 0 .. total - 1 : p \notin shown => key[p] = Before(total, page, p)
  BY DEF KeyOf
<1>5. \A x \in shown : key[x] = x - total
  BY DEF KeyOf
<1>6. page \notin shown => key[page] = 0
  BY <1>4 DEF Before
<1>7. ASSUME NEW r \in 1 .. total, NEW d \in Int,
             Reach(r - 1, b, f) < d, d <= Reach(r, b, f)
      PROVE  /\ page + d \in 0 .. total - 1
             /\ page + d \notin shown => key[page + d] = d + Least(page, r - 1)
  <2> DEFINE p == page + d
  <2>1. /\ Reach(r - 1, b, f) \in Nat /\ Reach(r, b, f) \in Nat /\ Reach(r, b, f) <= f
        /\ (d - 1) \div b = r - 1
    <3>1. r \in Nat \ {0}
      OBVIOUS
    <3> HIDE DEF f
    <3>2. Reach(r - 1, b, f) \in Nat /\ Reach(r, b, f) \in Nat /\ Reach(r, b, f) <= f
      BY <1>1, <3>1, Reaching
    <3>3. (d - 1) \div b = r - 1
      BY <1>1, <1>7, <3>1, Passing
    <3> QED
      BY <3>2, <3>3
  <2>2. p \in 0 .. total - 1 /\ p > page /\ p - page = d /\ p # page
    <3>1. d \in 1 .. f
      <4> HIDE DEF f
      <4> QED
        BY <1>1, <1>7, <2>1
    <3> QED
      BY <3>1
  <2> HIDE DEF p
  <2>3. Before(total, page, p) = d + Least(page, (d - 1) \div b)
    BY <2>2 DEF Before, b
  <2>4. Before(total, page, p) = d + Least(page, r - 1)
    BY <2>1, <2>3, Zenon
  <2>5. p \in 0 .. total - 1 /\ (p \notin shown => key[p] = d + Least(page, r - 1))
    <3> HIDE DEF key
    <3> QED
      BY <1>4, <2>2, <2>4
  <2> QED
    BY <2>5 DEF p
<1>8. ASSUME NEW r \in 1 .. page
      PROVE  page - r \in 0 .. total - 1 /\ key[page - r] = r + Reach(r, b, f)
  <2> DEFINE p == page - r
  <2>1. p \in 0 .. total - 1 /\ ~(p > page) /\ p # page /\ page - p = r /\ p \notin shown
    BY <1>8
  <2>2. Reach(r, b, f) = Least(f, r * b)
    <3> DEFINE now == r * b
    <3>1. now \in Int
      BY <1>1, <1>8
    <3>2. Reach(r, b, f) = Least(now, f)
      BY DEF Reach
    <3> HIDE DEF now
    <3>3. Least(now, f) = Least(f, now)
      BY <1>1, <3>1 DEF Least
    <3> QED
      BY <3>2, <3>3 DEF now
  <2> HIDE DEF p
  <2>3. Before(total, page, p) = r + Least(total - 1 - page, r * b)
    BY <2>1 DEF Before, b
  <2>4. key[p] = r + Reach(r, b, f)
    <3> HIDE DEF key
    <3> QED
      BY <1>4, <2>1, <2>2, <2>3
  <2> QED
    BY <2>1, <2>4 DEF p
<1>9. \A p \in 0 .. total - 1 : p \notin shown => key[p] >= 0
  <2> HIDE DEF key
  <2> QED
    BY <1>2, <1>4
<1> HIDE DEF key
<1>10. Keyed(key, total, page, shown, f, b)
  BY <1>3, <1>5, <1>6, <1>7, <1>8, <1>9 DEF Keyed
<1> QED
  BY <1>10 DEF key, b

\* The pages of a round: a burst ahead, as far as there are pages, and one behind.
AheadIn(page, r, b, f) ==
    [i \in 1 .. Reach(r, b, f) - Reach(r - 1, b, f) |-> page + Reach(r - 1, b, f) + i]
BehindIn(page, r) == IF r <= page THEN <<page - r>> ELSE <<>>

\* Their keys increase, from above those of the rounds before to those of this one,
\* but for pages on the screen.
RoundFine(t, key, total, page, shown, b, f, r) ==
    /\ t \in Seq(0 .. total - 1) /\ Sorted(t, key)
    /\ \A x \in ToSet(t) : \/ x \in shown
                           \/ /\ Reach(r - 1, b, f) + Least(page, r - 1) < key[x]
                              /\ key[x] <= Reach(r, b, f) + Least(page, r)
    /\ ToSet(t) = {x \in 0 .. total - 1 :
                      \/ page + Reach(r - 1, b, f) < x /\ x <= page + Reach(r, b, f)
                      \/ x = page - r}

LEMMA RoundIs ==
    ASSUME NEW total \in Nat, NEW page \in 0 .. total - 1, NEW shown,
           shown \subseteq {page, page + 1} \cap 0 .. total - 1,
           NEW f, f = total - 1 - page, NEW b, b = Burst(f),
           NEW key, key = KeyOf(total, page, shown),
           NEW r \in 1 .. total
    PROVE  RoundFine(AheadIn(page, r, b, f) \o BehindIn(page, r), key, total, page, shown, b, f, r)
<1> DEFINE lo == Reach(r - 1, b, f)
           hi == Reach(r, b, f)
           m == hi - lo
           ahead == AheadIn(page, r, b, f)
           behind == BehindIn(page, r)
           t == ahead \o behind
           In == 0 .. total - 1
<1>1. f \in Nat /\ b \in 1 .. 12
  BY BurstIs
<1>2. lo \in Nat /\ hi \in Nat /\ lo <= hi /\ hi <= f /\ (r = 1 => lo = 0)
  <2>1. r \in Nat \ {0}
    OBVIOUS
  <2>2. /\ Reach(r, b, f) \in Nat /\ Reach(r - 1, b, f) \in Nat
        /\ Reach(r - 1, b, f) <= Reach(r, b, f) /\ Reach(r, b, f) <= f
        /\ Reach(0, b, f) = 0
    BY <1>1, <2>1, Reaching
  <2>3. r = 1 => r - 1 = 0
    OBVIOUS
  <2> QED
    BY <2>2, <2>3
<1> HIDE DEF lo, hi
<1>3. /\ key \in [In -> Int]
      /\ \A x \in shown : key[x] = x - total
      /\ \A d \in Int : lo < d /\ d <= hi =>
            /\ page + d \in In
            /\ page + d \notin shown => key[page + d] = d + Least(page, r - 1)
      /\ \A i \in 1 .. page : /\ page - i \in In
                              /\ key[page - i] = i + Reach(i, b, f)
  <2>1. Keyed(key, total, page, shown, f, b)
    BY KeyIs
  <2> QED
    BY <2>1 DEF Keyed, lo, hi
<1>4. /\ ahead = [i \in 1 .. m |-> page + lo + i]
      /\ \A i \in 1 .. m : /\ lo + i \in Int /\ lo < lo + i /\ lo + i <= hi
                           /\ page + lo + i = page + (lo + i)
  BY <1>2 DEF AheadIn, lo, hi
<1>5. \A i \in 1 .. m :
        /\ page + lo + i \in In
        /\ page + lo + i \notin shown => key[page + lo + i] = lo + i + Least(page, r - 1)
  <2> SUFFICES ASSUME NEW i \in 1 .. m
               PROVE  /\ page + lo + i \in In
                      /\ page + lo + i \notin shown =>
                            key[page + lo + i] = lo + i + Least(page, r - 1)
    OBVIOUS
  <2> DEFINE d == lo + i
  <2>1. d \in Int /\ lo < d /\ d <= hi /\ page + lo + i = page + d
    BY <1>4
  <2> HIDE DEF d, m, In
  <2>2. page + d \in In /\ (page + d \notin shown => key[page + d] = d + Least(page, r - 1))
    BY <1>3, <2>1
  <2> QED
    BY <2>1, <2>2 DEF d
<1>6. m \in Nat /\ ahead \in Seq(In) /\ Len(ahead) = m /\ DOMAIN ahead = 1 .. m
      /\ \A i \in 1 .. m : ahead[i] = page + lo + i
  <2>1. m \in Nat
    BY <1>2
  <2>2. ahead \in [1 .. m -> In] /\ \A i \in 1 .. m : ahead[i] = page + lo + i
    <3> HIDE DEF m, In, ahead
    <3> QED
      BY <1>4, <1>5
  <2> HIDE DEF m, In, ahead
  <2> QED
    BY <2>1, <2>2
<1>7. \A i \in 2 .. m : ahead[i] \notin shown
  <2> SUFFICES ASSUME NEW i \in 2 .. m PROVE ahead[i] \notin shown
    OBVIOUS
  <2>1. i \in 1 .. m /\ page + lo + i # page /\ page + lo + i # page + 1
    BY <1>2, <1>6
  <2>2. ahead[i] = page + lo + i /\ shown \subseteq {page, page + 1}
    BY <1>6, <2>1
  <2> QED
    BY <2>1, <2>2
<1>8. \A x \in shown : key[x] < 0
  BY <1>3
<1>9. Least(page, r - 1) \in Nat /\ Least(page, r - 1) <= Least(page, r)
      /\ Least(page, r) \in Nat /\ (r <= page => Least(page, r) = r /\ Least(page, r - 1) = r - 1)
  BY DEF Least
<1> HIDE DEF m
<1>10. Sorted(ahead, key)
  <2> SUFFICES ASSUME NEW i \in 1 .. m, NEW j \in 1 .. m, i < j
               PROVE  key[ahead[i]] < key[ahead[j]]
    BY <1>6 DEF Sorted
  <2>1. ahead[i] = page + lo + i /\ ahead[j] = page + lo + j /\ j \in 2 .. m
    BY <1>6
  <2>2. key[ahead[j]] = lo + j + Least(page, r - 1)
    BY <1>5, <1>7, <2>1
  <2>3. CASE ahead[i] \in shown
    <3>1. key[ahead[i]] < 0
      BY <1>8, <2>3
    <3>2. ahead[i] \in In
      BY <1>5, <2>1
    <3>3. key[ahead[i]] \in Int
      BY <1>3, <3>2
    <3>4. lo + j \in Nat
      BY <1>2, <1>6
    <3> QED
      BY <1>9, <2>2, <3>1, <3>3, <3>4
  <2>4. CASE ahead[i] \notin shown
    <3>1. key[ahead[i]] = lo + i + Least(page, r - 1)
      BY <1>5, <2>1, <2>4
    <3> QED
      BY <1>2, <1>9, <2>2, <3>1
  <2> QED
    BY <2>3, <2>4
<1>11. \A x \in ToSet(ahead) :
          \/ x \in shown
          \/ lo + Least(page, r - 1) < key[x] /\ key[x] <= hi + Least(page, r - 1)
  <2> SUFFICES ASSUME NEW x \in ToSet(ahead), x \notin shown
               PROVE  lo + Least(page, r - 1) < key[x] /\ key[x] <= hi + Least(page, r - 1)
    OBVIOUS
  <2>1. PICK i \in 1 .. m : x = page + lo + i
    BY <1>6, SMTT(40) DEF ToSet
  <2> DEFINE d == lo + i
  <2>2. d \in Int /\ lo < d /\ d <= hi
    BY <1>4
  <2>3. key[x] = d + Least(page, r - 1)
    BY <1>5, <2>1
  <2> HIDE DEF d
  <2> QED
    BY <1>2, <1>9, <2>2, <2>3
<1>12. ToSet(ahead) = {x \in In : page + lo < x /\ x <= page + hi}
  <2>1. ASSUME NEW x \in ToSet(ahead) PROVE x \in In /\ page + lo < x /\ x <= page + hi
    <3>1. PICK i \in 1 .. m : x = page + lo + i
      BY <1>6 DEF ToSet
    <3> QED
      BY <1>2, <1>4, <1>5, <1>6, <3>1, SMTT(40)
  <2>2. ASSUME NEW x \in In, page + lo < x, x <= page + hi PROVE x \in ToSet(ahead)
    <3> DEFINE i == x - page - lo
    <3>1. i \in 1 .. m /\ page + lo + i = x
      BY <1>2, <1>6, <2>2 DEF m
    <3> HIDE DEF i
    <3> QED
      BY <1>6, <3>1 DEF ToSet
  <2> QED
    BY <2>1, <2>2
<1>13. behind \in Seq(In) /\ Sorted(behind, key)
       /\ ToSet(behind) = {x \in In : x = page - r}
  <2>1. CASE r <= page
    <3> DEFINE x == page - r
    <3>1. x \in In /\ behind = <<x>>
      BY <2>1 DEF BehindIn
    <3> HIDE DEF x, In, behind
    <3>2. /\ behind \in Seq(In) /\ Len(behind) = 1 /\ DOMAIN behind = 1 .. 1 /\ behind[1] = x
      BY <3>1
    <3>3. ToSet(behind) = {x}
      BY <3>2 DEF ToSet
    <3>4. Sorted(behind, key)
      BY <3>2 DEF Sorted
    <3> QED
      BY <3>1, <3>2, <3>3, <3>4 DEF x
  <2>2. CASE ~(r <= page)
    <3>1. behind = <<>> /\ \A x \in In : x # page - r
      BY <2>2 DEF BehindIn
    <3> HIDE DEF In, behind
    <3>2. behind \in Seq(In)
      BY <3>1
    <3>3. Sorted(behind, key) /\ ToSet(behind) = {}
      BY <3>1 DEF Sorted, ToSet
    <3> QED
      BY <3>1, <3>2, <3>3
  <2> QED
    BY <2>1, <2>2
<1>14. \A x \in ToSet(behind) : r <= page /\ key[x] = r + hi /\ x \notin shown
  <2> SUFFICES ASSUME NEW x \in In, x = page - r
               PROVE  r <= page /\ key[x] = r + hi /\ x \notin shown
    BY <1>13
  <2>1. r \in 1 .. page
    OBVIOUS
  <2>2. x \notin shown
    BY <2>1
  <2> QED
    BY <1>3, <2>1, <2>2 DEF hi
<1> HIDE DEF ahead, behind
<1>15. t \in Seq(In) /\ ToSet(t) = ToSet(ahead) \cup ToSet(behind)
  BY <1>6, <1>13, ConcatIs
<1>16. \A x \in ToSet(ahead), y \in ToSet(behind) : key[x] < key[y]
  <2> SUFFICES ASSUME NEW x \in ToSet(ahead), NEW y \in ToSet(behind) PROVE key[x] < key[y]
    OBVIOUS
  <2>1. r <= page /\ key[y] = r + hi
    BY <1>14
  <2>2. key[x] \in Int
    BY <1>3, <1>12
  <2>3. CASE x \in shown
    <3>1. key[x] < 0
      BY <1>8, <2>3
    <3> QED
      BY <1>2, <2>1, <2>2, <3>1
  <2>4. CASE x \notin shown
    <3>1. key[x] <= hi + Least(page, r - 1)
      BY <1>11, <2>4
    <3> QED
      BY <1>2, <1>9, <2>1, <2>2, <3>1
  <2> QED
    BY <2>3, <2>4
<1>17. Sorted(t, key)
  BY <1>6, <1>10, <1>13, <1>16, SortedConcat
<1>18. \A x \in ToSet(t) : \/ x \in shown
                           \/ /\ lo + Least(page, r - 1) < key[x]
                              /\ key[x] <= hi + Least(page, r)
  <2> SUFFICES ASSUME NEW x \in ToSet(t), x \notin shown
               PROVE  lo + Least(page, r - 1) < key[x] /\ key[x] <= hi + Least(page, r)
    OBVIOUS
  <2>1. CASE x \in ToSet(ahead)
    <3>1. key[x] \in Int
      BY <1>3, <1>12, <2>1
    <3>2. lo + Least(page, r - 1) < key[x] /\ key[x] <= hi + Least(page, r - 1)
      BY <1>11, <2>1
    <3> QED
      BY <1>2, <1>9, <3>1, <3>2
  <2>2. CASE x \in ToSet(behind)
    <3>1. r <= page /\ key[x] = r + hi
      BY <1>14, <2>2
    <3> QED
      BY <1>2, <1>9, <3>1
  <2> QED
    BY <1>15, <2>1, <2>2
<1>19. ToSet(t) = {x \in In : \/ page + lo < x /\ x <= page + hi
                              \/ x = page - r}
  BY <1>12, <1>13, <1>15
<1> HIDE DEF t
<1>20. RoundFine(t, key, total, page, shown, b, f, r)
  BY <1>15, <1>17, <1>18, <1>19 DEF RoundFine, lo, hi
<1> QED
  BY <1>20 DEF t, ahead, behind

\* The pages on the screen that the book has, in order.
OnScreen(s, shown, key, total, page) ==
    /\ shown \subseteq {page, page + 1} \cap 0 .. total - 1
    /\ s \in Seq(0 .. total - 1) /\ ToSet(s) = shown /\ Sorted(s, key)

LEMMA ShownIs ==
    ASSUME NEW total \in Nat, NEW page \in 0 .. total - 1,
           NEW visible \in {<<>>, <<page>>, <<page, page + 1>>},
           NEW shown, shown = ToSet(visible) \cap 0 .. total - 1,
           NEW key, \A x \in shown : key[x] = x - total,
           NEW s, s = Among(visible, 0 .. total - 1)
    PROVE  OnScreen(s, shown, key, total, page)
<1> DEFINE In == 0 .. total - 1
           number == [x \in Nat |-> x - total]
<1>1. page \in Nat /\ page + 1 \in Nat
  OBVIOUS
<1>2. /\ visible \in Seq(Nat) /\ DOMAIN visible = 1 .. Len(visible) /\ Len(visible) \in 0 .. 2
      /\ Len(visible) >= 1 => visible[1] = page
      /\ Len(visible) = 2 => visible[2] = page + 1
  <2>1. CASE visible = <<>>
    BY <2>1
  <2>2. CASE visible = <<page>>
    BY <1>1, <2>2
  <2>3. CASE visible = <<page, page + 1>>
    BY <1>1, <2>3
  <2> QED
    BY <2>1, <2>2, <2>3
<1>3. ToSet(visible) \subseteq {page, page + 1}
  BY <1>2 DEF ToSet
<1>4. Sorted(visible, number)
  <2> SUFFICES ASSUME NEW i \in 1 .. Len(visible), NEW j \in 1 .. Len(visible), i < j
               PROVE  number[visible[i]] < number[visible[j]]
    BY DEF Sorted
  <2>1. i = 1 /\ j = 2 /\ visible[i] = page /\ visible[j] = page + 1
    BY <1>2, SMTT(40)
  <2> QED
    BY <1>1, <2>1
<1>5. s \in Seq(Nat) /\ ToSet(s) = shown /\ Sorted(s, number)
  BY <1>2, <1>4, AmongFacts, AmongSorted
<1>6. DOMAIN s = 1 .. Len(s) /\ \A i \in 1 .. Len(s) : s[i] \in shown
  <2>1. DOMAIN s = 1 .. Len(s)
    BY <1>5
  <2>2. \A i \in 1 .. Len(s) : s[i] \in ToSet(s)
    BY <2>1 DEF ToSet
  <2> QED
    BY <1>5, <2>1, <2>2
<1>7. s \in Seq(In)
  <2>1. s \in [1 .. Len(s) -> In] /\ Len(s) \in Nat
    BY <1>5, <1>6, SMTT(40)
  <2> HIDE DEF In
  <2> QED
    BY <2>1, MadeIs
<1>8. \A x \in shown : number[x] = key[x]
  OBVIOUS
<1> HIDE DEF number
<1>9. Sorted(s, key)
  BY <1>5, <1>6, <1>8 DEF Sorted
<1> QED
  BY <1>3, <1>5, <1>7, <1>9 DEF OnScreen

\* What the sequence has after so many rounds: the pages on the screen and those
\* around the page, every one new when its key says so.
Gathered(w, key, total, page, shown, b, f, k) ==
    /\ w \in Seq(0 .. total - 1)
    /\ Rising(w, key)
    /\ ToSet(w) = {x \in 0 .. total - 1 :
                      \/ x \in shown
                      \/ page - Least(page, k) <= x /\ x <= page + Reach(k, b, f)}
    /\ \A x \in ToSet(w) : key[x] <= Reach(k, b, f) + Least(page, k)

\* It begins so, with no round.
LEMMA GatheredFirst ==
    ASSUME NEW total \in Nat, NEW page \in 0 .. total - 1, NEW shown,
           shown \subseteq {page, page + 1} \cap 0 .. total - 1,
           NEW f, f = total - 1 - page, NEW b, b = Burst(f),
           NEW key, key = KeyOf(total, page, shown),
           NEW s \in Seq(0 .. total - 1), ToSet(s) = shown, Sorted(s, key)
    PROVE  Gathered(s \o <<page>>, key, total, page, shown, b, f, 0)
<1> DEFINE In == 0 .. total - 1
           t == <<page>>
           w == s \o t
<1>1. f \in Nat /\ b \in 1 .. 12
  BY BurstIs
<1>2. Reach(0, b, f) = 0 /\ Least(page, 0) = 0
  <2>1. 1 \in Nat \ {0}
    OBVIOUS
  <2>2. Reach(0, b, f) = 0
    BY <1>1, <2>1, Reaching
  <2>3. Least(page, 0) = 0
    BY DEF Least
  <2> QED
    BY <2>2, <2>3
<1>3. /\ key \in [In -> Int]
      /\ \A x \in shown : key[x] = x - total
      /\ page \notin shown => key[page] = 0
  <2>1. Keyed(key, total, page, shown, f, b)
    BY KeyIs
  <2> QED
    BY <2>1 DEF Keyed
<1>4. \A x \in shown : key[x] < 0
  BY <1>3
<1>5. t \in Seq(In) /\ ToSet(t) = {page} /\ Sorted(t, key)
  <2>1. t \in Seq(In) /\ Len(t) = 1 /\ DOMAIN t = 1 .. 1 /\ t[1] = page
    OBVIOUS
  <2> HIDE DEF t
  <2> QED
    BY <2>1 DEF ToSet, Sorted
<1> HIDE DEF t
<1>6. w \in Seq(In) /\ ToSet(w) = shown \cup {page}
  BY <1>5, ConcatIs
<1>7. Rising(w, key)
  <2>1. Rising(s, key)
    BY SortedRises
  <2>2. \A x \in ToSet(t) : x \in ToSet(s) \/ \A y \in ToSet(s) : key[y] < key[x]
    BY <1>3, <1>4, <1>5
  <2> QED
    BY <1>5, <2>1, <2>2, RisingConcat
<1>8. \A x \in ToSet(w) : key[x] <= 0
  <2> SUFFICES ASSUME NEW x \in ToSet(w) PROVE key[x] <= 0
    OBVIOUS
  <2>1. key[x] \in Int
    BY <1>3, <1>6
  <2>2. CASE x \in shown
    BY <1>4, <2>1, <2>2
  <2>3. CASE x \notin shown
    <3>1. x = page
      BY <1>6, <2>3
    <3> QED
      BY <1>3, <2>3, <3>1
  <2> QED
    BY <2>2, <2>3
<1>9. ToSet(w) = {x \in In : x \in shown \/ (page - 0 <= x /\ x <= page + 0)}
  <2>1. ASSUME NEW x \in In PROVE x = page <=> page - 0 <= x /\ x <= page + 0
    OBVIOUS
  <2>2. shown \cup {page} = {x \in In : x \in shown \/ x = page}
    OBVIOUS
  <2> QED
    BY <1>6, <2>1, <2>2
<1> HIDE DEF w
<1>10. Gathered(w, key, total, page, shown, b, f, 0)
  BY <1>2, <1>6, <1>7, <1>8, <1>9 DEF Gathered
<1> QED
  BY <1>10 DEF w, t

\* And goes on so with every round.
LEMMA GatheredNext ==
    ASSUME NEW total \in Nat, NEW page \in 0 .. total - 1, NEW shown,
           shown \subseteq {page, page + 1} \cap 0 .. total - 1,
           NEW f, f = total - 1 - page, NEW b, b = Burst(f),
           NEW key, key = KeyOf(total, page, shown),
           NEW r \in 1 .. total, NEW k, k = r - 1,
           NEW w, Gathered(w, key, total, page, shown, b, f, k)
    PROVE  Gathered(w \o (AheadIn(page, r, b, f) \o BehindIn(page, r)),
                    key, total, page, shown, b, f, r)
<1> DEFINE In == 0 .. total - 1
           t == AheadIn(page, r, b, f) \o BehindIn(page, r)
           lo == Reach(k, b, f)
           hi == Reach(r, b, f)
           fewer == Least(page, k)
           more == Least(page, r)
<1>1. f \in Nat /\ b \in 1 .. 12
  BY BurstIs
<1>2. lo \in Nat /\ hi \in Nat /\ lo <= hi
  <2>1. r \in Nat \ {0}
    OBVIOUS
  <2> QED
    BY <1>1, <2>1, Reaching
<1>3. /\ fewer \in Nat /\ more \in Nat /\ fewer <= more
      /\ more = fewer \/ (more = r /\ fewer = r - 1 /\ r <= page)
      /\ r <= page => more = r
  BY DEF Least
<1>4. key \in [In -> Int]
  <2>1. Keyed(key, total, page, shown, f, b)
    BY KeyIs
  <2> QED
    BY <2>1 DEF Keyed
<1>5. /\ t \in Seq(In) /\ Sorted(t, key)
      /\ \A x \in ToSet(t) : x \in shown \/ (lo + fewer < key[x] /\ key[x] <= hi + more)
      /\ ToSet(t) = {x \in In : \/ page + lo < x /\ x <= page + hi
                                \/ x = page - r}
  <2>1. RoundFine(t, key, total, page, shown, b, f, r)
    BY RoundIs
  <2> QED
    BY <2>1 DEF RoundFine
<1> HIDE DEF t, lo, hi, fewer, more
<1>6. /\ w \in Seq(In) /\ Rising(w, key)
      /\ ToSet(w) = {x \in In : x \in shown \/ (page - fewer <= x /\ x <= page + lo)}
      /\ \A x \in ToSet(w) : key[x] <= lo + fewer
  BY DEF Gathered, lo, fewer
<1>7. Rising(w \o t, key)
  <2>1. ASSUME NEW x \in ToSet(t), x \notin ToSet(w), NEW y \in ToSet(w)
        PROVE  key[y] < key[x]
    <3>1. key[x] \in Int /\ key[y] \in Int
      BY <1>4, <1>5, <1>6
    <3>2. x \notin shown
      BY <1>5, <1>6, <2>1
    <3>3. lo + fewer < key[x] /\ key[y] <= lo + fewer
      BY <1>5, <1>6, <3>2
    <3> QED
      BY <1>2, <1>3, <3>1, <3>3
  <2> QED
    BY <1>5, <1>6, <2>1, RisingConcat
<1>8. w \o t \in Seq(In) /\ ToSet(w \o t) = ToSet(w) \cup ToSet(t)
  BY <1>5, <1>6, ConcatIs
<1>9. ToSet(w \o t) = {x \in In : x \in shown \/ (page - more <= x /\ x <= page + hi)}
  <2>1. ASSUME NEW x \in In
        PROVE  (\/ page - fewer <= x /\ x <= page + lo
                \/ page + lo < x /\ x <= page + hi
                \/ x = page - r)
               <=> (page - more <= x /\ x <= page + hi)
    BY <1>2, <1>3
  <2> QED
    BY <1>5, <1>6, <1>8, <2>1
<1>10. \A x \in ToSet(w \o t) : key[x] <= hi + more
  <2> SUFFICES ASSUME NEW x \in ToSet(w \o t) PROVE key[x] <= hi + more
    OBVIOUS
  <2>1. key[x] \in Int
    BY <1>4, <1>9
  <2>2. CASE x \in ToSet(w)
    <3>1. key[x] <= lo + fewer
      BY <1>6, <2>2
    <3> QED
      BY <1>2, <1>3, <2>1, <3>1
  <2>3. CASE x \in ToSet(t) /\ x \notin ToSet(w)
    BY <1>5, <1>6, <2>3
  <2> QED
    BY <1>8, <2>2, <2>3
<1>11. Gathered(w \o t, key, total, page, shown, b, f, r)
  BY <1>7, <1>8, <1>9, <1>10 DEF Gathered, hi, more
<1> QED
  BY <1>11 DEF t

\* Sequences are put together from either side.
Regrouped(s, t, u) == (s \o t) \o u = s \o (t \o u)

LEMMA Regroup ==
    ASSUME NEW S, NEW s \in Seq(S), NEW t \in Seq(S), NEW u \in Seq(S)
    PROVE  Regrouped(s, t, u)
BY ConcatAssociative DEF Regrouped

\* After all the rounds the sequence has every page of the book.
LEMMA AllGathered ==
    ASSUME NEW total \in Nat, NEW page \in 0 .. total - 1, NEW shown,
           shown \subseteq {page, page + 1} \cap 0 .. total - 1,
           NEW f, f = total - 1 - page, NEW b, b = Burst(f),
           NEW key, key = KeyOf(total, page, shown),
           NEW s \in Seq(0 .. total - 1), ToSet(s) = shown, Sorted(s, key),
           NEW rounds \in Seq(Seq(0 .. total - 1)),
           Len(rounds) = total,
           \A r \in 1 .. total : rounds[r] = AheadIn(page, r, b, f) \o BehindIn(page, r)
    PROVE  Gathered(s \o <<page>> \o FlattenSeq(rounds), key, total, page, shown, b, f, total)
<1> DEFINE In == 0 .. total - 1
           base == s \o <<page>>
<1>1. base \in Seq(In) /\ Gathered(base, key, total, page, shown, b, f, 0)
  <2>1. Gathered(base, key, total, page, shown, b, f, 0)
    BY GatheredFirst
  <2> QED
    BY <2>1 DEF Gathered
<1>2. PICK G : Joins(G, In, rounds)
  BY FlattenSteps
<1>3. /\ G \in [0 .. total -> Seq(In)] /\ G[0] = <<>>
      /\ \A k \in 1 .. total : G[k] = G[k - 1] \o rounds[k]
      /\ FlattenSeq(rounds) = G[total]
  BY <1>2 DEF Joins
<1> HIDE DEF base
<1> DEFINE P == {k \in 0 .. total :
                    Gathered(base \o G[k], key, total, page, shown, b, f, k)}
<1>4. 0 \in P
  <2>1. base \o <<>> = base
    BY <1>1
  <2>2. 0 \in 0 .. total
    OBVIOUS
  <2> QED
    BY <1>1, <1>3, <2>1, <2>2
<1>5. ASSUME NEW k \in 0 .. total - 1, k \in P PROVE k + 1 \in P
  <2> DEFINE r == k + 1
             t == AheadIn(page, r, b, f) \o BehindIn(page, r)
             w == base \o G[k]
  <2>1. r \in 1 .. total /\ k = r - 1 /\ r \in 0 .. total /\ k \in 0 .. total
    OBVIOUS
  <2>2. Gathered(w, key, total, page, shown, b, f, k)
    BY <1>5
  <2> HIDE DEF r, w
  <2>3. Gathered(w \o t, key, total, page, shown, b, f, r)
    <3> HIDE DEF t
    <3> QED
      BY <2>1, <2>2, GatheredNext DEF t
  <2>4. rounds[r] = t
    BY <2>1
  <2> HIDE DEF t, In
  <2>5. G[k] \in Seq(In) /\ G[r] = G[k] \o rounds[r] /\ t \in Seq(In)
    <3>1. G[k] \in Seq(In)
      BY <1>3, <2>1
    <3>2. G[r] = G[k] \o rounds[r]
      BY <1>3, <2>1
    <3>3. rounds[r] \in Seq(In)
      BY <2>1 DEF In
    <3> QED
      BY <2>4, <3>1, <3>2, <3>3
  <2>6. w \o t = base \o (G[k] \o t)
    <3> DEFINE g == G[k]
    <3>1. base \in Seq(In) /\ g \in Seq(In) /\ t \in Seq(In)
      BY <1>1, <2>5
    <3> HIDE DEF g
    <3>2. Regrouped(base, g, t)
      BY <3>1, Regroup
    <3> QED
      BY <3>2, Zenon DEF w, g, Regrouped
  <2>7. r \in P
    BY <2>1, <2>3, <2>4, <2>5, <2>6
  <2> QED
    BY <2>7 DEF r
<1>6. \A k \in 0 .. total : k \in P
  <2> HIDE DEF P
  <2> QED
    BY <1>4, <1>5, Upward
<1>7. total \in 0 .. total
  OBVIOUS
<1> QED
  BY <1>3, <1>6, <1>7 DEF base

\* The rounds of the order.
LEMMA RoundsAre ==
    ASSUME NEW total \in Nat \ {0}, NEW page \in 0 .. total - 1, NEW visible,
           NEW f, f = total - 1 - page, NEW b, b = Burst(f)
    PROVE  DesiredSequence(page, total, visible)
             = Distinct(Among(visible, 0 .. total - 1) \o <<page>>
                          \o FlattenSeq([r \in 1 .. total |->
                                AheadIn(page, r, b, f) \o BehindIn(page, r)]))
<1>1. Least(page, total - 1) = page /\ total # 0
  BY DEF Least
<1> QED
  BY <1>1 DEF DesiredSequence, AheadIn, BehindIn, Reach

\* Every page once, in the order of the keys.
LEMMA OrderSorted ==
    ASSUME NEW total \in Nat \ {0}, NEW page \in 0 .. total - 1,
           NEW visible \in {<<>>, <<page>>, <<page, page + 1>>},
           NEW shown, shown = ToSet(visible) \cap 0 .. total - 1,
           NEW key, key = KeyOf(total, page, shown),
           NEW order, order = DesiredSequence(page, total, visible)
    PROVE  order \in Seq(0 .. total - 1) /\ ToSet(order) = 0 .. total - 1 /\ Sorted(order, key)
<1> DEFINE In == 0 .. total - 1
           f == total - 1 - page
           b == Burst(f)
           s == Among(visible, In)
           Round(r) == AheadIn(page, r, b, f) \o BehindIn(page, r)
           rounds == [r \in 1 .. total |-> Round(r)]
           all == s \o <<page>> \o FlattenSeq(rounds)
<1>1. total \in Nat /\ f \in Nat /\ b \in 1 .. 12 /\ f < total
  <2>1. f \in Nat
    OBVIOUS
  <2> HIDE DEF f
  <2> QED
    BY <2>1, BurstIs DEF f
<1>2. \A x \in shown : key[x] = x - total
  BY DEF KeyOf
<1>3. /\ shown \subseteq {page, page + 1} \cap In
      /\ s \in Seq(In) /\ ToSet(s) = shown /\ Sorted(s, key)
  <2>1. s = Among(visible, 0 .. total - 1)
    OBVIOUS
  <2> HIDE DEF s, In, f, b
  <2> QED
    <3>1. OnScreen(s, shown, key, total, page)
      BY <1>1, <1>2, <2>1, ShownIs
    <3> QED
      BY <3>1 DEF In, OnScreen
<1>4. order = Distinct(all)
  BY RoundsAre
<1> HIDE DEF f, b, s
<1>5. \A r \in 1 .. total : Round(r) \in Seq(In)
  <2> SUFFICES ASSUME NEW r \in 1 .. total PROVE Round(r) \in Seq(In)
    OBVIOUS
  <2>1. RoundFine(Round(r), key, total, page, shown, b, f, r)
    BY <1>1, <1>3, RoundIs DEF f, b
  <2> QED
    BY <2>1 DEF RoundFine
<1>6. rounds \in Seq(Seq(In)) /\ Len(rounds) = total
      /\ \A r \in 1 .. total : rounds[r] = Round(r)
  <2> HIDE DEF Round, In
  <2> QED
    BY <1>1, <1>5
<1> HIDE DEF rounds
<1>7. Gathered(all, key, total, page, shown, b, f, total)
  BY <1>1, <1>3, <1>6, AllGathered DEF f, b
<1> HIDE DEF all, Round
<1>8. Reach(total, b, f) = f /\ Least(page, total) = page
  <2>1. Reach(total, b, f) = f
    BY <1>1, Reaching
  <2>2. Least(page, total) = page
    BY DEF Least
  <2> QED
    BY <2>1, <2>2
<1>9. all \in Seq(In) /\ Rising(all, key) /\ ToSet(all) = In
  <2>1. /\ all \in Seq(In) /\ Rising(all, key)
        /\ ToSet(all) = {x \in In : x \in shown \/ (page - page <= x /\ x <= page + f)}
    BY <1>7, <1>8 DEF Gathered
  <2>2. \A x \in In : page - page <= x /\ x <= page + f
    BY DEF f
  <2> QED
    BY <2>1, <2>2
<1> HIDE DEF In
<1> QED
  BY <1>4, <1>9, DistinctIs, DistinctSorted DEF In

\* So the order is as it is meant.
LEMMA OrderHolds ==
    ASSUME NEW total \in Nat, NEW page \in 0 .. total - 1,
           NEW visible \in {<<>>, <<page>>, <<page, page + 1>>}
    PROVE  OrderAsMeant(total, page, visible)
<1> DEFINE In == 0 .. total - 1
           order == DesiredSequence(page, total, visible)
           shown == ToSet(visible) \cap In
           key == KeyOf(total, page, shown)
<1>1. total \in Nat \ {0}
  OBVIOUS
<1>2. order \in Seq(In) /\ ToSet(order) = In /\ Sorted(order, key)
  BY <1>1, OrderSorted
<1>3. shown \subseteq {page, page + 1} \cap In
  <2>1. \A x \in shown : key[x] = x - total
    BY DEF KeyOf
  <2>2. OnScreen(Among(visible, In), shown, key, total, page)
    BY <2>1, ShownIs
  <2> QED
    BY <2>2 DEF OnScreen
<1>4. /\ key \in [In -> Int]
      /\ \A p \in In : p \notin shown => key[p] >= 0
  <2>1. Keyed(key, total, page, shown, total - 1 - page, Burst(total - 1 - page))
    BY <1>3, KeyIs
  <2> QED
    BY <2>1 DEF Keyed
<1>5. \A p \in In : key[p] = IF p \in shown THEN p - total ELSE Before(total, page, p)
  BY DEF KeyOf
<1> HIDE DEF order, key, shown
<1>6. /\ Cardinality(In) = Len(order)
      /\ \A p, q \in In : Rank(order, p) < Rank(order, q) <=> key[p] < key[q]
  <2> HIDE DEF In
  <2> QED
    BY <1>2, <1>4, SortedRank
<1>7. Len(order) = total
  <2>1. Cardinality(In) = total
    BY <1>1, FS_Interval
  <2> QED
    BY <1>6, <2>1
<1>8. ASSUME NEW p \in In, NEW q \in In
      PROVE  key[p] < key[q] <=>
                \/ p \in shown /\ q \notin shown
                \/ p \in shown /\ q \in shown /\ p < q
                \/ p \notin shown /\ q \notin shown /\ Before(total, page, p) < Before(total, page, q)
  <2>1. key[p] \in Int /\ key[q] \in Int
    BY <1>4
  <2>2. (p \in shown => key[p] = p - total /\ key[p] < 0)
        /\ (q \in shown => key[q] = q - total /\ key[q] < 0)
    BY <1>5
  <2>3. (p \notin shown => key[p] = Before(total, page, p) /\ key[p] >= 0)
        /\ (q \notin shown => key[q] = Before(total, page, q) /\ key[q] >= 0)
    BY <1>4, <1>5
  <2> QED
    BY <2>1, <2>2, <2>3
<1> QED
  BY <1>2, <1>6, <1>7, <1>8 DEF OrderAsMeant, Before, order, shown

\* The order in which pages are wanted is as it is meant, whatever the length of the
\* book, the page and what of it is on the screen.
THEOREM PolicyOrderHolds == Spec => []PolicyOrder
<1>1. PolicyOrder
  BY ConstantsAssumption, OrderHolds DEF PolicyOrder
<1> QED
  BY <1>1, PTL
=============================================================================
