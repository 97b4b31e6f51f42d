-------------------------- MODULE ReadAheadProofs --------------------------
(***************************************************************************)
(* Proofs about what a Viewer prepares, for every book, neighbourhood and  *)
(* size: the pages of neighbours (Spad), the textures of the book that is  *)
(* read (Textures), and the hand-over from one to the other (ReadAhead).   *)
(* Of ViewerProofs it takes what is proved there of sequences, sums and    *)
(* the operators of StreamingCache.                                        *)
(***************************************************************************)
EXTENDS ViewerProofs, ReadAhead

(***************************************************************************)
(* Reading ahead: SPAD does not fall asleep before a gate that a frame has *)
(* seen open (SpadAwake), for every neighbourhood and every page size.     *)
(*                                                                         *)
(* That a side at rest has come to the end of its schedule is not enough:  *)
(* what lies before the index must be done (Passed), and the schedule must *)
(* hold what was promised, though it was made anew when the number of      *)
(* pages was news (PlanOf).  While the number is not the book's, nothing   *)
(* is ready, so the old schedule's pages before the index have failed, and *)
(* the first page of the new one is among them or is the one that comes.   *)
(***************************************************************************)
SpadSpec == SpadInit /\ [][SpadNext]_spadVars

Targets ==
    [known : Nat, entry : Nat, schedule : Seq(Nat), index : Nat \ {0},
     ready : SUBSET [page : Nat, width : Nat], failed : SUBSET Nat,
     bytes : Nat, max : Nat, exhausted : BOOLEAN]

SpadBooks == [count : Nat, known : Nat, entry : Nat, width : Nat]

\* What a schedule made for a number of pages and a page to begin with holds.
IsSchedule(q, known, entry) ==
    /\ Len(q) >= 1
    /\ q[1] = entry
    /\ known = 0 => \A i \in 1 .. Len(q) : q[i] >= entry
    /\ known > 0 =>
        /\ entry < known
        /\ \A i \in 1 .. Len(q) : q[i] >= entry \/ (known = entry + 1 /\ q[i] = entry - 1)
        /\ \A p \in entry .. known - 1 : \E i \in 1 .. Len(q) : q[i] = p
        /\ known = entry + 1 /\ entry > 0 => \E i \in 1 .. Len(q) : q[i] = entry - 1
        /\ known > entry + 1 => Len(q) >= 2 /\ q[2] = entry + 1

EntryFor(known, entry) == IF known = 0 \/ entry < known THEN entry ELSE 0

\* Where a target's number and first page come from: what was told, or, after
\* the thread has counted, the book.
PlanOf(b, t) ==
    IF t.schedule = <<>>
    THEN t.known = b.known /\ t.entry = b.entry /\ t.index = 1 /\ t.ready = {}
    ELSE /\ IsSchedule(t.schedule, t.known, t.entry)
         /\ \/ t.known = b.known /\ t.entry = EntryFor(b.known, b.entry)
            \/ t.known = b.count /\ t.entry = EntryFor(b.count, EntryFor(b.known, b.entry))

\* A page before the index is done, but for the one that OneTooMany tells of.
Passed(b, t, p) ==
    Done(t, p) \/ (p = 0 /\ OneTooMany(b) /\ t.known = b.count)

Good(b, t) ==
    /\ PlanOf(b, t)
    /\ t.ready # {} => t.known = b.count
    /\ \A i \in 1 .. Len(t.schedule) : i < t.index => Passed(b, t, t.schedule[i])

\* Each page that is ready takes an area at most.
Afford(t, a) ==
    /\ t.bytes <= Cardinality(t.ready) * a
    /\ t.exhausted => Cardinality(t.ready) >= Guaranteed

SpadAnswers(b, p) ==
    {r \in [count : {0, b.count}, frames : BOOLEAN] : r.frames => p < r.count}

\* A request under way is for the page at the index.
Asked(b, t, q) ==
    /\ q.answer # <<>> => \E r \in SpadAnswers(b, q.page) : q.answer = <<r>>
    /\ t.schedule # <<>>
    /\ t.index \in 1 .. Len(t.schedule)
    /\ t.schedule[t.index] = q.page
    /\ ~Done(t, q.page)

\* Why a side rests, after a frame that saw the gate open.
AtRest(s) ==
    LET t == target[s]
    IN  \/ t.exhausted
        \/ seen = "guaranteed" /\ Cardinality(t.ready) >= Guaranteed
        \/ t.schedule # <<>> /\ Pending(t) = {}

SpadRequests == [page : Nat, width : Nat, answer : Seq([count : Nat, frames : BOOLEAN])]

SpadTyped ==
    /\ book \in Neighbourhoods
    /\ area \in Areas
    /\ due \in BOOLEAN /\ resized \in BOOLEAN
    /\ DOMAIN target = SidesPresent
    /\ DOMAIN spadInflight \subseteq SidesPresent
    /\ \A s \in SidesPresent : target[s] \in Targets /\ IsFiniteSet(target[s].ready)
    /\ \A s \in DOMAIN spadInflight :
        spadInflight[s] \in SpadRequests /\ spadInflight[s].width \in SpadWidths

SpadInv ==
    /\ SpadTyped
    /\ \A s \in SidesPresent : Good(book[s], target[s])
    /\ \A s \in DOMAIN spadInflight : Asked(book[s], target[s], spadInflight[s])
    /\ \A s \in SidesPresent : HasAnswer(s) => due
    /\ \A s \in SidesPresent :
        s \notin DOMAIN spadInflight /\ ~due /\ seen # "closed" => AtRest(s)
    /\ ~resized => /\ \A s \in SidesPresent : Afford(target[s], AreaBytes[WidthFor(s)])
                   /\ \A s \in DOMAIN spadInflight : spadInflight[s].width = WidthFor(s)

(***************************************************************************)
(* What the steps of a target do.                                          *)
(***************************************************************************)
LEMMA SpadBook ==
    ASSUME SpadTyped, NEW s \in SidesPresent
    PROVE  /\ book[s] \in SpadBooks
           /\ WidthFor(s) \in SpadWidths
           /\ WidthFor(s) \in Nat
           /\ AreaBytes[WidthFor(s)] \in Nat \ {0}
           /\ target[s] \in Targets
           /\ ExtraBytes \in Nat
<1>1. book[s] \in SpadBooks
  BY SpadAssumption DEF SpadTyped, SidesPresent, SpadBooks
<1>2. area \in SpadWidths /\ area \in Nat
  BY SpadAssumption DEF SpadTyped, SpadWidths
<1>3. book[s].width # 0 => book[s].width \in SpadWidths
  <2>1. book[s].width \in {book[r].width : r \in DOMAIN book}
    BY DEF SidesPresent
  <2>2. {book[r].width : r \in DOMAIN book}
          \in {{b[r].width : r \in DOMAIN b} : b \in Neighbourhoods}
    BY DEF SpadTyped
  <2> QED
    BY <2>1, <2>2 DEF SpadWidths
<1> QED
  BY <1>1, <1>2, <1>3, SpadAssumption DEF WidthFor, SpadTyped, SpadBooks

LEMMA ScheduleMade ==
    ASSUME NEW k \in Nat, NEW f \in Nat, f < k
    PROVE  LET onward == [i \in 1 .. k - f |-> f + i - 1]
               q == IF Len(onward) < 2 /\ f > 0 THEN Append(onward, f - 1) ELSE onward
           IN  q \in Seq(Nat) /\ IsSchedule(q, k, f)
<1> DEFINE onward == [i \in 1 .. k - f |-> f + i - 1]
           q == IF Len(onward) < 2 /\ f > 0 THEN Append(onward, f - 1) ELSE onward
<1>1. onward \in Seq(Nat) /\ Len(onward) = k - f
  OBVIOUS
<1>2. \A i \in 1 .. k - f : onward[i] = f + i - 1
  OBVIOUS
<1>3. \A p \in f .. k - 1 : p - f + 1 \in 1 .. k - f /\ onward[p - f + 1] = p
  BY <1>2
<1>4. q = IF k = f + 1 /\ f > 0 THEN Append(onward, f - 1) ELSE onward
  BY <1>1
<1> HIDE DEF onward, q
<1>5. CASE k = f + 1 /\ f > 0
  <2>1. q = Append(onward, f - 1) /\ Len(onward) = 1 /\ onward[1] = f
    BY <1>1, <1>2, <1>4, <1>5
  <2>2. q \in Seq(Nat) /\ Len(q) = 2 /\ q[1] = f /\ q[2] = f - 1
    <3>1. f - 1 \in Nat
      BY <1>5
    <3>2. /\ Append(onward, f - 1) \in Seq(Nat)
          /\ Len(Append(onward, f - 1)) = Len(onward) + 1
          /\ \A i \in 1 .. Len(onward) : Append(onward, f - 1)[i] = onward[i]
          /\ Append(onward, f - 1)[Len(onward) + 1] = f - 1
      BY <1>1, <3>1, AppendProperties
    <3> HIDE DEF q
    <3> QED
      BY <2>1, <3>2
  <2>3. \A p \in f .. k - 1 : p = f
    BY <1>5
  <2> QED
    BY <2>2, <2>3, <1>5 DEF IsSchedule, q, onward
<1>6. CASE ~(k = f + 1 /\ f > 0)
  <2>1. q = onward
    BY <1>4, <1>6
  <2>2. k > f + 1 => Len(onward) >= 2 /\ onward[2] = f + 1
    BY <1>1, <1>2
  <2>3. IsSchedule(onward, k, f)
    BY <1>1, <1>2, <1>3, <1>6, <2>2 DEF IsSchedule
  <2> QED
    BY <1>1, <2>1, <2>3 DEF q, onward
<1> QED
  BY <1>5, <1>6 DEF q, onward

\* u is t but for its schedule, what it begins with and the number it is made for.
Rescheduled(t, u) ==
    /\ u.ready = t.ready /\ u.failed = t.failed /\ u.bytes = t.bytes
    /\ u.max = t.max /\ u.exhausted = t.exhausted

LEMMA ScheduledNew ==
    ASSUME NEW t \in Targets, t.schedule = <<>>
    PROVE  LET u == Scheduled(t)
           IN  /\ u \in Targets
               /\ Rescheduled(t, u)
               /\ u.known = t.known /\ u.index = t.index
               /\ u.entry = EntryFor(t.known, t.entry)
               /\ u.schedule # <<>> /\ IsSchedule(u.schedule, u.known, u.entry)
<1> DEFINE u == Scheduled(t)
           f == IF t.entry < t.known THEN t.entry ELSE 0
           onward == [i \in 1 .. t.known - f |-> f + i - 1]
           q == IF Len(onward) < 2 /\ f > 0 THEN Append(onward, f - 1) ELSE onward
           q0 == <<t.entry, t.entry + 1>>
<1>1. CASE t.known = 0
  <2>1. u = [t EXCEPT !.schedule = q0]
    BY <1>1 DEF Scheduled
  <2>2. q0 \in Seq(Nat) /\ IsSchedule(q0, 0, t.entry)
    BY DEF IsSchedule, Targets
  <2> HIDE DEF u, q0
  <2>3. q0 # <<>>
    BY <2>2 DEF IsSchedule, q0
  <2>4. u \in Targets /\ u.entry = t.entry /\ u.schedule = q0 /\ u.known = t.known
        /\ u.index = t.index /\ Rescheduled(t, u)
    BY <2>1, <2>2 DEF Targets, q0, Rescheduled
  <2> QED
    BY <1>1, <2>2, <2>3, <2>4 DEF EntryFor, u
<1>2. CASE t.known # 0
  <2>1. u = [t EXCEPT !.entry = f, !.schedule = q]
    BY <1>2 DEF Scheduled
  <2>2. f \in Nat /\ f < t.known /\ t.known \in Nat
    BY <1>2 DEF Targets
  <2>3. q \in Seq(Nat) /\ IsSchedule(q, t.known, f)
    BY <2>2, ScheduleMade
  <2>4. f = EntryFor(t.known, t.entry)
    BY <1>2 DEF EntryFor
  <2> HIDE DEF u, q, f
  <2>5. q # <<>>
    BY <2>3 DEF IsSchedule
  <2>6. u \in Targets /\ u.entry = f /\ u.schedule = q /\ u.known = t.known
        /\ u.index = t.index /\ Rescheduled(t, u)
    BY <2>1, <2>2, <2>3 DEF Targets, Rescheduled
  <2> QED
    BY <2>3, <2>4, <2>5, <2>6 DEF u
<1> QED
  BY <1>1, <1>2

LEMMA ScheduledGood ==
    ASSUME NEW b \in SpadBooks, NEW t \in Targets, Good(b, t)
    PROVE  LET u == Scheduled(t)
           IN  /\ u \in Targets
               /\ Rescheduled(t, u)
               /\ Good(b, u)
               /\ u.schedule # <<>> /\ u.index = t.index
               /\ t.schedule # <<>> => u = t
<1> DEFINE u == Scheduled(t)
<1>1. CASE t.schedule # <<>>
  BY <1>1 DEF Scheduled, Rescheduled
<1>2. CASE t.schedule = <<>>
  <2>1. /\ u \in Targets /\ Rescheduled(t, u)
        /\ u.known = t.known /\ u.index = t.index
        /\ u.entry = EntryFor(t.known, t.entry)
        /\ u.schedule # <<>> /\ IsSchedule(u.schedule, u.known, u.entry)
    BY <1>2, ScheduledNew
  <2> HIDE DEF u
  <2>2. t.known = b.known /\ t.entry = b.entry /\ t.index = 1 /\ t.ready = {}
    BY <1>2 DEF Good, PlanOf
  <2>3. PlanOf(b, u) /\ u.ready = {} /\ u.index = 1
    BY <2>1, <2>2 DEF PlanOf, Rescheduled
  <2> QED
    BY <1>2, <2>1, <2>3 DEF Good, u
<1> QED
  BY <1>1, <1>2

LEMMA LearnedGood ==
    ASSUME NEW b \in SpadBooks, NEW t \in Targets, Good(b, t), t.schedule # <<>>,
           NEW c \in {0, b.count}
    PROVE  LET u == LearnCount(t, c)
           IN  /\ u \in Targets
               /\ Rescheduled(t, u)
               /\ Good(b, u)
               /\ u.schedule # <<>>
               /\ c > 0 => u.known = b.count
               /\ \/ u = t
                  \/ /\ u.index = 1
                     /\ t.known = b.known /\ t.known # b.count
                     /\ t.entry = EntryFor(b.known, b.entry)
                     /\ u.entry = EntryFor(b.count, t.entry)
                     /\ u.schedule[1] = u.entry
<1> DEFINE u == LearnCount(t, c)
           y == [t EXCEPT !.known = c, !.schedule = <<>>, !.index = 1]
<1>1. CASE ~(c > 0 /\ c # t.known)
  <2>1. u = t
    BY <1>1 DEF LearnCount
  <2> HIDE DEF u
  <2> QED
    BY <1>1, <2>1 DEF Rescheduled, SpadBooks, u
<1>2. CASE c > 0 /\ c # t.known
  <2>1. u = Scheduled(y) /\ c = b.count /\ c \in Nat
    BY <1>2 DEF LearnCount, SpadBooks
  <2>2. y \in Targets /\ y.schedule = <<>> /\ y.known = c /\ y.index = 1
        /\ y.entry = t.entry /\ Rescheduled(t, y)
    <3>1. <<>> \in Seq(Nat) /\ 1 \in Nat \ {0}
      OBVIOUS
    <3> DEFINE none == <<>>
    <3>2. y = [t EXCEPT !.known = c, !.schedule = none, !.index = 1]
      OBVIOUS
    <3>3. none \in Seq(Nat) /\ none = <<>>
      BY <3>1
    <3> HIDE DEF y, none
    <3> QED
      BY <2>1, <3>1, <3>2, <3>3 DEF Targets, Rescheduled
  <2> HIDE DEF u, y
  <2>3. /\ u \in Targets /\ Rescheduled(y, u)
        /\ u.known = c /\ u.index = 1
        /\ u.entry = EntryFor(c, t.entry)
        /\ u.schedule # <<>> /\ IsSchedule(u.schedule, u.known, u.entry)
    BY <2>1, <2>2, ScheduledNew
  <2>4. t.known = b.known /\ t.entry = EntryFor(b.known, b.entry)
    BY <1>2, <2>1 DEF Good, PlanOf
  <2>5. PlanOf(b, u) /\ u.schedule[1] = u.entry
    BY <2>1, <2>3, <2>4 DEF PlanOf, IsSchedule
  <2>6. Rescheduled(t, u)
    BY <2>2, <2>3 DEF Rescheduled
  <2>7. Good(b, u)
    BY <2>1, <2>3, <2>5 DEF Good
  <2> QED
    BY <1>2, <2>1, <2>3, <2>4, <2>5, <2>6, <2>7 DEF u
<1> QED
  BY <1>1, <1>2

LEMMA MarkedGood ==
    ASSUME NEW b \in SpadBooks, NEW t \in Targets, Good(b, t), t.schedule # <<>>,
           NEW p \in Nat
    PROVE  LET u == MarkFailed(t, p)
           IN  /\ u \in Targets
               /\ Good(b, u)
               /\ u.ready = t.ready /\ u.bytes = t.bytes /\ u.max = t.max
               /\ u.exhausted = t.exhausted /\ u.index >= t.index
<1> DEFINE u == MarkFailed(t, p)
           n == IF t.index <= Len(t.schedule) /\ t.schedule[t.index] = p
                THEN t.index + 1 ELSE t.index
<1>1. /\ u \in Targets
      /\ u.ready = t.ready /\ u.bytes = t.bytes /\ u.max = t.max
      /\ u.exhausted = t.exhausted /\ u.known = t.known /\ u.entry = t.entry
      /\ u.schedule = t.schedule /\ u.failed = t.failed \cup {p}
      /\ \/ u.index = t.index
         \/ u.index = t.index + 1 /\ t.index <= Len(t.schedule)
              /\ t.schedule[t.index] = p
  <2>1. u = [t EXCEPT !.failed = t.failed \cup {p}, !.index = n]
    BY DEF MarkFailed, Targets
  <2>2. /\ n \in Nat \ {0}
        /\ \/ n = t.index
           \/ n = t.index + 1 /\ t.index <= Len(t.schedule)
                /\ t.schedule[t.index] = p
    BY DEF Targets
  <2> HIDE DEF u, n
  <2> QED
    BY <2>1, <2>2 DEF Targets
<1> HIDE DEF u
<1>2. \A x : Done(t, x) => Done(u, x)
  BY <1>1 DEF Done, ReadyPages
<1>3. Done(u, p)
  BY <1>1 DEF Done
<1>4. ASSUME NEW i \in 1 .. Len(u.schedule), i < u.index
      PROVE  Passed(b, u, u.schedule[i])
  <2>1. CASE i < t.index
    BY <1>1, <1>2, <1>4, <2>1 DEF Good, Passed
  <2>2. CASE ~(i < t.index)
    <3>1. i = t.index /\ u.schedule[i] = p
      BY <1>1, <1>4, <2>2 DEF Targets
    <3> QED
      BY <1>3, <3>1 DEF Passed
  <2> QED
    BY <2>1, <2>2
<1>5. PlanOf(b, u)
  BY <1>1 DEF Good, PlanOf
<1>6. u.index >= t.index
  BY <1>1 DEF Targets
<1> QED
  BY <1>1, <1>4, <1>5, <1>6 DEF Good, u
LEMMA AreasOf ==
    ASSUME NEW n \in Nat, NEW a \in Nat \ {0}, NEW x \in 0 .. a, NEW y \in Nat,
           y <= n * a
    PROVE  /\ y + x <= (n + 1) * a
           /\ y + x > 2 * a => n >= 2
           /\ y >= 2 * a => n >= 2
<1>1. (n + 1) * a = n * a + a
  OBVIOUS
<1>2. n = 0 => n * a = 0
  OBVIOUS
<1>3. n = 1 => n * a = a
  OBVIOUS
<1>4. n * a \in Nat
  OBVIOUS
<1> QED
  BY <1>1, <1>2, <1>3, <1>4

\* The page that comes, counted as ready.
Readied(u, q, x) ==
    [u EXCEPT !.bytes = @ + x,
              !.ready = @ \cup {[page |-> q.page, width |-> q.width]},
              !.index = @ + 1]

Outcome(u, q, r, x, w) ==
    \/ w = MarkFailed(u, q.page)
    \/ w = u /\ Done(u, q.page)
    \/ r.frames /\ u.bytes + x > u.max
         /\ w = [MarkFailed(u, q.page) EXCEPT !.exhausted = TRUE]
    \/ r.frames /\ ~Done(u, q.page) /\ w = Readied(u, q, x)

LEMMA HandledOutcome ==
    ASSUME NEW t, NEW q, NEW r, r.frames \in BOOLEAN
    PROVE  Outcome(LearnCount(t, r.count), q, r, PageBytes[q.page][q.width],
                   Handled(t, q, r))
  BY DEF Handled, Outcome, Readied

LEMMA HandledGood ==
    ASSUME NEW b \in SpadBooks, NEW t \in Targets, Good(b, t), IsFiniteSet(t.ready),
           NEW q \in SpadRequests, Asked(b, t, q), NEW r \in SpadAnswers(b, q.page),
           NEW x, x = PageBytes[q.page][q.width], r.frames => x \in Nat
    PROVE  LET w == Handled(t, q, r)
           IN  /\ w \in Targets /\ Good(b, w) /\ IsFiniteSet(w.ready)
               /\ w.max = t.max
               /\ \A a \in Nat \ {0} :
                    Afford(t, a) /\ (r.frames => x <= a) /\ t.max >= 2 * a => Afford(w, a)
<1> DEFINE u == LearnCount(t, r.count)
           w == Handled(t, q, r)
<1>1. r.count \in {0, b.count} /\ r.frames \in BOOLEAN
      /\ (r.frames => q.page < r.count)
  BY DEF SpadAnswers
<1>2. /\ u \in Targets /\ Rescheduled(t, u) /\ Good(b, u)
      /\ u.schedule # <<>>
      /\ r.count > 0 => u.known = b.count
      /\ \/ u = t
         \/ /\ u.index = 1
            /\ t.known = b.known /\ t.known # b.count
            /\ t.entry = EntryFor(b.known, b.entry)
            /\ u.entry = EntryFor(b.count, t.entry)
            /\ u.schedule[1] = u.entry
  BY <1>1, LearnedGood DEF Asked
<1>3. Outcome(u, q, r, x, w)
  BY <1>1, HandledOutcome
<1>4. q.page \in Nat /\ q.width \in Nat
  BY DEF SpadRequests
<1>5. ~Done(u, q.page) /\ IsFiniteSet(u.ready)
  BY <1>2 DEF Asked, Done, ReadyPages, Rescheduled
<1> HIDE DEF u, w
<1>6. \A a \in Nat \ {0} : Afford(t, a) => Afford(u, a)
  BY <1>2 DEF Afford, Rescheduled
<1> DEFINE m == MarkFailed(u, q.page)
<1>7. /\ m \in Targets /\ Good(b, m)
      /\ m.ready = u.ready /\ m.bytes = u.bytes /\ m.max = u.max
      /\ m.exhausted = u.exhausted
  BY <1>2, <1>4, MarkedGood
<1>8. u.max = t.max
  BY <1>2 DEF Rescheduled
<1> HIDE DEF m
<1>9. CASE w = m
  <2>1. \A a \in Nat \ {0} : Afford(t, a) => Afford(m, a)
    BY <1>6, <1>7 DEF Afford
  <2> QED
    BY <1>5, <1>7, <1>8, <1>9, <2>1 DEF w
<1>10. CASE r.frames /\ u.bytes + x > u.max /\ w = [m EXCEPT !.exhausted = TRUE]
  <2>1. /\ w \in Targets /\ w.ready = u.ready /\ w.bytes = u.bytes
        /\ w.max = u.max /\ w.known = m.known /\ w.entry = m.entry
        /\ w.schedule = m.schedule /\ w.index = m.index /\ w.failed = m.failed
    BY <1>7, <1>10 DEF Targets
  <2>2. Good(b, w)
    BY <1>7, <2>1 DEF Good, PlanOf, Passed, Done, ReadyPages
  <2>3. ASSUME NEW a \in Nat \ {0}, Afford(t, a), x <= a, t.max >= 2 * a
        PROVE  Afford(w, a)
    <3> DEFINE n == Cardinality(u.ready)
    <3>1. n \in Nat /\ u.bytes \in Nat /\ u.max \in Nat /\ x \in 0 .. a
      <4>1. n \in Nat
        BY <1>5, FS_CardinalityType
      <4>2. u.bytes \in Nat /\ u.max \in Nat
        BY <1>2 DEF Targets
      <4>3. x \in Nat
        BY <1>10
      <4> QED
        BY <2>3, <4>1, <4>2, <4>3
    <3>2. u.bytes <= n * a
      BY <1>6, <2>3 DEF Afford
    <3>3. u.bytes + x > 2 * a
      BY <1>8, <1>10, <2>3, <3>1
    <3>4. n >= 2
      BY <3>1, <3>2, <3>3, AreasOf
    <3> QED
      BY <2>1, <3>2, <3>4 DEF Afford, Guaranteed
  <2> QED
    BY <1>5, <1>8, <1>10, <2>1, <2>2, <2>3 DEF w
<1>11. CASE r.frames /\ w = Readied(u, q, x)
  <2> DEFINE e == [page |-> q.page, width |-> q.width]
  <2>1. e \in [page : Nat, width : Nat] /\ e.page = q.page
    BY <1>4
  <2>2. /\ w \in Targets /\ w.ready = u.ready \cup {e} /\ w.bytes = u.bytes + x
        /\ w.max = u.max /\ w.known = u.known /\ w.entry = u.entry
        /\ w.schedule = u.schedule /\ w.index = u.index + 1
        /\ w.failed = u.failed /\ w.exhausted = u.exhausted
    <3> HIDE DEF e
    <3>1. w = [u EXCEPT !.bytes = u.bytes + x, !.ready = u.ready \cup {e},
                        !.index = u.index + 1]
      BY <1>2, <1>11 DEF Readied, Targets, e
    <3>2. u.bytes + x \in Nat /\ u.index + 1 \in Nat \ {0}
      <4>1. u.bytes \in Nat /\ u.index \in Nat
        BY <1>2 DEF Targets
      <4>2. x \in Nat
        BY <1>11
      <4> QED
        BY ONLY <4>1, <4>2
    <3>3. u.ready \subseteq [page : Nat, width : Nat]
      BY <1>2 DEF Targets
    <3>4. u.ready \cup {e} \in SUBSET [page : Nat, width : Nat]
      BY <2>1, <3>3
    <3> QED
      BY <1>2, <3>1, <3>2, <3>4 DEF Targets
  <2> HIDE DEF e
  <2>3. e \notin u.ready /\ Done(w, q.page) /\ \A p : Done(u, p) => Done(w, p)
    BY <1>5, <2>1, <2>2 DEF Done, ReadyPages
  <2>4. u.known = b.count /\ q.page < b.count
    BY <1>1, <1>2, <1>4, <1>11 DEF SpadBooks
  <2>5. PlanOf(b, w)
    BY <1>2, <2>2, <2>4 DEF Good, PlanOf
  <2>6. ASSUME NEW i \in 1 .. Len(w.schedule), i < w.index
        PROVE  Passed(b, w, w.schedule[i])
    <3>1. CASE i < u.index
      BY <1>2, <2>2, <2>3, <2>6, <3>1 DEF Good, Passed
    <3>2. CASE i = u.index /\ u = t
      BY <2>2, <2>3, <3>2 DEF Asked, Passed
    <3>3. CASE i = u.index /\ u # t
      <4>1. /\ i = 1 /\ w.schedule[i] = EntryFor(b.count, t.entry)
            /\ t.known = b.known /\ t.known # b.count
            /\ t.entry = EntryFor(b.known, b.entry)
        BY <1>2, <2>2, <3>3
      <4>2. /\ IsSchedule(t.schedule, t.known, t.entry)
            /\ t.index \in 1 .. Len(t.schedule)
            /\ t.schedule[t.index] = q.page
        BY DEF Asked, Good, PlanOf
      <4>3. CASE t.entry < b.count
        <5>1. w.schedule[i] = t.entry /\ t.schedule[1] = t.entry
          BY <4>1, <4>2, <4>3 DEF EntryFor, IsSchedule
        <5>2. CASE t.index = 1
          BY <2>3, <4>2, <5>1, <5>2 DEF Passed
        <5>3. CASE t.index # 1
          <6>1. Passed(b, t, t.schedule[1])
            BY <4>2, <5>3 DEF Good
          <6>2. Done(t, t.entry)
            BY <4>1, <5>1, <6>1 DEF Passed
          <6>3. Done(u, t.entry)
            BY <1>2, <6>2 DEF Done, ReadyPages, Rescheduled
          <6> QED
            BY <2>3, <5>1, <6>3 DEF Passed
        <5> QED
          BY <5>2, <5>3
      <4>4. CASE ~(t.entry < b.count)
        <5>1. b.known \in Nat /\ b.count \in Nat /\ b.entry \in Nat /\ t.entry \in Nat
          BY DEF SpadBooks, Targets
        <5>2. q.page < t.entry
          BY <1>4, <2>4, <4>4, <5>1
        <5>3. t.known = t.entry + 1 /\ q.page = t.entry - 1
          BY <1>4, <4>1, <4>2, <5>1, <5>2 DEF IsSchedule
        <5>4. b.entry = t.entry /\ b.count = t.entry
          BY <1>4, <2>4, <4>1, <4>4, <5>1, <5>3 DEF EntryFor
        <5>5. b.known = b.count + 1 /\ b.entry = b.count /\ w.schedule[i] = 0
          BY <2>4, <4>1, <5>1, <5>3, <5>4, <1>4 DEF EntryFor
        <5>6. CASE b.count > 1
          BY <2>2, <2>4, <5>5, <5>6 DEF Passed, OneTooMany
        <5>7. CASE ~(b.count > 1)
          <6>1. q.page = 0
            BY <1>4, <2>4, <5>1, <5>7
          <6> QED
            BY <2>3, <5>5, <6>1 DEF Passed
        <5> QED
          BY <5>6, <5>7
      <4> QED
        BY <4>3, <4>4
    <3>4. u.index \in Nat
      BY <1>2 DEF Targets
    <3>5. i < u.index + 1
      BY <2>2, <2>6
    <3>6. i < u.index \/ i = u.index
      BY <3>4, <3>5
    <3> QED
      BY <3>1, <3>2, <3>3, <3>6
  <2>7. Good(b, w)
    BY <2>2, <2>4, <2>5, <2>6 DEF Good
  <2>8. IsFiniteSet(w.ready) /\ Cardinality(w.ready) = Cardinality(u.ready) + 1
    <3>1. /\ IsFiniteSet(u.ready \cup {e})
          /\ Cardinality(u.ready \cup {e}) =
               IF e \in u.ready THEN Cardinality(u.ready) ELSE Cardinality(u.ready) + 1
      BY <1>5, FS_AddElement
    <3> QED
      BY <2>2, <2>3, <3>1
  <2>9. ASSUME NEW a \in Nat \ {0}, Afford(t, a), x <= a
        PROVE  Afford(w, a)
    <3> DEFINE n == Cardinality(u.ready)
    <3>1. n \in Nat /\ u.bytes \in Nat /\ x \in 0 .. a
      <4>1. n \in Nat
        BY <1>5, FS_CardinalityType
      <4>2. u.bytes \in Nat
        BY <1>2 DEF Targets
      <4>3. x \in Nat
        BY <1>11
      <4> QED
        BY <2>9, <4>1, <4>2, <4>3
    <3>2. Afford(u, a)
      BY <1>6, <2>9
    <3>3. u.bytes <= n * a
      BY <3>2 DEF Afford
    <3>4. u.bytes + x <= (n + 1) * a
      BY <3>1, <3>3, AreasOf
    <3>5. u.exhausted => n >= Guaranteed
      BY <3>2 DEF Afford
    <3> HIDE DEF n
    <3>6. w.exhausted => n + 1 >= Guaranteed
      BY <2>2, <3>1, <3>5 DEF Guaranteed
    <3>7. Cardinality(w.ready) = n + 1
      BY <2>8 DEF n
    <3> QED
      BY <2>2, <3>4, <3>6, <3>7 DEF Afford
  <2> QED
    BY <1>8, <1>11, <2>2, <2>7, <2>8, <2>9 DEF w
<1> QED
  BY <1>3, <1>5, <1>9, <1>10, <1>11 DEF Outcome, w, m
(***************************************************************************)
(* A frame.                                                                *)
(***************************************************************************)
LEMMA FirstPending ==
    ASSUME NEW b \in SpadBooks, NEW t \in Targets, Good(b, t), Pending(t) # {}
    PROVE  LET u == Advanced(t)
           IN  /\ u \in Targets /\ Good(b, u)
               /\ u.ready = t.ready /\ u.bytes = t.bytes /\ u.exhausted = t.exhausted
               /\ u.schedule = t.schedule /\ u.schedule # <<>>
               /\ u.index \in 1 .. Len(u.schedule) /\ ~Done(u, u.schedule[u.index])
               /\ u.index >= t.index
<1> DEFINE i == CHOOSE i \in Pending(t) : \A j \in Pending(t) : i <= j
           u == Advanced(t)
<1>1. Pending(t) \subseteq Nat
  BY DEF Pending, Targets
<1>2. \E x \in Pending(t) : \A y \in Pending(t) : x <= y
  BY <1>1, LeastNat
<1>3. i \in Pending(t) /\ \A j \in Pending(t) : i <= j
  BY <1>2
<1>4. u = [t EXCEPT !.index = i]
  BY DEF Advanced
<1> HIDE DEF i, u
<1>5. i \in t.index .. Len(t.schedule) /\ ~Done(t, t.schedule[i])
  BY <1>3 DEF Pending
<1>6. i \in Nat \ {0} /\ i \in 1 .. Len(t.schedule) /\ t.index \in Nat \ {0}
  BY <1>5 DEF Targets
<1>7. /\ u \in Targets /\ u.ready = t.ready /\ u.bytes = t.bytes
      /\ u.exhausted = t.exhausted /\ u.schedule = t.schedule /\ u.known = t.known
      /\ u.entry = t.entry /\ u.failed = t.failed /\ u.index = i
  BY <1>4, <1>6 DEF Targets
<1>8. t.schedule # <<>>
  BY <1>6
<1>9. PlanOf(b, u)
  BY <1>7, <1>8 DEF Good, PlanOf
<1>10. ASSUME NEW j \in 1 .. Len(t.schedule), j < i
       PROVE  Passed(b, t, t.schedule[j])
  <2>1. CASE j < t.index
    BY <2>1 DEF Good
  <2>2. CASE ~(j < t.index)
    <3>1. j \in t.index .. Len(t.schedule)
      BY <1>6, <2>2
    <3>2. j \notin Pending(t)
      BY <1>3, <1>6, <1>10
    <3> QED
      BY <3>1, <3>2 DEF Pending, Passed
  <2> QED
    BY <2>1, <2>2
<1>11. Good(b, u)
  BY <1>7, <1>9, <1>10 DEF Good, Passed, Done, ReadyPages
<1>12. u.index >= t.index
  BY <1>5, <1>6, <1>7
<1> QED
  BY <1>5, <1>6, <1>7, <1>8, <1>11, <1>12 DEF Done, ReadyPages, u

\* The target of a side while the frame looks at it.
Sound(s, t) ==
    /\ t \in Targets /\ IsFiniteSet(t.ready)
    /\ Good(book[s], t)
    /\ ~resized => Afford(t, AreaBytes[WidthFor(s)])
    /\ Waiting(s) => Asked(book[s], t, spadInflight[s])

LEMMA TakenSound ==
    ASSUME SpadInv, NEW s \in SidesPresent
    PROVE  Sound(s, Taken(s)) /\ Taken(s).max >= 2 * AreaBytes[WidthFor(s)]
<1> DEFINE b == book[s]
           a == AreaBytes[WidthFor(s)]
           t == target[s]
           y == Budgeted(s, t)
<1>1. /\ b \in SpadBooks /\ a \in Nat \ {0} /\ t \in Targets /\ ExtraBytes \in Nat
      /\ WidthFor(s) \in SpadWidths
  BY SpadBook DEF SpadInv
<1>2. Good(b, t) /\ IsFiniteSet(t.ready) /\ (~resized => Afford(t, a))
  BY DEF SpadInv, SpadTyped
<1>3. s \in DOMAIN spadInflight =>
        /\ Asked(b, t, spadInflight[s]) /\ spadInflight[s] \in SpadRequests
        /\ spadInflight[s].width \in SpadWidths
        /\ ~resized => spadInflight[s].width = WidthFor(s)
  BY DEF SpadInv, SpadTyped
<1>4. y = [t EXCEPT !.max = 2 * a + ExtraBytes]
  BY DEF Budgeted
<1>5. Taken(s) = IF HasAnswer(s)
                 THEN Handled(y, spadInflight[s], Head(spadInflight[s].answer)) ELSE y
  BY DEF Taken
<1>6. b = book[s] /\ a = AreaBytes[WidthFor(s)]
  OBVIOUS
<1> HIDE DEF y, t, b, a
<1>7. 2 * a + ExtraBytes \in Nat
  BY <1>1
<1>8. /\ y \in Targets /\ y.known = t.known /\ y.entry = t.entry
      /\ y.schedule = t.schedule /\ y.index = t.index /\ y.ready = t.ready
      /\ y.failed = t.failed /\ y.bytes = t.bytes /\ y.exhausted = t.exhausted
      /\ y.max = 2 * a + ExtraBytes
  BY <1>1, <1>4, <1>7 DEF Targets
<1>9. /\ Good(b, y) /\ IsFiniteSet(y.ready) /\ (~resized => Afford(y, a))
      /\ s \in DOMAIN spadInflight => Asked(b, y, spadInflight[s])
  BY <1>2, <1>3, <1>8 DEF Good, PlanOf, Passed, Done, ReadyPages, Afford, Asked
<1>10. y.max >= 2 * a
  BY <1>1, <1>8
<1>11. CASE ~HasAnswer(s)
  BY <1>5, <1>6, <1>8, <1>9, <1>10, <1>11 DEF Sound, Waiting
<1>12. CASE HasAnswer(s)
  <2> DEFINE q == spadInflight[s]
             x == PageBytes[q.page][q.width]
  <2>1. s \in DOMAIN spadInflight /\ q.answer # <<>> /\ ~Waiting(s)
    BY <1>12 DEF HasAnswer, Waiting
  <2>2. PICK r \in SpadAnswers(b, q.page) : q.answer = <<r>>
    BY <1>3, <2>1 DEF Asked
  <2>3. Head(q.answer) = r
    BY <2>2
  <2>4. q \in SpadRequests /\ q.width \in SpadWidths /\ Asked(b, y, q)
        /\ (~resized => q.width = WidthFor(s))
    BY <1>3, <1>9, <2>1
  <2>5. r.frames => x \in 0 .. AreaBytes[q.width] /\ AreaBytes[q.width] \in Nat
    <3>1. SUFFICES ASSUME r.frames
                   PROVE  x \in 0 .. AreaBytes[q.width] /\ AreaBytes[q.width] \in Nat
      OBVIOUS
    <3>2. q.page < b.count /\ q.page \in Nat /\ b.count \in Nat
      BY <1>1, <2>4, <3>1 DEF SpadAnswers, SpadRequests, SpadBooks
    <3>3. q.page \in 0 .. b.count - 1
      BY <3>2
    <3>4. book \in Neighbourhoods /\ s \in DOMAIN book
      BY DEF SpadInv, SpadTyped, SidesPresent
    <3> QED
      BY <1>6, <2>4, <3>3, <3>4, SpadAssumption
  <2> DEFINE w == Handled(y, q, r)
  <2> HIDE DEF q, w
  <2>6. r.frames => x \in Nat
    BY <2>5
  <2>7. /\ w \in Targets /\ Good(b, w) /\ IsFiniteSet(w.ready)
        /\ w.max = y.max
        /\ \A c \in Nat \ {0} :
             Afford(y, c) /\ (r.frames => x <= c) /\ y.max >= 2 * c => Afford(w, c)
    BY <1>1, <1>8, <1>9, <2>2, <2>4, <2>6, HandledGood DEF w
  <2>8. ~resized => (r.frames => x <= a)
    BY <1>1, <1>6, <2>4, <2>5
  <2>9. ~resized => Afford(w, a)
    BY <1>1, <1>9, <1>10, <2>7, <2>8
  <2>10. Taken(s) = w
    BY <1>5, <1>12, <2>3 DEF w, q
  <2> QED
    BY <1>6, <1>10, <2>1, <2>7, <2>9, <2>10 DEF Sound
<1> QED
  BY <1>11, <1>12

LEMMA LookedSound ==
    ASSUME SpadInv, NEW s \in SidesPresent
    PROVE  Sound(s, Looked(s)) /\ (gate # "closed" => Looked(s).schedule # <<>>)
<1> DEFINE t == Taken(s)
           u == Scheduled(t)
           w == CheckBudget(u)
           b == book[s]
           a == AreaBytes[WidthFor(s)]
<1>1. b \in SpadBooks /\ a \in Nat \ {0}
  BY SpadBook DEF SpadInv
<1>2. Sound(s, t) /\ t.max >= 2 * a
  BY TakenSound
<1>3. CASE gate = "closed"
  BY <1>2, <1>3 DEF Looked
<1>4. CASE gate # "closed"
  <2>1. Looked(s) = w
    BY <1>4 DEF Looked
  <2>2. w = [u EXCEPT !.exhausted = u.exhausted \/ (u.bytes >= u.max)]
    BY DEF CheckBudget
  <2>3. b = book[s] /\ a = AreaBytes[WidthFor(s)]
    OBVIOUS
  <2> HIDE DEF t, w, b, a
  <2>4. t \in Targets /\ IsFiniteSet(t.ready) /\ Good(b, t)
        /\ (~resized => Afford(t, a)) /\ (Waiting(s) => Asked(b, t, spadInflight[s]))
    BY <1>2, <2>3 DEF Sound
  <2>5. /\ u \in Targets /\ Rescheduled(t, u) /\ Good(b, u) /\ u.schedule # <<>>
        /\ t.schedule # <<>> => u = t
    BY <1>1, <2>4, ScheduledGood
  <2> HIDE DEF u
  <2>6. Waiting(s) => Asked(b, u, spadInflight[s])
    BY <2>4, <2>5 DEF Asked
  <2>7. u.exhausted \in BOOLEAN /\ u.bytes \in Nat /\ u.max \in Nat
    BY <2>5 DEF Targets
  <2>8. /\ w \in Targets /\ w.known = u.known /\ w.entry = u.entry
        /\ w.schedule = u.schedule /\ w.index = u.index /\ w.ready = u.ready
        /\ w.failed = u.failed /\ w.bytes = u.bytes
        /\ w.exhausted => u.exhausted \/ u.bytes >= u.max
    BY <2>2, <2>5, <2>7 DEF Targets
  <2>9. /\ Good(b, w) /\ IsFiniteSet(w.ready)
        /\ Waiting(s) => Asked(b, w, spadInflight[s])
    BY <2>4, <2>5, <2>6, <2>8
       DEF Good, PlanOf, Passed, Done, ReadyPages, Asked, Rescheduled
  <2>10. ASSUME ~resized PROVE Afford(w, a)
    <3> DEFINE n == Cardinality(u.ready)
    <3>1. Afford(u, a) /\ u.max >= 2 * a /\ IsFiniteSet(u.ready)
      BY <1>2, <2>4, <2>5, <2>10 DEF Afford, Rescheduled
    <3>2. n \in Nat
      BY <3>1, FS_CardinalityType
    <3>3. u.bytes <= n * a
      BY <3>1 DEF Afford
    <3>4. u.bytes >= 2 * a => n >= 2
      BY <1>1, <2>7, <3>2, <3>3, AreasOf
    <3>5. u.bytes >= u.max => n >= 2
      BY <1>1, <2>7, <3>1, <3>4
    <3> QED
      BY <2>8, <3>1, <3>3, <3>5 DEF Afford, Guaranteed
  <2> QED
    BY <2>1, <2>3, <2>5, <2>8, <2>9, <2>10 DEF Sound
<1> QED
  BY <1>3, <1>4
LEMMA SpadInitial == SpadInit => SpadInv
<1> SUFFICES ASSUME SpadInit PROVE SpadInv
  OBVIOUS
<1>1. /\ DOMAIN spadInflight = {} /\ DOMAIN target = SidesPresent
      /\ book \in Neighbourhoods /\ area \in Areas /\ due = TRUE /\ resized = FALSE
  BY DEF SpadInit
<1>2. ASSUME NEW s \in SidesPresent
      PROVE  /\ target[s] \in Targets /\ IsFiniteSet(target[s].ready)
             /\ Good(book[s], target[s])
             /\ Afford(target[s], AreaBytes[WidthFor(s)])
  <2> DEFINE b == book[s]
             t == target[s]
  <2>1. b \in SpadBooks
    BY <1>1, SpadAssumption DEF SidesPresent, SpadBooks
  <2>2. t = NewTarget(b)
    BY DEF SpadInit
  <2> HIDE DEF b, t
  <2>3. /\ t \in Targets /\ t.ready = {} /\ t.schedule = <<>> /\ t.index = 1
        /\ t.known = b.known /\ t.entry = b.entry /\ t.bytes = 0 /\ t.exhausted = FALSE
    BY <2>1, <2>2 DEF NewTarget, Targets, SpadBooks
  <2>4. Good(b, t)
    BY <2>3 DEF Good, PlanOf
  <2>5. IsFiniteSet(t.ready) /\ Cardinality(t.ready) = 0
    BY <2>3, FS_EmptySet
  <2>6. AreaBytes[WidthFor(s)] \in Nat
    <3>1. area \in SpadWidths
      BY <1>1 DEF SpadWidths
    <3>2. b.width # 0 => b.width \in SpadWidths
      <4>1. b.width \in {book[r].width : r \in DOMAIN book}
        BY DEF SidesPresent, b
      <4>2. {book[r].width : r \in DOMAIN book}
              \in {{c[r].width : r \in DOMAIN c} : c \in Neighbourhoods}
        BY <1>1
      <4> QED
        BY <4>1, <4>2 DEF SpadWidths
    <3> QED
      BY <3>1, <3>2, SpadAssumption DEF WidthFor, b
  <2>7. Afford(t, AreaBytes[WidthFor(s)])
    BY <2>3, <2>5, <2>6 DEF Afford
  <2> QED
    BY <2>3, <2>4, <2>5, <2>7 DEF b, t
<1>3. SpadTyped
  BY <1>1, <1>2 DEF SpadTyped
<1> QED
  BY <1>1, <1>2, <1>3 DEF SpadInv, HasAnswer

LEMMA SpadPollKeeps ==
    ASSUME SpadInv, PollSpad
    PROVE  SpadInv'
<1> DEFINE sent == {s \in SidesPresent : Dispatches(s)}
           kept == {r \in SidesPresent : Waiting(r)}
<1>1. /\ target' = [s \in SidesPresent |->
                       IF s \in sent THEN Advanced(Looked(s)) ELSE Looked(s)]
      /\ spadInflight' = [s \in sent \cup kept |->
                             IF s \in sent THEN SpadRequest(s) ELSE spadInflight[s]]
      /\ seen' = gate /\ due' = (sent # {})
      /\ book' = book /\ area' = area /\ resized' = resized
  BY DEF PollSpad
<1>2. SidesPresent' = SidesPresent /\ \A s : WidthFor(s)' = WidthFor(s)
  BY <1>1 DEF SidesPresent, WidthFor
<1>3. ASSUME NEW s \in SidesPresent
      PROVE  /\ book[s] \in SpadBooks /\ WidthFor(s) \in SpadWidths
             /\ WidthFor(s) \in Nat
             /\ Sound(s, Looked(s))
             /\ gate # "closed" => Looked(s).schedule # <<>>
  BY <1>3, SpadBook, LookedSound DEF SpadInv
<1>4. ASSUME NEW s \in sent
      PROVE  LET u == Advanced(Looked(s))
                 q == SpadRequest(s)
             IN  /\ ~Waiting(s)
                 /\ u \in Targets /\ Good(book[s], u) /\ u.ready = Looked(s).ready
                 /\ u.bytes = Looked(s).bytes /\ u.exhausted = Looked(s).exhausted
                 /\ q \in SpadRequests /\ q.width = WidthFor(s) /\ q.answer = <<>>
                 /\ Asked(book[s], u, q)
  <2> DEFINE t == Looked(s)
             u == Advanced(t)
             q == SpadRequest(s)
  <2>1. s \in SidesPresent /\ ~Waiting(s) /\ Pending(t) # {}
    BY <1>4 DEF Dispatches
  <2>2. book[s] \in SpadBooks /\ WidthFor(s) \in Nat /\ t \in Targets /\ Good(book[s], t)
    BY <1>3, <2>1 DEF Sound
  <2>3. q = [page |-> u.schedule[u.index], width |-> WidthFor(s), answer |-> <<>>]
    BY DEF SpadRequest
  <2> HIDE DEF t
  <2>4. /\ u \in Targets /\ Good(book[s], u)
        /\ u.ready = t.ready /\ u.bytes = t.bytes /\ u.exhausted = t.exhausted
        /\ u.schedule # <<>>
        /\ u.index \in 1 .. Len(u.schedule) /\ ~Done(u, u.schedule[u.index])
    BY <2>1, <2>2, FirstPending
  <2> HIDE DEF u, q
  <2>5. u.schedule[u.index] \in Nat
    BY <2>4 DEF Targets
  <2>6. <<>> \in Seq([count : Nat, frames : BOOLEAN])
    OBVIOUS
  <2>7. q \in SpadRequests /\ q.page = u.schedule[u.index]
        /\ q.width = WidthFor(s) /\ q.answer = <<>>
    BY <2>2, <2>3, <2>5, <2>6 DEF SpadRequests
  <2>8. Asked(book[s], u, q)
    BY <2>4, <2>7 DEF Asked
  <2> QED
    BY <2>1, <2>4, <2>7, <2>8 DEF t, u, q
<1> HIDE DEF sent
<1>5. sent \subseteq SidesPresent
  BY DEF sent
<1>6. ASSUME NEW s \in SidesPresent
      PROVE  /\ target'[s] \in Targets /\ IsFiniteSet(target'[s].ready)
             /\ Good(book[s], target'[s])
             /\ ~resized => Afford(target'[s], AreaBytes[WidthFor(s)])
  <2>1. CASE s \in sent
    <3>1. target'[s] = Advanced(Looked(s))
      BY <1>1, <2>1
    <3> QED
      BY <1>3, <1>4, <2>1, <3>1 DEF Sound, Afford
  <2>2. CASE s \notin sent
    <3>1. target'[s] = Looked(s)
      BY <1>1, <2>2
    <3> QED
      BY <1>3, <3>1 DEF Sound
  <2> QED
    BY <2>1, <2>2
<1>7. ASSUME NEW s \in DOMAIN spadInflight'
      PROVE  /\ s \in SidesPresent
             /\ spadInflight'[s] \in SpadRequests /\ spadInflight'[s].width \in SpadWidths
             /\ spadInflight'[s].answer = <<>>
             /\ Asked(book[s], target'[s], spadInflight'[s])
             /\ ~resized => spadInflight'[s].width = WidthFor(s)
  <2>1. s \in sent \cup kept
    BY <1>1
  <2>2. CASE s \in sent
    <3>1. target'[s] = Advanced(Looked(s)) /\ spadInflight'[s] = SpadRequest(s)
      BY <1>1, <1>5, <2>2
    <3> QED
      BY <1>3, <1>4, <1>5, <2>2, <3>1
  <2>3. CASE s \notin sent
    <3>1. s \in SidesPresent /\ Waiting(s) /\ spadInflight'[s] = spadInflight[s]
          /\ target'[s] = Looked(s)
      BY <1>1, <2>1, <2>3
    <3>2. s \in DOMAIN spadInflight /\ spadInflight[s].answer = <<>>
      BY <3>1 DEF Waiting
    <3>3. /\ spadInflight[s] \in SpadRequests /\ spadInflight[s].width \in SpadWidths
          /\ ~resized => spadInflight[s].width = WidthFor(s)
      BY <3>2 DEF SpadInv, SpadTyped
    <3> QED
      BY <1>3, <3>1, <3>2, <3>3 DEF Sound
  <2> QED
    BY <2>2, <2>3
<1>8. ASSUME NEW s \in SidesPresent, s \notin DOMAIN spadInflight', gate # "closed"
      PROVE  LET t == target'[s]
             IN  \/ t.exhausted
                 \/ gate = "guaranteed" /\ Cardinality(t.ready) >= Guaranteed
                 \/ t.schedule # <<>> /\ Pending(t) = {}
  <2>1. s \notin sent /\ ~Waiting(s) /\ target'[s] = Looked(s)
    BY <1>1, <1>8
  <2>2. Looked(s).schedule # <<>> /\ ~Dispatches(s) /\ Looked(s) \in Targets
        /\ IsFiniteSet(Looked(s).ready)
    BY <1>3, <1>8, <2>1 DEF sent, Sound
  <2>3. Cardinality(Looked(s).ready) \in Nat
    BY <2>2, FS_CardinalityType
  <2> DEFINE t == Looked(s)
  <2>4. ~(t.exhausted = FALSE /\ (gate = "guaranteed" => Cardinality(t.ready) < Guaranteed)
            /\ Pending(t) # {})
    BY <1>8, <2>1, <2>2 DEF Dispatches, Targets
  <2> HIDE DEF t
  <2>5. t.exhausted \in BOOLEAN
    BY <2>2 DEF Targets, t
  <2>6. \/ t.exhausted
        \/ gate = "guaranteed" /\ Cardinality(t.ready) >= Guaranteed
        \/ Pending(t) = {}
    BY <2>3, <2>4, <2>5 DEF Guaranteed, t
  <2> QED
    BY <2>1, <2>2, <2>6 DEF t
<1>9. SpadTyped'
  <2>1. DOMAIN target' = SidesPresent
    BY <1>1
  <2>2. due' \in BOOLEAN
    BY <1>1
  <2> QED
    BY <1>1, <1>2, <1>6, <1>7, <2>1, <2>2 DEF SpadTyped, SpadInv
<1>10. \A s \in SidesPresent : ~HasAnswer(s)'
  BY <1>7 DEF HasAnswer
<1>11. \A s \in SidesPresent :
         s \notin DOMAIN spadInflight' /\ ~due' /\ seen' # "closed" => AtRest(s)'
  BY <1>1, <1>8 DEF AtRest
<1> QED
  BY <1>1, <1>2, <1>6, <1>7, <1>9, <1>10, <1>11 DEF SpadInv

LEMMA DecodeKeeps ==
    ASSUME SpadInv, NEW s \in SidesPresent, DecodeSpad(s)
    PROVE  SpadInv'
<1>1. PICK open \in BOOLEAN, still \in BOOLEAN :
        LET count == IF open THEN book[s].count ELSE 0
        IN  spadInflight' = [spadInflight EXCEPT ![s].answer =
                <<[count |-> count, frames |-> spadInflight[s].page < count /\ still]>>]
  BY DEF DecodeSpad
<1> DEFINE count == IF open THEN book[s].count ELSE 0
           r == [count |-> count, frames |-> spadInflight[s].page < count /\ still]
           q == [spadInflight[s] EXCEPT !.answer = <<r>>]
<1>2. /\ target' = target /\ book' = book /\ area' = area /\ seen' = seen
      /\ resized' = resized /\ due' = TRUE
      /\ s \in DOMAIN spadInflight
  BY DEF DecodeSpad, Waiting
<1>3. spadInflight' = [spadInflight EXCEPT ![s] = q]
  BY <1>1, <1>2
<1>4. /\ book[s] \in SpadBooks /\ spadInflight[s] \in SpadRequests
      /\ spadInflight[s].width \in SpadWidths
      /\ Asked(book[s], target[s], spadInflight[s])
  BY <1>2, SpadBook DEF SpadInv, SpadTyped
<1>5. /\ r \in SpadAnswers(book[s], spadInflight[s].page)
      /\ r \in [count : Nat, frames : BOOLEAN]
  <2>1. count \in {0, book[s].count} /\ count \in Nat
    BY <1>4 DEF SpadBooks
  <2>2. (spadInflight[s].page < count /\ still) \in BOOLEAN
    OBVIOUS
  <2> HIDE DEF count
  <2> QED
    BY <2>1, <2>2 DEF SpadAnswers
<1> HIDE DEF r
<1>6. <<r>> \in Seq([count : Nat, frames : BOOLEAN])
  BY <1>5
<1> DEFINE a == <<r>>
<1>7. /\ q \in SpadRequests /\ q.width = spadInflight[s].width
      /\ q.page = spadInflight[s].page /\ q.answer = a
  <2>1. a \in Seq([count : Nat, frames : BOOLEAN])
        /\ q = [spadInflight[s] EXCEPT !.answer = a]
    BY <1>6
  <2> HIDE DEF a, q
  <2> QED
    BY <1>4, <2>1 DEF SpadRequests
<1> HIDE DEF q
<1>8. Asked(book[s], target[s], q)
  BY <1>4, <1>5, <1>7 DEF Asked
<1>9. SidesPresent' = SidesPresent /\ \A p : WidthFor(p)' = WidthFor(p)
  BY <1>2 DEF SidesPresent, WidthFor
<1>10. ASSUME NEW p \in DOMAIN spadInflight'
       PROVE  /\ p \in DOMAIN spadInflight
              /\ spadInflight'[p] \in SpadRequests
              /\ spadInflight'[p].width = spadInflight[p].width
              /\ Asked(book[p], target[p], spadInflight'[p])
  <2>1. p \in DOMAIN spadInflight
    BY <1>3
  <2>2. CASE p = s
    BY <1>3, <1>7, <1>8, <2>1, <2>2
  <2>3. CASE p # s
    BY <1>3, <2>1, <2>3 DEF SpadInv, SpadTyped
  <2> QED
    BY <2>1, <2>2, <2>3
<1>11. SpadTyped'
  BY <1>2, <1>3, <1>9, <1>10 DEF SpadTyped, SpadInv
<1> QED
  BY <1>2, <1>9, <1>10, <1>11 DEF SpadInv, SpadTyped

LEMMA GateKeeps ==
    ASSUME SpadInv, Gate \/ UNCHANGED spadVars
    PROVE  SpadInv'
<1>1. /\ target' = target /\ book' = book /\ area' = area /\ seen' = seen
      /\ resized' = resized /\ due' = due /\ spadInflight' = spadInflight
  BY DEF Gate, spadVars
<1>2. SidesPresent' = SidesPresent /\ \A p : WidthFor(p)' = WidthFor(p)
  BY <1>1 DEF SidesPresent, WidthFor
<1>3. \A p : (HasAnswer(p)' <=> HasAnswer(p)) /\ (AtRest(p)' <=> AtRest(p))
  BY <1>1 DEF HasAnswer, AtRest
<1>4. SpadTyped'
  BY <1>1, <1>2 DEF SpadTyped, SpadInv
<1> QED
  BY <1>1, <1>2, <1>3, <1>4 DEF SpadInv

LEMMA RelayoutKeeps ==
    ASSUME SpadInv, Relayout
    PROVE  SpadInv'
<1>1. /\ target' = target /\ book' = book /\ area' \in Areas /\ seen' = seen
      /\ resized' = TRUE /\ due' = TRUE /\ spadInflight' = spadInflight
  BY DEF Relayout
<1>2. SidesPresent' = SidesPresent
  BY <1>1 DEF SidesPresent
<1>3. SpadTyped'
  BY <1>1, <1>2 DEF SpadTyped, SpadInv
<1> QED
  BY <1>1, <1>2, <1>3 DEF SpadInv

LEMMA RestIsAwake ==
    ASSUME SpadInv
    PROVE  SpadAwake
<1> SUFFICES ASSUME NEW s \in SidesPresent PROVE SideAwake(s)
  BY DEF SpadAwake
<1> DEFINE b == book[s]
           t == target[s]
<1>1. b \in SpadBooks /\ t \in Targets /\ IsFiniteSet(t.ready) /\ Good(b, t)
  BY SpadBook DEF SpadInv, SpadTyped
<1>2. ASSUME t.schedule # <<>>, Pending(t) = {}
      PROVE  \/ /\ t.known = b.count
                /\ \A p \in Promised(b) : Done(t, p) \/ (p = 0 /\ OneTooMany(b))
             \/ ToSet(t.schedule) \subseteq t.failed
  <2> HIDE DEF b, t
  <2>1. ASSUME NEW i \in 1 .. Len(t.schedule) PROVE Passed(b, t, t.schedule[i])
    <3>1. CASE i < t.index
      BY <1>1, <3>1 DEF Good
    <3>2. CASE ~(i < t.index)
      <4>1. i \in t.index .. Len(t.schedule)
        BY <1>1, <3>2 DEF Targets
      <4> QED
        BY <1>2, <4>1 DEF Pending, Passed
    <3> QED
      BY <3>1, <3>2
  <2>2. CASE t.known # b.count
    <3>1. t.ready = {}
      BY <1>1, <2>2 DEF Good
    <3>2. \A i \in 1 .. Len(t.schedule) : t.schedule[i] \in t.failed
      BY <2>1, <2>2, <3>1 DEF Passed, Done, ReadyPages
    <3>3. t.schedule \in Seq(Nat)
      BY <1>1 DEF Targets
    <3> QED
      BY <3>2, <3>3 DEF ToSet
  <2>3. CASE t.known = b.count
    <3>1. /\ b.count \in Nat /\ b.entry \in Nat /\ b.known \in Nat /\ t.entry \in Nat
      BY <1>1 DEF SpadBooks, Targets
    <3>2. IsSchedule(t.schedule, b.count, t.entry)
      BY <1>1, <1>2, <2>3 DEF Good, PlanOf
    <3>3. t.entry = EntryFor(b.count, EntryFor(b.known, b.entry))
      BY <1>1, <1>2, <2>3, <3>1 DEF Good, PlanOf, EntryFor
    <3>4. ASSUME NEW p \in Promised(b)
          PROVE  \E i \in 1 .. Len(t.schedule) : t.schedule[i] = p
      <4>1. p \in 0 .. b.count - 1 /\ b.count > 0
        BY <3>1, <3>4 DEF Promised
      <4>2. \/ p >= t.entry
            \/ b.count = t.entry + 1 /\ t.entry > 0 /\ p = t.entry - 1
        BY <3>1, <3>3, <3>4, <4>1 DEF Promised, EntryFor
      <4>3. CASE p >= t.entry
        <5>1. p \in t.entry .. b.count - 1
          BY <3>1, <4>1, <4>3
        <5> QED
          BY <3>1, <3>2, <4>1, <5>1 DEF IsSchedule
      <4>4. CASE b.count = t.entry + 1 /\ t.entry > 0 /\ p = t.entry - 1
        BY <3>1, <3>2, <4>1, <4>4 DEF IsSchedule
      <4> QED
        BY <4>2, <4>3, <4>4
    <3> QED
      BY <2>1, <2>3, <3>4 DEF Passed
  <2> QED
    BY <2>2, <2>3
<1>3. HasAnswer(s) => due
  BY DEF SpadInv
<1>4. s \notin DOMAIN spadInflight /\ ~due /\ seen # "closed" => AtRest(s)
  BY DEF SpadInv
<1>5. ~resized => (t.exhausted => Cardinality(t.ready) >= Guaranteed)
  BY DEF SpadInv, Afford
<1> QED
  BY <1>2, <1>3, <1>4, <1>5 DEF SideAwake, AtRest, OpenedUnseen

\* SPAD, as ReadAhead has it while one book is read: in front of an open gate, a side
\* rests only when what was promised of its book is done, its budget of two pages at
\* least is used, the book could not be opened (poll_spad, handle_spad_result), or the
\* gate has moved since the last frame and the manager asked for none after that.
THEOREM SpadAwakeHolds == SpadSpec => []SpadAwake
<1>1. SpadInit => SpadInv
  BY SpadInitial
<1>2. SpadInv /\ [SpadNext]_spadVars => SpadInv'
  <2> SUFFICES ASSUME SpadInv, [SpadNext]_spadVars PROVE SpadInv'
    OBVIOUS
  <2>1. CASE PollSpad
    BY <2>1, SpadPollKeeps
  <2>2. CASE \E s \in SidesPresent : DecodeSpad(s)
    BY <2>2, DecodeKeeps
  <2>3. CASE Gate \/ UNCHANGED spadVars
    BY <2>3, GateKeeps
  <2>4. CASE Relayout
    BY <2>4, RelayoutKeeps
  <2> QED
    BY <2>1, <2>2, <2>3, <2>4 DEF SpadNext
<1>3. SpadInv => SpadAwake
  BY RestIsAwake
<1> QED
  BY <1>1, <1>2, <1>3, PTL DEF SpadSpec

(***************************************************************************)
(* The textures of a book: no page waits for a frame nobody asked for      *)
(* (Awake), and what goes for a page to come makes room for it             *)
(* (NearerWins).                                                           *)
(***************************************************************************)
\* All of a sequence is taken.
LEMMA AmongWhole ==
    ASSUME NEW S, NEW s \in Seq(S), NEW wanted, ToSet(s) \subseteq wanted
    PROVE  Among(s, wanted) = s
<1> DEFINE n == Len(s)
<1>1. n \in Nat /\ DOMAIN s = 1 .. n /\ \A k \in 1 .. n : s[k] \in S
  OBVIOUS
<1>2. \A k \in 1 .. n : s[k] \in wanted
  BY <1>1 DEF ToSet
<1>3. PICK F : Picks(F, S, s, wanted)
  BY AmongIs
<1>4. /\ F \in [0 .. n -> Seq(S)] /\ F[0] = <<>>
      /\ \A k \in 1 .. n : F[k] = Append(F[k - 1], s[k])
      /\ Among(s, wanted) = F[n]
  BY <1>2, <1>3 DEF Picks
<1> DEFINE P == {k \in 0 .. n : F[k] = SubSeq(s, 1, k)}
<1>5. 0 \in P
  <2>1. SubSeq(s, 1, 0) = <<>> /\ 0 \in 0 .. n
    BY <1>1, SubSeqEmpty
  <2> QED
    BY <1>4, <2>1
<1>6. ASSUME NEW k \in 0 .. n - 1, k \in P PROVE k + 1 \in P
  <2>1. k \in 0 .. Len(s) - 1 /\ k + 1 \in 1 .. n /\ k + 1 - 1 = k /\ k + 1 \in 0 .. n
    BY <1>1
  <2>2. SubSeq(s, 1, k + 1) = Append(SubSeq(s, 1, k), s[k + 1])
    BY <2>1, NextPrefix
  <2>3. F[k + 1] = Append(F[k], s[k + 1])
    BY <1>4, <2>1
  <2> QED
    BY <1>6, <2>1, <2>2, <2>3
<1>7. \A k \in 0 .. n : k \in P
  <2> HIDE DEF P, n
  <2> QED
    BY <1>1, <1>5, <1>6, Upward
<1>8. n \in 0 .. n /\ SubSeq(s, 1, n) = s
  BY <1>1
<1> QED
  BY <1>4, <1>7, <1>8

\* The sizes of the first entries.
LEMMA SizesPrefix ==
    ASSUME NEW E, Sized(E), NEW g \in Seq(E), NEW k \in 0 .. Len(g)
    PROVE  BytesIn(SubSeq(g, 1, k)) = SumOf(SubSeq(SizesOf(g), 1, k))
<1> DEFINE t == SubSeq(g, 1, k)
           sizes == SizesOf(g)
           u == SubSeq(sizes, 1, k)
           w == SizesOf(t)
<1>1. t \in Seq(E) /\ Len(t) = k /\ \A i \in 1 .. k : t[i] = g[i]
  BY Prefix
<1>2. sizes \in Seq(Nat) /\ Len(sizes) = Len(g) /\ \A i \in 1 .. Len(g) : sizes[i] = g[i].bytes
  BY SizesSized
<1> HIDE DEF t, sizes
<1>3. u \in Seq(Nat) /\ Len(u) = k /\ \A i \in 1 .. k : u[i] = sizes[i]
  <2>1. k \in 0 .. Len(sizes)
    BY <1>2
  <2> QED
    BY <1>2, <2>1, Prefix
<1>4. w \in Seq(Nat) /\ Len(w) = Len(t) /\ \A i \in 1 .. Len(t) : w[i] = t[i].bytes
  BY <1>1, SizesSized
<1> HIDE DEF u, w
<1>5. \A i \in 1 .. k : w[i] = u[i]
  <2>1. \A i \in 1 .. k : i \in 1 .. Len(g)
    OBVIOUS
  <2> QED
    BY <2>1, <1>1, <1>2, <1>3, <1>4
<1>6. w = u
  BY <1>1, <1>3, <1>4, <1>5, SeqEqual
<1> QED
  BY <1>6 DEF BytesIn, w, u, t, sizes

\* The bytes do not depend on the order.
LEMMA OrderedBytes ==
    ASSUME NEW E, Sized(E), NEW s \in Seq(E), Once(s), NEW g \in Seq(E), Once(g),
           ToSet(g) = ToSet(s)
    PROVE  BytesIn(g) = BytesIn(s)
<1>1. ASSUME NEW t \in Seq(E), Once(t), NEW u \in Seq(E), Once(u), ToSet(u) = ToSet(t)
      PROVE  BytesIn(u) <= BytesIn(t)
  <2>1. ToSet(u) \subseteq ToSet(t)
    BY <1>1
  <2> QED
    BY <1>1, <2>1, SizedPart
<1>2. BytesIn(g) \in Nat /\ BytesIn(s) \in Nat
  BY SizedNat
<1> QED
  BY <1>1, <1>2

\* A sequence without repetitions has as many elements as places.
LEMMA OnceCounts ==
    ASSUME NEW S, NEW s \in Seq(S), Once(s)
    PROVE  IsFiniteSet(ToSet(s)) /\ Cardinality(ToSet(s)) = Len(s)
<1> DEFINE n == Len(s)
<1>1. n \in Nat /\ DOMAIN s = 1 .. n
  OBVIOUS
<1>2. ToSet(s) = {s[i] : i \in 1 .. n}
  BY <1>1 DEF ToSet
<1> DEFINE f == [i \in 1 .. n |-> s[i]]
<1>3. f \in Bijection(1 .. n, ToSet(s))
  <2>1. f \in [1 .. n -> ToSet(s)]
    BY <1>2
  <2>2. \A i, j \in 1 .. n : f[i] = f[j] => i = j
    BY <1>1 DEF Once
  <2>3. \A x \in ToSet(s) : \E i \in 1 .. n : f[i] = x
    BY <1>2
  <2> HIDE DEF f
  <2> QED
    BY <2>1, <2>2, <2>3 DEF Bijection, Injection, Surjection, IsInjective
<1>4. ExistsBijection(1 .. n, ToSet(s))
  BY <1>3 DEF ExistsBijection
<1> HIDE DEF n
<1>5. IsFiniteSet(ToSet(s)) /\ Cardinality(ToSet(s)) = n
  BY <1>1, <1>4, FS_NatBijection, FS_CountingElements
<1> QED
  BY <1>5 DEF n

-----------------------------------------------------------------------------
\* Among some entries there is one that no other is farther than.
LEMMA FarthestIs ==
    ASSUME NEW t \in Seq(Filed), NEW x \in ToSet(t)
    PROVE  /\ Farthest(ToSet(t)) \in ToSet(t)
           /\ \A f \in ToSet(t) : ~Farther(f, Farthest(ToSet(t)))
<1> DEFINE n == Len(t)
           First(k) == {t[i] : i \in 1 .. k}
           Best(k) == \E e \in First(k) : \A f \in First(k) : ~Farther(f, e)
           P == {k \in 0 .. n : k = 0 \/ Best(k)}
<1>1. n \in Nat /\ DOMAIN t = 1 .. n /\ \A k \in 1 .. n : t[k] \in Filed
  OBVIOUS
<1>2. \A e \in Filed : e.page \in Int /\ e.sig \in Int
  BY TextureAssumption DEF Filed, AllPages
<1>3. ToSet(t) = First(n)
  BY <1>1 DEF ToSet
<1>4. n # 0
  BY <1>1, <1>3
<1>5. 0 \in P
  BY <1>1
<1>6. ASSUME NEW k \in 0 .. n - 1, k \in P PROVE k + 1 \in P
  <2> DEFINE y == t[k + 1]
  <2>1. k + 1 \in 1 .. n /\ k + 1 \in 0 .. n /\ \A i \in 1 .. k : i \in 1 .. n
    BY <1>1
  <2>2. First(k + 1) = First(k) \cup {y}
    <3>1. \A i : i \in 1 .. k + 1 <=> i \in 1 .. k \/ i = k + 1
      BY <2>1
    <3> QED
      BY <3>1
  <2>3. y \in Filed /\ First(k) \subseteq Filed
    BY <1>1, <2>1
  <2>4. ~Farther(y, y)
    BY <1>2, <2>3 DEF Farther
  <2> HIDE DEF First, y
  <2>5. Best(k + 1)
    <3>1. CASE k = 0
      <4>1. First(k) = {}
        BY <3>1 DEF First
      <4> QED
        BY <2>2, <2>4, <4>1
    <3>2. CASE k # 0
      <4>1. PICK e \in First(k) : \A f \in First(k) : ~Farther(f, e)
        BY <1>6, <3>2
      <4>2. CASE Farther(y, e)
        <5>1. \A f \in First(k) : ~Farther(f, y)
          <6> SUFFICES ASSUME NEW f \in First(k) PROVE ~Farther(f, y)
            OBVIOUS
          <6>1. ~Farther(f, e)
            BY <4>1
          <6>2. /\ f.page \in Int /\ f.sig \in Int /\ e.page \in Int /\ e.sig \in Int
                /\ y.page \in Int /\ y.sig \in Int
            BY <1>2, <2>3
          <6> QED
            BY <4>2, <6>1, <6>2 DEF Farther
        <5> QED
          BY <2>2, <2>4, <5>1
      <4>3. CASE ~Farther(y, e)
        BY <2>2, <4>1, <4>3
      <4> QED
        BY <4>2, <4>3
    <3> QED
      BY <3>1, <3>2
  <2> QED
    BY <2>1, <2>5
<1>7. \A k \in 0 .. n : k \in P
  <2> HIDE DEF P, n
  <2> QED
    BY <1>1, <1>5, <1>6, Upward
<1>8. Best(n)
  <2>1. n \in P
    <3> HIDE DEF P, n
    <3> QED
      BY <1>1, <1>7
  <2> HIDE DEF Best, n
  <2> QED
    BY <1>4, <2>1
<1> HIDE DEF n, First
<1>9. \E e \in ToSet(t) : \A f \in ToSet(t) : ~Farther(f, e)
  BY <1>3, <1>8
<1> QED
  BY <1>9 DEF Farthest

\* Some entries, the farthest first.
Falling(g, s) ==
    /\ g \in Seq(Filed) /\ Once(g) /\ ToSet(g) = ToSet(s)
    /\ \A i, j \in 1 .. Len(g) : i < j => ~Farther(g[j], g[i])

LEMMA FallingIs ==
    ASSUME NEW s \in Seq(Filed), Once(s)
    PROVE  Falling(FarthestFirst(ToSet(s)), s)
<1> DEFINE S == ToSet(s)
           n == Cardinality(S)
           V == Filed \cup {Farthest({})}
           More(x) == Append(x, Farthest(S \ ToSet(x)))
           step == [k \in 1 .. n |-> [x \in Seq(V) |-> More(x)]]
<1>1. S \subseteq Filed
  BY DEF ToSet
<1>2. IsFiniteSet(S) /\ n = Len(s)
  BY OnceCounts
<1>3. n \in Nat /\ \A k \in 1 .. n : k - 1 \in 0 .. n /\ k \in 0 .. n /\ k # 0
  BY <1>2
<1>4. ASSUME NEW gone, S \ gone # {}
      PROVE  /\ Farthest(S \ gone) \in S \ gone
             /\ \A f \in S \ gone : ~Farther(f, Farthest(S \ gone))
  <2> DEFINE t == Among(s, S \ gone)
  <2>1. t \in Seq(Filed) /\ ToSet(t) = S \cap (S \ gone)
    <3> HIDE DEF S
    <3>1. t \in Seq(Filed) /\ ToSet(t) = ToSet(s) \cap (S \ gone)
      BY AmongFacts
    <3> QED
      BY <3>1 DEF S
  <2>2. S \cap (S \ gone) = S \ gone
    OBVIOUS
  <2> HIDE DEF t, S
  <2>3. PICK x : x \in ToSet(t)
    BY <1>4, <2>1, <2>2
  <2> QED
    BY <2>1, <2>2, <2>3, FarthestIs
<1> HIDE DEF S, n
<1>5. \A x \in Seq(V) : More(x) \in Seq(V)
  <2> SUFFICES ASSUME NEW x \in Seq(V) PROVE Farthest(S \ ToSet(x)) \in V
    BY AppendIs
  <2>1. CASE S \ ToSet(x) = {}
    BY <2>1
  <2>2. CASE S \ ToSet(x) # {}
    BY <1>1, <1>4, <2>2
  <2> QED
    BY <2>1, <2>2
<1>6. <<>> \in Seq(V)
  OBVIOUS
<1>7. step \in [1 .. n -> [Seq(V) -> Seq(V)]]
  <2> HIDE DEF More, V
  <2> QED
    BY <1>5
<1>8. PICK F : IsTable(F, n, Seq(V), <<>>, step)
  <2> HIDE DEF step, V
  <2> QED
    BY <1>3, <1>6, <1>7, TableExists
<1>9. F \in [0 .. n -> Seq(V)] /\ F[0] = <<>> /\ \A k \in 1 .. n : F[k] = More(F[k - 1])
  <2>1. F \in [0 .. n -> Seq(V)] /\ F[0] = <<>> /\ \A k \in 1 .. n : F[k] = step[k][F[k - 1]]
    BY <1>8 DEF IsTable
  <2> HIDE DEF V
  <2>2. \A k \in 1 .. n : F[k - 1] \in Seq(V)
    BY <1>3, <2>1
  <2>3. \A k \in 1 .. n : \A x \in Seq(V) : step[k][x] = More(x)
    <3> HIDE DEF More
    <3> QED
      OBVIOUS
  <2> HIDE DEF More, step
  <2> QED
    BY <2>1, <2>2, <2>3
<1> DEFINE Row(G, k) == IF k = 0 THEN <<>> ELSE Append(G[k - 1], Farthest(S \ ToSet(G[k - 1])))
           Law(G) == G = [k \in 0 .. n |-> Row(G, k)]
           H == CHOOSE G : Law(G)
<1>10. Law(F)
  <2>1. \A k \in 0 .. n : k = 0 \/ k \in 1 .. n
    BY <1>3
  <2>2. Row(F, 0) = <<>> /\ \A k \in 1 .. n : Row(F, k) = More(F[k - 1])
    BY <1>3
  <2> HIDE DEF Row, More, V
  <2>3. \A k \in 0 .. n : F[k] = Row(F, k)
    BY <2>1, <2>2, <1>9
  <2> QED
    BY <1>9, <2>3
<1>11. Law(H)
  <2> HIDE DEF Law
  <2> QED
    BY <1>10
<1>12. FarthestFirst(S) = H[n]
  BY DEF FarthestFirst, n
<1> HIDE DEF H
<1>13. H[0] = <<>> /\ \A k \in 1 .. n : H[k] = More(H[k - 1])
  <2>1. Row(H, 0) = <<>> /\ \A k \in 1 .. n : Row(H, k) = More(H[k - 1])
    BY <1>3
  <2>2. \A k \in 0 .. n : H[k] = Row(H, k)
    <3> HIDE DEF Row
    <3> QED
      BY <1>11
  <2> HIDE DEF Row, More
  <2> QED
    BY <1>3, <2>1, <2>2
<1> HIDE DEF Law, step, V
<1> DEFINE Sorted2(g) == \A i, j \in 1 .. Len(g) : i < j => ~Farther(g[j], g[i])
           Above(g) == \A e \in S \ ToSet(g), f \in ToSet(g) : ~Farther(e, f)
           Part(g, k) == /\ g \in Seq(Filed) /\ Once(g) /\ ToSet(g) \subseteq S
                         /\ Len(g) = k /\ Sorted2(g) /\ Above(g)
           P == {k \in 0 .. n : Part(H[k], k)}
<1>14. 0 \in P
  <2>1. Len(<<>>) = 0 /\ ToSet(<<>>) = {} /\ DOMAIN <<>> = {} /\ <<>> \in Seq(Filed)
    BY DEF ToSet
  <2>2. Part(<<>>, 0)
    BY <2>1 DEF Once
  <2> HIDE DEF Part
  <2> QED
    BY <1>3, <1>13, <2>2
<1>15. ASSUME NEW k \in 0 .. n - 1, k \in P PROVE k + 1 \in P
  <2> DEFINE g == H[k]
             e == Farthest(S \ ToSet(g))
             h == Append(g, e)
  <2>1. k + 1 \in 1 .. n /\ k + 1 - 1 = k /\ k + 1 \in 0 .. n /\ k # n /\ k \in Nat
    BY <1>3
  <2>2. H[k + 1] = h
    <3>1. H[k + 1] = More(H[k + 1 - 1])
      <4> HIDE DEF More
      <4> QED
        BY <1>13, <2>1
    <3> QED
      BY <2>1, <3>1
  <2>3. Part(g, k)
    BY <1>15
  <2> HIDE DEF g
  <2>4. S \ ToSet(g) # {}
    <3>1. Cardinality(ToSet(g)) = k
      BY <2>3, OnceCounts
    <3>2. ToSet(g) # S
      BY <2>1, <3>1 DEF n
    <3> QED
      BY <2>3, <3>2
  <2>5. e \in S /\ e \notin ToSet(g) /\ \A f \in S \ ToSet(g) : ~Farther(f, e)
    BY <1>4, <2>4
  <2> HIDE DEF e
  <2>6. e \in Filed
    BY <1>1, <2>5
  <2>7. h \in Seq(Filed) /\ Once(h)
    BY <2>3, <2>5, <2>6, OnceAppend
  <2>8. /\ Len(h) = k + 1 /\ h[k + 1] = e /\ ToSet(h) = ToSet(g) \cup {e}
        /\ \A i \in 1 .. k : h[i] = g[i]
    BY <2>3, <2>6, AppendIs
  <2>9. DOMAIN g = 1 .. k
    BY <2>3
  <2> HIDE DEF h
  <2>10. Sorted2(h)
    <3> SUFFICES ASSUME NEW i \in 1 .. k + 1, NEW j \in 1 .. k + 1, i < j
                 PROVE  ~Farther(h[j], h[i])
      BY <2>8
    <3>1. i \in 1 .. k /\ (j \in 1 .. k \/ j = k + 1)
      BY <2>1
    <3>2. CASE j \in 1 .. k
      BY <2>3, <2>8, <3>1, <3>2
    <3>3. CASE j = k + 1
      <4>1. g[i] \in ToSet(g)
        BY <2>9, <3>1 DEF ToSet
      <4>2. ~Farther(e, g[i])
        BY <2>3, <2>5, <4>1
      <4> QED
        BY <2>8, <3>1, <3>3, <4>2
    <3> QED
      BY <3>1, <3>2, <3>3
  <2>11. Above(h)
    BY <2>3, <2>5, <2>8
  <2>12. Part(h, k + 1)
    BY <2>3, <2>5, <2>7, <2>8, <2>10, <2>11
  <2> HIDE DEF Part
  <2> QED
    BY <2>1, <2>2, <2>12
<1>16. \A k \in 0 .. n : k \in P
  <2> HIDE DEF P
  <2> QED
    BY <1>3, <1>14, <1>15, Upward
<1>17. Part(H[n], n)
  BY <1>3, <1>16
<1> DEFINE g == H[n]
<1> HIDE DEF g
<1>18. Part(g, n)
  BY <1>17 DEF g
<1>19. ToSet(g) = S
  <2>1. Cardinality(ToSet(g)) = n
    BY <1>18, OnceCounts
  <2>2. IsFiniteSet(S) /\ ToSet(g) \subseteq S /\ Cardinality(ToSet(g)) = Cardinality(S)
    BY <1>2, <1>18, <2>1 DEF n, S
  <2> QED
    BY <2>2, FS_Subset
<1>20. Falling(g, s)
  BY <1>18, <1>19 DEF Falling, S
<1> QED
  BY <1>12, <1>20 DEF g, S

-----------------------------------------------------------------------------
\* Entries under different keys.
Separate(s) ==
    /\ s \in Seq(Filed) /\ Once(s)
    /\ \A e, f \in ToSet(s) : SameKey(e, f) => e = f

LEMMA FiledSized == Sized(Filed)
BY DEF Sized, Filed

LEMMA ApartFew == ASSUME NEW s, Separate(s) PROVE ToSet(s) \subseteq Filed
BY DEF Separate, ToSet

\* Fewer of them stay apart.
LEMMA ApartDropping ==
    ASSUME NEW s, Separate(s), NEW gone
    PROVE  Separate(Dropping(s, gone)) /\ ToSet(Dropping(s, gone)) = ToSet(s) \ gone
<1> DEFINE t == Dropping(s, gone)
<1>1. s \in Seq(Filed) /\ Once(s)
  BY DEF Separate
<1>2. t \in Seq(Filed) /\ ToSet(t) = ToSet(s) \ gone /\ Once(t)
  BY <1>1, FiledSized, SizedDropping
<1> HIDE DEF t
<1>3. Separate(t)
  BY <1>2 DEF Separate
<1> QED
  BY <1>2, <1>3 DEF t

LEMMA ApartWithout ==
    ASSUME NEW s, Separate(s), NEW e
    PROVE  /\ Separate(Without(s, e))
           /\ ToSet(Without(s, e)) = {f \in ToSet(s) : ~SameKey(f, e)}
<1>1. /\ Separate(Without(s, e))
      /\ ToSet(Without(s, e)) = ToSet(s) \ Namesakes(s, e)
  BY ApartDropping DEF Without
<1> QED
  BY <1>1 DEF Namesakes, SameKey

\* insert: the entries stay apart, and none is lost when there is room.
LEMMA InsertApart ==
    ASSUME NEW s, Separate(s), NEW e \in Filed, NEW most \in Nat
    PROVE  /\ Separate(Insert(s, e, most))
           /\ (\A f \in ToSet(s) : ~SameKey(f, e)) /\ BytesIn(s) + e.bytes <= most
                => /\ ToSet(Insert(s, e, most)) = ToSet(s) \cup {e}
                   /\ BytesIn(Insert(s, e, most)) = BytesIn(s) + e.bytes
<1> DEFINE rest == Without(s, e)
           more == Append(rest, e)
           t == EvictToBudget(more, most, {})
           Room == (\A f \in ToSet(s) : ~SameKey(f, e)) /\ BytesIn(s) + e.bytes <= most
<1>1. Separate(rest) /\ ToSet(rest) = {f \in ToSet(s) : ~SameKey(f, e)}
  BY ApartWithout
<1>2. e \notin ToSet(rest)
  BY <1>1 DEF SameKey
<1>3. Room => ToSet(rest) = ToSet(s) /\ BytesIn(rest) = BytesIn(s)
  <2> SUFFICES ASSUME Room PROVE ToSet(rest) = ToSet(s) /\ BytesIn(rest) = BytesIn(s)
    OBVIOUS
  <2>1. ToSet(rest) = ToSet(s)
    BY <1>1
  <2>2. s \in Seq(Filed) /\ Once(s) /\ rest \in Seq(Filed) /\ Once(rest)
    BY <1>1 DEF Separate
  <2> HIDE DEF rest, Room
  <2> QED
    BY <2>1, <2>2, FiledSized, OrderedBytes
<1>4. rest \in Seq(Filed) /\ Once(rest)
  BY <1>1 DEF Separate
<1> HIDE DEF rest
<1>5. more \in Seq(Filed) /\ Once(more)
  BY <1>2, <1>4, OnceAppend
<1>6. ToSet(more) = ToSet(rest) \cup {e} /\ BytesIn(more) = BytesIn(rest) + e.bytes
  BY <1>4, FiledSized, AppendIs, SizedAppend
<1>7. \A f, g \in ToSet(more) : SameKey(f, g) => f = g
  BY <1>1, <1>6 DEF Separate, SameKey
<1> HIDE DEF more
<1>8. /\ t \in Seq(Filed) /\ Once(t) /\ ToSet(t) \subseteq ToSet(more)
      /\ BytesIn(more) <= most => ToSet(t) = ToSet(more) /\ BytesIn(t) = BytesIn(more)
  BY <1>5, FiledSized, SizedEvict
<1> HIDE DEF t
<1>9. Separate(t)
  BY <1>7, <1>8 DEF Separate
<1>10. Room => ToSet(t) = ToSet(s) \cup {e} /\ BytesIn(t) = BytesIn(s) + e.bytes
  BY <1>3, <1>6, <1>8
<1>11. CASE e.bytes > most
  <2>1. Insert(s, e, most) = s
    BY <1>11 DEF Insert
  <2>2. BytesIn(s) \in Nat /\ e.bytes \in Nat
    BY FiledSized, SizedNat DEF Separate, Filed
  <2>3. ~Room
    BY <1>11, <2>2
  <2> QED
    BY <2>1, <2>3
<1>12. CASE ~(e.bytes > most)
  <2>1. Insert(s, e, most) = t
    BY <1>12 DEF Insert, t, more, rest
  <2> QED
    BY <1>9, <1>10, <2>1
<1> QED
  BY <1>11, <1>12

\* commit_display_contents: what is shown leaves the warm-up cache.
SeparateIn(c) == \E h, f : c = [history |-> h, future |-> f] /\ Separate(f)

LEMMA SlotApart ==
    ASSUME NEW c, SeparateIn(c), NEW slot PROVE SeparateIn(CommitSlot(c, slot))
<1>1. PICK h, f : c = [history |-> h, future |-> f] /\ Separate(f)
  BY DEF SeparateIn
<1> DEFINE e == slot.entry
<1>2. Separate(Without(f, e))
  BY <1>1, ApartWithout
<1>3. c.future = f /\ c.history = h
  BY <1>1
<1> HIDE DEF e
<1>4. \A x : [c EXCEPT !.history = x] = [history |-> x, future |-> f]
  BY <1>1
<1>5. \/ CommitSlot(c, slot) = [c EXCEPT !.history = TouchEntry(c.history, e)]
      \/ CommitSlot(c, slot) = c
      \/ CommitSlot(c, slot) = [history |-> Insert(c.history, e, HistoryLimit),
                                future |-> Without(c.future, e)]
  BY DEF CommitSlot, e
<1> QED
  BY <1>1, <1>2, <1>3, <1>4, <1>5 DEF SeparateIn

\* The caches after each slot, as a table.
LEMMA CommitKeeps ==
    ASSUME NEW slot, Len(slot) \in Nat, Commit(slot), Separate(future)
    PROVE  Separate(future') /\ loading' = FALSE /\ fresh' = TRUE
<1> DEFINE m == Len(slot)
           base == [history |-> history, future |-> future]
           Row(G, k) == IF k = 0 THEN base ELSE CommitSlot(G[k - 1], slot[k])
           Law(G) == G = [k \in 0 .. m |-> Row(G, k)]
           H == CHOOSE G : Law(G)
           P == {k \in 0 .. m : \E G : /\ DOMAIN G = 0 .. k
                                       /\ \A j \in 0 .. k : G[j] = Row(G, j)}
<1>1. m \in Nat
  OBVIOUS
<1>2. /\ history' = H[m].history /\ future' = H[m].future
      /\ loading' = FALSE /\ fresh' = TRUE
  BY DEF Commit
<1> HIDE DEF base, m
<1>3. 0 \in P
  <2> DEFINE G == [j \in 0 .. 0 |-> base]
  <2>1. DOMAIN G = 0 .. 0 /\ \A j \in 0 .. 0 : G[j] = base /\ j = 0
    OBVIOUS
  <2> HIDE DEF G
  <2>2. \A j \in 0 .. 0 : G[j] = Row(G, j)
    BY <2>1
  <2> HIDE DEF Row
  <2>3. 0 \in 0 .. m
    BY <1>1
  <2> QED
    BY <2>1, <2>2, <2>3
<1>4. ASSUME NEW k \in 0 .. m - 1, k \in P PROVE k + 1 \in P
  <2>1. PICK G : DOMAIN G = 0 .. k /\ \A j \in 0 .. k : G[j] = Row(G, j)
    <3> HIDE DEF Row
    <3> QED
      BY <1>4
  <2> DEFINE x == CommitSlot(G[k], slot[k + 1])
             K == [j \in 0 .. k + 1 |-> IF j = k + 1 THEN x ELSE G[j]]
  <2>2. /\ k \in Nat /\ k + 1 \in 0 .. m /\ k + 1 # 0 /\ k + 1 - 1 = k
        /\ \A j \in 0 .. k + 1 : j = k + 1 \/ (j \in 0 .. k /\ j # k + 1)
    BY <1>1
  <2>3. /\ DOMAIN K = 0 .. k + 1 /\ K[k + 1] = x
        /\ \A j \in 0 .. k : K[j] = G[j]
    <3> HIDE DEF x
    <3>1. k + 1 \in 0 .. k + 1 /\ \A j \in 0 .. k : j \in 0 .. k + 1 /\ j # k + 1
      BY <2>2
    <3> QED
      BY <3>1
  <2> HIDE DEF K
  <2>4. Row(K, k + 1) = x
    <3>1. k \in 0 .. k
      BY <2>2
    <3>2. K[k] = G[k]
      BY <2>3, <3>1
    <3>3. Row(K, k + 1) = CommitSlot(K[k + 1 - 1], slot[k + 1])
      BY <2>2
    <3> QED
      BY <2>2, <3>2, <3>3
  <2> HIDE DEF x
  <2>5. \A j \in 0 .. k : Row(K, j) = Row(G, j)
    <3>1. \A j \in 0 .. k : j = 0 \/ j - 1 \in 0 .. k
      BY <2>2
    <3> QED
      BY <2>3, <3>1
  <2> HIDE DEF Row
  <2>6. \A j \in 0 .. k + 1 : K[j] = Row(K, j)
    <3> SUFFICES ASSUME NEW j \in 0 .. k + 1 PROVE K[j] = Row(K, j)
      OBVIOUS
    <3>1. CASE j = k + 1
      BY <2>3, <2>4, <3>1
    <3>2. CASE j \in 0 .. k
      BY <2>1, <2>3, <2>5, <3>2
    <3> QED
      BY <2>2, <3>1, <3>2
  <2> QED
    BY <2>2, <2>3, <2>6
<1>5. \A k \in 0 .. m : k \in P
  <2> HIDE DEF P
  <2> QED
    BY <1>1, <1>3, <1>4, Upward
<1>6. PICK G : DOMAIN G = 0 .. m /\ \A j \in 0 .. m : G[j] = Row(G, j)
  <2>1. m \in 0 .. m
    BY <1>1
  <2> HIDE DEF Row
  <2> QED
    BY <1>5, <2>1
<1>7. \E F : Law(F)
  <2> DEFINE F == [j \in 0 .. m |-> G[j]]
  <2>1. DOMAIN F = 0 .. m /\ \A j \in 0 .. m : F[j] = G[j]
    OBVIOUS
  <2> HIDE DEF F
  <2>2. \A j \in 0 .. m : Row(F, j) = Row(G, j)
    <3>1. \A j \in 0 .. m : j = 0 \/ j - 1 \in 0 .. m
      BY <1>1
    <3> QED
      BY <2>1, <3>1
  <2>3. [j \in 0 .. m |-> Row(F, j)] = [j \in 0 .. m |-> G[j]]
    <3> HIDE DEF Row
    <3> QED
      BY <1>6, <2>2
  <2>4. Law(F)
    BY <2>3 DEF F
  <2> QED
    BY <2>4
<1>8. Law(H)
  <2> HIDE DEF Law
  <2> QED
    BY <1>7
<1> HIDE DEF H
<1>9. H[0] = base /\ \A k \in 0 .. m - 1 : H[k + 1] = CommitSlot(H[k], slot[k + 1])
  <2>1. \A k \in 0 .. m : H[k] = Row(H, k)
    <3> HIDE DEF Row
    <3> QED
      BY <1>8
  <2>2. 0 \in 0 .. m /\ \A k \in 0 .. m - 1 : k + 1 \in 0 .. m /\ k + 1 # 0 /\ k + 1 - 1 = k
    BY <1>1
  <2>3. Row(H, 0) = base
    OBVIOUS
  <2>4. ASSUME NEW k \in 0 .. m - 1 PROVE Row(H, k + 1) = CommitSlot(H[k], slot[k + 1])
    <3>1. Row(H, k + 1) = CommitSlot(H[k + 1 - 1], slot[k + 1])
      BY <2>2
    <3> QED
      BY <2>2, <3>1
  <2> HIDE DEF Row
  <2> QED
    BY <2>1, <2>2, <2>3, <2>4
<1> DEFINE Q == {k \in 0 .. m : SeparateIn(H[k])}
<1>10. 0 \in Q
  <2>1. SeparateIn(base)
    BY DEF SeparateIn, base
  <2>2. 0 \in 0 .. m
    BY <1>1
  <2> QED
    BY <1>9, <2>1, <2>2
<1>11. ASSUME NEW k \in 0 .. m - 1, k \in Q PROVE k + 1 \in Q
  <2>1. SeparateIn(CommitSlot(H[k], slot[k + 1])) /\ k + 1 \in 0 .. m
    BY <1>1, <1>11, SlotApart
  <2> QED
    BY <1>9, <2>1
<1>12. \A k \in 0 .. m : k \in Q
  <2> HIDE DEF Q
  <2> QED
    BY <1>1, <1>10, <1>11, Upward
<1>13. SeparateIn(H[m])
  BY <1>1, <1>12
<1> QED
  BY <1>2, <1>13 DEF SeparateIn

\* start_display_request.
LEMMA ShowKeeps ==
    ASSUME NEW p \in AllPages, NEW l \in Layouts, NEW held, Show(p, l, held),
           Separate(future)
    PROVE  /\ layout' = l /\ requested' = p /\ loading' \in BOOLEAN /\ fresh' \in BOOLEAN
           /\ Separate(future')
<1> DEFINE shown == ViewOf[l][p]
<1>1. shown \in Seq(AllPages)
  BY TextureAssumption
<1>2. DOMAIN shown = 1 .. Len(shown) /\ Len(shown) \in Nat
  BY <1>1
<1>3. PICK s : /\ layout' = l /\ requested' = p
               /\ \/ DOMAIN s = DOMAIN shown /\ Commit(s)
                  \/ loading' = TRUE /\ fresh' = FALSE /\ future' = future
  BY DEF Show, textureCaches
<1> HIDE DEF shown
<1>4. CASE DOMAIN s = DOMAIN shown /\ Commit(s)
  <2>1. Len(s) \in Nat
    BY <1>2, <1>4
  <2> QED
    BY <1>3, <1>4, <2>1, CommitKeeps
<1>5. CASE loading' = TRUE /\ fresh' = FALSE /\ future' = future
  BY <1>3, <1>5
<1> QED
  BY <1>3, <1>4, <1>5

-----------------------------------------------------------------------------
\* The pages to come, what of a cache is kept for them, and those missing: as the
\* module has them, for any view and cache.
UpcomingFor(l, p) ==
    LET last == CHOOSE q \in ToSet(ViewOf[l][p]) : \A r \in ToSet(ViewOf[l][p]) : r <= q
        order == DesiredSequence(p, Total, ViewOf[l][p])
    IN  {q \in AllPages : q > last /\ Contains(order, q)}

RetainedFor(l, p, s) ==
    Among(s, {e \in ToSet(s) : e.page \in UpcomingFor(l, p) /\ Suits(e.sig, Need[l][e.page])})

\* Pages of L2 that suit and that no texture satisfies.
Lack(l, p, width, entries) ==
    {q \in UpcomingFor(l, p) :
        /\ width[q] # 0 /\ Suits(width[q], Need[l][q])
        /\ ~\E e \in entries : e.page = q /\ Suits(e.sig, Need[l][q])}

SizeOf(width, q) == TextureBytes[q][width[q]]

\* plan_gpu_warmup over the entries kept and the pages missing.
PlanOver(t, lack, width) ==
    LET fitting == {p \in lack : SizeOf(width, p) <= FutureLimit}
        first == CHOOSE p \in fitting : \A q \in fitting : p <= q
        sum == BytesIn(t) + SizeOf(width, first)
        farther == FarthestFirst({e \in ToSet(t) : e.page > first})
        victims == EnoughOf(farther, SizesOf(farther), sum, FutureLimit)
    IN  IF fitting = {} \/ sum - BytesIn(victims) > FutureLimit
        THEN Nothing
        ELSE [page |-> first, sig |-> width[first], victims |-> ToSet(victims),
              more |-> \E q \in lack : q > first]

\* What WarmupAwake says of a Viewer at rest.
NoneWaits(t, lack, width, upcoming) ==
    \A p \in lack :
        \/ SizeOf(width, p) > FutureLimit
        \/ \E q \in lack : q < p /\ SizeOf(width, q) <= FutureLimit
        \/ LET nearer == Among(t, {e \in ToSet(t) : e.page \in upcoming /\ e.page < p})
           IN  BytesIn(nearer) + SizeOf(width, p) > FutureLimit

LEMMA ForView ==
    /\ Upcoming = UpcomingFor(layout, requested)
    /\ Retained = RetainedFor(layout, requested, future)
    /\ Missing = Lack(layout, requested, ready, ToSet(Retained) \cup ToSet(history))
    /\ PlanWarmup = PlanOver(Retained, Missing, ready)
    /\ WarmupAwake <=> \/ frame # "idle" \/ frameDue \/ loading \/ dozed
                       \/ NoneWaits(future, Missing, ready, Upcoming)
<1>1. Upcoming = UpcomingFor(layout, requested)
  BY DEF Upcoming, VisibleEnd, UpcomingFor
<1>2. Retained = RetainedFor(layout, requested, future)
  BY <1>1 DEF Retained, RetainedFor, NeedOf
<1>3. Missing = Lack(layout, requested, ready, ToSet(Retained) \cup ToSet(history))
  BY <1>1 DEF Missing, Lack, Candidates, NeedOf
<1>4. PlanWarmup = PlanOver(Retained, Missing, ready)
  BY DEF PlanWarmup, PlanOver, Victims, BytesFor, SizeOf
<1>5. WarmupAwake <=> \/ frame # "idle" \/ frameDue \/ loading \/ dozed
                      \/ NoneWaits(future, Missing, ready, Upcoming)
  BY DEF WarmupAwake, NoneWaits, BytesFor, SizeOf
<1> QED
  BY <1>1, <1>2, <1>3, <1>4, <1>5

\* And after a step.
LEMMA ForViewNext ==
    /\ Upcoming' = UpcomingFor(layout', requested')
    /\ Retained' = RetainedFor(layout', requested', future')
    /\ Missing' = Lack(layout', requested', ready', ToSet(Retained') \cup ToSet(history'))
    /\ PlanWarmup' = PlanOver(Retained', Missing', ready')
    /\ WarmupAwake' <=> \/ frame' # "idle" \/ frameDue' \/ loading' \/ dozed'
                        \/ NoneWaits(future', Missing', ready', Upcoming')
<1>1. Upcoming' = UpcomingFor(layout', requested')
  BY DEF Upcoming, VisibleEnd, UpcomingFor
<1>2. Retained' = RetainedFor(layout', requested', future')
  BY <1>1 DEF Retained, RetainedFor, NeedOf
<1>3. Missing' = Lack(layout', requested', ready', ToSet(Retained') \cup ToSet(history'))
  BY <1>1 DEF Missing, Lack, Candidates, NeedOf
<1>4. PlanWarmup' = PlanOver(Retained', Missing', ready')
  BY DEF PlanWarmup, PlanOver, Victims, BytesFor, SizeOf
<1>5. WarmupAwake' <=> \/ frame' # "idle" \/ frameDue' \/ loading' \/ dozed'
                       \/ NoneWaits(future', Missing', ready', Upcoming')
  BY DEF WarmupAwake, NoneWaits, BytesFor, SizeOf
<1> QED
  BY <1>1, <1>2, <1>3, <1>4, <1>5

-----------------------------------------------------------------------------
\* The entries kept for a view.
Serving(l, p, t) ==
    /\ Separate(t)
    /\ \A e \in ToSet(t) : e.page \in UpcomingFor(l, p) /\ Suits(e.sig, Need[l][e.page])

LEMMA RetainedIs ==
    ASSUME NEW l, NEW p, NEW s, Separate(s)
    PROVE  /\ Serving(l, p, RetainedFor(l, p, s))
           /\ Serving(l, p, s) => RetainedFor(l, p, s) = s
<1> DEFINE wanted == {e \in ToSet(s) : e.page \in UpcomingFor(l, p)
                                       /\ Suits(e.sig, Need[l][e.page])}
           t == Among(s, wanted)
<1>1. s \in Seq(Filed) /\ Once(s)
  BY DEF Separate
<1>2. \A e \in wanted : e.page \in UpcomingFor(l, p) /\ Suits(e.sig, Need[l][e.page])
  OBVIOUS
<1>3. Serving(l, p, s) => ToSet(s) \subseteq wanted
  BY DEF Serving
<1>4. RetainedFor(l, p, s) = t
  BY DEF RetainedFor
<1> HIDE DEF wanted
<1>5. t \in Seq(Filed) /\ ToSet(t) = ToSet(s) \cap wanted /\ Once(t)
  BY <1>1, AmongFacts, OnceAmong
<1>6. Serving(l, p, s) => t = s
  BY <1>1, <1>3, AmongWhole
<1> HIDE DEF t
<1>7. Separate(t)
  BY <1>5 DEF Separate
<1>8. Serving(l, p, t)
  BY <1>2, <1>5, <1>7 DEF Serving
<1> QED
  BY <1>4, <1>6, <1>8

\* The widths that L2 may have pages for.
WidthTable == [AllPages -> Widths \cup {0}]

LEMMA WidthsNat == Widths \subseteq Nat
BY TextureAssumption DEF Widths

LEMMA LackIs ==
    ASSUME NEW l, NEW p, NEW w \in WidthTable, NEW entries
    PROVE  \A q \in Lack(l, p, w, entries) :
               /\ q \in UpcomingFor(l, p) /\ q \in AllPages /\ q \in Nat
               /\ w[q] \in Widths /\ w[q] \in Nat /\ SizeOf(w, q) \in Nat
<1> SUFFICES ASSUME NEW q \in Lack(l, p, w, entries)
             PROVE  /\ q \in UpcomingFor(l, p) /\ q \in AllPages /\ q \in Nat
                    /\ w[q] \in Widths /\ w[q] \in Nat /\ SizeOf(w, q) \in Nat
  OBVIOUS
<1>1. q \in UpcomingFor(l, p) /\ w[q] # 0
  BY DEF Lack
<1>2. q \in AllPages
  BY <1>1 DEF UpcomingFor
<1>3. w[q] \in Widths
  BY <1>1, <1>2 DEF WidthTable
<1>4. SizeOf(w, q) \in Nat
  BY <1>2, <1>3, TextureAssumption DEF SizeOf
<1>5. q \in Nat
  BY <1>2, TextureAssumption DEF AllPages
<1> QED
  BY <1>1, <1>2, <1>3, <1>4, <1>5, WidthsNat

\* The bytes of the first few that go.
Freed(g, k) == SumOf(SubSeq(SizesOf(g), 1, k))

\* What a plan stands for: the entries of farther pages in the order they go, and
\* as many of them as it takes to make room.
Room(plan, t) == BytesIn(t) + TextureBytes[plan.page][plan.sig]

Chain(g, k, plan, t) ==
    /\ g \in Seq(Filed) /\ Once(g)
    /\ ToSet(g) = {e \in ToSet(t) : e.page > plan.page}
    /\ \A i, j \in 1 .. Len(g) : i < j => ~Farther(g[j], g[i])
    /\ k \in 0 .. Len(g)
    /\ plan.victims = {g[i] : i \in 1 .. k}
    /\ Room(plan, t) - Freed(g, k) <= FutureLimit
    /\ \A j \in 0 .. k - 1 : ~(Room(plan, t) - Freed(g, j) <= FutureLimit)

Fits(plan, t) ==
    /\ plan.page \in AllPages /\ plan.sig \in Widths
    /\ \A e \in ToSet(t) : e.page # plan.page
    /\ \E g, k : Chain(g, k, plan, t)

\* What plan_gpu_warmup chose, of the pages missing.
WellPlanned(plan, t, lack, width) ==
    /\ plan \in Plans /\ Fits(plan, t)
    /\ plan.page \in lack /\ plan.sig = width[plan.page]
    /\ \A q \in lack : q < plan.page => SizeOf(width, q) > FutureLimit
    /\ \A q \in lack : q > plan.page => plan.more

\* The entries of farther pages, in the order they go.
LEMMA FartherIs ==
    ASSUME NEW t, Separate(t), NEW p \in Nat
    PROVE  LET some == {e \in ToSet(t) : e.page > p}
               g == FarthestFirst(some)
           IN  /\ g \in Seq(Filed) /\ Once(g) /\ ToSet(g) = some
               /\ \A i, j \in 1 .. Len(g) : i < j => ~Farther(g[j], g[i])
<1> DEFINE some == {e \in ToSet(t) : e.page > p}
           s == Among(t, some)
           g == FarthestFirst(some)
<1>1. t \in Seq(Filed) /\ Once(t)
  BY DEF Separate
<1>2. ToSet(t) \cap some = some
  OBVIOUS
<1> HIDE DEF some
<1>3. s \in Seq(Filed) /\ ToSet(s) = some /\ Once(s)
  BY <1>1, <1>2, AmongFacts, OnceAmong
<1> HIDE DEF s
<1>4. Falling(FarthestFirst(ToSet(s)), s)
  BY <1>3, FallingIs
<1>5. /\ g \in Seq(Filed) /\ Once(g) /\ ToSet(g) = some
      /\ \A i, j \in 1 .. Len(g) : i < j => ~Farther(g[j], g[i])
  BY <1>3, <1>4 DEF Falling
<1> QED
  BY <1>5 DEF g, some

\* Either nothing is planned, and no page missing is one that waits; or what is
\* planned makes room for the nearest page that fits.
LEMMA PlanOverIs ==
    ASSUME NEW l, NEW p, NEW t, Serving(l, p, t), NEW w \in WidthTable, NEW past
    PROVE  LET lack == Lack(l, p, w, ToSet(t) \cup past)
               plan == PlanOver(t, lack, w)
           IN  \/ plan = Nothing /\ NoneWaits(t, lack, w, UpcomingFor(l, p))
               \/ plan # Nothing /\ WellPlanned(plan, t, lack, w)
<1> DEFINE lack == Lack(l, p, w, ToSet(t) \cup past)
           fitting == {q \in lack : SizeOf(w, q) <= FutureLimit}
           first == CHOOSE q \in fitting : \A r \in fitting : q <= r
           sum == BytesIn(t) + SizeOf(w, first)
           some == {e \in ToSet(t) : e.page > first}
           g == FarthestFirst(some)
           victims == EnoughOf(g, SizesOf(g), sum, FutureLimit)
           made == [page |-> first, sig |-> w[first], victims |-> ToSet(victims),
                    more |-> \E q \in lack : q > first]
           plan == PlanOver(t, lack, w)
<1>1. plan = IF fitting = {} \/ sum - BytesIn(victims) > FutureLimit THEN Nothing ELSE made
  BY DEF PlanOver
<1>2. Separate(t) /\ t \in Seq(Filed) /\ Once(t)
  BY DEF Serving, Separate
<1>3. BytesIn(t) \in Nat /\ FutureLimit \in Nat
  BY <1>2, FiledSized, SizedNat, TextureAssumption
<1>4. \A q \in lack : /\ q \in UpcomingFor(l, p) /\ q \in AllPages /\ q \in Nat
                      /\ w[q] \in Widths /\ w[q] \in Nat /\ SizeOf(w, q) \in Nat
  BY LackIs
<1>5. \A q \in lack : \A e \in ToSet(t) : e.page # q
  BY DEF Lack, Serving
<1> HIDE DEF lack
<1>6. CASE fitting = {}
  <2>1. \A q \in lack : SizeOf(w, q) > FutureLimit
    BY <1>3, <1>4, <1>6
  <2>2. plan = Nothing
    BY <1>1, <1>6
  <2> HIDE DEF plan
  <2>3. NoneWaits(t, lack, w, UpcomingFor(l, p))
    BY <2>1 DEF NoneWaits
  <2> QED
    BY <2>2, <2>3 DEF plan, lack
<1>7. CASE fitting # {}
  <2>1. first \in fitting /\ \A r \in fitting : first <= r
    <3>1. fitting \subseteq Nat
      BY <1>4
    <3> HIDE DEF fitting
    <3> QED
      BY <1>7, <3>1, LeastNat
  <2> HIDE DEF first
  <2>2. /\ first \in lack /\ SizeOf(w, first) <= FutureLimit /\ first \in Nat
        /\ SizeOf(w, first) \in Nat /\ first \in AllPages /\ w[first] \in Widths
        /\ w[first] \in Nat /\ first \in UpcomingFor(l, p)
    BY <1>4, <2>1
  <2>3. \A q \in lack : q < first => SizeOf(w, q) > FutureLimit
    BY <1>3, <1>4, <2>1, <2>2
  <2> HIDE DEF fitting
  <2>4. /\ g \in Seq(Filed) /\ Once(g) /\ ToSet(g) = some
        /\ \A i, j \in 1 .. Len(g) : i < j => ~Farther(g[j], g[i])
    BY <1>2, <2>2, FartherIs
  <2>5. sum \in Nat
    BY <1>3, <2>2
  <2> HIDE DEF sum, g
  <2>6. PICK k : IsEnough(k, g, SizesOf(g), sum, FutureLimit)
    <3>1. g \in Seq(Filed) /\ sum \in Int /\ FutureLimit \in Int
      BY <1>3, <2>4, <2>5
    <3> QED
      BY <3>1, EnoughIs
  <2>7. /\ k \in 0 .. Len(g) /\ victims = SubSeq(g, 1, k)
        /\ sum - Freed(g, k) <= FutureLimit \/ k = Len(g)
        /\ \A j \in 0 .. k - 1 : ~(sum - Freed(g, j) <= FutureLimit)
    BY <2>6 DEF IsEnough, Freed
  <2> HIDE DEF victims
  <2>8. /\ BytesIn(victims) = Freed(g, k) /\ victims \in Seq(Filed)
        /\ ToSet(victims) = {g[i] : i \in 1 .. k}
    <3>1. BytesIn(SubSeq(g, 1, k)) = Freed(g, k)
      BY <2>4, <2>7, FiledSized, SizesPrefix DEF Freed
    <3>2. ToSet(SubSeq(g, 1, k)) = {g[i] : i \in 1 .. k} /\ SubSeq(g, 1, k) \in Seq(Filed)
      BY <2>4, <2>7, Prefix
    <3> QED
      BY <2>7, <3>1, <3>2
  <2>9. BytesIn(victims) \in Nat
    BY <2>8, FiledSized, SizedNat
  <2>10. CASE sum - BytesIn(victims) > FutureLimit
    <3>1. plan = Nothing
      BY <1>1, <2>10
    <3> DEFINE upcoming == UpcomingFor(l, p)
               nearer(q) == Among(t, {e \in ToSet(t) : e.page \in upcoming /\ e.page < q})
    <3>2. BytesIn(nearer(first)) + SizeOf(w, first) > FutureLimit
      <4>1. victims = g
        <5>1. k = Len(g)
          BY <1>3, <2>5, <2>7, <2>8, <2>9, <2>10
        <5> QED
          BY <2>4, <2>7, <5>1
      <4>2. \A e \in ToSet(t) : e.page \in upcoming /\ e.page # first /\ e.page \in Nat
        <5>1. \A e \in ToSet(t) : e \in Filed
          BY <1>2, ApartFew
        <5>2. \A e \in Filed : e.page \in Nat
          BY TextureAssumption DEF Filed, AllPages
        <5> QED
          BY <1>5, <2>2, <5>1, <5>2 DEF Serving
      <4>3. {e \in ToSet(t) : e.page \in upcoming /\ e.page < first} = ToSet(t) \ some
        BY <2>2, <4>2
      <4>4. nearer(first) = Dropping(t, some)
        BY <4>3 DEF Dropping
      <4> HIDE DEF some, nearer
      <4>5. BytesIn(Dropping(t, some)) + BytesIn(g) = BytesIn(t)
        <5>1. ToSet(g) \subseteq ToSet(t)
          BY <2>4 DEF some
        <5>2. SubSeq(g, 1, Len(g)) = g /\ Len(g) \in 0 .. Len(g)
          BY <2>4
        <5>3. BytesIn(Dropping(t, ToSet(SubSeq(g, 1, Len(g)))))
                + SumOf(SubSeq(SizesOf(g), 1, Len(g))) = BytesIn(t)
          BY <1>2, <2>4, <5>1, <5>2, FiledSized, SizedSplit
        <5>4. BytesIn(SubSeq(g, 1, Len(g))) = SumOf(SubSeq(SizesOf(g), 1, Len(g)))
          BY <2>4, <5>2, FiledSized, SizesPrefix
        <5> QED
          BY <2>4, <5>2, <5>3, <5>4
      <4>6. BytesIn(Dropping(t, some)) \in Nat
        <5>1. Dropping(t, some) \in Seq(Filed)
          BY <1>2, FiledSized, SizedDropping
        <5> QED
          BY <5>1, FiledSized, SizedNat
      <4> QED
        BY <1>3, <2>2, <2>9, <2>10, <4>1, <4>4, <4>5, <4>6 DEF sum
    <3>3. NoneWaits(t, lack, w, upcoming)
      <4> SUFFICES ASSUME NEW q \in lack
                   PROVE  \/ SizeOf(w, q) > FutureLimit
                          \/ \E r \in lack : r < q /\ SizeOf(w, r) <= FutureLimit
                          \/ BytesIn(nearer(q)) + SizeOf(w, q) > FutureLimit
        BY DEF NoneWaits
      <4> HIDE DEF nearer
      <4>1. q < first \/ q = first \/ first < q
        BY <1>4, <2>2
      <4> QED
        BY <2>2, <2>3, <3>2, <4>1
    <3> QED
      BY <3>1, <3>3 DEF lack
  <2>11. CASE ~(sum - BytesIn(victims) > FutureLimit)
    <3>1. plan = made
      BY <1>1, <1>7, <2>11
    <3>2. made \in Plans
      <4>1. ToSet(victims) \subseteq Filed
        BY <2>8 DEF ToSet
      <4> QED
        BY <2>2, <4>1 DEF Plans
    <3>3. /\ made.page = first /\ made.sig = w[first] /\ made.victims = {g[i] : i \in 1 .. k}
          /\ \A q \in lack : q > first => made.more
      BY <2>8
    <3> HIDE DEF made, plan
    <3>4. Room(made, t) = sum
      BY <3>3 DEF Room, sum, SizeOf
    <3>5. Chain(g, k, made, t)
      <4>1. sum - Freed(g, k) <= FutureLimit
        BY <1>3, <2>5, <2>8, <2>9, <2>11
      <4> HIDE DEF some
      <4>2. ToSet(g) = {e \in ToSet(t) : e.page > made.page}
        BY <2>4, <3>3 DEF some
      <4> QED
        BY <2>4, <2>7, <3>3, <3>4, <4>1, <4>2 DEF Chain
    <3>6. Fits(made, t)
      BY <1>5, <2>2, <3>3, <3>5 DEF Fits
    <3>7. WellPlanned(made, t, lack, w)
      BY <2>2, <2>3, <3>2, <3>3, <3>6 DEF WellPlanned
    <3>8. made # Nothing
      BY <3>2, TextureAssumption
    <3> QED
      BY <3>1, <3>7, <3>8 DEF plan, lack
  <2> QED
    BY <2>10, <2>11
<1> QED
  BY <1>6, <1>7

-----------------------------------------------------------------------------
LEMMA FreedNext ==
    ASSUME NEW g \in Seq(Filed), NEW k \in 0 .. Len(g) - 1
    PROVE  /\ Freed(g, k) \in Nat /\ Freed(g, k + 1) \in Nat /\ g[k + 1].bytes \in Nat
           /\ Freed(g, k + 1) = Freed(g, k) + g[k + 1].bytes
<1> DEFINE t == SubSeq(g, 1, k)
           u == SubSeq(g, 1, k + 1)
<1>1. /\ k \in 0 .. Len(g) /\ k + 1 \in 0 .. Len(g) /\ g[k + 1] \in Filed
      /\ u = Append(t, g[k + 1])
  BY NextPrefix
<1>2. t \in Seq(Filed) /\ u \in Seq(Filed)
  BY <1>1, Prefix
<1>3. BytesIn(t) = Freed(g, k) /\ BytesIn(u) = Freed(g, k + 1)
  BY <1>1, FiledSized, SizesPrefix DEF Freed
<1> HIDE DEF t, u
<1>4. BytesIn(u) = BytesIn(t) + g[k + 1].bytes
  BY <1>1, <1>2, FiledSized, SizedAppend
<1>5. BytesIn(t) \in Nat /\ BytesIn(u) \in Nat
  BY <1>2, FiledSized, SizedNat
<1>6. g[k + 1].bytes \in Nat
  BY <1>1 DEF Filed
<1> QED
  BY <1>3, <1>4, <1>5, <1>6

LEMMA FreedNone == \A g : Freed(g, 0) = 0
<1> SUFFICES ASSUME NEW g PROVE Freed(g, 0) = 0
  OBVIOUS
<1>1. SubSeq(SizesOf(g), 1, 0) = <<>>
  BY SubSeqEmpty
<1>2. SizesOf(<<>>) = <<>>
  BY DEF SizesOf
<1> QED
  BY <1>1, <1>2, BytesNone DEF BytesIn, Freed

\* What the cache is after an upload.
Swapped(t, plan) ==
    Insert(Dropping(t, plan.victims), Texture(plan.page, plan.sig, plan.sig), FutureLimit)

LEMMA SwappedIs ==
    ASSUME NEW t, Separate(t), NEW plan \in Plans, Fits(plan, t), NEW g, NEW k,
           Chain(g, k, plan, t)
    PROVE  /\ Texture(plan.page, plan.sig, plan.sig) \in Filed
           /\ Separate(Swapped(t, plan))
           /\ ToSet(Swapped(t, plan)) = (ToSet(t) \ plan.victims)
                                         \cup {Texture(plan.page, plan.sig, plan.sig)}
           /\ BytesIn(Swapped(t, plan)) + Freed(g, k) = Room(plan, t)
<1> DEFINE tex == Texture(plan.page, plan.sig, plan.sig)
           rest == Dropping(t, plan.victims)
           u == Insert(rest, tex, FutureLimit)
<1>1. /\ plan.page \in AllPages /\ plan.sig \in Widths /\ plan.sig \in Nat
      /\ \A e \in ToSet(t) : e.page # plan.page
  BY WidthsNat DEF Fits
<1>2. TextureBytes[plan.page][plan.sig] \in Nat /\ FutureLimit \in Nat
  BY <1>1, TextureAssumption
<1>3. /\ tex \in Filed /\ tex.page = plan.page /\ tex.sig = plan.sig
      /\ tex.bytes = TextureBytes[plan.page][plan.sig]
  BY <1>1, <1>2 DEF Texture, Filed
<1> HIDE DEF tex
<1>4. Separate(rest) /\ ToSet(rest) = ToSet(t) \ plan.victims
  BY ApartDropping
<1>5. /\ g \in Seq(Filed) /\ Once(g) /\ k \in 0 .. Len(g) /\ ToSet(g) \subseteq ToSet(t)
      /\ plan.victims = {g[i] : i \in 1 .. k}
      /\ Room(plan, t) - Freed(g, k) <= FutureLimit
  BY DEF Chain
<1>6. BytesIn(rest) + Freed(g, k) = BytesIn(t)
  <2>1. ToSet(SubSeq(g, 1, k)) = plan.victims
    BY <1>5, Prefix
  <2>2. t \in Seq(Filed) /\ Once(t)
    BY DEF Separate
  <2>3. BytesIn(Dropping(t, ToSet(SubSeq(g, 1, k)))) + SumOf(SubSeq(SizesOf(g), 1, k))
          = BytesIn(t)
    BY <1>5, <2>2, FiledSized, SizedSplit
  <2> QED
    BY <2>1, <2>3 DEF Freed
<1>7. Freed(g, k) \in Nat /\ BytesIn(rest) \in Nat /\ BytesIn(t) \in Nat
  <2>1. BytesIn(SubSeq(g, 1, k)) = Freed(g, k)
    BY <1>5, FiledSized, SizesPrefix DEF Freed
  <2>2. SubSeq(g, 1, k) \in Seq(Filed)
    BY <1>5, Prefix
  <2>3. rest \in Seq(Filed) /\ t \in Seq(Filed)
    BY <1>4 DEF Separate
  <2> QED
    BY <2>1, <2>2, <2>3, FiledSized, SizedNat
<1>8. Room(plan, t) = BytesIn(t) + tex.bytes
  BY <1>3 DEF Room
<1>9. BytesIn(rest) + tex.bytes <= FutureLimit
  BY <1>2, <1>3, <1>5, <1>6, <1>7, <1>8
<1>10. \A f \in ToSet(rest) : ~SameKey(f, tex)
  BY <1>1, <1>3, <1>4 DEF SameKey
<1> HIDE DEF rest
<1>11. /\ Separate(u) /\ ToSet(u) = ToSet(rest) \cup {tex}
       /\ BytesIn(u) = BytesIn(rest) + tex.bytes
  BY <1>2, <1>3, <1>4, <1>9, <1>10, InsertApart
<1>12. BytesIn(u) + Freed(g, k) = Room(plan, t)
  BY <1>2, <1>3, <1>6, <1>7, <1>8, <1>11
<1>13. Swapped(t, plan) = u
  BY DEF Swapped, rest, tex
<1> HIDE DEF u
<1> QED
  BY <1>3, <1>4, <1>11, <1>12, <1>13 DEF tex

\* After an upload that has no other page to follow, and replaced at most one page
\* that takes no less now, none waits.
LEMMA NoneLeft ==
    ASSUME NEW l, NEW p, NEW t, Serving(l, p, t), NEW w \in WidthTable, NEW past,
           NEW plan, WellPlanned(plan, t, Lack(l, p, w, ToSet(t) \cup past), w),
           ~plan.more, ~(Cardinality(plan.victims) > 1),
           \A e \in plan.victims : w[e.page] # 0 => ~(SizeOf(w, e.page) < e.bytes)
    PROVE  LET u == Swapped(t, plan)
           IN  /\ Serving(l, p, u)
               /\ NoneWaits(u, Lack(l, p, w, ToSet(u) \cup past), w, UpcomingFor(l, p))
<1> DEFINE lack == Lack(l, p, w, ToSet(t) \cup past)
           tex == Texture(plan.page, plan.sig, plan.sig)
           u == Swapped(t, plan)
           left == Lack(l, p, w, ToSet(u) \cup past)
           upcoming == UpcomingFor(l, p)
<1>1. /\ plan \in Plans /\ Fits(plan, t) /\ plan.page \in lack /\ plan.sig = w[plan.page]
      /\ \A q \in lack : q < plan.page => SizeOf(w, q) > FutureLimit
      /\ \A q \in lack : ~(q > plan.page)
  BY DEF WellPlanned
<1>2. PICK g, k : Chain(g, k, plan, t)
  BY <1>1 DEF Fits
<1>3. Separate(t) /\ \A e \in ToSet(t) : e.page \in upcoming /\ Suits(e.sig, Need[l][e.page])
  BY DEF Serving
<1>4. /\ tex \in Filed /\ Separate(u) /\ ToSet(u) = (ToSet(t) \ plan.victims) \cup {tex}
      /\ BytesIn(u) + Freed(g, k) = Room(plan, t)
  BY <1>1, <1>2, <1>3, SwappedIs
<1>5. plan.page \in upcoming /\ Suits(plan.sig, Need[l][plan.page])
  BY <1>1 DEF Lack
<1>6. \A q \in lack : q \in Nat
  BY LackIs
<1>7. \A q \in left : q \in upcoming /\ q \in Nat /\ w[q] # 0 /\ SizeOf(w, q) \in Nat
  <2>1. \A q \in left : q \in upcoming /\ q \in Nat /\ SizeOf(w, q) \in Nat
    BY LackIs
  <2>2. \A q \in left : w[q] # 0
    BY DEF Lack
  <2> QED
    BY <2>1, <2>2
<1>8. tex.page = plan.page /\ tex.sig = plan.sig
  BY DEF Texture
<1>9. \A q \in left : \A e \in ToSet(u) : ~(e.page = q /\ Suits(e.sig, Need[l][q]))
  BY DEF Lack
<1>10. \A q \in left \ lack : \E e \in ToSet(t) \ ToSet(u) : e.page = q
  BY DEF Lack
<1> HIDE DEF lack, tex, u, left, upcoming
<1>11. Serving(l, p, u)
  <2>1. \A e \in ToSet(u) : e.page \in upcoming /\ Suits(e.sig, Need[l][e.page])
    BY <1>3, <1>4, <1>5, <1>8
  <2> QED
    BY <1>4, <2>1 DEF Serving, upcoming
<1>12. /\ g \in Seq(Filed) /\ Once(g) /\ k \in 0 .. Len(g)
       /\ ToSet(g) = {e \in ToSet(t) : e.page > plan.page}
       /\ \A i, j \in 1 .. Len(g) : i < j => ~Farther(g[j], g[i])
       /\ plan.victims = {g[i] : i \in 1 .. k}
       /\ \A j \in 0 .. k - 1 : ~(Room(plan, t) - Freed(g, j) <= FutureLimit)
  BY <1>2 DEF Chain
<1>13. k <= 1
  <2> DEFINE few == SubSeq(g, 1, k)
  <2>1. few \in Seq(Filed) /\ Len(few) = k /\ (\A i \in 1 .. k : few[i] = g[i])
        /\ ToSet(few) = plan.victims
    BY <1>12, Prefix
  <2> HIDE DEF few
  <2>2. Once(few)
    <3>1. DOMAIN few = 1 .. k /\ \A i \in 1 .. k : i \in DOMAIN g
      BY <1>12, <2>1
    <3> QED
      BY <1>12, <2>1, <3>1 DEF Once
  <2>3. Cardinality(plan.victims) = k
    BY <2>1, <2>2, OnceCounts
  <2> QED
    BY <1>12, <2>3
<1>14. \A e \in Filed : e.page \in Nat /\ e.sig \in Nat /\ e.bytes \in Nat
  BY TextureAssumption DEF Filed, AllPages
<1>15. plan.page \in Nat /\ FutureLimit \in Nat
  BY <1>1, <1>6, TextureAssumption
<1>16. ASSUME NEW q \in left
       PROVE  \/ SizeOf(w, q) > FutureLimit
              \/ LET nearer == Among(u, {e \in ToSet(u) : e.page \in upcoming /\ e.page < q})
                 IN  BytesIn(nearer) + SizeOf(w, q) > FutureLimit
  <2>1. q # plan.page
    BY <1>4, <1>5, <1>8, <1>9
  <2>2. CASE q \in lack
    BY <1>1, <1>7, <1>15, <2>1, <2>2
  <2>3. CASE q \notin lack
    <3>1. PICK e \in ToSet(t) \ ToSet(u) : e.page = q
      BY <1>10, <2>3
    <3>2. e \in plan.victims
      BY <1>4, <3>1
    <3>3. PICK i \in 1 .. k : e = g[i]
      BY <1>12, <3>2
    <3>4. k = 1 /\ i = 1 /\ 1 \in 1 .. Len(g) /\ 0 \in 0 .. Len(g) - 1 /\ 0 \in 0 .. k - 1
          /\ Len(g) \in Nat /\ DOMAIN g = 1 .. Len(g)
      BY <1>12, <1>13, <3>3
    <3>5. e \in Filed /\ e.page > plan.page /\ plan.victims = {e}
      <4>1. \A j \in 1 .. k : j = 1
        BY <3>4
      <4>2. plan.victims = {e}
        BY <1>12, <3>3, <3>4, <4>1
      <4>3. e \in ToSet(g)
        BY <3>3, <3>4 DEF ToSet
      <4>4. e \in Filed
        BY <1>12, <3>3, <3>4
      <4> QED
        BY <1>12, <4>2, <4>3, <4>4
    <3>6. ASSUME NEW x \in ToSet(u) PROVE x.page \in upcoming /\ x.page < q
      <4>1. x.page \in upcoming /\ Suits(x.sig, Need[l][x.page])
        BY <1>11 DEF Serving, upcoming
      <4>2. x.page # q
        BY <1>9, <4>1
      <4>3. CASE x = tex
        BY <1>8, <3>1, <3>5, <4>1, <4>3
      <4>4. CASE x # tex
        <5>1. x \in ToSet(t) /\ x # e
          BY <1>4, <3>5, <4>4
        <5>2. x \in Filed
          BY <1>3, <5>1, ApartFew
        <5>3. CASE x.page > plan.page
          <6>1. x \in ToSet(g)
            BY <1>12, <5>1, <5>3
          <6>2. PICK j \in DOMAIN g : x = g[j]
            BY <6>1 DEF ToSet
          <6>3. j \in 1 .. Len(g) /\ 1 < j
            BY <3>3, <3>4, <5>1, <6>2
          <6>4. ~Farther(x, e)
            BY <1>12, <3>3, <3>4, <6>2, <6>3
          <6> QED
            BY <1>14, <3>1, <3>5, <4>1, <4>2, <5>2, <6>4 DEF Farther
        <5>4. CASE ~(x.page > plan.page)
          BY <1>14, <1>15, <3>1, <3>5, <4>1, <5>2, <5>4
        <5> QED
          BY <5>3, <5>4
      <4> QED
        BY <4>3, <4>4
    <3> DEFINE wanted == {x \in ToSet(u) : x.page \in upcoming /\ x.page < q}
    <3>7. ToSet(u) \subseteq wanted
      BY <3>6
    <3> HIDE DEF wanted
    <3>8. Among(u, wanted) = u
      BY <1>4, <3>7, AmongWhole DEF Separate
    <3>9. Freed(g, 0) = 0 /\ Freed(g, 1) = e.bytes
      <4>1. Freed(g, 0 + 1) = Freed(g, 0) + g[0 + 1].bytes
        BY <1>12, <3>4, FreedNext
      <4>2. 0 + 1 = 1 /\ e.bytes \in Nat
        BY <1>14, <3>5
      <4> QED
        BY <3>3, <3>4, <4>1, <4>2, FreedNone
    <3>10. ~(SizeOf(w, q) < e.bytes)
      BY <1>7, <3>1, <3>2
    <3>11. ~(Room(plan, t) - Freed(g, 0) <= FutureLimit)
      BY <1>12, <3>4
    <3>12. BytesIn(u) \in Nat /\ e.bytes \in Nat /\ SizeOf(w, q) \in Nat
      BY <1>4, <1>7, <1>14, <3>5, FiledSized, SizedNat DEF Separate
    <3>13. BytesIn(u) + SizeOf(w, q) > FutureLimit
      BY <1>4, <1>15, <3>4, <3>9, <3>10, <3>11, <3>12
    <3> QED
      BY <3>8, <3>13 DEF wanted
  <2> QED
    BY <2>2, <2>3
<1>17. NoneWaits(u, left, w, upcoming)
  BY <1>16 DEF NoneWaits
<1> QED
  BY <1>11, <1>17 DEF u, left, upcoming

-----------------------------------------------------------------------------
LEMMA HasKeyIs == \A s, e : HasKey(s, e) <=> \E f \in ToSet(s) : SameKey(f, e)
BY DEF HasKey, ToSet

\* What leaves and what comes when one cache becomes another (NearerWins).
Justified(t, u) ==
    LET gone == {e \in ToSet(t) : ~HasKey(u, e)}
        come == {e \in ToSet(u) : ~HasKey(t, e)}
    IN  \A e \in gone :
          /\ \E f \in come : f.page < e.page
          /\ \A f \in ToSet(u) \ come : f.page <= e.page
          /\ \E x \in gone : x.page <= e.page /\ BytesIn(u) + x.bytes > FutureLimit

LEMMA SwappedJustified ==
    ASSUME NEW t, Separate(t), NEW plan \in Plans, Fits(plan, t)
    PROVE  Justified(t, Swapped(t, plan))
<1> DEFINE u == Swapped(t, plan)
           tex == Texture(plan.page, plan.sig, plan.sig)
           gone == {e \in ToSet(t) : ~HasKey(u, e)}
           come == {e \in ToSet(u) : ~HasKey(t, e)}
<1>1. PICK g, k : Chain(g, k, plan, t)
  BY DEF Fits
<1>2. /\ tex \in Filed /\ Separate(u) /\ ToSet(u) = (ToSet(t) \ plan.victims) \cup {tex}
      /\ BytesIn(u) + Freed(g, k) = Room(plan, t)
  BY <1>1, SwappedIs
<1>3. tex.page = plan.page /\ plan.page \in Nat /\ FutureLimit \in Nat
  BY TextureAssumption DEF Texture, Fits, AllPages
<1>4. /\ g \in Seq(Filed) /\ k \in 0 .. Len(g)
      /\ ToSet(g) = {e \in ToSet(t) : e.page > plan.page}
      /\ \A i, j \in 1 .. Len(g) : i < j => ~Farther(g[j], g[i])
      /\ plan.victims = {g[i] : i \in 1 .. k}
      /\ \A j \in 0 .. k - 1 : ~(Room(plan, t) - Freed(g, j) <= FutureLimit)
  BY <1>1 DEF Chain
<1>5. \A e \in Filed : e.page \in Nat /\ e.sig \in Nat /\ e.bytes \in Nat
  BY TextureAssumption DEF Filed, AllPages
<1>6. ToSet(t) \subseteq Filed /\ \A e \in ToSet(t) : e.page # plan.page
  BY ApartFew DEF Fits
<1> HIDE DEF u, tex
<1>7. ASSUME NEW e \in ToSet(t) PROVE HasKey(u, e) <=> e \notin plan.victims
  <2>1. CASE e \notin plan.victims
    <3>1. e \in ToSet(u) /\ SameKey(e, e)
      BY <1>2, <2>1 DEF SameKey
    <3> QED
      BY <2>1, <3>1, HasKeyIs
  <2>2. CASE e \in plan.victims
    <3>1. ASSUME NEW f \in ToSet(u), SameKey(f, e) PROVE FALSE
      <4>1. f # tex
        BY <1>3, <1>6, <3>1 DEF SameKey
      <4>2. f \in ToSet(t) /\ f \notin plan.victims
        BY <1>2, <4>1
      <4>3. f = e
        BY <3>1, <4>2 DEF Separate
      <4> QED
        BY <2>2, <4>2, <4>3
    <3> QED
      BY <2>2, <3>1, HasKeyIs
  <2> QED
    BY <2>1, <2>2
<1>8. gone = ToSet(t) \cap plan.victims
  BY <1>7
<1>9. come = {tex}
  <2>1. \A f \in ToSet(t) : ~SameKey(f, tex)
    BY <1>3, <1>6 DEF SameKey
  <2>2. ~HasKey(t, tex)
    BY <2>1, HasKeyIs
  <2>3. \A f \in ToSet(u) : f # tex => HasKey(t, f)
    <3> SUFFICES ASSUME NEW f \in ToSet(u), f # tex PROVE HasKey(t, f)
      OBVIOUS
    <3>1. f \in ToSet(t) /\ SameKey(f, f)
      BY <1>2 DEF SameKey
    <3> QED
      BY <3>1, HasKeyIs
  <2> QED
    BY <1>2, <2>2, <2>3
<1> HIDE DEF gone, come
<1>10. ASSUME NEW e \in gone
       PROVE  /\ \E f \in come : f.page < e.page
              /\ \A f \in ToSet(u) \ come : f.page <= e.page
              /\ \E x \in gone : x.page <= e.page /\ BytesIn(u) + x.bytes > FutureLimit
  <2>1. PICK i \in 1 .. k : e = g[i]
    BY <1>4, <1>8
  <2>2. i \in 1 .. Len(g) /\ k \in 1 .. Len(g) /\ i <= k /\ DOMAIN g = 1 .. Len(g)
        /\ k - 1 \in 0 .. Len(g) - 1 /\ k - 1 \in 0 .. k - 1 /\ k - 1 + 1 = k
    BY <1>4, <2>1
  <2>3. \A j \in 1 .. Len(g) : g[j] \in ToSet(g) /\ g[j] \in Filed
    BY <1>4, <2>2 DEF ToSet
  <2>4. e \in Filed /\ e.page > plan.page
    BY <1>4, <2>1, <2>2, <2>3
  <2>5. \E f \in come : f.page < e.page
    BY <1>3, <1>5, <1>9, <2>4
  <2>6. ASSUME NEW f \in ToSet(u) \ come PROVE f.page <= e.page
    <3>1. f \in ToSet(t) /\ f \notin plan.victims /\ f \in Filed
      BY <1>2, <1>6, <1>9
    <3>2. CASE f.page > plan.page
      <4>1. f \in ToSet(g)
        BY <1>4, <3>1, <3>2
      <4>2. PICK j \in DOMAIN g : f = g[j]
        BY <4>1 DEF ToSet
      <4>3. j \in 1 .. Len(g) /\ j \notin 1 .. k
        BY <1>4, <2>2, <3>1, <4>2
      <4>4. i < j
        BY <2>1, <2>2, <4>3
      <4>5. ~Farther(f, e)
        BY <1>4, <2>1, <2>2, <4>2, <4>3, <4>4
      <4> QED
        BY <1>5, <2>4, <3>1, <4>5 DEF Farther
    <3>3. CASE ~(f.page > plan.page)
      BY <1>3, <1>5, <2>4, <3>1, <3>3
    <3> QED
      BY <3>2, <3>3
  <2>7. \E x \in gone : x.page <= e.page /\ BytesIn(u) + x.bytes > FutureLimit
    <3> DEFINE x == g[k]
    <3>1. x \in Filed /\ x \in ToSet(t) /\ x \in plan.victims
      <4>1. x \in ToSet(g) /\ x \in Filed
        BY <2>2, <2>3
      <4>2. x \in plan.victims
        BY <1>4, <2>1, <2>2
      <4> QED
        BY <1>4, <4>1, <4>2
    <3>2. x.page <= e.page
      <4>1. CASE i = k
        BY <1>5, <2>1, <2>4, <4>1
      <4>2. CASE i < k
        <5>1. ~Farther(x, e)
          BY <1>4, <2>1, <2>2, <4>2
        <5> QED
          BY <1>5, <2>4, <3>1, <5>1 DEF Farther
      <4> QED
        BY <2>1, <2>2, <4>1, <4>2
    <3>3. /\ Freed(g, k - 1) \in Nat /\ Freed(g, k) \in Nat
          /\ Freed(g, k) = Freed(g, k - 1) + x.bytes
      <4>1. /\ Freed(g, k - 1) \in Nat /\ Freed(g, k - 1 + 1) \in Nat
            /\ Freed(g, k - 1 + 1) = Freed(g, k - 1) + g[k - 1 + 1].bytes
        BY <1>4, <2>2, FreedNext
      <4> QED
        BY <2>2, <4>1
    <3>4. ~(Room(plan, t) - Freed(g, k - 1) <= FutureLimit)
      BY <1>4, <2>2
    <3>5. BytesIn(u) \in Nat /\ x.bytes \in Nat
      BY <1>2, <1>5, <3>1, FiledSized, SizedNat DEF Separate
    <3> HIDE DEF x
    <3>6. BytesIn(u) + x.bytes > FutureLimit
      BY <1>2, <1>3, <3>3, <3>4, <3>5
    <3> QED
      BY <1>8, <3>1, <3>2, <3>6
  <2> QED
    BY <2>5, <2>6, <2>7
<1> QED
  BY <1>10 DEF Justified, u, gone, come

\* Nothing leaves a cache that stays as it is.
LEMMA SameJustified == \A t : Justified(t, t)
<1> SUFFICES ASSUME NEW t, NEW e \in ToSet(t) PROVE HasKey(t, e)
  BY DEF Justified
<1> QED
  BY HasKeyIs DEF SameKey

(***************************************************************************)
(* The invariant.  While an upload is planned, the cache holds just what   *)
(* the view keeps, the plan makes room in it, and unless something came in *)
(* between (frameDue) it is the plan of the moment (WellPlanned).          *)
(***************************************************************************)
Planned ==
    /\ ~loading
    /\ Serving(layout, requested, future)
    /\ planned \in Plans /\ Fits(planned, future)
    /\ frameDue \/ WellPlanned(planned, future,
                               Lack(layout, requested, ready, ToSet(future) \cup ToSet(history)),
                               ready)

TextureInv ==
    /\ layout \in Layouts
    /\ requested \in AllPages
    /\ ready \in WidthTable
    /\ loading \in BOOLEAN /\ frameDue \in BOOLEAN /\ dozed \in BOOLEAN /\ fresh \in BOOLEAN
    /\ frame \in {"idle", "warm", "upload"}
    /\ Separate(future)
    /\ frame = "upload" => Planned
    /\ WarmupAwake

LEMMA SeparateNone == Separate(<<>>)
<1>1. <<>> \in Seq(Filed)
  OBVIOUS
<1>2. DOMAIN <<>> = {} /\ ToSet(<<>>) = {}
  BY DEF ToSet
<1> QED
  BY <1>1, <1>2 DEF Separate, Once

LEMMA NoneReady == [p \in AllPages |-> 0] \in WidthTable
BY DEF WidthTable

LEMMA TextureInitial == TextureInit => TextureInv
<1> SUFFICES ASSUME TextureInit PROVE TextureInv
  OBVIOUS
<1>1. WarmupAwake
  BY DEF TextureInit, WarmupAwake
<1> QED
  BY <1>1, SeparateNone, NoneReady DEF TextureInit, TextureInv

\* A frame begins: what remains to show is the type of what it leaves.
LEMMA FrameBegins ==
    ASSUME TextureInv, StartFrame, layout' \in Layouts, requested' \in AllPages,
           ready' \in WidthTable, loading' \in BOOLEAN, fresh' \in BOOLEAN,
           Separate(future')
    PROVE  TextureInv'
<1>1. frame' = "warm" /\ frameDue' = FALSE /\ dozed' = dozed
  BY DEF StartFrame
<1>2. WarmupAwake'
  BY <1>1, ForViewNext
<1>3. dozed' \in BOOLEAN
  BY <1>1 DEF TextureInv
<1> QED
  BY <1>1, <1>2, <1>3 DEF TextureInv

LEMMA TurnToKeeps == ASSUME TextureInv, TurnTo PROVE TextureInv'
<1>1. StartFrame /\ ready' = ready
  BY DEF TurnTo
<1>2. PICK p \in AllPages, l \in Layouts : \E held : Show(p, l, held)
  BY DEF TurnTo
<1>3. PICK held : Show(p, l, held)
  BY <1>2
<1>4. Separate(future) /\ ready \in WidthTable
  BY DEF TextureInv
<1>5. /\ layout' = l /\ requested' = p /\ loading' \in BOOLEAN /\ fresh' \in BOOLEAN
      /\ Separate(future')
  BY <1>3, <1>4, ShowKeeps
<1> QED
  BY <1>1, <1>4, <1>5, FrameBegins

LEMMA LoadedKeeps == ASSUME TextureInv, Loaded PROVE TextureInv'
<1> DEFINE shown == ViewOf[layout][requested]
<1>1. /\ StartFrame /\ ready' = ready /\ layout' = layout /\ requested' = requested
      /\ \E s : DOMAIN s = DOMAIN shown /\ Commit(s)
  BY DEF Loaded
<1>2. Separate(future) /\ ready \in WidthTable /\ layout \in Layouts /\ requested \in AllPages
  BY DEF TextureInv
<1>3. shown \in Seq(AllPages)
  BY <1>2, TextureAssumption
<1>4. DOMAIN shown = 1 .. Len(shown) /\ Len(shown) \in Nat
  BY <1>3
<1> HIDE DEF shown
<1>5. PICK s : DOMAIN s = DOMAIN shown /\ Commit(s)
  BY <1>1
<1>6. Len(s) \in Nat
  BY <1>4, <1>5
<1>7. Separate(future') /\ loading' = FALSE /\ fresh' = TRUE
  BY <1>2, <1>5, <1>6, CommitKeeps
<1> QED
  BY <1>1, <1>2, <1>7, FrameBegins

LEMMA ChangeQualityKeeps == ASSUME TextureInv, ChangeQuality PROVE TextureInv'
<1>1. /\ StartFrame /\ future' = <<>> /\ ready' = [p \in AllPages |-> 0]
      /\ loading' = TRUE /\ fresh' = FALSE /\ layout' = layout /\ requested' = requested
  BY DEF ChangeQuality
<1>2. layout \in Layouts /\ requested \in AllPages
  BY DEF TextureInv
<1>3. Separate(future') /\ ready' \in WidthTable
  BY <1>1, SeparateNone, NoneReady
<1> QED
  BY <1>1, <1>2, <1>3, FrameBegins

LEMMA GlanceKeeps == ASSUME TextureInv, Glance PROVE TextureInv'
<1>1. /\ StartFrame /\ future' = future /\ ready' = ready
      /\ loading' = loading /\ fresh' = FALSE /\ layout' = layout /\ requested' = requested
  BY DEF Glance, viewVars, textureCaches
<1>2. /\ layout \in Layouts /\ requested \in AllPages /\ Separate(future)
      /\ loading \in BOOLEAN /\ ready \in WidthTable
  BY DEF TextureInv
<1> QED
  BY <1>1, <1>2, FrameBegins

LEMMA StreamedKeeps == ASSUME TextureInv, Streamed PROVE TextureInv'
<1>1. /\ frameDue' = TRUE /\ future' = future /\ history' = history /\ layout' = layout
      /\ requested' = requested /\ loading' = loading /\ frame' = frame /\ fresh' = fresh
      /\ planned' = planned /\ dozed' = dozed
  BY DEF Streamed, textureCaches, viewVars
<1>2. ready' \in WidthTable
  <2>1. PICK p \in AllPages : \E lost : \E width \in {Need[l][p] : l \in Layouts} :
          ready' = [q \in AllPages |->
                       IF q = p THEN width ELSE IF q \in lost THEN 0 ELSE ready[q]]
    BY DEF Streamed
  <2>2. PICK lost, width : /\ width \in {Need[l][p] : l \in Layouts}
                          /\ ready' = [q \in AllPages |->
                       IF q = p THEN width ELSE IF q \in lost THEN 0 ELSE ready[q]]
    BY <2>1
  <2>3. width \in Widths
    BY <2>2 DEF Widths
  <2>4. ready \in WidthTable
    BY DEF TextureInv
  <2> QED
    BY <2>3, <2>4, <2>2 DEF WidthTable
<1>3. WarmupAwake'
  BY <1>1, ForViewNext
<1>4. frame' = "upload" => Planned'
  <2> SUFFICES ASSUME frame' = "upload" PROVE Planned'
    OBVIOUS
  <2>1. Planned
    BY <1>1 DEF TextureInv
  <2>2. ~loading' /\ Serving(layout', requested', future') /\ planned' \in Plans
        /\ Fits(planned', future') /\ frameDue'
    BY <1>1, <2>1 DEF Planned
  <2> QED
    BY <2>2 DEF Planned
<1> QED
  BY <1>1, <1>2, <1>3, <1>4 DEF TextureInv

LEMMA WarmUpKeeps == ASSUME TextureInv, WarmUp PROVE TextureInv'
<1>1. /\ frame = "warm" /\ history' = history /\ layout' = layout /\ requested' = requested
      /\ loading' = loading /\ ready' = ready /\ fresh' = fresh
  BY DEF WarmUp, viewVars
<1>2. /\ layout \in Layouts /\ requested \in AllPages /\ ready \in WidthTable
      /\ loading \in BOOLEAN /\ frameDue \in BOOLEAN /\ dozed \in BOOLEAN /\ fresh \in BOOLEAN
      /\ Separate(future)
  BY DEF TextureInv
<1>3. CASE loading
  <2>1. frame' = "idle" /\ dozed' = FALSE /\ future' = future /\ frameDue' = frameDue
    BY <1>3 DEF WarmUp
  <2>2. WarmupAwake'
    BY <1>1, <1>3, ForViewNext
  <2> QED
    BY <1>1, <1>2, <2>1, <2>2 DEF TextureInv
<1>4. CASE ~loading
  <2> DEFINE t == RetainedFor(layout, requested, future)
             past == ToSet(history)
             lack == Lack(layout, requested, ready, ToSet(t) \cup past)
             plan == PlanOver(t, lack, ready)
             upcoming == UpcomingFor(layout, requested)
  <2>1. Serving(layout, requested, t) /\ RetainedFor(layout, requested, t) = t
    <3>1. Serving(layout, requested, t)
      BY <1>2, RetainedIs
    <3>2. Separate(t)
      BY <3>1 DEF Serving
    <3> HIDE DEF t
    <3> QED
      BY <3>1, <3>2, RetainedIs
  <2>2. PlanWarmup = plan /\ Retained = t
    BY ForView
  <2>3. \/ plan = Nothing /\ NoneWaits(t, lack, ready, upcoming)
        \/ plan # Nothing /\ WellPlanned(plan, t, lack, ready)
    <3> HIDE DEF t
    <3> QED
      BY <1>2, <2>1, PlanOverIs
  <2> HIDE DEF plan
  <2>4. /\ future' = t
        /\ \/ /\ plan = Nothing \/ fresh
              /\ frame' = "idle" /\ planned' = Nothing
              /\ dozed' = (plan # Nothing /\ ~plan.more)
              /\ frameDue' = (frameDue \/ (plan # Nothing /\ plan.more))
           \/ /\ plan # Nothing
              /\ frame' = "upload" /\ planned' = plan /\ dozed' = FALSE
              /\ frameDue' = frameDue
    BY <1>4, <2>2 DEF WarmUp
  <2>5. /\ Upcoming' = upcoming
        /\ Missing' = lack
    <3>1. Retained' = RetainedFor(layout', requested', future')
      BY ForViewNext
    <3>2. Retained' = t
      BY <1>1, <2>1, <2>4, <3>1
    <3> HIDE DEF t
    <3>3. Missing' = Lack(layout', requested', ready', ToSet(Retained') \cup ToSet(history'))
          /\ Upcoming' = UpcomingFor(layout', requested')
      BY ForViewNext
    <3> QED
      BY <1>1, <3>2, <3>3
  <2>6. Separate(future')
    BY <2>1, <2>4 DEF Serving
  <2>7. Planned' <=> /\ ~loading'
                     /\ Serving(layout', requested', future')
                     /\ planned' \in Plans /\ Fits(planned', future')
                     /\ frameDue' \/ WellPlanned(planned', future',
                          Lack(layout', requested', ready', ToSet(future') \cup ToSet(history')),
                          ready')
    BY DEF Planned
  <2>8. WarmupAwake' <=> \/ frame' # "idle" \/ frameDue' \/ loading' \/ dozed'
                         \/ NoneWaits(future', lack, ready', upcoming)
    <3> HIDE DEF lack, upcoming
    <3> QED
      BY <2>5, ForViewNext
  <2>9. Lack(layout', requested', ready', ToSet(future') \cup ToSet(history')) = lack
    BY <1>1, <2>4
  <2> HIDE DEF t, lack, upcoming
  <2>10. ASSUME plan # Nothing
         PROVE  plan \in Plans /\ plan.more \in BOOLEAN /\ Fits(plan, t)
    BY <2>3, <2>10 DEF WellPlanned, Plans
  <2>11. CASE frame' = "idle"
    <3>1. frameDue' \in BOOLEAN /\ dozed' \in BOOLEAN
      BY <1>2, <2>4, <2>10
    <3>2. WarmupAwake'
      <4>1. CASE plan = Nothing
        BY <1>1, <2>3, <2>4, <2>8, <4>1
      <4>2. CASE plan # Nothing
        BY <2>4, <2>8, <2>10, <2>11, <4>2
      <4> QED
        BY <4>1, <4>2
    <3> QED
      BY <1>1, <1>2, <2>6, <2>11, <3>1, <3>2 DEF TextureInv
  <2>12. CASE frame' = "upload"
    <3>1. /\ plan # Nothing /\ planned' = plan /\ dozed' = FALSE
          /\ frameDue' = frameDue
      BY <2>4, <2>12
    <3>2. WarmupAwake'
      BY <2>8, <2>12
    <3>3. WellPlanned(plan, t, lack, ready)
      BY <2>3, <3>1
    <3>4. Planned'
      BY <1>1, <1>4, <2>1, <2>4, <2>7, <2>9, <2>10, <3>1, <3>3
    <3> QED
      BY <1>1, <1>2, <2>6, <2>12, <3>1, <3>2, <3>4 DEF TextureInv
  <2> QED
    BY <2>4, <2>11, <2>12
<1> QED
  BY <1>2, <1>3, <1>4

LEMMA UploadKeeps == ASSUME TextureInv, Upload PROVE TextureInv'
<1>1. /\ frame = "upload" /\ frame' = "idle" /\ planned' = Nothing /\ history' = history
      /\ layout' = layout /\ requested' = requested /\ loading' = loading
      /\ ready' = ready /\ fresh' = fresh
  BY DEF Upload, viewVars
<1>2. /\ layout \in Layouts /\ requested \in AllPages /\ ready \in WidthTable
      /\ loading \in BOOLEAN /\ frameDue \in BOOLEAN /\ dozed \in BOOLEAN /\ fresh \in BOOLEAN
      /\ Separate(future) /\ Planned
  BY <1>1 DEF TextureInv
<1> DEFINE lack == Lack(layout, requested, ready, ToSet(future) \cup ToSet(history))
<1>3. /\ Serving(layout, requested, future) /\ planned \in Plans /\ Fits(planned, future)
      /\ frameDue \/ WellPlanned(planned, future, lack, ready)
  BY <1>2 DEF Planned
<1>4. planned.more \in BOOLEAN
  BY <1>3 DEF Plans
<1>5. CASE ready[planned.page] # planned.sig
  <2>1. future' = future /\ frameDue' = frameDue /\ dozed' = dozed
    BY <1>5 DEF Upload
  <2>2. frameDue
    BY <1>3, <1>5 DEF WellPlanned
  <2>3. WarmupAwake'
    BY <2>1, <2>2, ForViewNext
  <2> QED
    BY <1>1, <1>2, <2>1, <2>3 DEF TextureInv
<1>6. CASE ready[planned.page] = planned.sig
  <2> DEFINE u == Swapped(future, planned)
  <2>1. /\ future' = u
        /\ frameDue' = (frameDue \/ planned.more)
        /\ dozed' = (~planned.more /\ MayFitAgain)
    BY <1>6 DEF Upload, Swapped, MoreToUpload
  <2>2. MayFitAgain <=>
          \/ Cardinality(planned.victims) > 1
          \/ \E e \in planned.victims : ready[e.page] # 0 /\ SizeOf(ready, e.page) < e.bytes
    BY DEF MayFitAgain, SizeOf, BytesFor
  <2>3. MayFitAgain \in BOOLEAN
    BY DEF MayFitAgain
  <2>4. Separate(u)
    BY <1>2, <1>3, SwappedIs DEF Fits
  <2> HIDE DEF u
  <2>5. WarmupAwake'
    <3>1. CASE frameDue' \/ dozed'
      BY <3>1, ForViewNext
    <3>2. CASE ~frameDue' /\ ~dozed'
      <4>1. ~frameDue /\ ~planned.more /\ ~MayFitAgain
        BY <1>2, <1>4, <2>1, <2>3, <3>2
      <4>2. WellPlanned(planned, future, lack, ready)
        BY <1>3, <4>1
      <4>3. \A e \in planned.victims :
              ready[e.page] # 0 => ~(SizeOf(ready, e.page) < e.bytes)
        BY <2>2, <4>1
      <4>4. ~(Cardinality(planned.victims) > 1)
        BY <2>2, <4>1
      <4> DEFINE left == Lack(layout, requested, ready, ToSet(u) \cup ToSet(history))
      <4>5. Serving(layout, requested, u)
            /\ NoneWaits(u, left, ready, UpcomingFor(layout, requested))
        BY <1>2, <1>3, <4>1, <4>2, <4>3, <4>4, NoneLeft DEF u
      <4>6. RetainedFor(layout, requested, u) = u
        BY <2>4, <4>5, RetainedIs
      <4>7. Retained' = RetainedFor(layout', requested', future')
        BY ForViewNext
      <4>8. Retained' = u
        BY <1>1, <2>1, <4>6, <4>7
      <4>9. /\ Missing' = Lack(layout', requested', ready', ToSet(Retained') \cup ToSet(history'))
            /\ Upcoming' = UpcomingFor(layout', requested')
        BY ForViewNext
      <4>10. Missing' = left /\ Upcoming' = UpcomingFor(layout, requested)
        BY <1>1, <4>8, <4>9
      <4> HIDE DEF left
      <4>11. NoneWaits(future', Missing', ready', Upcoming')
        BY <1>1, <2>1, <4>5, <4>10
      <4> QED
        BY <4>11, ForViewNext
    <3> QED
      BY <3>1, <3>2
  <2>6. frameDue' \in BOOLEAN /\ dozed' \in BOOLEAN
    BY <1>2, <1>4, <2>1, <2>3
  <2> QED
    BY <1>1, <1>2, <2>1, <2>4, <2>5, <2>6 DEF TextureInv
<1> QED
  BY <1>5, <1>6

(***************************************************************************)
(* What SPAD hands over is of widths the sizes of textures are known for,  *)
(* all of one width unless the layout has changed; and as many pages as    *)
(* are ready, at least, lie before the index.                              *)
(***************************************************************************)
Wide(s, t) ==
    /\ \A r \in t.ready :
        r.width \in SpadWidths /\ (~resized => r.width = WidthFor(s))
    /\ Cardinality(t.ready) < t.index

ReadyWide == \A s \in SidesPresent : Wide(s, target[s])

LEMMA SpadWidthsNat == SpadWidths \subseteq Nat
<1>1. ASSUME NEW b \in Neighbourhoods, NEW s \in DOMAIN b PROVE b[s].width \in Nat
  BY SpadAssumption
<1>2. UNION {{b[s].width : s \in DOMAIN b} : b \in Neighbourhoods} \subseteq Nat
  BY <1>1
<1> QED
  BY <1>2, SpadAssumption DEF SpadWidths

LEMMA TakenWide ==
    ASSUME SpadInv, ReadyWide, NEW s \in SidesPresent
    PROVE  Wide(s, Taken(s))
<1> DEFINE b == book[s]
           t == target[s]
           y == Budgeted(s, t)
           q == spadInflight[s]
           m == 2 * AreaBytes[WidthFor(s)] + ExtraBytes
<1>1. /\ b \in SpadBooks /\ t \in Targets /\ Good(b, t) /\ IsFiniteSet(t.ready)
      /\ m \in Nat
  BY SpadBook DEF SpadInv, SpadTyped
<1>2. Wide(s, t)
  BY DEF ReadyWide
<1>3. Taken(s) = IF HasAnswer(s) THEN Handled(y, q, Head(q.answer)) ELSE y
  BY DEF Taken
<1>4. y = [t EXCEPT !.max = m]
  BY DEF Budgeted
<1>5. HasAnswer(s) => s \in DOMAIN spadInflight /\ q.answer # <<>>
  BY DEF HasAnswer
<1>6. s \in DOMAIN spadInflight =>
        /\ q \in SpadRequests /\ q.width \in SpadWidths /\ Asked(b, t, q)
        /\ ~resized => q.width = WidthFor(s)
  BY DEF SpadInv, SpadTyped
<1> HIDE DEF b, t, y, q, m
<1>7. /\ y \in Targets /\ y.known = t.known /\ y.entry = t.entry
      /\ y.schedule = t.schedule /\ y.index = t.index /\ y.ready = t.ready
      /\ y.failed = t.failed
  BY <1>1, <1>4 DEF Targets
<1>8. CASE ~HasAnswer(s)
  BY <1>2, <1>3, <1>7, <1>8 DEF Wide
<1>9. CASE HasAnswer(s)
  <2>1. /\ q \in SpadRequests /\ q.width \in SpadWidths /\ Asked(b, t, q)
        /\ q.answer # <<>> /\ (~resized => q.width = WidthFor(s))
    BY <1>5, <1>6, <1>9
  <2>2. PICK r \in SpadAnswers(b, q.page) : q.answer = <<r>>
    BY <2>1 DEF Asked
  <2>3. Head(q.answer) = r /\ r.frames \in BOOLEAN /\ r.count \in {0, b.count}
    BY <2>2 DEF SpadAnswers
  <2>4. Good(b, y) /\ y.schedule # <<>>
    BY <1>1, <1>7, <2>1 DEF Good, PlanOf, Passed, Done, ReadyPages, Asked
  <2> DEFINE u == LearnCount(y, r.count)
             x == PageBytes[q.page][q.width]
             w == Handled(y, q, r)
             z == MarkFailed(u, q.page)
  <2>5. /\ u \in Targets /\ Rescheduled(y, u) /\ Good(b, u) /\ u.schedule # <<>>
        /\ u = y \/ (u.index = 1 /\ y.known # b.count)
    BY <1>1, <1>7, <2>3, <2>4, LearnedGood
  <2>6. Outcome(u, q, r, x, w)
    BY <2>3, HandledOutcome
  <2> HIDE DEF u
  <2>7. q.page \in Nat
    BY <2>1 DEF SpadRequests
  <2>8. z \in Targets /\ z.ready = u.ready /\ z.index >= u.index
    BY <1>1, <2>5, <2>7, MarkedGood
  <2> DEFINE e == [page |-> q.page, width |-> q.width]
             n == Cardinality(u.ready)
  <2> HIDE DEF w, z, x
  <2>9. \/ w = z \/ w = u \/ w = [z EXCEPT !.exhausted = TRUE] \/ w = Readied(u, q, x)
    BY <2>6 DEF Outcome, z
  <2>10. /\ Readied(u, q, x).ready = u.ready \cup {e}
         /\ Readied(u, q, x).index = u.index + 1
    BY <2>5 DEF Readied, Targets
  <2>11. /\ [z EXCEPT !.exhausted = TRUE].ready = z.ready
         /\ [z EXCEPT !.exhausted = TRUE].index = z.index
    BY <2>8 DEF Targets
  <2>12. u.ready = t.ready /\ IsFiniteSet(u.ready) /\ n \in Nat
    BY <1>1, <1>7, <2>5, FS_CardinalityType DEF Rescheduled
  <2>13. n < u.index
    <3>1. CASE u = y
      BY <1>2, <1>7, <3>1 DEF Wide
    <3>2. CASE u # y
      <4>1. u.ready = {} /\ u.index = 1
        BY <1>7, <2>4, <2>5, <2>12, <3>2 DEF Good
      <4> QED
        BY <4>1, FS_EmptySet
    <3> QED
      BY <3>1, <3>2
  <2> HIDE DEF e, n
  <2>14. /\ IsFiniteSet(u.ready \cup {e})
         /\ Cardinality(u.ready \cup {e}) = IF e \in u.ready THEN n ELSE n + 1
    BY <2>12, FS_AddElement DEF n
  <2>15. Cardinality(u.ready \cup {e}) <= n + 1 /\ Cardinality(u.ready \cup {e}) \in Nat
    BY <2>12, <2>14
  <2>16. w.ready \subseteq u.ready \cup {e} /\ Cardinality(w.ready) < w.index
    <3>1. u.index \in Nat /\ z.index \in Nat
      BY <2>5, <2>8 DEF Targets
    <3>2. CASE w = Readied(u, q, x)
      <4>1. w.ready = u.ready \cup {e} /\ w.index = u.index + 1
        BY <2>10, <3>2 DEF e
      <4>2. Cardinality(w.ready) <= n + 1 /\ Cardinality(w.ready) \in Nat
        BY <2>15, <4>1
      <4> QED
        BY <2>12, <2>13, <3>1, <4>1, <4>2
    <3>3. CASE w # Readied(u, q, x)
      <4>1. \/ w = u
            \/ w.ready = z.ready /\ w.index = z.index
        BY <2>9, <2>11, <3>3
      <4>2. w.ready = u.ready /\ (w.index = u.index \/ w.index = z.index)
        BY <2>8, <4>1
      <4>3. Cardinality(w.ready) = n
        BY <4>2 DEF n
      <4> QED
        BY <2>8, <2>12, <2>13, <3>1, <4>2, <4>3
    <3> QED
      BY <3>2, <3>3
  <2>17. Taken(s) = w
    BY <1>3, <1>9, <2>3 DEF w
  <2>18. e.width = q.width
    BY DEF e
  <2> QED
    BY <1>2, <2>1, <2>12, <2>16, <2>17, <2>18 DEF Wide
<1> QED
  BY <1>8, <1>9

LEMMA LookedWide ==
    ASSUME SpadInv, ReadyWide, NEW s \in SidesPresent
    PROVE  Wide(s, Looked(s))
<1> DEFINE t == Taken(s)
           u == Scheduled(t)
<1>1. book[s] \in SpadBooks /\ t \in Targets /\ Good(book[s], t)
  BY SpadBook, TakenSound DEF SpadInv, Sound
<1>2. Wide(s, t)
  BY TakenWide
<1>3. Looked(s) = t \/ Looked(s) = CheckBudget(u)
  BY DEF Looked
<1> HIDE DEF t
<1>4. u \in Targets /\ u.ready = t.ready /\ u.index = t.index
  BY <1>1, ScheduledGood DEF Rescheduled
<1> HIDE DEF u
<1>5. CheckBudget(u).ready = u.ready /\ CheckBudget(u).index = u.index
  BY <1>4 DEF CheckBudget, Targets
<1> QED
  BY <1>2, <1>3, <1>4, <1>5 DEF Wide

LEMMA SpadStepKeeps ==
    ASSUME SpadInv, ReadyWide, SpadNext
    PROVE  SpadInv' /\ ReadyWide'
<1>1. CASE PollSpad
  <2>1. /\ target' = [s \in SidesPresent |-> IF Dispatches(s) THEN Advanced(Looked(s))
                                                              ELSE Looked(s)]
        /\ book' = book /\ area' = area /\ resized' = resized
    BY <1>1 DEF PollSpad
  <2>2. SidesPresent' = SidesPresent
    BY <2>1 DEF SidesPresent
  <2>3. ASSUME NEW s \in SidesPresent PROVE Wide(s, target'[s])
    <3> DEFINE t == Looked(s)
    <3>1. book[s] \in SpadBooks /\ t \in Targets /\ Good(book[s], t) /\ IsFiniteSet(t.ready)
      BY SpadBook, LookedSound DEF SpadInv, Sound
    <3>2. Wide(s, t)
      BY LookedWide
    <3> HIDE DEF t
    <3>3. CASE Dispatches(s)
      <4>1. Pending(t) # {}
        BY <3>3 DEF Dispatches, t
      <4>2. Advanced(t) \in Targets /\ Advanced(t).ready = t.ready /\ Advanced(t).index >= t.index
        BY <3>1, <4>1, FirstPending
      <4>3. target'[s] = Advanced(t)
        BY <2>1, <3>3 DEF t
      <4>4. Cardinality(t.ready) \in Nat /\ t.index \in Nat /\ Advanced(t).index \in Nat
        BY <3>1, <4>2, FS_CardinalityType DEF Targets
      <4> QED
        BY <3>2, <4>2, <4>3, <4>4 DEF Wide
    <3>4. CASE ~Dispatches(s)
      BY <2>1, <3>2, <3>4 DEF t
    <3> QED
      BY <3>3, <3>4
  <2>4. ReadyWide'
    BY <2>1, <2>2, <2>3 DEF ReadyWide, Wide, WidthFor
  <2> QED
    BY <1>1, <2>4, SpadPollKeeps
<1>2. CASE (\E s \in SidesPresent : DecodeSpad(s)) \/ Gate \/ Relayout
  <2>1. /\ target' = target /\ book' = book
        /\ resized' \/ (resized' = resized /\ area' = area)
    BY <1>2 DEF DecodeSpad, Gate, Relayout
  <2>2. ReadyWide'
    BY <2>1 DEF ReadyWide, Wide, WidthFor, SidesPresent
  <2>3. SpadInv'
    BY <1>2, DecodeKeeps, GateKeeps, RelayoutKeeps
  <2> QED
    BY <2>2, <2>3
<1> QED
  BY <1>1, <1>2 DEF SpadNext

Fitting(e, p, need) == e.page = p /\ Suits(e.sig, need)

\* The pages handed over so far: apart, and one of each that can be.
Handed(s, l, k, x) ==
    /\ Separate(x)
    /\ \A e \in ToSet(x) : e.page < k
    /\ \A p \in 0 .. k - 1 :
        Offered(s, l, p) # {} =>
            \E e \in ToSet(x) : Fitting(e, p, Need[l][StartPage(s)])

LEMMA OfferedFits ==
    ASSUME ReadyWide, NEW s \in SidesPresent, NEW l \in Layouts, NEW k \in AllPages,
           NEW r \in Offered(s, l, k)
    PROVE  LET e == Texture(r.page, r.width, r.width)
           IN  e \in Filed /\ e.page = k /\ Fitting(e, k, Need[l][StartPage(s)])
<1>1. r \in target[s].ready /\ r.page = k /\ Suits(r.width, Need[l][StartPage(s)])
  BY DEF Offered, ReadyOf
<1>2. r.width \in SpadWidths
  BY <1>1 DEF ReadyWide, Wide
<1>3. r.width \in Nat /\ TextureBytes[k][r.width] \in Nat
  BY <1>2, SpadWidthsNat, ReadAheadAssumption
<1> QED
  BY <1>1, <1>3 DEF Texture, Filed, Fitting

LEMMA HandedNext ==
    ASSUME ReadyWide, NEW s \in SidesPresent, NEW l \in Layouts, NEW k \in AllPages,
           NEW x, Handed(s, l, k, x)
    PROVE  LET r == CHOOSE r \in Offered(s, l, k) : TRUE
           IN  Handed(s, l, k + 1,
                      IF Offered(s, l, k) = {} THEN x
                      ELSE Append(x, Texture(r.page, r.width, r.width)))
<1> DEFINE r == CHOOSE r \in Offered(s, l, k) : TRUE
           e == Texture(r.page, r.width, r.width)
           y == Append(x, e)
           need == Need[l][StartPage(s)]
<1>1. /\ k \in Nat /\ \A p \in 0 .. k : p \in 0 .. k - 1 \/ p = k
      /\ \A p \in 0 .. (k + 1) - 1 : p \in 0 .. k
  BY TextureAssumption DEF AllPages
<1>2. Separate(x) /\ x \in Seq(Filed) /\ ToSet(x) \subseteq Filed
  BY ApartFew DEF Handed, Separate
<1>3. \A f \in ToSet(x) : f.page \in Nat /\ f.page < k
  BY <1>2, TextureAssumption DEF Handed, Filed, AllPages
<1>4. CASE Offered(s, l, k) = {}
  <2> HIDE DEF e
  <2>1. \A f \in ToSet(x) : f.page < k + 1
    BY <1>1, <1>3
  <2>2. Handed(s, l, k + 1, x)
    BY <1>1, <1>2, <1>4, <2>1 DEF Handed
  <2> QED
    BY <1>4, <2>2
<1>5. CASE Offered(s, l, k) # {}
  <2>1. r \in Offered(s, l, k)
    BY <1>5
  <2>2. e \in Filed /\ e.page = k /\ Fitting(e, k, need)
    BY <2>1, OfferedFits
  <2> HIDE DEF r, e
  <2>6. e \notin ToSet(x) /\ \A f \in ToSet(x) : ~SameKey(f, e)
    BY <1>1, <1>3, <2>2 DEF SameKey
  <2>7. y \in Seq(Filed) /\ Once(y) /\ ToSet(y) = ToSet(x) \cup {e}
    BY <1>2, <2>2, <2>6, OnceAppend, AppendIs DEF Separate
  <2> HIDE DEF y, need
  <2>8. Separate(y)
    BY <1>2, <2>6, <2>7 DEF Separate, SameKey
  <2>9. \A f \in ToSet(y) : f.page < k + 1
    BY <1>1, <1>3, <2>2, <2>7
  <2>10. ASSUME NEW p \in 0 .. (k + 1) - 1, Offered(s, l, p) # {}
         PROVE  \E f \in ToSet(y) : Fitting(f, p, need)
    <3>1. CASE p = k
      BY <2>2, <2>7, <3>1
    <3>2. CASE p # k
      <4>1. p \in 0 .. k - 1
        BY <1>1, <3>2
      <4>2. \E f \in ToSet(x) : Fitting(f, p, need)
        BY <2>10, <4>1 DEF Handed, need
      <4> QED
        BY <2>7, <4>2
    <3> QED
      BY <3>1, <3>2
  <2>11. Handed(s, l, k + 1, y)
    <3>1. \A p \in 0 .. (k + 1) - 1 :
            Offered(s, l, p) # {} =>
              \E f \in ToSet(y) : Fitting(f, p, Need[l][StartPage(s)])
      BY <2>10 DEF need
    <3> QED
      BY <2>8, <2>9, <3>1 DEF Handed
  <2> QED
    BY <1>5, <2>11 DEF y, e, r
<1> QED
  BY <1>4, <1>5

LEMMA HandoverIs ==
    ASSUME ReadyWide, NEW s \in SidesPresent, NEW l \in Layouts
    PROVE  Handed(s, l, Total, Handover(s, l))
<1> DEFINE Taking(p) == CHOOSE r \in Offered(s, l, p) : TRUE
           Put(x, p) == IF Offered(s, l, p) = {} THEN x
                        ELSE Append(x, Texture(Taking(p).page, Taking(p).width, Taking(p).width))
           V == Seq(Filed)
           step == [k \in 1 .. Total |-> [x \in V |-> Put(x, k - 1)]]
<1>1. Total \in Nat /\ \A k \in 1 .. Total : k - 1 \in AllPages /\ k - 1 \in 0 .. Total
  BY TextureAssumption DEF AllPages
<1>2. ASSUME NEW x \in V, NEW p \in AllPages PROVE Put(x, p) \in V
  <2>1. CASE Offered(s, l, p) = {}
    BY <2>1
  <2>2. CASE Offered(s, l, p) # {}
    <3> DEFINE r == Taking(p)
               e == Texture(r.page, r.width, r.width)
    <3>1. r \in Offered(s, l, p)
      BY <2>2
    <3>2. e \in Filed
      BY <3>1, OfferedFits
    <3> HIDE DEF e
    <3>3. Append(x, e) \in V
      BY <3>2, AppendIs
    <3>4. Put(x, p) = Append(x, e)
      BY <2>2 DEF e
    <3> QED
      BY <3>3, <3>4
  <2> QED
    BY <2>1, <2>2
<1>3. <<>> \in V
  OBVIOUS
<1> HIDE DEF V
<1>4. step \in [1 .. Total -> [V -> V]]
  <2> HIDE DEF Put
  <2> QED
    BY <1>1, <1>2
<1>5. PICK F : IsTable(F, Total, V, <<>>, step)
  <2> HIDE DEF step
  <2> QED
    BY <1>1, <1>3, <1>4, TableExists
<1> DEFINE Row(G, k) == IF k = 0 THEN <<>> ELSE Put(G[k - 1], k - 1)
           Law(G) == G = [k \in 0 .. Total |-> Row(G, k)]
           H == CHOOSE G : Law(G)
<1>6. /\ F \in [0 .. Total -> V] /\ F[0] = <<>>
      /\ \A k \in 1 .. Total : F[k] = Put(F[k - 1], k - 1)
  <2>1. F \in [0 .. Total -> V] /\ F[0] = <<>> /\ \A k \in 1 .. Total : F[k] = step[k][F[k - 1]]
    BY <1>5 DEF IsTable
  <2>2. \A k \in 1 .. Total : F[k - 1] \in V
    BY <1>1, <2>1
  <2>3. \A k \in 1 .. Total : \A x \in V : step[k][x] = Put(x, k - 1)
    <3> HIDE DEF Put
    <3> QED
      OBVIOUS
  <2> HIDE DEF Put, step
  <2> QED
    BY <2>1, <2>2, <2>3
<1>7. Law(F)
  <2>1. \A k \in 0 .. Total : k = 0 \/ k \in 1 .. Total
    BY <1>1
  <2> HIDE DEF Put
  <2>2. Row(F, 0) = <<>> /\ \A k \in 1 .. Total : Row(F, k) = Put(F[k - 1], k - 1)
    BY <1>1
  <2> HIDE DEF Row
  <2>3. \A k \in 0 .. Total : F[k] = Row(F, k)
    BY <1>6, <2>1, <2>2
  <2> QED
    BY <1>6, <2>3
<1>8. Law(H)
  <2> HIDE DEF Law
  <2> QED
    BY <1>7
<1>9. Handover(s, l) = H[Total]
  BY DEF Handover
<1> HIDE DEF H
<1>10. H[0] = <<>> /\ \A k \in 1 .. Total : H[k] = Put(H[k - 1], k - 1)
  <2> HIDE DEF Put
  <2>1. Row(H, 0) = <<>> /\ \A k \in 1 .. Total : Row(H, k) = Put(H[k - 1], k - 1)
    BY <1>1
  <2>2. \A k \in 0 .. Total : H[k] = Row(H, k)
    <3> HIDE DEF Row
    <3> QED
      BY <1>8
  <2>3. 0 \in 0 .. Total /\ \A k \in 1 .. Total : k \in 0 .. Total
    BY <1>1
  <2> HIDE DEF Row
  <2> QED
    BY <2>1, <2>2, <2>3
<1> DEFINE Q == {k \in 0 .. Total : Handed(s, l, k, H[k])}
<1>11. 0 \in Q
  <2>1. ToSet(<<>>) = {}
    BY DEF ToSet
  <2>2. Handed(s, l, 0, <<>>)
    BY <2>1, SeparateNone DEF Handed
  <2> QED
    BY <1>1, <1>10, <2>2
<1>12. ASSUME NEW k \in 0 .. Total - 1, k \in Q PROVE k + 1 \in Q
  <2>1. k + 1 \in 1 .. Total /\ k + 1 - 1 = k /\ k \in AllPages /\ k + 1 \in 0 .. Total
    BY <1>1 DEF AllPages
  <2>2. Handed(s, l, k, H[k])
    BY <1>12
  <2>3. Handed(s, l, k + 1, Put(H[k], k))
    BY <2>1, <2>2, HandedNext
  <2> HIDE DEF Put
  <2>4. H[k + 1] = Put(H[k + 1 - 1], k + 1 - 1)
    BY <1>10, <2>1
  <2>5. H[k + 1] = Put(H[k], k)
    BY <2>1, <2>4
  <2> QED
    BY <2>1, <2>3, <2>5
<1> HIDE DEF Put
<1>13. \A k \in 0 .. Total : k \in Q
  <2> HIDE DEF Q
  <2> QED
    BY <1>1, <1>11, <1>12, Upward
<1>14. Total \in Q
  <2>1. Total \in 0 .. Total
    BY <1>1
  <2> HIDE DEF Q
  <2> QED
    BY <1>13, <2>1
<1> QED
  BY <1>9, <1>14

\* promote_spad_ready_pages_to_l1_future: the textures handed over stay apart, and
\* all are there when they fit.
LEMMA PromotedIs ==
    ASSUME ReadyWide, NEW s \in SidesPresent, NEW l \in Layouts
    PROVE  /\ Separate(Promoted(s, l))
           /\ BytesIn(Handover(s, l)) <= FutureLimit =>
                ToSet(Promoted(s, l)) = ToSet(Handover(s, l))
<1> DEFINE g == Handover(s, l)
           many == Len(g)
           V == {x \in Seq(Filed) : Separate(x)}
           step == [k \in 1 .. many |-> [x \in V |-> Insert(x, g[k], FutureLimit)]]
           Row(G, k) == IF k = 0 THEN <<>> ELSE Insert(G[k - 1], g[k], FutureLimit)
           Law(G) == G = [k \in 0 .. many |-> Row(G, k)]
           H == CHOOSE G : Law(G)
<1>1. Promoted(s, l) = H[many]
  BY DEF Promoted
<1>2. Separate(g)
  BY HandoverIs DEF Handed
<1> HIDE DEF g, H
<1>3. g \in Seq(Filed) /\ Once(g) /\ many \in Nat /\ FutureLimit \in Nat
  BY <1>2, TextureAssumption DEF Separate
<1>4. \A k \in 1 .. many : g[k] \in Filed /\ k - 1 \in 0 .. many /\ k \in 0 .. many
  BY <1>3
<1>5. <<>> \in V
  BY SeparateNone DEF Separate
<1>6. \A x \in V, k \in 1 .. many : Insert(x, g[k], FutureLimit) \in V
  BY <1>3, <1>4, InsertApart DEF Separate
<1> HIDE DEF many, V
<1>7. step \in [1 .. many -> [V -> V]]
  BY <1>6
<1>8. PICK F : IsTable(F, many, V, <<>>, step)
  <2> HIDE DEF step
  <2> QED
    BY <1>3, <1>5, <1>7, TableExists
<1>9. /\ F \in [0 .. many -> V] /\ F[0] = <<>>
      /\ \A k \in 1 .. many : F[k] = Insert(F[k - 1], g[k], FutureLimit)
  <2>1. F \in [0 .. many -> V] /\ F[0] = <<>> /\ \A k \in 1 .. many : F[k] = step[k][F[k - 1]]
    BY <1>8 DEF IsTable
  <2>2. \A k \in 1 .. many : F[k - 1] \in V
    BY <1>4, <2>1
  <2>3. \A k \in 1 .. many : \A x \in V : step[k][x] = Insert(x, g[k], FutureLimit)
    OBVIOUS
  <2> HIDE DEF step
  <2> QED
    BY <2>1, <2>2, <2>3
<1>10. Law(F)
  <2>1. \A k \in 0 .. many : k = 0 \/ k \in 1 .. many
    BY <1>3
  <2>2. Row(F, 0) = <<>> /\ \A k \in 1 .. many : Row(F, k) = Insert(F[k - 1], g[k], FutureLimit)
    BY <1>3
  <2> HIDE DEF Row
  <2>3. \A k \in 0 .. many : F[k] = Row(F, k)
    BY <1>9, <2>1, <2>2
  <2> QED
    BY <1>9, <2>3
<1>11. Law(H)
  <2>1. \E G : Law(G)
    <3> HIDE DEF Law
    <3> QED
      BY <1>10
  <2> HIDE DEF Law
  <2> QED
    BY <2>1 DEF H
<1>12. H[0] = <<>> /\ \A k \in 1 .. many : H[k] = Insert(H[k - 1], g[k], FutureLimit)
  <2>1. Row(H, 0) = <<>> /\ \A k \in 1 .. many : Row(H, k) = Insert(H[k - 1], g[k], FutureLimit)
    BY <1>3
  <2>2. \A k \in 0 .. many : H[k] = Row(H, k)
    <3> HIDE DEF Row
    <3> QED
      BY <1>11
  <2>3. 0 \in 0 .. many
    BY <1>3
  <2> HIDE DEF Row
  <2> QED
    BY <1>4, <2>1, <2>2, <2>3
<1> DEFINE head(k) == SubSeq(g, 1, k)
           All(k) == ToSet(H[k]) = ToSet(head(k)) /\ BytesIn(H[k]) = BytesIn(head(k))
           Q == {k \in 0 .. many : Separate(H[k]) /\ (BytesIn(g) <= FutureLimit => All(k))}
<1>13. 0 \in Q
  <2>1. head(0) = <<>>
    BY <1>3
  <2> HIDE DEF head
  <2>2. All(0)
    BY <1>12, <2>1
  <2> HIDE DEF All
  <2> QED
    BY <1>3, <1>12, <2>2, SeparateNone
<1>14. ASSUME NEW k \in 0 .. many - 1, k \in Q PROVE k + 1 \in Q
  <2> DEFINE e == g[k + 1]
             x == H[k]
             y == H[k + 1]
  <2>1. k \in 0 .. Len(g) - 1 /\ k + 1 \in 1 .. many /\ k + 1 - 1 = k /\ k \in Nat
    BY <1>3, <1>14 DEF many
  <2>2. /\ k + 1 \in 0 .. many /\ e \in Filed
        /\ head(k + 1) = Append(head(k), e)
        /\ ToSet(head(k + 1)) = ToSet(head(k)) \cup {e}
    BY <1>3, <2>1, NextPrefix DEF many
  <2>3. head(k) \in Seq(Filed) /\ ToSet(head(k)) = {g[i] : i \in 1 .. k}
    <3>1. k \in 0 .. Len(g)
      BY <1>3, <2>1 DEF many
    <3> QED
      BY <1>3, <3>1, Prefix
  <2>4. y = Insert(x, e, FutureLimit)
    <3>1. y = Insert(H[k + 1 - 1], e, FutureLimit)
      BY <1>12, <2>1
    <3> QED
      BY <2>1, <3>1
  <2>5. Separate(x) /\ (BytesIn(g) <= FutureLimit => All(k))
    BY <1>14
  <2>6. \A i \in 1 .. k : ~SameKey(g[i], e)
    <3> SUFFICES ASSUME NEW i \in 1 .. k, SameKey(g[i], e) PROVE FALSE
      OBVIOUS
    <3>1. i \in 1 .. Len(g) /\ k + 1 \in 1 .. Len(g) /\ i # k + 1
      BY <1>3, <2>1 DEF many
    <3>2. i \in DOMAIN g /\ k + 1 \in DOMAIN g
      BY <1>3, <3>1
    <3>3. g[i] \in ToSet(g) /\ e \in ToSet(g)
      BY <3>2 DEF ToSet
    <3>4. g[i] = e
      BY <1>2, <3>3 DEF Separate
    <3> QED
      BY <1>3, <3>1, <3>2, <3>4 DEF Once
  <2> HIDE DEF e, x, y
  <2>7. Separate(y)
    BY <1>3, <2>2, <2>4, <2>5, InsertApart
  <2>8. ASSUME BytesIn(g) <= FutureLimit PROVE All(k + 1)
    <3>1. ToSet(x) = ToSet(head(k)) /\ BytesIn(x) = BytesIn(head(k))
      BY <2>5, <2>8 DEF x
    <3>2. \A f \in ToSet(x) : ~SameKey(f, e)
      BY <2>3, <2>6, <3>1
    <3>3. BytesIn(head(k + 1)) = BytesIn(head(k)) + e.bytes
      <4> HIDE DEF head
      <4> QED
        BY <2>2, <2>3, FiledSized, SizedAppend
    <3>4. BytesIn(head(k + 1)) <= BytesIn(g)
      <4>1. k + 1 \in 0 .. Len(g)
        BY <2>2 DEF many
      <4>2. /\ head(k + 1) \in Seq(Filed) /\ Len(head(k + 1)) = k + 1
            /\ \A i \in 1 .. k + 1 : head(k + 1)[i] = g[i]
            /\ ToSet(head(k + 1)) = {g[i] : i \in 1 .. k + 1}
        BY <1>3, <4>1, Prefix
      <4>3. \A i \in 1 .. k + 1 : i \in DOMAIN g
        BY <1>3, <4>1
      <4> HIDE DEF head
      <4>4. Once(head(k + 1))
        <5>1. DOMAIN head(k + 1) = 1 .. k + 1
          BY <4>2
        <5> QED
          BY <1>3, <4>2, <4>3, <5>1 DEF Once
      <4>5. ToSet(head(k + 1)) \subseteq ToSet(g)
        BY <4>2, <4>3 DEF ToSet
      <4> QED
        BY <1>3, <4>2, <4>4, <4>5, FiledSized, SizedPart
    <3>5. BytesIn(x) + e.bytes <= FutureLimit
      <4>1. BytesIn(head(k + 1)) \in Nat /\ BytesIn(g) \in Nat
        <5>1. head(k + 1) \in Seq(Filed)
          <6> HIDE DEF head
          <6> QED
            BY <2>2, <2>3, AppendIs
        <5> HIDE DEF head
        <5> QED
          BY <1>3, <5>1, FiledSized, SizedNat
      <4> HIDE DEF head
      <4> QED
        BY <1>3, <2>8, <3>1, <3>3, <3>4, <4>1
    <3>6. ToSet(y) = ToSet(x) \cup {e} /\ BytesIn(y) = BytesIn(x) + e.bytes
      BY <1>3, <2>2, <2>4, <2>5, <3>2, <3>5, InsertApart
    <3> HIDE DEF head
    <3> QED
      BY <2>2, <3>1, <3>3, <3>6 DEF y
  <2> HIDE DEF All
  <2> QED
    BY <2>2, <2>7, <2>8 DEF y
<1>15. \A k \in 0 .. many : k \in Q
  <2> HIDE DEF Q
  <2> QED
    BY <1>3, <1>13, <1>14, Upward
<1>16. many \in Q
  <2>1. many \in 0 .. many
    BY <1>3
  <2> HIDE DEF Q
  <2> QED
    BY <1>15, <2>1
<1>17. head(many) = g
  BY <1>3 DEF many
<1> HIDE DEF head
<1> QED
  BY <1>1, <1>16, <1>17 DEF g

(***************************************************************************)
(* Why the first view of a neighbour is shown at once (OpensReady).  A     *)
(* side that rests has two pages ready, and then the first two places of   *)
(* its schedule are passed, or nothing pending; the schedule begins with   *)
(* the page the book opens at, and goes on with the next.                  *)
(***************************************************************************)
LEMMA RestIsReady ==
    ASSUME SpadInv, ReadyWide, NEW s \in SidesPresent, NEW l \in Layouts,
           book[s].count = Total, WellPrepared(s, l)
    PROVE  LET pages == ViewOf[l][StartPage(s)]
           IN  /\ pages # <<>>
               /\ \A i \in DOMAIN pages :
                    pages[i] \in AllPages /\ Offered(s, l, pages[i]) # {}
<1> DEFINE b == book[s]
           t == target[s]
           q == t.schedule
           n == Cardinality(t.ready)
           start == StartPage(s)
           pages == ViewOf[l][start]
<1>1. /\ b \in SpadBooks /\ t \in Targets /\ Good(b, t) /\ IsFiniteSet(t.ready)
      /\ Wide(s, t)
  BY SpadBook DEF SpadInv, SpadTyped, ReadyWide
<1>2. /\ s \notin DOMAIN spadInflight /\ ~due /\ seen # "closed" /\ ~resized
      /\ t.entry = start /\ pages \in {<<start>>, <<start, start + 1>>}
      /\ t.failed \cap ToSet(pages) = {} /\ Suits(WidthFor(s), Need[l][start])
  BY DEF WellPrepared
<1>3. AtRest(s) /\ (t.exhausted => n >= 2)
  BY <1>2 DEF SpadInv, Afford, Guaranteed
<1>4. /\ Total \in Nat \ {0} /\ b.count = Total /\ b.entry \in Nat
      /\ start = IF b.entry <= Total - 1 THEN b.entry ELSE Total - 1
  BY <1>1, TextureAssumption DEF SpadBooks, StartPage, Least
<1>5. start \in Nat /\ start \in 0 .. Total - 1 /\ start \in AllPages
  BY <1>4 DEF AllPages
<1>6. /\ pages \in Seq(AllPages) /\ pages # <<>>
      /\ \A i \in DOMAIN pages :
           pages[i] \in AllPages /\ pages[i] \in {start, start + 1} /\ pages[i] \in ToSet(pages)
  <2>1. pages \in Seq(AllPages)
    BY <1>5, TextureAssumption
  <2>2. \A i \in DOMAIN pages : pages[i] \in ToSet(pages)
    BY DEF ToSet
  <2>3. pages # <<>> /\ \A i \in DOMAIN pages : pages[i] \in {start, start + 1}
    <3> HIDE DEF pages, start
    <3>1. CASE pages = <<start>>
      BY <3>1
    <3>2. CASE pages = <<start, start + 1>>
      BY <3>2
    <3> QED
      BY <1>2, <3>1, <3>2
  <2> QED
    BY <2>1, <2>2, <2>3
<1>7. n >= 2 \/ (q # <<>> /\ Pending(t) = {})
  BY <1>3 DEF AtRest, Guaranteed
<1>8. n \in Nat /\ n < t.index /\ t.index \in Nat /\ q \in Seq(Nat)
      /\ t.known \in Nat /\ t.failed \subseteq Nat
  BY <1>1, FS_CardinalityType DEF Wide, Targets
<1> HIDE DEF b, t, n, start, pages
<1>9. t.ready = {} => n = 0
  BY FS_EmptySet DEF n
<1>10. q # <<>>
  <2>1. q = <<>> => t.ready = {}
    BY <1>1 DEF Good, PlanOf
  <2> QED
    BY <1>7, <1>9, <2>1
<1>11. IsSchedule(q, t.known, start)
  BY <1>1, <1>2, <1>10 DEF Good, PlanOf
<1>12. ASSUME NEW i \in 1 .. Len(q), i < t.index \/ Pending(t) = {}
       PROVE  Passed(b, t, q[i])
  <2>1. CASE i < t.index
    BY <1>1, <2>1 DEF Good
  <2>2. CASE ~(i < t.index) /\ Pending(t) = {}
    <3>1. i \in t.index .. Len(q)
      BY <1>8, <2>2
    <3> QED
      BY <2>2, <3>1 DEF Pending, Passed
  <2> QED
    BY <1>12, <2>1, <2>2
<1>13. t.known = Total
  <2> SUFFICES ASSUME t.known # Total PROVE FALSE
    OBVIOUS
  <2>1. t.ready = {}
    BY <1>1, <1>4 DEF Good
  <2>2. Pending(t) = {}
    BY <1>7, <1>9, <2>1
  <2>3. 1 \in 1 .. Len(q) /\ q[1] = start
    BY <1>8, <1>11 DEF IsSchedule
  <2>4. Passed(b, t, start)
    BY <1>12, <2>2, <2>3
  <2>5. start \in t.failed
    BY <1>4, <2>1, <2>4 DEF Passed, Done, ReadyPages
  <2>6. start \in ToSet(pages)
    <3>1. pages[1] = start /\ 1 \in DOMAIN pages
      BY <1>2
    <3> QED
      BY <3>1 DEF ToSet
  <2> QED
    BY <1>2, <2>5, <2>6
<1>14. ASSUME NEW p \in AllPages, p \in {start, start + 1} PROVE Passed(b, t, p)
  <2>1. p \in start .. t.known - 1 /\ t.known > 0
    BY <1>4, <1>5, <1>13, <1>14 DEF AllPages
  <2>2. CASE Pending(t) = {}
    <3>1. PICK i \in 1 .. Len(q) : q[i] = p
      BY <1>11, <2>1 DEF IsSchedule
    <3> QED
      BY <1>12, <2>2, <3>1
  <2>3. CASE Pending(t) # {}
    <3>1. 1 < t.index /\ 2 < t.index
      BY <1>7, <1>8, <2>3
    <3>2. CASE p = start
      <4>1. 1 \in 1 .. Len(q) /\ q[1] = p
        BY <1>8, <1>11, <3>2 DEF IsSchedule
      <4> QED
        BY <1>12, <3>1, <4>1
    <3>3. CASE p = start + 1
      <4>1. t.known > start + 1
        BY <1>5, <1>8, <2>1, <3>3
      <4>2. 2 \in 1 .. Len(q) /\ q[2] = p
        BY <1>8, <1>11, <2>1, <3>3, <4>1 DEF IsSchedule
      <4> QED
        BY <1>12, <3>1, <4>2
    <3> QED
      BY <1>14, <3>2, <3>3
  <2> QED
    BY <2>2, <2>3
<1>15. ASSUME NEW i \in DOMAIN pages PROVE Offered(s, l, pages[i]) # {}
  <2> DEFINE p == pages[i]
  <2>1. p \in AllPages /\ p \in {start, start + 1} /\ p \in ToSet(pages)
    BY <1>6
  <2> HIDE DEF p
  <2>2. Passed(b, t, p)
    BY <1>14, <2>1
  <2>3. p = 0 => ~OneTooMany(b)
    BY <1>4, <1>5, <2>1 DEF OneTooMany
  <2>4. Done(t, p) /\ p \notin t.failed
    BY <1>2, <2>1, <2>2, <2>3 DEF Passed
  <2>5. PICK r \in t.ready : r.page = p
    BY <2>4 DEF Done, ReadyPages
  <2>6. r.width = WidthFor(s)
    BY <1>1, <1>2, <2>5 DEF Wide
  <2>7. p < Total /\ t.known > 0
    BY <1>4, <1>13, <2>1 DEF AllPages
  <2>8. Suits(r.width, Need[l][StartPage(s)])
    BY <1>2, <2>6 DEF start
  <2>9. r \in Offered(s, l, p)
    BY <1>13, <2>5, <2>7, <2>8 DEF Offered, ReadyOf, t
  <2> QED
    BY <2>9 DEF p
<1> QED
  BY <1>6, <1>15 DEF pages, start

\* peek_suitable finds an entry when one suits.
LEMMA BestIs ==
    ASSUME NEW x, Separate(x), NEW p, NEW need \in Nat,
           \E e \in ToSet(x) : Fitting(e, p, need)
    PROVE  BestOf(x, p, need) \in Filed
<1> DEFINE suited == {e \in ToSet(x) : e.page = p /\ Suits(e.sig, need)}
           Beats(e, f) == \/ Gap(e.sig, need) < Gap(f.sig, need)
                          \/ Gap(e.sig, need) = Gap(f.sig, need) /\ e.sig <= f.sig
           gaps == {Gap(e.sig, need) : e \in suited}
<1>1. suited # {}
  BY DEF Fitting
<1>2. suited \subseteq Filed
  BY ApartFew
<1>3. \A e \in suited : e.sig \in Nat /\ Gap(e.sig, need) \in Nat
  BY <1>2 DEF Filed, Gap
<1>4. BestOf(x, p, need) = IF suited = {} THEN Nothing
                           ELSE CHOOSE e \in suited : \A f \in suited : Beats(e, f)
  BY DEF BestOf
<1> HIDE DEF suited
<1>5. gaps \subseteq Nat /\ gaps # {}
  BY <1>1, <1>3
<1>6. PICK g \in gaps : \A h \in gaps : g <= h
  <2> HIDE DEF gaps
  <2> QED
    BY <1>5, LeastNat
<1> DEFINE widths == {e.sig : e \in {f \in suited : Gap(f.sig, need) = g}}
<1>7. widths \subseteq Nat /\ widths # {}
  BY <1>3, <1>6
<1>8. PICK w \in widths : \A h \in widths : w <= h
  <2> HIDE DEF widths
  <2> QED
    BY <1>7, LeastNat
<1>9. PICK e \in suited : e.sig = w /\ Gap(e.sig, need) = g
  BY <1>8
<1>10. ASSUME NEW f \in suited PROVE Beats(e, f)
  <2>1. Gap(f.sig, need) \in gaps /\ g <= Gap(f.sig, need) /\ g \in Nat
    BY <1>5, <1>6
  <2>2. CASE Gap(f.sig, need) = g
    <3>1. f.sig \in widths
      BY <2>2
    <3>2. w <= f.sig
      BY <1>8, <3>1
    <3> QED
      BY <1>9, <2>2, <3>2
  <2>3. CASE Gap(f.sig, need) # g
    BY <1>3, <1>9, <2>1, <2>3
  <2> QED
    BY <2>2, <2>3
<1> HIDE DEF Beats
<1>11. BestOf(x, p, need) \in suited
  BY <1>1, <1>4, <1>10
<1> QED
  BY <1>2, <1>11

LEMMA BestOfNone == \A p, need : BestOf(<<>>, p, need) = Nothing
BY DEF BestOf, ToSet

\* start_display_request: a view whose pages all have a texture in the warm-up
\* cache is committed.
Served(l, p) ==
    /\ history = <<>>
    /\ ViewOf[l][p] # <<>>
    /\ \A i \in DOMAIN ViewOf[l][p] :
        \E e \in ToSet(future) : Fitting(e, ViewOf[l][p][i], Need[l][p])

LEMMA ShownAtOnce ==
    ASSUME NEW l \in Layouts, NEW p \in AllPages, NEW held, Separate(future),
           Served(l, p), Show(p, l, held)
    PROVE  ~loading'
<1> DEFINE need == Need[l][p]
           pages == ViewOf[l][p]
           hits == [i \in DOMAIN pages |-> Hit(pages[i], need)]
           HasFrames(r) == r \in held \/ (ready[r] # 0 /\ Suits(ready[r], need))
           Some == \E i \in DOMAIN pages : hits[i] # Nothing
           Rest == \A i \in DOMAIN pages : hits[i] # Nothing \/ HasFrames(pages[i])
<1>1. need \in Nat /\ pages \in Seq(AllPages) /\ pages # <<>>
  <2>1. need \in Nat \ {0} /\ pages \in Seq(AllPages)
    BY TextureAssumption
  <2>2. pages # <<>>
    BY DEF Served
  <2> QED
    BY <2>1, <2>2
<1>2. loading' = FALSE \/ ~(Some /\ Rest)
  BY DEF Show, Commit
<1>3. ASSUME NEW i \in DOMAIN pages PROVE Hit(pages[i], need) # Nothing
  <2> DEFINE r == pages[i]
             h == BestOf(history, r, need)
             w == BestOf(future, r, need)
  <2>1. \E e \in ToSet(future) : Fitting(e, r, need)
    BY DEF Served
  <2>2. h = Nothing
    BY BestOfNone DEF Served
  <2> HIDE DEF need, r
  <2>3. w \in Filed
    BY <1>1, <2>1, BestIs
  <2>4. w # Nothing
    BY <2>3, TextureAssumption
  <2> HIDE DEF h, w
  <2>5. Hit(r, need) = [from |-> "warmup", entry |-> w]
    BY <2>2, <2>4 DEF Hit, h, w
  <2>6. Hit(r, need) \in Hits
    BY <2>3, <2>5 DEF Hits
  <2>7. Hit(r, need) # Nothing
    BY <2>6, TextureAssumption
  <2> QED
    BY <2>7 DEF r
<1>4. 1 \in DOMAIN pages
  BY <1>1
<1> HIDE DEF need, pages
<1>5. \A i \in DOMAIN pages : hits[i] # Nothing
  BY <1>3
<1> HIDE DEF hits, HasFrames
<1> QED
  BY <1>2, <1>4, <1>5

-----------------------------------------------------------------------------
LEMMA TextureStill == ASSUME TextureInv, UNCHANGED textureVars PROVE TextureInv'
<1>1. /\ history' = history /\ future' = future /\ layout' = layout
      /\ requested' = requested /\ loading' = loading /\ ready' = ready /\ frame' = frame
      /\ fresh' = fresh /\ planned' = planned /\ frameDue' = frameDue /\ dozed' = dozed
  BY DEF textureVars, textureCaches, viewVars, frameVars
<1>2. Retained' = Retained /\ Upcoming' = Upcoming
  BY <1>1, ForView, ForViewNext
<1>3. Missing' = Missing
  BY <1>1, <1>2, ForView, ForViewNext
<1>4. WarmupAwake'
  <2>1. WarmupAwake
    BY DEF TextureInv
  <2> QED
    BY <1>1, <1>2, <1>3, <2>1, ForView, ForViewNext
<1>5. frame' = "upload" => Planned'
  <2> SUFFICES ASSUME frame' = "upload" PROVE Planned'
    OBVIOUS
  <2>1. Planned
    BY <1>1 DEF TextureInv
  <2> QED
    BY <1>1, <2>1 DEF Planned
<1> QED
  BY <1>1, <1>4, <1>5 DEF TextureInv

LEMMA TextureKeeps == ASSUME TextureInv, TextureNext PROVE TextureInv'
BY TurnToKeeps, LoadedKeeps, ChangeQualityKeeps, GlanceKeeps, StreamedKeeps, WarmUpKeeps,
   UploadKeeps DEF TextureNext

(***************************************************************************)
(* SPAD runs until the Viewer goes to the neighbour, and until the         *)
(* neighbour is opened no frame has begun; what is prepared is Served.     *)
(***************************************************************************)
ReadAheadInv ==
    /\ TextureInv
    /\ mode \in {"reading", "opening", "opened"}
    /\ mode = "reading" => SpadInv /\ ReadyWide /\ history = <<>>
    /\ mode = "opening" /\ prepared => Served(layout, requested)
    /\ mode # "reading" => SidesPresent = {}
    /\ mode # "opened" => frame = "idle" /\ loading = TRUE

LEMMA ReadAheadInitial == ReadAheadInit => ReadAheadInv
<1> SUFFICES ASSUME ReadAheadInit PROVE ReadAheadInv
  OBVIOUS
<1>1. TextureInv /\ SpadInv
  BY TextureInitial, SpadInitial DEF ReadAheadInit
<1>2. ReadyWide
  <2>1. \A s \in SidesPresent : target[s].ready = {} /\ target[s].index = 1
    BY DEF ReadAheadInit, SpadInit, NewTarget
  <2> QED
    BY <2>1, FS_EmptySet DEF ReadyWide, Wide
<1>3. frame = "idle" /\ loading = TRUE /\ mode = "reading" /\ history = <<>>
  BY DEF ReadAheadInit, TextureInit
<1> QED
  BY <1>1, <1>2, <1>3 DEF ReadAheadInv

LEMMA ReopenKeeps ==
    ASSUME ReadAheadInv, NEW s \in SidesPresent, Reopen(s)
    PROVE  ReadAheadInv'
<1>1. /\ TextureInv /\ SpadInv /\ ReadyWide /\ frame = "idle" /\ loading = TRUE
      /\ history = <<>> /\ book[s].count = Total
  BY DEF ReadAheadInv, Reopen
<1>2. PICK l \in LayoutsOf(s) :
        layout' = l /\ future' = Promoted(s, l) /\ prepared' = WellPrepared(s, l)
  BY DEF Reopen
<1>3. /\ requested' = StartPage(s) /\ book' = <<>> /\ mode' = "opening"
      /\ loading' = loading /\ ready' = ready /\ frame' = frame /\ fresh' = fresh
      /\ frameDue' = frameDue /\ dozed' = dozed /\ history' = history
  BY DEF Reopen, frameVars
<1>4. l \in Layouts
  BY DEF LayoutsOf
<1>5. Separate(future')
  BY <1>1, <1>2, <1>4, PromotedIs
<1>6. requested' \in AllPages
  <2>1. book[s].entry \in Nat
    BY <1>1, SpadBook DEF SpadInv, SpadBooks
  <2> QED
    BY <1>3, <2>1, TextureAssumption DEF StartPage, Least, AllPages
<1>7. WarmupAwake'
  BY <1>1, <1>3, ForViewNext
<1>8. TextureInv'
  BY <1>1, <1>2, <1>3, <1>4, <1>5, <1>6, <1>7 DEF TextureInv
<1>9. SidesPresent' = {}
  BY <1>3 DEF SidesPresent
<1>10. ASSUME prepared' PROVE Served(layout, requested)'
  <2> DEFINE start == StartPage(s)
             pages == ViewOf[l][start]
             given == Handover(s, l)
  <2>1. WellPrepared(s, l)
    BY <1>2, <1>10
  <2>2. /\ pages # <<>>
        /\ \A i \in DOMAIN pages : pages[i] \in AllPages /\ Offered(s, l, pages[i]) # {}
    BY <1>1, <1>4, <2>1, RestIsReady
  <2>3. ToSet(future') = ToSet(given)
    <3>1. BytesIn(given) <= FutureLimit
      BY <2>1 DEF WellPrepared
    <3> QED
      BY <1>1, <1>2, <1>4, <3>1, PromotedIs
  <2>4. Handed(s, l, Total, given)
    BY <1>1, <1>4, HandoverIs
  <2> HIDE DEF given, pages
  <2>5. ASSUME NEW i \in DOMAIN pages
        PROVE  \E e \in ToSet(future') : Fitting(e, pages[i], Need[l][start])
    <3>1. pages[i] \in 0 .. Total - 1 /\ Offered(s, l, pages[i]) # {}
      BY <2>2 DEF AllPages
    <3>2. \E e \in ToSet(given) : Fitting(e, pages[i], Need[l][start])
      BY <2>4, <3>1 DEF Handed
    <3> QED
      BY <2>3, <3>2
  <2>6. requested' = start /\ layout' = l /\ history' = <<>>
    BY <1>1, <1>2, <1>3
  <2> HIDE DEF start
  <2> QED
    BY <2>2, <2>5, <2>6 DEF Served, pages
<1> QED
  BY <1>1, <1>3, <1>8, <1>9, <1>10 DEF ReadAheadInv

LEMMA OpenKeeps == ASSUME ReadAheadInv, Open PROVE ReadAheadInv'
<1>1. /\ TextureInv /\ StartFrame /\ Show(requested, layout, {}) /\ ready' = ready
      /\ mode = "opening" /\ mode' = "opened" /\ book' = book
  BY DEF ReadAheadInv, Open, spadVars
<1>2. /\ Separate(future) /\ layout \in Layouts /\ requested \in AllPages
      /\ ready \in WidthTable
  BY <1>1 DEF TextureInv
<1>3. /\ layout' = layout /\ requested' = requested /\ loading' \in BOOLEAN
      /\ fresh' \in BOOLEAN /\ Separate(future')
  BY <1>1, <1>2, ShowKeeps
<1>4. TextureInv'
  BY <1>1, <1>2, <1>3, FrameBegins
<1>5. SidesPresent' = SidesPresent /\ SidesPresent = {}
  BY <1>1 DEF SidesPresent, ReadAheadInv
<1> QED
  BY <1>1, <1>4, <1>5 DEF ReadAheadInv

LEMMA ReadAheadKeeps ==
    ASSUME ReadAheadInv, [ReadAheadNext]_readAheadVars
    PROVE  ReadAheadInv'
<1>1. CASE mode = "reading" /\ SpadNext /\ UNCHANGED <<textureVars, mode, prepared>>
  <2>1. TextureInv' /\ SpadInv' /\ ReadyWide'
    BY <1>1, TextureStill, SpadStepKeeps DEF ReadAheadInv
  <2>2. mode' = mode /\ frame' = frame /\ loading' = loading /\ history' = history
    BY <1>1 DEF textureVars, textureCaches, frameVars, viewVars
  <2> QED
    BY <1>1, <2>1, <2>2 DEF ReadAheadInv
<1>2. CASE \E s \in SidesPresent : Reopen(s)
  BY <1>2, ReopenKeeps
<1>3. CASE Open
  BY <1>3, OpenKeeps
<1>4. CASE mode = "opened" /\ TextureNext /\ UNCHANGED <<spadVars, mode, prepared>>
  <2>1. TextureInv'
    BY <1>4, TextureKeeps DEF ReadAheadInv
  <2>2. mode' = "opened" /\ SidesPresent' = SidesPresent /\ SidesPresent = {}
    BY <1>4 DEF spadVars, SidesPresent, ReadAheadInv
  <2> QED
    BY <2>1, <2>2 DEF ReadAheadInv
<1>5. CASE UNCHANGED readAheadVars
  <2>1. /\ UNCHANGED textureVars /\ UNCHANGED spadVars
        /\ mode' = mode /\ prepared' = prepared
    BY <1>5 DEF readAheadVars
  <2>2. TextureInv'
    BY <2>1, TextureStill DEF ReadAheadInv
  <2>3. mode = "reading" => SpadInv'
    BY <2>1, GateKeeps DEF ReadAheadInv
  <2>4. SidesPresent' = SidesPresent /\ target' = target
    BY <2>1 DEF spadVars, SidesPresent
  <2>5. mode = "reading" => ReadyWide'
    BY <2>1, <2>4 DEF ReadyWide, Wide, WidthFor, spadVars, ReadAheadInv
  <2>6. /\ frame' = frame /\ loading' = loading /\ history' = history
        /\ future' = future /\ layout' = layout /\ requested' = requested
    BY <2>1 DEF textureVars, textureCaches, frameVars, viewVars
  <2>7. mode = "opening" /\ prepared => Served(layout, requested)'
    BY <2>6 DEF ReadAheadInv, Served
  <2> QED
    BY <2>1, <2>2, <2>3, <2>4, <2>5, <2>6, <2>7 DEF ReadAheadInv
<1> QED
  BY <1>1, <1>2, <1>3, <1>4, <1>5 DEF ReadAheadNext

LEMMA ReadAheadInvHolds == ReadAheadSpec => []ReadAheadInv
BY ReadAheadInitial, ReadAheadKeeps, PTL DEF ReadAheadSpec

\* For every book and its neighbours, what could be prepared waits for a frame nobody
\* asked for only in the places named: a page of a neighbour (poll_spad) only while
\* the gate has moved since the last frame, a texture of a page to come that would fit
\* (maybe_run_gpu_warmup, plan_gpu_warmup), when the Viewer is at rest, only after the
\* two kinds of frame of WarmupAwake.
THEOREM AwakeHolds == ReadAheadSpec => []Awake
<1>1. ReadAheadInv => Awake
  <2> SUFFICES ASSUME ReadAheadInv PROVE Awake
    OBVIOUS
  <2>1. WarmupAwake
    BY DEF ReadAheadInv, TextureInv
  <2>2. SpadAwake
    <3>1. CASE mode = "reading"
      BY <3>1, RestIsAwake DEF ReadAheadInv
    <3>2. CASE mode # "reading"
      BY <3>2 DEF ReadAheadInv, SpadAwake
    <3> QED
      BY <3>1, <3>2
  <2> QED
    BY <2>1, <2>2 DEF Awake
<1> QED
  BY <1>1, ReadAheadInvHolds, PTL

\* What a frame takes from the warm-up cache though it is wanted makes room for one
\* nearer page, no more of it goes than that page needs, and the farthest goes first
\* (replacement_evict_candidates).
THEOREM NearerWinsHolds == ReadAheadSpec => NearerWins
<1> DEFINE Step == [frame = "upload" => Justified(future, future')]_textureVars
<1>1. ReadAheadInv /\ [ReadAheadNext]_readAheadVars => Step
  <2> SUFFICES ASSUME ReadAheadInv, [ReadAheadNext]_readAheadVars,
                      frame = "upload", ~UNCHANGED textureVars
               PROVE  Justified(future, future')
    OBVIOUS
  <2>1. mode = "opened" /\ TextureInv
    BY DEF ReadAheadInv
  <2>2. Separate(future) /\ planned \in Plans /\ Fits(planned, future)
    BY <2>1 DEF TextureInv, Planned
  <2>3. Upload \/ Streamed
    <3>1. TextureNext
      BY <2>1 DEF ReadAheadNext, Reopen, Open, readAheadVars
    <3> QED
      BY <3>1 DEF TextureNext, TurnTo, Loaded, ChangeQuality, Glance, StartFrame, WarmUp
  <2>4. CASE future' = future
    BY <2>4, SameJustified
  <2>5. CASE future' # future
    <3>1. future' = Swapped(future, planned)
      BY <2>3, <2>5 DEF Upload, Streamed, textureCaches, Swapped
    <3> QED
      BY <2>2, <3>1, SwappedJustified
  <2> QED
    BY <2>4, <2>5
<1>2. Step => [frame = "upload" =>
                 LET gone == {e \in ToSet(future) : ~HasKey(future', e)}
                     come == {e \in ToSet(future') : ~HasKey(future, e)}
                 IN  \A e \in gone :
                       /\ \E f \in come : f.page < e.page
                       /\ \A f \in ToSet(future') \ come : f.page <= e.page
                       /\ \E g \in gone :
                            /\ g.page <= e.page
                            /\ BytesIn(future') + g.bytes > FutureLimit]_textureVars
  BY DEF Justified
<1> HIDE DEF Step
<1> QED
  BY <1>1, <1>2, ReadAheadInvHolds, PTL DEF ReadAheadSpec, NearerWins

\* What SPAD is for: a neighbour it has done its work for, undisturbed, shows its
\* first view at once when it is opened, for every size of its pages that lets them
\* into the warm-up cache (take_spad_ready_pages_for_target, start_display_request).
THEOREM OpensReadyHolds == ReadAheadSpec => OpensReady
<1>1. ReadAheadInv => [Open /\ prepared => ~loading']_readAheadVars
  <2> SUFFICES ASSUME ReadAheadInv, Open, prepared PROVE ~loading'
    OBVIOUS
  <2>1. mode = "opening" /\ Show(requested, layout, {})
    BY DEF Open
  <2>2. /\ Served(layout, requested) /\ Separate(future)
        /\ layout \in Layouts /\ requested \in AllPages
    BY <2>1 DEF ReadAheadInv, TextureInv
  <2> QED
    BY <2>1, <2>2, ShownAtOnce
<1> QED
  BY <1>1, ReadAheadInvHolds, PTL DEF OpensReady
=============================================================================
