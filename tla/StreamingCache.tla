--------------------------- MODULE StreamingCache ---------------------------
(***************************************************************************)
(* The decisions of the L2 page cache of the Viewer, as operators: the     *)
(* order in which pages are wanted (SimpleStreamingCachePolicy), what to   *)
(* decode next and whether to keep what was decoded (StreamingCachePlanner)*)
(* and what the cache gives up (RgbaPageCache).  A cache is a sequence of  *)
(* entries [page, sig, bytes], the least recently used first.  Sums and    *)
(* selections are recursive functions, which a proof can unfold.           *)
(***************************************************************************)
EXTENDS Integers, Sequences, FiniteSets, SequencesExt

Least(a, b) == IF a < b THEN a ELSE b

SumOf(sizes) ==
    LET sum[n \in 0 .. Len(sizes)] == IF n = 0 THEN 0 ELSE sum[n - 1] + sizes[n]
    IN  sum[Len(sizes)]

\* The elements of a sequence that are in a set, in order.
Among(s, wanted) ==
    LET part[n \in 0 .. Len(s)] ==
            IF n = 0 THEN <<>>
            ELSE IF s[n] \in wanted THEN Append(part[n - 1], s[n]) ELSE part[n - 1]
    IN  part[Len(s)]

\* The first occurrence of every element, in order.
Distinct(s) ==
    LET part[n \in 0 .. Len(s)] ==
            IF n = 0 THEN <<>>
            ELSE LET before == part[n - 1]
                 IN  IF Contains(before, s[n]) THEN before ELSE Append(before, s[n])
    IN  part[Len(s)]

\* Pages forward per page backward.
Burst(forward) == IF forward < 6 THEN 1 ELSE Least(forward \div 6, 12)

\* Mutant: the pages backward end one page early.
DesiredSequenceShort(page, total, visible) ==
    LET current == Least(page, total - 1)
        forward == total - 1 - current
        Ahead(r) == IF r <= forward THEN <<current + r>> ELSE <<>>
        Behind(r) == IF r < current THEN <<current - r>> ELSE <<>>
    IN  Distinct(Among(visible, 0 .. total - 1)
                   \o <<current>>
                   \o FlattenSeq([r \in 1 .. total |-> Ahead(r) \o Behind(r)]))

\* What is visible, the current page, then in rounds a burst of pages forward
\* and one page backward.
DesiredSequence(page, total, visible) ==
    LET current == Least(page, total - 1)
        forward == total - 1 - current
        burst == Burst(forward)
        Reached(r) == Least(r * burst, forward)
        Ahead(r) == [i \in 1 .. Reached(r) - Reached(r - 1) |->
                        current + Reached(r - 1) + i]
        Behind(r) == IF r <= current THEN <<current - r>> ELSE <<>>
        Rounds == FlattenSeq([r \in 1 .. total |-> Ahead(r) \o Behind(r)])
    IN  IF total = 0
        THEN <<>>
        ELSE Distinct(Among(visible, 0 .. total - 1)
                        \o <<current>> \o Rounds)

\* The place of a page in the order; a page that is not wanted comes last.
Rank(desired, page) ==
    IF Contains(desired, page)
    THEN CHOOSE i \in DOMAIN desired : desired[i] = page
    ELSE Len(desired) + 1

(***************************************************************************)
(* The cache.                                                              *)
(***************************************************************************)
PagesOf(entries) == {entries[i].page : i \in DOMAIN entries}

\* The bytes of each entry, and of all.
SizesOf(entries) == [i \in DOMAIN entries |-> entries[i].bytes]
BytesIn(entries) == SumOf(SizesOf(entries))

\* The entries of a page, and their bytes.
EntriesOf(entries, page) == {e \in ToSet(entries) : e.page = page}
BytesOfPage(entries, page) == BytesIn(Among(entries, EntriesOf(entries, page)))
PageSizes(entries, pages) == [i \in DOMAIN pages |-> BytesOfPage(entries, pages[i])]

Dropping(entries, gone) == Among(entries, ToSet(entries) \ gone)

\* The shortest prefix of victims, of the sizes given, that brings the total down
\* to max, or all of them.
EnoughOf(victims, sizes, total, max) ==
    LET Freed(k) == SumOf(SubSeq(sizes, 1, k))
        Enough == {k \in 0 .. Len(victims) : total - Freed(k) <= max}
    IN  IF Enough = {}
        THEN victims
        ELSE SubSeq(victims, 1, CHOOSE k \in Enough : \A j \in Enough : k <= j)

\* Mutant: protected pages are never evicted.
EvictToBudgetSparing(entries, max, protected) ==
    LET order == Among(entries, {e \in ToSet(entries) : e.page \notin protected})
        gone == EnoughOf(order, SizesOf(order), BytesIn(entries), max)
    IN  Dropping(entries, ToSet(gone))

\* evict_to_budget: the least recently used entries go first, those of
\* protected pages only when no other is left.
EvictToBudget(entries, max, protected) ==
    LET spared == {e \in ToSet(entries) : e.page \in protected}
        order == Dropping(entries, spared) \o Among(entries, spared)
        gone == EnoughOf(order, SizesOf(order), BytesIn(entries), max)
    IN  Dropping(entries, ToSet(gone))

\* The entries of the same page, for the same signature.
Namesakes(entries, entry) ==
    {e \in ToSet(entries) : e.page = entry.page /\ e.sig = entry.sig}

\* insert_with_eviction_candidates: the new entry replaces its older self, the
\* candidates make room for it, and it goes again if they cannot.
InsertEntry(entries, entry, max, candidates, protected) ==
    LET with == Append(Dropping(entries, Namesakes(entries, entry)), entry)
        victims == Among(candidates, PagesOf(with) \ (protected \cup {entry.page}))
        gone == EnoughOf(victims, PageSizes(with, victims), BytesIn(with), max)
        left == Dropping(with, {e \in ToSet(with) : Contains(gone, e.page)})
    IN  IF BytesIn(left) <= max
        THEN left
        ELSE Dropping(left, EntriesOf(left, entry.page))

\* get: the entry becomes the most recently used one.
TouchEntry(entries, entry) ==
    Append(Dropping(entries, {entry}), entry)

(***************************************************************************)
(* The planner.                                                            *)
(***************************************************************************)
\* The ranks of the cached pages that may be evicted.
EvictableRanks(desired, entries, protected) ==
    {Rank(desired, p) : p \in PagesOf(entries) \ protected}

UpTo(s, limit) == SubSeq(s, 1, Least(limit, Len(s)))

\* plan: the pages to decode, and whether the reason to decode none is that
\* there is nothing (more) worth decoding.
Plan(desired, entries, max, saturated, limit, inflight, tooLarge, protected, spare) ==
    LET Missing(p) == p \notin PagesOf(entries) \cup inflight \cup tooLarge \cup protected
        ranks == EvictableRanks(desired, entries, protected)
        Better(p) == \E r \in ranks : Rank(desired, p) < r
        full == saturated \/ BytesIn(entries) >= max
        wanted == {p \in ToSet(desired) : Missing(p) /\ (full => Better(p))}
        pages == UpTo(Among(desired, wanted), limit)
    IN  IF spare = 0 \/ max = 0
        THEN [pages |-> <<>>, complete |-> FALSE]
        ELSE [pages |-> pages, complete |-> pages = <<>>]

\* Mutant: the candidates may rank above the page (no min_rank_exclusive), best
\* first.
EvictCandidatesAnyRank(desired, entries, protected, page) ==
    Among(desired, ToSet(desired) \ protected)

\* build_streaming_evict_candidates: cached pages that are no longer wanted,
\* then wanted ones from the last rank up, as far as they rank below the page.
EvictCandidates(desired, entries, protected, page) ==
    LET worse == {p \in (PagesOf(entries) \cup ToSet(desired)) \ protected :
                    Rank(desired, p) > Rank(desired, page)}
        cached == Distinct([i \in DOMAIN entries |-> entries[i].page])
    IN  Among(cached, worse \ ToSet(desired)) \o Among(Reverse(desired), worse)

\* plan_completion_admission: whether a decoded entry is kept, and at whose cost.
Admission(desired, entries, max, entry, protected) ==
    LET exact == Among(entries, Namesakes(entries, entry))
        needed == BytesIn(entries) - BytesIn(exact) + entry.bytes
        cached == Among(EvictCandidates(desired, entries, protected, entry.page),
                         {p \in PagesOf(entries) : BytesOfPage(entries, p) > 0})
        evict == EnoughOf(cached, PageSizes(entries, cached), needed, max)
        freed == SumOf(PageSizes(entries, evict))
        Improves == \E r \in EvictableRanks(desired, entries, protected) :
                        Rank(desired, entry.page) < r
        tooLarge == entry.bytes > max
        fits == needed <= max
        admit == /\ ~tooLarge
                 /\ Contains(desired, entry.page)
                 /\ fits \/ (freed > 0 /\ needed - freed <= max /\ Improves)
    IN  [admit |-> admit, tooLarge |-> tooLarge,
         evict |-> IF admit /\ ~fits THEN evict ELSE <<>>]
=============================================================================
