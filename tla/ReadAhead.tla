----------------------------- MODULE ReadAhead -----------------------------
(***************************************************************************)
(* What a Viewer prepares so that the reader need not wait: SPAD while one *)
(* book is read, the hand-over of its pages when the Viewer goes to the    *)
(* neighbour, and the textures of the book it opens.  The SPAD of the new  *)
(* book is the first part again and is not followed.                       *)
(***************************************************************************)
EXTENDS Textures, Spad

ASSUME ReadAheadAssumption ==
    \A p \in AllPages, w \in SpadWidths : TextureBytes[p][w] \in Nat

VARIABLES
    mode,       \* "reading" one book, "opening" the other, or it is "opened"
    prepared    \* history: the opening under way is to need no loading

readAheadVars == <<textureVars, spadVars, mode, prepared>>

(***************************************************************************)
(* Going to a neighbour.                                                   *)
(***************************************************************************)
\* ViewerState::new: a start page beyond the end is the last page.
StartPage(s) == Least(book[s].entry, Total - 1)

\* The layout settings of the neighbour are those its page map was asked with.
LayoutsOf(s) ==
    {l \in Layouts : book[s].width # 0 => book[s].width = Need[l][book[s].entry]}

\* Mutant: the pages of the previous book only.
ReadyOfPrev(s) == IF s = "prev" THEN target[s].ready ELSE {}

\* take_spad_ready_pages_for_target.
ReadyOf(s) == target[s].ready

\* What of a page can be handed over: it is one the book has, and suits the view
\* the book opens at.
Offered(s, l, p) ==
    LET count == IF target[s].known > 0 THEN target[s].known ELSE Total
    IN  {r \in ReadyOf(s) : /\ r.page = p /\ p < count
                            /\ Suits(r.width, Need[l][StartPage(s)])}

\* The textures handed over, in the order of pages.
Handover(s, l) ==
    LET pages[n \in 0 .. Total] ==
            IF n = 0 THEN <<>>
            ELSE LET r == CHOOSE r \in Offered(s, l, n - 1) : TRUE
                 IN  IF Offered(s, l, n - 1) = {} THEN pages[n - 1]
                     ELSE Append(pages[n - 1], Texture(r.page, r.width, r.width))
    IN  pages[Total]

\* promote_spad_ready_pages_to_l1_future.
Promoted(s, l) ==
    LET given == Handover(s, l)
        entries[n \in 0 .. Len(given)] ==
            IF n = 0 THEN <<>> ELSE Insert(entries[n - 1], given[n], FutureLimit)
    IN  entries[Len(given)]

\* SPAD has come to rest, knows the page the book opens at, had no page of that
\* view fail, decoded for a width that suits, and its pages fit; and the view begins
\* with that page (under the AUTO plan it may be the second of its view).
WellPrepared(s, l) ==
    LET t == target[s]
        start == StartPage(s)
    IN  /\ s \notin DOMAIN spadInflight /\ ~due /\ seen # "closed" /\ ~resized
        /\ t.entry = start
        /\ ViewOf[l][start] \in {<<start>>, <<start, start + 1>>}
        /\ t.failed \cap ToSet(ViewOf[l][start]) = {}
        /\ Suits(WidthFor(s), Need[l][start])
        /\ BytesIn(Handover(s, l)) <= FutureLimit

\* reopen_to_path.  The model follows the Viewer into books of Total pages.
Reopen(s) ==
    /\ mode = "reading"
    /\ book[s].count = Total
    /\ mode' = "opening"
    /\ \E l \in LayoutsOf(s) :
        /\ layout' = l
        /\ future' = Promoted(s, l)
        /\ prepared' = WellPrepared(s, l)
        /\ area' = Need[l][StartPage(s)]
    /\ requested' = StartPage(s)
    /\ book' = <<>> /\ target' = <<>> /\ spadInflight' = <<>>
    /\ gate' = "closed" /\ seen' = "closed" /\ due' = FALSE /\ resized' = FALSE
    /\ UNCHANGED <<history, loading, ready, frameVars, turns>>

\* start_initial_load, in the first frame.
Open ==
    /\ mode = "opening"
    /\ mode' = "opened"
    /\ StartFrame
    /\ Show(requested, layout, {})
    /\ prepared' = FALSE
    /\ UNCHANGED <<ready, turns, spadVars>>

ReadAheadInit ==
    /\ SpadInit
    /\ TextureInit
    /\ requested = 0 /\ layout = CHOOSE l \in Layouts : TRUE     \* of no book yet
    /\ mode = "reading"
    /\ prepared = FALSE

ReadAheadNext ==
    \/ mode = "reading" /\ SpadNext /\ UNCHANGED <<textureVars, mode, prepared>>
    \/ \E s \in SidesPresent : Reopen(s)
    \/ Open
    \/ mode = "opened" /\ TextureNext /\ UNCHANGED <<spadVars, mode, prepared>>

ReadAheadSpec == ReadAheadInit /\ [][ReadAheadNext]_readAheadVars

(***************************************************************************)
(* Properties.                                                             *)
(***************************************************************************)
\* What could be prepared waits for a frame nobody asked for only where SideAwake
\* and WarmupAwake name it: a gate that opens after the frame it would have needed
\* (OpenedUnseen), two kinds of frame of the warm-up.
Awake == SpadAwake /\ (mode = "opened" => WarmupAwake)

\* What SPAD is for: when it has done its work undisturbed, opening the neighbour
\* shows its first view at once (start_display_request finds the textures).
OpensReady == [][Open /\ prepared => ~loading']_readAheadVars
=============================================================================
