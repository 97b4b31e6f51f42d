----------------------------- MODULE MCPrefetch -----------------------------
\* Values for TLC: a book of four pages, decoded for a narrow half or the whole
\* width of the screen; a page decoded for the whole width takes twice the room.
EXTENDS Prefetch

Widths == [c \in {"single", "spread"} |->
             [p \in 0 .. 3 |-> IF c = "spread" /\ p < 3 THEN 1 ELSE 2]]
Sizes == [p \in 0 .. 3 |-> [w \in {1, 2} |-> w]]
Shot(c, anchor, visible, max, paused) ==
    [cond |-> c, anchor |-> anchor, visible |-> visible, max |-> max, paused |-> paused]

\* Opened; reading on from the first page, in pairs with little room or alone
\* with room for all pages; jumped to the end, with little room or with less
\* than a page needs.
Views == {Shot("single", 0, <<0>>, 8, TRUE),
          Shot("spread", 0, <<0, 1>>, 4, FALSE),
          Shot("single", 0, <<0>>, 8, FALSE),
          Shot("single", 3, <<3>>, 4, FALSE),
          Shot("single", 3, <<3>>, 1, FALSE)}
=============================================================================
