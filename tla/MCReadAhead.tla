---------------------------- MODULE MCReadAhead ----------------------------
\* Values for TLC: a book of four pages, shown one by one or in pairs (the last
\* alone), whose last page has half the area of the others.
EXTENDS ReadAhead

Alone(l, p) == l = "single" \/ p = Total - 1
Views ==
    [l \in Layouts |-> [p \in AllPages |-> IF Alone(l, p) THEN <<p>> ELSE <<p, p + 1>>]]
Needs == [l \in Layouts |-> [p \in AllPages |-> IF Alone(l, p) THEN 100 ELSE 50]]
Bytes ==
    [p \in AllPages |->
        [w \in {50, 100} |-> (IF p = Total - 1 THEN 1 ELSE 2) * (w \div 50)]]
FullArea == [w \in {50, 100} |-> 2 * (w \div 50)]

\* A neighbour with a page map or without, opened at the start, at the end, or where
\* the number known is out of date; and one beside a book of one page.
Books == {[count |-> 4, known |-> 4, entry |-> 1, width |-> 50],
          [count |-> 4, known |-> 0, entry |-> 3, width |-> 0],
          [count |-> 4, known |-> 2, entry |-> 2, width |-> 0],
          [count |-> 4, known |-> 5, entry |-> 4, width |-> 0]}
OnePage == [count |-> 1, known |-> 1, entry |-> 0, width |-> 100]
Around == {("next" :> b) : b \in Books}
            \cup {("prev" :> OnePage @@ "next" :> [count |-> 4, known |-> 4,
                                                  entry |-> 0, width |-> 0])}
=============================================================================
