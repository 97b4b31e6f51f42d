---------------------------- MODULE MCCbzRebuild ----------------------------
EXTENDS CbzRebuild, TLC

\* Three images in a.rar, so that it can lose pages twice, the second time as
\* a.cbz; two in a.cbz.
BookPages == [b \in {"rar", "cbz"} |-> IF b = "cbz" THEN {"c1", "c2"}
                                       ELSE {"r1", "r2", "r3"}]
Symmetry == Permutations(Libraries)
=============================================================================
