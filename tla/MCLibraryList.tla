--------------------------- MODULE MCLibraryList ---------------------------
EXTENDS LibraryList

\* Names 1 and 2 of one folder and 3 of another; a filter hides the second.
MCFiles   == 1 .. 3
MCDirOf   == [f \in MCFiles |-> IF f = 3 THEN 2 ELSE 1]
MCFilters == {MCFiles, {1, 3}}
MCPresent == {{2, 3}}
=============================================================================
