------------------------------ MODULE MCStores ------------------------------
(* Small instances of Stores for TLC. *)
EXTENDS Stores, TLC

MCPresent == {1, 2}
MCMarked  == {1}
MCPlain   == {1, 2}
CONSTANTS v1, v2
MCViewers == {v1, v2}
Symmetry  == Permutations(MCViewers)
BothLinks == BOOLEAN
=============================================================================
