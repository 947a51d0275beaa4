---------------------------- MODULE MCHeapClient ----------------------------
(***************************************************************************)
(* The same small headers and pages, six pages of memory, three blocks    *)
(* of up to a page, so that a block that was split off is split again.      *)
(***************************************************************************)
EXTENDS HeapClient

MCBases == {8 * k : k \in 1 .. 6}
MCCounts == {4, 8}
=============================================================================
