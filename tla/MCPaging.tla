------------------------------ MODULE MCPaging ------------------------------
(***************************************************************************)
(* Tables of two entries, so that four levels span sixteen pages; pages     *)
(* that share all, some or none of their tables.                            *)
(***************************************************************************)
EXTENDS Paging

MCFrames == 0 .. 6
MCVAs == {1, 7}
MCPAs == {5}
MCCounts == {2}
MCFlags == {<<TRUE, TRUE>>, <<TRUE, FALSE>>, <<FALSE, FALSE>>}
MCWatched == {2}
=============================================================================
