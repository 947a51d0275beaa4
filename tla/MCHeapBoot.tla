----------------------------- MODULE MCHeapBoot -----------------------------
(***************************************************************************)
(* Headers of 2 bytes, pages of 8, a first region of 16 and one page: back  *)
(* buffers that fit with room to spare, fit exactly, and need one or two    *)
(* extensions.  Addresses keep the order of magnitude of a page apart, so   *)
(* regions may or may not be neighbours.                                    *)
(***************************************************************************)
EXTENDS HeapBoot

MCBases == {8 * k : k \in 1 .. 12}
MCBackBuffers == 1 .. 36
=============================================================================
