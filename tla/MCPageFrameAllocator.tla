------------------------ MODULE MCPageFrameAllocator ------------------------
(***************************************************************************)
(* A memory of nine frames, of which the bitmap keeps eight, and calls that *)
(* take one, two and three frames (a run of one takes two): every reserved  *)
(* pattern with frame 0 locked, every order of allocating and freeing.     *)
(***************************************************************************)
EXTENDS PageFrameAllocator

MCRequests == {1, 3}
=============================================================================
