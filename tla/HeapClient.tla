----------------------------- MODULE HeapClient -----------------------------
(***************************************************************************)
(* Any sequence of the calls of memory.h: Allocate, Reallocate and Free, by *)
(* callers that free only what they own.                                    *)
(***************************************************************************)
EXTENDS Heap

CONSTANTS
  Counts,    (* sizes asked for                        *)
  MaxLive    (* bound on the number of blocks in use   *)

Call ==
  \/ Cardinality(live) < MaxLive /\ \E n \in Counts : CallAllocate(n)
  \/ \E b \in live : (\E n \in Counts : CallReallocate(b, n)) \/ FreeBlock(b)

Next == Call \/ Allocate

Spec == HeapInit /\ [][Next]_heapVars
=============================================================================
