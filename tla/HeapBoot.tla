------------------------------ MODULE HeapBoot ------------------------------
(***************************************************************************)
(* The kernel's use of the heap (src/src/kernel.cpp:148-170, 521):          *)
(* InitializeHeap and then two blocks that are never freed, the back        *)
(* buffer, whose size the framebuffer decides, and the Renderer object.     *)
(***************************************************************************)
EXTENDS Heap

CONSTANTS
  BackBuffers,   (* sizes pitch * height of a frame buffer                  *)
  RendererSize   (* sizeof(Renderer)                                        *)

ASSUME HeapBootAssumption ==
  /\ BackBuffers \subseteq Nat \ {0}
  /\ RendererSize \in Nat \ {0}
  /\ RendererSize >= HeaderSize /\ HeaderSize + RendererSize <= PageSize

(* initialize_renderer *)
AllocateBackBuffer == live = {} /\ \E n \in BackBuffers : CallAllocate(n)
AllocateRenderer == Cardinality(live) = 1 /\ CallAllocate(RendererSize)

Next == AllocateBackBuffer \/ AllocateRenderer \/ Allocate

Spec == HeapInit /\ [][Next]_heapVars
=============================================================================
