------------------------- MODULE PageFrameAllocator -------------------------
(***************************************************************************)
(* paging::PageFrameAllocator (src/src/pfa.cpp) over the bitmap of         *)
(* src/src/bitmap.cpp.  A physical address is its frame number, so the     *)
(* address of frame 0 is the null pointer, as in the code.                 *)
(*                                                                         *)
(* The two allocation loops run one iteration per step.  Callers free what *)
(* they asked for: FreePage for one page, FreePages with the count they    *)
(* passed for a run.                                                       *)
(***************************************************************************)
EXTENDS Bitmap

CONSTANTS
  PageCount,   (* frames of physical memory: memory_end / PAGE_SIZE       *)
  Requests     (* counts passed to AllocatePhysicalPages                  *)

ASSUME PageCountAssumption == PageCount \in Nat /\ PageCount >= 8
ASSUME RequestsAssumption == Requests \subseteq Nat \ {0}

SizeInBits == BitmapBits(PageCount)
Frames == 0 .. SizeInBits - 1
nullptr == 0

VARIABLES
  m_Bitmap,    (* TRUE = locked                                           *)
  pc,          (* "idle", "page" or "pages": the loop that is running     *)
  count,       (* argument of AllocatePhysicalPages                       *)
  index,       (* position of the bitmap iterator                         *)
  found,       (* local of AllocatePhysicalPages: length of the free run  *)
  address,     (* local of AllocatePhysicalPages: start of the free run    *)
  held,        (* history: what callers hold, see Grant                   *)
  reserved     (* history: frames initialize_allocator locked at boot     *)

vars == <<m_Bitmap, pc, count, index, found, address, held, reserved>>

(* A grant: the frames from address on, how many the caller asked for and  *)
(* knows of, and how many were locked for it.  asked = 0 marks frames left *)
(* locked after their caller has freed what it asked for.                  *)
Grant(a, asked, taken) == [address |-> a, asked |-> asked, taken |-> taken]

FramesOf(g) == {i \in Frames : g.address <= i /\ i < g.address + g.taken}
HeldFrames == UNION {FramesOf(g) : g \in held}
-----------------------------------------------------------------------------
(* initialize_allocator ends with the low 0x100 frames locked, whatever    *)
(* the memory map says; frame 0 stands for them.                           *)
LowReserve(r) == 0 \in r

Init ==
  /\ reserved \in {r \in SUBSET Frames : LowReserve(r)}
  /\ m_Bitmap = [i \in Frames |-> i \in reserved]
  /\ pc = "idle"
  /\ count = 0
  /\ index = 0
  /\ found = 0
  /\ address = nullptr
  /\ held = {}

LockPage(a) == SetBit(m_Bitmap, a, TRUE)
FreePage(a) == SetBit(m_Bitmap, a, FALSE)
LockPagesOneShort(a, n) == FillBits(m_Bitmap, a, n - 1, TRUE)
LockPages(a, n) == FillBits(m_Bitmap, a, n, TRUE)
FreePagesOneOver(a, n) == FillBits(m_Bitmap, a, n + 1, FALSE)
FreePages(a, n) == FillBits(m_Bitmap, a, n, FALSE)

(* A call returns and its locals are gone.  What it returned is the grant    *)
(* it added to held, or nullptr when it added none.                         *)
Return ==
  /\ pc' = "idle"
  /\ address' = nullptr
  /\ count' = 0
  /\ index' = 0
  /\ found' = 0
  /\ UNCHANGED reserved
-----------------------------------------------------------------------------
(* AllocatePhysicalPage: the first bit that is clear. *)
CallPage ==
  /\ pc = "idle"
  /\ pc' = "page"
  /\ UNCHANGED <<m_Bitmap, count, index, found, address, held, reserved>>

PageLockedStays ==
  /\ pc = "page"
  /\ index < SizeInBits
  /\ m_Bitmap[index]
  /\ UNCHANGED vars

PageLocked ==
  /\ pc = "page"
  /\ index < SizeInBits
  /\ m_Bitmap[index]
  /\ index' = index + 1
  /\ UNCHANGED <<m_Bitmap, pc, count, found, address, held, reserved>>

PageFound ==
  /\ pc = "page"
  /\ index < SizeInBits
  /\ ~m_Bitmap[index]
  /\ m_Bitmap' = LockPage(index)
  /\ held' = held \cup {Grant(index, 1, 1)}
  /\ Return

PageEnd ==
  /\ pc = "page"
  /\ index = SizeInBits
  /\ Return
  /\ UNCHANGED <<m_Bitmap, held>>
-----------------------------------------------------------------------------
(* AllocatePhysicalPages: the first run of count clear bits.  The length   *)
(* is compared with count only from the second bit of a run on.            *)
CallPages(n) ==
  /\ pc = "idle"
  /\ pc' = "pages"
  /\ count' = n
  /\ address' = nullptr
  /\ UNCHANGED <<m_Bitmap, index, found, held, reserved>>

PagesLockedKeepsFound ==
  /\ pc = "pages"
  /\ index < SizeInBits
  /\ m_Bitmap[index]
  /\ index' = index + 1
  /\ UNCHANGED <<m_Bitmap, pc, count, found, address, held, reserved>>

PagesLocked ==
  /\ pc = "pages"
  /\ index < SizeInBits
  /\ m_Bitmap[index]
  /\ found' = 0
  /\ address' = nullptr
  /\ index' = index + 1
  /\ UNCHANGED <<m_Bitmap, pc, count, held, reserved>>

PagesFirst ==
  /\ pc = "pages"
  /\ index < SizeInBits
  /\ ~m_Bitmap[index]
  /\ found = 0
  /\ address' = index
  /\ found' = 1
  /\ index' = index + 1
  /\ UNCHANGED <<m_Bitmap, pc, count, held, reserved>>

Enough(n) == n >= count

PagesMore ==
  /\ pc = "pages"
  /\ index < SizeInBits
  /\ ~m_Bitmap[index]
  /\ found # 0
  /\ ~Enough(found + 1)
  /\ found' = found + 1
  /\ index' = index + 1
  /\ UNCHANGED <<m_Bitmap, pc, count, address, held, reserved>>

PagesFound ==
  /\ pc = "pages"
  /\ index < SizeInBits
  /\ ~m_Bitmap[index]
  /\ found # 0
  /\ Enough(found + 1)
  /\ m_Bitmap' = LockPages(address, found + 1)
  /\ held' = held \cup {Grant(address, count, found + 1)}
  /\ Return

PagesEnd ==
  /\ pc = "pages"
  /\ index = SizeInBits
  /\ Return
  /\ UNCHANGED <<m_Bitmap, held>>
-----------------------------------------------------------------------------
(* What is left of a grant once its caller has freed what it asked for. *)
Leftover(g) ==
  IF g.asked < g.taken
    THEN {Grant(g.address + g.asked, 0, g.taken - g.asked)}
    ELSE {}

(* The callers' side of FreePage (asked = 1) and FreePages. *)
FreeGrant(g) ==
  /\ pc = "idle"
  /\ g.asked > 0
  /\ m_Bitmap' = IF g.asked = 1 THEN FreePage(g.address)
                                ELSE FreePages(g.address, g.asked)
  /\ held' = (held \ {g}) \cup Leftover(g)
  /\ UNCHANGED <<pc, count, index, found, address, reserved>>

Scan ==
  \/ PageLocked \/ PageFound \/ PageEnd
  \/ PagesLocked \/ PagesFirst \/ PagesMore \/ PagesFound \/ PagesEnd

Next ==
  \/ CallPage
  \/ \E n \in Requests : CallPages(n)
  \/ Scan
  \/ \E g \in held : FreeGrant(g)

Spec == Init /\ [][Next]_vars

(* The loops are straight-line code of the one thread the kernel has: a    *)
(* call that has begun keeps running.                                      *)
FairSpec == Spec /\ WF_vars(Scan)
-----------------------------------------------------------------------------
TypeOK ==
  /\ m_Bitmap \in [Frames -> BOOLEAN]
  /\ pc \in {"idle", "page", "pages"}
  /\ count \in Nat
  /\ index \in 0 .. SizeInBits
  /\ found \in 0 .. SizeInBits
  /\ address \in Frames
  /\ held \subseteq [address : Frames, asked : Nat, taken : Nat \ {0}]
  /\ reserved \in SUBSET Frames

(* The number of frames a call takes.  The loop of AllocatePhysicalPages    *)
(* cannot end on the first bit of a run, so it takes two for a count of 1.  *)
Need == IF pc = "page" THEN 1 ELSE IF count = 1 THEN 2 ELSE count

(* The frames a caller holds were free when they were handed out and are    *)
(* nobody else's: runs of live grants are disjoint from each other and from *)
(* what the boot code reserved, over any order of calls (pfa.cpp:32-74).    *)
Exclusive ==
  /\ \A g \in held : FramesOf(g) \cap reserved = {}
  /\ \A g \in held : g.address + g.taken <= SizeInBits
  /\ \A g, h \in held : g # h => FramesOf(g) \cap FramesOf(h) = {}

(* No frame is lost and none is free behind its holder's back: a bit is set *)
(* exactly for the frames that are reserved or held (bitmap.cpp:44-86).     *)
Accounting ==
  \A i \in Frames : m_Bitmap[i] <=> i \in reserved \cup HeldFrames

(* A returned null pointer always means failure: frame 0, whose address is  *)
(* the null pointer, is never handed out (pfa.cpp:37-41, kernel.cpp:142).   *)
NullMeansFailure == \A g \in held : g.address # nullptr

(* A caller of AllocatePhysicalPages that frees the count it asked for      *)
(* returns everything it was given, unless that count was 1: then one frame *)
(* stays locked for ever with no holder to free it (pfa.cpp:58-71).         *)
GrantSize ==
  \A g \in held :
    \/ g.asked >= 1 /\ g.taken = g.asked
    \/ g.asked = 1 /\ g.taken = 2 /\ 1 \in Requests
    \/ g.asked = 0 /\ g.taken = 1 /\ 1 \in Requests

(* What the loop of AllocatePhysicalPages knows about the bits it has seen: *)
(* address and found describe the maximal free run that ends at index, and  *)
(* no run that is long enough lies before index.                            *)
ScanInv ==
  /\ pc = "idle" => count = 0 /\ index = 0 /\ found = 0
  /\ pc = "page" =>
       /\ count = 0 /\ found = 0
       /\ \A i \in Frames : i < index => m_Bitmap[i]
  /\ pc = "pages" =>
       /\ count \in Requests
       /\ found <= index /\ found < Need
       /\ found # 0 => address = index - found
       /\ \A i \in Frames : index - found <= i /\ i < index => ~m_Bitmap[i]
       /\ index > found => m_Bitmap[index - found - 1]
       /\ \A b \in Frames :
            b + Need <= index => \E i \in b .. b + Need - 1 : m_Bitmap[i]

IInv ==
  /\ TypeOK
  /\ 0 \in reserved
  /\ Exclusive
  /\ Accounting
  /\ GrantSize
  /\ ScanInv

(* Every call returns, whatever the bitmap looks like (pfa.cpp:34, 49). *)
CallReturns == pc # "idle" ~> pc = "idle"

(* The allocator keeps the promise of FramePool: the lowest run that fits,  *)
(* and null only when there is none.                                        *)
Pool ==
  INSTANCE FramePool WITH
    free    <- {i \in Frames : ~m_Bitmap[i]},
    held    <- {<<g.address, g.taken>> : g \in held},
    pending <- IF pc = "idle" THEN 0 ELSE Need,
    Needs   <- {1} \cup {IF n = 1 THEN 2 ELSE n : n \in Requests}

PoolSpec == Pool!Spec
=============================================================================
