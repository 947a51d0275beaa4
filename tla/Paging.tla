------------------------------- MODULE Paging -------------------------------
(***************************************************************************)
(* MapPage, MapPages and GetMapping of src/src/paging.cpp over a tree of    *)
(* page tables, and the processor that walks the same tables on its own, at *)
(* any time, and remembers what it found.  Addresses are page numbers; a    *)
(* page table is one frame.  The flags of an entry are Present and          *)
(* ReadWrite, which are the two that decide a translation of the kernel's.  *)
(***************************************************************************)
EXTENDS Integers, FiniteSetsExt

CONSTANTS
  Levels,      (* levels of tables: 4                                      *)
  Radix,       (* entries of a table: 512                                  *)
  Frames,      (* frames of physical memory                                *)
  Root,        (* the frame in CR3                                         *)
  HHDM_Offset, (* where physical memory is mapped                          *)
  VAs,         (* virtual addresses that are mapped                        *)
  PAs,         (* physical addresses they are mapped to                    *)
  Counts,      (* counts passed to MapPages                                *)
  Flags,       (* pairs of present and read_write passed to MapPages       *)
  Watched      (* virtual addresses the processor may access               *)

ASSUME PagingAssumption ==
  /\ Levels \in Nat \ {0} /\ Radix \in Nat \ {0}
  /\ Radix ^ 0 = 1
  /\ \A l \in 1 .. Levels : Radix ^ l \in Nat \ {0} /\ Radix ^ l = Radix * Radix ^ (l - 1)
  /\ Frames \subseteq Nat /\ 0 \in Frames /\ Root \in Frames \ {0}
  /\ HHDM_Offset \in Nat /\ \A f \in Frames : f < HHDM_Offset
  /\ Flags \subseteq BOOLEAN \X BOOLEAN
  /\ PAs \subseteq Nat /\ Counts \subseteq Nat \ {0}
  /\ \A p \in PAs, n \in Counts : p + n <= HHDM_Offset
  /\ \A v \in VAs, n \in Counts : v \in Nat /\ v + n <= Radix ^ Levels
  /\ Watched \subseteq 0 .. Radix ^ Levels - 1

VARIABLES
  memory,   (* every frame as a page table: entries 0 .. Radix-1           *)
  free,     (* frames the page frame allocator has                         *)
  used,     (* frames others have from it                                  *)
  tlb,      (* translations the processor remembers                        *)
  at,       (* where the call is: "idle" or the write that comes next      *)
  call,     (* arguments of MapPages, and the frames it found free         *)
  i,        (* local of MapPages                                           *)
  level,    (* the level MapPage is at                                     *)
  table,    (* pointer to the table of that level                          *)
  next,     (* next_table, a pointer to the table that is being added      *)
  result,   (* what the last call returned                                 *)
  wanted    (* history: the translation last asked for at each address     *)

walk == <<level, table, next>>
books == <<result, wanted>>
vars == <<memory, free, used, tlb, at, call, i, walk, books>>

nullptr == 0
Indices == 0 .. Radix - 1
Entry(present, write, address) ==
  [present |-> present, write |-> write, address |-> address]
ZeroTable == [x \in Indices |-> Entry(FALSE, FALSE, 0)]

(* A frame that is not a table holds anything; the worst is entries that    *)
(* look present.                                                            *)
Garbage == [x \in Indices |-> Entry(TRUE, TRUE, 0)]

(* The tables are reached through the higher half map. *)
IsPhysical(pointer) == pointer < HHDM_Offset
PhysicalToVirtual(pointer) == pointer + HHDM_Offset
FrameAt(pointer) ==
  (IF IsPhysical(pointer) THEN PhysicalToVirtual(pointer) ELSE pointer) - HHDM_Offset

(* Bits of a virtual address that index a table of level l. *)
Index(v, l) == (v \div Radix ^ (l - 1)) % Radix

NoPage == Entry(FALSE, FALSE, 0)

(* The translation of v: its last entry, writable if every entry on the    *)
(* way is.                                                                  *)
Translate(v) ==
  LET entry[l \in 1 .. Levels] ==
        IF l = Levels THEN memory[Root][Index(v, l)]
        ELSE LET up == entry[l + 1] IN
             IF ~up.present THEN NoPage
             ELSE LET e == memory[up.address][Index(v, l)] IN
                  IF e.present THEN Entry(TRUE, e.write /\ up.write, e.address) ELSE NoPage
  IN  IF entry[1].present THEN entry[1] ELSE NoPage

(* GetMapping: the frame, or the null pointer. *)
GetMapping(v) == Translate(v).address

AllPages == 0 .. Radix ^ Levels - 1
NoCall == [va |-> 0, pa |-> 0, count |-> 0, present |-> FALSE, write |-> FALSE, room |-> 0]

Init ==
  /\ memory = [f \in Frames |-> IF f = Root THEN ZeroTable ELSE Garbage]
  /\ free = Frames \ {0, Root}
  /\ used = {}
  /\ tlb = {}
  /\ at = "idle"
  /\ call = NoCall
  /\ i = 0
  /\ level = 0
  /\ table = nullptr
  /\ next = nullptr
  /\ result = TRUE
  /\ wanted = [v \in AllPages |-> NoPage]
-----------------------------------------------------------------------------
(* The rest of the kernel allocates and frees frames between the calls.     *)
TakeFrame ==
  /\ at = "idle"
  /\ free # {}
  /\ used' = used \cup {Min(free)}
  /\ free' = free \ {Min(free)}
  /\ UNCHANGED <<memory, tlb, at, call, i, walk, books>>

GiveFrame(f) ==
  /\ at = "idle"
  /\ used' = used \ {f}
  /\ free' = free \cup {f}
  /\ memory' = [memory EXCEPT ![f] = Garbage]
  /\ UNCHANGED <<tlb, at, call, i, walk, books>>
-----------------------------------------------------------------------------

(* The page MapPages is at. *)
Virtual == call.va + i
Physical == call.pa + i

CallMapPages(v, p, n, present, write) ==
  /\ at = "idle"
  /\ call' = [va |-> v, pa |-> p, count |-> n, present |-> present,
              write |-> write, room |-> Cardinality(free)]
  /\ i' = 0
  /\ at' = "page"
  /\ UNCHANGED <<memory, free, used, tlb, walk, books>>

Return(value) ==
  /\ at' = "idle"
  /\ result' = value
  /\ level' = 0
  /\ table' = nullptr
  /\ next' = nullptr
  /\ UNCHANGED <<memory, free, used, tlb, wanted>>

PagesMapped ==
  /\ at = "page"
  /\ i = call.count
  /\ Return(TRUE)
  /\ i' = 0
  /\ call' = NoCall

(* MapPage starts at PML4_Base, which is a physical address. *)
StartPage ==
  /\ at = "page"
  /\ i < call.count
  /\ table' = Root
  /\ level' = Levels
  /\ at' = "next"
  /\ UNCHANGED <<memory, free, used, tlb, call, i, next, books>>

Here == memory[FrameAt(table)][Index(Virtual, level)]
WriteHere(e) == [memory EXCEPT ![FrameAt(table)][Index(Virtual, level)] = e]

(* GetOrCreateNextLevel: the next table is there, and is returned by its    *)
(* physical address.                                                        *)
NextLevel ==
  /\ at = "next"
  /\ level > 1
  /\ Here.present
  /\ Here.address # nullptr
  /\ table' = Here.address
  /\ level' = level - 1
  /\ UNCHANGED <<memory, free, used, tlb, at, call, i, next, books>>

ClearedForgotten(f) == memory[f]
Cleared(f) == ZeroTable

(* The next table is missing: a frame is allocated, cleared, and the entry  *)
(* becomes present and writable ...                                         *)
Create ==
  /\ at = "next"
  /\ level > 1
  /\ ~Here.present
  /\ free # {}
  /\ free' = free \ {Min(free)}
  /\ memory' = [WriteHere(Entry(TRUE, TRUE, 0)) EXCEPT ![Min(free)] = Cleared(Min(free))]
  /\ next' = PhysicalToVirtual(Min(free))
  /\ at' = "link"
  /\ UNCHANGED <<used, tlb, call, i, level, table, books>>

LinkReadOnly ==
  /\ at = "link"
  /\ memory' = WriteHere(Entry(TRUE, FALSE, FrameAt(next)))
  /\ table' = next
  /\ level' = level - 1
  /\ at' = "next"
  /\ UNCHANGED <<free, used, tlb, call, i, next, books>>

(* ... before it has the address of the new table. *)
Link ==
  /\ at = "link"
  /\ memory' = WriteHere([Here EXCEPT !.address = FrameAt(next)])
  /\ table' = next
  /\ level' = level - 1
  /\ at' = "next"
  /\ UNCHANGED <<free, used, tlb, call, i, next, books>>

(* No frame is left: MapPage fails, and MapPages with it. *)
OutOfFramesAlways ==
  /\ at = "next"
  /\ level > 1
  /\ ~Here.present
  /\ Return(FALSE)
  /\ UNCHANGED <<call, i>>

OutOfFrames ==
  /\ at = "next"
  /\ level > 1
  /\ ~Here.present
  /\ free = {}
  /\ Return(FALSE)
  /\ UNCHANGED <<call, i>>

(* The entry of the page: its flags, then its address. *)
WriteFlags ==
  /\ at = "next"
  /\ level = 1
  /\ memory' = WriteHere(Entry(call.present, call.write, 0))
  /\ at' = "address"
  /\ UNCHANGED <<free, used, tlb, call, i, walk, books>>

WriteAddress ==
  /\ at = "address"
  /\ memory' = WriteHere(Entry(Here.present, Here.write, Physical))
  /\ wanted' = [wanted EXCEPT ![Virtual] =
       IF call.present THEN Entry(TRUE, call.write, Physical) ELSE NoPage]
  /\ at' = "flush"
  /\ UNCHANGED <<free, used, tlb, call, i, walk, result>>

FlushPageForgotten ==
  /\ at = "flush"
  /\ i' = i + 1
  /\ at' = "page"
  /\ UNCHANGED <<memory, free, used, tlb, call, walk, books>>

FlushPage ==
  /\ at = "flush"
  /\ tlb' = {t \in tlb : t.va # Virtual}
  /\ i' = i + 1
  /\ at' = "page"
  /\ UNCHANGED <<memory, free, used, call, walk, books>>

MapPages ==
  \/ PagesMapped \/ StartPage \/ NextLevel \/ Create \/ Link \/ OutOfFrames
  \/ WriteFlags \/ WriteAddress \/ FlushPage
-----------------------------------------------------------------------------
(* The processor looks up an address it does not remember, at any time: on  *)
(* an access of the kernel's, or ahead of one.  torn marks what it found    *)
(* while an entry was present and still without its address.                *)
MmuWalk(v) ==
  /\ \A t \in tlb : t.va # v
  /\ Translate(v).present
  /\ tlb' = tlb \cup {[va |-> v, page |-> Translate(v), torn |-> at = "link"]}
  /\ UNCHANGED <<memory, free, used, at, call, i, walk, books>>

MmuEvict(t) ==
  /\ tlb' = tlb \ {t}
  /\ UNCHANGED <<memory, free, used, at, call, i, walk, books>>

Call ==
  \E v \in VAs, p \in PAs, n \in Counts, f \in Flags :
    CallMapPages(v, p, n, f[1], f[2])

Next ==
  \/ Call \/ MapPages
  \/ TakeFrame \/ (\E f \in used : GiveFrame(f))
  \/ (\E v \in Watched : MmuWalk(v)) \/ (\E t \in tlb : MmuEvict(t))

Spec == Init /\ [][Next]_vars
-----------------------------------------------------------------------------
(* Type invariant: entries hold physical addresses (paging.cpp:109, 174). *)
PagingTypeOK ==
  /\ memory \in [Frames -> [Indices -> [present : BOOLEAN, write : BOOLEAN,
                                        address : 0 .. HHDM_Offset - 1]]]
  /\ free \subseteq Frames /\ used \subseteq Frames
  /\ at \in {"idle", "page", "next", "link", "address", "flush"}
  /\ i \in 0 .. call.count
  /\ level \in 0 .. Levels
  /\ result \in BOOLEAN

(* The entries that point to a table of level l-1, and that table. *)
Target(link) == memory[link[1]][link[2]].address
Links[l \in 2 .. Levels] ==
  LET tables == IF l = Levels THEN {Root} ELSE {Target(k) : k \in Links[l + 1]}
  IN  {link \in tables \X Indices : memory[link[1]][link[2]].present}
AllLinks == UNION {Links[l] : l \in 2 .. Levels}

(* The tables are a tree and own their frames: two entries never lead to    *)
(* the same table, no table is in the allocator's or another user's hands,  *)
(* and no frame is lost, whether calls succeed or run out of frames half    *)
(* way (paging.cpp:137-177).                                                *)
TablesApart ==
  PagingTypeOK /\ (at # "link" =>
    /\ \A k, l \in AllLinks : k # l => Target(k) # Target(l)
    /\ {Target(l) : l \in AllLinks} = Frames \ ({0, Root} \cup free \cup used))

(* Every address of the space translates to what was last asked for it,     *)
(* with the rights asked for, and an address nobody mapped does not         *)
(* translate, whatever the frames of the tables held before: a call changes *)
(* the pages it was called for and no other (paging.cpp:59-135).            *)
MapsExactly ==
  at # "link" =>
    \A v \in AllPages : Translate(v) = wanted[v] \/ (at = "address" /\ v = Virtual)

(* A call that fails has mapped the pages before the one it stopped at, and *)
(* it fails only for lack of frames: fewer were free than one table per     *)
(* level and page (paging.cpp:126-134, 157-161).                            *)
FailureIsPrefix ==
  at = "idle" /\ ~result =>
    /\ i < call.count
    /\ \A k \in 0 .. i - 1 :
         GetMapping(call.va + k) = IF call.present THEN call.pa + k ELSE nullptr
    /\ call.room < (Levels - 1) * (i + 1)

(* The processor never uses a translation that the tables have changed      *)
(* since, unless it looked it up while a new table was present and its      *)
(* address not yet written: MapPage flushes the page it maps and no other   *)
(* (paging.cpp:111, 172-174).                                               *)
StaleOnlyIfTorn ==
  at \notin {"address", "flush"} =>
    \A t \in tlb : t.torn \/ t.page = Translate(t.va)
=============================================================================
