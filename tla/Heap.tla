-------------------------------- MODULE Heap --------------------------------
(***************************************************************************)
(* The kernel heap of src/src/heap.cpp: headers in a doubly linked list,    *)
(* first fit, split on allocation, merge on free, extension by regions from *)
(* the page frame allocator.  Addresses and sizes are numbers of bytes; a   *)
(* header is HeaderSize of them, in front of its block.                     *)
(*                                                                          *)
(* HeapBoot and HeapClient call it, as the kernel does and as memory.h      *)
(* allows.                                                                  *)
(***************************************************************************)
EXTENDS Integers, Functions, FiniteSetsExt

CONSTANTS
  HeaderSize,   (* sizeof(HeapHeader), 25                                  *)
  PageSize,     (* PAGE_SIZE, 4096                                         *)
  InitialSize,  (* argument of InitializeHeap, 0x400000                    *)
  UsizeRange,   (* number of values of a usize, 2^64                       *)
  Bases         (* addresses where the page frame allocator has memory     *)

ASSUME HeapAssumption ==
  /\ HeaderSize \in Nat \ {0} /\ PageSize \in Nat /\ HeaderSize < PageSize
  /\ InitialSize \in Nat /\ InitialSize % PageSize = 0 /\ InitialSize > HeaderSize
  /\ UsizeRange \in Nat /\ 2 * InitialSize < UsizeRange /\ UsizeRange % PageSize = 0
  /\ Bases \subseteq {a \in Nat \ {0} : a % PageSize = 0}

nullptr == 0

VARIABLES
  headers,    (* HeapHeader at each address that has one in the list       *)
  heapBegin,  (* __heap_begin                                              *)
  heapSize,   (* __heap_size                                               *)
  pc,         (* "idle", or "search" while Allocate runs                   *)
  count,      (* argument of Allocate                                      *)
  old,        (* block that Reallocate is moving, or nullptr               *)
  live,       (* history: blocks callers own, [id, address, count]         *)
  regions     (* history: memory the heap was given, [base, length]        *)

heapVars == <<headers, heapBegin, heapSize, pc, count, old, live, regions>>

Header(isFree, size, left, right) ==
  [free |-> isFree, size |-> size, left |-> left, right |-> right]

Put(hs, a, h) == [x \in DOMAIN hs \cup {a} |-> IF x = a THEN h ELSE hs[x]]
Link(hs, a, field, to) == IF a = nullptr THEN hs ELSE [hs EXCEPT ![a][field] = to]

Usize(n) == n % UsizeRange
RegionLengthRoundedDown(size) == PageSize * (size \div PageSize)
RegionLength(size) == PageSize * (size \div PageSize + 1)

(* The page frame allocator grants memory nobody has. *)
Fresh(size) ==
  {b \in Bases : \A r \in regions :
     b + RegionLength(size) <= r.base \/ r.base + r.length <= b}

HeapInit ==
  /\ heapBegin \in {b \in Bases : \A c \in Bases : b <= c}
  /\ regions = {[base |-> heapBegin, length |-> RegionLength(InitialSize)]}
  /\ headers = [a \in {heapBegin} |->
                  Header(TRUE, InitialSize - HeaderSize, nullptr, nullptr)]
  /\ heapSize = InitialSize
  /\ pc = "idle"
  /\ count = 0
  /\ old = nullptr
  /\ live = {}
-----------------------------------------------------------------------------
(* The headers on the list, from heapBegin along right. *)
InList == DOMAIN headers
IsEnd(a) == headers[a].right = nullptr
HeapEnd == CHOOSE a \in InList : IsEnd(a)

(* Following right from a leads to b. *)
Before(a, b) ==
  LET reach[n \in Nat, x \in InList \cup {nullptr}] ==
        x = b \/ (n > 0 /\ x # nullptr /\ reach[n - 1, headers[x].right])
  IN  a # b /\ reach[Cardinality(InList), a]

BlockEnd(hs, a) == a + HeaderSize + hs[a].size

(* __merge: left takes in right when both are free and right follows it in  *)
(* the list and in memory.                                                  *)
Merge(hs, left, right) ==
  IF /\ hs[left].right = right /\ hs[right].left = left
     /\ hs[left].free /\ hs[right].free
     /\ BlockEnd(hs, left) = right
    THEN Link([x \in DOMAIN hs \ {right} |->
                 IF x = left
                   THEN Header(TRUE, hs[left].size + HeaderSize + hs[right].size,
                               hs[left].left, hs[right].right)
                   ELSE hs[x]],
              hs[right].right, "left", left)
    ELSE hs

ExtendedUnlinked(address) == headers

(* __extend_heap with the address the allocator returned.  At nullptr the   *)
(* header is written over frame 0 and the list stays as it was.             *)
Extended(address) ==
  LET linked == Put(Link(headers, HeapEnd, "right", address), address,
                    Header(TRUE, heapSize, HeapEnd, nullptr))
  IN  IF address = nullptr THEN headers ELSE Merge(linked, HeapEnd, address)

Fits(a) == headers[a].free /\ headers[a].size >= count
NoFit == \A a \in InList : ~Fits(a)
IsFirstFit(a) == Fits(a) /\ \A b \in InList : Fits(b) => ~Before(b, a)

(* What is left of a block when count bytes are cut off it: the code takes  *)
(* the header off the size, and not count.  A usize does not go below 0.    *)
Remainder(size) == Usize(size - HeaderSize)

SplitOneWay(a) ==
  LET right == a + HeaderSize + count
      cut == Put(headers, right, Header(TRUE, Remainder(headers[a].size), a, headers[a].right))
  IN  Put(cut, a, Header(FALSE, count, headers[a].left, right))

Split(a) ==
  LET right == a + HeaderSize + count
      cut == Put(headers, right, Header(TRUE, Remainder(headers[a].size), a, headers[a].right))
  IN  Put(Link(cut, cut[right].right, "left", right), a,
          Header(FALSE, count, headers[a].left, right))

TakeStaysFree(a) == headers
Take(a) == [headers EXCEPT ![a].free = FALSE]

(* Free: merge with the left neighbour, then with the right one. *)
Freed(hs, block) ==
  LET a == block - HeaderSize
      clear == [hs EXCEPT ![a].free = TRUE]
      left == clear[a].left
      mergesLeft == left # nullptr /\ clear[left].free
      once == IF mergesLeft THEN Merge(clear, left, a) ELSE clear
      h == IF mergesLeft THEN left ELSE a
      right == once[h].right
  IN  IF right # nullptr /\ once[right].free THEN Merge(once, h, right) ELSE once
-----------------------------------------------------------------------------
NewId == Min({n \in 1 .. Cardinality(live) + 1 : \A b \in live : b.id # n})
Own(address) == [id |-> NewId, address |-> address, count |-> count]

CallAllocate(n) ==
  /\ pc = "idle"
  /\ count' = n
  /\ pc' = "search"
  /\ old' = nullptr
  /\ UNCHANGED <<headers, heapBegin, heapSize, live, regions>>

CallReallocate(b, n) ==
  /\ pc = "idle"
  /\ count' = n
  /\ pc' = "search"
  /\ old' = b.address
  /\ UNCHANGED <<headers, heapBegin, heapSize, live, regions>>

Extend(address) ==
  /\ pc = "search"
  /\ NoFit
  /\ headers' = Extended(address)
  /\ heapSize' = Usize(2 * heapSize)
  /\ regions' = IF address = nullptr THEN regions
                ELSE regions \cup {[base |-> address, length |-> RegionLength(heapSize)]}
  /\ UNCHANGED <<heapBegin, pc, count, old, live>>

ExtendFromPool == \E b \in Fresh(heapSize) : Extend(b)
ExtendOutOfMemory == Fresh(heapSize) = {} /\ Extend(nullptr)

(* Allocate returns the block behind header a; Reallocate then copies and   *)
(* frees the old one.                                                       *)
ReturnBlock(a, hs) ==
  /\ headers' = IF old = nullptr THEN hs ELSE Freed(hs, old)
  /\ live' = {b \in live : b.address # old} \cup {Own(a + HeaderSize)}
  /\ pc' = "idle"
  /\ count' = 0
  /\ old' = nullptr
  /\ UNCHANGED <<heapBegin, heapSize, regions>>

TakeWhole(a) == Usize(headers[a].size - HeaderSize) <= count

AllocateWhole ==
  /\ pc = "search"
  /\ \E a \in InList : IsFirstFit(a) /\ TakeWhole(a) /\ ReturnBlock(a, Take(a))

AllocateSplit ==
  /\ pc = "search"
  /\ \E a \in InList : IsFirstFit(a) /\ ~TakeWhole(a) /\ ReturnBlock(a, Split(a))

FreeBlock(b) ==
  /\ pc = "idle"
  /\ headers' = Freed(headers, b.address)
  /\ live' = live \ {b}
  /\ UNCHANGED <<heapBegin, heapSize, pc, count, old, regions>>

Allocate == ExtendFromPool \/ ExtendOutOfMemory \/ AllocateWhole \/ AllocateSplit
-----------------------------------------------------------------------------
HeapTypeOK ==
  /\ \A a \in InList :
       headers[a] \in [free : BOOLEAN, size : 0 .. UsizeRange - 1,
                       left : InList \cup {nullptr}, right : InList \cup {nullptr}]
  /\ heapSize \in 0 .. UsizeRange - 1
  /\ pc \in {"idle", "search"}

Overlap(a1, n1, a2, n2) == a1 < a2 + n2 /\ a2 < a1 + n1

(* No two callers own the same byte (heap.cpp:118-140). *)
BlocksApart ==
  \A b, c \in live :
    b # c => ~Overlap(b.address, b.count, c.address, c.count)

(* Every block lies in memory the page frame allocator gave to the heap.    *)
InsideRegions ==
  \A b \in live : \E r \in regions :
    r.base <= b.address /\ b.address + b.count <= r.base + r.length

(* The list is doubly linked and has one end, the header in front of a      *)
(* caller's block says it is taken and large enough, and a caller that      *)
(* stays inside its block cannot write over a header (heap.cpp:25-76,       *)
(* 118-140).                                                                *)
ListSound ==
  /\ HeapTypeOK
  /\ \A a \in InList : headers[a].right # nullptr => headers[headers[a].right].left = a
  /\ \A a \in InList : headers[a].left # nullptr => headers[headers[a].left].right = a
  /\ Cardinality({a \in InList : IsEnd(a)}) = 1
  /\ \A b \in live : LET a == b.address - HeaderSize IN
       a \in InList /\ ~headers[a].free /\ headers[a].size >= b.count
  /\ \A b \in live : \A a \in InList : ~Overlap(b.address, b.count, a, HeaderSize)

(* The search for a block asks for more memory only while it is short of    *)
(* it: no region that is still empty and has room for the block and its     *)
(* header is passed over, wherever it lies and whether it was merged or     *)
(* not, so that the doubling ends with a block (heap.cpp:62-83, 115-143).   *)
ExtensionsSuffice ==
  pc = "search" /\ NoFit =>
    \A r \in regions :
      \/ \E b \in live : Overlap(b.address, b.count, r.base, r.length)
      \/ r.length <= HeaderSize + count + PageSize
=============================================================================
