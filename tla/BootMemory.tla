----------------------------- MODULE BootMemory -----------------------------
(***************************************************************************)
(* initialize_allocator of src/src/kernel.cpp: the bootloader's memory map  *)
(* is measured, the bitmap is put into the longest region, filled from the  *)
(* map, and handed to the page frame allocator.  Addresses and lengths are  *)
(* bytes; each loop takes one entry of the map per step.                    *)
(***************************************************************************)
EXTENDS Bitmap, Sequences

CONSTANTS
  PageSize,     (* PAGE_SIZE                                                *)
  LowFrames,    (* frames at the bottom that stay locked: 0x100             *)
  ObjectSize,   (* sizeof(PageFrameAllocator)                               *)
  Maps,         (* memory maps, sequences of entries [base, length, type]   *)
  PageCounts    (* numbers of frames these maps have                        *)

Types == {"usable", "reclaimable", "reserved"}
IsMemory(e) == e.type \in {"usable", "reclaimable"}
Aligned(e) == e.base % PageSize = 0 /\ e.length % PageSize = 0
Overlap(d, e) == d.base < e.base + e.length /\ e.base < d.base + d.length

(* The bootloader lists memory by whole pages, and usable memory once; the  *)
(* ranges that the firmware has reserved may begin and end anywhere.        *)
IsMap(m) ==
  \A i \in 1 .. Len(m) :
    /\ IsMemory(m[i]) => Aligned(m[i])
    /\ m[i].type = "usable" => \A j \in 1 .. Len(m) : j # i => ~Overlap(m[i], m[j])

(* Where the memory of a map ends. *)
EndsAt(m, end) ==
  /\ \E i \in 1 .. Len(m) : IsMemory(m[i]) /\ m[i].base + m[i].length = end
  /\ \A i \in 1 .. Len(m) : IsMemory(m[i]) => m[i].base + m[i].length <= end

(* There is enough memory for the bitmap to have a byte.                    *)
ASSUME BootMemoryAssumption ==
  /\ PageSize \in Nat \ {0} /\ PageSize % 8 = 0
  /\ LowFrames \in Nat \ {0}
  /\ ObjectSize \in Nat \ {0} /\ 8 * ObjectSize <= PageSize
  /\ Maps \subseteq Seq([base : Nat, length : Nat \ {0}, type : Types])
  /\ \A m \in Maps : IsMap(m)
  /\ PageCounts \subseteq Nat
  /\ \A m \in Maps : \E pages \in PageCounts : pages >= 8 /\ EndsAt(m, PageSize * pages)

VARIABLES
  map,             (* memmap: the entries, by base                          *)
  at,              (* the statement that comes next                         *)
  n,               (* entry the loop is at                                  *)
  physical_buffer, max_length, memory_end,
  bitmap,
  allocator        (* address of the PageFrameAllocator object              *)

found == <<physical_buffer, max_length, memory_end>>
vars == <<map, at, n, found, bitmap, allocator>>

nullptr == 0
page_count == memory_end \div PageSize

Init ==
  /\ map \in Maps
  /\ at = "measure"
  /\ n = 1
  /\ physical_buffer = nullptr
  /\ max_length = 0
  /\ memory_end = 0
  /\ bitmap = <<>>
  /\ allocator = nullptr

LargerOf(a, b) == IF a < b THEN b ELSE a

(* The first loop: the end of memory, and the longest region of it (the     *)
(* last one, if several are).                                               *)
Measure ==
  /\ at = "measure"
  /\ n <= Len(map)
  /\ n' = n + 1
  /\ IF IsMemory(map[n])
       THEN /\ memory_end' = LargerOf(memory_end, map[n].base + map[n].length)
            /\ max_length' = LargerOf(max_length, map[n].length)
            /\ physical_buffer' =
                 IF map[n].length < max_length THEN physical_buffer ELSE map[n].base
       ELSE UNCHANGED found
  /\ UNCHANGED <<map, at, bitmap, allocator>>

ClearBitmap ==
  /\ at = "measure"
  /\ n > Len(map)
  /\ bitmap' = [i \in 0 .. BitmapBits(page_count) - 1 |-> FALSE]
  /\ n' = 1
  /\ at' = "fill"
  /\ UNCHANGED <<map, found, allocator>>

StateIsReserved(e) == e.type = "reserved"
State(e) == e.type # "usable"

(* The second loop. *)
FillEntry ==
  /\ at = "fill"
  /\ n <= Len(map)
  /\ bitmap' = FillBits(bitmap, map[n].base \div PageSize,
                        map[n].length \div PageSize, State(map[n]))
  /\ n' = n + 1
  /\ UNCHANGED <<map, at, found, allocator>>

FillLowUnlocked ==
  /\ at = "fill"
  /\ n > Len(map)
  /\ at' = "own"
  /\ UNCHANGED <<map, n, found, bitmap, allocator>>

FillLow ==
  /\ at = "fill"
  /\ n > Len(map)
  /\ bitmap' = FillBits(bitmap, 0, LowFrames, TRUE)
  /\ at' = "own"
  /\ UNCHANGED <<map, n, found, allocator>>

(* Frames, not bytes, of an eighth of the number of frames. *)
OwnFrameCountShort == page_count \div 8
OwnFrameCountLong == page_count \div 8 + 2
OwnFrameCount == page_count \div 8 + 1

FillOwn ==
  /\ at = "own"
  /\ bitmap' = FillBits(bitmap, physical_buffer \div PageSize, OwnFrameCount, TRUE)
  /\ at' = "place"
  /\ UNCHANGED <<map, n, found, allocator>>

(* KernelAllocator lies an eighth of memory, in bytes, behind the bitmap. *)
PlaceAllocator ==
  /\ at = "place"
  /\ allocator' = physical_buffer + memory_end \div 8
  /\ at' = "done"
  /\ UNCHANGED <<map, n, found, bitmap>>

Next ==
  \/ Measure \/ ClearBitmap \/ FillEntry \/ FillLow \/ FillOwn \/ PlaceAllocator

Spec == Init /\ [][Next]_vars
-----------------------------------------------------------------------------
Entries == {map[i] : i \in 1 .. Len(map)}

(* The frames that the bytes a .. a+length-1 touch. *)
Touched(a, length) == a \div PageSize .. (a + length - 1) \div PageSize

BitmapBytes == BitmapBits(page_count) \div 8
OwnFrames ==
  Touched(physical_buffer, LargerOf(1, BitmapBytes)) \cup Touched(allocator, ObjectSize)

(* Type invariant, also between the steps. *)
BootTypeOK ==
  /\ at \in {"measure", "fill", "own", "place", "done"}
  /\ n \in 1 .. Len(map) + 1
  /\ at # "measure" => bitmap \in [0 .. BitmapBits(page_count) - 1 -> BOOLEAN]

(* The allocator never hands out the frames its own bitmap and object lie   *)
(* in: the count of frames that are locked and the byte offset of the       *)
(* object, computed from different units, agree for every size of memory.   *)
(* And both lie inside the region they were put into, if it is longer than  *)
(* an eighth of all memory (kernel.cpp:131-146).                            *)
OwnMemoryLocked ==
  at = "done" =>
    /\ \A f \in OwnFrames \cap DOMAIN bitmap : bitmap[f]
    /\ max_length >= PageSize * (page_count \div 8 + 1) =>
         allocator + ObjectSize <= physical_buffer + max_length

(* Memory that something else uses is never free: no entry that is not      *)
(* usable has lost a frame, whatever comes before and after it in the map,  *)
(* as long as it is page aligned, which the bootloader promises for         *)
(* reclaimable memory and not for reserved (kernel.cpp:137-140).            *)
InUseStaysLocked ==
  at = "done" =>
    \A e \in Entries : Aligned(e) /\ e.type # "usable" =>
      \A f \in Touched(e.base, e.length) \cap DOMAIN bitmap : bitmap[f]

(* Usable memory is there to be used: every frame of it is free, except the *)
(* low ones, the ones the allocator has for itself, and the up to seven at  *)
(* the end of memory for which the bitmap has no byte (kernel.cpp:136-143). *)
UsableIsFree ==
  BootTypeOK /\ (at = "done" =>
    \A e \in Entries : e.type = "usable" =>
      \A f \in Touched(e.base, e.length) :
        \/ f < LowFrames
        \/ f >= BitmapBits(page_count)
        \/ f - physical_buffer \div PageSize \in 0 .. page_count \div 8
        \/ ~bitmap[f])

(* What comes out is a state the page frame allocator starts from. *)
Allocator(pages) ==
  INSTANCE PageFrameAllocator WITH
    PageCount <- pages, Requests <- {1},
    m_Bitmap <- bitmap, pc <- "idle", count <- 0, index <- 0, found <- 0,
    address <- 0, held <- {},
    reserved <- {f \in DOMAIN bitmap : bitmap[f]}

(* The bitmap that initialize_allocator leaves is one that the page frame   *)
(* allocator's own model starts from: frame 0, whose address is the null    *)
(* pointer, is reserved even if the map calls it usable (kernel.cpp:142).   *)
HandsOver ==
  at = "done" => \E pages \in PageCounts : pages = page_count /\ Allocator(pages)!Init
=============================================================================
