-------------------------- MODULE BootMemory_proofs --------------------------
(***************************************************************************)
(* Proofs about BootMemory, for every memory map that keeps what IsMap     *)
(* says, any size of page, of the low memory and of the allocator object.  *)
(***************************************************************************)
EXTENDS BootMemory, Numbers_proofs

(* Rounding down twice loses at least as much as rounding down once. *)
LEMMA QuotientSum ==
  ASSUME NEW x \in Nat, NEW y \in Nat, NEW d \in Nat \ {0}
  PROVE  x \div d + y \div d <= (x + y) \div d
<1> DEFINE p == x \div d
           q == y \div d
<1>1. p \in Nat /\ d * p <= x /\ q \in Nat /\ d * q <= y
  BY Quotient
<1>2. d * (p + q) = d * p + d * q /\ p + q \in Nat /\ d * p \in Nat /\ d * q \in Nat
  BY <1>1
<1>3. d * (p + q) <= x + y
  BY <1>1, <1>2
<1> QED
  BY <1>2, <1>3, QuotientAbove

(* A larger number has no smaller quotient. *)
LEMMA QuotientMonotone ==
  ASSUME NEW x \in Nat, NEW y \in Nat, NEW d \in Nat \ {0}, x <= y
  PROVE  x \div d <= y \div d
<1>1. x \div d \in Nat /\ d * (x \div d) <= x /\ d * (x \div d) \in Nat
  BY Quotient
<1> QED
  BY <1>1, QuotientAbove
-----------------------------------------------------------------------------
EntryT == [base : Nat, length : Nat \ {0}, type : Types]

(* The frames that FillEntry writes for an entry. *)
Frames(e) == {f \in Nat : /\ e.base \div PageSize <= f
                          /\ f < e.base \div PageSize + e.length \div PageSize}

(* A page, the low memory and the allocator object are not empty. *)
LEMMA PageFact == PageSize \in Nat \ {0} /\ LowFrames \in Nat \ {0} /\ ObjectSize \in Nat \ {0}
BY BootMemoryAssumption

(* An entry whose memory lies before another's has its frames before the    *)
(* other's, if the latter begins with a page.                               *)
LEMMA FramesInOrder ==
  ASSUME NEW d \in EntryT, NEW e \in EntryT, d.base + d.length <= e.base
  PROVE  d.base \div PageSize + d.length \div PageSize <= e.base \div PageSize
<1>1. d.base \in Nat /\ d.length \in Nat /\ e.base \in Nat /\ d.base + d.length \in Nat
  BY DEF EntryT
<1>2. d.base \div PageSize + d.length \div PageSize <= (d.base + d.length) \div PageSize
  BY <1>1, PageFact, QuotientSum
<1>3. (d.base + d.length) \div PageSize <= e.base \div PageSize
  BY <1>1, PageFact, QuotientMonotone
<1>4. /\ d.base \div PageSize \in Nat /\ d.length \div PageSize \in Nat
      /\ e.base \div PageSize \in Nat /\ (d.base + d.length) \div PageSize \in Nat
  BY <1>1, PageFact, Quotient
<1> QED
  BY <1>2, <1>3, <1>4

(* Entries that do not overlap have no frame in common, however they are    *)
(* rounded.                                                                 *)
LEMMA FramesApart ==
  ASSUME NEW d \in EntryT, NEW e \in EntryT, ~Overlap(d, e)
  PROVE  Frames(d) \cap Frames(e) = {}
<1>1. /\ d.base \in Nat /\ d.length \in Nat /\ e.base \in Nat /\ e.length \in Nat
  BY DEF EntryT
<1>2. /\ d.base \div PageSize \in Nat /\ d.length \div PageSize \in Nat
      /\ e.base \div PageSize \in Nat /\ e.length \div PageSize \in Nat
  BY <1>1, PageFact, Quotient
<1>3. d.base + d.length <= e.base \/ e.base + e.length <= d.base
  BY <1>1 DEF Overlap
<1>4. \/ d.base \div PageSize + d.length \div PageSize <= e.base \div PageSize
      \/ e.base \div PageSize + e.length \div PageSize <= d.base \div PageSize
  BY <1>3, FramesInOrder
<1> QED
  BY <1>2, <1>4 DEF Frames

(* The frames an aligned entry touches are those that are filled. *)
LEMMA TouchedFrames ==
  ASSUME NEW e \in EntryT, Aligned(e)
  PROVE  Touched(e.base, e.length) \subseteq Frames(e)
<1> DEFINE p == e.base \div PageSize
           q == e.length \div PageSize
<1>1. e.base \in Nat /\ e.length \in Nat \ {0} /\ e.base % PageSize = 0 /\ e.length % PageSize = 0
  BY DEF EntryT, Aligned
<1>2. p \in Nat /\ q \in Nat /\ e.base = PageSize * p /\ e.length = PageSize * q
  BY <1>1, PageFact, Multiple
<1>3. e.base + e.length = PageSize * (p + q)
  BY <1>2, PageFact, Distribute
<1>4. e.base + e.length - 1 \in Nat /\ e.base + e.length - 1 < PageSize * (p + q) /\ p + q \in Nat
  BY <1>1, <1>2, <1>3
<1>5. (e.base + e.length - 1) \div PageSize < p + q /\ (e.base + e.length - 1) \div PageSize \in Nat
  BY <1>4, PageFact, QuotientBelow, Quotient
<1> QED
  BY <1>2, <1>4, <1>5 DEF Touched, Frames
-----------------------------------------------------------------------------
(* The types, and what Measure finds: whole pages. *)
Measured ==
  /\ map \in Maps /\ map \in Seq(EntryT)
  /\ at \in {"measure", "fill", "own", "place", "done"}
  /\ n \in 1 .. Len(map) + 1
  /\ at \in {"own", "place", "done"} => n = Len(map) + 1
  /\ physical_buffer \in Nat /\ max_length \in Nat /\ memory_end \in Nat
  /\ physical_buffer % PageSize = 0 /\ memory_end % PageSize = 0
  /\ at # "measure" => bitmap \in [0 .. BitmapBits(page_count) - 1 -> BOOLEAN]
  /\ at = "done" => allocator = physical_buffer + memory_end \div 8

(* The entries the second loop has seen keep what it gave them, but for the *)
(* frames that are locked behind it.                                        *)
OwnFrame(f) == f - physical_buffer \div PageSize \in 0 .. page_count \div 8
Locked ==
  at # "measure" =>
    \A j \in 1 .. n - 1 : map[j].type # "usable" =>
      \A f \in Frames(map[j]) \cap DOMAIN bitmap : bitmap[f]
Free ==
  at # "measure" =>
    \A j \in 1 .. n - 1 : map[j].type = "usable" =>
      \A f \in Frames(map[j]) \cap DOMAIN bitmap :
        \/ ~bitmap[f]
        \/ at \in {"own", "place", "done"} /\ f < LowFrames
        \/ at \in {"place", "done"} /\ OwnFrame(f)
Own == at \in {"place", "done"} => \A f \in DOMAIN bitmap : OwnFrame(f) => bitmap[f]

BootInv == Measured /\ Locked /\ Free /\ Own

(* Bits and bytes. *)
LEMMA Eighth ==
  ASSUME NEW x \in Nat
  PROVE  x \div 8 \in Nat /\ x % 8 \in 0 .. 7 /\ x = (8 * (x \div 8)) + (x % 8)
OBVIOUS

(* The bitmap has whole bytes. *)
LEMMA BitsFact ==
  ASSUME memory_end \in Nat
  PROVE  page_count \in Nat /\ page_count \div 8 \in Nat /\ BitmapBits(page_count) \in Nat
<1>1. page_count \in Nat
  BY PageFact, Quotient DEF page_count
<1>2. page_count \div 8 \in Nat
  BY <1>1, Eighth
<1> QED
  BY <1>1, <1>2 DEF BitmapBits

(* Nothing is measured before the first entry. *)
LEMMA InitBootInv == Init => BootInv
<1> SUFFICES ASSUME Init PROVE BootInv
  OBVIOUS
<1>1. map \in Maps /\ map \in Seq(EntryT)
  <2>1. Maps \subseteq Seq(EntryT)
    BY BootMemoryAssumption DEF EntryT
  <2> QED
    BY <2>1 DEF Init
<1>2. 1 \in 1 .. Len(map) + 1
  BY <1>1
<1>3. 0 % PageSize = 0
  BY PageFact
<1> QED
  BY <1>1, <1>2, <1>3 DEF Init, BootInv, Measured, Locked, Free, Own, nullptr

(* What the first loop adds up stays whole pages. *)
LEMMA MultipleSum ==
  ASSUME NEW x \in Nat, NEW y \in Nat, NEW d \in Nat \ {0}, x % d = 0, y % d = 0
  PROVE  (x + y) % d = 0
<1> DEFINE p == x \div d
           q == y \div d
<1>1. p \in Nat /\ q \in Nat /\ x = d * p /\ y = d * q
  BY Multiple
<1>2. x + y = d * (p + q) /\ p + q \in Nat
  BY <1>1, Distribute
<1>3. \A k \in Nat : (d * k) % d = 0
  OBVIOUS
<1> QED
  BY <1>2, <1>3

(* The end and the largest usable entry are those of the entries seen. *)
LEMMA MeasureKeeps == BootInv /\ Measure => BootInv'
<1> SUFFICES ASSUME BootInv, Measure PROVE BootInv'
  OBVIOUS
<1>1. /\ at = "measure" /\ at' = "measure" /\ n \in 1 .. Len(map) /\ n' = n + 1 /\ map' = map
      /\ map \in Seq(EntryT) /\ map \in Maps
  BY DEF BootInv, Measured, Measure
<1>2. map[n] \in EntryT
  BY <1>1
<1>3. /\ physical_buffer' \in Nat /\ max_length' \in Nat /\ memory_end' \in Nat
      /\ physical_buffer' % PageSize = 0 /\ memory_end' % PageSize = 0
  <2>1. CASE IsMemory(map[n])
    <3>1. Aligned(map[n])
      BY <1>1, <2>1, BootMemoryAssumption DEF IsMap
    <3>2. map[n].base \in Nat /\ map[n].length \in Nat
      BY <1>2 DEF EntryT
    <3>3. (map[n].base + map[n].length) % PageSize = 0 /\ map[n].base % PageSize = 0
      BY <3>1, <3>2, PageFact, MultipleSum DEF Aligned
    <3>4. /\ memory_end' \in {memory_end, map[n].base + map[n].length}
          /\ max_length' \in {max_length, map[n].length}
          /\ physical_buffer' \in {physical_buffer, map[n].base}
      BY <2>1 DEF Measure, LargerOf
    <3> QED
      BY <3>2, <3>3, <3>4 DEF BootInv, Measured
  <2>2. CASE ~IsMemory(map[n])
    BY <2>2 DEF Measure, found, BootInv, Measured
  <2> QED
    BY <2>1, <2>2
<1>4. n' \in 1 .. Len(map) + 1
  BY <1>1
<1> QED
  BY <1>1, <1>3, <1>4 DEF BootInv, Measured, Locked, Free, Own

(* Filling starts from a clear bitmap. *)
LEMMA ClearBitmapKeeps == BootInv /\ ClearBitmap => BootInv'
<1> SUFFICES ASSUME BootInv, ClearBitmap PROVE BootInv'
  OBVIOUS
<1>1. /\ at' = "fill" /\ n' = 1 /\ map' = map /\ UNCHANGED <<physical_buffer, max_length, memory_end>>
      /\ bitmap' = [i \in 0 .. BitmapBits(page_count) - 1 |-> FALSE]
  BY DEF ClearBitmap, found
<1>2. Measured'
  BY <1>1 DEF BootInv, Measured, page_count
<1> QED
  BY <1>1, <1>2 DEF BootInv, Locked, Free, Own

(* An entry locks its frames, or frees its own and no other. *)
LEMMA FillEntryKeeps == BootInv /\ FillEntry => BootInv'
<1> SUFFICES ASSUME BootInv, FillEntry PROVE BootInv'
  OBVIOUS
<1> DEFINE e == map[n]
<1>1. /\ at = "fill" /\ at' = "fill" /\ n \in 1 .. Len(map) /\ n' = n + 1 /\ n' \in 1 .. Len(map) + 1
      /\ UNCHANGED <<map, physical_buffer, max_length, memory_end>>
      /\ map \in Seq(EntryT) /\ map \in Maps
      /\ bitmap \in [0 .. BitmapBits(page_count) - 1 -> BOOLEAN]
      /\ bitmap' = FillBits(bitmap, e.base \div PageSize, e.length \div PageSize, State(e))
  BY DEF BootInv, Measured, FillEntry, found
<1>2. \A j \in 1 .. Len(map) : map[j] \in EntryT
  BY <1>1
<1>3. BitmapBits(page_count) \in Nat
  BY <1>1, PageFact, BitsFact DEF BootInv, Measured
<1>4. /\ bitmap' \in [0 .. BitmapBits(page_count) - 1 -> BOOLEAN]
      /\ \A f \in DOMAIN bitmap : (f \in Frames(e) => bitmap'[f] = State(e))
                               /\ (f \notin Frames(e) => bitmap'[f] = bitmap[f])
  <2>1. e.base \div PageSize \in Nat /\ e.length \div PageSize \in Nat /\ State(e) \in BOOLEAN
    BY <1>1, <1>2, PageFact, Quotient DEF EntryT, State
  <2>2. \A f \in Nat : f \in Frames(e) <=> /\ e.base \div PageSize <= f
                                          /\ f < e.base \div PageSize + e.length \div PageSize
    BY DEF Frames
  <2>3. bitmap' = FillBits(bitmap, e.base \div PageSize, e.length \div PageSize, State(e))
    BY <1>1
  <2>4. bitmap \in [0 .. BitmapBits(page_count) - 1 -> BOOLEAN] /\ DOMAIN bitmap \subseteq Nat
    BY <1>1, <1>3
  <2> HIDE DEF e
  <2> QED
    BY <2>1, <2>2, <2>3, <2>4 DEF FillBits
<1>5. Measured'
  BY <1>1, <1>4 DEF BootInv, Measured, page_count
<1>6. /\ n' - 1 = n
      /\ \A j \in 1 .. n - 1 : j # n /\ j \in 1 .. Len(map)
      /\ \A j \in 1 .. n : j \in 1 .. n - 1 \/ j = n
      /\ DOMAIN bitmap' = DOMAIN bitmap
      /\ \A j : map'[j] = map[j]
  BY <1>1, <1>4
<1>7. \A j \in 1 .. n - 1 :
        map[j].type = "usable" \/ e.type = "usable" => Frames(map[j]) \cap Frames(e) = {}
  <2> SUFFICES ASSUME NEW j \in 1 .. n - 1, map[j].type = "usable" \/ e.type = "usable"
               PROVE  Frames(map[j]) \cap Frames(e) = {}
    OBVIOUS
  <2>1. ~Overlap(map[j], e) \/ ~Overlap(e, map[j])
    BY <1>1, <1>6, BootMemoryAssumption DEF IsMap
  <2>2. map[j] \in EntryT /\ e \in EntryT
    BY <1>1, <1>2, <1>6
  <2> QED
    BY <2>1, <2>2, FramesApart
<1>8. Locked'
  <2> SUFFICES ASSUME NEW j \in 1 .. n, map[j].type # "usable", NEW f \in Frames(map[j]) \cap DOMAIN bitmap
               PROVE  bitmap'[f]
    BY <1>1, <1>6 DEF Locked
  <2>1. CASE f \in Frames(e)
    <3>1. e.type # "usable"
      BY <1>6, <1>7, <2>1
    <3> QED
      BY <1>4, <2>1, <3>1 DEF State
  <2>2. CASE f \notin Frames(e)
    <3>1. j \in 1 .. n - 1
      BY <1>6, <2>2
    <3> QED
      BY <1>1, <1>4, <2>2, <3>1 DEF BootInv, Locked
  <2> QED
    BY <2>1, <2>2
<1>9. Free'
  <2> SUFFICES ASSUME NEW j \in 1 .. n, map[j].type = "usable", NEW f \in Frames(map[j]) \cap DOMAIN bitmap
               PROVE  ~bitmap'[f]
    BY <1>1, <1>6 DEF Free
  <2>1. CASE f \in Frames(e)
    <3>1. j = n
      BY <1>6, <1>7, <2>1
    <3> QED
      BY <1>4, <2>1, <3>1 DEF State
  <2>2. CASE f \notin Frames(e)
    <3>1. j \in 1 .. n - 1
      BY <1>6, <2>2
    <3> QED
      BY <1>1, <1>4, <2>2, <3>1 DEF BootInv, Free
  <2> QED
    BY <2>1, <2>2
<1> QED
  BY <1>1, <1>5, <1>8, <1>9 DEF BootInv, Own

(* The low memory is locked on top of the entries. *)
LEMMA FillLowKeeps == BootInv /\ FillLow => BootInv'
<1> SUFFICES ASSUME BootInv, FillLow PROVE BootInv'
  OBVIOUS
<1>1. /\ at = "fill" /\ at' = "own" /\ n = Len(map) + 1
      /\ UNCHANGED <<map, n, physical_buffer, max_length, memory_end>>
      /\ bitmap \in [0 .. BitmapBits(page_count) - 1 -> BOOLEAN]
      /\ bitmap' = FillBits(bitmap, 0, LowFrames, TRUE)
  BY DEF BootInv, Measured, FillLow, found
<1>2. BitmapBits(page_count) \in Nat
  BY <1>1, PageFact, BitsFact DEF BootInv, Measured
<1>3. /\ bitmap' \in [0 .. BitmapBits(page_count) - 1 -> BOOLEAN]
      /\ DOMAIN bitmap' = DOMAIN bitmap
      /\ \A f \in DOMAIN bitmap : (f < LowFrames => bitmap'[f] = TRUE)
                               /\ (~(f < LowFrames) => bitmap'[f] = bitmap[f])
  <2> DEFINE low == 0 .. LowFrames - 1
  <2>1. \A f \in Nat : f \in low <=> 0 <= f /\ f < 0 + LowFrames
    BY PageFact
  <2> DEFINE locked == TRUE
  <2>2. bitmap' = FillBits(bitmap, 0, LowFrames, locked) /\ locked \in BOOLEAN
    BY <1>1
  <2>3. bitmap \in [0 .. BitmapBits(page_count) - 1 -> BOOLEAN] /\ DOMAIN bitmap \subseteq Nat
    BY <1>1, <1>2
  <2> HIDE DEF low, locked
  <2>4. /\ bitmap' \in [0 .. BitmapBits(page_count) - 1 -> BOOLEAN]
        /\ DOMAIN bitmap' = DOMAIN bitmap
        /\ \A f \in DOMAIN bitmap : (f \in low => bitmap'[f] = locked)
                               /\ (f \notin low => bitmap'[f] = bitmap[f])
    BY <2>1, <2>2, <2>3, PageFact DEF FillBits
  <2> QED
    BY <2>1, <2>3, <2>4, PageFact DEF locked
<1>4. Measured'
  BY <1>1, <1>3 DEF BootInv, Measured, page_count
<1>5. Locked' /\ Own'
  BY <1>1, <1>3 DEF BootInv, Locked, Own
<1>6. Free'
  BY <1>1, <1>3 DEF BootInv, Free
<1> QED
  BY <1>4, <1>5, <1>6 DEF BootInv

(* The frames of the bitmap and the allocator are locked on top of all. *)
LEMMA FillOwnKeeps == BootInv /\ FillOwn => BootInv'
<1> SUFFICES ASSUME BootInv, FillOwn PROVE BootInv'
  OBVIOUS
<1>1. /\ at = "own" /\ at' = "place" /\ UNCHANGED <<map, n, physical_buffer, max_length, memory_end>>
      /\ bitmap \in [0 .. BitmapBits(page_count) - 1 -> BOOLEAN]
      /\ bitmap' = FillBits(bitmap, physical_buffer \div PageSize, OwnFrameCount, TRUE)
      /\ physical_buffer \in Nat /\ memory_end \in Nat
  BY DEF BootInv, Measured, FillOwn, found
<1>2. physical_buffer \div PageSize \in Nat /\ page_count \in Nat /\ page_count \div 8 \in Nat
  BY <1>1, PageFact, Quotient DEF page_count
<1>3. BitmapBits(page_count) \in Nat
  BY <1>1, PageFact, BitsFact DEF BootInv, Measured
<1>4. /\ bitmap' \in [0 .. BitmapBits(page_count) - 1 -> BOOLEAN]
      /\ DOMAIN bitmap' = DOMAIN bitmap
      /\ \A f \in DOMAIN bitmap : (OwnFrame(f) => bitmap'[f] = TRUE)
                               /\ (~OwnFrame(f) => bitmap'[f] = bitmap[f])
  <2> DEFINE own == {f \in Nat : OwnFrame(f)}
  <2>1. \A f \in Nat : f \in own <=> /\ physical_buffer \div PageSize <= f
                                    /\ f < physical_buffer \div PageSize + OwnFrameCount
    BY <1>2 DEF OwnFrame, OwnFrameCount
  <2>2. \A f \in Nat : f \in own <=> OwnFrame(f)
    OBVIOUS
  <2>3. OwnFrameCount \in Nat
    BY <1>2 DEF OwnFrameCount
  <2> DEFINE locked == TRUE
  <2>4. /\ bitmap' = FillBits(bitmap, physical_buffer \div PageSize, OwnFrameCount, locked)
        /\ locked \in BOOLEAN
    BY <1>1
  <2>5. bitmap \in [0 .. BitmapBits(page_count) - 1 -> BOOLEAN] /\ DOMAIN bitmap \subseteq Nat
    BY <1>1, <1>3
  <2> HIDE DEF own, locked
  <2>6. /\ bitmap' \in [0 .. BitmapBits(page_count) - 1 -> BOOLEAN]
        /\ DOMAIN bitmap' = DOMAIN bitmap
        /\ \A f \in DOMAIN bitmap : (f \in own => bitmap'[f] = locked)
                               /\ (f \notin own => bitmap'[f] = bitmap[f])
    BY <1>2, <2>1, <2>3, <2>4, <2>5 DEF FillBits
  <2> QED
    BY <2>2, <2>5, <2>6 DEF locked
<1>5. Measured'
  BY <1>1, <1>4 DEF BootInv, Measured, page_count
<1>6. \A f : OwnFrame(f)' <=> OwnFrame(f)
  BY <1>1 DEF OwnFrame, page_count
<1>7. Locked'
  BY <1>1, <1>4 DEF BootInv, Locked
<1>8. Free'
  BY <1>1, <1>4, <1>6 DEF BootInv, Free
<1>9. Own'
  BY <1>1, <1>4, <1>6 DEF Own
<1> QED
  BY <1>5, <1>7, <1>8, <1>9 DEF BootInv

(* Every step keeps the invariant. *)
LEMMA NextBootInv == BootInv /\ [Next]_vars => BootInv'
<1> SUFFICES ASSUME BootInv, [Next]_vars PROVE BootInv'
  OBVIOUS
<1>1. CASE PlaceAllocator \/ UNCHANGED vars
  <2>1. /\ UNCHANGED <<map, n, physical_buffer, max_length, memory_end, bitmap>>
        /\ \/ at' = at /\ allocator' = allocator
           \/ /\ at = "place" /\ at' = "done"
              /\ allocator' = physical_buffer + memory_end \div 8
    BY <1>1 DEF PlaceAllocator, vars, found
  <2>2. Measured'
    BY <2>1 DEF BootInv, Measured, page_count
  <2>3. Locked' /\ Free' /\ Own'
    BY <2>1 DEF BootInv, Locked, Free, Own, OwnFrame, page_count
  <2> QED
    BY <2>2, <2>3 DEF BootInv
<1> QED
  BY <1>1, MeasureKeeps, ClearBitmapKeeps, FillEntryKeeps, FillLowKeeps, FillOwnKeeps DEF Next

(* The invariant of initialize_allocator: what the second loop has written   *)
(* for an entry stays, but for what is locked behind it, from any map.       *)
THEOREM BootInvariance == Spec => []BootInv
<1> QED
  BY InitBootInv, NextBootInv, PTL DEF Spec
-----------------------------------------------------------------------------
(* An eighth of c pages of 8*w bytes is c \div 8 pages and less than another:*)
(* what is left of the last page holds an object of at most w bytes.         *)
LEMMA EighthOfPages ==
  ASSUME NEW w \in Nat \ {0}, NEW c \in Nat, NEW o \in Nat \ {0}, o <= w
  PROVE  LET k == c \div 8  e == ((8 * w) * c) \div 8
         IN  k \in Nat /\ e \in Nat /\ (8 * w) * k <= e /\ e + o <= (8 * w) * (k + 1)
<1> DEFINE k == c \div 8
           r == c % 8
           e == ((8 * w) * c) \div 8
<1>1. k \in Nat /\ r \in 0 .. 7 /\ c = 8 * k + r
  BY Eighth
<1>2. w * c \in Nat /\ (8 * w) * c = 8 * (w * c)
  OBVIOUS
<1>3. \A x \in Nat : (8 * x) \div 8 = x
  OBVIOUS
<1>4. e = w * c
  BY <1>2, <1>3
<1> HIDE DEF k, r, e
<1>5. w * (8 * k + r) = (8 * w) * k + w * r /\ (8 * w) * k \in Nat /\ w * r \in Nat
  BY <1>1
<1>6. w * r <= 7 * w
  BY <1>1
<1>7. (8 * w) * (k + 1) = (8 * w) * k + 8 * w
  BY <1>1
<1>8. e = (8 * w) * k + w * r
  BY <1>1, <1>4, <1>5
<1>9. k \in Nat /\ e \in Nat /\ (8 * w) * k <= e /\ e + o <= (8 * w) * (k + 1)
  BY <1>1, <1>5, <1>6, <1>7, <1>8
<1> QED
  BY <1>9 DEF k, e

(* What is touched between two multiples of the page size. *)
LEMMA TouchedBetween ==
  ASSUME NEW x \in Nat, NEW l \in Nat \ {0}, NEW a \in Nat, NEW b \in Nat,
         PageSize * a <= x, x + l <= PageSize * b
  PROVE  \A f \in Touched(x, l) : f \in Nat /\ a <= f /\ f < b
<1>1. x + l - 1 \in Nat /\ PageSize * b \in Nat /\ x + l - 1 < PageSize * b
  BY PageFact
<1>2. a <= x \div PageSize /\ x \div PageSize \in Nat
  BY PageFact, QuotientAbove, Quotient
<1>3. (x + l - 1) \div PageSize < b /\ (x + l - 1) \div PageSize \in Nat
  BY <1>1, PageFact, QuotientBelow, Quotient
<1> QED
  BY <1>2, <1>3 DEF Touched

(* In the end the frames of the bitmap and the allocator are locked. *)
LEMMA OwnMemory == BootInv => OwnMemoryLocked
<1> SUFFICES ASSUME BootInv, at = "done" PROVE OwnMemoryLocked
  BY DEF OwnMemoryLocked
<1> DEFINE a == physical_buffer \div PageSize
           k == page_count \div 8
           w == PageSize \div 8
<1>1. /\ physical_buffer \in Nat /\ physical_buffer % PageSize = 0 /\ max_length \in Nat
      /\ memory_end \in Nat /\ memory_end % PageSize = 0
      /\ allocator = physical_buffer + memory_end \div 8
      /\ bitmap \in [0 .. BitmapBits(page_count) - 1 -> BOOLEAN]
  BY DEF BootInv, Measured
<1>2. a \in Nat /\ physical_buffer = PageSize * a
  BY <1>1, PageFact, Multiple
<1>3. page_count \in Nat /\ memory_end = PageSize * page_count
  BY <1>1, PageFact, Multiple DEF page_count
<1>4. k \in Nat /\ BitmapBytes = k
  BY <1>3, Eighth DEF BitmapBytes, BitmapBits
<1>5. w \in Nat \ {0} /\ PageSize = 8 * w /\ ObjectSize <= w
  BY BootMemoryAssumption, Multiple
<1> HIDE DEF a, k, w
<1>6. /\ memory_end \div 8 \in Nat /\ PageSize * k <= memory_end \div 8
      /\ memory_end \div 8 + ObjectSize <= PageSize * (k + 1)
  BY <1>3, <1>5, PageFact, EighthOfPages DEF k
<1>7. /\ PageSize * (a + k) = PageSize * a + PageSize * k
      /\ PageSize * (a + (k + 1)) = PageSize * a + PageSize * (k + 1)
      /\ PageSize * a \in Nat /\ PageSize * k \in Nat /\ PageSize * (k + 1) \in Nat
  BY <1>2, <1>4, PageFact, Distribute
<1>8. /\ allocator \in Nat /\ PageSize * (a + k) <= allocator
      /\ allocator + ObjectSize <= PageSize * (a + (k + 1))
  <2> DEFINE eighth == memory_end \div 8
             pages == PageSize * a
             low == PageSize * k
             high == PageSize * (k + 1)
  <2>1. /\ allocator = pages + eighth /\ eighth \in Nat /\ pages \in Nat
        /\ low <= eighth /\ eighth + ObjectSize <= high /\ low \in Nat /\ high \in Nat
    BY <1>1, <1>2, <1>6, <1>7
  <2> HIDE DEF eighth, pages, low, high
  <2>2. /\ allocator \in Nat /\ pages + low <= allocator
        /\ allocator + ObjectSize <= pages + high
    BY <2>1, PageFact
  <2> QED
    BY <2>2, <1>7 DEF pages, low, high
<1>9. \A f \in Touched(allocator, ObjectSize) : f \in Nat /\ a + k <= f /\ f < a + (k + 1)
  BY <1>2, <1>4, <1>8, PageFact, TouchedBetween
<1>10. \A f \in Touched(physical_buffer, LargerOf(1, BitmapBytes)) :
         f \in Nat /\ a <= f /\ f < a + (k + 1)
  <2> DEFINE l == LargerOf(1, k)
  <2>1. l \in Nat \ {0} /\ l <= k + 1
    BY <1>4 DEF LargerOf
  <2>2. k + 1 <= PageSize * (k + 1)
    BY <1>4, PageFact
  <2> HIDE DEF l
  <2>3. PageSize * a <= physical_buffer /\ physical_buffer + l <= PageSize * (a + (k + 1))
    BY <1>2, <1>4, <1>7, <2>1, <2>2
  <2>4. \A f \in Touched(physical_buffer, l) : f \in Nat /\ a <= f /\ f < a + (k + 1)
    BY <1>1, <1>2, <1>4, <2>1, <2>3, TouchedBetween
  <2> QED
    BY <1>4, <2>4 DEF l
<1>11. \A f \in OwnFrames : OwnFrame(f)
  <2>1. \A f \in Nat : a <= f /\ f < a + (k + 1) => f - a \in 0 .. k
    BY <1>2, <1>4
  <2>2. \A f \in Nat : a + k <= f => a <= f
    BY <1>2, <1>4
  <2> QED
    BY <1>9, <1>10, <2>1, <2>2 DEF OwnFrames, OwnFrame, a, k
<1>12. \A f \in OwnFrames \cap DOMAIN bitmap : bitmap[f]
  BY <1>11 DEF BootInv, Own
<1>13. max_length >= PageSize * (k + 1) => allocator + ObjectSize <= physical_buffer + max_length
  <2> DEFINE own == PageSize * (k + 1)
  <2>1. own \in Nat /\ allocator + ObjectSize <= physical_buffer + own
    BY <1>2, <1>7, <1>8
  <2>2. physical_buffer \in Nat /\ max_length \in Nat /\ allocator + ObjectSize \in Nat
    BY <1>1, <1>8, PageFact
  <2> HIDE DEF own
  <2>3. max_length >= own => allocator + ObjectSize <= physical_buffer + max_length
    BY <2>1, <2>2
  <2> QED
    BY <2>3 DEF own
<1> QED
  BY <1>12, <1>13 DEF OwnMemoryLocked, k

(* The allocator never hands out the frames of its own bitmap and object     *)
(* (kernel.cpp:131-146), for every size of memory and every map.             *)
THEOREM OwnMemoryStaysLocked == Spec => []OwnMemoryLocked
<1> QED
  BY BootInvariance, OwnMemory, PTL

(* In the end what an aligned entry says is in use is locked. *)
LEMMA InUse == BootInv => InUseStaysLocked
<1> SUFFICES ASSUME BootInv, at = "done", NEW e \in Entries, Aligned(e), e.type # "usable",
                    NEW f \in Touched(e.base, e.length) \cap DOMAIN bitmap
             PROVE  bitmap[f]
  BY DEF InUseStaysLocked
<1>1. n - 1 = Len(map) /\ map \in Seq(EntryT)
  BY DEF BootInv, Measured
<1>2. PICK j \in 1 .. n - 1 : e = map[j]
  BY <1>1 DEF Entries
<1>3. e \in EntryT
  BY <1>1, <1>2
<1>4. f \in Frames(e)
  BY <1>3, TouchedFrames
<1> QED
  BY <1>2, <1>4 DEF BootInv, Locked

(* No frame of memory in use is ever free when the allocator starts          *)
(* (kernel.cpp:137-140).                                                     *)
THEOREM InUseIsLocked == Spec => []InUseStaysLocked
<1> QED
  BY BootInvariance, InUse, PTL

(* In the end usable memory is free, but for the low and the own frames. *)
LEMMA Usable == BootInv => UsableIsFree
<1> SUFFICES ASSUME BootInv PROVE UsableIsFree
  OBVIOUS
<1>1. BootTypeOK
  BY DEF BootInv, Measured, BootTypeOK
<1>2. ASSUME at = "done", NEW e \in Entries, e.type = "usable", NEW f \in Touched(e.base, e.length)
      PROVE  \/ f < LowFrames
             \/ f >= BitmapBits(page_count)
             \/ f - physical_buffer \div PageSize \in 0 .. page_count \div 8
             \/ ~bitmap[f]
  <2>1. n - 1 = Len(map) /\ map \in Seq(EntryT) /\ map \in Maps /\ memory_end \in Nat
        /\ bitmap \in [0 .. BitmapBits(page_count) - 1 -> BOOLEAN]
    BY <1>2 DEF BootInv, Measured
  <2>2. PICK j \in 1 .. n - 1 : e = map[j]
    BY <1>2, <2>1 DEF Entries
  <2>3. e \in EntryT
    BY <2>1, <2>2
  <2>4. Aligned(e)
    BY <1>2, <2>1, <2>2, BootMemoryAssumption DEF IsMap, IsMemory
  <2>5. f \in Frames(e) /\ f \in Nat
    BY <1>2, <2>3, <2>4, TouchedFrames DEF Frames
  <2>6. f \in DOMAIN bitmap \/ f >= BitmapBits(page_count)
    BY <2>1, <2>5, BitsFact
  <2> QED
    BY <1>2, <2>2, <2>5, <2>6 DEF BootInv, Free, OwnFrame
<1> QED
  BY <1>1, <1>2 DEF UsableIsFree

(* Every frame of usable memory is free when the allocator starts, but the   *)
(* low ones, its own and those without a bit (kernel.cpp:136-143).           *)
THEOREM UsableFramesAreFree == Spec => []UsableIsFree
<1> QED
  BY BootInvariance, Usable, PTL
-----------------------------------------------------------------------------
(* The first loop has the end of the memory seen so far, and from FillLow on *)
(* the low frames are locked.                                                *)
Ends ==
  /\ memory_end = 0 \/ \E j \in 1 .. Len(map) : IsMemory(map[j]) /\ map[j].base + map[j].length = memory_end
  /\ \A j \in 1 .. Len(map) :
       (at # "measure" \/ j < n) /\ IsMemory(map[j]) => map[j].base + map[j].length <= memory_end
LowLocked == at \in {"own", "place", "done"} => \A f \in DOMAIN bitmap : f < LowFrames => bitmap[f]

HandInv == Ends /\ LowLocked

(* Nothing has been seen at first. *)
LEMMA InitHandInv == Init => HandInv
<1> SUFFICES ASSUME Init PROVE HandInv
  OBVIOUS
<1>1. n = 1 /\ at = "measure" /\ memory_end = 0
  BY DEF Init
<1>2. \A j \in 1 .. Len(map) : ~(j < n)
  BY <1>1
<1> QED
  BY <1>1, <1>2 DEF HandInv, Ends, LowLocked

(* Measure takes one more entry into account. *)
LEMMA MeasureHand == BootInv /\ HandInv /\ Measure => HandInv'
<1> SUFFICES ASSUME BootInv, HandInv, Measure PROVE HandInv'
  OBVIOUS
<1>1. /\ at = "measure" /\ at' = "measure" /\ n \in 1 .. Len(map) /\ n' = n + 1 /\ map' = map
      /\ map \in Seq(EntryT) /\ memory_end \in Nat
  BY DEF BootInv, Measured, Measure
<1> DEFINE End(j) == map[j].base + map[j].length
<1>2. \A j \in 1 .. Len(map) : End(j) \in Nat
  <2>1. \A j \in 1 .. Len(map) : map[j] \in EntryT
    BY <1>1
  <2> QED
    BY <2>1 DEF EntryT
<1>3. \A j \in 1 .. Len(map) : j < n' => j < n \/ j = n
  BY <1>1
<1>4. CASE IsMemory(map[n])
  <2>1. memory_end' = IF memory_end < End(n) THEN End(n) ELSE memory_end
    BY <1>4 DEF Measure, LargerOf
  <2> HIDE DEF End
  <2>2. memory_end' \in {memory_end, End(n)} /\ memory_end <= memory_end' /\ End(n) <= memory_end'
    BY <1>1, <1>2, <2>1
  <2>3. \A j \in 1 .. Len(map) : j < n /\ IsMemory(map[j]) => End(j) <= memory_end
    BY <1>1 DEF HandInv, Ends, End
  <2>4. \A j \in 1 .. Len(map) : j < n' /\ IsMemory(map[j]) => End(j) <= memory_end'
    BY <1>1, <1>2, <1>3, <2>2, <2>3
  <2>5. memory_end' = 0 \/ \E j \in 1 .. Len(map) : IsMemory(map[j]) /\ End(j) = memory_end'
    BY <1>1, <1>4, <2>2 DEF HandInv, Ends, End
  <2>6. Ends'
    BY <1>1, <2>4, <2>5 DEF Ends, End
  <2> QED
    BY <1>1, <2>6 DEF HandInv, LowLocked
<1>5. CASE ~IsMemory(map[n])
  <2>1. memory_end' = memory_end
    BY <1>5 DEF Measure, found
  <2> QED
    BY <1>1, <1>3, <1>5, <2>1 DEF HandInv, Ends, LowLocked
<1> QED
  BY <1>4, <1>5

(* The steps that leave the first loop behind. *)
LEMMA NextHand == BootInv /\ HandInv /\ [Next]_vars => HandInv'
<1> SUFFICES ASSUME BootInv, HandInv, [Next]_vars, ~Measure PROVE HandInv'
  BY MeasureHand
<1>1. map' = map /\ memory_end' = memory_end
  BY DEF Next, ClearBitmap, FillEntry, FillLow, FillOwn, PlaceAllocator, vars, found
<1>2. at' # "measure" => at # "measure" \/ n > Len(map)
  BY DEF Next, ClearBitmap, FillEntry, FillLow, FillOwn, PlaceAllocator, vars
<1>3. at' = "measure" => n' = n /\ at = "measure"
  BY DEF Next, ClearBitmap, FillEntry, FillLow, FillOwn, PlaceAllocator, vars
<1>4. n \in Nat /\ Len(map) \in Nat
  BY DEF BootInv, Measured
<1>5. Ends'
  BY <1>1, <1>2, <1>3, <1>4 DEF HandInv, Ends
<1>6. LowLocked'
  <2>1. CASE FillLow
    <3> DEFINE locked == TRUE
    <3>1. bitmap' = FillBits(bitmap, 0, LowFrames, locked)
      BY <2>1 DEF FillLow
    <3>2. DOMAIN bitmap \subseteq Nat
      <4>1. bitmap \in [0 .. BitmapBits(page_count) - 1 -> BOOLEAN] /\ memory_end \in Nat
        BY <2>1 DEF FillLow, BootInv, Measured
      <4> QED
        BY <4>1, BitsFact
    <3> HIDE DEF locked
    <3>3. DOMAIN bitmap' = DOMAIN bitmap /\ \A f \in DOMAIN bitmap : f < LowFrames => bitmap'[f] = locked
      BY <3>1, <3>2, PageFact DEF FillBits
    <3> QED
      BY <3>3 DEF LowLocked, locked
  <2>2. CASE FillOwn
    <3>1. /\ bitmap' = FillBits(bitmap, physical_buffer \div PageSize, OwnFrameCount, TRUE) /\ at = "own"
      BY <2>2 DEF FillOwn
    <3> QED
      BY <3>1 DEF HandInv, LowLocked, FillBits
  <2>3. CASE ~FillLow /\ ~FillOwn
    BY <2>3 DEF Next, ClearBitmap, FillEntry, PlaceAllocator, vars, HandInv, LowLocked
  <2> QED
    BY <2>1, <2>2, <2>3
<1> QED
  BY <1>5, <1>6 DEF HandInv

(* The bitmap has a bit for every frame of whole bytes, the null one among   *)
(* them, and that one is locked.                                             *)
LEMMA Hands == BootInv /\ HandInv => HandsOver
<1> SUFFICES ASSUME BootInv, HandInv, at = "done" PROVE HandsOver
  BY DEF HandsOver
<1>1. /\ map \in Maps /\ map \in Seq(EntryT) /\ memory_end \in Nat
      /\ bitmap \in [0 .. BitmapBits(page_count) - 1 -> BOOLEAN]
  BY DEF BootInv, Measured
<1>2. PICK pages \in PageCounts : pages >= 8 /\ EndsAt(map, PageSize * pages)
  BY <1>1, BootMemoryAssumption
<1>3. pages \in Nat /\ PageSize * pages \in Nat /\ PageSize * pages # 0
  BY <1>2, PageFact, BootMemoryAssumption
<1>4. memory_end = PageSize * pages
  <2>1. PageSize * pages <= memory_end
    BY <1>2 DEF EndsAt, HandInv, Ends
  <2>2. memory_end <= PageSize * pages
    BY <1>1, <1>3, <2>1, <1>2 DEF EndsAt, HandInv, Ends
  <2> QED
    BY <1>1, <1>3, <2>1, <2>2
<1>5. page_count = pages
  <2>1. memory_end = PageSize * pages + 0 /\ 0 \in 0 .. PageSize - 1
    BY <1>3, <1>4, PageFact
  <2> QED
    BY <1>1, <1>3, <2>1, PageFact, QuotientIs DEF page_count
<1>6. 1 <= pages \div 8 /\ pages \div 8 \in Nat
  BY <1>2, <1>3
<1>7. DOMAIN bitmap = 0 .. BitmapBits(pages) - 1 /\ 0 \in DOMAIN bitmap
  BY <1>1, <1>5, <1>6 DEF BitmapBits
<1>8. bitmap[0]
  BY <1>7, PageFact DEF HandInv, LowLocked
<1>9. Allocator(pages)!Init
  <2> DEFINE D == DOMAIN bitmap
             locked == {f \in D : bitmap[f]}
  <2>1. Allocator(pages)!Frames = D
    BY <1>7 DEF Allocator!Frames, Allocator!SizeInBits, Allocator!BitmapBits, BitmapBits
  <2>2. bitmap \in [D -> BOOLEAN]
    BY <1>1
  <2>3. locked \subseteq D /\ 0 \in locked
    BY <1>7, <1>8
  <2>4. bitmap = [f \in D |-> f \in locked]
    <3>1. ASSUME NEW f \in D PROVE bitmap[f] = (f \in locked)
      <4>1. bitmap[f] = TRUE \/ bitmap[f] = FALSE
        BY <2>2
      <4>2. CASE bitmap[f] = TRUE
        <5>1. f \in locked
          BY <4>2
        <5> HIDE DEF locked
        <5> QED
          BY <4>2, <5>1, Zenon
      <4>3. CASE bitmap[f] = FALSE
        <5>1. f \notin locked
          BY <4>3
        <5> HIDE DEF locked
        <5>2. (f \in locked) = FALSE
          BY <5>1
        <5> QED
          BY <4>3, <5>2, Zenon
      <4> QED
        BY <4>1, <4>2, <4>3
    <3> HIDE DEF locked
    <3> QED
      BY <2>2, <3>1, Zenon
  <2>5. locked \in {r \in SUBSET D : Allocator(pages)!LowReserve(r)}
    BY <2>3 DEF Allocator!LowReserve
  <2> QED
    BY <2>1, <2>4, <2>5, Zenon DEF Allocator!Init, Allocator!nullptr
<1> QED
  BY <1>5, <1>9 DEF HandsOver

(* The allocator is handed a bitmap that its own model starts from: one bit  *)
(* for every frame of whole bytes and the null frame locked                  *)
(* (kernel.cpp:132-145), from any map.                                       *)
THEOREM AllocatorIsHandedOver == Spec => []HandsOver
<1>1. BootInv /\ HandInv /\ [Next]_vars => (BootInv /\ HandInv)'
  BY NextBootInv, NextHand
<1> QED
  BY <1>1, InitBootInv, InitHandInv, Hands, PTL DEF Spec
=============================================================================
