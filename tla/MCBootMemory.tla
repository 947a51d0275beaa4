---------------------------- MODULE MCBootMemory ----------------------------
(***************************************************************************)
(* Pages of eight bytes.  Five regions that are usable, reclaimable,        *)
(* reserved or not listed at all, in two layouts: one that ends on a whole  *)
(* byte of the bitmap and one that does not; and a reserved entry that is   *)
(* not aligned, over whatever is not memory.                                *)
(***************************************************************************)
EXTENDS BootMemory, SequencesExt

Layouts == {<<0, 1, 3, 10, 13, 24>>, <<0, 2, 4, 8, 16, 23>>, <<0, 1, 2, 12, 15, 31>>}
MCKinds == Types \cup {"hole"}

(* An entry for each region that is listed, in the order of their bases. *)
EntryOf(layout, k) ==
  [base |-> PageSize * layout[k[1]],
   length |-> PageSize * (layout[k[1] + 1] - layout[k[1]]), type |-> k[2]]
MapOf(layout, kinds) ==
  LET listed == SelectSeq([i \in 1 .. 5 |-> <<i, kinds[i]>>], LAMBDA k : k[2] # "hole")
  IN  [j \in 1 .. Len(listed) |-> EntryOf(layout, listed[j])]

(* Some of it usable, and at least eight frames. *)
HasMemory(m) ==
  /\ \E i \in 1 .. Len(m) : m[i].type = "usable"
  /\ \E i \in 1 .. Len(m) : IsMemory(m[i]) /\ m[i].base + m[i].length >= 8 * PageSize
AlignedMaps == {MapOf(l, ks) : l \in Layouts, ks \in [1 .. 5 -> MCKinds]}

(* Firmware reports ranges such as these between two regions of memory. *)
Stray == [base |-> 8 * 4 + 3, length |-> 8 * 2 + 5, type |-> "reserved"]
Overlaps(e) == e.base < Stray.base + Stray.length /\ Stray.base < e.base + e.length
WithStray(m) ==
  LET before == SelectSeq(m, LAMBDA e : e.base < Stray.base)
      after == SelectSeq(m, LAMBDA e : e.base >= Stray.base)
  IN  before \o <<Stray>> \o after
StrayMaps ==
  {WithStray(m) : m \in {x \in AlignedMaps :
     \A i \in 1 .. Len(x) : IsMemory(x[i]) => ~Overlaps(x[i])}}

MCMaps == {m \in AlignedMaps \cup StrayMaps : HasMemory(m)}
MCPageCounts == 8 .. 31
=============================================================================
