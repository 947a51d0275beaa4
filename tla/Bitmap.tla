------------------------------- MODULE Bitmap -------------------------------
(***************************************************************************)
(* The bitmap of src/src/bitmap.cpp: one bit per page frame, TRUE = locked. *)
(* A bitmap is a function from 0 .. m_SizeInBits-1 to BOOLEAN; the packing  *)
(* of eight bits to a byte is left out, except for the rounding it causes.  *)
(***************************************************************************)
EXTENDS Integers

(* The constructor drops the bits that do not fill a byte: size & ~7. *)
BitmapBits(size_in_bits) == 8 * (size_in_bits \div 8)

(* Set ignores an index past the end. *)
SetBit(bitmap, index, state) ==
  [i \in DOMAIN bitmap |-> IF i = index THEN state ELSE bitmap[i]]

(* Fill starts nothing past the end and clamps a count that runs over it:   *)
(* the bits of [index, index+count) that exist take the new state.          *)
FillBits(bitmap, index, count, state) ==
  [i \in DOMAIN bitmap |->
     IF index <= i /\ i < index + count THEN state ELSE bitmap[i]]
=============================================================================
