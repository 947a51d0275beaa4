---------------------------- MODULE CommandArea -----------------------------
(***************************************************************************)
(* Where ahci::Initialize puts the structures of a port in the pages of    *)
(* its command area, and which of them it writes.                          *)
(***************************************************************************)
EXTENDS Integers

CONSTANTS
    AreaFrames,     \* pages of a command area (0x10)
    FISPage,        \* the page of the received FIS, 32 << 10 bytes into it (8)
    TablesPage      \* the first page of the command tables, 40 << 10 bytes into it (10)

(* A command table has 256 bytes, so sixteen of them share a page, and the   *)
(* tables of 32 slots take two.                                             *)
ASSUME AreaAssumption ==
    /\ AreaFrames \in Nat \ {0, 1}
    /\ FISPage \in 0 .. AreaFrames - 1
    /\ TablesPage \in 0 .. AreaFrames - 2

TablePages(base, slots) == {base + TablesPage + s \div 16 : s \in 0 .. slots - 1}
AreaPages(base, slots) == {base, base + FISPage} \union TablePages(base, slots)
=============================================================================
