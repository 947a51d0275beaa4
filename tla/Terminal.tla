------------------------------ MODULE Terminal ------------------------------
(***************************************************************************)
(* What the renderer promises the kernel's output: a grid of cells, filled  *)
(* from left to right and from top to bottom, that scrolls by a line when   *)
(* it is full.  A cell shows the characters that have been drawn there      *)
(* since it was cleared, or only the last one.                              *)
(***************************************************************************)
EXTENDS Integers

CONSTANTS
  Glyphs,     (* characters that are drawn                                 *)
  Columns,    (* cells of a line                                           *)
  Lines,      (* lines of the screen                                       *)
  Overlays    (* a character is laid over what is in its cell              *)

VARIABLES
  cells,      (* the grid, <<line, column>> to a set of characters         *)
  column, line  (* the cursor                                              *)

terminalVars == <<cells, column, line>>

Grid == (0 .. Lines - 1) \X (0 .. Columns - 1)
Empty == [k \in Grid |-> {}]

Init ==
  /\ cells = Empty
  /\ column = 0
  /\ line = 0

(* The grid one line up, its last line empty. *)
Scrolled(g) ==
  [k \in Grid |-> IF k[1] = Lines - 1 THEN {} ELSE g[<<k[1] + 1, k[2]>>]]

Below(g) ==
  IF line = Lines - 1
    THEN cells' = Scrolled(g) /\ UNCHANGED line
    ELSE cells' = g /\ line' = line + 1

Write(c) ==
  LET shown == IF Overlays THEN cells[<<line, column>>] \cup {c} ELSE {c}
      g == [cells EXCEPT ![<<line, column>>] = shown]
  IN  \/ /\ column < Columns - 1
         /\ cells' = g
         /\ column' = column + 1
         /\ UNCHANGED line
      \/ /\ column = Columns - 1
         /\ Below(g)
         /\ column' = 0

CarriageReturn == column' = 0 /\ UNCHANGED <<cells, line>>
LineFeed == Below(cells) /\ UNCHANGED column

Next == CarriageReturn \/ LineFeed \/ \E c \in Glyphs : Write(c)
Spec == Init /\ [][Next]_terminalVars
=============================================================================
