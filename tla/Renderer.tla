------------------------------ MODULE Renderer ------------------------------
(***************************************************************************)
(* The text renderer of src/src/renderer.cpp: the back buffer by rows of    *)
(* pixels, the cursor in pixels, and the memory behind the buffer.  A pixel *)
(* is the set of characters whose glyphs have been drawn into it since it   *)
(* was cleared; the background is the empty set.                            *)
(***************************************************************************)
EXTENDS Integers

CONSTANTS
  Width, Height,  (* of the screen, in pixels                              *)
  Advance,        (* width of a character: 8                               *)
  GlyphHeight,    (* rows of a character: 8                                *)
  LineHeight,     (* rows from line to line: 12                            *)
  Glyphs,         (* characters that are drawn                             *)
  FullMask        (* m_Bitmask covers a pixel.  For 32 bits per pixel the  *)
                  (* shift by 32 in the constructor is undefined, and      *)
                  (* leaves a mask of 0 on x86.                            *)

ASSUME RendererAssumption ==
  /\ Width \in Nat \ {0} /\ Advance \in Nat \ {0}
  /\ GlyphHeight \in Nat \ {0} /\ LineHeight \in Nat /\ GlyphHeight <= LineHeight
  /\ Height \in Nat /\ Height >= LineHeight
  /\ FullMask \in BOOLEAN

VARIABLES
  m_BackBuffer,   (* pixels by row and column, LineHeight rows too many    *)
  x, y            (* m_Cursor                                              *)

vars == <<m_BackBuffer, x, y>>

OnScreen == 0 .. Height - 1
Rows == 0 .. Height + LineHeight - 1
PixelColumns == 0 .. Width - 1
Blank == [i \in PixelColumns |-> {}]

(* Behind the buffer lies something else, marked with a character that is   *)
(* never drawn.                                                             *)
Foreign == [i \in PixelColumns |-> {"foreign"}]

(* The constructor, Reset and Clear. *)
Init ==
  /\ m_BackBuffer = [j \in Rows |-> IF j \in OnScreen THEN Blank ELSE Foreign]
  /\ x = 0
  /\ y = 0

Drawn(pixel, c) == IF FullMask THEN {c} ELSE pixel \cup {c}

WithCharUnclipped(c) ==
  [j \in Rows |-> [i \in PixelColumns |->
     IF j - y \in 0 .. GlyphHeight - 1 /\ i - x \in 0 .. Advance - 1
       THEN Drawn(m_BackBuffer[j][i], c) ELSE m_BackBuffer[j][i]]]

(* DrawChar at the cursor stops at the edges of the screen. *)
WithChar(c) ==
  [j \in Rows |-> [i \in PixelColumns |->
     IF /\ j - y \in 0 .. GlyphHeight - 1 /\ j < Height
        /\ i - x \in 0 .. Advance - 1
       THEN Drawn(m_BackBuffer[j][i], c) ELSE m_BackBuffer[j][i]]]

Area(up) == IF Height >= up THEN Height - up ELSE 0

ShiftedOneRowLess(b, up) ==
  [j \in Rows |->
     IF j < Area(up) THEN b[j + up]
     ELSE IF j < Area(up) + up - 1 THEN Blank
     ELSE b[j]]

ShiftedUncleared(b, up) == [j \in Rows |-> IF j < Area(up) THEN b[j + up] ELSE b[j]]

(* Shift: the rows below move up, and as many are cleared behind them. *)
Shifted(b, up) ==
  [j \in Rows |->
     IF j < Area(up) THEN b[j + up]
     ELSE IF j < Area(up) + up THEN Blank
     ELSE b[j]]

AtBottom == y + LineHeight >= Height
AtRightEdge == x + Advance >= Width

NewLine(b) ==
  IF AtBottom
    THEN m_BackBuffer' = Shifted(b, LineHeight) /\ UNCHANGED y
    ELSE m_BackBuffer' = b /\ y' = y + LineHeight

(* NextChar, by the character. *)
CarriageReturn ==
  /\ x' = 0
  /\ UNCHANGED <<m_BackBuffer, y>>

LineFeed ==
  /\ NewLine(m_BackBuffer)
  /\ UNCHANGED x

WriteChar(c) ==
  /\ ~AtRightEdge
  /\ m_BackBuffer' = WithChar(c)
  /\ x' = x + Advance
  /\ UNCHANGED y

WriteLastChar(c) ==
  /\ AtRightEdge
  /\ NewLine(WithChar(c))
  /\ x' = 0

Next ==
  \/ CarriageReturn \/ LineFeed
  \/ \E c \in Glyphs : WriteChar(c) \/ WriteLastChar(c)

Spec == Init /\ [][Next]_vars
-----------------------------------------------------------------------------
(* Type invariant: the cursor stands on a cell of the screen. *)
RendererTypeOK ==
  /\ m_BackBuffer \in [Rows -> [PixelColumns -> SUBSET (Glyphs \cup {"foreign"})]]
  /\ x \in PixelColumns /\ x % Advance = 0
  /\ y \in OnScreen /\ y % LineHeight = 0

(* Nothing is written behind the back buffer, which is a block of the heap  *)
(* with others behind it, whatever is printed (renderer.cpp:81-99,          *)
(* 131-151): the scroll and the drawing stop at the last row, also of a     *)
(* screen that is no whole number of lines high.                            *)
BehindUntouched == \A j \in Rows \ OnScreen : m_BackBuffer[j] = Foreign

ColumnCount == (Width + Advance - 1) \div Advance
LineCount == (Height + LineHeight - 1) \div LineHeight

(* What a cell shows: its first pixel. *)
Cell(l, k) == m_BackBuffer[LineHeight * l][Advance * k]

(* Every pixel of a cell shows what the cell shows, and between the lines   *)
(* there is background: no line has rests of another, over any number of    *)
(* scrolls (renderer.cpp:81-99).   Only on a screen that ends inside a      *)
(* glyph are lines cut off, and stay so when they have scrolled up.         *)
CellsWhole ==
  RendererTypeOK /\ \A j \in OnScreen, i \in PixelColumns :
    LET shown == Cell(j \div LineHeight, i \div Advance)
        row == j % LineHeight
        cutAt == Height % LineHeight
    IN  IF row >= GlyphHeight THEN m_BackBuffer[j][i] = {}
        ELSE \/ m_BackBuffer[j][i] = shown
             \/ /\ cutAt \in 1 .. GlyphHeight - 1 /\ row >= cutAt
                /\ m_BackBuffer[j][i] = {}

(* The renderer is a terminal: the text on the screen is the end of the     *)
(* text that was printed, wrapped and scrolled, every character in the      *)
(* cell where it belongs (renderer.cpp:158-197).                            *)
Screen ==
  INSTANCE Terminal WITH
    Columns <- ColumnCount, Lines <- LineCount, Overlays <- ~FullMask,
    cells <- [k \in (0 .. LineCount - 1) \X (0 .. ColumnCount - 1) |-> Cell(k[1], k[2])],
    column <- x \div Advance, line <- y \div LineHeight

TerminalSpec == Screen!Spec
=============================================================================
