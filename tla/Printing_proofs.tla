--------------------------- MODULE Printing_proofs ---------------------------
(***************************************************************************)
(* Printing, proved.  The renderer stays inside its back buffer, its cells  *)
(* stay whole, and it is the terminal of Terminal.tla: for every size of    *)
(* the screen, of the glyphs and of a line.  What vfkprintf counts is what  *)
(* it prints, but for one too much for every left-justified number, and     *)
(* only a width takes print_int behind its buffer; what it shows is what    *)
(* Printf.tla says of the items of the call: for every size of a word and   *)
(* of the buffer, and every format.                                         *)
(***************************************************************************)
EXTENDS Renderer, Format, Numbers_proofs, SequenceTheorems, FiniteSetTheorems

(* Drawing a character at the cursor, wherever that is, changes no row      *)
(* behind the buffer (DrawChar's loop condition on y + j).                  *)
LEMMA WithCharStays ==
  ASSUME NEW c, BehindUntouched
  PROVE  \A j \in Rows \ OnScreen : WithChar(c)[j] = Foreign
<1>1. SUFFICES ASSUME NEW j \in Rows \ OnScreen
               PROVE  WithChar(c)[j] = Foreign
  OBVIOUS
<1>2. j \in Int /\ ~(j < Height)
  BY RendererAssumption DEF Rows, OnScreen
<1>3. WithChar(c)[j] = [i \in PixelColumns |-> m_BackBuffer[j][i]]
  BY <1>2 DEF WithChar
<1>4. m_BackBuffer[j] = Foreign
  BY DEF BehindUntouched
<1> QED
  BY <1>3, <1>4 DEF Foreign

(* A scroll by a line copies from rows of the screen and clears up to its   *)
(* last row, because a screen is at least a line high (Shift's offset and   *)
(* area_size add up to m_Size).                                             *)
LEMMA ShiftedStays ==
  ASSUME NEW b, \A j \in Rows \ OnScreen : b[j] = Foreign
  PROVE  \A j \in Rows \ OnScreen : Shifted(b, LineHeight)[j] = Foreign
<1>1. SUFFICES ASSUME NEW j \in Rows \ OnScreen
               PROVE  Shifted(b, LineHeight)[j] = Foreign
  OBVIOUS
<1>2. Area(LineHeight) = Height - LineHeight
  BY RendererAssumption DEF Area
<1>3. ~(j < Area(LineHeight)) /\ ~(j < Area(LineHeight) + LineHeight)
  BY <1>2, RendererAssumption DEF Rows, OnScreen
<1>4. Shifted(b, LineHeight)[j] = b[j]
  BY <1>3 DEF Shifted
<1> QED
  BY <1>4

(* A new line keeps what holds behind the buffer it is given. *)
LEMMA NewLineStays ==
  ASSUME NEW b, \A j \in Rows \ OnScreen : b[j] = Foreign, NewLine(b)
  PROVE  BehindUntouched'
<1>1. CASE AtBottom
  <2>1. m_BackBuffer' = Shifted(b, LineHeight)
    BY <1>1 DEF NewLine
  <2> QED
    BY <2>1, ShiftedStays DEF BehindUntouched, Rows, OnScreen, Foreign
<1>2. CASE ~AtBottom
  <2>1. m_BackBuffer' = b
    BY <1>2 DEF NewLine
  <2> QED
    BY <2>1 DEF BehindUntouched, Rows, OnScreen, Foreign
<1> QED
  BY <1>1, <1>2

(* Every character that is printed leaves the memory behind the back buffer *)
(* alone.                                                                   *)
LEMMA NextStays == BehindUntouched /\ [Next]_vars => BehindUntouched'
<1> SUFFICES ASSUME BehindUntouched, [Next]_vars
             PROVE  BehindUntouched'
  OBVIOUS
<1>1. CASE CarriageReturn
  BY <1>1 DEF CarriageReturn, BehindUntouched, Rows, OnScreen, Foreign
<1>2. CASE LineFeed
  BY <1>2, NewLineStays DEF LineFeed, BehindUntouched
<1>3. ASSUME NEW c \in Glyphs, WriteChar(c)
      PROVE  BehindUntouched'
  BY <1>3, WithCharStays DEF WriteChar, BehindUntouched, Rows, OnScreen, Foreign
<1>4. ASSUME NEW c \in Glyphs, WriteLastChar(c)
      PROVE  BehindUntouched'
  BY <1>4, WithCharStays, NewLineStays DEF WriteLastChar
<1>5. CASE UNCHANGED vars
  BY <1>5 DEF vars, BehindUntouched, Rows, OnScreen, Foreign
<1> QED
  BY <1>1, <1>2, <1>3, <1>4, <1>5 DEF Next

(* For every screen of at least a line, every size of glyph and either      *)
(* value of the pixel mask, no printed text changes a byte behind the back  *)
(* buffer (renderer.cpp:81-99, 131-151).                                    *)
THEOREM StaysInBuffer == Spec => []BehindUntouched
<1>1. Init => BehindUntouched
  BY DEF Init, BehindUntouched
<1> QED
  BY <1>1, NextStays, PTL DEF Spec
-----------------------------------------------------------------------------
(* A pixel of a buffer beside the cell it lies in, as CellsWhole says of    *)
(* the back buffer.                                                         *)
Shows(b, l, k) == b[LineHeight * l][Advance * k]

Whole(b, j, i) ==
  b[j][i] = IF j % LineHeight >= GlyphHeight THEN {}
            ELSE Shows(b, j \div LineHeight, i \div Advance)

CutOff(b, j, i) ==
  /\ Height % LineHeight \in 1 .. GlyphHeight - 1
  /\ j % LineHeight >= Height % LineHeight
  /\ b[j][i] = {}

(* What the characters keep: CellsWhole, and no line is cut off before the  *)
(* cursor has come to the last one, where it stays.  Without the second     *)
(* part a character could be drawn over a line that has been cut off.       *)
PixelInv ==
  /\ RendererTypeOK
  /\ \A j \in OnScreen, i \in PixelColumns :
       Whole(m_BackBuffer, j, i) \/ (AtBottom /\ CutOff(m_BackBuffer, j, i))

(* The invariant says at least what the run checks. *)
LEMMA PixelsMakeCells == PixelInv => CellsWhole
<1> SUFFICES ASSUME PixelInv, NEW j \in OnScreen, NEW i \in PixelColumns
             PROVE  IF j % LineHeight >= GlyphHeight THEN m_BackBuffer[j][i] = {}
                    ELSE \/ m_BackBuffer[j][i] = Cell(j \div LineHeight, i \div Advance)
                         \/ /\ Height % LineHeight \in 1 .. GlyphHeight - 1
                            /\ j % LineHeight >= Height % LineHeight
                            /\ m_BackBuffer[j][i] = {}
  BY DEF CellsWhole, PixelInv
<1>1. Whole(m_BackBuffer, j, i) \/ CutOff(m_BackBuffer, j, i)
  BY DEF PixelInv
<1> QED
  BY <1>1, Zenon DEF Whole, CutOff, Shows, Cell
-----------------------------------------------------------------------------
(* The line of a row, and the row inside it: lines are numbered below       *)
(* LineCount and begin on the screen.                                       *)
LEMMA LineOfRow ==
  ASSUME NEW j \in OnScreen
  PROVE  /\ j \div LineHeight \in 0 .. LineCount - 1
         /\ j % LineHeight \in 0 .. LineHeight - 1
         /\ j = LineHeight * (j \div LineHeight) + (j % LineHeight)
<1>1. j \in Nat /\ j < Height /\ LineHeight \in Nat \ {0} /\ Height \in Nat
  BY RendererAssumption DEF OnScreen
<1>2. PICK q \in Nat, r \in 0 .. LineHeight - 1 :
        q = j \div LineHeight /\ r = j % LineHeight /\ j = LineHeight * q + r
  BY <1>1, Quotient
<1>3. LineHeight * q < Height
  <2>1. LineHeight * q \in Nat
    BY <1>1
  <2> QED
    BY <1>1, <1>2, <2>1
<1>4. q < LineCount /\ LineCount \in Nat
  BY <1>1, <1>3, QuotientUp DEF LineCount
<1> QED
  BY <1>2, <1>4

(* Every line begins on the screen, with its own first row. *)
LEMMA RowOfLine ==
  ASSUME NEW l \in 0 .. LineCount - 1
  PROVE  /\ LineHeight * l \in OnScreen
         /\ (LineHeight * l) \div LineHeight = l
         /\ (LineHeight * l) % LineHeight = 0
<1>1. LineHeight \in Nat \ {0} /\ Height \in Nat
  BY RendererAssumption
<1>2. LineCount \in Nat
  BY <1>1, QuotientUp DEF LineCount
<1>3. l \in Nat /\ l < LineCount
  BY <1>2
<1>4. LineHeight * l < Height /\ LineHeight * l \in Nat
  BY <1>1, <1>3, QuotientUp DEF LineCount
<1>5. LineHeight * l + 0 = LineHeight * l /\ 0 \in 0 .. LineHeight - 1
  BY <1>1, <1>4
<1> QED
  BY <1>1, <1>3, <1>4, <1>5, RemainderIs DEF OnScreen

(* The same of columns. *)
LEMMA ColumnOfPixel ==
  ASSUME NEW i \in PixelColumns
  PROVE  i \div Advance \in 0 .. ColumnCount - 1
<1>1. i \in Nat /\ i < Width /\ Advance \in Nat \ {0} /\ Width \in Nat
  BY RendererAssumption DEF PixelColumns
<1>2. PICK q \in Nat, r \in 0 .. Advance - 1 : q = i \div Advance /\ i = Advance * q + r
  BY <1>1, Quotient
<1>3. Advance * q < Width
  <2>1. Advance * q \in Nat
    BY <1>1
  <2> QED
    BY <1>1, <1>2, <2>1
<1> QED
  BY <1>1, <1>2, <1>3, QuotientUp DEF ColumnCount

(* Every column begins on the screen, with its own first pixel. *)
LEMMA PixelOfColumn ==
  ASSUME NEW k \in 0 .. ColumnCount - 1
  PROVE  Advance * k \in PixelColumns /\ (Advance * k) \div Advance = k
<1>1. Advance \in Nat \ {0} /\ Width \in Nat
  BY RendererAssumption
<1>2. ColumnCount \in Nat
  BY <1>1, QuotientUp DEF ColumnCount
<1>3. k \in Nat /\ k < ColumnCount
  BY <1>2
<1>4. Advance * k < Width /\ Advance * k \in Nat
  BY <1>1, <1>3, QuotientUp DEF ColumnCount
<1>5. Advance * k + 0 = Advance * k /\ 0 \in 0 .. Advance - 1
  BY <1>1, <1>4
<1> QED
  BY <1>1, <1>3, <1>4, <1>5, RemainderIs DEF PixelColumns

(* The line and the column of the cursor. *)
LEMMA CursorCell ==
  ASSUME RendererTypeOK
  PROVE  /\ y \div LineHeight \in 0 .. LineCount - 1 /\ y = LineHeight * (y \div LineHeight)
         /\ x \div Advance \in 0 .. ColumnCount - 1 /\ x = Advance * (x \div Advance)
<1>1. /\ y \in Nat /\ y \in OnScreen /\ y % LineHeight = 0 /\ LineHeight \in Nat \ {0}
      /\ x \in Nat /\ x \in PixelColumns /\ x % Advance = 0 /\ Advance \in Nat \ {0}
  BY RendererAssumption DEF RendererTypeOK, OnScreen, PixelColumns
<1>2. y = LineHeight * (y \div LineHeight) /\ x = Advance * (x \div Advance)
  BY <1>1, Multiple
<1> QED
  BY <1>1, <1>2, LineOfRow, ColumnOfPixel

(* The cursor is at the bottom just on the last line, and at the right edge *)
(* just in the last column, also of a screen that cuts them.                *)
LEMMA LastCell ==
  ASSUME RendererTypeOK
  PROVE  /\ AtBottom <=> y \div LineHeight = LineCount - 1
         /\ AtRightEdge <=> x \div Advance = ColumnCount - 1
<1>1. /\ LineHeight \in Nat \ {0} /\ Height \in Nat /\ LineCount \in Nat
      /\ Advance \in Nat \ {0} /\ Width \in Nat /\ ColumnCount \in Nat
  BY RendererAssumption, QuotientUp DEF LineCount, ColumnCount
<1>2. PICK l \in Nat, k \in Nat :
        /\ l = y \div LineHeight /\ y = LineHeight * l /\ l < LineCount
        /\ k = x \div Advance /\ x = Advance * k /\ k < ColumnCount
  BY CursorCell, <1>1
<1>3. PICK m \in Nat, n \in Nat :
        m = l + 1 /\ LineHeight * m = y + LineHeight /\ n = k + 1 /\ Advance * n = x + Advance
  <2>1. LineHeight * (l + 1) = y + LineHeight /\ Advance * (k + 1) = x + Advance
    BY <1>1, <1>2
  <2> QED
    BY <2>1
<1>4. (m < LineCount <=> LineHeight * m < Height) /\ (n < ColumnCount <=> Advance * n < Width)
  BY <1>1, QuotientUp DEF LineCount, ColumnCount
<1>5. x \in Int /\ y \in Int
  BY <1>1, <1>2
<1> QED
  BY <1>1, <1>2, <1>3, <1>4, <1>5 DEF AtBottom, AtRightEdge

(* The cursor after it has gone a line down or a column to the right. *)
LEMMA NextCell ==
  ASSUME RendererTypeOK
  PROVE  /\ ~AtBottom => /\ y + LineHeight \in OnScreen /\ (y + LineHeight) % LineHeight = 0
                         /\ (y + LineHeight) \div LineHeight = y \div LineHeight + 1
         /\ ~AtRightEdge => /\ x + Advance \in PixelColumns /\ (x + Advance) % Advance = 0
                            /\ (x + Advance) \div Advance = x \div Advance + 1
<1>1. /\ LineHeight \in Nat \ {0} /\ Height \in Nat /\ Advance \in Nat \ {0} /\ Width \in Nat
      /\ LineCount \in Nat /\ ColumnCount \in Nat
  BY RendererAssumption, QuotientUp DEF LineCount, ColumnCount
<1>2. PICK l \in Nat, k \in Nat :
        l = y \div LineHeight /\ y = LineHeight * l /\ k = x \div Advance /\ x = Advance * k
  BY CursorCell, <1>1
<1>3. PICK m \in Nat, n \in Nat :
        /\ m = l + 1 /\ y + LineHeight = LineHeight * m + 0
        /\ n = k + 1 /\ x + Advance = Advance * n + 0
  <2>1. LineHeight * (l + 1) = y + LineHeight /\ Advance * (k + 1) = x + Advance
    BY <1>1, <1>2
  <2>2. y + LineHeight \in Nat /\ x + Advance \in Nat
    BY <1>1, <1>2
  <2> QED
    BY <2>1, <2>2
<1>4. /\ (y + LineHeight) \div LineHeight = m /\ (y + LineHeight) % LineHeight = 0
      /\ (x + Advance) \div Advance = n /\ (x + Advance) % Advance = 0
  <2>1. 0 \in 0 .. LineHeight - 1 /\ 0 \in 0 .. Advance - 1
    BY <1>1
  <2>2. (LineHeight * m + 0) \div LineHeight = m /\ (LineHeight * m + 0) % LineHeight = 0
    BY <1>1, <2>1, RemainderIs
  <2>3. (Advance * n + 0) \div Advance = n /\ (Advance * n + 0) % Advance = 0
    BY <1>1, <2>1, RemainderIs
  <2> QED
    BY <1>3, <2>2, <2>3
<1>5. y \in Nat /\ x \in Nat
  BY DEF RendererTypeOK, OnScreen, PixelColumns
<1> QED
  BY <1>1, <1>2, <1>3, <1>4, <1>5 DEF AtBottom, AtRightEdge, OnScreen, PixelColumns
-----------------------------------------------------------------------------
(* Drawing a character changes the glyph rows of the cursor's cell, as far  *)
(* as they are on the screen, and no other pixel.                           *)
LEMMA WithCharPixel ==
  ASSUME RendererTypeOK, NEW c, NEW j \in OnScreen, NEW i \in PixelColumns
  PROVE  WithChar(c)[j][i] =
           IF /\ j \div LineHeight = y \div LineHeight /\ j % LineHeight < GlyphHeight
              /\ i \div Advance = x \div Advance
             THEN Drawn(m_BackBuffer[j][i], c) ELSE m_BackBuffer[j][i]
<1>1. /\ LineHeight \in Nat \ {0} /\ GlyphHeight \in 1 .. LineHeight /\ Advance \in Nat \ {0}
      /\ Advance \in 1 .. Advance
      /\ y \in Nat /\ y % LineHeight = 0 /\ x \in Nat /\ x % Advance = 0 /\ j \in Nat /\ i \in Nat
      /\ j < Height /\ j \in Rows
  BY RendererAssumption DEF RendererTypeOK, OnScreen, PixelColumns, Rows
<1>2. j - y \in 0 .. GlyphHeight - 1 <=>
        j \div LineHeight = y \div LineHeight /\ j % LineHeight < GlyphHeight
  BY <1>1, Within
<1>3. i - x \in 0 .. Advance - 1 <=> i \div Advance = x \div Advance
  <2>1. i % Advance < Advance
    BY <1>1, Quotient
  <2> QED
    BY <1>1, <2>1, Within
<1>4. WithChar(c)[j][i] =
        IF j - y \in 0 .. GlyphHeight - 1 /\ j < Height /\ i - x \in 0 .. Advance - 1
          THEN Drawn(m_BackBuffer[j][i], c) ELSE m_BackBuffer[j][i]
  BY <1>1, Zenon DEF WithChar
<1> QED
  BY <1>1, <1>2, <1>3, <1>4, Zenon

(* So only the cursor's cell shows something else.                          *)
LEMMA WithCharCell ==
  ASSUME RendererTypeOK, NEW c,
         NEW l \in 0 .. LineCount - 1, NEW k \in 0 .. ColumnCount - 1
  PROVE  Shows(WithChar(c), l, k) =
           IF l = y \div LineHeight /\ k = x \div Advance
             THEN Drawn(Shows(m_BackBuffer, l, k), c) ELSE Shows(m_BackBuffer, l, k)
<1>1. /\ LineHeight * l \in OnScreen /\ (LineHeight * l) \div LineHeight = l
      /\ (LineHeight * l) % LineHeight < GlyphHeight
  BY RowOfLine, RendererAssumption
<1>2. Advance * k \in PixelColumns /\ (Advance * k) \div Advance = k
  BY PixelOfColumn
<1> QED
  BY <1>1, <1>2, WithCharPixel, Zenon DEF Shows

(* A scroll brings a pixel what was a line below it, and clears the last    *)
(* LineHeight rows of the screen.                                           *)
LEMMA ShiftedPixel ==
  ASSUME NEW b, NEW j \in OnScreen, NEW i \in PixelColumns
  PROVE  Shifted(b, LineHeight)[j][i] = IF j + LineHeight \in OnScreen THEN b[j + LineHeight][i] ELSE {}
<1>1. /\ LineHeight \in Nat \ {0} /\ Height \in Nat /\ Height >= LineHeight
      /\ j \in Nat /\ j < Height /\ j \in Rows
  BY RendererAssumption DEF OnScreen, Rows
<1>2. Area(LineHeight) = Height - LineHeight
  BY <1>1 DEF Area
<1>3. /\ j < Area(LineHeight) <=> j + LineHeight \in OnScreen
      /\ j < Area(LineHeight) + LineHeight
  BY <1>1, <1>2 DEF OnScreen
<1>4. Shifted(b, LineHeight)[j] = IF j + LineHeight \in OnScreen THEN b[j + LineHeight] ELSE Blank
  BY <1>1, <1>3, Zenon DEF Shifted
<1> QED
  BY <1>4 DEF Blank

(* A row and the one a line below it.                                       *)
LEMMA RowBelow ==
  ASSUME NEW j \in OnScreen
  PROVE  /\ (j + LineHeight) \div LineHeight = j \div LineHeight + 1
         /\ (j + LineHeight) % LineHeight = j % LineHeight
<1>1. PICK l \in Nat, r \in 0 .. LineHeight - 1 :
        l = j \div LineHeight /\ r = j % LineHeight /\ j = LineHeight * l + r
  <2>1. LineCount \in Nat
    BY RendererAssumption, QuotientUp DEF LineCount
  <2> QED
    BY <2>1, LineOfRow
<1>2. LineHeight \in Nat \ {0}
  BY RendererAssumption
<1>3. PICK m \in Nat : m = l + 1 /\ j + LineHeight = LineHeight * m + r
  <2>1. LineHeight * (l + 1) = LineHeight * l + LineHeight /\ LineHeight * l \in Nat
    BY <1>2
  <2>2. j + LineHeight = LineHeight * (l + 1) + r
    BY <1>1, <1>2, <2>1
  <2> QED
    BY <2>2
<1>4. (LineHeight * m + r) \div LineHeight = m /\ (LineHeight * m + r) % LineHeight = r
  BY <1>2, RemainderIs
<1> QED
  BY <1>1, <1>3, <1>4

(* A scroll moves the cells of the lines up by a line, and empties the last *)
(* one: also on a screen that cuts it.                                      *)
LEMMA ShiftedCell ==
  ASSUME NEW b, NEW l \in 0 .. LineCount - 1, NEW k \in 0 .. ColumnCount - 1
  PROVE  Shows(Shifted(b, LineHeight), l, k) = IF l = LineCount - 1 THEN {} ELSE Shows(b, l + 1, k)
<1>1. /\ LineHeight \in Nat \ {0} /\ Height \in Nat /\ LineCount \in Nat
      /\ l \in Nat /\ l < LineCount
  BY RendererAssumption, QuotientUp DEF LineCount
<1>2. LineHeight * l \in OnScreen /\ Advance * k \in PixelColumns /\ LineHeight * l \in Nat
  BY RowOfLine, PixelOfColumn DEF OnScreen
<1>3. PICK m \in Nat : m = l + 1 /\ LineHeight * m = LineHeight * l + LineHeight
  <2>1. LineHeight * (l + 1) = LineHeight * l + LineHeight
    BY <1>1
  <2> QED
    BY <1>1, <2>1
<1>4. m < LineCount <=> LineHeight * m < Height
  BY <1>1, QuotientUp DEF LineCount
<1>5. l = LineCount - 1 <=> ~(LineHeight * l + LineHeight \in OnScreen)
  BY <1>1, <1>2, <1>3, <1>4 DEF OnScreen
<1>6. Shifted(b, LineHeight)[LineHeight * l][Advance * k] =
        IF LineHeight * l + LineHeight \in OnScreen
          THEN b[LineHeight * l + LineHeight][Advance * k] ELSE {}
  BY <1>2, ShiftedPixel
<1> QED
  BY <1>3, <1>5, <1>6 DEF Shows
-----------------------------------------------------------------------------
(* While the cursor is on a last line that is cut, it draws above the cut.  *)
LEMMA RowAboveCut ==
  ASSUME RendererTypeOK, AtBottom, Height % LineHeight # 0,
         NEW j \in OnScreen, j \div LineHeight = y \div LineHeight
  PROVE  j % LineHeight < Height % LineHeight
<1>1. /\ LineHeight \in Nat \ {0} /\ Height \in Nat /\ LineCount \in Nat
      /\ j \in Nat /\ j < Height /\ y \in Nat /\ y < Height /\ y + LineHeight >= Height
  BY RendererAssumption, QuotientUp DEF LineCount, OnScreen, RendererTypeOK, AtBottom
<1>2. PICK l \in Nat, r \in 0 .. LineHeight - 1 :
        l = y \div LineHeight /\ r = j % LineHeight /\ j = LineHeight * l + r /\ y = LineHeight * l
  BY <1>1, LineOfRow, CursorCell
<1>3. PICK h \in Nat, t \in 0 .. LineHeight - 1 :
        t = Height % LineHeight /\ Height = LineHeight * h + t
  <2>1. /\ Height \div LineHeight \in Nat /\ Height % LineHeight \in 0 .. LineHeight - 1
        /\ Height = LineHeight * (Height \div LineHeight) + (Height % LineHeight)
    BY <1>1, Quotient
  <2> QED
    BY <2>1, Zenon
<1>4. Height - y \in 0 .. LineHeight - 1
  <2>1. SUFFICES ASSUME Height = y + LineHeight PROVE FALSE
    BY <1>1
  <2>2. PICK m \in Nat : m = l + 1 /\ LineHeight * m + 0 = Height
    <3>1. LineHeight * (l + 1) = LineHeight * l + LineHeight
      BY <1>1
    <3> QED
      BY <1>1, <1>2, <2>1, <3>1
  <2>3. (LineHeight * m + 0) % LineHeight = 0
    <3>1. 0 \in 0 .. LineHeight - 1
      BY <1>1
    <3> QED
      BY <1>1, <3>1, RemainderIs
  <2> QED
    BY <2>2, <2>3
<1>5. PICK s \in 0 .. LineHeight - 1 : s = Height - y /\ LineHeight * l + s = LineHeight * h + t
  BY <1>1, <1>2, <1>3, <1>4
<1>6. s = t
  BY <1>1, <1>5, OneQuotient
<1> QED
  BY <1>1, <1>2, <1>3, <1>5, <1>6

(* A character drawn at the cursor leaves every pixel as its cell shows, or *)
(* cut off as it was.                                                       *)
LEMMA WithCharWhole ==
  ASSUME PixelInv, NEW c, NEW j \in OnScreen, NEW i \in PixelColumns
  PROVE  Whole(WithChar(c), j, i) \/ (AtBottom /\ CutOff(WithChar(c), j, i))
<1>1. /\ RendererTypeOK
      /\ Whole(m_BackBuffer, j, i) \/ (AtBottom /\ CutOff(m_BackBuffer, j, i))
  BY DEF PixelInv
<1>2. /\ j \div LineHeight \in 0 .. LineCount - 1 /\ i \div Advance \in 0 .. ColumnCount - 1
      /\ j % LineHeight \in Int /\ GlyphHeight \in Int
  BY LineOfRow, ColumnOfPixel, RendererAssumption
<1>3. /\ Shows(WithChar(c), j \div LineHeight, i \div Advance) =
           IF j \div LineHeight = y \div LineHeight /\ i \div Advance = x \div Advance
             THEN Drawn(Shows(m_BackBuffer, j \div LineHeight, i \div Advance), c)
             ELSE Shows(m_BackBuffer, j \div LineHeight, i \div Advance)
      /\ WithChar(c)[j][i] =
           IF /\ j \div LineHeight = y \div LineHeight /\ j % LineHeight < GlyphHeight
              /\ i \div Advance = x \div Advance
             THEN Drawn(m_BackBuffer[j][i], c) ELSE m_BackBuffer[j][i]
  BY <1>1, <1>2, WithCharCell, WithCharPixel, Zenon
<1>4. CASE j % LineHeight >= GlyphHeight
  BY <1>1, <1>2, <1>3, <1>4 DEF Whole, CutOff
<1>5. CASE /\ j % LineHeight < GlyphHeight
           /\ j \div LineHeight = y \div LineHeight /\ i \div Advance = x \div Advance
  <2>1. Whole(m_BackBuffer, j, i)
    <3>1. SUFFICES ASSUME AtBottom, CutOff(m_BackBuffer, j, i) PROVE FALSE
      BY <1>1
    <3>2. Height % LineHeight \in Nat \ {0} /\ j % LineHeight >= Height % LineHeight
      BY <3>1, RendererAssumption DEF CutOff
    <3> QED
      BY <1>1, <1>2, <1>5, <3>1, <3>2, RowAboveCut
  <2> QED
    BY <1>2, <1>3, <1>5, <2>1 DEF Whole
<1>6. CASE /\ j % LineHeight < GlyphHeight
           /\ ~(j \div LineHeight = y \div LineHeight /\ i \div Advance = x \div Advance)
  BY <1>1, <1>2, <1>3, <1>6 DEF Whole, CutOff
<1> QED
  BY <1>2, <1>4, <1>5, <1>6

(* A scroll of such a buffer leaves one behind.  Of a screen that cuts its  *)
(* last line, the line before it is cut by the rows that are cleared.       *)
LEMMA ShiftedWhole ==
  ASSUME NEW b, \A j \in OnScreen, i \in PixelColumns : Whole(b, j, i) \/ CutOff(b, j, i),
         NEW j \in OnScreen, NEW i \in PixelColumns
  PROVE  Whole(Shifted(b, LineHeight), j, i) \/ CutOff(Shifted(b, LineHeight), j, i)
<1>1. /\ LineHeight \in Nat \ {0} /\ Height \in Nat /\ LineCount \in Nat /\ GlyphHeight \in Nat
      /\ j \in Nat /\ j < Height
  BY RendererAssumption, QuotientUp DEF LineCount, OnScreen
<1>2. PICK l \in Nat, r \in 0 .. LineHeight - 1 :
        /\ l = j \div LineHeight /\ r = j % LineHeight /\ j = LineHeight * l + r
        /\ l < LineCount
  BY <1>1, LineOfRow
<1>3. PICK k \in 0 .. ColumnCount - 1 : k = i \div Advance
  BY ColumnOfPixel
<1>4. /\ Shifted(b, LineHeight)[j][i] = IF j + LineHeight \in OnScreen THEN b[j + LineHeight][i] ELSE {}
      /\ Shows(Shifted(b, LineHeight), l, k) = IF l = LineCount - 1 THEN {} ELSE Shows(b, l + 1, k)
  <2>1. l \in 0 .. LineCount - 1
    BY <1>1, <1>2
  <2> QED
    BY <1>3, <2>1, ShiftedPixel, ShiftedCell
<1>5. CASE j + LineHeight \in OnScreen
  <2>1. (j + LineHeight) \div LineHeight = l + 1 /\ (j + LineHeight) % LineHeight = r
    BY <1>2, RowBelow
  <2>2. l # LineCount - 1
    <3>1. (j + LineHeight) \div LineHeight \in 0 .. LineCount - 1
      BY <1>5, LineOfRow
    <3> QED
      BY <1>1, <1>2, <2>1, <3>1
  <2>3. Whole(b, j + LineHeight, i) \/ CutOff(b, j + LineHeight, i)
    BY <1>5
  <2> QED
    BY <1>2, <1>3, <1>4, <1>5, <2>1, <2>2, <2>3, Zenon DEF Whole, CutOff
<1>6. CASE ~(j + LineHeight \in OnScreen) /\ (r >= GlyphHeight \/ l = LineCount - 1)
  BY <1>2, <1>3, <1>4, <1>6 DEF Whole
<1>7. CASE ~(j + LineHeight \in OnScreen) /\ r < GlyphHeight /\ l # LineCount - 1
  <2>1. PICK m \in Nat : m = l + 1 /\ LineHeight * m = LineHeight * l + LineHeight
    <3>1. LineHeight * (l + 1) = LineHeight * l + LineHeight
      BY <1>1
    <3> QED
      BY <3>1
  <2>2. LineHeight * m < Height
    <3>1. m < LineCount
      BY <1>1, <1>2, <1>7, <2>1
    <3> QED
      BY <1>1, <3>1, QuotientUp DEF LineCount
  <2>3. LineHeight * m + r >= Height
    <3>1. LineHeight * l \in Nat
      BY <1>1
    <3> QED
      BY <1>1, <1>2, <1>7, <2>1, <3>1 DEF OnScreen
  <2>4. PICK s \in 1 .. r : Height = LineHeight * m + s
    <3>1. LineHeight * m \in Nat
      BY <1>1
    <3> QED
      BY <1>1, <2>2, <2>3, <3>1
  <2>5. Height % LineHeight = s
    <3>1. s \in 0 .. LineHeight - 1
      BY <1>1
    <3> QED
      BY <1>1, <2>4, <3>1, RemainderIs
  <2>6. s \in 1 .. GlyphHeight - 1 /\ r >= s
    BY <1>1, <1>7
  <2> QED
    BY <1>2, <1>4, <1>7, <2>5, <2>6 DEF CutOff
<1> QED
  BY <1>1, <1>5, <1>6, <1>7
-----------------------------------------------------------------------------
(* Drawing and scrolling make buffers of the same rows and columns.         *)
Buffers == [Rows -> [PixelColumns -> SUBSET (Glyphs \cup {"foreign"})]]

(* A character that is drawn and a scroll give one.                         *)
LEMMA BuffersStay ==
  ASSUME NEW b \in Buffers, m_BackBuffer \in Buffers
  PROVE  Shifted(b, LineHeight) \in Buffers /\ \A c \in Glyphs : WithChar(c) \in Buffers
<1>1. ASSUME NEW c \in Glyphs PROVE WithChar(c) \in Buffers
  <2>1. ASSUME NEW j \in Rows, NEW i \in PixelColumns
        PROVE  /\ m_BackBuffer[j][i] \in SUBSET (Glyphs \cup {"foreign"})
               /\ Drawn(m_BackBuffer[j][i], c) \in SUBSET (Glyphs \cup {"foreign"})
    BY DEF Buffers, Drawn
  <2> QED
    BY <2>1, Zenon DEF WithChar, Buffers
<1>2. Blank \in [PixelColumns -> SUBSET (Glyphs \cup {"foreign"})]
  BY DEF Blank
<1>3. ASSUME NEW j \in Rows, j < Area(LineHeight) PROVE j + LineHeight \in Rows
  BY <1>3, RendererAssumption DEF Rows, Area
<1>4. Shifted(b, LineHeight) \in Buffers
  BY <1>2, <1>3 DEF Shifted, Buffers
<1> QED
  BY <1>1, <1>4

(* A new line keeps the invariant, of the buffer it is given as of the      *)
(* cursor.                                                                  *)
LEMMA NewLineWhole ==
  ASSUME RendererTypeOK, NEW b \in Buffers, NewLine(b), x' \in PixelColumns, x' % Advance = 0,
         \A j \in OnScreen, i \in PixelColumns : Whole(b, j, i) \/ (AtBottom /\ CutOff(b, j, i))
  PROVE  PixelInv'
<1>1. CASE AtBottom
  <2>1. m_BackBuffer' = Shifted(b, LineHeight) /\ y' = y
    BY <1>1 DEF NewLine
  <2>2. AtBottom'
    BY <1>1, <2>1 DEF AtBottom
  <2>3. ASSUME NEW j \in OnScreen, NEW i \in PixelColumns
        PROVE  Whole(m_BackBuffer', j, i) \/ CutOff(m_BackBuffer', j, i)
    BY <2>1, ShiftedWhole, Zenon
  <2>4. m_BackBuffer' \in Buffers
    BY <2>1, BuffersStay DEF RendererTypeOK, Buffers
  <2>5. RendererTypeOK'
    BY <2>1, <2>4 DEF RendererTypeOK, Buffers, Rows, OnScreen, PixelColumns
  <2>6. ASSUME NEW j \in OnScreen, NEW i \in PixelColumns
        PROVE  Whole(m_BackBuffer, j, i)' \/ (AtBottom' /\ CutOff(m_BackBuffer, j, i)')
    BY <2>2, <2>3, Zenon DEF Whole, CutOff, Shows
  <2> QED
    BY <2>5, <2>6 DEF PixelInv, OnScreen, PixelColumns
<1>2. CASE ~AtBottom
  <2>1. m_BackBuffer' = b /\ y' = y + LineHeight
    BY <1>2 DEF NewLine
  <2>2. RendererTypeOK'
    BY <1>2, <2>1, NextCell DEF RendererTypeOK, Buffers, Rows, OnScreen, PixelColumns
  <2>3. ASSUME NEW j \in OnScreen, NEW i \in PixelColumns
        PROVE  Whole(m_BackBuffer, j, i)'
    BY <1>2, <2>1, Zenon DEF Whole, Shows
  <2> QED
    BY <2>2, <2>3 DEF PixelInv, OnScreen, PixelColumns
<1> QED
  BY <1>1, <1>2

(* The blank screen is whole. *)
LEMMA InitWhole == Init => PixelInv
<1> SUFFICES ASSUME Init PROVE PixelInv
  OBVIOUS
<1>1. /\ LineHeight \in Nat \ {0} /\ Height \in Nat \ {0}
      /\ Width \in Nat \ {0} /\ Advance \in Nat \ {0}
  BY RendererAssumption
<1>2. 0 \in OnScreen /\ 0 \in PixelColumns
  BY <1>1 DEF OnScreen, PixelColumns
<1>3. 0 % LineHeight = 0 /\ 0 % Advance = 0
  <2>1. /\ (LineHeight * 0 + 0) % LineHeight = 0 /\ (Advance * 0 + 0) % Advance = 0
    <3>1. 0 \in 0 .. LineHeight - 1 /\ 0 \in 0 .. Advance - 1
      BY <1>1
    <3> QED
      BY <1>1, <3>1, RemainderIs
  <2> QED
    BY <1>1, <2>1
<1>4. RendererTypeOK
  BY <1>2, <1>3 DEF Init, RendererTypeOK, Blank, Foreign
<1>5. ASSUME NEW j \in OnScreen, NEW i \in PixelColumns PROVE Whole(m_BackBuffer, j, i)
  <2>1. /\ LineHeight * (j \div LineHeight) \in OnScreen /\ Advance * (i \div Advance) \in PixelColumns
    BY LineOfRow, RowOfLine, ColumnOfPixel, PixelOfColumn
  <2>2. OnScreen \subseteq Rows
    BY <1>1 DEF OnScreen, Rows
  <2>3. ASSUME NEW m \in OnScreen, NEW n \in PixelColumns PROVE m_BackBuffer[m][n] = {}
    BY <2>2 DEF Init, Blank
  <2> QED
    BY <2>1, <2>3, Zenon DEF Whole, Shows
<1> QED
  BY <1>4, <1>5 DEF PixelInv

(* Every character keeps the invariant.                                     *)
LEMMA NextWhole == PixelInv /\ [Next]_vars => PixelInv'
<1> SUFFICES ASSUME PixelInv, [Next]_vars PROVE PixelInv'
  OBVIOUS
<1>1. RendererTypeOK /\ m_BackBuffer \in Buffers
  BY DEF PixelInv, RendererTypeOK, Buffers
<1>2. ASSUME m_BackBuffer' = m_BackBuffer, y' = y, x' \in PixelColumns, x' % Advance = 0
      PROVE  PixelInv'
  <2>1. RendererTypeOK' /\ (AtBottom' <=> AtBottom)
    BY <1>1, <1>2 DEF RendererTypeOK, Rows, OnScreen, PixelColumns, AtBottom
  <2>2. ASSUME NEW j \in OnScreen, NEW i \in PixelColumns
        PROVE  Whole(m_BackBuffer, j, i)' \/ (AtBottom' /\ CutOff(m_BackBuffer, j, i)')
    <3>1. Whole(m_BackBuffer, j, i) \/ (AtBottom /\ CutOff(m_BackBuffer, j, i))
      BY DEF PixelInv
    <3> QED
      BY <1>2, <2>1, <3>1, Zenon DEF Whole, CutOff, Shows
  <2> QED
    BY <2>1, <2>2 DEF PixelInv, OnScreen, PixelColumns
<1>3. 0 \in PixelColumns /\ 0 % Advance = 0
  BY RendererAssumption DEF PixelColumns
<1>4. CASE CarriageReturn
  BY <1>2, <1>3, <1>4 DEF CarriageReturn
<1>5. CASE LineFeed
  <2>1. x' \in PixelColumns /\ x' % Advance = 0
    BY <1>1, <1>5 DEF LineFeed, RendererTypeOK
  <2>2. \A j \in OnScreen, i \in PixelColumns :
          Whole(m_BackBuffer, j, i) \/ (AtBottom /\ CutOff(m_BackBuffer, j, i))
    BY DEF PixelInv
  <2> QED
    BY <1>1, <1>5, <2>1, <2>2, NewLineWhole DEF LineFeed
<1>6. ASSUME NEW c \in Glyphs, WriteChar(c) PROVE PixelInv'
  <2>1. /\ m_BackBuffer' = WithChar(c) /\ x' = x + Advance /\ y' = y /\ ~AtRightEdge
    BY <1>6 DEF WriteChar
  <2>2. m_BackBuffer' \in Buffers
    BY <1>1, <2>1, BuffersStay
  <2>3. RendererTypeOK' /\ (AtBottom' <=> AtBottom)
    BY <1>1, <2>1, <2>2, NextCell DEF RendererTypeOK, Buffers, Rows, OnScreen, PixelColumns, AtBottom
  <2>4. ASSUME NEW j \in OnScreen, NEW i \in PixelColumns
        PROVE  Whole(m_BackBuffer, j, i)' \/ (AtBottom' /\ CutOff(m_BackBuffer, j, i)')
    <3>1. Whole(WithChar(c), j, i) \/ (AtBottom /\ CutOff(WithChar(c), j, i))
      BY WithCharWhole
    <3> QED
      BY <2>1, <2>3, <3>1, Zenon DEF Whole, CutOff, Shows
  <2> QED
    BY <2>3, <2>4 DEF PixelInv, OnScreen, PixelColumns
<1>7. ASSUME NEW c \in Glyphs, WriteLastChar(c) PROVE PixelInv'
  <2>1. NewLine(WithChar(c)) /\ x' = 0
    BY <1>7 DEF WriteLastChar
  <2>2. WithChar(c) \in Buffers
    BY <1>1, BuffersStay
  <2>3. \A j \in OnScreen, i \in PixelColumns :
          Whole(WithChar(c), j, i) \/ (AtBottom /\ CutOff(WithChar(c), j, i))
    BY WithCharWhole
  <2> QED
    BY <1>1, <1>3, <2>1, <2>2, <2>3, NewLineWhole
<1>8. CASE UNCHANGED vars
  BY <1>1, <1>2, <1>8 DEF vars, RendererTypeOK
<1> QED
  BY <1>4, <1>5, <1>6, <1>7, <1>8 DEF Next

(* For every size of the screen, of the glyphs and of a line, also when the *)
(* screen is no whole number of lines high or of characters wide: every     *)
(* pixel shows what its cell shows, or lies below the edge where the glyph  *)
(* was cut (renderer.cpp:81-99, 131-197).                                   *)
THEOREM CellsStayWhole == Spec => []CellsWhole
<1>1. Spec => []PixelInv
  BY InitWhole, NextWhole, PTL DEF Spec
<1> QED
  BY <1>1, PixelsMakeCells, PTL
-----------------------------------------------------------------------------
(* The cells of a buffer, as the refinement reads them from the back        *)
(* buffer.                                                                  *)
Cells(b) == [k \in (0 .. LineCount - 1) \X (0 .. ColumnCount - 1) |-> Shows(b, k[1], k[2])]

(* A character drawn at the cursor is written into the cursor's cell.       *)
LEMMA WithCharWrites ==
  ASSUME RendererTypeOK, NEW c
  PROVE  Cells(WithChar(c)) =
           [Cells(m_BackBuffer) EXCEPT ![<<y \div LineHeight, x \div Advance>>] =
              IF ~FullMask THEN Cells(m_BackBuffer)[<<y \div LineHeight, x \div Advance>>] \cup {c}
              ELSE {c}]
<1> DEFINE G == (0 .. LineCount - 1) \X (0 .. ColumnCount - 1)
           at == <<y \div LineHeight, x \div Advance>>
           shown == IF ~FullMask THEN Cells(m_BackBuffer)[at] \cup {c} ELSE {c}
<1>1. at \in G
  BY CursorCell
<1>2. ASSUME NEW k \in G
      PROVE  Cells(WithChar(c))[k] = IF k = at THEN shown ELSE Cells(m_BackBuffer)[k]
  <2>1. PICK l \in 0 .. LineCount - 1, n \in 0 .. ColumnCount - 1 : k = <<l, n>>
    OBVIOUS
  <2>2. Cells(WithChar(c))[k] = Shows(WithChar(c), l, n) /\ Cells(m_BackBuffer)[k] = Shows(m_BackBuffer, l, n)
    BY <2>1 DEF Cells
  <2>3. k = at <=> l = y \div LineHeight /\ n = x \div Advance
    BY <2>1
  <2>4. Drawn(Shows(m_BackBuffer, l, n), c) = IF ~FullMask THEN Shows(m_BackBuffer, l, n) \cup {c} ELSE {c}
    BY Zenon DEF Drawn
  <2>5. Shows(WithChar(c), l, n) =
          IF l = y \div LineHeight /\ n = x \div Advance
            THEN Drawn(Shows(m_BackBuffer, l, n), c) ELSE Shows(m_BackBuffer, l, n)
    BY WithCharCell, Zenon
  <2>6. CASE k = at
    BY <2>2, <2>3, <2>4, <2>5, <2>6, Zenon
  <2>7. CASE k # at
    BY <2>2, <2>3, <2>5, <2>7, Zenon
  <2> QED
    BY <2>6, <2>7
<1>3. Cells(WithChar(c)) = [k \in G |-> Cells(WithChar(c))[k]]
  BY Zenon DEF Cells
<1>4. [Cells(m_BackBuffer) EXCEPT ![at] = shown] =
        [k \in G |-> IF k = at THEN shown ELSE Cells(m_BackBuffer)[k]]
  BY <1>1 DEF Cells
<1> HIDE DEF G, at, shown
<1>5. Cells(WithChar(c)) = [Cells(m_BackBuffer) EXCEPT ![at] = shown]
  BY <1>2, <1>3, <1>4
<1> QED
  BY <1>5 DEF at, shown

(* A scroll of the pixels is a scroll of the cells.                         *)
LEMMA ShiftedScrolls ==
  ASSUME NEW b
  PROVE  Cells(Shifted(b, LineHeight)) = Screen!Scrolled(Cells(b))
<1> DEFINE G == (0 .. LineCount - 1) \X (0 .. ColumnCount - 1)
<1>1. ASSUME NEW k \in G
      PROVE  Shows(Shifted(b, LineHeight), k[1], k[2]) =
               IF k[1] = LineCount - 1 THEN {} ELSE Cells(b)[<<k[1] + 1, k[2]>>]
  <2>1. k[1] \in 0 .. LineCount - 1 /\ k[2] \in 0 .. ColumnCount - 1
    OBVIOUS
  <2>2. Shows(Shifted(b, LineHeight), k[1], k[2]) =
          IF k[1] = LineCount - 1 THEN {} ELSE Shows(b, k[1] + 1, k[2])
    BY <2>1, ShiftedCell
  <2>3. ASSUME k[1] # LineCount - 1 PROVE Cells(b)[<<k[1] + 1, k[2]>>] = Shows(b, k[1] + 1, k[2])
    <3>1. k[1] + 1 \in 0 .. LineCount - 1
      <4>1. LineCount \in Nat
        BY RendererAssumption, QuotientUp DEF LineCount
      <4> QED
        BY <2>1, <2>3, <4>1
    <3> QED
      BY <2>1, <3>1 DEF Cells
  <2> QED
    BY <2>2, <2>3
<1> QED
  BY <1>1, Zenon DEF Cells, Screen!Scrolled, Screen!Grid

(* A new line of the renderer is one of the terminal.                       *)
LEMMA NewLineIsBelow ==
  ASSUME RendererTypeOK, NEW b, NewLine(b)
  PROVE  IF y \div LineHeight = LineCount - 1
           THEN Cells(m_BackBuffer') = Screen!Scrolled(Cells(b)) /\ y' \div LineHeight = y \div LineHeight
           ELSE Cells(m_BackBuffer') = Cells(b) /\ y' \div LineHeight = y \div LineHeight + 1
<1>1. AtBottom <=> y \div LineHeight = LineCount - 1
  BY LastCell
<1>2. CASE AtBottom
  BY <1>1, <1>2, ShiftedScrolls, Zenon DEF NewLine
<1>3. CASE ~AtBottom
  <2>1. m_BackBuffer' = b /\ y' = y + LineHeight
    BY <1>3 DEF NewLine
  <2>2. (y + LineHeight) \div LineHeight = y \div LineHeight + 1
    BY <1>3, NextCell
  <2> QED
    BY <1>1, <1>3, <2>1, <2>2, Zenon
<1> QED
  BY <1>2, <1>3

(* The blank screen is the terminal's.                                      *)
LEMMA InitIsTerminal == Init => Screen!Init
<1> SUFFICES ASSUME Init PROVE Screen!Init
  OBVIOUS
<1> DEFINE G == (0 .. LineCount - 1) \X (0 .. ColumnCount - 1)
<1>1. ASSUME NEW k \in G PROVE Cell(k[1], k[2]) = {}
  <2>1. LineHeight * k[1] \in OnScreen /\ Advance * k[2] \in PixelColumns
    BY RowOfLine, PixelOfColumn
  <2>2. OnScreen \subseteq Rows
    BY RendererAssumption DEF OnScreen, Rows
  <2>3. m_BackBuffer[LineHeight * k[1]] = Blank
    BY <2>1, <2>2 DEF Init
  <2> QED
    BY <2>1, <2>3 DEF Cell, Blank
<1>2. [k \in G |-> Cell(k[1], k[2])] = [k \in G |-> {}]
  BY <1>1, Zenon
<1>3. x \div Advance = 0 /\ y \div LineHeight = 0
  <2>1. LineHeight * 0 + 0 = 0 /\ Advance * 0 + 0 = 0 /\ LineHeight \in Nat \ {0} /\ Advance \in Nat \ {0}
    BY RendererAssumption
  <2>2. 0 \in 0 .. LineHeight - 1 /\ 0 \in 0 .. Advance - 1
    BY <2>1
  <2>3. (LineHeight * 0 + 0) \div LineHeight = 0 /\ (Advance * 0 + 0) \div Advance = 0
    BY <2>1, <2>2, RemainderIs
  <2> QED
    BY <2>1, <2>3 DEF Init
<1> QED
  BY <1>2, <1>3, Zenon DEF Screen!Init, Screen!Empty, Screen!Grid

(* Every character printed is a step of the terminal.                       *)
LEMMA NextIsTerminal == RendererTypeOK /\ [Next]_vars => [Screen!Next]_(Screen!terminalVars)
<1> SUFFICES ASSUME RendererTypeOK, [Next]_vars PROVE [Screen!Next]_(Screen!terminalVars)
  OBVIOUS
<1> DEFINE G == (0 .. LineCount - 1) \X (0 .. ColumnCount - 1)
           cells == [k \in G |-> Cell(k[1], k[2])]
           at == <<y \div LineHeight, x \div Advance>>
           ShownBy(c) == IF ~FullMask THEN cells[at] \cup {c} ELSE {c}
<1>1. cells = Cells(m_BackBuffer) /\ cells' = Cells(m_BackBuffer')
  BY Zenon DEF Cells, Shows, Cell
<1>2. 0 \div Advance = 0
  <2>1. Advance * 0 + 0 = 0 /\ Advance \in Nat \ {0}
    BY RendererAssumption
  <2>2. 0 \in 0 .. Advance - 1
    BY <2>1
  <2>3. (Advance * 0 + 0) \div Advance = 0
    BY <2>1, <2>2, RemainderIs
  <2> QED
    BY <2>1, <2>3
<1>3. ASSUME NEW c PROVE Cells(WithChar(c)) = [cells EXCEPT ![at] = ShownBy(c)]
  BY <1>1, WithCharWrites, Zenon
<1>4. ASSUME NEW b, NewLine(b)
      PROVE  IF y \div LineHeight = LineCount - 1
               THEN cells' = Screen!Scrolled(Cells(b)) /\ (y \div LineHeight)' = y \div LineHeight
               ELSE cells' = Cells(b) /\ (y \div LineHeight)' = y \div LineHeight + 1
  BY <1>1, <1>4, NewLineIsBelow, Zenon
<1>5. CASE CarriageReturn
  <2>1. cells' = cells /\ (x \div Advance)' = 0 /\ (y \div LineHeight)' = y \div LineHeight
    BY <1>1, <1>2, <1>5, Zenon DEF CarriageReturn
  <2> QED
    BY <2>1, Zenon DEF Screen!Next, Screen!CarriageReturn
<1>6. CASE LineFeed
  <2>1. NewLine(m_BackBuffer) /\ (x \div Advance)' = x \div Advance
    BY <1>6, Zenon DEF LineFeed
  <2>2. Screen!Below(cells)
    BY <1>1, <1>4, <2>1, Zenon DEF Screen!Below
  <2> QED
    BY <2>1, <2>2, Zenon DEF Screen!Next, Screen!LineFeed
<1>7. ASSUME NEW c \in Glyphs, WriteChar(c) PROVE Screen!Write(c)
  <2>1. x \div Advance < ColumnCount - 1
    <3>1. ColumnCount \in Nat /\ x \div Advance \in 0 .. ColumnCount - 1
      BY CursorCell, RendererAssumption, QuotientUp DEF ColumnCount
    <3> QED
      BY <1>7, <3>1, LastCell DEF WriteChar
  <2>2. cells' = [cells EXCEPT ![at] = ShownBy(c)]
    BY <1>1, <1>3, <1>7, Zenon DEF WriteChar
  <2>3. (x \div Advance)' = x \div Advance + 1 /\ (y \div LineHeight)' = y \div LineHeight
    BY <1>7, NextCell, Zenon DEF WriteChar
  <2> QED
    BY <2>1, <2>2, <2>3, Zenon DEF Screen!Write
<1>8. ASSUME NEW c \in Glyphs, WriteLastChar(c) PROVE Screen!Write(c)
  <2>1. x \div Advance = ColumnCount - 1 /\ (x \div Advance)' = 0
    BY <1>2, <1>8, LastCell, Zenon DEF WriteLastChar
  <2>2. NewLine(WithChar(c))
    BY <1>8 DEF WriteLastChar
  <2>3. Screen!Below(Cells(WithChar(c)))
    BY <1>4, <2>2, Zenon DEF Screen!Below
  <2>4. Screen!Below([cells EXCEPT ![at] = ShownBy(c)])
    BY <1>3, <2>3, Zenon
  <2> QED
    BY <2>1, <2>4, Zenon DEF Screen!Write
<1>9. CASE UNCHANGED vars
  <2>1. cells' = cells /\ (x \div Advance)' = x \div Advance /\ (y \div LineHeight)' = y \div LineHeight
    BY <1>1, <1>9, Zenon DEF vars
  <2> QED
    BY <2>1, Zenon DEF Screen!terminalVars
<1> QED
  BY <1>5, <1>6, <1>7, <1>8, <1>9, Zenon DEF Next, Screen!Next

(* For every size of the screen, of the glyphs and of a line, and either    *)
(* value of the pixel mask, the renderer is the terminal it promises: each  *)
(* character lands in the cell behind the last, and a full screen scrolls   *)
(* by a line (renderer.cpp:81-99, 131-197).                                 *)
THEOREM IsTerminal == Spec => TerminalSpec
<1>1. PixelInv => RendererTypeOK
  BY DEF PixelInv
<1> QED
  BY <1>1, InitWhole, NextWhole, InitIsTerminal, NextIsTerminal, PTL DEF Spec, TerminalSpec, Screen!Spec
-----------------------------------------------------------------------------
(* Sequences over any set, and one behind another (format.cpp: what is given *)
(* to the stream, and the text of a format).                                *)
IsSeq(s) == \E S : s \in Seq(S)
Join(s, t) == s \o t

(* What is put together keeps its parts.                                    *)
LEMMA Joined ==
  ASSUME NEW s, NEW t, IsSeq(s), IsSeq(t)
  PROVE  /\ IsSeq(Join(s, t)) /\ Len(s) \in Nat /\ Len(t) \in Nat /\ Len(Join(s, t)) = Len(s) + Len(t)
         /\ \A i \in 1 .. Len(s) : Join(s, t)[i] = s[i]
         /\ \A i \in 1 .. Len(t) : Join(s, t)[Len(s) + i] = t[i]
<1>1. PICK S : s \in Seq(S)
  BY DEF IsSeq
<1>2. PICK T : t \in Seq(T)
  BY DEF IsSeq
<1> DEFINE U == S \cup T
<1>3. s \in Seq(U) /\ t \in Seq(U)
  BY <1>1, <1>2
<1> HIDE DEF U
<1>4. s \o t \in Seq(U)
  BY <1>3
<1>5. IsSeq(s \o t)
  BY <1>4, Zenon DEF IsSeq
<1>6. /\ Len(s) \in Nat /\ Len(t) \in Nat /\ Len(s \o t) = Len(s) + Len(t)
      /\ \A i \in 1 .. Len(s) : (s \o t)[i] = s[i]
      /\ \A i \in 1 .. Len(t) : (s \o t)[Len(s) + i] = t[i]
  BY <1>3
<1> QED
  BY <1>5, <1>6 DEF Join

(* Pieces put together one after the other.                                 *)
Sums(f, n, piece) == f = [i \in 0 .. n |-> IF i = 0 THEN <<>> ELSE Join(f[i - 1], piece[i])]

(* A function that puts the pieces together one by one exists.              *)
LEMMA SumsExist ==
  ASSUME NEW n \in Nat, NEW piece
  PROVE  \E f : Sums(f, n, piece)
<1> DEFINE S == {m \in Nat : \E f : Sums(f, m, piece)}
<1>1. 0 \in S
  <2> DEFINE f == [i \in 0 .. 0 |-> <<>>]
  <2>1. f = [i \in 0 .. 0 |-> IF i = 0 THEN <<>> ELSE Join(f[i - 1], piece[i])]
    OBVIOUS
  <2> HIDE DEF f
  <2> QED
    BY <2>1 DEF Sums
<1>2. ASSUME NEW m \in Nat, m \in S PROVE m + 1 \in S
  <2>1. PICK f : f = [i \in 0 .. m |-> IF i = 0 THEN <<>> ELSE Join(f[i - 1], piece[i])]
    BY <1>2 DEF Sums
  <2> DEFINE g == [i \in 0 .. m + 1 |-> IF i = m + 1 THEN Join(f[m], piece[m + 1]) ELSE f[i]]
             h == [i \in 0 .. m + 1 |-> IF i = 0 THEN <<>> ELSE Join(g[i - 1], piece[i])]
  <2>2. ASSUME NEW i \in 0 .. m + 1 PROVE g[i] = h[i]
    <3>1. CASE i = 0
      <4>1. g[i] = f[0] /\ h[i] = <<>>
        BY <3>1
      <4> QED
        BY <2>1, <4>1
    <3>2. CASE i \in 1 .. m
      <4>1. g[i] = f[i] /\ g[i - 1] = f[i - 1] /\ h[i] = Join(g[i - 1], piece[i])
        BY <3>2
      <4>2. f[i] = Join(f[i - 1], piece[i])
        BY <2>1, <3>2
      <4> QED
        BY <4>1, <4>2
    <3>3. CASE i = m + 1
      <4>1. g[i] = Join(f[m], piece[m + 1]) /\ g[i - 1] = f[m] /\ h[i] = Join(g[i - 1], piece[i])
        BY <3>3
      <4> QED
        BY <3>3, <4>1
    <3> QED
      BY <3>1, <3>2, <3>3
  <2>3. g = h
    <3>2. g = [i \in 0 .. m + 1 |-> g[i]] /\ h = [i \in 0 .. m + 1 |-> h[i]]
      OBVIOUS
    <3> HIDE DEF g, h
    <3> QED
      BY <2>2, <3>2
  <2>4. g = [i \in 0 .. m + 1 |-> IF i = 0 THEN <<>> ELSE Join(g[i - 1], piece[i])]
    BY <2>3
  <2> HIDE DEF g
  <2> QED
    BY <2>4 DEF Sums
<1> HIDE DEF S
<1>3. Nat \subseteq S
  BY <1>1, <1>2, Induction
<1> QED
  BY <1>3 DEF S

(* The sums grow, and each piece is found where it was added.               *)
LEMMA SumsGrow ==
  ASSUME NEW n \in Nat, NEW piece, NEW f, Sums(f, n, piece), \A i \in 1 .. n : IsSeq(piece[i])
  PROVE  /\ f[0] = <<>> /\ \A i \in 0 .. n : IsSeq(f[i]) /\ Len(f[i]) \in Nat
         /\ \A i \in 1 .. n : Len(f[i]) = Len(f[i - 1]) + Len(piece[i]) /\ Len(piece[i]) \in Nat
<1>1. /\ f[0] = <<>> /\ \A i \in 1 .. n : f[i] = Join(f[i - 1], piece[i])
  <2>1. f = [i \in 0 .. n |-> IF i = 0 THEN <<>> ELSE Join(f[i - 1], piece[i])]
    BY DEF Sums
  <2>2. 0 \in 0 .. n /\ \A i \in 1 .. n : i \in 0 .. n /\ i # 0
    OBVIOUS
  <2> QED
    BY <2>1, <2>2
<1> DEFINE S == {m \in Nat : m <= n => IsSeq(f[m])}
<1>2. 0 \in S
  <2>1. <<>> \in Seq({})
    OBVIOUS
  <2>2. IsSeq(<<>>)
    BY <2>1, Zenon DEF IsSeq
  <2> QED
    BY <1>1, <2>2
<1>3. ASSUME NEW m \in Nat, m \in S PROVE m + 1 \in S
  <2> SUFFICES ASSUME m + 1 <= n PROVE IsSeq(f[m + 1])
    OBVIOUS
  <2>1. m + 1 \in 1 .. n /\ (m + 1) - 1 = m /\ IsSeq(f[m]) /\ IsSeq(piece[m + 1])
    BY <1>3
  <2>2. f[m + 1] = Join(f[m], piece[m + 1])
    BY <1>1, <2>1
  <2> QED
    BY <2>1, <2>2, Joined
<1> HIDE DEF S
<1>4. Nat \subseteq S
  BY <1>2, <1>3, Induction
<1>5. \A i \in 0 .. n : IsSeq(f[i])
  BY <1>4 DEF S
<1>6. ASSUME NEW i \in 0 .. n PROVE Len(f[i]) \in Nat
  <2>1. PICK T : f[i] \in Seq(T)
    BY <1>5 DEF IsSeq
  <2> QED
    BY <2>1
<1>7. ASSUME NEW i \in 1 .. n
      PROVE  Len(f[i]) = Len(f[i - 1]) + Len(piece[i]) /\ Len(piece[i]) \in Nat
  <2>1. i - 1 \in 0 .. n
    OBVIOUS
  <2> DEFINE a == f[i - 1]
             b == piece[i]
  <2>2. IsSeq(a) /\ IsSeq(b) /\ f[i] = Join(a, b)
    BY <1>1, <1>5, <2>1
  <2> HIDE DEF a, b
  <2>3. Len(f[i]) = Len(a) + Len(b) /\ Len(b) \in Nat
    BY <2>2, Joined
  <2> QED
    BY <2>3 DEF a, b
<1> QED
  BY <1>1, <1>5, <1>6, <1>7

(* Up to any piece and beyond, the whole agrees with the parts.              *)
LEMMA SumsFind ==
  ASSUME NEW n \in Nat, NEW piece, NEW f, Sums(f, n, piece), \A i \in 1 .. n : IsSeq(piece[i]),
         NEW i \in 1 .. n
  PROVE  \A j \in i .. n : /\ Len(f[i]) <= Len(f[j])
                           /\ \A k \in 1 .. Len(piece[i]) : f[j][Len(f[i - 1]) + k] = piece[i][k]
<1> DEFINE p == Len(piece[i])
           q == Len(f[i - 1])
           S == {d \in Nat : i + d <= n => /\ q + p <= Len(f[i + d])
                                           /\ \A k \in 1 .. p : f[i + d][q + k] = piece[i][k]}
<1>0. /\ i - 1 \in 0 .. n /\ i \in 0 .. n /\ q = Len(f[i - 1]) /\ p = Len(piece[i])
  OBVIOUS
<1> HIDE DEF p, q
<1>1. /\ \A j \in 0 .. n : IsSeq(f[j]) /\ Len(f[j]) \in Nat
      /\ \A j \in 1 .. n : Len(f[j]) = Len(f[j - 1]) + Len(piece[j]) /\ Len(piece[j]) \in Nat
  BY SumsGrow
<1>2. \A j \in 1 .. n : f[j] = Join(f[j - 1], piece[j])
  <2>1. f = [j \in 0 .. n |-> IF j = 0 THEN <<>> ELSE Join(f[j - 1], piece[j])]
    BY DEF Sums
  <2>2. \A j \in 1 .. n : j \in 0 .. n /\ j # 0
    OBVIOUS
  <2> QED
    BY <2>1, <2>2
<1>3. p \in Nat /\ q \in Nat /\ Len(f[i]) = q + p
  BY <1>0, <1>1
<1>4. 0 \in S
  <2>1. IsSeq(f[i - 1]) /\ IsSeq(piece[i]) /\ f[i] = Join(f[i - 1], piece[i])
    BY <1>0, <1>1, <1>2
  <2>2. \A k \in 1 .. Len(piece[i]) : f[i][Len(f[i - 1]) + k] = piece[i][k]
    BY <2>1, Joined
  <2>3. i + 0 = i /\ \A k \in 1 .. p : f[i][q + k] = piece[i][k]
    BY <1>0, <2>2
  <2> QED
    BY <1>3, <2>3
<1>5. ASSUME NEW d \in Nat, d \in S PROVE d + 1 \in S
  <2> DEFINE m == i + d
  <2> SUFFICES ASSUME m + 1 <= n
               PROVE  q + p <= Len(f[m + 1]) /\ \A k \in 1 .. p : f[m + 1][q + k] = piece[i][k]
    <3>1. i + (d + 1) = m + 1
      OBVIOUS
    <3> HIDE DEF m
    <3> QED
      BY <3>1
  <2>1. m \in 0 .. n /\ m + 1 \in 1 .. n /\ (m + 1) - 1 = m
    OBVIOUS
  <2>2. q + p <= Len(f[m]) /\ \A k \in 1 .. p : f[m][q + k] = piece[i][k]
    BY <1>5, <2>1
  <2> HIDE DEF m, S
  <2>3. IsSeq(f[m]) /\ IsSeq(piece[m + 1]) /\ f[m + 1] = Join(f[m], piece[m + 1]) /\ Len(f[m]) \in Nat
    BY <1>1, <1>2, <2>1
  <2>4. /\ Len(f[m + 1]) = Len(f[m]) + Len(piece[m + 1]) /\ Len(piece[m + 1]) \in Nat
        /\ \A k \in 1 .. Len(f[m]) : f[m + 1][k] = f[m][k]
    <3> DEFINE a == f[m]
               b == piece[m + 1]
    <3>1. IsSeq(a) /\ IsSeq(b) /\ f[m + 1] = Join(a, b)
      BY <2>3
    <3> HIDE DEF a, b
    <3>2. /\ Len(f[m + 1]) = Len(a) + Len(b) /\ Len(b) \in Nat
          /\ \A k \in 1 .. Len(a) : f[m + 1][k] = a[k]
      BY <3>1, Joined
    <3> QED
      BY <3>2 DEF a, b
  <2>5. ASSUME NEW k \in 1 .. p PROVE q + k \in 1 .. Len(f[m])
    BY <1>3, <2>2, <2>3
  <2>6. q + p <= Len(f[m + 1])
    <3> DEFINE a == Len(f[m])
               b == Len(piece[m + 1])
    <3>1. a \in Nat /\ b \in Nat /\ q + p <= a /\ Len(f[m + 1]) = a + b
      BY <2>2, <2>3, <2>4
    <3> HIDE DEF a, b
    <3> QED
      BY <1>3, <3>1
  <2>7. \A k \in 1 .. p : f[m + 1][q + k] = piece[i][k]
    BY <2>2, <2>4, <2>5
  <2> QED
    BY <2>6, <2>7
<1> HIDE DEF S
<1>6. Nat \subseteq S
  BY <1>4, <1>5, Induction
<1> SUFFICES ASSUME NEW j \in i .. n
             PROVE  /\ Len(f[i]) <= Len(f[j])
                    /\ \A k \in 1 .. Len(piece[i]) : f[j][Len(f[i - 1]) + k] = piece[i][k]
  OBVIOUS
<1>7. j - i \in S /\ i + (j - i) = j
  BY <1>6
<1>8. q + p <= Len(f[j]) /\ \A k \in 1 .. p : f[j][q + k] = piece[i][k]
  BY <1>7 DEF S
<1> QED
  BY <1>0, <1>3, <1>8
-----------------------------------------------------------------------------
(* Sequences of one and of no element.                                      *)
LEMMA Short == /\ IsSeq(<<>>) /\ Len(<<>>) = 0
               /\ \A e : IsSeq(<<e>>) /\ Len(<<e>>) = 1 /\ <<e>>[1] = e
               /\ \A e, g : IsSeq(<<e, g>>) /\ Len(<<e, g>>) = 2 /\ <<e, g>>[1] = e /\ <<e, g>>[2] = g
<1>1. <<>> \in Seq({}) /\ \A e, g : <<e>> \in Seq({e}) /\ <<e, g>> \in Seq({e, g})
  OBVIOUS
<1>2. IsSeq(<<>>) /\ \A e, g : IsSeq(<<e>>) /\ IsSeq(<<e, g>>)
  BY <1>1, Zenon DEF IsSeq
<1> QED
  BY <1>2

(* A character for each digit, and two for a number of two.                 *)
DigitText == <<"0", "1", "2", "3", "4", "5", "6", "7", "8", "9">>

(* Every digit is one character, and DigitValue reads it back.              *)
LEMMA Figures ==
  /\ \A d \in 0 .. 9 : Numerals[d] = <<DigitText[d + 1]>>
  /\ \A n \in 10 .. 99 : Numerals[n] = <<DigitText[n \div 10 + 1], DigitText[(n % 10) + 1]>>
<1>1. Numerals = [n \in 0 .. 99 |-> IF n < 10 THEN <<DigitText[n + 1]>>
                                  ELSE <<DigitText[n \div 10 + 1], DigitText[(n % 10) + 1]>>]
  BY DEF Numerals, DigitText
<1> QED
  BY <1>1

(* The ten digits differ, and differ from the other characters of a         *)
(* directive.                                                               *)
LEMMA DigitsDiffer ==
  /\ \A d \in 0 .. 9, e \in 0 .. 9 : DigitText[d + 1] = DigitText[e + 1] => d = e
  /\ \A d \in 0 .. 9 : /\ DigitText[d + 1] \notin {"*", ".", "%", "-", "+", " ", "#"}
                       /\ DigitText[d + 1] = "0" => d = 0
<1>1. /\ DigitText[1] = "0" /\ DigitText[2] = "1" /\ DigitText[3] = "2" /\ DigitText[4] = "3"
      /\ DigitText[5] = "4" /\ DigitText[6] = "5" /\ DigitText[7] = "6" /\ DigitText[8] = "7"
      /\ DigitText[9] = "8" /\ DigitText[10] = "9"
  BY DEF DigitText
<1>2. ASSUME NEW d \in 0 .. 9
      PROVE  \/ (d = 0 /\ DigitText[d + 1] = "0") \/ (d = 1 /\ DigitText[d + 1] = "1")
             \/ (d = 2 /\ DigitText[d + 1] = "2") \/ (d = 3 /\ DigitText[d + 1] = "3")
             \/ (d = 4 /\ DigitText[d + 1] = "4") \/ (d = 5 /\ DigitText[d + 1] = "5")
             \/ (d = 6 /\ DigitText[d + 1] = "6") \/ (d = 7 /\ DigitText[d + 1] = "7")
             \/ (d = 8 /\ DigitText[d + 1] = "8") \/ (d = 9 /\ DigitText[d + 1] = "9")
  <2> DEFINE c == DigitText[d + 1]
  <2>1. d = 0 => c = "0"
    BY <1>1
  <2>2. d = 1 => c = "1"
    BY <1>1
  <2>3. d = 2 => c = "2"
    BY <1>1
  <2>4. d = 3 => c = "3"
    BY <1>1
  <2>5. d = 4 => c = "4"
    BY <1>1
  <2>6. d = 5 => c = "5"
    BY <1>1
  <2>7. d = 6 => c = "6"
    BY <1>1
  <2>8. d = 7 => c = "7"
    BY <1>1
  <2>9. d = 8 => c = "8"
    BY <1>1
  <2>10. d = 9 => c = "9"
    BY <1>1
  <2>11. d \in {0, 1, 2, 3, 4, 5, 6, 7, 8, 9}
    OBVIOUS
  <2> HIDE DEF c
  <2>12. \/ (d = 0 /\ c = "0") \/ (d = 1 /\ c = "1") \/ (d = 2 /\ c = "2") \/ (d = 3 /\ c = "3")
         \/ (d = 4 /\ c = "4") \/ (d = 5 /\ c = "5") \/ (d = 6 /\ c = "6") \/ (d = 7 /\ c = "7")
         \/ (d = 8 /\ c = "8") \/ (d = 9 /\ c = "9")
    BY <2>1, <2>2, <2>3, <2>4, <2>5, <2>6, <2>7, <2>8, <2>9, <2>10, <2>11
  <2> QED
    BY <2>12 DEF c
<1> QED
  BY <1>2

(* DigitValue reads each digit.                                             *)
LEMMA DigitRead ==
  ASSUME NEW d \in 0 .. 9
  PROVE  DigitText[d + 1] \in DOMAIN DigitValue /\ DigitValue[DigitText[d + 1]] = d
<1>1. \A n \in 0 .. 9 : Numerals[n][1] = DigitText[n + 1]
  BY Figures
<1>2. DigitText[d + 1] \in {Numerals[n][1] : n \in 0 .. 9}
  BY <1>1
<1>3. DigitValue[DigitText[d + 1]] = CHOOSE n \in 0 .. 9 : Numerals[n][1] = DigitText[d + 1]
  BY <1>2 DEF DigitValue
<1>4. \A n \in 0 .. 9 : Numerals[n][1] = DigitText[d + 1] <=> n = d
  BY <1>1, DigitsDiffer
<1> QED
  BY <1>2, <1>3, <1>4 DEF DigitValue

(* What a number of k characters is after its first j: the loops of         *)
(* state_width and state_precision.                                         *)
Read(number, j) ==
  IF j = 0 THEN 0
  ELSE IF number.by = "digits" /\ number.n >= 10 /\ j = 1 THEN number.n \div 10 ELSE number.n

NumberChar(number, j) == NumberText(number)[j]

(* A number of the format: its characters, and what reading them one by one *)
(* gives (state_width, state_precision).                                    *)
LEMMA NumberRead ==
  ASSUME NEW number, NEW least \in {0, 1}, IsNumber(number, least)
  PROVE  /\ IsSeq(NumberText(number)) /\ number.n \in Nat
         /\ Len(NumberText(number)) \in 0 .. 2
         /\ Len(NumberText(number)) = 0 <=> number.by = "none"
         /\ Read(number, Len(NumberText(number))) = number.n
         /\ \A j \in 0 .. 2 : Read(number, j) \in Nat
         /\ number.by = "star" => Len(NumberText(number)) = 1 /\ NumberChar(number, 1) = "*"
         /\ number.by # "star" =>
              \A j \in 1 .. Len(NumberText(number)) :
                 /\ NumberChar(number, j) \in DOMAIN DigitValue
                 /\ NumberChar(number, j) # "*"
                 /\ Read(number, j) = Read(number, j - 1) * 10 + DigitValue[NumberChar(number, j)]
         /\ least = 1 /\ number.by # "none" => NumberChar(number, 1) \notin DOMAIN FlagOf
<1>f. DOMAIN FlagOf = {"-", "+", " ", "#", "0"}
  BY DEF FlagOf
<1>1. CASE number.by = "none"
  <2>1. NumberText(number) = <<>> /\ number.n = 0
    BY <1>1 DEF NumberText, IsNumber
  <2> QED
    BY <1>1, <2>1, Short DEF Read
<1>2. CASE number.by = "star"
  <2>1. NumberText(number) = <<"*">> /\ number.n \in Nat
    BY <1>2 DEF NumberText, IsNumber
  <2>2. NumberText(number)[1] = "*" /\ Len(NumberText(number)) = 1
    BY <2>1
  <2>3. \A j \in 0 .. 2 : Read(number, j) \in Nat
    BY <1>2, <2>1 DEF Read
  <2>4. Read(number, 1) = number.n
    BY <1>2 DEF Read
  <2> QED
    <3>1. IsSeq(NumberText(number)) /\ number.n \in Nat
      BY <2>1, Short
    <3>2. NumberChar(number, 1) = "*" /\ NumberChar(number, 1) \notin DOMAIN FlagOf
      BY <1>f, <2>2 DEF NumberChar
    <3> QED
      BY <1>2, <2>2, <2>3, <2>4, <3>1, <3>2
<1>3. CASE number.by = "digits" /\ number.n < 10
  <2> DEFINE n == number.n
  <2>1. NumberText(number) = Numerals[n] /\ n \in 0 .. 9 /\ (least = 1 => n # 0)
    BY <1>3 DEF NumberText, IsNumber
  <2> HIDE DEF n
  <2>2. NumberText(number) = <<DigitText[n + 1]>>
    BY <2>1, Figures
  <2>3. Len(NumberText(number)) = 1 /\ NumberChar(number, 1) = DigitText[n + 1] /\ IsSeq(NumberText(number))
    BY <2>2, Short DEF NumberChar
  <2>4. Read(number, 0) = 0 /\ \A j \in 1 .. 2 : Read(number, j) = n
    <3>1. n < 10 /\ \A j \in 1 .. 2 : j # 0
      BY <2>1
    <3>2. \A j \in 1 .. 2 : Read(number, j) = n
      BY <2>1, <3>1 DEF Read, n
    <3> QED
      BY <3>2 DEF Read
  <2>5. NumberChar(number, 1) \notin DOMAIN FlagOf \/ n = 0
    BY <1>f, <2>1, <2>3, DigitsDiffer
  <2>6. /\ NumberChar(number, 1) \in DOMAIN DigitValue /\ NumberChar(number, 1) # "*"
        /\ DigitValue[NumberChar(number, 1)] = n
    BY <2>1, <2>3, DigitRead, DigitsDiffer
  <2>7. \A j \in 0 .. 2 : Read(number, j) \in Nat
    <3>1. \A j \in 0 .. 2 : j = 0 \/ j \in 1 .. 2
      OBVIOUS
    <3> QED
      BY <2>1, <2>4, <3>1
  <2>8. Read(number, 1) = Read(number, 1 - 1) * 10 + DigitValue[NumberChar(number, 1)]
    BY <2>1, <2>4, <2>6
  <2> QED
    BY <1>3, <2>1, <2>3, <2>4, <2>5, <2>6, <2>7, <2>8 DEF n
<1>4. CASE number.by = "digits" /\ number.n >= 10
  <2> DEFINE n == number.n
             u == n \div 10
             v == n % 10
  <2>1. NumberText(number) = Numerals[n] /\ n \in 10 .. 99
    BY <1>4 DEF NumberText, IsNumber
  <2>2. u \in 1 .. 9 /\ v \in 0 .. 9 /\ n = u * 10 + v
    BY <2>1
  <2>3. NumberText(number) = <<DigitText[u + 1], DigitText[v + 1]>>
    BY <2>1, Figures
  <2>4. /\ Read(number, 0) = 0 /\ Read(number, 1) = u /\ Read(number, 2) = n
    BY <1>4 DEF Read
  <2> HIDE DEF n, u, v
  <2>5. /\ Len(NumberText(number)) = 2 /\ NumberChar(number, 1) = DigitText[u + 1]
        /\ NumberChar(number, 2) = DigitText[v + 1] /\ IsSeq(NumberText(number))
    BY <2>3, Short DEF NumberChar
  <2>6. NumberChar(number, 1) \notin DOMAIN FlagOf
    <3>1. u \in 0 .. 9 /\ u # 0
      BY <2>2
    <3> QED
      BY <1>f, <2>5, <3>1, DigitsDiffer
  <2>7. /\ NumberChar(number, 1) \in DOMAIN DigitValue /\ NumberChar(number, 1) # "*"
        /\ NumberChar(number, 2) \in DOMAIN DigitValue /\ NumberChar(number, 2) # "*"
        /\ DigitValue[NumberChar(number, 1)] = u /\ DigitValue[NumberChar(number, 2)] = v
    <3>1. u \in 0 .. 9
      BY <2>2
    <3> QED
      BY <2>2, <2>5, <3>1, DigitRead, DigitsDiffer
  <2>8. \A j \in 0 .. 2 : j = 0 \/ j = 1 \/ j = 2
    OBVIOUS
  <2>9. \A j \in 0 .. 2 : Read(number, j) \in Nat
    BY <2>1, <2>2, <2>4, <2>8
  <2>10. \A j \in 1 .. 2 : /\ NumberChar(number, j) \in DOMAIN DigitValue
                           /\ NumberChar(number, j) # "*"
                           /\ Read(number, j) = Read(number, j - 1) * 10 + DigitValue[NumberChar(number, j)]
    <3>1. /\ Read(number, 1) = Read(number, 1 - 1) * 10 + DigitValue[NumberChar(number, 1)]
          /\ Read(number, 2) = Read(number, 2 - 1) * 10 + DigitValue[NumberChar(number, 2)]
      BY <2>2, <2>4, <2>7
    <3>2. \A j \in 1 .. 2 : j = 1 \/ j = 2
      OBVIOUS
    <3> QED
      BY <2>7, <3>1, <3>2
  <2> QED
    BY <1>4, <2>1, <2>4, <2>5, <2>6, <2>9, <2>10 DEF n
<1>5. number.by \in {"none", "digits", "star"} /\ (number.by = "digits" => number.n \in Nat)
  BY DEF IsNumber
<1> QED
  BY <1>1, <1>2, <1>3, <1>4, <1>5
-----------------------------------------------------------------------------
(* Where the parts of a directive are in its text.                          *)
BeforeWidth(item) == IF item.flag = "none" THEN 1 ELSE 2
BeforePoint(item) == BeforeWidth(item) + Len(NumberText(item.width))
BeforePrecision(item) == BeforePoint(item) + (IF item.precision.by = "none" THEN 0 ELSE 1)
BeforeSpec(item) == BeforePrecision(item) + Len(NumberText(item.precision))

Parts(u, s, t) ==
  /\ IsSeq(u) /\ Len(u) = Len(s) + Len(t) /\ \A i \in 1 .. Len(s) : u[i] = s[i]
  /\ \A i \in 1 .. Len(t) : u[Len(s) + i] = t[i]

(* The same, as one fact.                                                   *)
LEMMA JoinedParts ==
  ASSUME NEW s, NEW t, IsSeq(s), IsSeq(t)
  PROVE  Parts(Join(s, t), s, t)
BY Joined DEF Parts

TextParts(item) ==
  /\ IsSeq(ItemText(item)) /\ ItemText(item)[1] = "%"
  /\ item.flag # "none" => ItemText(item)[2] = item.flag
  /\ \A k \in 1 .. Len(NumberText(item.width)) :
        ItemText(item)[BeforeWidth(item) + k] = NumberChar(item.width, k)
  /\ item.precision.by # "none" => ItemText(item)[BeforePoint(item) + 1] = "."
  /\ \A k \in 1 .. Len(NumberText(item.precision)) :
        ItemText(item)[BeforePrecision(item) + k] = NumberChar(item.precision, k)
  /\ item.spec # "none" => ItemText(item)[BeforeSpec(item) + 1] = item.spec
  /\ Len(ItemText(item)) = BeforeSpec(item) + (IF item.spec = "none" THEN 0 ELSE 1)

(* A directive's characters: '%', flag, width, point, precision, specifier. *)
LEMMA DirectiveText ==
  ASSUME NEW item, IsDirective(item), item.spec # "text"
  PROVE  TextParts(item)
<1>1. PICK a, b, c, d, e, f :
        /\ a = <<"%">> /\ b = (IF item.flag = "none" THEN <<>> ELSE <<item.flag>>)
        /\ c = NumberText(item.width)
        /\ d = (IF item.precision.by = "none" THEN <<>> ELSE <<".">>)
        /\ e = NumberText(item.precision)
        /\ f = (IF item.spec = "none" THEN <<>> ELSE <<item.spec>>)
  OBVIOUS
<1>2. PICK t2, t3, t4, t5, t6 :
        t2 = Join(a, b) /\ t3 = Join(t2, c) /\ t4 = Join(t3, d) /\ t5 = Join(t4, e) /\ t6 = Join(t5, f)
  OBVIOUS
<1>3. ItemText(item) = t6
  BY <1>1, <1>2 DEF ItemText, Join
<1>a. IsSeq(a) /\ Len(a) = 1 /\ a[1] = "%"
  BY <1>1, Short
<1>b. IsSeq(b) /\ (item.flag = "none" => Len(b) = 0) /\ (item.flag # "none" => Len(b) = 1 /\ b[1] = item.flag)
  BY <1>1, Short
<1>d. /\ IsSeq(d) /\ (item.precision.by = "none" => Len(d) = 0)
      /\ item.precision.by # "none" => Len(d) = 1 /\ d[1] = "."
  BY <1>1, Short
<1>f. IsSeq(f) /\ (item.spec = "none" => Len(f) = 0) /\ (item.spec # "none" => Len(f) = 1 /\ f[1] = item.spec)
  BY <1>1, Short
<1>5. /\ IsSeq(c) /\ Len(c) \in 0 .. 2 /\ IsSeq(e) /\ Len(e) \in 0 .. 2
  BY <1>1, NumberRead DEF IsDirective
<1>6. /\ IsSeq(t2) /\ Len(t2) = 1 + Len(b) /\ t2[1] = "%" /\ \A i \in 1 .. Len(b) : t2[1 + i] = b[i]
  <2>1. \A i \in 1 .. Len(a) : t2[i] = a[i]
    BY <1>2, <1>a, <1>b, Joined
  <2>2. 1 \in 1 .. Len(a)
    BY <1>a
  <2> QED
    BY <1>2, <1>a, <1>b, <2>1, <2>2, Joined
<1>7. /\ IsSeq(t3) /\ Len(t3) = Len(t2) + Len(c) /\ \A i \in 1 .. Len(t2) : t3[i] = t2[i]
      /\ \A i \in 1 .. Len(c) : t3[Len(t2) + i] = c[i]
  <2>1. Parts(t3, t2, c)
    BY <1>2, <1>5, <1>6, JoinedParts
  <2> QED
    BY <2>1 DEF Parts
<1>8. /\ IsSeq(t4) /\ Len(t4) = Len(t3) + Len(d) /\ \A i \in 1 .. Len(t3) : t4[i] = t3[i]
      /\ \A i \in 1 .. Len(d) : t4[Len(t3) + i] = d[i]
  <2>1. Parts(t4, t3, d)
    BY <1>2, <1>d, <1>7, JoinedParts
  <2> QED
    BY <2>1 DEF Parts
<1>9. /\ IsSeq(t5) /\ Len(t5) = Len(t4) + Len(e) /\ \A i \in 1 .. Len(t4) : t5[i] = t4[i]
      /\ \A i \in 1 .. Len(e) : t5[Len(t4) + i] = e[i]
  <2>1. Parts(t5, t4, e)
    BY <1>2, <1>5, <1>8, JoinedParts
  <2> QED
    BY <2>1 DEF Parts
<1>10. /\ IsSeq(t6) /\ Len(t6) = Len(t5) + Len(f) /\ \A i \in 1 .. Len(t5) : t6[i] = t5[i]
       /\ \A i \in 1 .. Len(f) : t6[Len(t5) + i] = f[i]
  <2>1. Parts(t6, t5, f)
    BY <1>2, <1>f, <1>9, JoinedParts
  <2> QED
    BY <2>1 DEF Parts
<1>11. /\ Len(t2) = BeforeWidth(item) /\ Len(t3) = BeforePoint(item) /\ Len(t4) = BeforePrecision(item)
       /\ Len(t5) = BeforeSpec(item)
  <2>1. Len(t2) = BeforeWidth(item)
    <3>1. Len(t2) = 1 + Len(b) /\ BeforeWidth(item) = (IF item.flag = "none" THEN 1 ELSE 2)
      BY <1>6 DEF BeforeWidth
    <3>2. Len(b) = (IF item.flag = "none" THEN 0 ELSE 1)
      BY <1>b
    <3> QED
      BY <3>1, <3>2
  <2>2. Len(t3) = BeforePoint(item)
    BY <1>1, <1>7, <2>1 DEF BeforePoint
  <2>3. Len(t4) = BeforePrecision(item)
    BY <1>d, <1>8, <2>2 DEF BeforePrecision
  <2> QED
    BY <1>1, <1>9, <2>1, <2>2, <2>3 DEF BeforeSpec
<1>12. PICK nb, nc, nd, ne, nf \in 0 .. 2 :
         nb = Len(b) /\ nc = Len(c) /\ nd = Len(d) /\ ne = Len(e) /\ nf = Len(f)
  BY <1>b, <1>d, <1>f, <1>5
<1>13. /\ Len(t2) = 1 + nb /\ Len(t3) = 1 + nb + nc /\ Len(t4) = 1 + nb + nc + nd
       /\ Len(t5) = 1 + nb + nc + nd + ne
  BY <1>6, <1>7, <1>8, <1>9, <1>12
<1>14. /\ \A i \in 1 .. Len(t4) : t6[i] = t4[i]
       /\ \A i \in 1 .. Len(t3) : t6[i] = t3[i]
       /\ \A i \in 1 .. Len(t2) : t6[i] = t2[i]
  <2>1. /\ \A i \in 1 .. Len(t4) : i \in 1 .. Len(t5)
        /\ \A i \in 1 .. Len(t3) : i \in 1 .. Len(t4)
        /\ \A i \in 1 .. Len(t2) : i \in 1 .. Len(t3)
    BY <1>13
  <2>2. \A i \in 1 .. Len(t4) : t6[i] = t4[i]
    BY <1>9, <1>10, <2>1
  <2>3. \A i \in 1 .. Len(t3) : t6[i] = t3[i]
    BY <1>8, <2>1, <2>2
  <2> QED
    BY <1>7, <2>1, <2>2, <2>3
<1>15. t6[1] = "%" /\ (item.flag # "none" => t6[2] = item.flag)
  <2>1. 1 \in 1 .. Len(t2) /\ (item.flag # "none" => 2 \in 1 .. Len(t2) /\ 1 \in 1 .. Len(b) /\ 1 + 1 = 2)
    BY <1>b, <1>12, <1>13
  <2>2. item.flag # "none" => t2[2] = item.flag
    BY <1>b, <1>6, <2>1
  <2> QED
    BY <1>6, <1>14, <2>1, <2>2
<1>16. \A k \in 1 .. Len(c) : t6[BeforeWidth(item) + k] = c[k]
  <2>1. \A k \in 1 .. Len(c) : Len(t2) + k \in 1 .. Len(t3)
    BY <1>12, <1>13
  <2> QED
    BY <1>7, <1>11, <1>14, <2>1
<1>17. item.precision.by # "none" => t6[BeforePoint(item) + 1] = "."
  <2>1. item.precision.by # "none" => Len(t3) + 1 \in 1 .. Len(t4) /\ 1 \in 1 .. Len(d)
    BY <1>d, <1>12, <1>13
  <2> QED
    BY <1>d, <1>8, <1>11, <1>14, <2>1
<1>18. \A k \in 1 .. Len(e) : t6[BeforePrecision(item) + k] = e[k]
  <2>1. \A k \in 1 .. Len(e) : Len(t4) + k \in 1 .. Len(t5)
    BY <1>12, <1>13
  <2> QED
    BY <1>9, <1>10, <1>11, <2>1
<1>19. /\ item.spec # "none" => t6[BeforeSpec(item) + 1] = item.spec
       /\ Len(t6) = BeforeSpec(item) + (IF item.spec = "none" THEN 0 ELSE 1)
  <2>1. item.spec # "none" => 1 \in 1 .. Len(f)
    BY <1>f
  <2> QED
    BY <1>f, <1>10, <1>11, <2>1
<1> QED
  BY <1>1, <1>3, <1>10, <1>15, <1>16, <1>17, <1>18, <1>19 DEF TextParts, NumberChar

(* And its arguments.                                                       *)
BeforePrecisionArg(item) == IF item.width.by = "star" THEN 1 ELSE 0
BeforeValue(item) == BeforePrecisionArg(item) + (IF item.precision.by = "star" THEN 1 ELSE 0)

ArgumentParts(item) ==
  /\ IsSeq(ItemArguments(item))
  /\ item.width.by = "star" => ItemArguments(item)[1] = item.width.n
  /\ item.precision.by = "star" => ItemArguments(item)[BeforePrecisionArg(item) + 1] = item.precision.n
  /\ item.spec \in TakesArgument => ItemArguments(item)[BeforeValue(item) + 1] = item.value
  /\ Len(ItemArguments(item)) = BeforeValue(item) + (IF item.spec \in TakesArgument THEN 1 ELSE 0)

(* A directive's arguments: of a '*' width, of a '*' precision, its value.  *)
LEMMA DirectiveArguments ==
  ASSUME NEW item, item.spec # "text"
  PROVE  ArgumentParts(item)
<1> DEFINE a == IF item.width.by = "star" THEN <<item.width.n>> ELSE <<>>
           b == IF item.precision.by = "star" THEN <<item.precision.n>> ELSE <<>>
           c == IF item.spec \in TakesArgument THEN <<item.value>> ELSE <<>>
           t2 == Join(a, b)
           t3 == Join(t2, c)
<1>1. ItemArguments(item) = t3
  BY DEF ItemArguments, Join
<1>2. /\ IsSeq(a) /\ Len(a) = BeforePrecisionArg(item)
      /\ item.width.by = "star" => a[1] = item.width.n
      /\ IsSeq(b) /\ Len(b) = IF item.precision.by = "star" THEN 1 ELSE 0
      /\ item.precision.by = "star" => b[1] = item.precision.n
      /\ IsSeq(c) /\ Len(c) = IF item.spec \in TakesArgument THEN 1 ELSE 0
      /\ item.spec \in TakesArgument => c[1] = item.value
  BY Short DEF BeforePrecisionArg
<1> HIDE DEF a, b, c
<1>3. /\ IsSeq(t2) /\ Len(t2) = BeforeValue(item) /\ Len(t2) \in Nat
      /\ item.width.by = "star" => t2[1] = item.width.n /\ Len(t2) >= 1
      /\ item.precision.by = "star" => /\ t2[BeforePrecisionArg(item) + 1] = item.precision.n
                                       /\ BeforePrecisionArg(item) + 1 \in 1 .. Len(t2)
  <2>1. /\ IsSeq(t2) /\ Len(t2) = Len(a) + Len(b) /\ \A i \in 1 .. Len(a) : t2[i] = a[i]
        /\ \A i \in 1 .. Len(b) : t2[Len(a) + i] = b[i]
    BY <1>2, Joined
  <2> QED
    BY <1>2, <2>1 DEF BeforeValue, BeforePrecisionArg
<1> HIDE DEF t2
<1>4. /\ IsSeq(t3) /\ Len(t3) = Len(t2) + Len(c) /\ \A i \in 1 .. Len(t2) : t3[i] = t2[i]
      /\ \A i \in 1 .. Len(c) : t3[Len(t2) + i] = c[i]
  BY <1>2, <1>3, Joined
<1> HIDE DEF t3
<1>5. item.width.by = "star" => t3[1] = item.width.n
  BY <1>3, <1>4
<1>6. item.precision.by = "star" => t3[BeforePrecisionArg(item) + 1] = item.precision.n
  BY <1>3, <1>4
<1>7. item.spec \in TakesArgument => t3[BeforeValue(item) + 1] = item.value
  BY <1>2, <1>3, <1>4
<1> QED
  BY <1>1, <1>2, <1>3, <1>4, <1>5, <1>6, <1>7 DEF ArgumentParts
-----------------------------------------------------------------------------
(* Where the items of a format begin in its text and in its arguments.      *)
Start(list, i) == Len(TextUpTo(list)[i])
ArgStart(list, i) == Len(ArgumentsUpTo(list)[i])

ItemLength(item) == IF item.spec = "text" THEN 1
                    ELSE BeforeSpec(item) + (IF item.spec = "none" THEN 0 ELSE 1)
ArgCount(item) == IF item.spec = "text" THEN 0
                  ELSE BeforeValue(item) + (IF item.spec \in TakesArgument THEN 1 ELSE 0)

(* What an item adds to both.                                               *)
LEMMA ItemParts ==
  ASSUME NEW item, IsItem(item)
  PROVE  /\ IsSeq(ItemText(item)) /\ Len(ItemText(item)) = ItemLength(item) /\ ItemLength(item) \in Nat \ {0}
         /\ IsSeq(ItemArguments(item)) /\ Len(ItemArguments(item)) = ArgCount(item) /\ ArgCount(item) \in Nat
         /\ item.spec = "text" => ItemText(item)[1] = item.value
         /\ item.spec # "text" => TextParts(item) /\ ArgumentParts(item)
<1>1. CASE item.spec = "text"
  <2>1. ItemText(item) = <<item.value>> /\ ItemArguments(item) = <<>>
    BY <1>1 DEF ItemText, ItemArguments
  <2>2. ItemLength(item) = 1 /\ ArgCount(item) = 0
    BY <1>1 DEF ItemLength, ArgCount
  <2> QED
    BY <1>1, <2>1, <2>2, Short
<1>2. CASE item.spec # "text"
  <2>1. IsDirective(item)
    BY <1>2 DEF IsItem
  <2>2. TextParts(item) /\ ArgumentParts(item)
    BY <1>2, <2>1, DirectiveText, DirectiveArguments
  <2>3. /\ ItemLength(item) = BeforeSpec(item) + (IF item.spec = "none" THEN 0 ELSE 1)
        /\ ArgCount(item) = BeforeValue(item) + (IF item.spec \in TakesArgument THEN 1 ELSE 0)
    BY <1>2 DEF ItemLength, ArgCount
  <2>4. PICK m \in 0 .. 2, n \in 0 .. 2 : m = Len(NumberText(item.width)) /\ n = Len(NumberText(item.precision))
    BY <2>1, NumberRead DEF IsDirective
  <2>5. BeforeSpec(item) \in Nat \ {0}
    BY <2>4 DEF BeforeWidth, BeforePoint, BeforePrecision, BeforeSpec
  <2>6. BeforeValue(item) \in Nat
    BY DEF BeforeValue, BeforePrecisionArg
  <2>7. ItemLength(item) \in Nat \ {0} /\ ArgCount(item) \in Nat
    BY <2>3, <2>5, <2>6
  <2>8. IsSeq(ItemText(item)) /\ Len(ItemText(item)) = ItemLength(item)
    BY <2>2, <2>3 DEF TextParts
  <2>9. IsSeq(ItemArguments(item)) /\ Len(ItemArguments(item)) = ArgCount(item)
    BY <2>2, <2>3 DEF ArgumentParts
  <2> QED
    BY <1>2, <2>2, <2>7, <2>8, <2>9
<1> QED
  BY <1>1, <1>2

(* What is assumed of the formats, by item.                                 *)
LEMMA Listed ==
  ASSUME NEW list \in Formats
  PROVE  /\ Len(list) \in Nat /\ DOMAIN list = 1 .. Len(list)
         /\ \A i \in 1 .. Len(list) : IsItem(list[i]) /\ (list[i].spec = "none" => i = Len(list))
<1>1. list \in Seq({list[i] : i \in DOMAIN list})
  BY FormatsAssumption DEF IsSequence
<1>2. Len(list) \in Nat /\ DOMAIN list = 1 .. Len(list)
  <2> DEFINE S == {list[i] : i \in DOMAIN list}
  <2>1. list \in Seq(S)
    BY <1>1
  <2> HIDE DEF S
  <2> QED
    BY <2>1
<1> QED
  BY <1>2, FormatsAssumption

TextOf(list) == [i \in 1 .. Len(list) |-> ItemText(list[i])]
ArgumentsOf(list) == [i \in 1 .. Len(list) |-> ItemArguments(list[i])]

(* The text of a format is its items' texts put together,                   *)
LEMMA TextIsSum ==
  ASSUME NEW list \in Formats
  PROVE  Sums(TextUpTo(list), Len(list), TextOf(list))
<1> DEFINE n == Len(list)
<1>0. n \in Nat
  BY Listed
<1>1. TextUpTo(list) = CHOOSE f : f = [i \in 0 .. n |-> IF i = 0 THEN <<>> ELSE f[i - 1] \o ItemText(list[i])]
  BY DEF TextUpTo
<1>2. ASSUME NEW f
      PROVE  [i \in 0 .. n |-> IF i = 0 THEN <<>> ELSE f[i - 1] \o ItemText(list[i])]
             = [i \in 0 .. n |-> IF i = 0 THEN <<>> ELSE Join(f[i - 1], TextOf(list)[i])]
  <2>1. ASSUME NEW i \in 0 .. n, i # 0 PROVE f[i - 1] \o ItemText(list[i]) = Join(f[i - 1], TextOf(list)[i])
    <3>1. i \in 1 .. Len(list)
      BY <1>0, <2>1
    <3>2. TextOf(list)[i] = ItemText(list[i])
      BY <3>1 DEF TextOf
    <3> QED
      BY <3>2 DEF Join
  <2> QED
    BY <2>1
<1>3. TextUpTo(list) = CHOOSE f : Sums(f, n, TextOf(list))
  BY <1>1, <1>2 DEF Sums
<1> HIDE DEF n
<1>4. Sums(TextUpTo(list), n, TextOf(list))
  BY <1>0, <1>3, SumsExist
<1> QED
  BY <1>4 DEF n

(* and its arguments are theirs.                                            *)
LEMMA ArgumentsIsSum ==
  ASSUME NEW list \in Formats
  PROVE  Sums(ArgumentsUpTo(list), Len(list), ArgumentsOf(list))
<1> DEFINE n == Len(list)
<1>0. n \in Nat
  BY Listed
<1>1. ArgumentsUpTo(list) =
        CHOOSE f : f = [i \in 0 .. n |-> IF i = 0 THEN <<>> ELSE f[i - 1] \o ItemArguments(list[i])]
  BY DEF ArgumentsUpTo
<1>2. ASSUME NEW f
      PROVE  [i \in 0 .. n |-> IF i = 0 THEN <<>> ELSE f[i - 1] \o ItemArguments(list[i])]
             = [i \in 0 .. n |-> IF i = 0 THEN <<>> ELSE Join(f[i - 1], ArgumentsOf(list)[i])]
  <2>1. ASSUME NEW i \in 0 .. n, i # 0
        PROVE  f[i - 1] \o ItemArguments(list[i]) = Join(f[i - 1], ArgumentsOf(list)[i])
    <3>1. i \in 1 .. Len(list)
      BY <1>0, <2>1
    <3>2. ArgumentsOf(list)[i] = ItemArguments(list[i])
      BY <3>1 DEF ArgumentsOf
    <3> QED
      BY <3>2 DEF Join
  <2> QED
    BY <2>1
<1>3. ArgumentsUpTo(list) = CHOOSE f : Sums(f, n, ArgumentsOf(list))
  BY <1>1, <1>2 DEF Sums
<1> HIDE DEF n
<1>4. Sums(ArgumentsUpTo(list), n, ArgumentsOf(list))
  BY <1>0, <1>3, SumsExist
<1> QED
  BY <1>4 DEF n

(* Every item begins behind the one before, and is found there.              *)
WholeText(list) == TextUpTo(list)[Len(list)]
WholeArgs(list) == ArgumentsUpTo(list)[Len(list)]

Laid(list) ==
  /\ Start(list, 0) = 0 /\ ArgStart(list, 0) = 0
  /\ \A i \in 0 .. Len(list) : Start(list, i) \in Nat /\ ArgStart(list, i) \in Nat
  /\ \A i \in 1 .. Len(list) : /\ Start(list, i) = Start(list, i - 1) + ItemLength(list[i])
                               /\ ArgStart(list, i) = ArgStart(list, i - 1) + ArgCount(list[i])
  /\ \A i \in 1 .. Len(list) : \A k \in 1 .. ItemLength(list[i]) :
        WholeText(list)[Start(list, i - 1) + k] = ItemText(list[i])[k]
  /\ \A i \in 1 .. Len(list) : \A k \in 1 .. ArgCount(list[i]) :
        WholeArgs(list)[ArgStart(list, i - 1) + k] = ItemArguments(list[i])[k]
  /\ Len(WholeText(list)) = Start(list, Len(list))

(* Every format is laid out so.                                             *)
LEMMA Layout ==
  ASSUME NEW list \in Formats
  PROVE  Laid(list)
<1>1. PICK n \in Nat : n = Len(list)
  BY Listed
<1>2. PICK f, p, g, q : f = TextUpTo(list) /\ p = TextOf(list) /\ g = ArgumentsUpTo(list) /\ q = ArgumentsOf(list)
  OBVIOUS
<1>3. Sums(f, n, p) /\ Sums(g, n, q)
  BY <1>1, <1>2, TextIsSum, ArgumentsIsSum
<1>4. \A i \in 1 .. n : /\ IsSeq(p[i]) /\ p[i] = ItemText(list[i]) /\ Len(p[i]) = ItemLength(list[i])
                        /\ IsSeq(q[i]) /\ q[i] = ItemArguments(list[i]) /\ Len(q[i]) = ArgCount(list[i])
  <2> SUFFICES ASSUME NEW i \in 1 .. n
               PROVE  /\ IsSeq(p[i]) /\ p[i] = ItemText(list[i]) /\ Len(p[i]) = ItemLength(list[i])
                      /\ IsSeq(q[i]) /\ q[i] = ItemArguments(list[i]) /\ Len(q[i]) = ArgCount(list[i])
    OBVIOUS
  <2>1. p[i] = ItemText(list[i]) /\ q[i] = ItemArguments(list[i])
    BY <1>1, <1>2 DEF TextOf, ArgumentsOf
  <2>2. IsItem(list[i])
    BY <1>1, Listed
  <2> QED
    BY <2>1, <2>2, ItemParts
<1>5. /\ f[0] = <<>> /\ \A i \in 0 .. n : Len(f[i]) \in Nat
      /\ \A i \in 1 .. n : Len(f[i]) = Len(f[i - 1]) + Len(p[i])
  BY <1>3, <1>4, SumsGrow
<1>6. /\ g[0] = <<>> /\ \A i \in 0 .. n : Len(g[i]) \in Nat
      /\ \A i \in 1 .. n : Len(g[i]) = Len(g[i - 1]) + Len(q[i])
  BY <1>3, <1>4, SumsGrow
<1>7. ASSUME NEW i \in 1 .. n
      PROVE  \A k \in 1 .. Len(p[i]) : f[n][Len(f[i - 1]) + k] = p[i][k]
  <2>1. \A m \in 1 .. n : IsSeq(p[m])
    BY <1>4
  <2>2. \A j \in i .. n : /\ Len(f[i]) <= Len(f[j])
                          /\ \A k \in 1 .. Len(p[i]) : f[j][Len(f[i - 1]) + k] = p[i][k]
    BY <1>3, <2>1, SumsFind
  <2>3. n \in i .. n
    OBVIOUS
  <2> QED
    BY <2>2, <2>3
<1>8. ASSUME NEW i \in 1 .. n
      PROVE  \A k \in 1 .. Len(q[i]) : g[n][Len(g[i - 1]) + k] = q[i][k]
  <2>1. \A m \in 1 .. n : IsSeq(q[m])
    BY <1>4
  <2>2. \A j \in i .. n : /\ Len(g[i]) <= Len(g[j])
                          /\ \A k \in 1 .. Len(q[i]) : g[j][Len(g[i - 1]) + k] = q[i][k]
    BY <1>3, <2>1, SumsFind
  <2>3. n \in i .. n
    OBVIOUS
  <2> QED
    BY <2>2, <2>3
<1>9. /\ \A i : Start(list, i) = Len(f[i]) /\ ArgStart(list, i) = Len(g[i])
      /\ WholeText(list) = f[n] /\ WholeArgs(list) = g[n]
  BY <1>1, <1>2 DEF Start, ArgStart, WholeText, WholeArgs
<1>10. Start(list, 0) = 0 /\ ArgStart(list, 0) = 0
  BY <1>5, <1>6, <1>9
<1>11. \A i \in 0 .. n : Start(list, i) \in Nat /\ ArgStart(list, i) \in Nat
  BY <1>5, <1>6, <1>9
<1>12. \A i \in 1 .. n : /\ Start(list, i) = Start(list, i - 1) + ItemLength(list[i])
                         /\ ArgStart(list, i) = ArgStart(list, i - 1) + ArgCount(list[i])
  BY <1>4, <1>5, <1>6, <1>9
<1>13. \A i \in 1 .. n : \A k \in 1 .. ItemLength(list[i]) :
         WholeText(list)[Start(list, i - 1) + k] = ItemText(list[i])[k]
  BY <1>4, <1>7, <1>9
<1>14. \A i \in 1 .. n : \A k \in 1 .. ArgCount(list[i]) :
         WholeArgs(list)[ArgStart(list, i - 1) + k] = ItemArguments(list[i])[k]
  BY <1>4, <1>8, <1>9
<1>15. Len(WholeText(list)) = Start(list, n)
  BY <1>9
<1> QED
  BY <1>1, <1>10, <1>11, <1>12, <1>13, <1>14, <1>15 DEF Laid
-----------------------------------------------------------------------------
(* No item is empty: each begins behind the one before.                     *)
LEMMA StartsGrow ==
  ASSUME NEW list \in Formats, NEW i \in 0 .. Len(list), NEW j \in i .. Len(list)
  PROVE  Start(list, i) + (j - i) <= Start(list, j)
<1>0. Len(list) \in Nat /\ Laid(list)
  BY Listed, Layout
<1> DEFINE S == {d \in Nat : i + d <= Len(list) => Start(list, i) + d <= Start(list, i + d)}
<1>1. 0 \in S
  <2>1. Start(list, i) \in Nat /\ i + 0 = i
    BY <1>0 DEF Laid
  <2> QED
    BY <2>1
<1>2. ASSUME NEW d \in Nat, d \in S PROVE d + 1 \in S
  <2> SUFFICES ASSUME i + (d + 1) <= Len(list) PROVE Start(list, i) + (d + 1) <= Start(list, i + (d + 1))
    OBVIOUS
  <2>1. PICK m \in 1 .. Len(list) : m = i + (d + 1)
    BY <1>0
  <2>2. m - 1 = i + d /\ m - 1 \in 0 .. Len(list)
    BY <1>0, <2>1
  <2>3. Start(list, i) + d <= Start(list, m - 1)
    BY <1>0, <1>2, <2>2
  <2>4. Start(list, m) = Start(list, m - 1) + ItemLength(list[m]) /\ ItemLength(list[m]) \in Nat \ {0}
    <3>1. IsItem(list[m])
      BY Listed
    <3> QED
      BY <1>0, <3>1, ItemParts DEF Laid
  <2>5. Start(list, i) \in Nat /\ Start(list, m - 1) \in Nat
    BY <1>0, <2>2 DEF Laid
  <2>6. Start(list, i) + (d + 1) <= Start(list, m)
    BY <2>3, <2>4, <2>5
  <2> QED
    BY <2>1, <2>6
<1> HIDE DEF S
<1>3. Nat \subseteq S
  BY <1>1, <1>2, Induction
<1>4. j - i \in Nat /\ i + (j - i) = j /\ j <= Len(list)
  BY <1>0
<1>5. j - i \in S
  BY <1>3, <1>4
<1> QED
  BY <1>4, <1>5 DEF S

(* Where an item and its parts are in the text.                             *)
Here(list, i) ==
  LET item == list[i + 1]
      at(k) == WholeText(list)[Start(list, i) + k]
  IN  /\ item.spec = "text" => at(1) = item.value
      /\ item.spec # "text" =>
           /\ at(1) = "%"
           /\ item.flag # "none" => at(2) = item.flag
           /\ \A k \in 1 .. Len(NumberText(item.width)) : at(BeforeWidth(item) + k) = NumberChar(item.width, k)
           /\ item.precision.by # "none" => at(BeforePoint(item) + 1) = "."
           /\ \A k \in 1 .. Len(NumberText(item.precision)) :
                 at(BeforePrecision(item) + k) = NumberChar(item.precision, k)
           /\ item.spec # "none" => at(BeforeSpec(item) + 1) = item.spec

(* The order of the parts of a directive.                                   *)
LEMMA PartsInOrder ==
  ASSUME NEW item, IsDirective(item), item.spec # "text"
  PROVE  /\ BeforeWidth(item) = 1 + (IF item.flag = "none" THEN 0 ELSE 1)
         /\ Len(NumberText(item.width)) \in 0 .. 2 /\ Len(NumberText(item.precision)) \in 0 .. 2
         /\ BeforePoint(item) = BeforeWidth(item) + Len(NumberText(item.width))
         /\ BeforePrecision(item) = BeforePoint(item) + (IF item.precision.by = "none" THEN 0 ELSE 1)
         /\ BeforeSpec(item) = BeforePrecision(item) + Len(NumberText(item.precision))
         /\ ItemLength(item) = BeforeSpec(item) + (IF item.spec = "none" THEN 0 ELSE 1)
         /\ item.precision.by = "none" => BeforePoint(item) = BeforeSpec(item)
         /\ {BeforeWidth(item), BeforePoint(item), BeforePrecision(item), BeforeSpec(item)} \subseteq Nat
<1>1. PICK m \in 0 .. 2, n \in 0 .. 2 :
        /\ m = Len(NumberText(item.width)) /\ n = Len(NumberText(item.precision))
        /\ item.precision.by = "none" => n = 0
  <2>1. IsNumber(item.width, 1) /\ IsNumber(item.precision, 0)
    BY DEF IsDirective
  <2> QED
    BY <2>1, NumberRead
<1>2. BeforeWidth(item) = 1 + (IF item.flag = "none" THEN 0 ELSE 1)
  BY DEF BeforeWidth
<1>3. BeforePoint(item) = BeforeWidth(item) + m
  BY <1>1 DEF BeforePoint
<1>4. BeforePrecision(item) = BeforePoint(item) + (IF item.precision.by = "none" THEN 0 ELSE 1)
  BY DEF BeforePrecision
<1>5. BeforeSpec(item) = BeforePrecision(item) + n
  BY <1>1 DEF BeforeSpec
<1>6. ItemLength(item) = BeforeSpec(item) + (IF item.spec = "none" THEN 0 ELSE 1)
  BY DEF ItemLength
<1>7. BeforeWidth(item) \in 1 .. 2
  BY <1>2
<1>8. BeforePoint(item) \in Nat /\ BeforePrecision(item) \in Nat /\ BeforeSpec(item) \in Nat
  BY <1>3, <1>4, <1>5, <1>7
<1>9. item.precision.by = "none" => BeforePoint(item) = BeforeSpec(item)
  BY <1>1, <1>4, <1>5, <1>8
<1> QED
  BY <1>1, <1>2, <1>3, <1>4, <1>5, <1>6, <1>7, <1>8, <1>9

(* In the text of the format an item is where it begins.                    *)
LEMMA FoundHere ==
  ASSUME NEW list \in Formats, NEW i \in 0 .. Len(list), i < Len(list)
  PROVE  /\ Here(list, i)
         /\ Start(list, i) \in Nat /\ Start(list, i + 1) = Start(list, i) + ItemLength(list[i + 1])
         /\ ItemLength(list[i + 1]) \in Nat \ {0}
         /\ list[i + 1].spec = "none" => Start(list, i + 1) = Len(WholeText(list))
         /\ Start(list, i + 1) <= Len(WholeText(list)) /\ Len(WholeText(list)) \in Nat
<1>0. Len(list) \in Nat /\ Laid(list)
  BY Listed, Layout
<1>1. PICK m \in 1 .. Len(list) : m = i + 1 /\ m - 1 = i
  BY <1>0
<1>2. PICK item : item = list[m]
  OBVIOUS
<1>3. IsItem(item) /\ (item.spec = "none" => m = Len(list))
  BY <1>2, Listed
<1>4. \A k \in 1 .. ItemLength(item) : WholeText(list)[Start(list, i) + k] = ItemText(item)[k]
  BY <1>0, <1>1, <1>2 DEF Laid
<1>5. /\ Start(list, i) \in Nat /\ Start(list, m) = Start(list, i) + ItemLength(item)
      /\ ItemLength(item) \in Nat \ {0} /\ Len(WholeText(list)) = Start(list, Len(list))
      /\ Start(list, m) \in Nat /\ Start(list, Len(list)) \in Nat
  <2>1. ItemLength(item) \in Nat \ {0}
    BY <1>3, ItemParts
  <2>2. Len(list) \in 0 .. Len(list) /\ m \in 0 .. Len(list)
    BY <1>0
  <2> QED
    BY <1>0, <1>1, <1>2, <2>1, <2>2 DEF Laid
<1>6. Start(list, m) <= Start(list, Len(list))
  <2>1. Len(list) \in m .. Len(list) /\ m \in 0 .. Len(list)
    BY <1>0
  <2>2. Start(list, m) + (Len(list) - m) <= Start(list, Len(list))
    BY <2>1, StartsGrow
  <2>3. PICK d \in Nat : d = Len(list) - m
    BY <1>0
  <2> QED
    BY <1>5, <2>2, <2>3
<1>7. Here(list, i)
  <2>1. CASE item.spec = "text"
    <3>1. 1 \in 1 .. ItemLength(item) /\ ItemText(item)[1] = item.value
      BY <1>3, <2>1, ItemParts DEF ItemLength
    <3> QED
      BY <1>1, <1>2, <1>4, <2>1, <3>1 DEF Here
  <2>2. CASE item.spec # "text"
    <3>1. IsDirective(item) /\ TextParts(item)
      BY <1>3, <2>2, ItemParts DEF IsItem
    <3>2. PICK a, b, c, d, e \in Nat :
            /\ a = BeforeWidth(item) /\ b = BeforePoint(item) /\ c = BeforePrecision(item)
            /\ d = BeforeSpec(item) /\ e = ItemLength(item)
      BY <1>5, <2>2, <3>1, PartsInOrder
    <3>3. PICK g, h \in 0 .. 2 : g = Len(NumberText(item.width)) /\ h = Len(NumberText(item.precision))
      BY <2>2, <3>1, PartsInOrder
    <3>4. /\ a = 1 + (IF item.flag = "none" THEN 0 ELSE 1) /\ b = a + g
          /\ c = b + (IF item.precision.by = "none" THEN 0 ELSE 1) /\ d = c + h
          /\ e = d + (IF item.spec = "none" THEN 0 ELSE 1)
      BY <2>2, <3>1, <3>2, <3>3, PartsInOrder
    <3>5. /\ 1 \in 1 .. e /\ (item.flag # "none" => 2 \in 1 .. e)
          /\ \A k \in 1 .. g : a + k \in 1 .. e
          /\ item.precision.by # "none" => b + 1 \in 1 .. e
          /\ \A k \in 1 .. h : c + k \in 1 .. e
          /\ item.spec # "none" => d + 1 \in 1 .. e
      BY <3>3, <3>4
    <3>6. /\ ItemText(item)[1] = "%"
          /\ item.flag # "none" => ItemText(item)[2] = item.flag
          /\ \A k \in 1 .. g : ItemText(item)[a + k] = NumberChar(item.width, k)
          /\ item.precision.by # "none" => ItemText(item)[b + 1] = "."
          /\ \A k \in 1 .. h : ItemText(item)[c + k] = NumberChar(item.precision, k)
          /\ item.spec # "none" => ItemText(item)[d + 1] = item.spec
      BY <3>1, <3>2, <3>3 DEF TextParts
    <3>7. \A k \in 1 .. e : WholeText(list)[Start(list, i) + k] = ItemText(item)[k]
      BY <1>4, <3>2
    <3>8. /\ WholeText(list)[Start(list, i) + 1] = "%"
          /\ item.flag # "none" => WholeText(list)[Start(list, i) + 2] = item.flag
          /\ \A k \in 1 .. g : WholeText(list)[Start(list, i) + (a + k)] = NumberChar(item.width, k)
          /\ item.precision.by # "none" => WholeText(list)[Start(list, i) + (b + 1)] = "."
          /\ \A k \in 1 .. h : WholeText(list)[Start(list, i) + (c + k)] = NumberChar(item.precision, k)
          /\ item.spec # "none" => WholeText(list)[Start(list, i) + (d + 1)] = item.spec
      BY <3>5, <3>6, <3>7
    <3> QED
      BY <1>1, <1>2, <2>2, <3>2, <3>3, <3>8 DEF Here
  <2> QED
    BY <2>1, <2>2
<1> QED
  BY <1>1, <1>2, <1>3, <1>5, <1>6, <1>7

(* And where its arguments are.                                             *)
ArgsHere(list, i) ==
  LET item == list[i + 1]
      arg(k) == WholeArgs(list)[ArgStart(list, i) + k]
  IN  item.spec # "text" =>
        /\ item.width.by = "star" => arg(1) = item.width.n
        /\ item.precision.by = "star" => arg(BeforePrecisionArg(item) + 1) = item.precision.n
        /\ item.spec \in TakesArgument => arg(BeforeValue(item) + 1) = item.value

(* They are found there.                                                    *)
LEMMA ArgsFoundHere ==
  ASSUME NEW list \in Formats, NEW i \in 0 .. Len(list), i < Len(list)
  PROVE  /\ ArgsHere(list, i)
         /\ ArgStart(list, i) \in Nat /\ ArgStart(list, i + 1) = ArgStart(list, i) + ArgCount(list[i + 1])
         /\ ArgCount(list[i + 1]) \in Nat
<1>0. Len(list) \in Nat /\ Laid(list)
  BY Listed, Layout
<1>1. PICK m \in 1 .. Len(list) : m = i + 1 /\ m - 1 = i
  BY <1>0
<1>2. PICK item : item = list[m]
  OBVIOUS
<1>3. IsItem(item)
  BY <1>2, Listed
<1>4. \A k \in 1 .. ArgCount(item) : WholeArgs(list)[ArgStart(list, i) + k] = ItemArguments(item)[k]
  BY <1>0, <1>1, <1>2 DEF Laid
<1>5. /\ ArgStart(list, i) \in Nat /\ ArgStart(list, m) = ArgStart(list, i) + ArgCount(item)
      /\ ArgCount(item) \in Nat
  BY <1>0, <1>1, <1>2, <1>3, ItemParts DEF Laid
<1>6. ArgsHere(list, i)
  <2>1. CASE item.spec = "text"
    BY <1>1, <1>2, <2>1 DEF ArgsHere
  <2>2. CASE item.spec # "text"
    <3>1. ArgumentParts(item)
      BY <1>3, <2>2, ItemParts
    <3>2. PICK a, b \in 0 .. 2 : a = BeforePrecisionArg(item) /\ b = BeforeValue(item)
      BY DEF BeforePrecisionArg, BeforeValue
    <3>3. /\ a = (IF item.width.by = "star" THEN 1 ELSE 0)
          /\ b = a + (IF item.precision.by = "star" THEN 1 ELSE 0)
          /\ ArgCount(item) = b + (IF item.spec \in TakesArgument THEN 1 ELSE 0)
      BY <2>2, <3>2 DEF BeforePrecisionArg, BeforeValue, ArgCount
    <3>4. /\ item.width.by = "star" => 1 \in 1 .. ArgCount(item)
          /\ item.precision.by = "star" => a + 1 \in 1 .. ArgCount(item)
          /\ item.spec \in TakesArgument => b + 1 \in 1 .. ArgCount(item)
      BY <1>5, <3>2, <3>3
    <3>5. /\ item.width.by = "star" => ItemArguments(item)[1] = item.width.n
          /\ item.precision.by = "star" => ItemArguments(item)[a + 1] = item.precision.n
          /\ item.spec \in TakesArgument => ItemArguments(item)[b + 1] = item.value
      BY <3>1, <3>2 DEF ArgumentParts
    <3> QED
      BY <1>1, <1>2, <1>4, <2>2, <3>2, <3>4, <3>5 DEF ArgsHere
  <2> QED
    BY <2>1, <2>2
<1> QED
  BY <1>1, <1>2, <1>5, <1>6
-----------------------------------------------------------------------------
(* Powers of a base, and of two.                                            *)
IsPower(f, m, b) == f = [n \in 0 .. m |-> IF n = 0 THEN 1 ELSE b * f[n - 1]]

ArePowers(f, b) ==
  /\ f[0] = 1
  /\ \A n \in 1 .. WordBits : f[n] = b * f[n - 1]
  /\ \A n \in 0 .. WordBits : f[n] \in Nat \ {0}

(* The recursion that defines them has a solution, which is a power.         *)
LEMMA PowersOf ==
  ASSUME NEW b \in {2, 8, 10, 16}
  PROVE  ArePowers(CHOOSE f : IsPower(f, WordBits, b), b)
<1>w. WordBits \in Nat \ {0}
  BY SizesAssumption
<1> DEFINE S == {m \in Nat : \E f : IsPower(f, m, b)}
<1>1. 0 \in S
  <2> DEFINE f == [n \in 0 .. 0 |-> 1]
  <2>1. f = [n \in 0 .. 0 |-> IF n = 0 THEN 1 ELSE b * f[n - 1]]
    OBVIOUS
  <2> HIDE DEF f
  <2> QED
    BY <2>1 DEF IsPower
<1>2. ASSUME NEW m \in Nat, m \in S PROVE m + 1 \in S
  <2>1. PICK f : f = [n \in 0 .. m |-> IF n = 0 THEN 1 ELSE b * f[n - 1]]
    BY <1>2 DEF IsPower
  <2>t. PICK last : last = b * f[m]
    OBVIOUS
  <2> DEFINE g == [n \in 0 .. m + 1 |-> IF n = m + 1 THEN last ELSE f[n]]
             h == [n \in 0 .. m + 1 |-> IF n = 0 THEN 1 ELSE b * g[n - 1]]
  <2>2. ASSUME NEW n \in 0 .. m + 1 PROVE g[n] = h[n]
    <3>1. CASE n = 0
      <4>1. g[n] = f[0] /\ h[n] = 1
        BY <3>1
      <4> QED
        BY <2>1, <4>1
    <3>2. CASE n \in 1 .. m
      <4>1. g[n] = f[n] /\ g[n - 1] = f[n - 1] /\ h[n] = b * g[n - 1]
        BY <3>2
      <4>2. f[n] = b * f[n - 1]
        BY <2>1, <3>2
      <4> QED
        BY <4>1, <4>2
    <3>3. CASE n = m + 1
      <4>1. g[n] = last /\ g[n - 1] = f[m] /\ h[n] = b * g[n - 1]
        BY <3>3
      <4> QED
        BY <2>t, <4>1
    <3> QED
      BY <3>1, <3>2, <3>3
  <2>3. g = h
    <3>2. g = [n \in 0 .. m + 1 |-> g[n]] /\ h = [n \in 0 .. m + 1 |-> h[n]]
      OBVIOUS
    <3> HIDE DEF g, h
    <3> QED
      BY <2>2, <3>2
  <2>4. g = [n \in 0 .. m + 1 |-> IF n = 0 THEN 1 ELSE b * g[n - 1]]
    BY <2>3
  <2> HIDE DEF g
  <2>5. IsPower(g, m + 1, b)
    BY <2>4, Zenon DEF IsPower
  <2>6. \E k : IsPower(k, m + 1, b)
    BY <2>5
  <2> QED
    BY <2>6
<1> HIDE DEF S
<1>3. PICK p : p = CHOOSE f : IsPower(f, WordBits, b)
  OBVIOUS
<1>4. Nat \subseteq S
  BY <1>1, <1>2, Induction
<1>5. \E f : IsPower(f, WordBits, b)
  BY <1>w, <1>4 DEF S
<1>6. p = [n \in 0 .. WordBits |-> IF n = 0 THEN 1 ELSE b * p[n - 1]]
  BY <1>3, <1>5 DEF IsPower
<1>7. p[0] = 1 /\ \A n \in 1 .. WordBits : p[n] = b * p[n - 1]
  <2>1. 0 \in 0 .. WordBits /\ \A n \in 1 .. WordBits : n \in 0 .. WordBits /\ n # 0
    BY <1>w
  <2> QED
    BY <1>6, <2>1
<1> DEFINE R == {n \in Nat : n <= WordBits => p[n] \in Nat \ {0}}
<1>8. 0 \in R
  BY <1>7
<1>9. ASSUME NEW n \in Nat, n \in R PROVE n + 1 \in R
  <2> SUFFICES ASSUME n + 1 <= WordBits PROVE p[n + 1] \in Nat \ {0}
    OBVIOUS
  <2>1. n + 1 \in 1 .. WordBits /\ (n + 1) - 1 = n /\ p[n] \in Nat \ {0}
    BY <1>9, <1>w
  <2>2. p[n + 1] = b * p[n]
    BY <1>7, <2>1
  <2>3. PICK q \in Nat \ {0} : q = p[n]
    BY <2>1
  <2>4. b * q \in Nat \ {0}
    OBVIOUS
  <2> QED
    BY <2>2, <2>3, <2>4
<1> HIDE DEF R
<1>10. Nat \subseteq R
  BY <1>8, <1>9, Induction
<1>11. \A n \in 0 .. WordBits : p[n] \in Nat \ {0}
  BY <1>w, <1>10 DEF R
<1> QED
  BY <1>3, <1>7, <1>11 DEF ArePowers

(* 2^n grows, and its halves are powers.                                    *)
LEMMA PowersAre ==
  /\ Powers[0] = 1
  /\ \A n \in 1 .. WordBits : Powers[n] = 2 * Powers[n - 1]
  /\ \A n \in 0 .. WordBits : Powers[n] \in Nat \ {0}
  /\ Modulus \in Nat \ {0, 1}
<1>1. Powers = CHOOSE f : IsPower(f, WordBits, 2)
  BY DEF Powers, IsPower
<1>2. ArePowers(Powers, 2)
  BY <1>1, PowersOf
<1>3. Modulus \in Nat \ {0, 1}
  <2>1. WordBits \in 1 .. WordBits /\ WordBits - 1 \in 0 .. WordBits
    BY SizesAssumption
  <2>2. PICK p \in Nat \ {0} : p = Powers[WordBits - 1]
    BY <1>2, <2>1 DEF ArePowers
  <2>3. Modulus = 2 * p
    BY <1>2, <2>1, <2>2 DEF Modulus, ArePowers
  <2> QED
    BY <2>3
<1> QED
  BY <1>2, <1>3 DEF ArePowers

(* The digits of a number, the last one first.                              *)
Digit(v, base, uppercase) == <<DigitChar(v % base, uppercase)>>
Rest(f, v, base) == IF v \div base = 0 THEN <<>> ELSE f[v \div base]
IsDigits(f, m, base, uppercase) ==
  f = [v \in 0 .. m |-> Join(Digit(v, base, uppercase), Rest(f, v, base))]

(* Without the last digit it is smaller, and has a bit less at least.       *)
LEMMA Smaller ==
  ASSUME NEW base \in {8, 10, 16}, NEW v \in Nat
  PROVE  /\ v \div base \in Nat /\ v \div base <= v /\ (v # 0 => v \div base < v)
         /\ \A p \in Nat : v < 2 * p => v \div base = 0 \/ v \div base < p
<1>1. CASE base = 8
  BY <1>1
<1>2. CASE base = 10
  BY <1>2
<1>3. CASE base = 16
  BY <1>3
<1> QED
  BY <1>1, <1>2, <1>3

(* The do loop of print_int has a result for every value.                   *)
LEMMA DigitsExist ==
  ASSUME NEW n \in Nat, NEW base \in {8, 10, 16}, NEW uppercase
  PROVE  \E f : IsDigits(f, n, base, uppercase)
<1> DEFINE D(v) == Digit(v, base, uppercase)
           S == {m \in Nat : \E f : f = [v \in 0 .. m |-> Join(D(v), Rest(f, v, base))]}
<1> HIDE DEF D
<1>1. 0 \in S
  <2> DEFINE f == [v \in 0 .. 0 |-> Join(D(v), <<>>)]
  <2>1. \A v \in 0 .. 0 : v \div base = 0
    <3>1. 0 \div base = 0
      BY Smaller
    <3> QED
      BY <3>1
  <2>2. \A v \in 0 .. 0 : Rest(f, v, base) = <<>>
    BY <2>1 DEF Rest
  <2>3. f = [v \in 0 .. 0 |-> Join(D(v), Rest(f, v, base))]
    BY <2>2
  <2> HIDE DEF f
  <2> QED
    BY <2>3
<1>2. ASSUME NEW m \in Nat, m \in S PROVE m + 1 \in S
  <2>1. PICK f : f = [v \in 0 .. m |-> Join(D(v), Rest(f, v, base))]
    BY <1>2
  <2> DEFINE last == Join(D(m + 1), Rest(f, m + 1, base))
             g == [v \in 0 .. m + 1 |-> IF v = m + 1 THEN last ELSE f[v]]
             h == [v \in 0 .. m + 1 |-> Join(D(v), Rest(g, v, base))]
  <2>2. ASSUME NEW v \in 0 .. m + 1 PROVE Rest(g, v, base) = Rest(f, v, base)
    <3>1. CASE v \div base = 0
      BY <3>1 DEF Rest
    <3>2. CASE v \div base # 0
      <4>1. v # 0
        <5>1. 0 \div base = 0
          BY Smaller
        <5> QED
          BY <3>2, <5>1
      <4>2. v \div base \in 0 .. m
        BY <4>1, Smaller
      <4>3. g[v \div base] = f[v \div base]
        BY <4>2
      <4> QED
        BY <3>2, <4>3 DEF Rest
    <3> QED
      BY <3>1, <3>2
  <2>3. ASSUME NEW v \in 0 .. m + 1 PROVE g[v] = h[v]
    <3>1. h[v] = Join(D(v), Rest(f, v, base))
      BY <2>2
    <3>2. CASE v = m + 1
      BY <3>1, <3>2
    <3>3. CASE v # m + 1
      <4>1. v \in 0 .. m /\ g[v] = f[v]
        BY <3>3
      <4>2. f[v] = Join(D(v), Rest(f, v, base))
        BY <2>1, <4>1
      <4> QED
        BY <3>1, <4>1, <4>2
    <3> QED
      BY <3>2, <3>3
  <2>4. g = h
    <3>2. g = [v \in 0 .. m + 1 |-> g[v]] /\ h = [v \in 0 .. m + 1 |-> h[v]]
      OBVIOUS
    <3> HIDE DEF g, h
    <3> QED
      BY <2>3, <3>2
  <2>5. g = [v \in 0 .. m + 1 |-> Join(D(v), Rest(g, v, base))]
    BY <2>4
  <2> HIDE DEF g
  <2> QED
    BY <2>5
<1> HIDE DEF S
<1>3. Nat \subseteq S
  BY <1>1, <1>2, Induction
<1> QED
  BY <1>3 DEF S, IsDigits, D

(* A number of n bits has at most n digits.                                 *)
LEMMA DigitsShort ==
  ASSUME NEW value \in 0 .. Modulus - 1, NEW base \in {8, 10, 16}, NEW uppercase
  PROVE  /\ IsSeq(DigitsLowFirst(value, base, uppercase))
         /\ Len(DigitsLowFirst(value, base, uppercase)) \in 1 .. WordBits
<1>w. WordBits \in Nat \ {0} /\ Modulus \in Nat \ {0, 1} /\ Modulus - 1 \in Nat
  BY SizesAssumption, PowersAre
<1> DEFINE m == Modulus - 1
<1>1. PICK f : f = CHOOSE g : IsDigits(g, m, base, uppercase)
  OBVIOUS
<1>2. DigitsLowFirst(value, base, uppercase) = f[value]
  BY <1>1 DEF DigitsLowFirst, IsDigits, Join, Digit, Rest
<1> HIDE DEF m
<1>m. m = Modulus - 1 /\ m \in Nat
  BY <1>w DEF m
<1>3. IsDigits(f, m, base, uppercase)
  BY <1>1, <1>m, DigitsExist
<1>4. \A v \in 0 .. m : f[v] = Join(Digit(v, base, uppercase), Rest(f, v, base))
  BY <1>3 DEF IsDigits
<1> DEFINE Good(n) == \A v \in 0 .. m : v < Powers[n] => IsSeq(f[v]) /\ Len(f[v]) \in 1 .. n
           S == {n \in Nat : n + 1 <= WordBits => Good(n + 1)}
<1>5. ASSUME NEW v \in 0 .. m, v \div base = 0 PROVE IsSeq(f[v]) /\ Len(f[v]) = 1
  <2>1. Rest(f, v, base) = <<>>
    BY <1>5 DEF Rest
  <2>2. IsSeq(Digit(v, base, uppercase)) /\ Len(Digit(v, base, uppercase)) = 1
    BY Short DEF Digit
  <2>3. PICK a, b : a = Digit(v, base, uppercase) /\ b = <<>>
    OBVIOUS
  <2>4. IsSeq(a) /\ Len(a) = 1 /\ IsSeq(b) /\ Len(b) = 0 /\ f[v] = Join(a, b)
    BY <1>4, <2>1, <2>2, <2>3, Short
  <2>5. IsSeq(Join(a, b)) /\ Len(Join(a, b)) = Len(a) + Len(b)
    BY <2>4, Joined
  <2> QED
    BY <2>4, <2>5
<1>6. 0 \in S
  <2>1. Powers[1] = 2
    <3>1. 1 \in 1 .. WordBits /\ 1 - 1 = 0
      BY <1>w
    <3> QED
      BY <3>1, PowersAre
  <2>2. ASSUME NEW v \in 0 .. m, v < Powers[1] PROVE IsSeq(f[v]) /\ Len(f[v]) \in 1 .. 1
    <3>1. v \div base = 0
      <4>1. v < 2 * 1 /\ 1 \in Nat
        BY <2>1, <2>2, <1>m
      <4>2. v \div base \in Nat /\ (v \div base = 0 \/ v \div base < 1)
        BY <1>m, <4>1, Smaller
      <4> QED
        BY <4>2
    <3> QED
      BY <1>5, <3>1
  <2>3. 0 + 1 = 1 /\ Good(1)
    BY <2>2
  <2> HIDE DEF Good
  <2> QED
    BY <2>3
<1>7. ASSUME NEW n \in Nat, n \in S PROVE n + 1 \in S
  <2> SUFFICES ASSUME (n + 1) + 1 <= WordBits, NEW v \in 0 .. m, v < Powers[(n + 1) + 1]
               PROVE  IsSeq(f[v]) /\ Len(f[v]) \in 1 .. (n + 1) + 1
    OBVIOUS
  <2>1. CASE v \div base = 0
    <3>1. IsSeq(f[v]) /\ Len(f[v]) = 1
      BY <1>5, <2>1
    <3>2. 1 \in 1 .. (n + 1) + 1
      OBVIOUS
    <3> QED
      BY <3>1, <3>2
  <2>2. CASE v \div base # 0
    <3>1. PICK p \in Nat : p = Powers[n + 1] /\ Powers[(n + 1) + 1] = 2 * p
      <4>1. (n + 1) + 1 \in 1 .. WordBits /\ ((n + 1) + 1) - 1 = n + 1 /\ n + 1 \in 0 .. WordBits
        BY <1>w
      <4> QED
        BY <4>1, PowersAre
    <3>2. PICK u \in Nat : u = v \div base /\ u < p /\ u <= v
      <4>1. v \in Nat /\ v < 2 * p
        BY <1>m, <3>1
      <4> QED
        BY <2>2, <4>1, Smaller
    <3>3. u \in 0 .. m
      BY <1>m, <3>2
    <3>4. IsSeq(f[u]) /\ Len(f[u]) \in 1 .. n + 1
      <4>1. Good(n + 1)
        BY <1>7, <1>w
      <4> QED
        BY <3>1, <3>2, <3>3, <4>1
    <3>5. PICK a, b : a = Digit(v, base, uppercase) /\ b = f[u]
      OBVIOUS
    <3>6. IsSeq(a) /\ Len(a) = 1 /\ IsSeq(b) /\ Len(b) \in 1 .. n + 1
      BY <3>4, <3>5, Short DEF Digit
    <3>7. f[v] = Join(a, b)
      BY <1>4, <2>2, <3>2, <3>5 DEF Rest
    <3>8. IsSeq(Join(a, b)) /\ Len(Join(a, b)) = Len(a) + Len(b)
      BY <3>6, Joined
    <3> QED
      BY <3>6, <3>7, <3>8
  <2> QED
    BY <2>1, <2>2
<1> HIDE DEF S
<1>8. Nat \subseteq S
  BY <1>6, <1>7, Induction
<1>9. PICK k \in Nat : k + 1 = WordBits
  <2>1. WordBits - 1 \in Nat /\ (WordBits - 1) + 1 = WordBits
    BY <1>w
  <2> QED
    BY <2>1
<1>10. Good(WordBits)
  BY <1>8, <1>9 DEF S
<1>11. value \in 0 .. m /\ value < Powers[WordBits]
  BY <1>m, <1>w DEF Modulus
<1>12. IsSeq(f[value]) /\ Len(f[value]) \in 1 .. WordBits
  BY <1>10, <1>11
<1> QED
  BY <1>2, <1>12
-----------------------------------------------------------------------------
(* print_int: what is in the buffer fits, and what is printed and counted    *)
(* is as long as it says.                                                   *)
LEMMA SignsShort ==
  ASSUME NEW has_sign, NEW base, NEW uppercase
  PROVE  /\ IsSeq(SignChars(has_sign, base, uppercase))
         /\ Len(SignChars(has_sign, base, uppercase)) \in 0 .. 2
<1> DEFINE s == SignChars(has_sign, base, uppercase)
<1>1. CASE has_sign
  <2>1. \E c : s = <<c>>
    BY <1>1 DEF SignChars
  <2> QED
    BY <2>1, Short
<1>2. CASE ~has_sign /\ flags = "flags_force_sign"
  <2>1. s = <<"+">>
    BY <1>2 DEF SignChars
  <2> QED
    BY <2>1, Short
<1>3. CASE ~has_sign /\ flags = "flags_sign_space"
  <2>1. \E c : s = <<c>>
    BY <1>3 DEF SignChars
  <2> QED
    BY <2>1, Short
<1>4. CASE ~has_sign /\ flags = "flags_prefix" /\ base = 8
  <2>1. s = <<"0">>
    BY <1>4 DEF SignChars
  <2> QED
    BY <2>1, Short
<1>5. CASE ~has_sign /\ flags = "flags_prefix" /\ base = 16
  <2>1. \E c : s = <<c, "0">>
    BY <1>5 DEF SignChars
  <2> QED
    BY <2>1, Short
<1>6. CASE /\ ~has_sign /\ flags # "flags_force_sign" /\ flags # "flags_sign_space"
           /\ ~(flags = "flags_prefix" /\ base = 8) /\ ~(flags = "flags_prefix" /\ base = 16)
  <2>1. s = <<>>
    BY <1>6 DEF SignChars
  <2> QED
    BY <2>1, Short
<1> QED
  BY <1>1, <1>2, <1>3, <1>4, <1>5, <1>6

(* A number with its sign or prefix fits into the buffer.                   *)
LEMMA BufferFits ==
  ASSUME NEW value \in 0 .. Modulus - 1, NEW base \in {8, 10, 16}, NEW uppercase, NEW is_signed
  PROVE  /\ IsSeq(NumberBuffer(value, base, uppercase, is_signed))
         /\ Len(NumberBuffer(value, base, uppercase, is_signed)) \in 1 .. BufferSize
<1>1. PICK has_sign : has_sign = HasSign(value, is_signed)
  OBVIOUS
<1>2. PICK v : v = IF has_sign THEN Negated(value) ELSE value
  OBVIOUS
<1>3. v \in 0 .. Modulus - 1
  <2>1. Modulus \in Nat \ {0, 1}
    BY PowersAre
  <2>2. (Modulus - value) % Modulus \in 0 .. Modulus - 1
    BY <2>1
  <2> QED
    BY <1>2, <2>2 DEF Negated
<1>4. PICK a, b : a = DigitsLowFirst(v, base, uppercase) /\ b = SignChars(has_sign, base, uppercase)
  OBVIOUS
<1>5. NumberBuffer(value, base, uppercase, is_signed) = Join(a, b)
  BY <1>1, <1>2, <1>4 DEF NumberBuffer, Join
<1>6. IsSeq(a) /\ Len(a) \in 1 .. WordBits /\ IsSeq(b) /\ Len(b) \in 0 .. 2
  BY <1>3, <1>4, DigitsShort, SignsShort
<1>7. IsSeq(Join(a, b)) /\ Len(Join(a, b)) = Len(a) + Len(b)
  BY <1>6, Joined
<1>8. Len(a) + Len(b) \in 1 .. BufferSize
  <2>0. PICK w \in Nat, n \in Nat : w = WordBits /\ n = BufferSize /\ w + 2 <= n
    BY SizesAssumption
  <2>1. PICK p \in 1 .. w, q \in 0 .. 2 : p = Len(a) /\ q = Len(b)
    BY <1>6, <2>0
  <2>2. p + q \in 1 .. n
    BY <2>0, <2>1
  <2> QED
    BY <2>0, <2>1, <2>2
<1> QED
  BY <1>5, <1>7, <1>8

(* Padding is as long as it is asked to be.                                 *)
LEMMA Paddings ==
  ASSUME NEW n \in Nat, NEW char
  PROVE  IsSeq(Padding(n, char)) /\ Len(Padding(n, char)) = n
<1>1. Padding(n, char) \in Seq({char}) /\ Len(Padding(n, char)) = n
  BY DEF Padding
<1> QED
  BY <1>1, Zenon DEF IsSeq

(* What is printed backwards is as long as the buffer.                      *)
LEMMA Reversed ==
  ASSUME NEW s, IsSeq(s)
  PROVE  IsSeq(Reverse(s)) /\ Len(Reverse(s)) = Len(s)
<1>1. PICK S : s \in Seq(S)
  BY DEF IsSeq
<1>2. \A i \in 1 .. Len(s) : s[Len(s) - i + 1] \in S
  BY <1>1
<1>3. Reverse(s) = [i \in 1 .. Len(s) |-> s[Len(s) - i + 1]]
  BY DEF Reverse
<1>4. Reverse(s) \in Seq(S) /\ Len(Reverse(s)) = Len(s)
  BY <1>1, <1>2, <1>3
<1> QED
  BY <1>4, Zenon DEF IsSeq

(* Only a number that is padded on the left needs more than its digits.     *)
LEMMA Printed ==
  ASSUME NEW buffer, IsSeq(buffer), width \in Nat
  PROVE  /\ IsSeq(PrintIntOut(buffer)) /\ Len(PrintIntOut(buffer)) \in Nat
         /\ PrintIntCount(buffer) = Len(PrintIntOut(buffer)) + (IF flags = "flags_left_justify" THEN 1 ELSE 0)
         /\ Len(buffer) <= BufferSize /\ BufferUsed(buffer) > BufferSize =>
              flags # "flags_left_justify" /\ width > BufferSize
<1>1. PICK len \in Nat : len = Len(buffer)
  BY Joined
<1>2. PICK m \in Nat : m = Missing(Len(buffer))
  BY <1>1 DEF Missing
<1>3. m = IF len < width THEN width - len ELSE 0
  BY <1>1, <1>2 DEF Missing
<1>4. CASE flags = "flags_left_justify"
  <2>1. PICK a, b : a = Reverse(buffer) /\ b = Padding(m, " ")
    OBVIOUS
  <2>2. IsSeq(a) /\ Len(a) = len /\ IsSeq(b) /\ Len(b) = m
    BY <1>1, <2>1, Reversed, Paddings
  <2>3. PrintIntOut(buffer) = Join(a, b)
    BY <1>2, <1>4, <2>1 DEF PrintIntOut, Join
  <2>4. IsSeq(Join(a, b)) /\ Len(Join(a, b)) = len + m
    BY <2>2, Joined
  <2>5. PrintIntCount(buffer) = len + m + 1 /\ BufferUsed(buffer) = len
    BY <1>1, <1>2, <1>4 DEF PrintIntCount, BufferUsed
  <2> QED
    BY <1>1, <1>4, <2>3, <2>4, <2>5, SizesAssumption
<1>5. CASE flags # "flags_left_justify"
  <2>1. PICK b : b = Padding(m, IF flags = "flags_pad_zero" THEN "0" ELSE " ")
    OBVIOUS
  <2>2. IsSeq(b) /\ Len(b) = m
    BY <2>1, Paddings
  <2>3. PICK a : a = Join(buffer, b)
    OBVIOUS
  <2>4. IsSeq(a) /\ Len(a) = len + m
    BY <1>1, <2>2, <2>3, Joined
  <2>5. PrintIntOut(buffer) = Reverse(a)
    BY <1>2, <1>5, <2>1, <2>3 DEF PrintIntOut, Join
  <2>6. IsSeq(Reverse(a)) /\ Len(Reverse(a)) = len + m
    BY <2>4, Reversed
  <2>7. PrintIntCount(buffer) = len + m /\ BufferUsed(buffer) = len + m
    BY <1>1, <1>2, <1>5 DEF PrintIntCount, BufferUsed
  <2>8. len <= BufferSize /\ len + m > BufferSize => width > BufferSize
    BY <1>3, SizesAssumption
  <2> QED
    BY <1>1, <1>5, <2>5, <2>6, <2>7, <2>8
<1> QED
  BY <1>4, <1>5

(* The part of a string that is shown.                                      *)
LEMMA StringShown ==
  ASSUME NEW value, IsSequence(value), precision \in Nat
  PROVE  IsSeq(Shown(value))
<1>1. PICK S : value \in Seq(S)
  BY DEF IsSequence
<1>2. CASE precision = 0 \/ precision >= Len(value)
  <2>1. Shown(value) = value
    BY <1>2 DEF Shown
  <2> QED
    BY <1>1, <2>1, Zenon DEF IsSeq
<1>3. CASE ~(precision = 0 \/ precision >= Len(value))
  <2>1. SubSeq(value, 1, precision) \in Seq(S)
    <3>1. Len(value) \in Nat
      BY <1>1
    <3>2. 1 \in 1 .. Len(value) + 1 /\ precision \in 0 .. Len(value)
      BY <1>3, <3>1
    <3> QED
      BY <1>1, <3>2, SubSeqProperties
  <2>2. Shown(value) = SubSeq(value, 1, precision)
    BY <1>3 DEF Shown
  <2> QED
    BY <2>1, <2>2, Zenon DEF IsSeq
<1> QED
  BY <1>2, <1>3
-----------------------------------------------------------------------------
(* Where vfkprintf is: between two items, or in the next one, at one of its  *)
(* parts, with what it has read of it.                                      *)
FlagSet(item) == IF item.flag = "none" THEN "flags_none" ELSE FlagOf[item.flag]
StarRead(number, j) == IF number.by = "star" /\ j # 0 THEN 1 ELSE 0

BetweenItems(i) ==
  state = "state_print" /\ ptr = Start(items, i) + 1 /\ ap = ArgStart(items, i) + 1

InFlags(i) ==
  state = "state_flags" /\ flags = "flags_none" /\ ptr = Start(items, i) + 2 /\ ap = ArgStart(items, i) + 1

InWidth(i, item) ==
  /\ state = "state_width" /\ flags = FlagSet(item)
  /\ \E j \in 0 .. Len(NumberText(item.width)) :
        /\ ptr = Start(items, i) + BeforeWidth(item) + j + 1
        /\ width = Read(item.width, j)
        /\ ap = ArgStart(items, i) + StarRead(item.width, j) + 1

InPrecision(i, item) ==
  /\ state = "state_precision" /\ flags = FlagSet(item) /\ width = item.width.n
  /\ item.precision.by # "none"
  /\ \E j \in 0 .. Len(NumberText(item.precision)) :
        /\ ptr = Start(items, i) + BeforePrecision(item) + j + 1
        /\ precision = Read(item.precision, j)
        /\ ap = ArgStart(items, i) + BeforePrecisionArg(item) + StarRead(item.precision, j) + 1

InSpecifier(i, item) ==
  /\ state = "state_specifier" /\ flags = FlagSet(item) /\ width = item.width.n /\ precision = item.precision.n
  /\ ptr = Start(items, i) + BeforeSpec(item) + 1
  /\ ap = ArgStart(items, i) + BeforeValue(item) + 1

InItem(i) ==
  /\ i < Len(items) /\ items[i + 1].spec # "text"
  /\ InFlags(i) \/ InWidth(i, items[i + 1]) \/ InPrecision(i, items[i + 1]) \/ InSpecifier(i, items[i + 1])

(* What it has printed and counted.                                         *)
LeftNumber(item) == item.spec \in DOMAIN NumberCalls /\ item.flag = "-"
Lefts(list, i) == {k \in 1 .. i : LeftNumber(list[k])}

Overrun(list) == \E k \in DOMAIN list : /\ list[k].spec \in DOMAIN NumberCalls /\ list[k].flag # "-"
                                        /\ list[k].width.n > BufferSize

TheCall == items \in Formats /\ format = WholeText(items) /\ args = WholeArgs(items)
At(i) == i \in 0 .. Len(items) /\ (BetweenItems(i) \/ InItem(i))
Counted(i) == IsSeq(out) /\ count = Len(out) + Cardinality(Lefts(items, i))
Kept == broken \in BOOLEAN /\ (broken => Overrun(items))

FormatInv(i) == TheCall /\ At(i) /\ Counted(i) /\ Kept

(* Left-justified numbers among one item more.                              *)
LEMMA OneMore ==
  ASSUME NEW list, NEW i \in Nat
  PROVE  /\ Cardinality(Lefts(list, i)) \in Nat
         /\ Cardinality(Lefts(list, i + 1)) =
              Cardinality(Lefts(list, i)) + (IF LeftNumber(list[i + 1]) THEN 1 ELSE 0)
<1>1. IsFiniteSet(Lefts(list, i)) /\ Cardinality(Lefts(list, i)) \in Nat
  <2>1. IsFiniteSet(1 .. i) /\ Lefts(list, i) \subseteq 1 .. i
    BY FS_Interval DEF Lefts
  <2> QED
    BY <2>1, FS_Subset, FS_CardinalityType
<1>2. CASE LeftNumber(list[i + 1])
  <2>1. Lefts(list, i + 1) = Lefts(list, i) \cup {i + 1} /\ i + 1 \notin Lefts(list, i)
    BY <1>2 DEF Lefts
  <2> QED
    BY <1>1, <1>2, <2>1, FS_AddElement
<1>3. CASE ~LeftNumber(list[i + 1])
  <2>1. Lefts(list, i + 1) = Lefts(list, i)
    BY <1>3 DEF Lefts
  <2> QED
    BY <1>1, <1>3, <2>1
<1> QED
  BY <1>2, <1>3

(* None at the beginning.                                                   *)
LEMMA NoLefts ==
  ASSUME NEW list
  PROVE  Cardinality(Lefts(list, 0)) = 0
<1>1. Lefts(list, 0) = {}
  BY DEF Lefts
<1> QED
  BY <1>1, FS_EmptySet

(* One character more.                                                      *)
LEMMA Appended ==
  ASSUME NEW s, NEW e, IsSeq(s)
  PROVE  IsSeq(Append(s, e)) /\ Len(Append(s, e)) = Len(s) + 1 /\ Len(s) \in Nat
<1>1. PICK S : s \in Seq(S)
  BY DEF IsSeq
<1> DEFINE T == S \cup {e}
<1>2. s \in Seq(T) /\ e \in T
  BY <1>1
<1> HIDE DEF T
<1>3. Append(s, e) \in Seq(T) /\ Len(Append(s, e)) = Len(s) + 1 /\ Len(s) \in Nat
  BY <1>2
<1> QED
  BY <1>3, Zenon DEF IsSeq

(* The characters that the parser tells apart.                              *)
LEMMA Apart ==
  /\ "*" \notin DOMAIN DigitValue /\ "." \notin DOMAIN DigitValue
  /\ "*" \notin DOMAIN FlagOf /\ "." \notin DOMAIN FlagOf /\ "none" \notin DOMAIN FlagOf
<1>1. \A c \in DOMAIN DigitValue : \E d \in 0 .. 9 : c = DigitText[d + 1]
  BY Figures DEF DigitValue
<1>2. "*" \notin DOMAIN DigitValue /\ "." \notin DOMAIN DigitValue
  BY <1>1, DigitsDiffer
<1>3. DOMAIN FlagOf = {"-", "+", " ", "#", "0"}
  BY DEF FlagOf
<1> QED
  BY <1>2, <1>3

(* A call that has not come to the end is not behind the last item.         *)
LEMMA NotAtEnd ==
  ASSUME NEW i, TheCall, At(i), More
  PROVE  /\ items \in Formats /\ i \in 0 .. Len(items) /\ i < Len(items) /\ IsItem(items[i + 1])
         /\ i + 1 \in 0 .. Len(items) /\ i + 1 \in DOMAIN items
<1>1. items \in Formats /\ i \in 0 .. Len(items) /\ format = WholeText(items)
  BY DEF TheCall, At
<1>2. Len(items) \in Nat /\ DOMAIN items = 1 .. Len(items) /\ Laid(items)
  BY <1>1, Listed, Layout
<1>3. i # Len(items)
  <2> SUFFICES ASSUME i = Len(items) PROVE FALSE
    OBVIOUS
  <2>1. BetweenItems(i)
    BY <1>2 DEF At, InItem
  <2>2. ptr = Start(items, Len(items)) + 1 /\ ptr <= Len(WholeText(items))
    BY <1>1, <2>1 DEF BetweenItems, More
  <2>3. Len(WholeText(items)) = Start(items, Len(items)) /\ Start(items, Len(items)) \in Nat
    <3>1. Len(items) \in 0 .. Len(items)
      BY <1>2
    <3> QED
      BY <1>2, <3>1 DEF Laid
  <2> QED
    BY <2>2, <2>3
<1>4. i < Len(items) /\ i + 1 \in 1 .. Len(items) /\ i + 1 \in 0 .. Len(items)
  <2>1. PICK n \in Nat : n = Len(items)
    BY <1>2
  <2> QED
    BY <1>1, <1>3, <2>1
<1>5. IsItem(items[i + 1])
  BY <1>1, <1>4, Listed
<1> QED
  BY <1>1, <1>2, <1>3, <1>4, <1>5

(* state_print.                                                             *)
LEMMA PrintKeeps ==
  ASSUME NEW i, FormatInv(i), StatePrint
  PROVE  IF items[i + 1].spec = "text" THEN FormatInv(i + 1)' ELSE FormatInv(i)'
<1>1. /\ TheCall /\ At(i) /\ Counted(i) /\ Kept /\ More /\ ~broken /\ state = "state_print"
      /\ items' = items /\ format' = format /\ args' = args /\ ptr' = ptr + 1 /\ ap' = ap /\ broken' = broken
  BY DEF FormatInv, StatePrint, Running, call
<1>2. /\ items \in Formats /\ i \in 0 .. Len(items) /\ i < Len(items) /\ IsItem(items[i + 1])
      /\ i + 1 \in 0 .. Len(items) /\ i \in Nat
  <2>1. i \in Nat
    BY <1>1 DEF At
  <2> QED
    BY <1>1, <2>1, NotAtEnd
<1>3. BetweenItems(i)
  BY <1>1 DEF At, InItem, InFlags, InWidth, InPrecision, InSpecifier
<1>4. PICK S, A, item : S = Start(items, i) /\ A = ArgStart(items, i) /\ item = items[i + 1]
  OBVIOUS
<1>5. S \in Nat /\ ptr = S + 1 /\ A \in Nat /\ ap = A + 1
  BY <1>2, <1>3, <1>4, FoundHere, ArgsFoundHere DEF BetweenItems
<1>6. Char = format[S + 1]
  BY <1>5 DEF Char
<1>7. TheCall' /\ Kept'
  BY <1>1 DEF TheCall, Kept
<1>8. CASE item.spec = "text"
  <2>1. Char = item.value /\ item.value # "%"
    <3>1. Here(items, i)
      BY <1>2, FoundHere
    <3>2. WholeText(items)[S + 1] = item.value
      BY <1>4, <1>8, <3>1 DEF Here
    <3> QED
      BY <1>1, <1>2, <1>4, <1>6, <1>8, <3>2 DEF TheCall, IsItem
  <2>2. out' = Append(out, Char) /\ count' = count + 1 /\ state' = state
    BY <2>1 DEF StatePrint
  <2>3. Start(items, i + 1) = S + 1 /\ ArgStart(items, i + 1) = A + 0
    <3>1. ItemLength(item) = 1 /\ ArgCount(item) = 0
      BY <1>8 DEF ItemLength, ArgCount
    <3> QED
      BY <1>2, <1>4, <3>1, FoundHere, ArgsFoundHere
  <2>4. BetweenItems(i + 1)'
    BY <1>1, <1>5, <2>2, <2>3 DEF BetweenItems
  <2>5. At(i + 1)'
    BY <1>1, <1>2, <2>4 DEF At
  <2>6. ~LeftNumber(items[i + 1])
    BY <1>4, <1>8 DEF LeftNumber, NumberCalls
  <2>7. Cardinality(Lefts(items, i + 1)) = Cardinality(Lefts(items, i)) /\ Cardinality(Lefts(items, i)) \in Nat
    BY <1>2, <2>6, OneMore
  <2>8. IsSeq(out') /\ Len(out') = Len(out) + 1 /\ Len(out) \in Nat
    BY <1>1, <2>2, Appended DEF Counted
  <2>9. Counted(i + 1)'
    BY <1>1, <2>2, <2>7, <2>8 DEF Counted
  <2> QED
    BY <1>4, <1>7, <1>8, <2>5, <2>9 DEF FormatInv
<1>9. CASE item.spec # "text"
  <2>1. Char = "%"
    <3>1. Here(items, i)
      BY <1>2, FoundHere
    <3>2. WholeText(items)[S + 1] = "%"
      BY <1>4, <1>9, <3>1 DEF Here
    <3> QED
      BY <1>1, <1>6, <3>2 DEF TheCall
  <2>2. out' = out /\ count' = count /\ state' = "state_flags" /\ flags' = "flags_none"
    BY <2>1 DEF StatePrint
  <2>3. InFlags(i)'
    BY <1>1, <1>4, <1>5, <2>2 DEF InFlags
  <2>4. At(i)'
    BY <1>1, <1>2, <1>4, <1>9, <2>3 DEF At, InItem
  <2>5. Counted(i)'
    BY <1>1, <2>2 DEF Counted
  <2> QED
    BY <1>4, <1>7, <1>9, <2>4, <2>5 DEF FormatInv
<1> QED
  BY <1>4, <1>8, <1>9
-----------------------------------------------------------------------------
(* Within a directive, and before the end of the format: what can be read    *)
(* there.                                                                    *)
Directive(i, item, S, A) ==
  /\ item = items[i + 1] /\ S = Start(items, i) /\ A = ArgStart(items, i)
  /\ S \in Nat /\ A \in Nat /\ i \in 0 .. Len(items) /\ i < Len(items) /\ i \in Nat
  /\ i + 1 \in 0 .. Len(items) /\ i + 1 \in DOMAIN items
  /\ IsDirective(item) /\ item.spec # "text"
  /\ Here(items, i) /\ ArgsHere(items, i)
  /\ item.spec = "none" => S + BeforeSpec(item) = Len(format)
  /\ item.spec # "none" => /\ Start(items, i + 1) = S + BeforeSpec(item) + 1
                           /\ ArgStart(items, i + 1) = A + ArgCount(item)
  /\ BeforeSpec(item) \in Nat

(* What holds there, for the cases below.                                   *)
LEMMA InDirective ==
  ASSUME NEW i, TheCall, At(i), More, state # "state_print"
  PROVE  InItem(i) /\ \E item, S, A : Directive(i, item, S, A)
<1>1. /\ items \in Formats /\ i \in 0 .. Len(items) /\ i < Len(items) /\ IsItem(items[i + 1])
      /\ i + 1 \in 0 .. Len(items) /\ i + 1 \in DOMAIN items
  BY NotAtEnd
<1>2. InItem(i)
  BY DEF At, BetweenItems
<1>3. PICK item, S, A : item = items[i + 1] /\ S = Start(items, i) /\ A = ArgStart(items, i)
  OBVIOUS
<1>4. item.spec # "text" /\ IsDirective(item)
  BY <1>1, <1>2, <1>3 DEF InItem, IsItem
<1>5. /\ Here(items, i) /\ S \in Nat /\ Start(items, i + 1) = S + ItemLength(item)
      /\ item.spec = "none" => Start(items, i + 1) = Len(format)
  BY <1>1, <1>3, FoundHere DEF TheCall
<1>6. ArgsHere(items, i) /\ A \in Nat /\ ArgStart(items, i + 1) = A + ArgCount(item)
  BY <1>1, <1>3, ArgsFoundHere
<1>7. ItemLength(item) = BeforeSpec(item) + (IF item.spec = "none" THEN 0 ELSE 1) /\ BeforeSpec(item) \in Nat
  BY <1>4, PartsInOrder
<1>8. item.spec = "none" => S + BeforeSpec(item) = Len(format)
  BY <1>5, <1>7
<1>9. item.spec # "none" => Start(items, i + 1) = S + BeforeSpec(item) + 1
  BY <1>5, <1>7
<1>10. i \in Nat
  BY <1>1
<1> QED
  BY <1>1, <1>2, <1>3, <1>4, <1>5, <1>6, <1>7, <1>8, <1>9, <1>10 DEF Directive

(* Behind the point there may be the specifier, or nothing; behind the width *)
(* the point as well.                                                        *)
LEMMA AfterPrecision ==
  ASSUME NEW i, NEW item, NEW S, NEW A, TheCall, Directive(i, item, S, A), More,
         ptr = S + BeforeSpec(item) + 1
  PROVE  /\ item.spec # "none" /\ Char = item.spec
         /\ Char \notin DOMAIN DigitValue /\ Char \notin DOMAIN FlagOf /\ Char # "*" /\ Char # "."
<1>1. item.spec # "none"
  BY DEF Directive, More
<1>2. WholeText(items)[S + (BeforeSpec(item) + 1)] = item.spec
  BY <1>1 DEF Directive, Here
<1>3. ptr = S + (BeforeSpec(item) + 1)
  BY DEF Directive
<1>4. Char = item.spec
  BY <1>2, <1>3 DEF TheCall, Char
<1>5. item.spec \notin DOMAIN FlagOf \union DOMAIN DigitValue \union {"*", "."}
  BY DEF Directive, IsDirective
<1> QED
  BY <1>1, <1>4, <1>5

(* Behind the width: a point if there is a precision, otherwise the         *)
(* specifier.                                                               *)
LEMMA AfterWidth ==
  ASSUME NEW i, NEW item, NEW S, NEW A, TheCall, Directive(i, item, S, A), More,
         ptr = S + BeforePoint(item) + 1
  PROVE  /\ Char \notin DOMAIN DigitValue /\ Char \notin DOMAIN FlagOf /\ Char # "*"
         /\ item.precision.by = "none" => BeforePoint(item) = BeforeSpec(item) /\ Char # "."
         /\ item.precision.by # "none" => BeforePrecision(item) = BeforePoint(item) + 1 /\ Char = "."
<1>1. /\ item.precision.by = "none" => BeforePoint(item) = BeforeSpec(item)
      /\ BeforePrecision(item) = BeforePoint(item) + (IF item.precision.by = "none" THEN 0 ELSE 1)
      /\ BeforePoint(item) \in Nat
  BY PartsInOrder DEF Directive
<1>2. CASE item.precision.by = "none"
  <2>1. ptr = S + BeforeSpec(item) + 1
    BY <1>1, <1>2
  <2> QED
    BY <1>1, <1>2, <2>1, AfterPrecision
<1>3. CASE item.precision.by # "none"
  <2>1. WholeText(items)[S + (BeforePoint(item) + 1)] = "."
    BY <1>3 DEF Directive, Here
  <2>2. ptr = S + (BeforePoint(item) + 1)
    BY <1>1 DEF Directive
  <2>3. Char = "."
    BY <2>1, <2>2 DEF TheCall, Char
  <2> QED
    BY <1>1, <1>3, <2>3, Apart
<1> QED
  BY <1>2, <1>3

(* What a step within the directive keeps.                                   *)
LEMMA Inside ==
  ASSUME NEW i, FormatInv(i), items' = items, format' = format, args' = args, out' = out, count' = count,
         broken' = broken, InItem(i)'
  PROVE  FormatInv(i)'
<1>1. TheCall' /\ Kept'
  BY DEF FormatInv, TheCall, Kept
<1>2. At(i)'
  BY DEF FormatInv, At
<1>3. Counted(i)'
  BY DEF FormatInv, Counted
<1> QED
  BY <1>1, <1>2, <1>3 DEF FormatInv

(* state_flags.                                                             *)
LEMMA FlagsKeep ==
  ASSUME NEW i, FormatInv(i), StateFlags
  PROVE  FormatInv(i)'
<1>1. /\ TheCall /\ At(i) /\ More /\ state = "state_flags"
      /\ items' = items /\ format' = format /\ args' = args /\ ap' = ap /\ broken' = broken
      /\ out' = out /\ count' = count /\ state' = "state_width" /\ width' = 0
  BY DEF FormatInv, StateFlags, Running, call
<1>2. PICK item, S, A : Directive(i, item, S, A)
  BY <1>1, InDirective
<1>3. InItem(i)
  BY <1>1, InDirective
<1>4. flags = "flags_none" /\ ptr = S + 2 /\ ap = A + 1 /\ S \in Nat /\ A \in Nat
  BY <1>1, <1>2, <1>3 DEF InItem, InFlags, InWidth, InPrecision, InSpecifier, Directive
<1>5. PICK m \in 0 .. 2 : m = Len(NumberText(item.width))
  BY <1>2, PartsInOrder DEF Directive
<1>6. Read(item.width, 0) = 0 /\ StarRead(item.width, 0) = 0 /\ 0 \in 0 .. m
  BY DEF Read, StarRead
<1>7. ptr' = S + BeforeWidth(item) + 1 /\ flags' = FlagSet(item)
  <2>1. CASE item.flag # "none"
    <3>1. WholeText(items)[S + 2] = item.flag /\ item.flag \in DOMAIN FlagOf
      BY <1>2, <2>1 DEF Directive, Here, IsDirective
    <3>2. Char = item.flag
      BY <1>1, <1>4, <3>1 DEF TheCall, Char
    <3>3. ptr' = ptr + 1 /\ flags' = FlagOf[item.flag]
      BY <3>1, <3>2 DEF StateFlags
    <3>4. BeforeWidth(item) = 2 /\ FlagSet(item) = FlagOf[item.flag]
      BY <2>1 DEF BeforeWidth, FlagSet
    <3> QED
      BY <1>4, <3>3, <3>4
  <2>2. CASE item.flag = "none"
    <3>1. BeforeWidth(item) = 1 /\ FlagSet(item) = "flags_none"
      BY <2>2 DEF BeforeWidth, FlagSet
    <3>2. Char \notin DOMAIN FlagOf
      <4>1. CASE m = 0
        <5>1. BeforePoint(item) = 1
          BY <1>5, <3>1, <4>1 DEF BeforePoint
        <5>2. ptr = S + BeforePoint(item) + 1
          BY <1>4, <5>1
        <5> QED
          BY <1>1, <1>2, <5>2, AfterWidth
      <4>2. CASE m # 0
        <5>1. 1 \in 1 .. Len(NumberText(item.width))
          BY <1>5, <4>2
        <5>2. WholeText(items)[S + (BeforeWidth(item) + 1)] = NumberChar(item.width, 1)
          BY <1>2, <5>1 DEF Directive, Here
        <5>3. IsNumber(item.width, 1) /\ item.width.by # "none"
          <6>1. IsNumber(item.width, 1)
            BY <1>2 DEF Directive, IsDirective
          <6> QED
            BY <1>5, <4>2, <6>1, NumberRead
        <5>4. NumberChar(item.width, 1) \notin DOMAIN FlagOf
          BY <5>3, NumberRead
        <5>5. ptr = S + (BeforeWidth(item) + 1)
          BY <1>4, <3>1
        <5> QED
          BY <1>1, <5>2, <5>4, <5>5 DEF TheCall, Char
      <4> QED
        BY <4>1, <4>2
    <3>3. ptr' = ptr /\ flags' = flags
      BY <3>2 DEF StateFlags
    <3> QED
      BY <1>4, <3>1, <3>3
  <2> QED
    BY <2>1, <2>2
<1>8. BeforeWidth(item) \in Nat
  BY DEF BeforeWidth
<1>9. InWidth(i, item)'
  <2>1. S = Start(items, i) /\ A = ArgStart(items, i)
    BY <1>2 DEF Directive
  <2>2. /\ ptr' = Start(items', i) + BeforeWidth(item) + 0 + 1
        /\ ap' = ArgStart(items', i) + StarRead(item.width, 0) + 1
        /\ width' = Read(item.width, 0)
    BY <1>1, <1>4, <1>6, <1>7, <1>8, <2>1
  <2> QED
    BY <1>1, <1>5, <1>6, <1>7, <2>2 DEF InWidth
<1>10. InItem(i)'
  BY <1>1, <1>2, <1>9 DEF Directive, InItem
<1> QED
  BY <1>1, <1>10, Inside
-----------------------------------------------------------------------------
(* A number that is being read, in state_width and in state_precision.      *)
LEMMA NumberStep ==
  ASSUME NEW number, NEW least \in {0, 1}, IsNumber(number, least), NEW j \in Nat,
         j < Len(NumberText(number)), NEW c, c = NumberChar(number, j + 1)
  PROVE  /\ j + 1 \in 0 .. Len(NumberText(number))
         /\ \/ /\ number.by # "star" /\ c \in DOMAIN DigitValue /\ c # "*"
               /\ Read(number, j + 1) = Read(number, j) * 10 + DigitValue[c]
               /\ StarRead(number, j + 1) = StarRead(number, j)
            \/ /\ number.by = "star" /\ c = "*" /\ c \notin DOMAIN DigitValue
               /\ Read(number, j + 1) = number.n
               /\ StarRead(number, j) = 0 /\ StarRead(number, j + 1) = 1
<1>1. PICK m \in 0 .. 2 : m = Len(NumberText(number))
  BY NumberRead
<1>2. j + 1 \in 1 .. m /\ j + 1 \in 0 .. m /\ (j + 1) - 1 = j
  BY <1>1
<1>3. CASE number.by = "star"
  <2>1. Len(NumberText(number)) = 1 /\ NumberChar(number, 1) = "*"
    BY <1>3, NumberRead
  <2>2. j = 0
    BY <1>1, <2>1
  <2>3. c = "*" /\ c \notin DOMAIN DigitValue
    BY <2>1, <2>2, Apart
  <2>4. Read(number, j + 1) = number.n
    BY <1>3, <2>2 DEF Read
  <2>5. StarRead(number, j) = 0 /\ StarRead(number, j + 1) = 1
    BY <1>3, <2>2 DEF StarRead
  <2> QED
    BY <1>1, <1>2, <1>3, <2>3, <2>4, <2>5
<1>4. CASE number.by # "star"
  <2>1. \A k \in 1 .. Len(NumberText(number)) :
           /\ NumberChar(number, k) \in DOMAIN DigitValue /\ NumberChar(number, k) # "*"
           /\ Read(number, k) = Read(number, k - 1) * 10 + DigitValue[NumberChar(number, k)]
    BY <1>4, NumberRead
  <2>2. c \in DOMAIN DigitValue /\ c # "*" /\ Read(number, j + 1) = Read(number, j) * 10 + DigitValue[c]
    BY <1>1, <1>2, <2>1
  <2>3. StarRead(number, j) = 0 /\ StarRead(number, j + 1) = 0
    BY <1>4 DEF StarRead
  <2> QED
    BY <1>1, <1>2, <1>4, <2>2, <2>3
<1> QED
  BY <1>3, <1>4

(* And when it is read.                                                      *)
LEMMA NumberEnds ==
  ASSUME NEW number, NEW least \in {0, 1}, IsNumber(number, least)
  PROVE  /\ Read(number, Len(NumberText(number))) = number.n
         /\ StarRead(number, Len(NumberText(number))) = IF number.by = "star" THEN 1 ELSE 0
<1>1. Read(number, Len(NumberText(number))) = number.n
  BY NumberRead
<1>2. number.by = "star" => Len(NumberText(number)) = 1
  BY NumberRead
<1> QED
  BY <1>1, <1>2 DEF StarRead

(* state_width.                                                             *)
LEMMA WidthKeeps ==
  ASSUME NEW i, FormatInv(i), StateWidth
  PROVE  FormatInv(i)'
<1>1. /\ TheCall /\ At(i) /\ More /\ state = "state_width"
      /\ items' = items /\ format' = format /\ args' = args /\ broken' = broken
      /\ out' = out /\ count' = count /\ flags' = flags
  BY DEF FormatInv, StateWidth, Running, call
<1>2. PICK item, S, A : Directive(i, item, S, A)
  BY <1>1, InDirective
<1>3. /\ item = items[i + 1] /\ S = Start(items, i) /\ A = ArgStart(items, i)
      /\ S \in Nat /\ A \in Nat /\ i < Len(items) /\ item.spec # "text"
      /\ IsNumber(item.width, 1) /\ IsNumber(item.precision, 0)
  BY <1>2 DEF Directive, IsDirective
<1>4. InWidth(i, item)
  BY <1>1, <1>3, InDirective DEF InItem, InFlags, InPrecision, InSpecifier
<1>5. PICK m \in 0 .. 2, b \in Nat :
        m = Len(NumberText(item.width)) /\ b = BeforeWidth(item) /\ BeforePoint(item) = b + m
  BY <1>2, PartsInOrder DEF Directive
<1>6. PICK j \in 0 .. m : /\ ptr = S + b + j + 1 /\ width = Read(item.width, j)
                          /\ ap = A + StarRead(item.width, j) + 1
  BY <1>3, <1>4, <1>5 DEF InWidth
<1>7. flags = FlagSet(item)
  BY <1>4 DEF InWidth
<1>8. CASE j < m
  <2>1. PICK k \in 1 .. m : k = j + 1
    BY <1>8
  <2>2. WholeText(items)[S + (b + k)] = NumberChar(item.width, k)
    BY <1>2, <1>5 DEF Directive, Here
  <2>3. ptr = S + (b + k)
    BY <1>3, <1>5, <1>6, <2>1
  <2>4. Char = NumberChar(item.width, j + 1)
    BY <1>1, <2>1, <2>2, <2>3 DEF TheCall, Char
  <2>5. j \in Nat /\ j < Len(NumberText(item.width))
    BY <1>5, <1>8
  <2>6. state' = "state_width" /\ ptr' = S + b + (j + 1) + 1
        /\ width' = Read(item.width, j + 1) /\ ap' = A + StarRead(item.width, j + 1) + 1
    <3>1. CASE /\ item.width.by # "star" /\ Char \in DOMAIN DigitValue /\ Char # "*"
               /\ Read(item.width, j + 1) = Read(item.width, j) * 10 + DigitValue[Char]
               /\ StarRead(item.width, j + 1) = StarRead(item.width, j)
      <4>1. state' = state /\ ptr' = ptr + 1 /\ width' = width * 10 + DigitValue[Char] /\ ap' = ap
        BY <3>1 DEF StateWidth
      <4>2. ptr' = S + b + (j + 1) + 1
        BY <1>3, <1>5, <1>6, <4>1
      <4> QED
        BY <1>1, <1>6, <3>1, <4>1, <4>2
    <3>2. CASE /\ item.width.by = "star" /\ Char = "*" /\ Char \notin DOMAIN DigitValue
               /\ Read(item.width, j + 1) = item.width.n
               /\ StarRead(item.width, j) = 0 /\ StarRead(item.width, j + 1) = 1
      <4>1. state' = state /\ ptr' = ptr + 1 /\ width' = Argument /\ ap' = ap + 1
        BY <3>2 DEF StateWidth
      <4>2. Argument = item.width.n
        <5>1. ap = A + 1
          BY <1>3, <1>6, <3>2
        <5>2. WholeArgs(items)[A + 1] = item.width.n
          BY <1>2, <3>2 DEF Directive, ArgsHere
        <5> QED
          BY <1>1, <5>1, <5>2 DEF TheCall, Argument
      <4>3. ptr' = S + b + (j + 1) + 1 /\ ap' = A + 1 + 1
        BY <1>3, <1>5, <1>6, <3>2, <4>1
      <4> QED
        BY <1>1, <3>2, <4>1, <4>2, <4>3
    <3> QED
      BY <1>3, <2>4, <2>5, <3>1, <3>2, NumberStep
  <2>7. j + 1 \in 0 .. m
    BY <2>1
  <2>8. InWidth(i, item)'
    BY <1>1, <1>3, <1>5, <1>7, <2>6, <2>7 DEF InWidth
  <2>9. InItem(i)'
    BY <1>1, <1>3, <2>8 DEF InItem
  <2> QED
    BY <1>1, <2>9, Inside
<1>9. CASE j = m
  <2>1. ptr = S + BeforePoint(item) + 1
    BY <1>3, <1>5, <1>6, <1>9
  <2>2. Char \notin DOMAIN DigitValue /\ Char # "*"
    BY <1>1, <1>2, <2>1, AfterWidth
  <2>3. width' = width /\ ap' = ap /\ precision' = 0
    BY <2>2 DEF StateWidth
  <2>4. width = item.width.n /\ ap = A + BeforePrecisionArg(item) + 1
    <3>1. /\ Read(item.width, m) = item.width.n
          /\ StarRead(item.width, m) = IF item.width.by = "star" THEN 1 ELSE 0
      BY <1>3, <1>5, NumberEnds
    <3> QED
      BY <1>6, <1>9, <3>1 DEF BeforePrecisionArg
  <2>5. CASE item.precision.by = "none"
    <3>1. Char # "." /\ BeforePoint(item) = BeforeSpec(item)
      BY <1>1, <1>2, <2>1, <2>5, AfterWidth
    <3>2. ptr' = ptr /\ state' = "state_specifier"
      BY <2>2, <3>1 DEF StateWidth
    <3>3. item.precision.n = 0
      BY <1>3, <2>5 DEF IsNumber
    <3>4. BeforeValue(item) = BeforePrecisionArg(item)
      BY <2>5 DEF BeforeValue, BeforePrecisionArg
    <3>5. InSpecifier(i, item)'
      BY <1>1, <1>3, <1>7, <2>1, <2>3, <2>4, <3>1, <3>2, <3>3, <3>4 DEF InSpecifier
    <3>6. InItem(i)'
      BY <1>1, <1>3, <3>5 DEF InItem
    <3> QED
      BY <1>1, <3>6, Inside
  <2>6. CASE item.precision.by # "none"
    <3>1. Char = "." /\ BeforePrecision(item) = BeforePoint(item) + 1
      BY <1>1, <1>2, <2>1, <2>6, AfterWidth
    <3>2. ptr' = ptr + 1 /\ state' = "state_precision"
      BY <2>2, <3>1 DEF StateWidth
    <3>3. Read(item.precision, 0) = 0 /\ StarRead(item.precision, 0) = 0
      BY DEF Read, StarRead
    <3>4. PICK n \in 0 .. 2, p \in Nat, q \in Nat :
            /\ n = Len(NumberText(item.precision)) /\ p = BeforePoint(item) /\ q = BeforePrecisionArg(item)
      <4>1. BeforePrecisionArg(item) \in Nat
        BY DEF BeforePrecisionArg
      <4> QED
        BY <1>2, <4>1, PartsInOrder DEF Directive
    <3>5. ptr' = S + BeforePrecision(item) + 0 + 1 /\ ap' = A + q + 0 + 1
      <4>1. S + (p + 1) + 0 + 1 = (S + p + 1) + 1 /\ A + q + 0 + 1 = A + q + 1
        BY <1>3
      <4>2. ptr' = (S + p + 1) + 1 /\ ap' = A + q + 1 /\ BeforePrecision(item) = p + 1
        BY <2>1, <2>3, <2>4, <3>1, <3>2, <3>4
      <4> QED
        BY <4>1, <4>2
    <3>6. InPrecision(i, item)'
      <4>1. 0 \in 0 .. Len(NumberText(item.precision))
        BY <3>4
      <4> QED
        BY <1>1, <1>3, <1>7, <2>3, <2>4, <2>6, <3>2, <3>3, <3>4, <3>5, <4>1 DEF InPrecision
    <3>7. InItem(i)'
      BY <1>1, <1>3, <3>6 DEF InItem
    <3> QED
      BY <1>1, <3>7, Inside
  <2> QED
    BY <2>5, <2>6
<1> QED
  BY <1>8, <1>9

(* state_precision.                                                         *)
LEMMA PrecisionKeeps ==
  ASSUME NEW i, FormatInv(i), StatePrecision
  PROVE  FormatInv(i)'
<1>1. /\ TheCall /\ At(i) /\ More /\ state = "state_precision"
      /\ items' = items /\ format' = format /\ args' = args /\ broken' = broken
      /\ out' = out /\ count' = count /\ flags' = flags /\ width' = width
  BY DEF FormatInv, StatePrecision, Running, call
<1>2. PICK item, S, A : Directive(i, item, S, A)
  BY <1>1, InDirective
<1>3. /\ item = items[i + 1] /\ S = Start(items, i) /\ A = ArgStart(items, i)
      /\ S \in Nat /\ A \in Nat /\ i < Len(items) /\ item.spec # "text"
      /\ IsNumber(item.precision, 0)
  BY <1>2 DEF Directive, IsDirective
<1>4. InPrecision(i, item)
  BY <1>1, <1>3, InDirective DEF InItem, InFlags, InWidth, InSpecifier
<1>5. PICK m \in 0 .. 2, b \in Nat, q \in Nat :
        /\ m = Len(NumberText(item.precision)) /\ b = BeforePrecision(item) /\ BeforeSpec(item) = b + m
        /\ q = BeforePrecisionArg(item)
  <2>1. BeforePrecisionArg(item) \in Nat
    BY DEF BeforePrecisionArg
  <2> QED
    BY <1>2, <2>1, PartsInOrder DEF Directive
<1>6. PICK j \in 0 .. m : /\ ptr = S + b + j + 1 /\ precision = Read(item.precision, j)
                          /\ ap = A + q + StarRead(item.precision, j) + 1
  BY <1>3, <1>4, <1>5 DEF InPrecision
<1>7. flags = FlagSet(item) /\ width = item.width.n /\ item.precision.by # "none"
  BY <1>4 DEF InPrecision
<1>8. CASE j < m
  <2>1. PICK k \in 1 .. m : k = j + 1
    BY <1>8
  <2>2. WholeText(items)[S + (b + k)] = NumberChar(item.precision, k)
    BY <1>2, <1>5 DEF Directive, Here
  <2>3. ptr = S + (b + k)
    BY <1>3, <1>5, <1>6, <2>1
  <2>4. Char = NumberChar(item.precision, j + 1)
    BY <1>1, <2>1, <2>2, <2>3 DEF TheCall, Char
  <2>p. ptr + 1 = S + b + (j + 1) + 1
    <3>1. ptr = S + b + j + 1
      BY <1>6
    <3>2. (S + b + j + 1) + 1 = S + b + (j + 1) + 1
      BY <1>3
    <3> QED
      BY <3>1, <3>2
  <2>5. j \in Nat /\ j < Len(NumberText(item.precision))
    BY <1>5, <1>8
  <2>6. state' = "state_precision" /\ ptr' = S + b + (j + 1) + 1
        /\ precision' = Read(item.precision, j + 1) /\ ap' = A + q + StarRead(item.precision, j + 1) + 1
    <3>1. CASE /\ item.precision.by # "star" /\ Char \in DOMAIN DigitValue /\ Char # "*"
               /\ Read(item.precision, j + 1) = Read(item.precision, j) * 10 + DigitValue[Char]
               /\ StarRead(item.precision, j + 1) = StarRead(item.precision, j)
      <4>1. state' = state /\ ptr' = ptr + 1 /\ precision' = precision * 10 + DigitValue[Char] /\ ap' = ap
        BY <3>1 DEF StatePrecision
      <4>2. ptr' = S + b + (j + 1) + 1
        BY <2>p, <4>1
      <4> QED
        BY <1>1, <1>6, <3>1, <4>1, <4>2
    <3>2. CASE /\ item.precision.by = "star" /\ Char = "*" /\ Char \notin DOMAIN DigitValue
               /\ Read(item.precision, j + 1) = item.precision.n
               /\ StarRead(item.precision, j) = 0 /\ StarRead(item.precision, j + 1) = 1
      <4>1. state' = state /\ ptr' = ptr + 1 /\ precision' = Argument /\ ap' = ap + 1
        BY <3>2 DEF StatePrecision
      <4>2. Argument = item.precision.n
        <5>1. ap = A + (q + 1)
          BY <1>3, <1>5, <1>6, <3>2
        <5>2. WholeArgs(items)[A + (q + 1)] = item.precision.n
          BY <1>2, <1>5, <3>2 DEF Directive, ArgsHere
        <5> QED
          BY <1>1, <5>1, <5>2 DEF TheCall, Argument
      <4>3. ptr' = S + b + (j + 1) + 1 /\ ap' = A + q + 1 + 1
        <5>1. ap = A + q + StarRead(item.precision, j) + 1
          BY <1>6
        <5>2. A + q + 0 + 1 + 1 = A + q + 1 + 1
          BY <1>3
        <5> QED
          BY <2>p, <3>2, <4>1, <5>1, <5>2
      <4> QED
        BY <1>1, <3>2, <4>1, <4>2, <4>3
    <3> QED
      BY <1>3, <2>4, <2>5, <3>1, <3>2, NumberStep
  <2>7. j + 1 \in 0 .. m
    BY <2>1
  <2>8. InPrecision(i, item)'
    BY <1>1, <1>3, <1>5, <1>7, <2>6, <2>7 DEF InPrecision
  <2>9. InItem(i)'
    BY <1>1, <1>3, <2>8 DEF InItem
  <2> QED
    BY <1>1, <2>9, Inside
<1>9. CASE j = m
  <2>1. ptr = S + BeforeSpec(item) + 1
    BY <1>3, <1>5, <1>6, <1>9
  <2>2. Char \notin DOMAIN DigitValue /\ Char # "*"
    BY <1>1, <1>2, <2>1, AfterPrecision
  <2>3. precision' = precision /\ ap' = ap /\ ptr' = ptr /\ state' = "state_specifier"
    BY <2>2 DEF StatePrecision
  <2>4. precision = item.precision.n /\ ap = A + BeforeValue(item) + 1
    <3>1. /\ Read(item.precision, m) = item.precision.n
          /\ StarRead(item.precision, m) = IF item.precision.by = "star" THEN 1 ELSE 0
      BY <1>3, <1>5, NumberEnds
    <3>2. A + q + StarRead(item.precision, m) = A + (q + StarRead(item.precision, m))
      BY <1>3, <3>1
    <3> QED
      BY <1>5, <1>6, <1>9, <3>1, <3>2 DEF BeforeValue
  <2>5. InSpecifier(i, item)'
    BY <1>1, <1>3, <1>7, <2>1, <2>3, <2>4 DEF InSpecifier
  <2>6. InItem(i)'
    BY <1>1, <1>3, <2>5 DEF InItem
  <2> QED
    BY <1>1, <2>6, Inside
<1> QED
  BY <1>8, <1>9
-----------------------------------------------------------------------------
(* At the specifier everything has been read.                               *)
AtSpec(i, item) ==
  /\ TheCall /\ i \in Nat /\ i + 1 \in DOMAIN items /\ i + 1 \in 0 .. Len(items)
  /\ item = items[i + 1] /\ IsDirective(item) /\ item.spec \notin {"text", "none"} /\ Char = item.spec
  /\ flags = FlagSet(item) /\ width = item.width.n /\ precision = item.precision.n
  /\ width \in Nat /\ precision \in Nat
  /\ ptr + 1 = Start(items, i + 1) + 1
  /\ (IF item.spec \in TakesArgument THEN ap + 1 ELSE ap) = ArgStart(items, i + 1) + 1
  /\ item.spec \in TakesArgument => Argument = item.value

(* state_specifier is reached nowhere else.                                 *)
LEMMA SpecifierHere ==
  ASSUME NEW i, FormatInv(i), Running("state_specifier")
  PROVE  \E item : AtSpec(i, item)
<1>1. TheCall /\ At(i) /\ More /\ state = "state_specifier"
  BY DEF FormatInv, Running
<1>2. PICK item, S, A : Directive(i, item, S, A)
  BY <1>1, InDirective
<1>3. /\ item = items[i + 1] /\ S = Start(items, i) /\ A = ArgStart(items, i)
      /\ S \in Nat /\ A \in Nat /\ i \in Nat /\ i + 1 \in 0 .. Len(items) /\ i + 1 \in DOMAIN items
      /\ item.spec # "text" /\ IsDirective(item)
      /\ IsNumber(item.width, 1) /\ IsNumber(item.precision, 0)
  BY <1>2 DEF Directive, IsDirective
<1>4. InSpecifier(i, item)
  BY <1>1, <1>3, InDirective DEF InItem, InFlags, InWidth, InPrecision
<1>5. /\ flags = FlagSet(item) /\ width = item.width.n /\ precision = item.precision.n
      /\ ptr = S + BeforeSpec(item) + 1 /\ ap = A + BeforeValue(item) + 1
  BY <1>3, <1>4 DEF InSpecifier
<1>6. item.spec # "none" /\ Char = item.spec
  BY <1>1, <1>2, <1>5, AfterPrecision
<1>7. PICK b \in Nat, v \in Nat : b = BeforeSpec(item) /\ v = BeforeValue(item)
  <2>1. BeforeValue(item) \in Nat
    BY DEF BeforeValue, BeforePrecisionArg
  <2> QED
    BY <1>2, <2>1 DEF Directive
<1>8. Start(items, i + 1) = S + b + 1 /\ ArgStart(items, i + 1) = A + ArgCount(item)
  BY <1>2, <1>6, <1>7 DEF Directive
<1>9. ptr + 1 = Start(items, i + 1) + 1
  <2>1. ptr = S + b + 1
    BY <1>5, <1>7
  <2> QED
    BY <1>8, <2>1
<1>10. /\ (IF item.spec \in TakesArgument THEN ap + 1 ELSE ap) = ArgStart(items, i + 1) + 1
       /\ item.spec \in TakesArgument => Argument = item.value
  <2>1. ap = A + v + 1
    BY <1>5, <1>7
  <2>2. CASE item.spec \in TakesArgument
    <3>1. ArgCount(item) = v + 1
      BY <1>3, <1>7, <2>2 DEF ArgCount
    <3>2. ap + 1 = A + (v + 1) + 1 /\ ap = A + (v + 1)
      BY <1>3, <2>1
    <3>3. WholeArgs(items)[A + (v + 1)] = item.value
      BY <1>2, <1>7, <2>2 DEF Directive, ArgsHere
    <3>4. Argument = item.value
      BY <1>1, <3>2, <3>3 DEF TheCall, Argument
    <3> QED
      BY <1>8, <2>2, <3>1, <3>2, <3>4
  <2>3. CASE item.spec \notin TakesArgument
    <3>1. ArgCount(item) = v
      BY <1>3, <1>7, <2>3 DEF ArgCount
    <3> QED
      BY <1>8, <2>1, <2>3, <3>1
  <2> QED
    BY <2>2, <2>3
<1>11. width \in Nat /\ precision \in Nat
  BY <1>3, <1>5, NumberRead
<1> QED
  BY <1>1, <1>3, <1>5, <1>6, <1>9, <1>10, <1>11 DEF AtSpec

(* Behind it the next item begins.                                          *)
LEMMA NextItem ==
  ASSUME NEW i, NEW item, FormatInv(i), AtSpec(i, item), SpecifierDone, broken' = broken,
         ap' = IF item.spec \in TakesArgument THEN ap + 1 ELSE ap,
         IsSeq(out'), count' = Len(out') + (count - Len(out)) + (IF LeftNumber(item) THEN 1 ELSE 0),
         Len(out') \in Nat
  PROVE  FormatInv(i + 1)'
<1>1. /\ TheCall /\ Counted(i) /\ Kept /\ i \in Nat
      /\ items' = items /\ format' = format /\ args' = args /\ ptr' = ptr + 1 /\ state' = "state_print"
  BY DEF FormatInv, SpecifierDone, AtSpec, call
<1>2. TheCall' /\ Kept'
  BY <1>1 DEF TheCall, Kept
<1>3. BetweenItems(i + 1)'
  BY <1>1 DEF BetweenItems, AtSpec
<1>4. At(i + 1)'
  BY <1>1, <1>3 DEF At, AtSpec
<1>5. Counted(i + 1)'
  <2>1. PICK n \in Nat, m \in Nat, k \in Nat : n = Cardinality(Lefts(items, i)) /\ m = Len(out') /\ k = Len(out)
    BY <1>1, OneMore, Joined DEF Counted
  <2>2. Cardinality(Lefts(items, i + 1)) = n + (IF LeftNumber(item) THEN 1 ELSE 0)
    BY <1>1, <2>1, OneMore DEF AtSpec
  <2>3. count - Len(out) = n
    BY <1>1, <2>1 DEF Counted
  <2>4. count' = m + n + (IF LeftNumber(item) THEN 1 ELSE 0)
    BY <2>1, <2>3
  <2>5. count' = m + (n + (IF LeftNumber(item) THEN 1 ELSE 0))
    BY <2>4
  <2> QED
    BY <1>1, <2>1, <2>2, <2>5 DEF Counted
<1> QED
  BY <1>2, <1>4, <1>5 DEF FormatInv

(* An item that is no number.                                               *)
LEMMA NextOther ==
  ASSUME NEW i, NEW item, FormatInv(i), AtSpec(i, item), SpecifierDone, broken' = broken,
         ap' = IF item.spec \in TakesArgument THEN ap + 1 ELSE ap,
         item.spec \notin DOMAIN NumberCalls,
         NEW text, IsSeq(text), out' = Join(out, text), count' = count + Len(text)
  PROVE  FormatInv(i + 1)'
<1>1. IsSeq(out) /\ count = Len(out) + Cardinality(Lefts(items, i)) /\ i \in Nat
  BY DEF FormatInv, Counted, AtSpec
<1>2. IsSeq(out') /\ Len(out') = Len(out) + Len(text) /\ Len(out) \in Nat /\ Len(text) \in Nat
  BY <1>1, Joined
<1>3. ~LeftNumber(item)
  BY DEF LeftNumber
<1>4. PICK n \in Nat : n = Cardinality(Lefts(items, i))
  BY <1>1, OneMore
<1>5. PICK k \in Nat, m \in Nat : k = Len(out) /\ m = Len(text)
  BY <1>2
<1>6. Len(out') = k + m /\ count' = k + n + m /\ count = k + n
  BY <1>1, <1>2, <1>4, <1>5
<1>7. count' = Len(out') + (count - Len(out)) + (IF LeftNumber(item) THEN 1 ELSE 0)
  BY <1>3, <1>5, <1>6
<1> QED
  BY <1>2, <1>7, NextItem

(* Items of one character.                                                  *)
LEMMA AppendJoins ==
  ASSUME NEW s, IsSeq(s)
  PROVE  /\ \A e : Append(s, e) = Join(s, <<e>>)
         /\ Join(s, <<>>) = s
<1>1. PICK S : s \in Seq(S)
  BY DEF IsSeq
<1>2. ASSUME NEW e PROVE Append(s, e) = s \o <<e>>
  <2> DEFINE T == S \cup {e}
  <2>1. s \in Seq(T) /\ e \in T
    BY <1>1
  <2> HIDE DEF T
  <2> QED
    BY <2>1
<1>3. s \o <<>> = s
  BY <1>1
<1> QED
  BY <1>2, <1>3 DEF Join

(* f F e E a A: nothing is printed or counted.                              *)
LEMMA FloatKeeps ==
  ASSUME NEW i, FormatInv(i), SpecFloat
  PROVE  FormatInv(i + 1)'
<1>1. PICK item : AtSpec(i, item)
  BY SpecifierHere DEF SpecFloat, AtSpecifier
<1>2. item.spec \in {"f", "F", "e", "E", "a", "A"}
  BY <1>1 DEF SpecFloat, AtSpecifier, AtSpec
<1>3. item.spec \notin TakesArgument /\ item.spec \notin DOMAIN NumberCalls
  BY <1>2 DEF TakesArgument, NumberCalls
<1>4. IsSeq(<<>>) /\ Len(<<>>) = 0
  BY Short
<1>5. IsSeq(out) /\ count \in Int
  <2>1. IsSeq(out) /\ count = Len(out) + Cardinality(Lefts(items, i)) /\ i \in Nat
    BY <1>1 DEF FormatInv, Counted, AtSpec
  <2>2. Len(out) \in Nat /\ Cardinality(Lefts(items, i)) \in Nat
    BY <2>1, Joined, OneMore
  <2> QED
    BY <2>1, <2>2
<1>6. out' = Join(out, <<>>) /\ count' = count + 0
  BY <1>5 DEF SpecFloat, PrintFloatOut, PrintFloatCount, Join
<1>7. SpecifierDone /\ broken' = broken /\ ap' = ap
  BY DEF SpecFloat
<1> QED
  BY <1>1, <1>3, <1>4, <1>6, <1>7, NextOther

(* c C: one character.                                                      *)
LEMMA CharKeeps ==
  ASSUME NEW i, FormatInv(i), SpecChar
  PROVE  FormatInv(i + 1)'
<1>1. PICK item : AtSpec(i, item)
  BY SpecifierHere DEF SpecChar, AtSpecifier
<1>2. item.spec \in {"c", "C"}
  BY <1>1 DEF SpecChar, AtSpecifier, AtSpec
<1>3. item.spec \in TakesArgument /\ item.spec \notin DOMAIN NumberCalls
  BY <1>2 DEF TakesArgument, NumberCalls
<1>4. PICK c : c = Argument
  OBVIOUS
<1>5. IsSeq(<<c>>) /\ Len(<<c>>) = 1
  BY Short
<1>6. out' = Join(out, <<c>>) /\ count' = count + 1
  BY <1>4, AppendJoins DEF SpecChar, FormatInv, Counted
<1>7. SpecifierDone /\ broken' = broken /\ ap' = ap + 1
  BY DEF SpecChar
<1> QED
  BY <1>1, <1>3, <1>5, <1>6, <1>7, NextOther

(* %%: one character, and no argument.                                      *)
LEMMA PercentKeeps ==
  ASSUME NEW i, FormatInv(i), SpecPercent
  PROVE  FormatInv(i + 1)'
<1>1. PICK item : AtSpec(i, item)
  BY SpecifierHere DEF SpecPercent, AtSpecifier
<1>2. item.spec = "%"
  BY <1>1 DEF SpecPercent, AtSpecifier, AtSpec
<1>3. item.spec \notin TakesArgument /\ item.spec \notin DOMAIN NumberCalls
  BY <1>2 DEF TakesArgument, NumberCalls
<1>4. IsSeq(<<"%">>) /\ Len(<<"%">>) = 1
  BY Short
<1>5. out' = Join(out, <<"%">>) /\ count' = count + 1
  BY AppendJoins DEF SpecPercent, FormatInv, Counted
<1>6. SpecifierDone /\ broken' = broken /\ ap' = ap
  BY DEF SpecPercent
<1> QED
  BY <1>1, <1>3, <1>4, <1>5, <1>6, NextOther

(* Items that print nothing.                                                *)
LEMMA NextSilent ==
  ASSUME NEW i, NEW item, FormatInv(i), AtSpec(i, item), SpecifierDone, broken' = broken,
         ap' = IF item.spec \in TakesArgument THEN ap + 1 ELSE ap,
         item.spec \notin DOMAIN NumberCalls, out' = out, count' = count
  PROVE  FormatInv(i + 1)'
<1>1. IsSeq(out) /\ count = Len(out) + Cardinality(Lefts(items, i)) /\ i \in Nat
  BY DEF FormatInv, Counted, AtSpec
<1>2. Len(out) \in Nat /\ Cardinality(Lefts(items, i)) \in Nat
  BY <1>1, Joined, OneMore
<1>3. IsSeq(<<>>) /\ Len(<<>>) = 0
  BY Short
<1>4. out' = Join(out, <<>>) /\ count' = count + 0
  BY <1>1, <1>2, AppendJoins
<1> QED
  BY <1>3, <1>4, NextOther

(* n N: the count is stored and stays.                                      *)
LEMMA StoreKeeps ==
  ASSUME NEW i, FormatInv(i), SpecStore
  PROVE  FormatInv(i + 1)'
<1>1. PICK item : AtSpec(i, item)
  BY SpecifierHere DEF SpecStore, AtSpecifier
<1>2. item.spec \in {"n", "N"}
  BY <1>1 DEF SpecStore, AtSpecifier, AtSpec
<1>3. item.spec \in TakesArgument /\ item.spec \notin DOMAIN NumberCalls
  BY <1>2 DEF TakesArgument, NumberCalls
<1>4. SpecifierDone /\ broken' = broken /\ ap' = ap + 1 /\ out' = out /\ count' = count
  BY DEF SpecStore
<1> QED
  BY <1>1, <1>3, <1>4, NextSilent

(* Any other character: skipped.                                            *)
LEMMA UnknownKeeps ==
  ASSUME NEW i, FormatInv(i), SpecUnknown
  PROVE  FormatInv(i + 1)'
<1>1. PICK item : AtSpec(i, item)
  BY SpecifierHere DEF SpecUnknown
<1>2. item.spec \notin KnownSpecifiers
  BY <1>1 DEF SpecUnknown, AtSpec
<1>3. item.spec \notin TakesArgument /\ item.spec \notin DOMAIN NumberCalls
  BY <1>2 DEF KnownSpecifiers, TakesArgument, NumberCalls
<1>4. SpecifierDone /\ broken' = broken /\ ap' = ap /\ out' = out /\ count' = count
  BY DEF SpecUnknown
<1> QED
  BY <1>1, <1>3, <1>4, NextSilent

(* s S h H w W: as many characters as are counted.                          *)
LEMMA StringKeeps ==
  ASSUME NEW i, FormatInv(i), SpecString
  PROVE  FormatInv(i + 1)'
<1>1. PICK item : AtSpec(i, item)
  BY SpecifierHere DEF SpecString, AtSpecifier
<1>2. item.spec \in StringSpecs
  BY <1>1 DEF SpecString, AtSpecifier, AtSpec, StringSpecs
<1>3. item.spec \in TakesArgument /\ item.spec \notin DOMAIN NumberCalls
  BY <1>2 DEF TakesArgument, NumberCalls, StringSpecs
<1>4. Argument = item.value /\ (item.value = Null \/ IsSequence(item.value)) /\ precision \in Nat
  BY <1>1, <1>2, <1>3 DEF AtSpec, IsDirective
<1>5. PICK text : text = IF Argument = Null THEN <<"(", "n", "u", "l", "l", ")">> ELSE Shown(Argument)
  OBVIOUS
<1>6. IsSeq(text)
  <2>1. CASE Argument = Null
    <3>1. <<"(", "n", "u", "l", "l", ")">> \in Seq({"(", "n", "u", "l", ")"})
      OBVIOUS
    <3>2. IsSeq(<<"(", "n", "u", "l", "l", ")">>)
      BY <3>1, Zenon DEF IsSeq
    <3> QED
      BY <1>5, <2>1, <3>2
  <2>2. CASE Argument # Null
    <3>1. IsSequence(Argument)
      BY <1>4, <2>2
    <3>2. IsSeq(Shown(Argument))
      BY <1>4, <3>1, StringShown
    <3> QED
      BY <1>5, <2>2, <3>2
  <2> QED
    BY <2>1, <2>2
<1>7. out' = Join(out, text) /\ count' = count + Len(text)
  BY <1>5 DEF SpecString, Join
<1>8. SpecifierDone /\ broken' = broken /\ ap' = ap + 1
  BY DEF SpecString
<1> QED
  BY <1>1, <1>3, <1>6, <1>7, <1>8, NextOther

(* print_int is left with a broken buffer only if the width says so.        *)
LEMMA NumberKeeps ==
  ASSUME NEW i, FormatInv(i), SpecNumber
  PROVE  FormatInv(i + 1)'
<1>1. PICK item : AtSpec(i, item)
  BY SpecifierHere DEF SpecNumber, AtSpecifier
<1>2. item.spec \in DOMAIN NumberCalls
  BY <1>1 DEF SpecNumber, AtSpecifier, AtSpec
<1>3. item.spec \in TakesArgument
  BY <1>2 DEF TakesArgument, NumberCalls
<1>4. Argument = item.value /\ item.value \in 0 .. Modulus - 1 /\ width \in Nat /\ width = item.width.n
  BY <1>1, <1>2, <1>3 DEF AtSpec, IsDirective
<1>5. NumberCalls[item.spec].base \in {8, 10, 16}
  BY <1>2 DEF NumberCalls
<1>6. PICK base, uppercase, is_signed : /\ base = NumberCalls[item.spec].base
                                        /\ uppercase = NumberCalls[item.spec].uppercase
                                        /\ is_signed = NumberCalls[item.spec].is_signed
  OBVIOUS
<1>7. PICK buffer : buffer = NumberBuffer(Argument, base, uppercase, is_signed)
  OBVIOUS
<1>8. IsSeq(buffer) /\ Len(buffer) \in 1 .. BufferSize
  BY <1>4, <1>5, <1>6, <1>7, BufferFits
<1>9. /\ IsSeq(PrintIntOut(buffer)) /\ Len(PrintIntOut(buffer)) \in Nat
      /\ PrintIntCount(buffer) = Len(PrintIntOut(buffer)) + (IF flags = "flags_left_justify" THEN 1 ELSE 0)
      /\ BufferUsed(buffer) > BufferSize => flags # "flags_left_justify" /\ width > BufferSize
  <2>1. Len(buffer) <= BufferSize
    BY <1>8, SizesAssumption
  <2> QED
    BY <1>4, <1>8, <2>1, Printed
<1>10. flags = "flags_left_justify" <=> item.flag = "-"
  <2>1. flags = FlagSet(item) /\ item.flag \in DOMAIN FlagOf \union {"none"}
    BY <1>1 DEF AtSpec, IsDirective
  <2>2. \A c \in DOMAIN FlagOf : FlagOf[c] = "flags_left_justify" <=> c = "-"
    BY DEF FlagOf
  <2> QED
    BY <2>1, <2>2, Apart DEF FlagSet
<1>11. /\ SpecifierDone /\ ap' = ap + 1
       /\ IF BufferUsed(buffer) > BufferSize
          THEN broken' = TRUE /\ out' = out /\ count' = count
          ELSE /\ out' = out \o PrintIntOut(buffer) /\ count' = count + PrintIntCount(buffer)
               /\ broken' = broken
  <2>1. Char = item.spec
    BY <1>1 DEF AtSpec
  <2> QED
    BY <1>6, <1>7, <2>1 DEF SpecNumber
<1>12. i \in Nat /\ IsSeq(out) /\ count = Len(out) + Cardinality(Lefts(items, i))
  BY <1>1 DEF AtSpec, FormatInv, Counted
<1>13. PICK n \in Nat, k \in Nat : n = Cardinality(Lefts(items, i)) /\ k = Len(out)
  BY <1>12, OneMore, Joined
<1>14. LeftNumber(item) <=> item.flag = "-"
  BY <1>2 DEF LeftNumber
<1>15. CASE BufferUsed(buffer) > BufferSize
  <2>1. item.flag # "-" /\ item.width.n > BufferSize
    BY <1>4, <1>9, <1>10, <1>15
  <2>2. Overrun(items)
    BY <1>1, <1>2, <2>1 DEF AtSpec, Overrun
  <2>3. broken' = TRUE /\ out' = out /\ count' = count
    BY <1>11, <1>15
  <2>4. /\ TheCall /\ items' = items /\ format' = format /\ args' = args /\ ptr' = ptr + 1
        /\ state' = "state_print" /\ ap' = ap + 1
    BY <1>11 DEF FormatInv, SpecifierDone, call
  <2>5. TheCall' /\ Kept'
    BY <2>2, <2>3, <2>4 DEF TheCall, Kept
  <2>6. BetweenItems(i + 1)'
    BY <1>1, <1>3, <2>4 DEF BetweenItems, AtSpec
  <2>7. At(i + 1)'
    BY <1>1, <2>4, <2>6 DEF At, AtSpec
  <2>8. Cardinality(Lefts(items, i + 1)) = n
    <3>1. ~LeftNumber(items[i + 1])
      BY <1>1, <1>14, <2>1 DEF AtSpec
    <3> QED
      BY <1>12, <1>13, <3>1, OneMore
  <2>9. Counted(i + 1)'
    BY <1>12, <1>13, <2>3, <2>4, <2>8 DEF Counted
  <2> QED
    BY <2>5, <2>7, <2>9 DEF FormatInv
<1>16. CASE ~(BufferUsed(buffer) > BufferSize)
  <2>1. PICK text : text = PrintIntOut(buffer)
    OBVIOUS
  <2>2. out' = Join(out, text) /\ count' = count + PrintIntCount(buffer) /\ broken' = broken
    BY <1>11, <1>16, <2>1 DEF Join
  <2>3. PICK m \in Nat : m = Len(text)
    BY <1>9, <2>1
  <2>4. IsSeq(out') /\ Len(out') = k + m
    BY <1>9, <1>12, <1>13, <2>1, <2>2, <2>3, Joined
  <2>5. PrintIntCount(buffer) = m + (IF LeftNumber(item) THEN 1 ELSE 0)
    BY <1>9, <1>10, <1>14, <2>1, <2>3
  <2>6. count' = k + n + (m + (IF LeftNumber(item) THEN 1 ELSE 0)) /\ count = k + n
    BY <1>12, <1>13, <2>2, <2>5
  <2>7. count' = Len(out') + (count - Len(out)) + (IF LeftNumber(item) THEN 1 ELSE 0)
    <3>1. CASE LeftNumber(item)
      BY <1>13, <2>4, <2>6, <3>1
    <3>2. CASE ~LeftNumber(item)
      BY <1>13, <2>4, <2>6, <3>2
    <3> QED
      BY <3>1, <3>2
  <2>8. FormatInv(i + 1)'
    BY <1>1, <1>3, <1>11, <2>2, <2>4, <2>7, NextItem
  <2> QED
    BY <2>8
<1> QED
  BY <1>15, <1>16
-----------------------------------------------------------------------------
(* How far the loop has come, and what the locals are, for each place.       *)
Place(i) ==
  /\ items \in Formats /\ i \in Nat /\ i <= Len(items) /\ Len(items) \in Nat /\ ptr \in Nat
  /\ Start(items, i) \in Nat /\ Start(items, i) < ptr
  /\ i = Len(items) => ptr = Start(items, i) + 1
  /\ i < Len(items) => \/ ptr <= Start(items, i + 1)
                       \/ items[i + 1].spec = "none" /\ ptr <= Start(items, i + 1) + 1

Locals ==
  /\ state \in {"state_print", "state_flags", "state_width", "state_precision", "state_specifier"}
  /\ state # "state_print" => flags # FlagsUnset
  /\ state \in {"state_width", "state_precision", "state_specifier"} => width \in Nat
  /\ state \in {"state_precision", "state_specifier"} => precision \in Nat

(* A flag that has been read is one of the six.                             *)
LEMMA FlagIsSet ==
  ASSUME NEW item, IsDirective(item)
  PROVE  FlagSet(item) # FlagsUnset
BY DEF IsDirective, FlagSet, FlagOf, FlagsUnset

(* Both hold wherever the invariant says the parser is.                     *)
LEMMA WhereItIs ==
  ASSUME NEW i, TheCall, At(i)
  PROVE  Place(i) /\ Locals
<1>0. items \in Formats /\ i \in 0 .. Len(items) /\ Len(items) \in Nat /\ i \in Nat /\ i <= Len(items)
  <2>1. items \in Formats /\ i \in 0 .. Len(items)
    BY DEF TheCall, At
  <2> QED
    BY <2>1, Listed
<1>1. Start(items, i) \in Nat
  BY <1>0, Layout DEF Laid
<1>2. PICK S \in Nat : S = Start(items, i)
  BY <1>1
<1>3. CASE BetweenItems(i)
  <2>1. state = "state_print" /\ ptr = S + 1
    BY <1>2, <1>3 DEF BetweenItems
  <2>2. ASSUME i < Len(items) PROVE ptr <= Start(items, i + 1)
    <3>1. PICK n \in Nat \ {0} : Start(items, i + 1) = S + n
      BY <1>0, <1>2, <2>2, FoundHere
    <3> QED
      BY <2>1, <3>1
  <2>3. Locals
    BY <2>1 DEF Locals
  <2> QED
    BY <1>0, <1>2, <2>1, <2>2, <2>3 DEF Place
<1>4. CASE InItem(i)
  <2>1. PICK item : item = items[i + 1]
    OBVIOUS
  <2>2. i < Len(items) /\ item.spec # "text"
    BY <1>4, <2>1 DEF InItem
  <2>3. IsDirective(item)
    <3>1. i + 1 \in 1 .. Len(items)
      BY <1>0, <2>2
    <3>2. IsItem(item)
      BY <1>0, <2>1, <3>1, Listed
    <3> QED
      BY <2>2, <3>2 DEF IsItem
  <2>4. PICK a, b, c, d, e \in Nat :
          /\ a = BeforeWidth(item) /\ b = BeforePoint(item) /\ c = BeforePrecision(item)
          /\ d = BeforeSpec(item) /\ e = ItemLength(item)
    BY <1>0, <2>1, <2>2, <2>3, PartsInOrder, FoundHere
  <2>5. PICK g, h \in 0 .. 2 : g = Len(NumberText(item.width)) /\ h = Len(NumberText(item.precision))
    BY <2>2, <2>3, PartsInOrder
  <2>6. /\ a >= 1 /\ b = a + g /\ c >= b /\ d = c + h
        /\ e = d + (IF item.spec = "none" THEN 0 ELSE 1)
    <3>1. /\ a = 1 + (IF item.flag = "none" THEN 0 ELSE 1) /\ b = a + g
          /\ c = b + (IF item.precision.by = "none" THEN 0 ELSE 1)
      BY <2>2, <2>3, <2>4, <2>5, PartsInOrder
    <3>2. d = c + h /\ e = d + (IF item.spec = "none" THEN 0 ELSE 1)
      BY <2>2, <2>3, <2>4, <2>5, PartsInOrder
    <3>3. a >= 1 /\ c >= b
      BY <3>1
    <3> QED
      BY <3>1, <3>2, <3>3
  <2>7. Start(items, i + 1) = S + e
    BY <1>0, <1>2, <2>1, <2>2, <2>4, FoundHere
  <2>8. FlagSet(item) # FlagsUnset
    BY <2>3, FlagIsSet
  <2>9. /\ item.width.n \in Nat /\ item.precision.n \in Nat
        /\ \A j \in 0 .. 2 : Read(item.width, j) \in Nat /\ Read(item.precision, j) \in Nat
    <3>1. IsNumber(item.width, 1) /\ IsNumber(item.precision, 0)
      BY <2>3 DEF IsDirective
    <3> QED
      BY <3>1, NumberRead
  <2>10. Locals /\ ptr \in Nat /\ S < ptr /\ ptr <= S + d + 1
    <3>1. CASE InFlags(i)
      <4>1. state = "state_flags" /\ flags = "flags_none" /\ ptr = S + 2
        BY <1>2, <3>1 DEF InFlags
      <4>2. Locals
        BY <4>1 DEF Locals, FlagsUnset
      <4> QED
        BY <2>6, <4>1, <4>2
    <3>2. CASE InWidth(i, item)
      <4>1. PICK j \in 0 .. g : ptr = S + a + j + 1 /\ width = Read(item.width, j)
        BY <1>2, <2>4, <2>5, <3>2 DEF InWidth
      <4>2. width \in Nat
        BY <2>9, <4>1
      <4>3. state = "state_width" /\ flags = FlagSet(item)
        BY <3>2 DEF InWidth
      <4>4. Locals
        BY <2>8, <4>2, <4>3 DEF Locals
      <4> QED
        BY <2>6, <4>1, <4>4
    <3>3. CASE InPrecision(i, item)
      <4>1. PICK j \in 0 .. h : ptr = S + c + j + 1 /\ precision = Read(item.precision, j)
        BY <1>2, <2>4, <2>5, <3>3 DEF InPrecision
      <4>2. width \in Nat /\ precision \in Nat
        BY <2>9, <3>3, <4>1 DEF InPrecision
      <4>3. state = "state_precision" /\ flags = FlagSet(item)
        BY <3>3 DEF InPrecision
      <4>4. Locals
        BY <2>8, <4>2, <4>3 DEF Locals
      <4> QED
        BY <2>6, <4>1, <4>4
    <3>4. CASE InSpecifier(i, item)
      <4>1. state = "state_specifier" /\ flags = FlagSet(item) /\ ptr = S + d + 1
        BY <1>2, <2>4, <3>4 DEF InSpecifier
      <4>2. width \in Nat /\ precision \in Nat
        BY <2>9, <3>4 DEF InSpecifier
      <4>3. Locals
        BY <2>8, <4>1, <4>2 DEF Locals
      <4> QED
        BY <2>6, <4>1, <4>3
    <3> QED
      BY <1>4, <2>1, <3>1, <3>2, <3>3, <3>4 DEF InItem
  <2>11. ptr <= Start(items, i + 1) \/ (item.spec = "none" /\ ptr <= Start(items, i + 1) + 1)
    BY <2>6, <2>7, <2>10
  <2> QED
    BY <1>0, <1>2, <2>1, <2>2, <2>10, <2>11 DEF Place
<1> QED
  BY <1>3, <1>4 DEF At

(* The type invariant.                                                      *)
LEMMA FormatTyped ==
  ASSUME NEW i, FormatInv(i)
  PROVE  FormatTypeOK
<1>1. TheCall /\ At(i) /\ Counted(i) /\ Kept
  BY DEF FormatInv
<1>2. Place(i) /\ Locals
  BY <1>1, WhereItIs
<1>3. ptr \in 1 .. Len(format) + 1
  <2>1. format = WholeText(items) /\ Laid(items)
    BY <1>1, <1>2, Layout DEF TheCall, Place
  <2>2. PICK N \in Nat : N = Len(format) /\ N = Start(items, Len(items))
    <3>1. Len(items) \in 0 .. Len(items)
      BY <1>2 DEF Place
    <3> QED
      BY <2>1, <3>1 DEF Laid
  <2>3. CASE i = Len(items)
    BY <1>2, <2>2, <2>3 DEF Place
  <2>4. CASE i < Len(items)
    <3>1. Start(items, i + 1) \in Nat /\ Start(items, i + 1) <= N
      <4>1. i \in 0 .. Len(items)
        BY <1>2 DEF Place
      <4>2. /\ Start(items, i) \in Nat /\ Start(items, i + 1) = Start(items, i) + ItemLength(items[i + 1])
            /\ ItemLength(items[i + 1]) \in Nat /\ Start(items, i + 1) <= Len(WholeText(items))
        BY <1>2, <2>4, <4>1, FoundHere DEF Place
      <4> QED
        BY <2>1, <2>2, <4>2
    <3>2. ptr \in Nat /\ 0 < ptr /\ ptr <= Start(items, i + 1) + 1
      BY <1>2, <2>4, <3>1 DEF Place
    <3> QED
      BY <2>2, <3>1, <3>2
  <2> QED
    BY <1>2, <2>3, <2>4 DEF Place
<1>4. count \in Nat
  <2>1. Cardinality(Lefts(items, i)) \in Nat
    BY <1>2, OneMore DEF Place
  <2>2. Len(out) \in Nat
    BY <1>1, Appended DEF Counted
  <2> QED
    BY <1>1, <2>1, <2>2 DEF Counted
<1> QED
  BY <1>1, <1>2, <1>3, <1>4 DEF FormatTypeOK, Locals, Kept

(* The items left behind are the first i, and at the end of a format that    *)
(* breaks off the one that it breaks off in, which is no number.              *)
Behind(i) == IF i < Len(items) /\ ~(ptr <= Start(items, i + 1)) THEN i + 1 ELSE i

(* So Done is i, or one more.                                               *)
LEMMA DoneIs ==
  ASSUME NEW i, TheCall, At(i)
  PROVE  Done \in Nat /\ Done = Behind(i) /\ Lefts(items, Done) = Lefts(items, i)
<1>1. Place(i)
  BY WhereItIs
<1>2. DOMAIN items = 1 .. Len(items) /\ Laid(items)
  BY <1>1, Listed, Layout DEF Place
<1>3. PICK n \in Nat : n = Len(items) /\ i \in 0 .. n
  BY <1>1 DEF Place
<1>4. PICK j \in 0 .. n :
        /\ \A k \in 1 .. n : Start(items, k) < ptr <=> k <= j
        /\ j = Behind(i) /\ Lefts(items, j) = Lefts(items, i)
  <2>1. ASSUME NEW k \in 1 .. n, k <= i PROVE Start(items, k) < ptr
    <3>1. k \in 0 .. Len(items) /\ i \in k .. Len(items) /\ i - k \in Nat
      BY <1>3, <2>1
    <3>2. Start(items, k) + (i - k) <= Start(items, i) /\ Start(items, k) \in Nat
      BY <1>1, <1>2, <3>1, StartsGrow DEF Place, Laid
    <3>3. PICK d \in Nat : d = i - k
      BY <3>1
    <3> QED
      BY <1>1, <3>2, <3>3 DEF Place
  <2>2. ASSUME NEW m \in 0 .. n, ptr <= Start(items, m), NEW k \in 1 .. n, m <= k
        PROVE  ~(Start(items, k) < ptr)
    <3>1. m \in 0 .. Len(items) /\ k \in m .. Len(items) /\ k - m \in Nat /\ k \in 0 .. Len(items)
      BY <1>3, <2>2
    <3>2. Start(items, m) + (k - m) <= Start(items, k) /\ Start(items, k) \in Nat /\ Start(items, m) \in Nat
      BY <1>1, <1>2, <3>1, StartsGrow DEF Place, Laid
    <3>3. PICK d \in Nat : d = k - m
      BY <3>1
    <3> QED
      BY <1>1, <2>2, <3>2, <3>3 DEF Place
  <2>3. CASE i = n
    <3>1. \A k \in 1 .. n : Start(items, k) < ptr <=> k <= i
      BY <1>3, <2>1, <2>3
    <3>2. i = Behind(i)
      BY <1>3, <2>3 DEF Behind
    <3> QED
      BY <1>3, <3>1, <3>2
  <2>4. CASE i < n /\ ptr <= Start(items, i + 1)
    <3>1. i + 1 \in 0 .. n
      BY <1>3, <2>4
    <3>2. \A k \in 1 .. n : Start(items, k) < ptr => ~(i + 1 <= k)
      BY <2>2, <2>4, <3>1
    <3>3. \A k \in 1 .. n : Start(items, k) < ptr <=> k <= i
      BY <1>3, <2>1, <3>2
    <3>4. i = Behind(i)
      BY <2>4 DEF Behind
    <3> QED
      BY <1>3, <3>3, <3>4
  <2>5. CASE i < n /\ ~(ptr <= Start(items, i + 1))
    <3>1. items[i + 1].spec = "none"
      BY <1>1, <1>3, <2>5 DEF Place
    <3>2. i + 1 = n
      <4>1. i + 1 \in 1 .. Len(items)
        BY <1>3, <2>5
      <4> QED
        BY <1>1, <1>3, <3>1, <4>1, Listed DEF Place
    <3>3. Start(items, n) < ptr
      <4>1. n \in 0 .. Len(items)
        BY <1>3
      <4>2. Start(items, n) \in Nat
        BY <1>2, <4>1 DEF Laid
      <4> QED
        BY <1>1, <2>5, <3>2, <4>2 DEF Place
    <3>4. \A k \in 1 .. n : Start(items, k) < ptr <=> k <= n
      <4>1. \A k \in 1 .. n : k <= i \/ k = n
        BY <1>3, <3>2
      <4> QED
        BY <2>1, <3>3, <4>1
    <3>5. ~LeftNumber(items[n])
      BY <3>1, <3>2 DEF LeftNumber, NumberCalls
    <3>6. Lefts(items, n) = Lefts(items, i)
      BY <1>3, <3>2, <3>5 DEF Lefts
    <3>7. n = Behind(i)
      BY <1>3, <2>5, <3>2 DEF Behind
    <3> QED
      BY <1>3, <3>4, <3>6, <3>7
  <2> QED
    BY <1>3, <2>3, <2>4, <2>5
<1>5. {k \in DOMAIN items : Len(TextUpTo(items)[k]) < ptr} = 1 .. j
  <2>1. \A k : Len(TextUpTo(items)[k]) = Start(items, k)
    BY DEF Start
  <2> QED
    BY <1>2, <1>3, <1>4, <2>1
<1>6. Done = Cardinality(1 .. j)
  BY <1>5 DEF Done
<1>7. Cardinality(1 .. j) = j
  BY <1>4, FS_Interval
<1> QED
  BY <1>4, <1>6, <1>7

(* What the run checks of the count follows,                                *)
LEMMA CountedIsTrue ==
  ASSUME NEW i, FormatInv(i)
  PROVE  CountTrue
<1>1. TheCall /\ At(i) /\ Counted(i)
  BY DEF FormatInv
<1>2. Lefts(items, Done) = Lefts(items, i) /\ Done \in Nat
  BY <1>1, DoneIs
<1>3. Cardinality(Lefts(items, i)) \in Nat /\ Len(out) \in Nat
  <2>1. i \in Nat
    BY <1>1 DEF At
  <2> QED
    BY <1>1, <2>1, OneMore, Appended DEF Counted
<1>4. count >= Len(out)
  BY <1>1, <1>3 DEF Counted
<1>5. ASSUME \A k \in 1 .. Done : items[k].spec \in DOMAIN NumberCalls => items[k].flag # "-"
      PROVE  count = Len(out)
  <2>1. Lefts(items, i) = {}
    BY <1>2, <1>5 DEF Lefts, LeftNumber
  <2>2. Cardinality(Lefts(items, i)) = 0
    BY <2>1, FS_EmptySet
  <2> QED
    BY <1>1, <1>3, <2>2 DEF Counted
<1> QED
  BY <1>4, <1>5 DEF CountTrue

(* and what it checks of the buffer.                                        *)
LEMMA OverrunsWide ==
  ASSUME NEW i, FormatInv(i)
  PROVE  OnlyWidthOverruns
<1>1. FormatTypeOK
  BY FormatTyped
<1>2. Kept
  BY DEF FormatInv
<1> QED
  BY <1>1, <1>2 DEF OnlyWidthOverruns, Kept, Overrun

(* The call begins before the first item.                                   *)
LEMMA FormatStarts ==
  ASSUME FormatInit
  PROVE  FormatInv(0)
<1>1. TheCall
  BY DEF FormatInit, TheCall, WholeText, WholeArgs
<1>2. Len(items) \in Nat /\ Laid(items)
  BY <1>1, Listed, Layout DEF TheCall
<1>3. BetweenItems(0)
  BY <1>2 DEF FormatInit, BetweenItems, Laid
<1>4. At(0)
  BY <1>2, <1>3 DEF At
<1>5. Counted(0)
  BY Short, NoLefts DEF FormatInit, Counted
<1>6. Kept
  BY DEF FormatInit, Kept
<1> QED
  BY <1>1, <1>4, <1>5, <1>6 DEF FormatInv

(* The invariant, for the item the parser is at.                            *)
FormatHolds == \E i : FormatInv(i)

(* Every case of the loop keeps the invariant, for the same item or the next.*)
LEMMA FormatSteps ==
  ASSUME NEW i, FormatInv(i), FormatNext
  PROVE  FormatHolds'
<1>1. CASE StatePrint
  BY <1>1, PrintKeeps DEF FormatHolds
<1>2. CASE StateFlags
  BY <1>2, FlagsKeep DEF FormatHolds
<1>3. CASE StateWidth
  BY <1>3, WidthKeeps DEF FormatHolds
<1>4. CASE StatePrecision
  BY <1>4, PrecisionKeeps DEF FormatHolds
<1>5. CASE SpecNumber
  BY <1>5, NumberKeeps DEF FormatHolds
<1>6. CASE SpecFloat
  BY <1>6, FloatKeeps DEF FormatHolds
<1>7. CASE SpecChar
  BY <1>7, CharKeeps DEF FormatHolds
<1>8. CASE SpecString
  BY <1>8, StringKeeps DEF FormatHolds
<1>9. CASE SpecStore
  BY <1>9, StoreKeeps DEF FormatHolds
<1>10. CASE SpecPercent
  BY <1>10, PercentKeeps DEF FormatHolds
<1>11. CASE SpecUnknown
  BY <1>11, UnknownKeeps DEF FormatHolds
<1> QED
  BY <1>1, <1>2, <1>3, <1>4, <1>5, <1>6, <1>7, <1>8, <1>9, <1>10, <1>11 DEF FormatNext

(* A stutter keeps it.                                                      *)
LEMMA FormatRests ==
  ASSUME NEW i, FormatInv(i), UNCHANGED formatVars
  PROVE  FormatInv(i)'
BY DEF FormatInv, TheCall, At, BetweenItems, InItem, InFlags, InWidth, InPrecision, InSpecifier, Counted, Kept,
       formatVars, call

(* So it is inductive,                                                      *)
LEMMA FormatInductive ==
  ASSUME FormatHolds, [FormatNext]_formatVars
  PROVE  FormatHolds'
<1>1. PICK i : FormatInv(i)
  BY DEF FormatHolds
<1>2. CASE FormatNext
  BY <1>1, <1>2, FormatSteps
<1>3. CASE UNCHANGED formatVars
  <2>1. FormatInv(i)'
    BY <1>1, <1>3, FormatRests
  <2> QED
    BY <2>1 DEF FormatHolds
<1> QED
  BY <1>2, <1>3

(* and holds in every reachable state.                                      *)
LEMMA FormatAlways == FormatSpec => []FormatHolds
<1>1. FormatInit => FormatHolds
  BY FormatStarts DEF FormatHolds
<1>2. FormatHolds /\ [FormatNext]_formatVars => FormatHolds'
  BY FormatInductive
<1> QED
  BY <1>1, <1>2, PTL DEF FormatSpec

(* For every format, word size and buffer: the value that vfkprintf returns,*)
(* and %n stores, never misses a character given to the stream, and is the   *)
(* number of them as long as no number has been left-justified               *)
(* (format.cpp:28-124, 148-416).                                             *)
THEOREM CountIsTrue == FormatSpec => []CountTrue
<1>1. FormatHolds => CountTrue
  BY CountedIsTrue DEF FormatHolds
<1> QED
  BY <1>1, FormatAlways, PTL

(* And print_int writes behind its buffer only for a right-justified number *)
(* with a width beyond it: digits, sign and prefix always fit               *)
(* (format.cpp:86), and every local has a value before it is read.          *)
THEOREM OverrunsAreWide == FormatSpec => []OnlyWidthOverruns
<1>1. FormatHolds => OnlyWidthOverruns
  BY OverrunsWide DEF FormatHolds
<1> QED
  BY <1>1, FormatAlways, PTL
-----------------------------------------------------------------------------
(* The numerals of Printf.  Its powers are those of the base, and those of   *)
(* two are print_int's.                                                      *)
LEMMA PrintfPowers ==
  /\ \A b \in {2, 8, 10, 16} : ArePowers(P!Power(b), b)
  /\ P!Power(2) = Powers
<1>1. ASSUME NEW b \in {2, 8, 10, 16} PROVE ArePowers(P!Power(b), b)
  <2>1. P!Power(b) = CHOOSE f : IsPower(f, WordBits, b)
    BY DEF P!Power, IsPower
  <2> QED
    BY <2>1, PowersOf
<1>2. P!Power(2) = Powers
  BY DEF P!Power, Powers
<1> QED
  BY <1>1, <1>2

(* No power of a larger base is smaller.                                     *)
LEMMA TwoIsLeast ==
  ASSUME NEW b \in {8, 10, 16}, NEW f, ArePowers(f, b), NEW n \in 0 .. WordBits
  PROVE  Powers[n] <= f[n]
<1>w. WordBits \in Nat \ {0}
  BY SizesAssumption
<1> DEFINE S == {k \in Nat : k <= WordBits => Powers[k] <= f[k]}
<1>1. 0 \in S
  BY PowersAre DEF ArePowers
<1>2. ASSUME NEW k \in Nat, k \in S PROVE k + 1 \in S
  <2> SUFFICES ASSUME k + 1 <= WordBits PROVE Powers[k + 1] <= f[k + 1]
    OBVIOUS
  <2>1. k + 1 \in 1 .. WordBits /\ (k + 1) - 1 = k /\ k \in 0 .. WordBits
    BY <1>w
  <2>2. PICK p \in Nat, q \in Nat : p = Powers[k] /\ q = f[k]
    BY <2>1, PowersAre DEF ArePowers
  <2>3. p <= q
    BY <1>2, <2>1, <2>2
  <2>4. Powers[k + 1] = 2 * p /\ f[k + 1] = b * q
    BY <2>1, <2>2, PowersAre DEF ArePowers
  <2>5. CASE b = 8
    BY <2>3, <2>4, <2>5
  <2>6. CASE b = 10
    BY <2>3, <2>4, <2>6
  <2>7. CASE b = 16
    BY <2>3, <2>4, <2>7
  <2> QED
    BY <2>5, <2>6, <2>7
<1> HIDE DEF S
<1>3. n \in S
  BY <1>w, <1>1, <1>2, Induction
<1> QED
  BY <1>w, <1>3 DEF S

(* How many digits a number has: there is such a number, of those up to      *)
(* WordBits.                                                                 *)
HasSize(f, v, n) == v < f[n] /\ (n = 1 \/ v >= f[n - 1])

(* There is one for every value of a u64.                                   *)
LEMMA SizeExists ==
  ASSUME NEW b \in {8, 10, 16}, NEW f, ArePowers(f, b), NEW v \in 0 .. Modulus - 1
  PROVE  \E n \in 1 .. WordBits : HasSize(f, v, n)
<1>w. WordBits \in Nat \ {0}
  BY SizesAssumption
<1> DEFINE S == {n \in 1 .. WordBits : v < f[n]}
<1>1. WordBits \in S
  <2>1. WordBits \in 1 .. WordBits /\ WordBits \in 0 .. WordBits
    BY <1>w
  <2>2. PICK p \in Nat, q \in Nat : p = Powers[WordBits] /\ q = f[WordBits]
    BY <2>1, PowersAre DEF ArePowers
  <2>3. p <= q
    BY <2>1, <2>2, TwoIsLeast
  <2>4. v < p /\ v \in Nat
    BY <2>2 DEF Modulus
  <2> QED
    BY <2>1, <2>2, <2>3, <2>4
<1>2. PICK n \in S : \A k \in S : n <= k
  <2>1. S \subseteq Nat /\ S # {}
    BY <1>1, <1>w
  <2> HIDE DEF S
  <2> QED
    BY <2>1, LeastElement
<1>3. n # 1 => v >= f[n - 1]
  <2> SUFFICES ASSUME n # 1 PROVE v >= f[n - 1]
    OBVIOUS
  <2>1. n - 1 \in 1 .. WordBits /\ n - 1 < n /\ n - 1 \in 0 .. WordBits
    BY <1>w
  <2>2. n - 1 \notin S
    BY <1>2, <2>1
  <2>3. f[n - 1] \in Nat /\ v \in Nat
    BY <2>1, PowersAre DEF ArePowers
  <2> QED
    BY <2>1, <2>2, <2>3
<1> QED
  BY <1>2, <1>3 DEF HasSize

(* The do loop of print_int finds the digits, as many as a number has: each  *)
(* round divides by the base, and leaves one digit less.                     *)
DigitAt(f, v, k, base, uppercase) == DigitChar((v \div f[k - 1]) % base, uppercase)

(* The k-th is what the value leaves behind k - 1 divisions.                *)
LEMMA DigitsAre ==
  ASSUME NEW value \in 0 .. Modulus - 1, NEW base \in {8, 10, 16}, NEW uppercase,
         NEW f, ArePowers(f, base), NEW size \in 1 .. WordBits, HasSize(f, value, size)
  PROVE  /\ IsSeq(DigitsLowFirst(value, base, uppercase))
         /\ Len(DigitsLowFirst(value, base, uppercase)) = size
         /\ \A k \in 1 .. size : DigitsLowFirst(value, base, uppercase)[k] = DigitAt(f, value, k, base, uppercase)
<1>w. WordBits \in Nat \ {0} /\ Modulus \in Nat \ {0, 1} /\ Modulus - 1 \in Nat
  BY SizesAssumption, PowersAre
<1> DEFINE m == Modulus - 1
<1>1. PICK g : g = CHOOSE h : IsDigits(h, m, base, uppercase)
  OBVIOUS
<1>2. DigitsLowFirst(value, base, uppercase) = g[value]
  BY <1>1 DEF DigitsLowFirst, IsDigits, Join, Digit, Rest
<1> HIDE DEF m
<1>m. m = Modulus - 1 /\ m \in Nat
  BY <1>w DEF m
<1>3. IsDigits(g, m, base, uppercase)
  BY <1>1, <1>m, DigitsExist
<1>4. \A v \in 0 .. m : g[v] = Join(Digit(v, base, uppercase), Rest(g, v, base))
  BY <1>3 DEF IsDigits
<1>5. f[0] = 1 /\ \A n \in 0 .. WordBits : f[n] \in Nat \ {0}
  BY DEF ArePowers
<1> DEFINE Good(n) == \A v \in 0 .. m : HasSize(f, v, n) =>
              /\ IsSeq(g[v]) /\ Len(g[v]) = n
              /\ \A k \in 1 .. n : g[v][k] = DigitAt(f, v, k, base, uppercase)
           S == {n \in Nat : n + 1 <= WordBits => Good(n + 1)}
<1>6. ASSUME NEW v \in 0 .. m
      PROVE  DigitAt(f, v, 1, base, uppercase) = DigitChar(v % base, uppercase)
  <2>1. 1 - 1 = 0 /\ v \div 1 = v
    OBVIOUS
  <2> QED
    BY <1>5, <2>1 DEF DigitAt
<1>7. 0 \in S
  <2> SUFFICES ASSUME NEW v \in 0 .. m, HasSize(f, v, 1)
               PROVE  /\ IsSeq(g[v]) /\ Len(g[v]) = 1
                      /\ \A k \in 1 .. 1 : g[v][k] = DigitAt(f, v, k, base, uppercase)
    OBVIOUS
  <2>1. f[1] = base
    <3>1. 1 \in 1 .. WordBits /\ 1 - 1 = 0
      BY <1>w
    <3>2. f[1] = base * 1
      BY <1>5, <3>1 DEF ArePowers
    <3> QED
      BY <3>2
  <2>2. v \div base = 0
    <3>1. v < base /\ v \in Nat
      BY <2>1 DEF HasSize
    <3> QED
      BY <3>1
  <2>3. PICK a, b : a = Digit(v, base, uppercase) /\ b = <<>>
    OBVIOUS
  <2>4. g[v] = Join(a, b)
    BY <1>4, <2>2, <2>3 DEF Rest
  <2>5. IsSeq(a) /\ Len(a) = 1 /\ IsSeq(b) /\ Len(b) = 0 /\ a[1] = DigitChar(v % base, uppercase)
    BY <2>3, Short DEF Digit
  <2>6. IsSeq(g[v]) /\ Len(g[v]) = 1 /\ g[v][1] = a[1]
    BY <2>4, <2>5, Joined
  <2> QED
    BY <1>6, <2>5, <2>6
<1>8. ASSUME NEW n \in Nat, n \in S PROVE n + 1 \in S
  <2> SUFFICES ASSUME (n + 1) + 1 <= WordBits, NEW v \in 0 .. m, HasSize(f, v, (n + 1) + 1)
               PROVE  /\ IsSeq(g[v]) /\ Len(g[v]) = (n + 1) + 1
                      /\ \A k \in 1 .. (n + 1) + 1 : g[v][k] = DigitAt(f, v, k, base, uppercase)
    OBVIOUS
  <2>1. Good(n + 1)
    BY <1>8, <1>w
  <2> HIDE DEF Good
  <2>2. /\ n + 1 \in 1 .. WordBits /\ n + 2 \in 1 .. WordBits /\ (n + 1) - 1 = n /\ (n + 2) - 1 = n + 1
        /\ n \in 0 .. WordBits /\ n + 1 \in 0 .. WordBits
    BY <1>w
  <2>3. PICK p \in Nat \ {0}, q \in Nat \ {0} : p = f[n] /\ q = f[n + 1]
    BY <1>5, <2>2
  <2>4. q = base * p /\ f[n + 2] = base * q
    BY <2>2, <2>3 DEF ArePowers
  <2>5. v < base * q /\ base * p <= v /\ v \in Nat
    <3>1. HasSize(f, v, n + 2)
      OBVIOUS
    <3>2. v < f[n + 2] /\ v >= f[n + 1]
      BY <2>2, <3>1 DEF HasSize
    <3> QED
      BY <2>3, <2>4, <3>2
  <2>6. PICK u \in Nat : u = v \div base /\ u < q /\ p <= u /\ u <= v
    <3>1. v \div base \in Nat /\ v \div base <= v
      BY <2>5, Smaller
    <3>2. v \div base < q
      BY <2>5, QuotientBelow
    <3>3. p <= v \div base
      BY <2>5, QuotientAbove
    <3> QED
      BY <3>1, <3>2, <3>3
  <2>7. u \in 0 .. m /\ u # 0 /\ HasSize(f, u, n + 1)
    BY <1>m, <2>2, <2>3, <2>6 DEF HasSize
  <2>8. /\ IsSeq(g[u]) /\ Len(g[u]) = n + 1
        /\ \A k \in 1 .. n + 1 : g[u][k] = DigitAt(f, u, k, base, uppercase)
    BY <2>1, <2>7 DEF Good
  <2>9. PICK a, b : a = Digit(v, base, uppercase) /\ b = g[u]
    OBVIOUS
  <2>10. g[v] = Join(a, b)
    BY <1>4, <2>6, <2>7, <2>9 DEF Rest
  <2>11. IsSeq(a) /\ Len(a) = 1 /\ IsSeq(b) /\ Len(b) = n + 1 /\ a[1] = DigitChar(v % base, uppercase)
    BY <2>8, <2>9, Short DEF Digit
  <2>12. /\ IsSeq(g[v]) /\ Len(g[v]) = n + 2 /\ g[v][1] = a[1]
         /\ \A k \in 1 .. n + 1 : g[v][1 + k] = b[k]
    <3>1. /\ IsSeq(Join(a, b)) /\ Len(Join(a, b)) = Len(a) + Len(b)
          /\ \A i \in 1 .. Len(a) : Join(a, b)[i] = a[i]
          /\ \A i \in 1 .. Len(b) : Join(a, b)[Len(a) + i] = b[i]
      <4>1. IsSeq(a) /\ IsSeq(b)
        BY <2>11
      <4> QED
        BY <4>1, Joined
    <3>2. 1 \in 1 .. Len(a) /\ Len(a) + Len(b) = n + 2
      BY <2>11
    <3> QED
      BY <2>10, <2>11, <3>1, <3>2
  <2>13. ASSUME NEW k \in 1 .. n + 1
         PROVE  DigitAt(f, u, k, base, uppercase) = DigitAt(f, v, k + 1, base, uppercase)
    <3>1. k \in 1 .. WordBits /\ k - 1 \in 0 .. WordBits /\ (k + 1) - 1 = k
      BY <1>w, <2>2
    <3>2. PICK r \in Nat \ {0} : r = f[k - 1]
      BY <1>5, <3>1
    <3>3. f[k] = base * r
      BY <3>1, <3>2 DEF ArePowers
    <3>4. (v \div base) \div r = v \div (r * base)
      BY <2>5, <3>2, QuotientTwice
    <3>5. r * base = base * r
      OBVIOUS
    <3>6. u \div f[k - 1] = v \div f[k]
      BY <2>6, <3>2, <3>3, <3>4, <3>5
    <3> QED
      BY <3>1, <3>6 DEF DigitAt
  <2>14. ASSUME NEW k \in 1 .. n + 2 PROVE g[v][k] = DigitAt(f, v, k, base, uppercase)
    <3>1. CASE k = 1
      BY <1>6, <2>11, <2>12, <3>1
    <3>2. CASE k # 1
      <4>1. PICK j \in 1 .. n + 1 : k = 1 + j /\ k = j + 1
        <5>1. k - 1 \in 1 .. n + 1 /\ k = 1 + (k - 1) /\ k = (k - 1) + 1
          BY <3>2
        <5> QED
          BY <5>1
      <4>2. g[v][k] = g[u][j]
        BY <2>9, <2>12, <4>1
      <4>3. g[u][j] = DigitAt(f, u, j, base, uppercase)
        BY <2>8
      <4> QED
        BY <2>13, <4>1, <4>2, <4>3
    <3> QED
      BY <3>1, <3>2
  <2>15. (n + 1) + 1 = n + 2
    OBVIOUS
  <2> QED
    BY <2>12, <2>14, <2>15
<1> HIDE DEF S
<1>9. Nat \subseteq S
  BY <1>7, <1>8, Induction
<1>10. PICK j \in Nat : j + 1 = size /\ j + 1 <= WordBits
  <2>1. size - 1 \in Nat /\ (size - 1) + 1 = size /\ size <= WordBits
    BY <1>w
  <2> QED
    BY <2>1
<1>11. Good(size)
  BY <1>9, <1>10 DEF S
<1>12. value \in 0 .. m
  BY <1>m
<1> QED
  BY <1>2, <1>11, <1>12

(* So the digits are those of Printf's numeral, the other way round.         *)
NumeralBackwards(digits, number, base, uppercase) ==
  \E size \in 1 .. WordBits :
    /\ IsSeq(digits) /\ Len(digits) = size /\ DOMAIN number = 1 .. size
    /\ \A k \in 1 .. size : number[k] \in 0 .. base - 1
    /\ \A k \in 1 .. size : digits[size - k + 1] = DigitChar(number[k], uppercase)

(* Every digit of the one is a digit of the other, from the other end.      *)
LEMMA NumeralIs ==
  ASSUME NEW value \in 0 .. Modulus - 1, NEW base \in {8, 10, 16}, NEW uppercase
  PROVE  NumeralBackwards(DigitsLowFirst(value, base, uppercase), P!Numeral(value, base), base, uppercase)
<1>1. PICK f : f = P!Power(base)
  OBVIOUS
<1>2. ArePowers(f, base)
  BY <1>1, PrintfPowers
<1> DEFINE Sized(n) == value < f[n] /\ (n = 1 \/ value >= f[n - 1])
<1>3. PICK size : size = CHOOSE n \in 1 .. WordBits : Sized(n)
  OBVIOUS
<1>4. size \in 1 .. WordBits /\ HasSize(f, value, size)
  <2>1. \E n \in 1 .. WordBits : Sized(n)
    BY <1>2, SizeExists DEF HasSize
  <2>2. size \in 1 .. WordBits /\ Sized(size)
    BY <1>3, <2>1
  <2> QED
    BY <2>2 DEF HasSize
<1>5. P!Numeral(value, base) = [i \in 1 .. size |-> (value \div f[size - i]) % base]
  BY <1>1, <1>3 DEF P!Numeral
<1>6. /\ IsSeq(DigitsLowFirst(value, base, uppercase))
      /\ Len(DigitsLowFirst(value, base, uppercase)) = size
      /\ \A k \in 1 .. size : DigitsLowFirst(value, base, uppercase)[k] = DigitAt(f, value, k, base, uppercase)
  BY <1>2, <1>4, DigitsAre
<1>7. ASSUME NEW k \in 1 .. size
      PROVE  /\ P!Numeral(value, base)[k] \in 0 .. base - 1
             /\ DigitsLowFirst(value, base, uppercase)[size - k + 1] =
                  DigitChar(P!Numeral(value, base)[k], uppercase)
  <2>1. PICK j \in 1 .. size : j = size - k + 1 /\ j - 1 = size - k /\ j - 1 \in 0 .. WordBits
    <3>1. size \in Nat /\ size <= WordBits /\ WordBits \in Nat
      BY <1>4, SizesAssumption
    <3>2. size - k + 1 \in 1 .. size /\ (size - k + 1) - 1 = size - k /\ size - k \in 0 .. WordBits
      BY <3>1
    <3> QED
      BY <3>2
  <2>2. P!Numeral(value, base)[k] = (value \div f[size - k]) % base
    BY <1>5
  <2>3. f[size - k] \in Nat \ {0}
    BY <1>2, <2>1 DEF ArePowers
  <2>4. PICK q \in Nat : q = value \div f[size - k]
    <3>1. value \in Nat
      BY PowersAre
    <3> QED
      BY <2>3, <3>1, Quotient
  <2>5. q % base \in 0 .. base - 1
    OBVIOUS
  <2> QED
    BY <1>6, <2>1, <2>2, <2>4, <2>5 DEF DigitAt
<1> QED
  BY <1>4, <1>5, <1>6, <1>7 DEF NumeralBackwards
-----------------------------------------------------------------------------
(* Sequences backwards.                                                      *)
LEMMA SameSequence ==
  ASSUME NEW s, NEW t, IsSeq(s), IsSeq(t), Len(s) = Len(t), \A i \in 1 .. Len(s) : s[i] = t[i]
  PROVE  s = t
<1>1. PICK S : s \in Seq(S)
  BY DEF IsSeq
<1>2. PICK T : t \in Seq(T)
  BY DEF IsSeq
<1>3. DOMAIN s = 1 .. Len(s) /\ DOMAIN t = 1 .. Len(t)
  BY <1>1, <1>2
<1>4. s = [i \in 1 .. Len(s) |-> s[i]] /\ t = [i \in 1 .. Len(t) |-> t[i]]
  BY <1>1, <1>2, <1>3
<1> QED
  BY <1>4

(* Backwards, a sequence is as long, and each element is as far from the    *)
(* other end.                                                               *)
LEMMA Mirrored ==
  ASSUME NEW s, IsSeq(s)
  PROVE  /\ IsSeq(Reverse(s)) /\ Len(Reverse(s)) = Len(s) /\ Len(s) \in Nat
         /\ \A i \in 1 .. Len(s) : Reverse(s)[i] = s[Len(s) - i + 1]
<1>1. Len(s) \in Nat
  BY Appended
<1>2. Reverse(s) = [i \in 1 .. Len(s) |-> s[Len(s) - i + 1]]
  BY DEF Reverse
<1> QED
  BY <1>1, <1>2, Reversed

(* One character stays where it is, two change places.                      *)
LEMMA MirroredShort ==
  /\ Reverse(<<>>) = <<>>
  /\ \A e : Reverse(<<e>>) = <<e>>
  /\ \A e, g : Reverse(<<e, g>>) = <<g, e>>
<1>1. Reverse(<<>>) = <<>>
  <2>1. PICK s : s = <<>>
    OBVIOUS
  <2>2. IsSeq(s) /\ Len(s) = 0
    BY <2>1, Short
  <2>3. IsSeq(Reverse(s)) /\ Len(Reverse(s)) = 0
    BY <2>2, Mirrored
  <2>4. \A i \in 1 .. 0 : FALSE
    OBVIOUS
  <2> QED
    BY <2>1, <2>2, <2>3, <2>4, SameSequence
<1>2. ASSUME NEW e PROVE Reverse(<<e>>) = <<e>>
  <2>1. PICK s : s = <<e>>
    OBVIOUS
  <2>2. IsSeq(s) /\ Len(s) = 1 /\ s[1] = e
    BY <2>1, Short
  <2>3. IsSeq(Reverse(s)) /\ Len(Reverse(s)) = 1 /\ \A i \in 1 .. 1 : Reverse(s)[i] = s[1 - i + 1]
    BY <2>2, Mirrored
  <2>4. \A i \in 1 .. 1 : 1 - i + 1 = i
    OBVIOUS
  <2>5. Reverse(s) = s
    BY <2>2, <2>3, <2>4, SameSequence
  <2> QED
    BY <2>1, <2>5
<1>3. ASSUME NEW e, NEW g PROVE Reverse(<<e, g>>) = <<g, e>>
  <2>1. PICK s, t : s = <<e, g>> /\ t = <<g, e>>
    OBVIOUS
  <2>2. IsSeq(s) /\ Len(s) = 2 /\ s[1] = e /\ s[2] = g /\ IsSeq(t) /\ Len(t) = 2 /\ t[1] = g /\ t[2] = e
    BY <2>1, Short
  <2>3. IsSeq(Reverse(s)) /\ Len(Reverse(s)) = 2 /\ \A i \in 1 .. 2 : Reverse(s)[i] = s[2 - i + 1]
    BY <2>2, Mirrored
  <2>4. \A i \in 1 .. 2 : (i = 1 /\ 2 - i + 1 = 2) \/ (i = 2 /\ 2 - i + 1 = 1)
    OBVIOUS
  <2>5. \A i \in 1 .. 2 : Reverse(s)[i] = t[i]
    BY <2>2, <2>3, <2>4
  <2>6. Reverse(s) = t
    BY <2>2, <2>3, <2>5, SameSequence
  <2> QED
    BY <2>1, <2>6
<1> QED
  BY <1>1, <1>2, <1>3

(* What comes last comes first.                                             *)
LEMMA MirroredJoin ==
  ASSUME NEW s, NEW t, IsSeq(s), IsSeq(t)
  PROVE  Reverse(Join(s, t)) = Join(Reverse(t), Reverse(s))
<1>1. PICK m \in Nat, n \in Nat : m = Len(s) /\ n = Len(t)
  BY Joined
<1>2. PICK u : u = Join(s, t)
  OBVIOUS
<1>3. /\ IsSeq(u) /\ Len(u) = m + n /\ \A i \in 1 .. m : u[i] = s[i]
      /\ \A i \in 1 .. n : u[m + i] = t[i]
  BY <1>1, <1>2, Joined
<1>4. PICK a, b, c : a = Reverse(s) /\ b = Reverse(t) /\ c = Reverse(u)
  OBVIOUS
<1>5. /\ IsSeq(a) /\ Len(a) = m /\ \A i \in 1 .. m : a[i] = s[m - i + 1]
      /\ IsSeq(b) /\ Len(b) = n /\ \A i \in 1 .. n : b[i] = t[n - i + 1]
      /\ IsSeq(c) /\ Len(c) = m + n /\ \A i \in 1 .. m + n : c[i] = u[(m + n) - i + 1]
  <2>1. IsSeq(a) /\ Len(a) = m /\ \A i \in 1 .. m : a[i] = s[m - i + 1]
    BY <1>1, <1>4, Mirrored
  <2>2. IsSeq(b) /\ Len(b) = n /\ \A i \in 1 .. n : b[i] = t[n - i + 1]
    BY <1>1, <1>4, Mirrored
  <2>3. IsSeq(c) /\ Len(c) = m + n /\ \A i \in 1 .. m + n : c[i] = u[(m + n) - i + 1]
    <3>1. IsSeq(u) /\ Len(u) = m + n
      BY <1>3
    <3> QED
      BY <1>4, <3>1, Mirrored
  <2> QED
    BY <2>1, <2>2, <2>3
<1>6. PICK d : d = Join(b, a)
  OBVIOUS
<1>7. /\ IsSeq(d) /\ Len(d) = n + m /\ \A i \in 1 .. n : d[i] = b[i]
      /\ \A i \in 1 .. m : d[n + i] = a[i]
  <2>1. IsSeq(a) /\ Len(a) = m /\ IsSeq(b) /\ Len(b) = n
    BY <1>5
  <2>2. /\ IsSeq(d) /\ Len(d) = Len(b) + Len(a) /\ \A i \in 1 .. Len(b) : d[i] = b[i]
        /\ \A i \in 1 .. Len(a) : d[Len(b) + i] = a[i]
    <3>1. IsSeq(a) /\ IsSeq(b)
      BY <2>1
    <3> QED
      BY <1>6, <3>1, Joined
  <2> QED
    BY <2>1, <2>2
<1>8. ASSUME NEW i \in 1 .. m + n PROVE c[i] = d[i]
  <2>1. CASE i <= n
    <3>1. n - i + 1 \in 1 .. n /\ (m + n) - i + 1 = m + (n - i + 1) /\ i \in 1 .. n
      BY <2>1
    <3>2. c[i] = t[n - i + 1]
      BY <1>3, <1>5, <3>1
    <3> QED
      BY <1>5, <1>7, <3>1, <3>2
  <2>2. CASE ~(i <= n)
    <3>1. PICK j \in 1 .. m : i = n + j /\ (m + n) - i + 1 = m - j + 1
      <4>1. i - n \in 1 .. m /\ i = n + (i - n) /\ (m + n) - i + 1 = m - (i - n) + 1
        BY <2>2
      <4> QED
        BY <4>1
    <3>2. m - j + 1 \in 1 .. m
      BY <3>1
    <3>3. c[i] = s[m - j + 1]
      BY <1>3, <1>5, <3>1, <3>2
    <3> QED
      BY <1>5, <1>7, <3>1, <3>3
  <2> QED
    BY <2>1, <2>2
<1>9. m + n = n + m
  OBVIOUS
<1>10. c = d
  <2>1. IsSeq(c) /\ IsSeq(d) /\ Len(c) = m + n /\ Len(d) = m + n
    BY <1>5, <1>7, <1>9
  <2> QED
    BY <1>8, <2>1, SameSequence
<1> QED
  BY <1>2, <1>4, <1>6, <1>10

(* Padding is the same backwards.                                           *)
LEMMA MirroredPadding ==
  ASSUME NEW n \in Nat, NEW char
  PROVE  Reverse(Padding(n, char)) = Padding(n, char)
<1>1. PICK s : s = Padding(n, char)
  OBVIOUS
<1>2. IsSeq(s) /\ Len(s) = n /\ \A i \in 1 .. n : s[i] = char
  BY <1>1, Paddings DEF Padding
<1>3. IsSeq(Reverse(s)) /\ Len(Reverse(s)) = n /\ \A i \in 1 .. n : Reverse(s)[i] = s[n - i + 1]
  BY <1>2, Mirrored
<1>4. \A i \in 1 .. n : n - i + 1 \in 1 .. n
  OBVIOUS
<1>5. \A i \in 1 .. n : Reverse(s)[i] = s[i]
  BY <1>2, <1>3, <1>4
<1> QED
  BY <1>1, <1>2, <1>3, <1>5, SameSequence

(* What a specifier asks print_int for is what Printf says of it.            *)
IsFlag(flag, condition) == IF condition THEN flag = TRUE ELSE flag = FALSE

(* So it is, for each of the twelve specifiers.                             *)
LEMMA CallsAre ==
  ASSUME NEW spec
  PROVE  /\ spec \in DOMAIN NumberCalls <=> spec \in P!NumberSpecs
         /\ spec \in DOMAIN NumberCalls =>
              /\ NumberCalls[spec].base = P!Base(spec) /\ P!Base(spec) \in {8, 10, 16}
              /\ IsFlag(NumberCalls[spec].uppercase, spec = "X")
              /\ IsFlag(NumberCalls[spec].is_signed, spec \in P!SignedSpecs)
              /\ P!Base(spec) = 16 <=> spec \in P!HexSpecs
<1>1. /\ DOMAIN NumberCalls = {"d", "D", "i", "I", "u", "U", "o", "O", "x", "X", "p", "P"}
      /\ \A c \in {"d", "D", "i", "I"} : NumberCalls[c] = [base |-> 10, uppercase |-> FALSE, is_signed |-> TRUE]
      /\ \A c \in {"u", "U"} : NumberCalls[c] = [base |-> 10, uppercase |-> FALSE, is_signed |-> FALSE]
      /\ \A c \in {"o", "O"} : NumberCalls[c] = [base |-> 8,  uppercase |-> FALSE, is_signed |-> FALSE]
      /\ \A c \in {"x", "p", "P"} : NumberCalls[c] = [base |-> 16, uppercase |-> FALSE, is_signed |-> FALSE]
      /\ NumberCalls["X"] = [base |-> 16, uppercase |-> TRUE,  is_signed |-> FALSE]
  BY DEF NumberCalls
<1>2. P!NumberSpecs = {"d", "D", "i", "I", "u", "U", "o", "O", "x", "X", "p", "P"}
  BY DEF P!NumberSpecs, P!SignedSpecs, P!HexSpecs
<1>3. /\ \A c \in {"d", "D", "i", "I", "u", "U"} : P!Base(c) = 10 /\ c \notin P!HexSpecs
      /\ \A c \in {"o", "O"} : P!Base(c) = 8 /\ c \notin P!HexSpecs
      /\ \A c \in {"x", "X", "p", "P"} : P!Base(c) = 16 /\ c \in P!HexSpecs
  BY DEF P!Base, P!HexSpecs
<1>4. /\ \A c \in {"d", "D", "i", "I"} : c \in P!SignedSpecs /\ c # "X"
      /\ \A c \in {"u", "U", "o", "O", "x", "X", "p", "P"} : c \notin P!SignedSpecs
      /\ \A c \in {"u", "U", "o", "O", "x", "p", "P"} : c # "X"
  BY DEF P!SignedSpecs
<1>5. CASE spec \in {"d", "D", "i", "I"}
  BY <1>1, <1>2, <1>3, <1>4, <1>5 DEF IsFlag
<1>6. CASE spec \in {"u", "U"}
  BY <1>1, <1>2, <1>3, <1>4, <1>6 DEF IsFlag
<1>7. CASE spec \in {"o", "O"}
  BY <1>1, <1>2, <1>3, <1>4, <1>7 DEF IsFlag
<1>8. CASE spec \in {"x", "p", "P"}
  BY <1>1, <1>2, <1>3, <1>4, <1>8 DEF IsFlag
<1>9. CASE spec = "X"
  BY <1>1, <1>2, <1>3, <1>4, <1>9 DEF IsFlag
<1> QED
  BY <1>1, <1>2, <1>5, <1>6, <1>7, <1>8, <1>9

(* Both write the same character for a digit.                               *)
LEMMA DigitsAgree ==
  ASSUME NEW d \in 0 .. 15, NEW spec, NEW uppercase, IsFlag(uppercase, spec = "X")
  PROVE  DigitChar(d, uppercase) = P!Digit(d, spec)
<1>1. CASE d < 10
  <2>1. d \in 0 .. 9
    BY <1>1
  <2>2. DigitChar(d, uppercase) = DigitText[d + 1]
    BY <2>1, <1>1, Figures DEF DigitChar
  <2>3. P!Digit(d, spec) = DigitText[d + 1]
    BY <2>1 DEF P!Digit, DigitText
  <2> QED
    BY <2>2, <2>3
<1>2. CASE ~(d < 10)
  <2>1. d \in 10 .. 15
    BY <1>2
  <2>2. CASE spec = "X"
    BY <1>2, <2>1, <2>2 DEF DigitChar, P!Digit, IsFlag
  <2>3. CASE spec # "X"
    BY <1>2, <2>1, <2>3 DEF DigitChar, P!Digit, IsFlag
  <2> QED
    BY <2>2, <2>3
<1> QED
  BY <1>1, <1>2
-----------------------------------------------------------------------------
(* What the flag of a directive is taken for.                                *)
LEMMA FlagsAre ==
  ASSUME NEW item, IsDirective(item), flags = FlagSet(item)
  PROVE  /\ flags = "flags_left_justify" <=> item.flag = "-"
         /\ flags = "flags_force_sign" <=> item.flag = "+"
         /\ flags = "flags_sign_space" <=> item.flag = " "
         /\ flags = "flags_prefix" <=> item.flag = "#"
         /\ flags = "flags_pad_zero" <=> item.flag = "0"
<1>1. item.flag \in {"-", "+", " ", "#", "0", "none"}
  BY DEF IsDirective, FlagOf
<1>2. /\ FlagOf["-"] = "flags_left_justify" /\ FlagOf["+"] = "flags_force_sign"
      /\ FlagOf[" "] = "flags_sign_space" /\ FlagOf["#"] = "flags_prefix" /\ FlagOf["0"] = "flags_pad_zero"
  BY DEF FlagOf
<1>3. flags = IF item.flag = "none" THEN "flags_none" ELSE FlagOf[item.flag]
  BY DEF FlagSet
<1> QED
  BY <1>1, <1>2, <1>3

(* The sign or prefix: in the buffer backwards, as everything.               *)
LEMMA SignIs ==
  ASSUME NEW item, IsDirective(item), item.spec \in DOMAIN NumberCalls, flags = FlagSet(item),
         NEW has_sign, has_sign <=> P!Negative(item),
         NEW uppercase, IsFlag(uppercase, item.spec = "X")
  PROVE  Reverse(SignChars(has_sign, P!Base(item.spec), uppercase)) = P!Sign(item)
<1>1. PICK base : base = P!Base(item.spec)
  OBVIOUS
<1>2. /\ base \in {8, 10, 16} /\ (base = 16 <=> item.spec \in P!HexSpecs)
      /\ item.spec = "X" => base = 16
  <2>1. item.spec = "X" => item.spec \in P!HexSpecs
    BY DEF P!HexSpecs
  <2> QED
    BY <1>1, <2>1, CallsAre
<1>3. P!Negative(item) => base = 10
  <2>1. \A c \in P!SignedSpecs : P!Base(c) = 10
    BY DEF P!SignedSpecs, P!Base, P!HexSpecs
  <2> QED
    BY <1>1, <2>1 DEF P!Negative
<1>4. PICK s : s = SignChars(has_sign, base, uppercase)
  OBVIOUS
<1>5. CASE P!Negative(item)
  <2>1. s = <<"-">>
    BY <1>4, <1>5 DEF SignChars
  <2>2. P!Sign(item) = <<"-">>
    BY <1>1, <1>2, <1>3, <1>5 DEF P!Sign
  <2> QED
    BY <1>1, <1>4, <2>1, <2>2, MirroredShort
<1>6. CASE ~P!Negative(item) /\ item.flag = "+"
  <2>1. s = <<"+">>
    BY <1>4, <1>6, FlagsAre DEF SignChars
  <2>2. P!Sign(item) = <<"+">>
    BY <1>6 DEF P!Sign
  <2> QED
    BY <1>1, <1>4, <2>1, <2>2, MirroredShort
<1>7. CASE ~P!Negative(item) /\ item.flag = " "
  <2>1. s = <<" ">>
    <3>1. flags = "flags_sign_space"
      BY <1>7, FlagsAre
    <3> QED
      BY <1>4, <1>7, <3>1 DEF SignChars
  <2>2. P!Sign(item) = <<" ">>
    BY <1>7 DEF P!Sign
  <2> QED
    BY <1>1, <1>4, <2>1, <2>2, MirroredShort
<1>8. CASE ~P!Negative(item) /\ item.flag = "#" /\ base = 8
  <2>1. s = <<"0">>
    <3>1. flags = "flags_prefix"
      BY <1>8, FlagsAre
    <3> QED
      BY <1>4, <1>8, <3>1 DEF SignChars
  <2>2. P!Sign(item) = <<"0">>
    BY <1>1, <1>2, <1>8 DEF P!Sign
  <2> QED
    BY <1>1, <1>4, <2>1, <2>2, MirroredShort
<1>9. CASE ~P!Negative(item) /\ item.flag = "#" /\ base = 16 /\ item.spec = "X"
  <2>1. s = <<"X", "0">>
    <3>1. flags = "flags_prefix" /\ uppercase = TRUE
      BY <1>9, FlagsAre DEF IsFlag
    <3> QED
      BY <1>4, <1>9, <3>1 DEF SignChars
  <2>2. P!Sign(item) = <<"0", "X">>
    BY <1>1, <1>9 DEF P!Sign
  <2> QED
    BY <1>1, <1>4, <2>1, <2>2, MirroredShort
<1>10. CASE ~P!Negative(item) /\ item.flag = "#" /\ base = 16 /\ item.spec # "X"
  <2>1. s = <<"x", "0">>
    <3>1. flags = "flags_prefix" /\ uppercase = FALSE
      BY <1>10, FlagsAre DEF IsFlag
    <3> QED
      BY <1>4, <1>10, <3>1 DEF SignChars
  <2>2. P!Sign(item) = <<"0", "x">>
    <3>1. item.spec \in P!HexSpecs \ {"X"}
      BY <1>2, <1>10
    <3> QED
      BY <1>1, <1>10, <3>1 DEF P!Sign
  <2> QED
    BY <1>1, <1>4, <2>1, <2>2, MirroredShort
<1>11. CASE /\ ~P!Negative(item) /\ item.flag # "+" /\ item.flag # " "
            /\ ~(item.flag = "#" /\ base = 8) /\ ~(item.flag = "#" /\ base = 16)
  <2>1. s = <<>>
    <3>1. /\ flags # "flags_force_sign" /\ flags # "flags_sign_space"
          /\ ~(flags = "flags_prefix" /\ base = 8) /\ ~(flags = "flags_prefix" /\ base = 16)
      BY <1>11, FlagsAre
    <3> QED
      BY <1>4, <1>11, <3>1 DEF SignChars
  <2>2. P!Sign(item) = <<>>
    BY <1>1, <1>2, <1>11 DEF P!Sign
  <2> QED
    BY <1>1, <1>4, <2>1, <2>2, MirroredShort
<1> QED
  BY <1>5, <1>6, <1>7, <1>8, <1>9, <1>10, <1>11

(* The magnitude that is converted.                                          *)
LEMMA MagnitudeIs ==
  ASSUME NEW item, NEW is_signed, IsFlag(is_signed, item.spec \in P!SignedSpecs),
         item.value \in 0 .. Modulus - 1
  PROVE  /\ HasSign(item.value, is_signed) <=> P!Negative(item)
         /\ P!Magnitude(item) = IF HasSign(item.value, is_signed) THEN Negated(item.value) ELSE item.value
         /\ P!Magnitude(item) \in 0 .. Modulus - 1
<1>1. PICK half \in Nat \ {0} : half = Powers[WordBits - 1] /\ Modulus = 2 * half
  <2>1. WordBits \in 1 .. WordBits /\ WordBits - 1 \in 0 .. WordBits
    BY SizesAssumption
  <2> QED
    BY <2>1, PowersAre DEF Modulus
<1>2. P!Power(2)[WordBits - 1] = half /\ P!Power(2)[WordBits] = Modulus /\ Modulus \div 2 = half
  BY <1>1, PrintfPowers DEF Modulus
<1>3. PICK v \in Nat : v = item.value /\ v < 2 * half
  BY <1>1
<1>4. CASE item.spec \in P!SignedSpecs /\ v >= half
  <2>1. P!Negative(item) /\ P!Magnitude(item) = 2 * half - v
    BY <1>1, <1>2, <1>3, <1>4 DEF P!Negative, P!Magnitude
  <2>2. HasSign(item.value, is_signed)
    BY <1>2, <1>3, <1>4 DEF HasSign, IsFlag
  <2>3. (2 * half - v) % (2 * half) = 2 * half - v /\ 2 * half - v \in 0 .. 2 * half - 1
    <3>1. PICK w \in Nat, u \in Nat : w = 2 * half /\ u = w - v /\ u < w
      BY <1>3, <1>4
    <3>2. u % w = u
      BY <3>1
    <3> QED
      BY <3>1, <3>2
  <2> QED
    BY <1>1, <1>3, <2>1, <2>2, <2>3 DEF Negated
<1>5. CASE ~(item.spec \in P!SignedSpecs /\ v >= half)
  <2>1. ~P!Negative(item) /\ P!Magnitude(item) = v
    BY <1>2, <1>3, <1>5 DEF P!Negative, P!Magnitude
  <2>2. ~HasSign(item.value, is_signed)
    BY <1>2, <1>3, <1>5 DEF HasSign, IsFlag
  <2> QED
    BY <1>1, <1>3, <2>1, <2>2
<1> QED
  BY <1>4, <1>5

(* What print_int gives to the stream is Printf's field.                     *)
LEMMA FieldIs ==
  ASSUME NEW item, IsDirective(item), item.spec \in DOMAIN NumberCalls, flags = FlagSet(item),
         width = item.width.n, width \in Nat,
         NEW base, NEW uppercase, NEW is_signed, base = NumberCalls[item.spec].base,
         uppercase = NumberCalls[item.spec].uppercase, is_signed = NumberCalls[item.spec].is_signed
  PROVE  PrintIntOut(NumberBuffer(item.value, base, uppercase, is_signed)) = P!Field(item)
<1>1. /\ base = P!Base(item.spec) /\ base \in {8, 10, 16} /\ IsFlag(uppercase, item.spec = "X")
      /\ IsFlag(is_signed, item.spec \in P!SignedSpecs) /\ item.value \in 0 .. Modulus - 1
  BY CallsAre DEF IsDirective
<1>2. PICK has_sign : has_sign = HasSign(item.value, is_signed)
  OBVIOUS
<1>3. PICK v : v = IF has_sign THEN Negated(item.value) ELSE item.value
  OBVIOUS
<1>4. (has_sign <=> P!Negative(item)) /\ v = P!Magnitude(item) /\ v \in 0 .. Modulus - 1
  <2>1. /\ HasSign(item.value, is_signed) <=> P!Negative(item)
        /\ P!Magnitude(item) = IF HasSign(item.value, is_signed) THEN Negated(item.value) ELSE item.value
        /\ P!Magnitude(item) \in 0 .. Modulus - 1
    BY <1>1, MagnitudeIs
  <2> QED
    BY <1>2, <1>3, <2>1
<1>5. PICK a, b, buffer : /\ a = DigitsLowFirst(v, base, uppercase) /\ b = SignChars(has_sign, base, uppercase)
                          /\ buffer = Join(a, b)
  OBVIOUS
<1>6. NumberBuffer(item.value, base, uppercase, is_signed) = buffer
  BY <1>2, <1>3, <1>5 DEF NumberBuffer, Join
<1>7. PICK number : number = P!Numeral(v, base)
  OBVIOUS
<1>8. PICK size \in 1 .. WordBits :
        /\ IsSeq(a) /\ Len(a) = size /\ DOMAIN number = 1 .. size
        /\ \A k \in 1 .. size : number[k] \in 0 .. base - 1
        /\ \A k \in 1 .. size : a[size - k + 1] = DigitChar(number[k], uppercase)
  <2>1. base \in {8, 10, 16} /\ v \in 0 .. Modulus - 1
    BY <1>1, <1>4
  <2>2. NumeralBackwards(DigitsLowFirst(v, base, uppercase), P!Numeral(v, base), base, uppercase)
    BY <2>1, NumeralIs
  <2>3. NumeralBackwards(a, number, base, uppercase)
    BY <1>5, <1>7, <2>2
  <2> QED
    BY <2>3 DEF NumeralBackwards
<1>9. PICK digits, sign, body : /\ digits = [i \in DOMAIN number |-> P!Digit(number[i], item.spec)]
                                /\ sign = P!Sign(item) /\ body = Join(sign, digits)
  OBVIOUS
<1>10. size \in Nat
  BY SizesAssumption
<1>11. Reverse(a) = digits
  <2>1. IsSeq(digits) /\ Len(digits) = size /\ \A k \in 1 .. size : digits[k] = P!Digit(number[k], item.spec)
    <3>1. digits = [i \in 1 .. size |-> P!Digit(number[i], item.spec)]
      BY <1>8, <1>9
    <3>2. digits \in Seq({P!Digit(number[i], item.spec) : i \in 1 .. size})
      BY <1>10, <3>1
    <3>3. IsSeq(digits)
      BY <3>2, Zenon DEF IsSeq
    <3> QED
      BY <1>10, <3>1, <3>3
  <2>2. IsSeq(Reverse(a)) /\ Len(Reverse(a)) = size /\ \A k \in 1 .. size : Reverse(a)[k] = a[size - k + 1]
    BY <1>8, Mirrored
  <2>3. ASSUME NEW k \in 1 .. size PROVE Reverse(a)[k] = digits[k]
    <3>1. number[k] \in 0 .. 15
      <4>1. \A d \in 0 .. base - 1 : d \in 0 .. 15
        BY <1>1
      <4> QED
        BY <1>8, <4>1
    <3>2. DigitChar(number[k], uppercase) = P!Digit(number[k], item.spec)
      BY <1>1, <3>1, DigitsAgree
    <3> QED
      BY <1>8, <2>1, <2>2, <3>2
  <2> QED
    BY <2>1, <2>2, <2>3, SameSequence
<1>12. IsSeq(b) /\ Reverse(b) = sign
  BY <1>1, <1>4, <1>5, <1>9, SignIs, SignsShort
<1>13. IsSeq(a)
  BY <1>8
<1>14. Reverse(buffer) = body
  BY <1>5, <1>9, <1>11, <1>12, <1>13, MirroredJoin
<1>15. IsSeq(buffer) /\ Len(body) = Len(buffer) /\ Len(buffer) \in Nat
  <2>1. IsSeq(buffer)
    BY <1>5, <1>12, <1>13, Joined
  <2> QED
    BY <1>14, <2>1, Mirrored
<1>16. PICK m \in Nat : m = Missing(Len(buffer))
  BY <1>15 DEF Missing
<1>17. m = IF Len(body) < item.width.n THEN item.width.n - Len(body) ELSE 0
  BY <1>15, <1>16 DEF Missing
<1>18. PICK fill, padding : fill = (IF item.flag = "0" THEN "0" ELSE " ") /\ padding = Padding(m, fill)
  OBVIOUS
<1>19. P!Field(item) = IF item.flag = "-" THEN Join(body, padding) ELSE Join(padding, body)
  <2>1. P!Numeral(P!Magnitude(item), P!Base(item.spec)) = number
    BY <1>1, <1>4, <1>7
  <2>2. padding = [i \in 1 .. m |-> IF item.flag = "0" THEN "0" ELSE " "]
    BY <1>18 DEF Padding
  <2> QED
    BY <1>9, <1>17, <2>1, <2>2, Zenon DEF P!Field, Join
<1>20. CASE item.flag = "-"
  <2>1. flags = "flags_left_justify"
    BY <1>20, FlagsAre
  <2>2. fill = " "
    BY <1>18, <1>20
  <2>3. PrintIntOut(buffer) = Join(Reverse(buffer), padding)
    BY <1>16, <1>18, <2>1, <2>2 DEF PrintIntOut, Join
  <2> QED
    BY <1>6, <1>14, <1>19, <1>20, <2>3
<1>21. CASE item.flag # "-"
  <2>1. flags # "flags_left_justify" /\ (flags = "flags_pad_zero" <=> item.flag = "0")
    BY <1>21, FlagsAre
  <2>2. fill = IF flags = "flags_pad_zero" THEN "0" ELSE " "
    BY <1>18, <2>1
  <2>3. PrintIntOut(buffer) = Reverse(Join(buffer, padding))
    BY <1>16, <1>18, <2>1, <2>2 DEF PrintIntOut, Join
  <2>4. IsSeq(padding) /\ Reverse(padding) = padding
    BY <1>16, <1>18, Paddings, MirroredPadding
  <2>5. Reverse(Join(buffer, padding)) = Join(padding, body)
    BY <1>14, <1>15, <2>4, MirroredJoin
  <2> QED
    BY <1>6, <1>19, <1>21, <2>3, <2>5
<1> QED
  BY <1>20, <1>21

(* What of a string is shown.                                                *)
LEMMA TextIs ==
  ASSUME NEW item, item.value # Null, IsSequence(item.value), precision = item.precision.n, precision \in Nat
  PROVE  Shown(item.value) = P!Text(item)
<1>1. Len(item.value) \in Nat
  <2>1. PICK S : item.value \in Seq(S)
    BY DEF IsSequence
  <2> QED
    BY <2>1
<1>2. item.value # P!Null
  BY DEF P!Null, Null
<1>3. CASE precision \in 1 .. Len(item.value)
  <2>1. P!Text(item) = SubSeq(item.value, 1, precision)
    BY <1>2, <1>3 DEF P!Text
  <2>2. CASE precision = Len(item.value)
    <3>1. Shown(item.value) = item.value
      BY <2>2 DEF Shown
    <3>2. SubSeq(item.value, 1, Len(item.value)) = item.value
      <4>1. PICK S : item.value \in Seq(S)
        BY DEF IsSequence
      <4> QED
        BY <4>1
    <3> QED
      BY <2>1, <2>2, <3>1, <3>2
  <2>3. CASE precision # Len(item.value)
    <3>1. ~(precision = 0 \/ precision >= Len(item.value))
      BY <1>1, <1>3, <2>3
    <3> QED
      BY <2>1, <3>1 DEF Shown
  <2> QED
    BY <2>2, <2>3
<1>4. CASE precision \notin 1 .. Len(item.value)
  <2>1. P!Text(item) = item.value
    BY <1>2, <1>4 DEF P!Text
  <2>2. precision = 0 \/ precision >= Len(item.value)
    BY <1>1, <1>4
  <2> QED
    BY <2>1, <2>2 DEF Shown
<1> QED
  BY <1>3, <1>4
-----------------------------------------------------------------------------
(* Where the loop stands, in the state behind a step as in the one before.   *)
LEMMA WhereItWillBe ==
  ASSUME NEW i
  PROVE  FormatInv(i)' => Place(i)' /\ (Done = Behind(i))'
<1>1. FormatInv(i) => Place(i) /\ Done = Behind(i)
  BY WhereItIs, DoneIs DEF FormatInv
<1> QED
  BY <1>1, PTL

(* What the items show that are neither a number nor a string.               *)
LEMMA ShownOthers ==
  ASSUME NEW item
  PROVE  /\ item.spec \in {"text", "c", "C"} => P!Shown(item) = <<item.value>>
         /\ item.spec = "%" => P!Shown(item) = <<"%">>
         /\ item.spec \in DOMAIN NumberCalls => P!Shown(item) = P!Field(item)
         /\ item.spec \in StringSpecs => P!Shown(item) = P!Text(item)
         /\ item.spec \notin {"text", "c", "C", "%"} \union DOMAIN NumberCalls \union StringSpecs =>
              P!Shown(item) = <<>>
<1>1. P!NumberSpecs = {"d", "D", "i", "I", "u", "U", "o", "O", "x", "X", "p", "P"} /\ DOMAIN NumberCalls = P!NumberSpecs
  BY DEF P!NumberSpecs, P!SignedSpecs, P!HexSpecs, NumberCalls
<1>2. P!StringSpecs = StringSpecs /\ StringSpecs = {"s", "S", "h", "H", "w", "W"}
  BY DEF P!StringSpecs, StringSpecs
<1>3. CASE item.spec \in {"text", "c", "C"}
  BY <1>1, <1>2, <1>3 DEF P!Shown
<1>4. CASE item.spec = "%"
  BY <1>1, <1>2, <1>4 DEF P!Shown
<1>5. CASE item.spec \in P!NumberSpecs
  BY <1>1, <1>2, <1>5 DEF P!Shown
<1>6. CASE item.spec \in P!StringSpecs
  BY <1>1, <1>2, <1>6 DEF P!Shown
<1>7. CASE item.spec \notin {"text", "c", "C", "%"} \union P!NumberSpecs \union P!StringSpecs
  BY <1>1, <1>2, <1>7 DEF P!Shown
<1> QED
  BY <1>1, <1>2, <1>3, <1>4, <1>5, <1>6, <1>7

(* A step within an item is none of Printf's, unless the format breaks off   *)
(* in the item: then it is the one that shows nothing.                       *)
LEMMA InsideStep ==
  ASSUME NEW i, FormatInv(i), FormatInv(i)', ~broken, broken' = broken, items' = items, out' = out,
         stored' = stored, ptr' = ptr \/ ptr' = ptr + 1
  PROVE  [P!Next]_(P!vars)
<1>1. Place(i) /\ Done = Behind(i) /\ TheCall /\ Counted(i)
  BY WhereItIs, DoneIs DEF FormatInv
<1>2. Place(i)' /\ Done' = Behind(i)'
  BY WhereItWillBe
<1>3. PrintfDone = Done /\ PrintfDone' = Done'
  BY DEF PrintfDone
<1>4. CASE Behind(i)' = Behind(i)
  BY <1>1, <1>2, <1>3, <1>4 DEF P!vars
<1>5. CASE Behind(i)' # Behind(i)
  <2>1. PICK item : item = items[i + 1]
    OBVIOUS
  <2>2. i < Len(items) /\ ptr <= Start(items, i + 1) /\ ~(ptr' <= Start(items, i + 1))
    <3>1. CASE i < Len(items)
      <4>1. Start(items, i + 1) \in Nat
        BY <1>1, <3>1, FoundHere DEF Place
      <4>2. ~(ptr <= Start(items, i + 1)) => ~(ptr' <= Start(items, i + 1))
        BY <1>1, <4>1 DEF Place
      <4> QED
        BY <1>5, <3>1, <4>2 DEF Behind
    <3>2. CASE ~(i < Len(items))
      BY <1>5, <3>2 DEF Behind
    <3> QED
      BY <3>1, <3>2
  <2>3. item.spec = "none"
    BY <1>2, <2>1, <2>2 DEF Place
  <2>4. PrintfDone = i /\ PrintfDone' = i + 1
    BY <1>1, <1>2, <1>3, <2>2 DEF Behind
  <2>5. P!Shown(item) = <<>> /\ item.spec \notin P!NumberSpecs
    BY <2>3, ShownOthers DEF NumberCalls, StringSpecs, P!NumberSpecs, P!SignedSpecs, P!HexSpecs
  <2>6. out \o <<>> = out
    BY <1>1, AppendJoins DEF Counted, Join
  <2>7. item.spec \notin {"n", "N"} /\ ~P!Overruns(item)
    BY <2>3, <2>5 DEF P!Overruns
  <2>8. P!ShowItem
    BY <2>1, <2>2, <2>4, <2>5, <2>6, <2>7 DEF P!ShowItem
  <2> QED
    BY <2>8 DEF P!Next
<1> QED
  BY <1>4, <1>5

(* Printf counts as Format does.                                            *)
LEMMA SameCardinality ==
  ASSUME NEW S
  PROVE  P!Cardinality(S) = Cardinality(S)
BY Zenon DEF P!Cardinality, Cardinality

(* Printf's count is the one that vfkprintf keeps.                           *)
LEMMA CountsAgree ==
  ASSUME NEW i, Counted(i), PrintfDone = i
  PROVE  P!Count = count
<1>1. \A spec : spec \in P!NumberSpecs <=> spec \in DOMAIN NumberCalls
  BY CallsAre
<1>2. Lefts(items, i) = {k \in 1 .. PrintfDone : items[k].spec \in P!NumberSpecs /\ items[k].flag = "-"}
  BY <1>1 DEF Lefts, LeftNumber
<1>3. P!Count = Len(out) + Cardinality({k \in 1 .. PrintfDone : items[k].spec \in P!NumberSpecs /\ items[k].flag = "-"})
  BY SameCardinality DEF P!Count
<1>4. P!Count = Len(out) + Cardinality(Lefts(items, i))
  BY <1>2, <1>3, Zenon
<1> QED
  BY <1>4 DEF Counted

(* A step that ends an item shows it.                                        *)
LEMMA ShowStep ==
  ASSUME NEW i, FormatInv(i), FormatInv(i + 1)', ~broken, broken' = broken, items' = items,
         i \in Nat, i < Len(items), ptr <= Start(items, i + 1), ptr' = Start(items, i + 1) + 1,
         NEW item, item = items[i + 1], ~P!Overruns(item), out' = Join(out, P!Shown(item)),
         stored' = IF item.spec \in {"n", "N"} /\ item.value THEN Append(stored, count) ELSE stored
  PROVE  P!Next
<1>1. Place(i) /\ Done = Behind(i) /\ Counted(i)
  BY WhereItIs, DoneIs DEF FormatInv
<1>2. Place(i + 1)' /\ Done' = Behind(i + 1)'
  BY WhereItWillBe
<1>3. PrintfDone = i
  BY <1>1 DEF PrintfDone, Behind
<1>4. PrintfDone' = i + 1
  <2>1. CASE i + 1 < Len(items)
    <3>1. i + 1 \in 0 .. Len(items)
      BY <1>1 DEF Place
    <3>2. PICK n \in Nat \ {0} : Start(items, (i + 1) + 1) = Start(items, i + 1) + n
      BY <1>1, <2>1, <3>1, FoundHere DEF Place
    <3>3. Start(items, i + 1) \in Nat
      BY <1>1, <2>1, <3>1, FoundHere DEF Place
    <3>4. ptr' <= Start(items, (i + 1) + 1)
      BY <3>2, <3>3
    <3> QED
      BY <1>2, <3>4 DEF PrintfDone, Behind
  <2>2. CASE ~(i + 1 < Len(items))
    BY <1>2, <2>2 DEF PrintfDone, Behind
  <2> QED
    BY <2>1, <2>2
<1>5. P!Count = count
  BY <1>1, <1>3, CountsAgree
<1>6. P!ShowItem
  BY <1>3, <1>4, <1>5 DEF P!ShowItem, Join
<1> QED
  BY <1>6 DEF P!Next

(* The same behind a specifier.                                              *)
LEMMA SpecifierStep ==
  ASSUME NEW i, NEW item, FormatInv(i), AtSpec(i, item), FormatInv(i + 1)', SpecifierDone,
         ~broken, broken' = broken, ~P!Overruns(item), out' = Join(out, P!Shown(item)),
         stored' = IF item.spec \in {"n", "N"} /\ item.value THEN Append(stored, count) ELSE stored
  PROVE  P!Next
<1>1. Place(i)
  BY WhereItIs DEF FormatInv
<1>2. i \in Nat /\ i < Len(items) /\ Len(items) \in Nat /\ item = items[i + 1] /\ ptr + 1 = Start(items, i + 1) + 1
  <2>1. i \in Nat /\ i + 1 \in 0 .. Len(items) /\ Len(items) \in Nat
    BY <1>1 DEF AtSpec, Place
  <2>2. i < Len(items)
    BY <2>1
  <2> QED
    BY <2>1, <2>2 DEF AtSpec
<1>3. Start(items, i + 1) \in Nat /\ ptr \in Nat
  BY <1>1, <1>2, FoundHere DEF Place
<1>4. ptr <= Start(items, i + 1) /\ ptr' = Start(items, i + 1) + 1 /\ items' = items
  BY <1>2, <1>3 DEF SpecifierDone, call
<1> QED
  BY <1>2, <1>4, ShowStep

(* Each action is a step of Printf, or none.                                 *)
LEMMA PrintMaps ==
  ASSUME NEW i, FormatInv(i), StatePrint
  PROVE  [P!Next]_(P!vars)
<1>1. /\ TheCall /\ At(i) /\ Counted(i) /\ More /\ ~broken /\ state = "state_print"
      /\ items' = items /\ ptr' = ptr + 1 /\ broken' = broken /\ stored' = stored
  BY DEF FormatInv, StatePrint, Running, call
<1>2. Place(i) /\ i < Len(items) /\ i \in 0 .. Len(items) /\ items \in Formats
  BY <1>1, WhereItIs, NotAtEnd
<1>3. BetweenItems(i)
  BY <1>1 DEF At, InItem, InFlags, InWidth, InPrecision, InSpecifier
<1>4. PICK item, S : item = items[i + 1] /\ S = Start(items, i)
  OBVIOUS
<1>5. S \in Nat /\ ptr = S + 1 /\ Here(items, i) /\ Start(items, i + 1) = S + ItemLength(item)
  BY <1>2, <1>3, <1>4, FoundHere DEF BetweenItems
<1>6. Char = WholeText(items)[S + 1]
  BY <1>1, <1>5 DEF Char, TheCall
<1>7. CASE item.spec = "text"
  <2>1. Char = item.value /\ item.value # "%"
    <3>1. IsItem(item)
      BY <1>1, <1>4, NotAtEnd
    <3> QED
      BY <1>4, <1>5, <1>6, <1>7, <3>1 DEF Here, IsItem
  <2>2. out' = Append(out, item.value)
    BY <2>1 DEF StatePrint
  <2>3. P!Shown(item) = <<item.value>> /\ ~P!Overruns(item) /\ item.spec \notin {"n", "N"}
    BY <1>7, ShownOthers DEF P!Overruns, P!NumberSpecs, P!SignedSpecs, P!HexSpecs
  <2>4. out' = Join(out, P!Shown(item))
    BY <1>1, <2>2, <2>3, AppendJoins DEF Counted
  <2>5. FormatInv(i + 1)'
    BY <1>4, <1>7, PrintKeeps
  <2>6. Start(items, i + 1) = S + 1
    BY <1>5, <1>7 DEF ItemLength
  <2>7. i \in Nat /\ ptr <= Start(items, i + 1) /\ ptr' = Start(items, i + 1) + 1
    BY <1>1, <1>2, <1>5, <2>6 DEF Place
  <2> QED
    BY <1>1, <1>2, <1>4, <2>3, <2>4, <2>5, <2>7, ShowStep
<1>8. CASE item.spec # "text"
  <2>1. FormatInv(i)'
    BY <1>4, <1>8, PrintKeeps
  <2>2. Char = "%"
    BY <1>4, <1>5, <1>6, <1>8 DEF Here
  <2>3. out' = out
    BY <2>2 DEF StatePrint
  <2> QED
    BY <1>1, <2>1, <2>3, InsideStep
<1> QED
  BY <1>7, <1>8

(* state_flags, state_width, state_precision: none.                         *)
LEMMA ReadingMaps ==
  ASSUME NEW i, FormatInv(i), StateFlags \/ StateWidth \/ StatePrecision
  PROVE  [P!Next]_(P!vars)
<1>1. FormatInv(i)'
  BY FlagsKeep, WidthKeeps, PrecisionKeeps
<1>2. ~broken /\ broken' = broken /\ items' = items /\ out' = out /\ stored' = stored
  BY DEF StateFlags, StateWidth, StatePrecision, Running, call
<1>3. ptr' = ptr \/ ptr' = ptr + 1
  <2>1. CASE StateFlags
    BY <2>1 DEF StateFlags
  <2>2. CASE StateWidth
    BY <2>2 DEF StateWidth
  <2>3. CASE StatePrecision
    BY <2>3 DEF StatePrecision
  <2> QED
    BY <2>1, <2>2, <2>3
<1> QED
  BY <1>1, <1>2, <1>3, InsideStep

(* What is no number overruns nothing.                                       *)
LEMMA OthersFit ==
  ASSUME NEW item, item.spec \notin DOMAIN NumberCalls
  PROVE  ~P!Overruns(item)
BY CallsAre DEF P!Overruns

(* f F e E a A: the item is shown, as nothing.                              *)
LEMMA FloatMaps ==
  ASSUME NEW i, FormatInv(i), SpecFloat
  PROVE  P!Next
<1>1. PICK item : AtSpec(i, item)
  BY SpecifierHere DEF SpecFloat, AtSpecifier
<1>2. item.spec \in {"f", "F", "e", "E", "a", "A"}
  BY <1>1 DEF SpecFloat, AtSpecifier, AtSpec
<1>3. /\ item.spec \notin DOMAIN NumberCalls /\ item.spec \notin {"n", "N"}
      /\ item.spec \notin {"text", "c", "C", "%"} \union DOMAIN NumberCalls \union StringSpecs
  BY <1>2 DEF NumberCalls, StringSpecs
<1>4. out' = Join(out, P!Shown(item))
  BY <1>3, ShownOthers DEF SpecFloat, PrintFloatOut, Join
<1>5. FormatInv(i + 1)'
  BY FloatKeeps
<1>6. SpecifierDone /\ ~broken /\ broken' = broken /\ stored' = stored
  BY DEF SpecFloat, AtSpecifier, Running
<1> QED
  BY <1>1, <1>3, <1>4, <1>5, <1>6, OthersFit, SpecifierStep

(* c C: as its character.                                                   *)
LEMMA CharMaps ==
  ASSUME NEW i, FormatInv(i), SpecChar
  PROVE  P!Next
<1>1. PICK item : AtSpec(i, item)
  BY SpecifierHere DEF SpecChar, AtSpecifier
<1>2. item.spec \in {"c", "C"}
  BY <1>1 DEF SpecChar, AtSpecifier, AtSpec
<1>3. item.spec \notin DOMAIN NumberCalls /\ item.spec \notin {"n", "N"} /\ item.spec \in TakesArgument
  BY <1>2 DEF NumberCalls, TakesArgument
<1>4. Argument = item.value
  BY <1>1, <1>3 DEF AtSpec
<1>5. out' = Join(out, P!Shown(item))
  BY <1>2, <1>4, ShownOthers, AppendJoins DEF SpecChar, FormatInv, Counted
<1>6. FormatInv(i + 1)'
  BY CharKeeps
<1>7. SpecifierDone /\ ~broken /\ broken' = broken /\ stored' = stored
  BY DEF SpecChar, AtSpecifier, Running
<1> QED
  BY <1>1, <1>3, <1>5, <1>6, <1>7, OthersFit, SpecifierStep

(* %%: as one.                                                              *)
LEMMA PercentMaps ==
  ASSUME NEW i, FormatInv(i), SpecPercent
  PROVE  P!Next
<1>1. PICK item : AtSpec(i, item)
  BY SpecifierHere DEF SpecPercent, AtSpecifier
<1>2. item.spec = "%"
  BY <1>1 DEF SpecPercent, AtSpecifier, AtSpec
<1>3. item.spec \notin DOMAIN NumberCalls /\ item.spec \notin {"n", "N"}
  BY <1>2 DEF NumberCalls
<1>4. out' = Join(out, P!Shown(item))
  BY <1>2, ShownOthers, AppendJoins DEF SpecPercent, FormatInv, Counted
<1>5. FormatInv(i + 1)'
  BY PercentKeeps
<1>6. SpecifierDone /\ ~broken /\ broken' = broken /\ stored' = stored
  BY DEF SpecPercent, AtSpecifier, Running
<1> QED
  BY <1>1, <1>3, <1>4, <1>5, <1>6, OthersFit, SpecifierStep

(* s S h H w W: as as much of it as the precision allows.                   *)
LEMMA StringMaps ==
  ASSUME NEW i, FormatInv(i), SpecString
  PROVE  P!Next
<1>1. PICK item : AtSpec(i, item)
  BY SpecifierHere DEF SpecString, AtSpecifier
<1>2. item.spec \in StringSpecs
  BY <1>1 DEF SpecString, AtSpecifier, AtSpec, StringSpecs
<1>3. item.spec \notin DOMAIN NumberCalls /\ item.spec \notin {"n", "N"} /\ item.spec \in TakesArgument
  BY <1>2 DEF NumberCalls, TakesArgument, StringSpecs
<1>4. /\ Argument = item.value /\ (item.value = Null \/ IsSequence(item.value))
      /\ precision = item.precision.n /\ precision \in Nat
  BY <1>1, <1>2, <1>3 DEF AtSpec, IsDirective
<1>5. out' = Join(out, P!Text(item))
  <2>1. CASE item.value = Null
    <3>1. item.value = P!Null
      BY <2>1 DEF P!Null, Null
    <3>2. P!Text(item) = <<"(", "n", "u", "l", "l", ")">>
      BY <3>1 DEF P!Text
    <3> QED
      BY <1>4, <2>1, <3>2 DEF SpecString, Join
  <2>2. CASE item.value # Null
    <3>1. Shown(item.value) = P!Text(item)
      BY <1>4, <2>2, TextIs
    <3> QED
      BY <1>4, <2>2, <3>1 DEF SpecString, Join
  <2> QED
    BY <2>1, <2>2
<1>6. out' = Join(out, P!Shown(item))
  BY <1>2, <1>5, ShownOthers
<1>7. FormatInv(i + 1)'
  BY StringKeeps
<1>8. SpecifierDone /\ ~broken /\ broken' = broken /\ stored' = stored
  BY DEF SpecString, AtSpecifier, Running
<1> QED
  BY <1>1, <1>3, <1>6, <1>7, <1>8, OthersFit, SpecifierStep

(* n N: the count before it is stored.                                      *)
LEMMA StoreMaps ==
  ASSUME NEW i, FormatInv(i), SpecStore
  PROVE  P!Next
<1>1. PICK item : AtSpec(i, item)
  BY SpecifierHere DEF SpecStore, AtSpecifier
<1>2. item.spec \in {"n", "N"}
  BY <1>1 DEF SpecStore, AtSpecifier, AtSpec
<1>3. /\ item.spec \notin DOMAIN NumberCalls /\ item.spec \in TakesArgument
      /\ item.spec \notin {"text", "c", "C", "%"} \union DOMAIN NumberCalls \union StringSpecs
  BY <1>2 DEF NumberCalls, TakesArgument, StringSpecs
<1>4. Argument = item.value
  BY <1>1, <1>3 DEF AtSpec
<1>5. out' = Join(out, P!Shown(item))
  BY <1>3, ShownOthers, AppendJoins DEF SpecStore, FormatInv, Counted
<1>6. FormatInv(i + 1)'
  BY StoreKeeps
<1>7. SpecifierDone /\ ~broken /\ broken' = broken
  BY DEF SpecStore, AtSpecifier, Running
<1>8. stored' = IF item.spec \in {"n", "N"} /\ item.value THEN Append(stored, count) ELSE stored
  BY <1>2, <1>4 DEF SpecStore
<1> QED
  BY <1>1, <1>3, <1>5, <1>6, <1>7, <1>8, OthersFit, SpecifierStep

(* Any other character: as nothing.                                         *)
LEMMA UnknownMaps ==
  ASSUME NEW i, FormatInv(i), SpecUnknown
  PROVE  P!Next
<1>1. PICK item : AtSpec(i, item)
  BY SpecifierHere DEF SpecUnknown
<1>2. item.spec \notin KnownSpecifiers /\ item.spec # "text"
  BY <1>1 DEF SpecUnknown, AtSpec
<1>3. /\ item.spec \notin DOMAIN NumberCalls /\ item.spec \notin {"n", "N"}
      /\ item.spec \notin {"text", "c", "C", "%"} \union DOMAIN NumberCalls \union StringSpecs
  BY <1>2 DEF NumberCalls, StringSpecs, KnownSpecifiers, TakesArgument
<1>4. out' = Join(out, P!Shown(item))
  BY <1>3, ShownOthers, AppendJoins DEF SpecUnknown, FormatInv, Counted
<1>5. FormatInv(i + 1)'
  BY UnknownKeeps
<1>6. SpecifierDone /\ ~broken /\ broken' = broken /\ stored' = stored
  BY DEF SpecUnknown, Running
<1> QED
  BY <1>1, <1>3, <1>4, <1>5, <1>6, OthersFit, SpecifierStep

(* A number is shown, or its width is beyond the buffer.                     *)
LEMMA NumberMaps ==
  ASSUME NEW i, FormatInv(i), SpecNumber
  PROVE  P!Next
<1>1. PICK item : AtSpec(i, item)
  BY SpecifierHere DEF SpecNumber, AtSpecifier
<1>2. item.spec \in DOMAIN NumberCalls /\ item.spec \in P!NumberSpecs
  BY <1>1, CallsAre DEF SpecNumber, AtSpecifier, AtSpec
<1>3. item.spec \in TakesArgument /\ item.spec \notin {"n", "N"}
  BY <1>2 DEF TakesArgument, NumberCalls
<1>4. /\ Argument = item.value /\ item.value \in 0 .. Modulus - 1 /\ IsDirective(item)
      /\ width \in Nat /\ width = item.width.n /\ flags = FlagSet(item)
  BY <1>1, <1>2, <1>3 DEF AtSpec, IsDirective
<1>5. PICK base, uppercase, is_signed : /\ base = NumberCalls[item.spec].base
                                        /\ uppercase = NumberCalls[item.spec].uppercase
                                        /\ is_signed = NumberCalls[item.spec].is_signed
  OBVIOUS
<1>6. base \in {8, 10, 16}
  BY <1>2, <1>5, CallsAre
<1>7. PICK buffer : buffer = NumberBuffer(Argument, base, uppercase, is_signed)
  OBVIOUS
<1>8. IsSeq(buffer) /\ Len(buffer) \in 1 .. BufferSize
  BY <1>4, <1>6, <1>7, BufferFits
<1>9. flags = "flags_left_justify" <=> item.flag = "-"
  BY <1>4, FlagsAre
<1>10. BufferUsed(buffer) > BufferSize <=> P!Overruns(item)
  <2>1. PICK n \in Nat, k \in Nat : n = BufferSize /\ k = Len(buffer) /\ k <= n
    BY <1>8, SizesAssumption
  <2>2. CASE flags = "flags_left_justify"
    BY <1>9, <2>1, <2>2 DEF BufferUsed, P!Overruns
  <2>3. CASE flags # "flags_left_justify"
    <3>1. BufferUsed(buffer) = k + (IF k < width THEN width - k ELSE 0)
      BY <2>1, <2>3 DEF BufferUsed, Missing
    <3>2. BufferUsed(buffer) > n <=> width > n
      BY <1>4, <2>1, <3>1
    <3> QED
      BY <1>2, <1>4, <1>9, <2>1, <2>3, <3>2 DEF P!Overruns
  <2> QED
    BY <2>2, <2>3
<1>11. /\ SpecifierDone /\ ~broken /\ stored' = stored
       /\ IF BufferUsed(buffer) > BufferSize
          THEN broken' = TRUE /\ out' = out
          ELSE out' = out \o PrintIntOut(buffer) /\ broken' = broken
  <2>1. Char = item.spec
    BY <1>1 DEF AtSpec
  <2> QED
    BY <1>5, <1>7, <2>1 DEF SpecNumber, AtSpecifier, Running
<1>12. FormatInv(i + 1)'
  BY NumberKeeps
<1>13. CASE ~P!Overruns(item)
  <2>1. PrintIntOut(buffer) = P!Field(item)
    BY <1>2, <1>4, <1>5, <1>7, FieldIs
  <2>2. out' = Join(out, P!Shown(item)) /\ broken' = broken
    BY <1>2, <1>10, <1>11, <1>13, <2>1, ShownOthers DEF Join
  <2> QED
    BY <1>1, <1>3, <1>11, <1>12, <1>13, <2>2, SpecifierStep
<1>14. CASE P!Overruns(item)
  <2>1. broken' = TRUE /\ out' = out /\ items' = items
    BY <1>10, <1>11, <1>14 DEF SpecifierDone, call
  <2>2. Place(i) /\ Done = Behind(i)
    BY WhereItIs, DoneIs DEF FormatInv
  <2>3. i \in Nat /\ i < Len(items) /\ Len(items) \in Nat /\ item = items[i + 1]
    <3>1. i \in Nat /\ i + 1 \in 0 .. Len(items) /\ Len(items) \in Nat /\ item = items[i + 1]
      BY <1>1, <2>2 DEF AtSpec, Place
    <3>2. i < Len(items)
      BY <3>1
    <3> QED
      BY <3>1, <3>2
  <2>4. PICK s \in Nat : s = Start(items, i + 1) /\ ptr = s
    <3>1. Start(items, i + 1) \in Nat /\ ptr \in Nat /\ ptr + 1 = Start(items, i + 1) + 1
      BY <1>1, <2>2, <2>3, FoundHere DEF Place, AtSpec
    <3> QED
      BY <3>1
  <2>5. PrintfDone = i
    BY <1>11, <2>2, <2>4 DEF PrintfDone, Behind
  <2>6. PrintfDone' = i
    <3>1. Done' = Behind(i + 1)'
      BY <1>12, WhereItWillBe
    <3>2. Behind(i + 1)' = i + 1
      <4>1. ptr' = s + 1
        BY <1>11, <2>4 DEF SpecifierDone
      <4>2. CASE i + 1 < Len(items)
        <5>1. i + 1 \in 0 .. Len(items)
          BY <2>3
        <5>2. PICK n \in Nat \ {0} : Start(items, (i + 1) + 1) = s + n
          BY <2>2, <2>4, <4>2, <5>1, FoundHere DEF Place
        <5>3. ptr' <= Start(items, (i + 1) + 1)
          BY <4>1, <5>2
        <5> QED
          BY <2>1, <5>3 DEF Behind
      <4>3. CASE ~(i + 1 < Len(items))
        BY <2>1, <4>3 DEF Behind
      <4> QED
        BY <4>2, <4>3
    <3>3. PrintfDone' = Done' - 1
      BY <2>1 DEF PrintfDone
    <3> QED
      BY <2>3, <3>1, <3>2, <3>3
  <2>7. P!Break
    BY <1>11, <1>14, <2>1, <2>3, <2>5, <2>6 DEF P!Break
  <2> QED
    BY <2>7 DEF P!Next
<1> QED
  BY <1>13, <1>14

(* So every step of the loop is one of Printf, or none,                     *)
LEMMA StepMaps ==
  ASSUME FormatHolds, [FormatNext]_formatVars
  PROVE  [P!Next]_(P!vars)
<1>1. PICK i : FormatInv(i)
  BY DEF FormatHolds
<1>2. CASE UNCHANGED formatVars
  <2>1. UNCHANGED <<items, ptr, out, stored, broken>>
    BY <1>2 DEF formatVars, call
  <2>2. PrintfDone' = PrintfDone
    BY <2>1 DEF PrintfDone, Done
  <2> QED
    BY <2>1, <2>2 DEF P!vars
<1>3. CASE FormatNext
  BY <1>1, <1>3, PrintMaps, ReadingMaps, NumberMaps, FloatMaps, CharMaps, StringMaps, StoreMaps, PercentMaps,
     UnknownMaps DEF FormatNext
<1> QED
  BY <1>2, <1>3

(* and the call begins as Printf does.                                      *)
LEMMA StartMaps ==
  ASSUME FormatInit
  PROVE  P!Init
<1>1. FormatInv(0)
  BY FormatStarts
<1>2. Place(0) /\ Done = Behind(0)
  BY <1>1, WhereItIs, DoneIs DEF FormatInv
<1>3. ptr = 1 /\ broken = FALSE /\ out = <<>> /\ stored = <<>>
  BY DEF FormatInit
<1>4. Behind(0) = 0
  <2>1. CASE 0 < Len(items)
    <3>1. 0 \in 0 .. Len(items)
      BY <1>2 DEF Place
    <3>2. PICK s \in Nat, n \in Nat \ {0} : Start(items, 0 + 1) = s + n
      BY <1>2, <2>1, <3>1, FoundHere DEF Place
    <3>3. ptr <= Start(items, 0 + 1)
      BY <1>3, <3>2
    <3> QED
      BY <3>3 DEF Behind
  <2>2. CASE ~(0 < Len(items))
    BY <2>2 DEF Behind
  <2> QED
    BY <2>1, <2>2
<1> QED
  BY <1>2, <1>3, <1>4 DEF P!Init, PrintfDone

(* vfkprintf shows the items of a call as Printf shows them, one after the  *)
(* other and digit by digit, each with its own arguments, stores the counts *)
(* that Printf stores, and breaks exactly where Printf does: for every word *)
(* size, buffer and format (format.cpp:60-416).                             *)
THEOREM ShowsItsItems == FormatSpec => PrintfSteps
<1>1. FormatInit => P!Init
  BY StartMaps
<1>2. FormatHolds /\ [FormatNext]_formatVars => [P!Next]_(P!vars)
  BY StepMaps
<1> QED
  BY <1>1, <1>2, FormatAlways, PTL DEF FormatSpec, PrintfSteps
=============================================================================
