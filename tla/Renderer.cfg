SPECIFICATION Spec
CONSTANTS
  Width = 5
  Height = 7
  Advance = 2
  GlyphHeight = 2
  LineHeight = 3
  Glyphs <- MCGlyphs
  FullMask = FALSE
INVARIANTS
  BehindUntouched
  CellsWhole
PROPERTY TerminalSpec
