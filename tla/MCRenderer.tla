----------------------------- MODULE MCRenderer -----------------------------
(***************************************************************************)
(* Characters of two by two pixels, lines of three rows, on a screen that   *)
(* is neither a whole number of characters wide nor of lines high: three    *)
(* columns, the last one cut, and three lines, the last one cut inside its  *)
(* glyphs.                                                                  *)
(***************************************************************************)
EXTENDS Renderer

MCGlyphs == {"a", "b"}
=============================================================================
