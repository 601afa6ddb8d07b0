----------------------------- MODULE MCPalettes -----------------------------
(***************************************************************************)
(* Palettes for TLC: a tab with two palettes of its own, one of them listed *)
(* twice, and one with the name of a baked palette.  There is one suffixed  *)
(* name, and room for one palette less than there are names to take it.     *)
(***************************************************************************)
EXTENDS Palettes

CONSTANTS p, p2, q, b

AllNames   == {p, p2, q, b}
BakedNames == {b}
SuffixedNames   == [n \in AllNames |-> IF n = p THEN <<b, p2>>
                                  ELSE IF n = b THEN <<p2>> ELSE <<>>]
Bundle     == <<p, b, q, p>>
=============================================================================
