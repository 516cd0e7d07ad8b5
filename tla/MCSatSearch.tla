----------------------------- MODULE MCSatSearch -----------------------------
(***************************************************************************)
(* Every interval of bounds up to MaxWidth and every twin-width in it.     *)
(***************************************************************************)
EXTENDS SatSearch

CONSTANT MaxWidth

MCWidths == 0 .. MaxWidth
==============================================================================
