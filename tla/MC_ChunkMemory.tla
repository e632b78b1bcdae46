--------------------------- MODULE MC_ChunkMemory ---------------------------
(***************************************************************************)
(* Two bytes and two locations; the arrays grow to 1, 2, 4 and no further, *)
(* so that a loop or a jump is written across one growth, or two.          *)
(***************************************************************************)
EXTENDS ChunkMemory
=============================================================================
