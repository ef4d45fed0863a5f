----------------------------- MODULE MCHotArena -----------------------------
(* HotArena on arenas of eight and seven and a half words of 8 bytes: room *)
(* for up to four blocks, so that every neighbour pattern around a freed   *)
(* or resized block occurs.                                                *)
EXTENDS HotArena

MCMapBytes == {64, 76}

MCSizes == {0, 5, 8, 13, 16, 24, 40, 56, 65, 80}

MCMaxMisses == 2
=============================================================================
