----------------------------- MODULE MCHotMemory -----------------------------
(* Two arrays over an arena of 72 bytes.  The sizes take blocks of 16, 32  *)
(* and 48 bytes: an array behind a held neighbour moves inside the arena,  *)
(* a large one and a middle one do not fit together and one of them goes   *)
(* to the heap, and remainders too small to split occur.                   *)
EXTENDS HotMemory, TLC

CONSTANTS a1, a2

MCArrays == {a1, a2}

MCSizes == {8, 20, 40}

MCMapBytes == {72}

MCMaxMisses == 1

Perms == Permutations(MCArrays)
=============================================================================
