---------------------------- MODULE MCPoolPasses ----------------------------
(* A constant and a symbol that collide in the lookup cache; and a pool    *)
(* that a narrow branch does not reach across.                             *)
EXTENDS PoolPasses

CONSTANTS c, f

MCConstants == {c}

MCSymbols == {f}

MCCacheSlot == [k \in {c, f} |-> 0]

MCStartLiterals == {<<c>>, <<c, f>>}

ManyConstants == 1 .. 6

ManyCacheSlot == [k \in ManyConstants \cup {f} |-> 0]

ManyStartLiterals == {[i \in ManyConstants |-> i]}
=============================================================================
