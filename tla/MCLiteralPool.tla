--------------------------- MODULE MCLiteralPool ---------------------------
(* A constant and a symbol that collide in the lookup cache. *)
EXTENDS LiteralPool

CONSTANTS c, f

MCConstants == {c}

MCSymbols == {f}

MCCacheSlot == [k \in {c, f} |-> 0]
=============================================================================
