----------------------------- MODULE HashIndex -----------------------------
(***************************************************************************)
(* What src/source/support/tcc-chained-hash.h promises to the literal      *)
(* pool: the entries added since the last clear, each with its hash, are   *)
(* found by their hash and nothing else is.                                *)
(***************************************************************************)
EXTENDS Naturals

CONSTANTS Entries, Hashes

VARIABLE found         \* from the entries that are found to their hashes

Init == found = [e \in {} |-> 0]

With(e, h) == [x \in DOMAIN found \cup {e} |-> IF x = e THEN h ELSE found[x]]

Insert ==
  found' \in {With(e, h) : e \in Entries \ DOMAIN found, h \in Hashes}

Clear == found' = [e \in {} |-> 0]

Next == Clear \/ Insert

Spec == Init /\ [][Next]_found
=============================================================================
