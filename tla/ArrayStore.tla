----------------------------- MODULE ArrayStore -----------------------------
(***************************************************************************)
(* What the compiler's passes may rely on when they keep an array through  *)
(* tcc_hot_mallocz, tcc_hot_realloc, tcc_hot_settle and tcc_hot_free: the  *)
(* data an array holds changes only when its owner stores into it, clears  *)
(* it, cuts it short or frees it.  Growing an array, settling it, and any  *)
(* call on another array change nothing; where the bytes live is not seen. *)
(***************************************************************************)
EXTENDS Naturals

CONSTANTS
  Arrays,       \* the arrays of the compiler
  Sizes,        \* byte counts it asks for
  Zero          \* the value of a cleared byte; an array's own data is its name

VARIABLE contents    \* array -> its data, a function on 0 .. count - 1

NoBytes == [i \in {} |-> Zero]

Init == contents = [a \in Arrays |-> NoBytes]

Mallocz(a, n) ==
  /\ contents[a] = NoBytes
  /\ contents' = [contents EXCEPT ![a] = [i \in 0 .. (n - 1) |-> Zero]]

Store(a, n) == contents' = [contents EXCEPT ![a] = [i \in 0 .. (n - 1) |-> a]]

(* Reallocating to fewer bytes than there are data. *)
Cut(a, n) ==
  /\ n - 1 \in DOMAIN contents[a]
  /\ contents' = [contents EXCEPT ![a] = [i \in 0 .. (n - 1) |-> @[i]]]

Free(a) == contents' = [contents EXCEPT ![a] = NoBytes]

Next ==
  \E a \in Arrays :
    Free(a) \/ \E n \in Sizes : Mallocz(a, n) \/ Store(a, n) \/ Cut(a, n)

Spec == Init /\ [][Next]_contents
=============================================================================
