---------------------------- MODULE ChainedHash ----------------------------
(***************************************************************************)
(* The chained hash table of src/source/support/tcc-chained-hash.h under   *)
(* its only client, the literal pool (arm-thumb-gen.c, arm-thumb-emit.c).  *)
(*                                                                         *)
(* A slot is the index of an entry plus one, 0 is the end of a chain.  The *)
(* client numbers its entries upwards and adds some of them to the table.  *)
(* After a clear the real pass numbers from 0 again, a dry run goes on.    *)
(***************************************************************************)
EXTENDS Naturals, Sequences, FiniteSets, SequencesExt

CONSTANTS
  Hashes,        \* hash values
  FirstBuckets,  \* LITERAL_POOL_HASH_BUCKET_COUNT, a power of 2
  FirstSize,     \* LITERAL_POOL_FIRST_SIZE
  MaxEntries,    \* bound on the entries of a pool
  MaxClears      \* bound on the clears of a table

ASSUME HashAssumption ==
  Hashes \subseteq Nat /\ FirstBuckets \in Nat \ {0} /\ FirstSize \in Nat \ {0}

VARIABLES
  h,             \* the table
  index,         \* the index the next entry of the pool gets
  clears         \* how often the table was cleared

vars == <<h, index, clears>>

NoLow == MaxEntries     \* UINT32_MAX: above every index

(* The entry_capacity is the number of elements of next and hashes. *)
tcc_chained_hash_init ==
  [buckets |-> [b \in 0 .. FirstBuckets - 1 |-> 0],
   next |-> [e \in 0 .. FirstSize - 1 |-> 0],
   hashes |-> [e \in 0 .. FirstSize - 1 |-> 0],
   lo |-> NoLow, hi |-> 0, count |-> 0]

BucketCount(t) == Cardinality(DOMAIN t.buckets)

Capacity(t) == Cardinality(DOMAIN t.next)

Bucket(t, hash) == hash % BucketCount(t)

-----------------------------------------------------------------------------

(* Mutant: the last entry of the dirty range is missed. *)
ClearMissesLast(t) ==
  LET dirty == {Bucket(t, t.hashes[e]) : e \in t.lo .. t.hi - 1}
  IN  [t EXCEPT !.buckets = [b \in DOMAIN t.buckets |->
                               IF b \in dirty THEN 0 ELSE t.buckets[b]],
                !.lo = NoLow, !.hi = 0, !.count = 0]

(* Only the buckets of the entries between lo and hi, or all of them. *)
tcc_chained_hash_clear(t) ==
  LET dirty == IF t.lo > t.hi THEN {}
               ELSE IF t.hi - t.lo < BucketCount(t) \div 2
                 THEN {Bucket(t, t.hashes[e]) : e \in t.lo .. t.hi}
                 ELSE DOMAIN t.buckets
  IN  [t EXCEPT !.buckets = [b \in DOMAIN t.buckets |->
                               IF b \in dirty THEN 0 ELSE t.buckets[b]],
                !.lo = NoLow, !.hi = 0, !.count = 0]

tcc_chained_hash_reserve(t, capacity) ==
  LET Grown(f) == [e \in 0 .. capacity - 1 |-> IF e \in DOMAIN f THEN f[e] ELSE 0]
  IN  IF capacity <= Capacity(t) THEN t
      ELSE [t EXCEPT !.next = Grown(t.next), !.hashes = Grown(t.hashes)]

(* The slots of a chain from `slot` on, at most n of them: a chain that    *)
(* goes in a circle has no end.                                            *)
RECURSIVE Chain(_, _, _)
Chain(t, slot, n) ==
  IF slot = 0 \/ n = 0 THEN <<>>
                       ELSE <<slot>> \o Chain(t, t.next[slot - 1], n - 1)

(* tcc_chained_hash_bucket_head and the walk with tcc_chained_hash_next_slot. *)
BucketChain(t, b) == Chain(t, t.buckets[b], Capacity(t) + 1)

(* The entry goes before the head of its bucket. *)
Push(t, slot) ==
  LET b == Bucket(t, t.hashes[slot - 1])
  IN  [t EXCEPT !.next[slot - 1] = t.buckets[b], !.buckets[b] = slot]

(* All slots in the order of the old buckets. *)
Walk(t) ==
  FlattenSeq([i \in 1 .. BucketCount(t) |-> BucketChain(t, i - 1)])

(* Mutant: the chains are moved as they are, with their old hash mask. *)
RebuildKeepsChains(t, count) ==
  [t EXCEPT !.buckets = [b \in 0 .. count - 1 |->
                           IF b \in DOMAIN t.buckets THEN t.buckets[b] ELSE 0]]

tcc_chained_hash_rebuild(t, count) ==
  FoldLeft(Push, [t EXCEPT !.buckets = [b \in 0 .. count - 1 |-> 0]], Walk(t))

(* Mutant: the table keeps its buckets however full it is. *)
InsertNeverRebuilds(t, hash, e) ==
  [Push([t EXCEPT !.hashes[e] = hash], e + 1) EXCEPT
     !.lo = IF e < @ THEN e ELSE @,
     !.hi = IF e > @ THEN e ELSE @,
     !.count = @ + 1]

tcc_chained_hash_insert_head(t, hash, e) ==
  LET new == [Push([t EXCEPT !.hashes[e] = hash], e + 1) EXCEPT
                !.lo = IF e < @ THEN e ELSE @,
                !.hi = IF e > @ THEN e ELSE @,
                !.count = @ + 1]
  IN  IF new.count > 2 * BucketCount(new)
        THEN tcc_chained_hash_rebuild(new, 2 * BucketCount(new))
        ELSE new

-----------------------------------------------------------------------------
(* The literal pool as a client. *)

Init == h = tcc_chained_hash_init /\ index = 0 /\ clears = 0

(* th_literal_pool_allocate: the pool and the table grow together. *)
Grown == tcc_chained_hash_reserve(h, IF index < Capacity(h) THEN 0
                                                           ELSE 2 * Capacity(h))

(* An entry that is shared, or that is not for sharing. *)
Allocate ==
  /\ index < MaxEntries
  /\ h' = Grown
  /\ index' = index + 1
  /\ UNCHANGED clears

(* literal_pool_hash_insert *)
Insert ==
  \E hash \in Hashes :
    /\ index < MaxEntries
    /\ h' = tcc_chained_hash_insert_head(Grown, hash, index)
    /\ index' = index + 1
    /\ UNCHANGED clears

(* literal_pool_hash_clear at a flush, or where a dry run begins or ends.   *)
Clear ==
  \E next \in {0, index} :
    /\ clears < MaxClears
    /\ h' = tcc_chained_hash_clear(h)
    /\ index' = next
    /\ clears' = clears + 1

(* arm_deinit and th_literal_pool_init *)
Restart == h' = tcc_chained_hash_init /\ index' = 0 /\ clears' = 0

Next == Allocate \/ Insert \/ Clear \/ Restart

Spec == Init /\ [][Next]_vars

-----------------------------------------------------------------------------
(* Properties. *)

(* What a lookup of any hash comes across in the chain of its bucket and   *)
(* accepts (literal_pool_hash_find).                                       *)
Found ==
  LET chained == [b \in DOMAIN h.buckets |-> ToSet(BucketChain(h, b))]
      hits    == {e \in DOMAIN h.next : e + 1 \in chained[Bucket(h, h.hashes[e])]}
  IN  [e \in hits |-> h.hashes[e]]

Index == INSTANCE HashIndex WITH Entries <- 0 .. MaxEntries - 1, found <- Found

(* A lookup finds the entries added since the last clear and no others,    *)
(* through growing, rebuilding and clearing only the dirty range.          *)
ImplementsIndex == Index!Spec

(* tcc_chained_hash_clear: "Every non-empty bucket heads a chain of        *)
(* entries inserted since the last clear, each stored under its hash": no  *)
(* chain leads into another bucket or into an entry outside the range, and *)
(* together they have every entry once.                                    *)
WellChained ==
  LET chain   == [b \in DOMAIN h.buckets |-> BucketChain(h, b)]
      chained == [b \in DOMAIN h.buckets |-> ToSet(chain[b])]
  IN  /\ Cardinality(UNION Range(chained)) = h.count
      /\ \A b \in DOMAIN h.buckets :
           /\ Len(chain[b]) = Cardinality(chained[b])
           /\ \A slot \in chained[b] :
                /\ Bucket(h, h.hashes[slot - 1]) = b
                /\ h.lo <= slot - 1 /\ slot - 1 <= h.hi

(* Slots are those of entries the arrays have room for, and the table      *)
(* never has more than two entries per bucket.                             *)
TypeOK ==
  /\ h.buckets \in [DOMAIN h.buckets -> 0 .. Capacity(h)]
  /\ h.next \in [DOMAIN h.next -> 0 .. Capacity(h)]
  /\ DOMAIN h.hashes = DOMAIN h.next
  /\ h.count <= 2 * BucketCount(h)
  /\ index \in 0 .. MaxEntries
  /\ clears \in 0 .. MaxClears
=============================================================================
