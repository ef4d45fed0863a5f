------------------------------ MODULE HotBlocks ------------------------------
(***************************************************************************)
(* The best-fit allocator of src/source/memory/hot_arena.c as operators.   *)
(*                                                                         *)
(* The arena is one stretch of memory [0, end) filled with physical        *)
(* blocks, each an 8-byte header followed by its payload.  `blk` is the    *)
(* memory that holds headers: a function from the offset of a header to    *)
(* what the header says.  Merging takes a header out of the domain, since  *)
(* its bytes become payload; splitting puts one in.  Reading an offset     *)
(* outside the domain would be reading payload bytes as a header.          *)
(*                                                                         *)
(* Offsets and sizes are in bytes.  `used` is bit 0 of the C field `size`. *)
(* An arena is at most 320 KB, so the 32-bit fields never wrap.            *)
(***************************************************************************)
EXTENDS Integers

HeaderSize == 8          \* sizeof(HotBlock)

NULL == 0                \* no payload starts at offset 0: a header does

(* The memory a header occupies and the payload behind it. *)
Header(size, used, prev) == [size |-> size, used |-> used, prev |-> prev]

HB_NEXT(blk, b) == b + HeaderSize + blk[b].size

HB_PREV(blk, b) == b - blk[b].prev - HeaderSize

hb_round(bytes) == 8 * ((bytes + 7) \div 8)

hb_link_next(blk, end, b) ==
  IF HB_NEXT(blk, b) < end
    THEN [blk EXCEPT ![HB_NEXT(blk, b)].prev = blk[b].size]
    ELSE blk

(* The header table after b was cut to `size` bytes and the rest became t. *)
CutAt(blk, b, size) ==
  LET t == b + HeaderSize + size
  IN  [x \in DOMAIN blk \cup {t} |->
         IF x = t
           THEN Header(blk[b].size - size - HeaderSize, FALSE, size)
         ELSE IF x = b
           THEN Header(size, blk[b].used, blk[b].prev)
         ELSE blk[x]]

(* Mutant: the test for room does not count the new header and payload. *)
SplitTooEarly(blk, end, b, size) ==
  IF blk[b].size < size
    THEN blk
    ELSE hb_link_next(CutAt(blk, b, size), end, b + HeaderSize + size)

(* Mutant: the block behind the new one is not told. *)
SplitUnlinked(blk, end, b, size) ==
  IF blk[b].size < size + HeaderSize + 8 THEN blk ELSE CutAt(blk, b, size)

hb_split(blk, end, b, size) ==
  IF blk[b].size < size + HeaderSize + 8
    THEN blk
    ELSE hb_link_next(CutAt(blk, b, size), end, b + HeaderSize + size)

(* The header table after b swallowed the block n that follows it. *)
Absorb(blk, b, n) ==
  [x \in DOMAIN blk \ {n} |->
     IF x = b
       THEN Header(blk[b].size + blk[n].size + HeaderSize,
                   blk[b].used, blk[b].prev)
       ELSE blk[x]]

hb_merge_next(blk, end, b) ==
  LET n == HB_NEXT(blk, b)
  IN  IF n >= end \/ blk[n].used
        THEN blk
        ELSE hb_link_next(Absorb(blk, b, n), end, b)

SetUsed(blk, b, flag) == [blk EXCEPT ![b].used = flag]

-----------------------------------------------------------------------------
(* The arena: `end` is 0 while base is NULL, that is, while there is none. *)

NoArena ==
  [end |-> 0, blk |-> [b \in {} |-> Header(0, FALSE, 0)],
   used |-> 0, peak |-> 0, misses |-> 0]

hot_arena_init(bytes) ==
  LET end == 8 * (bytes \div 8)
  IN  [end |-> end,
       blk |-> [b \in {0} |-> Header(end - HeaderSize, FALSE, 0)],
       used |-> 0, peak |-> 0, misses |-> 0]

(* The new header table and count of bytes in use, and the peak with them. *)
Account(a, blk, used) ==
  [end |-> a.end, blk |-> blk, used |-> used,
   peak |-> IF used > a.peak THEN used ELSE a.peak, misses |-> a.misses]

Fits(blk, n) == {b \in DOMAIN blk : ~blk[b].used /\ blk[b].size >= n}

(* The scan goes up from base and replaces its choice only by a strictly   *)
(* smaller block: the lowest of the smallest blocks that fit.              *)
IsBestFit(blk, n, b) ==
  /\ b \in Fits(blk, n)
  /\ \A c \in Fits(blk, n) :
       \/ blk[b].size < blk[c].size
       \/ blk[b].size = blk[c].size /\ b <= c

BestFit(blk, n) == CHOOSE b \in DOMAIN blk : IsBestFit(blk, n, b)

Request(bytes) == hb_round(IF bytes = 0 THEN 1 ELSE bytes)

AllocRefused(a, bytes) == a.end = 0 \/ bytes > a.end

(* Result of an allocation: the arena after it and the payload, or NULL. *)
hot_arena_alloc(a, bytes) ==
  LET n    == Request(bytes)
      best == BestFit(a.blk, n)
      blk  == SetUsed(hb_split(a.blk, a.end, best, n), best, TRUE)
  IN  IF AllocRefused(a, bytes)
        THEN [arena |-> a, p |-> NULL]
      ELSE IF Fits(a.blk, n) = {}
        THEN [arena |-> [a EXCEPT !.misses = @ + 1], p |-> NULL]
      ELSE [arena |-> Account(a, blk, a.used + blk[best].size + HeaderSize),
            p |-> best + HeaderSize]

(* Mutant: a free block before the freed one is not merged with it. *)
FreeForwardOnly(a, p) ==
  LET b == p - HeaderSize
  IN  [end |-> a.end,
       blk |-> hb_merge_next(SetUsed(a.blk, b, FALSE), a.end, b),
       used |-> a.used - (a.blk[b].size + HeaderSize),
       peak |-> a.peak, misses |-> a.misses]

hot_arena_free(a, p) ==
  LET b    == p - HeaderSize
      blk1 == hb_merge_next(SetUsed(a.blk, b, FALSE), a.end, b)
      q    == HB_PREV(blk1, b)
      blk2 == IF blk1[b].prev # 0 /\ ~blk1[q].used
                THEN hb_merge_next(blk1, a.end, q)
                ELSE blk1
  IN  [end |-> a.end, blk |-> blk2,
       used |-> a.used - (a.blk[b].size + HeaderSize),
       peak |-> a.peak, misses |-> a.misses]

(* Mutant: the block behind is taken without asking whether it is free. *)
CanResizeIntoUsed(a, p, bytes) ==
  LET b == p - HeaderSize
      n == Request(bytes)
      next == HB_NEXT(a.blk, b)
  IN  \/ n <= a.blk[b].size
      \/ /\ next < a.end
         /\ a.blk[b].size + a.blk[next].size + HeaderSize >= n

(* Growing needs a free block behind b that makes up the difference. *)
CanResize(a, p, bytes) ==
  LET b == p - HeaderSize
      n == Request(bytes)
      next == HB_NEXT(a.blk, b)
  IN  \/ n <= a.blk[b].size
      \/ /\ next < a.end
         /\ ~a.blk[next].used
         /\ a.blk[b].size + a.blk[next].size + HeaderSize >= n

(* Mutant: the count of bytes in use does not follow the new size. *)
ResizeUncounted(a, p, bytes) ==
  LET b    == p - HeaderSize
      n    == Request(bytes)
      blk1 == IF n > a.blk[b].size THEN hb_merge_next(a.blk, a.end, b) ELSE a.blk
      blk2 == hb_split(blk1, a.end, b, n)
      t    == HB_NEXT(blk2, b)
      blk3 == IF t < a.end /\ ~blk2[t].used
                THEN hb_merge_next(blk2, a.end, t)
                ELSE blk2
  IN  Account(a, blk3, a.used)

hot_arena_resize(a, p, bytes) ==
  LET b    == p - HeaderSize
      n    == Request(bytes)
      old  == a.blk[b].size
      blk1 == IF n > old THEN hb_merge_next(a.blk, a.end, b) ELSE a.blk
      blk2 == hb_split(blk1, a.end, b, n)
      t    == HB_NEXT(blk2, b)
      blk3 == IF t < a.end /\ ~blk2[t].used
                THEN hb_merge_next(blk2, a.end, t)
                ELSE blk2
  IN  Account(a, blk3, a.used - old + blk3[b].size)

hot_arena_block_size(a, p) == a.blk[p - HeaderSize].size

hot_arena_contains(a, p) == a.end # 0 /\ 0 <= p /\ p < a.end

-----------------------------------------------------------------------------
(* What a correct header table looks like; used by the invariants.         *)

(* The offsets a block covers, its header included. *)
Extent(blk, b) == b .. (HB_NEXT(blk, b) - 1)

IsHeaderTable(blk, end) ==
  /\ DOMAIN blk \subseteq 0 .. (end - 1)
  /\ blk \in [DOMAIN blk -> [size : Nat, used : BOOLEAN, prev : Nat]]

(* Walking up with HB_NEXT visits every header and ends exactly at end. *)
Tiled(blk, end) ==
  /\ 0 \in DOMAIN blk
  /\ \A b \in DOMAIN blk :
       /\ HB_NEXT(blk, b) = end \/ HB_NEXT(blk, b) \in DOMAIN blk
       /\ \A c \in DOMAIN blk : b < c => HB_NEXT(blk, b) <= c

(* Walking down with HB_PREV is the inverse; only the first block has no   *)
(* block before it.                                                        *)
BackLinked(blk, end) ==
  /\ \A b \in DOMAIN blk : blk[b].prev = 0 <=> b = 0
  /\ \A b \in DOMAIN blk :
       HB_NEXT(blk, b) < end => blk[HB_NEXT(blk, b)].prev = blk[b].size

(* No free block is followed by a free block. *)
Coalesced(blk, end) ==
  \A b \in DOMAIN blk :
    HB_NEXT(blk, b) < end => blk[b].used \/ blk[HB_NEXT(blk, b)].used

Aligned(blk) ==
  \A b \in DOMAIN blk : b % 8 = 0 /\ blk[b].size % 8 = 0 /\ blk[b].size >= 8

UsedBlocks(blk) == {b \in DOMAIN blk : blk[b].used}

(* The offsets that blocks in use cover. *)
UsedBytes(blk) == UNION {Extent(blk, b) : b \in UsedBlocks(blk)}
=============================================================================
