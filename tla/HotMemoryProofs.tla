-------------------------- MODULE HotMemoryProofs --------------------------
(***************************************************************************)
(* Proofs about HotMemory for every number of arrays, every arena size and *)
(* every sequence of calls: no array dangles and no block leaks, a release *)
(* is final, and callers see plain arrays (ArrayStore).                    *)
(***************************************************************************)
EXTENDS HotMemory, ArenaContract, TLAPS

-----------------------------------------------------------------------------
(* The calls of hot_arena.c, as ArenaContract states them.  The contract is *)
(* a hypothesis of the lemmas below; HotBlocksProofs discharges it at the   *)
(* end of the module.                                                       *)

(* hot_arena_init makes an arena without blocks in use. *)
LEMMA InitBy ==
  ASSUME Contract, NEW bytes \in Nat, bytes >= 16
  PROVE  LET r == hot_arena_init(bytes)
         IN  /\ ArenaOK(r) /\ r.end # 0
             /\ UsedBlocks(r.blk) = {}
  BY Zenon DEF Contract, InitResult

(* hot_arena_alloc returns a new block or none. *)
LEMMA AllocBy ==
  ASSUME Contract, NEW a, ArenaOK(a), NEW bytes \in Nat
  PROVE  AllocResult(a, hot_arena_alloc(a, bytes), bytes)
  BY Zenon DEF Contract

(* hot_arena_free gives up one block and keeps the others. *)
LEMMA FreeBy ==
  ASSUME Contract, NEW a, ArenaOK(a), NEW b \in UsedBlocks(a.blk)
  PROVE  LET r == hot_arena_free(a, b + HeaderSize)
         IN  /\ ArenaOK(r) /\ r.end = a.end
             /\ UsedBlocks(r.blk) = UsedBlocks(a.blk) \ {b}
             /\ SameElsewhere(a.blk, r.blk, UsedBlocks(a.blk) \ {b})
  BY Zenon DEF Contract, FreeResult

(* hot_arena_resize in place keeps every block and its payload. *)
LEMMA ResizeBy ==
  ASSUME Contract, NEW a, ArenaOK(a), NEW b \in UsedBlocks(a.blk),
         NEW bytes \in Nat, CanResize(a, b + HeaderSize, bytes)
  PROVE  LET r == hot_arena_resize(a, b + HeaderSize, bytes)
         IN  /\ ArenaOK(r) /\ r.end = a.end
             /\ UsedBlocks(r.blk) = UsedBlocks(a.blk)
             /\ SameElsewhere(a.blk, r.blk, UsedBlocks(a.blk) \ {b})
             /\ bytes <= r.blk[b].size
<1>1. ResizeResult(a, hot_arena_resize(a, b + HeaderSize, bytes), b, bytes)
  BY Zenon DEF Contract
<1> QED
  BY <1>1, Zenon DEF ResizeResult

(* Without blocks in use no byte is in use. *)
LEMMA NoneCounts ==
  ASSUME Contract, NEW blk, UsedBlocks(blk) = {}
  PROVE  Cardinality(UsedBytes(blk)) = 0
  BY Zenon DEF Contract

(* An arena that counts no bytes in use has no block in use. *)
LEMMA CountIsNone ==
  ASSUME Contract, NEW a, ArenaOK(a), a.used = 0
  PROVE  UsedBlocks(a.blk) = {}
  BY Zenon DEF Contract

(* A payload is at no null address, and an arena without memory is empty. *)
LEMMA PayloadNotNull ==
  ASSUME NEW a, ArenaOK(a), NEW b \in DOMAIN a.blk
  PROVE  b + HeaderSize # NULL
  BY DEF ArenaOK, IsHeaderTable, HeaderSize, NULL

(* An arena without memory has no block in use. *)
LEMMA NoMemoryNoBlocks ==
  ASSUME NEW a, ArenaOK(a), a.end = 0
  PROVE  UsedBlocks(a.blk) = {}
  BY DEF ArenaOK, IsHeaderTable, UsedBlocks

-----------------------------------------------------------------------------
(* The bytes of the arena. *)

(* Payload bytes of two blocks are different bytes, all in the arena. *)
LEMMA PayloadApart ==
  ASSUME NEW a, ArenaOK(a),
         NEW b \in DOMAIN a.blk, NEW i \in Nat, i < a.blk[b].size
  PROVE  /\ b + HeaderSize + i \in 0 .. (a.end - 1)
         /\ \A c \in DOMAIN a.blk : \A j \in Nat :
              c # b /\ j < a.blk[c].size => c + HeaderSize + j # b + HeaderSize + i
<1>1. /\ a.end # 0 /\ Sound(a.blk, a.end) /\ a.end \in Nat
      /\ \A c \in DOMAIN a.blk : c \in Nat /\ a.blk[c].size \in Nat
  BY DEF ArenaOK, IsHeaderTable
<1>2. b + HeaderSize + i \in 0 .. (a.end - 1)
  <2>1. HB_NEXT(a.blk, b) = a.end \/ HB_NEXT(a.blk, b) \in 0 .. (a.end - 1)
    BY <1>1 DEF Sound, Tiled, IsHeaderTable
  <2> QED
    BY <1>1, <2>1 DEF HB_NEXT, HeaderSize
<1>3. ASSUME NEW c \in DOMAIN a.blk, NEW j \in Nat, c # b, j < a.blk[c].size
      PROVE  c + HeaderSize + j # b + HeaderSize + i
  <2>1. CASE c < b
    <3>1. HB_NEXT(a.blk, c) <= b
      BY <1>1, <2>1 DEF Sound, Tiled
    <3> QED
      BY <1>1, <1>3, <3>1 DEF HB_NEXT, HeaderSize
  <2>2. CASE b < c
    <3>1. HB_NEXT(a.blk, b) <= c
      BY <1>1, <2>2 DEF Sound, Tiled
    <3> QED
      BY <1>1, <1>3, <3>1 DEF HB_NEXT, HeaderSize
  <2> QED
    BY <1>1, <1>3, <2>1, <2>2
<1> QED
  BY <1>2, <1>3

(* No header of a sound table lies in a payload, so the headers a call     *)
(* writes leave the payload bytes of the table it ends with alone.         *)
LEMMA HeadedKeeps ==
  ASSUME NEW m, NEW a0, NEW a, ArenaOK(a),
         NEW b \in DOMAIN a.blk, NEW i \in Nat, i < a.blk[b].size,
         b + HeaderSize + i \in DOMAIN m
  PROVE  Headed(m, a0, a)[b + HeaderSize + i] = m[b + HeaderSize + i]
<1> DEFINE j == b + HeaderSize + i
<1>1. /\ a.end # 0 /\ Sound(a.blk, a.end)
      /\ \A c \in DOMAIN a.blk : c \in Nat /\ a.blk[c].size \in Nat
  BY DEF ArenaOK, IsHeaderTable
<1>2. j \in 0 .. (a.end - 1)
  BY PayloadApart
<1>3. ASSUME NEW h \in DOMAIN a.blk PROVE j \notin h .. (h + HeaderSize - 1)
  <2>1. CASE h < b
    <3>1. HB_NEXT(a.blk, h) <= b
      BY <1>1, <2>1 DEF Sound, Tiled
    <3> QED
      BY <1>1, <3>1 DEF HB_NEXT, HeaderSize
  <2>2. CASE b < h
    <3>1. HB_NEXT(a.blk, b) <= h
      BY <1>1, <2>2 DEF Sound, Tiled
    <3> QED
      BY <1>1, <3>1 DEF HB_NEXT, HeaderSize
  <2>3. CASE b = h
    BY <1>1, <2>3 DEF HeaderSize
  <2> QED
    BY <1>1, <2>1, <2>2, <2>3
<1>4. j \notin WrittenBytes(a0.blk, a.blk)
  BY <1>3 DEF WrittenBytes
<1> QED
  BY <1>2, <1>4 DEF Headed

(* new is m with n bytes put at p: they are read back there, and elsewhere *)
(* nothing changes.                                                        *)
PutResult(m, new, p, n, bytes) ==
  /\ DOMAIN new = DOMAIN m
  /\ \A i \in 0 .. (n - 1) : p + i \in DOMAIN m => new[p + i] = bytes[i]
  /\ \A j \in DOMAIN m : (\A i \in 0 .. (n - 1) : j # p + i) => new[j] = m[j]

(* The bytes that are written can be read, and the others stay. *)
LEMMA PutReads ==
  ASSUME NEW m, DOMAIN m \subseteq Nat, NEW p \in Nat,
         NEW n \in Nat, NEW bytes, DOMAIN bytes = 0 .. (n - 1)
  PROVE  PutResult(m, Put(m, p, bytes), p, n, bytes)
<1>1. ASSUME NEW i \in 0 .. (n - 1), p + i \in DOMAIN m
      PROVE  Put(m, p, bytes)[p + i] = bytes[i]
  <2>1. (p + i) - p = i
    OBVIOUS
  <2> QED
    BY <1>1, <2>1 DEF Put
<1>2. ASSUME NEW j \in DOMAIN m, \A i \in 0 .. (n - 1) : j # p + i
      PROVE  Put(m, p, bytes)[j] = m[j]
  <2>1. j - p \notin 0 .. (n - 1)
    <3>1. j = p + (j - p)
      BY <1>2
    <3> QED
      BY <1>2, <3>1, Zenon
  <2> QED
    BY <2>1 DEF Put
<1> QED
  BY <1>1, <1>2 DEF Put, PutResult

(* What hot_arena_free does to the bytes m: the payloads of the other      *)
(* blocks in use stay.                                                     *)
FreedResult(m, a0, b, new) ==
  /\ DOMAIN new = 0 .. (a0.end - 1)
  /\ \A d \in UsedBlocks(a0.blk) \ {b} : \A i \in Nat :
       i < a0.blk[d].size => new[d + HeaderSize + i] = m[d + HeaderSize + i]

(* Freeing a block keeps the payloads of the others. *)
LEMMA FreedBytes ==
  ASSUME NEW old, ArenaOK(old), NEW b \in UsedBlocks(old.blk),
         NEW m0, DOMAIN m0 = 0 .. (old.end - 1),
         NEW new, ArenaOK(new), new.end = old.end,
         SameElsewhere(old.blk, new.blk, UsedBlocks(old.blk) \ {b})
  PROVE  FreedResult(m0, old, b,
                     Wiped(Headed(m0, old, new), b + HeaderSize, old.blk[b].size))
<1> DEFINE m3 == Headed(m0, old, new)
           size == old.blk[b].size
           m4 == Wiped(m3, b + HeaderSize, size)
<1>1. /\ ArenaOK(new) /\ new.end = old.end
      /\ SameElsewhere(old.blk, new.blk, UsedBlocks(old.blk) \ {b})
  OBVIOUS
<1>2. /\ b \in DOMAIN old.blk /\ b \in Nat /\ size \in Nat
      /\ UsedBlocks(old.blk) \subseteq DOMAIN old.blk
      /\ \A d \in UsedBlocks(old.blk) : d \in Nat /\ old.blk[d].size \in Nat
  BY DEF UsedBlocks, ArenaOK, IsHeaderTable
<1>3. DOMAIN m3 = 0 .. (old.end - 1)
  BY <1>1 DEF Headed
<1>4. /\ DOMAIN m4 = 0 .. (old.end - 1)
      /\ \A j \in DOMAIN m3 :
           ~(b + HeaderSize <= j /\ j < b + HeaderSize + size) => m4[j] = m3[j]
  BY <1>3, Zenon DEF Wiped
<1> HIDE DEF m3, m4, size
<1>5. ASSUME NEW d \in UsedBlocks(old.blk) \ {b}, NEW i \in Nat, i < old.blk[d].size
      PROVE  m4[d + HeaderSize + i] = m0[d + HeaderSize + i]
  <2> DEFINE j == d + HeaderSize + i
  <2>1. d \in DOMAIN new.blk /\ i < new.blk[d].size
    BY <1>1, <1>5 DEF SameElsewhere
  <2>2. /\ j \in 0 .. (old.end - 1)
        /\ \A l \in Nat : l < old.blk[b].size => b + HeaderSize + l # j
    BY <1>2, <1>5, PayloadApart
  <2>3. m3[j] = m0[j]
    <3>1. d + HeaderSize + i \in DOMAIN m0
      BY <2>2
    <3>2. Headed(m0, old, new)[d + HeaderSize + i] = m0[d + HeaderSize + i]
      <4>1. ArenaOK(new)
        OBVIOUS
      <4>2. d \in DOMAIN new.blk
        BY <2>1
      <4>3. i < new.blk[d].size
        BY <2>1
      <4> HIDE DEF j
      <4> QED
        BY ONLY <4>1, <4>2, <4>3, <3>1, HeadedKeeps, SMT
    <3> QED
      BY <3>2 DEF m3
  <2>4. ~(b + HeaderSize <= j /\ j < b + HeaderSize + size)
    <3> SUFFICES ASSUME b + HeaderSize <= j, j < b + HeaderSize + size PROVE FALSE
      OBVIOUS
    <3> DEFINE l == j - (b + HeaderSize)
    <3>1. j \in Nat
      BY <1>1, <2>2 DEF ArenaOK
    <3> HIDE DEF j
    <3>2. l \in Nat /\ l < size /\ b + HeaderSize + l = j
      BY <1>2, <3>1 DEF HeaderSize
    <3> QED
      BY <2>2, <3>2 DEF size
  <2>5. j \in DOMAIN m3
    BY <1>3, <2>2
  <2> QED
    BY <1>4, <2>3, <2>4, <2>5
<1> QED
  BY <1>4, <1>5 DEF FreedResult, m4, m3, size

-----------------------------------------------------------------------------
(* Pointers and blocks. *)

(* Arrays in the arena and the blocks in use U correspond one to one. *)
PtrOK(pf, U) ==
  /\ pf \in [Arrays -> Nat \cup {HEAP}]
  /\ \A c \in Arrays : pf[c] > 0 => pf[c] - HeaderSize \in U
  /\ \A y \in U : \E c \in Arrays : pf[c] = y + HeaderSize
  /\ \A c, d \in Arrays : pf[c] > 0 /\ pf[c] = pf[d] => c = d

(* An array without a block gets the block x. *)
LEMMA PtrAdd ==
  ASSUME NEW pf, NEW U \in SUBSET Nat, PtrOK(pf, U), NEW a \in Arrays, ~(pf[a] > 0),
         NEW x \in Nat, x \notin U
  PROVE  PtrOK([pf EXCEPT ![a] = x + HeaderSize], U \cup {x})
<1> DEFINE new == [pf EXCEPT ![a] = x + HeaderSize]
<1>1. /\ new \in [Arrays -> Nat \cup {HEAP}]
      /\ new[a] = x + HeaderSize
      /\ \A c \in Arrays \ {a} : new[c] = pf[c]
      /\ \A c \in Arrays : pf[c] \in Int
      /\ (x + HeaderSize) - HeaderSize = x
  BY DEF PtrOK, HeaderSize, HEAP
<1> HIDE DEF new
<1>2. \A c \in Arrays : new[c] > 0 => new[c] - HeaderSize \in U \cup {x}
  BY <1>1 DEF PtrOK
<1>3. ASSUME NEW y \in U \cup {x} PROVE \E c \in Arrays : new[c] = y + HeaderSize
  <2>1. CASE y = x
    BY <1>1, <2>1
  <2>2. CASE y # x
    <3>1. PICK c \in Arrays : pf[c] = y + HeaderSize
      BY <2>2 DEF PtrOK
    <3>2. c # a
      BY <2>2, <3>1 DEF HeaderSize
    <3> QED
      BY <1>1, <3>1, <3>2
  <2> QED
    BY <2>1, <2>2
<1>4. ASSUME NEW c \in Arrays, NEW d \in Arrays, new[c] > 0, new[c] = new[d]
      PROVE  c = d
  <2>1. \A e \in Arrays \ {a} : pf[e] # x + HeaderSize
    BY <1>1 DEF PtrOK, HeaderSize
  <2> QED
    BY <1>1, <1>4, <2>1 DEF PtrOK
<1> QED
  BY <1>1, <1>2, <1>3, <1>4 DEF PtrOK, new

(* An array leaves the block b, which is freed. *)
LEMMA PtrDrop ==
  ASSUME NEW pf, NEW U \in SUBSET Nat, PtrOK(pf, U), NEW a \in Arrays,
         NEW b \in U, pf[a] = b + HeaderSize, NEW v \in {HEAP, NULL}
  PROVE  PtrOK([pf EXCEPT ![a] = v], U \ {b})
<1> DEFINE new == [pf EXCEPT ![a] = v]
<1>1. /\ new \in [Arrays -> Nat \cup {HEAP}]
      /\ new[a] = v /\ ~(v > 0) /\ b \in Nat /\ pf[a] > 0
      /\ \A c \in Arrays \ {a} : new[c] = pf[c]
      /\ \A c \in Arrays : pf[c] \in Int
  BY DEF PtrOK, HeaderSize, HEAP, NULL
<1> HIDE DEF new
<1>2. ASSUME NEW c \in Arrays, new[c] > 0 PROVE new[c] - HeaderSize \in U \ {b}
  <2>1. c # a /\ new[c] = pf[c]
    BY <1>1, <1>2
  <2>2. pf[c] # b + HeaderSize
    BY <1>1, <2>1 DEF PtrOK
  <2> QED
    BY <1>1, <1>2, <2>1, <2>2 DEF PtrOK, HeaderSize
<1>3. \A y \in U \ {b} : \E c \in Arrays : new[c] = y + HeaderSize
  <2>1. \A y \in U \ {b} : y + HeaderSize # b + HeaderSize
    BY <1>1 DEF HeaderSize
  <2> QED
    BY <1>1, <2>1 DEF PtrOK
<1>4. \A c, d \in Arrays : new[c] > 0 /\ new[c] = new[d] => c = d
  BY <1>1 DEF PtrOK
<1> QED
  BY <1>1, <1>2, <1>3, <1>4 DEF PtrOK, new

(* An array outside the arena stays outside. *)
LEMMA PtrOff ==
  ASSUME NEW pf, NEW U \in SUBSET Nat, PtrOK(pf, U), NEW a \in Arrays, ~(pf[a] > 0),
         NEW v \in {HEAP, NULL}
  PROVE  PtrOK([pf EXCEPT ![a] = v], U)
<1> DEFINE new == [pf EXCEPT ![a] = v]
<1>1. /\ new \in [Arrays -> Nat \cup {HEAP}]
      /\ new[a] = v /\ ~(v > 0)
      /\ \A c \in Arrays \ {a} : new[c] = pf[c]
      /\ \A y \in U : y + HeaderSize > 0
  BY DEF PtrOK, HeaderSize, HEAP, NULL
<1> HIDE DEF new
<1>2. \A c \in Arrays : new[c] > 0 => new[c] - HeaderSize \in U
  BY <1>1 DEF PtrOK
<1>3. \A y \in U : \E c \in Arrays : new[c] = y + HeaderSize
  BY <1>1 DEF PtrOK
<1>4. \A c, d \in Arrays : new[c] > 0 /\ new[c] = new[d] => c = d
  BY <1>1 DEF PtrOK
<1> QED
  BY <1>1, <1>2, <1>3, <1>4 DEF PtrOK, new

-----------------------------------------------------------------------------
(* What holds of one array: its data is within what it asked for, and      *)
(* where it lives there is room for it.                                    *)
ArrayOK(c) ==
  /\ live[c] <= len[c]
  /\ ptr[c] = NULL => len[c] = 0
  /\ ptr[c] = HEAP => DOMAIN heap[c] = 0 .. (len[c] - 1)
  /\ ptr[c] > 0 => len[c] <= arena.blk[ptr[c] - HeaderSize].size

(* The arena is mapped exactly while it has memory, it is mapped at most   *)
(* once, and a release ends that.                                          *)
MappedOK ==
  /\ mapped \in MapBytes \cup {0} /\ tried \in BOOLEAN /\ released \in BOOLEAN
  /\ mapped = 0 <=> arena.end = 0
  /\ released => tried
  /\ ~tried => mapped = 0

(* The inductive invariant. *)
Inv ==
  /\ ArenaOK(arena)
  /\ MappedOK
  /\ PtrOK(ptr, UsedBlocks(arena.blk))
  /\ len \in [Arrays -> Nat] /\ live \in [Arrays -> Nat]
  /\ heap = [c \in Arrays |-> heap[c]]
  /\ DOMAIN mem = 0 .. (arena.end - 1)
  /\ \A c \in Arrays : ArrayOK(c)

(* The block under an array in the arena, and its room. *)
LEMMA InvBlock ==
  ASSUME Inv, NEW c \in Arrays, ptr[c] > 0
  PROVE  \E b \in UsedBlocks(arena.blk) :
           /\ ptr[c] = b + HeaderSize /\ ptr[c] - HeaderSize = b
           /\ b \in Nat /\ b \in DOMAIN arena.blk
           /\ arena.blk[b].size \in Nat /\ len[c] <= arena.blk[b].size
           /\ InArena(c)
<1> DEFINE b == ptr[c] - HeaderSize
<1>1. b \in UsedBlocks(arena.blk) /\ ptr[c] \in Int
  BY DEF Inv, PtrOK, HEAP
<1>2. /\ b \in DOMAIN arena.blk /\ b \in Nat /\ arena.blk[b].size \in Nat
      /\ arena.end \in Nat /\ arena.end # 0
  BY <1>1 DEF UsedBlocks, Inv, ArenaOK, IsHeaderTable
<1>3. ptr[c] = b + HeaderSize
  BY <1>1 DEF HeaderSize
<1>4. len[c] <= arena.blk[b].size
  BY DEF Inv, ArrayOK
<1>5. 8 <= arena.blk[b].size
  BY <1>2 DEF Inv, ArenaOK, Sound, Aligned
<1>6. ptr[c] \in 0 .. (arena.end - 1)
  <2>1. ArenaOK(arena) /\ 0 \in Nat /\ 0 < arena.blk[b].size
    BY <1>2, <1>5 DEF Inv
  <2> HIDE DEF b
  <2>2. b + HeaderSize + 0 \in 0 .. (arena.end - 1)
    BY <1>2, <2>1, PayloadApart
  <2> QED
    BY <1>2, <1>3, <2>2 DEF HeaderSize
<1>7. InArena(c)
  BY <1>2, <1>3, <1>6 DEF InArena, hot_arena_contains, NULL, HeaderSize
<1> QED
  BY <1>1, <1>2, <1>3, <1>4, <1>7

(* The test of tcc_hot_realloc tells the arrays in the arena. *)
LEMMA InvInArena ==
  ASSUME Inv, NEW c \in Arrays
  PROVE  InArena(c) <=> ptr[c] > 0
<1>1. ptr[c] \in Nat \cup {-1}
  BY DEF Inv, PtrOK, HEAP
<1>2. InArena(c) => ptr[c] > 0
  BY <1>1 DEF InArena, hot_arena_contains, NULL
<1> QED
  BY <1>2, InvBlock

-----------------------------------------------------------------------------
(* Steps on one array. *)

(* The step leaves the array c where it is, with its room and its bytes. *)
KeptArray(c) ==
  /\ ptr'[c] = ptr[c] /\ len'[c] = len[c] /\ live'[c] = live[c]
  /\ heap'[c] = heap[c]
  /\ ptr[c] > 0 =>
       /\ arena'.blk[ptr[c] - HeaderSize].size = arena.blk[ptr[c] - HeaderSize].size
       /\ \A i \in 0 .. (live[c] - 1) : mem'[ptr[c] + i] = mem[ptr[c] + i]

Kept(a) == \A c \in Arrays \ {a} : KeptArray(c)

(* The data of a becomes f and no other data changes. *)
Becomes(a, f) == \A c \in Arrays : Data(c)' = IF c = a THEN f ELSE Data(c)

(* The data an array keeps when it is cut to n bytes, if it has as many. *)
CutTo(a, n) == [i \in 0 .. (Least(live[a], n) - 1) |-> Data(a)[i]]

(* An array that keeps its place, its room and its bytes keeps its data. *)
LEMMA KeptOthers ==
  ASSUME Inv, NEW c \in Arrays, KeptArray(c)
  PROVE  ArrayOK(c)' /\ Data(c)' = Data(c)
<1>1. ArrayOK(c) /\ live[c] \in Nat /\ len[c] \in Nat /\ ptr[c] \in Nat \cup {-1}
  BY DEF Inv, PtrOK, HEAP
<1>2. ArrayOK(c)'
  BY <1>1 DEF KeptArray, ArrayOK
<1>3. ASSUME NEW i \in 0 .. (live[c] - 1)
      PROVE  (IF ptr'[c] = HEAP THEN heap'[c][i] ELSE mem'[ptr'[c] + i])
               = IF ptr[c] = HEAP THEN heap[c][i] ELSE mem[ptr[c] + i]
  <2>1. ptr[c] # NULL
    BY <1>1 DEF ArrayOK
  <2> QED
    BY <1>1, <2>1 DEF KeptArray, NULL, HEAP
<1>4. live'[c] = live[c]
  BY DEF KeptArray
<1> QED
  BY <1>2, <1>3, <1>4 DEF Data

(* The headers of a call that leaves the blocks S alone leave their        *)
(* payload bytes alone.                                                    *)
LEMMA Survives ==
  ASSUME Inv, NEW a1, ArenaOK(a1), a1.end = arena.end,
         NEW S, SameElsewhere(arena.blk, a1.blk, S),
         NEW b \in S, NEW i \in Nat, i < arena.blk[b].size
  PROVE  Headed(mem, arena, a1)[b + HeaderSize + i] = mem[b + HeaderSize + i]
<1>1. b \in DOMAIN a1.blk /\ i < a1.blk[b].size
  BY DEF SameElsewhere
<1>2. b + HeaderSize + i \in 0 .. (a1.end - 1)
  BY <1>1, PayloadApart
<1>3. b + HeaderSize + i \in DOMAIN mem
  BY <1>2 DEF Inv
<1> QED
  BY <1>1, <1>3, HeadedKeeps

(* The pieces of the invariant after a step. *)
LEMMA InvNext ==
  ASSUME Inv, NEW a \in Arrays, Kept(a),
         ArenaOK(arena'), MappedOK', PtrOK(ptr', UsedBlocks(arena'.blk)),
         len' \in [Arrays -> Nat], live' \in [Arrays -> Nat],
         heap' = [c \in Arrays |-> heap'[c]],
         DOMAIN mem' = 0 .. (arena'.end - 1), ArrayOK(a)'
  PROVE  Inv' /\ Becomes(a, Data(a)')
<1>1. \A c \in Arrays \ {a} : ArrayOK(c)' /\ Data(c)' = Data(c)
  BY KeptOthers DEF Kept
<1>2. \A c \in Arrays : ArrayOK(c)'
  BY <1>1
<1>3. Becomes(a, Data(a)')
  BY <1>1 DEF Becomes
<1> QED
  BY <1>2, <1>3 DEF Inv

(* What Place says, variable by variable. *)
LEMMA Placed ==
  ASSUME Inv, NEW a \in Arrays, NEW p, NEW n \in Nat, NEW count \in Nat, NEW bytes,
         Place(a, p, n, count, bytes)
  PROVE  /\ len' \in [Arrays -> Nat] /\ live' \in [Arrays -> Nat]
         /\ heap' = [c \in Arrays |-> heap'[c]]
         /\ ptr' = [ptr EXCEPT ![a] = IF p = NULL THEN HEAP ELSE p]
         /\ ptr'[a] = IF p = NULL THEN HEAP ELSE p
         /\ len'[a] = n /\ live'[a] = count
         /\ heap'[a] = IF p = NULL THEN bytes ELSE NoBytes
         /\ \A c \in Arrays \ {a} :
              /\ ptr'[c] = ptr[c] /\ len'[c] = len[c] /\ live'[c] = live[c]
              /\ heap'[c] = heap[c]
<1>1. /\ DOMAIN ptr = Arrays /\ DOMAIN heap = Arrays
      /\ len \in [Arrays -> Nat] /\ live \in [Arrays -> Nat]
      /\ heap = [c \in Arrays |-> heap[c]]
  BY DEF Inv, PtrOK
<1> QED
  BY <1>1 DEF Place

(* The arena an allocation starts from: the one there is, or a new one. *)
LEMMA Granted ==
  ASSUME Contract, Inv, NEW grant \in Grants
  PROVE  LET a0 == IF grant = 0 THEN arena ELSE hot_arena_init(grant)
         IN  /\ ArenaOK(a0)
             /\ UsedBlocks(a0.blk) = UsedBlocks(arena.blk)
             /\ grant # 0 => /\ a0.end # 0 /\ ~tried /\ UsedBlocks(arena.blk) = {}
                             /\ grant \in MapBytes
<1>1. CASE grant = 0
  BY <1>1 DEF Inv
<1>2. CASE grant # 0
  <2>1. grant \in MapBytes /\ ~tried /\ grant \in Nat /\ grant >= 16
    BY <1>2, HotSizesAssumption DEF Grants
  <2>2. arena.end = 0
    BY <2>1 DEF Inv, MappedOK
  <2>3. UsedBlocks(arena.blk) = {}
    BY <2>2 DEF Inv, ArenaOK, IsHeaderTable, UsedBlocks
  <2>4. /\ ArenaOK(hot_arena_init(grant)) /\ hot_arena_init(grant).end # 0
        /\ UsedBlocks(hot_arena_init(grant).blk) = {}
    BY <2>1, InitBy, SMTT(40)
  <2> QED
    BY <1>2, <2>1, <2>3, <2>4
<1> QED
  BY <1>1, <1>2

(* A fresh allocation of n bytes for an array outside the arena, as        *)
(* tcc_hot_mallocz, tcc_hot_realloc(NULL) and tcc_hot_settle make it.      *)
LEMMA NewPlace ==
  ASSUME Contract, Inv, NEW a \in Arrays, ~(ptr[a] > 0),
         NEW n \in Nat, NEW count \in 0 .. n,
         NEW bytes, DOMAIN bytes = 0 .. (n - 1),
         NEW grant \in Grants, Tried(grant), UNCHANGED released,
         arena' = hot_alloc(grant, n).arena,
         mem' = IF hot_alloc(grant, n).p = NULL
                  THEN Headed(mem, arena, arena')
                  ELSE Put(Headed(mem, arena, arena'), hot_alloc(grant, n).p, bytes),
         Place(a, hot_alloc(grant, n).p, n, count, bytes)
  PROVE  Inv' /\ Becomes(a, [i \in 0 .. (count - 1) |-> bytes[i]])
<1> DEFINE a0 == IF grant = 0 THEN arena ELSE hot_arena_init(grant)
           r == hot_alloc(grant, n)
           m == Headed(mem, arena, arena')
           U == UsedBlocks(arena.blk)
<1>1. /\ ArenaOK(a0) /\ UsedBlocks(a0.blk) = U
      /\ grant # 0 => /\ a0.end # 0 /\ ~tried /\ U = {} /\ grant \in MapBytes
      /\ grant = 0 => a0 = arena
  BY Granted
<1>2. AllocResult(a0, r, n)
  BY <1>1, AllocBy, SMTT(40) DEF hot_alloc
<1>3. ArenaOK(arena') /\ arena'.end = a0.end
  BY <1>2 DEF AllocResult
<1> HIDE DEF a0, r
<1>4. MappedOK'
  <2>1. tried' = TRUE /\ mapped' = (IF grant = 0 THEN mapped ELSE grant)
    BY DEF Tried
  <2>2. \A x \in MapBytes : x # 0
    BY HotSizesAssumption
  <2>3. MappedOK
    BY DEF Inv
  <2>4. mapped' \in MapBytes \cup {0} /\ (mapped' = 0 <=> arena'.end = 0)
    BY <1>1, <1>3, <2>1, <2>2, <2>3 DEF MappedOK
  <2>5. released' = released /\ released \in BOOLEAN
    BY <2>3 DEF MappedOK
  <2> QED
    BY <2>1, <2>4, <2>5 DEF MappedOK
<1>5. /\ len' \in [Arrays -> Nat] /\ live' \in [Arrays -> Nat]
      /\ heap' = [c \in Arrays |-> heap'[c]]
      /\ ptr' = [ptr EXCEPT ![a] = IF r.p = NULL THEN HEAP ELSE r.p]
      /\ ptr'[a] = (IF r.p = NULL THEN HEAP ELSE r.p)
      /\ len'[a] = n /\ live'[a] = count
      /\ heap'[a] = (IF r.p = NULL THEN bytes ELSE NoBytes)
      /\ \A c \in Arrays \ {a} :
           /\ ptr'[c] = ptr[c] /\ len'[c] = len[c] /\ live'[c] = live[c]
           /\ heap'[c] = heap[c]
  <2>1. count \in Nat
    OBVIOUS
  <2> QED
    BY <2>1, Placed, Zenon DEF r
<1>6. DOMAIN m = 0 .. (arena'.end - 1)
  BY DEF Headed
<1>7. U \in SUBSET Nat /\ PtrOK(ptr, U)
  BY DEF Inv, ArenaOK, IsHeaderTable, UsedBlocks
<1>8. SameElsewhere(arena.blk, arena'.blk, U)
  <2>1. CASE U = {}
    BY <2>1 DEF SameElsewhere
  <2>2. CASE grant = 0
    <3>1. a0 = arena
      BY <1>1, <2>2, SMTT(40)
    <3>2. arena'.blk = arena.blk \/ SameElsewhere(arena.blk, arena'.blk, U)
      BY <1>2, <3>1, SMTT(40) DEF AllocResult, r
    <3> QED
      BY <3>2 DEF SameElsewhere, UsedBlocks
  <2> QED
    BY <1>1, <2>1, <2>2
<1>9. ASSUME NEW c \in Arrays, ptr[c] > 0, NEW i \in 0 .. (live[c] - 1)
      PROVE  \E b \in U : /\ ptr[c] = b + HeaderSize /\ ptr[c] - HeaderSize = b
                          /\ arena'.blk[b].size = arena.blk[b].size
                          /\ b \in DOMAIN arena'.blk
                          /\ i \in Nat /\ i < arena'.blk[b].size
                          /\ m[ptr[c] + i] = mem[ptr[c] + i]
  <2>1. PICK b \in U : /\ ptr[c] = b + HeaderSize /\ ptr[c] - HeaderSize = b
                       /\ arena.blk[b].size \in Nat /\ len[c] <= arena.blk[b].size
    BY <1>9, InvBlock
  <2>2. i \in Nat /\ i < arena.blk[b].size
    <3>1. live[c] \in Nat /\ len[c] \in Nat /\ live[c] <= len[c]
      BY DEF Inv, ArrayOK
    <3> QED
      BY <2>1, <3>1
  <2>3. arena'.end = arena.end
    BY <1>1, <1>3, SMTT(40)
  <2>4. m[b + HeaderSize + i] = mem[b + HeaderSize + i]
    BY <1>3, <1>8, <2>2, <2>3, Survives
  <2> QED
    BY <1>8, <2>1, <2>2, <2>4, SMTT(40) DEF SameElsewhere
<1> HIDE DEF m
<1>10. CASE r.p = NULL
  <2>1. UsedBlocks(arena'.blk) = U
    <3>1. arena'.blk = a0.blk
      <4>1. \A b \in DOMAIN arena'.blk : b + HeaderSize # NULL
        BY <1>3, PayloadNotNull, Zenon
      <4> QED
        BY <1>2, <1>10, <4>1, SMTT(40) DEF AllocResult, r
    <3> QED
      BY <1>1, <3>1, SMTT(40)
  <2>2. mem' = m
    BY <1>10 DEF r, m
  <2>3. Kept(a)
    BY <1>5, <1>8, <1>9, <2>2, InvBlock DEF Kept, KeptArray, SameElsewhere
  <2>4. ptr' = [ptr EXCEPT ![a] = HEAP]
    BY <1>5, <1>10
  <2>5. PtrOK(ptr', UsedBlocks(arena'.blk))
    BY <1>7, <2>1, <2>4, PtrOff, Zenon
  <2>6. ArrayOK(a)'
    BY <1>5, <1>10 DEF ArrayOK, HEAP, NULL
  <2>7. Inv' /\ Becomes(a, Data(a)')
    BY <1>3, <1>4, <1>5, <1>6, <2>2, <2>3, <2>5, <2>6, InvNext, ZenonT(40)
  <2>8. Data(a)' = [i \in 0 .. (count - 1) |-> bytes[i]]
    BY <1>5, <1>10 DEF Data
  <2> QED
    BY <2>7, <2>8
<1>11. ASSUME NEW b \in DOMAIN arena'.blk,
              r.p = b + HeaderSize, b \notin U,
              UsedBlocks(arena'.blk) = U \cup {b},
              n <= arena'.blk[b].size
       PROVE  Inv' /\ Becomes(a, [i \in 0 .. (count - 1) |-> bytes[i]])
  <2>1. b \in Nat /\ r.p # NULL /\ r.p > 0 /\ r.p \in Nat /\ r.p - HeaderSize = b
    <3>1. b \in Nat
      BY <1>3 DEF ArenaOK, IsHeaderTable
    <3> QED
      BY <1>11, <3>1 DEF NULL, HeaderSize
  <2>2. mem' = Put(m, r.p, bytes)
    BY <2>1 DEF r, m
  <2>3. ptr' = [ptr EXCEPT ![a] = b + HeaderSize] /\ ptr'[a] = b + HeaderSize
    BY <1>5, <1>11, <2>1
  <2>4. PtrOK(ptr', UsedBlocks(arena'.blk))
    <3>1. PtrOK([ptr EXCEPT ![a] = b + HeaderSize], U \cup {b})
      BY <1>7, <1>11, <2>1, PtrAdd
    <3> QED
      BY <1>11, <2>3, <3>1
  <2>5. /\ DOMAIN mem' = DOMAIN m
        /\ \A i \in 0 .. (n - 1) : r.p + i \in DOMAIN m => mem'[r.p + i] = bytes[i]
        /\ \A j \in DOMAIN m : (\A i \in 0 .. (n - 1) : j # r.p + i) => mem'[j] = m[j]
    <3>1. DOMAIN m \subseteq Nat
      BY <1>3, <1>6 DEF ArenaOK
    <3>2. PutResult(m, Put(m, r.p, bytes), r.p, n, bytes)
      BY <2>1, <3>1, PutReads, SMTT(40)
    <3> QED
      BY <2>2, <3>2, SMTT(40) DEF PutResult
  <2>6. \A i \in 0 .. (n - 1) : i \in Nat /\ i < arena'.blk[b].size
    BY <1>3, <1>11 DEF ArenaOK, IsHeaderTable
  <2>7. Kept(a)
    <3>1. ASSUME NEW c \in Arrays \ {a}, ptr[c] > 0, NEW i \in 0 .. (live[c] - 1)
          PROVE  mem'[ptr[c] + i] = mem[ptr[c] + i]
      <4>1. PICK d \in U : /\ ptr[c] = d + HeaderSize
                           /\ d \in DOMAIN arena'.blk
                           /\ i \in Nat /\ i < arena'.blk[d].size
                           /\ m[ptr[c] + i] = mem[ptr[c] + i]
        BY <1>9, <3>1, Zenon
      <4>2. d # b
        BY <1>11
      <4>3. /\ d + HeaderSize + i \in 0 .. (arena'.end - 1)
            /\ \A j \in 0 .. (n - 1) : b + HeaderSize + j # d + HeaderSize + i
        BY <1>3, <2>6, <4>1, <4>2, PayloadApart, SMTT(40)
      <4> QED
        BY <1>6, <1>11, <2>5, <4>1, <4>3, SMTT(40)
    <3> QED
      BY <1>5, <1>8, <3>1, InvBlock, SMTT(40) DEF Kept, KeptArray, SameElsewhere
  <2>8. ArrayOK(a)'
    BY <1>5, <1>11, <2>1, <2>3 DEF ArrayOK, HEAP, NULL, HeaderSize
  <2>9. Inv' /\ Becomes(a, Data(a)')
    BY <1>3, <1>4, <1>5, <1>6, <2>4, <2>5, <2>7, <2>8, InvNext, ZenonT(40)
  <2>10. ASSUME NEW i \in 0 .. (count - 1) PROVE mem'[ptr'[a] + i] = bytes[i]
    <3>1. i \in 0 .. (n - 1)
      OBVIOUS
    <3>2. b + HeaderSize + i \in DOMAIN m
      BY <1>3, <1>6, <2>6, <3>1, PayloadApart, Zenon
    <3> QED
      BY <1>11, <2>3, <2>5, <3>1, <3>2, ZenonT(40)
  <2>11. ptr'[a] # HEAP
    BY <2>1, <2>3 DEF HEAP, HeaderSize
  <2>12. Data(a)' = [i \in 0 .. (count - 1) |-> bytes[i]]
    BY <1>5, <2>10, <2>11 DEF Data
  <2> QED
    BY <2>9, <2>12
<1> QED
  BY <1>1, <1>2, <1>10, <1>11, Zenon DEF AllocResult, r

(* Reading the data of an array in the arena from its bytes. *)
LEMMA CutIs ==
  ASSUME Inv, NEW a \in Arrays, ptr[a] > 0, NEW n \in Nat, NEW f,
         f = [i \in 0 .. (Least(live[a], n) - 1) |-> mem[ptr[a] + i]]
  PROVE  f = CutTo(a, n)
<1>1. live[a] \in Nat /\ ptr[a] # HEAP
  BY DEF Inv, HEAP
<1>2. \A i \in 0 .. (Least(live[a], n) - 1) : i \in 0 .. (live[a] - 1)
  BY <1>1 DEF Least
<1>3. \A i \in 0 .. (Least(live[a], n) - 1) : Data(a)[i] = mem[ptr[a] + i]
  BY <1>1, <1>2 DEF Data
<1> QED
  BY <1>3 DEF CutTo

(* tcc_hot_realloc and tcc_hot_settle in place: what fits stays. *)
LEMMA ResizeStep ==
  ASSUME Contract, Inv, NEW a \in Arrays, NEW n \in Nat, ResizeInPlace(a, n), UNCHANGED released
  PROVE  Inv' /\ Becomes(a, CutTo(a, n))
<1> DEFINE U == UsedBlocks(arena.blk)
           m == Headed(mem, arena, arena')
<1>1. ptr[a] > 0
  BY InvInArena DEF ResizeInPlace
<1>2. PICK b \in U : /\ ptr[a] = b + HeaderSize /\ ptr[a] - HeaderSize = b
                     /\ b \in Nat /\ b \in DOMAIN arena.blk
                     /\ arena.blk[b].size \in Nat /\ len[a] <= arena.blk[b].size
  BY <1>1, InvBlock
<1>3. /\ ArenaOK(arena') /\ arena'.end = arena.end
      /\ UsedBlocks(arena'.blk) = U
      /\ SameElsewhere(arena.blk, arena'.blk, U \ {b})
      /\ n <= arena'.blk[b].size
  <2>1. /\ ArenaOK(arena) /\ CanResize(arena, b + HeaderSize, n)
        /\ arena' = hot_arena_resize(arena, b + HeaderSize, n)
    BY <1>2 DEF Inv, ResizeInPlace
  <2> QED
    BY <2>1, ResizeBy, Zenon
<1>4. /\ live' = [live EXCEPT ![a] = Least(live[a], n)]
      /\ len' = [len EXCEPT ![a] = n]
      /\ mapped' = mapped /\ tried' = tried /\ heap' = heap /\ ptr' = ptr
      /\ mem' = Wiped(m, ptr[a] + n, live[a] - n)
  BY DEF ResizeInPlace
<1>5. /\ len \in [Arrays -> Nat] /\ live \in [Arrays -> Nat] /\ live[a] <= len[a]
      /\ Least(live[a], n) \in Nat
      /\ Least(live[a], n) <= n /\ Least(live[a], n) <= live[a]
  BY SMTT(40) DEF Inv, ArrayOK, Least
<1>6. /\ DOMAIN m = 0 .. (arena.end - 1) /\ DOMAIN mem' = DOMAIN m
      /\ \A j \in DOMAIN m :
           ~(ptr[a] + n <= j /\ j < ptr[a] + n + (live[a] - n)) => mem'[j] = m[j]
  BY <1>3, <1>4, ZenonT(40) DEF Headed, Wiped
<1> HIDE DEF m, U
<1>7. ASSUME NEW c \in Arrays \ {a}, ptr[c] > 0, NEW i \in 0 .. (live[c] - 1)
      PROVE  mem'[ptr[c] + i] = mem[ptr[c] + i]
  <2>1. PICK d \in U : /\ ptr[c] = d + HeaderSize /\ d \in Nat
                       /\ d \in DOMAIN arena.blk
                       /\ arena.blk[d].size \in Nat /\ len[c] <= arena.blk[d].size
    BY <1>7, InvBlock DEF U
  <2>2. d # b
    BY <1>1, <1>2, <2>1, SMTT(40) DEF Inv, PtrOK
  <2>3. i \in Nat /\ i < arena.blk[d].size
    <3>1. live[c] \in Nat /\ len[c] \in Nat /\ live[c] <= len[c]
      BY DEF Inv, ArrayOK
    <3> QED
      BY <2>1, <3>1
  <2> DEFINE j == d + HeaderSize + i
  <2>4. /\ j \in 0 .. (arena.end - 1)
        /\ \A k \in Nat : k < arena.blk[b].size => b + HeaderSize + k # j
    BY <1>2, <2>1, <2>2, <2>3, PayloadApart DEF Inv
  <2>5. ~(ptr[a] + n <= j /\ j < ptr[a] + n + (live[a] - n))
    <3> SUFFICES ASSUME ptr[a] + n <= j, j < ptr[a] + n + (live[a] - n) PROVE FALSE
      OBVIOUS
    <3> DEFINE k == j - (b + HeaderSize)
    <3>1. j \in Nat /\ live[a] \in Nat /\ len[a] \in Nat
      BY <1>5, <2>4
    <3> HIDE DEF j
    <3>2. k \in Nat /\ k < arena.blk[b].size /\ b + HeaderSize + k = j
      BY <1>2, <1>5, <3>1, SMTT(40) DEF HeaderSize
    <3> QED
      BY <2>4, <3>2
  <2>6. m[j] = mem[j]
    <3>1. d \in U \ {b}
      BY <2>2
    <3> QED
      BY <1>3, <2>3, <3>1, Survives DEF m
  <2> QED
    BY <1>6, <2>1, <2>4, <2>5, <2>6, SMTT(40)
<1>8. Kept(a)
  <2>1. ASSUME NEW c \in Arrays \ {a}, ptr[c] > 0
        PROVE  arena'.blk[ptr[c] - HeaderSize].size = arena.blk[ptr[c] - HeaderSize].size
    <3>1. PICK d \in U : ptr[c] = d + HeaderSize /\ ptr[c] - HeaderSize = d
      BY <2>1, InvBlock DEF U
    <3>2. d # b
      BY <1>1, <1>2, <3>1 DEF Inv, PtrOK
    <3> QED
      BY <1>3, <3>1, <3>2 DEF SameElsewhere
  <2> QED
    BY <1>4, <1>5, <1>7, <2>1 DEF Kept, KeptArray
<1>9. b \in DOMAIN arena'.blk /\ arena'.blk[b].size \in Nat
  BY <1>3, SMTT(40) DEF ArenaOK, UsedBlocks, IsHeaderTable
<1>10. ASSUME NEW i \in 0 .. (Least(live[a], n) - 1)
       PROVE  mem'[ptr[a] + i] = mem[ptr[a] + i]
  <2>1. i \in Nat /\ i < arena'.blk[b].size /\ i < n
    BY <1>3, <1>5, <1>9
  <2>2. b + HeaderSize + i \in 0 .. (arena'.end - 1)
    BY <1>3, <1>9, <2>1, PayloadApart
  <2>3. b + HeaderSize + i \in DOMAIN mem
    BY <1>3, <2>2 DEF Inv
  <2>4. m[b + HeaderSize + i] = mem[b + HeaderSize + i]
    BY <1>3, <1>9, <2>1, <2>3, HeadedKeeps DEF m
  <2>5. b + HeaderSize + i \in DOMAIN m /\ ~(ptr[a] + n <= b + HeaderSize + i)
    BY <1>2, <1>3, <1>6, <2>1, <2>2 DEF HeaderSize
  <2> QED
    BY <1>2, <1>6, <2>4, <2>5, SMTT(40)
<1>11. /\ MappedOK' /\ PtrOK(ptr', UsedBlocks(arena'.blk))
       /\ len' \in [Arrays -> Nat] /\ live' \in [Arrays -> Nat]
       /\ heap' = [c \in Arrays |-> heap'[c]]
       /\ len'[a] = n /\ live'[a] = Least(live[a], n)
  <2>1. MappedOK /\ PtrOK(ptr, U) /\ heap = [c \in Arrays |-> heap[c]]
    BY DEF Inv, U
  <2>2. MappedOK'
    BY <1>3, <1>4, <2>1 DEF MappedOK
  <2> QED
    BY <1>3, <1>4, <1>5, <2>1, <2>2
<1>12. ArrayOK(a)'
  BY <1>1, <1>2, <1>3, <1>4, <1>5, <1>11 DEF ArrayOK, HEAP, NULL, HeaderSize
<1>13. Inv' /\ Becomes(a, Data(a)')
  BY <1>3, <1>6, <1>8, <1>11, <1>12, InvNext, SMTT(40)
<1>14. Data(a)' = CutTo(a, n)
  <2>1. ptr[a] # HEAP
    BY <1>1 DEF HEAP
  <2>2. Data(a)' = [i \in 0 .. (Least(live[a], n) - 1) |-> mem'[ptr[a] + i]]
    BY <1>4, <1>11, <2>1, SMTT(40) DEF Data
  <2>3. Data(a)' = [i \in 0 .. (Least(live[a], n) - 1) |-> mem[ptr[a] + i]]
    BY <1>10, <2>2
  <2> QED
    BY <1>1, <2>3, CutIs
<1> QED
  BY <1>13, <1>14

(* tcc_hot_realloc and tcc_hot_settle out of place: the data is copied out *)
(* of the old block before that is freed.                                  *)
LEMMA MoveStep ==
  ASSUME Contract, Inv, NEW a \in Arrays, InArena(a), NEW n \in Nat, NEW k \in Nat,
         Least(live[a], n) <= k, MoveFromArena(a, k, n), UNCHANGED released
  PROVE  Inv' /\ Becomes(a, CutTo(a, n))
<1> DEFINE U == UsedBlocks(arena.blk)
           r == hot_alloc(0, n)
           V == UsedBlocks(r.arena.blk)
           size == hot_arena_block_size(arena, ptr[a])
           m1 == Headed(mem, arena, r.arena)
           bytes == Copied([i \in 0 .. (size - 1) |-> m1[ptr[a] + i]], k, n)
           m2 == IF r.p = NULL THEN m1 ELSE Put(m1, r.p, bytes)
           count == Least(live[a], n)
<1>1. ptr[a] > 0
  BY InvInArena
<1>2. PICK b \in U : /\ ptr[a] = b + HeaderSize /\ ptr[a] - HeaderSize = b
                     /\ b \in Nat /\ b \in DOMAIN arena.blk
                     /\ arena.blk[b].size \in Nat /\ len[a] <= arena.blk[b].size
  BY <1>1, InvBlock
<1>3. size = arena.blk[b].size
  BY <1>2, SMTT(40) DEF hot_arena_block_size
<1>4. /\ arena' = hot_arena_free(r.arena, b + HeaderSize)
      /\ mem' = Wiped(Headed(m2, r.arena, arena'), b + HeaderSize, size)
      /\ Place(a, r.p, n, count, bytes)
      /\ mapped' = mapped /\ tried' = tried
  BY <1>2, Zenon DEF MoveFromArena
<1>5. AllocResult(arena, r, n)
  BY AllocBy DEF Inv, hot_alloc
<1>6. /\ DOMAIN bytes = 0 .. (n - 1)
      /\ \A i \in 0 .. (n - 1) : i < k /\ i < size => bytes[i] = m1[ptr[a] + i]
  <2> HIDE DEF size, m1
  <2>1. size \in Nat
    BY <1>2, <1>3
  <2> QED
    BY <2>1 DEF Copied
<1>7. /\ live[a] \in Nat /\ len[a] \in Nat /\ live[a] <= len[a]
      /\ count \in Nat /\ count <= n /\ count <= live[a] /\ count <= size /\ count <= k
  <2>1. live[a] \in Nat /\ len[a] \in Nat /\ live[a] <= len[a]
    BY DEF Inv, ArrayOK
  <2> HIDE DEF size
  <2> QED
    BY <1>2, <1>3, <2>1 DEF Least
<1>8. U \in SUBSET Nat /\ U \subseteq DOMAIN arena.blk /\ PtrOK(ptr, U)
  BY SMTT(40) DEF Inv, ArenaOK, IsHeaderTable, UsedBlocks
<1> HIDE DEF U, r, V, size, m1, bytes, m2, count
<1>9. /\ ArenaOK(r.arena) /\ r.arena.end = arena.end
      /\ U \subseteq V /\ b \in V
      /\ SameElsewhere(arena.blk, r.arena.blk, U)
  <2>1. ArenaOK(r.arena) /\ r.arena.end = arena.end
    BY <1>5 DEF AllocResult
  <2>2. CASE r.p = NULL /\ r.arena.blk = arena.blk
    BY <1>2, <1>8, <2>1, <2>2 DEF U, V, SameElsewhere
  <2>3. ASSUME NEW x, V = U \cup {x}, SameElsewhere(arena.blk, r.arena.blk, U)
        PROVE  /\ U \subseteq V /\ b \in V
               /\ SameElsewhere(arena.blk, r.arena.blk, U)
    BY <2>3
  <2> QED
    BY <1>5, <2>1, <2>2, <2>3, Zenon DEF AllocResult, U, V
<1>10. /\ ArenaOK(arena') /\ arena'.end = arena.end
       /\ UsedBlocks(arena'.blk) = V \ {b}
       /\ SameElsewhere(r.arena.blk, arena'.blk, V \ {b})
  BY <1>4, <1>9, FreeBy, ZenonT(40) DEF V
<1>11. /\ V \subseteq DOMAIN r.arena.blk
       /\ \A d \in V : d \in Nat /\ r.arena.blk[d].size \in Nat
       /\ r.arena.blk[b].size = size
  BY <1>2, <1>3, <1>9 DEF V, UsedBlocks, ArenaOK, IsHeaderTable, SameElsewhere
<1>12. /\ DOMAIN m1 = 0 .. (arena.end - 1)
       /\ \A d \in U : \A i \in Nat :
            i < arena.blk[d].size => m1[d + HeaderSize + i] = mem[d + HeaderSize + i]
  <2>1. DOMAIN m1 = 0 .. (arena.end - 1)
    BY <1>9, SMTT(40) DEF m1, Headed
  <2> QED
    BY <1>9, <2>1, Survives, Zenon DEF m1
<1>13. ASSUME NEW i \in 0 .. (count - 1) PROVE bytes[i] = mem[ptr[a] + i]
  <2>1. i \in 0 .. (n - 1) /\ i \in Nat /\ i < k /\ i < size
    BY <1>2, <1>3, <1>7
  <2>2. bytes[i] = m1[b + HeaderSize + i]
    BY <1>2, <1>6, <2>1, Zenon
  <2>3. m1[b + HeaderSize + i] = mem[b + HeaderSize + i]
    BY <1>3, <1>12, <2>1, Zenon
  <2> QED
    BY <1>2, <2>2, <2>3, Zenon
<1>14. ASSUME r.p # NULL
       PROVE  \E x \in V \ U : /\ r.p = x + HeaderSize /\ V = U \cup {x} /\ x \in Nat
                               /\ n <= r.arena.blk[x].size
                               /\ PutResult(m1, m2, x + HeaderSize, n, bytes)
  <2>1. PICK x \in DOMAIN r.arena.blk :
          /\ r.p = x + HeaderSize /\ x \notin U /\ V = U \cup {x}
          /\ n <= r.arena.blk[x].size
    BY <1>5, <1>14, Zenon DEF AllocResult, U, V
  <2>2. x \in V \ U /\ x \in Nat /\ x + HeaderSize \in Nat
    BY <1>11, <2>1 DEF HeaderSize
  <2>3. DOMAIN m1 \subseteq Nat
    BY <1>12 DEF Inv, ArenaOK
  <2>4. PutResult(m1, Put(m1, x + HeaderSize, bytes), x + HeaderSize, n, bytes)
    BY <1>6, <2>2, <2>3, PutReads, Zenon
  <2>5. m2 = Put(m1, x + HeaderSize, bytes)
    BY <1>14, <2>1 DEF m2
  <2> QED
    BY <2>1, <2>2, <2>4, <2>5, SMTT(40)
<1>15. /\ DOMAIN m2 = 0 .. (arena.end - 1)
       /\ \A d \in U : \A i \in Nat :
            i < arena.blk[d].size => m2[d + HeaderSize + i] = mem[d + HeaderSize + i]
  <2>1. CASE r.p = NULL
    BY <1>12, <2>1 DEF m2
  <2>2. CASE r.p # NULL
    <3>1. PICK x \in V \ U : /\ n <= r.arena.blk[x].size
                             /\ PutResult(m1, m2, x + HeaderSize, n, bytes)
      BY <1>14, <2>2, SMTT(40)
    <3>2. DOMAIN m2 = 0 .. (arena.end - 1)
      BY <1>12, <3>1 DEF PutResult
    <3>3. ASSUME NEW d \in U, NEW i \in Nat, i < arena.blk[d].size
          PROVE  m2[d + HeaderSize + i] = mem[d + HeaderSize + i]
      <4>1. d \in DOMAIN r.arena.blk /\ i < r.arena.blk[d].size /\ d # x
        BY <1>9, <1>11, <3>3 DEF SameElsewhere
      <4>2. x \in DOMAIN r.arena.blk /\ r.arena.blk[x].size \in Nat
        BY <1>11
      <4>3. /\ d + HeaderSize + i \in 0 .. (arena.end - 1)
            /\ \A j \in Nat : j < r.arena.blk[x].size
                 => x + HeaderSize + j # d + HeaderSize + i
        BY <1>9, <4>1, <4>2, PayloadApart, Zenon
      <4>4. \A j \in 0 .. (n - 1) : d + HeaderSize + i # x + HeaderSize + j
        BY <3>1, <4>2, <4>3
      <4>5. m2[d + HeaderSize + i] = m1[d + HeaderSize + i]
        BY <1>12, <3>1, <4>3, <4>4, Zenon DEF PutResult
      <4> QED
        BY <1>12, <3>3, <4>5, Zenon
    <3> QED
      BY <3>2, <3>3, SMTT(40)
  <2> QED
    BY <2>1, <2>2
<1>16. /\ DOMAIN mem' = 0 .. (arena'.end - 1)
       /\ \A d \in V \ {b} : \A i \in Nat :
            i < r.arena.blk[d].size => mem'[d + HeaderSize + i] = m2[d + HeaderSize + i]
  <2>1. FreedResult(m2, r.arena, b, mem')
    BY <1>4, <1>9, <1>10, <1>11, <1>15, FreedBytes, Zenon DEF V
  <2> QED
    BY <1>9, <1>10, <2>1, Zenon DEF FreedResult, V
<1>17. /\ len' \in [Arrays -> Nat] /\ live' \in [Arrays -> Nat]
       /\ heap' = [c \in Arrays |-> heap'[c]]
       /\ ptr' = [ptr EXCEPT ![a] = IF r.p = NULL THEN HEAP ELSE r.p]
       /\ ptr'[a] = (IF r.p = NULL THEN HEAP ELSE r.p)
       /\ len'[a] = n /\ live'[a] = count
       /\ heap'[a] = (IF r.p = NULL THEN bytes ELSE NoBytes)
       /\ \A c \in Arrays \ {a} :
            /\ ptr'[c] = ptr[c] /\ len'[c] = len[c] /\ live'[c] = live[c]
            /\ heap'[c] = heap[c]
  BY <1>4, <1>7, Placed, Zenon
<1>18. Kept(a)
  <2>1. ASSUME NEW c \in Arrays \ {a}, ptr[c] > 0
        PROVE  /\ arena'.blk[ptr[c] - HeaderSize].size = arena.blk[ptr[c] - HeaderSize].size
               /\ \A i \in 0 .. (live[c] - 1) : mem'[ptr[c] + i] = mem[ptr[c] + i]
    <3>1. PICK d \in U : /\ ptr[c] = d + HeaderSize /\ ptr[c] - HeaderSize = d
                         /\ arena.blk[d].size \in Nat /\ len[c] <= arena.blk[d].size
      BY <2>1, InvBlock, Zenon DEF U
    <3>2. d # b
      BY <1>1, <1>2, <3>1, SMTT(40) DEF Inv, PtrOK
    <3>3. d \in V \ {b} /\ r.arena.blk[d].size = arena.blk[d].size
      BY <1>9, <3>2, Zenon DEF SameElsewhere
    <3>4. arena'.blk[d].size = arena.blk[d].size
      BY <1>10, <3>3 DEF SameElsewhere
    <3>5. live[c] \in Nat /\ len[c] \in Nat /\ live[c] <= len[c]
      BY DEF Inv, ArrayOK
    <3>6. ASSUME NEW i \in 0 .. (live[c] - 1) PROVE mem'[ptr[c] + i] = mem[ptr[c] + i]
      <4>1. i \in Nat /\ i < arena.blk[d].size
        BY <3>1, <3>5
      <4>2. m2[d + HeaderSize + i] = mem[d + HeaderSize + i]
        BY <1>15, <4>1, Zenon
      <4>3. mem'[d + HeaderSize + i] = m2[d + HeaderSize + i]
        BY <1>16, <3>3, <4>1, Zenon
      <4> QED
        BY <3>1, <4>2, <4>3, Zenon
    <3> QED
      BY <3>1, <3>4, <3>6, Zenon
  <2> QED
    BY <1>17, <2>1 DEF Kept, KeptArray
<1>19. MappedOK'
  <2>1. MappedOK
    BY SMTT(40) DEF Inv
  <2> QED
    BY <1>4, <1>10, <2>1 DEF MappedOK
<1>20. CASE r.p = NULL
  <2>1. V = U
    <3>1. \A x \in DOMAIN r.arena.blk : x + HeaderSize # NULL
      BY <1>9, PayloadNotNull, Zenon
    <3> QED
      BY <1>5, <1>20, <3>1, SMTT(40) DEF AllocResult, U, V
  <2>2. PtrOK([ptr EXCEPT ![a] = HEAP], U \ {b})
    BY <1>2, <1>8, PtrDrop, Zenon
  <2>3. PtrOK(ptr', UsedBlocks(arena'.blk))
    BY <1>10, <1>17, <1>20, <2>1, <2>2, SMTT(40)
  <2>4. ArrayOK(a)'
    BY <1>6, <1>7, <1>17, <1>20 DEF ArrayOK, HEAP, NULL
  <2>5. Inv' /\ Becomes(a, Data(a)')
    BY <1>10, <1>16, <1>17, <1>18, <1>19, <2>3, <2>4, InvNext, ZenonT(40)
  <2>6. Data(a)' = [i \in 0 .. (count - 1) |-> bytes[i]]
    BY <1>17, <1>20 DEF Data
  <2> QED
    <3>1. Data(a)' = [i \in 0 .. (Least(live[a], n) - 1) |-> mem[ptr[a] + i]]
      BY <1>13, <2>6 DEF count
    <3> QED
      BY <1>1, <2>5, <3>1, CutIs, SMTT(40)
<1>21. CASE r.p # NULL
  <2>1. PICK x \in V \ U : /\ r.p = x + HeaderSize /\ V = U \cup {x} /\ x \in Nat
                           /\ n <= r.arena.blk[x].size
                           /\ PutResult(m1, m2, x + HeaderSize, n, bytes)
    BY <1>14, <1>21, SMTT(40)
  <2>2. /\ x # b /\ x \in V \ {b} /\ (U \ {b}) \cup {x} = V \ {b} /\ x \notin U \ {b}
        /\ U \ {b} \in SUBSET Nat
    BY <1>2, <1>8, <2>1, Zenon
  <2>3. PtrOK(ptr', UsedBlocks(arena'.blk))
    <3> DEFINE off == [ptr EXCEPT ![a] = NULL]
    <3>1. PtrOK(off, U \ {b})
      BY <1>2, <1>8, PtrDrop, ZenonT(40)
    <3>2. ~(off[a] > 0) /\ [off EXCEPT ![a] = x + HeaderSize] = ptr'
      BY <1>8, <1>17, <1>21, <2>1 DEF PtrOK, NULL
    <3> HIDE DEF off
    <3>3. PtrOK([off EXCEPT ![a] = x + HeaderSize], (U \ {b}) \cup {x})
      BY <2>1, <2>2, <3>1, <3>2, PtrAdd, ZenonT(40)
    <3> QED
      BY <1>10, <2>2, <3>2, <3>3, ZenonT(40)
  <2>4. arena'.blk[x].size = r.arena.blk[x].size
    BY <1>10, <2>2, Zenon DEF SameElsewhere
  <2>5. ptr'[a] = x + HeaderSize /\ ptr'[a] - HeaderSize = x /\ ptr'[a] > 0 /\ ptr'[a] # HEAP
    BY <1>17, <1>21, <2>1, SMTT(40) DEF HeaderSize, HEAP
  <2>6. ArrayOK(a)'
    BY <1>7, <1>17, <2>1, <2>4, <2>5, SMTT(40) DEF ArrayOK, HEAP, NULL
  <2>7. Inv' /\ Becomes(a, Data(a)')
    BY <1>10, <1>16, <1>17, <1>18, <1>19, <2>3, <2>6, InvNext, ZenonT(40)
  <2>8. ASSUME NEW i \in 0 .. (count - 1) PROVE mem'[ptr'[a] + i] = bytes[i]
    <3>1. i \in 0 .. (n - 1) /\ i \in Nat /\ i < r.arena.blk[x].size
      BY <1>7, <1>11, <2>1, SMTT(40)
    <3>2. x + HeaderSize + i \in DOMAIN m1
      BY <1>9, <1>11, <1>12, <2>1, <3>1, PayloadApart, SMTT(40)
    <3>3. m2[x + HeaderSize + i] = bytes[i]
      BY <2>1, <3>1, <3>2, Zenon DEF PutResult
    <3> QED
      BY <1>16, <2>2, <2>5, <3>1, <3>3, ZenonT(40)
  <2>9. Data(a)' = [i \in 0 .. (count - 1) |-> bytes[i]]
    BY <1>17, <2>5, <2>8 DEF Data
  <2> QED
    <3>1. Data(a)' = [i \in 0 .. (Least(live[a], n) - 1) |-> mem[ptr[a] + i]]
      BY <1>13, <2>9 DEF count
    <3> QED
      BY <1>1, <2>7, <3>1, CutIs, Zenon
<1> QED
  BY <1>20, <1>21

(* An array outside the arena is placed on the heap. *)
LEMMA HeapPlace ==
  ASSUME Inv, NEW a \in Arrays, ~(ptr[a] > 0),
         NEW n \in Nat, NEW count \in 0 .. n,
         NEW bytes, DOMAIN bytes = 0 .. (n - 1),
         Place(a, NULL, n, count, bytes),
         UNCHANGED <<arena, mapped, tried, mem, released>>
  PROVE  Inv' /\ Becomes(a, [i \in 0 .. (count - 1) |-> bytes[i]])
<1>1. /\ len' \in [Arrays -> Nat] /\ live' \in [Arrays -> Nat]
      /\ heap' = [c \in Arrays |-> heap'[c]]
      /\ ptr' = [ptr EXCEPT ![a] = HEAP] /\ ptr'[a] = HEAP
      /\ len'[a] = n /\ live'[a] = count /\ heap'[a] = bytes
      /\ \A c \in Arrays \ {a} :
           /\ ptr'[c] = ptr[c] /\ len'[c] = len[c] /\ live'[c] = live[c]
           /\ heap'[c] = heap[c]
  <2>1. count \in Nat
    OBVIOUS
  <2>2. /\ DOMAIN ptr = Arrays /\ DOMAIN heap = Arrays
        /\ len \in [Arrays -> Nat] /\ live \in [Arrays -> Nat]
    BY DEF Inv, PtrOK
  <2> QED
    BY <2>1, <2>2, Zenon DEF Place
<1>2. Kept(a)
  BY <1>1 DEF Kept, KeptArray
<1>3. /\ ArenaOK(arena') /\ MappedOK' /\ DOMAIN mem' = 0 .. (arena'.end - 1)
  BY DEF Inv, MappedOK
<1>4. PtrOK(ptr', UsedBlocks(arena'.blk))
  <2>1. UsedBlocks(arena.blk) \in SUBSET Nat /\ PtrOK(ptr, UsedBlocks(arena.blk))
    BY DEF Inv, ArenaOK, IsHeaderTable, UsedBlocks
  <2>2. PtrOK([ptr EXCEPT ![a] = HEAP], UsedBlocks(arena.blk))
    BY <2>1, PtrOff, Zenon
  <2> QED
    BY <1>1, <2>2, SMTT(40)
<1>5. ArrayOK(a)'
  BY <1>1 DEF ArrayOK, HEAP, NULL
<1>6. Inv' /\ Becomes(a, Data(a)')
  BY <1>1, <1>2, <1>3, <1>4, <1>5, InvNext, Zenon
<1>7. Data(a)' = [i \in 0 .. (count - 1) |-> bytes[i]]
  BY <1>1 DEF Data
<1> QED
  BY <1>6, <1>7

(* tcc_hot_realloc of an array on the heap. *)
LEMMA OnHeapStep ==
  ASSUME Inv, NEW a \in Arrays, NEW n \in Nat, ReallocOnHeap(a, n), UNCHANGED released
  PROVE  Inv' /\ Becomes(a, CutTo(a, n))
<1> DEFINE bytes == Copied(heap[a], n, n)
           count == Least(live[a], n)
<1>0. ptr[a] = HEAP /\ ArrayOK(a)
  BY Zenon DEF ReallocOnHeap, Inv
<1>1. /\ ptr[a] = HEAP /\ ~(ptr[a] > 0)
      /\ live[a] \in Nat /\ len[a] \in Nat /\ live[a] <= len[a]
      /\ DOMAIN heap[a] = 0 .. (len[a] - 1)
      /\ Place(a, NULL, n, count, bytes)
      /\ UNCHANGED <<arena, mapped, tried, mem, released>>
  <2>1. live \in [Arrays -> Nat] /\ len \in [Arrays -> Nat]
    BY Zenon DEF Inv
  <2>2. ~(ptr[a] > 0)
    BY <1>0 DEF HEAP
  <2> QED
    BY <1>0, <2>1, <2>2, Zenon DEF ReallocOnHeap, ArrayOK, HEAP
<1>2. count \in 0 .. n /\ \A i \in 0 .. (count - 1) : i \in 0 .. (live[a] - 1) /\ i < n
  BY <1>1 DEF Least
<1>3. /\ DOMAIN bytes = 0 .. (n - 1)
      /\ \A i \in 0 .. (count - 1) : bytes[i] = heap[a][i]
  <2> HIDE DEF count
  <2> QED
    BY <1>1, <1>2 DEF Copied
<1>4. \A i \in 0 .. (count - 1) : Data(a)[i] = heap[a][i]
  <2> HIDE DEF count
  <2> QED
    BY <1>1, <1>2, Zenon DEF Data
<1>5. [i \in 0 .. (count - 1) |-> bytes[i]] = CutTo(a, n)
  <2> HIDE DEF bytes
  <2> QED
    BY <1>3, <1>4 DEF CutTo
<1> HIDE DEF bytes, count
<1>6. Inv' /\ Becomes(a, [i \in 0 .. (count - 1) |-> bytes[i]])
  BY <1>1, <1>2, <1>3, HeapPlace, Zenon
<1> QED
  BY <1>5, <1>6, Zenon

(* tcc_malloc of a new array. *)
LEMMA MallocStep ==
  ASSUME Inv, NEW a \in Arrays, NEW n \in Nat, tcc_malloc(a, n), UNCHANGED released
  PROVE  Inv' /\ Becomes(a, NoBytes)
<1> DEFINE bytes == Filled(n, Junk)
<1>1. /\ ~(ptr[a] > 0) /\ Place(a, NULL, n, 0, bytes)
      /\ UNCHANGED <<arena, mapped, tried, mem, released>>
  BY DEF tcc_malloc, NULL
<1>2. DOMAIN bytes = 0 .. (n - 1) /\ 0 \in 0 .. n
  BY DEF Filled
<1> HIDE DEF bytes
<1>3. Inv' /\ Becomes(a, [i \in 0 .. (0 - 1) |-> bytes[i]])
  BY <1>1, <1>2, HeapPlace, Zenon
<1>4. [i \in 0 .. (0 - 1) |-> bytes[i]] = NoBytes
  BY DEF NoBytes
<1> QED
  BY <1>3, <1>4

(* tcc_hot_mallocz, and tcc_hot_realloc of NULL: a new array. *)
LEMMA FreshStep ==
  ASSUME Contract, Inv, NEW a \in Arrays, NEW n \in Nat, NEW count \in 0 .. n,
         NEW bytes, DOMAIN bytes = 0 .. (n - 1),
         ptr[a] = NULL, PlaceNew(a, n, count, bytes), UNCHANGED released
  PROVE  Inv' /\ Becomes(a, [i \in 0 .. (count - 1) |-> bytes[i]])
<1>1. ~(ptr[a] > 0)
  BY DEF NULL
<1>2. PICK grant \in Grants :
        LET r == hot_alloc(grant, n)
            m == Headed(mem, arena, r.arena)
        IN  /\ r.arena.misses <= MaxMisses
            /\ Tried(grant)
            /\ arena' = r.arena
            /\ mem' = IF r.p = NULL THEN m ELSE Put(m, r.p, bytes)
            /\ Place(a, r.p, n, count, bytes)
  BY Zenon DEF PlaceNew
<1> QED
  BY <1>1, <1>2, NewPlace, Zenon

(* An array that is not in the arena holds what its heap bytes hold. *)
LEMMA OffHeapData ==
  ASSUME Inv, NEW a \in Arrays, ~(ptr[a] > 0)
  PROVE  /\ live[a] \in Nat /\ len[a] \in Nat /\ live[a] <= len[a]
         /\ \A i \in 0 .. (live[a] - 1) : i \in DOMAIN heap[a]
         /\ Data(a) = [i \in 0 .. (live[a] - 1) |-> heap[a][i]]
<1>1. /\ live[a] \in Nat /\ len[a] \in Nat /\ live[a] <= len[a]
      /\ ptr[a] = HEAP => DOMAIN heap[a] = 0 .. (len[a] - 1)
      /\ ptr[a] # HEAP => live[a] = 0
  BY DEF Inv, ArrayOK, HEAP, NULL, PtrOK
<1>2. ASSUME NEW i \in 0 .. (live[a] - 1) PROVE ptr[a] = HEAP /\ i \in DOMAIN heap[a]
  BY <1>1
<1> QED
  BY <1>1, <1>2, Zenon DEF Data

(* Settling an array on the heap, or a new one. *)
LEMMA SettleHeapStep ==
  ASSUME Contract, Inv, NEW a \in Arrays, NEW cap \in Nat, live[a] <= cap,
         SettleFromHeap(a, live[a], cap), UNCHANGED released
  PROVE  Inv' /\ Becomes(a, Data(a))
<1>1. PICK grant \in Grants :
        LET r == hot_alloc(grant, cap)
            m == Headed(mem, arena, r.arena)
            bytes == Copied(heap[a], IF r.p = NULL THEN cap ELSE live[a], cap)
        IN  /\ ~InArena(a)
            /\ r.arena.misses <= MaxMisses
            /\ Tried(grant)
            /\ arena' = r.arena
            /\ mem' = IF r.p = NULL THEN m ELSE Put(m, r.p, bytes)
            /\ Place(a, r.p, cap, live[a], bytes)
  BY ZenonT(40) DEF SettleFromHeap
<1>2. ~(ptr[a] > 0)
  BY <1>1, InvInArena, SMTT(40)
<1> DEFINE r == hot_alloc(grant, cap)
           k == IF r.p = NULL THEN cap ELSE live[a]
           bytes == Copied(heap[a], k, cap)
<1>3. /\ live[a] \in Nat /\ len[a] \in Nat /\ live[a] <= len[a]
      /\ \A i \in 0 .. (live[a] - 1) : i \in DOMAIN heap[a]
      /\ Data(a) = [i \in 0 .. (live[a] - 1) |-> heap[a][i]]
  BY <1>2, OffHeapData, Zenon
<1>4. live[a] \in 0 .. cap /\ k \in live[a] .. cap
  <2> HIDE DEF r
  <2> QED
    BY <1>3
<1>5. /\ DOMAIN bytes = 0 .. (cap - 1)
      /\ \A i \in 0 .. (live[a] - 1) : bytes[i] = heap[a][i]
  <2> HIDE DEF k
  <2> QED
    BY <1>3, <1>4 DEF Copied
<1>6. [i \in 0 .. (live[a] - 1) |-> bytes[i]] = Data(a)
  <2> HIDE DEF bytes
  <2> QED
    BY <1>3, <1>5, SMTT(40)
<1>7. /\ Tried(grant) /\ arena' = r.arena
      /\ mem' = IF r.p = NULL THEN Headed(mem, arena, r.arena)
                              ELSE Put(Headed(mem, arena, r.arena), r.p, bytes)
      /\ Place(a, r.p, cap, live[a], bytes)
  BY <1>1, Zenon
<1>8. Inv' /\ Becomes(a, [i \in 0 .. (live[a] - 1) |-> bytes[i]])
  <2> HIDE DEF bytes
  <2> QED
    BY <1>2, <1>4, <1>5, <1>7, NewPlace, Zenon
<1> QED
  BY <1>6, <1>8, Zenon

(* tcc_hot_free of an array, in the arena or on the heap. *)
LEMMA FreeStep ==
  ASSUME Contract, Inv, NEW a \in Arrays, tcc_hot_free(a), UNCHANGED released
  PROVE  Inv' /\ Becomes(a, NoBytes)
<1> DEFINE U == UsedBlocks(arena.blk)
<1>1. /\ DOMAIN ptr = Arrays /\ DOMAIN heap = Arrays
      /\ len \in [Arrays -> Nat] /\ live \in [Arrays -> Nat]
      /\ U \in SUBSET Nat /\ PtrOK(ptr, U) /\ ArenaOK(arena) /\ MappedOK
      /\ DOMAIN mem = 0 .. (arena.end - 1)
  BY DEF Inv, PtrOK, ArenaOK, IsHeaderTable, UsedBlocks
<1>2. /\ len' \in [Arrays -> Nat] /\ live' \in [Arrays -> Nat]
      /\ heap' = [c \in Arrays |-> heap'[c]]
      /\ ptr' = [ptr EXCEPT ![a] = NULL] /\ ptr'[a] = NULL
      /\ len'[a] = 0 /\ live'[a] = 0
      /\ \A c \in Arrays \ {a} :
           /\ ptr'[c] = ptr[c] /\ len'[c] = len[c] /\ live'[c] = live[c]
           /\ heap'[c] = heap[c]
      /\ mapped' = mapped /\ tried' = tried
  BY <1>1, Zenon DEF tcc_hot_free
<1>3. ArrayOK(a)'
  BY <1>2 DEF ArrayOK, NULL, HEAP
<1>4. Data(a)' = NoBytes
  BY <1>2 DEF Data, NoBytes
<1>5. CASE ~InArena(a)
  <2>1. arena' = arena /\ mem' = mem /\ ~(ptr[a] > 0)
    BY <1>5, InvInArena DEF tcc_hot_free
  <2>2. Kept(a)
    BY <1>2, <2>1 DEF Kept, KeptArray
  <2>3. PtrOK([ptr EXCEPT ![a] = NULL], U)
    BY <1>1, <2>1, PtrOff, Zenon
  <2>4. MappedOK'
    BY <1>1, <1>2, <2>1 DEF MappedOK
  <2> QED
    BY <1>1, <1>2, <1>3, <1>4, <2>1, <2>2, <2>3, <2>4, InvNext, Zenon
<1>6. CASE InArena(a)
  <2>1. ptr[a] > 0
    BY <1>6, InvInArena
  <2>2. PICK b \in U : /\ ptr[a] = b + HeaderSize /\ ptr[a] - HeaderSize = b
                       /\ b \in Nat /\ b \in DOMAIN arena.blk
    BY <2>1, InvBlock, SMTT(40)
  <2>3. /\ arena' = hot_arena_free(arena, b + HeaderSize)
        /\ mem' = Wiped(Headed(mem, arena, arena'), b + HeaderSize, arena.blk[b].size)
    BY <1>6, <2>2, Zenon DEF tcc_hot_free, hot_arena_block_size
  <2>4. /\ ArenaOK(arena') /\ arena'.end = arena.end
        /\ UsedBlocks(arena'.blk) = U \ {b}
        /\ SameElsewhere(arena.blk, arena'.blk, U \ {b})
    BY <1>1, <2>3, FreeBy, Zenon
  <2>5. FreedResult(mem, arena, b, mem')
    BY <1>1, <2>3, <2>4, FreedBytes, Zenon
  <2>6. PtrOK([ptr EXCEPT ![a] = NULL], U \ {b})
    BY <1>1, <2>2, PtrDrop, Zenon
  <2>7. ASSUME NEW c \in Arrays \ {a}, ptr[c] > 0
        PROVE  /\ arena'.blk[ptr[c] - HeaderSize].size = arena.blk[ptr[c] - HeaderSize].size
               /\ \A i \in 0 .. (live[c] - 1) : mem'[ptr[c] + i] = mem[ptr[c] + i]
    <3>1. PICK d \in U : /\ ptr[c] = d + HeaderSize /\ ptr[c] - HeaderSize = d
                         /\ arena.blk[d].size \in Nat /\ len[c] <= arena.blk[d].size
      BY <2>7, InvBlock
    <3>2. d \in U \ {b}
      BY <2>1, <2>2, <3>1 DEF Inv, PtrOK
    <3>3. arena'.blk[d].size = arena.blk[d].size
      BY <2>4, <3>2, Zenon DEF SameElsewhere
    <3>4. live[c] \in Nat /\ len[c] \in Nat /\ live[c] <= len[c]
      BY DEF Inv, ArrayOK
    <3>5. ASSUME NEW i \in 0 .. (live[c] - 1) PROVE mem'[ptr[c] + i] = mem[ptr[c] + i]
      <4>1. i \in Nat /\ i < arena.blk[d].size
        BY <3>1, <3>4
      <4>2. mem'[d + HeaderSize + i] = mem[d + HeaderSize + i]
        BY <2>5, <3>2, <4>1, Zenon DEF FreedResult
      <4> QED
        BY <3>1, <4>2, Zenon
    <3> QED
      BY <3>1, <3>3, <3>5, SMTT(40)
  <2>8. Kept(a)
    BY <1>2, <2>7 DEF Kept, KeptArray
  <2>9. MappedOK'
    BY <1>1, <1>2, <2>4, SMTT(40) DEF MappedOK
  <2>10. DOMAIN mem' = 0 .. (arena'.end - 1)
    BY <2>4, <2>5, Zenon DEF FreedResult
  <2> QED
    BY <1>2, <1>3, <1>4, <2>4, <2>6, <2>8, <2>9, <2>10, InvNext, ZenonT(40)
<1> QED
  BY <1>5, <1>6, SMTT(40)

(* The client stores into its array. *)
LEMMA StoreStep ==
  ASSUME Inv, NEW a \in Arrays, NEW n \in Nat, Store(a, n), UNCHANGED released
  PROVE  Inv' /\ Becomes(a, [i \in 0 .. (n - 1) |-> a])
<1> DEFINE bytes == Copied(Filled(n, a), n, len[a])
<1>1. /\ live \in [Arrays -> Nat] /\ len \in [Arrays -> Nat] /\ ArrayOK(a)
      /\ heap = [c \in Arrays |-> heap[c]] /\ DOMAIN heap = Arrays
      /\ ptr[a] \in Nat \cup {-1} /\ ptr[a] # 0 /\ n <= len[a]
      /\ DOMAIN mem = 0 .. (arena.end - 1) /\ ArenaOK(arena) /\ MappedOK
      /\ PtrOK(ptr, UsedBlocks(arena.blk))
  BY DEF Inv, PtrOK, Store, NULL, HEAP
<1>2. /\ live' = [live EXCEPT ![a] = n] /\ live'[a] = n
      /\ live' \in [Arrays -> Nat]
      /\ \A c \in Arrays \ {a} : live'[c] = live[c]
      /\ UNCHANGED <<arena, mapped, tried, ptr, len, released>>
  BY <1>1 DEF Store
<1>3. /\ DOMAIN bytes = 0 .. (len[a] - 1)
      /\ \A i \in 0 .. (n - 1) : i \in DOMAIN bytes /\ bytes[i] = a
  BY <1>1 DEF Copied, Filled
<1>4. MappedOK'
  BY <1>1, <1>2 DEF MappedOK
<1> HIDE DEF bytes
<1>5. CASE ptr[a] = HEAP
  <2>1. heap' = [heap EXCEPT ![a] = bytes] /\ mem' = mem
    BY <1>5 DEF Store, bytes
  <2>2. /\ heap' = [c \in Arrays |-> heap'[c]] /\ heap'[a] = bytes
        /\ \A c \in Arrays \ {a} : heap'[c] = heap[c]
    BY <1>1, <2>1, Zenon
  <2>3. Kept(a)
    BY <1>2, <2>1, <2>2 DEF Kept, KeptArray
  <2>4. ArrayOK(a)'
    BY <1>1, <1>2, <1>3, <1>5, <2>2, Zenon DEF ArrayOK, HEAP, NULL
  <2>5. Inv' /\ Becomes(a, Data(a)')
    BY <1>1, <1>2, <1>4, <2>1, <2>2, <2>3, <2>4, InvNext, Zenon
  <2>6. Data(a)' = [i \in 0 .. (n - 1) |-> a]
    BY <1>2, <1>3, <1>5, <2>2 DEF Data
  <2> QED
    BY <2>5, <2>6, SMTT(40)
<1>6. CASE ptr[a] # HEAP
  <2>1. mem' = Put(mem, ptr[a], bytes) /\ heap' = heap
    BY <1>6, Zenon DEF Store, bytes
  <2>2. ptr[a] > 0 /\ ptr[a] \in Nat
    BY <1>1, <1>6 DEF HEAP
  <2>3. PICK b \in UsedBlocks(arena.blk) :
               /\ ptr[a] = b + HeaderSize /\ ptr[a] - HeaderSize = b
               /\ b \in Nat /\ b \in DOMAIN arena.blk
               /\ arena.blk[b].size \in Nat /\ len[a] <= arena.blk[b].size
    BY <2>2, InvBlock
  <2>4. PutResult(mem, mem', ptr[a], len[a], bytes)
    <3>1. DOMAIN mem \subseteq Nat
      BY <1>1 DEF ArenaOK
    <3>2. len[a] \in Nat
      BY <1>1
    <3> QED
      BY <1>3, <2>1, <2>2, <3>1, <3>2, PutReads, SMTT(40)
  <2>5. ASSUME NEW c \in Arrays \ {a}, ptr[c] > 0, NEW i \in 0 .. (live[c] - 1)
        PROVE  mem'[ptr[c] + i] = mem[ptr[c] + i]
    <3>1. PICK d \in UsedBlocks(arena.blk) :
                 /\ ptr[c] = d + HeaderSize /\ d \in Nat /\ d \in DOMAIN arena.blk
                 /\ arena.blk[d].size \in Nat /\ len[c] <= arena.blk[d].size
      BY <2>5, InvBlock, Zenon
    <3>2. d # b
      BY <2>2, <2>3, <2>5, <3>1 DEF Inv, PtrOK
    <3>3. i \in Nat /\ i < arena.blk[d].size
      <4>1. live[c] \in Nat /\ len[c] \in Nat /\ live[c] <= len[c]
        BY DEF Inv, ArrayOK
      <4> QED
        BY <3>1, <4>1
    <3>4. /\ d + HeaderSize + i \in 0 .. (arena.end - 1)
          /\ \A j \in Nat : j < arena.blk[b].size => b + HeaderSize + j # d + HeaderSize + i
      BY <1>1, <2>3, <3>1, <3>2, <3>3, PayloadApart, SMTT(40)
    <3>5. \A j \in 0 .. (len[a] - 1) : ptr[c] + i # ptr[a] + j
      BY <1>1, <2>3, <3>1, <3>4, SMTT(40)
    <3> QED
      BY <1>1, <2>4, <3>1, <3>4, <3>5, SMTT(40) DEF PutResult
  <2>6. Kept(a)
    BY <1>2, <2>1, <2>5, Zenon DEF Kept, KeptArray
  <2>7. DOMAIN mem' = 0 .. (arena'.end - 1)
    BY <1>1, <1>2, <2>4 DEF PutResult
  <2>8. ArrayOK(a)'
    BY <1>1, <1>2, <1>6 DEF ArrayOK, HEAP, NULL
  <2>9. Inv' /\ Becomes(a, Data(a)')
    BY <1>1, <1>2, <1>4, <2>1, <2>6, <2>7, <2>8, InvNext, ZenonT(40)
  <2>10. ASSUME NEW i \in 0 .. (n - 1) PROVE mem'[ptr[a] + i] = a
    <3>1. i \in Nat /\ i < arena.blk[b].size /\ i \in 0 .. (len[a] - 1)
      BY <1>1, <2>3
    <3>2. b + HeaderSize + i \in DOMAIN mem
      BY <1>1, <2>3, <3>1, PayloadApart
    <3> QED
      BY <1>3, <2>3, <2>4, <3>1, <3>2, Zenon DEF PutResult
  <2>11. Data(a)' = [i \in 0 .. (n - 1) |-> a]
    BY <1>2, <1>6, <2>10 DEF Data
  <2> QED
    BY <2>9, <2>11
<1> QED
  BY <1>5, <1>6

(* tcc_hot_release gives the arena back only when no array is in it. *)
LEMMA ReleaseStep ==
  ASSUME Contract, Inv, tcc_hot_release
  PROVE  Inv' /\ \A c \in Arrays : Data(c)' = Data(c)
<1>1. /\ released' = TRUE /\ tried' = TRUE
      /\ heap' = heap /\ ptr' = ptr /\ len' = len /\ live' = live
  BY DEF tcc_hot_release
<1>2. CASE ~(mapped # 0 /\ arena.used = 0)
  <2>1. mapped' = mapped /\ arena' = arena /\ mem' = mem
    BY <1>2 DEF tcc_hot_release
  <2>2. MappedOK'
    BY <1>1, <2>1 DEF Inv, MappedOK
  <2>3. \A c \in Arrays : ArrayOK(c)' /\ Data(c)' = Data(c)
    BY <1>1, <2>1 DEF Inv, ArrayOK, Data
  <2> QED
    BY <1>1, <2>1, <2>2, <2>3 DEF Inv
<1>3. CASE mapped # 0 /\ arena.used = 0
  <2>1. /\ mapped' = 0 /\ arena' = [arena EXCEPT !.end = 0, !.blk = NoArena.blk]
        /\ mem' = NoBytes
    BY <1>3 DEF tcc_hot_release
  <2>2. UsedBlocks(arena.blk) = {}
    BY <1>3, CountIsNone, Zenon DEF Inv
  <2>3. \A c \in Arrays : ~(ptr[c] > 0)
    BY <2>2 DEF Inv, PtrOK
  <2>4. /\ arena'.end = 0 /\ arena'.blk = NoArena.blk /\ arena'.used = arena.used
        /\ arena'.peak = arena.peak /\ arena'.misses = arena.misses
        /\ arena' = [end |-> 0, blk |-> NoArena.blk, used |-> arena.used,
                     peak |-> arena.peak, misses |-> arena.misses]
    BY <2>1, Zenon DEF Inv, ArenaOK
  <2>5. DOMAIN NoArena.blk = {} /\ UsedBlocks(arena'.blk) = {}
    BY <2>4 DEF NoArena, UsedBlocks
  <2>6. ArenaOK(arena')
    <3>1. IsHeaderTable(arena'.blk, arena'.end)
      BY <2>4, <2>5 DEF IsHeaderTable, NoArena
    <3>2. arena'.used = Cardinality(UsedBytes(arena'.blk))
      BY <1>3, <2>4, <2>5, NoneCounts
    <3> QED
      BY <2>4, <3>1, <3>2 DEF Inv, ArenaOK
  <2>7. PtrOK(ptr', UsedBlocks(arena'.blk))
    BY <1>1, <2>2, <2>5 DEF Inv
  <2>8. MappedOK'
    BY <1>1, <2>1, <2>4 DEF MappedOK
  <2>9. DOMAIN mem' = 0 .. (arena'.end - 1)
    BY <2>1, <2>4 DEF NoBytes
  <2>10. ASSUME NEW c \in Arrays PROVE ArrayOK(c)' /\ Data(c)' = Data(c)
    <3>1. KeptArray(c)
      BY <1>1, <2>3 DEF KeptArray
    <3> QED
      BY <3>1, KeptOthers
  <2> QED
    BY <1>1, <2>6, <2>7, <2>8, <2>9, <2>10 DEF Inv
<1> QED
  BY <1>2, <1>3

-----------------------------------------------------------------------------
(* Every step. *)

(* What a step does to the data of the array a, n the size it is given. *)
Stored(a, n)  == Becomes(a, [i \in 0 .. (n - 1) |-> a])
Cleared(a, n) == Data(a) = NoBytes /\ Becomes(a, [i \in 0 .. (n - 1) |-> Zero])
DataStep ==
  \/ \A c \in Arrays : Data(c)' = Data(c)
  \/ \E a \in Arrays :
       \/ Becomes(a, NoBytes)
       \/ \E n \in Sizes : Stored(a, n) \/ Cleared(a, n) \/ Becomes(a, CutTo(a, n))

(* The calls on one array. *)
LEMMA ArrayStep ==
  ASSUME Contract, Inv, UNCHANGED released, NEW a \in Arrays, NEW n \in Sizes,
         \/ tcc_hot_mallocz(a, n) \/ tcc_hot_realloc(a, n)
         \/ tcc_hot_settle(a, n) \/ tcc_malloc(a, n) \/ Store(a, n)
  PROVE  Inv' /\ DataStep
<1>1. n \in Nat
  BY HotSizesAssumption
<1>2. live[a] \in Nat /\ (ptr[a] = NULL => live[a] = 0)
  BY DEF Inv, ArrayOK
<1>3. CASE tcc_hot_mallocz(a, n)
  <2> DEFINE bytes == Filled(n, Zero)
  <2>1. /\ DOMAIN bytes = 0 .. (n - 1) /\ n \in 0 .. n
        /\ [i \in 0 .. (n - 1) |-> bytes[i]] = [i \in 0 .. (n - 1) |-> Zero]
    BY <1>1 DEF Filled
  <2>2. ptr[a] = NULL /\ PlaceNew(a, n, n, bytes)
    BY <1>3 DEF tcc_hot_mallocz
  <2>3. Data(a) = NoBytes
    BY <1>2, <2>2 DEF Data, NoBytes
  <2> HIDE DEF bytes
  <2>4. Inv' /\ Becomes(a, [i \in 0 .. (n - 1) |-> bytes[i]])
    BY <1>1, <2>1, <2>2, FreshStep
  <2> QED
    BY <2>1, <2>3, <2>4, Zenon DEF DataStep, Cleared
<1>4. CASE ReallocNew(a, n)
  <2> DEFINE bytes == Filled(n, Junk)
  <2>1. DOMAIN bytes = 0 .. (n - 1) /\ 0 \in 0 .. n
    BY <1>1 DEF Filled
  <2>2. ptr[a] = NULL /\ PlaceNew(a, n, 0, bytes)
    BY <1>4 DEF ReallocNew
  <2> HIDE DEF bytes
  <2>3. Inv' /\ Becomes(a, [i \in 0 .. (0 - 1) |-> bytes[i]])
    BY <1>1, <2>1, <2>2, FreshStep, Zenon
  <2>4. [i \in 0 .. (0 - 1) |-> bytes[i]] = NoBytes
    BY DEF NoBytes
  <2> QED
    BY <2>3, <2>4 DEF DataStep
<1>5. CASE ReallocOnHeap(a, n)
  BY <1>1, <1>5, OnHeapStep DEF DataStep
<1>6. CASE ResizeInPlace(a, n)
  BY <1>1, <1>6, ResizeStep DEF DataStep
<1>7. ASSUME InArena(a), NEW k \in Nat, Least(live[a], n) <= k, MoveFromArena(a, k, n)
      PROVE  Inv' /\ DataStep
  BY <1>1, <1>7, MoveStep DEF DataStep
<1>8. CASE ReallocMoves(a, n)
  <2> DEFINE k == Least(hot_arena_block_size(arena, ptr[a]), n)
  <2>1. InArena(a) /\ MoveFromArena(a, k, n)
    BY <1>8 DEF ReallocMoves
  <2>2. ptr[a] > 0
    BY <2>1, InvInArena
  <2>3. PICK b \in UsedBlocks(arena.blk) :
               /\ ptr[a] - HeaderSize = b
               /\ arena.blk[b].size \in Nat /\ len[a] <= arena.blk[b].size
    BY <2>2, InvBlock, Zenon
  <2>4. live[a] <= len[a] /\ len[a] \in Nat
    BY SMTT(40) DEF Inv, ArrayOK
  <2>5. k \in Nat /\ Least(live[a], n) <= k
    <3> DEFINE size == hot_arena_block_size(arena, ptr[a])
               c == len[a]
               l == live[a]
    <3>1. size \in Nat /\ c <= size
      BY <2>3, Zenon DEF hot_arena_block_size
    <3>2. l <= c /\ c \in Nat /\ l \in Nat /\ n \in Nat
      BY <1>1, <1>2, <2>4, Zenon
    <3> HIDE DEF size, c, l
    <3>3. Least(size, n) \in Nat /\ Least(l, n) <= Least(size, n)
      BY <3>1, <3>2 DEF Least
    <3> QED
      BY <3>3, Zenon DEF size, l
  <2> HIDE DEF k
  <2> QED
    BY <1>7, <2>1, <2>5
<1>9. CASE tcc_hot_settle(a, n)
  <2>1. live[a] <= n /\ Least(live[a], n) <= live[a]
    BY <1>1, <1>2, <1>9, SMTT(40) DEF tcc_hot_settle, Least
  <2>2. CASE InArena(a) /\ MoveFromArena(a, live[a], n)
    BY <1>2, <1>7, <2>1, <2>2, Zenon
  <2>3. CASE SettleFromHeap(a, live[a], n)
    <3>1. Inv' /\ Becomes(a, Data(a))
      BY <1>1, <2>1, <2>3, SettleHeapStep
    <3> QED
      BY <3>1 DEF DataStep, Becomes
  <2> QED
    BY <1>6, <1>9, <2>2, <2>3 DEF tcc_hot_settle
<1>10. CASE tcc_malloc(a, n)
  BY <1>1, <1>10, MallocStep DEF DataStep
<1>11. CASE Store(a, n)
  BY <1>1, <1>11, StoreStep, Zenon DEF DataStep, Stored
<1> QED
  BY <1>3, <1>4, <1>5, <1>6, <1>8, <1>9, <1>10, <1>11 DEF tcc_hot_realloc

(* Every step keeps the invariant and treats the arrays as it should. *)
LEMMA NextStep ==
  ASSUME Contract, Inv, Next
  PROVE  Inv' /\ DataStep
<1>1. CASE tcc_hot_release
  BY <1>1, ReleaseStep DEF DataStep
<1>2. ASSUME NEW a \in Arrays, UNCHANGED released, tcc_hot_free(a)
      PROVE  Inv' /\ DataStep
  BY <1>2, FreeStep DEF DataStep
<1> QED
  BY <1>1, <1>2, ArrayStep DEF Next

(* The first state: no arena, no array. *)
LEMMA InitInv ==
  ASSUME Contract, Init
  PROVE  Inv
<1>1. arena.blk = NoArena.blk /\ arena.end = 0 /\ arena.used = 0 /\ arena = NoArena
  BY Zenon DEF Init, NoArena
<1>2. DOMAIN NoArena.blk = {} /\ UsedBlocks(arena.blk) = {}
  BY <1>1 DEF NoArena, UsedBlocks
<1>3. ArenaOK(arena)
  <2>1. IsHeaderTable(arena.blk, arena.end)
    BY <1>1, <1>2 DEF IsHeaderTable, NoArena
  <2>2. arena.used = Cardinality(UsedBytes(arena.blk))
    BY <1>1, <1>2, NoneCounts
  <2> QED
    BY <1>1, <2>1, <2>2 DEF ArenaOK, NoArena
<1>4. MappedOK
  BY <1>1, Zenon DEF Init, MappedOK
<1>5. PtrOK(ptr, UsedBlocks(arena.blk))
  BY <1>2 DEF Init, PtrOK, NULL
<1>6. /\ len \in [Arrays -> Nat] /\ live \in [Arrays -> Nat]
      /\ heap = [c \in Arrays |-> heap[c]]
      /\ \A c \in Arrays : ArrayOK(c)
  BY DEF Init, ArrayOK, NULL, HEAP
<1>7. DOMAIN mem = 0 .. (arena.end - 1)
  BY <1>1 DEF Init, NoBytes
<1> QED
  BY <1>3, <1>4, <1>5, <1>6, <1>7 DEF Inv

(* The blocks in use are those of the arrays. *)
LEMMA InvOwned ==
  ASSUME Inv
  PROVE  NoDanglingNoLeak
<1> DEFINE placed == {a \in Arrays : ptr[a] > 0}
           U == UsedBlocks(arena.blk)
<1>1. PtrOK(ptr, U) /\ U \in SUBSET Nat
  BY DEF Inv, ArenaOK, IsHeaderTable, UsedBlocks
<1>2. \A a \in placed : ptr[a] \in Int /\ ptr[a] - HeaderSize \in U
                        /\ ptr[a] = (ptr[a] - HeaderSize) + HeaderSize
  BY <1>1 DEF PtrOK, HEAP, HeaderSize
<1>3. \A y \in U : \E a \in placed : ptr[a] = y + HeaderSize
  BY <1>1 DEF PtrOK, HeaderSize
<1>4. {ptr[a] : a \in placed} = {b + HeaderSize : b \in U}
  <2> HIDE DEF placed, U
  <2> QED
    BY <1>2, <1>3
<1>5. \A a, b \in placed : ptr[a] = ptr[b] => a = b
  BY <1>1 DEF PtrOK
<1>6. (mapped = 0) = (arena.end = 0)
  BY DEF Inv, MappedOK
<1>7. placed # {} => mapped # 0
  <2>1. U # {} => arena.end # 0
    BY DEF Inv, ArenaOK, IsHeaderTable, UsedBlocks
  <2> HIDE DEF placed, U
  <2> QED
    BY <1>2, <1>6, <2>1
<1> QED
  BY <1>4, <1>5, <1>6, <1>7, SMTT(40) DEF NoDanglingNoLeak

(* Once an arena was asked for, no step maps one again. *)
LEMMA MappedOnce ==
  ASSUME tried, mapped = 0, Next
  PROVE  mapped' = 0
<1>1. \A g \in Grants : Tried(g) => mapped' = 0
  BY DEF Grants, Tried
<1>2. ASSUME NEW a \in Arrays, NEW n \in Sizes,
             \/ tcc_hot_mallocz(a, n) \/ tcc_hot_realloc(a, n)
             \/ tcc_hot_settle(a, n) \/ tcc_malloc(a, n) \/ Store(a, n)
      PROVE  mapped' = 0
  <2>1. ASSUME NEW count, NEW bytes, PlaceNew(a, n, count, bytes) PROVE mapped' = 0
    BY <1>1, <2>1, SMTT(40) DEF PlaceNew
  <2>2. ASSUME NEW k, MoveFromArena(a, k, n) PROVE mapped' = 0
    BY <2>2, Zenon DEF MoveFromArena
  <2>3. SettleFromHeap(a, live[a], n) => mapped' = 0
    BY <1>1, Zenon DEF SettleFromHeap
  <2>4. \/ tcc_malloc(a, n) \/ Store(a, n) \/ ResizeInPlace(a, n) \/ ReallocOnHeap(a, n)
        => mapped' = 0
    BY Zenon DEF tcc_malloc, Store, ResizeInPlace, ReallocOnHeap
  <2>5. tcc_hot_mallocz(a, n) \/ ReallocNew(a, n) => mapped' = 0
    BY <2>1 DEF tcc_hot_mallocz, ReallocNew
  <2>6. ReallocMoves(a, n) => mapped' = 0
    BY <2>2 DEF ReallocMoves
  <2>7. tcc_hot_settle(a, n) => mapped' = 0
    BY <2>2, <2>3, <2>4 DEF tcc_hot_settle
  <2> QED
    BY <1>2, <2>4, <2>5, <2>6, <2>7, SMTT(40) DEF tcc_hot_realloc
<1>3. \A a \in Arrays : tcc_hot_free(a) => mapped' = 0
  BY DEF tcc_hot_free
<1>4. tcc_hot_release => mapped' = 0
  BY DEF tcc_hot_release
<1> QED
  BY <1>2, <1>3, <1>4 DEF Next

(* What a step does about the release, as ReleaseIsFinal says it. *)
ReleasedStep ==
  /\ (tcc_hot_release /\ \A a \in Arrays : ptr[a] <= 0) => mapped' = 0
  /\ (released /\ mapped = 0) =>
       mapped' = 0 /\ \A a \in Arrays : ptr'[a] <= 0

(* Every step treats the release as ReleaseIsFinal says. *)
LEMMA StepReleased ==
  ASSUME Contract, Inv, Inv', Next
  PROVE  ReleasedStep
<1>1. ASSUME tcc_hot_release, \A a \in Arrays : ptr[a] <= 0 PROVE mapped' = 0
  <2>1. UsedBlocks(arena.blk) = {}
    <3> SUFFICES ASSUME NEW y \in UsedBlocks(arena.blk) PROVE FALSE
      OBVIOUS
    <3>1. y \in Nat
      BY DEF Inv, ArenaOK, IsHeaderTable, UsedBlocks
    <3>2. PICK a \in Arrays : ptr[a] = y + HeaderSize
      BY DEF Inv, PtrOK
    <3> QED
      BY <1>1, <3>1, <3>2 DEF HeaderSize
  <2>2. arena.used = 0
    BY <2>1, NoneCounts, Zenon DEF Inv, ArenaOK
  <2> QED
    BY <1>1, <2>2 DEF tcc_hot_release
<1>2. ASSUME released, mapped = 0 PROVE mapped' = 0
  BY <1>2, MappedOnce DEF Inv, MappedOK
<1>3. ASSUME mapped' = 0, NEW a \in Arrays PROVE ptr'[a] <= 0
  <2>1. UsedBlocks(arena'.blk) = {}
    <3>1. ArenaOK(arena') /\ arena'.end = 0
      BY <1>3, Zenon DEF Inv, MappedOK
    <3> QED
      BY <3>1, NoMemoryNoBlocks, Zenon
  <2>2. PtrOK(ptr', {})
    BY <2>1 DEF Inv
  <2>3. ptr'[a] \in Nat \cup {-1} /\ ~(ptr'[a] > 0)
    BY <2>2 DEF PtrOK, HEAP
  <2> QED
    BY <2>3, SMTT(40)
<1> QED
  BY <1>1, <1>2, <1>3 DEF ReleasedStep

(* One array's new data as a step of the array store. *)
LEMMA BecomesContents ==
  ASSUME NEW a \in Arrays, NEW f, Becomes(a, f)
  PROVE  [c \in Arrays |-> Data(c)]' = [[c \in Arrays |-> Data(c)] EXCEPT ![a] = f]
  BY Zenon DEF Becomes

(* A step as the array store sees it. *)
LEMMA StepStores ==
  ASSUME Contract, Inv, [Next]_vars
  PROVE  Plain!Next \/ UNCHANGED [a \in Arrays |-> Data(a)]
<1> DEFINE D == [a \in Arrays |-> Data(a)]
<1>1. ASSUME UNCHANGED vars PROVE D' = D
  BY <1>1 DEF vars, Data
<1>2. ASSUME \A c \in Arrays : Data(c)' = Data(c) PROVE D' = D
  BY <1>2
<1>3. ASSUME NEW a \in Arrays, Becomes(a, NoBytes) PROVE Plain!Next
  <2>1. D' = [D EXCEPT ![a] = Plain!NoBytes]
    BY <1>3, BecomesContents DEF NoBytes, Plain!NoBytes
  <2> QED
    BY <2>1, Zenon DEF Plain!Next, Plain!Free
<1>4. ASSUME NEW a \in Arrays, NEW n \in Sizes, Stored(a, n) PROVE Plain!Next
  <2>1. D' = [D EXCEPT ![a] = [i \in 0 .. (n - 1) |-> a]]
    BY <1>4, BecomesContents, Zenon DEF Stored
  <2> QED
    BY <2>1, Zenon DEF Plain!Next, Plain!Store
<1>5. ASSUME NEW a \in Arrays, NEW n \in Sizes, Cleared(a, n) PROVE Plain!Next
  <2>1. D' = [D EXCEPT ![a] = [i \in 0 .. (n - 1) |-> Zero]]
    BY <1>5, BecomesContents, Zenon DEF Cleared
  <2>2. D[a] = Plain!NoBytes
    BY <1>5 DEF Cleared, NoBytes, Plain!NoBytes
  <2> QED
    BY <2>1, <2>2, Zenon DEF Plain!Next, Plain!Mallocz
<1>6. ASSUME NEW a \in Arrays, NEW n \in Sizes, Becomes(a, CutTo(a, n))
      PROVE  Plain!Next \/ D' = D
  <2>1. D' = [D EXCEPT ![a] = CutTo(a, n)]
    BY <1>6, BecomesContents
  <2>2. n \in Nat /\ n > 0 /\ live[a] \in Nat
    BY HotSizesAssumption DEF Inv
  <2>3. Data(a) = [i \in 0 .. (live[a] - 1) |-> Data(a)[i]]
    BY DEF Data
  <2>4. CASE live[a] <= n
    <3>1. CutTo(a, n) = Data(a)
      BY <2>2, <2>3, <2>4 DEF CutTo, Least
    <3> QED
      BY <2>1, <3>1, Zenon
  <2>5. CASE n < live[a]
    <3>1. CutTo(a, n) = [i \in 0 .. (n - 1) |-> D[a][i]]
      BY <2>2, <2>5 DEF CutTo, Least
    <3>2. n - 1 \in DOMAIN D[a]
      BY <2>2, <2>3, <2>5
    <3>3. D' = [D EXCEPT ![a] = [i \in 0 .. (n - 1) |-> D[a][i]]]
      BY <2>1, <3>1, Zenon
    <3>4. Plain!Cut(a, n)
      BY <3>2, <3>3, Zenon DEF Plain!Cut
    <3> QED
      BY <3>4, Zenon DEF Plain!Next
  <2> QED
    BY <2>2, <2>4, <2>5
<1>7. ASSUME Next PROVE Plain!Next \/ D' = D
  <2>1. DataStep
    BY <1>7, NextStep
  <2> HIDE DEF D
  <2> QED
    BY <1>2, <1>3, <1>4, <1>5, <1>6, <2>1 DEF DataStep
<1> QED
  BY <1>1, <1>7, Zenon

-----------------------------------------------------------------------------
(* The theorems, with what HotBlocksProofs shows of the arena. *)
INSTANCE HotBlocksProofs

(* The inductive invariant holds. *)
LEMMA MemoryInvariant == Spec => []Inv
<1>1. Init => Inv
  BY InitInv, ArenaMeetsContract
<1>2. Inv /\ [Next]_vars => Inv'
  <2>1. CASE Next
    BY <2>1, NextStep, ArenaMeetsContract
  <2>2. ASSUME Inv, UNCHANGED vars PROVE Inv'
    BY <2>2, Zenon DEF vars, Inv, MappedOK, ArrayOK
  <2> QED
    BY <2>1, <2>2
<1> QED
  BY <1>1, <1>2, PTL DEF Spec

(* The arena's table, the pointers, the lengths and the bytes of hotmem.c  *)
(* keep their shape, and no array has more data than room.                 *)
THEOREM MemoryTypes == Spec => []TypeOK
<1>1. Inv => TypeOK
  BY DEF Inv, TypeOK, ArenaOK, MappedOK, PtrOK, ArrayOK
<1> QED
  BY <1>1, MemoryInvariant, PTL

(* tcc_hot_realloc, tcc_hot_settle, tcc_hot_free and tcc_hot_release lose  *)
(* no block and leave no array pointing into memory that is given back.    *)
THEOREM MemoryOwned == Spec => []NoDanglingNoLeak
<1>1. Inv => NoDanglingNoLeak
  BY InvOwned
<1> QED
  BY <1>1, MemoryInvariant, PTL

(* tcc_hot_release unmaps an arena no array is in, and no later call maps  *)
(* it again or puts an array into it.                                      *)
THEOREM MemoryReleased == Spec => ReleaseIsFinal
<1>1. ASSUME Inv, Inv', [Next]_vars PROVE [ReleasedStep]_vars
  BY <1>1, StepReleased, ArenaMeetsContract
<1>2. Spec => [][ReleasedStep]_vars
  BY <1>1, MemoryInvariant, PTL DEF Spec
<1> QED
  BY <1>2 DEF ReleaseIsFinal, ReleasedStep

(* Callers of hotmem.c see plain arrays: every step of HotMemory changes   *)
(* the data of the arrays as one step of ArrayStore does, or not at all.   *)
THEOREM MemoryIsArrayStore == Spec => IsArrayStore
<1>1. Init => Plain!Init
  <2> SUFFICES ASSUME Init PROVE \A a \in Arrays : Data(a) = Plain!NoBytes
    BY DEF Plain!Init
  <2> QED
    BY DEF Init, Data, Plain!NoBytes
<1>2. ASSUME Inv, [Next]_vars PROVE [Plain!Next]_([a \in Arrays |-> Data(a)])
  <2>1. Plain!Next \/ UNCHANGED [a \in Arrays |-> Data(a)]
    BY <1>2, StepStores, ArenaMeetsContract
  <2> QED
    BY <2>1
<1>3. Spec => [][Plain!Next]_([a \in Arrays |-> Data(a)])
  BY <1>2, MemoryInvariant, PTL DEF Spec
<1>4. Spec => Plain!Init
  BY <1>1, PTL DEF Spec
<1> QED
  BY <1>3, <1>4, PTL DEF IsArrayStore, Plain!Spec
=============================================================================
