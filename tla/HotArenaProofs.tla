--------------------------- MODULE HotArenaProofs ---------------------------
(***************************************************************************)
(* Proofs about HotArena for every arena size, every set of request sizes  *)
(* and every sequence of calls.  HotBlocksProofs has what one call does to *)
(* an arena; here the client joins in.                                     *)
(***************************************************************************)
EXTENDS HotArena, HotBlocksProofs

(* The inductive invariant.  None of the properties is inductive alone: a  *)
(* merge is right only in a tiled table with exact back links, and the     *)
(* count only if a call changes no block but its own.                      *)
Inv ==
  /\ ArenaOK(arena) /\ PeakOK(arena)
  /\ held \in [DOMAIN held -> Nat]
  /\ HeldIsUsed

(* It says what the four properties say together. *)
LEMMA InvImplies == Inv => TypeOK /\ Walkable /\ HeldIsUsed /\ UsedIsExact
<1> SUFFICES ASSUME Inv PROVE TypeOK /\ Walkable /\ HeldIsUsed /\ UsedIsExact
  OBVIOUS
<1>1. TypeOK
  BY DEF Inv, ArenaOK, TypeOK
<1>2. Walkable
  BY DEF Inv, ArenaOK, Sound, Walkable, Coalesced, CoalescedBut
<1>3. UsedIsExact
  BY DEF Inv, ArenaOK, PeakOK, UsedIsExact
<1> QED
  BY <1>1, <1>2, <1>3 DEF Inv

(* Under every payload the client holds there is a block in use. *)
LEMMA InvHeld ==
  ASSUME Inv, NEW p \in DOMAIN held
  PROVE  \E b \in UsedBlocks(arena.blk) :
           /\ p = b + HeaderSize /\ p - HeaderSize = b
           /\ b \in Nat /\ b \in DOMAIN arena.blk
           /\ held[p] \in Nat /\ held[p] <= arena.blk[b].size
           /\ arena.end # 0 /\ Sound(arena.blk, arena.end)
<1>1. PICK b \in UsedBlocks(arena.blk) : p = b + HeaderSize
  BY DEF Inv, HeldIsUsed
<1>2. /\ b \in DOMAIN arena.blk /\ b \in Nat /\ arena.end # 0
      /\ Sound(arena.blk, arena.end)
  BY <1>1 DEF Inv, ArenaOK, IsHeaderTable, UsedBlocks
<1>3. p - HeaderSize = b
  BY <1>1, <1>2 DEF HeaderSize
<1>4. held[p] \in Nat /\ held[p] <= arena.blk[b].size
  BY <1>3 DEF Inv, HeldIsUsed, hot_arena_block_size
<1> QED
  BY <1>1, <1>2, <1>3, <1>4

(* The first use: one free block, nothing held. *)
LEMMA StartInv ==
  ASSUME Inv, NEW bytes \in MapBytes, Start(bytes)
  PROVE  Inv'
<1>1. /\ ArenaOK(arena') /\ PeakOK(arena') /\ UsedBlocks(arena'.blk) = {}
  BY InitArena, SizesAssumption DEF Start
<1>2. held' = held /\ DOMAIN held = {}
  BY DEF Start, Inv, HeldIsUsed, ArenaOK, IsHeaderTable, UsedBlocks
<1>3. HeldIsUsed'
  BY <1>1, <1>2 DEF HeldIsUsed
<1> QED
  BY <1>1, <1>2, <1>3 DEF Inv

(* Alloc: the client holds one block more, or what it held. *)
LEMMA AllocInv ==
  ASSUME Inv, NEW bytes \in Nat, Alloc(bytes)
  PROVE  Inv'
<1> DEFINE r == hot_arena_alloc(arena, bytes)
<1>1. AllocResult(arena, r, bytes)
  BY AllocArena DEF Inv
<1>2. /\ arena' = r.arena
      /\ held' = IF r.p = NULL
                   THEN held
                   ELSE [q \in DOMAIN held \cup {r.p} |->
                           IF q = r.p THEN bytes ELSE held[q]]
  BY DEF Alloc
<1> HIDE DEF r
<1>3. ArenaOK(arena') /\ PeakOK(arena')
  BY <1>1, <1>2 DEF AllocResult, Inv
<1>4. CASE r.p = NULL /\ r.arena.blk = arena.blk
  <2>1. held' = held /\ arena'.blk = arena.blk
    BY <1>2, <1>4
  <2>2. HeldIsUsed'
    BY <2>1 DEF Inv, HeldIsUsed, hot_arena_block_size
  <2> QED
    BY <1>3, <2>1, <2>2 DEF Inv
<1>5. ASSUME NEW b \in DOMAIN arena'.blk,
             r.p = b + HeaderSize, b \notin UsedBlocks(arena.blk),
             UsedBlocks(arena'.blk) = UsedBlocks(arena.blk) \cup {b},
             SameElsewhere(arena.blk, arena'.blk, UsedBlocks(arena.blk)),
             bytes <= arena'.blk[b].size
      PROVE  Inv'
  <2>1. b \in Nat /\ r.p # NULL /\ r.p - HeaderSize = b
    BY <1>3, <1>5 DEF ArenaOK, IsHeaderTable, NULL, HeaderSize
  <2>2. held' = [q \in DOMAIN held \cup {r.p} |-> IF q = r.p THEN bytes ELSE held[q]]
    BY <1>2, <2>1
  <2>3. DOMAIN held' = {x + HeaderSize : x \in UsedBlocks(arena'.blk)}
    BY <1>5, <2>2 DEF Inv, HeldIsUsed
  <2>4. held' \in [DOMAIN held' -> Nat]
    BY <2>2 DEF Inv
  <2>5. ASSUME NEW q \in DOMAIN held'
        PROVE  held'[q] <= arena'.blk[q - HeaderSize].size
    <3>1. CASE q = r.p
      BY <3>1, <1>5, <2>1, <2>2
    <3>2. CASE q # r.p
      <4>1. q \in DOMAIN held /\ held'[q] = held[q]
        BY <3>2, <2>2
      <4> QED
        BY <4>1, <1>5, InvHeld DEF SameElsewhere
    <3> QED
      BY <3>1, <3>2
  <2>6. HeldIsUsed'
    BY <2>3, <2>5 DEF HeldIsUsed, hot_arena_block_size
  <2> QED
    BY <1>3, <2>4, <2>6 DEF Inv
<1> QED
  BY <1>1, <1>2, <1>4, <1>5 DEF AllocResult

(* Free: the client holds one block less. *)
LEMMA FreeInv ==
  ASSUME Inv, NEW p \in DOMAIN held, Free(p)
  PROVE  Inv'
<1>1. PICK b \in UsedBlocks(arena.blk) : p = b + HeaderSize /\ b \in Nat
  BY InvHeld
<1>2. /\ ArenaOK(arena') /\ PeakOK(arena')
      /\ UsedBlocks(arena'.blk) = UsedBlocks(arena.blk) \ {b}
      /\ SameElsewhere(arena.blk, arena'.blk, UsedBlocks(arena.blk) \ {b})
  BY <1>1, FreeArena DEF Inv, Free
<1>3. held' = [q \in DOMAIN held \ {p} |-> held[q]]
  BY DEF Free
<1>4. DOMAIN held' = {x + HeaderSize : x \in UsedBlocks(arena'.blk)}
  <2>1. \A x \in UsedBlocks(arena.blk) : x \in Nat
    BY DEF Inv, ArenaOK, UsedBlocks, IsHeaderTable
  <2>2. \A x \in UsedBlocks(arena.blk) : x + HeaderSize = p <=> x = b
    BY <2>1, <1>1 DEF HeaderSize
  <2> QED
    BY <2>2, <1>2, <1>3 DEF Inv, HeldIsUsed
<1>5. held' \in [DOMAIN held' -> Nat]
  BY <1>3 DEF Inv
<1>6. ASSUME NEW q \in DOMAIN held'
      PROVE  held'[q] <= arena'.blk[q - HeaderSize].size
  <2>1. q \in DOMAIN held /\ q # p /\ held'[q] = held[q]
    BY <1>3
  <2>2. PICK c \in UsedBlocks(arena.blk) :
          q = c + HeaderSize /\ q - HeaderSize = c /\ held[q] <= arena.blk[c].size
    BY <2>1, InvHeld
  <2>3. c # b
    BY <1>1, <2>1, <2>2
  <2> QED
    BY <1>2, <2>1, <2>2, <2>3 DEF SameElsewhere
<1>7. HeldIsUsed'
  BY <1>4, <1>6 DEF HeldIsUsed, hot_arena_block_size
<1> QED
  BY <1>2, <1>5, <1>7 DEF Inv

(* Resize: the client holds the same blocks, one with a new size. *)
LEMMA ResizeInv ==
  ASSUME Inv, NEW p \in DOMAIN held, NEW bytes \in Nat, Resize(p, bytes)
  PROVE  Inv'
<1>1. PICK b \in UsedBlocks(arena.blk) : p = b + HeaderSize /\ p - HeaderSize = b
  BY InvHeld
<1>2. /\ ArenaOK(arena') /\ PeakOK(arena')
      /\ UsedBlocks(arena'.blk) = UsedBlocks(arena.blk)
      /\ SameElsewhere(arena.blk, arena'.blk, UsedBlocks(arena.blk) \ {b})
      /\ bytes <= arena'.blk[b].size
  BY <1>1, ResizeArena DEF Inv, Resize
<1>3. held' = [held EXCEPT ![p] = bytes]
  BY DEF Resize
<1>4. DOMAIN held' = DOMAIN held /\ held' \in [DOMAIN held' -> Nat]
  BY <1>3 DEF Inv
<1>5. ASSUME NEW q \in DOMAIN held'
      PROVE  held'[q] <= arena'.blk[q - HeaderSize].size
  <2>1. CASE q = p
    BY <2>1, <1>1, <1>2, <1>3, <1>4 DEF Inv
  <2>2. CASE q # p
    <3>1. q \in DOMAIN held /\ held'[q] = held[q]
      BY <2>2, <1>3, <1>4
    <3>2. PICK c \in UsedBlocks(arena.blk) :
            q = c + HeaderSize /\ q - HeaderSize = c /\ held[q] <= arena.blk[c].size
      BY <3>1, InvHeld
    <3>3. c # b
      BY <1>1, <2>2, <3>2
    <3> QED
      BY <1>2, <3>1, <3>2, <3>3 DEF SameElsewhere
  <2> QED
    BY <2>1, <2>2
<1>6. HeldIsUsed'
  BY <1>2, <1>4, <1>5 DEF Inv, HeldIsUsed, hot_arena_block_size
<1> QED
  BY <1>2, <1>4, <1>6 DEF Inv

-----------------------------------------------------------------------------
(* Whatever calls the compiler makes, in whatever order, Inv holds. *)
LEMMA ArenaInvariant == Spec => []Inv
<1>1. Init => Inv
  <2> SUFFICES ASSUME Init PROVE Inv
    OBVIOUS
  <2>1. /\ arena.end = 0 /\ arena.used = 0 /\ arena.peak = 0 /\ arena.misses = 0
        /\ DOMAIN arena.blk = {} /\ DOMAIN held = {}
        /\ arena.blk = [x \in {} |-> Header(0, FALSE, 0)]
        /\ held = [x \in {} |-> 0]
        /\ arena = [end |-> arena.end, blk |-> arena.blk, used |-> arena.used,
                    peak |-> arena.peak, misses |-> arena.misses]
    BY DEF Init, NoArena
  <2>2. UsedBlocks(arena.blk) = {}
    BY <2>1 DEF UsedBlocks
  <2>3. Cardinality(UsedBytes(arena.blk)) = 0
    BY <2>2, NoUsedBytes
  <2>4. ArenaOK(arena)
    BY <2>1, <2>3 DEF ArenaOK, IsHeaderTable
  <2>5. PeakOK(arena) /\ HeldIsUsed
    BY <2>1, <2>2 DEF PeakOK, HeldIsUsed
  <2> QED
    BY <2>1, <2>4, <2>5 DEF Inv
<1>2. Inv /\ [Next]_vars => Inv'
  <2> SUFFICES ASSUME Inv, [Next]_vars PROVE Inv'
    OBVIOUS
  <2>0. \A bytes \in Sizes : bytes \in Nat
    BY SizesAssumption
  <2>1. ASSUME NEW bytes \in MapBytes, Start(bytes) PROVE Inv'
    BY <2>1, StartInv
  <2>2. ASSUME NEW bytes \in Sizes, Alloc(bytes) PROVE Inv'
    BY <2>0, <2>2, AllocInv
  <2>3. ASSUME NEW p \in DOMAIN held, Free(p) PROVE Inv'
    BY <2>3, FreeInv
  <2>4. ASSUME NEW p \in DOMAIN held, NEW bytes \in Sizes, Resize(p, bytes)
        PROVE  Inv'
    BY <2>0, <2>4, ResizeInv
  <2>5. CASE UNCHANGED vars
    BY <2>5 DEF vars, Inv, HeldIsUsed
  <2> QED
    BY <2>1, <2>2, <2>3, <2>4, <2>5 DEF Next, ResizeFails
<1> QED
  BY <1>1, <1>2, PTL DEF Spec

(* The arena keeps the shape of hot_arena.h and its counters never go      *)
(* below zero.                                                             *)
THEOREM ArenaTypes == Spec => []TypeOK
BY ArenaInvariant, InvImplies, PTL

(* The header table stays walkable in both directions, with no two free    *)
(* neighbours, whatever hb_split, hb_merge_next and hb_link_next did.      *)
THEOREM ArenaWalkable == Spec => []Walkable
BY ArenaInvariant, InvImplies, PTL

(* The client holds exactly the payloads of the blocks in use, each as     *)
(* large as it asked for.                                                  *)
THEOREM ArenaHolds == Spec => []HeldIsUsed
BY ArenaInvariant, InvImplies, PTL

(* `used` counts exactly the bytes of the blocks in use and `peak` bounds  *)
(* it, within the arena.                                                   *)
THEOREM ArenaCounts == Spec => []UsedIsExact
BY ArenaInvariant, InvImplies, PTL

(* No two held payloads share a byte and no header lies inside one. *)
THEOREM ArenaDisjoint == Spec => []HeldDisjoint
<1>1. Inv => HeldDisjoint
  <2> SUFFICES ASSUME Inv PROVE HeldDisjoint
    OBVIOUS
  <2> DEFINE blk == arena.blk
  <2>1. ASSUME NEW p \in DOMAIN held, NEW c \in DOMAIN blk
        PROVE  \/ c = p - HeaderSize
               \/ p + held[p] <= c
               \/ c + HeaderSize + blk[c].size + HeaderSize <= p
    <3> DEFINE b == p - HeaderSize
    <3>1. /\ Sound(blk, arena.end) /\ b \in DOMAIN blk /\ p = b + HeaderSize
          /\ held[p] <= blk[b].size /\ held[p] \in Nat
      BY InvHeld
    <3> HIDE DEF b
    <3>2. /\ b \in Nat /\ c \in Nat /\ blk[b].size \in Nat /\ blk[c].size \in Nat
      BY <3>1 DEF Sound, IsHeaderTable
    <3>3. CASE b < c
      <4>1. HB_NEXT(blk, b) <= c
        BY <3>1, <3>3 DEF Sound, Tiled
      <4> QED
        BY <4>1, <3>1, <3>2 DEF HB_NEXT, HeaderSize
    <3>4. CASE c < b
      <4>1. HB_NEXT(blk, c) <= b
        BY <3>1, <3>4 DEF Sound, Tiled
      <4> QED
        BY <4>1, <3>1, <3>2 DEF HB_NEXT, HeaderSize
    <3>5. CASE b = c
      BY <3>5 DEF b
    <3> QED
      BY <3>2, <3>3, <3>4, <3>5
  <2>2. ASSUME NEW p \in DOMAIN held, NEW q \in DOMAIN held \ {p}
        PROVE  p + held[p] <= q \/ q + held[q] <= p
    <3> DEFINE c == q - HeaderSize
    <3>1. /\ c \in DOMAIN blk /\ q = c + HeaderSize /\ c \in Nat
          /\ held[q] <= blk[c].size /\ held[q] \in Nat
          /\ p \in Nat /\ held[p] \in Nat /\ blk[c].size \in Nat
          /\ p - HeaderSize \in Nat /\ p = (p - HeaderSize) + HeaderSize
      BY InvHeld DEF HeaderSize, Sound, IsHeaderTable
    <3>2. c # p - HeaderSize
      BY <3>1
    <3> HIDE DEF c
    <3> QED
      BY <2>1, <3>1, <3>2 DEF HeaderSize
  <2>3. ASSUME NEW p \in DOMAIN held, NEW b \in DOMAIN blk
        PROVE  p + held[p] <= b \/ b + HeaderSize <= p
    <3>1. /\ b \in Nat /\ blk[b].size \in Nat
          /\ p - HeaderSize \in Nat /\ p = (p - HeaderSize) + HeaderSize
      BY InvHeld DEF Sound, IsHeaderTable
    <3> QED
      BY <2>1, <3>1 DEF HeaderSize
  <2> QED
    BY <2>2, <2>3 DEF HeldDisjoint
<1> QED
  BY <1>1, ArenaInvariant, PTL

(* When nothing is held the arena is one free block again. *)
THEOREM ArenaReassembles == Spec => []AllFreeIsWhole
<1>1. Inv => AllFreeIsWhole
  <2> SUFFICES ASSUME Inv, arena.end # 0, held = [p \in {} |-> 0]
               PROVE  arena.blk = [b \in {0} |-> Header(arena.end - HeaderSize, FALSE, 0)]
    BY DEF AllFreeIsWhole
  <2> DEFINE blk == arena.blk
             end == arena.end
  <2>1. Sound(blk, end) /\ CoalescedBut(blk, end, {})
    BY DEF Inv, ArenaOK
  <2>2. UsedBlocks(blk) = {}
    <3>1. DOMAIN held = {}
      OBVIOUS
    <3> QED
      BY <3>1 DEF Inv, HeldIsUsed
  <2> HIDE DEF blk, end
  <2>3. /\ 0 \in DOMAIN blk /\ end \in Nat
        /\ \A x \in DOMAIN blk : /\ x \in Nat /\ x < end /\ ~blk[x].used
                                 /\ blk[x] \in [size : Nat, used : BOOLEAN, prev : Nat]
    BY <2>1, <2>2 DEF Sound, Tiled, IsHeaderTable, UsedBlocks
  <2>4. HB_NEXT(blk, 0) = end
    <3>1. HB_NEXT(blk, 0) = end \/ HB_NEXT(blk, 0) \in DOMAIN blk
      BY <2>1, <2>3 DEF Sound, Tiled
    <3>2. ~(HB_NEXT(blk, 0) < end)
      BY <2>1, <2>3, <3>1 DEF CoalescedBut
    <3> QED
      BY <3>1, <3>2, <2>3
  <2>5. DOMAIN blk = {0}
    <3>1. ASSUME NEW x \in DOMAIN blk PROVE x = 0
      <4>1. ~(0 < x)
        BY <2>1, <2>3, <2>4 DEF Sound, Tiled
      <4> QED
        BY <4>1, <2>3
    <3> QED
      BY <3>1, <2>3
  <2>6. blk[0].size = end - HeaderSize /\ blk[0].prev = 0
    BY <2>1, <2>3, <2>4 DEF HB_NEXT, HeaderSize, Sound, BackLinked
  <2>7. blk[0] = Header(end - HeaderSize, FALSE, 0)
    BY <2>3, <2>6 DEF Header
  <2>8. blk = [x \in DOMAIN blk |-> blk[x]]
    BY <2>1 DEF Sound, IsHeaderTable
  <2> QED
    BY <2>5, <2>7, <2>8 DEF blk, end
<1> QED
  BY <1>1, ArenaInvariant, PTL
=============================================================================
