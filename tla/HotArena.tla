------------------------------ MODULE HotArena ------------------------------
(***************************************************************************)
(* The hot arena as a state machine: one client that allocates, frees and  *)
(* resizes in place, in any order, with the operators of HotBlocks.  The   *)
(* allocator is single threaded and every call runs to completion, so one  *)
(* call is one step.                                                       *)
(***************************************************************************)
EXTENDS HotBlocks, FiniteSets

CONSTANTS
  MapBytes,      \* sizes the arena may be given
  Sizes,         \* sizes the client may ask for
  MaxMisses      \* bound: failed allocations in a behaviour

ASSUME SizesAssumption ==
  /\ MapBytes \subseteq Nat /\ \A m \in MapBytes : m >= 16
  /\ Sizes \subseteq Nat
  /\ MaxMisses \in Nat

VARIABLES
  arena,         \* the HotArena, its header table included
  held           \* payload the client holds -> bytes it asked for last

vars == <<arena, held>>

Init ==
  /\ arena = NoArena
  /\ held = [p \in {} |-> 0]

(* The first use of the arena gives it memory. *)
Start(bytes) ==
  /\ arena.end = 0
  /\ arena' = hot_arena_init(bytes)
  /\ UNCHANGED held

Alloc(bytes) ==
  LET r == hot_arena_alloc(arena, bytes)
  IN  /\ r.arena.misses <= MaxMisses
      /\ arena' = r.arena
      /\ held' = IF r.p = NULL
                   THEN held
                   ELSE [q \in DOMAIN held \cup {r.p} |->
                           IF q = r.p THEN bytes ELSE held[q]]

Free(p) ==
  /\ arena' = hot_arena_free(arena, p)
  /\ held' = [q \in DOMAIN held \ {p} |-> held[q]]

Resize(p, bytes) ==
  /\ CanResize(arena, p, bytes)
  /\ arena' = hot_arena_resize(arena, p, bytes)
  /\ held' = [held EXCEPT ![p] = bytes]

(* The resize that returns 0 leaves the block and the arena as they were. *)
ResizeFails(p, bytes) ==
  /\ ~CanResize(arena, p, bytes)
  /\ UNCHANGED vars

Next ==
  \/ \E bytes \in MapBytes : Start(bytes)
  \/ \E bytes \in Sizes : Alloc(bytes)
  \/ \E p \in DOMAIN held : Free(p)
  \/ \E p \in DOMAIN held, bytes \in Sizes :
       Resize(p, bytes) \/ ResizeFails(p, bytes)

Spec == Init /\ [][Next]_vars

-----------------------------------------------------------------------------
(* The arena and the client's view have the shape of hot_arena.h. *)
TypeOK ==
  /\ arena.end \in Nat
  /\ arena = [end |-> arena.end, blk |-> arena.blk, used |-> arena.used,
              peak |-> arena.peak, misses |-> arena.misses]
  /\ IsHeaderTable(arena.blk, arena.end)
  /\ arena.used \in Nat /\ arena.peak \in Nat /\ arena.misses \in Nat
  /\ held \in [DOMAIN held -> Nat]

(* However calls were ordered, the headers can be walked: up from base     *)
(* with HB_NEXT they tile the arena exactly, down with HB_PREV they give   *)
(* the same blocks, and no two free blocks are neighbours.  hb_split,      *)
(* hb_merge_next and hb_link_next each repair a part of it.                *)
Walkable ==
  arena.end # 0 =>
    /\ Tiled(arena.blk, arena.end)
    /\ BackLinked(arena.blk, arena.end)
    /\ Coalesced(arena.blk, arena.end)
    /\ Aligned(arena.blk)

(* The client holds exactly the payloads of the blocks in use, each at     *)
(* least as large as it asked for: a split, a merge or a resize of one     *)
(* block never takes bytes from another one that is held.                  *)
HeldIsUsed ==
  /\ DOMAIN held = {b + HeaderSize : b \in UsedBlocks(arena.blk)}
  /\ \A p \in DOMAIN held :
       held[p] <= hot_arena_block_size(arena, p)

(* `used` counts exactly the bytes that held blocks occupy, their headers  *)
(* included, which is what tcc_hot_release relies on; `peak` bounds it.    *)
UsedIsExact ==
  /\ arena.used = Cardinality(UsedBytes(arena.blk))
  /\ arena.used <= arena.peak /\ arena.peak <= arena.end

(* Once everything is freed the arena is one free block again, whatever    *)
(* the order of frees: fragmentation does not outlive the blocks.          *)
AllFreeIsWhole ==
  (arena.end # 0 /\ held = [p \in {} |-> 0]) =>
    arena.blk = [b \in {0} |-> Header(arena.end - HeaderSize, FALSE, 0)]

(* Two payloads the client holds never share a byte, and no header lies    *)
(* inside one: writing through one pointer changes neither another array   *)
(* nor the headers the next call walks.                                    *)
HeldDisjoint ==
  \A p \in DOMAIN held :
    /\ \A q \in DOMAIN held \ {p} : p + held[p] <= q \/ q + held[q] <= p
    /\ \A b \in DOMAIN arena.blk : p + held[p] <= b \/ b + HeaderSize <= p
=============================================================================
