--------------------------- MODULE ArenaContract ---------------------------
(***************************************************************************)
(* What callers of src/source/memory/hot_arena.c may rely on: the shape of *)
(* an arena between two calls, and what each call makes of it.  The proofs *)
(* about HotBlocks establish it; those about HotMemory use nothing else.   *)
(***************************************************************************)
EXTENDS HotBlocks, FiniteSets

(* Header tables that are whole except that free neighbours may be waiting *)
(* to be merged: what each helper of hot_arena.c keeps.                    *)
Sound(blk, end) ==
  /\ end \in Nat
  /\ IsHeaderTable(blk, end)
  /\ Tiled(blk, end)
  /\ BackLinked(blk, end)
  /\ Aligned(blk)

(* What a step outside the block b leaves alone: no other block changes    *)
(* its size or its flag.                                                   *)
SameElsewhere(old, new, S) ==
  \A x \in S : /\ x \in DOMAIN old /\ x \in DOMAIN new
               /\ new[x].size = old[x].size
               /\ new[x].used = old[x].used

(* Free blocks are followed by blocks in use, except perhaps those in S. *)
CoalescedBut(blk, end, S) ==
  \A x \in DOMAIN blk \ S :
    HB_NEXT(blk, x) < end => blk[x].used \/ blk[HB_NEXT(blk, x)].used

(* An arena between two calls.  Without memory it has no header. *)
ArenaOK(a) ==
  /\ a = [end |-> a.end, blk |-> a.blk, used |-> a.used,
          peak |-> a.peak, misses |-> a.misses]
  /\ a.end \in Nat /\ a.used \in Nat /\ a.peak \in Nat /\ a.misses \in Nat
  /\ IsHeaderTable(a.blk, a.end)
  /\ a.end # 0 => Sound(a.blk, a.end) /\ CoalescedBut(a.blk, a.end, {})
  /\ a.used = Cardinality(UsedBytes(a.blk))

PeakOK(a) == a.used <= a.peak /\ a.peak <= a.end

(* What hot_arena_alloc makes of an arena: the blocks in use gain the one  *)
(* whose payload it returns, or stay what they are, and none moves.        *)
AllocResult(a, r, bytes) ==
  /\ ArenaOK(r.arena) /\ (PeakOK(a) => PeakOK(r.arena))
  /\ r.arena.end = a.end
  /\ \/ /\ r.p = NULL
        /\ r.arena.blk = a.blk
     \/ \E b \in DOMAIN r.arena.blk :
          /\ a.end # 0
          /\ r.p = b + HeaderSize
          /\ b \notin UsedBlocks(a.blk)
          /\ UsedBlocks(r.arena.blk) = UsedBlocks(a.blk) \cup {b}
          /\ SameElsewhere(a.blk, r.arena.blk, UsedBlocks(a.blk))
          /\ bytes <= r.arena.blk[b].size

(* hot_arena_init makes one free block of the memory it is given. *)
InitResult(r, bytes) ==
  /\ ArenaOK(r) /\ PeakOK(r)
  /\ r.end # 0 /\ r.end = 8 * (bytes \div 8)
  /\ UsedBlocks(r.blk) = {}

(* hot_arena_free takes the block b, and that one only, out of use. *)
FreeResult(a, r, b) ==
  /\ ArenaOK(r) /\ (PeakOK(a) => PeakOK(r))
  /\ r.end = a.end
  /\ UsedBlocks(r.blk) = UsedBlocks(a.blk) \ {b}
  /\ SameElsewhere(a.blk, r.blk, UsedBlocks(a.blk) \ {b})

(* hot_arena_resize in place changes the size of the block b only. *)
ResizeResult(a, r, b, bytes) ==
  /\ ArenaOK(r) /\ (PeakOK(a) => PeakOK(r))
  /\ r.end = a.end
  /\ UsedBlocks(r.blk) = UsedBlocks(a.blk)
  /\ SameElsewhere(a.blk, r.blk, UsedBlocks(a.blk) \ {b})
  /\ bytes <= r.blk[b].size

Contract ==
  /\ \A bytes \in Nat : bytes >= 16 => InitResult(hot_arena_init(bytes), bytes)
  /\ \A a : ArenaOK(a) => \A bytes \in Nat :
       AllocResult(a, hot_arena_alloc(a, bytes), bytes)
  /\ \A a : ArenaOK(a) => \A b \in UsedBlocks(a.blk) :
       FreeResult(a, hot_arena_free(a, b + HeaderSize), b)
  /\ \A a : ArenaOK(a) => \A b \in UsedBlocks(a.blk), bytes \in Nat :
       CanResize(a, b + HeaderSize, bytes) =>
         ResizeResult(a, hot_arena_resize(a, b + HeaderSize, bytes), b, bytes)
  /\ \A blk : UsedBlocks(blk) = {} => Cardinality(UsedBytes(blk)) = 0
  /\ \A a : ArenaOK(a) /\ a.used = 0 => UsedBlocks(a.blk) = {}
=============================================================================
