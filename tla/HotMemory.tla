------------------------------ MODULE HotMemory ------------------------------
(***************************************************************************)
(* The compiler's hot arrays (src/source/driver/libtcc.c): the arena of    *)
(* HotBlocks in front of the heap.  An array lives in the arena           *)
(* while it fits there and moves to the heap when it does not; the arena   *)
(* is mapped at its first use and unmapped when the link starts.           *)
(*                                                                         *)
(* `mem` holds the bytes of the arena.  Bytes nobody may read are Junk:    *)
(* headers, freed payloads, what lies behind an array's data.  A call that *)
(* writes a header over live data therefore destroys it in the model as it *)
(* does in the program.  The heap is external: an allocation there never   *)
(* fails (tcc_malloc ends the compile) and never overlaps anything.        *)
(***************************************************************************)
EXTENDS HotBlocks

CONSTANTS
  Arrays,        \* the arrays of the compiler; an array's name is its data
  Sizes,         \* byte counts it asks for
  MapBytes,      \* sizes mmap may grant the arena
  MaxMisses,     \* bound: failed arena allocations in a behaviour
  Zero, Junk

ASSUME HotSizesAssumption ==
  /\ MapBytes \subseteq Nat /\ \A m \in MapBytes : m >= 16 /\ m % 8 = 0
  /\ Sizes \subseteq Nat \ {0}

VARIABLES
  arena,         \* hot_arena
  mapped,        \* hot_arena_mapped
  tried,         \* hot_arena_tried
  mem,           \* the bytes of the arena
  heap,          \* array -> its bytes on the heap
  ptr,           \* array -> payload in the arena, HEAP or NULL
  len,           \* array -> bytes it asked for last
  live,          \* array -> how many of them, from the first, hold its data
  released       \* history: tcc_hot_release was called

vars == <<arena, mapped, tried, mem, heap, ptr, len, live, released>>

HEAP == -1       \* any address outside the arena

NoBytes == [i \in {} |-> Zero]

Init ==
  /\ arena = NoArena /\ mapped = 0 /\ tried = FALSE
  /\ mem = NoBytes
  /\ heap = [a \in Arrays |-> NoBytes]
  /\ ptr = [a \in Arrays |-> NULL]
  /\ len = [a \in Arrays |-> 0]
  /\ live = [a \in Arrays |-> 0]
  /\ released = FALSE

-----------------------------------------------------------------------------
(* Memory. *)

(* The headers a call wrote, and the bytes under them. *)
WrittenBytes(old, new) ==
  UNION {h .. (h + HeaderSize - 1) :
           h \in {h \in DOMAIN new : h \notin DOMAIN old \/ old[h] # new[h]}}

(* The arena's bytes after the headers went from those of a0 to those of a. *)
Headed(m, a0, a) ==
  LET written == WrittenBytes(a0.blk, a.blk)
  IN  [i \in 0 .. (a.end - 1) |->
         IF i \in written \/ i \notin DOMAIN m THEN Junk ELSE m[i]]

(* n bytes of value v, and the first k bytes of src in n bytes. *)
Filled(n, v) == [i \in 0 .. (n - 1) |-> v]

Copied(src, k, n) ==
  [i \in 0 .. (n - 1) |-> IF i < k /\ i \in DOMAIN src THEN src[i] ELSE Junk]

Put(m, p, bytes) ==
  [i \in DOMAIN m |-> IF i - p \in DOMAIN bytes THEN bytes[i - p] ELSE m[i]]

(* n bytes at p that nobody may read any more. *)
Wiped(m, p, n) == [i \in DOMAIN m |-> IF p <= i /\ i < p + n THEN Junk ELSE m[i]]

(* The data of an array, wherever it is. *)
Data(a) ==
  [i \in 0 .. (live[a] - 1) |->
     IF ptr[a] = HEAP THEN heap[a][i] ELSE mem[ptr[a] + i]]

Least(m, n) == IF m < n THEN m ELSE n

(* The first allocation maps the arena; grant is what mmap gave, 0 if it   *)
(* refused every size of the descending loop.                              *)
Grants == IF tried THEN {0} ELSE MapBytes \cup {0}

hot_alloc(grant, bytes) ==
  hot_arena_alloc(IF grant = 0 THEN arena ELSE hot_arena_init(grant), bytes)

Tried(grant) ==
  /\ tried' = TRUE
  /\ mapped' = IF grant = 0 THEN mapped ELSE grant

(* NULL is outside every arena; in the model it shares its number with the *)
(* arena's first header.                                                   *)
InArena(a) == ptr[a] # NULL /\ hot_arena_contains(arena, ptr[a])

(* Array a has n bytes now, count of them data: at p in the arena or, if p *)
(* is NULL, these bytes on the heap.                                       *)
Place(a, p, n, count, bytes) ==
  /\ live' = [live EXCEPT ![a] = count]
  /\ len' = [len EXCEPT ![a] = n]
  /\ ptr' = [ptr EXCEPT ![a] = IF p = NULL THEN HEAP ELSE p]
  /\ heap' = [heap EXCEPT ![a] = IF p = NULL THEN bytes ELSE NoBytes]

(* A fresh allocation of n bytes, in the arena if it has room. *)
PlaceNew(a, n, count, bytes) ==
  \E grant \in Grants :
    LET r == hot_alloc(grant, n)
        m == Headed(mem, arena, r.arena)
    IN  /\ r.arena.misses <= MaxMisses
        /\ Tried(grant)
        /\ arena' = r.arena
        /\ mem' = IF r.p = NULL THEN m ELSE Put(m, r.p, bytes)
        /\ Place(a, r.p, n, count, bytes)

-----------------------------------------------------------------------------
(* The operations. *)

tcc_hot_mallocz(a, n) == ptr[a] = NULL /\ PlaceNew(a, n, n, Filled(n, Zero))

(* realloc(NULL, n): the same without clearing. *)
ReallocNew(a, n) == ptr[a] = NULL /\ PlaceNew(a, n, 0, Filled(n, Junk))

(* An array on the heap stays there. *)
ReallocOnHeap(a, n) ==
  /\ ptr[a] = HEAP
  /\ Place(a, NULL, n, Least(live[a], n), Copied(heap[a], n, n))
  /\ UNCHANGED <<arena, mapped, tried, mem>>

ResizeInPlace(a, n) ==
  /\ InArena(a)
  /\ CanResize(arena, ptr[a], n)
  /\ arena' = hot_arena_resize(arena, ptr[a], n)
  /\ mem' = Wiped(Headed(mem, arena, arena'), ptr[a] + n, live[a] - n)
  /\ live' = [live EXCEPT ![a] = Least(@, n)]
  /\ len' = [len EXCEPT ![a] = n]
  /\ UNCHANGED <<mapped, tried, heap, ptr>>

(* Mutant: the old payload is not freed. *)
MoveLeaks(a, k, n) ==
  LET r     == hot_alloc(0, n)
      old   == ptr[a]
      size  == hot_arena_block_size(arena, old)
      m1    == Headed(mem, arena, r.arena)
      bytes == Copied([i \in 0 .. (size - 1) |-> m1[old + i]], k, n)
      m2    == IF r.p = NULL THEN m1 ELSE Put(m1, r.p, bytes)
  IN  /\ ~CanResize(arena, old, n)
      /\ r.arena.misses <= MaxMisses
      /\ arena' = r.arena
      /\ mem' = Wiped(Headed(m2, r.arena, arena'), old, size)
      /\ Place(a, r.p, n, Least(live[a], n), bytes)
      /\ UNCHANGED <<mapped, tried>>

(* Mutant: the payload is freed before it is copied. *)
MoveFreesFirst(a, k, n) ==
  LET r     == hot_arena_alloc(hot_arena_free(arena, ptr[a]), n)
      old   == ptr[a]
      size  == hot_arena_block_size(arena, old)
      m1    == Wiped(Headed(mem, arena, r.arena), old, size)
      bytes == Copied([i \in 0 .. (size - 1) |-> m1[old + i]], k, n)
      m2    == IF r.p = NULL THEN m1 ELSE Put(m1, r.p, bytes)
  IN  /\ ~CanResize(arena, old, n)
      /\ r.arena.misses <= MaxMisses
      /\ arena' = r.arena
      /\ mem' = m2
      /\ Place(a, r.p, n, Least(live[a], n), bytes)
      /\ UNCHANGED <<mapped, tried>>

(* Allocate elsewhere, copy k bytes, then free the old payload. *)
MoveFromArena(a, k, n) ==
  LET r     == hot_alloc(0, n)
      old   == ptr[a]
      size  == hot_arena_block_size(arena, old)
      m1    == Headed(mem, arena, r.arena)
      bytes == Copied([i \in 0 .. (size - 1) |-> m1[old + i]], k, n)
      m2    == IF r.p = NULL THEN m1 ELSE Put(m1, r.p, bytes)
  IN  /\ ~CanResize(arena, old, n)
      /\ r.arena.misses <= MaxMisses
      /\ arena' = hot_arena_free(r.arena, old)
      /\ mem' = Wiped(Headed(m2, r.arena, arena'), old, size)
      /\ Place(a, r.p, n, Least(live[a], n), bytes)
      /\ UNCHANGED <<mapped, tried>>

ReallocMoves(a, n) ==
  /\ InArena(a)
  /\ MoveFromArena(a, Least(hot_arena_block_size(arena, ptr[a]), n), n)

tcc_hot_realloc(a, n) ==
  \/ ReallocNew(a, n)
  \/ ReallocOnHeap(a, n)
  \/ ResizeInPlace(a, n)
  \/ ReallocMoves(a, n)

(* Settling an array that is on the heap, or nowhere yet, tries the arena  *)
(* and otherwise reallocates it on the heap.                               *)
SettleFromHeap(a, used, cap) ==
  \E grant \in Grants :
    LET r == hot_alloc(grant, cap)
        m == Headed(mem, arena, r.arena)
        bytes == Copied(heap[a], IF r.p = NULL THEN cap ELSE used, cap)
    IN  /\ ~InArena(a)
        /\ r.arena.misses <= MaxMisses
        /\ Tried(grant)
        /\ arena' = r.arena
        /\ mem' = IF r.p = NULL THEN m ELSE Put(m, r.p, bytes)
        /\ Place(a, r.p, cap, used, bytes)

(* Callers pass the data they have as used, and room for it as cap. *)
tcc_hot_settle(a, cap) ==
  /\ live[a] <= cap
  /\ \/ ResizeInPlace(a, cap)
     \/ InArena(a) /\ MoveFromArena(a, live[a], cap)
     \/ SettleFromHeap(a, live[a], cap)

(* An array that starts on the heap, as the new operand pool of            *)
(* tcc_ir_settle does before it is settled.                                *)
tcc_malloc(a, n) ==
  /\ ptr[a] = NULL
  /\ Place(a, NULL, n, 0, Filled(n, Junk))
  /\ UNCHANGED <<arena, mapped, tried, mem>>

tcc_hot_free(a) ==
  /\ ptr[a] # NULL
  /\ IF InArena(a)
       THEN /\ arena' = hot_arena_free(arena, ptr[a])
            /\ mem' = Wiped(Headed(mem, arena, arena'), ptr[a],
                            hot_arena_block_size(arena, ptr[a]))
       ELSE UNCHANGED <<arena, mem>>
  /\ heap' = [heap EXCEPT ![a] = NoBytes]
  /\ ptr' = [ptr EXCEPT ![a] = NULL]
  /\ len' = [len EXCEPT ![a] = 0]
  /\ live' = [live EXCEPT ![a] = 0]
  /\ UNCHANGED <<mapped, tried>>

(* Mutant: the arena's bounds are not reset. *)
ReleaseKeepsBase ==
  /\ released' = TRUE
  /\ tried' = TRUE
  /\ IF mapped # 0 /\ arena.used = 0
       THEN /\ mapped' = 0
            /\ arena' = arena
            /\ mem' = NoBytes
       ELSE UNCHANGED <<mapped, arena, mem>>
  /\ UNCHANGED <<heap, ptr, len, live>>

(* Mutant: hot_arena_tried is not set. *)
ReleaseForgetsTried ==
  /\ released' = TRUE
  /\ UNCHANGED tried
  /\ IF mapped # 0 /\ arena.used = 0
       THEN /\ mapped' = 0
            /\ arena' = [arena EXCEPT !.end = 0, !.blk = NoArena.blk]
            /\ mem' = NoBytes
       ELSE UNCHANGED <<mapped, arena, mem>>
  /\ UNCHANGED <<heap, ptr, len, live>>

(* Before the link: give the arena back if nothing lives in it. *)
tcc_hot_release ==
  /\ released' = TRUE
  /\ tried' = TRUE
  /\ IF mapped # 0 /\ arena.used = 0
       THEN /\ mapped' = 0
            /\ arena' = [arena EXCEPT !.end = 0, !.blk = NoArena.blk]
            /\ mem' = NoBytes
       ELSE UNCHANGED <<mapped, arena, mem>>
  /\ UNCHANGED <<heap, ptr, len, live>>

(* The client writes its data into the first n bytes of the array. *)
Store(a, n) ==
  LET bytes == Copied(Filled(n, a), n, len[a])
  IN  /\ ptr[a] # NULL /\ n <= len[a]
      /\ live' = [live EXCEPT ![a] = n]
      /\ IF ptr[a] = HEAP
           THEN heap' = [heap EXCEPT ![a] = bytes] /\ UNCHANGED mem
           ELSE mem' = Put(mem, ptr[a], bytes) /\ UNCHANGED heap
      /\ UNCHANGED <<arena, mapped, tried, ptr, len>>

Next ==
  \/ /\ UNCHANGED released
     /\ \E a \in Arrays :
          \/ \E n \in Sizes :
               \/ tcc_hot_mallocz(a, n) \/ tcc_hot_realloc(a, n)
               \/ tcc_hot_settle(a, n) \/ tcc_malloc(a, n) \/ Store(a, n)
          \/ tcc_hot_free(a)
  \/ tcc_hot_release

Spec == Init /\ [][Next]_vars

-----------------------------------------------------------------------------
(* The variables have their shape. *)
TypeOK ==
  /\ IsHeaderTable(arena.blk, arena.end)
  /\ mapped \in MapBytes \cup {0} /\ tried \in BOOLEAN /\ released \in BOOLEAN
  /\ ptr \in [Arrays -> Nat \cup {HEAP}] /\ len \in [Arrays -> Nat]
  /\ \A a \in Arrays : live[a] \in 0 .. len[a]
  /\ DOMAIN mem = 0 .. (arena.end - 1)

(* The blocks in use are exactly the payloads arrays point to, one array   *)
(* each, and the arena is mapped as long as there is one: no array dangles *)
(* after tcc_hot_release, and no block is lost when an array moves.        *)
NoDanglingNoLeak ==
  LET placed == {a \in Arrays : ptr[a] > 0}
  IN  /\ {ptr[a] : a \in placed} = {b + HeaderSize : b \in UsedBlocks(arena.blk)}
      /\ \A a, b \in placed : ptr[a] = ptr[b] => a = b
      /\ placed # {} => mapped # 0
      /\ (mapped = 0) = (arena.end = 0)

(* Releasing when every array has left the arena gives the memory back,    *)
(* and from then on the arena stays unmapped: later arrays use the heap.   *)
ReleaseIsFinal ==
  [][/\ (tcc_hot_release /\ \A a \in Arrays : ptr[a] <= 0) => mapped' = 0
     /\ (released /\ mapped = 0) =>
          mapped' = 0 /\ \A a \in Arrays : ptr'[a] <= 0]_vars

(* Callers see plain arrays: wherever tcc_hot_realloc and tcc_hot_settle   *)
(* put the bytes, the data of the array they move is intact, and neither   *)
(* they nor a header the allocator writes change any other array.          *)
Plain == INSTANCE ArrayStore WITH contents <- [a \in Arrays |-> Data(a)]

IsArrayStore == Plain!Spec
=============================================================================
