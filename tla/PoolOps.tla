------------------------------ MODULE PoolOps ------------------------------
(***************************************************************************)
(* The literal pool of the Thumb emitter as operators on the state of one  *)
(* pass (src/source/backend/arch/arm/thumb: arm-thumb-emit.c, -gen.c).     *)
(*                                                                         *)
(* Constants that no instruction can hold are collected in a pool, which   *)
(* is written behind a branch before a load gets out of reach of its       *)
(* literal.  The IR is laid out by a rehearsal that only counts bytes and  *)
(* by a real pass that writes them; both run this code.                    *)
(*                                                                         *)
(* Addresses are bytes, instructions have 2 or 4 of them.  A key stands    *)
(* for the pair of symbol and immediate.  Of the code only the literals    *)
(* and the loads that read them are kept, for the latest flush (`out`).    *)
(***************************************************************************)
EXTENDS Integers, Sequences

CONSTANTS
  Constants,     \* literals without a symbol
  Symbols,       \* literals that are the address of a symbol
  CacheSlot,     \* the entry of the lookup cache that a key uses
  RangeLimit,    \* reach of LDR (16 bit) and LDRD, THUMB_POOL_RANGE_LIMIT
  LongLimit,     \* reach of LDR.W
  FlushSlack,    \* THUMB_POOL_FLUSH_SLACK
  ITLengths,     \* conditioned instructions behind an IT: within 1 .. 4
  MaxAsm         \* bound on the inline assembly in a function, in bytes

ASSUME ReachAssumption ==
  /\ RangeLimit \in Nat /\ LongLimit \in Nat /\ FlushSlack \in Nat
  /\ FlushSlack < RangeLimit /\ RangeLimit <= LongLimit

ASSUME BlockAssumption ==
  /\ ITLengths \subseteq 1 .. 4
  /\ MaxAsm \in Nat

(* What is not measured before it is written fits behind what is: inline   *)
(* assembly into the slack, and an IT block with its first literals into   *)
(* the reach of a load.  The code has 64 bytes of slack and 1020 of reach. *)
ASSUME ReserveAssumption ==
  /\ MaxAsm < FlushSlack
  /\ \A n \in {1} \cup ITLengths : 12 * n + MaxAsm <= RangeLimit

Keys == Constants \cup Symbols

ASSUME CacheAssumption == DOMAIN CacheSlot = Keys

Slots == {CacheSlot[k] : k \in Keys}

None == 0                   \* no index: indices count from 1 here

NoHash == [k \in Keys |-> None]

NoCache == [t \in Slots |-> [key |-> None, index |-> None]]

NoOut == [loads |-> {}, words |-> [a \in {} |-> <<>>], end |-> -1]

(* dry: dry_run_state.active.  gen: generating_function.  pool: the array  *)
(* the pass fills.  count, first, bytes: literal_pool_count and the        *)
(* window.  it: conditioned instructions to come.  counted: the entries    *)
(* of a dry pool whose bytes have been added up.                           *)
Fresh(ind) ==
  [dry |-> FALSE, gen |-> TRUE, ind |-> ind, pool |-> <<>>, count |-> 0,
   first |-> -1, bytes |-> 0, it |-> 0, table |-> NoHash, cache |-> NoCache,
   counted |-> 0, countedBytes |-> 0, out |-> NoOut]

-----------------------------------------------------------------------------
(* Writing the pool. *)

Width(e) == IF e.shared = None THEN e.size ELSE 0

(* The bytes of the first k entries, for every k. *)
Sums(pool) ==
  LET sum[k \in 0 .. Len(pool)] ==
        IF k = 0 THEN 0 ELSE sum[k - 1] + Width(pool[k])
  IN  sum

(* literal_positions: a shared entry has the position of its original.     *)
(* The array is filled upwards; -1 is a position that is not there yet.    *)
Positions(pool, base) ==
  LET sum == Sums(pool)
      pos[i \in 1 .. Len(pool)] ==
        IF pool[i].shared = None THEN base + sum[i - 1]
        ELSE IF pool[i].shared < i THEN pos[pool[i].shared]
        ELSE -1
  IN  pos

(* The offset that is put into the load at `patch`. *)
Field(position, patch) == 4 * ((position - patch + 3) \div 4) - 4

(* The word a load reads once its offset is patched: PC is the address     *)
(* plus 4, rounded down to a word.                                         *)
ReadAddress(l) == 4 * ((l.patch + 4) \div 4) + l.field

Limit(e) == IF e.short \/ e.size = 8 THEN RangeLimit ELSE LongLimit

Written(pool, base) ==
  LET pos    == Positions(pool, base)
      unique == {i \in DOMAIN pool : pool[i].shared = None}
      lows   == {<<pos[i], <<pool[i].key, "low">>>> : i \in unique}
      highs  == {<<pos[i] + 4, <<pool[i].key, "high">>>> :
                   i \in {j \in unique : pool[j].size = 8}}
  IN  [loads |-> {[key |-> pool[i].key, size |-> pool[i].size,
                   patch |-> pool[i].patch, limit |-> Limit(pool[i]),
                   field |-> Field(pos[i], pool[i].patch)] : i \in DOMAIN pool},
       words |-> [a \in {w[1] : w \in lows \cup highs} |->
                    (CHOOSE w \in lows \cup highs : w[1] = a)[2]],
       end   |-> base + Sums(pool)[Len(pool)]]

(* Mutant: the lookup cache survives the flush. *)
FlushedKeepsCache(s) ==
  [s EXCEPT !.count = 0, !.first = -1, !.bytes = 0, !.table = NoHash]

th_literal_pool_flushed(s) ==
  [s EXCEPT !.count = 0, !.first = -1, !.bytes = 0, !.table = NoHash,
            !.cache = NoCache]

(* Where the literals begin: behind the branch over them, word aligned. *)
PoolBase(s) ==
  s.ind + (IF s.gen THEN 4 ELSE 0) + (IF s.ind % 4 = 2 THEN 2 ELSE 0)

(* Mutant: the padding before the literals is left out of the dry run. *)
DryFlushUnaligned(s) ==
  LET sum   == Sums(s.pool)
      bytes == s.countedBytes + sum[Len(s.pool)] - sum[s.counted]
  IN  [s EXCEPT !.ind = s.ind + 4 + bytes, !.counted = Len(s.pool),
                !.countedBytes = bytes]

(* A dry pass keeps its entries and adds the bytes of all it ever had. *)
DryFlush(s) ==
  LET sum   == Sums(s.pool)
      bytes == s.countedBytes + sum[Len(s.pool)] - sum[s.counted]
  IN  [s EXCEPT !.ind = PoolBase(s) + bytes, !.counted = Len(s.pool),
                !.countedBytes = bytes]

RealFlush(s) ==
  [s EXCEPT !.ind = PoolBase(s) + Sums(s.pool)[Len(s.pool)],
            !.out = Written(s.pool, PoolBase(s)), !.pool = <<>>]

th_literal_pool_generate(s) ==
  IF s.count = 0
    THEN s
    ELSE th_literal_pool_flushed(IF s.dry THEN DryFlush(s) ELSE RealFlush(s))

-----------------------------------------------------------------------------
(* When it is written. *)

(* Mutant: the code behind the first load is not counted. *)
SpanOfPool(s, upcoming) ==
  IF Len(s.pool) = 0 \/ s.first < 0 THEN 0 ELSE upcoming + 4 + 2 + s.bytes

(* From the first load to the end of the pool, were it written next. *)
th_pool_span_after(s, upcoming) ==
  IF Len(s.pool) = 0 \/ s.first < 0
    THEN 0
    ELSE (s.ind - s.first) + upcoming + 4 + 2 + s.bytes

OutOfBudget(s, upcoming) ==
  th_pool_span_after(s, upcoming) >= RangeLimit - FlushSlack

th_literal_pool_would_flush_for(s, upcoming) ==
  s.gen /\ OutOfBudget(s, upcoming)

th_literal_pool_reserve_upcoming_bytes(s, upcoming) ==
  IF th_literal_pool_would_flush_for(s, upcoming)
    THEN th_literal_pool_generate(s)
    ELSE s

-----------------------------------------------------------------------------
(* Emitting instructions. *)

Advance(s, bytes) == [s EXCEPT !.ind = @ + bytes]

(* Mutant: conditioned instructions are not tracked. *)
OtIgnoresIT(s, size, conditions) ==
  LET ready == IF th_literal_pool_would_flush_for(s, size)
                 THEN th_literal_pool_generate(s) ELSE s
  IN  Advance([ready EXCEPT !.it = IF s.it > 0 THEN s.it - 1 ELSE conditions],
              size)

(* ot(): an instruction of `size` bytes that conditions the next ones if   *)
(* it is an IT.  Nothing is flushed between an IT and what it conditions,  *)
(* so the room for all of that is made sure of before the IT.              *)
ot(s, size, conditions) ==
  IF ~s.gen
    THEN Advance(s, size)
  ELSE IF s.it > 0
    THEN Advance([s EXCEPT !.it = @ - 1], size)
  ELSE LET upcoming == size + 12 * conditions
           ready    == IF OutOfBudget(s, upcoming)
                         THEN th_literal_pool_generate(s) ELSE s
       IN  Advance([ready EXCEPT !.it = conditions], size)

(* Two instructions in a row, of which neither conditions another. *)
ot_pair(s, first, second) == ot(ot(s, first, 0), second, 0)

-----------------------------------------------------------------------------
(* Literals. *)

(* th_literal_pool_allocate and th_literal_pool_note_entry, for the load   *)
(* that was just emitted.  A dry run writes nothing, so only the sizes of  *)
(* its entries matter.                                                     *)
Allocate(s, key, size, short, shared) ==
  LET patch == s.ind - (IF short THEN 2 ELSE 4)
      entry == IF s.dry
                 THEN [size |-> size, shared |-> shared]
                 ELSE [size |-> size, shared |-> shared, key |-> key,
                       short |-> short, patch |-> patch]
  IN  [s EXCEPT !.pool = Append(@, entry), !.count = @ + 1,
                !.first = IF s.first < 0 \/ patch < s.first THEN patch ELSE @,
                !.bytes = @ + Width(entry)]

Lookup(s, key) ==
  LET hit == s.cache[CacheSlot[key]]
  IN  IF hit.key = key THEN hit.index ELSE s.table[key]

(* th_literal_pool_find_or_allocate, and what its caller fills in. *)
FindOrAllocate(s, key, size, short) ==
  LET found == Lookup(s, key)
      new   == Allocate(s, key, size, short, found)
      index == IF found = None THEN Len(new.pool) ELSE found
  IN  [new EXCEPT
         !.table[key] = IF found = None THEN index ELSE @,
         !.cache[CacheSlot[key]] = [key |-> key, index |-> index]]

(* load_full_const: LDRD for a pair of registers, else LDR in 2 bytes for  *)
(* a low register and 4 for another.                                       *)
load_full_const(s, key, size, short) ==
  FindOrAllocate(ot(s, IF short THEN 2 ELSE 4, 0), key, size, short)

(* Its end for a symbol reached through the GOT: ADD, LDR, and an addend   *)
(* that no ADD holds, from a literal of its own that is never shared.      *)
load_through_got(s, key, addend) ==
  LET slot == ot_pair(load_full_const(s, key, 4, TRUE), 2, 2)
  IN  ot(Allocate(ot(slot, 2, 0), addend, 4, TRUE, None), 2, 0)

-----------------------------------------------------------------------------
(* Code that does not go through ot(). *)

SwitchTableSize(entries) == 14 + 4 * entries

(* The real pass: five instructions and the table behind them, after the   *)
(* reload of an index that was spilled.                                    *)
SwitchTableMop(s, entries, spilled) ==
  LET index == IF spilled THEN ot(s, 4, 0) ELSE s
      code  == ot_pair(ot_pair(ot(index, 4, 0), 2, 4), 2, 2)
  IN  Advance(code, 4 * entries)

(* Mutant: nothing is reserved before the dispatch. *)
SwitchTableUnreserved(s, entries, spilled) ==
  IF s.dry THEN Advance(s, SwitchTableSize(entries))
           ELSE SwitchTableMop(s, entries, spilled)

switch_table(s, entries, spilled) ==
  LET ready == th_literal_pool_reserve_upcoming_bytes(s, SwitchTableSize(entries))
  IN  IF s.dry THEN Advance(ready, SwitchTableSize(entries))
               ELSE SwitchTableMop(ready, entries, spilled)

(* A table of values in .rodata: its address comes from the pool, but the  *)
(* rehearsal only counts the code.                                         *)
switch_load(s, key) ==
  IF s.dry THEN Advance(s, 8)
           ELSE ot(load_full_const(s, key, 4, FALSE), 4, 0)

(* Inline assembly is written as it is, and not by the rehearsal. *)
inline_asm(s, bytes) == IF s.dry THEN s ELSE Advance(s, bytes)

(* Between the passes. *)

(* dry_run_start: the pool of the dry run is empty, like the window. *)
dry_run_start(s) ==
  [Fresh(s.ind) EXCEPT !.dry = TRUE, !.gen = s.gen, !.it = s.it]

(* Mutant: dry_run_end leaves the hash with indices of the dry pool. *)
DryRunEndKeepsHash(s, saved) ==
  [saved EXCEPT !.it = s.it, !.table = s.table, !.cache = NoCache]

(* Mutant: dry_run_end leaves the window as the dry run left it. *)
DryRunEndKeepsWindow(s, saved) ==
  [saved EXCEPT !.it = s.it, !.table = NoHash, !.cache = NoCache,
                !.first = s.first, !.bytes = s.bytes]

(* dry_run_end: the pending literals are back, but the hash forgets them. *)
dry_run_end(s, saved) ==
  [saved EXCEPT !.it = s.it, !.table = NoHash, !.cache = NoCache]

(* A NOP before a function that reads a pool, so that it begins at a word. *)
cg_word_align_start(s) == IF s.ind % 4 = 2 THEN ot(s, 2, 0) ELSE s

(* The function begins, possibly with a frame size from a literal. *)
prolog(s, large, key) ==
  LET begun == [s EXCEPT !.gen = TRUE, !.it = 0]
  IN  IF large THEN ot(load_full_const(begun, key, 4, FALSE), 4, 0)
               ELSE ot(begun, 2, 0)

(* The end of a function, of one instruction or of none; what a large      *)
(* frame needs before that is emitted like any load of the body.           *)
epilog(s, returns) ==
  LET ended == IF returns THEN ot(s, 2, 0) ELSE s
  IN  th_literal_pool_generate([ended EXCEPT !.gen = FALSE])
=============================================================================
