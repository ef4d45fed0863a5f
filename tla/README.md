# A TLA+ model of the compiler's state machines

The repository is a C compiler for ARMv8-M derived from TinyCC. It runs as one
sequential process, so what is hard in it is not concurrency. It is state that
several calls maintain together: caches keyed by a generation, headers in a
block of memory, a pool of literals that two passes over the same code must lay
out alike, a hash that is cleared only in part, tables of live registers that are
patched between two passes. This directory models such parts and says which of
their properties are model-checked and which are proved.

## The system

A function is parsed into an intermediate representation (IR), optimised by
passes over flat IR and SSA, given registers, rehearsed and then emitted as Thumb
code, and put into ELF sections that are linked at the end.

| Part | Source | State and operations | Modelled by |
|---|---|---|---|
| Hot arena | `source/memory/hot_arena.c` | block headers; alloc, free, resize | HotBlocks, HotArena, ArenaContract |
| Hot memory | `source/driver/libtcc.c` (`tcc_hot_` calls) | arena and heap; mallocz, realloc, settle, free, release | HotMemory, ArrayStore |
| Pass engine | `source/opt/engine` | generation, clean generations, caches in the IR, groups | PassEngine |
| Literal pool | `source/backend/arch/arm/thumb`, `source/ir/codegen.c` | pending literals, window, dry and real passes | PoolOps, LiteralPool, PoolPasses |
| Chained hash | `source/support/tcc-chained-hash.h` | buckets, chains, dirty range; add, rebuild, clear | ChainedHash, HashIndex |
| Phi resolution | `source/ir/regalloc_phi.c` | copies, their order, temporaries, moved jump targets | CopySchedule, PhiResolve, SSAExec |
| Operand pool | `source/ir/pool.c` | settling; growth is left out | PhiResolve |
| CFG, SSA | `source/ir/cfg.c`, `ssa.c` | blocks, edges, phi operands; placement is left out | FlatIR |
| Live intervals | `source/machine/tccls.c` | intervals, sweep, bitmap, cached query | LiveRegs |
| Scratch registers | `arm-thumb-gen.c`, `source/ir/codegen.c`, `arm-thumb-frame.c` | requests in three passes, the fix-up, the prologue's pushes | ScratchRegs |
| Register allocation | `source/ir/regalloc*.c` | intervals, spill slots | no: its result is an input of LiveRegs |
| Branch narrowing | `arm-thumb-call.c`, `source/ir/codegen.c` | rehearsed distances, pool pressure, pads; narrow branches, CBZ | PoolPasses |
| ELF symbols, archives | `source/obj` | symbol resolution, member loading | no |
| Preprocessor, scopes | `source/frontend` | conditionals, macro stack, symbol stacks | no |
| Optimisation passes | `source/opt` | several hundred rewrites of the IR | no: need a semantics of the IR |
| Encodings, debug data, YAFF | `thop_*.c`, `tccdbg.c`, `tccyaff.c` | tables and writers | no |
| Runtime library | `lib` | soft float, division, atomics | no: word arithmetic |

`PROJECT.json` has the complete list, with the reason for each part left out.

## Modules

**HotBlocks** holds the arena as operators, one per C function. The header table
is a function from the offset of a header to its fields, so merging removes a
header and splitting adds one. **HotArena** adds a client that allocates, frees
and resizes in any order; `held` records the payloads it has. **ArenaContract**
states what each call promises its callers.

**HotMemory** puts the arena in front of the heap. It holds the bytes of the
arena; a byte nobody may rely on is `Junk`, and a header written over data
destroys it. mmap may grant any size of `MapBytes` or refuse. **ArrayStore** is
what callers rely on: an array's data changes only by what its owner does to it.
Growing, settling and calls on other arrays are stutters of it.

**PassEngine** is the loop of `pipeline_run.c` over the groups of
`pipeline_table.c`. The IR is its number of instructions and the set of passes
that would change it (`work`); a change makes every cached fact stale and may
give any pass work. The opcode features and the frame points-to facts live in
the IR and outlive a context, so several contexts follow each other. It assumes
that a plain pass that reports no change made none; a cascade may change the IR
and report nothing. Features and facts are asked for when a pass is entered.

**PoolOps** has the state of one pass over a function (address, pending
literals, the window since the first load, IT block, hash, lookup cache) and an
operator per function of `arm-thumb-gen.c` and `arm-thumb-emit.c` that changes
it. **LiteralPool** is the compilation of functions, each through a discovery
dry run, a rehearsal and the real pass (either dry pass may be left out), with
the saving and restoring at the ends of a dry run. **PoolPasses** runs the rehearsal and the
real pass in lockstep over the same operations and makes branches narrow in the
real pass. The code decides about a forward branch from what the rehearsal found
at its target. In lockstep that is not known yet, so a branch is made narrow
first (`ForwardBranch` keeps what the code looks at there), and only an
operation for which the code decides that way can be its target (`Target`). A
branch that stays wide is an instruction of four bytes. Literals are numbers or symbols
from small sets; data that nothing reads any more has one canonical value.

**ChainedHash** is the hash as the pool uses it, buckets and chains included;
**HashIndex** is what it promises: a lookup finds the entries added since the
last clear.

**FlatIR** has programs of a few instructions, their blocks, edges and phis as
operators. **CopySchedule** is the loop that writes the copies of one edge one
after the other: `EmitReady` writes a copy whose destination nobody reads any
more, `BreakCycle` saves a source in a new temporary when there is none. `holds`
says for each register whose value, as it was before the edge, it has now.
**PhiResolve** is `ra_resolve_phis` around that loop, block by block, with the
conditional jumps it turns round, the jump targets it moves and the
`tcc_ir_settle` behind it. It then executes what was written. **SSAExec** is
what the program in SSA form means: an edge gives all phis of a block their values at
once. PhiResolve implements it: `at` and `snap` are the instruction that the
execution has reached and the live values there.

**LiveRegs** has the intervals after register allocation, the sweep over them,
the bitmap of live registers, the cached query, and moving and demoting an
interval as operators. **ScratchRegs** is code generation as far as scratch
registers go. The discovery run asks for them and records where it finds none
(`rec`); `FixOne` moves or demotes the value in the way; `Trim` decides where no
save slot is needed; `Frame` sets spare registers apart and lays down the
prologue; the rehearsal and the real pass ask again. `asks` has the requests, so
that later passes repeat them; uses of a demoted value ask for one more
(`Reload`). A demotion pays or not by an estimate, which is left open. Callers
exclude the scratch registers they hold, as they do in the code.

## Runs

| Run | Shows |
|---|---|
| `hot_arena` | headers stay walkable, held payloads apart, the count exact, an empty arena whole |
| `hot_memory` | implements ArrayStore; nothing dangles or leaks; a released arena stays released |
| `pass_engine` | no pass with work is skipped, features are current, points-to facts are current in the first context, an early stop is a fixpoint, every group ends |
| `literal_pool` | loads read their own literal, which is in reach; the window is exact; IT blocks and switch dispatches are whole |
| `pair_literal` | violation: a 64-bit load shares a literal of four bytes |
| `pool_passes` | without narrow branches both passes have the same window, so they flush at the same operations; a CBZ reaches its target wherever the pool is written; so does a narrow branch, unless a pool comes between that its check ruled out |
| `narrow_branch` | violation: such a pool does come between |
| `chained_hash` | implements HashIndex through rebuilds and partial clears |
| `phi_resolve` | the rewritten function implements the one in SSA form; each edge delivers its values; no copy is saved twice; the program goes on |
| `phi_switch_edge` | violation: copies for one entry of a switch are made for all of them |
| `phi_switch_end` | violation: a table entry for the end of the function points into it |
| `scratch_regs` | the sweep is exact; scratch registers are free; values that move stay apart; the prologue pushes what is used; trimmed save slots are not missed; both later passes get the same registers |

### Bounds

`hot_arena`: arenas of 64 and 76 bytes (the second is not a multiple of 8) and
requests from 0 to more than the arena, so that exact fits, remainders too small
to split, refusals and misses occur. `MaxMisses` bounds the counter of misses.

`hot_memory`: two arrays over 72 bytes, where an array can grow in place, move
inside the arena, leave it for the heap and come back by settling. In 48 or 56
bytes no array can move inside the arena.

`pass_engine`: groups with the shapes that the tables have (plain, with a
trigger, with `compact_after`, with a cascade) and `MaxLives` contexts, enough
for a later context to reach a generation that an earlier one used.

Literal pool: the reach of 1020 bytes and the slack of 64 become 32 and 12 in
`literal_pool`, 44 and 12 in `pair_literal`, so flushes fit into `MaxCode` bytes
of code. `MaxDry`, `MaxStart`, `MaxEntries` and `MaxAsm` bound the code of a dry
pass, the first address of a function, the pending literals and the inline
assembly. The assembly of a function fits the slack.

`pool_passes`, `narrow_branch`: a reach of 156 with a slack of 12, 30 for a narrow
branch, 14 for a CBZ and a cushion of 18 (16 in `narrow_branch`). As in the code (1020, 64, 254, 126, 64)
a range that a narrow branch can span never fills a window alone
(`ScaleAssumption`), and the cushion covers what the check of a CBZ does not count
(`CushionAssumption`). A behaviour starts at the prologue or behind a prefix that
any function can have (loads, a switch table, up to `MaxLoops` narrow backward
branches), so that `MaxOps` operations are enough for the rehearsal to have
flushed where the real pass is about to.

`chained_hash`: two hash values that share a bucket before a rebuild and part
afterwards, five entries (two rebuilds), two clears.

`phi_resolve`: six shapes of functions (loops tested at either end, a guarded
loop, a switch with an empty case, jumps out of the function, a jump to the next
instruction), each with every choice of phi operands from the values at hand, so
chains, swaps and cycles of three occur. The two shapes of switch that go wrong
have runs of their own and are not among them.

`scratch_regs`: three instructions and the registers R0, R1, IP, R4, R8 and LR.
R0, R1 and IP are all taken at one instruction, by values that can be moved, are
pinned or are stack-passed parameters; a fourth value is in a callee-saved
register, coalesced with one of them or live after it, or both callee-saved
registers are taken. Two instructions make up to two requests (`MaxAsks`), one
demotion is counted (`MaxDemoted`, 4 in the code), and a leaf function may find
the LR bit of the function before it.

Deadlock is checked except for the literal pool runs: there the compiler stops
after the last function that fits the bounds.

### Fairness

Two runs have liveness properties. `GroupEnds` needs weak fairness of the
driver's step: the program is sequential and a pass returns, so an enabled step
is taken. Beginning another group is not fair. `ReachesProgram` needs weak
fairness of `Resolve`, for the same reason, and of `Run`: the processor goes on
to the next instruction. Nothing is assumed of the outcome of a comparison.

## Proofs

Proofs hold for all constants that satisfy the named assumptions.

**HotBlocksProofs, HotArenaProofs, HotMemoryProofs.** HotBlocksProofs has a lemma
for each C function of the arena about the table it leaves, up to
`ArenaMeetsContract`: each call does what ArenaContract says. HotArenaProofs builds
on these lemmas. HotMemoryProofs has the contract as a hypothesis of its lemmas
and uses nothing else of the arena; its theorems discharge it. The sum of block sizes is the cardinality of the
set of bytes the blocks cover, which avoids induction.

HotArenaProofs shows all six properties of `hot_arena`. The inductive invariant is
the conjunction of `TypeOK`, `Walkable`, `HeldIsUsed` and `UsedIsExact`: a
walkable table is kept only if the client frees what it holds, and the count is
exact only if a call changes no block but its own. `ArenaDisjoint` and
`ArenaReassembles` follow from it.

HotMemoryProofs shows the properties of `hot_memory`: `MemoryTypes`,
`MemoryOwned`, the action property `MemoryReleased` and the refinement
`MemoryIsArrayStore`. By `Inv` the arena is sound, its used blocks are exactly
those that arrays point to, and the bytes of an array that its owner has written
lie within its block. A header or a copy changes bytes of one block only
(`PayloadApart`), so every step leaves the data of all arrays alone but for what
the owner did: it is a step of ArrayStore or a stutter.

**PassEngineProofs.** `EngineTypes`, `EngineSkips`, `EngineFeatures`,
`EngineFacts` and `EngineFixpoint` follow from one invariant. A pass recorded as clean at the
current generation has no work, unless it is excused: a cascade may have hidden a
change, but then the group has a trigger or `compact_after`, which moves the
generation before the next turn of the pass. That is `CascadesAssumption`, a fact
about the present tables; a cascade added to another group would break it. For the
points-to facts (`FrameInv`) it is enough that the first context only counts up
and that nothing was recorded before it.

**PoolOpsProofs, LiteralPoolProofs.** PoolOpsProofs has the lemmas about the
operators of one pass, which both components of the literal pool use.
Their hypothesis `Counting` has the facts about least numbers and finite sets
that they take from the library; `CountingHolds` discharges it.
LiteralPoolProofs shows all six properties of `literal_pool`, for every reach,
slack, table size, layout of the lookup cache and length of code: `PoolTypes`,
`LoadsReadLiterals`, `WindowIsExact`, `LiteralsInRange` and the action properties
`ITBlocksWhole` and `DispatchWhole`.

- The sums and positions of a pool are recursive functions; what they are follows
  from a least counterexample (`SumExists`, `SumsStep`, `PositionOf`). Literals
  start at a word, do not overlap (`LiteralsApart`),
  and the offset that is patched leads from the load to its literal (`FieldLeads`).
- `Common` holds of a dry and of a real pass; `RealOK` of the real pass and of the
  one a dry run has set aside: an entry shares only an earlier one of its key that
  shares nothing (`Linked`), the hash and the cache lead to such entries
  (`IsFor`), and the window is exact. That is kept by a flush, which forgets all
  indices, and by `dry_run_end`, which does the same.
- `Fits` bounds the span of the pending pool by the reach: after an operation,
  what is pending plus 12 bytes for each conditioned instruction to come can still
  be written. Every operation keeps it (`Continues`); inline assembly takes its
  bytes from the slack. `InRange` alone rests on this and so on
  `ReserveAssumption`: the inline assembly of a function is shorter than the slack,
  and an IT block with it fits the reach.
- A switch reserves the room for its dispatch, so none of its instructions flushes
  (`OtReserved`, `MopReserved`).

`BlockAssumption` and `SizesAssumption` give the sizes their ranges (an IT
conditions at most four instructions, a switch table is not empty, assembly has
an even number of bytes).

**PoolPassesProofs.** `SameWindows`, `FusedBranches` and `BoundedBranches`: the
three invariants of `pool_passes`, for functions of any length. They follow from
`PassesInv`, which holds by `PassesRelated`. It relates the two passes:

- They have the same code to come and, as long as no bytes were left out, the
  same window (`Same`), so they write their pools together.
- Behind a narrow branch, all that pools have added to its range, or would add
  now, is at most what its check allows for (`Growth`: 14 bytes for each literal,
  two for each pad, and the pool pending at the branch).
- As long as the real pass has written no pool behind the branch (`Unbroken`) it
  stays behind the rehearsal, pads included (`Ahead`), and what is pending was
  pending at the branch or was loaded since. `Ahead` has to know how both addresses
  stand to a word: a pad that the rehearsal lacks makes them agree, so a second
  one needs another narrow branch first.
- Once it has written one (`Broken`), either the branch had no pool pending, and
  then the range is too wide for any narrow branch, or it is a CBZ and its check
  finds the pool too close. Neither can be a target of the branch, so a CBZ never
  has a pool in its range. For other branches with a pool pending nothing
  follows, and `narrow_branch` shows that nothing can.

Three assumptions enter. `BranchAssumption`: a CBZ has the shorter reach.
`ScaleAssumption`: three times the range of a narrow branch, with an IT block,
stays below a window, as in the code (3 * 258 + 48 + 8 = 830, and a window has 956).
It is about conditional branches. `CushionAssumption`: the check of a CBZ counts
four bytes for each literal although a pair takes eight, and no IT block, so the
cushion has to cover both. With the 64 of the code and IT blocks of four that
admits six different pair literals in a function; whether a CBZ with more of them
in its range can go wrong is left open.

**RegisterProofs** has the proofs about copies and those about scratch registers.

`EdgeCopiedHolds` and `SavedOnceHolds` are about
`ScheduleSpec`, the loop of one edge after the other for every list of copies;
PhiResolve takes its steps. By `ScheduleInv`, a pending copy finds in its source,
or in the temporary that replaced it, the value it has to deliver, and one that
was written has delivered it. That a copy is saved once at most needs a counting
argument: when no copy is ready, the destinations of the pending ones are
exactly their sources (`NoTemporaryInCycle`), and a temporary is no destination.

All seven properties of `scratch_regs` are proved,
for functions of any length, with any intervals and requests. `SweepIsExact`,
`ScratchAlwaysFree`, `FixupKeepsApart` and `PrologueIsComplete` follow from
`IInv`. It says that the bitmap has the register of every
live interval, that overlapping intervals share a register exactly if they did
at first, and that the dirty registers have all callee-saved ones in use. Each is
needed for the others: the bitmap stays complete only because an interval that
moves is alone in its register, and it lands on nobody only because the bitmap
is complete. The lemmas about the tables (`AdvanceExact`, `ReassignKeeps`,
`DemoteKeeps`, `FreeIsFree`) come first. What the library shows of least numbers and
finite sets is again the hypothesis `Counting`, discharged by `CountingHolds`.

`ScratchTypes`, `FreedSlotsUnused` and `RehearsalIsExact` need a second invariant,
`JInv`. A cached query never claims more than the bitmap has, so behind the prologue an
answer is a function of tables that no longer change (`Steady`), wherever the
sweep is; the two passes ask the same and get the same (`PlanOK`). Where the save
slots were taken away, at least as many caller-saved registers are free as the
discovery run made requests (`FreedOK`), so a request that comes before the last of
them finds one.

`RegsAssumption` says which
numbers the registers have, `FunctionsAssumption` that intervals have integer
ends and that they and the hidden uses have allocatable registers; nothing is
assumed of how they overlap.

### Model-checked only

- `GroupEnds` and `ReachesProgram`: liveness, which is beyond the prover.
- The chained hash: its chains are a recursive operator, in whose presence the
  prover has no SMT solver.
- `TypeOK` of PhiResolve and `ImplementsSSA`: that the rewritten function means
  the same is an argument by induction over the program that was written.
- The violations, which are behaviours and not theorems.

## Findings

`PROJECT.json` quotes the lines. Four are faults of the code, each reproduced
with a build of the compiler: the shared literal of a 64-bit load
(`pair_literal`), a pool between a narrow branch and its target, which ends the
compile with "th_encbranch_8 too far address" (`narrow_branch`), copies for one edge of a switch that are made on all of
them (`phi_switch_edge`), and the end of the function in a switch table that is
not moved with it (`phi_switch_end`).

In `narrow_branch` the check of a branch measures the span of the pool at its
target; the emitter flushes on a larger measure before an IT, 12 bytes for each
instruction it conditions. If the rehearsal has flushed just before the branch
and the real pass, shorter by its narrow branches, has not, an ITE in the range
makes it flush there. That is what the build did with functions of many literals,
`if`s and conditional expressions. `FusedReaches` holds since the check of a CBZ asks for a
cushion that the other check lacks.

Met while modelling, and outside what the properties say:

- Inline assembly is written without a look at the pool, so a literal pending
  before assembly longer than its load's reach ends the compile with "literal
  pool out of range" (also reproduced with a build). `ReserveAssumption`
  excludes it; without that, `InRange` fails once `AsmSizes` and `MaxAsm` of
  `LiteralPool.cfg` exceed `RangeLimit`.

- Nothing resets `frame_ptr_gen` between contexts (`opt/engine/ctx.c`), so a later
  context can be served the points-to facts of an earlier one. `FirstFactsFresh`
  speaks of the first context only. No wrong code was derived from it.
- A switch that loads from a table of values makes the windows of the rehearsal and
  the real pass differ; PoolPasses leaves it out.
- A stack-passed parameter that is demoted to its home is not counted in
  `demoted_count`, so save slots are trimmed although its uses ask for one more
  scratch register. `NoSaveWhereFreed` speaks of the requests that the discovery
  run made.
- The discovery run reads the LR bit of the previous function's
  `pushed_registers`. A later pass may then save a register that was not planned
  for; it does save it.

## Left out of the modelled parts

- Hot memory: the allocation profile and the variable that sets the arena's
  size. The heap never fails: `tcc_malloc` ends the compile when it does.
- Pass engine: the analyses a context owns and `pipeline_ensure_requirements`,
  since no entry of the tables asks for them; the wrap of the 32-bit generation.
- Literal pool: the outliner's suppression of flushes, `code_size` (no longer
  read for a flush), operand loads of inline assembly and naked functions. The
  literal of a large frame's
  prologue is pending in the real pass only, so the rehearsal's window differs
  until the first flush; LiteralPool has it, PoolPasses starts without it.
- Branch narrowing: jumps that the real pass drops, the outliner's windows, the
  fused test of an inline compare-exchange, alignment to eight bytes, and the
  reach of an unconditional narrow branch, which is more than twice a window.
- Phi resolution: asm goto targets, frame scopes, the flags that mark jump
  targets, and the tail for a call after register allocation, which nobody makes.
- Live intervals and scratch registers: register pairs, VFP registers, values
  whose address is taken, the registers with a fixed job (R7, R9, static chain,
  rodata anchor), the R3 that pads an odd push, the save area and the order in
  which saved registers are restored, the search for a register that already has
  the address wanted, and the merging of tails before the rehearsal
  (`cross_jump.c`). `arm-thumb-scratch.c` has an older copy of the requests; the
  Makefile calls it an orphan, and `arm-thumb-gen.c` has the one in use.

## Not modelled

The optimisation passes, instruction selection and the parser are most of the
code. They rewrite one tree or stream into another, and what would be checked is
that the meaning is kept; that needs a semantics of the whole IR, of which
SSAExec has the part that control flow and phis need. Encodings, file writers and
the runtime library have no state worth exploring.

Within reach, and not done:

1. Dominators and phi placement, `sort.c`, argument assignment: algorithms
   against reference definitions on small inputs.
2. ELF symbol resolution, archive members, preprocessor conditionals, scopes.
3. Proofs: the chained hash, once its chains are written as a function.
