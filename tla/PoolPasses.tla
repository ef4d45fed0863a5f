----------------------------- MODULE PoolPasses -----------------------------
(***************************************************************************)
(* The rehearsal and the real pass over one function, side by side.  The   *)
(* rehearsal lays the function out to predict the addresses of the real    *)
(* pass (passes 1 and 2 of src/source/ir/codegen.c); that prediction       *)
(* decides which branches may be narrow (arm-thumb-call.c).  In the code   *)
(* the two run one after the other; here each IR operation is taken by     *)
(* both at once, so that they can be compared at every operation.          *)
(*                                                                         *)
(* The decision about a forward branch needs what the rehearsal found at   *)
(* its target, which is later here.  So a branch is made narrow first and  *)
(* is remembered, and its target can only be an operation for which the    *)
(* code decides that way; a branch that stays wide is an instruction.      *)
(* One forward branch is followed at a time: others only shorten the real  *)
(* pass, as backward ones do.  Left out are inline assembly, across which  *)
(* no branch is made narrow, jumps that the real pass drops, and a load    *)
(* from a switch's table of values: the rehearsal lays it out as eight     *)
(* bytes without the literal that the real pass then has pending.          *)
(***************************************************************************)
EXTENDS PoolOps, FiniteSets

CONSTANTS
  PairLiterals,  \* constants that are loaded into two registers
  TableSizes,    \* entries of switch tables
  NarrowReach,   \* reach of a narrow branch
  FusedReach,    \* reach of CBZ and CBNZ
  Cushion,       \* what the checks leave for drift, 64 in the code
  StartLiterals, \* literals loaded before the operations that are looked at
  StartTables,   \* switch tables before them
  MaxLoops,      \* bound on the backward branches before them
  MaxOps         \* bound on the operations that are looked at

ASSUME InputAssumption ==
  /\ PairLiterals \subseteq Keys /\ IsFiniteSet(PairLiterals)
  /\ TableSizes \subseteq Nat /\ StartTables \subseteq Nat
  /\ StartLiterals \subseteq Seq(Keys)
  /\ MaxLoops \in Nat

(* A CBZ, which skips a CMP as well, has the shorter reach by far. *)
ASSUME BranchAssumption ==
  /\ NarrowReach \in Nat /\ FusedReach \in Nat /\ Cushion \in Nat
  /\ FusedReach + 4 <= NarrowReach

(* No range that a narrow branch can span fills a window by itself. *)
ASSUME ScaleAssumption ==
  \A n \in {0} \cup ITLengths :
    3 * (NarrowReach + 4) + 12 * n + 8 <= RangeLimit - FlushSlack

(* The cushion has room for what the check of a CBZ does not count: an IT  *)
(* block as ot() reserves it, and the second word of a pair literal.       *)
ASSUME CushionAssumption ==
  \A n \in {0} \cup ITLengths :
    12 * n + 4 * Cardinality(PairLiterals) <= Cushion + 10

VARIABLES
  dry,           \* the rehearsal
  real,          \* the real pass
  branch,        \* the narrow forward branch whose target is still to come
  left,          \* operations still to come
  shorter        \* has the real pass left out bytes of the rehearsal?

vars == <<dry, real, branch, left, shorter>>

NoBranch == [kind |-> "none"]

(* The real pool is not looked into here. *)
Quiet(s) == [s EXCEPT !.out = NoOut]

(* Both passes begin behind the prologue, which is emitted only once.  It  *)
(* has no literal here: a pending one is in the window of the real pass    *)
(* only, and the rehearsal flushes later.                                  *)
Begun ==
  LET s == prolog([Fresh(0) EXCEPT !.gen = FALSE], FALSE,
                  CHOOSE k \in Constants : TRUE)
  IN  [dry |-> dry_run_start(s), real |-> s, shorter |-> FALSE]

(* A backward branch is narrow in the real pass if no pool is due: its     *)
(* target is known, and any operation before it may be that.               *)
Looped(p) ==
  LET narrow == ~th_literal_pool_would_flush_for(p.real, 2)
  IN  [dry |-> ot(p.dry, 4, 0), real |-> ot(p.real, IF narrow THEN 2 ELSE 4, 0),
       shorter |-> p.shorter \/ narrow]

(* The function up to some operation: loads of the given literals, a       *)
(* switch table, and some loops.                                           *)
Laid(s, keys, n) ==
  LET loads[i \in 0 .. Len(keys)] ==
        IF i = 0 THEN s ELSE load_full_const(loads[i - 1], keys[i], 4, FALSE)
  IN  switch_table(loads[Len(keys)], n, FALSE)

Before(keys, n, loops) ==
  LET p[i \in 0 .. loops] ==
        IF i = 0
          THEN [Begun EXCEPT !.dry = Laid(@, keys, n), !.real = Laid(@, keys, n)]
          ELSE Looped(p[i - 1])
  IN  p[loops]

Init ==
  \E p \in {Begun} \cup {Before(keys, n, loops) : keys \in StartLiterals,
                            n \in StartTables, loops \in 0 .. MaxLoops} :
    /\ dry = p.dry /\ real = Quiet(p.real) /\ shorter = p.shorter
    /\ branch = NoBranch
    /\ left = MaxOps

Emit(d, r) == dry' = d /\ real' = Quiet(r) /\ left' = left - 1

Both(d, r) == Emit(d, r) /\ UNCHANGED <<branch, shorter>>

More == left > 0

Instruction ==
  \E size \in {2, 4} : More /\ Both(ot(dry, size, 0), ot(real, size, 0))

(* An IT and n conditioned instructions, which may load literals. *)
Conditioned(s, n, loads, k) ==
  LET after[i \in 0 .. n] ==
        IF i = 0 THEN ot(s, 2, n)
        ELSE IF loads THEN load_full_const(after[i - 1], k, 4, FALSE)
        ELSE ot(after[i - 1], 2, 0)
  IN  after[n]

IfThen ==
  \E n \in ITLengths, loads \in BOOLEAN, k \in Constants :
    More /\ Both(Conditioned(dry, n, loads, k), Conditioned(real, n, loads, k))

LoadConstant ==
  \E k \in Keys, short \in BOOLEAN :
    More /\ Both(load_full_const(dry, k, 4, short),
                 load_full_const(real, k, 4, short))

LoadPair ==
  \E k \in PairLiterals :
    More /\ Both(load_full_const(dry, k, 8, FALSE),
                 load_full_const(real, k, 8, FALSE))

LoadThroughGot ==
  \E k \in Symbols, addend \in Constants :
    More /\ Both(load_through_got(dry, k, addend),
                                load_through_got(real, k, addend))

SwitchTable ==
  \E n \in TableSizes :
    More /\ Both(switch_table(dry, n, FALSE),
                                switch_table(real, n, FALSE))

-----------------------------------------------------------------------------
(* Narrow branches. *)

Open == branch # NoBranch

Within(field, n) == IF Open THEN [branch EXCEPT ![field] = @ + n] ELSE branch

(* A target is aligned to a word in both passes, unless the real pass      *)
(* finds that nothing branches to it any more.                             *)
Align(s) == IF s.ind % 4 = 2 THEN Advance(s, 2) ELSE s

AlignTarget ==
  \E unneeded \in BOOLEAN :
    /\ More
    /\ Emit(Align(dry), IF unneeded THEN real ELSE Align(real))
    /\ branch' = Within("pads", 1)
    /\ shorter' = (shorter \/ unneeded)

BackwardBranch ==
  LET p == Looped([dry |-> dry, real |-> real, shorter |-> shorter])
  IN  /\ More
      /\ Emit(p.dry, p.real)
      /\ shorter' = p.shorter
      /\ branch' = Within("shrink", 2)

(* What the code looks at where the branch is emitted: dry_pool_entries,   *)
(* the address in the rehearsal, the pool of the real pass.                *)
Commit(kind) ==
  [kind |-> kind, from |-> dry.ind, at |-> ot(real, 2, 0).ind - 2,
   entries |-> Len(dry.pool), span |-> th_pool_span_after(real, 8),
   bytes |-> real.bytes, pads |-> 0, shrink |-> 0]

ForwardBranch ==
  \E kind \in {"b", "cbz"} :
    /\ More /\ ~Open
    /\ ~th_literal_pool_would_flush_for(real, 2)
    /\ Emit(ot(IF kind = "cbz" THEN ot(dry, 2, 0) ELSE dry, 4, 0),
            ot(real, 2, 0))
    /\ branch' = Commit(kind)
    /\ shorter' = TRUE

(* If the target is here.  The end of the function is a target as well:    *)
(* can_narrow_epilogue_branch computes the same.                           *)
dry_dist == dry.ind - branch.from

entries_in_range == Len(dry.pool) - branch.entries

(* A pad for each aligned target on the way. *)
rehearsal_max_growth_between == 2 * branch.pads

(* Two bytes for each branch on the way, and the pads. *)
rehearsal_max_shrink_between == branch.shrink + rehearsal_max_growth_between

(* The span of the pool at the target, as the code measures it. *)
pressure == branch.span + dry_dist + 4 * entries_in_range

(* All that pools can add before the target. *)
pool_flush_growth_bound == branch.bytes + 14 * entries_in_range + 6 + Cushion

(* Mutant: the bias of the program counter is taken off twice. *)
EstTwiceBiased == dry_dist - 8 + rehearsal_max_growth_between

est_offset == dry_dist - 4 + rehearsal_max_growth_between

FitsWithPools == est_offset + pool_flush_growth_bound <= NarrowReach

can_narrow_forward_branch ==
  /\ est_offset <= NarrowReach
  /\ pressure < RangeLimit - FlushSlack \/ FitsWithPools

(* Mutant: a hairline pass is enough. *)
CbzNoCushion ==
  /\ dry_dist - 8 - rehearsal_max_shrink_between >= 0
  /\ dry_dist - 8 + rehearsal_max_growth_between <= FusedReach
  /\ pressure < RangeLimit - FlushSlack

cbz_forward_ok ==
  /\ dry_dist - 8 - rehearsal_max_shrink_between >= 0
  /\ dry_dist - 8 + rehearsal_max_growth_between <= FusedReach
  /\ pressure < RangeLimit - FlushSlack - Cushion

(* Would the branch have been made narrow if its target were here? *)
Narrows ==
  IF branch.kind = "cbz" THEN cbz_forward_ok ELSE can_narrow_forward_branch

(* The target of the branch. *)
Target ==
  /\ Open /\ Narrows
  /\ branch' = NoBranch
  /\ UNCHANGED <<dry, real, left, shorter>>

Next ==
  \/ Instruction \/ IfThen
  \/ LoadConstant \/ LoadPair \/ LoadThroughGot \/ SwitchTable
  \/ AlignTarget \/ BackwardBranch \/ ForwardBranch \/ Target

Spec == Init /\ [][Next]_vars

-----------------------------------------------------------------------------
(* Properties. *)

Window(s) ==
  [span |-> IF s.first < 0 THEN 0 ELSE s.ind - s.first, bytes |-> s.bytes,
   pending |-> s.count, it |-> s.it, parity |-> s.ind % 4]

(* th_pool_span_after "runs identically in the dry and real passes": with  *)
(* the same branches both have the same window after every operation, and  *)
(* so they write their pools at the same operations.                       *)
SameWindow == ~shorter => Window(dry) = Window(real)

Offset == real.ind - branch.at - 4

(* CMP and a branch that are fused to a CBZ for what the rehearsal's       *)
(* layout says reach their target in the real pass, wherever that writes   *)
(* its pool: th_patch_call has no wider form for a CBZ.                    *)
FusedReaches ==
  branch.kind = "cbz" /\ Narrows => Offset \in -2 .. FusedReach

(* The pool that was pending at the branch has been written since. *)
PoolBetween ==
  branch.span > 0 /\ (real.first < 0 \/ real.first > branch.at)

(* A branch that was made narrow because no pool can come before its       *)
(* target reaches it if none does, and one that was made narrow because    *)
(* it fits with every pool that can come reaches it in any case.           *)
BoundedReaches ==
  branch.kind = "b" /\ Narrows /\ (PoolBetween => FitsWithPools) =>
    Offset <= NarrowReach

(* can_narrow_forward_branch: `"fits in range in the rehearsal" implies    *)
(* "fits in range for real"'.  Every branch that is made narrow reaches    *)
(* its target.                                                             *)
NarrowReaches == branch.kind = "b" /\ Narrows => Offset <= NarrowReach
=============================================================================
