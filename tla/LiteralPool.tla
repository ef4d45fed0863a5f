---------------------------- MODULE LiteralPool ----------------------------
(***************************************************************************)
(* The literal pool while functions are emitted (tcc_ir_codegen_generate   *)
(* in src/source/ir/codegen.c): a discovery pass and a rehearsal, both     *)
(* dry, then the real pass.  Either dry pass may be left out.              *)
(*                                                                         *)
(* What a pass emits is up to the function, so it is any sequence of the   *)
(* operations of PoolOps.  Inside an IT block only plain instructions and  *)
(* loads of one literal occur.                                             *)
(***************************************************************************)
EXTENDS PoolOps

CONSTANTS
  TableSizes,    \* entries of switch tables
  AsmSizes,      \* bytes of inline assembly
  MaxCode,       \* bound on the code of all functions, in bytes
  MaxStart,      \* bound on the address a function begins at
  MaxDry,        \* bound on the code a dry pass counts, in bytes
  MaxEntries     \* bound on the entries of a pool

ASSUME SizesAssumption ==
  /\ TableSizes \subseteq Nat \ {0}
  /\ \A bytes \in AsmSizes : bytes \in Nat /\ bytes % 2 = 0

VARIABLES
  s,             \* the state of the pass
  saved,         \* dry_run_snapshot during a dry pass, with its address
  phase,         \* how far the function is
  asm            \* bytes of inline assembly in the function so far

vars == <<s, saved, phase, asm>>

Phases == {"start", "discover", "discovered", "ready", "rehearse", "emit"}

Idle == [Fresh(0) EXCEPT !.gen = FALSE]

Init ==
  /\ s = Idle
  /\ saved = Idle
  /\ phase = "start"
  /\ asm = 0

-----------------------------------------------------------------------------
(* What is emitted by one operation; `out` only shows the latest one. *)

Quiet == [s EXCEPT !.out = NoOut]

InPass ==
  \/ s.it > 0
  \/ phase = "emit" /\ s.ind < MaxCode
  \/ phase \in {"discover", "rehearse"} /\ s.ind < saved.ind + MaxDry

Room == Len(s.pool) < MaxEntries

Apply(t) == s' = t /\ UNCHANGED <<saved, phase, asm>>

Instruction ==
  \E size \in {2, 4} : InPass /\ Apply(ot(Quiet, size, 0))

IfThen ==
  \E n \in ITLengths : InPass /\ s.it = 0 /\ Apply(ot(Quiet, 2, n))

LoadConstant ==
  \E k \in Keys, short \in BOOLEAN :
    InPass /\ Room /\ Apply(load_full_const(Quiet, k, 4, short))

LoadPair ==
  \E k \in Constants :
    InPass /\ Room /\ Apply(load_full_const(Quiet, k, 8, FALSE))

LoadThroughGot ==
  \E k \in Symbols, addend \in Constants :
    InPass /\ s.it = 0 /\ Room /\ Apply(load_through_got(Quiet, k, addend))

Dispatch(n, spilled) ==
  InPass /\ s.it = 0 /\ Apply(switch_table(Quiet, n, spilled))

SwitchTable == \E n \in TableSizes, spilled \in BOOLEAN : Dispatch(n, spilled)

SwitchLoad ==
  \E k \in Symbols :
    InPass /\ s.it = 0 /\ Room /\ Apply(switch_load(Quiet, k))

InlineAsm ==
  \E bytes \in AsmSizes :
    /\ InPass /\ s.it = 0 /\ asm + bytes <= MaxAsm
    /\ s' = inline_asm(Quiet, bytes)
    /\ asm' = IF s.dry THEN asm ELSE asm + bytes
    /\ UNCHANGED <<saved, phase>>

-----------------------------------------------------------------------------
(* The passes. *)

(* The padding depends on the options, so it is left open. *)
Start(t, align) == IF align THEN cg_word_align_start(t) ELSE t

StartPass(from, to) ==
  /\ phase = from
  /\ phase = "start" => s.ind <= MaxStart
  /\ s' = dry_run_start(Quiet)
  /\ saved' = Quiet
  /\ phase' = to
  /\ UNCHANGED asm

EndPass(from, to, align) ==
  /\ phase = from
  /\ s.it = 0
  /\ s' = Start(dry_run_end(s, saved), align)
  /\ saved' = Idle
  /\ phase' = to
  /\ UNCHANGED asm

Discover == StartPass("start", "discover")

Discovered ==
  \E align \in {FALSE, s.pool # <<>>} :
    EndPass("discover", "discovered", align)

(* The prologue behind the discovery pass.  Without optimisation there is  *)
(* no rehearsal and the real pass is next.                                 *)
Prolog ==
  \E large \in BOOLEAN, k \in Constants, next \in {"ready", "emit"} :
    /\ phase = "discovered"
    /\ s' = prolog(Quiet, large, k)
    /\ phase' = next
    /\ UNCHANGED <<saved, asm>>

(* The prologue of a function that has no dry run. *)
SkipDryRun ==
  \E large \in BOOLEAN, k \in Constants, align \in BOOLEAN :
    /\ phase = "start"
    /\ s.ind <= MaxStart
    /\ s' = prolog(Start(Quiet, align), large, k)
    /\ phase' = "emit"
    /\ UNCHANGED <<saved, asm>>

Rehearse == StartPass("ready", "rehearse")

Rehearsed == EndPass("rehearse", "emit", FALSE)

(* The epilogue, or nothing if the function does not return. *)
Epilog ==
  \E returns \in BOOLEAN :
    /\ phase = "emit"
    /\ s.it = 0
    /\ s' = epilog(Quiet, returns)
    /\ phase' = "start"
    /\ asm' = 0
    /\ UNCHANGED saved

Next ==
  \/ Instruction \/ IfThen \/ LoadConstant \/ LoadPair \/ LoadThroughGot
  \/ SwitchTable \/ SwitchLoad \/ InlineAsm
  \/ Discover \/ Discovered \/ Prolog \/ SkipDryRun
  \/ Rehearse \/ Rehearsed \/ Epilog

Spec == Init /\ [][Next]_vars

-----------------------------------------------------------------------------
(* Properties. *)

(* Pool, window, IT count and phase have the values the code gives them.   *)
TypeOK ==
  /\ phase \in Phases
  /\ s.dry = (phase \in {"discover", "rehearse"})
  /\ s.gen = (phase \in {"ready", "rehearse", "emit"})
  /\ s.it \in {0} \cup ITLengths \cup 1 .. 3
  /\ s.count <= Len(s.pool)
  /\ s.count = 0 <=> s.first = -1
  /\ \A k \in Keys : s.table[k] \in 0 .. Len(s.pool)

(* th_literal_pool_generate: "The offset MUST fit the encoding", so the    *)
(* internal error behind it is never raised.  It depends on MaxAsm: ot()   *)
(* keeps every load within reach of its literal, inline assembly does not. *)
InRange ==
  \A l \in s.out.loads : 0 <= l.field /\ l.field <= l.limit

(* Whatever was shared, flushed, rehearsed or cached before, every load    *)
(* reads the literal it was emitted for (its low word, for a pair).        *)
ReadsItsLiteral ==
  \A l \in s.out.loads :
    /\ ReadAddress(l) \in DOMAIN s.out.words
    /\ s.out.words[ReadAddress(l)] = <<l.key, "low">>

(* th_literal_pool_find_or_allocate: the new entry "shares its literal     *)
(* value", so a pair load reads both halves of its literal.                *)
PairReadsItsLiteral ==
  \A l \in s.out.loads :
    l.size = 8 =>
      /\ ReadAddress(l) + 4 \in DOMAIN s.out.words
      /\ s.out.words[ReadAddress(l) + 4] = <<l.key, "high">>

(* What th_pool_span_after measures is what th_literal_pool_generate would *)
(* write: the window starts at the first pending load and counts the bytes *)
(* of the pending literals, in the real pass and across the dry ones.      *)
WindowExact ==
  ~s.dry =>
    /\ s.bytes = Sums(s.pool)[Len(s.pool)]
    /\ s.pool # <<>> => s.first = s.pool[1].patch
    /\ \A i \in DOMAIN s.pool : s.first <= s.pool[i].patch

(* ot(): "never flush while an op is conditioned": an instruction in an IT *)
(* block follows the one before it, in the dry passes and in the real one. *)
WholeITBlocks ==
  [][s.it > 0 => s'.ind - s.ind <= 4]_vars

(* SWITCH_TABLE: "its preamble must be emitted atomically": a pool that is *)
(* written by this operation lies before the dispatch.                     *)
WholeDispatch ==
  [][\A n \in TableSizes, spilled \in BOOLEAN :
       Dispatch(n, spilled) /\ s'.out # NoOut =>
         s'.ind \in {s'.out.end + SwitchTableSize(n) + reload :
                      reload \in IF spilled THEN {0, 4} ELSE {0}}]_vars
=============================================================================
