------------------------------ MODULE LiveRegs ------------------------------
(***************************************************************************)
(* The live intervals of a function whose registers have been assigned, and *)
(* the queries that code generation makes of them: a sweep that keeps the   *)
(* intervals live at the last query, a bitmap of the live registers of      *)
(* every instruction, and the cached answer of the last query.  Registers   *)
(* are numbers as in the code.  A register pair, a value in a VFP register  *)
(* and a value with a home in memory are left out: all intervals here are   *)
(* of type LS_REG_TYPE_INT, with no r1 and their address not taken.         *)
(***************************************************************************)
EXTENDS Integers

CONSTANTS
  Low,        \* R0-R3, or some of them
  Callee,     \* the callee-saved registers that can be allocated
  NarrowRegs, \* those of them that 16-bit instructions reach (R4-R7)
  Functions   \* the functions that may come out of register allocation

IP == 12

LR == 14

\* PREG_NONE, and the r0 of an interval that is in memory
NoReg == -1

CallerSaved == Low \cup {IP}

\* What the allocator assigns; LR is not among them.
Allocatable == CallerSaved \cup Callee

Regs == Allocatable \cup {LR}

ASSUME RegsAssumption ==
    /\ Low \subseteq 0 .. 3
    /\ Callee \subseteq 4 .. 11
    /\ NarrowRegs \subseteq Callee

ASSUME FunctionsAssumption ==
    \A f \in Functions :
        /\ f.n \in Nat \ {0} /\ DOMAIN f.iv \subseteq Nat /\ f.ghosts \subseteq Allocatable
        /\ \A i \in DOMAIN f.iv :
              f.iv[i].start \in Int /\ f.iv[i].end \in Int /\ f.iv[i].r0 \in Allocatable

VARIABLES
  fn,      \* the function: n instructions, intervals iv, whether it is a leaf
  r0,      \* the register of every interval
  bitmap,  \* live_regs_by_instruction
  sweep,   \* the fields live_sweep_*
  cached   \* cached_instruction_idx, cached_live_regs

liveVars == <<fn, r0, bitmap, sweep, cached>>

Instrs == 0 .. fn.n - 1

Intervals == DOMAIN fn.iv

Covers(i, k) == fn.iv[i].start <= k /\ k <= fn.iv[i].end

Overlap(i, j) == \E k \in Instrs : Covers(i, k) /\ Covers(j, k)

\* The lowest register of a set (count trailing zeros), or the first interval
Lowest(S) == CHOOSE x \in S : \A y \in S : x <= y

\* The live registers of every instruction when intervals have registers reg
LiveMap(reg) ==
    [k \in Instrs |-> {reg[i] : i \in {j \in Intervals : Covers(j, k)}} \ {NoReg}]

NoCache == [at |-> -1, regs |-> {}]

NoSweep == [valid |-> FALSE, taken |-> {}, active |-> {}, last |-> -1]

\* The tables as register allocation leaves them
LiveInit ==
    /\ fn \in Functions
    /\ r0 = [i \in Intervals |-> fn.iv[i].r0]
    /\ bitmap = LiveMap(r0)
    /\ sweep = NoSweep
    /\ cached = NoCache

(* Mutant: a query for an earlier instruction goes on from where it is. *)
AdvanceOnly(k) ==
    LET old == sweep
        new == {i \in Intervals \ old.taken : fn.iv[i].start <= k}
        added == {i \in new : r0[i] # NoReg}
    IN  [valid |-> TRUE, taken |-> old.taken \cup new, last |-> k,
         active |-> {i \in old.active \cup added : fn.iv[i].end >= k}]

\* ls_sweep_advance.  The order is by start, so the intervals before
\* live_sweep_pos are a set, those taken since the sweep began.
Advance(k) ==
    LET old == IF ~sweep.valid \/ k < sweep.last THEN NoSweep ELSE sweep
        new == {i \in Intervals \ old.taken : fn.iv[i].start <= k}
        added == {i \in new : r0[i] # NoReg}
    IN  [valid |-> TRUE, taken |-> old.taken \cup new, last |-> k,
         active |-> {i \in old.active \cup added : fn.iv[i].end >= k}]

\* tcc_ls_compute_live_regs; its caller advances the sweep to k.
LiveRegsAt(k) ==
    {r0[i] : i \in {j \in Advance(k).active : Covers(j, k)}} \ {NoReg}

\* What tcc_ls_find_free_scratch_reg takes to be live at k
Known(k) == bitmap[k] \cup (IF cached.at = k THEN cached.regs ELSE LiveRegsAt(k))

\* The register it returns: one of R0-R3, then IP, then a spare callee-saved
\* register, then LR where the prologue saves it
FreeScratch(k, exclude, spare) ==
    LET free == Regs \ (exclude \cup Known(k) \cup IF fn.leaf THEN {LR} ELSE {})
        Pick(S) == Lowest(S \cap free)
    IN  IF Low \cap free # {} THEN Pick(Low)
        ELSE IF IP \in free THEN IP
        ELSE IF spare \cap free # {} THEN Pick(spare)
        ELSE IF LR \in free THEN LR
        ELSE NoReg

\* The cache and the sweep after that query; scans says whether its caller
\* goes on to compute the live registers of k.
Query(k, scans) ==
    /\ cached' = IF cached.at = k THEN cached ELSE [at |-> k, regs |-> LiveRegsAt(k)]
    /\ sweep' = IF cached.at = k /\ ~scans THEN sweep ELSE Advance(k)

-----------------------------------------------------------------------------
\* The intervals tcc_ls_find_int_reg_holder chooses the first of; their
\* registers are reg, and one in memory is not among them.
Holders(reg, r, k) ==
    {i \in Advance(k).active : reg[i] = r /\ reg[i] # NoReg /\ Covers(i, k)}

\* No other interval has the register of i anywhere in the range of i.
Alone(reg, i) ==
    \A j \in Intervals \ {i} : reg[j] = reg[i] => ~Overlap(i, j)

Targets(map, i) == Callee \ UNION {map[k] : k \in {j \in Instrs : Covers(i, j)}}

\* m is the part of the tables that moving an interval changes.
CanReassign(m, r, k) ==
    /\ Holders(m.r0, r, k) # {}
    /\ LET i == Lowest(Holders(m.r0, r, k))
       IN  ~fn.iv[i].pinned /\ Alone(m.r0, i) /\ Targets(m.map, i) # {}

(* Mutant: the prologue is not told of the register. *)
ReassignUntold(m, r, k) ==
    LET i == Lowest(Holders(m.r0, r, k))
        new == Lowest(Targets(m.map, i))
        Other(j) == \E o \in Intervals \ {i} : m.r0[o] = r /\ Covers(o, j)
        Patched(j) == (m.map[j] \ IF Other(j) THEN {} ELSE {r}) \cup {new}
    IN  [r0 |-> [m.r0 EXCEPT ![i] = new], dirty |-> m.dirty, demoted |-> m.demoted,
         map |-> [j \in Instrs |-> IF Covers(i, j) THEN Patched(j) ELSE m.map[j]]]

(* Mutant: the bitmap does not learn of the new register. *)
ReassignUnmarked(m, r, k) ==
    LET i == Lowest(Holders(m.r0, r, k))
        new == Lowest(Targets(m.map, i))
        Other(j) == \E o \in Intervals \ {i} : m.r0[o] = r /\ Covers(o, j)
        Patched(j) == m.map[j] \ IF Other(j) THEN {} ELSE {r}
    IN  [r0 |-> [m.r0 EXCEPT ![i] = new], dirty |-> m.dirty \cup {new}, demoted |-> m.demoted,
         map |-> [j \in Instrs |-> IF Covers(i, j) THEN Patched(j) ELSE m.map[j]]]

\* try_reassign_scratch_conflict: the holder of r at k moves to the lowest
\* callee-saved register that is free, by the bitmap, over its whole range.
Reassign(m, r, k) ==
    LET i == Lowest(Holders(m.r0, r, k))
        new == Lowest(Targets(m.map, i))
        Other(j) == \E o \in Intervals \ {i} : m.r0[o] = r /\ Covers(o, j)
        Patched(j) == (m.map[j] \ IF Other(j) THEN {} ELSE {r}) \cup {new}
    IN  [r0 |-> [m.r0 EXCEPT ![i] = new], dirty |-> m.dirty \cup {new}, demoted |-> m.demoted,
         map |-> [j \in Instrs |-> IF Covers(i, j) THEN Patched(j) ELSE m.map[j]]]

\* try_demote_scratch_conflict: the holder of r at k goes to memory.  Whether
\* that pays is an estimate, and left open.
CanDemote(m, r, k) ==
    /\ Holders(m.r0, r, k) # {}
    /\ LET i == Lowest(Holders(m.r0, r, k)) IN ~fn.iv[i].pinned /\ Alone(m.r0, i)

Demote(m, r, k) ==
    LET i == Lowest(Holders(m.r0, r, k))
    IN  [r0 |-> [m.r0 EXCEPT ![i] = NoReg], dirty |-> m.dirty, demoted |-> m.demoted \cup {i},
         map |-> [j \in Instrs |-> IF Covers(i, j) THEN m.map[j] \ {r} ELSE m.map[j]]]
=============================================================================
