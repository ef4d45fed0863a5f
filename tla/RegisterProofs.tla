--------------------------- MODULE RegisterProofs ---------------------------
(***************************************************************************)
(* Proofs about the registers of a function.                                *)
(*                                                                          *)
(* About CopySchedule: the copies of an edge happen as if at once.          *)
(*                                                                          *)
(* About ScratchRegs, for functions of every length, with any number of     *)
(* intervals and any registers: what the sweep holds, that the fix-up       *)
(* keeps overlapping values apart, that scratch registers are free, that    *)
(* the prologue pushes what the passes behind it use, that no save slot is  *)
(* missed where the fix-up took it away, and that the real pass gets the    *)
(* registers of the rehearsal.                                              *)
(***************************************************************************)
EXTENDS CopySchedule, ScratchRegs, FiniteSets, TLAPS

-----------------------------------------------------------------------------
(* The phi copies of an edge (CopySchedule), for every list of copies, of   *)
(* every length and with every pattern of chains, fans and cycles.          *)

Registers == 0 .. next - 1

ScheduleType ==
    /\ first_phi_temp_pos \in Nat
    /\ next \in Nat
    /\ first_phi_temp_pos <= next
    /\ asked \in CopyLists
    /\ copies \in [DOMAIN asked -> [dest : Nat, src : Registers, emitted : BOOLEAN]]
    /\ holds \in [Registers -> Nat]

(* What holds between two instructions of an edge: a copy that is pending   *)
(* finds in its source, or in the temporary that replaced it, the value it  *)
(* has to deliver; a copy that was written has delivered it; and registers  *)
(* that are no destination keep their own value.                            *)
ScheduleInv ==
    /\ ScheduleType
    /\ \A i \in DOMAIN asked :
          /\ copies[i].dest = asked[i].dest
          /\ ~copies[i].emitted => holds[copies[i].src] = asked[i].src
          /\ copies[i].emitted => holds[asked[i].dest] = asked[i].src
    /\ \A v \in 0 .. first_phi_temp_pos - 1 :
          (\A i \in DOMAIN asked : asked[i].dest # v) => holds[v] = v

(* The copies of a list are pairs of registers of the program, and no two   *)
(* have the same destination.                                               *)
LEMMA ListFacts ==
    ASSUME NEW list \in CopyLists, first_phi_temp_pos \in Nat
    PROVE  /\ \A i \in DOMAIN list : /\ list[i].dest \in 0 .. first_phi_temp_pos - 1
                                     /\ list[i].src \in 0 .. first_phi_temp_pos - 1
           /\ \A i, j \in DOMAIN list : i # j => list[i].dest # list[j].dest
<1>1. list \in Seq([dest : 0 .. first_phi_temp_pos - 1, src : 0 .. first_phi_temp_pos - 1])
  BY DEF CopyLists
<1>2. \A i \in DOMAIN list :
         list[i] \in [dest : 0 .. first_phi_temp_pos - 1, src : 0 .. first_phi_temp_pos - 1]
  <2> DEFINE S == [dest : 0 .. first_phi_temp_pos - 1, src : 0 .. first_phi_temp_pos - 1]
  <2>1. list \in Seq(S)
    BY <1>1
  <2> HIDE DEF S
  <2>2. \A i \in DOMAIN list : list[i] \in S
    BY <2>1
  <2> QED
    BY <2>2 DEF S
<1> QED
  BY <1>2 DEF CopyLists

(* A copy as it is collected. *)
LEMMA FreshCopy ==
    ASSUME NEW S, NEW d \in Nat, NEW s \in S
    PROVE  [dest |-> d, src |-> s, emitted |-> FALSE] \in [dest : Nat, src : S, emitted : BOOLEAN]
  OBVIOUS

(* Before the first edge there are no copies. *)
LEMMA ScheduleInitInv == ScheduleInit => ScheduleInv
<1> SUFFICES ASSUME ScheduleInit PROVE ScheduleInv
  OBVIOUS
<1>1. <<>> \in CopyLists /\ DOMAIN <<>> = {}
  BY DEF CopyLists
<1> QED
  BY <1>1 DEF ScheduleInit, ScheduleInv, ScheduleType, Registers, Identity

(* Collecting the copies of the next edge. *)
LEMMA BeginInv ==
    ASSUME ScheduleInv, NEW list \in CopyLists, Begin(list)
    PROVE  ScheduleInv'
<1>1. CopyLists' = CopyLists /\ Registers' = Registers
  BY DEF Begin, CopyLists, Registers
<1>2. /\ first_phi_temp_pos \in Nat /\ next \in Nat /\ first_phi_temp_pos <= next
      /\ UNCHANGED <<first_phi_temp_pos, next>>
      /\ asked' = list
      /\ holds' = Identity
  BY DEF Begin, ScheduleInv, ScheduleType
<1>3. /\ DOMAIN copies' = DOMAIN list
      /\ \A i \in DOMAIN list :
            copies'[i] = [dest |-> list[i].dest, src |-> list[i].src, emitted |-> FALSE]
  BY DEF Begin
<1>4. \A i \in DOMAIN list : /\ list[i].dest \in 0 .. first_phi_temp_pos - 1
                             /\ list[i].src \in 0 .. first_phi_temp_pos - 1
  BY <1>2, ListFacts
<1>5. copies' \in [DOMAIN list -> [dest : Nat, src : Registers, emitted : BOOLEAN]]
  <2>1. \A i \in DOMAIN list : copies'[i] \in [dest : Nat, src : Registers, emitted : BOOLEAN]
    <3> SUFFICES ASSUME NEW i \in DOMAIN list
                 PROVE  copies'[i] \in [dest : Nat, src : Registers, emitted : BOOLEAN]
      OBVIOUS
    <3>1. list[i].dest \in Nat /\ list[i].src \in Registers
      BY <1>2, <1>4 DEF Registers
    <3>2. copies'[i] = [dest |-> list[i].dest, src |-> list[i].src, emitted |-> FALSE]
      BY <1>3
    <3>3. [dest |-> list[i].dest, src |-> list[i].src, emitted |-> FALSE]
             \in [dest : Nat, src : Registers, emitted : BOOLEAN]
      BY ONLY <3>1, FreshCopy
    <3> QED
      BY <3>2, <3>3
  <2>2. copies' = [i \in DOMAIN list |-> copies'[i]]
    BY DEF Begin
  <2> QED
    BY <2>1, <2>2, Zenon
<1>6. ScheduleType'
  BY <1>1, <1>2, <1>5 DEF ScheduleType, Identity, Registers
<1> QED
  BY <1>2, <1>3, <1>4, <1>6 DEF ScheduleInv, Identity

(* Writing a copy that is ready: its destination is no source of a copy     *)
(* that is pending, and no destination of another copy.                     *)
LEMMA EmitInv ==
    ASSUME ScheduleInv, NEW ci \in DOMAIN copies, EmitReady(ci)
    PROVE  ScheduleInv'
<1>1. /\ first_phi_temp_pos \in Nat /\ next \in Nat /\ first_phi_temp_pos <= next
      /\ asked \in CopyLists
      /\ copies \in [DOMAIN asked -> [dest : Nat, src : Registers, emitted : BOOLEAN]]
      /\ holds \in [Registers -> Nat]
      /\ UNCHANGED <<asked, next, first_phi_temp_pos>>
  BY DEF EmitReady, ScheduleInv, ScheduleType
<1>2. CopyLists' = CopyLists /\ Registers' = Registers
  BY <1>1 DEF CopyLists, Registers
<1>3. /\ holds' = [holds EXCEPT ![copies[ci].dest] = holds[copies[ci].src]]
      /\ ~copies[ci].emitted
      /\ \A i \in DOMAIN copies : i # ci /\ ~copies[i].emitted => copies[i].src # copies[ci].dest
  BY DEF EmitReady, Ready, Pending, Clobbers
<1>4. /\ ci \in DOMAIN asked
      /\ copies[ci].dest = asked[ci].dest
      /\ copies[ci].dest \in 0 .. first_phi_temp_pos - 1
      /\ copies[ci].dest \in Registers
      /\ holds[copies[ci].src] = asked[ci].src
  BY <1>1, <1>3, ListFacts DEF ScheduleInv, Registers
<1>5. /\ copies' \in [DOMAIN asked -> [dest : Nat, src : Registers, emitted : BOOLEAN]]
      /\ \A i \in DOMAIN asked :
            /\ copies'[i].dest = copies[i].dest
            /\ copies'[i].src = copies[i].src
            /\ copies'[i].emitted = IF i = ci THEN TRUE ELSE copies[i].emitted
  <2>1. copies' = [i \in DOMAIN asked |->
                     IF i = ci THEN [copies[i] EXCEPT !.emitted = TRUE] ELSE copies[i]]
    BY <1>1, Zenon DEF EmitReady
  <2> QED
    BY <1>1, <2>1, Zenon
<1>6. /\ holds' \in [Registers -> Nat]
      /\ \A v \in Registers : holds'[v] = IF v = copies[ci].dest THEN asked[ci].src ELSE holds[v]
  BY <1>1, <1>3, <1>4, ListFacts
<1>7. ScheduleType'
  BY <1>1, <1>2, <1>5, <1>6 DEF ScheduleType
<1>8. ASSUME NEW i \in DOMAIN asked
      PROVE  /\ copies'[i].dest = asked[i].dest
             /\ ~copies'[i].emitted => holds'[copies'[i].src] = asked[i].src
             /\ copies'[i].emitted => holds'[asked[i].dest] = asked[i].src
  <2>1. copies[i].src \in Registers /\ asked[i].dest \in Registers
    BY <1>1, ListFacts DEF Registers
  <2>2. CASE i = ci
    BY <1>4, <1>5, <1>6, <2>2, Zenon
  <2>3. CASE i # ci
    <3>1. asked[i].dest # asked[ci].dest
      BY <1>1, <2>3, ListFacts
    <3>2. /\ copies[i].dest = asked[i].dest
          /\ ~copies[i].emitted => holds[copies[i].src] = asked[i].src
          /\ copies[i].emitted => holds[asked[i].dest] = asked[i].src
      BY DEF ScheduleInv
    <3>3. copies'[i].dest = asked[i].dest
      BY <1>5, <3>2, Zenon
    <3>4. ASSUME ~copies'[i].emitted PROVE holds'[copies'[i].src] = asked[i].src
      <4>1. ~copies[i].emitted /\ copies'[i].src = copies[i].src
        BY <1>5, <2>3, <3>4, Zenon
      <4>2. copies[i].src # copies[ci].dest
        BY <1>1, <1>3, <2>3, <4>1
      <4> QED
        BY <1>6, <2>1, <3>2, <4>1, <4>2
    <3>5. ASSUME copies'[i].emitted PROVE holds'[asked[i].dest] = asked[i].src
      <4>1. copies[i].emitted
        BY <1>5, <2>3, <3>5, Zenon
      <4> QED
        BY <1>4, <1>6, <2>1, <3>1, <3>2, <4>1
    <3> QED
      BY <3>3, <3>4, <3>5
  <2> QED
    BY <2>2, <2>3
<1>9. ASSUME NEW v \in 0 .. first_phi_temp_pos - 1, \A i \in DOMAIN asked : asked[i].dest # v
      PROVE  holds'[v] = v
  <2>1. v \in Registers /\ v # copies[ci].dest
    BY <1>1, <1>4, <1>9 DEF Registers
  <2> QED
    BY <1>6, <1>9, <2>1 DEF ScheduleInv
<1> QED
  BY <1>1, <1>7, <1>8, <1>9 DEF ScheduleInv

(* Saving the source of a copy in a new temporary. *)
LEMMA BreakInv ==
    ASSUME ScheduleInv, NEW ci \in DOMAIN copies, BreakCycle(ci)
    PROVE  ScheduleInv'
<1>1. /\ first_phi_temp_pos \in Nat /\ next \in Nat /\ first_phi_temp_pos <= next
      /\ asked \in CopyLists
      /\ copies \in [DOMAIN asked -> [dest : Nat, src : Registers, emitted : BOOLEAN]]
      /\ holds \in [Registers -> Nat]
      /\ UNCHANGED <<asked, first_phi_temp_pos>>
      /\ next' = next + 1
  BY DEF BreakCycle, ScheduleInv, ScheduleType
<1>2. CopyLists' = CopyLists /\ Registers' = 0 .. next /\ Registers \subseteq Registers'
  BY <1>1 DEF CopyLists, Registers
<1>3. ci \in DOMAIN asked /\ ~copies[ci].emitted /\ copies[ci].src \in Registers
  BY <1>1 DEF BreakCycle, Pending
<1>4. /\ copies' \in [DOMAIN asked -> [dest : Nat, src : 0 .. next, emitted : BOOLEAN]]
      /\ \A i \in DOMAIN asked :
            /\ copies'[i].dest = copies[i].dest
            /\ copies'[i].src = IF i = ci THEN next ELSE copies[i].src
            /\ copies'[i].emitted = copies[i].emitted
  <2>1. copies' = [i \in DOMAIN asked |->
                     IF i = ci THEN [copies[i] EXCEPT !.src = next] ELSE copies[i]]
    BY <1>1, Zenon DEF BreakCycle
  <2>2. Registers \subseteq 0 .. next /\ next \in 0 .. next
    BY <1>1 DEF Registers
  <2>3. \A i \in DOMAIN asked : copies'[i] \in [dest : Nat, src : 0 .. next, emitted : BOOLEAN]
    <3> SUFFICES ASSUME NEW i \in DOMAIN asked
                 PROVE  copies'[i] \in [dest : Nat, src : 0 .. next, emitted : BOOLEAN]
      OBVIOUS
    <3>1. copies[i] \in [dest : Nat, src : Registers, emitted : BOOLEAN]
      BY <1>1
    <3> QED
      BY <2>1, <2>2, <3>1
  <2>4. \A i \in DOMAIN asked :
            /\ copies'[i].dest = copies[i].dest
            /\ copies'[i].src = IF i = ci THEN next ELSE copies[i].src
            /\ copies'[i].emitted = copies[i].emitted
    BY <1>1, <2>1
  <2> QED
    BY <2>1, <2>3, <2>4
<1>5. /\ holds' \in [0 .. next -> Nat]
      /\ holds'[next] = holds[copies[ci].src]
      /\ \A v \in Registers : holds'[v] = holds[v]
  <2>1. holds' = [v \in 0 .. next |-> holds[IF v = next THEN copies[ci].src ELSE v]]
    BY DEF BreakCycle
  <2>2. \A v \in 0 .. next : (IF v = next THEN copies[ci].src ELSE v) \in Registers
    BY <1>1, <1>3 DEF Registers
  <2> QED
    BY <1>1, <1>3, <2>1, <2>2 DEF Registers
<1>6. ScheduleType'
  BY <1>1, <1>2, <1>4, <1>5 DEF ScheduleType
<1>7. ASSUME NEW i \in DOMAIN asked
      PROVE  /\ copies'[i].dest = asked[i].dest
             /\ ~copies'[i].emitted => holds'[copies'[i].src] = asked[i].src
             /\ copies'[i].emitted => holds'[asked[i].dest] = asked[i].src
  <2>1. copies[i].src \in Registers /\ asked[i].dest \in Registers
    BY <1>1, ListFacts DEF Registers
  <2>2. /\ copies[i].dest = asked[i].dest
        /\ ~copies[i].emitted => holds[copies[i].src] = asked[i].src
        /\ copies[i].emitted => holds[asked[i].dest] = asked[i].src
    BY DEF ScheduleInv
  <2>3. CASE i = ci
    BY <1>3, <1>4, <1>5, <2>2, <2>3
  <2>4. CASE i # ci
    BY <1>4, <1>5, <2>1, <2>2, <2>4
  <2> QED
    BY <2>3, <2>4
<1>8. ASSUME NEW v \in 0 .. first_phi_temp_pos - 1, \A i \in DOMAIN asked : asked[i].dest # v
      PROVE  holds'[v] = v
  <2>1. v \in Registers
    BY <1>1 DEF Registers
  <2> QED
    BY <1>5, <1>8, <2>1 DEF ScheduleInv
<1> QED
  BY <1>1, <1>6, <1>7, <1>8 DEF ScheduleInv

(* Every step of the schedule keeps the invariant. *)
LEMMA ScheduleNextInv == ScheduleInv /\ [ScheduleNext]_scheduleVars => ScheduleInv'
<1> SUFFICES ASSUME ScheduleInv, [ScheduleNext]_scheduleVars PROVE ScheduleInv'
  OBVIOUS
<1>1. CASE \E list \in CopyLists : Begin(list)
  BY <1>1, BeginInv
<1>2. CASE \E ci \in DOMAIN copies : EmitReady(ci)
  BY <1>2, EmitInv
<1>3. CASE \E ci \in DOMAIN copies : BreakCycle(ci)
  BY <1>3, BreakInv
<1>4. CASE UNCHANGED scheduleVars
  BY <1>4 DEF scheduleVars, ScheduleInv, ScheduleType, Registers, CopyLists
<1> QED
  BY <1>1, <1>2, <1>3, <1>4 DEF ScheduleNext

(* The invariant says of a finished edge what EdgeCopied says. *)
LEMMA InvEdgeCopied == ScheduleInv => EdgeCopied
  BY DEF ScheduleInv, ScheduleType, EdgeCopied, Pending

(* The loop of ra_emit_scheduled_phi_copies delivers the value of every     *)
(* source to its destination and disturbs no other register, whatever the   *)
(* copies of an edge are.                                                   *)
THEOREM EdgeCopiedHolds == ScheduleSpec => []EdgeCopied
<1>1. ScheduleSpec => []ScheduleInv
  BY ScheduleInitInv, ScheduleNextInv, PTL DEF ScheduleSpec
<1> QED
  BY <1>1, InvEdgeCopied, PTL

-----------------------------------------------------------------------------
(* Facts about the tables of LiveRegs, for any intervals: the sweep is exact *)
(* wherever a query moves it, moving or demoting an interval keeps the       *)
(* tables in agreement, and a free register is one the bitmap lacks.         *)

(* What the library shows of numbers and of finite sets.  It is a hypothesis *)
(* of the lemmas that need it and is discharged before the theorems: the     *)
(* prover carries every statement in sight through every step.               *)
Counting ==
    /\ \A T : T \subseteq Nat /\ T # {} => \E m \in T : \A k \in T : m <= k
    /\ \A T : IsFiniteSet(T) => Cardinality(T) \in Nat
    /\ \A T, R : IsFiniteSet(T) /\ R \subseteq T =>
          IsFiniteSet(R) /\ Cardinality(R) <= Cardinality(T)
    /\ \A n \in Nat : IsFiniteSet(0 .. n)
    /\ \A n \in Nat : \A f :
          IsFiniteSet({f[j] : j \in 1 .. n}) /\ Cardinality({f[j] : j \in 1 .. n}) <= n

\* What FunctionsAssumption says of the function that is being compiled
FnOK ==
    /\ fn.n \in Nat \ {0} /\ Intervals \subseteq Nat
    /\ \A i \in Intervals :
          fn.iv[i].start \in Int /\ fn.iv[i].end \in Int /\ fn.iv[i].r0 \in Allocatable

\* The sweep has taken the intervals that start up to its position.
SweepOK(s, reg) ==
    /\ s.valid \in BOOLEAN
    /\ s.valid =>
          /\ s.last \in Int
          /\ s.taken = {i \in Intervals : fn.iv[i].start <= s.last}
          /\ s.active \subseteq {i \in Intervals : Covers(i, s.last)}
          /\ {i \in Intervals : Covers(i, s.last) /\ reg[i] # NoReg} \subseteq s.active

\* The tables agree with each other: the bitmap has the register of every
\* live interval, the dirty registers those of all intervals that matter to
\* the prologue, and overlapping intervals share as they did at first.
TablesOK(m) ==
    /\ m.r0 \in [Intervals -> Allocatable \cup {NoReg}]
    /\ m.map \in [Instrs -> SUBSET Allocatable]
    /\ \A i \in Intervals : \A k \in Instrs :
          Covers(i, k) /\ m.r0[i] # NoReg => m.r0[i] \in m.map[k]
    /\ \A i \in Intervals : m.r0[i] \in Callee => m.r0[i] \in m.dirty
    /\ \A i, j \in Intervals :
          i # j /\ Overlap(i, j) =>
              (m.r0[i] # NoReg /\ m.r0[i] = m.r0[j] <=> fn.iv[i].r0 = fn.iv[j].r0)

\* The intervals of b that have a register have one in a.
OnlyLost(a, b) == \A i \in Intervals : b[i] # NoReg => a[i] # NoReg

-----------------------------------------------------------------------------
(* The lowest of a set of numbers is one of them: what the picks of a        *)
(* register by __builtin_ctz, and of the first interval, rely on.            *)
LEMMA LowestIn ==
  ASSUME Counting, NEW S \in SUBSET Nat, S # {}
  PROVE  Lowest(S) \in S
<1>1. \E x \in S : \A y \in S : x <= y
  BY Zenon DEF Counting
<1> QED
  BY <1>1, Zenon DEF Lowest

(* ls_sweep_advance leaves the sweep exact at the position asked for, from   *)
(* any position before or behind it.                                         *)
LEMMA AdvanceExact ==
  ASSUME FnOK, SweepOK(sweep, r0), NEW k \in Int
  PROVE  SweepOK(Advance(k), r0) /\ Advance(k).valid /\ Advance(k).last = k
<1> DEFINE old == IF ~sweep.valid \/ k < sweep.last THEN NoSweep ELSE sweep
           new == {i \in Intervals \ old.taken : fn.iv[i].start <= k}
           act == {i \in old.active \cup {j \in new : r0[j] # NoReg} : fn.iv[i].end >= k}
<1>1. Advance(k) = [valid |-> TRUE, taken |-> old.taken \cup new, last |-> k, active |-> act]
  BY DEF Advance
<1>2. CASE ~sweep.valid \/ k < sweep.last
  <2>1. old.taken = {} /\ old.active = {}
    BY <1>2 DEF NoSweep
  <2> HIDE DEF old
  <2> QED
    BY <1>1, <2>1 DEF SweepOK, Covers, FnOK
<1>3. CASE sweep.valid /\ ~(k < sweep.last)
  <2>1. /\ old = sweep
        /\ sweep.last \in Int /\ sweep.last <= k
        /\ sweep.taken = {i \in Intervals : fn.iv[i].start <= sweep.last}
        /\ sweep.active \subseteq {i \in Intervals : Covers(i, sweep.last)}
        /\ {i \in Intervals : Covers(i, sweep.last) /\ r0[i] # NoReg} \subseteq sweep.active
    BY <1>3 DEF SweepOK
  <2> HIDE DEF old
  <2>2. old.taken \cup new = {i \in Intervals : fn.iv[i].start <= k}
    <3>1. \A i \in Intervals : fn.iv[i].start <= sweep.last => fn.iv[i].start <= k
      BY <2>1 DEF FnOK
    <3> QED
      BY <2>1, <3>1
  <2>3. ASSUME NEW i \in act
        PROVE  i \in Intervals /\ Covers(i, k)
    <3>1. i \in Intervals /\ fn.iv[i].end >= k /\ (fn.iv[i].start <= sweep.last \/ fn.iv[i].start <= k)
      BY <2>1, <2>3 DEF Covers
    <3>2. fn.iv[i].start \in Int /\ fn.iv[i].end \in Int
      BY <3>1, Zenon DEF FnOK
    <3>3. fn.iv[i].start <= k /\ k <= fn.iv[i].end
      BY <2>1, <3>1, <3>2
    <3> QED
      BY <3>1, <3>3 DEF Covers
  <2>4. ASSUME NEW i \in Intervals, Covers(i, k), r0[i] # NoReg
        PROVE  i \in act
    <3>1. fn.iv[i].start \in Int /\ fn.iv[i].end \in Int
      BY DEF FnOK
    <3>2. fn.iv[i].end >= k /\ fn.iv[i].start <= k
      BY <2>4, <3>1 DEF Covers
    <3>3. CASE fn.iv[i].start <= sweep.last
      <4>1. Covers(i, sweep.last)
        BY <2>1, <3>1, <3>2, <3>3 DEF Covers
      <4> QED
        BY <2>1, <2>4, <3>2, <4>1
    <3>4. CASE ~(fn.iv[i].start <= sweep.last)
      BY <2>1, <2>4, <3>2, <3>4
    <3> QED
      BY <3>3, <3>4
  <2> HIDE DEF new, act
  <2> QED
    BY <1>1, <2>2, <2>3, <2>4 DEF SweepOK
<1> QED
  BY <1>2, <1>3 DEF SweepOK

(* tcc_ls_compute_live_regs returns the registers of the live intervals,     *)
(* wherever the sweep was.                                                   *)
LEMMA LiveRegsExact ==
  ASSUME FnOK, SweepOK(sweep, r0), NEW k \in Int
  PROVE  LiveRegsAt(k) = {r0[i] : i \in {j \in Intervals : Covers(j, k)}} \ {NoReg}
<1>1. SweepOK(Advance(k), r0) /\ Advance(k).valid /\ Advance(k).last = k
  BY AdvanceExact
<1>2. /\ Advance(k).active \subseteq {i \in Intervals : Covers(i, k)}
      /\ {i \in Intervals : Covers(i, k) /\ r0[i] # NoReg} \subseteq Advance(k).active
  BY <1>1 DEF SweepOK
<1> QED
  BY <1>2 DEF LiveRegsAt

(* The bitmap has them all.                                                  *)
LEMMA LiveInBitmap ==
  ASSUME FnOK, SweepOK(sweep, r0), NEW m, TablesOK(m), m.r0 = r0, m.map = bitmap,
         NEW k \in Instrs
  PROVE  LiveRegsAt(k) \subseteq bitmap[k]
<1>1. k \in Int
  BY DEF FnOK, Instrs
<1> QED
  BY <1>1, LiveRegsExact DEF TablesOK

(* A query takes intervals only.                                             *)
LEMMA AdvanceTyped ==
  ASSUME sweep.taken \subseteq Intervals, sweep.active \subseteq Intervals, NEW k
  PROVE  Advance(k).taken \subseteq Intervals /\ Advance(k).active \subseteq Intervals
  BY DEF Advance, NoSweep

(* tcc_ls_find_int_reg_holder looks among intervals of the function.         *)
LEMMA HoldersAreIntervals ==
  ASSUME FnOK, SweepOK(sweep, r0), NEW reg, NEW r, NEW k \in Instrs
  PROVE  Holders(reg, r, k) \subseteq Intervals
<1>1. k \in Int
  BY DEF Instrs, FnOK
<1>2. Advance(k).active \subseteq Intervals
  BY <1>1, AdvanceExact DEF SweepOK
<1> QED
  BY <1>2 DEF Holders

(* try_reassign_scratch_conflict keeps the tables in agreement: the interval *)
(* it moves shares its register with nobody, and lands where the bitmap has  *)
(* no register of an interval that it overlaps.                              *)
LEMMA ReassignKeeps ==
  ASSUME Counting, FnOK, SweepOK(sweep, r0), NEW m, TablesOK(m), NEW r, NEW k \in Instrs,
         CanReassign(m, r, k)
  PROVE  /\ TablesOK(Reassign(m, r, k))
         /\ OnlyLost(m.r0, Reassign(m, r, k).r0)
<1> DEFINE i == Lowest(Holders(m.r0, r, k))
           new == Lowest(Targets(m.map, i))
           reg == [m.r0 EXCEPT ![i] = new]
           map == Reassign(m, r, k).map
<1>0. Holders(m.r0, r, k) \subseteq Intervals
  BY HoldersAreIntervals
<1>1. i \in Intervals /\ m.r0[i] = r /\ r # NoReg /\ Alone(m.r0, i)
  <2>1. i \in Holders(m.r0, r, k)
    <3>1. Holders(m.r0, r, k) \in SUBSET Nat /\ Holders(m.r0, r, k) # {}
      BY <1>0, Zenon DEF CanReassign, FnOK
    <3> QED
      BY <3>1, LowestIn, Zenon
  <2> QED
    BY <1>0, <2>1, Zenon DEF Holders, CanReassign
<1>2. new \in Callee /\ \A j \in Instrs : Covers(i, j) => new \notin m.map[j]
  <2>1. new \in Targets(m.map, i)
    BY LowestIn, RegsAssumption DEF CanReassign, Targets
  <2> HIDE DEF new, i
  <2> QED
    BY <2>1 DEF Targets
<1>3. /\ Reassign(m, r, k).r0 = reg
      /\ Reassign(m, r, k).dirty = m.dirty \cup {new}
      /\ \A j \in Instrs : /\ ~Covers(i, j) => map[j] = m.map[j]
                           /\ Covers(i, j) => map[j] \subseteq m.map[j] \cup {new}
                           /\ Covers(i, j) => m.map[j] \ {r} \subseteq map[j]
                           /\ Covers(i, j) => new \in map[j]
                           /\ (\E o \in Intervals \ {i} : m.r0[o] = r /\ Covers(o, j))
                                 => m.map[j] \subseteq map[j]
      /\ map = [j \in Instrs |-> map[j]]
  BY ZenonT(40) DEF Reassign
<1> HIDE DEF i, new, map
<1>4. new # NoReg /\ new \in Allocatable
  BY <1>2, RegsAssumption DEF NoReg, Allocatable
<1>5. /\ reg \in [Intervals -> Allocatable \cup {NoReg}]
      /\ reg[i] = new /\ \A j \in Intervals \ {i} : reg[j] = m.r0[j]
  BY <1>1, <1>4 DEF TablesOK
<1> HIDE DEF reg
<1>6. map \in [Instrs -> SUBSET Allocatable]
  <2>1. \A j \in Instrs : map[j] \in SUBSET Allocatable
    BY <1>3, <1>4 DEF TablesOK
  <2> QED
    BY <1>3, <2>1
<1>7. \A j \in Intervals : \A l \in Instrs : Covers(j, l) /\ reg[j] # NoReg => reg[j] \in map[l]
  BY <1>1, <1>3, <1>5 DEF TablesOK
<1>8. \A j \in Intervals : reg[j] \in Callee => reg[j] \in m.dirty \cup {new}
  BY <1>5 DEF TablesOK
<1>9. \A j \in Intervals \ {i} : Overlap(i, j) =>
          m.r0[j] # new /\ fn.iv[i].r0 # fn.iv[j].r0
  <2> SUFFICES ASSUME NEW j \in Intervals \ {i}, Overlap(i, j)
               PROVE  m.r0[j] # new /\ fn.iv[i].r0 # fn.iv[j].r0
    OBVIOUS
  <2>1. PICK l \in Instrs : Covers(i, l) /\ Covers(j, l)
    BY DEF Overlap
  <2>2. m.r0[j] # new
    BY <1>2, <1>4, <2>1 DEF TablesOK
  <2>3. m.r0[j] # m.r0[i]
    BY <1>1 DEF Alone
  <2> QED
    BY <1>1, <2>2, <2>3 DEF TablesOK
<1>10. \A a, b \in Intervals : Overlap(a, b) <=> Overlap(b, a)
  BY DEF Overlap
<1>11. \A a, b \in Intervals : a # b /\ Overlap(a, b) =>
          (reg[a] # NoReg /\ reg[a] = reg[b] <=> fn.iv[a].r0 = fn.iv[b].r0)
  <2> SUFFICES ASSUME NEW a \in Intervals, NEW b \in Intervals, a # b, Overlap(a, b)
               PROVE  reg[a] # NoReg /\ reg[a] = reg[b] <=> fn.iv[a].r0 = fn.iv[b].r0
    OBVIOUS
  <2>1. CASE a = i
    BY <2>1, <1>5, <1>9
  <2>2. CASE b = i
    BY <2>2, <1>5, <1>9, <1>10
  <2>3. CASE a # i /\ b # i
    BY <2>3, <1>5 DEF TablesOK
  <2> QED
    BY <2>1, <2>2, <2>3
<1>12. OnlyLost(m.r0, reg)
  BY <1>1, <1>5, SMTT(40) DEF OnlyLost
<1> QED
  BY <1>3, <1>6, <1>7, <1>8, <1>11, <1>12, <1>5 DEF TablesOK, map

(* try_demote_scratch_conflict keeps them too: nobody else has the register  *)
(* over the range from which it is released.                                 *)
LEMMA DemoteKeeps ==
  ASSUME Counting, FnOK, SweepOK(sweep, r0), NEW m, TablesOK(m), NEW r, NEW k \in Instrs,
         CanDemote(m, r, k)
  PROVE  /\ TablesOK(Demote(m, r, k))
         /\ OnlyLost(m.r0, Demote(m, r, k).r0)
<1> DEFINE i == Lowest(Holders(m.r0, r, k))
           reg == [m.r0 EXCEPT ![i] = NoReg]
           map == Demote(m, r, k).map
<1>0. Holders(m.r0, r, k) \subseteq Intervals
  BY HoldersAreIntervals
<1>1. i \in Intervals /\ m.r0[i] = r /\ r # NoReg /\ Alone(m.r0, i)
  <2>1. i \in Holders(m.r0, r, k)
    <3>1. Holders(m.r0, r, k) \in SUBSET Nat /\ Holders(m.r0, r, k) # {}
      BY <1>0, Zenon DEF CanDemote, FnOK
    <3> QED
      BY <3>1, LowestIn, Zenon
  <2> QED
    BY <1>0, <2>1, Zenon DEF Holders, CanDemote
<1>2. /\ Demote(m, r, k).r0 = reg
      /\ Demote(m, r, k).dirty = m.dirty
      /\ map = [j \in Instrs |-> IF Covers(i, j) THEN m.map[j] \ {r} ELSE m.map[j]]
  BY Zenon DEF Demote
<1> HIDE DEF i, map
<1>3. /\ reg \in [Intervals -> Allocatable \cup {NoReg}]
      /\ reg[i] = NoReg /\ \A j \in Intervals \ {i} : reg[j] = m.r0[j]
  BY <1>1 DEF TablesOK
<1> HIDE DEF reg
<1>4. map \in [Instrs -> SUBSET Allocatable]
  BY <1>2 DEF TablesOK
<1>5. \A j \in Intervals : \A l \in Instrs : Covers(j, l) /\ reg[j] # NoReg => reg[j] \in map[l]
  <2> SUFFICES ASSUME NEW j \in Intervals, NEW l \in Instrs, Covers(j, l), reg[j] # NoReg
               PROVE  reg[j] \in map[l]
    OBVIOUS
  <2>1. j # i /\ reg[j] = m.r0[j] /\ m.r0[j] \in m.map[l]
    BY <1>3 DEF TablesOK
  <2>2. Covers(i, l) => m.r0[j] # r
    BY <1>1, <2>1 DEF Alone, Overlap
  <2> QED
    BY <1>2, <2>1, <2>2
<1>6. \A j \in Intervals : reg[j] \in Callee => reg[j] \in m.dirty
  <2>1. NoReg \notin Callee
    BY RegsAssumption DEF NoReg
  <2> QED
    BY <1>3, <2>1 DEF TablesOK
<1>7. \A j \in Intervals \ {i} : Overlap(i, j) \/ Overlap(j, i) => fn.iv[i].r0 # fn.iv[j].r0
  <2> SUFFICES ASSUME NEW j \in Intervals \ {i}, Overlap(i, j) \/ Overlap(j, i)
               PROVE  fn.iv[i].r0 # fn.iv[j].r0
    OBVIOUS
  <2>1. Overlap(i, j)
    BY DEF Overlap
  <2>2. m.r0[j] # m.r0[i]
    BY <1>1, <2>1 DEF Alone
  <2> QED
    BY <1>1, <2>1, <2>2 DEF TablesOK
<1>8. \A a, b \in Intervals : a # b /\ Overlap(a, b) =>
          (reg[a] # NoReg /\ reg[a] = reg[b] <=> fn.iv[a].r0 = fn.iv[b].r0)
  <2> SUFFICES ASSUME NEW a \in Intervals, NEW b \in Intervals, a # b, Overlap(a, b)
               PROVE  reg[a] # NoReg /\ reg[a] = reg[b] <=> fn.iv[a].r0 = fn.iv[b].r0
    OBVIOUS
  <2>1. CASE a = i
    BY <2>1, <1>3, <1>7
  <2>2. CASE b = i
    BY <2>2, <1>3, <1>7
  <2>3. CASE a # i /\ b # i
    BY <2>3, <1>3 DEF TablesOK
  <2> QED
    BY <2>1, <2>2, <2>3
<1>9. OnlyLost(m.r0, reg)
  BY <1>3 DEF OnlyLost
<1> QED
  BY <1>2, <1>3, <1>4, <1>5, <1>6, <1>8, <1>9, SMTT(40) DEF TablesOK, map

(* A pick of tcc_ls_find_free_scratch_reg is a register that was not         *)
(* excluded and that the bitmap does not have.                               *)
LEMMA FreeIsFree ==
  ASSUME Counting, NEW k, NEW exclude, NEW s \in SUBSET Callee, FreeScratch(k, exclude, s) # NoReg
  PROVE  LET x == FreeScratch(k, exclude, s)
         IN  /\ x \in Regs /\ x \notin exclude /\ x \notin bitmap[k]
             /\ x \in CallerSaved \/ x \in s \/ (x = LR /\ ~fn.leaf)
<1> DEFINE free == Regs \ (exclude \cup Known(k) \cup IF fn.leaf THEN {LR} ELSE {})
           x == FreeScratch(k, exclude, s)
<1>1. Low \cap free # {} => Lowest(Low \cap free) \in Low \cap free
  BY LowestIn, RegsAssumption
<1>2. s \cap free # {} => Lowest(s \cap free) \in s \cap free
  BY LowestIn, RegsAssumption
<1>3. x = IF Low \cap free # {} THEN Lowest(Low \cap free)
          ELSE IF IP \in free THEN IP
          ELSE IF s \cap free # {} THEN Lowest(s \cap free)
          ELSE IF LR \in free THEN LR ELSE NoReg
  BY DEF FreeScratch
<1>4. \A y \in free : y \in Regs /\ y \notin exclude /\ y \notin bitmap[k] /\ (y = LR => ~fn.leaf)
  BY DEF Known
<1> HIDE DEF free
<1>5. x \in free /\ (x \in Low \/ x = IP \/ x \in s \/ x = LR)
  BY <1>1, <1>2, <1>3, SMTT(40)
<1> QED
  BY <1>4, <1>5 DEF CallerSaved

-----------------------------------------------------------------------------
(* Code generation. *)

Answers == [reg : Regs, how : {"free", "dead", "save"}]

\* The prologue has been told of everything a later request may rely on.
PrologueOK ==
    /\ spare \subseteq pushed
    /\ ~fn.leaf => LR \in pushed
    /\ \A i \in Intervals : r0[i] \in Callee => r0[i] \in pushed

TookOK ==
    /\ took \in Seq(Answers)
    /\ \A j \in DOMAIN took :
          /\ took[j].how # "save" => \A i \in Intervals : Covers(i, at) => r0[i] # took[j].reg
          /\ \A l \in DOMAIN took : took[l].reg = took[j].reg => l = j
          /\ pass \in {"rehearse", "emit"} /\ took[j].how # "save" /\ took[j].reg \notin CallerSaved
                => took[j].reg \in pushed

(* The inductive invariant.  Scratch registers are free because the bitmap   *)
(* has every live register, which lasts through the fix-up only because an   *)
(* interval that moves shares its register with nobody.                      *)
IInv ==
    /\ FnOK
    /\ at \in Instrs /\ pass \in Passes
    /\ SweepOK(sweep, r0)
    /\ TablesOK(Tables)
    /\ spare \subseteq Callee
    /\ TookOK
    /\ pass \in {"fixup", "trim", "frame"} => took = <<>>
    /\ pass \in {"rehearse", "emit"} => PrologueOK

(* An answer of get_scratch_reg_with_save: not excluded, dead if it is not   *)
(* saved, and then pushed by the prologue unless it is caller-saved.         *)
LEMMA AnswerGood ==
  ASSUME Counting, IInv, NEW exclude, Regs \ exclude # {}
  PROVE  LET a == Answer(exclude)
         IN  /\ a \in Answers /\ a.reg \notin exclude
             /\ a.how # "save" => \A i \in Intervals : Covers(i, at) => r0[i] # a.reg
             /\ pass \in {"rehearse", "emit"} /\ a.how # "save" /\ a.reg \notin CallerSaved
                   => a.reg \in pushed
<1> DEFINE a == Answer(exclude)
           real == pass # "discover"
           found == FreeScratch(at, exclude, spare)
           narrow == IF real THEN DeadIn(pushed \cap NarrowRegs, exclude) ELSE {}
           dead == DeadIn(IF real THEN pushed \cap Callee ELSE Predicted, exclude)
<1>1. a = IF found \in {IP, LR} /\ narrow # {} THEN [reg |-> Lowest(narrow), how |-> "dead"]
          ELSE IF found # NoReg THEN [reg |-> found, how |-> "free"]
          ELSE IF dead # {} THEN [reg |-> Lowest(dead), how |-> "dead"]
          ELSE IF (LR \in pushed \/ ~fn.leaf) /\ LR \notin exclude THEN [reg |-> LR, how |-> "free"]
          ELSE [reg |-> SaveChoice(exclude), how |-> "save"]
  BY DEF Answer
<1>2. \A i \in Intervals : Covers(i, at) /\ r0[i] # NoReg => r0[i] \in bitmap[at]
  BY DEF IInv, TablesOK, Tables
<1>3. Callee \subseteq Nat /\ Regs \subseteq Nat /\ NoReg \notin Regs /\ Callee \subseteq Regs
  BY RegsAssumption DEF Regs, Allocatable, CallerSaved, IP, LR, NoReg
<1>4. \A i \in Intervals : r0[i] # LR
  BY RegsAssumption DEF IInv, TablesOK, Tables, Allocatable, CallerSaved, IP, LR, NoReg
<1>5. /\ narrow \subseteq Callee /\ dead \subseteq Callee
      /\ \A x \in narrow \cup dead : x \notin exclude /\ x \notin bitmap[at]
      /\ real => narrow \subseteq pushed /\ dead \subseteq pushed
  BY RegsAssumption, Zenon DEF DeadIn, Predicted
<1>6. CASE found \in {IP, LR} /\ narrow # {}
  <2>1. Lowest(narrow) \in narrow
    BY <1>3, <1>5, <1>6, LowestIn, Zenon
  <2>2. a = [reg |-> Lowest(narrow), how |-> "dead"]
    BY <1>1, <1>6
  <2> HIDE DEF narrow, a
  <2>3. a.reg \in narrow /\ a.how = "dead" /\ a.reg \in Regs /\ a \in Answers
    BY <2>1, <2>2, <1>3, <1>5, ZenonT(40) DEF Answers
  <2> QED
    BY <2>3, <1>2, <1>3, <1>5, Zenon DEF a
<1>7. CASE found # NoReg /\ ~(found \in {IP, LR} /\ narrow # {})
  <2>1. /\ found \in Regs /\ found \notin exclude /\ found \notin bitmap[at]
        /\ found \in CallerSaved \/ found \in spare \/ (found = LR /\ ~fn.leaf)
    BY <1>7, FreeIsFree DEF IInv
  <2>2. a = [reg |-> found, how |-> "free"]
    BY <1>1, <1>7, Zenon
  <2> HIDE DEF found, a
  <2>3. a.reg = found /\ a.how = "free" /\ a \in Answers
    BY <2>1, <2>2 DEF Answers
  <2> QED
    BY <2>1, <2>3, <1>2, <1>3 DEF a, IInv, PrologueOK
<1>8. CASE found = NoReg /\ dead # {}
  <2>1. Lowest(dead) \in dead
    BY <1>3, <1>5, <1>8, LowestIn, Zenon
  <2>2. a = [reg |-> Lowest(dead), how |-> "dead"]
    BY <1>1, <1>8 DEF IP, LR, NoReg
  <2> HIDE DEF dead, a
  <2>3. a.reg \in dead /\ a.how = "dead" /\ a.reg \in Regs /\ a \in Answers
    BY <2>1, <2>2, <1>3, <1>5, Zenon DEF Answers
  <2> QED
    BY <2>3, <1>2, <1>3, <1>5, Zenon DEF a
<1>9. CASE found = NoReg /\ dead = {}
  <2>1. SaveChoice(exclude) \in Regs /\ SaveChoice(exclude) \notin exclude
    <3>1. Low \cap (Regs \ exclude) # {} => Lowest(Low \cap (Regs \ exclude)) \in Low \cap (Regs \ exclude)
      BY <1>3, LowestIn
    <3>2. Lowest(Regs \ exclude) \in Regs \ exclude
      BY <1>3, LowestIn
    <3> QED
      BY <3>1, <3>2 DEF SaveChoice
  <2>2. \/ a = [reg |-> LR, how |-> "free"] /\ (LR \in pushed \/ ~fn.leaf) /\ LR \notin exclude
        \/ a = [reg |-> SaveChoice(exclude), how |-> "save"]
    <3>1. found \notin {IP, LR}
      BY <1>9 DEF IP, LR, NoReg
    <3> HIDE DEF found, dead, narrow, a
    <3> QED
      BY <1>1, <1>9, <3>1, Zenon
  <2>3. LR \in Regs
    BY DEF Regs
  <2> HIDE DEF a
  <2>4. CASE a = [reg |-> LR, how |-> "free"] /\ (LR \in pushed \/ ~fn.leaf) /\ LR \notin exclude
    BY <1>4, <2>3, <2>4 DEF a, Answers, IInv, PrologueOK
  <2>5. CASE a = [reg |-> SaveChoice(exclude), how |-> "save"]
    BY <2>1, <2>5 DEF a, Answers
  <2> QED
    BY <2>2, <2>4, <2>5
<1> QED
  BY <1>6, <1>7, <1>8, <1>9, ZenonT(40)

(* The effect of one request on what the instruction has and on the sweep.   *)
LEMMA GrantKeeps ==
  ASSUME Counting, IInv, NEW hand, Grant(hand), pass \in {"discover", "rehearse", "emit"},
         UNCHANGED <<fn, r0, bitmap, pass, at, pushed>>
  PROVE  TookOK' /\ SweepOK(sweep, r0)'
<1> DEFINE a == Answer(hand \cup TookRegs)
<1>1. /\ a \in Answers /\ a.reg \notin hand \cup TookRegs
      /\ a.how # "save" => \A i \in Intervals : Covers(i, at) => r0[i] # a.reg
      /\ pass \in {"rehearse", "emit"} /\ a.how # "save" /\ a.reg \notin CallerSaved
            => a.reg \in pushed
  BY AnswerGood, Zenon DEF Grant
<1>2. took \in Seq(Answers) /\ took' = Append(took, a)
  BY DEF Grant, IInv, TookOK
<1> HIDE DEF a
<1>3. /\ took' \in Seq(Answers) /\ DOMAIN took = 1 .. Len(took) /\ Len(took) \in Nat
      /\ DOMAIN took' = 1 .. Len(took) + 1
      /\ took'[Len(took) + 1] = a
      /\ \A j \in DOMAIN took : took'[j] = took[j]
  BY <1>1, <1>2
<1>4. \A j \in DOMAIN took' : j \in DOMAIN took \/ j = Len(took) + 1
  BY <1>3
<1>5. \A j \in DOMAIN took : a.reg # took[j].reg
  BY <1>1 DEF TookRegs
<1>6. TookOK'
  <2>1. Intervals' = Intervals /\ \A i \in Intervals : Covers(i, at)' <=> Covers(i, at)
    BY DEF Covers, Intervals
  <2>2. ASSUME NEW j \in DOMAIN took'
        PROVE  /\ took'[j].how # "save" => \A i \in Intervals : Covers(i, at) => r0[i] # took'[j].reg
               /\ pass \in {"rehearse", "emit"} /\ took'[j].how # "save" /\ took'[j].reg \notin CallerSaved
                     => took'[j].reg \in pushed
    <3>1. CASE j \in DOMAIN took
      BY <1>3, <3>1, Zenon DEF IInv, TookOK
    <3>2. CASE j = Len(took) + 1
      BY <1>1, <1>3, <3>2, Zenon
    <3> QED
      BY <1>4, <3>1, <3>2
  <2>3. ASSUME NEW j \in DOMAIN took', NEW l \in DOMAIN took', took'[l].reg = took'[j].reg
        PROVE  l = j
    <3>1. CASE j \in DOMAIN took /\ l \in DOMAIN took
      BY <1>3, <2>3, <3>1, SMTT(40) DEF IInv, TookOK
    <3>2. CASE ~(j \in DOMAIN took /\ l \in DOMAIN took)
      BY <1>3, <1>4, <1>5, <2>3, <3>2, Zenon
    <3> QED
      BY <3>1, <3>2, SMTT(40)
  <2>4. took' \in Seq(Answers) /\ r0' = r0 /\ pass' = pass /\ pushed' = pushed
    BY <1>3
  <2> QED
    BY <2>1, <2>2, <2>3, <2>4, Zenon DEF TookOK
<1>7. SweepOK(sweep, r0)'
  <2>1. at \in Int
    BY DEF IInv, Instrs, FnOK
  <2>2. SweepOK(sweep, r0) /\ SweepOK(Advance(at), r0)
    BY <2>1, AdvanceExact DEF IInv
  <2>3. sweep' = sweep \/ sweep' = Advance(at)
    BY DEF Grant, Query
  <2> QED
    BY <2>2, <2>3, Zenon DEF SweepOK, Covers, Intervals
<1> QED
  BY <1>6, <1>7, SMTT(40)

(* The tables agree once register allocation is done.                        *)
LEMMA InitTables ==
  ASSUME Init
  PROVE  FnOK /\ TablesOK(Tables)
<1>1. FnOK
  BY FunctionsAssumption, Zenon DEF Init, LiveInit, FnOK, Intervals
<1>2. /\ r0 \in [Intervals -> Allocatable]
      /\ \A i \in Intervals : r0[i] = fn.iv[i].r0
  BY <1>1, Zenon DEF Init, LiveInit, FnOK
<1>3. NoReg \notin Allocatable
  BY RegsAssumption DEF Allocatable, CallerSaved, IP, NoReg
<1>4. /\ bitmap \in [Instrs -> SUBSET Allocatable]
      /\ \A i \in Intervals : \A k \in Instrs : Covers(i, k) => r0[i] \in bitmap[k]
  <2>1. bitmap = [k \in Instrs |-> {r0[i] : i \in {j \in Intervals : Covers(j, k)}} \ {NoReg}]
    BY Zenon DEF Init, LiveInit, LiveMap
  <2> QED
    BY <1>2, <1>3, <2>1
<1>5. \A i \in Intervals : r0[i] \in dirty
  BY <1>2, <1>3 DEF Init, Used
<1> QED
  BY <1>1, <1>2, <1>3, <1>4, <1>5, SMTT(40) DEF TablesOK, Tables

(* The discovery run starts in the invariant.                                *)
LEMMA InitInv == Init => IInv
<1> SUFFICES ASSUME Init PROVE IInv
  OBVIOUS
<1>1. FnOK /\ TablesOK(Tables)
  BY InitTables
<1>2. at \in Instrs /\ pass \in Passes /\ pass = "discover"
  BY <1>1, SMTT(40) DEF Init, FnOK, Instrs, Passes
<1>3. SweepOK(sweep, r0)
  BY Zenon DEF Init, LiveInit, NoSweep, SweepOK
<1>4. took = <<>> /\ TookOK
  BY SMTT(40) DEF Init, TookOK
<1> QED
  BY <1>1, <1>2, <1>3, <1>4, Zenon DEF IInv, Init

(* Tables that agree are what the next state has, if a step writes them and  *)
(* leaves the function alone.                                                *)
LEMMA TablesNext ==
  ASSUME NEW m, TablesOK(m), UNCHANGED fn, r0' = m.r0, bitmap' = m.map,
         \A i \in Intervals : m.r0[i] \in Callee => m.r0[i] \in dirty'
  PROVE  TablesOK(Tables)'
<1>1. Instrs' = Instrs /\ Intervals' = Intervals
  BY DEF Instrs, Intervals
<1>2. \A i, k : Covers(i, k)' <=> Covers(i, k)
  BY DEF Covers
<1>3. \A i, j : Overlap(i, j)' <=> Overlap(i, j)
  BY <1>1, <1>2 DEF Overlap
<1>4. /\ r0' \in [Intervals' -> Allocatable \cup {NoReg}]
      /\ bitmap' \in [Instrs' -> SUBSET Allocatable]
  BY <1>1 DEF TablesOK
<1>5. \A i \in Intervals' : \A k \in Instrs' :
        Covers(i, k)' /\ r0'[i] # NoReg => r0'[i] \in bitmap'[k]
  BY <1>1, <1>2, Zenon DEF TablesOK
<1>6. \A i, j \in Intervals' :
        i # j /\ Overlap(i, j)' =>
            (r0'[i] # NoReg /\ r0'[i] = r0'[j] <=> fn'.iv[i].r0 = fn'.iv[j].r0)
  BY <1>1, <1>3 DEF TablesOK
<1>7. \A i \in Intervals' : r0'[i] \in Callee => r0'[i] \in dirty'
  BY <1>1
<1>8. Tables'.r0 = r0' /\ Tables'.map = bitmap' /\ Tables'.dirty = dirty'
  BY DEF Tables
<1> QED
  BY <1>4, <1>5, <1>6, <1>7, <1>8 DEF TablesOK

(* Steps that leave the tables of the function alone keep what is said of    *)
(* them.                                                                     *)
LEMMA TablesStay ==
  ASSUME IInv, UNCHANGED <<fn, r0, bitmap, dirty, demoted>>
  PROVE  FnOK' /\ TablesOK(Tables)' /\ Instrs' = Instrs
<1>1. FnOK' /\ Instrs' = Instrs
  BY DEF IInv, FnOK, Instrs, Intervals
<1>2. Tables.r0 = r0 /\ Tables.map = bitmap /\ Tables.dirty = dirty
  BY SMTT(40) DEF Tables
<1>3. TablesOK(Tables) /\ \A i \in Intervals : Tables.r0[i] \in Callee => Tables.r0[i] \in dirty'
  BY <1>2, ZenonT(40) DEF IInv, TablesOK
<1> QED
  BY <1>1, <1>2, <1>3, TablesNext

(* A query, for whatever instruction, leaves the sweep exact.                *)
LEMMA SweepStays ==
  ASSUME IInv, UNCHANGED <<fn, r0>>, sweep' = sweep \/ \E k \in Int : sweep' = Advance(k)
  PROVE  SweepOK(sweep, r0)'
<1>1. SweepOK(sweep, r0) /\ \A k \in Int : SweepOK(Advance(k), r0)
  BY AdvanceExact DEF IInv
<1> QED
  BY <1>1, Zenon DEF SweepOK, Covers, Intervals

(* The instruction that comes next has no scratch register yet.              *)
LEMMA NothingTook ==
  ASSUME took' = <<>>
  PROVE  TookOK'
BY DEF TookOK

(* A step of the fix-up: at most one interval moved and one demoted.         *)
LEMMA FixKeeps ==
  ASSUME Counting, IInv, FixOne
  PROVE  IInv'
<1> DEFINE r == Lowest(fix.pend)
           others == {x \in Low \ {r} : CanReassign(Tables, x, at)}
           isFree == Low \ (bitmap[at] \cup {r}) # {}
           moved == CanReassign(Tables, r, at)
           alt == ~isFree /\ others # {}
           m == IF moved THEN Reassign(Tables, r, at)
                ELSE IF alt THEN Reassign(Tables, Lowest(others), at)
                ELSE Tables
<1>1. at \in Instrs /\ FnOK /\ SweepOK(sweep, r0) /\ TablesOK(Tables)
  BY SMTT(40) DEF IInv
<1>2. TablesOK(m) /\ OnlyLost(r0, m.r0)
  <2>0. Tables.r0 = r0
    BY SMTT(40) DEF Tables
  <2>1. CASE moved
    BY <1>1, <2>0, <2>1, ReassignKeeps, Zenon
  <2>2. CASE ~moved /\ alt
    <3>1. Lowest(others) \in others
      BY <2>2, LowestIn, RegsAssumption
    <3>2. CanReassign(Tables, Lowest(others), at)
      BY <3>1, SMTT(40)
    <3>3. m = Reassign(Tables, Lowest(others), at)
      BY <2>2, SMTT(40)
    <3> HIDE DEF others, m
    <3> QED
      BY <1>1, <2>0, <3>2, <3>3, ReassignKeeps
  <2>3. CASE ~moved /\ ~alt
    BY <1>1, <2>0, <2>3, ZenonT(40) DEF OnlyLost
  <2> QED
    BY <2>1, <2>2, <2>3, Zenon
<1>3. PICK demote \in BOOLEAN :
        /\ demote => CanDemote(m, r, at)
        /\ LET done == IF demote THEN Demote(m, r, at) ELSE m
           IN  r0' = done.r0 /\ bitmap' = done.map /\ dirty' = done.dirty
  BY Zenon DEF FixOne
<1> HIDE DEF m, r
<1> DEFINE done == IF demote THEN Demote(m, r, at) ELSE m
<1>4. TablesOK(done) /\ OnlyLost(r0, done.r0)
  <2>1. CASE demote
    BY <1>1, <1>2, <1>3, <2>1, DemoteKeeps, Zenon DEF OnlyLost
  <2>2. CASE ~demote
    BY <1>2, <2>2
  <2> QED
    BY <2>1, <2>2
<1>5. r0' = done.r0 /\ bitmap' = done.map /\ dirty' = done.dirty
  BY <1>3, SMTT(40)
<1> HIDE DEF done
<1>6. /\ UNCHANGED <<fn, at, pass, took, spare, pushed>> /\ sweep' = Advance(at)
      /\ pass = "fixup" /\ took = <<>>
  BY Zenon DEF FixOne, genVars, IInv
<1>7. FnOK' /\ at' \in Instrs' /\ pass' \in Passes
  BY <1>1, <1>6, SMTT(40) DEF FnOK, Instrs, Intervals, IInv
<1>8. TablesOK(Tables)'
  <2>1. \A i \in Intervals : done.r0[i] \in Callee => done.r0[i] \in dirty'
    BY <1>4, <1>5, SMTT(40) DEF TablesOK
  <2> QED
    BY <1>4, <1>5, <1>6, <2>1, TablesNext, SMTT(40)
<1>9. SweepOK(sweep, r0)'
  <2>1. at \in Int
    BY <1>1 DEF Instrs, FnOK
  <2>2. SweepOK(Advance(at), r0)
    BY <1>1, <2>1, AdvanceExact
  <2> QED
    BY <1>4, <1>5, <1>6, <2>2, Zenon DEF SweepOK, OnlyLost, Covers, Intervals
<1>10. TookOK'
  BY <1>6, NothingTook
<1> QED
  BY <1>6, <1>7, <1>8, <1>9, <1>10 DEF IInv

(* The prologue is laid down for what the fix-up left.                       *)
LEMMA FrameKeeps ==
  ASSUME IInv, Frame
  PROVE  IInv'
<1> DEFINE told == dirty \cup SpareRegs
           saved == (told \ Callee) \cup (told \cap Callee \cap Used) \cup SpareRegs
<1>1. /\ UNCHANGED <<fn, r0, bitmap, sweep, at, took, demoted>>
      /\ pass = "frame" /\ pass' = "rehearse" /\ took = <<>>
      /\ spare' = SpareRegs /\ dirty' = saved
      /\ pushed' = (Callee \cap (saved \cup extra)) \cup (IF ~fn.leaf \/ LR \in extra THEN {LR} ELSE {})
  BY DEF Frame, RecomputeDirty, Pushes, IInv
<1>2. SpareRegs \subseteq Callee
  BY DEF SpareRegs
<1>3. \A i \in Intervals : r0[i] \in Callee => r0[i] \in saved
  <2>1. NoReg \notin Callee
    BY RegsAssumption DEF NoReg
  <2>2. \A i \in Intervals : r0[i] \in Callee => r0[i] \in dirty /\ r0[i] \in Used
    BY <2>1, Zenon DEF IInv, TablesOK, Tables, Used
  <2> QED
    BY <2>2
<1> HIDE DEF saved
<1>4. PrologueOK'
  BY <1>1, <1>2, <1>3 DEF PrologueOK, Intervals, saved
<1>5. FnOK' /\ Instrs' = Instrs /\ TablesOK(Tables)'
  <2>1. FnOK' /\ Instrs' = Instrs
    BY <1>1, Zenon DEF IInv, FnOK, Instrs, Intervals
  <2>2. TablesOK(Tables) /\ Tables.r0 = r0 /\ Tables.map = bitmap
    BY DEF IInv, Tables
  <2> QED
    BY <1>1, <1>3, <2>1, <2>2, TablesNext
<1>6. TookOK' /\ SweepOK(sweep, r0)'
  BY <1>1, NothingTook, SweepStays
<1> QED
  BY <1>1, <1>2, <1>4, <1>5, <1>6 DEF IInv, Passes

(* Every step of the passes and of the fix-up between them keeps it.         *)
LEMMA NextInv ==
  ASSUME Counting
  PROVE  IInv /\ [Next]_vars => IInv'
<1> SUFFICES ASSUME IInv, [Next]_vars PROVE IInv'
  OBVIOUS
<1>0. at \in Instrs /\ at \in Int /\ 0 \in Instrs /\ (at + 1 \in Instrs => at + 1 \in Int)
  BY SMTT(40) DEF IInv, FnOK, Instrs
<1>1. ASSUME NEW hand \in Hands, Discover(hand) \/ Reload(hand)
      PROVE  IInv'
  <2>1. /\ Grant(hand) /\ pass \in {"discover", "rehearse", "emit"}
        /\ UNCHANGED <<fn, r0, bitmap, pass, at, spare, pushed, dirty, demoted>>
    BY <1>1, SMTT(40) DEF Discover, Reload, frameVars
  <2> QED
    BY <2>1, GrantKeeps, TablesStay, Zenon DEF IInv, PrologueOK, Intervals
<1>2. ASSUME Again
      PROVE  IInv'
  <2>1. /\ Grant(asks[at][Len(took) + 1]) /\ pass \in {"discover", "rehearse", "emit"}
        /\ UNCHANGED <<fn, r0, bitmap, pass, at, spare, pushed, dirty, demoted>>
    BY <1>2, SMTT(40) DEF Again, frameVars
  <2> QED
    BY <2>1, GrantKeeps, TablesStay, Zenon DEF IInv, PrologueOK, Intervals
<1>3. ASSUME LookAhead
      PROVE  IInv'
  <2>1. /\ UNCHANGED <<fn, r0, bitmap, pass, at, took, spare, pushed, dirty, demoted>>
        /\ sweep' = sweep \/ sweep' = Advance(at + 1)
    BY <1>3 DEF LookAhead, Query, genVars, frameVars
  <2>2. SweepOK(sweep, r0)'
    BY <1>0, <2>1, SweepStays, SMTT(40)
  <2>3. TookOK'
    BY <2>1, Zenon DEF IInv, TookOK, Intervals, Covers
  <2> QED
    BY <2>1, <2>2, <2>3, TablesStay, Zenon DEF IInv, PrologueOK, Intervals
<1>4. ASSUME DiscoverNext
      PROVE  IInv'
  <2>1. /\ UNCHANGED <<fn, r0, bitmap, sweep, spare, pushed, dirty, demoted>> /\ took' = <<>>
        /\ at' \in Instrs /\ pass' \in {"discover", "fixup"}
    BY <1>0, <1>4 DEF DiscoverNext, liveVars
  <2> QED
    BY <2>1, NothingTook, SweepStays, TablesStay, Zenon DEF IInv, Passes
<1>5. ASSUME FixNext
      PROVE  IInv'
  <2>1. /\ UNCHANGED <<fn, r0, bitmap, sweep, took, spare, pushed, dirty, demoted>> /\ took = <<>>
        /\ at' \in Instrs /\ pass' \in {"fixup", "trim"}
    BY <1>0, <1>5 DEF FixNext, liveVars, IInv
  <2> QED
    BY <2>1, NothingTook, SweepStays, TablesStay, Zenon DEF IInv, Passes
<1>6. ASSUME Trim
      PROVE  IInv'
  <2>1. /\ UNCHANGED <<fn, r0, bitmap, took, spare, pushed, dirty, demoted>> /\ took = <<>>
        /\ at' \in Instrs /\ pass' \in {"trim", "frame"}
        /\ sweep' = sweep \/ sweep' = Advance(at)
    BY <1>0, <1>6, SMTT(40) DEF Trim, IInv
  <2> QED
    BY <1>0, <2>1, NothingTook, SweepStays, TablesStay, SMTT(40) DEF IInv, Passes
<1>7. ASSUME AgainNext
      PROVE  IInv'
  <2>1. /\ UNCHANGED <<fn, r0, bitmap, sweep, spare, pushed, dirty, demoted>> /\ took' = <<>>
        /\ at' \in Instrs /\ pass' \in {"rehearse", "emit", "done"} /\ pass \in {"rehearse", "emit"}
    BY <1>0, <1>7, SMTT(40) DEF AgainNext, liveVars, frameVars
  <2> QED
    BY <2>1, NothingTook, SweepStays, TablesStay, Zenon DEF IInv, Passes, PrologueOK, Intervals
<1>8. ASSUME UNCHANGED vars
      PROVE  IInv'
  <2>1. UNCHANGED <<fn, r0, bitmap, sweep, pass, at, took, spare, pushed, dirty, demoted>>
    BY <1>8, SMTT(40) DEF vars, liveVars, genVars, frameVars
  <2>2. TookOK'
    BY <2>1, Zenon DEF IInv, TookOK, Intervals, Covers
  <2> QED
    BY <2>1, <2>2, SweepStays, TablesStay, Zenon DEF IInv, PrologueOK, Intervals
<1> QED
  BY <1>1, <1>2, <1>3, <1>4, <1>5, <1>6, <1>7, <1>8, FixKeeps, FrameKeeps DEF Next, Finished

-----------------------------------------------------------------------------
(* The passes behind the prologue get the same registers from the same       *)
(* requests.  They start from different caches and different positions of    *)
(* the sweep, so what has to be shown is that neither matters.               *)

\* What a request depends on besides its exclusions
Frozen == [leaf |-> fn.leaf, map |-> bitmap, spare |-> spare, pushed |-> pushed]

\* A request without the cache and the sweep: what the bitmap leaves at k
Steady(f, k, exclude) ==
    LET taken == exclude \cup f.map[k]
        free == Regs \ (taken \cup IF f.leaf THEN {LR} ELSE {})
        found == IF Low \cap free # {} THEN Lowest(Low \cap free)
                 ELSE IF IP \in free THEN IP
                 ELSE IF f.spare \cap free # {} THEN Lowest(f.spare \cap free)
                 ELSE IF LR \in free THEN LR
                 ELSE NoReg
        narrow == (f.pushed \cap NarrowRegs) \ taken
        dead == (f.pushed \cap Callee) \ taken
        open == Regs \ exclude
        saved == IF Low \cap open # {} THEN Lowest(Low \cap open)
                 ELSE IF f.leaf /\ LR \in open THEN LR
                 ELSE IF IP \in open THEN IP
                 ELSE Lowest(open)
    IN  IF found \in {IP, LR} /\ narrow # {} THEN [reg |-> Lowest(narrow), how |-> "dead"]
        ELSE IF found # NoReg THEN [reg |-> found, how |-> "free"]
        ELSE IF dead # {} THEN [reg |-> Lowest(dead), how |-> "dead"]
        ELSE IF (LR \in f.pushed \/ ~f.leaf) /\ LR \notin exclude THEN [reg |-> LR, how |-> "free"]
        ELSE [reg |-> saved, how |-> "save"]

\* The cached answer is about the bitmap that there is, except between the
\* first change of the fix-up and the end of it.
CacheOK ==
    /\ cached.regs \subseteq Allocatable
    /\ ~(fix.any /\ pass \in {"fixup", "trim", "frame"}) =>
          (cached.at \in Instrs => cached.regs \subseteq bitmap[cached.at])

(* With a cache about this bitmap, a request behind the prologue gets what   *)
(* the bitmap leaves.                                                        *)
LEMMA AnswerSteady ==
  ASSUME IInv, CacheOK, pass \in {"rehearse", "emit"}, NEW exclude
  PROVE  Answer(exclude) = Steady(Frozen, at, exclude)
<1>1. at \in Instrs /\ LiveRegsAt(at) \subseteq bitmap[at]
  <2>1. /\ FnOK /\ SweepOK(sweep, r0) /\ TablesOK(Tables) /\ at \in Instrs
        /\ Tables.r0 = r0 /\ Tables.map = bitmap
    BY DEF IInv, Tables
  <2> QED
    BY <2>1, LiveInBitmap, Zenon
<1>2. Known(at) = bitmap[at]
  BY <1>1, Zenon DEF Known, CacheOK
<1>3. \A S : DeadIn(S, exclude) = S \ (exclude \cup bitmap[at])
  BY <1>1 DEF DeadIn
<1>4. pass # "discover"
  BY SMTT(40)
<1> DEFINE free == Regs \ (exclude \cup bitmap[at] \cup IF fn.leaf THEN {LR} ELSE {})
<1>5. FreeScratch(at, exclude, spare) =
        IF Low \cap free # {} THEN Lowest(Low \cap free)
        ELSE IF IP \in free THEN IP
        ELSE IF spare \cap free # {} THEN Lowest(spare \cap free)
        ELSE IF LR \in free THEN LR
        ELSE NoReg
  BY <1>2, Zenon DEF FreeScratch
<1>6. /\ DeadIn(pushed \cap NarrowRegs, exclude)
           = (pushed \cap NarrowRegs) \ (exclude \cup bitmap[at])
      /\ DeadIn(pushed \cap Callee, exclude)
           = (pushed \cap Callee) \ (exclude \cup bitmap[at])
  BY <1>3
<1>7. /\ Frozen.leaf = fn.leaf /\ Frozen.map = bitmap
      /\ Frozen.spare = spare /\ Frozen.pushed = pushed
  BY SMTT(40) DEF Frozen
<1> QED
  BY <1>4, <1>5, <1>6, <1>7, ZenonT(40) DEF Answer, Steady, SaveChoice

FixOK ==
    /\ fix = [pend |-> fix.pend, all |-> fix.all, any |-> fix.any,
              needy |-> fix.needy, orig |-> fix.orig]
    /\ fix.any \in BOOLEAN

\* The sets of registers, instructions and intervals are such sets.
SetsOK ==
    /\ sweep.taken \subseteq Intervals /\ sweep.active \subseteq Intervals
    /\ dirty \subseteq Allocatable /\ demoted \subseteq Intervals
    /\ extra \subseteq Regs /\ pushed \subseteq Regs

(* Moving or demoting an interval tells of registers and intervals only.     *)
LEMMA MoveTyped ==
  ASSUME Counting, FnOK, SweepOK(sweep, r0), NEW m, NEW r, NEW k \in Instrs,
         m.dirty \subseteq Allocatable, m.demoted \subseteq Intervals
  PROVE  /\ CanReassign(m, r, k) =>
              /\ Reassign(m, r, k).dirty \subseteq Allocatable
              /\ Reassign(m, r, k).demoted \subseteq Intervals
         /\ CanDemote(m, r, k) =>
              /\ Demote(m, r, k).dirty \subseteq Allocatable
              /\ Demote(m, r, k).demoted \subseteq Intervals
<1> DEFINE H == Holders(m.r0, r, k)
           i == Lowest(H)
<1>1. H \subseteq Intervals /\ Intervals \subseteq Nat
  BY HoldersAreIntervals, Zenon DEF FnOK
<1>2. H # {} => i \in Intervals
  <2> HIDE DEF H
  <2> QED
    BY <1>1, LowestIn, ZenonT(40)
<1>3. Targets(m.map, i) \subseteq Callee /\ Callee \subseteq Nat
  BY RegsAssumption DEF Targets
<1>4. Targets(m.map, i) # {} => Lowest(Targets(m.map, i)) \in Callee
  BY <1>3, LowestIn
<1>5. ASSUME CanReassign(m, r, k)
      PROVE  /\ Reassign(m, r, k).dirty = m.dirty \cup {Lowest(Targets(m.map, i))}
             /\ Reassign(m, r, k).demoted = m.demoted
             /\ Targets(m.map, i) # {}
  BY <1>5, Zenon DEF Reassign, CanReassign
<1>6. ASSUME CanDemote(m, r, k)
      PROVE  /\ Demote(m, r, k).dirty = m.dirty
             /\ Demote(m, r, k).demoted = m.demoted \cup {i} /\ H # {}
  BY <1>6, Zenon DEF Demote, CanDemote
<1> HIDE DEF H, i
<1> QED
  BY <1>2, <1>4, <1>5, <1>6, Zenon DEF Allocatable

(* What a step of the fix-up does to the records beside the tables.          *)
LEMMA FixEffect ==
  ASSUME Counting, IInv, SetsOK, FixOK, FixOne
  PROVE  /\ dirty' \subseteq Allocatable /\ demoted' \subseteq Intervals
         /\ FixOK' /\ (~fix'.any => ~fix.any /\ bitmap' = bitmap)
<1> DEFINE r == Lowest(fix.pend)
           others == {x \in Low \ {r} : CanReassign(Tables, x, at)}
           isFree == Low \ (bitmap[at] \cup {r}) # {}
           moved == CanReassign(Tables, r, at)
           alt == ~isFree /\ others # {}
           m == IF moved THEN Reassign(Tables, r, at)
                ELSE IF alt THEN Reassign(Tables, Lowest(others), at)
                ELSE Tables
<1>1. /\ at \in Instrs /\ FnOK /\ SweepOK(sweep, r0)
      /\ Tables.dirty \subseteq Allocatable /\ Tables.demoted \subseteq Intervals
      /\ Tables.map = bitmap
  BY Zenon DEF IInv, SetsOK, Tables
<1>2. m.dirty \subseteq Allocatable /\ m.demoted \subseteq Intervals
  <2>1. CASE moved
    BY <1>1, <2>1, MoveTyped, ZenonT(40)
  <2>2. CASE ~moved /\ alt
    <3>1. Lowest(others) \in others
      BY <2>2, LowestIn, RegsAssumption
    <3>2. CanReassign(Tables, Lowest(others), at)
      BY <3>1
    <3>3. m = Reassign(Tables, Lowest(others), at)
      BY <2>2, SMTT(40)
    <3> HIDE DEF others, m
    <3> QED
      BY <1>1, <3>2, <3>3, MoveTyped, Zenon
  <2>3. CASE ~moved /\ ~alt
    BY <1>1, <2>3, ZenonT(40)
  <2> QED
    BY <2>1, <2>2, <2>3, ZenonT(40)
<1>3. PICK demote \in BOOLEAN :
        /\ demote => CanDemote(m, r, at)
        /\ LET done == IF demote THEN Demote(m, r, at) ELSE m
           IN  /\ bitmap' = done.map /\ dirty' = done.dirty /\ demoted' = done.demoted
               /\ fix' = [fix EXCEPT !.pend = @ \ {r},
                                     !.all = @ /\ (moved \/ isFree \/ alt \/ demote),
                                     !.any = @ \/ moved \/ alt \/ demote]
  BY ZenonT(40) DEF FixOne
<1>4. fix'.any = (fix.any \/ moved \/ alt \/ demote) /\ FixOK'
  <2> HIDE DEF moved, alt, isFree, r, m
  <2> QED
    BY <1>3, Zenon DEF FixOK
<1>5. ~moved /\ ~alt => m = Tables
  BY Zenon
<1> HIDE DEF m, r, moved, alt
<1>6. dirty' \subseteq Allocatable /\ demoted' \subseteq Intervals
  <2>1. CASE demote
    BY <1>1, <1>2, <1>3, <2>1, MoveTyped
  <2>2. CASE ~demote
    BY <1>2, <1>3, <2>2
  <2> QED
    BY <2>1, <2>2
<1>7. ~fix'.any => ~fix.any /\ bitmap' = bitmap
  BY <1>1, <1>3, <1>4, <1>5, Zenon DEF FixOK
<1> QED
  BY <1>4, <1>6, <1>7

(* A query of a pass leaves a cache about the bitmap and a typed sweep.      *)
LEMMA QueryCaches ==
  ASSUME IInv, CacheOK, SetsOK, NEW k \in Instrs, NEW scans, Query(k, scans),
         pass \in {"discover", "rehearse", "emit"}, UNCHANGED <<fn, bitmap, pass>>
  PROVE  /\ CacheOK'
         /\ (sweep.taken \subseteq Intervals)' /\ (sweep.active \subseteq Intervals)'
<1>1. Instrs' = Instrs /\ Intervals' = Intervals
  BY DEF Instrs, Intervals
<1>2. LiveRegsAt(k) \subseteq bitmap[k] /\ bitmap[k] \subseteq Allocatable
  <2>1. /\ FnOK /\ SweepOK(sweep, r0) /\ TablesOK(Tables)
        /\ Tables.r0 = r0 /\ Tables.map = bitmap
    BY Zenon DEF IInv, Tables
  <2> QED
    BY <2>1, LiveInBitmap, Zenon DEF TablesOK
<1>3. /\ cached' = cached \/ cached' = [at |-> k, regs |-> LiveRegsAt(k)]
      /\ sweep' = sweep \/ sweep' = Advance(k)
  BY DEF Query
<1>4. /\ cached.regs \subseteq Allocatable
      /\ cached.at \in Instrs => cached.regs \subseteq bitmap[cached.at]
  BY DEF CacheOK
<1>5. CacheOK'
  <2>1. /\ cached'.regs \subseteq Allocatable
        /\ cached'.at \in Instrs => cached'.regs \subseteq bitmap[cached'.at]
    <3>1. CASE cached' = cached
      BY <1>4, <3>1, Zenon
    <3>2. CASE cached' = [at |-> k, regs |-> LiveRegsAt(k)]
      BY <1>2, <3>2, Zenon
    <3> QED
      BY <1>3, <3>1, <3>2, Zenon
  <2> QED
    BY <1>1, <2>1, Zenon DEF CacheOK
<1>6. sweep'.taken \subseteq Intervals /\ sweep'.active \subseteq Intervals
  <2>1. Advance(k).taken \subseteq Intervals /\ Advance(k).active \subseteq Intervals
    BY AdvanceTyped, Zenon DEF SetsOK
  <2> QED
    BY <1>3, <2>1, Zenon DEF SetsOK
<1> QED
  BY <1>1, <1>5, <1>6

(* Every step keeps the cache about the bitmap, and the sets.                *)
LEMMA CacheNext ==
  ASSUME Counting, IInv, CacheOK, SetsOK, FixOK, [Next]_vars
  PROVE  CacheOK' /\ SetsOK' /\ FixOK'
<1>0. /\ at \in Instrs /\ fn.n \in Nat /\ TablesOK(Tables) /\ r0 = Tables.r0
  BY Zenon DEF IInv, FnOK, Tables
<1>1. ASSUME NEW hand \in Hands, Discover(hand)
      PROVE  CacheOK' /\ SetsOK' /\ FixOK'
  <2> DEFINE a == Answer(hand \cup TookRegs)
  <2>1. /\ Query(at, Scans(hand \cup TookRegs)) /\ pass \in {"discover", "rehearse", "emit"}
        /\ Regs \ (hand \cup TookRegs) # {}
        /\ UNCHANGED <<fn, bitmap, pass, dirty, demoted, pushed, fix>>
        /\ extra' = extra \/ extra' = extra \cup {a.reg}
    BY <1>1, Zenon DEF Discover, Grant
  <2>2. a.reg \in Regs
    BY <2>1, AnswerGood, Zenon DEF Answers
  <2> HIDE DEF a
  <2>3. extra' \subseteq Regs
    BY <2>1, <2>2, Zenon DEF SetsOK
  <2>4. CacheOK' /\ (sweep.taken \subseteq Intervals)' /\ (sweep.active \subseteq Intervals)'
    BY <1>0, <2>1, QueryCaches, Zenon
  <2> QED
    BY <2>1, <2>3, <2>4, Zenon DEF SetsOK, FixOK, Intervals
<1>2. ASSUME NEW k \in Instrs, NEW scans, Query(k, scans),
             pass \in {"discover", "rehearse", "emit"},
             UNCHANGED <<fn, bitmap, pass, dirty, demoted, extra, pushed, fix>>
      PROVE  CacheOK' /\ SetsOK' /\ FixOK'
  <2>1. CacheOK' /\ (sweep.taken \subseteq Intervals)' /\ (sweep.active \subseteq Intervals)'
    BY <1>2, QueryCaches, Zenon
  <2> QED
    BY <1>2, <2>1, Zenon DEF SetsOK, FixOK, Intervals
<1>3. ASSUME NEW hand \in Hands, Reload(hand) PROVE CacheOK' /\ SetsOK' /\ FixOK'
  <2>1. /\ Query(at, Scans(hand \cup TookRegs)) /\ pass \in {"discover", "rehearse", "emit"}
        /\ UNCHANGED <<fn, bitmap, pass, dirty, demoted, extra, pushed, fix>>
    BY <1>3, SMTT(40) DEF Reload, Grant, frameVars
  <2> QED
    BY <1>0, <1>2, <2>1
<1>4. ASSUME Again PROVE CacheOK' /\ SetsOK' /\ FixOK'
  <2>1. /\ Query(at, Scans(asks[at][Len(took) + 1] \cup TookRegs))
        /\ pass \in {"discover", "rehearse", "emit"}
        /\ UNCHANGED <<fn, bitmap, pass, dirty, demoted, extra, pushed, fix>>
    BY <1>4, Zenon DEF Again, Grant, frameVars
  <2> QED
    BY <1>0, <1>2, <2>1, Zenon
<1>5. ASSUME LookAhead PROVE CacheOK' /\ SetsOK' /\ FixOK'
  <2>1. /\ Query(at + 1, FALSE) /\ at + 1 \in Instrs
        /\ pass \in {"discover", "rehearse", "emit"}
        /\ UNCHANGED <<fn, bitmap, pass, dirty, demoted, extra, pushed, fix>>
    BY <1>5, Zenon DEF LookAhead, genVars, frameVars
  <2> QED
    BY <1>2, <2>1, Zenon
<1>6. ASSUME DiscoverNext \/ FixNext PROVE CacheOK' /\ SetsOK' /\ FixOK'
  <2>1. /\ UNCHANGED <<fn, bitmap, sweep, cached, dirty, demoted, extra, pushed>>
        /\ pass \in {"discover", "fixup"}
        /\ pass = "discover" \/ pass' # "rehearse"
        /\ pass' \in {"discover", "fixup", "trim"} /\ (pass' = "discover" => pass = "discover")
    BY <1>6 DEF DiscoverNext, FixNext, liveVars
  <2>2. FixOK' /\ fix'.any = fix.any
    BY <1>6, Zenon DEF DiscoverNext, FixNext, FixOK
  <2>3. CacheOK'
    BY <2>1, <2>2, Zenon DEF CacheOK, Instrs, FixOK
  <2> QED
    BY <2>1, <2>2, <2>3, Zenon DEF SetsOK, Intervals
<1>7. ASSUME FixOne PROVE CacheOK' /\ SetsOK' /\ FixOK'
  <2>1. /\ dirty' \subseteq Allocatable /\ demoted' \subseteq Intervals
        /\ FixOK' /\ (~fix'.any => ~fix.any /\ bitmap' = bitmap)
    BY <1>7, FixEffect, SMTT(40)
  <2>2. /\ UNCHANGED <<fn, cached, pass, extra, pushed>> /\ pass = "fixup"
        /\ sweep' = Advance(at)
    BY <1>7, Zenon DEF FixOne, genVars
  <2>3. Advance(at).taken \subseteq Intervals /\ Advance(at).active \subseteq Intervals
    BY AdvanceTyped DEF SetsOK
  <2>4. CacheOK'
    BY <2>1, <2>2, Zenon DEF CacheOK, Instrs, FixOK
  <2> QED
    BY <2>1, <2>2, <2>3, <2>4, Zenon DEF SetsOK, Intervals
<1>8. ASSUME Trim PROVE CacheOK' /\ SetsOK' /\ FixOK'
  <2>1. /\ UNCHANGED <<fn, bitmap, cached, dirty, demoted, extra, pushed, fix>>
        /\ pass = "trim" /\ pass' \in {"trim", "frame"}
        /\ sweep' = sweep \/ sweep' = Advance(at)
    BY <1>8, SMTT(40) DEF Trim
  <2>2. Advance(at).taken \subseteq Intervals /\ Advance(at).active \subseteq Intervals
    BY AdvanceTyped DEF SetsOK
  <2>3. CacheOK'
    BY <2>1, Zenon DEF CacheOK, Instrs
  <2> QED
    BY <2>1, <2>2, <2>3, SMTT(40) DEF SetsOK, FixOK, Intervals
<1>9. ASSUME Frame PROVE CacheOK' /\ SetsOK' /\ FixOK'
  <2>1. /\ UNCHANGED <<fn, bitmap, sweep, demoted, extra>>
        /\ pass = "frame" /\ pass' = "rehearse"
        /\ cached' = NoCache \/ (~fix.any /\ cached' = cached)
        /\ dirty' = RecomputeDirty(dirty \cup SpareRegs, SpareRegs)
        /\ pushed' = Pushes(dirty')
        /\ fix' = [fix EXCEPT !.needy = {}, !.orig = bitmap]
    BY <1>9 DEF Frame
  <2>2. FixOK'
    BY <2>1, Zenon DEF FixOK
  <2>3. CacheOK'
    <3>1. -1 \notin Instrs
      BY <1>0 DEF Instrs
    <3>2. CASE cached' = NoCache
      BY <2>1, <3>1, <3>2 DEF CacheOK, Instrs, NoCache
    <3>3. CASE ~fix.any /\ cached' = cached
      BY <2>1, <3>3 DEF CacheOK, Instrs
    <3> QED
      BY <2>1, <3>2, <3>3
  <2>4. SpareRegs \subseteq Callee /\ Callee \subseteq Allocatable
    BY DEF SpareRegs, Allocatable
  <2>5. dirty' \subseteq Allocatable
    BY <2>1, <2>4 DEF RecomputeDirty, SetsOK
  <2>6. pushed' \subseteq Regs
    BY <2>1, <2>4 DEF Pushes, Regs
  <2> QED
    BY <2>1, <2>2, <2>3, <2>5, <2>6 DEF SetsOK, Intervals
<1>10. ASSUME AgainNext \/ UNCHANGED vars PROVE CacheOK' /\ SetsOK' /\ FixOK'
  <2>1. /\ UNCHANGED <<fn, bitmap, sweep, cached, dirty, demoted, extra, pushed, fix>>
        /\ pass' = pass \/ (pass \in {"rehearse", "emit"} /\ pass' \in {"rehearse", "emit", "done"})
    BY <1>10, SMTT(40) DEF AgainNext, vars, liveVars, genVars, frameVars
  <2> QED
    BY <2>1, Zenon DEF CacheOK, SetsOK, FixOK, Intervals, Instrs
<1> QED
  BY <1>1, <1>3, <1>4, <1>5, <1>6, <1>7, <1>8, <1>9, <1>10, SMTT(40) DEF Next, Finished

-----------------------------------------------------------------------------
(* What the discovery run recorded, and the save slots taken away for it.    *)

Records == [saves : SUBSET Regs, excl : SUBSET Regs, allocs : Nat]

\* The record of an instruction covers the requests the discovery run saw.
RecOK ==
    /\ asks \in [Instrs -> Seq(SUBSET Regs)]
    /\ rec \in [Instrs -> Records]
    /\ \A k \in Instrs :
          /\ rec[k].allocs <= Len(asks[k])
          /\ pass = "discover" => Len(asks[k]) = rec[k].allocs
          /\ \A j \in 1 .. rec[k].allocs : asks[k][j] \subseteq rec[k].excl

\* The room that is left where the save slots were taken away
Room(k) == CallerSaved \ (bitmap[k] \cup rec[k].excl)

FreedOK ==
    /\ freed \subseteq Instrs
    /\ pass \in {"discover", "fixup"} => freed = {}
    /\ \A k \in freed : rec[k].allocs <= Cardinality(Room(k))

(* A record and the requests it covers grow together.                        *)
LEMMA DiscoverRecords ==
  ASSUME Counting, IInv, RecOK, NEW hand \in Hands, Discover(hand)
  PROVE  RecOK'
<1> DEFINE a == Answer(hand \cup TookRegs)
<1>1. /\ at \in Instrs /\ Instrs' = Instrs /\ pass = "discover" /\ pass' = pass
      /\ hand \subseteq Regs /\ hand \ TookRegs = hand /\ Regs \ (hand \cup TookRegs) # {}
  BY ScratchAssumption DEF Discover, Grant, IInv, Instrs
<1>2. a.reg \in Regs
  BY <1>1, AnswerGood DEF Answers
<1>3. /\ asks' = [asks EXCEPT ![at] = Append(@, hand)]
      /\ rec' = [rec EXCEPT ![at].allocs = @ + 1,
                            ![at].excl = @ \cup (hand \ TookRegs),
                            ![at].saves = IF a.how = "save" THEN @ \cup {a.reg} ELSE @]
  BY SMTT(40) DEF Discover
<1> DEFINE saves == IF a.how = "save" THEN rec[at].saves \cup {a.reg} ELSE rec[at].saves
<1>4. /\ rec[at] \in Records /\ asks[at] \in Seq(SUBSET Regs)
      /\ Len(asks[at]) = rec[at].allocs
      /\ \A j \in 1 .. rec[at].allocs : asks[at][j] \subseteq rec[at].excl
  BY <1>1, Zenon DEF RecOK
<1>5. /\ DOMAIN rec' = Instrs /\ rec'[at].allocs = rec[at].allocs + 1
      /\ rec'[at].excl = rec[at].excl \cup hand
      /\ rec'[at].saves = saves
      /\ rec'[at] \in Records
      /\ \A k \in Instrs \ {at} : rec'[k] = rec[k]
  <2> HIDE DEF a
  <2>1. rec'[at] = [saves |-> saves, excl |-> rec[at].excl \cup hand,
                    allocs |-> rec[at].allocs + 1]
    BY <1>1, <1>3, <1>4, ZenonT(40) DEF RecOK, Records
  <2>2. saves \subseteq Regs
    <3>1. rec[at].saves \subseteq Regs
      BY <1>4 DEF Records
    <3> QED
      BY <1>2, <3>1, Zenon
  <2> HIDE DEF saves
  <2>3. rec'[at] \in Records
    <3>1. rec[at].excl \cup hand \subseteq Regs /\ rec[at].allocs \in Nat
      BY <1>1, <1>4, SMTT(40) DEF Records
    <3>2. rec[at].allocs + 1 \in Nat
      BY <3>1, SMTT(40)
    <3> QED
      BY <2>1, <2>2, <3>1, <3>2, SMTT(40) DEF Records
  <2>4. DOMAIN rec = Instrs
    BY Zenon DEF RecOK
  <2>5. DOMAIN rec' = Instrs /\ \A k \in Instrs \ {at} : rec'[k] = rec[k]
    BY <1>1, <1>3, <2>4
  <2>6. /\ rec'[at].allocs = rec[at].allocs + 1 /\ rec'[at].saves = saves
        /\ rec'[at].excl = rec[at].excl \cup hand
    BY <2>1, SMTT(40)
  <2> QED
    BY <2>3, <2>5, <2>6, Zenon
<1> HIDE DEF a, saves
<1>6. /\ asks' \in [Instrs -> Seq(SUBSET Regs)]
      /\ Len(asks'[at]) = Len(asks[at]) + 1 /\ asks'[at][Len(asks[at]) + 1] = hand
      /\ \A j \in 1 .. Len(asks[at]) : asks'[at][j] = asks[at][j]
      /\ \A k \in Instrs \ {at} : asks'[k] = asks[k]
  <2>1. /\ Append(asks[at], hand) \in Seq(SUBSET Regs)
        /\ Len(Append(asks[at], hand)) = Len(asks[at]) + 1
        /\ Append(asks[at], hand)[Len(asks[at]) + 1] = hand
        /\ \A j \in 1 .. Len(asks[at]) : Append(asks[at], hand)[j] = asks[at][j]
    BY <1>1, <1>4
  <2> QED
    BY <1>1, <1>3, <2>1, SMTT(40) DEF RecOK
<1>7. ASSUME NEW k \in Instrs
      PROVE  /\ Len(asks'[k]) = rec'[k].allocs
             /\ \A j \in 1 .. rec'[k].allocs : asks'[k][j] \subseteq rec'[k].excl
  <2>1. CASE k = at
    <3>1. rec[at].allocs \in Nat
      BY <1>4, SMTT(40) DEF Records
    <3>2. ASSUME NEW j \in 1 .. rec'[at].allocs PROVE asks'[at][j] \subseteq rec'[at].excl
      <4>1. j \in 1 .. rec[at].allocs \/ j = rec[at].allocs + 1
        BY <1>5, <3>1
      <4> QED
        BY <1>4, <1>5, <1>6, <4>1, Zenon
    <3> QED
      BY <1>4, <1>5, <1>6, <2>1, <3>2, Zenon
  <2>2. CASE k # at
    BY <1>1, <1>5, <1>6, <2>2, Zenon DEF RecOK
  <2> QED
    BY <2>1, <2>2, SMTT(40)
<1>8. rec' \in [Instrs -> Records]
  <2>1. \A k \in Instrs : rec'[k] \in Records
    BY <1>5, Zenon DEF RecOK
  <2>2. rec' = [k \in Instrs |-> rec'[k]]
    BY <1>3, <1>5, ZenonT(40) DEF RecOK
  <2> QED
    BY <2>1, <2>2
<1>9. \A k \in Instrs : rec'[k].allocs <= Len(asks'[k])
  <2>1. \A k \in Instrs : rec'[k].allocs \in Nat
    BY <1>8 DEF Records
  <2> QED
    BY <1>7, <2>1
<1> QED
  BY <1>1, <1>6, <1>7, <1>8, <1>9, Zenon DEF RecOK

(* A reload asks for one more register than the record covers.               *)
LEMMA ReloadRecords ==
  ASSUME IInv, RecOK, NEW hand \in Hands, Reload(hand)
  PROVE  RecOK'
<1>1. /\ at \in Instrs /\ Instrs' = Instrs /\ pass = "rehearse" /\ pass' = pass
      /\ hand \subseteq Regs /\ rec' = rec
      /\ asks' = [asks EXCEPT ![at] = Append(@, hand)]
  BY ScratchAssumption, Zenon DEF Reload, IInv, Instrs
<1>2. asks[at] \in Seq(SUBSET Regs) /\ rec[at].allocs \in Nat /\ rec[at].allocs <= Len(asks[at])
  BY <1>1, Zenon DEF RecOK, Records
<1>3. /\ asks' \in [Instrs -> Seq(SUBSET Regs)]
      /\ Len(asks'[at]) = Len(asks[at]) + 1
      /\ \A j \in 1 .. Len(asks[at]) : asks'[at][j] = asks[at][j]
      /\ \A k \in Instrs \ {at} : asks'[k] = asks[k]
  <2>1. /\ Append(asks[at], hand) \in Seq(SUBSET Regs)
        /\ Len(Append(asks[at], hand)) = Len(asks[at]) + 1
        /\ \A j \in 1 .. Len(asks[at]) : Append(asks[at], hand)[j] = asks[at][j]
    BY <1>1, <1>2
  <2> QED
    BY <1>1, <2>1, Zenon DEF RecOK
<1>4. ASSUME NEW k \in Instrs
      PROVE  /\ rec[k].allocs <= Len(asks'[k])
             /\ \A j \in 1 .. rec[k].allocs : asks'[k][j] \subseteq rec[k].excl
  <2>1. CASE k = at
    <3>1. \A j \in 1 .. rec[at].allocs : j \in 1 .. Len(asks[at])
      BY <1>2
    <3> QED
      BY <1>1, <1>2, <1>3, <2>1, <3>1 DEF RecOK
  <2>2. CASE k # at
    BY <1>3, <2>2, Zenon DEF RecOK
  <2> QED
    BY <2>1, <2>2, SMTT(40)
<1> QED
  BY <1>1, <1>3, <1>4, ZenonT(40) DEF RecOK

(* Where a caller-saved register is neither live nor excluded, nothing is    *)
(* saved.                                                                    *)
LEMMA SteadyFinds ==
  ASSUME Counting, NEW f, NEW k, NEW exclude, NEW x \in CallerSaved \ (exclude \cup f.map[k])
  PROVE  Steady(f, k, exclude).how # "save"
<1> DEFINE free == Regs \ (exclude \cup f.map[k] \cup IF f.leaf THEN {LR} ELSE {})
           found == IF Low \cap free # {} THEN Lowest(Low \cap free)
                    ELSE IF IP \in free THEN IP
                    ELSE IF f.spare \cap free # {} THEN Lowest(f.spare \cap free)
                    ELSE IF LR \in free THEN LR
                    ELSE NoReg
           narrow == (f.pushed \cap NarrowRegs) \ (exclude \cup f.map[k])
           answer == Steady(f, k, exclude)
<1>1. x \in free /\ (x \in Low \/ x = IP)
  BY RegsAssumption DEF CallerSaved, Regs, Allocatable, IP, LR
<1>2. found # NoReg
  <2>1. CASE Low \cap free # {}
    <3>1. Lowest(Low \cap free) \in Low \cap free
      BY <2>1, LowestIn, RegsAssumption, SMTT(40)
    <3> QED
      BY <2>1, <3>1, RegsAssumption DEF NoReg
  <2>2. CASE Low \cap free = {}
    BY <1>1, <2>2, SMTT(40) DEF IP, NoReg
  <2> QED
    BY <2>1, <2>2, Zenon
<1>3. found # NoReg =>
        answer = IF found \in {IP, LR} /\ narrow # {} THEN [reg |-> Lowest(narrow), how |-> "dead"]
                 ELSE [reg |-> found, how |-> "free"]
  BY ZenonT(40) DEF Steady
<1> HIDE DEF found, narrow, answer
<1>4. answer.how # "save"
  BY <1>2, <1>3
<1> QED
  BY <1>4 DEF answer

(* A request behind the prologue appends what the bitmap leaves.             *)
LEMMA GrantSteady ==
  ASSUME Counting, IInv, CacheOK, pass \in {"rehearse", "emit"}, NEW hand, Grant(hand)
  PROVE  /\ took' = Append(took, Steady(Frozen, at, hand \cup TookRegs))
         /\ Steady(Frozen, at, hand \cup TookRegs) \in Answers
         /\ took \in Seq(Answers)
<1>1. /\ Answer(hand \cup TookRegs) = Steady(Frozen, at, hand \cup TookRegs)
      /\ Regs \ (hand \cup TookRegs) # {}
  BY AnswerSteady, SMTT(40) DEF Grant
<1>2. Answer(hand \cup TookRegs) \in Answers
  BY <1>1, AnswerGood, Zenon
<1> QED
  BY <1>1, <1>2, Zenon DEF Grant, IInv, TookOK

-----------------------------------------------------------------------------
(* The rehearsal and the real pass. *)

\* s are the answers to the requests A at k, each with those before it taken.
Replayed(f, s, A, k) ==
    \A j \in DOMAIN s :
        s[j] = Steady(f, k, A[j] \cup {s[l].reg : l \in 1 .. (j - 1)})

PlanOK ==
    /\ plan \in [Instrs -> Seq(Answers)]
    /\ pass = "frame" => at = 0
    /\ pass \in {"rehearse", "emit"} => Len(took) <= Len(asks[at])
    /\ pass = "rehearse" => Replayed(Frozen, took, asks[at], at)
    /\ \A k \in Instrs :
          pass = "emit" \/ (pass = "rehearse" /\ k < at) =>
              Replayed(Frozen, plan[k], asks[k], k) /\ Len(plan[k]) = Len(asks[k])
    /\ SameAnswers

(* The first of n places are places.                                         *)
LEMMA FirstOf ==
  ASSUME NEW m \in Nat, NEW n \in Nat, m <= n
  PROVE  1 .. m \subseteq 1 .. n
OBVIOUS

(* What the plan of an instruction is made of.                               *)
LEMMA PlanTypes ==
  ASSUME IInv, RecOK, PlanOK
  PROVE  /\ at \in Instrs /\ took \in Seq(Answers) /\ Len(took) \in Nat
         /\ fn.n \in Nat /\ asks \in [Instrs -> Seq(SUBSET Regs)]
         /\ plan \in [Instrs -> Seq(Answers)]
<1>1. at \in Instrs /\ took \in Seq(Answers)
  BY Zenon DEF IInv, TookOK
<1>2. fn.n \in Nat
  BY Zenon DEF IInv, FnOK
<1>3. asks \in [Instrs -> Seq(SUBSET Regs)] /\ plan \in [Instrs -> Seq(Answers)]
  BY Zenon DEF RecOK, PlanOK
<1>4. Len(took) \in Nat
  BY <1>1
<1> QED
  BY <1>1, <1>2, <1>3, <1>4

(* The places of a sequence that one element is appended to. *)
Grown(s, a, t) ==
  /\ t[Len(s) + 1] = a /\ \A l \in DOMAIN s : t[l] = s[l]
  /\ \A j \in DOMAIN t : /\ j \in DOMAIN s \/ j = Len(s) + 1
                         /\ \A l \in 1 .. (j - 1) : l \in DOMAIN s
  /\ 1 .. ((Len(s) + 1) - 1) = DOMAIN s

(* Append grows a sequence. *)
LEMMA Appended ==
  ASSUME NEW T, NEW s \in Seq(T), NEW a \in T
  PROVE  Grown(s, a, Append(s, a))
<1> DEFINE t == Append(s, a)
<1>1. /\ Len(s) \in Nat /\ DOMAIN s = 1 .. Len(s) /\ DOMAIN t = 1 .. Len(s) + 1
      /\ t[Len(s) + 1] = a /\ \A l \in DOMAIN s : t[l] = s[l]
  OBVIOUS
<1> HIDE DEF t
<1>2. \A j \in DOMAIN t : /\ j \in DOMAIN s \/ j = Len(s) + 1
                          /\ \A l \in 1 .. (j - 1) : l \in DOMAIN s
  BY <1>1
<1>3. 1 .. ((Len(s) + 1) - 1) = DOMAIN s
  BY <1>1
<1> QED
  BY <1>1, <1>2, <1>3 DEF t, Grown

(* One more request and its answer.                                          *)
LEMMA ReplayGrows ==
  ASSUME NEW f, NEW k, NEW s \in Seq(Answers), NEW A, NEW B, Replayed(f, s, A, k),
         \A j \in DOMAIN s : B[j] = A[j],
         NEW a \in Answers, a = Steady(f, k, B[Len(s) + 1] \cup {s[l].reg : l \in DOMAIN s})
  PROVE  Replayed(f, Append(s, a), B, k)
<1> DEFINE t == Append(s, a)
<1>1. Grown(s, a, t)
  BY Appended, Zenon
<1> HIDE DEF t
<1>2. ASSUME NEW j \in DOMAIN t
      PROVE  t[j] = Steady(f, k, B[j] \cup {t[l].reg : l \in 1 .. (j - 1)})
  <2>1. \A l \in 1 .. (j - 1) : t[l] = s[l]
    BY <1>1, Zenon DEF Grown
  <2>2. {t[l].reg : l \in 1 .. (j - 1)} = {s[l].reg : l \in 1 .. (j - 1)}
    BY <2>1, Zenon
  <2>3. CASE j \in DOMAIN s
    BY <1>1, <2>2, <2>3, ZenonT(40) DEF Replayed, Grown
  <2>4. CASE j = Len(s) + 1
    BY <1>1, <2>2, <2>4, ZenonT(40) DEF Grown
  <2> QED
    BY <1>1, <2>3, <2>4, Zenon DEF Grown
<1> QED
  BY <1>2, Zenon DEF Replayed, t

(* A request of the rehearsal, of those recorded or of a reload.             *)
LEMMA RehearseKeeps ==
  ASSUME Counting, IInv, CacheOK, RecOK, PlanOK, pass = "rehearse", NEW hand, Grant(hand),
         UNCHANGED <<fn, r0, bitmap, pass, at, plan, spare, pushed>>,
         asks' \in [Instrs -> Seq(SUBSET Regs)],
         \A k \in Instrs \ {at} : asks'[k] = asks[k],
         \A j \in 1 .. Len(asks[at]) : asks'[at][j] = asks[at][j],
         Len(took) < Len(asks'[at]), asks'[at][Len(took) + 1] = hand
  PROVE  PlanOK'
<1>u. fn' = fn /\ plan' = plan /\ at' = at /\ pass' = pass
  BY Zenon
<1>1. /\ at \in Instrs /\ Instrs' = Instrs /\ took \in Seq(Answers) /\ at \in Int
      /\ Len(took) <= Len(asks[at]) /\ Replayed(Frozen, took, asks[at], at)
  <2>1. at \in Instrs /\ took \in Seq(Answers) /\ fn.n \in Nat
    BY PlanTypes, Zenon
  <2>2. Instrs' = Instrs
    BY <1>u, Zenon DEF Instrs
  <2>3. at \in Int
    BY <2>1 DEF Instrs
  <2>4. Len(took) <= Len(asks[at]) /\ Replayed(Frozen, took, asks[at], at)
    BY Zenon DEF PlanOK
  <2> QED
    BY <2>1, <2>2, <2>3, <2>4, Zenon
<1> DEFINE a == Steady(Frozen, at, hand \cup TookRegs)
<1>2. took' = Append(took, a) /\ a \in Answers
  BY GrantSteady, Zenon
<1>3. Len(took) \in Nat /\ Len(asks[at]) \in Nat /\ Len(asks'[at]) \in Nat
      /\ DOMAIN took = 1 .. Len(took) /\ Len(took') = Len(took) + 1
  <2> HIDE DEF a
  <2> QED
    BY <1>1, <1>2 DEF RecOK
<1>4. Replayed(Frozen, took', asks'[at], at)
  <2>1. a = Steady(Frozen, at, asks'[at][Len(took) + 1] \cup {took[l].reg : l \in DOMAIN took})
    BY Zenon DEF TookRegs
  <2>2. \A j \in DOMAIN took : asks'[at][j] = asks[at][j]
    BY <1>1, <1>3, FirstOf, Zenon
  <2> HIDE DEF a
  <2>3. Replayed(Frozen, Append(took, a), asks'[at], at)
    BY <1>1, <1>2, <2>1, <2>2, ReplayGrows, ZenonT(40)
  <2> QED
    BY <1>2, <2>3, ZenonT(40)
<1> HIDE DEF a
<1>5. ASSUME NEW k \in Instrs, k < at
      PROVE  Replayed(Frozen, plan[k], asks'[k], k) /\ Len(plan[k]) = Len(asks'[k])
  <2>1. k # at
    BY <1>1, <1>5
  <2>2. asks'[k] = asks[k]
    BY <2>1, Zenon
  <2> QED
    BY <1>5, <2>2, ZenonT(40) DEF PlanOK
<1>6. Len(took') <= Len(asks'[at])
  BY <1>3
<1>7. Frozen' = Frozen
  BY Zenon DEF Frozen
<1>8. /\ plan' \in [Instrs' -> Seq(Answers)] /\ SameAnswers'
  <2>1. plan' \in [Instrs' -> Seq(Answers)]
    BY <1>1, <1>u, PlanTypes, Zenon
  <2>2. pass' # "emit"
    BY <1>u, Zenon
  <2> QED
    BY <2>1, <2>2, Zenon DEF SameAnswers
<1>9. Replayed(Frozen, took, asks[at], at)'
  BY <1>4, <1>7, ZenonT(40)
<1>10. \A k \in Instrs' : k < at' => Replayed(Frozen, plan[k], asks[k], k)' /\ Len(plan'[k]) = Len(asks'[k])
  <2> SUFFICES ASSUME NEW k \in Instrs, k < at
               PROVE  Replayed(Frozen, plan[k], asks[k], k)' /\ Len(plan'[k]) = Len(asks'[k])
    BY <1>1, SMTT(40)
  <2>1. Replayed(Frozen, plan[k], asks'[k], k) /\ Len(plan[k]) = Len(asks'[k])
    BY <1>5, Zenon
  <2> QED
    BY <1>7, <1>u, <2>1, Zenon
<1> QED
  BY <1>6, <1>8, <1>9, <1>10, ZenonT(40) DEF PlanOK

(* A request of the real pass gets what the plan has.                        *)
LEMMA EmitKeeps ==
  ASSUME Counting, IInv, CacheOK, RecOK, PlanOK, pass = "emit", Again
  PROVE  PlanOK'
<1> DEFINE n == Len(took) + 1
           hand == asks[at][n]
           a == Steady(Frozen, at, hand \cup TookRegs)
<1>1. /\ Grant(hand) /\ Len(took) < Len(asks[at])
      /\ UNCHANGED <<fn, r0, bitmap, pass, at, asks, plan, spare, pushed>>
  BY Zenon DEF Again, frameVars
<1>2. /\ at \in Instrs /\ Instrs' = Instrs /\ took \in Seq(Answers)
      /\ asks[at] \in Seq(SUBSET Regs) /\ plan[at] \in Seq(Answers)
      /\ Replayed(Frozen, plan[at], asks[at], at) /\ Len(plan[at]) = Len(asks[at])
  BY <1>1, ZenonT(40) DEF IInv, TookOK, PlanOK, RecOK, Instrs
<1>3. took' = Append(took, a) /\ a \in Answers
  BY <1>1, GrantSteady, Zenon
<1>4. /\ Len(took) \in Nat /\ Len(asks[at]) \in Nat /\ n \in DOMAIN plan[at]
      /\ DOMAIN took = 1 .. Len(took) /\ 1 .. (n - 1) = DOMAIN took
  BY <1>1, <1>2
<1>5. \A j \in DOMAIN took : took[j] = plan[at][j]
  BY DEF PlanOK, SameAnswers
<1>6. {plan[at][l].reg : l \in 1 .. (n - 1)} = TookRegs
  BY <1>4, <1>5, Zenon DEF TookRegs
<1>7. plan[at][n] = a
  <2>1. plan[at][n] = Steady(Frozen, at, asks[at][n] \cup {plan[at][l].reg : l \in 1 .. (n - 1)})
    BY <1>2, <1>4, ZenonT(40) DEF Replayed
  <2> QED
    BY <1>6, <2>1, Zenon
<1> HIDE DEF a, hand
<1>8. /\ Len(took') = Len(took) + 1 /\ DOMAIN took' = 1 .. n
      /\ took'[n] = a /\ \A j \in DOMAIN took : took'[j] = took[j]
  BY <1>2, <1>3
<1>9. \A j \in DOMAIN took' : took'[j] = plan[at][j]
  <2>1. \A j \in DOMAIN took' : j \in DOMAIN took \/ j = n
    BY <1>4, <1>8
  <2> HIDE DEF n
  <2> QED
    BY <1>5, <1>7, <1>8, <2>1
<1>10. Len(took') <= Len(asks'[at'])
  BY <1>1, <1>4, <1>8
<1>11. \A k \in Instrs' : Replayed(Frozen, plan[k], asks[k], k)' /\ Len(plan'[k]) = Len(asks'[k])
  <2> SUFFICES ASSUME NEW k \in Instrs
               PROVE  Replayed(Frozen, plan[k], asks[k], k)' /\ Len(plan'[k]) = Len(asks'[k])
    BY <1>2, Zenon
  <2>1. Replayed(Frozen, plan[k], asks[k], k) /\ Len(plan[k]) = Len(asks[k])
    BY DEF PlanOK
  <2>2. Frozen' = Frozen
    BY <1>1, SMTT(40) DEF Frozen
  <2> QED
    BY <1>1, <2>1, <2>2, SMTT(40)
<1>12. plan' \in [Instrs' -> Seq(Answers)] /\ SameAnswers'
  BY <1>1, <1>2, <1>9, Zenon DEF PlanOK, SameAnswers
<1> QED
  BY <1>1, <1>10, <1>11, <1>12, SMTT(40) DEF PlanOK

(* The rehearsal leaves an instruction: its answers become the plan for it.  *)
LEMMA AgainNextKeeps ==
  ASSUME IInv, RecOK, PlanOK, AgainNext
  PROVE  PlanOK'
<1>1. /\ at \in Instrs /\ Instrs' = Instrs /\ at \in Int /\ took \in Seq(Answers)
      /\ pass \in {"rehearse", "emit"} /\ Len(took) >= Len(asks[at])
      /\ Len(took) <= Len(asks[at]) /\ asks \in [Instrs -> Seq(SUBSET Regs)]
      /\ took' = <<>> /\ asks' = asks /\ Frozen' = Frozen
      /\ fn.n \in Nat
  <2>1. /\ at \in Instrs /\ took \in Seq(Answers) /\ fn.n \in Nat
        /\ asks \in [Instrs -> Seq(SUBSET Regs)]
    BY PlanTypes, Zenon
  <2>2. /\ pass \in {"rehearse", "emit"} /\ Len(took) >= Len(asks[at])
        /\ took' = <<>> /\ asks' = asks
        /\ fn' = fn /\ bitmap' = bitmap /\ spare' = spare /\ pushed' = pushed
    BY Zenon DEF AgainNext, liveVars, frameVars
  <2>3. Instrs' = Instrs /\ Frozen' = Frozen
    BY <2>2, Zenon DEF Instrs, Frozen
  <2>4. Len(took) <= Len(asks[at])
    BY <2>2, Zenon DEF PlanOK
  <2>5. at \in Int
    BY <2>1 DEF Instrs
  <2> QED
    BY <2>1, <2>2, <2>3, <2>4, <2>5, Zenon
<1>2. at' \in Instrs
  BY <1>1 DEF AgainNext, Instrs
<1>3. /\ Len(took') = 0 /\ Replayed(Frozen, took', asks[at'], at')
      /\ Len(took') <= Len(asks[at']) /\ SameAnswers'
  <2>1. Len(took') = 0 /\ DOMAIN took' = {} /\ Len(asks[at']) \in Nat
    BY <1>1, <1>2
  <2> QED
    BY <2>1 DEF Replayed, SameAnswers
<1>4. CASE pass = "emit"
  <2>1. plan' = plan /\ pass' \in {"emit", "done"}
    BY <1>4 DEF AgainNext
  <2>2. \A k \in Instrs : Replayed(Frozen, plan[k], asks[k], k) /\ Len(plan[k]) = Len(asks[k])
    BY <1>4 DEF PlanOK
  <2>3. plan' \in [Instrs' -> Seq(Answers)]
    BY <1>1, <2>1, SMTT(40) DEF PlanOK
  <2> QED
    BY <1>1, <1>3, <2>1, <2>2, <2>3, Zenon DEF PlanOK
<1>5. CASE pass = "rehearse"
  <2>1. /\ plan' = [plan EXCEPT ![at] = took] /\ plan \in [Instrs -> Seq(Answers)]
        /\ Replayed(Frozen, took, asks[at], at)
    BY <1>5, Zenon DEF AgainNext, PlanOK
  <2>2. /\ plan' \in [Instrs' -> Seq(Answers)] /\ plan'[at] = took
        /\ \A k \in Instrs \ {at} : plan'[k] = plan[k]
    BY <1>1, <2>1
  <2>3. Len(took) = Len(asks[at])
    BY <1>1
  <2>4. ASSUME NEW k \in Instrs, k <= at
        PROVE  Replayed(Frozen, plan'[k], asks[k], k) /\ Len(plan'[k]) = Len(asks[k])
    <3>1. CASE k = at
      BY <2>1, <2>2, <2>3, <3>1
    <3>2. CASE k # at
      <4>1. k < at
        BY <1>1, <2>4, <3>2 DEF Instrs
      <4> QED
        BY <1>5, <2>2, <3>2, <4>1 DEF PlanOK
    <3> QED
      BY <3>1, <3>2, Zenon
  <2>5. \/ pass' = "rehearse" /\ at' = at + 1
        \/ pass' = "emit" /\ at + 1 \notin Instrs
    BY <1>5 DEF AgainNext
  <2>6. ASSUME NEW k \in Instrs, pass' = "emit" \/ k < at' PROVE k <= at
    BY <1>1, <2>5, <2>6 DEF Instrs
  <2>7. \A k \in Instrs :
          pass' = "emit" \/ (pass' = "rehearse" /\ k < at') =>
              Replayed(Frozen, plan'[k], asks[k], k) /\ Len(plan'[k]) = Len(asks[k])
    BY <2>4, <2>6
  <2> QED
    BY <1>1, <1>3, <2>2, <2>5, <2>7, SMTT(40) DEF PlanOK
<1> QED
  BY <1>1, <1>4, <1>5, SMTT(40)

(* Every step keeps the plan.                                                *)
LEMMA PlanNext ==
  ASSUME Counting, IInv, CacheOK, RecOK, RecOK', PlanOK, [Next]_vars
  PROVE  PlanOK'
<1>0. /\ at \in Instrs /\ took \in Seq(Answers) /\ asks \in [Instrs -> Seq(SUBSET Regs)]
      /\ plan \in [Instrs -> Seq(Answers)] /\ Len(took) \in Nat
  BY PlanTypes, Zenon
<1>1. ASSUME NEW hand \in Hands, Reload(hand) PROVE PlanOK'
  <2>1. /\ pass = "rehearse" /\ Grant(hand)
        /\ UNCHANGED <<fn, r0, bitmap, pass, at, plan, spare, pushed>>
        /\ asks' = [asks EXCEPT ![at] = Append(@, hand)]
        /\ Len(took) = Len(asks[at]) /\ hand \subseteq Regs
    BY <1>1, ScratchAssumption, Zenon DEF Reload, frameVars
  <2>2. asks[at] \in Seq(SUBSET Regs) /\ asks'[at] = Append(asks[at], hand)
    BY <1>0, <2>1
  <2>3. /\ Len(asks'[at]) = Len(asks[at]) + 1 /\ asks'[at][Len(asks[at]) + 1] = hand
        /\ \A j \in 1 .. Len(asks[at]) : asks'[at][j] = asks[at][j]
    BY <2>1, <2>2
  <2>4. \A k \in Instrs \ {at} : asks'[k] = asks[k]
    BY <1>0, <2>1, SMTT(40)
  <2>5. asks' \in [Instrs -> Seq(SUBSET Regs)]
    BY <2>1, SMTT(40) DEF RecOK, Instrs
  <2>6. Len(took) < Len(asks'[at])
    BY <1>0, <2>1, <2>3
  <2> QED
    BY <2>1, <2>3, <2>4, <2>5, <2>6, RehearseKeeps, Zenon
<1>2. ASSUME Again PROVE PlanOK'
  <2>1. CASE pass = "emit"
    BY <1>2, <2>1, EmitKeeps, SMTT(40)
  <2>2. CASE pass = "rehearse"
    <3>1. /\ Grant(asks[at][Len(took) + 1]) /\ Len(took) < Len(asks[at])
          /\ UNCHANGED <<fn, r0, bitmap, pass, at, plan, asks, spare, pushed>>
      BY <1>2, Zenon DEF Again, frameVars
    <3> QED
      BY <1>0, <2>2, <3>1, RehearseKeeps, Zenon
  <2> QED
    BY <1>2, <2>1, <2>2, Zenon DEF Again
<1>3. ASSUME pass' \notin {"frame", "rehearse", "emit"}, UNCHANGED <<fn, plan>> PROVE PlanOK'
  BY <1>0, <1>3, Zenon DEF PlanOK, SameAnswers, Instrs
<1>4. ASSUME (\E hand \in Hands : Discover(hand)) \/ DiscoverNext \/ FixOne \/ FixNext
      PROVE  PlanOK'
  <2>1. pass' \notin {"frame", "rehearse", "emit"} /\ UNCHANGED <<fn, plan>>
    BY <1>4, ZenonT(40) DEF Discover, DiscoverNext, FixOne, FixNext, liveVars, genVars
  <2> QED
    BY <1>3, <2>1, SMTT(40)
<1>5. ASSUME Trim PROVE PlanOK'
  <2>1. /\ UNCHANGED <<fn, plan>> /\ pass' \in {"trim", "frame"}
        /\ pass' = "frame" => at' = 0
    BY <1>5, Zenon DEF Trim
  <2> QED
    BY <1>0, <2>1, Zenon DEF PlanOK, SameAnswers, Instrs
<1>6. ASSUME Frame PROVE PlanOK'
  <2>1. /\ UNCHANGED <<fn, at, took, asks, plan>> /\ took = <<>> /\ at = 0 /\ pass' = "rehearse"
    BY <1>6 DEF Frame, IInv, PlanOK
  <2>2. Len(took') = 0 /\ DOMAIN took' = {} /\ Len(asks[at]) \in Nat
    BY <1>0, <2>1
  <2>3. \A k \in Instrs : ~(k < at)
    BY <2>1 DEF Instrs
  <2>4. Replayed(Frozen', took', asks'[at'], at')
    BY <2>2, Zenon DEF Replayed
  <2>5. Instrs' = Instrs
    BY <2>1 DEF Instrs
  <2> QED
    BY <1>0, <2>1, <2>2, <2>3, <2>4, <2>5 DEF PlanOK, SameAnswers
<1>7. ASSUME LookAhead \/ UNCHANGED vars PROVE PlanOK'
  <2>1. /\ UNCHANGED <<fn, pass, at, took, asks, plan>> /\ Frozen' = Frozen
    BY <1>7, ZenonT(40) DEF LookAhead, vars, liveVars, genVars, frameVars, Frozen
  <2> QED
    BY <2>1, SMTT(40) DEF PlanOK, SameAnswers, Instrs
<1> QED
  BY <1>1, <1>2, <1>4, <1>5, <1>6, <1>7, AgainNextKeeps, SMTT(40) DEF Next, Finished

-----------------------------------------------------------------------------
(* The second inductive invariant, on top of the first. *)
JInv ==
    /\ CacheOK /\ SetsOK /\ FixOK
    /\ RecOK /\ FreedOK /\ NoSaveWhereFreed
    /\ PlanOK

(* It holds when the discovery run starts.                                   *)
LEMMA InitJInv == Init => JInv
<1> SUFFICES ASSUME Init PROVE JInv
  OBVIOUS
<1>1. FnOK /\ TablesOK(Tables) /\ Tables.r0 = r0
  BY InitTables, Zenon DEF Tables
<1>2. pass = "discover" /\ at = 0 /\ took = <<>> /\ freed = {} /\ extra = {} /\ demoted = {}
  BY Zenon DEF Init
<1>3. CacheOK
  BY <1>1, ZenonT(40) DEF Init, LiveInit, NoCache, CacheOK, Instrs, FnOK
<1>4. SetsOK
  <2>1. fn.ghosts \subseteq Allocatable
    BY FunctionsAssumption, ZenonT(40) DEF Init, LiveInit
  <2>2. Used \subseteq Allocatable
    BY <1>1, SMTT(40) DEF Used, TablesOK
  <2>3. dirty \subseteq Allocatable
    BY <2>1, <2>2, ZenonT(40) DEF Init
  <2>4. pushed \subseteq Regs
    <3>1. pushed \in IF fn.leaf THEN SUBSET {LR} ELSE {{}}
      BY Zenon DEF Init
    <3>2. LR \in Regs
      BY DEF Regs, LR
    <3> QED
      BY <3>1, <3>2, Zenon
  <2>5. sweep.taken = {} /\ sweep.active = {}
    BY ZenonT(40) DEF Init, LiveInit, NoSweep
  <2> QED
    BY <1>2, <2>3, <2>4, <2>5, SMTT(40) DEF SetsOK
<1>5. FixOK
  <2>1. fix = [pend |-> {}, all |-> TRUE, any |-> FALSE, needy |-> {}, orig |-> bitmap]
    BY Zenon DEF Init
  <2> QED
    BY <2>1 DEF FixOK
<1>6. RecOK
  <2>1. /\ asks = [k \in Instrs |-> <<>>]
        /\ rec = [k \in Instrs |-> [saves |-> {}, excl |-> {}, allocs |-> 0]]
    BY ZenonT(40) DEF Init
  <2>2. <<>> \in Seq(SUBSET Regs) /\ Len(<<>>) = 0
        /\ [saves |-> {}, excl |-> {}, allocs |-> 0] \in Records
    BY SMTT(40) DEF Records
  <2> QED
    BY <2>1, <2>2, SMTT(40) DEF RecOK
<1>7. FreedOK /\ NoSaveWhereFreed
  BY <1>2, SMTT(40) DEF FreedOK, NoSaveWhereFreed
<1>8. PlanOK
  <2>1. plan = [k \in Instrs |-> <<>>]
    BY Zenon DEF Init
  <2>2. <<>> \in Seq(Answers)
    OBVIOUS
  <2>3. plan \in [Instrs -> Seq(Answers)]
    BY <2>1, <2>2, Zenon
  <2>4. pass # "frame" /\ pass # "rehearse" /\ pass # "emit" /\ pass \notin {"rehearse", "emit"}
    BY <1>2
  <2> QED
    BY <2>3, <2>4, Zenon DEF PlanOK, SameAnswers
<1> QED
  BY <1>3, <1>4, <1>5, <1>6, <1>7, <1>8 DEF JInv

-----------------------------------------------------------------------------
(* Where the save slots were taken away, there is room for what is asked for: *)
(* registers are counted from here on.                                       *)
(* Every step keeps the records, and the room where a save slot is gone.     *)
LEMMA RecNext ==
  ASSUME Counting, IInv, RecOK, FreedOK, [Next]_vars
  PROVE  RecOK' /\ FreedOK'
<1>1. ASSUME UNCHANGED <<fn, asks, rec>>, pass' = "discover" => pass = "discover" PROVE RecOK'
  BY <1>1, Zenon DEF RecOK, Instrs
<1>2. ASSUME UNCHANGED <<fn, bitmap, rec, freed>>,
             pass' \in {"discover", "fixup"} => pass \in {"discover", "fixup"}
      PROVE  FreedOK'
  BY <1>2, Zenon DEF FreedOK, Instrs, Room
<1>3. ASSUME pass \in {"discover", "fixup"}, UNCHANGED freed PROVE FreedOK'
  BY <1>3 DEF FreedOK
<1>4. ASSUME NEW hand \in Hands, Discover(hand) PROVE RecOK' /\ FreedOK'
  <2>1. pass = "discover" /\ UNCHANGED freed
    BY <1>4 DEF Discover
  <2> QED
    BY <1>3, <1>4, <2>1, DiscoverRecords
<1>5. ASSUME NEW hand \in Hands, Reload(hand) PROVE RecOK' /\ FreedOK'
  <2>1. UNCHANGED <<fn, bitmap, rec, freed, pass>>
    BY <1>5 DEF Reload, frameVars
  <2> QED
    BY <1>2, <1>5, <2>1, ReloadRecords
<1>6. ASSUME DiscoverNext \/ FixOne PROVE RecOK' /\ FreedOK'
  <2>1. /\ UNCHANGED <<fn, asks, rec, freed>> /\ pass \in {"discover", "fixup"}
        /\ pass' = "discover" => pass = "discover"
    BY <1>6, Zenon DEF DiscoverNext, FixOne, liveVars, genVars
  <2> QED
    BY <1>1, <1>3, <2>1, SMTT(40)
<1>7. ASSUME FixNext PROVE RecOK' /\ FreedOK'
  <2>1. /\ UNCHANGED <<fn, asks, rec, freed>> /\ pass = "fixup"
        /\ pass' \in {"fixup", "trim"}
    BY <1>7 DEF FixNext, liveVars
  <2> QED
    BY <1>1, <1>3, <2>1
<1>8. ASSUME Trim PROVE RecOK' /\ FreedOK'
  <2>1. /\ UNCHANGED <<fn, bitmap, asks, rec>> /\ pass' \in {"trim", "frame"} /\ at \in Instrs
        /\ freed' = freed \/ (freed' = freed \cup {at} /\ Cardinality(RoomAt(at)) >= rec[at].allocs)
    BY <1>8, ZenonT(40) DEF Trim, IInv
  <2>2. RoomAt(at) = Room(at)
    <3>1. /\ FnOK /\ SweepOK(sweep, r0) /\ TablesOK(Tables)
          /\ Tables.r0 = r0 /\ Tables.map = bitmap
      BY SMTT(40) DEF IInv, Tables
    <3>2. LiveRegsAt(at) \subseteq bitmap[at]
      BY <2>1, <3>1, LiveInBitmap, SMTT(40)
    <3> QED
      BY <3>2 DEF RoomAt, Room
  <2>3. rec[at].allocs \in Nat /\ Cardinality(Room(at)) \in Nat
    <3>1. IsFiniteSet(0 .. 12)
      BY 12 \in Nat, Zenon DEF Counting
    <3>2. Room(at) \subseteq 0 .. 12
      <4>1. 0 .. 3 \subseteq 0 .. 12 /\ 12 \in 0 .. 12
        OBVIOUS
      <4> QED
        BY <4>1, RegsAssumption, Zenon DEF Room, CallerSaved, IP
    <3>3. IsFiniteSet(Room(at))
      BY <3>1, <3>2, Zenon DEF Counting
    <3> QED
      BY <2>1, <3>3, Zenon DEF RecOK, Records, Counting
  <2>4. \A k : Room(k)' = Room(k)
    BY <2>1, Zenon DEF Room
  <2>5. FreedOK'
    <3>1. CASE freed' = freed
      BY <2>1, <2>4, <3>1, SMTT(40) DEF FreedOK, Instrs
    <3>2. CASE freed' = freed \cup {at} /\ Cardinality(RoomAt(at)) >= rec[at].allocs
      <4>1. rec[at].allocs <= Cardinality(Room(at))
        BY <2>2, <2>3, <3>2, Zenon
      <4> QED
        BY <2>1, <2>4, <3>2, <4>1, SMTT(40) DEF FreedOK, Instrs
    <3> QED
      BY <2>1, <3>1, <3>2, Zenon
  <2> QED
    BY <1>1, <2>1, <2>5, SMTT(40)
<1>9. ASSUME Frame \/ Again \/ AgainNext \/ LookAhead \/ UNCHANGED vars PROVE RecOK' /\ FreedOK'
  <2>1. /\ UNCHANGED <<fn, bitmap, asks, rec, freed>>
        /\ pass' = pass \/ pass' \in {"rehearse", "emit", "done"}
    BY <1>9, ZenonT(40) DEF Frame, Again, AgainNext, LookAhead, vars, liveVars, genVars, frameVars
  <2> QED
    BY <1>1, <1>2, <2>1
<1> QED
  BY <1>4, <1>5, <1>6, <1>7, <1>8, <1>9, SMTT(40) DEF Next, Finished

(* Fewer registers than there is room for leave one.                         *)
LEMMA RoomLeft ==
  ASSUME Counting, NEW k, took \in Seq(Answers), NEW n \in Nat, Len(took) < n,
         n <= Cardinality(Room(k))
  PROVE  \E x \in Room(k) : x \notin TookRegs
<1> SUFFICES ASSUME Room(k) \subseteq TookRegs PROVE FALSE
  OBVIOUS
<1>1. Len(took) \in Nat /\ DOMAIN took = 1 .. Len(took)
  OBVIOUS
<1> DEFINE f == [j \in 1 .. Len(took) |-> took[j].reg]
<1>2. TookRegs = {f[j] : j \in 1 .. Len(took)}
  BY <1>1, Zenon DEF TookRegs
<1> HIDE DEF f
<1>3. IsFiniteSet(TookRegs) /\ Cardinality(TookRegs) <= Len(took)
  <2>1. \A m \in Nat : \A h :
           IsFiniteSet({h[j] : j \in 1 .. m}) /\ Cardinality({h[j] : j \in 1 .. m}) <= m
    BY Zenon DEF Counting
  <2>2. /\ IsFiniteSet({f[j] : j \in 1 .. Len(took)})
        /\ Cardinality({f[j] : j \in 1 .. Len(took)}) <= Len(took)
    BY <1>1, <2>1, Zenon
  <2> QED
    BY <1>2, <2>2, Zenon
<1>4. Cardinality(Room(k)) <= Cardinality(TookRegs) /\ IsFiniteSet(Room(k))
  BY <1>3, Zenon DEF Counting
<1>5. Cardinality(Room(k)) \in Nat /\ Cardinality(TookRegs) \in Nat
  BY <1>3, <1>4, Zenon DEF Counting
<1> QED
  BY <1>1, <1>3, <1>4, <1>5

(* Every step keeps the promise made where a save slot was taken away.       *)
LEMMA NoSaveNext ==
  ASSUME Counting, IInv, CacheOK, RecOK, FreedOK, NoSaveWhereFreed, [Next]_vars
  PROVE  NoSaveWhereFreed'
<1>0. at \in Instrs /\ took \in Seq(Answers) /\ rec[at].allocs \in Nat
  BY Zenon DEF IInv, TookOK, RecOK, Records
<1>1. ASSUME pass \in {"rehearse", "emit"}, NEW hand, Grant(hand),
             UNCHANGED <<pass, at, rec, freed>>,
             at \in freed /\ Len(took) < rec[at].allocs => hand \subseteq rec[at].excl
      PROVE  NoSaveWhereFreed'
  <2> SUFFICES ASSUME at \in freed, NEW j \in DOMAIN took', j <= rec[at].allocs
               PROVE  took'[j].how # "save"
    BY <1>1, Zenon DEF NoSaveWhereFreed
  <2> DEFINE a == Steady(Frozen, at, hand \cup TookRegs)
  <2>1. took' = Append(took, a) /\ a \in Answers
    BY <1>1, GrantSteady, Zenon
  <2> HIDE DEF a
  <2>2. /\ Len(took) \in Nat /\ DOMAIN took = 1 .. Len(took)
        /\ DOMAIN took' = 1 .. Len(took) + 1
        /\ took'[Len(took) + 1] = a
        /\ \A l \in DOMAIN took : took'[l] = took[l]
    BY <1>0, <2>1
  <2>3. CASE j \in DOMAIN took
    BY <1>1, <2>2, <2>3, Zenon DEF NoSaveWhereFreed
  <2>4. CASE j = Len(took) + 1
    <3>1. Len(took) < rec[at].allocs /\ hand \subseteq rec[at].excl
      BY <1>0, <1>1, <2>2, <2>4
    <3>2. rec[at].allocs <= Cardinality(Room(at))
      BY DEF FreedOK
    <3>3. PICK x \in Room(at) : x \notin TookRegs
      BY <1>0, <3>1, <3>2, RoomLeft, Zenon
    <3>4. x \in CallerSaved \ ((hand \cup TookRegs) \cup Frozen.map[at])
      BY <3>1, <3>3, Zenon DEF Room, Frozen
    <3>5. a.how # "save"
      BY <3>4, SteadyFinds, ZenonT(40) DEF a
    <3> QED
      BY <2>2, <2>4, <3>5, Zenon
  <2> QED
    BY <2>2, <2>3, <2>4
<1>2. ASSUME NEW hand \in Hands, Reload(hand) PROVE NoSaveWhereFreed'
  <2>1. /\ pass \in {"rehearse", "emit"} /\ Grant(hand) /\ UNCHANGED <<pass, at, rec, freed>>
        /\ Len(took) = rec[at].allocs
    BY <1>2, Zenon DEF Reload, frameVars
  <2> QED
    BY <1>0, <1>1, <2>1
<1>3. ASSUME Again PROVE NoSaveWhereFreed'
  <2> DEFINE hand == asks[at][Len(took) + 1]
  <2>1. /\ pass \in {"rehearse", "emit"} /\ Grant(hand) /\ UNCHANGED <<pass, at, rec, freed>>
    BY <1>3, Zenon DEF Again, frameVars
  <2>2. Len(took) < rec[at].allocs => hand \subseteq rec[at].excl
    <3>1. Len(took) \in Nat
      BY <1>0
    <3>2. Len(took) < rec[at].allocs => Len(took) + 1 \in 1 .. rec[at].allocs
      BY <1>0, <3>1
    <3> QED
      BY <1>0, <3>2, Zenon DEF RecOK
  <2> HIDE DEF hand
  <2> QED
    BY <1>1, <2>1, <2>2, Zenon
<1>4. ASSUME took' = <<>> PROVE NoSaveWhereFreed'
  BY <1>4 DEF NoSaveWhereFreed
<1>5. ASSUME pass' \notin {"rehearse", "emit"} PROVE NoSaveWhereFreed'
  BY <1>5, Zenon DEF NoSaveWhereFreed
<1>6. ASSUME UNCHANGED <<pass, at, took, rec, freed>> PROVE NoSaveWhereFreed'
  BY <1>6, SMTT(40) DEF NoSaveWhereFreed
<1>7. ASSUME (\E hand \in Hands : Discover(hand)) \/ FixOne \/ FixNext \/ Trim
      PROVE  pass' \notin {"rehearse", "emit"}
  BY <1>7, Zenon DEF Discover, FixOne, FixNext, Trim, genVars
<1>8. ASSUME DiscoverNext \/ AgainNext \/ Frame PROVE took' = <<>>
  BY <1>8 DEF DiscoverNext, AgainNext, Frame, IInv
<1>9. ASSUME LookAhead \/ UNCHANGED vars PROVE UNCHANGED <<pass, at, took, rec, freed>>
  BY <1>9, ZenonT(40) DEF LookAhead, vars, genVars, frameVars
<1> QED
  BY <1>2, <1>3, <1>4, <1>5, <1>6, <1>7, <1>8, <1>9, SMTT(40) DEF Next, Finished

-----------------------------------------------------------------------------
(* The theorems, with what the library shows. *)
INSTANCE FiniteSetTheorems

(* A set of numbers has a least one, and finite sets have a size.            *)
LEMMA CountingHolds == Counting
<1>1. ASSUME NEW T, T \subseteq Nat, T # {}
      PROVE  \E m \in T : \A k \in T : m <= k
  <2>1. PICK m \in T : \A k \in T : ~(<<k, m>> \in OpToRel(<, Nat))
    BY <1>1, NatLessThanWellFounded, WFMin, Zenon
  <2>2. \A k \in T : ~(k < m)
    BY <1>1, <2>1, Zenon DEF OpToRel
  <2> QED
    BY <1>1, <2>2
<1>2. \A T : IsFiniteSet(T) => Cardinality(T) \in Nat
  BY FS_CardinalityType, Zenon
<1>3. ASSUME NEW T, NEW R, IsFiniteSet(T), R \subseteq T
      PROVE  IsFiniteSet(R) /\ Cardinality(R) <= Cardinality(T)
  BY <1>3, FS_Subset, Zenon
<1>4. ASSUME NEW n \in Nat PROVE IsFiniteSet(0 .. n)
  <2>1. 0 \in Int /\ n \in Int
    OBVIOUS
  <2> QED
    BY <2>1, FS_Interval, Zenon
<1>5. ASSUME NEW n \in Nat, NEW f
      PROVE  IsFiniteSet({f[j] : j \in 1 .. n}) /\ Cardinality({f[j] : j \in 1 .. n}) <= n
  <2> DEFINE T == {f[j] : j \in 1 .. n}
             g == [j \in 1 .. n |-> f[j]]
  <2>1. g \in Surjection(1 .. n, T)
    BY Zenon DEF Surjection
  <2> HIDE DEF g, T
  <2>2. 1 \in Int /\ n \in Int
    OBVIOUS
  <2>3. IsFiniteSet(1 .. n) /\ Cardinality(1 .. n) = IF 1 > n THEN 0 ELSE n - 1 + 1
    BY <2>2, FS_Interval, Zenon
  <2>4. Cardinality(1 .. n) = n
    BY <2>3
  <2>5. IsFiniteSet(T) /\ Cardinality(T) <= Cardinality(1 .. n)
    BY <2>1, <2>3, FS_Surjection, Zenon
  <2> QED
    BY <2>4, <2>5, Zenon DEF T
<1> QED
  BY <1>1, <1>2, <1>3, <1>4, <1>5, Zenon DEF Counting

(* Every behaviour keeps the invariant.                                      *)
THEOREM ScratchInvariant == Spec => []IInv
<1>1. IInv /\ [Next]_vars => IInv'
  BY NextInv, CountingHolds, Zenon
<1> QED
  BY <1>1, InitInv, PTL DEF Spec

(* The sweep of tcc_ls_compute_live_regs is exact at its position, for every *)
(* sequence of queries forward and back.                                     *)
THEOREM SweepIsExact == Spec => []SweepExact
<1>1. IInv => SweepExact
  BY Zenon DEF IInv, SweepOK, SweepExact
<1> QED
  BY <1>1, ScratchInvariant, PTL

(* No scratch register holds a live value, and none is handed out twice to   *)
(* an instruction.                                                           *)
THEOREM ScratchAlwaysFree == Spec => []ScratchIsFree
<1>1. IInv => ScratchIsFree
  BY Zenon DEF IInv, TookOK, ScratchIsFree
<1> QED
  BY <1>1, ScratchInvariant, PTL

(* The fix-up neither puts a value on top of another nor parts two that were *)
(* coalesced.                                                                *)
THEOREM FixupKeepsApart == Spec => []Apart
<1>1. IInv => Apart
  BY Zenon DEF IInv, TablesOK, Tables, Apart
<1> QED
  BY <1>1, ScratchInvariant, PTL

(* The prologue pushes the callee-saved registers that the passes behind it  *)
(* use, for values or as scratch.                                            *)
THEOREM PrologueIsComplete == Spec => []CalleeSavedPushed
<1>1. IInv => CalleeSavedPushed
  BY Zenon DEF IInv, TookOK, PrologueOK, CalleeSavedPushed, Used
<1> QED
  BY <1>1, ScratchInvariant, PTL

(* Every behaviour keeps it.                                                 *)
LEMMA ReplayInvariant == Spec => []JInv
<1>1. IInv /\ JInv /\ [Next]_vars => JInv'
  <2> SUFFICES ASSUME IInv, JInv, [Next]_vars PROVE JInv'
    OBVIOUS
  <2>1. CacheOK' /\ SetsOK' /\ FixOK'
    BY CacheNext, CountingHolds DEF JInv
  <2>2. RecOK' /\ FreedOK'
    BY RecNext, CountingHolds DEF JInv
  <2>3. NoSaveWhereFreed'
    BY NoSaveNext, CountingHolds DEF JInv
  <2>4. PlanOK'
    BY <2>2, PlanNext, CountingHolds DEF JInv
  <2> QED
    BY <2>1, <2>2, <2>3, <2>4 DEF JInv
<1> QED
  BY <1>1, InitJInv, ScratchInvariant, PTL DEF Spec

(* The tables, the records and the sets of registers of code generation keep *)
(* their types.                                                              *)
THEOREM ScratchTypes == Spec => []TypeOK
<1>1. IInv /\ JInv => TypeOK
  <2> SUFFICES ASSUME IInv, JInv PROVE TypeOK
    BY SMTT(40)
  <2>1. r0 \in [Intervals -> Allocatable \cup {NoReg}] /\ bitmap \in [Instrs -> SUBSET Allocatable]
    BY Zenon DEF IInv, TablesOK, Tables
  <2>2. \A j \in DOMAIN took : took[j].reg \in Regs /\ took[j].how \in {"free", "dead", "save"}
    <3>1. \A j \in DOMAIN took : took[j] \in Answers
      BY DEF IInv, TookOK
    <3> QED
      BY <3>1 DEF Answers
  <2> QED
    BY <2>1, <2>2, Zenon DEF TypeOK, IInv, JInv, SetsOK, CacheOK, FreedOK
<1> QED
  BY <1>1, ScratchInvariant, ReplayInvariant, PTL

(* Where the fix-up took the save slots of an instruction away, the later    *)
(* passes save nothing for the requests that the discovery run saw there.    *)
THEOREM FreedSlotsUnused == Spec => []NoSaveWhereFreed
<1>1. JInv => NoSaveWhereFreed
  BY DEF JInv
<1> QED
  BY <1>1, ReplayInvariant, PTL

(* The real pass gets the scratch registers that the rehearsal got.          *)
THEOREM RehearsalIsExact == Spec => []SameAnswers
<1>1. JInv => SameAnswers
  BY DEF JInv, PlanOK
<1> QED
  BY <1>1, ReplayInvariant, PTL

-----------------------------------------------------------------------------
(* Copies are counted, to show that none is saved twice. *)

(* When no copy is ready the destinations of the pending copies are exactly *)
(* their sources, so no source is a temporary.                              *)
LEMMA NoTemporaryInCycle ==
    ASSUME ScheduleInv, Ready = {}, NEW ci \in Pending
    PROVE  copies[ci].src < first_phi_temp_pos
<1> SUFFICES ASSUME ~(copies[ci].src < first_phi_temp_pos) PROVE FALSE
  OBVIOUS
<1>1. /\ first_phi_temp_pos \in Nat /\ next \in Nat
      /\ asked \in CopyLists
      /\ copies \in [DOMAIN asked -> [dest : Nat, src : Registers, emitted : BOOLEAN]]
      /\ Pending \subseteq DOMAIN asked
  BY DEF ScheduleInv, ScheduleType, Pending
<1>2. IsFiniteSet(Pending)
  <2>1. asked \in Seq([dest : 0 .. first_phi_temp_pos - 1, src : 0 .. first_phi_temp_pos - 1])
    BY <1>1 DEF CopyLists
  <2>2. DOMAIN asked = 1 .. Len(asked) /\ Len(asked) \in Nat
    BY <2>1
  <2>3. IsFiniteSet(DOMAIN asked)
    BY <2>2, FS_Interval
  <2> QED
    BY <1>1, <2>3, FS_Subset
<1>3. \A i \in Pending : \E j \in Pending \ {ci} : copies[j].src = asked[i].dest
  <2> SUFFICES ASSUME NEW i \in Pending
               PROVE  \E j \in Pending \ {ci} : copies[j].src = asked[i].dest
    OBVIOUS
  <2>1. PICK j \in Pending \ {i} : copies[j].src = copies[i].dest
    BY DEF Ready, Clobbers
  <2>2. copies[i].dest = asked[i].dest /\ asked[i].dest \in 0 .. first_phi_temp_pos - 1
    BY <1>1, ListFacts DEF ScheduleInv
  <2>3. j # ci
    BY <1>1, <2>1, <2>2
  <2> QED
    BY <2>1, <2>2, <2>3
<1> DEFINE Reader == [i \in Pending |-> CHOOSE j \in Pending \ {ci} : copies[j].src = asked[i].dest]
<1>4. \A i \in Pending : Reader[i] \in Pending \ {ci} /\ copies[Reader[i]].src = asked[i].dest
  BY <1>3
<1>5. Reader \in [Pending -> Pending \ {ci}]
  BY <1>4
<1>6. /\ IsFiniteSet(Pending \ {ci})
      /\ Cardinality(Pending \ {ci}) < Cardinality(Pending)
  <2>1. /\ IsFiniteSet(Pending \ {ci})
        /\ Cardinality(Pending \ {ci}) = Cardinality(Pending) - 1
    BY <1>2, FS_RemoveElement
  <2>2. Cardinality(Pending) \in Nat
    BY <1>2, FS_CardinalityType
  <2> QED
    BY ONLY <2>1, <2>2
<1> HIDE DEF Reader
<1>7. PICK i, k \in Pending : i # k /\ Reader[i] = Reader[k]
  BY <1>2, <1>5, <1>6, FS_PigeonHole, Zenon
<1>8. asked[i].dest = asked[k].dest
  BY <1>4, <1>7
<1> QED
  BY <1>1, <1>7, <1>8, ListFacts

(* ra_create_phi_temp is called at most once for a copy, so the loop ends   *)
(* after at most twice as many instructions as the edge has copies.         *)
THEOREM SavedOnceHolds == ScheduleSpec => SavedOnce
<1>1. ScheduleSpec => []ScheduleInv
  BY ScheduleInitInv, ScheduleNextInv, PTL DEF ScheduleSpec
<1>2. ScheduleInv => [\A ci \in DOMAIN copies :
                         BreakCycle(ci) => copies[ci].src < first_phi_temp_pos]_scheduleVars
  BY NoTemporaryInCycle DEF BreakCycle
<1> QED
  BY <1>1, <1>2, PTL DEF SavedOnce
=============================================================================
