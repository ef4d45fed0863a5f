----------------------------- MODULE PhiResolve -----------------------------
(***************************************************************************)
(* Out of SSA: ra_resolve_phis writes the instructions of a function again, *)
(* with the copies that the phis stand for, moves every jump to where its   *)
(* target went, and tcc_ir_settle reseats the operand pool.  The result is  *)
(* then executed and compared with the program in SSA form (SSAExec).       *)
(*                                                                         *)
(* An instruction of the stream is [op, base, org]: its operands begin at   *)
(* pool[base], and org is the instruction of the program it came from, or   *)
(* None.  Positions, targets and bases count from 0.                        *)
(***************************************************************************)
EXTENDS FlatIR, CopySchedule

CONSTANT Programs

VARIABLES prog,       \* the function in SSA form; never changes
          phase,      \* the step that is next
          blk, stage, \* the block being written, and how far it is
          code,       \* compact_instructions
          pool,       \* iroperand_pool
          table,      \* the targets of the switch table
          out,        \* RAPhiOut: the instructions written so far
          old_to_new,
          skip,       \* skip_dest_pool_idx
          pc, env,    \* the program counter and the registers
          at, snap,   \* the last instruction of the program that was reached,
          tick,       \* the live values there, the parity of the steps, and
          seen        \* the value that the last use has read

irVars == <<code, pool, table, out, old_to_new, skip>>
runVars == <<pc, env, at, snap, tick, seen>>
vars == <<scheduleVars, prog, phase, blk, stage, irVars, runVars>>

n == Size(prog.code)

(* Mutant: the fourth slot is forgotten. *)
SlotsWithoutSlot3(op) ==
    CASE op \in {"def", "pick", "jump"} -> 1
      [] op \in {"cmp", "jumpif", "switch", "assign"} -> 2
      [] op = "use" -> 3
      [] OTHER -> 0

\* ir_op_slot_count, and the fourth slot of an operation with IROP_A_SLOT3,
\* which is what "use" is here (a multiply-accumulate and its addend).
Slots(op) ==
    CASE op \in {"def", "pick", "jump"} -> 1
      [] op \in {"cmp", "jumpif", "switch", "assign"} -> 2
      [] op = "use" -> 4
      [] OTHER -> 0

Operands(q) ==
    CASE q.op \in {"def", "pick"} -> <<q.x>>
      [] q.op = "cmp" -> <<None, None>>
      [] q.op = "use" -> <<None, None, None, q.x>>
      [] q.op = "jump" -> q.to
      [] q.op = "jumpif" -> Append(q.to, q.x)
      [] q.op = "switch" -> <<q.x, 0>>
      [] OTHER -> <<>>

Operand(q, k) == IF q.base + k < Len(pool) THEN pool[q.base + k + 1] ELSE None

\* ra_collect_phi_copies_for_pred: the copies from block b to the blocks of S.
Collect(b, S) ==
    LET Of(phi) == LET ops == SelectSeq(phi.ops, LAMBDA o : o.pred = b /\ o.vreg # None)
                   IN  [j \in DOMAIN ops |-> [dest |-> phi.dest, src |-> ops[j].vreg]]
        Into(s) == LET phis == IF s \in S THEN PhisOf(prog, s) ELSE <<>>
                   IN  FlattenSeq([k \in DOMAIN phis |-> Of(phis[k])])
    IN  ForBlocks(prog, [s \in prog.leaders |-> Into(s)])

AllCopies == Collect(blk, prog.leaders)

\* The pool before the pass: the operands from the last instruction to the
\* first, behind a slot that no instruction uses any more.
Init ==
    /\ prog \in Programs
    /\ LET laid == [k \in 1 .. n |-> Operands(prog.code[n - k])]
           Base(i) == 1 + Len(FlattenSeq(SubSeq(laid, 1, n - 1 - i)))
       IN  /\ pool = <<None>> \o FlattenSeq(laid)
           /\ code = [k \in 1 .. n |-> [op |-> prog.code[k - 1].op, base |-> Base(k - 1), org |-> k - 1]]
    /\ table = FlattenSeq([k \in 1 .. n |-> IF prog.code[k - 1].op = "switch"
                                            THEN prog.code[k - 1].to ELSE <<>>])
    /\ first_phi_temp_pos = Max(Names(prog)) + 1
    /\ ScheduleInit
    /\ phase = "count"
    /\ blk = 0
    /\ stage = "enter"
    /\ out = <<>>
    /\ old_to_new = [i \in 0 .. n - 1 |-> 0]
    /\ skip = 0
    /\ pc = 0
    /\ env = [v \in {Flag} \cup (0 .. next - 1) |-> 2 * v]
    /\ at = 0
    /\ snap = [v \in Live(prog, 0) |-> env[v]]
    /\ tick = 0
    /\ seen = None

\* The counts at the head of ra_resolve_phis: nothing to do without copies.
CountCopies ==
    /\ phase = "count"
    /\ phase' = IF \E b \in prog.leaders : Collect(b, prog.leaders) # <<>>
                THEN "emit" ELSE "settle"
    /\ UNCHANGED <<scheduleVars, prog, blk, stage, irVars, runVars>>

LastInstr == EndOf(prog, blk) - 1

Term == code[LastInstr + 1]

EndsInJumpIf == Term.op = "jumpif" /\ AllCopies # <<>>

FallCopies == IF LastInstr + 1 < n THEN Collect(blk, {LastInstr + 1}) ELSE <<>>

TargetCopies ==
    LET old_target == Operand(Term, 0)
    IN  IF old_target < n THEN Collect(blk, {BlockOf(prog, old_target)}) ELSE <<>>

(* Mutant: the position does not count from the start of the block. *)
PlacedFromStart(i) ==
    [j \in DOMAIN old_to_new |-> IF j \in blk .. i THEN Len(out) + j ELSE old_to_new[j]]

\* Instructions from the start of the block to i are written at the end of out.
Placed(i) ==
    [j \in DOMAIN old_to_new |-> IF j \in blk .. i THEN Len(out) + j - blk ELSE old_to_new[j]]

\* A block that ends in a JUMPIF and has copies.  When the edge of the jump has
\* copies, the jump is turned round and skips them.
EnterJumpIf ==
    /\ phase = "emit" /\ stage = "enter" /\ EndsInJumpIf
    /\ old_to_new' = Placed(LastInstr)
    /\ IF TargetCopies # <<>>
       THEN /\ out' = out \o SubSeq(code, blk + 1, LastInstr)
                          \o <<[Term EXCEPT !.base = Len(pool)]>>
            /\ pool' = pool \o <<-(Len(out) + LastInstr - blk + Len(TargetCopies) + 3),
                                 1 - Operand(Term, 1)>>
            /\ skip' = Len(pool)
            /\ Begin(TargetCopies)
            /\ stage' = "target"
       ELSE /\ out' = out \o SubSeq(code, blk + 1, LastInstr + 1)
            /\ Begin(FallCopies)
            /\ stage' = "fall"
            /\ UNCHANGED <<pool, skip>>
    /\ UNCHANGED <<prog, phase, blk, code, table, runVars>>

\* insert_before: copies go before the instruction that ends the block.
InsertBefore == IF Term.op \in Terminators THEN LastInstr ELSE LastInstr + 1

\* Any other block.  A block that is nothing but its last instruction is
\* entered at its copies.
EnterPlain ==
    /\ phase = "emit" /\ stage = "enter" /\ ~EndsInJumpIf
    /\ out' = out \o SubSeq(code, blk + 1, InsertBefore)
    /\ old_to_new' = Placed(Max({blk, InsertBefore - 1}))
    /\ Begin(AllCopies)
    /\ stage' = "plain"
    /\ UNCHANGED <<prog, phase, blk, code, pool, table, skip, runVars>>

\* The instruction that ends the block is reached at the first copy before it.
CopyOrg ==
    IF /\ stage = "plain" /\ InsertBefore = LastInstr
       /\ \A i \in DOMAIN copies : ~copies[i].emitted /\ copies[i].src = asked[i].src
    THEN LastInstr ELSE None

\* ra_emit_phi_copy
WriteCopy(dest, src) ==
    /\ out' = Append(out, [op |-> "assign", base |-> Len(pool), org |-> CopyOrg])
    /\ pool' = pool \o <<dest, src>>
    /\ UNCHANGED <<prog, phase, blk, stage, code, table, old_to_new, skip, runVars>>

EmitCopy(ci) ==
    /\ stage # "enter"
    /\ EmitReady(ci)
    /\ WriteCopy(copies[ci].dest, copies[ci].src)

SaveSource(ci) ==
    /\ stage # "enter"
    /\ BreakCycle(ci)
    /\ WriteCopy(next, copies[ci].src)

\* The jump behind the copies of the taken edge, and the target of the JUMPIF
\* that skips both, as a negative number that FixTargets decodes.
LeaveTarget ==
    /\ stage = "target" /\ Pending = {}
    /\ out' = Append(out, [op |-> "jump", base |-> Len(pool), org |-> None])
    /\ pool' = Append([pool EXCEPT ![skip + 1] = -(Len(out) + 2)], Operand(Term, 0))
    /\ Begin(FallCopies)
    /\ stage' = "fall"
    /\ UNCHANGED <<prog, phase, blk, code, table, old_to_new, skip, runVars>>

LeaveBlock ==
    /\ stage \in {"plain", "fall"} /\ Pending = {}
    /\ IF stage = "plain" /\ InsertBefore = LastInstr
       THEN /\ out' = Append(out, [Term EXCEPT !.org = IF copies = <<>> THEN LastInstr ELSE None])
            /\ old_to_new' = IF LastInstr = blk THEN old_to_new
                             ELSE [old_to_new EXCEPT ![LastInstr] = Len(out)]
       ELSE UNCHANGED <<out, old_to_new>>
    /\ stage' = "enter"
    /\ IF LastInstr + 1 < n
       THEN blk' = LastInstr + 1 /\ UNCHANGED phase
       ELSE phase' = "fix" /\ UNCHANGED blk
    /\ UNCHANGED <<scheduleVars, prog, code, pool, table, skip, runVars>>

NewTarget(t) ==
    IF t < 0 THEN -t - 1 ELSE IF t < n THEN old_to_new[t] ELSE Len(out) + (t - n)

NewTableTarget(t) == IF t < n THEN old_to_new[t] ELSE t

(* Mutant: the jumps behind copies keep their old target. *)
FixOldTargets ==
    /\ phase = "fix"
    /\ LET dests == {q.base : q \in {r \in Range(out) : r.op \in {"jump", "jumpif"} /\ r.org # None}}
       IN  pool' = [k \in DOMAIN pool |-> IF k - 1 \in dests THEN NewTarget(pool[k]) ELSE pool[k]]
    /\ table' = [e \in DOMAIN table |-> NewTableTarget(table[e])]
    /\ code' = out
    /\ phase' = "settle"
    /\ UNCHANGED <<scheduleVars, prog, blk, stage, out, old_to_new, skip, runVars>>

\* The jumps and the switch table follow their targets, and the new stream
\* replaces the old one.
FixTargets ==
    /\ phase = "fix"
    /\ LET dests == {q.base : q \in {r \in Range(out) : r.op \in {"jump", "jumpif"}}}
       IN  pool' = [k \in DOMAIN pool |-> IF k - 1 \in dests THEN NewTarget(pool[k]) ELSE pool[k]]
    /\ table' = [e \in DOMAIN table |-> NewTableTarget(table[e])]
    /\ code' = out
    /\ phase' = "settle"
    /\ UNCHANGED <<scheduleVars, prog, blk, stage, out, old_to_new, skip, runVars>>

\* tcc_ir_settle: only operands that an instruction refers to, in the order of
\* the instructions.
Settle ==
    /\ phase = "settle"
    /\ LET kept == [i \in DOMAIN code |-> [k \in 1 .. Slots(code[i].op) |-> Operand(code[i], k - 1)]]
       IN  /\ pool' = FlattenSeq(kept)
           /\ code' = [i \in DOMAIN code |->
                          [code[i] EXCEPT !.base = Len(FlattenSeq(SubSeq(kept, 1, i - 1)))]]
    /\ phase' = "run"
    /\ env' = [v \in {Flag} \cup (0 .. next - 1) |-> 2 * v]
    /\ UNCHANGED <<scheduleVars, prog, blk, stage, table, out, old_to_new, skip, pc, at, snap, tick, seen>>

-----------------------------------------------------------------------------
(* Running the result *)

Ended == pc >= Len(code)

Now(op) == phase = "run" /\ ~Ended /\ code[pc + 1].op = op

Arg(k) == Operand(code[pc + 1], k)

\* Control goes to position t with the registers e.
Reach(t, e) ==
    /\ pc' = t
    /\ env' = e
    /\ LET i == IF t >= Len(code) THEN n ELSE code[t + 1].org
       IN  IF i = None THEN UNCHANGED <<at, snap, tick>>
           ELSE at' = i /\ snap' = [v \in Live(prog, i) |-> e[v]] /\ tick' = 1 - tick
    /\ UNCHANGED <<scheduleVars, prog, phase, blk, stage, irVars>>

Arrive(t, e) == Reach(t, e) /\ UNCHANGED seen

\* Each execution gives another value than the one before.
RunDef == Now("def") /\ Arrive(pc + 1, [env EXCEPT ![Arg(0)] = IF @ % 2 = 0 THEN @ + 1 ELSE @ - 1])

RunPick == Now("pick") /\ \E e \in DOMAIN table : Arrive(pc + 1, [env EXCEPT ![Arg(0)] = e - 1])

RunCmp == Now("cmp") /\ \E f \in {0, 1} : Arrive(pc + 1, [env EXCEPT ![Flag] = f])

RunUse ==
    /\ Now("use")
    /\ seen' = IF Arg(3) \in DOMAIN env THEN env[Arg(3)] ELSE None
    /\ Reach(pc + 1, env)

\* A copy may become an instruction that sets the flags.
RunAssign ==
    Now("assign") /\ \E f \in {0, 1} : Arrive(pc + 1, [env EXCEPT ![Arg(0)] = env[Arg(1)], ![Flag] = f])

RunJump == Now("jump") /\ Arrive(Arg(0), env)

RunJumpIf == Now("jumpif") /\ Arrive(IF env[Flag] = Arg(1) THEN Arg(0) ELSE pc + 1, env)

RunSwitch == Now("switch") /\ Arrive(table[env[Arg(0)] + 1], env)

RunReturn == Now("return") /\ Arrive(Len(code), env)

Resolve ==
    \/ CountCopies \/ EnterJumpIf \/ EnterPlain
    \/ \E ci \in DOMAIN copies : EmitCopy(ci) \/ SaveSource(ci)
    \/ LeaveTarget \/ LeaveBlock \/ FixTargets \/ Settle

Run ==
    \/ RunDef \/ RunPick \/ RunCmp \/ RunUse \/ RunAssign
    \/ RunJump \/ RunJumpIf \/ RunSwitch \/ RunReturn

\* The function has returned.
Finished == phase = "run" /\ Ended /\ UNCHANGED vars

Next == Resolve \/ Run \/ Finished

Spec == Init /\ [][Next]_vars /\ WF_vars(Resolve) /\ WF_vars(Run)

TypeOK ==
    /\ phase \in {"count", "emit", "fix", "settle", "run"}
    /\ blk \in prog.leaders
    /\ stage \in {"enter", "target", "fall", "plain"}
    /\ \A q \in Range(code) : q.base + Slots(q.op) <= Len(pool)
    /\ \A i \in DOMAIN old_to_new : old_to_new[i] <= Len(out)
    /\ phase = "run" => pc \in 0 .. Len(code)

\* Executing the rewritten function does what the program in SSA form does:
\* whatever path it takes, it is at the same instruction with the same live
\* values, and every use reads what it should.
SSA == INSTANCE SSAExec WITH val <- snap

ImplementsSSA == SSA!Spec

\* Writing the copies ends, whatever cycles the phis have, and the rewritten
\* function does not run in circles among instructions the pass has added.
ReachesProgram == []<>(phase = "run" /\ (Ended \/ code[pc + 1].org # None))

\* A switch that leaves the function still leaves it: compact_nops says of
\* switch tables "same epilogue-aware remapping as jumps".
TableEnds ==
    phase = "run" =>
        \A i \in DOMAIN prog.code : prog.code[i].op = "switch" =>
            \A e \in DOMAIN table : prog.code[i].to[e] = n => table[e] >= Len(code)
=============================================================================
