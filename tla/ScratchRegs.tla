----------------------------- MODULE ScratchRegs -----------------------------
(***************************************************************************)
(* Scratch registers from the discovery dry run to the emitted code.  The   *)
(* discovery run records where an instruction finds no free register and    *)
(* would have to save one.  The fix-up that follows moves the values in the *)
(* way to callee-saved registers or to memory, decides which instructions   *)
(* no longer need a save slot, and sets callee-saved registers apart.  Then *)
(* the prologue is laid down, and the rehearsal and the real pass ask for   *)
(* the same scratch registers again.                                        *)
(***************************************************************************)
EXTENDS LiveRegs, Sequences, FiniteSets

CONSTANTS
  Hands,      \* what a request may exclude: operands, values held by hand
  MaxAsks,    \* bound: scratch registers one instruction asks for
  MaxDemoted  \* the length of demoted_vregs

ASSUME ScratchAssumption == MaxDemoted \in Nat /\ \A h \in Hands : h \subseteq Regs

VARIABLES
  pass,    \* where code generation is, see Passes
  at,      \* codegen_instruction_idx, or the index of the fix-up's loop
  took,    \* the scratch registers that the instruction has, with how
  asks,    \* per instruction, the exclusions of its requests in order
  rec,     \* the discovery run's record of every instruction
  plan,    \* the answers that the rehearsal got
  fix,     \* the locals of the fix-up
  freed,   \* saves_freed
  dirty,   \* dirty_registers
  spare,   \* spare_scratch_regs
  extra,   \* extra_prologue_regs
  demoted, \* the intervals that the fix-up put in memory
  pushed   \* pushed_registers: until the prologue, the previous function's

genVars == <<pass, at, took, asks, rec, plan>>

frameVars == <<fix, freed, dirty, spare, extra, demoted, pushed>>

vars == <<liveVars, genVars, frameVars>>

Passes == {"discover", "fixup", "trim", "frame", "rehearse", "emit", "done"}

\* ir_codegen_allocated_regs
Used == {r0[i] : i \in Intervals} \ {NoReg}

\* ir_codegen_predicted_prolog_pushes
Predicted == dirty \cap Used \cap Callee

\* Of what the previous function pushed, only LR is looked at before the
\* prologue, and only in a leaf.
Init ==
    /\ LiveInit
    /\ pass = "discover"
    /\ at = 0
    /\ took = <<>>
    /\ asks = [k \in Instrs |-> <<>>]
    /\ rec = [k \in Instrs |-> [saves |-> {}, excl |-> {}, allocs |-> 0]]
    /\ plan = [k \in Instrs |-> <<>>]
    /\ fix = [pend |-> {}, all |-> TRUE, any |-> FALSE, needy |-> {}, orig |-> bitmap]
    /\ freed = {}
    /\ dirty = Used \cup fn.ghosts
    /\ spare = {}
    /\ extra = {}
    /\ demoted = {}
    /\ pushed \in IF fn.leaf THEN SUBSET {LR} ELSE {{}}

-----------------------------------------------------------------------------
(* Mutant: the live registers are not looked at. *)
AnyIn(S, exclude) == S \ exclude

\* scratch_dead_reg_in
DeadIn(S, exclude) == S \ (exclude \cup LiveRegsAt(at) \cup bitmap[at])

\* The register saved when there is none to take
SaveChoice(exclude) ==
    LET open == Regs \ exclude
    IN  IF Low \cap open # {} THEN Lowest(Low \cap open)
        ELSE IF fn.leaf /\ LR \in open THEN LR
        ELSE IF IP \in open THEN IP
        ELSE Lowest(open)

\* get_scratch_reg_with_save: its answer, and how it came to it.  The
\* discovery run draws on the registers it expects the prologue to push.
Answer(exclude) ==
    LET real == pass # "discover"
        found == FreeScratch(at, exclude, spare)
        narrow == IF real THEN DeadIn(pushed \cap NarrowRegs, exclude) ELSE {}
        dead == DeadIn(IF real THEN pushed \cap Callee ELSE Predicted, exclude)
    IN  IF found \in {IP, LR} /\ narrow # {} THEN [reg |-> Lowest(narrow), how |-> "dead"]
        ELSE IF found # NoReg THEN [reg |-> found, how |-> "free"]
        ELSE IF dead # {} THEN [reg |-> Lowest(dead), how |-> "dead"]
        ELSE IF (LR \in pushed \/ ~fn.leaf) /\ LR \notin exclude THEN [reg |-> LR, how |-> "free"]
        ELSE [reg |-> SaveChoice(exclude), how |-> "save"]

\* Whether it also computes the live registers, to look for a dead one
Scans(exclude) ==
    LET found == FreeScratch(at, exclude, spare)
    IN  IF pass = "discover" THEN found = NoReg /\ Predicted # {}
        ELSE found \in {IP, LR, NoReg} /\ pushed # {}

TookRegs == {took[j].reg : j \in DOMAIN took}

\* One request.  Excluded are what the caller holds by hand and the scratch
\* registers it has: scratch_global_exclude has them, except for one that was
\* saved by a later pass, which every caller excludes itself.  If none is
\* left, the compiler stops with an internal error.
Grant(hand) ==
    /\ Regs \ (hand \cup TookRegs) # {}
    /\ Query(at, Scans(hand \cup TookRegs))
    /\ took' = Append(took, Answer(hand \cup TookRegs))

\* A request of the discovery run, and insn_note_scratch.  A register that it
\* borrows is forced into the prologue, and LR if it would be saved in a leaf.
Discover(hand) ==
    LET a == Answer(hand \cup TookRegs)
        force == a.how = "dead" \/ (a.how = "save" /\ fn.leaf /\ a.reg = LR)
    IN  /\ pass = "discover" /\ at \in fn.asking /\ Len(took) < MaxAsks
        /\ hand \cap TookRegs = {}
        /\ Grant(hand)
        /\ asks' = [asks EXCEPT ![at] = Append(@, hand)]
        /\ rec' = [rec EXCEPT ![at].allocs = @ + 1,
                              ![at].excl = @ \cup (hand \ TookRegs),
                              ![at].saves = IF a.how = "save" THEN @ \cup {a.reg} ELSE @]
        /\ extra' = IF force THEN extra \cup {a.reg} ELSE extra
        /\ UNCHANGED <<fn, r0, bitmap, pass, at, plan>>
        /\ UNCHANGED <<fix, freed, dirty, spare, demoted, pushed>>

\* A block copy asks which register is free at the last instruction it covers.
LookAhead ==
    /\ pass \in {"discover", "rehearse", "emit"}
    /\ at + 1 \in Instrs
    /\ cached.at # at + 1
    /\ Query(at + 1, FALSE)
    /\ UNCHANGED <<fn, r0, bitmap, genVars, frameVars>>

(* Mutant: the run goes past the last instruction. *)
DiscoverPast ==
    /\ pass = "discover"
    /\ took' = <<>>
    /\ IF at \in Instrs
       THEN at' = at + 1 /\ UNCHANGED <<pass, fix>>
       ELSE at' = 0 /\ pass' = "fixup" /\ fix' = [fix EXCEPT !.pend = rec[0].saves]
    /\ UNCHANGED <<liveVars, asks, rec, plan, freed, dirty, spare, extra, demoted, pushed>>

\* The discovery run goes on to the next instruction, or to the fix-up.
DiscoverNext ==
    /\ pass = "discover"
    /\ took' = <<>>
    /\ IF at + 1 \in Instrs
       THEN at' = at + 1 /\ UNCHANGED <<pass, fix>>
       ELSE at' = 0 /\ pass' = "fixup" /\ fix' = [fix EXCEPT !.pend = rec[0].saves]
    /\ UNCHANGED <<liveVars, asks, rec, plan, freed, dirty, spare, extra, demoted, pushed>>

-----------------------------------------------------------------------------
Tables == [r0 |-> r0, map |-> bitmap, dirty |-> dirty, demoted |-> demoted]

\* A stack-passed parameter goes back to its home and takes no entry of
\* demoted_vregs.
Counted == {i \in demoted : ~fn.iv[i].param}

\* ir_codegen_regs_freed_at
FreedAt(k) == Cardinality((fix.orig[k] \ bitmap[k]) \cap Allocatable)

\* One register that the discovery run would have saved: its holder is moved,
\* or another of R0-R3 is free or can be freed, or the holder is demoted.
FixOne ==
    LET r == Lowest(fix.pend)
        others == {a \in Low \ {r} : CanReassign(Tables, a, at)}
        isFree == Low \ (bitmap[at] \cup {r}) # {}
        moved == CanReassign(Tables, r, at)
        alt == ~isFree /\ others # {}
        m == IF moved THEN Reassign(Tables, r, at)
             ELSE IF alt THEN Reassign(Tables, Lowest(others), at)
             ELSE Tables
        mayDemote ==
            /\ ~moved /\ CanDemote(m, r, at)
            /\ FreedAt(at) < Cardinality(rec[at].saves)
            /\ Cardinality(Counted) < MaxDemoted
    IN  /\ pass = "fixup" /\ fix.pend # {}
        /\ sweep' = Advance(at)
        /\ \E demote \in IF mayDemote THEN BOOLEAN ELSE {FALSE} :
              LET done == IF demote THEN Demote(m, r, at) ELSE m
              IN  /\ r0' = done.r0 /\ bitmap' = done.map
                  /\ dirty' = done.dirty /\ demoted' = done.demoted
                  /\ fix' = [fix EXCEPT !.pend = @ \ {r},
                                        !.all = @ /\ (moved \/ isFree \/ alt \/ demote),
                                        !.any = @ \/ moved \/ alt \/ demote]
        /\ UNCHANGED <<fn, cached, genVars, freed, spare, extra, pushed>>

FixNext ==
    /\ pass = "fixup" /\ fix.pend = {}
    /\ LET last == at + 1 \notin Instrs
       IN  /\ pass' = IF last THEN "trim" ELSE pass
           /\ at' = IF last THEN 0 ELSE at + 1
           /\ fix' = [fix EXCEPT !.pend = IF last THEN {} ELSE rec[at + 1].saves,
                                 !.all = TRUE,
                                 !.needy = IF fix.all THEN @ ELSE @ \cup {at}]
    /\ UNCHANGED <<liveVars, took, asks, rec, plan, freed, dirty, spare, extra, demoted, pushed>>

(* Mutant: the exclusions of the instruction are not asked. *)
RoomAtUnasked(k) == CallerSaved \ (bitmap[k] \cup LiveRegsAt(k))

\* The registers that the real run's picker takes outright at k
RoomAt(k) == CallerSaved \ (bitmap[k] \cup LiveRegsAt(k) \cup rec[k].excl)

\* An instruction at which there is room for every scratch register it asks
\* for needs no save slot.  Once a vreg is demoted, none is trimmed.
Trim ==
    /\ pass = "trim"
    /\ LET asked == Counted = {} /\ rec[at].saves # {}
           last == at + 1 \notin Instrs
       IN  /\ sweep' = IF asked THEN Advance(at) ELSE sweep
           /\ freed' = IF asked /\ Cardinality(RoomAt(at)) >= rec[at].allocs
                       THEN freed \cup {at} ELSE freed
           /\ pass' = IF last THEN "frame" ELSE pass
           /\ at' = IF last THEN 0 ELSE at + 1
    /\ UNCHANGED <<fn, r0, bitmap, cached, took, asks, rec, plan>>
    /\ UNCHANGED <<fix, dirty, spare, extra, demoted, pushed>>

\* The registers set apart: as many as the neediest instruction would save
SpareRegs ==
    LET open == Callee \ (dirty \cup extra)
    IN  {r \in open : \E k \in fix.needy :
                          Cardinality({q \in open : q < r}) < Cardinality(rec[k].saves)}

\* ir_codegen_recompute_dirty_from_allocations, with apart the spare registers
RecomputeDirty(regs, apart) == (regs \ Callee) \cup (regs \cap Callee \cap Used) \cup apart

\* registers_to_push of tcc_gen_machine_prolog, but for the frame pointer and
\* the R3 that pads an odd count
Pushes(used) == (Callee \cap (used \cup extra)) \cup (IF ~fn.leaf \/ LR \in extra THEN {LR} ELSE {})

(* Mutant: the answer of the discovery run's last query is kept. *)
FrameKeepingCache ==
    LET saved == RecomputeDirty(dirty \cup SpareRegs, SpareRegs)
    IN  /\ pass = "frame"
        /\ pass' = "rehearse"
        /\ spare' = SpareRegs
        /\ dirty' = saved
        /\ pushed' = Pushes(saved)
        /\ fix' = [fix EXCEPT !.needy = {}, !.orig = bitmap]
        /\ UNCHANGED <<liveVars, at, took, asks, rec, plan, freed, extra, demoted>>

\* The end of the fix-up sets the spare registers apart and forgets the cached
\* answer; the prologue is laid down for what is then in use.
Frame ==
    LET saved == RecomputeDirty(dirty \cup SpareRegs, SpareRegs)
    IN  /\ pass = "frame"
        /\ pass' = "rehearse"
        /\ spare' = SpareRegs
        /\ cached' = IF fix.any \/ SpareRegs # {} THEN NoCache ELSE cached
        /\ dirty' = saved
        /\ pushed' = Pushes(saved)
        /\ fix' = [fix EXCEPT !.needy = {}, !.orig = bitmap]
        /\ UNCHANGED <<fn, r0, bitmap, sweep, at, took, asks, rec, plan, freed, extra, demoted>>

-----------------------------------------------------------------------------
\* The rehearsal and the real pass repeat the requests of the discovery run.
Again ==
    /\ pass \in {"rehearse", "emit"}
    /\ Len(took) < Len(asks[at])
    /\ Grant(asks[at][Len(took) + 1])
    /\ UNCHANGED <<fn, r0, bitmap, pass, at, asks, rec, plan, frameVars>>

\* An instruction that uses a demoted value loads it into one more scratch.
Reload(hand) ==
    /\ pass = "rehearse"
    /\ Len(took) = rec[at].allocs /\ Len(asks[at]) = rec[at].allocs
    /\ \E i \in demoted : Covers(i, at)
    /\ hand \cap TookRegs = {}
    /\ Grant(hand)
    /\ asks' = [asks EXCEPT ![at] = Append(@, hand)]
    /\ UNCHANGED <<fn, r0, bitmap, pass, at, rec, plan, frameVars>>

AgainNext ==
    /\ pass \in {"rehearse", "emit"}
    /\ Len(took) >= Len(asks[at])
    /\ LET last == at + 1 \notin Instrs
       IN  /\ pass' = IF ~last THEN pass ELSE IF pass = "rehearse" THEN "emit" ELSE "done"
           /\ at' = IF last THEN 0 ELSE at + 1
    /\ took' = <<>>
    /\ plan' = IF pass = "rehearse" THEN [plan EXCEPT ![at] = took] ELSE plan
    /\ UNCHANGED <<liveVars, asks, rec, frameVars>>

Finished == pass = "done" /\ UNCHANGED vars

Next ==
    \/ \E hand \in Hands : Discover(hand) \/ Reload(hand)
    \/ LookAhead \/ DiscoverNext
    \/ FixOne \/ FixNext \/ Trim \/ Frame
    \/ Again \/ AgainNext \/ Finished

Spec == Init /\ [][Next]_vars

-----------------------------------------------------------------------------
(* Types of the state, and the shape of what it records. *)
TypeOK ==
    /\ r0 \in [Intervals -> Allocatable \cup {NoReg}]
    /\ bitmap \in [Instrs -> SUBSET Allocatable]
    /\ sweep.taken \subseteq Intervals /\ sweep.active \subseteq Intervals
    /\ cached.regs \subseteq Allocatable
    /\ pass \in Passes /\ at \in Instrs
    /\ \A j \in DOMAIN took : took[j].reg \in Regs /\ took[j].how \in {"free", "dead", "save"}
    /\ freed \subseteq Instrs /\ demoted \subseteq Intervals
    /\ dirty \subseteq Allocatable /\ spare \subseteq Callee
    /\ extra \subseteq Regs /\ pushed \subseteq Regs

(* ls_sweep_advance: "exactly the register-holding intervals with start <=   *)
(* idx <= end" are active, though queries jump forward for a look ahead and  *)
(* back for the next pass, and the fix-up moves intervals in between.        *)
SweepExact ==
    sweep.valid =>
        LET live == {i \in Intervals : Covers(i, sweep.last)}
        IN  {i \in live : r0[i] # NoReg} \subseteq sweep.active /\ sweep.active \subseteq live

(* A scratch register that get_scratch_reg_with_save hands out without       *)
(* saving it holds no live value, and each is handed out once, in all three  *)
(* passes, whatever the fix-up moved after the bitmap was built.             *)
ScratchIsFree ==
    pass \in {"discover", "rehearse", "emit"} =>
        \A j \in DOMAIN took :
            /\ took[j].how # "save" => \A i \in Intervals : Covers(i, at) => r0[i] # took[j].reg
            /\ \A l \in DOMAIN took : took[l].reg = took[j].reg => l = j

(* Where the fix-up took the save slots away, since the registers it vacated *)
(* are enough, the later passes find a free register for every scratch that  *)
(* the discovery run had asked for ("the real run finds a free register for  *)
(* every scratch it allocates there").                                       *)
NoSaveWhereFreed ==
    pass \in {"rehearse", "emit"} /\ at \in freed =>
        \A j \in DOMAIN took : j <= rec[at].allocs => took[j].how # "save"

(* Two intervals that overlap share a register after the fix-up exactly when *)
(* they did before it: no value is moved onto another, and the two ends of a *)
(* coalesced copy, whose copy is gone, are never parted.                     *)
Apart ==
    \A i, j \in Intervals :
        i # j /\ Overlap(i, j) =>
            (r0[i] # NoReg /\ r0[i] = r0[j] <=> fn.iv[i].r0 = fn.iv[j].r0)

(* The prologue pushes every callee-saved register that holds a value or is  *)
(* used as scratch by the passes behind it, and LR if that is taken.         *)
CalleeSavedPushed ==
    pass \in {"rehearse", "emit"} =>
        /\ Used \cap Callee \subseteq pushed
        /\ \A j \in DOMAIN took :
              took[j].how # "save" /\ took[j].reg \notin CallerSaved => took[j].reg \in pushed

(* The real pass gets the scratch registers that the rehearsal got, though   *)
(* it starts from another cache and another position of the sweep.           *)
SameAnswers ==
    pass = "emit" => \A j \in DOMAIN took : took[j] = plan[at][j]
=============================================================================
