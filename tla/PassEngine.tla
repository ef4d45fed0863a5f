----------------------------- MODULE PassEngine -----------------------------
(***************************************************************************)
(* The driver of the flat optimisation passes (src/source/opt/engine).     *)
(*                                                                         *)
(* A context (IROptCtx) lives for one group of passes.  It counts changes  *)
(* of the IR in `generation`; the decision to skip a pass that ran clean   *)
(* is keyed by that count, and so are two caches that sit in the IR and    *)
(* outlive the context: the opcode features and the frame points-to facts. *)
(* No pass of the tables requires one of the analyses that the context     *)
(* itself caches (def-use, merge points, loops), so they are left out.     *)
(*                                                                         *)
(* The IR is abstracted to what the driver's decisions depend on: how many *)
(* instructions it has, and which passes would change it (`work`).  Any    *)
(* change of the IR makes every cached fact stale and may give any pass    *)
(* new work.  A plain pass changes the IR only if it reports so; a cascade *)
(* may change it and report nothing (CASCADE_END).                         *)
(***************************************************************************)
EXTENDS Integers

CONSTANTS
  Groups,        \* the pass groups, records as described by IsGroup
  Counts,        \* numbers of instructions an IR may have
  MaxLives       \* bound: contexts created for one function

Kinds == {"plain", "ctx", "cascade"}

(* count passes, 1 to count; trigger is 0 where there is none; facts are   *)
(* the passes that ask for the frame points-to facts.                      *)
IsGroup(g) ==
  /\ g.count \in Nat \ {0} /\ g.iterations \in Nat \ {0}
  /\ g.kind \in [1 .. g.count -> Kinds]
  /\ g.trigger \in 0 .. g.count /\ g.compact \in BOOLEAN
  /\ g.facts \subseteq 1 .. g.count

ASSUME GroupsAssumption == \A g \in Groups : IsGroup(g)

(* Passes that hide changes are kept out of the groups that can skip: one  *)
(* with a trigger or with compact_after moves the generation every round.  *)
ASSUME CascadesAssumption ==
  \A g \in Groups :
    (\E q \in 1 .. g.count : g.kind[q] = "cascade")
      => g.compact \/ g.trigger # 0

ASSUME CountsAssumption == Counts \subseteq Nat

ASSUME LivesAssumption == MaxLives \in Nat

VARIABLES
  pc,            \* idle, round, trigger, visit, inside, end
  group,         \* the group being run
  on,            \* its passes whose flag is on and that are not disabled
  iter, p,       \* rounds begun, pass whose turn it is
  changed,       \* round_changes # 0
  clean,         \* last_clean_gen
  generation,    \* ctx->generation, 0 where there is no context
  n, work,       \* the IR
  optgen,        \* ir->opt_generation
  feat,          \* ir->fn_features: its generation, and whether it is current
  frame,         \* ir->frame_ptr: the same, n, and whether there is one
  lives          \* contexts created

vars == <<pc, group, on, iter, p, changed, clean, generation, n, work,
          optgen, feat, frame, lives>>

Passes == 1 .. group.count

Init ==
  /\ pc = "idle" /\ group \in Groups /\ on = {} /\ iter = 0 /\ p = 0
  /\ changed = FALSE /\ clean = [q \in Passes |-> 0]
  /\ generation = 0
  /\ n \in Counts /\ work = [q \in Passes |-> FALSE]
  /\ optgen = 0
  /\ feat = [gen |-> 0, fresh |-> FALSE]
  /\ frame = [there |-> FALSE, gen |-> 0, n |-> 0, fresh |-> FALSE]
  /\ lives = 0

-----------------------------------------------------------------------------
(* The IR and its caches. *)

(* The IR becomes another one; the caches do not notice. *)
Mutate ==
  /\ n' \in Counts
  /\ work' \in [Passes -> BOOLEAN]
  /\ feat' = [feat EXCEPT !.fresh = FALSE]
  /\ frame' = [frame EXCEPT !.fresh = FALSE]

tcc_ir_opt_ctx_invalidate == generation' = generation + 1

FeaturesHit == optgen # 0 /\ feat.gen = optgen

FrameHit == frame.there /\ optgen # 0 /\ frame.gen = optgen /\ frame.n = n

-----------------------------------------------------------------------------
(* The life of a context. *)

tcc_ir_opt_ctx_init ==
  /\ generation' = 1
  /\ feat' = [feat EXCEPT !.gen = 0]
  /\ optgen' = 0

Begin(g) ==
  /\ pc = "idle" /\ lives < MaxLives
  /\ lives' = lives + 1
  /\ group' = g
  /\ on' \in SUBSET (1 .. g.count)
  /\ work' \in [1 .. g.count -> BOOLEAN]
  /\ clean' = [q \in 1 .. g.count |-> 0]
  /\ iter' = 0 /\ p' = 0 /\ changed' = FALSE
  /\ pc' = "round"
  /\ tcc_ir_opt_ctx_init
  /\ UNCHANGED <<n, frame>>

(* The context and the driver's locals are gone; which passes of the next  *)
(* group have work is chosen when it begins.                               *)
tcc_ir_opt_ctx_free ==
  /\ pc = "end"
  /\ pc' = "idle"
  /\ feat' = [feat EXCEPT !.gen = 0]
  /\ optgen' = 0
  /\ on' = {} /\ iter' = 0 /\ p' = 0 /\ changed' = FALSE
  /\ clean' = [q \in Passes |-> 0] /\ work' = [q \in Passes |-> FALSE]
  /\ generation' = 0
  /\ UNCHANGED <<group, n, frame, lives>>

(* Between two contexts the passes that function_pipeline.c calls directly *)
(* change the IR.                                                          *)
Outside ==
  /\ pc = "idle" /\ lives \in 1 .. (MaxLives - 1)
  /\ n' \in Counts
  /\ feat' = [feat EXCEPT !.fresh = FALSE]
  /\ frame' = [frame EXCEPT !.fresh = FALSE]
  /\ UNCHANGED <<pc, group, on, iter, p, changed, clean, generation, work,
                 optgen, lives>>

-----------------------------------------------------------------------------
(* The group driver. *)

(* Mutant: one round too many. *)
RoundTooMany ==
  /\ pc = "round"
  /\ IF iter > group.iterations \/ group.trigger \notin on \cup {0}
       THEN pc' = "end" /\ UNCHANGED <<iter, p, changed>>
       ELSE /\ iter' = iter + 1 /\ changed' = FALSE
            /\ p' = IF group.trigger = 0 THEN 1 ELSE group.trigger
            /\ pc' = IF group.trigger = 0 THEN "visit" ELSE "trigger"
  /\ UNCHANGED <<group, on, clean, generation, n, work, optgen, feat, frame,
                 lives>>

(* A round begins with the trigger, if there is one that is on. *)
Round ==
  /\ pc = "round"
  /\ IF iter = group.iterations \/ group.trigger \notin on \cup {0}
       THEN pc' = "end" /\ UNCHANGED <<iter, p, changed>>
       ELSE /\ iter' = iter + 1 /\ changed' = FALSE
            /\ p' = IF group.trigger = 0 THEN 1 ELSE group.trigger
            /\ pc' = IF group.trigger = 0 THEN "visit" ELSE "trigger"
  /\ UNCHANGED <<group, on, clean, generation, n, work, optgen, feat, frame,
                 lives>>

(* Mutant: a pass that was clean once is never asked again. *)
SkippedForever(q) == clean[q] # 0

(* Passes that have no turn now: the trigger, one whose flag is off, one   *)
(* that ran clean at this generation.                                      *)
Skipped(q) == clean[q] = generation

(* Mutant: the loop goes on without moving to the next pass. *)
PassStuck ==
  /\ pc = "visit" /\ p <= group.count
  /\ p = group.trigger \/ p \notin on \/ Skipped(p)
  /\ UNCHANGED vars

Pass ==
  /\ pc = "visit" /\ p <= group.count
  /\ p = group.trigger \/ p \notin on \/ Skipped(p)
  /\ p' = p + 1
  /\ UNCHANGED <<pc, group, on, iter, changed, clean, generation, n, work,
                 optgen, feat, frame, lives>>

(* pipeline_call: a plain pass may use the caches of this generation. *)
pipeline_call ==
  /\ \/ pc = "trigger"
     \/ pc = "visit" /\ p <= group.count /\ p # group.trigger
        /\ p \in on /\ ~Skipped(p)
  /\ pc' = "inside"
  /\ optgen' = IF group.kind[p] = "plain" THEN generation ELSE optgen
  /\ UNCHANGED <<group, on, iter, p, changed, clean, generation, n, work, feat,
                 frame, lives>>

(* Asked inside a pass, before it changes anything, or outside a context. *)
ir_opt_fn_features ==
  /\ pc \in {"inside", "idle"}
  /\ feat' = IF FeaturesHit THEN feat ELSE [gen |-> optgen, fresh |-> TRUE]
  /\ UNCHANGED <<pc, group, on, iter, p, changed, clean, generation, n, work,
                 optgen, frame, lives>>

(* Outside a context dse is also called directly, by regalloc_entry.c. *)
ir_opt_frame_ptr ==
  /\ \/ pc = "idle"
     \/ pc = "inside" /\ p \in group.facts
  /\ frame' = IF FrameHit
                THEN frame
                ELSE [there |-> TRUE, gen |-> optgen, n |-> n, fresh |-> TRUE]
  /\ UNCHANGED <<pc, group, on, iter, p, changed, clean, generation, n, work,
                 optgen, feat, lives>>

(* A pass that runs generators on a context of its own: its ctx_init and   *)
(* ctx_free reset what the engine left in the IR.                          *)
NestedContext ==
  /\ pc = "inside"
  /\ feat' = [feat EXCEPT !.gen = 0]
  /\ optgen' = 0
  /\ UNCHANGED <<pc, group, on, iter, p, changed, clean, generation, n, work,
                 frame, lives>>

(* Where the driver goes after pass p: an idle trigger ends the group.     *)
After(reported) ==
  /\ optgen' = 0
  /\ changed' = (changed \/ reported)
  /\ IF p = group.trigger
       THEN IF reported THEN pc' = "visit" /\ p' = 1
                        ELSE pc' = "end" /\ UNCHANGED p
       ELSE pc' = "visit" /\ p' = p + 1

(* Mutant: a reported change does not invalidate. *)
ReportsUnseen ==
  /\ pc = "inside" /\ work[p]
  /\ Mutate
  /\ After(TRUE)
  /\ UNCHANGED <<group, on, iter, clean, generation, lives>>

(* The pass changed the IR and says so. *)
Reports ==
  /\ pc = "inside" /\ work[p]
  /\ Mutate /\ tcc_ir_opt_ctx_invalidate
  /\ After(TRUE)
  /\ UNCHANGED <<group, on, iter, clean, lives>>

(* The pass had nothing to do: it is clean at this generation. *)
RunsClean ==
  /\ pc = "inside" /\ ~work[p]
  /\ After(FALSE)
  /\ clean' = IF p = group.trigger THEN clean
                                   ELSE [clean EXCEPT ![p] = generation]
  /\ UNCHANGED <<group, on, iter, generation, n, work, feat, frame, lives>>

(* A cascade changed the IR, invalidated and reports nothing: CASCADE_END. *)
Silent ==
  /\ pc = "inside" /\ work[p] /\ group.kind[p] = "cascade"
  /\ Mutate /\ tcc_ir_opt_ctx_invalidate
  /\ After(FALSE)
  /\ clean' = IF p = group.trigger THEN clean
                                   ELSE [clean EXCEPT ![p] = generation']
  /\ UNCHANGED <<group, on, iter, lives>>

(* Mutant: compaction moves the instructions and does not say so. *)
RoundEndsUnseen ==
  /\ pc = "visit" /\ p > group.count
  /\ pc' = IF changed THEN "round" ELSE "end"
  /\ IF changed /\ group.compact
       THEN Mutate
       ELSE UNCHANGED <<n, work, feat, frame>>
  /\ UNCHANGED <<group, on, iter, p, changed, clean, generation, optgen,
                 lives>>

(* The end of a round: compact, then go on or stop. *)
RoundEnds ==
  /\ pc = "visit" /\ p > group.count
  /\ pc' = IF changed THEN "round" ELSE "end"
  /\ IF changed /\ group.compact
       THEN Mutate /\ tcc_ir_opt_ctx_invalidate
       ELSE UNCHANGED <<generation, n, work, feat, frame>>
  /\ UNCHANGED <<group, on, iter, p, changed, clean, optgen, lives>>

Next ==
  \/ \E g \in Groups : Begin(g)
  \/ tcc_ir_opt_ctx_free
  \/ Outside
  \/ Round
  \/ Pass
  \/ pipeline_call
  \/ ir_opt_fn_features
  \/ ir_opt_frame_ptr
  \/ NestedContext
  \/ Reports
  \/ RunsClean
  \/ Silent
  \/ RoundEnds

(* The program runs on: a context that was created is driven to its end.   *)
Driver == Round \/ Pass \/ pipeline_call \/ Reports \/ RunsClean \/ Silent
          \/ RoundEnds \/ tcc_ir_opt_ctx_free

Spec == Init /\ [][Next]_vars /\ WF_vars(Driver)

-----------------------------------------------------------------------------
(* The variables have their shape. *)
TypeOK ==
  /\ pc \in {"idle", "round", "trigger", "visit", "inside", "end"}
  /\ group \in Groups /\ on \subseteq Passes
  /\ iter \in 0 .. group.iterations /\ p \in 0 .. (group.count + 1)
  /\ clean \in [Passes -> Nat] /\ work \in [Passes -> BOOLEAN]
  /\ changed \in BOOLEAN /\ n \in Counts /\ optgen \in Nat
  /\ lives \in 0 .. MaxLives
  /\ generation \in Nat
  /\ feat \in [gen : Nat, fresh : BOOLEAN]
  /\ frame \in [there : BOOLEAN, gen : Nat, n : Nat, fresh : BOOLEAN]

(* The driver never skips a pass that would have changed the IR: the       *)
(* generation reaches every change, also those a cascade does not report.  *)
SkipIsSound ==
  (/\ pc = "visit" /\ p <= group.count /\ p \in on /\ p # group.trigger
   /\ Skipped(p)) => ~work[p]

(* When a plain pass finds the opcode features cached, they are those of   *)
(* the IR it sees, also in a context whose count started again at 1.       *)
FeaturesFresh == (pc = "inside" /\ FeaturesHit) => feat.fresh

(* A group without a trigger that stops before its limit has reached a     *)
(* fixpoint: none of its passes would change the IR.  Skips are included.  *)
FixpointReached ==
  (/\ pc = "end" /\ group.trigger = 0 /\ ~changed
   /\ \A q \in Passes : group.kind[q] # "cascade") => \A q \in on : ~work[q]

(* Every group ends, however its passes feed each other. *)
GroupEnds == pc = "round" ~> pc = "idle"

(* The points-to facts a plain pass finds cached are those of the IR it    *)
(* sees, as long as the first context lives.  A later one counts from 1    *)
(* again and ctx_init leaves frame_ptr_gen alone, so it may find facts of  *)
(* an earlier one.                                                         *)
FirstFactsFresh == (lives = 1 /\ pc = "inside" /\ FrameHit) => frame.fresh
=============================================================================
