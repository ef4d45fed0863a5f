-------------------------- MODULE PassEngineProofs --------------------------
(***************************************************************************)
(* For every set of groups in which a pass that hides changes belongs to a *)
(* group with a trigger or with compact_after: the driver skips no pass    *)
(* that has work, serves no stale opcode features, no stale points-to      *)
(* facts in the first context, and stops only at a fixpoint.               *)
(***************************************************************************)
EXTENDS PassEngine, TLAPS

(* Some pass of g may change the IR and report nothing. *)
Hides(g) == \E q \in 1 .. g.count : g.kind[q] = "cascade"

(* Where the driver is determines what p and the generation are. *)
Place ==
  /\ pc = "idle" <=> generation = 0
  /\ pc = "trigger" => p = group.trigger /\ p \in Passes
  /\ pc = "visit" => p \in 1 .. (group.count + 1)
  /\ pc = "inside" => p \in Passes
  /\ pc = "inside" \/ optgen = 0
  /\ optgen = 0 \/ optgen = generation

(* A pass may be recorded as clean and have work only when the generation  *)
(* moves before its next turn: it had its turn in this round, or a trigger *)
(* stands between it and the next one.                                     *)
Excused(q) ==
  /\ Hides(group)
  /\ \/ pc = "visit" /\ q < p
     \/ pc = "inside" /\ (q < p \/ p = group.trigger)
     \/ pc = "trigger"
     \/ pc = "round" /\ group.trigger # 0

CleanInv ==
  \A q \in Passes :
    /\ clean[q] <= generation
    /\ (pc \notin {"idle", "end"} /\ clean[q] = generation /\ work[q])
         => Excused(q)

(* Features recorded at the current generation describe the current IR. *)
FeaturesInv ==
  /\ feat.gen <= generation
  /\ (pc # "idle" /\ feat.gen = generation) => feat.fresh

(* Until the first context ends, points-to facts recorded at the current   *)
(* generation describe the current IR.                                     *)
FrameInv ==
  /\ lives = 0 => pc = "idle" /\ frame.gen = 0
  /\ (lives = 1 /\ pc # "idle")
       => frame.gen <= generation /\ (frame.gen = generation => frame.fresh)

(* A round in which nothing was reported, in a group that hides nothing:   *)
(* the passes that had their turn have no work.                            *)
Quiet == group.trigger = 0 /\ ~changed /\ ~Hides(group)

FixpointInv ==
  /\ (pc = "round" /\ iter > 0) => changed
  /\ (pc \in {"visit", "inside"} /\ Quiet) => \A q \in on : q < p => ~work[q]
  /\ (pc = "end" /\ Quiet) => \A q \in on : ~work[q]

IInv ==
  TypeOK /\ Place /\ CleanInv /\ FeaturesInv /\ FrameInv /\ FixpointInv

-----------------------------------------------------------------------------
(* Every group of the tables, and so the one being run, has its shape. *)
LEMMA GroupShape ==
  ASSUME TypeOK
  PROVE  IsGroup(group)
BY GroupsAssumption DEF TypeOK

(* The shape of the state in three parts: the driver's position, the       *)
(* Boolean data, the counters and caches.                                  *)
DriverType ==
  /\ pc \in {"idle", "round", "trigger", "visit", "inside", "end"}
  /\ group \in Groups /\ on \subseteq Passes
  /\ iter \in 0 .. group.iterations /\ p \in 0 .. (group.count + 1)
  /\ lives \in 0 .. MaxLives

FlagType == changed \in BOOLEAN /\ work \in [Passes -> BOOLEAN]

CountType ==
  /\ clean \in [Passes -> Nat] /\ n \in Counts /\ optgen \in Nat
  /\ generation \in Nat

CacheType ==
  /\ feat \in [gen : Nat, fresh : BOOLEAN]
  /\ frame \in [there : BOOLEAN, gen : Nat, n : Nat, fresh : BOOLEAN]

(* The type invariant, part by part. *)
LEMMA TypeParts == TypeOK <=> DriverType /\ FlagType /\ CountType /\ CacheType
BY DEF TypeOK, DriverType, FlagType, CountType, CacheType

(* The same after a step. *)
LEMMA TypePartsNext ==
  TypeOK' <=> DriverType' /\ FlagType' /\ CountType' /\ CacheType'
BY DEF TypeOK, DriverType, FlagType, CountType, CacheType

(* Setting fields of a cache keeps its shape. *)
LEMMA FeatureFields ==
  ASSUME NEW f \in [gen : Nat, fresh : BOOLEAN]
  PROVE  /\ [f EXCEPT !.gen = 0] \in [gen : Nat, fresh : BOOLEAN]
         /\ [f EXCEPT !.fresh = FALSE] \in [gen : Nat, fresh : BOOLEAN]
         /\ [f EXCEPT !.gen = 0].gen = 0
         /\ [f EXCEPT !.fresh = FALSE].gen = f.gen
BY Zenon

(* Setting the staleness of a frame keeps its shape. *)
LEMMA FrameFields ==
  ASSUME NEW f \in [there : BOOLEAN, gen : Nat, n : Nat, fresh : BOOLEAN]
  PROVE  /\ [f EXCEPT !.fresh = FALSE]
              \in [there : BOOLEAN, gen : Nat, n : Nat, fresh : BOOLEAN]
         /\ [f EXCEPT !.fresh = FALSE].gen = f.gen
BY Zenon

(* Whatever changes the IR keeps the shape of the IR and of its caches. *)
LEMMA MutateType ==
  ASSUME TypeOK, Mutate
  PROVE  n' \in Counts /\ work' \in [Passes -> BOOLEAN] /\ CacheType'
BY FeatureFields, FrameFields, Zenon DEF TypeOK, Mutate, CacheType

(* A pass ends: the driver is somewhere it can be. *)
LEMMA AfterType ==
  ASSUME TypeOK, Place, pc = "inside", NEW r \in BOOLEAN, After(r),
         UNCHANGED <<group, on, iter, lives>>
  PROVE  DriverType' /\ changed' \in BOOLEAN
<1>1. DriverType'
  BY GroupShape DEF TypeOK, Place, After, DriverType, Passes, IsGroup
<1>2. changed' \in BOOLEAN
  BY Zenon DEF After
<1> QED
  BY <1>1, <1>2

(* tcc_ir_opt_run_group and its callees keep the shape of the state. *)
LEMMA TypeInit == Init => TypeOK
<1> SUFFICES ASSUME Init PROVE TypeOK
  OBVIOUS
<1>1. DriverType
  BY GroupsAssumption, LivesAssumption DEF Init, DriverType, Passes, IsGroup
<1>2. FlagType
  BY Zenon DEF Init, FlagType
<1>3. CountType
  BY DEF Init, CountType
<1>4. CacheType
  BY DEF Init, CacheType
<1> QED
  BY <1>1, <1>2, <1>3, <1>4, TypeParts

(* Every step keeps the shape of the state. *)
LEMMA TypeNext == TypeOK /\ Place /\ [Next]_vars => TypeOK'
<1> SUFFICES ASSUME TypeOK, Place, [Next]_vars PROVE TypeOK'
  OBVIOUS
<1>g. IsGroup(group)
  BY GroupShape
<1>1. ASSUME NEW g \in Groups, Begin(g) PROVE TypeOK'
  <2>1. IsGroup(g)
    BY GroupsAssumption
  <2>2. DriverType'
    <3>1. group' = g /\ on' \subseteq 1 .. g.count /\ Passes' = 1 .. g.count
      BY <1>1 DEF Begin, Passes
    <3>2. pc' = "round" /\ iter' = 0 /\ p' = 0
      BY <1>1 DEF Begin
    <3>3. lives' \in 0 .. MaxLives
      BY <1>1, LivesAssumption DEF Begin, TypeOK
    <3> QED
      BY <2>1, <3>1, <3>2, <3>3 DEF DriverType, IsGroup
  <2>3. FlagType'
    BY <1>1, Zenon DEF Begin, FlagType, Passes
  <2>4. CountType'
    BY <1>1 DEF Begin, tcc_ir_opt_ctx_init, TypeOK, CountType, Passes
  <2>5. CacheType'
    BY <1>1, FeatureFields DEF Begin, tcc_ir_opt_ctx_init, TypeOK, CacheType
  <2> QED
    BY <2>2, <2>3, <2>4, <2>5, TypePartsNext
<1>2. CASE tcc_ir_opt_ctx_free
  <2>1. DriverType'
    BY <1>2, <1>g DEF tcc_ir_opt_ctx_free, TypeOK, DriverType, Passes, IsGroup
  <2>2. FlagType'
    BY <1>2, Zenon DEF tcc_ir_opt_ctx_free, FlagType, Passes
  <2>3. CountType'
    BY <1>2 DEF tcc_ir_opt_ctx_free, TypeOK, CountType, Passes
  <2>4. CacheType'
    BY <1>2, FeatureFields DEF tcc_ir_opt_ctx_free, TypeOK, CacheType
  <2> QED
    BY <2>1, <2>2, <2>3, <2>4, TypePartsNext
<1>3. CASE Outside
  BY <1>3, Zenon DEF Outside, TypeOK, Passes
<1>4. CASE Round
  <2>1. DriverType'
    <3> DEFINE rounds == group.iterations
               count == group.count
               trigger == group.trigger
    <3>1. group' = group /\ on' = on /\ lives' = lives
      BY <1>4, Zenon DEF Round
    <3>2. rounds \in Nat /\ count \in Nat \ {0} /\ trigger \in 0 .. count
      BY <1>g, Zenon DEF IsGroup
    <3>3. /\ group \in Groups /\ on \subseteq Passes /\ lives \in 0 .. MaxLives
          /\ iter \in 0 .. rounds /\ p \in 0 .. (count + 1)
      BY Zenon DEF TypeOK
    <3>4. pc' \in {"end", "visit", "trigger"}
      BY <1>4, Zenon DEF Round
    <3>5. \/ iter' = iter /\ p' = p
          \/ iter # rounds /\ iter' = iter + 1 /\ p' \in {1, trigger}
      BY <1>4, Zenon DEF Round
    <3> HIDE DEF rounds, count, trigger
    <3>6. iter' \in 0 .. rounds /\ p' \in 0 .. (count + 1)
      BY <3>2, <3>3, <3>5
    <3>7. pc' \in {"idle", "round", "trigger", "visit", "inside", "end"}
      BY <3>4
    <3> QED
      BY <3>1, <3>3, <3>6, <3>7, Zenon DEF DriverType, Passes, rounds, count
  <2>2. changed' \in BOOLEAN
    BY <1>4, Zenon DEF Round, TypeOK
  <2>3. work' \in [Passes' -> BOOLEAN] /\ CountType' /\ CacheType'
    BY <1>4 DEF Round, TypeOK, CountType, CacheType, Passes
  <2> QED
    BY <2>1, <2>2, <2>3, TypePartsNext DEF FlagType
<1>5. CASE Pass
  BY <1>5, <1>g DEF Pass, TypeOK, Passes, IsGroup
<1>6. CASE pipeline_call
  BY <1>6 DEF pipeline_call, TypeOK, Passes
<1>7. CASE ir_opt_fn_features
  BY <1>7 DEF ir_opt_fn_features, TypeOK, Passes
<1>8. CASE ir_opt_frame_ptr
  BY <1>8, CountsAssumption DEF ir_opt_frame_ptr, TypeOK, Passes
<1>9. CASE NestedContext
  BY <1>9 DEF NestedContext, TypeOK, Passes
<1>10. CASE Reports
  <2>1. DriverType' /\ changed' \in BOOLEAN
    BY <1>10, AfterType, Zenon DEF Reports
  <2>2. work' \in [Passes' -> BOOLEAN] /\ CacheType'
    BY <1>10, MutateType DEF Reports, Passes
  <2>3. CountType'
    BY <1>10, MutateType DEF Reports, After, tcc_ir_opt_ctx_invalidate,
                             TypeOK, CountType, Passes
  <2> QED
    BY <2>1, <2>2, <2>3, TypePartsNext DEF FlagType
<1>11. CASE RunsClean
  BY <1>11, <1>g DEF RunsClean, After, TypeOK, Place, Passes, IsGroup
<1>12. CASE Silent
  <2>1. DriverType' /\ changed' \in BOOLEAN
    BY <1>12, AfterType, Zenon DEF Silent
  <2>2. work' \in [Passes' -> BOOLEAN] /\ CacheType'
    BY <1>12, MutateType DEF Silent, Passes
  <2>3. generation' \in Nat /\ n' \in Counts /\ optgen' \in Nat
    BY <1>12, MutateType DEF Silent, After, tcc_ir_opt_ctx_invalidate, TypeOK
  <2>4. clean' \in [Passes' -> Nat]
    BY <1>12, <2>3, Zenon DEF Silent, TypeOK, Passes
  <2>5. CountType'
    BY <2>3, <2>4 DEF CountType
  <2> QED
    BY <2>1, <2>2, <2>5, TypePartsNext DEF FlagType
<1>13. CASE RoundEnds
  <2>1. DriverType' /\ changed' \in BOOLEAN
    BY <1>13 DEF RoundEnds, TypeOK, DriverType, Passes
  <2>2. CASE changed /\ group.compact
    <3>1. Mutate /\ tcc_ir_opt_ctx_invalidate
      BY <1>13, <2>2 DEF RoundEnds
    <3>2. work' \in [Passes' -> BOOLEAN] /\ CacheType'
      BY <1>13, <3>1, MutateType DEF RoundEnds, Passes
    <3>3. CountType'
      BY <1>13, <3>1, MutateType DEF RoundEnds, tcc_ir_opt_ctx_invalidate,
                                     TypeOK, CountType, Passes
    <3> QED
      BY <2>1, <3>2, <3>3, TypePartsNext DEF FlagType
  <2>3. CASE ~(changed /\ group.compact)
    BY <1>13, <2>3 DEF RoundEnds, TypeOK, Passes
  <2> QED
    BY <2>2, <2>3
<1>14. CASE UNCHANGED vars
  BY <1>14 DEF vars, TypeOK, Passes
<1> QED
  BY <1>1, <1>2, <1>3, <1>4, <1>5, <1>6, <1>7, <1>8, <1>9, <1>10, <1>11,
     <1>12, <1>13, <1>14 DEF Next

(* tcc_ir_opt_run_group: between two calls pc, p and the generation fit. *)
LEMMA PlaceNext == TypeOK /\ Place /\ [Next]_vars => Place'
<1> SUFFICES ASSUME TypeOK, Place, [Next]_vars PROVE Place'
  OBVIOUS
<1>g. IsGroup(group)
  BY GroupShape
<1>1. ASSUME NEW g \in Groups, Begin(g) PROVE Place'
  BY <1>1 DEF Begin, tcc_ir_opt_ctx_init, Place, Passes
<1>2. CASE tcc_ir_opt_ctx_free
  BY <1>2 DEF tcc_ir_opt_ctx_free, Place, Passes
<1>3. CASE Outside
  BY <1>3 DEF Outside, Place, Passes
<1>4. CASE Round
  BY <1>4, <1>g DEF Round, TypeOK, Place, Passes, IsGroup
<1>5. CASE Pass
  BY <1>5, <1>g DEF Pass, TypeOK, Place, Passes, IsGroup
<1>6. CASE pipeline_call
  BY <1>6, <1>g DEF pipeline_call, TypeOK, Place, Passes, IsGroup
<1>7. CASE ir_opt_fn_features
  BY <1>7 DEF ir_opt_fn_features, Place, Passes
<1>8. CASE ir_opt_frame_ptr
  BY <1>8 DEF ir_opt_frame_ptr, Place, Passes
<1>9. CASE NestedContext
  BY <1>9 DEF NestedContext, Place, Passes
<1>10. CASE Reports
  BY <1>10, <1>g DEF Reports, After, tcc_ir_opt_ctx_invalidate, TypeOK, Place,
                     Passes, IsGroup
<1>11. CASE RunsClean
  BY <1>11, <1>g DEF RunsClean, After, TypeOK, Place, Passes, IsGroup
<1>12. CASE Silent
  BY <1>12, <1>g DEF Silent, After, tcc_ir_opt_ctx_invalidate, TypeOK, Place,
                     Passes, IsGroup
<1>13. CASE RoundEnds
  BY <1>13, <1>g DEF RoundEnds, tcc_ir_opt_ctx_invalidate, TypeOK, Place,
                     Passes, IsGroup
<1>14. CASE UNCHANGED vars
  BY <1>14 DEF vars, Place, Passes
<1> QED
  BY <1>1, <1>2, <1>3, <1>4, <1>5, <1>6, <1>7, <1>8, <1>9, <1>10, <1>11,
     <1>12, <1>13, <1>14 DEF Next

(* An invalidation puts every recorded clean generation in the past. *)
LEMMA InvalidateAll ==
  ASSUME TypeOK, CleanInv, tcc_ir_opt_ctx_invalidate, UNCHANGED <<group, clean>>
  PROVE  CleanInv'
BY DEF TypeOK, CleanInv, tcc_ir_opt_ctx_invalidate, Passes

(* last_clean_gen: what a recorded clean generation says of a pass. *)
LEMMA CleanNext ==
  TypeOK /\ Place /\ CleanInv /\ [Next]_vars => CleanInv'
<1> SUFFICES ASSUME TypeOK, Place, CleanInv, [Next]_vars PROVE CleanInv'
  OBVIOUS
<1>g. IsGroup(group)
  BY GroupShape
<1>1. ASSUME NEW g \in Groups, Begin(g) PROVE CleanInv'
  BY <1>1 DEF Begin, tcc_ir_opt_ctx_init, CleanInv, Passes
<1>2. CASE tcc_ir_opt_ctx_free
  BY <1>2 DEF tcc_ir_opt_ctx_free, CleanInv, Passes
<1>3. CASE Outside
  BY <1>3 DEF Outside, CleanInv, Passes
<1>4. CASE Round
  BY <1>4, <1>g DEF Round, TypeOK, CleanInv, Excused, Passes, IsGroup
<1>5. CASE Pass
  BY <1>5, <1>g DEF Pass, TypeOK, CleanInv, Excused, Passes, IsGroup
<1>6. CASE pipeline_call
  BY <1>6, <1>g DEF pipeline_call, TypeOK, Place, CleanInv, Excused, Passes,
                    IsGroup
<1>7. CASE ir_opt_fn_features
  BY <1>7 DEF ir_opt_fn_features, CleanInv, Excused, Passes
<1>8. CASE ir_opt_frame_ptr
  BY <1>8 DEF ir_opt_frame_ptr, CleanInv, Excused, Passes
<1>9. CASE NestedContext
  BY <1>9 DEF NestedContext, CleanInv, Excused, Passes
<1>10. CASE Reports
  BY <1>10, InvalidateAll DEF Reports
<1>11. CASE RunsClean
  <2>1. CASE p = group.trigger
    BY <1>11, <2>1 DEF RunsClean, After, CleanInv, Passes
  <2>2. CASE p # group.trigger
    <3>1. /\ pc' = "visit" /\ p' = p + 1 /\ p \in Passes /\ ~work[p]
          /\ clean' = [clean EXCEPT ![p] = generation]
          /\ UNCHANGED <<group, generation, work>>
      BY <1>11, <2>2 DEF RunsClean, After, Place
    <3>2. \A q \in Passes : Excused(q) => Excused(q)'
      BY <1>11, <2>2, <3>1 DEF RunsClean, TypeOK, Excused, Passes
    <3> QED
      BY <1>11, <2>2, <3>1, <3>2 DEF RunsClean, TypeOK, CleanInv, Passes
  <2> QED
    BY <2>1, <2>2
<1>12. CASE Silent
  <2>1. CASE p = group.trigger
    BY <1>12, <2>1 DEF Silent, After, tcc_ir_opt_ctx_invalidate, TypeOK,
                       CleanInv, Passes
  <2>2. CASE p # group.trigger
    <3>1. /\ pc' = "visit" /\ p' = p + 1 /\ p \in Passes
          /\ clean' = [clean EXCEPT ![p] = generation + 1]
          /\ generation' = generation + 1 /\ group' = group
      BY <1>12, <2>2 DEF Silent, After, tcc_ir_opt_ctx_invalidate, Place
    <3>2. Hides(group)
      BY <1>12, <3>1 DEF Silent, Hides, Passes
    <3>3. \A q \in Passes : q = p => Excused(q)'
      BY <3>1, <3>2 DEF Excused, Passes, TypeOK
    <3>4. \A q \in Passes : q # p => clean'[q] < generation'
      BY <3>1 DEF TypeOK, CleanInv, Passes
    <3>5. clean'[p] = generation'
      BY <3>1 DEF TypeOK
    <3> QED
      BY <3>1, <3>3, <3>4, <3>5 DEF TypeOK, CleanInv, Passes
  <2> QED
    BY <2>1, <2>2
<1>13. CASE RoundEnds
  <2>1. CASE ~changed
    BY <1>13, <2>1 DEF RoundEnds, CleanInv, Passes
  <2>2. CASE changed /\ group.compact
    BY <1>13, <2>2, InvalidateAll DEF RoundEnds
  <2>3. CASE changed /\ ~group.compact
    <3>1. Hides(group) => group.trigger # 0
      BY <2>3, CascadesAssumption DEF Hides, TypeOK
    <3> QED
      BY <1>13, <2>3, <3>1 DEF RoundEnds, CleanInv, Excused, Passes
  <2> QED
    BY <2>1, <2>2, <2>3
<1>14. CASE UNCHANGED vars
  BY <1>14 DEF vars, CleanInv, Excused, Passes
<1> QED
  BY <1>1, <1>2, <1>3, <1>4, <1>5, <1>6, <1>7, <1>8, <1>9, <1>10, <1>11,
     <1>12, <1>13, <1>14 DEF Next

(* fn_features_gen: a bumped generation leaves the recorded one behind. *)
LEMMA FeaturesBehind ==
  ASSUME TypeOK, FeaturesInv, Mutate, tcc_ir_opt_ctx_invalidate
  PROVE  FeaturesInv'
<1>1. feat'.gen = feat.gen
  BY FeatureFields DEF Mutate, TypeOK
<1> QED
  BY <1>1 DEF FeaturesInv, tcc_ir_opt_ctx_invalidate, TypeOK

(* ir_opt_fn_features: what the recorded generation says of the features. *)
LEMMA FeaturesNext ==
  TypeOK /\ Place /\ FeaturesInv /\ [Next]_vars => FeaturesInv'
<1> SUFFICES ASSUME TypeOK, Place, FeaturesInv, [Next]_vars PROVE FeaturesInv'
  OBVIOUS
<1>1. ASSUME NEW g \in Groups, Begin(g) PROVE FeaturesInv'
  <2>1. feat'.gen = 0 /\ generation' = 1
    BY <1>1, FeatureFields DEF Begin, tcc_ir_opt_ctx_init, TypeOK
  <2> QED
    BY <2>1 DEF FeaturesInv
<1>2. CASE tcc_ir_opt_ctx_free
  <2>1. feat'.gen = 0 /\ generation' = 0 /\ pc' = "idle"
    BY <1>2, FeatureFields DEF tcc_ir_opt_ctx_free, TypeOK
  <2> QED
    BY <2>1 DEF FeaturesInv
<1>3. CASE Outside
  <2>1. feat'.gen = feat.gen /\ pc' = "idle" /\ generation' = generation
    BY <1>3, FeatureFields DEF Outside, TypeOK
  <2> QED
    BY <2>1 DEF FeaturesInv
<1>4. CASE Round \/ Pass \/ pipeline_call \/ ir_opt_frame_ptr
  BY <1>4 DEF Round, Pass, pipeline_call, ir_opt_frame_ptr, FeaturesInv
<1>5. CASE ir_opt_fn_features
  <2>1. CASE FeaturesHit
    BY <1>5, <2>1 DEF ir_opt_fn_features, FeaturesInv
  <2>2. CASE ~FeaturesHit
    <3>1. feat'.gen = optgen /\ feat'.fresh
      BY <1>5, <2>2 DEF ir_opt_fn_features
    <3> QED
      BY <1>5, <3>1 DEF ir_opt_fn_features, TypeOK, Place, FeaturesInv
  <2> QED
    BY <2>1, <2>2
<1>6. CASE NestedContext
  <2>1. feat'.gen = 0 /\ UNCHANGED <<pc, generation>> /\ pc = "inside"
    BY <1>6, FeatureFields DEF NestedContext, TypeOK
  <2> QED
    BY <2>1 DEF TypeOK, Place, FeaturesInv
<1>7. CASE Reports \/ Silent
  BY <1>7, FeaturesBehind, Zenon DEF Reports, Silent
<1>8. CASE RunsClean
  BY <1>8 DEF RunsClean, FeaturesInv
<1>9. CASE RoundEnds
  <2>1. CASE changed /\ group.compact
    BY <1>9, <2>1, FeaturesBehind DEF RoundEnds
  <2>2. CASE ~(changed /\ group.compact)
    BY <1>9, <2>2 DEF RoundEnds, FeaturesInv
  <2> QED
    BY <2>1, <2>2
<1>10. CASE UNCHANGED vars
  BY <1>10 DEF vars, FeaturesInv
<1> QED
  BY <1>1, <1>2, <1>3, <1>4, <1>5, <1>6, <1>7, <1>8, <1>9, <1>10 DEF Next

(* frame_ptr_gen: a bumped generation leaves the recorded one behind. *)
LEMMA FrameBehind ==
  ASSUME TypeOK, Place, FrameInv, Mutate, tcc_ir_opt_ctx_invalidate,
         pc # "idle", UNCHANGED lives
  PROVE  FrameInv'
<1>1. frame'.gen = frame.gen
  BY FrameFields DEF Mutate, TypeOK
<1> QED
  BY <1>1 DEF FrameInv, tcc_ir_opt_ctx_invalidate, TypeOK

(* ir_opt_frame_ptr: what the recorded generation says of the facts, while *)
(* no second context has started to count from 1 again.                    *)
LEMMA FrameNext ==
  TypeOK /\ Place /\ FrameInv /\ [Next]_vars => FrameInv'
<1> SUFFICES ASSUME TypeOK, Place, FrameInv, [Next]_vars PROVE FrameInv'
  OBVIOUS
<1>1. ASSUME NEW g \in Groups, Begin(g) PROVE FrameInv'
  BY <1>1 DEF Begin, tcc_ir_opt_ctx_init, TypeOK, FrameInv
<1>2. CASE tcc_ir_opt_ctx_free
  BY <1>2 DEF tcc_ir_opt_ctx_free, FrameInv
<1>3. CASE Outside
  BY <1>3 DEF Outside, FrameInv
<1>4. CASE Round \/ Pass \/ pipeline_call \/ ir_opt_fn_features
  BY <1>4 DEF Round, Pass, pipeline_call, ir_opt_fn_features, FrameInv
<1>5. CASE ir_opt_frame_ptr
  <2>1. CASE FrameHit
    BY <1>5, <2>1 DEF ir_opt_frame_ptr, FrameInv
  <2>2. CASE ~FrameHit
    <3>1. frame'.gen = optgen /\ frame'.fresh
      BY <1>5, <2>2 DEF ir_opt_frame_ptr
    <3> QED
      BY <1>5, <3>1 DEF ir_opt_frame_ptr, TypeOK, Place, FrameInv
  <2> QED
    BY <2>1, <2>2
<1>6. CASE NestedContext \/ RunsClean
  BY <1>6, Zenon DEF NestedContext, RunsClean, FrameInv
<1>7. CASE Reports \/ Silent
  BY <1>7, FrameBehind, Zenon DEF Reports, Silent
<1>8. CASE RoundEnds
  <2>1. CASE changed /\ group.compact
    BY <1>8, <2>1, FrameBehind DEF RoundEnds
  <2>2. CASE ~(changed /\ group.compact)
    BY <1>8, <2>2 DEF RoundEnds, FrameInv
  <2> QED
    BY <2>1, <2>2
<1>9. CASE UNCHANGED vars
  BY <1>9 DEF vars, FrameInv
<1> QED
  BY <1>1, <1>2, <1>3, <1>4, <1>5, <1>6, <1>7, <1>8, <1>9 DEF Next

(* The pass whose turn it is has no excuse. *)
LEMMA SkipFromClean ==
  ASSUME TypeOK, Place, CleanInv
  PROVE  SkipIsSound
BY GroupShape DEF TypeOK, Place, CleanInv, Excused, SkipIsSound, Skipped,
                  Passes, IsGroup

(* round_changes: a round without changes leaves no pass with work. *)
LEMMA FixpointNext ==
  TypeOK /\ Place /\ CleanInv /\ FixpointInv /\ [Next]_vars => FixpointInv'
<1> SUFFICES ASSUME TypeOK, Place, CleanInv, FixpointInv, [Next]_vars
             PROVE  FixpointInv'
  OBVIOUS
<1>g. IsGroup(group)
  BY GroupShape
<1>1. ASSUME NEW g \in Groups, Begin(g) PROVE FixpointInv'
  BY <1>1 DEF Begin, FixpointInv
<1>2. CASE tcc_ir_opt_ctx_free
  BY <1>2 DEF tcc_ir_opt_ctx_free, FixpointInv
<1>3. CASE Outside
  BY <1>3 DEF Outside, FixpointInv
<1>4. CASE Round
  <2>1. CASE pc' = "end"
    <3>1. UNCHANGED <<group, changed>>
      BY <1>4, <2>1 DEF Round
    <3>2. group.trigger # 0 \/ iter = group.iterations
      BY <1>4, <2>1 DEF Round
    <3>3. group.trigger # 0 \/ changed
      BY <1>4, <1>g, <3>2 DEF Round, FixpointInv, TypeOK, IsGroup
    <3> QED
      BY <2>1, <3>1, <3>3 DEF FixpointInv, Quiet
  <2>2. CASE pc' = "visit"
    <3>1. p' = 1 /\ UNCHANGED <<group, on>>
      BY <1>4, <2>2 DEF Round
    <3>2. \A q \in on : ~(q < 1)
      BY DEF TypeOK, Passes
    <3> QED
      BY <2>2, <3>1, <3>2 DEF FixpointInv
  <2>3. CASE pc' = "trigger"
    BY <2>3 DEF FixpointInv
  <2> QED
    BY <1>4, <2>1, <2>2, <2>3 DEF Round
<1>5. CASE Pass
  <2>1. Quiet => p \notin on \/ ~work[p]
    BY <1>5, <1>g, SkipFromClean DEF Pass, Quiet, SkipIsSound, TypeOK, Place,
                                     IsGroup
  <2>2. /\ pc = "visit" /\ pc' = "visit" /\ p' = p + 1
        /\ UNCHANGED <<group, on, changed, work>>
    BY <1>5 DEF Pass
  <2>3. Quiet' = Quiet
    BY <2>2 DEF Quiet
  <2>4. \A q \in on : q < p + 1 => q < p \/ q = p
    BY DEF TypeOK, Passes
  <2> QED
    BY <2>1, <2>2, <2>3, <2>4 DEF FixpointInv
<1>6. CASE pipeline_call
  <2>1. pc' = "inside" /\ UNCHANGED <<group, on, p, changed, work>>
    BY <1>6 DEF pipeline_call
  <2>2. pc = "visit" \/ group.trigger # 0
    BY <1>6 DEF pipeline_call, Place, Passes
  <2>3. Quiet' = Quiet
    BY <2>1 DEF Quiet
  <2> QED
    BY <2>1, <2>2, <2>3 DEF FixpointInv, Quiet
<1>7. CASE ir_opt_fn_features
  BY <1>7 DEF ir_opt_fn_features, FixpointInv, Quiet
<1>8. CASE ir_opt_frame_ptr
  BY <1>8 DEF ir_opt_frame_ptr, FixpointInv, Quiet
<1>9. CASE NestedContext
  BY <1>9 DEF NestedContext, FixpointInv, Quiet
<1>10. CASE Reports
  <2>1. changed'
    BY <1>10, Zenon DEF Reports, After
  <2> QED
    BY <1>10, <2>1 DEF Reports, After, FixpointInv, Quiet
<1>11. CASE RunsClean
  <2>1. changed' = changed
    BY <1>11, Zenon DEF RunsClean, After, TypeOK
  <2>2. ~work[p] /\ UNCHANGED <<group, on, work>>
    BY <1>11 DEF RunsClean
  <2>3. Quiet' = Quiet
    BY <2>1, <2>2 DEF Quiet
  <2>4. CASE p = group.trigger
    BY <1>11, <1>g, <2>3, <2>4 DEF RunsClean, After, FixpointInv, Quiet,
                                   Place, Passes, IsGroup
  <2>5. CASE p # group.trigger
    <3>1. pc = "inside" /\ pc' = "visit" /\ p' = p + 1
      BY <1>11, <2>5 DEF RunsClean, After
    <3>2. \A q \in on : q < p + 1 => q < p \/ q = p
      BY DEF TypeOK, Passes
    <3> QED
      BY <2>2, <2>3, <3>1, <3>2 DEF FixpointInv
  <2> QED
    BY <2>4, <2>5
<1>12. CASE Silent
  <2>1. Hides(group) /\ group' = group
    BY <1>12 DEF Silent, Hides, Place, Passes
  <2>2. ~Quiet'
    BY <2>1 DEF Quiet
  <2> QED
    BY <1>12, <2>2 DEF Silent, After, FixpointInv
<1>13. CASE RoundEnds
  <2>1. CASE changed
    BY <1>13, <2>1 DEF RoundEnds, FixpointInv
  <2>2. CASE ~changed
    <3>1. /\ pc = "visit" /\ pc' = "end" /\ p > group.count
          /\ UNCHANGED <<group, on, changed, work>>
      BY <1>13, <2>2 DEF RoundEnds
    <3>2. Quiet' = Quiet
      BY <3>1 DEF Quiet
    <3>3. \A q \in on : q < p
      BY <1>g, <3>1 DEF TypeOK, Passes, IsGroup
    <3> QED
      BY <3>1, <3>2, <3>3 DEF FixpointInv
  <2> QED
    BY <2>1, <2>2
<1>14. CASE UNCHANGED vars
  BY <1>14 DEF vars, FixpointInv, Quiet
<1> QED
  BY <1>1, <1>2, <1>3, <1>4, <1>5, <1>6, <1>7, <1>8, <1>9, <1>10, <1>11,
     <1>12, <1>13, <1>14 DEF Next

-----------------------------------------------------------------------------
(* The driver starts in order, and every step of it keeps order. *)
LEMMA Inductive == Spec => []IInv
<1>1. Init => IInv
  <2> SUFFICES ASSUME Init PROVE IInv
    OBVIOUS
  <2>1. TypeOK
    BY TypeInit
  <2>2. Place /\ CleanInv /\ FeaturesInv /\ FrameInv /\ FixpointInv
    BY DEF Init, Place, CleanInv, FeaturesInv, FrameInv, FixpointInv, Passes
  <2> QED
    BY <2>1, <2>2 DEF IInv
<1>2. IInv /\ [Next]_vars => IInv'
  BY TypeNext, PlaceNext, CleanNext, FeaturesNext, FrameNext, FixpointNext
     DEF IInv
<1> QED
  BY <1>1, <1>2, PTL DEF Spec

(* tcc_ir_opt_run_group keeps within its table: p, iter, last_clean_gen.   *)
THEOREM EngineTypes == Spec => []TypeOK
<1>1. IInv => TypeOK
  BY DEF IInv
<1> QED
  BY <1>1, Inductive, PTL

(* The skip on last_clean_gen is sound: no pass that would change the IR   *)
(* is left out, whatever the passes do and however many there are.         *)
THEOREM EngineSkips == Spec => []SkipIsSound
<1>1. IInv => SkipIsSound
  BY SkipFromClean DEF IInv
<1> QED
  BY <1>1, Inductive, PTL

(* ir_opt_fn_features never serves a plain pass the features of another IR *)
(* or of another context's count.                                          *)
THEOREM EngineFeatures == Spec => []FeaturesFresh
<1>1. IInv => FeaturesFresh
  BY DEF IInv, TypeOK, Place, FeaturesInv, FeaturesFresh, FeaturesHit
<1> QED
  BY <1>1, Inductive, PTL

(* Until the first context ends, ir_opt_frame_ptr serves a plain pass the  *)
(* points-to facts of the IR it sees: every change between the recording   *)
(* and the hit moved the generation, also an unreported one.               *)
THEOREM EngineFacts == Spec => []FirstFactsFresh
<1>1. IInv => FirstFactsFresh
  BY DEF IInv, TypeOK, Place, FrameInv, FirstFactsFresh, FrameHit
<1> QED
  BY <1>1, Inductive, PTL

(* A group without trigger and cascades that stops early leaves no pass    *)
(* with work, although most of the last round was skipped.                 *)
THEOREM EngineFixpoint == Spec => []FixpointReached
<1>1. IInv => FixpointReached
  BY DEF IInv, FixpointInv, Quiet, Hides, FixpointReached, Passes
<1> QED
  BY <1>1, Inductive, PTL
=============================================================================
