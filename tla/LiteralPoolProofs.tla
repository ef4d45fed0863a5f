------------------------- MODULE LiteralPoolProofs -------------------------
(***************************************************************************)
(* The literal pool for every reach, slack, table size and code: loads     *)
(* read their own literal within reach, the window is exact, and neither   *)
(* an IT block nor a dispatch is torn apart by a pool.                     *)
(***************************************************************************)
EXTENDS LiteralPool, PoolOpsProofs

-----------------------------------------------------------------------------
(* The operations of a pass. *)

Its == {0} \cup ITLengths \cup 1 .. 3

(* The state of a pass: a function's pool is only filled inside of it, and *)
(* a dry pass writes nothing.                                              *)
Pass(t) ==
  /\ Common(t)
  /\ t.it \in Its
  /\ ~t.gen => t.it = 0
  /\ t.dry => t.out = NoOut
  /\ ~t.dry => RealOK(t)
  /\ ~t.dry /\ ~t.gen => t.pool = <<>>

(* u is a later state of the pass t, in which loads still reach. *)
Continues(t, u) ==
  /\ Pass(u) /\ u.dry = t.dry /\ u.gen = t.gen
  /\ ~t.dry => \A a \in 0 .. MaxAsm : Fits(t, a) => Fits(u, a)

(* Only a function emits, or the dry run of its body. *)
Emits(t) == Pass(t) /\ (t.dry \/ t.gen)

(* Operations in a row. *)
LEMMA ContinuesTwice ==
  ASSUME NEW t, Emits(t), NEW u, Continues(t, u), NEW v, Continues(u, v)
  PROVE  Continues(t, v)
BY DEF Continues

(* An operation is done with the pass it began in. *)
LEMMA StillEmits ==
  ASSUME NEW t, Emits(t), NEW u, Continues(t, u)
  PROVE  Emits(u)
BY DEF Continues, Emits

(* ot(): the count of conditioned instructions. *)
LEMMA ItStays ==
  ASSUME NEW t, Pass(t), NEW c \in {0} \cup ITLengths
  PROVE  /\ ItAfter(t, c) \in Its /\ (~t.gen => ItAfter(t, c) = 0)
         /\ (t.it = 0 /\ c = 0 => ItAfter(t, c) = 0)
<1>1. t.it \in 0 .. 4
  <2>1. t.it \in Its
    BY DEF Pass
  <2>2. Its \subseteq 0 .. 4
    BY BlockAssumption, 0 \in 0 .. 4, 1 .. 3 \subseteq 0 .. 4, 1 .. 4 \subseteq 0 .. 4
    DEF Its
  <2> QED
    BY <2>1, <2>2, Zenon
<1>2. CASE ~t.gen
  BY <1>2 DEF Pass, ItAfter
<1>3. CASE t.gen /\ t.it > 0
  <2>1. t.it - 1 \in 0 .. 3
    BY <1>1, <1>3
  <2> QED
    BY <1>3, <2>1 DEF ItAfter, Its
<1>4. CASE t.gen /\ ~(t.it > 0)
  BY <1>4 DEF ItAfter, Its
<1> QED
  BY <1>2, <1>3, <1>4

(* ot() in a pass. *)
LEMMA OtContinues ==
  ASSUME Counting,
         NEW t, Pass(t), NEW size \in {2, 4}, NEW c \in {0} \cup ITLengths
  PROVE  LET u == ot(t, size, c)
         IN  /\ Continues(t, u)
             /\ t.it = 0 /\ c = 0 => u.it = 0
             /\ t.it > 0 => u.ind - t.ind <= 4
<1> DEFINE u == ot(t, size, c)
<1>1. size \in Nat /\ c \in Nat /\ Common(t)
  BY BlockAssumption DEF Pass
<1>2. /\ Common(u) /\ SamePass(t, u) /\ u.it = ItAfter(t, c)
      /\ (~t.gen \/ t.it > 0) => u.ind = t.ind + size
  BY <1>1, OtCommon, Zenon
<1>3. ~t.dry => RealOK(u) /\ u.pool \in {t.pool, <<>>}
  BY <1>1, OtReal DEF Pass
<1>4. ~t.dry => \A a \in 0 .. MaxAsm : Fits(t, a) => Fits(u, a)
  BY <1>1, OtFits DEF Pass
<1> HIDE DEF u
<1>5. u.it \in Its /\ (~t.gen => u.it = 0) /\ (t.it = 0 /\ c = 0 => u.it = 0)
  BY <1>2, ItStays
<1>6. t.it > 0 => u.ind - t.ind <= 4
  <2> DEFINE here == t.ind
             there == u.ind
  <2>1. here \in Nat /\ (t.it > 0 => there = here + size)
    BY <1>1, <1>2 DEF Common
  <2> HIDE DEF here, there
  <2>2. t.it > 0 => there - here <= 4
    BY <2>1
  <2> QED
    BY <2>2 DEF here, there
<1>7. Pass(u)
  BY <1>2, <1>3, <1>5 DEF Pass, SamePass
<1> QED
  BY <1>2, <1>4, <1>5, <1>6, <1>7 DEF Continues, SamePass, u

(* load_full_const in a pass. *)
LEMMA LoadContinues ==
  ASSUME Counting, NEW t, Emits(t), NEW key \in Keys, NEW size \in {4, 8},
         NEW short \in BOOLEAN
  PROVE  LET u == load_full_const(t, key, size, short)
         IN  /\ Continues(t, u)
             /\ t.it = 0 => u.it = 0
             /\ t.it > 0 => u.ind - t.ind <= 4
<1> DEFINE u == load_full_const(t, key, size, short)
<1>1. Common(t) /\ Pass(t)
  BY DEF Pass, Emits
<1>2. /\ Common(u) /\ SamePass(t, u) /\ u.it = ItAfter(t, 0)
      /\ (~t.gen \/ t.it > 0) => u.ind = t.ind + LoadSize(short)
  BY <1>1, LoadCommon
<1>3. ~t.dry => /\ RealOK(u)
                /\ \A a \in 0 .. MaxAsm : Fits(t, a) => Fits(u, a)
  BY <1>1, LoadReal DEF Pass, Emits
<1> HIDE DEF u
<1>4. u.it \in Its /\ (~t.gen => u.it = 0) /\ (t.it = 0 => u.it = 0)
  BY <1>1, <1>2, ItStays
<1>5. t.it > 0 => u.ind - t.ind <= 4
  <2> DEFINE here == t.ind
             there == u.ind
             size0 == LoadSize(short)
  <2>1. here \in Nat /\ (t.it > 0 => there = here + size0) /\ size0 \in {2, 4}
    BY <1>1, <1>2 DEF Common, LoadSize
  <2> HIDE DEF here, there, size0
  <2>2. t.it > 0 => there - here <= 4
    BY <2>1
  <2> QED
    BY <2>2 DEF here, there
<1>6. Pass(u)
  BY <1>2, <1>3, <1>4 DEF Pass, SamePass, Emits
<1> QED
  BY <1>2, <1>3, <1>4, <1>5, <1>6 DEF Continues, SamePass, u

(* load_through_got: the addend has an entry of its own. *)
LEMMA AddendContinues ==
  ASSUME Counting, NEW t, Emits(t), NEW key \in Keys
  PROVE  Continues(t, Allocate(ot(t, 2, 0), key, 4, TRUE, None))
<1> DEFINE v == ot(t, 2, 0)
           u == Allocate(v, key, 4, TRUE, None)
<1>1. Common(t) /\ Pass(t) /\ 2 \in Nat /\ 0 \in Nat
  BY DEF Pass, Emits
<1>2. Common(v) /\ SamePass(t, v) /\ 2 <= v.ind
  BY <1>1, OtCommon
<1>3. Continues(t, v)
  BY <1>1, OtContinues
<1>4. ~t.dry => /\ RealOK(v) /\ LoadsBehind(v, 2)
                /\ \A a \in 0 .. MaxAsm : Fits(t, a) => Roomy(v, a)
  BY <1>1, OtReal, OtFits DEF Pass, Emits
<1> HIDE DEF v
<1>5. None \in Nat /\ LoadSize(TRUE) = 2 /\ IsFor(v.pool, None, key)
  BY DEF None, LoadSize, IsFor
<1>6. Common(u) /\ SamePass(v, u) /\ u.it = v.it
  BY <1>2, <1>5, AllocateCommon, Zenon
<1>7. None \in 0 .. Len(v.pool)
  BY <1>2 DEF None, Common
<1>8. ~t.dry => /\ RealOK(u)
                /\ \A a \in 0 .. MaxAsm : Roomy(v, a) => Fits(u, a)
  BY <1>2, <1>4, <1>5, <1>7, AllocateReal, ZenonT(40)
<1> HIDE DEF u
<1>9. Pass(u)
  BY <1>2, <1>3, <1>6, <1>8 DEF Pass, SamePass, Emits, Continues
<1>10. Continues(t, u)
  BY <1>2, <1>4, <1>6, <1>8, <1>9 DEF SamePass, Continues
<1> QED
  BY <1>10, Zenon DEF u, v

(* load_through_got in a pass. *)
LEMMA GotContinues ==
  ASSUME Counting, NEW t, Emits(t), NEW key \in Keys, NEW addend \in Keys
  PROVE  Continues(t, load_through_got(t, key, addend))
<1> DEFINE v1 == load_full_const(t, key, 4, TRUE)
           v2 == ot(v1, 2, 0)
           v3 == ot(v2, 2, 0)
           v4 == Allocate(ot(v3, 2, 0), addend, 4, TRUE, None)
           v5 == ot(v4, 2, 0)
<1>1. load_through_got(t, key, addend) = v5
  BY DEF load_through_got, ot_pair
<1>2. Continues(t, v1)
  BY LoadContinues, Zenon
<1> HIDE DEF v1
<1>3. Continues(v1, v2)
  BY <1>2, OtContinues DEF Continues
<1>4. Continues(t, v2)
  BY <1>2, <1>3, ContinuesTwice
<1> HIDE DEF v2
<1>5. Continues(v2, v3)
  BY <1>4, OtContinues DEF Continues
<1>6. Continues(t, v3)
  BY <1>4, <1>5, ContinuesTwice
<1> HIDE DEF v3
<1>7. Continues(v3, v4)
  <2>1. Emits(v3)
    BY <1>6, StillEmits
  <2> QED
    BY <2>1, AddendContinues, Zenon
<1> HIDE DEF v4
<1>8. Continues(t, v4)
  BY <1>6, <1>7, ContinuesTwice
<1>9. Continues(v4, v5)
  BY <1>8, OtContinues DEF Continues
<1>10. Continues(t, v5)
  BY <1>8, <1>9, ContinuesTwice
<1> QED
  BY <1>1, <1>10

-----------------------------------------------------------------------------
(* Code that does not go through ot(). *)

(* SWITCH_TABLE: an instruction that was reserved writes no pool. *)
LEMMA OtReserved ==
  ASSUME Counting, NEW t, Pass(t), ~t.dry, t.gen, t.it = 0, NEW size \in {2, 4},
         NEW room \in Nat, size <= room, ~OutOfBudget(t, room)
  PROVE  LET u == ot(t, size, 0)
         IN  /\ Continues(t, u) /\ u.it = 0 /\ ~OutOfBudget(u, room - size)
             /\ u.ind = t.ind + size /\ u.out = t.out
<1> DEFINE u == ot(t, size, 0)
<1>1. Common(t) /\ RealOK(t) /\ size \in Nat /\ size + 12 * 0 = size
  BY DEF Pass
<1>2. ~OutOfBudget(t, size)
  <2> DEFINE span == Span(t)
  <2>1. span \in Int /\ RangeLimit \in Nat /\ FlushSlack \in Nat
    BY <1>1, BudgetIs, ReachAssumption
  <2>2. t.pool = <<>> \/ ~(span + room >= RangeLimit - FlushSlack)
    BY <1>1, BudgetIs
  <2> HIDE DEF span
  <2>3. t.pool = <<>> \/ ~(span + size >= RangeLimit - FlushSlack)
    BY <2>1, <2>2
  <2> QED
    BY <1>1, <2>3, BudgetIs DEF span
<1>3. Ready(t, size, 0) = t
  BY <1>1, <1>2 DEF Ready
<1>4. Emitted(t, u, size)
  BY <1>1, <1>3, OtFields
<1>5. Continues(t, u) /\ u.it = 0
  BY OtContinues
<1> HIDE DEF u
<1>6. u.ind = t.ind + size /\ u.out = t.out
  BY <1>4 DEF Emitted
<1>7. ~OutOfBudget(u, room - size)
  <2> DEFINE span == Span(t)
             next == Span(u)
             a == t.ind
             b == t.first
             c == t.bytes
  <2>1. /\ a \in Nat /\ b \in Int /\ c \in Nat
        /\ RangeLimit \in Nat /\ FlushSlack \in Nat
    BY <1>1, ReachAssumption DEF Common
  <2>2. span = (a - b) + 6 + c /\ next = ((a + size) - b) + 6 + c
    BY <1>4 DEF Span, Emitted
  <2>3. t.pool = <<>> \/ ~(span + room >= RangeLimit - FlushSlack)
    BY <1>1, BudgetIs
  <2>4. Common(u) /\ RealOK(u) /\ u.pool = t.pool
    BY <1>4, <1>5 DEF Emitted, Continues, Pass
  <2> HIDE DEF span, next, a, b, c
  <2>5. room - size \in Nat
    BY <1>1
  <2>6. u.pool = <<>> \/ ~(next + (room - size) >= RangeLimit - FlushSlack)
    BY <1>1, <2>1, <2>2, <2>3, <2>4, SMTT(40)
  <2> QED
    BY <2>4, <2>5, <2>6, BudgetIs DEF next
<1> QED
  BY <1>5, <1>6, <1>7 DEF u

(* The real pass of SWITCH_TABLE once the room was reserved. *)
LEMMA MopReserved ==
  ASSUME Counting, NEW t, Pass(t), ~t.dry, t.gen, t.it = 0, NEW n \in Nat \ {0},
         NEW spilled \in BOOLEAN, ~OutOfBudget(t, SwitchTableSize(n))
  PROVE  LET u == SwitchTableMop(t, n, spilled)
         IN  /\ Continues(t, u) /\ u.out = t.out
             /\ u.ind = t.ind + SwitchTableSize(n) + (IF spilled THEN 4 ELSE 0)
<1> DEFINE room == SwitchTableSize(n)
           reload == IF spilled THEN 4 ELSE 0
           t0 == IF spilled THEN ot(t, 4, 0) ELSE t
           t1 == ot(t0, 4, 0)
           t2 == ot(t1, 2, 0)
           t3 == ot(t2, 4, 0)
           t4 == ot(t3, 2, 0)
           t5 == ot(t4, 2, 0)
           u == Advance(t5, 4 * n)
           left == room - reload
           Held(x, past) ==
             /\ Continues(t, x) /\ Pass(x) /\ ~x.dry /\ x.gen /\ x.it = 0
             /\ ~OutOfBudget(x, left - past)
             /\ x.ind = t.ind + reload + past /\ x.out = t.out
<1>1. u = SwitchTableMop(t, n, spilled)
  BY DEF SwitchTableMop, ot_pair
<1>2. room = 14 + 4 * n /\ room \in Nat /\ left \in Nat /\ left >= 14
  BY DEF SwitchTableSize
<1>3. t.ind \in Nat /\ Emits(t) /\ reload \in Nat
  BY DEF Pass, Common, Emits
<1>4. Held(t0, 0)
  <2>1. CASE spilled
    <3>1. /\ Continues(t, t0) /\ t0.it = 0 /\ ~OutOfBudget(t0, room - 4)
          /\ t0.ind = t.ind + 4 /\ t0.out = t.out
      BY <1>2, <2>1, OtReserved
    <3> HIDE DEF t0
    <3>2. left - 0 = room - 4 /\ t.ind + reload + 0 = t.ind + 4
      BY <1>2, <1>3, <2>1
    <3> QED
      BY <3>1, <3>2 DEF Continues
  <2>2. CASE ~spilled
    <3>1. left - 0 = room /\ t.ind + reload + 0 = t.ind /\ t0 = t
      BY <1>2, <1>3, <2>2
    <3> QED
      BY <3>1, Zenon DEF Continues
  <2> QED
    BY <2>1, <2>2
<1> HIDE DEF t0
<1>5. ASSUME NEW x, NEW past \in Nat, Held(x, past), NEW size \in {2, 4},
             past + size <= 14
      PROVE  Held(ot(x, size, 0), past + size)
  <2> DEFINE y == ot(x, size, 0)
  <2>1. left - past \in Nat /\ size <= left - past
    BY <1>2, <1>5
  <2> HIDE DEF left
  <2>2. /\ Continues(x, y) /\ y.it = 0 /\ ~OutOfBudget(y, (left - past) - size)
        /\ y.ind = x.ind + size /\ y.out = x.out
    BY <1>5, <2>1, OtReserved
  <2> HIDE DEF y
  <2>3. Continues(t, y)
    BY <1>3, <1>5, <2>2, ContinuesTwice
  <2>4. y.ind = t.ind + reload + (past + size)
    BY <1>3, <1>5, <2>2
  <2>5. left \in Nat
    BY <1>2
  <2>6. left - (past + size) = (left - past) - size
    BY <2>5
  <2> QED
    BY <1>5, <2>2, <2>3, <2>4, <2>6, Zenon DEF Continues, y
<1> HIDE DEF Held
<1>6. Held(t1, 4)
  BY <1>4, <1>5, 0 + 4 = 4, 4 <= 14
<1> HIDE DEF t1
<1>7. Held(t2, 6)
  BY <1>5, <1>6, 4 + 2 = 6, 6 <= 14
<1> HIDE DEF t2
<1>8. Held(t3, 10)
  BY <1>5, <1>7, 6 + 4 = 10, 10 <= 14
<1> HIDE DEF t3
<1>9. Held(t4, 12)
  BY <1>5, <1>8, 10 + 2 = 12, 12 <= 14
<1> HIDE DEF t4
<1>10. Held(t5, 14)
  BY <1>5, <1>9, 12 + 2 = 14, 14 <= 14
<1> HIDE DEF t5
<1>11. /\ Continues(t, t5) /\ Pass(t5) /\ ~t5.dry /\ t5.gen /\ t5.it = 0
       /\ Common(t5) /\ RealOK(t5) /\ ~OutOfBudget(t5, left - 14)
       /\ t5.ind = t.ind + reload + 14 /\ t5.out = t.out
  BY <1>10 DEF Held, Pass
<1>12. Emitted(t5, u, 4 * n) /\ u.it = t5.it
  <2>1. Shaped(t5)
    BY <1>11 DEF Common
  <2> QED
    BY <2>1, AdvanceFields DEF Emitted
<1>13. 4 * n \in Nat /\ (4 * n) % 2 = 0
  OBVIOUS
<1>14. Common(u)
  BY <1>11, <1>13, AdvanceCommon
<1>15. RealOK(u)
  BY <1>11, <1>12, <1>13, EmittedReal
<1> HIDE DEF u
<1>16. u.dry = t5.dry /\ u.gen = t5.gen /\ u.out = t5.out /\ u.ind = t5.ind + 4 * n
  BY <1>12 DEF Emitted
<1>17. Pass(u)
  BY <1>11, <1>12, <1>14, <1>15, <1>16 DEF Pass
<1>18. ASSUME NEW a \in 0 .. MaxAsm, Fits(t, a)
       PROVE  Fits(u, a)
  <2>1. Fits(t5, a)
    BY <1>11, <1>18 DEF Continues
  <2>2. Reserve /\ Reaches(u.out) /\ 6 + 12 * u.it <= Bound /\ u.it = 0
    BY <1>11, <1>12, <1>16, <2>1 DEF Fits
  <2>3. ASSUME u.pool # <<>>
        PROVE  Span(u) + 12 * u.it <= Bound + a
    <3> DEFINE here == t5.ind
               first == t5.first
               bytes == t5.bytes
               past == Span(t5)
               end == Span(u)
    <3>1. here \in Nat /\ first \in Int /\ bytes \in Nat
      BY <1>11 DEF Common
    <3>2. past = (here - first) + 6 + bytes /\ end = ((here + 4 * n) - first) + 6 + bytes
      BY <1>12 DEF Emitted, Span
    <3>3. ~(past + (left - 14) >= RangeLimit - FlushSlack)
      <4>1. left - 14 \in Nat
        BY <1>2
      <4>2. t5.pool # <<>>
        BY <1>12, <2>3 DEF Emitted
      <4> HIDE DEF left
      <4> QED
        BY <1>11, <4>1, <4>2, BudgetIs
    <3>4. /\ MaxAsm \in Nat /\ FlushSlack \in Nat /\ RangeLimit \in Nat
          /\ MaxAsm < FlushSlack /\ Bound = RangeLimit + 6 - MaxAsm
      BY <2>2, ReachAssumption, BlockAssumption DEF Reserve, Bound
    <3>5. left - 14 >= 4 * n - 4
      BY <1>2
    <3>6. left - 14 \in Int
      BY <1>2
    <3> DEFINE rest == left - 14
    <3> HIDE DEF here, first, bytes, past, end, rest, left, room, reload
    <3>7. rest \in Int /\ rest >= 4 * n - 4 /\ ~(past + rest >= RangeLimit - FlushSlack)
      BY <3>3, <3>5, <3>6 DEF rest
    <3>8. end + 12 * 0 <= Bound + a
      BY <3>1, <3>2, <3>4, <3>7
    <3> QED
      BY <2>2, <3>8 DEF end
  <2> QED
    BY <2>2, <2>3 DEF Fits
<1>19. u.ind = t.ind + room + reload
  <2> DEFINE here == t.ind
  <2> HIDE DEF reload, room
  <2>1. u.ind = ((here + reload) + 14) + 4 * n /\ here \in Nat /\ reload \in Nat
    BY <1>3, <1>11, <1>16
  <2>2. room = 14 + 4 * n
    BY <1>2
  <2> HIDE DEF here
  <2>3. u.ind = here + room + reload
    BY <2>1, <2>2
  <2> QED
    BY <2>3 DEF here
<1>20. Continues(t, u)
  BY <1>11, <1>16, <1>17, <1>18 DEF Continues
<1> QED
  BY <1>1, <1>11, <1>16, <1>19, <1>20

(* th_literal_pool_generate in a pass that emits. *)
LEMMA GenerateContinues ==
  ASSUME Counting, NEW t, Emits(t)
  PROVE  LET u == th_literal_pool_generate(t) IN Continues(t, u) /\ u.it = t.it
<1> DEFINE u == th_literal_pool_generate(t)
<1>1. Common(t) /\ Pass(t) /\ (t.dry \/ t.gen)
  BY DEF Emits, Pass
<1>2. Common(u) /\ SamePass(t, u) /\ u.it = t.it
  BY <1>1, GenerateCommon
<1>3. ~t.dry => /\ RealOK(u)
                /\ \A a \in 0 .. MaxAsm : Fits(t, a) => Fits(u, a)
  BY <1>1, GenerateReal DEF Pass
<1> HIDE DEF u
<1>4. Pass(u)
  BY <1>1, <1>2, <1>3 DEF Pass, SamePass
<1> QED
  BY <1>2, <1>3, <1>4 DEF Continues, SamePass, u

(* A dry pass counts code. *)
LEMMA AdvanceContinues ==
  ASSUME NEW t, Pass(t), t.dry, NEW bytes \in Nat
  PROVE  Continues(t, Advance(t, bytes))
<1> DEFINE u == Advance(t, bytes)
<1>1. Common(u) /\ SamePass(t, u)
  BY AdvanceCommon DEF Pass
<1>2. u.it = t.it
  BY AdvanceFields DEF Pass, Common
<1> HIDE DEF u
<1>3. Pass(u)
  BY <1>1, <1>2 DEF Pass, SamePass
<1> QED
  BY <1>1, <1>3 DEF Continues, SamePass, u

(* SWITCH_TABLE: a pool that is written lies before the dispatch. *)
LEMMA SwitchTableContinues ==
  ASSUME Counting,
         NEW t, Emits(t), t.it = 0, t.out = NoOut, NEW n \in Nat \ {0},
         NEW spilled \in BOOLEAN
  PROVE  LET u == switch_table(t, n, spilled)
         IN  /\ Continues(t, u)
             /\ u.out # NoOut =>
                  u.ind = u.out.end + SwitchTableSize(n) + (IF spilled THEN 4 ELSE 0)
<1> DEFINE size == SwitchTableSize(n)
           ready == th_literal_pool_reserve_upcoming_bytes(t, size)
           u == switch_table(t, n, spilled)
<1>1. size \in Nat /\ Common(t) /\ Pass(t) /\ t.dry \in BOOLEAN /\ t.gen \in BOOLEAN
  BY DEF Emits, Pass, Common, SwitchTableSize
<1>2. Continues(t, t)
  BY <1>1 DEF Continues
<1>3. ready \in {t, th_literal_pool_generate(t)}
  BY DEF th_literal_pool_reserve_upcoming_bytes
<1>4. Continues(t, ready) /\ ready.it = t.it
  BY <1>2, <1>3, GenerateContinues
<1>5. CASE t.dry
  <2>1. u = Advance(ready, size)
    BY <1>5 DEF switch_table
  <2> HIDE DEF ready
  <2>2. Continues(ready, u)
    BY <1>1, <1>4, <1>5, <2>1, AdvanceContinues, ZenonT(40) DEF Continues
  <2> HIDE DEF u
  <2>3. Continues(t, u)
    BY <1>4, <2>2, ContinuesTwice
  <2>4. u.out = NoOut
    BY <1>5, <2>3 DEF Continues, Pass
  <2> QED
    BY <2>3, <2>4 DEF u
<1>6. CASE ~t.dry
  <2>1. u = SwitchTableMop(ready, n, spilled)
    BY <1>6, Zenon DEF switch_table
  <2>2. t.gen /\ RealOK(t)
    BY <1>6 DEF Emits, Pass
  <2>3. /\ ~OutOfBudget(ready, size)
        /\ ready = t \/ ready.out.end = ready.ind
    <3>1. CASE OutOfBudget(t, size)
      <4>1. ready = th_literal_pool_generate(t)
        BY <2>2, <3>1 DEF th_literal_pool_reserve_upcoming_bytes,
                          th_literal_pool_would_flush_for
      <4>2. t.pool # <<>>
        BY <1>1, <2>2, <3>1, BudgetIs
      <4>3. RealOK(ready) /\ ready.pool = <<>> /\ ready.out.end = ready.ind
        BY <1>1, <2>2, <4>1, <4>2, GenerateReal
      <4>4. Common(ready)
        BY <1>4 DEF Continues, Pass
      <4> HIDE DEF ready, size
      <4> QED
        BY <1>1, <4>3, <4>4, BudgetIs
    <3>2. CASE ~OutOfBudget(t, size)
      <4>1. ready = t
        BY <3>2, Zenon DEF th_literal_pool_reserve_upcoming_bytes,
                           th_literal_pool_would_flush_for
      <4> QED
        BY <3>2, <4>1
    <3> QED
      BY <3>1, <3>2
  <2> HIDE DEF ready
  <2>4. Pass(ready) /\ ~ready.dry /\ ready.gen /\ ready.it = 0
    BY <1>4, <1>6, <2>2 DEF Continues
  <2>5. /\ Continues(ready, u) /\ u.out = ready.out
        /\ u.ind = ready.ind + size + (IF spilled THEN 4 ELSE 0)
    BY <2>1, <2>3, <2>4, MopReserved
  <2> HIDE DEF u
  <2>6. Continues(t, u)
    BY <1>4, <2>5, ContinuesTwice
  <2>7. u.out # NoOut => u.ind = u.out.end + size + (IF spilled THEN 4 ELSE 0)
    BY <2>3, <2>5
  <2> QED
    BY <2>6, <2>7 DEF u
<1> QED
  BY <1>5, <1>6

(* SWITCH_LOAD in a pass. *)
LEMMA SwitchLoadContinues ==
  ASSUME Counting, NEW t, Emits(t), NEW key \in Keys
  PROVE  Continues(t, switch_load(t, key))
<1> DEFINE v == load_full_const(t, key, 4, FALSE)
<1>1. CASE t.dry
  BY <1>1, AdvanceContinues DEF Emits, switch_load
<1>2. CASE ~t.dry
  <2>1. switch_load(t, key) = ot(v, 4, 0)
    BY <1>2, Zenon DEF switch_load
  <2>2. Continues(t, v)
    BY LoadContinues, Zenon
  <2> HIDE DEF v
  <2>3. Continues(v, ot(v, 4, 0))
    BY <2>2, OtContinues DEF Continues
  <2> QED
    BY <2>1, <2>2, <2>3, ContinuesTwice
<1> QED
  BY <1>1, <1>2

(* Inline assembly uses up the slack. *)
LEMMA AsmContinues ==
  ASSUME NEW t, Emits(t), t.it = 0, NEW bytes \in Nat, bytes % 2 = 0
  PROVE  LET u == inline_asm(t, bytes)
         IN  /\ Pass(u) /\ u.dry = t.dry /\ u.gen = t.gen /\ u.it = 0
             /\ ~t.dry => \A a \in 0 .. MaxAsm :
                            Fits(t, a) /\ a + bytes <= MaxAsm => Fits(u, a + bytes)
<1> DEFINE v == Advance(t, bytes)
           u == inline_asm(t, bytes)
<1>1. Common(t) /\ Pass(t) /\ (t.dry \/ t.gen)
  BY DEF Emits, Pass
<1>2. CASE t.dry
  BY <1>1, <1>2, Zenon DEF inline_asm
<1>3. CASE ~t.dry
  <2>1. u = v
    BY <1>3, Zenon DEF inline_asm
  <2>2. Emitted(t, v, bytes) /\ v.it = t.it
    BY <1>1, AdvanceFields DEF Emitted, Common
  <2>3. Common(v) /\ RealOK(v)
    BY <1>1, <1>3, <2>2, AdvanceCommon, EmittedReal DEF Pass
  <2> HIDE DEF v
  <2>4. /\ v.dry = t.dry /\ v.gen = t.gen /\ v.out = t.out
        /\ v.ind = t.ind + bytes /\ v.first = t.first /\ v.bytes = t.bytes
        /\ v.pool = t.pool
    BY <2>2 DEF Emitted
  <2>5. Pass(v)
    BY <1>1, <1>3, <2>2, <2>3, <2>4 DEF Pass
  <2>6. ASSUME NEW a \in 0 .. MaxAsm, Fits(t, a)
        PROVE  Fits(v, a + bytes)
    <3> DEFINE here == t.ind
               first == t.first
               sum == t.bytes
               span == Span(t)
               end == Span(v)
    <3>1. here \in Nat /\ first \in Int /\ sum \in Nat
      BY <1>1 DEF Common
    <3>2. span = (here - first) + 6 + sum /\ end = ((here + bytes) - first) + 6 + sum
      BY <2>4 DEF Span
    <3>3. /\ Reserve /\ Reaches(v.out) /\ 6 + 12 * v.it <= Bound
          /\ v.pool # <<>> => span + 12 * v.it <= Bound + a
      BY <2>2, <2>4, <2>6 DEF Fits
    <3>4. Bound \in Int /\ a \in Int /\ v.it = 0
      BY <2>2, <3>3, BoundIs, BlockAssumption
    <3> HIDE DEF here, first, sum, span, end
    <3>5. v.pool # <<>> => end + 12 * v.it <= Bound + (a + bytes)
      BY <3>1, <3>2, <3>3, <3>4
    <3> QED
      BY <3>3, <3>5 DEF Fits, end
  <2> QED
    BY <1>1, <2>1, <2>2, <2>4, <2>5, <2>6
<1> QED
  BY <1>2, <1>3

-----------------------------------------------------------------------------
(* Between the operations and between the passes. *)

(* What an operation wrote is shown once. *)
Silent(t) == [t EXCEPT !.out = NoOut]

(* Forgetting what was written changes nothing else. *)
LEMMA SilentContinues ==
  ASSUME NEW t, Pass(t)
  PROVE  LET u == Silent(t)
         IN  /\ Continues(t, u) /\ u.out = NoOut /\ u.it = t.it
             /\ u.ind = t.ind /\ u.pool = t.pool
<1> DEFINE u == Silent(t)
<1>1. Shaped(t) /\ Common(t)
  BY DEF Pass, Common
<1>2. /\ Shaped(u) /\ u.out = NoOut
      /\ u.dry = t.dry /\ u.gen = t.gen /\ u.ind = t.ind
      /\ u.pool = t.pool /\ u.count = t.count /\ u.first = t.first
      /\ u.bytes = t.bytes /\ u.it = t.it /\ u.table = t.table
      /\ u.cache = t.cache /\ u.counted = t.counted
      /\ u.countedBytes = t.countedBytes
  BY <1>1 DEF Silent, Shaped, Fields
<1> HIDE DEF u
<1>3. Common(u)
  BY <1>1, <1>2, ZenonT(40) DEF Common
<1>4. ~t.dry => RealOK(u)
  BY <1>2, NoOutReads DEF Pass, RealOK
<1>5. Pass(u)
  BY <1>2, <1>3, <1>4 DEF Pass
<1>6. \A a \in 0 .. MaxAsm : Fits(t, a) => Fits(u, a)
  BY <1>2, NoOutReads DEF Fits, Span
<1> QED
  BY <1>2, <1>5, <1>6 DEF Continues, u

(* cg_word_align_start, if it is called. *)
LEMMA StartContinues ==
  ASSUME Counting, NEW t, Pass(t), t.it = 0, NEW align \in BOOLEAN
  PROVE  LET u == Start(t, align) IN Continues(t, u) /\ u.it = 0
<1>1. Start(t, align) \in {t, ot(t, 2, 0)}
  BY DEF Start, cg_word_align_start
<1>2. Continues(t, t)
  BY DEF Continues
<1>3. Continues(t, ot(t, 2, 0)) /\ ot(t, 2, 0).it = 0
  BY OtContinues
<1> QED
  BY <1>1, <1>2, <1>3

(* A pool that is empty fits whatever was assembled. *)
LEMMA EmptyFits ==
  ASSUME NEW u, u.pool = <<>>, u.it = 0, Reaches(u.out), Reserve, NEW a
  PROVE  Fits(u, a)
<1>1. 12 + MaxAsm <= RangeLimit /\ MaxAsm \in Nat /\ RangeLimit \in Nat
  BY BlockAssumption, ReachAssumption DEF Reserve
<1>2. 6 + 12 * 0 <= Bound
  BY <1>1 DEF Bound
<1> QED
  BY <1>2 DEF Fits

(* tcc_gen_prolog: the function begins with an empty pool. *)
LEMMA PrologContinues ==
  ASSUME Counting, NEW t, Pass(t), ~t.dry, t.pool = <<>>, NEW large \in BOOLEAN,
         NEW key \in Keys
  PROVE  LET u == prolog(t, large, key)
         IN  /\ Pass(u) /\ ~u.dry /\ u.gen /\ u.it = 0
             /\ \A a \in 0 .. MaxAsm : Fits(t, a) => Fits(u, a)
<1> DEFINE v == [t EXCEPT !.gen = TRUE, !.it = 0]
           w == load_full_const(v, key, 4, FALSE)
           u == prolog(t, large, key)
<1>1. Shaped(t) /\ Common(t) /\ RealOK(t)
  BY DEF Pass, Common
<1>2. /\ Shaped(v) /\ v.gen = TRUE /\ v.it = 0
      /\ v.dry = t.dry /\ v.ind = t.ind
      /\ v.pool = t.pool /\ v.count = t.count /\ v.first = t.first
      /\ v.bytes = t.bytes /\ v.table = t.table
      /\ v.cache = t.cache /\ v.counted = t.counted
      /\ v.countedBytes = t.countedBytes /\ v.out = t.out
  BY <1>1, Zenon DEF Shaped, Fields
<1>3. u = IF large THEN ot(w, 4, 0) ELSE ot(v, 2, 0)
  BY DEF prolog
<1> HIDE DEF v, u
<1>4. Common(v)
  <2>1. v.gen \in BOOLEAN
    BY <1>2, Zenon
  <2>2. v.it \in Nat
    BY <1>2, SMTT(40)
  <2> QED
    BY <1>1, <1>2, <2>1, <2>2 DEF Common
<1>5. RealOK(v)
  BY <1>1, <1>2 DEF RealOK
<1>6. Pass(v) /\ Emits(v) /\ ~v.dry
  BY <1>2, <1>4, <1>5 DEF Pass, Emits, Its
<1>7. \A a \in 0 .. MaxAsm : Fits(t, a) => Fits(v, a)
  <2>1. ASSUME NEW a \in 0 .. MaxAsm, Fits(t, a) PROVE Fits(v, a)
    <3>1. Reserve /\ Reaches(v.out)
      BY <1>2, <2>1 DEF Fits
    <3> QED
      BY <1>2, <3>1, EmptyFits
  <2> QED
    BY <2>1
<1>8. Continues(v, w) /\ w.it = 0
  BY <1>2, <1>6, LoadContinues, Zenon
<1> HIDE DEF w
<1>9. Continues(w, ot(w, 4, 0)) /\ ot(w, 4, 0).it = 0
  BY <1>8, OtContinues DEF Continues
<1>10. Continues(v, ot(w, 4, 0))
  BY <1>6, <1>8, <1>9, ContinuesTwice
<1>11. Continues(v, ot(v, 2, 0)) /\ ot(v, 2, 0).it = 0
  BY <1>2, <1>6, OtContinues
<1>12. Continues(v, u) /\ u.it = 0
  BY <1>3, <1>9, <1>10, <1>11
<1>13. /\ Pass(u) /\ ~u.dry /\ u.gen
       /\ \A a \in 0 .. MaxAsm : Fits(t, a) => Fits(u, a)
  BY <1>2, <1>6, <1>7, <1>12 DEF Continues
<1> QED
  BY <1>12, <1>13 DEF u

(* tcc_gen_epilog: the function ends with an empty pool. *)
LEMMA EpilogContinues ==
  ASSUME Counting, NEW t, Emits(t), ~t.dry, t.it = 0, NEW returns \in BOOLEAN
  PROVE  LET u == epilog(t, returns)
         IN  /\ Pass(u) /\ ~u.dry /\ ~u.gen /\ u.it = 0
             /\ \A a \in 0 .. MaxAsm : Fits(t, a) => Fits(u, 0)
<1> DEFINE e == IF returns THEN ot(t, 2, 0) ELSE t
           v == [e EXCEPT !.gen = FALSE]
           u == th_literal_pool_generate(v)
<1>1. Pass(t) /\ Continues(t, t)
  BY DEF Emits, Continues
<1>2. Continues(t, ot(t, 2, 0)) /\ ot(t, 2, 0).it = 0
  BY <1>1, OtContinues
<1>3. Continues(t, e) /\ e.it = 0
  BY <1>1, <1>2
<1>4. epilog(t, returns) = u
  BY DEF epilog
<1> HIDE DEF e
<1>5. Shaped(e) /\ Common(e) /\ RealOK(e)
  BY <1>3 DEF Continues, Pass, Common
<1>6. /\ Shaped(v) /\ v.gen = FALSE /\ v.it = e.it
      /\ v.dry = e.dry /\ v.ind = e.ind
      /\ v.pool = e.pool /\ v.count = e.count /\ v.first = e.first
      /\ v.bytes = e.bytes /\ v.table = e.table
      /\ v.cache = e.cache /\ v.counted = e.counted
      /\ v.countedBytes = e.countedBytes /\ v.out = e.out
  BY <1>5, Zenon DEF Shaped, Fields
<1> HIDE DEF v
<1>7. Common(v)
  BY <1>5, <1>6, ZenonT(40) DEF Common
<1>8. RealOK(v)
  BY <1>5, <1>6 DEF RealOK
<1>9. Common(u) /\ SamePass(v, u) /\ u.it = v.it
  BY <1>7, GenerateCommon
<1>10. /\ RealOK(u) /\ u.pool = <<>>
       /\ \A a \in 0 .. MaxAsm : Fits(v, a) => Fits(u, a)
  BY <1>7, <1>8, GenerateReal, SMTT(40)
<1> HIDE DEF u
<1>11. Pass(u) /\ ~u.dry /\ ~u.gen /\ u.it = 0
  BY <1>3, <1>6, <1>9, <1>10, SMTT(40) DEF Pass, SamePass, Continues, Its
<1>12. ASSUME NEW a \in 0 .. MaxAsm, Fits(t, a) PROVE Fits(u, 0)
  <2>1. Fits(e, a)
    BY <1>3, <1>12 DEF Continues
  <2>2. Fits(v, a)
    BY <1>6, <2>1 DEF Fits, Span
  <2>3. Reserve /\ Reaches(u.out)
    BY <1>10, <2>2 DEF Fits
  <2> QED
    BY <1>10, <1>11, <2>3, EmptyFits
<1> QED
  BY <1>4, <1>11, <1>12

(* dry_run_start: an empty pool at the address of the pass. *)
LEMMA DryRunStarts ==
  ASSUME Counting, NEW t, Pass(t)
  PROVE  LET u == dry_run_start(t)
         IN  Pass(u) /\ u.dry /\ u.gen = t.gen /\ u.it = t.it
<1> DEFINE u == dry_run_start(t)
<1>1. /\ Shaped(u) /\ u.dry = TRUE /\ u.gen = t.gen /\ u.ind = t.ind
      /\ u.pool = <<>> /\ u.count = 0 /\ u.first = -1 /\ u.bytes = 0
      /\ u.it = t.it /\ u.table = NoHash /\ u.cache = NoCache
      /\ u.counted = 0 /\ u.countedBytes = 0 /\ u.out = NoOut
  BY ZenonT(40) DEF dry_run_start, Fresh, Shaped, Fields
<1> HIDE DEF u
<1>2. u.dry \in BOOLEAN /\ u.gen \in BOOLEAN /\ u.ind \in Nat /\ u.it \in Nat
  BY <1>1, Zenon DEF Pass, Common
<1>3. Common(u)
  BY <1>1, <1>2, NewCommon
<1>4. Pass(u)
  BY <1>1, <1>3 DEF Pass
<1> QED
  BY <1>1, <1>4 DEF u

(* dry_run_end: the pool is as before, and no entry of it is found again. *)
LEMMA DryRunEnds ==
  ASSUME NEW r, r.it = 0, NEW t, Pass(t), ~t.dry, t.it = 0
  PROVE  LET u == dry_run_end(r, t) IN Continues(t, u) /\ u.it = 0
<1> DEFINE u == dry_run_end(r, t)
<1>1. Shaped(t) /\ Common(t) /\ RealOK(t)
  BY DEF Pass, Common
<1>2. /\ Shaped(u) /\ u.it = 0 /\ u.table = NoHash /\ u.cache = NoCache
      /\ u.dry = t.dry /\ u.gen = t.gen /\ u.ind = t.ind
      /\ u.pool = t.pool /\ u.count = t.count /\ u.first = t.first
      /\ u.bytes = t.bytes /\ u.counted = t.counted
      /\ u.countedBytes = t.countedBytes /\ u.out = t.out
  BY <1>1, Zenon DEF dry_run_end, Shaped, Fields
<1> HIDE DEF u
<1>3. Common(u)
  <2>1. Len(t.pool) \in Nat
    BY <1>1 DEF Common
  <2>2. /\ NoHash \in [Keys -> 0 .. Len(t.pool)]
        /\ NoCache \in [Slots -> CacheLines(Len(t.pool))]
    BY <2>1, Forgotten, ZenonT(40)
  <2> QED
    BY <1>1, <1>2, <2>2 DEF Common
<1>4. RealOK(u)
  <2>1. \A k \in Keys : /\ IsFor(u.pool, u.table[k], k)
                        /\ IsFor(u.pool, u.cache[CacheSlot[k]].index, k)
    BY <1>2, Forgotten DEF IsFor
  <2> QED
    BY <1>1, <1>2, <2>1, ZenonT(40) DEF RealOK
<1>5. Pass(u)
  BY <1>2, <1>3, <1>4 DEF Pass
<1>6. \A a \in 0 .. MaxAsm : Fits(t, a) => Fits(u, a)
  BY <1>2 DEF Fits, Span
<1> QED
  BY <1>2, <1>5, <1>6, ZenonT(40) DEF Continues, u

(* Before the first function. *)
LEMMA IdlePass ==
  ASSUME Counting
  PROVE  /\ Pass(Idle) /\ ~Idle.dry /\ Idle.gen = FALSE /\ Idle.it = 0
         /\ Reserve => \A a : Fits(Idle, a)
<1> DEFINE u == Idle
<1>1. /\ Shaped(u) /\ u.dry = FALSE /\ u.gen = FALSE /\ u.ind = 0
      /\ u.pool = <<>> /\ u.count = 0 /\ u.first = -1 /\ u.bytes = 0
      /\ u.it = 0 /\ u.table = NoHash /\ u.cache = NoCache
      /\ u.counted = 0 /\ u.countedBytes = 0 /\ u.out = NoOut
  BY Zenon DEF Idle, Fresh, Shaped, Fields
<1> HIDE DEF u
<1>2. u.dry \in BOOLEAN /\ u.gen \in BOOLEAN
  BY <1>1, Zenon
<1>3. Common(u)
  BY <1>1, <1>2, NewCommon
<1>4. u.ind % 2 = 0 /\ Reads(u.out) /\ Reaches(u.out)
  BY <1>1, NoOutReads
<1>5. RealOK(u)
  BY <1>1, <1>4, EmptyReal
<1>6. Pass(u)
  BY <1>1, <1>3, <1>5 DEF Pass, Its
<1>7. Reserve => \A a : Fits(u, a)
  BY <1>1, <1>4, EmptyFits
<1> QED
  BY <1>1, <1>6, <1>7 DEF u

-----------------------------------------------------------------------------
(* The functions. *)

(* The inductive invariant: both the running pass and the one a dry run    *)
(* has set aside are sound, and the phase says which of them is dry.       *)
PoolInv ==
  /\ phase \in Phases /\ asm \in 0 .. MaxAsm
  /\ s.dry = (phase \in {"discover", "rehearse"})
  /\ s.gen = (phase \in {"ready", "rehearse", "emit"})
  /\ phase = "ready" => s.it = 0
  /\ saved.gen = (phase = "rehearse")
  /\ ~saved.dry /\ saved.it = 0
  /\ Pass(s) /\ Pass(saved)

(* What is pending in the real pass fits, whatever a dry one counts. *)
SpanInv == Fits(IF s.dry THEN saved ELSE s, asm)

(* An operation in a pass. *)
LEMMA QuietEmits ==
  ASSUME PoolInv, InPass
  PROVE  /\ Emits(Quiet) /\ Continues(s, Quiet) /\ Quiet.out = NoOut
         /\ Quiet.it = s.it /\ Quiet.ind = s.ind /\ Quiet.dry = s.dry
         /\ phase \in {"discover", "rehearse", "emit"}
<1>1. Pass(s) /\ Quiet = Silent(s)
  BY DEF PoolInv, Quiet, Silent
<1>2. /\ Continues(s, Quiet) /\ Quiet.out = NoOut /\ Quiet.it = s.it
      /\ Quiet.ind = s.ind
  BY <1>1, SilentContinues
<1>3. s.it \in Int /\ (s.it > 0 => s.it # 0)
  BY <1>1 DEF Pass, Common
<1>4. phase \in {"discover", "rehearse", "emit"}
  BY <1>3, Zenon DEF InPass, PoolInv, Phases, Pass
<1>5. s.dry \/ s.gen
  BY <1>4, Zenon DEF PoolInv
<1> QED
  BY <1>2, <1>4, <1>5 DEF Continues, Emits

(* Such an operation keeps the invariant. *)
LEMMA ApplyStep ==
  ASSUME PoolInv, InPass, NEW u, Continues(Quiet, u), Apply(u)
  PROVE  PoolInv' /\ (SpanInv => SpanInv')
<1>1. /\ Emits(Quiet) /\ Continues(s, Quiet)
      /\ phase \in {"discover", "rehearse", "emit"}
  BY QuietEmits
<1>2. s' = u /\ saved' = saved /\ phase' = phase /\ asm' = asm
  BY DEF Apply
<1>3. Continues(s, u)
  BY <1>1 DEF Continues
<1>4. PoolInv'
  BY <1>1, <1>2, <1>3 DEF PoolInv, Continues
<1>5. SpanInv => SpanInv'
  BY <1>2, <1>3 DEF SpanInv, Continues, PoolInv
<1> QED
  BY <1>4, <1>5

(* dry_run_start of either dry pass. *)
LEMMA StartPassStep ==
  ASSUME Counting, PoolInv, NEW from \in {"start", "ready"}, NEW to,
         to = IF from = "start" THEN "discover" ELSE "rehearse",
         StartPass(from, to)
  PROVE  PoolInv' /\ (SpanInv => SpanInv')
<1> DEFINE q == Quiet
           u == dry_run_start(q)
<1>1. Pass(s) /\ Quiet = Silent(s)
  BY DEF PoolInv, Quiet, Silent
<1>2. Continues(s, q) /\ q.it = s.it
  BY <1>1, SilentContinues
<1>3. phase = from /\ s' = u /\ saved' = q /\ phase' = to /\ asm' = asm
  BY DEF StartPass
<1> HIDE DEF q
<1>4. Pass(u) /\ u.dry /\ u.gen = q.gen /\ u.it = q.it
  BY <1>2, DryRunStarts DEF Continues
<1> HIDE DEF u
<1>5. ~s.dry /\ s.it = 0 /\ s.gen = (phase = "ready")
  <2>1. ~s.dry /\ s.gen = (phase = "ready")
    <3>1. (phase \in {"ready", "rehearse", "emit"}) = (phase = "ready")
      BY <1>3
    <3>2. ~(phase \in {"discover", "rehearse"})
      BY <1>3
    <3> QED
      BY <3>1, <3>2, Zenon DEF PoolInv
  <2>2. phase = "ready" => s.it = 0
    BY DEF PoolInv
  <2>3. phase # "ready" => s.it = 0
    BY <1>1, <2>1, Zenon DEF Pass
  <2> QED
    BY <2>1, <2>2, <2>3
<1>6. Pass(q) /\ q.dry = s.dry /\ q.gen = s.gen /\ (Fits(s, asm) => Fits(q, asm))
  BY <1>2, <1>5 DEF Continues, PoolInv
<1>7. to \in Phases /\ to \in {"discover", "rehearse"} /\ to # "ready"
      /\ (to \in {"ready", "rehearse", "emit"} <=> from = "ready")
      /\ (to = "rehearse" <=> from = "ready")
  BY DEF Phases
<1>8. u.dry = TRUE /\ u.gen \in BOOLEAN /\ q.gen \in BOOLEAN
  BY <1>4, <1>6 DEF Pass, Common
<1>9. PoolInv'
  <2>1. phase' \in Phases /\ asm' \in 0 .. MaxAsm
    BY <1>3, <1>7 DEF PoolInv
  <2>2. s'.dry = (phase' \in {"discover", "rehearse"})
    BY <1>3, <1>7, <1>8, Zenon
  <2>3. /\ s'.gen = (phase' \in {"ready", "rehearse", "emit"})
        /\ saved'.gen = (phase' = "rehearse")
    BY <1>3, <1>4, <1>5, <1>6, <1>7
  <2>4. ~saved'.dry /\ saved'.it = 0 /\ Pass(s') /\ Pass(saved')
    BY <1>2, <1>3, <1>4, <1>5, <1>6
  <2>5. phase' # "ready"
    BY <1>3, <1>7
  <2> QED
    BY <2>1, <2>2, <2>3, <2>4, <2>5 DEF PoolInv
<1>10. SpanInv => SpanInv'
  <2>1. SpanInv <=> Fits(s, asm)
    BY <1>5 DEF SpanInv
  <2>2. SpanInv' <=> Fits(q, asm)
    BY <1>3, <1>4 DEF SpanInv
  <2> QED
    BY <1>6, <2>1, <2>2
<1> QED
  BY <1>9, <1>10

(* dry_run_end of either dry pass. *)
LEMMA EndPassStep ==
  ASSUME Counting, PoolInv, NEW from \in {"discover", "rehearse"}, NEW to,
         to = IF from = "discover" THEN "discovered" ELSE "emit",
         NEW align \in BOOLEAN, EndPass(from, to, align)
  PROVE  PoolInv' /\ (SpanInv => SpanInv')
<1> DEFINE e == dry_run_end(s, saved)
           u == Start(e, align)
<1>1. /\ phase = from /\ s.it = 0 /\ s' = u /\ saved' = Idle /\ phase' = to
      /\ asm' = asm
  BY DEF EndPass
<1>2. Continues(saved, e) /\ e.it = 0
  BY <1>1, DryRunEnds DEF PoolInv
<1> HIDE DEF e
<1>3. Continues(e, u) /\ u.it = 0
  BY <1>2, StartContinues DEF Continues
<1> HIDE DEF u
<1>4. /\ s.dry /\ ~saved.dry /\ asm \in 0 .. MaxAsm
      /\ saved.gen = (from = "rehearse")
  BY <1>1, Zenon DEF PoolInv
<1>5. /\ Pass(u) /\ u.dry = saved.dry /\ u.gen = saved.gen
      /\ (Fits(saved, asm) => Fits(u, asm))
  BY <1>2, <1>3, <1>4 DEF Continues
<1>6. /\ to \in Phases /\ to \notin {"discover", "rehearse"} /\ to # "ready"
      /\ (to \in {"ready", "rehearse", "emit"} <=> from = "rehearse")
      /\ to # "rehearse"
  BY DEF Phases
<1>7. PoolInv'
  <2>1. phase' \in Phases /\ asm' \in 0 .. MaxAsm
    BY <1>1, <1>4, <1>6
  <2>2. saved.dry \in BOOLEAN
    BY DEF PoolInv, Pass, Common
  <2>3. s'.dry = (phase' \in {"discover", "rehearse"})
    BY <1>1, <1>4, <1>5, <1>6, <2>2
  <2>4. s'.gen = (phase' \in {"ready", "rehearse", "emit"})
    BY <1>1, <1>4, <1>5, <1>6
  <2>5. /\ Pass(saved') /\ ~saved'.dry /\ saved'.it = 0
        /\ saved'.gen = (phase' = "rehearse")
    BY <1>1, <1>6, IdlePass, Zenon
  <2>6. Pass(s') /\ phase' # "ready"
    BY <1>1, <1>5, <1>6
  <2> QED
    BY <2>1, <2>3, <2>4, <2>5, <2>6 DEF PoolInv
<1>8. SpanInv => SpanInv'
  <2>1. SpanInv <=> Fits(saved, asm)
    BY <1>4 DEF SpanInv
  <2>2. SpanInv' <=> Fits(u, asm)
    BY <1>1, <1>4, <1>5 DEF SpanInv
  <2> QED
    BY <1>5, <2>1, <2>2
<1> QED
  BY <1>7, <1>8

(* The function begins: with its prologue, the pool is empty. *)
LEMMA BeginStep ==
  ASSUME Counting,
         PoolInv, NEW t, Continues(s, t), phase \in {"start", "discovered"},
         NEW large \in BOOLEAN, NEW k \in Keys, s' = prolog(t, large, k),
         phase' \in {"ready", "emit"}, UNCHANGED <<saved, asm>>
  PROVE  PoolInv' /\ (SpanInv => SpanInv')
<1> DEFINE u == prolog(t, large, k)
<1>1. /\ ~s.dry /\ ~s.gen /\ asm \in 0 .. MaxAsm /\ Pass(saved) /\ ~saved.dry
      /\ saved.it = 0 /\ ~saved.gen /\ saved.gen \in BOOLEAN
  BY ZenonT(40) DEF PoolInv, Pass, Common
<1>2. /\ Pass(t) /\ ~t.dry /\ t.pool = <<>>
      /\ \A a \in 0 .. MaxAsm : Fits(s, a) => Fits(t, a)
  BY <1>1, ZenonT(40) DEF Continues, Pass
<1>3. /\ Pass(u) /\ ~u.dry /\ u.gen /\ u.it = 0
      /\ \A a \in 0 .. MaxAsm : Fits(t, a) => Fits(u, a)
  BY <1>2, PrologContinues
<1>4. s' = u
  OBVIOUS
<1> HIDE DEF u
<1>5. u.dry \in BOOLEAN /\ u.gen \in BOOLEAN
  BY <1>3, Zenon DEF Pass, Common
<1>6. PoolInv'
  <2>1. phase' \in Phases /\ asm' \in 0 .. MaxAsm
    BY <1>1 DEF Phases
  <2>2. s'.dry = (phase' \in {"discover", "rehearse"})
    BY <1>3, <1>4, <1>5
  <2>3. s'.gen = (phase' \in {"ready", "rehearse", "emit"})
    BY <1>3, <1>4, <1>5, Zenon
  <2>4. /\ Pass(saved') /\ ~saved'.dry /\ saved'.it = 0
        /\ saved'.gen = (phase' = "rehearse")
    BY <1>1
  <2>5. Pass(s') /\ s'.it = 0
    BY <1>3, <1>4
  <2> QED
    BY <2>1, <2>2, <2>3, <2>4, <2>5 DEF PoolInv
<1>7. SpanInv => SpanInv'
  <2>1. SpanInv <=> Fits(s, asm)
    BY <1>1 DEF SpanInv
  <2>2. SpanInv' <=> Fits(u, asm)
    BY <1>3, <1>4 DEF SpanInv
  <2> QED
    BY <1>1, <1>2, <1>3, <2>1, <2>2
<1> QED
  BY <1>6, <1>7, SMTT(40)

(* The function ends. *)
LEMMA EpilogStep ==
  ASSUME Counting, PoolInv, Epilog
  PROVE  PoolInv' /\ (SpanInv => SpanInv')
<1>1. PICK returns \in BOOLEAN :
        /\ phase = "emit" /\ s.it = 0 /\ s' = epilog(Quiet, returns)
        /\ phase' = "start" /\ asm' = 0 /\ saved' = saved
  BY DEF Epilog
<1> DEFINE q == Quiet
           u == epilog(q, returns)
<1>2. /\ ~s.dry /\ s.gen /\ asm \in 0 .. MaxAsm /\ Pass(saved) /\ ~saved.dry
      /\ saved.it = 0 /\ ~saved.gen /\ saved.gen \in BOOLEAN
  BY <1>1, Zenon DEF PoolInv, Pass, Common
<1>3. Pass(s) /\ q = Silent(s)
  BY DEF PoolInv, Quiet, Silent
<1>4. Continues(s, q) /\ q.it = s.it
  BY <1>3, SilentContinues
<1>5. s' = u
  BY <1>1
<1> HIDE DEF q
<1>6. /\ Emits(q) /\ ~q.dry /\ q.it = 0
      /\ \A a \in 0 .. MaxAsm : Fits(s, a) => Fits(q, a)
  BY <1>1, <1>2, <1>4 DEF Continues, Emits
<1>7. /\ Pass(u) /\ ~u.dry /\ ~u.gen /\ u.it = 0
      /\ \A a \in 0 .. MaxAsm : Fits(q, a) => Fits(u, 0)
  BY <1>6, EpilogContinues
<1> HIDE DEF u
<1>8. u.dry \in BOOLEAN /\ u.gen \in BOOLEAN
  BY <1>7 DEF Pass, Common
<1>9. PoolInv'
  <2>1. phase' \in Phases /\ asm' \in 0 .. MaxAsm
    BY <1>1, BlockAssumption DEF Phases
  <2>2. s'.dry = (phase' \in {"discover", "rehearse"})
    BY <1>1, <1>5, <1>7, <1>8
  <2>3. s'.gen = (phase' \in {"ready", "rehearse", "emit"})
    BY <1>1, <1>5, <1>7, <1>8
  <2>4. /\ Pass(saved') /\ ~saved'.dry /\ saved'.it = 0
        /\ saved'.gen = (phase' = "rehearse")
    BY <1>1, <1>2
  <2>5. Pass(s') /\ s'.it = 0
    BY <1>5, <1>7
  <2> QED
    BY <2>1, <2>2, <2>3, <2>4, <2>5 DEF PoolInv
<1>10. SpanInv => SpanInv'
  <2>1. SpanInv <=> Fits(s, asm)
    BY <1>2 DEF SpanInv
  <2>2. SpanInv' <=> Fits(u, 0)
    BY <1>1, <1>5, <1>7 DEF SpanInv
  <2> QED
    BY <1>2, <1>6, <1>7, <2>1, <2>2
<1> QED
  BY <1>9, <1>10

(* Inline assembly. *)
LEMMA InlineAsmStep ==
  ASSUME PoolInv, InlineAsm
  PROVE  PoolInv' /\ (SpanInv => SpanInv')
<1>1. PICK bytes \in AsmSizes :
        /\ InPass /\ s.it = 0 /\ asm + bytes <= MaxAsm
        /\ s' = inline_asm(Quiet, bytes)
        /\ asm' = (IF s.dry THEN asm ELSE asm + bytes)
        /\ saved' = saved /\ phase' = phase
  BY DEF InlineAsm
<1> DEFINE q == Quiet
           u == inline_asm(q, bytes)
<1>2. /\ Emits(q) /\ Continues(s, q) /\ q.it = 0 /\ q.dry = s.dry
      /\ phase \in {"discover", "rehearse", "emit"}
  BY <1>1, QuietEmits
<1>3. s' = u
  BY <1>1
<1> HIDE DEF q
<1>4. bytes \in Nat /\ bytes % 2 = 0 /\ MaxAsm \in Nat
  BY SizesAssumption, BlockAssumption
<1>5. /\ Pass(u) /\ u.dry = q.dry /\ u.gen = q.gen /\ u.it = 0
      /\ ~q.dry => \A a \in 0 .. MaxAsm :
                     Fits(q, a) /\ a + bytes <= MaxAsm => Fits(u, a + bytes)
  BY <1>2, <1>4, AsmContinues
<1> HIDE DEF u
<1>6. asm \in 0 .. MaxAsm /\ s.dry \in BOOLEAN /\ q.gen = s.gen
      /\ (~s.dry => \A a \in 0 .. MaxAsm : Fits(s, a) => Fits(q, a))
  BY <1>2, Zenon DEF PoolInv, Continues, Pass, Common
<1>7. asm' \in 0 .. MaxAsm
  BY <1>1, <1>4, <1>6
<1>8. PoolInv'
  BY <1>1, <1>2, <1>3, <1>5, <1>6, <1>7 DEF PoolInv
<1>9. SpanInv => SpanInv'
  <2>1. CASE s.dry
    BY <1>1, <1>2, <1>3, <1>5, <2>1 DEF SpanInv
  <2>2. CASE ~s.dry
    <3>1. SpanInv <=> Fits(s, asm)
      BY <2>2 DEF SpanInv
    <3>2. SpanInv' <=> Fits(u, asm + bytes)
      BY <1>1, <1>2, <1>3, <1>5, <2>2 DEF SpanInv
    <3> QED
      BY <1>1, <1>2, <1>5, <1>6, <2>2, <3>1, <3>2
  <2> QED
    BY <2>1, <2>2
<1> QED
  BY <1>8, <1>9

(* Every step keeps the invariant, and what fits still fits. *)
LEMMA PoolNext ==
  ASSUME Counting, PoolInv, [Next]_vars
  PROVE  PoolInv' /\ (SpanInv => SpanInv')
<1> DEFINE Goal == PoolInv' /\ (SpanInv => SpanInv')
<1>1. CASE UNCHANGED vars
  BY <1>1 DEF vars, PoolInv, SpanInv
<1>2. CASE Instruction
  <2>1. PICK size \in {2, 4} : InPass /\ Apply(ot(Quiet, size, 0))
    BY <1>2 DEF Instruction
  <2>2. Continues(Quiet, ot(Quiet, size, 0))
    BY <2>1, QuietEmits, OtContinues DEF Emits
  <2> QED
    BY <2>1, <2>2, ApplyStep
<1>3. CASE IfThen
  <2>1. PICK n \in ITLengths : InPass /\ Apply(ot(Quiet, 2, n))
    BY <1>3 DEF IfThen
  <2>2. Continues(Quiet, ot(Quiet, 2, n))
    BY <2>1, QuietEmits, OtContinues, Zenon DEF Emits
  <2> QED
    BY <2>1, <2>2, ApplyStep
<1>4. CASE LoadConstant
  <2>1. PICK k \in Keys, short \in BOOLEAN :
          InPass /\ Apply(load_full_const(Quiet, k, 4, short))
    BY <1>4 DEF LoadConstant
  <2>2. Continues(Quiet, load_full_const(Quiet, k, 4, short))
    BY <2>1, QuietEmits, LoadContinues
  <2> QED
    BY <2>1, <2>2, ApplyStep
<1>5. CASE LoadPair
  <2>1. PICK k \in Constants : InPass /\ Apply(load_full_const(Quiet, k, 8, FALSE))
    BY <1>5, Zenon DEF LoadPair
  <2>2. k \in Keys
    BY DEF Keys
  <2>3. Continues(Quiet, load_full_const(Quiet, k, 8, FALSE))
    BY <2>1, <2>2, QuietEmits, LoadContinues, Zenon
  <2> QED
    BY <2>1, <2>3, ApplyStep, Zenon
<1>6. CASE LoadThroughGot
  <2>1. PICK k \in Symbols, addend \in Constants :
          InPass /\ Apply(load_through_got(Quiet, k, addend))
    BY <1>6 DEF LoadThroughGot
  <2>2. k \in Keys /\ addend \in Keys
    BY DEF Keys
  <2>3. Continues(Quiet, load_through_got(Quiet, k, addend))
    BY <2>1, <2>2, QuietEmits, GotContinues
  <2> QED
    BY <2>1, <2>3, ApplyStep
<1>7. CASE SwitchTable
  <2>1. PICK n \in TableSizes, spilled \in BOOLEAN :
          InPass /\ s.it = 0 /\ Apply(switch_table(Quiet, n, spilled))
    BY <1>7 DEF SwitchTable, Dispatch
  <2>2. n \in Nat \ {0}
    BY SizesAssumption
  <2>3. Emits(Quiet) /\ Quiet.it = 0 /\ Quiet.out = NoOut
    BY <2>1, QuietEmits
  <2>4. Continues(Quiet, switch_table(Quiet, n, spilled))
    BY <2>2, <2>3, SwitchTableContinues, Zenon
  <2> QED
    BY <2>1, <2>4, ApplyStep
<1>8. CASE SwitchLoad
  <2>1. PICK k \in Symbols : InPass /\ Apply(switch_load(Quiet, k))
    BY <1>8 DEF SwitchLoad
  <2>2. k \in Keys
    BY DEF Keys
  <2>3. Continues(Quiet, switch_load(Quiet, k))
    BY <2>1, <2>2, QuietEmits, SwitchLoadContinues
  <2> QED
    BY <2>1, <2>3, ApplyStep
<1>9. CASE InlineAsm
  BY <1>9, InlineAsmStep
<1>10. CASE Discover
  BY <1>10, StartPassStep DEF Discover
<1>11. CASE Discovered
  <2>1. PICK align \in {FALSE, s.pool # <<>>} :
          EndPass("discover", "discovered", align)
    BY <1>11, Zenon DEF Discovered
  <2>2. align \in BOOLEAN
    BY Zenon
  <2> QED
    BY <2>1, <2>2, EndPassStep
<1>12. CASE Prolog
  <2>1. PICK large \in BOOLEAN, k \in Constants, next \in {"ready", "emit"} :
          /\ phase = "discovered" /\ s' = prolog(Quiet, large, k)
          /\ phase' = next /\ UNCHANGED <<saved, asm>>
    BY <1>12 DEF Prolog
  <2>2. Pass(s) /\ Quiet = Silent(s) /\ k \in Keys
    BY DEF PoolInv, Quiet, Silent, Keys
  <2>3. Continues(s, Quiet)
    BY <2>2, SilentContinues
  <2> QED
    BY <2>1, <2>2, <2>3, BeginStep
<1>13. CASE SkipDryRun
  <2>1. PICK large \in BOOLEAN, k \in Constants, align \in BOOLEAN :
          /\ phase = "start" /\ s' = prolog(Start(Quiet, align), large, k)
          /\ phase' = "emit" /\ UNCHANGED <<saved, asm>>
    BY <1>13 DEF SkipDryRun
  <2>2. Pass(s) /\ Quiet = Silent(s) /\ k \in Keys
    BY DEF PoolInv, Quiet, Silent, Keys
  <2>3. Continues(s, Quiet) /\ Quiet.it = s.it
    BY <2>2, SilentContinues
  <2>4. s.it = 0
    BY <2>1, <2>2, Zenon DEF PoolInv, Pass
  <2>5. Continues(Quiet, Start(Quiet, align))
    BY <2>3, <2>4, StartContinues DEF Continues
  <2>6. Continues(s, Start(Quiet, align))
    BY <2>3, <2>5 DEF Continues
  <2> QED
    BY <2>1, <2>2, <2>6, BeginStep
<1>14. CASE Rehearse
  BY <1>14, StartPassStep DEF Rehearse
<1>15. CASE Rehearsed
  BY <1>15, EndPassStep, Zenon DEF Rehearsed
<1>16. CASE Epilog
  BY <1>16, EpilogStep
<1> QED
  BY <1>1, <1>2, <1>3, <1>4, <1>5, <1>6, <1>7, <1>8, <1>9, <1>10, <1>11, <1>12,
     <1>13, <1>14, <1>15, <1>16, SMTT(40) DEF Next

(* The invariant holds before the first function. *)
LEMMA PoolInit ==
  ASSUME Counting
  PROVE  Init => PoolInv /\ SpanInv
<1>1. 0 \in 0 .. MaxAsm /\ "start" \in Phases
  BY BlockAssumption DEF Phases
<1>2. Reserve
  BY ReserveAssumption DEF Reserve
<1> SUFFICES ASSUME Init PROVE PoolInv /\ SpanInv
  OBVIOUS
<1>3. s = Idle /\ saved = Idle /\ phase = "start" /\ asm = 0
  BY DEF Init
<1>4. Idle.dry = FALSE
  BY IdlePass DEF Pass, Common
<1>5. PoolInv
  <2>0. /\ (phase \in {"discover", "rehearse"}) = FALSE
        /\ (phase \in {"ready", "rehearse", "emit"}) = FALSE
        /\ (phase = "rehearse") = FALSE
    BY <1>3
  <2>1. s.dry = (phase \in {"discover", "rehearse"})
    BY <1>3, <1>4, <2>0, Zenon
  <2>2. /\ s.gen = (phase \in {"ready", "rehearse", "emit"})
        /\ saved.gen = (phase = "rehearse")
    BY <1>3, <2>0, IdlePass, Zenon
  <2>3. Pass(s) /\ Pass(saved) /\ ~saved.dry /\ saved.it = 0 /\ phase # "ready"
    BY <1>3, IdlePass
  <2> QED
    BY <1>1, <1>3, <2>1, <2>2, <2>3 DEF PoolInv
<1>6. SpanInv
  BY <1>2, <1>3, <1>4, IdlePass DEF SpanInv
<1> QED
  BY <1>5, <1>6

-----------------------------------------------------------------------------
(* The theorems, with what the library shows. *)
INSTANCE FiniteSetTheorems

(* A set of numbers has a least one, and finite sets have a size. *)
LEMMA CountingHolds == Counting
<1>1. ASSUME NEW T, T \subseteq Nat, T # {}
      PROVE  \E m \in T : \A k \in T : m <= k
  <2>1. PICK m \in T : \A k \in T : ~(<<k, m>> \in OpToRel(<, Nat))
    BY <1>1, NatLessThanWellFounded, WFMin, Zenon
  <2>2. \A k \in T : ~(k < m)
    BY <1>1, <2>1, Zenon DEF OpToRel
  <2> QED
    BY <1>1, <2>2
<1>2. \A T : IsFiniteSet(T) => Cardinality(T) \in Nat
  BY FS_CardinalityType, Zenon
<1>3. ASSUME NEW T, NEW R, IsFiniteSet(T), R \subseteq T
      PROVE  IsFiniteSet(R) /\ Cardinality(R) <= Cardinality(T)
  BY <1>3, FS_Subset, Zenon
<1>4. ASSUME NEW T, NEW x, IsFiniteSet(T), x \notin T
      PROVE  Cardinality(T \cup {x}) = Cardinality(T) + 1
  BY <1>4, FS_AddElement, Zenon
<1> QED
  BY <1>1, <1>2, <1>3, <1>4, Zenon DEF Counting

(* The invariant holds always. *)
LEMMA PoolAlways == Spec => []PoolInv
<1>1. Init => PoolInv
  BY PoolInit, CountingHolds
<1>2. PoolInv /\ [Next]_vars => PoolInv'
  BY PoolNext, CountingHolds
<1> QED
  BY <1>1, <1>2, PTL DEF Spec

(* The pool, the window, the IT count and the phase keep their values, in  *)
(* functions of any size and with any limits.                              *)
THEOREM PoolTypes == Spec => []TypeOK
<1>1. PoolInv => TypeOK
  <2> SUFFICES ASSUME PoolInv PROVE TypeOK
    OBVIOUS
  <2>1. Common(s) /\ s.it \in Its
    BY DEF PoolInv, Pass
  <2>2. /\ s.count <= Len(s.pool)
        /\ s.count = 0 <=> s.first = -1
        /\ \A k \in Keys : s.table[k] \in 0 .. Len(s.pool)
    BY <2>1 DEF Common
  <2> QED
    BY <2>1, <2>2 DEF PoolInv, TypeOK, Its
<1> QED
  BY <1>1, PoolAlways, PTL

(* Every load reads the literal it was emitted for, whatever was shared,   *)
(* flushed, rehearsed or found in the cache before.                        *)
THEOREM LoadsReadLiterals == Spec => []ReadsItsLiteral
<1>1. PoolInv => ReadsItsLiteral
  <2> SUFFICES ASSUME PoolInv PROVE ReadsItsLiteral
    OBVIOUS
  <2>1. Reads(s.out)
    BY NoOutReads, Zenon DEF PoolInv, Pass, RealOK
  <2> QED
    BY <2>1, SMTT(40) DEF Reads, ReadsItsLiteral
<1> QED
  BY <1>1, PoolAlways, PTL

(* What th_pool_span_after measures is what th_literal_pool_generate would *)
(* write.                                                                  *)
THEOREM WindowIsExact == Spec => []WindowExact
<1>1. PoolInv => WindowExact
  <2> SUFFICES ASSUME PoolInv, ~s.dry PROVE
        /\ s.bytes = Sums(s.pool)[Len(s.pool)]
        /\ s.pool # <<>> => s.first = s.pool[1].patch
        /\ \A i \in DOMAIN s.pool : s.first <= s.pool[i].patch
    BY DEF WindowExact
  <2>1. RealOK(s)
    BY SMTT(40) DEF PoolInv, Pass
  <2>2. DOMAIN s.pool = 1 .. Len(s.pool)
    BY <2>1 DEF RealOK, Linked
  <2> QED
    BY <2>1, <2>2, Zenon DEF RealOK
<1> QED
  BY <1>1, PoolAlways, PTL

(* The internal error of th_literal_pool_generate is never raised, if the  *)
(* inline assembly of a function is shorter than the slack.                *)
THEOREM LiteralsInRange == Spec => []InRange
<1>1. Init => SpanInv
  BY PoolInit, CountingHolds
<1>2. PoolInv /\ SpanInv /\ [Next]_vars => SpanInv'
  BY PoolNext, CountingHolds
<1>3. PoolInv /\ SpanInv => InRange
  <2> SUFFICES ASSUME PoolInv, SpanInv PROVE InRange
    BY Zenon
  <2>1. Reaches(s.out)
    BY NoOutReads DEF PoolInv, SpanInv, Pass, Fits
  <2> QED
    BY <2>1 DEF Reaches, InRange
<1> QED
  BY <1>1, <1>2, <1>3, PoolAlways, PTL DEF Spec

(* No pool is written into an IT block, in a dry pass or in the real one. *)
THEOREM ITBlocksWhole == Spec => WholeITBlocks
<1>1. PoolInv /\ [Next]_vars => [s.it > 0 => s'.ind - s.ind <= 4]_vars
  <2> SUFFICES ASSUME PoolInv, Next, s.it > 0 PROVE s'.ind - s.ind <= 4
    OBVIOUS
  <2>0. Common(s)
    BY DEF PoolInv, Pass
  <2>1. s.it \in Nat /\ s.it # 0
    BY <2>0 DEF Common
  <2>2. InPass
    BY DEF InPass
  <2>3. Emits(Quiet) /\ Quiet.it = s.it /\ Quiet.ind = s.ind
    BY <2>2, QuietEmits
  <2>4. phase \in {"rehearse", "emit"}
    BY <2>1, <2>2, QuietEmits, Zenon DEF PoolInv, Pass
  <2>5. CASE Instruction
    <3>1. PICK size \in {2, 4} : s' = ot(Quiet, size, 0)
      BY <2>5 DEF Instruction, Apply
    <3> QED
      BY <2>3, <3>1, OtContinues, CountingHolds DEF Emits
  <2>6. CASE LoadConstant
    <3>1. PICK k \in Keys, short \in BOOLEAN :
            s' = load_full_const(Quiet, k, 4, short)
      BY <2>6 DEF LoadConstant, Apply
    <3> QED
      BY <2>3, <3>1, LoadContinues, CountingHolds
  <2>7. CASE LoadPair
    <3>1. PICK k \in Constants : s' = load_full_const(Quiet, k, 8, FALSE)
      BY <2>7, Zenon DEF LoadPair, Apply
    <3>2. k \in Keys
      BY DEF Keys
    <3> QED
      BY <2>3, <3>1, <3>2, LoadContinues, CountingHolds, Zenon
  <2>8. ~(IfThen \/ LoadThroughGot \/ SwitchTable \/ SwitchLoad \/ InlineAsm)
    BY <2>1 DEF IfThen, LoadThroughGot, SwitchTable, Dispatch, SwitchLoad, InlineAsm
  <2>9. ~(Discover \/ Discovered \/ Prolog \/ SkipDryRun)
    BY <2>1, <2>4, Zenon DEF Discover, Discovered, Prolog, SkipDryRun, StartPass, EndPass
  <2>10. ~(Rehearse \/ Rehearsed \/ Epilog)
    BY <2>1, <2>4, Zenon DEF Rehearse, Rehearsed, Epilog, StartPass, EndPass
  <2> QED
    BY <2>5, <2>6, <2>7, <2>8, <2>9, <2>10 DEF Next
<1> QED
  BY <1>1, PoolAlways, PTL DEF Spec, WholeITBlocks

(* A pool that SWITCH_TABLE writes lies before its dispatch. *)
THEOREM DispatchWhole == Spec => WholeDispatch
<1> DEFINE Whole ==
      \A n \in TableSizes, spilled \in BOOLEAN :
        Dispatch(n, spilled) /\ s'.out # NoOut =>
          s'.ind \in {s'.out.end + SwitchTableSize(n) + reload :
                        reload \in IF spilled THEN {0, 4} ELSE {0}}
<1>1. PoolInv /\ [Next]_vars => [Whole]_vars
  <2> SUFFICES ASSUME PoolInv, NEW n \in TableSizes, NEW spilled \in BOOLEAN,
                      Dispatch(n, spilled), s'.out # NoOut
               PROVE  s'.ind \in {s'.out.end + SwitchTableSize(n) + reload :
                                    reload \in IF spilled THEN {0, 4} ELSE {0}}
    OBVIOUS
  <2>1. InPass /\ s.it = 0 /\ s' = switch_table(Quiet, n, spilled)
    BY DEF Dispatch, Apply
  <2>2. n \in Nat \ {0}
    BY SizesAssumption
  <2>3. Emits(Quiet) /\ Quiet.it = 0 /\ Quiet.out = NoOut
    BY <2>1, QuietEmits, SMTT(40)
  <2>4. s'.ind = s'.out.end + SwitchTableSize(n) + (IF spilled THEN 4 ELSE 0)
    BY <2>1, <2>2, <2>3, SwitchTableContinues, CountingHolds
  <2> QED
    BY <2>4
<1> QED
  BY <1>1, PoolAlways, PTL DEF Spec, WholeDispatch
=============================================================================
