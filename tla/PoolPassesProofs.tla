-------------------------- MODULE PoolPassesProofs --------------------------
(***************************************************************************)
(* The rehearsal and the real pass for every reach, slack, cushion and     *)
(* function: with the same branches they have the same window, a fused CBZ *)
(* reaches its target, and so does a narrow branch over the pools that its *)
(* check allowed for.                                                      *)
(***************************************************************************)
EXTENDS PoolPasses, PoolOpsProofs

-----------------------------------------------------------------------------
(* What relates both passes. *)

Budget == RangeLimit - FlushSlack

(* From the branch b to here, in either pass, and the literals since.      *)
DryDist(b, d) == d.ind - b.from

RealDist(b, r) == r.ind - b.at

Since(b, d) == Len(d.pool) - b.entries

(* The pair literals that are found, and maybe pending with two words. *)
SeenPairs(r) == {k \in PairLiterals : r.table[k] # None}

BranchOK(b) ==
  b \in [kind : {"b", "cbz"}, from : Nat, at : Nat, entries : Nat, span : Nat,
         bytes : Nat, pads : Nat, shrink : Nat]

(* While the real pass has written no pool behind the branch, it stays     *)
(* behind the rehearsal: the bytes it leaves out outweigh its pads.  A pad *)
(* that the rehearsal lacks makes their addresses agree modulo a word, so  *)
(* the next such pad needs another difference first.                       *)
Ahead(b, d, r) ==
  LET lead == DryDist(b, d) - RealDist(b, r)
  IN  /\ lead + 2 * b.pads >= IF b.kind = "cbz" THEN 4 ELSE 2
      /\ b.kind = "cbz" => lead >= IF d.ind % 4 = r.ind % 4 THEN 2 ELSE 4

(* What is pending then has been there at the branch or was loaded since. *)
Unbroken(b, d, r) ==
  /\ Ahead(b, d, r)
  /\ r.bytes <= b.bytes + 2 * RealDist(b, r)
  /\ r.bytes <= b.bytes + 4 * Since(b, d) + 4 * Cardinality(SeenPairs(r))
  /\ b.span > 0 => /\ r.count # 0 /\ r.first <= b.at
                   /\ b.span = (b.at - r.first) + 14 + b.bytes
  /\ b.span = 0 => b.bytes = 0 /\ (r.count # 0 => b.at <= r.first)

(* The range is too wide for a narrow branch, or the check of a CBZ finds  *)
(* the pool too close.                                                     *)
TooWide(b, d) ==
  \E n \in {0} \cup ITLengths : 3 * (DryDist(b, d) + 2 * b.pads) + 12 * n + 8 > Budget

TooClose(b, d) == b.span + DryDist(b, d) + 4 * Since(b, d) >= Budget - Cushion

(* The real pass has written a pool behind the branch. *)
Broken(b, d, r) ==
  /\ r.count # 0 => b.at < r.first
  /\ b.span = 0 => TooWide(b, d)
  /\ b.span > 0 /\ b.kind = "cbz" => TooClose(b, d)

(* All that pools have added to the range, or will add if written now. *)
Growth(b, d, r) ==
  RealDist(b, r) + r.bytes + (IF r.count = 0 THEN 0 ELSE 6)
    <= DryDist(b, d) + 2 * b.pads + b.bytes + 14 * Since(b, d) + 6

Follows(b, d, r) ==
  /\ BranchOK(b) /\ 2 <= RealDist(b, r) /\ 0 <= DryDist(b, d) /\ 0 <= Since(b, d)
  /\ Growth(b, d, r)
  /\ Unbroken(b, d, r) \/ Broken(b, d, r)

(* The same with k bytes just emitted, for which there may be a literal.   *)
Loading(b, d, r, k) ==
  /\ Follows(b, d, r) /\ 2 <= RealDist(b, r) - k
  /\ \/ Unbroken(b, d, r) /\ r.bytes + 2 * k <= b.bytes + 2 * RealDist(b, r)
     \/ Broken(b, d, r)

(* The relation between the passes that every operation keeps. *)
Related(b, short, d, r) ==
  /\ Together(d, r)
  /\ ~short => Same(d, r)
  /\ b # NoBranch => Follows(b, d, r)

(* The inductive invariant. *)
PassesInv ==
  /\ Related(branch, shorter, dry, real) /\ dry.it = 0 /\ shorter \in BOOLEAN

-----------------------------------------------------------------------------
(* Both passes behind a narrow branch. *)

(* The numbers of a branch. *)
LEMMA BranchNumbers ==
  ASSUME NEW b, BranchOK(b)
  PROVE  /\ b.kind \in {"b", "cbz"} /\ b.from \in Nat /\ b.at \in Nat
         /\ b.entries \in Nat /\ b.span \in Nat /\ b.bytes \in Nat /\ b.pads \in Nat
BY DEF BranchOK

(* The pair literals that are found are some of all. *)
LEMMA SeenBound ==
  ASSUME Counting, NEW r
  PROVE  /\ IsFiniteSet(SeenPairs(r)) /\ Cardinality(SeenPairs(r)) \in Nat
         /\ Cardinality(PairLiterals) \in Nat
         /\ Cardinality(SeenPairs(r)) <= Cardinality(PairLiterals)
<1>1. IsFiniteSet(PairLiterals)
  BY InputAssumption, Zenon
<1>2. SeenPairs(r) \subseteq PairLiterals
  BY Zenon DEF SeenPairs
<1> QED
  BY <1>1, <1>2, Zenon DEF Counting

(* A literal for known keys: they are found, and a new one counts. *)
LEMMA SeenGrows ==
  ASSUME Counting, NEW r, NEW u, NEW known,
         \A k \in Keys : u.table[k] = None <=> r.table[k] = None /\ k \notin known
  PROVE  /\ Cardinality(SeenPairs(r)) <= Cardinality(SeenPairs(u))
         /\ \A k \in PairLiterals :
              known = {k} /\ r.table[k] = None =>
                Cardinality(SeenPairs(u)) = Cardinality(SeenPairs(r)) + 1
<1>1. IsFiniteSet(SeenPairs(r)) /\ IsFiniteSet(SeenPairs(u))
  BY SeenBound, Zenon
<1>2. PairLiterals \subseteq Keys
  BY InputAssumption, Zenon
<1>3. SeenPairs(r) \subseteq SeenPairs(u)
  BY <1>2, Zenon DEF SeenPairs
<1>4. ASSUME NEW k \in PairLiterals, known = {k}, r.table[k] = None
      PROVE  Cardinality(SeenPairs(u)) = Cardinality(SeenPairs(r)) + 1
  <2>1. SeenPairs(u) = SeenPairs(r) \cup {k}
    BY <1>2, <1>4, Zenon DEF SeenPairs
  <2>2. k \notin SeenPairs(r)
    BY <1>4, Zenon DEF SeenPairs
  <2> QED
    BY <1>1, <2>1, <2>2, Zenon DEF Counting
<1> QED
  BY <1>1, <1>3, <1>4, Zenon DEF Counting

(* The numbers of the window. *)
LEMMA BudgetNumbers ==
  /\ Budget \in Int /\ Budget > 0 /\ Cushion \in Nat
  /\ \A c \in {0} \cup ITLengths : c \in Nat
<1>1. Budget \in Int /\ Budget > 0
  BY ReachAssumption DEF Budget
<1>2. \A c \in {0} \cup ITLengths : c \in Nat
  BY BlockAssumption
<1> QED
  BY <1>1, <1>2, BranchAssumption, Zenon

(* The distances, written out. *)
LEMMA Distances ==
  ASSUME NEW b, NEW d, NEW r, BranchOK(b), Together(d, r)
  PROVE  /\ d.ind \in Nat /\ r.ind \in Nat /\ Len(d.pool) \in Nat
         /\ r.bytes \in Nat /\ r.first \in Int /\ r.count \in Nat
         /\ DryDist(b, d) = d.ind - b.from /\ DryDist(b, d) \in Int
         /\ RealDist(b, r) = r.ind - b.at /\ RealDist(b, r) \in Int
         /\ Since(b, d) = Len(d.pool) - b.entries /\ Since(b, d) \in Int
<1>1. b.from \in Nat /\ b.at \in Nat /\ b.entries \in Nat
  BY BranchNumbers, Zenon
<1>2. /\ d.ind \in Nat /\ r.ind \in Nat /\ Len(d.pool) \in Nat
      /\ r.bytes \in Nat /\ r.first \in Int /\ r.count \in Nat
  BY PassNumbers, Zenon DEF Together
<1>3. \A x \in Nat, y \in Nat : x - y \in Int
  OBVIOUS
<1>4. d.ind - b.from \in Int /\ r.ind - b.at \in Int /\ Len(d.pool) - b.entries \in Int
  BY <1>1, <1>2, <1>3, Zenon
<1> QED
  BY <1>2, <1>4, Zenon DEF DryDist, RealDist, Since

(* What a step does to the rehearsal. *)
Advanced(b, d, d2, m) ==
  /\ Since(b, d2) = Since(b, d)
  /\ DryDist(b, d2) >= DryDist(b, d) + m
  /\ d2.ind # d.ind + m => DryDist(b, d2) >= DryDist(b, d) + m + 4

(* The rehearsal goes on, over its pool or not. *)
LEMMA DryAdvanced ==
  ASSUME NEW b, NEW d, NEW d2, NEW m \in Nat, BranchOK(b), PassOK(d), d.dry = TRUE,
         PassOK(d2), Stays(d, d2, m) \/ Clears(d, d2, m)
  PROVE  Advanced(b, d, d2, m)
<1>1. b.from \in Nat /\ b.entries \in Nat /\ d.ind \in Nat /\ d2.ind \in Nat
  BY BranchNumbers, PassNumbers, Zenon
<1>2. Len(d2.pool) = Len(d.pool)
  BY Zenon DEF Stays, Clears
<1>3. d2.ind = d.ind + m \/ d.ind + 4 + m <= d2.ind
  BY Zenon DEF Stays, Clears
<1>4. /\ d2.ind - b.from >= (d.ind - b.from) + m
      /\ d2.ind # d.ind + m => d2.ind - b.from >= (d.ind - b.from) + m + 4
  BY <1>1, <1>3
<1> QED
  BY <1>2, <1>4, Zenon DEF Advanced, DryDist, Since

(* A range that is too wide, or a pool that is too close, stays so. *)
LEMMA BrokenStays ==
  ASSUME NEW b, NEW d, NEW r, NEW d2, NEW r2, BranchOK(b),
         DryDist(b, d) \in Int, DryDist(b, d2) \in Int, Since(b, d) \in Int,
         Since(b, d2) \in Int, DryDist(b, d) <= DryDist(b, d2),
         Since(b, d) <= Since(b, d2), Broken(b, d, r),
         r2.count # 0 => b.at < r2.first
  PROVE  Broken(b, d2, r2)
<1>1. b.span \in Nat /\ b.pads \in Nat
  BY BranchNumbers, Zenon
<1>2. TooWide(b, d) => TooWide(b, d2)
  <2>1. SUFFICES ASSUME TooWide(b, d) PROVE TooWide(b, d2)
    BY Zenon
  <2>2. PICK n \in {0} \cup ITLengths :
          3 * (DryDist(b, d) + 2 * b.pads) + 12 * n + 8 > Budget
    BY <2>1, Zenon DEF TooWide
  <2>3. n \in Nat /\ Budget \in Int
    BY BudgetNumbers, Zenon
  <2>4. 3 * (DryDist(b, d2) + 2 * b.pads) + 12 * n + 8 > Budget
    BY <1>1, <2>2, <2>3
  <2> QED
    BY <2>4, Zenon DEF TooWide
<1>3. TooClose(b, d) => TooClose(b, d2)
  <2>1. SUFFICES ASSUME b.span + DryDist(b, d) + 4 * Since(b, d) >= Budget - Cushion
                 PROVE  b.span + DryDist(b, d2) + 4 * Since(b, d2) >= Budget - Cushion
    BY Zenon DEF TooClose
  <2>2. Budget \in Int /\ Cushion \in Nat
    BY BudgetNumbers, Zenon
  <2> QED
    BY <1>1, <2>1, <2>2
<1> QED
  BY <1>2, <1>3, Zenon DEF Broken

(* While nothing is written the real pass stays behind. *)
LEMMA AheadStays ==
  ASSUME NEW b, NEW d, NEW r, NEW d2, NEW r2, NEW m \in Nat, NEW n \in Nat,
         BranchOK(b), Together(d, r), Together(d2, r2), n = m \/ n + 2 <= m,
         Advanced(b, d, d2, m), r2.ind = r.ind + n, Ahead(b, d, r)
  PROVE  Ahead(b, d2, r2)
<1> DEFINE lead == DryDist(b, d) - RealDist(b, r)
           lead2 == DryDist(b, d2) - RealDist(b, r2)
<1>1. b.pads \in Nat
  BY BranchNumbers, Zenon
<1>2. /\ DryDist(b, d) \in Int /\ DryDist(b, d2) \in Int /\ RealDist(b, r) \in Int
      /\ r.ind \in Nat /\ d.ind \in Nat /\ b.at \in Nat
      /\ RealDist(b, r) = r.ind - b.at /\ RealDist(b, r2) = r2.ind - b.at
      /\ DryDist(b, d) = d.ind - b.from /\ DryDist(b, d2) = d2.ind - b.from
      /\ b.from \in Nat
  BY Distances, BranchNumbers, Zenon
<1>3. /\ DryDist(b, d2) >= DryDist(b, d) + m
      /\ (d2.ind # d.ind + m => DryDist(b, d2) >= DryDist(b, d) + m + 4)
  BY Zenon DEF Advanced
<1>4. RealDist(b, r2) = RealDist(b, r) + n
  BY <1>2
<1>5. lead \in Int /\ lead2 \in Int
  BY <1>2, <1>4
<1>6. lead2 >= lead + 2 \/ (lead2 = lead /\ d2.ind = d.ind + m /\ n = m)
  <2>1. CASE d2.ind = d.ind + m
    <3>1. DryDist(b, d2) = DryDist(b, d) + m
      BY <1>2, <2>1
    <3>2. lead2 = lead + (m - n)
      BY <1>2, <1>4, <3>1
    <3> QED
      BY <1>5, <2>1, <3>2
  <2>2. CASE d2.ind # d.ind + m
    <3>1. DryDist(b, d2) >= DryDist(b, d) + m + 4
      BY <1>3, <2>2, Zenon
    <3> QED
      BY <1>2, <1>4, <3>1
  <2> QED
    BY <2>1, <2>2, Zenon
<1>7. /\ lead + 2 * b.pads >= (IF b.kind = "cbz" THEN 4 ELSE 2)
      /\ (b.kind = "cbz" => lead >= IF d.ind % 4 = r.ind % 4 THEN 2 ELSE 4)
  BY Zenon DEF Ahead
<1>8. /\ lead2 + 2 * b.pads >= (IF b.kind = "cbz" THEN 4 ELSE 2)
      /\ (b.kind = "cbz" => lead2 >= IF d2.ind % 4 = r2.ind % 4 THEN 2 ELSE 4)
  <2> HIDE DEF lead, lead2
  <2>0. lead2 + 2 * b.pads >= lead + 2 * b.pads
    BY <1>1, <1>5, <1>6
  <2>1. lead2 + 2 * b.pads >= (IF b.kind = "cbz" THEN 4 ELSE 2)
    <3>1. lead + 2 * b.pads \in Int /\ lead2 + 2 * b.pads \in Int
      BY <1>1, <1>5
    <3>2. lead + 2 * b.pads >= (IF b.kind = "cbz" THEN 4 ELSE 2)
      BY <1>7, Zenon
    <3> QED
      BY <2>0, <3>1, <3>2
  <2>2. ASSUME b.kind = "cbz"
        PROVE  lead2 >= IF d2.ind % 4 = r2.ind % 4 THEN 2 ELSE 4
    <3>1. CASE lead2 >= lead + 2
      <4>1. lead >= IF d.ind % 4 = r.ind % 4 THEN 2 ELSE 4
        BY <1>7, <2>2, Zenon
      <4>2. lead >= 2
        BY <4>1, <1>5
      <4> QED
        BY <1>5, <3>1, <4>2
    <3>2. CASE lead2 = lead /\ d2.ind = d.ind + m /\ n = m
      <4>1. d2.ind % 4 = r2.ind % 4 <=> d.ind % 4 = r.ind % 4
        <5>1. d.ind \in Nat /\ r.ind \in Nat /\ d2.ind = d.ind + m /\ r2.ind = r.ind + m
          BY <1>2, <3>2, Zenon
        <5> QED
          BY <5>1
      <4> QED
        BY <1>7, <2>2, <3>2, <4>1, Zenon
    <3> QED
      BY <1>6, <3>1, <3>2, Zenon
  <2> QED
    BY <2>1, <2>2, Zenon
<1> QED
  BY <1>8, Zenon DEF Ahead

(* The real pass goes on without a pool. *)
LEMMA UnbrokenStays ==
  ASSUME NEW b, NEW d, NEW r, NEW d2, NEW r2, NEW m \in Nat, NEW n \in Nat,
         BranchOK(b), Together(d, r), Together(d2, r2), n = m \/ n + 2 <= m,
         Advanced(b, d, d2, m), Stays(r, r2, n), Unbroken(b, d, r)
  PROVE  /\ Unbroken(b, d2, r2)
         /\ r2.bytes + 2 * n <= b.bytes + 2 * RealDist(b, r2)
<1>1. /\ r2.ind = r.ind + n /\ r2.count = r.count /\ r2.first = r.first
      /\ r2.bytes = r.bytes /\ r2.table = r.table
  BY Zenon DEF Stays
<1>2. /\ RealDist(b, r) \in Int /\ r.ind \in Nat /\ b.at \in Nat /\ b.bytes \in Nat
      /\ r.bytes \in Nat
      /\ RealDist(b, r) = r.ind - b.at /\ RealDist(b, r2) = r2.ind - b.at
  BY Distances, BranchNumbers, Zenon
<1>3. Since(b, d2) = Since(b, d)
  BY Zenon DEF Advanced
<1>4. SeenPairs(r2) = SeenPairs(r)
  BY <1>1, Zenon DEF SeenPairs
<1>5. Ahead(b, d2, r2)
  BY <1>1, AheadStays, Zenon DEF Unbroken
<1>6. /\ r2.bytes + 2 * n <= b.bytes + 2 * RealDist(b, r2)
      /\ r2.bytes <= b.bytes + 2 * RealDist(b, r2)
  <2>1. r.bytes <= b.bytes + 2 * RealDist(b, r)
    BY Zenon DEF Unbroken
  <2>2. r2.ind = r.ind + n /\ r2.bytes = r.bytes
    BY <1>1, Zenon
  <2> QED
    BY <1>2, <2>1, <2>2
<1> QED
  BY <1>1, <1>3, <1>4, <1>5, <1>6, Zenon DEF Unbroken

(* The real pass writes its pool for the first time behind the branch: the *)
(* window was open at the branch, and the check of a CBZ sees the pool     *)
(* coming, or the range alone has filled it.                               *)
LEMMA UnbrokenBreaks ==
  ASSUME Counting,
         NEW b, NEW d, NEW r, NEW d2, NEW r2, NEW m \in Nat, NEW n \in Nat,
         NEW c \in {0} \cup ITLengths,
         BranchOK(b), Together(d, r), Together(d2, r2), n <= m,
         Advanced(b, d, d2, m), Due(r, n + 12 * c), r2.count = 0, Unbroken(b, d, r)
  PROVE  Broken(b, d2, r2)
<1>1. /\ b.at \in Nat /\ b.bytes \in Nat /\ b.span \in Nat /\ b.pads \in Nat
  BY BranchNumbers, Zenon
<1>2. /\ RealDist(b, r) \in Int /\ r.ind \in Nat /\ r.bytes \in Nat /\ r.first \in Int
      /\ RealDist(b, r) = r.ind - b.at /\ DryDist(b, d) \in Int
      /\ DryDist(b, d2) \in Int /\ Since(b, d) \in Int
  BY Distances, Zenon
<1>3. DryDist(b, d2) >= DryDist(b, d) + m /\ Since(b, d2) = Since(b, d)
  BY Zenon DEF Advanced
<1>4. c \in Nat /\ Budget \in Int /\ Cushion \in Nat
  BY BudgetNumbers, Zenon
<1>5. r.count # 0 /\ (r.ind - r.first) + (n + 12 * c) + 6 + r.bytes >= Budget
  BY Zenon DEF Due, Budget
<1>6. ASSUME b.span = 0
      PROVE  TooWide(b, d2)
  <2>1. b.bytes = 0 /\ b.at <= r.first /\ r.bytes <= b.bytes + 2 * RealDist(b, r)
    BY <1>5, <1>6, Zenon DEF Unbroken
  <2>2. (DryDist(b, d) - RealDist(b, r)) + 2 * b.pads >= 2
    <3>1. (DryDist(b, d) - RealDist(b, r)) + 2 * b.pads
            >= IF b.kind = "cbz" THEN 4 ELSE 2
      BY Zenon DEF Unbroken, Ahead
    <3> QED
      BY <1>1, <1>2, <3>1
  <2>3. 3 * RealDist(b, r) + n + 12 * c + 6 >= Budget
    BY <1>1, <1>2, <1>4, <1>5, <2>1
  <2>4. DryDist(b, d2) + 2 * b.pads >= RealDist(b, r) + n + 2
    BY <1>1, <1>2, <1>3, <2>2
  <2>5. 3 * (DryDist(b, d2) + 2 * b.pads) + 12 * c + 8 > Budget
    BY <1>1, <1>2, <1>4, <2>3, <2>4
  <2> QED
    BY <2>5, Zenon DEF TooWide
<1>7. ASSUME b.span > 0, b.kind = "cbz"
      PROVE  TooClose(b, d2)
  <2> DEFINE seen == Cardinality(SeenPairs(r))
  <2>1. seen \in Nat /\ 12 * c + 4 * seen <= Cushion + 10
    <3>1. /\ seen \in Nat /\ Cardinality(PairLiterals) \in Nat
          /\ seen <= Cardinality(PairLiterals)
      BY SeenBound, Zenon
    <3>2. 12 * c + 4 * Cardinality(PairLiterals) <= Cushion + 10
      BY CushionAssumption, Zenon
    <3> HIDE DEF seen
    <3> QED
      BY <1>4, <3>1, <3>2
  <2>2. /\ b.span = (b.at - r.first) + 14 + b.bytes
        /\ r.bytes <= b.bytes + 4 * Since(b, d) + 4 * seen
    BY <1>7, Zenon DEF Unbroken
  <2>3. DryDist(b, d) - RealDist(b, r) >= 2
    <3>1. DryDist(b, d) - RealDist(b, r) >= IF d.ind % 4 = r.ind % 4 THEN 2 ELSE 4
      BY <1>7, Zenon DEF Unbroken, Ahead
    <3> QED
      BY <1>2, <3>1
  <2> HIDE DEF seen
  <2>4. RealDist(b, r) + b.span - 8 + n + 12 * c + (r.bytes - b.bytes) >= Budget
    BY <1>1, <1>2, <1>4, <1>5, <2>2
  <2>5. DryDist(b, d2) >= RealDist(b, r) + n + 2
    BY <1>2, <1>3, <2>3
  <2>6. b.span + DryDist(b, d2) + 4 * Since(b, d2) >= Budget - Cushion
    BY <1>1, <1>2, <1>3, <1>4, <2>1, <2>2, <2>4, <2>5
  <2> QED
    BY <2>6, Zenon DEF TooClose
<1> QED
  BY <1>6, <1>7, Zenon DEF Broken

(* Pools add no more than the literals and the branch over them. *)
LEMMA GrowthMoves ==
  ASSUME NEW b, NEW d, NEW r, NEW d2, NEW r2, NEW m \in Nat, NEW n \in Nat,
         BranchOK(b), Together(d, r), Together(d2, r2), n <= m,
         Advanced(b, d, d2, m), Growth(b, d, r),
         Stays(r, r2, n) \/ (r.count # 0 /\ Clears(r, r2, n))
  PROVE  Growth(b, d2, r2)
<1>1. b.at \in Nat /\ b.bytes \in Nat /\ b.pads \in Nat
  BY BranchNumbers, Zenon
<1>2. /\ RealDist(b, r) \in Int /\ r.ind \in Nat /\ r.bytes \in Nat
      /\ RealDist(b, r) = r.ind - b.at /\ RealDist(b, r2) = r2.ind - b.at
      /\ DryDist(b, d) \in Int /\ DryDist(b, d2) \in Int /\ Since(b, d) \in Int
      /\ r2.ind \in Nat
  BY Distances, Zenon
<1>3. DryDist(b, d2) >= DryDist(b, d) + m /\ Since(b, d2) = Since(b, d)
  BY Zenon DEF Advanced
<1> DEFINE allowed == DryDist(b, d) + 2 * b.pads + b.bytes + 14 * Since(b, d) + 6
           allowed2 == DryDist(b, d2) + 2 * b.pads + b.bytes + 14 * Since(b, d2) + 6
<1>4. allowed \in Int /\ allowed2 \in Int /\ allowed2 >= allowed + n
  BY <1>1, <1>2, <1>3
<1>5. RealDist(b, r) + r.bytes + (IF r.count = 0 THEN 0 ELSE 6) <= allowed
  BY Zenon DEF Growth
<1> HIDE DEF allowed, allowed2
<1>6. CASE Stays(r, r2, n)
  <2>1. r2.ind = r.ind + n /\ r2.bytes = r.bytes /\ r2.count = r.count
    BY <1>6, Zenon DEF Stays
  <2>2. RealDist(b, r2) = RealDist(b, r) + n
    BY <1>1, <1>2, <2>1
  <2>3. RealDist(b, r2) + r2.bytes + (IF r2.count = 0 THEN 0 ELSE 6) <= allowed2
    <3>1. \A x \in {0, 6} : RealDist(b, r) + r.bytes + x <= allowed
                => RealDist(b, r2) + r2.bytes + x <= allowed2
      BY <1>2, <1>4, <2>1, <2>2
    <3>2. (IF r.count = 0 THEN 0 ELSE 6) \in {0, 6}
      BY Zenon
    <3> QED
      BY <1>5, <2>1, <3>1, <3>2, Zenon
  <2> QED
    BY <2>3, Zenon DEF Growth, allowed2
<1>7. CASE r.count # 0 /\ Clears(r, r2, n)
  <2>1. /\ r2.count = 0 /\ r2.bytes = 0 /\ r2.ind <= r.ind + n + 6 + r.bytes
    BY <1>7, Zenon DEF Clears, Together
  <2>2. RealDist(b, r) + r.bytes + 6 <= allowed
    BY <1>5, <1>7, Zenon
  <2>3. RealDist(b, r2) + 0 + 0 <= allowed2
    BY <1>1, <1>2, <1>4, <2>1, <2>2
  <2> QED
    BY <2>1, <2>3, Zenon DEF Growth, allowed2
<1> QED
  BY <1>6, <1>7, Zenon

(* The same code, or less of it in the real pass. *)
LEMMA FollowsMoves ==
  ASSUME Counting,
         NEW b, NEW d, NEW r, NEW d2, NEW r2, NEW m \in Nat, NEW n \in Nat,
         NEW c \in {0} \cup ITLengths, n = m \/ n + 2 <= m, Together(d, r),
         Together(d2, r2), Moves(d, d2, m, c), Moves(r, r2, n, c), Follows(b, d, r)
  PROVE  Loading(b, d2, r2, n)
<1>1. /\ BranchOK(b) /\ 2 <= RealDist(b, r) /\ 0 <= DryDist(b, d)
      /\ 0 <= Since(b, d) /\ Growth(b, d, r)
      /\ (Unbroken(b, d, r) \/ Broken(b, d, r))
  BY Zenon DEF Follows
<1>2. n <= m
  OBVIOUS
<1>3. Advanced(b, d, d2, m)
  <2>1. PassOK(d) /\ d.dry = TRUE /\ PassOK(d2)
    BY Zenon DEF Together
  <2>2. Stays(d, d2, m) \/ Clears(d, d2, m)
    BY Zenon DEF Moves
  <2> QED
    BY <1>1, <2>1, <2>2, DryAdvanced, Zenon
<1>4. \/ Stays(r, r2, n)
      \/ Due(r, n + 12 * c) /\ r.count # 0 /\ Clears(r, r2, n)
  BY Zenon DEF Moves, Due
<1>5. Growth(b, d2, r2)
  BY <1>1, <1>2, <1>3, <1>4, GrowthMoves, Zenon
<1>6. /\ r.ind \in Nat /\ r2.ind \in Nat /\ b.at \in Nat
      /\ RealDist(b, r) = r.ind - b.at /\ RealDist(b, r2) = r2.ind - b.at
      /\ DryDist(b, d) \in Int /\ DryDist(b, d2) \in Int /\ Since(b, d) \in Int
  BY <1>1, Distances, BranchNumbers, Zenon
<1>7. r2.ind = r.ind + n \/ r.ind + 4 + n <= r2.ind
  BY <1>4, Zenon DEF Stays, Clears
<1>8. 2 <= RealDist(b, r2) - n /\ 2 <= RealDist(b, r2)
  <2>1. 2 <= RealDist(b, r)
    BY <1>1, Zenon
  <2> QED
    BY <1>6, <1>7, <2>1
<1>9. /\ DryDist(b, d) <= DryDist(b, d2) /\ 0 <= DryDist(b, d2)
      /\ Since(b, d2) = Since(b, d) /\ Since(b, d) <= Since(b, d2)
  <2>1. DryDist(b, d2) >= DryDist(b, d) + m /\ Since(b, d2) = Since(b, d)
    BY <1>3, Zenon DEF Advanced
  <2>2. 0 <= DryDist(b, d)
    BY <1>1, Zenon
  <2> QED
    BY <1>6, <2>1, <2>2
<1>10. \/ /\ Unbroken(b, d2, r2)
          /\ r2.bytes + 2 * n <= b.bytes + 2 * RealDist(b, r2)
       \/ Broken(b, d2, r2)
  <2>1. CASE Unbroken(b, d, r) /\ Stays(r, r2, n)
    BY <1>1, <1>3, <2>1, UnbrokenStays, Zenon
  <2>2. CASE Unbroken(b, d, r) /\ Due(r, n + 12 * c) /\ Clears(r, r2, n)
    <3>1. r2.count = 0
      BY <2>2, Zenon DEF Clears
    <3> QED
      BY <1>1, <1>2, <1>3, <2>2, <3>1, UnbrokenBreaks, Zenon
  <2>3. CASE Broken(b, d, r)
    <3>1. r2.count # 0 => b.at < r2.first
      BY <1>4, <2>3, Zenon DEF Broken, Stays, Clears
    <3> QED
      BY <1>1, <1>6, <1>9, <2>3, <3>1, BrokenStays, Zenon
  <2> QED
    BY <1>1, <1>4, <2>1, <2>2, <2>3, Zenon
<1>11. Follows(b, d2, r2)
  BY <1>1, <1>5, <1>8, <1>9, <1>10, Zenon DEF Follows
<1> QED
  BY <1>8, <1>10, <1>11, Zenon DEF Loading

(* A literal of two words is that of a pair, and not found before. *)
Paired(r, width, known) ==
  \E k \in PairLiterals : width = 8 /\ known = {k} /\ r.table[k] = None

(* Arithmetic of one literal more. *)
LEMMA LiteralSum ==
  ASSUME NEW x \in Int, NEW y \in Int
  PROVE  (x + 1) - y = (x - y) + 1
OBVIOUS

(* A literal is no wider than twice the bytes of its load. *)
LEMMA LiteralOfLoad ==
  ASSUME NEW p \in Nat, NEW w \in Nat, NEW k \in Nat, NEW x \in Nat, NEW y \in Int,
         w <= 2 * k, p + 2 * k <= x + 2 * y
  PROVE  p + w <= x + 2 * y
OBVIOUS

(* A literal of two words is a pair literal that was not found before. *)
LEMMA LiteralOfPair ==
  ASSUME NEW p \in Nat, NEW w, NEW x \in Nat, NEW s \in Int, NEW f \in Nat, NEW g \in Nat,
         (w \in {0, 4} /\ f <= g) \/ (w = 8 /\ g = f + 1), p <= x + 4 * s + 4 * f
  PROVE  p + w <= x + 4 * (s + 1) + 4 * g
OBVIOUS

(* Fourteen bytes for each entry are enough for a literal and its pool. *)
LEMMA LiteralGrowth ==
  ASSUME NEW x \in Int, NEW p \in Nat, NEW w \in Nat, w <= 8, NEW y \in Int,
         NEW f \in Nat, NEW g \in Nat, NEW s \in Int, NEW e \in Nat,
         x + p + e <= y + 2 * f + g + 14 * s + 6
  PROVE  x + (p + w) + 6 <= y + 2 * f + g + 14 * (s + 1) + 6
OBVIOUS

(* What is pending behind the branch, with one literal more. *)
LEMMA UnbrokenAdds ==
  ASSUME Counting,
         NEW b, NEW d, NEW r, NEW d2, NEW r2, NEW k \in Nat, NEW dwidth,
         NEW width \in Nat, NEW known, width <= 2 * k,
         width \in {0, 4} \/ Paired(r, width, known),
         BranchOK(b), Together(d, r), Together(d2, r2),
         Adds(d, d2, k, dwidth, known), Adds(r, r2, k, width, known),
         2 <= RealDist(b, r) - k, Unbroken(b, d, r),
         r.bytes + 2 * k <= b.bytes + 2 * RealDist(b, r)
  PROVE  Unbroken(b, d2, r2)
<1>1. /\ d2.ind = d.ind /\ r2.ind = r.ind /\ r2.count = r.count + 1
      /\ r2.bytes = r.bytes + width /\ Len(d2.pool) = Len(d.pool) + 1
      /\ r2.first = (IF r.count = 0 THEN r.ind - k ELSE r.first)
      /\ \A key \in Keys : r2.table[key] = None <=> r.table[key] = None /\ key \notin known
  BY Zenon DEF Adds
<1>2. /\ r.ind \in Nat /\ r.bytes \in Nat /\ r.first \in Int /\ r.count \in Nat
      /\ RealDist(b, r) \in Int /\ RealDist(b, r) = r.ind - b.at
      /\ Since(b, d) \in Int /\ Since(b, d) = Len(d.pool) - b.entries
      /\ Since(b, d2) = Len(d2.pool) - b.entries /\ Len(d.pool) \in Nat
      /\ b.at \in Nat /\ b.entries \in Nat /\ b.bytes \in Nat
  BY Distances, BranchNumbers, Zenon
<1>3. RealDist(b, r2) = RealDist(b, r) /\ DryDist(b, d2) = DryDist(b, d)
  BY <1>1, Zenon DEF RealDist, DryDist
<1>4. Since(b, d2) = Since(b, d) + 1
  <2>1. Len(d.pool) \in Int /\ b.entries \in Int
    BY <1>2
  <2>2. (Len(d.pool) + 1) - b.entries = (Len(d.pool) - b.entries) + 1
    BY <2>1, LiteralSum, Zenon
  <2> QED
    BY <1>1, <1>2, <2>2, Zenon
<1>5. Ahead(b, d2, r2)
  <2>1. Ahead(b, d, r)
    BY Zenon DEF Unbroken
  <2> QED
    BY <1>1, <1>3, <2>1, Zenon DEF Ahead
<1>6. r2.bytes <= b.bytes + 2 * RealDist(b, r2)
  <2>1. r.bytes + width <= b.bytes + 2 * RealDist(b, r)
    BY <1>2, LiteralOfLoad, Zenon
  <2> QED
    BY <1>1, <1>3, <2>1, Zenon
<1>7. r2.bytes <= b.bytes + 4 * Since(b, d2) + 4 * Cardinality(SeenPairs(r2))
  <2> DEFINE seen == Cardinality(SeenPairs(r))
             seen2 == Cardinality(SeenPairs(r2))
  <2>1. /\ seen <= seen2
        /\ (Paired(r, width, known) => seen2 = seen + 1)
    BY <1>1, SeenGrows, Zenon DEF Paired
  <2>2. seen \in Nat /\ seen2 \in Nat
    BY SeenBound, Zenon
  <2>3. r.bytes <= b.bytes + 4 * Since(b, d) + 4 * seen
    BY Zenon DEF Unbroken
  <2> HIDE DEF seen, seen2
  <2>4. (width \in {0, 4} /\ seen <= seen2) \/ (width = 8 /\ seen2 = seen + 1)
    BY <2>1, Zenon DEF Paired
  <2>5. r.bytes + width <= b.bytes + 4 * (Since(b, d) + 1) + 4 * seen2
    BY <1>2, <2>2, <2>3, <2>4, LiteralOfPair, Zenon
  <2> QED
    BY <1>1, <1>4, <2>5, Zenon DEF seen2
<1>8. r2.count # 0
  <2>1. \A x \in Nat : x + 1 # 0
    OBVIOUS
  <2> QED
    BY <1>1, <1>2, <2>1, Zenon
<1>9. b.span > 0 => /\ r2.count # 0 /\ r2.first <= b.at
                    /\ b.span = (b.at - r2.first) + 14 + b.bytes
  BY <1>1, <1>8, Zenon DEF Unbroken
<1>10. b.span = 0 => b.bytes = 0 /\ (r2.count # 0 => b.at <= r2.first)
  <2>1. b.at <= r.ind - k
    <3>1. \A x \in Nat, y \in Nat : 2 <= (x - y) - k => y <= x - k
      OBVIOUS
    <3> QED
      BY <1>2, <3>1, Zenon
  <2> QED
    BY <1>1, <2>1, Zenon DEF Unbroken
<1> QED
  BY <1>5, <1>6, <1>7, <1>9, <1>10, Zenon DEF Unbroken

(* It takes no more than a pool of its own would. *)
LEMMA GrowthAdds ==
  ASSUME NEW b, NEW d, NEW r, NEW d2, NEW r2, NEW width \in Nat, width <= 8,
         RealDist(b, r) \in Int, r.bytes \in Nat, DryDist(b, d) \in Int,
         b.pads \in Nat, b.bytes \in Nat, Since(b, d) \in Int, r2.count # 0,
         Growth(b, d, r), RealDist(b, r2) = RealDist(b, r),
         DryDist(b, d2) = DryDist(b, d), Since(b, d2) = Since(b, d) + 1,
         r2.bytes = r.bytes + width
  PROVE  Growth(b, d2, r2)
<1>1. RealDist(b, r) + r.bytes + (IF r.count = 0 THEN 0 ELSE 6)
        <= DryDist(b, d) + 2 * b.pads + b.bytes + 14 * Since(b, d) + 6
  BY Zenon DEF Growth
<1>2. PICK e \in Nat : RealDist(b, r) + r.bytes + e
        <= DryDist(b, d) + 2 * b.pads + b.bytes + 14 * Since(b, d) + 6
  <2>1. (IF r.count = 0 THEN 0 ELSE 6) \in Nat
    OBVIOUS
  <2> QED
    BY <1>1, <2>1, Zenon
<1>3. RealDist(b, r) + (r.bytes + width) + 6
        <= DryDist(b, d) + 2 * b.pads + b.bytes + 14 * (Since(b, d) + 1) + 6
  BY <1>2, LiteralGrowth
<1> QED
  BY <1>3, Zenon DEF Growth

(* A literal for the load that was just emitted. *)
LEMMA FollowsAdds ==
  ASSUME Counting,
         NEW b, NEW d, NEW r, NEW d2, NEW r2, NEW k \in Nat, NEW dwidth,
         NEW width \in Nat, NEW known, width <= 2 * k, width <= 8,
         width \in {0, 4} \/ Paired(r, width, known), Together(d, r),
         Together(d2, r2), Adds(d, d2, k, dwidth, known),
         Adds(r, r2, k, width, known), Loading(b, d, r, k)
  PROVE  Follows(b, d2, r2)
<1>1. /\ BranchOK(b) /\ 2 <= RealDist(b, r) /\ 0 <= DryDist(b, d)
      /\ 0 <= Since(b, d) /\ Growth(b, d, r) /\ 2 <= RealDist(b, r) - k
      /\ \/ /\ Unbroken(b, d, r)
            /\ r.bytes + 2 * k <= b.bytes + 2 * RealDist(b, r)
         \/ Broken(b, d, r)
  BY Zenon DEF Loading, Follows
<1>2. /\ d2.ind = d.ind /\ r2.ind = r.ind /\ r2.count = r.count + 1
      /\ r2.bytes = r.bytes + width /\ Len(d2.pool) = Len(d.pool) + 1
      /\ r2.first = (IF r.count = 0 THEN r.ind - k ELSE r.first)
  BY Zenon DEF Adds
<1>3. /\ r.ind \in Nat /\ r.bytes \in Nat /\ r.count \in Nat
      /\ RealDist(b, r) \in Int /\ RealDist(b, r) = r.ind - b.at
      /\ DryDist(b, d) \in Int /\ Since(b, d) \in Int
      /\ Since(b, d) = Len(d.pool) - b.entries /\ b.pads \in Nat
      /\ Since(b, d2) = Len(d2.pool) - b.entries /\ Len(d.pool) \in Nat
      /\ b.at \in Nat /\ b.entries \in Nat /\ b.bytes \in Nat
  BY <1>1, Distances, BranchNumbers, Zenon
<1>4. RealDist(b, r2) = RealDist(b, r) /\ DryDist(b, d2) = DryDist(b, d)
  BY <1>2, Zenon DEF RealDist, DryDist
<1>5. Since(b, d2) = Since(b, d) + 1
  <2>1. Len(d.pool) \in Int /\ b.entries \in Int
    BY <1>3
  <2>2. (Len(d.pool) + 1) - b.entries = (Len(d.pool) - b.entries) + 1
    BY <2>1, LiteralSum, Zenon
  <2> QED
    BY <1>2, <1>3, <2>2, Zenon
<1>6. 0 <= Since(b, d2) /\ Since(b, d) <= Since(b, d2) /\ Since(b, d2) \in Int
  <2>1. \A x \in Int : 0 <= x => 0 <= x + 1 /\ x <= x + 1 /\ x + 1 \in Int
    OBVIOUS
  <2> QED
    BY <1>1, <1>3, <1>5, <2>1, Zenon
<1>7. Growth(b, d2, r2)
  <2>1. r2.count # 0
    <3>1. \A x \in Nat : x + 1 # 0
      OBVIOUS
    <3> QED
      BY <1>2, <1>3, <3>1, Zenon
  <2>2. Growth(b, d, r)
    BY <1>1, Zenon
  <2> QED
    BY <1>2, <1>3, <1>4, <1>5, <2>1, <2>2, GrowthAdds, Zenon
<1>8. CASE Unbroken(b, d, r) /\ r.bytes + 2 * k <= b.bytes + 2 * RealDist(b, r)
  <2>1. Unbroken(b, d2, r2)
    BY <1>1, <1>8, UnbrokenAdds, Zenon
  <2> QED
    BY <1>1, <1>4, <1>6, <1>7, <2>1, Zenon DEF Follows
<1>9. CASE Broken(b, d, r)
  <2>1. b.at < r.ind - k
    <3>1. \A x \in Nat, y \in Nat : 2 <= (x - y) - k => y < x - k
      OBVIOUS
    <3> QED
      BY <1>1, <1>3, <3>1, Zenon
  <2>2. r2.count # 0 => b.at < r2.first
    BY <1>2, <1>9, <2>1, Zenon DEF Broken
  <2>3. DryDist(b, d) <= DryDist(b, d2) /\ DryDist(b, d2) \in Int
    <3>1. \A x \in Int : x <= x
      OBVIOUS
    <3> QED
      BY <1>3, <1>4, <3>1, Zenon
  <2>4. Broken(b, d2, r2)
    BY <1>1, <1>3, <1>6, <1>9, <2>2, <2>3, BrokenStays, Zenon
  <2> QED
    BY <1>1, <1>4, <1>6, <1>7, <2>4, Zenon DEF Follows
<1> QED
  BY <1>1, <1>8, <1>9, Zenon

-----------------------------------------------------------------------------
(* The operations of both passes. *)

(* Related, and k bytes have just been emitted. *)
Loaded(b, short, d, r, k) ==
  Related(b, short, d, r) /\ (b # NoBranch => Loading(b, d, r, k))

(* Related and Loaded, with i conditioned instructions to come. *)
RelatedAt(b, short, d, r, i) == Related(b, short, d, r) /\ d.it = i

LoadedAt(b, short, d, r, k, i) == Loaded(b, short, d, r, k) /\ d.it = i

(* Code in both passes, of which the real one may leave out some. *)
LEMMA RelatedMoves ==
  ASSUME Counting,
         NEW b, NEW short, NEW d, NEW r, NEW d2, NEW r2, NEW m \in Nat, NEW n \in Nat,
         NEW c \in {0} \cup ITLengths, n = m \/ (short /\ n + 2 <= m),
         Related(b, short, d, r), Moves(d, d2, m, c), Moves(r, r2, n, c), d2.it = r2.it
  PROVE  Loaded(b, short, d2, r2, n)
<1>1. Together(d, r) /\ (~short => Same(d, r)) /\ (b # NoBranch => Follows(b, d, r))
  BY Zenon DEF Related
<1>2. Together(d2, r2)
  BY <1>1, Zenon DEF Moves, Together
<1>3. ~short => Same(d2, r2)
  BY <1>1, SameMoves, Zenon
<1>4. b # NoBranch => Loading(b, d2, r2, n)
  BY <1>1, <1>2, FollowsMoves, Zenon
<1>5. b # NoBranch => Follows(b, d2, r2)
  BY <1>4, Zenon DEF Loading
<1> QED
  BY <1>2, <1>3, <1>4, <1>5, Zenon DEF Related, Loaded

(* A literal that a load of k bytes may have. *)
Loadable(short, r, k, dwidth, width, known) ==
  /\ width \in Nat /\ width <= 2 * k /\ width <= 8
  /\ width \in {0, 4} \/ Paired(r, width, known)
  /\ ~short => dwidth = width

BothAdd(short, d, r, d2, r2, k) ==
  \E dwidth, width, known :
    /\ Loadable(short, r, k, dwidth, width, known)
    /\ Adds(d, d2, k, dwidth, known) /\ Adds(r, r2, k, width, known)

(* A literal in both passes. *)
LEMMA RelatedAdds ==
  ASSUME Counting,
         NEW b, NEW short, NEW d, NEW r, NEW d2, NEW r2, NEW k \in Nat,
         Loaded(b, short, d, r, k), BothAdd(short, d, r, d2, r2, k)
  PROVE  Related(b, short, d2, r2)
<1>0. PICK dwidth, width, known :
        /\ Loadable(short, r, k, dwidth, width, known)
        /\ Adds(d, d2, k, dwidth, known) /\ Adds(r, r2, k, width, known)
  BY Zenon DEF BothAdd
<1>1. /\ Together(d, r) /\ (~short => Same(d, r))
      /\ (b # NoBranch => Loading(b, d, r, k))
  BY Zenon DEF Related, Loaded
<1>w. /\ width \in Nat /\ width <= 2 * k /\ width <= 8
      /\ (width \in {0, 4} \/ Paired(r, width, known))
      /\ (~short => dwidth = width)
  BY <1>0, Zenon DEF Loadable
<1>2. Together(d2, r2)
  BY <1>0, <1>1, Zenon DEF Adds, Together
<1>3. ~short => Same(d2, r2)
  BY <1>0, <1>1, <1>w, SameAdds, Zenon
<1>4. b # NoBranch => Follows(b, d2, r2)
  BY <1>0, <1>1, <1>w, <1>2, FollowsAdds, Zenon
<1> QED
  BY <1>2, <1>3, <1>4, Zenon DEF Related

(* The conditioned instructions to come behind one instruction more. *)
Passed(i, c) == IF i = 0 THEN c ELSE i - 1

(* An instruction. *)
LEMMA RelatedOt ==
  ASSUME Counting,
         NEW b, NEW short, NEW d, NEW r, NEW n \in {2, 4}, NEW c \in {0} \cup ITLengths,
         Related(b, short, d, r)
  PROVE  LoadedAt(b, short, ot(d, n, c), ot(r, n, c), n, Passed(d.it, c))
<1> DEFINE d2 == ot(d, n, c)
           r2 == ot(r, n, c)
<1>1. PassOK(d) /\ PassOK(r) /\ d.it = r.it
  BY Zenon DEF Related, Together
<1>2. /\ Moves(d, d2, n, c) /\ d2.it = ItAfter(d, c)
      /\ Moves(r, r2, n, c) /\ r2.it = ItAfter(r, c)
  BY <1>1, OtMoves, Zenon
<1>3. d.gen = TRUE /\ r.gen = TRUE /\ d.it \in Nat
  BY <1>1, PassNumbers, Zenon
<1>4. d.it > 0 <=> d.it # 0
  BY <1>3
<1> HIDE DEF d2, r2
<1>5. d2.it = Passed(d.it, c) /\ r2.it = Passed(d.it, c)
  BY <1>1, <1>2, <1>3, <1>4, Zenon DEF ItAfter, Passed
<1>6. n \in Nat
  OBVIOUS
<1>7. Loaded(b, short, d2, r2, n)
  BY <1>2, <1>5, <1>6, RelatedMoves, Zenon
<1> QED
  BY <1>5, <1>7, Zenon DEF LoadedAt, d2, r2

(* What load_full_const is called with. *)
LoadArgs(key, size, low) ==
  /\ key \in Keys /\ size \in {4, 8} /\ low \in BOOLEAN
  /\ size = 8 => key \in PairLiterals /\ ~low

(* The load of a literal. *)
LEMMA RelatedLoad ==
  ASSUME Counting, NEW b, NEW short, NEW d, NEW r, NEW key, NEW size, NEW low,
         LoadArgs(key, size, low), Related(b, short, d, r)
  PROVE  RelatedAt(b, short, load_full_const(d, key, size, low),
                   load_full_const(r, key, size, low), Passed(d.it, 0))
<1> DEFINE n == LoadSize(low)
           d1 == ot(d, n, 0)
           r1 == ot(r, n, 0)
           d2 == FindOrAllocate(d1, key, size, low)
           r2 == FindOrAllocate(r1, key, size, low)
           dwidth == IF d1.table[key] = None THEN size ELSE 0
           width == IF r1.table[key] = None THEN size ELSE 0
<1>0. /\ key \in Keys /\ size \in {4, 8} /\ low \in BOOLEAN
      /\ (size = 8 => key \in PairLiterals /\ ~low)
  BY Zenon DEF LoadArgs
<1>1. n \in {2, 4} /\ n \in Nat /\ size <= 2 * n /\ 0 \in {0} \cup ITLengths
  BY <1>0 DEF LoadSize
<1>2. /\ load_full_const(d, key, size, low) = d2
      /\ load_full_const(r, key, size, low) = r2
  BY Zenon DEF load_full_const, LoadSize
<1>3. PassOK(d) /\ PassOK(r)
  BY Zenon DEF Related, Together
<1>4. Behind(d1, n) /\ Behind(r1, n)
  BY <1>1, <1>3, OtBehind, Zenon
<1>a. LoadedAt(b, short, d1, r1, n, Passed(d.it, 0))
  BY <1>1, RelatedOt, Zenon
<1>5. Loaded(b, short, d1, r1, n) /\ d1.it = Passed(d.it, 0)
  BY <1>a, Zenon DEF LoadedAt
<1> HIDE DEF d1, r1
<1>6. PassOK(d1) /\ PassOK(r1) /\ (~short => Same(d1, r1))
  BY <1>5, Zenon DEF Loaded, Related, Together
<1>7. Adds(d1, d2, n, dwidth, {key}) /\ Adds(r1, r2, n, width, {key})
  BY <1>0, <1>4, <1>6, FindAdds, Zenon
<1>8. ~short => dwidth = width
  BY <1>0, <1>6, Zenon DEF Same
<1>9. width \in {0, 4} \/ Paired(r1, width, {key})
  <2>1. size = 4 \/ size = 8
    BY <1>0, Zenon
  <2> QED
    BY <1>0, <2>1, Zenon DEF Paired
<1>p. width \in Nat /\ width <= 2 * n /\ width <= 8
  <2>1. width = size \/ width = 0
    BY Zenon
  <2> HIDE DEF width, n
  <2> QED
    BY <1>0, <1>1, <2>1
<1> HIDE DEF d2, r2, dwidth, width, n
<1>q. Loadable(short, r1, n, dwidth, width, {key})
  BY <1>8, <1>9, <1>p, Zenon DEF Loadable
<1>10. BothAdd(short, d1, r1, d2, r2, n)
  BY <1>7, <1>q, Zenon DEF BothAdd
<1>11. Related(b, short, d2, r2)
  BY <1>1, <1>5, <1>10, RelatedAdds, Zenon
<1>12. d2.it = d1.it
  BY <1>7, Zenon DEF Adds
<1> QED
  BY <1>2, <1>5, <1>11, <1>12, Zenon DEF RelatedAt

(* A literal of its own behind a narrow load. *)
LEMMA RelatedOwn ==
  ASSUME Counting,
         NEW b, NEW short, NEW d, NEW r, NEW key \in Keys, Related(b, short, d, r)
  PROVE  RelatedAt(b, short, Allocate(ot(d, 2, 0), key, 4, TRUE, None),
                   Allocate(ot(r, 2, 0), key, 4, TRUE, None), Passed(d.it, 0))
<1> DEFINE d1 == ot(d, 2, 0)
           r1 == ot(r, 2, 0)
           d2 == Allocate(d1, key, 4, TRUE, None)
           r2 == Allocate(r1, key, 4, TRUE, None)
<1>1. /\ 2 \in {2, 4} /\ 2 \in Nat /\ 4 \in Nat /\ 4 <= 2 * 2 /\ 4 <= 8
      /\ 0 \in {0} \cup ITLengths /\ 4 \in {0, 4}
  OBVIOUS
<1>2. PassOK(d) /\ PassOK(r)
  BY Zenon DEF Related, Together
<1>3. Behind(d1, 2) /\ Behind(r1, 2)
  BY <1>1, <1>2, OtBehind, Zenon
<1>a. LoadedAt(b, short, d1, r1, 2, Passed(d.it, 0))
  BY <1>1, RelatedOt, Zenon
<1>4. Loaded(b, short, d1, r1, 2) /\ d1.it = Passed(d.it, 0)
  BY <1>a, Zenon DEF LoadedAt
<1> HIDE DEF d1, r1
<1>5. PassOK(d1) /\ PassOK(r1)
  BY <1>4, Zenon DEF Loaded, Related, Together
<1>6. Adds(d1, d2, 2, 4, {}) /\ Adds(r1, r2, 2, 4, {})
  BY <1>3, <1>5, OwnAdds, Zenon
<1> HIDE DEF d2, r2
<1>7. BothAdd(short, d1, r1, d2, r2, 2)
  <2>1. Loadable(short, r1, 2, 4, 4, {})
    BY <1>1, Zenon DEF Loadable
  <2> QED
    BY <1>6, <2>1, Zenon DEF BothAdd
<1>8. Related(b, short, d2, r2)
  BY <1>1, <1>4, <1>7, RelatedAdds, Zenon
<1>9. d2.it = d1.it
  BY <1>6, Zenon DEF Adds
<1> QED
  BY <1>4, <1>8, <1>9, Zenon DEF RelatedAt, d1, r1, d2, r2

(* The load of an address through the GOT. *)
LEMMA RelatedGot ==
  ASSUME Counting,
         NEW b, NEW short, NEW d, NEW r, NEW key \in Keys, NEW addend \in Keys,
         Related(b, short, d, r), d.it = 0
  PROVE  RelatedAt(b, short, load_through_got(d, key, addend),
                   load_through_got(r, key, addend), 0)
<1> DEFINE d1 == load_full_const(d, key, 4, TRUE)
           r1 == load_full_const(r, key, 4, TRUE)
           d2 == ot(d1, 2, 0)
           r2 == ot(r1, 2, 0)
           d3 == ot(d2, 2, 0)
           r3 == ot(r2, 2, 0)
           d4 == Allocate(ot(d3, 2, 0), addend, 4, TRUE, None)
           r4 == Allocate(ot(r3, 2, 0), addend, 4, TRUE, None)
           d5 == ot(d4, 2, 0)
           r5 == ot(r4, 2, 0)
<1>1. /\ load_through_got(d, key, addend) = d5
      /\ load_through_got(r, key, addend) = r5
  BY Zenon DEF load_through_got, ot_pair
<1>2. 2 \in {2, 4} /\ 0 \in {0} \cup ITLengths /\ Passed(0, 0) = 0
  BY DEF Passed
<1>a. LoadArgs(key, 4, TRUE)
  BY DEF LoadArgs
<1> HIDE DEF d1, r1, d2, r2, d3, r3, d4, r4, d5, r5
<1>3. Related(b, short, d1, r1) /\ d1.it = 0
  <2>1. RelatedAt(b, short, d1, r1, Passed(d.it, 0))
    BY <1>a, RelatedLoad, Zenon DEF d1, r1
  <2> QED
    BY <1>2, <2>1, Zenon DEF RelatedAt
<1>4. Related(b, short, d2, r2) /\ d2.it = 0
  <2>1. LoadedAt(b, short, d2, r2, 2, Passed(d1.it, 0))
    BY <1>2, <1>3, RelatedOt, Zenon DEF d2, r2
  <2> QED
    BY <1>2, <1>3, <2>1, Zenon DEF LoadedAt, Loaded
<1>5. Related(b, short, d3, r3) /\ d3.it = 0
  <2>1. LoadedAt(b, short, d3, r3, 2, Passed(d2.it, 0))
    BY <1>2, <1>4, RelatedOt, Zenon DEF d3, r3
  <2> QED
    BY <1>2, <1>4, <2>1, Zenon DEF LoadedAt, Loaded
<1>6. Related(b, short, d4, r4) /\ d4.it = 0
  <2>1. RelatedAt(b, short, d4, r4, Passed(d3.it, 0))
    BY <1>5, RelatedOwn, Zenon DEF d4, r4
  <2> QED
    BY <1>2, <1>5, <2>1, Zenon DEF RelatedAt
<1>7. Related(b, short, d5, r5) /\ d5.it = 0
  <2>1. LoadedAt(b, short, d5, r5, 2, Passed(d4.it, 0))
    BY <1>2, <1>6, RelatedOt, Zenon DEF d5, r5
  <2> QED
    BY <1>2, <1>6, <2>1, Zenon DEF LoadedAt, Loaded
<1> QED
  BY <1>1, <1>7, Zenon DEF RelatedAt

(* A switch table. *)
LEMMA RelatedTable ==
  ASSUME Counting, NEW b, NEW short, NEW d, NEW r, NEW e \in Nat,
         Related(b, short, d, r), d.it = 0
  PROVE  RelatedAt(b, short, switch_table(d, e, FALSE), switch_table(r, e, FALSE), 0)
<1> DEFINE d2 == switch_table(d, e, FALSE)
           r2 == switch_table(r, e, FALSE)
           n == 14 + 4 * e
<1>1. PassOK(d) /\ PassOK(r) /\ r.it = 0
  BY Zenon DEF Related, Together
<1>2. Moves(d, d2, n, 0) /\ Moves(r, r2, n, 0) /\ d2.it = 0 /\ r2.it = 0
  BY <1>1, TableMoves, Zenon
<1>3. n \in Nat /\ 0 \in {0} \cup ITLengths
  OBVIOUS
<1> HIDE DEF d2, r2, n
<1>4. Related(b, short, d2, r2)
  BY <1>2, <1>3, RelatedMoves, Zenon DEF Loaded
<1> QED
  BY <1>2, <1>4, Zenon DEF RelatedAt, d2, r2

-----------------------------------------------------------------------------
(* Operations in a row. *)

(* The next of some operations in a row: an instruction behind an IT, the  *)
(* load of a literal, a loop.                                              *)
Again(op, a, i, s) ==
  IF op = "block"
    THEN IF a.loads THEN load_full_const(s, a.key, 4, FALSE) ELSE ot(s, 2, 0)
  ELSE IF op = "load"
    THEN load_full_const(s, a[i], 4, FALSE)
    ELSE Looped(s)

(* f has the states behind the operations up to n. *)
UpTo(f, op, a, s, n) ==
  f = [i \in 0 .. n |-> IF i = 0 THEN s ELSE Again(op, a, i, f[i - 1])]

(* There are such states for any number of operations. *)
LEMMA UpToExists ==
  ASSUME Counting, NEW n \in Nat, NEW op, NEW a, NEW s
  PROVE  \E f : UpTo(f, op, a, s, n)
<1> DEFINE G == {m \in 0 .. n : \E f : UpTo(f, op, a, s, m)}
<1>1. 0 \in G
  <2>1. UpTo([i \in 0 .. 0 |-> s], op, a, s, 0)
    BY DEF UpTo
  <2> QED
    BY <2>1
<1>2. ASSUME NEW m \in 1 .. n, m - 1 \in G
      PROVE  m \in G
  <2>1. PICK f : UpTo(f, op, a, s, m - 1)
    BY <1>2
  <2> DEFINE g == [i \in 0 .. m |-> IF i = m THEN Again(op, a, m, f[m - 1]) ELSE f[i]]
  <2>2. \A i \in 0 .. m : g[i] = IF i = 0 THEN s ELSE Again(op, a, i, g[i - 1])
    BY <1>2, <2>1 DEF UpTo
  <2>3. UpTo(g, op, a, s, m)
    BY <2>2 DEF UpTo
  <2> QED
    BY <1>2, <2>3
<1>3. n \in G
  <2> HIDE DEF G
  <2> QED
    BY <1>1, <1>2, StepByStep, Zenon
<1> QED
  BY <1>3

(* f has the states within an IT block. *)
Blocked(f, s, n, loads, k) ==
  /\ f[0] = ot(s, 2, n)
  /\ \A i \in 1 .. n : f[i] = IF loads THEN load_full_const(f[i - 1], k, 4, FALSE)
                               ELSE ot(f[i - 1], 2, 0)
  /\ Conditioned(s, n, loads, k) = f[n]

(* An IT block, instruction by instruction. *)
LEMMA ConditionedIs ==
  ASSUME Counting, NEW s, NEW n \in Nat, NEW loads, NEW k
  PROVE  \E f : Blocked(f, s, n, loads, k)
<1> DEFINE Is(f) ==
      f = [i \in 0 .. n |->
             IF i = 0 THEN ot(s, 2, n)
             ELSE IF loads THEN load_full_const(f[i - 1], k, 4, FALSE)
             ELSE ot(f[i - 1], 2, 0)]
<1>1. PICK f : UpTo(f, "block", [loads |-> loads, key |-> k], ot(s, 2, n), n)
  BY UpToExists, Zenon
<1>2. Is(f)
  BY <1>1, Zenon DEF UpTo, Again
<1>3. Conditioned(s, n, loads, k) = (CHOOSE g : Is(g))[n]
  BY DEF Conditioned
<1>4. PICK g : Is(g) /\ Conditioned(s, n, loads, k) = g[n]
  BY <1>2, <1>3, Zenon
<1>5. \A i \in 0 .. n :
        g[i] = IF i = 0 THEN ot(s, 2, n)
               ELSE IF loads THEN load_full_const(g[i - 1], k, 4, FALSE)
               ELSE ot(g[i - 1], 2, 0)
  BY <1>4, Zenon
<1>6. 0 \in 0 .. n /\ \A i \in 1 .. n : i \in 0 .. n /\ i # 0
  OBVIOUS
<1> HIDE DEF Is
<1> QED
  BY <1>4, <1>5, <1>6, Zenon DEF Blocked

(* An IT block. *)
LEMMA RelatedBlock ==
  ASSUME Counting,
         NEW b, NEW short, NEW d, NEW r, NEW n \in ITLengths, NEW loads \in BOOLEAN,
         NEW k \in Keys, Related(b, short, d, r), d.it = 0
  PROVE  RelatedAt(b, short, Conditioned(d, n, loads, k),
                   Conditioned(r, n, loads, k), 0)
<1>1. n \in Nat /\ n \in {0} \cup ITLengths /\ 2 \in {2, 4} /\ 0 \in {0} \cup ITLengths
  BY BlockAssumption
<1>2. LoadArgs(k, 4, FALSE)
  BY DEF LoadArgs
<1>f. PICK f : Blocked(f, d, n, loads, k)
  BY <1>1, ConditionedIs, Zenon
<1>g. PICK g : Blocked(g, r, n, loads, k)
  BY <1>1, ConditionedIs, Zenon
<1>3. /\ f[0] = ot(d, 2, n) /\ Conditioned(d, n, loads, k) = f[n]
      /\ \A i \in 1 .. n : f[i] = IF loads THEN load_full_const(f[i - 1], k, 4, FALSE)
                                   ELSE ot(f[i - 1], 2, 0)
  BY <1>f, Zenon DEF Blocked
<1>4. /\ g[0] = ot(r, 2, n) /\ Conditioned(r, n, loads, k) = g[n]
      /\ \A i \in 1 .. n : g[i] = IF loads THEN load_full_const(g[i - 1], k, 4, FALSE)
                                   ELSE ot(g[i - 1], 2, 0)
  BY <1>g, Zenon DEF Blocked
<1> DEFINE G == {i \in Nat : RelatedAt(b, short, f[i], g[i], n - i)}
<1>5. 0 \in G
  <2>1. LoadedAt(b, short, f[0], g[0], 2, Passed(d.it, n))
    <3>1. LoadedAt(b, short, ot(d, 2, n), ot(r, 2, n), 2, Passed(d.it, n))
      BY <1>1, RelatedOt, Zenon
    <3> QED
      BY <1>3, <1>4, <3>1, Zenon
  <2>2. Passed(d.it, n) = n - 0 /\ 0 \in Nat
    BY <1>1 DEF Passed
  <2> QED
    BY <2>1, <2>2, Zenon DEF LoadedAt, Loaded, RelatedAt
<1>6. ASSUME NEW i \in 1 .. n, i - 1 \in G
      PROVE  i \in G
  <2> DEFINE x == f[i - 1]
             y == g[i - 1]
  <2>1. RelatedAt(b, short, x, y, n - (i - 1))
    BY <1>6, Zenon
  <2>2. Related(b, short, x, y) /\ x.it = n - (i - 1)
    BY <2>1, Zenon DEF RelatedAt
  <2>3. Passed(n - (i - 1), 0) = n - i /\ i \in Nat
    BY <1>1, <1>6 DEF Passed
  <2>4. /\ f[i] = (IF loads THEN load_full_const(x, k, 4, FALSE) ELSE ot(x, 2, 0))
        /\ g[i] = (IF loads THEN load_full_const(y, k, 4, FALSE) ELSE ot(y, 2, 0))
    BY <1>3, <1>4, Zenon
  <2> HIDE DEF x, y
  <2>5. RelatedAt(b, short, f[i], g[i], Passed(x.it, 0))
    <3>1. CASE loads
      <4>1. RelatedAt(b, short, load_full_const(x, k, 4, FALSE),
                      load_full_const(y, k, 4, FALSE), Passed(x.it, 0))
        BY <1>2, <2>2, RelatedLoad, Zenon
      <4> QED
        BY <2>4, <3>1, <4>1, Zenon
    <3>2. CASE ~loads
      <4>1. LoadedAt(b, short, ot(x, 2, 0), ot(y, 2, 0), 2, Passed(x.it, 0))
        BY <1>1, <2>2, RelatedOt, Zenon
      <4> QED
        BY <2>4, <3>2, <4>1, Zenon DEF LoadedAt, Loaded, RelatedAt
    <3> QED
      BY <3>1, <3>2, Zenon
  <2> QED
    BY <2>2, <2>3, <2>5, Zenon
<1>7. n \in G
  <2> HIDE DEF G
  <2> QED
    BY <1>1, <1>5, <1>6, StepByStep, Zenon
<1>8. n - n = 0
  BY <1>1
<1> QED
  BY <1>3, <1>4, <1>7, <1>8, Zenon

(* f has the states before a switch table. *)
Filled(f, s, keys, e) ==
  /\ f[0] = s
  /\ \A i \in 1 .. Len(keys) : f[i] = load_full_const(f[i - 1], keys[i], 4, FALSE)
  /\ Laid(s, keys, e) = switch_table(f[Len(keys)], e, FALSE)

(* Loads in a row, and a switch table. *)
LEMMA LaidIs ==
  ASSUME Counting, NEW s, NEW keys \in Seq(Keys), NEW e
  PROVE  \E f : Filled(f, s, keys, e)
<1> DEFINE n == Len(keys)
           Is(f) == f = [i \in 0 .. n |->
                           IF i = 0 THEN s
                           ELSE load_full_const(f[i - 1], keys[i], 4, FALSE)]
<1>1. n \in Nat
  OBVIOUS
<1>2. PICK f : UpTo(f, "load", keys, s, n)
  BY <1>1, UpToExists, Zenon
<1>3. Is(f)
  BY <1>2 DEF UpTo, Again
<1>4. Laid(s, keys, e) = switch_table((CHOOSE g : Is(g))[n], e, FALSE)
  BY Zenon DEF Laid
<1>5. PICK g : Is(g) /\ Laid(s, keys, e) = switch_table(g[n], e, FALSE)
  BY <1>3, <1>4, Zenon
<1>6. \A i \in 0 .. n :
        g[i] = IF i = 0 THEN s ELSE load_full_const(g[i - 1], keys[i], 4, FALSE)
  BY <1>5, Zenon
<1>7. 0 \in 0 .. n /\ \A i \in 1 .. n : i \in 0 .. n /\ i # 0
  BY <1>1
<1> HIDE DEF Is
<1> QED
  BY <1>5, <1>6, <1>7, Zenon DEF Filled

(* The function up to some operation, in both passes. *)
LEMMA RelatedLaid ==
  ASSUME Counting,
         NEW b, NEW short, NEW d, NEW r, NEW keys \in Seq(Keys), NEW e \in Nat,
         Related(b, short, d, r), d.it = 0
  PROVE  RelatedAt(b, short, Laid(d, keys, e), Laid(r, keys, e), 0)
<1> DEFINE n == Len(keys)
<1>1. n \in Nat /\ \A i \in 1 .. n : keys[i] \in Keys
  OBVIOUS
<1>f. PICK f : Filled(f, d, keys, e)
  BY LaidIs, Zenon
<1>g. PICK g : Filled(g, r, keys, e)
  BY LaidIs, Zenon
<1>2. /\ f[0] = d /\ Laid(d, keys, e) = switch_table(f[n], e, FALSE)
      /\ \A i \in 1 .. n : f[i] = load_full_const(f[i - 1], keys[i], 4, FALSE)
  BY <1>f, Zenon DEF Filled
<1>3. /\ g[0] = r /\ Laid(r, keys, e) = switch_table(g[n], e, FALSE)
      /\ \A i \in 1 .. n : g[i] = load_full_const(g[i - 1], keys[i], 4, FALSE)
  BY <1>g, Zenon DEF Filled
<1> DEFINE G == {i \in Nat : RelatedAt(b, short, f[i], g[i], 0)}
<1> HIDE DEF n
<1>4. 0 \in G
  <2>1. 0 \in Nat
    OBVIOUS
  <2> QED
    BY <1>2, <1>3, <2>1, Zenon DEF RelatedAt
<1>5. ASSUME NEW i \in 1 .. n, i - 1 \in G
      PROVE  i \in G
  <2> DEFINE x == f[i - 1]
             y == g[i - 1]
  <2>1. Related(b, short, x, y) /\ x.it = 0
    BY <1>5, Zenon DEF RelatedAt
  <2>2. LoadArgs(keys[i], 4, FALSE)
    <3>1. keys[i] \in Keys
      BY <1>1, Zenon
    <3> QED
      BY <3>1 DEF LoadArgs
  <2>3. Passed(0, 0) = 0 /\ i \in Nat
    BY <1>1 DEF Passed
  <2>4. /\ f[i] = load_full_const(x, keys[i], 4, FALSE)
        /\ g[i] = load_full_const(y, keys[i], 4, FALSE)
    BY <1>2, <1>3, Zenon
  <2> HIDE DEF x, y
  <2>5. RelatedAt(b, short, load_full_const(x, keys[i], 4, FALSE),
                  load_full_const(y, keys[i], 4, FALSE), Passed(x.it, 0))
    BY <2>1, <2>2, RelatedLoad, Zenon
  <2> QED
    BY <2>1, <2>3, <2>4, <2>5, Zenon
<1>6. n \in G
  <2> HIDE DEF G
  <2> QED
    BY <1>1, <1>4, <1>5, StepByStep, Zenon
<1>7. Related(b, short, f[n], g[n]) /\ f[n].it = 0
  BY <1>6, Zenon DEF RelatedAt
<1>8. RelatedAt(b, short, switch_table(f[n], e, FALSE), switch_table(g[n], e, FALSE), 0)
  BY <1>7, RelatedTable, Zenon
<1> QED
  BY <1>2, <1>3, <1>8, Zenon

-----------------------------------------------------------------------------
(* Branches and their targets. *)

(* c is b but for its pads and what may be left out. *)
SameBranch(b, c) ==
  /\ BranchOK(c) /\ c.kind = b.kind /\ c.from = b.from /\ c.at = b.at
  /\ c.entries = b.entries /\ c.span = b.span /\ c.bytes = b.bytes

(* Counting a pad, or bytes that may be left out. *)
LEMMA CountedBranch ==
  ASSUME NEW b, BranchOK(b)
  PROVE  /\ SameBranch(b, [b EXCEPT !["pads"] = @ + 1])
         /\ [b EXCEPT !["pads"] = @ + 1].pads = b.pads + 1
         /\ SameBranch(b, [b EXCEPT !["shrink"] = @ + 2])
         /\ [b EXCEPT !["shrink"] = @ + 2].pads = b.pads
<1>1. /\ BranchOK([b EXCEPT !["pads"] = @ + 1])
      /\ BranchOK([b EXCEPT !["shrink"] = @ + 2])
  BY DEF BranchOK
<1>2. \A x : /\ [b EXCEPT !["pads"] = x].kind = b.kind
             /\ [b EXCEPT !["pads"] = x].from = b.from
             /\ [b EXCEPT !["pads"] = x].at = b.at
             /\ [b EXCEPT !["pads"] = x].entries = b.entries
             /\ [b EXCEPT !["pads"] = x].span = b.span
             /\ [b EXCEPT !["pads"] = x].bytes = b.bytes
             /\ [b EXCEPT !["pads"] = x].pads = x
  BY DEF BranchOK
<1>3. \A x : /\ [b EXCEPT !["shrink"] = x].kind = b.kind
             /\ [b EXCEPT !["shrink"] = x].from = b.from
             /\ [b EXCEPT !["shrink"] = x].at = b.at
             /\ [b EXCEPT !["shrink"] = x].entries = b.entries
             /\ [b EXCEPT !["shrink"] = x].span = b.span
             /\ [b EXCEPT !["shrink"] = x].bytes = b.bytes
             /\ [b EXCEPT !["shrink"] = x].pads = b.pads
  BY DEF BranchOK
<1> QED
  BY <1>1, <1>2, <1>3, Zenon DEF SameBranch

(* What may be left out is not looked at on the way. *)
LEMMA FollowsShrunk ==
  ASSUME NEW b, NEW c, NEW d, NEW r, Follows(b, d, r), SameBranch(b, c),
         c.pads = b.pads
  PROVE  Follows(c, d, r)
<1>1. /\ BranchOK(c) /\ c.kind = b.kind /\ c.from = b.from /\ c.at = b.at
      /\ c.entries = b.entries /\ c.span = b.span /\ c.bytes = b.bytes
      /\ c.pads = b.pads
  BY Zenon DEF SameBranch
<1>2. /\ DryDist(c, d) = DryDist(b, d) /\ RealDist(c, r) = RealDist(b, r)
      /\ Since(c, d) = Since(b, d)
  BY <1>1, Zenon DEF DryDist, RealDist, Since
<1>3. Growth(b, d, r) => Growth(c, d, r)
  BY <1>1, <1>2, Zenon DEF Growth
<1>4. Ahead(b, d, r) => Ahead(c, d, r)
  BY <1>1, <1>2, Zenon DEF Ahead
<1>5. Unbroken(b, d, r) => Unbroken(c, d, r)
  BY <1>1, <1>2, <1>4, Zenon DEF Unbroken
<1>6. (TooWide(b, d) => TooWide(c, d)) /\ (TooClose(b, d) => TooClose(c, d))
  BY <1>1, <1>2, Zenon DEF TooWide, TooClose
<1>7. Broken(b, d, r) => Broken(c, d, r)
  BY <1>1, <1>6, Zenon DEF Broken
<1> QED
  BY <1>1, <1>2, <1>3, <1>5, <1>7, Zenon DEF Follows

(* A pad that the rehearsal lacks makes the addresses agree. *)
Aligned(d, r, d2, r2, x, y) ==
  /\ x \in {0, 2} /\ y \in {0, 2} /\ Stays(d, d2, x) /\ Stays(r, r2, y)
  /\ y = 0 \/ (d2.ind % 4 = r2.ind % 4 /\ (d.ind % 4 = r.ind % 4 => x = y))

(* The rehearsal is x bytes further, and the real pass y. *)
Further(b, c, d, r, d2, r2, x, y) ==
  /\ DryDist(c, d2) = DryDist(b, d) + x /\ RealDist(c, r2) = RealDist(b, r) + y
  /\ Since(c, d2) = Since(b, d)

(* The distances to an aligned target. *)
LEMMA AlignedDistances ==
  ASSUME NEW b, NEW c, NEW d, NEW r, NEW d2, NEW r2, NEW x, NEW y, BranchOK(b),
         SameBranch(b, c), Together(d, r), Together(d2, r2), Aligned(d, r, d2, r2, x, y)
  PROVE  Further(b, c, d, r, d2, r2, x, y)
<1>1. /\ c.from = b.from /\ c.at = b.at /\ c.entries = b.entries
      /\ b.from \in Nat /\ b.at \in Nat
  BY BranchNumbers, Zenon DEF SameBranch
<1>2. d2.ind = d.ind + x /\ r2.ind = r.ind + y /\ Len(d2.pool) = Len(d.pool)
  BY Zenon DEF Aligned, Stays
<1>3. d.ind \in Nat /\ r.ind \in Nat /\ x \in Nat /\ y \in Nat
  <2>1. d.ind \in Nat /\ r.ind \in Nat
    BY PassNumbers, Zenon DEF Together
  <2>2. x \in {0, 2} /\ y \in {0, 2}
    BY Zenon DEF Aligned
  <2> QED
    BY <2>1, <2>2
<1>4. (d.ind + x) - b.from = (d.ind - b.from) + x
  <2>1. d.ind \in Nat /\ b.from \in Nat /\ x \in Nat
    BY <1>1, <1>3, Zenon
  <2> QED
    BY <2>1
<1>5. (r.ind + y) - b.at = (r.ind - b.at) + y
  <2>1. r.ind \in Nat /\ b.at \in Nat /\ y \in Nat
    BY <1>1, <1>3, Zenon
  <2> QED
    BY <2>1
<1> QED
  BY <1>1, <1>2, <1>4, <1>5, Zenon DEF Further, DryDist, RealDist, Since

(* How far the real pass stays behind at an aligned target. *)
LEMMA AlignedLead ==
  ASSUME NEW lead \in Int, NEW x \in {0, 2}, NEW y \in {0, 2}, NEW pads \in Nat,
         NEW least \in Int, lead + 2 * pads >= least
  PROVE  (lead + (x - y)) + 2 * (pads + 1) >= least
OBVIOUS

(* The same for a CBZ, with the pads of both passes. *)
LEMMA AlignedWords ==
  ASSUME NEW lead \in Int, NEW x \in {0, 2}, NEW y \in {0, 2}, NEW p \in {2, 4},
         NEW q \in {2, 4}, lead >= p,
         (y = 0 /\ (x = 0 => q = p)) \/ (q = 2 /\ (p = 2 => x = y))
  PROVE  lead + (x - y) >= q
OBVIOUS

(* A pad of both passes, or of the rehearsal alone, keeps it behind. *)
LEMMA AheadAligned ==
  ASSUME NEW b, NEW c, NEW d, NEW r, NEW d2, NEW r2, NEW x, NEW y, BranchOK(b),
         SameBranch(b, c), c.pads = b.pads + 1, Together(d, r), Together(d2, r2),
         Aligned(d, r, d2, r2, x, y), Ahead(b, d, r)
  PROVE  Ahead(c, d2, r2)
<1> DEFINE lead == DryDist(b, d) - RealDist(b, r)
           least == IF b.kind = "cbz" THEN 4 ELSE 2
           p == IF d.ind % 4 = r.ind % 4 THEN 2 ELSE 4
           q == IF d2.ind % 4 = r2.ind % 4 THEN 2 ELSE 4
<1>1. DryDist(b, d) \in Int /\ RealDist(b, r) \in Int /\ b.pads \in Nat
  BY Distances, BranchNumbers, Zenon
<1>2. c.kind = b.kind
  BY Zenon DEF SameBranch
<1>3. /\ x \in {0, 2} /\ y \in {0, 2} /\ d2.ind = d.ind + x /\ r2.ind = r.ind + y
      /\ (y = 0 \/ (d2.ind % 4 = r2.ind % 4 /\ (d.ind % 4 = r.ind % 4 => x = y)))
  BY Zenon DEF Aligned, Stays
<1>4. DryDist(c, d2) - RealDist(c, r2) = lead + (x - y) /\ lead \in Int
  <2>0. Further(b, c, d, r, d2, r2, x, y)
    BY AlignedDistances, Zenon
  <2>1. DryDist(c, d2) = DryDist(b, d) + x /\ RealDist(c, r2) = RealDist(b, r) + y
    BY <2>0, Zenon DEF Further
  <2>2. x \in Int /\ y \in Int
    BY <1>3
  <2> QED
    BY <1>1, <2>1, <2>2
<1>5. lead + 2 * b.pads >= least /\ (b.kind = "cbz" => lead >= p)
  BY Zenon DEF Ahead
<1>6. least \in Int
  OBVIOUS
<1>7. p \in {2, 4} /\ q \in {2, 4}
  BY Zenon
<1>8. (y = 0 /\ (x = 0 => q = p)) \/ (q = 2 /\ (p = 2 => x = y))
  <2>1. CASE y = 0
    <3>1. x = 0 => d2.ind = d.ind /\ r2.ind = r.ind
      <4>1. d.ind \in Nat /\ r.ind \in Nat
        BY PassNumbers, Zenon DEF Together
      <4>2. \A z \in Nat : z + 0 = z
        OBVIOUS
      <4> QED
        BY <1>3, <2>1, <4>1, <4>2, Zenon
    <3> QED
      BY <2>1, <3>1, Zenon
  <2>2. CASE y # 0
    <3>1. d2.ind % 4 = r2.ind % 4 /\ (d.ind % 4 = r.ind % 4 => x = y)
      BY <1>3, <2>2, Zenon
    <3>2. q = 2
      BY <3>1, Zenon
    <3>3. p = 2 => d.ind % 4 = r.ind % 4
      <4>1. 4 # 2
        OBVIOUS
      <4> QED
        BY <4>1, Zenon
    <3> QED
      BY <3>1, <3>2, <3>3, Zenon
  <2> QED
    BY <2>1, <2>2, Zenon
<1> HIDE DEF lead, least, p, q
<1>9. (lead + (x - y)) + 2 * (b.pads + 1) >= least
  BY <1>1, <1>3, <1>4, <1>5, <1>6, AlignedLead, Zenon
<1>10. b.kind = "cbz" => lead + (x - y) >= q
  BY <1>3, <1>4, <1>5, <1>7, <1>8, AlignedWords, Zenon
<1>11. /\ (DryDist(c, d2) - RealDist(c, r2)) + 2 * c.pads >= least
       /\ (b.kind = "cbz" => DryDist(c, d2) - RealDist(c, r2) >= q)
  BY <1>4, <1>9, <1>10, Zenon
<1> QED
  BY <1>2, <1>11, Zenon DEF Ahead, least, q

(* A target on the way. *)
LEMMA FollowsAligned ==
  ASSUME NEW b, NEW c, NEW d, NEW r, NEW d2, NEW r2, NEW x, NEW y,
         SameBranch(b, c), c.pads = b.pads + 1, Together(d, r), Together(d2, r2),
         Aligned(d, r, d2, r2, x, y), Follows(b, d, r)
  PROVE  Follows(c, d2, r2)
<1>1. /\ BranchOK(b) /\ 2 <= RealDist(b, r) /\ 0 <= DryDist(b, d)
      /\ 0 <= Since(b, d) /\ Growth(b, d, r)
      /\ (Unbroken(b, d, r) \/ Broken(b, d, r))
  BY Zenon DEF Follows
<1>a. Further(b, c, d, r, d2, r2, x, y)
  BY <1>1, AlignedDistances, Zenon
<1>2. /\ DryDist(c, d2) = DryDist(b, d) + x /\ RealDist(c, r2) = RealDist(b, r) + y
      /\ Since(c, d2) = Since(b, d)
  BY <1>a, Zenon DEF Further
<1>3. /\ DryDist(b, d) \in Int /\ RealDist(b, r) \in Int /\ Since(b, d) \in Int
      /\ b.pads \in Nat /\ b.bytes \in Nat /\ b.span \in Nat /\ r.bytes \in Nat
  BY <1>1, Distances, BranchNumbers, Zenon
<1>4. /\ BranchOK(c) /\ c.kind = b.kind /\ c.at = b.at
      /\ c.span = b.span /\ c.bytes = b.bytes
  BY Zenon DEF SameBranch
<1>5. /\ r2.count = r.count /\ r2.first = r.first /\ r2.bytes = r.bytes
      /\ r2.table = r.table
  BY Zenon DEF Aligned, Stays
<1>6. x \in Nat /\ y \in Nat /\ y <= 2
  <2>1. x \in {0, 2} /\ y \in {0, 2}
    BY Zenon DEF Aligned
  <2> QED
    BY <2>1
<1>7. 2 <= RealDist(c, r2) /\ 0 <= DryDist(c, d2) /\ 0 <= Since(c, d2)
  <2>1. /\ 2 <= RealDist(b, r) /\ 0 <= DryDist(b, d) /\ 0 <= Since(b, d)
    BY <1>1, Zenon
  <2> QED
    BY <1>2, <1>3, <1>6, <2>1
<1>8. Growth(c, d2, r2)
  <2> DEFINE six == IF r.count = 0 THEN 0 ELSE 6
  <2>1. RealDist(b, r) + r.bytes + six <= DryDist(b, d) + 2 * b.pads + b.bytes
                                            + 14 * Since(b, d) + 6
    BY <1>1, Zenon DEF Growth
  <2>2. six \in Nat
    OBVIOUS
  <2> HIDE DEF six
  <2>3. RealDist(c, r2) + r.bytes + six
          <= DryDist(c, d2) + 2 * (b.pads + 1) + b.bytes + 14 * Since(b, d) + 6
    BY <1>2, <1>3, <1>6, <2>1, <2>2
  <2> QED
    BY <1>2, <1>4, <1>5, <2>3, Zenon DEF Growth, six
<1>9. ASSUME Unbroken(b, d, r)
      PROVE  Unbroken(c, d2, r2)
  <2>1. Ahead(c, d2, r2)
    BY <1>1, <1>9, AheadAligned, Zenon DEF Unbroken
  <2>2. SeenPairs(r2) = SeenPairs(r)
    BY <1>5, Zenon DEF SeenPairs
  <2>3. r2.bytes <= c.bytes + 2 * RealDist(c, r2)
    <3>1. r.bytes <= b.bytes + 2 * RealDist(b, r)
      BY <1>9, Zenon DEF Unbroken
    <3>2. r.bytes <= b.bytes + 2 * RealDist(c, r2)
      BY <1>2, <1>3, <1>6, <3>1
    <3> QED
      BY <1>4, <1>5, <3>2, Zenon
  <2> QED
    BY <1>2, <1>4, <1>5, <1>9, <2>1, <2>2, <2>3, Zenon DEF Unbroken
<1>10. ASSUME Broken(b, d, r)
       PROVE  Broken(c, d2, r2)
  <2>1. TooWide(b, d) => TooWide(c, d2)
    <3>1. SUFFICES ASSUME TooWide(b, d) PROVE TooWide(c, d2)
      BY Zenon
    <3>2. PICK n \in {0} \cup ITLengths :
            3 * (DryDist(b, d) + 2 * b.pads) + 12 * n + 8 > Budget
      BY <3>1, Zenon DEF TooWide
    <3>3. n \in Nat /\ Budget \in Int
      BY BudgetNumbers, Zenon
    <3>4. 3 * (DryDist(c, d2) + 2 * c.pads) + 12 * n + 8 > Budget
      BY <1>2, <1>3, <1>6, <3>2, <3>3
    <3> QED
      BY <3>4, Zenon DEF TooWide
  <2>2. TooClose(b, d) => TooClose(c, d2)
    <3>1. SUFFICES ASSUME b.span + DryDist(b, d) + 4 * Since(b, d) >= Budget - Cushion
                   PROVE  b.span + DryDist(c, d2) + 4 * Since(b, d) >= Budget - Cushion
      BY <1>2, <1>4, Zenon DEF TooClose
    <3>2. Budget \in Int /\ Cushion \in Nat
      BY BudgetNumbers, Zenon
    <3> QED
      BY <1>2, <1>3, <1>6, <3>1, <3>2
  <2> QED
    BY <1>4, <1>5, <1>10, <2>1, <2>2, Zenon DEF Broken
<1> QED
  BY <1>1, <1>4, <1>7, <1>8, <1>9, <1>10, Zenon DEF Follows

(* Padding to a word. *)
LEMMA AlignStays ==
  ASSUME NEW t, PassOK(t)
  PROVE  /\ PassOK(Align(t)) /\ Align(t).dry = t.dry /\ Align(t).it = t.it
         /\ Align(t).ind % 4 = 0
         /\ Stays(t, Align(t), IF t.ind % 4 = 2 THEN 2 ELSE 0)
<1>1. t.ind \in Nat /\ t.ind % 2 = 0
  BY PassNumbers, Zenon
<1>2. CASE t.ind % 4 = 2
  <2> DEFINE u == Advance(t, 2)
  <2>1. Align(t) = u
    BY <1>2, Zenon DEF Align
  <2>2. 2 \in Nat /\ 2 % 2 = 0
    OBVIOUS
  <2>3. PassOK(u) /\ u.dry = t.dry /\ u.it = t.it /\ Stays(t, u, 2)
    BY <2>2, AdvanceStays, Zenon
  <2> HIDE DEF u
  <2>4. u.ind = t.ind + 2
    BY <2>3, Zenon DEF Stays
  <2>5. u.ind % 4 = 0
    BY <1>1, <1>2, <2>4
  <2> QED
    BY <1>2, <2>1, <2>3, <2>5, Zenon
<1>3. CASE t.ind % 4 # 2
  <2>1. Align(t) = t
    BY <1>3, Zenon DEF Align
  <2>2. t.ind % 4 = 0 /\ t.ind = t.ind + 0
    BY <1>1, <1>3
  <2> QED
    BY <1>3, <2>1, <2>2, Zenon DEF Stays
<1> QED
  BY <1>2, <1>3, Zenon

(* The bytes of the pads. *)
LEMMA AlignedPads ==
  ASSUME NEW d, NEW r, Together(d, r), NEW unneeded \in BOOLEAN
  PROVE  Aligned(d, r, Align(d), IF unneeded THEN r ELSE Align(r),
                 IF d.ind % 4 = 2 THEN 2 ELSE 0,
                 IF ~unneeded /\ r.ind % 4 = 2 THEN 2 ELSE 0)
<1> DEFINE x == IF d.ind % 4 = 2 THEN 2 ELSE 0
           y == IF ~unneeded /\ r.ind % 4 = 2 THEN 2 ELSE 0
           z == IF r.ind % 4 = 2 THEN 2 ELSE 0
           r2 == IF unneeded THEN r ELSE Align(r)
<1>1. PassOK(d) /\ PassOK(r)
  BY Zenon DEF Together
<1>2. /\ Align(d).ind % 4 = 0 /\ Stays(d, Align(d), x)
      /\ Align(r).ind % 4 = 0 /\ Stays(r, Align(r), z)
  BY <1>1, AlignStays, Zenon
<1>3. r.ind = r.ind + 0
  <2>1. r.ind \in Nat
    BY <1>1, PassNumbers, Zenon
  <2> QED
    BY <2>1
<1>4. x \in {0, 2} /\ y \in {0, 2}
  BY Zenon
<1>5. CASE unneeded
  <2>1. r2 = r /\ y = 0
    BY <1>5, Zenon
  <2>2. Stays(r, r, 0)
    BY <1>3, Zenon DEF Stays
  <2> HIDE DEF x, y, r2
  <2>3. Aligned(d, r, Align(d), r2, x, y)
    BY <1>2, <1>4, <2>1, <2>2, Zenon DEF Aligned
  <2> QED
    BY <2>3, Zenon DEF x, y, r2
<1>6. CASE ~unneeded
  <2>1. r2 = Align(r) /\ y = z
    BY <1>6, Zenon
  <2>2. d.ind % 4 = r.ind % 4 => x = z
    BY Zenon
  <2> HIDE DEF x, y, z, r2
  <2>3. Aligned(d, r, Align(d), r2, x, y)
    BY <1>2, <1>4, <2>1, <2>2, Zenon DEF Aligned
  <2> QED
    BY <2>3, Zenon DEF x, y, r2
<1> QED
  BY <1>5, <1>6, Zenon

(* c is b with a pad more, if there is a branch. *)
OnePad(b, c) ==
  IF b = NoBranch THEN c = NoBranch ELSE SameBranch(b, c) /\ c.pads = b.pads + 1

(* A target that the real pass may find unneeded. *)
LEMMA RelatedAlign ==
  ASSUME NEW b, NEW c, NEW short, NEW short2, NEW d, NEW r, NEW unneeded \in BOOLEAN,
         Related(b, short, d, r), d.it = 0, ~short2 => ~short /\ ~unneeded, OnePad(b, c)
  PROVE  RelatedAt(c, short2, Align(d), IF unneeded THEN r ELSE Align(r), 0)
<1> DEFINE x == IF d.ind % 4 = 2 THEN 2 ELSE 0
           y == IF ~unneeded /\ r.ind % 4 = 2 THEN 2 ELSE 0
           d2 == Align(d)
           r2 == IF unneeded THEN r ELSE Align(r)
<1>1. Together(d, r) /\ (~short => Same(d, r)) /\ (b # NoBranch => Follows(b, d, r))
  BY Zenon DEF Related
<1>2. Aligned(d, r, d2, r2, x, y)
  BY <1>1, AlignedPads, Zenon
<1>3. PassOK(d) /\ PassOK(r) /\ d.dry = TRUE /\ r.dry = FALSE /\ r.it = 0
  BY <1>1, Zenon DEF Together
<1>4. PassOK(d2) /\ d2.dry = TRUE /\ d2.it = 0
  BY <1>3, AlignStays, Zenon
<1>5. PassOK(r2) /\ r2.dry = FALSE /\ r2.it = 0
  <2>1. CASE unneeded
    BY <1>3, <2>1, Zenon
  <2>2. CASE ~unneeded
    <3>1. r2 = Align(r)
      BY <2>2, Zenon
    <3> HIDE DEF r2
    <3> QED
      BY <1>3, <3>1, AlignStays, Zenon
  <2> QED
    BY <2>1, <2>2, Zenon
<1>6. Together(d2, r2)
  BY <1>4, <1>5, Zenon DEF Together
<1>7. ~short2 => Same(d2, r2)
  <2>1. SUFFICES ASSUME ~short2 PROVE Same(d2, r2)
    BY Zenon
  <2>2. Same(d, r) /\ ~unneeded
    BY <1>1, <2>1, Zenon
  <2>3. d.ind % 4 = r.ind % 4
    BY <2>2, Zenon DEF Same
  <2>4. x = y
    BY <2>2, <2>3, Zenon
  <2>5. x \in Nat
    OBVIOUS
  <2> HIDE DEF x, y, d2, r2
  <2>6. Stays(d, d2, x) /\ Stays(r, r2, x)
    BY <1>2, <2>4, Zenon DEF Aligned
  <2> QED
    BY <1>1, <2>2, <2>5, <2>6, SameStays, Zenon
<1> HIDE DEF x, y, d2, r2
<1>8. c # NoBranch => Follows(c, d2, r2)
  BY <1>1, <1>2, <1>6, FollowsAligned, Zenon DEF OnePad
<1>9. RelatedAt(c, short2, d2, r2, 0)
  BY <1>4, <1>6, <1>7, <1>8, Zenon DEF Related, RelatedAt
<1> QED
  BY <1>9, Zenon DEF d2, r2

(* An instruction that is narrow in the real pass only. *)
LEMMA RelatedNarrow ==
  ASSUME Counting, NEW b, NEW d, NEW r, Related(b, TRUE, d, r), d.it = 0
  PROVE  RelatedAt(b, TRUE, ot(d, 4, 0), ot(r, 2, 0), 0)
<1> DEFINE d2 == ot(d, 4, 0)
           r2 == ot(r, 2, 0)
<1>1. PassOK(d) /\ PassOK(r) /\ d.it = r.it
  BY Zenon DEF Related, Together
<1>2. 2 \in {2, 4} /\ 4 \in {2, 4} /\ 2 \in Nat /\ 4 \in Nat /\ 2 + 2 <= 4 /\ ~(0 > 0)
  OBVIOUS
<1>c. 0 \in {0} \cup ITLengths
  BY Zenon
<1>a. Moves(d, d2, 4, 0) /\ d2.it = ItAfter(d, 0)
  BY <1>1, <1>2, <1>c, OtMoves, Zenon
<1>3. Moves(r, r2, 2, 0) /\ r2.it = ItAfter(r, 0)
  BY <1>1, <1>2, <1>c, OtMoves, Zenon
<1>4. d.gen = TRUE /\ r.gen = TRUE
  BY <1>1, PassNumbers, Zenon
<1> HIDE DEF d2, r2
<1>5. d2.it = 0 /\ r2.it = 0
  BY <1>1, <1>2, <1>a, <1>3, <1>4, Zenon DEF ItAfter
<1>6. Loaded(b, TRUE, d2, r2, 2)
  BY <1>2, <1>a, <1>3, <1>5, <1>c, RelatedMoves, Zenon
<1> QED
  BY <1>5, <1>6, Zenon DEF Loaded, RelatedAt, d2, r2

(* Bytes that may have been left out need not have been. *)
LEMMA RelatedWeaker ==
  ASSUME NEW b, NEW short, NEW short2, NEW d, NEW r, Related(b, short, d, r),
         ~short2 => ~short
  PROVE  Related(b, short2, d, r)
BY Zenon DEF Related

(* The passes of a record p. *)
RelatedRun(b, p) ==
  RelatedAt(b, p.shorter, p.dry, p.real, 0) /\ p.shorter \in BOOLEAN

(* A backward branch. *)
LEMMA RelatedLooped ==
  ASSUME Counting, NEW b, NEW p, RelatedRun(b, p)
  PROVE  RelatedRun(b, Looped(p))
<1> DEFINE d == p.dry
           r == p.real
           narrow == ~th_literal_pool_would_flush_for(r, 2)
<1>1. Related(b, p.shorter, d, r) /\ d.it = 0 /\ p.shorter \in BOOLEAN
  BY Zenon DEF RelatedAt, RelatedRun
<1>2. /\ Looped(p).dry = ot(d, 4, 0)
      /\ Looped(p).real = ot(r, IF narrow THEN 2 ELSE 4, 0)
      /\ Looped(p).shorter = (p.shorter \/ narrow)
  BY DEF Looped
<1> HIDE DEF d, r
<1>3. CASE narrow
  <2>1. Looped(p).real = ot(r, 2, 0) /\ Looped(p).shorter = TRUE
    BY <1>2, <1>3, Zenon
  <2>2. Related(b, TRUE, d, r)
    BY <1>1, RelatedWeaker, Zenon
  <2>3. RelatedAt(b, TRUE, ot(d, 4, 0), ot(r, 2, 0), 0)
    BY <1>1, <2>2, RelatedNarrow, Zenon
  <2> QED
    BY <1>2, <2>1, <2>3, Zenon DEF RelatedRun
<1>4. CASE ~narrow
  <2>1. Looped(p).real = ot(r, 4, 0) /\ Looped(p).shorter = p.shorter
    BY <1>1, <1>2, <1>4, Zenon
  <2>2. 4 \in {2, 4} /\ 0 \in {0} \cup ITLengths /\ Passed(0, 0) = 0
    BY DEF Passed
  <2>3. LoadedAt(b, p.shorter, ot(d, 4, 0), ot(r, 4, 0), 4, Passed(d.it, 0))
    BY <1>1, <2>2, RelatedOt, Zenon
  <2>4. RelatedAt(b, p.shorter, ot(d, 4, 0), ot(r, 4, 0), 0)
    BY <1>1, <2>2, <2>3, Zenon DEF LoadedAt, Loaded, RelatedAt
  <2> QED
    BY <1>1, <1>2, <2>1, <2>4, Zenon DEF RelatedRun
<1> QED
  BY <1>3, <1>4, Zenon

(* The output of the real pass is not looked at. *)
LEMMA RelatedQuiet ==
  ASSUME NEW b, NEW short, NEW d, NEW r, NEW i, RelatedAt(b, short, d, r, i)
  PROVE  RelatedAt(b, short, d, Quiet(r), i)
<1> DEFINE q == Quiet(r)
<1>1. Together(d, r) /\ (~short => Same(d, r)) /\ (b # NoBranch => Follows(b, d, r))
      /\ d.it = i
  BY Zenon DEF Related, RelatedAt
<1>2. PassOK(d) /\ PassOK(r) /\ d.dry = TRUE /\ r.dry = FALSE /\ d.it = r.it
  BY <1>1, Zenon DEF Together
<1>3. Shaped(r)
  BY <1>2, PassNumbers, Zenon
<1>4. /\ Shaped(q) /\ q.ind = r.ind /\ q.dry = r.dry /\ q.gen = r.gen /\ q.pool = r.pool
      /\ q.count = r.count /\ q.first = r.first /\ q.bytes = r.bytes /\ q.it = r.it
      /\ q.table = r.table /\ q.cache = r.cache /\ q.counted = r.counted
      /\ q.countedBytes = r.countedBytes /\ q.out = NoOut
  BY <1>3 DEF Quiet, Shaped, Fields
<1> HIDE DEF q
<1>5. Common(q)
  <2>1. Common(r)
    BY <1>2, Zenon DEF PassOK
  <2> QED
    BY <1>4, <2>1, Zenon DEF Common
<1>6. RealOK(q)
  <2>1. RealOK(r)
    BY <1>2, Zenon DEF PassOK
  <2> QED
    BY <1>4, <2>1, NoOutReads, Zenon DEF RealOK
<1>7. PassOK(q)
  <2>1. r.gen = TRUE /\ r.ind % 2 = 0 /\ r.first <= r.ind /\ Agrees(r)
    BY <1>2, Zenon DEF PassOK
  <2>2. Agrees(q)
    BY <1>4, <2>1, Zenon DEF Agrees
  <2>3. q.gen = TRUE /\ q.ind % 2 = 0 /\ q.first <= q.ind
    BY <1>4, <2>1, Zenon
  <2> QED
    BY <1>5, <1>6, <2>2, <2>3, Zenon DEF PassOK
<1>8. Together(d, q)
  BY <1>2, <1>4, <1>7, Zenon DEF Together
<1>9. Same(d, r) => Same(d, q)
  BY <1>4, Zenon DEF Same
<1>10. Follows(b, d, r) => Follows(b, d, q)
  <2>1. RealDist(b, q) = RealDist(b, r) /\ SeenPairs(q) = SeenPairs(r)
    BY <1>4, Zenon DEF RealDist, SeenPairs
  <2>2. Ahead(b, d, r) => Ahead(b, d, q)
    BY <1>4, <2>1, Zenon DEF Ahead
  <2>3. Unbroken(b, d, r) => Unbroken(b, d, q)
    BY <1>4, <2>1, <2>2, Zenon DEF Unbroken
  <2>4. Broken(b, d, r) => Broken(b, d, q)
    BY <1>4, Zenon DEF Broken
  <2>5. Growth(b, d, r) => Growth(b, d, q)
    BY <1>4, <2>1, Zenon DEF Growth
  <2> QED
    BY <2>1, <2>3, <2>4, <2>5, Zenon DEF Follows
<1>11. RelatedAt(b, short, d, q, i)
  BY <1>1, <1>8, <1>9, <1>10, Zenon DEF Related, RelatedAt
<1> QED
  BY <1>11, Zenon DEF q

-----------------------------------------------------------------------------
(* Where the passes begin. *)

(* The prologue, in the only pass that emits it. *)
LEMMA BegunReal ==
  ASSUME Counting
  PROVE  /\ PassOK(Begun.real) /\ Begun.real.dry = FALSE /\ Begun.real.it = 0
         /\ Begun.real.ind = 2 /\ Begun.real.count = 0 /\ Begun.real.bytes = 0
         /\ Begun.real.table = NoHash /\ Begun.real.gen = TRUE
<1> DEFINE s == [Fresh(0) EXCEPT !.gen = FALSE]
           t == [s EXCEPT !.gen = TRUE, !.it = 0]
           u == ot(t, 2, 0)
<1>1. Begun.real = u
  <2>1. Begun.real = prolog(s, FALSE, CHOOSE k \in Constants : TRUE)
    BY DEF Begun
  <2> QED
    BY <2>1 DEF prolog
<1>2. /\ Shaped(t) /\ t.dry = FALSE /\ t.gen = TRUE /\ t.ind = 0 /\ t.it = 0
      /\ t.pool = <<>> /\ t.count = 0 /\ t.first = -1 /\ t.bytes = 0
      /\ t.table = NoHash /\ t.cache = NoCache /\ t.counted = 0
      /\ t.countedBytes = 0 /\ t.out = NoOut
  BY Zenon DEF Fresh, Shaped, Fields
<1> HIDE DEF t
<1>3. 0 \in Nat /\ 0 % 2 = 0 /\ 2 \in {2, 4} /\ 0 \in {0} \cup ITLengths /\ ~(0 > 0)
      /\ 0 + 2 = 2
  OBVIOUS
<1>4. PassOK(t)
  <2>1. t.dry \in BOOLEAN
    BY <1>2, Zenon
  <2> QED
    BY <1>2, <1>3, <2>1, FreshPass, Zenon
<1>5. Moves(t, u, 2, 0) /\ u.it = ItAfter(t, 0)
  BY <1>3, <1>4, OtMoves, Zenon
<1> HIDE DEF u
<1>6. ~Due(t, 2 + 12 * 0)
  BY <1>2, Zenon DEF Due
<1>7. PassOK(u) /\ u.dry = t.dry /\ Stays(t, u, 2)
  BY <1>5, <1>6, Zenon DEF Moves
<1>8. u.it = 0
  BY <1>2, <1>3, <1>5, Zenon DEF ItAfter
<1>9. u.gen = TRUE
  BY <1>7, PassNumbers, Zenon
<1> QED
  BY <1>1, <1>2, <1>3, <1>7, <1>8, <1>9, Zenon DEF Stays

(* Both passes begin with the same window. *)
LEMMA RelatedBegun ==
  ASSUME Counting
  PROVE  RelatedAt(NoBranch, FALSE, Begun.dry, Begun.real, 0)
<1> DEFINE s == Begun.real
           d == Begun.dry
<1>1. d = dry_run_start(s)
  BY DEF Begun
<1>2. /\ Shaped(d) /\ d.dry = TRUE /\ d.gen = s.gen /\ d.ind = s.ind /\ d.it = s.it
      /\ d.pool = <<>> /\ d.count = 0 /\ d.first = -1 /\ d.bytes = 0
      /\ d.table = NoHash /\ d.cache = NoCache /\ d.counted = 0
      /\ d.countedBytes = 0 /\ d.out = NoOut
  <2> HIDE DEF s, d
  <2> QED
    BY <1>1, Zenon DEF dry_run_start, Fresh, Shaped, Fields
<1>3. /\ PassOK(s) /\ s.dry = FALSE /\ s.it = 0 /\ s.ind = 2 /\ s.count = 0
      /\ s.bytes = 0 /\ s.table = NoHash /\ s.gen = TRUE
  BY BegunReal, Zenon
<1> HIDE DEF s, d
<1>4. 2 \in Nat /\ 2 % 2 = 0
  OBVIOUS
<1>5. PassOK(d)
  <2>1. d.dry \in BOOLEAN
    BY <1>2, Zenon
  <2> QED
    BY <1>2, <1>3, <1>4, <2>1, FreshPass, Zenon
<1>6. Together(d, s)
  BY <1>2, <1>3, <1>5, Zenon DEF Together
<1>7. Same(d, s)
  BY <1>2, <1>3, Zenon DEF Same
<1>8. RelatedAt(NoBranch, FALSE, d, s, 0)
  BY <1>2, <1>3, <1>6, <1>7, Zenon DEF RelatedAt, Related
<1> QED
  BY <1>8, Zenon DEF s, d

(* p is the function up to some operation, loop by loop. *)
Circled(p, keys, e, n) ==
  /\ p[0] = [Begun EXCEPT !.dry = Laid(@, keys, e), !.real = Laid(@, keys, e)]
  /\ \A i \in 1 .. n : p[i] = Looped(p[i - 1])
  /\ Before(keys, e, n) = p[n]

(* The recursion of Before. *)
LEMMA BeforeIs ==
  ASSUME Counting, NEW n \in Nat, NEW keys, NEW e
  PROVE  \E p : Circled(p, keys, e, n)
<1> DEFINE s == [Begun EXCEPT !.dry = Laid(@, keys, e), !.real = Laid(@, keys, e)]
           Is(f) == f = [i \in 0 .. n |-> IF i = 0 THEN s ELSE Looped(f[i - 1])]
<1>1. PICK f : UpTo(f, "loop", keys, s, n)
  BY UpToExists, Zenon
<1>2. Is(f)
  <2> HIDE DEF s
  <2>1. "loop" # "block" /\ "loop" # "load"
    OBVIOUS
  <2>2. \A i, x : Again("loop", keys, i, x) = Looped(x)
    BY <2>1, Zenon DEF Again
  <2> QED
    BY <1>1, <2>2 DEF UpTo
<1>3. Before(keys, e, n) = (CHOOSE g : Is(g))[n]
  BY Zenon DEF Before
<1>4. PICK g : Is(g) /\ Before(keys, e, n) = g[n]
  BY <1>2, <1>3, Zenon
<1>5. \A i \in 0 .. n : g[i] = IF i = 0 THEN s ELSE Looped(g[i - 1])
  BY <1>4, Zenon
<1>6. 0 \in 0 .. n /\ \A i \in 1 .. n : i \in 0 .. n /\ i # 0
  OBVIOUS
<1> HIDE DEF Is
<1> QED
  BY <1>4, <1>5, <1>6, Zenon DEF Circled

(* The function up to the operations that are looked at. *)
LEMMA RelatedBefore ==
  ASSUME Counting, NEW n \in Nat, NEW keys \in Seq(Keys), NEW e \in Nat,
         NEW q, q = Before(keys, e, n)
  PROVE  RelatedRun(NoBranch, q)
<1>1. PICK p : Circled(p, keys, e, n)
  BY BeforeIs, Zenon
<1>2. /\ \A i \in 1 .. n : p[i] = Looped(p[i - 1])
      /\ q = p[n]
  BY <1>1, Zenon DEF Circled
<1> DEFINE G == {i \in Nat : RelatedRun(NoBranch, p[i])}
<1>3. 0 \in G
  <2>1. p[0] = [Begun EXCEPT !.dry = Laid(@, keys, e), !.real = Laid(@, keys, e)]
    BY <1>1, Zenon DEF Circled
  <2>2. /\ p[0].dry = Laid(Begun.dry, keys, e) /\ p[0].real = Laid(Begun.real, keys, e)
        /\ p[0].shorter = FALSE
    BY <2>1 DEF Begun
  <2>3. Related(NoBranch, FALSE, Begun.dry, Begun.real) /\ Begun.dry.it = 0
    BY RelatedBegun, Zenon DEF RelatedAt
  <2>4. RelatedAt(NoBranch, FALSE, Laid(Begun.dry, keys, e), Laid(Begun.real, keys, e), 0)
    BY <2>3, RelatedLaid, Zenon
  <2>5. 0 \in Nat
    OBVIOUS
  <2> QED
    BY <2>2, <2>4, <2>5, Zenon DEF RelatedRun
<1>4. ASSUME NEW i \in 1 .. n, i - 1 \in G
      PROVE  i \in G
  <2> DEFINE x == p[i - 1]
  <2>1. RelatedRun(NoBranch, x)
    BY <1>4, Zenon
  <2>2. p[i] = Looped(x)
    BY <1>2, Zenon
  <2>3. i \in Nat
    OBVIOUS
  <2> HIDE DEF x
  <2>4. RelatedRun(NoBranch, Looped(x))
    BY <2>1, RelatedLooped, Zenon
  <2> QED
    BY <2>2, <2>3, <2>4, Zenon
<1>5. n \in G
  <2> HIDE DEF G
  <2> QED
    BY <1>3, <1>4, StepByStep, Zenon
<1> QED
  BY <1>2, <1>5, Zenon

-----------------------------------------------------------------------------
(* A forward branch. *)

(* The rehearsal's CMP and branch. *)
DryBranch(d, kind) == ot(IF kind = "cbz" THEN ot(d, 2, 0) ELSE d, 4, 0)

(* They take six bytes or four, or more. *)
LEMMA DryBranched ==
  ASSUME Counting,
         NEW d, PassOK(d), d.dry = TRUE, d.it = 0, NEW kind \in {"b", "cbz"}
  PROVE  LET u == DryBranch(d, kind)
         IN  /\ PassOK(u) /\ u.dry = TRUE /\ u.it = 0 /\ Len(u.pool) = Len(d.pool)
             /\ u.ind >= d.ind + IF kind = "cbz" THEN 6 ELSE 4
<1> DEFINE u == DryBranch(d, kind)
<1>1. 2 \in {2, 4} /\ 4 \in {2, 4}
  OBVIOUS
<1>2. CASE kind = "cbz"
  <2> DEFINE v == ot(d, 2, 0)
  <2>1. u = ot(v, 4, 0)
    BY <1>2, Zenon DEF DryBranch
  <2>2. PassOK(v) /\ v.dry = TRUE /\ v.it = 0 /\ Len(v.pool) = Len(d.pool) /\ v.ind >= d.ind + 2
    BY <1>1, DryOt, Zenon
  <2> HIDE DEF u, v
  <2>3. PassOK(u) /\ u.dry = TRUE /\ u.it = 0 /\ Len(u.pool) = Len(v.pool) /\ u.ind >= v.ind + 4
    BY <1>1, <2>1, <2>2, DryOt, Zenon
  <2>4. d.ind \in Nat /\ v.ind \in Nat /\ u.ind \in Nat
    BY <2>2, <2>3, PassNumbers, Zenon
  <2>5. u.ind >= d.ind + 6
    <3>1. v.ind >= d.ind + 2 /\ u.ind >= v.ind + 4
      BY <2>2, <2>3, Zenon
    <3> QED
      BY <2>4, <3>1
  <2> QED
    BY <1>2, <2>2, <2>3, <2>5, Zenon DEF u
<1>3. CASE kind # "cbz"
  <2>1. u = ot(d, 4, 0)
    BY <1>3, Zenon DEF DryBranch
  <2> HIDE DEF u
  <2>2. PassOK(u) /\ u.dry = TRUE /\ u.it = 0 /\ Len(u.pool) = Len(d.pool) /\ u.ind >= d.ind + 4
    BY <1>1, <2>1, DryOt, Zenon
  <2> QED
    BY <1>3, <2>2, Zenon DEF u
<1> QED
  BY <1>2, <1>3, Zenon

(* c is a branch that has just been emitted in both passes. *)
JustBehind(c, d, r) ==
  /\ BranchOK(c) /\ c.pads = 0 /\ r.ind = c.at + 2 /\ Len(d.pool) = c.entries
  /\ d.ind >= c.from + IF c.kind = "cbz" THEN 6 ELSE 4
  /\ r.bytes = c.bytes
  /\ IF r.count = 0 THEN c.span = 0 /\ c.bytes = 0
     ELSE r.first <= c.at /\ c.span = (c.at - r.first) + 14 + c.bytes

(* The distances behind it. *)
LEMMA JustDistances ==
  ASSUME NEW c, NEW d, NEW r, Together(d, r), JustBehind(c, d, r)
  PROVE  /\ RealDist(c, r) = 2 /\ Since(c, d) = 0
         /\ DryDist(c, d) >= IF c.kind = "cbz" THEN 6 ELSE 4
<1>1. /\ BranchOK(c) /\ r.ind = c.at + 2 /\ Len(d.pool) = c.entries
      /\ d.ind >= c.from + IF c.kind = "cbz" THEN 6 ELSE 4
  BY Zenon DEF JustBehind
<1>2. d.ind \in Nat
  BY PassNumbers, Zenon DEF Together
<1>3. c.at \in Nat /\ c.from \in Nat /\ c.entries \in Nat
  BY <1>1, BranchNumbers, Zenon
<1> QED
  BY <1>1, <1>2, <1>3 DEF RealDist, Since, DryDist

(* Such a branch is followed. *)
LEMMA FollowsJust ==
  ASSUME Counting, NEW c, NEW d, NEW r, Together(d, r), JustBehind(c, d, r)
  PROVE  Follows(c, d, r)
<1> DEFINE dd == DryDist(c, d)
           seen == Cardinality(SeenPairs(r))
<1>1. BranchOK(c) /\ c.pads = 0 /\ r.bytes = c.bytes
  BY Zenon DEF JustBehind
<1>2. RealDist(c, r) = 2 /\ Since(c, d) = 0 /\ dd >= IF c.kind = "cbz" THEN 6 ELSE 4
  BY JustDistances, Zenon
<1>3. dd \in Int /\ r.bytes \in Nat /\ r.first \in Int
  BY <1>1, Distances, Zenon
<1>4. c.bytes \in Nat /\ c.span \in Nat /\ c.at \in Nat
  BY <1>1, BranchNumbers, Zenon
<1>5. seen \in Nat
  BY SeenBound, Zenon
<1> HIDE DEF dd, seen
<1>6. Ahead(c, d, r)
  <2>1. dd - 2 + 2 * 0 >= IF c.kind = "cbz" THEN 4 ELSE 2
    BY <1>2, <1>3
  <2>2. c.kind = "cbz" => dd - 2 >= IF d.ind % 4 = r.ind % 4 THEN 2 ELSE 4
    BY <1>2, <1>3
  <2> QED
    BY <1>1, <1>2, <2>1, <2>2, Zenon DEF Ahead, dd
<1>7. Growth(c, d, r)
  <2>1. dd >= 4
    BY <1>2, <1>3
  <2>2. 2 + c.bytes + (IF r.count = 0 THEN 0 ELSE 6) <= dd + 2 * 0 + c.bytes + 14 * 0 + 6
    BY <1>3, <1>4, <2>1
  <2> QED
    BY <1>1, <1>2, <2>2, Zenon DEF Growth, dd
<1>8. Unbroken(c, d, r)
  <2>1. c.bytes <= c.bytes + 2 * 2 /\ c.bytes <= c.bytes + 4 * 0 + 4 * seen
    BY <1>4, <1>5
  <2>2. CASE r.count = 0
    <3>1. c.span = 0 /\ c.bytes = 0
      BY <2>2, Zenon DEF JustBehind
    <3>2. ~(0 > 0)
      OBVIOUS
    <3> QED
      BY <1>1, <1>2, <1>6, <2>1, <2>2, <3>1, <3>2, Zenon DEF Unbroken, seen
  <2>3. CASE r.count # 0
    <3>1. r.first <= c.at /\ c.span = (c.at - r.first) + 14 + c.bytes
      BY <2>3, Zenon DEF JustBehind
    <3>2. c.span # 0
      BY <1>3, <1>4, <3>1
    <3> QED
      BY <1>1, <1>2, <1>6, <2>1, <2>3, <3>1, <3>2, Zenon DEF Unbroken, seen
  <2> QED
    BY <2>2, <2>3, Zenon
<1>9. 2 <= 2 /\ 0 <= dd /\ 0 <= 0
  BY <1>2, <1>3
<1> QED
  BY <1>1, <1>2, <1>7, <1>8, <1>9, Zenon DEF Follows, dd

(* What Commit records, for passes d and r. *)
Committed(c, kind, d, r) ==
  c = [kind |-> kind, from |-> d.ind, at |-> ot(r, 2, 0).ind - 2,
       entries |-> Len(d.pool), span |-> th_pool_span_after(r, 8),
       bytes |-> r.bytes, pads |-> 0, shrink |-> 0]

(* The fields of such a branch. *)
CommittedAt(c, kind, d, r) ==
  /\ BranchOK(c) /\ c.kind = kind /\ c.from = d.ind /\ c.at = r.ind
  /\ c.entries = Len(d.pool) /\ c.bytes = r.bytes /\ c.pads = 0
  /\ c.span = IF r.count = 0 THEN 0 ELSE (r.ind - r.first) + 14 + r.bytes

(* They are what the code looks at. *)
LEMMA CommittedFields ==
  ASSUME NEW d, NEW r, NEW r2, NEW c, NEW kind \in {"b", "cbz"}, PassOK(d), PassOK(r),
         Committed(c, kind, d, r), r2 = ot(r, 2, 0), Stays(r, r2, 2)
  PROVE  CommittedAt(c, kind, d, r)
<1>1. c = [kind |-> kind, from |-> d.ind, at |-> r2.ind - 2,
           entries |-> Len(d.pool), span |-> th_pool_span_after(r, 8),
           bytes |-> r.bytes, pads |-> 0, shrink |-> 0]
  BY Zenon DEF Committed
<1>2. d.ind \in Nat /\ Len(d.pool) \in Nat
  BY PassNumbers, Zenon
<1>3. r.ind \in Nat /\ r.bytes \in Nat /\ r.first \in Int /\ r.first <= r.ind
  BY PassNumbers, Zenon
<1>4. r2.ind - 2 = r.ind
  <2>1. r2.ind = r.ind + 2
    BY Zenon DEF Stays
  <2> QED
    BY <1>3, <2>1
<1>5. 8 \in Nat
  OBVIOUS
<1>6. th_pool_span_after(r, 8) = IF r.count = 0 THEN 0
                                 ELSE (r.ind - r.first) + 8 + 6 + r.bytes
  BY <1>5, SpanIs, Zenon
<1> DEFINE span == th_pool_span_after(r, 8)
           e == Len(d.pool)
<1>7. span = (IF r.count = 0 THEN 0 ELSE (r.ind - r.first) + 14 + r.bytes) /\ span \in Nat
  BY <1>3, <1>6
<1> HIDE DEF span, e
<1>8. c = [kind |-> kind, from |-> d.ind, at |-> r.ind, entries |-> e, span |-> span,
           bytes |-> r.bytes, pads |-> 0, shrink |-> 0]
  BY <1>1, <1>4, Zenon DEF span, e
<1>9. e \in Nat /\ 0 \in Nat
  BY <1>2 DEF e
<1>10. /\ BranchOK(c) /\ c.kind = kind /\ c.from = d.ind /\ c.at = r.ind
       /\ c.entries = e /\ c.bytes = r.bytes /\ c.pads = 0 /\ c.span = span
  BY <1>2, <1>3, <1>7, <1>8, <1>9 DEF BranchOK
<1> QED
  BY <1>7, <1>10, Zenon DEF e, CommittedAt

(* A forward branch, in both passes. *)
LEMMA RelatedForward ==
  ASSUME Counting,
         NEW d, NEW r, NEW c, NEW kind \in {"b", "cbz"}, Together(d, r), d.it = 0,
         ~th_literal_pool_would_flush_for(r, 2), Committed(c, kind, d, r)
  PROVE  RelatedAt(c, TRUE, DryBranch(d, kind), ot(r, 2, 0), 0)
<1> DEFINE d2 == DryBranch(d, kind)
           r2 == ot(r, 2, 0)
<1>1. PassOK(d) /\ PassOK(r) /\ d.dry = TRUE /\ r.dry = FALSE /\ r.it = 0
  BY Zenon DEF Together
<1>2. /\ PassOK(d2) /\ d2.dry = TRUE /\ d2.it = 0 /\ Len(d2.pool) = Len(d.pool)
      /\ d2.ind >= d.ind + IF kind = "cbz" THEN 6 ELSE 4
  BY <1>1, DryBranched, Zenon
<1>3. PassOK(r2) /\ r2.dry = FALSE /\ r2.it = 0 /\ Stays(r, r2, 2)
  BY <1>1, RealNarrow, Zenon
<1>4. Together(d2, r2)
  BY <1>2, <1>3, Zenon DEF Together
<1>a. CommittedAt(c, kind, d, r)
  BY <1>1, <1>3, CommittedFields, Zenon
<1>5. /\ BranchOK(c) /\ c.kind = kind /\ c.from = d.ind /\ c.at = r.ind
      /\ c.entries = Len(d.pool) /\ c.bytes = r.bytes /\ c.pads = 0
      /\ c.span = IF r.count = 0 THEN 0 ELSE (r.ind - r.first) + 14 + r.bytes
  BY <1>a, Zenon DEF CommittedAt
<1> HIDE DEF d2, r2
<1>6. JustBehind(c, d2, r2)
  <2>1. r2.ind = r.ind + 2 /\ r2.bytes = r.bytes /\ r2.count = r.count /\ r2.first = r.first
    BY <1>3, Zenon DEF Stays
  <2>2. r.count = 0 => r.bytes = 0
    BY <1>1, NoneNoBytes, Zenon
  <2>3. r.first <= r.ind
    BY <1>1, PassNumbers, Zenon
  <2>4. IF r2.count = 0 THEN c.span = 0 /\ c.bytes = 0
        ELSE r2.first <= c.at /\ c.span = (c.at - r2.first) + 14 + c.bytes
    BY <1>5, <2>1, <2>2, <2>3, Zenon
  <2>5. r2.ind = c.at + 2 /\ Len(d2.pool) = c.entries /\ r2.bytes = c.bytes
        /\ d2.ind >= c.from + IF c.kind = "cbz" THEN 6 ELSE 4
    BY <1>2, <1>5, <2>1, Zenon
  <2> QED
    BY <1>5, <2>4, <2>5, Zenon DEF JustBehind
<1>7. Follows(c, d2, r2)
  BY <1>4, <1>6, FollowsJust, Zenon
<1>8. RelatedAt(c, TRUE, d2, r2, 0)
  BY <1>2, <1>4, <1>7, Zenon DEF Related, RelatedAt
<1> QED
  BY <1>8, Zenon DEF d2, r2

-----------------------------------------------------------------------------
(* The inductive invariant. *)

(* Both passes begin related. *)
LEMMA InitRelated ==
  ASSUME Counting
  PROVE  Init => PassesInv
<1> SUFFICES ASSUME Init PROVE PassesInv
  BY Zenon
<1>1. PICK p : /\ \/ p = Begun
                  \/ \E keys \in StartLiterals, n \in StartTables, loops \in 0 .. MaxLoops :
                       p = Before(keys, n, loops)
               /\ dry = p.dry /\ real = Quiet(p.real) /\ shorter = p.shorter
               /\ branch = NoBranch
  BY DEF Init
<1>2. RelatedRun(NoBranch, p)
  <2>1. CASE p = Begun
    <3>1. Begun.shorter = FALSE
      BY DEF Begun
    <3> QED
      BY <2>1, <3>1, RelatedBegun, Zenon DEF RelatedRun
  <2>2. CASE p # Begun
    <3>1. PICK keys \in StartLiterals, n \in StartTables, loops \in 0 .. MaxLoops :
            p = Before(keys, n, loops)
      BY <1>1, <2>2, Zenon
    <3>2. keys \in Seq(Keys) /\ n \in Nat
      BY InputAssumption, Zenon
    <3>3. loops \in Nat
      BY InputAssumption
    <3> QED
      BY <3>1, <3>2, <3>3, RelatedBefore, Zenon
  <2> QED
    BY <2>1, <2>2, Zenon
<1>3. RelatedAt(NoBranch, p.shorter, p.dry, p.real, 0) /\ p.shorter \in BOOLEAN
  BY <1>2, Zenon DEF RelatedRun
<1>4. RelatedAt(NoBranch, p.shorter, p.dry, Quiet(p.real), 0)
  BY <1>3, RelatedQuiet, Zenon
<1> QED
  BY <1>1, <1>3, <1>4, Zenon DEF RelatedAt, PassesInv

(* An operation that takes both passes to d and r. *)
LEMMA EmitRelated ==
  ASSUME NEW d, NEW r, dry' = d, real' = Quiet(r), RelatedAt(branch', shorter', d, r, 0),
         shorter' \in BOOLEAN
  PROVE  PassesInv'
<1>1. RelatedAt(branch', shorter', d, Quiet(r), 0)
  BY RelatedQuiet, Zenon
<1>2. Related(branch', shorter', dry', real') /\ dry'.it = 0
  BY <1>1, Zenon DEF RelatedAt
<1> QED
  BY <1>2, Zenon DEF PassesInv

(* An operation that both passes take alike. *)
LEMMA BothRelated ==
  ASSUME NEW d, NEW r, PassesInv, Both(d, r), RelatedAt(branch, shorter, d, r, 0)
  PROVE  PassesInv'
<1>1. /\ dry' = d /\ real' = Quiet(r) /\ branch' = branch /\ shorter' = shorter
      /\ shorter \in BOOLEAN
  BY Zenon DEF Both, Emit, PassesInv
<1> QED
  BY <1>1, EmitRelated, Zenon

(* The loads and the other instructions. *)
LEMMA OperationRelated ==
  ASSUME Counting, PassesInv,
         Instruction \/ IfThen \/ LoadConstant \/ LoadPair \/ LoadThroughGot \/ SwitchTable
  PROVE  PassesInv'
<1>1. Related(branch, shorter, dry, real) /\ dry.it = 0
  BY Zenon DEF PassesInv
<1>2. Passed(0, 0) = 0 /\ 0 \in {0} \cup ITLengths
  BY DEF Passed
<1>3. CASE Instruction
  <2>1. PICK n \in {2, 4} : Both(ot(dry, n, 0), ot(real, n, 0))
    BY <1>3, Zenon DEF Instruction
  <2>2. LoadedAt(branch, shorter, ot(dry, n, 0), ot(real, n, 0), n, Passed(dry.it, 0))
    BY <1>1, <1>2, RelatedOt, Zenon
  <2>3. RelatedAt(branch, shorter, ot(dry, n, 0), ot(real, n, 0), 0)
    BY <1>1, <1>2, <2>2, Zenon DEF LoadedAt, Loaded, RelatedAt
  <2> QED
    BY <2>1, <2>3, BothRelated, Zenon
<1>4. CASE IfThen
  <2>1. PICK n \in ITLengths, loads \in BOOLEAN, k \in Constants :
          Both(Conditioned(dry, n, loads, k), Conditioned(real, n, loads, k))
    BY <1>4, Zenon DEF IfThen
  <2>2. k \in Keys
    BY Zenon DEF Keys
  <2>3. RelatedAt(branch, shorter, Conditioned(dry, n, loads, k),
                  Conditioned(real, n, loads, k), 0)
    BY <1>1, <2>2, RelatedBlock, Zenon
  <2> QED
    BY <2>1, <2>3, BothRelated, Zenon
<1>5. CASE LoadConstant
  <2>1. PICK k \in Keys, low \in BOOLEAN :
          Both(load_full_const(dry, k, 4, low), load_full_const(real, k, 4, low))
    BY <1>5, Zenon DEF LoadConstant
  <2>2. LoadArgs(k, 4, low)
    BY DEF LoadArgs
  <2>3. RelatedAt(branch, shorter, load_full_const(dry, k, 4, low),
                  load_full_const(real, k, 4, low), Passed(dry.it, 0))
    BY <1>1, <2>2, RelatedLoad, Zenon
  <2> QED
    BY <1>1, <1>2, <2>1, <2>3, BothRelated, Zenon
<1>6. CASE LoadPair
  <2>1. PICK k \in PairLiterals :
          Both(load_full_const(dry, k, 8, FALSE), load_full_const(real, k, 8, FALSE))
    BY <1>6, Zenon DEF LoadPair
  <2>2. LoadArgs(k, 8, FALSE)
    BY InputAssumption DEF LoadArgs
  <2>3. RelatedAt(branch, shorter, load_full_const(dry, k, 8, FALSE),
                  load_full_const(real, k, 8, FALSE), Passed(dry.it, 0))
    BY <1>1, <2>2, RelatedLoad, Zenon
  <2> QED
    BY <1>1, <1>2, <2>1, <2>3, BothRelated, Zenon
<1>7. CASE LoadThroughGot
  <2>1. PICK k \in Symbols, addend \in Constants :
          Both(load_through_got(dry, k, addend), load_through_got(real, k, addend))
    BY <1>7, Zenon DEF LoadThroughGot
  <2>2. k \in Keys /\ addend \in Keys
    BY Zenon DEF Keys
  <2>3. RelatedAt(branch, shorter, load_through_got(dry, k, addend),
                  load_through_got(real, k, addend), 0)
    BY <1>1, <2>2, RelatedGot, Zenon
  <2> QED
    BY <2>1, <2>3, BothRelated, Zenon
<1>8. CASE SwitchTable
  <2>1. PICK n \in TableSizes :
          Both(switch_table(dry, n, FALSE), switch_table(real, n, FALSE))
    BY <1>8, Zenon DEF SwitchTable
  <2>2. n \in Nat
    BY InputAssumption, Zenon
  <2>3. RelatedAt(branch, shorter, switch_table(dry, n, FALSE),
                  switch_table(real, n, FALSE), 0)
    BY <1>1, <2>2, RelatedTable, Zenon
  <2> QED
    BY <2>1, <2>3, BothRelated, Zenon
<1> QED
  BY <1>3, <1>4, <1>5, <1>6, <1>7, <1>8, Zenon

(* A target that is aligned. *)
LEMMA AlignRelated ==
  ASSUME PassesInv, AlignTarget
  PROVE  PassesInv'
<1>1. /\ Related(branch, shorter, dry, real) /\ dry.it = 0 /\ shorter \in BOOLEAN
      /\ (branch # NoBranch => BranchOK(branch))
  BY Zenon DEF PassesInv, Related, Follows
<1>2. PICK unneeded \in BOOLEAN :
        /\ dry' = Align(dry) /\ real' = Quiet(IF unneeded THEN real ELSE Align(real))
        /\ branch' = Within("pads", 1) /\ shorter' = (shorter \/ unneeded)
  BY Zenon DEF AlignTarget, Emit
<1>3. OnePad(branch, branch')
  <2>1. CASE branch = NoBranch
    BY <1>2, <2>1, Zenon DEF Within, Open, OnePad
  <2>2. CASE branch # NoBranch
    <3>1. branch' = [branch EXCEPT !["pads"] = @ + 1]
      BY <1>2, <2>2, Zenon DEF Within, Open
    <3>2. /\ SameBranch(branch, [branch EXCEPT !["pads"] = @ + 1])
          /\ [branch EXCEPT !["pads"] = @ + 1].pads = branch.pads + 1
      BY <1>1, <2>2, CountedBranch, Zenon
    <3> QED
      BY <2>2, <3>1, <3>2, Zenon DEF OnePad
  <2> QED
    BY <2>1, <2>2, Zenon
<1> DEFINE r2 == IF unneeded THEN real ELSE Align(real)
<1>4. shorter' \in BOOLEAN /\ (~shorter' => ~shorter /\ ~unneeded)
  BY <1>1, <1>2, Zenon
<1>5. RelatedAt(branch', shorter', Align(dry), r2, 0)
  BY <1>1, <1>3, <1>4, RelatedAlign, Zenon
<1> HIDE DEF r2
<1>6. real' = Quiet(r2) /\ dry' = Align(dry)
  BY <1>2, Zenon DEF r2
<1> QED
  BY <1>4, <1>5, <1>6, EmitRelated, Zenon

(* A backward branch behind the one that is followed. *)
LEMMA BackwardRelated ==
  ASSUME Counting, PassesInv, BackwardBranch
  PROVE  PassesInv'
<1> DEFINE p == [dry |-> dry, real |-> real, shorter |-> shorter]
           q == Looped(p)
<1>1. /\ Related(branch, shorter, dry, real) /\ dry.it = 0 /\ shorter \in BOOLEAN
  BY Zenon DEF PassesInv
<1>2. /\ dry' = q.dry /\ real' = Quiet(q.real) /\ shorter' = q.shorter
      /\ branch' = Within("shrink", 2)
  BY Zenon DEF BackwardBranch, Emit
<1>3. RelatedRun(branch, p)
  <2>1. p.dry = dry /\ p.real = real /\ p.shorter = shorter
    OBVIOUS
  <2> HIDE DEF p
  <2> QED
    BY <1>1, <2>1, Zenon DEF RelatedRun, RelatedAt
<1>4. RelatedRun(branch, q)
  BY <1>3, RelatedLooped, Zenon
<1> HIDE DEF p, q
<1>5. /\ Together(q.dry, q.real) /\ (~q.shorter => Same(q.dry, q.real)) /\ q.dry.it = 0
      /\ (branch # NoBranch => Follows(branch, q.dry, q.real)) /\ q.shorter \in BOOLEAN
  BY <1>4, Zenon DEF RelatedRun, RelatedAt, Related
<1>6. branch' # NoBranch => Follows(branch', q.dry, q.real)
  <2>1. CASE branch = NoBranch
    BY <1>2, <2>1, Zenon DEF Within, Open
  <2>2. CASE branch # NoBranch
    <3>1. branch' = [branch EXCEPT !["shrink"] = @ + 2]
      BY <1>2, <2>2, Zenon DEF Within, Open
    <3>2. Follows(branch, q.dry, q.real) /\ BranchOK(branch)
      BY <1>5, <2>2, Zenon DEF Follows
    <3>3. SameBranch(branch, branch') /\ branch'.pads = branch.pads
      BY <3>1, <3>2, CountedBranch, Zenon
    <3> QED
      BY <3>2, <3>3, FollowsShrunk, Zenon
  <2> QED
    BY <2>1, <2>2, Zenon
<1>7. RelatedAt(branch', shorter', q.dry, q.real, 0) /\ shorter' \in BOOLEAN
  BY <1>2, <1>5, <1>6, Zenon DEF RelatedAt, Related
<1> QED
  BY <1>2, <1>7, EmitRelated, Zenon

(* A forward branch that is made narrow. *)
LEMMA ForwardRelated ==
  ASSUME Counting, PassesInv, ForwardBranch
  PROVE  PassesInv'
<1>1. Together(dry, real) /\ dry.it = 0
  BY Zenon DEF PassesInv, Related
<1>2. PICK kind \in {"b", "cbz"} :
        /\ ~th_literal_pool_would_flush_for(real, 2)
        /\ dry' = DryBranch(dry, kind) /\ real' = Quiet(ot(real, 2, 0))
        /\ branch' = Commit(kind) /\ shorter' = TRUE
  BY Zenon DEF ForwardBranch, Emit, DryBranch
<1>3. Committed(branch', kind, dry, real)
  BY <1>2, Zenon DEF Commit, Committed
<1>4. RelatedAt(branch', TRUE, DryBranch(dry, kind), ot(real, 2, 0), 0)
  BY <1>1, <1>2, <1>3, RelatedForward, Zenon
<1> QED
  BY <1>2, <1>4, EmitRelated, Zenon

(* Every operation keeps the passes related. *)
LEMMA NextRelated ==
  ASSUME Counting
  PROVE  PassesInv /\ [Next]_vars => PassesInv'
<1> SUFFICES ASSUME PassesInv, [Next]_vars PROVE PassesInv'
  BY Zenon
<1>1. CASE Instruction \/ IfThen \/ LoadConstant \/ LoadPair \/ LoadThroughGot
           \/ SwitchTable
  BY <1>1, OperationRelated, Zenon
<1>2. CASE AlignTarget
  BY <1>2, AlignRelated, Zenon
<1>3. CASE BackwardBranch
  BY <1>3, BackwardRelated, Zenon
<1>4. CASE ForwardBranch
  BY <1>4, ForwardRelated, Zenon
<1>5. CASE Target
  BY <1>5, Zenon DEF Target, PassesInv, Related
<1>6. CASE UNCHANGED vars
  <2>1. dry' = dry /\ real' = real /\ branch' = branch /\ shorter' = shorter
    BY <1>6 DEF vars
  <2> QED
    BY <2>1, Zenon DEF PassesInv
<1> QED
  BY <1>1, <1>2, <1>3, <1>4, <1>5, <1>6, Zenon DEF Next

-----------------------------------------------------------------------------
(* What the invariant says about the windows and the branches. *)

(* Passes with the same branches have the same window. *)
LEMMA WindowsSame == PassesInv => SameWindow
<1> SUFFICES ASSUME PassesInv, ~shorter PROVE Window(dry) = Window(real)
  BY Zenon DEF SameWindow
<1>1. Together(dry, real) /\ Same(dry, real)
  BY Zenon DEF PassesInv, Related
<1>2. PassOK(dry) /\ PassOK(real) /\ dry.it = real.it
  BY <1>1, Zenon DEF Together
<1>3. dry.first \in Int /\ dry.first >= -1 /\ (dry.count = 0 <=> dry.first = -1)
  BY <1>2, PassNumbers, Zenon
<1>4. real.first \in Int /\ real.first >= -1 /\ (real.count = 0 <=> real.first = -1)
  BY <1>2, PassNumbers, Zenon
<1>5. dry.first < 0 <=> dry.count = 0
  BY <1>3
<1>6. real.first < 0 <=> real.count = 0
  BY <1>4
<1>7. /\ dry.count = real.count /\ dry.bytes = real.bytes
      /\ dry.ind % 4 = real.ind % 4
      /\ dry.count # 0 => dry.ind - dry.first = real.ind - real.first
  BY <1>1, Zenon DEF Same
<1>8. (IF dry.first < 0 THEN 0 ELSE dry.ind - dry.first)
        = (IF real.first < 0 THEN 0 ELSE real.ind - real.first)
  BY <1>5, <1>6, <1>7, Zenon
<1> QED
  BY <1>2, <1>7, <1>8, Zenon DEF Window

(* The numbers that the checks of the code are about. *)
LEMMA CheckedNumbers ==
  ASSUME PassesInv, branch # NoBranch
  PROVE  /\ Follows(branch, dry, real) /\ branch.pads \in Nat /\ branch.span \in Nat
         /\ branch.bytes \in Nat
         /\ DryDist(branch, dry) \in Int /\ RealDist(branch, real) \in Int
         /\ Since(branch, dry) \in Int /\ Since(branch, dry) >= 0
         /\ dry_dist = DryDist(branch, dry) /\ entries_in_range = Since(branch, dry)
         /\ Offset = RealDist(branch, real) - 4 /\ RealDist(branch, real) >= 2
<1>1. Together(dry, real) /\ Follows(branch, dry, real)
  BY Zenon DEF PassesInv, Related
<1>2. /\ BranchOK(branch) /\ 2 <= RealDist(branch, real) /\ 0 <= Since(branch, dry)
  BY <1>1, Zenon DEF Follows
<1>3. branch.pads \in Nat /\ branch.span \in Nat /\ branch.bytes \in Nat
  BY <1>2, BranchNumbers, Zenon
<1>4. /\ DryDist(branch, dry) \in Int /\ RealDist(branch, real) \in Int
      /\ Since(branch, dry) \in Int
  BY <1>1, <1>2, Distances, Zenon
<1>5. dry_dist = DryDist(branch, dry) /\ entries_in_range = Since(branch, dry)
  BY Zenon DEF dry_dist, DryDist, entries_in_range, Since
<1>6. Offset = RealDist(branch, real) - 4
  BY Zenon DEF Offset, RealDist
<1>7. RealDist(branch, real) >= 2 /\ Since(branch, dry) >= 0
  BY <1>2, <1>4
<1> QED
  BY <1>1, <1>3, <1>4, <1>5, <1>6, <1>7, Zenon

(* No range within the reach of a narrow branch fills a window. *)
LEMMA NotTooWide ==
  ASSUME NEW b, NEW d, DryDist(b, d) \in Int, b.pads \in Nat,
         DryDist(b, d) + 2 * b.pads <= NarrowReach + 4
  PROVE  ~TooWide(b, d)
<1> DEFINE x == DryDist(b, d) + 2 * b.pads
<1>1. x \in Int /\ x <= NarrowReach + 4
  OBVIOUS
<1> HIDE DEF x
<1> SUFFICES ASSUME NEW n \in {0} \cup ITLengths, 3 * x + 12 * n + 8 > Budget
             PROVE  FALSE
  BY Zenon DEF TooWide, x
<1>2. 3 * (NarrowReach + 4) + 12 * n + 8 <= Budget
  BY ScaleAssumption, Zenon DEF Budget
<1>3. n \in Nat /\ Budget \in Int
  BY BudgetNumbers, Zenon
<1>4. NarrowReach \in Nat
  BY BranchAssumption, Zenon
<1>5. 3 * x <= 3 * (NarrowReach + 4)
  BY <1>1, <1>4
<1> QED
  BY <1>1, <1>2, <1>3, <1>4, <1>5

(* A branch that is fused reaches its target. *)
LEMMA FusedInReach == PassesInv => FusedReaches
<1> SUFFICES ASSUME PassesInv, branch.kind = "cbz", Narrows
             PROVE  Offset \in -2 .. FusedReach
  BY Zenon DEF FusedReaches
<1> DEFINE dd == DryDist(branch, dry)
           rd == RealDist(branch, real)
           since == Since(branch, dry)
           pads == branch.pads
           span == branch.span
<1>1. branch # NoBranch
  BY DEF NoBranch
<1>2. /\ Follows(branch, dry, real) /\ pads \in Nat /\ span \in Nat
      /\ dd \in Int /\ rd \in Int /\ since \in Int
      /\ dry_dist = dd /\ entries_in_range = since
      /\ Offset = rd - 4 /\ rd >= 2
  BY <1>1, CheckedNumbers, Zenon
<1>3. /\ dd - 8 + 2 * pads <= FusedReach
      /\ span + dd + 4 * since < RangeLimit - FlushSlack - Cushion
  BY <1>2, Zenon DEF Narrows, cbz_forward_ok, pressure, rehearsal_max_growth_between
<1>4. FusedReach \in Nat /\ NarrowReach \in Nat /\ FusedReach + 4 <= NarrowReach
  BY BranchAssumption, Zenon
<1>5. Budget \in Int /\ Cushion \in Nat
  BY BudgetNumbers, Zenon
<1>6. Unbroken(branch, dry, real) \/ Broken(branch, dry, real)
  BY <1>2, Zenon DEF Follows
<1>7. ASSUME Broken(branch, dry, real)
      PROVE  FALSE
  <2>1. CASE span = 0
    <3>1. TooWide(branch, dry)
      BY <1>7, <2>1, Zenon DEF Broken
    <3>2. dd + 2 * pads <= NarrowReach + 4
      <4> HIDE DEF dd, pads
      <4> QED
        BY <1>2, <1>3, <1>4
    <3> QED
      BY <1>2, <3>1, <3>2, NotTooWide, Zenon
  <2>2. CASE span # 0
    <3>1. span > 0
      BY <1>2, <2>2
    <3>2. span + dd + 4 * since >= Budget - Cushion
      BY <1>7, <3>1, Zenon DEF Broken, TooClose
    <3>3. span + dd + 4 * since < Budget - Cushion
      BY <1>3, Zenon DEF Budget
    <3> HIDE DEF span, dd, since
    <3> QED
      BY <1>2, <1>5, <3>2, <3>3
  <2> QED
    BY <2>1, <2>2, Zenon
<1>8. dd - rd + 2 * pads >= 4
  BY <1>6, <1>7, Zenon DEF Unbroken, Ahead
<1> HIDE DEF dd, rd, since, pads, span
<1>9. rd - 4 \in Int /\ -2 <= rd - 4 /\ rd - 4 <= FusedReach
  BY <1>2, <1>3, <1>4, <1>8
<1> QED
  BY <1>2, <1>4, <1>9

(* A branch that is made narrow reaches its target if no pool comes before *)
(* it or if it fits with every pool that can.                              *)
LEMMA BoundedInReach == PassesInv => BoundedReaches
<1> SUFFICES ASSUME PassesInv, branch.kind = "b", Narrows, PoolBetween => FitsWithPools
             PROVE  Offset <= NarrowReach
  BY Zenon DEF BoundedReaches
<1> DEFINE dd == DryDist(branch, dry)
           rd == RealDist(branch, real)
           since == Since(branch, dry)
           pads == branch.pads
           span == branch.span
           bytes == branch.bytes
           y == IF real.count = 0 THEN 0 ELSE 6
<1>1. branch # NoBranch /\ branch.kind # "cbz"
  BY DEF NoBranch
<1>2. /\ Follows(branch, dry, real) /\ pads \in Nat /\ span \in Nat /\ bytes \in Nat
      /\ dd \in Int /\ rd \in Int /\ since \in Int
      /\ dry_dist = dd /\ entries_in_range = since /\ Offset = rd - 4
  BY <1>1, CheckedNumbers, Zenon
<1>3. dd - 4 + 2 * pads <= NarrowReach
  BY <1>1, <1>2, Zenon DEF Narrows, can_narrow_forward_branch, est_offset,
                           rehearsal_max_growth_between
<1>4. NarrowReach \in Nat /\ Cushion \in Nat
  BY BranchAssumption, Zenon
<1>5. CASE FitsWithPools
  <2>1. (dd - 4 + 2 * pads) + (bytes + 14 * since + 6 + Cushion) <= NarrowReach
    BY <1>2, <1>5, Zenon DEF FitsWithPools, est_offset, pool_flush_growth_bound,
                             rehearsal_max_growth_between
  <2>2. rd + real.bytes + y <= dd + 2 * pads + bytes + 14 * since + 6
    BY <1>2, Zenon DEF Follows, Growth
  <2>3. real.bytes \in Nat
    BY PassNumbers, Zenon DEF PassesInv, Related, Together
  <2>4. y \in Nat
    OBVIOUS
  <2> HIDE DEF dd, rd, since, pads, span, bytes, y
  <2>5. rd - 4 <= NarrowReach
    BY <1>2, <1>4, <2>1, <2>2, <2>3, <2>4
  <2> QED
    BY <1>2, <2>5, Zenon
<1>6. CASE ~FitsWithPools
  <2>1. Unbroken(branch, dry, real) \/ Broken(branch, dry, real)
    BY <1>2, Zenon DEF Follows
  <2>2. ASSUME Broken(branch, dry, real)
        PROVE  FALSE
    <3>1. CASE span = 0
      <4>1. TooWide(branch, dry)
        BY <2>2, <3>1, Zenon DEF Broken
      <4>2. dd + 2 * pads <= NarrowReach + 4
        <5> HIDE DEF dd, pads
        <5> QED
          BY <1>2, <1>3, <1>4
      <4> QED
        BY <1>2, <4>1, <4>2, NotTooWide, Zenon
    <3>2. CASE span # 0
      <4>1. span > 0
        BY <1>2, <3>2
      <4>2. ~(real.first < 0) /\ ~(real.first > branch.at)
        BY <1>6, <4>1, Zenon DEF PoolBetween
      <4>3. real.first \in Int /\ (real.count = 0 <=> real.first = -1)
        BY PassNumbers, Zenon DEF PassesInv, Related, Together
      <4>4. branch.at \in Nat
        BY <1>2, BranchNumbers, Zenon DEF Follows
      <4>5. real.count # 0 => branch.at < real.first
        BY <2>2, Zenon DEF Broken
      <4> QED
        BY <4>2, <4>3, <4>4, <4>5
    <3> QED
      BY <3>1, <3>2, Zenon
  <2>3. dd - rd + 2 * pads >= 2
    BY <1>1, <2>1, <2>2, Zenon DEF Unbroken, Ahead
  <2> HIDE DEF dd, rd, since, pads, span, bytes
  <2>4. rd - 4 <= NarrowReach
    BY <1>2, <1>3, <1>4, <2>3
  <2> QED
    BY <1>2, <2>4, Zenon
<1> QED
  BY <1>5, <1>6, Zenon

-----------------------------------------------------------------------------
(* The theorems, with what the library shows. *)
INSTANCE FiniteSetTheorems

(* A set of numbers has a least one, and finite sets have a size. *)
LEMMA CountingHolds == Counting
<1>1. ASSUME NEW T, T \subseteq Nat, T # {}
      PROVE  \E m \in T : \A k \in T : m <= k
  <2>1. PICK m \in T : \A k \in T : ~(<<k, m>> \in OpToRel(<, Nat))
    BY <1>1, NatLessThanWellFounded, WFMin, Zenon
  <2>2. \A k \in T : ~(k < m)
    BY <1>1, <2>1, Zenon DEF OpToRel
  <2> QED
    BY <1>1, <2>2
<1>2. \A T : IsFiniteSet(T) => Cardinality(T) \in Nat
  BY FS_CardinalityType, Zenon
<1>3. ASSUME NEW T, NEW R, IsFiniteSet(T), R \subseteq T
      PROVE  IsFiniteSet(R) /\ Cardinality(R) <= Cardinality(T)
  BY <1>3, FS_Subset, Zenon
<1>4. ASSUME NEW T, NEW x, IsFiniteSet(T), x \notin T
      PROVE  Cardinality(T \cup {x}) = Cardinality(T) + 1
  BY <1>4, FS_AddElement, Zenon
<1> QED
  BY <1>1, <1>2, <1>3, <1>4, Zenon DEF Counting

(* The rehearsal and the real pass stay related: with the same window if   *)
(* the real pass has left nothing out, and behind a narrow branch with     *)
(* distances that differ by what the checks of the code allow for.         *)
THEOREM PassesRelated == Spec => []PassesInv
<1>1. Init => PassesInv
  BY InitRelated, CountingHolds, Zenon
<1>2. PassesInv /\ [Next]_vars => PassesInv'
  BY NextRelated, CountingHolds, Zenon
<1> QED
  BY <1>1, <1>2, PTL DEF Spec

(* th_pool_span_after is the same in both passes as long as the real pass  *)
(* has left no bytes out: both write their pools at the same operations.   *)
THEOREM SameWindows == Spec => []SameWindow
BY PassesRelated, WindowsSame, PTL

(* A CMP and a branch that are fused to a CBZ reach their target, wherever *)
(* the real pass writes its pool.                                          *)
THEOREM FusedBranches == Spec => []FusedReaches
BY PassesRelated, FusedInReach, PTL

(* A forward branch that is made narrow reaches its target, unless it was  *)
(* made narrow for want of a pool and one comes before its target.         *)
THEOREM BoundedBranches == Spec => []BoundedReaches
BY PassesRelated, BoundedInReach, PTL
=============================================================================
