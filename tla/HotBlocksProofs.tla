-------------------------- MODULE HotBlocksProofs --------------------------
(***************************************************************************)
(* What the operators of HotBlocks do to a header table and to an arena,   *)
(* for every table, every arena size and every request: the lemmas the     *)
(* proofs about HotArena and HotMemory rest on.                            *)
(***************************************************************************)
EXTENDS ArenaContract, WellFoundedInduction, TLAPS

(* A non-empty set of naturals has a least element. *)
LEMMA NatMin ==
  ASSUME NEW T, T \subseteq Nat, T # {}
  PROVE  \E x \in T : \A y \in T : x <= y
<1>1. PICK x \in T : \A y \in T : <<y, x>> \notin OpToRel(<, Nat)
  BY NatLessThanWellFounded, WFMin, Zenon
<1>2. \A y \in T : ~ (y < x)
  BY <1>1, Zenon DEF OpToRel
<1> QED
  BY <1>2

-----------------------------------------------------------------------------
(* hb_link_next writes one `prev` field. *)
LEMMA LinkNext ==
  ASSUME NEW blk, NEW end \in Nat, IsHeaderTable(blk, end),
         NEW b \in DOMAIN blk,
         HB_NEXT(blk, b) < end => HB_NEXT(blk, b) \in DOMAIN blk
  PROVE  LET new == hb_link_next(blk, end, b)
         IN  /\ DOMAIN new = DOMAIN blk
             /\ IsHeaderTable(new, end)
             /\ \A x \in DOMAIN blk :
                  /\ new[x].size = blk[x].size
                  /\ new[x].used = blk[x].used
                  /\ new[x].prev = IF HB_NEXT(blk, b) < end /\ x = HB_NEXT(blk, b)
                                     THEN blk[b].size ELSE blk[x].prev
<1> DEFINE new == hb_link_next(blk, end, b)
           n == HB_NEXT(blk, b)
<1>1. CASE n < end
  <2>1. new = [blk EXCEPT ![n].prev = blk[b].size]
    BY <1>1 DEF hb_link_next
  <2>2. new = [x \in DOMAIN blk |->
                 IF x = n THEN [blk[x] EXCEPT !.prev = blk[b].size] ELSE blk[x]]
    BY <2>1, <1>1, Zenon DEF IsHeaderTable
  <2>3. \A x \in DOMAIN blk : blk[x] \in [size : Nat, used : BOOLEAN, prev : Nat]
    BY DEF IsHeaderTable
  <2> HIDE DEF new, n
  <2> QED
    BY <2>2, <2>3, <1>1 DEF IsHeaderTable, new, n
<1>2. CASE ~(n < end)
  BY <1>2 DEF hb_link_next
<1> QED
  BY <1>1, <1>2

(* What hb_split makes of a sound table. *)
SplitResult(blk, new, end, b, size) ==
  LET t == b + HeaderSize + size
  IN  /\ Sound(new, end)
      /\ SameElsewhere(blk, new, DOMAIN blk \ {b})
      /\ b \in DOMAIN new /\ new[b].used = blk[b].used
      /\ size <= new[b].size /\ new[b].size <= blk[b].size
      /\ \/ new = blk
         \/ /\ DOMAIN new = DOMAIN blk \cup {t}
            /\ t \notin DOMAIN blk
            /\ new[b].size = size
            /\ ~new[t].used
            /\ HB_NEXT(new, b) = t
            /\ HB_NEXT(new, t) = HB_NEXT(blk, b)

(* hb_split keeps a sound table sound, never touches another block, and    *)
(* leaves b at least the size it was cut to.                               *)
LEMMA Split ==
  ASSUME NEW blk, NEW end, Sound(blk, end), NEW b \in DOMAIN blk,
         NEW size \in Nat, size % 8 = 0, size >= 8, size <= blk[b].size
  PROVE  SplitResult(blk, hb_split(blk, end, b, size), end, b, size)
<1> DEFINE new == hb_split(blk, end, b, size)
           t == b + HeaderSize + size
           cut == CutAt(blk, b, size)
           n == HB_NEXT(blk, b)
<1>0. /\ end \in Nat /\ b \in Nat /\ b < end
      /\ \A x \in DOMAIN blk : x \in Nat /\ x < end
      /\ \A x \in DOMAIN blk : blk[x] \in [size : Nat, used : BOOLEAN, prev : Nat]
  BY DEF Sound, IsHeaderTable
<1>1. CASE blk[b].size < size + HeaderSize + 8
  BY <1>0, <1>1 DEF hb_split, SameElsewhere, SplitResult
<1>2. CASE ~(blk[b].size < size + HeaderSize + 8)
  <2>1. t \in Nat /\ b < t /\ t < n /\ n <= end /\ t < end
    BY <1>0, <1>2 DEF Sound, Tiled, HB_NEXT, HeaderSize
  <2>2. t \notin DOMAIN blk
    BY <2>1, <1>0 DEF Sound, Tiled
  <2>3. /\ DOMAIN cut = DOMAIN blk \cup {t}
        /\ cut[t] = Header(blk[b].size - size - HeaderSize, FALSE, size)
        /\ cut[b] = Header(size, blk[b].used, blk[b].prev)
        /\ \A x \in DOMAIN blk \ {b} : cut[x] = blk[x]
    BY <2>1, <2>2, <1>0, Zenon DEF CutAt
  <2>4. blk[b].size - size - HeaderSize \in Nat
    BY <1>0, <1>2 DEF HeaderSize
  <2>5. IsHeaderTable(cut, end)
    <3>1. cut = [x \in DOMAIN cut |-> cut[x]]
      BY Zenon DEF CutAt
    <3>2. \A x \in DOMAIN cut : cut[x] \in [size : Nat, used : BOOLEAN, prev : Nat]
      <4>1. cut[t] \in [size : Nat, used : BOOLEAN, prev : Nat]
        BY <2>3, <2>4 DEF Header
      <4>2. cut[b] \in [size : Nat, used : BOOLEAN, prev : Nat]
        BY <2>3, <1>0 DEF Header
      <4> HIDE DEF cut, t
      <4> QED
        BY <4>1, <4>2, <2>3, <1>0, Zenon
    <3>3. DOMAIN cut \subseteq 0 .. (end - 1)
      BY <2>3, <2>1, <1>0
    <3> HIDE DEF cut
    <3> QED
      BY <3>1, <3>2, <3>3 DEF IsHeaderTable
  <2>6. HB_NEXT(cut, t) = n
    BY <2>3, <1>0 DEF HB_NEXT, Header, HeaderSize
  <2>7. HB_NEXT(cut, t) < end => HB_NEXT(cut, t) \in DOMAIN cut
    BY <2>6, <2>3, <1>0 DEF Sound, Tiled
  <2>8. new = hb_link_next(cut, end, t)
    BY <1>2 DEF hb_split
  <2> HIDE DEF new, cut, t, n
  <2>9. /\ DOMAIN new = DOMAIN blk \cup {t}
        /\ IsHeaderTable(new, end)
        /\ \A x \in DOMAIN cut :
             /\ new[x].size = cut[x].size
             /\ new[x].used = cut[x].used
             /\ new[x].prev = IF n < end /\ x = n THEN cut[t].size ELSE cut[x].prev
    <3>1. t \in DOMAIN cut
      BY <2>3
    <3>2. LET r == hb_link_next(cut, end, t)
          IN  /\ DOMAIN r = DOMAIN cut
              /\ IsHeaderTable(r, end)
              /\ \A x \in DOMAIN cut :
                   /\ r[x].size = cut[x].size
                   /\ r[x].used = cut[x].used
                   /\ r[x].prev = IF HB_NEXT(cut, t) < end /\ x = HB_NEXT(cut, t)
                                    THEN cut[t].size ELSE cut[x].prev
      BY <3>1, <2>5, <2>7, LinkNext, <1>0
    <3> QED
      BY <3>2, <2>3, <2>6, <2>8, Zenon
  <2>10. /\ new[t].size = blk[b].size - size - HeaderSize
         /\ ~new[t].used
         /\ new[t].prev = size
         /\ new[b].size = size /\ new[b].used = blk[b].used
         /\ new[b].prev = blk[b].prev
         /\ \A x \in DOMAIN blk \ {b} :
              /\ new[x].size = blk[x].size
              /\ new[x].used = blk[x].used
              /\ new[x].prev = IF n < end /\ x = n
                                 THEN blk[b].size - size - HeaderSize
                                 ELSE blk[x].prev
    BY <2>9, <2>3, <2>1, <1>0 DEF Header
  <2>11. /\ HB_NEXT(new, b) = t
         /\ HB_NEXT(new, t) = n
         /\ \A x \in DOMAIN blk \ {b} : HB_NEXT(new, x) = HB_NEXT(blk, x)
    BY <2>10, <1>0 DEF HB_NEXT, t, n, HeaderSize
  <2>12. Tiled(new, end)
    <3>1. 0 \in DOMAIN new
      BY <2>9 DEF Sound, Tiled
    <3>2. \A x \in DOMAIN new : HB_NEXT(new, x) = end \/ HB_NEXT(new, x) \in DOMAIN new
      BY <2>9, <2>11 DEF Sound, Tiled, n
    <3>3. ASSUME NEW x \in DOMAIN new, NEW c \in DOMAIN new, x < c
          PROVE  HB_NEXT(new, x) <= c
      <4>1. CASE x = t
        <5>1. c \in DOMAIN blk /\ b < c
          BY <4>1, <3>3, <2>9, <2>1, <1>0
        <5> QED
          BY <5>1, <4>1, <2>11 DEF Sound, Tiled, n
      <4>2. CASE x = b
        BY <4>2, <3>3, <2>9, <2>11, <2>1, <1>0 DEF Sound, Tiled, n
      <4>3. CASE x # b /\ x # t /\ c = t
        <5>1. x \in DOMAIN blk /\ HB_NEXT(new, x) = HB_NEXT(blk, x)
          BY <4>3, <2>9, <2>11
        <5>2. x < b
          <6>1. ~(b < x)
            BY <5>1, <4>3, <3>3, <2>1, <1>0 DEF Sound, Tiled, n
          <6> QED
            BY <6>1, <5>1, <4>3, <1>0
        <5>3. HB_NEXT(blk, x) <= b
          BY <5>1, <5>2 DEF Sound, Tiled
        <5> QED
          BY <5>1, <5>3, <4>3, <2>1, <1>0 DEF HB_NEXT, HeaderSize
      <4>4. CASE x # b /\ x # t /\ c # t
        BY <4>4, <3>3, <2>9, <2>11 DEF Sound, Tiled
      <4> QED
        BY <4>1, <4>2, <4>3, <4>4
    <3> QED
      BY <3>1, <3>2, <3>3 DEF Tiled
  <2>13. BackLinked(new, end)
    <3>1. \A x \in DOMAIN new : new[x].prev = 0 <=> x = 0
      BY <2>9, <2>10, <2>1, <1>0, <1>2 DEF Sound, BackLinked, n, HB_NEXT, HeaderSize
    <3>2. ASSUME NEW x \in DOMAIN new, HB_NEXT(new, x) < end
          PROVE  new[HB_NEXT(new, x)].prev = new[x].size
      <4>1. CASE x = b
        BY <4>1, <2>10, <2>11
      <4>2. CASE x = t
        BY <4>2, <3>2, <2>10, <2>11, <2>1, <1>0 DEF Sound, Tiled, n
      <4>3. CASE x # b /\ x # t
        <5>1. /\ x \in DOMAIN blk /\ HB_NEXT(new, x) = HB_NEXT(blk, x)
              /\ new[x].size = blk[x].size
          BY <4>3, <2>9, <2>10, <2>11
        <5> DEFINE y == HB_NEXT(blk, x)
        <5>2. y \in DOMAIN blk /\ y # t
          BY <5>1, <3>2, <2>2 DEF Sound, Tiled
        <5>3. y # n
          <6>1. CASE x < b
            BY <6>1, <5>1, <2>1, <1>0 DEF Sound, Tiled
          <6>2. CASE b < x
            BY <6>2, <5>1, <1>0 DEF Sound, Tiled, n, HB_NEXT, HeaderSize
          <6> QED
            BY <6>1, <6>2, <5>1, <4>3, <1>0
        <5>4. new[y].prev = blk[y].prev
          BY <5>2, <5>3, <2>10
        <5> QED
          BY <5>1, <5>4, <3>2 DEF Sound, BackLinked
      <4> QED
        BY <4>1, <4>2, <4>3
    <3> QED
      BY <3>1, <3>2 DEF BackLinked
  <2>14. Aligned(new)
    <3>1. /\ t % 8 = 0
          /\ (blk[b].size - size - HeaderSize) % 8 = 0
          /\ blk[b].size - size - HeaderSize >= 8
      BY <1>0, <1>2 DEF Sound, Aligned, t, HeaderSize
    <3> QED
      BY <3>1, <2>9, <2>10 DEF Sound, Aligned
  <2>15. Sound(new, end)
    BY <1>0, <2>9, <2>12, <2>13, <2>14 DEF Sound
  <2> QED
    BY <2>15, <2>9, <2>10, <2>11, <2>2, <1>0 DEF SameElsewhere, SplitResult, new, t, n
<1> QED
  BY <1>1, <1>2

(* What hb_merge_next makes of a sound table when the next block is free. *)
MergeResult(blk, new, end, b, n) ==
  /\ Sound(new, end)
  /\ n \in DOMAIN blk /\ b < n
  /\ DOMAIN new = DOMAIN blk \ {n}
  /\ SameElsewhere(blk, new, DOMAIN blk \ {b, n})
  /\ new[b].used = blk[b].used
  /\ new[b].prev = blk[b].prev
  /\ new[b].size = blk[b].size + blk[n].size + HeaderSize
  /\ HB_NEXT(new, b) = HB_NEXT(blk, n)

(* hb_merge_next on a block whose successor is free: b swallows it and     *)
(* nothing else changes size or flag.                                      *)
LEMMA Merge ==
  ASSUME NEW blk, NEW end, Sound(blk, end), NEW b \in DOMAIN blk,
         HB_NEXT(blk, b) < end, ~blk[HB_NEXT(blk, b)].used
  PROVE  MergeResult(blk, hb_merge_next(blk, end, b), end, b, HB_NEXT(blk, b))
<1> DEFINE new == hb_merge_next(blk, end, b)
           n == HB_NEXT(blk, b)
           abs == Absorb(blk, b, n)
           m == HB_NEXT(blk, n)
<1>0. /\ end \in Nat /\ b \in Nat /\ b < end
      /\ \A x \in DOMAIN blk : x \in Nat /\ x < end
      /\ \A x \in DOMAIN blk : blk[x] \in [size : Nat, used : BOOLEAN, prev : Nat]
  BY DEF Sound, IsHeaderTable
<1>1. n \in DOMAIN blk /\ b < n
  BY <1>0 DEF Sound, Tiled, HB_NEXT, HeaderSize
<1>2. n < m /\ m <= end /\ (m < end => m \in DOMAIN blk) /\ m \in Nat
  BY <1>0, <1>1 DEF Sound, Tiled, HB_NEXT, HeaderSize
<1>3. /\ DOMAIN abs = DOMAIN blk \ {n}
      /\ abs[b] = Header(blk[b].size + blk[n].size + HeaderSize,
                         blk[b].used, blk[b].prev)
      /\ \A x \in DOMAIN blk \ {b, n} : abs[x] = blk[x]
  <2>1. b \in DOMAIN blk \ {n}
    BY <1>0, <1>1
  <2> HIDE DEF n
  <2> QED
    BY <2>1, Zenon DEF Absorb
<1>4. IsHeaderTable(abs, end)
  <2>1. abs = [x \in DOMAIN abs |-> abs[x]]
    BY DEF Absorb
  <2>2. abs[b] \in [size : Nat, used : BOOLEAN, prev : Nat]
    BY <1>3, <1>1, <1>0 DEF Header, HeaderSize
  <2> HIDE DEF abs, n
  <2>3. \A x \in DOMAIN abs : abs[x] \in [size : Nat, used : BOOLEAN, prev : Nat]
    BY <2>2, <1>3, <1>0
  <2>4. DOMAIN abs \subseteq 0 .. (end - 1)
    BY <1>3, <1>0
  <2> QED
    BY <2>1, <2>3, <2>4 DEF IsHeaderTable
<1>5. HB_NEXT(abs, b) = m
  BY <1>3, <1>1, <1>0 DEF HB_NEXT, Header, HeaderSize
<1>6. b \in DOMAIN abs /\ (m < end => m \in DOMAIN abs)
  BY <1>3, <1>1, <1>2, <1>0
<1>7. new = hb_link_next(abs, end, b)
  BY <1>0, <1>1 DEF hb_merge_next
<1> HIDE DEF new, abs, n, m
<1>a. HB_NEXT(abs, b) < end => HB_NEXT(abs, b) \in DOMAIN abs
  BY <1>5, <1>6
<1>8. LET r == hb_link_next(abs, end, b)
      IN  /\ DOMAIN r = DOMAIN abs
          /\ IsHeaderTable(r, end)
          /\ \A x \in DOMAIN abs :
               /\ r[x].size = abs[x].size
               /\ r[x].used = abs[x].used
               /\ r[x].prev = IF HB_NEXT(abs, b) < end /\ x = HB_NEXT(abs, b)
                                THEN abs[b].size ELSE abs[x].prev
  BY <1>4, <1>a, <1>6, LinkNext, <1>0
<1>9. /\ DOMAIN new = DOMAIN blk \ {n}
      /\ IsHeaderTable(new, end)
      /\ \A x \in DOMAIN abs :
           /\ new[x].size = abs[x].size
           /\ new[x].used = abs[x].used
           /\ new[x].prev = IF m < end /\ x = m THEN abs[b].size ELSE abs[x].prev
  BY <1>8, <1>3, <1>5, <1>7
<1>10. /\ new[b].size = blk[b].size + blk[n].size + HeaderSize
       /\ new[b].used = blk[b].used
       /\ new[b].prev = blk[b].prev
       /\ \A x \in DOMAIN blk \ {b, n} :
            /\ new[x].size = blk[x].size
            /\ new[x].used = blk[x].used
            /\ new[x].prev = IF m < end /\ x = m
                               THEN blk[b].size + blk[n].size + HeaderSize
                               ELSE blk[x].prev
  BY <1>9, <1>3, <1>1, <1>2, <1>0 DEF Header
<1>11. /\ HB_NEXT(new, b) = m
       /\ \A x \in DOMAIN blk \ {b, n} : HB_NEXT(new, x) = HB_NEXT(blk, x)
  BY <1>10, <1>1, <1>0 DEF HB_NEXT, n, m, HeaderSize
<1>12. Tiled(new, end)
  <2>1. 0 \in DOMAIN new
    BY <1>9, <1>1, <1>0 DEF Sound, Tiled
  <2>2. ASSUME NEW x \in DOMAIN new
        PROVE  HB_NEXT(new, x) = end \/ HB_NEXT(new, x) \in DOMAIN new
    <3>1. CASE x = b
      BY <3>1, <1>11, <1>2, <1>9, <1>0
    <3>2. CASE x # b
      <4>1. x \in DOMAIN blk \ {b, n} /\ HB_NEXT(new, x) = HB_NEXT(blk, x)
        BY <3>2, <1>9, <1>11
      <4>2. HB_NEXT(blk, x) # n
        <5>1. CASE x < b
          BY <5>1, <4>1, <1>1, <1>0 DEF Sound, Tiled
        <5>2. CASE b < x
          BY <5>2, <4>1, <1>0 DEF Sound, Tiled, n, HB_NEXT, HeaderSize
        <5> QED
          BY <5>1, <5>2, <4>1, <1>0
      <4> QED
        BY <4>1, <4>2, <1>9 DEF Sound, Tiled
    <3> QED
      BY <3>1, <3>2
  <2>3. ASSUME NEW x \in DOMAIN new, NEW c \in DOMAIN new, x < c
        PROVE  HB_NEXT(new, x) <= c
    <3>1. x \in DOMAIN blk /\ c \in DOMAIN blk /\ c # n
      BY <1>9
    <3>2. CASE x = b
      <4>1. n <= c
        BY <3>1, <3>2, <2>3 DEF Sound, Tiled, n
      <4>2. n < c
        BY <4>1, <3>1, <1>1, <1>0
      <4> QED
        BY <4>2, <3>1, <3>2, <1>1, <1>11 DEF Sound, Tiled, m
    <3>3. CASE x # b
      BY <3>1, <3>3, <2>3, <1>9, <1>11 DEF Sound, Tiled
    <3> QED
      BY <3>2, <3>3
  <2> QED
    BY <2>1, <2>2, <2>3 DEF Tiled
<1>13. BackLinked(new, end)
  <2>1. \A x \in DOMAIN new : new[x].prev = 0 <=> x = 0
    BY <1>9, <1>10, <1>1, <1>2, <1>0 DEF Sound, BackLinked, HeaderSize
  <2>2. ASSUME NEW x \in DOMAIN new, HB_NEXT(new, x) < end
        PROVE  new[HB_NEXT(new, x)].prev = new[x].size
    <3>1. CASE x = b
      BY <3>1, <2>2, <1>10, <1>11, <1>2, <1>1, <1>0
    <3>2. CASE x # b
      <4>1. x \in DOMAIN blk \ {b, n} /\ HB_NEXT(new, x) = HB_NEXT(blk, x)
        BY <3>2, <1>9, <1>11
      <4> DEFINE y == HB_NEXT(blk, x)
      <4>2. y \in DOMAIN new
        BY <4>1, <2>2, <1>12, <1>0 DEF Tiled
      <4>3. y # b => new[y].prev = IF m < end /\ y = m
                               THEN blk[b].size + blk[n].size + HeaderSize
                               ELSE blk[y].prev
        BY <4>2, <1>9, <1>10
      <4>4. y # m
        <5>1. CASE x < n
          BY <5>1, <4>1, <1>1, <1>2, <1>0 DEF Sound, Tiled
        <5>2. CASE n < x
          BY <5>2, <4>1, <1>1, <1>0 DEF Sound, Tiled, m, HB_NEXT, HeaderSize
        <5> QED
          BY <5>1, <5>2, <4>1, <1>1, <1>0
      <4>5. new[y].prev = blk[y].prev
        BY <4>3, <4>4, <1>10
      <4> QED
        BY <4>1, <4>5, <2>2, <1>10 DEF Sound, BackLinked
    <3> QED
      BY <3>1, <3>2
  <2> QED
    BY <2>1, <2>2 DEF BackLinked
<1>14. Aligned(new)
  <2>1. /\ (blk[b].size + blk[n].size + HeaderSize) % 8 = 0
        /\ blk[b].size + blk[n].size + HeaderSize >= 8
    BY <1>0, <1>1 DEF Sound, Aligned, HeaderSize
  <2> QED
    BY <2>1, <1>9, <1>10 DEF Sound, Aligned
<1>15. Sound(new, end)
  BY <1>0, <1>9, <1>12, <1>13, <1>14 DEF Sound
<1> QED
  BY <1>15, <1>9, <1>10, <1>11, <1>1 DEF SameElsewhere, MergeResult, new, n, m

(* HB_PREV finds the block that physically precedes b. *)
LEMMA PrevBlock ==
  ASSUME NEW blk, NEW end, Sound(blk, end), NEW b \in DOMAIN blk, b # 0
  PROVE  /\ HB_PREV(blk, b) \in DOMAIN blk
         /\ HB_PREV(blk, b) < b
         /\ HB_NEXT(blk, HB_PREV(blk, b)) = b
<1> DEFINE Below == {x \in DOMAIN blk : x < b}
           Gaps == {b - x : x \in Below}
<1>0. /\ end \in Nat
      /\ \A x \in DOMAIN blk : x \in Nat /\ x < end /\ blk[x].size \in Nat
  BY DEF Sound, IsHeaderTable
<1>1. 0 \in Below
  BY <1>0 DEF Sound, Tiled
<1>2. Gaps # {} /\ Gaps \subseteq Nat
  BY <1>0, <1>1
<1>3. PICK g \in Gaps : \A h \in Gaps : g <= h
  BY <1>2, NatMin, Zenon
<1>4. PICK q \in Below : g = b - q
  BY <1>3
<1>5. \A x \in Below : x <= q
  BY <1>3, <1>4, <1>0
<1>6. HB_NEXT(blk, q) <= b /\ q < HB_NEXT(blk, q)
  BY <1>4, <1>0 DEF Sound, Tiled, HB_NEXT, HeaderSize
<1>7. HB_NEXT(blk, q) \in DOMAIN blk
  BY <1>4, <1>6, <1>0 DEF Sound, Tiled
<1>8. HB_NEXT(blk, q) = b
  BY <1>5, <1>6, <1>7, <1>0
<1>9. blk[b].prev = blk[q].size
  BY <1>8, <1>4, <1>0 DEF Sound, BackLinked
<1>10. HB_PREV(blk, b) = q
  BY <1>8, <1>9, <1>4, <1>0 DEF HB_PREV, HB_NEXT, HeaderSize
<1> QED
  BY <1>8, <1>10, <1>4

(* Only the block before b has b as its next block. *)
LEMMA NextInjective ==
  ASSUME NEW blk, NEW end, Sound(blk, end),
         NEW x \in DOMAIN blk, NEW y \in DOMAIN blk,
         HB_NEXT(blk, x) = HB_NEXT(blk, y)
  PROVE  x = y
<1>1. /\ x \in Nat /\ y \in Nat
      /\ blk[x].size \in Nat /\ blk[y].size \in Nat
  BY DEF Sound, IsHeaderTable
<1>2. ~(x < y)
  BY <1>1 DEF Sound, Tiled, HB_NEXT, HeaderSize
<1>3. ~(y < x)
  BY <1>1 DEF Sound, Tiled, HB_NEXT, HeaderSize
<1> QED
  BY <1>1, <1>2, <1>3

(* Soundness depends on sizes and links only, not on the flags. *)
LEMMA SameLayout ==
  ASSUME NEW blk, NEW end, Sound(blk, end), NEW new, IsHeaderTable(new, end),
         DOMAIN new = DOMAIN blk,
         \A x \in DOMAIN blk : new[x].size = blk[x].size /\ new[x].prev = blk[x].prev
  PROVE  /\ Sound(new, end)
         /\ \A x \in DOMAIN blk : HB_NEXT(new, x) = HB_NEXT(blk, x)
<1>1. \A x \in DOMAIN blk : HB_NEXT(new, x) = HB_NEXT(blk, x)
  BY DEF HB_NEXT
<1>2. end \in Nat /\ DOMAIN blk \subseteq 0 .. (end - 1)
  BY DEF Sound, IsHeaderTable
<1>3. Tiled(new, end)
  BY <1>1 DEF Sound, Tiled
<1>4. BackLinked(new, end)
  <2>1. \A x \in DOMAIN blk : HB_NEXT(blk, x) < end => HB_NEXT(blk, x) \in DOMAIN blk
    BY <1>2 DEF Sound, Tiled
  <2> QED
    BY <2>1, <1>1 DEF Sound, BackLinked
<1>5. Aligned(new)
  BY DEF Sound, Aligned
<1> QED
  BY <1>1, <1>2, <1>3, <1>4, <1>5 DEF Sound

(* Marking b free keeps the table sound. *)
LEMMA FlagOff ==
  ASSUME NEW blk, NEW end, Sound(blk, end), NEW b \in DOMAIN blk
  PROVE  LET new == SetUsed(blk, b, FALSE)
         IN  /\ Sound(new, end)
             /\ DOMAIN new = DOMAIN blk
             /\ ~new[b].used
             /\ \A x \in DOMAIN blk : /\ new[x].size = blk[x].size
                                      /\ new[x].prev = blk[x].prev
                                      /\ HB_NEXT(new, x) = HB_NEXT(blk, x)
             /\ \A x \in DOMAIN blk \ {b} : new[x].used = blk[x].used
<1> DEFINE new == SetUsed(blk, b, FALSE)
<1>0. /\ DOMAIN blk \subseteq 0 .. (end - 1)
      /\ \A x \in DOMAIN blk : blk[x] \in [size : Nat, used : BOOLEAN, prev : Nat]
  BY DEF Sound, IsHeaderTable
<1>1. new = [x \in DOMAIN blk |->
               IF x = b THEN [blk[x] EXCEPT !.used = FALSE] ELSE blk[x]]
  BY Zenon DEF SetUsed, Sound, IsHeaderTable
<1> HIDE DEF new
<1>2. /\ DOMAIN new = DOMAIN blk
      /\ ~new[b].used
      /\ \A x \in DOMAIN blk : new[x].size = blk[x].size /\ new[x].prev = blk[x].prev
      /\ \A x \in DOMAIN blk \ {b} : new[x].used = blk[x].used
  BY <1>0, <1>1
<1>3. IsHeaderTable(new, end)
  BY <1>0, <1>1, Zenon DEF IsHeaderTable
<1> QED
  BY <1>2, <1>3, SameLayout, Zenon DEF new

(* Marking b in use keeps the table sound. *)
LEMMA FlagOn ==
  ASSUME NEW blk, NEW end, Sound(blk, end), NEW b \in DOMAIN blk
  PROVE  LET new == SetUsed(blk, b, TRUE)
         IN  /\ Sound(new, end)
             /\ DOMAIN new = DOMAIN blk
             /\ new[b].used
             /\ \A x \in DOMAIN blk : /\ new[x].size = blk[x].size
                                      /\ new[x].prev = blk[x].prev
                                      /\ HB_NEXT(new, x) = HB_NEXT(blk, x)
             /\ \A x \in DOMAIN blk \ {b} : new[x].used = blk[x].used
<1> DEFINE new == SetUsed(blk, b, TRUE)
<1>0. /\ DOMAIN blk \subseteq 0 .. (end - 1)
      /\ \A x \in DOMAIN blk : blk[x] \in [size : Nat, used : BOOLEAN, prev : Nat]
  BY DEF Sound, IsHeaderTable
<1>1. new = [x \in DOMAIN blk |->
               IF x = b THEN [blk[x] EXCEPT !.used = TRUE] ELSE blk[x]]
  BY Zenon DEF SetUsed, Sound, IsHeaderTable
<1> HIDE DEF new
<1>2. /\ DOMAIN new = DOMAIN blk
      /\ new[b].used
      /\ \A x \in DOMAIN blk : new[x].size = blk[x].size /\ new[x].prev = blk[x].prev
      /\ \A x \in DOMAIN blk \ {b} : new[x].used = blk[x].used
  BY <1>0, <1>1
<1>3. IsHeaderTable(new, end)
  BY <1>0, <1>1, Zenon DEF IsHeaderTable
<1> QED
  BY <1>2, <1>3, SameLayout, Zenon DEF new

(* hb_merge_next repairs the pair (b, next of b) and no block in use is    *)
(* touched, b itself apart.                                                *)
LEMMA MergeCoalesces ==
  ASSUME NEW blk, NEW end, Sound(blk, end), NEW b \in DOMAIN blk,
         NEW S, CoalescedBut(blk, end, S), HB_NEXT(blk, b) \notin S
  PROVE  LET new == hb_merge_next(blk, end, b)
         IN  /\ Sound(new, end)
             /\ CoalescedBut(new, end, S \ {b})
             /\ b \in DOMAIN new /\ DOMAIN new \subseteq DOMAIN blk
             /\ \A x \in DOMAIN blk : x <= b => x \in DOMAIN new
             /\ new[b].used = blk[b].used /\ new[b].prev = blk[b].prev
             /\ blk[b].size <= new[b].size
             /\ UsedBlocks(new) = UsedBlocks(blk)
             /\ SameElsewhere(blk, new, DOMAIN new \ {b})
<1> DEFINE new == hb_merge_next(blk, end, b)
           n == HB_NEXT(blk, b)
<1>0. /\ end \in Nat
      /\ \A x \in DOMAIN blk : x \in Nat /\ x < end /\ blk[x].size \in Nat
      /\ n \in Nat
      /\ \A x \in DOMAIN blk : HB_NEXT(blk, x) < end => HB_NEXT(blk, x) \in DOMAIN blk
  BY DEF Sound, IsHeaderTable, Tiled, HB_NEXT, HeaderSize
<1>1. CASE n >= end \/ blk[n].used
  <2>1. new = blk
    BY <1>1 DEF hb_merge_next
  <2>2. CoalescedBut(blk, end, S \ {b})
    BY <1>0, <1>1 DEF CoalescedBut
  <2> QED
    BY <2>1, <2>2, <1>0 DEF SameElsewhere
<1>2. CASE n < end /\ ~blk[n].used
  <2>1. /\ Sound(new, end)
        /\ n \in DOMAIN blk /\ b < n
        /\ DOMAIN new = DOMAIN blk \ {n}
        /\ SameElsewhere(blk, new, DOMAIN blk \ {b, n})
        /\ new[b].used = blk[b].used
        /\ new[b].prev = blk[b].prev
        /\ new[b].size = blk[b].size + blk[n].size + HeaderSize
        /\ HB_NEXT(new, b) = HB_NEXT(blk, n)
    <3>1. MergeResult(blk, new, end, b, n)
      BY <1>2, Merge
    <3> QED
      BY <3>1 DEF MergeResult
  <2> HIDE DEF new
  <2>2. \A x \in DOMAIN new \ {b} :
          /\ HB_NEXT(new, x) = HB_NEXT(blk, x)
          /\ HB_NEXT(blk, x) # n
          /\ new[x].used = blk[x].used
    BY <2>1, NextInjective DEF SameElsewhere, HB_NEXT
  <2>3. HB_NEXT(blk, n) < end => blk[HB_NEXT(blk, n)].used /\ HB_NEXT(blk, n) \notin {b, n}
    BY <1>0, <1>2, <2>1 DEF CoalescedBut, HB_NEXT, HeaderSize
  <2>4. HB_NEXT(blk, n) < end => new[HB_NEXT(blk, n)].used
    BY <2>1, <2>3, <1>0 DEF SameElsewhere
  <2>5. \A x \in DOMAIN blk \ {n} : new[x].used = blk[x].used
    BY <2>1 DEF SameElsewhere
  <2>6. CoalescedBut(new, end, S \ {b})
    <3> SUFFICES ASSUME NEW x \in DOMAIN new \ (S \ {b}), HB_NEXT(new, x) < end
                 PROVE  new[x].used \/ new[HB_NEXT(new, x)].used
      BY DEF CoalescedBut
    <3>1. CASE x = b
      BY <3>1, <2>1, <2>4
    <3>2. CASE x # b
      <4>1. /\ x \in DOMAIN blk \ S /\ x # n
            /\ HB_NEXT(new, x) = HB_NEXT(blk, x)
            /\ HB_NEXT(blk, x) \in DOMAIN blk \ {n}
        BY <3>2, <2>1, <2>2, <1>0
      <4> QED
        BY <4>1, <2>5 DEF CoalescedBut
    <3> QED
      BY <3>1, <3>2
  <2>7. UsedBlocks(new) = UsedBlocks(blk)
    BY <2>1, <2>5, <1>2 DEF UsedBlocks
  <2>8. \A x \in DOMAIN blk : x <= b => x \in DOMAIN new
    BY <2>1, <1>0
  <2>9. blk[b].size <= new[b].size
    BY <2>1, <1>0 DEF HeaderSize
  <2> QED
    BY <2>1, <2>6, <2>7, <2>8, <2>9, <1>0 DEF SameElsewhere, new
<1> QED
  BY <1>0, <1>1, <1>2

(* The header table part of hot_arena_free. *)
FreeTable(blk, end, b) ==
  LET blk1 == hb_merge_next(SetUsed(blk, b, FALSE), end, b)
      q    == HB_PREV(blk1, b)
  IN  IF blk1[b].prev # 0 /\ ~blk1[q].used
        THEN hb_merge_next(blk1, end, q)
        ELSE blk1

(* Freeing b merges it with both neighbours where they are free, and       *)
(* leaves every other block in use alone.                                  *)
LEMMA FreeKeeps ==
  ASSUME NEW blk, NEW end, Sound(blk, end), CoalescedBut(blk, end, {}),
         NEW b \in UsedBlocks(blk)
  PROVE  LET new == FreeTable(blk, end, b)
         IN  /\ Sound(new, end)
             /\ CoalescedBut(new, end, {})
             /\ UsedBlocks(new) = UsedBlocks(blk) \ {b}
             /\ SameElsewhere(blk, new, UsedBlocks(blk) \ {b})
<1> DEFINE blk0 == SetUsed(blk, b, FALSE)
           S == {b} \cup {x \in DOMAIN blk : HB_NEXT(blk, x) = b}
           blk1 == hb_merge_next(blk0, end, b)
           q == HB_PREV(blk1, b)
           new == FreeTable(blk, end, b)
<1>0. /\ end \in Nat /\ b \in DOMAIN blk
      /\ \A x \in DOMAIN blk : x \in Nat /\ x < end /\ blk[x].size \in Nat
      /\ \A x \in DOMAIN blk : HB_NEXT(blk, x) < end => HB_NEXT(blk, x) \in DOMAIN blk
      /\ \A x \in DOMAIN blk : x < HB_NEXT(blk, x)
  BY DEF Sound, IsHeaderTable, Tiled, HB_NEXT, HeaderSize, UsedBlocks
<1>1. /\ Sound(blk0, end)
      /\ DOMAIN blk0 = DOMAIN blk
      /\ ~blk0[b].used
      /\ \A x \in DOMAIN blk : /\ blk0[x].size = blk[x].size
                               /\ blk0[x].prev = blk[x].prev
                               /\ HB_NEXT(blk0, x) = HB_NEXT(blk, x)
      /\ \A x \in DOMAIN blk \ {b} : blk0[x].used = blk[x].used
  BY <1>0, FlagOff, Zenon
<1> HIDE DEF blk0
<1>2. CoalescedBut(blk0, end, S)
  BY <1>0, <1>1 DEF CoalescedBut
<1>3. HB_NEXT(blk0, b) \notin S
  BY <1>0, <1>1, NextInjective
<1>4. /\ Sound(blk1, end)
      /\ CoalescedBut(blk1, end, S \ {b})
      /\ b \in DOMAIN blk1 /\ DOMAIN blk1 \subseteq DOMAIN blk0
      /\ \A x \in DOMAIN blk0 : x <= b => x \in DOMAIN blk1
      /\ blk1[b].used = blk0[b].used /\ blk1[b].prev = blk0[b].prev
      /\ UsedBlocks(blk1) = UsedBlocks(blk0)
      /\ SameElsewhere(blk0, blk1, DOMAIN blk1 \ {b})
  <2>1. b \in DOMAIN blk0
    BY <1>0, <1>1
  <2>2. Sound(blk0, end)
    BY <1>1
  <2> HIDE DEF S
  <2> QED
    BY <2>1, <2>2, <1>2, <1>3, MergeCoalesces, Zenon
<1> HIDE DEF blk1
<1>5. UsedBlocks(blk1) = UsedBlocks(blk) \ {b}
  BY <1>1, <1>4 DEF UsedBlocks
<1>6. SameElsewhere(blk, blk1, UsedBlocks(blk) \ {b})
  <2>1. \A x \in UsedBlocks(blk) \ {b} : x \in DOMAIN blk1 \ {b}
    BY <1>5 DEF UsedBlocks
  <2> QED
    BY <2>1, <1>1, <1>4 DEF SameElsewhere
<1>7. new = IF blk1[b].prev # 0 /\ ~blk1[q].used
              THEN hb_merge_next(blk1, end, q) ELSE blk1
  BY DEF FreeTable, blk0, blk1
<1>8. CASE blk1[b].prev = 0
  <2>1. b = 0
    BY <1>8, <1>4 DEF Sound, BackLinked
  <2>2. S \ {b} = {}
    BY <2>1, <1>0
  <2> QED
    BY <2>2, <1>4, <1>5, <1>6, <1>7, <1>8
<1>9. CASE blk1[b].prev # 0
  <2>1. b # 0
    BY <1>9, <1>4 DEF Sound, BackLinked
  <2>2. q \in DOMAIN blk1 /\ q < b /\ HB_NEXT(blk1, q) = b
    BY <2>1, <1>4, PrevBlock
  <2> HIDE DEF q
  <2>3. q \in DOMAIN blk /\ q # b /\ HB_NEXT(blk, q) = b
    BY <2>2, <1>4, <1>1, <1>0 DEF SameElsewhere, HB_NEXT
  <2>4. S \ {b} = {q}
    BY <2>3, NextInjective
  <2>5. CASE blk1[q].used
    <3>1. CoalescedBut(blk1, end, {})
      BY <2>4, <2>5, <1>4 DEF CoalescedBut
    <3> QED
      BY <3>1, <2>5, <1>4, <1>5, <1>6, <1>7
  <2>6. CASE ~blk1[q].used
    <3>1. new = hb_merge_next(blk1, end, q)
      BY <2>6, <1>7, <1>9
    <3>2. CoalescedBut(blk1, end, {q}) /\ b \notin {q}
      BY <1>4, <2>4, <2>3
    <3>a. Sound(blk1, end) /\ HB_NEXT(blk1, q) \notin {q}
      BY <1>4, <3>2, <2>2
    <3> HIDE DEF new
    <3>3. /\ Sound(new, end)
          /\ CoalescedBut(new, end, {q} \ {q})
          /\ UsedBlocks(new) = UsedBlocks(blk1)
          /\ SameElsewhere(blk1, new, DOMAIN new \ {q})
      BY <3>1, <3>2, <3>a, <2>2, MergeCoalesces
    <3>4. \A x \in UsedBlocks(blk) \ {b} : x \in DOMAIN new \ {q}
      BY <3>3, <1>5, <2>6 DEF UsedBlocks
    <3>5. SameElsewhere(blk, new, UsedBlocks(blk) \ {b})
      BY <3>3, <3>4, <1>6 DEF SameElsewhere
    <3>6. {q} \ {q} = {}
      OBVIOUS
    <3> QED
      BY <3>3, <3>5, <3>6, <1>5 DEF new
  <2> QED
    BY <2>5, <2>6
<1> QED
  BY <1>8, <1>9

SplitKept(blk, new, end, b, size) ==
  LET t == HB_NEXT(new, b)
  IN  /\ Sound(new, end)
      /\ CoalescedBut(new, end, {b, t})
      /\ ~blk[b].used /\ t < end /\ HB_NEXT(new, t) < end
           => new[HB_NEXT(new, t)].used \/ new[t].used
      /\ b \in DOMAIN new /\ new[b].used = blk[b].used
      /\ size <= new[b].size
      /\ UsedBlocks(new) = UsedBlocks(blk)
      /\ SameElsewhere(blk, new, UsedBlocks(blk) \ {b})

(* hb_split on a block: only the tail it cuts off may be followed by a     *)
(* free block, and the blocks in use stay the same.                        *)
LEMMA SplitKeeps ==
  ASSUME NEW blk, NEW end, Sound(blk, end), CoalescedBut(blk, end, {}),
         NEW b \in DOMAIN blk,
         NEW size \in Nat, size % 8 = 0, size >= 8, size <= blk[b].size
  PROVE  SplitKept(blk, hb_split(blk, end, b, size), end, b, size)
<1> DEFINE new == hb_split(blk, end, b, size)
           t == b + HeaderSize + size
<1>0. /\ end \in Nat
      /\ \A x \in DOMAIN blk : x \in Nat /\ x < end /\ blk[x].size \in Nat
      /\ \A x \in DOMAIN blk : HB_NEXT(blk, x) < end => HB_NEXT(blk, x) \in DOMAIN blk
      /\ \A x \in DOMAIN blk : x < HB_NEXT(blk, x)
  BY DEF Sound, IsHeaderTable, Tiled, HB_NEXT, HeaderSize
<1>1. /\ Sound(new, end)
      /\ SameElsewhere(blk, new, DOMAIN blk \ {b})
      /\ b \in DOMAIN new /\ new[b].used = blk[b].used
      /\ size <= new[b].size
      /\ \/ new = blk
         \/ /\ DOMAIN new = DOMAIN blk \cup {t}
            /\ t \notin DOMAIN blk
            /\ new[b].size = size
            /\ ~new[t].used
            /\ HB_NEXT(new, b) = t
            /\ HB_NEXT(new, t) = HB_NEXT(blk, b)
  <2>1. SplitResult(blk, new, end, b, size)
    BY Split
  <2> QED
    BY <2>1 DEF SplitResult
<1> HIDE DEF new, t
<1>2. SameElsewhere(blk, new, UsedBlocks(blk) \ {b})
  BY <1>1 DEF SameElsewhere, UsedBlocks
<1>3. CASE new = blk
  BY <1>0, <1>1, <1>2, <1>3 DEF CoalescedBut, SplitKept, new
<1>4. CASE /\ DOMAIN new = DOMAIN blk \cup {t}
           /\ t \notin DOMAIN blk
           /\ ~new[t].used
           /\ HB_NEXT(new, b) = t
           /\ HB_NEXT(new, t) = HB_NEXT(blk, b)
  <2>1. UsedBlocks(new) = UsedBlocks(blk)
    BY <1>1, <1>4 DEF UsedBlocks, SameElsewhere
  <2>2. \A x \in DOMAIN blk : new[x].used = blk[x].used
    BY <1>1 DEF SameElsewhere
  <2>3. \A x \in DOMAIN blk \ {b} : HB_NEXT(new, x) = HB_NEXT(blk, x)
    BY <1>1 DEF SameElsewhere, HB_NEXT
  <2>4. CoalescedBut(new, end, {b, HB_NEXT(new, b)})
    BY <1>0, <1>4, <2>2, <2>3 DEF CoalescedBut
  <2>5. ~blk[b].used /\ HB_NEXT(blk, b) < end => new[HB_NEXT(blk, b)].used
    BY <1>0, <2>2 DEF CoalescedBut
  <2> QED
    BY <1>1, <1>2, <1>4, <2>1, <2>4, <2>5 DEF SplitKept, new
<1> QED
  BY <1>1, <1>3, <1>4

(* The header table part of hot_arena_alloc, once it chose b. *)
AllocTable(blk, end, b, n) == SetUsed(hb_split(blk, end, b, n), b, TRUE)

(* Allocating in a free block makes it the one new block in use. *)
LEMMA AllocKeeps ==
  ASSUME NEW blk, NEW end, Sound(blk, end), CoalescedBut(blk, end, {}),
         NEW b \in DOMAIN blk, ~blk[b].used,
         NEW n \in Nat, n % 8 = 0, n >= 8, n <= blk[b].size
  PROVE  LET new == AllocTable(blk, end, b, n)
         IN  /\ Sound(new, end)
             /\ CoalescedBut(new, end, {})
             /\ UsedBlocks(new) = UsedBlocks(blk) \cup {b}
             /\ SameElsewhere(blk, new, UsedBlocks(blk))
             /\ n <= new[b].size
<1> DEFINE cut == hb_split(blk, end, b, n)
           t == HB_NEXT(cut, b)
           new == AllocTable(blk, end, b, n)
<1>1. /\ Sound(cut, end)
      /\ CoalescedBut(cut, end, {b, t})
      /\ t < end /\ HB_NEXT(cut, t) < end => cut[HB_NEXT(cut, t)].used \/ cut[t].used
      /\ b \in DOMAIN cut
      /\ n <= cut[b].size
      /\ UsedBlocks(cut) = UsedBlocks(blk)
      /\ SameElsewhere(blk, cut, UsedBlocks(blk) \ {b})
  BY SplitKeeps DEF SplitKept
<1> HIDE DEF cut
<1>2. new = SetUsed(cut, b, TRUE)
  BY DEF AllocTable, cut
<1> HIDE DEF new
<1>3. /\ Sound(new, end)
      /\ DOMAIN new = DOMAIN cut
      /\ new[b].used
      /\ \A x \in DOMAIN cut : /\ new[x].size = cut[x].size
                               /\ HB_NEXT(new, x) = HB_NEXT(cut, x)
      /\ \A x \in DOMAIN cut \ {b} : new[x].used = cut[x].used
  BY <1>1, <1>2, FlagOn, Zenon
<1>4. UsedBlocks(new) = UsedBlocks(blk) \cup {b}
  BY <1>1, <1>3 DEF UsedBlocks
<1>5. b \notin UsedBlocks(blk)
  BY DEF UsedBlocks
<1>6. SameElsewhere(blk, new, UsedBlocks(blk))
  <2>1. \A x \in UsedBlocks(blk) : x \in DOMAIN cut \ {b}
    BY <1>1, <1>5 DEF UsedBlocks
  <2> QED
    BY <2>1, <1>1, <1>3, <1>5 DEF SameElsewhere
<1>7. \A x \in DOMAIN new : HB_NEXT(new, x) < end => HB_NEXT(new, x) \in DOMAIN new
  BY <1>3 DEF Sound, Tiled, IsHeaderTable
<1>8. CoalescedBut(new, end, {})
  <2> SUFFICES ASSUME NEW x \in DOMAIN new, HB_NEXT(new, x) < end
               PROVE  new[x].used \/ new[HB_NEXT(new, x)].used
    BY DEF CoalescedBut
  <2>0. HB_NEXT(new, x) = HB_NEXT(cut, x) /\ HB_NEXT(new, x) \in DOMAIN cut
    BY <1>3, <1>7
  <2>1. CASE x = b
    BY <2>1, <1>3
  <2>2. CASE x = t /\ x # b
    <3>1. t < end
      BY <2>2, <1>3 DEF Sound, IsHeaderTable
    <3>2. cut[HB_NEXT(cut, t)].used \/ cut[t].used
      BY <3>1, <2>0, <2>2, <1>1
    <3> QED
      BY <3>2, <2>0, <2>2, <1>3
  <2>3. CASE x # t /\ x # b
    <3>1. cut[x].used \/ cut[HB_NEXT(cut, x)].used
      BY <2>0, <2>3, <1>1, <1>3 DEF CoalescedBut
    <3> QED
      BY <3>1, <2>0, <2>3, <1>3
  <2> QED
    BY <2>1, <2>2, <2>3
<1>9. n <= new[b].size
  BY <1>1, <1>3
<1> QED
  BY <1>3, <1>4, <1>6, <1>8, <1>9 DEF new

(* The header table part of hot_arena_resize, once it can succeed. *)
ResizeTable(blk, end, b, n) ==
  LET blk1 == IF n > blk[b].size THEN hb_merge_next(blk, end, b) ELSE blk
      blk2 == hb_split(blk1, end, b, n)
      t    == HB_NEXT(blk2, b)
  IN  IF t < end /\ ~blk2[t].used THEN hb_merge_next(blk2, end, t) ELSE blk2

(* Growing into the free block behind b, or giving a tail back, changes no *)
(* other block in use and leaves no two free neighbours.                   *)
LEMMA ResizeKeeps ==
  ASSUME NEW blk, NEW end, Sound(blk, end), CoalescedBut(blk, end, {}),
         NEW b \in UsedBlocks(blk),
         NEW n \in Nat, n % 8 = 0, n >= 8,
         n > blk[b].size =>
           /\ HB_NEXT(blk, b) < end
           /\ ~blk[HB_NEXT(blk, b)].used
           /\ blk[b].size + blk[HB_NEXT(blk, b)].size + HeaderSize >= n
  PROVE  LET new == ResizeTable(blk, end, b, n)
         IN  /\ Sound(new, end)
             /\ CoalescedBut(new, end, {})
             /\ UsedBlocks(new) = UsedBlocks(blk)
             /\ SameElsewhere(blk, new, UsedBlocks(blk) \ {b})
             /\ n <= new[b].size
<1> DEFINE blk1 == IF n > blk[b].size THEN hb_merge_next(blk, end, b) ELSE blk
           blk2 == hb_split(blk1, end, b, n)
           t    == HB_NEXT(blk2, b)
           new  == ResizeTable(blk, end, b, n)
<1>0. b \in DOMAIN blk /\ blk[b].used /\ blk[b].size \in Nat /\ end \in Nat
  BY DEF UsedBlocks, Sound, IsHeaderTable
<1>1. /\ Sound(blk1, end)
      /\ CoalescedBut(blk1, end, {})
      /\ b \in DOMAIN blk1
      /\ n <= blk1[b].size
      /\ UsedBlocks(blk1) = UsedBlocks(blk)
      /\ SameElsewhere(blk, blk1, UsedBlocks(blk) \ {b})
  <2>1. CASE n > blk[b].size
    <3> DEFINE m == hb_merge_next(blk, end, b)
    <3>1. m[b].size = blk[b].size + blk[HB_NEXT(blk, b)].size + HeaderSize
      <4>1. MergeResult(blk, m, end, b, HB_NEXT(blk, b))
        BY <1>0, <2>1, Merge
      <4> QED
        BY <4>1 DEF MergeResult
    <3>2. /\ Sound(m, end)
          /\ CoalescedBut(m, end, {} \ {b})
          /\ b \in DOMAIN m
          /\ UsedBlocks(m) = UsedBlocks(blk)
          /\ SameElsewhere(blk, m, DOMAIN m \ {b})
      <4>1. HB_NEXT(blk, b) \notin {}
        OBVIOUS
      <4> QED
        BY <1>0, <4>1, MergeCoalesces, Zenon
    <3>3. {} \ {b} = {}
      OBVIOUS
    <3>4. blk1 = m
      BY <2>1
    <3> HIDE DEF m, blk1
    <3>5. SameElsewhere(blk, m, UsedBlocks(blk) \ {b})
      BY <3>2 DEF SameElsewhere, UsedBlocks
    <3> QED
      BY <2>1, <3>1, <3>2, <3>3, <3>4, <3>5
  <2>2. CASE ~(n > blk[b].size)
    BY <1>0, <2>2 DEF SameElsewhere, UsedBlocks
  <2> QED
    BY <2>1, <2>2
<1> HIDE DEF blk1
<1>2. /\ Sound(blk2, end)
      /\ CoalescedBut(blk2, end, {b, t})
      /\ b \in DOMAIN blk2
      /\ n <= blk2[b].size
      /\ UsedBlocks(blk2) = UsedBlocks(blk1)
      /\ SameElsewhere(blk1, blk2, UsedBlocks(blk1) \ {b})
  <2>1. SplitKept(blk1, blk2, end, b, n)
    BY <1>1, SplitKeeps
  <2> QED
    BY <2>1 DEF SplitKept
<1> HIDE DEF blk2
<1>3. blk2[b].used
  BY <1>0, <1>1, <1>2 DEF UsedBlocks
<1>4. CoalescedBut(blk2, end, {t})
  BY <1>2, <1>3 DEF CoalescedBut
<1>5. SameElsewhere(blk, blk2, UsedBlocks(blk) \ {b})
  BY <1>1, <1>2 DEF SameElsewhere
<1>6. new = IF t < end /\ ~blk2[t].used THEN hb_merge_next(blk2, end, t) ELSE blk2
  BY DEF ResizeTable, blk2, blk1
<1>7. CASE t < end /\ ~blk2[t].used
  <2>1. t \in DOMAIN blk2 /\ t # b
    BY <1>2, <1>7, <1>3 DEF Sound, Tiled, IsHeaderTable
  <2>2. HB_NEXT(blk2, t) \notin {t}
    BY <2>1, <1>2 DEF HB_NEXT, HeaderSize, Sound, IsHeaderTable
  <2>3. new = hb_merge_next(blk2, end, t)
    BY <1>6, <1>7
  <2> HIDE DEF t, new
  <2>4. /\ Sound(new, end)
        /\ CoalescedBut(new, end, {t} \ {t})
        /\ UsedBlocks(new) = UsedBlocks(blk2)
        /\ SameElsewhere(blk2, new, DOMAIN new \ {t})
    BY <1>2, <1>4, <2>1, <2>2, <2>3, MergeCoalesces, Zenon
  <2>5. {t} \ {t} = {}
    OBVIOUS
  <2>6. \A x \in UsedBlocks(blk) : x \in DOMAIN new \ {t}
    BY <1>1, <1>2, <1>7, <2>4 DEF UsedBlocks
  <2>7. SameElsewhere(blk, new, UsedBlocks(blk) \ {b})
    BY <1>5, <2>4, <2>6 DEF SameElsewhere
  <2>8. n <= new[b].size
    BY <1>2, <2>4, <2>6 DEF SameElsewhere
  <2> QED
    BY <1>1, <1>2, <2>4, <2>5, <2>7, <2>8, Zenon DEF new
<1>8. CASE ~(t < end /\ ~blk2[t].used)
  <2>1. new = blk2
    BY <1>6, <1>8
  <2>2. CoalescedBut(blk2, end, {})
    <3> SUFFICES ASSUME NEW x \in DOMAIN blk2, HB_NEXT(blk2, x) < end
                 PROVE  blk2[x].used \/ blk2[HB_NEXT(blk2, x)].used
      BY DEF CoalescedBut
    <3>1. CASE x = t
      BY <3>1, <1>8, <1>2 DEF Sound, IsHeaderTable
    <3>2. CASE x # t
      BY <3>2, <1>4 DEF CoalescedBut
    <3> QED
      BY <3>1, <3>2
  <2> QED
    BY <1>1, <1>2, <1>5, <2>1, <2>2
<1> QED
  BY <1>7, <1>8

-----------------------------------------------------------------------------
(* Counting the bytes in use. *)

BytesOf(blk, U) == UNION {Extent(blk, x) : x \in U}

INSTANCE FiniteSetTheorems

(* A block covers its payload and one header, inside the arena. *)
LEMMA ExtentBytes ==
  ASSUME NEW blk, NEW end, Sound(blk, end), NEW b \in DOMAIN blk
  PROVE  /\ Extent(blk, b) \subseteq 0 .. (end - 1)
         /\ IsFiniteSet(Extent(blk, b))
         /\ Cardinality(Extent(blk, b)) = blk[b].size + HeaderSize
<1>1. /\ b \in Nat /\ blk[b].size \in Nat /\ end \in Nat
      /\ HB_NEXT(blk, b) <= end
      /\ HB_NEXT(blk, b) = b + HeaderSize + blk[b].size
  BY DEF Sound, Tiled, IsHeaderTable, HB_NEXT, HeaderSize
<1>2. b \in Int /\ HB_NEXT(blk, b) - 1 \in Int /\ ~(b > HB_NEXT(blk, b) - 1)
  BY <1>1 DEF HeaderSize
<1>3. /\ IsFiniteSet(b .. (HB_NEXT(blk, b) - 1))
      /\ Cardinality(b .. (HB_NEXT(blk, b) - 1)) = (HB_NEXT(blk, b) - 1) - b + 1
  BY <1>2, FS_Interval
<1>4. (HB_NEXT(blk, b) - 1) - b + 1 = blk[b].size + HeaderSize
  BY <1>1 DEF HeaderSize
<1>5. Extent(blk, b) = b .. (HB_NEXT(blk, b) - 1)
  BY DEF Extent
<1>6. Extent(blk, b) \subseteq 0 .. (end - 1)
  BY <1>1, <1>5 DEF HeaderSize
<1> QED
  BY <1>3, <1>4, <1>5, <1>6

(* Two blocks of a tiled arena share no byte. *)
LEMMA ExtentsDisjoint ==
  ASSUME NEW blk, NEW end, Sound(blk, end),
         NEW b \in DOMAIN blk, NEW c \in DOMAIN blk, b # c
  PROVE  Extent(blk, b) \cap Extent(blk, c) = {}
<1>1. /\ b \in Nat /\ c \in Nat
      /\ blk[b].size \in Nat /\ blk[c].size \in Nat
      /\ b < c => HB_NEXT(blk, b) <= c
      /\ c < b => HB_NEXT(blk, c) <= b
      /\ HB_NEXT(blk, b) \in Nat /\ HB_NEXT(blk, c) \in Nat
  BY DEF Sound, Tiled, IsHeaderTable, HB_NEXT, HeaderSize
<1> QED
  BY <1>1 DEF Extent

(* The bytes in use are those of b and those of the other used blocks. *)
LEMMA UsedWithout ==
  ASSUME NEW blk, NEW end, Sound(blk, end), NEW b \in UsedBlocks(blk)
  PROVE  Cardinality(UsedBytes(blk))
           = Cardinality(BytesOf(blk, UsedBlocks(blk) \ {b}))
             + blk[b].size + HeaderSize
<1> DEFINE R == BytesOf(blk, UsedBlocks(blk) \ {b})
           E == Extent(blk, b)
<1>0. b \in DOMAIN blk /\ end \in Nat /\ \A x \in UsedBlocks(blk) : x \in DOMAIN blk
  BY DEF UsedBlocks, Sound
<1>1. UsedBytes(blk) = R \cup E
  BY DEF UsedBytes, BytesOf
<1>2. R \cap E = {}
  <2>1. \A x \in UsedBlocks(blk) \ {b} : Extent(blk, x) \cap Extent(blk, b) = {}
    BY <1>0, ExtentsDisjoint
  <2> QED
    BY <2>1 DEF BytesOf
<1>3. IsFiniteSet(R)
  <2>1. R \subseteq 0 .. (end - 1)
    BY <1>0, ExtentBytes DEF BytesOf
  <2>2. IsFiniteSet(0 .. (end - 1))
    BY <1>0, FS_Interval
  <2> HIDE DEF R
  <2> QED
    BY <2>1, <2>2, FS_Subset, Zenon
<1>4. /\ IsFiniteSet(E)
      /\ Cardinality(E) = blk[b].size + HeaderSize
  BY <1>0, ExtentBytes
<1> HIDE DEF R, E
<1>5. Cardinality(R \cup E) = Cardinality(R) + Cardinality(E) - Cardinality(R \cap E)
  BY <1>3, <1>4, FS_Union
<1>6. Cardinality(R \cap E) = 0
  BY <1>2, FS_EmptySet
<1>7. Cardinality(R) \in Nat
  BY <1>3, FS_CardinalityType
<1>8. blk[b].size \in Nat
  BY <1>0 DEF Sound, IsHeaderTable
<1> QED
  BY <1>1, <1>4, <1>5, <1>6, <1>7, <1>8 DEF R, HeaderSize

(* Blocks that keep their size keep their bytes. *)
LEMMA BytesStay ==
  ASSUME NEW blk, NEW new, NEW U, SameElsewhere(blk, new, U)
  PROVE  BytesOf(new, U) = BytesOf(blk, U)
<1>1. \A x \in U : Extent(new, x) = Extent(blk, x)
  BY DEF SameElsewhere, Extent, HB_NEXT
<1> QED
  BY <1>1 DEF BytesOf

(* The bytes of the other used blocks are finitely many. *)
LEMMA RestFinite ==
  ASSUME NEW blk, NEW end, Sound(blk, end), NEW b
  PROVE  IsFiniteSet(BytesOf(blk, UsedBlocks(blk) \ {b}))
<1>1. end \in Nat /\ \A x \in UsedBlocks(blk) : x \in DOMAIN blk
  BY DEF Sound, UsedBlocks
<1>2. BytesOf(blk, UsedBlocks(blk) \ {b}) \subseteq 0 .. (end - 1)
  BY <1>1, ExtentBytes DEF BytesOf
<1>3. 0 \in Int /\ end - 1 \in Int
  BY <1>1
<1>4. IsFiniteSet(0 .. (end - 1))
  BY <1>3, FS_Interval, Zenon
<1> QED
  BY <1>2, <1>4, FS_Subset, Zenon

(* The bytes in use lie in the arena. *)
LEMMA UsedBounded ==
  ASSUME NEW blk, NEW end, Sound(blk, end)
  PROVE  Cardinality(UsedBytes(blk)) \in Nat /\ Cardinality(UsedBytes(blk)) <= end
<1>0. end \in Nat /\ \A x \in UsedBlocks(blk) : x \in DOMAIN blk
  BY DEF UsedBlocks, Sound
<1>1. UsedBytes(blk) \subseteq 0 .. (end - 1)
  BY <1>0, ExtentBytes DEF UsedBytes
<1>2. IsFiniteSet(0 .. (end - 1)) /\ Cardinality(0 .. (end - 1)) <= end
  BY <1>0, FS_Interval
<1> HIDE DEF UsedBytes
<1>3. IsFiniteSet(UsedBytes(blk)) /\ Cardinality(UsedBytes(blk)) <= Cardinality(0 .. (end - 1))
  BY <1>1, <1>2, FS_Subset, Zenon
<1>4. Cardinality(UsedBytes(blk)) \in Nat /\ Cardinality(0 .. (end - 1)) \in Nat
  BY <1>2, <1>3, FS_CardinalityType
<1> QED
  BY <1>0, <1>2, <1>3, <1>4

(* Rounding a request up gives a legal payload size that covers it. *)
LEMMA RequestRounds ==
  ASSUME NEW bytes \in Nat
  PROVE  /\ Request(bytes) \in Nat
         /\ Request(bytes) % 8 = 0
         /\ Request(bytes) >= 8
         /\ bytes <= Request(bytes)
BY DEF Request, hb_round

(* When some free block fits, the scan ends with one that does. *)
LEMMA BestFitFits ==
  ASSUME NEW blk, NEW end, IsHeaderTable(blk, end), NEW n, Fits(blk, n) # {}
  PROVE  BestFit(blk, n) \in Fits(blk, n)
<1> DEFINE F == Fits(blk, n)
           Z == {blk[x].size : x \in F}
<1>0. \A x \in F : x \in DOMAIN blk /\ x \in Nat /\ blk[x].size \in Nat
  BY DEF IsHeaderTable, Fits
<1>1. PICK z \in Z : \A y \in Z : z <= y
  <2>1. Z # {} /\ Z \subseteq Nat
    BY <1>0
  <2> HIDE DEF Z
  <2> QED
    BY <2>1, NatMin, Zenon
<1> DEFINE G == {x \in F : blk[x].size = z}
<1>2. PICK b \in G : \A y \in G : b <= y
  <2>1. G # {} /\ G \subseteq Nat
    BY <1>0, <1>1
  <2> HIDE DEF G
  <2> QED
    BY <2>1, NatMin, Zenon
<1>3. IsBestFit(blk, n, b)
  BY <1>0, <1>1, <1>2 DEF IsBestFit
<1>4. b \in DOMAIN blk
  BY <1>0, <1>2
<1>5. IsBestFit(blk, n, BestFit(blk, n))
  BY <1>3, <1>4 DEF BestFit
<1> QED
  BY <1>5 DEF IsBestFit

-----------------------------------------------------------------------------
(* Arenas: a header table with its counters. *)

(* The bytes of a table without blocks in use. *)
LEMMA NoUsedBytes ==
  ASSUME NEW blk, UsedBlocks(blk) = {}
  PROVE  Cardinality(UsedBytes(blk)) = 0
<1>1. UsedBytes(blk) = {}
  BY DEF UsedBytes
<1> QED
  BY <1>1, FS_EmptySet

(* Every used block counts. *)
LEMMA UsedIsCounted ==
  ASSUME NEW a, ArenaOK(a), a.used = 0
  PROVE  UsedBlocks(a.blk) = {}
<1> SUFFICES ASSUME NEW b \in UsedBlocks(a.blk) PROVE FALSE
  OBVIOUS
<1> DEFINE R == BytesOf(a.blk, UsedBlocks(a.blk) \ {b})
<1>1. a.end # 0 /\ Sound(a.blk, a.end) /\ a.blk[b].size \in Nat
  BY DEF ArenaOK, UsedBlocks, IsHeaderTable
<1>2. a.used = Cardinality(R) + a.blk[b].size + HeaderSize
  BY <1>1, UsedWithout, Zenon DEF ArenaOK
<1>3. IsFiniteSet(R)
  BY <1>1, RestFinite
<1>4. Cardinality(R) \in Nat
  BY <1>3, FS_CardinalityType
<1> QED
  BY <1>1, <1>2, <1>4 DEF HeaderSize

(* A call that leaves a sound, merged table and an exact count leaves an   *)
(* arena that is fit for the next call.                                    *)
LEMMA AccountOK ==
  ASSUME NEW a, ArenaOK(a), a.end # 0,
         NEW blk, Sound(blk, a.end), CoalescedBut(blk, a.end, {}),
         NEW used, used = Cardinality(UsedBytes(blk))
  PROVE  /\ ArenaOK(Account(a, blk, used))
         /\ PeakOK(a) => PeakOK(Account(a, blk, used))
         /\ Account(a, blk, used).end = a.end
         /\ Account(a, blk, used).blk = blk
<1> DEFINE r == Account(a, blk, used)
<1>1. used \in Nat /\ used <= a.end /\ a.peak \in Nat /\ a.end \in Nat /\ a.misses \in Nat
  BY UsedBounded DEF ArenaOK
<1>2. /\ r = [end |-> a.end, blk |-> blk, used |-> used,
              peak |-> r.peak, misses |-> a.misses]
      /\ r.peak = IF used > a.peak THEN used ELSE a.peak
  BY DEF Account
<1> HIDE DEF r
<1>3. ArenaOK(r)
  BY <1>1, <1>2 DEF ArenaOK, Sound
<1>4. PeakOK(a) => PeakOK(r)
  BY <1>1, <1>2 DEF PeakOK
<1> QED
  BY <1>2, <1>3, <1>4 DEF r

(* hot_arena_init gives one free block that fills the arena. *)
LEMMA InitArena ==
  ASSUME NEW bytes \in Nat, bytes >= 16
  PROVE  LET r == hot_arena_init(bytes)
         IN  /\ ArenaOK(r) /\ PeakOK(r)
             /\ r.end # 0 /\ r.end = 8 * (bytes \div 8)
             /\ UsedBlocks(r.blk) = {}
<1> DEFINE end == 8 * (bytes \div 8)
           blk == [b \in {0} |-> Header(end - HeaderSize, FALSE, 0)]
           r == hot_arena_init(bytes)
<1>1. end \in Nat /\ end % 8 = 0 /\ end >= 16
  OBVIOUS
<1>2. r = [end |-> end, blk |-> blk, used |-> 0, peak |-> 0, misses |-> 0]
  BY DEF hot_arena_init
<1> HIDE DEF end, r
<1>3. /\ DOMAIN blk = {0}
      /\ blk[0] = Header(end - HeaderSize, FALSE, 0)
      /\ HB_NEXT(blk, 0) = end
  BY <1>1 DEF HB_NEXT, Header, HeaderSize
<1>a. IsHeaderTable(blk, end)
  <2>1. blk[0] \in [size : Nat, used : BOOLEAN, prev : Nat]
    BY <1>1, <1>3 DEF Header, HeaderSize
  <2>2. blk = [x \in {0} |-> blk[x]]
    OBVIOUS
  <2> HIDE DEF blk
  <2>3. blk \in [{0} -> [size : Nat, used : BOOLEAN, prev : Nat]]
    BY <2>1, <2>2
  <2> QED
    BY <1>1, <1>3, <2>3 DEF IsHeaderTable
<1>b. blk[0].prev = 0 /\ ~blk[0].used /\ blk[0].size = end - HeaderSize
  BY <1>3 DEF Header
<1> HIDE DEF blk
<1>4. Sound(blk, end)
  <2>1. Tiled(blk, end)
    BY <1>1, <1>3 DEF Tiled
  <2>2. BackLinked(blk, end)
    <3>1. \A x \in DOMAIN blk : x = 0 /\ HB_NEXT(blk, x) = end /\ blk[x].prev = 0
      BY <1>3, <1>b, Zenon
    <3> QED
      BY <3>1, <1>1 DEF BackLinked
  <2>3. Aligned(blk)
    <3>1. 0 % 8 = 0 /\ (end - HeaderSize) % 8 = 0 /\ end - HeaderSize >= 8
      BY <1>1 DEF HeaderSize
    <3>2. \A x \in DOMAIN blk : x = 0 /\ blk[x].size = end - HeaderSize
      BY <1>3, <1>b, Zenon
    <3> QED
      BY <3>1, <3>2 DEF Aligned
  <2> QED
    BY <1>1, <1>a, <2>1, <2>2, <2>3 DEF Sound
<1>5. CoalescedBut(blk, end, {})
  BY <1>1, <1>3 DEF CoalescedBut
<1>6. UsedBlocks(blk) = {}
  BY <1>3, <1>b, Zenon DEF UsedBlocks
<1>7. Cardinality(UsedBytes(blk)) = 0
  BY <1>6, NoUsedBytes
<1>8. ArenaOK(r)
  BY <1>1, <1>2, <1>a, <1>4, <1>5, <1>7 DEF ArenaOK
<1>9. PeakOK(r)
  BY <1>1, <1>2 DEF PeakOK
<1> QED
  BY <1>1, <1>2, <1>6, <1>8, <1>9 DEF end, r

(* hot_arena_alloc: refused, missed, or one new block. *)
LEMMA AllocArena ==
  ASSUME NEW a, ArenaOK(a), NEW bytes \in Nat
  PROVE  AllocResult(a, hot_arena_alloc(a, bytes), bytes)
<1> DEFINE n == Request(bytes)
           best == BestFit(a.blk, n)
           blk == AllocTable(a.blk, a.end, best, n)
           r == hot_arena_alloc(a, bytes)
<1>0. n \in Nat /\ n % 8 = 0 /\ n >= 8 /\ bytes <= n
  BY RequestRounds
<1>1. CASE AllocRefused(a, bytes)
  <2>1. r.arena = a /\ r.p = NULL
    BY <1>1 DEF hot_arena_alloc
  <2> HIDE DEF r
  <2> QED
    BY <2>1 DEF AllocResult, r
<1>2. CASE ~AllocRefused(a, bytes) /\ Fits(a.blk, n) = {}
  <2>1. r.arena = [a EXCEPT !.misses = @ + 1] /\ r.p = NULL
    BY <1>2 DEF hot_arena_alloc
  <2>2. /\ r.arena = [end |-> a.end, blk |-> a.blk, used |-> a.used,
                      peak |-> a.peak, misses |-> a.misses + 1]
        /\ a.misses + 1 \in Nat
    BY <2>1 DEF ArenaOK
  <2> HIDE DEF r
  <2>3. ArenaOK(r.arena) /\ (PeakOK(a) => PeakOK(r.arena))
    BY <2>2 DEF ArenaOK, PeakOK
  <2> QED
    BY <2>1, <2>2, <2>3 DEF AllocResult, r
<1>3. CASE ~AllocRefused(a, bytes) /\ Fits(a.blk, n) # {}
  <2>1. /\ r.arena = Account(a, blk, a.used + blk[best].size + HeaderSize)
        /\ r.p = best + HeaderSize
    BY <1>3, Zenon DEF hot_arena_alloc, AllocTable
  <2>2. a.end # 0 /\ Sound(a.blk, a.end) /\ CoalescedBut(a.blk, a.end, {})
    BY <1>3 DEF AllocRefused, ArenaOK
  <2>3. best \in DOMAIN a.blk /\ ~a.blk[best].used /\ n <= a.blk[best].size
    <3>1. best \in Fits(a.blk, n)
      BY <1>3, <2>2, BestFitFits DEF Sound
    <3> HIDE DEF n, best
    <3> QED
      BY <3>1, <1>0, <2>2 DEF Fits, Sound, IsHeaderTable
  <2> HIDE DEF n, best, r
  <2>4. /\ Sound(blk, a.end)
        /\ CoalescedBut(blk, a.end, {})
        /\ UsedBlocks(blk) = UsedBlocks(a.blk) \cup {best}
        /\ SameElsewhere(a.blk, blk, UsedBlocks(a.blk))
        /\ n <= blk[best].size
    BY <1>0, <2>2, <2>3, AllocKeeps
  <2> HIDE DEF blk
  <2>5. /\ best \notin UsedBlocks(a.blk) /\ best \in UsedBlocks(blk)
        /\ UsedBlocks(blk) \ {best} = UsedBlocks(a.blk)
        /\ best \in DOMAIN blk /\ blk[best].size \in Nat
    BY <2>2, <2>3, <2>4 DEF UsedBlocks, Sound, IsHeaderTable
  <2>6. Cardinality(UsedBytes(blk))
          = Cardinality(BytesOf(blk, UsedBlocks(a.blk))) + blk[best].size + HeaderSize
    BY <2>4, <2>5, UsedWithout
  <2>7. BytesOf(blk, UsedBlocks(a.blk)) = UsedBytes(a.blk)
    BY <2>4, BytesStay DEF UsedBytes, BytesOf
  <2>8. a.used + blk[best].size + HeaderSize = Cardinality(UsedBytes(blk))
    BY <2>6, <2>7 DEF ArenaOK
  <2>9. /\ ArenaOK(r.arena) /\ (PeakOK(a) => PeakOK(r.arena))
        /\ r.arena.end = a.end /\ r.arena.blk = blk
    BY <2>1, <2>2, <2>4, <2>8, AccountOK
  <2>10. bytes <= blk[best].size
    BY <1>0, <2>4, <2>5
  <2> QED
    BY <2>1, <2>2, <2>4, <2>5, <2>9, <2>10 DEF AllocResult, r
<1> QED
  BY <1>1, <1>2, <1>3

(* hot_arena_free: the block leaves the set in use, the others stay. *)
LEMMA FreeArena ==
  ASSUME NEW a, ArenaOK(a), NEW b \in UsedBlocks(a.blk)
  PROVE  LET r == hot_arena_free(a, b + HeaderSize)
         IN  /\ ArenaOK(r) /\ (PeakOK(a) => PeakOK(r))
             /\ r.end = a.end
             /\ UsedBlocks(r.blk) = UsedBlocks(a.blk) \ {b}
             /\ SameElsewhere(a.blk, r.blk, UsedBlocks(a.blk) \ {b})
<1> DEFINE blk == FreeTable(a.blk, a.end, b)
           r == hot_arena_free(a, b + HeaderSize)
<1>1. /\ a.end # 0 /\ Sound(a.blk, a.end) /\ CoalescedBut(a.blk, a.end, {})
      /\ b \in Nat /\ a.blk[b].size \in Nat /\ (b + HeaderSize) - HeaderSize = b
  BY DEF ArenaOK, UsedBlocks, IsHeaderTable, HeaderSize
<1>2. r = [end |-> a.end, blk |-> blk,
           used |-> a.used - (a.blk[b].size + HeaderSize),
           peak |-> a.peak, misses |-> a.misses]
  BY <1>1, Zenon DEF hot_arena_free, FreeTable
<1> HIDE DEF r
<1>3. /\ Sound(blk, a.end)
      /\ CoalescedBut(blk, a.end, {})
      /\ UsedBlocks(blk) = UsedBlocks(a.blk) \ {b}
      /\ SameElsewhere(a.blk, blk, UsedBlocks(a.blk) \ {b})
  BY <1>1, FreeKeeps
<1> HIDE DEF blk
<1>4. Cardinality(UsedBytes(a.blk))
        = Cardinality(BytesOf(a.blk, UsedBlocks(a.blk) \ {b}))
          + a.blk[b].size + HeaderSize
  BY <1>1, UsedWithout
<1>5. BytesOf(a.blk, UsedBlocks(a.blk) \ {b}) = UsedBytes(blk)
  BY <1>3, BytesStay DEF UsedBytes, BytesOf
<1>6. /\ a.used - (a.blk[b].size + HeaderSize) = Cardinality(UsedBytes(blk))
      /\ Cardinality(UsedBytes(blk)) \in Nat
      /\ Cardinality(UsedBytes(blk)) <= a.used
  BY <1>1, <1>3, <1>4, <1>5, UsedBounded DEF HeaderSize, ArenaOK
<1>7. ArenaOK(r)
  BY <1>2, <1>3, <1>6 DEF ArenaOK, Sound
<1>8. PeakOK(a) => PeakOK(r)
  BY <1>2, <1>6 DEF ArenaOK, PeakOK
<1> QED
  BY <1>2, <1>3, <1>7, <1>8 DEF r

(* hot_arena_resize in place: the block stays, with its new size. *)
LEMMA ResizeArena ==
  ASSUME NEW a, ArenaOK(a), NEW b \in UsedBlocks(a.blk),
         NEW bytes \in Nat, CanResize(a, b + HeaderSize, bytes)
  PROVE  LET r == hot_arena_resize(a, b + HeaderSize, bytes)
         IN  /\ ArenaOK(r) /\ (PeakOK(a) => PeakOK(r))
             /\ r.end = a.end
             /\ UsedBlocks(r.blk) = UsedBlocks(a.blk)
             /\ SameElsewhere(a.blk, r.blk, UsedBlocks(a.blk) \ {b})
             /\ bytes <= r.blk[b].size
<1> DEFINE n == Request(bytes)
           blk == ResizeTable(a.blk, a.end, b, n)
           r == hot_arena_resize(a, b + HeaderSize, bytes)
<1>0. n \in Nat /\ n % 8 = 0 /\ n >= 8 /\ bytes <= n
  BY RequestRounds
<1>1. /\ a.end # 0 /\ Sound(a.blk, a.end) /\ CoalescedBut(a.blk, a.end, {})
      /\ b \in Nat /\ a.blk[b].size \in Nat /\ (b + HeaderSize) - HeaderSize = b
  BY DEF ArenaOK, UsedBlocks, IsHeaderTable, HeaderSize
<1>2. r = Account(a, blk, a.used - a.blk[b].size + blk[b].size)
  BY <1>1, Zenon DEF hot_arena_resize, ResizeTable
<1>3. n > a.blk[b].size =>
        /\ HB_NEXT(a.blk, b) < a.end
        /\ ~a.blk[HB_NEXT(a.blk, b)].used
        /\ a.blk[b].size + a.blk[HB_NEXT(a.blk, b)].size + HeaderSize >= n
  BY <1>0, <1>1 DEF CanResize
<1> HIDE DEF n, r
<1>4. /\ Sound(blk, a.end)
      /\ CoalescedBut(blk, a.end, {})
      /\ UsedBlocks(blk) = UsedBlocks(a.blk)
      /\ SameElsewhere(a.blk, blk, UsedBlocks(a.blk) \ {b})
      /\ n <= blk[b].size
  BY <1>0, <1>1, <1>3, ResizeKeeps
<1> HIDE DEF blk
<1>5. /\ Cardinality(UsedBytes(a.blk))
           = Cardinality(BytesOf(a.blk, UsedBlocks(a.blk) \ {b}))
             + a.blk[b].size + HeaderSize
      /\ Cardinality(UsedBytes(blk))
           = Cardinality(BytesOf(blk, UsedBlocks(blk) \ {b})) + blk[b].size + HeaderSize
  BY <1>1, <1>4, UsedWithout
<1>6. BytesOf(a.blk, UsedBlocks(a.blk) \ {b}) = BytesOf(blk, UsedBlocks(blk) \ {b})
  BY <1>4, BytesStay
<1>7. blk[b].size \in Nat
  BY <1>4 DEF UsedBlocks, Sound, IsHeaderTable
<1>8. Cardinality(BytesOf(blk, UsedBlocks(blk) \ {b})) \in Nat
  BY <1>4, RestFinite, FS_CardinalityType, Zenon
<1>9. a.used - a.blk[b].size + blk[b].size = Cardinality(UsedBytes(blk))
  BY <1>1, <1>5, <1>6, <1>7, <1>8 DEF HeaderSize, ArenaOK
<1>10. /\ ArenaOK(r) /\ (PeakOK(a) => PeakOK(r))
       /\ r.end = a.end /\ r.blk = blk
  BY <1>1, <1>2, <1>4, <1>9, AccountOK
<1>11. bytes <= blk[b].size
  BY <1>0, <1>4, <1>7
<1> QED
  BY <1>4, <1>10, <1>11 DEF r

(* Every call of hot_arena.c does what ArenaContract says of it, on every   *)
(* arena and for every request.                                             *)
THEOREM ArenaMeetsContract == Contract
<1>1. \A bytes \in Nat : bytes >= 16 => InitResult(hot_arena_init(bytes), bytes)
  BY InitArena, Zenon DEF InitResult
<1>2. \A a : ArenaOK(a) => \A bytes \in Nat :
        AllocResult(a, hot_arena_alloc(a, bytes), bytes)
  BY AllocArena, Zenon
<1>3. \A a : ArenaOK(a) => \A b \in UsedBlocks(a.blk) :
        FreeResult(a, hot_arena_free(a, b + HeaderSize), b)
  BY FreeArena, Zenon DEF FreeResult
<1>4. \A a : ArenaOK(a) => \A b \in UsedBlocks(a.blk), bytes \in Nat :
        CanResize(a, b + HeaderSize, bytes) =>
          ResizeResult(a, hot_arena_resize(a, b + HeaderSize, bytes), b, bytes)
  BY ResizeArena, Zenon DEF ResizeResult
<1>5. \A blk : UsedBlocks(blk) = {} => Cardinality(UsedBytes(blk)) = 0
  BY NoUsedBytes, Zenon
<1>6. \A a : ArenaOK(a) /\ a.used = 0 => UsedBlocks(a.blk) = {}
  BY UsedIsCounted, Zenon
<1> QED
  BY <1>1, <1>2, <1>3, <1>4, <1>5, <1>6, Zenon DEF Contract
=============================================================================
