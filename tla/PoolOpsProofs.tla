--------------------------- MODULE PoolOpsProofs ---------------------------
(***************************************************************************)
(* Facts about the operators of PoolOps, for any pool: what is written     *)
(* when it is flushed, and what a flush, an instruction and a load do to   *)
(* the window, the hash and the pending literals; and what relates two     *)
(* passes that take the same operations.                                   *)
(***************************************************************************)
EXTENDS PoolOps, FiniteSets, TLAPS

(* What the library shows of numbers and of finite sets.  It is a          *)
(* hypothesis of the lemmas that need it, and the modules that end in      *)
(* theorems discharge it there: the prover carries every statement in      *)
(* sight through every step.                                               *)
Counting ==
  /\ \A T : T \subseteq Nat /\ T # {} => \E m \in T : \A k \in T : m <= k
  /\ \A T : IsFiniteSet(T) => Cardinality(T) \in Nat
  /\ \A T, R : IsFiniteSet(T) /\ R \subseteq T =>
       IsFiniteSet(R) /\ Cardinality(R) <= Cardinality(T)
  /\ \A T, x : IsFiniteSet(T) /\ x \notin T =>
       Cardinality(T \cup {x}) = Cardinality(T) + 1

-----------------------------------------------------------------------------
(* The bytes of a pool. *)

(* A pool of which only the widths of the entries matter. *)
Sized(pool) ==
  Len(pool) \in Nat /\ \A i \in 1 .. Len(pool) : Width(pool[i]) \in Nat

(* f has the bytes of the first i entries, for every i up to k. *)
SumUpTo(f, pool, k) ==
  f = [i \in 0 .. k |-> IF i = 0 THEN 0 ELSE f[i - 1] + Width(pool[i])]

(* Every nonempty set of numbers has a least one. *)
LEMMA LeastOf ==
  ASSUME Counting, NEW T, T \subseteq Nat, T # {}
  PROVE  \E m \in T : \A k \in T : m <= k
BY Zenon DEF Counting

(* Sums(pool) exists: the recursion of th_literal_pool_generate over the   *)
(* entries reaches each of them.                                           *)
LEMMA SumExists ==
  ASSUME Counting, NEW pool, Sized(pool), NEW n \in 0 .. Len(pool)
  PROVE  \E f : SumUpTo(f, pool, n)
<1> DEFINE T == {k \in 0 .. Len(pool) : ~ \E f : SumUpTo(f, pool, k)}
<1>1. SUFFICES ASSUME T # {} PROVE FALSE
  BY <1>1
<1>0. T \subseteq 0 .. Len(pool) /\ T \subseteq Nat
  BY DEF Sized
<1>2. PICK m \in T : \A k \in T : m <= k
  <2> HIDE DEF T
  <2> QED
    BY <1>0, <1>1, LeastOf, Zenon
<1>3. CASE m = 0
  <2>1. SumUpTo([i \in 0 .. 0 |-> 0], pool, 0)
    BY DEF SumUpTo
  <2> QED
    BY <1>2, <1>3, <2>1
<1>4. CASE m # 0
  <2>1. m - 1 \in 0 .. Len(pool) /\ m - 1 \notin T
    <3> HIDE DEF T
    <3> QED
      BY <1>0, <1>2, <1>4 DEF Sized
  <2>2. PICK f : SumUpTo(f, pool, m - 1)
    BY <2>1
  <2> DEFINE g == [i \in 0 .. m |-> IF i = m THEN f[m - 1] + Width(pool[m])
                                             ELSE f[i]]
  <2>3. \A i \in 0 .. m : g[i] = IF i = 0 THEN 0 ELSE g[i - 1] + Width(pool[i])
    BY <1>2, <1>4, <2>2 DEF SumUpTo, Sized
  <2>4. SumUpTo(g, pool, m)
    BY <2>3 DEF SumUpTo
  <2> QED
    BY <1>2, <2>4
<1> QED
  BY <1>3, <1>4

(* Sums: no entry has no bytes, and each entry adds its own. *)
LEMMA SumsStep ==
  ASSUME Counting, NEW pool, Sized(pool)
  PROVE  /\ Sums(pool)[0] = 0
         /\ \A k \in 1 .. Len(pool) :
              Sums(pool)[k] = Sums(pool)[k - 1] + Width(pool[k])
<1>1. \E f : SumUpTo(f, pool, Len(pool))
  BY SumExists DEF Sized
<1>2. Sums(pool) = CHOOSE f : SumUpTo(f, pool, Len(pool))
  BY DEF Sums, SumUpTo
<1>3. SumUpTo(Sums(pool), pool, Len(pool))
  BY <1>1, <1>2
<1> QED
  BY <1>3 DEF SumUpTo, Sized

(* Sums never decreases, and stays on words where the entries do. *)
LEMMA SumsGrow ==
  ASSUME Counting, NEW pool, Sized(pool), NEW n \in 0 .. Len(pool)
  PROVE  Sums(pool)[n] \in Nat /\ \A i \in 0 .. n : Sums(pool)[i] <= Sums(pool)[n]
<1> DEFINE Good(k) == \A i \in 0 .. k : /\ Sums(pool)[i] \in Nat
                                        /\ Sums(pool)[i] <= Sums(pool)[k]
           T == {k \in 0 .. Len(pool) : ~Good(k)}
<1>1. SUFFICES ASSUME T # {} PROVE FALSE
  OBVIOUS
<1>2. T \subseteq 0 .. Len(pool) /\ T \subseteq Nat
  BY DEF Sized
<1>3. PICK m \in T : \A k \in T : m <= k
  <2> HIDE DEF T
  <2> QED
    BY <1>1, <1>2, LeastOf, Zenon
<1>4. m \in 0 .. Len(pool) /\ ~Good(m)
  BY <1>3
<1>5. m # 0 => m - 1 \in 0 .. Len(pool) /\ Good(m - 1)
  <2>1. m # 0 => m - 1 \in 0 .. Len(pool) /\ m - 1 \notin T
    <3> HIDE DEF T, Good
    <3> QED
      BY <1>2, <1>3 DEF Sized
  <2> QED
    BY <2>1
<1>6. CASE m = 0
  BY <1>4, <1>6, SumsStep
<1>7. CASE m # 0
  <2>0. Sums(pool)[m - 1] \in Nat
    BY <1>4, <1>5, <1>7
  <2>1. Sums(pool)[m] = Sums(pool)[m - 1] + Width(pool[m]) /\ Width(pool[m]) \in Nat
    BY <1>4, <1>7, SumsStep DEF Sized
  <2>2. ASSUME NEW i \in 0 .. m
        PROVE  Sums(pool)[i] \in Nat /\ Sums(pool)[i] <= Sums(pool)[m]
    <3>1. CASE i = m
      BY <2>0, <2>1, <3>1
    <3>2. CASE i # m
      <4>1. i \in 0 .. (m - 1)
        BY <1>4, <3>2
      <4>2. Sums(pool)[i] <= Sums(pool)[m - 1] /\ Sums(pool)[i] \in Nat
        BY <1>5, <1>7, <4>1
      <4> QED
        BY <2>0, <2>1, <4>2
    <3> QED
      BY <3>1, <3>2
  <2> QED
    BY <1>4, <2>2
<1> QED
  BY <1>6, <1>7

(* Every literal has one word or two. *)
LEMMA SumsWords ==
  ASSUME Counting, NEW pool, Sized(pool), NEW n \in 0 .. Len(pool),
         \A i \in 1 .. Len(pool) : Width(pool[i]) \in {0, 4, 8}
  PROVE  Sums(pool)[n] % 4 = 0
<1> DEFINE T == {k \in 0 .. Len(pool) : Sums(pool)[k] % 4 # 0}
<1>1. SUFFICES ASSUME T # {} PROVE FALSE
  OBVIOUS
<1>2. T \subseteq 0 .. Len(pool) /\ T \subseteq Nat
  BY DEF Sized
<1>3. PICK m \in T : \A k \in T : m <= k
  <2> HIDE DEF T
  <2> QED
    BY <1>1, <1>2, LeastOf, Zenon
<1>4. m # 0 => m - 1 \in 0 .. Len(pool) /\ m - 1 \notin T
  <2> HIDE DEF T
  <2> QED
    BY <1>2, <1>3 DEF Sized
<1>5. CASE m = 0
  BY <1>3, <1>5, SumsStep
<1>6. CASE m # 0
  <2>1. /\ Sums(pool)[m] = Sums(pool)[m - 1] + Width(pool[m])
        /\ Width(pool[m]) \in {0, 4, 8}
    BY <1>2, <1>3, <1>6, SumsStep DEF Sized
  <2>2. Sums(pool)[m - 1] \in Nat
    BY <1>4, <1>6, SumsGrow
  <2>3. Sums(pool)[m - 1] % 4 = 0
    BY <1>4, <1>6
  <2>4. Sums(pool)[m] % 4 = 0
    BY <2>1, <2>2, <2>3
  <2> QED
    BY <1>3, <2>4
<1> QED
  BY <1>5, <1>6

(* A new entry leaves the bytes of those before it alone. *)
LEMMA SumsAppend ==
  ASSUME Counting, NEW E, NEW pool \in Seq(E), NEW e \in E,
         Sized(pool), Sized(Append(pool, e)), NEW n \in 0 .. Len(pool)
  PROVE  Sums(Append(pool, e))[n] = Sums(pool)[n]
<1> DEFINE more == Append(pool, e)
           T == {k \in 0 .. Len(pool) : Sums(more)[k] # Sums(pool)[k]}
<1>1. SUFFICES ASSUME T # {} PROVE FALSE
  OBVIOUS
<1>2. T \subseteq 0 .. Len(pool) /\ T \subseteq Nat
  BY DEF Sized
<1>3. PICK m \in T : \A k \in T : m <= k
  <2> HIDE DEF T
  <2> QED
    BY <1>1, <1>2, LeastOf, Zenon
<1>4. m # 0 => m - 1 \in 0 .. Len(pool) /\ m - 1 \notin T
  <2> HIDE DEF T
  <2> QED
    BY <1>2, <1>3 DEF Sized
<1>5. Len(more) = Len(pool) + 1 /\ \A i \in 1 .. Len(pool) : more[i] = pool[i]
  OBVIOUS
<1> HIDE DEF more
<1>6. Sized(more)
  BY DEF more
<1>7. CASE m = 0
  BY <1>3, <1>6, <1>7, SumsStep
<1>8. CASE m # 0
  <2>1. m \in 1 .. Len(pool) /\ m \in 1 .. Len(more)
    BY <1>2, <1>3, <1>5, <1>8
  <2>2. Sums(pool)[m] = Sums(pool)[m - 1] + Width(pool[m])
    BY <2>1, SumsStep
  <2>3. Sums(more)[m] = Sums(more)[m - 1] + Width(more[m])
    BY <1>6, <2>1, SumsStep
  <2>4. Sums(more)[m - 1] = Sums(pool)[m - 1]
    BY <1>4, <1>8
  <2> QED
    BY <1>3, <1>5, <2>1, <2>2, <2>3, <2>4
<1> QED
  BY <1>7, <1>8
-----------------------------------------------------------------------------
(* What a flush writes. *)

(* The entries of the real pass. *)
Entries ==
  [size : {4, 8}, shared : Nat, key : Keys, short : BOOLEAN, patch : Nat]

(* An entry that shares its literal has it from an earlier entry for the   *)
(* same key that has a literal of its own.                                 *)
Linked(pool) ==
  /\ pool \in Seq(Entries)
  /\ \A i \in 1 .. Len(pool) :
       pool[i].shared # None =>
         /\ pool[i].shared \in 1 .. (i - 1)
         /\ pool[pool[i].shared].shared = None
         /\ pool[pool[i].shared].key = pool[i].key

(* The entry whose literal entry i reads. *)
Origin(pool, i) == IF pool[i].shared = None THEN i ELSE pool[i].shared

(* Entries have no, four or eight bytes. *)
LEMMA LinkedSized ==
  ASSUME NEW pool, Linked(pool)
  PROVE  /\ Sized(pool)
         /\ \A i \in 1 .. Len(pool) :
              /\ Width(pool[i]) \in {0, 4, 8}
              /\ pool[i].shared = None =>
                   Width(pool[i]) = pool[i].size /\ pool[i].size \in {4, 8}
<1>1. Len(pool) \in Nat /\ \A i \in 1 .. Len(pool) : pool[i] \in Entries
  BY DEF Linked
<1> QED
  BY <1>1 DEF Sized, Width, Entries

(* The entry with the literal is an entry for the same key. *)
LEMMA OriginIs ==
  ASSUME NEW pool, Linked(pool), NEW i \in 1 .. Len(pool)
  PROVE  /\ Origin(pool, i) \in 1 .. Len(pool)
         /\ pool[Origin(pool, i)].shared = None
         /\ pool[Origin(pool, i)].key = pool[i].key
BY DEF Linked, Origin

(* f is filled as th_literal_pool_generate fills literal_positions. *)
Placed(f, pool, base) ==
  f = [i \in 1 .. Len(pool) |->
         IF pool[i].shared = None THEN base + Sums(pool)[i - 1]
         ELSE IF pool[i].shared < i THEN f[pool[i].shared]
         ELSE -1]

(* literal_positions: an entry reads behind the literals before its own. *)
LEMMA PositionOf ==
  ASSUME NEW pool, Linked(pool), NEW base, NEW i \in 1 .. Len(pool)
  PROVE  Positions(pool, base)[i] = base + Sums(pool)[Origin(pool, i) - 1]
<1> DEFINE g == [j \in 1 .. Len(pool) |-> base + Sums(pool)[Origin(pool, j) - 1]]
<1>1. Placed(g, pool, base)
  <2>1. ASSUME NEW j \in 1 .. Len(pool)
        PROVE  g[j] = IF pool[j].shared = None THEN base + Sums(pool)[j - 1]
                      ELSE IF pool[j].shared < j THEN g[pool[j].shared]
                      ELSE -1
    <3>1. CASE pool[j].shared = None
      BY <3>1 DEF Origin
    <3>2. CASE pool[j].shared # None
      <4>1. /\ pool[j].shared \in 1 .. Len(pool) /\ pool[j].shared < j
            /\ pool[pool[j].shared].shared = None
        BY <3>2 DEF Linked
      <4> QED
        BY <3>2, <4>1 DEF Origin
    <3> QED
      BY <3>1, <3>2
  <2> QED
    BY <2>1 DEF Placed
<1>2. Positions(pool, base) = CHOOSE f : Placed(f, pool, base)
  BY DEF Positions, Placed
<1>3. Placed(Positions(pool, base), pool, base)
  BY <1>1, <1>2
<1> HIDE DEF g
<1>4. \A j \in 1 .. Len(pool) :
        Positions(pool, base)[j] =
          IF pool[j].shared = None THEN base + Sums(pool)[j - 1]
          ELSE IF pool[j].shared < j THEN Positions(pool, base)[pool[j].shared]
          ELSE -1
  BY <1>3 DEF Placed
<1>5. CASE pool[i].shared = None
  BY <1>4, <1>5 DEF Origin
<1>6. CASE pool[i].shared # None
  <2>1. /\ pool[i].shared \in 1 .. Len(pool) /\ pool[i].shared < i
        /\ pool[pool[i].shared].shared = None
    BY <1>6 DEF Linked
  <2> QED
    BY <1>4, <1>6, <2>1 DEF Origin
<1> QED
  BY <1>5, <1>6

(* Literals do not overlap, and end within the bytes of the pool. *)
LEMMA LiteralsApart ==
  ASSUME Counting,
         NEW pool, Linked(pool), NEW i \in 1 .. Len(pool), pool[i].shared = None
  PROVE  /\ Sums(pool)[i - 1] \in Nat
         /\ Sums(pool)[i - 1] + pool[i].size <= Sums(pool)[Len(pool)]
         /\ \A j \in 1 .. Len(pool) :
              i < j => Sums(pool)[i - 1] + pool[i].size <= Sums(pool)[j - 1]
<1>1. Sized(pool) /\ Width(pool[i]) = pool[i].size /\ Len(pool) \in Nat
  BY LinkedSized DEF Sized
<1>2. Sums(pool)[i] = Sums(pool)[i - 1] + pool[i].size
  BY <1>1, SumsStep
<1>3. Sums(pool)[i - 1] \in Nat
  BY <1>1, SumsGrow
<1>4. ASSUME NEW k \in 0 .. Len(pool), i <= k
      PROVE  Sums(pool)[i] <= Sums(pool)[k]
  BY <1>1, <1>4, SumsGrow
<1>5. Sums(pool)[i] <= Sums(pool)[Len(pool)]
  BY <1>1, <1>4
<1>6. ASSUME NEW j \in 1 .. Len(pool), i < j
      PROVE  Sums(pool)[i] <= Sums(pool)[j - 1]
  BY <1>1, <1>4, <1>6
<1> QED
  BY <1>2, <1>3, <1>5, <1>6

(* The patched offset leads from a halfword to a word behind it. *)
LEMMA FieldLeads ==
  ASSUME NEW position \in Nat, NEW patch \in Nat, position % 4 = 0,
         patch % 2 = 0, patch + 2 <= position
  PROVE  /\ 4 * ((patch + 4) \div 4) + Field(position, patch) = position
         /\ Field(position, patch) \in Nat
         /\ Field(position, patch) <= position - patch - 2
<1>1. PICK q \in Nat : position = 4 * q
  BY position = 4 * (position \div 4), position \div 4 \in Nat
<1>2. PICK r \in Nat : patch = 4 * r \/ patch = 4 * r + 2
  <2> DEFINE r == patch \div 4
  <2>1. r \in Nat /\ 4 * r <= patch /\ patch < 4 * r + 4
    OBVIOUS
  <2>2. patch # 4 * r + 1 /\ patch # 4 * r + 3
    OBVIOUS
  <2> HIDE DEF r
  <2> QED
    BY <2>1, <2>2
<1>3. CASE patch = 4 * r
  <2>1. (patch + 4) \div 4 = r + 1
    BY <1>3
  <2>2. (position - patch + 3) \div 4 = q - r
    BY <1>1, <1>3
  <2> QED
    BY <1>1, <1>3, <2>1, <2>2 DEF Field
<1>4. CASE patch = 4 * r + 2
  <2>1. (patch + 4) \div 4 = r + 1
    BY <1>4
  <2>2. (position - patch + 3) \div 4 = q - r
    BY <1>1, <1>4
  <2> QED
    BY <1>1, <1>4, <2>1, <2>2 DEF Field
<1> QED
  BY <1>2, <1>3, <1>4

(* Every load reads its literal. *)
Reads(out) ==
  \A l \in out.loads : /\ ReadAddress(l) \in DOMAIN out.words
                       /\ out.words[ReadAddress(l)] = <<l.key, "low">>

(* Every load reaches its literal. *)
Reaches(out) == \A l \in out.loads : 0 <= l.field /\ l.field <= l.limit

(* The loads are halfwords before base. *)
LoadsBefore(pool, base) ==
  \A i \in 1 .. Len(pool) : pool[i].patch % 2 = 0 /\ pool[i].patch + 2 <= base

(* A load has an address. *)
LEMMA EntryPatch ==
  ASSUME NEW pool, Linked(pool), NEW i \in 1 .. Len(pool)
  PROVE  pool[i].patch \in Nat
<1>1. pool[i] \in Entries
  BY DEF Linked
<1> QED
  BY <1>1 DEF Entries

(* The literal of entry i: where it is and what the offset of its load is. *)
LEMMA LiteralAt ==
  ASSUME Counting, NEW pool, Linked(pool), NEW base \in Nat, base % 4 = 0,
         LoadsBefore(pool, base), NEW i \in 1 .. Len(pool)
  PROVE  LET pos == Positions(pool, base)[i]
             field == Field(pos, pool[i].patch)
         IN  /\ pos \in Nat
             /\ 4 * ((pool[i].patch + 4) \div 4) + field = pos
             /\ field \in Nat /\ field <= pos - pool[i].patch - 2
             /\ pos + 4 <= base + Sums(pool)[Len(pool)]
<1> DEFINE o == Origin(pool, i)
           pos == Positions(pool, base)[i]
           sum == Sums(pool)[o - 1]
<1>1. o \in 1 .. Len(pool) /\ pool[o].shared = None
  BY OriginIs
<1>2. pos = base + sum
  BY PositionOf
<1>3. Sized(pool) /\ Len(pool) \in Nat /\ pool[o].size \in {4, 8}
  BY <1>1, LinkedSized DEF Sized
<1>4. sum \in Nat /\ sum % 4 = 0 /\ Sums(pool)[Len(pool)] \in Nat
  BY <1>1, <1>3, LinkedSized, SumsWords, SumsGrow
<1>5. sum + 4 <= Sums(pool)[Len(pool)]
  <2>1. sum + pool[o].size <= Sums(pool)[Len(pool)]
    BY <1>1, LiteralsApart
  <2> QED
    BY <1>3, <1>4, <2>1, SMTT(40)
<1>6. pool[i].patch \in Nat /\ pool[i].patch % 2 = 0 /\ pool[i].patch + 2 <= base
  BY EntryPatch DEF LoadsBefore
<1> HIDE DEF sum, pos, o
<1>7. pos \in Nat /\ pos % 4 = 0 /\ pool[i].patch + 2 <= pos
  BY <1>2, <1>4, <1>6, SMTT(40)
<1>8. pos + 4 <= base + Sums(pool)[Len(pool)]
  BY <1>2, <1>4, <1>5
<1>9. /\ 4 * ((pool[i].patch + 4) \div 4) + Field(pos, pool[i].patch) = pos
      /\ Field(pos, pool[i].patch) \in Nat
      /\ Field(pos, pool[i].patch) <= pos - pool[i].patch - 2
  BY <1>6, <1>7, FieldLeads, Zenon
<1> QED
  BY <1>7, <1>8, <1>9 DEF pos

(* th_literal_pool_generate: what a load reads is its own literal. *)
LEMMA WrittenReads ==
  ASSUME Counting, NEW pool, Linked(pool), NEW base \in Nat, base % 4 = 0,
         LoadsBefore(pool, base)
  PROVE  Reads(Written(pool, base))
<1> DEFINE pos == Positions(pool, base)
           unique == {i \in DOMAIN pool : pool[i].shared = None}
           lows == {<<pos[i], <<pool[i].key, "low">>>> : i \in unique}
           highs == {<<pos[i] + 4, <<pool[i].key, "high">>>> :
                       i \in {j \in unique : pool[j].size = 8}}
           words == [a \in {w[1] : w \in lows \cup highs} |->
                       (CHOOSE w \in lows \cup highs : w[1] = a)[2]]
<1>d. DOMAIN pool = 1 .. Len(pool) /\ Len(pool) \in Nat
  BY DEF Linked
<1>f. ASSUME NEW i \in 1 .. Len(pool)
      PROVE  4 * ((pool[i].patch + 4) \div 4) + Field(pos[i], pool[i].patch) = pos[i]
  BY LiteralAt
<1>1. SUFFICES ASSUME NEW i \in 1 .. Len(pool)
               PROVE  /\ pos[i] \in DOMAIN words
                      /\ words[pos[i]] = <<pool[i].key, "low">>
  <2> DEFINE load(i) == [key |-> pool[i].key, size |-> pool[i].size,
                         patch |-> pool[i].patch, limit |-> Limit(pool[i]),
                         field |-> Field(pos[i], pool[i].patch)]
  <2>1. /\ Written(pool, base).words = words
        /\ Written(pool, base).loads = {load(i) : i \in 1 .. Len(pool)}
    BY <1>d, ZenonT(40) DEF Written
  <2>2. ASSUME NEW i \in 1 .. Len(pool)
        PROVE  ReadAddress(load(i)) = pos[i]
    <3>1. 4 * ((pool[i].patch + 4) \div 4) + Field(pos[i], pool[i].patch) = pos[i]
      BY <1>f, Zenon
    <3>2. load(i).patch = pool[i].patch /\ load(i).field = Field(pos[i], pool[i].patch)
      BY Zenon
    <3> HIDE DEF load
    <3> QED
      BY <3>1, <3>2, ZenonT(40) DEF ReadAddress
  <2> HIDE DEF words, pos
  <2>3. ASSUME NEW l \in Written(pool, base).loads
        PROVE  /\ ReadAddress(l) \in DOMAIN words
               /\ words[ReadAddress(l)] = <<l.key, "low">>
    <3>1. PICK i \in 1 .. Len(pool) : l = load(i)
      BY <2>1, <2>3
    <3>2. l.key = pool[i].key /\ ReadAddress(l) = pos[i]
      BY <2>2, <3>1
    <3> QED
      BY <1>1, <3>2
  <2> QED
    BY <2>1, <2>3, SMTT(40) DEF Reads
<1> DEFINE o == Origin(pool, i)
           low == <<pos[o], <<pool[i].key, "low">>>>
<1>2. o \in unique /\ pool[o].key = pool[i].key
  BY <1>d, OriginIs
<1>3. Origin(pool, o) = o
  BY <1>2 DEF Origin
<1>4. pos[i] = pos[o]
  BY <1>2, <1>3, <1>d, PositionOf
<1>5. low \in lows
  BY <1>2
<1>6. ASSUME NEW j \in unique
      PROVE  /\ pos[j] = pos[o] => j = o
             /\ pool[j].size = 8 => pos[j] + 4 # pos[o]
  <2>1. j \in 1 .. Len(pool) /\ o \in 1 .. Len(pool) /\ pool[j].shared = None
    BY <1>2, <1>6, <1>d
  <2>2. pos[j] = base + Sums(pool)[j - 1] /\ pos[o] = base + Sums(pool)[o - 1]
    BY <1>3, <2>1, PositionOf, ZenonT(40) DEF Origin
  <2>3. pool[j].size \in {4, 8} /\ pool[o].size \in {4, 8}
    BY <1>2, <2>1, LinkedSized
  <2>4. /\ Sums(pool)[j - 1] \in Nat /\ Sums(pool)[o - 1] \in Nat
        /\ j < o => Sums(pool)[j - 1] + pool[j].size <= Sums(pool)[o - 1]
        /\ o < j => Sums(pool)[o - 1] + pool[o].size <= Sums(pool)[j - 1]
    BY <1>2, <2>1, LiteralsApart, SMTT(40)
  <2> DEFINE a == Sums(pool)[j - 1]
             b == Sums(pool)[o - 1]
             m == pool[j].size
             n == pool[o].size
  <2>5. /\ pos[j] = base + a /\ pos[o] = base + b /\ a \in Nat /\ b \in Nat
        /\ j < o => a + m <= b
        /\ o < j => b + n <= a
        /\ m \in {4, 8} /\ n \in {4, 8}
    BY <2>2, <2>3, <2>4
  <2>6. j = o \/ j < o \/ o < j
    BY <1>d, <2>1
  <2> HIDE DEF o, pos, unique, a, b, m, n
  <2>7. (pos[j] = pos[o] => j = o) /\ (m = 8 => pos[j] + 4 # pos[o])
    BY <2>5, <2>6
  <2> QED
    BY <2>7 DEF m
<1>7. ASSUME NEW w \in lows \cup highs, w[1] = pos[o]
      PROVE  w = low
  <2>1. CASE w \in lows
    <3>1. PICK j \in unique : w = <<pos[j], <<pool[j].key, "low">>>>
      BY <2>1
    <3>2. j = o
      BY <1>6, <1>7, <3>1
    <3> QED
      BY <1>2, <3>1, <3>2
  <2>2. CASE w \in highs
    <3>1. PICK j \in unique : /\ w = <<pos[j] + 4, <<pool[j].key, "high">>>>
                              /\ pool[j].size = 8
      BY <2>2
    <3> QED
      BY <1>6, <1>7, <3>1
  <2> QED
    BY <1>7, <2>1, <2>2
<1> HIDE DEF lows, highs, pos, o
<1>8. (CHOOSE w \in lows \cup highs : w[1] = pos[o]) = low
  BY <1>5, <1>7
<1>9. pos[o] \in {w[1] : w \in lows \cup highs}
  <2>1. low \in lows \cup highs /\ low[1] = pos[o]
    BY <1>5
  <2> HIDE DEF low
  <2> QED
    BY <2>1
<1>10. pos[o] \in DOMAIN words /\ words[pos[o]] = low[2]
  BY <1>8, <1>9, Zenon
<1> QED
  BY <1>4, <1>10, Zenon

(* th_literal_pool_generate: an offset fits its field if the span of the   *)
(* whole pool does.                                                        *)
LEMMA WrittenReaches ==
  ASSUME Counting, NEW pool, Linked(pool), NEW base \in Nat, base % 4 = 0,
         LoadsBefore(pool, base),
         \A i \in 1 .. Len(pool) :
           base + Sums(pool)[Len(pool)] - pool[i].patch <= RangeLimit + 6
  PROVE  Reaches(Written(pool, base))
<1> DEFINE load(i) == [key |-> pool[i].key, size |-> pool[i].size,
                       patch |-> pool[i].patch, limit |-> Limit(pool[i]),
                       field |-> Field(Positions(pool, base)[i], pool[i].patch)]
<1>1. DOMAIN pool = 1 .. Len(pool) /\ Len(pool) \in Nat
  BY DEF Linked
<1>2. Written(pool, base).loads = {load(i) : i \in 1 .. Len(pool)}
  BY <1>1 DEF Written
<1>3. ASSUME NEW i \in 1 .. Len(pool)
      PROVE  0 <= load(i).field /\ load(i).field <= load(i).limit
  <2> DEFINE pos == Positions(pool, base)[i]
             field == Field(pos, pool[i].patch)
  <2>1. /\ pos \in Nat /\ field \in Nat /\ field <= pos - pool[i].patch - 2
        /\ pos + 4 <= base + Sums(pool)[Len(pool)]
    BY LiteralAt, Zenon
  <2>2. base + Sums(pool)[Len(pool)] - pool[i].patch <= RangeLimit + 6
    OBVIOUS
  <2>3. Limit(pool[i]) \in Nat /\ RangeLimit \in Nat /\ RangeLimit <= Limit(pool[i])
    BY ReachAssumption DEF Limit
  <2>4. pool[i].patch \in Nat /\ Sums(pool)[Len(pool)] \in Nat
    BY <1>1, EntryPatch, LinkedSized, SumsGrow
  <2> DEFINE sum == Sums(pool)[Len(pool)]
             patch == pool[i].patch
             limit == Limit(pool[i])
  <2>a. pos + 4 <= base + sum /\ base + sum - patch <= RangeLimit + 6
    BY <2>1, <2>2
  <2>b. field <= pos - patch - 2 /\ RangeLimit <= limit
    BY <2>1, <2>3
  <2>c. /\ pos \in Nat /\ field \in Nat /\ sum \in Nat /\ patch \in Nat
        /\ limit \in Nat /\ RangeLimit \in Nat
    BY <2>1, <2>3, <2>4
  <2> HIDE DEF field, pos, sum, patch, limit
  <2>5. 0 <= field /\ field <= limit
    BY <2>a, <2>b, <2>c
  <2> QED
    BY <2>5 DEF field, pos, limit
<1> HIDE DEF load
<1> QED
  BY <1>2, <1>3 DEF Reaches
-----------------------------------------------------------------------------
(* The state of a pass. *)

Fields ==
  {"dry", "gen", "ind", "pool", "count", "first", "bytes", "it", "table",
   "cache", "counted", "countedBytes", "out"}

Shaped(t) == t = [f \in Fields |-> t[f]]

DryEntries == [size : {4, 8}, shared : Nat]

AnyEntries == Entries \cup DryEntries

CacheLines(n) == [key : Keys \cup {None}, index : 0 .. n]

(* What holds of a pass, dry or real. *)
Common(t) ==
  /\ Shaped(t)
  /\ t.dry \in BOOLEAN /\ t.gen \in BOOLEAN /\ t.ind \in Nat /\ t.it \in Nat
  /\ t.pool \in Seq(AnyEntries)
  /\ t.count \in 0 .. Len(t.pool) /\ t.first \in Int /\ t.first >= -1
  /\ t.count = 0 <=> t.first = -1
  /\ t.bytes \in Nat
  /\ t.table \in [Keys -> 0 .. Len(t.pool)]
  /\ t.cache \in [Slots -> CacheLines(Len(t.pool))]
  /\ t.counted \in 0 .. Len(t.pool)
  /\ t.countedBytes = Sums(t.pool)[t.counted]
  /\ ~t.dry => t.counted = 0

(* Index i of the hash or of the cache is none, or the literal of k. *)
IsFor(pool, i, k) == i # None => pool[i].shared = None /\ pool[i].key = k

(* What holds of the real pass. *)
RealOK(t) ==
  /\ ~t.dry /\ t.count = Len(t.pool) /\ t.ind % 2 = 0
  /\ Linked(t.pool) /\ LoadsBefore(t.pool, t.ind)
  /\ t.pool # <<>> => t.first = t.pool[1].patch
  /\ \A i \in 1 .. Len(t.pool) : t.first <= t.pool[i].patch
  /\ t.bytes = Sums(t.pool)[Len(t.pool)]
  /\ \A k \in Keys :
       /\ IsFor(t.pool, t.table[k], k)
       /\ t.cache[CacheSlot[k]].key = k =>
            IsFor(t.pool, t.cache[CacheSlot[k]].index, k)
  /\ Reads(t.out)

(* The numbers and the shape of a pass. *)
LEMMA CommonNumbers ==
  ASSUME NEW t, Common(t)
  PROVE  /\ Shaped(t) /\ t.dry \in BOOLEAN /\ t.gen \in BOOLEAN
         /\ t.ind \in Nat /\ t.it \in Nat /\ t.bytes \in Nat
         /\ t.pool \in Seq(AnyEntries) /\ Len(t.pool) \in Nat
         /\ t.count \in 0 .. Len(t.pool) /\ t.counted \in 0 .. Len(t.pool)
         /\ t.first \in Int /\ t.first >= -1 /\ (t.count = 0 <=> t.first = -1)
<1>1. Len(t.pool) \in Nat
  BY DEF Common
<1> QED
  BY <1>1, Zenon DEF Common

(* The pool of the real pass. *)
LEMMA RealPool ==
  ASSUME NEW t, RealOK(t)
  PROVE  /\ Linked(t.pool) /\ t.pool \in Seq(Entries) /\ Len(t.pool) \in Nat
         /\ LoadsBefore(t.pool, t.ind) /\ t.ind % 2 = 0 /\ ~t.dry
<1>1. Linked(t.pool) /\ LoadsBefore(t.pool, t.ind) /\ t.ind % 2 = 0 /\ ~t.dry
  BY Zenon DEF RealOK
<1>2. t.pool \in Seq(Entries)
  BY <1>1, Zenon DEF Linked
<1> QED
  BY <1>1, <1>2

(* Updates of the fields that a step sets leave the others alone. *)
LEMMA AdvanceFields ==
  ASSUME NEW t, Shaped(t), NEW bytes
  PROVE  LET u == Advance(t, bytes)
         IN  /\ Shaped(u) /\ u.ind = t.ind + bytes
             /\ u.dry = t.dry /\ u.gen = t.gen /\ u.pool = t.pool
             /\ u.count = t.count /\ u.first = t.first /\ u.bytes = t.bytes
             /\ u.it = t.it /\ u.table = t.table /\ u.cache = t.cache
             /\ u.counted = t.counted /\ u.countedBytes = t.countedBytes
             /\ u.out = t.out
BY DEF Advance, Shaped, Fields

(* th_literal_pool_flushed clears the window and what is looked up. *)
LEMMA FlushedFields ==
  ASSUME NEW t, Shaped(t)
  PROVE  LET u == th_literal_pool_flushed(t)
         IN  /\ Shaped(u) /\ u.count = 0 /\ u.first = -1 /\ u.bytes = 0
             /\ u.table = NoHash /\ u.cache = NoCache
             /\ u.dry = t.dry /\ u.gen = t.gen /\ u.ind = t.ind
             /\ u.pool = t.pool /\ u.it = t.it /\ u.counted = t.counted
             /\ u.countedBytes = t.countedBytes /\ u.out = t.out
BY Zenon DEF th_literal_pool_flushed, Shaped, Fields

(* A dry flush counts the bytes of all entries and keeps them. *)
LEMMA DryFlushFields ==
  ASSUME NEW t, Shaped(t)
  PROVE  LET u == DryFlush(t)
             bytes == t.countedBytes + Sums(t.pool)[Len(t.pool)]
                        - Sums(t.pool)[t.counted]
         IN  /\ Shaped(u) /\ u.ind = PoolBase(t) + bytes
             /\ u.counted = Len(t.pool) /\ u.countedBytes = bytes
             /\ u.dry = t.dry /\ u.gen = t.gen /\ u.pool = t.pool
             /\ u.it = t.it /\ u.out = t.out
BY Zenon DEF DryFlush, Shaped, Fields

(* A real flush writes the entries and drops them. *)
LEMMA RealFlushFields ==
  ASSUME NEW t, Shaped(t)
  PROVE  LET u == RealFlush(t)
         IN  /\ Shaped(u) /\ u.pool = <<>>
             /\ u.ind = PoolBase(t) + Sums(t.pool)[Len(t.pool)]
             /\ u.out = Written(t.pool, PoolBase(t))
             /\ u.dry = t.dry /\ u.gen = t.gen /\ u.it = t.it
             /\ u.counted = t.counted /\ u.countedBytes = t.countedBytes
BY Zenon DEF RealFlush, Shaped, Fields

(* t with another count of conditioned instructions. *)
WithIt(t, n) == [t EXCEPT !.it = n]

(* ot() sets the IT count alone. *)
LEMMA WithItFields ==
  ASSUME NEW t, Shaped(t), NEW n
  PROVE  LET u == WithIt(t, n)
         IN  /\ Shaped(u) /\ u.it = n
             /\ u.dry = t.dry /\ u.gen = t.gen /\ u.ind = t.ind
             /\ u.pool = t.pool /\ u.count = t.count /\ u.first = t.first
             /\ u.bytes = t.bytes /\ u.table = t.table /\ u.cache = t.cache
             /\ u.counted = t.counted /\ u.countedBytes = t.countedBytes
             /\ u.out = t.out
BY DEF WithIt, Shaped, Fields

(* The bytes of the load that was just emitted. *)
LoadSize(short) == IF short THEN 2 ELSE 4

(* The entry that Allocate appends. *)
NewEntry(t, key, size, short, shared) ==
  IF t.dry
    THEN [size |-> size, shared |-> shared]
    ELSE [size |-> size, shared |-> shared, key |-> key, short |-> short,
          patch |-> t.ind - LoadSize(short)]

(* th_literal_pool_allocate adds an entry and moves the window. *)
LEMMA AllocateFields ==
  ASSUME NEW t, Shaped(t), NEW key, NEW size, NEW short, NEW shared
  PROVE  LET u == Allocate(t, key, size, short, shared)
             patch == t.ind - LoadSize(short)
             entry == NewEntry(t, key, size, short, shared)
         IN  /\ Shaped(u) /\ u.pool = Append(t.pool, entry)
             /\ u.count = t.count + 1
             /\ u.first = IF t.first < 0 \/ patch < t.first THEN patch ELSE t.first
             /\ u.bytes = t.bytes + Width(entry)
             /\ u.dry = t.dry /\ u.gen = t.gen /\ u.ind = t.ind
             /\ u.it = t.it /\ u.table = t.table /\ u.cache = t.cache
             /\ u.counted = t.counted /\ u.countedBytes = t.countedBytes
             /\ u.out = t.out
BY ZenonT(40) DEF Allocate, NewEntry, LoadSize, Shaped, Fields

(* The state after FindOrAllocate has allocated: hash and cache know key. *)
Indexed(t, key, found, index) ==
  [t EXCEPT
     !.table[key] = IF found = None THEN index ELSE @,
     !.cache[CacheSlot[key]] = [key |-> key, index |-> index]]

(* u is t with key in the hash and in the cache. *)
Recorded(t, u, key, found, index) ==
  /\ Shaped(u)
  /\ u.table = [t.table EXCEPT ![key] = IF found = None THEN index ELSE @]
  /\ u.cache = [t.cache EXCEPT ![CacheSlot[key]] = [key |-> key, index |-> index]]
  /\ u.dry = t.dry /\ u.gen = t.gen /\ u.ind = t.ind /\ u.pool = t.pool
  /\ u.count = t.count /\ u.first = t.first /\ u.bytes = t.bytes /\ u.it = t.it
  /\ u.counted = t.counted /\ u.countedBytes = t.countedBytes /\ u.out = t.out

(* th_literal_pool_find_or_allocate sets the hash and the cache. *)
LEMMA IndexedFields ==
  ASSUME NEW t, Shaped(t), NEW key, NEW found, NEW index
  PROVE  Recorded(t, Indexed(t, key, found, index), key, found, index)
<1> DEFINE table == [t.table EXCEPT ![key] = IF found = None THEN index ELSE @]
           cache == [t.cache EXCEPT ![CacheSlot[key]] = [key |-> key, index |-> index]]
<1>1. Indexed(t, key, found, index) = [t EXCEPT !.table = table, !.cache = cache]
  BY DEF Indexed
<1> HIDE DEF table, cache
<1>2. LET u == [t EXCEPT !.table = table, !.cache = cache]
      IN  /\ Shaped(u) /\ u.table = table /\ u.cache = cache
          /\ u.dry = t.dry /\ u.gen = t.gen /\ u.ind = t.ind
          /\ u.pool = t.pool /\ u.count = t.count /\ u.first = t.first
          /\ u.bytes = t.bytes /\ u.it = t.it
          /\ u.counted = t.counted /\ u.countedBytes = t.countedBytes
          /\ u.out = t.out
  BY Zenon DEF Shaped, Fields
<1> QED
  BY <1>1, <1>2 DEF Recorded, table, cache

(* Entries of either pass have no, four or eight bytes. *)
LEMMA AnySized ==
  ASSUME NEW pool \in Seq(AnyEntries)
  PROVE  Sized(pool)
<1>1. Len(pool) \in Nat /\ \A i \in 1 .. Len(pool) : pool[i] \in AnyEntries
  OBVIOUS
<1>2. \A e \in AnyEntries : Width(e) \in Nat
  BY DEF AnyEntries, Entries, DryEntries, Width
<1> QED
  BY <1>1, <1>2 DEF Sized

(* The hash and the cache are empty. *)
LEMMA Forgotten ==
  /\ \A n \in Nat : NoHash \in [Keys -> 0 .. n] /\ NoCache \in [Slots -> CacheLines(n)]
  /\ \A k \in Keys : NoHash[k] = None /\ NoCache[CacheSlot[k]].index = None
BY DEF NoHash, NoCache, CacheLines, Slots, None

-----------------------------------------------------------------------------
(* What every pass keeps, dry or real. *)

(* u is t later in the same pass. *)
SamePass(t, u) ==
  /\ u.dry = t.dry /\ u.gen = t.gen
  /\ t.dry => u.out = t.out

(* The literals begin at a word, close behind the code. *)
LEMMA BaseNear ==
  ASSUME NEW t, t.ind \in Nat, t.gen \in BOOLEAN
  PROVE  /\ PoolBase(t) \in Nat /\ t.ind <= PoolBase(t) /\ PoolBase(t) <= t.ind + 6
         /\ t.ind % 2 = 0 => PoolBase(t) % 4 = 0
<1> DEFINE a == t.ind
<1>1. a \in Nat
  OBVIOUS
<1> HIDE DEF a
<1>2. a % 2 = 0 => a % 4 \in {0, 2}
  BY <1>1
<1>3. a % 4 = 0 => (a + 4) % 4 = 0
  BY <1>1
<1>4. a % 4 = 2 => (a + 2) % 4 = 0 /\ (a + 4 + 2) % 4 = 0
  BY <1>1
<1>5. PoolBase(t) = a + (IF t.gen THEN 4 ELSE 0) + (IF a % 4 = 2 THEN 2 ELSE 0)
  BY DEF a, PoolBase
<1>6. PoolBase(t) \in Nat /\ a <= PoolBase(t) /\ PoolBase(t) <= a + 6
  BY <1>1, <1>5
<1>7. a % 2 = 0 => PoolBase(t) % 4 = 0
  <2>1. CASE a % 4 = 2
    BY <1>1, <1>4, <1>5, <2>1
  <2>2. CASE a % 4 = 0
    BY <1>1, <1>3, <1>5, <2>2
  <2> QED
    BY <1>2, <2>1, <2>2
<1> QED
  BY <1>6, <1>7 DEF a

(* th_literal_pool_generate in either pass. *)
LEMMA GenerateCommon ==
  ASSUME Counting, NEW t, Common(t)
  PROVE  LET u == th_literal_pool_generate(t)
         IN  /\ Common(u) /\ SamePass(t, u) /\ u.it = t.it /\ t.ind <= u.ind
             /\ t.count = 0 => u = t
<1> DEFINE total == Sums(t.pool)[Len(t.pool)]
           u == th_literal_pool_generate(t)
<1>1. Sized(t.pool) /\ Len(t.pool) \in Nat /\ t.counted \in 0 .. Len(t.pool)
  BY AnySized DEF Common
<1>2. total \in Nat /\ Sums(t.pool)[t.counted] \in Nat
  BY <1>1, SumsGrow
<1>0. t.ind \in Nat /\ t.gen \in BOOLEAN
  BY CommonNumbers, Zenon
<1>3. PoolBase(t) \in Nat /\ t.ind <= PoolBase(t)
  BY <1>0, BaseNear
<1>4. CASE t.count = 0
  <2>1. u = t
    BY <1>4 DEF th_literal_pool_generate
  <2> QED
    BY <2>1 DEF SamePass, Common
<1>5. CASE t.count # 0 /\ t.dry
  <2> DEFINE d == DryFlush(t)
  <2>1. u = th_literal_pool_flushed(d)
    BY <1>5 DEF th_literal_pool_generate
  <2>2. /\ Shaped(d) /\ d.counted = Len(t.pool) /\ d.countedBytes = total
        /\ d.ind = PoolBase(t) + total
        /\ d.dry = t.dry /\ d.gen = t.gen /\ d.pool = t.pool
        /\ d.it = t.it /\ d.out = t.out
    <3>1. t.countedBytes + total - Sums(t.pool)[t.counted] = total
      <4>1. t.countedBytes = Sums(t.pool)[t.counted]
        BY DEF Common
      <4> QED
        BY <1>2, <4>1
    <3> QED
      BY <3>1, DryFlushFields DEF Common
  <2> HIDE DEF d, u, total
  <2>3. /\ Shaped(u) /\ u.count = 0 /\ u.first = -1 /\ u.bytes = 0
        /\ u.table = NoHash /\ u.cache = NoCache
        /\ u.dry = d.dry /\ u.gen = d.gen /\ u.ind = d.ind
        /\ u.pool = d.pool /\ u.it = d.it /\ u.counted = d.counted
        /\ u.countedBytes = d.countedBytes /\ u.out = d.out
    BY <2>1, <2>2, FlushedFields
  <2>4. t.ind <= u.ind /\ u.ind \in Nat
    BY <1>0, <1>2, <1>3, <2>2, <2>3
  <2>5. u.table \in [Keys -> 0 .. Len(t.pool)] /\ u.cache \in [Slots -> CacheLines(Len(t.pool))]
    BY <1>1, <2>3, Forgotten
  <2>6. Common(u)
    BY <1>1, <1>2, <1>5, <2>2, <2>3, <2>4, <2>5 DEF Common, total
  <2> QED
    BY <1>5, <2>2, <2>3, <2>4, <2>6 DEF SamePass, u
<1>6. CASE t.count # 0 /\ ~t.dry
  <2> DEFINE d == RealFlush(t)
  <2>1. u = th_literal_pool_flushed(d)
    BY <1>6 DEF th_literal_pool_generate
  <2>2. /\ Shaped(d) /\ d.pool = <<>> /\ d.ind = PoolBase(t) + total
        /\ d.dry = t.dry /\ d.gen = t.gen /\ d.it = t.it
        /\ d.counted = t.counted /\ d.countedBytes = t.countedBytes
    BY RealFlushFields DEF Common
  <2> HIDE DEF d, u, total
  <2>3. /\ Shaped(u) /\ u.count = 0 /\ u.first = -1 /\ u.bytes = 0
        /\ u.table = NoHash /\ u.cache = NoCache
        /\ u.dry = d.dry /\ u.gen = d.gen /\ u.ind = d.ind
        /\ u.pool = d.pool /\ u.it = d.it /\ u.counted = d.counted
        /\ u.countedBytes = d.countedBytes
    BY <2>1, <2>2, FlushedFields
  <2>4. t.ind <= u.ind /\ u.ind \in Nat
    BY <1>0, <1>2, <1>3, <2>2, <2>3
  <2>5. /\ Len(u.pool) = 0 /\ u.pool \in Seq(AnyEntries)
        /\ u.table \in [Keys -> 0 .. Len(u.pool)]
        /\ u.cache \in [Slots -> CacheLines(Len(u.pool))]
    BY <2>2, <2>3, Forgotten
  <2>6. u.counted = 0 /\ u.countedBytes = Sums(u.pool)[u.counted]
    <3>1. u.counted = 0 /\ u.countedBytes = Sums(t.pool)[0]
      BY <1>6, <2>2, <2>3 DEF Common
    <3>2. Sums(t.pool)[0] = 0 /\ Sums(u.pool)[0] = 0
      BY <1>1, <2>5, AnySized, SumsStep
    <3> QED
      BY <3>1, <3>2
  <2>7. Common(u)
    BY <1>6, <2>2, <2>3, <2>4, <2>5, <2>6 DEF Common
  <2> QED
    BY <1>6, <2>2, <2>3, <2>4, <2>7 DEF SamePass, u
<1> QED
  BY <1>4, <1>5, <1>6

(* More code leaves the pool alone. *)
LEMMA AdvanceCommon ==
  ASSUME NEW t, Common(t), NEW bytes \in Nat
  PROVE  Common(Advance(t, bytes)) /\ SamePass(t, Advance(t, bytes))
<1> DEFINE u == Advance(t, bytes)
<1>1. /\ Shaped(u) /\ u.ind = t.ind + bytes
      /\ u.dry = t.dry /\ u.gen = t.gen /\ u.pool = t.pool
      /\ u.count = t.count /\ u.first = t.first /\ u.bytes = t.bytes
      /\ u.it = t.it /\ u.table = t.table /\ u.cache = t.cache
      /\ u.counted = t.counted /\ u.countedBytes = t.countedBytes
      /\ u.out = t.out
  BY AdvanceFields, SMTT(40) DEF Common
<1> HIDE DEF u
<1>2. u.ind \in Nat
  <2>1. t.ind \in Nat
    BY CommonNumbers, Zenon
  <2> QED
    BY <1>1, <2>1
<1>3. Common(u) /\ SamePass(t, u)
  BY <1>1, <1>2, Zenon DEF Common, SamePass
<1> QED
  BY <1>3, Zenon DEF u

(* The IT count leaves the pool alone. *)
LEMMA WithItCommon ==
  ASSUME NEW t, Common(t), NEW n \in Nat
  PROVE  Common(WithIt(t, n)) /\ SamePass(t, WithIt(t, n))
<1> DEFINE u == WithIt(t, n)
<1>1. /\ Shaped(u) /\ u.it = n
      /\ u.dry = t.dry /\ u.gen = t.gen /\ u.ind = t.ind
      /\ u.pool = t.pool /\ u.count = t.count /\ u.first = t.first
      /\ u.bytes = t.bytes /\ u.table = t.table /\ u.cache = t.cache
      /\ u.counted = t.counted /\ u.countedBytes = t.countedBytes
      /\ u.out = t.out
  BY WithItFields, SMTT(40) DEF Common
<1> HIDE DEF u
<1>2. Common(u) /\ SamePass(t, u)
  BY <1>1, Zenon DEF Common, SamePass
<1> QED
  BY <1>2 DEF u

(* The state in which ot() emits: flushed, if that is due. *)
Ready(t, size, conditions) ==
  IF t.gen /\ ~(t.it > 0) /\ OutOfBudget(t, size + 12 * conditions)
    THEN th_literal_pool_generate(t)
    ELSE t

(* The conditioned instructions to come after ot(). *)
ItAfter(t, conditions) ==
  IF ~t.gen THEN t.it ELSE IF t.it > 0 THEN t.it - 1 ELSE conditions

(* u is x and `size` more bytes of code. *)
Emitted(x, u, size) ==
  /\ Shaped(u) /\ u.ind = x.ind + size
  /\ u.dry = x.dry /\ u.gen = x.gen /\ u.pool = x.pool
  /\ u.count = x.count /\ u.first = x.first /\ u.bytes = x.bytes
  /\ u.table = x.table /\ u.cache = x.cache
  /\ u.counted = x.counted /\ u.countedBytes = x.countedBytes /\ u.out = x.out

(* ot() after its flush: the IT count and the instruction. *)
LEMMA EmittedAfterIt ==
  ASSUME NEW x, Shaped(x), NEW n, NEW size
  PROVE  LET u == Advance(WithIt(x, n), size) IN Emitted(x, u, size) /\ u.it = n
<1> DEFINE v == WithIt(x, n)
           u == Advance(v, size)
<1>1. /\ Shaped(v) /\ v.it = n
      /\ v.dry = x.dry /\ v.gen = x.gen /\ v.ind = x.ind
      /\ v.pool = x.pool /\ v.count = x.count /\ v.first = x.first
      /\ v.bytes = x.bytes /\ v.table = x.table /\ v.cache = x.cache
      /\ v.counted = x.counted /\ v.countedBytes = x.countedBytes
      /\ v.out = x.out
  BY WithItFields
<1> HIDE DEF v
<1>2. /\ Shaped(u) /\ u.ind = v.ind + size
      /\ u.dry = v.dry /\ u.gen = v.gen /\ u.pool = v.pool
      /\ u.count = v.count /\ u.first = v.first /\ u.bytes = v.bytes
      /\ u.it = v.it /\ u.table = v.table /\ u.cache = v.cache
      /\ u.counted = v.counted /\ u.countedBytes = v.countedBytes
      /\ u.out = v.out
  BY <1>1, AdvanceFields
<1> HIDE DEF u
<1>3. Emitted(x, u, size) /\ u.it = n
  BY <1>1, <1>2 DEF Emitted
<1> QED
  BY <1>3 DEF u, v

(* ot(): possibly a pool, then the instruction. *)
LEMMA OtFields ==
  ASSUME Counting, NEW t, Common(t), NEW size, NEW conditions
  PROVE  LET u == ot(t, size, conditions)
         IN  /\ Emitted(Ready(t, size, conditions), u, size)
             /\ u.it = ItAfter(t, conditions)
<1> DEFINE x == Ready(t, size, conditions)
           u == ot(t, size, conditions)
<1>0. t.gen \in BOOLEAN
  BY DEF Common
<1>1. CASE ~t.gen
  <2>1. u = Advance(t, size) /\ x = t
    <3>1. u = Advance(t, size)
      BY <1>1, Zenon DEF ot
    <3>2. x = t
      BY <1>1, Zenon DEF Ready
    <3> QED
      BY <3>1, <3>2
  <2>2. /\ Shaped(u) /\ u.ind = t.ind + size
        /\ u.dry = t.dry /\ u.gen = t.gen /\ u.pool = t.pool
        /\ u.count = t.count /\ u.first = t.first /\ u.bytes = t.bytes
        /\ u.it = t.it /\ u.table = t.table /\ u.cache = t.cache
        /\ u.counted = t.counted /\ u.countedBytes = t.countedBytes
        /\ u.out = t.out
    BY <2>1, AdvanceFields, SMTT(40) DEF Common
  <2> HIDE DEF u, x
  <2>3. Emitted(x, u, size) /\ u.it = ItAfter(t, conditions)
    BY <1>1, <2>1, <2>2 DEF Emitted, ItAfter
  <2> QED
    BY <2>3, SMTT(40) DEF u, x
<1>2. CASE t.gen /\ t.it > 0
  <2>1. u = Advance(WithIt(t, t.it - 1), size) /\ x = t
    BY <1>2, Zenon DEF ot, Ready, WithIt
  <2>2. Emitted(x, u, size) /\ u.it = t.it - 1
    BY <2>1, EmittedAfterIt, SMTT(40) DEF Common
  <2> QED
    BY <1>2, <2>2, SMTT(40) DEF ItAfter
<1>3. CASE t.gen /\ ~(t.it > 0)
  <2>1. u = Advance(WithIt(x, conditions), size)
    BY <1>3, Zenon DEF ot, Ready, WithIt
  <2>2. Shaped(x)
    <3>1. x \in {t, th_literal_pool_generate(t)}
      BY Zenon DEF Ready
    <3>2. Shaped(t) /\ Shaped(th_literal_pool_generate(t))
      BY GenerateCommon, Zenon DEF Common
    <3> QED
      BY <3>1, <3>2, Zenon
  <2> HIDE DEF x
  <2>3. Emitted(x, u, size) /\ u.it = conditions
    BY <2>1, <2>2, EmittedAfterIt
  <2> QED
    BY <1>3, <2>3 DEF ItAfter, x
<1> QED
  BY <1>0, <1>1, <1>2, <1>3

(* The flush in ot(): none outside a function or in an IT block. *)
LEMMA ReadyCommon ==
  ASSUME Counting, NEW t, Common(t), NEW size, NEW conditions
  PROVE  LET x == Ready(t, size, conditions)
         IN  /\ Common(x) /\ SamePass(t, x) /\ x.it = t.it /\ t.ind <= x.ind
             /\ (~t.gen \/ t.it > 0) => x = t
<1>1. Ready(t, size, conditions) \in {t, th_literal_pool_generate(t)}
  BY DEF Ready
<1>2. ~t.gen \/ t.it > 0 => Ready(t, size, conditions) = t
  BY Zenon DEF Ready
<1>3. SamePass(t, t) /\ t.ind <= t.ind
  BY DEF SamePass, Common
<1> QED
  BY <1>1, <1>2, <1>3, GenerateCommon

(* ot() in either pass. *)
LEMMA OtCommon ==
  ASSUME Counting, NEW t, Common(t), NEW size \in Nat, NEW conditions \in Nat
  PROVE  LET u == ot(t, size, conditions)
         IN  /\ Common(u) /\ SamePass(t, u) /\ size <= u.ind
             /\ u.it = ItAfter(t, conditions)
             /\ (~t.gen \/ t.it > 0) => u.ind = t.ind + size
<1> DEFINE x == Ready(t, size, conditions)
           u == ot(t, size, conditions)
<1>1. Emitted(x, u, size) /\ u.it = ItAfter(t, conditions)
  BY OtFields
<1>2. /\ Common(x) /\ SamePass(t, x) /\ x.it = t.it /\ t.ind <= x.ind
      /\ (~t.gen \/ t.it > 0) => x = t
  BY ReadyCommon
<1>3. u.it \in Nat
  <2>1. t.it \in Nat
    BY CommonNumbers, Zenon
  <2> QED
    BY <1>1, <2>1 DEF ItAfter
<1> HIDE DEF x, u
<1>n. x.ind \in Nat /\ t.ind \in Nat
  BY <1>2, CommonNumbers, Zenon
<1>i. u.ind = x.ind + size
  BY <1>1, Zenon DEF Emitted
<1>4. Common(u)
  <2>1. Common(x)
    BY <1>2
  <2>2. u.ind \in Nat
    BY <1>n, <1>i
  <2> QED
    BY <1>1, <1>3, <2>1, <2>2, Zenon DEF Emitted, Common
<1>5. SamePass(t, u)
  BY <1>1, <1>2 DEF Emitted, SamePass
<1>6. size <= u.ind /\ ((~t.gen \/ t.it > 0) => u.ind = t.ind + size)
  <2>1. size <= u.ind
    BY <1>n, <1>i
  <2> QED
    BY <1>2, <1>i, <2>1, Zenon
<1> QED
  BY <1>1, <1>4, <1>5, <1>6 DEF u

(* th_literal_pool_allocate in either pass. *)
LEMMA AllocateCommon ==
  ASSUME Counting, NEW t, Common(t), NEW key \in Keys, NEW size \in {4, 8},
         NEW short \in BOOLEAN, NEW shared \in Nat, LoadSize(short) <= t.ind
  PROVE  LET u == Allocate(t, key, size, short, shared)
         IN  /\ Common(u) /\ SamePass(t, u) /\ u.it = t.it /\ u.ind = t.ind
             /\ Len(u.pool) = Len(t.pool) + 1
<1> DEFINE u == Allocate(t, key, size, short, shared)
           patch == t.ind - LoadSize(short)
           entry == NewEntry(t, key, size, short, shared)
<1>1. /\ Shaped(u) /\ u.pool = Append(t.pool, entry)
      /\ u.count = t.count + 1
      /\ u.first = IF t.first < 0 \/ patch < t.first THEN patch ELSE t.first
      /\ u.bytes = t.bytes + Width(entry)
      /\ u.dry = t.dry /\ u.gen = t.gen /\ u.ind = t.ind
      /\ u.it = t.it /\ u.table = t.table /\ u.cache = t.cache
      /\ u.counted = t.counted /\ u.countedBytes = t.countedBytes
      /\ u.out = t.out
  <2>1. Shaped(t)
    BY DEF Common
  <2> QED
    BY <2>1, AllocateFields
<1>n. /\ t.ind \in Nat /\ t.bytes \in Nat /\ Len(t.pool) \in Nat
      /\ t.count \in 0 .. Len(t.pool) /\ t.counted \in 0 .. Len(t.pool)
      /\ t.first \in Int /\ t.first >= -1 /\ (t.count = 0 <=> t.first = -1)
  BY CommonNumbers, Zenon
<1>2. patch \in Nat
  BY <1>n DEF LoadSize
<1>3. entry \in AnyEntries
  <2>1. CASE t.dry
    BY <2>1 DEF NewEntry, AnyEntries, DryEntries
  <2>2. CASE ~t.dry
    <3>1. entry = [size |-> size, shared |-> shared, key |-> key,
                   short |-> short, patch |-> patch]
      BY <2>2 DEF NewEntry
    <3> HIDE DEF entry, patch
    <3> QED
      BY <1>2, <3>1 DEF AnyEntries, Entries
  <2> QED
    BY <2>1, <2>2
<1> HIDE DEF u, patch, entry
<1>4. Width(entry) \in Nat
  BY <1>3 DEF AnyEntries, Entries, DryEntries, Width
<1>5. t.pool \in Seq(AnyEntries) /\ Len(t.pool) \in Nat
  BY DEF Common
<1>6. u.pool \in Seq(AnyEntries) /\ Len(u.pool) = Len(t.pool) + 1
  BY <1>1, <1>3, <1>5
<1>7. u.countedBytes = Sums(u.pool)[u.counted]
  <2>1. Sums(u.pool)[t.counted] = Sums(t.pool)[t.counted]
    <3>1. Sized(t.pool) /\ Sized(Append(t.pool, entry))
      BY <1>1, <1>5, <1>6, AnySized, Zenon
    <3>2. t.counted \in 0 .. Len(t.pool)
      BY DEF Common
    <3> QED
      BY <1>1, <1>3, <1>5, <3>1, <3>2, SumsAppend
  <2> QED
    BY <1>1, <2>1 DEF Common
<1>8. u.table \in [Keys -> 0 .. Len(u.pool)]
  BY <1>1, <1>5, <1>6 DEF Common
<1>9. u.cache \in [Slots -> CacheLines(Len(u.pool))]
  <2>1. CacheLines(Len(t.pool)) \subseteq CacheLines(Len(u.pool))
    BY <1>5, <1>6 DEF CacheLines
  <2> QED
    BY <1>1, <2>1 DEF Common
<1>10. /\ u.count \in 0 .. Len(u.pool) /\ u.first \in Int /\ u.first >= -1
       /\ u.count = 0 <=> u.first = -1
  <2>1. /\ u.count = t.count + 1 /\ Len(u.pool) = Len(t.pool) + 1
        /\ u.first = IF t.first < 0 \/ patch < t.first THEN patch ELSE t.first
    BY <1>1, <1>6, Zenon
  <2> QED
    BY <1>n, <1>2, <2>1
<1>11. u.counted \in 0 .. Len(u.pool) /\ u.bytes \in Nat
  <2>1. /\ u.counted = t.counted /\ Len(u.pool) = Len(t.pool) + 1
        /\ u.bytes = t.bytes + Width(entry)
    BY <1>1, <1>6, Zenon
  <2> QED
    BY <1>n, <1>4, <2>1
<1>12. Common(u)
  <2>1. ~u.dry => u.counted = 0
    BY <1>1, Zenon DEF Common
  <2>2. u.dry \in BOOLEAN /\ u.gen \in BOOLEAN /\ u.ind \in Nat /\ u.it \in Nat
    BY <1>1, Zenon DEF Common
  <2> QED
    BY <1>1, <1>6, <1>7, <1>8, <1>9, <1>10, <1>11, <2>1, <2>2, Zenon DEF Common
<1> QED
  BY <1>1, <1>6, <1>12 DEF SamePass, u

(* th_literal_pool_find: an index into the pool, or none. *)
LEMMA LookupIn ==
  ASSUME NEW t, Common(t), NEW key \in Keys
  PROVE  Lookup(t, key) \in 0 .. Len(t.pool)
<1>1. t.cache[CacheSlot[key]] \in CacheLines(Len(t.pool))
  BY DEF Common, Slots
<1>2. t.table[key] \in 0 .. Len(t.pool)
  BY DEF Common
<1> QED
  BY <1>1, <1>2 DEF Lookup, CacheLines

(* The entry under which FindOrAllocate records the key. *)
IndexOf(t, key) ==
  IF Lookup(t, key) = None THEN Len(t.pool) + 1 ELSE Lookup(t, key)

(* th_literal_pool_find_or_allocate changes the pool as allocate does. *)
LEMMA FindFields ==
  ASSUME Counting, NEW t, Common(t), NEW key \in Keys, NEW size \in {4, 8},
         NEW short \in BOOLEAN, LoadSize(short) <= t.ind
  PROVE  Recorded(Allocate(t, key, size, short, Lookup(t, key)),
                  FindOrAllocate(t, key, size, short),
                  key, Lookup(t, key), IndexOf(t, key))
<1> DEFINE v == Allocate(t, key, size, short, Lookup(t, key))
           n == IndexOf(t, key)
<1>1. Lookup(t, key) \in Nat
  <2>1. Lookup(t, key) \in 0 .. Len(t.pool)
    BY LookupIn, Zenon
  <2> QED
    BY <2>1, CommonNumbers
<1>2. Shaped(v) /\ Len(v.pool) = Len(t.pool) + 1
  <2>1. Common(v) /\ Len(v.pool) = Len(t.pool) + 1
    BY <1>1, AllocateCommon
  <2> QED
    BY <2>1, Zenon DEF Common
<1>3. n = IF Lookup(t, key) = None THEN Len(v.pool) ELSE Lookup(t, key)
  BY <1>2 DEF IndexOf
<1>4. FindOrAllocate(t, key, size, short) = Indexed(v, key, Lookup(t, key), n)
  BY <1>3, SMTT(40) DEF FindOrAllocate, Indexed
<1>5. Recorded(v, Indexed(v, key, Lookup(t, key), n), key, Lookup(t, key), n)
  BY <1>2, IndexedFields, Zenon
<1> QED
  BY <1>4, <1>5, Zenon

(* th_literal_pool_find_or_allocate in either pass. *)
LEMMA FindCommon ==
  ASSUME Counting, NEW t, Common(t), NEW key \in Keys, NEW size \in {4, 8},
         NEW short \in BOOLEAN, LoadSize(short) <= t.ind
  PROVE  LET u == FindOrAllocate(t, key, size, short)
         IN  Common(u) /\ SamePass(t, u) /\ u.it = t.it /\ u.ind = t.ind
<1> DEFINE v == Allocate(t, key, size, short, Lookup(t, key))
           u == FindOrAllocate(t, key, size, short)
           n == IndexOf(t, key)
<1>1. Lookup(t, key) \in 0 .. Len(t.pool) /\ Len(t.pool) \in Nat
  BY LookupIn, CommonNumbers, Zenon
<1>2. /\ Common(v) /\ SamePass(t, v) /\ v.it = t.it /\ v.ind = t.ind
      /\ Len(v.pool) = Len(t.pool) + 1
  BY <1>1, AllocateCommon
<1>3. n \in 0 .. Len(v.pool)
  BY <1>1, <1>2 DEF IndexOf
<1>r. Recorded(v, u, key, Lookup(t, key), n)
  BY FindFields, Zenon
<1> HIDE DEF v, u, n
<1>4. /\ Shaped(u)
      /\ u.table = [v.table EXCEPT ![key] = IF Lookup(t, key) = None THEN n ELSE @]
      /\ u.cache = [v.cache EXCEPT ![CacheSlot[key]] = [key |-> key, index |-> n]]
      /\ u.dry = v.dry /\ u.gen = v.gen /\ u.ind = v.ind
      /\ u.pool = v.pool /\ u.count = v.count /\ u.first = v.first
      /\ u.bytes = v.bytes /\ u.it = v.it
      /\ u.counted = v.counted /\ u.countedBytes = v.countedBytes
      /\ u.out = v.out
  BY <1>r, Zenon DEF Recorded
<1>5. u.table \in [Keys -> 0 .. Len(u.pool)]
  BY <1>2, <1>3, <1>4, Zenon DEF Common
<1>6. u.cache \in [Slots -> CacheLines(Len(u.pool))]
  <2>1. [key |-> key, index |-> n] \in CacheLines(Len(v.pool))
    BY <1>3 DEF CacheLines
  <2> QED
    BY <1>2, <1>4, <2>1, Zenon DEF Common
<1>7. Common(u)
  BY <1>2, <1>4, <1>5, <1>6, Zenon DEF Common
<1> QED
  BY <1>2, <1>4, <1>7, SMTT(40) DEF SamePass, u

-----------------------------------------------------------------------------
(* What the real pass keeps. *)

(* From the first pending load to the end of the pool, written now. *)
Span(t) == (t.ind - t.first) + 6 + t.bytes

Reserve ==
  /\ MaxAsm < FlushSlack
  /\ \A n \in {1} \cup ITLengths : 12 * n + MaxAsm <= RangeLimit

Bound == RangeLimit + 6 - MaxAsm

(* With `a` bytes of inline assembly so far: a pool written now, or after  *)
(* the conditioned instructions to come, is within the reach of its loads. *)
Fits(t, a) ==
  /\ Reserve /\ Reaches(t.out)
  /\ 6 + 12 * t.it <= Bound
  /\ t.pool # <<>> => Span(t) + 12 * t.it <= Bound + a

(* The same with one more literal. *)
Roomy(t, a) ==
  /\ Reserve /\ Reaches(t.out)
  /\ 18 + 12 * t.it <= Bound
  /\ t.pool # <<>> => Span(t) + 8 + 12 * t.it <= Bound + a

(* The slack leaves room for the branch and one IT block. *)
LEMMA BoundIs ==
  ASSUME Reserve
  PROVE  /\ Bound \in Int /\ MaxAsm \in Nat /\ RangeLimit \in Nat
         /\ FlushSlack \in Nat
         /\ Bound + MaxAsm = RangeLimit + 6
         /\ 18 <= Bound /\ RangeLimit - FlushSlack + 7 <= Bound
         /\ \A n \in ITLengths : n \in Nat /\ 6 + 12 * n <= Bound
<1>1. MaxAsm \in Nat /\ RangeLimit \in Nat /\ FlushSlack \in Nat
  BY BlockAssumption, ReachAssumption
<1>2. \A n \in ITLengths : n \in Nat
  BY BlockAssumption
<1>3. 12 * 1 + MaxAsm <= RangeLimit
  BY SMTT(40) DEF Reserve
<1> QED
  BY <1>1, <1>2, <1>3 DEF Reserve, Bound

(* A pass without pending literals. *)
LEMMA EmptyReal ==
  ASSUME Counting, NEW u, ~u.dry, u.count = 0, u.ind % 2 = 0, u.pool = <<>>,
         u.first = -1, u.bytes = 0, u.table = NoHash, u.cache = NoCache, Reads(u.out)
  PROVE  RealOK(u)
<1>1. Linked(u.pool) /\ LoadsBefore(u.pool, u.ind) /\ Len(u.pool) = 0
  BY DEF Linked, LoadsBefore
<1>2. Sums(u.pool)[0] = 0
  BY <1>1, LinkedSized, SumsStep
<1>3. \A k \in Keys : /\ IsFor(u.pool, u.table[k], k)
                      /\ IsFor(u.pool, u.cache[CacheSlot[k]].index, k)
  BY Forgotten DEF IsFor
<1> QED
  BY <1>1, <1>2, <1>3 DEF RealOK

(* th_literal_pool_generate in the real pass: loads read what is written. *)
LEMMA GenerateReal ==
  ASSUME Counting, NEW t, Common(t), RealOK(t)
  PROVE  LET u == th_literal_pool_generate(t)
         IN  /\ RealOK(u) /\ u.pool = <<>>
             /\ t.pool = <<>> => u = t
             /\ t.pool # <<>> => u.out.end = u.ind
             /\ \A a \in 0 .. MaxAsm : Fits(t, a) => Fits(u, a)
<1> DEFINE total == Sums(t.pool)[Len(t.pool)]
           base == PoolBase(t)
           u == th_literal_pool_generate(t)
<1>1. Linked(t.pool) /\ LoadsBefore(t.pool, t.ind) /\ t.bytes = total /\ t.ind % 2 = 0
  BY DEF RealOK
<1>2. Sized(t.pool) /\ Len(t.pool) \in Nat
  BY <1>1, LinkedSized DEF Sized
<1>3. total \in Nat /\ total % 4 = 0
  BY <1>1, <1>2, LinkedSized, SumsGrow, SumsWords
<1>4. /\ base \in Nat /\ t.ind <= base /\ base <= t.ind + 6 /\ base % 4 = 0
      /\ t.ind \in Nat
  BY <1>1, BaseNear DEF Common
<1>5. LoadsBefore(t.pool, base)
  BY <1>1, <1>4, EntryPatch, SMTT(40) DEF LoadsBefore
<1>6. t.count = 0 <=> t.pool = <<>>
  BY <1>1 DEF RealOK, Linked
<1>7. CASE t.pool = <<>>
  <2>1. u = t
    BY <1>6, <1>7 DEF th_literal_pool_generate
  <2> QED
    BY <1>7, <2>1
<1>8. CASE t.pool # <<>>
  <2> DEFINE d == RealFlush(t)
  <2>1. u = th_literal_pool_flushed(d)
    BY <1>6, <1>8, Zenon DEF th_literal_pool_generate, RealOK
  <2>2. /\ Shaped(d) /\ d.pool = <<>> /\ d.ind = base + total
        /\ d.out = Written(t.pool, base)
        /\ d.dry = t.dry /\ d.gen = t.gen /\ d.it = t.it
    BY RealFlushFields DEF Common
  <2> HIDE DEF d, u, total, base
  <2>3. /\ u.count = 0 /\ u.first = -1 /\ u.bytes = 0
        /\ u.table = NoHash /\ u.cache = NoCache
        /\ u.dry = d.dry /\ u.ind = d.ind
        /\ u.pool = d.pool /\ u.it = d.it /\ u.out = d.out
    BY <2>1, <2>2, FlushedFields
  <2>4. u.ind % 2 = 0
    <3>1. u.ind = base + total
      BY <2>2, <2>3, Zenon
    <3> QED
      BY <1>3, <1>4, <3>1
  <2>5. Reads(u.out)
    BY <1>1, <1>4, <1>5, <2>2, <2>3, WrittenReads
  <2>6. RealOK(u)
    <3>1. ~u.dry
      BY <2>2, <2>3 DEF RealOK
    <3> QED
      BY <2>2, <2>3, <2>4, <2>5, <3>1, EmptyReal
  <2>7. u.out.end = u.ind
    <3>1. Written(t.pool, base).end = base + total
      BY Zenon DEF Written, total
    <3> QED
      BY <2>2, <2>3, <3>1, SMTT(40)
  <2>8. ASSUME NEW a \in 0 .. MaxAsm, Fits(t, a)
        PROVE  Fits(u, a)
    <3>1. Span(t) <= RangeLimit + 6
      <4>1. Span(t) + 12 * t.it <= Bound + a /\ Reserve
        BY <1>8, <2>8 DEF Fits
      <4>2. t.it \in Nat /\ Span(t) \in Int
        <5>1. t.it \in Nat /\ t.first \in Int /\ t.bytes \in Nat /\ t.ind \in Nat
          BY Zenon DEF Common
        <5> QED
          BY <5>1 DEF Span
      <4> QED
        BY <4>1, <4>2, BoundIs
    <3>2. ASSUME NEW i \in 1 .. Len(t.pool)
          PROVE  base + total - t.pool[i].patch <= RangeLimit + 6
      <4>1. t.first <= t.pool[i].patch /\ t.first \in Int /\ t.pool[i].patch \in Nat
        BY <1>1, EntryPatch, Zenon DEF RealOK, Common
      <4>2. (t.ind - t.first) + 6 + total <= RangeLimit + 6
        BY <1>1, <3>1 DEF Span
      <4> DEFINE first == t.first
                 patch == t.pool[i].patch
                 ind == t.ind
      <4>3. /\ first <= patch /\ first \in Int /\ patch \in Nat /\ ind \in Nat
            /\ (ind - first) + 6 + total <= RangeLimit + 6 /\ base <= ind + 6
        BY <1>4, <4>1, <4>2
      <4> HIDE DEF first, patch, ind
      <4>4. base + total - patch <= RangeLimit + 6
        BY <1>3, <1>4, <4>3, ReachAssumption, SMTT(40)
      <4> QED
        BY <4>4 DEF patch
    <3>3. Reaches(u.out)
      BY <1>1, <1>4, <1>5, <2>2, <2>3, <3>2, WrittenReaches, ZenonT(40) DEF total
    <3> QED
      BY <2>2, <2>3, <2>8, <3>3, Zenon DEF Fits
  <2> QED
    BY <1>8, <2>2, <2>3, <2>6, <2>7, <2>8 DEF u
<1> QED
  BY <1>7, <1>8

(* th_pool_span_after measures the span of the pool. *)
LEMMA BudgetIs ==
  ASSUME NEW t, Common(t), RealOK(t), NEW upcoming \in Nat
  PROVE  /\ OutOfBudget(t, upcoming) <=>
              t.pool # <<>> /\ Span(t) + upcoming >= RangeLimit - FlushSlack
         /\ Span(t) \in Int
<1>1. t.ind \in Nat /\ t.first \in Int /\ t.bytes \in Nat
  BY DEF Common
<1>2. t.pool = <<>> <=> Len(t.pool) = 0
  BY DEF RealOK, Linked
<1>3. t.pool # <<>> => t.first >= 0
  BY <1>1, <1>2 DEF Common, RealOK
<1>4. Span(t) \in Int
  BY <1>1 DEF Span
<1>5. CASE t.pool = <<>>
  <2>1. th_pool_span_after(t, upcoming) = 0
    BY <1>2, <1>5 DEF th_pool_span_after
  <2> QED
    BY <1>4, <1>5, <2>1, ReachAssumption DEF OutOfBudget
<1>6. CASE t.pool # <<>>
  <2>1. th_pool_span_after(t, upcoming) = (t.ind - t.first) + upcoming + 4 + 2 + t.bytes
    BY <1>1, <1>2, <1>3, <1>6 DEF th_pool_span_after
  <2>2. th_pool_span_after(t, upcoming) = Span(t) + upcoming
    BY <1>1, <2>1 DEF Span
  <2> QED
    BY <1>4, <1>6, <2>2 DEF OutOfBudget
<1> QED
  BY <1>5, <1>6

(* The loads are at least `size` bytes before the end of the code. *)
LoadsBehind(t, size) ==
  \A i \in 1 .. Len(t.pool) : t.pool[i].patch <= t.ind - size

(* The flush in ot(), in the real pass. *)
LEMMA ReadyReal ==
  ASSUME Counting, NEW t, Common(t), RealOK(t), NEW size, NEW conditions
  PROVE  LET x == Ready(t, size, conditions)
         IN  /\ RealOK(x) /\ x.pool \in {t.pool, <<>>}
             /\ \A a \in 0 .. MaxAsm : Fits(t, a) => Fits(x, a)
BY GenerateReal DEF Ready

(* Code behind the loads keeps what the real pass keeps. *)
LEMMA EmittedReal ==
  ASSUME NEW x, Common(x), RealOK(x), NEW size \in Nat, size % 2 = 0,
         NEW u, Emitted(x, u, size)
  PROVE  RealOK(u) /\ LoadsBehind(u, size)
<1>1. u.ind = x.ind + size /\ x.ind \in Nat /\ x.ind % 2 = 0
  BY Zenon DEF Emitted, Common, RealOK
<1>2. u.ind % 2 = 0
  BY <1>1
<1>3. /\ u.dry = x.dry /\ u.pool = x.pool /\ u.count = x.count
      /\ u.first = x.first /\ u.bytes = x.bytes /\ u.table = x.table
      /\ u.cache = x.cache /\ u.out = x.out
  BY DEF Emitted
<1>4. ASSUME NEW i \in 1 .. Len(u.pool)
      PROVE  /\ u.pool[i].patch % 2 = 0 /\ u.pool[i].patch + 2 <= u.ind
             /\ u.pool[i].patch <= u.ind - size
  <2>1. x.pool[i].patch \in Nat
    BY <1>3, EntryPatch, Zenon DEF RealOK
  <2>2. x.pool[i].patch % 2 = 0 /\ x.pool[i].patch + 2 <= x.ind
    BY <1>3, Zenon DEF RealOK, LoadsBefore
  <2> QED
    BY <1>1, <1>3, <2>1, <2>2, SMTT(40)
<1>5. LoadsBefore(u.pool, u.ind) /\ LoadsBehind(u, size)
  BY <1>4, SMTT(40) DEF LoadsBefore, LoadsBehind
<1>6. RealOK(u)
  BY <1>2, <1>3, <1>5, Zenon DEF RealOK
<1> QED
  BY <1>5, <1>6

(* ot() in the real pass. *)
LEMMA OtReal ==
  ASSUME Counting, NEW t, Common(t), RealOK(t), NEW size \in {2, 4},
         NEW conditions \in {0} \cup ITLengths
  PROVE  LET u == ot(t, size, conditions)
         IN  RealOK(u) /\ LoadsBehind(u, size) /\ u.pool \in {t.pool, <<>>}
<1> DEFINE x == Ready(t, size, conditions)
           u == ot(t, size, conditions)
<1>1. Emitted(x, u, size)
  BY OtFields
<1>2. Common(x) /\ RealOK(x) /\ x.pool \in {t.pool, <<>>}
  BY ReadyCommon, ReadyReal
<1> HIDE DEF x, u
<1>3. RealOK(u) /\ LoadsBehind(u, size)
  <2>1. size \in Nat /\ size % 2 = 0
    OBVIOUS
  <2> QED
    BY <1>1, <1>2, <2>1, EmittedReal, Zenon
<1>4. u.pool = x.pool
  BY <1>1 DEF Emitted
<1> QED
  BY <1>2, <1>3, <1>4 DEF u

(* ot(): with the pool that is written first, everything stays in reach,   *)
(* and a load may add its literal.                                         *)
LEMMA OtFits ==
  ASSUME Counting, NEW t, Common(t), RealOK(t), ~t.gen => t.pool = <<>>,
         NEW size \in {2, 4}, NEW conditions \in {0} \cup ITLengths,
         NEW a \in 0 .. MaxAsm, Fits(t, a)
  PROVE  LET u == ot(t, size, conditions)
         IN  Fits(u, a) /\ (conditions = 0 /\ t.gen => Roomy(u, a))
<1> DEFINE x == Ready(t, size, conditions)
           u == ot(t, size, conditions)
<1>1. Emitted(x, u, size) /\ u.it = ItAfter(t, conditions)
  BY OtFields, Zenon
<1>2. /\ Common(x) /\ RealOK(x) /\ x.it = t.it /\ Fits(x, a)
      /\ (~t.gen \/ t.it > 0) => x = t
  BY ReadyCommon, ReadyReal, Zenon
<1>3. conditions \in Nat /\ t.it \in Nat /\ a \in Nat /\ t.gen \in BOOLEAN
  <2>1. conditions \in Nat
    BY BlockAssumption
  <2>2. a \in Nat
    BY BlockAssumption
  <2> QED
    BY <2>1, <2>2, CommonNumbers, Zenon
<1>4. Reserve /\ Reaches(x.out)
  BY <1>2 DEF Fits
<1> HIDE DEF x, u
<1>5. u.pool = x.pool /\ u.out = x.out
  BY <1>1 DEF Emitted
<1>6. Span(x) \in Int /\ Span(u) = Span(x) + size
  <2>1. /\ u.ind = x.ind + size /\ u.first = x.first /\ u.bytes = x.bytes
        /\ x.ind \in Nat /\ x.first \in Int /\ x.bytes \in Nat
    BY <1>1, <1>2, Zenon DEF Emitted, Common
  <2>2. size \in Nat
    OBVIOUS
  <2> DEFINE i == x.ind
             f == x.first
             b == x.bytes
  <2>3. Span(x) = (i - f) + 6 + b /\ Span(u) = (i + size - f) + 6 + b
    BY <2>1 DEF Span
  <2>4. i \in Nat /\ f \in Int /\ b \in Nat
    BY <2>1
  <2> HIDE DEF i, f, b
  <2> QED
    BY <2>2, <2>3, <2>4, SMTT(40)
<1>7. /\ Bound \in Int /\ 18 <= Bound /\ RangeLimit - FlushSlack + 7 <= Bound
      /\ conditions # 0 => 6 + 12 * conditions <= Bound
  BY <1>4, BoundIs
<1>8. CASE ~t.gen
  <2>1. u.pool = <<>> /\ u.it = t.it
    BY <1>1, <1>2, <1>5, <1>8 DEF ItAfter
  <2> QED
    BY <1>4, <1>5, <1>8, <2>1 DEF Fits, u
<1>9. CASE t.gen /\ t.it > 0
  <2>1. x = t /\ u.it = t.it - 1
    BY <1>1, <1>2, <1>9 DEF ItAfter
  <2>2. 6 + 12 * t.it <= Bound /\ (t.pool # <<>> => Span(t) + 12 * t.it <= Bound + a)
    BY DEF Fits
  <2>3. 18 + 12 * u.it <= Bound /\ u.it \in Nat
    BY <1>3, <1>7, <1>9, <2>1, <2>2
  <2>4. u.pool # <<>> => Span(u) + 8 + 12 * u.it <= Bound + a
    <3>1. u.pool # <<>> => Span(t) + 12 * t.it <= Bound + a
      BY <1>5, <2>1, <2>2
    <3>2. Span(t) \in Int /\ Span(u) = Span(t) + size
      BY <1>6, <2>1
    <3>3. size <= 4
      OBVIOUS
    <3> QED
      BY <1>3, <1>7, <2>1, <3>1, <3>2, <3>3, SMTT(40)
  <2>5. Span(u) \in Int
    BY <1>6
  <2>6. Roomy(u, a)
    BY <1>4, <1>5, <2>3, <2>4 DEF Roomy
  <2>7. Fits(u, a)
    BY <1>3, <1>4, <1>5, <1>7, <2>3, <2>4, <2>5, SMTT(40) DEF Fits
  <2> QED
    BY <2>6, <2>7 DEF u
<1>10. CASE t.gen /\ ~(t.it > 0)
  <2>1. u.it = conditions
    BY <1>1, <1>10 DEF ItAfter
  <2>2. x.pool # <<>> => Span(x) + size + 12 * conditions < RangeLimit - FlushSlack
    <3>1. CASE OutOfBudget(t, size + 12 * conditions)
      <4>1. x = th_literal_pool_generate(t)
        BY <1>10, <3>1 DEF Ready, x
      <4> QED
        BY <4>1, GenerateReal
    <3>2. CASE ~OutOfBudget(t, size + 12 * conditions)
      <4>1. x = t
        BY <3>2 DEF Ready, x
      <4>2. size + 12 * conditions \in Nat
        BY <1>3
      <4>3. t.pool # <<>> => ~(Span(t) + (size + 12 * conditions) >= RangeLimit - FlushSlack)
        BY <3>2, <4>2, BudgetIs
      <4> QED
        BY <1>3, <1>6, <4>1, <4>3, ReachAssumption
    <3> QED
      BY <3>1, <3>2
  <2>3. /\ 6 + 12 * u.it <= Bound
        /\ u.pool # <<>> => Span(u) + 8 + 12 * u.it <= Bound + a
        /\ u.pool # <<>> => Span(u) + 12 * u.it <= Bound + a
    BY <1>3, <1>5, <1>6, <1>7, <2>1, <2>2, ReachAssumption
  <2>4. Fits(u, a) /\ (conditions = 0 => Roomy(u, a))
    BY <1>4, <1>5, <1>7, <2>1, <2>3 DEF Fits, Roomy
  <2> QED
    BY <2>4 DEF u
<1> QED
  BY <1>3, <1>8, <1>9, <1>10, SMTT(40)

(* th_literal_pool_allocate in the real pass, after the load. *)
LEMMA AllocateReal ==
  ASSUME Counting,
         NEW t, Common(t), RealOK(t), NEW key \in Keys, NEW size \in {4, 8},
         NEW short \in BOOLEAN, NEW shared \in 0 .. Len(t.pool),
         IsFor(t.pool, shared, key),
         LoadSize(short) <= t.ind, LoadsBehind(t, LoadSize(short))
  PROVE  LET u == Allocate(t, key, size, short, shared)
         IN  /\ RealOK(u)
             /\ u.pool = Append(t.pool, NewEntry(t, key, size, short, shared))
             /\ u.table = t.table /\ u.cache = t.cache
             /\ \A a \in 0 .. MaxAsm : Roomy(t, a) => Fits(u, a)
<1> DEFINE u == Allocate(t, key, size, short, shared)
           patch == t.ind - LoadSize(short)
           entry == NewEntry(t, key, size, short, shared)
           n == Len(t.pool)
<1>1. /\ u.pool = Append(t.pool, entry)
      /\ u.count = t.count + 1
      /\ u.first = IF t.first < 0 \/ patch < t.first THEN patch ELSE t.first
      /\ u.bytes = t.bytes + Width(entry)
      /\ u.dry = t.dry /\ u.ind = t.ind
      /\ u.it = t.it /\ u.table = t.table /\ u.cache = t.cache
      /\ u.out = t.out
  <2>1. Shaped(t)
    BY CommonNumbers, Zenon
  <2> QED
    BY <2>1, AllocateFields, SMTT(40)
<1>2. patch \in Nat /\ patch % 2 = 0 /\ patch + 2 <= t.ind
  <2> DEFINE here == t.ind
             back == LoadSize(short)
  <2>1. here \in Nat /\ here % 2 = 0
    BY CommonNumbers, RealPool, Zenon
  <2>2. back \in {2, 4} /\ back <= here
    BY DEF LoadSize
  <2> HIDE DEF here, back
  <2>3. here - back \in Nat /\ (here - back) % 2 = 0 /\ (here - back) + 2 <= here
    BY <2>1, <2>2
  <2> QED
    BY <2>3 DEF here, back
<1>3. entry = [size |-> size, shared |-> shared, key |-> key,
               short |-> short, patch |-> patch]
  <2>1. ~t.dry
    BY RealPool, Zenon
  <2> QED
    BY <2>1, Zenon DEF NewEntry
<1>4. n \in Nat /\ Linked(t.pool) /\ t.pool \in Seq(Entries)
  BY RealPool, Zenon
<1> HIDE DEF u, patch, entry
<1>5. entry \in Entries
  BY <1>2, <1>3, <1>4, SMTT(40) DEF Entries
<1>6. /\ u.pool \in Seq(Entries) /\ Len(u.pool) = n + 1
      /\ \A i \in 1 .. n : u.pool[i] = t.pool[i]
      /\ u.pool[n + 1] = entry
  BY <1>1, <1>4, <1>5
<1>7. entry.shared = shared /\ entry.key = key /\ entry.patch = patch /\ entry.size = size
  BY <1>3
<1> HIDE DEF n
<1>8. Linked(u.pool)
  <2>1. ASSUME NEW i \in 1 .. (n + 1), u.pool[i].shared # None
        PROVE  /\ u.pool[i].shared \in 1 .. (i - 1)
               /\ u.pool[u.pool[i].shared].shared = None
               /\ u.pool[u.pool[i].shared].key = u.pool[i].key
    <3>1. CASE i \in 1 .. n
      <4>1. /\ t.pool[i].shared \in 1 .. (i - 1)
            /\ t.pool[t.pool[i].shared].shared = None
            /\ t.pool[t.pool[i].shared].key = t.pool[i].key
        BY <1>4, <1>6, <2>1, <3>1, SMTT(40) DEF Linked, n
      <4>2. t.pool[i].shared \in 1 .. n
        BY <1>4, <3>1, <4>1
      <4> QED
        BY <1>6, <3>1, <4>1, <4>2, Zenon
    <3>2. CASE i = n + 1
      <4>1. u.pool[i].shared = shared /\ u.pool[i].key = key
        BY <1>6, <1>7, <3>2
      <4>2. shared \in 1 .. n
        BY <1>4, <2>1, <4>1, SMTT(40) DEF n, None
      <4> QED
        BY <1>4, <1>6, <2>1, <3>2, <4>1, <4>2, SMTT(40) DEF IsFor
    <3> QED
      BY <1>4, <3>1, <3>2, SMTT(40)
  <2> QED
    BY <1>6, <2>1, SMTT(40) DEF Linked
<1>9. LoadsBefore(u.pool, u.ind)
  <2>1. LoadsBefore(t.pool, t.ind)
    BY RealPool, Zenon
  <2>2. ASSUME NEW i \in 1 .. (n + 1)
        PROVE  u.pool[i].patch % 2 = 0 /\ u.pool[i].patch + 2 <= t.ind
    <3>1. CASE i \in 1 .. n
      BY <1>6, <2>1, <3>1, Zenon DEF LoadsBefore, n
    <3>2. CASE i = n + 1
      BY <1>2, <1>6, <1>7, <3>2, Zenon
    <3> QED
      BY <1>4, <3>1, <3>2
  <2> QED
    BY <1>1, <1>6, <2>2, Zenon DEF LoadsBefore
<1>10. /\ t.pool = <<>> => u.first = patch
       /\ t.pool # <<>> => u.first = t.first /\ t.first = t.pool[1].patch /\ n >= 1
       /\ t.first \in Int
  <2>1. CASE t.pool = <<>>
    <3>1. t.count = 0
      BY <2>1, Zenon DEF RealOK
    <3>2. t.first = -1
      BY <3>1, Zenon DEF Common
    <3> QED
      BY <1>1, <2>1, <3>2
  <2>2. CASE t.pool # <<>>
    <3>1. n >= 1 /\ t.first = t.pool[1].patch
      BY <1>4, <2>2 DEF RealOK, n
    <3>2. t.first <= patch /\ t.first \in Nat
      BY <1>4, <3>1, EntryPatch DEF LoadsBehind, patch, n
    <3> QED
      BY <1>1, <1>2, <2>2, <3>1, <3>2, SMTT(40)
  <2> QED
    BY <2>1, <2>2, SMTT(40)
<1>11. /\ u.pool # <<>> => u.first = u.pool[1].patch
       /\ \A i \in 1 .. Len(u.pool) : u.first <= u.pool[i].patch
  <2>1. CASE t.pool = <<>>
    <3>1. n = 0
      BY <2>1 DEF n
    <3> QED
      BY <1>2, <1>6, <1>7, <1>10, <2>1, <3>1
  <2>2. CASE t.pool # <<>>
    <3>1. \A i \in 1 .. n : t.first <= t.pool[i].patch /\ t.pool[i].patch <= patch
      BY Zenon DEF RealOK, LoadsBehind, patch, n
    <3>2. t.first \in Nat
      BY <1>4, <1>10, <2>2, EntryPatch DEF n
    <3>3. ASSUME NEW i \in 1 .. (n + 1) PROVE u.first <= u.pool[i].patch
      <4>1. CASE i \in 1 .. n
        BY <1>6, <1>10, <2>2, <3>1, <4>1, SMTT(40)
      <4>2. CASE i = n + 1
        <5>1. t.first <= patch
          BY <1>4, <1>10, <2>2, <3>1, SMTT(40)
        <5> QED
          BY <1>6, <1>7, <1>10, <2>2, <4>2, <5>1, SMTT(40)
      <4> QED
        BY <1>4, <4>1, <4>2, SMTT(40)
    <3> QED
      BY <1>4, <1>6, <1>10, <2>2, <3>3, SMTT(40)
  <2> QED
    BY <2>1, <2>2
<1>12. /\ u.bytes = Sums(u.pool)[Len(u.pool)] /\ Width(entry) \in {0, 4, 8}
       /\ t.bytes \in Nat /\ (t.pool = <<>> => t.bytes = 0)
  <2>1. Sized(t.pool) /\ Sized(u.pool)
    BY <1>4, <1>8, LinkedSized, SMTT(40)
  <2>2. Sums(u.pool)[n] = Sums(t.pool)[n]
    BY <1>1, <1>4, <1>5, <2>1, SumsAppend, SMTT(40) DEF n
  <2>3. Sums(u.pool)[n + 1] = Sums(u.pool)[(n + 1) - 1] + Width(u.pool[n + 1])
    <3>1. \A k \in 1 .. Len(u.pool) :
            Sums(u.pool)[k] = Sums(u.pool)[k - 1] + Width(u.pool[k])
      BY <2>1, SumsStep, Zenon
    <3> DEFINE k == n + 1
    <3>2. k \in 1 .. Len(u.pool)
      BY <1>4, <1>6
    <3> HIDE DEF k
    <3>3. Sums(u.pool)[k] = Sums(u.pool)[k - 1] + Width(u.pool[k])
      BY <3>1, <3>2, Zenon
    <3> QED
      BY <3>3, Zenon DEF k
  <2>4. (n + 1) - 1 = n
    BY <1>4, SMTT(40)
  <2>5. t.bytes = Sums(t.pool)[n]
    BY Zenon DEF RealOK, n
  <2>6. Width(entry) \in {0, 4, 8}
    BY <1>4, <1>6, <1>8, LinkedSized
  <2>7. t.bytes \in Nat
    BY SMTT(40) DEF Common
  <2>8. t.pool = <<>> => t.bytes = 0
    BY <2>1, <2>5, SumsStep, SMTT(40) DEF n
  <2> QED
    BY <1>1, <1>6, <2>2, <2>3, <2>4, <2>5, <2>6, <2>7, <2>8, SMTT(40)
<1>13. ASSUME NEW k \in Keys
       PROVE  /\ IsFor(u.pool, u.table[k], k)
              /\ u.cache[CacheSlot[k]].key = k =>
                   IsFor(u.pool, u.cache[CacheSlot[k]].index, k)
  <2>1. ASSUME NEW i \in 0 .. n, IsFor(t.pool, i, k)
        PROVE  IsFor(u.pool, i, k)
    BY <1>4, <1>6, <2>1, SMTT(40) DEF IsFor, None
  <2>2. t.table[k] \in 0 .. n /\ t.cache[CacheSlot[k]] \in CacheLines(n)
    BY Zenon DEF Common, Slots, n
  <2>3. t.cache[CacheSlot[k]].index \in 0 .. n
    BY <2>2, SMTT(40) DEF CacheLines
  <2> QED
    BY <1>1, <2>1, <2>2, <2>3, ZenonT(40) DEF RealOK
<1>14. RealOK(u)
  <2>1. u.count = Len(u.pool) /\ ~u.dry /\ u.ind % 2 = 0 /\ Reads(u.out)
    BY <1>1, <1>6, Zenon DEF RealOK, n
  <2> QED
    BY <1>8, <1>9, <1>11, <1>12, <1>13, <2>1, ZenonT(40) DEF RealOK
<1>15. ASSUME NEW a \in 0 .. MaxAsm, Roomy(t, a)
       PROVE  Fits(u, a)
  <2>1. /\ Reserve /\ Reaches(t.out) /\ 18 + 12 * t.it <= Bound
        /\ t.pool # <<>> => Span(t) + 8 + 12 * t.it <= Bound + a
    BY <1>15, SMTT(40) DEF Roomy
  <2>2. Bound \in Int /\ a \in Nat /\ t.it \in Nat /\ t.ind \in Nat
    BY <2>1, BoundIs, SMTT(40) DEF Common
  <2> DEFINE w == Width(entry)
             f == t.first
             b == t.bytes
             i == t.ind
             m == t.it
  <2>3. w \in {0, 4, 8} /\ f \in Int /\ b \in Nat /\ i \in Nat /\ m \in Nat
    BY <1>10, <1>12, <2>2, Zenon
  <2>4. patch >= i - 4 /\ patch \in Nat
    BY <1>2, <2>2, SMTT(40) DEF patch, LoadSize
  <2>5. Span(t) = (i - f) + 6 + b /\ Span(u) = (i - u.first) + 6 + (b + w)
    BY <1>1 DEF Span
  <2>6. 18 + 12 * m <= Bound
    BY <2>1, SMTT(40)
  <2>u. u.it = m /\ Reaches(u.out)
    BY <1>1, <2>1, Zenon
  <2> HIDE DEF w, f, b, i, m
  <2>s. 6 + 12 * m <= Bound
    BY <2>2, <2>3, <2>6
  <2>7. CASE t.pool = <<>>
    <3>1. u.first = patch /\ b = 0
      BY <1>10, <1>12, <2>7 DEF b
    <3>2. Span(u) + 12 * m <= Bound + a
      BY <2>2, <2>3, <2>4, <2>5, <2>6, <3>1, SMTT(40)
    <3> QED
      BY <2>1, <2>u, <2>s, <3>2, Zenon DEF Fits
  <2>8. CASE t.pool # <<>>
    <3>1. u.first = f /\ Span(t) + 8 + 12 * m <= Bound + a
      BY <1>10, <2>1, <2>8 DEF f, m
    <3>2. Span(u) + 12 * m <= Bound + a
      BY <2>2, <2>3, <2>5, <3>1, SMTT(40)
    <3> QED
      BY <2>1, <2>u, <2>s, <3>2, Zenon DEF Fits
  <2> QED
    BY <2>7, <2>8
<1> QED
  BY <1>1, <1>14, <1>15 DEF u, entry

(* th_literal_pool_find: what it finds is the literal of the key. *)
LEMMA LookupFinds ==
  ASSUME NEW t, RealOK(t), NEW key \in Keys
  PROVE  IsFor(t.pool, Lookup(t, key), key)
BY Zenon DEF RealOK, Lookup

(* th_literal_pool_find_or_allocate: only a literal of the key is shared. *)
LEMMA FindReal ==
  ASSUME Counting,
         NEW t, Common(t), RealOK(t), NEW key \in Keys, NEW size \in {4, 8},
         NEW short \in BOOLEAN, LoadSize(short) <= t.ind,
         LoadsBehind(t, LoadSize(short))
  PROVE  LET u == FindOrAllocate(t, key, size, short)
         IN  RealOK(u) /\ \A a \in 0 .. MaxAsm : Roomy(t, a) => Fits(u, a)
<1> DEFINE found == Lookup(t, key)
           v == Allocate(t, key, size, short, found)
           u == FindOrAllocate(t, key, size, short)
           n == IndexOf(t, key)
           entry == NewEntry(t, key, size, short, found)
<1>1. found \in 0 .. Len(t.pool) /\ IsFor(t.pool, found, key)
  BY LookupIn, LookupFinds
<1>2. /\ RealOK(v) /\ v.pool = Append(t.pool, entry)
      /\ v.table = t.table /\ v.cache = t.cache
      /\ \A a \in 0 .. MaxAsm : Roomy(t, a) => Fits(v, a)
  BY <1>1, AllocateReal, SMTT(40)
<1>3. entry.shared = found /\ entry.key = key
  BY ZenonT(40) DEF NewEntry, RealOK
<1>r. Recorded(v, u, key, found, n)
  BY FindFields, Zenon
<1>4. /\ u.table = [v.table EXCEPT ![key] = IF found = None THEN n ELSE @]
      /\ u.cache = [v.cache EXCEPT ![CacheSlot[key]] = [key |-> key, index |-> n]]
      /\ u.dry = v.dry /\ u.ind = v.ind /\ u.pool = v.pool
      /\ u.count = v.count /\ u.first = v.first /\ u.bytes = v.bytes
      /\ u.it = v.it /\ u.out = v.out
  <2> HIDE DEF u, v, n, found
  <2> QED
    BY <1>r, Zenon DEF Recorded
<1>5. t.pool \in Seq(Entries) /\ Len(t.pool) \in Nat
  BY RealPool, Zenon
<1>6. n = IF found = None THEN Len(t.pool) + 1 ELSE found
  BY DEF IndexOf
<1> HIDE DEF found, u, v, n, entry
<1>p. u.pool = Append(t.pool, entry)
  BY <1>2, <1>4
<1>7. IsFor(u.pool, n, key)
  <2>1. CASE found = None
    <3>1. u.pool[n] = entry
      BY <1>5, <1>6, <1>p, <2>1
    <3> QED
      BY <1>3, <2>1, <3>1 DEF IsFor
  <2>2. CASE found # None
    <3>1. n = found /\ found \in 1 .. Len(t.pool)
      BY <1>1, <1>5, <1>6, <2>2, SMTT(40) DEF None
    <3>2. u.pool[n] = t.pool[found]
      BY <1>5, <1>p, <3>1
    <3> QED
      BY <1>1, <2>2, <3>1, <3>2 DEF IsFor
  <2> QED
    BY <2>1, <2>2
<1>8. ASSUME NEW k \in Keys
      PROVE  /\ IsFor(u.pool, u.table[k], k)
             /\ u.cache[CacheSlot[k]].key = k =>
                  IsFor(u.pool, u.cache[CacheSlot[k]].index, k)
  <2>1. /\ IsFor(u.pool, v.table[k], k)
        /\ v.cache[CacheSlot[k]].key = k =>
             IsFor(u.pool, v.cache[CacheSlot[k]].index, k)
    BY <1>2, <1>4, ZenonT(40) DEF RealOK
  <2>2. v.table \in [Keys -> 0 .. Len(t.pool)] /\ v.cache \in [Slots -> CacheLines(Len(t.pool))]
    BY <1>2, Zenon DEF Common
  <2>3. CacheSlot[k] \in Slots /\ CacheSlot[key] \in Slots
    BY DEF Slots
  <2>4. u.table[k] \in {v.table[k], n} /\ (k # key => u.table[k] = v.table[k])
    BY <1>4, <2>2
  <2>5. IsFor(u.pool, u.table[k], k)
    BY <1>7, <2>1, <2>4
  <2>6. CASE CacheSlot[k] = CacheSlot[key]
    <3>1. u.cache[CacheSlot[k]] = [key |-> key, index |-> n]
      BY <1>4, <2>2, <2>3, <2>6, SMTT(40)
    <3> QED
      BY <1>7, <2>5, <3>1
  <2>7. CASE CacheSlot[k] # CacheSlot[key]
    <3>1. u.cache[CacheSlot[k]] = v.cache[CacheSlot[k]]
      BY <1>4, <2>2, <2>3, <2>7, SMTT(40)
    <3> QED
      BY <2>1, <2>5, <3>1, SMTT(40)
  <2> QED
    BY <2>6, <2>7, ZenonT(40)
<1>9. RealOK(u)
  BY <1>2, <1>4, <1>8, ZenonT(40) DEF RealOK
<1>10. ASSUME NEW a \in 0 .. MaxAsm, Roomy(t, a)
       PROVE  Fits(u, a)
  <2>1. Fits(v, a)
    BY <1>2, <1>10
  <2> QED
    BY <1>4, <2>1 DEF Fits, Span
<1> QED
  BY <1>9, <1>10 DEF u

(* load_full_const in either pass. *)
LEMMA LoadCommon ==
  ASSUME Counting, NEW t, Common(t), NEW key \in Keys, NEW size \in {4, 8},
         NEW short \in BOOLEAN
  PROVE  LET u == load_full_const(t, key, size, short)
         IN  /\ Common(u) /\ SamePass(t, u) /\ u.it = ItAfter(t, 0)
             /\ (~t.gen \/ t.it > 0) => u.ind = t.ind + LoadSize(short)
<1> DEFINE v == ot(t, LoadSize(short), 0)
           u == FindOrAllocate(v, key, size, short)
<1>0. LoadSize(short) \in Nat
  BY DEF LoadSize
<1>1. /\ Common(v) /\ SamePass(t, v) /\ LoadSize(short) <= v.ind
      /\ v.it = ItAfter(t, 0)
      /\ (~t.gen \/ t.it > 0) => v.ind = t.ind + LoadSize(short)
  BY <1>0, OtCommon
<1> HIDE DEF v
<1>2. Common(u) /\ SamePass(v, u) /\ u.it = v.it /\ u.ind = v.ind
  BY <1>1, FindCommon
<1>3. load_full_const(t, key, size, short) = u
  BY DEF load_full_const, LoadSize, v
<1> HIDE DEF u
<1>4. SamePass(t, u)
  BY <1>1, <1>2 DEF SamePass
<1> QED
  BY <1>1, <1>2, <1>3, <1>4

(* load_full_const in the real pass. *)
LEMMA LoadReal ==
  ASSUME Counting, NEW t, Common(t), RealOK(t), t.gen, NEW key \in Keys,
         NEW size \in {4, 8}, NEW short \in BOOLEAN
  PROVE  LET u == load_full_const(t, key, size, short)
         IN  RealOK(u) /\ \A a \in 0 .. MaxAsm : Fits(t, a) => Fits(u, a)
<1> DEFINE v == ot(t, LoadSize(short), 0)
           u == FindOrAllocate(v, key, size, short)
<1>0. LoadSize(short) \in {2, 4} /\ LoadSize(short) \in Nat
  BY DEF LoadSize
<1>1. Common(v) /\ LoadSize(short) <= v.ind
  BY <1>0, OtCommon, Zenon
<1>2. RealOK(v) /\ LoadsBehind(v, LoadSize(short))
  BY <1>0, OtReal
<1>3. \A a \in 0 .. MaxAsm : Fits(t, a) => Roomy(v, a)
  BY <1>0, OtFits
<1> HIDE DEF v
<1>4. RealOK(u) /\ \A a \in 0 .. MaxAsm : Roomy(v, a) => Fits(u, a)
  BY <1>1, <1>2, FindReal
<1>5. load_full_const(t, key, size, short) = u
  BY DEF load_full_const, LoadSize, v
<1> QED
  BY <1>3, <1>4, <1>5

(* Nothing was written: nothing is read or out of reach. *)
LEMMA NoOutReads == Reads(NoOut) /\ Reaches(NoOut)
BY DEF Reads, Reaches, NoOut

(* A pool that no pass has filled yet. *)
LEMMA NewCommon ==
  ASSUME Counting,
         NEW u, Shaped(u), u.dry \in BOOLEAN, u.gen \in BOOLEAN, u.ind \in Nat,
         u.it \in Nat, u.pool = <<>>, u.count = 0, u.first = -1, u.bytes = 0,
         u.table = NoHash, u.cache = NoCache, u.counted = 0, u.countedBytes = 0
  PROVE  Common(u)
<1>1. u.pool \in Seq(AnyEntries) /\ Len(u.pool) = 0 /\ 0 \in 0 .. 0
  OBVIOUS
<1>2. Sums(u.pool)[0] = 0
  BY <1>1, AnySized, SumsStep, Zenon
<1>3. NoHash \in [Keys -> 0 .. 0] /\ NoCache \in [Slots -> CacheLines(0)]
  BY Forgotten
<1> QED
  BY <1>1, <1>2, <1>3 DEF Common

-----------------------------------------------------------------------------
(* One pass within a function. *)

(* The cache knows a key only if the hash does. *)
Agrees(t) ==
  \A k \in Keys :
    t.cache[CacheSlot[k]].key = k =>
      (t.cache[CacheSlot[k]].index = None <=> t.table[k] = None)

(* What holds of either pass within the function. *)
PassOK(t) ==
  /\ Common(t) /\ t.gen = TRUE /\ t.ind % 2 = 0 /\ t.first <= t.ind /\ Agrees(t)
  /\ ~t.dry => RealOK(t)

(* A flush is due before `upcoming` bytes. *)
Due(t, upcoming) ==
  t.count # 0 /\ (t.ind - t.first) + upcoming + 6 + t.bytes >= RangeLimit - FlushSlack

(* u is t and n more bytes. *)
Stays(t, u, n) ==
  /\ u.ind = t.ind + n /\ u.count = t.count /\ u.first = t.first
  /\ u.bytes = t.bytes /\ u.table = t.table /\ Len(u.pool) = Len(t.pool)

(* u is t behind its pool, and n more bytes. *)
Clears(t, u, n) ==
  /\ u.count = 0 /\ u.first = -1 /\ u.bytes = 0 /\ u.table = NoHash
  /\ u.ind - n \in Nat /\ (u.ind - n) % 4 = 0 /\ t.ind + 4 + n <= u.ind
  /\ t.dry => Len(u.pool) = Len(t.pool)
  /\ ~t.dry => u.ind <= t.ind + n + 6 + t.bytes

(* u is t and n bytes that condition c instructions. *)
Moves(t, u, n, c) ==
  /\ PassOK(u) /\ u.dry = t.dry
  /\ IF t.it = 0 /\ Due(t, n + 12 * c) THEN Clears(t, u, n) ELSE Stays(t, u, n)

(* u is t and a literal of `width` bytes, for a load of n bytes.  `known`  *)
(* is what is found from now on.                                           *)
Adds(t, u, n, width, known) ==
  /\ PassOK(u) /\ u.dry = t.dry /\ u.ind = t.ind /\ u.it = t.it
  /\ u.count = t.count + 1 /\ u.bytes = t.bytes + width
  /\ u.first = (IF t.count = 0 THEN t.ind - n ELSE t.first)
  /\ Len(u.pool) = Len(t.pool) + 1
  /\ \A k \in Keys : u.table[k] = None <=> t.table[k] = None /\ k \notin known

(* The numbers of a pass. *)
LEMMA PassNumbers ==
  ASSUME NEW t, PassOK(t)
  PROVE  /\ Common(t) /\ Shaped(t) /\ t.dry \in BOOLEAN /\ t.gen = TRUE
         /\ t.ind \in Nat /\ t.ind % 2 = 0 /\ t.it \in Nat /\ t.bytes \in Nat
         /\ Len(t.pool) \in Nat /\ t.count \in Nat /\ t.count <= Len(t.pool)
         /\ t.first \in Int /\ t.first >= -1 /\ t.first <= t.ind
         /\ (t.count = 0 <=> t.first = -1)
<1>1. Common(t) /\ t.gen = TRUE /\ t.ind % 2 = 0 /\ t.first <= t.ind
  BY Zenon DEF PassOK
<1>2. Shaped(t) /\ t.dry \in BOOLEAN /\ t.ind \in Nat /\ t.it \in Nat
      /\ t.bytes \in Nat /\ Len(t.pool) \in Nat /\ t.count \in 0 .. Len(t.pool)
      /\ t.first \in Int /\ t.first >= -1 /\ (t.count = 0 <=> t.first = -1)
  BY <1>1, CommonNumbers, Zenon
<1>3. t.count \in Nat /\ t.count <= Len(t.pool)
  BY <1>2
<1> QED
  BY <1>1, <1>2, <1>3, Zenon

(* What th_pool_span_after measures. *)
LEMMA SpanIs ==
  ASSUME NEW t, PassOK(t), NEW upcoming \in Nat
  PROVE  /\ th_pool_span_after(t, upcoming) =
              IF t.count = 0 THEN 0
              ELSE (t.ind - t.first) + upcoming + 6 + t.bytes
         /\ OutOfBudget(t, upcoming) <=> Due(t, upcoming)
<1>1. /\ t.ind \in Nat /\ t.bytes \in Nat /\ Len(t.pool) \in Nat /\ t.count \in Nat
      /\ t.count <= Len(t.pool) /\ t.first \in Int /\ t.first >= -1
      /\ (t.count = 0 <=> t.first = -1)
  BY PassNumbers, Zenon
<1>2. Len(t.pool) = 0 \/ t.first < 0 <=> t.count = 0
  BY <1>1
<1>3. th_pool_span_after(t, upcoming) =
        IF t.count = 0 THEN 0 ELSE (t.ind - t.first) + upcoming + 4 + 2 + t.bytes
  BY <1>2, Zenon DEF th_pool_span_after
<1>4. (t.ind - t.first) + upcoming + 4 + 2 + t.bytes
        = (t.ind - t.first) + upcoming + 6 + t.bytes
  BY <1>1
<1>5. th_pool_span_after(t, upcoming) =
        IF t.count = 0 THEN 0 ELSE (t.ind - t.first) + upcoming + 6 + t.bytes
  BY <1>3, <1>4, Zenon
<1>6. ~(0 >= RangeLimit - FlushSlack)
  BY ReachAssumption
<1>7. OutOfBudget(t, upcoming) <=> Due(t, upcoming)
  BY <1>5, <1>6, Zenon DEF OutOfBudget, Due
<1> QED
  BY <1>5, <1>7, Zenon
(* Words behind words. *)
LEMMA WordSum ==
  ASSUME NEW a \in Nat, NEW b \in Nat, a % 4 = 0, b % 4 = 0
  PROVE  (a + b) % 4 = 0 /\ (a + b) % 2 = 0
OBVIOUS

(* The bytes of all entries are words. *)
LEMMA PoolWords ==
  ASSUME Counting, NEW t, Common(t)
  PROVE  Sums(t.pool)[Len(t.pool)] \in Nat /\ Sums(t.pool)[Len(t.pool)] % 4 = 0
<1>1. t.pool \in Seq(AnyEntries) /\ Len(t.pool) \in Nat
  BY CommonNumbers, Zenon
<1>2. Sized(t.pool)
  BY <1>1, AnySized, Zenon
<1>3. \A e \in AnyEntries : Width(e) \in {0, 4, 8}
  BY DEF AnyEntries, Entries, DryEntries, Width
<1>4. \A i \in 1 .. Len(t.pool) : t.pool[i] \in AnyEntries
  BY <1>1
<1>5. Len(t.pool) \in 0 .. Len(t.pool)
  BY <1>1
<1>6. \A i \in 1 .. Len(t.pool) : Width(t.pool[i]) \in {0, 4, 8}
  BY <1>3, <1>4, Zenon
<1> QED
  BY <1>2, <1>5, <1>6, SumsWords, SumsGrow, Zenon

(* th_literal_pool_generate, if there is something to write. *)
LEMMA GenerateFields ==
  ASSUME Counting, NEW t, Common(t), t.count # 0
  PROVE  LET u == th_literal_pool_generate(t)
         IN  /\ u.ind = PoolBase(t) + Sums(t.pool)[Len(t.pool)]
             /\ u.count = 0 /\ u.first = -1 /\ u.bytes = 0
             /\ u.table = NoHash /\ u.cache = NoCache
             /\ t.dry => u.pool = t.pool
<1> DEFINE total == Sums(t.pool)[Len(t.pool)]
           d == IF t.dry THEN DryFlush(t) ELSE RealFlush(t)
           u == th_literal_pool_flushed(d)
<1>1. Shaped(t)
  BY CommonNumbers, Zenon
<1>2. th_literal_pool_generate(t) = u
  BY Zenon DEF th_literal_pool_generate
<1>3. Shaped(d) /\ d.ind = PoolBase(t) + total /\ (t.dry => d.pool = t.pool)
  <2>1. CASE t.dry
    <3>1. t.countedBytes + total - Sums(t.pool)[t.counted] = total
      <4>1. t.countedBytes = Sums(t.pool)[t.counted]
        BY Zenon DEF Common
      <4>2. total \in Nat /\ Sums(t.pool)[t.counted] \in Nat
        <5>1. Sized(t.pool) /\ t.counted \in 0 .. Len(t.pool)
          BY CommonNumbers, AnySized, Zenon
        <5> QED
          BY <5>1, PoolWords, SumsGrow, Zenon
      <4> QED
        BY <4>1, <4>2
    <3>2. d = DryFlush(t)
      BY <2>1, Zenon
    <3>3. /\ Shaped(DryFlush(t))
          /\ DryFlush(t).ind = PoolBase(t) + (t.countedBytes + total - Sums(t.pool)[t.counted])
          /\ DryFlush(t).pool = t.pool
      BY <1>1, DryFlushFields
    <3> QED
      BY <3>1, <3>2, <3>3, Zenon
  <2>2. CASE ~t.dry
    <3>1. d = RealFlush(t)
      BY <2>2, Zenon
    <3>2. Shaped(RealFlush(t)) /\ RealFlush(t).ind = PoolBase(t) + total
      BY <1>1, RealFlushFields, Zenon
    <3> QED
      BY <2>2, <3>1, <3>2, Zenon
  <2> QED
    BY <2>1, <2>2, Zenon
<1> HIDE DEF d, total
<1>4. /\ u.count = 0 /\ u.first = -1 /\ u.bytes = 0
      /\ u.table = NoHash /\ u.cache = NoCache
      /\ u.ind = d.ind /\ u.pool = d.pool
  BY <1>3, FlushedFields, Zenon
<1> QED
  BY <1>2, <1>3, <1>4, Zenon DEF total

(* An empty hash and an empty cache agree. *)
LEMMA ForgottenAgrees ==
  ASSUME NEW u, u.table = NoHash, u.cache = NoCache
  PROVE  Agrees(u)
BY Forgotten, Zenon DEF Agrees

(* A flush ends at a word, not far behind the code. *)
LEMMA GenerateClears ==
  ASSUME Counting, NEW t, PassOK(t), t.count # 0
  PROVE  LET u == th_literal_pool_generate(t)
         IN  PassOK(u) /\ u.dry = t.dry /\ u.it = t.it /\ Clears(t, u, 0)
<1> DEFINE total == Sums(t.pool)[Len(t.pool)]
           u == th_literal_pool_generate(t)
<1>1. /\ Common(t) /\ t.gen = TRUE /\ t.ind \in Nat /\ t.ind % 2 = 0
      /\ Len(t.pool) \in Nat
  BY PassNumbers, Zenon
<1>2. total \in Nat /\ total % 4 = 0
  BY <1>1, PoolWords, Zenon
<1>3. /\ u.ind = PoolBase(t) + total /\ u.count = 0 /\ u.first = -1 /\ u.bytes = 0
      /\ u.table = NoHash /\ u.cache = NoCache /\ (t.dry => u.pool = t.pool)
  BY <1>1, GenerateFields, Zenon
<1>4. Common(u) /\ SamePass(t, u) /\ u.it = t.it
  BY <1>1, GenerateCommon, Zenon
<1>5. ~t.dry => RealOK(u)
  BY <1>1, GenerateReal, Zenon DEF PassOK
<1>6. ~t.dry => t.bytes = total
  BY Zenon DEF PassOK, RealOK
<1> HIDE DEF u, total
<1>7. u.dry = t.dry /\ u.gen = TRUE
  BY <1>1, <1>4, Zenon DEF SamePass
<1>8. /\ PoolBase(t) \in Nat /\ t.ind + 4 <= PoolBase(t)
      /\ PoolBase(t) <= t.ind + 6 /\ PoolBase(t) % 4 = 0
  <2>1. t.gen \in BOOLEAN
    BY <1>1, Zenon
  <2>2. t.ind + 4 <= PoolBase(t)
    <3>1. PoolBase(t) = t.ind + 4 + (IF t.ind % 4 = 2 THEN 2 ELSE 0)
      BY <1>1, Zenon DEF PoolBase
    <3>2. t.ind \in Nat
      BY <1>1, Zenon
    <3> QED
      BY <3>1, <3>2
  <2> QED
    BY <1>1, <2>1, <2>2, BaseNear, Zenon
<1>n. /\ u.ind \in Nat /\ t.ind + 4 <= u.ind /\ u.ind <= t.ind + 6 + total
      /\ u.first <= u.ind /\ t.ind \in Nat
  <2>1. /\ t.ind \in Nat /\ total \in Nat /\ PoolBase(t) \in Nat
        /\ t.ind + 4 <= PoolBase(t) /\ PoolBase(t) <= t.ind + 6
        /\ u.ind = PoolBase(t) + total /\ u.first = -1
    BY <1>1, <1>2, <1>3, <1>8, Zenon
  <2> QED
    BY <2>1
<1>9. u.ind % 4 = 0 /\ u.ind % 2 = 0
  BY <1>2, <1>3, <1>8, WordSum, Zenon
<1>10. Agrees(u)
  BY <1>3, ForgottenAgrees, Zenon
<1>11. PassOK(u)
  BY <1>n, <1>4, <1>5, <1>7, <1>9, <1>10, Zenon DEF PassOK
<1>12. Clears(t, u, 0)
  <2>1. u.ind - 0 = u.ind /\ t.ind + 4 + 0 = t.ind + 4
    BY <1>n
  <2>2. ~t.dry => u.ind <= t.ind + 0 + 6 + t.bytes
    <3>1. t.ind + 0 + 6 + total = t.ind + 6 + total
      BY <1>n
    <3> QED
      BY <1>n, <1>6, <3>1, Zenon
  <2> QED
    BY <1>n, <1>3, <1>9, <2>1, <2>2, Zenon DEF Clears
<1> QED
  BY <1>4, <1>7, <1>11, <1>12, Zenon DEF u

(* Even and even. *)
LEMMA EvenSum ==
  ASSUME NEW a \in Nat, NEW b \in Nat, a % 2 = 0, b % 2 = 0
  PROVE  (a + b) % 2 = 0
OBVIOUS

(* More code behind a pass. *)
LEMMA EmittedStays ==
  ASSUME NEW t, PassOK(t), NEW u, Common(u), NEW n \in Nat, n % 2 = 0,
         Emitted(t, u, n)
  PROVE  PassOK(u) /\ u.dry = t.dry /\ Stays(t, u, n)
<1>1. /\ u.ind = t.ind + n /\ u.dry = t.dry /\ u.gen = t.gen /\ u.pool = t.pool
      /\ u.count = t.count /\ u.first = t.first /\ u.bytes = t.bytes
      /\ u.table = t.table /\ u.cache = t.cache
  BY Zenon DEF Emitted
<1>2. /\ Common(t) /\ t.gen = TRUE /\ t.ind \in Nat /\ t.ind % 2 = 0
      /\ t.first \in Int /\ t.first <= t.ind
  BY PassNumbers, Zenon
<1>3. u.ind % 2 = 0
  BY <1>1, <1>2, EvenSum, Zenon
<1>4. u.first <= u.ind
  <2>1. t.ind \in Nat /\ t.first \in Int /\ t.first <= t.ind
    BY <1>2, Zenon
  <2> QED
    BY <1>1, <2>1
<1>5. Agrees(u)
  BY <1>1, Zenon DEF PassOK, Agrees
<1>6. ~u.dry => RealOK(u)
  BY <1>1, <1>2, EmittedReal, Zenon DEF PassOK
<1>7. PassOK(u)
  BY <1>1, <1>2, <1>3, <1>4, <1>5, <1>6, Zenon DEF PassOK
<1> QED
  BY <1>1, <1>7, Zenon DEF Stays

(* Code behind the pool. *)
LEMMA ClearsThenStays ==
  ASSUME NEW t, NEW x, NEW u, NEW n \in Nat,
         t.ind \in Nat, t.bytes \in Nat, x.ind \in Nat, Clears(t, x, 0), Stays(x, u, n)
  PROVE  Clears(t, u, n)
<1>1. /\ x.count = 0 /\ x.first = -1 /\ x.bytes = 0 /\ x.table = NoHash
      /\ x.ind - 0 \in Nat /\ (x.ind - 0) % 4 = 0 /\ t.ind + 4 + 0 <= x.ind
      /\ (t.dry => Len(x.pool) = Len(t.pool))
      /\ (~t.dry => x.ind <= t.ind + 0 + 6 + t.bytes)
  BY Zenon DEF Clears
<1>2. /\ u.ind = x.ind + n /\ u.count = x.count /\ u.first = x.first
      /\ u.bytes = x.bytes /\ u.table = x.table /\ Len(u.pool) = Len(x.pool)
  BY Zenon DEF Stays
<1>4. u.ind - n = x.ind - 0 /\ t.ind + 4 + n <= u.ind
  <2>1. t.ind + 4 + 0 <= x.ind /\ u.ind = x.ind + n
    BY <1>1, <1>2, Zenon
  <2> QED
    BY <2>1
<1>5. ~t.dry => u.ind <= t.ind + n + 6 + t.bytes
  <2>1. SUFFICES ASSUME ~t.dry PROVE u.ind <= t.ind + n + 6 + t.bytes
    BY Zenon
  <2>2. x.ind <= t.ind + 0 + 6 + t.bytes /\ u.ind = x.ind + n
    BY <1>1, <1>2, <2>1, Zenon
  <2> QED
    BY <2>2
<1> QED
  BY <1>1, <1>2, <1>4, <1>5, Zenon DEF Clears

(* ot(): the pool if it is due, and the instruction. *)
LEMMA OtMoves ==
  ASSUME Counting,
         NEW t, PassOK(t), NEW n \in {2, 4}, NEW c \in {0} \cup ITLengths
  PROVE  Moves(t, ot(t, n, c), n, c) /\ ot(t, n, c).it = ItAfter(t, c)
<1> DEFINE x == Ready(t, n, c)
           u == ot(t, n, c)
<1>1. n \in Nat /\ n % 2 = 0 /\ c \in Nat /\ n + 12 * c \in Nat
  <2>1. c \in Nat
    BY BlockAssumption
  <2> QED
    BY <2>1
<1>2. /\ Common(t) /\ t.gen = TRUE /\ t.it \in Nat /\ t.ind \in Nat
      /\ t.bytes \in Nat /\ (t.it > 0 <=> t.it # 0)
  <2>1. Common(t) /\ t.gen = TRUE /\ t.it \in Nat /\ t.ind \in Nat /\ t.bytes \in Nat
    BY PassNumbers, Zenon
  <2>2. t.it > 0 <=> t.it # 0
    BY <2>1
  <2> QED
    BY <2>1, <2>2, Zenon
<1>3. Common(u) /\ u.it = ItAfter(t, c)
  BY <1>1, <1>2, OtCommon, Zenon
<1>4. Emitted(x, u, n)
  BY <1>2, OtFields, Zenon
<1>5. OutOfBudget(t, n + 12 * c) <=> Due(t, n + 12 * c)
  BY <1>1, SpanIs, Zenon
<1> HIDE DEF u
<1>6. CASE t.it = 0 /\ Due(t, n + 12 * c)
  <2> DEFINE g == th_literal_pool_generate(t)
  <2>1. x = g
    BY <1>2, <1>5, <1>6, Zenon DEF Ready
  <2>2. t.count # 0
    BY <1>6, Zenon DEF Due
  <2>3. PassOK(g) /\ g.dry = t.dry /\ Clears(t, g, 0)
    BY <2>2, GenerateClears, Zenon
  <2>i. g.ind \in Nat
    BY <2>3, PassNumbers, Zenon
  <2> HIDE DEF x, g
  <2>4. PassOK(u) /\ u.dry = g.dry /\ Stays(g, u, n)
    BY <1>1, <1>3, <1>4, <2>1, <2>3, EmittedStays, Zenon
  <2>5. Clears(t, u, n)
    BY <1>1, <1>2, <2>3, <2>i, <2>4, ClearsThenStays, Zenon
  <2>6. Moves(t, u, n, c)
    BY <1>6, <2>3, <2>4, <2>5, Zenon DEF Moves
  <2> QED
    BY <1>3, <2>6, Zenon DEF u
<1>7. CASE ~(t.it = 0 /\ Due(t, n + 12 * c))
  <2>1. x = t
    BY <1>2, <1>5, <1>7, Zenon DEF Ready
  <2> HIDE DEF x
  <2>2. PassOK(u) /\ u.dry = t.dry /\ Stays(t, u, n)
    BY <1>1, <1>3, <1>4, <2>1, EmittedStays, Zenon
  <2>3. Moves(t, u, n, c)
    BY <1>7, <2>2, Zenon DEF Moves
  <2> QED
    BY <1>3, <2>3, Zenon DEF u
<1> QED
  BY <1>6, <1>7, Zenon

(* Nothing is pending within the last n bytes. *)
Behind(t, n) ==
  n <= t.ind /\ t.first <= t.ind - n /\ (~t.dry => LoadsBehind(t, n))

(* What is pending before an instruction is behind it. *)
LEMMA OtBehind ==
  ASSUME Counting, NEW t, PassOK(t), NEW n \in {2, 4}
  PROVE  Behind(ot(t, n, 0), n)
<1> DEFINE u == ot(t, n, 0)
<1>1. n \in Nat /\ 0 \in Nat /\ 0 \in {0} \cup ITLengths
  OBVIOUS
<1>2. Moves(t, u, n, 0)
  BY <1>1, OtMoves, Zenon
<1>3. Common(t) /\ t.ind \in Nat /\ t.first \in Int /\ t.first <= t.ind
  BY PassNumbers, Zenon
<1>4. n <= u.ind /\ u.dry = t.dry
  BY <1>1, <1>2, <1>3, OtCommon, Zenon DEF Moves
<1>5. ~t.dry => LoadsBehind(u, n)
  BY <1>1, <1>3, OtReal, Zenon DEF PassOK
<1>6. u.ind \in Nat
  BY <1>2, PassNumbers, Zenon DEF Moves
<1> HIDE DEF u
<1>7. u.first <= u.ind - n
  <2>1. CASE Stays(t, u, n)
    <3>1. u.ind = t.ind + n /\ u.first = t.first
      BY <2>1, Zenon DEF Stays
    <3> QED
      BY <1>3, <3>1
  <2>2. CASE Clears(t, u, n)
    <3>1. u.first = -1
      BY <2>2, Zenon DEF Clears
    <3> QED
      BY <1>4, <1>6, <3>1
  <2> QED
    BY <1>2, <2>1, <2>2, Zenon DEF Moves
<1> QED
  BY <1>4, <1>5, <1>7, Zenon DEF Behind, u

(* The cache and the hash find the same keys. *)
LEMMA LookupNone ==
  ASSUME NEW t, PassOK(t), NEW key \in Keys
  PROVE  Lookup(t, key) = None <=> t.table[key] = None
<1>1. Agrees(t)
  BY Zenon DEF PassOK
<1> QED
  BY <1>1, Zenon DEF Lookup, Agrees

(* u is t and a pending literal of `width` bytes, for a load of n bytes. *)
Allocated(t, u, n, width) ==
  /\ PassOK(u) /\ u.dry = t.dry /\ u.ind = t.ind /\ u.it = t.it
  /\ u.count = t.count + 1 /\ u.bytes = t.bytes + width
  /\ u.first = (IF t.count = 0 THEN t.ind - n ELSE t.first)
  /\ Len(u.pool) = Len(t.pool) + 1 /\ u.table = t.table

(* th_literal_pool_allocate for the load that was just emitted. *)
LEMMA AllocateIs ==
  ASSUME Counting, NEW t, PassOK(t), NEW key \in Keys, NEW size \in {4, 8},
         NEW short \in BOOLEAN, Behind(t, LoadSize(short)),
         NEW shared \in 0 .. Len(t.pool), ~t.dry => IsFor(t.pool, shared, key)
  PROVE  Allocated(t, Allocate(t, key, size, short, shared), LoadSize(short),
                   IF shared = None THEN size ELSE 0)
<1> DEFINE u == Allocate(t, key, size, short, shared)
           n == LoadSize(short)
           entry == NewEntry(t, key, size, short, shared)
<1>1. /\ Common(t) /\ Shaped(t) /\ t.gen = TRUE /\ t.ind \in Nat /\ t.ind % 2 = 0
      /\ t.first \in Int /\ t.first >= -1 /\ (t.count = 0 <=> t.first = -1)
      /\ Len(t.pool) \in Nat /\ t.first <= t.ind
  BY PassNumbers, Zenon
<1>2. shared \in Nat /\ n \in Nat /\ n >= 2
  BY <1>1 DEF LoadSize
<1>3. n <= t.ind /\ t.first <= t.ind - n /\ (~t.dry => LoadsBehind(t, n))
  BY Zenon DEF Behind
<1>4. /\ Common(u) /\ SamePass(t, u) /\ u.it = t.it /\ u.ind = t.ind
      /\ Len(u.pool) = Len(t.pool) + 1
  <2>1. Common(t) /\ shared \in Nat /\ LoadSize(short) <= t.ind
    BY <1>1, <1>2, <1>3, Zenon
  <2> QED
    BY <2>1, AllocateCommon, Zenon
<1>5. /\ u.count = t.count + 1
      /\ u.first = (IF t.first < 0 \/ t.ind - n < t.first THEN t.ind - n ELSE t.first)
      /\ u.bytes = t.bytes + Width(entry)
      /\ u.table = t.table /\ u.cache = t.cache
  <2>1. Shaped(t)
    BY <1>1, Zenon
  <2> QED
    BY <2>1, AllocateFields
<1>6. Width(entry) = IF shared = None THEN size ELSE 0
  BY DEF Width, NewEntry
<1>7. ~t.dry => RealOK(u)
  BY <1>1, <1>3, AllocateReal, Zenon DEF PassOK
<1> HIDE DEF u, n, entry
<1>8. t.first < 0 \/ t.ind - n < t.first <=> t.count = 0
  <2>1. t.first < 0 <=> t.count = 0
    BY <1>1
  <2>2. ~(t.ind - n < t.first)
    <3>1. t.ind \in Nat /\ n \in Nat /\ t.first \in Int /\ t.first <= t.ind - n
      BY <1>1, <1>2, <1>3, Zenon
    <3> QED
      BY <3>1
  <2> QED
    BY <2>1, <2>2, Zenon
<1>9. u.first = (IF t.count = 0 THEN t.ind - n ELSE t.first)
  BY <1>5, <1>8, Zenon
<1>10. u.first <= u.ind
  <2>1. /\ t.ind \in Nat /\ n \in Nat /\ t.first \in Int /\ t.first <= t.ind
        /\ u.ind = t.ind
    BY <1>1, <1>2, <1>4, Zenon
  <2> QED
    BY <1>9, <2>1
<1>11. Agrees(u)
  BY <1>5, Zenon DEF PassOK, Agrees
<1>12. PassOK(u)
  BY <1>1, <1>4, <1>7, <1>10, <1>11, Zenon DEF PassOK, SamePass
<1> QED
  BY <1>4, <1>5, <1>6, <1>9, <1>12, Zenon DEF u, n, SamePass, Allocated

(* A literal of its own. *)
LEMMA OwnAdds ==
  ASSUME Counting, NEW t, PassOK(t), NEW key \in Keys, Behind(t, 2)
  PROVE  Adds(t, Allocate(t, key, 4, TRUE, None), 2, 4, {})
<1> DEFINE u == Allocate(t, key, 4, TRUE, None)
<1>1. LoadSize(TRUE) = 2 /\ TRUE \in BOOLEAN /\ 4 \in {4, 8}
  BY DEF LoadSize
<1>2. None \in 0 .. Len(t.pool) /\ IsFor(t.pool, None, key)
  <2>1. Len(t.pool) \in Nat
    BY PassNumbers, Zenon
  <2> QED
    BY <2>1 DEF None, IsFor
<1>3. Allocated(t, u, LoadSize(TRUE), IF None = None THEN 4 ELSE 0)
  BY <1>1, <1>2, AllocateIs, Zenon
<1>4. Allocated(t, u, 2, 4)
  BY <1>1, <1>3, Zenon
<1> HIDE DEF u
<1>5. \A k \in Keys : u.table[k] = None <=> t.table[k] = None /\ k \notin {}
  BY <1>4, Zenon DEF Allocated
<1> QED
  BY <1>4, <1>5, Zenon DEF Adds, Allocated, u

(* th_literal_pool_find_or_allocate: hash and cache go on agreeing. *)
LEMMA FindAgrees ==
  ASSUME NEW v, Common(v), Agrees(v), NEW u, NEW key \in Keys, NEW found, NEW index,
         index # None, found = None <=> v.table[key] = None,
         Recorded(v, u, key, found, index)
  PROVE  /\ Agrees(u)
         /\ \A k \in Keys : u.table[k] = None <=> v.table[k] = None /\ k \notin {key}
<1>1. /\ u.table = [v.table EXCEPT ![key] = IF found = None THEN index ELSE @]
      /\ u.cache = [v.cache EXCEPT ![CacheSlot[key]] = [key |-> key, index |-> index]]
  BY Zenon DEF Recorded
<1>2. /\ v.table \in [Keys -> 0 .. Len(v.pool)]
      /\ v.cache \in [Slots -> CacheLines(Len(v.pool))]
  BY Zenon DEF Common
<1>3. CacheSlot[key] \in Slots
  BY Zenon DEF Slots
<1>4. /\ u.table[key] = (IF found = None THEN index ELSE v.table[key])
      /\ \A k \in Keys : k # key => u.table[k] = v.table[k]
  BY <1>1, <1>2, Zenon
<1>5. u.table[key] # None
  BY <1>4, Zenon
<1>6. \A k \in Keys : u.table[k] = None <=> v.table[k] = None /\ k \notin {key}
  BY <1>4, <1>5, Zenon
<1>7. ASSUME NEW k \in Keys, u.cache[CacheSlot[k]].key = k
      PROVE  u.cache[CacheSlot[k]].index = None <=> u.table[k] = None
  <2>1. CacheSlot[k] \in Slots
    BY Zenon DEF Slots
  <2>2. CASE CacheSlot[k] = CacheSlot[key]
    <3>1. u.cache[CacheSlot[k]] = [key |-> key, index |-> index]
      BY <1>1, <1>2, <1>3, <2>2, Zenon
    <3>2. k = key /\ u.cache[CacheSlot[k]].index = index
      BY <1>7, <3>1
    <3> QED
      BY <1>5, <3>2, Zenon
  <2>3. CASE CacheSlot[k] # CacheSlot[key]
    <3>1. u.cache[CacheSlot[k]] = v.cache[CacheSlot[k]]
      BY <1>1, <1>2, <2>1, <2>3, Zenon
    <3>2. k # key
      BY <2>3, Zenon
    <3> QED
      BY <1>4, <1>7, <3>1, <3>2, Zenon DEF Agrees
  <2> QED
    BY <2>2, <2>3, Zenon
<1> QED
  BY <1>6, <1>7, Zenon DEF Agrees

(* The literal of a key: found, or one more. *)
LEMMA FindAdds ==
  ASSUME Counting, NEW t, PassOK(t), NEW key \in Keys, NEW size \in {4, 8},
         NEW short \in BOOLEAN, Behind(t, LoadSize(short))
  PROVE  Adds(t, FindOrAllocate(t, key, size, short), LoadSize(short),
              IF t.table[key] = None THEN size ELSE 0, {key})
<1> DEFINE found == Lookup(t, key)
           v == Allocate(t, key, size, short, found)
           u == FindOrAllocate(t, key, size, short)
           n == LoadSize(short)
           index == IndexOf(t, key)
<1>1. Common(t) /\ Len(t.pool) \in Nat
  BY PassNumbers, Zenon
<1>2. found \in 0 .. Len(t.pool) /\ (~t.dry => IsFor(t.pool, found, key))
  BY <1>1, LookupIn, LookupFinds, Zenon DEF PassOK
<1>3. found = None <=> t.table[key] = None
  BY LookupNone, Zenon
<1>4. index # None
  BY <1>1, <1>2 DEF IndexOf, None
<1>5. n <= t.ind /\ (~t.dry => LoadsBehind(t, n))
  BY Zenon DEF Behind
<1>6. Recorded(v, u, key, found, index)
  BY <1>1, <1>5, FindFields, Zenon
<1>7. Common(u) /\ SamePass(t, u)
  BY <1>1, <1>5, FindCommon, Zenon
<1>8. ~t.dry => RealOK(u)
  BY <1>1, <1>5, FindReal, Zenon DEF PassOK
<1> HIDE DEF found, u, index
<1>a. Allocated(t, v, n, IF found = None THEN size ELSE 0)
  BY <1>2, AllocateIs, Zenon
<1> HIDE DEF v, n
<1>9. /\ PassOK(v) /\ v.dry = t.dry /\ v.ind = t.ind /\ v.it = t.it
      /\ v.count = t.count + 1
      /\ v.bytes = t.bytes + (IF found = None THEN size ELSE 0)
      /\ v.first = (IF t.count = 0 THEN t.ind - n ELSE t.first)
      /\ Len(v.pool) = Len(t.pool) + 1 /\ v.table = t.table
  BY <1>a, Zenon DEF Allocated
<1>10. /\ u.dry = v.dry /\ u.gen = v.gen /\ u.ind = v.ind /\ u.pool = v.pool
       /\ u.count = v.count /\ u.first = v.first /\ u.bytes = v.bytes /\ u.it = v.it
  BY <1>6, Zenon DEF Recorded
<1>11. Common(v) /\ Agrees(v) /\ v.gen = TRUE /\ v.ind % 2 = 0 /\ v.first <= v.ind
  BY <1>9, Zenon DEF PassOK
<1>12. /\ Agrees(u)
       /\ \A k \in Keys : u.table[k] = None <=> v.table[k] = None /\ k \notin {key}
  <2>1. found = None <=> v.table[key] = None
    BY <1>3, <1>9, Zenon
  <2> QED
    BY <1>4, <1>6, <1>11, <2>1, FindAgrees, Zenon
<1>13. PassOK(u)
  BY <1>7, <1>8, <1>9, <1>10, <1>11, <1>12, Zenon DEF PassOK
<1>14. u.bytes = t.bytes + (IF t.table[key] = None THEN size ELSE 0)
  BY <1>3, <1>9, <1>10, Zenon
<1>15. \A k \in Keys : u.table[k] = None <=> t.table[k] = None /\ k \notin {key}
  BY <1>9, <1>12, Zenon
<1> QED
  BY <1>9, <1>10, <1>13, <1>14, <1>15, Zenon DEF Adds, u, n

(* Code that does not go through ot(). *)
LEMMA AdvanceStays ==
  ASSUME NEW t, PassOK(t), NEW n \in Nat, n % 2 = 0
  PROVE  /\ PassOK(Advance(t, n)) /\ Advance(t, n).dry = t.dry
         /\ Advance(t, n).it = t.it /\ Stays(t, Advance(t, n), n)
<1> DEFINE u == Advance(t, n)
<1>1. Common(t) /\ Shaped(t)
  BY PassNumbers, Zenon
<1>2. Emitted(t, u, n) /\ u.it = t.it
  <2>1. Shaped(t)
    BY <1>1, Zenon
  <2> QED
    BY <2>1, AdvanceFields DEF Emitted
<1>3. Common(u)
  BY <1>1, AdvanceCommon, Zenon
<1> HIDE DEF u
<1>4. PassOK(u) /\ u.dry = t.dry /\ Stays(t, u, n)
  BY <1>2, <1>3, EmittedStays, Zenon
<1> QED
  BY <1>2, <1>4, Zenon DEF u

(* y is x and n bytes that condition nothing. *)
Along(x, y, n) == PassOK(y) /\ y.dry = x.dry /\ y.it = 0 /\ Stays(x, y, n)

(* Bytes behind bytes. *)
LEMMA AlongStays ==
  ASSUME NEW x, NEW y, NEW z, NEW m \in Nat, NEW n \in Nat, x.ind \in Nat,
         Along(x, y, m), PassOK(z), z.dry = y.dry, z.it = 0, Stays(y, z, n)
  PROVE  Along(x, z, m + n)
<1>1. /\ y.ind = x.ind + m /\ y.count = x.count /\ y.first = x.first
      /\ y.bytes = x.bytes /\ y.table = x.table /\ Len(y.pool) = Len(x.pool)
      /\ y.dry = x.dry
  BY Zenon DEF Along, Stays
<1>2. /\ z.ind = y.ind + n /\ z.count = y.count /\ z.first = y.first
      /\ z.bytes = y.bytes /\ z.table = y.table /\ Len(z.pool) = Len(y.pool)
  BY Zenon DEF Stays
<1>3. z.ind = x.ind + (m + n)
  <2>1. y.ind = x.ind + m /\ z.ind = y.ind + n
    BY <1>1, <1>2, Zenon
  <2> QED
    BY <2>1
<1> QED
  BY <1>1, <1>2, <1>3, Zenon DEF Along, Stays

(* Within the bytes that were reserved nothing is due. *)
LEMMA ReservedStays ==
  ASSUME Counting,
         NEW x, PassOK(x), NEW total \in Nat, ~Due(x, total), NEW m \in Nat, NEW y,
         Along(x, y, m), NEW n \in {2, 4}, m + n <= total
  PROVE  Along(x, ot(y, n, 0), m + n)
<1> DEFINE z == ot(y, n, 0)
<1>1. PassOK(y) /\ y.dry = x.dry /\ y.it = 0 /\ Stays(x, y, m)
  BY Zenon DEF Along
<1>2. 0 \in {0} \cup ITLengths /\ n \in Nat
  OBVIOUS
<1>3. Moves(y, z, n, 0) /\ z.it = ItAfter(y, 0)
  BY <1>1, <1>2, OtMoves, Zenon
<1>4. /\ x.ind \in Nat /\ x.bytes \in Nat /\ x.first \in Int /\ y.gen = TRUE
      /\ x.count \in Nat
  BY <1>1, PassNumbers, Zenon
<1>5. z.it = 0
  <2>1. ~(y.it > 0)
    BY <1>1
  <2> QED
    BY <1>3, <1>4, <2>1, Zenon DEF ItAfter
<1>6. ~Due(y, n + 12 * 0)
  <2>1. SUFFICES ASSUME Due(y, n + 12 * 0) PROVE FALSE
    BY <2>1, Zenon
  <2>2. /\ y.count # 0 /\ (y.ind - y.first) + (n + 12 * 0) + 6 + y.bytes
             >= RangeLimit - FlushSlack
    BY <2>1, Zenon DEF Due
  <2>3. y.ind = x.ind + m /\ y.count = x.count /\ y.first = x.first /\ y.bytes = x.bytes
    BY <1>1, Zenon DEF Stays
  <2>4. (x.ind - x.first) + total + 6 + x.bytes >= RangeLimit - FlushSlack
    <3>1. /\ x.ind \in Nat /\ x.bytes \in Nat /\ x.first \in Int
          /\ (y.ind - y.first) + (n + 12 * 0) + 6 + y.bytes >= RangeLimit - FlushSlack
          /\ y.ind = x.ind + m /\ y.first = x.first /\ y.bytes = x.bytes
      BY <1>4, <2>2, <2>3, Zenon
    <3> QED
      BY <1>2, <3>1, ReachAssumption
  <2> QED
    BY <2>2, <2>3, <2>4, Zenon DEF Due
<1>7. PassOK(z) /\ z.dry = y.dry /\ Stays(y, z, n)
  BY <1>3, <1>6, Zenon DEF Moves
<1> HIDE DEF z
<1>8. Along(x, z, m + n)
  BY <1>2, <1>4, <1>5, <1>7, AlongStays, Zenon
<1> QED
  BY <1>8, Zenon DEF z

(* A switch table in either pass: the dispatch and the table behind it. *)
LEMMA TableMoves ==
  ASSUME Counting, NEW t, PassOK(t), t.it = 0, NEW e \in Nat
  PROVE  /\ Moves(t, switch_table(t, e, FALSE), 14 + 4 * e, 0)
         /\ switch_table(t, e, FALSE).it = 0
<1> DEFINE total == 14 + 4 * e
           x == th_literal_pool_reserve_upcoming_bytes(t, total)
           u == switch_table(t, e, FALSE)
<1>1. total \in Nat /\ total % 2 = 0 /\ 14 <= total /\ 4 * e \in Nat /\ (4 * e) % 2 = 0
  OBVIOUS
<1>2. t.gen = TRUE /\ t.ind \in Nat /\ t.bytes \in Nat
  BY PassNumbers, Zenon
<1>3. OutOfBudget(t, total) <=> Due(t, total)
  BY <1>1, SpanIs, Zenon
<1>4. x = IF Due(t, total) THEN th_literal_pool_generate(t) ELSE t
  BY <1>2, <1>3, Zenon
     DEF th_literal_pool_reserve_upcoming_bytes, th_literal_pool_would_flush_for
<1>5. u = IF t.dry THEN Advance(x, total) ELSE SwitchTableMop(x, e, FALSE)
  BY Zenon DEF switch_table, SwitchTableSize
<1>n. total + 12 * 0 = total
  BY <1>1
<1> HIDE DEF total, x, u
<1>6. PassOK(x) /\ x.dry = t.dry /\ x.it = 0 /\ ~Due(x, total)
      /\ IF Due(t, total) THEN Clears(t, x, 0) ELSE x = t
  <2>1. CASE Due(t, total)
    <3>1. t.count # 0
      BY <2>1, Zenon DEF Due
    <3>2. PassOK(x) /\ x.dry = t.dry /\ x.it = t.it /\ Clears(t, x, 0)
      BY <1>4, <2>1, <3>1, GenerateClears, Zenon
    <3>3. ~Due(x, total)
      BY <3>2, Zenon DEF Clears, Due
    <3> QED
      BY <2>1, <3>2, <3>3, Zenon
  <2>2. CASE ~Due(t, total)
    BY <1>4, <2>2, Zenon
  <2> QED
    BY <2>1, <2>2, Zenon
<1>7. x.ind \in Nat
  BY <1>6, PassNumbers, Zenon
<1>8. Along(x, u, total)
  <2>1. CASE t.dry
    BY <1>1, <1>5, <1>6, <2>1, AdvanceStays, Zenon DEF Along
  <2>2. CASE ~t.dry
    <3>1. Along(x, x, 0)
      <4>1. x.ind = x.ind + 0
        BY <1>7
      <4> QED
        BY <1>6, <4>1, Zenon DEF Along, Stays
    <3> DEFINE x1 == ot(x, 4, 0)
               x2 == ot(x1, 2, 0)
               x3 == ot(x2, 4, 0)
               x4 == ot(x3, 2, 0)
               x5 == ot(x4, 2, 0)
    <3>2. u = Advance(x5, 4 * e)
      BY <1>5, <2>2, Zenon DEF SwitchTableMop, ot_pair
    <3>3. /\ 0 + 4 = 4 /\ 4 + 2 = 6 /\ 6 + 4 = 10 /\ 10 + 2 = 12 /\ 12 + 2 = 14
          /\ 4 <= total /\ 6 <= total /\ 10 <= total /\ 12 <= total /\ 14 <= total
          /\ 0 \in Nat /\ 4 \in Nat /\ 6 \in Nat /\ 10 \in Nat /\ 12 \in Nat
          /\ 14 \in Nat /\ 2 \in {2, 4} /\ 4 \in {2, 4}
      BY <1>1
    <3> HIDE DEF x1, x2, x3, x4, x5
    <3>4. Along(x, x1, 4)
      BY <1>1, <1>6, <3>1, <3>3, ReservedStays, Zenon DEF x1
    <3>5. Along(x, x2, 6)
      BY <1>1, <1>6, <3>3, <3>4, ReservedStays, Zenon DEF x2
    <3>6. Along(x, x3, 10)
      BY <1>1, <1>6, <3>3, <3>5, ReservedStays, Zenon DEF x3
    <3>7. Along(x, x4, 12)
      BY <1>1, <1>6, <3>3, <3>6, ReservedStays, Zenon DEF x4
    <3>8. Along(x, x5, 14)
      BY <1>1, <1>6, <3>3, <3>7, ReservedStays, Zenon DEF x5
    <3>9. PassOK(x5) /\ x5.it = 0
      BY <3>8, Zenon DEF Along
    <3>10. PassOK(u) /\ u.dry = x5.dry /\ u.it = 0 /\ Stays(x5, u, 4 * e)
      BY <1>1, <3>2, <3>9, AdvanceStays, Zenon
    <3>11. Along(x, u, 14 + 4 * e)
      BY <1>1, <1>7, <3>3, <3>8, <3>10, AlongStays, Zenon
    <3> QED
      BY <3>11, Zenon DEF total
  <2> QED
    BY <2>1, <2>2, Zenon
<1>9. PassOK(u) /\ u.dry = t.dry /\ u.it = 0 /\ Stays(x, u, total)
  BY <1>6, <1>8, Zenon DEF Along
<1>10. IF Due(t, total) THEN Clears(t, u, total) ELSE Stays(t, u, total)
  BY <1>1, <1>2, <1>6, <1>7, <1>9, ClearsThenStays, Zenon
<1>11. Moves(t, u, total, 0)
  BY <1>n, <1>9, <1>10, Zenon DEF Moves
<1> QED
  BY <1>9, <1>11, Zenon DEF u, total

(* A pass that has emitted nothing. *)
LEMMA FreshPass ==
  ASSUME Counting,
         NEW t, Shaped(t), t.dry \in BOOLEAN, t.gen = TRUE, t.ind \in Nat,
         t.ind % 2 = 0, t.it = 0, t.pool = <<>>, t.count = 0, t.first = -1, t.bytes = 0,
         t.table = NoHash, t.cache = NoCache, t.counted = 0, t.countedBytes = 0,
         t.out = NoOut
  PROVE  PassOK(t)
<1>1. t.gen \in BOOLEAN /\ t.it \in Nat /\ t.first <= t.ind
  <2>1. 0 \in Nat /\ \A x \in Nat : -1 <= x
    OBVIOUS
  <2> QED
    BY <2>1, Zenon
<1>2. Common(t)
  BY <1>1, NewCommon, Zenon
<1>3. Reads(t.out)
  BY NoOutReads, Zenon
<1>4. ~t.dry => RealOK(t)
  BY <1>3, EmptyReal, Zenon
<1>5. Agrees(t)
  BY Forgotten, Zenon DEF Agrees
<1> QED
  BY <1>1, <1>2, <1>4, <1>5, Zenon DEF PassOK

(* Without pending literals no bytes are pending. *)
LEMMA NoneNoBytes ==
  ASSUME Counting, NEW t, PassOK(t), ~t.dry, t.count = 0
  PROVE  t.bytes = 0
<1>1. Common(t) /\ RealOK(t)
  BY Zenon DEF PassOK
<1>2. Len(t.pool) = 0 /\ t.bytes = Sums(t.pool)[Len(t.pool)]
  BY <1>1, Zenon DEF RealOK
<1>3. t.pool \in Seq(AnyEntries)
  BY <1>1, CommonNumbers, Zenon
<1>4. Sums(t.pool)[0] = 0
  BY <1>3, AnySized, SumsStep, Zenon
<1> QED
  BY <1>2, <1>4, Zenon

(* An instruction moves the rehearsal by its bytes or more. *)
LEMMA DryOt ==
  ASSUME Counting, NEW d, PassOK(d), d.dry = TRUE, d.it = 0, NEW n \in {2, 4}
  PROVE  /\ PassOK(ot(d, n, 0)) /\ ot(d, n, 0).dry = TRUE /\ ot(d, n, 0).it = 0
         /\ Len(ot(d, n, 0).pool) = Len(d.pool) /\ ot(d, n, 0).ind >= d.ind + n
<1> DEFINE u == ot(d, n, 0)
<1>1. 0 \in {0} \cup ITLengths /\ ~(0 > 0) /\ n \in Nat
  OBVIOUS
<1>2. Moves(d, u, n, 0) /\ u.it = ItAfter(d, 0)
  BY <1>1, OtMoves, Zenon
<1>3. d.gen = TRUE /\ d.ind \in Nat
  BY PassNumbers, Zenon
<1> HIDE DEF u
<1>4. PassOK(u) /\ u.dry = TRUE /\ (Clears(d, u, n) \/ Stays(d, u, n))
  BY <1>2, Zenon DEF Moves
<1>5. u.it = 0
  BY <1>1, <1>2, <1>3, Zenon DEF ItAfter
<1>6. Len(u.pool) = Len(d.pool) /\ (u.ind = d.ind + n \/ d.ind + 4 + n <= u.ind)
  BY <1>4, Zenon DEF Clears, Stays
<1>7. u.ind \in Nat
  BY <1>4, PassNumbers, Zenon
<1>8. u.ind >= d.ind + n
  <2>1. u.ind = d.ind + n \/ d.ind + 4 + n <= u.ind
    BY <1>6, Zenon
  <2> QED
    BY <1>1, <1>3, <1>7, <2>1
<1> QED
  BY <1>4, <1>5, <1>6, <1>8, Zenon DEF u

(* A narrow instruction before which no pool is due. *)
LEMMA RealNarrow ==
  ASSUME Counting,
         NEW r, PassOK(r), r.it = 0, ~th_literal_pool_would_flush_for(r, 2)
  PROVE  /\ PassOK(ot(r, 2, 0)) /\ ot(r, 2, 0).dry = r.dry /\ ot(r, 2, 0).it = 0
         /\ Stays(r, ot(r, 2, 0), 2)
<1> DEFINE u == ot(r, 2, 0)
<1>1. 2 \in {2, 4} /\ 0 \in {0} \cup ITLengths /\ ~(0 > 0) /\ 2 \in Nat /\ 2 + 12 * 0 = 2
  OBVIOUS
<1>2. Moves(r, u, 2, 0) /\ u.it = ItAfter(r, 0)
  BY <1>1, OtMoves, Zenon
<1>3. r.gen = TRUE
  BY PassNumbers, Zenon
<1>4. ~Due(r, 2)
  <2>1. ~OutOfBudget(r, 2)
    BY <1>3, Zenon DEF th_literal_pool_would_flush_for
  <2> QED
    BY <1>1, <2>1, SpanIs, Zenon
<1> HIDE DEF u
<1>5. PassOK(u) /\ u.dry = r.dry /\ Stays(r, u, 2)
  BY <1>1, <1>2, <1>4, Zenon DEF Moves
<1>6. u.it = 0
  BY <1>1, <1>2, <1>3, Zenon DEF ItAfter
<1> QED
  BY <1>5, <1>6, Zenon DEF u

-----------------------------------------------------------------------------
(* Two passes that take the same operations. *)

Together(d, r) ==
  PassOK(d) /\ PassOK(r) /\ d.dry = TRUE /\ r.dry = FALSE /\ d.it = r.it

(* Neither has left out what the other has: the same is pending in both,   *)
(* at the same distance, and the same literals are found.                  *)
Same(d, r) ==
  /\ d.count = r.count /\ d.bytes = r.bytes /\ d.ind % 4 = r.ind % 4
  /\ d.count # 0 => d.ind - d.first = r.ind - r.first
  /\ \A k \in Keys : d.table[k] = None <=> r.table[k] = None

(* The same bytes keep addresses apart, or together, modulo a word. *)
LEMMA SameParity ==
  ASSUME NEW x \in Nat, NEW y \in Nat, NEW n \in Nat
  PROVE  x % 4 = y % 4 <=> (x + n) % 4 = (y + n) % 4
OBVIOUS

(* Addresses as far behind a word. *)
LEMMA WordParity ==
  ASSUME NEW x \in Nat, NEW y \in Nat, NEW n \in Nat,
         x - n \in Nat, y - n \in Nat, (x - n) % 4 = 0, (y - n) % 4 = 0
  PROVE  x % 4 = y % 4
<1>1. ((x - n) + n) % 4 = ((y - n) + n) % 4
  OBVIOUS
<1>2. x = (x - n) + n /\ y = (y - n) + n
  OBVIOUS
<1> QED
  BY <1>1, <1>2

(* ot() finds the same pool due in both passes. *)
LEMMA SameDue ==
  ASSUME NEW d, NEW r, Same(d, r), NEW upcoming
  PROVE  Due(d, upcoming) <=> Due(r, upcoming)
<1>1. /\ d.count = r.count /\ d.bytes = r.bytes
      /\ (d.count # 0 => d.ind - d.first = r.ind - r.first)
  BY Zenon DEF Same
<1>2. CASE d.count = 0
  BY <1>1, <1>2, Zenon DEF Due
<1>3. CASE d.count # 0
  <2>1. d.ind - d.first = r.ind - r.first
    BY <1>1, <1>3, Zenon
  <2>2. (d.ind - d.first) + upcoming + 6 + d.bytes
          = (r.ind - r.first) + upcoming + 6 + r.bytes
    BY <1>1, <2>1, Zenon
  <2> QED
    BY <1>1, <1>3, <2>2, Zenon DEF Due
<1> QED
  BY <1>2, <1>3, Zenon

(* So do the same bytes. *)
LEMMA SameStays ==
  ASSUME NEW d, NEW r, NEW d2, NEW r2, NEW n \in Nat, Together(d, r), Same(d, r),
         Stays(d, d2, n), Stays(r, r2, n)
  PROVE  Same(d2, r2)
<1>1. d.ind \in Nat /\ r.ind \in Nat /\ d.first \in Int /\ r.first \in Int
  BY PassNumbers, Zenon DEF Together
<1>2. /\ d2.ind = d.ind + n /\ r2.ind = r.ind + n
      /\ d2.count = d.count /\ r2.count = r.count
      /\ d2.first = d.first /\ r2.first = r.first
      /\ d2.bytes = d.bytes /\ r2.bytes = r.bytes
      /\ d2.table = d.table /\ r2.table = r.table
  BY Zenon DEF Stays
<1>3. d2.ind % 4 = r2.ind % 4
  <2>1. d.ind % 4 = r.ind % 4
    BY Zenon DEF Same
  <2>2. (d.ind + n) % 4 = (r.ind + n) % 4
    BY <1>1, <2>1
  <2> QED
    BY <1>2, <2>2, Zenon
<1>4. d2.count # 0 => d2.ind - d2.first = r2.ind - r2.first
  <2>1. SUFFICES ASSUME d2.count # 0 PROVE d2.ind - d2.first = r2.ind - r2.first
    BY Zenon
  <2>2. d.ind - d.first = r.ind - r.first
    BY <1>2, <2>1, Zenon DEF Same
  <2>3. /\ d2.ind = d.ind + n /\ r2.ind = r.ind + n
        /\ d2.first = d.first /\ r2.first = r.first
    BY <1>2, Zenon
  <2> QED
    BY <1>1, <2>2, <2>3
<1> QED
  BY <1>2, <1>3, <1>4, Zenon DEF Same

(* The same code keeps them the same. *)
LEMMA SameMoves ==
  ASSUME NEW d, NEW r, NEW d2, NEW r2, NEW n \in Nat, NEW c,
         Together(d, r), Same(d, r), Moves(d, d2, n, c), Moves(r, r2, n, c)
  PROVE  Same(d2, r2)
<1>1. PassOK(d) /\ PassOK(r) /\ d.it = r.it
  BY Zenon DEF Together
<1>2. PassOK(d2) /\ PassOK(r2)
  BY Zenon DEF Moves
<1>3. d.ind \in Nat /\ r.ind \in Nat /\ d.first \in Int /\ r.first \in Int
  BY <1>1, PassNumbers, Zenon
<1>4. d2.ind \in Nat /\ r2.ind \in Nat
  BY <1>2, PassNumbers, Zenon
<1>5. Due(d, n + 12 * c) <=> Due(r, n + 12 * c)
  BY SameDue, Zenon
<1>6. \/ Clears(d, d2, n) /\ Clears(r, r2, n)
      \/ Stays(d, d2, n) /\ Stays(r, r2, n)
  BY <1>1, <1>5, Zenon DEF Moves
<1>7. CASE Clears(d, d2, n) /\ Clears(r, r2, n)
  <2>1. /\ d2.count = 0 /\ r2.count = 0 /\ d2.bytes = 0 /\ r2.bytes = 0
        /\ d2.table = NoHash /\ r2.table = NoHash
        /\ d2.ind - n \in Nat /\ (d2.ind - n) % 4 = 0
        /\ r2.ind - n \in Nat /\ (r2.ind - n) % 4 = 0
    BY <1>7, Zenon DEF Clears
  <2>2. d2.ind % 4 = r2.ind % 4
    BY <1>4, <2>1, WordParity, Zenon
  <2> QED
    BY <2>1, <2>2, Zenon DEF Same
<1>8. CASE Stays(d, d2, n) /\ Stays(r, r2, n)
  BY <1>8, SameStays, Zenon
<1> QED
  BY <1>6, <1>7, <1>8, Zenon

(* The same literal keeps them the same. *)
LEMMA SameAdds ==
  ASSUME NEW d, NEW r, NEW d2, NEW r2, NEW n \in Nat, NEW width, NEW known,
         Together(d, r), Same(d, r),
         Adds(d, d2, n, width, known), Adds(r, r2, n, width, known)
  PROVE  Same(d2, r2)
<1>1. /\ d2.ind = d.ind /\ r2.ind = r.ind
      /\ d2.count = d.count + 1 /\ r2.count = r.count + 1
      /\ d2.bytes = d.bytes + width /\ r2.bytes = r.bytes + width
      /\ d2.first = (IF d.count = 0 THEN d.ind - n ELSE d.first)
      /\ r2.first = (IF r.count = 0 THEN r.ind - n ELSE r.first)
  BY Zenon DEF Adds
<1>2. d.ind \in Nat /\ r.ind \in Nat
  BY PassNumbers, Zenon DEF Together
<1>3. /\ d.count = r.count /\ d.bytes = r.bytes /\ d.ind % 4 = r.ind % 4
      /\ (d.count # 0 => d.ind - d.first = r.ind - r.first)
  BY Zenon DEF Same
<1>4. d2.ind - d2.first = r2.ind - r2.first
  <2>1. CASE d.count = 0
    <3>1. /\ d2.ind = d.ind /\ r2.ind = r.ind
          /\ d2.first = d.ind - n /\ r2.first = r.ind - n
      BY <1>1, <1>3, <2>1, Zenon
    <3> QED
      BY <1>2, <3>1
  <2>2. CASE d.count # 0
    BY <1>1, <1>3, <2>2, Zenon
  <2> QED
    BY <2>1, <2>2, Zenon
<1>5. \A k \in Keys : d2.table[k] = None <=> r2.table[k] = None
  BY Zenon DEF Adds, Same
<1> QED
  BY <1>1, <1>3, <1>4, <1>5, Zenon DEF Same

-----------------------------------------------------------------------------
(* Operations in a row. *)

(* What holds of 0, and of every number up to n behind one it holds of,    *)
(* holds of n.                                                             *)
LEMMA StepByStep ==
  ASSUME Counting,
         NEW n \in Nat, NEW G, 0 \in G, \A i \in 1 .. n : i - 1 \in G => i \in G
  PROVE  n \in G
<1> DEFINE T == {k \in 0 .. n : k \notin G}
<1>1. SUFFICES ASSUME T # {} PROVE FALSE
  <2>1. n \in 0 .. n
    OBVIOUS
  <2> QED
    BY <1>1, <2>1, Zenon
<1>2. T \subseteq Nat
  OBVIOUS
<1>3. PICK m \in T : \A k \in T : m <= k
  <2> HIDE DEF T
  <2> QED
    BY <1>1, <1>2, LeastOf, Zenon
<1>4. m \in 0 .. n /\ m \notin G
  BY <1>3, Zenon
<1>5. m # 0
  BY <1>4, Zenon
<1>6. m \in 1 .. n /\ m - 1 \in 0 .. n /\ ~(m <= m - 1)
  BY <1>4, <1>5
<1>7. m - 1 \in G
  BY <1>3, <1>6, Zenon
<1> QED
  BY <1>4, <1>6, <1>7, Zenon
=============================================================================
