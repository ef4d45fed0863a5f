------------------------------- MODULE FlatIR -------------------------------
(***************************************************************************)
(* Flat IR with its control flow graph and phis, as operators.  A program   *)
(* has code, a function from 0 .. n-1 to instructions [op, x, to], leaders, *)
(* the first instructions of its blocks, phis, a function from blocks to    *)
(* sequences of phis, and live, the pairs of LivePairs.  A block is named   *)
(* by its leader; the target n is the end of the function.                  *)
(*                                                                         *)
(*   def x     gives x a new value          pick x   makes x a table index  *)
(*   cmp       sets the condition flags     use x    reads x                *)
(*   jump, jumpif (taken when the flags equal x), switch x, return          *)
(***************************************************************************)
EXTENDS Integers, Sequences, FiniteSets, FiniteSetsExt, SequencesExt

\* The condition flags, as one more name that instructions define and use.
Flag == -1

\* No register: IROP_NONE, and the vreg of a phi operand that is not there.
None == -2

Size(code) == Cardinality(DOMAIN code)

Terminators == {"jump", "jumpif", "switch", "return"}

\* The instructions that begin a block (tcc_ir_cfg_build).
Leaders(code) ==
    {0} \cup {t \in DOMAIN code : \E i \in DOMAIN code :
                  t \in Range(code[i].to) \/ (t = i + 1 /\ code[i].op \in Terminators)}

\* instr_to_block
BlockOf(p, i) == Max({b \in p.leaders : b <= i})

\* The instruction after a block: end_idx.
EndOf(p, b) == Min({c \in p.leaders : c > b} \cup {Size(p.code)})

\* Where control may go after instruction i, a target as often as it is named.
Edges(p, i) ==
    CASE p.code[i].op = "jumpif" -> Append(p.code[i].to, i + 1)
      [] p.code[i].op = "return" -> <<Size(p.code)>>
      [] p.code[i].op \in {"jump", "switch"} -> p.code[i].to
      [] OTHER -> <<i + 1>>

\* seqs[b] for the blocks b of the function in order, one after the other.
ForBlocks(p, seqs) ==
    FlattenSeq([k \in 1 .. Size(p.code) |-> IF k - 1 \in p.leaders THEN seqs[k - 1] ELSE <<>>])

\* preds of block b: one entry for every edge, so a block that reaches b by
\* several edges is there several times (cfg_build_edges).
Preds(p, b) ==
    LET From(c) == [e \in DOMAIN SelectSeq(Edges(p, EndOf(p, c) - 1), LAMBDA t : t = b) |-> c]
    IN  ForBlocks(p, [c \in p.leaders |-> From(c)])

\* A phi of block b as SSA construction leaves it: one operand for each entry
\* of preds; of several entries for one predecessor only the first is filled.
Phi(p, b, dest, vregs) ==
    LET preds == Preds(p, b)
    IN  [dest |-> dest,
         ops |-> [k \in DOMAIN preds |->
                     [pred |-> preds[k],
                      vreg |-> IF \E j \in 1 .. k - 1 : preds[j] = preds[k]
                               THEN None ELSE vregs[preds[k]]]]]

PhisOf(p, b) == IF b \in DOMAIN p.phis THEN p.phis[b] ELSE <<>>

PhiDests(p, b) == {phi.dest : phi \in Range(PhisOf(p, b))}

\* The name whose value v has in block b when it is entered from block a.
Incoming(p, a, b, v) ==
    IF v \in PhiDests(p, b)
    THEN LET phi == CHOOSE f \in Range(PhisOf(p, b)) : f.dest = v
             ops == {o \in Range(phi.ops) : o.pred = a /\ o.vreg # None}
         IN  IF ops = {} THEN None ELSE (CHOOSE o \in ops : TRUE).vreg
    ELSE v

\* The same for the step from instruction i to instruction j.
ValueFrom(p, i, j, v) ==
    IF j \in p.leaders THEN Incoming(p, BlockOf(p, i), j, v) ELSE v

Uses(q) ==
    CASE q.op \in {"use", "switch"} -> {q.x}
      [] q.op = "jumpif" -> {Flag}
      [] OTHER -> {}

Defs(q) ==
    CASE q.op \in {"def", "pick"} -> {q.x}
      [] q.op = "cmp" -> {Flag}
      [] OTHER -> {}

Names(p) ==
    {Flag} \cup {p.code[i].x : i \in DOMAIN p.code}
           \cup UNION {PhiDests(p, b) \cup {o.vreg : o \in UNION {Range(f.ops) : f \in Range(PhisOf(p, b))}}
                          : b \in DOMAIN p.phis}

\* The pairs <<i, v>> such that v is live before instruction i: some path from
\* i reads v before anything defines it.
LivePairs(p) ==
    LET After(i, later) ==
            {ValueFrom(p, i, l[1], l[2]) : l \in {m \in later : m[1] \in Range(Edges(p, i))}}
        Reach[k \in 0 .. Size(p.code)] ==
            IF k = 0 THEN {}
            ELSE LET later == Reach[k - 1]
                 IN  UNION {{i} \X (Uses(p.code[i]) \cup (After(i, later) \ (Defs(p.code[i]) \cup {None})))
                               : i \in DOMAIN p.code}
    IN  Reach[Size(p.code)]

Live(p, i) == {pair[2] : pair \in {l \in p.live : l[1] = i}}
=============================================================================
