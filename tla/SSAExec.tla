------------------------------ MODULE SSAExec -------------------------------
(***************************************************************************)
(* What a program in SSA form means.  val holds the value of every name     *)
(* that is live where control is; taking an edge gives each phi of the      *)
(* block entered the value of its operand for that edge, all at once.       *)
(***************************************************************************)
EXTENDS FlatIR

VARIABLES prog, at, val,
          seen, \* the value that the last use has read
          tick  \* changes with every step, so that a jump to itself is a step

vars == <<prog, at, val, seen, tick>>

Init ==
    /\ at = 0
    /\ val \in [Live(prog, 0) -> Int]
    /\ seen = None
    /\ tick = 0

Goes(q) ==
    CASE q.op = "jump" -> q.to[1]
      [] q.op = "jumpif" -> IF val[Flag] = q.x THEN q.to[1] ELSE at + 1
      [] q.op = "switch" -> q.to[val[q.x] + 1]
      [] q.op = "return" -> Size(prog.code)
      [] OTHER -> at + 1

\* One instruction and the edge after it.  A value that the instruction
\* defines, or that no operand gives, may be anything.
Step ==
    LET q == prog.code[at]
        Origin(v) == ValueFrom(prog, at, at', v)
    IN  /\ at < Size(prog.code)
        /\ at' = Goes(q)
        /\ val' \in [Live(prog, at') -> Int]
        /\ \A v \in DOMAIN val' :
              Origin(v) \in DOMAIN val \ Defs(q) => val'[v] = val[Origin(v)]
        /\ \A u, v \in DOMAIN val' :
              Origin(u) = Origin(v) /\ Origin(u) # None => val'[u] = val'[v]
        /\ seen' = IF q.op = "use" THEN val[q.x] ELSE seen
        /\ tick' = 1 - tick
        /\ UNCHANGED prog

Spec == Init /\ [][Step]_vars
=============================================================================
