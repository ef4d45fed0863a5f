---------------------------- MODULE MCPhiResolve ----------------------------
(* Small functions: their code, and phis with every choice of operands.      *)
EXTENDS PhiResolve

Ins(op, x) == [op |-> op, x |-> x, to |-> <<>>]

To(op, x, to) == [op |-> op, x |-> x, to |-> to]

\* phis: a function from blocks to sequences of <<dest, operand for each pred>>
Function(list, phis) ==
    LET c == [i \in 0 .. Len(list) - 1 |-> list[i + 1]]
        g == [code |-> c, leaders |-> Leaders(c)]
        p == [b \in DOMAIN phis |-> [k \in DOMAIN phis[b] |-> Phi(g, b, phis[b][k][1], phis[b][k][2])]]
        q == [code |-> c, leaders |-> g.leaders, phis |-> p]
    IN  [code |-> c, leaders |-> g.leaders, phis |-> p, live |-> LivePairs(q)]

\* A loop tested at its end, three values carried round it; all are read after
\* it, so a copy for the next round must not be made when the loop is left.
Rotated ==
    {Function(<<Ins("def", 0), Ins("def", 1), Ins("def", 2),
                Ins("def", 6), Ins("use", 3), Ins("use", 4), Ins("use", 5),
                Ins("cmp", None), To("jumpif", 1, <<3>>),
                Ins("use", 3), Ins("use", 4), Ins("use", 5), Ins("return", None)>>,
              3 :> <<<<3, 0 :> 0 @@ 3 :> x>>, <<4, 0 :> 1 @@ 3 :> y>>, <<5, 0 :> 2 @@ 3 :> z>>>>) :
        x, y, z \in {3, 4, 5, 6}}

\* A loop tested at its head with a second way out; values meet at the exit.
Headed ==
    {Function(<<Ins("def", 0), Ins("def", 1),
                Ins("cmp", None), To("jumpif", 1, <<9>>),
                Ins("def", 6), Ins("cmp", None), To("jumpif", 0, <<9>>),
                Ins("use", 3), To("jump", None, <<2>>),
                Ins("use", 7), Ins("use", 8)>>,
              2 :> <<<<3, 0 :> 0 @@ 7 :> x>>, <<4, 0 :> 1 @@ 7 :> y>>>>
              @@ 9 :> <<<<7, 2 :> 3 @@ 4 :> z>>, <<8, 2 :> 4 @@ 4 :> 3>>>>) :
        x, y, z \in {3, 4, 6}}

\* A guarded loop: both edges of both conditional jumps carry copies.
Guarded ==
    {Function(<<Ins("def", 0), Ins("def", 1), Ins("cmp", None), To("jumpif", 1, <<8>>),
                Ins("def", 6), Ins("use", 3), Ins("cmp", None), To("jumpif", 1, <<4>>),
                Ins("use", 7), Ins("use", 8), Ins("return", None)>>,
              4 :> <<<<3, 0 :> 0 @@ 4 :> x>>, <<4, 0 :> 1 @@ 4 :> y>>>>
              @@ 8 :> <<<<7, 0 :> 1 @@ 4 :> z>>, <<8, 0 :> 0 @@ 4 :> 4>>>>) :
        x, y, z \in {3, 4, 6}}

\* A switch with an empty case and two entries for the code after it, then a
\* jump to the end of the function.
Cases ==
    {Function(<<Ins("pick", 0), Ins("def", 1), To("switch", 0, <<3, 5, 6, 6>>),
                Ins("def", 2), To("jump", None, <<6>>),
                To("jump", None, <<6>>),
                Ins("use", 3), Ins("use", 4), Ins("cmp", None), To("jumpif", 1, <<11>>),
                Ins("use", 1)>>,
              6 :> <<<<3, 0 :> x @@ 3 :> 2 @@ 5 :> y>>, <<4, 0 :> 1 @@ 3 :> z @@ 5 :> 0>>>>) :
        x, y \in {0, 1}, z \in {1, 2}}

\* A function whose first jump leaves it, with copies on the other edge only;
\* the loop's own jump goes to the instruction after it as well as back.
Leaving ==
    {Function(<<Ins("def", 0), Ins("cmp", None), To("jumpif", 1, <<9>>),
                Ins("def", 2), Ins("use", 1), Ins("cmp", None), To("jumpif", 0, <<3>>),
                To("jumpif", 1, <<8>>), Ins("use", 3)>>,
              3 :> <<<<1, 0 :> 0 @@ 3 :> x>>>> @@ 8 :> <<<<3, 7 :> y>>>>) :
        x \in {1, 2}, y \in {1, 2}}

\* A conditional jump to the next instruction: both edges carry the copies.
Joining ==
    {Function(<<Ins("def", 0), Ins("cmp", None), To("jumpif", 1, <<3>>),
                Ins("use", 1), Ins("return", None)>>,
              3 :> <<<<1, 0 :> 0>>>>)}

MCPrograms == Rotated \cup Headed \cup Guarded \cup Cases \cup Leaving \cup Joining

\* A state machine written as a switch inside a loop: one entry of the table
\* leads back to the head of the loop, the other reads the head's phi.
Dispatch ==
    {Function(<<Ins("def", 0), To("jump", None, <<2>>),
                Ins("def", 2), Ins("pick", 3), To("switch", 3, <<2, 5>>),
                Ins("use", 1), Ins("return", None)>>,
              2 :> <<<<1, 0 :> 0 @@ 2 :> 2>>>>)}

\* A switch as the last statement, with an entry for the end of the function.
LastSwitch ==
    {Function(<<Ins("pick", 0), Ins("def", 1), Ins("cmp", None), To("jumpif", 1, <<5>>),
                Ins("def", 2),
                Ins("use", 3), To("switch", 0, <<7, 9>>),
                Ins("use", 3), Ins("use", 1)>>,
              5 :> <<<<3, 0 :> 1 @@ 4 :> 2>>>>)}
=============================================================================
