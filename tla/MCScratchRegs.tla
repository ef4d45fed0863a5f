---------------------------- MODULE MCScratchRegs ----------------------------
(***************************************************************************)
(* Functions of three instructions for ScratchRegs: R0 and R1, IP, and the  *)
(* callee-saved R4 and R8.                                                  *)
(***************************************************************************)
EXTENDS ScratchRegs

MCLow == {0, 1}

MCCallee == {4, 8}

MCNarrow == {4}

MCHands == {{}, {1}}

Iv(s, e, r, kind) ==
    [start |-> s, end |-> e, r0 |-> r, pinned |-> kind = "pinned", param |-> kind = "param"]

\* Which of the values in R0, R1 and IP cannot be moved, and which are
\* parameters passed on the stack.
Kinds == {<<"plain", "plain", "plain">>, <<"pinned", "plain", "pinned">>,
          <<"plain", "pinned", "pinned">>, <<"pinned", "pinned", "pinned">>,
          <<"param", "plain", "pinned">>}

\* R0, R1 and IP are all taken at instruction 1; the one in R0 ends at e.
Crowded(e, k) == <<Iv(0, e, 0, k[1]), Iv(1, 2, 1, k[2]), Iv(e - 1, 1, 12, k[3])>>

\* A fourth value is in a callee-saved register, or shares one of the others:
\* as the other end of a coalesced copy, or after it.  Or the callee-saved
\* registers are all taken.
Others == {<<Iv(0, 1, 4, "plain")>>, <<Iv(2, 2, 8, "plain")>>, <<Iv(1, 2, 0, "plain")>>,
           <<Iv(2, 2, 0, "plain")>>, <<Iv(1, 1, 1, "plain")>>,
           <<Iv(0, 1, 4, "plain"), Iv(0, 2, 8, "plain")>>}

\* ghosts: registers the allocator used and that hold nothing any more.
MCFunctions ==
    {[n |-> 3, iv |-> Crowded(e, k) \o o, leaf |-> leaf, ghosts |-> g, asking |-> {e - 1, e}] :
        e \in {1, 2}, k \in Kinds, o \in Others, leaf \in BOOLEAN, g \in {{}, {8}}}
=============================================================================
