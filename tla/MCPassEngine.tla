---------------------------- MODULE MCPassEngine ----------------------------
(* The five groups of pipeline_table.c with their trigger, compact_after   *)
(* and kinds of passes, cut to a few passes and rounds each.               *)
EXTENDS PassEngine, Sequences

Group(kinds, iterations, compact, trigger, facts) ==
  [count |-> Len(kinds), kind |-> [q \in 1 .. Len(kinds) |-> kinds[q]],
   iterations |-> iterations, compact |-> compact, trigger |-> trigger,
   facts |-> facts]

propagation_group == Group(<<"plain", "ctx">>, 3, FALSE, 0, {})

memory_group == Group(<<"cascade", "ctx", "cascade">>, 2, TRUE, 1, {})

late_cleanup_group == Group(<<"plain", "plain">>, 2, TRUE, 0, {2})

(* dse comes first here. *)
ra_late_cleanup_group == Group(<<"plain", "plain">>, 2, TRUE, 0, {1})

entry_store_group == Group(<<"plain", "cascade", "plain">>, 2, TRUE, 1, {})

MCGroups ==
  {propagation_group, memory_group, late_cleanup_group, ra_late_cleanup_group,
   entry_store_group}

MCCounts == {1, 2}

MCMaxLives == 2
=============================================================================
