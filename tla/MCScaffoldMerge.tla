--------------------------- MODULE MCScaffoldMerge ----------------------------
(***************************************************************************)
(* Three subtasks: a chain against the order of their names, a cycle with  *)
(* a subtask behind it, and a cycle with one beside it, whose two members  *)
(* share the second tier.                                                  *)
(***************************************************************************)
EXTENDS ScaffoldMerge

MCGraphs == {<<{2, 3}, {3}, {}>>, <<{2}, {1}, {2}>>, <<{}, {3}, {2}>>}

==============================================================================
