----------------------------- MODULE MCDiffMerge ------------------------------
(***************************************************************************)
(* Three subtasks that have to land in the order 2, 3, 1; the second has a *)
(* test of its own.  No subtask lists the other gate test.  Either may be  *)
(* held back.                                                              *)
(***************************************************************************)
EXTENDS DiffMerge

CONSTANTS own, common, old

MCGraphs == {<<{2, 3}, {}, {2}>>}
MCGateOf == <<{}, {own}, {}>>
MCHoldbacks == {{}, {own}, {common}}

==============================================================================
