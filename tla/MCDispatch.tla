----------------------------- MODULE MCDispatch ------------------------------
(***************************************************************************)
(* Two tasks for two miners, one of two subtasks and one of one, submitted *)
(* with the same output directory.  A miner has one worker thread here, so *)
(* that the thread of a timed-out agent keeps the next one waiting.  The   *)
(* second miner may hang or be down.                                       *)
(***************************************************************************)
EXTENDS Dispatch

CONSTANTS m1, m2

MCUrls == <<m1, m2>>
MCSubtasksOf == [s \in Submissions |-> IF s = 1 THEN {11, 12} ELSE {21}]
MCNumberOf == [i \in {11, 12, 21} |-> i % 10]
MCOutputDir == [s \in Submissions |-> "out"]
MCMinerOf == [r \in Requests |-> IF r \in Subtasks THEN RoundRobin(r) ELSE m1]

==============================================================================
