---------------------------- MODULE MinerBackends -----------------------------
(***************************************************************************)
(* run_assignment and select_backend (miner/runtime.py) around the two     *)
(* kinds of backend: the agent loop of AgentLoop (miner/agent.py and       *)
(* miner/agent_openai.py) and the claude CLI of ClaudeMiner.  They work on *)
(* the same workspace.  Gate, deadline and the threads that outlive it are *)
(* those of MinerRuntime.                                                  *)
(***************************************************************************)
EXTENDS AgentLoop

CONSTANT TestFiles  \* stub_test_files, or new_test_files

VARIABLES
    backend,    \* MINER_BACKEND
    phase,      \* of run_assignment
    answer,     \* the MinerResponse, or NoAnswer
    job, step, exit, found, worktree, todo, passed, failed, patch, verdict, reason

Claude == INSTANCE ClaudeMiner

ASSUME BackendsAssumption == Claude!ClaudeAssumption

loopVars == <<pc, calls, blocks, retryVars>>
claudeVars == <<job, step, exit, found, worktree, todo, passed, failed, patch, verdict, reason>>
runtimeVars == <<backend, phase, answer>>
allVars == <<runtimeVars, vars, claudeVars>>

NoAnswer == [patch |-> FALSE, passed |-> FALSE, stop |-> "no answer"]
Responses == [patch : BOOLEAN, passed : BOOLEAN,
              stop : {"tests_passed", "max_iterations", "repeated_error", "none",
                      "protocol_mismatch", "error"}]

BackendsTypeOK ==
    /\ TypeOK /\ Claude!TypeOK
    /\ backend \in {"sdk", "claude_code", "other"}
    /\ phase \in {"received", "running", "answered", "raised"}
    /\ answer \in Responses \cup {NoAnswer}

BackendsInit ==
    /\ backend \in {"sdk", "claude_code", "other"}
    /\ phase = "received"
    /\ answer = NoAnswer
    /\ Init
    /\ Claude!ClaudeInit
    /\ backend # "claude_code" => job = CHOOSE j \in Claude!Jobs : TRUE

AnswerWith(response) ==
    /\ answer' = response
    /\ phase' = "answered"
    /\ UNCHANGED <<backend, vars, claudeVars>>

Failure(stopReason) == [patch |-> FALSE, passed |-> FALSE, stop |-> stopReason]

\* select_backend, before anything else: it raises for a name it does not know.
SelectBackend ==
    /\ phase = "received"
    /\ phase' = IF backend = "other" THEN "raised" ELSE "running"
    /\ UNCHANGED <<backend, answer, vars, claudeVars>>

\* The assignment speaks another version, or its bundle is no repository.
Refuse ==
    /\ phase = "running"
    /\ pc = "call" /\ calls = 0 /\ step = "start"
    /\ \E stopReason \in {"protocol_mismatch", "error"} : AnswerWith(Failure(stopReason))

SdkStep ==
    /\ phase = "running" /\ backend = "sdk"
    /\ Next
    /\ UNCHANGED <<runtimeVars, claudeVars>>

\* The CLI has tools of its own, without the checks of miner/tools.py.
ClaudeStep ==
    /\ phase = "running" /\ backend = "claude_code"
    /\ Claude!Next
    /\ shelled' = shelled \cup {f \in Files : disk'[f] # disk[f]}
    /\ UNCHANGED <<runtimeVars, loopVars>>

\* What the backend reports is the answer.
SdkAnswer ==
    /\ phase = "running" /\ backend = "sdk" /\ pc = "done"
    /\ AnswerWith([patch |-> PatchFrom(disk) # {}, passed |-> stop = "tests_passed", stop |-> stop])

ClaudeAnswer ==
    /\ phase = "running" /\ backend = "claude_code" /\ step = "done"
    /\ AnswerWith([patch |-> patch # {}, passed |-> verdict, stop |-> reason])

BackendRaised ==
    /\ phase = "running"
    /\ pc = "raised" \/ step = "raised"
    /\ AnswerWith(Failure("error"))

BackendsNext ==
    \/ SelectBackend \/ Refuse
    \/ SdkStep \/ ClaudeStep
    \/ SdkAnswer \/ ClaudeAnswer \/ BackendRaised

\* Every step of the runtime, of the loop and of the claude backend but the CLI's
\* own writing: calls, tools, the CLI and the test runs all have timeouts.
BackendsFairness ==
    /\ WF_allVars(SelectBackend \/ SdkStep \/ SdkAnswer \/ ClaudeAnswer \/ BackendRaised)
    /\ WF_allVars(ClaudeStep /\ Claude!Proceed)

BackendsSpec == BackendsInit /\ [][BackendsNext]_allVars /\ BackendsFairness

-----------------------------------------------------------------------------
(* Properties                                                              *)

VerdictIsAboutPatch == Claude!VerdictIsAboutPatch

\* miner/agent.py:263, "This is robust against any git operations the miner may have run
\* during its tool-use loop (git add, git commit, etc.)": while there is a repository, the
\* patch of either backend has every allowed file that is not as it was given.
PatchHoldsTheWork ==
    /\ Claude!PatchHoldsTheWork
    /\ backend = "sdk" /\ pc = "done" /\ baseline # NoTree =>
          {f \in Allowed : disk[f] # Original[f]} \subseteq PatchFrom(disk)

\* However the model, the CLI and the tests behave, an assignment is answered or
\* its request fails, and the replay worktree is gone by then.
AssignmentAnswered == <>[](phase \in {"answered", "raised"} /\ worktree = Claude!NoTree)

==============================================================================
