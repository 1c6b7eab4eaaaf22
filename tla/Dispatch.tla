------------------------------ MODULE Dispatch -------------------------------
(***************************************************************************)
(* The validator's HTTP server (validator/server.py): the tasks submitted  *)
(* to it run one after another (submit, run_task), and dispatch_to_miners  *)
(* sends a task's subtasks, all at once and round-robin, to its miners and *)
(* gathers the answers.  The miners are those of MinerRuntime; they are    *)
(* not the server's own, and may still be at the task before.              *)
(***************************************************************************)
EXTENDS MinerRuntime, Sequences

CONSTANTS
    Submissions,    \* the tasks submitted to the server
    SubtasksOf,     \* their subtasks, numbered in their order from 1 within the task
    NumberOf,       \* the number of each subtask
    OutputDir,      \* output_dir of each submission
    NoTask,         \* nobody's; vstate.lock when it is not held
    Urls            \* miner_urls, in order

Subtasks == UNION {SubtasksOf[s] : s \in Submissions}
Dirs == {OutputDir[s] : s \in Submissions}

\* miner_urls[i % len(miner_urls)]
RoundRobin(i) == Urls[((NumberOf[i] - 1) % Len(Urls)) + 1]

ASSUME DispatchAssumption ==
    /\ Subtasks \subseteq Requests
    /\ \A s, t \in Submissions : s # t => SubtasksOf[s] \cap SubtasksOf[t] = {}
    /\ NoTask \notin Submissions
    /\ \A i \in Subtasks : NumberOf[i] \in Nat \ {0} /\ MinerOf[i] = RoundRobin(i)

VARIABLES
    stage,      \* how far the server is with each submission
    waiting,    \* the submissions that wait for vstate.lock, in order
    busyWith,   \* the submission that holds it
    workDir,    \* whose working repository is in each output directory
    received    \* what the server has for each subtask

serverVars == <<stage, waiting, busyWith, workDir>>
dispatchVars == <<serverVars, received>>
allVars == <<vars, dispatchVars>>

Stages == {"unsent", "waiting", "dispatching", "merging", "answered"}

\* "refused" is the http_error of a 409; the merge sees no difference.
Received == {"unsent", "pending", "response", "refused", "http_error"}

DispatchInit ==
    /\ Init
    /\ stage = [s \in Submissions |-> "unsent"]
    /\ waiting = <<>> /\ busyWith = NoTask
    /\ workDir = [d \in Dirs |-> NoTask]
    /\ received = [i \in Subtasks |-> "unsent"]

\* A request without a repository or miners is answered with a 400.
BadRequest(s) ==
    /\ stage[s] = "unsent"
    /\ stage' = [stage EXCEPT ![s] = "answered"]
    /\ UNCHANGED <<vars, waiting, busyWith, workDir, received>>

Submit(s) ==
    /\ stage[s] = "unsent"
    /\ stage' = [stage EXCEPT ![s] = "waiting"]
    /\ waiting' = Append(waiting, s)
    /\ UNCHANGED <<vars, busyWith, workDir, received>>

\* Mutation: submit does not take the lock.
MayStartUnlocked(s) == waiting # <<>> /\ Head(waiting) = s

\* asyncio.Lock is fair.
MayStart(s) == busyWith = NoTask /\ waiting # <<>> /\ Head(waiting) = s

Answer(s) ==
    /\ stage' = [stage EXCEPT ![s] = "answered"]
    /\ busyWith' = NoTask

\* From the lock to the first await, that of the gather, the coroutine is alone: the
\* working repository is set up (after what the last task left in the directory is
\* removed), decomposed and scaffolded.
Prepare(s) ==
    /\ MayStart(s)
    /\ waiting' = Tail(waiting)
    /\ workDir' = [workDir EXCEPT ![OutputDir[s]] = s]
    /\ busyWith' = s
    /\ stage' = [stage EXCEPT ![s] = "dispatching"]
    /\ received' = [i \in Subtasks |-> IF i \in SubtasksOf[s] THEN "pending" ELSE received[i]]
    /\ UNCHANGED vars

\* The coordinator fails, or anything else before the dispatch raises.
PrepareFails(s) ==
    /\ MayStart(s)
    /\ waiting' = Tail(waiting)
    /\ workDir' = [workDir EXCEPT ![OutputDir[s]] = s]
    /\ Answer(s)
    /\ UNCHANGED <<vars, received>>

\* raise_for_status makes an exception of the 409 of a busy miner; one()
\* returns it instead of raising, so that gather goes on.
Receive(i) ==
    /\ received[i] = "pending"
    /\ answer[i] # "none"
    /\ received' = [received EXCEPT ![i] =
          IF answer[i] = "busy" THEN "refused" ELSE "response"]
    /\ UNCHANGED <<vars, serverVars>>

\* Mutation: the HTTP client has no timeout; only a connection can fail.
GiveUpUnconnected(i) ==
    /\ received[i] = "pending"
    /\ phase[i] = "unsent"
    /\ received' = [received EXCEPT ![i] = "http_error"]
    /\ UNCHANGED <<vars, serverVars>>

\* The connection fails, or the client's own timeout ends the wait.  The
\* miner is not told, and the request may still reach it.
GiveUp(i) ==
    /\ received[i] = "pending"
    /\ received' = [received EXCEPT ![i] = "http_error"]
    /\ UNCHANGED <<vars, serverVars>>

Gather(s) ==
    /\ stage[s] = "dispatching"
    /\ \A i \in SubtasksOf[s] : received[i] # "pending"
    /\ stage' = [stage EXCEPT ![s] = "merging"]
    /\ UNCHANGED <<vars, waiting, busyWith, workDir, received>>

\* merge_and_test returns or raises; either way the lock is released.
Merge(s) ==
    /\ stage[s] = "merging"
    /\ Answer(s)
    /\ UNCHANGED <<vars, waiting, workDir, received>>

Server ==
    \/ \E s \in Submissions : Prepare(s) \/ PrepareFails(s) \/ Gather(s) \/ Merge(s)
    \/ \E i \in Subtasks : Receive(i) \/ GiveUp(i)

\* A request is on its way as soon as its task is dispatched, and can arrive long after
\* the server gave up on it.
Sent(r) == r \in Subtasks => received[r] # "unsent"

DispatchNext ==
    \/ Server
    \/ \E s \in Submissions : Submit(s) \/ BadRequest(s)
    \/ \E r \in Requests : Sent(r) /\ Arrive(r) /\ UNCHANGED dispatchVars
    \/ MinerNext /\ UNCHANGED dispatchVars

\* The server's event loop runs and its HTTP timeouts fire, and the reliable
\* miners answer.  Nothing is assumed of the others, which may be down or hang.
DispatchSpec ==
    /\ DispatchInit /\ [][DispatchNext]_allVars
    /\ WF_allVars(Server) /\ HandlerFairness

-----------------------------------------------------------------------------
(* Properties                                                              *)

\* Every task that is submitted is answered in the end, whatever its miners, and those
\* of the tasks before it, do.
EverySubmitAnswered ==
    \A s \in Submissions : stage[s] = "waiting" ~> stage[s] = "answered"

\* A task is dispatched from, and merged into, its own repository, also when another
\* one was submitted with the same output directory.
OwnWorkspace ==
    \A s \in Submissions :
        stage[s] \in {"dispatching", "merging"} => workDir[OutputDir[s]] = s

==============================================================================
