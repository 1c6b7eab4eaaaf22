---------------------------- MODULE MinerRuntime -----------------------------
(***************************************************************************)
(* The miners: the single-task gate of miner/server.py and neurons/miner.py*)
(* and run_assignment of miner/runtime.py, which runs the agent in a       *)
(* worker thread, puts a deadline on it and owns its workspace.            *)
(*                                                                         *)
(* A thread cannot be cancelled.  When the deadline passes, the request is *)
(* answered, its workspace removed and the gate opened, and the thread     *)
(* goes on until the agent returns.                                        *)
(***************************************************************************)
EXTENDS Naturals, FiniteSets

CONSTANTS
    Requests,       \* TaskAssignments, one per request
    Miners,
    MinerOf,        \* the miner each request is sent to
    Reliable,       \* miners whose process stays up
    NoRequest,      \* stands for "unlocked"
    PoolSize,       \* worker threads of a miner's default executor
    EagerTasks      \* does a new asyncio task take its first step at once?

ASSUME MinerAssumption == MinerOf \in [Requests -> Miners] /\ NoRequest \notin Requests
                            /\ Reliable \subseteq Miners
ASSUME PoolAssumption == PoolSize \in Nat \ {0} /\ EagerTasks \in BOOLEAN

VARIABLES
    phase,      \* how far the handler of a request has got
    lock,       \* the request that holds each miner's asyncio.Lock
    thread,     \* the worker thread of each request
    outcome,    \* what the agent in that thread returned
    workspace,  \* the temporary directory of each request
    answer      \* the stop_reason each request was answered with

vars == <<phase, lock, thread, outcome, workspace, answer>>

Phases == {"unsent", "gate", "held", "running", "answered"}
Threads == {"none", "queued", "running", "ended", "cancelled"}
Outcomes == {"none", "result", "raised"}
Workspaces == {"none", "present", "removed", "leaked"}
Answers == {"none", "busy", "protocol_mismatch", "agent", "timeout", "error"}

RunningOn(m) == {r \in Requests : MinerOf[r] = m /\ thread[r] = "running"}
HeldOn(m) == {r \in Requests : MinerOf[r] = m /\ phase[r] \in {"held", "running"}}

TypeOK ==
    /\ phase \in [Requests -> Phases]
    /\ lock \in [Miners -> Requests \cup {NoRequest}]
    /\ thread \in [Requests -> Threads]
    /\ outcome \in [Requests -> Outcomes]
    /\ workspace \in [Requests -> Workspaces]
    /\ answer \in [Requests -> Answers]

Init ==
    /\ phase = [r \in Requests |-> "unsent"]
    /\ lock = [m \in Miners |-> NoRequest]
    /\ thread = [r \in Requests |-> "none"]
    /\ outcome = [r \in Requests |-> "none"]
    /\ workspace = [r \in Requests |-> "none"]
    /\ answer = [r \in Requests |-> "none"]

\* The POST (or the TaskSynapse) reaches the miner.
Arrive(r) ==
    /\ phase[r] = "unsent"
    /\ phase' = [phase EXCEPT ![r] = "gate"]
    /\ UNCHANGED <<lock, thread, outcome, workspace, answer>>

\* Mutation: the gate does not look at the lock.
CanAlwaysAcquire(m) == EagerTasks

\* asyncio.wait_for(lock.acquire(), timeout=0) wraps acquire() in a task and
\* cancels it unless it is already done.  A task that does not start eagerly
\* has not taken a step by then, whether the lock is free or not.
CanAcquire(m) == EagerTasks /\ lock[m] = NoRequest

Accept(r) ==
    /\ phase[r] = "gate"
    /\ CanAcquire(MinerOf[r])
    /\ lock' = [lock EXCEPT ![MinerOf[r]] = r]
    /\ phase' = [phase EXCEPT ![r] = "held"]
    /\ UNCHANGED <<thread, outcome, workspace, answer>>

\* 409, or stop_reason "busy".
Refuse(r) ==
    /\ phase[r] = "gate"
    /\ ~CanAcquire(MinerOf[r])
    /\ answer' = [answer EXCEPT ![r] = "busy"]
    /\ phase' = [phase EXCEPT ![r] = "answered"]
    /\ UNCHANGED <<lock, thread, outcome, workspace>>

\* Every return of run_assignment is followed by the release of the gate.
Return(r, reason) ==
    /\ answer' = [answer EXCEPT ![r] = reason]
    /\ phase' = [phase EXCEPT ![r] = "answered"]
    /\ lock' = [lock EXCEPT ![MinerOf[r]] = NoRequest]

\* A protocol mismatch is answered before a workspace exists.
Mismatch(r) ==
    /\ phase[r] = "held"
    /\ Return(r, "protocol_mismatch")
    /\ UNCHANGED <<thread, outcome, workspace>>

\* to_assignment and mkdtemp can raise, when there is no workspace yet.
FailsEarly(r) ==
    /\ phase[r] = "held"
    /\ Return(r, "error")
    /\ UNCHANGED <<thread, outcome, workspace>>

\* Mutation: the agent's thread is started before the bundle has been checked,
\* so that a bad bundle removes the workspace under it.
UnbundleEarly(r) ==
    /\ phase[r] = "held"
    /\ workspace' = [workspace EXCEPT ![r] = "present"]
    /\ thread' = [thread EXCEPT ![r] = "queued"]
    /\ UNCHANGED <<phase, lock, outcome, answer>>

\* mkdtemp and unbundle_repo, in the event loop, then to_thread.
Unbundle(r) ==
    /\ phase[r] = "held"
    /\ workspace' = [workspace EXCEPT ![r] = "present"]
    /\ thread' = [thread EXCEPT ![r] = "queued"]
    /\ phase' = [phase EXCEPT ![r] = "running"]
    /\ UNCHANGED <<lock, outcome, answer>>

\* A bad bundle raises; the finally block removes the workspace.
UnbundleFails(r) ==
    /\ phase[r] = "held"
    /\ workspace' = [workspace EXCEPT ![r] = "removed"]
    /\ Return(r, "error")
    /\ UNCHANGED <<thread, outcome>>

StartThread(r) ==
    /\ thread[r] = "queued"
    /\ Cardinality(RunningOn(MinerOf[r])) < PoolSize
    /\ thread' = [thread EXCEPT ![r] = "running"]
    /\ UNCHANGED <<phase, lock, outcome, workspace, answer>>

\* The agent returns or raises.  A thread whose request was answered long ago
\* ends the same way; nobody reads what it returns.
EndThread(r, how) ==
    /\ thread[r] = "running"
    /\ thread' = [thread EXCEPT ![r] = "ended"]
    /\ outcome' = [outcome EXCEPT ![r] = how]
    /\ UNCHANGED <<phase, lock, workspace, answer>>

\* wait_for hands the result (or the exception) over.
Collect(r) ==
    /\ phase[r] = "running"
    /\ thread[r] = "ended"
    /\ Return(r, IF outcome[r] = "result" THEN "agent" ELSE "error")
    /\ workspace' = [workspace EXCEPT ![r] = "removed"]
    /\ UNCHANGED <<thread, outcome>>

\* Mutation: the deadline is only honoured before the agent has started.
DeadlineBeforeStart(r) ==
    /\ phase[r] = "running"
    /\ thread[r] = "queued"
    /\ Return(r, "timeout")
    /\ thread' = [thread EXCEPT ![r] = "cancelled"]
    /\ workspace' = [workspace EXCEPT ![r] = "removed"]
    /\ UNCHANGED outcome

\* The deadline passes.  Only a thread that has not begun can be cancelled;
\* one that is running writes into the directory rmtree(ignore_errors=True)
\* is removing, and can leave some of it behind.
Deadline(r) ==
    /\ phase[r] = "running"
    /\ thread[r] \in {"queued", "running"}
    /\ Return(r, "timeout")
    /\ thread' = [thread EXCEPT ![r] = IF @ = "queued" THEN "cancelled" ELSE @]
    /\ workspace' \in {[workspace EXCEPT ![r] = w] :
          w \in {"removed"} \cup (IF thread[r] = "running" THEN {"leaked"} ELSE {})}
    /\ UNCHANGED outcome

Handler(r) ==
    \/ Accept(r) \/ Refuse(r)
    \/ FailsEarly(r) \/ Mismatch(r) \/ Unbundle(r) \/ UnbundleFails(r)
    \/ Collect(r) \/ Deadline(r)

Agent(r) == StartThread(r) \/ \E how \in {"result", "raised"} : EndThread(r, how)

MinerNext == \E r \in Requests : Handler(r) \/ Agent(r)

Next == (\E r \in Requests : Arrive(r)) \/ MinerNext

ReliableRequests == {r \in Requests : MinerOf[r] \in Reliable}

\* The event loop of a reliable miner runs every handler on, and its timers
\* fire.  Nothing is assumed of the threads: an agent may run forever.
HandlerFairness == \A r \in ReliableRequests : WF_vars(Handler(r))

Spec == Init /\ [][Next]_vars /\ HandlerFairness

-----------------------------------------------------------------------------
(* Properties                                                              *)

\* The gate admits one request per miner, and the lock is held by exactly the
\* request that is in run_assignment: a late thread neither opens the gate of
\* its successor nor keeps it shut.
GateExclusive ==
    \A m \in Miners :
        HeldOn(m) = IF lock[m] = NoRequest THEN {} ELSE {lock[m]}

\* A miner that is free accepts: "busy" is only said while another request
\* holds the gate (neurons/miner.py:124, "a busy miner reports busy").  This is what
\* the docs say of the gate; on asyncio's default event loop it does not hold.
RefusedOnlyIfBusy ==
    [][\A r \in Requests : answer'[r] = "busy" /\ answer[r] # "busy"
          => lock[MinerOf[r]] # NoRequest]_vars

\* An agent loses its workspace under its feet only if its request has been
\* answered with a timeout.
WorkspaceOutlivesAgent ==
    \A r \in Requests : thread[r] \in {"queued", "running"} /\ workspace[r] # "present"
        => answer[r] = "timeout"

\* A reliable miner answers every request, however long its agent runs or
\* waits for a thread.
EveryRequestAnswered ==
    \A r \in ReliableRequests : phase[r] = "gate" ~> phase[r] = "answered"

==============================================================================
