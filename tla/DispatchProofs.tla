---------------------------- MODULE DispatchProofs -----------------------------
(***************************************************************************)
(* Safety of the miners (MinerRuntime) and of the validator's server       *)
(* (Dispatch), for every set of requests, miners, submissions and output   *)
(* directories, every size of the thread pool, and both kinds of asyncio   *)
(* task.                                                                   *)
(*                                                                         *)
(* The miners are proved on their own first.  The server only reads their  *)
(* answers, so that every behaviour of the two together is a behaviour of  *)
(* the miners (DispatchImplementsMiners), and what holds of the miners     *)
(* holds behind any server.                                                *)
(***************************************************************************)
EXTENDS Dispatch, TLAPS

InGate == {"held", "running"}

\* The lock of a miner is held by exactly the request in its gate.
GateIsLock ==
    /\ \A m \in Miners : lock[m] # NoRequest => MinerOf[lock[m]] = m
    /\ \A r \in Requests : phase[r] \in InGate <=> lock[MinerOf[r]] = r

\* What the phase of a request says of its thread and its workspace.
ThreadOwner ==
    \A r \in Requests :
        /\ phase[r] \in {"unsent", "gate", "held"} => thread[r] = "none"
        /\ phase[r] = "running" => workspace[r] = "present"
        /\ phase[r] = "answered" /\ thread[r] \in {"queued", "running"}
              => answer[r] = "timeout"

MinerInv == TypeOK /\ GateIsLock /\ ThreadOwner

-----------------------------------------------------------------------------
(* The miners                                                              *)

\* Every initial state of the miners satisfies their inductive invariant.
LEMMA MinerInit == Init => MinerInv
  BY MinerAssumption
  DEF Init, MinerInv, TypeOK, GateIsLock, ThreadOwner, InGate, Phases, Threads,
      Outcomes, Workspaces, Answers

\* A request that returns leaves its gate unlocked, and no other request's.
LEMMA ReturnOpensGate ==
  ASSUME TypeOK, GateIsLock, NEW r \in Requests, NEW reason \in Answers,
         phase[r] \in InGate, Return(r, reason)
  PROVE  GateIsLock' /\ phase' \in [Requests -> Phases]
            /\ lock' \in [Miners -> Requests \cup {NoRequest}]
            /\ answer' \in [Requests -> Answers]
<1>1. /\ phase' = [phase EXCEPT ![r] = "answered"]
      /\ lock' = [lock EXCEPT ![MinerOf[r]] = NoRequest]
      /\ answer' = [answer EXCEPT ![r] = reason]
  BY DEF Return
<1>2. /\ phase' \in [Requests -> Phases]
      /\ lock' \in [Miners -> Requests \cup {NoRequest}]
      /\ answer' \in [Requests -> Answers]
  BY <1>1, MinerAssumption DEF TypeOK, Phases
<1>3. GateIsLock'
  BY <1>1, MinerAssumption DEF TypeOK, GateIsLock, InGate
<1> QED
  BY <1>2, <1>3

\* Every step of the miners preserves the invariant.
LEMMA MinerStep ==
  ASSUME MinerInv, [Next]_vars
  PROVE  MinerInv'
<1> USE MinerAssumption, PoolAssumption DEF MinerInv
<1> SUFFICES ASSUME NEW r \in Requests, Arrive(r) \/ Handler(r) \/ Agent(r)
             PROVE  MinerInv'
  BY DEF Next, MinerNext, vars, TypeOK, GateIsLock, ThreadOwner
<1>1. CASE Arrive(r)
  BY <1>1 DEF Arrive, TypeOK, GateIsLock, ThreadOwner, InGate, Phases
<1>2. CASE Accept(r)
  BY <1>2 DEF Accept, CanAcquire, TypeOK, GateIsLock, ThreadOwner, InGate, Phases
<1>3. CASE Refuse(r)
  BY <1>3 DEF Refuse, TypeOK, GateIsLock, ThreadOwner, InGate, Phases, Answers
<1>4. CASE Mismatch(r) \/ FailsEarly(r)
  <2>1. GateIsLock' /\ TypeOK'
    BY <1>4, ReturnOpensGate DEF Mismatch, FailsEarly, InGate, Answers, TypeOK
  <2>2. ThreadOwner'
    BY <1>4 DEF Mismatch, FailsEarly, Return, ThreadOwner, TypeOK
  <2> QED
    BY <2>1, <2>2
<1>5. CASE Unbundle(r)
  BY <1>5 DEF Unbundle, TypeOK, GateIsLock, ThreadOwner, InGate, Phases,
      Threads, Workspaces
<1>6. CASE UnbundleFails(r)
  <2>1. GateIsLock' /\ TypeOK'
    BY <1>6, ReturnOpensGate
    DEF UnbundleFails, InGate, Answers, Workspaces, TypeOK
  <2>2. ThreadOwner'
    BY <1>6 DEF UnbundleFails, Return, ThreadOwner, TypeOK
  <2> QED
    BY <2>1, <2>2
<1>7. CASE StartThread(r)
  BY <1>7 DEF StartThread, TypeOK, GateIsLock, ThreadOwner, Threads, Phases
<1>8. CASE \E how \in {"result", "raised"} : EndThread(r, how)
  BY <1>8 DEF EndThread, TypeOK, GateIsLock, ThreadOwner, Threads, Outcomes, Phases
<1>9. CASE Collect(r)
  <2>1. GateIsLock' /\ TypeOK'
    <3>1. PICK reason \in Answers : Return(r, reason)
      BY <1>9 DEF Collect, Answers
    <3> QED
      BY <1>9, <3>1, ReturnOpensGate DEF Collect, InGate, Workspaces, TypeOK
  <2>2. ThreadOwner'
    BY <1>9 DEF Collect, Return, ThreadOwner, TypeOK
  <2> QED
    BY <2>1, <2>2
<1>10. CASE Deadline(r)
  <2>1. GateIsLock' /\ TypeOK'
    <3>1. workspace' \in [Requests -> Workspaces] /\ thread' \in [Requests -> Threads]
      BY <1>10 DEF Deadline, TypeOK, Workspaces, Threads
    <3> QED
      BY <1>10, <3>1, ReturnOpensGate DEF Deadline, InGate, Answers, TypeOK
  <2>2. ThreadOwner'
    BY <1>10 DEF Deadline, Return, ThreadOwner, TypeOK
  <2> QED
    BY <2>1, <2>2
<1> QED
  BY <1>1, <1>2, <1>3, <1>4, <1>5, <1>6, <1>7, <1>8, <1>9, <1>10
  DEF Handler, Agent

\* The invariant of the miners is inductive, and implies what the runs check.
THEOREM MinerSafety == Spec => []MinerInv
<1>1. MinerInv /\ [Next]_vars => MinerInv'
  BY MinerStep
<1> QED
  BY MinerInit, <1>1, PTL DEF Spec

\* The gate and the threads in one state.
LEMMA MinerInvImplies == MinerInv => GateExclusive /\ WorkspaceOutlivesAgent
<1> SUFFICES ASSUME MinerInv
             PROVE  GateExclusive /\ WorkspaceOutlivesAgent
  OBVIOUS
<1> USE MinerAssumption DEF MinerInv
<1>1. ASSUME NEW m \in Miners
      PROVE  HeldOn(m) = IF lock[m] = NoRequest THEN {} ELSE {lock[m]}
  <2>1. \A r \in Requests : r \in HeldOn(m) <=> lock[m] = r
    BY DEF HeldOn, GateIsLock, InGate, TypeOK
  <2>2. HeldOn(m) \subseteq Requests /\ lock[m] \in Requests \cup {NoRequest}
    BY DEF HeldOn, TypeOK
  <2> QED
    BY <2>1, <2>2
<1>2. WorkspaceOutlivesAgent
  BY DEF WorkspaceOutlivesAgent, ThreadOwner, TypeOK, Phases
<1> QED
  BY <1>1, <1>2 DEF GateExclusive

\* A miner runs one assignment at a time, and its lock is held by exactly that
\* one: the late thread of a request that timed out neither opens the gate nor
\* keeps it shut (miner/server.py, miner/runtime.py).
THEOREM GateExclusiveHolds == Spec => []GateExclusive
  BY MinerSafety, MinerInvImplies, PTL

\* An agent whose directory is gone belongs to a request that was answered with
\* a timeout: no other way out of run_assignment leaves the thread behind.
THEOREM WorkspaceOutlivesAgentHolds == Spec => []WorkspaceOutlivesAgent
  BY MinerSafety, MinerInvImplies, PTL

\* Where a new asyncio task does not take its first step at once, no request is ever let
\* in: the lock stays free, no agent starts, and the only answer there is says "busy".
NobodyGetsIn ==
    /\ \A m \in Miners : lock[m] = NoRequest
    /\ \A r \in Requests : thread[r] = "none" /\ answer[r] \in {"none", "busy"}

\* asyncio.wait_for(lock.acquire(), timeout=0) never succeeds without eager tasks
\* (miner/server.py, neurons/miner.py).
THEOREM LazyMinersRefuseAll ==
  ASSUME ~EagerTasks
  PROVE  Spec => []NobodyGetsIn
<1>1. ASSUME Init
      PROVE  NobodyGetsIn
  BY <1>1 DEF Init, NobodyGetsIn
<1>2. ASSUME MinerInv, NobodyGetsIn, [Next]_vars
      PROVE  NobodyGetsIn'
  <2> USE MinerAssumption
  <2>1. \A r \in Requests : phase[r] \notin InGate
    BY <1>2 DEF MinerInv, GateIsLock, NobodyGetsIn
  <2>2. CASE UNCHANGED vars
    BY <1>2, <2>2 DEF vars, NobodyGetsIn
  <2>3. ASSUME NEW r \in Requests, Arrive(r) \/ Handler(r) \/ Agent(r)
        PROVE  NobodyGetsIn'
    <3>1. Arrive(r) \/ Refuse(r)
      BY <1>2, <2>1, <2>3 DEF Handler, Agent, Accept, CanAcquire, Mismatch, FailsEarly, Unbundle,
          UnbundleFails, Collect, Deadline, StartThread, EndThread, InGate, NobodyGetsIn
    <3> QED
      BY <1>2, <3>1 DEF Arrive, Refuse, NobodyGetsIn, MinerInv, TypeOK
  <2> QED
    BY <1>2, <2>2, <2>3 DEF Next, MinerNext
<1> QED
  BY MinerSafety, <1>1, <1>2, PTL DEF Spec

-----------------------------------------------------------------------------
(* The server                                                              *)

\* Whoever is past the lock holds it, and the directory is theirs.
Exclusive ==
    /\ stage \in [Submissions -> Stages]
    /\ busyWith \in Submissions \cup {NoTask}
    /\ workDir \in [Dirs -> Submissions \cup {NoTask}]
    /\ \A s \in Submissions : stage[s] \in {"dispatching", "merging"} =>
          busyWith = s /\ workDir[OutputDir[s]] = s

\* Every step of the server, of its clients and of the miners preserves it.
LEMMA ExclusiveStep ==
  ASSUME Exclusive, [DispatchNext]_allVars
  PROVE  Exclusive'
<1> USE DispatchAssumption DEF Exclusive
<1>1. CASE \E s \in Submissions : Prepare(s)
  BY <1>1 DEF Prepare, MayStart, Stages, Dirs
<1>2. CASE \E s \in Submissions : PrepareFails(s)
  BY <1>2 DEF PrepareFails, MayStart, Answer, Stages, Dirs
<1>3. CASE \E s \in Submissions : Gather(s)
  BY <1>3 DEF Gather, Stages
<1>4. CASE \E s \in Submissions : Merge(s)
  BY <1>4 DEF Merge, Answer, Stages
<1>5. CASE \E i \in Subtasks : Receive(i) \/ GiveUp(i)
  BY <1>5 DEF Receive, GiveUp, serverVars
<1>6. CASE \E s \in Submissions : Submit(s) \/ BadRequest(s)
  BY <1>6 DEF Submit, BadRequest, Stages
<1>7. CASE UNCHANGED serverVars
  BY <1>7 DEF serverVars
<1> QED
  BY <1>1, <1>2, <1>3, <1>4, <1>5, <1>6, <1>7
  DEF DispatchNext, Server, allVars, dispatchVars

\* However many submissions name the same output directory, one of them at a time
\* is dispatched and merged, and it works in its own repository (validator/server.py).
THEOREM OwnWorkspaceHolds == DispatchSpec => []OwnWorkspace
<1>1. DispatchInit => Exclusive
  BY DEF DispatchInit, Exclusive, Stages
<1>2. Exclusive /\ [DispatchNext]_allVars => Exclusive'
  BY ExclusiveStep
<1>3. Exclusive => OwnWorkspace
  BY DEF Exclusive, OwnWorkspace
<1> QED
  BY <1>1, <1>2, <1>3, PTL DEF DispatchSpec

\* The server and the miners together are the miners: whatever is sent, received
\* or given up, no step of the server is one a miner could not take alone.
THEOREM DispatchImplementsMiners == DispatchSpec => Spec
<1>1. DispatchInit => Init
  BY DEF DispatchInit
<1>2. [DispatchNext]_allVars => [Next]_vars
  BY DEF DispatchNext, Server, Prepare, PrepareFails, Gather, Merge, Receive, GiveUp,
      Submit, BadRequest, Next, allVars, serverVars, vars
<1> QED
  BY <1>1, <1>2, PTL DEF DispatchSpec, Spec

\* So the gate of every miner behind the server is exclusive, and its agents keep
\* their workspaces.
THEOREM MinersSafeBehindServer ==
    DispatchSpec => [](GateExclusive /\ WorkspaceOutlivesAgent)
  BY DispatchImplementsMiners, MinerSafety, MinerInvImplies, PTL
================================================================================
