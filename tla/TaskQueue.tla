------------------------------ MODULE TaskQueue ------------------------------
(***************************************************************************)
(* What the task inbox promises to its users, without files, crashes or    *)
(* output directories: a task is submitted once, is worked on by at most   *)
(* one run at a time, may be requeued while it is being worked on, and     *)
(* ends exactly once as done or failed.                                    *)
(***************************************************************************)
EXTENDS Naturals

CONSTANT Tasks

VARIABLE status     \* the state task_status reports for each task

Statuses == {"unknown", "pending", "working", "done", "failed"}

Init == status = [t \in Tasks |-> "unknown"]

Move(t, from, to) ==
    /\ status[t] = from
    /\ status' = [status EXCEPT ![t] = to]

Submit(t) == Move(t, "unknown", "pending")

\* One loop runs one task at a time: nothing else is working when it claims.
Claim(t) ==
    /\ \A u \in Tasks : status[u] # "working"
    /\ Move(t, "pending", "working")

Requeue(t) == Move(t, "working", "pending")
Complete(t) == Move(t, "working", "done")
Fail(t) == Move(t, "working", "failed")

Next == \E t \in Tasks :
    Submit(t) \/ Claim(t) \/ Requeue(t) \/ Complete(t) \/ Fail(t)

\* A submitted task is eventually settled.
EventuallySettled ==
    \A t \in Tasks : (status[t] = "pending") ~> (status[t] \in {"done", "failed"})

Safety == Init /\ [][Next]_status
Spec == Safety /\ EventuallySettled
==============================================================================
