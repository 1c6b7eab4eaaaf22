------------------------------ MODULE StatusApi ------------------------------
(***************************************************************************)
(* A client of the submission API next to the validator: GET /tasks/{id},  *)
(* which probes the task's suffixes one file at a time while the validator *)
(* renames them and then loads the result of a done one, and               *)
(* GET /tasks/{id}/patch, which looks at no suffix.                        *)
(* The two processes share nothing but the directories.                    *)
(***************************************************************************)
EXTENDS TaskLifecycle, Sequences

VARIABLES
    query,      \* the GET in flight: its task, the next suffix it probes (Idle: none)
    answer      \* the last answer of the client: a status, with the result's state, or
                \*   a patch with its state

apiVars == <<query, answer>>
allVars == <<vars, query, answer>>

\* Mutation: the dict lists ".working" before "".
ProbeWorkingFirst == <<"working", "json", "done", "failed">>

\* _SUFFIXES, in the order a dict is iterated
ProbeOrder == <<"json", "working", "done", "failed">>
Reported == [json |-> "pending", working |-> "working",
             done |-> "done", failed |-> "failed"]

Idle == 0
Loading == Len(ProbeOrder) + 1
NoAnswer == [kind |-> "none", task |-> NoTask, value |-> "none", result |-> "absent"]

ApiInit ==
    /\ Init
    /\ query = [task |-> NoTask, next |-> Idle, requeued |-> FALSE]
    /\ answer = NoAnswer

\* A client polls a task whose id POST /tasks has returned.
Ask(t) ==
    /\ query.next = Idle
    /\ t \in written
    /\ query' = [task |-> t, next |-> 1, requeued |-> FALSE]
    /\ UNCHANGED <<vars, answer>>

Tell(kind, t, value, doc) ==
    answer' = [kind |-> kind, task |-> t, value |-> value, result |-> doc]

\* One isfile of task_status.
Probe ==
    /\ query.next \in DOMAIN ProbeOrder
    /\ LET suffix == ProbeOrder[query.next]
       IN  IF Has(query.task, suffix)
           THEN IF suffix = "done"
                THEN query' = [query EXCEPT !.next = Loading] /\ UNCHANGED answer
                ELSE /\ query' = [query EXCEPT !.next = Idle]
                     /\ Tell("status", query.task, Reported[suffix], "absent")
           ELSE IF query.next < Len(ProbeOrder)
           THEN query' = [query EXCEPT !.next = @ + 1] /\ UNCHANGED answer
           ELSE /\ query' = [query EXCEPT !.next = Idle]
                /\ Tell("status", query.task, "unknown", "absent")
    /\ UNCHANGED vars

\* load_result, for the answer about a done task.
LoadResult ==
    /\ query.next = Loading
    /\ Tell("status", query.task, "done", result[query.task])
    /\ query' = [query EXCEPT !.next = Idle]
    /\ UNCHANGED vars

\* load_patch serves patch.diff as soon as the file is there.
FetchPatch(t) ==
    /\ query.next = Idle
    /\ t \in written
    /\ Tell("patch", t, IF patch[t] = "absent" THEN "none" ELSE patch[t], "absent")
    /\ UNCHANGED <<vars, query>>

\* A step of the validator or of a submission.  The query remembers whether
\* its task was requeued under it (a history used by the properties only).
ServerStep ==
    /\ Next
    /\ query' = [query EXCEPT !.requeued =
          @ \/ (query.next # Idle /\ Has(query.task, "working")
                /\ "json" \in inbox'[query.task])]
    /\ UNCHANGED answer

ApiNext ==
    \/ \E t \in Tasks : Ask(t) \/ FetchPatch(t)
    \/ Probe \/ LoadResult
    \/ ServerStep

ApiSpec == ApiInit /\ [][ApiNext]_allVars /\ WF_vars(Validator)

-----------------------------------------------------------------------------
(* Properties                                                              *)

\* The probes follow the order in which a task moves, so a poll that races
\* the renames loses the task only when the task was moved backwards, by a
\* recovery, while the poll was on its way.
UnknownOnlyIfRequeued ==
    answer.value = "unknown" /\ answer.task = query.task /\ query.next = Idle
        => query.requeued

Progress == [unknown |-> 0, pending |-> 1, working |-> 2, done |-> 3, failed |-> 3]

\* As long as the validator has not crashed, a client that polls a task never
\* sees it go backwards: not from working to pending, not from done to unknown.
PollsMoveForward ==
    [][ /\ answer.kind = "status" /\ answer'.kind = "status"
        /\ answer.task = answer'.task /\ crashes' = 0
        => Progress[answer.value] <= Progress[answer'.value] ]_allVars

\* What a client gets with the status "done" is settled: a result that can be read, and
\* the same one at every poll, though the task may have been run twice and was moved
\* since the probe that found it done.
ResultsAreFinal ==
    [][ answer'.value = "done" =>
        /\ answer'.result # "partial"
        /\ answer.value = "done" /\ answer.task = answer'.task
              => answer.result = answer'.result ]_allVars

==============================================================================
