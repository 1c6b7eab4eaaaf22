---------------------------- MODULE TaskLifecycle ----------------------------
(***************************************************************************)
(* The life of a task: the inbox files (validator/inbox.py), the handler   *)
(* that submits one (validator/api.py), and the validator loop that claims *)
(* a task, runs it, records the scores and settles the file                *)
(* (neurons/validator.py), with a crash and a restart at every step.       *)
(*                                                                         *)
(* The state of a task is the suffix of its inbox file.  "json" stands for *)
(* the empty suffix (pending) and "tmp" for the file a submission writes   *)
(* before it renames it.                                                   *)
(***************************************************************************)
EXTENDS Naturals

CONSTANTS
    Tasks,          \* task files, as numbers in the order sorted() lists them
    Named,          \* the tasks whose document carries its task_id
    Hotkeys,        \* the miners' hotkeys
    MaxCrashes,     \* bound on the crashes of the validator process
    MaxLostWrites   \* bound on scorebook writes lost to a swallowed OSError

ASSUME TasksAssumption == Tasks \subseteq Nat \ {0} /\ Named \subseteq Tasks
ASSUME BoundsAssumption == MaxCrashes \in Nat /\ MaxLostWrites \in Nat

VARIABLES
    inbox,      \* inbox[t]: the suffixes under which a file of t exists
    written,    \* the tasks whose document has been written to its end
    pc,         \* where the validator process is
    cur,        \* the task the loop has claimed
    orphans,    \* recover_orphaned's listing, what is left of it to rename
    repo,       \* the tasks whose <output>/<task_id>/repo exists
    patch,      \* <output>/<task_id>/patch.diff
    result,     \* <output>/<task_id>/result.json
    paid,       \* the per_hotkey keys of result.json
    perHotkey,  \* the run's own per_hotkey
    toRecord,   \* the hotkeys the scoring loop has still to record
    book,       \* scores of each <<task, hotkey>> in the ScoreBook in memory
    disk,       \* ... and in scorebook.json
    crashes, lostWrites

outputs == <<repo, patch, result, paid>>
scores == <<perHotkey, toRecord, book, disk, lostWrites>>
vars == <<inbox, written, pc, cur, orphans, outputs, scores, crashes>>

NoTask == 0
Suffixes == {"tmp", "json", "working", "done", "failed"}
FileStates == {"absent", "partial", "whole"}

\* Program points of run_one_task, then of the loop around it.
RunSteps == {"copy", "decompose", "discover", "dispatch", "record",
             "patch", "patching", "result", "writing"}
Claimed == RunSteps \cup {"finish", "fail"}
Steps == Claimed \cup {"down", "recover", "poll"}

Has(t, suffix) == suffix \in inbox[t]
Rename(t, from, to) ==
    inbox' = [inbox EXCEPT ![t] = (@ \ {from}) \cup {to}]

\* t = sorted(S)[0]
IsFirst(t, S) == t \in S /\ \A u \in S : t <= u

Settled(t) == Has(t, "done") \/ Has(t, "failed")

\* Documents without a task_id work in a directory with a fresh name, which
\* no later run and no client finds.
InOwnDir(f, value) == IF cur \in Named THEN [f EXCEPT ![cur] = value] ELSE f

TypeOK ==
    /\ inbox \in [Tasks -> SUBSET Suffixes]
    /\ written \subseteq Tasks
    /\ pc \in Steps
    /\ cur \in Tasks \cup {NoTask}
    /\ pc \in Claimed => cur \in Tasks
    /\ orphans \subseteq Tasks
    /\ repo \subseteq Tasks
    /\ patch \in [Tasks -> FileStates]
    /\ result \in [Tasks -> FileStates]
    /\ paid \in [Tasks -> SUBSET Hotkeys]
    /\ perHotkey \subseteq Hotkeys
    /\ toRecord \subseteq Hotkeys
    /\ book \in [Tasks \X Hotkeys -> Nat]
    /\ disk \in [Tasks \X Hotkeys -> Nat]
    /\ crashes \in 0..MaxCrashes
    /\ lostWrites \in 0..MaxLostWrites

Init ==
    /\ inbox = [t \in Tasks |-> {}]
    /\ written = {}
    /\ pc = "down"
    /\ cur = NoTask
    /\ orphans = {}
    /\ repo = {}
    /\ patch = [t \in Tasks |-> "absent"]
    /\ result = [t \in Tasks |-> "absent"]
    /\ paid = [t \in Tasks |-> {}]
    /\ perHotkey = {}
    /\ toRecord = {}
    /\ book = [p \in Tasks \X Hotkeys |-> 0]
    /\ disk = book
    /\ crashes = 0
    /\ lostWrites = 0

-----------------------------------------------------------------------------
(* Submission: POST /tasks, or an operator calling submit_task.            *)

\* open(tmp, "w"): the document is not complete until the file is closed.
\* A handler that dies here leaves the .tmp file behind for good.
OpenTaskFile(t) ==
    /\ inbox[t] = {}
    /\ inbox' = [inbox EXCEPT ![t] = {"tmp"}]
    /\ UNCHANGED <<written, pc, cur, orphans, outputs, scores, crashes>>

PublishTaskFile(t) ==
    /\ Has(t, "tmp")
    /\ written' = written \cup {t}
    /\ Rename(t, "tmp", "json")
    /\ UNCHANGED <<pc, cur, orphans, outputs, scores, crashes>>

-----------------------------------------------------------------------------
(* The validator process starts, requeues what a crash left, and polls.    *)

\* Mutation: the loop starts without recover_orphaned.
StartWithoutRecovery ==
    /\ pc = "down"
    /\ pc' = "recover"
    /\ orphans' = {}
    /\ book' = disk
    /\ UNCHANGED <<inbox, written, cur, outputs, perHotkey, toRecord, disk,
                   lostWrites, crashes>>

Start ==
    /\ pc = "down"
    /\ pc' = "recover"
    /\ orphans' = {t \in Tasks : Has(t, "working")}
    /\ book' = disk
    /\ UNCHANGED <<inbox, written, cur, outputs, perHotkey, toRecord, disk,
                   lostWrites, crashes>>

\* Mutation: the stranded file is copied back, not renamed.
RecoverByCopy(t) ==
    /\ pc = "recover"
    /\ IsFirst(t, orphans)
    /\ inbox' = [inbox EXCEPT ![t] = @ \cup {"json"}]
    /\ orphans' = orphans \ {t}
    /\ UNCHANGED <<written, pc, cur, outputs, scores, crashes>>

RecoverOne(t) ==
    /\ pc = "recover"
    /\ IsFirst(t, orphans)
    /\ Rename(t, "working", "json")
    /\ orphans' = orphans \ {t}
    /\ UNCHANGED <<written, pc, cur, outputs, scores, crashes>>

RecoverEnd ==
    /\ pc = "recover"
    /\ orphans = {}
    /\ pc' = "poll"
    /\ UNCHANGED <<inbox, written, cur, orphans, outputs, scores, crashes>>

\* No other process removes a .json file, so listing and renaming are one step.
Claim(t) ==
    /\ pc = "poll"
    /\ IsFirst(t, {u \in Tasks : Has(u, "json")})
    /\ cur' = t
    /\ Rename(t, "json", "working")
    /\ pc' = "copy"
    /\ UNCHANGED <<written, orphans, outputs, scores, crashes>>

-----------------------------------------------------------------------------
(* run_one_task                                                            *)

Goto(step) ==
    /\ pc' = step
    /\ UNCHANGED <<inbox, written, cur, orphans, crashes>>

\* Mutation: copytree(..., dirs_exist_ok=True).
CopyOverOldTarget ==
    /\ pc = "copy"
    /\ cur \in written
    /\ repo' = IF cur \in Named THEN repo \cup {cur} ELSE repo
    /\ Goto("decompose")
    /\ UNCHANGED <<patch, result, paid, scores>>

\* Reads the document, then copies the target.  copytree has no
\* dirs_exist_ok, so a repo left by an earlier run of the task stops it.
CopyTarget ==
    /\ pc = "copy"
    /\ cur \in written
    /\ cur \notin repo
    /\ repo' = IF cur \in Named THEN repo \cup {cur} ELSE repo
    /\ Goto("decompose")
    /\ UNCHANGED <<patch, result, paid, scores>>

Decomposed ==
    /\ pc = "decompose"
    /\ Goto("discover")
    /\ UNCHANGED <<outputs, scores>>

\* decompose returned None: logged, and run_one_task returns normally.
DecompositionFailed ==
    /\ pc = "decompose"
    /\ Goto("finish")
    /\ UNCHANGED <<outputs, scores>>

MinersFound ==
    /\ pc = "discover"
    /\ Goto("dispatch")
    /\ UNCHANGED <<outputs, scores>>

\* No StatusSynapse answered available: also a normal return.
NoMiners ==
    /\ pc = "discover"
    /\ Goto("finish")
    /\ UNCHANGED <<outputs, scores>>

\* Every dispatch has answered and merge_and_test has scored them: each
\* hotkey that was given a subtask has an entry.
DispatchAndMerge(earners) ==
    /\ pc = "dispatch"
    /\ perHotkey' = earners
    /\ toRecord' = earners
    /\ Goto("record")
    /\ UNCHANGED <<outputs, book, disk, lostWrites>>

\* Mutation: record does not persist.
RecordInMemory(h) ==
    /\ pc = "record"
    /\ h \in toRecord
    /\ toRecord' = toRecord \ {h}
    /\ book' = [book EXCEPT ![<<cur, h>>] = @ + 1]
    /\ Goto("record")
    /\ UNCHANGED <<outputs, perHotkey, disk, lostWrites>>

\* ScoreBook.record appends in memory and rewrites the file (tmp + replace);
\* an OSError of the write is swallowed.
Record(h) ==
    /\ pc = "record"
    /\ h \in toRecord
    /\ toRecord' = toRecord \ {h}
    /\ book' = [book EXCEPT ![<<cur, h>>] = @ + 1]
    /\ \/ disk' = book' /\ UNCHANGED lostWrites
       \/ /\ lostWrites < MaxLostWrites
          /\ lostWrites' = lostWrites + 1
          /\ UNCHANGED disk
    /\ Goto("record")
    /\ UNCHANGED <<outputs, perHotkey>>

RecordEnd ==
    /\ pc = "record"
    /\ toRecord = {}
    /\ Goto("patch")
    /\ UNCHANGED <<outputs, scores>>

\* write_patch_artifact opens and fills patch.diff in place.
OpenPatch ==
    /\ pc = "patch"
    /\ patch' = InOwnDir(patch, "partial")
    /\ Goto("patching")
    /\ UNCHANGED <<repo, result, paid, scores>>

\* No merge repo, or no usable git history: nothing is written.
SkipPatch ==
    /\ pc = "patch"
    /\ Goto("result")
    /\ UNCHANGED <<outputs, scores>>

ClosePatch ==
    /\ pc = "patching"
    /\ patch' = InOwnDir(patch, "whole")
    /\ Goto("result")
    /\ UNCHANGED <<repo, result, paid, scores>>

\* result.json is also opened and filled in place.
OpenResult ==
    /\ pc = "result"
    /\ result' = InOwnDir(result, "partial")
    /\ Goto("writing")
    /\ UNCHANGED <<repo, patch, paid, scores>>

CloseResult ==
    /\ pc = "writing"
    /\ result' = InOwnDir(result, "whole")
    /\ paid' = InOwnDir(paid, perHotkey)
    /\ Goto("finish")
    /\ UNCHANGED <<repo, patch, scores>>

\* Any step of run_one_task may raise, ScoreBook.record excepted, and so may the
\* rename to .done that follows it: the task then fails, with all it has written.
Raise ==
    /\ pc \in (RunSteps \ {"record"}) \cup {"finish"}
    /\ Goto("fail")
    /\ UNCHANGED <<outputs, scores>>

-----------------------------------------------------------------------------
(* The loop settles the claimed file; the process may crash anywhere.      *)

Settle(step, suffix) ==
    /\ pc = step
    /\ Rename(cur, "working", suffix)
    /\ pc' = "poll"
    /\ UNCHANGED <<written, cur, orphans, outputs, scores, crashes>>

Finish == Settle("finish", "done")
Fail == Settle("fail", "failed")

Crash ==
    /\ pc # "down"
    /\ crashes < MaxCrashes
    /\ crashes' = crashes + 1
    /\ pc' = "down"
    /\ UNCHANGED <<inbox, written, cur, orphans, outputs, scores>>

-----------------------------------------------------------------------------

Submission(t) == OpenTaskFile(t) \/ PublishTaskFile(t)

RunOneTask ==
    \/ CopyTarget
    \/ Decomposed \/ DecompositionFailed
    \/ MinersFound \/ NoMiners
    \/ \E earners \in (SUBSET Hotkeys) \ {{}} : DispatchAndMerge(earners)
    \/ \E h \in Hotkeys : Record(h)
    \/ RecordEnd
    \/ OpenPatch \/ SkipPatch \/ ClosePatch
    \/ OpenResult \/ CloseResult
    \/ Raise

Validator ==
    \/ Start \/ RecoverEnd
    \/ \E t \in Tasks : RecoverOne(t) \/ Claim(t)
    \/ RunOneTask
    \/ Finish \/ Fail

Next ==
    \/ \E t \in Tasks : Submission(t)
    \/ Validator
    \/ Crash

\* The validator process is restarted after a crash and keeps stepping.
\* Nothing obliges a client to submit, nor a submission to complete.
Spec == Init /\ [][Next]_vars /\ WF_vars(Validator)

-----------------------------------------------------------------------------
(* Properties                                                              *)

\* A task is in one state: no interleaving of a submission, a claim, a crash
\* and a recovery leaves files of one task under two suffixes, which
\* task_status would resolve by its own order (inbox.py, _SUFFIXES).
OneState == \A t \in Tasks : \A a, b \in inbox[t] : a = b

\* A .working file means exactly what inbox.py says once recovery is over:
\* a loop is running that task right now.
WorkingIsClaimed ==
    pc \notin {"down", "recover"} =>
        \A t \in Tasks : Has(t, "working") <=> (pc \in Claimed /\ t = cur)

\* The loop never opens a task document that its submitter has not finished
\* writing (the reason submit_task writes a .tmp file and renames it).
ClaimedIsWritten == pc \in Claimed => cur \in written

\* The three together: at every interleaving of submissions, claims, crashes and
\* an interrupted recovery, each task has one file, the loop runs the task whose
\* file says so, and that file is whole.
InboxConsistent == OneState /\ WorkingIsClaimed /\ ClaimedIsWritten

\* A task with an id pays each hotkey at most once, in memory and on disk,
\* however often it is requeued: a second run never gets as far as scoring.
CreditedOnce ==
    \A t \in Named, h \in Hotkeys : book[<<t, h>>] <= 1 /\ disk[<<t, h>>] <= 1

\* The API attaches result.json to a "done" answer, and serves patch.diff, as
\* it finds them: a done task never shows a file that a crash cut short, nor
\* one that is still being written.
DoneArtifactsWhole ==
    \A t \in Tasks : Has(t, "done") => result[t] # "partial" /\ patch[t] # "partial"

\* The published result of a task and the scorebook agree: as long as no
\* scorebook write was lost, exactly the hotkeys of per_hotkey are credited.
LedgerMatchesResult ==
    \A t \in Named : result[t] = "whole" /\ lostWrites = 0 =>
        \A h \in Hotkeys : disk[<<t, h>>] = IF h \in paid[t] THEN 1 ELSE 0

\* .done and .failed are final: no step, recovery included, reopens a task.
SettledIsFinal ==
    [][\A t \in Tasks : Settled(t) => inbox'[t] = inbox[t]]_vars

\* task_status on the suffixes a task has files under, in the order it probes.
StatusOf(files) ==
    CASE "json" \in files -> "pending"
      [] "json" \notin files /\ "working" \in files -> "working"
      [] files \cap {"json", "working"} = {} /\ "done" \in files -> "done"
      [] files \cap {"json", "working", "done"} = {} /\ "failed" \in files -> "failed"
      [] OTHER -> "unknown"

\* What the inbox promises (TaskQueue), with the status read off the files.
Queue == INSTANCE TaskQueue WITH status <- [t \in Tasks |-> StatusOf(inbox[t])]

\* Every behaviour of the inbox files and of the validator loop is one of the
\* abstract queue, settling of submitted tasks included.
ImplementsQueue == Queue!Spec

==============================================================================
