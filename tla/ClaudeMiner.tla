----------------------------- MODULE ClaudeMiner ------------------------------
(***************************************************************************)
(* The miner backend that drives the claude CLI (miner/agent_cc.py): the   *)
(* CLI edits a workspace, then its work is verified.  In scaffold mode the *)
(* tests are run in that very workspace; in diff mode the patch is replayed*)
(* on a pristine worktree of the baseline and tested there.                *)
(*                                                                         *)
(* The CLI may run any git command, so another commit or a stash, or none, *)
(* may come to carry the subject line the baseline is searched by; a CLI   *)
(* that is killed at its timeout may leave a command behind that goes on   *)
(* writing.                                                                *)
(***************************************************************************)
EXTENDS Naturals, FiniteSets

CONSTANTS
    Files,      \* paths in the workspace
    Allowed,    \* modify_files of a diff subtask, allowed_files of another
    TestFiles,  \* its test files
    Texts,      \* contents of a file
    Absent,     \* no such file
    Original    \* the scaffold commit: the workspace the CLI is given

Workspaces == [Files -> Texts \cup {Absent}]

\* Assumed by the module that instantiates this one.
ClaudeAssumption ==
    /\ Allowed \subseteq Files /\ IsFiniteSet(Files)
    /\ IsFiniteSet(TestFiles)
    /\ Original \in Workspaces

VARIABLES
    mode,       \* "scaffold" or "diff"
    disk,       \* the workspace
    job,        \* the rest of the assignment: its files, its tests, its siblings
    step,
    exit,       \* how the CLI ended
    baseline,   \* tree of the commit a patch is taken against, or NoTree
    found,      \* _find_baseline_hash finds that commit by its subject
    worktree,   \* the replay worktree, or NoTree
    todo,       \* tests still to be run
    passed,     \* <<test, tree>>: the test passed in that tree
    failed,     \* not all_passed
    patch,      \* <<file, text>> pairs: what is shipped
    verdict,    \* tests_passed
    reason      \* stop_reason

claudeVars == <<job, step, exit, found, worktree, todo, passed, failed, patch, verdict, reason>>
vars == <<mode, disk, baseline, claudeVars>>

NoTree == <<>>
Trees == Workspaces \cup {NoTree}
Targeted == "targeted command"      \* make, cargo, vitest, mvn or dotnet, for one subtask
Jobs == [scope : {{}, Allowed}, tests : SUBSET TestFiles, sole : BOOLEAN, argv : BOOLEAN]
Steps == {"start", "agent", "tests", "diff", "worktree", "apply", "replay", "remove",
          "failing", "done", "raised"}

TypeOK ==
    /\ mode \in {"scaffold", "diff"} /\ disk \in Workspaces
    /\ job \in Jobs /\ step \in Steps
    /\ exit \in {"none", "ok", "nonzero", "timeout"}
    /\ baseline \in Trees /\ found \in BOOLEAN /\ worktree \in Trees
    /\ todo \subseteq TestFiles \cup {Targeted}
    /\ passed \subseteq (TestFiles \cup {Targeted}) \X Workspaces
    /\ patch \subseteq Files \X (Texts \cup {Absent})
    /\ {failed, verdict} \subseteq BOOLEAN
    /\ reason \in {"none", "tests_passed", "max_iterations"}

ClaudeInit ==
    /\ job \in Jobs
    /\ step = "start"
    /\ exit = "none"
    /\ found = TRUE
    /\ worktree = NoTree
    /\ todo = {}
    /\ passed = {}
    /\ failed = FALSE
    /\ patch = {}
    /\ verdict = FALSE
    /\ reason = "none"

Init ==
    /\ mode \in {"scaffold", "diff"}
    /\ disk = Original /\ baseline = Original
    /\ ClaudeInit

\* git diff <baseline> -- <files>, after git add -A.
DiffOf(tree, base, scope) == {<<f, tree[f]>> : f \in {g \in scope : tree[g] # base[g]}}

Patched(tree, p) ==
    [f \in Files |-> IF \E c \in Texts \cup {Absent} : <<f, c>> \in p
                     THEN CHOOSE c \in Texts \cup {Absent} : <<f, c>> \in p
                     ELSE tree[f]]

\* A CLI that was killed or that failed keeps its reason, whatever the tests say.
ReasonFor(ok) == IF ok /\ exit = "ok" THEN "tests_passed" ELSE "max_iterations"

Answer(ok) ==
    /\ verdict' = ok
    /\ reason' = ReasonFor(ok)

\* The CLI is not installed.
NoCli ==
    /\ step = "start"
    /\ step' = "done"
    /\ Answer(FALSE)
    /\ UNCHANGED <<mode, disk, job, exit, baseline, found, worktree, todo, passed, failed, patch>>

StartCli ==
    /\ step = "start"
    /\ step' = "agent"
    /\ UNCHANGED <<mode, disk, job, exit, baseline, found, worktree, todo, passed, failed, patch,
                   verdict, reason>>

Edit ==
    \E f \in Files, c \in Texts \cup {Absent} : disk' = [disk EXCEPT ![f] = c]

CliEdits ==
    /\ step = "agent"
    /\ Edit
    /\ UNCHANGED <<mode, baseline, claudeVars>>

\* git log --all lists an amended scaffold commit, or a stash that is kept ("WIP on main:
\* ... <subject>"), before the scaffold commit itself.
CliQuotesSubject ==
    /\ step = "agent"
    /\ baseline' = disk /\ found' = TRUE
    /\ UNCHANGED <<mode, disk, job, step, exit, worktree, todo, passed, failed, patch, verdict,
                   reason>>

\* The subject is amended away, or the history started anew: what is left to compare with
\* is HEAD; without .git, nothing.
CliLosesSubject ==
    /\ step = "agent"
    /\ baseline' \in {disk, NoTree} /\ found' = FALSE
    /\ UNCHANGED <<mode, disk, job, step, exit, worktree, todo, passed, failed, patch, verdict,
                   reason>>

\* A command the killed CLI had started.
OrphanWrites ==
    /\ exit = "timeout"
    /\ step \notin {"done", "raised"}
    /\ Edit
    /\ UNCHANGED <<mode, baseline, claudeVars>>

\* What is to be run when the CLI is gone: one targeted command, or the files.
FinalTests == IF job.argv THEN {Targeted} ELSE job.tests

CliExits ==
    /\ step = "agent"
    /\ exit' \in {"ok", "nonzero", "timeout"}
    /\ IF mode = "diff" THEN step' = "diff" /\ todo' = job.tests
                        ELSE step' = "tests" /\ todo' = FinalTests
    /\ UNCHANGED <<mode, disk, job, baseline, found, worktree, passed, failed, patch,
                   verdict, reason>>

\* The CLI cannot be started, or prints what is no text.
CliRaises ==
    /\ step = "agent"
    /\ step' = "raised"
    /\ UNCHANGED <<mode, disk, job, exit, baseline, found, worktree, todo, passed, failed, patch,
                   verdict, reason>>

\* A test passes (or collects nothing), or fails, times out or cannot be run.
TestIn(tree, t) ==
    /\ todo' = todo \ {t}
    /\ \/ passed' = passed \cup {<<t, tree>>} /\ failed' = failed
       \/ passed' = passed /\ failed' = TRUE

\* _run_final_tests, in the CLI's own workspace.
FinalTest ==
    /\ step = "tests"
    /\ \E t \in todo : TestIn(disk, t)
    /\ UNCHANGED <<mode, disk, job, step, exit, baseline, found, worktree, patch,
                   verdict, reason>>

\* _generate_patch: with no commit of that subject, git diff --cached.
GeneratePatch ==
    /\ step = "tests" /\ todo = {}
    /\ patch' = IF baseline = NoTree THEN {} ELSE DiffOf(disk, baseline, job.scope)
    /\ Answer(~failed)
    /\ step' = "done"
    /\ UNCHANGED <<mode, disk, job, exit, baseline, found, worktree, todo, passed, failed>>

\* No modify_files, no baseline, or no file that was changed: nothing can ship.
NothingToReplay ==
    /\ step = "diff"
    /\ found => DiffOf(disk, baseline, job.scope) = {}
    /\ Answer(FALSE)
    /\ step' = "done"
    /\ UNCHANGED <<mode, disk, job, exit, baseline, found, worktree, todo, passed, failed, patch>>

TakeDiff ==
    /\ step = "diff" /\ found
    /\ DiffOf(disk, baseline, job.scope) # {}
    /\ patch' = DiffOf(disk, baseline, job.scope)
    /\ step' = "worktree"
    /\ UNCHANGED <<mode, disk, job, exit, baseline, found, worktree, todo, passed, failed,
                   verdict, reason>>

\* Mutation: the replay is done on a copy of the workspace.
WorktreeOfWorkspace ==
    /\ step = "worktree"
    /\ worktree' = disk
    /\ step' = "apply"
    /\ UNCHANGED <<mode, disk, job, exit, baseline, found, todo, passed, failed, patch,
                   verdict, reason>>

AddWorktree ==
    /\ step = "worktree"
    /\ worktree' = baseline
    /\ step' = "apply"
    /\ UNCHANGED <<mode, disk, job, exit, baseline, found, todo, passed, failed, patch,
                   verdict, reason>>

ApplyPatch ==
    /\ step = "apply"
    /\ worktree' = Patched(worktree, patch)
    /\ step' = "replay"
    /\ UNCHANGED <<mode, disk, job, exit, baseline, found, todo, passed, failed, patch,
                   verdict, reason>>

\* worktree add or apply fails (a binary file), or a test run times out.
ReplayFails ==
    /\ step \in {"worktree", "apply", "replay"}
    /\ step = "replay" => todo # {}
    /\ step' = "remove"
    /\ Answer(FALSE)
    /\ UNCHANGED <<mode, disk, job, exit, baseline, found, worktree, todo, passed, failed, patch>>

\* A test cannot be run: the exception passes through the finally clause.
ReplayRaises ==
    /\ step = "replay" /\ todo # {}
    /\ step' = "failing"
    /\ UNCHANGED <<mode, disk, job, exit, baseline, found, worktree, todo, passed, failed, patch,
                   verdict, reason>>

ReplayTest ==
    /\ step = "replay"
    /\ \E t \in todo : TestIn(worktree, t)
    /\ UNCHANGED <<mode, disk, job, step, exit, baseline, found, worktree, patch,
                   verdict, reason>>

\* Failing tests are final when there is no sibling whose work they may need.
Judge ==
    /\ step = "replay" /\ todo = {}
    /\ Answer(~failed \/ ~job.sole)
    /\ step' = "remove"
    /\ UNCHANGED <<mode, disk, job, exit, baseline, found, worktree, todo, passed, failed, patch>>

RemoveWorktree ==
    /\ step \in {"remove", "failing"}
    /\ worktree' = NoTree
    /\ step' = IF step = "remove" THEN "done" ELSE "raised"
    /\ UNCHANGED <<mode, disk, job, exit, baseline, found, todo, passed, failed, patch,
                   verdict, reason>>

Proceed ==
    \/ NoCli \/ StartCli \/ CliExits \/ CliRaises
    \/ FinalTest \/ GeneratePatch
    \/ NothingToReplay \/ TakeDiff \/ AddWorktree \/ ApplyPatch
    \/ ReplayFails \/ ReplayRaises \/ ReplayTest \/ Judge \/ RemoveWorktree

Next == Proceed \/ CliEdits \/ CliQuotesSubject \/ CliLosesSubject \/ OrphanWrites

\* The CLI and every test run have a timeout; what they write is their business.
Spec == Init /\ [][Next]_vars /\ WF_vars(Proceed)

-----------------------------------------------------------------------------
(* Properties                                                              *)

\* The verdict of diff mode is about what ships: a patch, of modify_files only, and, if the
\* subtask has no sibling and git commands have not moved the baseline, one that every test
\* of the subtask passed with when it was applied to the tree the miner was given, whatever
\* else the workspace holds.
VerdictIsAboutPatch ==
    mode = "diff" /\ step = "done" /\ verdict =>
        /\ patch # {}
        /\ \A pair \in patch : pair[1] \in job.scope
        /\ job.sole /\ baseline = Original =>
              \A t \in job.tests : <<t, Patched(Original, patch)>> \in passed

\* miner/agent.py:263, "This is robust against any git operations the miner may
\* have run during its tool-use loop (git add, git commit, etc.)": while there is a
\* repository, the patch holds every change of an allowed file.
PatchHoldsTheWork ==
    step = "done" /\ exit = "ok" /\ baseline # NoTree =>
        DiffOf(disk, Original, job.scope) \subseteq patch

==============================================================================
