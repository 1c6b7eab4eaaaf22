# BitSwarm verification project

BitSwarm splits a feature request into subtasks, has each one implemented by a
miner's language-model agent, merges the patches, tests the result and turns the
outcome into scores. This directory holds TLA+ models of the program's own
logic, the TLC runs that check them on small instances, and TLAPS proofs of
theorems about them. Paths are relative to `src/`.

The models keep the control of the code (order of steps, guards, early returns,
error paths, what is written where) and abstract its data: a patch either lands
or not, a file's content is known by who wrote it, what a language model answers and
what a test run prints is any outcome. Definitions that begin with the word
*Mutation* in their comment are plausible bugs of the definition they stand
before; each property is violated when one of them replaces that definition.

    tlasany M.tla                                  parse a module
    tlc -workers 2 -config X.cfg MCM.tla           check a run
    tlapm XProofs.tla                              check the proofs of a component

## Inventory

How a task moves through the program:

    client -> api.py -> inbox files -> neurons/validator.py (loop)
        -> decomposer.py, decomposer_cc.py (cache, validators)
        -> holdback.py -> scaffolder.py
        -> server.py:dispatch_to_miners -> miner/server.py or neurons/miner.py
             -> miner/runtime.py -> agent.py + recovery.py + tools.py
                                    or agent_cc.py (the claude CLI)
        -> merge.py (scaffold mode) or diff_merge.py (diff mode)
        -> weights.py (ScoreBook) -> result.json, patch.diff -> .done / .failed

| Component | State | Operations | What is hard | What makes it correct | Modules |
|---|---|---|---|---|---|
| Task inbox and loop (`validator/inbox.py`, `neurons/validator.py`) | `*.json[.working/.done/.failed]`, a directory per task, the process | submit, recover, claim, run, settle | crash between any two file operations; the loop's files are read by another process | a task is never lost, doubled, run unfinished or credited twice | TaskLifecycle, TaskQueue |
| Submission API (`validator/api.py`) | none; reads the inbox | submit, status, patch | `task_status` probes four names while the loop renames | polls never lose a task or see it go back; a patch once served as final stays | StatusApi (partly: no authentication, no validation of requests) |
| Scorebook (`validator/weights.py`) | scores per hotkey, `scorebook.json`, the time of the last submission | record, effective, weight_vector, submit | a failed write is swallowed; uids are positions in a metagraph that changes | no more than the newest scores are lost; one task moves a score by a bounded amount; weights keep being submitted | ScoreBook |
| Miner gate and runtime (`miner/server.py`, `neurons/miner.py`, `miner/runtime.py`) | an `asyncio.Lock`, worker threads, temporary workspaces | accept or refuse, unbundle, select a backend, run, time out, clean up | a thread cannot be cancelled and outlives its request | one assignment at a time; no workspace is taken from an agent; each assignment gets one well-formed answer | MinerRuntime, MinerBackends (partly: no stake blacklist, no chain registration) |
| Dispatch (`validator/server.py`) | a lock, the working repository of a task, one result per subtask | submit, prepare, send, receive, give up, gather | timeouts on both sides; tasks share an output directory; miners are shared with other validators | every submission is answered; a task is dispatched from its own repository | Dispatch |
| Coordinator (`decomposer.py`, `decomposer_cc.py`, `cache.py`, `holdback.py`, `scaffolder.py`) | cache file, phase workspaces, working repository, held-back tests | look up, plan, write tests, write files, validate, hold back, commit, restore, reveal | rejected candidates and earlier tasks leave files behind, which the commit takes in; the commit or a restore may fail; patches and repair agents reach gate tests | miners get the accepted scaffold, of one attempt, and nothing else but what is known to lie there; scoring uses the coordinator's gate tests | Coordinator |
| Decomposition validators (`validator_checks*.py`, `diff_validator.py`) | a search's stack; stub tests are written to disk | check graph, files, imports, interfaces; run the stub tests | two depth-first searches with early returns; names that shadow each other | only a sound plan is accepted, and a sound one is refused for one lint only | DecompositionChecks, InterfaceContracts |
| Scaffold merge (`merge.py`, `repair*.py`, `drop_replace.py`, `scorer.py`) | merge repository, tiers, verdicts, scores | form a tier, apply, test, replace, repair, integrate, score | repairs change a tree that was already judged; cycles | order follows dependencies; credit rests on tests beside the peers that had landed; only a repair agent can undo it | ScaffoldMerge |
| Diff merge (`diff_merge.py`) | merge repository, failing sets, verdicts | collect, apply, restore, reveal, gate, repair, compare, score | two test runs are compared that may be read differently; canonical tests have to be put back at the right moment | only new failures cost, and they do; gates run the coordinator's tests | DiffMerge |
| Test runners and sandbox (`test_runner.py`, `test_runners.py`, `sandbox.py`) | none | choose a command, run it | two different ways to choose | | TestRunners (partly), operators of both merges |
| Agent loop (`miner/agent.py`, `agent_openai.py`, `recovery.py`) | retry counters, error variants, the workspace | call, write, run tests, wipe, stop, take the patch | three counters over one stream of runs, each with its own idea of an error | stops in time and for the reason it states; wipes the work only after one test failed in several ways | AgentLoop |
| Miner tools (`miner/tools.py`) | workspace files | read, write, bash, search | the interface check compares with a file that everything else may change | an implementation defines the names of its stub, in the files it may write | MinerTools (partly: no command blocklist, no truncation) |
| Claude Code backend (`miner/agent_cc.py`) | a subprocess, the workspace, a worktree | run the CLI, find the baseline, test, replay, clean up | the CLI runs any git command, which moves the baseline or loses it; killed, it leaves commands behind that go on writing | a verdict is about what ships | ClaudeMiner, MinerBackends |
| Protocol (`protocol/`) | none | bundle, unbundle | | | outcomes in MinerRuntime and Dispatch |
| Language profiles and parsers, prompts, critique, preflight, demo, docker, config | none, or text | | | | not modelled |

## Modules

**TaskQueue** is the abstract task queue: a task is unknown, pending, working,
done or failed, and every submitted task is eventually settled.

**TaskLifecycle** is `inbox.py`, the loop of `neurons/validator.py`, and the scores and
artifacts of a task. `inbox[t]` is the set of
suffixes under which files of a task exist, `pc` the step of `run_one_task`, and
each file operation is a step of its own (`OpenTaskFile`, `PublishTaskFile`,
`Claim`, `OpenPatch`, `ClosePatch`, `OpenResult`, ...), so that `Crash` and a
restart (`Start`, `RecoverOne`, `RecoverEnd`) can come between any two. Its property
`ImplementsQueue` is `TaskQueue`'s specification under a refinement mapping.

**StatusApi** extends it with a client: a `GET` probes one suffix per step (`Probe`), in the
order of `_SUFFIXES`, while the loop goes on renaming; the result and the patch are read in
steps of their own (`LoadResult`, `FetchPatch`).

**ScoreBook** is `weights.py` under the same loop: the window, the moving average (`Ema`, a recursive function in whole
units that make it exact), the atomic replacement of the file, the weights by uid and their submission, while
hotkeys register on the chain, writes fail and the validator crashes. A file that is no JSON loads as empty; one that is JSON but no
object ends the process (`Starts`).

**MinerRuntime** is a miner: the single-task gate, `run_assignment` with its
deadline, worker thread and workspace. The thread goes on after `Deadline`.
`EagerTasks` says whether the event loop starts new tasks at once; with FALSE,
Python's default, `wait_for(lock.acquire(), 0)` always refuses.

**Dispatch** extends it with the validator's server: `submit` and its lock, the working
repository of each task, `dispatch_to_miners` (round robin, one request per
subtask, the client's timeout `GiveUp`, possible at any moment), the gather and the merge
that follows. What `run_task` calls in between is modelled by modules of its own.

**MinerTools**, **AgentLoop** and **ClaudeMiner** are what a miner runs, and **MinerBackends**
composes them: it is the rest of `run_assignment` (the protocol check, the choice of a backend, the answer).
AgentLoop extends MinerTools; ClaudeMiner is instantiated over the same workspace.

- In MinerTools, a file is what the checks of `file_write` see of it: is it Python, and which public names does
  it define. Commands (`bash`) change files without any check, and git commands move the `baseline` a patch is taken against
  (`ShellGit`).
- In AgentLoop, a test run is the set of tests it names as failed, with their exceptions, and an exit code that need not
  agree. `Noted` is what the line parser of `extract_per_test_errors` stores, which is not
  the exception of the test it is stored under (`Summary`, `Last`).
- In ClaudeMiner, `baseline` is the tree of the commit `_find_baseline_hash` finds. Commits and stashes that quote its subject
  move it (`CliQuotesSubject`); without a commit of that subject (`CliLosesSubject`) the scaffold mode compares with HEAD and the
  diff mode ships nothing. A CLI killed at its timeout may leave an orphaned command behind that writes at any later moment;
  each step of the replay may fail, time out or raise. `passed` records on which tree each test passed.

**Coordinator** is `decompose` (cache, attempts, both backends, `validate_fn`), the three
phases of `decomposer_cc.py` with their workspaces (`areas`), what
`verify_stub_tests_fail` writes into the working repository and never takes away (`left`), `apply_holdback`,
`write_scaffolding` with its `git add -A`, whose commit may fail unnoticed (`CommitFails`), and the way of the gate tests into the merge
repository: `Merge` (the patches of a diff and the repair agents of a scaffold may edit any of them), `Restore` (the checkout of the
listed ones, all or none) and `Reveal` (`reveal_into_repo`). A file's content is the
attempt and the phase it comes from, so that stale content is visible. What one call comes with is a set of files out of
`Responses`.

**DecompositionChecks** is both validators, every check of them, and the writing of the candidate, which may raise half-way
(`WriteFails`); the two searches for cycles are modelled step by step
(`visited`, `path`, `rest`) and compared with a reference definition of a cycle. **InterfaceContracts** is the check of
names and arguments across files, as operators on what a parser reports of each file, compared with a definition that
does not depend on the order of files.

**TestRunners** has the choice of a test command and of what can be read from its output, as operators of
the two merges.

**ScaffoldMerge** is `merge_and_test`, with both repair backends, drop and replace, the
integration tests and `compute_scores`. `code[s]` is the content of a subtask's
files in the merge repository, `verdict` is `stub_results`. A repair agent has a shell in the merge repository
(`AgentEdits`): it may bring any subtask's code, take it away or rewrite its tests. `round` counts the agents that have had the
tree; `landedAt[s]`, `passedAt[s]` and `sawReal[s]` are history variables (in which round the patch of `s` landed and its tests
passed, and what was there of the code that landed in that round).
`RepairClaims` is the SDK repair that believes a bash command. `compute_tiers` forms
all tiers before the first patch; the model forms each when it is used, which
is the same as tiers depend on `deps` only. Cyclic graphs are within reach:
`demo/run_pipeline.py:165-174` validates no decomposition of other languages than
Python.

**DiffMerge** is `merge_and_test_diff`. The depth-first search of `topological_order` is modelled step by step: `calls`
are the calls of its `visit` that have not returned (`Visit`, `Return`), `order` is what they have appended, and
`Apply` takes the patches from its front. `tests[g]` says whether a gate test in the merge
repository is the coordinator's text, an edit of a miner's or one with conflict markers, `truth` which tests really fail on the two
trees, `run` how much of each run the collector could read, `failing` what it made
of it, `reports` what the JUnit reports lying in each tree say; `passed` and `genuine` are history variables of the gates.
pytest is external: `collect_failing_nodeids` passes `-rN`, which empties the report characters, and looks
for summary lines that are then not printed.

**MC...** modules give constants their values. The theorems are in **TaskLifecycleProofs** (with StatusApi),
**ScoreBookProofs**, **DispatchProofs** (with MinerRuntime), **MinerBackendsProofs** (with MinerTools, AgentLoop and
ClaudeMiner), **CoordinatorProofs**, **DecompositionProofs** (with InterfaceContracts), **ScaffoldMergeProofs** and
**DiffMergeProofs**.

## Runs

| Run | Instance | What it shows |
|---|---|---|
| task_lifecycle | 2 tasks (one with an id of its own), 2 hotkeys, 2 crashes, 1 lost scorebook write | one state per task, no doubled or unfinished claim (`InboxConsistent`), at most one credit per task and hotkey (`CreditedOnce`), whole artifacts of done tasks (`DoneArtifactsWhole`), results only with their scores (`LedgerMatchesResult`), and the abstract queue with its liveness (`ImplementsQueue`) |
| status_api | 2 tasks, 1 hotkey, 1 crash | "unknown" is only answered if a recovery moved the task meanwhile; polls never go back without one; what a done task showed does not change |
| scorebook | 3 hotkeys, 2 uids, window 2, scores up to 1, alpha 3/10, tempo 1, 1 crash, 1 failing write, 1 registration | what is saved is all but the records since the last good write (`SavedButTheLast`); how far one task moves a score (`DampedSwing`); weights keep being submitted (`WeightsKeepComing`) |
| dispatch | tasks of 2 and 1 subtasks for one output directory, 2 miners of which one is unreliable, 1 worker thread, eager event loop | the gate and the workspaces (`GateExclusive`, `WorkspaceOutlivesAgent`), a task's own repository (`OwnWorkspace`), and answers to every request (`EveryRequestAnswered`) and every submission (`EverySubmitAnswered`) |
| miner_backends | 2 files, 1 public name, 2 tests, 1 exception and a plain assert, 2 calls of 2 blocks, limits 3, 2 and 2 | the loop stops for the reason it gives (`StopsForItsReason`), files no command has written keep their contract (`WritesKeepContract`), a passing diff verdict is about a patch in scope and, while the baseline is where it was, about that patch on the tree the miner was given (`VerdictIsAboutPatch`), a wipe needs several variants of one failure (`WipedOnlyIfThrashing`), and the assignment is answered (`AssignmentAnswered`) |
| coordinator | 1 source file, 1 shared file, 2 gate tests, 2 attempts, holdback 0, 30 and 90 %, earlier files in cache and workspaces | what is scaffolded was validated in this run (`ValidatedBeforeUse`); of every path, the scaffold commit has the accepted content or, where there is none, what the repository had or a stub test run left (`ScaffoldIsAccepted`); attempts do not mix (`AttemptsDontMix`), gate tests written first stand (`FirstTestsStand`), and scoring sees the coordinator's text of the held-back ones and of those that the scope check or the restore protects (`GatesComplete`) |
| decomposition | all graphs of 3 subtasks, unknown and repeated ids, combinations of a dozen faults, with the right weights and the wrong ones, scaffolds that agree or not | only a sound plan is accepted, and of its structure a sound plan is refused for the text of the alias lint only (`StructureDecides`); files have to agree (`ContractsDecide`); each stub test was run and failed (`StubTestsFail`) |
| scaffold_merge | 3 subtasks, 3 graphs (2 with cycles), 3 repair modes, 2 backends, gates that run or cannot, repair agents that do anything | tiers follow dependencies (`TiersFollowDeps`); between two repair agents, credited subtasks were tested beside the code of their own and earlier tiers (`TestedOnLandedPeers`) and nothing but an agent takes them out of the tree (`CreditedIsInTree`); with claude_code they passed their own tests (`CreditedTestsPassed`); the merge ends |
| diff_merge | 3 subtasks, the first needs the others and the third the second, 2 gate tests, 3 holdbacks, 5 kinds of runner | patches follow dependencies (`DepsLandFirst`), gates run the coordinator's tests (`JudgedByCoordinator`), only new failures cost (`PenaltyOnlyForNew`), and where the gate can see them they do (`RegressionsCost`) |

Runs that show where the code departs from what it says:

| Run | Statement | What the code does |
|---|---|---|
| free_miner_refuses | `miner/server.py:60`, `neurons/miner.py:124`: only a busy miner refuses | `wait_for(lock.acquire(), 0)` cancels the acquire before its first step: an idle miner answers busy |
| patch_holds_work | `miner/agent.py:263`: the patch is robust against any git operation of the miner | under either backend, a kept stash or an amended scaffold commit is taken for the baseline, and the patch lacks the work |
| held_back_hidden | `scaffolder.py:50`: held-back tests are not sent | in scaffold mode the validator wrote them into the repository before, and `git add -A` commits them |

**Bounds.** Two tasks are enough for any interference, as the loop runs one at a
time and tasks meet only in the inbox; two crashes let one hit a recovery. In the scorebook, a window of two and a first file
longer than it make scores drop out, and a third hotkey can take over either uid. One
worker thread per miner makes a leaked thread block the next agent, as a full pool would do; with one output
directory for both submissions the second one could remove the first one's repository.
Three subtasks give chains against the order of names, forks, a cycle with a
subtask behind it and one beside it, and a diamond's two paths for the searches. Two attempts give an accepted candidate after a rejected
one; a third behaves like the second. `Responses` are eight of the sixteen sets of files a call can come with: none, all but the
shared file, each gate test with and without the stub, so that a rejected candidate can leave either behind. The agent's limits are lowered from 40, 10, 3 and 3
(`MaxCalls`, `MaxIterations`, `MaxSame`, `MaxVariants`) so that each can be reached
before each other one. Percentages 0, 30 and 90 are no holdback, the minimum of one test and the
maximum of all but one. Counters are bounded by these constants in the guards; `MaxCrashes`, `MaxLostWrites`, `MaxLost`,
`MaxMoves` and `MaxBlocks` bound the environment; `MaxAttempts`, `MaxCalls`, `MaxIterations`, `MaxSame`, `MaxVariants` and
`Window` are the code's own limits.

`CHECK_DEADLOCK FALSE` is given where a run of the component ends or the environment's bound is used up; the ends
are named by the liveness properties.

**Fairness.** `WF_vars(Validator)` in TaskLifecycle and StatusApi: the loop is a process that is run and
restarted (`Start` is one of its steps; crashes are not, and are bounded). The client and the submissions
have none. ScoreBook assumes the same of its `Loop`, that time passes (`Tick`), and, for `WeightsKeepComing` only, that a chain that is asked
again and again accepts a submission in the end (`SF_vars(Accepted)`): the code can do no more than ask again.
In Dispatch the server's event loop and its HTTP timeouts are weakly fair, and so are
the handlers of *reliable* miners; an agent's thread has no fairness at all: it may hang for ever.
In MinerBackends the steps of the runtime, of the agent loop and of `agent_cc.py` are weakly fair, as each call they make has a
timeout; what the claude CLI and its orphans write is not. ScaffoldMerge is one coroutine in which every
call has a timeout or a bound, so that `WF_vars(Next)` is what the code does. Coordinator, DiffMerge and DecompositionChecks have
no fairness and no liveness property.

## Proofs

Every safety invariant and every action property that a passing run checks, but `DampedSwing`, is a theorem for all values of the
constants. None is inductive alone; each component has one inductive invariant, a conjunction of named parts with a lemma
per part or per group of actions, and the theorems follow from it.

**TaskLifecycleProofs**, for any sets of tasks and hotkeys and any number of crashes and lost writes:

    IInv == TypeOK /\ Claims /\ Ledger /\ Artifacts

`Claims` ties the suffixes of a task to the step of the loop (a `.working` file is the current task or
waits for recovery; a pending file is written to its end), `Ledger` says that a task has been scored only if its `repo`
directory exists, which stops a second run at its copy, and `Artifacts` that a run finds no file of an earlier run in its
directory, so that whatever is truncated when a task settles makes it fail and not be done. From it: `TypeCorrect`, `InboxConsistentHolds`,
`CreditedOnceHolds`, `DoneArtifactsWholeHolds`, `SettledIsFinalHolds` (no step reopens a settled task), and `ImplementsQueueSafety`,
that every step of the loop, the submissions, crashes and recoveries is a step of TaskQueue
or a stutter. `LedgerMatchesResultHolds` adds `Paid`: as long as no write was lost, a run has credited whom its
`per_hotkey` names, but for those still to be recorded. For StatusApi, `ApiSafety` adds `ApiInv` about a poll in progress: a suffix
that was probed and not found is one the task has left, unless a recovery put it back. So `UnknownOnlyIfRequeuedHolds`, `PollsMoveForwardHolds`, `ResultsAreFinalHolds`.

**ScoreBookProofs**, for every window, alpha, and number of miners, crashes and failing writes: `BookInv` says
that for each hotkey the file lacks only the newest `n <= unsaved` of its scores (`Covered`). `SavedButTheLastHolds`.

**DispatchProofs**, for any requests, miners, pool sizes and output directories. `MinerInv`: the lock of a miner is held by
exactly the request in its gate, and a thread that outlives its request was answered with a timeout. `GateExclusiveHolds`, `WorkspaceOutlivesAgentHolds`.
On Python's default event loop every miner refuses everything (`LazyMinersRefuseAll`, under `~EagerTasks`). The
server's `Exclusive` gives `OwnWorkspaceHolds`; `DispatchImplementsMiners` shows that the server and the miners together are
a behaviour of the miners, so that what holds of these holds behind the server (`MinersSafeBehindServer`).

**MinerBackendsProofs**, for any files and tests and all retry limits. `WritesKeepContractHolds`, about files no command has written since their last reset: the stub a write is compared with
is the file on disk, which by then is another; the invariant has to say that such a file has no foreign name itself.
`VerdictIsAboutPatchHolds`: `Replayed` says, step by step of the replay, which tree the worktree holds and that every
passed test was run on it; it is the tree of the baseline as found, and the theorem claims more only where that has not been moved. `StopsForItsReasonHolds`: `LoopInv` counts the streak of runs that failed alike.
`WipedOnlyIfThrashingHolds`: every variant remembered of a test was read from a failing run.

**CoordinatorProofs**, for any paths, number of attempts, leftovers and holdback fractions; `IInv` says, layer by layer, which attempt
runs, of which attempt the files in each workspace and in the candidate are (`Provenance`), that phase 2 leaves the contract alone (`Contract`), what
has been validated, what every path of the repository holds on its way to the commit (`Scaffold`: `Accepted` content where the scaffold
writes, the rest `AsFound`), that the holdback leaves a gate test
(`Holdback`; this is the arithmetic of `select_holdback`), and which gate tests are the coordinator's after patches, restore and
reveal (`Revealed`). `ValidatedBeforeUseHolds`, `ScaffoldIsAcceptedHolds`, `GatesCompleteHolds`, `AttemptsDontMixHolds`, `FirstTestsStandHolds`.

**DecompositionProofs**, for any set of plans and every order of the search. `Stack` says that the stack is a path of the graph,
`Explored` that every dependency of a node on it is still to follow, being followed or done, and that every set of nodes that are done has one
that depends on none of the set. That last part replaces an induction over the graph: a node is left when its
dependencies are done, which keeps it true, and at the end it *is* the reference definition of an acyclic graph; where the search closes a
cycle, the end of the stack is a set without such a node. `Findings` keeps the lint's error apart from those that make a plan
unsound. `StructureDecidesHolds`, `ContractsDecideHolds` (from lemmas about which
definition a name means), `StubTestsFailHolds`.

**ScaffoldMergeProofs**, for any numbered subtasks, graphs, modes and
backends: `MergeTypeCorrect`; `TiersFollowDepsHolds`, whose core is the lemma `FallbackIsCyclic`: when nobody is ready,
the set of all who are left is closed under "depends on a member", so the fallback tier takes only what a cycle is
behind; `CreditedTestsPassedHolds` with `Judged` (a subtask has no verdict before its
turn, a verdict of the claude_code backend rests on tests that passed, scores appear in the last
step only); `TestedOnLandedPeersHolds` and `CreditedIsInTreeHolds` with `Landed`: code that landed in the present round is there
but for the subtask whose turn it is, so that one that passes has beside it what landed in that round and will be credited.
Nothing is assumed of what agents do; lemma `AgentLanded` says that all their edits do is end the round.

**DiffMergeProofs**, for any subtasks, tests, acyclic graphs, runners and holdbacks. `DepsLandFirstHolds` rests on `Sorted`: the open
calls are a path in the graph, and what a subtask in the order needs comes before it. When a call returns, none of its dependencies is
unvisited, and none is still open, as it would close a cycle with the path (lemma `ReturnsAfterDeps`). `NobodyLeftOutHolds`: the
order has every subtask, and once (`Once`). `JudgedByCoordinatorHolds`
needs the text of the gate tests from the restore to the last gate (`Restored`, `Verdicts`); `PenaltyOnlyForNewHolds` and `RegressionsCostHolds` need
what the collector made of each run in terms of what was true of the tree and of the reports lying in it (`BaseSuite`, `MergedSuite`).

**Assumptions** are the named ASSUMEs of the modules about their constants, which TLC evaluates in the runs. Most give types. The
others: a run of failures of length 1 repeats nothing (`MaxSame > 1`; the code has 3); a removed file is told from a text (`Absent \notin Texts`);
plans are sequences of records over the ids (`PlansAssumption`); the graphs of DiffMerge have no cycle, as `validate_diff_decomposition` refuses those (proved
in DecompositionProofs: `StructureDecidesHolds`); scorebook files hold scores in `0 .. Top`, or are corrupt or no object (`FilesAssumption`).

**Only model-checked.**

- Liveness (`ImplementsQueue`'s part, `EveryRequestAnswered`, `EverySubmitAnswered`, `AssignmentAnswered`, `MergeEnds`, `WeightsKeepComing`): TLAPS supports
  neither liveness under fairness nor ENABLED here.
- `DampedSwing`: a bound on a moving average needs powers of `Den` and exact division along the window, an induction
  over data in nonlinear arithmetic.
- The three runs that show departures; `LazyMinersRefuseAll` is the general form of one of them.

## Departures without a run

Found while modelling, at the lines where they are; the models follow the code.

The validator's loop and its API:

- `neurons/validator.py:152`: a requeued task meets the `repo` directory of its first run, `copytree` raises and it ends `.failed`; `docs/VALIDATING.md:53` says that crashed tasks are requeued.
- `neurons/validator.py:188-190`: with no free miner the log says "requeueing", and the task becomes `.done` without a result.
- `neurons/validator.py:250-265`: scores are persisted before `result.json`; a crash leaves scores without evidence.
- `validator/api.py:137`: a patch is served while it is being written.
- `validator/api.py:8`: during a recovery a poll can find none of the four names.
- `validator/weights.py:48-50`: a score file that is JSON but no object (`[]`, `null`) raises an AttributeError that the handler does not catch, at every start, while line 51 says "A corrupt score file must not brick the validator". In ScoreBook the validator then stays down (`Starts`).
- `validator/weights.py:13-14`: a single lucky task cannot swing a weight, but a miner's first record is taken as it is. With `BITSWARM_SCORE_WINDOW=0` the slice keeps the whole history. A restart resets `last_weights_at`.
- `validator/server.py:247-262`: `run_task` sets no `task_id`, so the holdback's seed is the constant "bitswarm"; `/submit` never passes a mode on.

The coordinator and the validators:

- `decomposer_cc.py:128` leaves a failure to "the outer retry", but its RuntimeError is not one of the exceptions `decompose` retries on.
- `validator/critique.py:17-20` says issues trigger a retry; `decomposer.py:744` treats them as advice.
- `decomposer_cc.py:376-382`: if phase 1.5 wrote no integration tests, the plan's placeholders stand, and not those of phase 2 as the comment says.
- Two subtasks with one id pass both validators; the diff validator compares paths as text when it looks for overlaps and normalises them when it looks whether they exist, and accepts weights that sum to 0.99 or 1.01, where the other refuses one of the two for rounding.
- Import resolution on disk sees files that rejected candidates left in the repository, and in scaffold mode `git add -A` (`scaffolder.py:101`) commits those the accepted candidate does not have: miners work on top of them. `ScaffoldIsAccepted` names them (`left`).
- `scaffolder.py:104-111`: a scaffold commit that fails is only warned about; miners are sent the HEAD there was, and a diff has no baseline to restore its tests from.
- `validator_checks.py:153-166`: the check for `np.` and `pd.` without their imports is one of text, so that a sound plan with `inp.read()` or a comment in it is refused.
- `diff_merge.py:475-510` checks no scope: the patches of a diff may edit any gate test until the restore puts the listed ones back. In scaffold mode repair agents and the patches that replace a miner's may edit the visible ones, and nothing puts these back.

The merges:

- `merge.py:338`, `diff_merge.py:626`: verdicts are not revisited after later repairs, while the repair agents of scaffold mode run with an unrestricted shell (`repair_cc.py:55-91`, `repair.py:88-192`): their prompts name the files they may edit, and nothing checks it, so that an agent can undo a subtask that has been credited.
- `merge.py:355-362`: `BITSWARM_REPAIR_MODE=off` does not switch the integration repair off.
- `repair.py:176`: the SDK repair reports success for any bash command with "pytest" in it that exits with 0; `scorer.py:11` says that failed stub tests score 0.
- `repair_cc.py:200`: without the CLI the integration repair lowers the ratio to 0.
- `sandbox.py`: with `BITSWARM_SANDBOX=docker` and no docker, gate runs are meant to fail hard; `run_test_file` makes a failed test of the exception, and everything scores 0.
- `test_runner.py`: without `MINER_LANGUAGE` the gate runs pytest on whatever it is given, while the miner detects the language, and the two use different commands for Rust.
- `diff_merge.py:186-190`: a pytest run that times out or fails yields an empty set of failures, and with `-rN` so does every other one, against "never toward silently passing" (`diff_merge.py:47-50`). A repository that is only compiled has no regression gate.
- `diff_merge.py:400`: when the merged build breaks, the JUnit reports of the base run are read again.
- `diff_merge.py:492`: the conflict markers a refused `--3way` leaves behind are committed with the next patch that lands.
- `diff_merge.py:600`: one listed test that is held back makes the checkout of all canonical tests fail, unnoticed. `JudgedByCoordinator` is stated for holdbacks without such a test.
- `diff_merge.py:541`: the gate after a repair leaves out the held-back tests.
- `diff_merge.py:654`: credit asks for a patch that is not empty, not for one that landed.
- `diff_merge.py:634`: a base run that could only be read as `<suite>` hides every later suite failure, and makes old failures new if the second run names them. The runner is detected on each tree of its own, so that a patch that adds a build file changes it between the two runs; the model has one runner for both.

The miner:

- `recovery.py:72`: a failure is recorded under the summary line's file, so different exceptions of one test are not seen to thrash; `recovery.py:55`: the signature leaves the exception out; `recovery.py:85`: variants are never cleared after a wipe; `agent.py:216-232`: the run that wipes can be the one that ends the loop, so that stubs are shipped.
- `agent.py:179`: the blocks after a passing test run are still executed, and `tests_passed` stays.
- `tools.py:240`: the interface check compares with the file on disk, which after the first write is the agent's. What a command wrote into a file is not checked and is what the next write is compared with, while `tools.py:213` calls new names a contract violation. It parses whatever it is given as Python. The blocklist entry "nc " also hits "async ".
- `agent_cc.py:376`: the replay of diff mode uses the baseline as it is found after the CLI is done. A CLI that amends part of its work into that commit, an edit of a test file say, gets a passing verdict in a tree the validator never has, although "the miner's local result can't diverge from its score" (`agent_cc.py:715-717`, also 351-352, 516-518): it is the cause of `patch_holds_work`, seen from the other side. `VerdictIsAboutPatch` therefore speaks of a baseline that has not been moved; without that condition TLC finds the divergence.
- `runtime.py:13-14`: verification is called hermetic; in scaffold mode the claude backend tests in the workspace the CLI worked in.

## Not modelled

- Prompts, critique, preflight, warm start: text for and from language models, whose effect is an
  outcome that is arbitrary in the models. Preflight is used by `demo/run_pipeline.py` only.
- Language profiles, parsers and test output parsers: pure functions of text; InterfaceContracts takes what a parser
  reports as input.
- Command lines, the container's flags and the forwarded environment of test runners and sandbox.
- Protocol: data types and a git bundle, whose failures are outcomes. Demo, docker, configuration.
- Authentication and request validation of the API, the stake blacklist and chain registration of the
  miner: no state.
- Integration tests and requirement installation in diff mode, normalisation of the weight vector, the blocklist and the
  truncation of the tools.

## Plan

1. Done: the task queue and its loop, API, scorebook, dispatch, miner runtime and backends, coordinator, validators, both
   merges.
2. Done: a theorem for every invariant and action property the passing runs check, but `DampedSwing`.
3. Next: the other two departures (`patch_holds_work`,
   `held_back_hidden`) restricted to the cases in which the code does what it says, as theorems; a bound for one step of the moving
   average, as the arithmetic part of `DampedSwing`.
