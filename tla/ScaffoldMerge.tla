---------------------------- MODULE ScaffoldMerge -----------------------------
(***************************************************************************)
(* The tiered merge of scaffold mode (validator/merge.py): patches land in *)
(* dependency order, each tier's own tests are run on the merged tree, a   *)
(* failing subtask is repaired or re-mined, the integration tests run on   *)
(* the result and the subtasks are scored (validator/scorer.py).           *)
(*                                                                         *)
(* The files of a subtask hold its code or they do not: a stub, or what a  *)
(* repair agent left of them.  Such an agent has a shell in the tree and   *)
(* may write every file, its tests too.  Before one has run, a subtask's   *)
(* own tests cannot pass on its stub: a decomposition whose tests pass on  *)
(* the stubs was rejected (validator_checks.py).  For the rest, whether a  *)
(* test passes is any outcome.  Graphs may have cycles: for languages      *)
(* without a validator nobody has looked for them.                         *)
(***************************************************************************)
EXTENDS Naturals, TestRunners

CONSTANTS
    Subtasks,       \* numbered, in the order of their names
    Graphs,         \* dependency functions a decomposition may come with
    Modes,          \* values of BITSWARM_REPAIR_MODE
    Backends,       \* repair backends
    Full            \* integration ratios are counted in Full-ths

ASSUME MergeAssumption ==
    /\ Subtasks \subseteq Nat
    /\ Graphs \subseteq [Subtasks -> SUBSET Subtasks]
    /\ Modes \subseteq {"patch", "replace", "off"}
    /\ Backends \subseteq {"sdk", "claude_code"}
    /\ Full \in Nat \ {0}

VARIABLES
    deps,       \* the dependencies between the subtasks
    conf,       \* mode, backend, is the claude CLI there, can gates run,
                \*   BITSWARM_DISABLE_REPAIR, integration tests?
    result,     \* what the miner of each subtask sent
    pc,         \* the phase of the merge
    tiers,      \* how many tiers there are so far
    tierOf,     \* the tier of each subtask, counted from 1; 0 before it has one
    tier,       \* the current tier
    todo,       \* the subtasks of the tier the current phase has yet to visit
    applied,    \* patch_applied
    verdict,    \* stub_results
    code,       \* what the subtask's files in merge_repo hold: its code, or not
    ratio,      \* integration_ratio
    score       \* scores, in 2*Full-ths of the complexity weight

\* What only the properties read: the round a tree is of counts the agents that
\* have had it, from 1.
VARIABLES
    round,
    landedAt,   \* for each subtask, the round in which its patch landed; 0 if never
    passedAt,   \* the round in which its own tests passed; 0 if they have not
    sawReal     \* the subtasks landed in that round whose code was in the tree

history == <<round, landedAt, passedAt, sawReal>>
vars == <<deps, conf, result, pc, tiers, tierOf, tier, todo, applied, verdict,
          code, ratio, score, history>>
setup == <<deps, conf, result>>

Phases == {"tier", "apply", "test", "replace", "repair", "integration_repair",
           "score", "done", "raised"}
Conf == [mode : Modes, backend : Backends, cli : BOOLEAN, gates : BOOLEAN,
         disabled : BOOLEAN, tests : BOOLEAN]

TypeOK ==
    /\ deps \in [Subtasks -> SUBSET Subtasks]
    /\ conf \in Conf
    /\ result \in [Subtasks -> {"patch", "none"}]
    /\ pc \in Phases
    /\ tiers \in Nat
    /\ tierOf \in [Subtasks -> 0 .. tiers]
    /\ tier \subseteq Subtasks
    /\ todo \subseteq tier
    /\ applied \subseteq Subtasks
    /\ verdict \in [Subtasks -> {"none", "passed", "failed"}]
    /\ code \in [Subtasks -> {"stub", "real"}]
    /\ ratio \in 0 .. Full
    /\ score \in [Subtasks -> 0 .. 2 * Full]
    /\ round \in Nat \ {0}
    /\ landedAt \in [Subtasks -> Nat]
    /\ passedAt \in [Subtasks -> Nat]
    /\ sawReal \in [Subtasks -> SUBSET Subtasks]

\* miner_results is complete when the merge begins.  "none" is no result, an empty
\* patch, one out of scope or one that git apply refuses.
Init ==
    /\ deps \in Graphs
    /\ conf \in Conf
    /\ conf.backend = "sdk" => conf.cli
    /\ \E language \in Languages \cup {"unset"}, file \in Languages, mode \in SandboxModes,
          docker \in BOOLEAN : conf.gates = GateRuns(language, file, mode, docker)
    /\ result \in [Subtasks -> {"patch", "none"}]
    /\ pc = "tier"
    /\ tiers = 0
    /\ tierOf = [s \in Subtasks |-> 0]
    /\ tier = {}
    /\ todo = {}
    /\ applied = {}
    /\ verdict = [s \in Subtasks |-> "none"]
    /\ code = [s \in Subtasks |-> "stub"]
    /\ ratio = 0
    /\ score = [s \in Subtasks |-> 0]
    /\ round = 1
    /\ landedAt = [s \in Subtasks |-> 0]
    /\ passedAt = [s \in Subtasks |-> 0]
    /\ sawReal = [s \in Subtasks |-> {}]

Assigned == {s \in Subtasks : tierOf[s] > 0}
Remaining == Subtasks \ Assigned
Ready == {s \in Remaining : deps[s] \subseteq Assigned}

\* Mutation: subtasks whose dependencies never resolve get no tier.
NextTierStrict == Ready

\* Mutation: a subtask joins its tier as soon as one dependency has landed.
NextTierEager ==
    LET eager == {s \in Remaining : deps[s] = {} \/ deps[s] \cap Assigned # {}}
    IN  IF eager # {} THEN eager ELSE Remaining

\* compute_tiers; unresolvable dependencies go into one last tier.
NextTier == IF Ready # {} THEN Ready ELSE Remaining

FormTier ==
    /\ pc = "tier"
    /\ Remaining # {}
    /\ tier' = NextTier
    /\ todo' = NextTier
    /\ tiers' = tiers + 1
    /\ tierOf' = [s \in Subtasks |-> IF s \in NextTier THEN tiers + 1 ELSE tierOf[s]]
    /\ pc' = "apply"
    /\ UNCHANGED <<setup, applied, verdict, code, ratio, score, history>>

First(s) == s \in todo /\ \A t \in todo : s <= t

\* _apply_patch; after the last one the tier is committed and tested.
ApplyPatch(s) ==
    /\ pc = "apply"
    /\ First(s)
    /\ applied' = IF result[s] = "patch" THEN applied \cup {s} ELSE applied
    /\ code' = [code EXCEPT ![s] = IF result[s] = "patch" THEN "real" ELSE @]
    /\ todo' = IF todo = {s} THEN tier ELSE todo \ {s}
    /\ pc' = IF todo = {s} THEN "test" ELSE "apply"
    /\ landedAt' = [landedAt EXCEPT ![s] = IF result[s] = "patch" THEN round ELSE @]
    /\ UNCHANGED <<setup, tiers, tierOf, tier, verdict, ratio, score, round, passedAt, sawReal>>

\* The verdict on s is in: on to the rest of the tier, or to the next one.
Settle(s, v) ==
    /\ verdict' = [verdict EXCEPT ![s] = v]
    /\ todo' = todo \ {s}
    /\ pc' = IF todo = {s} THEN "tier" ELSE "test"

\* run_stub_tests of s on the given tree, of the given round.  A gate that times out
\* or cannot be run is one that fails: run_test_file catches what the sandbox raises.
TestsPass(s, tree, when) ==
    /\ conf.gates
    /\ when = 1 => tree[s] = "real"
    /\ passedAt' = [passedAt EXCEPT ![s] = when]
    /\ sawReal' = [sawReal EXCEPT ![s] =
                      {d \in Subtasks : landedAt[d] = when /\ tree[d] = "real"}]
TestsFail(s) == UNCHANGED <<passedAt, sawReal>>

\* A subtask whose patch did not land fails; its tests are not run.
Tries(s) == s \in applied

TestPasses(s) ==
    /\ pc = "test" /\ First(s) /\ Tries(s)
    /\ TestsPass(s, code, round)
    /\ Settle(s, "passed")
    /\ UNCHANGED <<setup, tiers, tierOf, tier, applied, code, ratio, score, round, landedAt>>

\* The tests fail, and recovery is on.
TestFails(s) ==
    /\ pc = "test" /\ First(s) /\ Tries(s)
    /\ conf.mode # "off"
    /\ TestsFail(s)
    /\ pc' = IF conf.mode = "replace" THEN "replace" ELSE "repair"
    /\ UNCHANGED <<setup, tiers, tierOf, tier, todo, applied, verdict, code, ratio, score,
                   round, landedAt>>

\* No patch to test, or a failure and no recovery.
GiveUpOn(s) ==
    /\ pc = "test" /\ First(s)
    /\ Tries(s) => conf.mode = "off"
    /\ Settle(s, "failed")
    /\ UNCHANGED <<setup, tiers, tierOf, tier, applied, code, ratio, score, history>>

\* _try_drop_and_replace returns None: no scaffolding commit, no backend to mine with,
\* or an empty patch.  The subtask was mined in a copy of the tree.
ReplaceComesToNothing(s) ==
    /\ pc = "replace" /\ First(s)
    /\ pc' = "repair"
    /\ UNCHANGED <<setup, tiers, tierOf, tier, todo, applied, verdict, code, ratio, score,
                   history>>

\* Mutation: the whole tree is put back to stubs.
RevertedAll(s) == [t \in Subtasks |-> "stub"]

\* _revert_files_to_scaffolding: the files of s are as in the scaffold commit, those
\* that were not in it are gone.
Reverted(s) == [code EXCEPT ![s] = "stub"]

\* That is done before the new patch turns out not to apply.
ReplacementRefused(s) ==
    /\ pc = "replace" /\ First(s)
    /\ code' = Reverted(s)
    /\ pc' = "repair"
    /\ UNCHANGED <<setup, tiers, tierOf, tier, todo, applied, verdict, ratio, score, history>>

\* Mutation: the re-mined patch is tested in a fresh copy of the scaffold.
ReplaceLandsOnStubs(s) ==
    /\ pc = "replace" /\ First(s)
    /\ code' = [code EXCEPT ![s] = "real"]
    /\ \/ /\ TestsPass(s, [t \in Subtasks |-> IF t = s THEN "real" ELSE "stub"], round)
          /\ Settle(s, "passed")
       \/ TestsFail(s) /\ Settle(s, "failed")
    /\ UNCHANGED <<setup, tiers, tierOf, tier, applied, ratio, score, round, landedAt>>

\* The re-mined patch lands; its tests decide, and no repair follows.
ReplaceLands(s) ==
    /\ pc = "replace" /\ First(s)
    /\ code' = [Reverted(s) EXCEPT ![s] = "real"]
    /\ \/ TestsPass(s, code', round) /\ Settle(s, "passed")
       \/ TestsFail(s) /\ Settle(s, "failed")
    /\ UNCHANGED <<setup, tiers, tierOf, tier, applied, ratio, score, round, landedAt>>

\* A repair agent has the tree.  Its shell is not confined to the files its prompt
\* names: it may bring code, take it away, or rewrite tests, and nothing it did is
\* taken back when it fails.
AgentEdits ==
    /\ code' \in [Subtasks -> {"stub", "real"}]
    /\ round' = round + 1

\* Mutation: a repair run that ends normally counts as a success.
RepairTrusted(s) ==
    /\ pc = "repair" /\ First(s)
    /\ conf.cli
    /\ AgentEdits
    /\ TestsFail(s)
    /\ \E v \in {"passed", "failed"} : Settle(s, v)
    /\ UNCHANGED <<setup, tiers, tierOf, tier, applied, ratio, score, landedAt>>

\* repair_miner ends with a run of the subtask's own tests.
Repair(s) ==
    /\ pc = "repair" /\ First(s)
    /\ conf.cli
    /\ AgentEdits
    /\ \/ TestsPass(s, code', round') /\ Settle(s, "passed")
       \/ TestsFail(s) /\ Settle(s, "failed")
    /\ UNCHANGED <<setup, tiers, tierOf, tier, applied, ratio, score, landedAt>>

\* The SDK repair miner stops at the first bash command that contains "pytest"
\* and exits with 0, whichever tests the agent chose to run.
RepairClaims(s) ==
    /\ pc = "repair" /\ First(s)
    /\ conf.backend = "sdk"
    /\ AgentEdits
    /\ Settle(s, "passed")
    /\ UNCHANGED <<setup, tiers, tierOf, tier, applied, ratio, score, landedAt, passedAt,
                   sawReal>>

\* Without the CLI there is no repair, and no run of the tests.
RepairWithoutCli(s) ==
    /\ pc = "repair" /\ First(s)
    /\ ~conf.cli
    /\ Settle(s, "failed")
    /\ UNCHANGED <<setup, tiers, tierOf, tier, applied, code, ratio, score, history>>

\* An exception of the repair or re-mining agent ends the whole merge.
RecoveryRaises ==
    /\ pc \in {"replace", "repair", "integration_repair"}
    /\ pc' = "raised"
    /\ UNCHANGED <<setup, tiers, tierOf, tier, todo, applied, verdict, code, ratio, score, history>>

\* run_integration_tests.  The ratio is read off the output's lines, the result
\* off the exit codes: a file that times out prints no line and does not count.
IntegrationRatios == IF ~conf.tests THEN {Full} ELSE IF conf.gates THEN 0 .. Full ELSE {0}

Integrate ==
    /\ pc = "tier"
    /\ Remaining = {}
    /\ ratio' \in IntegrationRatios
    /\ \E ok \in BOOLEAN :
          /\ ~conf.tests => ok
          /\ ok => conf.gates \/ ~conf.tests
          /\ pc' = IF ok \/ conf.disabled THEN "score" ELSE "integration_repair"
    /\ UNCHANGED <<setup, tiers, tierOf, tier, todo, applied, verdict, code, score, history>>

\* repair_integration_tests edits, and runs the tests again.
RepairIntegration ==
    /\ pc = "integration_repair"
    /\ conf.backend = "sdk"
    /\ AgentEdits
    /\ ratio' \in IntegrationRatios
    /\ pc' = "score"
    /\ UNCHANGED <<setup, tiers, tierOf, tier, todo, applied, verdict, score, landedAt,
                   passedAt, sawReal>>

\* Its Claude Code twin: without the CLI the tests are not run again, and nothing is
\* left of the ratio they had reached.
RepairIntegrationByCli ==
    /\ pc = "integration_repair"
    /\ conf.backend = "claude_code"
    /\ IF conf.cli THEN AgentEdits /\ ratio' \in IntegrationRatios
                   ELSE UNCHANGED <<code, round>> /\ ratio' = 0
    /\ pc' = "score"
    /\ UNCHANGED <<setup, tiers, tierOf, tier, todo, applied, verdict, score, landedAt,
                   passedAt, sawReal>>

\* compute_scores: half the weight for the stub tests, the rest by the ratio.
Score ==
    /\ pc = "score"
    /\ score' = [s \in Subtasks |->
          IF result[s] = "patch" /\ verdict[s] = "passed" THEN Full + ratio ELSE 0]
    /\ pc' = "done"
    /\ UNCHANGED <<setup, tiers, tierOf, tier, todo, applied, verdict, code, ratio, history>>

Visit(s) ==
    \/ ApplyPatch(s)
    \/ TestPasses(s) \/ TestFails(s) \/ GiveUpOn(s)
    \/ ReplaceComesToNothing(s) \/ ReplacementRefused(s) \/ ReplaceLands(s)
    \/ Repair(s) \/ RepairClaims(s) \/ RepairWithoutCli(s)

Next ==
    \/ FormTier
    \/ \E s \in Subtasks : Visit(s)
    \/ RecoveryRaises
    \/ Integrate \/ RepairIntegration \/ RepairIntegrationByCli \/ Score

\* The merge is one coroutine and every agent and test run in it is bounded by
\* a number of calls or a timeout.
Spec == Init /\ [][Next]_vars /\ WF_vars(Next)

-----------------------------------------------------------------------------
(* Properties                                                              *)

\* s depends, directly or not, on a cycle: it is in a set whose members all
\* depend on members.
Cyclic(s) ==
    \E C \in SUBSET Subtasks : s \in C /\ \A t \in C : deps[t] \cap C # {}

\* compute_tiers against what its docstring promises: a subtask lands after
\* everything it depends on, unless a cycle makes that impossible.
TiersFollowDeps ==
    \A s \in Assigned : ~Cyclic(s) =>
        \A d \in deps[s] : tierOf[d] > 0 /\ tierOf[d] < tierOf[s]

Credited == {s \in Subtasks : score[s] > 0}

\* A credited subtask whose own tests passed, passed them on a tree that already
\* held the code of every credited subtask of its tier and of the tiers before it,
\* whatever was dropped and re-mined in between: tests that passed against a peer's
\* stub earn nothing.  Only a repair agent that had the tree between the landing
\* and the tests can have made it otherwise.
TestedOnLandedPeers ==
    \A s, d \in Credited :
        passedAt[s] # 0 /\ landedAt[d] = passedAt[s] /\ tierOf[d] <= tierOf[s]
        => d \in sawReal[s]

\* What is credited is still in the tree the task delivers, unless a repair agent
\* has had that tree since it landed: dropping and re-mining other subtasks, and
\* its own replacement, never take it out.
CreditedIsInTree == \A s \in Credited : landedAt[s] = round => code[s] = "real"

\* With the claude_code backend a repair is believed only after the subtask's
\* own tests have passed.
CreditedTestsPassed ==
    conf.backend = "claude_code" => \A s \in Credited : passedAt[s] # 0

\* The merge ends, whatever the dependencies.
MergeEnds == <>(pc \in {"done", "raised"})

==============================================================================
