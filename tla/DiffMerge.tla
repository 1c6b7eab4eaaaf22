------------------------------ MODULE DiffMerge -------------------------------
(***************************************************************************)
(* The merge of diff mode (validator/diff_merge.py): patches land in       *)
(* dependency order, the coordinator's gate tests are put back, each       *)
(* subtask has to pass its additive gate, and the failures of the tests    *)
(* the repository came with are compared before and after.                 *)
(*                                                                         *)
(* Which tests pass on a tree is any outcome; what the merge concludes     *)
(* from the outcomes is the model.                                         *)
(***************************************************************************)
EXTENDS Naturals, FiniteSetsExt, SequencesExt, TestRunners

CONSTANTS
    Subtasks,       \* numbered, in the order of the decomposition
    Graphs,         \* dependency functions a decomposition may come with
    Gates,          \* the coordinator's net-new tests
    GateOf,         \* new_test_files of each subtask
    Holdbacks,      \* the sets of gate tests that may be held back
    Existing,       \* the tests the repository came with
    Suite           \* "<suite>", the failure of a suite whose output names none

VARIABLES
    deps,       \* the dependencies, free of cycles
    conf,       \* kind of test runner, repair mode and the held-back tests
    patch,      \* what the miner of each subtask sent
    pc,         \* the phase of the merge
    calls,      \* topological_order: the calls of visit that have not returned
    order,      \* the subtasks in the order those calls returned
    todo,       \* the subtasks the phase has yet to visit
    landed,     \* patch_applied
    tests,      \* the gate tests in merge_repo
    truth,      \* the tests that fail on the base and on the merged tree
    run,        \* what the collecting runs on the two could be read for
    failing,    \* pre_failing and post_failing
    reports,    \* the tests that fail by the JUnit reports lying in a tree
    additive,   \* additive_results
    score,      \* in halves of the complexity weight
    passed,     \* the gate tests that passed when each subtask was last judged
    genuine     \* and those of them that were the coordinator's (nothing reads
                \* these two)

vars == <<deps, conf, patch, pc, calls, order, todo, landed, tests, truth, run, failing, reports,
          additive, score, passed, genuine>>
setup == <<deps, conf, patch>>
sorting == <<calls, order>>
verdicts == <<additive, passed, genuine>>
suites == <<truth, run, failing, reports>>

Listed == UNION {GateOf[s] : s \in Subtasks}
Acyclic(g) == \A C \in SUBSET Subtasks :
                  C # {} => \E s \in C : g[s] \cap C = {}

ASSUME DiffMergeAssumption ==
    /\ Subtasks \subseteq Nat /\ IsFiniteSet(Subtasks)
    /\ Graphs \subseteq [Subtasks -> SUBSET Subtasks]
    /\ \A g \in Graphs : Acyclic(g)
    /\ GateOf \in [Subtasks -> SUBSET Gates]
    /\ Holdbacks \subseteq SUBSET Gates
    /\ Gates \cap Existing = {}
    /\ Suite \notin Gates \cup Existing

Names == Existing \cup Gates
Readings == {"parsed", "coarse", "timeout"}
Confs == [runner : Kinds, repair : BOOLEAN, held : Holdbacks]
Phases == {"collect", "order", "apply", "restore", "reveal", "gate", "repair",
           "regression", "score", "done"}

TypeOK ==
    /\ deps \in Graphs
    /\ conf \in Confs
    /\ patch \in [Subtasks -> {"empty", "applies", "refused"}]
    /\ pc \in Phases
    /\ calls \in Seq(Subtasks) /\ order \in Seq(Subtasks)
    /\ todo \subseteq Subtasks
    /\ landed \subseteq {s \in Subtasks : patch[s] # "empty"}
    /\ tests \in [Gates -> {"canonical", "edited", "absent"}]
    /\ truth \in [base : SUBSET Names, merged : SUBSET Names]
    /\ run \in [base : Readings, merged : Readings]
    /\ failing \in [base : SUBSET (Names \cup {Suite}),
                    merged : SUBSET (Names \cup {Suite})]
    /\ reports \subseteq Names
    /\ additive \subseteq Subtasks
    /\ score \in [Subtasks -> 0 .. 2]
    /\ passed \in [Subtasks -> SUBSET Gates]
    /\ genuine \in [Subtasks -> SUBSET Gates]

\* base_repo_path holds the baseline: the gate tests that are not held back.
Init ==
    /\ deps \in Graphs
    /\ conf \in Confs
    /\ patch \in [Subtasks -> {"empty", "applies", "refused"}]
    /\ pc = "collect"
    /\ calls = <<>> /\ order = <<>>
    /\ todo = Subtasks
    /\ landed = {}
    /\ tests = [g \in Gates |-> IF g \in conf.held THEN "absent" ELSE "canonical"]
    /\ truth = [base |-> {}, merged |-> {}]
    /\ run = [base |-> "parsed", merged |-> "parsed"]
    /\ failing = [base |-> {}, merged |-> {}]
    /\ reports = {}
    /\ additive = {}
    /\ score = [s \in Subtasks |-> 0]
    /\ passed = [s \in Subtasks |-> {}]
    /\ genuine = [s \in Subtasks |-> {}]

\* pytest is asked with -rN not to print the summary lines that are then looked for, and
\* without a suite to run nothing is looked for.
Silent == conf.runner \in {"pytest", "none"}

\* Mutation: a suite that fails without naming a test counts as one that passes.
CollectedUnmarked(fails, reading, written) ==
    IF Silent \/ fails = {} \/ reading = "timeout" THEN {}
    ELSE IF conf.runner = "junit" THEN written
    ELSE IF reading = "coarse" THEN {} ELSE fails

\* collect_failing_tests: what the failures `fails` of a tree come out as.  A
\* suite may time out or fail without naming a test.  Maven's and Gradle's are read
\* off the reports in the tree.
Collected(fails, reading, written) ==
    LET named == IF conf.runner = "junit" THEN written
                 ELSE IF reading = "coarse" THEN {} ELSE fails
    IN  IF Silent THEN {}
        ELSE IF reading = "timeout" THEN {Suite}
        ELSE IF fails = {} THEN {}
        ELSE IF named = {} THEN {Suite} ELSE named

\* Whether the output of a run can name what fails.  A run that cannot be started counts
\* as one that times out.
MayRead(reading) ==
    CASE reading = "coarse" -> ~Silent
      [] reading = "parsed" -> conf.runner # "unnamed"
      [] OTHER              -> TRUE

\* The reports that lie in the tree after a run: those of the run before, which are
\* copied along with it, if the suite did not get as far as writing any.
Written(fails, reading) ==
    IF conf.runner # "junit" THEN {} ELSE IF reading = "parsed" THEN fails ELSE reports

\* The failures before mining.  The listed gate tests are excluded.
CollectBase ==
    /\ pc = "collect"
    /\ \E fails \in SUBSET (Names \ conf.held), reading \in Readings :
          /\ MayRead(reading)
          /\ truth' = [truth EXCEPT !.base = fails]
          /\ run' = [run EXCEPT !.base = reading]
          /\ reports' = Written(fails \ Listed, reading)
          /\ failing' = [failing EXCEPT !.base = Collected(fails \ Listed, reading, reports')]
    /\ pc' = "order"
    /\ UNCHANGED <<setup, sorting, todo, landed, tests, verdicts, score>>

\* topological_order: depth first, a subtask after its dependencies.  The loop around it
\* takes the subtasks as the decomposition lists them; a dependency list has any order.
Unvisited(S) == S \ (ToSet(calls) \cup ToSet(order))
Wanted == Unvisited(deps[Last(calls)])

Visit ==
    /\ pc = "order"
    /\ IF calls = <<>>
       THEN Unvisited(Subtasks) # {} /\ calls' = <<Min(Unvisited(Subtasks))>>
       ELSE \E d \in Wanted : calls' = Append(calls, d)
    /\ UNCHANGED <<setup, pc, order, todo, landed, tests, suites, verdicts, score>>

\* Mutation: a call does not wait for those on its dependencies.
ReturnAtOnce ==
    /\ pc = "order" /\ calls # <<>>
    /\ order' = Append(order, Last(calls))
    /\ calls' = Front(calls)
    /\ UNCHANGED <<setup, pc, todo, landed, tests, suites, verdicts, score>>

Return ==
    /\ pc = "order" /\ calls # <<>> /\ Wanted = {}
    /\ order' = Append(order, Last(calls))
    /\ calls' = Front(calls)
    /\ UNCHANGED <<setup, pc, todo, landed, tests, suites, verdicts, score>>

Ordered ==
    /\ pc = "order" /\ calls = <<>> /\ Unvisited(Subtasks) = {}
    /\ pc' = "apply"
    /\ UNCHANGED <<setup, sorting, todo, landed, tests, suites, verdicts, score>>

\* Edits of gate tests that are in the tree.
Touched == {[g \in Gates |-> IF g \in e /\ tests[g] # "absent" THEN "edited" ELSE tests[g]] :
                e \in SUBSET Gates}

\* apply_patches_in_order.  Nothing confines a patch to its modify_files here, and one
\* that is refused leaves the conflicts of git apply --3way in the tree.
Apply(s) ==
    /\ pc = "apply"
    /\ order # <<>> /\ s = Head(order)
    /\ order' = Tail(order)
    /\ landed' = IF patch[s] = "applies" THEN landed \cup {s} ELSE landed
    /\ tests' \in IF patch[s] = "empty" THEN {tests} ELSE Touched
    /\ todo' = todo \ {s}
    /\ pc' = IF todo = {s} THEN "restore" ELSE "apply"
    /\ UNCHANGED <<setup, calls, suites, verdicts, score>>

\* Mutation: the gate tests are taken as the patches left them.
RestoreNothing ==
    /\ pc = "restore"
    /\ pc' = "reveal"
    /\ UNCHANGED <<setup, sorting, todo, landed, tests, suites, verdicts, score>>

\* One git checkout restores the listed tests from the baseline.  A held-back
\* one is not in it, and then git refuses the others, too.
Restore ==
    /\ pc = "restore"
    /\ tests' = IF Listed \cap conf.held # {} THEN tests
                ELSE [g \in Gates |-> IF g \in Listed THEN "canonical" ELSE tests[g]]
    /\ pc' = "reveal"
    /\ UNCHANGED <<setup, sorting, todo, landed, suites, verdicts, score>>

\* reveal_into_repo
Reveal ==
    /\ pc = "reveal"
    /\ tests' = [g \in Gates |-> IF g \in conf.held THEN "canonical" ELSE tests[g]]
    /\ todo' = Subtasks
    /\ pc' = "gate"
    /\ UNCHANGED <<setup, sorting, landed, suites, verdicts, score>>

\* run_gate_tests of s on some tests, in a tree with the gate tests `tree`.
Judge(s, gates, tree, ok) ==
    \E pass \in SUBSET gates :
        /\ ok <=> pass = gates
        /\ passed' = [passed EXCEPT ![s] = pass]
        /\ genuine' = [genuine EXCEPT ![s] = {g \in pass : tree[g] = "canonical"}]

Settle(s, ok) ==
    /\ additive' = IF ok THEN additive \cup {s} ELSE additive
    /\ todo' = todo \ {s}
    /\ pc' = IF todo = {s} THEN "regression" ELSE "gate"

\* The additive gate: the subtask's own tests and all held-back ones.  A
\* failure is repaired only if the subtask's patch has landed.
Gate(s) ==
    /\ pc = "gate"
    /\ s \in todo /\ s = Min(todo)
    /\ \E ok \in BOOLEAN :
          /\ Judge(s, GateOf[s] \cup conf.held, tests, ok)
          /\ IF ~ok /\ s \in landed /\ conf.repair
             THEN pc' = "repair" /\ UNCHANGED <<todo, additive>>
             ELSE Settle(s, ok)
    /\ UNCHANGED <<setup, sorting, landed, tests, suites, score>>

\* _try_repair_subtask: the agent's shell is not confined to modify_files.  Its
\* work is judged by the subtask's own tests, or it raises and is not judged.
Repair(s) ==
    /\ pc = "repair"
    /\ s \in todo /\ s = Min(todo)
    /\ tests' \in Touched
    /\ \/ \E ok \in BOOLEAN : Judge(s, GateOf[s], tests', ok) /\ Settle(s, ok)
       \/ Settle(s, FALSE) /\ UNCHANGED <<passed, genuine>>
    /\ UNCHANGED <<setup, sorting, landed, suites, score>>

\* Mutation: the run after the merge excludes the listed gate tests only.
ExcludedListed == Listed

\* new_test_paths + holdback_paths
Excluded == Listed \cup conf.held

CollectMerged ==
    /\ pc = "regression"
    /\ \E fails \in SUBSET Names, reading \in Readings :
          /\ MayRead(reading)
          /\ truth' = [truth EXCEPT !.merged = fails]
          /\ run' = [run EXCEPT !.merged = reading]
          /\ reports' = Written(fails \ Excluded, reading)
          /\ failing' = [failing EXCEPT
                            !.merged = Collected(fails \ Excluded, reading, reports')]
    /\ pc' = "score"
    /\ UNCHANGED <<setup, sorting, todo, landed, tests, verdicts, score>>

NewlyFailing == failing.merged \ failing.base

\* A subtask without a patch earns nothing; one that regresses costs everyone half.
Score ==
    /\ pc = "score"
    /\ score' = [s \in Subtasks |->
          IF s \notin additive \/ patch[s] = "empty" THEN 0
          ELSE IF NewlyFailing = {} THEN 2 ELSE 1]
    /\ pc' = "done"
    /\ UNCHANGED <<setup, sorting, todo, landed, tests, suites, verdicts>>

Next ==
    \/ CollectBase
    \/ Visit \/ Return \/ Ordered
    \/ \E s \in Subtasks : Apply(s) \/ Gate(s) \/ Repair(s)
    \/ Restore \/ Reveal \/ CollectMerged \/ Score

Spec == Init /\ [][Next]_vars

-----------------------------------------------------------------------------
(* Properties                                                              *)

\* A patch is applied after those its subtask depends on, whatever the order
\* of the decomposition.
DepsLandFirst ==
    [][\A s \in Subtasks : s \in todo \ todo' /\ pc = "apply" => deps[s] \cap todo = {}]_vars

Credited == {s \in Subtasks : score[s] > 0}

\* What is credited has passed its own tests since it was last worked on, and the
\* repair's report is never trusted.  Without a repair agent, and where no held-back
\* test is listed by a subtask, credit rests on the coordinator's own text of every gate
\* test of the subtask and of every held-back test, whatever the patches did to them
\* (diff_merge.py:597, "so the gates always run the coordinator's tests").
JudgedByCoordinator ==
    \A s \in Credited :
        /\ GateOf[s] \subseteq passed[s]
        /\ ~conf.repair /\ Listed \cap conf.held = {}
               => GateOf[s] \cup conf.held \subseteq genuine[s]

\* The score is halved only if a test that the repository came with, or that
\* no gate uses, fails that did not fail before: neither gate tests nor old
\* failures cost anything, if both runs could be read in the same detail.
PenaltyOnlyForNew ==
    (\E s \in Subtasks : score[s] = 1)
        /\ run.base = run.merged /\ run.base # "timeout"
    => (truth.merged \ truth.base) \ (Listed \cup conf.held) # {}

\* The regression gate sees nothing where a suite is a unit that failed before, where
\* reports of the run before stand in for those of a build that broke, in a Python
\* repository, and in one that is only compiled.
Blind == \/ Silent
         \/ Suite \in failing.base
         \/ conf.runner = "junit" /\ run.merged # "parsed" /\ failing.base # {}

\* Everywhere else a test that fails since the merge costs everyone half, however the
\* suite ended (diff_merge.py:47, "never toward silently passing").
RegressionsCost ==
    /\ pc = "done" /\ ~Blind
    /\ (truth.merged \ truth.base) \ (Listed \cup conf.held) # {}
    => \A s \in Subtasks : score[s] < 2

==============================================================================
