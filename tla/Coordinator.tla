----------------------------- MODULE Coordinator ------------------------------
(***************************************************************************)
(* From a spec to a scaffold: decompose (validator/decomposer.py) with its *)
(* cache, its retries and its two backends, the SDK's and the Claude Code  *)
(* one (validator/decomposer_cc.py), the validator that writes a candidate *)
(* to disk to see its stub tests fail, the holdback of gate tests, the     *)
(* scaffold commit miners are sent, and how the gate tests reach the merge *)
(* repository: through patches, repairs, the restore and the reveal.       *)
(*                                                                         *)
(* The content of a file is known by the attempt and by the phase of the   *)
(* call that wrote it.                                                     *)
(***************************************************************************)
EXTENDS Naturals, FiniteSetsExt

CONSTANTS
    Sources,        \* paths of stubs and stub tests, or of target stubs
    Shared,         \* paths of shared files, or of shared additions
    Gates,          \* paths of gate tests: integration tests, or new tests
    DefaultGate,    \* the profile's integration_test_filename
    MaxAttempts,    \* MAX_COORDINATOR_RETRIES
    Responses,      \* the sets of files one call may come with
    Leftovers,      \* what an earlier run may have left in a phase's workspace
    Cached,         \* the files of a decomposition it may have left in the cache
    Originals,      \* the files the repository may have to begin with
    Percents        \* values of BITSWARM_HOLDBACK_FRACTION, in hundredths

ASSUME CoordinatorAssumption ==
    /\ Sources \cap Gates = {} /\ (Sources \cup Gates) \cap Shared = {}
    /\ DefaultGate \in Gates
    /\ IsFiniteSet(Gates)
    /\ Originals \subseteq SUBSET (Sources \cup Shared \cup Gates)
    /\ MaxAttempts \in Nat \ {0}
    /\ Percents \subseteq 0 .. 90

Paths == Sources \cup Shared \cup Gates
Attempts == 1 .. MaxAttempts
CallPhases == {"plan", "tests", "files"}
Content(a, phase) == [by |-> a, phase |-> phase]
Absent == Content(0, "absent")
Earlier == Content(0, "earlier")    \* written for an earlier task
Edited == Content(0, "edited")      \* as a patch or a repair left it, deleted or rewritten
Contents == {Absent, Earlier, Edited} \cup [by : Attempts, phase : CallPhases]
Trees == [Paths -> Contents]
Empty == [p \in Paths |-> Absent]

VARIABLES
    conf,       \* mode, backend, test-first, whether there is a validate_fn, and
                \*   the files the repository has to begin with
    pc,
    attempt,    \* 0 while the cached decomposition is looked at
    cand,       \* the files of the decomposition at hand
    contract,   \* the gate tests its phase 1.5 wrote
    areas,      \* the workspaces of phases 1.5 and 2, of every attempt
    cache,      \* the cache entry of this spec and repository
    valid,      \* decompositions the validator found no error in, in this run
    disk,       \* the working repository
    left,       \* what stub test runs wrote at each path of it, and never took away
    held,       \* holdback_tests
    committed,  \* HEAD of the working repository: what miners are sent
    recorded,   \* whether that is the scaffold commit
    merged,     \* the repository the gate tests are run in
    listed,     \* the gate tests that are new_test_files of a subtask, and
    repair      \*   whether a scaffold's merge repairs: both known by then, and chosen there

call == <<contract, areas>>
merging == <<merged, listed, repair>>
repos == <<disk, left, held, committed, recorded, merging>>
vars == <<conf, pc, attempt, cand, call, cache, valid, repos>>

FilesOf(tree) == {p \in Paths : tree[p] # Absent}
Overlay(tree, new) == [p \in Paths |-> IF new[p] # Absent THEN new[p] ELSE tree[p]]
Part(tree, paths) == [p \in Paths |-> IF p \in paths THEN tree[p] ELSE Absent]
Coming(paths) == Responses \cap SUBSET paths
All(paths, content) == [p \in Paths |-> IF p \in paths THEN content ELSE Absent]

Confs == [mode : {"scaffold", "diff"}, backend : {"sdk", "claude_code", "unknown"},
          testFirst : BOOLEAN, check : BOOLEAN, existing : Originals]

\* The cache entry may be one of the demo pipeline, which has no validate_fn for
\* some languages; decompose always validates in diff mode.
Init ==
    /\ conf \in Confs
    /\ conf.mode = "diff" => conf.check /\ Sources \subseteq conf.existing
    /\ conf.testFirst => conf.backend = "claude_code" /\ conf.mode = "scaffold"
    /\ pc = "lookup"
    /\ attempt = 0
    /\ cand = Empty /\ contract = {}
    /\ \E debris \in IF conf.backend = "claude_code" THEN Leftovers ELSE {{}} :
          areas = [w \in Attempts \X {"tests", "files"} |-> All(debris, Earlier)]
    /\ \E cached \in Cached : cache = All(cached, Earlier)
    /\ valid = {}
    /\ disk = All(conf.existing, Earlier) /\ left = [p \in Paths |-> {}] /\ held = {}
    /\ committed = disk /\ recorded = FALSE
    /\ merged = Empty /\ listed = {} /\ repair = FALSE

\* _select_call_coordinator comes before anything else.
UnknownBackend ==
    /\ pc = "lookup" /\ conf.backend = "unknown"
    /\ pc' = "raised"
    /\ UNCHANGED <<conf, attempt, cand, call, cache, valid, repos>>

\* Mutation: a cached decomposition is used as it is.
HitTrusted ==
    /\ pc = "lookup" /\ conf.backend # "unknown"
    /\ cache # Empty
    /\ cand' = cache
    /\ pc' = "holdback"
    /\ UNCHANGED <<conf, attempt, call, cache, valid, repos>>

Hit ==
    /\ pc = "lookup" /\ conf.backend # "unknown"
    /\ cache # Empty
    /\ cand' = cache
    /\ pc' = IF conf.check THEN "validate" ELSE "holdback"
    /\ UNCHANGED <<conf, attempt, call, cache, valid, repos>>

\* No entry, one that cannot be read, or BITSWARM_NO_CACHE.
Miss ==
    /\ pc = "lookup" /\ conf.backend # "unknown"
    /\ attempt' = 1
    /\ pc' = "plan"
    /\ UNCHANGED <<conf, cand, call, cache, valid, repos>>

\* Phase 1: subtasks, shared files, and the names of gate tests, which may come with
\* a first content.
PlanScaffold ==
    /\ pc = "plan" /\ attempt <= MaxAttempts /\ conf.mode = "scaffold"
    /\ \E named \in Coming(Gates \cup Shared) : cand' = All(named, Content(attempt, "plan"))
    /\ contract' = {}
    /\ pc' = IF conf.testFirst THEN "tests" ELSE "files"
    /\ UNCHANGED <<conf, attempt, areas, cache, valid, repos>>

\* A plan for a diff names its tests without their content.
PlanDiff ==
    /\ pc = "plan" /\ attempt <= MaxAttempts /\ conf.mode = "diff"
    /\ \E named \in Coming(Shared) : cand' = All(named, Content(attempt, "plan"))
    /\ pc' = "files"
    /\ UNCHANGED <<conf, attempt, call, cache, valid, repos>>

AttemptFails ==
    /\ attempt' = attempt + 1
    /\ pc' = "plan"
    /\ UNCHANGED <<conf, cand, call, cache, valid, repos>>

\* The response is no JSON or has no subtasks.
BadResponse ==
    /\ pc = "plan" \/ (pc = "files" /\ conf.backend = "sdk")
    /\ attempt <= MaxAttempts
    /\ AttemptFails

\* The CLI ends well but says nothing, as often as it is asked.
NoResponse ==
    /\ pc = "plan" /\ conf.backend = "claude_code"
    /\ attempt <= MaxAttempts
    /\ AttemptFails

\* decompose catches neither what an API call raises that fails for good or three
\* times over, nor what the CLI's wrappers raise when it is missing, fails or takes
\* too long.
SdkRaises ==
    /\ pc \in {"plan", "files"} /\ conf.backend = "sdk" /\ attempt <= MaxAttempts
    /\ pc' = "raised"
    /\ UNCHANGED <<conf, attempt, cand, call, cache, valid, repos>>

CliRaises ==
    /\ pc \in {"plan", "tests", "files"} /\ conf.backend = "claude_code"
    /\ attempt <= MaxAttempts
    /\ pc' = "raised"
    /\ UNCHANGED <<conf, attempt, cand, call, cache, valid, repos>>

\* Mutation: the attempts of a task share their workspaces.
SharedArea(phase) == <<1, phase>>

Area(phase) == <<attempt, phase>>

\* The CLI writes some files into the workspace of a phase.
CliWrites(phase, written) ==
    areas' = [areas EXCEPT ![Area(phase)] =
                 Overlay(@, All(written, Content(attempt, phase)))]

GateNames == LET named == FilesOf(cand) \cap Gates
             IN  IF named = {} THEN {DefaultGate} ELSE named

\* Phase 1.5: what is found under the expected names replaces the plan's gate tests.
TestsFirst ==
    /\ pc = "tests"
    /\ \E written \in Coming(Gates) :
          /\ CliWrites("tests", written)
          /\ LET found == Part(areas'[Area("tests")], GateNames)
             IN  /\ cand' = IF found = Empty THEN cand ELSE Overlay(Part(cand, Shared), found)
                 /\ contract' = FilesOf(found)
    /\ pc' = "files"
    /\ UNCHANGED <<conf, attempt, cache, valid, repos>>

\* cache.save, unless the cache is disabled or the write fails.
Save(files) == cache' \in {files, cache}

\* A decomposition; without a validate_fn it is cached and returned.
Deliver(files) ==
    /\ cand' = files
    /\ IF conf.check THEN UNCHANGED cache ELSE Save(files)
    /\ pc' = IF conf.check THEN "validate" ELSE "holdback"

\* Phase 2 by the SDK: the response says which files there are.  Shared files are
\* those of the plan, shared additions those of the plan and of the response.
RespondFiles ==
    /\ pc = "files" /\ conf.backend = "sdk" /\ conf.mode = "scaffold"
    /\ \E S \in Coming(Sources \cup Gates) :
          Deliver(Overlay(Part(cand, Shared), All(S, Content(attempt, "files"))))
    /\ UNCHANGED <<conf, attempt, call, valid, repos>>

RespondDiff ==
    /\ pc = "files" /\ conf.backend = "sdk" /\ conf.mode = "diff"
    /\ \E S \in Coming(Paths) :
          Deliver(Overlay(Part(cand, Shared), All(S, Content(attempt, "files"))))
    /\ UNCHANGED <<conf, attempt, call, valid, repos>>

\* Mutation: phase 2 has the last word on the gate tests.
GateTestsOfPhase2(found) == Overlay(Part(cand, Gates), Part(found, Gates))

\* Gate tests, if there are any by now, stand.
GateTests(found) ==
    IF Part(cand, Gates) # Empty THEN Part(cand, Gates) ELSE Part(found, Gates)

\* A decomposition is made of the files found, unless there is no stub among them.
DeliverFound(found, files) ==
    IF Part(found, Sources) = Empty
    THEN attempt' = attempt + 1 /\ pc' = "plan" /\ UNCHANGED <<cand, cache>>
    ELSE attempt' = attempt /\ Deliver(files)

\* Phase 2 by the CLI: the expected files are read back from the workspace.
HarvestFiles ==
    /\ pc = "files" /\ conf.backend = "claude_code" /\ conf.mode = "scaffold"
    /\ \E written \in Coming(Sources \cup Gates) :
          /\ CliWrites("files", written)
          /\ LET found == Part(areas'[Area("files")], Sources \cup GateNames)
             IN  DeliverFound(found, Overlay(Part(cand, Shared),
                                             Overlay(Part(found, Sources), GateTests(found))))
    /\ UNCHANGED <<conf, contract, valid, repos>>

\* Of the shared additions, only those the plan names are looked for.
HarvestDiff ==
    /\ pc = "files" /\ conf.backend = "claude_code" /\ conf.mode = "diff"
    /\ \E written \in Coming(Paths), named \in SUBSET Gates :
          /\ CliWrites("files", written)
          /\ LET found == Part(areas'[Area("files")], Sources \cup named \cup FilesOf(cand))
             IN  DeliverFound(found, Overlay(cand, found))
    /\ UNCHANGED <<conf, contract, valid, repos>>

Exhausted ==
    /\ pc = "plan" /\ attempt > MaxAttempts
    /\ pc' = "failed"
    /\ UNCHANGED <<conf, attempt, cand, call, cache, valid, repos>>

\* Mutation: write_file leaves a file alone that is there already.
HoldingNew(files, tree) ==
    [p \in Paths |-> IF tree[p] = Absent THEN files[p] ELSE tree[p]]

Holding(files, tree) == Overlay(tree, files)

\* verify_stub_tests_fail writes the whole candidate, gate tests included, into
\* the working repository.  The diff validator writes nothing.
WriteCandidate ==
    IF conf.mode = "scaffold"
    THEN /\ disk' = Holding(cand, disk)
         /\ left' = [p \in Paths |-> left[p] \cup ({cand[p]} \ {Absent})]
    ELSE UNCHANGED <<disk, left>>

\* Every planned stub and stub test is there, and the other checks find no error.
Accept ==
    /\ pc = "validate"
    /\ Sources \subseteq FilesOf(cand)
    /\ WriteCandidate
    /\ valid' = valid \cup {cand}
    /\ IF attempt = 0 THEN UNCHANGED cache ELSE Save(cand)
    /\ pc' = "holdback"
    /\ UNCHANGED <<conf, attempt, cand, call, held, committed, recorded, merging>>

\* An error before the stub tests leaves the disk alone, one in them does not.
Reject ==
    /\ pc = "validate"
    /\ WriteCandidate \/ UNCHANGED <<disk, left>>
    /\ attempt' = attempt + 1
    /\ pc' = "plan"
    /\ UNCHANGED <<conf, cand, call, cache, valid, held, committed, recorded, merging>>

\* A file that cannot be written raises through decompose; nobody looks at the others.
ValidatorRaises ==
    /\ pc = "validate" /\ conf.mode = "scaffold"
    /\ pc' = "raised"
    /\ UNCHANGED <<conf, attempt, cand, call, cache, valid, repos>>

CandGates == FilesOf(cand) \cap Gates

\* select_holdback: at least one gate test is held back, one stays visible.
HoldSize(n, percent) ==
    IF percent = 0 \/ n < 2 THEN 0
    ELSE Min({n - 1, Max({1, (n * percent) \div 100})})

\* Which tests are held back follows from hashes: any of them.
HoldBack ==
    /\ pc = "holdback"
    /\ \E h \in SUBSET CandGates, percent \in Percents :
          /\ Cardinality(h) = HoldSize(Cardinality(CandGates), percent)
          /\ held' = h
    /\ pc' = "write"
    /\ UNCHANGED <<conf, attempt, cand, call, cache, valid, disk, left, committed, recorded,
                   merging>>

Visible == FilesOf(cand) \ held

WritesScaffold(tree) == Holding(Part(cand, Visible), tree)

\* Target stubs are not written, and a file that is there is left alone.
WritesDiff(tree) ==
    Holding(Part(cand, {p \in Visible \ Sources : tree[p] = Absent}), tree)

Write ==
    /\ pc = "write"
    /\ disk' = IF conf.mode = "scaffold" THEN WritesScaffold(disk) ELSE WritesDiff(disk)
    /\ pc' = "commit"
    /\ UNCHANGED <<conf, attempt, cand, call, cache, valid, left, held, committed, recorded,
                   merging>>

\* git add -A takes in whatever is in the working repository.
Commit ==
    /\ pc = "commit"
    /\ committed' = disk /\ recorded' = TRUE
    /\ pc' = "mine"
    /\ UNCHANGED <<conf, attempt, cand, call, cache, valid, disk, left, held, merging>>

\* A git commit that fails is warned about, and the task goes on with the HEAD there is.
CommitFails ==
    /\ pc = "commit"
    /\ pc' = "mine"
    /\ UNCHANGED <<conf, attempt, cand, call, cache, valid, repos>>

\* The merge repository is a copy of the working one.  Into a diff's go patches that nothing
\* keeps off the gate tests; a scaffold's patches are confined to their stubs, but not its
\* repair agents, nor the patches that replace a miner's.
Merge ==
    /\ pc = "mine"
    /\ IF conf.mode = "diff"
       THEN listed' \in SUBSET (CandGates \ conf.existing) /\ UNCHANGED repair
       ELSE repair' \in BOOLEAN /\ UNCHANGED listed
    /\ \E edits \in IF conf.mode = "diff" \/ repair' THEN SUBSET Gates ELSE {{}} :
          merged' = Holding(All(edits, Edited), disk)
    /\ pc' = IF conf.mode = "diff" THEN "restore" ELSE "reveal"
    /\ UNCHANGED <<conf, attempt, cand, call, cache, valid, disk, left, held, committed, recorded>>

\* One git checkout takes the listed tests out of the baseline.  There is none to find if the
\* commit failed, and one that is held back makes git refuse the others, too.
Restorable == recorded /\ listed \cap held = {}

Restore ==
    /\ pc = "restore"
    /\ merged' = IF Restorable THEN [p \in Paths |-> IF p \in listed THEN committed[p] ELSE merged[p]]
                 ELSE merged
    /\ pc' = "reveal"
    /\ UNCHANGED <<conf, attempt, cand, call, cache, valid, disk, left, held, committed, recorded,
                   listed, repair>>

\* Mutation: the held-back tests are not written into the merge repository.
RevealNothing ==
    /\ pc = "reveal"
    /\ pc' = "scored"
    /\ UNCHANGED <<conf, attempt, cand, call, cache, valid, repos>>

\* reveal_into_repo, on the merge repository.
Reveal ==
    /\ pc = "reveal"
    /\ merged' = Holding(Part(cand, held), merged)
    /\ pc' = "scored"
    /\ UNCHANGED <<conf, attempt, cand, call, cache, valid, disk, left, held, committed, recorded,
                   listed, repair>>

Next ==
    \/ UnknownBackend \/ Hit \/ Miss
    \/ PlanScaffold \/ PlanDiff \/ TestsFirst
    \/ RespondFiles \/ RespondDiff \/ HarvestFiles \/ HarvestDiff
    \/ BadResponse \/ NoResponse \/ SdkRaises \/ CliRaises \/ Exhausted
    \/ Accept \/ Reject \/ ValidatorRaises
    \/ HoldBack \/ Write \/ Commit \/ CommitFails
    \/ Merge \/ Restore \/ Reveal

Spec == Init /\ [][Next]_vars

-----------------------------------------------------------------------------
(* Properties                                                              *)

\* Type invariant.
TypeOK ==
    /\ conf \in Confs
    /\ attempt \in 0 .. MaxAttempts + 1
    /\ {cand, cache, disk, committed, merged} \subseteq Trees
    /\ valid \subseteq Trees /\ left \in [Paths -> SUBSET Contents]
    /\ contract \subseteq Gates /\ held \subseteq Gates /\ listed \subseteq Gates
    /\ recorded \in BOOLEAN /\ repair \in BOOLEAN
    /\ areas \in [Attempts \X {"tests", "files"} -> Trees]

Dispatched == pc \in {"mine", "restore", "reveal", "scored"}

Returned == pc \in {"holdback", "write", "commit"} \/ Dispatched

\* With a validator, what is scaffolded has passed it in this very run, be it
\* cached or new, and nothing new gets into the cache that has not (cache.py:22,
\* "always correctness-safe").
ValidatedBeforeUse ==
    conf.check =>
        /\ Returned => cand \in valid
        /\ (\E p \in Paths : cache[p].by > 0) => cache \in valid

\* What the repository held before the coordinator came.
Own == All(conf.existing, Earlier)

\* The scaffold commit has the accepted content of every file the decomposition shows, and
\* is otherwise the repository as it was: that is all of it for a diff's baseline, which
\* leaves files that are there alone.  In a scaffold it also has files of rejected
\* candidates and held-back tests, and no others: git add -A takes in what the stub test
\* runs left behind.
ScaffoldIsAccepted ==
    Dispatched /\ recorded =>
        \A p \in Paths :
            IF conf.mode = "diff"
            THEN committed[p] = IF p \in Visible \ conf.existing THEN cand[p] ELSE Own[p]
            ELSE /\ p \in Visible => committed[p] = cand[p]
                 /\ p \notin Visible =>
                       IF left[p] = {} THEN committed[p] = Own[p] ELSE committed[p] \in left[p]

\* The gate tests that are still the coordinator's when the others may have been edited.
Protected ==
    held \cup IF conf.mode = "scaffold" THEN IF repair THEN {} ELSE CandGates
             ELSE IF Restorable THEN listed ELSE {}

\* The gate tests are scored against with the content the decomposition gave them: those
\* held back always; the visible ones of a scaffold unless a repair agent got to them, and
\* the listed ones of a diff, whatever the patches did to them, if its baseline was
\* committed and none of them is held back.  And at least one of several is visible.
GatesComplete ==
    pc = "scored" =>
        /\ \A p \in Protected : merged[p] = cand[p]
        /\ CandGates # {} => CandGates \cap Visible # {}

\* A decomposition is of one mind: none that a call delivered has files of two
\* attempts, unless an earlier run left its own in the workspaces.
AttemptsDontMix ==
    Returned =>
        \A p, q \in FilesOf(cand) :
            Earlier \notin {cand[p], cand[q]} => cand[p].by = cand[q].by

\* The gate tests written first are the contract (decomposer_cc.py:375): they are what
\* is validated, cached, scaffolded and scored against, whatever phase 2 wrote.
FirstTestsStand ==
    attempt > 0 /\ (pc = "validate" \/ Returned) =>
        \A p \in contract : cand[p] = Earlier \/ cand[p].phase = "tests"

\* validator/scaffolder.py:50, "so held-back tests never land in the repo
\* miners see".
HeldBackHidden == Dispatched => \A p \in held : committed[p] # cand[p]

==============================================================================
