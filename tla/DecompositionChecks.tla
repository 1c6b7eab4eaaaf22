------------------------- MODULE DecompositionChecks --------------------------
(***************************************************************************)
(* The validators a decomposition has to pass before anybody works on it:  *)
(* validate_decomposition (validator/validator_checks.py) in scaffold mode *)
(* and validate_diff_decomposition (validator/diff_validator.py), with the *)
(* depth-first search both use for cycles, step by step.                   *)
(*                                                                         *)
(* Of the text of a file its parser's verdicts are kept: is it broken, does*)
(* an import of it not resolve, does its text have np. or pd. but not the  *)
(* import that goes with it, and the facts of InterfaceContracts.          *)
(***************************************************************************)
EXTENDS Integers, FiniteSets, Sequences, FiniteSetsExt, InterfaceContracts

CONSTANTS
    Ids,        \* subtask ids, and an id no subtask has
    Plans       \* the decompositions a coordinator may come up with

(***************************************************************************)
(* A plan:                                                                 *)
(*   subtasks   sequence of [id, files, tests, deps, weight, complete];    *)
(*              files are stub_files or modify_files, weights hundredths,  *)
(*              complete says that no required field is missing            *)
(*   stubs      paths with content in stub_files or target_stubs           *)
(*   tests      paths with content in stub_test_files or new_test_files    *)
(*   broken     paths that do not parse                                    *)
(*   aliased    paths with the text np. or pd. but not that of its import  *)
(*   unresolved paths with an import that does not resolve                 *)
(*   dangling   a file of the repository imports what will not be there    *)
(*   facts      the files of the scaffold as InterfaceContracts sees them  *)
(*   existing   paths that are in the repository already                   *)
(***************************************************************************)

\* Lists are sequences, and what a subtask is called or depends on is an id.
ASSUME PlansAssumption ==
    \A p \in Plans :
        LET listed == {p.subtasks[i] : i \in DOMAIN p.subtasks}
        IN  /\ p.subtasks \in Seq(listed)
            /\ \A s \in listed : s.id \in Ids /\ s.deps \subseteq Ids
            /\ p.dangling \in BOOLEAN
            /\ p.facts \in Seq({p.facts[i] : i \in DOMAIN p.facts})

VARIABLES
    mode,       \* "scaffold" or "diff"
    plan,
    step,
    errors,     \* the checks that reported an error
    visited,    \* depth-first search: nodes entered so far,
    path,       \*   the nodes on the stack,
    rest,       \*   and the dependencies each of them has still to follow
    toRun,      \* stub tests still to be run
    failedTests,\* stub tests that failed, as they should
    written     \* the candidate has been written into the repository

vars == <<mode, plan, step, errors, visited, path, rest, toRun, failedTests, written>>
dfsVars == <<visited, path, rest>>
testVars == <<toRun, failedTests, written>>

Steps == {"structure", "cycles", "content", "contracts", "stubTests",
          "accepted", "rejected", "raised"}

Subtasks == {plan.subtasks[i] : i \in DOMAIN plan.subtasks}
KnownIds == {s.id : s \in Subtasks}
AllFiles == UNION {s.files : s \in Subtasks}
AllTests == UNION {s.tests : s \in Subtasks}

TypeOK ==
    /\ mode \in {"scaffold", "diff"} /\ step \in Steps
    /\ errors \subseteq {"syntax", "alias", "imports", "repository", "fields", "overlap",
                         "weights", "cycle", "paths", "content", "dependencies", "contracts", "stub tests"}
    /\ visited \subseteq Ids
    /\ path \in Seq(Ids) /\ rest \in Seq(SUBSET Ids) /\ Len(path) = Len(rest)
    /\ toRun \subseteq AllTests /\ failedTests \subseteq AllTests
    /\ written \in BOOLEAN

Init ==
    /\ mode \in {"scaffold", "diff"}
    /\ plan \in Plans
    /\ step = "structure"
    /\ errors = {}
    /\ visited = {} /\ path = <<>> /\ rest = <<>>
    /\ toRun = {} /\ failedTests = {}
    /\ written = FALSE

\* Both dictionaries are keyed by id: the last subtask of an id is its node.
Deps(id) ==
    LET having == {i \in DOMAIN plan.subtasks : plan.subtasks[i].id = id}
    IN  IF having = {} THEN {} ELSE plan.subtasks[Max(having)].deps

Overlap == \E i, j \in DOMAIN plan.subtasks :
               i # j /\ plan.subtasks[i].files \cap plan.subtasks[j].files # {}

TotalWeight(p) == FoldSet(LAMBDA i, n : n + p.subtasks[i].weight, 0, DOMAIN p.subtasks)

\* abs(total - 1.0) > 0.01, or not 0.99 <= total <= 1.01: as floating point numbers,
\* 0.99 and 1.01 are more than 0.01 away from 1.0.
WeightsOff ==
    IF mode = "scaffold" THEN TotalWeight(plan) <= 99 \/ TotalWeight(plan) >= 101
    ELSE TotalWeight(plan) < 99 \/ TotalWeight(plan) > 101

Reporting(checks) == {name \in DOMAIN checks : checks[name]}

\* Checks 1 to 5 of validate_decomposition.  All files have to parse; imports are looked at
\* in those of the stubs and stub tests that do.
ScaffoldStructure ==
    /\ step = "structure" /\ mode = "scaffold"
    /\ errors' = Reporting(
          [syntax |-> plan.broken # {},
           alias |-> plan.aliased # {},
           imports |-> (plan.unresolved \ plan.broken) \cap (plan.stubs \cup plan.tests) # {},
           repository |-> plan.dangling,
           overlap |-> Overlap,
           weights |-> WeightsOff])
    /\ step' = "cycles"
    /\ UNCHANGED <<mode, plan, dfsVars, testVars>>

\* Checks 1 to 3 of validate_diff_decomposition: without its fields a plan is not
\* looked at any further.
DiffBails ==
    /\ step = "structure" /\ mode = "diff"
    /\ plan.subtasks = <<>> \/ \E s \in Subtasks : ~s.complete
    /\ errors' = {"fields"}
    /\ step' = "rejected"
    /\ UNCHANGED <<mode, plan, dfsVars, testVars>>

\* Checks 4 to 10, but the cycles.
DiffStructure ==
    /\ step = "structure" /\ mode = "diff"
    /\ plan.subtasks # <<>> /\ \A s \in Subtasks : s.complete
    /\ errors' = Reporting(
          [weights |-> WeightsOff,
           paths |-> \/ \E s \in Subtasks : s.files = {}
                     \/ ~(AllFiles \subseteq plan.existing)
                     \/ AllTests \cap plan.existing # {},
           overlap |-> Overlap,
           content |-> ~(AllFiles \subseteq plan.stubs /\ AllTests \subseteq plan.tests),
           dependencies |-> \E s \in Subtasks : ~(s.deps \subseteq KnownIds)])
    /\ step' = "cycles"
    /\ UNCHANGED <<mode, plan, dfsVars, testVars>>

Top(s) == s[Len(s)]

Push(id) ==
    /\ visited' = visited \cup {id}
    /\ path' = Append(path, id)

OnStack(id) == id \in {path[i] : i \in DOMAIN path}

Root ==
    /\ step = "cycles" /\ path = <<>>
    /\ \E id \in KnownIds \ visited :
          Push(id) /\ rest' = <<Deps(id)>>
    /\ UNCHANGED <<mode, plan, step, errors, testVars>>

\* Mutation: a node that has been left still counts as being on the stack.
SeenBefore(id) == id \in visited

ClosesCycle(id) == OnStack(id)

\* A dependency that is on the stack is a cycle; the diff validator stops at one,
\* the scaffold validator looks for more.
FindCycle ==
    /\ step = "cycles" /\ path # <<>>
    /\ \E id \in Top(rest) :
          /\ ClosesCycle(id)
          /\ errors' = errors \cup {"cycle"}
          /\ IF mode = "diff"
             THEN step' = "rejected" /\ UNCHANGED rest
             ELSE step' = step /\ rest' = [rest EXCEPT ![Len(rest)] = @ \ {id}]
    /\ UNCHANGED <<mode, plan, visited, path, testVars>>

\* A dependency that has been dealt with, or, in diff mode, that nobody has.
PassOver ==
    /\ step = "cycles" /\ path # <<>>
    /\ \E id \in Top(rest) :
          /\ ~ClosesCycle(id)
          /\ id \in visited \/ (mode = "diff" /\ id \notin KnownIds)
          /\ rest' = [rest EXCEPT ![Len(rest)] = @ \ {id}]
    /\ UNCHANGED <<mode, plan, step, errors, visited, path, testVars>>

Descend ==
    /\ step = "cycles" /\ path # <<>>
    /\ \E id \in Top(rest) :
          /\ ~ClosesCycle(id) /\ id \notin visited
          /\ mode = "diff" => id \in KnownIds
          /\ Push(id)
          /\ rest' = Append([rest EXCEPT ![Len(rest)] = @ \ {id}], Deps(id))
    /\ UNCHANGED <<mode, plan, step, errors, testVars>>

Leave ==
    /\ step = "cycles" /\ path # <<>>
    /\ Top(rest) = {}
    /\ path' = SubSeq(path, 1, Len(path) - 1)
    /\ rest' = SubSeq(rest, 1, Len(rest) - 1)
    /\ UNCHANGED <<mode, plan, step, errors, visited, testVars>>

Verdict == IF errors = {} THEN "accepted" ELSE "rejected"

SearchEnds ==
    /\ step = "cycles" /\ path = <<>>
    /\ KnownIds \subseteq visited
    /\ step' = IF mode = "diff" THEN Verdict ELSE "content"
    /\ UNCHANGED <<mode, plan, errors, dfsVars, testVars>>

\* Check 7: a subtask has tests, and content for every path it lists.
ContentMissing ==
    \E s \in Subtasks : \/ s.tests = {}
                        \/ ~(s.files \subseteq plan.stubs)
                        \/ ~(s.tests \subseteq plan.tests)

CheckContent ==
    /\ step = "content"
    /\ errors' = IF ContentMissing THEN errors \cup {"content"} ELSE errors
    /\ step' = IF errors' = {} THEN "contracts" ELSE "rejected"
    /\ UNCHANGED <<mode, plan, dfsVars, testVars>>

\* Check 8, only if there was no error so far.
CheckContracts ==
    /\ step = "contracts"
    /\ \E verdict \in ContractVerdicts(plan.facts) :
          IF verdict = "mismatch"
          THEN errors' = errors \cup {"contracts"} /\ step' = "rejected"
          ELSE errors' = errors /\ step' = "stubTests"
    /\ UNCHANGED <<mode, plan, dfsVars, testVars>>

\* Check 9: the candidate is written into the repository, then its stub tests are run.
WriteCandidate ==
    /\ step = "stubTests" /\ ~written
    /\ written' = TRUE
    /\ toRun' = AllTests
    /\ UNCHANGED <<mode, plan, step, errors, dfsVars, failedTests>>

\* A file that cannot be written raises, and the others stay.
WriteFails ==
    /\ step = "stubTests" /\ ~written
    /\ written' = TRUE
    /\ step' = "raised"
    /\ UNCHANGED <<mode, plan, errors, dfsVars, toRun, failedTests>>

\* A stub test fails, as it should, or passes, times out or cannot be run.
RunStubTest ==
    /\ step = "stubTests"
    /\ \E t \in toRun :
          /\ toRun' = toRun \ {t}
          /\ \/ failedTests' = failedTests \cup {t} /\ errors' = errors
             \/ failedTests' = failedTests /\ errors' = errors \cup {"stub tests"}
    /\ UNCHANGED <<mode, plan, step, dfsVars, written>>

\* Mutation: a test that passes is only warned about.
IgnoringTests == "accepted"

FinalVerdict == Verdict

Finish ==
    /\ step = "stubTests" /\ written /\ toRun = {}
    /\ step' = FinalVerdict
    /\ UNCHANGED <<mode, plan, errors, dfsVars, testVars>>

Next ==
    \/ ScaffoldStructure \/ DiffBails \/ DiffStructure
    \/ Root \/ FindCycle \/ PassOver \/ Descend \/ Leave \/ SearchEnds
    \/ CheckContent \/ CheckContracts \/ WriteCandidate \/ WriteFails \/ RunStubTest \/ Finish

Spec == Init /\ [][Next]_vars

-----------------------------------------------------------------------------
(* Properties                                                              *)

Decided == step \in {"accepted", "rejected"}

\* No cycle: every set of subtasks has one that depends on none of the set.
Acyclic == \A S \in (SUBSET KnownIds) \ {{}} : \E id \in S : Deps(id) \cap S = {}

\* What a plan has to be like for the work on it to fit together.
Sound ==
    /\ Acyclic /\ ~Overlap /\ ~WeightsOff
    /\ AllFiles \subseteq plan.stubs /\ AllTests \subseteq plan.tests
    /\ mode = "scaffold" =>
          /\ \A s \in Subtasks : s.tests # {}
          /\ plan.broken = {} /\ plan.unresolved \cap (plan.stubs \cup plan.tests) = {}
          /\ ~plan.dangling
    /\ mode = "diff" =>
          /\ plan.subtasks # <<>>
          /\ \A s \in Subtasks : s.complete /\ s.files # {} /\ s.deps \subseteq KnownIds
          /\ AllFiles \subseteq plan.existing /\ AllTests \cap plan.existing = {}

\* Every module's names, over all its files; every call of a name that only one
\* definition can be meant by.
ImportsExist ==
    \A i \in DOMAIN plan.facts : \A imp \in plan.facts[i].imports :
        imp.module \in Modules(plan.facts) =>
            imp.names \subseteq NamesOf(plan.facts, imp.module)
CallsFit ==
    \A i \in DOMAIN plan.facts : \A call \in plan.facts[i].calls :
        LET defining == {j \in DOMAIN plan.facts : call.callee \in DOMAIN plan.facts[j].defs}
            InScope(j) == \/ plan.facts[j].module = plan.facts[i].module
                          \/ \E imp \in plan.facts[i].imports :
                                /\ imp.module = plan.facts[j].module
                                /\ call.callee \in imp.names \/ imp.names = {}
        IN  \A j \in defining :
                LET info == plan.facts[j].defs[call.callee]
                IN  defining = {j} /\ InScope(j) /\ Callable(info) /\ info.exported =>
                        Fits(call, info)

\* The lint for aliases looks at text alone: np. in a comment will do, or inp.read().
Linted == mode = "scaffold" /\ plan.aliased # {}

\* Whatever order the search takes and wherever a check bails out, only a sound plan is
\* accepted, and the one thing of its structure a sound plan is refused for is the text
\* the lint looks for.
StructureDecides ==
    /\ step = "accepted" => Sound /\ ~Linted
    /\ step = "rejected" /\ Sound =>
          /\ errors \subseteq {"alias", "contracts", "stub tests"}
          /\ "alias" \in errors => Linted

\* A scaffold is accepted only if its files agree about their interfaces, and is
\* not refused for them if every import has its definition and every call fits.
ContractsDecide ==
    /\ step = "accepted" /\ mode = "scaffold" => ImportsExist /\ CallsFit
    /\ "contracts" \in errors /\ ImportsExist =>
          \E i \in DOMAIN plan.facts : \E call \in plan.facts[i].calls :
              \E j \in DOMAIN plan.facts :
                  /\ call.callee \in DOMAIN plan.facts[j].defs
                  /\ ~Fits(call, plan.facts[j].defs[call.callee])

\* The repository is written to only for a plan that passed every other check, and
\* a scaffold is accepted only when each of its stub tests was seen to fail.
StubTestsFail ==
    /\ written => Sound /\ ImportsExist /\ mode = "scaffold"
    /\ step = "accepted" /\ mode = "scaffold" => failedTests = AllTests

==============================================================================
