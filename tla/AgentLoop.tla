------------------------------ MODULE AgentLoop -------------------------------
(***************************************************************************)
(* The miner's agent loop (miner/agent.py, and miner/agent_openai.py, which*)
(* is the same loop): call the model, execute the blocks of its response,  *)
(* keep the retry state of miner/recovery.py over the test runs among them *)
(* and ship what the workspace holds when the loop ends.                   *)
(*                                                                         *)
(* A test run is the set of tests whose FAILED lines it prints, with the   *)
(* exception of each, and whether the shell command exited with 0: the two *)
(* are independent, as the command may be a pipe or be killed.             *)
(***************************************************************************)
EXTENDS MinerTools, Integers, Sequences

CONSTANTS
    Tests,          \* numbered, in the order pytest runs them
    Exceptions,     \* exceptions with a message ("TypeError: ...")
    Assert,         \* a plain assert, whose summary line names no exception
    MaxCalls,       \* 40 API calls
    MaxBlocks,      \* bounds the tool calls in one response
    MaxIterations,  \* MAX_MINER_ITERATIONS
    MaxSame,        \* MAX_CONSECUTIVE_SAME_ERROR
    MaxVariants     \* MAX_DIFFERENT_ERRORS_SAME_TEST

ASSUME AgentAssumption ==
    /\ Tests \subseteq Nat /\ IsFiniteSet(Tests)
    /\ Assert \notin Exceptions
    /\ {MaxCalls, MaxBlocks, MaxIterations, MaxVariants} \subseteq Nat \ {0}
    /\ MaxSame \in Nat /\ MaxSame > 1     \* one failure repeats nothing

VARIABLES
    pc,         \* "call" the model, execute "blocks", "done" or "raised"
    calls,      \* API calls so far
    blocks,     \* blocks of the response still to be executed
    history,    \* the test runs
    same,       \* consecutive_same_error
    lastSig,    \* last_error_signature
    variants,   \* per_test_error_variants
    stop        \* stop_reason

retryVars == <<history, same, lastSig, variants, stop>>
vars == <<pc, calls, blocks, retryVars, toolVars>>

Kinds == Exceptions \cup {Assert}
Runs == UNION {[exit0 : BOOLEAN, failed : [f -> Kinds]] : f \in SUBSET Tests}
Failing(run) == DOMAIN run.failed

\* extract_per_test_errors stores the text before the first ":" of a line with
\* "Error:" in it.  On a summary line that is "FAILED <file>", whatever the
\* exception.  On a traceback line it is the exception; that line goes to the
\* last test in the progress report, be it this test's traceback or not.
Summary == "FAILED <file>"

TypeOK ==
    /\ pc \in {"call", "blocks", "done", "raised"}
    /\ calls \in 0 .. MaxCalls
    /\ blocks \in 0 .. MaxBlocks
    /\ history \in Seq(Runs)
    /\ same \in Nat
    /\ lastSig \subseteq Tests
    /\ variants \in [Tests -> SUBSET (Exceptions \cup {Summary})]
    /\ stop \in {"none", "tests_passed", "max_iterations", "repeated_error"}
    /\ ToolsTypeOK

Init ==
    /\ pc = "call"
    /\ calls = 0
    /\ blocks = 0
    /\ history = <<>>
    /\ same = 0
    /\ lastSig = {}
    /\ variants = [t \in Tests |-> {}]
    /\ stop = "none"
    /\ ToolsInit

Least(S) == CHOOSE t \in S : \A u \in S : t <= u
Greatest(S) == CHOOSE t \in S : \A u \in S : t >= u
Named(run) == {t \in Failing(run) : run.failed[t] \in Exceptions}
Last(run) == Greatest(Failing(run))

\* The tests the output is read as saying something about, and what it says.
NotedTests(run) == IF Named(run) = {} THEN {} ELSE Named(run) \cup {Last(run)}
Noted(run, t) == IF t \in Named(run) THEN Summary ELSE run.failed[Least(Named(run))]

\* In the order of the dictionary: the last test was entered first.
NotedBefore(run, u, t) == u # t /\ (u = Last(run) \/ (t # Last(run) /\ u < t))

VariantsWith(run, t) == variants[t] \cup {Noted(run, t)}

\* Mutation: what is noted of any test counts for all of them.
ThrashesAnywhere(run) ==
    Cardinality(UNION {variants[t] : t \in Tests}
                    \cup {Noted(run, t) : t \in NotedTests(run)}) >= MaxVariants

\* detect_thrashing; it returns at the first test that has enough variants.
Thrashes(run) ==
    \E t \in NotedTests(run) : Cardinality(VariantsWith(run, t)) >= MaxVariants
Recorded(run) ==
    {t \in NotedTests(run) : \A u \in NotedTests(run) :
        NotedBefore(run, u, t) => Cardinality(VariantsWith(run, u)) < MaxVariants}

\* Mutation: an empty signature leaves the count as it is.
SameAfterKept(run) == IF Failing(run) \in {lastSig, {}} THEN same + 1 ELSE 1

\* The signature is the set of failing tests; exceptions are cut off.
SameAfter(run) ==
    IF Failing(run) = lastSig /\ Failing(run) # {} THEN same + 1 ELSE 1

\* should_stop.  A reason once set is only ever replaced.
StopAfter(run, n, s) ==
    CASE run.exit0 -> "tests_passed"
      [] ~run.exit0 /\ n >= MaxIterations -> "max_iterations"
      [] ~run.exit0 /\ n < MaxIterations /\ s >= MaxSame -> "repeated_error"
      [] OTHER -> stop

\* for _ in range(max_api_calls)
MayCall == calls < MaxCalls

\* Mutation: the calls are not counted.
RespondUncounted ==
    /\ pc = "call" /\ MayCall
    /\ blocks' \in 1 .. MaxBlocks
    /\ pc' = "blocks"
    /\ UNCHANGED <<calls, retryVars, toolVars>>

Respond ==
    /\ pc = "call" /\ MayCall
    /\ calls' = calls + 1
    /\ blocks' \in 1 .. MaxBlocks
    /\ pc' = "blocks"
    /\ UNCHANGED <<retryVars, toolVars>>

\* A response without a tool call ends the loop, as does the last call.
Finish ==
    /\ pc = "call"
    /\ calls' \in IF MayCall THEN {calls + 1} ELSE {calls}
    /\ pc' = "done"
    /\ UNCHANGED <<blocks, retryVars, toolVars>>

\* An API error that persists is raised to the caller.
ApiFails ==
    /\ pc = "call" /\ MayCall
    /\ pc' = "raised"
    /\ UNCHANGED <<calls, blocks, retryVars, toolVars>>

\* The next block, or, after the last, the look at stop_reason.
Advance(reason) ==
    /\ pc = "blocks"
    /\ blocks' = blocks - 1
    /\ pc' = IF blocks > 1 THEN "blocks" ELSE IF reason = "none" THEN "call" ELSE "done"

\* A file_write, or a command that changes a file or the repository.
Write ==
    /\ Advance(stop)
    /\ \/ ShellGit
       \/ \E f \in Files : \/ \E text \in Texts : FileWrite(f, text)
                           \/ \E text \in Texts \cup {Absent} : ShellWrite(f, text)
    /\ UNCHANGED <<calls, retryVars>>

\* A block that neither writes nor tests, or whose file_write is refused.
Look ==
    /\ Advance(stop)
    /\ UNCHANGED <<calls, retryVars, toolVars>>

\* A bash command with "pytest" in it: update_state, then the hard reset.
TestRun(run) ==
    /\ same' = SameAfter(run)
    /\ lastSig' = Failing(run)
    /\ history' = Append(history, run)
    /\ stop' = StopAfter(run, Len(history'), same')
    /\ Advance(stop')
    /\ IF run.exit0
       THEN UNCHANGED <<variants, toolVars>>
       ELSE /\ variants' = [t \in Tests |->
                  IF t \in Recorded(run) THEN VariantsWith(run, t) ELSE variants[t]]
            /\ IF Thrashes(run) THEN Reset ELSE UNCHANGED toolVars
    /\ UNCHANGED calls

Next ==
    \/ Respond \/ Finish \/ ApiFails
    \/ Write \/ Look
    \/ \E run \in Runs : TestRun(run)

\* The API call and every tool have a timeout.
Spec == Init /\ [][Next]_vars /\ WF_vars(Next)

-----------------------------------------------------------------------------
(* Properties                                                              *)

Signatures == [i \in 1 .. Len(history) |-> Failing(history[i])]
EqualRunEndingAt(i) ==
    /\ i >= MaxSame
    /\ Signatures[i] # {}
    /\ \A j \in i - MaxSame + 1 .. i : Signatures[j] = Signatures[i]

\* "same_error_repeated_3x" is said when, and only when, a failing run is the
\* last of MaxSame consecutive runs that failed the same tests: a different
\* failure or an unreadable one in between starts the count anew.
RepeatedErrorIsRepeated ==
    /\ stop = "repeated_error" => \E i \in DOMAIN history :
          EqualRunEndingAt(i) /\ ~history[i].exit0
    /\ pc = "call" => ~\E i \in DOMAIN history : EqualRunEndingAt(i)

\* The loop never goes back to the model after MaxIterations test runs or after
\* a run that passed; only the rest of the response is still executed.
StopsInTime ==
    /\ pc = "call" => Len(history) < MaxIterations
                        /\ \A i \in DOMAIN history : ~history[i].exit0
    /\ Len(history) < MaxIterations + MaxBlocks

\* The loop stops for the reason it gives, and for every reason it has: never a
\* count carried over from other failures, never a further call once it is over.
StopsForItsReason == RepeatedErrorIsRepeated /\ StopsInTime

\* The agent's files are wiped only after MaxVariants different things were
\* read from the failing runs about one and the same test.
WipedOnlyIfThrashing ==
    [][history' # history /\ disk' # disk =>
          \E t \in Tests :
              Cardinality({Noted(history'[i], t) : i \in {j \in DOMAIN history' :
                  t \in NotedTests(history'[j]) /\ ~history'[j].exit0}}) >= MaxVariants]_vars

==============================================================================
