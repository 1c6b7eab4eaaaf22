-------------------------- MODULE MinerBackendsProofs ---------------------------
(***************************************************************************)
(* Theorems about the miner's backends, for all sets of files and tests    *)
(* and all values of the retry limits: what the tools let into the         *)
(* workspace, what a verdict of the claude backend is about, and why the   *)
(* agent loop stops.                                                       *)
(***************************************************************************)
EXTENDS MinerBackends, SequenceTheorems, FiniteSetTheorems, WellFoundedInduction, TLAPS

-----------------------------------------------------------------------------
(* The tools                                                               *)

\* A file that was there is only gone if a command removed it.
Kept == \A f \in Files \ shelled : disk[f] = Absent => Original[f] = Absent

ToolsInv ==
    /\ mode \in {"scaffold", "diff"} /\ disk \in Workspaces /\ shelled \subseteq Files
    /\ Kept /\ WritesKeepContract

\* The ways a step can touch the workspace.
LEMMA ToolSteps ==
  ASSUME [BackendsNext]_allVars
  PROVE  /\ mode' = mode
         /\ \/ \E f \in Files, text \in Texts : FileWrite(f, text)
            \/ \E f \in Files, text \in Texts \cup {Absent} : ShellWrite(f, text)
            \/ Reset
            \/ /\ shelled' = shelled \cup {f \in Files : disk'[f] # disk[f]}
               /\ \/ disk' = disk
                  \/ \E f \in Files, c \in Texts \cup {Absent} : disk' = [disk EXCEPT ![f] = c]
            \/ UNCHANGED <<disk, shelled>>
<1>1. CASE SdkStep
  <2>1. CASE Respond \/ Finish \/ ApiFails \/ Look
    BY <2>1 DEF Respond, Finish, ApiFails, Look, toolVars
  <2>2. CASE Write
    BY <2>2 DEF Write, FileWrite, ShellWrite, ShellGit
  <2>3. CASE \E run \in Runs : TestRun(run)
    BY <2>3 DEF TestRun, Reset, toolVars
  <2> QED
    BY <1>1, <2>1, <2>2, <2>3 DEF SdkStep, Next
<1>2. CASE ClaudeStep
  <2>1. \/ mode' = mode /\ disk' = disk
        \/ mode' = mode /\ \E f \in Files, c \in Texts \cup {Absent} : disk' = [disk EXCEPT ![f] = c]
    BY <1>2 DEF ClaudeStep, Claude!Next, Claude!Proceed, Claude!NoCli, Claude!StartCli,
        Claude!CliExits, Claude!CliRaises, Claude!FinalTest, Claude!GeneratePatch,
        Claude!NothingToReplay, Claude!TakeDiff, Claude!AddWorktree, Claude!ApplyPatch,
        Claude!ReplayFails, Claude!ReplayRaises, Claude!ReplayTest, Claude!Judge,
        Claude!RemoveWorktree, Claude!CliEdits, Claude!CliQuotesSubject,
        Claude!CliLosesSubject, Claude!OrphanWrites, Claude!Edit
  <2> QED
    BY <1>2, <2>1 DEF ClaudeStep
<1>3. CASE UNCHANGED toolVars
  BY <1>3 DEF toolVars
<1>4. CASE SelectBackend \/ Refuse \/ SdkAnswer \/ ClaudeAnswer \/ BackendRaised
  BY <1>3, <1>4 DEF SelectBackend, Refuse, SdkAnswer, ClaudeAnswer, BackendRaised, AnswerWith, vars
<1>5. CASE UNCHANGED allVars
  BY <1>3, <1>5 DEF allVars, vars
<1> QED
  BY <1>1, <1>2, <1>4, <1>5 DEF BackendsNext

\* An accepted write defines what the contract of its file allows.
LEMMA WriteKeeps ==
  ASSUME ToolsInv, NEW f \in Files, NEW text \in Texts, FileWrite(f, text)
  PROVE  ToolsInv'
<1> USE ToolsAssumption
<1>1. /\ f \in Allowed /\ text.names \ Reference(f) = {} /\ text.names \subseteq Names
      /\ disk' = [disk EXCEPT ![f] = text] /\ UNCHANGED <<mode, shelled>>
  BY DEF FileWrite, MayWrite, AddedNames, Texts
<1>2. disk' \in Workspaces
  BY <1>1 DEF ToolsInv, Workspaces
<1>3. \A g \in Files : disk'[g] = IF g = f THEN text ELSE disk[g]
  BY <1>1 DEF ToolsInv, Workspaces
<1>4. Kept'
  BY <1>1, <1>3 DEF ToolsInv, Kept
<1>5. ASSUME f \notin shelled, Contract(f) # NoTarget
      PROVE  text.names \subseteq Contract(f)
  <2>1. CASE mode = "diff"
    BY <1>1, <1>5, <2>1 DEF Reference, Contract
  <2>2. CASE mode = "scaffold"
    <3>1. Original[f] # Absent /\ disk[f] # Absent /\ Contract(f) = Original[f].names
      BY <1>1, <1>5, <2>2 DEF Contract, ToolsInv, Kept
    <3>2. text.names \subseteq disk[f].names
      BY <1>1, <2>2, <3>1 DEF Reference
    <3>3. disk[f].names \subseteq Contract(f)
      BY <1>1, <1>5, <3>1 DEF ToolsInv, WritesKeepContract
    <3> QED
      BY <3>2, <3>3
  <2> QED
    BY <2>1, <2>2 DEF ToolsInv
<1>6. \A g : Contract(g)' = Contract(g)
  BY <1>1 DEF Contract
<1>7. WritesKeepContract'
  BY <1>1, <1>3, <1>5, <1>6 DEF ToolsInv, WritesKeepContract
<1> QED
  BY <1>1, <1>2, <1>4, <1>7 DEF ToolsInv

\* What the agent is given keeps the contract.
LEMMA ToolsStart ==
  ASSUME ToolsInit
  PROVE  ToolsInv
BY ToolsAssumption DEF ToolsInit, ToolsInv, Kept, WritesKeepContract

\* No step lets a foreign name into a file, or removes one without a command.
LEMMA ToolsStep ==
  ASSUME ToolsInv, [BackendsNext]_allVars
  PROVE  ToolsInv'
<1> USE ToolsAssumption
<1>0. /\ mode' = mode /\ \A g : Contract(g)' = Contract(g)
      /\ disk \in Workspaces /\ shelled \subseteq Files
  BY ToolSteps DEF Contract, ToolsInv
<1>1. CASE \E f \in Files, text \in Texts : FileWrite(f, text)
  BY <1>1, WriteKeeps
<1>2. ASSUME NEW f \in Files, NEW text \in Texts \cup {Absent},
             disk' = [disk EXCEPT ![f] = text],
             shelled \subseteq shelled', shelled' \subseteq shelled \cup {f},
             f \in shelled' \/ disk' = disk
      PROVE  ToolsInv'
  <2>1. disk' \in Workspaces
    BY <1>0, <1>2 DEF Workspaces
  <2>2. \A g \in Files \ shelled' : g \notin shelled /\ disk'[g] = disk[g]
    BY <1>0, <1>2 DEF Workspaces
  <2> QED
    BY <1>0, <1>2, <2>1, <2>2 DEF ToolsInv, Kept, WritesKeepContract
<1>3. CASE \E f \in Files, text \in Texts \cup {Absent} : ShellWrite(f, text)
  BY <1>2, <1>3 DEF ShellWrite
<1>4. CASE Reset
  <2>1. \A g \in Files : disk'[g] = IF g \in OriginalStubs THEN Original[g] ELSE disk[g]
    BY <1>4 DEF Reset
  <2>2. disk' \in Workspaces /\ shelled' \subseteq Files
    BY <1>0, <1>4 DEF Reset, Workspaces
  <2>3. Kept'
    BY <1>4, <2>1 DEF Reset, ToolsInv, Kept, OriginalStubs
  <2>4. WritesKeepContract'
    BY <1>0, <1>4, <2>1 DEF Reset, ToolsInv, WritesKeepContract
  <2> QED
    BY <1>0, <2>2, <2>3, <2>4 DEF ToolsInv
<1>5. CASE /\ shelled' = shelled \cup {f \in Files : disk'[f] # disk[f]}
           /\ \/ disk' = disk
              \/ \E f \in Files, c \in Texts \cup {Absent} : disk' = [disk EXCEPT ![f] = c]
  <2>1. CASE disk' = disk
    BY <1>0, <1>5, <2>1 DEF ToolsInv, Kept, WritesKeepContract
  <2>2. ASSUME NEW f \in Files, NEW c \in Texts \cup {Absent}, disk' = [disk EXCEPT ![f] = c]
        PROVE  ToolsInv'
    <3>1. \A g \in Files : disk'[g] = IF g = f THEN c ELSE disk[g]
      BY <1>0, <2>2 DEF Workspaces
    <3>2. shelled' \subseteq shelled \cup {f} /\ (f \in shelled' \/ disk' = disk)
      BY <1>0, <1>5, <2>2, <3>1 DEF Workspaces
    <3> QED
      BY <1>2, <1>5, <2>2, <3>2
  <2> QED
    BY <1>5, <2>1, <2>2
<1>6. CASE UNCHANGED <<disk, shelled>>
  BY <1>0, <1>6 DEF ToolsInv, Kept, WritesKeepContract
<1> QED
  BY <1>1, <1>3, <1>4, <1>5, <1>6, ToolSteps

\* However file_writes and hard resets follow each other, and whatever commands do to other
\* files, an allowed file that no command has written since its last reset defines no
\* public name its stub does not have.  Of a file a command wrote nothing is said.
THEOREM WritesKeepContractHolds == BackendsSpec => []WritesKeepContract
<1>1. BackendsInit => ToolsInv
  BY ToolsStart DEF BackendsInit, Init
<1>2. ToolsInv /\ [BackendsNext]_allVars => ToolsInv'
  BY ToolsStep
<1>3. ToolsInv => WritesKeepContract
  BY DEF ToolsInv
<1> QED
  BY <1>1, <1>2, <1>3, PTL DEF BackendsSpec

-----------------------------------------------------------------------------
(* The verdict of the claude backend                                       *)

InScope == patch # {} /\ \A pair \in patch : pair[1] \in job.scope

\* The tests that passed on the patch as it is applied to the baseline.
PassedOnPatch == {t \in job.tests : <<t, Claude!Patched(baseline, patch)>> \in passed}

Untested == patch = {} /\ passed = {} /\ ~failed

\* What a diff subtask has behind it at each step: nothing is judged before the replay,
\* and the replay tests the patch on the baseline and nothing else.
Replayed ==
    /\ step \in {"start", "agent"} => Untested
    /\ step \in {"start", "agent", "diff", "worktree", "apply", "replay", "tests",
                 "failing"} => ~verdict
    /\ mode = "diff" =>
          /\ step # "tests"
          /\ step = "diff" => Untested /\ todo = job.tests
          /\ step = "worktree" => InScope /\ ~failed /\ todo = job.tests
          /\ step = "apply" => InScope /\ ~failed /\ todo = job.tests /\ worktree = baseline
          /\ step = "replay" =>
                /\ InScope /\ worktree = Claude!Patched(baseline, patch)
                /\ ~failed => job.tests \subseteq todo \cup PassedOnPatch
          /\ step \in {"remove", "done"} /\ verdict =>
                InScope /\ (job.sole => job.tests \subseteq PassedOnPatch)

\* What is taken from the workspace is in the scope of the subtask.
LEMMA DiffInScope ==
  ASSUME NEW tree, NEW base, NEW scope
  PROVE  \A pair \in Claude!DiffOf(tree, base, scope) : pair[1] \in scope
  BY DEF Claude!DiffOf

\* Nothing is judged when an assignment begins.
LEMMA ReplayedStart ==
  ASSUME Claude!ClaudeInit
  PROVE  Replayed
  BY DEF Claude!ClaudeInit, Replayed, Untested

\* Every step of the claude backend keeps the replay about the patch.
LEMMA ReplayedStep ==
  ASSUME Replayed, Claude!Next
  PROVE  Replayed'
<1>1. CASE Claude!NoCli \/ Claude!StartCli \/ Claude!CliExits \/ Claude!CliRaises
  <2>1. CASE Claude!NoCli
    BY <2>1 DEF Claude!NoCli, Claude!Answer, Replayed, Untested
  <2>2. CASE Claude!StartCli
    BY <2>2 DEF Claude!StartCli, Replayed, Untested
  <2>3. CASE Claude!CliExits
    BY <2>3 DEF Claude!CliExits, Replayed, Untested
  <2>4. CASE Claude!CliRaises
    BY <2>4 DEF Claude!CliRaises, Replayed
  <2> QED
    BY <1>1, <2>1, <2>2, <2>3, <2>4
<1>2. CASE Claude!FinalTest \/ Claude!GeneratePatch
  BY <1>2 DEF Claude!FinalTest, Claude!GeneratePatch, Claude!TestIn, Replayed
<1>3. CASE Claude!NothingToReplay
  BY <1>3 DEF Claude!NothingToReplay, Claude!Answer, Replayed
<1>4. CASE Claude!TakeDiff
  <2>1. /\ step = "diff" /\ step' = "worktree"
        /\ patch' = Claude!DiffOf(disk, baseline, job.scope) /\ patch' # {}
        /\ UNCHANGED <<mode, job, baseline, worktree, todo, passed, failed, verdict>>
    BY <1>4 DEF Claude!TakeDiff
  <2>2. InScope'
    BY <2>1, DiffInScope DEF InScope
  <2> QED
    BY <2>1, <2>2 DEF Replayed, Untested
<1>5. CASE Claude!AddWorktree
  BY <1>5 DEF Claude!AddWorktree, Replayed, InScope
<1>6. CASE Claude!ApplyPatch
  <2>1. /\ step = "apply" /\ step' = "replay" /\ worktree' = Claude!Patched(worktree, patch)
        /\ UNCHANGED <<mode, job, baseline, todo, passed, failed, patch, verdict>>
    BY <1>6 DEF Claude!ApplyPatch
  <2>2. /\ Claude!Patched(baseline, patch)' = Claude!Patched(baseline, patch)
        /\ InScope' = InScope
    BY <2>1 DEF Claude!Patched, InScope
  <2>3. mode = "diff" => InScope /\ worktree = baseline /\ todo = job.tests
    BY <2>1 DEF Replayed
  <2> QED
    BY <2>1, <2>2, <2>3 DEF Replayed
<1>7. CASE Claude!ReplayFails \/ Claude!ReplayRaises
  <2>1. CASE Claude!ReplayFails
    <3>1. step' = "remove" /\ verdict' = FALSE /\ mode' = mode
      BY <2>1 DEF Claude!ReplayFails, Claude!Answer
    <3> QED
      BY <3>1 DEF Replayed
  <2>2. CASE Claude!ReplayRaises
    <3>1. step = "replay" /\ step' = "failing" /\ verdict' = verdict /\ mode' = mode
      BY <2>2 DEF Claude!ReplayRaises
    <3> QED
      BY <3>1 DEF Replayed
  <2> QED
    BY <1>7, <2>1, <2>2
<1>8. CASE Claude!ReplayTest
  <2>1. PICK t \in todo : Claude!TestIn(worktree, t)
    BY <1>8 DEF Claude!ReplayTest
  <2>2. /\ step = "replay" /\ step' = "replay" /\ todo' = todo \ {t}
        /\ UNCHANGED <<mode, job, baseline, worktree, patch, verdict>>
    BY <1>8, <2>1 DEF Claude!ReplayTest, Claude!TestIn
  <2>3. Claude!Patched(baseline, patch)' = Claude!Patched(baseline, patch)
    BY <2>2 DEF Claude!Patched
  <2>4. CASE passed' = passed \cup {<<t, worktree>>} /\ failed' = failed
    BY <2>2, <2>3, <2>4 DEF Replayed, InScope, PassedOnPatch
  <2>5. CASE passed' = passed /\ failed' = TRUE
    BY <2>2, <2>3, <2>5 DEF Replayed, InScope, PassedOnPatch
  <2> QED
    BY <2>1, <2>4, <2>5 DEF Claude!TestIn
<1>9. CASE Claude!Judge
  <2>1. /\ step = "replay" /\ step' = "remove" /\ todo = {}
        /\ verdict' = (~failed \/ ~job.sole)
        /\ UNCHANGED <<mode, job, baseline, patch, passed, failed>>
    BY <1>9 DEF Claude!Judge, Claude!Answer
  <2>2. PassedOnPatch' = PassedOnPatch /\ InScope' = InScope
    BY <2>1 DEF PassedOnPatch, InScope, Claude!Patched
  <2>3. mode = "diff" => InScope /\ (~failed => job.tests \subseteq PassedOnPatch)
    BY <2>1 DEF Replayed
  <2> QED
    BY <2>1, <2>2, <2>3 DEF Replayed
<1>10. CASE Claude!RemoveWorktree
  BY <1>10 DEF Claude!RemoveWorktree, Replayed, InScope, PassedOnPatch, Claude!Patched
<1>11. CASE \/ Claude!CliEdits \/ Claude!CliQuotesSubject \/ Claude!CliLosesSubject
            \/ Claude!OrphanWrites
  <2>1. /\ UNCHANGED <<mode, job, step, worktree, todo, passed, failed, patch, verdict>>
        /\ baseline' = baseline \/ step = "agent"
    BY <1>11 DEF Claude!CliEdits, Claude!CliQuotesSubject, Claude!CliLosesSubject,
        Claude!OrphanWrites, Claude!claudeVars
  <2>2. CASE baseline' = baseline
    <3>1. PassedOnPatch' = PassedOnPatch /\ InScope' = InScope
          /\ Claude!Patched(baseline, patch)' = Claude!Patched(baseline, patch)
      BY <2>1, <2>2 DEF PassedOnPatch, InScope, Claude!Patched
    <3> QED
      BY <2>1, <2>2, <3>1 DEF Replayed, Untested
  <2>3. CASE step = "agent"
    BY <2>1, <2>3 DEF Replayed, Untested
  <2> QED
    BY <2>1, <2>2, <2>3
<1> QED
  BY <1>1, <1>2, <1>3, <1>4, <1>5, <1>6, <1>7, <1>8, <1>9, <1>10, <1>11
  DEF Claude!Next, Claude!Proceed

\* What the other backend does to the repository comes before anything is replayed.
LEMMA ReplayedKept ==
  ASSUME Replayed, mode' = mode, UNCHANGED claudeVars, baseline' = baseline \/ step = "start"
  PROVE  Replayed'
  BY DEF Replayed, Untested, InScope, PassedOnPatch, Claude!Patched, claudeVars

\* A passing verdict on a diff subtask is about what ships: a patch of its own files,
\* which, if it has no sibling and no git command moved the baseline, every one of its
\* tests passed with on the tree the miner was given, whatever a command left behind went
\* on writing meanwhile.  With the baseline moved they passed on the moved one.
THEOREM VerdictIsAboutPatchHolds == BackendsSpec => []VerdictIsAboutPatch
<1> DEFINE Idle == backend # "claude_code" => step = "start"
<1>1. BackendsInit => Replayed /\ Idle
  BY ReplayedStart DEF BackendsInit, Claude!ClaudeInit
<1>2. Replayed /\ Idle /\ [BackendsNext]_allVars => Replayed' /\ Idle'
  <2> SUFFICES ASSUME Replayed, Idle, [BackendsNext]_allVars
               PROVE  Replayed' /\ Idle'
    OBVIOUS
  <2>1. CASE ClaudeStep
    BY <2>1, ReplayedStep DEF ClaudeStep, runtimeVars
  <2>2. CASE ~ClaudeStep
    <3>1. UNCHANGED claudeVars /\ backend' = backend
      BY <2>2 DEF BackendsNext, SelectBackend, Refuse, SdkStep, SdkAnswer, ClaudeAnswer,
          BackendRaised, AnswerWith, allVars, runtimeVars
    <3>2. baseline' = baseline \/ backend = "sdk"
      BY <2>2 DEF BackendsNext, SelectBackend, Refuse, SdkStep, SdkAnswer, ClaudeAnswer,
          BackendRaised, AnswerWith, allVars, vars, toolVars
    <3>3. baseline' = baseline \/ step = "start"
      BY <3>2
    <3>4. step' = step
      BY <3>1 DEF claudeVars
    <3> QED
      BY <3>1, <3>3, <3>4, ToolSteps, ReplayedKept
  <2> QED
    BY <2>1, <2>2
<1>3. Replayed => VerdictIsAboutPatch
  <2> SUFFICES ASSUME Replayed, mode = "diff", step = "done", verdict
               PROVE  /\ InScope
                      /\ job.sole /\ baseline = Original => \A t \in job.tests :
                            <<t, Claude!Patched(Original, patch)>> \in passed
    BY DEF VerdictIsAboutPatch, Claude!VerdictIsAboutPatch, InScope
  <2> QED
    BY DEF Replayed, PassedOnPatch
<1> QED
  BY <1>1, <1>2, <1>3, PTL DEF BackendsSpec

-----------------------------------------------------------------------------
(* The agent loop                                                          *)

\* EqualRunEndingAt, as a fact about any sequence of test runs.
Repeated(h, i) ==
    /\ i >= MaxSame
    /\ Failing(h[i]) # {}
    /\ \A j \in i - MaxSame + 1 .. i : Failing(h[j]) = Failing(h[i])

\* same counts the runs at the end of the history that failed like the last one.
Streak(h, s, sig) ==
    /\ h \in Seq(Runs) /\ s \in Nat /\ s <= Len(h)
    /\ h = <<>> => sig = {}
    /\ h # <<>> =>
          /\ s >= 1 /\ sig = Failing(h[Len(h)])
          /\ sig = {} => s = 1
          /\ \A j \in Len(h) - s + 1 .. Len(h) : Failing(h[j]) = sig
          /\ sig # {} /\ s < Len(h) => Failing(h[Len(h) - s]) # sig

\* What a stop reason, or its absence, says about the runs.
Reasoned(h, why) ==
    /\ why = "none" =>
          /\ Len(h) < MaxIterations
          /\ \A i \in 1 .. Len(h) : ~h[i].exit0 /\ ~Repeated(h, i)
    /\ why = "repeated_error" => \E i \in 1 .. Len(h) : Repeated(h, i) /\ ~h[i].exit0

\* A response is begun within the limit, and each of its blocks is at most one run.
Paced ==
    /\ pc = "call" => stop = "none"
    /\ blocks \in Nat
    /\ pc = "blocks" => blocks >= 1
    /\ Len(history) + blocks < MaxIterations + MaxBlocks

LoopInv == Streak(history, same, lastSig) /\ Reasoned(history, stop) /\ Paced

\* A further run does not change which of the runs so far are repetitions.
LEMMA RepeatedAppend ==
  ASSUME NEW h \in Seq(Runs), NEW run \in Runs, NEW i \in 1 .. Len(h)
  PROVE  Repeated(Append(h, run), i) <=> Repeated(h, i)
<1>1. \A j \in 1 .. Len(h) : Append(h, run)[j] = h[j]
  BY AppendProperties
<1>2. i >= MaxSame => \A j \in i - MaxSame + 1 .. i : j \in 1 .. Len(h)
  BY AgentAssumption
<1> QED
  BY <1>1, <1>2 DEF Repeated

\* The count says whether the last run ends MaxSame equal ones.
LEMMA RepeatedLast ==
  ASSUME NEW h, NEW s, NEW sig, Streak(h, s, sig), h # <<>>
  PROVE  Repeated(h, Len(h)) <=> s >= MaxSame
<1> DEFINE n == Len(h)
<1>1. n \in Nat /\ n >= 1 /\ s \in 1 .. n /\ MaxSame \in Nat /\ MaxSame > 1
      /\ sig = Failing(h[n])
  BY AgentAssumption DEF Streak
<1>2. ASSUME s >= MaxSame PROVE Repeated(h, n)
  <2>1. sig # {} /\ n >= MaxSame
    BY <1>1, <1>2 DEF Streak
  <2>2. \A j \in n - MaxSame + 1 .. n : j \in n - s + 1 .. n
    BY <1>1, <1>2
  <2>3. \A j \in n - s + 1 .. n : Failing(h[j]) = sig
    BY <1>1 DEF Streak
  <2> QED
    BY <1>1, <2>1, <2>2, <2>3 DEF Repeated
<1>3. ASSUME s < MaxSame, Repeated(h, n) PROVE FALSE
  <2>1. sig # {} /\ n >= MaxSame /\ s < n
    BY <1>1, <1>3 DEF Repeated
  <2>2. Failing(h[n - s]) # sig
    BY <2>1 DEF Streak
  <2>3. n - s \in n - MaxSame + 1 .. n
    BY <1>1, <1>3
  <2> QED
    BY <1>1, <1>3, <2>2, <2>3 DEF Repeated
<1> QED
  BY <1>1, <1>2, <1>3

\* One more run, counted and judged as update_state and should_stop do.
LEMMA RunKeeps ==
  ASSUME LoopInv, NEW run \in Runs, TestRun(run)
  PROVE  LoopInv'
<1> USE AgentAssumption
<1>1. /\ history \in Seq(Runs) /\ same \in Nat /\ same <= Len(history) /\ Len(history) \in Nat
      /\ Streak(history, same, lastSig)
  BY DEF LoopInv, Streak
<1>2. /\ history' = Append(history, run) /\ history' \in Seq(Runs) /\ history' # <<>>
      /\ Len(history') = Len(history) + 1
      /\ history'[Len(history')] = run
      /\ \A j \in 1 .. Len(history) : history'[j] = history[j]
  BY <1>1, AppendProperties DEF TestRun
<1>3. /\ same' = (IF Failing(run) = lastSig /\ Failing(run) # {} THEN same + 1 ELSE 1)
      /\ lastSig' = Failing(run)
      /\ stop' = StopAfter(run, Len(history'), same')
  BY DEF TestRun, SameAfter
<1>4. Streak(history', same', lastSig')
  <2>1. CASE Failing(run) = lastSig /\ Failing(run) # {}
    <3>1. history # <<>> /\ same >= 1 /\ lastSig = Failing(history[Len(history)])
      BY <1>1, <2>1 DEF Streak
    <3>0. same' = same + 1 /\ same' \in Nat /\ same' <= Len(history') /\ same' >= 1
      BY <1>1, <1>2, <1>3, <2>1
    <3>2. \A j \in Len(history') - same' + 1 .. Len(history') : Failing(history'[j]) = lastSig'
      <4>1. \A j \in Len(history) - same + 1 .. Len(history) : Failing(history[j]) = lastSig
        BY <1>1, <3>1 DEF Streak
      <4>2. ASSUME NEW j \in Len(history') - same' + 1 .. Len(history'), j # Len(history')
            PROVE  j \in Len(history) - same + 1 .. Len(history) /\ j \in 1 .. Len(history)
        BY <1>1, <1>2, <1>3, <2>1, <4>2
      <4> QED
        BY <1>2, <1>3, <2>1, <4>1, <4>2
    <3>3. same' < Len(history') => Failing(history'[Len(history') - same']) # lastSig'
      <4> SUFFICES ASSUME same' < Len(history')
                   PROVE  Failing(history'[Len(history') - same']) # lastSig'
        OBVIOUS
      <4>1. /\ same < Len(history) /\ Len(history') - same' = Len(history) - same
            /\ Len(history) - same \in 1 .. Len(history)
        BY <1>1, <1>2, <1>3, <2>1, <3>1
      <4>2. Failing(history[Len(history) - same]) # lastSig
        BY <1>1, <2>1, <3>1, <4>1 DEF Streak
      <4> QED
        BY <1>2, <1>3, <2>1, <4>1, <4>2
    <3> QED
      BY <1>2, <1>3, <2>1, <3>0, <3>2, <3>3 DEF Streak
  <2>2. CASE ~(Failing(run) = lastSig /\ Failing(run) # {})
    <3>1. same' = 1
      BY <1>3, <2>2
    <3>2. \A j \in Len(history') - 1 + 1 .. Len(history') : j = Len(history')
      BY <1>1, <1>2
    <3>3. lastSig' # {} /\ 1 < Len(history') => Failing(history'[Len(history') - 1]) # lastSig'
      <4> SUFFICES ASSUME lastSig' # {}, 1 < Len(history')
                   PROVE  Failing(history'[Len(history') - 1]) # lastSig'
        OBVIOUS
      <4>1. history # <<>> /\ Len(history) \in 1 .. Len(history) /\ Len(history') - 1 = Len(history)
        BY <1>1, <1>2
      <4>2. lastSig = Failing(history[Len(history)])
        BY <1>1, <4>1 DEF Streak
      <4> QED
        BY <1>2, <1>3, <2>2, <4>1, <4>2
    <3>4. /\ same' >= 1 /\ same' \in Nat /\ same' <= Len(history')
          /\ lastSig' = Failing(history'[Len(history')])
      BY <1>1, <1>2, <1>3, <3>1
    <3>5. \A j \in Len(history') - same' + 1 .. Len(history') : Failing(history'[j]) = lastSig'
      BY <3>1, <3>2, <3>4
    <3> QED
      BY <1>2, <3>1, <3>3, <3>4, <3>5 DEF Streak
  <2> QED
    BY <2>1, <2>2
<1>5. Repeated(history', Len(history')) <=> same' >= MaxSame
  BY <1>2, <1>4, RepeatedLast
<1>6. \A i \in 1 .. Len(history) : Repeated(history', i) <=> Repeated(history, i)
  BY <1>1, <1>2, RepeatedAppend
<1>7. /\ same' \in Nat /\ run.exit0 \in BOOLEAN
      /\ \A i \in 1 .. Len(history') : i \in 1 .. Len(history) \/ i = Len(history')
      /\ \A i \in 1 .. Len(history) : i \in 1 .. Len(history')
      /\ Len(history') \in 1 .. Len(history')
  BY <1>1, <1>2, <1>3 DEF Runs
<1>8. Reasoned(history', stop')
  <2>1. stop' = "none" =>
          /\ Len(history') < MaxIterations /\ same' < MaxSame /\ ~run.exit0 /\ stop = "none"
    BY <1>1, <1>2, <1>3, <1>7 DEF StopAfter
  <2>2. stop' = "none" => \A i \in 1 .. Len(history') : ~history'[i].exit0 /\ ~Repeated(history', i)
    BY <1>2, <1>5, <1>6, <1>7, <2>1 DEF LoopInv, Reasoned
  <2>3. stop' = "repeated_error" =>
          \/ ~run.exit0 /\ same' >= MaxSame
          \/ stop = "repeated_error"
    BY <1>3, <1>7 DEF StopAfter
  <2>4. stop' = "repeated_error" => \E i \in 1 .. Len(history') : Repeated(history', i) /\ ~history'[i].exit0
    BY <1>2, <1>5, <1>6, <1>7, <2>3 DEF LoopInv, Reasoned
  <2> QED
    BY <2>1, <2>2, <2>4 DEF Reasoned
<1>9. Paced'
  <2>1. /\ pc = "blocks" /\ blocks' = blocks - 1
        /\ pc' = IF blocks > 1 THEN "blocks" ELSE IF stop' = "none" THEN "call" ELSE "done"
    BY DEF TestRun, Advance
  <2>2. blocks \in Nat /\ blocks >= 1 /\ Len(history) + blocks < MaxIterations + MaxBlocks
    BY <2>1 DEF LoopInv, Paced
  <2> QED
    BY <1>1, <1>2, <2>1, <2>2 DEF Paced
<1> QED
  BY <1>4, <1>8, <1>9 DEF LoopInv

\* Every step of the backends keeps what the loop knows of its runs.
LEMMA LoopStep ==
  ASSUME LoopInv, [BackendsNext]_allVars
  PROVE  LoopInv'
<1> USE AgentAssumption
<1>0. Len(history) \in Nat
  BY DEF LoopInv, Streak
<1>1. CASE SdkStep
  <2>1. CASE Respond
    <3>1. /\ pc = "call" /\ pc' = "blocks" /\ blocks' \in 1 .. MaxBlocks
          /\ UNCHANGED <<history, same, lastSig, stop>>
      BY <2>1 DEF Respond, retryVars
    <3>2. Len(history) < MaxIterations
      BY <3>1 DEF LoopInv, Paced, Reasoned
    <3> QED
      BY <1>0, <3>1, <3>2 DEF LoopInv, Paced
  <2>2. CASE Finish \/ ApiFails
    BY <2>2 DEF Finish, ApiFails, retryVars, LoopInv, Paced
  <2>3. CASE Write \/ Look
    <3>1. Advance(stop) /\ UNCHANGED <<history, same, lastSig, stop>>
      BY <2>3 DEF Write, Look, retryVars
    <3>2. blocks \in Nat /\ blocks >= 1
      BY <3>1 DEF Advance, LoopInv, Paced
    <3> QED
      BY <1>0, <3>1, <3>2 DEF Advance, LoopInv, Paced
  <2>4. CASE \E run \in Runs : TestRun(run)
    BY <2>4, RunKeeps
  <2> QED
    BY <1>1, <2>1, <2>2, <2>3, <2>4 DEF SdkStep, Next
<1>2. CASE ~SdkStep
  <2>1. UNCHANGED <<pc, blocks, history, same, lastSig, stop>>
    BY <1>2 DEF BackendsNext, SelectBackend, Refuse, ClaudeStep, SdkAnswer, ClaudeAnswer,
        BackendRaised, AnswerWith, allVars, vars, loopVars, retryVars
  <2> QED
    BY <2>1 DEF LoopInv, Paced
<1> QED
  BY <1>1, <1>2

\* The loop begins without runs.
LEMMA LoopStart ==
  ASSUME Init
  PROVE  LoopInv
<1>1. /\ pc = "call" /\ blocks = 0 /\ history = <<>> /\ same = 0 /\ lastSig = {} /\ stop = "none"
  BY DEF Init
<1>2. history \in Seq(Runs) /\ Len(history) = 0
  BY <1>1
<1> QED
  BY <1>1, <1>2, AgentAssumption DEF LoopInv, Streak, Reasoned, Paced

\* Over any number of calls and test runs the loop gives the reason it has: a repeated
\* error is MaxSame consecutive runs failing the same tests, and no call is made after
\* such a run, after a passing one or after MaxIterations of them.
THEOREM StopsForItsReasonHolds == BackendsSpec => []StopsForItsReason
<1>1. BackendsInit => LoopInv
  BY LoopStart DEF BackendsInit
<1>2. LoopInv /\ [BackendsNext]_allVars => LoopInv'
  BY LoopStep
<1>3. LoopInv => StopsForItsReason
  <2> SUFFICES ASSUME LoopInv PROVE StopsForItsReason
    OBVIOUS
  <2> USE AgentAssumption
  <2>1. Len(history) \in Nat /\ DOMAIN history = 1 .. Len(history) /\ blocks \in Nat
    BY DEF LoopInv, Streak, Paced
  <2>2. ASSUME NEW i \in 1 .. Len(history)
        PROVE  EqualRunEndingAt(i) <=> Repeated(history, i)
    <3>1. \A j \in 1 .. Len(history) : Signatures[j] = Failing(history[j])
      BY DEF Signatures
    <3>2. i >= MaxSame => \A j \in i - MaxSame + 1 .. i : j \in 1 .. Len(history)
      BY <2>1
    <3> QED
      BY <3>1, <3>2 DEF EqualRunEndingAt, Repeated
  <2>3. RepeatedErrorIsRepeated
    BY <2>1, <2>2 DEF LoopInv, Reasoned, Paced, RepeatedErrorIsRepeated
  <2>4. StopsInTime
    BY <2>1 DEF LoopInv, Reasoned, Paced, StopsInTime
  <2> QED
    BY <2>3, <2>4 DEF StopsForItsReason
<1> QED
  BY <1>1, <1>2, <1>3, PTL DEF BackendsSpec

-----------------------------------------------------------------------------
(* The hard reset                                                          *)

\* What the failing runs of a history said of one test.
NotedIn(h, t) ==
    {Noted(h[i], t) : i \in {j \in DOMAIN h : t \in NotedTests(h[j]) /\ ~h[j].exit0}}

\* What is remembered of a test was read from a failing run.
Remembered ==
    /\ history \in Seq(Runs)
    /\ \A t \in Tests : variants[t] \subseteq NotedIn(history, t)

\* A set of naturals has a least element.
LEMMA FewestOf ==
  ASSUME NEW T \in SUBSET Nat, T # {}
  PROVE  \E x \in T : \A y \in T : x <= y
<1> DEFINE R == OpToRel(<, Nat)
<1>1. IsWellFoundedOn(R, Nat)
  BY NatLessThanWellFounded
<1> HIDE DEF R
<1>2. PICK x \in T : \A y \in T : ~(<<y, x>> \in R)
  BY <1>1, WFMin
<1>3. \A y \in T : ~(y < x)
  BY <1>2 DEF R, OpToRel
<1> QED
  BY <1>3

\* Every run that failed a test has a last one.
LEMMA LastFails ==
  ASSUME NEW run \in Runs, Failing(run) # {}
  PROVE  Last(run) \in Failing(run)
<1> DEFINE S == Failing(run)
           above(x) == {y \in S : y > x}
           counts == {Cardinality(above(x)) : x \in S}
<1>1. S \subseteq Tests /\ S \subseteq Nat /\ IsFiniteSet(S)
  <2>1. S \subseteq Tests
    BY DEF Runs, Failing
  <2>2. Tests \subseteq Nat /\ IsFiniteSet(Tests)
    BY AgentAssumption
  <2> QED
    BY ONLY <2>1, <2>2, FS_Subset
<1>2. \A x \in S : above(x) \subseteq S /\ IsFiniteSet(above(x)) /\ Cardinality(above(x)) \in Nat
  BY <1>1, FS_Subset, FS_CardinalityType
<1>3. PICK x \in S : \A y \in S : Cardinality(above(x)) <= Cardinality(above(y))
  <2>1. counts \in SUBSET Nat /\ counts # {}
    BY <1>2
  <2>2. \E c \in counts : \A d \in counts : c <= d
    BY ONLY <2>1, FewestOf
  <2> QED
    BY <2>2
<1>4. ASSUME NEW y \in above(x)
      PROVE  FALSE
  <2>1. above(y) \in SUBSET above(x) /\ y \notin above(y) /\ y \in S
    BY <1>1, <1>3
  <2>2. Cardinality(above(y)) <= Cardinality(above(x)) /\ Cardinality(above(x)) # Cardinality(above(y))
    BY <1>2, <1>3, <2>1, FS_Subset
  <2> QED
    BY <1>2, <1>3, <2>1, <2>2
<1>5. \A y \in S : x >= y
  BY <1>1, <1>3, <1>4
<1>6. \E t \in S : \A u \in S : t >= u
  BY <1>5
<1> QED
  BY <1>6 DEF Last, Greatest

\* Only tests are noted.
LEMMA NotedAreTests ==
  ASSUME NEW run \in Runs
  PROVE  NotedTests(run) \subseteq Tests
<1>1. Failing(run) \subseteq Tests
  BY DEF Runs, Failing
<1>2. Named(run) \subseteq Failing(run)
  BY DEF Named
<1>3. Named(run) # {} => Last(run) \in Failing(run)
  BY <1>2, LastFails
<1> QED
  BY <1>1, <1>2, <1>3 DEF NotedTests

\* A finite history says finitely many things of a test.
LEMMA NotedFinite ==
  ASSUME NEW h \in Seq(Runs), NEW t
  PROVE  IsFiniteSet(NotedIn(h, t))
<1> DEFINE D == {j \in DOMAIN h : t \in NotedTests(h[j]) /\ ~h[j].exit0}
           f == [i \in D |-> Noted(h[i], t)]
<1>1. IsFiniteSet(D)
  <2>1. DOMAIN h = 1 .. Len(h) /\ Len(h) \in Int /\ 1 \in Int
    OBVIOUS
  <2>2. IsFiniteSet(DOMAIN h)
    BY <2>1, FS_Interval
  <2> QED
    BY <2>2, FS_Subset
<1>2. NotedIn(h, t) = {f[i] : i \in D}
  BY DEF NotedIn
<1>3. f \in Surjection(D, NotedIn(h, t))
  BY <1>2 DEF Surjection
<1> QED
  BY <1>1, <1>3, FS_Surjection DEF ExistsSurjection

\* What was noted of a test stays noted, and a failing run adds what it says.
LEMMA NotedAppend ==
  ASSUME NEW h \in Seq(Runs), NEW run \in Runs, NEW t
  PROVE  /\ NotedIn(h, t) \subseteq NotedIn(Append(h, run), t)
         /\ t \in NotedTests(run) /\ ~run.exit0 => Noted(run, t) \in NotedIn(Append(h, run), t)
<1>1. /\ Append(h, run) \in Seq(Runs) /\ Len(Append(h, run)) = Len(h) + 1
      /\ \A j \in 1 .. Len(h) : Append(h, run)[j] = h[j]
      /\ Append(h, run)[Len(h) + 1] = run
  BY AppendProperties
<1>2. /\ DOMAIN h = 1 .. Len(h) /\ Len(h) \in Nat
      /\ DOMAIN Append(h, run) = 1 .. Len(h) + 1
  BY <1>1
<1>3. DOMAIN h \subseteq DOMAIN Append(h, run) /\ Len(h) + 1 \in DOMAIN Append(h, run)
  BY <1>2
<1> QED
  BY <1>1, <1>2, <1>3 DEF NotedIn

\* Every step of the backends remembers of a test only what a failing run said.
LEMMA RememberedStep ==
  ASSUME Remembered, [BackendsNext]_allVars
  PROVE  Remembered'
<1>1. CASE SdkStep
  <2>1. CASE Respond \/ Finish \/ ApiFails \/ Write \/ Look
    BY <2>1 DEF Respond, Finish, ApiFails, Write, Look, retryVars, Remembered
  <2>2. ASSUME NEW run \in Runs, TestRun(run) PROVE Remembered'
    <3>1. history' = Append(history, run) /\ history \in Seq(Runs)
      BY <2>2 DEF TestRun, Remembered
    <3>2. ASSUME NEW t \in Tests
          PROVE  \/ variants'[t] \subseteq variants[t]
                 \/ ~run.exit0 /\ t \in NotedTests(run)
                        /\ variants'[t] = variants[t] \cup {Noted(run, t)}
      BY <2>2 DEF TestRun, Recorded, VariantsWith
    <3>3. \A t \in Tests : variants[t] \subseteq NotedIn(history, t)
      BY DEF Remembered
    <3>4. \A t \in Tests : variants'[t] \subseteq NotedIn(history', t)
      BY <3>1, <3>2, <3>3, NotedAppend
    <3>5. history' \in Seq(Runs)
      BY <3>1
    <3> QED
      BY <3>4, <3>5 DEF Remembered
  <2> QED
    BY <1>1, <2>1, <2>2 DEF SdkStep, Next
<1>2. CASE ~SdkStep
  <2>1. UNCHANGED <<history, variants>>
    BY <1>2 DEF BackendsNext, SelectBackend, Refuse, ClaudeStep, SdkAnswer, ClaudeAnswer,
        BackendRaised, AnswerWith, allVars, vars, loopVars, retryVars
  <2> QED
    BY <2>1 DEF Remembered
<1> QED
  BY <1>1, <1>2

\* Whatever the runs before it said, the agent's work is only thrown away at a failing run
\* by which MaxVariants different things were read about one and the same test.
THEOREM WipedOnlyIfThrashingHolds == BackendsSpec => WipedOnlyIfThrashing
<1>1. BackendsInit => Remembered
  BY DEF BackendsInit, Init, Remembered
<1>2. Remembered /\ [BackendsNext]_allVars => Remembered'
  BY RememberedStep
<1>3. ASSUME Remembered, [BackendsNext]_allVars, history' # history, disk' # disk
      PROVE  \E t \in Tests :
                Cardinality({Noted(history'[i], t) : i \in {j \in DOMAIN history' :
                    t \in NotedTests(history'[j]) /\ ~history'[j].exit0}}) >= MaxVariants
  <2>1. PICK run \in Runs : TestRun(run)
    BY <1>3 DEF BackendsNext, SelectBackend, Refuse, ClaudeStep, SdkAnswer, ClaudeAnswer,
        BackendRaised, AnswerWith, allVars, vars, loopVars, retryVars, SdkStep, Next,
        Respond, Finish, ApiFails, Write, Look
  <2>2. ~run.exit0 /\ Thrashes(run)
    BY <1>3, <2>1 DEF TestRun, toolVars
  <2>3. PICK t \in NotedTests(run) : Cardinality(variants[t] \cup {Noted(run, t)}) >= MaxVariants
    BY <2>2 DEF Thrashes, VariantsWith
  <2>4. t \in Tests
    BY <2>3, NotedAreTests
  <2>5. history' = Append(history, run) /\ history \in Seq(Runs) /\ history' \in Seq(Runs)
        /\ variants[t] \subseteq NotedIn(history, t)
    BY <1>3, <2>1, <2>4 DEF TestRun, Remembered
  <2>6. variants[t] \cup {Noted(run, t)} \in SUBSET NotedIn(history', t)
    BY <2>2, <2>3, <2>5, NotedAppend
  <2>7. IsFiniteSet(NotedIn(history', t))
    BY <2>5, NotedFinite
  <2>8. /\ Cardinality(NotedIn(history', t)) \in Nat
        /\ Cardinality(variants[t] \cup {Noted(run, t)}) \in Nat
        /\ Cardinality(variants[t] \cup {Noted(run, t)}) <= Cardinality(NotedIn(history', t))
    BY <2>6, <2>7, FS_Subset, FS_CardinalityType
  <2>9. MaxVariants \in Nat
    BY AgentAssumption
  <2>10. Cardinality(NotedIn(history', t)) >= MaxVariants
    BY <2>3, <2>8, <2>9
  <2> QED
    BY <2>4, <2>10 DEF NotedIn
<1>4. Remembered /\ [BackendsNext]_allVars =>
        [history' # history /\ disk' # disk =>
          \E t \in Tests :
              Cardinality({Noted(history'[i], t) : i \in {j \in DOMAIN history' :
                  t \in NotedTests(history'[j]) /\ ~history'[j].exit0}}) >= MaxVariants]_vars
  BY <1>3
<1> QED
  BY <1>1, <1>2, <1>4, PTL DEF BackendsSpec, WipedOnlyIfThrashing

================================================================================
