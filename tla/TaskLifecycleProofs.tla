------------------------- MODULE TaskLifecycleProofs -------------------------
(***************************************************************************)
(* Safety of TaskLifecycle for every set of tasks and hotkeys and every    *)
(* number of crashes and lost writes.                                      *)
(*                                                                         *)
(* The inductive invariant has three layers, each proved from the one      *)
(* before: Claims ties the inbox files to the loop's program counter,      *)
(* Ledger says what has been scored at each program point of a run, and    *)
(* Artifacts says what a run can find in its output directory.             *)
(***************************************************************************)
EXTENDS StatusApi, TLAPS

Scored == {"record", "patch", "patching", "result", "writing"}

\* A .working file has a loop behind it, or a recovery ahead of it.
Claims ==
    /\ OneState
    /\ \A t \in Tasks : inbox[t] \cap (Suffixes \ {"tmp"}) # {} => t \in written
    /\ pc \in Claimed => Has(cur, "working")
    /\ pc = "recover" => \A t \in orphans : Has(t, "working")
    /\ \A t \in Tasks : Has(t, "working") =>
          \/ pc = "down"
          \/ pc = "recover" /\ t \in orphans
          \/ pc \in Claimed /\ t = cur

Unscored(t, h) == book[<<t, h>>] = 0 /\ disk[<<t, h>>] = 0

\* A run that got past copytree is the task's first, so nothing is scored yet.
Ledger ==
    /\ repo \subseteq Named
    /\ CreditedOnce
    /\ \A t \in Named \ repo, h \in Hotkeys : Unscored(t, h)
    /\ pc \in {"decompose", "discover", "dispatch"} /\ cur \in Named =>
          cur \in repo /\ \A h \in Hotkeys : Unscored(cur, h)
    /\ pc \in Scored /\ cur \in Named =>
          cur \in repo /\ \A h \in toRecord : Unscored(cur, h)

\* A run finds no file of an earlier run in its directory.
Artifacts ==
    /\ \A t \in Tasks \ repo : result[t] = "absent" /\ patch[t] = "absent"
    /\ pc \in RunSteps \ {"copy", "writing"} /\ cur \in Named =>
          result[cur] = "absent"
    /\ pc = "finish" => result[cur] # "partial"
    /\ pc \in (RunSteps \cup {"finish"}) \ {"copy", "patching"} =>
          patch[cur] # "partial"
    /\ DoneArtifactsWhole

IInv == TypeOK /\ Claims /\ Ledger /\ Artifacts

-----------------------------------------------------------------------------

\* Every initial state satisfies the inductive invariant.
LEMMA InitIInv == Init => IInv
  BY TasksAssumption, BoundsAssumption, SMTT(30)
  DEF Init, IInv, TypeOK, Claims, Ledger, Artifacts, OneState, Has, Unscored,
      CreditedOnce, DoneArtifactsWhole, Steps, Claimed, RunSteps, Scored, Suffixes,
      FileStates, NoTask

\* Every step preserves the type invariant.
LEMMA TypeStep ==
  ASSUME TypeOK, [Next]_vars
  PROVE  TypeOK'
<1> USE TasksAssumption, BoundsAssumption
<1>1. CASE \E t \in Tasks : OpenTaskFile(t)
  BY <1>1 DEF TypeOK, Steps, Claimed, RunSteps, Suffixes, FileStates, NoTask,
      Has, outputs, scores, OpenTaskFile
<1>2. CASE \E t \in Tasks : PublishTaskFile(t)
  BY <1>2 DEF TypeOK, Steps, Claimed, RunSteps, Suffixes, FileStates, NoTask,
      Has, outputs, scores, PublishTaskFile, Rename
<1>3. CASE Start
  BY <1>3 DEF TypeOK, Steps, Claimed, RunSteps, Suffixes, FileStates, NoTask,
      Has, outputs, scores, Start
<1>4. CASE \E t \in Tasks : RecoverOne(t)
  BY <1>4 DEF TypeOK, Steps, Claimed, RunSteps, Suffixes, FileStates, NoTask,
      Has, outputs, scores, RecoverOne, Rename, IsFirst
<1>5. CASE RecoverEnd
  BY <1>5 DEF TypeOK, Steps, Claimed, RunSteps, Suffixes, FileStates, NoTask,
      Has, outputs, scores, RecoverEnd
<1>6. CASE \E t \in Tasks : Claim(t)
  BY <1>6 DEF TypeOK, Steps, Claimed, RunSteps, Suffixes, FileStates, NoTask,
      Has, outputs, scores, Claim, Rename, IsFirst
<1>7. CASE CopyTarget
  BY <1>7 DEF TypeOK, Steps, Claimed, RunSteps, Suffixes, FileStates, NoTask,
      Has, outputs, scores, CopyTarget, Goto
<1>8. CASE Decomposed \/ DecompositionFailed
  BY <1>8 DEF TypeOK, Steps, Claimed, RunSteps, Suffixes, FileStates, NoTask,
      Has, outputs, scores, Decomposed, DecompositionFailed, Goto
<1>9. CASE MinersFound \/ NoMiners
  BY <1>9 DEF TypeOK, Steps, Claimed, RunSteps, Suffixes, FileStates, NoTask,
      Has, outputs, scores, MinersFound, NoMiners, Goto
<1>10. CASE \E earners \in (SUBSET Hotkeys) \ {{}} : DispatchAndMerge(earners)
  BY <1>10 DEF TypeOK, Steps, Claimed, RunSteps, Suffixes, FileStates, NoTask,
      Has, outputs, scores, DispatchAndMerge, Goto
<1>11. CASE \E h \in Hotkeys : Record(h)
  <2>1. PICK h \in Hotkeys : Record(h)
    BY <1>11
  <2>2. pc = "record" /\ cur \in Tasks
    BY <2>1 DEF Record, TypeOK, Claimed, RunSteps
  <2>3. book' \in [Tasks \X Hotkeys -> Nat]
    <3>1. book[<<cur, h>>] + 1 \in Nat
      BY <2>2 DEF TypeOK
    <3>2. book' = [book EXCEPT ![<<cur, h>>] = book[<<cur, h>>] + 1]
      BY <2>1 DEF Record
    <3> QED
      BY <3>1, <3>2 DEF TypeOK
  <2>4. disk' \in [Tasks \X Hotkeys -> Nat] /\ lostWrites' \in 0..MaxLostWrites
    BY <2>1, <2>3 DEF Record, TypeOK
  <2>5. UNCHANGED <<inbox, written, cur, orphans, outputs, perHotkey, crashes>>
    BY <2>1 DEF Record, Goto
  <2>6. toRecord' \subseteq Hotkeys /\ pc' \in Steps /\ cur' \in Tasks
    BY <2>1, <2>2 DEF Record, Goto, TypeOK, Steps, Claimed, RunSteps
  <2> QED
    BY <2>3, <2>4, <2>5, <2>6 DEF TypeOK, outputs
<1>12. CASE RecordEnd
  BY <1>12 DEF TypeOK, Steps, Claimed, RunSteps, Suffixes, FileStates, NoTask,
      Has, outputs, scores, RecordEnd, Goto
<1>13. CASE OpenPatch
  BY <1>13 DEF TypeOK, Steps, Claimed, RunSteps, Suffixes, FileStates, NoTask,
      Has, outputs, scores, OpenPatch, InOwnDir, Goto
<1>14. CASE SkipPatch
  BY <1>14 DEF TypeOK, Steps, Claimed, RunSteps, Suffixes, FileStates, NoTask,
      Has, outputs, scores, SkipPatch, Goto
<1>15. CASE ClosePatch
  BY <1>15 DEF TypeOK, Steps, Claimed, RunSteps, Suffixes, FileStates, NoTask,
      Has, outputs, scores, ClosePatch, InOwnDir, Goto
<1>16. CASE OpenResult
  BY <1>16 DEF TypeOK, Steps, Claimed, RunSteps, Suffixes, FileStates, NoTask,
      Has, outputs, scores, OpenResult, InOwnDir, Goto
<1>17. CASE CloseResult
  BY <1>17 DEF TypeOK, Steps, Claimed, RunSteps, Suffixes, FileStates, NoTask,
      Has, outputs, scores, CloseResult, InOwnDir, Goto
<1>18. CASE Raise
  BY <1>18 DEF TypeOK, Steps, Claimed, RunSteps, Suffixes, FileStates, NoTask,
      Has, outputs, scores, Raise, Goto
<1>19. CASE Finish
  BY <1>19 DEF TypeOK, Steps, Claimed, RunSteps, Suffixes, FileStates, NoTask,
      Has, outputs, scores, Finish, Settle, Rename
<1>20. CASE Fail
  BY <1>20 DEF TypeOK, Steps, Claimed, RunSteps, Suffixes, FileStates, NoTask,
      Has, outputs, scores, Fail, Settle, Rename
<1>21. CASE Crash
  BY <1>21 DEF TypeOK, Steps, Claimed, RunSteps, Suffixes, FileStates, NoTask,
      Has, outputs, scores, Crash
<1>22. CASE UNCHANGED vars
  BY <1>22 DEF TypeOK, Steps, Claimed, RunSteps, Suffixes, FileStates, NoTask,
      Has, outputs, scores, vars
<1> QED
  BY <1>1, <1>2, <1>3, <1>4, <1>5, <1>6, <1>7, <1>8, <1>9, <1>10, <1>11,
      <1>12, <1>13, <1>14, <1>15, <1>16, <1>17, <1>18, <1>19, <1>20, <1>21,
      <1>22 DEF Next, Submission, Validator, RunOneTask

\* Every step keeps each .working file claimed or recoverable.
LEMMA ClaimsStep ==
  ASSUME TypeOK, Claims, [Next]_vars
  PROVE  Claims'
<1>1. CASE \E t \in Tasks : OpenTaskFile(t)
  BY <1>1 DEF TypeOK, Steps, Claimed, RunSteps, Suffixes, FileStates, NoTask,
      Claims, OneState, Has, outputs, scores, OpenTaskFile
<1>2. CASE \E t \in Tasks : PublishTaskFile(t)
  BY <1>2 DEF TypeOK, Steps, Claimed, RunSteps, Suffixes, FileStates, NoTask,
      Claims, OneState, Has, outputs, scores, PublishTaskFile, Rename
<1>3. CASE Start
  BY <1>3 DEF TypeOK, Steps, Claimed, RunSteps, Suffixes, FileStates, NoTask,
      Claims, OneState, Has, outputs, scores, Start
<1>4. CASE \E t \in Tasks : RecoverOne(t)
  BY <1>4 DEF TypeOK, Steps, Claimed, RunSteps, Suffixes, FileStates, NoTask,
      Claims, OneState, Has, outputs, scores, RecoverOne, Rename, IsFirst
<1>5. CASE RecoverEnd
  BY <1>5 DEF TypeOK, Steps, Claimed, RunSteps, Suffixes, FileStates, NoTask,
      Claims, OneState, Has, outputs, scores, RecoverEnd
<1>6. CASE \E t \in Tasks : Claim(t)
  BY <1>6 DEF TypeOK, Steps, Claimed, RunSteps, Suffixes, FileStates, NoTask,
      Claims, OneState, Has, outputs, scores, Claim, Rename, IsFirst
<1>7. CASE CopyTarget
  BY <1>7 DEF TypeOK, Steps, Claimed, RunSteps, Suffixes, FileStates, NoTask,
      Claims, OneState, Has, outputs, scores, CopyTarget, Goto
<1>8. CASE Decomposed \/ DecompositionFailed
  BY <1>8 DEF TypeOK, Steps, Claimed, RunSteps, Suffixes, FileStates, NoTask,
      Claims, OneState, Has, outputs, scores, Decomposed, DecompositionFailed,
      Goto
<1>9. CASE MinersFound \/ NoMiners
  BY <1>9 DEF TypeOK, Steps, Claimed, RunSteps, Suffixes, FileStates, NoTask,
      Claims, OneState, Has, outputs, scores, MinersFound, NoMiners, Goto
<1>10. CASE \E earners \in (SUBSET Hotkeys) \ {{}} : DispatchAndMerge(earners)
  BY <1>10 DEF TypeOK, Steps, Claimed, RunSteps, Suffixes, FileStates, NoTask,
      Claims, OneState, Has, outputs, scores, DispatchAndMerge, Goto
<1>11. CASE \E h \in Hotkeys : Record(h)
  BY <1>11 DEF TypeOK, Steps, Claimed, RunSteps, Suffixes, FileStates, NoTask,
      Claims, OneState, Has, outputs, scores, Record, Goto
<1>12. CASE RecordEnd
  BY <1>12 DEF TypeOK, Steps, Claimed, RunSteps, Suffixes, FileStates, NoTask,
      Claims, OneState, Has, outputs, scores, RecordEnd, Goto
<1>13. CASE OpenPatch
  BY <1>13 DEF TypeOK, Steps, Claimed, RunSteps, Suffixes, FileStates, NoTask,
      Claims, OneState, Has, outputs, scores, OpenPatch, InOwnDir, Goto
<1>14. CASE SkipPatch
  BY <1>14 DEF TypeOK, Steps, Claimed, RunSteps, Suffixes, FileStates, NoTask,
      Claims, OneState, Has, outputs, scores, SkipPatch, Goto
<1>15. CASE ClosePatch
  BY <1>15 DEF TypeOK, Steps, Claimed, RunSteps, Suffixes, FileStates, NoTask,
      Claims, OneState, Has, outputs, scores, ClosePatch, InOwnDir, Goto
<1>16. CASE OpenResult
  BY <1>16 DEF TypeOK, Steps, Claimed, RunSteps, Suffixes, FileStates, NoTask,
      Claims, OneState, Has, outputs, scores, OpenResult, InOwnDir, Goto
<1>17. CASE CloseResult
  BY <1>17 DEF TypeOK, Steps, Claimed, RunSteps, Suffixes, FileStates, NoTask,
      Claims, OneState, Has, outputs, scores, CloseResult, InOwnDir, Goto
<1>18. CASE Raise
  BY <1>18 DEF TypeOK, Steps, Claimed, RunSteps, Suffixes, FileStates, NoTask,
      Claims, OneState, Has, outputs, scores, Raise, Goto
<1>19. CASE Finish
  BY <1>19 DEF TypeOK, Steps, Claimed, RunSteps, Suffixes, FileStates, NoTask,
      Claims, OneState, Has, outputs, scores, Finish, Settle, Rename
<1>20. CASE Fail
  BY <1>20 DEF TypeOK, Steps, Claimed, RunSteps, Suffixes, FileStates, NoTask,
      Claims, OneState, Has, outputs, scores, Fail, Settle, Rename
<1>21. CASE Crash
  BY <1>21 DEF TypeOK, Steps, Claimed, RunSteps, Suffixes, FileStates, NoTask,
      Claims, OneState, Has, outputs, scores, Crash
<1>22. CASE UNCHANGED vars
  BY <1>22 DEF TypeOK, Steps, Claimed, RunSteps, Suffixes, FileStates, NoTask,
      Claims, OneState, Has, outputs, scores, vars
<1> QED
  BY <1>1, <1>2, <1>3, <1>4, <1>5, <1>6, <1>7, <1>8, <1>9, <1>10, <1>11,
      <1>12, <1>13, <1>14, <1>15, <1>16, <1>17, <1>18, <1>19, <1>20, <1>21,
      <1>22 DEF Next, Submission, Validator, RunOneTask

\* Every step keeps the score of a task with an id at most one per hotkey.
LEMMA LedgerStep ==
  ASSUME TypeOK, Ledger, [Next]_vars
  PROVE  Ledger'
<1>1. CASE \E t \in Tasks : OpenTaskFile(t)
  BY <1>1 DEF TypeOK, Steps, Claimed, RunSteps, Suffixes, FileStates, NoTask,
      Ledger, CreditedOnce, Unscored, Scored, Has, outputs, scores,
      OpenTaskFile
<1>2. CASE \E t \in Tasks : PublishTaskFile(t)
  BY <1>2 DEF TypeOK, Steps, Claimed, RunSteps, Suffixes, FileStates, NoTask,
      Ledger, CreditedOnce, Unscored, Scored, Has, outputs, scores,
      PublishTaskFile, Rename
<1>3. CASE Start
  BY <1>3 DEF TypeOK, Steps, Claimed, RunSteps, Suffixes, FileStates, NoTask,
      Ledger, CreditedOnce, Unscored, Scored, Has, outputs, scores, Start
<1>4. CASE \E t \in Tasks : RecoverOne(t)
  BY <1>4 DEF TypeOK, Steps, Claimed, RunSteps, Suffixes, FileStates, NoTask,
      Ledger, CreditedOnce, Unscored, Scored, Has, outputs, scores,
      RecoverOne, Rename, IsFirst
<1>5. CASE RecoverEnd
  BY <1>5 DEF TypeOK, Steps, Claimed, RunSteps, Suffixes, FileStates, NoTask,
      Ledger, CreditedOnce, Unscored, Scored, Has, outputs, scores, RecoverEnd
<1>6. CASE \E t \in Tasks : Claim(t)
  BY <1>6 DEF TypeOK, Steps, Claimed, RunSteps, Suffixes, FileStates, NoTask,
      Ledger, CreditedOnce, Unscored, Scored, Has, outputs, scores, Claim,
      Rename, IsFirst
<1>7. CASE CopyTarget
  BY <1>7 DEF TypeOK, Steps, Claimed, RunSteps, Suffixes, FileStates, NoTask,
      Ledger, CreditedOnce, Unscored, Scored, Has, outputs, scores,
      CopyTarget, Goto
<1>8. CASE Decomposed \/ DecompositionFailed
  BY <1>8 DEF TypeOK, Steps, Claimed, RunSteps, Suffixes, FileStates, NoTask,
      Ledger, CreditedOnce, Unscored, Scored, Has, outputs, scores,
      Decomposed, DecompositionFailed, Goto
<1>9. CASE MinersFound \/ NoMiners
  BY <1>9 DEF TypeOK, Steps, Claimed, RunSteps, Suffixes, FileStates, NoTask,
      Ledger, CreditedOnce, Unscored, Scored, Has, outputs, scores,
      MinersFound, NoMiners, Goto
<1>10. CASE \E earners \in (SUBSET Hotkeys) \ {{}} : DispatchAndMerge(earners)
  BY <1>10 DEF TypeOK, Steps, Claimed, RunSteps, Suffixes, FileStates, NoTask,
      Ledger, CreditedOnce, Unscored, Scored, Has, outputs, scores,
      DispatchAndMerge, Goto
<1>11. CASE \E h \in Hotkeys : Record(h)
  <2>1. PICK h \in Hotkeys : Record(h)
    BY <1>11
  <2>2. cur \in Tasks /\ h \in toRecord /\ pc' = pc /\ cur' = cur /\ repo' = repo
        /\ toRecord' = toRecord \ {h} /\ pc = "record"
    BY <2>1 DEF Record, Goto, outputs, TypeOK, Claimed, RunSteps
  <2>3. \A t \in Tasks, k \in Hotkeys :
          book'[<<t, k>>] = IF t = cur /\ k = h THEN book[<<t, k>>] + 1
                                                ELSE book[<<t, k>>]
    BY <2>1, <2>2 DEF Record, TypeOK
  <2>4. disk' = book' \/ disk' = disk
    BY <2>1 DEF Record
  <2>5. cur \in Named => Unscored(cur, h) /\ cur \in repo
    BY <2>2 DEF Ledger, Scored
  <2>6. CreditedOnce'
    <3> SUFFICES ASSUME NEW t \in Named, NEW k \in Hotkeys
                 PROVE  book'[<<t, k>>] <= 1 /\ disk'[<<t, k>>] <= 1
      BY DEF CreditedOnce
    <3>1. book[<<t, k>>] \in Nat /\ book[<<t, k>>] <= 1 /\ disk[<<t, k>>] <= 1
      BY TasksAssumption DEF Ledger, CreditedOnce, TypeOK
    <3>2. book'[<<t, k>>] <= 1
      <4>1. CASE t = cur /\ k = h
        <5>1. book[<<t, k>>] = 0
          BY <2>5, <4>1 DEF Unscored
        <5> QED
          BY <2>3, <4>1, <5>1, TasksAssumption
      <4>2. CASE ~(t = cur /\ k = h)
        BY <2>3, <3>1, <4>2, TasksAssumption
      <4> QED
        BY <4>1, <4>2
    <3> QED
      BY <2>4, <3>1, <3>2
  <2>7. ASSUME NEW t \in Tasks, NEW k \in Hotkeys, t # cur \/ k # h, Unscored(t, k)
        PROVE  Unscored(t, k)'
    BY <2>3, <2>4, <2>7 DEF Unscored
  <2>8. \A t \in Named \ repo, k \in Hotkeys : Unscored(t, k)'
    BY <2>2, <2>5, <2>7, TasksAssumption DEF Ledger
  <2>9. cur \in Named => \A k \in toRecord \ {h} : Unscored(cur, k)'
    BY <2>2, <2>7 DEF Ledger, Scored, TypeOK
  <2> QED
    BY <2>2, <2>5, <2>6, <2>8, <2>9 DEF Ledger, Scored
<1>12. CASE RecordEnd
  BY <1>12 DEF TypeOK, Steps, Claimed, RunSteps, Suffixes, FileStates, NoTask,
      Ledger, CreditedOnce, Unscored, Scored, Has, outputs, scores, RecordEnd,
      Goto
<1>13. CASE OpenPatch
  BY <1>13 DEF TypeOK, Steps, Claimed, RunSteps, Suffixes, FileStates, NoTask,
      Ledger, CreditedOnce, Unscored, Scored, Has, outputs, scores, OpenPatch,
      InOwnDir, Goto
<1>14. CASE SkipPatch
  BY <1>14 DEF TypeOK, Steps, Claimed, RunSteps, Suffixes, FileStates, NoTask,
      Ledger, CreditedOnce, Unscored, Scored, Has, outputs, scores, SkipPatch,
      Goto
<1>15. CASE ClosePatch
  BY <1>15 DEF TypeOK, Steps, Claimed, RunSteps, Suffixes, FileStates, NoTask,
      Ledger, CreditedOnce, Unscored, Scored, Has, outputs, scores,
      ClosePatch, InOwnDir, Goto
<1>16. CASE OpenResult
  BY <1>16 DEF TypeOK, Steps, Claimed, RunSteps, Suffixes, FileStates, NoTask,
      Ledger, CreditedOnce, Unscored, Scored, Has, outputs, scores,
      OpenResult, InOwnDir, Goto
<1>17. CASE CloseResult
  BY <1>17 DEF TypeOK, Steps, Claimed, RunSteps, Suffixes, FileStates, NoTask,
      Ledger, CreditedOnce, Unscored, Scored, Has, outputs, scores,
      CloseResult, InOwnDir, Goto
<1>18. CASE Raise
  BY <1>18 DEF TypeOK, Steps, Claimed, RunSteps, Suffixes, FileStates, NoTask,
      Ledger, CreditedOnce, Unscored, Scored, Has, outputs, scores, Raise,
      Goto
<1>19. CASE Finish
  BY <1>19 DEF TypeOK, Steps, Claimed, RunSteps, Suffixes, FileStates, NoTask,
      Ledger, CreditedOnce, Unscored, Scored, Has, outputs, scores, Finish,
      Settle, Rename
<1>20. CASE Fail
  BY <1>20 DEF TypeOK, Steps, Claimed, RunSteps, Suffixes, FileStates, NoTask,
      Ledger, CreditedOnce, Unscored, Scored, Has, outputs, scores, Fail,
      Settle, Rename
<1>21. CASE Crash
  BY <1>21 DEF TypeOK, Steps, Claimed, RunSteps, Suffixes, FileStates, NoTask,
      Ledger, CreditedOnce, Unscored, Scored, Has, outputs, scores, Crash
<1>22. CASE UNCHANGED vars
  BY <1>22 DEF TypeOK, Steps, Claimed, RunSteps, Suffixes, FileStates, NoTask,
      Ledger, CreditedOnce, Unscored, Scored, Has, outputs, scores, vars
<1> QED
  BY <1>1, <1>2, <1>3, <1>4, <1>5, <1>6, <1>7, <1>8, <1>9, <1>10, <1>11,
      <1>12, <1>13, <1>14, <1>15, <1>16, <1>17, <1>18, <1>19, <1>20, <1>21,
      <1>22 DEF Next, Submission, Validator, RunOneTask

\* Every step keeps truncated results out of done tasks.
LEMMA ArtifactsStep ==
  ASSUME TypeOK, Claims, Ledger, Artifacts, [Next]_vars
  PROVE  Artifacts'
<1>1. CASE \E t \in Tasks : OpenTaskFile(t)
  BY <1>1 DEF TypeOK, Steps, Claimed, RunSteps, Suffixes, FileStates, NoTask,
      Claims, OneState, Ledger, Artifacts, DoneArtifactsWhole, Has, outputs,
      scores, OpenTaskFile
<1>2. CASE \E t \in Tasks : PublishTaskFile(t)
  BY <1>2 DEF TypeOK, Steps, Claimed, RunSteps, Suffixes, FileStates, NoTask,
      Claims, OneState, Ledger, Artifacts, DoneArtifactsWhole, Has, outputs,
      scores, PublishTaskFile, Rename
<1>3. CASE Start
  BY <1>3 DEF TypeOK, Steps, Claimed, RunSteps, Suffixes, FileStates, NoTask,
      Claims, OneState, Ledger, Artifacts, DoneArtifactsWhole, Has, outputs,
      scores, Start
<1>4. CASE \E t \in Tasks : RecoverOne(t)
  BY <1>4 DEF TypeOK, Steps, Claimed, RunSteps, Suffixes, FileStates, NoTask,
      Claims, OneState, Ledger, Artifacts, DoneArtifactsWhole, Has, outputs,
      scores, RecoverOne, Rename, IsFirst
<1>5. CASE RecoverEnd
  BY <1>5 DEF TypeOK, Steps, Claimed, RunSteps, Suffixes, FileStates, NoTask,
      Claims, OneState, Ledger, Artifacts, DoneArtifactsWhole, Has, outputs,
      scores, RecoverEnd
<1>6. CASE \E t \in Tasks : Claim(t)
  BY <1>6 DEF TypeOK, Steps, Claimed, RunSteps, Suffixes, FileStates, NoTask,
      Claims, OneState, Ledger, Artifacts, DoneArtifactsWhole, Has, outputs,
      scores, Claim, Rename, IsFirst
<1>7. CASE CopyTarget
  BY <1>7 DEF TypeOK, Steps, Claimed, RunSteps, Suffixes, FileStates, NoTask,
      Claims, OneState, Ledger, Artifacts, DoneArtifactsWhole, Has, outputs,
      scores, CopyTarget, Goto
<1>8. CASE Decomposed \/ DecompositionFailed
  BY <1>8 DEF TypeOK, Steps, Claimed, RunSteps, Suffixes, FileStates, NoTask,
      Claims, OneState, Ledger, Artifacts, DoneArtifactsWhole, Has, outputs,
      scores, Decomposed, DecompositionFailed, Goto
<1>9. CASE MinersFound \/ NoMiners
  BY <1>9 DEF TypeOK, Steps, Claimed, RunSteps, Suffixes, FileStates, NoTask,
      Claims, OneState, Ledger, Artifacts, DoneArtifactsWhole, Has, outputs,
      scores, MinersFound, NoMiners, Goto
<1>10. CASE \E earners \in (SUBSET Hotkeys) \ {{}} : DispatchAndMerge(earners)
  BY <1>10 DEF TypeOK, Steps, Claimed, RunSteps, Suffixes, FileStates, NoTask,
      Claims, OneState, Ledger, Artifacts, DoneArtifactsWhole, Has, outputs,
      scores, DispatchAndMerge, Goto
<1>11. CASE \E h \in Hotkeys : Record(h)
  BY <1>11 DEF TypeOK, Steps, Claimed, RunSteps, Suffixes, FileStates, NoTask,
      Claims, OneState, Ledger, Artifacts, DoneArtifactsWhole, Has, outputs,
      scores, Record, Goto
<1>12. CASE RecordEnd
  BY <1>12 DEF TypeOK, Steps, Claimed, RunSteps, Suffixes, FileStates, NoTask,
      Claims, OneState, Ledger, Artifacts, DoneArtifactsWhole, Has, outputs,
      scores, RecordEnd, Goto
<1>13. CASE OpenPatch
  <2>1. cur \in Tasks /\ Has(cur, "working") /\ (cur \in Named => cur \in repo)
    BY <1>13 DEF OpenPatch, TypeOK, Claims, Ledger, Scored, Claimed, RunSteps
  <2>2. UNCHANGED <<inbox, repo, cur, result>> /\ pc = "patch" /\ pc' = "patching"
    BY <1>13 DEF OpenPatch, Goto
  <2>3. ~Has(cur, "done")
    BY <2>1 DEF Claims, OneState, Has
  <2>4. \A t \in Tasks : patch'[t] = IF t = cur /\ cur \in Named
                                    THEN "partial" ELSE patch[t]
    BY <1>13 DEF OpenPatch, InOwnDir, TypeOK
  <2>5. cur \notin Named => result[cur] = "absent" /\ patch[cur] = "absent"
    BY <2>1 DEF Ledger, Artifacts
  <2>6. \A t \in Tasks \ repo : t # cur \/ cur \notin Named
    BY <2>1
  <2> QED
    BY <2>1, <2>2, <2>3, <2>4, <2>5, <2>6
    DEF Artifacts, DoneArtifactsWhole, Has, RunSteps
<1>14. CASE SkipPatch
  BY <1>14 DEF TypeOK, Steps, Claimed, RunSteps, Suffixes, FileStates, NoTask,
      Claims, OneState, Ledger, Artifacts, DoneArtifactsWhole, Has, outputs,
      scores, SkipPatch, Goto
<1>15. CASE ClosePatch
  <2>1. cur \in Tasks /\ Has(cur, "working") /\ (cur \in Named => cur \in repo)
    BY <1>15 DEF ClosePatch, TypeOK, Claims, Ledger, Scored, Claimed, RunSteps
  <2>2. UNCHANGED <<inbox, repo, cur, result>> /\ pc = "patching" /\ pc' = "result"
    BY <1>15 DEF ClosePatch, Goto
  <2>3. ~Has(cur, "done")
    BY <2>1 DEF Claims, OneState, Has
  <2>4. \A t \in Tasks : patch'[t] = IF t = cur /\ cur \in Named
                                    THEN "whole" ELSE patch[t]
    BY <1>15 DEF ClosePatch, InOwnDir, TypeOK
  <2>5. cur \notin Named => result[cur] = "absent" /\ patch[cur] = "absent"
    BY <2>1 DEF Ledger, Artifacts
  <2>6. \A t \in Tasks \ repo : t # cur \/ cur \notin Named
    BY <2>1
  <2> QED
    BY <2>1, <2>2, <2>3, <2>4, <2>5, <2>6
    DEF Artifacts, DoneArtifactsWhole, Has, RunSteps
<1>16. CASE OpenResult
  <2>1. cur \in Tasks /\ Has(cur, "working") /\ (cur \in Named => cur \in repo)
    BY <1>16 DEF OpenResult, TypeOK, Claims, Ledger, Scored, Claimed, RunSteps
  <2>2. UNCHANGED <<inbox, repo, cur, patch>> /\ pc = "result" /\ pc' = "writing"
    BY <1>16 DEF OpenResult, Goto
  <2>3. ~Has(cur, "done")
    BY <2>1 DEF Claims, OneState, Has
  <2>4. \A t \in Tasks : result'[t] = IF t = cur /\ cur \in Named
                                    THEN "partial" ELSE result[t]
    BY <1>16 DEF OpenResult, InOwnDir, TypeOK
  <2>5. cur \notin Named => result[cur] = "absent" /\ patch[cur] = "absent"
    BY <2>1 DEF Ledger, Artifacts
  <2>6. \A t \in Tasks \ repo : t # cur \/ cur \notin Named
    BY <2>1
  <2> QED
    BY <2>1, <2>2, <2>3, <2>4, <2>5, <2>6
    DEF Artifacts, DoneArtifactsWhole, Has, RunSteps
<1>17. CASE CloseResult
  <2>1. cur \in Tasks /\ Has(cur, "working") /\ (cur \in Named => cur \in repo)
    BY <1>17 DEF CloseResult, TypeOK, Claims, Ledger, Scored, Claimed, RunSteps
  <2>2. UNCHANGED <<inbox, repo, cur, patch>> /\ pc = "writing" /\ pc' = "finish"
    BY <1>17 DEF CloseResult, Goto
  <2>3. ~Has(cur, "done")
    BY <2>1 DEF Claims, OneState, Has
  <2>4. \A t \in Tasks : result'[t] = IF t = cur /\ cur \in Named
                                    THEN "whole" ELSE result[t]
    BY <1>17 DEF CloseResult, InOwnDir, TypeOK
  <2>5. cur \notin Named => result[cur] = "absent" /\ patch[cur] = "absent"
    BY <2>1 DEF Ledger, Artifacts
  <2>6. \A t \in Tasks \ repo : t # cur \/ cur \notin Named
    BY <2>1
  <2> QED
    BY <2>1, <2>2, <2>3, <2>4, <2>5, <2>6
    DEF Artifacts, DoneArtifactsWhole, Has, RunSteps
<1>18. CASE Raise
  BY <1>18 DEF TypeOK, Steps, Claimed, RunSteps, Suffixes, FileStates, NoTask,
      Claims, OneState, Ledger, Artifacts, DoneArtifactsWhole, Has, outputs,
      scores, Raise, Goto
<1>19. CASE Finish
  BY <1>19 DEF TypeOK, Steps, Claimed, RunSteps, Suffixes, FileStates, NoTask,
      Claims, OneState, Ledger, Artifacts, DoneArtifactsWhole, Has, outputs,
      scores, Finish, Settle, Rename
<1>20. CASE Fail
  BY <1>20 DEF TypeOK, Steps, Claimed, RunSteps, Suffixes, FileStates, NoTask,
      Claims, OneState, Ledger, Artifacts, DoneArtifactsWhole, Has, outputs,
      scores, Fail, Settle, Rename
<1>21. CASE Crash
  BY <1>21 DEF TypeOK, Steps, Claimed, RunSteps, Suffixes, FileStates, NoTask,
      Claims, OneState, Ledger, Artifacts, DoneArtifactsWhole, Has, outputs,
      scores, Crash
<1>22. CASE UNCHANGED vars
  BY <1>22 DEF TypeOK, Steps, Claimed, RunSteps, Suffixes, FileStates, NoTask,
      Claims, OneState, Ledger, Artifacts, DoneArtifactsWhole, Has, outputs,
      scores, vars
<1> QED
  BY <1>1, <1>2, <1>3, <1>4, <1>5, <1>6, <1>7, <1>8, <1>9, <1>10, <1>11,
      <1>12, <1>13, <1>14, <1>15, <1>16, <1>17, <1>18, <1>19, <1>20, <1>21,
      <1>22 DEF Next, Submission, Validator, RunOneTask

-----------------------------------------------------------------------------

\* The inductive invariant holds in every reachable state.
THEOREM Safety == Spec => []IInv
<1>1. IInv /\ [Next]_vars => IInv'
  BY TypeStep, ClaimsStep, LedgerStep, ArtifactsStep DEF IInv
<1> QED
  BY InitIInv, <1>1, PTL DEF Spec

\* Every variable keeps its type: the files, the program counter and the
\* ledgers of inbox.py and neurons/validator.py.
THEOREM TypeCorrect == Spec => []TypeOK
<1>1. IInv => TypeOK
  BY DEF IInv
<1> QED
  BY Safety, <1>1, PTL

\* A task never has files under two suffixes, once recovery is over a .working
\* file is the one the loop is running, and the loop never reads a document that
\* is still being written (inbox.py, ValidatorNeuron.loop).
THEOREM InboxConsistentHolds == Spec => []InboxConsistent
<1>1. IInv => OneState
  BY DEF IInv, Claims
<1>2. IInv => WorkingIsClaimed
  BY DEF IInv, Claims, WorkingIsClaimed, TypeOK, Claimed, RunSteps
<1>3. IInv => ClaimedIsWritten
  BY DEF IInv, Claims, ClaimedIsWritten, TypeOK, Has, Suffixes
<1>4. IInv => InboxConsistent
  BY <1>1, <1>2, <1>3 DEF InboxConsistent
<1> QED
  BY Safety, <1>4, PTL

\* A task with an id is scored at most once per hotkey, however many times the
\* validator crashes and requeues it.
THEOREM CreditedOnceHolds == Spec => []CreditedOnce
<1>1. IInv => CreditedOnce
  BY DEF IInv, Ledger
<1> QED
  BY Safety, <1>1, PTL

\* A done task never shows a result or a patch that a crash cut short.
THEOREM DoneArtifactsWholeHolds == Spec => []DoneArtifactsWhole
<1>1. IInv => DoneArtifactsWhole
  BY DEF IInv, Artifacts
<1> QED
  BY Safety, <1>1, PTL

\* No step reopens a task whose file is .done or .failed.
THEOREM SettledIsFinalHolds == Spec => SettledIsFinal
<1>1. IInv /\ [Next]_vars => [\A t \in Tasks : Settled(t) => inbox'[t] = inbox[t]]_vars
  <2> SUFFICES ASSUME IInv, Next, NEW t \in Tasks, Settled(t)
               PROVE  inbox'[t] = inbox[t]
    OBVIOUS
  <2>1. "working" \notin inbox[t] /\ "json" \notin inbox[t] /\ "tmp" \notin inbox[t]
    BY DEF IInv, Claims, OneState, Settled, Has
  <2>2. inbox[t] # {}
    BY DEF Settled, Has
  <2>3. CASE \E u \in Tasks : OpenTaskFile(u) \/ PublishTaskFile(u)
    BY <2>1, <2>2, <2>3 DEF OpenTaskFile, PublishTaskFile, Rename, Has, IInv, TypeOK
  <2>4. CASE \E u \in Tasks : RecoverOne(u) \/ Claim(u)
    BY <2>1, <2>4 DEF RecoverOne, Claim, Rename, IsFirst, Has, IInv, Claims, TypeOK
  <2>5. CASE Finish \/ Fail
    BY <2>1, <2>5 DEF Finish, Fail, Settle, Rename, Has, IInv, Claims, TypeOK, Claimed
  <2>6. CASE RunOneTask
    BY <2>6 DEF RunOneTask, CopyTarget, Decomposed, DecompositionFailed,
      MinersFound, NoMiners, DispatchAndMerge, Record, RecordEnd, OpenPatch,
      SkipPatch, ClosePatch, OpenResult, CloseResult, Raise, Goto
  <2>7. CASE Start \/ RecoverEnd \/ Crash
    BY <2>7 DEF Start, RecoverEnd, Crash
  <2> QED
    BY <2>3, <2>4, <2>5, <2>6, <2>7 DEF Next, Submission, Validator
<1> QED
  BY Safety, <1>1, PTL DEF Spec, SettledIsFinal

-----------------------------------------------------------------------------
(* The inbox implements the abstract queue.                                *)

queue == [t \in Tasks |-> StatusOf(inbox[t])]

\* The status of a task is the one its only file stands for.
LEMMA StatusOfOne ==
    /\ StatusOf({}) = "unknown" /\ StatusOf({"tmp"}) = "unknown"
    /\ StatusOf({"json"}) = "pending" /\ StatusOf({"working"}) = "working"
    /\ StatusOf({"done"}) = "done" /\ StatusOf({"failed"}) = "failed"
  BY DEF StatusOf

\* Renaming the only file of a task moves its status, and no other task's.
LEMMA RenameMoves ==
  ASSUME TypeOK, OneState, NEW t \in Tasks, NEW a, NEW b, Has(t, a), Rename(t, a, b)
  PROVE  /\ queue[t] = StatusOf({a})
         /\ queue' = [queue EXCEPT ![t] = StatusOf({b})]
<1>1. inbox[t] = {a}
  BY DEF OneState, Has
<1>2. inbox' = [inbox EXCEPT ![t] = {b}]
  BY <1>1 DEF Rename
<1> QED
  BY <1>1, <1>2 DEF queue, TypeOK

\* Every step of the inbox and the validator is a step of the abstract queue,
\* or one its clients do not see.
LEMMA QueueStep ==
  ASSUME IInv, [Next]_vars
  PROVE  [Queue!Next]_queue
<1> USE DEF IInv
<1>1. ASSUME NEW t \in Tasks, OpenTaskFile(t)
      PROVE  queue' = queue
  <2>1. inbox[t] = {} /\ inbox' = [inbox EXCEPT ![t] = {"tmp"}]
    BY <1>1 DEF OpenTaskFile
  <2> QED
    BY <2>1, StatusOfOne DEF queue, TypeOK
<1>2. ASSUME NEW t \in Tasks, PublishTaskFile(t)
      PROVE  Queue!Submit(t)
  BY <1>2, RenameMoves, StatusOfOne
  DEF PublishTaskFile, Claims, Queue!Submit, Queue!Move, queue
<1>3. ASSUME NEW t \in Tasks, RecoverOne(t)
      PROVE  Queue!Requeue(t)
  BY <1>3, RenameMoves, StatusOfOne
  DEF RecoverOne, IsFirst, Claims, Queue!Requeue, Queue!Move, queue
<1>4. ASSUME NEW t \in Tasks, Claim(t)
      PROVE  Queue!Claim(t)
  <2>1. Has(t, "json") /\ Rename(t, "json", "working") /\ pc = "poll"
    BY <1>4 DEF Claim, IsFirst
  <2>2. \A u \in Tasks : ~Has(u, "working")
    BY <2>1 DEF Claims, Claimed, RunSteps
  <2>3. \A u \in Tasks : queue[u] # "working"
    BY <2>2 DEF queue, StatusOf, Has
  <2> QED
    BY <2>1, <2>3, RenameMoves, StatusOfOne
    DEF Claims, Queue!Claim, Queue!Move, queue
<1>5. ASSUME Finish
      PROVE  Queue!Complete(cur) /\ cur \in Tasks
  <2>1. cur \in Tasks /\ Has(cur, "working") /\ Rename(cur, "working", "done")
    BY <1>5 DEF Finish, Settle, Claims, TypeOK, Claimed
  <2> QED
    BY <2>1, RenameMoves, StatusOfOne DEF Claims, Queue!Complete, Queue!Move, queue
<1>6. ASSUME Fail
      PROVE  Queue!Fail(cur) /\ cur \in Tasks
  <2>1. cur \in Tasks /\ Has(cur, "working") /\ Rename(cur, "working", "failed")
    BY <1>6 DEF Fail, Settle, Claims, TypeOK, Claimed
  <2> QED
    BY <2>1, RenameMoves, StatusOfOne DEF Claims, Queue!Fail, Queue!Move, queue
<1>7. ASSUME RunOneTask
      PROVE  queue' = queue
  BY <1>7 DEF queue, RunOneTask, CopyTarget, Decomposed, DecompositionFailed,
    MinersFound, NoMiners, DispatchAndMerge, Record, RecordEnd, OpenPatch,
    SkipPatch, ClosePatch, OpenResult, CloseResult, Raise, Goto
<1>8. ASSUME Start \/ RecoverEnd \/ Crash \/ UNCHANGED vars
      PROVE  queue' = queue
  BY <1>8 DEF queue, Start, RecoverEnd, Crash, vars
<1> QED
  BY <1>1, <1>2, <1>3, <1>4, <1>5, <1>6, <1>7, <1>8
  DEF Next, Submission, Validator, Queue!Next

\* The detailed system implements the safety part of the abstract queue: one
\* run at a time, a requeue only from working, one settlement per task.
THEOREM ImplementsQueueSafety == Spec => Queue!Safety
<1>1. Init => Queue!Init
  BY StatusOfOne DEF Init, Queue!Init
<1>2. IInv /\ [Next]_vars => [Queue!Next]_queue
  BY QueueStep
<1> QED
  BY Safety, <1>1, <1>2, PTL DEF Spec, Queue!Safety, queue

-----------------------------------------------------------------------------
(* The published result and the scorebook                                  *)

\* As long as no write was lost, a run has credited whom its per_hotkey names, but for
\* those it has still to record.
Paid ==
    /\ lostWrites = 0 => book = disk
    /\ toRecord \subseteq perHotkey
    /\ pc \in Scored \ {"record"} => toRecord = {}
    /\ pc \in Scored /\ cur \in Named /\ lostWrites = 0 =>
          \A h \in Hotkeys :
              disk[<<cur, h>>] = IF h \in perHotkey \ toRecord THEN 1 ELSE 0
    /\ LedgerMatchesResult

\* A step that neither scores nor publishes.
LEMMA PaidKept ==
  ASSUME Paid, UNCHANGED <<result, paid, scores>>,
         pc' \in Scored => pc \in Scored /\ cur' = cur,
         pc' \in Scored \ {"record"} => pc \in Scored \ {"record"}
  PROVE  Paid'
<1>1. LedgerMatchesResult'
  BY DEF Paid, LedgerMatchesResult, scores
<1> QED
  BY <1>1 DEF Paid, scores

\* Every step keeps the scorebook and the result in step.
LEMMA PaidStep ==
  ASSUME IInv, Paid, [Next]_vars
  PROVE  Paid'
<1> USE TasksAssumption
<1>1. CASE \E t \in Tasks : Submission(t) \/ RecoverOne(t) \/ Claim(t)
  BY <1>1, PaidKept DEF Submission, OpenTaskFile, PublishTaskFile, RecoverOne, Claim,
      outputs, Scored
<1>2. CASE RecoverEnd \/ Finish \/ Fail \/ Crash \/ UNCHANGED vars
  BY <1>2, PaidKept DEF RecoverEnd, Finish, Fail, Settle, Crash, vars, outputs, Scored
<1>3. CASE \/ CopyTarget \/ Decomposed \/ DecompositionFailed \/ MinersFound \/ NoMiners
           \/ OpenPatch \/ SkipPatch \/ ClosePatch \/ Raise
  BY <1>3, PaidKept DEF CopyTarget, Decomposed, DecompositionFailed, MinersFound, NoMiners,
      OpenPatch, SkipPatch, ClosePatch, Raise, Goto, outputs, Scored
<1>4. CASE Start
  <2>1. /\ pc' = "recover" /\ book' = disk
        /\ UNCHANGED <<result, paid, perHotkey, toRecord, disk, lostWrites>>
    BY <1>4 DEF Start, outputs
  <2>2. LedgerMatchesResult'
    BY <2>1 DEF Paid, LedgerMatchesResult
  <2> QED
    BY <2>1, <2>2 DEF Paid, Scored
<1>5. ASSUME NEW earners \in SUBSET Hotkeys, DispatchAndMerge(earners)
      PROVE  Paid'
  <2>1. /\ pc = "dispatch" /\ pc' = "record" /\ cur' = cur
        /\ perHotkey' = earners /\ toRecord' = earners
        /\ UNCHANGED <<result, paid, book, disk, lostWrites>>
    BY <1>5 DEF DispatchAndMerge, Goto, outputs
  <2>2. cur \in Named => \A h \in Hotkeys : disk[<<cur, h>>] = 0
    BY <2>1 DEF IInv, Ledger, Unscored
  <2>3. LedgerMatchesResult'
    BY <2>1 DEF Paid, LedgerMatchesResult
  <2> QED
    BY <2>1, <2>2, <2>3 DEF Paid, Scored
<1>6. ASSUME NEW h \in Hotkeys, Record(h)
      PROVE  Paid'
  <2>1. /\ pc = "record" /\ pc' = pc /\ cur' = cur /\ cur \in Tasks /\ h \in toRecord
        /\ toRecord' = toRecord \ {h} /\ UNCHANGED <<perHotkey, result, paid>>
    BY <1>6 DEF Record, Goto, outputs, IInv, TypeOK, Claimed, RunSteps
  <2>2. lostWrites \in Nat /\ (lostWrites' = 0 => lostWrites = 0 /\ disk' = book')
    BY <1>6, BoundsAssumption DEF Record, IInv, TypeOK
  <2>3. lostWrites = 0 => book = disk
    BY DEF Paid
  <2>4. \A t \in Tasks, k \in Hotkeys :
            book'[<<t, k>>] = IF t = cur /\ k = h THEN book[<<t, k>>] + 1
                                                  ELSE book[<<t, k>>]
    BY <1>6, <2>1 DEF Record, IInv, TypeOK
  <2>5. cur \in Named => result[cur] = "absent" /\ book[<<cur, h>>] = 0
    BY <2>1 DEF IInv, Artifacts, RunSteps, Ledger, Scored, Unscored
  <2>6. h \in perHotkey \ toRecord'
    BY <2>1 DEF Paid
  <2>7. ASSUME cur \in Named, lostWrites' = 0, NEW k \in Hotkeys
        PROVE  disk'[<<cur, k>>] = IF k \in perHotkey \ toRecord' THEN 1 ELSE 0
    <3>1. k # h => disk[<<cur, k>>] = IF k \in perHotkey \ toRecord THEN 1 ELSE 0
      BY <2>1, <2>2, <2>7 DEF Paid, Scored
    <3>2. /\ disk'[<<cur, k>>] = IF k = h THEN book[<<cur, k>>] + 1 ELSE book[<<cur, k>>]
          /\ book = disk
      BY <2>1, <2>2, <2>3, <2>4, <2>7
    <3>3. CASE k = h
      BY <2>5, <2>6, <2>7, <3>2, <3>3
    <3>4. CASE k # h
      <4>1. k \in perHotkey \ toRecord' <=> k \in perHotkey \ toRecord
        BY <2>1, <3>4
      <4> QED
        BY <3>1, <3>2, <3>4, <4>1
    <3> QED
      BY <3>3, <3>4
  <2>8. LedgerMatchesResult'
    BY <2>1, <2>2, <2>3, <2>4, <2>5 DEF Paid, LedgerMatchesResult
  <2> QED
    BY <2>1, <2>2, <2>7, <2>8 DEF Paid, Scored
<1>7. CASE RecordEnd
  <2>1. /\ pc = "record" /\ pc' = "patch" /\ cur' = cur /\ toRecord = {}
        /\ UNCHANGED <<result, paid, scores>>
    BY <1>7 DEF RecordEnd, Goto, outputs
  <2>2. LedgerMatchesResult'
    BY <2>1 DEF Paid, LedgerMatchesResult, scores
  <2> QED
    BY <2>1, <2>2 DEF Paid, scores, Scored
<1>8. CASE OpenResult \/ CloseResult
  <2>1. /\ pc \in Scored \ {"record"} /\ cur' = cur /\ cur \in Tasks
        /\ UNCHANGED scores
    BY <1>8 DEF OpenResult, CloseResult, Goto, Scored, IInv, TypeOK, Claimed, RunSteps
  <2>2. \/ OpenResult /\ pc' = "writing" /\ paid' = paid
           /\ \A t \in Named : result'[t] = IF t = cur THEN "partial" ELSE result[t]
        \/ CloseResult /\ pc' = "finish"
           /\ \A t \in Named : /\ result'[t] = IF t = cur THEN "whole" ELSE result[t]
                               /\ paid'[t] = IF t = cur THEN perHotkey ELSE paid[t]
    BY <1>8, <2>1 DEF OpenResult, CloseResult, Goto, InOwnDir, IInv, TypeOK
  <2>3. LedgerMatchesResult'
    BY <2>1, <2>2 DEF Paid, LedgerMatchesResult, scores
  <2> QED
    BY <2>1, <2>2, <2>3 DEF Paid, scores, Scored
<1> QED
  BY <1>1, <1>2, <1>3, <1>4, <1>5, <1>6, <1>7, <1>8
  DEF Next, Validator, RunOneTask

\* Where no write of the scorebook was lost, exactly the hotkeys in the published
\* per_hotkey of a task with an id are credited for it.
THEOREM LedgerMatchesResultHolds == Spec => []LedgerMatchesResult
<1>1. Init => Paid
  BY TasksAssumption DEF Init, Paid, Scored, LedgerMatchesResult
<1>2. IInv /\ Paid /\ [Next]_vars => Paid'
  BY PaidStep
<1>3. Paid => LedgerMatchesResult
  BY DEF Paid
<1> QED
  BY Safety, <1>1, <1>2, <1>3, PTL DEF Spec

-----------------------------------------------------------------------------
(* A client that polls                                                     *)

\* Before the first crash there is nothing to recover.
Uncrashed ==
    crashes = 0 /\ pc \in {"down", "recover"} =>
        orphans = {} /\ \A t \in Tasks : ~Has(t, "working")

Files(t) == inbox[t] \cap (Suffixes \ {"tmp"})

\* The probes behind a poll saw what is still true unless the task was requeued, which
\* takes a crash.
Poll ==
    /\ query \in [task : Tasks \cup {NoTask}, next : 0 .. 5, requeued : BOOLEAN]
    /\ query.next # Idle => query.task \in written
    /\ query.next \in 1 .. 4 /\ ~query.requeued =>
          \A j \in 1 .. query.next - 1 : ~Has(query.task, ProbeOrder[j])
    /\ query.next = Loading => Has(query.task, "done")
    /\ crashes = 0 => ~query.requeued

\* An answer about a done task is final, and one given before the first crash is a lower
\* bound on where the task is now.
Answered ==
    /\ answer \in [kind : {"none", "status", "patch"}, task : Tasks \cup {NoTask},
                   value : {"none", "unknown", "pending", "working", "done", "failed",
                            "partial", "whole"},
                   result : FileStates]
    /\ answer.value = "done" =>
          /\ answer.task \in Tasks
          /\ Has(answer.task, "done") /\ answer.result = result[answer.task]
    /\ crashes = 0 /\ answer.kind = "status" =>
          /\ answer.task \in written
          /\ answer.value \in {"pending", "working", "done", "failed"}
          /\ answer.value = "working" => ~Has(answer.task, "json")
          /\ answer.value = "failed" => Has(answer.task, "failed")

Published == \A t \in written : Files(t) # {}

ApiInv == Uncrashed /\ Published /\ Poll /\ Answered /\ UnknownOnlyIfRequeued

\* The steps that change inbox files, and the only one that changes the result of a task.
LEMMA RenamesOnly ==
  ASSUME IInv, [Next]_vars
  PROVE  \/ \E t \in Tasks : OpenTaskFile(t) \/ PublishTaskFile(t) \/ RecoverOne(t) \/ Claim(t)
         \/ Finish \/ Fail
         \/ UNCHANGED <<inbox, written>>
  BY DEF Next, Submission, Validator, RunOneTask, Start, RecoverEnd, CopyTarget, Decomposed,
      DecompositionFailed, MinersFound, NoMiners, DispatchAndMerge, Record, RecordEnd,
      OpenPatch, SkipPatch, ClosePatch, OpenResult, CloseResult, Raise, Goto, Crash, vars

\* How a step of the validator or of a submission moves a task.
LEMMA Moves ==
  ASSUME IInv, Published, [Next]_vars, NEW t \in Tasks
  PROVE  /\ t \in written => t \in written'
         /\ t \in written' => Files(t)' # {}
         /\ t \in written /\ ~Has(t, "json") /\ ~Has(t, "working") => inbox'[t] = inbox[t]
         /\ t \in written /\ ~Has(t, "json") /\ Has(t, "json")' => Has(t, "working")
         /\ Settled(t) => inbox'[t] = inbox[t]
<1> USE DEF IInv
<1>1. /\ inbox \in [Tasks -> SUBSET Suffixes]
      /\ \A a, b \in inbox[t] : a = b
      /\ inbox[t] \cap (Suffixes \ {"tmp"}) # {} => t \in written
      /\ t \in written => inbox[t] \cap (Suffixes \ {"tmp"}) # {}
  BY DEF TypeOK, Claims, OneState, Published, Files
<1>2. ASSUME NEW u \in Tasks, OpenTaskFile(u)
      PROVE  /\ UNCHANGED written
             /\ inbox'[t] = IF t = u THEN {"tmp"} ELSE inbox[t]
             /\ t = u => inbox[t] = {}
  BY <1>1, <1>2 DEF OpenTaskFile
<1>3. ASSUME NEW u \in Tasks, NEW a, NEW b, Has(u, a), Rename(u, a, b)
      PROVE  /\ inbox'[t] = IF t = u THEN {b} ELSE inbox[t]
             /\ t = u => inbox[t] = {a}
  <2>1. inbox[u] = {a}
    BY <1>3 DEF Has, Claims, OneState
  <2> QED
    BY <1>1, <1>3, <2>1 DEF Rename
<1>4. CASE \E u \in Tasks : OpenTaskFile(u)
  BY <1>1, <1>2, <1>4 DEF Files, Has, Settled
<1>5. CASE \E u \in Tasks : PublishTaskFile(u)
  <2>1. PICK u \in Tasks : PublishTaskFile(u)
    BY <1>5
  <2>2. Has(u, "tmp") /\ Rename(u, "tmp", "json") /\ written' = written \cup {u}
    BY <2>1 DEF PublishTaskFile
  <2>3. /\ inbox'[t] = IF t = u THEN {"json"} ELSE inbox[t]
        /\ t = u => inbox[t] = {"tmp"}
    BY <1>3, <2>2
  <2> QED
    BY <1>1, <2>2, <2>3 DEF Files, Has, Settled, Suffixes
<1>6. CASE \E u \in Tasks : RecoverOne(u)
  <2>1. PICK u \in Tasks : RecoverOne(u)
    BY <1>6
  <2>2. Has(u, "working") /\ Rename(u, "working", "json") /\ UNCHANGED written
    BY <2>1 DEF RecoverOne, IsFirst, Claims
  <2>3. /\ inbox'[t] = IF t = u THEN {"json"} ELSE inbox[t]
        /\ t = u => inbox[t] = {"working"}
    BY <1>3, <2>2
  <2> QED
    BY <1>1, <2>2, <2>3 DEF Files, Has, Settled, Suffixes
<1>7. CASE \E u \in Tasks : Claim(u)
  <2>1. PICK u \in Tasks : Claim(u)
    BY <1>7
  <2>2. Has(u, "json") /\ Rename(u, "json", "working") /\ UNCHANGED written
    BY <2>1 DEF Claim, IsFirst
  <2>3. /\ inbox'[t] = IF t = u THEN {"working"} ELSE inbox[t]
        /\ t = u => inbox[t] = {"json"}
    BY <1>3, <2>2
  <2> QED
    BY <1>1, <2>2, <2>3 DEF Files, Has, Settled, Suffixes
<1>8. CASE Finish \/ Fail
  <2>1. PICK b \in {"done", "failed"} : Rename(cur, "working", b)
    BY <1>8 DEF Finish, Fail, Settle
  <2>2. cur \in Tasks /\ Has(cur, "working") /\ UNCHANGED written
    BY <1>8 DEF Finish, Fail, Settle, Claims, Claimed, TypeOK
  <2>3. /\ inbox'[t] = IF t = cur THEN {b} ELSE inbox[t]
        /\ t = cur => inbox[t] = {"working"}
    BY <1>3, <2>1, <2>2
  <2> QED
    BY <1>1, <2>1, <2>2, <2>3 DEF Files, Has, Settled, Suffixes
<1>9. CASE UNCHANGED <<inbox, written>>
  BY <1>1, <1>9 DEF Files, Has, Settled
<1> QED
  BY <1>4, <1>5, <1>6, <1>7, <1>8, <1>9, RenamesOnly

\* The result of a done task is not touched.
LEMMA ResultKept ==
  ASSUME IInv, [Next]_vars, NEW t \in Tasks, Has(t, "done")
  PROVE  result'[t] = result[t]
<1>1. result' = result \/ (pc \in Claimed /\ \E v : result' = InOwnDir(result, v))
  BY DEF Next, Submission, Validator, RunOneTask, OpenTaskFile, PublishTaskFile, RecoverOne,
      Claim, Start, RecoverEnd, CopyTarget, Decomposed, DecompositionFailed, MinersFound,
      NoMiners, DispatchAndMerge, Record, RecordEnd, OpenPatch, SkipPatch, ClosePatch,
      OpenResult, CloseResult, Raise, Goto, Finish, Fail, Settle, Crash, vars, outputs,
      Claimed, RunSteps
<1>2. pc \in Claimed => cur # t
  BY DEF IInv, Claims, OneState, Has
<1> QED
  BY <1>1, <1>2 DEF InOwnDir, IInv, TypeOK

\* Only a recovery requeues a task, and there is none before the first crash.
LEMMA RequeueNeedsCrash ==
  ASSUME IInv, Uncrashed, [Next]_vars
  PROVE  /\ Uncrashed'
         /\ crashes' = 0 => crashes = 0
         /\ crashes = 0 => \A t \in Tasks : Has(t, "working") => "json" \notin inbox'[t]
<1> USE DEF IInv
<1>1. crashes \in Nat
  BY BoundsAssumption DEF TypeOK
<1>2. CASE \E u \in Tasks : OpenTaskFile(u)
  BY <1>1, <1>2 DEF OpenTaskFile, Has, Uncrashed, Claims, OneState, TypeOK
<1>3. CASE \E u \in Tasks : PublishTaskFile(u)
  BY <1>1, <1>3 DEF PublishTaskFile, Rename, Has, Uncrashed, Claims, OneState, TypeOK
<1>4. CASE Start
  BY <1>1, <1>4 DEF Start, Uncrashed, Has, Claims, OneState
<1>5. CASE \E u \in Tasks : RecoverOne(u)
  BY <1>1, <1>5 DEF RecoverOne, IsFirst, Uncrashed
<1>6. CASE RecoverEnd
  BY <1>6 DEF RecoverEnd, Uncrashed, Has, Claims, OneState
<1>7. CASE \E u \in Tasks : Claim(u)
  BY <1>7 DEF Claim, IsFirst, Rename, Uncrashed, Has, Claims, OneState, TypeOK
<1>8. CASE RunOneTask
  <2>1. UNCHANGED <<inbox, crashes>> /\ pc' \notin {"down", "recover"}
    BY <1>8 DEF RunOneTask, CopyTarget, Decomposed, DecompositionFailed, MinersFound,
        NoMiners, DispatchAndMerge, Record, RecordEnd, OpenPatch, SkipPatch, ClosePatch,
        OpenResult, CloseResult, Raise, Goto
  <2> QED
    BY <2>1 DEF Uncrashed, Has, Claims, OneState
<1>9. CASE Finish \/ Fail
  BY <1>9 DEF Finish, Fail, Settle, Rename, Uncrashed, Has, Claims, OneState, TypeOK
<1>10. CASE Crash
  BY <1>1, <1>10 DEF Crash, Uncrashed, Has, Claims, OneState
<1>11. CASE UNCHANGED vars
  BY <1>11 DEF vars, Uncrashed, Has, Claims, OneState
<1> QED
  BY <1>2, <1>3, <1>4, <1>5, <1>6, <1>7, <1>8, <1>9, <1>10, <1>11
  DEF Next, Submission, Validator

\* The four suffixes in the order of the probes.
LEMMA Probes ==
  /\ DOMAIN ProbeOrder = 1 .. 4 /\ Len(ProbeOrder) = 4
  /\ ProbeOrder[1] = "json" /\ ProbeOrder[2] = "working"
  /\ ProbeOrder[3] = "done" /\ ProbeOrder[4] = "failed"
  BY DEF ProbeOrder

\* A step of the server keeps what the client has seen so far true.
LEMMA ServerKeeps ==
  ASSUME IInv, ApiInv, ServerStep
  PROVE  ApiInv'
<1>1. /\ [Next]_vars /\ answer' = answer
      /\ query' = [query EXCEPT !.requeued =
            @ \/ (query.next # Idle /\ Has(query.task, "working")
                  /\ "json" \in inbox'[query.task])]
  BY DEF ServerStep
<1>2. /\ query' \in [task : Tasks \cup {NoTask}, next : 0 .. 5, requeued : BOOLEAN]
      /\ query'.task = query.task /\ query'.next = query.next
      /\ query'.requeued <=> (query.requeued \/ (/\ query.next # Idle
                                               /\ Has(query.task, "working")
                                               /\ "json" \in inbox'[query.task]))
  BY <1>1 DEF ApiInv, Poll
<1>3. Uncrashed' /\ Published'
  <2>1. written' \subseteq Tasks
    BY <1>1, TypeStep DEF IInv, TypeOK
  <2> QED
    BY <1>1, <2>1, RequeueNeedsCrash, Moves DEF ApiInv, Published
<1>4. written \subseteq Tasks /\ written \subseteq written'
  BY <1>1, Moves DEF ApiInv, IInv, TypeOK
<1>5. Poll'
  <2>1. query.next \in 1 .. 4 /\ ~query'.requeued =>
            \A j \in 1 .. query.next - 1 : ~Has(query.task, ProbeOrder[j])'
    <3> SUFFICES ASSUME query.next \in 1 .. 4, ~query'.requeued,
                        NEW j \in 1 .. query.next - 1
                 PROVE  ~Has(query.task, ProbeOrder[j])'
      OBVIOUS
    <3>0. PICK t \in Tasks : t = query.task /\ t \in written
      BY <1>4 DEF ApiInv, Poll, Idle
    <3>1. /\ ~query.requeued
          /\ \A i \in 1 .. query.next - 1 : ~Has(t, ProbeOrder[i])
          /\ ~(Has(t, "working") /\ "json" \in inbox'[t])
      BY <1>2, <3>0 DEF ApiInv, Poll, Idle
    <3>2. ~Has(t, "json") /\ ~Has(t, "json")'
      <4>1. ~Has(t, "json")
        BY <3>1, Probes
      <4> QED
        BY <1>1, <3>0, <3>1, <4>1, Moves DEF Has, ApiInv
    <3>3. CASE j = 1
      BY <1>2, <3>0, <3>2, <3>3, Probes DEF Has
    <3>4. CASE j # 1
      <4>1. ~Has(t, "working") /\ ~Has(t, ProbeOrder[j])
        BY <3>1, <3>4, Probes
      <4>2. inbox'[t] = inbox[t]
        BY <1>1, <3>0, <3>2, <4>1, Moves DEF ApiInv
      <4> QED
        BY <1>2, <3>0, <4>1, <4>2 DEF Has
    <3> QED
      BY <3>3, <3>4
  <2>2. query.next = Loading => Has(query.task, "done")'
    <3> SUFFICES ASSUME query.next = Loading
                 PROVE  Has(query.task, "done")'
      OBVIOUS
    <3>1. Has(query.task, "done") /\ query.task \in Tasks
      BY <1>4, Probes DEF ApiInv, Poll, Loading, Idle
    <3> QED
      BY <1>1, <3>1, Moves DEF ApiInv, Settled, Has
  <2>3. crashes' = 0 => ~query'.requeued
    BY <1>1, <1>2, <1>4, RequeueNeedsCrash DEF ApiInv, Poll
  <2>4. query.next # Idle => query.task \in written'
    BY <1>4 DEF ApiInv, Poll
  <2> QED
    BY <1>2, <2>1, <2>2, <2>3, <2>4 DEF Poll, Has
<1>6. Answered'
  <2>0. PICK t : t = answer.task
    OBVIOUS
  <2>1. answer.value = "done" => /\ t \in Tasks
                                 /\ Has(t, "done")' /\ answer.result = result'[t]
    <3> SUFFICES ASSUME answer.value = "done"
                 PROVE  t \in Tasks /\ Has(t, "done")' /\ answer.result = result'[t]
      OBVIOUS
    <3>1. t \in Tasks /\ Has(t, "done") /\ answer.result = result[t]
      BY <2>0 DEF ApiInv, Answered
    <3> QED
      BY <1>1, <3>1, Moves, ResultKept DEF ApiInv, Settled, Has
  <2>2. ASSUME crashes' = 0, answer.kind = "status"
        PROVE  /\ t \in written'
               /\ answer.value \in {"pending", "working", "done", "failed"}
               /\ answer.value = "working" => ~Has(t, "json")'
               /\ answer.value = "failed" => Has(t, "failed")'
    <3>1. crashes = 0 /\ \A u \in Tasks : Has(u, "working") => "json" \notin inbox'[u]
      BY <1>1, <2>2, RequeueNeedsCrash DEF ApiInv
    <3>2. /\ t \in written /\ t \in Tasks
          /\ answer.value \in {"pending", "working", "done", "failed"}
          /\ answer.value = "working" => ~Has(t, "json")
          /\ answer.value = "failed" => Has(t, "failed")
      BY <1>4, <2>0, <2>2, <3>1 DEF ApiInv, Answered
    <3>3. answer.value = "working" => ~Has(t, "json")'
      BY <1>1, <3>1, <3>2, Moves DEF ApiInv, Has
    <3>4. answer.value = "failed" => Has(t, "failed")'
      BY <1>1, <3>2, Moves DEF ApiInv, Has, Settled
    <3> QED
      BY <1>4, <3>2, <3>3, <3>4
  <2> QED
    BY <1>1, <2>0, <2>1, <2>2 DEF ApiInv, Answered, Has
<1>7. UnknownOnlyIfRequeued'
  BY <1>1, <1>2 DEF ApiInv, UnknownOnlyIfRequeued
<1> QED
  BY <1>3, <1>5, <1>6, <1>7 DEF ApiInv

\* What a probe tells: the suffix it sees, or that it saw none of the four.
LEMMA ProbeTells ==
  ASSUME IInv, ApiInv, Probe
  PROVE  /\ query.next \in 1 .. 4 /\ query.task \in written
         /\ query'.task = query.task /\ query'.requeued = query.requeued
         /\ \/ /\ query'.next = query.next + 1 /\ query'.next \in 1 .. 4
               /\ answer' = answer /\ ~Has(query.task, ProbeOrder[query.next])
            \/ /\ query'.next = Loading
               /\ answer' = answer /\ Has(query.task, "done")
            \/ /\ query'.next = Idle
               /\ \E v \in {"pending", "working", "failed", "unknown"} :
                     /\ Tell("status", query.task, v, "absent")
                     /\ v = "pending" => Has(query.task, "json")
                     /\ v = "working" => Has(query.task, "working")
                     /\ v = "failed" => Has(query.task, "failed")
                     /\ v = "working" => ~Has(query.task, "json")
                     /\ v = "unknown" => query.requeued
<1> DEFINE k == query.next
           suffix == ProbeOrder[k]
<1>1. /\ k \in 1 .. 4 /\ query.task \in written /\ query.task \in Tasks
      /\ query \in [task : Tasks \cup {NoTask}, next : 0 .. 5, requeued : BOOLEAN]
  BY Probes DEF Probe, ApiInv, Poll, Idle, IInv, TypeOK
<1>2. query'.task = query.task /\ query'.requeued = query.requeued
  BY <1>1 DEF Probe
<1>3. CASE Has(query.task, suffix) /\ suffix = "done"
  <2>1. query'.next = Loading /\ answer' = answer
    BY <1>1, <1>3 DEF Probe
  <2> QED
    BY <1>1, <1>2, <1>3, <2>1
<1>4. CASE Has(query.task, suffix) /\ suffix # "done"
  <2>1. query'.next = Idle /\ Tell("status", query.task, Reported[suffix], "absent")
    BY <1>1, <1>4 DEF Probe
  <2>2. \/ suffix = "json" /\ Reported[suffix] = "pending"
        \/ suffix = "working" /\ Reported[suffix] = "working"
        \/ suffix = "failed" /\ Reported[suffix] = "failed"
    BY <1>1, <1>4, Probes DEF Reported
  <2>3. suffix = "working" => ~Has(query.task, "json")
    BY <1>1, <1>4 DEF IInv, Claims, OneState, Has
  <2> HIDE DEF suffix
  <2> QED
    BY <1>1, <1>2, <1>4, <2>1, <2>2, <2>3
<1>5. CASE ~Has(query.task, suffix) /\ k < 4
  <2>1. query'.next = k + 1 /\ answer' = answer
    BY <1>1, <1>5, Probes DEF Probe
  <2> QED
    BY <1>1, <1>2, <1>5, <2>1
<1>6. CASE ~Has(query.task, suffix) /\ k = 4
  <2>1. query'.next = Idle /\ Tell("status", query.task, "unknown", "absent")
    BY <1>1, <1>6, Probes DEF Probe
  <2>2. query.requeued
    <3> SUFFICES ASSUME ~query.requeued
                 PROVE  FALSE
      OBVIOUS
    <3>1. \A j \in 1 .. 3 : ~Has(query.task, ProbeOrder[j])
      BY <1>6 DEF ApiInv, Poll
    <3>2. /\ ~Has(query.task, "json") /\ ~Has(query.task, "working")
          /\ ~Has(query.task, "done") /\ ~Has(query.task, "failed")
      BY <1>6, <3>1, Probes
    <3> QED
      BY <1>1, <3>2 DEF ApiInv, Published, Files, Has, Suffixes
  <2> QED
    BY <1>1, <1>2, <2>1, <2>2
<1> QED
  BY <1>1, <1>3, <1>4, <1>5, <1>6

\* Neither asking nor probing nor loading disturbs what is known.
LEMMA ClientKeeps ==
  ASSUME IInv, ApiInv, UNCHANGED vars,
         Probe \/ LoadResult \/ (\E t \in Tasks : Ask(t) \/ FetchPatch(t))
  PROVE  ApiInv'
<1>1. /\ UNCHANGED <<inbox, written, pc, orphans, result, crashes>>
      /\ \A t, x : Has(t, x)' <=> Has(t, x)
  BY DEF vars, outputs, Has
<1>2. Uncrashed' /\ Published'
  BY <1>1 DEF ApiInv, Uncrashed, Published, Files, Has
<1>3. ASSUME NEW t \in Tasks, Ask(t)
      PROVE  ApiInv'
  <2>1. /\ query' = [task |-> t, next |-> 1, requeued |-> FALSE] /\ answer' = answer
        /\ t \in written
    BY <1>3 DEF Ask
  <2>2. Poll'
    BY <1>1, <2>1, Probes DEF Poll, Idle, Loading
  <2>3. Answered' /\ UnknownOnlyIfRequeued'
    BY <1>1, <2>1 DEF ApiInv, Answered, UnknownOnlyIfRequeued, Idle, Has
  <2> QED
    BY <1>2, <2>2, <2>3 DEF ApiInv
<1>4. ASSUME NEW t \in Tasks, FetchPatch(t)
      PROVE  ApiInv'
  <2>1. /\ query' = query
        /\ \E v \in {"none", "partial", "whole"} :
              answer' = [kind |-> "patch", task |-> t, value |-> v, result |-> "absent"]
    BY <1>4 DEF FetchPatch, Tell, IInv, TypeOK, FileStates
  <2>2. Poll'
    BY <1>1, <2>1 DEF ApiInv, Poll, Has
  <2>3. Answered' /\ UnknownOnlyIfRequeued'
    BY <1>1, <2>1 DEF Answered, UnknownOnlyIfRequeued, FileStates
  <2> QED
    BY <1>2, <2>2, <2>3 DEF ApiInv
<1>5. CASE Probe
  <2>1. query' \in [task : Tasks \cup {NoTask}, next : 0 .. 5, requeued : BOOLEAN]
    BY <1>5, Probes DEF Probe, ApiInv, Poll, Idle, Loading
  <2>2. /\ query'.next # Idle => query.task \in written
        /\ query'.next = Loading => Has(query.task, "done")
        /\ crashes = 0 => ~query.requeued
        /\ query'.task = query.task /\ query'.requeued = query.requeued
    BY <1>5, ProbeTells, Probes DEF Idle, Loading, ApiInv, Poll
  <2>3. query'.next \in 1 .. 4 /\ ~query.requeued =>
            \A j \in 1 .. query'.next - 1 : ~Has(query.task, ProbeOrder[j])
    BY <1>5, ProbeTells, Probes DEF Idle, Loading, ApiInv, Poll
  <2>4. Poll'
    BY <1>1, <2>1, <2>2, <2>3 DEF Poll, Has
  <2>5. CASE query'.next # Idle
    <3>1. answer' = answer
      BY <1>5, <2>5, ProbeTells
    <3> QED
      BY <1>1, <1>2, <2>2, <2>4, <2>5, <3>1 DEF ApiInv, Answered, UnknownOnlyIfRequeued, Has
  <2>6. CASE query'.next = Idle
    <3>1. PICK v \in {"pending", "working", "failed", "unknown"} :
              /\ Tell("status", query.task, v, "absent")
              /\ v = "failed" => Has(query.task, "failed")
              /\ v = "working" => ~Has(query.task, "json")
              /\ v = "unknown" => query.requeued
      BY <1>5, <2>6, ProbeTells, Probes DEF Idle, Loading
    <3>2. query.task \in written /\ query.task \in Tasks
      BY <1>5, ProbeTells DEF IInv, TypeOK
    <3>3. Answered'
      BY <1>1, <2>2, <3>1, <3>2 DEF Answered, Tell, FileStates, Has
    <3>4. UnknownOnlyIfRequeued'
      BY <2>2, <3>1 DEF UnknownOnlyIfRequeued, Tell
    <3> QED
      BY <1>2, <2>4, <3>3, <3>4 DEF ApiInv
  <2> QED
    BY <2>5, <2>6
<1>6. CASE LoadResult
  <2>1. /\ query.next = Loading /\ query' = [query EXCEPT !.next = Idle]
        /\ answer' = [kind |-> "status", task |-> query.task, value |-> "done",
                      result |-> result[query.task]]
    BY <1>6 DEF LoadResult, Tell
  <2>2. /\ Has(query.task, "done") /\ query.task \in written /\ query.task \in Tasks
        /\ result[query.task] \in FileStates
    BY <2>1, Probes DEF ApiInv, Poll, Loading, Idle, IInv, TypeOK
  <2>3. Poll'
    BY <1>1, <2>1 DEF ApiInv, Poll, Idle, Loading
  <2>4. Answered' /\ UnknownOnlyIfRequeued'
    BY <1>1, <2>1, <2>2 DEF Answered, UnknownOnlyIfRequeued, Has
  <2> QED
    BY <1>2, <2>3, <2>4 DEF ApiInv
<1> QED
  BY <1>3, <1>4, <1>5, <1>6

\* Before the first poll there is no answer.
LEMMA InitApi == ApiInit => ApiInv
<1> SUFFICES ASSUME ApiInit
             PROVE  ApiInv
  OBVIOUS
<1>1. Uncrashed /\ Published
  BY DEF ApiInit, Init, Uncrashed, Published, Has
<1>2. Poll
  BY Probes DEF ApiInit, Init, Poll, Idle, Loading
<1>3. Answered /\ UnknownOnlyIfRequeued
  BY DEF ApiInit, Init, NoAnswer, Answered, UnknownOnlyIfRequeued, FileStates
<1> QED
  BY <1>1, <1>2, <1>3 DEF ApiInv

\* A step is one of the server's, which the client does not notice, or one of the
\* client's, which leaves the server alone.
LEMMA ApiStep ==
  ASSUME [ApiNext]_allVars
  PROVE  /\ [Next]_vars
         /\ \/ ServerStep
            \/ UNCHANGED allVars
            \/ UNCHANGED vars /\ (\/ Probe \/ LoadResult
                                  \/ \E t \in Tasks : Ask(t) \/ FetchPatch(t))
  BY DEF ApiNext, allVars, ServerStep, Ask, FetchPatch, Probe, LoadResult

\* The invariant of the validator and of the client.
THEOREM ApiSafety == ApiSpec => [](IInv /\ ApiInv)
<1>1. ApiInit => IInv /\ ApiInv
  BY InitIInv, InitApi DEF ApiInit
<1>2. IInv /\ ApiInv /\ [ApiNext]_allVars => IInv' /\ ApiInv'
  <2> SUFFICES ASSUME IInv, ApiInv, [ApiNext]_allVars
               PROVE  IInv' /\ ApiInv'
    OBVIOUS
  <2>1. IInv'
    BY ApiStep, TypeStep, ClaimsStep, LedgerStep, ArtifactsStep DEF IInv
  <2>2. CASE UNCHANGED allVars
    <3>1. UNCHANGED <<inbox, written, pc, orphans, result, crashes, query, answer>>
      BY <2>2 DEF allVars, vars, outputs
    <3>2. Uncrashed' /\ Published'
      BY <3>1 DEF ApiInv, Uncrashed, Published, Files, Has
    <3>3. Poll'
      BY <3>1 DEF ApiInv, Poll, Has
    <3>4. Answered' /\ UnknownOnlyIfRequeued'
      BY <3>1 DEF ApiInv, Answered, UnknownOnlyIfRequeued, Has
    <3> QED
      BY <2>1, <3>2, <3>3, <3>4 DEF ApiInv
  <2>3. CASE ~UNCHANGED allVars
    BY <2>1, <2>3, ApiStep, ServerKeeps, ClientKeeps
  <2> QED
    BY <2>1, <2>2, <2>3
<1> QED
  BY <1>1, <1>2, PTL DEF ApiSpec

\* A poll of GET /tasks/{id} that races the renames of the validator answers "unknown"
\* for a task that was submitted only if a recovery moved the task back meanwhile.
THEOREM UnknownOnlyIfRequeuedHolds == ApiSpec => []UnknownOnlyIfRequeued
<1>1. ApiInv => UnknownOnlyIfRequeued
  BY DEF ApiInv
<1> QED
  BY ApiSafety, <1>1, PTL

\* Before the first crash the answers about a task only move forward, though each is
\* put together from probes at different times.
THEOREM PollsMoveForwardHolds == ApiSpec => PollsMoveForward
<1> DEFINE Forward == /\ answer.kind = "status" /\ answer'.kind = "status"
                      /\ answer.task = answer'.task /\ crashes' = 0
                      => Progress[answer.value] <= Progress[answer'.value]
<1>1. IInv /\ ApiInv /\ [ApiNext]_allVars => [Forward]_allVars
  <2> SUFFICES ASSUME IInv, ApiInv, [ApiNext]_allVars,
                      answer.kind = "status", answer'.kind = "status",
                      answer.task = answer'.task, crashes' = 0
               PROVE  Progress[answer.value] <= Progress[answer'.value]
    OBVIOUS
  <2>1. crashes = 0
    BY ApiStep, RequeueNeedsCrash DEF ApiInv
  <2>2. /\ answer.task \in written
        /\ answer.value \in {"pending", "working", "done", "failed"}
        /\ answer.value = "working" => ~Has(answer.task, "json")
        /\ answer.value = "failed" => Has(answer.task, "failed")
        /\ answer.value = "done" => Has(answer.task, "done")
    BY <2>1 DEF ApiInv, Answered
  <2>3. CASE answer' = answer
    BY <2>2, <2>3 DEF Progress
  <2>4. CASE answer' # answer
    <3>1. Probe \/ LoadResult
      BY <2>4, ApiStep DEF ServerStep, allVars, Ask, FetchPatch, Tell
    <3>2. CASE LoadResult
      BY <2>2, <3>2 DEF LoadResult, Tell, Progress
    <3>3. CASE Probe
      <4>1. PICK v \in {"pending", "working", "failed", "unknown"} :
                /\ Tell("status", query.task, v, "absent")
                /\ v = "pending" => Has(query.task, "json")
                /\ v = "working" => Has(query.task, "working")
                /\ v = "unknown" => query.requeued
        BY <2>4, <3>3, ProbeTells
      <4>2. answer'.value = v /\ answer.task = query.task /\ query.task \in Tasks
        BY <2>2, <4>1 DEF Tell, IInv, TypeOK
      <4>3. v # "unknown"
        BY <2>1, <4>1 DEF ApiInv, Poll
      <4>4. \A a, b \in inbox[query.task] : a = b
        BY <4>2 DEF IInv, Claims, OneState
      <4>5. v = "pending" => answer.value = "pending"
        BY <2>2, <4>1, <4>2, <4>4 DEF Has
      <4>6. v = "working" => answer.value \in {"pending", "working"}
        BY <2>2, <4>1, <4>2, <4>4 DEF Has
      <4> QED
        BY <2>2, <4>2, <4>3, <4>5, <4>6 DEF Progress
    <3> QED
      BY <3>1, <3>2, <3>3
  <2> QED
    BY <2>3, <2>4
<1> QED
  BY ApiSafety, <1>1, PTL DEF ApiSpec, PollsMoveForward

\* A result a client gets with the status "done" is whole or absent, and the same at
\* every later poll.
THEOREM ResultsAreFinalHolds == ApiSpec => ResultsAreFinal
<1> DEFINE Final == answer'.value = "done" =>
              /\ answer'.result # "partial"
              /\ answer.value = "done" /\ answer.task = answer'.task
                    => answer.result = answer'.result
<1>1. IInv /\ ApiInv /\ [ApiNext]_allVars => [Final]_allVars
  <2> SUFFICES ASSUME IInv, ApiInv, [ApiNext]_allVars, answer'.value = "done"
               PROVE  /\ answer'.result # "partial"
                      /\ answer.value = "done" /\ answer.task = answer'.task
                            => answer.result = answer'.result
    OBVIOUS
  <2>1. answer.value = "done" => /\ answer.task \in Tasks /\ Has(answer.task, "done")
                                 /\ answer.result = result[answer.task]
    BY DEF ApiInv, Answered
  <2>2. \A t \in Tasks : Has(t, "done") => result[t] # "partial"
    BY DEF IInv, Artifacts, DoneArtifactsWhole
  <2>3. CASE answer' = answer
    BY <2>1, <2>2, <2>3
  <2>4. CASE answer' # answer
    <3>1. Probe \/ LoadResult
      BY <2>4, ApiStep DEF ServerStep, allVars, Ask, FetchPatch, Tell, IInv, TypeOK, FileStates
    <3>2. LoadResult
      BY <2>4, <3>1, ProbeTells DEF Tell
    <3>3. /\ answer'.task = query.task /\ answer'.result = result[query.task]
          /\ Has(query.task, "done") /\ query.task \in Tasks
      BY <3>2, Probes DEF LoadResult, Tell, ApiInv, Poll, Loading, Idle, IInv, TypeOK
    <3> QED
      BY <2>1, <2>2, <3>3
  <2> QED
    BY <2>3, <2>4
<1> QED
  BY ApiSafety, <1>1, PTL DEF ApiSpec, ResultsAreFinal

================================================================================
