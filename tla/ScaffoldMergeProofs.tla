------------------------- MODULE ScaffoldMergeProofs --------------------------
(***************************************************************************)
(* Theorems about the tiered merge, for every number of subtasks, every    *)
(* dependency graph and every repair mode and backend.                     *)
(***************************************************************************)
EXTENDS ScaffoldMerge, TLAPS

\* The first visited subtask is one of the current tier's.
LEMMA FirstIsSubtask ==
    ASSUME TypeOK, NEW s, First(s)
    PROVE  s \in Subtasks /\ s \in todo /\ s \in tier
BY DEF TypeOK, First

\* A tier consists of subtasks.
LEMMA TierIsSubset == NextTier \subseteq Subtasks
BY DEF NextTier, Ready, Remaining

\* The initial states are well typed.
LEMMA InitType == Init => TypeOK
BY MergeAssumption DEF Init, TypeOK, Conf, Phases

\* Every step keeps the types: one case per action.
LEMMA TypeStep == TypeOK /\ [Next]_vars => TypeOK'
<1> SUFFICES ASSUME TypeOK, [Next]_vars
             PROVE  TypeOK'
    OBVIOUS
<1> USE MergeAssumption
<1>1. CASE FormTier
  <2>1. tierOf' \in [Subtasks -> 0 .. tiers']
    BY <1>1 DEF FormTier, TypeOK
  <2>2. tier' \subseteq Subtasks /\ todo' \subseteq tier'
    BY <1>1, TierIsSubset DEF FormTier
  <2> QED
    BY <1>1, <2>1, <2>2 DEF FormTier, setup, history, TypeOK, Phases
<1>2. ASSUME NEW s \in Subtasks, ApplyPatch(s)
      PROVE  TypeOK'
  <2>1. s \in tier /\ todo' \subseteq tier
    BY <1>2, FirstIsSubtask DEF ApplyPatch, TypeOK
  <2>2. code' \in [Subtasks -> {"stub", "real"}] /\ landedAt' \in [Subtasks -> Nat]
    BY <1>2 DEF ApplyPatch, TypeOK
  <2> QED
    BY <1>2, <2>1, <2>2 DEF ApplyPatch, setup, TypeOK, Phases
<1>3. ASSUME NEW s \in Subtasks, NEW v \in {"passed", "failed"}, Settle(s, v)
      PROVE  /\ verdict' \in [Subtasks -> {"none", "passed", "failed"}]
             /\ todo' \subseteq tier
             /\ pc' \in Phases
  BY <1>3 DEF Settle, TypeOK, Phases
<1>4. ASSUME NEW s \in Subtasks, NEW tree, NEW when \in Nat,
             TestsPass(s, tree, when) \/ TestsFail(s)
      PROVE  passedAt' \in [Subtasks -> Nat] /\ sawReal' \in [Subtasks -> SUBSET Subtasks]
  BY <1>4 DEF TestsPass, TestsFail, TypeOK
<1>5. ASSUME AgentEdits
      PROVE  code' \in [Subtasks -> {"stub", "real"}] /\ round' \in Nat \ {0}
  BY <1>5 DEF AgentEdits, TypeOK
<1>6. ASSUME NEW s \in Subtasks, TestPasses(s) \/ GiveUpOn(s)
      PROVE  TypeOK'
  <2>1. CASE TestPasses(s)
    BY <2>1, <1>3, <1>4 DEF TestPasses, setup, TypeOK
  <2>2. CASE GiveUpOn(s)
    BY <2>2, <1>3 DEF GiveUpOn, setup, history, TypeOK
  <2> QED
    BY <1>6, <2>1, <2>2
<1>7. ASSUME NEW s \in Subtasks, TestFails(s)
      PROVE  TypeOK'
  BY <1>7 DEF TestFails, TestsFail, setup, TypeOK, Phases
<1>8. ASSUME NEW s \in Subtasks, ReplaceComesToNothing(s) \/ ReplacementRefused(s)
      PROVE  TypeOK'
  <2>1. CASE ReplaceComesToNothing(s)
    BY <2>1 DEF ReplaceComesToNothing, setup, history, TypeOK, Phases
  <2>2. CASE ReplacementRefused(s)
    <3>1. code' \in [Subtasks -> {"stub", "real"}]
      BY <2>2 DEF ReplacementRefused, Reverted, TypeOK
    <3> QED
      BY <2>2, <3>1 DEF ReplacementRefused, setup, history, TypeOK, Phases
  <2> QED
    BY <1>8, <2>1, <2>2
<1>9. ASSUME NEW s \in Subtasks, ReplaceLands(s)
      PROVE  TypeOK'
  <2>1. code' \in [Subtasks -> {"stub", "real"}]
    BY <1>9 DEF ReplaceLands, Reverted, TypeOK
  <2>2. passedAt' \in [Subtasks -> Nat] /\ sawReal' \in [Subtasks -> SUBSET Subtasks]
    BY <1>9, <1>4 DEF ReplaceLands, TypeOK
  <2> QED
    BY <1>9, <2>1, <2>2, <1>3 DEF ReplaceLands, setup, TypeOK
<1>10. ASSUME NEW s \in Subtasks, Repair(s) \/ RepairClaims(s) \/ RepairWithoutCli(s)
       PROVE  TypeOK'
  <2>1. CASE Repair(s)
    <3>1. code' \in [Subtasks -> {"stub", "real"}] /\ round' \in Nat \ {0}
      BY <2>1, <1>5 DEF Repair
    <3>2. passedAt' \in [Subtasks -> Nat] /\ sawReal' \in [Subtasks -> SUBSET Subtasks]
      BY <2>1, <3>1, <1>4 DEF Repair
    <3> QED
      BY <2>1, <3>1, <3>2, <1>3 DEF Repair, setup, TypeOK
  <2>2. CASE RepairClaims(s)
    BY <2>2, <1>3, <1>5 DEF RepairClaims, setup, TypeOK
  <2>3. CASE RepairWithoutCli(s)
    BY <2>3, <1>3 DEF RepairWithoutCli, setup, history, TypeOK
  <2> QED
    BY <1>10, <2>1, <2>2, <2>3
<1>11. CASE RecoveryRaises
  BY <1>11 DEF RecoveryRaises, setup, history, TypeOK, Phases
<1> IntegrationRatios \subseteq 0 .. Full
  BY DEF IntegrationRatios
<1>12. CASE Integrate
  BY <1>12 DEF Integrate, setup, history, TypeOK, Phases
<1>13. CASE RepairIntegration \/ RepairIntegrationByCli
  <2>1. CASE RepairIntegration
    BY <2>1, <1>5 DEF RepairIntegration, setup, TypeOK, Phases
  <2>2. CASE RepairIntegrationByCli
    <3>1. /\ code' \in [Subtasks -> {"stub", "real"}]
          /\ round' \in Nat \ {0} /\ ratio' \in 0 .. Full
      <4>1. CASE conf.cli
        BY <2>2, <4>1, <1>5 DEF RepairIntegrationByCli
      <4>2. CASE ~conf.cli
        BY <2>2, <4>2 DEF RepairIntegrationByCli, TypeOK
      <4> QED
        BY <4>1, <4>2
    <3> QED
      BY <2>2, <3>1 DEF RepairIntegrationByCli, setup, TypeOK, Phases
  <2> QED
    BY <1>13, <2>1, <2>2
<1>14. CASE Score
  <2>1. score' \in [Subtasks -> 0 .. 2 * Full]
    BY <1>14 DEF Score, TypeOK
  <2> QED
    BY <1>14, <2>1 DEF Score, setup, history, TypeOK, Phases
<1>15. CASE UNCHANGED vars
  BY <1>15 DEF vars, setup, history, TypeOK
<1> QED
  BY <1>1, <1>2, <1>6, <1>7, <1>8, <1>9, <1>10, <1>11, <1>12, <1>13, <1>14, <1>15
     DEF Next, Visit

\* Every variable of the merge keeps its type.
THEOREM MergeTypeCorrect == Spec => []TypeOK
<1>1. Init => TypeOK
  BY InitType
<1>2. TypeOK /\ [Next]_vars => TypeOK'
  BY TypeStep
<1> QED
  BY <1>1, <1>2, PTL DEF Spec

-----------------------------------------------------------------------------
(* The order of the tiers                                                  *)

\* If nobody who is left is ready, everybody who is left depends on someone
\* who is left: the fallback of compute_tiers takes only what is Cyclic.
LEMMA FallbackIsCyclic ==
    ASSUME TypeOK, Ready = {}
    PROVE  \A s \in Remaining : Cyclic(s)
<1>1. \A t \in Remaining : deps[t] \cap Remaining # {}
  BY DEF TypeOK, Ready, Remaining, Assigned
<1>2. Remaining \in SUBSET Subtasks
  BY DEF Remaining
<1> QED
  BY <1>1, <1>2 DEF Cyclic

\* A step of the merge either forms a tier or leaves the tiers alone.
LEMMA OnlyFormTier ==
    ASSUME [Next]_vars
    PROVE  FormTier \/ UNCHANGED <<deps, tiers, tierOf>>
BY DEF Next, Visit, ApplyPatch, TestPasses, TestFails, GiveUpOn, ReplaceComesToNothing,
       ReplacementRefused, ReplaceLands, Repair, RepairClaims, RepairWithoutCli,
       RecoveryRaises, Integrate, RepairIntegration, RepairIntegrationByCli, Score,
       setup, vars

\* Only forming a tier changes the tiers, and it keeps them in order.
LEMMA TiersStep == TypeOK /\ TiersFollowDeps /\ [Next]_vars => TiersFollowDeps'
<1> SUFFICES ASSUME TypeOK, TiersFollowDeps, [Next]_vars
             PROVE  TiersFollowDeps'
    OBVIOUS
<1>1. CASE FormTier
  <2>1. deps' = deps
    BY <1>1 DEF FormTier, setup
  <2> SUFFICES ASSUME NEW s \in Subtasks, tierOf'[s] > 0, ~Cyclic(s),
                      NEW d \in deps[s]
               PROVE  tierOf'[d] > 0 /\ tierOf'[d] < tierOf'[s]
    BY <2>1 DEF TiersFollowDeps, Assigned, Cyclic
  <2>2. d \in Subtasks /\ tiers \in Nat /\ tierOf \in [Subtasks -> 0 .. tiers]
    BY DEF TypeOK
  <2>3. \A t \in Subtasks : tierOf'[t] = IF t \in NextTier THEN tiers + 1 ELSE tierOf[t]
    BY <1>1 DEF FormTier
  <2>4. NextTier \subseteq Remaining
    BY DEF NextTier, Ready
  <2>5. CASE s \in NextTier
    <3>1. Ready # {} /\ s \in Ready
      BY <2>5, <2>4, FallbackIsCyclic DEF NextTier
    <3>2. tierOf[d] > 0 /\ d \notin NextTier
      BY <3>1, <2>4 DEF Ready, Assigned, Remaining
    <3> QED
      BY <3>2, <2>2, <2>3, <2>5
  <2>6. CASE s \notin NextTier
    <3>1. s \in Assigned
      BY <2>6, <2>3 DEF Assigned
    <3>2. tierOf[d] > 0 /\ tierOf[d] < tierOf[s]
      BY <3>1 DEF TiersFollowDeps
    <3>3. d \notin NextTier
      BY <3>2, <2>2, <2>4 DEF Remaining, Assigned
    <3> QED
      BY <3>2, <3>3, <2>2, <2>3, <2>6
  <2> QED
    BY <2>5, <2>6
<1>2. CASE UNCHANGED <<deps, tiers, tierOf>>
  BY <1>2 DEF TiersFollowDeps, Assigned, Cyclic
<1> QED
  BY <1>1, <1>2, OnlyFormTier

\* compute_tiers never lets a subtask land before something it depends on,
\* unless a cycle is behind it: for every set of subtasks and every graph.
THEOREM TiersFollowDepsHolds == Spec => []TiersFollowDeps
<1>1. Init => TiersFollowDeps
  BY DEF Init, TiersFollowDeps, Assigned
<1>2. TypeOK /\ TiersFollowDeps /\ [Next]_vars => TiersFollowDeps'
  BY TiersStep
<1> QED
  BY <1>1, <1>2, MergeTypeCorrect, PTL DEF Spec

-----------------------------------------------------------------------------
(* Credit and tests                                                        *)

\* A subtask has no verdict before its turn, a verdict of the claude_code
\* backend rests on tests that passed, and only the last step gives scores.
Judged ==
    /\ conf.backend = "claude_code" =>
          \A s \in Subtasks : verdict[s] = "passed" => passedAt[s] # 0
    /\ \A s \in Subtasks : passedAt[s] # 0 => verdict[s] = "passed"
    /\ \A s \in Remaining : verdict[s] = "none"
    /\ tier \cap Remaining = {}
    /\ pc = "apply" => \A s \in tier : verdict[s] = "none"
    /\ pc \in {"test", "replace", "repair"} => \A s \in todo : verdict[s] = "none"
    /\ pc # "done" => Credited = {}
    /\ \A s \in Credited : verdict[s] = "passed"

\* Nothing is judged at first.
LEMMA InitJudged == Init => Judged
BY DEF Init, Judged, Credited, Remaining

\* A visit of s that ends with a verdict, in the phases where s has none yet.
LEMMA SettleJudged ==
    ASSUME TypeOK, Judged, NEW s \in Subtasks, First(s),
           pc \in {"test", "replace", "repair"},
           NEW v \in {"passed", "failed"}, Settle(s, v),
           UNCHANGED <<conf, tierOf, tier, score>>,
           \A t \in Subtasks \ {s} : passedAt'[t] = passedAt[t],
           conf.backend = "claude_code" /\ v = "passed" => passedAt'[s] # 0,
           v = "failed" => passedAt'[s] = passedAt[s]
    PROVE  Judged'
<1>1. /\ s \in tier /\ s \in todo /\ todo \subseteq tier
      /\ Remaining' = Remaining /\ s \notin Remaining /\ Credited' = Credited
      /\ verdict[s] = "none"
  BY FirstIsSubtask DEF TypeOK, Judged, Remaining, Assigned, Credited
<1>2. /\ \A t \in Subtasks : verdict'[t] = IF t = s THEN v ELSE verdict[t]
      /\ todo' = todo \ {s}
      /\ pc' \in {"tier", "test"}
  BY DEF Settle, TypeOK
<1>3. Credited = {}
  BY DEF Judged
<1>4. conf'.backend = "claude_code" =>
        \A t \in Subtasks : verdict'[t] = "passed" => passedAt'[t] # 0
  BY <1>2 DEF Judged
<1>7. \A t \in Subtasks : passedAt'[t] # 0 => verdict'[t] = "passed"
  BY <1>1, <1>2 DEF Judged
<1>5. \A t \in Remaining' : verdict'[t] = "none"
  BY <1>1, <1>2 DEF Judged, Remaining
<1>6. \A t \in todo' : verdict'[t] = "none"
  BY <1>1, <1>2 DEF Judged, TypeOK
<1> QED
  BY <1>1, <1>2, <1>3, <1>4, <1>5, <1>6, <1>7 DEF Judged

\* Running the tests of s, whatever they show, touches no other verdict.
LEMMA TestingIsLocal ==
    ASSUME TypeOK, NEW s \in Subtasks, NEW tree, NEW when,
           TestsPass(s, tree, when) \/ TestsFail(s)
    PROVE  /\ \A t \in Subtasks \ {s} : passedAt'[t] = passedAt[t]
           /\ TestsPass(s, tree, when) => passedAt'[s] = when
           /\ TestsFail(s) => passedAt' = passedAt
BY DEF TestsPass, TestsFail, TypeOK

\* Every step keeps the verdicts judged: one case per action.
LEMMA JudgedStep == TypeOK /\ Judged /\ [Next]_vars => Judged'
<1> SUFFICES ASSUME TypeOK, Judged, [Next]_vars
             PROVE  Judged'
    OBVIOUS
<1>1. CASE FormTier
  <2>1. /\ \A t \in Subtasks : tierOf'[t] = IF t \in NextTier THEN tiers + 1 ELSE tierOf[t]
        /\ tier' = NextTier /\ todo' = NextTier /\ pc' = "apply"
        /\ UNCHANGED <<conf, verdict, passedAt, score>>
    BY <1>1 DEF FormTier, setup, history
  <2>2. NextTier \subseteq Remaining /\ tiers \in Nat
    BY DEF NextTier, Ready, TypeOK
  <2>3. Remaining' \subseteq Remaining /\ tier' \cap Remaining' = {}
    BY <2>1, <2>2 DEF Remaining, Assigned, TypeOK
  <2>4. Credited' = {}
    BY <1>1, <2>1 DEF FormTier, Judged, Credited
  <2> QED
    BY <2>1, <2>2, <2>3, <2>4 DEF Judged
<1>2. ASSUME NEW s \in Subtasks, ApplyPatch(s)
      PROVE  Judged'
  <2>1. /\ pc = "apply" /\ pc' \in {"apply", "test"}
        /\ todo' \subseteq tier
        /\ UNCHANGED <<conf, tierOf, tier, verdict, score, passedAt>>
    BY <1>2 DEF ApplyPatch, TypeOK, setup, history
  <2>2. Remaining' = Remaining /\ Credited' = Credited
    BY <2>1 DEF Remaining, Assigned, Credited
  <2> QED
    BY <2>1, <2>2 DEF Judged
<1>3. ASSUME NEW s \in Subtasks, TestPasses(s) \/ GiveUpOn(s)
      PROVE  Judged'
  <2>1. CASE TestPasses(s)
    <3>1. TestsPass(s, code, round) /\ round # 0
      BY <2>1 DEF TestPasses, TypeOK
    <3> QED
      BY <2>1, <3>1, SettleJudged, TestingIsLocal DEF TestPasses, setup
  <2>2. CASE GiveUpOn(s)
    BY <2>2, SettleJudged DEF GiveUpOn, setup, history
  <2> QED
    BY <1>3, <2>1, <2>2
<1>4. ASSUME NEW s \in Subtasks, TestFails(s)
      PROVE  Judged'
  <2>1. /\ pc = "test" /\ pc' \in {"replace", "repair"}
        /\ UNCHANGED <<conf, tierOf, tier, todo, verdict, score, passedAt>>
    BY <1>4 DEF TestFails, TestsFail, setup
  <2>2. Remaining' = Remaining /\ Credited' = Credited
    BY <2>1 DEF Remaining, Assigned, Credited
  <2> QED
    BY <2>1, <2>2 DEF Judged
<1>5. ASSUME NEW s \in Subtasks, ReplaceComesToNothing(s) \/ ReplacementRefused(s)
      PROVE  Judged'
  <2>1. /\ pc = "replace" /\ pc' = "repair"
        /\ UNCHANGED <<conf, tierOf, tier, todo, verdict, score, passedAt>>
    BY <1>5 DEF ReplaceComesToNothing, ReplacementRefused, setup, history
  <2>2. Remaining' = Remaining /\ Credited' = Credited
    BY <2>1 DEF Remaining, Assigned, Credited
  <2> QED
    BY <2>1, <2>2 DEF Judged
<1>6. ASSUME NEW s \in Subtasks, ReplaceLands(s)
      PROVE  Judged'
  <2>1. round # 0
    BY DEF TypeOK
  <2>2. CASE TestsPass(s, code', round) /\ Settle(s, "passed")
    BY <1>6, <2>1, <2>2, SettleJudged, TestingIsLocal DEF ReplaceLands, setup
  <2>3. CASE TestsFail(s) /\ Settle(s, "failed")
    BY <1>6, <2>3, SettleJudged, TestingIsLocal DEF ReplaceLands, setup
  <2> QED
    BY <1>6, <2>2, <2>3 DEF ReplaceLands
<1>7. ASSUME NEW s \in Subtasks, Repair(s)
      PROVE  Judged'
  <2>1. round' # 0
    BY <1>7 DEF Repair, AgentEdits, TypeOK
  <2>2. CASE TestsPass(s, code', round') /\ Settle(s, "passed")
    BY <1>7, <2>1, <2>2, SettleJudged, TestingIsLocal DEF Repair, setup
  <2>3. CASE TestsFail(s) /\ Settle(s, "failed")
    BY <1>7, <2>3, SettleJudged, TestingIsLocal DEF Repair, setup
  <2> QED
    BY <1>7, <2>2, <2>3 DEF Repair
<1>8. ASSUME NEW s \in Subtasks, RepairClaims(s)
      PROVE  Judged'
  <2>1. conf.backend # "claude_code"
    BY <1>8 DEF RepairClaims
  <2> QED
    BY <1>8, <2>1, SettleJudged DEF RepairClaims, setup
<1>9. CASE RecoveryRaises \/ Integrate \/ RepairIntegration \/ RepairIntegrationByCli
  <2>1. /\ pc # "done" /\ pc' \in {"raised", "score", "integration_repair"}
        /\ UNCHANGED <<conf, tierOf, tier, verdict, score, passedAt>>
    BY <1>9 DEF RecoveryRaises, Integrate, RepairIntegration, RepairIntegrationByCli, setup,
                history
  <2>2. Remaining' = Remaining /\ Credited' = Credited
    BY <2>1 DEF Remaining, Assigned, Credited
  <2> QED
    BY <2>1, <2>2 DEF Judged
<1>12. ASSUME NEW s \in Subtasks, RepairWithoutCli(s)
       PROVE  Judged'
  BY <1>12, SettleJudged DEF RepairWithoutCli, setup, history
<1>10. CASE Score
  <2>1. /\ pc' = "done" /\ UNCHANGED <<conf, tierOf, tier, verdict, passedAt>>
        /\ \A s \in Subtasks : verdict[s] # "passed" => score'[s] = 0
    BY <1>10 DEF Score, setup, history
  <2>2. Remaining' = Remaining
    BY <2>1 DEF Remaining, Assigned
  <2>3. \A s \in Credited' : verdict'[s] = "passed"
    BY <2>1 DEF Credited
  <2> QED
    BY <2>1, <2>2, <2>3 DEF Judged
<1>11. CASE UNCHANGED vars
  BY <1>11 DEF vars, setup, history, Judged, Remaining, Assigned, Credited
<1> QED
  BY <1>1, <1>2, <1>3, <1>4, <1>5, <1>6, <1>7, <1>8, <1>9, <1>10, <1>11, <1>12
     DEF Next, Visit

\* With the claude_code backend nothing is credited whose own tests did not
\* pass, whatever was repaired, replaced or dropped on the way.
THEOREM CreditedTestsPassedHolds == Spec => []CreditedTestsPassed
<1>1. Init => Judged
  BY InitJudged
<1>2. TypeOK /\ Judged /\ [Next]_vars => Judged'
  BY JudgedStep
<1>3. Judged => CreditedTestsPassed
  BY DEF Judged, CreditedTestsPassed, Credited
<1> QED
  BY <1>1, <1>2, <1>3, MergeTypeCorrect, PTL DEF Spec

-----------------------------------------------------------------------------
(* Credit and the tree                                                     *)

\* While no agent has had the tree since a patch landed, only a replacement takes the
\* subtask's code away, and only until its own verdict: so a subtask that passes its
\* tests has beside it the code of whatever landed in that round and will be credited.
Landed ==
    /\ \A s \in Subtasks : passedAt[s] <= round /\ landedAt[s] <= round
    /\ \A s \in Remaining : landedAt[s] = 0
    /\ \A s \in Assigned \ tier, d \in tier : tierOf[s] < tierOf[d]
    /\ \A s \in Subtasks : landedAt[s] = round =>
          \/ code[s] = "real"
          \/ verdict[s] = "failed"
          \/ pc = "repair" /\ First(s)
          \/ pc = "raised"
    /\ \A s, d \in Subtasks :
          /\ passedAt[s] # 0 /\ landedAt[d] = passedAt[s]
          /\ tierOf[d] <= tierOf[s] /\ verdict[d] # "failed"
          => d \in sawReal[s]

\* Nothing has landed at first.
LEMMA InitLanded == Init => Landed
BY DEF Init, Landed, Assigned, Remaining

\* A verdict on s in the round the tree is in: the tests ran on a tree that differs from
\* the one before only in the files of s, or did not run.
LEMMA SettleLanded ==
    ASSUME TypeOK, Judged, Landed, NEW s \in Subtasks, First(s),
           pc \in {"test", "replace", "repair"},
           NEW v \in {"passed", "failed"}, Settle(s, v),
           UNCHANGED <<tierOf, tier, round, landedAt>>,
           \A t \in Subtasks \ {s} : code'[t] = code[t],
           v = "passed" /\ landedAt[s] = round => code'[s] = "real",
           \/ TestsFail(s)
           \/ v = "passed" /\ TestsPass(s, code', round)
    PROVE  Landed'
<1>1. /\ s \in todo /\ verdict[s] = "none" /\ passedAt[s] = 0
      /\ Assigned' = Assigned /\ Remaining' = Remaining
  BY FirstIsSubtask DEF Judged, Assigned, Remaining, TypeOK
<1>2. /\ \A t \in Subtasks : verdict'[t] = IF t = s THEN v ELSE verdict[t]
      /\ pc' \in {"tier", "test"}
  BY DEF Settle, TypeOK
<1>3. \A t \in Subtasks \ {s} : passedAt'[t] = passedAt[t] /\ sawReal'[t] = sawReal[t]
  BY DEF TestsFail, TestsPass, TypeOK
<1>4. \/ passedAt'[s] = 0
      \/ /\ passedAt'[s] = round
         /\ sawReal'[s] = {d \in Subtasks : landedAt[d] = round /\ code'[d] = "real"}
  BY <1>1 DEF TestsFail, TestsPass, TypeOK
<1>5. \A t \in Subtasks : passedAt'[t] <= round' /\ landedAt'[t] <= round'
  BY <1>3, <1>4 DEF Landed, TypeOK
<1>6. \A t \in Subtasks : landedAt'[t] = round' => code'[t] = "real" \/ verdict'[t] = "failed"
  <2>1. \A t \in Subtasks \ {s} : ~First(t)
    BY <1>1, MergeAssumption DEF First, TypeOK
  <2>2. pc # "raised"
    OBVIOUS
  <2> QED
    BY <1>2, <2>1, <2>2 DEF Landed
<1>7. ASSUME NEW a \in Subtasks, NEW d \in Subtasks,
             passedAt'[a] # 0, landedAt'[d] = passedAt'[a], tierOf'[d] <= tierOf'[a],
             verdict'[d] # "failed"
      PROVE  d \in sawReal'[a]
  <2>1. CASE a = s
    BY <1>4, <1>6, <1>7, <2>1
  <2>2. CASE a # s
    <3>1. verdict[d] # "failed"
      BY <1>1, <1>2, <1>7
    <3> QED
      BY <1>3, <1>7, <2>2, <3>1 DEF Landed
  <2> QED
    BY <2>1, <2>2
<1> QED
  BY <1>1, <1>5, <1>6, <1>7 DEF Landed

\* What an agent did to the tree ends the round, whatever it did: nothing landed in the
\* new one, and a verdict reached in it looks at nothing that did.
LEMMA AgentLanded ==
    ASSUME TypeOK, Landed, AgentEdits,
           UNCHANGED <<tierOf, tier, landedAt>>,
           \A d \in Subtasks : verdict[d] = "failed" => verdict'[d] = "failed",
           NEW s,
           \A t \in Subtasks \ {s} : passedAt'[t] = passedAt[t] /\ sawReal'[t] = sawReal[t],
           s \in Subtasks => \/ passedAt'[s] = round'
                             \/ passedAt'[s] = passedAt[s] /\ sawReal'[s] = sawReal[s]
    PROVE  Landed'
<1>1. /\ round \in Nat /\ round' = round + 1
      /\ \A t \in Subtasks : landedAt[t] \in Nat /\ passedAt[t] \in Nat
      /\ \A t \in Subtasks : landedAt[t] <= round /\ passedAt[t] <= round
  BY DEF AgentEdits, Landed, TypeOK
<1>2. \A t \in Subtasks : passedAt'[t] = round' \/ passedAt'[t] = passedAt[t]
  OBVIOUS
<1>3. \A t \in Subtasks : /\ landedAt'[t] # round'
                          /\ passedAt'[t] <= round' /\ landedAt'[t] <= round'
  BY <1>1, <1>2
<1>4. Assigned' = Assigned /\ Remaining' = Remaining
  BY DEF Assigned, Remaining
<1>5. ASSUME NEW a \in Subtasks, NEW d \in Subtasks,
             passedAt'[a] # 0, landedAt'[d] = passedAt'[a], tierOf'[d] <= tierOf'[a],
             verdict'[d] # "failed"
      PROVE  d \in sawReal'[a]
  <2>1. passedAt'[a] # round'
    BY <1>3, <1>5
  <2>2. passedAt'[a] = passedAt[a] /\ sawReal'[a] = sawReal[a]
    BY <2>1
  <2> QED
    BY <1>5, <2>2 DEF Landed
<1> QED
  BY <1>3, <1>4, <1>5 DEF Landed

\* A step that leaves the verdicts, the tree and its history alone and forms no tier.
LEMMA LandedKept ==
    ASSUME TypeOK, Landed,
           UNCHANGED <<tierOf, tier, verdict, code, round, landedAt, passedAt, sawReal>>,
           pc = "repair" => pc' = "raised",
           pc = "raised" => pc' = "raised"
    PROVE  Landed'
<1>1. Assigned' = Assigned /\ Remaining' = Remaining
  BY DEF Assigned, Remaining
<1> QED
  BY <1>1 DEF Landed

\* Every step of the merge keeps the code that tests rest on.
LEMMA LandedStep == TypeOK /\ Judged /\ Landed /\ [Next]_vars => Landed'
<1> SUFFICES ASSUME TypeOK, Judged, Landed, [Next]_vars
             PROVE  Landed'
    OBVIOUS
<1>1. CASE FormTier
  <2>1. /\ \A t \in Subtasks : tierOf'[t] = IF t \in NextTier THEN tiers + 1 ELSE tierOf[t]
        /\ tier' = NextTier /\ pc = "tier" /\ pc' = "apply"
        /\ UNCHANGED <<verdict, code, round, landedAt, passedAt, sawReal>>
    BY <1>1 DEF FormTier, setup, history
  <2>2. NextTier \subseteq Remaining /\ NextTier \subseteq Subtasks
    BY TierIsSubset DEF NextTier, Ready
  <2>3. tiers \in Nat /\ \A t \in Subtasks : tierOf[t] \in 0 .. tiers
    BY DEF TypeOK
  <2>4. Assigned' \ tier' \subseteq Assigned /\ Remaining' \subseteq Remaining
    BY <2>1, <2>2, <2>3 DEF Assigned, Remaining
  <2>5. \A s \in Assigned' \ tier', d \in tier' : tierOf'[s] < tierOf'[d]
    BY <2>1, <2>2, <2>3, <2>4 DEF Assigned
  <2>6. ASSUME NEW a \in Subtasks, NEW d \in Subtasks,
               passedAt[a] # 0, landedAt[d] = passedAt[a], tierOf'[d] <= tierOf'[a]
        PROVE  tierOf[d] <= tierOf[a]
    <3>1. d \notin Remaining /\ a \notin Remaining
      BY <2>6 DEF Landed, Judged
    <3> QED
      BY <2>1, <2>2, <2>6, <3>1
  <2>7. \A a, d \in Subtasks :
          /\ passedAt'[a] # 0 /\ landedAt'[d] = passedAt'[a]
          /\ tierOf'[d] <= tierOf'[a] /\ verdict'[d] # "failed"
          => d \in sawReal'[a]
    BY <2>1, <2>6 DEF Landed
  <2>8. \A s \in Subtasks :
           landedAt'[s] = round' => code'[s] = "real" \/ verdict'[s] = "failed"
    BY <2>1 DEF Landed
  <2>9. \A s \in Subtasks : passedAt'[s] <= round' /\ landedAt'[s] <= round'
    BY <2>1 DEF Landed
  <2>10. \A s \in Remaining' : landedAt'[s] = 0
    BY <2>1, <2>4 DEF Landed
  <2> QED
    BY <2>5, <2>7, <2>8, <2>9, <2>10 DEF Landed
<1>2. ASSUME NEW s \in Subtasks, ApplyPatch(s)
      PROVE  Landed'
  <2>1. /\ s \in tier /\ s \in Assigned
        /\ pc = "apply" /\ pc' \in {"apply", "test"}
        /\ \A t \in Subtasks : code'[t] = IF t = s /\ result[s] = "patch" THEN "real"
                                          ELSE code[t]
        /\ \A t \in Subtasks : landedAt'[t] = IF t = s /\ result[s] = "patch" THEN round
                                              ELSE landedAt[t]
        /\ UNCHANGED <<tierOf, tier, verdict, round, passedAt, sawReal>>
    BY <1>2, FirstIsSubtask DEF ApplyPatch, TypeOK, Judged, Remaining, setup
  <2>2. Assigned' = Assigned /\ Remaining' = Remaining /\ s \notin Remaining
    BY <2>1 DEF Assigned, Remaining
  <2>3. ASSUME NEW a \in Subtasks, NEW d \in Subtasks,
               passedAt[a] # 0, landedAt'[d] = passedAt[a], tierOf[d] <= tierOf[a],
               verdict[d] # "failed"
        PROVE  d \in sawReal[a]
    <3>1. a \in Assigned \ tier
      BY <2>1, <2>3 DEF Judged, Remaining
    <3>2. tierOf[a] < tierOf[s] /\ tierOf[a] \in Nat /\ tierOf[s] \in Nat
      BY <2>1, <3>1 DEF Landed, TypeOK
    <3>3. d # s
      BY <2>3, <3>2
    <3> QED
      BY <2>1, <2>3, <3>3 DEF Landed
  <2>4. \A t \in Subtasks :
           landedAt'[t] = round' => code'[t] = "real" \/ verdict'[t] = "failed"
    BY <2>1 DEF Landed
  <2>5. \A t \in Subtasks : passedAt'[t] <= round' /\ landedAt'[t] <= round'
    BY <2>1 DEF Landed, TypeOK
  <2>6. \A t \in Remaining' : landedAt'[t] = 0
    BY <2>1, <2>2 DEF Landed, Remaining
  <2>7. \A a \in Assigned' \ tier', d \in tier' : tierOf'[a] < tierOf'[d]
    BY <2>1, <2>2 DEF Landed
  <2>8. \A a, d \in Subtasks :
          /\ passedAt'[a] # 0 /\ landedAt'[d] = passedAt'[a]
          /\ tierOf'[d] <= tierOf'[a] /\ verdict'[d] # "failed"
          => d \in sawReal'[a]
    BY <2>1, <2>3
  <2> QED
    BY <2>4, <2>5, <2>6, <2>7, <2>8 DEF Landed
<1>3. ASSUME NEW s \in Subtasks, TestPasses(s) \/ GiveUpOn(s)
      PROVE  Landed'
  <2>1. CASE TestPasses(s)
    <3>1. /\ First(s) /\ Settle(s, "passed") /\ TestsPass(s, code', round)
          /\ UNCHANGED <<tierOf, tier, round, landedAt, code>> /\ pc = "test"
      BY <2>1 DEF TestPasses, TestsPass
    <3>2. landedAt[s] = round => code'[s] = "real"
      BY <3>1, FirstIsSubtask DEF Landed, Judged
    <3> QED
      BY <3>1, <3>2, SettleLanded
  <2>2. CASE GiveUpOn(s)
    BY <2>2, SettleLanded DEF GiveUpOn, TestsFail, history
  <2> QED
    BY <1>3, <2>1, <2>2
<1>4. ASSUME NEW s \in Subtasks, TestFails(s) \/ ReplaceComesToNothing(s)
      PROVE  Landed'
  BY <1>4, LandedKept DEF TestFails, TestsFail, ReplaceComesToNothing, history
<1>12. CASE RecoveryRaises \/ Integrate
  BY <1>12, LandedKept DEF RecoveryRaises, Integrate, history
<1>5. ASSUME NEW s \in Subtasks, ReplacementRefused(s)
      PROVE  Landed'
  <2>1. /\ pc = "replace" /\ pc' = "repair" /\ First(s)'
        /\ UNCHANGED <<tierOf, tier, verdict, round, landedAt, passedAt, sawReal>>
        /\ \A t \in Subtasks : t # s => code'[t] = code[t]
    BY <1>5 DEF ReplacementRefused, Reverted, First, setup, history, TypeOK
  <2>2. Assigned' = Assigned /\ Remaining' = Remaining
    BY <2>1 DEF Assigned, Remaining
  <2>3. \A t \in Subtasks : landedAt'[t] = round' =>
            code'[t] = "real" \/ verdict'[t] = "failed" \/ (pc' = "repair" /\ First(t)')
    BY <2>1 DEF Landed
  <2> QED
    BY <2>1, <2>2, <2>3 DEF Landed
<1>6. ASSUME NEW s \in Subtasks, ReplaceLands(s)
      PROVE  Landed'
  <2>1. /\ First(s) /\ UNCHANGED <<tierOf, tier, round, landedAt>> /\ pc = "replace"
        /\ code'[s] = "real" /\ \A t \in Subtasks \ {s} : code'[t] = code[t]
    BY <1>6 DEF ReplaceLands, Reverted, setup, TypeOK
  <2> QED
    BY <1>6, <2>1, SettleLanded DEF ReplaceLands
<1>7. ASSUME NEW s \in Subtasks, Repair(s) \/ RepairClaims(s)
      PROVE  Landed'
  <2>1. /\ AgentEdits /\ UNCHANGED <<tierOf, tier, landedAt>>
        /\ First(s) /\ pc = "repair" /\ verdict[s] = "none"
    BY <1>7, FirstIsSubtask DEF Repair, RepairClaims, Judged
  <2>2. \A d \in Subtasks : verdict[d] = "failed" => verdict'[d] = "failed"
    BY <1>7, <2>1 DEF Repair, RepairClaims, Settle, TypeOK
  <2>3. \A t \in Subtasks \ {s} : passedAt'[t] = passedAt[t] /\ sawReal'[t] = sawReal[t]
    BY <1>7 DEF Repair, RepairClaims, TestsPass, TestsFail, TypeOK
  <2>4. passedAt'[s] = round' \/ (passedAt'[s] = passedAt[s] /\ sawReal'[s] = sawReal[s])
    BY <1>7 DEF Repair, RepairClaims, TestsPass, TestsFail, TypeOK
  <2> QED
    BY <2>1, <2>2, <2>3, <2>4, AgentLanded
<1>8. ASSUME NEW s \in Subtasks, RepairWithoutCli(s)
      PROVE  Landed'
  BY <1>8, SettleLanded DEF RepairWithoutCli, TestsFail, history
<1>9. CASE RepairIntegration \/ RepairIntegrationByCli
  <2>1. CASE AgentEdits
    <3>1. UNCHANGED <<tierOf, tier, verdict, landedAt, passedAt, sawReal>>
      BY <1>9 DEF RepairIntegration, RepairIntegrationByCli
    <3> QED
      BY <2>1, <3>1, AgentLanded
  <2>2. CASE ~AgentEdits
    <3>1. /\ UNCHANGED <<tierOf, tier, verdict, code, round, landedAt, passedAt, sawReal>>
          /\ pc = "integration_repair"
      BY <1>9, <2>2 DEF RepairIntegration, RepairIntegrationByCli
    <3> QED
      BY <3>1, LandedKept
  <2> QED
    BY <2>1, <2>2
<1>10. CASE Score
  <2>1. /\ UNCHANGED <<tierOf, tier, verdict, code, round, landedAt, passedAt, sawReal>>
        /\ pc = "score"
    BY <1>10 DEF Score, history
  <2> QED
    BY <2>1, LandedKept
<1>11. CASE UNCHANGED vars
  <2>1. UNCHANGED <<pc, tierOf, tier, todo, verdict, code, round, landedAt, passedAt, sawReal>>
    BY <1>11 DEF vars, history
  <2>2. Assigned' = Assigned /\ Remaining' = Remaining
    BY <2>1 DEF Assigned, Remaining
  <2>3. \A s \in Subtasks : First(s)' <=> First(s)
    BY <2>1 DEF First
  <2>4. \A s \in Subtasks : landedAt'[s] = round' =>
           \/ code'[s] = "real"
           \/ verdict'[s] = "failed"
           \/ pc' = "repair" /\ First(s)'
           \/ pc' = "raised"
    BY <2>1, <2>3 DEF Landed
  <2>5. \A a, d \in Subtasks :
          /\ passedAt'[a] # 0 /\ landedAt'[d] = passedAt'[a]
          /\ tierOf'[d] <= tierOf'[a] /\ verdict'[d] # "failed"
          => d \in sawReal'[a]
    BY <2>1 DEF Landed
  <2>6. /\ \A s \in Subtasks : passedAt'[s] <= round' /\ landedAt'[s] <= round'
        /\ \A s \in Remaining' : landedAt'[s] = 0
        /\ \A s \in Assigned' \ tier', d \in tier' : tierOf'[s] < tierOf'[d]
    BY <2>1, <2>2 DEF Landed
  <2> QED
    BY <2>4, <2>5, <2>6 DEF Landed
<1> QED
  BY <1>1, <1>2, <1>3, <1>4, <1>5, <1>6, <1>7, <1>8, <1>9, <1>10, <1>11, <1>12
     DEF Next, Visit

\* The inductive invariant of the merge.
THEOREM MergeSafety == Spec => [](TypeOK /\ Judged /\ Landed)
<1>1. Init => TypeOK /\ Judged /\ Landed
  BY InitType, InitJudged, InitLanded
<1>2. TypeOK /\ Judged /\ Landed /\ [Next]_vars => TypeOK' /\ Judged' /\ Landed'
  BY TypeStep, JudgedStep, LandedStep
<1> QED
  BY <1>1, <1>2, PTL DEF Spec

\* Tests that passed against a stub earn nothing: what is credited for its tests passed
\* them beside the code of every credited subtask of its tier and of the tiers before
\* it that had landed since an agent last had the tree, whichever of them was dropped or
\* re-mined in between.  Agents may do to the tree what they like.
THEOREM TestedOnLandedPeersHolds == Spec => []TestedOnLandedPeers
<1>1. Judged /\ Landed => TestedOnLandedPeers
  <2> SUFFICES ASSUME Judged, Landed, NEW s \in Credited, NEW d \in Credited,
                      passedAt[s] # 0, landedAt[d] = passedAt[s], tierOf[d] <= tierOf[s]
               PROVE  d \in sawReal[s]
    BY DEF TestedOnLandedPeers
  <2>1. s \in Subtasks /\ d \in Subtasks /\ verdict[d] = "passed"
    BY DEF Judged, Credited
  <2> QED
    BY <2>1 DEF Landed
<1> QED
  BY <1>1, MergeSafety, PTL

\* No drop, replacement or re-mining, of itself or of others, takes credited code out of
\* the tree: only a repair agent that had the tree after the code landed can have.
THEOREM CreditedIsInTreeHolds == Spec => []CreditedIsInTree
<1>1. Judged /\ Landed => CreditedIsInTree
  <2> SUFFICES ASSUME Judged, Landed, NEW s \in Credited, landedAt[s] = round
               PROVE  code[s] = "real"
    BY DEF CreditedIsInTree
  <2>1. s \in Subtasks /\ verdict[s] = "passed" /\ pc = "done"
    BY DEF Judged, Credited
  <2> QED
    BY <2>1 DEF Landed
<1> QED
  BY <1>1, MergeSafety, PTL

================================================================================
