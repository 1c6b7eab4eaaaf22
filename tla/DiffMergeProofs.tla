---------------------------- MODULE DiffMergeProofs ----------------------------
(***************************************************************************)
(* Safety of the diff-mode merge for every set of subtasks and tests,      *)
(* every dependency graph, every kind of test runner and every holdback.   *)
(***************************************************************************)
EXTENDS DiffMerge, SequenceTheorems, WellFoundedInduction, TLAPS

\* Nothing is credited before the gate, and a subtask is judged once; only with a
\* repair agent is there a second judgement.
Judging ==
    /\ pc \in {"collect", "order", "apply", "restore", "reveal"} => additive = {}
    /\ pc \in {"gate", "repair"} => additive \cap todo = {}
    /\ pc = "repair" => conf.repair

\* No subtask lists a held-back test, and nothing edits a gate test once it is
\* restored.
Unaltered == ~conf.repair /\ Listed \cap conf.held = {}

\* Where that is so, the gates run the coordinator's text.
Restored ==
    /\ Unaltered /\ pc = "reveal" => \A g \in Listed : tests[g] = "canonical"
    /\ Unaltered /\ pc = "gate" => \A g \in Listed \cup conf.held : tests[g] = "canonical"

\* A subtask that passed the gate did so by its own tests.
Verdicts ==
    \A s \in additive :
        /\ GateOf[s] \subseteq passed[s]
        /\ Unaltered => GateOf[s] \cup conf.held \subseteq genuine[s]

\* The reports a run over the base, and then one over the merged tree, leaves behind.
BaseReports ==
    IF conf.runner = "junit" /\ run.base = "parsed" THEN truth.base \ Listed ELSE {}

MergedReports ==
    IF conf.runner = "junit" /\ run.merged = "parsed" THEN truth.merged \ Excluded
    ELSE BaseReports

\* What the merge believes of the two trees, in terms of what is true of them.
BaseSuite ==
    IF pc = "collect" THEN reports = {}
    ELSE /\ truth.base \cap conf.held = {}
         /\ MayRead(run.base)
         /\ failing.base = Collected(truth.base \ Listed, run.base, BaseReports)
         /\ pc \notin {"score", "done"} => reports = BaseReports

MergedSuite ==
    pc \in {"score", "done"} =>
        /\ MayRead(run.merged)
        /\ failing.merged = Collected(truth.merged \ Excluded, run.merged, MergedReports)

\* What has been earned, and what a regression cost.
Scores ==
    \A s \in Subtasks :
        IF pc # "done" \/ s \notin additive \/ patch[s] = "empty" THEN score[s] = 0
        ELSE score[s] = IF NewlyFailing = {} THEN 2 ELSE 1

\* The open calls of visit are a path in the dependency graph, and what a subtask in the
\* order needs comes before it, or has landed.
Sorted ==
    /\ pc \in {"collect", "order"} => todo = Subtasks
    /\ pc = "collect" => calls = <<>> /\ order = <<>>
    /\ \A i \in 1 .. Len(calls) - 1 : calls[i + 1] \in deps[calls[i]]
    /\ pc \in {"order", "apply"} =>
          \A i \in 1 .. Len(order) : \A d \in deps[order[i]] \cap todo :
              \E j \in 1 .. i - 1 : order[j] = d

IInv == Sorted /\ TypeOK /\ Judging /\ Restored /\ Verdicts /\ BaseSuite /\ MergedSuite /\ Scores

-----------------------------------------------------------------------------

\* Every initial state satisfies the inductive invariant.
LEMMA InitIInv == Init => IInv
  BY DiffMergeAssumption
  DEF Init, IInv, TypeOK, Judging, Restored, Verdicts, BaseSuite, MergedSuite, Scores,
      Sorted, Confs, Phases, Readings

\* What a run is read as are names of tests, or the suite.
LEMMA CollectedNames ==
  ASSUME NEW fails \in SUBSET Names, NEW reading, NEW written \in SUBSET Names
  PROVE  Collected(fails, reading, written) \in SUBSET (Names \cup {Suite})
  BY DEF Collected

\* The two runs keep the types of what is known of the suites.
LEMMA SuitesTyped ==
  ASSUME TypeOK, CollectBase \/ CollectMerged
  PROVE  /\ truth' \in [base : SUBSET Names, merged : SUBSET Names]
         /\ run' \in [base : Readings, merged : Readings]
         /\ failing' \in [base : SUBSET (Names \cup {Suite}),
                          merged : SUBSET (Names \cup {Suite})]
         /\ reports' \subseteq Names
<1>1. CASE CollectBase
  <2>1. PICK fails \in SUBSET (Names \ conf.held), reading \in Readings :
            /\ truth' = [truth EXCEPT !.base = fails]
            /\ run' = [run EXCEPT !.base = reading]
            /\ reports' = Written(fails \ Listed, reading)
            /\ failing' = [failing EXCEPT !.base = Collected(fails \ Listed, reading, reports')]
    BY <1>1 DEF CollectBase
  <2>2. reports' \in SUBSET Names
    BY <2>1 DEF Written, TypeOK
  <2>3. Collected(fails \ Listed, reading, reports') \in SUBSET (Names \cup {Suite})
    BY <2>2, CollectedNames
  <2> QED
    BY <2>1, <2>2, <2>3 DEF TypeOK
<1>2. CASE CollectMerged
  <2>1. PICK fails \in SUBSET Names, reading \in Readings :
            /\ truth' = [truth EXCEPT !.merged = fails]
            /\ run' = [run EXCEPT !.merged = reading]
            /\ reports' = Written(fails \ Excluded, reading)
            /\ failing' = [failing EXCEPT
                              !.merged = Collected(fails \ Excluded, reading, reports')]
    BY <1>2 DEF CollectMerged
  <2>2. reports' \in SUBSET Names
    BY <2>1 DEF Written, TypeOK
  <2>3. Collected(fails \ Excluded, reading, reports') \in SUBSET (Names \cup {Suite})
    BY <2>2, CollectedNames
  <2> QED
    BY <2>1, <2>2, <2>3 DEF TypeOK
<1> QED
  BY <1>1, <1>2

\* Edits leave a gate test canonical, edited or absent.
LEMMA TouchedTyped ==
  ASSUME TypeOK, tests' \in Touched \cup {tests}
  PROVE  tests' \in [Gates -> {"canonical", "edited", "absent"}]
  BY DEF Touched, TypeOK

\* The innermost call and the ones around it; the first of the order and the rest.
LEMMA Ends ==
  ASSUME NEW s \in Seq(Subtasks), s # <<>>
  PROVE  /\ Len(s) \in Nat /\ Len(s) >= 1 /\ Last(s) = s[Len(s)] /\ Last(s) \in Subtasks
         /\ Front(s) \in Seq(Subtasks) /\ Len(Front(s)) = Len(s) - 1
         /\ \A i \in 1 .. Len(s) - 1 : Front(s)[i] = s[i]
<1>1. Len(s) \in Nat /\ Len(s) >= 1
  BY EmptySeq
<1>2. Last(s) = s[Len(s)] /\ s[Len(s)] \in Subtasks
  BY <1>1, ElementOfSeq DEF Last
<1>3. \A i \in 1 .. Len(s) - 1 : s[i] \in Subtasks
  BY <1>1, ElementOfSeq
<1>4. /\ Front(s) \in Seq(Subtasks)
      /\ Len(Front(s)) = IF 1 <= Len(s) - 1 THEN Len(s) - 1 - 1 + 1 ELSE 0
      /\ \A i \in 1 .. Len(s) - 1 - 1 + 1 : Front(s)[i] = s[1 + i - 1]
  BY <1>1, <1>3, SubSeqProperties DEF Front
<1>5. Len(Front(s)) = Len(s) - 1
  <2>1. CASE Len(s) = 1
    BY <1>4, <2>1
  <2>2. CASE Len(s) # 1
    <3>1. 1 <= Len(s) - 1
      <4> DEFINE n == Len(s)
      <4>1. n \in Nat /\ n >= 1 /\ n # 1
        BY <1>1, <2>2
      <4> HIDE DEF n
      <4>2. 1 <= n - 1
        BY ONLY <4>1
      <4> QED
        BY <4>2 DEF n
    <3>2. Len(s) - 1 - 1 + 1 = Len(s) - 1
      BY <1>1
    <3> QED
      BY <1>4, <3>1, <3>2
  <2> QED
    BY <2>1, <2>2
<1>6. \A i \in 1 .. Len(s) - 1 : i \in 1 .. Len(s) - 1 - 1 + 1 /\ 1 + i - 1 = i
  BY <1>1
<1> QED
  BY <1>1, <1>2, <1>4, <1>5, <1>6

\* What the innermost call still wants to visit are subtasks.
LEMMA WantedTyped ==
  ASSUME TypeOK, calls # <<>>
  PROVE  /\ Wanted \subseteq Subtasks /\ Wanted \subseteq deps[calls[Len(calls)]]
         /\ Len(calls) \in Nat /\ Len(calls) >= 1
<1>1. deps \in [Subtasks -> SUBSET Subtasks]
  BY DiffMergeAssumption DEF TypeOK
<1>2. calls \in Seq(Subtasks)
  BY DEF TypeOK
<1>3. Last(calls) \in Subtasks /\ Last(calls) = calls[Len(calls)]
      /\ Len(calls) \in Nat /\ Len(calls) >= 1
  BY <1>2, Ends
<1> QED
  BY <1>1, <1>3 DEF Wanted, Unvisited

\* A nonempty set of subtasks has a first one.
LEMMA MinOf ==
  ASSUME NEW S \in SUBSET Subtasks, S # {}
  PROVE  Min(S) \in S
<1>1. S \in SUBSET Nat
  BY DiffMergeAssumption
<1>2. \E x \in S : \A y \in S : x <= y
  <2> DEFINE R == OpToRel(<, Nat)
  <2>1. IsWellFoundedOn(R, Nat)
    BY NatLessThanWellFounded
  <2> HIDE DEF R
  <2>2. PICK x \in S : \A y \in S : ~(<<y, x>> \in R)
    BY <1>1, <2>1, WFMin
  <2>3. \A y \in S : ~(y < x)
    BY <1>1, <2>2 DEF R, OpToRel
  <2> QED
    BY <1>1, <2>3
<1> QED
  BY <1>2 DEF Min

\* Every step preserves the type invariant.
LEMMA TypeStep ==
  ASSUME TypeOK, [Next]_vars
  PROVE  TypeOK'
<1> USE DiffMergeAssumption
<1>1. CASE CollectBase
  BY <1>1, SuitesTyped DEF CollectBase, TypeOK, setup, sorting, verdicts, Phases
<1>0. CASE Visit \/ Return \/ Ordered
  <2>1. calls' \in Seq(Subtasks) /\ order' \in Seq(Subtasks)
    <3>1. CASE Visit
      <4>1. CASE calls = <<>>
        <5>1. Unvisited(Subtasks) \in SUBSET Subtasks
          BY DEF Unvisited
        <5>2. Min(Unvisited(Subtasks)) \in Subtasks
          BY <3>1, <4>1, <5>1, MinOf DEF Visit
        <5>3. <<Min(Unvisited(Subtasks))>> \in Seq(Subtasks)
          BY <5>2
        <5> QED
          BY <3>1, <4>1, <5>3 DEF Visit, TypeOK
      <4>2. CASE calls # <<>>
        <5>1. PICK d \in Wanted : calls' = Append(calls, d)
          BY <3>1, <4>2 DEF Visit
        <5>2. d \in Subtasks /\ calls \in Seq(Subtasks) /\ order' = order /\ order \in Seq(Subtasks)
          BY <3>1, <4>2, <5>1, WantedTyped DEF Visit, TypeOK
        <5> QED
          BY <5>1, <5>2, AppendProperties
      <4> QED
        BY <4>1, <4>2
    <3>2. CASE Return
      <4>1. /\ calls # <<>> /\ calls' = Front(calls) /\ order' = Append(order, Last(calls))
            /\ calls \in Seq(Subtasks) /\ order \in Seq(Subtasks)
        BY <3>2 DEF Return, TypeOK
      <4> QED
        BY <4>1, Ends, AppendProperties
    <3>3. CASE Ordered
      BY <3>3 DEF Ordered, sorting, TypeOK
    <3> QED
      BY <1>0, <3>1, <3>2, <3>3
  <2>2. /\ pc' \in {"order", "apply"}
        /\ UNCHANGED <<setup, todo, landed, tests, suites, verdicts, score>>
    BY <1>0 DEF Visit, Return, Ordered
  <2> QED
    BY <2>1, <2>2 DEF TypeOK, setup, suites, verdicts, Phases
<1>2. CASE \E s \in Subtasks : Apply(s)
  <2>1. order' \in Seq(Subtasks)
    BY <1>2, HeadTailProperties DEF Apply, TypeOK
  <2>2. tests' \in [Gates -> {"canonical", "edited", "absent"}]
    BY <1>2, TouchedTyped DEF Apply
  <2>3. /\ landed' \subseteq {s \in Subtasks : patch[s] # "empty"} /\ todo' \subseteq Subtasks
        /\ pc' \in Phases
    BY <1>2 DEF Apply, TypeOK, Phases
  <2>4. UNCHANGED <<setup, calls, suites, verdicts, score>>
    BY <1>2 DEF Apply
  <2> QED
    BY <2>1, <2>2, <2>3, <2>4 DEF TypeOK, setup, suites, verdicts
<1>3. CASE \E s \in Subtasks : Gate(s)
  <2>1. PICK s \in Subtasks : Gate(s)
    BY <1>3
  <2>2. GateOf[s] \cup conf.held \in SUBSET Gates
    BY DEF TypeOK, Confs
  <2>3. PICK ok \in BOOLEAN :
            /\ Judge(s, GateOf[s] \cup conf.held, tests, ok)
            /\ (pc' = "repair" /\ UNCHANGED <<todo, additive>>) \/ Settle(s, ok)
    BY <2>1 DEF Gate
  <2>4. additive' \subseteq Subtasks /\ todo' \subseteq Subtasks /\ pc' \in Phases
    BY <2>3 DEF Settle, TypeOK, Phases
  <2>5. passed' \in [Subtasks -> SUBSET Gates] /\ genuine' \in [Subtasks -> SUBSET Gates]
    BY <2>2, <2>3 DEF Judge, TypeOK
  <2> QED
    BY <2>1, <2>4, <2>5 DEF Gate, TypeOK, setup, sorting, suites
<1>4. CASE \E s \in Subtasks : Repair(s)
  <2>1. PICK s \in Subtasks : Repair(s)
    BY <1>4
  <2>2. GateOf[s] \in SUBSET Gates
    OBVIOUS
  <2>3. passed' \in [Subtasks -> SUBSET Gates] /\ genuine' \in [Subtasks -> SUBSET Gates]
    <3>1. CASE \E ok \in BOOLEAN : Judge(s, GateOf[s], tests', ok)
      BY <2>2, <3>1 DEF Judge, TypeOK
    <3>2. CASE UNCHANGED <<passed, genuine>>
      BY <3>2 DEF TypeOK
    <3> QED
      BY <2>1, <3>1, <3>2 DEF Repair
  <2>4. additive' \subseteq Subtasks /\ todo' \subseteq Subtasks /\ pc' \in Phases
    BY <2>1 DEF Repair, Settle, TypeOK, Phases
  <2> QED
    BY <2>1, <2>3, <2>4, TouchedTyped DEF Repair, TypeOK, setup, sorting, suites
<1>5. CASE Restore
  BY <1>5 DEF Restore, TypeOK, setup, sorting, suites, verdicts, Phases
<1>6. CASE Reveal
  BY <1>6 DEF Reveal, TypeOK, setup, sorting, suites, verdicts, Phases
<1>7. CASE CollectMerged
  BY <1>7, SuitesTyped DEF CollectMerged, TypeOK, setup, sorting, verdicts, Phases
<1>8. CASE Score
  BY <1>8 DEF Score, TypeOK, setup, sorting, suites, verdicts, Phases
<1>9. CASE UNCHANGED vars
  BY <1>9 DEF vars, TypeOK
<1> QED
  BY <1>0, <1>1, <1>2, <1>3, <1>4, <1>5, <1>6, <1>7, <1>8, <1>9 DEF Next

-----------------------------------------------------------------------------
(* Credit                                                                  *)

\* Every step keeps a subtask that passed its gate judged by its own tests.
LEMMA JudgingStep ==
  ASSUME TypeOK, Judging, Restored, Verdicts, [Next]_vars
  PROVE  Judging' /\ Restored' /\ Verdicts'
<1> USE DiffMergeAssumption
<1>1. CASE CollectBase \/ CollectMerged \/ Score
  BY <1>1 DEF CollectBase, CollectMerged, Score, setup, verdicts, suites, Judging,
      Restored, Verdicts, Unaltered
<1>0. CASE Visit \/ Return \/ Ordered
  <2>1. /\ pc = "order" /\ pc' \in {"order", "apply"}
        /\ UNCHANGED <<setup, todo, tests, verdicts>>
    BY <1>0 DEF Visit, Return, Ordered
  <2> QED
    BY <2>1 DEF setup, verdicts, Judging, Restored, Verdicts, Unaltered
<1>2. CASE \E s \in Subtasks : Apply(s)
  BY <1>2 DEF Apply, setup, verdicts, Judging, Restored, Verdicts, Unaltered
<1>3. CASE Restore
  BY <1>3 DEF Restore, setup, verdicts, Judging, Restored, Verdicts, Unaltered, TypeOK,
      Listed
<1>4. CASE Reveal
  BY <1>4 DEF Reveal, setup, verdicts, Judging, Restored, Verdicts, Unaltered, TypeOK,
      Listed, Confs
<1>5. CASE \E s \in Subtasks : Gate(s)
  <2>1. PICK s \in Subtasks : Gate(s)
    BY <1>5
  <2>2. PICK ok \in BOOLEAN :
            /\ Judge(s, GateOf[s] \cup conf.held, tests, ok)
            /\ IF ~ok /\ s \in landed /\ conf.repair
               THEN pc' = "repair" /\ UNCHANGED <<todo, additive>>
               ELSE Settle(s, ok)
    BY <2>1 DEF Gate
  <2>3. pc = "gate" /\ s \in todo /\ s \notin additive /\ UNCHANGED <<conf, tests>>
    BY <2>1 DEF Gate, Judging, setup
  <2>4. GateOf[s] \cup conf.held \in SUBSET Gates /\ GateOf[s] \subseteq Listed
    BY DEF TypeOK, Confs, Listed
  <2>5. /\ \A t \in Subtasks \ {s} : passed'[t] = passed[t] /\ genuine'[t] = genuine[t]
        /\ ok => passed'[s] = GateOf[s] \cup conf.held
        /\ ok /\ (\A g \in GateOf[s] \cup conf.held : tests[g] = "canonical")
              => genuine'[s] = GateOf[s] \cup conf.held
    BY <2>2, <2>4 DEF Judge, TypeOK
  <2>6. additive' = (IF ok THEN additive \cup {s} ELSE additive) /\ additive' \cap todo' = {}
    BY <2>2, <2>3 DEF Settle, Judging
  <2>7. pc' \in {"gate", "repair", "regression"} /\ (pc' = "repair" => conf.repair)
    BY <2>2, <2>3 DEF Settle
  <2>8. Judging'
    BY <2>3, <2>6, <2>7 DEF Judging
  <2>9. Restored'
    BY <2>3, <2>7 DEF Restored, Unaltered
  <2>10. Verdicts'
    <3>1. additive \subseteq Subtasks
      BY DEF TypeOK
    <3> QED
      BY <2>3, <2>4, <2>5, <2>6, <3>1 DEF Verdicts, Restored, Unaltered
  <2> QED
    BY <2>8, <2>9, <2>10
<1>6. CASE \E s \in Subtasks : Repair(s)
  <2>1. PICK s \in Subtasks : Repair(s)
    BY <1>6
  <2>2. PICK ok \in BOOLEAN :
            /\ Settle(s, ok)
            /\ Judge(s, GateOf[s], tests', ok) \/ (~ok /\ UNCHANGED <<passed, genuine>>)
    BY <2>1 DEF Repair
  <2>3. conf.repair /\ s \in todo /\ s \notin additive /\ UNCHANGED conf
    BY <2>1 DEF Repair, Judging, setup
  <2>4. /\ \A t \in Subtasks \ {s} : passed'[t] = passed[t]
        /\ ok => passed'[s] = GateOf[s]
    BY <2>2 DEF Judge, TypeOK
  <2>5. additive' = (IF ok THEN additive \cup {s} ELSE additive) /\ additive' \cap todo' = {}
    BY <2>1, <2>2, <2>3 DEF Settle, Judging, Repair
  <2>6. pc' \in {"gate", "regression"}
    BY <2>2 DEF Settle
  <2> QED
    BY <2>3, <2>4, <2>5, <2>6 DEF Judging, Restored, Verdicts, Unaltered, TypeOK
<1>7. CASE UNCHANGED vars
  BY <1>7 DEF vars, Judging, Restored, Verdicts, Unaltered
<1> QED
  BY <1>0, <1>1, <1>2, <1>3, <1>4, <1>5, <1>6, <1>7 DEF Next

-----------------------------------------------------------------------------
(* The suite before and after                                              *)

\* Every step keeps what is believed of the suites a function of what is true of them.
LEMMA SuiteStep ==
  ASSUME TypeOK, BaseSuite, MergedSuite, [Next]_vars
  PROVE  BaseSuite' /\ MergedSuite'
<1>1. CASE CollectBase
  <2>1. PICK fails \in SUBSET (Names \ conf.held), reading \in Readings :
            /\ MayRead(reading)
            /\ truth' = [truth EXCEPT !.base = fails]
            /\ run' = [run EXCEPT !.base = reading]
            /\ reports' = Written(fails \ Listed, reading)
            /\ failing' = [failing EXCEPT !.base = Collected(fails \ Listed, reading, reports')]
    BY <1>1 DEF CollectBase
  <2>2. truth'.base = fails /\ run'.base = reading /\ UNCHANGED conf /\ pc' = "order"
    BY <1>1, <2>1 DEF CollectBase, setup, TypeOK
  <2>3. MayRead(run.base)'
    BY <2>1, <2>2 DEF MayRead, Silent
  <2>4. reports' = BaseReports'
    BY <1>1, <2>1, <2>2 DEF CollectBase, BaseSuite, Written, BaseReports
  <2>5. failing'.base = Collected(truth.base \ Listed, run.base, BaseReports)'
    BY <2>1, <2>2, <2>4 DEF TypeOK, Collected, Silent
  <2> QED
    BY <2>2, <2>3, <2>4, <2>5 DEF BaseSuite, MergedSuite
<1>2. CASE CollectMerged
  <2>1. PICK fails \in SUBSET Names, reading \in Readings :
            /\ MayRead(reading)
            /\ truth' = [truth EXCEPT !.merged = fails]
            /\ run' = [run EXCEPT !.merged = reading]
            /\ reports' = Written(fails \ Excluded, reading)
            /\ failing' = [failing EXCEPT
                              !.merged = Collected(fails \ Excluded, reading, reports')]
    BY <1>2 DEF CollectMerged
  <2>2. /\ truth'.merged = fails /\ run'.merged = reading /\ UNCHANGED conf
        /\ truth'.base = truth.base /\ run'.base = run.base /\ failing'.base = failing.base
        /\ pc = "regression" /\ pc' = "score"
    BY <1>2, <2>1 DEF CollectMerged, setup, TypeOK
  <2>3. MayRead(run.merged)' /\ MayRead(run.base)'
    BY <2>1, <2>2 DEF MayRead, Silent, BaseSuite
  <2>4. BaseReports' = BaseReports /\ reports = BaseReports
    BY <2>2 DEF BaseReports, BaseSuite
  <2>5. reports' = MergedReports'
    BY <2>1, <2>2, <2>4 DEF Written, MergedReports, BaseReports, Excluded
  <2>6. failing'.merged = Collected(truth.merged \ Excluded, run.merged, MergedReports)'
    BY <2>1, <2>2, <2>5 DEF TypeOK, Collected, Silent, Excluded
  <2>7. failing'.base = Collected(truth.base \ Listed, run.base, BaseReports)'
    BY <2>2, <2>4 DEF BaseSuite, Collected, Silent
  <2> QED
    BY <2>2, <2>3, <2>6, <2>7 DEF BaseSuite, MergedSuite
<1>3. ASSUME UNCHANGED <<conf, suites>>,
             \/ UNCHANGED pc
             \/ {pc, pc'} \cap {"collect", "score", "done"} = {}
             \/ pc = "score" /\ pc' = "done"
      PROVE  BaseSuite' /\ MergedSuite'
  BY <1>3 DEF suites, BaseSuite, MergedSuite, BaseReports, MergedReports, Excluded,
      Collected, Silent, MayRead
<1>4. CASE \E s \in Subtasks : Apply(s) \/ Gate(s) \/ Repair(s)
  BY <1>3, <1>4 DEF Apply, Gate, Repair, Settle, setup
<1>5. CASE Visit \/ Return \/ Ordered \/ Restore \/ Reveal \/ Score
  BY <1>3, <1>5 DEF Visit, Return, Ordered, Restore, Reveal, Score, setup
<1>6. CASE UNCHANGED vars
  BY <1>3, <1>6 DEF vars, suites
<1> QED
  BY <1>1, <1>2, <1>4, <1>5, <1>6 DEF Next

\* Scores come from the verdicts and the comparison, in the last step.
LEMMA ScoresStep ==
  ASSUME TypeOK, Scores, [Next]_vars
  PROVE  Scores'
<1>1. CASE Score
  BY <1>1 DEF Score, setup, verdicts, suites, Scores, NewlyFailing
<1>2. CASE \/ CollectBase \/ Visit \/ Return \/ Ordered \/ Restore \/ Reveal
           \/ CollectMerged
  BY <1>2 DEF CollectBase, Visit, Return, Ordered, Restore, Reveal, CollectMerged, Scores
<1>3. CASE \E s \in Subtasks : Apply(s) \/ Gate(s) \/ Repair(s)
  BY <1>3 DEF Apply, Gate, Repair, Settle, Scores
<1>4. CASE UNCHANGED vars
  BY <1>4 DEF vars, Scores, NewlyFailing
<1> QED
  BY <1>1, <1>2, <1>3, <1>4 DEF Next

-----------------------------------------------------------------------------
(* The order of the patches                                                *)

\* What a call that returns needs is in the order: were it an open call, the calls
\* from it on would be a cycle.
LEMMA ReturnsAfterDeps ==
  ASSUME TypeOK, Sorted, calls # <<>>, Wanted = {}, NEW d \in deps[Last(calls)]
  PROVE  \E j \in 1 .. Len(order) : order[j] = d
<1> DEFINE n == Len(calls)
<1>1. n \in Nat /\ n >= 1 /\ Last(calls) = calls[n]
  BY Ends DEF TypeOK
<1>2. d \in ToSet(calls) \/ d \in ToSet(order)
  BY DEF Wanted, Unvisited
<1>3. ASSUME d \in ToSet(calls)
      PROVE  FALSE
  <2>1. PICK i \in 1 .. n : calls[i] = d
    BY <1>3 DEF ToSet, TypeOK
  <2> DEFINE C == {calls[k] : k \in i .. n}
  <2>2. C \in SUBSET Subtasks /\ C # {}
    <3>1. \A k \in i .. n : k \in 1 .. Len(calls)
      BY <1>1
    <3>2. \A k \in i .. n : calls[k] \in Subtasks
      BY <3>1, ElementOfSeq DEF TypeOK
    <3>3. i \in i .. n
      BY <1>1
    <3> QED
      BY <3>2, <3>3
  <2>3. ASSUME NEW k \in i .. n
        PROVE  deps[calls[k]] \cap C # {}
    <3>1. CASE k = n
      <4>1. i \in i .. n /\ d \in deps[calls[k]]
        BY <1>1, <3>1
      <4> QED
        BY <2>1, <4>1
    <3>2. CASE k # n
      <4>1. k \in 1 .. Len(calls) - 1 /\ k + 1 \in i .. n
        BY <1>1, <3>2
      <4>2. calls[k + 1] \in deps[calls[k]]
        BY <4>1 DEF Sorted
      <4> QED
        BY <4>1, <4>2
    <3> QED
      BY <3>1, <3>2
  <2>4. Acyclic(deps)
    BY DiffMergeAssumption DEF TypeOK
  <2>5. \A x \in C : deps[x] \cap C # {}
    BY <2>3
  <2> HIDE DEF C
  <2> QED
    BY <2>2, <2>4, <2>5 DEF Acyclic
<1> QED
  BY <1>2, <1>3 DEF ToSet, TypeOK

\* Every step of the sort, and every patch, keeps dependencies in front.
LEMMA SortedStep ==
  ASSUME TypeOK, Sorted, [Next]_vars
  PROVE  Sorted'
<1>1. CASE CollectBase
  BY <1>1 DEF CollectBase, sorting, setup, Sorted
<1>2. CASE Visit
  <2>1. /\ calls \in Seq(Subtasks) /\ pc = "order" /\ UNCHANGED <<pc, deps, order, todo>>
    BY <1>2 DEF Visit, setup, TypeOK
  <2>2. CASE calls = <<>>
    <3>1. Len(calls') = 1
      BY <1>2, <2>2 DEF Visit
    <3>2. \A i \in 1 .. Len(calls') - 1 : FALSE
      BY <3>1
    <3> QED
      BY <2>1, <3>2 DEF Sorted
  <2>3. CASE calls # <<>>
    <3>1. PICK d \in Wanted : calls' = Append(calls, d)
      BY <1>2, <2>3 DEF Visit
    <3>2. d \in deps[calls[Len(calls)]] /\ d \in Subtasks /\ Len(calls) \in Nat
      BY <2>3, <3>1, WantedTyped
    <3>3. /\ Len(calls') = Len(calls) + 1 /\ calls'[Len(calls) + 1] = d
          /\ \A i \in 1 .. Len(calls) : calls'[i] = calls[i]
      BY <2>1, <3>1, <3>2, AppendProperties
    <3>4. ASSUME NEW i \in 1 .. Len(calls') - 1
          PROVE  calls'[i + 1] \in deps[calls'[i]]
      <4>1. CASE i = Len(calls)
        BY <3>2, <3>3, <4>1
      <4>2. CASE i # Len(calls)
        <5>1. i \in 1 .. Len(calls) - 1 /\ i \in 1 .. Len(calls) /\ i + 1 \in 1 .. Len(calls)
          BY <3>2, <3>3, <4>2
        <5> QED
          BY <3>3, <5>1 DEF Sorted
      <4> QED
        BY <4>1, <4>2
    <3> QED
      BY <2>1, <3>4 DEF Sorted
  <2> QED
    BY <2>2, <2>3
<1>3. CASE Return
  <2>1. /\ pc = "order" /\ calls # <<>> /\ Wanted = {} /\ todo = Subtasks
        /\ order' = Append(order, Last(calls)) /\ calls' = Front(calls)
        /\ UNCHANGED <<pc, deps, todo>>
        /\ calls \in Seq(Subtasks) /\ order \in Seq(Subtasks) /\ Len(order) \in Nat
    BY <1>3 DEF Return, setup, TypeOK, Sorted
  <2>2. /\ Len(calls') = Len(calls) - 1 /\ Len(calls) \in Nat /\ Last(calls) \in Subtasks
        /\ \A i \in 1 .. Len(calls) - 1 : calls'[i] = calls[i]
    BY <2>1, Ends
  <2>3. \A i \in 1 .. Len(calls') - 1 : calls'[i + 1] \in deps[calls'[i]]
    <3>1. \A i \in 1 .. Len(calls') - 1 :
             i \in 1 .. Len(calls) - 1 /\ i + 1 \in 1 .. Len(calls) - 1
      BY <2>2
    <3> QED
      BY <2>2, <3>1 DEF Sorted
  <2>4. /\ Len(order') = Len(order) + 1 /\ order'[Len(order) + 1] = Last(calls)
        /\ \A i \in 1 .. Len(order) : order'[i] = order[i]
    BY <2>1, <2>2, AppendProperties
  <2>5. ASSUME NEW i \in 1 .. Len(order'), NEW d \in deps[order'[i]] \cap todo
        PROVE  \E j \in 1 .. i - 1 : order'[j] = d
    <3>1. CASE i = Len(order) + 1
      <4>1. PICK j \in 1 .. Len(order) : order[j] = d
        BY <2>1, <2>4, <2>5, <3>1, ReturnsAfterDeps
      <4> QED
        BY <2>1, <2>4, <3>1, <4>1
    <3>2. CASE i # Len(order) + 1
      <4>1. i \in 1 .. Len(order) /\ order'[i] = order[i]
        BY <2>1, <2>4, <3>2
      <4>2. PICK j \in 1 .. i - 1 : order[j] = d
        BY <2>1, <4>1 DEF Sorted
      <4>3. j \in 1 .. Len(order)
        BY <2>1, <4>1
      <4> QED
        BY <2>4, <4>2, <4>3
    <3> QED
      BY <3>1, <3>2
  <2> QED
    BY <2>1, <2>3, <2>5 DEF Sorted
<1>4. CASE Ordered
  BY <1>4 DEF Ordered, sorting, setup, Sorted
<1>5. CASE \E s \in Subtasks : Apply(s)
  <2>1. PICK s \in Subtasks : Apply(s)
    BY <1>5
  <2>2. /\ pc = "apply" /\ order # <<>> /\ s = Head(order) /\ order' = Tail(order)
        /\ todo' = todo \ {s} /\ UNCHANGED <<deps, calls>> /\ pc' \in {"apply", "restore"}
        /\ order \in Seq(Subtasks) /\ Len(order) \in Nat
    BY <2>1 DEF Apply, setup, TypeOK
  <2>3. /\ Len(order') = Len(order) - 1 /\ s = order[1]
        /\ \A i \in 1 .. Len(order') : order'[i] = order[i + 1]
    BY <2>2, HeadTailProperties
  <2>4. ASSUME NEW i \in 1 .. Len(order'), NEW d \in deps[order'[i]] \cap todo'
        PROVE  \E j \in 1 .. i - 1 : order'[j] = d
    <3>1. i + 1 \in 1 .. Len(order) /\ order'[i] = order[i + 1] /\ d \in todo /\ d # s
      BY <2>2, <2>3
    <3>2. PICK j \in 1 .. (i + 1) - 1 : order[j] = d
      BY <2>2, <3>1 DEF Sorted
    <3>3. j # 1 /\ j - 1 \in 1 .. i - 1 /\ j - 1 \in 1 .. Len(order') /\ (j - 1) + 1 = j
      BY <2>2, <2>3, <3>1, <3>2
    <3> QED
      BY <2>3, <3>2, <3>3
  <2> QED
    BY <2>2, <2>4 DEF Sorted
<1>6. CASE \/ Restore \/ Reveal \/ CollectMerged \/ Score
           \/ \E s \in Subtasks : Gate(s) \/ Repair(s)
  BY <1>6 DEF Restore, Reveal, CollectMerged, Score, Gate, Repair, Settle, sorting, setup, Sorted
<1>7. CASE UNCHANGED vars
  BY <1>7 DEF vars, Sorted
<1> QED
  BY <1>1, <1>2, <1>3, <1>4, <1>5, <1>6, <1>7 DEF Next

\* The inductive invariant holds in every reachable state.
THEOREM DiffMergeSafety == Spec => []IInv
<1>1. IInv /\ [Next]_vars => IInv'
  BY SortedStep, TypeStep, JudgingStep, SuiteStep, ScoresStep DEF IInv
<1> QED
  BY InitIInv, <1>1, PTL DEF Spec

\* Every variable of the diff-mode merge keeps its type.
THEOREM DiffMergeTypeCorrect == Spec => []TypeOK
  BY DiffMergeSafety, PTL DEF IInv

\* Whatever the dependencies are, as long as they have no cycle, topological_order puts
\* each subtask behind those it needs, and so lands its patch after theirs.
THEOREM DepsLandFirstHolds == Spec => DepsLandFirst
<1>1. ASSUME IInv, [Next]_vars, NEW s \in Subtasks, s \in todo \ todo', pc = "apply"
      PROVE  deps[s] \cap todo = {}
  <2>1. order # <<>> /\ s = Head(order) /\ order \in Seq(Subtasks)
    BY <1>1 DEF Next, CollectBase, Visit, Return, Ordered, Apply, Restore, Reveal, Gate, Repair,
        CollectMerged, Score, vars, IInv, TypeOK
  <2>2. 1 \in 1 .. Len(order) /\ s = order[1]
    BY <2>1, EmptySeq
  <2>3. \A j \in 1 .. 1 - 1 : FALSE
    OBVIOUS
  <2> QED
    BY <1>1, <2>2, <2>3 DEF IInv, Sorted
<1>2. IInv /\ [Next]_vars =>
        [\A s \in Subtasks : s \in todo \ todo' /\ pc = "apply" => deps[s] \cap todo = {}]_vars
  BY <1>1
<1> QED
  BY DiffMergeSafety, <1>2, PTL DEF Spec, DepsLandFirst

\* Credit rests on the subtask's own tests, run since it was last worked on, and without
\* a repair agent on the coordinator's text of them (diff_merge.py:597).
THEOREM JudgedByCoordinatorHolds == Spec => []JudgedByCoordinator
<1>1. IInv => JudgedByCoordinator
  <2> SUFFICES ASSUME IInv, NEW s \in Credited
               PROVE  s \in additive
    BY DEF IInv, Verdicts, Unaltered, JudgedByCoordinator
  <2> QED
    BY DEF IInv, Scores, Credited
<1> QED
  BY DiffMergeSafety, <1>1, PTL

\* Neither gate tests nor old failures cost anything where both runs were read in the
\* same detail (collect_failing_tests, merge_and_test_diff).
THEOREM PenaltyOnlyForNewHolds == Spec => []PenaltyOnlyForNew
<1>1. IInv => PenaltyOnlyForNew
  <2> SUFFICES ASSUME IInv, NEW s \in Subtasks, score[s] = 1,
                      run.base = run.merged, run.base # "timeout"
               PROVE  (truth.merged \ truth.base) \ (Listed \cup conf.held) # {}
    BY DEF PenaltyOnlyForNew
  <2>1. pc = "done" /\ failing.merged \ failing.base # {}
    BY DEF IInv, Scores, NewlyFailing
  <2>2. truth.base \cap conf.held = {} /\ run.base \in Readings
    BY <2>1 DEF IInv, BaseSuite, TypeOK
  <2>3. failing.base = Collected(truth.base \ Listed, run.base, BaseReports)
        /\ failing.merged = Collected(truth.merged \ Excluded, run.base, MergedReports)
    BY <2>1 DEF IInv, BaseSuite, MergedSuite
  <2>4. CASE run.base = "parsed"
    BY <2>1, <2>2, <2>3, <2>4 DEF Collected, BaseReports, MergedReports, Excluded
  <2>5. CASE run.base = "coarse"
    BY <2>1, <2>2, <2>3, <2>5 DEF Collected, BaseReports, MergedReports, Excluded
  <2> QED
    BY <2>2, <2>4, <2>5 DEF Readings
<1> QED
  BY DiffMergeSafety, <1>1, PTL

\* Wherever the two runs let it see at all, the regression gate sees every test that
\* fails since the merge (diff_merge.py:47, "never toward silently passing").
THEOREM RegressionsCostHolds == Spec => []RegressionsCost
<1>1. IInv => RegressionsCost
  <2> SUFFICES ASSUME IInv, pc = "done", ~Blind,
                      (truth.merged \ truth.base) \ (Listed \cup conf.held) # {}
               PROVE  failing.merged \ failing.base # {}
    BY DEF RegressionsCost, IInv, Scores, NewlyFailing
  <2>1. PICK x \in truth.merged \ Excluded : x \notin truth.base
    BY DEF Excluded
  <2>2. ~Silent /\ Suite \notin failing.base /\ x # Suite
    BY <2>1, DiffMergeAssumption DEF Blind, IInv, TypeOK, Names
  <2>3. failing.base = Collected(truth.base \ Listed, run.base, BaseReports)
        /\ failing.merged = Collected(truth.merged \ Excluded, run.merged, MergedReports)
        /\ run.merged \in Readings
    BY DEF IInv, BaseSuite, MergedSuite, TypeOK
  <2>4. x \notin failing.base
    BY <2>1, <2>2, <2>3 DEF Collected, BaseReports
  <2>5. CASE run.merged = "parsed"
    BY <2>1, <2>2, <2>3, <2>4, <2>5 DEF Collected, MergedReports
  <2>6. CASE run.merged = "timeout"
    BY <2>1, <2>2, <2>3, <2>6 DEF Collected
  <2>7. CASE run.merged = "coarse"
    <3>1. CASE conf.runner # "junit"
      BY <2>1, <2>2, <2>3, <2>7, <3>1 DEF Collected
    <3>2. CASE conf.runner = "junit"
      <4>1. failing.base = {}
        BY <2>7, <3>2 DEF Blind
      <4>2. BaseReports = {}
        BY <2>2, <2>3, <3>2, <4>1 DEF Collected, BaseReports
      <4> QED
        BY <2>1, <2>2, <2>3, <2>7, <3>2, <4>1, <4>2 DEF Collected, MergedReports
    <3> QED
      BY <3>1, <3>2
  <2> QED
    BY <2>3, <2>5, <2>6, <2>7 DEF Readings
<1> QED
  BY DiffMergeSafety, <1>1, PTL

-----------------------------------------------------------------------------
(* Every subtask is visited                                                *)

\* No subtask is called or put in the order twice, and the patches to come are those of
\* the subtasks that have not had their turn.
Once ==
    /\ pc \in {"order", "apply"} =>
          \A i, j \in 1 .. Len(order) : order[i] = order[j] => i = j
    /\ pc = "order" =>
          /\ \A i, j \in 1 .. Len(calls) : calls[i] = calls[j] => i = j
          /\ ToSet(calls) \cap ToSet(order) = {}
    /\ pc = "apply" => todo = ToSet(order)

\* Appending an element that is not there keeps the others, and one each of them.
LEMMA AppendOnce ==
  ASSUME NEW s \in Seq(Subtasks), NEW e \in Subtasks, e \notin ToSet(s),
         \A i, j \in 1 .. Len(s) : s[i] = s[j] => i = j
  PROVE  /\ ToSet(Append(s, e)) = ToSet(s) \cup {e}
         /\ \A i, j \in 1 .. Len(Append(s, e)) : Append(s, e)[i] = Append(s, e)[j] => i = j
<1> DEFINE t == Append(s, e)
<1>1. /\ t \in Seq(Subtasks) /\ Len(t) = Len(s) + 1 /\ Len(s) \in Nat
      /\ t[Len(s) + 1] = e /\ \A i \in 1 .. Len(s) : t[i] = s[i]
  BY AppendProperties
<1> HIDE DEF t
<1>2. \A i \in 1 .. Len(s) : s[i] # e
  BY DEF ToSet
<1>3. 1 .. Len(t) = (1 .. Len(s)) \cup {Len(s) + 1}
  BY <1>1
<1>4. ToSet(t) = ToSet(s) \cup {e}
  BY <1>1, <1>3 DEF ToSet
<1>5. \A i, j \in 1 .. Len(t) : t[i] = t[j] => i = j
  BY <1>1, <1>2, <1>3
<1> QED
  BY <1>4, <1>5 DEF t

\* Without its first element, a sequence that has each of its elements once has the others.
LEMMA TailOnce ==
  ASSUME NEW s \in Seq(Subtasks), s # <<>>,
         \A i, j \in 1 .. Len(s) : s[i] = s[j] => i = j
  PROVE  /\ ToSet(Tail(s)) = ToSet(s) \ {Head(s)}
         /\ \A i, j \in 1 .. Len(Tail(s)) : Tail(s)[i] = Tail(s)[j] => i = j
<1> DEFINE t == Tail(s)
<1>1. /\ t \in Seq(Subtasks) /\ Len(t) = Len(s) - 1 /\ Len(s) \in Nat /\ Len(s) >= 1
      /\ Head(s) = s[1] /\ \A i \in 1 .. Len(t) : t[i] = s[i + 1]
  BY HeadTailProperties, EmptySeq
<1> HIDE DEF t
<1>2. \A i \in 1 .. Len(t) : i + 1 \in 1 .. Len(s)
  BY <1>1
<1>3. \A i, j \in 1 .. Len(t) : t[i] = t[j] => i = j
  <2> TAKE i, j \in 1 .. Len(t)
  <2>1. s[i + 1] = s[j + 1] => i + 1 = j + 1
    BY <1>2
  <2> QED
    BY <1>1, <2>1
<1>4. \A k \in 1 .. Len(s) : k # 1 => k - 1 \in 1 .. Len(t) /\ t[k - 1] = s[k]
  BY <1>1
<1>5. ToSet(t) \subseteq ToSet(s) \ {Head(s)}
  <2>1. \A i \in 1 .. Len(t) : s[i + 1] # s[1]
    BY <1>1, <1>2
  <2> QED
    BY <1>1, <1>2, <2>1 DEF ToSet
<1>6. ToSet(s) \ {Head(s)} \subseteq ToSet(t)
  BY <1>1, <1>4 DEF ToSet
<1> QED
  BY <1>3, <1>5, <1>6 DEF t

\* The last element taken off, a sequence that has each of its elements once has the others.
LEMMA FrontOnce ==
  ASSUME NEW s \in Seq(Subtasks), s # <<>>,
         \A i, j \in 1 .. Len(s) : s[i] = s[j] => i = j
  PROVE  /\ ToSet(Front(s)) = ToSet(s) \ {Last(s)} /\ Last(s) \in ToSet(s)
         /\ \A i, j \in 1 .. Len(Front(s)) : Front(s)[i] = Front(s)[j] => i = j
<1> DEFINE t == Front(s)
<1>1. /\ t \in Seq(Subtasks) /\ Len(t) = Len(s) - 1 /\ Len(s) \in Nat /\ Len(s) >= 1
      /\ Last(s) = s[Len(s)] /\ \A i \in 1 .. Len(t) : t[i] = s[i]
  BY Ends
<1> HIDE DEF t
<1>2. 1 .. Len(s) = (1 .. Len(t)) \cup {Len(s)} /\ Len(s) \notin 1 .. Len(t)
  BY <1>1
<1>3. \A i, j \in 1 .. Len(t) : t[i] = t[j] => i = j
  BY <1>1, <1>2
<1>4. \A i \in 1 .. Len(t) : s[i] # s[Len(s)]
  BY <1>2
<1>5. ToSet(t) = ToSet(s) \ {Last(s)} /\ Last(s) \in ToSet(s)
  BY <1>1, <1>2, <1>4 DEF ToSet
<1> QED
  BY <1>3, <1>5 DEF t

\* Every step keeps the order free of repetitions, and complete.
LEMMA OnceStep ==
  ASSUME TypeOK, Sorted, Once, [Next]_vars
  PROVE  Once'
<1>1. CASE CollectBase
  <2>1. pc' = "order" /\ calls' = <<>> /\ order' = <<>>
    BY <1>1 DEF CollectBase, sorting, Sorted
  <2>2. \A i \in 1 .. 0 : FALSE
    OBVIOUS
  <2> QED
    BY <2>1, <2>2, EmptySeq DEF Once, ToSet
<1>2. CASE Visit
  <2>1. /\ calls \in Seq(Subtasks) /\ pc = "order" /\ UNCHANGED <<pc, order, todo>>
        /\ \A i, j \in 1 .. Len(calls) : calls[i] = calls[j] => i = j
    BY <1>2 DEF Visit, TypeOK, Once
  <2>2. PICK e \in Subtasks : /\ e \notin ToSet(calls) \cup ToSet(order)
                              /\ calls' = Append(calls, e)
    <3>1. CASE calls = <<>>
      <4> DEFINE e == Min(Unvisited(Subtasks))
      <4>1. e \in Unvisited(Subtasks)
        BY <1>2, <3>1, MinOf DEF Visit, Unvisited
      <4>2. Append(calls, e) = <<e>>
        BY <3>1
      <4> QED
        BY <1>2, <3>1, <4>1, <4>2 DEF Visit, Unvisited
    <3>2. CASE calls # <<>>
      BY <1>2, <3>2, WantedTyped DEF Visit, Wanted, Unvisited
    <3> QED
      BY <3>1, <3>2
  <2>3. /\ ToSet(calls') = ToSet(calls) \cup {e}
        /\ \A i, j \in 1 .. Len(calls') : calls'[i] = calls'[j] => i = j
    BY <2>1, <2>2, AppendOnce
  <2> QED
    BY <2>1, <2>2, <2>3 DEF Once
<1>3. CASE Return
  <2> DEFINE e == Last(calls)
  <2>1. /\ calls \in Seq(Subtasks) /\ order \in Seq(Subtasks) /\ calls # <<>>
        /\ pc = "order" /\ UNCHANGED <<pc, todo>>
        /\ order' = Append(order, e) /\ calls' = Front(calls)
        /\ \A i, j \in 1 .. Len(calls) : calls[i] = calls[j] => i = j
        /\ \A i, j \in 1 .. Len(order) : order[i] = order[j] => i = j
        /\ ToSet(calls) \cap ToSet(order) = {}
    BY <1>3 DEF Return, TypeOK, Once
  <2>2. e \in Subtasks
    BY <2>1, Ends
  <2>3. /\ ToSet(calls') = ToSet(calls) \ {e} /\ e \in ToSet(calls)
        /\ \A i, j \in 1 .. Len(calls') : calls'[i] = calls'[j] => i = j
    BY <2>1, FrontOnce
  <2>4. /\ ToSet(order') = ToSet(order) \cup {e}
        /\ \A i, j \in 1 .. Len(order') : order'[i] = order'[j] => i = j
    BY <2>1, <2>2, <2>3, AppendOnce
  <2> QED
    BY <2>1, <2>3, <2>4 DEF Once
<1>4. CASE Ordered
  <2>1. /\ pc = "order" /\ pc' = "apply" /\ todo' = todo /\ order' = order /\ todo = Subtasks
        /\ calls = <<>> /\ Unvisited(Subtasks) = {} /\ order \in Seq(Subtasks)
    BY <1>4 DEF Ordered, sorting, Sorted, TypeOK
  <2>2. ToSet(calls) = {}
    BY <2>1, EmptySeq DEF ToSet
  <2>3. ToSet(order) \subseteq Subtasks
    BY <2>1, ElementOfSeq DEF ToSet
  <2>4. ToSet(order) = Subtasks
    BY <2>1, <2>2, <2>3 DEF Unvisited
  <2> QED
    BY <2>1, <2>4 DEF Once
<1>5. CASE \E s \in Subtasks : Apply(s)
  <2>1. PICK s \in Subtasks : Apply(s)
    BY <1>5
  <2>2. /\ order \in Seq(Subtasks) /\ order # <<>> /\ pc' \in {"apply", "restore"}
        /\ s = Head(order) /\ order' = Tail(order) /\ todo' = todo \ {s} /\ todo = ToSet(order)
        /\ \A i, j \in 1 .. Len(order) : order[i] = order[j] => i = j
    BY <2>1 DEF Apply, TypeOK, Once
  <2>3. /\ ToSet(order') = ToSet(order) \ {s}
        /\ \A i, j \in 1 .. Len(order') : order'[i] = order'[j] => i = j
    BY <2>2, TailOnce
  <2> QED
    BY <2>2, <2>3 DEF Once
<1>6. CASE \/ Restore \/ Reveal \/ CollectMerged \/ Score
           \/ \E s \in Subtasks : Gate(s) \/ Repair(s)
  <2>1. pc' \notin {"order", "apply"}
    BY <1>6 DEF Restore, Reveal, CollectMerged, Score, Gate, Repair, Settle
  <2> QED
    BY <2>1 DEF Once
<1>7. CASE UNCHANGED vars
  BY <1>7 DEF vars, Once
<1> QED
  BY <1>1, <1>2, <1>3, <1>4, <1>5, <1>6, <1>7 DEF Next

\* When topological_order is done, it has every subtask, whether anything depends on it or
\* not: as long as patches land, the rest of its order is those yet to land, each once.
NobodyLeftOut ==
    pc = "apply" => /\ ToSet(order) = todo
                    /\ \A i, j \in 1 .. Len(order) : order[i] = order[j] => i = j

\* The depth-first search of topological_order reaches every subtask, and none twice.
THEOREM NobodyLeftOutHolds == Spec => []NobodyLeftOut
<1>1. Init => Once
  BY DEF Init, Once
<1>2. IInv /\ Once /\ [Next]_vars => Once'
  BY OnceStep DEF IInv
<1>3. IInv /\ Once => NobodyLeftOut
  BY DEF Once, NobodyLeftOut
<1> QED
  BY DiffMergeSafety, <1>1, <1>2, <1>3, PTL DEF Spec

================================================================================
