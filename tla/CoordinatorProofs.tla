--------------------------- MODULE CoordinatorProofs ---------------------------
(***************************************************************************)
(* Safety of the coordinator loop for every set of paths, every number of  *)
(* attempts, everything an earlier run may have left behind, and every     *)
(* holdback fraction.                                                      *)
(*                                                                         *)
(* The inductive invariant says, layer by layer: which attempt is running, *)
(* of which attempt the files in the workspaces and in the decomposition   *)
(* at hand are, that the gate tests of phase 1.5 stand, what has been      *)
(* validated, what the working repository holds at each step towards the   *)
(* scaffold commit, and that the holdback leaves a gate test visible.      *)
(***************************************************************************)
EXTENDS Coordinator, FiniteSetTheorems, TLAPS

\* The runs init chooses from.
Setup ==
    /\ conf.mode = "diff" => Sources \subseteq conf.existing
    /\ conf.testFirst => conf.backend = "claude_code" /\ conf.mode = "scaffold"

\* The attempts there are, and the one a call is made for.
InAttempt ==
    /\ pc = "lookup" => attempt = 0
    /\ pc = "plan" => attempt >= 1
    /\ pc \in {"tests", "files"} => attempt \in Attempts
    /\ pc = "validate" => attempt <= MaxAttempts

\* What an earlier run left behind, or nothing.
Old(c) == c \in {Absent, Earlier}

\* Files are of the attempt in whose workspace they lie, and the decomposition at
\* hand is of the attempt that is running, older files apart.
Provenance ==
    /\ \A a \in Attempts, phase \in {"tests", "files"}, p \in Paths :
          Old(areas[<<a, phase>>][p]) \/ areas[<<a, phase>>][p] = Content(a, phase)
    /\ pc = "lookup" => \A p \in Paths : Old(cache[p])
    /\ pc \in {"tests", "files", "validate"} \/ Returned =>
          \A p \in Paths : Old(cand[p]) \/ cand[p].by = attempt

\* Only a test-first run has a contract, and phase 2 leaves it alone.
Contract ==
    /\ pc = "lookup" => contract = {}
    /\ contract # {} \/ pc = "tests" => conf.testFirst
    /\ pc \in {"files", "validate"} \/ Returned =>
          \A p \in contract : cand[p] = Earlier \/ cand[p].phase = "tests"

\* What a path of the working repository holds that the scaffold did not write.
AsFound(tree, p) ==
    IF conf.mode = "scaffold" /\ left[p] # {} THEN tree[p] \in left[p] ELSE tree[p] = Own[p]

\* The files the scaffold writes: a diff's baseline leaves those alone that are there.
Written == IF conf.mode = "diff" THEN Visible \ conf.existing ELSE Visible

\* A tree that shows miners what was accepted, and is otherwise as it was found.
Accepted(tree) ==
    \A p \in Paths : IF p \in Written THEN tree[p] = cand[p] ELSE AsFound(tree, p)

\* The working repository on its way to the scaffold commit, and the commit.
Scaffold ==
    /\ pc # "commit" /\ ~Dispatched => \A p \in Paths : AsFound(disk, p)
    /\ pc = "commit" \/ Dispatched => Accepted(disk)
    /\ recorded => Dispatched /\ Accepted(committed)

\* Held-back tests are gate tests, and not all of them.
Holdback ==
    pc \in {"write", "commit"} \/ Dispatched =>
        held \subseteq CandGates /\ (CandGates # {} => CandGates \ held # {})

\* What becomes of the gate tests in the merge repository.
Revealed ==
    /\ pc = "restore" => conf.mode = "diff"
    /\ pc \notin {"restore", "reveal", "scored"} => listed = {}
    /\ pc \in {"restore", "reveal", "scored"} => listed \subseteq CandGates \ conf.existing
    /\ pc = "reveal" => \A p \in Protected \ held : merged[p] = cand[p]
    /\ pc = "scored" => \A p \in Protected : merged[p] = cand[p]

IInv ==
    /\ TypeOK /\ Setup /\ InAttempt
    /\ Provenance /\ Contract
    /\ ValidatedBeforeUse
    /\ Scaffold /\ Holdback /\ Revealed

-----------------------------------------------------------------------------
(* Contents and trees                                                      *)

\* Absent and older files are told from what a call writes by their attempt.
LEMMA ContentFacts ==
    /\ {Absent, Earlier, Edited} \subseteq Contents /\ Absent # Earlier /\ Absent # Edited
    /\ Absent.by = 0 /\ Earlier.by = 0
    /\ Earlier.phase # "tests"
    /\ \A a \in Attempts, phase \in CallPhases :
          /\ Content(a, phase) \in Contents /\ ~Old(Content(a, phase))
          /\ Content(a, phase).by = a /\ Content(a, phase).phase = phase
  BY CoordinatorAssumption
  DEF Contents, Absent, Earlier, Edited, Content, Old, Attempts, CallPhases

\* The overlay of two trees is a tree, and takes the second where that has a file.
LEMMA OverlayTree ==
  ASSUME NEW tree \in Trees, NEW new \in Trees
  PROVE  /\ Overlay(tree, new) \in Trees
         /\ \A p \in Paths : Overlay(tree, new)[p] =
               IF new[p] # Absent THEN new[p] ELSE tree[p]
  BY DEF Overlay, Trees

\* A part of a tree is a tree, and empty elsewhere.
LEMMA PartTree ==
  ASSUME NEW tree \in Trees, NEW S
  PROVE  /\ Part(tree, S) \in Trees
         /\ \A p \in Paths : Part(tree, S)[p] = IF p \in S THEN tree[p] ELSE Absent
  BY ContentFacts DEF Part, Trees

\* One content everywhere in S is a tree.
LEMMA AllTree ==
  ASSUME NEW S, NEW c \in Contents
  PROVE  /\ All(S, c) \in Trees
         /\ \A p \in Paths : All(S, c)[p] = IF p \in S THEN c ELSE Absent
  BY ContentFacts DEF All, Trees

\* What the CLI writes in one phase of an attempt, and what is read back of it.
LEMMA CliTrees ==
  ASSUME TypeOK, Provenance, attempt \in Attempts, NEW S, NEW names,
         NEW phase \in {"tests", "files"}, CliWrites(phase, S)
  PROVE  /\ areas' \in [Attempts \X {"tests", "files"} -> Trees]
         /\ \A a \in Attempts, ph \in {"tests", "files"}, p \in Paths :
               Old(areas'[<<a, ph>>][p]) \/ areas'[<<a, ph>>][p] = Content(a, ph)
         /\ Part(areas'[Area(phase)], names) \in Trees
         /\ \A p \in Paths :
               LET c == Part(areas'[Area(phase)], names)[p]
               IN  (p \notin names => c = Absent) /\ (Old(c) \/ c = Content(attempt, phase))
<1> DEFINE new == All(S, Content(attempt, phase))
           now == areas[<<attempt, phase>>]
<1>1. new \in Trees /\ now \in Trees
  BY ContentFacts, AllTree DEF TypeOK, CallPhases
<1>2. areas' = [areas EXCEPT ![<<attempt, phase>>] = Overlay(now, new)]
  BY DEF CliWrites, Area
<1>3. Overlay(now, new) \in Trees
  BY <1>1, OverlayTree
<1>4. \A p \in Paths : Old(Overlay(now, new)[p])
                       \/ Overlay(now, new)[p] = Content(attempt, phase)
  <2> TAKE p \in Paths
  <2>1. Overlay(now, new)[p] = IF new[p] # Absent THEN new[p] ELSE now[p]
    BY <1>1, OverlayTree
  <2>2. new[p] \in {Content(attempt, phase), Absent}
    BY ContentFacts, AllTree DEF CallPhases
  <2>3. Old(now[p]) \/ now[p] = Content(attempt, phase)
    BY DEF Provenance
  <2> QED
    BY <2>1, <2>2, <2>3
<1> HIDE DEF new, now
<1>5. areas' \in [Attempts \X {"tests", "files"} -> Trees]
  BY <1>2, <1>3 DEF TypeOK
<1>6. areas'[Area(phase)] = Overlay(now, new)
  BY <1>2 DEF Area, TypeOK
<1>7. ASSUME NEW a \in Attempts, NEW ph \in {"tests", "files"}, NEW p \in Paths
      PROVE  Old(areas'[<<a, ph>>][p]) \/ areas'[<<a, ph>>][p] = Content(a, ph)
  <2>1. CASE a = attempt /\ ph = phase
    BY <2>1, <1>4, <1>6 DEF Area
  <2>2. CASE ~(a = attempt /\ ph = phase)
    <3>1. areas'[<<a, ph>>] = areas[<<a, ph>>]
      BY <2>2, <1>2 DEF TypeOK
    <3> QED
      BY <3>1 DEF Provenance
  <2> QED
    BY <2>1, <2>2
<1>8. Part(Overlay(now, new), names) \in Trees
      /\ \A p \in Paths : Part(Overlay(now, new), names)[p] =
            IF p \in names THEN Overlay(now, new)[p] ELSE Absent
  BY <1>3, PartTree
<1> QED
  BY <1>4, <1>5, <1>6, <1>7, <1>8 DEF Old

\* A tree whose files are of the running attempt, or older than this run.
Mine(tree) ==
    tree \in Trees /\ \A p \in Paths : Old(tree[p]) \/ tree[p].by = attempt

\* Trees of the running attempt are put together to trees of the running attempt.
LEMMA MineTrees ==
  ASSUME attempt \in Attempts
  PROVE  /\ \A tree, new : Mine(tree) /\ Mine(new) => Mine(Overlay(tree, new))
         /\ \A tree, S : Mine(tree) => Mine(Part(tree, S))
         /\ \A S : \A phase \in CallPhases : Mine(All(S, Content(attempt, phase)))
<1>1. ASSUME NEW tree, NEW new, Mine(tree), Mine(new)
      PROVE  Mine(Overlay(tree, new))
  BY <1>1, OverlayTree DEF Mine
<1>2. ASSUME NEW tree, NEW S, Mine(tree)
      PROVE  Mine(Part(tree, S))
  BY <1>2, PartTree DEF Mine, Old
<1>3. ASSUME NEW S, NEW phase \in CallPhases
      PROVE  Mine(All(S, Content(attempt, phase)))
  BY AllTree, ContentFacts DEF Mine, Old
<1> QED
  BY <1>1, <1>2, <1>3

\* Gate tests of phase 1.5 are still in the decomposition phase 2 puts together.
LEMMA ContractKept ==
  ASSUME NEW tree \in Trees, NEW new \in Trees, cand \in Trees,
         contract \subseteq Gates, \A p \in contract : cand[p] # Absent
  PROVE  /\ GateTests(new) \in Trees
         /\ \A p \in contract :
               Overlay(tree, Overlay(Part(new, Sources), GateTests(new)))[p] = cand[p]
<1> DEFINE gates == GateTests(new)
           both == Overlay(Part(new, Sources), gates)
<1>1. GateTests(new) \in Trees
  BY PartTree DEF GateTests
<1>2. ASSUME NEW p \in contract
      PROVE  Overlay(tree, both)[p] = cand[p]
  <2>1. p \in Paths /\ p \in Gates
    BY DEF Paths
  <2>2. Part(cand, Gates)[p] = cand[p]
    BY <2>1, PartTree
  <2>3. Part(cand, Gates) # Empty
    BY <2>1, <2>2 DEF Empty
  <2>4. gates[p] = cand[p]
    BY <2>2, <2>3 DEF GateTests
  <2>5. both[p] = cand[p] /\ both \in Trees
    BY <1>1, <2>1, <2>4, PartTree, OverlayTree
  <2> HIDE DEF both
  <2> QED
    BY <2>1, <2>5, OverlayTree
<1> QED
  BY <1>1, <1>2

\* What a phase 2 comes to: a decomposition of the running attempt, with the
\* contract in it, or another attempt.
Phase2Delivers ==
    /\ Mine(cand') /\ attempt' = attempt
    /\ \A p \in contract : cand'[p] = cand[p]
    /\ pc' = IF conf.check THEN "validate" ELSE "holdback"
    /\ IF conf.check THEN cache' = cache ELSE cache' \in {cand', cache}

Phase2Fails ==
    /\ attempt' = attempt + 1 /\ pc' = "plan"
    /\ UNCHANGED <<cand, cache>>

\* Both backends, in both modes, come to one of the two.
LEMMA Phase2Outcome ==
  ASSUME TypeOK, Setup, InAttempt, Provenance, Contract,
         RespondFiles \/ RespondDiff \/ HarvestFiles \/ HarvestDiff
  PROVE  /\ Phase2Delivers \/ Phase2Fails
         /\ UNCHANGED <<conf, contract, valid, repos>>
         /\ areas' \in [Attempts \X {"tests", "files"} -> Trees]
         /\ \A a \in Attempts, phase \in {"tests", "files"}, p \in Paths :
               Old(areas'[<<a, phase>>][p]) \/ areas'[<<a, phase>>][p] = Content(a, phase)
<1>1. attempt \in Attempts /\ Mine(cand) /\ contract \subseteq Gates /\ cand \in Trees
  BY DEF RespondFiles, RespondDiff, HarvestFiles, HarvestDiff, InAttempt, Provenance,
      Mine, TypeOK
<1>2. \A p \in contract : cand[p] # Absent
  BY ContentFacts
  DEF Contract, RespondFiles, RespondDiff, HarvestFiles, HarvestDiff, Absent, Content
<1>3. RespondFiles \/ RespondDiff \/ HarvestDiff => contract = {}
  BY DEF Contract, Setup, RespondFiles, RespondDiff, HarvestDiff
<1>4. ASSUME NEW files, Mine(files), Deliver(files), attempt' = attempt,
             \A p \in contract : files[p] = cand[p]
      PROVE  Phase2Delivers
  BY <1>4 DEF Deliver, Save, Phase2Delivers, Mine
<1>5. CASE RespondFiles
  <2>1. PICK S : Deliver(Overlay(Part(cand, Shared), All(S, Content(attempt, "files"))))
    BY <1>5 DEF RespondFiles
  <2>2. Mine(Overlay(Part(cand, Shared), All(S, Content(attempt, "files"))))
    <3>1. Mine(Part(cand, Shared)) /\ Mine(All(S, Content(attempt, "files")))
      BY <1>1, MineTrees DEF CallPhases
    <3> QED
      BY <1>1, <3>1, MineTrees
  <2>3. Phase2Delivers
    BY <1>3, <1>4, <1>5, <2>1, <2>2 DEF RespondFiles
  <2> QED
    BY <1>5, <2>3 DEF RespondFiles, call, TypeOK, Provenance
<1>6. CASE RespondDiff
  <2>1. PICK S : Deliver(Overlay(Part(cand, Shared), All(S, Content(attempt, "files"))))
    BY <1>6 DEF RespondDiff
  <2>2. Mine(Overlay(Part(cand, Shared), All(S, Content(attempt, "files"))))
    <3>1. Mine(Part(cand, Shared)) /\ Mine(All(S, Content(attempt, "files")))
      BY <1>1, MineTrees DEF CallPhases
    <3> QED
      BY <1>1, <3>1, MineTrees
  <2>3. Phase2Delivers
    BY <1>3, <1>4, <1>6, <2>1, <2>2 DEF RespondDiff
  <2> QED
    BY <1>6, <2>3 DEF RespondDiff, call, TypeOK, Provenance
<1>7. CASE HarvestFiles
  <2> DEFINE found == Part(areas'[Area("files")], Sources \cup GateNames)
             files == Overlay(Part(cand, Shared),
                              Overlay(Part(found, Sources), GateTests(found)))
  <2>1. PICK S : CliWrites("files", S) /\ DeliverFound(found, files)
    BY <1>7 DEF HarvestFiles
  <2>2. Mine(found)
    <3>1. found \in Trees /\ \A p \in Paths :
             Old(found[p]) \/ found[p] = Content(attempt, "files")
      BY <1>1, <2>1, CliTrees
    <3> QED
      BY <1>1, <3>1, ContentFacts DEF Mine, CallPhases
  <2>3. Mine(files)
    BY <1>1, <2>2, MineTrees DEF GateTests
  <2>4. \A p \in contract : files[p] = cand[p]
    BY <1>1, <1>2, <2>2, ContractKept, PartTree DEF Mine
  <2>5. Phase2Delivers \/ Phase2Fails
    BY <1>4, <2>1, <2>3, <2>4 DEF DeliverFound, Phase2Fails
  <2>6. UNCHANGED <<conf, contract, valid, repos>>
    BY <1>7 DEF HarvestFiles
  <2> QED
    BY <1>1, <2>1, <2>5, <2>6, CliTrees
<1>8. CASE HarvestDiff
  <2>1. PICK S \in SUBSET Paths, named \in SUBSET Gates :
            /\ CliWrites("files", S)
            /\ LET found == Part(areas'[Area("files")], Sources \cup named \cup FilesOf(cand))
               IN  DeliverFound(found, Overlay(cand, found))
    BY <1>8 DEF HarvestDiff, Coming
  <2> DEFINE found == Part(areas'[Area("files")], Sources \cup named \cup FilesOf(cand))
  <2>2. Mine(found)
    <3>1. found \in Trees /\ \A p \in Paths :
             Old(found[p]) \/ found[p] = Content(attempt, "files")
      BY <1>1, <2>1, CliTrees
    <3> QED
      BY <1>1, <3>1, ContentFacts DEF Mine, CallPhases
  <2>3. Mine(Overlay(cand, found))
    BY <1>1, <2>2, MineTrees
  <2>4. Phase2Delivers \/ Phase2Fails
    BY <1>3, <1>4, <1>8, <2>1, <2>3 DEF DeliverFound, Phase2Fails
  <2>5. UNCHANGED <<conf, contract, valid, repos>>
    BY <1>8 DEF HarvestDiff
  <2> QED
    BY <1>1, <2>1, <2>4, <2>5, CliTrees
<1> QED
  BY <1>5, <1>6, <1>7, <1>8

\* Phase 1 starts a decomposition of the running attempt.
LEMMA PlanOutcome ==
  ASSUME TypeOK, InAttempt, PlanScaffold \/ PlanDiff
  PROVE  attempt \in Attempts /\ Mine(cand')
<1>1. attempt \in Attempts
  BY CoordinatorAssumption DEF PlanScaffold, PlanDiff, InAttempt, Attempts, TypeOK
<1> QED
  BY <1>1, MineTrees DEF PlanScaffold, PlanDiff, CallPhases

\* Phase 1.5 replaces the gate tests by its own, which become the contract.
LEMMA TestsFirstOutcome ==
  ASSUME TypeOK, InAttempt, Provenance, TestsFirst
  PROVE  /\ attempt \in Attempts /\ Mine(cand')
         /\ contract' \subseteq Gates
         /\ \A p \in contract' : cand'[p] = Earlier \/ cand'[p].phase = "tests"
         /\ areas' \in [Attempts \X {"tests", "files"} -> Trees]
         /\ \A a \in Attempts, phase \in {"tests", "files"}, p \in Paths :
               Old(areas'[<<a, phase>>][p]) \/ areas'[<<a, phase>>][p] = Content(a, phase)
<1> DEFINE found == Part(areas'[Area("tests")], GateNames)
<1>1. PICK S \in SUBSET Gates :
          /\ CliWrites("tests", S)
          /\ cand' = IF found = Empty THEN cand ELSE Overlay(Part(cand, Shared), found)
          /\ contract' = FilesOf(found)
  BY DEF TestsFirst, Coming
<1>2. attempt \in Attempts /\ Mine(cand)
  BY DEF TestsFirst, InAttempt, Provenance, Mine, TypeOK
<1>3. /\ found \in Trees
      /\ \A p \in Paths : /\ p \notin GateNames => found[p] = Absent
                          /\ Old(found[p]) \/ found[p] = Content(attempt, "tests")
  BY <1>1, <1>2, CliTrees
<1>4. GateNames \subseteq Gates
  BY CoordinatorAssumption DEF GateNames
<1> HIDE DEF found
<1>5. Mine(found)
  BY <1>2, <1>3, ContentFacts DEF Mine, CallPhases
<1>6. Mine(cand')
  <2>1. Mine(Part(cand, Shared))
    BY <1>2, MineTrees
  <2> QED
    BY <1>1, <1>2, <1>5, <2>1, MineTrees
<1>7. contract' \subseteq Gates
  BY <1>1, <1>3, <1>4 DEF FilesOf
<1>8. ASSUME NEW p \in contract'
      PROVE  cand'[p] = Earlier \/ cand'[p].phase = "tests"
  <2>1. p \in Paths /\ found[p] # Absent
    BY <1>1, <1>8 DEF FilesOf
  <2>2. found # Empty
    BY <2>1 DEF Empty
  <2>3. Part(cand, Shared) \in Trees
    BY <1>2, PartTree DEF Mine
  <2>4. cand'[p] = found[p]
    BY <1>1, <1>3, <2>1, <2>2, <2>3, OverlayTree
  <2> QED
    BY <1>2, <1>3, <2>1, <2>4, ContentFacts DEF Old, CallPhases
<1>9. /\ areas' \in [Attempts \X {"tests", "files"} -> Trees]
      /\ \A a \in Attempts, phase \in {"tests", "files"}, p \in Paths :
            Old(areas'[<<a, phase>>][p]) \/ areas'[<<a, phase>>][p] = Content(a, phase)
  BY <1>1, <1>2, CliTrees
<1> QED
  BY <1>2, <1>6, <1>7, <1>8, <1>9

-----------------------------------------------------------------------------
(* The decomposition at hand                                               *)

\* The layers that do not look at the working repository.
Decomposition ==
    /\ TypeOK /\ Setup /\ InAttempt
    /\ Provenance /\ Contract
    /\ ValidatedBeforeUse

\* Control alone moves.
Moves == UNCHANGED <<conf, cand, call, cache, valid, repos>>

\* Every initial state has all layers.
LEMMA InitIInv == Init => IInv
<1> SUFFICES ASSUME Init
             PROVE  IInv
  OBVIOUS
<1>1. \A S : /\ All(S, Earlier) \in Trees
             /\ \A p \in Paths : All(S, Earlier)[p] = IF p \in S THEN Earlier ELSE Absent
  BY ContentFacts, AllTree
<1>2. Empty \in Trees
  BY ContentFacts DEF Empty, Trees
<1>3. PICK debris, cached : /\ areas = [w \in Attempts \X {"tests", "files"} |-> All(debris, Earlier)]
                            /\ cache = All(cached, Earlier)
  BY DEF Init
<1>4. TypeOK
  <2>1. areas \in [Attempts \X {"tests", "files"} -> Trees]
    BY <1>1, <1>3
  <2>2. Own \in Trees /\ disk = Own /\ committed = Own /\ cache \in Trees
    BY <1>1, <1>3 DEF Init, Own
  <2>3. left \in [Paths -> SUBSET Contents]
    BY DEF Init
  <2> QED
    <3>1. {cand, cache, disk, committed, merged} \subseteq Trees
      BY <1>2, <2>2 DEF Init
    <3>2. attempt \in 0 .. MaxAttempts + 1
      BY CoordinatorAssumption DEF Init
    <3>3. /\ conf \in Confs /\ valid = {} /\ contract = {} /\ held = {} /\ listed = {}
          /\ recorded = FALSE /\ repair = FALSE
      BY DEF Init
    <3> QED
      BY <2>1, <2>3, <3>1, <3>2, <3>3 DEF TypeOK
<1>5. Setup /\ InAttempt /\ Contract
  BY DEF Init, Setup, InAttempt, Contract, Returned
<1>6. Provenance
  <2>1. pc = "lookup"
    BY DEF Init
  <2>2. \A p \in Paths : cache[p] \in {Absent, Earlier}
    BY <1>1, <1>3
  <2>3. \A a \in Attempts, phase \in {"tests", "files"} : areas[<<a, phase>>] = All(debris, Earlier)
    BY <1>3
  <2>4. \A a \in Attempts, phase \in {"tests", "files"}, p \in Paths : Old(areas[<<a, phase>>][p])
    <3> TAKE a \in Attempts, phase \in {"tests", "files"}, p \in Paths
    <3>1. All(debris, Earlier)[p] \in {Absent, Earlier}
      BY <1>1
    <3> QED
      BY <2>3, <3>1 DEF Old
  <2> QED
    BY <2>1, <2>2, <2>4 DEF Provenance, Returned, Dispatched, Old
<1>7. ValidatedBeforeUse
  <2>1. pc = "lookup"
    BY DEF Init
  <2>2. \A p \in Paths : cache[p].by = 0
    BY <1>1, <1>3, ContentFacts
  <2> QED
    BY <2>1, <2>2 DEF ValidatedBeforeUse, Returned, Dispatched
<1>8. Scaffold /\ Holdback /\ Revealed
  BY DEF Init, Scaffold, Holdback, Revealed, Dispatched, AsFound, Own
<1> QED
  BY <1>4, <1>5, <1>6, <1>7, <1>8 DEF IInv

\* Every step preserves the layers of the decomposition.
LEMMA DecompositionStep ==
  ASSUME Decomposition, [Next]_vars
  PROVE  /\ Setup' /\ InAttempt' /\ Provenance' /\ Contract' /\ ValidatedBeforeUse'
         /\ conf' \in Confs /\ attempt' \in 0 .. MaxAttempts + 1
         /\ {cand', cache'} \subseteq Trees /\ valid' \subseteq Trees
         /\ contract' \subseteq Gates
         /\ areas' \in [Attempts \X {"tests", "files"} -> Trees]
<1> USE CoordinatorAssumption
    DEF Decomposition, TypeOK, Setup, InAttempt, Provenance, Contract,
        ValidatedBeforeUse, Returned, Dispatched, Attempts
<1>1. CASE UNCHANGED vars
  BY <1>1 DEF vars, call, repos
<1>2. CASE UnknownBackend \/ Miss \/ BadResponse \/ NoResponse \/ SdkRaises
           \/ CliRaises \/ Exhausted \/ ValidatorRaises
  <2>1. Moves
    BY <1>2 DEF UnknownBackend, Miss, BadResponse, NoResponse, SdkRaises,
        CliRaises, Exhausted, ValidatorRaises, AttemptFails, Moves
  <2>2. \/ pc' \in {"raised", "failed"} /\ attempt' = attempt
        \/ pc' = "plan" /\ attempt' \in 1 .. MaxAttempts + 1
    BY <1>2 DEF UnknownBackend, Miss, BadResponse, NoResponse, SdkRaises,
        CliRaises, Exhausted, ValidatorRaises, AttemptFails
  <2> QED
    BY <2>1, <2>2 DEF Moves, call, repos
<1>3. CASE Hit
  BY <1>3 DEF Hit, call, Old
<1>4. CASE PlanScaffold
  BY <1>4, PlanOutcome DEF PlanScaffold, Mine
<1>5. CASE PlanDiff
  BY <1>5, PlanOutcome DEF PlanDiff, Mine, call
<1>6. CASE TestsFirst
  BY <1>6, TestsFirstOutcome DEF TestsFirst, Mine
<1>7. CASE RespondFiles \/ RespondDiff \/ HarvestFiles \/ HarvestDiff
  <2>1. attempt \in Attempts /\ pc = "files"
    BY <1>7 DEF RespondFiles, RespondDiff, HarvestFiles, HarvestDiff
  <2>2. CASE Phase2Delivers
    BY <1>7, <2>1, <2>2, Phase2Outcome DEF Phase2Delivers, Mine
  <2>3. CASE Phase2Fails
    BY <1>7, <2>1, <2>3, Phase2Outcome DEF Phase2Fails
  <2> QED
    BY <1>7, <2>2, <2>3, Phase2Outcome
<1>8. CASE Accept
  BY <1>8 DEF Accept, Save, call
<1>9. CASE Reject
  BY <1>9 DEF Reject, call
<1>10. CASE HoldBack \/ Write \/ Commit \/ CommitFails \/ Merge \/ Restore \/ Reveal
  BY <1>10 DEF HoldBack, Write, Commit, CommitFails, Merge, Restore, Reveal, call
<1> QED
  BY <1>1, <1>2, <1>3, <1>4, <1>5, <1>6, <1>7, <1>8, <1>9, <1>10 DEF Next

-----------------------------------------------------------------------------
(* The working repository, the holdback and the merge repository           *)

\* Of a set of two integers, the least is no more than either.
LEMMA MinOfTwo ==
  ASSUME NEW a \in Int, NEW b \in Int
  PROVE  Min({a, b}) \in {a, b} /\ Min({a, b}) <= a /\ Min({a, b}) <= b
<1>1. \E x \in {a, b} : \A y \in {a, b} : x <= y
  <2>1. CASE a <= b
    BY <2>1
  <2>2. CASE ~(a <= b)
    BY <2>2
  <2> QED
    BY <2>1, <2>2
<1> QED
  BY <1>1 DEF Min

\* Of a set of two integers, the greatest is one of them.
LEMMA MaxOfTwo ==
  ASSUME NEW a \in Int, NEW b \in Int
  PROVE  Max({a, b}) \in {a, b} /\ Max({a, b}) >= a /\ Max({a, b}) >= b
<1>1. \E x \in {a, b} : \A y \in {a, b} : x >= y
  <2>1. CASE a >= b
    BY <2>1
  <2>2. CASE ~(a >= b)
    BY <2>2
  <2> QED
    BY <2>1, <2>2
<1> QED
  BY <1>1 DEF Max

\* select_holdback never holds back all of the gate tests.
LEMMA HoldSizeLeavesOne ==
  ASSUME NEW n \in Nat, n > 0, NEW percent \in Percents
  PROVE  HoldSize(n, percent) < n
<1>1. CASE percent = 0 \/ n < 2
  BY <1>1 DEF HoldSize
<1>2. CASE ~(percent = 0 \/ n < 2)
  <2> DEFINE share == (n * percent) \div 100
  <2>1. share \in Int
    <3>1. percent \in Nat
      BY CoordinatorAssumption
    <3>2. n * percent \in Int
      BY <3>1
    <3> HIDE DEF share
    <3> QED
      BY <3>2 DEF share
  <2> HIDE DEF share
  <2>2. Max({1, share}) \in Int
    <3>1. 1 \in Int
      OBVIOUS
    <3>2. Max({1, share}) \in {1, share}
      BY <2>1, <3>1, MaxOfTwo, Zenon
    <3> QED
      BY <2>1, <3>2
  <2> DEFINE most == Max({1, share})
             less == n - 1
  <2>3. less \in Int /\ most \in Int
    BY <2>2
  <2> HIDE DEF most, less
  <2>4. Min({less, most}) \in {less, most} /\ Min({less, most}) <= less
    BY <2>3, MinOfTwo, Zenon
  <2>5. HoldSize(n, percent) = Min({less, most})
    BY <1>2 DEF HoldSize, share, less, most
  <2>6. Min({less, most}) \in Int
    BY <2>3, <2>4
  <2> QED
    BY <2>4, <2>5, <2>6 DEF less
<1> QED
  BY <1>1, <1>2

\* What the holdback selects leaves a gate test of the decomposition visible.
LEMMA HoldBackLeavesOne ==
  ASSUME NEW h \in SUBSET CandGates, NEW percent \in Percents,
         Cardinality(h) = HoldSize(Cardinality(CandGates), percent)
  PROVE  CandGates # {} => CandGates \ h # {}
<1>1. IsFiniteSet(CandGates)
  BY CoordinatorAssumption, FS_Subset DEF CandGates
<1>2. ASSUME CandGates # {}
      PROVE  CandGates \ h # {}
  <2>1. Cardinality(CandGates) \in Nat /\ Cardinality(CandGates) > 0
    BY <1>1, <1>2, FS_CardinalityType, FS_EmptySet
  <2>2. Cardinality(h) < Cardinality(CandGates)
    BY <2>1, HoldSizeLeavesOne
  <2>3. h # CandGates
    BY <2>1, <2>2
  <2> QED
    BY <2>3
<1> QED
  BY <1>2

\* A stub test run leaves what it wrote, and a repository of a diff is as it was.
LEMMA WriteCandidateDisk ==
  ASSUME TypeOK, \A p \in Paths : AsFound(disk, p), conf' = conf,
         WriteCandidate \/ UNCHANGED <<disk, left>>
  PROVE  /\ disk' \in Trees /\ left' \in [Paths -> SUBSET Contents]
         /\ \A p \in Paths : AsFound(disk, p)'
<1> USE DEF TypeOK, AsFound, Own
<1>1. CASE UNCHANGED <<disk, left>>
  BY <1>1
<1>2. CASE WriteCandidate /\ conf.mode # "scaffold"
  BY <1>2 DEF WriteCandidate
<1>3. CASE WriteCandidate /\ conf.mode = "scaffold"
  <2>1. /\ disk' = Overlay(disk, cand)
        /\ left' = [p \in Paths |-> left[p] \cup ({cand[p]} \ {Absent})]
    BY <1>3 DEF WriteCandidate, Holding
  <2>2. disk' \in Trees /\ \A p \in Paths : disk'[p] = IF cand[p] # Absent THEN cand[p] ELSE disk[p]
    BY <2>1, OverlayTree
  <2>3. left' \in [Paths -> SUBSET Contents]
    BY <2>1 DEF Trees
  <2>4. ASSUME NEW p \in Paths
        PROVE  AsFound(disk, p)'
    <3>1. left'[p] = left[p] \cup ({cand[p]} \ {Absent})
      BY <2>1
    <3> QED
      BY <1>3, <2>2, <3>1
  <2> QED
    BY <2>2, <2>3, <2>4
<1> QED
  BY <1>1, <1>2, <1>3

\* What is written for the scaffold shows what was accepted.
LEMMA WrittenIsAccepted ==
  ASSUME Decomposition, \A p \in Paths : AsFound(disk, p),
         disk' = IF conf.mode = "scaffold" THEN WritesScaffold(disk) ELSE WritesDiff(disk),
         UNCHANGED <<conf, cand, held, left>>
  PROVE  disk' \in Trees /\ Accepted(disk)'
<1> USE DEF Decomposition, TypeOK
<1>1. Visible' = Visible /\ Written' = Written /\ \A p \in Visible : p \in Paths /\ cand[p] # Absent
  BY DEF Visible, Written, FilesOf
<1>2. CASE conf.mode = "scaffold"
  <2>1. Part(cand, Visible) \in Trees /\ \A p \in Paths :
            Part(cand, Visible)[p] = IF p \in Visible THEN cand[p] ELSE Absent
    BY PartTree
  <2>2. disk' = Overlay(disk, Part(cand, Visible))
    BY <1>2 DEF WritesScaffold, Holding
  <2>3. disk' \in Trees /\ \A p \in Paths : disk'[p] =
            IF Part(cand, Visible)[p] # Absent THEN Part(cand, Visible)[p] ELSE disk[p]
    BY <2>1, <2>2, OverlayTree
  <2> QED
    BY <1>1, <1>2, <2>1, <2>3 DEF Accepted, Written, AsFound, Own
<1>3. CASE conf.mode = "diff"
  <2> DEFINE new == {p \in Visible \ Sources : disk[p] = Absent}
  <2>1. Part(cand, new) \in Trees /\ \A p \in Paths :
            Part(cand, new)[p] = IF p \in new THEN cand[p] ELSE Absent
    BY PartTree
  <2>2. disk' = Overlay(disk, Part(cand, new))
    BY <1>3 DEF WritesDiff, Holding
  <2>3. disk' \in Trees /\ \A p \in Paths : disk'[p] =
            IF Part(cand, new)[p] # Absent THEN Part(cand, new)[p] ELSE disk[p]
    BY <2>1, <2>2, OverlayTree
  <2>4. \A p \in Paths : disk[p] = IF p \in conf.existing THEN Earlier ELSE Absent
    BY <1>3, ContentFacts, AllTree DEF AsFound, Own
  <2>5. conf.existing \subseteq Paths /\ Sources \subseteq conf.existing
    BY <1>3, CoordinatorAssumption DEF Setup, Confs, Paths
  <2>6. new = Visible \ conf.existing
    BY <1>1, <2>4, <2>5, ContentFacts
  <2>7. \A p \in Paths : disk'[p] = IF p \in Visible \ conf.existing THEN cand[p] ELSE disk[p]
    BY <1>1, <2>1, <2>3, <2>6
  <2> QED
    BY <1>1, <1>3, <2>3, <2>7 DEF Accepted, Written, AsFound, Own
<1> QED
  BY <1>2, <1>3 DEF Confs

\* What was accepted and shown is so as long as nobody changes it.
LEMMA AcceptedStays ==
  ASSUME UNCHANGED <<conf, cand, held, left, disk>>
  PROVE  /\ CandGates' = CandGates
         /\ Accepted(disk) => Accepted(disk)'
         /\ committed' = committed /\ Accepted(committed) => Accepted(committed)'
         /\ committed' = disk /\ Accepted(disk) => Accepted(committed)'
<1>1. CandGates' = CandGates /\ Written' = Written
  BY DEF CandGates, Written, Visible, FilesOf
<1>2. Accepted(disk) => Accepted(disk)'
  BY <1>1 DEF Accepted, AsFound, Own
<1>3. committed' = committed /\ Accepted(committed) => Accepted(committed)'
  BY <1>1 DEF Accepted, AsFound, Own
<1>4. committed' = disk /\ Accepted(disk) => Accepted(committed)'
  BY <1>1 DEF Accepted, AsFound, Own
<1> QED
  BY <1>1, <1>2, <1>3, <1>4

\* Into the merge repository go the visible gate tests, unless somebody edits them.
LEMMA MergedGates ==
  ASSUME Decomposition, Scaffold, Holdback, Merge
  PROVE  /\ merged' \in Trees
         /\ conf.mode = "scaffold" /\ ~repair' =>
               \A p \in CandGates \ held : merged'[p] = cand[p]
<1> USE DEF Decomposition, TypeOK
<1>1. PICK edits : merged' = Overlay(disk, All(edits, Edited))
                   /\ (conf.mode = "scaffold" /\ ~repair' => edits = {})
  BY DEF Merge, Holding, Confs
<1>2. All(edits, Edited) \in Trees
      /\ \A p \in Paths : All(edits, Edited)[p] = IF p \in edits THEN Edited ELSE Absent
  BY ContentFacts, AllTree
<1>3. merged' \in Trees /\ \A p \in Paths : merged'[p] =
          IF All(edits, Edited)[p] # Absent THEN All(edits, Edited)[p] ELSE disk[p]
  BY <1>1, <1>2, OverlayTree
<1>4. Accepted(disk)
  BY DEF Merge, Scaffold, Dispatched
<1>5. CandGates \subseteq Paths /\ CandGates \ held \subseteq Visible
  BY DEF CandGates, Visible, FilesOf
<1> QED
  BY <1>1, <1>2, <1>3, <1>4, <1>5 DEF Accepted, Written

\* A checkout that succeeds brings the listed tests back as the decomposition has them.
LEMMA RestoredGates ==
  ASSUME Decomposition, Scaffold, Holdback, Revealed, Restore
  PROVE  /\ merged' \in Trees
         /\ Restorable => \A p \in listed : merged'[p] = cand[p]
<1> USE DEF Decomposition, TypeOK
<1>1. merged' \in Trees
  BY DEF Restore, Trees
<1>2. ASSUME Restorable, NEW p \in listed
      PROVE  merged'[p] = cand[p]
  <2>1. p \in CandGates \ conf.existing /\ conf.mode = "diff"
    BY DEF Restore, Revealed
  <2>2. p \in Paths /\ p \in Written
    BY <1>2, <2>1 DEF Restorable, Written, Visible, CandGates, FilesOf
  <2>3. committed[p] = cand[p]
    BY <1>2, <2>2 DEF Restore, Restorable, Scaffold, Dispatched, Accepted
  <2> QED
    BY <1>2, <2>2, <2>3 DEF Restore
<1> QED
  BY <1>1, <1>2

\* The reveal writes the held-back tests, and leaves the others alone.
LEMMA RevealedGates ==
  ASSUME Decomposition, Holdback, Revealed, Reveal
  PROVE  merged' \in Trees /\ \A p \in Protected : merged'[p] = cand[p]
<1> USE DEF Decomposition, TypeOK
<1>1. Part(cand, held) \in Trees /\ \A p \in Paths :
          Part(cand, held)[p] = IF p \in held THEN cand[p] ELSE Absent
  BY PartTree
<1>2. merged' = Overlay(merged, Part(cand, held))
  BY DEF Reveal, Holding
<1>3. merged' \in Trees /\ \A p \in Paths : merged'[p] =
          IF Part(cand, held)[p] # Absent THEN Part(cand, held)[p] ELSE merged[p]
  BY <1>1, <1>2, OverlayTree
<1>4. ASSUME NEW p \in Protected
      PROVE  merged'[p] = cand[p]
  <2>1. p \in CandGates
    BY DEF Protected, Reveal, Revealed, Holdback, Dispatched
  <2>2. p \in Paths /\ cand[p] # Absent
    BY <2>1 DEF CandGates, FilesOf
  <2>3. p \notin held => merged[p] = cand[p]
    BY DEF Reveal, Revealed
  <2> QED
    BY <1>1, <1>3, <2>2, <2>3
<1> QED
  BY <1>3, <1>4

\* Every step preserves the layers of the repositories.
LEMMA RepositoryStep ==
  ASSUME IInv, [Next]_vars
  PROVE  /\ Scaffold' /\ Holdback' /\ Revealed'
         /\ {disk', committed', merged'} \subseteq Trees
         /\ left' \in [Paths -> SUBSET Contents]
         /\ held' \subseteq Gates /\ listed' \subseteq Gates
         /\ recorded' \in BOOLEAN /\ repair' \in BOOLEAN
<1> USE DEF IInv, TypeOK
<1>1. CASE \/ UnknownBackend \/ Miss \/ BadResponse \/ NoResponse \/ SdkRaises
           \/ CliRaises \/ Exhausted \/ Hit \/ PlanScaffold \/ PlanDiff \/ TestsFirst
           \/ RespondFiles \/ RespondDiff \/ HarvestFiles \/ HarvestDiff \/ ValidatorRaises
  <2>1. UNCHANGED <<conf, repos>>
    BY <1>1 DEF UnknownBackend, Miss, BadResponse, NoResponse, SdkRaises, CliRaises,
        Exhausted, AttemptFails, Hit, PlanScaffold, PlanDiff, TestsFirst, ValidatorRaises,
        RespondFiles, RespondDiff, HarvestFiles, HarvestDiff
  <2>2. /\ pc \in {"lookup", "plan", "tests", "files", "validate"}
        /\ pc' \in {"raised", "failed", "plan", "tests", "files", "validate", "holdback"}
    BY <1>1 DEF UnknownBackend, Miss, BadResponse, NoResponse, SdkRaises, CliRaises,
        Exhausted, AttemptFails, Hit, PlanScaffold, PlanDiff, TestsFirst, ValidatorRaises,
        RespondFiles, RespondDiff, HarvestFiles, HarvestDiff, Deliver, DeliverFound
  <2> QED
    BY <2>1, <2>2 DEF repos, merging, Scaffold, Dispatched, Holdback, Revealed, AsFound, Own
<1>2. CASE Accept \/ Reject
  <2>1. /\ pc = "validate" /\ pc' \in {"holdback", "plan"} /\ conf' = conf
        /\ WriteCandidate \/ UNCHANGED <<disk, left>>
        /\ UNCHANGED <<held, committed, recorded, merging>>
    BY <1>2 DEF Accept, Reject
  <2>2. \A p \in Paths : AsFound(disk, p)
    BY <2>1 DEF Scaffold, Dispatched
  <2>3. /\ disk' \in Trees /\ left' \in [Paths -> SUBSET Contents]
        /\ \A p \in Paths : AsFound(disk, p)'
    BY <2>1, <2>2, WriteCandidateDisk
  <2> QED
    BY <2>1, <2>3 DEF merging, Scaffold, Dispatched, Holdback, Revealed
<1>3. CASE HoldBack
  BY <1>3, HoldBackLeavesOne
  DEF HoldBack, CandGates, merging, Scaffold, Dispatched, Holdback, Revealed, AsFound, Own
<1>4. CASE Write
  <2>1. \A p \in Paths : AsFound(disk, p)
    BY <1>4 DEF Write, Scaffold, Dispatched
  <2>2. disk' \in Trees /\ Accepted(disk)'
    BY <1>4, <2>1, WrittenIsAccepted DEF Write, Decomposition
  <2> QED
    BY <1>4, <2>2 DEF Write, merging, Scaffold, Dispatched, Holdback, Revealed, CandGates
<1>5. CASE Commit \/ CommitFails
  <2>1. /\ UNCHANGED <<conf, cand, held, left, disk, merged, listed, repair>>
        /\ pc = "commit" /\ pc' = "mine"
        /\ (committed' = disk /\ recorded' = TRUE) \/ UNCHANGED <<committed, recorded>>
    BY <1>5 DEF Commit, CommitFails, repos, merging
  <2>2. Scaffold'
    BY <2>1, AcceptedStays DEF Scaffold, Dispatched
  <2>3. Holdback' /\ Revealed'
    BY <2>1, AcceptedStays DEF Holdback, Revealed, Dispatched
  <2> QED
    BY <2>1, <2>2, <2>3
<1>6. CASE Merge
  <2>1. /\ UNCHANGED <<conf, cand, held, left, disk, committed, recorded>>
        /\ pc = "mine" /\ pc' = IF conf.mode = "diff" THEN "restore" ELSE "reveal"
        /\ repair' \in BOOLEAN
    BY <1>6 DEF Merge
  <2>2. Scaffold' /\ Holdback'
    BY <2>1, AcceptedStays DEF Scaffold, Dispatched, Holdback
  <2>3. /\ listed' \subseteq CandGates' \ conf'.existing
        /\ conf.mode = "scaffold" => listed' = {}
    BY <1>6, <2>1, AcceptedStays DEF Merge, Revealed, Confs
  <2>4. merged' \in Trees /\ (conf.mode = "scaffold" => \A p \in (Protected \ held)' : merged'[p] = cand[p])
    BY <1>6, <2>1, MergedGates, AcceptedStays DEF Protected, Decomposition
  <2>5. Revealed'
    BY <2>1, <2>3, <2>4 DEF Revealed, Confs
  <2> QED
    BY <1>6, <2>1, <2>2, <2>3, <2>4, <2>5 DEF CandGates
<1>7. CASE Restore
  BY <1>7, RestoredGates
  DEF Restore, Decomposition, Scaffold, Dispatched, Holdback, Revealed, Protected, Restorable,
      Accepted, AsFound, Written, Own, Visible, CandGates
<1>8. CASE Reveal
  BY <1>8, RevealedGates
  DEF Reveal, Decomposition, Scaffold, Dispatched, Holdback, Revealed, Protected, Restorable,
      Accepted, AsFound, Written, Own, Visible, CandGates
<1>9. CASE UNCHANGED vars
  BY <1>9
  DEF vars, repos, merging, Scaffold, Dispatched, Holdback, Revealed, Protected, Restorable,
      Accepted, AsFound, Written, Own, Visible, CandGates
<1> QED
  BY <1>1, <1>2, <1>3, <1>4, <1>5, <1>6, <1>7, <1>8, <1>9 DEF Next

\* The inductive invariant holds in every reachable state.
THEOREM CoordinatorSafety == Spec => []IInv
<1>1. IInv /\ [Next]_vars => IInv'
  BY DecompositionStep, RepositoryStep DEF IInv, TypeOK, Decomposition
<1> QED
  BY InitIInv, <1>1, PTL DEF Spec

\* Every variable of the coordinator loop keeps its type.
THEOREM CoordinatorTypeCorrect == Spec => []TypeOK
  BY CoordinatorSafety, PTL DEF IInv

\* With a validate_fn, what is scaffolded passed it in this very run, be it cached or
\* new, and nothing new is cached that did not (decompose, cache.py:22).
THEOREM ValidatedBeforeUseHolds == Spec => []ValidatedBeforeUse
  BY CoordinatorSafety, PTL DEF IInv

\* The scaffold commit has the accepted content of every file the decomposition shows;
\* every other file is as it was, or was left there by a stub test run, of a rejected
\* candidate or of a test that is held back (scaffolder.py, git add -A).
THEOREM ScaffoldIsAcceptedHolds == Spec => []ScaffoldIsAccepted
<1>1. IInv => ScaffoldIsAccepted
  BY DEF IInv, Scaffold, ScaffoldIsAccepted, Accepted, AsFound, Written, TypeOK, Confs
<1> QED
  BY CoordinatorSafety, <1>1, PTL

\* Whatever patches and repairs do to the gate tests, those held back, and those the
\* restore and the confinement of patches protect, are scored against as the
\* decomposition has them (_merge_and_score_diff, reveal_into_repo); and for every
\* holdback fraction one at least is visible (select_holdback).
THEOREM GatesCompleteHolds == Spec => []GatesComplete
<1>1. IInv => GatesComplete
  <2> SUFFICES ASSUME IInv, pc = "scored", CandGates # {}
               PROVE  CandGates \cap Visible # {}
    BY DEF IInv, Revealed, GatesComplete
  <2> QED
    BY DEF IInv, Holdback, Dispatched, CandGates, Visible
<1> QED
  BY CoordinatorSafety, <1>1, PTL

\* No decomposition has files of two attempts: the workspaces of the CLI are those of
\* one attempt (decomposer_cc.py).
THEOREM AttemptsDontMixHolds == Spec => []AttemptsDontMix
<1>1. IInv => AttemptsDontMix
  BY DEF IInv, Provenance, AttemptsDontMix, FilesOf, Old
<1> QED
  BY CoordinatorSafety, <1>1, PTL

\* The gate tests written first are what is validated, cached, scaffolded and scored
\* against, whatever phase 2 wrote (decomposer_cc.py:375).
THEOREM FirstTestsStandHolds == Spec => []FirstTestsStand
<1>1. IInv => FirstTestsStand
  BY DEF IInv, Contract, FirstTestsStand
<1> QED
  BY CoordinatorSafety, <1>1, PTL

================================================================================
