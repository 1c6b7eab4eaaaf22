-------------------------- MODULE DecompositionProofs --------------------------
(***************************************************************************)
(* What the validators of a decomposition decide, for every set of plans.  *)
(*                                                                         *)
(* The depth-first search is proved right without induction over graphs:   *)
(* of the nodes it has left behind, every set has one that depends on none *)
(* of the set.  A node that is left depends only on nodes left before it,  *)
(* so that adding it keeps this true; and where the search closes a cycle, *)
(* the end of its stack is a set that has no such node.                    *)
(***************************************************************************)
EXTENDS DecompositionChecks, SequenceTheorems, WellFoundedInduction, TLAPS

\* The nodes on the stack, those left behind, and those a diff never enters.
OnPath == {path[i] : i \in DOMAIN path}
Done == visited \ OnPath
Skipped == IF mode = "diff" THEN Ids \ KnownIds ELSE {}

\* The stack is a path of the graph.
Stack ==
    /\ path \in Seq(Ids) /\ rest \in Seq(SUBSET Ids) /\ Len(path) = Len(rest)
    /\ visited \subseteq Ids /\ OnPath \subseteq visited /\ OnPath \cap Skipped = {}
    /\ \A i, j \in DOMAIN path : path[i] = path[j] => i = j
    /\ \A i \in 1 .. Len(path) - 1 : path[i + 1] \in Deps(path[i])
    /\ \A i \in DOMAIN path : rest[i] \subseteq Deps(path[i])

\* A set has a node that depends on none of the set.
HasFirst(S) == \E id \in S : Deps(id) \cap S = {}

\* As long as no cycle was found, every dependency of a node on the stack is still to
\* follow, being followed, or done; and what is done has none.
Explored ==
    IF "cycle" \in errors THEN ~Acyclic
    ELSE /\ \A i \in DOMAIN path : \A d \in Deps(path[i]) :
               d \in rest[i] \cup Done \cup Skipped \/ (i < Len(path) /\ d = path[i + 1])
         /\ \A id \in Done : Deps(id) \subseteq Done \cup Skipped
         /\ \A S \in SUBSET Done : S # {} => HasFirst(S)

-----------------------------------------------------------------------------
(* Greatest elements                                                       *)

\* A set of naturals has a least element.
LEMMA LeastNatural ==
  ASSUME NEW T \in SUBSET Nat, T # {}
  PROVE  \E x \in T : \A y \in T : x <= y
<1> DEFINE R == OpToRel(<, Nat)
<1>1. IsWellFoundedOn(R, Nat)
  BY NatLessThanWellFounded
<1> HIDE DEF R
<1>2. PICK x \in T : \A y \in T : ~(<<y, x>> \in R)
  BY <1>1, WFMin
<1>3. \A y \in T : ~(y < x)
  BY <1>2 DEF R, OpToRel
<1> QED
  BY <1>3

\* A set of positions of a sequence has a greatest element, and Max finds it.
LEMMA MaxOfPositions ==
  ASSUME NEW n \in Nat, NEW T \in SUBSET (1 .. n), T # {}
  PROVE  Max(T) \in T /\ \A y \in T : y <= Max(T)
<1> DEFINE U == {k \in Nat : \A y \in T : y <= k}
<1>1. n \in U
  OBVIOUS
<1>2. PICK u \in U : \A k \in U : u <= k
  BY <1>1, LeastNatural
<1>3. u \in T
  <2> SUFFICES ASSUME u \notin T
               PROVE  FALSE
    OBVIOUS
  <2>1. \E y \in T : y \in 1 .. n /\ y <= u
    OBVIOUS
  <2>2. u - 1 \in U
    BY <2>1
  <2> QED
    BY <1>2, <2>2
<1>4. \E x \in T : \A y \in T : x >= y
  BY <1>3
<1> QED
  BY <1>4 DEF Max

-----------------------------------------------------------------------------
(* The search                                                              *)

\* The plan and the mode are fixed, and with them the graph.
LEMMA PlanFixed ==
  ASSUME [Next]_vars
  PROVE  /\ UNCHANGED <<mode, plan>>
         /\ \A id : Deps(id)' = Deps(id)
         /\ KnownIds' = KnownIds /\ Skipped' = Skipped /\ Acyclic' = Acyclic
         /\ \A S : HasFirst(S)' <=> HasFirst(S)
<1>1. UNCHANGED <<mode, plan>>
  BY DEF Next, ScaffoldStructure, DiffBails, DiffStructure, Root, FindCycle, PassOver,
      Descend, Leave, SearchEnds, CheckContent, CheckContracts, WriteCandidate,
      WriteFails, RunStubTest, Finish, vars
<1> QED
  BY <1>1 DEF Deps, KnownIds, Subtasks, Skipped, Acyclic, HasFirst

\* A node with dependencies is a subtask, and its dependencies are ids.
LEMMA DepsKnown ==
  ASSUME plan \in Plans, NEW id
  PROVE  Deps(id) \subseteq Ids /\ (Deps(id) # {} => id \in KnownIds)
<1> DEFINE having == {i \in DOMAIN plan.subtasks : plan.subtasks[i].id = id}
<1>1. CASE having = {}
  BY <1>1 DEF Deps
<1>2. CASE having # {}
  <2>1. plan.subtasks \in Seq(Subtasks)
    BY PlansAssumption DEF Subtasks
  <2>2. having \in SUBSET (1 .. Len(plan.subtasks)) /\ Len(plan.subtasks) \in Nat
    BY <2>1
  <2>3. Max(having) \in having
    BY <1>2, <2>2, MaxOfPositions
  <2>4. Deps(id) = plan.subtasks[Max(having)].deps
    BY <1>2 DEF Deps
  <2>5. plan.subtasks[Max(having)] \in Subtasks /\ plan.subtasks[Max(having)].id = id
    BY <2>3 DEF Subtasks
  <2> HIDE DEF having
  <2> QED
    BY <2>4, <2>5, PlansAssumption DEF KnownIds, Subtasks
<1> QED
  BY <1>1, <1>2

\* The search starts with nothing visited.
LEMMA SearchStart ==
  ASSUME visited = {}, path = <<>>, rest = <<>>, "cycle" \notin errors
  PROVE  Stack /\ Explored
<1>1. OnPath = {} /\ Done = {}
  BY DEF OnPath, Done
<1> QED
  BY <1>1 DEF Stack, Explored, HasFirst

\* A node that depends on itself, or on one that is being followed, is on a cycle.
LEMMA CycleFound ==
  ASSUME plan \in Plans, Stack, path # <<>>, NEW id \in Top(rest), OnStack(id)
  PROVE  ~Acyclic
<1>1. PICK k \in DOMAIN path : path[k] = id
  BY DEF OnStack
<1>2. DOMAIN path = 1 .. Len(path) /\ Len(path) \in Nat /\ Len(path) \in DOMAIN path
  BY DEF Stack
<1> DEFINE n == Len(path)
           S == {path[i] : i \in k .. n}
<1>3. k \in 1 .. n /\ n \in Nat
  BY <1>2
<1>4. \A i \in k .. n : \E d \in S : d \in Deps(path[i])
  <2> TAKE i \in k .. n
  <2>1. CASE i = n
    <3>1. id \in Deps(path[n])
      BY <1>2 DEF Stack, Top
    <3> QED
      BY <1>1, <1>2, <2>1, <3>1
  <2>2. CASE i # n
    <3>1. i \in 1 .. n - 1 /\ i + 1 \in k .. n
      <4> HIDE DEF n
      <4> QED
        BY <1>3, <2>2
    <3> QED
      BY <3>1 DEF Stack
  <2> QED
    BY <2>1, <2>2
<1>5. S # {} /\ S \subseteq KnownIds
  BY <1>1, <1>2, <1>4, DepsKnown
<1>6. \A x \in S : Deps(x) \cap S # {}
  BY <1>4
<1> HIDE DEF S
<1> QED
  BY <1>5, <1>6 DEF Acyclic

\* Adding a node whose dependencies are done leaves a first in every set.
LEMMA DoneGrows ==
  ASSUME Stack, NEW v \in OnPath,
         \A id \in Done : Deps(id) \subseteq Done \cup Skipped,
         \A S \in SUBSET Done : S # {} => HasFirst(S),
         Deps(v) \subseteq Done \cup Skipped,
         NEW S \in SUBSET (Done \cup {v}), S # {}
  PROVE  HasFirst(S)
<1>1. v \notin Done /\ v \notin Skipped
  BY DEF Done, Stack
<1>2. CASE v \notin S
  BY <1>2
<1>3. CASE S = {v}
  BY <1>1, <1>3 DEF HasFirst
<1>4. CASE v \in S /\ S # {v}
  <2>1. S \ {v} \in SUBSET Done /\ S \ {v} # {}
    BY <1>4
  <2>2. PICK id \in S \ {v} : Deps(id) \cap (S \ {v}) = {}
    BY <2>1 DEF HasFirst
  <2>3. v \notin Deps(id)
    BY <1>1, <2>1, <2>2
  <2> QED
    BY <2>2, <2>3 DEF HasFirst
<1> QED
  BY <1>2, <1>3, <1>4

\* Entering a node that is neither visited nor to be skipped, at the root or below the
\* top of the stack, whose dependency it is.
LEMMA RootStep ==
  ASSUME plan \in Plans, Stack, Explored, [Next]_vars, Root
  PROVE  Stack' /\ Explored'
<1> USE PlanFixed
<1>1. PICK id \in KnownIds \ visited : Push(id) /\ rest' = <<Deps(id)>>
  BY DEF Root
<1>2. path = <<>> /\ path' = <<id>> /\ visited' = visited \cup {id} /\ UNCHANGED errors
  BY <1>1 DEF Root, Push, Stack
<1>3. id \in Ids /\ Deps(id) \subseteq Ids /\ id \notin Skipped
  BY DepsKnown, PlansAssumption DEF KnownIds, Subtasks, Skipped
<1>4. OnPath = {} /\ OnPath' = {id} /\ Done' = Done
  BY <1>2 DEF OnPath, Done
<1>5. Stack'
  BY <1>1, <1>2, <1>3, <1>4 DEF Stack
<1>6. Explored'
  BY <1>1, <1>2, <1>4 DEF Explored
<1> QED
  BY <1>5, <1>6

\* Taking a dependency off the top list leaves the others as they are.
LEMMA TakeOff ==
  ASSUME NEW s \in Seq(SUBSET Ids), NEW n \in DOMAIN s, NEW id,
         NEW less, less = [s EXCEPT ![n] = @ \ {id}]
  PROVE  /\ less \in Seq(SUBSET Ids) /\ Len(less) = Len(s)
         /\ less[n] = s[n] \ {id}
         /\ \A i \in DOMAIN s : i # n => less[i] = s[i]
<1>1. s[n] \ {id} \in SUBSET Ids
  OBVIOUS
<1> QED
  BY <1>1, ExceptSeq

\* A closed cycle, or a dependency that needs no visit, is taken off the list.
LEMMA SkipStep ==
  ASSUME plan \in Plans, Stack, Explored, [Next]_vars, FindCycle \/ PassOver
  PROVE  Stack' /\ Explored'
<1> USE PlanFixed
<1> DEFINE n == Len(path)
<1>1. /\ path # <<>> /\ n \in DOMAIN path /\ n = Len(rest) /\ DOMAIN rest = DOMAIN path
      /\ UNCHANGED <<path, visited>> /\ \A i \in DOMAIN path : rest[i] \in SUBSET Ids
  BY DEF FindCycle, PassOver, Stack
<1>2. OnPath' = OnPath /\ Done' = Done
  BY <1>1 DEF OnPath, Done
<1>3. PICK id \in rest[n] : /\ rest' \in {rest, [rest EXCEPT ![n] = @ \ {id}]}
                            /\ \/ OnStack(id) /\ errors' = errors \cup {"cycle"}
                               \/ /\ ~OnStack(id) /\ UNCHANGED errors
                                  /\ id \in visited \/ (mode = "diff" /\ id \notin KnownIds)
  BY <1>1 DEF FindCycle, PassOver, Top, ClosesCycle
<1>4. rest' \in Seq(SUBSET Ids) /\ Len(rest') = Len(rest)
      /\ \A i \in DOMAIN path : rest'[i] \subseteq rest[i] /\ rest[i] \subseteq rest'[i] \cup {id}
  <2>1. CASE rest' = rest
    BY <2>1 DEF Stack
  <2>2. CASE rest' = [rest EXCEPT ![n] = @ \ {id}]
    BY <1>1, <2>2, TakeOff DEF Stack
  <2> QED
    BY <1>3, <2>1, <2>2
<1>5. Stack'
  BY <1>1, <1>2, <1>4 DEF Stack
<1>6. CASE OnStack(id)
  <2>1. ~Acyclic
    BY <1>1, <1>3, <1>6, CycleFound DEF Top
  <2> QED
    BY <1>3, <1>5, <1>6, <2>1 DEF Explored
<1>7. CASE ~OnStack(id)
  <2>1. id \in Done \cup Skipped
    <3>1. id \in Ids
      BY <1>1, <1>3
    <3> QED
      BY <1>3, <1>7, <3>1 DEF Done, OnPath, OnStack, Skipped
  <2>2. UNCHANGED errors
    BY <1>3, <1>7
  <2>3. \A i \in DOMAIN path : \A d \in Deps(path[i]) :
            d \in rest[i] => d \in rest'[i] \cup Done \cup Skipped
    BY <1>4, <2>1
  <2>4. Explored'
    BY <1>1, <1>2, <2>2, <2>3 DEF Explored
  <2> QED
    BY <1>5, <2>4
<1> QED
  BY <1>6, <1>7

\* Below the top of the stack a dependency of it is entered.
LEMMA DescendStep ==
  ASSUME plan \in Plans, Stack, Explored, [Next]_vars, Descend
  PROVE  Stack' /\ Explored'
<1> USE PlanFixed
<1> DEFINE n == Len(path)
<1>1. /\ path # <<>> /\ n \in Nat \ {0} /\ n = Len(rest) /\ DOMAIN path = 1 .. n
      /\ DOMAIN rest = 1 .. n /\ \A i \in 1 .. n : rest[i] \in SUBSET Ids
  BY DEF Descend, Stack
<1>2. PICK id \in rest[n] :
          /\ ~OnStack(id) /\ id \notin visited /\ (mode = "diff" => id \in KnownIds)
          /\ visited' = visited \cup {id} /\ path' = Append(path, id)
          /\ rest' = Append([rest EXCEPT ![n] = @ \ {id}], Deps(id))
          /\ UNCHANGED errors
  BY <1>1 DEF Descend, Top, ClosesCycle, Push
<1>3. id \in Ids /\ id \notin Skipped /\ Deps(id) \subseteq Ids /\ id \in Deps(path[n])
  BY <1>1, <1>2, DepsKnown DEF Skipped, Stack
<1>4. /\ path' \in Seq(Ids) /\ Len(path') = n + 1 /\ path'[n + 1] = id
      /\ \A i \in 1 .. n : path'[i] = path[i]
  BY <1>1, <1>2, <1>3 DEF Stack
<1>5. /\ rest' \in Seq(SUBSET Ids) /\ Len(rest') = n + 1 /\ rest'[n + 1] = Deps(id)
      /\ \A i \in 1 .. n - 1 : rest'[i] = rest[i]
      /\ rest'[n] = rest[n] \ {id}
  <2> DEFINE less == [rest EXCEPT ![n] = @ \ {id}]
  <2>1. /\ less \in Seq(SUBSET Ids) /\ Len(less) = n /\ less[n] = rest[n] \ {id}
        /\ \A i \in 1 .. n - 1 : less[i] = rest[i]
    BY <1>1, TakeOff DEF Stack
  <2>2. rest' = Append(less, Deps(id))
    BY <1>2
  <2> HIDE DEF less, n
  <2>3. /\ rest' \in Seq(SUBSET Ids) /\ Len(rest') = n + 1 /\ rest'[n + 1] = Deps(id)
        /\ \A i \in 1 .. n : rest'[i] = less[i]
    BY <1>1, <1>3, <2>1, <2>2, AppendProperties
  <2> QED
    BY <1>1, <2>1, <2>3
<1> HIDE DEF n
<1>6. DOMAIN path' = 1 .. n + 1
  BY <1>4
<1>7. OnPath' = OnPath \cup {id}
  BY <1>1, <1>4, <1>6 DEF OnPath
<1>8. Done' = Done
  BY <1>2, <1>7 DEF Done, OnPath, OnStack
<1>9. Stack'
  <2>1. OnPath' \subseteq visited' /\ OnPath' \cap Skipped = {} /\ visited' \subseteq Ids
    BY <1>2, <1>3, <1>7 DEF Stack
  <2>2. \A i, j \in 1 .. n + 1 : path'[i] = path'[j] => i = j
    <3>1. 1 .. n + 1 = (1 .. n) \cup {n + 1}
      BY <1>1
    <3>2. \A i \in 1 .. n : path[i] # id
      BY <1>1, <1>2 DEF OnStack
    <3>3. \A i, j \in 1 .. n : path[i] = path[j] => i = j
      BY <1>1 DEF Stack
    <3> QED
      BY <1>4, <3>1, <3>2, <3>3
  <2>3. \A i \in 1 .. n : path'[i + 1] \in Deps(path'[i])
    <3> TAKE i \in 1 .. n
    <3>1. CASE i = n
      BY <1>1, <1>3, <1>4, <3>1
    <3>2. CASE i # n
      <4>1. i \in 1 .. n - 1 /\ i + 1 \in 1 .. n
        BY <1>1, <3>2
      <4> QED
        BY <1>4, <4>1 DEF Stack, n
    <3> QED
      BY <3>1, <3>2
  <2>4. \A i \in 1 .. n + 1 : rest'[i] \subseteq Deps(path'[i])
    <3> TAKE i \in 1 .. n + 1
    <3>1. CASE i = n + 1
      BY <1>4, <1>5, <3>1
    <3>2. CASE i # n + 1
      <4>1. i = n \/ i \in 1 .. n - 1
        BY <1>1, <3>2
      <4>2. rest'[i] \subseteq rest[i] /\ path'[i] = path[i] /\ i \in 1 .. n
        BY <1>1, <1>4, <1>5, <4>1
      <4> QED
        BY <1>1, <4>2 DEF Stack
    <3> QED
      BY <3>1, <3>2
  <2>5. (Len(path) - 1)' = n
    BY <1>1, <1>4
  <2> QED
    BY <1>4, <1>5, <1>6, <2>1, <2>2, <2>3, <2>4, <2>5 DEF Stack
<1>10. Explored'
  <2>1. CASE "cycle" \in errors
    BY <1>2, <2>1 DEF Explored
  <2>2. CASE "cycle" \notin errors
    <3>1. \A i \in 1 .. n : \A d \in Deps(path[i]) :
              d \in rest[i] \cup Done \cup Skipped \/ (i < n /\ d = path[i + 1])
      BY <1>1, <2>2 DEF Explored, n
    <3>2. \A i \in 1 .. n + 1 : \A d \in Deps(path'[i]) :
              d \in rest'[i] \cup Done \cup Skipped \/ (i < n + 1 /\ d = path'[i + 1])
      <4> TAKE i \in 1 .. n + 1
      <4> TAKE d \in Deps(path'[i])
      <4>1. CASE i = n + 1
        BY <1>4, <1>5, <4>1
      <4>2. CASE i = n
        BY <1>1, <1>4, <1>5, <3>1, <4>2
      <4>3. CASE i \in 1 .. n - 1
        <5>1. i + 1 \in 1 .. n
          BY <1>1, <4>3
        <5> QED
          BY <1>1, <1>4, <1>5, <3>1, <4>3, <5>1
      <4> QED
        BY <1>1, <4>1, <4>2, <4>3
    <3> QED
      <4>1. /\ \A id2 \in Done : Deps(id2) \subseteq Done \cup Skipped
            /\ \A S \in SUBSET Done : S # {} => HasFirst(S)
        BY <2>2 DEF Explored
      <4>2. \A i \in DOMAIN path' : \A d \in Deps(path'[i]) :
                d \in rest'[i] \cup Done' \cup Skipped
                   \/ (i < Len(path') /\ d = path'[i + 1])
        BY <1>4, <1>6, <1>8, <3>2
      <4>3. "cycle" \notin errors'
        BY <1>2, <2>2
      <4> QED
        BY <1>8, <4>1, <4>2, <4>3 DEF Explored
  <2> QED
    BY <2>1, <2>2
<1> QED
  BY <1>9, <1>10

\* A node whose dependencies have all been looked at is left.
LEMMA LeaveStep ==
  ASSUME plan \in Plans, Stack, Explored, [Next]_vars, Leave
  PROVE  Stack' /\ Explored'
<1> USE PlanFixed
<1> DEFINE n == Len(path)
           v == path[n]
<1>1. /\ path # <<>> /\ n \in Nat \ {0} /\ n = Len(rest) /\ DOMAIN path = 1 .. n
      /\ rest[n] = {} /\ UNCHANGED <<errors, visited>>
  BY DEF Leave, Stack, Top
<1>2. /\ path' \in Seq(Ids) /\ Len(path') = n - 1 /\ \A i \in 1 .. n - 1 : path'[i] = path[i]
      /\ rest' \in Seq(SUBSET Ids) /\ Len(rest') = n - 1
      /\ \A i \in 1 .. n - 1 : rest'[i] = rest[i]
  BY <1>1, SubSeqProperties DEF Leave, Stack
<1> HIDE DEF n
<1>3. DOMAIN path' = 1 .. n - 1
  BY <1>1, <1>2
<1>4. v \in OnPath /\ OnPath' = OnPath \ {v} /\ Done' = Done \cup {v}
  <2>1. v \in OnPath
    BY <1>1 DEF OnPath
  <2>2. OnPath' = OnPath \ {v}
    <3>1. \A i \in 1 .. n : i = n \/ i \in 1 .. n - 1
      BY <1>1
    <3>2. \A i \in 1 .. n - 1 : i \in 1 .. n /\ i # n /\ path[i] # v
      <4>1. \A i \in 1 .. n - 1 : i \in 1 .. n /\ i # n /\ n \in 1 .. n
        BY <1>1
      <4>2. \A i, j \in 1 .. n : path[i] = path[j] => i = j
        BY <1>1 DEF Stack
      <4> QED
        BY <4>1, <4>2
    <3>3. OnPath = {path[i] : i \in 1 .. n}
      BY <1>1 DEF OnPath
    <3>4. OnPath' = {path[i] : i \in 1 .. n - 1}
      BY <1>2, <1>3 DEF OnPath
    <3> HIDE DEF v
    <3> QED
      BY <3>1, <3>2, <3>3, <3>4 DEF v
  <2>3. v \in visited
    BY <2>1 DEF Stack
  <2> QED
    BY <1>1, <2>1, <2>2, <2>3 DEF Done
<1>5. Stack'
  <2>1. (Len(path) - 1)' = n - 2
    BY <1>1, <1>2
  <2>2. \A i \in 1 .. n - 2 : path'[i + 1] \in Deps(path'[i])
    <3> TAKE i \in 1 .. n - 2
    <3>1. i \in 1 .. n - 1 /\ i + 1 \in 1 .. n - 1
      BY <1>1
    <3> QED
      BY <1>2, <3>1 DEF Stack, n
  <2>3. /\ OnPath' \subseteq visited' /\ OnPath' \cap Skipped = {} /\ visited' \subseteq Ids
    BY <1>1, <1>4 DEF Stack
  <2>4. \A i \in 1 .. n - 1 : i \in 1 .. n
    BY <1>1
  <2>5. /\ \A i, j \in 1 .. n - 1 : path'[i] = path'[j] => i = j
        /\ \A i \in 1 .. n - 1 : rest'[i] \subseteq Deps(path'[i])
    BY <1>1, <1>2, <2>4 DEF Stack
  <2> QED
    BY <1>2, <1>3, <2>1, <2>2, <2>3, <2>5 DEF Stack
<1>6. Explored'
  <2>1. CASE "cycle" \in errors
    BY <1>1, <2>1 DEF Explored
  <2>2. CASE "cycle" \notin errors
    <3>1. Deps(v) \subseteq Done \cup Skipped
      BY <1>1, <2>2 DEF Explored, n
    <3>2. \A S \in SUBSET Done' : S # {} => HasFirst(S)
      BY <1>4, <2>2, <3>1, DoneGrows DEF Explored
    <3>3. \A i \in 1 .. n - 1 : \A d \in Deps(path'[i]) :
              d \in rest'[i] \cup Done' \cup Skipped \/ (i < n - 1 /\ d = path'[i + 1])
      <4> TAKE i \in 1 .. n - 1
      <4> TAKE d \in Deps(path'[i])
      <4>1. d \in rest[i] \cup Done \cup Skipped \/ d = path[i + 1]
        <5>1. i \in 1 .. n /\ i < n
          BY <1>1
        <5>2. path'[i] = path[i]
          BY <1>2
        <5> QED
          BY <1>1, <2>2, <5>1, <5>2 DEF Explored, n
      <4>2. CASE i = n - 1
        BY <1>1, <1>2, <1>4, <4>1, <4>2
      <4>3. CASE i # n - 1
        <5>1. i + 1 \in 1 .. n - 1
          BY <1>1, <4>3
        <5> QED
          BY <1>1, <1>2, <1>4, <4>1, <4>3, <5>1
      <4> QED
        BY <4>2, <4>3
    <3>4. \A id \in Done' : Deps(id) \subseteq Done' \cup Skipped
      BY <1>4, <2>2, <3>1 DEF Explored
    <3> QED
      BY <1>1, <1>2, <1>3, <2>2, <3>2, <3>3, <3>4 DEF Explored
  <2> QED
    BY <2>1, <2>2
<1> QED
  BY <1>5, <1>6

-----------------------------------------------------------------------------
(* The interfaces                                                          *)

\* The registry has, for every name of a module, the definition of one of its files.
LEMMA RegistryDefines ==
  ASSUME NEW T, NEW files \in Seq(T), NEW module \in Modules(files),
         NEW name \in NamesOf(files, module)
  PROVE  \E j \in FilesOf(files, module) :
            /\ name \in DOMAIN files[j].defs
            /\ Registry(files)[module][name] = files[j].defs[name]
<1> DEFINE having == {j \in FilesOf(files, module) : name \in DOMAIN files[j].defs}
           IsLast(j) == /\ name \in DOMAIN files[j].defs
                        /\ \A k \in FilesOf(files, module) :
                              name \in DOMAIN files[k].defs => k <= j
           last == CHOOSE j \in FilesOf(files, module) : IsLast(j)
<1>1. having # {} /\ having \in SUBSET (1 .. Len(files)) /\ Len(files) \in Nat
  BY DEF NamesOf, FilesOf
<1>2. Max(having) \in having /\ \A k \in having : k <= Max(having)
  BY <1>1, MaxOfPositions
<1>3. \E j \in FilesOf(files, module) : IsLast(j)
  BY <1>2
<1>4. last \in FilesOf(files, module) /\ IsLast(last)
  BY <1>3
<1>5. Registry(files)[module][name] = files[last].defs[name]
  BY DEF Registry
<1> QED
  BY <1>4, <1>5

\* Its names are those of the files.
LEMMA RegistryDomain ==
  ASSUME NEW files, NEW module \in Modules(files)
  PROVE  DOMAIN Registry(files)[module] = NamesOf(files, module)
  BY DEF Registry

\* What a name means is one of its definitions.
LEMMA MeaningsDefined ==
  ASSUME NEW T, NEW files \in Seq(T), NEW i \in DOMAIN files, NEW name,
         NEW info \in Meanings(files, i, name)
  PROVE  \E j \in DOMAIN files :
            name \in DOMAIN files[j].defs /\ info = files[j].defs[name]
<1>1. CASE name \in DOMAIN files[i].defs /\ info = files[i].defs[name]
  BY <1>1
<1>2. ASSUME NEW module \in Modules(files), name \in DOMAIN Registry(files)[module],
             info = Registry(files)[module][name]
      PROVE  \E j \in DOMAIN files :
                name \in DOMAIN files[j].defs /\ info = files[j].defs[name]
  <2>1. name \in NamesOf(files, module)
    BY <1>2, RegistryDomain
  <2>2. \E j \in FilesOf(files, module) :
            /\ name \in DOMAIN files[j].defs
            /\ Registry(files)[module][name] = files[j].defs[name]
    BY <2>1, RegistryDefines
  <2> QED
    BY <1>2, <2>2 DEF FilesOf
<1>3. CASE /\ name \in DOMAIN Registry(files)[files[i].module]
           /\ info = Registry(files)[files[i].module][name]
  BY <1>2, <1>3 DEF Modules
<1>4. CASE \E imp \in files[i].imports :
              name \in Brought(files, imp) /\ info = Registry(files)[imp.module][name]
  <2>1. PICK imp \in files[i].imports :
            name \in Brought(files, imp) /\ info = Registry(files)[imp.module][name]
    BY <1>4
  <2>2. imp.module \in Modules(files) /\ name \in DOMAIN Registry(files)[imp.module]
    BY <2>1 DEF Brought
  <2> QED
    BY <1>2, <2>1, <2>2
<1> QED
  BY <1>1, <1>3, <1>4 DEF Meanings

\* The only definition of a name, where it is in scope, is what the name means.
LEMMA OnlyMeaning ==
  ASSUME NEW T, NEW files \in Seq(T), NEW i \in DOMAIN files, NEW name,
         NEW j \in DOMAIN files,
         \A k \in DOMAIN files : name \in DOMAIN files[k].defs <=> k = j,
         Callable(files[j].defs[name]), files[j].defs[name].exported,
         \/ files[j].module = files[i].module
         \/ \E imp \in files[i].imports :
               imp.module = files[j].module /\ (name \in imp.names \/ imp.names = {})
  PROVE  Meanings(files, i, name) = {files[j].defs[name]}
<1> DEFINE info == files[j].defs[name]
<1>1. \A m \in Meanings(files, i, name) : m = info
  BY MeaningsDefined
<1>2. ASSUME NEW module \in Modules(files), module = files[j].module
      PROVE  name \in DOMAIN Registry(files)[module] /\ Registry(files)[module][name] = info
  <2>1. name \in NamesOf(files, module)
    BY <1>2 DEF NamesOf, FilesOf
  <2> QED
    BY <2>1, RegistryDomain, RegistryDefines DEF FilesOf
<1>3. files[j].module \in Modules(files)
  BY DEF Modules
<1>4. Meanings(files, i, name) # {}
  <2>1. CASE i = j
    BY <2>1 DEF Meanings
  <2>2. CASE i # j /\ files[j].module = files[i].module
    BY <1>2, <1>3, <2>2 DEF Meanings
  <2>3. CASE i # j /\ files[j].module # files[i].module
    <3>1. PICK imp \in files[i].imports :
              imp.module = files[j].module /\ (name \in imp.names \/ imp.names = {})
      BY <2>3
    <3>2. name \in Brought(files, imp) /\ Registry(files)[imp.module][name] = info
      BY <1>2, <1>3, <3>1 DEF Brought
    <3> QED
      BY <2>3, <3>1, <3>2 DEF Meanings
  <2> QED
    BY <2>1, <2>2, <2>3
<1> QED
  BY <1>1, <1>4

\* No import is missing exactly if every import has its definition.
LEMMA NothingMissing == MissingImports(plan.facts) = {} <=> ImportsExist
<1> DEFINE files == plan.facts
<1>1. \A imp : imp.module \in Modules(files) =>
          DOMAIN Registry(files)[imp.module] = NamesOf(files, imp.module)
  BY RegistryDomain
<1> QED
  BY <1>1 DEF MissingImports, ImportsExist

\* A verdict of agreement means that imports exist and calls fit.
LEMMA ConsistentFits ==
  ASSUME plan \in Plans, "consistent" \in ContractVerdicts(plan.facts)
  PROVE  ImportsExist /\ CallsFit
<1> DEFINE files == plan.facts
           calls == UNION {{<<i, call>> : call \in files[i].calls} : i \in DOMAIN files}
<1>1. files \in Seq({files[i] : i \in DOMAIN files})
  BY PlansAssumption
<1>2. /\ MissingImports(files) = {}
      /\ \A p \in calls : Meanings(files, p[1], p[2].callee) # {} =>
            \E info \in Meanings(files, p[1], p[2].callee) : Fits(p[2], info)
  BY DEF ContractVerdicts
<1>3. ASSUME NEW i \in DOMAIN files, NEW call \in files[i].calls, NEW j \in DOMAIN files,
             \A k \in DOMAIN files : call.callee \in DOMAIN files[k].defs <=> k = j,
             Callable(files[j].defs[call.callee]), files[j].defs[call.callee].exported,
             \/ files[j].module = files[i].module
             \/ \E imp \in files[i].imports :
                   /\ imp.module = files[j].module
                   /\ call.callee \in imp.names \/ imp.names = {}
      PROVE  Fits(call, files[j].defs[call.callee])
  <2>1. Meanings(files, i, call.callee) = {files[j].defs[call.callee]}
    BY <1>1, <1>3, OnlyMeaning
  <2>2. <<i, call>> \in calls
    OBVIOUS
  <2> QED
    BY <1>2, <2>1, <2>2
<1>4. CallsFit
  <2> SUFFICES ASSUME NEW i \in DOMAIN files, NEW call \in files[i].calls,
                      NEW j \in DOMAIN files,
                      {k \in DOMAIN files : call.callee \in DOMAIN files[k].defs} = {j},
                      \/ files[j].module = files[i].module
                      \/ \E imp \in files[i].imports :
                            /\ imp.module = files[j].module
                            /\ call.callee \in imp.names \/ imp.names = {},
                      Callable(files[j].defs[call.callee]),
                      files[j].defs[call.callee].exported
               PROVE  Fits(call, files[j].defs[call.callee])
    BY DEF CallsFit
  <2>1. \A k \in DOMAIN files : call.callee \in DOMAIN files[k].defs <=> k = j
    OBVIOUS
  <2> QED
    BY <1>3, <2>1
<1> QED
  BY <1>2, <1>4, NothingMissing

\* A call that does not fit the only thing it can mean, or one of them.
Misfit ==
    \E i \in DOMAIN plan.facts : \E call \in plan.facts[i].calls :
        \E j \in DOMAIN plan.facts :
            /\ call.callee \in DOMAIN plan.facts[j].defs
            /\ ~Fits(call, plan.facts[j].defs[call.callee])

\* A verdict of mismatch has a missing import or a misfit call behind it.
LEMMA MismatchExplained ==
  ASSUME plan \in Plans, "mismatch" \in ContractVerdicts(plan.facts), ImportsExist
  PROVE  Misfit
<1> DEFINE files == plan.facts
           calls == UNION {{<<i, call>> : call \in files[i].calls} : i \in DOMAIN files}
<1>1. files \in Seq({files[i] : i \in DOMAIN files})
  BY PlansAssumption
<1>2. \E p \in calls : \E info \in Meanings(files, p[1], p[2].callee) : ~Fits(p[2], info)
  BY NothingMissing DEF ContractVerdicts
<1>3. PICK i \in DOMAIN files : \E call \in files[i].calls :
          \E info \in Meanings(files, i, call.callee) : ~Fits(call, info)
  BY <1>2
<1>4. PICK call \in files[i].calls :
          \E info \in Meanings(files, i, call.callee) : ~Fits(call, info)
  BY <1>3
<1>5. PICK info \in Meanings(files, i, call.callee) : ~Fits(call, info)
  BY <1>4
<1> HIDE DEF files
<1>6. \E j \in DOMAIN files :
          call.callee \in DOMAIN files[j].defs /\ info = files[j].defs[call.callee]
  BY <1>1, MeaningsDefined
<1> QED
  BY <1>5, <1>6 DEF Misfit, files

-----------------------------------------------------------------------------
(* The verdict                                                             *)

\* What the checks before the search look at.
StructureOK ==
    /\ ~Overlap /\ ~WeightsOff
    /\ mode = "scaffold" => 
          /\ plan.broken = {} /\ plan.unresolved \cap (plan.stubs \cup plan.tests) = {}
          /\ ~plan.dangling
    /\ mode = "diff" =>
          /\ plan.subtasks # <<>>
          /\ \A s \in Subtasks : s.complete /\ s.files # {} /\ s.deps \subseteq KnownIds
          /\ AllFiles \subseteq plan.existing /\ AllTests \cap plan.existing = {}
          /\ AllFiles \subseteq plan.stubs /\ AllTests \subseteq plan.tests

Structural == {"syntax", "imports", "repository", "fields", "overlap", "weights",
               "paths", "content", "dependencies"}

\* The errors so far say what the checks so far have found.
Findings ==
    /\ step = "structure" => errors = {} /\ visited = {} /\ path = <<>> /\ rest = <<>>
    /\ step = "cycles" =>
          /\ errors \subseteq Structural \cup {"alias", "cycle"}
          /\ errors \subseteq {"alias", "cycle"} <=> StructureOK
          /\ "alias" \in errors <=> Linted
    /\ step = "content" =>
          /\ mode = "scaffold"
          /\ errors \subseteq Structural \cup {"alias", "cycle"}
          /\ errors \subseteq {"alias"} <=> StructureOK /\ Acyclic
          /\ "alias" \in errors <=> Linted
    /\ step = "contracts" => mode = "scaffold" /\ Sound /\ ~Linted /\ errors = {}
    /\ step = "stubTests" =>
          mode = "scaffold" /\ Sound /\ ~Linted /\ ImportsExist /\ CallsFit /\ errors \subseteq {"stub tests"}

\* The stub tests are run once, and a test that is not seen to fail is an error.
Tests ==
    /\ toRun \subseteq AllTests /\ failedTests \subseteq AllTests
    /\ step \notin {"stubTests", "accepted", "rejected", "raised"} => ~written
    /\ step \in {"stubTests"} /\ ~written => toRun = {}
    /\ written => Sound /\ ImportsExist /\ mode = "scaffold"
    /\ step = "stubTests" /\ written /\ errors = {} => AllTests \subseteq toRun \cup failedTests
    /\ ~written => toRun = {}
    /\ step = "accepted" /\ mode = "scaffold" => failedTests = AllTests

IInv ==
    /\ TypeOK /\ plan \in Plans
    /\ Stack /\ Explored
    /\ Findings /\ Tests
    /\ StructureDecides /\ ContractsDecide

\* Sound is what the checks before the search, the search, and the content check find.
LEMMA SoundParts ==
  ASSUME mode \in {"scaffold", "diff"}
  PROVE  Sound <=> StructureOK /\ Acyclic /\ (mode = "scaffold" => ~ContentMissing)
<1>1. ~ContentMissing <=> /\ \A s \in Subtasks : s.tests # {}
                          /\ AllFiles \subseteq plan.stubs /\ AllTests \subseteq plan.tests
  BY DEF ContentMissing, AllFiles, AllTests
<1> QED
  BY <1>1 DEF Sound, StructureOK

\* What a plan is like does not change while it is looked at.
LEMMA JudgementFixed ==
  ASSUME [Next]_vars
  PROVE  /\ Sound' <=> Sound
         /\ StructureOK' <=> StructureOK
         /\ Linted' <=> Linted
         /\ ImportsExist' <=> ImportsExist
         /\ CallsFit' <=> CallsFit
         /\ Misfit' <=> Misfit
         /\ AllTests' = AllTests
<1>1. UNCHANGED <<mode, plan>> /\ Acyclic' = Acyclic /\ KnownIds' = KnownIds
  BY PlanFixed
<1>2. Subtasks' = Subtasks /\ AllFiles' = AllFiles /\ AllTests' = AllTests
  BY <1>1 DEF Subtasks, AllFiles, AllTests
<1>3. Overlap' <=> Overlap
  BY <1>1 DEF Overlap
<1>4. WeightsOff' <=> WeightsOff
  BY <1>1 DEF WeightsOff
<1>5. /\ Sound' <=> Sound
      /\ StructureOK' <=> StructureOK
      /\ Linted' <=> Linted
  BY <1>1, <1>2, <1>3, <1>4 DEF Sound, StructureOK, Linted
<1>6. /\ ImportsExist' <=> ImportsExist
      /\ CallsFit' <=> CallsFit
      /\ Misfit' <=> Misfit
  BY <1>1 DEF ImportsExist, CallsFit, Misfit
<1> QED
  BY <1>2, <1>5, <1>6

\* No structural check of a scaffold but the lint reports an error exactly if its structure
\* is right.
LEMMA ScaffoldStructureFinds ==
  ASSUME plan \in Plans, ScaffoldStructure
  PROVE  /\ errors' \subseteq Structural \cup {"alias"}
         /\ errors' \subseteq {"alias"} <=> StructureOK
         /\ "alias" \in errors' <=> Linted
<1> DEFINE syntax == plan.broken # {}
           alias == plan.aliased # {}
           imports == (plan.unresolved \ plan.broken) \cap (plan.stubs \cup plan.tests) # {}
           repository == plan.dangling
           checks == [syntax |-> syntax, alias |-> alias, imports |-> imports,
                      repository |-> repository, overlap |-> Overlap, weights |-> WeightsOff]
<1>1. errors' = {name \in DOMAIN checks : checks[name]}
  BY DEF ScaffoldStructure, Reporting
<1>2. repository \in BOOLEAN
  BY PlansAssumption
<1> HIDE DEF syntax, alias, imports, repository
<1>3. DOMAIN checks = {"syntax", "alias", "imports", "repository", "overlap", "weights"}
  OBVIOUS
<1>4. errors' \subseteq {"alias"} <=> ~syntax /\ ~imports /\ ~repository /\ ~Overlap /\ ~WeightsOff
  BY <1>1, <1>2, <1>3
<1>5. errors' \subseteq Structural \cup {"alias"} /\ ("alias" \in errors' <=> alias)
  BY <1>1, <1>3 DEF Structural
<1>6. ~syntax /\ ~imports /\ ~repository <=>
          /\ plan.broken = {} /\ plan.unresolved \cap (plan.stubs \cup plan.tests) = {}
          /\ ~plan.dangling
  BY DEF syntax, imports, repository
<1> QED
  BY <1>4, <1>5, <1>6 DEF StructureOK, ScaffoldStructure, Linted, alias

\* And likewise of a diff that has all its fields.
LEMMA DiffStructureFinds ==
  ASSUME DiffStructure
  PROVE  errors' \subseteq Structural /\ (errors' = {} <=> StructureOK)
<1> DEFINE paths == \/ \E s \in Subtasks : s.files = {}
                    \/ ~(AllFiles \subseteq plan.existing)
                    \/ AllTests \cap plan.existing # {}
           content == ~(AllFiles \subseteq plan.stubs /\ AllTests \subseteq plan.tests)
           dependencies == \E s \in Subtasks : ~(s.deps \subseteq KnownIds)
           checks == [weights |-> WeightsOff, paths |-> paths, overlap |-> Overlap,
                      content |-> content, dependencies |-> dependencies]
<1>1. errors' = {name \in DOMAIN checks : checks[name]}
  BY DEF DiffStructure, Reporting
<1> HIDE DEF paths, content, dependencies
<1>2. DOMAIN checks = {"weights", "paths", "overlap", "content", "dependencies"}
  OBVIOUS
<1>3. errors' = {} <=> ~WeightsOff /\ ~paths /\ ~Overlap /\ ~content /\ ~dependencies
  BY <1>1, <1>2
<1>4. errors' \subseteq Structural
  BY <1>1, <1>2 DEF Structural
<1> QED
  BY <1>3, <1>4 DEF StructureOK, DiffStructure, paths, content, dependencies

\* Every step of the search preserves its invariant, and no other step looks at it.
LEMMA SearchStep ==
  ASSUME plan \in Plans, Stack, Explored, Findings, [Next]_vars
  PROVE  Stack' /\ Explored'
<1>1. CASE Root
  BY <1>1, RootStep
<1>2. CASE FindCycle \/ PassOver
  BY <1>2, SkipStep
<1>3. CASE Descend
  BY <1>3, DescendStep
<1>4. CASE Leave
  BY <1>4, LeaveStep
<1>5. ASSUME UNCHANGED dfsVars, "cycle" \in errors' <=> "cycle" \in errors
      PROVE  Stack' /\ Explored'
  <2>1. OnPath' = OnPath /\ Done' = Done
    BY <1>5 DEF OnPath, Done, dfsVars
  <2> QED
    BY <1>5, <2>1, PlanFixed DEF Stack, Explored, dfsVars
<1>6. CASE ScaffoldStructure
  <2>1. "cycle" \notin errors' /\ "cycle" \notin errors
    BY <1>6, ScaffoldStructureFinds DEF Structural, Findings, ScaffoldStructure
  <2> QED
    BY <1>5, <1>6, <2>1 DEF ScaffoldStructure
<1>7. CASE DiffStructure
  <2>1. "cycle" \notin errors' /\ "cycle" \notin errors
    BY <1>7, DiffStructureFinds DEF Structural, Findings, DiffStructure
  <2> QED
    BY <1>5, <1>7, <2>1 DEF DiffStructure
<1>8. CASE DiffBails
  BY <1>5, <1>8 DEF DiffBails, Findings
<1>9. CASE SearchEnds \/ CheckContent \/ CheckContracts \/ WriteCandidate \/ WriteFails
           \/ RunStubTest \/ Finish
  <2>1. UNCHANGED dfsVars
    BY <1>9 DEF SearchEnds, CheckContent, CheckContracts, WriteCandidate,
        WriteFails, RunStubTest, Finish, dfsVars
  <2>2. CASE SearchEnds \/ WriteCandidate \/ WriteFails \/ Finish
    BY <1>5, <2>1, <2>2 DEF SearchEnds, WriteCandidate, WriteFails, Finish
  <2>3. CASE CheckContent
    BY <1>5, <2>1, <2>3 DEF CheckContent
  <2>4. CASE CheckContracts
    BY <1>5, <2>1, <2>4 DEF CheckContracts
  <2>5. CASE RunStubTest
    BY <1>5, <2>1, <2>5 DEF RunStubTest
  <2> QED
    BY <1>9, <2>2, <2>3, <2>4, <2>5
<1>10. CASE UNCHANGED vars
  BY <1>5, <1>10 DEF vars, dfsVars
<1> QED
  BY <1>1, <1>2, <1>3, <1>4, <1>6, <1>7, <1>8, <1>9, <1>10 DEF Next

\* Where the search ends it has visited every subtask, and so knows of every cycle.
LEMMA SearchDecides ==
  ASSUME Explored, SearchEnds
  PROVE  "cycle" \notin errors <=> Acyclic
<1>1. path = <<>> /\ KnownIds \subseteq visited
  BY DEF SearchEnds
<1>2. OnPath = {} /\ KnownIds \subseteq Done
  BY <1>1 DEF OnPath, Done
<1>3. CASE "cycle" \in errors
  BY <1>3 DEF Explored
<1>4. CASE "cycle" \notin errors
  <2>1. \A S \in (SUBSET KnownIds) \ {{}} : HasFirst(S)
    BY <1>2, <1>4 DEF Explored
  <2> QED
    BY <1>4, <2>1 DEF Acyclic, HasFirst
<1> QED
  BY <1>3, <1>4

\* Every step keeps the verdict what the plan deserves.
LEMMA VerdictStep ==
  ASSUME TypeOK, plan \in Plans, Stack, Explored, Findings, Tests,
         StructureDecides, ContractsDecide, [Next]_vars
  PROVE  Findings' /\ Tests' /\ StructureDecides' /\ ContractsDecide'
<1> USE JudgementFixed, PlanFixed
<1> DEFINE Contracts == /\ step = "accepted" /\ mode = "scaffold" => ImportsExist /\ CallsFit
                        /\ "contracts" \in errors /\ ImportsExist => Misfit
<1>1. Contracts /\ (Contracts' => ContractsDecide')
  BY DEF ContractsDecide, Misfit
<1>2. mode' = mode /\ mode \in {"scaffold", "diff"}
  BY DEF TypeOK
<1> SUFFICES Findings' /\ Tests' /\ StructureDecides' /\ Contracts'
  BY <1>1
<1>3. CASE ScaffoldStructure
  BY <1>2, <1>3, ScaffoldStructureFinds
  DEF ScaffoldStructure, testVars, dfsVars, Structural, Findings, Tests, StructureDecides
<1>4. CASE DiffBails
  <2>1. ~Sound
    BY <1>4 DEF DiffBails, Sound
  <2>2. /\ step = "structure" /\ step' = "rejected" /\ errors' = {"fields"}
        /\ UNCHANGED testVars
    BY <1>4 DEF DiffBails
  <2>3. Findings' /\ StructureDecides' /\ Contracts'
    BY <2>1, <2>2 DEF Findings, StructureDecides
  <2>4. Tests'
    BY <2>2 DEF Tests, testVars
  <2> QED
    BY <2>3, <2>4
<1>5. CASE DiffStructure
  <2>1. /\ step = "structure" /\ step' = "cycles" /\ UNCHANGED testVars
        /\ errors' \subseteq Structural /\ (errors' = {} <=> StructureOK)
    BY <1>5, DiffStructureFinds DEF DiffStructure
  <2>2. ~Linted /\ "alias" \notin errors' /\ "cycle" \notin errors' /\ "contracts" \notin errors'
    BY <1>5, <2>1 DEF DiffStructure, Linted, Structural
  <2>3. Findings'
    BY <2>1, <2>2 DEF Findings
  <2>4. Tests'
    BY <2>1 DEF Tests, testVars
  <2> QED
    BY <2>1, <2>2, <2>3, <2>4 DEF StructureDecides
<1>6. CASE Root \/ PassOver \/ Descend \/ Leave
  <2>1. step = "cycles" /\ UNCHANGED <<step, errors, testVars>>
    BY <1>6 DEF Root, PassOver, Descend, Leave
  <2>2. Findings' /\ StructureDecides' /\ Contracts'
    BY <1>1, <1>2, <2>1 DEF Findings, StructureDecides
  <2>3. Tests'
    BY <2>1 DEF Tests, testVars
  <2> QED
    BY <2>2, <2>3
<1>7. CASE FindCycle
  <2>1. ~Acyclic
    BY <1>7, CycleFound DEF FindCycle, ClosesCycle
  <2>2. ~Sound
    BY <2>1 DEF Sound
  <2> QED
    BY <1>1, <1>2, <1>7, <2>2
    DEF FindCycle, testVars, Structural, Findings, Tests, StructureDecides
<1>8. CASE SearchEnds
  <2>1. errors \subseteq {"alias"} <=> StructureOK /\ Acyclic
    BY <1>8, SearchDecides DEF SearchEnds, Findings
  <2>2. mode = "diff" => (Sound <=> StructureOK /\ Acyclic)
    BY <1>2, SoundParts
  <2>3. /\ step = "cycles" /\ UNCHANGED <<errors, testVars>>
        /\ step' = IF mode = "diff" THEN Verdict ELSE "content"
    BY <1>8 DEF SearchEnds
  <2>4. /\ errors \subseteq Structural \cup {"alias", "cycle"}
        /\ "alias" \in errors <=> Linted
        /\ mode = "diff" => ~Linted
    BY <1>2, <2>3 DEF Findings, Linted
  <2>5. "contracts" \notin errors
    BY <2>4 DEF Structural
  <2>6. Findings'
    BY <1>2, <2>1, <2>3, <2>4 DEF Findings, Verdict
  <2>7. StructureDecides' /\ Contracts'
    <3>1. mode = "diff" => (errors = {} <=> Sound)
      BY <2>1, <2>2, <2>4
    <3> QED
      BY <1>2, <2>3, <2>4, <2>5, <3>1 DEF StructureDecides, Verdict
  <2>8. Tests'
    BY <1>2, <2>3 DEF Tests, testVars, Verdict
  <2> QED
    BY <2>6, <2>7, <2>8
<1>9. CASE CheckContent
  <2>1. Sound <=> StructureOK /\ Acyclic /\ ~ContentMissing
    BY <1>2, <1>9, SoundParts DEF CheckContent, Findings
  <2>2. /\ errors' \subseteq {"alias"} <=> Sound
        /\ "alias" \in errors' <=> Linted
    BY <1>9, <2>1 DEF CheckContent, Findings
  <2>3. "contracts" \notin errors'
    BY <1>9 DEF CheckContent, Findings, Structural
  <2> QED
    BY <1>2, <1>9, <2>2, <2>3
    DEF CheckContent, testVars, dfsVars, Findings, Tests, StructureDecides
<1>10. CASE CheckContracts
  <2>1. mode = "scaffold" /\ Sound /\ ~Linted /\ errors = {}
    BY <1>10 DEF CheckContracts, Findings
  <2>2. CASE errors' = errors \cup {"contracts"} /\ step' = "rejected"
             /\ "mismatch" \in ContractVerdicts(plan.facts)
    BY <1>2, <1>10, <2>1, <2>2, MismatchExplained
    DEF CheckContracts, testVars, dfsVars, Findings, Tests, StructureDecides
  <2>3. CASE errors' = errors /\ step' = "stubTests"
             /\ "consistent" \in ContractVerdicts(plan.facts)
    BY <1>2, <1>10, <2>1, <2>3, ConsistentFits
    DEF CheckContracts, testVars, dfsVars, Findings, Tests, StructureDecides
  <2> QED
    BY <1>10, <2>2, <2>3 DEF CheckContracts, ContractVerdicts
<1>11. CASE WriteCandidate
  BY <1>1, <1>2, <1>11
  DEF WriteCandidate, dfsVars, Findings, Tests, StructureDecides
<1>12. CASE WriteFails
  BY <1>1, <1>2, <1>12
  DEF WriteFails, dfsVars, Findings, Tests, StructureDecides
<1>13. CASE RunStubTest
  BY <1>1, <1>2, <1>13
  DEF RunStubTest, dfsVars, Findings, Tests, StructureDecides
<1>14. CASE Finish
  BY <1>1, <1>2, <1>14
  DEF Finish, FinalVerdict, Verdict, testVars, dfsVars, Findings, Tests, StructureDecides
<1>15. CASE UNCHANGED vars
  <2>1. UNCHANGED <<step, errors, visited, path, rest, toRun, failedTests, written>>
    BY <1>15 DEF vars
  <2>2. Findings'
    <3>1. CASE step = "cycles"
      BY <2>1, <3>1 DEF Findings
    <3>2. CASE step = "content"
      BY <1>2, <2>1, <3>2 DEF Findings
    <3>3. CASE step \notin {"cycles", "content"}
      BY <1>2, <2>1, <3>3 DEF Findings
    <3> QED
      BY <3>1, <3>2, <3>3
  <2>3. StructureDecides' /\ Contracts'
    BY <1>1, <1>2, <2>1 DEF StructureDecides
  <2>4. Tests'
    BY <2>1, <1>2 DEF Tests
  <2> QED
    BY <2>2, <2>3, <2>4
<1> QED
  BY <1>3, <1>4, <1>5, <1>6, <1>7, <1>8, <1>9, <1>10, <1>11, <1>12, <1>13, <1>14,
     <1>15
  DEF Next

\* Every step preserves the type invariant.
LEMMA TypeStep ==
  ASSUME TypeOK, plan \in Plans, Findings, Tests, Stack', Tests', [Next]_vars
  PROVE  TypeOK'
<1> DEFINE Checks == {"syntax", "alias", "imports", "repository", "fields", "overlap", "weights",
                      "cycle", "paths", "content", "dependencies", "contracts", "stub tests"}
<1>1. mode' \in {"scaffold", "diff"}
  BY PlanFixed DEF TypeOK
<1>2. errors' \subseteq Checks
  <2>1. CASE ScaffoldStructure \/ DiffStructure
    BY <2>1, ScaffoldStructureFinds, DiffStructureFinds DEF Structural
  <2>2. CASE ~(ScaffoldStructure \/ DiffStructure)
    BY <2>2 DEF TypeOK, Next, vars, DiffBails, Root, FindCycle, PassOver, Descend, Leave,
        SearchEnds, CheckContent, CheckContracts, WriteCandidate, WriteFails, RunStubTest,
        Finish
  <2> QED
    BY <2>1, <2>2
<1>3. step' \in Steps /\ written' \in BOOLEAN
  BY DEF TypeOK, Steps, Next, vars, testVars, ScaffoldStructure, DiffBails, DiffStructure,
      Root, FindCycle, PassOver, Descend, Leave, SearchEnds, Verdict, CheckContent,
      CheckContracts, WriteCandidate, WriteFails, RunStubTest, Finish, FinalVerdict
<1> QED
  BY <1>1, <1>2, <1>3 DEF TypeOK, Stack, Tests

\* The inductive invariant holds in every reachable state.
THEOREM DecompositionSafety == Spec => []IInv
<1>1. Init => IInv
  <2> SUFFICES ASSUME Init
               PROVE  IInv
    OBVIOUS
  <2>1. Stack /\ Explored
    BY SearchStart DEF Init
  <2>2. TypeOK
    BY <2>1 DEF Init, TypeOK, Steps, Stack
  <2>3. Findings /\ Tests
    BY DEF Init, Findings, Tests
  <2>4. StructureDecides /\ ContractsDecide
    BY DEF Init, StructureDecides, ContractsDecide
  <2> QED
    BY <2>1, <2>2, <2>3, <2>4 DEF Init, IInv
<1>2. IInv /\ [Next]_vars => IInv'
  BY PlanFixed, SearchStep, VerdictStep, TypeStep DEF IInv
<1> QED
  BY <1>1, <1>2, PTL DEF Spec

\* Every variable of the validators keeps its type.
THEOREM ChecksTypeCorrect == Spec => []TypeOK
  BY DecompositionSafety, PTL DEF IInv

\* For every plan and every order of the search, what validate_decomposition and
\* validate_diff_decomposition accept fits together, and what they refuse before the
\* contracts does not, unless it has the text the lint for aliases looks for.
THEOREM StructureDecidesHolds == Spec => []StructureDecides
  BY DecompositionSafety, PTL DEF IInv

\* An accepted scaffold imports what is there and calls it with arguments that fit, and
\* one that is refused for its contracts misses an import or has a misfit call
\* (check_interface_contracts).
THEOREM ContractsDecideHolds == Spec => []ContractsDecide
  BY DecompositionSafety, PTL DEF IInv

\* The repository is written to for sound plans only, and a scaffold is accepted only
\* after each of its stub tests was seen to fail (verify_stub_tests_fail).
THEOREM StubTestsFailHolds == Spec => []StubTestsFail
<1>1. IInv => StubTestsFail
  BY DEF IInv, Tests, StubTestsFail
<1> QED
  BY DecompositionSafety, <1>1, PTL

================================================================================
