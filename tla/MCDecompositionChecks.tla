------------------------ MODULE MCDecompositionChecks -------------------------
(* Instances of DecompositionChecks for TLC: every dependency graph of three    *)
(* subtasks, every combination of a few faults in a plan of two, and a handful  *)
(* of scaffolds that agree, or do not, about their interfaces.                  *)
EXTENDS DecompositionChecks, TLC

Subtask(id, deps) ==
    [id |-> id, files |-> {"file " \o id}, tests |-> {"test " \o id}, deps |-> deps,
     weight |-> 33, complete |-> TRUE]

Info(kind, min, max, exported) ==
    [kind |-> kind, min |-> min, max |-> max, exported |-> exported, params |-> max > 0,
     methods |-> [n \in {} |-> 0]]
Class(methods) == [Info("class", 0, 0, TRUE) EXCEPT !.methods = methods]
File(module, defs, imports, calls) ==
    [module |-> module, defs |-> defs, imports |-> imports, calls |-> calls]
NoDefs == [n \in {} |-> Info("function", 0, 0, TRUE)]
Import(module, names) == [module |-> module, names |-> names]
Call(callee, args) == [callee |-> callee, args |-> args]

OneFile == <<File("lib", "f" :> Info("function", 1, 2, TRUE), {}, {})>>

Base(subtasks) ==
    LET all == {subtasks[i] : i \in DOMAIN subtasks}
    IN  [subtasks |-> subtasks,
         stubs |-> UNION {s.files : s \in all}, tests |-> UNION {s.tests : s \in all},
         broken |-> {}, aliased |-> {}, unresolved |-> {}, dangling |-> FALSE, facts |-> OneFile,
         existing |-> UNION {s.files : s \in all}]

\* Dependencies of three subtasks, and of an id that is given twice.
Graphs3 ==
    {Base(<<Subtask("a", p), Subtask("b", q), [Subtask("c", r) EXCEPT !.weight = 34]>>) :
        p \in SUBSET {"a", "b", "c", "x"}, q \in SUBSET {"a", "c"}, r \in SUBSET {"a", "b", "x"}}
Twice ==
    {Base(<<Subtask("a", p), Subtask("b", q),
            [Subtask("a", r) EXCEPT !.weight = 34, !.files = {"file a2"}]>>) :
        p \in SUBSET {"b"}, q \in SUBSET {"a"}, r \in SUBSET {"b"}}

Faulty ==
    {[Base(<<[Subtask("a", {}) EXCEPT !.weight = w, !.complete = c, !.tests = t],
             [Subtask("b", {"a"}) EXCEPT !.weight = 50, !.files = f]>>)
        EXCEPT !.stubs = s, !.broken = b, !.aliased = l, !.unresolved = u, !.dangling = d,
               !.existing = e] :
        w \in {48, 49, 50, 51, 52}, c \in BOOLEAN, t \in {{}, {"test a"}},
        f \in {{}, {"file b"}, {"file b", "file a"}},
        s \in {{"file a"}, {"file a", "file b"}},
        b \in {{}, {"file a"}}, l \in {{}, {"file a"}},
        u \in {{}, {"file a"}, {"shared file"}}, d \in BOOLEAN,
        e \in {{"file a", "file b"}, {"file b"}, {"file a", "file b", "test b"}}}

\* A module of one file or two, and a file that imports from it and calls.
Interfaces ==
    {[Base(<<[Subtask("a", {}) EXCEPT !.weight = 100]>>)
        EXCEPT !.facts = lib \o <<File("app", own, imports, {Call("f", n)})>>] :
        lib \in {OneFile,
                 <<File("lib", "f" :> Info("function", 1, 2, TRUE), {}, {}),
                   File("lib", "g" :> Class("__init__" :> [min |-> 0, max |-> 0]), {}, {Call("f", 0)})>>,
                 <<File("lib", "f" :> Class(("name of the class" :> [min |-> 0, max |-> 0])
                                            @@ ("constructor" :> [min |-> 2, max |-> 3])), {}, {}),
                   File("lib", "g" :> Info("class", 0, 0, TRUE), {}, {Call("g", 3)})>>,
                 <<File("lib", "f" :> Info("function", 1, 2, FALSE), {}, {}),
                   File("tool", "f" :> Info("function", 0, 1, TRUE), {}, {})>>,
                 <<File("lib", "f" :> Info("variable", 0, 0, TRUE), {}, {})>>},
        own \in {NoDefs, "f" :> Info("function", 0, 0, TRUE)},
        imports \in {{}, {Import("lib", {})}, {Import("lib", {"f"})}, {Import("lib", {"g"})},
                     {Import("lib", {"f"}), Import("tool", {})}, {Import("os", {"f"})}},
        n \in 0 .. 3}

MCPlans == {Base(<<>>)} \cup Graphs3 \cup Twice \cup Faulty \cup Interfaces
===============================================================================
