-------------------------- MODULE InterfaceContracts --------------------------
(***************************************************************************)
(* check_interface_contracts (validator/validator_checks_common.py): do the*)
(* files of a scaffold import names that exist and call them with a fitting*)
(* number of arguments?                                                    *)
(*                                                                         *)
(* A file is a record of the facts its parser extracts:                    *)
(*   module   the module it belongs to; several files may share one        *)
(*   defs     name -> [kind, min, max, exported, params, methods]; params  *)
(*            says whether it has any, methods gives the bounds of those   *)
(*            methods of a class that could be its constructor             *)
(*   imports  {[module, names]}; no names: everything exported is in scope *)
(*   calls    {[callee, args]}                                             *)
(* A list of files is a sequence: of two definitions in one module, that of*)
(* the later file counts.  Bounds no call exceeds stand for variable       *)
(* arguments.                                                              *)
(***************************************************************************)
LOCAL INSTANCE Naturals
LOCAL INSTANCE Sequences

Modules(files) == {files[i].module : i \in DOMAIN files}
FilesOf(files, module) == {i \in DOMAIN files : files[i].module = module}
NamesOf(files, module) == UNION {DOMAIN files[i].defs : i \in FilesOf(files, module)}

\* Mutation: the registry keeps the names of a module's last file only.
RegistryOfLast(files) ==
    [module \in Modules(files) |->
        files[CHOOSE i \in FilesOf(files, module) :
                  \A j \in FilesOf(files, module) : j <= i].defs]

\* Names accumulate over the files of a module; a later file's definition wins.
Registry(files) ==
    [module \in Modules(files) |->
        [name \in NamesOf(files, module) |->
            LET i == CHOOSE i \in FilesOf(files, module) :
                        /\ name \in DOMAIN files[i].defs
                        /\ \A j \in FilesOf(files, module) :
                              name \in DOMAIN files[j].defs => j <= i
            IN  files[i].defs[name]]]

\* Imports of a module no file belongs to are none of this check's business.
MissingImports(files) ==
    {imp \in UNION {files[i].imports : i \in DOMAIN files} :
        /\ imp.module \in Modules(files)
        /\ ~(imp.names \subseteq DOMAIN Registry(files)[imp.module])}

Callable(info) == info.kind \in {"class", "function"}

\* Names an import brings into a file.
Brought(files, imp) ==
    LET known == Registry(files)[imp.module]
    IN  IF imp.module \notin Modules(files) THEN {}
        ELSE IF imp.names = {} THEN {n \in DOMAIN known : known[n].exported}
        ELSE imp.names \cap DOMAIN known

\* What a name means in file i: first its own definition, then its module's,
\* then an import's (imports of one name from two modules: either).
Meanings(files, i, name) ==
    LET own == files[i].defs
        siblings == Registry(files)[files[i].module]
    IN  IF name \in DOMAIN own /\ Callable(own[name]) THEN {own[name]}
        ELSE IF name \in DOMAIN siblings /\ Callable(siblings[name]) THEN {siblings[name]}
        ELSE {info \in {Registry(files)[imp.module][name] :
                  imp \in {p \in files[i].imports : name \in Brought(files, p)}} :
                      Callable(info)}

\* _constructor_for: at most one; the class itself if it has parameters, as a record has.
ConstructorNames == <<"__init__", "constructor", "name of the class">>
ConstructorFor(info) ==
    LET named == SelectSeq(ConstructorNames, LAMBDA name : name \in DOMAIN info.methods)
    IN  IF named # <<>> THEN {info.methods[Head(named)]}
        ELSE IF info.params THEN {info} ELSE {}

Callee(info) == IF info.kind = "class" THEN ConstructorFor(info) ELSE {info}

Fits(call, info) ==
    \A callee \in Callee(info) : callee.min <= call.args /\ call.args <= callee.max

\* The verdicts the check can reach; the order of the imports decides.
ContractVerdicts(files) ==
    LET calls == UNION {{<<i, call>> : call \in files[i].calls} : i \in DOMAIN files}
        never == \E p \in calls : LET m == Meanings(files, p[1], p[2].callee)
                                  IN  m # {} /\ \A info \in m : ~Fits(p[2], info)
        maybe == \E p \in calls : \E info \in Meanings(files, p[1], p[2].callee) :
                                     ~Fits(p[2], info)
    IN  IF MissingImports(files) # {} \/ never THEN {"mismatch"}
        ELSE IF maybe THEN {"mismatch", "consistent"}
        ELSE {"consistent"}

==============================================================================
