----------------------------- MODULE TestRunners ------------------------------
(***************************************************************************)
(* Which command runs a repository's tests, and whether it can.  The gates *)
(* of a diff task go by the build system found on disk (test_runners.py);  *)
(* those of a scaffold task by the language the validator's environment    *)
(* names (test_runner.py).  Both run in the sandbox (sandbox.py).          *)
(***************************************************************************)
LOCAL INSTANCE Naturals
LOCAL INSTANCE Sequences

\* The build systems detect_runner looks for, in its order, each called by its runner.
\* A package.json that names none of the first three marks nothing; the last is a
\* compiler, for sources without any of the others.
Preference == <<"vitest", "jest", "mocha", "mvn", "gradle", "dotnet", "cargo", "ctest",
                "make", "cc -c">>
Marks == {Preference[i] : i \in DOMAIN Preference}

DetectRunner(marks) ==
    IF marks = {} THEN "pytest"
    ELSE Preference[CHOOSE i \in DOMAIN Preference :
             Preference[i] \in marks /\ \A j \in 1 .. i - 1 : Preference[j] \notin marks]

\* How collect_failing_tests learns what fails: pytest is told the test files and asked
\* for ids; of a suite the output or the JUnit reports may name the tests, or nothing
\* does; and a compiler runs no suite.
Kind(runner) ==
    CASE runner = "pytest"                                       -> "pytest"
      [] runner \in {"cargo", "dotnet", "ctest", "vitest", "jest"} -> "named"
      [] runner \in {"mvn", "gradle"}                            -> "junit"
      [] runner \in {"make", "mocha"}                            -> "unnamed"
      [] OTHER                                                   -> "none"

Kinds == {Kind(DetectRunner(marks)) : marks \in SUBSET Marks}

Languages == {"python", "c", "cpp", "typescript", "java", "csharp", "rust"}

\* The command of _argv_for, named by the language it is for: a file that does not belong
\* to the language of the environment is given to pytest, whatever it is.
GateCommand(language, file) == IF language = file THEN file ELSE "python"

SandboxModes == {"auto", "docker", "off", "misspelt"}

\* is_active raises if docker is demanded and not there, or if the mode is none.
SandboxRuns(mode, docker) == mode \in {"auto", "off"} \/ (mode = "docker" /\ docker)

\* Whether a gate of a scaffold task can pass at all: pytest fails on a file in another
\* language, and run_test_file makes a failed test of everything the sandbox raises.
GateRuns(language, file, mode, docker) ==
    GateCommand(language, file) = file /\ SandboxRuns(mode, docker)

==============================================================================
