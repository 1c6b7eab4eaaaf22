------------------------------ MODULE MinerTools ------------------------------
(***************************************************************************)
(* The tools of the miner's agent (miner/tools.py) as far as they change   *)
(* the workspace: file_write with its checks, bash without any, git        *)
(* commands included, and the hard reset of the agent loop.                *)
(*                                                                         *)
(* A text is what the checks see of it: whether it is Python, and the      *)
(* public names it defines at top level.                                   *)
(***************************************************************************)
EXTENDS Naturals, FiniteSets

CONSTANTS
    Files,      \* paths in the workspace
    Allowed,    \* allowed_files: those the subtask may write
    Names,      \* public names
    Original,   \* the workspace the agent is given
    TargetStub, \* target_stubs: names of the target stub of a file, or NoTarget
    Absent,     \* no such file
    NoTarget    \* no target stub for a file

Texts == [python : {TRUE}, names : SUBSET Names] \cup [python : {FALSE}, names : {{}}]
Workspaces == [Files -> Texts \cup {Absent}]

ASSUME ToolsAssumption ==
    /\ Allowed \subseteq Files
    /\ Original \in Workspaces
    /\ Absent \notin Texts
    /\ TargetStub \in [Files -> (SUBSET Names) \cup {NoTarget}]

VARIABLES
    mode,       \* "scaffold" or "diff"
    disk,       \* the workspace
    shelled,    \* files that a command has changed since they were last reset
    baseline    \* tree of the commit a patch is taken against, or NoTree

NoTree == <<>>
toolVars == <<mode, disk, shelled, baseline>>

ToolsTypeOK ==
    /\ mode \in {"scaffold", "diff"}
    /\ disk \in Workspaces
    /\ shelled \subseteq Files
    /\ baseline \in Workspaces \cup {NoTree}

ToolsInit ==
    /\ mode \in {"scaffold", "diff"}
    /\ disk = Original
    /\ shelled = {}
    /\ baseline = Original

\* The names file_write compares the new text with: the target stub's in diff
\* mode, else those of the file as it is on disk.  No file, no comparison.
Reference(f) ==
    CASE mode = "diff" /\ TargetStub[f] # NoTarget -> TargetStub[f]
      [] mode = "scaffold" /\ disk[f] # Absent -> disk[f].names
      [] OTHER -> Names

AddedNames(f, text) == text.names \ Reference(f)

\* validate_file_write: scope, syntax, interface.  (Size limits aside.)
MayWrite(f, text) == f \in Allowed /\ text.python /\ AddedNames(f, text) = {}

\* A file_write that is accepted.
FileWrite(f, text) ==
    /\ MayWrite(f, text)
    /\ disk' = [disk EXCEPT ![f] = text]
    /\ UNCHANGED <<mode, shelled, baseline>>

\* A command that creates, rewrites or removes a file, whichever it is.
ShellWrite(f, text) ==
    /\ disk' = [disk EXCEPT ![f] = text]
    /\ shelled' = shelled \cup {f}
    /\ UNCHANGED <<mode, baseline>>

\* A git command that moves the baseline.  git log --all lists an amended scaffold commit,
\* or a stash that is kept ("WIP on main: ... <subject>"), before the commit the agent was
\* given.  If the subject was amended away or the history started anew, what is left to
\* compare with is HEAD; without .git, nothing.
ShellGit ==
    /\ baseline' \in {disk, NoTree}
    /\ UNCHANGED <<mode, disk, shelled>>

\* The allowed files the agent was given.
OriginalStubs == {f \in Allowed : Original[f] # Absent}

\* Mutation: only what file_write wrote is put back.
ResetKnown ==
    /\ disk' = [f \in Files |->
          IF f \in OriginalStubs \ shelled THEN Original[f] ELSE disk[f]]
    /\ shelled' = shelled \ OriginalStubs
    /\ UNCHANGED <<mode, baseline>>

\* The hard reset writes the stubs back; other files stay as they are.
Reset ==
    /\ disk' = [f \in Files |-> IF f \in OriginalStubs THEN Original[f] ELSE disk[f]]
    /\ shelled' = shelled \ OriginalStubs
    /\ UNCHANGED <<mode, baseline>>

\* _generate_patch: the allowed files that differ from the baseline.
PatchFrom(workspace) ==
    {f \in Allowed : baseline # NoTree /\ workspace[f] # baseline[f]}

-----------------------------------------------------------------------------
(* Properties                                                              *)

\* The names a file may define: the coordinator's stub says.
Contract(f) ==
    IF mode = "diff" THEN TargetStub[f]
    ELSE IF Original[f] = Absent THEN NoTarget ELSE Original[f].names

\* However file_writes and resets follow each other, and whatever commands do to other
\* files, an allowed file that no command has written since its last reset defines no
\* public name its stub does not have.
WritesKeepContract ==
    \A f \in Allowed \ shelled :
        disk[f] # Absent /\ disk[f] # Original[f] /\ Contract(f) # NoTarget =>
            disk[f].names \subseteq Contract(f)

==============================================================================
