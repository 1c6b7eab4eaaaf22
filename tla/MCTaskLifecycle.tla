--------------------------- MODULE MCTaskLifecycle ---------------------------
(***************************************************************************)
(* Two tasks, one of which carries its id; two hotkeys; two crashes, so    *)
(* that a recovery can itself be interrupted; one lost scorebook write.    *)
(***************************************************************************)
EXTENDS TaskLifecycle

CONSTANTS h1, h2

==============================================================================
