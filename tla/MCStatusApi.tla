----------------------------- MODULE MCStatusApi -----------------------------
(***************************************************************************)
(* One hotkey and one crash: the scoring steps do not matter to a client,  *)
(* the renames of two tasks and one recovery do.                           *)
(***************************************************************************)
EXTENDS StatusApi

CONSTANT h1

==============================================================================
