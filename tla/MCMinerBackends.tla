--------------------------- MODULE MCMinerBackends ----------------------------
(***************************************************************************)
(* A file the subtask may write and a test file it may not; two tests; a   *)
(* response has up to two blocks.  The file has no public name yet, and its*)
(* target stub, in diff mode, has one.                                     *)
(***************************************************************************)
EXTENDS MinerBackends

Source(names) == [python |-> TRUE, names |-> names]

MCOriginal == [impl |-> Source({}), test_impl |-> Source({})]
MCTargetStub == [impl |-> {"f"}, test_impl |-> NoTarget]

==============================================================================
