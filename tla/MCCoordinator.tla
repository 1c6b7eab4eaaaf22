---------------------------- MODULE MCCoordinator -----------------------------
(***************************************************************************)
(* A stub, a shared file, two gate tests, two attempts, an entry an earlier*)
(* task may have left in the cache and files it may have left in the       *)
(* workspaces.                                                             *)
(***************************************************************************)
EXTENDS Coordinator

MCResponses ==
    {{}, {"stub"}, {"gate2"}, {"gate1", "shared"}, {"gate1", "gate2"}, {"stub", "gate1"},
     {"stub", "gate1", "gate2"}, {"stub", "shared", "gate2"}}
MCLeftovers == {{}, {"stub", "gate1"}}
MCCached == {{}, {"gate2"}, {"stub", "gate1", "gate2"}}
MCOriginals == {{"stub"}, {"stub", "shared", "gate2"}}

==============================================================================
