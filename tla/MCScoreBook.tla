----------------------------- MODULE MCScoreBook ------------------------------
(* Three hotkeys for two uids; the first file is corrupt, no object, or holds  *)
(* a history longer than the window.                                            *)
EXTENDS ScoreBook, TLC

CONSTANTS h1, h2, h3

MCFirstOwner == (0 :> h1) @@ (1 :> h2)
MCOutcomes == {-1, 2}
MCFirstFiles == {Corrupt, NoObject, (h1 :> <<0, 0, 0, 1>>) @@ (h2 :> <<1>>) @@ (h3 :> <<>>)}
===============================================================================
