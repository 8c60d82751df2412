------------------------- MODULE MCMultiplayerGame -------------------------
(* Instances of MultiplayerGame for TLC.                                   *)
EXTENDS MultiplayerGame
=============================================================================
