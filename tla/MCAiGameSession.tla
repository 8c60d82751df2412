-------------------------- MODULE MCAiGameSession --------------------------
(* Instances of AiGameSession for TLC.                                     *)
EXTENDS AiGameSession
=============================================================================
