----------------------------- MODULE MCChatSync -----------------------------
(* Instances of ChatSync for TLC.                                          *)
EXTENDS ChatSync
=============================================================================
