-------------------------- MODULE MCPollingClient --------------------------
(* Instances of PollingClient for TLC.                                     *)
EXTENDS PollingClient
=============================================================================
