----------------------------- MODULE MCHubLoop -----------------------------
(* Instances of HubLoop for TLC. *)
EXTENDS HubLoop
=============================================================================
