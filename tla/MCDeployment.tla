----------------------------- MODULE MCDeployment -----------------------------
(* Deployment for TLC. *)
EXTENDS Deployment

EveryNetwork == {"public", "dev", "hub"}
=============================================================================
