-------------------------- MODULE MCOrchestration --------------------------
(* The orchestration loop with a short plan and few Tasks.                 *)
EXTENDS Orchestration
=============================================================================
