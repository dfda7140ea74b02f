-------------------------- MODULE MCBatchExecution --------------------------
(* A Batch of two cases and a Tool call that share a few requests.         *)
EXTENDS BatchExecution, TLC
=============================================================================
