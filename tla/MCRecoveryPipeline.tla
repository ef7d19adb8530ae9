-------------------------- MODULE MCRecoveryPipeline --------------------------
(* Model-checking instance of RecoveryPipeline; the bounds are in the .cfg. *)
EXTENDS RecoveryPipelineProps
===============================================================================
