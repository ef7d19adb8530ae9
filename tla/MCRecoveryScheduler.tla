-------------------------- MODULE MCRecoveryScheduler --------------------------
(* Model-checking instances of RecoveryScheduler; bounds are in the .cfg files. *)
EXTENDS RecoverySchedulerProps
===============================================================================
