------------------------------ MODULE JobContract ------------------------------
(***************************************************************************)
(* What the recovery scheduler promises about one recovery_jobs row        *)
(* (backend/scheduler.py, module doc): a job waits, is picked up by one    *)
(* worker, charges through the gateway only while it is picked up, at most *)
(* Cap times, and is over for ever once it has an outcome.                 *)
(***************************************************************************)
EXTENDS Naturals

CONSTANT Cap        (* most gateway calls a job may ever make *)

VARIABLES
  state,            (* "none", "waiting", "running" or "over" *)
  charges           (* gateway calls made so far              *)

jvars == <<state, charges>>

JInit == state = "none" /\ charges = 0

Queue == state = "none" /\ state' = "waiting" /\ UNCHANGED charges

PickUp == state = "waiting" /\ state' = "running" /\ UNCHANGED charges

Charge == /\ state = "running" /\ charges < Cap
          /\ charges' = charges + 1
          /\ UNCHANGED state

\* A transient error, or the worker died and the job was taken back.
PutBack == state = "running" /\ state' = "waiting" /\ UNCHANGED charges

End == state = "running" /\ charges > 0 /\ state' = "over" /\ UNCHANGED charges

JNext == Queue \/ PickUp \/ Charge \/ PutBack \/ End

JSpec == JInit /\ [][JNext]_jvars
===============================================================================
