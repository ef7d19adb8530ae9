------------------------------ MODULE MCAgentRuns ------------------------------
(* Model-checking instances of AgentRuns; the bounds are in the .cfg files. *)
EXTENDS AgentRunsProps
===============================================================================
