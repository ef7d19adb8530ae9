---------------------------- MODULE MCRequestGuards ----------------------------
(* Small instances of RequestGuards.                                             *)
EXTENDS RequestGuardsProps, TLC

MCSymmetry == Permutations(Threads) \cup Permutations(Tokens)
================================================================================
