--------------------------- MODULE MCPolicyGovernance ---------------------------
(* Small instances of PolicyGovernance: a category with two proposals for      *)
(* different slots, and a proposal of another category that names no slot.     *)
EXTENDS PolicyGovernanceProps, TLC

CONSTANTS r1, r2, r3, k1, k2, k3, funds, expired, all, food

MCKey      == (r1 :> k1) @@ (r2 :> k2) @@ (r3 :> k3)
MCCategory == (k1 :> all) @@ (k2 :> all) @@ (k3 :> food)
MCSlot     == (k1 :> funds) @@ (k2 :> expired) @@ (k3 :> NoSlot)

MCSymmetry == Permutations(Approvals) \cup Permutations(Rollbacks)
===============================================================================
