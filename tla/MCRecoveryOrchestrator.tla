------------------------ MODULE MCRecoveryOrchestrator ------------------------
(* Small instances of RecoveryOrchestrator: a case above the approval           *)
(* threshold, a small invoice, a checkout, and a mandate that may get two cases. *)
EXTENDS RecoveryOrchestratorProps, TLC

CONSTANTS pay, inv, cart, m1, m2

MCKind     == (pay :> "api") @@ (inv :> "invoice") @@ (cart :> "session")
                @@ (m1 :> "mandate") @@ (m2 :> "mandate")
MCScenario == (pay :> "failed_payment") @@ (inv :> "b2b_receivable")
                @@ (cart :> "checkout_abandonment")
                @@ (m1 :> "mandate_retry") @@ (m2 :> "mandate_retry")
MCReason   == (pay :> "insufficient_funds") @@ (inv :> "none") @@ (cart :> "none")
                @@ (m1 :> "bank_technical_error") @@ (m2 :> "bank_technical_error")
MCAmount   == (pay :> 20000) @@ (inv :> 800) @@ (cart :> 12000)
                @@ (m1 :> 500) @@ (m2 :> 500)
MCOverdue  == (pay :> 0) @@ (inv :> 12) @@ (cart :> 0) @@ (m1 :> 0) @@ (m2 :> 0)

MCDefaults == [version |-> 0, threshold |-> 10000, minimum |-> 0, retries |-> 3,
               cooldown |-> 24, preferred |-> "email"]
MCPatches  == {[version |-> 0, threshold |-> 50000, minimum |-> 400, retries |-> 1,
                cooldown |-> 24, preferred |-> "sms"]}

MCSymmetry == Permutations(Requests)
===============================================================================
