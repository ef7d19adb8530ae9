------------------------- MODULE PaymentExecutorProps -------------------------
(* The correctness properties of PaymentExecutor.                             *)
EXTENDS PaymentExecutor

\* How often the customer's money was taken and not given back.
Charges == Cardinality(paid) + (IF payment = "captured" THEN 1 ELSE 0)

\* execute_job retries calls that are not idempotent by themselves: whatever
\* one failure it meets (a call that fails, an answer that is lost, a crash at
\* any step), the customer is not charged twice for the debit.
OneFailureNeverChargesTwice == faults <= 1 => Charges <= 1

\* _try_set_case_escalated: a case that one failure made the scheduler give up
\* is one whose customer was not charged.
EscalatedMeansUncharged == faults <= 1 /\ case.status = "escalated" => Charges = 0

\* tests/test_payment_executor.py, "real execution failure must never produce
\* success=True": a payment reported as captured was captured (a claim the code
\* does not keep).
ReportedCapturesAreReal ==
  run.result.outcome = "payment_captured" => payment \in {"captured", "refunded"}
=============================================================================
