------------------------------- MODULE AuditCheck -------------------------------
(***************************************************************************)
(* The automated audit of backend/audit_check.py: the rules it checks of   *)
(* every case after a run, from the case's row and its audit trail, as     *)
(* predicates of a case and its events. The auditor only reads.            *)
(*                                                                         *)
(* A case is a record with reason, overLimit and status; an event one with *)
(* event and attempt. The rules on rupee totals and on the dashboard's     *)
(* sentence (6 and 7) are about wording and sums and are left out.         *)
(***************************************************************************)
EXTENDS Naturals, Sequences, FiniteSets

RETRY_EVENT_TYPES == {"retry", "silent_retry"}

PIPELINE_EVENT_TYPES ==
  {"score", "strategy_selected", "retry", "silent_retry",
   "pre_debit_notification", "dunning_stage", "reauth_link",
   "mandate_limit_block", "promise_recorded", "escalate"}

MAX_RETRIES == 3

\* The positions of the events of these types.
Of(types, trail) == {i \in DOMAIN trail : trail[i].event \in types}

\* Rule 1: a revoked mandate is not retried, and not recovered.
MandateRevokedNoRetry(case, trail) ==
  case.reason = "mandate_revoked" =>
    Of(RETRY_EVENT_TYPES, trail) = {} /\ case.status # "recovered"

\* Rule 2: neither the attempts nor their numbers exceed the cap.
WithinRetryCap(trail) ==
  LET attempts == Of(RETRY_EVENT_TYPES, trail) IN
  /\ Cardinality(attempts) <= MAX_RETRIES
  /\ \A i \in attempts : trail[i].attempt <= MAX_RETRIES

\* Rule 3: some notice comes before the first retry (and so before any).
PreDebitBeforeRetry(trail) ==
  \A i \in Of(RETRY_EVENT_TYPES, trail) :
    \E j \in Of({"pre_debit_notification"}, trail) : j < i

\* Rule 4: a rejected case has one rejection and never entered the pipeline.
RejectedIsIsolated(case, trail) ==
  case.status = "rejected" =>
    /\ \E i \in DOMAIN trail : Of({"webhook_rejected"}, trail) = {i}
    /\ Of(PIPELINE_EVENT_TYPES, trail) = {}

\* Rule 5: above the mandate limit the block is logged, and no silent retry.
\* (The strategy's wording decides nothing: without the block it is a violation
\* already, and with it the last branch is not taken.)
OverLimitReauthorised(case, trail) ==
  /\ case.overLimit
  /\ case.status \notin {"rejected", "invalid"}
  /\ case.reason # "mandate_revoked"
  => Of({"mandate_limit_block"}, trail) # {} /\ Of({"silent_retry"}, trail) = {}

\* run_audit, rules 1 to 5: the case is reported by none of them.
AuditPasses(case, trail) ==
  /\ MandateRevokedNoRetry(case, trail)
  /\ WithinRetryCap(trail)
  /\ PreDebitBeforeRetry(trail)
  /\ RejectedIsIsolated(case, trail)
  /\ OverLimitReauthorised(case, trail)
=================================================================================
