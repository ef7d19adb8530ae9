---------------------------- MODULE CaseLifecycle ----------------------------
(***************************************************************************)
(* The status vocabulary every part of the system shares: the statuses of  *)
(* a mandate_failures row, the legal moves between them (backend/db.py)    *)
(* and the sets of statuses other modules test for.                        *)
(***************************************************************************)

CaseStatuses == {"new", "in_progress", "promised", "broken_promise",
                 "recovered", "escalated", "rejected", "invalid"}

\* db.LEGAL_TRANSITIONS: the statuses each status may move to.
LegalTransitions ==
    [s \in CaseStatuses |->
        CASE s = "new"            -> {"in_progress", "rejected", "invalid"}
          [] s = "in_progress"    -> {"recovered", "escalated", "promised",
                                      "broken_promise", "in_progress"}
          [] s = "promised"       -> {"recovered", "broken_promise", "in_progress"}
          [] s = "broken_promise" -> {"recovered", "escalated", "in_progress"}
          [] OTHER                -> {}]

IsLegalTransition(from, to) == to \in LegalTransitions[from]

\* The statuses without an outbound transition.
TerminalStatuses == {"recovered", "escalated", "rejected", "invalid"}

\* agent._TERMINAL_AUDIT_STATUSES: 'invalid' is not among them, so an invalid
\* case is delivered to the gates again by every run.
TerminalAuditStatuses == {"recovered", "escalated", "rejected"}

\* The failure reasons that every writer of mandate_failures draws from: the
\* seeder and the webhook mapping.
FailureReasons == {"insufficient_funds", "mandate_expired",
                   "bank_technical_error", "mandate_revoked"}
=============================================================================
