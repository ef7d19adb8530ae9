----------------------- MODULE RecoveryOrchestratorProps -----------------------
(* The correctness properties of RecoveryOrchestrator.                         *)
EXTENDS RecoveryOrchestrator

\* POST /approvals: a case that waits for an approval has one that is still
\* open, whatever was decided, answered or decided again meanwhile; otherwise
\* it would be refused for ever.
WaitingCasesCanBeAnswered ==
  \A c \in Cases : rows[c].approval = "pending" =>
     \E i \in DOMAIN asks[c] : asks[c][i] = "pending"

\* README, "an approval gate for high-value actions": nothing is executed on a
\* case that has been waiting for approval ever since it was committed.
GateHoldsFromBirth == \A c \in Cases : c \notin opened => rows[c].count = 0

\* mark_paid, mark_recovered: a document that was ever settled has a case with
\* an outcome, or its request is about to record it, or died before it could;
\* also when a stale refresh, a miss or a reminder has taken the document's own
\* status back since.
PaymentsReachTheCase ==
  \A c \in settled :
     \/ rows[c].resolved \/ c \in orphaned
     \/ \E r \in Requests : At(r, "closing") /\ reqs[r].case = c

\* An action on a case whose approval was rejected (a claim the code does not
\* keep: execute_action refuses "pending" only).
RejectedIsNotExecuted ==
  [][\A c \in Cases :
       rows[c].approval = "rejected" /\ rows'[c].count # rows[c].count
         => rows'[c].approval = "approved"]_vars
=============================================================================
