--------------------------- MODULE RecoveryPipeline ---------------------------
(***************************************************************************)
(* One case going through the agent pipeline of backend/agent.py:          *)
(* RecoveryPipeline.process_case with its gates (duplicate, signature,     *)
(* input), DiagnosisAgent, TriageAgent, StrategyAgent with the retry loop  *)
(* and the promise sub-flow, and CommunicationAgent's dunning stages.      *)
(*                                                                         *)
(* Each action is one call the pipeline makes. A run executes inside one   *)
(* SQLite transaction: the row and the audit trail the run works on are    *)
(* the variables below, what other connections see is `committed', and an  *)
(* exception, a crash or a dropped stream rolls the former back to the     *)
(* latter. Between runs the webhook route may rewrite the stored event.    *)
(***************************************************************************)
EXTENDS CaseLifecycle, Naturals, Sequences

CONSTANTS
  MaxRetries,      (* agent.MAX_RETRIES: debit attempts in one retry loop.  *)
  DunningStages,   (* len(agent.DUNNING_STAGES).                            *)
  PolicyRetryCap,  (* PolicyParams.retry_cap of the run.                    *)
  MaxDeliveries    (* Bound: how often the case is delivered to a run.      *)

ASSUME PipelineAssumption ==
  /\ MaxRetries \in Nat \ {0}
  /\ DunningStages \in Nat
  /\ PolicyRetryCap \in Nat \ {0}
  /\ MaxDeliveries \in Nat

VARIABLES
  input,        (* the event data stored on the row                         *)
  sealed,       (* the event data the row's stored signature was made over  *)
  status,       (* mandate_failures.case_status                             *)
  dunning,      (* mandate_failures.dunning_stage                           *)
  compliance,   (* mandate_failures.compliance_status                       *)
  trail,        (* the case's audit_log rows, oldest first                  *)
  moves,        (* the case's state_transitions rows, oldest first          *)
  committed,    (* the last committed value of the five columns above       *)
  pc,           (* the pipeline's next call                                 *)
  attempt,      (* _retry_loop's attempt counter                            *)
  broken,       (* a promise was broken in this loop                        *)
  deliveries    (* how often the case was delivered                         *)

row  == <<status, dunning, compliance, trail, moves>>
vars == <<input, sealed, status, dunning, compliance, trail, moves, committed,
          pc, attempt, broken, deliveries>>

-------------------------------------------------------------------------------
(* Data.                                                                       *)

\* What the gates and the strategy read of a stored event: its reason, whether
\* its signature verifies, whether validate_case accepts its amount and
\* whether the amount exceeds the mandate limit.
Inputs == [reason : FailureReasons, signed : BOOLEAN,
           valid : BOOLEAN, overLimit : BOOLEAN]

RetryEvents == {"retry", "silent_retry"}

Events == RetryEvents \cup
          {"webhook_rejected", "webhook_invalid", "webhook_duplicate",
           "webhook_received", "score", "strategy_selected",
           "mandate_limit_block", "reauth_link", "dunning_stage",
           "pre_debit_notification", "promise_recorded", "promise_kept",
           "promise_broken", "escalate"}

Outcomes == {"n/a", "pending", "success", "failure", "rejected"}

\* An audit_log row without its wording and its timestamp.
Rows == [event : Events, outcome : Outcomes, attempt : 0..MaxRetries,
         after : CaseStatuses]

Row(e, o, a, s) == [event |-> e, outcome |-> o, attempt |-> a, after |-> s]

\* The columns as one record: what a commit stores and a rollback restores.
View == [status |-> status, dunning |-> dunning, compliance |-> compliance,
         trail |-> trail, moves |-> moves]

Compliance == {"pending", "RBI-compliant", "non-compliant"}

Steps == {"idle", "gate", "score", "strategy", "dunning", "notice", "debit",
          "offer", "promise", "escalate", "commit"}

-------------------------------------------------------------------------------
(* Helpers of the pipeline.                                                    *)

Log(rows) == trail' = trail \o rows

\* _RunContext.set_status: a no-op on the same status, an exception (here: not
\* enabled) on an illegal transition, otherwise the row and its transition log.
CanSet(to) == status = to \/ IsLegalTransition(status, to)

SetStatus(to) ==
  /\ CanSet(to)
  /\ status' = to
  /\ moves' = IF status = to THEN moves ELSE Append(moves, <<status, to>>)

\* Mutant: a rejected case does not count as processed.
HasSettlingAudit ==
  \E i \in 1..Len(trail) : trail[i].after \in {"recovered", "escalated"}

HasTerminalAudit ==
  \E i \in 1..Len(trail) : trail[i].after \in TerminalAuditStatuses

\* Mutant: bank errors above the limit, too, are retried silently.
SilentAnyAmount == input.reason = "bank_technical_error"

\* The strategy that sends no nudge: bank errors below the mandate limit.
Silent == input.reason = "bank_technical_error" /\ ~input.overLimit

RetryEvent == IF Silent THEN "silent_retry" ELSE "retry"

\* Where an iteration of the loop starts.
LoopStart == IF Silent THEN "notice" ELSE "dunning"

-------------------------------------------------------------------------------
(* A run reaches the case.                                                     *)

Init ==
  /\ input \in Inputs /\ sealed = input
  /\ status = "new" /\ dunning = 0 /\ compliance = "pending"
  /\ trail = <<>> /\ moves = <<>>
  /\ committed = View
  /\ pc = "idle" /\ attempt = 0 /\ broken = FALSE /\ deliveries = 0

\* process_case is called: the run holds the write lock, and the trail it
\* reads is the committed one.
Deliver ==
  /\ pc = "idle" /\ deliveries < MaxDeliveries
  /\ deliveries' = deliveries + 1
  /\ pc' = "gate"
  /\ UNCHANGED <<input, sealed, row, committed, attempt, broken>>

\* Gate 1: the trail already holds a terminal row.
NoteDuplicate ==
  /\ pc = "gate" /\ HasTerminalAudit
  /\ Log(<<Row("webhook_duplicate", "n/a", 0, status)>>)
  /\ pc' = "commit"
  /\ UNCHANGED <<input, sealed, status, dunning, compliance, moves, committed,
                 attempt, broken, deliveries>>

\* Gate 2: the signature does not verify.
Reject ==
  /\ pc = "gate" /\ ~HasTerminalAudit /\ ~input.signed
  /\ SetStatus("rejected")
  /\ Log(<<Row("webhook_rejected", "rejected", 0, "rejected")>>)
  /\ pc' = "commit"
  /\ UNCHANGED <<input, sealed, dunning, compliance, committed, attempt,
                 broken, deliveries>>

\* Gate 3: the amount is malformed. Status 'invalid' is no terminal audit
\* status, so a second delivery comes here again and logs a second row.
RejectInvalid ==
  /\ pc = "gate" /\ ~HasTerminalAudit /\ input.signed /\ ~input.valid
  /\ SetStatus("invalid")
  /\ Log(<<Row("webhook_invalid", "rejected", 0, "invalid")>>)
  /\ pc' = "commit"
  /\ UNCHANGED <<input, sealed, dunning, compliance, committed, attempt,
                 broken, deliveries>>

\* DiagnosisAgent.process.
Receive ==
  /\ pc = "gate" /\ ~HasTerminalAudit /\ input.signed /\ input.valid
  /\ Log(<<Row("webhook_received", "n/a", 0, status)>>)
  /\ pc' = "score"
  /\ UNCHANGED <<input, sealed, status, dunning, compliance, moves, committed,
                 attempt, broken, deliveries>>

\* The head of StrategyAgent.process: the score event.
Score ==
  /\ pc = "score"
  /\ SetStatus("in_progress")
  /\ Log(<<Row("score", "n/a", 0, "in_progress")>>)
  /\ pc' = "strategy"
  /\ UNCHANGED <<input, sealed, dunning, compliance, committed, attempt,
                 broken, deliveries>>

-------------------------------------------------------------------------------
(* StrategyAgent.process: the strategy for the reason.                         *)

StrategyRow == Row("strategy_selected", "n/a", 0, "in_progress")
ReauthRow   == Row("reauth_link", "pending", 0, "in_progress")
LimitRow    == Row("mandate_limit_block", "n/a", 0, "in_progress")

EscalateRevoked ==
  /\ pc = "strategy" /\ input.reason = "mandate_revoked"
  /\ Log(<<StrategyRow, Row("escalate", "n/a", 0, "escalated")>>)
  /\ SetStatus("escalated")
  /\ pc' = "commit"
  /\ UNCHANGED <<input, sealed, dunning, compliance, committed, attempt,
                 broken, deliveries>>

\* The other strategies log what they chose and enter the retry loop.
EnterLoop(rows) ==
  /\ Log(rows)
  /\ attempt' = 1 /\ broken' = FALSE
  /\ pc' = LoopStart
  /\ UNCHANGED <<input, sealed, status, dunning, compliance, moves, committed,
                 deliveries>>

BlockOverLimit ==
  /\ pc = "strategy" /\ input.reason # "mandate_revoked" /\ input.overLimit
  /\ EnterLoop(<<LimitRow, StrategyRow, ReauthRow>>)

SelectReauth ==
  /\ pc = "strategy" /\ input.reason = "mandate_expired" /\ ~input.overLimit
  /\ EnterLoop(<<StrategyRow, ReauthRow>>)

SelectRetry ==
  /\ pc = "strategy" /\ ~input.overLimit
  /\ input.reason \in {"insufficient_funds", "bank_technical_error"}
  /\ EnterLoop(<<StrategyRow>>)

-------------------------------------------------------------------------------
(* StrategyAgent._retry_loop.                                                  *)

\* CommunicationAgent.send_dunning: nothing once every stage was sent.
SendDunning ==
  /\ pc = "dunning"
  /\ dunning' = IF dunning < DunningStages THEN dunning + 1 ELSE dunning
  /\ Log(IF dunning < DunningStages
         THEN <<Row("dunning_stage", "pending", attempt, status)>> ELSE <<>>)
  /\ pc' = "notice"
  /\ UNCHANGED <<input, sealed, status, compliance, moves, committed, attempt,
                 broken, deliveries>>

\* pre_debit_notification: whether the notice is compliant depends on the
\* case's data and a random draw.
PreDebitNotification ==
  /\ pc = "notice"
  /\ \E c \in {"RBI-compliant", "non-compliant"} :
       /\ compliance' = c
       /\ Log(<<Row("pre_debit_notification",
                    IF c = "RBI-compliant" THEN "success" ELSE "failure",
                    attempt, status)>>)
  /\ pc' = "debit"
  /\ UNCHANGED <<input, sealed, status, dunning, moves, committed, attempt,
                 broken, deliveries>>

\* attempt_retry, the debit going through.
DebitSucceeds ==
  /\ pc = "debit"
  /\ Log(<<Row(RetryEvent, "success", attempt, "recovered")>>)
  /\ SetStatus("recovered")
  /\ pc' = "commit"
  /\ UNCHANGED <<input, sealed, dunning, compliance, committed, attempt,
                 broken, deliveries>>

\* Mutants: the loop runs once too often; each failed attempt is committed.
DebitFailsOnceMore ==
  /\ pc = "debit"
  /\ Log(<<Row(RetryEvent, "failure", attempt, "in_progress")>>)
  /\ pc' = IF broken \/ attempt > MaxRetries THEN "escalate" ELSE "offer"
  /\ UNCHANGED <<input, sealed, status, dunning, compliance, moves, committed,
                 attempt, broken, deliveries>>

DebitFailsAndCommits ==
  /\ pc = "debit"
  /\ Log(<<Row(RetryEvent, "failure", attempt, "in_progress")>>)
  /\ committed' = [View EXCEPT !.trail = trail']
  /\ pc' = IF broken \/ attempt >= MaxRetries THEN "escalate" ELSE "offer"
  /\ UNCHANGED <<input, sealed, status, dunning, compliance, moves, attempt,
                 broken, deliveries>>

\* attempt_retry, the debit failing: the row says 'in_progress' whatever the
\* status is. After a broken promise or the last attempt the case escalates.
DebitFails ==
  /\ pc = "debit"
  /\ Log(<<Row(RetryEvent, "failure", attempt, "in_progress")>>)
  /\ pc' = IF broken \/ attempt >= MaxRetries THEN "escalate" ELSE "offer"
  /\ UNCHANGED <<input, sealed, status, dunning, compliance, moves, committed,
                 attempt, broken, deliveries>>

\* maybe_promise: no promise is made, the loop goes on.
NoPromise ==
  /\ pc = "offer"
  /\ attempt' = attempt + 1
  /\ pc' = LoopStart
  /\ UNCHANGED <<input, sealed, row, committed, broken, deliveries>>

RecordPromise ==
  /\ pc = "offer"
  /\ SetStatus("promised")
  /\ Log(<<Row("promise_recorded", "pending", attempt, "promised")>>)
  /\ pc' = "promise"
  /\ UNCHANGED <<input, sealed, dunning, compliance, committed, attempt,
                 broken, deliveries>>

PromiseKept ==
  /\ pc = "promise"
  /\ Log(<<Row("promise_kept", "success", attempt, "recovered")>>)
  /\ SetStatus("recovered")
  /\ pc' = "commit"
  /\ UNCHANGED <<input, sealed, dunning, compliance, committed, attempt,
                 broken, deliveries>>

\* Mutants: the extra attempt has no notice; it repeats the attempt's number.
PromiseBrokenNoNotice ==
  /\ pc = "promise"
  /\ Log(<<Row("promise_broken", "failure", attempt, "broken_promise")>>)
  /\ SetStatus("broken_promise")
  /\ attempt' = attempt + 1 /\ broken' = TRUE
  /\ pc' = "debit"
  /\ UNCHANGED <<input, sealed, dunning, compliance, committed, deliveries>>

PromiseBrokenSameAttempt ==
  /\ pc = "promise"
  /\ Log(<<Row("promise_broken", "failure", attempt, "broken_promise")>>)
  /\ SetStatus("broken_promise")
  /\ broken' = TRUE
  /\ pc' = "notice"
  /\ UNCHANGED <<input, sealed, dunning, compliance, committed, attempt,
                 deliveries>>

\* A broken promise buys one more notice and debit, without a dunning stage.
PromiseBroken ==
  /\ pc = "promise"
  /\ Log(<<Row("promise_broken", "failure", attempt, "broken_promise")>>)
  /\ SetStatus("broken_promise")
  /\ attempt' = attempt + 1 /\ broken' = TRUE
  /\ pc' = "notice"
  /\ UNCHANGED <<input, sealed, dunning, compliance, committed, deliveries>>

\* Mutant: the escalation is logged and the status forgotten.
EscalateLogOnly ==
  /\ pc = "escalate"
  /\ Log(<<Row("escalate", "n/a", attempt, "escalated")>>)
  /\ pc' = "commit"
  /\ UNCHANGED <<input, sealed, status, dunning, compliance, moves, committed,
                 attempt, broken, deliveries>>

Escalate ==
  /\ pc = "escalate"
  /\ Log(<<Row("escalate", "n/a", attempt, "escalated")>>)
  /\ SetStatus("escalated")
  /\ pc' = "commit"
  /\ UNCHANGED <<input, sealed, dunning, compliance, committed, attempt,
                 broken, deliveries>>

-------------------------------------------------------------------------------
(* The end of the run.                                                         *)

\* conn.commit(). _schedule_jobs_for_case ran before it: it returns early for
\* a resolved case, and every case that passed the gates is resolved here
\* (ResolvedAtCommit), so it creates no job.
Commit ==
  /\ pc = "commit"
  /\ committed' = View
  /\ pc' = "idle" /\ attempt' = 0 /\ broken' = FALSE
  /\ UNCHANGED <<input, sealed, row, deliveries>>

\* Mutant: the dunning stage is not rolled back with the rest.
RollbackKeepsDunning ==
  /\ status' = committed.status
  /\ compliance' = committed.compliance
  /\ trail' = committed.trail /\ moves' = committed.moves
  /\ pc' = "idle" /\ attempt' = 0 /\ broken' = FALSE
  /\ UNCHANGED <<input, sealed, dunning, committed, deliveries>>

Rollback ==
  /\ status' = committed.status /\ dunning' = committed.dunning
  /\ compliance' = committed.compliance
  /\ trail' = committed.trail /\ moves' = committed.moves
  /\ pc' = "idle" /\ attempt' = 0 /\ broken' = FALSE
  /\ UNCHANGED <<input, sealed, committed, deliveries>>

\* Mutant: the caller catches the exception and processes the case again.
GateRetries ==
  /\ pc = "gate" /\ ~HasTerminalAudit
  /\ ~input.signed /\ ~CanSet("rejected")
  /\ UNCHANGED vars

\* set_status raises: an unsigned event on a row whose status does not allow
\* 'rejected' (an 'invalid' row). The exception ends the run.
GateRaises ==
  /\ pc = "gate" /\ ~HasTerminalAudit
  /\ ~input.signed /\ ~CanSet("rejected")
  /\ Rollback

\* The process dies, the client drops the stream, or another case of the same
\* run raises: SQLite discards the open transaction.
Interrupt == pc # "idle" /\ Rollback

\* The webhook route finds the row and overwrites amount, reason and event
\* type, and leaves the signature, which covers amount and event type: it
\* verifies again only for what it was made over. The route maps the seeded
\* event types to mandate_revoked (subscription.halted) or insufficient_funds
\* (payment.failed, seeded for other reasons, and subscription.charged.failed).
WebhookUpdatesRow ==
  /\ pc = "idle" /\ deliveries < MaxDeliveries
  /\ input' \in Inputs
  /\ input'.signed =>
       /\ sealed.signed
       /\ input'.valid = sealed.valid /\ input'.overLimit = sealed.overLimit
       /\ input'.reason = IF sealed.reason = "mandate_revoked"
                         THEN "mandate_revoked" ELSE "insufficient_funds"
  /\ UNCHANGED <<sealed, row, committed, pc, attempt, broken, deliveries>>

-------------------------------------------------------------------------------
Gates    == \/ NoteDuplicate \/ Reject \/ RejectInvalid \/ GateRaises
            \/ Receive \/ Score
Strategy == EscalateRevoked \/ BlockOverLimit \/ SelectReauth \/ SelectRetry
Loop     == \/ SendDunning \/ PreDebitNotification
            \/ DebitSucceeds \/ DebitFails
            \/ NoPromise \/ RecordPromise \/ PromiseKept \/ PromiseBroken
            \/ Escalate

\* The steps a running handler takes by itself.
Handler == Gates \/ Strategy \/ Loop \/ Commit

Next == Deliver \/ Handler \/ Interrupt \/ WebhookUpdatesRow

Spec == Init /\ [][Next]_vars

\* A handler that was started runs to its end; nobody has to deliver the case,
\* to interrupt the run or to send a webhook.
FairSpec == Spec /\ WF_vars(Handler)
===============================================================================
