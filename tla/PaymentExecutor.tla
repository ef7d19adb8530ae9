---------------------------- MODULE PaymentExecutor ----------------------------
(***************************************************************************)
(* One recovery job in payment_executor.py: the calls that one execution   *)
(* makes to the gateway through razorpay_client.py, what execute_job makes *)
(* of the answers, and the executions that follow a failure or a crash.    *)
(* RecoveryScheduler knows only the class of an outcome; here the payment, *)
(* the subscription and the payment links are at the gateway, where they   *)
(* change between two calls.  The job is one that schedule_single_job has  *)
(* created, the only way to a job with a payment or a subscription id.     *)
(***************************************************************************)
EXTENDS Integers, FiniteSets

CONSTANTS Reasons,      \* Bound: the failure reasons of the case
          MaxRetries,   \* agent.MAX_RETRIES: runs of a job that is not reset
          MaxFaults     \* bound: calls that fail, answers lost, crashes

FailureReasons == {"insufficient_funds", "bank_technical_error",
                   "mandate_expired", "mandate_revoked"}
ASSUME ExecutorAssumption ==
  /\ Reasons \subseteq FailureReasons
  /\ MaxRetries \in Nat \ {0} /\ MaxFaults \in Nat

Modes == {"real_test", "simulation"}

VARIABLES job,      \* its recovery_jobs row: ids by whether they are set, the
                    \* payment link by its number (0: none)
          case,     \* what execute_job reads of the case, and its status
          keys,     \* the credentials: "none" configured, "wrong" or "right"
          run,      \* the execution in progress: its next call and its result
          payment, subscription,   \* at the gateway
          links,    \* how many payment links were created
          known,    \* the links whose URL was stored in the job's row
          paid,     \* the links that the customer paid
          faults    \* history: how much has gone wrong

env  == <<payment, subscription, links, known, paid>>
vars == <<job, case, keys, run, env, faults>>
-----------------------------------------------------------------------------
\* ExecutionOutcome by class: the successes, the failures not worth a retry.
\* (The code has three outcomes more, which nothing returns.)
Successes == {"payment_captured", "payment_link_sent", "simulated_success"}
TerminalFailures == {"invalid_credentials", "configuration_error",
                     "invalid_resource", "subscription_inactive"}
TransientFailures == {"api_error", "network_error", "simulated_failure"}

\* ExecutionResult: the ids not named in it are None.
Result(outcome) == [outcome |-> outcome, pay |-> FALSE, sub |-> FALSE, link |-> 0]
NoResult == [outcome |-> "none", pay |-> FALSE, sub |-> FALSE, link |-> 0]
Idle     == [call |-> "none", result |-> NoResult]

NewJob(mode, pay, sub) ==
  [status |-> "scheduled", mode |-> mode, retry |-> 0, pay |-> pay, sub |-> sub,
   link |-> 0, outcome |-> "none"]

Init ==
  /\ \E mode \in Modes, pay, sub \in BOOLEAN : job = NewJob(mode, pay, sub)
  /\ \E r \in Reasons : case = [reason |-> r, amount |-> "agreed", status |-> "in_progress"]
  /\ keys \in {"none", "wrong", "right"}
  /\ run = Idle
  /\ payment \in IF job.pay THEN {"authorized", "unknown"} ELSE {"unknown"}
  /\ subscription = "active"
  /\ links = 0 /\ known = {} /\ paid = {} /\ faults = 0

Goto(call)   == run' = [run EXCEPT !.call = call]
Done(result) == run' = [call |-> "persist", result |-> result]
At(call)     == run.call = call
-----------------------------------------------------------------------------
\* _request: a call is answered, or fails with a RazorpayClientError: always
\* with the wrong credentials, and by a fault of the gateway or the network,
\* before or after the gateway has done what was asked.  An answer that cannot
\* be read is another exception, which nobody catches before the worker.
Answered == keys = "right" /\ faults' = faults
Fault    == faults < MaxFaults /\ faults' = faults + 1
Failed   == (keys = "wrong" /\ faults' = faults) \/ Fault
Raises   == Goto("raised")

FetchPayment == payment
CapturePayment ==
  IF payment = "authorized" /\ case.amount = "agreed" THEN "captured" ELSE payment
Captures == payment = "authorized" /\ case.amount = "agreed"

\* After a payment that is not capturable.
NextCall == IF job.sub THEN "subscription" ELSE "link"
-----------------------------------------------------------------------------
\* claim_next_due_job, the mark 'executing', and the way that execute_recovery
\* and _execute_real take.
ExecuteSimulation ==
  \E o \in {"simulated_success", "simulated_failure"} : Done(Result(o))

ExecuteReal ==
  \/ keys = "none" /\ Done(Result("configuration_error"))
  \/ /\ keys # "none" /\ case.reason = "mandate_revoked"
     /\ IF job.sub THEN Goto("verify") ELSE Done(Result("subscription_inactive"))
  \/ /\ keys # "none" /\ case.reason # "mandate_revoked"
     /\ Goto(IF job.pay THEN "payment" ELSE NextCall)

ExecuteRecovery ==
  /\ job.status = "scheduled" /\ run = Idle
  /\ job' = [job EXCEPT !.status = "executing"]
  /\ IF job.mode = "real_test" THEN ExecuteReal ELSE ExecuteSimulation
  /\ UNCHANGED <<case, keys, env, faults>>

\* Mutant: a payment that is captured already is not recognised.
TryCaptureForgetful(status) ==
  \/ status = "unknown"    /\ Done([Result("invalid_resource") EXCEPT !.pay = TRUE])
  \/ status = "authorized" /\ Goto("capture")
  \/ status \in {"captured", "refunded"} /\ Goto(NextCall)

\* _try_capture_payment, by the status of the payment that was fetched.
TryCapture(status) ==
  \/ status = "unknown"    /\ Done([Result("invalid_resource") EXCEPT !.pay = TRUE])
  \/ status = "captured"   /\ Done([Result("payment_captured") EXCEPT !.pay = TRUE])
  \/ status = "authorized" /\ Goto("capture")
  \/ status = "refunded"   /\ Goto(NextCall)

AskPayment ==
  /\ At("payment")
  /\ \/ Answered /\ TryCapture(FetchPayment)
     \/ Failed /\ Goto(NextCall)
     \/ Fault /\ Raises
  /\ UNCHANGED <<job, case, keys, env>>

\* Mutant: a capture that fails is not worth a retry.
CaptureErrorIsFinal == Done([Result("invalid_resource") EXCEPT !.pay = TRUE])

CaptureError == Done([Result("api_error") EXCEPT !.pay = TRUE])

\* A capture that the gateway refuses is a BAD_REQUEST, which the code takes
\* for a payment that is captured already.
AskCapture ==
  /\ At("capture")
  /\ \/ /\ Answered /\ payment' = CapturePayment
        /\ Done([Result("payment_captured") EXCEPT !.pay = TRUE])
     \/ /\ Failed /\ payment' = payment
        /\ CaptureError
     \/ /\ Fault /\ payment' = CapturePayment
        /\ (IF Captures THEN CaptureError \/ Raises ELSE CaptureError)
  /\ UNCHANGED <<job, case, keys, subscription, links, known, paid>>

\* _check_subscription_status: one that cannot be fetched is no obstacle.
CheckSubscription ==
  /\ At("subscription")
  /\ \/ /\ Answered
        /\ IF subscription = "active" THEN Goto("link")
           ELSE Done([Result("subscription_inactive") EXCEPT !.sub = TRUE])
     \/ Failed /\ Goto("link")
     \/ Fault /\ Raises
  /\ UNCHANGED <<job, case, keys, env>>

\* _verify_subscription_inactive: the result is the same whatever is answered.
VerifySubscriptionInactive ==
  /\ At("verify")
  /\ \/ (Answered \/ Failed) /\ Done([Result("subscription_inactive") EXCEPT !.sub = TRUE])
     \/ Fault /\ Raises
  /\ UNCHANGED <<job, case, keys, env>>

\* create_payment_link: each call creates a link.
CreatePaymentLink == links' = links + 1

\* _create_recovery_link, with its classes of error.
LinkErrors == IF keys = "wrong" THEN {"invalid_credentials"}
              ELSE {"network_error", "api_error"}

CreateRecoveryLink ==
  /\ At("link")
  /\ \/ /\ Answered /\ CreatePaymentLink
        /\ Done([Result("payment_link_sent") EXCEPT !.link = links + 1])
     \/ /\ Failed /\ UNCHANGED links
        /\ \E o \in LinkErrors : Done(Result(o))
     \/ /\ keys = "right" /\ Fault /\ CreatePaymentLink
        /\ Done(Result("network_error")) \/ Raises
  /\ UNCHANGED <<job, case, keys, payment, subscription, known, paid>>
-----------------------------------------------------------------------------
\* execute_job after the execution: the job's status, ...
JobStatus(outcome) ==
  CASE outcome \in Successes        -> "succeeded"
    [] outcome \in TerminalFailures -> "failed"
    [] outcome \in TransientFailures /\ job.retry < MaxRetries - 1 -> "scheduled"
    [] OTHER                        -> "exhausted"

\* ... update_job_result, which overwrites the ids with those of the result, ...
UpdateJobResult(row, status, result) ==
  [row EXCEPT !.status = status, !.outcome = result.outcome, !.pay = result.pay,
              !.sub = result.sub, !.link = result.link]

\* ... increment_job_retry, and the transition of the case.
IncrementJobRetry(row) ==
  IF row.status = "scheduled" THEN [row EXCEPT !.retry = @ + 1] ELSE row

CaseStatus(status) ==
  IF case.status # "in_progress"              THEN case.status
  ELSE IF status = "succeeded"                THEN "recovered"
  ELSE IF status \in {"failed", "exhausted"} THEN "escalated"
  ELSE case.status

Persist ==
  LET s == JobStatus(run.result.outcome) IN
  /\ At("persist")
  /\ job' = IncrementJobRetry(UpdateJobResult(job, s, run.result))
  /\ known' = IF run.result.link = 0 THEN known ELSE known \cup {run.result.link}
  /\ case' = [case EXCEPT !.status = CaseStatus(s)]
  /\ run' = Idle
  /\ UNCHANGED <<keys, payment, subscription, links, paid, faults>>

\* run_worker_once after an exception: the job has failed, the case stays.
WorkerError ==
  /\ At("raised")
  /\ job' = UpdateJobResult(job, "failed", Result("api_error"))
  /\ run' = Idle
  /\ UNCHANGED <<case, keys, env, faults>>

\* The worker dies; reset_stale_claimed_jobs queues the job again.
Crash ==
  /\ run # Idle /\ Fault
  /\ run' = Idle
  /\ UNCHANGED <<job, case, keys, env>>

ResetStale ==
  /\ job.status = "executing" /\ run = Idle
  /\ job' = [job EXCEPT !.status = "scheduled", !.retry = @ + 1]
  /\ UNCHANGED <<case, keys, run, env, faults>>
-----------------------------------------------------------------------------
\* Meanwhile: the gateway gives up an authorization that was not captured in
\* time, or the merchant refunds; a mandate is cancelled; a webhook rewrites
\* the amount of the case; the customer pays a link, once.
PaymentRefunded ==
  /\ payment \in {"authorized", "captured"} /\ payment' = "refunded"
  /\ UNCHANGED <<job, case, keys, run, subscription, links, known, paid, faults>>

SubscriptionCancelled ==
  /\ subscription' = "cancelled"
  /\ UNCHANGED <<job, case, keys, run, payment, links, known, paid, faults>>

WebhookRewritesAmount ==
  /\ run = Idle /\ case' = [case EXCEPT !.amount = "other"]
  /\ UNCHANGED <<job, keys, run, env, faults>>

CustomerPays ==
  /\ \E k \in known \ paid : paid' = paid \cup {k}
  /\ UNCHANGED <<job, case, keys, run, payment, subscription, links, known, faults>>

Gateway == PaymentRefunded \/ SubscriptionCancelled \/ WebhookRewritesAmount \/ CustomerPays

Next ==
  \/ ExecuteRecovery
  \/ AskPayment \/ AskCapture \/ CheckSubscription \/ VerifySubscriptionInactive
  \/ CreateRecoveryLink
  \/ Persist \/ WorkerError \/ Crash \/ ResetStale
  \/ Gateway

Spec == Init /\ [][Next]_vars
=============================================================================
