--------------------------- MODULE RecoveryScheduler ---------------------------
(***************************************************************************)
(* The durable recovery jobs of one case: backend/scheduler.py and the     *)
(* recovery_jobs helpers of backend/db.py, with their callers in           *)
(* backend/app.py - the Razorpay webhook, which queues one job per         *)
(* attempt, the cancel route, and the reset of stale jobs on the first     *)
(* request after a start.                                                  *)
(*                                                                         *)
(* Each action is one committed transaction, or the gateway call between   *)
(* two of them. Workers share nothing but the database. Time is counted in *)
(* ticks of the shortest delay the code tells apart, relative to now: a    *)
(* job is due once the time it still has to wait is not positive. No time  *)
(* passes during a gateway call, which is far shorter than a tick.         *)
(***************************************************************************)
EXTENDS CaseLifecycle, Integers

CONSTANTS
  Workers,       (* threads or processes that call run_worker_once          *)
  Deliveries,    (* Razorpay event ids; each may be delivered many times    *)
  Reasons,       (* Bound: the failure reasons the webhooks bring           *)
  Handover,      (* statuses the case may have when its first job is queued *)
  MaxRetries,    (* agent.MAX_RETRIES: jobs of a case, and runs of a job    *)
  Gap,           (* ticks between two planned attempts (24 h)               *)
  FirstDelays,   (* ticks before attempt 1 of an insufficient_funds case    *)
  Backoff,       (* ticks before a transient failure is tried again         *)
  StaleWindow,   (* STALE_CLAIMED_WINDOW_MIN in ticks                       *)
  MaxTimeOuts,   (* Bound: waits for the write lock that time out           *)
  MaxLate,       (* Bound: how long ago a job fell due is told apart        *)
  MaxCrashes,    (* Bound: crashes of the process                           *)
  MaxCancels     (* Bound: requests to cancel a job                         *)

ASSUME SchedulerAssumption ==
  /\ Reasons \subseteq FailureReasons /\ Handover \subseteq CaseStatuses
  /\ MaxRetries \in Nat \ {0} /\ Gap \in Nat /\ FirstDelays \subseteq Nat
  /\ Backoff \in Nat /\ StaleWindow \in Nat /\ MaxLate \in Nat
  /\ MaxTimeOuts \in Nat /\ MaxCrashes \in Nat /\ MaxCancels \in Nat

VARIABLES
  status,      (* mandate_failures.case_status                              *)
  reason,      (* mandate_failures.failure_reason                           *)
  jobs,        (* attempt -> its recovery_jobs row                          *)
  seen,        (* the event ids in webhook_events                           *)
  worker,      (* worker -> the local variables of execute_job              *)
  calls,       (* attempt -> gateway calls made for it                      *)
  cancelling,  (* the job the cancel route has looked up, or 0              *)
  cancels,     (* how often the cancel route was called                     *)
  up,          (* the process is up and its first request was served        *)
  crashes,     (* how often it crashed                                      *)
  timeouts     (* how many waits for the lock timed out                     *)

env  == <<cancelling, cancels, up, crashes, timeouts>>
vars == <<status, reason, jobs, seen, worker, calls, env>>

-------------------------------------------------------------------------------
(* Data.                                                                       *)

Attempts == 1..MaxRetries

JobStatuses == {"none", "scheduled", "executing", "succeeded", "failed",
                "cancelled", "exhausted"}

TerminalJobStatuses == {"succeeded", "failed", "cancelled", "exhausted"}

\* wait: ticks until scheduled_at; age: ticks since claimed_at. A claim and
\* the mark 'executing' are one transaction: no commit leaves a job 'claimed'.
NoJob == [status |-> "none", retry |-> 0, wait |-> 0, age |-> 0]

\* The classes of outcome that execute_job tells apart: a success; one that
\* waits for the customer or the subscription and leaves the case alone; a
\* failure not worth retrying; any other failure; an exception.
Results == {"success", "pending", "terminal", "transient", "error"}

Idle == [phase |-> "idle", job |-> 0, retry |-> 0, read |-> "new",
         result |-> "error"]

Created(j)  == jobs[j].status # "none"
Pending(j)  == jobs[j].status \in {"scheduled", "executing"}
Holds(w, j) == worker[w].phase \in {"held", "answered"} /\ worker[w].job = j

\* Mutants: a retried job is never selected again; a cancelled one may be.
DueUntried == {j \in Attempts : /\ jobs[j].status = "scheduled" /\ jobs[j].wait <= 0
                                /\ jobs[j].retry = 0}

DueOrCancelled == {j \in Attempts : /\ jobs[j].status \in {"scheduled", "cancelled"}
                                    /\ jobs[j].wait <= 0}

\* ORDER BY scheduled_at, attempt_number among the scheduled jobs due now.
Due == {j \in Attempts : jobs[j].status = "scheduled" /\ jobs[j].wait <= 0}

NextDue == {j \in Due : \A k \in Due : \/ jobs[j].wait < jobs[k].wait
                                       \/ jobs[j].wait = jobs[k].wait /\ j <= k}

-------------------------------------------------------------------------------
\* (A webhook for an unknown customer inserts the case as 'new' first.)
Init ==
  /\ status \in Handover /\ reason \in Reasons
  /\ jobs = [j \in Attempts |-> NoJob]
  /\ seen = {} /\ worker = [w \in Workers |-> Idle]
  /\ calls = [j \in Attempts |-> 0]
  /\ cancelling = 0 /\ cancels = 0 /\ up = TRUE /\ crashes = 0
  /\ timeouts = 0

-------------------------------------------------------------------------------
(* The webhook route.                                                          *)

\* schedule_recovery_jobs: attempt 1 waits for the salary window of a case
\* with insufficient funds, the others keep their distance from now.
Delays(r) ==
  {[j \in Attempts |-> IF j = 1 THEN first ELSE (j - 1) * Gap] :
     first \in IF r = "insufficient_funds" THEN FirstDelays ELSE {0}}

Schedule(r) ==
  IF r = "mandate_revoked" THEN UNCHANGED jobs
  ELSE \E d \in Delays(r) :
         jobs' = [j \in Attempts |->
                    IF Created(j) THEN jobs[j]
                    ELSE [NoJob EXCEPT !.status = "scheduled", !.wait = d[j]]]

\* A delivery whose event id is known adds an audit row and nothing else. A
\* new one rewrites the row's reason, queues the jobs and is COMPLETED.
Webhook(e, r) ==
  /\ up /\ e \notin seen
  /\ seen' = seen \cup {e}
  /\ reason' = r
  /\ Schedule(r)
  /\ UNCHANGED <<status, worker, calls, env>>

\* A run of the agent pipeline settles a new case (RecoveryPipeline).
AgentSettles ==
  /\ up /\ status = "new"
  /\ status' \in {"recovered", "escalated", "rejected"}
  /\ UNCHANGED <<reason, jobs, seen, worker, calls, env>>

-------------------------------------------------------------------------------
(* run_worker_once and execute_job.                                            *)

Claimed(j) == [jobs EXCEPT ![j].status = "executing", ![j].age = 0]

Holding(w, j) == [worker EXCEPT ![w] = [Idle EXCEPT !.phase = "held", !.job = j,
                                                    !.retry = jobs[j].retry]]

\* Mutant: the claim is not written.
ClaimUnmarked(w) ==
  /\ up /\ worker[w].phase = "idle"
  /\ \E j \in NextDue : worker' = Holding(w, j)
  /\ UNCHANGED <<status, reason, jobs, seen, calls, env>>

\* claim_next_due_job under BEGIN IMMEDIATE, and the mark 'executing' after it.
Claim(w) ==
  /\ up /\ worker[w].phase = "idle"
  /\ \E j \in NextDue : jobs' = Claimed(j) /\ worker' = Holding(w, j)
  /\ UNCHANGED <<status, reason, seen, calls, env>>

\* BEGIN IMMEDIATE timed out and its exception was swallowed: the job is
\* selected without the lock ...
Peek(w) ==
  /\ timeouts < MaxTimeOuts /\ timeouts' = timeouts + 1
  /\ up /\ worker[w].phase = "idle"
  /\ \E j \in NextDue : worker' = [Holding(w, j) EXCEPT ![w].phase = "peeked"]
  /\ UNCHANGED <<status, reason, jobs, seen, calls, cancelling, cancels, up, crashes>>

\* ... and the UPDATE, which names only the job id, takes it or times out too.
ClaimLate(w) ==
  /\ worker[w].phase = "peeked"
  /\ \/ /\ jobs' = Claimed(worker[w].job)
        /\ worker' = [worker EXCEPT ![w].phase = "held"]
     \/ worker' = [worker EXCEPT ![w] = Idle] /\ UNCHANGED jobs
  /\ UNCHANGED <<status, reason, seen, calls, env>>

\* The case is read, outside of any transaction, and the gateway answers.
Execute(w) ==
  /\ worker[w].phase = "held"
  /\ \E x \in Results :
       worker' = [worker EXCEPT ![w].phase = "answered", ![w].read = status,
                                ![w].result = x]
  /\ calls' = [calls EXCEPT ![worker[w].job] = @ + 1]
  /\ UNCHANGED <<status, reason, jobs, seen, env>>

\* Mutants: one retry too many; the outcome is stored as the status.
JobStatusAfterOneMore(x, retry) ==
  CASE x \in {"success", "pending"} -> "succeeded"
    [] x = "terminal" -> "failed"
    [] x = "transient" /\ retry < MaxRetries -> "scheduled"
    [] OTHER -> "exhausted"

\* The job's status after an answer: the retry count is the claim's.
JobStatusAfter(x, retry) ==
  CASE x \in {"success", "pending"} -> "succeeded"
    [] x = "terminal" -> "failed"
    [] x = "transient" /\ retry < MaxRetries - 1 -> "scheduled"
    [] OTHER -> "exhausted"

\* _try_set_case_recovered and _try_set_case_escalated: legality is judged by
\* the status that was read before the gateway call, and the row is overwritten.
Recovers(read, x) == x = "success" /\ IsLegalTransition(read, "recovered")

Escalates(read, jobStatus) ==
  /\ jobStatus \in {"failed", "exhausted"}
  /\ \/ IsLegalTransition(read, "escalated")
     \/ IsLegalTransition(read, "broken_promise")

CaseStatusAfter(read, x, jobStatus) ==
  CASE Recovers(read, x) -> "recovered"
    [] Escalates(read, jobStatus) -> "escalated"
    [] OTHER -> status

\* The rest of execute_job, in one transaction: the outcome, the audit rows,
\* the case's transition, and for a transient failure the next try.
Finish(w) ==
  LET j == worker[w].job
      s == JobStatusAfter(worker[w].result, worker[w].retry)
  IN /\ worker[w].phase = "answered" /\ worker[w].result # "error"
     /\ jobs' = [jobs EXCEPT ![j].status = s,
                   ![j].retry = IF s = "scheduled" THEN @ + 1 ELSE @,
                   ![j].wait = IF s = "scheduled" THEN Backoff ELSE @]
     /\ status' = CaseStatusAfter(worker[w].read, worker[w].result, s)
     /\ worker' = [worker EXCEPT ![w] = Idle]
     /\ UNCHANGED <<reason, seen, calls, env>>

\* How far the transaction above may have come when a step of it raises: the
\* case untouched, at broken_promise on its way to escalated, or written, and
\* the retry counted or not. Nothing is written when the gateway call raised.
Halves(w) ==
  LET l == worker[w]
      s == JobStatusAfter(l.result, l.retry)
  IN {[case |-> status, retried |-> 0]} \cup
     IF l.result = "error" THEN {}
     ELSE {[case |-> CaseStatusAfter(l.read, l.result, s), retried |-> 0]}
          \cup (IF Escalates(l.read, s) /\ ~IsLegalTransition(l.read, "escalated")
                THEN {[case |-> "broken_promise", retried |-> 0]} ELSE {})
          \cup (IF s = "scheduled" THEN {[case |-> status, retried |-> 1]} ELSE {})

\* run_worker_once's handler for an exception: the job failed, and the commit
\* takes along what the transaction holds. The handler's own exception, a write
\* that timed out before the transaction had the lock, is swallowed.
WorkerError(w) ==
  /\ worker[w].phase = "answered"
  /\ \/ /\ \E h \in Halves(w) :
             /\ jobs' = [jobs EXCEPT ![worker[w].job].status = "failed",
                                    ![worker[w].job].retry = @ + h.retried]
             /\ status' = h.case
        /\ UNCHANGED timeouts
     \/ /\ timeouts < MaxTimeOuts /\ timeouts' = timeouts + 1
        /\ UNCHANGED <<jobs, status>>
  /\ worker' = [worker EXCEPT ![w] = Idle]
  /\ UNCHANGED <<reason, seen, calls, cancelling, cancels, up, crashes>>

-------------------------------------------------------------------------------
(* The cancel route: a look at the job, then an UPDATE by id.                  *)

CancelLooksUp(j) ==
  /\ up /\ cancels < MaxCancels /\ cancelling = 0
  /\ Created(j) /\ jobs[j].status \notin TerminalJobStatuses
  /\ cancelling' = j /\ cancels' = cancels + 1
  /\ UNCHANGED <<status, reason, jobs, seen, worker, calls, up, crashes, timeouts>>

CancelWrites ==
  /\ cancelling # 0
  /\ jobs' = [jobs EXCEPT ![cancelling].status = "cancelled"]
  /\ cancelling' = 0
  /\ UNCHANGED <<status, reason, seen, worker, calls, cancels, up, crashes, timeouts>>

-------------------------------------------------------------------------------
(* Crashes, restarts and the clock.                                            *)

Crash ==
  /\ up /\ crashes < MaxCrashes
  /\ up' = FALSE /\ crashes' = crashes + 1
  /\ worker' = [w \in Workers |-> Idle] /\ cancelling' = 0
  /\ UNCHANGED <<status, reason, jobs, seen, calls, cancels, timeouts>>

\* Mutant: the comparison is turned round.
StaleYoung(j) == jobs[j].status = "executing" /\ jobs[j].age <= StaleWindow

Stale(j) == jobs[j].status = "executing" /\ jobs[j].age > StaleWindow

\* Mutant: the reset forgets to count the retry.
BootUncounted ==
  /\ ~up /\ up' = TRUE
  /\ jobs' = [j \in Attempts |->
       IF Stale(j) THEN [jobs[j] EXCEPT !.status = "scheduled"] ELSE jobs[j]]
  /\ UNCHANGED <<status, reason, seen, worker, calls, cancelling,
                 cancels, crashes, timeouts>>

\* The first request after a start resets the jobs whose worker died, once;
\* jobs claimed less than the window ago stay 'executing'.
Boot ==
  /\ ~up /\ up' = TRUE
  /\ jobs' = [j \in Attempts |->
       IF Stale(j) THEN [jobs[j] EXCEPT !.status = "scheduled", !.retry = @ + 1]
       ELSE jobs[j]]
  /\ UNCHANGED <<status, reason, seen, worker, calls, cancelling,
                 cancels, crashes, timeouts>>

Tick ==
  /\ \A w \in Workers : worker[w].phase = "idle"
  /\ jobs' = [j \in Attempts |->
       IF Pending(j)
       THEN [jobs[j] EXCEPT !.wait = IF @ > -MaxLate THEN @ - 1 ELSE @,
                            !.age  = IF jobs[j].status = "executing"
                                        /\ @ <= StaleWindow
                                     THEN @ + 1 ELSE @]
       ELSE jobs[j]]
  /\ UNCHANGED <<status, reason, seen, worker, calls, env>>

-------------------------------------------------------------------------------
\* What a worker does by itself once run_worker_once is called.
Work(w) == \/ Claim(w) \/ Peek(w) \/ ClaimLate(w)
           \/ Execute(w) \/ Finish(w) \/ WorkerError(w)

Next == \/ \E e \in Deliveries, r \in Reasons : Webhook(e, r)
        \/ AgentSettles
        \/ \E w \in Workers : Work(w)
        \/ \E j \in Attempts : CancelLooksUp(j)
        \/ CancelWrites
        \/ Crash \/ Boot \/ Tick

Spec == Init /\ [][Next]_vars

\* run_worker_loop polls for ever, a request that was begun is served, a
\* process that crashed is started again, and time passes.
FairSpec == /\ Spec
            /\ \A w \in Workers : WF_vars(Work(w))
            /\ WF_vars(CancelWrites) /\ WF_vars(Boot) /\ WF_vars(Tick)
===============================================================================
