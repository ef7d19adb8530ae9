------------------------- MODULE RecoverySchedulerProps -------------------------
(* The correctness properties of RecoveryScheduler.                            *)
EXTENDS RecoveryScheduler

\* Every variable stays within its type.
TypeOK ==
  /\ status \in CaseStatuses /\ reason \in FailureReasons
  /\ jobs \in [Attempts -> [status : JobStatuses, retry : Nat, wait : Int, age : Nat]]
  /\ seen \subseteq Deliveries
  /\ worker \in [Workers -> [phase : {"idle", "peeked", "held", "answered"},
                             job : 0..MaxRetries, retry : Nat, read : CaseStatuses,
                             result : Results]]
  /\ calls \in [Attempts -> Nat]
  /\ cancelling \in 0..MaxRetries /\ cancels \in 0..MaxCancels
  /\ up \in BOOLEAN /\ crashes \in 0..MaxCrashes /\ timeouts \in 0..MaxTimeOuts

\* scheduler.py, CONCURRENCY: a job that a worker is executing is marked so (or
\* was cancelled meanwhile), and no second worker has it, through crashes and
\* resets of stale jobs.
OneClaimant ==
  \A w \in Workers, j \in Attempts : Holds(w, j) =>
     /\ jobs[j].status \in {"executing", "cancelled"}
     /\ \A v \in Workers : Holds(v, j) => v = w

\* retry_count never undercounts: a job in need of its n-th gateway call was put
\* back n-1 times, by a transient failure or by the reset after a crash.
CallsAreCounted == \A j \in Attempts : calls[j] <= jobs[j].retry + 1

\* Each job row obeys JobContract, with as many calls as MAX_RETRIES and the
\* crashes allow.
JobOf(j) == INSTANCE JobContract WITH
  Cap     <- MaxRetries + MaxCrashes,
  charges <- calls[j],
  state   <- CASE jobs[j].status = "none"      -> "none"
               [] jobs[j].status = "scheduled" -> "waiting"
               [] jobs[j].status = "executing" -> "running"
               [] OTHER                        -> "over"

\* (One transaction of the webhook or of the reset moves several jobs.)
JobsKeepTheirContract ==
  /\ \A j \in Attempts : JobOf(j)!JInit
  /\ [][\A j \in Attempts : JobOf(j)!JNext \/ UNCHANGED JobOf(j)!jvars]_vars

Over(j)     == jobs[j].status \in TerminalJobStatuses
Orphaned(j) == jobs[j].status = "executing" /\ \A w \in Workers : ~Holds(w, j)

\* A queued job is executed until it has an outcome, unless its worker dies.
JobsEndOrAreOrphaned ==
  \A j \in Attempts : (jobs[j].status = "scheduled") ~> (Over(j) \/ Orphaned(j))

\* scheduler.py, APPLICATION RESTART SAFETY: a job whose worker died longer than
\* the stale window before the restart is executed after all, if the process
\* does not crash again.
StaleJobsComeBack ==
  \A j \in Attempts :
    (/\ ~up /\ crashes = MaxCrashes
     /\ jobs[j].status = "executing" /\ jobs[j].age > StaleWindow) ~> Over(j)

\* db.cancel_job: a job that was cancelled while no worker had it stays so.
QuietCancelHolds ==
  [][\A j \in Attempts :
       (jobs[j].status = "cancelled" /\ \A w \in Workers : worker[w].job # j)
          => jobs'[j].status = "cancelled"]_vars

-------------------------------------------------------------------------------
(* What the documentation says and the code does not do.                       *)

\* scheduler.execute_job: a job that succeeded leaves its case recovered.
SuccessRecovers == (\E j \in Attempts : jobs[j].status = "succeeded") => status = "recovered"

\* db.cancel_job: a cancelled job is never executed or queued again.
CancelledStaysCancelled ==
  [][\A j \in Attempts :
       jobs[j].status = "cancelled" => jobs'[j].status = "cancelled"]_vars

\* scheduler.reset_stale_claimed_jobs: no job is permanently lost.
NoJobIsLost == \A j \in Attempts : (jobs[j].status = "executing") ~> ~Orphaned(j)
===============================================================================
