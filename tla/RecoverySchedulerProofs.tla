------------------------ MODULE RecoverySchedulerProofs ------------------------
(***************************************************************************)
(* Proofs about RecoveryScheduler, for every number of workers, attempts,  *)
(* webhooks, crashes and cancelled jobs: one worker per job and a counted  *)
(* gateway call, as long as no wait for the write lock times out, and the  *)
(* lasting cancellation of a job that no worker has.                       *)
(***************************************************************************)
EXTENDS RecoverySchedulerProps, TLAPS

JobRows == [status : JobStatuses, retry : Nat, wait : Int, age : Nat]

Locals == [phase : {"idle", "peeked", "held", "answered"}, job : 0..MaxRetries,
           retry : Nat, read : CaseStatuses, result : Results]

\* The columns that the claims and the counters depend on.
TypeInv ==
  /\ jobs \in [Attempts -> JobRows]
  /\ worker \in [Workers -> Locals]
  /\ calls \in [Attempts -> Nat]
  /\ status \in CaseStatuses /\ reason \in FailureReasons
  /\ seen \subseteq Deliveries
  /\ cancelling \in 0..MaxRetries /\ cancels \in 0..MaxCancels
  /\ up \in BOOLEAN /\ crashes \in 0..MaxCrashes /\ timeouts \in 0..MaxTimeOuts

\* A worker that is not idle works on an attempt.
Busy == \A w \in Workers : worker[w].phase # "idle" => worker[w].job \in Attempts

LEMMA Constants ==
  /\ MaxRetries \in Nat \ {0} /\ Gap \in Nat /\ FirstDelays \subseteq Nat
  /\ Backoff \in Nat /\ StaleWindow \in Nat /\ MaxLate \in Nat
  /\ MaxTimeOuts \in Nat /\ MaxCrashes \in Nat /\ MaxCancels \in Nat
  /\ Reasons \subseteq FailureReasons /\ Handover \subseteq CaseStatuses
BY SchedulerAssumption

LEMMA DueAreAttempts ==
  ASSUME NEW j \in NextDue
  PROVE  j \in Attempts /\ jobs[j].status = "scheduled"
BY DEF NextDue, Due

\* A job status is computed from an outcome; it is never 'none'.
LEMMA JobStatusType ==
  ASSUME NEW x, NEW n
  PROVE  JobStatusAfter(x, n) \in {"succeeded", "failed", "scheduled", "exhausted"}
BY DEF JobStatusAfter

LEMMA CaseStatusType ==
  ASSUME status \in CaseStatuses, NEW r, NEW x, NEW s
  PROVE  CaseStatusAfter(r, x, s) \in CaseStatuses
BY DEF CaseStatusAfter, CaseStatuses

\* A half-written result leaves the case in a status and counts a retry at most.
LEMMA HalvesType ==
  ASSUME status \in CaseStatuses, NEW w \in Workers, NEW h \in Halves(w)
  PROVE  h.case \in CaseStatuses /\ h.retried \in {0, 1}
<1> DEFINE s == JobStatusAfter(worker[w].result, worker[w].retry)
           c == CaseStatusAfter(worker[w].read, worker[w].result, s)
<1>1. c \in CaseStatuses /\ "broken_promise" \in CaseStatuses
  BY CaseStatusType DEF CaseStatuses
<1>2. h \in {[case |-> status, retried |-> 0], [case |-> c, retried |-> 0],
             [case |-> "broken_promise", retried |-> 0],
             [case |-> status, retried |-> 1]}
  BY DEF Halves
<1> HIDE DEF s, c
<1> QED BY <1>1, <1>2

LEMMA DelaysType ==
  ASSUME NEW r, NEW d \in Delays(r), NEW j \in Attempts
  PROVE  d[j] \in Int
<1>1. PICK first \in FirstDelays \cup {0} :
        d = [k \in Attempts |-> IF k = 1 THEN first ELSE (k - 1) * Gap]
  BY DEF Delays
<1>2. d[j] = IF j = 1 THEN first ELSE (j - 1) * Gap
  BY <1>1
<1>3. first \in Int
  BY <1>1, Constants
<1>4. j \in Int /\ Gap \in Int
  BY Constants DEF Attempts
<1>5. (j - 1) * Gap \in Int
  BY <1>4
<1> QED BY <1>2, <1>3, <1>5

\* The writes to a job row and to a worker's local variables keep their types.
LEMMA RowEdits ==
  ASSUME NEW r \in JobRows, NEW s \in JobStatuses, NEW n \in Nat, NEW x \in Int,
         NEW a \in Nat
  PROVE  /\ [r EXCEPT !.status = s] \in JobRows
         /\ [r EXCEPT !.status = s, !.age = a] \in JobRows
         /\ [r EXCEPT !.status = s, !.retry = n] \in JobRows
         /\ [r EXCEPT !.status = s, !.retry = n, !.wait = x] \in JobRows
         /\ [r EXCEPT !.wait = x, !.age = a] \in JobRows
BY DEF JobRows

LEMMA IdleType == Idle \in Locals
BY Constants DEF Idle, Locals, CaseStatuses, Results

LEMMA HoldingType ==
  ASSUME NEW j \in Attempts, NEW n \in Nat
  PROVE  [Idle EXCEPT !.phase = "held", !.job = j, !.retry = n] \in Locals
<1>1. j \in 0..MaxRetries
  BY Constants DEF Attempts
<1> QED BY <1>1, IdleType DEF Locals

-------------------------------------------------------------------------------
(* Types.                                                                      *)

LEMMA InitTypes == Init => TypeInv /\ Busy
<1> SUFFICES ASSUME Init PROVE TypeInv /\ Busy
  OBVIOUS
<1>1. NoJob \in JobRows
  BY DEF NoJob, JobRows, JobStatuses
<1>2. Idle \in Locals
  BY Constants DEF Idle, Locals, CaseStatuses, Results
<1>3. Busy
  BY DEF Init, Busy, Idle
<1>4. jobs \in [Attempts -> JobRows] /\ worker \in [Workers -> Locals]
  BY <1>1, <1>2 DEF Init
<1> QED BY <1>3, <1>4, Constants DEF Init, TypeInv

\* A claim writes the job's row and the worker's local variables.
LEMMA ClaimTypes ==
  ASSUME TypeInv, Busy, NEW w \in Workers, NEW j \in Attempts
  PROVE  /\ Claimed(j) \in [Attempts -> JobRows]
         /\ Holding(w, j) \in [Workers -> Locals]
         /\ \A v \in Workers : Holding(w, j)[v] =
              IF v = w THEN [Idle EXCEPT !.phase = "held", !.job = j,
                                         !.retry = jobs[j].retry]
              ELSE worker[v]
<1>1. jobs[j] \in JobRows /\ jobs \in [Attempts -> JobRows]
      /\ worker \in [Workers -> Locals]
  BY DEF TypeInv
<1>2. [jobs[j] EXCEPT !.status = "executing", !.age = 0] \in JobRows
  BY <1>1 DEF JobRows, JobStatuses
<1>3. Claimed(j) = [jobs EXCEPT ![j] = [jobs[j] EXCEPT !.status = "executing", !.age = 0]]
  BY <1>1 DEF Claimed
<1> DEFINE n == jobs[j].retry
<1>4. n \in Nat /\ j \in 0..MaxRetries
  BY <1>1, Constants DEF JobRows, Attempts
<1> HIDE DEF n
<1>5. [Idle EXCEPT !.phase = "held", !.job = j, !.retry = n] \in Locals
  BY <1>4, HoldingType
<1>6. Holding(w, j) = [worker EXCEPT ![w] =
                         [Idle EXCEPT !.phase = "held", !.job = j, !.retry = n]]
  BY DEF Holding, n
<1> QED BY <1>1, <1>2, <1>3, <1>5, <1>6 DEF n

LEMMA TypeStep == TypeInv /\ Busy /\ [Next]_vars => TypeInv' /\ Busy'
<1> SUFFICES ASSUME TypeInv, Busy, [Next]_vars PROVE TypeInv' /\ Busy'
  OBVIOUS
<1> USE Constants
<1>0. /\ jobs \in [Attempts -> JobRows] /\ worker \in [Workers -> Locals]
      /\ \A j \in Attempts : jobs[j] \in JobRows
      /\ \A w \in Workers : worker[w] \in Locals
  BY DEF TypeInv
<1>1. ASSUME NEW e \in Deliveries, NEW r \in Reasons, Webhook(e, r)
      PROVE  TypeInv' /\ Busy'
  <2>1. jobs' \in [Attempts -> JobRows]
    <3>1. CASE r = "mandate_revoked"
      BY <1>1, <3>1, <1>0 DEF Webhook, Schedule
    <3>2. CASE r # "mandate_revoked"
      <4>1. PICK d \in Delays(r) : jobs' = [j \in Attempts |->
              IF Created(j) THEN jobs[j]
              ELSE [NoJob EXCEPT !.status = "scheduled", !.wait = d[j]]]
        BY <1>1, <3>2 DEF Webhook, Schedule
      <4>2. \A j \in Attempts : d[j] \in Int
        BY DelaysType
      <4>3. \A j \in Attempts :
              [NoJob EXCEPT !.status = "scheduled", !.wait = d[j]] \in JobRows
        BY <4>2 DEF NoJob, JobRows, JobStatuses
      <4> QED BY <1>0, <4>1, <4>3
    <3> QED BY <3>1, <3>2
  <2> QED BY <2>1, <1>1 DEF Webhook, env, TypeInv, Busy
<1>2. ASSUME AgentSettles PROVE TypeInv' /\ Busy'
  BY <1>2 DEF AgentSettles, env, TypeInv, Busy, CaseStatuses
<1>3. ASSUME NEW w \in Workers, Claim(w) PROVE TypeInv' /\ Busy'
  <2>1. PICK j \in NextDue : jobs' = Claimed(j) /\ worker' = Holding(w, j)
    BY <1>3 DEF Claim
  <2>2. j \in Attempts
    BY DueAreAttempts
  <2>3. /\ jobs' \in [Attempts -> JobRows] /\ worker' \in [Workers -> Locals]
        /\ \A v \in Workers : worker'[v] = IF v = w
             THEN [Idle EXCEPT !.phase = "held", !.job = j, !.retry = jobs[j].retry]
             ELSE worker[v]
    <3>1. /\ Claimed(j) \in [Attempts -> JobRows]
          /\ Holding(w, j) \in [Workers -> Locals]
          /\ \A v \in Workers : Holding(w, j)[v] = IF v = w
               THEN [Idle EXCEPT !.phase = "held", !.job = j, !.retry = jobs[j].retry]
               ELSE worker[v]
      BY <2>2, ClaimTypes
    <3> QED BY <2>1, <3>1
  <2>4. Busy'
    BY <2>2, <2>3 DEF Busy, Idle
  <2>5. TypeInv'
    BY <1>3, <2>3 DEF Claim, env, TypeInv
  <2> QED BY <2>4, <2>5
<1>4. ASSUME NEW w \in Workers, Peek(w) PROVE TypeInv' /\ Busy'
  <2>1. PICK j \in NextDue : worker' = [Holding(w, j) EXCEPT ![w].phase = "peeked"]
    BY <1>4 DEF Peek
  <2>2. j \in Attempts
    BY DueAreAttempts
  <2>3. Holding(w, j) \in [Workers -> Locals]
        /\ \A v \in Workers : Holding(w, j)[v] = IF v = w
             THEN [Idle EXCEPT !.phase = "held", !.job = j, !.retry = jobs[j].retry]
             ELSE worker[v]
    BY <2>2, ClaimTypes
  <2>4. worker' \in [Workers -> Locals]
    BY <2>1, <2>3 DEF Locals
  <2>5. Busy'
    <3>1. /\ worker'[w].job = j
          /\ \A v \in Workers \ {w} : worker'[v] = worker[v]
      BY <2>1, <2>3 DEF Idle
    <3> QED BY <2>2, <3>1 DEF Busy
  <2>6. timeouts' \in 0..MaxTimeOuts
    BY <1>4 DEF Peek, TypeInv
  <2>7. TypeInv'
    BY <1>4, <2>4, <2>6 DEF Peek, TypeInv
  <2> QED BY <2>5, <2>7
<1>5. ASSUME NEW w \in Workers, ClaimLate(w) PROVE TypeInv' /\ Busy'
  <2>0. worker[w].job \in Attempts
    BY <1>5 DEF ClaimLate, Busy
  <2>1. Idle \in Locals
    BY IdleType
  <2>2. Claimed(worker[w].job) \in [Attempts -> JobRows]
    BY <2>0, ClaimTypes
  <2>3. jobs' \in [Attempts -> JobRows]
    BY <1>0, <1>5, <2>2 DEF ClaimLate
  <2>4. worker' = [worker EXCEPT ![w].phase = "held"] \/ worker' = [worker EXCEPT ![w] = Idle]
    BY <1>5 DEF ClaimLate
  <2>6. worker' \in [Workers -> Locals]
    BY <1>0, <2>1, <2>4 DEF Locals
  <2>7. Busy'
    <3>1. CASE worker' = [worker EXCEPT ![w].phase = "held"]
      BY <1>0, <2>0, <3>1 DEF Busy
    <3>2. CASE worker' = [worker EXCEPT ![w] = Idle]
      BY <1>0, <3>2 DEF Busy, Idle
    <3> QED BY <2>4, <3>1, <3>2
  <2>5. TypeInv'
    BY <1>5, <2>3, <2>6 DEF ClaimLate, env, TypeInv
  <2> QED BY <2>5, <2>7
<1>6. ASSUME NEW w \in Workers, Execute(w) PROVE TypeInv' /\ Busy'
  <2>1. PICK x \in Results : worker' = [worker EXCEPT ![w].phase = "answered",
                                          ![w].read = status, ![w].result = x]
    BY <1>6 DEF Execute
  <2>2. status \in CaseStatuses
    BY DEF TypeInv
  <2>3. worker' \in [Workers -> Locals]
    <3>1. worker[w] \in Locals
      BY <1>0
    <3>2. [worker[w] EXCEPT !.phase = "answered", !.read = status, !.result = x] \in Locals
      BY <2>1, <2>2, <3>1 DEF Locals
    <3> QED BY <1>0, <2>1, <3>2
  <2>4. Busy'
    BY <1>0, <1>6, <2>1 DEF Execute, Busy
  <2>7. calls \in [Attempts -> Nat] /\ worker[w].job \in Attempts
    BY <1>6 DEF Execute, TypeInv, Busy
  <2>8. calls' = [calls EXCEPT ![worker[w].job] = calls[worker[w].job] + 1]
    BY <1>6 DEF Execute
  <2>5. calls' \in [Attempts -> Nat]
    BY <2>7, <2>8
  <2>6. TypeInv'
    BY <1>6, <2>3, <2>5 DEF Execute, env, TypeInv
  <2> QED BY <2>4, <2>6
<1>7. ASSUME NEW w \in Workers, Finish(w) PROVE TypeInv' /\ Busy'
  <2> DEFINE j == worker[w].job
             s == JobStatusAfter(worker[w].result, worker[w].retry)
             row == [jobs[j] EXCEPT !.status = s,
                        !.retry = IF s = "scheduled" THEN @ + 1 ELSE @,
                        !.wait = IF s = "scheduled" THEN Backoff ELSE @]
  <2>0. j \in Attempts /\ s \in JobStatuses
    BY <1>7, JobStatusType DEF Finish, Busy, JobStatuses
  <2>1. Idle \in Locals
    BY IdleType
  <2>2. jobs' = [jobs EXCEPT ![j] = row]
    BY <1>0, <1>7, <2>0 DEF Finish
  <2>3. row \in JobRows
    <3>1. jobs[j] \in JobRows
      BY <1>0, <2>0
    <3>2. CASE s = "scheduled"
      <4>1. row = [jobs[j] EXCEPT !.status = s, !.retry = jobs[j].retry + 1, !.wait = Backoff]
        BY <3>2
      <4> DEFINE n == jobs[j].retry + 1
      <4>2. n \in Nat /\ Backoff \in Int
        BY <3>1 DEF JobRows
      <4> HIDE DEF n
      <4>3. [jobs[j] EXCEPT !.status = s, !.retry = n, !.wait = Backoff] \in JobRows
        BY <2>0, <3>1, <4>2, RowEdits
      <4> QED BY <4>1, <4>3 DEF n
    <3>3. CASE s # "scheduled"
      <4>1. row = [jobs[j] EXCEPT !.status = s, !.retry = jobs[j].retry, !.wait = jobs[j].wait]
        BY <3>3
      <4> QED BY <2>0, <3>1, <4>1 DEF JobRows
    <3> QED BY <3>2, <3>3
  <2>4. jobs' \in [Attempts -> JobRows]
    BY <1>0, <2>0, <2>2, <2>3
  <2>5. worker' \in [Workers -> Locals] /\ Busy'
    BY <1>0, <1>7, <2>1 DEF Finish, Busy, Idle
  <2>6. status' \in CaseStatuses
    BY <1>7, CaseStatusType DEF Finish, TypeInv
  <2>7. TypeInv'
    BY <1>7, <2>4, <2>5, <2>6 DEF Finish, env, TypeInv
  <2> QED BY <2>5, <2>7
<1>8. ASSUME NEW w \in Workers, WorkerError(w) PROVE TypeInv' /\ Busy'
  <2>1. Idle \in Locals
    BY IdleType
  <2>2. worker[w].job \in Attempts
    BY <1>8 DEF WorkerError, Busy
  <2>3. jobs' \in [Attempts -> JobRows] /\ status' \in CaseStatuses
    <3>1. CASE \E h \in Halves(w) :
                 /\ jobs' = [jobs EXCEPT ![worker[w].job].status = "failed",
                                        ![worker[w].job].retry = @ + h.retried]
                 /\ status' = h.case
      <4>1. PICK h \in Halves(w) :
                 /\ jobs' = [jobs EXCEPT ![worker[w].job].status = "failed",
                                        ![worker[w].job].retry = @ + h.retried]
                 /\ status' = h.case
        BY <3>1
      <4>2. h.case \in CaseStatuses /\ h.retried \in {0, 1}
        BY HalvesType DEF TypeInv
      <4> DEFINE n == jobs[worker[w].job].retry + h.retried
      <4>3. jobs[worker[w].job] \in JobRows /\ n \in Nat
        BY <1>0, <2>2, <4>2 DEF JobRows
      <4>4. jobs' = [jobs EXCEPT ![worker[w].job] =
                       [jobs[worker[w].job] EXCEPT !.status = "failed", !.retry = n]]
        BY <1>0, <2>2, <4>1
      <4> HIDE DEF n
      <4>5. [jobs[worker[w].job] EXCEPT !.status = "failed", !.retry = n] \in JobRows
        BY <4>3 DEF JobRows, JobStatuses
      <4> QED BY <1>0, <2>2, <4>1, <4>2, <4>4, <4>5
    <3>2. CASE UNCHANGED <<jobs, status>>
      BY <1>0, <3>2 DEF TypeInv
    <3> QED BY <1>8, <3>1, <3>2 DEF WorkerError
  <2>4. worker' \in [Workers -> Locals] /\ Busy'
    BY <1>0, <1>8, <2>1 DEF WorkerError, Busy, Idle
  <2>5. timeouts' \in 0..MaxTimeOuts
    BY <1>8 DEF WorkerError, TypeInv
  <2>6. TypeInv'
    BY <1>8, <2>3, <2>4, <2>5 DEF WorkerError, TypeInv
  <2> QED BY <2>4, <2>6
<1>9. ASSUME NEW j \in Attempts, CancelLooksUp(j) PROVE TypeInv' /\ Busy'
  BY <1>9 DEF CancelLooksUp, TypeInv, Busy, Attempts
<1>10. ASSUME CancelWrites PROVE TypeInv' /\ Busy'
  <2>1. cancelling \in Attempts
    BY <1>10 DEF CancelWrites, TypeInv, Attempts
  <2>2. jobs' \in [Attempts -> JobRows]
    BY <1>0, <1>10, <2>1 DEF CancelWrites, JobRows, JobStatuses
  <2> QED BY <1>10, <2>2 DEF CancelWrites, TypeInv, Busy
<1>11. ASSUME Crash PROVE TypeInv' /\ Busy'
  <2>1. Idle \in Locals
    BY IdleType
  <2>2. worker' \in [Workers -> Locals] /\ Busy'
    BY <1>11, <2>1 DEF Crash, Busy, Idle
  <2>3. crashes' \in 0..MaxCrashes
    BY <1>11 DEF Crash, TypeInv
  <2>4. up' = FALSE /\ cancelling' = 0
    BY <1>11 DEF Crash
  <2>6. cancelling' \in 0..MaxRetries
    BY <2>4
  <2>5. UNCHANGED <<status, reason, jobs, seen, calls, cancels, timeouts>>
    BY <1>11 DEF Crash
  <2> QED BY <2>2, <2>3, <2>4, <2>5, <2>6 DEF TypeInv
<1>12. ASSUME Boot PROVE TypeInv' /\ Busy'
  <2>1. ASSUME NEW j \in Attempts
        PROVE [jobs[j] EXCEPT !.status = "scheduled", !.retry = @ + 1] \in JobRows
    <3> DEFINE n == jobs[j].retry + 1
    <3>1. n \in Nat /\ "scheduled" \in JobStatuses
      BY <1>0 DEF JobRows, JobStatuses
    <3> HIDE DEF n
    <3>0. jobs[j] \in JobRows
      BY <1>0
    <3>2. [jobs[j] EXCEPT !.status = "scheduled", !.retry = n] \in JobRows
      BY <3>0, <3>1 DEF JobRows
    <3> QED BY <3>2 DEF n
  <2>2. jobs' \in [Attempts -> JobRows]
    BY <1>0, <1>12, <2>1 DEF Boot
  <2> QED BY <1>12, <2>2 DEF Boot, TypeInv, Busy
<1>13. ASSUME Tick PROVE TypeInv' /\ Busy'
  <2>1. ASSUME NEW j \in Attempts
        PROVE [jobs[j] EXCEPT !.wait = IF @ > -MaxLate THEN @ - 1 ELSE @,
                 !.age = IF jobs[j].status = "executing" /\ @ <= StaleWindow
                         THEN @ + 1 ELSE @] \in JobRows
    <3> DEFINE wt == IF jobs[j].wait > -MaxLate THEN jobs[j].wait - 1 ELSE jobs[j].wait
               ag == IF jobs[j].status = "executing" /\ jobs[j].age <= StaleWindow
                     THEN jobs[j].age + 1 ELSE jobs[j].age
    <3>1. jobs[j] \in JobRows
      BY <1>0
    <3>2. wt \in Int /\ ag \in Nat
      BY <3>1 DEF JobRows
    <3> HIDE DEF wt, ag
    <3>3. [jobs[j] EXCEPT !.wait = wt, !.age = ag] \in JobRows
      BY <3>1, <3>2 DEF JobRows
    <3> QED BY <3>3 DEF wt, ag
  <2>2. jobs' \in [Attempts -> JobRows]
    BY <1>0, <1>13, <2>1 DEF Tick
  <2> QED BY <1>13, <2>2 DEF Tick, env, TypeInv, Busy
<1>14. CASE UNCHANGED vars
  BY <1>14 DEF vars, env, TypeInv, Busy
<1> QED
  BY <1>1, <1>2, <1>3, <1>4, <1>5, <1>6, <1>7, <1>8, <1>9, <1>10, <1>11, <1>12,
     <1>13, <1>14 DEF Next, Work

\* Every variable keeps its type, whatever the bounds: no attempt, retry or
\* lock wait of the scheduler (execute_job, reset_stale_claimed_jobs) leaves it.
THEOREM SchedulerTypes == Spec => []TypeOK
<1>1. TypeInv => TypeOK
  BY DEF TypeInv, TypeOK, JobRows, Locals
<1>2. Spec => [](TypeInv /\ Busy)
  BY InitTypes, TypeStep, PTL DEF Spec
<1> QED BY <1>1, <1>2, PTL

-------------------------------------------------------------------------------
(* One worker per job, counted gateway calls and the job contract, as long as  *)
(* no wait for the write lock times out. First what each action does to the    *)
(* columns that matter, point by point; the invariants are then preserved by   *)
(* what these lemmas say.                                                      *)

Engaged(w) == worker[w].phase \in {"held", "answered"}

\* A worker's claim is the only one, and a process that is down has none.
Exclusive ==
  /\ \A w \in Workers : worker[w].phase # "peeked"
  /\ ~up => \A w \in Workers : worker[w].phase = "idle"
  /\ OneClaimant

\* Every gateway call but the last was followed by a retry that was counted.
Counted ==
  /\ \A j \in Attempts : /\ calls[j] <= jobs[j].retry + 1
                         /\ jobs[j].status = "none" => calls[j] = 0
                         /\ jobs[j].status = "scheduled" => calls[j] <= jobs[j].retry
  /\ \A w \in Workers :
       /\ worker[w].phase = "held" => calls[worker[w].job] <= jobs[worker[w].job].retry
       /\ worker[w].phase = "answered" => calls[worker[w].job] > 0
       /\ Engaged(w) => worker[w].retry = jobs[worker[w].job].retry

\* The retries that are left pay for every further call.
Bounded ==
  \A j \in Attempts : Pending(j) =>
    jobs[j].retry + (IF up THEN 0 ELSE 1) <= MaxRetries - 1 + crashes

\* No job was ever cancelled.
Uncancelled == cancelling = 0 /\ \A j \in Attempts : jobs[j].status # "cancelled"

Typed == TypeInv /\ Busy

-------------------------------------------------------------------------------
(* What each action does.                                                      *)

\* The fields of w's local variables are those of worker[w]; j is its attempt.
LEMMA Rows ==
  ASSUME Typed
  PROVE  /\ jobs \in [Attempts -> JobRows] /\ worker \in [Workers -> Locals]
         /\ calls \in [Attempts -> Nat]
         /\ \A j \in Attempts : /\ jobs[j].retry \in Nat /\ jobs[j].status \in JobStatuses
                                /\ calls[j] \in Nat
         /\ \A w \in Workers : worker[w].retry \in Nat
         /\ \A w \in Workers : Engaged(w) => worker[w].job \in Attempts
         /\ crashes \in Nat /\ up \in BOOLEAN
<1>1. crashes \in Nat
  BY Constants DEF Typed, TypeInv
<1> QED BY <1>1 DEF Typed, TypeInv, Busy, Engaged, JobRows, Locals

\* Claim takes one scheduled job for one idle worker.
LEMMA ClaimEffect ==
  ASSUME Typed, NEW w \in Workers, Claim(w)
  PROVE  /\ \E j \in Attempts :
              /\ jobs[j].status = "scheduled" /\ jobs'[j].status = "executing"
              /\ jobs'[j].retry = jobs[j].retry
              /\ \A k \in Attempts : k # j => jobs'[k] = jobs[k]
              /\ worker'[w].phase = "held" /\ worker'[w].job = j
              /\ worker'[w].retry = jobs[j].retry
         /\ \A v \in Workers : v # w => worker'[v] = worker[v]
         /\ calls' = calls /\ up' = up /\ crashes' = crashes /\ up
         /\ cancelling' = cancelling
<1>1. PICK j \in NextDue : jobs' = Claimed(j) /\ worker' = Holding(w, j)
  BY DEF Claim
<1>2. j \in Attempts /\ jobs[j].status = "scheduled"
  BY DueAreAttempts
<1>3. \A v \in Workers : worker'[v] = IF v = w
        THEN [Idle EXCEPT !.phase = "held", !.job = j, !.retry = jobs[j].retry]
        ELSE worker[v]
  <2>1. \A v \in Workers : Holding(w, j)[v] = IF v = w
          THEN [Idle EXCEPT !.phase = "held", !.job = j, !.retry = jobs[j].retry]
          ELSE worker[v]
    BY <1>2, ClaimTypes DEF Typed
  <2> QED BY <1>1, <2>1
<1>4. worker'[w] = [Idle EXCEPT !.phase = "held", !.job = j, !.retry = jobs[j].retry]
  BY <1>3
<1>5. /\ worker'[w].phase = "held" /\ worker'[w].job = j
      /\ worker'[w].retry = jobs[j].retry
  BY <1>4 DEF Idle
<1>6. /\ jobs'[j].status = "executing" /\ jobs'[j].retry = jobs[j].retry
      /\ \A k \in Attempts : k # j => jobs'[k] = jobs[k]
  BY <1>1, <1>2, Rows DEF Claimed, JobRows
<1>7. calls' = calls /\ up' = up /\ crashes' = crashes /\ up /\ cancelling' = cancelling
  BY DEF Claim, env
<1> QED BY <1>2, <1>3, <1>5, <1>6, <1>7

\* Execute calls the gateway for the job its worker holds.
LEMMA ExecuteEffect ==
  ASSUME Typed, NEW w \in Workers, Execute(w)
  PROVE  /\ worker[w].phase = "held" /\ worker'[w].phase = "answered"
         /\ worker[w].job \in Attempts
         /\ worker'[w].job = worker[w].job /\ worker'[w].retry = worker[w].retry
         /\ \A v \in Workers : v # w => worker'[v] = worker[v]
         /\ calls'[worker[w].job] = calls[worker[w].job] + 1
         /\ \A k \in Attempts : k # worker[w].job => calls'[k] = calls[k]
         /\ jobs' = jobs /\ up' = up /\ crashes' = crashes /\ cancelling' = cancelling
<1>1. PICK x \in Results : worker' = [worker EXCEPT ![w].phase = "answered",
                                        ![w].read = status, ![w].result = x]
  BY DEF Execute
<1>2. worker[w].phase = "held" /\ calls' = [calls EXCEPT ![worker[w].job] = @ + 1]
      /\ jobs' = jobs /\ up' = up /\ crashes' = crashes /\ cancelling' = cancelling
  BY DEF Execute, env
<1>3. worker[w].job \in Attempts
  BY <1>2 DEF Typed, Busy
<1>4. /\ worker'[w].phase = "answered" /\ worker'[w].job = worker[w].job
      /\ worker'[w].retry = worker[w].retry
      /\ \A v \in Workers : v # w => worker'[v] = worker[v]
  BY <1>1, Rows DEF Locals
<1>5. /\ calls'[worker[w].job] = calls[worker[w].job] + 1
      /\ \A k \in Attempts : k # worker[w].job => calls'[k] = calls[k]
  BY <1>2, <1>3, Rows
<1> QED BY <1>2, <1>3, <1>4, <1>5

\* Finish ends the job, or puts it back and counts a retry that was left.
LEMMA FinishEffect ==
  ASSUME Typed, NEW w \in Workers, Finish(w)
  PROVE  /\ worker[w].phase = "answered" /\ worker'[w].phase = "idle"
         /\ worker[w].job \in Attempts
         /\ \A v \in Workers : v # w => worker'[v] = worker[v]
         /\ \/ /\ jobs'[worker[w].job].status \in {"succeeded", "failed", "exhausted"}
               /\ jobs'[worker[w].job].retry = jobs[worker[w].job].retry
            \/ /\ jobs'[worker[w].job].status = "scheduled"
               /\ jobs'[worker[w].job].retry = jobs[worker[w].job].retry + 1
               /\ worker[w].retry < MaxRetries - 1
         /\ \A k \in Attempts : k # worker[w].job => jobs'[k] = jobs[k]
         /\ calls' = calls /\ up' = up /\ crashes' = crashes /\ cancelling' = cancelling
<1> DEFINE j == worker[w].job
           s == JobStatusAfter(worker[w].result, worker[w].retry)
<1>1. worker[w].phase = "answered" /\ worker' = [worker EXCEPT ![w] = Idle]
      /\ calls' = calls /\ up' = up /\ crashes' = crashes /\ cancelling' = cancelling
  BY DEF Finish, env
<1>2. j \in Attempts
  BY <1>1 DEF Typed, Busy
<1>3. jobs' = [jobs EXCEPT ![j].status = s,
                 ![j].retry = IF s = "scheduled" THEN @ + 1 ELSE @,
                 ![j].wait = IF s = "scheduled" THEN Backoff ELSE @]
  BY DEF Finish
<1>4. s \in {"succeeded", "failed", "scheduled", "exhausted"}
  BY JobStatusType
<1>5. s = "scheduled" => worker[w].retry < MaxRetries - 1
  BY DEF JobStatusAfter
<1> HIDE DEF s
<1>6. jobs'[j].status = s
      /\ jobs'[j].retry = (IF s = "scheduled" THEN jobs[j].retry + 1 ELSE jobs[j].retry)
      /\ \A k \in Attempts : k # j => jobs'[k] = jobs[k]
  BY <1>2, <1>3, Rows DEF JobRows
<1>7. worker'[w].phase = "idle" /\ \A v \in Workers : v # w => worker'[v] = worker[v]
  BY <1>1, Rows DEF Idle
<1> QED BY <1>1, <1>2, <1>4, <1>5, <1>6, <1>7

\* The handler of an exception ends the job; the retry may be counted already.
LEMMA ErrorEffect ==
  ASSUME Typed, MaxTimeOuts = 0, NEW w \in Workers, WorkerError(w)
  PROVE  /\ worker[w].phase = "answered" /\ worker'[w].phase = "idle"
         /\ worker[w].job \in Attempts
         /\ \A v \in Workers : v # w => worker'[v] = worker[v]
         /\ jobs'[worker[w].job].status = "failed"
         /\ jobs'[worker[w].job].retry
              \in {jobs[worker[w].job].retry, jobs[worker[w].job].retry + 1}
         /\ \A k \in Attempts : k # worker[w].job => jobs'[k] = jobs[k]
         /\ calls' = calls /\ up' = up /\ crashes' = crashes /\ cancelling' = cancelling
<1>1. worker[w].phase = "answered" /\ worker' = [worker EXCEPT ![w] = Idle]
      /\ calls' = calls /\ up' = up /\ crashes' = crashes /\ cancelling' = cancelling
  BY DEF WorkerError
<1>2. worker[w].job \in Attempts
  BY <1>1 DEF Typed, Busy
<1>3. ~(timeouts < MaxTimeOuts)
  BY DEF Typed, TypeInv
<1>4. PICK h \in Halves(w) :
        jobs' = [jobs EXCEPT ![worker[w].job].status = "failed",
                             ![worker[w].job].retry = @ + h.retried]
  BY <1>3 DEF WorkerError
<1>5. h.retried \in {0, 1}
  BY HalvesType DEF Typed, TypeInv
<1>7. /\ jobs'[worker[w].job].status = "failed"
      /\ jobs'[worker[w].job].retry = jobs[worker[w].job].retry + h.retried
      /\ \A k \in Attempts : k # worker[w].job => jobs'[k] = jobs[k]
  BY <1>2, <1>4, Rows DEF JobRows
<1>8. jobs'[worker[w].job].retry
        \in {jobs[worker[w].job].retry, jobs[worker[w].job].retry + 1}
  BY <1>2, <1>5, <1>7, Rows
<1>6. worker'[w].phase = "idle" /\ \A v \in Workers : v # w => worker'[v] = worker[v]
  BY <1>1, Rows DEF Idle
<1> QED BY <1>1, <1>2, <1>6, <1>7, <1>8

\* The webhook creates scheduled rows that were never called.
LEMMA WebhookEffect ==
  ASSUME Typed, NEW e \in Deliveries, NEW r \in Reasons, Webhook(e, r)
  PROVE  /\ \A j \in Attempts :
              \/ jobs'[j] = jobs[j]
              \/ /\ jobs[j].status = "none"
                 /\ jobs'[j].status = "scheduled" /\ jobs'[j].retry = 0
         /\ worker' = worker /\ calls' = calls /\ up' = up /\ crashes' = crashes
         /\ up /\ cancelling' = cancelling
<1>1. worker' = worker /\ calls' = calls /\ up' = up /\ crashes' = crashes
      /\ up /\ cancelling' = cancelling /\ Schedule(r)
  BY DEF Webhook, env
<1>2. ASSUME NEW j \in Attempts
      PROVE  \/ jobs'[j] = jobs[j]
             \/ /\ jobs[j].status = "none"
                /\ jobs'[j].status = "scheduled" /\ jobs'[j].retry = 0
  <2>1. CASE r = "mandate_revoked"
    BY <1>1, <2>1 DEF Schedule
  <2>2. CASE r # "mandate_revoked"
    <3>1. PICK d \in Delays(r) : jobs' = [k \in Attempts |->
            IF Created(k) THEN jobs[k]
            ELSE [NoJob EXCEPT !.status = "scheduled", !.wait = d[k]]]
      BY <1>1, <2>2 DEF Schedule
    <3>2. jobs'[j] = IF Created(j) THEN jobs[j]
                     ELSE [NoJob EXCEPT !.status = "scheduled", !.wait = d[j]]
      BY <3>1
    <3> QED BY <3>2 DEF Created, NoJob
  <2> QED BY <2>1, <2>2
<1> QED BY <1>1, <1>2

\* The reset of stale jobs puts back executing ones and counts the retry.
LEMMA BootEffect ==
  ASSUME Typed, Boot
  PROVE  /\ \A j \in Attempts :
              \/ jobs'[j] = jobs[j]
              \/ /\ jobs[j].status = "executing" /\ jobs'[j].status = "scheduled"
                 /\ jobs'[j].retry = jobs[j].retry + 1
         /\ worker' = worker /\ calls' = calls /\ crashes' = crashes
         /\ ~up /\ up' = TRUE /\ cancelling' = cancelling
<1>1. worker' = worker /\ calls' = calls /\ crashes' = crashes
      /\ ~up /\ up' = TRUE /\ cancelling' = cancelling
  BY DEF Boot
<1>2. ASSUME NEW j \in Attempts
      PROVE  \/ jobs'[j] = jobs[j]
             \/ /\ jobs[j].status = "executing" /\ jobs'[j].status = "scheduled"
                /\ jobs'[j].retry = jobs[j].retry + 1
  <2>1. jobs'[j] = IF Stale(j) THEN [jobs[j] EXCEPT !.status = "scheduled", !.retry = @ + 1]
                   ELSE jobs[j]
    BY DEF Boot
  <2> QED BY <2>1, Rows DEF Stale, JobRows
<1> QED BY <1>1, <1>2

\* Time changes neither a job's status nor its retry count.
LEMMA TickEffect ==
  ASSUME Typed, Tick
  PROVE  /\ \A j \in Attempts : /\ jobs'[j].status = jobs[j].status
                                /\ jobs'[j].retry = jobs[j].retry
         /\ worker' = worker /\ calls' = calls /\ up' = up /\ crashes' = crashes
         /\ cancelling' = cancelling
<1>1. worker' = worker /\ calls' = calls /\ up' = up /\ crashes' = crashes
      /\ cancelling' = cancelling
  BY DEF Tick, env
<1>2. ASSUME NEW j \in Attempts
      PROVE  jobs'[j].status = jobs[j].status /\ jobs'[j].retry = jobs[j].retry
  <2>1. jobs'[j] = IF Pending(j)
          THEN [jobs[j] EXCEPT !.wait = IF @ > -MaxLate THEN @ - 1 ELSE @,
                 !.age = IF jobs[j].status = "executing" /\ @ <= StaleWindow
                         THEN @ + 1 ELSE @]
          ELSE jobs[j]
    BY DEF Tick
  <2> QED BY <2>1, Rows DEF JobRows
<1> QED BY <1>1, <1>2

\* The cancel route's UPDATE changes one job's status.
LEMMA CancelEffect ==
  ASSUME Typed, CancelWrites
  PROVE  /\ cancelling \in Attempts /\ cancelling' = 0
         /\ jobs'[cancelling].status = "cancelled"
         /\ jobs'[cancelling].retry = jobs[cancelling].retry
         /\ \A k \in Attempts : k # cancelling => jobs'[k] = jobs[k]
         /\ worker' = worker /\ calls' = calls /\ up' = up /\ crashes' = crashes
<1>1. cancelling # 0 /\ cancelling' = 0
      /\ jobs' = [jobs EXCEPT ![cancelling].status = "cancelled"]
      /\ worker' = worker /\ calls' = calls /\ up' = up /\ crashes' = crashes
  BY DEF CancelWrites
<1>2. cancelling \in Attempts
  BY <1>1, Constants DEF Typed, TypeInv, Attempts
<1> QED BY <1>1, <1>2, Rows DEF JobRows

\* A crash loses every worker's local variables.
LEMMA CrashEffect ==
  ASSUME Typed, Crash
  PROVE  /\ \A w \in Workers : worker'[w].phase = "idle"
         /\ jobs' = jobs /\ calls' = calls /\ up /\ up' = FALSE
         /\ crashes' = crashes + 1 /\ cancelling' = 0
BY DEF Crash, Idle

\* Nothing else touches the jobs, their workers or the count of calls.
LEMMA OtherEffect ==
  ASSUME AgentSettles \/ (\E j \in Attempts : CancelLooksUp(j)) \/ UNCHANGED vars
  PROVE  /\ jobs' = jobs /\ worker' = worker /\ calls' = calls /\ up' = up
         /\ crashes' = crashes
         /\ cancelling' = cancelling \/ \E j \in Attempts : CancelLooksUp(j)
<1>1. CASE AgentSettles
  BY <1>1 DEF AgentSettles, env
<1>2. CASE \E j \in Attempts : CancelLooksUp(j)
  BY <1>2 DEF CancelLooksUp
<1>3. CASE UNCHANGED vars
  BY <1>3 DEF vars, env
<1> QED BY <1>1, <1>2, <1>3

\* Without a wait that times out, the claim is never read outside the lock.
LEMMA NoPeek ==
  ASSUME Typed, MaxTimeOuts = 0
  PROVE  ~\E w \in Workers : Peek(w)
BY DEF Typed, TypeInv, Peek

-------------------------------------------------------------------------------
(* The invariants.                                                             *)

\* What is left of Next once no wait times out.
LEMMA Steps ==
  ASSUME Typed, Exclusive, MaxTimeOuts = 0, [Next]_vars
  PROVE  \/ \E e \in Deliveries, r \in Reasons : Webhook(e, r)
         \/ \E w \in Workers : Claim(w) \/ Execute(w) \/ Finish(w) \/ WorkerError(w)
         \/ CancelWrites \/ Crash \/ Boot \/ Tick
         \/ AgentSettles \/ (\E j \in Attempts : CancelLooksUp(j)) \/ UNCHANGED vars
<1>1. ~\E w \in Workers : Peek(w)
  BY NoPeek
<1>2. ~\E w \in Workers : ClaimLate(w)
  BY DEF Exclusive, ClaimLate
<1> QED BY <1>1, <1>2 DEF Next, Work

LEMMA ExclusiveStep ==
  ASSUME Typed, Exclusive, MaxTimeOuts = 0, [Next]_vars
  PROVE  Exclusive'
<1> USE DEF Exclusive, OneClaimant, Holds
<1>1. ASSUME NEW e \in Deliveries, NEW r \in Reasons, Webhook(e, r) PROVE Exclusive'
  BY <1>1, WebhookEffect
<1>2. ASSUME NEW w \in Workers, Claim(w) PROVE Exclusive'
  <2>1. PICK j \in Attempts :
          /\ jobs[j].status = "scheduled" /\ jobs'[j].status = "executing"
          /\ \A k \in Attempts : k # j => jobs'[k] = jobs[k]
          /\ worker'[w].phase = "held" /\ worker'[w].job = j
    BY <1>2, ClaimEffect
  <2>2. /\ \A v \in Workers : v # w => worker'[v] = worker[v]
        /\ up' = up /\ up
    BY <1>2, ClaimEffect
  <2>3. \A v \in Workers : ~Holds(v, j)
    BY <2>1
  <2> QED BY <2>1, <2>2, <2>3
<1>3. ASSUME NEW w \in Workers, Execute(w) PROVE Exclusive'
  BY <1>3, ExecuteEffect
<1>4. ASSUME NEW w \in Workers, Finish(w) PROVE Exclusive'
  <2>1. \A v \in Workers : v # w => ~Holds(v, worker[w].job)
    BY <1>4, FinishEffect
  <2> QED BY <1>4, <2>1, FinishEffect
<1>5. ASSUME NEW w \in Workers, WorkerError(w) PROVE Exclusive'
  <2>1. \A v \in Workers : v # w => ~Holds(v, worker[w].job)
    BY <1>5, ErrorEffect
  <2> QED BY <1>5, <2>1, ErrorEffect
<1>6. CASE CancelWrites
  BY <1>6, CancelEffect
<1>7. CASE Crash
  BY <1>7, CrashEffect
<1>8. CASE Boot
  BY <1>8, BootEffect
<1>9. CASE Tick
  BY <1>9, TickEffect
<1>10. CASE AgentSettles \/ (\E j \in Attempts : CancelLooksUp(j)) \/ UNCHANGED vars
  BY <1>10, OtherEffect
<1> QED BY Steps, <1>1, <1>2, <1>3, <1>4, <1>5, <1>6, <1>7, <1>8, <1>9, <1>10

\* A step that leaves a claim alone leaves its count alone.
LEMMA CountedStep ==
  ASSUME Typed, Exclusive, Counted, MaxTimeOuts = 0, [Next]_vars
  PROVE  Counted'
<1> USE Rows DEF Counted, Engaged
<1>1. ASSUME NEW e \in Deliveries, NEW r \in Reasons, Webhook(e, r) PROVE Counted'
  <2>1. \A w \in Workers : Engaged(w) => jobs'[worker[w].job] = jobs[worker[w].job]
    BY <1>1, WebhookEffect DEF Exclusive, OneClaimant, Holds
  <2> QED BY <1>1, <2>1, WebhookEffect
<1>2. ASSUME NEW w \in Workers, Claim(w) PROVE Counted'
  <2>1. PICK j \in Attempts :
          /\ jobs[j].status = "scheduled" /\ jobs'[j].status = "executing"
          /\ jobs'[j].retry = jobs[j].retry
          /\ \A k \in Attempts : k # j => jobs'[k] = jobs[k]
          /\ worker'[w].phase = "held" /\ worker'[w].job = j
          /\ worker'[w].retry = jobs[j].retry
    BY <1>2, ClaimEffect
  <2>2. \A v \in Workers : v # w => worker'[v] = worker[v]
    BY <1>2, ClaimEffect
  <2>3. calls' = calls
    BY <1>2, ClaimEffect
  <2> QED BY <2>1, <2>2, <2>3
<1>3. ASSUME NEW w \in Workers, Execute(w) PROVE Counted'
  <2> DEFINE j == worker[w].job
  <2>1. \A v \in Workers : v # w /\ Engaged(v) => worker[v].job # j
    BY <1>3, ExecuteEffect DEF Exclusive, OneClaimant, Holds
  <2>2. jobs[j].status \in {"executing", "cancelled"} /\ j \in Attempts
    BY <1>3, ExecuteEffect DEF Exclusive, OneClaimant, Holds
  <2>3. /\ calls'[j] = calls[j] + 1 /\ \A k \in Attempts : k # j => calls'[k] = calls[k]
        /\ jobs' = jobs
    BY <1>3, ExecuteEffect
  <2>4. /\ worker[w].phase = "held" /\ worker'[w].phase = "answered"
        /\ worker'[w].job = j /\ worker'[w].retry = worker[w].retry
        /\ \A v \in Workers : v # w => worker'[v] = worker[v]
    BY <1>3, ExecuteEffect
  <2>5. \A k \in Attempts : /\ calls'[k] <= jobs'[k].retry + 1
                            /\ jobs'[k].status = "none" => calls'[k] = 0
                            /\ jobs'[k].status = "scheduled" => calls'[k] <= jobs'[k].retry
    BY <2>2, <2>3, <2>4
  <2>6. ASSUME NEW v \in Workers
        PROVE  /\ worker'[v].phase = "held" => calls'[worker'[v].job] <= jobs'[worker'[v].job].retry
               /\ worker'[v].phase = "answered" => calls'[worker'[v].job] > 0
               /\ worker'[v].phase \in {"held", "answered"}
                    => worker'[v].retry = jobs'[worker'[v].job].retry
    <3>1. CASE v = w
      BY <2>2, <2>3, <2>4, <3>1
    <3>2. CASE v # w
      BY <2>1, <2>3, <2>4, <3>2
    <3> QED BY <3>1, <3>2
  <2> QED BY <2>5, <2>6
<1>4. ASSUME NEW w \in Workers, Finish(w) PROVE Counted'
  <2> DEFINE j == worker[w].job
  <2>1. \A v \in Workers : v # w /\ Engaged(v) => worker[v].job # j
    BY <1>4, FinishEffect DEF Exclusive, OneClaimant, Holds
  <2> QED BY <1>4, <2>1, FinishEffect
<1>5. ASSUME NEW w \in Workers, WorkerError(w) PROVE Counted'
  <2>1. \A v \in Workers : v # w /\ Engaged(v) => worker[v].job # worker[w].job
    BY <1>5, ErrorEffect DEF Exclusive, OneClaimant, Holds
  <2> QED BY <1>5, <2>1, ErrorEffect
<1>6. CASE CancelWrites
  BY <1>6, CancelEffect
<1>7. CASE Crash
  BY <1>7, CrashEffect
<1>8. CASE Boot
  <2>1. \A w \in Workers : ~Engaged(w)
    BY <1>8, BootEffect DEF Exclusive
  <2> QED BY <1>8, <2>1, BootEffect
<1>9. CASE Tick
  BY <1>9, TickEffect
<1>10. CASE AgentSettles \/ (\E j \in Attempts : CancelLooksUp(j)) \/ UNCHANGED vars
  BY <1>10, OtherEffect
<1> QED BY Steps, <1>1, <1>2, <1>3, <1>4, <1>5, <1>6, <1>7, <1>8, <1>9, <1>10

LEMMA BoundedStep ==
  ASSUME Typed, Exclusive, Counted, Bounded, MaxTimeOuts = 0, [Next]_vars
  PROVE  Bounded'
<1> USE Rows, Constants DEF Bounded, Pending
<1>1. ASSUME NEW e \in Deliveries, NEW r \in Reasons, Webhook(e, r) PROVE Bounded'
  BY <1>1, WebhookEffect
<1>2. ASSUME NEW w \in Workers, Claim(w) PROVE Bounded'
  BY <1>2, ClaimEffect
<1>3. ASSUME NEW w \in Workers, Execute(w) PROVE Bounded'
  BY <1>3, ExecuteEffect
<1>4. ASSUME NEW w \in Workers, Finish(w) PROVE Bounded'
  <2>1. worker[w].retry = jobs[worker[w].job].retry
    BY <1>4, FinishEffect DEF Counted, Engaged
  <2>2. up
    BY <1>4, FinishEffect DEF Exclusive
  <2>3. up' = up /\ crashes' = crashes /\ worker[w].job \in Attempts
    BY <1>4, FinishEffect
  <2>4. \A k \in Attempts : k # worker[w].job => jobs'[k] = jobs[k]
    BY <1>4, FinishEffect
  <2>5. \/ jobs'[worker[w].job].status \in {"succeeded", "failed", "exhausted"}
        \/ /\ jobs'[worker[w].job].retry = jobs[worker[w].job].retry + 1
           /\ worker[w].retry < MaxRetries - 1
    BY <1>4, FinishEffect
  <2> QED BY <2>1, <2>2, <2>3, <2>4, <2>5
<1>5. ASSUME NEW w \in Workers, WorkerError(w) PROVE Bounded'
  BY <1>5, ErrorEffect
<1>6. CASE CancelWrites
  BY <1>6, CancelEffect
<1>7. CASE Crash
  BY <1>7, CrashEffect
<1>8. CASE Boot
  BY <1>8, BootEffect
<1>9. CASE Tick
  BY <1>9, TickEffect
<1>10. CASE AgentSettles \/ (\E j \in Attempts : CancelLooksUp(j)) \/ UNCHANGED vars
  BY <1>10, OtherEffect
<1> QED BY Steps, <1>1, <1>2, <1>3, <1>4, <1>5, <1>6, <1>7, <1>8, <1>9, <1>10

LEMMA NoCancel ==
  ASSUME Typed, MaxCancels = 0
  PROVE  ~\E j \in Attempts : CancelLooksUp(j)
BY DEF Typed, TypeInv, CancelLooksUp

\* What a step may do to one job that nobody cancels.
Moves(j) ==
  \/ jobs'[j].status = jobs[j].status /\ calls'[j] = calls[j]
  \/ /\ jobs[j].status = "none" /\ jobs'[j].status = "scheduled"
     /\ calls'[j] = calls[j]
  \/ /\ jobs[j].status = "scheduled" /\ jobs'[j].status = "executing"
     /\ calls'[j] = calls[j]
  \/ /\ jobs[j].status = "executing" /\ jobs'[j].status = "executing"
     /\ calls[j] < MaxRetries + MaxCrashes /\ calls'[j] = calls[j] + 1
  \/ /\ jobs[j].status = "executing" /\ jobs'[j].status = "scheduled"
     /\ calls'[j] = calls[j]
  \/ /\ jobs[j].status = "executing" /\ calls[j] > 0
     /\ jobs'[j].status \in {"succeeded", "failed", "exhausted"}
     /\ calls'[j] = calls[j]

\* A worker's job is executing: with cancellations gone that is its only status.
LEMMA HeldIsExecuting ==
  ASSUME Typed, Exclusive, Uncancelled, NEW w \in Workers, Engaged(w)
  PROVE  worker[w].job \in Attempts /\ jobs[worker[w].job].status = "executing"
BY Rows DEF Exclusive, OneClaimant, Holds, Engaged, Uncancelled

LEMMA MovesStep ==
  ASSUME Typed, Exclusive, Counted, Bounded, Uncancelled, MaxTimeOuts = 0,
         MaxCancels = 0, [Next]_vars
  PROVE  Uncancelled' /\ \A j \in Attempts : Moves(j)
<1> DEFINE Goal == Uncancelled' /\ \A j \in Attempts : Moves(j)
<1> USE Rows DEF Uncancelled, Moves
<1>1. ASSUME NEW e \in Deliveries, NEW r \in Reasons, Webhook(e, r) PROVE Goal
  BY <1>1, WebhookEffect
<1>2. ASSUME NEW w \in Workers, Claim(w) PROVE Goal
  BY <1>2, ClaimEffect
<1>3. ASSUME NEW w \in Workers, Execute(w) PROVE Goal
  <2> DEFINE j == worker[w].job
  <2>1. j \in Attempts /\ jobs[j].status = "executing"
    BY <1>3, ExecuteEffect, HeldIsExecuting DEF Engaged
  <2>2. calls[j] <= jobs[j].retry
    BY <1>3, ExecuteEffect DEF Counted
  <2>3. up
    BY <1>3, ExecuteEffect DEF Exclusive
  <2>4. crashes <= MaxCrashes
    BY Constants DEF Typed, TypeInv
  <2>5. calls[j] < MaxRetries + MaxCrashes
    BY <2>1, <2>2, <2>3, <2>4, Constants DEF Bounded, Pending
  <2>6. jobs' = jobs /\ cancelling' = cancelling /\ calls'[j] = calls[j] + 1
        /\ \A k \in Attempts : k # j => calls'[k] = calls[k]
    BY <1>3, ExecuteEffect
  <2>7. Uncancelled'
    BY <2>6
  <2>8. ASSUME NEW k \in Attempts PROVE Moves(k)
    BY <2>1, <2>5, <2>6
  <2> QED BY <2>7, <2>8
<1>4. ASSUME NEW w \in Workers, Finish(w) PROVE Goal
  <2>1. /\ worker[w].job \in Attempts /\ jobs[worker[w].job].status = "executing"
        /\ calls[worker[w].job] > 0
    BY <1>4, FinishEffect, HeldIsExecuting DEF Engaged, Counted
  <2> QED BY <1>4, <2>1, FinishEffect
<1>5. ASSUME NEW w \in Workers, WorkerError(w) PROVE Goal
  <2>1. /\ worker[w].job \in Attempts /\ jobs[worker[w].job].status = "executing"
        /\ calls[worker[w].job] > 0
    BY <1>5, ErrorEffect, HeldIsExecuting DEF Engaged, Counted
  <2> QED BY <1>5, <2>1, ErrorEffect
<1>6. ~CancelWrites
  BY DEF CancelWrites
<1>7. CASE Crash
  BY <1>7, CrashEffect
<1>8. CASE Boot
  BY <1>8, BootEffect
<1>9. CASE Tick
  BY <1>9, TickEffect
<1>10. CASE AgentSettles \/ (\E j \in Attempts : CancelLooksUp(j)) \/ UNCHANGED vars
  BY <1>10, OtherEffect, NoCancel
<1> QED BY Steps, <1>1, <1>2, <1>3, <1>4, <1>5, <1>6, <1>7, <1>8, <1>9, <1>10

\* The moves of a job row are the steps of its contract.
LEMMA ContractStep ==
  ASSUME Typed, Typed', NEW j \in Attempts, Moves(j)
  PROVE  JobOf(j)!JNext \/ UNCHANGED JobOf(j)!jvars
<1>1. calls[j] \in Nat /\ calls'[j] \in Nat
  BY DEF Typed, TypeInv
<1> QED BY <1>1, Constants
        DEF Moves, JobOf!JNext, JobOf!jvars, JobOf!Queue, JobOf!PickUp, JobOf!Charge,
            JobOf!PutBack, JobOf!End

\* What is cancelled and in no worker's hands is not taken up: a claim takes
\* what is scheduled, a reset what is executing, a webhook what does not exist.
Quiet(j) == jobs[j].status = "cancelled" /\ \A w \in Workers : worker[w].job # j

LEMMA QuietStep ==
  ASSUME Typed, [Next]_vars, NEW j \in Attempts, Quiet(j)
  PROVE  jobs'[j].status = "cancelled"
<1> USE DEF Quiet
<1>1. ASSUME NEW e \in Deliveries, NEW r \in Reasons, Webhook(e, r)
      PROVE  jobs'[j].status = "cancelled"
  BY <1>1, WebhookEffect
<1>2. ASSUME NEW w \in Workers, Claim(w) PROVE jobs'[j].status = "cancelled"
  BY <1>2, ClaimEffect
<1>3. ASSUME NEW w \in Workers, Peek(w) PROVE jobs'[j].status = "cancelled"
  BY <1>3 DEF Peek
<1>4. ASSUME NEW w \in Workers, ClaimLate(w) PROVE jobs'[j].status = "cancelled"
  <2>1. worker[w].job \in Attempts /\ worker[w].job # j
    BY <1>4 DEF ClaimLate, Typed, Busy
  <2>2. jobs' = Claimed(worker[w].job) \/ jobs' = jobs
    BY <1>4 DEF ClaimLate
  <2> QED BY <2>1, <2>2, Rows DEF Claimed
<1>5. ASSUME NEW w \in Workers, Execute(w) PROVE jobs'[j].status = "cancelled"
  BY <1>5, ExecuteEffect
<1>6. ASSUME NEW w \in Workers, Finish(w) PROVE jobs'[j].status = "cancelled"
  BY <1>6, FinishEffect
<1>7. ASSUME NEW w \in Workers, WorkerError(w) PROVE jobs'[j].status = "cancelled"
  <2>1. worker[w].job \in Attempts /\ worker[w].job # j
    BY <1>7 DEF WorkerError, Typed, Busy
  <2>2. jobs'[j] = jobs[j]
    BY <1>7, <2>1, Rows DEF WorkerError
  <2> QED BY <2>2
<1>8. ASSUME CancelWrites PROVE jobs'[j].status = "cancelled"
  BY <1>8, CancelEffect
<1>9. ASSUME Crash PROVE jobs'[j].status = "cancelled"
  BY <1>9, CrashEffect
<1>10. ASSUME Boot PROVE jobs'[j].status = "cancelled"
  BY <1>10, BootEffect
<1>11. ASSUME Tick PROVE jobs'[j].status = "cancelled"
  BY <1>11, TickEffect
<1>12. CASE AgentSettles \/ (\E k \in Attempts : CancelLooksUp(k)) \/ UNCHANGED vars
  BY <1>12, OtherEffect
<1> QED
  BY <1>1, <1>2, <1>3, <1>4, <1>5, <1>6, <1>7, <1>8, <1>9, <1>10, <1>11, <1>12
     DEF Next, Work

LEMMA InitInvariants == Init => Exclusive /\ Counted /\ Bounded /\ Uncancelled
BY Constants DEF Init, Idle, NoJob, Exclusive, OneClaimant, Holds, Counted, Engaged,
                 Bounded, Pending, Uncancelled

-------------------------------------------------------------------------------
(* The theorems.                                                               *)

\* claim_next_due_job hands a job to one worker at a time, through any number
\* of crashes, resets and cancellations, while no wait for the lock times out.
THEOREM OneWorkerPerJob ==
  ASSUME MaxTimeOuts = 0
  PROVE  Spec => []OneClaimant
<1>1. Init => Typed /\ Exclusive
  BY InitTypes, InitInvariants DEF Typed
<1>2. Typed /\ Exclusive /\ [Next]_vars => Typed' /\ Exclusive'
  BY TypeStep, ExclusiveStep DEF Typed
<1>3. Exclusive => OneClaimant
  BY DEF Exclusive
<1> QED BY <1>1, <1>2, <1>3, PTL DEF Spec

\* retry_count pays for every gateway call of a job but one: no crash, reset
\* or cancellation hides a call from the cap.
THEOREM EveryCallIsCounted ==
  ASSUME MaxTimeOuts = 0
  PROVE  Spec => []CallsAreCounted
<1>1. Init => Typed /\ Exclusive /\ Counted
  BY InitTypes, InitInvariants DEF Typed
<1>2. Typed /\ Exclusive /\ Counted /\ [Next]_vars => Typed' /\ Exclusive' /\ Counted'
  BY TypeStep, ExclusiveStep, CountedStep DEF Typed
<1>3. Counted => CallsAreCounted
  BY DEF Counted, CallsAreCounted
<1> QED BY <1>1, <1>2, <1>3, PTL DEF Spec

\* A job that nobody cancels waits, is executed by one worker, is charged at
\* most MAX_RETRIES times and once more per crash, and is then over for ever.
THEOREM JobsImplementContract ==
  ASSUME MaxTimeOuts = 0, MaxCancels = 0
  PROVE  Spec => JobsKeepTheirContract
<1> DEFINE Inv == Typed /\ Exclusive /\ Counted /\ Bounded /\ Uncancelled
           Steady == \A j \in Attempts : JobOf(j)!JNext \/ UNCHANGED JobOf(j)!jvars
<1>1. Init => Inv
  BY InitTypes, InitInvariants DEF Typed
<1>2. Inv /\ [Next]_vars => Inv'
  BY TypeStep, ExclusiveStep, CountedStep, BoundedStep, MovesStep DEF Typed
<1>3. Inv /\ Inv' /\ [Next]_vars => Steady
  BY MovesStep, ContractStep
<1>4. Init => \A j \in Attempts : JobOf(j)!JInit
  BY DEF Init, NoJob, JobOf!JInit
<1> HIDE DEF Inv
<1> QED BY <1>1, <1>2, <1>3, <1>4, PTL DEF Spec, JobsKeepTheirContract

\* cancel_job holds against every later step, waits for the lock that time out
\* included: a job cancelled while no worker had it is never taken up again.
THEOREM CancelledJobsStayCancelled == Spec => QuietCancelHolds
<1> DEFINE Stays == \A j \in Attempts :
                      (jobs[j].status = "cancelled" /\ \A w \in Workers : worker[w].job # j)
                         => jobs'[j].status = "cancelled"
<1>1. Init => Typed
  BY InitTypes DEF Typed
<1>2. Typed /\ [Next]_vars => Typed'
  BY TypeStep DEF Typed
<1>3. Typed /\ [Next]_vars => Stays
  BY QuietStep DEF Quiet
<1> QED BY <1>1, <1>2, <1>3, PTL DEF Spec, QuietCancelHolds
================================================================================
