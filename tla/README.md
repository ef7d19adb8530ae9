# Mandate Rescue: a verification project

TLA+ models of Mandate Rescue (`src/backend`), checked by TLC on small instances, with
theorems that TLAPS proves for every value of the constants. Every definition is
translated from the code; `PROJECT.json` maps each one to its lines.

## 1. The system

Mandate Rescue recovers failed recurring debits. A Razorpay webhook (or the seed)
puts a failed mandate into `mandate_failures`; an agent pipeline works the case with
notices, debits and promises until it is recovered or escalated; durable jobs retry
in the background through a payment gateway; a learning layer attributes outcomes, runs
experiments and proposes policy changes that a merchant approves; a second generation
("phase 7") keeps recovery cases with invoices, checkout sessions, promises and
approvals. All of it is Flask routes, threads and a scheduler process around one SQLite
file.

### Components

| component | state it keeps | operations | modelled in |
|---|---|---|---|
| case state machine (`db.py`) | `case_status`, `LEGAL_TRANSITIONS` | `is_legal_transition` | `CaseLifecycle` |
| agent pipeline (`agent.py`) | the case row, `audit_log`, `state_transitions` | gates, diagnosis, strategy, retry loop, promise, dunning, escalation | `RecoveryPipeline` |
| audit checker (`audit_check.py`) | none | seven rules over row and trail | `AuditCheck` (rules 1 to 5) |
| agent runs (`agent.py`, `app.py`) | a snapshot of the cases, the SQLite write lock | sweep, streamed run, replay, commit, rollback | `AgentRuns` |
| webhook intake (`app.py`, `razorpay_adapter.py`) | `webhook_events`, the case row, its jobs | verify, map, claim the event id, persist, enqueue, commit | `WebhookIntake`; its effects on runs and jobs under way in `RecoveryPipeline`, `AgentRuns`, `RecoveryScheduler` |
| recovery scheduler (`scheduler.py`, `db.py`) | `recovery_jobs`, the workers' locals | schedule, claim, execute, retry, exhaust, cancel, reset of stale jobs | `RecoveryScheduler` |
| payment executor, Razorpay client | ids and link in the job's row; payment, subscription and links at the gateway | fetch, capture, check a subscription, send a link | `PaymentExecutor` (partly) |
| policy governance (`policy_engine.py`, `db.py`) | `policy_recommendations`, `policy_versions`, `policy_audit_log` | scan, approve, reject, roll back | `PolicyGovernance` |
| phase 7 (`recovery_orchestrator.py`, `promise_tracker.py`, `b2b_recovery.py`, `checkout_recovery.py`, `mandate_sequencer.py`, `policy_center.py`) | `recovery_cases`, actions, approvals, promises, invoices, sessions, retry log, the merchant's policy | create, score, decide, approve, execute, record an outcome, mark paid, refresh, schedule a retry, patch the policy | `RecoveryOrchestrator`, `RecoveryScoring` (partly) |
| merchant accounts (`auth.py`) | accounts, one-time codes, sessions | register, verify, log in and out, reset, change password and address | `MerchantAccounts` |
| experiments, attribution, choice of a strategy | arms, outcomes, `strategy_performance` | assign, record, complete, evaluate, attribute, backfill, recommend | `Learning`, `StrategyChoice` (partly) |
| SSE tokens, rate limiter | tokens, sliding windows | issue, use, prune, admit | `RequestGuards` |
| pure functions of phase 7 | none | scores, priorities, actions, channels | `RecoveryScoring`; the older ones (`scoring.py`, `salary_window.py`, `risk_engine.py`, ...) are not |
| analysis, metrics, chaos test, messages, LLM, configuration, seed, export, demo, front end, ML scripts | none of a protocol | read-only or pure I/O | not modelled |

### How they interact

* The routes, the agent and the scheduler share nothing but the database (and, within a
  process, the tokens and the windows of the rate limiter). Each request and each worker has
  its own connection; a `SELECT` before the first write of a transaction does not hold the
  write lock, so what it read may be stale at the write. That is the pattern nearly every
  model is about: a read is a step of its own, everything from the first write to the commit
  is one. `BEGIN IMMEDIATE` waits 15 s and then raises; `_acquire_processing_lock` and
  `claim_next_due_job` swallow that exception and go on without the lock.
* Jobs are created by the webhook. `_schedule_jobs_for_case`, which the agent calls for
  each case, returns early for a resolved case, and every case is resolved at that
  point (`ResolvedAtCommit`, proved): the agent never creates a job.
* The worker and the agent both write `case_status`, each behind its own gate.
* The worker's gateway call is outside any transaction: answers get lost, and a retried job
  meets a gateway that has moved on (`PaymentExecutor`).

### What is hard

Two runs on one case; a worker that dies between claim and result; an answer that
arrives after a cancel, or never; a lock wait that times out; events redelivered or changed
while a run is under way; a retry loop in which promises, notices and failed debits
interleave; approvals and rollbacks that cross; a document paid while its case is decided; a
code verified while its account is replaced; outcomes attributed while cases move on.
`PROJECT.json` lists every hazard at its line with the property that would catch it.

## 2. Modules

A component `X` has its model in `X.tla`, its properties in `XProps.tla`, its instance for
TLC in `MCX.tla` and its proofs, if any, in `XProofs.tla`; `AccessProofs` holds those of both
`MerchantAccounts` and `RequestGuards`.

| module | content |
|---|---|
| `CaseLifecycle` | the statuses and the legal transitions |
| `RecoveryPipeline` | one case, delivered repeatedly; one action per call of the pipeline |
| `CaseContract` | abstract: refused, escalated untried, or worked once with debits 1..k and settled |
| `AuditCheck` | the rules of the audit checker, as predicates of a case and its trail |
| `AgentRuns` | many runs over many cases; a delivery of `RecoveryPipeline` is one action |
| `WebhookIntake` | deliveries of events, their handlers and the transaction that claims them |
| `RecoveryScheduler` | the jobs of one case, many workers, a process that crashes |
| `JobContract` | abstract: a job waits, runs, charges only while running and at most `Cap` times, ends |
| `PaymentExecutor` | the executions of one job, call by call, against a gateway with state |
| `PolicyGovernance` | recommendations and policy versions under concurrent requests |
| `RecoveryOrchestrator` | phase 7 cases with documents, approvals, retries and policy, by concurrent requests |
| `RecoveryScoring` | the pure functions a phase 7 decision is made of |
| `MerchantAccounts` | accounts, codes and sessions under concurrent requests |
| `Learning` | experiments, outcomes and attribution while the cases change |
| `StrategyChoice` | the recommendation made from what `Learning` has filled |
| `RequestGuards` | the rate limiter's window and the stream tokens, by threads |

The layers fit together by their contracts. `RecoveryPipeline` implements
`CaseContract` (proved); `AgentRuns` replaces the pipeline by what a delivery can leave
behind, and each of many cases is proved to implement `CaseContract` still;
`RecoveryScheduler` lets `AgentSettles` do to the case what the agent does, and reduces
a gateway call to its outcome class, which `PaymentExecutor` unfolds.

### State and actions

* **RecoveryPipeline.** `status`, `dunning`, `compliance`, `trail`, `moves` are the columns
  and rows of the case inside the run's transaction; `committed` is what other
  connections see; `Commit` copies one way, `Rollback` the other. `input` is the stored
  event, `sealed` the event its stored signature was made over: a webhook rewrites the
  former and not the latter. `pc` is the next call. Amounts, scores, texts and times are
  left out; the random draws (debit, promise, notice compliance) are free choices.
* **AgentRuns.** `Load` reads the snapshot without the lock, `Begin` is `BEGIN IMMEDIATE`,
  `TimeOut` its swallowed exception, `LateWrite` the first write of a run without the lock.
  `draft` is the holder's uncommitted book, `stored` the committed one; `overtaken` is
  history: the cases that a run without the lock worked although another had them. All gates
  and `set_status` decide on the snapshot: `Raises` is the `ValueError` of `set_status`, which
  ends the whole run (`Fail`, `GiveUp`). An invalid case passes the idempotency check of every
  run and is refused and logged again.
* **WebhookIntake.** `db` is the committed state, `tx` the copy of the handler that holds the
  lock. A handler looks for the event id outside of any transaction, then claims it, writes
  the case row and the jobs and commits; an exception or a crash drops `tx`. Razorpay sends an
  event until a 2xx answer reaches it, and may send it again later. `applied` is history.
* **RecoveryScheduler.** One action per committed transaction and one for the gateway
  call between two of them (`Execute`), with what the worker read before the call kept in
  `worker`. `wait` and `age` are `scheduled_at` and `claimed_at` relative to now, in ticks;
  the delays are constants, and the runs give them small values in the order of the real
  ones (retry back-off and stale window below the gap between attempts, that below the
  wait for the salary window). No commit leaves a job `claimed`:
  the claim and the mark `executing` are one transaction. A job's overdue time is
  told apart up to `MaxLate` only: among jobs overdue longer the model may tie where the
  code orders by `scheduled_at`, and the tie is broken by the attempt number.
  `calls` counts gateway calls and is not in the code. The outcome class `pending` is a
  payment that waits for the customer or an active subscription: the job succeeds, the case
  stays. `Halves` are the states the result's transaction may have reached when a step of
  it raises: the handler in `run_worker_once` commits them with the failed job
  (`WorkerError`), unless its own write raises, which is swallowed and leaves the job
  `executing`.
* **PaymentExecutor.** One action per call of an execution. `run` is the execution under way,
  `payment`, `subscription`, `links` and `paid` are the gateway's and the customer's. A call
  fails, or succeeds and its answer is lost; the process crashes between any two. What
  `execute_job` stores of an answer is the last step of an execution.
* **PolicyGovernance.** The reads of a request before its first write are steps of their
  own; an approval has two transactions (`ApproveWrites`, `Activate`); `log` of a row is
  its part of `policy_audit_log`. `Reject` changes no row, because the route does not commit.
* **RecoveryOrchestrator.** `rows`, `asks`, `docs`, `retries`, `policy` are the tables; each
  route is one action if it writes at once, two if it reads first, three if it commits in
  between (settling a document, scheduling a mandate retry). A retry is scheduled for any
  case the request names, of whatever kind and status, or for an open one of the mandate; an
  unknown case id only adds a row of the retry log, which no case reads. `opened`, `settled`
  and `orphaned` are history. Amounts are the numbers the thresholds tell apart, days count
  to `MaxDay`.
* **MerchantAccounts.** A code is its number: entering `k` is right for challenge `k` only.
  Passwords are versions. A request reads, then writes. A request that enters a code reads
  the account (`WillFind`), then the challenge (`FindCode`), then counts the attempt, then
  compares, each a step of its own as in the code; one that asks for a code reads the account
  and the age of its last code in one step. `compared` and `excused` are history.
* **Learning, StrategyChoice.** A sweep or a backfill reads the cases and commits them one by
  one while `CaseMoves` changes their status, and `WebhookRewrites` their failure reason and
  their jobs; `claimed` is history: a bag of which case each row of `strategy_performance` has
  counted how often. An experiment's verdict is `Verdict`, its rates rounded to four digits
  as in the code; the label of its confidence is left out. The choice is an operator over
  `perf`.
* **RequestGuards.** A thread reads the clock, waits up to `MaxWait` ticks for the lock, then
  acts on the window or the store of tokens with the time it has read. `refused` is history:
  the last refusal, with `at = -1` before the first.

## 3. Runs

| run | shows | bounds and why they are enough |
|---|---|---|
| `pipeline` | gates, retry cap, notice before each debit, audit trail equal to the row, nothing for the auditor to report, idempotent redelivery, the case contract, termination | `MaxRetries` 3 and three dunning stages as in the code, three deliveries: the first settles, the second sees the settled case, the third one that a webhook changed in between |
| `agent_runs` | a case is settled once among the runs that hold the lock (an invalid one may be refused again and again), row = the last work, contract per case, every run ends | two cases are needed for a run that is half done; a sweep, a streamed run and a replay, the latter two may lose patience with the lock; malformed, unsigned, revoked and payable events; one webhook between load and lock |
| `webhooks` | an event takes effect once and as a whole, every signed actionable event gets through | a failed payment, a revocation and a charge, and an event that is not actionable; two handlers; two faults, so that a retry may fail as well |
| `jobs` | exclusive claims, counted calls, the job contract, every job ends or is orphaned, stale jobs come back | two workers, two attempts, two webhooks, a crash at any step, any outcome class, a result written by half |
| `jobs_cancel` | a job cancelled while nobody has it stays cancelled | one cancel, one lock wait that times out; the case is handed over `in_progress`, as `tests/test_phase4_integration.py` does it |
| `executor` | one failure never charges the customer twice, and never gives up a charged case | the code's retry limit, up to three faults, of which the properties allow one: further ones reach the states after it |
| `policy` | no silent change, unique numbers, answers are in force, a second policy in force only after an overtaken rollback | three approvals and two rollbacks: two versions to roll between and one request that crosses them; one scan, one request that dies |
| `orchestrator` | waiting cases can be answered, the approval gate holds from birth, a document once settled has reached its case | a case of each kind and a second mandate retry; two requests at a time, four in all: decide, answer, decide again, execute; one midnight, one death |
| `accounts` | bounded guesses, sessions have the current password, verified accounts survive | two accounts, two addresses, two sessions, two attempts, three codes; two requests at a time, six in all, enough to register, verify, log in and reset |
| `learning` | dimensions agree, choices rest on evidence, completions miss only overlaps, the winning arm has recovered cases | three cases, of which a broad experiment takes all and a narrow one two, in other arms; two requests at a time, three in all, `MIN_SAMPLE` 2, three changes of cases by agent, scheduler or webhook: the first case may break its promise, go back to work and recover, the others less (`MCMovesTo`), and webhooks rewrite the first and queue the jobs of the third |
| `guards` | the limit is exact up to one wait, a token opens one stream in its lifetime | two threads, two requests per window of two ticks, clock to 5: the window slides past its first entries |

One run ends in a violation:

| run | what happens |
|---|---|
| `stale_revoked` | a webhook says the mandate was revoked after a run read the case and before it took the lock: the run debits it (`agent.py:1034`) |

### Divergences that the models show

The next ones can be seen in the models as they stand; no run is kept for them. Some are
stated as a formula, which is named: checked in place of the properties of the component's
run (with `PolicyRetryCap` 2 for `PolicyCapRespected`) TLC finds it violated.

* The retry cap of `PolicyParams` does not bound the loop, which reads `MAX_RETRIES`
  (`agent.py:757` against `README.md:205` and `:395` of the repository;
  `PolicyCapRespected`).
* A job that succeeds for a case the agent has not worked leaves it `new`: `new -> recovered`
  is not legal (`scheduler.py:426` against `:259`; `SuccessRecovers`, run `jobs`).
* A cancel during the gateway call is overwritten by the result (`scheduler.py:344` against
  `db.py:833`; `CancelledStaysCancelled`, run `jobs_cancel`).
* A worker that dies shortly before a quick restart leaves its job `executing` for ever
  (`app.py:233` against `scheduler.py:529`; `NoJobIsLost`, run `jobs`).
* The reject route answers ok and never commits, and the recommendation is approved
  (`app.py:2972` against `tests/test_phase6_learning.py:899`; `RejectedIsNotApproved`).
* Any `BAD_REQUEST` of a capture counts as "already captured": a webhook changed the amount,
  the capture is refused and reported as a success (`payment_executor.py:338` against
  `tests/test_payment_executor.py:321`; `ReportedCapturesAreReal`).
* An action whose approval was rejected is executed (`recovery_orchestrator.py:283` against
  `:285`; `RejectedIsNotExecuted`).
* Two backfills that overlap, or that a move separates, count one case twice
  (`outcome_attribution.py:154` against `:121` and `:11`, "Idempotent"; `AttributedOnce`, run
  `learning`). A row that has counted a case again may therefore be chosen with fewer than
  `MIN_SAMPLE` cases behind it: `ChoicesRestOnEvidence` counts different cases and names this
  as its exception.

Others have no formula. Agent and audit:

* A run whose `BEGIN IMMEDIATE` timed out works a case that the lock holder settles after
  the check (`agent.py:880`); its `note_duplicate` row carries the status of the stale
  snapshot. `SettledOnce` therefore excepts `overtaken` cases.
* `invalid` is not in `_TERMINAL_AUDIT_STATUSES`, although no move leads on from it: the check
  of `agent.py:880` does not know an invalid case, so that each run refuses and logs it
  again (`agent.py:929`). If a webhook has rewritten its event, so that its
  signature no longer fits, the refusal is `invalid -> rejected` and `set_status` raises
  (`agent.py:263`): every sweep over all cases fails with it, until the event is restored.
* A run that read a case as `new` with an unsigned event, before another run found it
  invalid, rejects it after that one: `invalid -> rejected` is not in `LEGAL_TRANSITIONS`
  (`db.py:651`), but `set_status` looks at the stale copy. `EachCaseKeepsItsContract` allows
  this one move by name (`StaleRefusal`); nothing is debited on the way.
* Rules 1 and 5 of the auditor read the current row: a webhook that rewrites a settled case
  raises false alarms, which is why `AuditorFindsNothing` states them at the commit only.

Webhook, scheduler and executor:

* A case created by a webhook has no stored signature, so a later sweep rejects it, although
  `razorpay_adapter.py:199` says that it takes the identical pipeline. A late
  `payment.failed` undoes a revocation (`app.py:1037`). A second event of a customer whose
  jobs are over creates none and is marked `QUEUED` all the same (`app.py:1063`). The route
  holds the write lock while the credentials are checked over the network (`app.py:1051`).
* Two workers get one job when a `BEGIN IMMEDIATE` timed out (`Peek`, `ClaimLate`; `db.py:763`).
* An exception in the middle of a result's transaction is committed with what it has
  written: a job stands as failed beside a case that is recovered or escalated, or at
  `broken_promise` (`scheduler.py:511`; `Halves`).
* Each transient failure writes a `retry` row, so a case with three jobs exceeds the three
  rows of the auditor; attempt 2 of an insufficient-funds case falls due before attempt 1,
  which waits for the salary window (`scheduler.py:180`); a job queued before the mandate was
  revoked is still charged (`scheduler.py:290`).
* The update of a retried job forgets the ids its first execution
  stored (`db.py:788`). Errors are classified by substrings of their text, every attempt
  sends a further live link, and `execute`, which "never raises" (`payment_executor.py:214`), may.

Policy and phase 7:

* An approval that dies between its commits leaves an approved recommendation with a
  draft version, and the scan does not propose it again. Two overlapping approvals are
  both patched from the version in force before them, so the later one drops the earlier
  one's change. A recommendation without a failure reason changes no parameter at all.
* Overlapping schedule requests give two mandate retries the same
  number (`mandate_sequencer.py:143`), and overlapping `PATCH`es of the policy lose one
  (`policy_center.py:70`). `mandate_sequencer.py:54` calls a function that does not exist,
  so that every retry falls back to 24 hours. `mark_paid` and `remind` have inner commits.

Accounts, learning, guards:

* The deletion of a stale account says that it only touches unverified rows
  (`auth.py:114`), but removes codes and sessions of an account verified meanwhile, if it has
  moved to another address. `touch_session` in `resolve_session` is never committed.
* An outcome is recorded for the latest assignment only, so of two overlapping experiments
  one misses it (`experimentation.py:219`), and a completed experiment may still gain an
  outcome by a write whose read found it active. The evaluator's `min_sample_size` and
  `MIN_ARM_SAMPLE` are two thresholds for one thing. `segment_learning` asks for
  `MIN_IMPROVEMENT` at the merchant's level only, where a default without samples counts as
  0; its `best_strategy_for_case` is called by tests only.
* Some entries of `_LIMITS` belong to endpoints that no route checks (`rate_limit.py:15`).

### Deadlock and fairness

`CHECK_DEADLOCK FALSE` is set because the inputs are bounded: once every delivery,
run, request and crash is used up the system rests. Fairness is weak fairness of what
the program does by itself:

* `pipeline`: the next call of a running pipeline; never `Deliver` or a webhook.
* `agent_runs`: each started run's next step; never `Abort`, never the start of a run.
* `jobs`: `run_worker_loop` polls for ever, so each worker's next step; the cancel route
  once entered; the restart of a process; the clock. Never a webhook, a crash or a cancel
  request.
* `webhooks`: each handler's next step, and Razorpay's delivery of each event that is not
  acknowledged (the adapter's "Razorpay will retry"). Faults are bounded, so that some
  delivery meets none.

The other runs have safety properties only: nothing in those routes waits for anything.

## 4. Proofs

All theorems are for arbitrary constants within the named assumptions
(`PipelineAssumption`, `AgentRunsAssumption`, `IntakeAssumption`, `SchedulerAssumption`,
`ExecutorAssumption`, `GovernanceAssumption`, `AccountsAssumption`, `GuardsAssumption`),
which only say that bounds are naturals and sets are what they are called. Five theorems have
a further hypothesis on a constant, which is named and justified below.

**Pipeline** (`RecoveryPipelineProofs`). The inductive invariant is
`TypeInv /\ GateInv /\ DebitInv`. `GateInv` ties `pc` to the status and to what is
committed: between runs and at the gates the row equals `committed`, in the middle of a run
the committed case is `new` and its trail unsettled, and at the commit the case is resolved.
`DebitInv` says that the attempts debited in the trail are exactly `1..attempt` or
`1..(attempt-1)`, depending on `pc`, and that only a settled committed trail holds debits.
Neither `ResolvedAtCommit` nor the retry cap is inductive alone: a redelivery would
restart the counter if an unsettled committed case could hold a debit.

| theorem | property |
|---|---|
| `TypeCorrect` | `TypeOK` |
| `OnlyResolvedCasesAreCommitted` | `ResolvedAtCommit` |
| `RetryCap` | `DebitsNumberedFromOne` |
| `NoticeFirst` | `NoticePrecedesDebit` (with `NoticeInv`: at `pc = "debit"` the last row is this attempt's notice) |
| `Idempotence` | `SettledStaysSettled` |
| `PipelineImplementsContract` | `ImplementsContract`: every step is a step of `CaseContract` or a stutter |
| `TrailTellsTheRow` | `AuditAgreesWithRow` |
| `AuditReportsNothing` | `AuditorFindsNothing`, if `MaxRetries <= MAX_RETRIES` |

`TrailTellsTheRow` needs `StoryInv`: both the working trail and the committed one carry the
badge of their last notice and a row for each dunning stage, because a rollback goes back to
the committed one; a stage is sent in an attempt at least as high, since the counter never
runs ahead of `attempt`. `AuditReportsNothing` adds `AuditInv`, which says of the branch a run
is on what rules 1 and 5 will ask at its end: a case over its limit enters the loop only with
its `mandate_limit_block` row, and a rejected one has nothing but its own row, even when it is
delivered again. `MAX_RETRIES` is the auditor's copy of the constant (`audit_check.py:40`),
`MaxRetries` the agent's (`agent.py:60`). Both are 3; should the agent's be raised alone, the
audit reports cases that were worked as intended, so the hypothesis is needed.

**Agent runs** (`AgentRunsProofs`). `RunInv` proves all three properties. `Locked` says that
the run that is writing has the lock, and is alone in that. `Sound` relates rows and trail of
every case, in the tables and in the writer's draft: a row in the trail for each time
the case was worked, and the status its last work decided. For cases that no run has
overtaken, `Regular` holds in both (nothing but refusals as invalid before the last work),
and the draft is the stored case, one contract step ahead or the stale refusal (`Follows`),
so that a commit is a step of the contract and a drop a stutter. Since an invalid case passes
the check again, that it is never debited rests on two more parts: `Refused`, a case found
invalid was sealed as malformed, and `Read`, a signed event that a run has read is the sealed
one and a status it has read was worked. `OneEarly` covers the one case that a run finds
unprocessed before the lock times out.

| theorem | property |
|---|---|
| `CasesAreSettledOnce` | `SettledOnce` |
| `RowsMatchTheirTrails` | `RowMatchesItsLastWork` |
| `RunsImplementContract` | `EachCaseKeepsItsContract` |

The exception for overtaken cases is in the properties (section 3); the lock waits that time
out are in the theorems.

**Webhook intake** (`WebhookIntakeProofs`). `EventsAreIdempotent` proves
`EventsTakeEffectOnce`. The invariant is `Types /\ Locking /\ Effects`: `Locking` says that a
handler past its claim has the lock and that its `tx` is the database with this one event
claimed and, step by step, its effects (`Draft`). It is needed because the commit installs
`tx` as a whole: nothing another handler has committed may be missing from it.

**Scheduler** (`RecoverySchedulerProofs`). For each action an `...Effect` lemma states what it
does to one job and one worker; the invariants are proved from these. `Exclusive` is
`OneClaimant` plus that nobody has a job while the process is down, `Counted` relates `calls`
to `retry` through what a worker still has to write, `Bounded` keeps the `retry` of a pending
job below the cap plus the crashes so far.

| theorem | property | under |
|---|---|---|
| `SchedulerTypes` | `TypeOK` | |
| `CancelledJobsStayCancelled` | `QuietCancelHolds` | |
| `OneWorkerPerJob` | `OneClaimant` | `MaxTimeOuts = 0` |
| `EveryCallIsCounted` | `CallsAreCounted` | `MaxTimeOuts = 0` |
| `JobsImplementContract` | `JobsKeepTheirContract` | `MaxTimeOuts = 0`, `MaxCancels = 0` |

The conditions are needed: a lock wait that times out breaks the last three, and a cancel
during a gateway call breaks the contract. They say that no such event
happens in the behaviour; workers, webhooks, crashes and resets stay unbounded.
`CancelledJobsStayCancelled` needs neither: each writer of a job row either looks at its
status or writes only the job in its own worker's hands.

**Executor** (`PaymentExecutorProofs`). `ExecutorInv` is a statement about behaviours with at
most one fault so far (`Ledger`), on top of types and of `Working` (an execution that is gone
was interrupted by a fault). With the right credentials a second execution needs a fault, so
once it runs no other can happen (`Calling`). A payment captured before it has left its id in
the job row, so the second execution asks for it first and finds it captured (`Captured`); a
link whose answer was lost is in no row, so nobody is sent it and nobody pays it (`OneLink`).
`OneFailureChargesOnce` proves `OneFailureNeverChargesTwice` from this.
`EscalatedCasesAreUncharged` proves `EscalatedMeansUncharged` with `Escalated` added, if
`MaxRetries >= 2`: with a single run per job a capture whose answer is lost exhausts the job
and escalates a case that was charged, which TLC shows with `MaxRetries = 1`. The code's
`MAX_RETRIES` is 3.

**Governance** (`PolicyGovernanceProofs`). `EveryChangeIsLogged` proves `NoSilentChange` for
any number of requests, categories and failures. The invariant `AllLogged` says that every
version row has a non-empty log ending in its status, and that what a rollback read of its
target is a status. The part about rollbacks is needed because the rollback writes the
status it read earlier into the log: one lemma per kind of request shows that each row it
leaves is either untouched or moved together with its log. `VersionNumbersAreUnique` proves
`NumbersAreUnique` with `Numbering`: no number exceeds the number of rows, so that the
numbers of a category have a greatest (`GreatestNatural`) and the next one is above it;
approvals and rollbacks keep number and origin of a row (`Relabelled`).

`SecondPolicyIsAnOvertakenRollback` proves the action property
`SecondPolicyNeedsAnOvertakenRollback`: an approval archives in the transaction in which it
activates, and a rollback whose two reads still hold archives the version it read, which with
unique numbers is the only active one. `AnsweredVersionsAreInForce` proves `AnswersAreInForce`
with the invariant `Requests`: a version that an approval has created is still its own draft
(no other approval's, and no rollback touches it, because what a rollback has read is
published), so the version activated is the one with the greatest number.

**Orchestrator** (`RecoveryOrchestratorProofs`). The invariant is `CaseInv`. `Blank` and the
first line of `Sane` say that nothing hangs on a case that is not stored and that every
request works on a case that is. The approval gate needs a memory: a request executes after
it has read the row, when the row may wait for an approval again. `Remembered` says that
`opened` contains every stored case that does not wait, and `Sane` that what a request is
about to execute was in `opened` when it read it, and `opened` never shrinks. `GateHolds`
proves `GateHoldsFromBirth` from this, and `WaitingCasesAreAnswerable` proves
`WaitingCasesCanBeAnswered`: each write that makes a case wait appends an open approval in
the same transaction, and the answer that closes one sets the row it belongs to.
`SettledDocumentsReachTheirCase` proves `PaymentsReachTheCase`: settling a document hands
its case to the request that records the outcome, every write of a row keeps `resolved`
(`Rewrites`), and a request that dies in between leaves its case in `orphaned`. It is stated
over `settled`, the documents that were ever settled, because a refresh, a miss or a
reminder with a stale copy may overwrite the document's own status: a promise that is paid
between a refresh's read and its write loses `paid`, but not its recovered case. The functions that score and choose (`RecoveryScoring`) enter the proofs only
with the columns they write (`ScoredRow`, `NewRowOpen`, `ExecutedRow`).

**Accounts** (`AccessProofs`). `AttemptsAreCapped` proves `GuessesAreBounded`.
`Counted` says that a code was compared at most as often as its counter says. It is
inductive only with `Numbered` (codes are numbered without gaps, so a new one, whose counter
starts at 0, never takes the place of one that was compared) and `Aimed` (what a request
will count or use up is a code that exists). `OldSessionsAreEnded` proves
`SessionsHaveTheCurrentPassword` with `SessionInv`, which adds that an open session belongs to
an account; `VerifiedAccountsStay` proves the action property `VerifiedAccountsSurvive` from
both: the registration's DELETE, whose account was read a step before, is the only one.

**Guards** (`AccessProofs`). `TokensAreSingleUse` proves `TokensOpenOneStream`. A token
in the store has opened nothing (`InStore`), one that was not issued neither (`Unissued`), and
a thread that is about to store a token is the only one with it (`Issuing`): without that a
used token could be stored again. `RateLimitIsExact` proves `LimitIsExact`. `WindowInv` says
that the queue stands for the last admissions, entry for entry and each at most one wait
older than its admission, and that what was evicted had left the window up to that wait; the
queue is not sorted, so the eviction is a prefix and no more.

Model-checked only:

* liveness, which is out of the prover's reach: `DeliveryEnds`, `RunsEnd`,
  `JobsEndOrAreOrphaned`, `StaleJobsComeBack`, `EventsGetThrough`;
* those of the learning layer. `Total` sums over a set, and a choice weighs the cardinality of
  `Evidence` against a counter that was raised one by one; what such sums compute cannot be
  proved by induction with the installed provers. `WinnersAreRecovered` and
  `CompletionMissesOnlyOverlaps` do not depend on it and have not been attempted.

## 5. Plan

1. The composition of agent and scheduler on one case, with the divergences about
   `case_status` as its questions.
2. The pure functions `scoring`, `salary_window` and `risk_engine` against reference
   definitions over bounded inputs.
3. Proofs: `WinnersAreRecovered` and `CompletionMissesOnlyOverlaps` of `Learning`.

### Not modelled

Wording, layout, message texts and the LLM; amounts beyond the thresholds that decide;
`process_case_traced`'s trace output; `adaptive_policy.recommend_strategy`, the confidence
label of an experiment and the performance snapshots of the learning layer (the backfill's call of
`policy.record_current_policy_performance` included); rules 6 and 7 of the auditor (rupee
totals, the dashboard's sentence); `promise_tracker.escalate`, which no route calls; the
explanations and views of phase 7; the client calls that no execution makes; password hashes
and the security log; the front end, the analysis modules and the ML scripts, which only
read; and `/api/reset`, which starts a new behaviour.
