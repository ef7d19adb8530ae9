-------------------------------- MODULE Learning --------------------------------
(***************************************************************************)
(* Phase 6 learning: A/B experiments (experimentation.py), the attribution *)
(* of outcomes to strategies (outcome_attribution.py) and what the         *)
(* evaluator (experiment_evaluator.py) concludes, as the requests of       *)
(* /api/learning run them while the cases go on changing.  A request reads *)
(* without a lock and commits case by case, so that each read and each     *)
(* write is a step.  (An INSERT that is refused keeps the write lock until *)
(* the request's next commit: the code interleaves less than the model.)   *)
(***************************************************************************)
EXTENDS CaseLifecycle, Integers, Sequences, FiniteSets, Bags

CONSTANTS Cases,         \* 1..n, the order in which sweeps visit them
          Experiments,
          Cohort,        \* the failure reason and category an experiment asks
                         \* for, each may be "any"
          Category, Strategy, Source,  \* of each case: Strategy is "none" without
                         \* a strategy in the audit trail (the first one counts)
          Reason, Modes, \* at the start: the failure reasons, and the execution
                         \* modes of the jobs of each case, oldest first
          Arm,           \* _arm_for_case: a hash of experiment and case
          MinArm,        \* min_sample_size of an experiment
          Requests,      \* bound: the threads that serve requests
          MaxRequests,   \* bound: the requests they serve
          MaxMoves, MovesTo, WebhookReasons   \* bounds: changes of cases and,
                         \* of each, the statuses it reaches and the reasons
                         \* that webhooks bring

Arms == {"control", "treatment"}
ASSUME LearningAssumption ==
  /\ Cases = 1..Cardinality(Cases)
  /\ \A e \in Experiments, c \in Cases : Arm[e][c] \in Arms
  /\ MinArm \in Nat \ {0} /\ MaxRequests \in Nat /\ MaxMoves \in Nat
  /\ \A c \in Cases : /\ MovesTo[c] \subseteq CaseStatuses
                       /\ WebhookReasons[c] \subseteq FailureReasons

VARIABLES status,       \* mandate_failures.case_status
          reason,       \* mandate_failures.failure_reason
          modes,        \* recovery_jobs.execution_mode of each case, oldest first
          moves,        \* how often a case has changed
          exps,         \* experiments.status
          assigned,     \* experiment_assignments, oldest first: <<experiment, case>>
          outcomes,     \* experiment_outcomes.outcome_status, or "none"
          perf,         \* strategy_performance, by strategy, dimension, provenance
          reqs,         \* the request a thread serves
          served,       \* how many requests have begun
          claimed       \* history: how often each case was counted in each row

cases == <<status, reason, modes, moves>>
vars == <<cases, exps, assigned, outcomes, perf, reqs, served, claimed>>

\* outcome_attribution.TERMINAL_STATUSES (a broken promise is one, though
\* db.LEGAL_TRANSITIONS lets it move on).
Attributable == {"recovered", "escalated", "broken_promise"}

\* _infer_provenance: the first job that decides.
Provenance(c) ==
  LET real(m)  == m = "real_test" /\ Source[c] = "razorpay_live"
      telling  == {i \in DOMAIN modes[c] : real(modes[c][i]) \/ modes[c][i] = "simulation"}
      first    == CHOOSE i \in telling : \A j \in telling : i <= j
  IN  CASE telling = {}          -> "HISTORICAL"
        [] telling # {} /\ real(modes[c][first]) -> "REAL_TEST"
        [] OTHER                                 -> "SIMULATION"

\* The rows of strategy_performance a case of this reason contributes to.
Dimensions(c, why) == {<<"global", "all">>, <<"failure_reason", why>>,
                       <<"merchant_category", Category[c]>>}
ItsRows(c, why) == {<<Strategy[c], d, Provenance(c)>> : d \in Dimensions(c, why)}

\* A row of strategy_performance before the first upsert.
NoAttempts == [attempts |-> 0, recoveries |-> 0, escalations |-> 0]
NoRows     == [row \in {} |-> NoAttempts]
NoExperiment == "none"
NoAssignments == << >>
NoOutcome == "none"

Idle == [pc |-> "idle", exp |-> "none", saw |-> {}, todo |-> {}, open |-> {},
         case |-> 0, target |-> "none", status |-> "none", reason |-> "none"]

Init ==
  /\ status = [c \in Cases |-> "in_progress"] /\ moves = 0
  /\ reason = Reason /\ modes = Modes
  /\ exps = [e \in Experiments |-> NoExperiment]
  /\ assigned = NoAssignments
  /\ outcomes = [e \in Experiments |-> [c \in Cases |-> NoOutcome]]
  /\ perf = NoRows
  /\ reqs = [r \in Requests |-> Idle] /\ served = 0
  /\ claimed = EmptyBag

At(r, pc)    == reqs[r].pc = pc
Goto(r, rec) == reqs' = [reqs EXCEPT ![r] = rec]
Finish(r)    == Goto(r, Idle)
\* Go on with the rest of the cases or, without one, at pc.
Continue(r, pc) ==
  LET rec == [reqs[r] EXCEPT !.todo = @ \ {reqs[r].case}, !.case = 0,
                             !.target = "none", !.status = "none",
                             !.reason = "none"]
  IN  Goto(r, [rec EXCEPT !.pc = IF rec.todo = {} THEN pc ELSE @])
First(S) == CHOOSE c \in S : \A d \in S : c <= d

\* get_experiment_assignments, get_all_experiments(status="active").
AssignedTo(e) == {c \in Cases : \E i \in DOMAIN assigned : assigned[i] = <<e, c>>}
ActiveOnes == {e \in Experiments : exps[e] = "active"}

\* get_case_experiment_arm: the latest assignment to an active experiment.
Latest(c) ==
  LET mine == {i \in DOMAIN assigned :
                 assigned[i][2] = c /\ exps[assigned[i][1]] = "active"}
  IN  IF mine = {} THEN "none"
      ELSE assigned[CHOOSE i \in mine : \A j \in mine : j <= i][1]

\* What the agent and the scheduler do to a case meanwhile.
CaseMoves(c, s) ==
  /\ moves < MaxMoves /\ s # status[c] /\ IsLegalTransition(status[c], s)
  /\ status' = [status EXCEPT ![c] = s] /\ moves' = moves + 1
  /\ UNCHANGED <<reason, modes, exps, assigned, outcomes, perf, reqs, claimed>>

\* A webhook rewrites the reason of the case and queues its jobs, all in one
\* mode, unless it has them or its mandate is revoked. (One that changes neither
\* is a stutter and not counted.)
WebhookRewrites(c, why, mode) ==
  /\ moves < MaxMoves
  /\ mode = "real_test" => Source[c] = "razorpay_live" /\ why # "mandate_revoked"
  /\ reason' = [reason EXCEPT ![c] = why] /\ moves' = moves + 1
  /\ modes' = IF modes[c] # << >> \/ why = "mandate_revoked" THEN modes
              ELSE [modes EXCEPT ![c] = <<mode>>]
  /\ <<reason, modes>>' # <<reason, modes>>
  /\ UNCHANGED <<status, exps, assigned, outcomes, perf, reqs, claimed>>
-----------------------------------------------------------------------------
(* POST /experiments/create: the experiment is committed; assign_cases finds *)
(* it active and reads the cases, then inserts the matching ones (an         *)
(* assignment that exists is left alone) and commits.                        *)
Matches(c, e) == /\ Cohort[e].reason \in {"any", reason[c]}
                 /\ Cohort[e].category \in {"any", Category[c]}
                 /\ status[c] \notin Attributable \cup {"rejected", "invalid"}

StartExperiment(e) == [exps EXCEPT ![e] = "active"]
CreateExperiment(e) == exps[e] = NoExperiment /\ exps' = StartExperiment(e)

ApiExperimentCreate(r, e) ==
  /\ At(r, "idle") /\ CreateExperiment(e)
  /\ Goto(r, [Idle EXCEPT !.pc = "created", !.exp = e])
  /\ UNCHANGED <<cases, assigned, outcomes, perf, claimed>>

AssignRead(r) ==
  /\ At(r, "created")
  /\ Goto(r, IF exps[reqs[r].exp] # "active" THEN Idle
             ELSE [reqs[r] EXCEPT !.pc = "assign",
                     !.todo = {c \in Cases : Matches(c, reqs[r].exp)}])
  /\ UNCHANGED <<cases, exps, assigned, outcomes, perf, claimed>>

InOrder(e, S) ==
  LET from[n \in 0..Cardinality(Cases)] ==
        IF n = 0 THEN << >>
        ELSE IF n \in S THEN Append(from[n - 1], <<e, n>>) ELSE from[n - 1]
  IN  from[Cardinality(Cases)]

\* assign_experiment_case for each case of S.
WithAssigned(e, S) == assigned \o InOrder(e, S \ AssignedTo(e))

AssignWrite(r) ==
  /\ At(r, "assign")
  /\ assigned' = WithAssigned(reqs[r].exp, reqs[r].todo)
  /\ Finish(r)
  /\ UNCHANGED <<cases, exps, outcomes, perf, claimed>>
-----------------------------------------------------------------------------
(* POST /experiments/complete: record_all_terminal_outcomes, then the status. *)
Settled(e) == {c \in AssignedTo(e) : status[c] \in {"recovered", "escalated"}}

\* record_all_terminal_outcomes: sweep the cases of e, then go on at pc.
Sweep(rec, e, pc) ==
  [rec EXCEPT !.todo = AssignedTo(e), !.pc = IF AssignedTo(e) = {} THEN pc ELSE "sweep"]

\* Mutant: the experiment is completed without a sweep.
CompleteUnswept(e) ==
  [Idle EXCEPT !.exp = e, !.saw = Settled(e), !.pc = "close"]
Complete(e) ==
  Sweep([Idle EXCEPT !.exp = e, !.saw = Settled(e)], e, "close")

ApiExperimentComplete(r, e) ==
  /\ At(r, "idle") /\ exps[e] = "active"
  /\ Goto(r, Complete(e))
  /\ UNCHANGED <<cases, exps, assigned, outcomes, perf, claimed>>

\* record_case_outcome of the next case: the assignment and the case are read ...
RecordRead(r) ==
  LET c == First(reqs[r].todo) IN
  /\ At(r, "sweep") /\ reqs[r].case = 0
  /\ Goto(r, [reqs[r] EXCEPT !.case = c, !.target = Latest(c), !.status = status[c]])
  /\ UNCHANGED <<cases, exps, assigned, outcomes, perf, claimed>>

\* ... and the outcome is inserted, once per experiment and case.
WithOutcome(e, c, s) ==
  IF outcomes[e][c] = NoOutcome THEN [outcomes EXCEPT ![e][c] = s] ELSE outcomes

RecordWrite(r) ==
  /\ At(r, "sweep") /\ reqs[r].case # 0
  /\ outcomes' = IF reqs[r].target # "none" /\ reqs[r].status \in Attributable
                 THEN WithOutcome(reqs[r].target, reqs[r].case, reqs[r].status)
                 ELSE outcomes
  /\ Continue(r, IF reqs[r].exp = "none" THEN "next" ELSE "close")
  /\ UNCHANGED <<cases, exps, assigned, perf, claimed>>

UpdateExperimentStatus(e, s) == exps' = [exps EXCEPT ![e] = s]

Close(r) ==
  /\ At(r, "close")
  /\ UpdateExperimentStatus(reqs[r].exp, "completed")
  /\ Finish(r)
  /\ UNCHANGED <<cases, assigned, outcomes, perf, claimed>>
-----------------------------------------------------------------------------
(* POST /backfill: backfill_from_audit, then a sweep of each experiment that  *)
(* is active when it is over (get_all_experiments reads them once).           *)
BackfillFromAudit ==
  LET resolved == {c \in Cases : status[c] \in Attributable} IN
  [Idle EXCEPT !.pc = IF resolved = {} THEN "list" ELSE "attribute", !.todo = resolved]

ApiBackfill(r) ==
  /\ At(r, "idle")
  /\ Goto(r, BackfillFromAudit)
  /\ UNCHANGED <<cases, exps, assigned, outcomes, perf, claimed>>

\* attribute_outcome of the next case reads it again ...
AttributeRead(r) ==
  LET c == First(reqs[r].todo) IN
  /\ At(r, "attribute") /\ reqs[r].case = 0
  /\ Goto(r, [reqs[r] EXCEPT !.case = c, !.status = status[c], !.reason = reason[c]])
  /\ UNCHANGED <<cases, exps, assigned, outcomes, perf, claimed>>

Attributes(r) == /\ reqs[r].status \in Attributable
                 /\ Strategy[reqs[r].case] # "none"

\* upsert_strategy_performance of one row.
Counted(row, recovered) ==
  [attempts    |-> row.attempts + 1,
   recoveries  |-> row.recoveries + (IF recovered THEN 1 ELSE 0),
   escalations |-> row.escalations + (IF recovered THEN 0 ELSE 1)]

\* Mutant: the row of the category does not learn of escalations.
AddedUncategorised(r, rows) ==
  LET recovered == reqs[r].status = "recovered"
      old(row)  == IF row \in DOMAIN perf THEN perf[row] ELSE NoAttempts
  IN  [row \in rows \cup DOMAIN perf |->
         IF row \in rows /\ (recovered \/ row[2][1] # "merchant_category")
         THEN Counted(old(row), recovered) ELSE old(row)]

\* ... and adds it to three rows in one transaction, with each call anew.
Added(r, rows) ==
  LET old(row) == IF row \in DOMAIN perf THEN perf[row] ELSE NoAttempts
  IN  [row \in rows \cup DOMAIN perf |->
         IF row \in rows THEN Counted(old(row), reqs[r].status = "recovered")
         ELSE perf[row]]

AttributeWrite(r) ==
  /\ At(r, "attribute") /\ reqs[r].case # 0
  /\ LET rows == ItsRows(reqs[r].case, reqs[r].reason) IN
     IF Attributes(r)
     THEN /\ perf' = Added(r, rows)
          /\ claimed' = claimed (+) SetToBag({<<row, reqs[r].case>> : row \in rows})
     ELSE UNCHANGED <<perf, claimed>>
  /\ Continue(r, "list")
  /\ UNCHANGED <<cases, exps, assigned, outcomes>>

ListActive(r) ==
  /\ At(r, "list")
  /\ Goto(r, [reqs[r] EXCEPT !.pc = "next",
                             !.open = ActiveOnes])
  /\ UNCHANGED <<cases, exps, assigned, outcomes, perf, claimed>>

SweepNext(r) ==
  /\ At(r, "next")
  /\ \/ reqs[r].open = {} /\ Finish(r)
     \/ \E e \in reqs[r].open :
          Goto(r, Sweep([reqs[r] EXCEPT !.open = @ \ {e}], e, "next"))
  /\ UNCHANGED <<cases, exps, assigned, outcomes, perf, claimed>>
-----------------------------------------------------------------------------
(* evaluate_experiment: its verdict (the confidence label is left out). *)

\* round(n / d, 4) in ten-thousandths, a tie to the even side.
Rounded(n, d) ==
  LET q == (10000 * n) \div d  rest == 2 * ((10000 * n) % d)
  IN  IF rest > d \/ (rest = d /\ q % 2 = 1) THEN q + 1 ELSE q

ArmStats(e, arm) ==
  LET sample == {c \in Cases : outcomes[e][c] # NoOutcome /\ Arm[e][c] = arm}
  IN  [size |-> Cardinality(sample),
       recoveries |-> Cardinality({c \in sample : outcomes[e][c] = "recovered"})]

RecoveryRate(stats) == Rounded(stats.recoveries, stats.size)

\* Mutant: the arms are swapped.
RateDiffSwapped(control, treatment) == RecoveryRate(control) - RecoveryRate(treatment)
RateDiff(control, treatment) == RecoveryRate(treatment) - RecoveryRate(control)

\* An effect below MIN_MEANINGFUL_DIFF = 3 percentage points is none.
Verdict(e) ==
  LET control == ArmStats(e, "control")  treatment == ArmStats(e, "treatment") IN
  IF control.size < MinArm \/ treatment.size < MinArm THEN "insufficient_data"
  ELSE CASE RateDiff(control, treatment) >= 300  -> "treatment_better"
         [] RateDiff(control, treatment) <= -300 -> "control_better"
         [] OTHER                                -> "no_meaningful_difference"
-----------------------------------------------------------------------------
Step(r) ==
  \/ \E e \in Experiments : ApiExperimentCreate(r, e) \/ ApiExperimentComplete(r, e)
  \/ AssignRead(r) \/ AssignWrite(r)
  \/ RecordRead(r) \/ RecordWrite(r) \/ Close(r)
  \/ ApiBackfill(r) \/ AttributeRead(r) \/ AttributeWrite(r)
  \/ ListActive(r) \/ SweepNext(r)

Next ==
  /\ \/ \E r \in Requests : Step(r)
     \/ \E c \in Cases :
          \/ \E s \in MovesTo[c] : CaseMoves(c, s)
          \/ \E why \in WebhookReasons[c], mode \in {"real_test", "simulation"} :
               WebhookRewrites(c, why, mode)
  /\ served' = served + Cardinality({r \in Requests : At(r, "idle") /\ reqs'[r] # Idle})
  /\ served' <= MaxRequests

Spec == Init /\ [][Next]_vars
=============================================================================
