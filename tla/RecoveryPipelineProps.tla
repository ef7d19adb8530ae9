------------------------ MODULE RecoveryPipelineProps ------------------------
(***************************************************************************)
(* The correctness properties of RecoveryPipeline and the contract it      *)
(* implements.                                                             *)
(***************************************************************************)
EXTENDS RecoveryPipeline, AuditCheck

IsDebit(e)  == e.event \in RetryEvents
Debits(t)   == {i \in 1..Len(t) : IsDebit(t[i])}
Attempts(t) == {t[i].attempt : i \in Debits(t)}
Ordered(t)  == \A i, j \in Debits(t) : i < j => t[i].attempt < t[j].attempt
Notices(t)  == {i \in 1..Len(t) : t[i].event = "pre_debit_notification"}
NoticeBefore(t) ==
  \A i \in Debits(t) : /\ i > 1
                      /\ t[i-1].event = "pre_debit_notification"
                      /\ t[i-1].attempt = t[i].attempt
Settled(t)  == \E i \in 1..Len(t) : t[i].after \in TerminalAuditStatuses

Columns == [status : CaseStatuses, dunning : 0..DunningStages,
            compliance : Compliance, trail : Seq(Rows),
            moves : Seq(CaseStatuses \X CaseStatuses)]

\* Every variable stays within its type.
TypeOK ==
  /\ input \in Inputs /\ sealed \in Inputs
  /\ status \in CaseStatuses /\ dunning \in 0..DunningStages
  /\ compliance \in Compliance
  /\ trail \in Seq(Rows) /\ moves \in Seq(CaseStatuses \X CaseStatuses)
  /\ committed \in Columns
  /\ pc \in Steps /\ attempt \in 0..MaxRetries /\ broken \in BOOLEAN
  /\ deliveries \in 0..MaxDeliveries

\* The RBI rule (audit_check rule 3, agent.pre_debit_notification): each debit
\* row directly follows a notice row of the same attempt, so neither the loop
\* nor the extra attempt after a broken promise debits on an older notice.
NoticePrecedesDebit == NoticeBefore(trail)

\* The hard retry cap over the whole life of a case, replays and aborted runs
\* included (audit_check rule 2): the debits in the trail are numbered 1, ..., k
\* in this order, without a gap or a repeat, and k is at most MaxRetries.
DebitsNumberedFromOne ==
  /\ \E k \in 0..MaxRetries : Attempts(trail) = 1..k
  /\ Ordered(trail)

\* A run either settles a case or leaves no trace: no other connection ever
\* sees a case in progress, promised or broken_promise (the run's one
\* transaction, agent._acquire_processing_lock).
ResolvedAtCommit ==
  committed.status \in {"new"} \cup TerminalStatuses

\* The dunning stages a trail shows as sent.
Stages(t) == {i \in 1..Len(t) : t[i].event = "dunning_stage"}

\* The row and the audit trail tell the same story whenever a run has
\* committed: the last row's status is the case's, the compliance badge is
\* that of the last notice, the dunning stage the number of stages logged.
AuditAgreesWithRow ==
  pc = "idle" =>
    /\ trail # <<>> => trail[Len(trail)].after = status
    /\ trail = <<>> => status = "new"
    /\ \A i \in Notices(trail) :
         (\A j \in Notices(trail) : j <= i) =>
           compliance = IF trail[i].outcome = "success"
                        THEN "RBI-compliant" ELSE "non-compliant"
    /\ dunning = Cardinality(Stages(trail))

\* What the auditor sees of the case: its current event and its status.
AuditedCase(s) == [reason |-> input.reason, overLimit |-> input.overLimit, status |-> s]

\* The automated audit (audit_check.run_audit, rules 1 to 5) has nothing to
\* report of a case that a run has just worked: neither of its debits, nor of
\* their notices, nor of what its gates let through. Of what is committed the
\* rules that do not read the event hold always; a webhook that rewrites the
\* event of a settled case may make the others report it.
AuditorFindsNothing ==
  /\ pc = "commit" /\ trail[Len(trail)].event # "webhook_duplicate" =>
       AuditPasses(AuditedCase(status), trail)
  /\ WithinRetryCap(committed.trail)
  /\ PreDebitBeforeRetry(committed.trail)
  /\ RejectedIsIsolated(AuditedCase(committed.status), committed.trail)

\* Idempotent reprocessing: once a settling row is committed, later runs only
\* append webhook_duplicate rows and never move the status again.
SettledStaysSettled ==
  [][ Settled(committed.trail)
      => /\ committed'.status = committed.status
         /\ committed'.moves = committed.moves
         /\ Len(committed'.trail) >= Len(committed.trail)
         /\ \A i \in 1..Len(committed.trail) :
               committed'.trail[i] = committed.trail[i]
         /\ \A i \in Len(committed.trail) + 1..Len(committed'.trail) :
               committed'.trail[i].event = "webhook_duplicate" ]_vars

\* The pipeline implements CaseContract: what other connections see of a case
\* is one of the contract's steps or nothing.
Contract == INSTANCE CaseContract WITH
  Cap     <- MaxRetries,
  outcome <- committed.status,
  debits  <- Attempts(committed.trail)

ImplementsContract == Contract!CSpec

\* Every delivery ends: the handler commits, raises or is interrupted, and
\* cannot stay in the loop.
DeliveryEnds == (pc # "idle") ~> (pc = "idle")

\* README on the Policy Sandbox: the retry cap of the run's PolicyParams
\* bounds the attempts of the loop.
PolicyCapRespected ==
  \A i \in Debits(trail) : trail[i].attempt <= PolicyRetryCap
===============================================================================
