------------------------ MODULE RecoveryPipelineProofs ------------------------
(***************************************************************************)
(* Proofs about RecoveryPipeline for every retry limit, number of dunning  *)
(* stages and number of deliveries: its types, the gate and the retry cap, *)
(* the notice before a debit, idempotence, the contract of a case, and that*)
(* the audit trail tells the row's story and passes the audit check.       *)
(***************************************************************************)
EXTENDS RecoveryPipelineProps, FiniteSetTheorems, TLAPS

-------------------------------------------------------------------------------
(* The trail.                                                                  *)

\* The debits and the settling rows of a trail with more rows appended.
LEMMA Appended ==
  ASSUME NEW t \in Seq(Rows), NEW rows \in Seq(Rows)
  PROVE  /\ Attempts(t \o rows) = Attempts(t) \cup Attempts(rows)
         /\ Settled(t \o rows) <=> Settled(t) \/ Settled(rows)
  <1> DEFINE u == t \o rows
  <1>1. /\ Len(u) = Len(t) + Len(rows) /\ Len(t) \in Nat /\ Len(rows) \in Nat
        /\ \A i \in 1..Len(t) : u[i] = t[i]
        /\ \A i \in 1..Len(rows) : u[Len(t) + i] = rows[i]
    OBVIOUS
  <1> HIDE DEF u
  <1>2. \A i \in 1..Len(u) : \/ i \in 1..Len(t)
                            \/ /\ i - Len(t) \in 1..Len(rows)
                               /\ u[i] = rows[i - Len(t)]
    <2> SUFFICES ASSUME NEW i \in 1..Len(u), i \notin 1..Len(t)
                 PROVE  i - Len(t) \in 1..Len(rows) /\ u[i] = rows[i - Len(t)]
      OBVIOUS
    <2>1. i - Len(t) \in 1..Len(rows) /\ i = Len(t) + (i - Len(t))
      BY <1>1
    <2> QED BY <2>1, <1>1
  <1>3. \A i \in 1..Len(t) : i \in 1..Len(u)
    BY <1>1
  <1>4. \A i \in 1..Len(rows) : Len(t) + i \in 1..Len(u)
    BY <1>1
  <1>5. Attempts(u) \subseteq Attempts(t) \cup Attempts(rows)
    <2> SUFFICES ASSUME NEW i \in 1..Len(u), IsDebit(u[i])
                 PROVE  u[i].attempt \in Attempts(t) \cup Attempts(rows)
      BY DEF Attempts, Debits
    <2>1. CASE i \in 1..Len(t)
      BY <1>1, <2>1 DEF Attempts, Debits
    <2>2. CASE i - Len(t) \in 1..Len(rows) /\ u[i] = rows[i - Len(t)]
      BY <2>2 DEF Attempts, Debits
    <2> QED BY <1>2, <2>1, <2>2
  <1>6. Attempts(t) \subseteq Attempts(u) /\ Attempts(rows) \subseteq Attempts(u)
    <2>1. Attempts(t) \subseteq Attempts(u)
      BY <1>1, <1>3 DEF Attempts, Debits
    <2>2. \A i \in Debits(rows) : Len(t) + i \in Debits(u)
      BY <1>1, <1>4 DEF Debits
    <2>3. \A i \in Debits(rows) : u[Len(t) + i] = rows[i]
      BY <1>1 DEF Debits
    <2> QED BY <2>1, <2>2, <2>3 DEF Attempts
  <1>7. Settled(u) <=> Settled(t) \/ Settled(rows)
    BY <1>1, <1>2, <1>3, <1>4 DEF Settled
  <1> QED BY <1>5, <1>6, <1>7 DEF u

LEMMA OneRow ==
  ASSUME NEW r \in Rows
  PROVE  /\ <<r>> \in Seq(Rows)
         /\ Attempts(<<r>>) = IF IsDebit(r) THEN {r.attempt} ELSE {}
         /\ Settled(<<r>>) <=> r.after \in TerminalAuditStatuses
  <1>1. <<r>> \in Seq(Rows) /\ Len(<<r>>) = 1 /\ <<r>>[1] = r
    OBVIOUS
  <1>2. Attempts(<<r>>) = IF IsDebit(r) THEN {r.attempt} ELSE {}
    BY <1>1 DEF Attempts, Debits
  <1>3. Settled(<<r>>) <=> r.after \in TerminalAuditStatuses
    BY <1>1 DEF Settled
  <1> QED BY <1>1, <1>2, <1>3

\* Rows without a debit leave the order of the debits alone.
LEMMA QuietRowsKeepOrder ==
  ASSUME NEW t \in Seq(Rows), NEW rows \in Seq(Rows),
         Ordered(t), Attempts(rows) = {}
  PROVE  Ordered(t \o rows)
  <1> DEFINE u == t \o rows
  <1>1. /\ Len(u) = Len(t) + Len(rows) /\ Len(t) \in Nat /\ Len(rows) \in Nat
        /\ \A i \in 1..Len(t) : u[i] = t[i]
        /\ \A i \in 1..Len(rows) : u[Len(t) + i] = rows[i]
    OBVIOUS
  <1> HIDE DEF u
  <1>2. \A i \in 1..Len(rows) : ~IsDebit(rows[i])
    BY DEF Attempts, Debits
  <1>3. \A i \in Debits(u) : i \in Debits(t)
    <2> SUFFICES ASSUME NEW i \in 1..Len(u), IsDebit(u[i]) PROVE i \in Debits(t)
      BY DEF Debits
    <2>1. CASE i \in 1..Len(t)
      BY <1>1, <2>1 DEF Debits
    <2>2. CASE i \notin 1..Len(t)
      <3>1. i - Len(t) \in 1..Len(rows) /\ i = Len(t) + (i - Len(t))
        BY <1>1, <2>2
      <3> QED BY <3>1, <1>1, <1>2
    <2> QED BY <2>1, <2>2
  <1>4. \A i \in Debits(t) : u[i] = t[i]
    BY <1>1 DEF Debits
  <1> QED BY <1>3, <1>4 DEF Ordered, u

\* A debit with a higher attempt number than every earlier one keeps it.
LEMMA NextDebitKeepsOrder ==
  ASSUME NEW t \in Seq(Rows), NEW r \in Rows, Ordered(t),
         \A a \in Attempts(t) : a < r.attempt
  PROVE  Ordered(t \o <<r>>)
  <1> DEFINE u == t \o <<r>>
  <1>1. /\ Len(u) = Len(t) + 1 /\ Len(t) \in Nat
        /\ \A i \in 1..Len(t) : u[i] = t[i]
        /\ u[Len(t) + 1] = r
    OBVIOUS
  <1> HIDE DEF u
  <1> SUFFICES ASSUME NEW i \in 1..Len(u), NEW j \in 1..Len(u), i < j,
                      IsDebit(u[i]), IsDebit(u[j])
               PROVE  u[i].attempt < u[j].attempt
    BY DEF Ordered, Debits, u
  <1>2. i \in 1..Len(t) /\ u[i] = t[i] /\ i \in Debits(t)
    BY <1>1 DEF Debits
  <1>3. CASE j \in 1..Len(t)
    BY <1>1, <1>2, <1>3 DEF Ordered, Debits
  <1>4. CASE j = Len(t) + 1
    BY <1>1, <1>2, <1>4 DEF Attempts
  <1> QED BY <1>1, <1>3, <1>4

-------------------------------------------------------------------------------
(* Type correctness. The attempt counter stays in range because an attempt is  *)
(* only added while one is left: the loop's position bounds the counter.       *)

AttemptInRange ==
  /\ pc \in {"dunning", "notice", "debit", "escalate"} => attempt \in 1..MaxRetries
  /\ pc \in {"offer", "promise"} => attempt \in 1..MaxRetries - 1

TypeInv == TypeOK /\ AttemptInRange

\* The logs of StrategyAgent.process that have several rows.
LEMMA StrategyRowsType ==
  /\ <<StrategyRow>> \in Seq(Rows)
  /\ <<StrategyRow, ReauthRow>> \in Seq(Rows)
  /\ <<LimitRow, StrategyRow, ReauthRow>> \in Seq(Rows)
  /\ <<StrategyRow, Row("escalate", "n/a", 0, "escalated")>> \in Seq(Rows)
  <1>1. /\ StrategyRow \in Rows /\ ReauthRow \in Rows /\ LimitRow \in Rows
        /\ Row("escalate", "n/a", 0, "escalated") \in Rows
    BY PipelineAssumption
    DEF StrategyRow, ReauthRow, LimitRow, Row, Rows, Events, Outcomes, CaseStatuses
  <1> QED BY <1>1

LEMMA EnterLoopType ==
  ASSUME TypeInv, NEW rows \in Seq(Rows), EnterLoop(rows)
  PROVE  TypeInv'
  <1>1. trail' \in Seq(Rows)
    BY DEF EnterLoop, Log, TypeInv, TypeOK
  <1>2. pc' \in {"notice", "dunning"}
    BY DEF EnterLoop, LoopStart
  <1>3. attempt' = 1 /\ 1 \in 1..MaxRetries /\ 1 \in 0..MaxRetries
    BY PipelineAssumption DEF EnterLoop
  <1> QED BY <1>1, <1>2, <1>3
          DEF EnterLoop, TypeInv, TypeOK, AttemptInRange, Steps

LEMMA ViewType == TypeOK => View \in Columns
  BY DEF TypeOK, View, Columns

LEMMA RollbackType ==
  ASSUME TypeInv, Rollback
  PROVE  TypeInv'
  <1>1. /\ status' \in CaseStatuses /\ dunning' \in 0..DunningStages
        /\ compliance' \in Compliance /\ trail' \in Seq(Rows)
        /\ moves' \in Seq(CaseStatuses \X CaseStatuses)
    BY DEF Rollback, TypeInv, TypeOK, Columns
  <1>2. pc' \in Steps /\ attempt' \in 0..MaxRetries
    BY PipelineAssumption DEF Rollback, Steps
  <1>3. /\ input' \in Inputs /\ sealed' \in Inputs /\ deliveries' \in 0..MaxDeliveries
        /\ committed' \in Columns /\ broken' \in BOOLEAN
    BY DEF Rollback, TypeInv, TypeOK
  <1>4. AttemptInRange'
    BY DEF Rollback, AttemptInRange
  <1> QED BY <1>1, <1>2, <1>3, <1>4 DEF TypeInv, TypeOK

\* Commit leaves the run idle with its view as the committed one.
LEMMA CommitType ==
  ASSUME TypeInv, Commit
  PROVE  TypeInv'
  <1>1. pc' \in Steps /\ attempt' \in 0..MaxRetries
    BY PipelineAssumption DEF Commit, Steps
  <1>2. committed' \in Columns /\ broken' \in BOOLEAN
    BY ViewType DEF Commit, TypeInv
  <1>3. AttemptInRange'
    BY DEF Commit, AttemptInRange
  <1> QED BY <1>1, <1>2, <1>3 DEF Commit, row, TypeInv, TypeOK

LEMMA TypeStep == TypeInv /\ [Next]_vars => TypeInv'
  <1> SUFFICES ASSUME TypeInv, [Next]_vars PROVE TypeInv'
    OBVIOUS
  <1> USE PipelineAssumption DEF TypeInv, TypeOK, AttemptInRange, Steps, row
  <1>1. CASE NoteDuplicate
    BY <1>1
    DEF NoteDuplicate, Log, SetStatus, Row, Rows, Events, Outcomes, CaseStatuses
  <1>2. CASE Reject
    BY <1>2
    DEF Reject, Log, SetStatus, Row, Rows, Events, Outcomes, CaseStatuses
  <1>3. CASE RejectInvalid
    BY <1>3
    DEF RejectInvalid, Log, SetStatus, Row, Rows, Events, Outcomes, CaseStatuses
  <1>4. CASE Receive
    BY <1>4
    DEF Receive, Log, SetStatus, Row, Rows, Events, Outcomes, CaseStatuses
  <1>5. CASE Score
    BY <1>5
    DEF Score, Log, SetStatus, Row, Rows, Events, Outcomes, CaseStatuses
  <1>6. CASE EscalateRevoked
    <2>1. trail' \in Seq(Rows)
      BY <1>6, StrategyRowsType DEF EscalateRevoked, Log
    <2> QED BY <1>6, <2>1 DEF EscalateRevoked, SetStatus, CaseStatuses
  <1>7. CASE BlockOverLimit
    BY <1>7, StrategyRowsType, EnterLoopType DEF BlockOverLimit
  <1>8. CASE SelectReauth
    BY <1>8, StrategyRowsType, EnterLoopType DEF SelectReauth
  <1>9. CASE SelectRetry
    BY <1>9, StrategyRowsType, EnterLoopType DEF SelectRetry
  <1>10. CASE SendDunning
    <2> DEFINE r == Row("dunning_stage", "pending", attempt, status)
    <2>a. r \in Rows
      BY DEF Row, Rows, Events, Outcomes
    <2>b. trail' = trail \o <<r>> \/ trail' = trail \o <<>>
      BY <1>10 DEF SendDunning, Log
    <2> HIDE DEF r
    <2>1. trail' \in Seq(Rows)
      BY <2>a, <2>b
    <2>2. dunning' \in 0..DunningStages
      BY <1>10 DEF SendDunning
    <2> QED BY <1>10, <2>1, <2>2 DEF SendDunning
  <1>11. CASE PreDebitNotification
    BY <1>11
    DEF PreDebitNotification, Log, SetStatus, Row, Rows, Events, Outcomes, CaseStatuses, Compliance
  <1>12. CASE DebitSucceeds
    BY <1>12
    DEF DebitSucceeds, Log, SetStatus, Row, Rows, Events, Outcomes, CaseStatuses,
        RetryEvent, RetryEvents
  <1>13. CASE DebitFails
    BY <1>13
    DEF DebitFails, Log, SetStatus, Row, Rows, Events, Outcomes, CaseStatuses,
        RetryEvent, RetryEvents
  <1>14. CASE NoPromise
    BY <1>14
    DEF NoPromise, Log, SetStatus, Row, Rows, Events, Outcomes, CaseStatuses, LoopStart
  <1>15. CASE RecordPromise
    BY <1>15
    DEF RecordPromise, Log, SetStatus, Row, Rows, Events, Outcomes, CaseStatuses
  <1>16. CASE PromiseKept
    BY <1>16
    DEF PromiseKept, Log, SetStatus, Row, Rows, Events, Outcomes, CaseStatuses
  <1>17. CASE PromiseBroken
    BY <1>17
    DEF PromiseBroken, Log, SetStatus, Row, Rows, Events, Outcomes, CaseStatuses
  <1>18. CASE Escalate
    BY <1>18
    DEF Escalate, Log, SetStatus, Row, Rows, Events, Outcomes, CaseStatuses
  <1>19. CASE Commit
    BY <1>19, CommitType
  <1>20. CASE GateRaises
    BY <1>20, RollbackType DEF GateRaises
  <1>21. CASE Interrupt
    BY <1>21, RollbackType DEF Interrupt
  <1>22. CASE Deliver
    BY <1>22 DEF Deliver
  <1>23. CASE WebhookUpdatesRow
    BY <1>23 DEF WebhookUpdatesRow
  <1>24. CASE UNCHANGED vars
    BY <1>24 DEF vars
  <1> QED
    BY <1>1, <1>2, <1>3, <1>4, <1>5, <1>6, <1>7, <1>8, <1>9, <1>10, <1>11, <1>12,
       <1>13, <1>14, <1>15, <1>16, <1>17, <1>18, <1>19, <1>20, <1>21, <1>22, <1>23, <1>24
    DEF Next, Handler, Gates, Strategy, Loop

LEMMA InitType == Init => TypeInv
  <1> SUFFICES ASSUME Init PROVE TypeInv
    OBVIOUS
  <1>1. /\ status \in CaseStatuses /\ compliance \in Compliance
        /\ trail \in Seq(Rows) /\ moves \in Seq(CaseStatuses \X CaseStatuses)
        /\ dunning \in 0..DunningStages
    BY PipelineAssumption DEF Init, CaseStatuses, Compliance
  <1>2. committed \in Columns
    BY <1>1 DEF Init, View, Columns
  <1>3. /\ pc \in Steps /\ attempt \in 0..MaxRetries
        /\ deliveries \in 0..MaxDeliveries
    BY PipelineAssumption DEF Init, Steps
  <1>5. input \in Inputs /\ sealed \in Inputs /\ broken \in BOOLEAN
    BY DEF Init
  <1>4. AttemptInRange
    BY DEF Init, AttemptInRange
  <1> QED BY <1>1, <1>2, <1>3, <1>4, <1>5 DEF TypeInv, TypeOK

\* Every variable of the pipeline keeps its type, whatever the limits are.
THEOREM TypeCorrect == Spec => []TypeOK
  <1>1. TypeInv => TypeOK
    BY DEF TypeInv
  <1> QED BY InitType, <1>1, TypeStep, PTL DEF Spec

-------------------------------------------------------------------------------
(* The gates. A run works on what was committed before it; a case is only      *)
(* worked while it is new and no row settles it; at the commit it was found    *)
(* settled, was settled by this run, or is invalid. The signature covers the   *)
(* amount, so no genuine event can make an invalid case well formed.           *)

Working == Steps \ {"idle", "gate", "commit"}

Resolved ==
  \/ /\ Settled(committed.trail)
     /\ status = committed.status /\ moves = committed.moves
     /\ trail = committed.trail \o <<Row("webhook_duplicate", "n/a", 0, status)>>
  \/ /\ committed.status = "new" /\ ~Settled(committed.trail)
     /\ status \in TerminalAuditStatuses /\ Settled(trail)
  \/ /\ committed.status \in {"new", "invalid"} /\ ~Settled(committed.trail)
     /\ status = "invalid" /\ ~sealed.valid

GateInv ==
  /\ committed.status \in {"new"} \cup TerminalStatuses
  /\ committed.status \in TerminalAuditStatuses => Settled(committed.trail)
  /\ committed.status = "invalid" => ~sealed.valid
  /\ input.signed => input.valid = sealed.valid
  /\ pc \in {"idle", "gate"} => View = committed
  /\ pc \in Working => committed.status = "new" /\ ~Settled(committed.trail)
  /\ pc = "commit" => Resolved

(* The debits. A case that is still to be worked was never debited; in the     *)
(* loop the trail holds the debits before the current attempt.                 *)

DebitInv ==
  /\ Ordered(trail) /\ Ordered(committed.trail)
  /\ \E k \in 0..MaxRetries : Attempts(committed.trail) = 1..k
  /\ Attempts(committed.trail) # {} => Settled(committed.trail)
  /\ pc \in {"score", "strategy"} => Attempts(trail) = {}
  /\ pc \in {"dunning", "notice", "debit"} => Attempts(trail) = 1..(attempt - 1)
  /\ pc \in {"offer", "promise", "escalate"} => Attempts(trail) = 1..attempt
  /\ pc = "commit" =>
       /\ Attempts(trail) # {} => Settled(trail)
       /\ \/ Attempts(trail) = Attempts(committed.trail) /\ status # "recovered"
          \/ Settled(committed.trail) /\ Attempts(trail) = Attempts(committed.trail)
          \/ /\ status \in {"recovered", "escalated"}
             /\ \E k \in 1..MaxRetries : Attempts(trail) = 1..k

\* What the gates read is what was committed before the run.
LEMMA ViewIsCommitted ==
  ASSUME View = committed
  PROVE  /\ committed.status = status /\ committed.dunning = dunning
         /\ committed.compliance = compliance /\ committed.trail = trail
         /\ committed.moves = moves
  BY DEF View

LEMMA RollbackRestoresView ==
  ASSUME TypeOK, Rollback
  PROVE  View' = committed /\ committed' = committed
  BY DEF TypeOK, Columns, Rollback, View

\* A row that settles the case settles the trail.
LEMMA SettlingRow ==
  ASSUME TypeInv, TypeInv', NEW r \in Rows, Log(<<r>>),
         r.after \in TerminalAuditStatuses
  PROVE  Settled(trail')
  BY Appended, OneRow DEF TypeInv, TypeOK, Log

LEMMA SettlingRows ==
  /\ Row("webhook_rejected", "rejected", 0, "rejected") \in Rows
  /\ \A a \in 0..MaxRetries :
       /\ Row("escalate", "n/a", a, "escalated") \in Rows
       /\ Row(RetryEvent, "success", a, "recovered") \in Rows
       /\ Row("promise_kept", "success", a, "recovered") \in Rows
  BY PipelineAssumption
  DEF Row, Rows, Events, Outcomes, CaseStatuses, RetryEvent, RetryEvents

LEMMA GateStep ==
  TypeInv /\ TypeInv' /\ GateInv /\ [Next]_vars => GateInv'
  <1> SUFFICES ASSUME TypeInv, TypeInv', GateInv, [Next]_vars
               PROVE  GateInv'
    OBVIOUS
  <1> USE DEF GateInv
  <1>1. CASE Deliver
    BY <1>1 DEF Deliver, row, View, Working, Steps
  <1>2. CASE NoteDuplicate
    <2>1. committed' = committed /\ UNCHANGED <<input, sealed>> /\ pc' = "commit"
      BY <1>2 DEF NoteDuplicate
    <2>2. Settled(committed.trail)
      BY <1>2, ViewIsCommitted DEF NoteDuplicate, HasTerminalAudit, Settled
    <2>3. /\ status' = committed.status /\ moves' = committed.moves
          /\ trail' = committed.trail \o <<Row("webhook_duplicate", "n/a", 0, status')>>
      BY <1>2, ViewIsCommitted DEF NoteDuplicate, Log
    <2> QED BY <2>1, <2>2, <2>3 DEF Resolved, Working
  <1>3. CASE Reject
    <2>1. committed' = committed /\ UNCHANGED <<input, sealed>> /\ pc' = "commit"
      BY <1>3 DEF Reject
    <2>2. ~Settled(committed.trail) /\ committed.status = status
      BY <1>3, ViewIsCommitted DEF Reject, HasTerminalAudit, Settled
    <2>3. committed.status = "new"
      BY <1>3, <2>2
      DEF Reject, SetStatus, CanSet, IsLegalTransition, LegalTransitions,
          CaseStatuses, TerminalStatuses, TerminalAuditStatuses
    <2>4. status' \in TerminalAuditStatuses
      BY <1>3 DEF Reject, SetStatus, TerminalAuditStatuses
    <2>5. Settled(trail')
      BY <1>3, SettlingRows, SettlingRow DEF Reject, Row, TerminalAuditStatuses
    <2> QED BY <2>1, <2>2, <2>3, <2>4, <2>5 DEF Resolved, Working
  <1>4. CASE RejectInvalid
    <2>1. committed' = committed /\ UNCHANGED <<input, sealed>> /\ pc' = "commit"
      BY <1>4 DEF RejectInvalid
    <2>2. ~Settled(committed.trail) /\ committed.status = status
      BY <1>4, ViewIsCommitted DEF RejectInvalid, HasTerminalAudit, Settled
    <2>3. committed.status \in {"new", "invalid"}
      BY <2>2 DEF TerminalStatuses, TerminalAuditStatuses
    <2>4. status' = "invalid" /\ ~sealed.valid
      BY <1>4 DEF RejectInvalid, SetStatus
    <2> QED BY <2>1, <2>2, <2>3, <2>4 DEF Resolved, Working
  <1>5. CASE Receive
    <2>1. committed' = committed /\ UNCHANGED <<input, sealed>> /\ pc' = "score"
      BY <1>5 DEF Receive
    <2>2. ~Settled(committed.trail) /\ committed.status = status
      BY <1>5, ViewIsCommitted DEF Receive, HasTerminalAudit, Settled
    <2>3. committed.status = "new"
      BY <1>5, <2>2 DEF Receive, TerminalStatuses, TerminalAuditStatuses
    <2> QED BY <2>1, <2>2, <2>3
  <1>6. ASSUME pc \in Working, pc' \in Working, UNCHANGED <<input, sealed, committed>>
        PROVE  GateInv'
    BY <1>6 DEF Working
  <1>7. ASSUME pc \in Working, pc' = "commit", UNCHANGED <<input, sealed, committed>>,
               status' \in TerminalAuditStatuses, Settled(trail')
        PROVE  GateInv'
    BY <1>7 DEF Working, Resolved
  <1>8. CASE Score \/ BlockOverLimit \/ SelectReauth \/ SelectRetry
    BY <1>6, <1>8
    DEF Score, BlockOverLimit, SelectReauth, SelectRetry, EnterLoop, LoopStart,
        Working, Steps
  <1>9. CASE EscalateRevoked
    <2> DEFINE rows == <<StrategyRow, Row("escalate", "n/a", 0, "escalated")>>
    <2>1. rows \in Seq(Rows) /\ Settled(rows)
      BY StrategyRowsType DEF Settled, Row, TerminalAuditStatuses
    <2>2. Settled(trail')
      BY <1>9, <2>1, Appended DEF EscalateRevoked, Log, TypeInv, TypeOK
    <2> QED BY <1>7, <1>9, <2>2
            DEF EscalateRevoked, SetStatus, TerminalAuditStatuses, Working, Steps
  <1>10. CASE SendDunning \/ PreDebitNotification \/ DebitFails \/ NoPromise
               \/ RecordPromise \/ PromiseBroken
    BY <1>6, <1>10
    DEF SendDunning, PreDebitNotification, DebitFails, NoPromise, RecordPromise,
        PromiseBroken, LoopStart, row, Working, Steps
  <1>11. CASE DebitSucceeds
    BY <1>7, <1>11, SettlingRows, SettlingRow
    DEF DebitSucceeds, SetStatus, TerminalAuditStatuses, Working, Steps, Row,
        TypeInv, TypeOK
  <1>12. CASE PromiseKept
    BY <1>7, <1>12, SettlingRows, SettlingRow
    DEF PromiseKept, SetStatus, TerminalAuditStatuses, Working, Steps, Row,
        TypeInv, TypeOK
  <1>13. CASE Escalate
    BY <1>7, <1>13, SettlingRows, SettlingRow
    DEF Escalate, SetStatus, TerminalAuditStatuses, Working, Steps, Row,
        TypeInv, TypeOK
  <1>14. CASE Commit
    <2>1. /\ committed' = View /\ View' = View /\ pc' = "idle"
          /\ UNCHANGED <<input, sealed>>
          /\ Resolved
      BY <1>14 DEF Commit, row, View
    <2>2. committed'.status = status /\ committed'.trail = trail
      BY <2>1 DEF View
    <2>3. CASE Settled(committed.trail) /\ Resolved
      <3>1. committed'.status = committed.status
        BY <2>2, <2>3 DEF Resolved
      <3>2. Settled(trail)
        <4>1. <<Row("webhook_duplicate", "n/a", 0, status)>> \in Seq(Rows)
          BY PipelineAssumption DEF Row, Rows, Events, Outcomes, TypeInv, TypeOK
        <4>2. committed.trail \in Seq(Rows)
          BY DEF TypeInv, TypeOK, Columns
        <4>3. trail = committed.trail
                        \o <<Row("webhook_duplicate", "n/a", 0, status)>>
          BY <2>3 DEF Resolved
        <4> QED BY <2>3, <4>1, <4>2, <4>3, Appended
      <3> QED BY <2>1, <2>2, <3>1, <3>2 DEF Working
    <2>4. CASE ~Settled(committed.trail) /\ Resolved
      BY <2>1, <2>2, <2>4
      DEF Resolved, Working, TerminalStatuses, TerminalAuditStatuses
    <2> QED BY <2>1, <2>3, <2>4
  <1>15. CASE GateRaises \/ Interrupt
    BY <1>15, RollbackRestoresView
    DEF GateRaises, Interrupt, Rollback, TypeInv, Working
  <1>16. CASE WebhookUpdatesRow
    BY <1>16 DEF WebhookUpdatesRow, row, View, Working
  <1>17. CASE UNCHANGED vars
    BY <1>17 DEF vars, View, Resolved
  <1> QED
    BY <1>1, <1>2, <1>3, <1>4, <1>5, <1>8, <1>9, <1>10, <1>11, <1>12, <1>13,
       <1>14, <1>15, <1>16, <1>17
    DEF Next, Handler, Gates, Strategy, Loop

-------------------------------------------------------------------------------
(* The retry cap.                                                              *)

LEMMA QuietLog ==
  ASSUME TypeInv, Ordered(trail),
         NEW rows \in Seq(Rows), Attempts(rows) = {}, Log(rows)
  PROVE  Ordered(trail') /\ Attempts(trail') = Attempts(trail)
  <1>1. trail \in Seq(Rows) /\ trail' = trail \o rows
    BY DEF Log, TypeInv, TypeOK
  <1>2. Attempts(trail') = Attempts(trail) \cup Attempts(rows)
    BY <1>1, Appended
  <1> QED BY <1>1, <1>2, QuietRowsKeepOrder

QuietRows == {r \in Rows : ~IsDebit(r)}

LEMMA QuietRow ==
  ASSUME TypeInv, Ordered(trail), NEW r \in QuietRows, Log(<<r>>)
  PROVE  Ordered(trail') /\ Attempts(trail') = Attempts(trail)
  <1>1. r \in Rows /\ ~IsDebit(r)
    BY DEF QuietRows
  <1>2. <<r>> \in Seq(Rows) /\ Attempts(<<r>>) = {}
    BY <1>1, OneRow
  <1> QED BY <1>2, QuietLog

\* The rows the pipeline logs one at a time, the debits left out.
LEMMA OtherRows ==
  /\ \A s \in CaseStatuses :
       /\ Row("webhook_duplicate", "n/a", 0, s) \in QuietRows
       /\ Row("webhook_received", "n/a", 0, s) \in QuietRows
  /\ Row("webhook_rejected", "rejected", 0, "rejected") \in QuietRows
  /\ Row("webhook_invalid", "rejected", 0, "invalid") \in QuietRows
  /\ Row("score", "n/a", 0, "in_progress") \in QuietRows
  /\ \A a \in 0..MaxRetries : \A s \in CaseStatuses :
       /\ Row("dunning_stage", "pending", a, s) \in QuietRows
       /\ \A o \in {"success", "failure"} :
            Row("pre_debit_notification", o, a, s) \in QuietRows
  /\ \A a \in 0..MaxRetries :
       /\ Row("promise_recorded", "pending", a, "promised") \in QuietRows
       /\ Row("promise_kept", "success", a, "recovered") \in QuietRows
       /\ Row("promise_broken", "failure", a, "broken_promise") \in QuietRows
       /\ Row("escalate", "n/a", a, "escalated") \in QuietRows
  <1> DEFINE quiet == Events \ RetryEvents
  <1>1. \A e \in quiet : \A o \in Outcomes : \A a \in 0..MaxRetries :
          \A s \in CaseStatuses : Row(e, o, a, s) \in QuietRows
    BY DEF Row, Rows, IsDebit, QuietRows
  <1>2. {"webhook_rejected", "webhook_invalid", "webhook_duplicate",
         "webhook_received", "score", "dunning_stage", "pre_debit_notification",
         "promise_recorded", "promise_kept", "promise_broken", "escalate"}
        \subseteq quiet
    BY DEF Events, RetryEvents
  <1>3. /\ {"n/a", "pending", "success", "failure", "rejected"} \subseteq Outcomes
        /\ {"rejected", "invalid", "in_progress", "promised", "recovered",
            "broken_promise", "escalated"} \subseteq CaseStatuses
        /\ 0 \in 0..MaxRetries
    BY PipelineAssumption DEF Outcomes, CaseStatuses
  <1> HIDE DEF quiet
  <1> QED BY <1>1, <1>2, <1>3

\* The debit of the loop's current attempt is the next one in the trail.
LEMMA DebitLog ==
  ASSUME TypeInv, Ordered(trail), attempt \in 1..MaxRetries,
         Attempts(trail) = 1..(attempt - 1),
         NEW o \in Outcomes, NEW s \in CaseStatuses,
         Log(<<Row(RetryEvent, o, attempt, s)>>)
  PROVE  Ordered(trail') /\ Attempts(trail') = 1..attempt
  <1> DEFINE r == Row(RetryEvent, o, attempt, s)
  <1>1. r \in Rows /\ IsDebit(r) /\ r.attempt = attempt
    <2>1. RetryEvent \in RetryEvents
      BY DEF RetryEvent, RetryEvents
    <2>2. attempt \in 0..MaxRetries
      BY PipelineAssumption
    <2> QED BY <2>1, <2>2 DEF Row, Rows, IsDebit, Events
  <1>2. trail \in Seq(Rows) /\ trail' = trail \o <<r>>
    BY DEF Log, TypeInv, TypeOK
  <1> HIDE DEF r
  <1>3. \A a \in Attempts(trail) : a < r.attempt
    BY <1>1, PipelineAssumption
  <1>4. Ordered(trail')
    BY <1>1, <1>2, <1>3, NextDebitKeepsOrder
  <1>5. <<r>> \in Seq(Rows) /\ Attempts(<<r>>) = {attempt}
    BY <1>1, OneRow
  <1>6. Attempts(trail') = 1..(attempt - 1) \cup {attempt}
    BY <1>2, <1>5, Appended
  <1>7. 1..(attempt - 1) \cup {attempt} = 1..attempt
    BY PipelineAssumption
  <1> QED BY <1>4, <1>6, <1>7

LEMMA StrategyRowsAreQuiet ==
  /\ Attempts(<<StrategyRow>>) = {}
  /\ Attempts(<<StrategyRow, ReauthRow>>) = {}
  /\ Attempts(<<LimitRow, StrategyRow, ReauthRow>>) = {}
  /\ Attempts(<<StrategyRow, Row("escalate", "n/a", 0, "escalated")>>) = {}
  <1>1. /\ ~IsDebit(StrategyRow) /\ ~IsDebit(ReauthRow) /\ ~IsDebit(LimitRow)
        /\ ~IsDebit(Row("escalate", "n/a", 0, "escalated"))
    BY DEF StrategyRow, ReauthRow, LimitRow, Row, IsDebit, RetryEvents
  <1> QED BY <1>1 DEF Attempts, Debits

LEMMA NothingDebited == Attempts(<<>>) = {} /\ Ordered(<<>>) /\ ~Settled(<<>>)
  BY DEF Attempts, Debits, Ordered, Settled

\* A case that reaches the gates unsettled was never debited.
LEMMA UnsettledAtGate ==
  ASSUME GateInv, DebitInv, pc = "gate"
  PROVE  /\ Attempts(trail) = Attempts(committed.trail)
         /\ ~HasTerminalAudit => Attempts(trail) = {}
         /\ HasTerminalAudit => Settled(committed.trail)
  BY ViewIsCommitted DEF GateInv, DebitInv, HasTerminalAudit, Settled

LEMMA DebitStep ==
  TypeInv /\ TypeInv' /\ GateInv /\ GateInv' /\ DebitInv /\ [Next]_vars => DebitInv'
  <1> SUFFICES ASSUME TypeInv, TypeInv', GateInv, GateInv', DebitInv, [Next]_vars
               PROVE  DebitInv'
    OBVIOUS
  <1> USE PipelineAssumption
  \* What a step that leaves the committed state alone has to show.
  <1> DEFINE Here ==
        /\ Ordered(trail')
        /\ pc' \in {"score", "strategy"} => Attempts(trail') = {}
        /\ pc' \in {"dunning", "notice", "debit"} => Attempts(trail') = 1..(attempt' - 1)
        /\ pc' \in {"offer", "promise", "escalate"} => Attempts(trail') = 1..attempt'
        /\ pc' = "commit" =>
             /\ Attempts(trail') # {} => Settled(trail')
             /\ \/ Attempts(trail') = Attempts(committed.trail) /\ status' # "recovered"
                \/ Settled(committed.trail) /\ Attempts(trail') = Attempts(committed.trail)
                \/ /\ status' \in {"recovered", "escalated"}
                   /\ \E k \in 1..MaxRetries : Attempts(trail') = 1..k
  <1>0. ASSUME UNCHANGED committed, Here PROVE DebitInv'
    BY <1>0 DEF DebitInv
  <1>1. CASE Deliver
    BY <1>1 DEF Deliver, row, DebitInv
  <1>2. CASE NoteDuplicate
    <2>1. Ordered(trail') /\ Attempts(trail') = Attempts(trail)
      BY <1>2, OtherRows, QuietRow DEF NoteDuplicate, DebitInv, TypeInv, TypeOK
    <2>2. Settled(committed.trail) /\ Attempts(trail) = Attempts(committed.trail)
      BY <1>2, UnsettledAtGate DEF NoteDuplicate
    <2>3. Settled(trail')
      <3>1. trail = committed.trail
        BY <1>2, ViewIsCommitted DEF NoteDuplicate, GateInv
      <3>2. <<Row("webhook_duplicate", "n/a", 0, status)>> \in Seq(Rows)
        BY DEF Row, Rows, Events, Outcomes, TypeInv, TypeOK
      <3> QED BY <1>2, <2>2, <3>1, <3>2, Appended
              DEF NoteDuplicate, Log, TypeInv, TypeOK
    <2> QED BY <1>0, <1>2, <2>1, <2>2, <2>3 DEF NoteDuplicate
  <1>3. CASE Reject
    <2>1. Ordered(trail') /\ Attempts(trail') = Attempts(trail)
      BY <1>3, OtherRows, QuietRow DEF Reject, DebitInv, TypeInv, TypeOK
    <2>2. Attempts(trail) = {} /\ Attempts(trail) = Attempts(committed.trail)
      BY <1>3, UnsettledAtGate DEF Reject
    <2> QED BY <1>0, <1>3, <2>1, <2>2 DEF Reject, SetStatus
  <1>4. CASE RejectInvalid
    <2>1. Ordered(trail') /\ Attempts(trail') = Attempts(trail)
      BY <1>4, OtherRows, QuietRow DEF RejectInvalid, DebitInv, TypeInv, TypeOK
    <2>2. Attempts(trail) = {} /\ Attempts(trail) = Attempts(committed.trail)
      BY <1>4, UnsettledAtGate DEF RejectInvalid
    <2> QED BY <1>0, <1>4, <2>1, <2>2 DEF RejectInvalid, SetStatus
  <1>5. CASE Receive
    <2>1. Ordered(trail') /\ Attempts(trail') = Attempts(trail)
      BY <1>5, OtherRows, QuietRow DEF Receive, DebitInv, TypeInv, TypeOK
    <2>2. Attempts(trail) = {}
      BY <1>5, UnsettledAtGate DEF Receive
    <2> QED BY <1>0, <1>5, <2>1, <2>2 DEF Receive
  <1>6. CASE Score
    <2>1. Ordered(trail') /\ Attempts(trail') = Attempts(trail)
      BY <1>6, OtherRows, QuietRow DEF Score, DebitInv, TypeInv, TypeOK
    <2> QED BY <1>0, <1>6, <2>1 DEF Score, DebitInv
  <1>7. CASE EscalateRevoked
    <2>1. Ordered(trail') /\ Attempts(trail') = Attempts(trail)
      BY <1>7, QuietLog, StrategyRowsType, StrategyRowsAreQuiet
      DEF EscalateRevoked, DebitInv
    <2>2. Attempts(trail) = {} /\ Attempts(committed.trail) = {}
      BY <1>7 DEF EscalateRevoked, DebitInv, GateInv, Working, Steps
    <2> QED BY <1>0, <1>7, <2>1, <2>2 DEF EscalateRevoked, SetStatus
  <1>8. ASSUME NEW rows \in Seq(Rows), Attempts(rows) = {}, pc = "strategy",
               EnterLoop(rows)
        PROVE  DebitInv'
    <2>1. Ordered(trail') /\ Attempts(trail') = Attempts(trail)
      BY <1>8, QuietLog DEF EnterLoop, DebitInv
    <2>2. pc' \in {"notice", "dunning"} /\ attempt' = 1
      BY <1>8 DEF EnterLoop, LoopStart
    <2>3. Attempts(trail') = 1..(attempt' - 1)
      BY <1>8, <2>1, <2>2 DEF DebitInv
    <2> QED BY <1>0, <1>8, <2>1, <2>2, <2>3 DEF EnterLoop
  <1>9. CASE BlockOverLimit \/ SelectReauth \/ SelectRetry
    BY <1>8, <1>9, StrategyRowsType, StrategyRowsAreQuiet
    DEF BlockOverLimit, SelectReauth, SelectRetry
  <1>10. CASE SendDunning
    <2>1. Ordered(trail') /\ Attempts(trail') = Attempts(trail)
      <3>1. CASE dunning < DunningStages
        BY <1>10, <3>1, OtherRows, QuietRow
        DEF SendDunning, DebitInv, TypeInv, TypeOK
      <3>2. CASE ~(dunning < DunningStages)
        BY <1>10, <3>2 DEF SendDunning, Log, DebitInv, TypeInv, TypeOK
      <3> QED BY <3>1, <3>2
    <2> QED BY <1>0, <1>10, <2>1 DEF SendDunning, DebitInv
  <1>11. CASE PreDebitNotification
    <2>1. Ordered(trail') /\ Attempts(trail') = Attempts(trail)
      BY <1>11, OtherRows, QuietRow DEF PreDebitNotification, DebitInv, TypeInv, TypeOK
    <2> QED BY <1>0, <1>11, <2>1 DEF PreDebitNotification, DebitInv
  <1>12. CASE DebitSucceeds
    <2>1. attempt \in 1..MaxRetries /\ Attempts(trail) = 1..(attempt - 1)
      BY <1>12 DEF DebitSucceeds, DebitInv, TypeInv, AttemptInRange
    <2>2. Ordered(trail') /\ Attempts(trail') = 1..attempt
      BY <1>12, <2>1, DebitLog
      DEF DebitSucceeds, DebitInv, Outcomes, CaseStatuses
    <2>3. Settled(trail')
      BY <1>12, SettlingRows, SettlingRow
      DEF DebitSucceeds, Row, TerminalAuditStatuses, TypeInv, TypeOK
    <2> QED BY <1>0, <1>12, <2>1, <2>2, <2>3 DEF DebitSucceeds, SetStatus
  <1>13. CASE DebitFails
    <2>1. attempt \in 1..MaxRetries /\ Attempts(trail) = 1..(attempt - 1)
      BY <1>13 DEF DebitFails, DebitInv, TypeInv, AttemptInRange
    <2>2. Ordered(trail') /\ Attempts(trail') = 1..attempt
      BY <1>13, <2>1, DebitLog DEF DebitFails, DebitInv, Outcomes, CaseStatuses
    <2>3. pc' \in {"escalate", "offer"} /\ attempt' = attempt
      BY <1>13 DEF DebitFails
    <2> QED BY <1>0, <1>13, <2>2, <2>3 DEF DebitFails
  <1>14. CASE NoPromise
    <2>1. pc' \in {"notice", "dunning"} /\ attempt' - 1 = attempt
      BY <1>14 DEF NoPromise, LoopStart, TypeInv, TypeOK
    <2> QED BY <1>0, <1>14, <2>1 DEF NoPromise, row, DebitInv
  <1>15. CASE RecordPromise
    <2>1. Ordered(trail') /\ Attempts(trail') = Attempts(trail)
      BY <1>15, OtherRows, QuietRow DEF RecordPromise, DebitInv, TypeInv, TypeOK
    <2> QED BY <1>0, <1>15, <2>1 DEF RecordPromise, DebitInv
  <1>16. CASE PromiseKept
    <2>1. Ordered(trail') /\ Attempts(trail') = Attempts(trail)
      BY <1>16, OtherRows, QuietRow DEF PromiseKept, DebitInv, TypeInv, TypeOK
    <2>2. Settled(trail')
      BY <1>16, SettlingRows, SettlingRow
      DEF PromiseKept, Row, TerminalAuditStatuses, TypeInv, TypeOK
    <2>3. attempt \in 1..MaxRetries /\ Attempts(trail) = 1..attempt
      BY <1>16 DEF PromiseKept, DebitInv, TypeInv, AttemptInRange
    <2> QED BY <1>0, <1>16, <2>1, <2>2, <2>3 DEF PromiseKept, SetStatus
  <1>17. CASE PromiseBroken
    <2>1. Ordered(trail') /\ Attempts(trail') = Attempts(trail)
      BY <1>17, OtherRows, QuietRow DEF PromiseBroken, DebitInv, TypeInv, TypeOK
    <2>2. attempt' - 1 = attempt /\ pc' = "notice"
      BY <1>17 DEF PromiseBroken, TypeInv, TypeOK
    <2> QED BY <1>0, <1>17, <2>1, <2>2 DEF PromiseBroken, DebitInv
  <1>18. CASE Escalate
    <2>1. Ordered(trail') /\ Attempts(trail') = Attempts(trail)
      BY <1>18, OtherRows, QuietRow DEF Escalate, DebitInv, TypeInv, TypeOK
    <2>2. Settled(trail')
      BY <1>18, SettlingRows, SettlingRow
      DEF Escalate, Row, TerminalAuditStatuses, TypeInv, TypeOK
    <2>3. attempt \in 1..MaxRetries /\ Attempts(trail) = 1..attempt
      BY <1>18 DEF Escalate, DebitInv, TypeInv, AttemptInRange
    <2> QED BY <1>0, <1>18, <2>1, <2>2, <2>3 DEF Escalate, SetStatus
  <1>19. CASE Commit
    <2>1. /\ committed'.trail = trail /\ trail' = trail /\ pc' = "idle"
          /\ pc = "commit"
      BY <1>19 DEF Commit, row, View
    <2>2. \E k \in 0..MaxRetries : Attempts(trail) = 1..k
      BY <2>1 DEF DebitInv
    <2> QED BY <2>1, <2>2 DEF DebitInv
  <1>20. CASE GateRaises \/ Interrupt
    BY <1>20 DEF GateRaises, Interrupt, Rollback, DebitInv
  <1>21. CASE WebhookUpdatesRow
    BY <1>21 DEF WebhookUpdatesRow, row, DebitInv
  <1>22. CASE UNCHANGED vars
    BY <1>22 DEF vars, DebitInv
  <1> QED
    BY <1>1, <1>2, <1>3, <1>4, <1>5, <1>6, <1>7, <1>9, <1>10, <1>11, <1>12,
       <1>13, <1>14, <1>15, <1>16, <1>17, <1>18, <1>19, <1>20, <1>21, <1>22
    DEF Next, Handler, Gates, Strategy, Loop

-------------------------------------------------------------------------------
(* The theorems about the gates and the cap.                                   *)

LEMMA InitHolds == Init => TypeInv /\ GateInv /\ DebitInv
  <1> SUFFICES ASSUME Init PROVE TypeInv /\ GateInv /\ DebitInv
    OBVIOUS
  <1>1. TypeInv
    BY InitType
  <1>2. /\ committed.status = "new" /\ committed.trail = <<>> /\ trail = <<>>
        /\ sealed = input /\ View = committed /\ pc = "idle"
    BY DEF Init, View
  <1>3. GateInv
    BY <1>2, NothingDebited DEF GateInv, Working, TerminalAuditStatuses
  <1>4. 0 \in 0..MaxRetries /\ {} = 1..0
    BY PipelineAssumption
  <1>5. DebitInv
    BY <1>2, <1>4, NothingDebited DEF DebitInv
  <1> QED BY <1>1, <1>3, <1>5

LEMMA Inductive == Spec => [](TypeInv /\ GateInv /\ DebitInv)
  <1>1. TypeInv /\ GateInv /\ DebitInv /\ [Next]_vars
        => (TypeInv /\ GateInv /\ DebitInv)'
    BY TypeStep, GateStep, DebitStep
  <1> QED BY InitHolds, <1>1, PTL DEF Spec

\* No other connection ever sees a case between two of the run's steps.
THEOREM OnlyResolvedCasesAreCommitted == Spec => []ResolvedAtCommit
  <1>1. GateInv => ResolvedAtCommit
    BY DEF GateInv, ResolvedAtCommit
  <1> QED BY <1>1, Inductive, PTL

\* The retry cap: however often a case is delivered, whatever runs were cut
\* off and whatever the webhooks changed in between, its debits are the
\* attempts 1, ..., k in this order, for a k of at most MaxRetries.
THEOREM RetryCap == Spec => []DebitsNumberedFromOne
  <1>1. TypeInv /\ GateInv /\ DebitInv => DebitsNumberedFromOne
    <2> SUFFICES ASSUME TypeInv, GateInv, DebitInv
                 PROVE  \E k \in 0..MaxRetries : Attempts(trail) = 1..k
      BY DEF DebitInv, DebitsNumberedFromOne
    <2> USE PipelineAssumption
    <2>1. CASE pc \in {"idle", "gate"}
      BY <2>1, ViewIsCommitted DEF GateInv, DebitInv
    <2>2. CASE pc \in {"score", "strategy"}
      <3>1. 0 \in 0..MaxRetries /\ {} = 1..0
        OBVIOUS
      <3> QED BY <2>2, <3>1 DEF DebitInv
    <2>3. CASE pc \in {"dunning", "notice", "debit"}
      <3>1. attempt - 1 \in 0..MaxRetries
        BY <2>3 DEF TypeInv, AttemptInRange
      <3> QED BY <2>3, <3>1 DEF DebitInv
    <2>4. CASE pc \in {"offer", "promise", "escalate"}
      <3>1. attempt \in 0..MaxRetries
        BY DEF TypeInv, TypeOK
      <3> QED BY <2>4, <3>1 DEF DebitInv
    <2>5. CASE pc = "commit"
      BY <2>5 DEF DebitInv
    <2> QED BY <2>1, <2>2, <2>3, <2>4, <2>5 DEF TypeInv, TypeOK, Steps
  <1> QED BY <1>1, Inductive, PTL

\* The pipeline implements the contract of a case.
THEOREM PipelineImplementsContract == Spec => ImplementsContract
  <1>1. Init => Contract!CInit
    BY InitHolds, NothingDebited DEF Init, View, Contract!CInit
  <1>2. TypeInv /\ GateInv /\ DebitInv /\ [Next]_vars
        => [Contract!CNext]_Contract!cvars
    <2> SUFFICES ASSUME TypeInv, GateInv, DebitInv, [Next]_vars
                 PROVE  [Contract!CNext]_Contract!cvars
      OBVIOUS
    <2>1. CASE UNCHANGED committed
      BY <2>1 DEF Contract!cvars
    <2>2. CASE Commit
      <3>1. committed'.status = status /\ committed'.trail = trail
        BY <2>2 DEF Commit, View
      <3>2. Resolved
        BY <2>2 DEF Commit, GateInv
      <3>3. CASE Settled(committed.trail)
        <4>1. status = committed.status
          BY <3>2, <3>3 DEF Resolved
        <4>2. Attempts(trail) = Attempts(committed.trail)
          <5>1. Row("webhook_duplicate", "n/a", 0, status) \in QuietRows
            BY OtherRows DEF TypeInv, TypeOK
          <5>2. committed.trail \in Seq(Rows)
            BY DEF TypeInv, TypeOK, Columns
          <5>3. trail = committed.trail
                          \o <<Row("webhook_duplicate", "n/a", 0, status)>>
            BY <3>2, <3>3 DEF Resolved
          <5> DEFINE rows == <<Row("webhook_duplicate", "n/a", 0, status)>>
          <5>4. rows \in Seq(Rows) /\ Attempts(rows) = {}
            BY <5>1, OneRow DEF QuietRows
          <5>5. trail = committed.trail \o rows
            BY <5>3
          <5> HIDE DEF rows
          <5>6. Attempts(trail) = Attempts(committed.trail) \cup Attempts(rows)
            BY <5>2, <5>4, <5>5, Appended
          <5> QED BY <5>4, <5>6
        <4> QED BY <3>1, <4>1, <4>2 DEF Contract!cvars
      <3>4. CASE ~Settled(committed.trail) /\ Attempts(trail) = Attempts(committed.trail)
        <4>1. \/ status = committed.status
              \/ committed.status = "new" /\ status \in {"rejected", "invalid"}
              \/ committed.status = "new" /\ status = "escalated"
              \/ committed.status = "new" /\ status = "recovered"
          BY <3>2, <3>4 DEF Resolved, TerminalAuditStatuses
        <4>2. CASE status = committed.status
          BY <3>1, <3>4, <4>2 DEF Contract!cvars
        <4>3. CASE committed.status = "new" /\ status \in {"rejected", "invalid"}
          BY <3>1, <3>4, <4>3 DEF Contract!CNext, Contract!Refuse
        <4>4. CASE committed.status = "new" /\ status = "escalated"
          BY <3>1, <3>4, <4>4 DEF Contract!CNext, Contract!EscalateUntried
        <4>5. CASE committed.status = "new" /\ status = "recovered"
          <5>1. \E k \in 1..MaxRetries : Attempts(trail) = 1..k
            BY <2>2, <3>4, <4>5 DEF Commit, DebitInv
          <5> QED BY <3>1, <4>5, <5>1 DEF Contract!CNext, Contract!Work
        <4> QED BY <4>1, <4>2, <4>3, <4>4, <4>5
      <3>5. CASE ~Settled(committed.trail) /\ Attempts(trail) # Attempts(committed.trail)
        <4>1. /\ status \in {"recovered", "escalated"}
              /\ \E k \in 1..MaxRetries : Attempts(trail) = 1..k
          BY <2>2, <3>5 DEF Commit, DebitInv
        <4>2. committed.status = "new"
          BY <3>2, <3>5, <4>1 DEF Resolved
        <4> QED BY <3>1, <4>1, <4>2 DEF Contract!CNext, Contract!Work
      <3> QED BY <3>3, <3>4, <3>5
    <2>3. CASE Next /\ ~Commit
      BY <2>3
      DEF Next, Handler, Gates, Strategy, Loop, Deliver, NoteDuplicate, Reject,
          RejectInvalid, GateRaises, Receive, Score, EscalateRevoked,
          BlockOverLimit, SelectReauth, SelectRetry, EnterLoop, SendDunning,
          PreDebitNotification, DebitSucceeds, DebitFails, NoPromise,
          RecordPromise, PromiseKept, PromiseBroken, Escalate, Interrupt,
          Rollback, WebhookUpdatesRow, Contract!cvars
    <2>4. CASE UNCHANGED vars
      BY <2>4 DEF vars, Contract!cvars
    <2> QED BY <2>2, <2>3, <2>4
  <1> QED BY <1>1, <1>2, Inductive, PTL DEF Spec, ImplementsContract, Contract!CSpec

-------------------------------------------------------------------------------
(* A settled case stays settled.                                               *)

\* Reprocessing a settled case only adds webhook_duplicate rows.
THEOREM Idempotence == Spec => SettledStaysSettled
  <1> DEFINE Kept ==
        Settled(committed.trail)
        => /\ committed'.status = committed.status
           /\ committed'.moves = committed.moves
           /\ Len(committed'.trail) >= Len(committed.trail)
           /\ \A i \in 1..Len(committed.trail) :
                 committed'.trail[i] = committed.trail[i]
           /\ \A i \in Len(committed.trail) + 1..Len(committed'.trail) :
                 committed'.trail[i].event = "webhook_duplicate"
  <1>1. TypeInv /\ GateInv /\ [Next]_vars => [Kept]_vars
    <2> SUFFICES ASSUME TypeInv, GateInv, [Next]_vars, Settled(committed.trail)
                 PROVE  Kept
      OBVIOUS
    <2>0. committed.trail \in Seq(Rows)
      BY DEF TypeInv, TypeOK, Columns
    <2>1. CASE UNCHANGED committed
      <3>1. Len(committed.trail) \in Nat
        BY <2>0
      <3> QED BY <2>1, <3>1
    <2>2. CASE Commit
      <3>1. /\ committed'.status = status /\ committed'.trail = trail
            /\ committed'.moves = moves
        BY <2>2 DEF Commit, View
      <3>2. /\ status = committed.status /\ moves = committed.moves
            /\ trail = committed.trail
                         \o <<Row("webhook_duplicate", "n/a", 0, status)>>
        BY <2>2 DEF Commit, GateInv, Resolved
      <3> DEFINE r == Row("webhook_duplicate", "n/a", 0, status)
      <3>3. r.event = "webhook_duplicate"
        BY DEF Row
      <3>4. trail = committed.trail \o <<r>>
        BY <3>2
      <3> HIDE DEF r
      <3>5. /\ Len(trail) = Len(committed.trail) + 1 /\ Len(committed.trail) \in Nat
            /\ \A i \in 1..Len(committed.trail) : trail[i] = committed.trail[i]
            /\ trail[Len(committed.trail) + 1] = r
        BY <2>0, <3>4
      <3>6. \A i \in Len(committed.trail) + 1..Len(trail) :
              trail[i].event = "webhook_duplicate"
        BY <3>3, <3>5
      <3>7. Len(trail) >= Len(committed.trail)
        BY <3>5
      <3>8. \A i \in 1..Len(committed.trail) : trail[i] = committed.trail[i]
        BY <3>5
      <3>9. status = committed.status /\ moves = committed.moves
        BY <3>2
      <3> QED BY <3>1, <3>9, <3>6, <3>7, <3>8
    <2>3. CASE Next /\ ~Commit
      BY <2>1, <2>3
      DEF Next, Handler, Gates, Strategy, Loop, Deliver, NoteDuplicate, Reject,
          RejectInvalid, GateRaises, Receive, Score, EscalateRevoked,
          BlockOverLimit, SelectReauth, SelectRetry, EnterLoop, SendDunning,
          PreDebitNotification, DebitSucceeds, DebitFails, NoPromise,
          RecordPromise, PromiseKept, PromiseBroken, Escalate, Interrupt,
          Rollback, WebhookUpdatesRow
    <2>4. CASE UNCHANGED vars
      BY <2>1, <2>4 DEF vars
    <2> QED BY <2>2, <2>3, <2>4
  <1> QED BY <1>1, Inductive, PTL DEF Spec, SettledStaysSettled

-------------------------------------------------------------------------------
(* The pre-debit notice.                                                       *)

NoticeInv ==
  /\ NoticeBefore(trail) /\ NoticeBefore(committed.trail)
  /\ pc = "debit" => /\ trail # <<>>
                     /\ trail[Len(trail)].event = "pre_debit_notification"
                     /\ trail[Len(trail)].attempt = attempt

LEMMA QuietRowsKeepNotices ==
  ASSUME NEW t \in Seq(Rows), NEW rows \in Seq(Rows),
         NoticeBefore(t), Attempts(rows) = {}
  PROVE  NoticeBefore(t \o rows)
  <1> DEFINE u == t \o rows
  <1>1. /\ Len(u) = Len(t) + Len(rows) /\ Len(t) \in Nat /\ Len(rows) \in Nat
        /\ \A i \in 1..Len(t) : u[i] = t[i]
        /\ \A i \in 1..Len(rows) : u[Len(t) + i] = rows[i]
    OBVIOUS
  <1> HIDE DEF u
  <1>2. \A i \in 1..Len(rows) : ~IsDebit(rows[i])
    BY DEF Attempts, Debits
  <1> SUFFICES ASSUME NEW i \in 1..Len(u), IsDebit(u[i])
               PROVE  /\ i > 1
                      /\ u[i-1].event = "pre_debit_notification"
                      /\ u[i-1].attempt = u[i].attempt
    BY DEF NoticeBefore, Debits, u
  <1>3. CASE i \in 1..Len(t)
    <2>1. u[i] = t[i] /\ i \in Debits(t)
      BY <1>1, <1>3 DEF Debits
    <2>2. i > 1 /\ i - 1 \in 1..Len(t)
      BY <1>1, <1>3, <2>1 DEF NoticeBefore
    <2> QED BY <1>1, <2>1, <2>2 DEF NoticeBefore
  <1>4. CASE i \notin 1..Len(t)
    <2>1. i - Len(t) \in 1..Len(rows) /\ i = Len(t) + (i - Len(t))
      BY <1>1, <1>4
    <2> QED BY <2>1, <1>1, <1>2
  <1> QED BY <1>3, <1>4

\* A debit right after the notice of its attempt.
LEMMA DebitAfterNotice ==
  ASSUME NEW t \in Seq(Rows), NEW r \in Rows, NoticeBefore(t), t # <<>>,
         t[Len(t)].event = "pre_debit_notification",
         t[Len(t)].attempt = r.attempt
  PROVE  NoticeBefore(t \o <<r>>)
  <1> DEFINE u == t \o <<r>>
  <1>1. /\ Len(u) = Len(t) + 1 /\ Len(t) \in Nat \ {0}
        /\ \A i \in 1..Len(t) : u[i] = t[i]
        /\ u[Len(t) + 1] = r
    OBVIOUS
  <1> HIDE DEF u
  <1> SUFFICES ASSUME NEW i \in 1..Len(u), IsDebit(u[i])
               PROVE  /\ i > 1
                      /\ u[i-1].event = "pre_debit_notification"
                      /\ u[i-1].attempt = u[i].attempt
    BY DEF NoticeBefore, Debits, u
  <1>2. CASE i \in 1..Len(t)
    <2>1. u[i] = t[i] /\ i \in Debits(t)
      BY <1>1, <1>2 DEF Debits
    <2>2. i > 1 /\ i - 1 \in 1..Len(t)
      BY <1>1, <1>2, <2>1 DEF NoticeBefore
    <2> QED BY <1>1, <2>1, <2>2 DEF NoticeBefore
  <1>3. CASE i = Len(t) + 1
    <2>1. i - 1 = Len(t) /\ i > 1 /\ Len(t) \in 1..Len(t)
      BY <1>1, <1>3
    <2> QED BY <1>1, <1>3, <2>1
  <1> QED BY <1>1, <1>2, <1>3

LEMMA QuietRowNotice ==
  ASSUME TypeInv, NoticeBefore(trail), NEW r \in QuietRows, Log(<<r>>)
  PROVE  NoticeBefore(trail')
  <1>1. r \in Rows /\ ~IsDebit(r)
    BY DEF QuietRows
  <1>2. <<r>> \in Seq(Rows) /\ Attempts(<<r>>) = {}
    BY <1>1, OneRow
  <1>3. trail \in Seq(Rows) /\ trail' = trail \o <<r>>
    BY DEF Log, TypeInv, TypeOK
  <1> QED BY <1>2, <1>3, QuietRowsKeepNotices

LEMMA DebitRowNotice ==
  ASSUME TypeInv, NoticeInv, pc = "debit",
         NEW o \in Outcomes, NEW s \in CaseStatuses,
         Log(<<Row(RetryEvent, o, attempt, s)>>)
  PROVE  NoticeBefore(trail')
  <1> DEFINE r == Row(RetryEvent, o, attempt, s)
  <1>1. r \in Rows /\ r.attempt = attempt
    BY DEF Row, Rows, RetryEvent, RetryEvents, Events, TypeInv, TypeOK
  <1>2. trail \in Seq(Rows) /\ trail' = trail \o <<r>>
    BY DEF Log, TypeInv, TypeOK
  <1> HIDE DEF r
  <1> QED BY <1>1, <1>2, DebitAfterNotice DEF NoticeInv

LEMMA NoticeStep == TypeInv /\ NoticeInv /\ [Next]_vars => NoticeInv'
  <1> SUFFICES ASSUME TypeInv, NoticeInv, [Next]_vars PROVE NoticeInv'
    OBVIOUS
  <1> USE PipelineAssumption
  <1>0. ASSUME NoticeBefore(trail'), UNCHANGED committed, pc' # "debit"
        PROVE  NoticeInv'
    BY <1>0 DEF NoticeInv
  <1>1. CASE NoteDuplicate \/ Reject \/ RejectInvalid \/ Receive \/ Score
               \/ RecordPromise \/ PromiseKept \/ PromiseBroken \/ Escalate
    <2>1. PICK r \in QuietRows : Log(<<r>>)
      <3>1. CASE NoteDuplicate
        BY <3>1, OtherRows DEF NoteDuplicate, TypeInv, TypeOK
      <3>2. CASE Reject
        BY <3>2, OtherRows DEF Reject
      <3>3. CASE RejectInvalid
        BY <3>3, OtherRows DEF RejectInvalid
      <3>4. CASE Receive
        BY <3>4, OtherRows DEF Receive, TypeInv, TypeOK
      <3>5. CASE Score
        BY <3>5, OtherRows DEF Score
      <3>6. CASE RecordPromise
        BY <3>6, OtherRows DEF RecordPromise, TypeInv, TypeOK
      <3>7. CASE PromiseKept
        BY <3>7, OtherRows DEF PromiseKept, TypeInv, TypeOK
      <3>8. CASE PromiseBroken
        BY <3>8, OtherRows DEF PromiseBroken, TypeInv, TypeOK
      <3>9. CASE Escalate
        BY <3>9, OtherRows DEF Escalate, TypeInv, TypeOK
      <3> QED BY <1>1, <3>1, <3>2, <3>3, <3>4, <3>5, <3>6, <3>7, <3>8, <3>9
    <2>2. NoticeBefore(trail')
      BY <2>1, QuietRowNotice DEF NoticeInv
    <2>3. UNCHANGED committed /\ pc' # "debit"
      BY <1>1
      DEF NoteDuplicate, Reject, RejectInvalid, Receive, Score, RecordPromise,
          PromiseKept, PromiseBroken, Escalate
    <2> QED BY <1>0, <2>2, <2>3
  <1>2. ASSUME NEW rows \in Seq(Rows), Attempts(rows) = {}, Log(rows),
               UNCHANGED committed, pc' # "debit"
        PROVE  NoticeInv'
    BY <1>0, <1>2, QuietRowsKeepNotices DEF NoticeInv, Log, TypeInv, TypeOK
  <1>3. CASE EscalateRevoked
    BY <1>2, <1>3, StrategyRowsType, StrategyRowsAreQuiet DEF EscalateRevoked
  <1>4. CASE BlockOverLimit \/ SelectReauth \/ SelectRetry
    <2>1. PICK rows \in Seq(Rows) : Attempts(rows) = {} /\ EnterLoop(rows)
      BY <1>4, StrategyRowsType, StrategyRowsAreQuiet
      DEF BlockOverLimit, SelectReauth, SelectRetry
    <2> QED BY <1>2, <2>1 DEF EnterLoop, LoopStart
  <1>5. CASE SendDunning
    <2>1. NoticeBefore(trail')
      <3>1. CASE dunning < DunningStages
        BY <1>5, <3>1, OtherRows, QuietRowNotice
        DEF SendDunning, NoticeInv, TypeInv, TypeOK
      <3>2. CASE ~(dunning < DunningStages)
        BY <1>5, <3>2 DEF SendDunning, Log, NoticeInv, TypeInv, TypeOK
      <3> QED BY <3>1, <3>2
    <2> QED BY <1>0, <1>5, <2>1 DEF SendDunning
  <1>6. CASE PreDebitNotification
    <2>1. PICK o \in {"success", "failure"} :
            Log(<<Row("pre_debit_notification", o, attempt, status)>>)
      BY <1>6 DEF PreDebitNotification
    <2> DEFINE r == Row("pre_debit_notification", o, attempt, status)
    <2>2. r \in QuietRows /\ r \in Rows
      BY OtherRows DEF TypeInv, TypeOK, QuietRows
    <2>3. NoticeBefore(trail')
      BY <2>1, <2>2, QuietRowNotice DEF NoticeInv
    <2>4. r.event = "pre_debit_notification" /\ r.attempt = attempt
      BY DEF Row
    <2>5. trail \in Seq(Rows) /\ trail' = trail \o <<r>>
      BY <2>1 DEF Log, TypeInv, TypeOK
    <2> HIDE DEF r
    <2>6. trail' # <<>> /\ trail'[Len(trail')] = r
      BY <2>2, <2>5
    <2> QED BY <1>6, <2>3, <2>4, <2>6 DEF PreDebitNotification, NoticeInv
  <1>7. CASE DebitSucceeds
    <2>1. NoticeBefore(trail')
      BY <1>7, DebitRowNotice DEF DebitSucceeds, Outcomes, CaseStatuses
    <2> QED BY <1>0, <1>7, <2>1 DEF DebitSucceeds
  <1>8. CASE DebitFails
    <2>1. NoticeBefore(trail')
      BY <1>8, DebitRowNotice DEF DebitFails, Outcomes, CaseStatuses
    <2> QED BY <1>0, <1>8, <2>1 DEF DebitFails
  <1>9. CASE NoPromise
    BY <1>9 DEF NoPromise, LoopStart, row, NoticeInv
  <1>10. CASE Commit
    <2>1. committed'.trail = trail /\ trail' = trail /\ pc' = "idle"
      BY <1>10 DEF Commit, row, View
    <2> QED BY <2>1 DEF NoticeInv
  <1>11. CASE GateRaises \/ Interrupt
    BY <1>11 DEF GateRaises, Interrupt, Rollback, NoticeInv
  <1>12. CASE Deliver \/ WebhookUpdatesRow
    BY <1>12 DEF Deliver, WebhookUpdatesRow, row, NoticeInv
  <1>13. CASE UNCHANGED vars
    BY <1>13 DEF vars, NoticeInv
  <1> QED
    BY <1>1, <1>3, <1>4, <1>5, <1>6, <1>7, <1>8, <1>9, <1>10, <1>11, <1>12, <1>13
    DEF Next, Handler, Gates, Strategy, Loop

\* No debit without the notice of its own attempt right before it.
THEOREM NoticeFirst == Spec => []NoticePrecedesDebit
  <1>1. Init => NoticeInv
    <2>1. NoticeBefore(<<>>)
      BY DEF NoticeBefore, Debits
    <2> QED BY <2>1 DEF Init, View, NoticeInv
  <1>2. NoticeInv => NoticePrecedesDebit
    BY DEF NoticeInv, NoticePrecedesDebit
  <1> QED BY <1>1, <1>2, InitType, TypeStep, NoticeStep, PTL DEF Spec

-------------------------------------------------------------------------------
(* The row and the trail. Each notice sets the badge, each stage logged is one  *)
(* stage counted, and a run that is ready to commit has just logged the case's *)
(* status.                                                                     *)

AtRest(s, t) == /\ t # <<>> => t[Len(t)].after = s
                /\ t = <<>> => s = "new"

Badge(t, c) ==
  \A i \in Notices(t) :
    (\A j \in Notices(t) : j <= i) =>
      c = IF t[i].outcome = "success" THEN "RBI-compliant" ELSE "non-compliant"

Staged(t, d) == d = Cardinality(Stages(t))

StoryInv ==
  /\ AtRest(committed.status, committed.trail)
  /\ committed.status = "new" => committed.trail = <<>>
  /\ Badge(trail, compliance) /\ Badge(committed.trail, committed.compliance)
  /\ Staged(trail, dunning) /\ Staged(committed.trail, committed.dunning)
  /\ pc = "commit" => trail # <<>> /\ trail[Len(trail)].after = status

IsNotice(r) == r.event = "pre_debit_notification"
IsStage(r)  == r.event = "dunning_stage"

\* The rows that the badge or the stage of the case's row goes by.
Tells(r) == IsNotice(r) \/ IsStage(r)

\* The others leave both alone.
LEMMA StoryRows ==
  ASSUME NEW t \in Seq(Rows), NEW rows \in Seq(Rows), NEW c, NEW d,
         \A i \in 1..Len(rows) : ~Tells(rows[i])
  PROVE  /\ Badge(t, c) => Badge(t \o rows, c)
         /\ Staged(t, d) => Staged(t \o rows, d)
  <1> DEFINE u == t \o rows
  <1>1. /\ Len(u) = Len(t) + Len(rows) /\ Len(t) \in Nat /\ Len(rows) \in Nat
        /\ \A i \in 1..Len(t) : u[i] = t[i]
        /\ \A i \in 1..Len(rows) : u[Len(t) + i] = rows[i]
    OBVIOUS
  <1> HIDE DEF u
  <1>2. ASSUME NEW i \in 1..Len(u), Tells(u[i]) PROVE i \in 1..Len(t)
    <2>1. CASE i \notin 1..Len(t)
      <3>1. i - Len(t) \in 1..Len(rows) /\ i = Len(t) + (i - Len(t))
        BY <1>1, <2>1
      <3> QED BY <1>1, <1>2, <3>1
    <2> QED BY <2>1
  <1>3. 1..Len(t) \subseteq 1..Len(u)
    BY <1>1
  <1>4. Notices(u) = Notices(t)
    BY <1>1, <1>2, <1>3 DEF Notices, Tells, IsNotice
  <1>5. \A i \in Notices(t) : u[i] = t[i]
    BY <1>1 DEF Notices
  <1>6. Badge(t, c) => Badge(u, c)
    BY <1>4, <1>5 DEF Badge
  <1>7. Stages(u) = Stages(t)
    BY <1>1, <1>2, <1>3 DEF Stages, Tells, IsStage
  <1> QED BY <1>6, <1>7 DEF Staged, u

LEMMA LastRow ==
  ASSUME NEW t \in Seq(Rows), NEW r \in Rows
  PROVE  t \o <<r>> # <<>> /\ (t \o <<r>>)[Len(t \o <<r>>)] = r
  OBVIOUS

\* What one row that is no notice does to the story.
LEMMA StoryRow ==
  ASSUME TypeInv, StoryInv, NEW r \in QuietRows, ~Tells(r), Log(<<r>>),
         UNCHANGED <<compliance, dunning>>
  PROVE  /\ Badge(trail', compliance') /\ Staged(trail', dunning')
         /\ trail' # <<>> /\ trail'[Len(trail')] = r
  <1>1. trail \in Seq(Rows) /\ trail' = trail \o <<r>> /\ r \in Rows
    BY DEF Log, TypeInv, TypeOK, QuietRows
  <1>2. <<r>> \in Seq(Rows) /\ \A i \in 1..Len(<<r>>) : ~Tells(<<r>>[i])
    BY <1>1
  <1>3. Badge(trail', compliance) /\ Staged(trail', dunning)
    BY <1>1, <1>2, StoryRows DEF StoryInv
  <1> QED BY <1>1, <1>3, LastRow

\* A notice sets the badge, as the last one of the trail, and sends no stage.
LEMMA NoticeSetsBadge ==
  ASSUME NEW t \in Seq(Rows), NEW r \in Rows, IsNotice(r), NEW d
  PROVE  /\ Badge(t \o <<r>>, IF r.outcome = "success" THEN "RBI-compliant"
                             ELSE "non-compliant")
         /\ Staged(t, d) => Staged(t \o <<r>>, d)
  <1> DEFINE u == t \o <<r>>
  <1>1. /\ Len(u) = Len(t) + 1 /\ Len(t) \in Nat
        /\ \A i \in 1..Len(t) : u[i] = t[i]
        /\ u[Len(u)] = r
    OBVIOUS
  <1> HIDE DEF u
  <1>2. Len(u) \in Notices(u)
    BY <1>1 DEF Notices, IsNotice
  <1>3. ASSUME NEW i \in Notices(u), \A j \in Notices(u) : j <= i PROVE u[i] = r
    <2>1. i \in 1..Len(u) /\ Len(u) <= i
      BY <1>2, <1>3 DEF Notices
    <2> QED BY <1>1, <2>1
  <1>4. Badge(u, IF r.outcome = "success" THEN "RBI-compliant" ELSE "non-compliant")
    BY <1>3 DEF Badge
  <1>5. \A i : i \in 1..Len(u) <=> i \in 1..Len(t) \/ i = Len(u)
    BY <1>1
  <1>6. Stages(u) = Stages(t)
    BY <1>1, <1>5 DEF Stages, IsNotice
  <1> QED BY <1>4, <1>6 DEF Staged, u

\* A stage that is logged is one more, and no notice.
LEMMA StageIsLogged ==
  ASSUME NEW t \in Seq(Rows), NEW r \in Rows, IsStage(r), NEW c, NEW d
  PROVE  /\ Badge(t, c) => Badge(t \o <<r>>, c)
         /\ Staged(t, d) => Staged(t \o <<r>>, d + 1)
  <1> DEFINE u == t \o <<r>>
  <1>1. /\ Len(u) = Len(t) + 1 /\ Len(t) \in Nat
        /\ \A i \in 1..Len(t) : u[i] = t[i]
        /\ u[Len(u)] = r
    OBVIOUS
  <1> HIDE DEF u
  <1>2. \A i : i \in 1..Len(u) <=> i \in 1..Len(t) \/ i = Len(u)
    BY <1>1
  <1>3. Notices(u) = Notices(t) /\ \A i \in Notices(t) : u[i] = t[i]
    BY <1>1, <1>2 DEF Notices, IsStage
  <1>4. Badge(t, c) => Badge(u, c)
    BY <1>3 DEF Badge
  <1>5. Stages(u) = Stages(t) \cup {Len(u)}
    BY <1>1, <1>2 DEF Stages, IsStage
  <1>6. Len(u) \notin Stages(t)
    BY <1>1 DEF Stages
  <1>7. IsFiniteSet(Stages(t))
    <2>1. IsFiniteSet(1..Len(t))
      BY <1>1, FS_Interval
    <2> QED BY <2>1, FS_Subset DEF Stages
  <1>8. Cardinality(Stages(u)) = Cardinality(Stages(t)) + 1
    BY <1>5, <1>6, <1>7, FS_AddElement
  <1> QED BY <1>4, <1>8 DEF Staged, u

LEMMA StoryStep ==
  TypeInv /\ GateInv /\ GateInv' /\ StoryInv /\ [Next]_vars => StoryInv'
  <1> SUFFICES ASSUME TypeInv, GateInv, GateInv', StoryInv, [Next]_vars
               PROVE  StoryInv'
    OBVIOUS
  <1> USE PipelineAssumption
  \* What a step that leaves the committed state alone has to show.
  <1> DEFINE Here ==
        /\ Badge(trail', compliance') /\ Staged(trail', dunning')
        /\ pc' = "commit" => trail' # <<>> /\ trail'[Len(trail')].after = status'
  <1>0. ASSUME UNCHANGED committed, Here PROVE StoryInv'
    BY <1>0 DEF StoryInv
  <1>1. CASE NoteDuplicate
    <2> DEFINE r == Row("webhook_duplicate", "n/a", 0, status)
    <2>1. r \in QuietRows /\ ~Tells(r) /\ r.after = status
      BY OtherRows DEF Tells, IsNotice, IsStage, Row, TypeInv, TypeOK
    <2>2. Log(<<r>>) /\ UNCHANGED <<compliance, dunning, committed, status>> /\ pc' = "commit"
      BY <1>1 DEF NoteDuplicate
    <2> HIDE DEF r
    <2> QED BY <1>0, <2>1, <2>2, StoryRow
  <1>2. CASE Reject
    <2> DEFINE r == Row("webhook_rejected", "rejected", 0, "rejected")
    <2>1. r \in QuietRows /\ ~Tells(r) /\ r.after = "rejected"
      BY OtherRows DEF Tells, IsNotice, IsStage, Row
    <2>2. /\ Log(<<r>>) /\ UNCHANGED <<compliance, dunning, committed>>
          /\ pc' = "commit" /\ status' = "rejected"
      BY <1>2 DEF Reject, SetStatus
    <2> HIDE DEF r
    <2> QED BY <1>0, <2>1, <2>2, StoryRow
  <1>3. CASE RejectInvalid
    <2> DEFINE r == Row("webhook_invalid", "rejected", 0, "invalid")
    <2>1. r \in QuietRows /\ ~Tells(r) /\ r.after = "invalid"
      BY OtherRows DEF Tells, IsNotice, IsStage, Row
    <2>2. /\ Log(<<r>>) /\ UNCHANGED <<compliance, dunning, committed>>
          /\ pc' = "commit" /\ status' = "invalid"
      BY <1>3 DEF RejectInvalid, SetStatus
    <2> HIDE DEF r
    <2> QED BY <1>0, <2>1, <2>2, StoryRow
  <1>4. CASE Receive
    <2> DEFINE r == Row("webhook_received", "n/a", 0, status)
    <2>1. r \in QuietRows /\ ~Tells(r)
      BY OtherRows DEF Tells, IsNotice, IsStage, Row, TypeInv, TypeOK
    <2>2. Log(<<r>>) /\ UNCHANGED <<compliance, dunning, committed>> /\ pc' = "score"
      BY <1>4 DEF Receive
    <2> HIDE DEF r
    <2> QED BY <1>0, <2>1, <2>2, StoryRow
  <1>5. CASE Score
    <2> DEFINE r == Row("score", "n/a", 0, "in_progress")
    <2>1. r \in QuietRows /\ ~Tells(r)
      BY OtherRows DEF Tells, IsNotice, IsStage, Row
    <2>2. Log(<<r>>) /\ UNCHANGED <<compliance, dunning, committed>> /\ pc' = "strategy"
      BY <1>5 DEF Score
    <2> HIDE DEF r
    <2> QED BY <1>0, <2>1, <2>2, StoryRow
  <1>6. ASSUME NEW rows \in Seq(Rows), \A i \in 1..Len(rows) : ~Tells(rows[i]),
               Log(rows), UNCHANGED <<compliance, dunning>>
        PROVE  Badge(trail', compliance') /\ Staged(trail', dunning')
    BY <1>6, StoryRows DEF StoryInv, Log, TypeInv, TypeOK
  <1>7. CASE EscalateRevoked
    <2> DEFINE rows == <<StrategyRow, Row("escalate", "n/a", 0, "escalated")>>
    <2>1. rows \in Seq(Rows) /\ \A i \in 1..Len(rows) : ~Tells(rows[i])
      BY StrategyRowsType DEF Tells, IsNotice, IsStage, StrategyRow, Row
    <2>2. Len(rows) = 2 /\ rows[2].after = "escalated"
      BY DEF Row
    <2>3. /\ Log(rows) /\ UNCHANGED <<compliance, dunning, committed>>
          /\ pc' = "commit" /\ status' = "escalated"
      BY <1>7 DEF EscalateRevoked, SetStatus
    <2> HIDE DEF rows
    <2>4. trail' # <<>> /\ trail'[Len(trail')] = rows[2]
      <3>1. trail \in Seq(Rows) /\ trail' = trail \o rows
        BY <2>3 DEF Log, TypeInv, TypeOK
      <3>2. /\ Len(trail') = Len(trail) + Len(rows) /\ Len(trail) \in Nat
            /\ \A i \in 1..Len(rows) : trail'[Len(trail) + i] = rows[i]
        BY <2>1, <3>1
      <3>3. Len(trail') = Len(trail) + 2 /\ trail'[Len(trail) + 2] = rows[2]
        BY <2>2, <3>2
      <3>4. Len(trail') # 0 /\ Len(<<>>) = 0
        BY <3>2, <3>3
      <3> QED BY <3>3, <3>4
    <2> QED BY <1>0, <1>6, <2>1, <2>2, <2>3, <2>4
  <1>8. ASSUME NEW rows \in Seq(Rows), \A i \in 1..Len(rows) : ~Tells(rows[i]),
               EnterLoop(rows)
        PROVE  StoryInv'
    <2>1. /\ Log(rows) /\ UNCHANGED <<compliance, dunning, committed>>
          /\ pc' \in {"notice", "dunning"}
      BY <1>8 DEF EnterLoop, LoopStart
    <2> QED BY <1>0, <1>6, <1>8, <2>1
  <1>9. CASE BlockOverLimit \/ SelectReauth \/ SelectRetry
    <2>1. /\ ~Tells(StrategyRow) /\ ~Tells(ReauthRow) /\ ~Tells(LimitRow)
      BY DEF Tells, IsNotice, IsStage, StrategyRow, ReauthRow, LimitRow, Row
    <2>2. /\ \A i \in 1..Len(<<StrategyRow>>) : ~Tells(<<StrategyRow>>[i])
          /\ \A i \in 1..Len(<<StrategyRow, ReauthRow>>) :
               ~Tells(<<StrategyRow, ReauthRow>>[i])
          /\ \A i \in 1..Len(<<LimitRow, StrategyRow, ReauthRow>>) :
               ~Tells(<<LimitRow, StrategyRow, ReauthRow>>[i])
      BY <2>1
    <2> QED BY <1>8, <1>9, <2>2, StrategyRowsType DEF BlockOverLimit, SelectReauth, SelectRetry
  <1>10. CASE SendDunning
    <2>1. UNCHANGED <<compliance, committed>> /\ pc' = "notice"
      BY <1>10 DEF SendDunning
    <2>2. CASE dunning < DunningStages
      <3> DEFINE r == Row("dunning_stage", "pending", attempt, status)
      <3>1. r \in Rows /\ IsStage(r)
        BY OtherRows DEF QuietRows, IsStage, Row, TypeInv, TypeOK
      <3>2. Log(<<r>>) /\ dunning' = dunning + 1
        BY <1>10, <2>2 DEF SendDunning
      <3> HIDE DEF r
      <3>3. trail \in Seq(Rows) /\ trail' = trail \o <<r>>
        BY <3>2 DEF Log, TypeInv, TypeOK
      <3>4. Badge(trail', compliance') /\ Staged(trail', dunning')
        BY <2>1, <3>1, <3>2, <3>3, StageIsLogged DEF StoryInv
      <3> QED BY <1>0, <2>1, <3>4
    <2>3. CASE ~(dunning < DunningStages)
      <3>1. trail' = trail /\ dunning' = dunning
        BY <1>10, <2>3 DEF SendDunning, Log, TypeInv, TypeOK
      <3> QED BY <1>0, <2>1, <3>1 DEF StoryInv
    <2> QED BY <2>2, <2>3
  <1>11. CASE PreDebitNotification
    <2>1. PICK c \in {"RBI-compliant", "non-compliant"} :
            /\ compliance' = c
            /\ Log(<<Row("pre_debit_notification",
                         IF c = "RBI-compliant" THEN "success" ELSE "failure",
                         attempt, status)>>)
      BY <1>11 DEF PreDebitNotification
    <2> DEFINE r == Row("pre_debit_notification",
                        IF c = "RBI-compliant" THEN "success" ELSE "failure",
                        attempt, status)
    <2>2. r \in Rows
      BY OtherRows DEF TypeInv, TypeOK, QuietRows
    <2>3. /\ IsNotice(r)
          /\ c = IF r.outcome = "success" THEN "RBI-compliant" ELSE "non-compliant"
      BY DEF Row, IsNotice
    <2>4. trail \in Seq(Rows) /\ trail' = trail \o <<r>>
      BY <2>1 DEF Log, TypeInv, TypeOK
    <2>5. UNCHANGED <<dunning, committed>> /\ pc' = "debit"
      BY <1>11 DEF PreDebitNotification
    <2> HIDE DEF r
    <2>6. Badge(trail', compliance') /\ Staged(trail', dunning')
      BY <2>1, <2>2, <2>3, <2>4, <2>5, NoticeSetsBadge DEF StoryInv
    <2> QED BY <1>0, <2>5, <2>6
  <1>12. ASSUME NEW o \in Outcomes, NEW s \in CaseStatuses,
                Log(<<Row(RetryEvent, o, attempt, s)>>), UNCHANGED <<compliance, dunning>>
         PROVE  /\ Badge(trail', compliance') /\ Staged(trail', dunning')
                /\ trail' # <<>> /\ trail'[Len(trail')].after = s
    <2> DEFINE r == Row(RetryEvent, o, attempt, s)
    <2>1. r \in Rows /\ r.after = s /\ ~Tells(r)
      BY DEF Row, Rows, RetryEvent, RetryEvents, Events, Tells, IsNotice, IsStage, TypeInv, TypeOK
    <2>2. trail \in Seq(Rows) /\ trail' = trail \o <<r>>
      BY <1>12 DEF Log, TypeInv, TypeOK
    <2> HIDE DEF r
    <2>3. <<r>> \in Seq(Rows) /\ \A i \in 1..Len(<<r>>) : ~Tells(<<r>>[i])
      BY <2>1
    <2>4. Badge(trail', compliance') /\ Staged(trail', dunning')
      BY <1>12, <2>2, <2>3, StoryRows DEF StoryInv
    <2> QED BY <2>1, <2>2, <2>4, LastRow
  <1>13. CASE DebitSucceeds
    <2>1. /\ Log(<<Row(RetryEvent, "success", attempt, "recovered")>>)
          /\ UNCHANGED <<compliance, dunning, committed>>
          /\ pc' = "commit" /\ status' = "recovered"
      BY <1>13 DEF DebitSucceeds, SetStatus
    <2>2. "success" \in Outcomes /\ "recovered" \in CaseStatuses
      BY DEF Outcomes, CaseStatuses
    <2> QED BY <1>0, <1>12, <2>1, <2>2
  <1>14. CASE DebitFails
    <2>1. /\ Log(<<Row(RetryEvent, "failure", attempt, "in_progress")>>)
          /\ UNCHANGED <<compliance, dunning, committed>>
          /\ pc' \in {"escalate", "offer"}
      BY <1>14 DEF DebitFails
    <2>2. "failure" \in Outcomes /\ "in_progress" \in CaseStatuses
      BY DEF Outcomes, CaseStatuses
    <2> QED BY <1>0, <1>12, <2>1, <2>2
  <1>15. CASE NoPromise
    <2>1. /\ UNCHANGED <<trail, compliance, dunning, committed>>
          /\ pc' \in {"notice", "dunning"}
      BY <1>15 DEF NoPromise, LoopStart, row
    <2> QED BY <1>0, <2>1 DEF StoryInv
  <1>16. CASE RecordPromise
    <2> DEFINE r == Row("promise_recorded", "pending", attempt, "promised")
    <2>1. r \in QuietRows /\ ~Tells(r)
      BY OtherRows DEF Tells, IsNotice, IsStage, Row, TypeInv, TypeOK
    <2>2. /\ Log(<<r>>) /\ UNCHANGED <<compliance, dunning, committed>>
          /\ pc' = "promise"
      BY <1>16 DEF RecordPromise
    <2> HIDE DEF r
    <2> QED BY <1>0, <2>1, <2>2, StoryRow
  <1>17. CASE PromiseKept
    <2> DEFINE r == Row("promise_kept", "success", attempt, "recovered")
    <2>1. r \in QuietRows /\ ~Tells(r) /\ r.after = "recovered"
      BY OtherRows DEF Tells, IsNotice, IsStage, Row, TypeInv, TypeOK
    <2>2. /\ Log(<<r>>) /\ UNCHANGED <<compliance, dunning, committed>>
          /\ pc' = "commit" /\ status' = "recovered"
      BY <1>17 DEF PromiseKept, SetStatus
    <2> HIDE DEF r
    <2> QED BY <1>0, <2>1, <2>2, StoryRow
  <1>18. CASE PromiseBroken
    <2> DEFINE r == Row("promise_broken", "failure", attempt, "broken_promise")
    <2>1. r \in QuietRows /\ ~Tells(r)
      BY OtherRows DEF Tells, IsNotice, IsStage, Row, TypeInv, TypeOK
    <2>2. /\ Log(<<r>>) /\ UNCHANGED <<compliance, dunning, committed>>
          /\ pc' = "notice"
      BY <1>18 DEF PromiseBroken
    <2> HIDE DEF r
    <2> QED BY <1>0, <2>1, <2>2, StoryRow
  <1>19. CASE Escalate
    <2> DEFINE r == Row("escalate", "n/a", attempt, "escalated")
    <2>1. r \in QuietRows /\ ~Tells(r) /\ r.after = "escalated"
      BY OtherRows DEF Tells, IsNotice, IsStage, Row, TypeInv, TypeOK
    <2>2. /\ Log(<<r>>) /\ UNCHANGED <<compliance, dunning, committed>>
          /\ pc' = "commit" /\ status' = "escalated"
      BY <1>19 DEF Escalate, SetStatus
    <2> HIDE DEF r
    <2> QED BY <1>0, <2>1, <2>2, StoryRow
  <1>20. CASE Commit
    <2>1. /\ committed' = View /\ UNCHANGED row /\ pc' = "idle" /\ pc = "commit"
      BY <1>20 DEF Commit
    <2>2. /\ committed'.status = status /\ committed'.trail = trail
          /\ committed'.dunning = dunning /\ committed'.compliance = compliance
      BY <2>1 DEF View
    <2>3. trail # <<>> /\ trail[Len(trail)].after = status
      BY <2>1 DEF StoryInv
    <2>4. status # "new"
      <3>1. Settled(committed.trail) => committed.status # "new"
        BY NothingDebited DEF StoryInv
      <3>2. Resolved
        BY <2>1 DEF GateInv
      <3> QED BY <3>1, <3>2 DEF Resolved, TerminalAuditStatuses
    <2> QED BY <2>1, <2>2, <2>3, <2>4 DEF StoryInv, AtRest, row
  <1>21. CASE GateRaises \/ Interrupt
    BY <1>21 DEF GateRaises, Interrupt, Rollback, StoryInv
  <1>22. CASE Deliver
    BY <1>22 DEF Deliver, row, StoryInv
  <1>23. CASE WebhookUpdatesRow
    BY <1>23 DEF WebhookUpdatesRow, row, StoryInv
  <1>24. CASE UNCHANGED vars
    BY <1>24 DEF vars, StoryInv
  <1> QED
    BY <1>1, <1>2, <1>3, <1>4, <1>5, <1>7, <1>9, <1>10, <1>11, <1>13, <1>14,
       <1>15, <1>16, <1>17, <1>18, <1>19, <1>20, <1>21, <1>22, <1>23, <1>24
    DEF Next, Handler, Gates, Strategy, Loop

LEMMA InitStory == Init => StoryInv
  <1> SUFFICES ASSUME Init PROVE StoryInv
    OBVIOUS
  <1>1. /\ status = "new" /\ dunning = 0 /\ trail = <<>> /\ pc = "idle"
        /\ committed.status = "new" /\ committed.dunning = 0 /\ committed.trail = <<>>
    BY DEF Init, View
  <1>2. \A c : Badge(<<>>, c)
    BY DEF Badge, Notices
  <1>3. Staged(<<>>, 0)
    <2>1. Stages(<<>>) = {}
      BY DEF Stages
    <2> QED BY <2>1, FS_EmptySet DEF Staged
  <1> QED BY <1>1, <1>2, <1>3 DEF StoryInv, AtRest

\* The row and the audit trail tell the same story at every commit and after
\* every rollback: the last row's status, the compliance badge of the last
\* pre-debit notice, and as many dunning_stage rows as stages are counted.
THEOREM TrailTellsTheRow == Spec => []AuditAgreesWithRow
  <1>1. TypeInv /\ GateInv /\ StoryInv => AuditAgreesWithRow
    <2> SUFFICES ASSUME TypeInv, GateInv, StoryInv, pc = "idle"
                 PROVE  /\ trail # <<>> => trail[Len(trail)].after = status
                        /\ trail = <<>> => status = "new"
                        /\ Badge(trail, compliance) /\ Staged(trail, dunning)
      BY DEF AuditAgreesWithRow, Badge, Staged
    <2>1. committed.status = status /\ committed.trail = trail
      BY ViewIsCommitted DEF GateInv
    <2> QED BY <2>1 DEF StoryInv, AtRest
  <1>2. TypeInv /\ GateInv /\ GateInv' /\ StoryInv /\ [Next]_vars => StoryInv'
    BY StoryStep
  <1> QED BY <1>1, <1>2, InitStory, Inductive, PTL DEF Spec

-------------------------------------------------------------------------------
(* The automated audit. A worked case is no revoked mandate, and above the     *)
(* limit its trail holds the block; a rejected one holds its one rejection.    *)

Looping == {"dunning", "notice", "debit", "offer", "promise", "escalate"}

\* What rules 1 and 5 want of a case that was worked.
Blocked(t) == Of({"mandate_limit_block"}, t) # {} /\ Of({"silent_retry"}, t) = {}

Worked == input.reason # "mandate_revoked" /\ (input.overLimit => Blocked(trail))

Isolated(t) == /\ \E i \in DOMAIN t : Of({"webhook_rejected"}, t) = {i}
               /\ Of(PIPELINE_EVENT_TYPES, t) = {}

AuditInv ==
  /\ pc \in Looping => Worked
  /\ pc = "commit" =>
       \/ trail[Len(trail)].event = "webhook_duplicate"
       \/ status \in {"rejected", "invalid"} /\ Attempts(trail) = {}
       \/ /\ status = "escalated" /\ input.reason = "mandate_revoked"
          /\ Attempts(trail) = {}
       \/ Worked
  /\ pc = "commit" /\ status = "rejected" => Isolated(trail)
  /\ committed.status = "rejected" => Isolated(committed.trail)

\* The rows of some types in a trail with more rows appended.
LEMMA OfAppended ==
  ASSUME NEW types, NEW t \in Seq(Rows), NEW rows \in Seq(Rows)
  PROVE  /\ Of(types, t \o rows) = {} <=> Of(types, t) = {} /\ Of(types, rows) = {}
         /\ Of(types, rows) = {} => Of(types, t \o rows) = Of(types, t)
  <1> DEFINE u == t \o rows
  <1>1. /\ Len(u) = Len(t) + Len(rows) /\ Len(t) \in Nat /\ Len(rows) \in Nat
        /\ DOMAIN u = 1..Len(u) /\ DOMAIN t = 1..Len(t) /\ DOMAIN rows = 1..Len(rows)
        /\ \A i \in 1..Len(t) : u[i] = t[i]
        /\ \A i \in 1..Len(rows) : u[Len(t) + i] = rows[i]
    OBVIOUS
  <1> HIDE DEF u
  <1>2. Of(types, t) \subseteq Of(types, u)
    BY <1>1 DEF Of
  <1>3. ASSUME NEW i \in Of(types, rows) PROVE Len(t) + i \in Of(types, u)
    BY <1>1, <1>3 DEF Of
  <1>4. ASSUME NEW i \in Of(types, u), i \notin Of(types, t)
        PROVE  i - Len(t) \in Of(types, rows)
    <2>1. i \in 1..Len(u) /\ u[i].event \in types /\ i \notin 1..Len(t)
      BY <1>1, <1>4 DEF Of
    <2>2. i - Len(t) \in 1..Len(rows) /\ i = Len(t) + (i - Len(t))
      BY <1>1, <2>1
    <2>3. rows[i - Len(t)] = u[i]
      BY <1>1, <2>2
    <2> QED BY <1>1, <2>1, <2>2, <2>3 DEF Of
  <1>5. Of(types, rows) = {} => Of(types, u) = Of(types, t)
    BY <1>2, <1>4
  <1> QED BY <1>2, <1>3, <1>4, <1>5 DEF u

LEMMA OneRowOf ==
  ASSUME NEW types, NEW r \in Rows
  PROVE  Of(types, <<r>>) = IF r.event \in types THEN {1} ELSE {}
  <1>1. DOMAIN <<r>> = {1} /\ <<r>>[1] = r
    OBVIOUS
  <1> QED BY <1>1 DEF Of

\* The debits of a trail, as the audit and as the pipeline count them.
LEMMA NoDebits ==
  ASSUME NEW t \in Seq(Rows), Attempts(t) = {}
  PROVE  Of(RETRY_EVENT_TYPES, t) = {} /\ Of({"silent_retry"}, t) = {}
  <1>1. DOMAIN t = 1..Len(t)
    OBVIOUS
  <1>2. Debits(t) = {}
    BY DEF Attempts
  <1> QED BY <1>1, <1>2 DEF Of, Debits, IsDebit, RetryEvents, RETRY_EVENT_TYPES

\* A row that is no silent retry above the limit keeps a case worked.
LEMMA WorkedRow ==
  ASSUME TypeInv, Worked, NEW r \in Rows, r.event # "silent_retry" \/ ~input.overLimit,
         Log(<<r>>), UNCHANGED input
  PROVE  Worked'
  <1>1. trail \in Seq(Rows) /\ trail' = trail \o <<r>> /\ <<r>> \in Seq(Rows)
    BY DEF Log, TypeInv, TypeOK
  <1>2. CASE input.overLimit
    <2>1. Of({"silent_retry"}, <<r>>) = {}
      BY <1>2, OneRowOf
    <2> QED BY <1>1, <1>2, <2>1, OfAppended DEF Worked, Blocked
  <1>3. CASE ~input.overLimit
    BY <1>3 DEF Worked
  <1> QED BY <1>2, <1>3

\* A rejection starts the trail of a case, and only duplicates follow it.
LEMMA RejectionIsIsolated ==
  /\ Isolated(<<Row("webhook_rejected", "rejected", 0, "rejected")>>)
  /\ \A t \in Seq(Rows) : \A s \in CaseStatuses :
       Isolated(t) => Isolated(t \o <<Row("webhook_duplicate", "n/a", 0, s)>>)
  <1>1. Isolated(<<Row("webhook_rejected", "rejected", 0, "rejected")>>)
    <2> DEFINE r == Row("webhook_rejected", "rejected", 0, "rejected")
    <2>1. r \in Rows /\ r.event = "webhook_rejected"
      BY SettlingRows DEF Row
    <2> HIDE DEF r
    <2>2. Of({"webhook_rejected"}, <<r>>) = {1} /\ DOMAIN <<r>> = {1}
      BY <2>1, OneRowOf
    <2>3. Of(PIPELINE_EVENT_TYPES, <<r>>) = {}
      BY <2>1, OneRowOf DEF PIPELINE_EVENT_TYPES
    <2>4. Isolated(<<r>>)
      BY <2>2, <2>3 DEF Isolated
    <2> QED BY <2>4 DEF r
  <1>2. ASSUME NEW t \in Seq(Rows), NEW s \in CaseStatuses, Isolated(t)
        PROVE  Isolated(t \o <<Row("webhook_duplicate", "n/a", 0, s)>>)
    <2> DEFINE r == Row("webhook_duplicate", "n/a", 0, s)
    <2>0. r \in Rows /\ r.event = "webhook_duplicate"
      BY OtherRows DEF Row, QuietRows
    <2> HIDE DEF r
    <2>1. r \in Rows /\ r.event = "webhook_duplicate" /\ <<r>> \in Seq(Rows)
      BY <2>0
    <2>2. Of({"webhook_rejected"}, <<r>>) = {} /\ Of(PIPELINE_EVENT_TYPES, <<r>>) = {}
      BY <2>1, OneRowOf DEF PIPELINE_EVENT_TYPES
    <2>3. /\ Of({"webhook_rejected"}, t \o <<r>>) = Of({"webhook_rejected"}, t)
          /\ Of(PIPELINE_EVENT_TYPES, t \o <<r>>) = {}
      BY <1>2, <2>1, <2>2, OfAppended DEF Isolated
    <2>4. DOMAIN t \subseteq DOMAIN (t \o <<r>>)
      <3>1. /\ DOMAIN t = 1..Len(t) /\ Len(t) \in Nat
            /\ DOMAIN (t \o <<r>>) = 1..(Len(t) + 1)
        BY <2>1
      <3> QED BY <3>1
    <2>5. Isolated(t \o <<r>>)
      BY <1>2, <2>3, <2>4 DEF Isolated
    <2> QED BY <2>5 DEF r
  <1> QED BY <1>1, <1>2

\* The strategies that enter the loop above the limit log the block.
LEMMA StrategyWorks ==
  ASSUME TypeInv, NEW rows \in Seq(Rows), EnterLoop(rows), Attempts(trail) = {},
         Attempts(rows) = {}, input.reason # "mandate_revoked",
         input.overLimit => Of({"mandate_limit_block"}, rows) # {}
  PROVE  Worked'
  <1>1. trail \in Seq(Rows) /\ trail' = trail \o rows /\ input' = input
    BY DEF EnterLoop, Log, TypeInv, TypeOK
  <1>2. Of({"silent_retry"}, trail) = {} /\ Of({"silent_retry"}, rows) = {}
    BY <1>1, NoDebits
  <1>3. Of({"silent_retry"}, trail') = {}
    BY <1>1, <1>2, OfAppended
  <1>4. input.overLimit => Of({"mandate_limit_block"}, trail') # {}
    BY <1>1, OfAppended
  <1> QED BY <1>1, <1>3, <1>4 DEF Worked, Blocked

\* A case that is rejected was new, and had no trail.
LEMMA RejectedWasNew ==
  ASSUME TypeInv, GateInv, StoryInv, Reject
  PROVE  trail = <<>>
  <1>1. ~Settled(committed.trail) /\ committed.status = status /\ committed.trail = trail
    BY ViewIsCommitted DEF Reject, GateInv, HasTerminalAudit, Settled
  <1>2. committed.status = "new"
    BY <1>1
    DEF Reject, GateInv, SetStatus, CanSet, IsLegalTransition, LegalTransitions,
        CaseStatuses, TerminalStatuses, TerminalAuditStatuses
  <1> QED BY <1>1, <1>2 DEF StoryInv

LEMMA AuditStep ==
  TypeInv /\ TypeInv' /\ GateInv /\ DebitInv /\ DebitInv' /\ StoryInv /\ AuditInv /\ [Next]_vars
    => AuditInv'
  <1> SUFFICES ASSUME TypeInv, TypeInv', GateInv, DebitInv, DebitInv', StoryInv, AuditInv, [Next]_vars
               PROVE  AuditInv'
    OBVIOUS
  <1> USE PipelineAssumption
  <1>1. ASSUME UNCHANGED committed, pc' \notin Looping, pc' # "commit" PROVE AuditInv'
    BY <1>1 DEF AuditInv
  <1>2. ASSUME UNCHANGED committed, pc' \in Looping, Worked' PROVE AuditInv'
    BY <1>2 DEF AuditInv, Looping
  <1>3. ASSUME UNCHANGED committed, pc' = "commit", status' # "rejected", Worked'
        PROVE  AuditInv'
    BY <1>3 DEF AuditInv, Looping
  <1>4. CASE NoteDuplicate
    <2>1. /\ UNCHANGED <<committed, status>> /\ pc' = "commit"
          /\ trail' = trail \o <<Row("webhook_duplicate", "n/a", 0, status)>>
          /\ trail = committed.trail /\ status = committed.status
      BY <1>4, ViewIsCommitted DEF NoteDuplicate, Log, GateInv
    <2>2. /\ Row("webhook_duplicate", "n/a", 0, status) \in Rows
          /\ trail \in Seq(Rows) /\ status \in CaseStatuses
      BY OtherRows DEF TypeInv, TypeOK, QuietRows
    <2>3. trail'[Len(trail')].event = "webhook_duplicate"
      BY <2>1, <2>2, LastRow DEF Row
    <2>4. status' = "rejected" => Isolated(trail')
      BY <2>1, <2>2, RejectionIsIsolated DEF AuditInv
    <2> QED BY <2>1, <2>3, <2>4 DEF AuditInv, Looping
  <1>5. CASE Reject
    <2>1. /\ UNCHANGED committed /\ pc' = "commit" /\ status' = "rejected"
          /\ trail' = trail \o <<Row("webhook_rejected", "rejected", 0, "rejected")>>
      BY <1>5 DEF Reject, SetStatus, Log
    <2>2. trail' = <<Row("webhook_rejected", "rejected", 0, "rejected")>>
      BY <1>5, <2>1, RejectedWasNew
    <2>3. Isolated(trail')
      BY <2>2, RejectionIsIsolated
    <2>4. Attempts(trail') = {}
      <3>1. /\ Row("webhook_rejected", "rejected", 0, "rejected") \in Rows
            /\ ~IsDebit(Row("webhook_rejected", "rejected", 0, "rejected"))
        BY OtherRows DEF QuietRows
      <3> QED BY <2>2, <3>1, OneRow
    <2> QED BY <2>1, <2>3, <2>4 DEF AuditInv, Looping
  <1>6. CASE RejectInvalid
    <2>1. /\ UNCHANGED committed /\ pc' = "commit" /\ status' = "invalid"
      BY <1>6 DEF RejectInvalid, SetStatus
    <2>2. Attempts(trail') = Attempts(trail)
      BY <1>6, OtherRows, QuietRow DEF RejectInvalid, DebitInv
    <2>3. Attempts(trail) = {}
      BY <1>6, UnsettledAtGate DEF RejectInvalid
    <2> QED BY <2>1, <2>2, <2>3 DEF AuditInv, Looping
  <1>7. CASE Receive \/ Score
    BY <1>1, <1>7 DEF Receive, Score, Looping
  <1>8. CASE EscalateRevoked
    <2>1. /\ UNCHANGED <<input, committed>> /\ pc' = "commit" /\ status' = "escalated"
          /\ input.reason = "mandate_revoked" /\ pc = "strategy"
      BY <1>8 DEF EscalateRevoked, SetStatus
    <2>2. Attempts(trail') = Attempts(trail) /\ Attempts(trail) = {}
      BY <1>8, <2>1, QuietLog, StrategyRowsType, StrategyRowsAreQuiet
      DEF EscalateRevoked, DebitInv
    <2> QED BY <2>1, <2>2 DEF AuditInv, Looping
  <1>9. CASE BlockOverLimit \/ SelectReauth \/ SelectRetry
    <2>1. Attempts(trail) = {}
      BY <1>9 DEF BlockOverLimit, SelectReauth, SelectRetry, DebitInv
    <2>2. Of({"mandate_limit_block"}, <<LimitRow, StrategyRow, ReauthRow>>) # {}
      <3>1. /\ 1 \in DOMAIN <<LimitRow, StrategyRow, ReauthRow>>
            /\ <<LimitRow, StrategyRow, ReauthRow>>[1] = LimitRow
        OBVIOUS
      <3> QED BY <3>1 DEF Of, LimitRow, Row
    <2>3. PICK rows \in Seq(Rows) :
            /\ EnterLoop(rows) /\ Attempts(rows) = {} /\ input.reason # "mandate_revoked"
            /\ input.overLimit => Of({"mandate_limit_block"}, rows) # {}
      <3>1. CASE BlockOverLimit
        BY <2>2, <3>1, StrategyRowsType, StrategyRowsAreQuiet DEF BlockOverLimit
      <3>2. CASE SelectReauth
        BY <3>2, StrategyRowsType, StrategyRowsAreQuiet DEF SelectReauth
      <3>3. CASE SelectRetry
        BY <3>3, StrategyRowsType, StrategyRowsAreQuiet DEF SelectRetry
      <3> QED BY <1>9, <3>1, <3>2, <3>3
    <2>4. Worked'
      BY <2>1, <2>3, StrategyWorks
    <2>5. UNCHANGED committed /\ pc' \in Looping
      BY <2>3 DEF EnterLoop, LoopStart, Looping
    <2> QED BY <1>2, <2>4, <2>5
  <1>10. ASSUME pc \in Looping, UNCHANGED <<input, committed>>,
                NEW r \in QuietRows, Log(<<r>>),
                pc' \in Looping \/ (pc' = "commit" /\ status' # "rejected")
         PROVE  AuditInv'
    <2>1. r \in Rows /\ r.event # "silent_retry"
      BY DEF QuietRows, IsDebit, RetryEvents
    <2>2. Worked'
      BY <1>10, <2>1, WorkedRow DEF AuditInv
    <2> QED BY <1>2, <1>3, <1>10, <2>2
  <1>11. ASSUME pc \in Looping, UNCHANGED <<input, committed>>,
                NEW o \in Outcomes, NEW s \in CaseStatuses,
                Log(<<Row(RetryEvent, o, attempt, s)>>),
                pc' \in Looping \/ (pc' = "commit" /\ status' # "rejected")
         PROVE  AuditInv'
    <2> DEFINE r == Row(RetryEvent, o, attempt, s)
    <2>1. r \in Rows
      BY DEF Row, Rows, RetryEvent, RetryEvents, Events, TypeInv, TypeOK
    <2>2. r.event # "silent_retry" \/ ~input.overLimit
      BY DEF Row, RetryEvent, Silent
    <2>3. Log(<<r>>)
      BY <1>11
    <2> HIDE DEF r
    <2>4. Worked'
      BY <1>11, <2>1, <2>2, <2>3, WorkedRow DEF AuditInv
    <2> QED BY <1>2, <1>3, <1>11, <2>4
  <1>12. CASE SendDunning
    <2>1. /\ pc \in Looping /\ pc' \in Looping /\ UNCHANGED <<input, committed>>
      BY <1>12 DEF SendDunning, Looping
    <2>2. CASE dunning < DunningStages
      BY <1>10, <1>12, <2>1, <2>2, OtherRows DEF SendDunning, TypeInv, TypeOK
    <2>3. CASE ~(dunning < DunningStages)
      <3>1. trail' = trail
        BY <1>12, <2>3 DEF SendDunning, Log, TypeInv, TypeOK
      <3> QED BY <1>2, <2>1, <3>1 DEF AuditInv, Worked
    <2> QED BY <2>2, <2>3
  <1>13. CASE PreDebitNotification
    <2>1. PICK o \in {"success", "failure"} :
            Log(<<Row("pre_debit_notification", o, attempt, status)>>)
      BY <1>13 DEF PreDebitNotification
    <2>2. Row("pre_debit_notification", o, attempt, status) \in QuietRows
      BY OtherRows DEF TypeInv, TypeOK
    <2>3. pc \in Looping /\ pc' \in Looping /\ UNCHANGED <<input, committed>>
      BY <1>13 DEF PreDebitNotification, Looping
    <2> QED BY <1>10, <2>1, <2>2, <2>3
  <1>14. CASE DebitSucceeds
    <2>1. /\ pc \in Looping /\ UNCHANGED <<input, committed>>
          /\ pc' = "commit" /\ status' = "recovered"
          /\ Log(<<Row(RetryEvent, "success", attempt, "recovered")>>)
      BY <1>14 DEF DebitSucceeds, SetStatus, Looping
    <2>2. "success" \in Outcomes /\ "recovered" \in CaseStatuses
      BY DEF Outcomes, CaseStatuses
    <2> QED BY <1>11, <2>1, <2>2
  <1>15. CASE DebitFails
    <2>1. /\ pc \in Looping /\ UNCHANGED <<input, committed>> /\ pc' \in Looping
          /\ Log(<<Row(RetryEvent, "failure", attempt, "in_progress")>>)
      BY <1>15 DEF DebitFails, Looping
    <2>2. "failure" \in Outcomes /\ "in_progress" \in CaseStatuses
      BY DEF Outcomes, CaseStatuses
    <2> QED BY <1>11, <2>1, <2>2
  <1>16. CASE NoPromise
    <2>1. pc \in Looping /\ pc' \in Looping /\ UNCHANGED <<input, committed, trail>>
      BY <1>16 DEF NoPromise, LoopStart, Looping, row
    <2> QED BY <1>2, <2>1 DEF AuditInv, Worked
  <1>17. CASE RecordPromise
    <2>1. pc \in Looping /\ pc' \in Looping /\ UNCHANGED <<input, committed>>
      BY <1>17 DEF RecordPromise, Looping
    <2> QED BY <1>10, <1>17, <2>1, OtherRows DEF RecordPromise, TypeInv, TypeOK
  <1>18. CASE PromiseKept
    <2>1. /\ pc \in Looping /\ UNCHANGED <<input, committed>>
          /\ pc' = "commit" /\ status' = "recovered"
      BY <1>18 DEF PromiseKept, SetStatus, Looping
    <2> QED BY <1>10, <1>18, <2>1, OtherRows DEF PromiseKept, TypeInv, TypeOK
  <1>19. CASE PromiseBroken
    <2>1. pc \in Looping /\ pc' \in Looping /\ UNCHANGED <<input, committed>>
      BY <1>19 DEF PromiseBroken, Looping
    <2> QED BY <1>10, <1>19, <2>1, OtherRows DEF PromiseBroken, TypeInv, TypeOK
  <1>20. CASE Escalate
    <2>1. /\ pc \in Looping /\ UNCHANGED <<input, committed>>
          /\ pc' = "commit" /\ status' = "escalated"
      BY <1>20 DEF Escalate, SetStatus, Looping
    <2> QED BY <1>10, <1>20, <2>1, OtherRows DEF Escalate, TypeInv, TypeOK
  <1>21. CASE Commit
    <2>1. /\ pc = "commit" /\ pc' = "idle"
          /\ committed'.status = status /\ committed'.trail = trail
      BY <1>21 DEF Commit, View
    <2> QED BY <2>1 DEF AuditInv, Looping
  <1>22. CASE GateRaises \/ Interrupt \/ Deliver \/ WebhookUpdatesRow
    BY <1>1, <1>22 DEF GateRaises, Interrupt, Rollback, Deliver, WebhookUpdatesRow, Looping
  <1>23. CASE UNCHANGED vars
    BY <1>23 DEF vars, AuditInv, Worked
  <1> QED
    BY <1>4, <1>5, <1>6, <1>7, <1>8, <1>9, <1>12, <1>13, <1>14, <1>15, <1>16,
       <1>17, <1>18, <1>19, <1>20, <1>21, <1>22, <1>23
    DEF Next, Handler, Gates, Strategy, Loop

\* Rules 2 and 3 of a trail whose debits are numbered 1, ..., k, each after its
\* notice.
LEMMA NumberedDebitsPass ==
  ASSUME MaxRetries <= MAX_RETRIES, NEW t \in Seq(Rows), Ordered(t), NoticeBefore(t),
         NEW k \in 0..MaxRetries, Attempts(t) = 1..k
  PROVE  WithinRetryCap(t) /\ PreDebitBeforeRetry(t)
  <1> DEFINE D == Of(RETRY_EVENT_TYPES, t)
             number == [i \in D |-> t[i].attempt]
  <1>1. DOMAIN t = 1..Len(t) /\ Len(t) \in Nat
    OBVIOUS
  <1>2. D = Debits(t)
    BY <1>1 DEF Of, Debits, IsDebit, RetryEvents, RETRY_EVENT_TYPES
  <1>3. \A i \in D : t[i].attempt \in 1..k /\ i \in Nat
    BY <1>1, <1>2 DEF Attempts, Debits
  <1>4. \A i, j \in D : t[i].attempt = t[j].attempt => i = j
    <2> SUFFICES ASSUME NEW i \in D, NEW j \in D, t[i].attempt = t[j].attempt, i # j
                 PROVE  FALSE
      OBVIOUS
    <2> HIDE DEF D
    <2>1. i < j \/ j < i
      BY <1>3
    <2>2. t[i].attempt < t[j].attempt \/ t[j].attempt < t[i].attempt
      BY <1>2, <2>1 DEF Ordered
    <2> QED BY <1>3, <2>2
  <1>5. k \in Nat /\ k <= MAX_RETRIES
    BY PipelineAssumption DEF MAX_RETRIES
  <1>6. IsFiniteSet(1..k) /\ Cardinality(1..k) = k
    BY <1>5, FS_Interval
  <1>7. number \in Injection(D, 1..k)
    <2> HIDE DEF D
    <2>1. number \in [D -> 1..k]
      BY <1>3
    <2>2. \A i, j \in D : number[i] = number[j] => i = j
      BY <1>4
    <2> HIDE DEF number
    <2> QED BY <2>1, <2>2 DEF Injection, IsInjective
  <1>8. IsFiniteSet(D) /\ Cardinality(D) <= k
    <2> HIDE DEF D, number
    <2> QED BY <1>6, <1>7, FS_Injection
  <1>9. WithinRetryCap(t)
    <2>1. Cardinality(D) \in Nat
      BY <1>8, FS_CardinalityType
    <2>2. Cardinality(D) <= MAX_RETRIES
      BY <1>5, <1>8, <2>1 DEF MAX_RETRIES
    <2>3. \A i \in D : t[i].attempt <= MAX_RETRIES
      BY <1>3, <1>5 DEF MAX_RETRIES
    <2> QED BY <2>2, <2>3 DEF WithinRetryCap
  <1>10. PreDebitBeforeRetry(t)
    <2> SUFFICES ASSUME NEW i \in D
                 PROVE  \E j \in Of({"pre_debit_notification"}, t) : j < i
      BY DEF PreDebitBeforeRetry
    <2>1. i \in 1..Len(t) /\ i > 1 /\ t[i-1].event = "pre_debit_notification"
      BY <1>2 DEF NoticeBefore, Debits
    <2>2. i - 1 \in Of({"pre_debit_notification"}, t) /\ i - 1 < i
      BY <1>1, <2>1 DEF Of
    <2> QED BY <2>2
  <1> QED BY <1>9, <1>10

\* run_audit, of a run that is ready to commit.
LEMMA RunPasses ==
  ASSUME MaxRetries <= MAX_RETRIES, TypeInv, DebitInv, NoticeInv, AuditInv,
         pc = "commit", trail[Len(trail)].event # "webhook_duplicate"
  PROVE  AuditPasses(AuditedCase(status), trail)
  <1> DEFINE case == AuditedCase(status)
  <1>1. /\ case.reason = input.reason /\ case.overLimit = input.overLimit
        /\ case.status = status
    BY DEF AuditedCase
  <1>2. trail \in Seq(Rows)
    BY DEF TypeInv, TypeOK
  <1>3. PICK k \in 0..MaxRetries : Attempts(trail) = 1..k
    BY PipelineAssumption DEF DebitInv
  <1>4. WithinRetryCap(trail) /\ PreDebitBeforeRetry(trail)
    BY <1>2, <1>3, NumberedDebitsPass DEF DebitInv, NoticeInv
  <1>5. \/ status \in {"rejected", "invalid"} /\ Attempts(trail) = {}
        \/ /\ status = "escalated" /\ input.reason = "mandate_revoked"
           /\ Attempts(trail) = {}
        \/ Worked
    BY DEF AuditInv
  <1>6. Attempts(trail) = {} => Of(RETRY_EVENT_TYPES, trail) = {}
    BY <1>2, NoDebits
  <1> HIDE DEF case
  <1>7. MandateRevokedNoRetry(case, trail)
    BY <1>1, <1>5, <1>6 DEF MandateRevokedNoRetry, Worked
  <1>8. RejectedIsIsolated(case, trail)
    BY <1>1 DEF RejectedIsIsolated, AuditInv, Isolated
  <1>9. OverLimitReauthorised(case, trail)
    BY <1>1, <1>5 DEF OverLimitReauthorised, Worked, Blocked
  <1> QED BY <1>4, <1>7, <1>8, <1>9 DEF AuditPasses, case

\* audit_check.run_audit reports nothing of a case the pipeline has just worked,
\* whatever the limits are: the cap of the audit is its own constant, which the
\* pipeline's MAX_RETRIES does not exceed.
THEOREM AuditReportsNothing ==
  ASSUME MaxRetries <= MAX_RETRIES
  PROVE  Spec => []AuditorFindsNothing
  <1>1. ASSUME TypeInv, DebitInv, NoticeInv, AuditInv PROVE AuditorFindsNothing
    <2>1. pc = "commit" /\ trail[Len(trail)].event # "webhook_duplicate"
            => AuditPasses(AuditedCase(status), trail)
      BY <1>1, RunPasses
    <2>2. committed.trail \in Seq(Rows)
      BY <1>1 DEF TypeInv, TypeOK, Columns
    <2>3. PICK k \in 0..MaxRetries : Attempts(committed.trail) = 1..k
      BY <1>1 DEF DebitInv
    <2>4. WithinRetryCap(committed.trail) /\ PreDebitBeforeRetry(committed.trail)
      BY <1>1, <2>2, <2>3, NumberedDebitsPass DEF DebitInv, NoticeInv
    <2>5. RejectedIsIsolated(AuditedCase(committed.status), committed.trail)
      BY <1>1 DEF RejectedIsIsolated, AuditedCase, AuditInv, Isolated
    <2> QED BY <2>1, <2>4, <2>5 DEF AuditorFindsNothing
  <1>2. Init => NoticeInv /\ AuditInv
    <2> SUFFICES ASSUME Init PROVE NoticeInv /\ AuditInv
      OBVIOUS
    <2>1. /\ pc = "idle" /\ trail = <<>>
          /\ committed.status = "new" /\ committed.trail = <<>>
      BY DEF Init, View
    <2> QED BY <2>1 DEF NoticeInv, NoticeBefore, Debits, AuditInv, Looping
  <1>3. TypeInv /\ NoticeInv /\ [Next]_vars => NoticeInv'
    BY NoticeStep
  <1>4. TypeInv /\ GateInv /\ GateInv' /\ StoryInv /\ [Next]_vars => StoryInv'
    BY StoryStep
  <1>5. TypeInv /\ TypeInv' /\ GateInv /\ DebitInv /\ DebitInv' /\ StoryInv /\ AuditInv
          /\ [Next]_vars => AuditInv'
    BY AuditStep
  <1>6. TypeInv /\ DebitInv /\ NoticeInv /\ AuditInv => AuditorFindsNothing
    BY <1>1
  <1> QED BY <1>2, <1>3, <1>4, <1>5, <1>6, InitStory, Inductive, PTL DEF Spec
===============================================================================
