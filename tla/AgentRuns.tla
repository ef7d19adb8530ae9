------------------------------- MODULE AgentRuns -------------------------------
(***************************************************************************)
(* Agent runs side by side: run_agent, the streamed run_agent_traced and   *)
(* the replay of one case (backend/agent.py, app.api_case_replay), each on *)
(* its own connection to the one SQLite file.                              *)
(*                                                                         *)
(* A run reads its cases before it has the write lock, takes the lock with *)
(* BEGIN IMMEDIATE at its first case and keeps it until it commits or is   *)
(* rolled back. The statement waits out the busy timeout; the pipeline     *)
(* swallows the exception of a timeout and goes on without the lock, up to *)
(* its first write. What a run does to a case while it has the lock is     *)
(* RecoveryPipeline's matter and one step here, one summary row long.      *)
(***************************************************************************)
EXTENDS CaseLifecycle, Naturals, Sequences

CONSTANTS
  Cases,        (* customer ids                                              *)
  Sweeps,       (* runs over every case: run_agent and run_agent_traced      *)
  Replays,      (* replays of one case                                       *)
  NoRun,        (* nobody holds the write lock                               *)
  Impatient,    (* the runs whose wait for the lock may exceed the timeout   *)
  MaxUpdates    (* Bound: webhooks that rewrite a stored event               *)

Runs == Sweeps \cup Replays

ASSUME AgentRunsAssumption ==
  /\ Sweeps \cap Replays = {} /\ NoRun \notin Runs
  /\ Impatient \subseteq Runs /\ MaxUpdates \in Nat

VARIABLES
  event,     (* case -> the event data stored on its row                     *)
  sealed,    (* case -> the event data its stored signature was made over    *)
  stored,    (* the committed statuses and audit trails                      *)
  draft,     (* the lock holder's uncommitted copy of them                   *)
  lock,      (* the run with the open write transaction, or NoRun            *)
  phase,     (* run -> where it stands                                       *)
  snap,      (* run -> the events and statuses it read before it began       *)
  todo,      (* run -> the cases it has still to process                     *)
  early,     (* run -> the case it found unprocessed without the lock        *)
  overtaken, (* history: the cases that a run worked on such a finding       *)
  updates    (* how many webhooks rewrote an event                           *)

vars == <<event, sealed, stored, draft, lock, phase, snap, todo, early, overtaken,
          updates>>

-------------------------------------------------------------------------------
\* What the gates and StrategyAgent read of a stored event: whether validate_case
\* refuses its amount or else its mandate was revoked, and whether its signature
\* verifies.
Events == [kind : {"malformed", "revoked", "payable"}, signed : BOOLEAN]

\* The rows of the seeder and of new webhooks. Of an event whose signature does not
\* verify nothing else is read.
FirstEvents == {e \in Events : e.signed \/ e.kind = "payable"}

\* A run that has read nothing, or that is over.
NoSnap == [event  |-> [c \in Cases |-> [kind |-> "payable", signed |-> FALSE]],
           status |-> [c \in Cases |-> "new"]]

\* Mutant: a rejected case does not count as processed.
HasSettlingAudit(book, c) ==
  \E i \in 1..Len(book.trail[c]) : book.trail[c][i].after \in {"recovered", "escalated"}

HasTerminalAudit(book, c) ==
  \E i \in 1..Len(book.trail[c]) : book.trail[c][i].after \in TerminalAuditStatuses

-------------------------------------------------------------------------------
(* What a run adds to a book for one case, from its snapshot.                  *)

NoteDuplicate(r, c, book) ==
  [book EXCEPT !.trail[c] =
     Append(@, [worked |-> FALSE, after |-> snap[r].status[c], debited |-> FALSE])]

\* The verdicts the pipeline can reach on an unprocessed case, gate by gate:
\* rejected, invalid, escalated untried, or debited and then recovered or escalated.
Verdict(s, debited) == [status |-> s, debited |-> debited]

Verdicts(e) ==
  CASE ~e.signed -> {Verdict("rejected", FALSE)}
    [] e.signed /\ e.kind = "malformed" -> {Verdict("invalid", FALSE)}
    [] e.signed /\ e.kind = "revoked" -> {Verdict("escalated", FALSE)}
    [] e.signed /\ e.kind = "payable" ->
         {Verdict(s, TRUE) : s \in {"recovered", "escalated"}}

\* The first status the pipeline sets: a refusal, or the start of the work.
FirstStatus(e) == CASE ~e.signed -> "rejected"
                    [] e.signed /\ e.kind = "malformed" -> "invalid"
                    [] OTHER -> "in_progress"

\* set_status raises on a move that LEGAL_TRANSITIONS does not have. It looks at the
\* status the run has read, not at the row.
Raises(r, c) ==
  LET read == snap[r].status[c]
      next == FirstStatus(snap[r].event[c])
  IN read # next /\ ~IsLegalTransition(read, next)

WorkRow(v) == [worked |-> TRUE, after |-> v.status, debited |-> v.debited]

\* Mutant: the audit row is written, the case row is not.
WriteTrailOnly(r, c, book, v) ==
  [book EXCEPT !.trail[c] = Append(@, WorkRow(v))]

\* set_status leaves the row alone when the status read is the status to set; the
\* audit row is written all the same.
Write(r, c, book, v) ==
  [book EXCEPT !.status[c] = IF snap[r].status[c] = v.status THEN @ ELSE v.status,
               !.trail[c] = Append(@, WorkRow(v))]

\* The books the pipeline can leave behind for an unprocessed case. The gates and
\* the strategy decide on the snapshot; the row itself is not read again.
Worked(r, c, book) == {Write(r, c, book, v) : v \in Verdicts(snap[r].event[c])}

-------------------------------------------------------------------------------
Init ==
  /\ event \in [Cases -> FirstEvents] /\ sealed = event
  /\ stored = [status |-> [c \in Cases |-> "new"],
               trail  |-> [c \in Cases |-> <<>>]]
  /\ draft = stored /\ lock = NoRun
  /\ phase = [r \in Runs |-> "idle"]
  /\ snap = [r \in Runs |-> NoSnap]
  /\ todo = [r \in Runs |-> {}] /\ early = [r \in Runs |-> {}]
  /\ overtaken = {} /\ updates = 0

\* get_all_cases or get_case: the rows as committed, read without the lock.
Load(r) ==
  /\ phase[r] = "idle"
  /\ snap' = [snap EXCEPT ![r] = [event |-> event, status |-> stored.status]]
  /\ \/ r \in Sweeps /\ todo' = [todo EXCEPT ![r] = Cases]
        /\ phase' = [phase EXCEPT ![r] = "ready"]
     \/ r \in Replays /\ (\E c \in Cases : todo' = [todo EXCEPT ![r] = {c}])
        /\ phase' = [phase EXCEPT ![r] = "loaded"]
  /\ UNCHANGED <<event, sealed, stored, draft, lock, early, overtaken, updates>>

\* The run is over and its local variables with it.
Return(r) ==
  /\ phase' = [phase EXCEPT ![r] = "done"]
  /\ snap' = [snap EXCEPT ![r] = NoSnap]
  /\ todo' = [todo EXCEPT ![r] = {}] /\ early' = [early EXCEPT ![r] = {}]

\* The replay route's own look at the audit trail, also without the lock.
CheckReplay(r) ==
  /\ phase[r] = "loaded"
  /\ IF \E c \in todo[r] : HasTerminalAudit(stored, c) THEN Return(r)
     ELSE /\ phase' = [phase EXCEPT ![r] = "ready"]
          /\ UNCHANGED <<snap, todo, early>>
  /\ UNCHANGED <<event, sealed, stored, draft, lock, overtaken, updates>>

\* BEGIN IMMEDIATE succeeds.
Begin(r) ==
  /\ phase[r] = "ready" /\ lock = NoRun
  /\ lock' = r /\ draft' = stored
  /\ phase' = [phase EXCEPT ![r] = "running"]
  /\ UNCHANGED <<event, sealed, stored, snap, todo, early, overtaken, updates>>

\* BEGIN IMMEDIATE gives up. The exception is logged and the idempotency
\* check of the first case runs on what is committed now.
TimeOut(r) ==
  /\ r \in Impatient
  /\ phase[r] = "ready" /\ lock # NoRun
  /\ \E c \in todo[r] :
       early' = [early EXCEPT ![r] = IF HasTerminalAudit(stored, c) THEN {} ELSE {c}]
  /\ phase' = [phase EXCEPT ![r] = "unlocked"]
  /\ UNCHANGED <<event, sealed, stored, draft, lock, snap, todo, overtaken, updates>>

\* The first write of that case waits for the lock again and opens the run's
\* transaction; the check is not repeated.
LateWrite(r) ==
  /\ phase[r] = "unlocked" /\ lock = NoRun
  /\ \A c \in early[r] : ~Raises(r, c)
  /\ lock' = r
  /\ IF early[r] = {} THEN draft' = stored /\ UNCHANGED todo
     ELSE \E c \in early[r] : /\ draft' \in Worked(r, c, stored)
                              /\ todo' = [todo EXCEPT ![r] = @ \ {c}]
  /\ phase' = [phase EXCEPT ![r] = "running"]
  /\ overtaken' = overtaken \cup early[r]
  /\ early' = [early EXCEPT ![r] = {}]
  /\ UNCHANGED <<event, sealed, stored, snap, updates>>

\* That wait times out too, or set_status raises before the first write: the
\* exception ends the run.
GiveUp(r) ==
  /\ phase[r] = "unlocked"
  /\ lock # NoRun \/ \E c \in early[r] : Raises(r, c)
  /\ Return(r)
  /\ UNCHANGED <<event, sealed, stored, draft, lock, overtaken, updates>>

\* Mutant: the check is skipped.
ProcessUnchecked(r, c) ==
  /\ phase[r] = "running" /\ c \in todo[r] /\ ~Raises(r, c)
  /\ draft' \in Worked(r, c, draft)
  /\ todo' = [todo EXCEPT ![r] = @ \ {c}]
  /\ UNCHANGED <<event, sealed, stored, lock, phase, snap, early, overtaken, updates>>

\* process_case under the lock.
Process(r, c) ==
  /\ phase[r] = "running" /\ c \in todo[r]
  /\ IF HasTerminalAudit(draft, c) THEN draft' = NoteDuplicate(r, c, draft)
     ELSE ~Raises(r, c) /\ draft' \in Worked(r, c, draft)
  /\ todo' = [todo EXCEPT ![r] = @ \ {c}]
  /\ UNCHANGED <<event, sealed, stored, lock, phase, snap, early, overtaken, updates>>

\* Mutant: the run returns without its commit and leaves the lock behind.
FinishKeepsLock(r) ==
  /\ phase[r] = "running" /\ todo[r] = {}
  /\ Return(r)
  /\ UNCHANGED <<event, sealed, stored, draft, lock, overtaken, updates>>

Finish(r) ==
  /\ phase[r] = "running" /\ todo[r] = {}
  /\ stored' = draft /\ lock' = NoRun
  /\ Return(r)
  /\ UNCHANGED <<event, sealed, draft, overtaken, updates>>

\* The run ends without its commit: the transaction is rolled back.
RollBack(r) ==
  /\ lock' = NoRun /\ draft' = stored
  /\ Return(r)
  /\ UNCHANGED <<event, sealed, stored, overtaken, updates>>

\* set_status raises for a case that passes the idempotency check, and with it the
\* whole run.
Fail(r, c) ==
  /\ phase[r] = "running" /\ c \in todo[r]
  /\ ~HasTerminalAudit(draft, c) /\ Raises(r, c)
  /\ RollBack(r)

\* Any other exception, a killed process, or a client that drops the stream between
\* two yields.
Abort(r) ==
  /\ phase[r] = "running"
  /\ RollBack(r)

\* The webhook route rewrites a row and leaves its signature, which fits again
\* only when the row carries the data it was made over.
WebhookUpdatesRow(c) ==
  /\ lock = NoRun /\ updates < MaxUpdates
  /\ \E v \in Events : /\ v.signed => v = sealed[c]
                       /\ event' = [event EXCEPT ![c] = v]
  /\ updates' = updates + 1
  /\ UNCHANGED <<sealed, stored, draft, lock, phase, snap, todo, early, overtaken>>

-------------------------------------------------------------------------------
\* What a run does by itself once it has read its cases.
Step(r) == \/ CheckReplay(r) \/ Begin(r) \/ TimeOut(r) \/ LateWrite(r) \/ GiveUp(r)
           \/ \E c \in Cases : Process(r, c) \/ Fail(r, c)
           \/ Finish(r)

Next == \/ \E r \in Runs : Load(r) \/ Step(r) \/ Abort(r)
        \/ \E c \in Cases : WebhookUpdatesRow(c)

Spec == Init /\ [][Next]_vars

\* Every started run is a thread of the server that goes on: it is fair to
\* each of them, and to nobody else.
FairSpec == Spec /\ \A r \in Runs : WF_vars(Step(r))
===============================================================================
