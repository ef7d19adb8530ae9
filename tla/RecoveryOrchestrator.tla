-------------------------- MODULE RecoveryOrchestrator --------------------------
(***************************************************************************)
(* Phase 7: the recovery cases of one merchant (recovery_orchestrator.py), *)
(* the invoices, checkout sessions, promises and mandate retries that hang *)
(* on them, their approvals and the merchant's policy, as the requests of  *)
(* p7_routes.py change them.  A SELECT outside a transaction takes no      *)
(* lock, so a request that reads before it writes takes two steps; from    *)
(* its first write to its commit it is one step.                           *)
(***************************************************************************)
EXTENDS Integers, Sequences, Bags, RecoveryScoring

CONSTANTS Cases,             \* recovery cases
          Kind,              \* what opens a case: the API, a document, a retry
          Scenario, Reason, Amount, Overdue,        \* its immutable columns
          Defaults,          \* policy_center.DEFAULTS, the fields decisions use
          Patches,           \* what PATCH /policy may set
          Requests,          \* bound: the threads that serve requests
          MaxRequests,       \* bound: the requests they serve
          MaxDay, MaxDeaths  \* bounds: midnights, requests that die halfway

Kinds == {"api", "invoice", "session", "mandate"}
ASSUME CaseAssumption ==
  /\ Kind \in [Cases -> Kinds] /\ MaxRequests \in Nat /\ MaxDay \in Nat /\ MaxDeaths \in Nat
  /\ Scenario \in [Cases -> Scenarios] /\ Reason \in [Cases -> Reasons]
  /\ Amount \in [Cases -> Nat] /\ Overdue \in [Cases -> Nat]

VARIABLES rows,      \* recovery_cases
          asks,      \* approval_requests of each case, oldest first
          sent,      \* idempotency keys of recovery_actions
          docs,      \* the invoice, session or promise of each case
          retries,   \* mandate_retry_log of each case
          policy,    \* merchant_recovery_policies; version 0 is "no row"
          learned,   \* strategy_performance: <<strategy, scenario, outcome>> counted
          reqs,      \* the request a thread serves
          served,    \* how many requests have begun
          today, deaths,
          opened,    \* history: cases that were not waiting for approval once
          settled,   \* history: cases whose document was paid or recovered once
          orphaned   \* history: cases whose request died before the outcome

vars == <<rows, asks, sent, docs, retries, policy, learned, reqs, served, today,
          deaths, opened, settled, orphaned>>

\* The rows of the tables when they are inserted.
NoRow == [status |-> "none", approval |-> "not_required", action |-> "none",
          priority |-> "medium", channel |-> "none", scored |-> FALSE, count |-> 0,
          resolved |-> FALSE]
\* create_case, with the priority its caller computes.
NewRow(c) == [NoRow EXCEPT !.status = "open",
                !.priority = CASE Kind[c] = "session" -> CheckoutPriority(Amount[c])
                               [] Kind[c] = "invoice" ->
                                    InvoicePriority(Amount[c], Overdue[c])
                               [] OTHER -> "medium"]
Exists(c) == rows[c].status # "none"
Closed == {"recovered", "failed", "escalated"}
Settled(c) == docs[c].status \in {"paid", "recovered"}
NoDoc      == [status |-> "none", date |-> 0]
NewSession == [status |-> "abandoned", date |-> 0]
NewInvoice(c) == [status |-> IF Overdue[c] > 0 THEN "overdue" ELSE "due", date |-> 0]
\* A promise is made for a day; MaxDay + 1 is a day this model never reaches.
NewPromise(date) == [status |-> PromiseStatus(date, today), date |-> date]
NewRetry(number, stops, reason, cooldown) ==
  [number  |-> number,
   outcome |-> IF stops THEN "suppressed" ELSE "pending",
   delay   |-> IF stops THEN 0 ELSE RetryDelay(number, reason, cooldown)]

\* What a request remembers from its first step, on top of NoMemory.
NoMemory == [pc |-> "idle", case |-> "none", ask |-> 0, action |-> "none", count |-> 0,
             policy |-> Defaults, read |-> NoRow, outcome |-> "none", day |-> 0,
             saw |-> {}]
Idle == [pc |-> "idle"]

Init ==
  /\ rows = [c \in Cases |-> NoRow]
  /\ asks = [c \in Cases |-> << >>] /\ sent = {}
  /\ docs = [c \in Cases |-> NoDoc]
  /\ retries = [c \in Cases |-> << >>]
  /\ policy = Defaults /\ learned = EmptyBag
  /\ reqs = [r \in Requests |-> Idle] /\ served = 0
  /\ today = 0 /\ deaths = 0 /\ opened = {} /\ settled = {}
  /\ orphaned = {}

At(r, pc)    == reqs[r].pc = pc
Goto(r, rec) == reqs' = [reqs EXCEPT ![r] = rec]
Finish(r)    == Goto(r, Idle)
\* A new request, about case c.
Starts(r, pc, c) == [NoMemory EXCEPT !.pc = pc, !.case = c]
-----------------------------------------------------------------------------
(* The operations of recovery_orchestrator, as what they do to a row. *)

Scored(c, row) ==
  [row EXCEPT !.scored = TRUE,
     !.priority = Priority(RiskScore(Scenario[c], Reason[c], Amount[c], Overdue[c]),
                           Amount[c])]

\* decide_action, from the row it read (without its expected value, if that was
\* not scored yet) and the policy.
Skips(c, read, p) ==
  Skipped(IF read.scored THEN ExpectedValue(Scenario[c], Reason[c], Amount[c]) ELSE 0,
          p.minimum)
Asks(c, read, p) == ~Skips(c, read, p) /\ NeedsApproval(Amount[c], p.threshold)

Decided(c, row, read, p) ==
  IF Skips(c, read, p) THEN row
  ELSE [row EXCEPT
          !.action   = ActionFor(Scenario[c], Reason[c]),
          !.channel  = ChannelFor(Scenario[c], read.priority, p.preferred),
          !.approval = IF Asks(c, read, p) THEN "pending" ELSE "not_required",
          !.status   = IF Asks(c, read, p) THEN "pending_approval" ELSE "in_progress"]

\* update_case
UpdateCase(c, row) == [rows EXCEPT ![c] = row]

\* Mutant: a case is put to the merchant once.
DecideAsksOnce(c, row, read, p) ==
  /\ rows' = UpdateCase(c, Decided(c, row, read, p))
  /\ asks' = IF Asks(c, read, p) /\ asks[c] = << >>
             THEN [asks EXCEPT ![c] = <<"pending">>] ELSE asks

\* _approval_req
ApprovalReq(c) == [asks EXCEPT ![c] = Append(@, "pending")]

Decide(c, row, read, p) ==
  /\ rows' = UpdateCase(c, Decided(c, row, read, p))
  /\ asks' = IF Asks(c, read, p) THEN ApprovalReq(c) ELSE asks

\* execute_action, after its read: INSERT OR IGNORE keeps one row per case,
\* action and day, and drops a row without an action; the rest is done anyway.
Executed(row, count) == [row EXCEPT !.count = count + 1, !.status = "in_progress"]
Sent(c, action) == IF action = "none" THEN sent ELSE sent \cup {<<c, action, today>>}

FeedLearning(c, outcome) ==
  learned (+) SetToBag({<<rows[c].action, Scenario[c], outcome>>})

\* record_outcome, on a case of any status.
Record(c, outcome) ==
  /\ rows' = UpdateCase(c, [rows[c] EXCEPT !.status = outcome, !.resolved = TRUE])
  /\ learned' = FeedLearning(c, outcome)
-----------------------------------------------------------------------------
(* Requests about cases. *)

\* POST /cases: create, score and decide in one transaction.
CreateCase(r, c) ==
  /\ At(r, "idle") /\ Kind[c] = "api" /\ ~Exists(c)
  /\ LET row == Scored(c, NewRow(c)) IN Decide(c, row, row, policy)
  /\ Finish(r)
  /\ UNCHANGED <<sent, docs, retries, policy, learned, today, deaths, orphaned>>

ScoreCase(r, c) ==
  /\ At(r, "idle") /\ Exists(c)
  /\ rows' = UpdateCase(c, Scored(c, rows[c]))
  /\ Finish(r)
  /\ UNCHANGED <<asks, sent, docs, retries, policy, learned, today, deaths, orphaned>>

DecideRead(r, c) ==
  /\ At(r, "idle") /\ Exists(c)
  /\ Goto(r, [Starts(r, "decide", c) EXCEPT !.read = rows[c], !.policy = policy])
  /\ UNCHANGED <<rows, asks, sent, docs, retries, policy, learned, today, deaths, orphaned>>

DecideWrite(r) ==
  /\ At(r, "decide")
  /\ Decide(reqs[r].case, rows[reqs[r].case], reqs[r].read, reqs[r].policy)
  /\ Finish(r)
  /\ UNCHANGED <<sent, docs, retries, policy, learned, today, deaths, orphaned>>

\* Mutant: the gate is left to the caller.
ReadsUngated(r, c, action) ==
  Goto(r, [Starts(r, "execute", c) EXCEPT !.action = action, !.count = rows[c].count])

\* execute_action, up to its read: refused while an approval is pending.
Reads(r, c, action) ==
  Goto(r, IF rows[c].approval = "pending" THEN Idle
          ELSE [Starts(r, "execute", c) EXCEPT !.action = action,
                                               !.count = rows[c].count])

ExecuteRead(r, c, action) ==
  /\ At(r, "idle") /\ Exists(c)
  /\ Reads(r, c, IF action = "none" THEN rows[c].action ELSE action)
  /\ UNCHANGED <<rows, asks, sent, docs, retries, policy, learned, today, deaths, orphaned>>

ExecuteWrite(r) ==
  LET c == reqs[r].case IN
  /\ At(r, "execute")
  /\ rows' = UpdateCase(c, Executed(rows[c], reqs[r].count))
  /\ sent' = Sent(c, reqs[r].action)
  /\ Finish(r)
  /\ UNCHANGED <<asks, docs, retries, policy, learned, today, deaths, orphaned>>

RecordOutcome(r, c, outcome) ==
  /\ At(r, "idle") /\ Exists(c)
  /\ Record(c, outcome)
  /\ Finish(r)
  /\ UNCHANGED <<asks, sent, docs, retries, policy, today, deaths, orphaned>>

\* POST /approvals/<id>: the request must be pending when it is read; the
\* answer, the case and the execution of what was approved are one transaction.
AnswerRead(r, c, i, answer) ==
  /\ At(r, "idle") /\ i \in 1..Len(asks[c]) /\ asks[c][i] = "pending"
  /\ Goto(r, [Starts(r, "answer", c) EXCEPT !.ask = i, !.outcome = answer])
  /\ UNCHANGED <<rows, asks, sent, docs, retries, policy, learned, today, deaths, orphaned>>

AnswerWrite(r) ==
  LET c == reqs[r].case  answer == reqs[r].outcome IN
  /\ At(r, "answer")
  /\ asks' = [asks EXCEPT ![c] = [@ EXCEPT ![reqs[r].ask] = answer]]
  /\ \/ /\ answer = "approved"
        /\ rows' = UpdateCase(c, Executed([rows[c] EXCEPT !.approval = "approved"],
                                          rows[c].count))
        /\ sent' = Sent(c, ActionFor(Scenario[c], Reason[c]))
     \/ /\ answer = "rejected"
        /\ rows' = UpdateCase(c, [rows[c] EXCEPT !.approval = "rejected"])
        /\ sent' = sent
  /\ Finish(r)
  /\ UNCHANGED <<docs, retries, policy, learned, today, deaths, orphaned>>
-----------------------------------------------------------------------------
(* Invoices, checkout sessions and promises. *)

\* register_abandonment and create_invoice commit the document with an open
\* case; scoring and deciding is a second transaction.
Register(r, c, doc) ==
  /\ At(r, "idle") /\ ~Exists(c)
  /\ rows' = [rows EXCEPT ![c] = NewRow(c)]
  /\ docs' = [docs EXCEPT ![c] = doc]
  /\ Goto(r, Starts(r, "registered", c))
  /\ UNCHANGED <<asks, sent, retries, policy, learned, today, deaths, orphaned>>

RegisterAbandonment(r, c) == Kind[c] = "session" /\ Register(r, c, NewSession)
CreateInvoice(r, c)       == Kind[c] = "invoice" /\ Register(r, c, NewInvoice(c))

DecideRegistered(r) ==
  LET c == reqs[r].case IN
  /\ At(r, "registered")
  /\ LET row == Scored(c, rows[c]) IN Decide(c, row, row, policy)
  /\ Finish(r)
  /\ UNCHANGED <<sent, docs, retries, policy, learned, today, deaths, orphaned>>

\* b2b send_reminder: the invoice first, in a transaction of its own.
Remind(r, c) ==
  /\ At(r, "idle") /\ Kind[c] = "invoice" /\ Exists(c)
  /\ docs' = [docs EXCEPT ![c].status = "reminded"]
  /\ Goto(r, Starts(r, "reminded", c))
  /\ UNCHANGED <<rows, asks, sent, retries, policy, learned, today, deaths, orphaned>>

RemindRead(r) ==
  /\ At(r, "reminded")
  /\ Reads(r, reqs[r].case, "send_invoice_reminder")
  /\ UNCHANGED <<rows, asks, sent, docs, retries, policy, learned, today, deaths, orphaned>>

CreatePromise(r, c, date) ==
  /\ At(r, "idle") /\ Kind[c] = "api" /\ Exists(c) /\ docs[c] = NoDoc
  /\ docs' = [docs EXCEPT ![c] = NewPromise(date)]
  /\ Finish(r)
  /\ UNCHANGED <<rows, asks, sent, retries, policy, learned, today, deaths, orphaned>>

\* mark_paid of an invoice or a promise and escalate_invoice: the document
\* first, in a transaction of its own, then the outcome of its case.
CloseDoc(r, c, status, outcome) ==
  /\ At(r, "idle") /\ docs[c] # NoDoc
  /\ docs' = [docs EXCEPT ![c].status = status]
  /\ Goto(r, [Starts(r, "closing", c) EXCEPT !.outcome = outcome])
  /\ UNCHANGED <<rows, asks, sent, retries, policy, learned, today, deaths, orphaned>>

PayInvoice(r, c)      == Kind[c] = "invoice" /\ CloseDoc(r, c, "paid", "recovered")
EscalateInvoice(r, c) == Kind[c] = "invoice" /\ CloseDoc(r, c, "escalated", "escalated")
PayPromise(r, c)      == Kind[c] = "api" /\ CloseDoc(r, c, "paid", "recovered")

\* Mutant: the outcome of a case that waits for approval is refused.
CloseCaseGated(r) ==
  LET c == reqs[r].case IN
  /\ At(r, "closing")
  /\ IF rows[c].approval = "pending" THEN UNCHANGED <<rows, learned>>
     ELSE Record(c, reqs[r].outcome)
  /\ Finish(r)
  /\ UNCHANGED <<asks, sent, docs, retries, policy, today, deaths, orphaned>>

CloseCase(r) ==
  /\ At(r, "closing")
  /\ Record(reqs[r].case, reqs[r].outcome)
  /\ Finish(r)
  /\ UNCHANGED <<asks, sent, docs, retries, policy, today, deaths, orphaned>>

\* checkout mark_recovered: session and case in one transaction.
RecoverSession(r, c) ==
  /\ At(r, "idle") /\ Kind[c] = "session" /\ Exists(c)
  /\ docs' = [docs EXCEPT ![c].status = "recovered"]
  /\ Record(c, "recovered")
  /\ Finish(r)
  /\ UNCHANGED <<asks, sent, retries, policy, today, deaths, orphaned>>

MissPromise(r, c) ==
  /\ At(r, "idle") /\ Kind[c] = "api" /\ docs[c] # NoDoc
  /\ docs' = [docs EXCEPT ![c].status = "missed"]
  /\ Finish(r)
  /\ UNCHANGED <<rows, asks, sent, retries, policy, learned, today, deaths, orphaned>>

\* GET /promises: the upcoming promises are read, then written one by one.
RefreshRead(r) ==
  LET upcoming == {c \in Cases : docs[c].status = "upcoming"} IN
  /\ At(r, "idle")
  /\ Goto(r, IF \A c \in upcoming : docs[c].date > today THEN Idle
             ELSE [NoMemory EXCEPT !.pc = "refresh", !.saw = upcoming, !.day = today])
  /\ UNCHANGED <<rows, asks, sent, docs, retries, policy, learned, today, deaths, orphaned>>

RefreshWrite(r) ==
  LET due == {c \in reqs[r].saw : docs[c].date <= reqs[r].day} IN
  /\ At(r, "refresh")
  /\ docs' = [c \in Cases |-> IF c \in due
                THEN [docs[c] EXCEPT !.status = PromiseStatus(docs[c].date, reqs[r].day)]
                ELSE docs[c]]
  /\ Finish(r)
  /\ UNCHANGED <<rows, asks, sent, retries, policy, learned, today, deaths, orphaned>>
-----------------------------------------------------------------------------
(* Mandate retries.  All cases of kind "mandate" are of one mandate. *)

\* schedule_mandate_retry reads a case, its log and the policy: the case the
\* request gives, whatever its kind and status, or an open one of the mandate.
RetryFind(r, c, given) ==
  /\ At(r, "idle") /\ Exists(c)
  /\ given \/ (Kind[c] = "mandate" /\ rows[c].status \notin Closed)
  /\ Goto(r, [Starts(r, "log", c) EXCEPT !.count = Len(retries[c]) + 1,
                !.read = rows[c], !.policy = policy])
  /\ UNCHANGED <<rows, asks, sent, docs, retries, policy, learned, today, deaths, orphaned>>

\* Without one it creates a case, which it reads before it is scored.
RetryFindNone(r) ==
  /\ At(r, "idle")
  /\ \A c \in Cases : Kind[c] = "mandate" => rows[c].status \in Closed \cup {"none"}
  /\ Goto(r, [NoMemory EXCEPT !.pc = "create"])
  /\ UNCHANGED <<rows, asks, sent, docs, retries, policy, learned, today, deaths, orphaned>>

RetryCreate(r, c) ==
  /\ At(r, "create") /\ Kind[c] = "mandate" /\ ~Exists(c)
  /\ rows' = [rows EXCEPT ![c] = Scored(c, NewRow(c))]
  /\ Goto(r, [Starts(r, "created", c) EXCEPT !.read = NewRow(c)])
  /\ UNCHANGED <<asks, sent, docs, retries, policy, learned, today, deaths, orphaned>>

RetryCount(r) ==
  /\ At(r, "created")
  /\ Goto(r, [reqs[r] EXCEPT !.pc = "log", !.policy = policy,
                !.count = Len(retries[reqs[r].case]) + 1])
  /\ UNCHANGED <<rows, asks, sent, docs, retries, policy, learned, today, deaths, orphaned>>

RetryLog(r) ==
  LET c == reqs[r].case
      ev == IF reqs[r].read.scored
            THEN ExpectedValue(Scenario[c], Reason[c], Amount[c]) ELSE 0
      stops == RetryStops(reqs[r].count, reqs[r].policy.retries, Reason[c], ev,
                          reqs[r].policy.minimum)
  IN
  /\ At(r, "log")
  /\ retries' = [retries EXCEPT ![c] =
       Append(@, NewRetry(reqs[r].count, stops, Reason[c], reqs[r].policy.cooldown))]
  /\ Finish(r)
  /\ UNCHANGED <<rows, asks, sent, docs, policy, learned, today, deaths, orphaned>>
-----------------------------------------------------------------------------
(* The policy. *)

\* upsert_policy reads the version, then writes.
PatchRead(r, patch) ==
  /\ At(r, "idle")
  /\ Goto(r, [NoMemory EXCEPT !.pc = "patch", !.count = policy.version, !.policy = patch])
  /\ UNCHANGED <<rows, asks, sent, docs, retries, policy, learned, today, deaths, orphaned>>

\* An UPDATE of a row that was deleted does nothing, an INSERT of a row that
\* exists fails.
PatchWrite(r) ==
  /\ At(r, "patch")
  /\ policy' = IF (reqs[r].count = 0) # (policy.version = 0) THEN policy
               ELSE [reqs[r].policy EXCEPT !.version = reqs[r].count + 1]
  /\ Finish(r)
  /\ UNCHANGED <<rows, asks, sent, docs, retries, learned, today, deaths, orphaned>>

\* reset_to_defaults: DELETE, committed; the INSERT of the defaults is a
\* second transaction (and nothing, if another request has inserted a row).
ResetDelete(r) ==
  /\ At(r, "idle")
  /\ policy' = Defaults
  /\ Goto(r, [NoMemory EXCEPT !.pc = "reset"])
  /\ UNCHANGED <<rows, asks, sent, docs, retries, learned, today, deaths, orphaned>>

ResetInsert(r) ==
  /\ At(r, "reset")
  /\ policy' = IF policy.version = 0 THEN [Defaults EXCEPT !.version = 1] ELSE policy
  /\ Finish(r)
  /\ UNCHANGED <<rows, asks, sent, docs, retries, learned, today, deaths, orphaned>>
-----------------------------------------------------------------------------
\* A request dies between its steps (an exception, a restart).
Die(r) ==
  /\ reqs[r] # Idle /\ deaths < MaxDeaths
  /\ deaths' = deaths + 1
  /\ orphaned' = IF At(r, "closing") THEN orphaned \cup {reqs[r].case} ELSE orphaned
  /\ Finish(r)
  /\ UNCHANGED <<rows, asks, sent, docs, retries, policy, learned, today>>

Midnight ==
  /\ today < MaxDay /\ today' = today + 1
  /\ UNCHANGED <<rows, asks, sent, docs, retries, policy, learned, reqs, deaths, orphaned>>

-----------------------------------------------------------------------------
\* The routes of p7_routes.py: what a request brings.
ApiCreate(r)   == \E c \in Cases : CreateCase(r, c)
ApiScore(r)    == \E c \in Cases : ScoreCase(r, c)
ApiDecide(r)   == \E c \in Cases : DecideRead(r, c)
ApiExecute(r)  == \E c \in Cases, a \in {"none", "send_message"} : ExecuteRead(r, c, a)
ApiOutcome(r)  == \E c \in Cases, o \in Closed : RecordOutcome(r, c, o)
ApiCheckout(r) == \E c \in Cases : RegisterAbandonment(r, c)
ApiRecover(r)  == \E c \in Cases : RecoverSession(r, c)
ApiInvoice(r)  == \E c \in Cases : CreateInvoice(r, c)
ApiRemind(r)   == \E c \in Cases : Remind(r, c)
ApiEscalate(r) == \E c \in Cases : EscalateInvoice(r, c)
ApiPaid(r)     == \E c \in Cases : PayInvoice(r, c)
ApiPromise(r)  == \E c \in Cases, d \in 0..MaxDay + 1 : CreatePromise(r, c, d)
ApiPromisePaid(r)   == \E c \in Cases : PayPromise(r, c)
ApiPromiseMissed(r) == \E c \in Cases : MissPromise(r, c)
ApiApproval(r) == \E c \in Cases, a \in {"approved", "rejected"} :
                     \E i \in 1..Len(asks[c]) : AnswerRead(r, c, i, a)
ApiRetry(r)    == RetryFindNone(r) \/ \E c \in Cases, given \in BOOLEAN : RetryFind(r, c, given)
ApiPolicy(r)   == \E p \in Patches : PatchRead(r, p)

Route(r) ==
  \/ ApiCreate(r) \/ ApiScore(r) \/ ApiDecide(r) \/ ApiExecute(r) \/ ApiOutcome(r)
  \/ ApiCheckout(r) \/ ApiRecover(r) \/ ApiInvoice(r) \/ ApiRemind(r)
  \/ ApiEscalate(r) \/ ApiPaid(r) \/ ApiPromise(r) \/ ApiPromisePaid(r)
  \/ ApiPromiseMissed(r) \/ RefreshRead(r) \/ ApiApproval(r) \/ ApiRetry(r)
  \/ ApiPolicy(r) \/ ResetDelete(r)

Continue(r) ==
  \/ DecideWrite(r) \/ ExecuteWrite(r) \/ AnswerWrite(r)
  \/ DecideRegistered(r) \/ RemindRead(r) \/ CloseCase(r) \/ RefreshWrite(r)
  \/ (\E c \in Cases : RetryCreate(r, c)) \/ RetryCount(r) \/ RetryLog(r)
  \/ PatchWrite(r) \/ ResetInsert(r)

Next ==
  /\ \/ \E r \in Requests :
          /\ Route(r) \/ Continue(r) \/ Die(r)
          /\ served' = IF At(r, "idle") THEN served + 1 ELSE served
     \/ Midnight /\ UNCHANGED served
  /\ served' <= MaxRequests
  /\ opened' = opened \cup
       {c \in Cases : rows'[c].status # "none" /\ rows'[c].approval # "pending"}
  /\ settled' = settled \cup {c \in Cases : Settled(c)'}

Spec == Init /\ [][Next]_vars
=============================================================================
