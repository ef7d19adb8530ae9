------------------------------ MODULE WebhookIntake ------------------------------
(***************************************************************************)
(* The intake of Razorpay webhooks: the route of backend/app.py, the       *)
(* mapping and the claim of backend/razorpay_adapter.py, and Razorpay,     *)
(* which sends an event again until a 2xx answer reaches it.               *)
(*                                                                         *)
(* A handler looks for the event outside of any transaction. Its first     *)
(* write opens one and takes SQLite's write lock; what the handler writes  *)
(* until its commit is its own copy `tx` of the database, which an         *)
(* exception (a wait for the lock that times out is one) or a crash drops. *)
(***************************************************************************)
EXTENDS CaseLifecycle, Naturals

CONSTANTS
  Events,       (* what Razorpay has to tell: each is one request body      *)
  Payload,      (* event -> what the route reads of its body                *)
  Customers,    (* the ids a body can carry                                 *)
  Seeded,       (* customers whose case exists already, with another source *)
  Handlers,     (* the threads that serve the route                         *)
  MaxRetries,   (* agent.MAX_RETRIES                                        *)
  MaxFaults     (* Bound: exceptions, crashes, lost answers, impatience     *)

None == "none"

\* note, subscription and payment: the customer id in the subscription's notes
\* and the ids of the two entities. amount: that of the payment entity.
Payloads == [signed : BOOLEAN, event : STRING,
             note : Customers \cup {None}, subscription : Customers \cup {None},
             payment : Customers \cup {None}, amount : {None, "zero", "positive"}]

ASSUME IntakeAssumption ==
  /\ Payload \in [Events -> Payloads] /\ None \notin Customers \cup Handlers
  /\ \A e \in Events : Payload[e].amount # None => Payload[e].payment # None
  /\ Seeded \subseteq Customers
  /\ MaxRetries \in Nat \ {0} /\ MaxFaults \in Nat

VARIABLES
  db,          (* the committed webhook_events, mandate_failures, recovery_jobs *)
  lock,        (* the handler that holds the write lock, or None            *)
  handler,     (* handler -> what it is doing                               *)
  tx,          (* the copy of db the handler with the lock works on         *)
  acked,       (* events for which Razorpay got a 2xx answer                *)
  applied,     (* history: how often an event's effects were committed      *)
  faults       (* how many faults there were                                *)

vars == <<db, lock, handler, tx, acked, applied, faults>>

-------------------------------------------------------------------------------
(* The request body.                                                           *)

\* RAZORPAY_EVENT_TO_REASON.
ReasonOf(event) ==
  CASE event \in {"subscription.charged.failed", "payment.failed"} -> "insufficient_funds"
    [] event \in {"subscription.halted", "subscription.cancelled"} -> "mandate_revoked"
    [] event = "subscription.pending"     -> "mandate_expired"
    [] event = "payment.dispute.created"  -> "bank_technical_error"
    [] OTHER                              -> None

\* The merchant's own id if the notes have one, else one of Razorpay's.
CustomerOf(p) ==
  CASE p.note # None                               -> p.note
    [] p.note = None /\ p.subscription # None      -> p.subscription
    [] OTHER                                       -> p.payment

\* map_razorpay_event gives a record, and the route finds an amount in it.
Actionable(p) == /\ ReasonOf(p.event) # None
                 /\ CustomerOf(p) # None
                 /\ p.amount = "positive"

Customer(e) == CustomerOf(Payload[e])
Reason(e)   == ReasonOf(Payload[e].event)

-------------------------------------------------------------------------------
(* The database.                                                               *)

NoCase == [reason |-> None, source |-> None]
NoJobs == [a \in 1..MaxRetries |-> None]

Init ==
  /\ db = [events |-> [e \in Events |-> None],
           cases  |-> [c \in Customers |->
                         IF c \in Seeded
                         THEN [reason |-> "bank_technical_error", source |-> "synthetic"]
                         ELSE NoCase],
           jobs   |-> [c \in Customers |-> NoJobs],
           notes  |-> [c \in Customers |-> FALSE]]
  /\ lock = None /\ tx = db
  /\ handler = [h \in Handlers |-> [pc |-> "idle", event |-> None]]
  /\ acked = {} /\ applied = [e \in Events |-> 0] /\ faults = 0

At(h, pc)   == handler[h].pc = pc
Goto(h, pc) == handler' = [handler EXCEPT ![h].pc = pc]
Ended(h)    == handler' = [handler EXCEPT ![h] = [pc |-> "idle", event |-> None]]
Event(h)    == handler[h].event
Faulty      == faults < MaxFaults /\ faults' = faults + 1

\* Razorpay gets the 2xx answer, or the answer is lost.
Answered(e) == \/ acked' = acked \cup {e} /\ UNCHANGED faults
               \/ Faulty /\ UNCHANGED acked

-------------------------------------------------------------------------------
\* Razorpay sends an event of another type, without a customer or without an
\* amount. (A body with a bad signature is answered with 400; nothing changes.)
Skip(e) ==
  /\ e \notin acked /\ Payload[e].signed /\ ~Actionable(Payload[e])
  /\ Answered(e)
  /\ UNCHANGED <<db, lock, handler, tx, applied>>

\* Razorpay sends an event that the route takes up. It sends it again while a
\* handler is at it only when it has waited too long.
Deliver(h, e) ==
  /\ At(h, "idle") /\ e \notin acked
  /\ Payload[e].signed /\ Actionable(Payload[e])
  /\ IF \E g \in Handlers : Event(g) = e THEN Faulty ELSE UNCHANGED faults
  /\ handler' = [handler EXCEPT ![h] = [pc |-> "received", event |-> e]]
  /\ UNCHANGED <<db, lock, tx, acked, applied>>

\* claim_webhook_event: the look at the committed row.
Look(h) ==
  /\ At(h, "received")
  /\ Goto(h, IF db.events[Event(h)] # None THEN "duplicate" ELSE "claim")
  /\ UNCHANGED <<db, lock, tx, acked, applied, faults>>

\* _log_webhook_duplicate, if the case exists, and the commit.
Noted(d, c) == [d EXCEPT !.notes[c] = d.cases[c] # NoCase \/ @]

Duplicate(h) ==
  /\ At(h, "duplicate") /\ lock \in {None, h}
  /\ db' = Noted(IF lock = h THEN tx ELSE db, Customer(Event(h)))
  /\ tx' = db' /\ lock' = None
  /\ Answered(Event(h)) /\ Ended(h)
  /\ UNCHANGED applied

\* Mutants: the UNIQUE constraint is missing; the claim is committed at once.
ClaimAgain(h) ==
  /\ At(h, "claim") /\ lock = None
  /\ lock' = h
  /\ tx' = [db EXCEPT !.events[Event(h)] = "RECEIVED"] /\ Goto(h, "persist")
  /\ UNCHANGED <<db, acked, applied, faults>>

ClaimAndCommit(h) ==
  /\ At(h, "claim") /\ lock = None
  /\ lock' = h
  /\ IF db.events[Event(h)] = None
     THEN tx' = [db EXCEPT !.events[Event(h)] = "RECEIVED"] /\ Goto(h, "persist")
     ELSE tx' = db /\ Goto(h, "duplicate")
  /\ db' = tx'
  /\ UNCHANGED <<acked, applied, faults>>

\* insert_webhook_event, the first write: the lock, and the UNIQUE constraint.
Claim(h) ==
  /\ At(h, "claim") /\ lock = None
  /\ lock' = h
  /\ IF db.events[Event(h)] = None
     THEN tx' = [db EXCEPT !.events[Event(h)] = "RECEIVED"] /\ Goto(h, "persist")
     ELSE tx' = db /\ Goto(h, "duplicate")
  /\ UNCHANGED <<db, acked, applied, faults>>

\* The case row: a known customer's reason is rewritten, its source is kept.
WithCase(d, e) ==
  [d EXCEPT !.events[e] = "PERSISTED",
            !.cases[Customer(e)] =
              [reason |-> Reason(e),
               source |-> IF @ = NoCase THEN "razorpay_live" ELSE @.source]]

Persist(h) ==
  /\ At(h, "persist")
  /\ tx' = WithCase(tx, Event(h))
  /\ Goto(h, "enqueue")
  /\ UNCHANGED <<db, lock, acked, applied, faults>>

\* execution_mode_for_case: Razorpay confirms the credentials or does not.
ModesFor(case) ==
  IF case.source = "razorpay_live" /\ case.reason # "mandate_revoked"
  THEN {"real_test", "simulation"} ELSE {"simulation"}

\* schedule_recovery_jobs: no job for a revoked mandate, and none that exists.
WithJobs(d, c, mode) ==
  IF d.cases[c].reason = "mandate_revoked" THEN d
  ELSE [d EXCEPT !.jobs[c] = [a \in 1..MaxRetries |-> IF @[a] = None THEN mode ELSE @[a]]]

Enqueue(h) ==
  LET e == Event(h)  c == Customer(e) IN
  /\ At(h, "enqueue")
  /\ \E mode \in ModesFor(tx.cases[c]) :
       tx' = [WithJobs(tx, c, mode) EXCEPT !.events[e] = "QUEUED"]
  /\ Goto(h, "commit")
  /\ UNCHANGED <<db, lock, acked, applied, faults>>

\* mark_webhook_event_processed, the commit, and the answer.
Commit(h) ==
  /\ At(h, "commit")
  /\ db' = [tx EXCEPT !.events[Event(h)] = "COMPLETED"]
  /\ tx' = db' /\ lock' = None
  /\ applied' = [applied EXCEPT ![Event(h)] = @ + 1]
  /\ Answered(Event(h)) /\ Ended(h)

Released(h) == lock' = IF lock = h THEN None ELSE lock

\* An exception: rollback, and the answer 500.
Raise(h) ==
  /\ handler[h].pc \in {"claim", "duplicate", "persist", "enqueue", "commit"}
  /\ Faulty /\ Released(h) /\ Ended(h)
  /\ tx' = IF lock = h THEN db ELSE tx
  /\ UNCHANGED <<db, acked, applied>>

\* The process dies with all its handlers, and is started again.
Crash ==
  /\ \E h \in Handlers : ~At(h, "idle")
  /\ Faulty
  /\ handler' = [h \in Handlers |-> [pc |-> "idle", event |-> None]]
  /\ lock' = None /\ tx' = db
  /\ UNCHANGED <<db, acked, applied>>

-------------------------------------------------------------------------------
Route(h) == \/ Look(h) \/ Duplicate(h) \/ Claim(h)
            \/ Persist(h) \/ Enqueue(h) \/ Commit(h)

Next == \/ \E h \in Handlers : \/ \E e \in Events : Deliver(h, e)
                               \/ Route(h) \/ Raise(h)
        \/ \E e \in Events : Skip(e)
        \/ Crash

Spec == Init /\ [][Next]_vars

\* A request that was received is handled, and Razorpay does not give up.
FairSpec ==
  /\ Spec
  /\ \A h \in Handlers : WF_vars(Route(h))
  /\ \A e \in Events : WF_vars(\E h \in Handlers : Deliver(h, e))
===============================================================================
