--------------------------- MODULE WebhookIntakeProofs ---------------------------
(***************************************************************************)
(* Proofs about WebhookIntake: for any number of events, customers,        *)
(* handlers and faults, an event takes effect once and as a whole.         *)
(***************************************************************************)
EXTENDS WebhookIntakeProps, TLAPS

EventStatuses == {None, "RECEIVED", "PERSISTED", "QUEUED", "COMPLETED"}
CaseRows == [reason : FailureReasons \cup {None},
             source : {None, "synthetic", "razorpay_live"}]
JobRows  == [1..MaxRetries -> {None, "real_test", "simulation"}]
Databases == [events : [Events -> EventStatuses], cases : [Customers -> CaseRows],
              jobs : [Customers -> JobRows], notes : [Customers -> BOOLEAN]]

PCs == {"idle", "received", "claim", "duplicate", "persist", "enqueue", "commit"}
HandlerRows == [pc : PCs, event : Events \cup {None}]

Types ==
  /\ db \in Databases /\ tx \in Databases
  /\ lock \in Handlers \cup {None}
  /\ handler \in [Handlers -> HandlerRows]
  /\ applied \in [Events -> Nat]

\* Nothing that d has is missing in t.
Kept(d, t) ==
  \A c \in Customers :
    /\ d.cases[c] # NoCase => t.cases[c] # NoCase
    /\ \A a \in 1..MaxRetries : d.jobs[c][a] # None => t.jobs[c][a] # None

\* The event's effects are all there.
Effective(d, e) ==
  /\ d.cases[Customer(e)] # NoCase
  /\ Reason(e) # "mandate_revoked" =>
       \A a \in 1..MaxRetries : d.jobs[Customer(e)][a] # None

Served(e) == e \in Events /\ Actionable(Payload[e])

\* The copy of a handler that has claimed its event: it differs from the
\* database in that event only, and has more and more of its effects.
Draft(h) ==
  LET e == Event(h) IN
  /\ db.events[e] = None
  /\ \A x \in Events \ {e} : tx.events[x] = db.events[x]
  /\ Kept(db, tx)
  /\ handler[h].pc \in {"enqueue", "commit"} => tx.cases[Customer(e)].reason = Reason(e)
  /\ handler[h].pc = "commit" => Effective(tx, e)

Claimed == {"persist", "enqueue", "commit"}

Locking ==
  /\ lock = None => tx = db
  /\ \A h \in Handlers :
       /\ ~At(h, "idle") => Served(Event(h))
       /\ handler[h].pc \in Claimed => lock = h /\ Draft(h)
       /\ lock = h => \/ handler[h].pc \in Claimed
                      \/ At(h, "duplicate") /\ tx = db

Effects ==
  \A e \in Events :
    /\ applied[e] = IF db.events[e] = None THEN 0 ELSE 1
    /\ db.events[e] # None =>
         Served(e) /\ db.events[e] = "COMPLETED" /\ Effective(db, e)

IntakeInv == Types /\ Locking /\ Effects

-------------------------------------------------------------------------------
(* The operators on the database.                                              *)

\* An actionable body names a customer and a reason.
LEMMA Actionables ==
  ASSUME NEW e, Served(e)
  PROVE  Customer(e) \in Customers /\ Reason(e) \in FailureReasons
<1>1. Payload[e] \in Payloads
  BY IntakeAssumption DEF Served
<1>2. Customer(e) \in Customers
  BY <1>1 DEF Served, Actionable, Payloads, Customer, CustomerOf, None
<1>3. Reason(e) \in FailureReasons
  BY DEF Served, Actionable, Reason, ReasonOf, FailureReasons, None
<1> QED BY <1>2, <1>3

\* _log_webhook_duplicate leaves events, cases and jobs alone.
LEMMA NotedEffect ==
  ASSUME NEW d \in Databases, NEW c \in Customers
  PROVE  /\ Noted(d, c) \in Databases
         /\ Noted(d, c).events = d.events
         /\ Noted(d, c).cases = d.cases
         /\ Noted(d, c).jobs = d.jobs
BY DEF Noted, Databases

\* The case row names the reason; events and jobs of others stay.
LEMMA WithCaseEffect ==
  ASSUME NEW d \in Databases, NEW e, Served(e)
  PROVE  /\ WithCase(d, e) \in Databases
         /\ \A x \in Events \ {e} : WithCase(d, e).events[x] = d.events[x]
         /\ Kept(d, WithCase(d, e))
         /\ WithCase(d, e).cases[Customer(e)].reason = Reason(e)
<1> DEFINE c == Customer(e)
           row == [reason |-> Reason(e),
                   source |-> IF d.cases[c] = NoCase THEN "razorpay_live"
                              ELSE d.cases[c].source]
           t == WithCase(d, e)
<1>1. c \in Customers /\ Reason(e) \in FailureReasons /\ e \in Events
  BY Actionables DEF Served
<1>2. d.cases[c] \in CaseRows
  BY <1>1 DEF Databases
<1>3. row \in CaseRows /\ row # NoCase
  BY <1>1, <1>2 DEF CaseRows, NoCase, FailureReasons, None
<1>4. t = [d EXCEPT !.events[e] = "PERSISTED", !.cases[c] = row]
  BY <1>1 DEF WithCase, Databases
<1> HIDE DEF row, t, c
<1>5. /\ t.events = [d.events EXCEPT ![e] = "PERSISTED"]
      /\ t.cases = [d.cases EXCEPT ![c] = row]
      /\ t.jobs = d.jobs /\ t.notes = d.notes
      /\ t \in Databases
  BY <1>1, <1>3, <1>4 DEF Databases, EventStatuses
<1>6. \A x \in Events \ {e} : t.events[x] = d.events[x]
  BY <1>1, <1>5 DEF Databases
<1>7. Kept(d, t)
  BY <1>1, <1>3, <1>5 DEF Databases, Kept
<1>8. t.cases[c].reason = Reason(e)
  BY <1>1, <1>5 DEF Databases, row
<1> QED BY <1>5, <1>6, <1>7, <1>8 DEF t, c

\* The modes of jobs are modes.
LEMMA Modes ==
  ASSUME NEW case PROVE ModesFor(case) \subseteq {"real_test", "simulation"}
BY DEF ModesFor

\* The jobs of an event that warrants them are all queued.
LEMMA WithJobsEffect ==
  ASSUME NEW d \in Databases, NEW c \in Customers,
         NEW mode \in {"real_test", "simulation"}
  PROVE  LET t == WithJobs(d, c, mode) IN
         /\ t \in Databases
         /\ t.events = d.events /\ t.cases = d.cases /\ t.notes = d.notes
         /\ Kept(d, t)
         /\ d.cases[c].reason # "mandate_revoked" =>
              \A a \in 1..MaxRetries : t.jobs[c][a] # None
<1> DEFINE row == [a \in 1..MaxRetries |-> IF d.jobs[c][a] = None THEN mode
                                           ELSE d.jobs[c][a]]
           t == WithJobs(d, c, mode)
<1>1. CASE d.cases[c].reason = "mandate_revoked"
  BY <1>1 DEF WithJobs, Kept
<1>2. CASE d.cases[c].reason # "mandate_revoked"
  <2>1. t = [d EXCEPT !.jobs[c] = row]
    BY <1>2 DEF WithJobs, Databases
  <2>2. d.jobs[c] \in JobRows
    BY DEF Databases
  <2>3. row \in JobRows /\ \A a \in 1..MaxRetries : row[a] # None
    BY <2>2 DEF JobRows, None
  <2>4. \A a \in 1..MaxRetries : row[a] # None
    BY <2>3
  <2> HIDE DEF row, t
  <2>5. /\ t.jobs = [d.jobs EXCEPT ![c] = row] /\ t \in Databases
        /\ t.events = d.events /\ t.cases = d.cases /\ t.notes = d.notes
    BY <2>1, <2>3 DEF Databases
  <2>6. t.jobs[c] = row
    BY <2>5 DEF Databases
  <2>7. Kept(d, t)
    BY <2>4, <2>5 DEF Databases, Kept
  <2> QED BY <2>4, <2>5, <2>6, <2>7 DEF t
<1> QED BY <1>1, <1>2

\* What is kept stays effective.
LEMMA KeptEffective ==
  ASSUME NEW d, NEW t, NEW e, Kept(d, t), Effective(d, e), Customer(e) \in Customers
  PROVE  Effective(t, e)
BY DEF Kept, Effective

-------------------------------------------------------------------------------
(* The handlers.                                                               *)

LEMMA GotoEffect ==
  ASSUME Types, NEW h \in Handlers, NEW pc \in PCs, Goto(h, pc)
  PROVE  /\ handler' \in [Handlers -> HandlerRows]
         /\ handler'[h].pc = pc /\ handler'[h].event = handler[h].event
         /\ \A g \in Handlers \ {h} : handler'[g] = handler[g]
BY DEF Types, Goto, HandlerRows

LEMMA EndedEffect ==
  ASSUME Types, NEW h \in Handlers, Ended(h)
  PROVE  /\ handler' \in [Handlers -> HandlerRows]
         /\ handler'[h].pc = "idle"
         /\ \A g \in Handlers \ {h} : handler'[g] = handler[g]
BY DEF Types, Ended, HandlerRows, PCs

\* A handler that has not claimed its event moves on: nothing else changes.
LEMMA QuietSteps ==
  ASSUME IntakeInv, NEW h \in Handlers,
         handler' \in [Handlers -> HandlerRows],
         \A g \in Handlers \ {h} : handler'[g] = handler[g],
         handler'[h].pc \notin Claimed, lock # h,
         handler'[h].pc # "idle" => Served(handler'[h].event),
         UNCHANGED <<db, lock, tx, applied>>
  PROVE  IntakeInv'
<1>1. Types' /\ Effects'
  BY DEF IntakeInv, Types, Effects, Effective
<1>2. Locking'
  BY DEF IntakeInv, Locking, Draft, Event, At, Kept, Effective, Served
<1> QED BY <1>1, <1>2 DEF IntakeInv

\* The holder of the lock is at a claimed event, or at a duplicate.
LEMMA Holder ==
  ASSUME IntakeInv, NEW h \in Handlers
  PROVE  /\ lock = h => handler[h].pc \in Claimed \cup {"duplicate"}
         /\ lock # None /\ lock # h => handler[h].pc \notin Claimed
         /\ lock = None => tx = db /\ handler[h].pc \notin Claimed
BY IntakeAssumption DEF IntakeInv, Locking, At, Types

LEMMA DeliverStep ==
  ASSUME IntakeInv, NEW h \in Handlers, NEW e \in Events, Deliver(h, e)
  PROVE  IntakeInv'
<1>1. lock # h
  BY Holder DEF Deliver, At, Claimed
<1>2. handler'[h] = [pc |-> "received", event |-> e]
  BY DEF Deliver, IntakeInv, Types
<1>3. /\ handler' \in [Handlers -> HandlerRows]
      /\ \A g \in Handlers \ {h} : handler'[g] = handler[g]
  BY DEF Deliver, IntakeInv, Types, HandlerRows, PCs
<1>4. Served(handler'[h].event)
  BY <1>2 DEF Deliver, Served
<1> QED BY <1>1, <1>2, <1>3, <1>4, QuietSteps DEF Deliver, Claimed

LEMMA LookStep ==
  ASSUME IntakeInv, NEW h \in Handlers, Look(h)
  PROVE  IntakeInv'
<1>1. lock # h
  BY Holder DEF Look, At, Claimed
<1>2. PICK pc \in {"duplicate", "claim"} : Goto(h, pc)
  BY DEF Look
<1>3. /\ handler' \in [Handlers -> HandlerRows]
      /\ handler'[h].pc = pc /\ handler'[h].event = handler[h].event
      /\ \A g \in Handlers \ {h} : handler'[g] = handler[g]
  BY <1>2, GotoEffect DEF IntakeInv, PCs
<1>4. Served(handler'[h].event)
  BY <1>3 DEF IntakeInv, Locking, Look, At, Event
<1> QED BY <1>1, <1>3, <1>4, QuietSteps DEF Look, Claimed

LEMMA DuplicateStep ==
  ASSUME IntakeInv, NEW h \in Handlers, Duplicate(h)
  PROVE  IntakeInv'
<1> DEFINE c == Customer(Event(h))
<1>1. tx = db /\ c \in Customers
  BY Holder, Actionables DEF IntakeInv, Locking, Duplicate, At, Claimed
<1>2. db' = Noted(db, c) /\ tx' = db' /\ lock' = None /\ applied' = applied
  BY <1>1 DEF Duplicate
<1>3. /\ db' \in Databases
      /\ db'.events = db.events /\ db'.cases = db.cases /\ db'.jobs = db.jobs
  BY <1>1, <1>2, NotedEffect DEF IntakeInv, Types
<1>4. /\ handler' \in [Handlers -> HandlerRows]
      /\ handler'[h].pc = "idle"
      /\ \A g \in Handlers \ {h} : handler'[g] = handler[g]
  BY EndedEffect DEF IntakeInv, Duplicate
<1>5. \A g \in Handlers : handler'[g].pc \notin Claimed
  BY <1>4, Holder DEF Duplicate, Claimed
<1>6. Types'
  BY <1>2, <1>3, <1>4 DEF IntakeInv, Types
<1>7. Locking'
  BY <1>2, <1>4, <1>5, IntakeAssumption DEF IntakeInv, Locking, At, Event, Served
<1>8. Effects'
  BY <1>2, <1>3 DEF IntakeInv, Effects, Effective
<1> QED BY <1>6, <1>7, <1>8 DEF IntakeInv

\* The first write of a transaction.
LEMMA ClaimStep ==
  ASSUME IntakeInv, NEW h \in Handlers, Claim(h)
  PROVE  IntakeInv'
<1> DEFINE e == Event(h)
<1>1. /\ lock' = h /\ lock = None /\ tx = db /\ db' = db /\ applied' = applied
      /\ Served(e) /\ h # None
  BY IntakeAssumption DEF IntakeInv, Locking, Claim, At
<1>2. PICK pc \in {"persist", "duplicate"} : Goto(h, pc)
  BY DEF Claim
<1>3. /\ handler' \in [Handlers -> HandlerRows]
      /\ handler'[h].pc = pc /\ handler'[h].event = e
      /\ \A g \in Handlers \ {h} : handler'[g] = handler[g]
  BY <1>2, GotoEffect DEF IntakeInv, PCs, Event
<1>4. \A g \in Handlers \ {h} : handler'[g].pc \notin Claimed
  BY <1>1, <1>3, Holder
<1>5. CASE db.events[e] # None
  <2>1. tx' = db /\ handler'[h].pc = "duplicate"
    BY <1>3, <1>5, GotoEffect DEF Claim, IntakeInv, PCs
  <2>2. Types' /\ Effects'
    BY <1>1, <1>3, <2>1 DEF IntakeInv, Types, Effects, Effective
  <2>3. Locking'
    BY <1>1, <1>3, <1>4, <2>1 DEF IntakeInv, Locking, At, Event, Served, Claimed
  <2> QED BY <2>2, <2>3 DEF IntakeInv
<1>6. CASE db.events[e] = None
  <2>1. tx' = [db EXCEPT !.events[e] = "RECEIVED"] /\ handler'[h].pc = "persist"
    BY <1>3, <1>6, GotoEffect DEF Claim, IntakeInv, PCs
  <2>2. /\ tx' \in Databases /\ tx'.cases = db.cases /\ tx'.jobs = db.jobs
        /\ \A x \in Events \ {e} : tx'.events[x] = db.events[x]
    BY <2>1, <1>1 DEF IntakeInv, Types, Databases, EventStatuses, Served
  <2>3. Kept(db, tx')
    BY <2>2 DEF Kept
  <2>4. Draft(h)'
    BY <1>1, <1>3, <1>6, <2>1, <2>2, <2>3 DEF Draft, Event, Kept
  <2>5. Types' /\ Effects'
    BY <1>1, <1>3, <2>2 DEF IntakeInv, Types, Effects, Effective
  <2>6. Locking'
    BY <1>1, <1>3, <1>4, <2>1, <2>4 DEF IntakeInv, Locking, At, Event, Served, Claimed
  <2> QED BY <2>5, <2>6 DEF IntakeInv
<1> QED BY <1>5, <1>6

\* The holder goes on with its copy.
LEMMA WriteSteps ==
  ASSUME IntakeInv, NEW h \in Handlers, lock = h,
         handler' \in [Handlers -> HandlerRows],
         \A g \in Handlers \ {h} : handler'[g] = handler[g],
         handler'[h].pc \in Claimed, handler'[h].event = handler[h].event,
         handler[h].pc \in Claimed, tx' \in Databases, Draft(h)',
         UNCHANGED <<db, lock, applied>>
  PROVE  IntakeInv'
<1>1. Types' /\ Effects'
  BY DEF IntakeInv, Types, Effects, Effective
<1>2. h # None /\ Served(Event(h))
  BY IntakeAssumption DEF IntakeInv, Locking, At, Claimed
<1>3. Locking'
  BY <1>2, Holder DEF IntakeInv, Locking, At, Event, Served, Claimed
<1> QED BY <1>1, <1>3 DEF IntakeInv

LEMMA PersistStep ==
  ASSUME IntakeInv, NEW h \in Handlers, Persist(h)
  PROVE  IntakeInv'
<1> DEFINE e == Event(h)
<1>1. lock = h /\ Draft(h) /\ Served(e) /\ tx \in Databases
  BY DEF IntakeInv, Types, Locking, Persist, At, Claimed
<1>2. /\ handler' \in [Handlers -> HandlerRows]
      /\ handler'[h].pc = "enqueue" /\ handler'[h].event = e
      /\ \A g \in Handlers \ {h} : handler'[g] = handler[g]
  BY GotoEffect DEF IntakeInv, Persist, PCs, Event
<1>3. /\ tx' \in Databases
      /\ \A x \in Events \ {e} : tx'.events[x] = tx.events[x]
      /\ Kept(tx, tx')
      /\ tx'.cases[Customer(e)].reason = Reason(e)
  BY <1>1, WithCaseEffect DEF Persist
<1>4. Kept(db, tx')
  BY <1>1, <1>3 DEF Draft, Kept
<1>5. Draft(h)'
  <2>1. Event(h)' = e /\ db' = db
    BY <1>2 DEF Event, Persist
  <2>2. /\ db.events[e] = None
        /\ \A x \in Events \ {e} : tx'.events[x] = db.events[x]
    BY <1>1, <1>3 DEF Draft
  <2> HIDE DEF e
  <2> QED BY <1>2, <1>3, <1>4, <2>1, <2>2 DEF Draft, Customer, Reason
<1> QED BY <1>1, <1>2, <1>3, <1>5, WriteSteps DEF Persist, At, Claimed, Event

LEMMA EnqueueStep ==
  ASSUME IntakeInv, NEW h \in Handlers, Enqueue(h)
  PROVE  IntakeInv'
<1> DEFINE e == Event(h)
           c == Customer(e)
<1>1. lock = h /\ Draft(h) /\ Served(e) /\ tx \in Databases /\ c \in Customers
  BY Actionables DEF IntakeInv, Types, Locking, Enqueue, At, Claimed
<1>2. /\ handler' \in [Handlers -> HandlerRows]
      /\ handler'[h].pc = "commit" /\ handler'[h].event = e
      /\ \A g \in Handlers \ {h} : handler'[g] = handler[g]
  BY GotoEffect DEF IntakeInv, Enqueue, PCs, Event
<1>3. PICK mode \in {"real_test", "simulation"} :
        tx' = [WithJobs(tx, c, mode) EXCEPT !.events[e] = "QUEUED"]
  BY Modes DEF Enqueue
<1> DEFINE t == WithJobs(tx, c, mode)
<1>4. /\ t \in Databases
      /\ t.events = tx.events /\ t.cases = tx.cases /\ Kept(tx, t)
      /\ tx.cases[c].reason # "mandate_revoked" =>
           \A a \in 1..MaxRetries : t.jobs[c][a] # None
  BY <1>1, WithJobsEffect
<1> HIDE DEF t
<1>5. tx' = [t EXCEPT !.events[e] = "QUEUED"]
  BY <1>3 DEF t
<1>6. /\ tx' \in Databases /\ tx'.cases = t.cases /\ tx'.jobs = t.jobs
      /\ \A x \in Events \ {e} : tx'.events[x] = t.events[x]
  BY <1>1, <1>4, <1>5 DEF Databases, EventStatuses, Served
<1>7. Kept(db, tx')
  BY <1>1, <1>4, <1>6 DEF Draft, Kept
<1>8. tx'.cases[c].reason = Reason(e)
  BY <1>1, <1>4, <1>6 DEF Draft, Enqueue, At
<1>9. tx'.cases[c] # NoCase
  BY <1>1, <1>8, Actionables DEF NoCase, None, FailureReasons
<1>10. Effective(tx', e)
  BY <1>4, <1>6, <1>8, <1>9 DEF Effective
<1>11. Draft(h)'
  <2>1. db' = db /\ Event(h)' = e
    BY <1>2 DEF Enqueue, Event
  <2>2. Effective(tx, e)' /\ Kept(db, tx)'
    BY <1>7, <1>10, <2>1 DEF Effective, Kept, Customer, Reason
  <2> QED BY <1>1, <1>4, <1>6, <1>8, <2>1, <2>2 DEF Draft, Effective, Customer, Reason
<1> QED BY <1>1, <1>2, <1>6, <1>11, WriteSteps DEF Enqueue, At, Claimed, Event

\* The commit: the event takes effect, all others keep theirs.
LEMMA CommitStep ==
  ASSUME IntakeInv, NEW h \in Handlers, Commit(h)
  PROVE  IntakeInv'
<1> DEFINE e == Event(h)
<1>1. lock = h /\ Draft(h) /\ Served(e) /\ tx \in Databases /\ e \in Events
  BY DEF IntakeInv, Types, Locking, Commit, At, Claimed, Served
<1>2. /\ handler' \in [Handlers -> HandlerRows]
      /\ handler'[h].pc = "idle"
      /\ \A g \in Handlers \ {h} : handler'[g] = handler[g]
  BY EndedEffect DEF IntakeInv, Commit
<1>3. /\ db' \in Databases /\ db'.cases = tx.cases /\ db'.jobs = tx.jobs
      /\ db'.events[e] = "COMPLETED"
      /\ \A x \in Events \ {e} : db'.events[x] = tx.events[x]
  BY <1>1 DEF Commit, Databases, EventStatuses
<1>4. /\ tx' = db' /\ lock' = None
      /\ applied' = [applied EXCEPT ![e] = @ + 1]
  BY DEF Commit
<1>5. \A g \in Handlers : handler'[g].pc \notin Claimed
  BY <1>1, <1>2, Holder, IntakeAssumption DEF Claimed
<1>6. Types'
  BY <1>1, <1>2, <1>3, <1>4 DEF IntakeInv, Types
<1>7. Locking'
  BY <1>2, <1>4, <1>5, IntakeAssumption DEF IntakeInv, Locking, At, Event, Served
<1>8. Effects'
  <2> SUFFICES ASSUME NEW x \in Events
               PROVE  /\ applied'[x] = IF db'.events[x] = None THEN 0 ELSE 1
                      /\ db'.events[x] # None =>
                           /\ Served(x) /\ db'.events[x] = "COMPLETED"
                           /\ Effective(db', x)
    BY DEF Effects, Effective
  <2>1. CASE x = e
    <3>1. applied[x] = 0
      BY <1>1, <2>1 DEF IntakeInv, Effects, Draft
    <3>2. Effective(db', x)
      BY <1>1, <1>3, <2>1 DEF Draft, Effective, Commit, At
    <3> QED BY <1>1, <1>3, <1>4, <2>1, <3>1, <3>2 DEF IntakeInv, Types, None
  <2>2. CASE x # e
    <3>1. db'.events[x] = db.events[x] /\ applied'[x] = applied[x]
      BY <1>1, <1>3, <1>4, <2>2 DEF Draft, IntakeInv, Types
    <3>2. ASSUME db.events[x] # None PROVE Effective(db', x)
      <4>1. Effective(db, x) /\ Customer(x) \in Customers
        BY <3>2, Actionables DEF IntakeInv, Effects
      <4>2. Kept(db, db')
        BY <1>1, <1>3 DEF Draft, Kept
      <4> QED BY <4>1, <4>2, KeptEffective
    <3> QED BY <3>1, <3>2 DEF IntakeInv, Effects
  <2> QED BY <2>1, <2>2
<1> QED BY <1>6, <1>7, <1>8 DEF IntakeInv

\* An exception drops the copy of the handler that has the lock.
LEMMA RaiseStep ==
  ASSUME IntakeInv, NEW h \in Handlers, Raise(h)
  PROVE  IntakeInv'
<1>1. /\ handler' \in [Handlers -> HandlerRows]
      /\ handler'[h].pc = "idle"
      /\ \A g \in Handlers \ {h} : handler'[g] = handler[g]
  BY EndedEffect DEF IntakeInv, Raise
<1>2. UNCHANGED <<db, applied>>
  BY DEF Raise
<1>3. CASE lock # h
  <2>1. UNCHANGED <<lock, tx>>
    BY <1>3 DEF Raise, Released
  <2> QED BY <1>1, <1>2, <1>3, <2>1, QuietSteps DEF Claimed
<1>4. CASE lock = h
  <2>1. lock' = None /\ tx' = db
    BY <1>4 DEF Raise, Released
  <2>2. \A g \in Handlers : handler'[g].pc \notin Claimed
    BY <1>1, <1>4, Holder, IntakeAssumption DEF Claimed
  <2>3. Types' /\ Effects'
    BY <1>1, <1>2, <2>1 DEF IntakeInv, Types, Effects, Effective
  <2>4. Locking'
    BY <1>1, <1>2, <2>1, <2>2, IntakeAssumption
    DEF IntakeInv, Locking, At, Event, Served
  <2> QED BY <2>3, <2>4 DEF IntakeInv
<1> QED BY <1>3, <1>4

\* A crash drops everything but the database.
LEMMA CrashStep ==
  ASSUME IntakeInv, Crash
  PROVE  IntakeInv'
<1>1. handler' \in [Handlers -> HandlerRows]
  BY DEF Crash, HandlerRows, PCs
<1>2. Types' /\ Effects'
  BY <1>1 DEF Crash, IntakeInv, Types, Effects, Effective
<1>3. Locking'
  BY IntakeAssumption DEF Crash, IntakeInv, Locking, At, Claimed
<1> QED BY <1>2, <1>3 DEF IntakeInv

\* What does not touch the server leaves the invariant alone.
LEMMA OtherSteps ==
  ASSUME IntakeInv, UNCHANGED <<db, lock, handler, tx, applied>>
  PROVE  IntakeInv'
BY DEF IntakeInv, Types, Locking, Effects, Draft, Kept, Effective, At, Event

-------------------------------------------------------------------------------
LEMMA InitIntake == Init => IntakeInv
<1> SUFFICES ASSUME Init PROVE IntakeInv
  OBVIOUS
<1>1. /\ NoCase \in CaseRows /\ NoJobs \in JobRows
      /\ [reason |-> "bank_technical_error", source |-> "synthetic"] \in CaseRows
  BY DEF NoCase, NoJobs, CaseRows, JobRows, FailureReasons
<1>2. db \in Databases /\ \A e \in Events : db.events[e] = None
  BY <1>1 DEF Init, Databases, EventStatuses
<1>3. Types
  BY <1>2 DEF Init, Types, HandlerRows, PCs
<1>4. Locking /\ Effects
  BY <1>2, IntakeAssumption DEF Init, Locking, Effects, At, Claimed
<1> QED BY <1>3, <1>4 DEF IntakeInv

LEMMA NextIntake == IntakeInv /\ [Next]_vars => IntakeInv'
<1> SUFFICES ASSUME IntakeInv, [Next]_vars PROVE IntakeInv'
  OBVIOUS
<1>1. ASSUME NEW h \in Handlers, NEW e \in Events, Deliver(h, e) PROVE IntakeInv'
  BY <1>1, DeliverStep
<1>2. ASSUME NEW h \in Handlers, Route(h) PROVE IntakeInv'
  BY <1>2, LookStep, DuplicateStep, ClaimStep, PersistStep, EnqueueStep, CommitStep
  DEF Route
<1>3. ASSUME NEW h \in Handlers, Raise(h) PROVE IntakeInv'
  BY <1>3, RaiseStep
<1>4. ASSUME NEW e \in Events, Skip(e) PROVE IntakeInv'
  BY <1>4, OtherSteps DEF Skip
<1>5. CASE Crash
  BY <1>5, CrashStep
<1>6. CASE UNCHANGED vars
  BY <1>6, OtherSteps DEF vars
<1> QED BY <1>1, <1>2, <1>3, <1>4, <1>5, <1>6 DEF Next

LEMMA IntakeImplies == IntakeInv => EventsTakeEffectOnce
BY DEF IntakeInv, Effects, Effective, EventsTakeEffectOnce

\* api_webhook_razorpay, "durable, idempotent": however deliveries overlap, fail
\* and are repeated, an event takes effect at most once and only as a whole.
THEOREM EventsAreIdempotent == Spec => []EventsTakeEffectOnce
<1>1. IntakeInv => EventsTakeEffectOnce
  BY IntakeImplies
<1> QED BY <1>1, InitIntake, NextIntake, PTL DEF Spec
===============================================================================
