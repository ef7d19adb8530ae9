---------------------------- MODULE AgentRunsProofs ----------------------------
(***************************************************************************)
(* Proofs about AgentRuns, for any number of cases, sweeps and replays,    *)
(* with dropped runs, webhooks and waits for the write lock that time out: *)
(* a case is settled once, its row is what its last work decided, and seen *)
(* from the database it obeys CaseContract, unless a run overtook another  *)
(* with this very case.                                                    *)
(*                                                                         *)
(* The argument: one run at a time has the lock and a draft; draft and     *)
(* stored tables are both sound, and as long as a case was not overtaken   *)
(* the draft is the stored case or the contract's next step from it. What  *)
(* a run has read is older than the tables, but the tables only grow: a    *)
(* status it has read was worked, and a signed event is the sealed one, so *)
(* that a case once found invalid is never debited.                        *)
(***************************************************************************)
EXTENDS AgentRunsProps, SequenceTheorems, TLAPS

Rows  == [worked : BOOLEAN, after : CaseStatuses, debited : BOOLEAN]
Books == [status : [Cases -> CaseStatuses], trail : [Cases -> Seq(Rows)]]
Snaps == [event : [Cases -> Events], status : [Cases -> CaseStatuses]]

Types ==
  /\ event \in [Cases -> Events] /\ sealed \in [Cases -> Events]
  /\ stored \in Books /\ draft \in Books
  /\ lock \in Runs \cup {NoRun}
  /\ phase \in [Runs -> {"idle", "loaded", "ready", "unlocked", "running", "done"}]
  /\ snap \in [Runs -> Snaps]
  /\ todo \in [Runs -> SUBSET Cases] /\ early \in [Runs -> SUBSET Cases]
  /\ overtaken \subseteq Cases

\* The run that is writing is the one that has the lock.
Locked == \A r \in Runs : phase[r] = "running" <=> lock = r

\* A run without the lock is about to write one case at most.
OneEarly == \A r \in Runs : \A c, d \in early[r] : c = d

\* The rows of a case: what was debited was worked and not invalid, a worked case
\* has a terminal status, and a settled one is known to the idempotency check.
Sound(book, c) ==
  /\ \A i \in DebitedIn(book, c) : i \in WorkedIn(book, c)
                                   /\ book.trail[c][i].after # "invalid"
  /\ \A i \in WorkedIn(book, c) : book.trail[c][i].after \in TerminalStatuses
  /\ book.status[c] = "new" <=> WorkedIn(book, c) = {}
  /\ book.status[c] \in {"new", "invalid"} \/ HasTerminalAudit(book, c)
  /\ \A i \in WorkedIn(book, c) :
       (\A j \in WorkedIn(book, c) : j <= i)
         => book.status[c] = book.trail[c][i].after \/ book.trail[c][i].after = "invalid"

\* A case that no run overtook: nothing but refusals as invalid before its last
\* work, and that is what its row says.
Regular(book, c) ==
  /\ \A i, j \in WorkedIn(book, c) : i < j => book.trail[c][i].after = "invalid"
  /\ \A i \in WorkedIn(book, c) :
       (\A j \in WorkedIn(book, c) : j <= i) => book.status[c] = book.trail[c][i].after

\* An invalid case was sealed as malformed.
Malformed == [kind |-> "malformed", signed |-> TRUE]

Refused(book, c) == book.status[c] = "invalid" => sealed[c] = Malformed

\* The draft of a case next to its stored rows: the same for the contract, one
\* step of the contract ahead, or rejected after it was found invalid.
Same(old, new, c) == /\ new.status[c] = old.status[c]
                     /\ DebitedIn(new, c) = {} <=> DebitedIn(old, c) = {}

Ahead(old, new, c) ==
  /\ old.status[c] = "new" /\ DebitedIn(old, c) = {}
  /\ \/ new.status[c] \in {"rejected", "invalid", "escalated"} /\ DebitedIn(new, c) = {}
     \/ new.status[c] \in {"recovered", "escalated"} /\ DebitedIn(new, c) # {}

Restated(old, new, c) ==
  old.status[c] = "invalid" /\ new.status[c] = "rejected" /\ DebitedIn(new, c) = {}

Follows(old, new, c) == Same(old, new, c) \/ Ahead(old, new, c) \/ Restated(old, new, c)

\* No work and no terminal row is ever taken back.
Grown(old, new, c) ==
  /\ WorkedIn(old, c) # {} => WorkedIn(new, c) # {}
  /\ HasTerminalAudit(old, c) => HasTerminalAudit(new, c)

\* What a run has read of a case, next to what is stored now.
ReadOf(s, book, c) ==
  /\ s.event[c].signed => s.event[c] = sealed[c]
  /\ \/ s.status[c] = "new"
     \/ WorkedIn(book, c) # {} /\ (s.status[c] = "invalid" \/ HasTerminalAudit(book, c))

Read ==
  /\ \A c \in Cases : event[c].signed => event[c] = sealed[c]
  /\ \A r \in Runs, c \in Cases : ReadOf(snap[r], stored, c)
  /\ \A r \in Runs : phase[r] = "unlocked" =>
       \A c \in early[r] : snap[r].status[c] \in {"new", "invalid"}

RunInv ==
  /\ Types /\ Locked /\ OneEarly /\ Read
  /\ \A c \in Cases : Sound(stored, c) /\ Sound(draft, c)
  /\ \A c \in Cases : Refused(stored, c) /\ Refused(draft, c)
  /\ \A c \in Cases \ overtaken : Regular(stored, c) /\ Regular(draft, c)
  /\ lock # NoRun => /\ \A c \in Cases : Grown(stored, draft, c)
                     /\ \A c \in Cases \ overtaken : Follows(stored, draft, c)

-------------------------------------------------------------------------------
(* What a run adds to a book.                                                  *)

\* A row is appended to the trail of c; the other cases stay as they are.
Extended(book, new, c, row) ==
  /\ new \in Books
  /\ new.trail[c] = Append(book.trail[c], row)
  /\ \A d \in Cases \ {c} : new.trail[d] = book.trail[d] /\ new.status[d] = book.status[d]

LEMMA Untouched ==
  ASSUME NEW book \in Books, NEW new, NEW c \in Cases,
         new.trail[c] = book.trail[c], new.status[c] = book.status[c]
  PROVE  /\ WorkedIn(new, c) = WorkedIn(book, c) /\ DebitedIn(new, c) = DebitedIn(book, c)
         /\ Sound(book, c) => Sound(new, c)
         /\ Refused(book, c) => Refused(new, c)
         /\ Regular(book, c) => Regular(new, c)
         /\ Same(book, new, c) /\ Grown(book, new, c)
<1>1. /\ WorkedIn(new, c) = WorkedIn(book, c) /\ DebitedIn(new, c) = DebitedIn(book, c)
      /\ HasTerminalAudit(new, c) <=> HasTerminalAudit(book, c)
  BY DEF WorkedIn, DebitedIn, HasTerminalAudit
<1> QED BY <1>1 DEF Sound, Refused, Regular, Same, Grown

LEMMA ExtendedTrail ==
  ASSUME NEW book \in Books, NEW new, NEW c \in Cases, NEW row \in Rows,
         Extended(book, new, c, row)
  PROVE  /\ Len(book.trail[c]) \in Nat /\ Len(book.trail[c]) + 1 \notin WorkedIn(book, c)
         /\ \A i \in WorkedIn(book, c) : i \in Nat /\ i <= Len(book.trail[c])
         /\ new.trail[c][Len(book.trail[c]) + 1] = row
         /\ \A i \in 1..Len(book.trail[c]) : new.trail[c][i] = book.trail[c][i]
         /\ row.worked => WorkedIn(new, c) = WorkedIn(book, c) \cup {Len(book.trail[c]) + 1}
         /\ ~row.worked => WorkedIn(new, c) = WorkedIn(book, c)
         /\ row.debited => DebitedIn(new, c) = DebitedIn(book, c) \cup {Len(book.trail[c]) + 1}
         /\ ~row.debited => DebitedIn(new, c) = DebitedIn(book, c)
         /\ HasTerminalAudit(book, c) => HasTerminalAudit(new, c)
         /\ row.after \in TerminalAuditStatuses => HasTerminalAudit(new, c)
<1>1. book.trail[c] \in Seq(Rows)
  BY DEF Books
<1>2. /\ Len(new.trail[c]) = Len(book.trail[c]) + 1 /\ Len(book.trail[c]) \in Nat
      /\ new.trail[c][Len(book.trail[c]) + 1] = row
      /\ \A i \in 1..Len(book.trail[c]) : new.trail[c][i] = book.trail[c][i]
  BY <1>1 DEF Extended
<1>3. \A i : i \in 1..Len(new.trail[c]) <=> \/ i \in 1..Len(book.trail[c])
                                            \/ i = Len(book.trail[c]) + 1
  BY <1>2
<1>4. Len(book.trail[c]) + 1 \notin 1..Len(book.trail[c])
  BY <1>2
<1>5. /\ row.worked => WorkedIn(new, c) = WorkedIn(book, c) \cup {Len(book.trail[c]) + 1}
      /\ ~row.worked => WorkedIn(new, c) = WorkedIn(book, c)
  BY <1>2, <1>3, <1>4, Zenon DEF WorkedIn
<1>6. /\ row.debited => DebitedIn(new, c) = DebitedIn(book, c) \cup {Len(book.trail[c]) + 1}
      /\ ~row.debited => DebitedIn(new, c) = DebitedIn(book, c)
  BY <1>2, <1>3, <1>4, Zenon DEF DebitedIn
<1>7. /\ HasTerminalAudit(book, c) => HasTerminalAudit(new, c)
      /\ row.after \in TerminalAuditStatuses => HasTerminalAudit(new, c)
  BY <1>2, <1>3, Zenon DEF HasTerminalAudit
<1> QED BY <1>2, <1>5, <1>6, <1>7 DEF WorkedIn, DebitedIn

\* DiagnosisAgent.note_duplicate changes nothing that the contract sees.
LEMMA NoteEffect ==
  ASSUME Types, NEW r \in Runs, NEW c \in Cases, NEW book \in Books, NEW new,
         new = NoteDuplicate(r, c, book),
         \A d \in Cases : Sound(book, d) /\ Refused(book, d)
  PROVE  /\ new \in Books
         /\ \A d \in Cases : /\ Sound(new, d) /\ Refused(new, d)
                             /\ Same(book, new, d) /\ Grown(book, new, d)
                             /\ Regular(book, d) => Regular(new, d)
<1> DEFINE row == [worked |-> FALSE, after |-> snap[r].status[c], debited |-> FALSE]
<1>1. row \in Rows
  BY DEF Types, Snaps, Rows
<1>2. /\ new.status = book.status
      /\ new.trail = [book.trail EXCEPT ![c] = Append(@, row)]
      /\ new = [status |-> new.status, trail |-> new.trail]
  BY DEF NoteDuplicate, Books
<1>3. Extended(book, new, c, row)
  <2>1. new.trail \in [Cases -> Seq(Rows)]
    BY <1>1, <1>2 DEF Books
  <2>2. new \in Books
    BY <1>2, <2>1 DEF Books
  <2> QED BY <1>2, <2>2 DEF Extended, Books
<1> HIDE DEF row
<1>4. ~row.worked /\ ~row.debited
  BY DEF row
<1>5. /\ WorkedIn(new, c) = WorkedIn(book, c) /\ DebitedIn(new, c) = DebitedIn(book, c)
      /\ HasTerminalAudit(book, c) => HasTerminalAudit(new, c)
  BY <1>1, <1>3, <1>4, ExtendedTrail
<1>6. \A i \in 1..Len(book.trail[c]) : new.trail[c][i] = book.trail[c][i]
  BY <1>1, <1>3, ExtendedTrail
<1>7. \A i \in WorkedIn(book, c) : new.trail[c][i] = book.trail[c][i]
  BY <1>6 DEF WorkedIn
<1>8. \A i \in DebitedIn(book, c) : new.trail[c][i] = book.trail[c][i]
  BY <1>6 DEF DebitedIn
<1>9. /\ Sound(new, c) /\ Refused(new, c) /\ Same(book, new, c) /\ Grown(book, new, c)
      /\ Regular(book, c) => Regular(new, c)
  <2>1. Sound(book, c) /\ Refused(book, c) /\ new.status[c] = book.status[c]
    BY <1>2
  <2>2. Sound(new, c)
    BY <1>5, <1>7, <1>8, <2>1, Zenon DEF Sound
  <2>3. Regular(book, c) => Regular(new, c)
    BY <1>5, <1>7, <2>1, Zenon DEF Regular
  <2> QED BY <1>5, <2>1, <2>2, <2>3 DEF Refused, Same, Grown
<1>10. ASSUME NEW d \in Cases \ {c}
       PROVE  /\ Sound(new, d) /\ Refused(new, d) /\ Same(book, new, d)
              /\ Grown(book, new, d) /\ (Regular(book, d) => Regular(new, d))
  BY <1>3, Untouched DEF Extended
<1> QED BY <1>3, <1>9, <1>10 DEF Extended

\* A case that passes the idempotency check was refused as invalid at most.
LEMMA Unsettled ==
  ASSUME NEW book \in Books, NEW c \in Cases, Sound(book, c), ~HasTerminalAudit(book, c)
  PROVE  /\ book.status[c] \in {"new", "invalid"} /\ DebitedIn(book, c) = {}
         /\ \A i \in WorkedIn(book, c) : book.trail[c][i].after = "invalid"
<1>1. \A i \in WorkedIn(book, c) : book.trail[c][i].after = "invalid"
  BY DEF Sound, HasTerminalAudit, WorkedIn, TerminalStatuses, TerminalAuditStatuses
<1> QED BY <1>1 DEF Sound

\* The rest of RecoveryPipeline.process_case, on a case that the run has read as new
\* or as invalid.
LEMMA WorkEffect ==
  ASSUME Types, NEW r \in Runs, NEW c \in Cases, NEW book \in Books,
         NEW new \in Worked(r, c, book),
         \A d \in Cases : Sound(book, d) /\ Refused(book, d),
         snap[r].status[c] = "new" \/ (snap[r].status[c] = "invalid" /\ WorkedIn(book, c) # {}),
         snap[r].event[c].signed => snap[r].event[c] = sealed[c]
  PROVE  /\ new \in Books
         /\ \A d \in Cases : Sound(new, d) /\ Refused(new, d) /\ Grown(book, new, d)
         /\ \A d \in Cases \ {c} : Same(book, new, d) /\ (Regular(book, d) => Regular(new, d))
         /\ ~HasTerminalAudit(book, c) =>
              /\ Regular(new, c)
              /\ Ahead(book, new, c) \/ Same(book, new, c) \/ Restated(book, new, c)
<1>1. PICK v \in Verdicts(snap[r].event[c]) : new = Write(r, c, book, v)
  BY DEF Worked
<1>2. snap[r].event[c] \in Events
  BY DEF Types, Snaps
<1>3. /\ v.status \in TerminalStatuses /\ v.debited \in BOOLEAN
      /\ v.status \in {"rejected", "invalid"} => ~v.debited
      /\ v.status = "recovered" => v.debited
      /\ v.status = "invalid" => snap[r].event[c] = Malformed
      /\ snap[r].event[c] = Malformed => v.status = "invalid"
      /\ ~snap[r].event[c].signed => v.status = "rejected"
  <2> DEFINE e == snap[r].event[c]
  <2>1. e.signed \in BOOLEAN /\ e.kind \in {"malformed", "revoked", "payable"}
    BY <1>2 DEF Events
  <2>2. CASE ~e.signed
    <3>1. v = Verdict("rejected", FALSE)
      BY <2>2 DEF Verdicts
    <3>2. e # Malformed
      BY <2>2 DEF Malformed
    <3> QED BY <2>2, <3>1, <3>2 DEF Verdict, TerminalStatuses
  <2>3. CASE e.signed /\ e.kind = "malformed"
    <3>1. v = Verdict("invalid", FALSE) /\ e = Malformed
      BY <1>2, <2>3 DEF Verdicts, Events, Malformed
    <3> QED BY <2>3, <3>1 DEF Verdict, TerminalStatuses
  <2>4. CASE e.signed /\ e.kind = "revoked"
    <3>1. v = Verdict("escalated", FALSE) /\ e # Malformed
      BY <2>4 DEF Verdicts, Malformed
    <3> QED BY <2>4, <3>1 DEF Verdict, TerminalStatuses
  <2>5. CASE e.signed /\ e.kind = "payable"
    <3>1. PICK t \in {"recovered", "escalated"} : v = Verdict(t, TRUE)
      BY <2>5 DEF Verdicts
    <3>2. e # Malformed
      BY <2>5 DEF Malformed
    <3> QED BY <2>5, <3>1, <3>2 DEF Verdict, TerminalStatuses
  <2> QED BY <2>1, <2>2, <2>3, <2>4, <2>5
<1> DEFINE row == WorkRow(v)
           n == Len(book.trail[c]) + 1
           s == IF snap[r].status[c] = v.status THEN book.status[c] ELSE v.status
<1>4. row \in Rows /\ s \in CaseStatuses
  BY <1>3 DEF WorkRow, Rows, CaseStatuses, TerminalStatuses, Books
<1>5. /\ new.status = [book.status EXCEPT ![c] = s]
      /\ new.trail = [book.trail EXCEPT ![c] = Append(@, row)]
      /\ new = [status |-> new.status, trail |-> new.trail]
  BY <1>1 DEF Write, Books
<1>6. Extended(book, new, c, row) /\ new.status[c] = s
  <2>1. new.trail \in [Cases -> Seq(Rows)]
    BY <1>4, <1>5 DEF Books
  <2>2. new.status \in [Cases -> CaseStatuses]
    BY <1>4, <1>5 DEF Books
  <2>3. new \in Books
    BY <1>5, <2>1, <2>2 DEF Books
  <2> QED BY <1>5, <2>3 DEF Extended, Books
<1>7. row.worked /\ row.after = v.status /\ (row.debited <=> v.debited)
  BY <1>3 DEF WorkRow
\* What is set is the verdict, or the case is invalid already and stays what it is.
<1>8. \/ s = v.status
      \/ v.status = "invalid" /\ s = book.status[c] /\ WorkedIn(book, c) # {}
  BY <1>3 DEF TerminalStatuses
<1> HIDE DEF row, s
<1>9. /\ n \in Nat /\ n \notin WorkedIn(book, c) /\ new.trail[c][n] = row
      /\ \A i \in WorkedIn(book, c) : i \in Nat /\ i < n
      /\ \A i \in WorkedIn(book, c) : new.trail[c][i] = book.trail[c][i]
      /\ \A i \in DebitedIn(book, c) : new.trail[c][i] = book.trail[c][i]
      /\ WorkedIn(new, c) = WorkedIn(book, c) \cup {n}
      /\ v.debited => DebitedIn(new, c) = DebitedIn(book, c) \cup {n}
      /\ ~v.debited => DebitedIn(new, c) = DebitedIn(book, c)
  BY <1>4, <1>6, <1>7, ExtendedTrail DEF WorkedIn, DebitedIn
<1>10. /\ HasTerminalAudit(book, c) => HasTerminalAudit(new, c)
       /\ v.status \in TerminalAuditStatuses => HasTerminalAudit(new, c)
  BY <1>4, <1>6, <1>7, ExtendedTrail
<1> HIDE DEF n
<1>11. Sound(book, c) /\ Refused(book, c)
  OBVIOUS
<1>12. Sound(new, c)
  <2>1. ASSUME NEW i \in DebitedIn(new, c)
        PROVE  i \in WorkedIn(new, c) /\ new.trail[c][i].after # "invalid"
    <3>1. CASE i \in DebitedIn(book, c)
      BY <1>9, <1>11, <3>1 DEF Sound
    <3>2. CASE i \notin DebitedIn(book, c)
      BY <1>3, <1>7, <1>9, <3>2
    <3> QED BY <3>1, <3>2
  <2>2. \A i \in WorkedIn(new, c) : new.trail[c][i].after \in TerminalStatuses
    BY <1>3, <1>7, <1>9, <1>11 DEF Sound
  <2>3. s # "new"
    BY <1>3, <1>8, <1>11 DEF Sound, TerminalStatuses
  <2>4. s \in {"new", "invalid"} \/ HasTerminalAudit(new, c)
    BY <1>3, <1>8, <1>10, <1>11 DEF Sound, TerminalStatuses, TerminalAuditStatuses
  <2>5. ASSUME NEW i \in WorkedIn(new, c), \A j \in WorkedIn(new, c) : j <= i
        PROVE  s = new.trail[c][i].after \/ new.trail[c][i].after = "invalid"
    <3>1. i = n
      BY <1>9, <2>5
    <3> QED BY <1>7, <1>8, <1>9, <3>1
  <2> QED BY <1>6, <1>9, <2>1, <2>2, <2>3, <2>4, <2>5 DEF Sound
<1>13. Refused(new, c)
  BY <1>3, <1>6, <1>8, <1>11 DEF Refused, Malformed
<1>14. Grown(book, new, c)
  BY <1>9, <1>10 DEF Grown
<1>15. ASSUME ~HasTerminalAudit(book, c)
       PROVE  /\ Regular(new, c)
              /\ Ahead(book, new, c) \/ Same(book, new, c) \/ Restated(book, new, c)
  <2>1. /\ book.status[c] \in {"new", "invalid"} /\ DebitedIn(book, c) = {}
        /\ \A i \in WorkedIn(book, c) : book.trail[c][i].after = "invalid"
    BY <1>11, <1>15, Unsettled
  <2>2. s = v.status
    BY <1>8, <1>11, <2>1 DEF Sound
  <2>3. Regular(new, c)
    <3>1. \A i, j \in WorkedIn(new, c) : i < j => new.trail[c][i].after = "invalid"
      BY <1>9, <2>1
    <3>2. ASSUME NEW i \in WorkedIn(new, c), \A j \in WorkedIn(new, c) : j <= i
          PROVE  new.status[c] = new.trail[c][i].after
      <4>1. i = n
        BY <1>9, <3>2
      <4> QED BY <1>6, <1>7, <1>9, <2>2, <4>1
    <3> QED BY <3>1, <3>2 DEF Regular
  <2>4. DebitedIn(new, c) = {} <=> ~v.debited
    BY <1>3, <1>9, <2>1
  <2>5. CASE book.status[c] = "new"
    <3>1. new.status[c] = v.status
      BY <1>6, <2>2
    <3>2. CASE v.debited
      <4>1. v.status \in {"recovered", "escalated"}
        BY <1>3, <3>2 DEF TerminalStatuses
      <4> QED BY <2>1, <2>3, <2>4, <2>5, <3>1, <3>2, <4>1 DEF Ahead
    <3>3. CASE ~v.debited
      <4>1. v.status \in {"rejected", "invalid", "escalated"}
        BY <1>3, <3>3 DEF TerminalStatuses
      <4> QED BY <2>1, <2>3, <2>4, <2>5, <3>1, <3>3, <4>1 DEF Ahead
    <3> QED BY <3>2, <3>3
  <2>6. CASE book.status[c] = "invalid"
    <3>1. sealed[c] = Malformed
      BY <1>11, <2>6 DEF Refused
    <3>2. v.status \in {"invalid", "rejected"}
      BY <1>3, <3>1
    <3>3. ~v.debited
      BY <1>3, <3>2
    <3>4. new.status[c] = v.status /\ DebitedIn(new, c) = {}
      BY <1>6, <2>2, <2>4, <3>3
    <3>5. CASE v.status = "invalid"
      BY <2>1, <2>3, <2>6, <3>4, <3>5 DEF Same
    <3>6. CASE v.status = "rejected"
      BY <2>3, <2>6, <3>4, <3>6 DEF Restated
    <3> QED BY <3>2, <3>5, <3>6
  <2> QED BY <2>1, <2>3, <2>5, <2>6
<1>16. ASSUME NEW d \in Cases \ {c}
       PROVE  /\ Sound(new, d) /\ Refused(new, d) /\ Grown(book, new, d)
              /\ Same(book, new, d) /\ (Regular(book, d) => Regular(new, d))
  BY <1>6, Untouched DEF Extended
<1> QED BY <1>6, <1>12, <1>13, <1>14, <1>15, <1>16 DEF Extended

\* What a run has read remains true of a table that has grown.
LEMMA StillRead ==
  ASSUME NEW s, NEW old, NEW new, NEW c, ReadOf(s, old, c), Grown(old, new, c)
  PROVE  ReadOf(s, new, c)
BY Zenon DEF ReadOf, Grown

-------------------------------------------------------------------------------
(* The steps of a run.                                                         *)

LEMMA InitRuns == Init => RunInv
<1> SUFFICES ASSUME Init PROVE RunInv
  OBVIOUS
<1>1. Types
  BY DEF Init, Types, Books, Snaps, NoSnap, Events, FirstEvents, CaseStatuses
<1>2. \A c \in Cases : stored.trail[c] = << >> /\ stored.status[c] = "new"
  BY DEF Init
<1>3. \A c \in Cases : WorkedIn(stored, c) = {} /\ DebitedIn(stored, c) = {}
  BY <1>2 DEF WorkedIn, DebitedIn
<1>4. \A c \in Cases : Sound(stored, c) /\ Refused(stored, c) /\ Regular(stored, c)
  BY <1>2, <1>3 DEF Sound, Refused, Regular
<1>5. Locked /\ OneEarly
  BY AgentRunsAssumption DEF Init, Locked, OneEarly
<1>6. Read
  BY DEF Init, Read, ReadOf, NoSnap
<1> QED BY <1>1, <1>4, <1>5, <1>6 DEF Init, RunInv

\* The run is over: its local variables are reset, the lock is another's or free.
LEMMA ReturnEffect ==
  ASSUME RunInv, NEW r \in Runs, Return(r), NEW book,
         \A q \in Runs, c \in Cases : ReadOf(snap[q], book, c)
  PROVE  /\ phase' = [phase EXCEPT ![r] = "done"]
         /\ snap' \in [Runs -> Snaps]
         /\ todo' \in [Runs -> SUBSET Cases] /\ early' \in [Runs -> SUBSET Cases]
         /\ OneEarly'
         /\ \A q \in Runs, c \in Cases : ReadOf(snap'[q], book, c)
         /\ \A q \in Runs : phase'[q] = "unlocked" =>
              \A c \in early'[q] : snap'[q].status[c] \in {"new", "invalid"}
<1>1. NoSnap \in Snaps
  BY DEF NoSnap, Snaps, Events, CaseStatuses
<1>2. \A c \in Cases : ReadOf(NoSnap, book, c)
  BY DEF NoSnap, ReadOf
<1>3. /\ snap' = [snap EXCEPT ![r] = NoSnap] /\ early' = [early EXCEPT ![r] = {}]
      /\ todo' = [todo EXCEPT ![r] = {}] /\ phase' = [phase EXCEPT ![r] = "done"]
  BY DEF Return
<1>4. \A q \in Runs, c \in Cases : ReadOf(snap'[q], book, c)
  <2>1. \A q \in Runs : snap'[q] = NoSnap \/ snap'[q] = snap[q]
    BY <1>3 DEF RunInv, Types
  <2> QED BY <1>2, <2>1, Zenon
<1>5. \A q \in Runs : phase'[q] = "unlocked" =>
        \A c \in early'[q] : snap'[q].status[c] \in {"new", "invalid"}
  BY <1>3 DEF RunInv, Types, Read
<1> QED BY <1>1, <1>3, <1>4, <1>5 DEF RunInv, Types, OneEarly

\* The invariant of the next state, from what has become of the tables.
LEMMA TablesStep ==
  ASSUME Types', Locked', OneEarly', Read', sealed' = sealed,
         \A c \in Cases : Sound(stored', c) /\ Sound(draft', c),
         \A c \in Cases : Refused(stored', c) /\ Refused(draft', c),
         \A c \in Cases \ overtaken' : Regular(stored', c) /\ Regular(draft', c),
         lock' # NoRun => /\ \A c \in Cases : Grown(stored', draft', c)
                          /\ \A c \in Cases \ overtaken' : Follows(stored', draft', c)
  PROVE  RunInv'
<1>1. \A c \in Cases : Sound(stored, c)' /\ Sound(draft, c)'
  BY DEF Sound, WorkedIn, DebitedIn, HasTerminalAudit
<1>2. \A c \in Cases : Refused(stored, c)' /\ Refused(draft, c)'
  BY DEF Refused
<1>3. \A c \in Cases \ overtaken' : Regular(stored, c)' /\ Regular(draft, c)'
  BY DEF Regular, WorkedIn
<1>4. ASSUME lock' # NoRun
      PROVE  /\ \A c \in Cases : Grown(stored, draft, c)'
             /\ \A c \in Cases \ overtaken' : Follows(stored, draft, c)'
  BY <1>4 DEF Grown, Follows, Same, Ahead, Restated, WorkedIn, DebitedIn, HasTerminalAudit
<1> QED BY <1>1, <1>2, <1>3, <1>4 DEF RunInv

\* What the runs have read, in the next state.
LEMMA ReadStep ==
  ASSUME sealed' = sealed,
         \A c \in Cases : event'[c].signed => event'[c] = sealed[c],
         \A r \in Runs, c \in Cases : ReadOf(snap'[r], stored', c),
         \A r \in Runs : phase'[r] = "unlocked" =>
           \A c \in early'[r] : snap'[r].status[c] \in {"new", "invalid"}
  PROVE  Read'
BY DEF Read, ReadOf, WorkedIn, HasTerminalAudit

\* No table changes, and nobody gets the lock or loses it.
LEMMA LocalStep ==
  ASSUME RunInv, NEW r \in Runs, UNCHANGED <<event, sealed, stored, draft, lock, overtaken>>,
         snap' \in [Runs -> Snaps],
         todo' \in [Runs -> SUBSET Cases], early' \in [Runs -> SUBSET Cases], OneEarly',
         \A q \in Runs, c \in Cases : ReadOf(snap'[q], stored, c),
         \A q \in Runs : phase'[q] = "unlocked" =>
           \A c \in early'[q] : snap'[q].status[c] \in {"new", "invalid"},
         NEW p \in {"idle", "loaded", "ready", "unlocked", "done"},
         phase[r] # "running", phase' = [phase EXCEPT ![r] = p]
  PROVE  RunInv'
<1>1. Types'
  BY DEF RunInv, Types
<1>2. Locked'
  BY DEF RunInv, Types, Locked
<1>3. Read'
  BY ReadStep DEF RunInv, Read
<1> QED BY <1>1, <1>2, <1>3, TablesStep DEF RunInv

\* What is stored can be read.
LEMMA StoredIsRead ==
  ASSUME RunInv, NEW c \in Cases
  PROVE  ReadOf([event |-> event, status |-> stored.status], stored, c)
<1>1. stored.status[c] = "new" \/ WorkedIn(stored, c) # {}
  BY DEF RunInv, Sound
<1>2. stored.status[c] \in {"new", "invalid"} \/ HasTerminalAudit(stored, c)
  BY DEF RunInv, Sound
<1> QED BY <1>1, <1>2 DEF ReadOf, RunInv, Read

LEMMA LoadStep == ASSUME RunInv, NEW r \in Runs, Load(r) PROVE RunInv'
<1>1. PICK p \in {"ready", "loaded"} : phase' = [phase EXCEPT ![r] = p]
  BY DEF Load
<1>2. /\ snap' = [snap EXCEPT ![r] = [event |-> event, status |-> stored.status]]
      /\ snap \in [Runs -> Snaps] /\ early' = early
  BY DEF Load, RunInv, Types
<1>3. snap' \in [Runs -> Snaps]
  BY <1>2 DEF RunInv, Types, Snaps, Books
<1>4. todo' \in [Runs -> SUBSET Cases]
  BY DEF Load, RunInv, Types
<1>5. \A q \in Runs, c \in Cases : ReadOf(snap'[q], stored, c)
  <2>1. ASSUME NEW q \in Runs, NEW c \in Cases, q = r PROVE ReadOf(snap'[q], stored, c)
    BY <1>2, <2>1, StoredIsRead
  <2>2. ASSUME NEW q \in Runs, NEW c \in Cases, q # r PROVE ReadOf(snap'[q], stored, c)
    BY <1>2, <2>2 DEF RunInv, Read
  <2> QED BY <2>1, <2>2
<1>6. \A q \in Runs : phase'[q] = "unlocked" =>
        \A c \in early'[q] : snap'[q].status[c] \in {"new", "invalid"}
  BY <1>1, <1>2 DEF RunInv, Types, Read
<1>7. /\ early' \in [Runs -> SUBSET Cases] /\ OneEarly' /\ phase[r] # "running"
      /\ UNCHANGED <<event, sealed, stored, draft, lock, overtaken>>
  BY DEF Load, RunInv, Types, OneEarly
<1> QED BY <1>1, <1>3, <1>4, <1>5, <1>6, <1>7, LocalStep

LEMMA CheckReplayStep == ASSUME RunInv, NEW r \in Runs, CheckReplay(r) PROVE RunInv'
<1>1. CASE Return(r)
  BY <1>1, ReturnEffect, LocalStep DEF CheckReplay, RunInv, Types, Read
<1>2. CASE ~Return(r)
  BY <1>2, LocalStep DEF CheckReplay, RunInv, Types, OneEarly, Read
<1> QED BY <1>1, <1>2

LEMMA TimeOutStep == ASSUME RunInv, NEW r \in Runs, TimeOut(r) PROVE RunInv'
<1>1. PICK c \in Cases : early' = [early EXCEPT ![r] = IF HasTerminalAudit(stored, c)
                                                       THEN {} ELSE {c}]
  BY DEF TimeOut, RunInv, Types
<1>2. early' \in [Runs -> SUBSET Cases] /\ OneEarly'
  BY <1>1 DEF RunInv, Types, OneEarly
<1>3. /\ snap' = snap /\ phase' = [phase EXCEPT ![r] = "unlocked"]
      /\ \A q \in Runs, d \in Cases : ReadOf(snap[q], stored, d)
  BY DEF TimeOut, RunInv, Read
<1>4. \A d \in early'[r] : snap[r].status[d] \in {"new", "invalid"}
  <2>1. \A d \in early'[r] : d = c /\ ~HasTerminalAudit(stored, c)
    BY <1>1 DEF RunInv, Types
  <2> QED BY <1>3, <2>1 DEF ReadOf
<1>5. \A q \in Runs : phase'[q] = "unlocked" =>
        \A d \in early'[q] : snap'[q].status[d] \in {"new", "invalid"}
  BY <1>1, <1>3, <1>4 DEF RunInv, Types, Read
<1> QED BY <1>2, <1>3, <1>5, LocalStep DEF TimeOut, RunInv, Types

LEMMA GiveUpStep == ASSUME RunInv, NEW r \in Runs, GiveUp(r) PROVE RunInv'
<1>1. \A q \in Runs, c \in Cases : ReadOf(snap[q], stored, c)
  BY DEF RunInv, Read
<1> QED BY <1>1, ReturnEffect, LocalStep DEF GiveUp

\* A run gets the lock.
LEMMA BeginStep == ASSUME RunInv, NEW r \in Runs, Begin(r) PROVE RunInv'
<1>1. Types' /\ Locked' /\ OneEarly'
  BY AgentRunsAssumption DEF Begin, RunInv, Types, Locked, OneEarly
<1>2. /\ stored' = stored /\ draft' = stored /\ sealed' = sealed
      /\ event' = event /\ snap' = snap /\ early' = early
      /\ phase' = [phase EXCEPT ![r] = "running"] /\ overtaken' = overtaken
  BY DEF Begin
<1>3. Read'
  BY <1>2, ReadStep DEF RunInv, Types, Read
<1>4. \A c \in Cases : Grown(stored', draft', c) /\ Follows(stored', draft', c)
  BY <1>2 DEF Grown, Follows, Same
<1> QED BY <1>1, <1>2, <1>3, <1>4, TablesStep DEF RunInv

\* A run without the lock writes the case it had found unprocessed.
LEMMA LateWriteStep == ASSUME RunInv, NEW r \in Runs, LateWrite(r) PROVE RunInv'
<1>1. Locked' /\ OneEarly' /\ overtaken' \subseteq Cases
  BY AgentRunsAssumption DEF LateWrite, RunInv, Types, Locked, OneEarly
<1>2. /\ stored' = stored /\ sealed' = sealed /\ event' = event /\ snap' = snap
      /\ phase' = [phase EXCEPT ![r] = "running"] /\ early' = [early EXCEPT ![r] = {}]
  BY DEF LateWrite
<1>3. Read'
  BY <1>2, ReadStep DEF RunInv, Types, Read
<1>4. CASE early[r] = {}
  <2>1. draft' = stored /\ overtaken' = overtaken
    BY <1>4 DEF LateWrite
  <2>2. Types'
    BY <1>1, <1>4 DEF LateWrite, RunInv, Types
  <2>3. \A c \in Cases : Grown(stored', draft', c) /\ Follows(stored', draft', c)
    BY <1>2, <2>1 DEF Grown, Follows, Same
  <2> QED BY <1>1, <1>2, <1>3, <2>1, <2>2, <2>3, TablesStep DEF RunInv
<1>5. CASE early[r] # {}
  <2>1. PICK c \in early[r] : /\ draft' \in Worked(r, c, stored)
                              /\ todo' = [todo EXCEPT ![r] = @ \ {c}]
    BY <1>5 DEF LateWrite
  <2>2. c \in Cases /\ overtaken' = overtaken \cup {c}
    BY <2>1 DEF LateWrite, RunInv, Types, OneEarly
  <2>3. /\ ReadOf(snap[r], stored, c) /\ snap[r].status[c] \in {"new", "invalid"}
    BY <2>1, <2>2 DEF LateWrite, RunInv, Read
  <2>4. /\ snap[r].status[c] = "new" \/ (snap[r].status[c] = "invalid" /\ WorkedIn(stored, c) # {})
        /\ snap[r].event[c].signed => snap[r].event[c] = sealed[c]
    BY <2>3 DEF ReadOf
  <2>5. /\ draft' \in Books
        /\ \A d \in Cases : Sound(draft', d) /\ Refused(draft', d) /\ Grown(stored, draft', d)
        /\ \A d \in Cases \ {c} : Same(stored, draft', d)
                                  /\ (Regular(stored, d) => Regular(draft', d))
    BY <2>1, <2>2, <2>4, WorkEffect DEF RunInv, Types
  <2>6. Types'
    BY <1>1, <2>1, <2>5 DEF LateWrite, RunInv, Types
  <2>7. \A d \in Cases \ overtaken' : /\ Regular(stored', d) /\ Regular(draft', d)
                                      /\ Follows(stored', draft', d)
    BY <1>2, <2>2, <2>5 DEF RunInv, Follows
  <2>8. \A d \in Cases : /\ Sound(stored', d) /\ Sound(draft', d) /\ Refused(stored', d)
                         /\ Refused(draft', d) /\ Grown(stored', draft', d)
    BY <1>2, <2>5 DEF RunInv
  <2> QED BY <1>1, <1>2, <1>3, <2>6, <2>7, <2>8, TablesStep
<1> QED BY <1>4, <1>5

\* What follows the stored case still follows it after the next case of a run.
LEMMA StillFollows ==
  ASSUME NEW old \in Books, NEW mid, NEW new, NEW c,
         Follows(old, mid, c), Same(mid, new, c)
  PROVE  Follows(old, new, c)
BY Zenon DEF Follows, Same, Ahead, Restated

LEMMA StillGrown ==
  ASSUME NEW old, NEW mid, NEW new, NEW c, Grown(old, mid, c), Grown(mid, new, c)
  PROVE  Grown(old, new, c)
BY Zenon DEF Grown

\* Work on an unsettled draft leaves it at most one step ahead of the stored case.
LEMMA WorkFollows ==
  ASSUME NEW old \in Books, NEW mid \in Books, NEW new \in Books, NEW c \in Cases,
         Follows(old, mid, c), Ahead(mid, new, c) \/ Restated(mid, new, c)
  PROVE  Follows(old, new, c)
<1>1. CASE Ahead(mid, new, c)
  <2>1. old.status[c] = "new" /\ DebitedIn(old, c) = {}
    BY <1>1 DEF Follows, Same, Ahead, Restated
  <2> QED BY <1>1, <2>1 DEF Follows, Ahead
<1>2. CASE Restated(mid, new, c)
  BY <1>2 DEF Follows, Same, Ahead, Restated
<1> QED BY <1>1, <1>2

LEMMA ProcessStep == ASSUME RunInv, NEW r \in Runs, NEW c \in Cases, Process(r, c) PROVE RunInv'
<1>1. /\ lock = r /\ lock' = lock /\ lock # NoRun /\ sealed' = sealed
      /\ stored' = stored /\ overtaken' = overtaken /\ draft \in Books /\ stored \in Books
  BY AgentRunsAssumption DEF Process, RunInv, Types, Locked
<1>2. Locked' /\ OneEarly'
  BY DEF Process, RunInv, Locked, OneEarly
<1>3. Read'
  BY ReadStep DEF Process, RunInv, Read
<1>4. CASE HasTerminalAudit(draft, c)
  <2>1. draft' = NoteDuplicate(r, c, draft)
    BY <1>4 DEF Process
  <2>2. /\ draft' \in Books
        /\ \A d \in Cases : /\ Sound(draft', d) /\ Refused(draft', d)
                            /\ Same(draft, draft', d) /\ Grown(draft, draft', d)
                            /\ Regular(draft, d) => Regular(draft', d)
    BY <1>1, <2>1, NoteEffect DEF RunInv
  <2>3. Types'
    BY <2>2 DEF Process, RunInv, Types
  <2>4. \A d \in Cases \ overtaken' : /\ Regular(stored', d) /\ Regular(draft', d)
                                      /\ Follows(stored', draft', d)
    BY <1>1, <2>2, StillFollows DEF RunInv
  <2>5. \A d \in Cases : Grown(stored', draft', d)
    BY <1>1, <2>2, StillGrown DEF RunInv
  <2> QED BY <1>1, <1>2, <1>3, <2>2, <2>3, <2>4, <2>5, TablesStep DEF RunInv
<1>5. CASE ~HasTerminalAudit(draft, c)
  <2>1. draft' \in Worked(r, c, draft)
    BY <1>5 DEF Process
  <2>2. ReadOf(snap[r], stored, c) /\ Grown(stored, draft, c)
    BY <1>1 DEF RunInv, Read
  <2>3. /\ snap[r].status[c] = "new" \/ (snap[r].status[c] = "invalid" /\ WorkedIn(draft, c) # {})
        /\ snap[r].event[c].signed => snap[r].event[c] = sealed[c]
    BY <1>5, <2>2 DEF ReadOf, Grown
  <2>4. /\ draft' \in Books
        /\ \A d \in Cases : Sound(draft', d) /\ Refused(draft', d) /\ Grown(draft, draft', d)
        /\ \A d \in Cases \ {c} : Same(draft, draft', d) /\ (Regular(draft, d) => Regular(draft', d))
        /\ Regular(draft', c)
        /\ Ahead(draft, draft', c) \/ Same(draft, draft', c) \/ Restated(draft, draft', c)
    BY <1>1, <1>5, <2>1, <2>3, WorkEffect DEF RunInv
  <2>5. Types'
    BY <2>4 DEF Process, RunInv, Types
  <2>6. ASSUME NEW d \in Cases \ overtaken'
        PROVE  Regular(stored', d) /\ Regular(draft', d) /\ Follows(stored', draft', d)
    <3>1. Follows(stored, draft, d) /\ Regular(stored, d) /\ Regular(draft, d)
      BY <1>1 DEF RunInv
    <3>2. Regular(draft', d)
      BY <2>4, <3>1
    <3>3. \/ Same(draft, draft', d)
          \/ Ahead(draft, draft', d) \/ Restated(draft, draft', d)
      BY <2>4
    <3>4. Follows(stored, draft', d)
      BY <1>1, <2>4, <3>1, <3>3, StillFollows, WorkFollows
    <3> QED BY <1>1, <3>1, <3>2, <3>4
  <2>7. \A d \in Cases : Grown(stored', draft', d)
    BY <1>1, <2>4, StillGrown DEF RunInv
  <2> QED BY <1>1, <1>2, <1>3, <2>4, <2>5, <2>6, <2>7, TablesStep DEF RunInv
<1> QED BY <1>4, <1>5

LEMMA FinishStep == ASSUME RunInv, NEW r \in Runs, Finish(r) PROVE RunInv'
<1>1. lock = r /\ lock # NoRun /\ stored' = draft /\ draft' = draft /\ lock' = NoRun
  BY AgentRunsAssumption DEF Finish, RunInv, Types, Locked
<1>2. \A q \in Runs, c \in Cases : ReadOf(snap[q], draft, c)
  BY <1>1, StillRead DEF RunInv, Read
<1>3. Types' /\ OneEarly'
  BY <1>1, <1>2, ReturnEffect DEF Finish, RunInv, Types
<1>4. Locked'
  <2>1. phase' = [phase EXCEPT ![r] = "done"]
    BY <1>2, ReturnEffect DEF Finish
  <2> QED BY <1>1, <2>1, AgentRunsAssumption DEF RunInv, Types, Locked
<1>5. Read'
  <2>1. Return(r) /\ sealed' = sealed /\ event' = event
    BY DEF Finish
  <2>2. \A q \in Runs, c \in Cases : ReadOf(snap'[q], stored', c)
    BY <1>1, <1>2, <2>1, ReturnEffect
  <2>3. \A q \in Runs : phase'[q] = "unlocked" =>
          \A c \in early'[q] : snap'[q].status[c] \in {"new", "invalid"}
    BY <1>2, <2>1, ReturnEffect
  <2> QED BY <2>1, <2>2, <2>3, ReadStep DEF RunInv, Read
<1> QED BY <1>1, <1>3, <1>4, <1>5, TablesStep DEF Finish, RunInv

LEMMA RollBackStep ==
  ASSUME RunInv, NEW r \in Runs, phase[r] = "running", RollBack(r) PROVE RunInv'
<1>1. \A q \in Runs, c \in Cases : ReadOf(snap[q], stored, c)
  BY DEF RunInv, Read
<1>2. /\ Return(r) /\ draft' = stored /\ lock' = NoRun
      /\ UNCHANGED <<event, sealed, stored, overtaken>>
  BY DEF RollBack
<1>3. Types' /\ OneEarly'
  BY <1>1, <1>2, ReturnEffect DEF RunInv, Types
<1>4. Locked'
  <2>1. phase' = [phase EXCEPT ![r] = "done"]
    BY <1>1, <1>2, ReturnEffect
  <2> QED BY <1>2, <2>1, AgentRunsAssumption DEF RunInv, Types, Locked
<1>5. Read'
  <2>1. \A q \in Runs, c \in Cases : ReadOf(snap'[q], stored', c)
    BY <1>1, <1>2, ReturnEffect
  <2>2. \A q \in Runs : phase'[q] = "unlocked" =>
          \A c \in early'[q] : snap'[q].status[c] \in {"new", "invalid"}
    BY <1>1, <1>2, ReturnEffect
  <2> QED BY <1>2, <2>1, <2>2, ReadStep DEF RunInv, Read
<1> QED BY <1>2, <1>3, <1>4, <1>5, TablesStep DEF RunInv

LEMMA WebhookStep == ASSUME RunInv, NEW c \in Cases, WebhookUpdatesRow(c) PROVE RunInv'
<1>1. PICK v \in Events : (v.signed => v = sealed[c]) /\ event' = [event EXCEPT ![c] = v]
  BY DEF WebhookUpdatesRow
<1>2. Types' /\ Locked' /\ OneEarly'
  BY <1>1 DEF WebhookUpdatesRow, RunInv, Types, Locked, OneEarly
<1>3. Read'
  BY <1>1, ReadStep DEF WebhookUpdatesRow, RunInv, Types, Read
<1> QED BY <1>2, <1>3, TablesStep DEF WebhookUpdatesRow, RunInv

LEMMA NextRuns == RunInv /\ [Next]_vars => RunInv'
<1> SUFFICES ASSUME RunInv, [Next]_vars PROVE RunInv'
  OBVIOUS
<1>1. ASSUME NEW r \in Runs, Load(r) PROVE RunInv'
  BY <1>1, LoadStep
<1>2. ASSUME NEW r \in Runs, Step(r) PROVE RunInv'
  BY <1>2, CheckReplayStep, BeginStep, TimeOutStep, LateWriteStep, GiveUpStep, ProcessStep,
     FinishStep, RollBackStep DEF Step, Fail
<1>3. ASSUME NEW r \in Runs, Abort(r) PROVE RunInv'
  BY <1>3, RollBackStep DEF Abort
<1>4. ASSUME NEW c \in Cases, WebhookUpdatesRow(c) PROVE RunInv'
  BY <1>4, WebhookStep
<1>5. CASE UNCHANGED vars
  <2>1. Types' /\ Locked' /\ OneEarly'
    BY <1>5 DEF vars, RunInv, Types, Locked, OneEarly
  <2>2. Read'
    BY <1>5, ReadStep DEF vars, RunInv, Read
  <2> QED BY <1>5, <2>1, <2>2, TablesStep DEF vars, RunInv
<1> QED BY <1>1, <1>2, <1>3, <1>4, <1>5 DEF Next

LEMMA RunsInvariant == Spec => []RunInv
BY InitRuns, NextRuns, PTL DEF Spec

\* agent._acquire_processing_lock: whatever runs, replays and webhooks do side by
\* side, a case is settled at most once and never worked after that, unless a run
\* overtook another with it.
THEOREM CasesAreSettledOnce == Spec => []SettledOnce
<1>1. RunInv => SettledOnce
  BY DEF RunInv, Regular, SettledOnce
<1> QED BY <1>1, RunsInvariant, PTL

\* The row of a case and its trail are written together: the status is what the
\* last work decided (RecoveryPipeline.process_case, one transaction per run).
THEOREM RowsMatchTheirTrails == Spec => []RowMatchesItsLastWork
<1>1. RunInv => RowMatchesItsLastWork
  <2> SUFFICES ASSUME RunInv, NEW c \in Cases
               PROVE  /\ WorkedIn(stored, c) = {} => stored.status[c] = "new"
                      /\ \A i \in WorkedIn(stored, c) :
                           (\A j \in WorkedIn(stored, c) : j <= i)
                              => \/ stored.status[c] = stored.trail[c][i].after
                                 \/ c \in overtaken /\ stored.trail[c][i].after = "invalid"
    BY DEF RowMatchesItsLastWork
  <2>1. CASE c \in overtaken
    BY <2>1 DEF RunInv, Sound
  <2>2. CASE c \notin overtaken
    BY <2>2 DEF RunInv, Sound, Regular
  <2> QED BY <2>1, <2>2
<1> QED BY <1>1, RunsInvariant, PTL

\* A commit changes a case by one step of its contract at most.
LEMMA CommitStep ==
  ASSUME RunInv, RunInv', [Next]_vars, NEW c \in Cases \ overtaken'
  PROVE  CaseOf(c)!CNext \/ StaleRefusal(c) \/ UNCHANGED CaseOf(c)!cvars
<1>1. stored' = stored \/ \E r \in Runs : Finish(r)
  BY DEF Next, Step, Load, CheckReplay, Begin, TimeOut, LateWrite, GiveUp, Process, Fail,
         Abort, RollBack, WebhookUpdatesRow, vars
<1>2. CASE stored' = stored
  BY <1>2 DEF CaseOf!cvars, DebitedIn
<1>3. ASSUME NEW r \in Runs, Finish(r)
      PROVE  CaseOf(c)!CNext \/ StaleRefusal(c) \/ UNCHANGED CaseOf(c)!cvars
  <2>1. lock # NoRun /\ stored' = draft /\ c \notin overtaken
    BY <1>3, AgentRunsAssumption DEF Finish, RunInv, Types, Locked
  <2>2. Follows(stored, stored', c)
    BY <2>1 DEF RunInv
  <2>3. DebitedIn(stored, c)' = DebitedIn(stored', c)
    BY DEF DebitedIn
  <2>4. CASE Same(stored, stored', c)
    BY <2>3, <2>4 DEF Same, CaseOf!cvars
  <2>5. CASE Ahead(stored, stored', c)
    <3>1. 1..1 = {1} /\ 1 \in 1..1
      OBVIOUS
    <3> QED BY <2>3, <2>5, <3>1
            DEF Ahead, CaseOf!CNext, CaseOf!Refuse, CaseOf!EscalateUntried, CaseOf!Work
  <2>6. CASE Restated(stored, stored', c)
    BY <2>6 DEF Restated, StaleRefusal
  <2> QED BY <2>2, <2>4, <2>5, <2>6 DEF Follows
<1> QED BY <1>1, <1>2, <1>3

\* README, "idempotent reprocessing": each case implements CaseContract however
\* many runs compete for it, unless one overtook another with this case; a stale
\* refusal apart.
THEOREM RunsImplementContract == Spec => EachCaseKeepsItsContract
<1>1. Init => \A c \in Cases : CaseOf(c)!CInit
  BY DEF Init, CaseOf!CInit, DebitedIn
<1>2. RunInv /\ RunInv' /\ [Next]_vars
        => [\A c \in Cases \ overtaken' :
              CaseOf(c)!CNext \/ StaleRefusal(c) \/ UNCHANGED CaseOf(c)!cvars]_vars
  BY CommitStep
<1> QED BY <1>1, <1>2, RunsInvariant, PTL DEF Spec, EachCaseKeepsItsContract
===============================================================================
