----------------------- MODULE RecoveryOrchestratorProofs -----------------------
(***************************************************************************)
(* Proofs about RecoveryOrchestrator, for any number of cases, threads and *)
(* requests, any policies and any request that dies between two steps: the *)
(* approval gate holds from a case's first commit on, a case that waits    *)
(* can be answered, and a settled document reaches its case.               *)
(*                                                                         *)
(* The argument: a request acts on a case that is stored, and executes it  *)
(* only if it has seen it without a pending approval; `opened` remembers   *)
(* every such case.  Every write of a row keeps what was resolved.         *)
(***************************************************************************)
EXTENDS RecoveryOrchestratorProps, SequenceTheorems, TLAPS

Answers == {"pending", "approved", "rejected"}

\* A record with the columns of recovery_cases, and of a document.
Columns == {"status", "approval", "action", "priority", "channel", "scored", "count",
            "resolved"}
IsRow(x) == x = [f \in Columns |-> x[f]]
IsDoc(d) == d = [f \in {"status", "date"} |-> d[f]]

Shapes ==
  /\ rows = [c \in Cases |-> rows[c]] /\ \A c \in Cases : IsRow(rows[c])
  /\ docs = [c \in Cases |-> docs[c]] /\ \A c \in Cases : IsDoc(docs[c])
  /\ asks \in [Cases -> Seq(Answers)]
  /\ reqs = [r \in Requests |-> reqs[r]]

\* Nothing hangs on a case that is not stored.
Blank == \A c \in Cases : ~Exists(c) =>
           rows[c] = NoRow /\ docs[c] = NoDoc /\ asks[c] = << >>

Open(c) == Exists(c) /\ rows[c].approval # "pending"

Remembered == /\ \A c \in Cases : Open(c) => c \in opened
              /\ \A c \in Cases : Settled(c) => c \in settled
              /\ settled \subseteq Cases

StoredCases == {c \in Cases : Exists(c)}

\* The steps of a request that has a case.
OnCase == {"decide", "execute", "answer", "registered", "reminded", "closing",
           "created", "log"}

\* What a request remembers m when these cases are stored and those were open.
Sane(m, stored, open) ==
  /\ m.pc \in OnCase => m.case \in stored
  /\ m.pc = "execute" => m.case \in open
  /\ m.pc = "answer"  => m.outcome \in {"approved", "rejected"}
  /\ m.pc = "closing" => m.outcome \in Closed
  /\ m.pc = "refresh" => m.saw \subseteq stored

RowsInv == /\ Shapes /\ Blank /\ Remembered
           /\ WaitingCasesCanBeAnswered /\ GateHoldsFromBirth
ReqsInv == \A r \in Requests : Sane(reqs[r], StoredCases, opened)

CaseInv == RowsInv /\ ReqsInv /\ PaymentsReachTheCase

\* The last conjuncts of Next.
Opening ==
  /\ opened' = opened \cup
       {c \in Cases : rows'[c].status # "none" /\ rows'[c].approval # "pending"}
  /\ settled' = settled \cup {c \in Cases : Settled(c)'}

LEMMA Initially == Init => CaseInv
<1> SUFFICES ASSUME Init PROVE CaseInv
  OBVIOUS
<1>1. Shapes
  BY DEF Init, Shapes, IsRow, Columns, IsDoc, NoRow, NoDoc
<1>2. RowsInv
  BY <1>1 DEF Init, RowsInv, Blank, Remembered, Open, Exists, NoRow, NoDoc, Settled,
              WaitingCasesCanBeAnswered, GateHoldsFromBirth
<1>3. ReqsInv
  BY DEF Init, ReqsInv, Sane, Idle, OnCase
<1>4. PaymentsReachTheCase
  BY DEF Init, PaymentsReachTheCase
<1> QED BY <1>2, <1>3, <1>4 DEF CaseInv

-------------------------------------------------------------------------------
(* The parts of the invariant, from what a step writes.                        *)

\* A row x of a stored case is written as y.
Rewrites(x, y) == IsRow(y) /\ y.status # "none" /\ (x.resolved => y.resolved)

LEMMA RowWritten ==
  ASSUME RowsInv, Opening, NEW c \in Cases, NEW y,
         rows' = UpdateCase(c, y), Rewrites(rows[c], y), docs' = docs,
         asks' \in [Cases -> Seq(Answers)],
         \A d \in Cases : d # c => asks'[d] = asks[d],
         y.approval = "pending" => \E i \in DOMAIN asks'[c] : asks'[c][i] = "pending",
         y.count = rows[c].count \/ c \in opened \/ y.approval # "pending",
         UNCHANGED reqs \/ \E r \in Requests : \E m : Goto(r, m)
  PROVE  /\ RowsInv' /\ StoredCases \subseteq StoredCases' /\ c \in StoredCases'
         /\ \A d \in Cases : rows[d].resolved => rows'[d].resolved
         /\ rows'[c] = y /\ \A d \in Cases : d # c => rows'[d] = rows[d]
<1>1. /\ rows = [d \in Cases |-> rows[d]] /\ \A d \in Cases : IsRow(rows[d])
      /\ docs = [d \in Cases |-> docs[d]] /\ \A d \in Cases : IsDoc(docs[d])
      /\ reqs = [r \in Requests |-> reqs[r]]
  BY DEF RowsInv, Shapes
<1>2. rows'[c] = y /\ \A d \in Cases : d # c => rows'[d] = rows[d]
  BY <1>1 DEF UpdateCase
<1>3. reqs' = [r \in Requests |-> reqs'[r]] /\ rows' = [d \in Cases |-> rows'[d]]
  BY <1>1 DEF UpdateCase, Goto
<1>4. Shapes'
  BY <1>1, <1>2, <1>3 DEF Shapes, Rewrites
<1>5. \A d \in Cases : Exists(d) => Exists(d)'
  BY <1>2 DEF Exists, Rewrites
<1>6. Exists(c)'
  BY <1>2 DEF Exists, Rewrites
<1>7. Blank'
  BY <1>2, <1>5, <1>6 DEF RowsInv, Blank, Exists
<1>8. Remembered'
  BY DEF RowsInv, Opening, Remembered, Open, Exists
<1>9. WaitingCasesCanBeAnswered'
  BY <1>2 DEF RowsInv, WaitingCasesCanBeAnswered
<1>10. GateHoldsFromBirth'
  <2> SUFFICES ASSUME NEW d \in Cases, d \notin opened' PROVE rows'[d].count = 0
    BY DEF GateHoldsFromBirth
  <2>1. d \notin opened /\ rows[d].count = 0
    BY DEF Opening, RowsInv, GateHoldsFromBirth
  <2>2. CASE d # c
    BY <1>2, <2>1, <2>2
  <2>3. CASE d = c
    <3>1. y.status # "none" => y.approval = "pending"
      BY <1>2, <2>3 DEF Opening
    <3> QED BY <1>2, <2>1, <2>3, <3>1 DEF Rewrites
  <2> QED BY <2>2, <2>3
<1> QED
  BY <1>2, <1>4, <1>5, <1>6, <1>7, <1>8, <1>9, <1>10
     DEF RowsInv, StoredCases, Rewrites

\* A step that writes no row, and documents of stored cases only.
LEMMA RowsKept ==
  ASSUME RowsInv, Opening, rows' = rows, asks' = asks,
         docs' = [c \in Cases |-> docs'[c]], \A c \in Cases : IsDoc(docs'[c]),
         \A c \in Cases : ~Exists(c) => docs'[c] = docs[c],
         UNCHANGED reqs \/ \E r \in Requests : \E m : Goto(r, m)
  PROVE  RowsInv' /\ StoredCases' = StoredCases
<1>1. reqs' = [r \in Requests |-> reqs'[r]]
  BY DEF RowsInv, Shapes, Goto
<1>2. Shapes'
  BY <1>1 DEF RowsInv, Shapes
<1>3. Blank' /\ Remembered'
  BY DEF RowsInv, Blank, Remembered, Open, Exists, Opening
<1>4. WaitingCasesCanBeAnswered' /\ GateHoldsFromBirth'
  BY DEF RowsInv, WaitingCasesCanBeAnswered, GateHoldsFromBirth, Opening
<1> QED BY <1>2, <1>3, <1>4 DEF RowsInv, StoredCases, Exists

\* The other requests stay sane, because no case is deleted.
LEMMA RequestMoves ==
  ASSUME RowsInv, ReqsInv, Opening, NEW r \in Requests, NEW m, Goto(r, m),
         StoredCases \subseteq StoredCases', Sane(m, StoredCases', opened')
  PROVE  ReqsInv'
<1> SUFFICES ASSUME NEW q \in Requests PROVE Sane(reqs'[q], StoredCases', opened')
  BY DEF ReqsInv
<1>1. reqs = [s \in Requests |-> reqs[s]]
  BY DEF RowsInv, Shapes
<1>2. CASE q = r
  BY <1>1, <1>2 DEF Goto
<1>3. CASE q # r
  <2>1. reqs'[q] = reqs[q] /\ Sane(reqs[q], StoredCases, opened)
    BY <1>1, <1>3 DEF Goto, ReqsInv
  <2>2. opened \subseteq opened'
    BY DEF Opening
  <2> QED BY <2>1, <2>2 DEF Sane
<1> QED BY <1>2, <1>3

\* A document that was settled has its outcome, or somebody about to record it.
LEMMA PaymentsStep ==
  ASSUME RowsInv, PaymentsReachTheCase, Opening, NEW r \in Requests, NEW m, Goto(r, m),
         \A c \in Cases : rows[c].resolved => rows'[c].resolved,
         orphaned \subseteq orphaned',
         At(r, "closing") => \/ rows'[reqs[r].case].resolved
                             \/ reqs[r].case \in orphaned',
         \A c \in Cases : Settled(c)' => \/ Settled(c) \/ rows'[c].resolved
                                         \/ m.pc = "closing" /\ m.case = c
  PROVE  PaymentsReachTheCase'
<1> SUFFICES ASSUME NEW c \in settled'
             PROVE  \/ rows'[c].resolved \/ c \in orphaned'
                    \/ \E q \in Requests : At(q, "closing")' /\ reqs'[q].case = c
  BY DEF PaymentsReachTheCase
<1>1. reqs'[r] = m /\ \A q \in Requests : q # r => reqs'[q] = reqs[q]
  BY DEF RowsInv, Shapes, Goto
<1>2. CASE m.pc = "closing" /\ m.case = c
  BY <1>1, <1>2 DEF At
<1>3. settled \subseteq Cases
  BY DEF RowsInv, Remembered
<1>4. CASE c \in settled
  <2>1. \/ rows[c].resolved \/ c \in orphaned
        \/ \E q \in Requests : At(q, "closing") /\ reqs[q].case = c
    BY <1>4 DEF PaymentsReachTheCase
  <2>2. ASSUME NEW q \in Requests, At(q, "closing"), reqs[q].case = c
        PROVE  \/ rows'[c].resolved \/ c \in orphaned'
               \/ \E s \in Requests : At(s, "closing")' /\ reqs'[s].case = c
    BY <1>1, <2>2 DEF At
  <2> QED BY <1>3, <1>4, <2>1, <2>2
<1>5. c \in settled \/ rows'[c].resolved \/ (m.pc = "closing" /\ m.case = c)
  BY DEF Opening, RowsInv, Remembered
<1> QED BY <1>2, <1>4, <1>5

\* A step of a request that writes its own memory only.
LEMMA OnlyRemembers ==
  ASSUME CaseInv, Opening, NEW r \in Requests, NEW m, Goto(r, m),
         UNCHANGED <<rows, asks, docs, orphaned>>, ~At(r, "closing"),
         Sane(m, StoredCases, opened')
  PROVE  CaseInv'
<1>1. RowsInv' /\ StoredCases' = StoredCases
  BY RowsKept DEF CaseInv, RowsInv, Shapes
<1>2. ReqsInv'
  BY <1>1, RequestMoves DEF CaseInv
<1>3. PaymentsReachTheCase'
  BY PaymentsStep DEF CaseInv, Settled
<1> QED BY <1>1, <1>2, <1>3 DEF CaseInv

\* A request of one step, or the last step of one, that writes the row of c.
LEMMA WritesRow ==
  ASSUME CaseInv, Opening, NEW r \in Requests, Finish(r), NEW c \in Cases, NEW y,
         rows' = UpdateCase(c, y), Rewrites(rows[c], y), UNCHANGED <<docs, orphaned>>,
         asks' \in [Cases -> Seq(Answers)],
         \A d \in Cases : d # c => asks'[d] = asks[d],
         y.approval = "pending" => \E i \in DOMAIN asks'[c] : asks'[c][i] = "pending",
         y.count = rows[c].count \/ c \in opened \/ y.approval # "pending",
         At(r, "closing") => reqs[r].case = c /\ y.resolved
  PROVE  CaseInv'
<1>1. Goto(r, Idle)
  BY DEF Finish
<1>2. /\ RowsInv' /\ StoredCases \subseteq StoredCases'
      /\ \A d \in Cases : rows[d].resolved => rows'[d].resolved
      /\ rows'[c] = y
  BY <1>1, RowWritten DEF CaseInv
<1>3. Sane(Idle, StoredCases', opened') /\ Idle.pc = "idle"
  BY DEF Sane, Idle, OnCase
<1>4. ReqsInv'
  BY <1>1, <1>2, <1>3, RequestMoves DEF CaseInv
<1>5. PaymentsReachTheCase'
  BY <1>1, <1>2, <1>3, PaymentsStep DEF CaseInv, Settled
<1> QED BY <1>2, <1>4, <1>5 DEF CaseInv

\* A request that writes the document of a stored case: to settle it, it goes on
\* to record the outcome.
LEMMA WritesDoc ==
  ASSUME CaseInv, Opening, NEW r \in Requests, NEW m, Goto(r, m), NEW c \in Cases,
         Exists(c), NEW d, IsDoc(d), docs' = [docs EXCEPT ![c] = d],
         UNCHANGED <<rows, asks, orphaned>>, At(r, "idle"),
         Sane(m, StoredCases, opened'),
         d.status \in {"paid", "recovered"} => m.pc = "closing" /\ m.case = c
  PROVE  CaseInv'
<1>1. docs = [e \in Cases |-> docs[e]] /\ \A e \in Cases : IsDoc(docs[e])
  BY DEF CaseInv, RowsInv, Shapes
<1>2. docs'[c] = d /\ \A e \in Cases : e # c => docs'[e] = docs[e]
  BY <1>1
<1>3. docs' = [e \in Cases |-> docs'[e]]
  BY <1>1
<1>4. RowsInv' /\ StoredCases' = StoredCases
  BY <1>1, <1>2, <1>3, RowsKept DEF CaseInv
<1>5. ReqsInv'
  BY <1>4, RequestMoves DEF CaseInv
<1>6. ASSUME NEW e \in Cases, Settled(e)'
      PROVE  Settled(e) \/ (m.pc = "closing" /\ m.case = e)
  <2>1. docs'[e].status \in {"paid", "recovered"}
    BY <1>6 DEF Settled
  <2>2. CASE e = c
    BY <1>2, <2>1, <2>2
  <2>3. CASE e # c
    BY <1>2, <2>1, <2>3 DEF Settled
  <2> QED BY <2>2, <2>3
<1>7. PaymentsReachTheCase'
  BY <1>6, PaymentsStep DEF CaseInv, At
<1> QED BY <1>4, <1>5, <1>7 DEF CaseInv

-------------------------------------------------------------------------------
(* The operations on a row.                                                    *)

LEMMA ScoredRow ==
  ASSUME NEW c, NEW x, IsRow(x)
  PROVE  /\ IsRow(Scored(c, x)) /\ Scored(c, x).status = x.status
         /\ Scored(c, x).approval = x.approval /\ Scored(c, x).count = x.count
         /\ Scored(c, x).resolved = x.resolved
<1> DEFINE p == Priority(RiskScore(Scenario[c], Reason[c], Amount[c], Overdue[c]), Amount[c])
<1> HIDE DEF p
<1>1. Scored(c, x) = [x EXCEPT !.scored = TRUE, !.priority = p]
  BY DEF Scored, p
<1> QED BY <1>1 DEF IsRow, Columns

LEMMA NewRowShape ==
  ASSUME NEW c
  PROVE  /\ IsRow(NewRow(c)) /\ NewRow(c).status = "open" /\ NewRow(c).count = 0
         /\ NewRow(c).approval = "not_required" /\ NewRow(c).resolved = FALSE
<1> DEFINE p == CASE Kind[c] = "session" -> CheckoutPriority(Amount[c])
                  [] Kind[c] = "invoice" -> InvoicePriority(Amount[c], Overdue[c])
                  [] OTHER -> "medium"
<1> HIDE DEF p
<1>1. NewRow(c) = [NoRow EXCEPT !.status = "open", !.priority = p]
  BY DEF NewRow, p
<1> QED BY <1>1 DEF IsRow, Columns, NoRow

\* decide_action leaves the row alone or opens a request for the approval it asks.
LEMMA DecidedRow ==
  ASSUME NEW c, NEW x, IsRow(x), NEW read, NEW p
  PROVE  LET y == Decided(c, x, read, p)
         IN  /\ IsRow(y) /\ y.count = x.count /\ y.resolved = x.resolved
             /\ x.status # "none" => y.status # "none"
             /\ \/ ~Asks(c, read, p)
                   /\ (y.approval = x.approval \/ y.approval = "not_required")
                \/ Asks(c, read, p) /\ y.approval = "pending"
<1>1. CASE Skips(c, read, p)
  BY <1>1 DEF Decided, Asks
<1>2. CASE ~Skips(c, read, p)
  <2> DEFINE a == ActionFor(Scenario[c], Reason[c])
             h == ChannelFor(Scenario[c], read.priority, p.preferred)
             g == IF Asks(c, read, p) THEN "pending" ELSE "not_required"
             s == IF Asks(c, read, p) THEN "pending_approval" ELSE "in_progress"
  <2>1. Decided(c, x, read, p) =
          [x EXCEPT !.action = a, !.channel = h, !.approval = g, !.status = s]
    BY <1>2 DEF Decided
  <2>2. s # "none" /\ (Asks(c, read, p) => g = "pending")
        /\ (~Asks(c, read, p) => g = "not_required")
    OBVIOUS
  <2> HIDE DEF a, h, g, s
  <2> QED BY <2>1, <2>2 DEF IsRow, Columns
<1> QED BY <1>1, <1>2

LEMMA NewRowOpen ==
  ASSUME NEW c
  PROVE  LET x == Scored(c, NewRow(c)) IN
         IsRow(x) /\ x.status = "open" /\ x.count = 0 /\ x.approval = "not_required"
<1> DEFINE n == NewRow(c)
<1>1. IsRow(n) /\ n.status = "open" /\ n.count = 0 /\ n.approval = "not_required"
  BY NewRowShape
<1> HIDE DEF n
<1>2. LET x == Scored(c, n) IN
      IsRow(x) /\ x.status = "open" /\ x.count = 0 /\ x.approval = "not_required"
  BY <1>1, ScoredRow
<1> QED BY <1>2 DEF n

LEMMA ExecutedRow ==
  ASSUME NEW x, IsRow(x), NEW n
  PROVE  /\ IsRow(Executed(x, n)) /\ Executed(x, n).status = "in_progress"
         /\ Executed(x, n).approval = x.approval /\ Executed(x, n).resolved = x.resolved
<1> DEFINE k == n + 1
<1> HIDE DEF k
<1>1. Executed(x, n) = [x EXCEPT !.count = k, !.status = "in_progress"]
  BY DEF Executed, k
<1> QED BY <1>1 DEF IsRow, Columns

LEMMA AnsweredRow ==
  ASSUME NEW x, IsRow(x), NEW answer
  PROVE  LET y == [x EXCEPT !.approval = answer]
         IN  /\ IsRow(y) /\ y.approval = answer /\ y.status = x.status
             /\ y.count = x.count /\ y.resolved = x.resolved
BY DEF IsRow, Columns

LEMMA RecordedRow ==
  ASSUME NEW x, IsRow(x), NEW outcome
  PROVE  LET y == [x EXCEPT !.status = outcome, !.resolved = TRUE]
         IN  /\ IsRow(y) /\ y.approval = x.approval /\ y.status = outcome
             /\ y.count = x.count /\ y.resolved = TRUE
BY DEF IsRow, Columns

\* _approval_req adds a request that can be answered, to this case only.
LEMMA Requested ==
  ASSUME RowsInv, NEW c \in Cases
  PROVE  /\ ApprovalReq(c) \in [Cases -> Seq(Answers)]
         /\ \A d \in Cases : d # c => ApprovalReq(c)[d] = asks[d]
         /\ \E i \in DOMAIN ApprovalReq(c)[c] : ApprovalReq(c)[c][i] = "pending"
<1>1. asks \in [Cases -> Seq(Answers)] /\ asks[c] \in Seq(Answers)
  BY DEF RowsInv, Shapes
<1> DEFINE q == Append(asks[c], "pending")
<1>2. q \in Seq(Answers) /\ Len(q) \in DOMAIN q /\ q[Len(q)] = "pending"
  BY <1>1, AppendProperties DEF Answers
<1>3. ApprovalReq(c) = [asks EXCEPT ![c] = q]
  BY DEF ApprovalReq
<1> HIDE DEF q
<1>4. ApprovalReq(c)[c] = q
  BY <1>1, <1>3
<1>5. \E i \in DOMAIN ApprovalReq(c)[c] : ApprovalReq(c)[c][i] = "pending"
  BY <1>2, <1>4
<1> QED BY <1>1, <1>2, <1>3, <1>5

\* A decision writes the row x that is stored or about to be.
LEMMA Decides ==
  ASSUME CaseInv, Opening, NEW r \in Requests, Finish(r), ~At(r, "closing"),
         NEW c \in Cases, NEW x, IsRow(x), x.status # "none", NEW read, NEW p,
         x.count = rows[c].count, rows[c].resolved => x.resolved,
         x.approval = rows[c].approval \/ x.approval = "not_required",
         Decide(c, x, read, p), UNCHANGED <<docs, orphaned>>
  PROVE  CaseInv'
<1> DEFINE y == Decided(c, x, read, p)
<1>1. /\ IsRow(y) /\ y.count = x.count /\ y.resolved = x.resolved /\ y.status # "none"
      /\ \/ ~Asks(c, read, p) /\ (y.approval = x.approval \/ y.approval = "not_required")
         \/ Asks(c, read, p) /\ y.approval = "pending"
  BY DecidedRow
<1>2. rows' = UpdateCase(c, y)
      /\ asks' = IF Asks(c, read, p) THEN ApprovalReq(c) ELSE asks
  BY DEF Decide
<1> HIDE DEF y
<1>3. asks \in [Cases -> Seq(Answers)]
      /\ (rows[c].approval = "pending" => \E i \in DOMAIN asks[c] : asks[c][i] = "pending")
  BY DEF CaseInv, RowsInv, Shapes, WaitingCasesCanBeAnswered
<1>4. /\ asks' \in [Cases -> Seq(Answers)]
      /\ \A d \in Cases : d # c => asks'[d] = asks[d]
      /\ y.approval = "pending" => \E i \in DOMAIN asks'[c] : asks'[c][i] = "pending"
  <2>1. CASE Asks(c, read, p)
    BY <1>2, <2>1, Requested DEF CaseInv
  <2>2. CASE ~Asks(c, read, p)
    BY <1>1, <1>2, <1>3, <2>2
  <2> QED BY <2>1, <2>2
<1>5. Rewrites(rows[c], y)
  BY <1>1 DEF Rewrites
<1> QED BY <1>1, <1>2, <1>4, <1>5, WritesRow

-------------------------------------------------------------------------------
(* The requests.                                                               *)

\* What the lemmas above ask of a step of a request, from its pc.
LEMMA Facts ==
  ASSUME CaseInv, NEW r \in Requests
  PROVE  /\ Sane(reqs[r], StoredCases, opened)
         /\ \A c \in StoredCases : c \in Cases /\ Exists(c)
         /\ \A c \in Cases : Exists(c) <=> c \in StoredCases
         /\ \A c \in Cases : IsRow(rows[c]) /\ IsDoc(docs[c])
         /\ asks \in [Cases -> Seq(Answers)]
         /\ \A c \in Cases : Open(c) => c \in opened
         /\ Idle.pc = "idle" /\ Sane(Idle, StoredCases, opened')
<1>1. Idle.pc = "idle" /\ Sane(Idle, StoredCases, opened')
  BY DEF Sane, Idle, OnCase
<1> QED BY <1>1 DEF CaseInv, ReqsInv, RowsInv, Shapes, Remembered, StoredCases

\* What a request remembers when it starts on a stored case.
LEMMA Starting ==
  ASSUME NEW r, NEW c, NEW pc, NEW stored, NEW open, c \in stored,
         pc \in {"decide", "registered", "reminded", "log", "created"}
  PROVE  /\ Starts(r, pc, c).pc = pc /\ Starts(r, pc, c).case = c
         /\ Sane(Starts(r, pc, c), stored, open)
BY DEF Starts, NoMemory, Sane, OnCase

\* A request that only reads, and ends or remembers what it read.
LEMMA Reading ==
  ASSUME CaseInv, Opening, NEW r \in Requests, ~At(r, "closing"),
         UNCHANGED <<rows, asks, docs, orphaned>>,
         NEW m, Goto(r, m), m.pc \notin OnCase, m.pc # "refresh"
  PROVE  CaseInv'
<1>1. Sane(m, StoredCases, opened')
  BY DEF Sane, OnCase
<1> QED BY <1>1, OnlyRemembers

LEMMA CreateCaseStep ==
  ASSUME CaseInv, Opening, NEW r \in Requests, NEW c \in Cases, CreateCase(r, c)
  PROVE  CaseInv'
<1> DEFINE x == Scored(c, NewRow(c))
<1>1. /\ At(r, "idle") /\ ~Exists(c) /\ Decide(c, x, x, policy) /\ Finish(r)
      /\ UNCHANGED <<docs, orphaned>>
  BY DEF CreateCase
<1>2. IsRow(x) /\ x.status = "open" /\ x.count = 0 /\ x.approval = "not_required"
  BY NewRowOpen
<1>3. rows[c].count = 0 /\ rows[c].resolved = FALSE
  BY <1>1 DEF CaseInv, RowsInv, Blank, NoRow
<1> HIDE DEF x
<1> QED BY <1>1, <1>2, <1>3, Decides DEF At

LEMMA ScoreCaseStep ==
  ASSUME CaseInv, Opening, NEW r \in Requests, NEW c \in Cases, ScoreCase(r, c)
  PROVE  CaseInv'
<1> DEFINE y == Scored(c, rows[c])
<1>1. /\ At(r, "idle") /\ Exists(c) /\ rows' = UpdateCase(c, y) /\ Finish(r)
      /\ UNCHANGED <<asks, docs, orphaned>>
  BY DEF ScoreCase
<1>2. /\ IsRow(y) /\ y.status = rows[c].status /\ y.approval = rows[c].approval
      /\ y.count = rows[c].count /\ y.resolved = rows[c].resolved
  BY Facts, ScoredRow
<1> HIDE DEF y
<1>3. Rewrites(rows[c], y)
  BY <1>1, <1>2 DEF Rewrites, Exists
<1>4. y.approval = "pending" => \E i \in DOMAIN asks[c] : asks[c][i] = "pending"
  BY <1>2 DEF CaseInv, RowsInv, WaitingCasesCanBeAnswered
<1> QED BY <1>1, <1>2, <1>3, <1>4, Facts, WritesRow DEF At

LEMMA DecideReadStep ==
  ASSUME CaseInv, Opening, NEW r \in Requests, NEW c \in Cases, DecideRead(r, c)
  PROVE  CaseInv'
<1> DEFINE m == [Starts(r, "decide", c) EXCEPT !.read = rows[c], !.policy = policy]
<1>1. At(r, "idle") /\ Exists(c) /\ Goto(r, m) /\ UNCHANGED <<rows, asks, docs, orphaned>>
  BY DEF DecideRead
<1>2. m.pc = "decide" /\ m.case = c
  BY DEF Starts, NoMemory
<1> HIDE DEF m
<1>3. Sane(m, StoredCases, opened')
  BY <1>1, <1>2, Facts DEF Sane, OnCase
<1> QED BY <1>1, <1>3, OnlyRemembers DEF At

LEMMA DecideWriteStep ==
  ASSUME CaseInv, Opening, NEW r \in Requests, DecideWrite(r)
  PROVE  CaseInv'
<1> DEFINE c == reqs[r].case
<1>1. /\ At(r, "decide") /\ Decide(c, rows[c], reqs[r].read, reqs[r].policy)
      /\ Finish(r) /\ UNCHANGED <<docs, orphaned>>
  BY DEF DecideWrite
<1>2. c \in Cases /\ Exists(c) /\ IsRow(rows[c])
  BY <1>1, Facts DEF Sane, At, OnCase
<1> HIDE DEF c
<1> QED BY <1>1, <1>2, Decides DEF At, Exists

\* The gate: only a case that was seen without a pending approval is executed.
LEMMA ReadsStep ==
  ASSUME CaseInv, Opening, NEW r \in Requests, NEW c \in Cases, Exists(c), NEW a,
         ~At(r, "closing"), Reads(r, c, a), UNCHANGED <<rows, asks, docs, orphaned>>
  PROVE  CaseInv'
<1>1. CASE rows[c].approval = "pending"
  BY <1>1, Facts, OnlyRemembers DEF Reads
<1>2. CASE rows[c].approval # "pending"
  <2> DEFINE m == [Starts(r, "execute", c) EXCEPT !.action = a, !.count = rows[c].count]
  <2>1. Goto(r, m)
    BY <1>2 DEF Reads
  <2>2. m.pc = "execute" /\ m.case = c
    BY DEF Starts, NoMemory
  <2> HIDE DEF m
  <2>3. c \in StoredCases /\ c \in opened'
    BY <1>2, Facts DEF Open, Opening
  <2>4. Sane(m, StoredCases, opened')
    BY <2>2, <2>3 DEF Sane, OnCase
  <2> QED BY <2>1, <2>4, OnlyRemembers
<1> QED BY <1>1, <1>2

LEMMA ExecuteReadStep ==
  ASSUME CaseInv, Opening, NEW r \in Requests, NEW c \in Cases, NEW a,
         ExecuteRead(r, c, a)
  PROVE  CaseInv'
<1> DEFINE b == IF a = "none" THEN rows[c].action ELSE a
<1>1. At(r, "idle") /\ Exists(c) /\ Reads(r, c, b) /\ UNCHANGED <<rows, asks, docs, orphaned>>
  BY DEF ExecuteRead
<1>2. ~At(r, "closing")
  BY <1>1 DEF At
<1> HIDE DEF b
<1>3. \A x : Reads(r, c, x) => CaseInv'
  BY <1>1, <1>2, ReadsStep
<1> QED BY <1>1, <1>3

LEMMA RemindReadStep ==
  ASSUME CaseInv, Opening, NEW r \in Requests, RemindRead(r)
  PROVE  CaseInv'
<1> DEFINE c == reqs[r].case
<1>1. /\ At(r, "reminded") /\ Reads(r, c, "send_invoice_reminder")
      /\ UNCHANGED <<rows, asks, docs, orphaned>>
  BY DEF RemindRead
<1>2. c \in Cases /\ Exists(c) /\ ~At(r, "closing")
  BY <1>1, Facts DEF Sane, At, OnCase
<1> HIDE DEF c
<1> QED BY <1>1, <1>2, ReadsStep

LEMMA ExecuteWriteStep ==
  ASSUME CaseInv, Opening, NEW r \in Requests, ExecuteWrite(r)
  PROVE  CaseInv'
<1> DEFINE c == reqs[r].case
           y == Executed(rows[c], reqs[r].count)
<1>1. /\ At(r, "execute") /\ rows' = UpdateCase(c, y) /\ Finish(r)
      /\ UNCHANGED <<asks, docs, orphaned>>
  BY DEF ExecuteWrite
<1>2. c \in Cases /\ Exists(c) /\ c \in opened
  BY <1>1, Facts DEF Sane, At, OnCase
<1>3. /\ IsRow(y) /\ y.status = "in_progress" /\ y.approval = rows[c].approval
      /\ y.resolved = rows[c].resolved
  BY <1>2, Facts, ExecutedRow
<1> HIDE DEF c, y
<1>4. Rewrites(rows[c], y)
  BY <1>3 DEF Rewrites
<1>5. y.approval = "pending" => \E i \in DOMAIN asks[c] : asks[c][i] = "pending"
  BY <1>2, <1>3 DEF CaseInv, RowsInv, WaitingCasesCanBeAnswered
<1> QED BY <1>1, <1>2, <1>3, <1>4, <1>5, Facts, WritesRow DEF At

\* record_outcome, as a request of its own or the last step of one.
LEMMA RecordStep ==
  ASSUME CaseInv, Opening, NEW r \in Requests, Finish(r), NEW c \in Cases, Exists(c),
         NEW o \in Closed, Record(c, o), UNCHANGED <<asks, docs, orphaned>>,
         At(r, "closing") => reqs[r].case = c
  PROVE  CaseInv'
<1> DEFINE y == [rows[c] EXCEPT !.status = o, !.resolved = TRUE]
<1>1. rows' = UpdateCase(c, y)
  BY DEF Record
<1>2. /\ IsRow(y) /\ y.approval = rows[c].approval /\ y.status = o
      /\ y.count = rows[c].count /\ y.resolved = TRUE
  BY Facts, RecordedRow
<1> HIDE DEF y
<1>3. Rewrites(rows[c], y)
  BY <1>2 DEF Rewrites, Closed
<1>4. y.approval = "pending" => \E i \in DOMAIN asks[c] : asks[c][i] = "pending"
  BY <1>2 DEF CaseInv, RowsInv, WaitingCasesCanBeAnswered
<1> QED BY <1>1, <1>2, <1>3, <1>4, Facts, WritesRow

LEMMA CloseCaseStep ==
  ASSUME CaseInv, Opening, NEW r \in Requests, CloseCase(r)
  PROVE  CaseInv'
<1> DEFINE c == reqs[r].case
           o == reqs[r].outcome
<1>1. At(r, "closing") /\ Record(c, o) /\ Finish(r) /\ UNCHANGED <<asks, docs, orphaned>>
  BY DEF CloseCase
<1>2. c \in Cases /\ Exists(c) /\ o \in Closed
  BY <1>1, Facts DEF Sane, At, OnCase
<1> HIDE DEF o
<1> QED BY <1>1, <1>2, RecordStep

LEMMA AnswerReadStep ==
  ASSUME CaseInv, Opening, NEW r \in Requests, NEW c \in Cases, NEW i,
         NEW a \in {"approved", "rejected"}, AnswerRead(r, c, i, a)
  PROVE  CaseInv'
<1> DEFINE m == [Starts(r, "answer", c) EXCEPT !.ask = i, !.outcome = a]
<1>1. At(r, "idle") /\ i \in 1..Len(asks[c]) /\ Goto(r, m)
      /\ UNCHANGED <<rows, asks, docs, orphaned>>
  BY DEF AnswerRead
<1>2. m.pc = "answer" /\ m.case = c /\ m.outcome = a
  BY DEF Starts, NoMemory
<1> HIDE DEF m
<1>3. Exists(c)
  <2>1. asks[c] # << >>
    BY <1>1
  <2> QED BY <2>1 DEF CaseInv, RowsInv, Blank
<1>4. Sane(m, StoredCases, opened')
  BY <1>2, <1>3, Facts DEF Sane, OnCase
<1> QED BY <1>1, <1>4, OnlyRemembers DEF At

LEMMA AnswerStored ==
  ASSUME NEW q \in Seq(Answers), NEW i, NEW a \in Answers
  PROVE  [q EXCEPT ![i] = a] \in Seq(Answers)
<1>1. CASE i \in DOMAIN q
  BY <1>1, ExceptSeq
<1>2. CASE i \notin DOMAIN q
  <2>1. [q EXCEPT ![i] = a] = q
    BY <1>2
  <2> QED BY <2>1
<1> QED BY <1>1, <1>2

\* An answer ends the waiting of its case in the transaction that stores it.
LEMMA AnswerWriteStep ==
  ASSUME CaseInv, Opening, NEW r \in Requests, AnswerWrite(r)
  PROVE  CaseInv'
<1> DEFINE c == reqs[r].case
           a == reqs[r].outcome
           x == [rows[c] EXCEPT !.approval = a]
           q == [asks[c] EXCEPT ![reqs[r].ask] = a]
<1>1. At(r, "answer") /\ asks' = [asks EXCEPT ![c] = q] /\ Finish(r)
      /\ UNCHANGED <<docs, orphaned>>
  BY DEF AnswerWrite
<1>2. c \in Cases /\ Exists(c) /\ a \in {"approved", "rejected"} /\ ~At(r, "closing")
  BY <1>1, Facts DEF Sane, At, OnCase
<1>3. asks' \in [Cases -> Seq(Answers)] /\ \A d \in Cases : d # c => asks'[d] = asks[d]
  <2>1. asks[c] \in Seq(Answers) /\ a \in Answers
    BY <1>2, Facts DEF Answers
  <2>2. q \in Seq(Answers)
    BY <2>1, AnswerStored
  <2> HIDE DEF q
  <2> QED BY <1>1, <1>2, <2>2, Facts
<1>4. /\ IsRow(x) /\ x.approval = a /\ x.status = rows[c].status
      /\ x.count = rows[c].count /\ x.resolved = rows[c].resolved
  BY <1>2, Facts, AnsweredRow
<1>5. a # "pending" /\ x.status # "none"
  BY <1>2, <1>4 DEF Exists
<1>6. CASE a = "approved"
  <2> DEFINE y == Executed(x, rows[c].count)
  <2>1. rows' = UpdateCase(c, y)
    BY <1>6 DEF AnswerWrite
  <2>2. /\ IsRow(y) /\ y.status = "in_progress" /\ y.approval = a
        /\ y.resolved = rows[c].resolved
    <3> HIDE DEF c, a, x
    <3> QED BY <1>4, ExecutedRow
  <2> HIDE DEF c, a, x, y, q
  <2>3. Rewrites(rows[c], y)
    BY <2>2 DEF Rewrites
  <2> QED BY <1>1, <1>2, <1>3, <1>5, <2>1, <2>2, <2>3, WritesRow
<1>7. CASE a = "rejected"
  <2>1. rows' = UpdateCase(c, x)
    BY <1>7 DEF AnswerWrite
  <2> HIDE DEF c, a, x, q
  <2>2. Rewrites(rows[c], x)
    BY <1>4, <1>5 DEF Rewrites
  <2> QED BY <1>1, <1>2, <1>3, <1>4, <1>5, <2>1, <2>2, WritesRow
<1> QED BY <1>2, <1>6, <1>7

\* A document and its open case are committed together.
LEMMA RegisterStep ==
  ASSUME CaseInv, Opening, NEW r \in Requests, NEW c \in Cases, NEW doc, IsDoc(doc),
         doc.status \notin {"paid", "recovered"}, Register(r, c, doc)
  PROVE  CaseInv'
<1> DEFINE m == Starts(r, "registered", c)
           y == NewRow(c)
<1>1. /\ At(r, "idle") /\ ~Exists(c) /\ rows' = UpdateCase(c, y)
      /\ docs' = [docs EXCEPT ![c] = doc] /\ Goto(r, m) /\ UNCHANGED <<asks, orphaned>>
  BY DEF Register, UpdateCase
<1>2. IsRow(y) /\ y.status = "open" /\ y.count = 0 /\ y.approval = "not_required"
  BY NewRowShape
<1> HIDE DEF m, y
<1>3. rows[c].resolved = FALSE
  BY <1>1 DEF CaseInv, RowsInv, Blank, NoRow
<1>4. /\ rows = [d \in Cases |-> rows[d]] /\ \A d \in Cases : IsRow(rows[d])
      /\ docs = [d \in Cases |-> docs[d]] /\ \A d \in Cases : IsDoc(docs[d])
      /\ reqs = [q \in Requests |-> reqs[q]] /\ asks \in [Cases -> Seq(Answers)]
  BY DEF CaseInv, RowsInv, Shapes
<1>5. rows'[c] = y /\ \A d \in Cases : d # c => rows'[d] = rows[d]
  BY <1>1, <1>4 DEF UpdateCase
<1>6. docs'[c] = doc /\ \A d \in Cases : d # c => docs'[d] = docs[d]
  BY <1>1, <1>4
<1>7. Shapes'
  <2>1. rows' = [d \in Cases |-> rows'[d]] /\ docs' = [d \in Cases |-> docs'[d]]
        /\ reqs' = [q \in Requests |-> reqs'[q]]
    BY <1>1, <1>4 DEF UpdateCase, Goto
  <2> QED BY <1>1, <1>2, <1>4, <1>5, <1>6, <2>1 DEF Shapes
<1>8. Blank' /\ WaitingCasesCanBeAnswered'
  <2>1. \A d \in Cases : Exists(d)' <=> Exists(d) \/ d = c
    BY <1>2, <1>5 DEF Exists
  <2> QED BY <1>1, <1>2, <1>5, <1>6, <2>1
          DEF CaseInv, RowsInv, Blank, WaitingCasesCanBeAnswered
<1>9. Remembered' /\ GateHoldsFromBirth'
  <2>1. Remembered'
    BY DEF CaseInv, RowsInv, Opening, Remembered, Open, Exists
  <2>2. \A d \in Cases : d \notin opened' => d \notin opened
    BY DEF Opening
  <2> QED BY <1>2, <1>5, <2>1, <2>2 DEF CaseInv, RowsInv, GateHoldsFromBirth
<1>10. RowsInv'
  BY <1>7, <1>8, <1>9 DEF RowsInv
<1>11. StoredCases \subseteq StoredCases' /\ c \in StoredCases'
  BY <1>2, <1>5 DEF StoredCases, Exists
<1>12. Sane(m, StoredCases', opened') /\ m.pc = "registered"
  BY <1>11, Starting DEF m
<1>13. ReqsInv'
  BY <1>1, <1>11, <1>12, RequestMoves DEF CaseInv
<1>14. \A d \in Cases : Settled(d)' => Settled(d)
  BY <1>6 DEF Settled
<1>15. \A d \in Cases : rows[d].resolved => rows'[d].resolved
  BY <1>3, <1>5
<1>16. PaymentsReachTheCase'
  BY <1>1, <1>14, <1>15, PaymentsStep DEF CaseInv, At
<1> QED BY <1>10, <1>13, <1>16 DEF CaseInv

LEMMA DecideRegisteredStep ==
  ASSUME CaseInv, Opening, NEW r \in Requests, DecideRegistered(r)
  PROVE  CaseInv'
<1> DEFINE c == reqs[r].case
           x == Scored(c, rows[c])
<1>1. /\ At(r, "registered") /\ Decide(c, x, x, policy) /\ Finish(r)
      /\ UNCHANGED <<docs, orphaned>>
  BY DEF DecideRegistered
<1>2. c \in Cases /\ Exists(c) /\ ~At(r, "closing")
  BY <1>1, Facts DEF Sane, At, OnCase
<1>3. /\ IsRow(x) /\ x.status = rows[c].status /\ x.approval = rows[c].approval
      /\ x.count = rows[c].count /\ x.resolved = rows[c].resolved
  BY <1>2, Facts, ScoredRow
<1> HIDE DEF c, x
<1> QED BY <1>1, <1>2, <1>3, Decides DEF Exists

\* The requests about documents that start on a stored case.
LEMMA DocEdit ==
  ASSUME NEW d, IsDoc(d), NEW s
  PROVE  IsDoc([d EXCEPT !.status = s]) /\ [d EXCEPT !.status = s].status = s
BY DEF IsDoc

LEMMA RemindStep ==
  ASSUME CaseInv, Opening, NEW r \in Requests, NEW c \in Cases, Remind(r, c)
  PROVE  CaseInv'
<1> DEFINE d == [docs[c] EXCEPT !.status = "reminded"]
           m == Starts(r, "reminded", c)
<1>1. /\ At(r, "idle") /\ Exists(c) /\ docs' = [docs EXCEPT ![c] = d] /\ Goto(r, m)
      /\ UNCHANGED <<rows, asks, orphaned>>
  BY DEF Remind
<1>2. IsDoc(d) /\ d.status = "reminded"
  BY Facts, DocEdit
<1>3. Sane(m, StoredCases, opened')
  BY <1>1, Facts, Starting
<1> HIDE DEF d, m
<1> QED BY <1>1, <1>2, <1>3, WritesDoc

LEMMA CreatePromiseStep ==
  ASSUME CaseInv, Opening, NEW r \in Requests, NEW c \in Cases, NEW date,
         CreatePromise(r, c, date)
  PROVE  CaseInv'
<1> DEFINE d == NewPromise(date)
<1>1. /\ At(r, "idle") /\ Exists(c) /\ docs' = [docs EXCEPT ![c] = d] /\ Goto(r, Idle)
      /\ UNCHANGED <<rows, asks, orphaned>>
  BY DEF CreatePromise, Finish
<1>2. IsDoc(d) /\ d.status \notin {"paid", "recovered"}
  BY DEF NewPromise, IsDoc, PromiseStatus
<1>3. Sane(Idle, StoredCases, opened')
  BY DEF Sane, Idle, OnCase
<1> HIDE DEF d
<1> QED BY <1>1, <1>2, <1>3, WritesDoc

\* A document that is not blank is of a stored case.
LEMMA CloseDocStep ==
  ASSUME CaseInv, Opening, NEW r \in Requests, NEW c \in Cases, NEW s, NEW o \in Closed,
         CloseDoc(r, c, s, o)
  PROVE  CaseInv'
<1> DEFINE d == [docs[c] EXCEPT !.status = s]
           m == [Starts(r, "closing", c) EXCEPT !.outcome = o]
<1>1. /\ At(r, "idle") /\ docs[c] # NoDoc /\ docs' = [docs EXCEPT ![c] = d] /\ Goto(r, m)
      /\ UNCHANGED <<rows, asks, orphaned>>
  BY DEF CloseDoc
<1>2. Exists(c)
  BY <1>1 DEF CaseInv, RowsInv, Blank
<1>3. IsDoc(d)
  BY Facts, DocEdit
<1>4. m.pc = "closing" /\ m.case = c /\ m.outcome = o
  BY DEF Starts, NoMemory
<1> HIDE DEF d, m
<1>5. Sane(m, StoredCases, opened')
  BY <1>2, <1>4, Facts DEF Sane, OnCase
<1> QED BY <1>1, <1>2, <1>3, <1>4, <1>5, WritesDoc

LEMMA MissPromiseStep ==
  ASSUME CaseInv, Opening, NEW r \in Requests, NEW c \in Cases, MissPromise(r, c)
  PROVE  CaseInv'
<1> DEFINE d == [docs[c] EXCEPT !.status = "missed"]
<1>1. /\ At(r, "idle") /\ docs[c] # NoDoc /\ docs' = [docs EXCEPT ![c] = d]
      /\ Goto(r, Idle) /\ UNCHANGED <<rows, asks, orphaned>>
  BY DEF MissPromise, Finish
<1>2. Exists(c)
  BY <1>1 DEF CaseInv, RowsInv, Blank
<1>3. IsDoc(d) /\ d.status = "missed"
  BY Facts, DocEdit
<1>4. Sane(Idle, StoredCases, opened')
  BY DEF Sane, Idle, OnCase
<1> HIDE DEF d
<1> QED BY <1>1, <1>2, <1>3, <1>4, WritesDoc

\* A checkout and its case get their outcome in one transaction.
LEMMA RecoverSessionStep ==
  ASSUME CaseInv, Opening, NEW r \in Requests, NEW c \in Cases, RecoverSession(r, c)
  PROVE  CaseInv'
<1> DEFINE y == [rows[c] EXCEPT !.status = "recovered", !.resolved = TRUE]
           d == [docs[c] EXCEPT !.status = "recovered"]
<1>1. /\ At(r, "idle") /\ Exists(c) /\ rows' = UpdateCase(c, y)
      /\ docs' = [docs EXCEPT ![c] = d] /\ Goto(r, Idle) /\ UNCHANGED <<asks, orphaned>>
  BY DEF RecoverSession, Record, Finish
<1>2. /\ IsRow(y) /\ y.approval = rows[c].approval /\ y.status = "recovered"
      /\ y.count = rows[c].count /\ y.resolved = TRUE
  BY Facts, RecordedRow
<1>3. IsDoc(d)
  BY Facts, DocEdit
<1> HIDE DEF y, d
<1>4. /\ rows = [e \in Cases |-> rows[e]] /\ \A e \in Cases : IsRow(rows[e])
      /\ docs = [e \in Cases |-> docs[e]] /\ \A e \in Cases : IsDoc(docs[e])
      /\ reqs = [q \in Requests |-> reqs[q]] /\ asks \in [Cases -> Seq(Answers)]
  BY DEF CaseInv, RowsInv, Shapes
<1>5. rows'[c] = y /\ \A e \in Cases : e # c => rows'[e] = rows[e]
  BY <1>1, <1>4 DEF UpdateCase
<1>6. docs'[c] = d /\ \A e \in Cases : e # c => docs'[e] = docs[e]
  BY <1>1, <1>4
<1>7. Shapes'
  <2>1. rows' = [e \in Cases |-> rows'[e]] /\ docs' = [e \in Cases |-> docs'[e]]
        /\ reqs' = [q \in Requests |-> reqs'[q]]
    BY <1>1, <1>4 DEF UpdateCase, Goto
  <2>2. \A e \in Cases : IsRow(rows'[e]) /\ IsDoc(docs'[e])
    BY <1>2, <1>3, <1>4, <1>5, <1>6
  <2>3. asks' \in [Cases -> Seq(Answers)]
    BY <1>1, <1>4
  <2> QED BY <2>1, <2>2, <2>3 DEF Shapes
<1>8. Blank' /\ WaitingCasesCanBeAnswered'
  <2>1. \A e \in Cases : Exists(e)' <=> Exists(e)
    BY <1>1, <1>2, <1>5 DEF Exists
  <2> QED BY <1>1, <1>2, <1>5, <1>6, <2>1
          DEF CaseInv, RowsInv, Blank, WaitingCasesCanBeAnswered
<1>9. Remembered' /\ GateHoldsFromBirth'
  <2>1. Remembered'
    BY DEF CaseInv, RowsInv, Opening, Remembered, Open, Exists
  <2>2. \A e \in Cases : e \notin opened' => e \notin opened
    BY DEF Opening
  <2> QED BY <1>2, <1>5, <2>1, <2>2 DEF CaseInv, RowsInv, GateHoldsFromBirth
<1>10. RowsInv'
  BY <1>7, <1>8, <1>9 DEF RowsInv
<1>11. StoredCases \subseteq StoredCases'
  BY <1>2, <1>5 DEF StoredCases, Exists
<1>12. Sane(Idle, StoredCases', opened') /\ Idle.pc = "idle"
  BY DEF Sane, Idle, OnCase
<1>13. ReqsInv'
  BY <1>1, <1>11, <1>12, RequestMoves DEF CaseInv
<1>14. \A e \in Cases : Settled(e)' => Settled(e) \/ rows'[e].resolved
  BY <1>2, <1>5, <1>6 DEF Settled
<1>15. \A e \in Cases : rows[e].resolved => rows'[e].resolved
  BY <1>2, <1>5
<1>16. PaymentsReachTheCase'
  BY <1>1, <1>14, <1>15, PaymentsStep DEF CaseInv, At
<1> QED BY <1>10, <1>13, <1>16 DEF CaseInv

LEMMA RefreshReadStep ==
  ASSUME CaseInv, Opening, NEW r \in Requests, RefreshRead(r)
  PROVE  CaseInv'
<1> DEFINE upcoming == {c \in Cases : docs[c].status = "upcoming"}
           m == [NoMemory EXCEPT !.pc = "refresh", !.saw = upcoming, !.day = today]
<1>1. /\ At(r, "idle") /\ UNCHANGED <<rows, asks, docs, orphaned>>
      /\ Goto(r, Idle) \/ Goto(r, m)
  BY DEF RefreshRead
<1>2. upcoming \subseteq StoredCases
  BY DEF CaseInv, RowsInv, Blank, NoDoc, StoredCases
<1> HIDE DEF upcoming
<1>3. m.pc = "refresh" /\ m.saw = upcoming
  BY DEF NoMemory
<1> HIDE DEF m
<1>4. Sane(m, StoredCases, opened')
  BY <1>2, <1>3 DEF Sane, OnCase
<1>5. Sane(Idle, StoredCases, opened')
  BY DEF Sane, Idle, OnCase
<1> QED BY <1>1, <1>4, <1>5, OnlyRemembers DEF At

LEMMA RefreshWriteStep ==
  ASSUME CaseInv, Opening, NEW r \in Requests, RefreshWrite(r)
  PROVE  CaseInv'
<1> DEFINE due == {c \in reqs[r].saw : docs[c].date <= reqs[r].day}
           s(c) == PromiseStatus(docs[c].date, reqs[r].day)
<1>1. /\ At(r, "refresh") /\ Goto(r, Idle) /\ UNCHANGED <<rows, asks, orphaned>>
      /\ docs' = [c \in Cases |-> IF c \in due THEN [docs[c] EXCEPT !.status = s(c)]
                                  ELSE docs[c]]
  BY DEF RefreshWrite, Finish
<1>2. due \subseteq StoredCases
  BY <1>1, Facts DEF Sane, At
<1>3. \A c \in Cases : s(c) \notin {"paid", "recovered"}
  BY DEF PromiseStatus
<1> HIDE DEF due, s
<1>4. \A c \in Cases : IsDoc(docs'[c])
                       /\ (Settled(c)' => Settled(c))
  <2> SUFFICES ASSUME NEW c \in Cases
               PROVE  IsDoc(docs'[c]) /\ (Settled(c)' => Settled(c))
    OBVIOUS
  <2>1. CASE c \in due
    <3>1. docs'[c] = [docs[c] EXCEPT !.status = s(c)]
      BY <1>1, <2>1
    <3>2. \A t : /\ IsDoc([docs[c] EXCEPT !.status = t])
                 /\ [docs[c] EXCEPT !.status = t].status = t
      BY Facts, DocEdit
    <3>3. IsDoc(docs'[c]) /\ docs'[c].status = s(c)
      BY <3>1, <3>2
    <3> QED BY <1>3, <3>3 DEF Settled
  <2>2. CASE c \notin due
    <3>1. docs'[c] = docs[c]
      BY <1>1, <2>2
    <3> QED BY <3>1, Facts DEF Settled
  <2> QED BY <2>1, <2>2
<1>5. docs' = [c \in Cases |-> docs'[c]]
      /\ \A c \in Cases : ~Exists(c) => docs'[c] = docs[c]
  BY <1>1, <1>2 DEF StoredCases
<1>6. RowsInv' /\ StoredCases' = StoredCases
  BY <1>1, <1>4, <1>5, RowsKept DEF CaseInv
<1>7. Sane(Idle, StoredCases', opened')
  BY DEF Sane, Idle, OnCase
<1>8. ReqsInv'
  BY <1>1, <1>6, <1>7, RequestMoves DEF CaseInv
<1>9. PaymentsReachTheCase'
  BY <1>1, <1>4, PaymentsStep DEF CaseInv, At
<1> QED BY <1>6, <1>8, <1>9 DEF CaseInv

-------------------------------------------------------------------------------
(* Retries and the policy write neither cases nor documents, but for the case   *)
(* that a first retry opens.                                                    *)

LEMMA RetryFindStep ==
  ASSUME CaseInv, Opening, NEW r \in Requests, NEW c \in Cases, NEW given, RetryFind(r, c, given)
  PROVE  CaseInv'
<1> DEFINE m == [Starts(r, "log", c) EXCEPT !.count = Len(retries[c]) + 1,
                   !.read = rows[c], !.policy = policy]
<1>1. At(r, "idle") /\ Exists(c) /\ Goto(r, m) /\ UNCHANGED <<rows, asks, docs, orphaned>>
  BY DEF RetryFind
<1>2. m.pc = "log" /\ m.case = c
  BY DEF Starts, NoMemory
<1> HIDE DEF m
<1>3. Sane(m, StoredCases, opened')
  BY <1>1, <1>2, Facts DEF Sane, OnCase
<1> QED BY <1>1, <1>3, OnlyRemembers DEF At

LEMMA RetryCreateStep ==
  ASSUME CaseInv, Opening, NEW r \in Requests, NEW c \in Cases, RetryCreate(r, c)
  PROVE  CaseInv'
<1> DEFINE m == [Starts(r, "created", c) EXCEPT !.read = NewRow(c)]
           y == Scored(c, NewRow(c))
<1>1. /\ At(r, "create") /\ ~Exists(c) /\ rows' = UpdateCase(c, y) /\ Goto(r, m)
      /\ UNCHANGED <<asks, docs, orphaned>>
  BY DEF RetryCreate, UpdateCase
<1>2. IsRow(y) /\ y.status = "open" /\ y.count = 0 /\ y.approval = "not_required"
  BY NewRowOpen
<1>3. m.pc = "created" /\ m.case = c
  BY DEF Starts, NoMemory
<1> HIDE DEF m, y
<1>4. rows[c].count = 0 /\ rows[c].resolved = FALSE
  BY <1>1 DEF CaseInv, RowsInv, Blank, NoRow
<1>5. Rewrites(rows[c], y)
  BY <1>2, <1>4 DEF Rewrites
<1>6. /\ RowsInv' /\ StoredCases \subseteq StoredCases' /\ c \in StoredCases'
      /\ \A d \in Cases : rows[d].resolved => rows'[d].resolved
  BY <1>1, <1>2, <1>5, Facts, RowWritten DEF CaseInv
<1>7. Sane(m, StoredCases', opened')
  BY <1>3, <1>6 DEF Sane, OnCase
<1>8. ReqsInv'
  BY <1>1, <1>6, <1>7, RequestMoves DEF CaseInv
<1>9. PaymentsReachTheCase'
  BY <1>1, <1>3, <1>6, PaymentsStep DEF CaseInv, At, Settled
<1> QED BY <1>6, <1>8, <1>9 DEF CaseInv

LEMMA RetryCountStep ==
  ASSUME CaseInv, Opening, NEW r \in Requests, RetryCount(r)
  PROVE  CaseInv'
<1> DEFINE m == [reqs[r] EXCEPT !.pc = "log", !.policy = policy,
                   !.count = Len(retries[reqs[r].case]) + 1]
<1>1. At(r, "created") /\ Goto(r, m) /\ UNCHANGED <<rows, asks, docs, orphaned>>
  BY DEF RetryCount
<1>2. Sane(m, StoredCases, opened')
  BY <1>1, Facts DEF Sane, OnCase, At
<1> QED BY <1>1, <1>2, OnlyRemembers DEF At

\* The requests that read, or write the other tables, and remember no case.
LEMMA OtherStep ==
  ASSUME CaseInv, Opening, NEW r \in Requests,
         \/ RetryFindNone(r) \/ RetryLog(r) \/ PatchWrite(r) \/ ResetDelete(r)
         \/ ResetInsert(r) \/ \E p \in Patches : PatchRead(r, p)
  PROVE  CaseInv'
<1>1. /\ UNCHANGED <<rows, asks, docs, orphaned>> /\ ~At(r, "closing")
      /\ \E m : Goto(r, m) /\ m.pc \in {"idle", "create", "patch", "reset"}
  <2>1. CASE RetryFindNone(r)
    BY <2>1 DEF RetryFindNone, At, NoMemory
  <2>2. CASE RetryLog(r)
    BY <2>2 DEF RetryLog, At, Finish, Idle
  <2>3. CASE PatchWrite(r)
    BY <2>3 DEF PatchWrite, At, Finish, Idle
  <2>4. CASE ResetDelete(r)
    BY <2>4 DEF ResetDelete, At, NoMemory
  <2>5. CASE ResetInsert(r)
    BY <2>5 DEF ResetInsert, At, Finish, Idle
  <2>6. ASSUME NEW p \in Patches, PatchRead(r, p)
        PROVE  /\ UNCHANGED <<rows, asks, docs, orphaned>> /\ ~At(r, "closing")
               /\ \E m : Goto(r, m) /\ m.pc \in {"idle", "create", "patch", "reset"}
    <3> DEFINE m == [NoMemory EXCEPT !.pc = "patch", !.count = policy.version, !.policy = p]
    <3>1. UNCHANGED <<rows, asks, docs, orphaned>> /\ At(r, "idle") /\ Goto(r, m)
      BY <2>6 DEF PatchRead
    <3>2. m.pc = "patch"
      BY DEF NoMemory
    <3> HIDE DEF m
    <3> QED BY <3>1, <3>2 DEF At
  <2> QED BY <2>1, <2>2, <2>3, <2>4, <2>5, <2>6
<1>2. \A m : m.pc \in {"idle", "create", "patch", "reset"}
        => m.pc \notin OnCase /\ m.pc # "refresh"
  BY DEF OnCase
<1> QED BY <1>1, <1>2, Reading

\* A request that dies about to record an outcome leaves its case in `orphaned`.
LEMMA DieStep ==
  ASSUME CaseInv, Opening, NEW r \in Requests, Die(r)
  PROVE  CaseInv'
<1>1. /\ Goto(r, Idle) /\ UNCHANGED <<rows, asks, docs>>
      /\ orphaned' = IF At(r, "closing") THEN orphaned \cup {reqs[r].case} ELSE orphaned
  BY DEF Die, Finish
<1>2. RowsInv' /\ StoredCases' = StoredCases
  BY <1>1, RowsKept DEF CaseInv, RowsInv, Shapes
<1>3. Sane(Idle, StoredCases', opened')
  BY DEF Sane, Idle, OnCase
<1>4. ReqsInv'
  BY <1>1, <1>2, <1>3, RequestMoves DEF CaseInv
<1>5. PaymentsReachTheCase'
  BY <1>1, PaymentsStep DEF CaseInv, Settled
<1> QED BY <1>2, <1>4, <1>5 DEF CaseInv

LEMMA NothingStep ==
  ASSUME CaseInv, Opening, UNCHANGED <<rows, asks, docs, reqs, orphaned>>
  PROVE  CaseInv'
<1>1. RowsInv' /\ StoredCases' = StoredCases
  BY RowsKept DEF CaseInv, RowsInv, Shapes
<1>2. ReqsInv'
  BY <1>1 DEF CaseInv, ReqsInv, Sane, Opening
<1>3. PaymentsReachTheCase'
  BY DEF CaseInv, RowsInv, Remembered, Opening, PaymentsReachTheCase, Settled, At
<1> QED BY <1>1, <1>2, <1>3 DEF CaseInv

LEMMA RouteStep ==
  ASSUME CaseInv, Opening, NEW r \in Requests, Route(r)
  PROVE  CaseInv'
<1>1. CASE ApiCreate(r)
  BY <1>1, CreateCaseStep DEF ApiCreate
<1>2. CASE ApiScore(r)
  BY <1>2, ScoreCaseStep DEF ApiScore
<1>3. CASE ApiDecide(r)
  BY <1>3, DecideReadStep DEF ApiDecide
<1>4. CASE ApiExecute(r)
  BY <1>4, ExecuteReadStep DEF ApiExecute
<1>5. CASE ApiOutcome(r)
  <2>1. PICK c \in Cases, o \in Closed : RecordOutcome(r, c, o)
    BY <1>5 DEF ApiOutcome
  <2> QED BY <2>1, RecordStep DEF RecordOutcome, At
<1>6. CASE ApiCheckout(r)
  BY <1>6, RegisterStep DEF ApiCheckout, RegisterAbandonment, NewSession, IsDoc
<1>7. CASE ApiRecover(r)
  BY <1>7, RecoverSessionStep DEF ApiRecover
<1>8. CASE ApiInvoice(r)
  <2>1. \A c \in Cases : IsDoc(NewInvoice(c))
                         /\ NewInvoice(c).status \notin {"paid", "recovered"}
    BY DEF NewInvoice, IsDoc
  <2> QED BY <1>8, <2>1, RegisterStep DEF ApiInvoice, CreateInvoice
<1>9. CASE ApiRemind(r)
  BY <1>9, RemindStep DEF ApiRemind
<1>10. CASE ApiEscalate(r)
  BY <1>10, CloseDocStep DEF ApiEscalate, EscalateInvoice, Closed
<1>11. CASE ApiPaid(r)
  BY <1>11, CloseDocStep DEF ApiPaid, PayInvoice, Closed
<1>12. CASE ApiPromise(r)
  BY <1>12, CreatePromiseStep DEF ApiPromise
<1>13. CASE ApiPromisePaid(r)
  BY <1>13, CloseDocStep DEF ApiPromisePaid, PayPromise, Closed
<1>14. CASE ApiPromiseMissed(r)
  BY <1>14, MissPromiseStep DEF ApiPromiseMissed
<1>15. CASE RefreshRead(r)
  BY <1>15, RefreshReadStep
<1>16. CASE ApiApproval(r)
  BY <1>16, AnswerReadStep DEF ApiApproval
<1>17. CASE ApiRetry(r)
  BY <1>17, RetryFindStep, OtherStep DEF ApiRetry
<1>18. CASE ApiPolicy(r)
  BY <1>18, OtherStep DEF ApiPolicy
<1>19. CASE ResetDelete(r)
  BY <1>19, OtherStep
<1> QED
  BY <1>1, <1>2, <1>3, <1>4, <1>5, <1>6, <1>7, <1>8, <1>9, <1>10, <1>11, <1>12,
     <1>13, <1>14, <1>15, <1>16, <1>17, <1>18, <1>19 DEF Route

LEMMA ContinueStep ==
  ASSUME CaseInv, Opening, NEW r \in Requests, Continue(r)
  PROVE  CaseInv'
BY DecideWriteStep, ExecuteWriteStep, AnswerWriteStep, DecideRegisteredStep,
   RemindReadStep, CloseCaseStep, RefreshWriteStep, RetryCreateStep, RetryCountStep,
   OtherStep DEF Continue

LEMMA NextCases == CaseInv /\ [Next]_vars => CaseInv'
<1> SUFFICES ASSUME CaseInv, [Next]_vars PROVE CaseInv'
  OBVIOUS
<1>1. CASE UNCHANGED vars
  <2>1. Opening
    BY <1>1 DEF vars, Opening, CaseInv, RowsInv, Remembered, Open, Exists, Settled
  <2> QED BY <1>1, <2>1, NothingStep DEF vars
<1>2. CASE Next
  <2>1. Opening
    BY <1>2 DEF Next, Opening
  <2>2. ASSUME NEW r \in Requests, Route(r) \/ Continue(r) \/ Die(r) PROVE CaseInv'
    BY <2>1, <2>2, RouteStep, ContinueStep, DieStep
  <2>3. CASE Midnight
    BY <2>1, <2>3, NothingStep DEF Midnight
  <2> QED BY <1>2, <2>2, <2>3 DEF Next
<1> QED BY <1>1, <1>2

-------------------------------------------------------------------------------
(* The theorems.                                                               *)

\* POST /approvals: for any number of cases and of requests that decide, answer
\* and decide again, a case that waits for an approval has one to answer.
THEOREM WaitingCasesAreAnswerable == Spec => []WaitingCasesCanBeAnswered
<1>1. CaseInv => WaitingCasesCanBeAnswered
  BY DEF CaseInv, RowsInv
<1> QED BY <1>1, Initially, NextCases, PTL DEF Spec

\* execute_action, "an approval gate for high-value actions": whatever requests
\* interleave and die, nothing is executed on a case that has waited for its
\* approval since it was committed.
THEOREM GateHolds == Spec => []GateHoldsFromBirth
<1>1. CaseInv => GateHoldsFromBirth
  BY DEF CaseInv, RowsInv
<1> QED BY <1>1, Initially, NextCases, PTL DEF Spec

\* mark_paid, mark_recovered: the outcome of a document that was ever settled is
\* recorded with its case, unless the request that was to record it died; no
\* refresh, miss or reminder that takes the document's status back undoes it.
THEOREM SettledDocumentsReachTheirCase == Spec => []PaymentsReachTheCase
<1>1. CaseInv => PaymentsReachTheCase
  BY DEF CaseInv
<1> QED BY <1>1, Initially, NextCases, PTL DEF Spec
===============================================================================
