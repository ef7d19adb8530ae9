----------------------------- MODULE AgentRunsProps -----------------------------
(* The correctness properties of AgentRuns.                                    *)
EXTENDS AgentRuns

WorkedIn(book, c)  == {i \in 1..Len(book.trail[c]) : book.trail[c][i].worked}
DebitedIn(book, c) == {i \in 1..Len(book.trail[c]) : book.trail[c][i].debited}

\* Idempotency across processes (agent._acquire_processing_lock): however the
\* runs, replays, dropped streams and webhooks interleave, the committed trail
\* of a case shows nothing but refusals of malformed input before its last work,
\* unless a run whose wait for the lock timed out overtook another with this very
\* case. ('invalid' is no terminal audit status: each run refuses the case again.)
SettledOnce ==
  \A c \in Cases \ overtaken : \A i, j \in WorkedIn(stored, c) :
    i < j => stored.trail[c][i].after = "invalid"

\* What a case's row says is what the last run that worked it decided, and a row
\* that no run worked is untouched, even when a run overtook the lock. (A run that
\* overtook another and refuses an invalid case once more leaves the row alone.)
RowMatchesItsLastWork ==
  \A c \in Cases :
    /\ WorkedIn(stored, c) = {} => stored.status[c] = "new"
    /\ \A i \in WorkedIn(stored, c) :
         (\A j \in WorkedIn(stored, c) : j <= i)
            => \/ stored.status[c] = stored.trail[c][i].after
               \/ c \in overtaken /\ stored.trail[c][i].after = "invalid"

\* Seen from the database each case obeys the contract of CaseContract: it is
\* refused, escalated untried or worked, once, however many runs compete (and
\* none overtakes another with this case). One refusal may follow another: a run
\* that read the case before it was found invalid may reject it still.
CaseOf(c) == INSTANCE CaseContract WITH
  Cap     <- 1,
  outcome <- stored.status[c],
  debits  <- IF DebitedIn(stored, c) = {} THEN {} ELSE {1}

StaleRefusal(c) ==
  /\ stored.status[c] = "invalid" /\ stored'.status[c] = "rejected"
  /\ DebitedIn(stored', c) = {}

\* (A commit may settle many cases in one step: \A c : CaseOf(c)!CSpec.)
EachCaseKeepsItsContract ==
  /\ \A c \in Cases : CaseOf(c)!CInit
  /\ [][\A c \in Cases \ overtaken' :
          CaseOf(c)!CNext \/ StaleRefusal(c) \/ UNCHANGED CaseOf(c)!cvars]_vars

\* Nobody waits for the lock for ever: every run that has read its cases ends
\* (stated at once for all: in the end no run is under way any more).
RunsEnd == <>[](\A r \in Runs : phase[r] \in {"idle", "done"})

\* agent.StrategyAgent.process: no debit for a mandate whose stored event says
\* that it was revoked.
RevokedIsNotDebited ==
  [][ \A c \in Cases : event[c].kind = "revoked"
        => Len(stored'.trail[c]) = Len(stored.trail[c])
           \/ ~ stored'.trail[c][Len(stored'.trail[c])].debited ]_vars
===============================================================================
