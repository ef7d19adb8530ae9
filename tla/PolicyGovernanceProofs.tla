------------------------- MODULE PolicyGovernanceProofs -------------------------
(***************************************************************************)
(* Proofs about PolicyGovernance, whatever requests interleave and die:    *)
(* every change of a policy version is in the audit log, no two versions of*)
(* a category have the same number, only an overtaken rollback puts a      *)
(* second one in force, and what a request answers is in force.            *)
(***************************************************************************)
EXTENDS PolicyGovernanceProps, SequenceTheorems, FiniteSetTheorems,
        WellFoundedInduction, TLAPS

-------------------------------------------------------------------------------
(* Sets of natural numbers have a least and, when bounded, a greatest element: *)
(* what the latest row, MAX(version_number), relies on.                        *)

LEMMA LeastNatural ==
  ASSUME NEW T, T \subseteq Nat, T # {}
  PROVE  \E x \in T : \A y \in T : x <= y
<1> DEFINE R == OpToRel(<, Nat)
<1>1. IsWellFoundedOn(R, Nat)
  BY NatLessThanWellFounded
<1>2. \A x, y \in Nat : y < x => <<y, x>> \in R
  BY DEF OpToRel
<1> HIDE DEF R
<1>3. PICK x \in T : \A y \in T : ~(<<y, x>> \in R)
  BY <1>1, WFMin, Zenon
<1>4. ASSUME NEW y \in T PROVE x <= y
  <2>1. x \in Nat /\ y \in Nat /\ ~(<<y, x>> \in R)
    BY <1>3
  <2>2. ~(y < x)
    BY <1>2, <2>1
  <2> QED BY <2>1, <2>2
<1> QED BY <1>4

LEMMA GreatestNatural ==
  ASSUME NEW T, T \subseteq Nat, T # {}, NEW b \in Nat, \A x \in T : x <= b
  PROVE  \E x \in T : \A y \in T : y <= x
<1> DEFINE Gaps == {b - x : x \in T}
<1>1. Gaps \subseteq Nat /\ Gaps # {}
  <2>1. \A x \in T : b - x \in Nat
    OBVIOUS
  <2>2. PICK x \in T : TRUE
    OBVIOUS
  <2>3. b - x \in Gaps
    OBVIOUS
  <2> QED BY <2>1, <2>3
<1>2. PICK g \in Gaps : \A h \in Gaps : g <= h
  BY <1>1, LeastNatural
<1>3. PICK x \in T : g = b - x
  BY <1>2
<1>4. ASSUME NEW y \in T PROVE y <= x
  <2>1. b - x <= b - y
    BY <1>2, <1>3
  <2> QED BY <2>1
<1> QED BY <1>4

-------------------------------------------------------------------------------

Entries == [was : VersionStatuses \cup {"none"}, now : VersionStatuses]

\* A policy_versions row with its audit rows, the last of which tells its status.
RowType(N, F, P) ==
  [status : VersionStatuses, number : N, from : F, params : P, log : Seq(Entries)]

Logged(row) ==
  /\ row \in RowType({row.number}, {row.from}, {row.params})
  /\ row.log # <<>> /\ row.status = row.log[Len(row.log)].now

\* A rollback remembers the status its target had.
Phases == {"idle", "target", "active", "done", "failed"}

Remembers(q) ==
  q \in [phase : Phases, target : {q.target}, was : VersionStatuses,
         active : {q.active}]

AllLogged ==
  /\ versions \in Seq({versions[v] : v \in DOMAIN versions})
  /\ \A v \in DOMAIN versions : Logged(versions[v])
  /\ DOMAIN rollback = Rollbacks
  /\ \A b \in Rollbacks : Remembers(rollback[b])

-------------------------------------------------------------------------------
(* Rows.                                                                       *)

LEMMA Statuses ==
  VersionStatuses = {"draft", "recommended", "under_review", "approved", "active",
                     "deprecated", "rolled_back"}
BY DEF VersionStatuses, VersionMoves

\* EXCEPT on the variables of a rollback, whatever version it points to.
LEMMA RequestEdit ==
  ASSUME NEW q, Remembers(q), NEW p \in Phases, NEW n
  PROVE  /\ Remembers([q EXCEPT !.phase = p])
         /\ Remembers([q EXCEPT !.phase = p, !.active = n])
<1> DEFINE T == {q.target}
           A == {q.active, n}
           R == [phase : Phases, target : T, was : VersionStatuses, active : A]
<1>1. q \in R
  BY DEF Remembers
<1> HIDE DEF T, A
<1>2. [q EXCEPT !.phase = p] \in R
  BY <1>1
<1>3. [q EXCEPT !.phase = p, !.active = n] \in R
  <2>1. n \in A
    BY DEF A
  <2> QED BY <1>1, <2>1
<1>4. \A r \in R : Remembers(r)
  BY DEF Remembers
<1> QED BY <1>2, <1>3, <1>4

\* A move that is a status change of a logged row is logged.
LEMMA MovedIsLogged ==
  ASSUME NEW row, Logged(row), NEW was \in VersionStatuses, NEW to \in VersionStatuses
  PROVE  Logged(Moved(row, was, to)) /\ Moved(row, was, to).status = to
<1> DEFINE entry == [was |-> was, now |-> to]
           log   == Append(row.log, entry)
           new   == Moved(row, was, to)
<1>1. entry \in Entries
  BY DEF Entries
<1>2. row.log \in Seq(Entries)
  BY DEF Logged, RowType
<1>3. log \in Seq(Entries) /\ log # <<>> /\ log[Len(log)] = entry
  <2> HIDE DEF entry
  <2>1. /\ log \in Seq(Entries) /\ Len(log) = Len(row.log) + 1
        /\ log[Len(row.log) + 1] = entry
    BY <1>1, <1>2
  <2> HIDE DEF log
  <2>2. Len(row.log) \in Nat /\ Len(<<>>) = 0
    BY <1>2
  <2> QED BY <2>1, <2>2
<1>4. /\ new \in RowType({row.number}, {row.from}, {row.params})
      /\ new.status = to /\ new.log = log
  <2>1. row \in RowType({row.number}, {row.from}, {row.params})
    BY DEF Logged
  <2>2. new = [row EXCEPT !.status = to, !.log = log]
    BY DEF Moved
  <2> DEFINE edited == [row EXCEPT !.status = to, !.log = log]
  <2> HIDE DEF log, new
  <2>4. /\ edited \in RowType({row.number}, {row.from}, {row.params})
        /\ edited.status = to /\ edited.log = log
    <3> DEFINE N == {row.number}
               F == {row.from}
               P == {row.params}
    <3>1. row \in RowType(N, F, P)
      BY <2>1
    <3> HIDE DEF N, F, P, entry
    <3>2. edited \in RowType(N, F, P) /\ edited.status = to /\ edited.log = log
      BY <1>3, <3>1 DEF RowType
    <3> QED BY <3>2 DEF N, F, P
  <2>5. new = edited
    BY <2>2
  <2> HIDE DEF edited
  <2> QED BY <2>4, <2>5
<1> HIDE DEF new, log
<1>5. new \in RowType({new.number}, {new.from}, {new.params})
  BY <1>4 DEF RowType
<1>6. Logged(new)
  BY <1>3, <1>4, <1>5 DEF Logged
<1> QED BY <1>4, <1>6 DEF new

LEMMA TransitionIsLogged ==
  ASSUME NEW row, Logged(row), NEW to \in VersionStatuses
  PROVE  Logged(Transition(row, to))
<1>1. row.status \in VersionStatuses
  BY DEF Logged, RowType
<1> QED BY <1>1, MovedIsLogged DEF Transition

LEMMA WalkIsLogged ==
  ASSUME NEW row, Logged(row)
  PROVE  Logged(Walk(row))
<1> DEFINE r1 == Transition(row, "recommended")
           r2 == Transition(r1, "under_review")
           r3 == Transition(r2, "approved")
<1> HIDE DEF r1, r2, r3
<1>1. Logged(r1)
  BY Statuses, TransitionIsLogged DEF r1
<1>2. Logged(r2)
  BY <1>1, Statuses, TransitionIsLogged DEF r2
<1>3. Logged(r3)
  BY <1>2, Statuses, TransitionIsLogged DEF r3
<1>4. Logged(Transition(r3, "active"))
  BY <1>3, Statuses, TransitionIsLogged
<1> QED BY <1>4 DEF Walk, r1, r2, r3

\* Rows that are rewritten in place stay a sequence.
LEMMA RewrittenRows ==
  ASSUME NEW s, s \in Seq({s[i] : i \in DOMAIN s}),
         NEW t, DOMAIN t = DOMAIN s, t = [i \in DOMAIN s |-> t[i]]
  PROVE  t \in Seq({t[i] : i \in DOMAIN t})
<1> DEFINE S == {t[i] : i \in DOMAIN t}
<1>1. Len(s) \in Nat /\ DOMAIN s = 1..Len(s)
  OBVIOUS
<1>2. t \in [1..Len(s) -> S]
  BY <1>1
<1> HIDE DEF S
<1>3. t \in Seq(S)
  BY <1>1, <1>2
<1> QED BY <1>3 DEF S

-------------------------------------------------------------------------------
(* The steps that write versions.                                              *)

LEMMA ApproveLogs ==
  ASSUME AllLogged, NEW a \in Approvals, ApproveWrites(a)
  PROVE  /\ versions' \in Seq({versions'[v] : v \in DOMAIN versions'})
         /\ \A v \in DOMAIN versions' : Logged(versions'[v])
<1> DEFINE r   == approval[a].rec
           num == NextNumber(Category[Key[r]])
           par == Patched(Key[r])
           row == [status |-> "draft", number |-> num, from |-> r, params |-> par,
                   log |-> <<[was |-> "none", now |-> "draft"]>>]
           S   == {versions[v] : v \in DOMAIN versions}
           T   == S \cup {row}
<1>1. versions' = Append(versions, row)
  BY DEF ApproveWrites
<1> HIDE DEF num, par, r
<1>2. Logged(row)
  <2>1. [was |-> "none", now |-> "draft"] \in Entries
    BY Statuses DEF Entries
  <2>2. /\ <<[was |-> "none", now |-> "draft"]>> \in Seq(Entries)
        /\ <<[was |-> "none", now |-> "draft"]>> # <<>>
        /\ Len(<<[was |-> "none", now |-> "draft"]>>) = 1
    BY <2>1
  <2> QED BY <2>2, Statuses DEF Logged, RowType
<1>3. versions \in Seq(S)
  BY DEF AllLogged
<1> HIDE DEF row
<1>4. versions \in Seq(T) /\ row \in T
  BY <1>3
<1>5. /\ versions' \in Seq(T)
      /\ DOMAIN versions' = 1..(Len(versions) + 1)
      /\ \A v \in 1..Len(versions) : versions'[v] = versions[v]
      /\ versions'[Len(versions) + 1] = row
      /\ Len(versions) \in Nat /\ DOMAIN versions = 1..Len(versions)
  <2> HIDE DEF T
  <2> QED BY <1>1, <1>4
<1>6. \A v \in DOMAIN versions' : Logged(versions'[v])
  <2> SUFFICES ASSUME NEW v \in DOMAIN versions' PROVE Logged(versions'[v])
    OBVIOUS
  <2>1. CASE v = Len(versions) + 1
    BY <1>2, <1>5, <2>1
  <2>2. CASE v # Len(versions) + 1
    <3>1. v \in DOMAIN versions /\ versions'[v] = versions[v]
      BY <1>5, <2>2
    <3> QED BY <3>1 DEF AllLogged
  <2> QED BY <2>1, <2>2
<1>7. versions' \in Seq({versions'[v] : v \in DOMAIN versions'})
  <2> DEFINE U == {versions'[v] : v \in DOMAIN versions'}
  <2>1. versions' \in [1..(Len(versions) + 1) -> U]
    BY <1>5
  <2> HIDE DEF U
  <2>2. versions' \in Seq(U)
    BY <1>5, <2>1
  <2> QED BY <2>2 DEF U
<1> QED BY <1>6, <1>7

LEMMA ActivateLogs ==
  ASSUME AllLogged, NEW a \in Approvals, Activate(a)
  PROVE  /\ versions' \in Seq({versions'[v] : v \in DOMAIN versions'})
         /\ \A v \in DOMAIN versions' : Logged(versions'[v])
<1> DEFINE v    == approval[a].version
           row  == Walk(versions[v])
           rest == IF row.status = "active" THEN Retired(v) ELSE versions
<1>1. versions' = [rest EXCEPT ![v] = row]
  BY DEF Activate
<1>2. DOMAIN rest = DOMAIN versions
  BY DEF Retired
<1>3. versions' = [i \in DOMAIN versions |-> IF i = v THEN row ELSE rest[i]]
  <2> HIDE DEF rest, row, v
  <2> QED BY <1>1, <1>2
<1>4. \A i \in DOMAIN versions : Logged(rest[i])
  <2> SUFFICES ASSUME NEW i \in DOMAIN versions PROVE Logged(rest[i])
    OBVIOUS
  <2>1. Logged(versions[i])
    BY DEF AllLogged
  <2>2. Logged(Moved(versions[i], "active", "deprecated"))
    BY <2>1, Statuses, MovedIsLogged
  <2>3. Logged(Retired(v)[i])
    BY <2>1, <2>2 DEF Retired
  <2> QED BY <2>1, <2>3
<1>5. v \in DOMAIN versions => Logged(row)
  BY WalkIsLogged DEF AllLogged
<1> HIDE DEF rest, row, v
<1>6. DOMAIN versions' = DOMAIN versions /\ versions' = [i \in DOMAIN versions |-> versions'[i]]
  BY <1>3
<1>7. \A i \in DOMAIN versions' : Logged(versions'[i])
  BY <1>3, <1>4, <1>5
<1>8. versions \in Seq({versions[i] : i \in DOMAIN versions})
  BY DEF AllLogged
<1>9. versions' \in Seq({versions'[i] : i \in DOMAIN versions'})
  BY <1>6, <1>8, RewrittenRows
<1> QED BY <1>7, <1>9

LEMMA RollbackLogs ==
  ASSUME AllLogged, NEW b \in Rollbacks, RollbackWrites(b)
  PROVE  /\ versions' \in Seq({versions'[v] : v \in DOMAIN versions'})
         /\ \A v \in DOMAIN versions' : Logged(versions'[v])
<1> DEFINE q == rollback[b]
<1>1. versions' = [v \in DOMAIN versions |->
          CASE v = q.target -> Moved(versions[v], q.was, "active")
            [] v = q.active /\ v # q.target -> Moved(versions[v], "active", "rolled_back")
            [] OTHER -> versions[v]]
  BY DEF RollbackWrites
<1>2. q.was \in VersionStatuses
  BY DEF AllLogged, Remembers
<1> HIDE DEF q
<1>3. ASSUME NEW v \in DOMAIN versions PROVE Logged(versions'[v])
  <2>1. Logged(versions[v])
    BY DEF AllLogged
  <2>2. Logged(Moved(versions[v], q.was, "active"))
    BY <1>2, <2>1, Statuses, MovedIsLogged
  <2>3. Logged(Moved(versions[v], "active", "rolled_back"))
    BY <2>1, Statuses, MovedIsLogged
  <2>4. \/ versions'[v] = Moved(versions[v], q.was, "active")
        \/ versions'[v] = Moved(versions[v], "active", "rolled_back")
        \/ versions'[v] = versions[v]
    BY <1>1
  <2> QED BY <2>1, <2>2, <2>3, <2>4
<1>4. DOMAIN versions' = DOMAIN versions /\ versions' = [i \in DOMAIN versions |-> versions'[i]]
  BY <1>1
<1>5. versions \in Seq({versions[i] : i \in DOMAIN versions})
  BY DEF AllLogged
<1>6. versions' \in Seq({versions'[i] : i \in DOMAIN versions'})
  BY <1>4, <1>5, RewrittenRows
<1> QED BY <1>3, <1>4, <1>6

-------------------------------------------------------------------------------
(* What a rollback remembers.                                                  *)

LEMMA RollbackRemembers ==
  ASSUME AllLogged,
         NEW b \in Rollbacks,
         \/ \E v \in DOMAIN versions : RollbackReadsTarget(b, v)
         \/ RollbackReadsActive(b)
         \/ RollbackWrites(b)
  PROVE  DOMAIN rollback' = Rollbacks /\ \A c \in Rollbacks : Remembers(rollback'[c])
<1>0. DOMAIN rollback = Rollbacks /\ \A c \in Rollbacks : Remembers(rollback[c])
  BY DEF AllLogged
<1>1. CASE \E v \in DOMAIN versions : RollbackReadsTarget(b, v)
  <2>1. PICK v \in DOMAIN versions : RollbackReadsTarget(b, v)
    BY <1>1
  <2> DEFINE q == [phase |-> "target", target |-> v, was |-> versions[v].status, active |-> 0]
  <2>2. rollback' = [rollback EXCEPT ![b] = q]
    BY <2>1 DEF RollbackReadsTarget
  <2>3. versions[v].status \in VersionStatuses
    BY DEF AllLogged, Logged, RowType
  <2>4. Remembers(q)
    BY <2>3 DEF Remembers, Phases
  <2> HIDE DEF q
  <2>5. rollback'[b] = q /\ \A c \in Rollbacks \ {b} : rollback'[c] = rollback[c]
    BY <1>0, <2>2
  <2>6. DOMAIN rollback' = Rollbacks
    BY <1>0, <2>2
  <2> QED BY <1>0, <2>4, <2>5, <2>6
<1>2. CASE RollbackReadsActive(b)
  <2> DEFINE n == Serving(VersionCategory(rollback[b].target))
  <2>1. rollback' = [rollback EXCEPT ![b].phase = "active", ![b].active = n]
    BY <1>2 DEF RollbackReadsActive
  <2> HIDE DEF n
  <2>2. rollback'[b] = [rollback[b] EXCEPT !.phase = "active", !.active = n]
    BY <1>0, <2>1
  <2> DEFINE asked  == rollback[b]
            edited == [asked EXCEPT !.phase = "active", !.active = n]
  <2>3. Remembers(asked) /\ "active" \in Phases
    BY <1>0 DEF Phases
  <2> HIDE DEF asked
  <2>4. Remembers(edited)
    BY <2>3, RequestEdit
  <2>5. rollback'[b] = edited
    BY <2>2 DEF asked
  <2> HIDE DEF edited
  <2>6. Remembers(rollback'[b])
    BY <2>4, <2>5
  <2>7. DOMAIN rollback' = Rollbacks /\ \A c \in Rollbacks \ {b} : rollback'[c] = rollback[c]
    BY <1>0, <2>1
  <2> QED BY <1>0, <2>6, <2>7
<1>3. CASE RollbackWrites(b)
  <2>1. rollback' = [rollback EXCEPT ![b].phase = "done"]
    BY <1>3 DEF RollbackWrites
  <2>2. rollback'[b] = [rollback[b] EXCEPT !.phase = "done"]
    BY <1>0, <2>1
  <2>3. Remembers(rollback'[b])
    <3>1. Remembers(rollback[b]) /\ "done" \in Phases
      BY <1>0 DEF Phases
    <3>2. Remembers([rollback[b] EXCEPT !.phase = "done"])
      BY <3>1, RequestEdit
    <3> QED BY <2>2, <3>2
  <2>4. DOMAIN rollback' = Rollbacks /\ \A c \in Rollbacks \ {b} : rollback'[c] = rollback[c]
    BY <1>0, <2>1
  <2> QED BY <1>0, <2>3, <2>4
<1> QED BY <1>1, <1>2, <1>3

LEMMA FailureRemembers ==
  ASSUME AllLogged, Fail
  PROVE  DOMAIN rollback' = Rollbacks /\ \A c \in Rollbacks : Remembers(rollback'[c])
<1>0. DOMAIN rollback = Rollbacks /\ \A c \in Rollbacks : Remembers(rollback[c])
  BY DEF AllLogged
<1>1. CASE rollback' = rollback
  BY <1>0, <1>1
<1>2. ASSUME NEW b \in Rollbacks, rollback' = [rollback EXCEPT ![b].phase = "failed"]
      PROVE  DOMAIN rollback' = Rollbacks /\ \A c \in Rollbacks : Remembers(rollback'[c])
  <2>2. rollback'[b] = [rollback[b] EXCEPT !.phase = "failed"]
    BY <1>0, <1>2
  <2>3. Remembers(rollback'[b])
    <3>1. Remembers(rollback[b]) /\ "failed" \in Phases
      BY <1>0 DEF Phases
    <3>2. Remembers([rollback[b] EXCEPT !.phase = "failed"])
      BY <3>1, RequestEdit
    <3> QED BY <2>2, <3>2
  <2>4. DOMAIN rollback' = Rollbacks /\ \A c \in Rollbacks \ {b} : rollback'[c] = rollback[c]
    BY <1>0, <1>2
  <2> QED BY <1>0, <2>3, <2>4
<1> QED BY <1>1, <1>2 DEF Fail

-------------------------------------------------------------------------------
LEMMA LoggedStep == AllLogged /\ [Next]_vars => AllLogged'
<1> SUFFICES ASSUME AllLogged, [Next]_vars PROVE AllLogged'
  OBVIOUS
<1>1. CASE \E s \in Scans : ScanReads(s) \/ ScanInserts(s)
  BY <1>1 DEF AllLogged, ScanReads, ScanInserts
<1>2. CASE \E a \in Approvals, r \in Recs : ApproveReads(a, r)
  BY <1>2 DEF AllLogged, ApproveReads
<1>3. ASSUME NEW a \in Approvals, ApproveWrites(a) PROVE AllLogged'
  <2>1. rollback' = rollback
    BY <1>3 DEF ApproveWrites
  <2> QED BY <1>3, <2>1, ApproveLogs DEF AllLogged
<1>4. ASSUME NEW a \in Approvals, Activate(a) PROVE AllLogged'
  <2>1. rollback' = rollback
    BY <1>4 DEF Activate
  <2> QED BY <1>4, <2>1, ActivateLogs DEF AllLogged
<1>5. CASE \E r \in Recs : Reject(r)
  BY <1>5 DEF AllLogged, Reject
<1>6. ASSUME NEW b \in Rollbacks,
             (\E v \in DOMAIN versions : RollbackReadsTarget(b, v)) \/ RollbackReadsActive(b)
      PROVE  AllLogged'
  <2>1. versions' = versions
    BY <1>6 DEF RollbackReadsTarget, RollbackReadsActive
  <2> QED BY <1>6, <2>1, RollbackRemembers DEF AllLogged
<1>7. ASSUME NEW b \in Rollbacks, RollbackWrites(b) PROVE AllLogged'
  BY <1>7, RollbackLogs, RollbackRemembers DEF AllLogged
<1>8. CASE Fail
  <2>1. versions' = versions
    BY <1>8 DEF Fail
  <2> QED BY <1>8, <2>1, FailureRemembers DEF AllLogged
<1>9. CASE UNCHANGED vars
  BY <1>9 DEF AllLogged, vars
<1> QED BY <1>1, <1>2, <1>3, <1>4, <1>5, <1>6, <1>7, <1>8, <1>9 DEF Next

LEMMA InitLogged == Init => AllLogged
<1> SUFFICES ASSUME Init PROVE AllLogged
  OBVIOUS
<1>1. versions = <<>> /\ DOMAIN versions = {}
  BY DEF Init
<1>2. versions \in Seq({versions[v] : v \in DOMAIN versions})
  BY <1>1
<1>3. /\ DOMAIN rollback = Rollbacks
      /\ \A b \in Rollbacks : rollback[b] = [phase |-> "idle", target |-> 0,
                                             was |-> "draft", active |-> 0]
  BY DEF Init
<1>4. \A b \in Rollbacks : Remembers(rollback[b])
  BY <1>3, Statuses DEF Remembers, Phases
<1> QED BY <1>1, <1>2, <1>3, <1>4 DEF AllLogged

\* No policy change is silent (policy_engine.py, Design principles): for any
\* number of concurrent scans, approvals, rejections, rollbacks and failures the
\* status of a version is the one its last audit row reports.
THEOREM EveryChangeIsLogged == Spec => []NoSilentChange
<1>1. AllLogged => NoSilentChange
  BY DEF AllLogged, Logged, NoSilentChange
<1> QED BY <1>1, InitLogged, LoggedStep, PTL DEF Spec

-------------------------------------------------------------------------------
(* Version numbers.                                                            *)

\* Numbers count at most the rows there are, so that they have a greatest.
Numbering ==
  /\ \A v \in DOMAIN versions : versions[v].number \in 1..Len(versions)
  /\ NumbersAreUnique

\* What the number of a version is unique for never changes.
Relabelled(row, new) == new.number = row.number /\ new.from = row.from

LEMMA MovedKeepsLabel ==
  ASSUME NEW row, Logged(row), NEW was, NEW to
  PROVE  Relabelled(row, Moved(row, was, to))
<1> DEFINE log == Append(row.log, [was |-> was, now |-> to])
<1>1. Moved(row, was, to) = [row EXCEPT !.status = to, !.log = log]
  BY DEF Moved
<1>2. row \in RowType({row.number}, {row.from}, {row.params})
  BY DEF Logged
<1> HIDE DEF log
<1> QED BY <1>1, <1>2 DEF RowType, Relabelled

LEMMA TransitionKeepsLabel ==
  ASSUME NEW row, Logged(row), NEW to \in VersionStatuses
  PROVE  Relabelled(row, Transition(row, to)) /\ Logged(Transition(row, to))
BY MovedKeepsLabel, TransitionIsLogged DEF Transition, Relabelled

LEMMA WalkKeepsLabel ==
  ASSUME NEW row, Logged(row)
  PROVE  Relabelled(row, Walk(row))
<1> DEFINE r1 == Transition(row, "recommended")
           r2 == Transition(r1, "under_review")
           r3 == Transition(r2, "approved")
           r4 == Transition(r3, "active")
<1> HIDE DEF r1, r2, r3, r4
<1>1. Relabelled(row, r1) /\ Logged(r1)
  BY Statuses, TransitionKeepsLabel DEF r1
<1>2. Relabelled(r1, r2) /\ Logged(r2)
  BY <1>1, Statuses, TransitionKeepsLabel DEF r2
<1>3. Relabelled(r2, r3) /\ Logged(r3)
  BY <1>2, Statuses, TransitionKeepsLabel DEF r3
<1>4. Relabelled(r3, r4)
  BY <1>3, Statuses, TransitionKeepsLabel DEF r4
<1>5. Walk(row) = r4
  BY DEF Walk, r1, r2, r3, r4
<1> QED BY <1>1, <1>2, <1>3, <1>4, <1>5 DEF Relabelled

\* A step that adds no version leaves the numbering alone.
LEMMA RelabelledStep ==
  ASSUME AllLogged, AllLogged', Numbering, DOMAIN versions' = DOMAIN versions,
         \A v \in DOMAIN versions : Relabelled(versions[v], versions'[v])
  PROVE  Numbering'
<1>1. Len(versions') = Len(versions)
  <2>1. versions \in Seq({versions[v] : v \in DOMAIN versions})
    BY DEF AllLogged
  <2>2. versions' \in Seq({versions'[v] : v \in DOMAIN versions'})
    BY DEF AllLogged
  <2> DEFINE S == {versions[v] : v \in DOMAIN versions}
             T == {versions'[v] : v \in DOMAIN versions'}
  <2>3. versions \in Seq(S) /\ versions' \in Seq(T)
    BY <2>1, <2>2
  <2> HIDE DEF S, T
  <2>4. /\ DOMAIN versions = 1..Len(versions) /\ Len(versions) \in Nat
        /\ DOMAIN versions' = 1..Len(versions') /\ Len(versions') \in Nat
    BY <2>3
  <2> QED BY <2>4
<1>2. \A v \in DOMAIN versions : VersionCategory(v)' = VersionCategory(v)
  BY DEF Relabelled, VersionCategory
<1> QED BY <1>1, <1>2 DEF Numbering, NumbersAreUnique, Relabelled

\* MAX(version_number) + 1 is above every number of the category.
LEMMA NextNumberIsFresh ==
  ASSUME AllLogged, Numbering, NEW cat
  PROVE  /\ NextNumber(cat) \in 1..(Len(versions) + 1)
         /\ \A v \in DOMAIN versions :
              VersionCategory(v) = cat => versions[v].number # NextNumber(cat)
<1> DEFINE T == {0} \cup {versions[v].number :
                            v \in {u \in DOMAIN versions : VersionCategory(u) = cat}}
<1>1. Len(versions) \in Nat
  <2> DEFINE S == {versions[v] : v \in DOMAIN versions}
  <2>1. versions \in Seq(S)
    BY DEF AllLogged
  <2> HIDE DEF S
  <2> QED BY <2>1
<1>2. T \subseteq Nat /\ T # {} /\ \A x \in T : x <= Len(versions)
  BY <1>1 DEF Numbering
<1>3. \A v \in DOMAIN versions : VersionCategory(v) = cat => versions[v].number \in T
  OBVIOUS
<1>4. NextNumber(cat) = 1 + Max(T)
  BY DEF NextNumber
<1> HIDE DEF T
<1>5. \E x \in T : \A y \in T : y <= x
  BY <1>1, <1>2, GreatestNatural
<1> DEFINE m == Max(T)
<1>6. m \in T /\ \A y \in T : y <= m
  <2>1. PICK x \in T : \A y \in T : x >= y
    BY <1>2, <1>5
  <2>2. Max(T) \in T /\ \A y \in T : Max(T) >= y
    BY <2>1 DEF Max
  <2> HIDE DEF m
  <2>3. m \in T /\ \A y \in T : m >= y
    BY <2>2 DEF m
  <2> QED BY <1>2, <2>3
<1>7. NextNumber(cat) = 1 + m
  BY <1>4
<1> HIDE DEF m
<1>8. m \in Nat /\ m <= Len(versions)
  BY <1>2, <1>6
<1>9. NextNumber(cat) \in 1..(Len(versions) + 1)
  BY <1>1, <1>7, <1>8
<1>10. ASSUME NEW v \in DOMAIN versions, VersionCategory(v) = cat
       PROVE  versions[v].number # NextNumber(cat)
  <2>1. versions[v].number \in T
    BY <1>3, <1>10
  <2>2. versions[v].number <= m /\ versions[v].number \in Nat
    BY <1>2, <1>6, <2>1
  <2> QED BY <1>7, <1>8, <2>2
<1> QED BY <1>9, <1>10

LEMMA ApproveNumbers ==
  ASSUME AllLogged, Numbering, NEW a \in Approvals, ApproveWrites(a)
  PROVE  Numbering'
<1> DEFINE r   == approval[a].rec
           cat == Category[Key[r]]
           num == NextNumber(cat)
           par == Patched(Key[r])
           log == <<[was |-> "none", now |-> "draft"]>>
           row == [status |-> "draft", number |-> num, from |-> r, params |-> par, log |-> log]
           n   == Len(versions)
           S   == {versions[v] : v \in DOMAIN versions} \cup {row}
<1>1. versions' = Append(versions, row)
  BY DEF ApproveWrites
<1>2. num \in 1..(n + 1) /\ \A v \in DOMAIN versions :
                               VersionCategory(v) = cat => versions[v].number # num
  BY NextNumberIsFresh
<1>3. row.number = num /\ Category[Key[row.from]] = cat
  OBVIOUS
<1> HIDE DEF r, num, par, log, cat
<1>4. versions \in Seq(S) /\ row \in S
  BY DEF AllLogged
<1> HIDE DEF row, S
<1>5. /\ n \in Nat /\ DOMAIN versions = 1..n
      /\ Len(versions') = n + 1 /\ DOMAIN versions' = 1..(n + 1)
      /\ \A v \in 1..n : versions'[v] = versions[v]
      /\ versions'[n + 1] = row
  BY <1>1, <1>4
<1>6. /\ \A v \in 1..n : VersionCategory(v)' = VersionCategory(v)
      /\ \A v \in DOMAIN versions' : v = n + 1 => VersionCategory(v)' = cat
  BY <1>3, <1>5 DEF VersionCategory
<1> HIDE DEF n
<1>7. \A v \in DOMAIN versions' : versions'[v].number \in 1..Len(versions')
  BY <1>2, <1>3, <1>5 DEF Numbering, n
<1>8. NumbersAreUnique'
  <2> SUFFICES ASSUME NEW u \in 1..(n + 1), NEW v \in 1..(n + 1),
                      VersionCategory(u)' = VersionCategory(v)',
                      versions'[u].number = versions'[v].number
               PROVE  u = v
    BY <1>5 DEF NumbersAreUnique
  <2>1. CASE u \in 1..n /\ v \in 1..n
    BY <1>5, <1>6, <2>1 DEF Numbering, NumbersAreUnique
  <2>2. CASE u = n + 1 /\ v \in 1..n
    <3>1. VersionCategory(v) = cat /\ versions[v].number = num
      BY <1>3, <1>5, <1>6, <2>2
    <3> QED BY <1>2, <1>5, <2>2, <3>1
  <2>3. CASE v = n + 1 /\ u \in 1..n
    <3>1. VersionCategory(u) = cat /\ versions[u].number = num
      BY <1>3, <1>5, <1>6, <2>3
    <3> QED BY <1>2, <1>5, <2>3, <3>1
  <2> QED BY <1>5, <2>1, <2>2, <2>3
<1> QED BY <1>7, <1>8 DEF Numbering

LEMMA ActivateNumbers ==
  ASSUME AllLogged, NEW a \in Approvals, Activate(a)
  PROVE  /\ DOMAIN versions' = DOMAIN versions
         /\ \A v \in DOMAIN versions : Relabelled(versions[v], versions'[v])
<1> DEFINE v    == approval[a].version
           row  == Walk(versions[v])
           rest == IF row.status = "active" THEN Retired(v) ELSE versions
<1>1. versions' = [rest EXCEPT ![v] = row]
  BY DEF Activate
<1>2. DOMAIN rest = DOMAIN versions
  BY DEF Retired
<1>3. v \in DOMAIN versions => Relabelled(versions[v], row)
  BY WalkKeepsLabel DEF AllLogged
<1>4. ASSUME NEW u \in DOMAIN versions PROVE Relabelled(versions[u], rest[u])
  <2>1. Relabelled(versions[u], Moved(versions[u], "active", "deprecated"))
    BY MovedKeepsLabel DEF AllLogged
  <2>2. Relabelled(versions[u], versions[u])
    BY DEF Relabelled
  <2> QED BY <2>1, <2>2 DEF Retired
<1> HIDE DEF rest, row, v
<1>5. /\ DOMAIN versions' = DOMAIN versions
      /\ \A u \in DOMAIN versions : versions'[u] = IF u = v THEN row ELSE rest[u]
  BY <1>1, <1>2
<1> QED BY <1>3, <1>4, <1>5

LEMMA RollbackNumbers ==
  ASSUME AllLogged, NEW b \in Rollbacks, RollbackWrites(b)
  PROVE  /\ DOMAIN versions' = DOMAIN versions
         /\ \A v \in DOMAIN versions : Relabelled(versions[v], versions'[v])
<1> DEFINE q == rollback[b]
<1>1. versions' = [v \in DOMAIN versions |->
          CASE v = q.target -> Moved(versions[v], q.was, "active")
            [] v = q.active /\ v # q.target -> Moved(versions[v], "active", "rolled_back")
            [] OTHER -> versions[v]]
  BY DEF RollbackWrites
<1> HIDE DEF q
<1>2. ASSUME NEW v \in DOMAIN versions PROVE Relabelled(versions[v], versions'[v])
  <2>1. /\ Relabelled(versions[v], Moved(versions[v], q.was, "active"))
        /\ Relabelled(versions[v], Moved(versions[v], "active", "rolled_back"))
        /\ Relabelled(versions[v], versions[v])
    BY MovedKeepsLabel DEF AllLogged, Relabelled
  <2>2. \/ versions'[v] = Moved(versions[v], q.was, "active")
        \/ versions'[v] = Moved(versions[v], "active", "rolled_back")
        \/ versions'[v] = versions[v]
    BY <1>1
  <2> QED BY <2>1, <2>2
<1> QED BY <1>1, <1>2

LEMMA NumberingStep == AllLogged /\ Numbering /\ [Next]_vars => Numbering'
<1> SUFFICES ASSUME AllLogged, Numbering, [Next]_vars PROVE Numbering'
  OBVIOUS
<1>0. AllLogged'
  BY LoggedStep
<1>1. ASSUME NEW a \in Approvals, ApproveWrites(a) PROVE Numbering'
  BY <1>1, ApproveNumbers
<1>2. ASSUME NEW a \in Approvals, Activate(a) PROVE Numbering'
  BY <1>0, <1>2, ActivateNumbers, RelabelledStep
<1>3. ASSUME NEW b \in Rollbacks, RollbackWrites(b) PROVE Numbering'
  BY <1>0, <1>3, RollbackNumbers, RelabelledStep
<1>4. CASE versions' = versions
  BY <1>4 DEF Numbering, NumbersAreUnique, VersionCategory
<1> QED BY <1>1, <1>2, <1>3, <1>4
    DEF Next, vars, ScanReads, ScanInserts, ApproveReads, Reject, RollbackReadsTarget,
        RollbackReadsActive, Fail

\* get_active_policy_version orders by version_number: for any number of
\* concurrent approvals, rollbacks and failures, two versions of a category never
\* share a number, because it is computed in the transaction that inserts the row.
THEOREM VersionNumbersAreUnique == Spec => []NumbersAreUnique
<1>1. Init => Numbering
  BY DEF Init, Numbering, NumbersAreUnique
<1>2. Numbering => NumbersAreUnique
  BY DEF Numbering
<1> QED BY <1>1, <1>2, InitLogged, LoggedStep, NumberingStep, PTL DEF Spec

-------------------------------------------------------------------------------
(* What the steps do to the statuses.                                          *)

LEMMA TwoInForce ==
  ASSUME NEW S, IsFiniteSet(S)
  PROVE  Cardinality(S) > 1 <=> \E x, y \in S : x # y
<1>1. Cardinality(S) \in Nat
  BY FS_CardinalityType
<1>2. ASSUME NEW x \in S, NEW y \in S, x # y PROVE Cardinality(S) > 1
  <2>1. IsFiniteSet({x}) /\ Cardinality({x}) = 1
    BY FS_Singleton
  <2>2. Cardinality({x}) <= Cardinality(S) /\ (Cardinality(S) = Cardinality({x}) => S = {x})
    BY FS_Subset
  <2>3. S # {x}
    BY <1>2
  <2> QED BY <1>1, <2>1, <2>2, <2>3
<1>3. ASSUME Cardinality(S) > 1 PROVE \E x, y \in S : x # y
  <2>1. S # {} /\ \A x : S # {x}
    BY <1>1, <1>3, FS_EmptySet, FS_Singleton
  <2>2. PICK x \in S : TRUE
    BY <2>1
  <2>3. ~(S \subseteq {x})
    BY <2>1, <2>2
  <2> QED BY <2>2, <2>3
<1> QED BY <1>2, <1>3

LEMMA FiniteRows ==
  ASSUME NEW s, s \in Seq({s[i] : i \in DOMAIN s})
  PROVE  Len(s) \in Nat /\ DOMAIN s = 1..Len(s) /\ IsFiniteSet(DOMAIN s)
<1> DEFINE S == {s[i] : i \in DOMAIN s}
<1>1. s \in Seq(S)
  OBVIOUS
<1> HIDE DEF S
<1>2. Len(s) \in Nat /\ DOMAIN s = 1..Len(s)
  BY <1>1
<1> QED BY <1>2, FS_Interval

\* Of a single version in force the highest number is its own.
LEMMA TheOnlyOneServes ==
  ASSUME NEW rows, NEW w, rows[w].number \in Nat
  PROVE  (CHOOSE v \in {w} : \A u \in {w} : rows[u].number <= rows[v].number) = w
<1>1. \A u \in {w} : rows[u].number <= rows[w].number
  OBVIOUS
<1>2. \E v \in {w} : \A u \in {w} : rows[u].number <= rows[v].number
  BY <1>1
<1> DEFINE P(v) == \A u \in {w} : rows[u].number <= rows[v].number
<1> HIDE DEF P
<1>3. (CHOOSE v \in {w} : P(v)) \in {w}
  BY <1>2 DEF P
<1> QED BY <1>3 DEF P

LEMMA TransitionStatus ==
  ASSUME NEW row, Logged(row), NEW to \in VersionStatuses
  PROVE  /\ Logged(Transition(row, to))
         /\ Transition(row, to).status = IF to \in VersionMoves[row.status]
                                         THEN to ELSE row.status
<1>1. row.status \in VersionStatuses
  BY DEF Logged, RowType
<1> QED BY <1>1, MovedIsLogged DEF Transition

\* The four moves make an active version of a draft, and a draft of nothing.
LEMMA WalkStatus ==
  ASSUME NEW row, Logged(row)
  PROVE  /\ row.status = "draft" => Walk(row).status = "active"
         /\ Walk(row).status # "draft"
<1> DEFINE r1 == Transition(row, "recommended")
           r2 == Transition(r1, "under_review")
           r3 == Transition(r2, "approved")
           r4 == Transition(r3, "active")
<1> HIDE DEF r1, r2, r3, r4
<1>1. /\ Logged(r1)
      /\ r1.status = IF "recommended" \in VersionMoves[row.status]
                     THEN "recommended" ELSE row.status
  BY Statuses, TransitionStatus DEF r1
<1>2. /\ Logged(r2)
      /\ r2.status = IF "under_review" \in VersionMoves[r1.status]
                     THEN "under_review" ELSE r1.status
  BY <1>1, Statuses, TransitionStatus DEF r2
<1>3. /\ Logged(r3)
      /\ r3.status = IF "approved" \in VersionMoves[r2.status]
                     THEN "approved" ELSE r2.status
  BY <1>2, Statuses, TransitionStatus DEF r3
<1>4. r4.status = IF "active" \in VersionMoves[r3.status] THEN "active" ELSE r3.status
  BY <1>3, Statuses, TransitionStatus DEF r4
<1>5. Walk(row) = r4
  BY DEF Walk, r1, r2, r3, r4
<1>6. /\ VersionMoves["draft"] = {"recommended", "deprecated"}
      /\ VersionMoves["recommended"] = {"under_review", "deprecated"}
      /\ VersionMoves["under_review"] = {"approved", "deprecated"}
      /\ VersionMoves["approved"] = {"active", "deprecated"}
  BY DEF VersionMoves
<1>7. row.status = "draft" => Walk(row).status = "active"
  BY <1>1, <1>2, <1>3, <1>4, <1>5, <1>6
<1>8. r1.status # "draft"
  BY <1>1, <1>6
<1>9. r4.status # "draft"
  BY <1>2, <1>3, <1>4, <1>8
<1> QED BY <1>5, <1>7, <1>9

LEMMA ApproveAppends ==
  ASSUME AllLogged, NEW a \in Approvals, ApproveWrites(a), NEW new, new = Len(versions) + 1
  PROVE  /\ new \notin DOMAIN versions /\ DOMAIN versions' = DOMAIN versions \cup {new}
         /\ \A v \in DOMAIN versions : versions'[v] = versions[v]
         /\ versions'[new].status = "draft" /\ versions'[new].from = approval[a].rec
         /\ new # 0
<1> DEFINE r   == approval[a].rec
           num == NextNumber(Category[Key[r]])
           par == Patched(Key[r])
           log == <<[was |-> "none", now |-> "draft"]>>
           row == [status |-> "draft", number |-> num, from |-> r, params |-> par, log |-> log]
           S   == {versions[v] : v \in DOMAIN versions} \cup {row}
<1>1. versions' = Append(versions, row)
  BY DEF ApproveWrites
<1>2. row.status = "draft" /\ row.from = approval[a].rec
  OBVIOUS
<1> HIDE DEF r, num, par, log
<1>3. versions \in Seq(S) /\ row \in S
  BY DEF AllLogged
<1> HIDE DEF row, S
<1> QED BY <1>1, <1>2, <1>3

LEMMA ActivateStatuses ==
  ASSUME AllLogged, NEW a \in Approvals, Activate(a),
         NEW u \in DOMAIN versions, NEW v, v = approval[a].version
  PROVE  /\ u = v => versions'[u] = Walk(versions[v])
         /\ u # v => versions'[u].status =
                       IF Walk(versions[v]).status = "active"
                            /\ u \in ActiveIn(VersionCategory(v))
                       THEN "deprecated" ELSE versions[u].status
<1> DEFINE row  == Walk(versions[v])
           rest == IF row.status = "active" THEN Retired(v) ELSE versions
<1>1. versions' = [rest EXCEPT ![v] = row]
  BY DEF Activate
<1>2. DOMAIN rest = DOMAIN versions
  BY DEF Retired
<1>3. Moved(versions[u], "active", "deprecated").status = "deprecated"
  BY Statuses, MovedIsLogged DEF AllLogged
<1>4. u # v => rest[u].status = IF row.status = "active" /\ u \in ActiveIn(VersionCategory(v))
                                THEN "deprecated" ELSE versions[u].status
  BY <1>3 DEF Retired
<1> HIDE DEF rest, row
<1>5. versions'[u] = IF u = v THEN row ELSE rest[u]
  BY <1>1, <1>2
<1> QED BY <1>4, <1>5 DEF row

LEMMA RollbackStatuses ==
  ASSUME AllLogged, NEW b \in Rollbacks, RollbackWrites(b), NEW u \in DOMAIN versions
  PROVE  versions'[u].status = IF u = rollback[b].target THEN "active"
                               ELSE IF u = rollback[b].active THEN "rolled_back"
                               ELSE versions[u].status
<1> DEFINE q == rollback[b]
<1>1. versions'[u] = IF u = q.target THEN Moved(versions[u], q.was, "active")
                     ELSE IF u = q.active THEN Moved(versions[u], "active", "rolled_back")
                     ELSE versions[u]
  BY DEF RollbackWrites
<1>2. q.was \in VersionStatuses /\ Logged(versions[u])
  BY DEF AllLogged, Remembers
<1> HIDE DEF q
<1>3. /\ Moved(versions[u], q.was, "active").status = "active"
      /\ Moved(versions[u], "active", "rolled_back").status = "rolled_back"
  BY <1>2, Statuses, MovedIsLogged
<1> QED BY <1>1, <1>3 DEF q

-------------------------------------------------------------------------------
(* One policy per category.                                                    *)

LEMMA ApproveInForce ==
  ASSUME AllLogged, NEW a \in Approvals, ApproveWrites(a), NEW cat
  PROVE  ActiveIn(cat)' \subseteq ActiveIn(cat)
<1>1. /\ DOMAIN versions' = DOMAIN versions \cup {Len(versions) + 1}
      /\ \A v \in DOMAIN versions : versions'[v] = versions[v]
      /\ versions'[Len(versions) + 1].status = "draft"
  BY ApproveAppends
<1> QED BY <1>1 DEF ActiveIn, VersionCategory

LEMMA SameCategories ==
  ASSUME \A v \in DOMAIN versions : Relabelled(versions[v], versions'[v])
  PROVE  \A v \in DOMAIN versions : VersionCategory(v)' = VersionCategory(v)
BY DEF Relabelled, VersionCategory

LEMMA ActivateInForce ==
  ASSUME AllLogged, NEW a \in Approvals, Activate(a), NEW cat
  PROVE  \/ ActiveIn(cat)' \subseteq ActiveIn(cat)
         \/ ActiveIn(cat)' \subseteq {approval[a].version}
<1> DEFINE v == approval[a].version
<1>1. /\ DOMAIN versions' = DOMAIN versions
      /\ \A u \in DOMAIN versions : VersionCategory(u)' = VersionCategory(u)
  BY ActivateNumbers, SameCategories
<1>2. \A u \in DOMAIN versions :
        /\ u = v => versions'[u] = Walk(versions[v])
        /\ u # v => versions'[u].status =
                      IF Walk(versions[v]).status = "active"
                           /\ u \in ActiveIn(VersionCategory(v))
                      THEN "deprecated" ELSE versions[u].status
  BY ActivateStatuses
<1> HIDE DEF v
<1>3. CASE Walk(versions[v]).status = "active" /\ VersionCategory(v) = cat
  <2>1. ASSUME NEW u \in ActiveIn(cat)' PROVE u = v
    <3>1. u \in DOMAIN versions /\ versions'[u].status = "active" /\ VersionCategory(u) = cat
      BY <1>1, <2>1 DEF ActiveIn
    <3> QED BY <1>2, <1>3, <3>1 DEF ActiveIn
  <2> QED BY <2>1 DEF v
<1>4. CASE ~(Walk(versions[v]).status = "active" /\ VersionCategory(v) = cat)
  <2>1. ASSUME NEW u \in ActiveIn(cat)' PROVE u \in ActiveIn(cat)
    <3>1. u \in DOMAIN versions /\ versions'[u].status = "active" /\ VersionCategory(u) = cat
      BY <1>1, <2>1 DEF ActiveIn
    <3>2. u # v
      BY <1>2, <1>4, <3>1
    <3>3. versions[u].status = "active"
      BY <1>2, <3>1, <3>2
    <3> QED BY <3>1, <3>3 DEF ActiveIn
  <2> QED BY <2>1
<1> QED BY <1>3, <1>4

\* A rollback that wrote what it had read leaves its target alone in force.
LEMMA RollbackInForce ==
  ASSUME AllLogged, Numbering, NEW b \in Rollbacks, RollbackWrites(b), ~Overtaken(b),
         NEW cat
  PROVE  \/ ActiveIn(cat)' \subseteq ActiveIn(cat)
         \/ /\ cat = VersionCategory(rollback[b].target)
            /\ \/ ActiveIn(cat)' \subseteq {rollback[b].target}
               \/ Cardinality(ActiveIn(cat)) > 1
<1> DEFINE q == rollback[b]
           t == q.target
<1>1. /\ DOMAIN versions' = DOMAIN versions
      /\ \A u \in DOMAIN versions : VersionCategory(u)' = VersionCategory(u)
  BY RollbackNumbers, SameCategories
<1>2. \A u \in DOMAIN versions :
        versions'[u].status = IF u = t THEN "active"
                              ELSE IF u = q.active THEN "rolled_back" ELSE versions[u].status
  BY RollbackStatuses
<1>3. Serving(VersionCategory(t)) = q.active
  BY DEF Overtaken
<1> HIDE DEF q, t
<1>4. ASSUME NEW u \in ActiveIn(cat)', u # t
      PROVE  u \in ActiveIn(cat) /\ u # q.active
  <2>1. u \in DOMAIN versions /\ versions'[u].status = "active" /\ VersionCategory(u) = cat
    BY <1>1, <1>4 DEF ActiveIn
  <2>2. u # q.active /\ versions[u].status = "active"
    BY <1>2, <1>4, <2>1
  <2> QED BY <2>1, <2>2 DEF ActiveIn
<1>5. CASE cat # VersionCategory(t)
  <2>1. t \notin ActiveIn(cat)'
    BY <1>1, <1>5 DEF ActiveIn
  <2> QED BY <1>4, <2>1
<1>6. CASE cat = VersionCategory(t) /\ ~(ActiveIn(cat)' \subseteq {t})
  <2>1. PICK u \in ActiveIn(cat)' : u # t
    BY <1>6
  <2>2. u \in ActiveIn(cat) /\ u # Serving(cat)
    BY <1>3, <1>4, <1>6, <2>1
  <2>3. ActiveIn(cat) # {u}
    <3>1. u \in DOMAIN versions /\ versions[u].number \in Nat
      BY <2>2 DEF ActiveIn, Numbering
    <3>2. ActiveIn(cat) = {u} => Serving(cat) = u
      BY <3>1, TheOnlyOneServes DEF Serving
    <3> QED BY <2>2, <3>2
  <2>4. PICK w \in ActiveIn(cat) : w # u
    BY <2>2, <2>3
  <2>5. IsFiniteSet(ActiveIn(cat))
    <3>1. IsFiniteSet(DOMAIN versions) /\ ActiveIn(cat) \subseteq DOMAIN versions
      BY FiniteRows DEF AllLogged, ActiveIn
    <3> QED BY <3>1, FS_Subset
  <2>6. Cardinality(ActiveIn(cat)) > 1
    BY <2>2, <2>4, <2>5, TwoInForce
  <2> QED BY <1>6, <2>6 DEF t, q
<1> QED BY <1>5, <1>6 DEF t, q

LEMMA SecondPolicyStep ==
  ASSUME AllLogged, AllLogged', Numbering, [Next]_vars, NEW k \in Keys,
         Cardinality(ActiveIn(Category[k])') > 1
  PROVE  \/ Cardinality(ActiveIn(Category[k])) > 1
         \/ \E b \in Rollbacks : RollbackWrites(b) /\ Overtaken(b)
<1> DEFINE cat == Category[k]
           now == ActiveIn(cat)
           next == ActiveIn(cat)'
<1>1. IsFiniteSet(now) /\ IsFiniteSet(next)
  <2>1. IsFiniteSet(DOMAIN versions) /\ now \subseteq DOMAIN versions
    BY FiniteRows DEF AllLogged, ActiveIn
  <2>2. IsFiniteSet(DOMAIN versions') /\ next \subseteq DOMAIN versions'
    BY FiniteRows DEF AllLogged, ActiveIn
  <2> QED BY <2>1, <2>2, FS_Subset
<1>2. PICK x \in next, y \in next : x # y
  <2>1. Cardinality(next) > 1
    OBVIOUS
  <2> HIDE DEF next
  <2> QED BY <1>1, <2>1, TwoInForce
<1>3. next \subseteq now => Cardinality(now) > 1
  BY <1>1, <1>2, TwoInForce
<1>4. ASSUME NEW a \in Approvals, ApproveWrites(a) PROVE Cardinality(now) > 1
  BY <1>3, <1>4, ApproveInForce
<1>5. ASSUME NEW a \in Approvals, Activate(a) PROVE Cardinality(now) > 1
  <2>1. next \subseteq now \/ next \subseteq {approval[a].version}
    BY <1>5, ActivateInForce
  <2> QED BY <1>2, <1>3, <2>1
<1>6. ASSUME NEW b \in Rollbacks, RollbackWrites(b), ~Overtaken(b)
      PROVE  Cardinality(now) > 1
  <2>1. \/ next \subseteq now \/ next \subseteq {rollback[b].target}
        \/ Cardinality(now) > 1
    BY <1>6, RollbackInForce
  <2> QED BY <1>2, <1>3, <2>1
<1>7. CASE versions' = versions
  <2>1. next = now
    BY <1>7 DEF ActiveIn, VersionCategory
  <2> QED BY <1>3, <2>1
<1> HIDE DEF now, next
<1> QED BY <1>4, <1>5, <1>6, <1>7
    DEF now, cat, Next, vars, ScanReads, ScanInserts, ApproveReads, Reject,
        RollbackReadsTarget, RollbackReadsActive, Fail

\* rollback_to_version reads its target and the version in force before its first
\* write: for any number of requests a category gets a second policy in force
\* only when such a rollback writes after another request changed what it read.
THEOREM SecondPolicyIsAnOvertakenRollback == Spec => SecondPolicyNeedsAnOvertakenRollback
<1>1. Init => Numbering
  BY DEF Init, Numbering, NumbersAreUnique
<1>2. AllLogged /\ Numbering /\ [Next]_vars
        => [\A k \in Keys :
              Cardinality(ActiveIn(Category[k])') > 1
                => \/ Cardinality(ActiveIn(Category[k])) > 1
                   \/ \E b \in Rollbacks : RollbackWrites(b) /\ Overtaken(b)]_vars
  BY LoggedStep, SecondPolicyStep
<1> QED BY <1>1, <1>2, InitLogged, LoggedStep, NumberingStep, PTL
    DEF Spec, SecondPolicyNeedsAnOvertakenRollback

-------------------------------------------------------------------------------
(* What a request has read stays true until it writes.                         *)

\* An approve request's local variables: EXCEPT changes them one by one.
Waits(p) ==
  p \in [phase : {"idle", "read", "created", "done", "failed"},
         rec : {p.rec}, version : {p.version}]

\* The draft an approve request created is its own, and still a draft: nothing
\* but the request itself walks it. What a rollback has read is no draft.
Drafted(p) ==
  /\ p.version \in DOMAIN versions
  /\ versions[p.version].status = "draft" /\ versions[p.version].from = p.rec

Published(v) == v \in DOMAIN versions /\ versions[v].status # "draft"

Requests ==
  /\ DOMAIN approval = Approvals
  /\ \A a \in Approvals : Waits(approval[a])
  /\ \A a \in Approvals : approval[a].phase = "created" => Drafted(approval[a])
  /\ \A a, c \in Approvals :
       (/\ approval[a].phase = "created" /\ approval[c].phase = "created"
        /\ approval[a].version = approval[c].version) => a = c
  /\ \A b \in Rollbacks :
       /\ rollback[b].phase \in {"target", "active"} => Published(rollback[b].target)
       /\ rollback[b].phase = "active"
            => rollback[b].active = 0 \/ Published(rollback[b].active)

LEMMA PhaseEdit ==
  ASSUME NEW p, Waits(p), NEW phase \in {"done", "failed"}
  PROVE  /\ Waits([p EXCEPT !.phase = phase])
         /\ [p EXCEPT !.phase = phase].phase = phase
         /\ [p EXCEPT !.phase = phase].rec = p.rec
         /\ [p EXCEPT !.phase = phase].version = p.version
<1> DEFINE F == {p.rec}
           V == {p.version}
           T == [phase : {"idle", "read", "created", "done", "failed"}, rec : F, version : V]
<1>1. p \in T
  BY DEF Waits
<1>3. \A q \in T : Waits(q)
  BY DEF Waits
<1> HIDE DEF F, V
<1>4. [p EXCEPT !.phase = phase] \in T
  BY <1>1
<1> QED BY <1>1, <1>3, <1>4

LEMMA RecEdit ==
  ASSUME NEW p, Waits(p), NEW r
  PROVE  /\ Waits([p EXCEPT !.phase = "read", !.rec = r])
         /\ [p EXCEPT !.phase = "read", !.rec = r].phase = "read"
<1> DEFINE F == {p.rec, r}
           V == {p.version}
           T == [phase : {"idle", "read", "created", "done", "failed"}, rec : F, version : V]
<1>1. p \in T
  BY DEF Waits
<1>2. r \in F
  OBVIOUS
<1>3. \A q \in T : Waits(q)
  BY DEF Waits
<1> HIDE DEF F, V
<1>4. [p EXCEPT !.phase = "read", !.rec = r] \in T
  BY <1>1, <1>2
<1> QED BY <1>1, <1>3, <1>4

LEMMA VersionEdit ==
  ASSUME NEW p, Waits(p), NEW v
  PROVE  /\ Waits([p EXCEPT !.phase = "created", !.version = v])
         /\ [p EXCEPT !.phase = "created", !.version = v].phase = "created"
         /\ [p EXCEPT !.phase = "created", !.version = v].rec = p.rec
         /\ [p EXCEPT !.phase = "created", !.version = v].version = v
<1> DEFINE F == {p.rec}
           V == {p.version, v}
           T == [phase : {"idle", "read", "created", "done", "failed"}, rec : F, version : V]
<1>1. p \in T
  BY DEF Waits
<1>2. v \in V
  OBVIOUS
<1>3. \A q \in T : Waits(q)
  BY DEF Waits
<1> HIDE DEF F, V
<1>4. [p EXCEPT !.phase = "created", !.version = v] \in T
  BY <1>1, <1>2
<1> QED BY <1>1, <1>3, <1>4

\* A version keeps its place, its recommendation and, once published, never
\* becomes a draft again.
LEMMA VersionsStay ==
  ASSUME AllLogged, [Next]_vars, NEW v \in DOMAIN versions
  PROVE  /\ v \in DOMAIN versions' /\ versions'[v].from = versions[v].from
         /\ versions[v].status # "draft" => versions'[v].status # "draft"
<1>1. ASSUME NEW a \in Approvals, ApproveWrites(a)
      PROVE  v \in DOMAIN versions' /\ versions'[v] = versions[v]
  BY <1>1, ApproveAppends
<1>2. ASSUME NEW a \in Approvals, Activate(a)
      PROVE  /\ v \in DOMAIN versions' /\ versions'[v].from = versions[v].from
             /\ versions[v].status # "draft" => versions'[v].status # "draft"
  <2>1. v \in DOMAIN versions' /\ versions'[v].from = versions[v].from
    BY <1>2, ActivateNumbers DEF Relabelled
  <2>2. CASE v = approval[a].version
    <3>1. versions'[v] = Walk(versions[v]) /\ Logged(versions[v])
      BY <1>2, <2>2, ActivateStatuses DEF AllLogged
    <3> QED BY <2>1, <3>1, WalkStatus
  <2>3. CASE v # approval[a].version
    <3>1. versions'[v].status \in {"deprecated", versions[v].status}
      BY <1>2, <2>3, ActivateStatuses
    <3> QED BY <2>1, <3>1
  <2> QED BY <2>2, <2>3
<1>3. ASSUME NEW b \in Rollbacks, RollbackWrites(b)
      PROVE  /\ v \in DOMAIN versions' /\ versions'[v].from = versions[v].from
             /\ versions[v].status # "draft" => versions'[v].status # "draft"
  <2>1. v \in DOMAIN versions' /\ versions'[v].from = versions[v].from
    BY <1>3, RollbackNumbers DEF Relabelled
  <2>2. versions'[v].status \in {"active", "rolled_back", versions[v].status}
    BY <1>3, RollbackStatuses
  <2> QED BY <2>1, <2>2
<1>4. CASE versions' = versions
  BY <1>4
<1> QED BY <1>1, <1>2, <1>3, <1>4
    DEF Next, vars, ScanReads, ScanInserts, ApproveReads, Reject, RollbackReadsTarget,
        RollbackReadsActive, Fail

\* get_active_policy_version answers 0 or a version that is in force.
LEMMA ServingIsPublished ==
  ASSUME AllLogged, Numbering, NEW cat
  PROVE  Serving(cat) = 0 \/ Published(Serving(cat))
<1>1. CASE ActiveIn(cat) = {}
  BY <1>1 DEF Serving
<1>2. CASE ActiveIn(cat) # {}
  <2> DEFINE N == {versions[v].number : v \in ActiveIn(cat)}
             Top(v) == \A u \in ActiveIn(cat) : versions[u].number <= versions[v].number
  <2>1. Len(versions) \in Nat
    BY FiniteRows DEF AllLogged
  <2>2. N \subseteq Nat /\ N # {} /\ \A x \in N : x <= Len(versions)
    BY <1>2, <2>1 DEF ActiveIn, Numbering
  <2>3. PICK x \in N : \A y \in N : y <= x
    <3> HIDE DEF N
    <3> QED BY <2>1, <2>2, GreatestNatural
  <2>4. PICK v \in ActiveIn(cat) : versions[v].number = x
    BY <2>3
  <2>5. Top(v)
    BY <2>3, <2>4
  <2> HIDE DEF Top, N
  <2>6. (CHOOSE w \in ActiveIn(cat) : Top(w)) \in ActiveIn(cat)
    BY <2>4, <2>5
  <2>7. Serving(cat) \in ActiveIn(cat)
    BY <1>2, <2>6 DEF Serving, Top
  <2> QED BY <2>7 DEF ActiveIn, Published
<1> QED BY <1>1, <1>2

-------------------------------------------------------------------------------
(* The steps preserve it: first the steps of the requests ...                  *)

\* What a step that leaves a request alone does for it.
LEMMA OthersWait ==
  ASSUME AllLogged, Requests, [Next]_vars, NEW a \in Approvals,
         approval'[a] = approval[a], approval[a].phase = "created", ~Activate(a)
  PROVE  Drafted(approval[a])'
<1> DEFINE v == approval[a].version
<1>1. /\ v \in DOMAIN versions /\ versions[v].status = "draft"
      /\ versions[v].from = approval[a].rec
  BY DEF Requests, Drafted
<1>2. v \in DOMAIN versions' /\ versions'[v].from = versions[v].from
  BY <1>1, VersionsStay
<1> SUFFICES versions'[v].status = "draft"
  BY <1>1, <1>2 DEF Drafted
<1>3. ASSUME NEW c \in Approvals, ApproveWrites(c) PROVE versions'[v].status = "draft"
  BY <1>1, <1>3, ApproveAppends
<1>4. ASSUME NEW c \in Approvals, Activate(c) PROVE versions'[v].status = "draft"
  <2>1. approval[c].phase = "created" /\ c # a
    BY <1>4 DEF Activate
  <2>2. v # approval[c].version
    BY <2>1 DEF Requests
  <2>3. v \notin ActiveIn(VersionCategory(approval[c].version))
    BY <1>1 DEF ActiveIn
  <2> QED BY <1>1, <1>4, <2>2, <2>3, ActivateStatuses
<1>5. ASSUME NEW b \in Rollbacks, RollbackWrites(b) PROVE versions'[v].status = "draft"
  <2>1. Published(rollback[b].target) /\ (rollback[b].active = 0 \/ Published(rollback[b].active))
    BY <1>5 DEF RollbackWrites, Requests
  <2>2. 0 \notin DOMAIN versions
    BY FiniteRows DEF AllLogged
  <2>3. v # rollback[b].target /\ v # rollback[b].active
    BY <1>1, <2>1, <2>2 DEF Published
  <2> QED BY <1>1, <1>5, <2>3, RollbackStatuses
<1>6. CASE versions' = versions
  BY <1>1, <1>6
<1> QED BY <1>3, <1>4, <1>5, <1>6
    DEF Next, vars, ScanReads, ScanInserts, ApproveReads, Reject, RollbackReadsTarget,
        RollbackReadsActive, Fail

\* A step of one approve request: the others keep their drafts.
LEMMA ApprovalsWait ==
  ASSUME AllLogged, Requests, [Next]_vars, NEW a \in Approvals,
         DOMAIN approval' = Approvals,
         \A c \in Approvals \ {a} : approval'[c] = approval[c] /\ ~Activate(c),
         Waits(approval'[a]),
         approval'[a].phase = "created" =>
           /\ Drafted(approval[a])'
           /\ approval'[a].version \notin DOMAIN versions
  PROVE  /\ DOMAIN approval' = Approvals
         /\ \A c \in Approvals : Waits(approval'[c])
         /\ \A c \in Approvals : approval'[c].phase = "created" => Drafted(approval[c])'
         /\ \A c, d \in Approvals :
              (/\ approval'[c].phase = "created" /\ approval'[d].phase = "created"
               /\ approval'[c].version = approval'[d].version) => c = d
<1>1. \A c \in Approvals : Waits(approval'[c])
  BY DEF Requests
<1>2. \A c \in Approvals : approval'[c].phase = "created" => Drafted(approval[c])'
  BY OthersWait
<1>3. ASSUME NEW c \in Approvals \ {a}, approval'[c].phase = "created"
      PROVE  approval'[c].version \in DOMAIN versions
  BY <1>3 DEF Requests, Drafted
<1>4. ASSUME NEW c \in Approvals, NEW d \in Approvals,
             approval'[c].phase = "created", approval'[d].phase = "created",
             approval'[c].version = approval'[d].version
      PROVE  c = d
  <2>1. CASE c # a /\ d # a
    BY <1>4, <2>1 DEF Requests
  <2>2. CASE c = a /\ d # a
    BY <1>3, <1>4, <2>2
  <2>3. CASE d = a /\ c # a
    BY <1>3, <1>4, <2>3
  <2> QED BY <2>1, <2>2, <2>3
<1> QED BY <1>1, <1>2, <1>4

LEMMA ActivateFinishes ==
  ASSUME Requests, NEW a \in Approvals, Activate(a)
  PROVE  /\ approval[a].phase = "created" /\ approval'[a].phase = "done"
         /\ Waits(approval'[a]) /\ approval'[a].rec = approval[a].rec
         /\ approval'[a].version = approval[a].version
         /\ DOMAIN approval' = Approvals
         /\ \A c \in Approvals \ {a} : approval'[c] = approval[c]
<1>1. approval' = [approval EXCEPT ![a].phase = "done"] /\ approval[a].phase = "created"
  BY DEF Activate
<1>2. DOMAIN approval = Approvals /\ Waits(approval[a])
  BY DEF Requests
<1>3. approval'[a] = [approval[a] EXCEPT !.phase = "done"]
  BY <1>1, <1>2
<1>4. /\ Waits([approval[a] EXCEPT !.phase = "done"])
      /\ [approval[a] EXCEPT !.phase = "done"].phase = "done"
      /\ [approval[a] EXCEPT !.phase = "done"].rec = approval[a].rec
      /\ [approval[a] EXCEPT !.phase = "done"].version = approval[a].version
  BY <1>2, PhaseEdit
<1> QED BY <1>1, <1>2, <1>3, <1>4

LEMMA ApprovalStep ==
  ASSUME AllLogged, Requests, [Next]_vars
  PROVE  /\ DOMAIN approval' = Approvals
         /\ \A c \in Approvals : Waits(approval'[c])
         /\ \A c \in Approvals : approval'[c].phase = "created" => Drafted(approval[c])'
         /\ \A c, d \in Approvals :
              (/\ approval'[c].phase = "created" /\ approval'[d].phase = "created"
               /\ approval'[c].version = approval'[d].version) => c = d
<1> DEFINE Goal ==
      /\ DOMAIN approval' = Approvals
      /\ \A c \in Approvals : Waits(approval'[c])
      /\ \A c \in Approvals : approval'[c].phase = "created" => Drafted(approval[c])'
      /\ \A c, d \in Approvals :
           (/\ approval'[c].phase = "created" /\ approval'[d].phase = "created"
            /\ approval'[c].version = approval'[d].version) => c = d
<1> SUFFICES Goal
  OBVIOUS
<1>0. DOMAIN approval = Approvals /\ \A a \in Approvals : Waits(approval[a])
  BY DEF Requests
<1>1. ASSUME NEW a \in Approvals, NEW p, approval' = [approval EXCEPT ![a] = p],
             Waits(p),
             p.phase = "created" =>
               /\ p.version \in DOMAIN versions' \ DOMAIN versions
               /\ versions'[p.version].status = "draft" /\ versions'[p.version].from = p.rec
      PROVE  Goal
  <2>1. /\ DOMAIN approval' = Approvals /\ approval'[a] = p
        /\ \A c \in Approvals \ {a} : approval'[c] = approval[c]
    BY <1>0, <1>1
  <2>2. \A c \in Approvals \ {a} : ~Activate(c)
    BY <2>1, ActivateFinishes
  <2>3. approval'[a].phase = "created"
          => Drafted(approval[a])' /\ approval'[a].version \notin DOMAIN versions
    BY <1>1, <2>1 DEF Drafted
  <2> QED BY <1>1, <2>1, <2>2, <2>3, ApprovalsWait
<1>2. ASSUME NEW a \in Approvals, NEW r \in Recs, ApproveReads(a, r) PROVE Goal
  <2> DEFINE p == [approval[a] EXCEPT !.phase = "read", !.rec = r]
  <2>1. approval' = [approval EXCEPT ![a] = p]
    BY <1>0, <1>2 DEF ApproveReads
  <2>2. Waits(p) /\ p.phase = "read"
    BY <1>0, RecEdit
  <2> HIDE DEF p, Goal
  <2> QED BY <1>1, <2>1, <2>2
<1>3. ASSUME NEW a \in Approvals, ApproveWrites(a) PROVE Goal
  <2> DEFINE new == Len(versions) + 1
             p   == [approval[a] EXCEPT !.phase = "created", !.version = new]
  <2>1. approval' = [approval EXCEPT ![a] = p]
    BY <1>0, <1>3 DEF ApproveWrites
  <2>2. /\ new \notin DOMAIN versions /\ new \in DOMAIN versions'
        /\ versions'[new].status = "draft" /\ versions'[new].from = approval[a].rec
    BY <1>3, ApproveAppends
  <2> HIDE DEF new
  <2>3. Waits(p) /\ p.rec = approval[a].rec /\ p.version = new
    BY <1>0, VersionEdit
  <2> HIDE DEF p, Goal
  <2>4. /\ p.version \in DOMAIN versions' \ DOMAIN versions
        /\ versions'[p.version].status = "draft" /\ versions'[p.version].from = p.rec
    BY <2>2, <2>3
  <2> QED BY <1>1, <2>1, <2>3, <2>4
<1>4. ASSUME NEW a \in Approvals, NEW phase \in {"done", "failed"},
             approval' = [approval EXCEPT ![a].phase = phase]
      PROVE  Goal
  <2> DEFINE p == [approval[a] EXCEPT !.phase = phase]
  <2>1. approval' = [approval EXCEPT ![a] = p]
    BY <1>0, <1>4
  <2>2. Waits(p) /\ p.phase = phase
    <3>1. Waits(approval[a])
      BY <1>0
    <3> QED BY <3>1, PhaseEdit
  <2> HIDE DEF p, Goal
  <2> QED BY <1>1, <2>1, <2>2
<1>5. CASE approval' = approval
  <2>1. \A a \in Approvals : ~Activate(a)
    BY <1>5, ActivateFinishes
  <2>2. \A c \in Approvals : approval'[c].phase = "created" => Drafted(approval[c])'
    BY <1>5, <2>1, OthersWait
  <2> QED BY <1>5, <2>2 DEF Requests
<1> HIDE DEF Goal
<1> QED BY <1>2, <1>3, <1>4, <1>5
    DEF Next, vars, ScanReads, ScanInserts, Activate, Reject, RollbackReadsTarget,
        RollbackReadsActive, RollbackWrites, Fail

-------------------------------------------------------------------------------
(* ... and of the rollbacks.                                                   *)

LEMMA RollbackEdit ==
  ASSUME NEW q, Remembers(q), NEW phase \in Phases, NEW n
  PROVE  /\ [q EXCEPT !.phase = phase].phase = phase
         /\ [q EXCEPT !.phase = phase].target = q.target
         /\ [q EXCEPT !.phase = phase, !.active = n].phase = phase
         /\ [q EXCEPT !.phase = phase, !.active = n].target = q.target
         /\ [q EXCEPT !.phase = phase, !.active = n].active = n
<1> DEFINE T == {q.target}
           A == {q.active}
<1>1. q \in [phase : Phases, target : T, was : VersionStatuses, active : A]
  BY DEF Remembers
<1> HIDE DEF T, A
<1> QED BY <1>1

LEMMA RollbackStep ==
  ASSUME AllLogged, Numbering, Requests, [Next]_vars, NEW b \in Rollbacks
  PROVE  /\ rollback'[b].phase \in {"target", "active"} => Published(rollback[b].target)'
         /\ rollback'[b].phase = "active"
              => rollback'[b].active = 0 \/ Published(rollback[b].active)'
<1> DEFINE Target == rollback'[b].phase \in {"target", "active"}
                       => Published(rollback[b].target)'
           Active == rollback'[b].phase = "active"
                       => rollback'[b].active = 0 \/ Published(rollback[b].active)'
<1> SUFFICES Target /\ Active
  OBVIOUS
<1>0. DOMAIN rollback = Rollbacks /\ Remembers(rollback[b])
  BY DEF AllLogged
<1>1. \A v : Published(v)
             => v \in DOMAIN versions' /\ versions'[v].status # "draft"
  BY VersionsStay DEF Published
<1>2. CASE rollback'[b] = rollback[b]
  BY <1>1, <1>2 DEF Requests, Published
<1>3. ASSUME NEW v \in DOMAIN versions, RollbackReadsTarget(b, v) PROVE Target /\ Active
  <2>1. /\ rollback'[b].phase = "target" /\ rollback'[b].target = v
        /\ versions[v].status # "draft" /\ versions' = versions
    BY <1>0, <1>3 DEF RollbackReadsTarget
  <2> QED BY <2>1 DEF Published
<1>4. CASE RollbackReadsActive(b)
  <2> DEFINE n == Serving(VersionCategory(rollback[b].target))
  <2>1. n = 0 \/ Published(n)
    BY ServingIsPublished
  <2> HIDE DEF n
  <2>2. /\ rollback'[b] = [rollback[b] EXCEPT !.phase = "active", !.active = n]
        /\ rollback[b].phase = "target"
    BY <1>0, <1>4 DEF RollbackReadsActive, n
  <2>3. /\ rollback'[b].phase = "active" /\ rollback'[b].target = rollback[b].target
        /\ rollback'[b].active = n
    BY <1>0, <2>2, RollbackEdit DEF Phases
  <2>4. Published(rollback[b].target)
    BY <2>2 DEF Requests
  <2> QED BY <1>1, <2>1, <2>3, <2>4 DEF Published
<1>5. ASSUME NEW phase \in {"done", "failed"},
             rollback' = [rollback EXCEPT ![b].phase = phase]
      PROVE  Target /\ Active
  <2>1. rollback'[b].phase = phase
    <3>1. rollback'[b] = [rollback[b] EXCEPT !.phase = phase]
      BY <1>0, <1>5
    <3> QED BY <1>0, <3>1, RollbackEdit DEF Phases
  <2> QED BY <2>1
<1>6. ASSUME NEW c \in Rollbacks,
             \/ \E v \in DOMAIN versions : RollbackReadsTarget(c, v)
             \/ RollbackReadsActive(c) \/ RollbackWrites(c)
      PROVE  Target /\ Active
  <2>1. CASE c # b
    BY <1>0, <1>2, <1>6, <2>1 DEF RollbackReadsTarget, RollbackReadsActive, RollbackWrites
  <2>2. CASE c = b
    BY <1>3, <1>4, <1>5, <1>6, <2>2 DEF RollbackWrites
  <2> QED BY <2>1, <2>2
<1>7. CASE Fail
  <2>1. ASSUME NEW c \in Rollbacks, rollback' = [rollback EXCEPT ![c].phase = "failed"]
        PROVE  Target /\ Active
    <3>1. CASE c # b
      BY <1>0, <1>2, <2>1, <3>1
    <3>2. CASE c = b
      BY <1>5, <2>1, <3>2
    <3> QED BY <3>1, <3>2
  <2>2. CASE rollback' = rollback
    BY <1>2, <2>2
  <2> HIDE DEF Target, Active
  <2> QED BY <1>7, <2>1, <2>2 DEF Fail
<1>8. CASE rollback' = rollback
  BY <1>2, <1>8
<1> HIDE DEF Target, Active
<1> QED BY <1>6, <1>7, <1>8
    DEF Next, vars, ScanReads, ScanInserts, ApproveReads, ApproveWrites, Activate, Reject

LEMMA RequestsStep == AllLogged /\ Numbering /\ Requests /\ [Next]_vars => Requests'
<1> SUFFICES ASSUME AllLogged, Numbering, Requests, [Next]_vars PROVE Requests'
  OBVIOUS
<1>1. \A b \in Rollbacks :
        /\ rollback'[b].phase \in {"target", "active"} => Published(rollback[b].target)'
        /\ rollback'[b].phase = "active"
             => rollback'[b].active = 0 \/ Published(rollback[b].active)'
  BY RollbackStep
<1> QED BY <1>1, ApprovalStep DEF Requests

LEMMA InitRequests == Init => Requests
<1> SUFFICES ASSUME Init PROVE Requests
  OBVIOUS
<1>1. /\ DOMAIN approval = Approvals
      /\ \A a \in Approvals : approval[a] = [phase |-> "idle", rec |-> Default, version |-> 0]
  BY DEF Init
<1>2. \A a \in Approvals : Waits(approval[a]) /\ approval[a].phase = "idle"
  BY <1>1 DEF Waits
<1>3. \A b \in Rollbacks : rollback[b].phase = "idle"
  BY DEF Init
<1> QED BY <1>1, <1>2, <1>3 DEF Requests

-------------------------------------------------------------------------------
(* Answers.                                                                    *)

\* Only its last step finishes a request.
LEMMA ApprovalIsDone ==
  ASSUME AllLogged, Requests, [Next]_vars, NEW a \in Approvals,
         approval'[a].phase = "done", approval[a].phase # "done"
  PROVE  Activate(a)
<1>0. DOMAIN approval = Approvals /\ Waits(approval[a])
  BY DEF Requests
<1>1. ASSUME NEW c \in Approvals, NEW r \in Recs, ApproveReads(c, r) PROVE FALSE
  <2>1. approval'[a] = IF a = c THEN [approval[a] EXCEPT !.phase = "read", !.rec = r]
                       ELSE approval[a]
    BY <1>0, <1>1 DEF ApproveReads
  <2> QED BY <1>0, <2>1, RecEdit
<1>2. ASSUME NEW c \in Approvals, ApproveWrites(c) PROVE FALSE
  <2> DEFINE new == Len(versions) + 1
  <2>1. approval'[a] = IF a = c THEN [approval[a] EXCEPT !.phase = "created", !.version = new]
                       ELSE approval[a]
    BY <1>0, <1>2 DEF ApproveWrites
  <2> HIDE DEF new
  <2>2. "phase" \in DOMAIN approval[a]
    BY <1>0 DEF Waits
  <2> QED BY <2>1, <2>2
<1>3. ASSUME NEW c \in Approvals, approval' = [approval EXCEPT ![c].phase = "failed"]
      PROVE  FALSE
  <2>1. approval'[a] = IF a = c THEN [approval[a] EXCEPT !.phase = "failed"]
                       ELSE approval[a]
    BY <1>0, <1>3
  <2> QED BY <1>0, <2>1, PhaseEdit
<1>4. ASSUME NEW c \in Approvals, Activate(c) PROVE c = a
  BY <1>4, ActivateFinishes
<1>5. CASE approval' = approval
  BY <1>5
<1> QED BY <1>1, <1>2, <1>3, <1>4, <1>5
    DEF Next, vars, ScanReads, ScanInserts, Reject, RollbackReadsTarget,
        RollbackReadsActive, RollbackWrites, Fail

LEMMA RollbackIsDone ==
  ASSUME AllLogged, [Next]_vars, NEW b \in Rollbacks,
         rollback'[b].phase = "done", rollback[b].phase # "done"
  PROVE  RollbackWrites(b) /\ rollback'[b].target = rollback[b].target
<1>0. DOMAIN rollback = Rollbacks /\ Remembers(rollback[b])
  BY DEF AllLogged
<1>1. ASSUME NEW c \in Rollbacks, NEW v \in DOMAIN versions, RollbackReadsTarget(c, v)
      PROVE  FALSE
  BY <1>0, <1>1 DEF RollbackReadsTarget
<1>2. ASSUME NEW c \in Rollbacks, RollbackReadsActive(c) PROVE FALSE
  <2> DEFINE n == Serving(VersionCategory(rollback[c].target))
  <2>1. rollback' = [rollback EXCEPT ![c].phase = "active", ![c].active = n]
    BY <1>2 DEF RollbackReadsActive
  <2> HIDE DEF n
  <2>2. rollback'[b] = IF b = c THEN [rollback[b] EXCEPT !.phase = "active", !.active = n]
                       ELSE rollback[b]
    BY <1>0, <2>1
  <2> QED BY <1>0, <2>2, RollbackEdit DEF Phases
<1>3. ASSUME NEW c \in Rollbacks, NEW phase \in {"done", "failed"},
             rollback' = [rollback EXCEPT ![c].phase = phase]
      PROVE  c = b /\ phase = "done" /\ rollback'[b].target = rollback[b].target
  <2>1. rollback'[b] = IF b = c THEN [rollback[b] EXCEPT !.phase = phase] ELSE rollback[b]
    BY <1>0, <1>3
  <2> QED BY <1>0, <2>1, RollbackEdit DEF Phases
<1>4. CASE rollback' = rollback
  BY <1>4
<1>5. ASSUME NEW c \in Rollbacks, RollbackWrites(c)
      PROVE  RollbackWrites(b) /\ rollback'[b].target = rollback[b].target
  <2>1. rollback' = [rollback EXCEPT ![c].phase = "done"]
    BY <1>5 DEF RollbackWrites
  <2> QED BY <1>3, <1>5, <2>1
<1>6. CASE Fail
  BY <1>3, <1>4, <1>6 DEF Fail
<1> QED BY <1>1, <1>2, <1>4, <1>5, <1>6
    DEF Next, vars, ScanReads, ScanInserts, ApproveReads, ApproveWrites, Activate, Reject

\* An approval leaves its own version, and no other, in force.
LEMMA ApprovedIsInForce ==
  ASSUME AllLogged, Numbering', Requests, NEW a \in Approvals, Activate(a)
  PROVE  Serving(Category[Key[approval[a].rec]])' = approval[a].version
<1> DEFINE v   == approval[a].version
           cat == Category[Key[approval[a].rec]]
<1>0. approval[a].phase = "created" /\ approval'[a].rec = approval[a].rec
  BY ActivateFinishes
<1>1. /\ v \in DOMAIN versions /\ versions[v].status = "draft"
      /\ VersionCategory(v) = cat
  BY <1>0 DEF Requests, Drafted, VersionCategory
<1>2. /\ DOMAIN versions' = DOMAIN versions
      /\ \A u \in DOMAIN versions : VersionCategory(u)' = VersionCategory(u)
  BY ActivateNumbers, SameCategories
<1>3. Walk(versions[v]).status = "active"
  BY <1>1, WalkStatus DEF AllLogged
<1>4. \A u \in DOMAIN versions :
        /\ u = v => versions'[u] = Walk(versions[v])
        /\ u # v => versions'[u].status = IF u \in ActiveIn(cat)
                                          THEN "deprecated" ELSE versions[u].status
  BY <1>1, <1>3, ActivateStatuses
<1> HIDE DEF v, cat
<1>5. ASSUME NEW c, c = cat PROVE ActiveIn(c)' = {v} /\ Serving(c)' = v
  <2>1. ActiveIn(c)' = {v}
    BY <1>1, <1>2, <1>3, <1>4, <1>5 DEF ActiveIn
  <2>2. versions'[v].number \in Nat
    BY <1>1, <1>2 DEF Numbering
  <2> QED BY <2>1, <2>2, TheOnlyOneServes DEF Serving
<1> QED BY <1>0, <1>5 DEF cat, v

LEMMA RolledBackIsInForce ==
  ASSUME AllLogged, Numbering, Numbering', Requests, NEW b \in Rollbacks, RollbackWrites(b),
         rollback'[b].target = rollback[b].target, ~Overtaken(b), ~Split(b)
  PROVE  Serving(VersionCategory(rollback[b].target))' = rollback[b].target
<1> DEFINE t   == rollback[b].target
           cat == VersionCategory(t)
<1>1. t \in DOMAIN versions
  BY DEF RollbackWrites, Requests, Published
<1>2. /\ DOMAIN versions' = DOMAIN versions
      /\ \A u \in DOMAIN versions : VersionCategory(u)' = VersionCategory(u)
  BY RollbackNumbers, SameCategories
<1>3. versions'[t].status = "active"
  BY <1>1, RollbackStatuses
<1>4. VersionCategory(t)' = cat
  BY <1>1, <1>2
<1>5. ASSUME NEW c, c = cat PROVE Serving(c)' = t
  <2>1. t \in ActiveIn(c)'
    BY <1>1, <1>2, <1>3, <1>5 DEF ActiveIn
  <2>2. \/ ActiveIn(c)' \subseteq ActiveIn(c)
        \/ ActiveIn(c)' \subseteq {t}
        \/ Cardinality(ActiveIn(c)) > 1
    BY RollbackInForce
  <2>3. ~(Cardinality(ActiveIn(c)) > 1)
    BY <1>5 DEF Split
  <2>4. ActiveIn(c)' \subseteq {t}
    <3>1. ASSUME NEW u \in ActiveIn(c)', u # t, ActiveIn(c)' \subseteq ActiveIn(c) PROVE FALSE
      <4>1. u \in ActiveIn(c) /\ t \in ActiveIn(c)
        BY <2>1, <3>1
      <4>2. IsFiniteSet(DOMAIN versions) /\ ActiveIn(c) \subseteq DOMAIN versions
        BY FiniteRows DEF AllLogged, ActiveIn
      <4>3. IsFiniteSet(ActiveIn(c))
        BY <4>2, FS_Subset
      <4> QED BY <2>3, <3>1, <4>1, <4>3, TwoInForce
    <3> QED BY <2>2, <2>3, <3>1
  <2>5. ActiveIn(c)' = {t} /\ versions'[t].number \in Nat
    BY <1>1, <1>2, <2>1, <2>4 DEF Numbering
  <2> QED BY <2>5, TheOnlyOneServes DEF Serving
<1> HIDE DEF cat
<1> QED BY <1>4, <1>5

LEMMA AnswersStep ==
  ASSUME AllLogged, Numbering, Numbering', Requests, [Next]_vars
  PROVE  /\ \A a \in Approvals : approval'[a].phase = "done" /\ approval[a].phase # "done"
              => Serving(Category[Key[approval[a].rec]])' = approval[a].version
         /\ \A b \in Rollbacks : rollback'[b].phase = "done" /\ rollback[b].phase # "done"
              => \/ Overtaken(b) \/ Split(b)
                 \/ Serving(VersionCategory(rollback[b].target))' = rollback[b].target
<1>1. ASSUME NEW a \in Approvals, approval'[a].phase = "done", approval[a].phase # "done"
      PROVE  Serving(Category[Key[approval[a].rec]])' = approval[a].version
  BY <1>1, ApprovalIsDone, ApprovedIsInForce
<1>2. ASSUME NEW b \in Rollbacks, rollback'[b].phase = "done", rollback[b].phase # "done",
             ~Overtaken(b), ~Split(b)
      PROVE  Serving(VersionCategory(rollback[b].target))' = rollback[b].target
  BY <1>2, RollbackIsDone, RolledBackIsInForce
<1> QED BY <1>1, <1>2

\* What approve_recommendation and rollback_to_version answer is what
\* get_active_policy_version then reads, for any number of concurrent requests:
\* but for the rollbacks the property names, the version is the one in force.
THEOREM AnsweredVersionsAreInForce == Spec => AnswersAreInForce
<1>1. Init => Numbering
  BY DEF Init, Numbering, NumbersAreUnique
<1>2. AllLogged /\ Numbering /\ Numbering' /\ Requests /\ [Next]_vars
        => [/\ \A a \in Approvals : approval'[a].phase = "done" /\ approval[a].phase # "done"
                 => Serving(Category[Key[approval[a].rec]])' = approval[a].version
            /\ \A b \in Rollbacks : rollback'[b].phase = "done" /\ rollback[b].phase # "done"
                 => \/ Overtaken(b) \/ Split(b)
                    \/ Serving(VersionCategory(rollback[b].target))' = rollback[b].target]_vars
  BY AnswersStep
<1> QED BY <1>1, <1>2, InitLogged, LoggedStep, NumberingStep, InitRequests, RequestsStep, PTL
    DEF Spec, AnswersAreInForce
===============================================================================
