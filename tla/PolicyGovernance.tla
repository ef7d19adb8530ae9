---------------------------- MODULE PolicyGovernance ----------------------------
(***************************************************************************)
(* Policy recommendations and policy versions: backend/policy_engine.py    *)
(* with the policy helpers of backend/db.py, behind the routes             *)
(* /api/learning/recommendations/{generate,approve,reject} and             *)
(* /api/learning/policy/rollback of backend/app.py.                        *)
(*                                                                         *)
(* Each request has its own SQLite connection. A SELECT before the first   *)
(* write of a transaction is a read without the lock, and a step of its    *)
(* own; from the first write to the commit everything is one step. The     *)
(* numbers of a scan and the wording of the evidence are left out: a       *)
(* recommendation is known by what the duplicate check compares.           *)
(***************************************************************************)
EXTENDS FiniteSets, Naturals, Sequences, FiniteSetsExt

CONSTANTS
  Recs,          (* recommendation ids                                      *)
  Keys,          (* what a recommendation proposes, as the scan compares it *)
  Key,           (* recommendation id -> its key                            *)
  Category,      (* key -> the merchant category it is for                  *)
  Slot,          (* key -> the strategy parameter it changes, or NoSlot     *)
  Slots,         (* the keys of DEFAULT_STRATEGY_PARAMS                     *)
  NoSlot,        (* a recommendation without a failure reason               *)
  Default,       (* the built-in strategy of a slot                         *)
  Scans, Approvals, Rollbacks,    (* requests of each kind                  *)
  MaxFailures    (* Bound: requests that die or time out on the lock        *)

ASSUME GovernanceAssumption ==
  /\ Key \in [Recs -> Keys] /\ Slot \in [Keys -> Slots \cup {NoSlot}]
  /\ DOMAIN Category = Keys /\ NoSlot \notin Slots /\ Default \notin Keys
  /\ MaxFailures \in Nat

VARIABLES
  recs,        (* recommendation id -> its row and its audit rows           *)
  versions,    (* the policy_versions rows in the order of their creation   *)
  told,        (* recommendations whose rejection was answered with ok      *)
  scan,        (* scan request -> the proposals it has still to insert      *)
  approval,    (* approve request -> its local variables                    *)
  rollback,    (* rollback request -> its local variables                   *)
  failures     (* how many requests died                                    *)

vars == <<recs, versions, told, scan, approval, rollback, failures>>

-------------------------------------------------------------------------------
(* Data.                                                                       *)

VersionMoves ==
  [draft        |-> {"recommended", "deprecated"},
   recommended  |-> {"under_review", "deprecated"},
   under_review |-> {"approved", "deprecated"},
   approved     |-> {"active", "deprecated"},
   active       |-> {"deprecated", "rolled_back"},
   deprecated   |-> {},
   rolled_back  |-> {}]

VersionStatuses == DOMAIN VersionMoves

\* Nothing but a scan, an approval and a rejection moves a recommendation.
RecStatuses == {"none", "recommended", "approved"}

Ids == 1..Cardinality(Approvals)    \* one version per approve request, at most

VersionCategory(v) == Category[Key[versions[v].from]]

ActiveIn(cat) == {v \in DOMAIN versions : /\ versions[v].status = "active"
                                          /\ VersionCategory(v) = cat}

\* get_active_policy_version: the active one with the highest number, or 0.
Serving(cat) ==
  IF ActiveIn(cat) = {} THEN 0
  ELSE CHOOSE v \in ActiveIn(cat) :
         \A u \in ActiveIn(cat) : versions[u].number <= versions[v].number

\* Mutant: a status changes silently.
MovedSilently(row, was, to) == [row EXCEPT !.status = to]

\* A row with its new status, and the audit row of the change.
Moved(row, was, to) ==
  [row EXCEPT !.status = to, !.log = Append(@, [was |-> was, now |-> to])]

-------------------------------------------------------------------------------
Init ==
  /\ recs = [r \in Recs |-> [status |-> "none", version |-> 0, log |-> <<>>]]
  /\ versions = <<>> /\ told = {}
  /\ scan = [s \in Scans |-> [phase |-> "idle", todo |-> {}]]
  /\ approval = [a \in Approvals |-> [phase |-> "idle", rec |-> Default, version |-> 0]]
  /\ rollback = [b \in Rollbacks |-> [phase |-> "idle", target |-> 0,
                                      was |-> "draft", active |-> 0]]
  /\ failures = 0

-------------------------------------------------------------------------------
(* generate_recommendations.                                                   *)

\* The proposals the evidence supports, less those that are open or approved.
ScanReads(s) ==
  /\ scan[s].phase = "idle"
  /\ \E found \in SUBSET Keys :
       scan' = [scan EXCEPT ![s] =
         [phase |-> "inserting",
          todo  |-> found \ {Key[r] : r \in {q \in Recs : recs[q].status # "none"}}]]
  /\ UNCHANGED <<recs, versions, told, approval, rollback, failures>>

\* One recommendation, committed by itself.
ScanInserts(s) ==
  /\ scan[s].phase = "inserting"
  /\ \E r \in Recs :
       /\ recs[r].status = "none" /\ Key[r] \in scan[s].todo
       /\ recs' = [recs EXCEPT ![r] = Moved(@, "none", "recommended")]
       /\ scan' = [scan EXCEPT ![s].todo = @ \ {Key[r]}]
  /\ UNCHANGED <<versions, told, approval, rollback, failures>>

-------------------------------------------------------------------------------
(* approve_recommendation.                                                     *)

\* update_recommendation_status looks at the row ...
ApproveReads(a, r) ==
  /\ approval[a].phase = "idle" /\ recs[r].status = "recommended"
  /\ approval' = [approval EXCEPT ![a].phase = "read", ![a].rec = r]
  /\ UNCHANGED <<recs, versions, told, scan, rollback, failures>>

\* Mutant: the number follows the one of the version in force.
NumberAfterServing(cat) ==
  IF Serving(cat) = 0 THEN 1 ELSE versions[Serving(cat)].number + 1

NextNumber(cat) ==
  1 + Max({0} \cup {versions[v].number :
             v \in {u \in DOMAIN versions : VersionCategory(u) = cat}})

\* The parameters in force, with the proposed change. A recommendation without
\* a failure reason names 'rule_based_default', which is no slot's strategy.
Patched(key) ==
  LET serving == Serving(Category[key])
      params  == IF serving = 0 THEN [s \in Slots |-> Default]
                 ELSE versions[serving].params
  IN IF Slot[key] = NoSlot THEN params ELSE [params EXCEPT ![Slot[key]] = key]

\* ... and approves it by id. The same transaction creates the draft version
\* and links it.
ApproveWrites(a) ==
  LET r   == approval[a].rec
      key == Key[r]
      new == Len(versions) + 1
  IN /\ approval[a].phase = "read"
     /\ versions' = Append(versions,
          [status |-> "draft", number |-> NextNumber(Category[key]), from |-> r,
           params |-> Patched(key), log |-> <<[was |-> "none", now |-> "draft"]>>])
     /\ recs' = [recs EXCEPT ![r] = [Moved(@, "recommended", "approved")
                                       EXCEPT !.version = new]]
     /\ approval' = [approval EXCEPT ![a].phase = "created", ![a].version = new]
     /\ UNCHANGED <<told, scan, rollback, failures>>

\* transition_policy_version: refused, without an error, when it is not legal.
Transition(row, to) ==
  IF to \in VersionMoves[row.status] THEN Moved(row, row.status, to) ELSE row

Walk(row) ==
  Transition(Transition(Transition(Transition(row, "recommended"),
    "under_review"), "approved"), "active")

\* Mutant: the other active versions stay.
RetiredNot(v) == versions

\* _deprecate_other_active, for the versions of v's category.
Retired(v) ==
  [u \in DOMAIN versions |->
     IF u # v /\ u \in ActiveIn(VersionCategory(v))
     THEN Moved(versions[u], "active", "deprecated") ELSE versions[u]]

\* The second transaction: the draft becomes the active version.
Activate(a) ==
  LET v == approval[a].version
      row == Walk(versions[v])
  IN /\ approval[a].phase = "created"
     /\ versions' = [(IF row.status = "active" THEN Retired(v) ELSE versions)
                       EXCEPT ![v] = row]
     /\ approval' = [approval EXCEPT ![a].phase = "done"]
     /\ UNCHANGED <<recs, told, scan, rollback, failures>>

\* The reject route: update_recommendation_status writes 'rejected' and its
\* audit row, and the connection is closed without a commit. The answer is ok.
Reject(r) ==
  /\ recs[r].status = "recommended" /\ r \notin told
  /\ told' = told \cup {r}
  /\ UNCHANGED <<recs, versions, scan, approval, rollback, failures>>

-------------------------------------------------------------------------------
(* rollback_to_version.                                                        *)

RollbackReadsTarget(b, v) ==
  /\ rollback[b].phase = "idle"
  /\ versions[v].status \in {"deprecated", "rolled_back", "approved"}
  /\ rollback' = [rollback EXCEPT ![b] = [phase |-> "target", target |-> v,
                                          was |-> versions[v].status, active |-> 0]]
  /\ UNCHANGED <<recs, versions, told, scan, approval, failures>>

RollbackReadsActive(b) ==
  /\ rollback[b].phase = "target"
  /\ rollback' = [rollback EXCEPT ![b].phase = "active",
                    ![b].active = Serving(VersionCategory(rollback[b].target))]
  /\ UNCHANGED <<recs, versions, told, scan, approval, failures>>

\* Mutant: the version in force is not taken out of force.
RollbackWritesTarget(b) ==
  LET q == rollback[b]
  IN /\ q.phase = "active"
     /\ versions' = [versions EXCEPT ![q.target] = Moved(@, q.was, "active")]
     /\ rollback' = [rollback EXCEPT ![b].phase = "done"]
     /\ UNCHANGED <<recs, told, scan, approval, failures>>

\* Both rows are written by id, whatever their status has become.
RollbackWrites(b) ==
  LET q == rollback[b]
  IN /\ q.phase = "active"
     /\ versions' = [v \in DOMAIN versions |->
          CASE v = q.target -> Moved(versions[v], q.was, "active")
            [] v = q.active /\ v # q.target -> Moved(versions[v], "active", "rolled_back")
            [] OTHER -> versions[v]]
     /\ rollback' = [rollback EXCEPT ![b].phase = "done"]
     /\ UNCHANGED <<recs, told, scan, approval, failures>>

-------------------------------------------------------------------------------
\* The process dies, or a write waits in vain for the lock: the transaction
\* that was open is rolled back and the request is over.
Fail ==
  /\ failures < MaxFailures /\ failures' = failures + 1
  /\ \/ \E a \in Approvals :
          /\ approval[a].phase \in {"read", "created"}
          /\ approval' = [approval EXCEPT ![a].phase = "failed"]
          /\ UNCHANGED <<scan, rollback>>
     \/ \E b \in Rollbacks :
          /\ rollback[b].phase \in {"target", "active"}
          /\ rollback' = [rollback EXCEPT ![b].phase = "failed"]
          /\ UNCHANGED <<scan, approval>>
     \/ \E s \in Scans :
          /\ scan[s].todo # {}
          /\ scan' = [scan EXCEPT ![s].todo = {}]
          /\ UNCHANGED <<approval, rollback>>
  /\ UNCHANGED <<recs, versions, told>>

Next ==
  \/ \E s \in Scans : ScanReads(s) \/ ScanInserts(s)
  \/ \E a \in Approvals : \/ \E r \in Recs : ApproveReads(a, r)
                          \/ ApproveWrites(a) \/ Activate(a)
  \/ \E r \in Recs : Reject(r)
  \/ \E b \in Rollbacks : \/ \E v \in DOMAIN versions : RollbackReadsTarget(b, v)
                          \/ RollbackReadsActive(b) \/ RollbackWrites(b)
  \/ Fail

Spec == Init /\ [][Next]_vars
===============================================================================
