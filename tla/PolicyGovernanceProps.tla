-------------------------- MODULE PolicyGovernanceProps --------------------------
(* The correctness properties of PolicyGovernance.                             *)
EXTENDS PolicyGovernance

\* policy_engine.py, Design principles: no policy change is silent. However the
\* requests interleave and die, the status of a version is the one its last
\* audit row reports.
NoSilentChange ==
  \A v \in DOMAIN versions :
    versions[v].status = versions[v].log[Len(versions[v].log)].now

\* get_active_policy_version orders the versions of a category by their number:
\* no two of them share it, although approvals race and rollbacks bring versions
\* with lower numbers back into force.
NumbersAreUnique ==
  \A u, v \in DOMAIN versions :
    (VersionCategory(u) = VersionCategory(v) /\ versions[u].number = versions[v].number)
      => u = v

\* Something came between a rollback's reads and its writes.
Overtaken(b) ==
  LET cat == VersionCategory(rollback[b].target)
  IN \/ Serving(cat) # rollback[b].active
     \/ versions[rollback[b].target].status # rollback[b].was

\* The rollback's category has more than one policy in force already.
Split(b) == Cardinality(ActiveIn(VersionCategory(rollback[b].target))) > 1

\* One policy per category is in force: a second one can only appear when a
\* rollback writes after another request changed what it had read.
SecondPolicyNeedsAnOvertakenRollback ==
  [][\A k \in Keys :
       Cardinality(ActiveIn(Category[k])') > 1
         => \/ Cardinality(ActiveIn(Category[k])) > 1
            \/ \E b \in Rollbacks : RollbackWrites(b) /\ Overtaken(b)]_vars

\* What a request answers is what the dashboard then shows: the version that
\* was approved is the one in force, and so is the one rolled back to, unless
\* that rollback was overtaken or an earlier one that was left two in force.
AnswersAreInForce ==
  [][/\ \A a \in Approvals : approval'[a].phase = "done" /\ approval[a].phase # "done"
          => Serving(Category[Key[approval[a].rec]])' = approval[a].version
     /\ \A b \in Rollbacks : rollback'[b].phase = "done" /\ rollback[b].phase # "done"
          => \/ Overtaken(b) \/ Split(b)
             \/ Serving(VersionCategory(rollback[b].target))' = rollback[b].target]_vars

-------------------------------------------------------------------------------
(* What the documentation says and the code does not do.                       *)

\* A recommendation whose rejection was answered with ok is rejected
\* (tests/test_phase6_learning.py: it cannot be approved any more).
RejectedIsNotApproved == \A r \in told : recs[r].status # "approved"
===============================================================================
