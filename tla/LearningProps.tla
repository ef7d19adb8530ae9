------------------------------ MODULE LearningProps ------------------------------
(* The correctness properties of Learning and of the choice made from it.         *)
EXTENDS StrategyChoice

\* experimentation.complete_experiment: an experiment is not completed without
\* the outcome of a case that was settled for good when its sweep began, unless
\* the case belongs to another experiment too (the sweep records for the latest
\* one) or an overlapping request has completed the experiment first.
CompletionMissesOnlyOverlaps ==
  [][\A r \in Requests : Close(r) =>
       LET e == reqs[r].exp IN
       exps[e] = "completed" \/
         \A c \in reqs[r].saw :
            \/ outcomes[e][c] # "none"
            \/ \E i \in DOMAIN assigned : assigned[i][2] = c /\ assigned[i][1] # e]_vars

Winners == [treatment_better |-> "treatment", control_better |-> "control"]

\* record_experiment_outcome, "Record the final outcome ... (once, immutable)",
\* and evaluate_experiment: although outcomes are written from earlier reads
\* and cases go on changing, the arm that wins has a case that is recovered
\* to this day, and the other arm one that was counted as not recovered.
WinnersAreRecovered ==
  \A e \in Experiments : Verdict(e) \in DOMAIN Winners =>
     LET won == {c \in Cases : Arm[e][c] = Winners[Verdict(e)]} IN
     /\ \E c \in won : outcomes[e][c] # NoOutcome /\ status[c] = "recovered"
     /\ \E c \in Cases \ won : outcomes[e][c] \in {"escalated", "broken_promise"}

Total(d, field) ==
  LET of == {r \in DOMAIN perf : r[2][1] = d}
      sum[S \in SUBSET of] == IF S = {} THEN 0
        ELSE LET r == CHOOSE r \in S : TRUE IN perf[r][field] + sum[S \ {r}]
  IN  sum[of]

\* outcome_attribution, "Writes to multiple strategy_performance dimensions
\* simultaneously": the dimensions add up to the same totals, however many
\* backfills overlap while the cases change.
DimensionsAgree ==
  [][perf' # perf =>
       \A f \in {"attempts", "recoveries", "escalations"} :
         /\ Total("failure_reason", f)' = Total("global", f)'
         /\ Total("merchant_category", f)' = Total("global", f)']_vars

\* The cases whose outcome a row has counted, and whether it has counted one of
\* them again, which the code does with each further backfill.
Evidence(row)    == {c \in Cases : <<row, c>> \in DOMAIN claimed}
CountsAgain(row) == \E c \in Evidence(row) : claimed[<<row, c>>] > 1

EvidenceOfChoices ==
  \A p \in Profiles : \A x \in BestStrategiesForCase(p) :
    IF x.level = "rule_based"
    THEN p.reason = "mandate_revoked" \/
           \A l \in DOMAIN Levels(p) : \A row \in DOMAIN perf :
             row[2] = Levels(p)[l] => Cardinality(Evidence(row)) < MinSample
    ELSE /\ Cardinality(Evidence(x.row)) >= MinSample \/ CountsAgain(x.row)
         /\ \A s \in SufficientRows(x.row[2]) : Exceeds(x.row, s, -3)

\* segment_learning, "Each level is only used if it has sufficient sample size":
\* a recommendation rests on the outcomes of MinSample different cases of its
\* strategy on its level, unless one of them was counted again, and no strategy
\* with as many attempts there is more than three points better; the rule answers
\* only when no level has the outcomes of so many cases.
ChoicesRestOnEvidence == [][perf' # perf => EvidenceOfChoices']_vars

\* outcome_attribution.attribute_outcome, "Idempotent: calling twice for the same
\* resolved case produces the same result" (a claim the code does not keep).
AttributedOnce == \A x \in DOMAIN claimed : claimed[x] = 1
=============================================================================
