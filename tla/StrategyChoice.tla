----------------------------- MODULE StrategyChoice -----------------------------
(***************************************************************************)
(* What segment_learning.best_strategy_for_case recommends for a case from *)
(* the strategy_performance rows that Learning fills: the narrowest of     *)
(* three levels with enough evidence answers, without evidence the rule.   *)
(* Rates are compared as the code rounds them, to four places.  Rows       *)
(* of the same rate, or of the same strategy under two provenances, come   *)
(* in an order SQLite leaves open: the recommendations are a set.          *)
(***************************************************************************)
EXTENDS Learning

CONSTANTS Profiles,    \* what the choice reads of the cases it may be asked about
          MinSample    \* segment_learning.MIN_SAMPLE

ASSUME ChoiceAssumption ==
  /\ Profiles \subseteq [reason : FailureReasons, category : STRING, overLimit : BOOLEAN]
  /\ MinSample \in Nat \ {0}

\* _rule_based_strategy.
RuleBasedStrategy(p) ==
  CASE p.reason = "mandate_revoked"                        -> "immediate escalation"
    [] p.reason # "mandate_revoked" /\ p.overLimit         -> "higher-limit re-authorization"
    [] p.reason = "mandate_expired" /\ ~p.overLimit        -> "re-authorization link"
    [] p.reason = "bank_technical_error" /\ ~p.overLimit   -> "silent quick retry"
    [] p.reason = "insufficient_funds" /\ ~p.overLimit     -> "salary-window retry"

\* Mutant: any sample will do.
AnyRows(d) == {r \in DOMAIN perf : r[2] = d /\ perf[r].attempts > 0}

\* _get_rates_for_dimension: the rows of a dimension that are sufficient.
SufficientRows(d) == {r \in DOMAIN perf : r[2] = d /\ perf[r].attempts >= MinSample}

\* The recovery rate of row r exceeds that of row s by pp percentage points.
Rate(r) == Rounded(perf[r].recoveries, perf[r].attempts)
Exceeds(r, s, pp) == Rate(r) - Rate(s) >= 100 * pp

\* _best_from_rows: the sufficient rows of the highest rate.
Best(d) == LET rows == SufficientRows(d)
           IN  {r \in rows : \A s \in rows : Exceeds(r, s, 0)}

\* On the merchant's level the rule's strategy is kept unless the best one
\* exceeds it by MIN_IMPROVEMENT_PP = 3 (by just 3, binary fractions decide);
\* unsampled, the rule's rate is 0, and the best one stays whatever its rate.
AgainstRule(r, d, rule) ==
  LET default == {s \in SufficientRows(d) : s[1] = rule} IN
  IF r[1] = rule \/ default = {} THEN {r}
  ELSE {r : s \in {s \in default : Exceeds(r, s, 3)}}
         \cup {s \in default : Rate(r) - Rate(s) <= 300}

Levels(p) == [merchant_specific |-> <<"merchant_category", p.category>>,
              failure_reason    |-> <<"failure_reason", p.reason>>,
              global            |-> <<"global", "all">>]

Result(level, r) == [level |-> level, strategy |-> r[1], row |-> r]
RuleResult(p)    == [level |-> "rule_based", strategy |-> RuleBasedStrategy(p), row |-> << >>]

\* best_strategy_for_case, without a filter on the provenance.
BestStrategiesForCase(p) ==
  LET d == Levels(p)
      merchants == UNION {AgainstRule(r, d.merchant_specific, RuleBasedStrategy(p)) :
                            r \in Best(d.merchant_specific)}
  IN  CASE p.reason = "mandate_revoked" -> {RuleResult(p)}
        [] p.reason # "mandate_revoked" /\ merchants # {} ->
             {Result("merchant_specific", r) : r \in merchants}
        [] p.reason # "mandate_revoked" /\ merchants = {} /\ Best(d.failure_reason) # {} ->
             {Result("failure_reason", r) : r \in Best(d.failure_reason)}
        [] OTHER -> IF Best(d.global) # {} THEN {Result("global", r) : r \in Best(d.global)}
                    ELSE {RuleResult(p)}
=================================================================================
