---------------------------- MODULE RecoveryScoring ----------------------------
(***************************************************************************)
(* The pure decisions of the phase 7 orchestrator and of the modules that  *)
(* open cases through it: risk, probability, priority, action, channel     *)
(* and retry.  Money is in rupees, probabilities are in thousandths,       *)
(* expected values in paise (exact for amounts that are multiples of 10).  *)
(***************************************************************************)
EXTENDS Integers

\* "none" stands for a column that is NULL.
Scenarios == {"payment_degradation", "failed_payment", "failed_subscription",
              "mandate_retry", "checkout_abandonment", "b2b_receivable",
              "promise_to_pay"}
Reasons   == {"none", "mandate_revoked", "mandate_expired",
              "insufficient_funds", "bank_technical_error"}

Clamp(x, low, high) == CASE x < low -> low [] x > high -> high [] OTHER -> x

\* The value paired with the highest threshold that x exceeds, or 0.
Step(x, steps) ==
  LET passed == {s \in steps : x > s[1]}
  IN  IF passed = {} THEN 0
      ELSE (CHOOSE s \in passed : \A t \in passed : t[1] <= s[1])[2]

RiskScore(scenario, reason, amount, overdue) ==
  Clamp(50 + Step(amount, {<<1000, 5>>, <<10000, 10>>, <<50000, 20>>})
           + Step(overdue, {<<0, 5>>, <<7, 10>>, <<30, 20>>})
           + (CASE scenario = "payment_degradation"  -> 15
                [] scenario = "b2b_receivable"       -> 10
                [] scenario = "checkout_abandonment" -> -10
                [] OTHER                             -> 0)
           + (CASE reason = "mandate_revoked"        -> 20
                [] reason = "insufficient_funds"     -> 10
                [] reason = "bank_technical_error"   -> -10
                [] OTHER                             -> 0),
        0, 100)

BaseProb(scenario) == CASE scenario = "failed_payment"       -> 620
                        [] scenario = "failed_subscription"  -> 580
                        [] scenario = "mandate_retry"        -> 550
                        [] scenario = "checkout_abandonment" -> 220
                        [] scenario = "b2b_receivable"       -> 450
                        [] scenario = "promise_to_pay"       -> 670
                        [] scenario = "payment_degradation"  -> 700

RecoveryProb(scenario, reason, amount) ==
  Clamp(BaseProb(scenario)
          + (CASE reason = "bank_technical_error" -> 150
               [] reason = "insufficient_funds"   -> 50
               [] reason = "mandate_expired"      -> -100
               [] reason = "mandate_revoked"      -> -400
               [] OTHER                           -> 0)
          - Step(amount, {<<50000, 50>>, <<100000, 100>>}),
        10, 990)

ExpectedValue(scenario, reason, amount) ==
  (RecoveryProb(scenario, reason, amount) * amount) \div 10

Priority(risk, amount) == IF risk >= 80 \/ amount > 100000     THEN "critical"
                          ELSE IF risk >= 60 \/ amount > 10000 THEN "high"
                          ELSE IF risk >= 40                   THEN "medium"
                          ELSE "low"

\* The priority an abandoned checkout, and an invoice, is registered with.
CheckoutPriority(amount) == IF amount > 50000      THEN "high"
                            ELSE IF amount > 10000 THEN "medium"
                            ELSE "low"

InvoicePriority(amount, overdue) ==
  LET points == Step(amount, {<<5000, 1>>, <<20000, 2>>, <<100000, 3>>})
                + Step(overdue, {<<7, 1>>, <<30, 2>>, <<60, 3>>})
  IN  CASE points >= 5     -> "critical"
        [] points \in 3..4 -> "high"
        [] points = 2      -> "medium"
        [] OTHER           -> "low"

ActionFor(scenario, reason) ==
  CASE scenario = "mandate_retry" /\ reason = "mandate_revoked" -> "escalate"
    [] scenario = "mandate_retry" /\ reason = "mandate_expired" -> "send_reauth_link"
    [] scenario = "mandate_retry" /\ reason \notin {"mandate_revoked", "mandate_expired"}
                                         -> "schedule_retry"
    [] scenario = "failed_payment"       -> "create_payment_link"
    [] scenario = "failed_subscription"  -> "send_reauth_link"
    [] scenario = "checkout_abandonment" -> "send_recovery_link"
    [] scenario = "b2b_receivable"       -> "send_invoice_reminder"
    [] scenario = "promise_to_pay"       -> "send_promise_followup"
    [] scenario = "payment_degradation"  -> "alert_degradation"

ChannelFor(scenario, priority, preferred) ==
  IF scenario = "b2b_receivable" THEN "email"
  ELSE IF priority = "critical"  THEN "sms"
  ELSE preferred

\* decide_action: an expected value that is known and below the policy's
\* minimum (in rupees) skips the case; from the threshold on it needs approval.
Skipped(ev, minimum)             == ev > 0 /\ ev < 100 * minimum
NeedsApproval(amount, threshold) == amount >= threshold

\* create_promise and refresh_statuses: the status of a promise for a day.
PromiseStatus(date, today) == CASE date < today -> "missed"
                                [] date = today -> "due_today"
                                [] OTHER        -> "upcoming"

\* mandate_sequencer.compute_retry_decision, the gates that stop a retry and
\* then the delay in hours.  For insufficient funds the code asks salary_window
\* for a function it does not have, so the except branch always answers.
RetryStops(attempt, cap, reason, ev, minimum) ==
  \/ attempt >= cap
  \/ reason \in {"mandate_revoked", "mandate_expired"}
  \/ Skipped(ev, minimum)

RetryDelay(attempt, reason, cooldown) ==
  LET first == CASE reason = "insufficient_funds"   -> 24
                 [] reason = "bank_technical_error" -> 2
                 [] OTHER                           -> cooldown
  IN  IF attempt >= 2 THEN (first * 3) \div 2 ELSE first
=============================================================================
