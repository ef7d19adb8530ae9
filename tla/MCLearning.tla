------------------------------- MODULE MCLearning -------------------------------
(* Small instances of Learning: cases of two reasons, an experiment for           *)
(* every case and one for the first reason only.                                 *)
EXTENDS LearningProps, TLC

CONSTANTS broad, narrow

MCCohort   == (broad :> [reason |-> "any", category |-> "any"])
                @@ (narrow :> [reason |-> "insufficient_funds", category |-> "any"])
MCReason   == <<"insufficient_funds", "insufficient_funds", "bank_technical_error">>
MCCategory == <<"food", "food", "food">>
MCStrategy == <<"salary-window retry", "salary-window retry", "silent quick retry">>
MCSource   == <<"synthetic", "synthetic", "razorpay_live">>
MCModes    == << <<"simulation">>, <<"real_test", "simulation">>, << >> >>
MCArm      == (broad :> <<"control", "treatment", "treatment">>)
                @@ (narrow :> <<"treatment", "control", "control">>)

\* Cases of the merchants with outcomes and of others, above the limit and not.
MCProfiles ==
  {[reason |-> "insufficient_funds", category |-> "food", overLimit |-> FALSE],
   [reason |-> "insufficient_funds", category |-> "media", overLimit |-> TRUE],
   [reason |-> "mandate_expired", category |-> "media", overLimit |-> FALSE],
   [reason |-> "mandate_revoked", category |-> "food", overLimit |-> FALSE]}

\* What each case may do is part of the bound: only the first goes back to work.
MCMovesTo == <<{"recovered", "broken_promise", "in_progress"},
               {"recovered", "broken_promise"}, {"recovered"}>>

MCWebhookReasons == <<{"bank_technical_error"}, {}, {"bank_technical_error"}>>

MCSymmetry == Permutations(Requests)
=================================================================================
