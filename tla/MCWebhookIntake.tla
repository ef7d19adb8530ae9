----------------------------- MODULE MCWebhookIntake -----------------------------
(* Small instance of WebhookIntake: a failed payment and a halted subscription   *)
(* of one customer, a failed charge of a customer who is seeded, and an event    *)
(* that nothing is to be done about.                                             *)
EXTENDS WebhookIntakeProps, TLC

MCPayload ==
  LET body == [signed |-> TRUE, event |-> "payment.failed", note |-> "none",
               subscription |-> "none", payment |-> "pay", amount |-> "positive"]
  IN  ("failed" :> body) @@
      ("halted" :> [body EXCEPT !.event = "subscription.halted", !.note = "pay",
                                !.subscription = "sub"]) @@
      ("charged" :> [body EXCEPT !.event = "subscription.charged.failed",
                                 !.subscription = "sub"]) @@
      ("paid" :> [body EXCEPT !.event = "payment.captured", !.amount = "zero"])
=================================================================================
