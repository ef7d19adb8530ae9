---------------------------- MODULE WebhookIntakeProps ----------------------------
(* The correctness properties of WebhookIntake.                                   *)
EXTENDS WebhookIntake

\* "durable, idempotent" (app.api_webhook_razorpay): whatever is delivered twice,
\* at the same time, or again after a crash, an event takes effect at most once,
\* and a committed event has taken effect as a whole: it is COMPLETED, its
\* customer has a case, and all attempts are queued unless it revokes the mandate.
EventsTakeEffectOnce ==
  \A e \in Events :
    /\ applied[e] = IF db.events[e] = None THEN 0 ELSE 1
    /\ db.events[e] # None =>
         /\ db.events[e] = "COMPLETED"
         /\ db.cases[Customer(e)] # NoCase
         /\ Reason(e) # "mandate_revoked" =>
              \A a \in 1..MaxRetries : db.jobs[Customer(e)][a] # None

\* "Razorpay will retry" (the route's answer to an exception): an event that
\* Razorpay may stop sending has taken effect, and so does every event that is
\* signed and actionable, although handlers raise and the process crashes.
EventsGetThrough ==
  \A e \in Events : Payload[e].signed /\ Actionable(Payload[e]) =>
    /\ <>(e \in acked)
    /\ [](e \in acked => db.events[e] = "COMPLETED")
===============================================================================
