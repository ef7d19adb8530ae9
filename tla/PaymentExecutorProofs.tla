------------------------- MODULE PaymentExecutorProofs -------------------------
(***************************************************************************)
(* Proofs about PaymentExecutor, for every failure reason, credential,     *)
(* number of retries and of faults: one failure never charges the customer *)
(* twice, and never leaves a charged customer's case escalated.            *)
(*                                                                         *)
(* The argument: with the right credentials a second execution needs a     *)
(* fault, so it meets no other.  A payment captured in the first leaves    *)
(* its id in the row, so the second asks for it and finds it captured; a   *)
(* link whose answer was lost is one that no row stores and nobody pays.   *)
(***************************************************************************)
EXTENDS PaymentExecutorProps, FiniteSetTheorems, TLAPS

Outcomes == {"none"} \cup Successes \cup TerminalFailures \cup TransientFailures
Results  == [outcome : Outcomes, pay : BOOLEAN, sub : BOOLEAN, link : Nat]
JobRows  == [status : {"scheduled", "executing", "succeeded", "failed", "exhausted"},
             mode : Modes, retry : Nat, pay : BOOLEAN, sub : BOOLEAN, link : Nat,
             outcome : Outcomes]
Calls    == {"none", "payment", "capture", "subscription", "verify", "link",
             "persist", "raised"}

Types ==
  /\ job \in JobRows
  /\ case \in [reason : Reasons, amount : {"agreed", "other"},
               status : {"in_progress", "recovered", "escalated"}]
  /\ keys \in {"none", "wrong", "right"}
  /\ run \in [call : Calls, result : Results]
  /\ payment \in {"authorized", "captured", "refunded", "unknown"}
  /\ subscription \in {"active", "cancelled"}
  /\ links \in Nat /\ faults \in Nat

\* An execution belongs to a job that is being executed; one that is gone was
\* interrupted by a fault.
Working ==
  /\ run # Idle => run.call # "none" /\ job.status = "executing"
  /\ run = Idle /\ job.status = "executing" => faults > 0

\* A link that the customer can pay is the only one, the last word of its job,
\* and of a payment that was not captured.
OneLink ==
  /\ paid \subseteq known
  /\ known # {} => /\ \E k \in known : known = {k}
                   /\ job.status = "succeeded" /\ payment # "captured"

\* A job that asks for the payment, or captures it.
Capturing == /\ keys = "right" /\ job.mode = "real_test" /\ job.pay
             /\ case.reason # "mandate_revoked"

\* A captured payment is one that a later execution will find captured.
Captured == payment = "captured" =>
  /\ keys = "right" /\ job.mode = "real_test" /\ case.reason # "mandate_revoked"
  /\ job.status \in {"scheduled", "executing"} => job.pay
  /\ job.status \in {"scheduled", "executing"} /\ run = Idle => faults = 1
  /\ run.call \in {"payment", "capture"} => faults = 1
  /\ run.call \in {"none", "payment", "capture", "persist", "raised"}
  /\ At("persist") =>
       \/ run.result.outcome = "payment_captured"
       \/ /\ run.result.outcome = "api_error" /\ run.result.pay
          /\ job.retry = 0 /\ faults = 1

\* What an execution can be about, and what it can have come to: as long as
\* nothing has failed it is the first, and comes to no error worth a retry.
Calling ==
  /\ At("payment") => job.mode = "real_test" /\ job.pay /\ case.reason # "mandate_revoked"
  /\ At("capture") => Capturing
  /\ keys = "right" /\ job.mode = "real_test" /\ faults = 0 =>
       /\ job.retry = 0
       /\ At("persist") => run.result.outcome \notin TransientFailures
  /\ At("persist") /\ run.result.link # 0 => run.result.outcome = "payment_link_sent"

\* A case is escalated with a job that is over, and nothing was taken.
Escalated == case.status = "escalated" =>
  job.status \in {"failed", "exhausted"} /\ payment # "captured"

Ledger == OneLink /\ Captured /\ Calling

ExecutorInv == Types /\ Working /\ (faults <= 1 => Ledger)

UnchargedInv == ExecutorInv /\ (faults <= 1 => Escalated)

-------------------------------------------------------------------------------
(* The results of an execution, and the calls that lead to them.               *)

LEMMA OutcomeClasses ==
  /\ Successes \subseteq Outcomes /\ TerminalFailures \subseteq Outcomes
  /\ TransientFailures \subseteq Outcomes
  /\ "payment_captured" \in Successes /\ "payment_link_sent" \in Successes
  /\ "simulated_success" \in Successes
  /\ "api_error" \in TransientFailures /\ "network_error" \in TransientFailures
  /\ "simulated_failure" \in TransientFailures
  /\ "configuration_error" \in TerminalFailures /\ "subscription_inactive" \in TerminalFailures
  /\ "invalid_resource" \in TerminalFailures /\ "invalid_credentials" \in TerminalFailures
  /\ Successes \cap TransientFailures = {} /\ Successes \cap TerminalFailures = {}
  /\ TerminalFailures \cap TransientFailures = {}
BY DEF Outcomes, Successes, TerminalFailures, TransientFailures

LEMMA NoResultType ==
  /\ NoResult \in Results /\ NoResult.outcome = "none"
  /\ Idle \in [call : Calls, result : Results] /\ Idle.call = "none" /\ Idle.result = NoResult
BY DEF NoResult, Results, Outcomes, Idle, Calls

\* The execution has come to a result of this outcome.
Ends(o) == /\ run' \in [call : Calls, result : Results] /\ run'.call = "persist"
           /\ run'.result.outcome = o

LEMMA DoneMoves ==
  ASSUME NEW o \in Outcomes
  PROVE  /\ Done(Result(o)) => Ends(o) /\ run'.result.link = 0
         /\ Done([Result(o) EXCEPT !.pay = TRUE]) =>
              Ends(o) /\ run'.result.link = 0 /\ run'.result.pay
         /\ Done([Result(o) EXCEPT !.sub = TRUE]) => Ends(o) /\ run'.result.link = 0
         /\ \A k \in Nat : Done([Result(o) EXCEPT !.link = k]) => Ends(o)
<1>1. ASSUME NEW r \in Results, r.outcome = o, Done(r)
      PROVE  Ends(o) /\ run'.result = r
  BY <1>1 DEF Done, Ends, Calls
<1>2. /\ Result(o) \in Results /\ Result(o).outcome = o /\ Result(o).link = 0
      /\ [Result(o) EXCEPT !.pay = TRUE] \in Results
      /\ [Result(o) EXCEPT !.pay = TRUE].outcome = o
      /\ [Result(o) EXCEPT !.pay = TRUE].pay /\ [Result(o) EXCEPT !.pay = TRUE].link = 0
  BY DEF Result, Results
<1>3. /\ [Result(o) EXCEPT !.sub = TRUE] \in Results
      /\ [Result(o) EXCEPT !.sub = TRUE].outcome = o /\ [Result(o) EXCEPT !.sub = TRUE].link = 0
      /\ \A k \in Nat : /\ [Result(o) EXCEPT !.link = k] \in Results
                        /\ [Result(o) EXCEPT !.link = k].outcome = o
  BY DEF Result, Results
<1> QED BY <1>1, <1>2, <1>3

LEMMA GotoMoves ==
  ASSUME Types, NEW c \in Calls, Goto(c)
  PROVE  run' \in [call : Calls, result : Results] /\ run'.call = c
BY DEF Types, Goto

\* A call is answered with the right credentials only, and one that is not
\* answered has used a fault, or had the wrong ones.
LEMMA CallCounts ==
  ASSUME Types
  PROVE  /\ Answered => keys = "right" /\ faults' = faults
         /\ Fault => faults' = faults + 1
         /\ Failed => (faults' = faults /\ keys = "wrong") \/ faults' = faults + 1
BY DEF Answered, Fault, Failed

\* One call of an execution, which goes on to another or to its result.
Moves ==
  /\ run.call \notin {"none"} /\ run' \in [call : Calls, result : Results] /\ run'.call # "none"
  /\ faults' \in {faults, faults + 1}
  /\ payment' \in {"authorized", "captured", "refunded", "unknown"} /\ links' \in Nat
  /\ UNCHANGED <<job, case, keys, subscription, known, paid>>

LEMMA CallStep ==
  ASSUME ExecutorInv, Moves, faults' <= 1 => Captured' /\ Calling'
  PROVE  ExecutorInv'
<1>1. Types'
  BY DEF ExecutorInv, Types, Moves
<1>2. run # Idle /\ run' # Idle
  BY NoResultType DEF Moves
<1>3. Working'
  BY <1>2 DEF ExecutorInv, Working, Moves
<1>4. ASSUME faults' <= 1
      PROVE  Ledger'
  <2>1. faults <= 1
    BY <1>4 DEF Moves, ExecutorInv, Types
  <2>2. OneLink /\ job.status = "executing"
    BY <1>2, <2>1 DEF ExecutorInv, Ledger, Working
  <2>3. OneLink'
    BY <2>2 DEF OneLink, Moves
  <2> QED BY <1>4, <2>3 DEF Ledger
<1> QED BY <1>1, <1>3, <1>4 DEF ExecutorInv

\* In an execution that has met one failure at most.
LEMMA InExecution ==
  ASSUME ExecutorInv, faults <= 1, run.call # "none"
  PROVE  /\ job.status = "executing" /\ known = {}
         /\ Captured /\ Calling
<1>1. job.status = "executing"
  BY NoResultType DEF ExecutorInv, Working
<1> QED BY <1>1 DEF ExecutorInv, Ledger, OneLink

-------------------------------------------------------------------------------
(* One lemma for each step.                                                    *)

LEMMA AskPaymentStep ==
  ASSUME ExecutorInv, AskPayment
  PROVE  ExecutorInv'
<1> USE OutcomeClasses
<1>1. Types /\ At("payment") /\ UNCHANGED <<job, case, keys, payment, subscription, links, known, paid>>
  BY DEF ExecutorInv, AskPayment, env
<1>2. \/ /\ faults' = faults /\ keys = "right" /\ run' \in [call : Calls, result : Results]
         /\ \/ /\ run'.call = "persist" /\ run'.result.link = 0 /\ payment = "unknown"
               /\ run'.result.outcome = "invalid_resource"
            \/ /\ run'.call = "persist" /\ run'.result.link = 0 /\ payment = "captured"
               /\ run'.result.outcome = "payment_captured"
            \/ run'.call = "capture" /\ payment = "authorized"
            \/ run'.call \in {"subscription", "link"} /\ payment = "refunded"
      \/ /\ (faults' = faults /\ keys = "wrong") \/ faults' = faults + 1
         /\ run' \in [call : Calls, result : Results] /\ run'.call \in {"subscription", "link", "raised"}
  <2>1. NextCall \in {"subscription", "link"} /\ NextCall \in Calls
    BY DEF NextCall, Calls
  <2>2. "capture" \in Calls /\ "raised" \in Calls
    BY DEF Calls
  <2>3. CASE Answered /\ TryCapture(FetchPayment)
    <3>1. CASE payment = "unknown" /\ Done([Result("invalid_resource") EXCEPT !.pay = TRUE])
      <4>1. "invalid_resource" \in Outcomes
        OBVIOUS
      <4> QED BY <1>1, <2>3, <3>1, <4>1, CallCounts, DoneMoves DEF Ends
    <3>2. CASE payment = "captured" /\ Done([Result("payment_captured") EXCEPT !.pay = TRUE])
      <4>1. "payment_captured" \in Outcomes
        OBVIOUS
      <4> QED BY <1>1, <2>3, <3>2, <4>1, CallCounts, DoneMoves DEF Ends
    <3>3. CASE payment = "authorized" /\ Goto("capture")
      BY <1>1, <2>2, <2>3, <3>3, CallCounts, GotoMoves
    <3>4. CASE payment = "refunded" /\ Goto(NextCall)
      BY <1>1, <2>1, <2>3, <3>4, CallCounts, GotoMoves
    <3> QED BY <2>3, <3>1, <3>2, <3>3, <3>4 DEF TryCapture, FetchPayment
  <2>4. CASE Failed /\ Goto(NextCall)
    BY <1>1, <2>1, <2>4, CallCounts, GotoMoves
  <2>5. CASE Fault /\ Raises
    BY <1>1, <2>2, <2>5, CallCounts, GotoMoves DEF Raises
  <2> QED BY <2>3, <2>4, <2>5 DEF AskPayment
<1>3. Moves
  BY <1>1, <1>2 DEF Moves, Types, At
<1>4. ASSUME faults' <= 1
      PROVE  Captured' /\ Calling'
  <2>1. faults <= 1 /\ faults \in Nat /\ run.call = "payment"
    BY <1>1, <1>3, <1>4 DEF Moves, Types, At
  <2>2. /\ job.status = "executing" /\ Captured /\ Calling
    BY <2>1, InExecution
  <2>3. Captured'
    BY <1>1, <1>2, <1>4, <2>1, <2>2 DEF Captured, At
  <2>4. Calling'
    BY <1>1, <1>2, <1>4, <2>1, <2>2 DEF Calling, Capturing, At
  <2> QED BY <2>3, <2>4
<1> QED BY <1>3, <1>4, CallStep

\* A payment that is captured already is only asked for in a later execution.
LEMMA AskCaptureStep ==
  ASSUME ExecutorInv, AskCapture
  PROVE  ExecutorInv'
<1> USE OutcomeClasses
<1>1. Types /\ At("capture") /\ UNCHANGED <<job, case, keys, subscription, links, known, paid>>
  BY DEF ExecutorInv, AskCapture
<1>2. \/ /\ faults' = faults /\ run' \in [call : Calls, result : Results]
         /\ run'.call = "persist" /\ run'.result.link = 0
         /\ run'.result.outcome = "payment_captured" /\ payment' \in {payment, "captured"}
      \/ /\ (faults' = faults /\ keys = "wrong") \/ faults' = faults + 1
         /\ run' \in [call : Calls, result : Results] /\ payment' \in {payment, "captured"}
         /\ \/ /\ run'.call = "persist" /\ run'.result.link = 0 /\ run'.result.pay
               /\ run'.result.outcome = "api_error"
            \/ run'.call = "raised"
  <2>1. CapturePayment \in {payment, "captured"}
    BY DEF CapturePayment
  <2>2. CaptureError => /\ run' \in [call : Calls, result : Results]
                        /\ run'.call = "persist" /\ run'.result.link = 0
                        /\ run'.result.pay /\ run'.result.outcome = "api_error"
    <3>1. "api_error" \in Outcomes
      OBVIOUS
    <3> QED BY <3>1, DoneMoves DEF CaptureError, Ends
  <2>3. Raises => run' \in [call : Calls, result : Results] /\ run'.call = "raised"
    BY <1>1, GotoMoves DEF Raises, Calls
  <2>4. Done([Result("payment_captured") EXCEPT !.pay = TRUE]) =>
          /\ run' \in [call : Calls, result : Results]
          /\ run'.call = "persist" /\ run'.result.link = 0
          /\ run'.result.outcome = "payment_captured"
    <3>1. "payment_captured" \in Outcomes
      OBVIOUS
    <3> QED BY <3>1, DoneMoves DEF Ends
  <2> QED BY <1>1, <2>1, <2>2, <2>3, <2>4, CallCounts DEF AskCapture
<1>3. Moves
  BY <1>1, <1>2 DEF Moves, Types, At
<1>4. ASSUME faults' <= 1
      PROVE  Captured' /\ Calling'
  <2>1. faults <= 1 /\ faults \in Nat /\ run.call = "capture"
    BY <1>1, <1>3, <1>4 DEF Moves, Types, At
  <2>2. /\ job.status = "executing" /\ Captured /\ Calling
    BY <2>1, InExecution
  <2>3. Capturing /\ (faults = 0 => job.retry = 0)
    BY <2>1, <2>2 DEF Calling, Capturing, At
  <2>4. /\ keys' = "right" /\ job'.mode = "real_test" /\ job'.pay
        /\ case'.reason # "mandate_revoked" /\ job'.status = "executing"
    BY <1>1, <2>2, <2>3 DEF Capturing
  <2>5. /\ run'.call \in {"persist", "raised"} /\ run' # Idle
        /\ run'.call = "persist" =>
             \/ run'.result.outcome = "payment_captured"
             \/ /\ run'.result.outcome = "api_error" /\ run'.result.pay
                /\ job'.retry = 0 /\ faults' = 1
    BY <1>1, <1>2, <1>4, <2>1, <2>3, NoResultType DEF Capturing
  <2>6. Captured'
    BY <2>4, <2>5 DEF Captured, At
  <2>7. Calling'
    BY <1>1, <1>2, <1>4, <2>1, <2>2, <2>3 DEF Calling, Capturing, At
  <2> QED BY <2>6, <2>7
<1> QED BY <1>3, <1>4, CallStep

\* A subscription that cannot charge, or a link: of a payment not captured.
LEMMA CheckSubscriptionStep ==
  ASSUME ExecutorInv, CheckSubscription
  PROVE  ExecutorInv'
<1> USE OutcomeClasses
<1>1. Types /\ At("subscription") /\ UNCHANGED <<job, case, keys, payment, links, known, paid, subscription>>
  BY DEF ExecutorInv, CheckSubscription, env
<1>2. /\ faults' \in {faults, faults + 1} /\ run' \in [call : Calls, result : Results]
      /\ \/ run'.call \in {"link", "raised"}
         \/ /\ run'.call = "persist" /\ run'.result.link = 0
            /\ run'.result.outcome = "subscription_inactive"
  <2>1. Goto("link") => run' \in [call : Calls, result : Results] /\ run'.call = "link"
    BY <1>1, GotoMoves DEF Calls
  <2>2. Raises => run' \in [call : Calls, result : Results] /\ run'.call = "raised"
    BY <1>1, GotoMoves DEF Raises, Calls
  <2>3. Done([Result("subscription_inactive") EXCEPT !.sub = TRUE]) =>
          /\ run' \in [call : Calls, result : Results]
          /\ run'.call = "persist" /\ run'.result.link = 0
          /\ run'.result.outcome = "subscription_inactive"
    <3>1. "subscription_inactive" \in Outcomes
      OBVIOUS
    <3> QED BY <3>1, DoneMoves DEF Ends
  <2> QED BY <1>1, <2>1, <2>2, <2>3, CallCounts DEF CheckSubscription
<1>3. Moves
  BY <1>1, <1>2 DEF Moves, Types, At
<1>4. ASSUME faults' <= 1
      PROVE  Captured' /\ Calling'
  <2>1. faults <= 1 /\ faults \in Nat /\ run.call = "subscription"
    BY <1>1, <1>3, <1>4 DEF Moves, Types, At
  <2>2. Captured /\ Calling
    BY <2>1, InExecution
  <2>3. Captured'
    BY <1>1, <2>1, <2>2 DEF Captured, At
  <2>4. Calling'
    BY <1>1, <1>2, <1>4, <2>1, <2>2 DEF Calling, Capturing, At
  <2> QED BY <2>3, <2>4
<1> QED BY <1>3, <1>4, CallStep

LEMMA VerifySubscriptionStep ==
  ASSUME ExecutorInv, VerifySubscriptionInactive
  PROVE  ExecutorInv'
<1> USE OutcomeClasses
<1>1. Types /\ At("verify") /\ UNCHANGED <<job, case, keys, payment, links, known, paid, subscription>>
  BY DEF ExecutorInv, VerifySubscriptionInactive, env
<1>2. /\ faults' \in {faults, faults + 1} /\ run' \in [call : Calls, result : Results]
      /\ \/ run'.call = "raised"
         \/ /\ run'.call = "persist" /\ run'.result.link = 0
            /\ run'.result.outcome = "subscription_inactive"
  <2>1. Raises => run' \in [call : Calls, result : Results] /\ run'.call = "raised"
    BY <1>1, GotoMoves DEF Raises, Calls
  <2>2. Done([Result("subscription_inactive") EXCEPT !.sub = TRUE]) =>
          /\ run' \in [call : Calls, result : Results]
          /\ run'.call = "persist" /\ run'.result.link = 0
          /\ run'.result.outcome = "subscription_inactive"
    <3>1. "subscription_inactive" \in Outcomes
      OBVIOUS
    <3> QED BY <3>1, DoneMoves DEF Ends
  <2> QED BY <1>1, <2>1, <2>2, CallCounts DEF VerifySubscriptionInactive
<1>3. Moves
  BY <1>1, <1>2 DEF Moves, Types, At
<1>4. ASSUME faults' <= 1
      PROVE  Captured' /\ Calling'
  <2>1. faults <= 1 /\ faults \in Nat /\ run.call = "verify"
    BY <1>1, <1>3, <1>4 DEF Moves, Types, At
  <2>2. Captured /\ Calling
    BY <2>1, InExecution
  <2>3. Captured'
    BY <1>1, <2>1, <2>2 DEF Captured, At
  <2>4. Calling'
    BY <1>1, <1>2, <1>4, <2>1, <2>2 DEF Calling, Capturing, At
  <2> QED BY <2>3, <2>4
<1> QED BY <1>3, <1>4, CallStep

\* A link whose answer is lost is in no result.
LEMMA CreateLinkStep ==
  ASSUME ExecutorInv, CreateRecoveryLink
  PROVE  ExecutorInv'
<1> USE OutcomeClasses
<1>1. Types /\ At("link") /\ UNCHANGED <<job, case, keys, payment, known, paid, subscription>>
  BY DEF ExecutorInv, CreateRecoveryLink
<1>2. /\ links' \in Nat /\ run' \in [call : Calls, result : Results]
      /\ \/ /\ faults' = faults /\ run'.call = "persist"
            /\ run'.result.outcome = "payment_link_sent"
         \/ /\ faults' = faults /\ keys = "wrong" /\ run'.call = "persist" /\ run'.result.link = 0
         \/ /\ faults' = faults + 1
            /\ run'.call = "raised" \/ (run'.call = "persist" /\ run'.result.link = 0)
  <2>1. Raises => run' \in [call : Calls, result : Results] /\ run'.call = "raised"
    BY <1>1, GotoMoves DEF Raises, Calls
  <2>2. Done([Result("payment_link_sent") EXCEPT !.link = links + 1]) =>
          /\ run' \in [call : Calls, result : Results]
          /\ run'.call = "persist" /\ run'.result.outcome = "payment_link_sent"
    <3>1. "payment_link_sent" \in Outcomes /\ links + 1 \in Nat
      BY <1>1 DEF Types
    <3> QED BY <3>1, DoneMoves DEF Ends
  <2>3. ASSUME NEW o \in Outcomes, Done(Result(o))
        PROVE  /\ run' \in [call : Calls, result : Results]
               /\ run'.call = "persist" /\ run'.result.link = 0
    BY <2>3, DoneMoves DEF Ends
  <2>4. LinkErrors \subseteq Outcomes /\ "network_error" \in Outcomes
    BY DEF LinkErrors, Outcomes, TerminalFailures, TransientFailures
  <2>5. CASE Answered /\ CreatePaymentLink
             /\ Done([Result("payment_link_sent") EXCEPT !.link = links + 1])
    BY <1>1, <2>2, <2>5, CallCounts DEF CreatePaymentLink, Types
  <2>6. CASE Failed /\ UNCHANGED links /\ \E o \in LinkErrors : Done(Result(o))
    BY <1>1, <2>3, <2>4, <2>6, CallCounts DEF Types
  <2>7. CASE keys = "right" /\ Fault /\ CreatePaymentLink
             /\ (Done(Result("network_error")) \/ Raises)
    BY <1>1, <2>1, <2>3, <2>4, <2>7, CallCounts DEF CreatePaymentLink, Types
  <2> QED BY <2>5, <2>6, <2>7 DEF CreateRecoveryLink
<1>3. Moves
  BY <1>1, <1>2 DEF Moves, Types, At
<1>4. ASSUME faults' <= 1
      PROVE  Captured' /\ Calling'
  <2>1. faults <= 1 /\ faults \in Nat /\ run.call = "link"
    BY <1>1, <1>3, <1>4 DEF Moves, Types, At
  <2>2. Captured /\ Calling
    BY <2>1, InExecution
  <2>3. Captured'
    BY <1>1, <2>1, <2>2 DEF Captured, At
  <2>4. Calling'
    BY <1>1, <1>2, <1>4, <2>1, <2>2 DEF Calling, Capturing, At
  <2> QED BY <2>3, <2>4
<1> QED BY <1>3, <1>4, CallStep

\* A job with a payment asks for it first.
LEMMA ExecuteStep ==
  ASSUME ExecutorInv, ExecuteRecovery
  PROVE  ExecutorInv'
<1> USE OutcomeClasses
<1>1. /\ Types /\ job.status = "scheduled" /\ run = Idle
      /\ job' = [job EXCEPT !.status = "executing"]
      /\ UNCHANGED <<case, keys, payment, subscription, links, known, paid, faults>>
  BY DEF ExecutorInv, ExecuteRecovery, env
<1>2. /\ job' \in JobRows /\ job'.status = "executing" /\ job'.mode = job.mode
      /\ job'.retry = job.retry /\ job'.pay = job.pay
  BY <1>1 DEF Types, JobRows
<1>3. /\ run' \in [call : Calls, result : Results]
      /\ \/ /\ run'.call = "persist" /\ run'.result.link = 0
            /\ \/ run'.result.outcome \in TerminalFailures
               \/ job.mode # "real_test"
            /\ \/ job.mode # "real_test" \/ keys = "none" \/ case.reason = "mandate_revoked"
         \/ run'.call = "verify" /\ case.reason = "mandate_revoked"
         \/ /\ run'.call = "payment" /\ job.pay /\ case.reason # "mandate_revoked"
            /\ job.mode = "real_test"
         \/ run'.call \in {"subscription", "link"} /\ ~job.pay
  <2>1. ASSUME NEW o \in Outcomes, Done(Result(o))
        PROVE  /\ run' \in [call : Calls, result : Results] /\ run'.call = "persist"
               /\ run'.result.link = 0 /\ run'.result.outcome = o
    BY <2>1, DoneMoves DEF Ends
  <2>2. /\ "simulated_success" \in Outcomes /\ "simulated_failure" \in Outcomes
        /\ "configuration_error" \in Outcomes /\ "subscription_inactive" \in Outcomes
    OBVIOUS
  <2>3. CASE job.mode # "real_test" /\ ExecuteSimulation
    BY <2>1, <2>2, <2>3 DEF ExecuteSimulation
  <2>4. CASE job.mode = "real_test" /\ ExecuteReal
    <3>1. CASE keys = "none" /\ Done(Result("configuration_error"))
      BY <2>1, <2>2, <3>1
    <3>2. CASE case.reason = "mandate_revoked" /\ Done(Result("subscription_inactive"))
      BY <2>1, <2>2, <3>2
    <3>3. ASSUME NEW c \in Calls, Goto(c)
          PROVE  run' \in [call : Calls, result : Results] /\ run'.call = c
      BY <1>1, <3>3, GotoMoves
    <3>4. CASE case.reason = "mandate_revoked" /\ Goto("verify")
      BY <3>3, <3>4 DEF Calls
    <3>5. CASE case.reason # "mandate_revoked" /\ Goto(IF job.pay THEN "payment" ELSE NextCall)
      BY <2>4, <3>3, <3>5 DEF Calls, NextCall
    <3> QED BY <2>4, <3>1, <3>2, <3>4, <3>5 DEF ExecuteReal
  <2> QED BY <2>3, <2>4 DEF ExecuteRecovery
<1>4. run'.call # "none" /\ run' # Idle
  BY <1>3, NoResultType
<1>5. Types'
  BY <1>1, <1>2, <1>3 DEF Types
<1>6. Working'
  BY <1>2, <1>4 DEF Working
<1>7. ASSUME faults' <= 1
      PROVE  Ledger'
  <2>1. OneLink /\ Captured /\ Calling
    BY <1>1, <1>7 DEF ExecutorInv, Ledger
  <2>2. OneLink'
    BY <1>1, <2>1 DEF OneLink
  <2>3. payment = "captured" =>
          /\ keys = "right" /\ job.mode = "real_test" /\ case.reason # "mandate_revoked"
          /\ job.pay /\ faults = 1
    BY <1>1, <2>1 DEF Captured
  <2>4. payment = "captured" => run'.call = "payment"
    BY <1>3, <2>3
  <2>5. Captured'
    BY <1>1, <1>2, <1>4, <2>3, <2>4 DEF Captured, At
  <2>6. Calling'
    <3>1. /\ run'.call # "capture"
          /\ run'.call = "persist" => run'.result.link = 0
          /\ run'.call = "persist" /\ keys = "right" /\ job.mode = "real_test" =>
               run'.result.outcome \notin TransientFailures
      BY <1>3
    <3>2. run'.call = "payment" => job.mode = "real_test" /\ job.pay /\ case.reason # "mandate_revoked"
      BY <1>3
    <3>3. keys = "right" /\ job.mode = "real_test" /\ faults = 0 => job.retry = 0
      BY <2>1 DEF Calling
    <3> QED BY <1>1, <1>2, <3>1, <3>2, <3>3 DEF Calling, At
  <2> QED BY <2>2, <2>5, <2>6 DEF Ledger
<1> QED BY <1>5, <1>6, <1>7 DEF ExecutorInv

\* What execute_job writes: the ids of the result, and for the next execution
\* of a job that is scheduled again one retry more.
LEMMA PersistRow ==
  ASSUME Types, Persist
  PROVE  /\ job' \in JobRows /\ job'.mode = job.mode /\ job'.pay = run.result.pay
         /\ job'.status = JobStatus(run.result.outcome)
         /\ job'.status # "scheduled" => job'.retry = job.retry
         /\ job'.status \in {"succeeded", "failed", "scheduled", "exhausted"}
<1> DEFINE s == JobStatus(run.result.outcome)
           row == UpdateJobResult(job, s, run.result)
<1>1. s \in {"succeeded", "failed", "scheduled", "exhausted"}
  BY DEF JobStatus
<1>2. job \in JobRows /\ run.result \in Results
  BY DEF Types
<1> HIDE DEF s
<1>3. row \in JobRows /\ row.mode = job.mode /\ row.pay = run.result.pay
      /\ row.status = s /\ row.retry = job.retry
  BY <1>1, <1>2 DEF UpdateJobResult, JobRows, Results
<1> HIDE DEF row
<1>4. job' = IF row.status = "scheduled" THEN [row EXCEPT !.retry = @ + 1] ELSE row
  BY DEF Persist, IncrementJobRetry, row, s
<1>5. job' \in JobRows /\ job'.mode = row.mode /\ job'.pay = row.pay
      /\ job'.status = row.status /\ (row.status # "scheduled" => job'.retry = row.retry)
  BY <1>3, <1>4 DEF JobRows
<1> QED BY <1>1, <1>3, <1>5 DEF s

LEMMA PersistCase ==
  ASSUME Types, Persist
  PROVE  /\ case' \in [reason : Reasons, amount : {"agreed", "other"},
                       status : {"in_progress", "recovered", "escalated"}]
         /\ case'.reason = case.reason /\ case'.amount = case.amount
         /\ case'.status = CaseStatus(JobStatus(run.result.outcome))
<1>1. CaseStatus(JobStatus(run.result.outcome)) \in {"in_progress", "recovered", "escalated"}
  BY DEF Types, CaseStatus
<1> QED BY <1>1 DEF Types, Persist

LEMMA PersistStep ==
  ASSUME ExecutorInv, Persist
  PROVE  ExecutorInv'
<1> USE OutcomeClasses
<1>1. /\ Types /\ run.call = "persist" /\ run' = Idle
      /\ UNCHANGED <<keys, payment, subscription, links, paid, faults>>
      /\ known' = IF run.result.link = 0 THEN known ELSE known \cup {run.result.link}
  BY DEF ExecutorInv, Persist, At
<1>2. /\ job' \in JobRows /\ job'.mode = job.mode /\ job'.pay = run.result.pay
      /\ job'.status = JobStatus(run.result.outcome)
      /\ job'.status \in {"succeeded", "failed", "scheduled", "exhausted"}
  BY <1>1, PersistRow
<1>3. Types'
  BY <1>1, <1>2, PersistCase, NoResultType DEF Types
<1>4. Working'
  BY <1>1, <1>2 DEF Working
<1>5. ASSUME faults' <= 1
      PROVE  Ledger'
  <2>1. known = {} /\ paid = {} /\ Captured /\ Calling
    BY <1>1, <1>5, InExecution DEF ExecutorInv, Ledger, OneLink
  <2>2. payment = "captured" => run.result.outcome \in {"payment_captured", "api_error"}
    BY <1>1, <2>1 DEF Captured, At
  <2>3. OneLink'
    <3>1. CASE run.result.link = 0
      BY <1>1, <2>1, <3>1 DEF OneLink
    <3>2. CASE run.result.link # 0
      <4>1. run.result.outcome = "payment_link_sent"
        BY <1>1, <2>1, <3>2 DEF Calling, At
      <4>2. job'.status = "succeeded" /\ payment # "captured"
        BY <1>2, <2>2, <4>1 DEF JobStatus
      <4> QED BY <1>1, <2>1, <3>2, <4>2 DEF OneLink
    <3> QED BY <3>1, <3>2
  <2>4. Captured'
    <3>1. CASE payment # "captured"
      BY <1>1, <3>1 DEF Captured
    <3>2. CASE payment = "captured"
      <4>1. /\ keys = "right" /\ job.mode = "real_test" /\ case.reason # "mandate_revoked"
            /\ \/ run.result.outcome = "payment_captured"
               \/ run.result.outcome = "api_error" /\ run.result.pay /\ faults = 1
        BY <1>1, <2>1, <3>2 DEF Captured, At
      <4>2. job'.status = "scheduled" => run.result.pay /\ faults = 1
        BY <1>2, <4>1 DEF JobStatus
      <4> QED BY <1>1, <1>2, <4>1, <4>2, PersistCase, NoResultType DEF Captured, At
    <3> QED BY <3>1, <3>2
  <2>5. Calling'
    <3>1. keys = "right" /\ job.mode = "real_test" /\ faults = 0 => job'.retry = 0
      <4>1. SUFFICES ASSUME keys = "right", job.mode = "real_test", faults = 0
                     PROVE  job'.retry = 0
        OBVIOUS
      <4>2. job.retry = 0 /\ run.result.outcome \notin TransientFailures
        BY <1>1, <2>1, <4>1 DEF Calling, At
      <4>3. job'.status # "scheduled"
        BY <1>2, <4>2 DEF JobStatus
      <4> QED BY <1>1, <4>2, <4>3, PersistRow
    <3> QED BY <1>1, <1>2, <3>1, NoResultType DEF Calling, At
  <2> QED BY <2>3, <2>4, <2>5 DEF Ledger
<1> QED BY <1>3, <1>4, <1>5 DEF ExecutorInv

LEMMA WorkerErrorStep ==
  ASSUME ExecutorInv, WorkerError
  PROVE  ExecutorInv'
<1>1. /\ Types /\ run.call = "raised" /\ run' = Idle
      /\ UNCHANGED <<case, keys, payment, subscription, links, known, paid, faults>>
  BY DEF ExecutorInv, WorkerError, At, env
<1>2. job' \in JobRows /\ job'.status = "failed" /\ job'.mode = job.mode /\ job'.retry = job.retry
  BY <1>1, DoneMoves DEF WorkerError, Types, JobRows, UpdateJobResult, Result, Outcomes,
     TransientFailures
<1>3. Types' /\ Working'
  BY <1>1, <1>2, NoResultType DEF Types, Working
<1>4. ASSUME faults' <= 1
      PROVE  Ledger'
  <2>1. known = {} /\ paid = {} /\ Captured /\ Calling
    BY <1>1, <1>4, InExecution DEF ExecutorInv, Ledger, OneLink
  <2>2. OneLink' /\ Captured'
    BY <1>1, <1>2, <2>1, NoResultType DEF OneLink, Captured, At
  <2>3. Calling'
    BY <1>1, <1>2, <2>1, NoResultType DEF Calling, At
  <2> QED BY <2>2, <2>3 DEF Ledger
<1> QED BY <1>3, <1>4 DEF ExecutorInv

\* Of the job of a crashed worker, the payment's id is still in the row.
LEMMA CrashStep ==
  ASSUME ExecutorInv, Crash
  PROVE  ExecutorInv'
<1>1. /\ Types /\ run # Idle /\ run' = Idle /\ faults' = faults + 1
      /\ UNCHANGED <<job, case, keys, payment, subscription, links, known, paid>>
  BY DEF ExecutorInv, Crash, Fault, env
<1>2. run.call # "none" /\ job.status = "executing"
  BY <1>1 DEF ExecutorInv, Working
<1>3. Types' /\ Working'
  BY <1>1, NoResultType DEF Types, Working
<1>4. ASSUME faults' <= 1
      PROVE  Ledger'
  <2>1. faults = 0 /\ faults' = 1
    BY <1>1, <1>4 DEF Types
  <2>2. known = {} /\ paid = {} /\ Captured /\ Calling
    BY <1>2, <2>1, InExecution DEF ExecutorInv, Ledger, OneLink
  <2>3. OneLink' /\ Captured'
    BY <1>1, <1>2, <2>1, <2>2, NoResultType DEF OneLink, Captured, At
  <2>4. Calling'
    BY <1>1, <2>1, NoResultType DEF Calling, At
  <2> QED BY <2>3, <2>4 DEF Ledger
<1> QED BY <1>3, <1>4 DEF ExecutorInv

LEMMA ResetStep ==
  ASSUME ExecutorInv, ResetStale
  PROVE  ExecutorInv'
<1>1. /\ Types /\ job.status = "executing" /\ run = Idle
      /\ UNCHANGED <<case, keys, run, payment, subscription, links, known, paid, faults>>
  BY DEF ExecutorInv, ResetStale, env
<1>2. job' \in JobRows /\ job'.status = "scheduled" /\ job'.mode = job.mode /\ job'.pay = job.pay
  <2>1. job.retry + 1 \in Nat
    BY <1>1 DEF Types, JobRows
  <2>2. job' = [[job EXCEPT !.status = "scheduled"] EXCEPT !.retry = job.retry + 1]
    BY <1>1 DEF ResetStale, Types, JobRows
  <2> QED BY <1>1, <2>1, <2>2 DEF Types, JobRows
<1>3. Types' /\ Working' /\ faults \in Nat /\ faults # 0
  BY <1>1, <1>2 DEF Types, Working, ExecutorInv
<1>4. ASSUME faults' <= 1
      PROVE  Ledger'
  <2>1. OneLink /\ Captured /\ Calling
    BY <1>1, <1>4 DEF ExecutorInv, Ledger
  <2>2. OneLink' /\ Captured'
    BY <1>1, <1>2, <2>1, NoResultType DEF OneLink, Captured, At
  <2>3. Calling'
    BY <1>1, <1>3, NoResultType DEF Calling, At
  <2> QED BY <2>2, <2>3 DEF Ledger
<1> QED BY <1>3, <1>4 DEF ExecutorInv

LEMMA GatewayStep ==
  ASSUME ExecutorInv, Gateway
  PROVE  ExecutorInv'
<1>1. /\ Types /\ UNCHANGED <<job, keys, run, links, known, faults>>
      /\ payment' \in {payment, "refunded"} /\ subscription' \in {"active", "cancelled"}
      /\ case' \in [reason : Reasons, amount : {"agreed", "other"},
                    status : {"in_progress", "recovered", "escalated"}]
      /\ case'.reason = case.reason
      /\ paid' \subseteq known \cup paid
  BY DEF ExecutorInv, Types, Gateway, PaymentRefunded, SubscriptionCancelled,
     WebhookRewritesAmount, CustomerPays, env
<1>2. Types' /\ Working'
  BY <1>1 DEF ExecutorInv, Types, Working
<1>3. ASSUME faults' <= 1
      PROVE  Ledger'
  <2>1. OneLink /\ Captured /\ Calling
    BY <1>1, <1>3 DEF ExecutorInv, Ledger
  <2>2. OneLink'
    BY <1>1, <2>1 DEF OneLink
  <2>3. Captured'
    BY <1>1, <2>1 DEF Captured, At
  <2>4. Calling'
    BY <1>1, <2>1 DEF Calling, Capturing, At
  <2> QED BY <2>2, <2>3, <2>4 DEF Ledger
<1> QED BY <1>2, <1>3 DEF ExecutorInv

LEMMA Steps ==
  ASSUME ExecutorInv, [Next]_vars
  PROVE  ExecutorInv'
<1>1. CASE UNCHANGED vars
  BY <1>1 DEF vars, env, ExecutorInv, Types, Working, Ledger, OneLink, Captured, Calling,
     Capturing, At
<1>2. CASE Next
  BY <1>2, ExecuteStep, AskPaymentStep, AskCaptureStep, CheckSubscriptionStep,
     VerifySubscriptionStep, CreateLinkStep, PersistStep, WorkerErrorStep, CrashStep,
     ResetStep, GatewayStep DEF Next
<1> QED BY <1>1, <1>2

LEMMA Initially == Init => ExecutorInv /\ Escalated
<1> SUFFICES ASSUME Init PROVE ExecutorInv /\ Escalated
  OBVIOUS
<1>1. job \in JobRows /\ job.status = "scheduled" /\ job.retry = 0
  BY DEF Init, NewJob, JobRows, Outcomes
<1>2. case \in [reason : Reasons, amount : {"agreed", "other"},
                status : {"in_progress", "recovered", "escalated"}] /\ case.status = "in_progress"
  BY DEF Init
<1>3. Types /\ Working /\ Escalated
  BY <1>1, <1>2, NoResultType DEF Init, Types, Working, Escalated
<1>4. OneLink /\ Captured /\ Calling
  BY <1>1, NoResultType DEF Init, OneLink, Captured, Calling, At
<1> QED BY <1>3, <1>4 DEF ExecutorInv, Ledger

\* The links of a job charge once, and only where the payment did not.
LEMMA ChargesBound ==
  ASSUME OneLink
  PROVE  Charges <= 1 /\ (known = {} /\ payment # "captured" => Charges = 0)
<1>1. CASE known = {}
  <2>1. paid = {}
    BY <1>1 DEF OneLink
  <2> QED BY <2>1, FS_EmptySet DEF Charges
<1>2. CASE known # {}
  <2>1. PICK k \in known : known = {k}
    BY <1>2 DEF OneLink
  <2>2. payment # "captured" /\ (paid = {} \/ paid = {k})
    BY <1>2, <2>1 DEF OneLink
  <2>3. Cardinality({}) = 0 /\ Cardinality({k}) = 1
    BY FS_EmptySet, FS_Singleton
  <2> QED BY <1>2, <2>2, <2>3 DEF Charges
<1> QED BY <1>1, <1>2

\* Whatever one failure an execution meets (a call that fails, an answer that
\* is lost, a crash at any step), the customer of execute_job's retries is not
\* charged twice.
THEOREM OneFailureChargesOnce == Spec => []OneFailureNeverChargesTwice
<1>1. Init => ExecutorInv
  BY Initially
<1>2. ExecutorInv /\ [Next]_vars => ExecutorInv'
  BY Steps
<1>3. ExecutorInv => OneFailureNeverChargesTwice
  BY ChargesBound DEF ExecutorInv, Ledger, OneFailureNeverChargesTwice
<1> QED BY <1>1, <1>2, <1>3, PTL DEF Spec

\* With a second run to come (MAX_RETRIES is 3; with a single run it is not so),
\* the first one's capture of which the answer was lost does not exhaust the job.
LEMMA EscalationStep ==
  ASSUME MaxRetries >= 2, UnchargedInv, [Next]_vars, faults' <= 1
  PROVE  Escalated'
<1> USE OutcomeClasses
<1>1. /\ Types /\ Types'
      /\ faults <= 1 => Ledger /\ Escalated
      /\ MaxRetries \in Nat
  BY Steps, ExecutorAssumption DEF UnchargedInv, ExecutorInv
<1>2. CASE Persist
  <2>1. run.call = "persist" /\ faults <= 1
    BY <1>2 DEF Persist, At
  <2>2. job.status = "executing" /\ Captured /\ Escalated
    BY <1>1, <2>1, InExecution DEF UnchargedInv
  <2>3. SUFFICES ASSUME case'.status = "escalated"
                 PROVE  job'.status \in {"failed", "exhausted"} /\ payment' # "captured"
    BY DEF Escalated
  <2>4. JobStatus(run.result.outcome) \in {"failed", "exhausted"}
    <3>1. CaseStatus(JobStatus(run.result.outcome)) = "escalated"
      BY <1>1, <1>2, <2>3, PersistCase
    <3>2. case.status # "escalated"
      BY <2>2 DEF Escalated
    <3> QED BY <3>1, <3>2 DEF CaseStatus
  <2>5. payment # "captured"
    <3>1. run.result.outcome \notin Successes
      BY <2>4 DEF JobStatus
    <3>2. run.result.outcome \in TransientFailures => ~(job.retry < MaxRetries - 1)
      BY <2>4 DEF JobStatus
    <3>3. ~(run.result.outcome = "api_error" /\ job.retry = 0)
      BY <1>1, <3>2
    <3> QED BY <2>1, <2>2, <3>1, <3>3 DEF Captured, At
  <2>6. job'.status = JobStatus(run.result.outcome) /\ payment' = payment
    BY <1>1, <1>2, PersistRow DEF Persist
  <2> QED BY <2>4, <2>5, <2>6
<1>3. CASE ~Persist
  <2>1. case'.status = case.status /\ faults <= 1
    <3>1. CASE Gateway
      BY <1>1, <3>1 DEF Types, Gateway, PaymentRefunded, SubscriptionCancelled,
         WebhookRewritesAmount, CustomerPays, env
    <3>2. CASE AskPayment \/ AskCapture \/ CheckSubscription \/ VerifySubscriptionInactive
      <4>1. faults' \in {faults, faults + 1}
        BY <1>1, <3>2, CallCounts DEF AskPayment, AskCapture, CheckSubscription,
           VerifySubscriptionInactive
      <4> QED BY <1>1, <3>2, <4>1 DEF Types, AskPayment, AskCapture, CheckSubscription,
                                     VerifySubscriptionInactive
    <3>3. CASE CreateRecoveryLink
      BY <1>1, <3>3, CallCounts DEF Types, CreateRecoveryLink
    <3>4. CASE ExecuteRecovery \/ WorkerError \/ Crash \/ ResetStale
      BY <1>1, <3>4, CallCounts DEF Types, ExecuteRecovery, WorkerError, Crash, ResetStale
    <3>5. CASE UNCHANGED vars
      BY <1>1, <3>5 DEF vars
    <3> QED BY <1>3, <3>1, <3>2, <3>3, <3>4, <3>5 DEF Next
  <2>2. SUFFICES ASSUME case'.status = "escalated"
                 PROVE  job'.status \in {"failed", "exhausted"} /\ payment' # "captured"
    BY DEF Escalated
  <2>3. job.status \in {"failed", "exhausted"} /\ payment # "captured" /\ run = Idle
    BY <1>1, <2>1, <2>2 DEF Escalated, UnchargedInv, ExecutorInv, Working
  <2>4. Gateway \/ UNCHANGED vars
    BY <1>3, <2>3, NoResultType DEF Next, At, ExecuteRecovery, AskPayment, AskCapture,
       CheckSubscription, VerifySubscriptionInactive, CreateRecoveryLink, WorkerError,
       Crash, ResetStale
  <2> QED BY <2>3, <2>4 DEF vars, env, Gateway, PaymentRefunded, SubscriptionCancelled,
                            WebhookRewritesAmount, CustomerPays
<1> QED BY <1>2, <1>3

\* _try_set_case_escalated: a case that one failure made the scheduler give up
\* is one whose customer was not charged.
THEOREM EscalatedCasesAreUncharged ==
  ASSUME MaxRetries >= 2
  PROVE  Spec => []EscalatedMeansUncharged
<1>1. Init => UnchargedInv
  BY Initially DEF UnchargedInv
<1>2. UnchargedInv /\ [Next]_vars => UnchargedInv'
  BY Steps, EscalationStep DEF UnchargedInv
<1>3. UnchargedInv => EscalatedMeansUncharged
  <2>1. ASSUME OneLink, Escalated, case.status = "escalated"
        PROVE  Charges = 0
    BY <2>1, ChargesBound DEF OneLink, Escalated
  <2> QED BY <2>1 DEF UnchargedInv, ExecutorInv, Ledger, EscalatedMeansUncharged
<1> QED BY <1>1, <1>2, <1>3, PTL DEF Spec

===============================================================================
