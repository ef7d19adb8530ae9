----------------------------- MODULE CaseContract -----------------------------
(***************************************************************************)
(* What the pipeline promises about one case, seen from outside a run      *)
(* (README: hard 3-retry cap, mandatory escalation, idempotent             *)
(* reprocessing): a case is refused at a gate, or worked in one go with    *)
(* the debits 1, ..., k and settled; a settled case is never worked again. *)
(***************************************************************************)
EXTENDS Naturals

CONSTANT Cap       (* most debits a case may ever see *)

VARIABLES
  outcome,         (* "new", or the status the case was settled with *)
  debits           (* the attempt numbers debited so far             *)

cvars == <<outcome, debits>>

CInit == outcome = "new" /\ debits = {}

\* A spoofed or malformed event never causes a debit.
Refuse ==
  /\ outcome = "new"
  /\ outcome' \in {"rejected", "invalid"}
  /\ UNCHANGED debits

\* A revoked mandate: escalated without a debit.
EscalateUntried ==
  /\ outcome = "new"
  /\ outcome' = "escalated"
  /\ UNCHANGED debits

\* The retry loop: k debits, at most Cap, then recovered or escalated.
Work ==
  /\ outcome = "new"
  /\ \E k \in 1..Cap : debits' = 1..k
  /\ outcome' \in {"recovered", "escalated"}

CNext == Refuse \/ EscalateUntried \/ Work

CSpec == CInit /\ [][CNext]_cvars
===============================================================================
