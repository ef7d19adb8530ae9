------------------------- MODULE MerchantAccountsProps -------------------------
(* The correctness properties of MerchantAccounts.                             *)
EXTENDS MerchantAccounts

\* OTP_MAX_ATTEMPTS: a stored challenge is compared with at most that many
\* entries, however many requests count their attempts at the same time.
GuessesAreBounded == \A k \in Codes : compared[k] <= MaxAttempts

\* auth._delete_unverified_merchant: the account of a verified address stays,
\* whichever registration read it before it was verified; its sessions go only
\* with a registration of an address that it has given up meanwhile.
VerifiedAccountsSurvive ==
  [][\A a \in Accounts : Stored(a) /\ accounts[a].verified =>
       /\ accounts'[a].stored /\ accounts'[a].verified
       /\ \A s \in Sessions :
            sessions[s].account = a /\ sessions'[s].state = "deleted"
              /\ sessions[s].state # "deleted" =>
            \E r \in Requests : At(r, "register") /\ reqs[r].account = a
                                  /\ reqs[r].email # accounts[a].email]_vars

\* reset_password and change_password end the sessions opened with an older
\* password, but for the one that asked and logins that were overtaken.
SessionsHaveTheCurrentPassword ==
  \A s \in Sessions : sessions[s].state = "valid" /\ ~sessions[s].excused =>
     sessions[s].password = accounts[sessions[s].account].password
=============================================================================
