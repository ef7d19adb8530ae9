---------------------------- MODULE MerchantAccounts ----------------------------
(***************************************************************************)
(* Merchant accounts (auth.py, the auth helpers of db.py and the routes    *)
(* that call them): registration, one-time codes, passwords and sessions,  *)
(* under requests that overlap.  What a request reads before its first     *)
(* write may be overtaken; from its first write to its commit it is one    *)
(* step.  A code is a challenge: entering the code of challenge k is right *)
(* for k and wrong for every other one.                                    *)
(***************************************************************************)
EXTENDS Integers, FiniteSets

CONSTANTS Accounts, Emails, Sessions,
          Requests,       \* bound: the threads that serve requests
          MaxRequests,    \* bound: the requests they serve
          MaxCodes,       \* bound: codes issued
          MaxAttempts     \* auth.OTP_MAX_ATTEMPTS

Nobody == "nobody"
Codes  == 1..MaxCodes
ASSUME AccountsAssumption ==
  /\ MaxCodes \in Nat /\ MaxRequests \in Nat /\ MaxAttempts \in Nat \ {0}
  /\ Nobody \notin Accounts

VARIABLES accounts,  \* merchants
          codes,     \* otp_challenges, numbered in the order of their creation
          sessions,  \* with the password each was opened with; 'excused' is history:
                     \* kept by a change of password, or by a login it overtook
          reqs,      \* the request a thread serves
          served,    \* how many requests have begun
          compared   \* history: how often a stored challenge was compared

vars == <<accounts, codes, sessions, reqs, served, compared>>
-----------------------------------------------------------------------------
\* The tables, and what db.py reads from them and writes to them.
NoAccount == [stored |-> FALSE, email |-> "none", verified |-> FALSE, password |-> 0]
NoCode    == [stored |-> FALSE, email |-> "none", purpose |-> "none",
              account |-> Nobody, used |-> FALSE, attempts |-> 0, age |-> "recent"]
NoSession == [state |-> "none", account |-> Nobody, password |-> 0, excused |-> FALSE]
Idle == [pc |-> "idle", purpose |-> "none", email |-> "none", account |-> Nobody,
          code |-> 0, entered |-> 0, password |-> 0, session |-> "none"]

Init ==
  /\ accounts = [a \in Accounts |-> NoAccount]
  /\ codes = [k \in Codes |-> NoCode]
  /\ sessions = [s \in Sessions |-> NoSession]
  /\ reqs = [r \in Requests |-> Idle]
  /\ served = 0
  /\ compared = [k \in Codes |-> 0]

Stored(a) == a \in Accounts /\ accounts[a].stored

\* get_merchant_by_email
Owner(e)  == IF \E a \in Accounts : Stored(a) /\ accounts[a].email = e
             THEN CHOOSE a \in Accounts : Stored(a) /\ accounts[a].email = e
             ELSE Nobody

\* create_merchant in the table accs: a new row, unless the address is taken.
Creatable(accs, e) == \A b \in Accounts : accs[b].stored => accs[b].email # e
CreateMerchant(accs, a, e) == [accs EXCEPT ![a] = [NoAccount EXCEPT !.stored = TRUE,
                                                                    !.email = e]]

\* update_merchant and verify_merchant_email
UpdateMerchant(a, row) == [accounts EXCEPT ![a] = row]
VerifyMerchantEmail(a) == UpdateMerchant(a, [accounts[a] EXCEPT !.verified = TRUE])

\* log_security_event: the foreign key refuses the event of a deleted account,
\* which rolls the whole request back.
LogSecurityEvent(a) == Stored(a)

\* create_otp_challenge in the table cs
CreateCode(cs, e, purpose, a) ==
  LET k == Cardinality({j \in Codes : codes[j] # NoCode}) + 1
  IN  [cs EXCEPT ![k] = [NoCode EXCEPT !.stored = TRUE, !.email = e,
                                       !.purpose = purpose, !.account = a]]
CodesLeft == \E k \in Codes : codes[k] = NoCode

\* get_latest_otp_challenge: the latest of the unused and unexpired ones (0: none)
Open(e, purpose) ==
  {k \in Codes : /\ codes[k].stored /\ codes[k].email = e /\ codes[k].purpose = purpose
                 /\ ~codes[k].used /\ codes[k].age # "expired"}
Latest(e, purpose) ==
  IF Open(e, purpose) = {} THEN 0
  ELSE CHOOSE k \in Open(e, purpose) : \A j \in Open(e, purpose) : j <= k

\* increment_otp_attempts reads the counter back in the transaction that
\* increments it (0, if the challenge has been deleted).
Incremented(k) == IF codes[k].stored THEN codes[k].attempts + 1 ELSE 0
IncrementAttempts(k) ==
  [codes EXCEPT ![k].attempts = IF codes[k].stored THEN @ + 1 ELSE @]

\* consume_otp_challenge, invalidate_otp_challenges
Consume(cs, k) == [cs EXCEPT ![k].used = TRUE]
InvalidateCodes(cs, e, purpose) ==
  [k \in Codes |-> IF cs[k].email = e /\ cs[k].purpose = purpose
                   THEN [cs[k] EXCEPT !.used = TRUE] ELSE cs[k]]

\* create_session, get_session, invalidate_session
CreateSession(s, a, password) ==
  [sessions EXCEPT ![s] = [state |-> "valid", account |-> a, password |-> password,
                           excused |-> accounts[a].password # password]]
ValidSession(s) == sessions[s].state = "valid"
InvalidateSession(s) == [sessions EXCEPT ![s].state = "invalid"]

\* Mutant: a new password leaves the sessions open.
InvalidateNoSessions(a, kept) ==
  [s \in Sessions |-> IF s = kept THEN [sessions[s] EXCEPT !.excused = TRUE] ELSE sessions[s]]

\* invalidate_all_sessions, but for the one that is kept
InvalidateAllSessions(a, kept) ==
  [s \in Sessions |->
     IF sessions[s].account # a \/ ~ValidSession(s) THEN sessions[s]
     ELSE IF s = kept THEN [sessions[s] EXCEPT !.excused = TRUE]
     ELSE [sessions[s] EXCEPT !.state = "invalid"]]

\* resolve_session, for the routes that want a signed-in merchant
ResolveSession(s) ==
  IF ValidSession(s) /\ Stored(sessions[s].account) THEN sessions[s].account ELSE Nobody
RequireAuth(s) == ResolveSession(s) # Nobody
-----------------------------------------------------------------------------
At(r, pc)    == reqs[r].pc = pc
Goto(r, rec) == reqs' = [reqs EXCEPT ![r] = rec]
Finish(r)    == Goto(r, Idle)

\* register_merchant reads the owner of the address, refuses a verified one,
\* then deletes an unverified one with all it has, inserts and issues a code.
RegisterRead(r, e) ==
  /\ At(r, "idle")
  /\ Owner(e) # Nobody => ~accounts[Owner(e)].verified
  /\ Goto(r, [Idle EXCEPT !.pc = "register", !.email = e, !.account = Owner(e)])
  /\ UNCHANGED <<accounts, codes, sessions, compared>>

\* Mutant: the owner that was read is deleted, verified meanwhile or not.
WithoutAny(old) == [a \in Accounts |-> [accounts[a] EXCEPT !.stored = @ /\ a # old]]

\* _delete_unverified_merchant: the row of a verified account stays.
Without(old) ==
  [a \in Accounts |-> IF a = old /\ ~accounts[a].verified
                      THEN [accounts[a] EXCEPT !.stored = FALSE] ELSE accounts[a]]

\* If the address is still taken the whole request rolls back.
RegisterWrite(r, a) ==
  LET e == reqs[r].email  old == reqs[r].account IN
  /\ At(r, "register") /\ CodesLeft /\ accounts[a] = NoAccount
  /\ IF ~Creatable(Without(old), e)
     THEN UNCHANGED <<accounts, codes, sessions>>
     ELSE /\ accounts' = CreateMerchant(Without(old), a, e)
          /\ codes' = CreateCode([k \in Codes |->
                                  IF codes[k].account = old /\ old # Nobody
                                  THEN [codes[k] EXCEPT !.stored = FALSE]
                                  ELSE codes[k]], e, "registration", a)
          /\ sessions' = [s \in Sessions |->
                            IF sessions[s].account = old /\ old # Nobody
                            THEN [sessions[s] EXCEPT !.state = "deleted"]
                            ELSE sessions[s]]
  /\ Finish(r)
  /\ UNCHANGED compared
-----------------------------------------------------------------------------
\* Requests for a code: the account and the cooldown are read before the
\* challenge is inserted.
Cooled(e, purpose) == Latest(e, purpose) # 0 => codes[Latest(e, purpose)].age # "recent"

WillIssue(r, purpose, e, a) ==
  /\ At(r, "idle")
  /\ Goto(r, [Idle EXCEPT !.pc = "issue", !.purpose = purpose, !.email = e,
                          !.account = a])
  /\ UNCHANGED <<accounts, codes, sessions, compared>>

ResendRegistrationOtp(r, e) ==
  /\ Stored(Owner(e)) /\ ~accounts[Owner(e)].verified
  /\ Cooled(e, "registration")
  /\ WillIssue(r, "registration", e, Owner(e))

RequestPasswordReset(r, e) ==
  /\ Stored(Owner(e)) /\ accounts[Owner(e)].verified
  /\ Cooled(e, "password_reset")
  /\ WillIssue(r, "password_reset", e, Owner(e))

RequestChangePasswordOtp(r, a) ==
  /\ Cooled(accounts[a].email, "change_password")
  /\ WillIssue(r, "change_password", accounts[a].email, a)

\* No cooldown; the new address must be free.
RequestChangeEmailOtp(r, a, e) ==
  /\ Owner(e) \in {Nobody, a}
  /\ WillIssue(r, "change_email", e, a)

IssueWrite(r) ==
  /\ At(r, "issue") /\ CodesLeft
  /\ codes' = CreateCode(codes, reqs[r].email, reqs[r].purpose, reqs[r].account)
  /\ Finish(r)
  /\ UNCHANGED <<accounts, sessions, compared>>
-----------------------------------------------------------------------------
\* Requests that enter a code: the account is read and checked, ...
WillFind(r, purpose, e, a, s) ==
  /\ At(r, "idle")
  /\ Goto(r, [Idle EXCEPT !.pc = "find", !.purpose = purpose, !.email = e,
                          !.account = a, !.session = s])
  /\ UNCHANGED <<accounts, codes, sessions, compared>>

VerifyRegistrationOtp(r, e) ==
  /\ Stored(Owner(e)) /\ ~accounts[Owner(e)].verified
  /\ WillFind(r, "registration", e, Owner(e), "none")

ResetPassword(r, e) ==
  /\ Stored(Owner(e))
  /\ WillFind(r, "password_reset", e, Owner(e), "none")

ChangePassword(r, a, s) == WillFind(r, "change_password", accounts[a].email, a, s)

ConfirmChangeEmail(r, a, e) == WillFind(r, "change_email", e, a, "none")

\* ... then the latest challenge of the address is found; the code of challenge
\* k was entered. A change of address wants a challenge of the same account.
FindCode(r, k) ==
  LET q == reqs[r]
      latest == Latest(q.email, q.purpose)
  IN
  /\ At(r, "find")
  /\ IF /\ latest # 0
        /\ q.purpose = "change_email" => codes[latest].account = q.account
     THEN Goto(r, [q EXCEPT !.pc = "count", !.code = latest, !.entered = k])
     ELSE Finish(r)
  /\ UNCHANGED <<accounts, codes, sessions, compared>>

\* Mutant: the counter is read with the challenge, before it is incremented.
CountStale(r) ==
  LET k == reqs[r].code
      attempts == IF codes[k].stored THEN codes[k].attempts ELSE 0
  IN
  /\ At(r, "count")
  /\ codes' = IncrementAttempts(k)
  /\ compared' = [compared EXCEPT
        ![k] = IF codes[k].stored /\ attempts <= MaxAttempts THEN @ + 1 ELSE @]
  /\ IF attempts <= MaxAttempts /\ reqs[r].entered = k
     THEN Goto(r, [reqs[r] EXCEPT !.pc = "apply"]) ELSE Finish(r)
  /\ UNCHANGED <<accounts, sessions>>

\* ... count the attempt, commit, compare ...
Count(r) ==
  LET k == reqs[r].code IN
  /\ At(r, "count")
  /\ codes' = IncrementAttempts(k)
  /\ compared' = [compared EXCEPT
        ![k] = IF Incremented(k) \in 1..MaxAttempts THEN @ + 1 ELSE @]
  /\ IF Incremented(k) <= MaxAttempts /\ reqs[r].entered = k
     THEN Goto(r, [reqs[r] EXCEPT !.pc = "apply"]) ELSE Finish(r)
  /\ UNCHANGED <<accounts, sessions>>

\* ... and, when it was right, do what the code was for.
Applying(r, purpose) == At(r, "apply") /\ reqs[r].purpose = purpose
UsedUp(r) == InvalidateCodes(Consume(codes, reqs[r].code), reqs[r].email, reqs[r].purpose)

Activate(r) ==
  /\ Applying(r, "registration") /\ LogSecurityEvent(reqs[r].account)
  /\ codes' = UsedUp(r)
  /\ accounts' = VerifyMerchantEmail(reqs[r].account)
  /\ Finish(r)
  /\ UNCHANGED <<sessions, compared>>

\* The new password of account a; a session may be kept.
WithNewPassword(r, a, kept) ==
  /\ LogSecurityEvent(a)
  /\ codes' = UsedUp(r)
  /\ accounts' = UpdateMerchant(a, [accounts[a] EXCEPT !.password = @ + 1])
  /\ sessions' = InvalidateAllSessions(a, kept)
  /\ Finish(r)
  /\ UNCHANGED compared

SetPassword(r)  == /\ Applying(r, "password_reset")
                   /\ WithNewPassword(r, reqs[r].account, "none")
SwapPassword(r) == /\ Applying(r, "change_password")
                   /\ WithNewPassword(r, reqs[r].account, reqs[r].session)

\* The address must still be free; only the challenge itself is used up.
SwapEmail(r) ==
  LET a == reqs[r].account IN
  /\ Applying(r, "change_email") /\ LogSecurityEvent(a)
  /\ Owner(reqs[r].email) \in {Nobody, a}
  /\ codes' = Consume(codes, reqs[r].code)
  /\ accounts' = UpdateMerchant(a, [accounts[a] EXCEPT !.email = reqs[r].email,
                                                       !.verified = TRUE])
  /\ Finish(r)
  /\ UNCHANGED <<sessions, compared>>

\* Refused: the account is gone, the address taken, the new password too weak.
Refuse(r) ==
  LET a == reqs[r].account IN
  /\ At(r, "apply")
  /\ \/ ~LogSecurityEvent(a)
     \/ Applying(r, "change_email") /\ Owner(reqs[r].email) \notin {Nobody, a}
     \/ Applying(r, "password_reset") \/ Applying(r, "change_password")
  /\ Finish(r)
  /\ UNCHANGED <<accounts, codes, sessions, compared>>
-----------------------------------------------------------------------------
\* login_merchant: the password is checked (it takes a while) before the
\* session is inserted.
LoginRead(r, e) ==
  /\ At(r, "idle") /\ Owner(e) # Nobody /\ accounts[Owner(e)].verified
  /\ Goto(r, [Idle EXCEPT !.pc = "login", !.account = Owner(e),
                           !.password = accounts[Owner(e)].password])
  /\ UNCHANGED <<accounts, codes, sessions, compared>>

LoginWrite(r, s) ==
  /\ At(r, "login") /\ sessions[s] = NoSession /\ LogSecurityEvent(reqs[r].account)
  /\ sessions' = CreateSession(s, reqs[r].account, reqs[r].password)
  /\ Finish(r)
  /\ UNCHANGED <<accounts, codes, compared>>

Logout(s) ==
  /\ sessions' = InvalidateSession(s)
  /\ UNCHANGED <<accounts, codes, reqs, compared>>

\* Time: a session ends after its seven days; a challenge outlives the resend
\* cooldown, then expires, never before an older one.
SessionEnds(s) == ValidSession(s) /\ Logout(s)

Age(k) ==
  /\ codes[k].stored /\ codes[k].age # "expired"
  /\ \A j \in 1..(k - 1) : codes[j].stored => codes[j].age = "expired"
                              \/ (codes[k].age = "recent" /\ codes[j].age # "recent")
  /\ codes' = [codes EXCEPT ![k].age = IF @ = "recent" THEN "old" ELSE "expired"]
  /\ UNCHANGED <<accounts, sessions, reqs, compared>>
-----------------------------------------------------------------------------
\* The routes: what a request brings, and who may send it.
Entries == {0} \cup Codes
ApiRegister(r)       == \E e \in Emails : RegisterRead(r, e)
ApiVerifyEmail(r)    == \E e \in Emails : VerifyRegistrationOtp(r, e)
ApiResendOtp(r)      == \E e \in Emails : ResendRegistrationOtp(r, e)
ApiLogin(r)          == \E e \in Emails : LoginRead(r, e)
ApiLogout(s)         == RequireAuth(s) /\ Logout(s)
ApiForgotPassword(r) == \E e \in Emails : RequestPasswordReset(r, e)
ApiResetPassword(r)  == \E e \in Emails : ResetPassword(r, e)
ApiChangeEmailRequest(r) ==
  \E s \in Sessions, e \in Emails :
    RequireAuth(s) /\ RequestChangeEmailOtp(r, ResolveSession(s), e)
ApiChangeEmailConfirm(r) ==
  \E s \in Sessions, e \in Emails :
    RequireAuth(s) /\ ConfirmChangeEmail(r, ResolveSession(s), e)
ApiChangePasswordRequest(r) ==
  \E s \in Sessions : RequireAuth(s) /\ RequestChangePasswordOtp(r, ResolveSession(s))
ApiChangePasswordConfirm(r) ==
  \E s \in Sessions : RequireAuth(s) /\ ChangePassword(r, ResolveSession(s), s)

Route(r) ==
  \/ ApiRegister(r) \/ ApiVerifyEmail(r) \/ ApiResendOtp(r) \/ ApiLogin(r)
  \/ ApiForgotPassword(r) \/ ApiResetPassword(r)
  \/ ApiChangeEmailRequest(r) \/ ApiChangeEmailConfirm(r)
  \/ ApiChangePasswordRequest(r) \/ ApiChangePasswordConfirm(r)

Continue(r) ==
  \/ \E a \in Accounts : RegisterWrite(r, a)
  \/ \E s \in Sessions : LoginWrite(r, s)
  \/ \E k \in Entries : FindCode(r, k)
  \/ IssueWrite(r) \/ Count(r) \/ Activate(r) \/ SetPassword(r) \/ SwapPassword(r)
  \/ SwapEmail(r) \/ Refuse(r)

Next ==
  /\ \/ \E r \in Requests : Route(r) \/ Continue(r)
     \/ \E s \in Sessions : ApiLogout(s) \/ SessionEnds(s)
     \/ \E k \in Codes : Age(k)
  /\ served' = served + Cardinality({r \in Requests : At(r, "idle") /\ reqs'[r] # Idle})
  /\ served' <= MaxRequests

Spec == Init /\ [][Next]_vars
=============================================================================
