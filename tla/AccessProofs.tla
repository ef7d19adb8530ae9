------------------------------ MODULE AccessProofs ------------------------------
(***************************************************************************)
(* Proofs about who gets through: the accounts of MerchantAccounts, then   *)
(* the guards in memory of RequestGuards.  For any number of accounts,     *)
(* codes and requests a code is compared with at most MaxAttempts entries, *)
(* an open session goes with its account's password, and a verified        *)
(* account is never taken from its owner.  For any number of threads and   *)
(* tokens, any window, limit and lifetime, a stream token opens one        *)
(* stream, in its lifetime, and the rate limit is exact up to the wait for *)
(* the lock.                                                               *)
(***************************************************************************)
EXTENDS MerchantAccountsProps, RequestGuardsProps, FiniteSetTheorems, SequenceTheorems,
        WellFoundedInduction, TLAPS

Purposes  == {"registration", "password_reset", "change_password", "change_email"}
Addresses == Emails \cup {"none"}
Owners    == Accounts \cup {Nobody}

AccountRows == [stored : BOOLEAN, email : Addresses, verified : BOOLEAN, password : Nat]
CodeRows == [stored : BOOLEAN, email : Addresses, purpose : Purposes \cup {"none"},
             account : Owners, used : BOOLEAN, attempts : Nat,
             age : {"recent", "old", "expired"}]
RequestRows ==
  [pc : {"idle", "register", "issue", "find", "count", "apply", "login"},
   purpose : Purposes \cup {"none"}, email : Addresses, account : Owners,
   code : 0..MaxCodes, entered : 0..MaxCodes, password : Nat,
   session : Sessions \cup {"none"}]

Types == /\ accounts \in [Accounts -> AccountRows]
         /\ codes \in [Codes -> CodeRows]
         /\ reqs \in [Requests -> RequestRows]
         /\ compared \in [Codes -> Nat]

\* A code that has been created keeps its purpose, whatever becomes of it.
Made(k) == codes[k].purpose # "none"

\* Codes are numbered without gaps, so that a new one takes a fresh number.
Numbered ==
  /\ \E n \in 0..MaxCodes : \A k \in Codes : Made(k) <=> k <= n
  /\ \A k \in Codes : ~Made(k) => codes[k] = NoCode

\* What a request will insert or count has a purpose, and is a code that exists.
Aimed(q) ==
  /\ q.pc \in {"issue", "find"} => q.purpose # "none"
  /\ q.pc \in {"count", "apply"} => q.purpose # "none" /\ q.code \in Codes /\ Made(q.code)

\* Every comparison was counted before it was made.
Counted(k) == compared[k] <= codes[k].attempts /\ compared[k] <= MaxAttempts

CodeInv == /\ Types /\ Numbered
           /\ \A r \in Requests : Aimed(reqs[r])
           /\ \A k \in Codes : Counted(k)

-------------------------------------------------------------------------------
LEMMA InitCodes == Init => CodeInv
<1> SUFFICES ASSUME Init PROVE CodeInv
  OBVIOUS
<1>1. MaxCodes \in Nat /\ MaxAttempts \in Nat
  BY AccountsAssumption
<1>2. Types
  BY <1>1 DEF Init, Types, AccountRows, CodeRows, RequestRows, NoAccount, NoCode, Idle,
              Addresses, Owners, Codes
<1>3. \A k \in Codes : codes[k] = NoCode /\ ~Made(k)
  BY DEF Init, Made, NoCode
<1>4. Numbered
  <2>1. 0 \in 0..MaxCodes /\ \A k \in Codes : Made(k) <=> k <= 0
    BY <1>1, <1>3 DEF Codes
  <2> QED BY <1>3, <2>1 DEF Numbered
<1>5. \A r \in Requests : Aimed(reqs[r])
  BY DEF Init, Aimed, Idle
<1>6. \A k \in Codes : Counted(k)
  BY <1>1, <1>3 DEF Init, Counted, NoCode
<1> QED BY <1>2, <1>4, <1>5, <1>6 DEF CodeInv

LEMMA OwnerType == \A e : Owner(e) \in Owners
BY DEF Owner, Owners, Stored

\* A set of codes has a latest one, as ORDER BY id DESC LIMIT 1 supposes.
LEMMA LatestCode ==
  ASSUME NEW T, T \subseteq Codes, T # {}
  PROVE  \E k \in T : \A j \in T : j <= k
<1> DEFINE R == OpToRel(<, Nat)
           Later == {MaxCodes - k : k \in T}
<1>1. \A k \in T : k \in Nat /\ MaxCodes - k \in Nat /\ MaxCodes - k \in Later
  BY AccountsAssumption DEF Codes
<1>2. IsWellFoundedOn(R, Nat) /\ \A x, y \in Nat : y < x => <<y, x>> \in R
  BY NatLessThanWellFounded DEF OpToRel
<1>3. Later \subseteq Nat /\ Later # {}
  BY <1>1
<1> HIDE DEF R
<1>4. PICK x \in Later : \A y \in Later : ~(<<y, x>> \in R)
  BY <1>2, <1>3, WFMin, Zenon
<1>5. PICK k \in T : x = MaxCodes - k
  OBVIOUS
<1>6. ASSUME NEW j \in T PROVE j <= k
  <2>1. MaxCodes - j \in Later /\ ~(MaxCodes - j < MaxCodes - k)
    BY <1>1, <1>2, <1>4, <1>5
  <2> QED BY <1>1, <2>1, AccountsAssumption DEF Codes
<1> QED BY <1>6

LEMMA LatestIsMade ==
  ASSUME NEW e, NEW p \in Purposes, Latest(e, p) # 0
  PROVE  Latest(e, p) \in Codes /\ Made(Latest(e, p))
<1>1. \A k \in Open(e, p) : k \in Codes /\ Made(k)
  BY DEF Open, Made, Purposes
<1>2. Open(e, p) # {}
  BY DEF Latest
<1>3. \E k \in Open(e, p) : \A j \in Open(e, p) : j <= k
  BY <1>1, <1>2, LatestCode
<1>4. Latest(e, p) \in Open(e, p)
  BY <1>2, <1>3 DEF Latest
<1> QED BY <1>1, <1>4

-------------------------------------------------------------------------------
(* What the steps do to the table of codes.                                    *)

\* Rows change in other columns than their purpose and their counter.
Retouched(cs, ds) ==
  /\ ds \in [Codes -> CodeRows]
  /\ \A k \in Codes : /\ ds[k].purpose = cs[k].purpose /\ ds[k].attempts = cs[k].attempts
                      /\ cs[k].purpose = "none" => ds[k] = cs[k]

\* A step of request r that leaves the comparisons alone.
LEMMA RetouchStep ==
  ASSUME CodeInv, Retouched(codes, codes'), compared' = compared,
         accounts' \in [Accounts -> AccountRows],
         NEW r \in Requests, NEW q \in RequestRows, Goto(r, q), Aimed(q)
  PROVE  CodeInv'
<1>1. Types'
  BY DEF CodeInv, Types, Retouched, Goto
<1>2. \A k \in Codes : Made(k)' <=> Made(k)
  BY DEF Retouched, Made
<1>3. Numbered'
  BY <1>2 DEF CodeInv, Numbered, Retouched, Made
<1>4. ASSUME NEW t \in Requests PROVE Aimed(reqs[t])'
  <2>1. reqs'[t] = q \/ reqs'[t] = reqs[t]
    BY DEF CodeInv, Types, Goto
  <2>2. Aimed(reqs[t])
    BY DEF CodeInv
  <2> QED BY <1>2, <2>1, <2>2 DEF Aimed
<1>5. ASSUME NEW k \in Codes PROVE Counted(k)'
  BY DEF CodeInv, Counted, Retouched
<1> QED BY <1>1, <1>3, <1>4, <1>5 DEF CodeInv

LEMMA IdleIsARequest == Idle \in RequestRows /\ \A q : q = Idle => Aimed(q)
BY AccountsAssumption DEF Idle, RequestRows, Aimed, Owners, Addresses

LEMMA Untouched == CodeInv => Retouched(codes, codes)
BY DEF CodeInv, Types, Retouched

\* Requests that only read, or write other tables.
LEMMA ReadStep ==
  ASSUME CodeInv, codes' = codes, compared' = compared,
         accounts' \in [Accounts -> AccountRows],
         NEW r \in Requests, NEW q \in RequestRows, Goto(r, q), Aimed(q)
  PROVE  CodeInv'
BY Untouched, RetouchStep

\* create_otp_challenge numbers the code after the ones there are.
LEMMA FreshNumber ==
  ASSUME CodeInv, CodesLeft
  PROVE  LET k == Cardinality({j \in Codes : codes[j] # NoCode}) + 1 IN
         k \in Codes /\ ~Made(k) /\ \A j \in Codes : Made(j) <=> j <= k - 1
<1>1. PICK n \in 0..MaxCodes : \A k \in Codes : Made(k) <=> k <= n
  BY DEF CodeInv, Numbered
<1>2. ASSUME NEW j \in Codes PROVE codes[j] # NoCode <=> j <= n
  <2>1. ~Made(j) => codes[j] = NoCode
    BY DEF CodeInv, Numbered
  <2>2. codes[j] = NoCode => ~Made(j)
    BY DEF Made, NoCode
  <2> QED BY <1>1, <2>1, <2>2
<1>3. {j \in Codes : codes[j] # NoCode} = 1..n
  BY <1>2, AccountsAssumption DEF Codes
<1>4. Cardinality(1..n) = n
  BY FS_Interval, AccountsAssumption
<1>5. n < MaxCodes
  BY <1>2, AccountsAssumption DEF CodesLeft, Codes
<1> DEFINE k == Cardinality({j \in Codes : codes[j] # NoCode}) + 1
<1>6. k = n + 1
  BY <1>3, <1>4
<1> HIDE DEF k
<1>7. k \in Codes /\ ~Made(k) /\ \A j \in Codes : Made(j) <=> j <= k - 1
  BY <1>1, <1>5, <1>6, AccountsAssumption DEF Codes
<1> QED BY <1>7 DEF k

LEMMA CreateStep ==
  ASSUME CodeInv, CodesLeft, NEW cs, Retouched(codes, cs), compared' = compared,
         accounts' \in [Accounts -> AccountRows],
         NEW e \in Addresses, NEW p \in Purposes, NEW a \in Owners,
         codes' = CreateCode(cs, e, p, a),
         NEW r \in Requests, Finish(r)
  PROVE  CodeInv'
<1> DEFINE row == [NoCode EXCEPT !.stored = TRUE, !.email = e, !.purpose = p, !.account = a]
           k == Cardinality({j \in Codes : codes[j] # NoCode}) + 1
<1>1. row \in CodeRows /\ row.purpose = p /\ row.attempts = 0 /\ p # "none"
  BY DEF NoCode, CodeRows, Purposes
<1>2. codes' = [cs EXCEPT ![k] = row]
  BY DEF CreateCode
<1>3. k \in Codes /\ ~Made(k) /\ \A j \in Codes : Made(j) <=> j <= k - 1
  BY FreshNumber
<1> HIDE DEF row, k
<1>4. /\ codes' \in [Codes -> CodeRows]
      /\ \A j \in Codes : codes'[j] = IF j = k THEN row ELSE cs[j]
  BY <1>1, <1>2, <1>3 DEF Retouched
<1>5. \A j \in Codes : Made(j)' <=> j <= k
  BY <1>1, <1>3, <1>4, AccountsAssumption DEF Retouched, Made, Codes
<1>6. Numbered'
  <2>1. k \in 0..MaxCodes
    BY <1>3, AccountsAssumption DEF Codes
  <2>2. ASSUME NEW j \in Codes, ~Made(j)' PROVE codes'[j] = NoCode
    BY <1>1, <1>4, <2>2 DEF CodeInv, Numbered, Retouched, Made
  <2> QED BY <1>5, <2>1, <2>2 DEF Numbered
<1>7. Types'
  BY <1>4, IdleIsARequest DEF CodeInv, Types, Finish, Goto
<1>8. ASSUME NEW t \in Requests PROVE Aimed(reqs[t])'
  <2>1. reqs'[t] = Idle \/ reqs'[t] = reqs[t]
    BY DEF CodeInv, Types, Finish, Goto
  <2>2. Aimed(reqs[t])
    BY DEF CodeInv
  <2>3. \A j \in Codes : Made(j) => Made(j)'
    BY <1>3, <1>5, AccountsAssumption DEF Codes
  <2> QED BY <2>1, <2>2, <2>3 DEF Aimed, Idle
<1>9. ASSUME NEW j \in Codes PROVE Counted(j)'
  <2>1. CASE j = k
    <3>1. codes[k].attempts = 0
      BY <1>3 DEF CodeInv, Numbered, NoCode
    <3> QED BY <1>1, <1>3, <1>4, <2>1, <3>1 DEF CodeInv, Counted
  <2>2. CASE j # k
    BY <1>4, <2>2 DEF CodeInv, Counted, Retouched
  <2> QED BY <2>1, <2>2
<1> QED BY <1>6, <1>7, <1>8, <1>9 DEF CodeInv

\* The counter is raised and read back before the comparison.
LEMMA CountStep ==
  ASSUME CodeInv, NEW r \in Requests, Count(r)
  PROVE  CodeInv'
<1> DEFINE k == reqs[r].code
<1>1. k \in Codes /\ Made(k) /\ reqs[r].purpose # "none" /\ reqs[r] \in RequestRows
  BY DEF CodeInv, Types, Aimed, Count, At
<1>2. codes[k] \in CodeRows /\ codes[k].attempts \in Nat /\ compared[k] \in Nat
  BY <1>1 DEF CodeInv, Types, CodeRows
<1> HIDE DEF k
<1>3. /\ codes' \in [Codes -> CodeRows]
      /\ \A j \in Codes : /\ codes'[j].purpose = codes[j].purpose
                          /\ j # k => codes'[j] = codes[j]
      /\ codes'[k].attempts = IF codes[k].stored THEN codes[k].attempts + 1
                              ELSE codes[k].attempts
  <2>1. codes' = IncrementAttempts(k)
    BY DEF Count, k
  <2> DEFINE n == IF codes[k].stored THEN codes[k].attempts + 1 ELSE codes[k].attempts
  <2>2. codes' = [codes EXCEPT ![k].attempts = n]
    BY <2>1 DEF IncrementAttempts
  <2>3. n \in Nat
    BY <1>2
  <2> HIDE DEF n
  <2>4. [codes[k] EXCEPT !.attempts = n] \in CodeRows
    BY <1>2, <2>3 DEF CodeRows
  <2> QED BY <1>1, <1>2, <2>2, <2>3, <2>4 DEF CodeInv, Types, CodeRows, n
<1>4. /\ compared' \in [Codes -> Nat]
      /\ \A j \in Codes \ {k} : compared'[j] = compared[j]
      /\ \/ compared'[k] = compared[k]
         \/ /\ codes[k].stored /\ codes[k].attempts + 1 <= MaxAttempts
            /\ compared'[k] = compared[k] + 1
  <2>1. compared' = [compared EXCEPT ![k] = IF Incremented(k) \in 1..MaxAttempts
                                            THEN @ + 1 ELSE @]
    BY DEF Count, k
  <2>2. Incremented(k) \in 1..MaxAttempts =>
          codes[k].stored /\ codes[k].attempts + 1 <= MaxAttempts
    BY AccountsAssumption DEF Incremented
  <2> QED BY <1>1, <1>2, <2>1, <2>2 DEF CodeInv, Types
<1>5. PICK q \in RequestRows : Goto(r, q) /\ Aimed(q)
  <2> DEFINE q == [reqs[r] EXCEPT !.pc = "apply"]
  <2>1. Goto(r, q) \/ Goto(r, Idle)
    BY DEF Count, Finish
  <2>2. q \in RequestRows /\ q.pc = "apply" /\ q.purpose = reqs[r].purpose /\ q.code = k
    BY <1>1 DEF RequestRows, k
  <2> HIDE DEF q
  <2>3. Aimed(q)
    BY <1>1, <2>2 DEF Aimed
  <2> QED BY <2>1, <2>2, <2>3, IdleIsARequest
<1>6. \A j \in Codes : Made(j)' <=> Made(j)
  BY <1>3 DEF Made
<1>7. Types'
  BY <1>3, <1>4, <1>5 DEF CodeInv, Types, Goto, Count
<1>8. Numbered'
  BY <1>1, <1>3, <1>6 DEF CodeInv, Numbered
<1>9. ASSUME NEW t \in Requests PROVE Aimed(reqs[t])'
  <2>1. reqs'[t] = q \/ reqs'[t] = reqs[t]
    BY <1>5 DEF CodeInv, Types, Goto
  <2>2. Aimed(reqs[t])
    BY DEF CodeInv
  <2> QED BY <1>5, <1>6, <2>1, <2>2 DEF Aimed
<1>10. ASSUME NEW j \in Codes PROVE Counted(j)'
  <2>1. Counted(j) /\ MaxAttempts \in Nat
    BY AccountsAssumption DEF CodeInv
  <2>2. CASE j # k
    BY <1>3, <1>4, <2>1, <2>2 DEF Counted
  <2>3. CASE j = k
    BY <1>2, <1>3, <1>4, <2>1, <2>3 DEF Counted
  <2> QED BY <2>2, <2>3
<1> QED BY <1>7, <1>8, <1>9, <1>10 DEF CodeInv

-------------------------------------------------------------------------------
(* The requests.                                                               *)

LEMMA WillIssueStep ==
  ASSUME CodeInv, NEW r \in Requests, NEW p \in Purposes, NEW e \in Addresses,
         NEW a \in Owners, WillIssue(r, p, e, a)
  PROVE  CodeInv'
<1> DEFINE q == [Idle EXCEPT !.pc = "issue", !.purpose = p, !.email = e, !.account = a]
<1>1. q \in RequestRows /\ q.pc = "issue" /\ q.purpose = p
  BY IdleIsARequest DEF RequestRows
<1>2. Goto(r, q) /\ UNCHANGED <<accounts, codes, compared>>
  BY DEF WillIssue
<1> HIDE DEF q
<1>3. Aimed(q)
  BY <1>1 DEF Aimed, Purposes
<1> QED BY <1>1, <1>2, <1>3, ReadStep DEF CodeInv, Types

LEMMA WillFindStep ==
  ASSUME CodeInv, NEW r \in Requests, NEW p \in Purposes, NEW e \in Addresses,
         NEW a \in Owners, NEW s \in Sessions \cup {"none"}, WillFind(r, p, e, a, s)
  PROVE  CodeInv'
<1> DEFINE q == [Idle EXCEPT !.pc = "find", !.purpose = p, !.email = e, !.account = a,
                             !.session = s]
<1>1. q \in RequestRows /\ q.pc = "find" /\ q.purpose = p
  BY IdleIsARequest DEF RequestRows
<1>2. Goto(r, q) /\ UNCHANGED <<accounts, codes, compared>>
  BY DEF WillFind
<1> HIDE DEF q
<1>3. Aimed(q)
  BY <1>1 DEF Aimed, Purposes
<1> QED BY <1>1, <1>2, <1>3, ReadStep DEF CodeInv, Types

\* The challenge that is found has been created.
LEMMA FindCodeStep ==
  ASSUME CodeInv, NEW r \in Requests, NEW k \in Entries, FindCode(r, k)
  PROVE  CodeInv'
<1> DEFINE l == Latest(reqs[r].email, reqs[r].purpose)
           q == [reqs[r] EXCEPT !.pc = "count", !.code = l, !.entered = k]
<1>1. reqs[r] \in RequestRows /\ reqs[r].purpose # "none"
  BY DEF FindCode, At, CodeInv, Types, Aimed
<1>2. UNCHANGED <<accounts, codes, compared>>
  BY DEF FindCode
<1>3. CASE Finish(r)
  BY <1>2, <1>3, IdleIsARequest, ReadStep DEF Finish, CodeInv, Types
<1>4. CASE l # 0 /\ Goto(r, q)
  <2>1. l \in Codes /\ Made(l)
    BY <1>1, <1>4, LatestIsMade DEF RequestRows
  <2>2. l \in 0..MaxCodes /\ k \in 0..MaxCodes
    BY <2>1, AccountsAssumption DEF Codes, Entries
  <2> HIDE DEF l
  <2>3. q \in RequestRows /\ q.pc = "count" /\ q.purpose = reqs[r].purpose /\ q.code = l
    BY <1>1, <2>2 DEF RequestRows
  <2> HIDE DEF q
  <2>4. Aimed(q)
    BY <1>1, <2>1, <2>3 DEF Aimed
  <2> QED BY <1>2, <1>4, <2>3, <2>4, ReadStep DEF CodeInv, Types
<1> QED BY <1>3, <1>4 DEF FindCode

LEMMA ResolvedType ==
  ASSUME CodeInv, NEW s, RequireAuth(s)
  PROVE  ResolveSession(s) \in Accounts /\ accounts[ResolveSession(s)].email \in Addresses
BY DEF RequireAuth, ResolveSession, Stored, CodeInv, Types, AccountRows

LEMMA RouteStep ==
  ASSUME CodeInv, NEW r \in Requests, Route(r)
  PROVE  CodeInv'
<1>0. /\ Emails \subseteq Addresses /\ Accounts \subseteq Owners
      /\ "none" \in Sessions \cup {"none"} /\ Sessions \subseteq Sessions \cup {"none"}
      /\ \A e : Owner(e) \in Owners
  BY OwnerType DEF Addresses, Owners
<1>1. CASE ApiRegister(r)
  <2>1. PICK e \in Emails : RegisterRead(r, e)
    BY <1>1 DEF ApiRegister
  <2> DEFINE q == [Idle EXCEPT !.pc = "register", !.email = e, !.account = Owner(e)]
  <2>2. Goto(r, q) /\ UNCHANGED <<accounts, codes, compared>>
    BY <2>1 DEF RegisterRead
  <2>3. q \in RequestRows /\ q.pc = "register"
    <3>1. Emails \subseteq Addresses /\ Owner(e) \in Owners
      BY <1>0
    <3> QED BY <3>1, IdleIsARequest DEF RequestRows
  <2> HIDE DEF q
  <2>4. Aimed(q)
    BY <2>3 DEF Aimed
  <2> QED BY <2>2, <2>3, <2>4, ReadStep DEF CodeInv, Types
<1>2. CASE ApiLogin(r)
  <2>1. PICK e \in Emails : LoginRead(r, e)
    BY <1>2 DEF ApiLogin
  <2> DEFINE q == [Idle EXCEPT !.pc = "login", !.account = Owner(e),
                               !.password = accounts[Owner(e)].password]
  <2>2. Goto(r, q) /\ UNCHANGED <<accounts, codes, compared>> /\ Owner(e) # Nobody
    BY <2>1 DEF LoginRead
  <2>3. accounts[Owner(e)].password \in Nat
    BY <1>0, <2>2 DEF Owners, CodeInv, Types, AccountRows
  <2>4. q \in RequestRows /\ q.pc = "login"
    <3>1. Owner(e) \in Owners
      BY <1>0
    <3> QED BY <2>3, <3>1, IdleIsARequest DEF RequestRows
  <2> HIDE DEF q
  <2>5. Aimed(q)
    BY <2>4 DEF Aimed
  <2> QED BY <2>2, <2>4, <2>5, ReadStep DEF CodeInv, Types
<1>3. CASE ApiVerifyEmail(r) \/ ApiResetPassword(r)
  BY <1>0, <1>3, WillFindStep
  DEF ApiVerifyEmail, ApiResetPassword, VerifyRegistrationOtp, ResetPassword, Purposes
<1>4. CASE ApiResendOtp(r) \/ ApiForgotPassword(r)
  BY <1>0, <1>4, WillIssueStep
  DEF ApiResendOtp, ApiForgotPassword, ResendRegistrationOtp, RequestPasswordReset, Purposes
<1>5. CASE ApiChangeEmailRequest(r) \/ ApiChangePasswordRequest(r)
  BY <1>0, <1>5, ResolvedType, WillIssueStep
  DEF ApiChangeEmailRequest, ApiChangePasswordRequest, RequestChangeEmailOtp,
      RequestChangePasswordOtp, Purposes
<1>6. CASE ApiChangeEmailConfirm(r) \/ ApiChangePasswordConfirm(r)
  BY <1>0, <1>6, ResolvedType, WillFindStep
  DEF ApiChangeEmailConfirm, ApiChangePasswordConfirm, ConfirmChangeEmail,
      ChangePassword, Purposes
<1> QED BY <1>1, <1>2, <1>3, <1>4, <1>5, <1>6 DEF Route

-------------------------------------------------------------------------------
LEMMA RegisterWriteStep ==
  ASSUME CodeInv, NEW r \in Requests, NEW a \in Accounts, RegisterWrite(r, a)
  PROVE  CodeInv'
<1> DEFINE e == reqs[r].email
           old == reqs[r].account
           cs == [k \in Codes |-> IF codes[k].account = old /\ old # Nobody
                                  THEN [codes[k] EXCEPT !.stored = FALSE] ELSE codes[k]]
<1>1. Finish(r) /\ compared' = compared /\ CodesLeft /\ e \in Addresses /\ a \in Owners
  BY DEF RegisterWrite, CodeInv, Types, RequestRows, Owners
<1>2. CASE UNCHANGED <<accounts, codes>>
  BY <1>1, <1>2, IdleIsARequest, ReadStep DEF CodeInv, Types, Finish
<1>3. CASE /\ accounts' = CreateMerchant(Without(old), a, e)
           /\ codes' = CreateCode(cs, e, "registration", a)
  <2>1. accounts' \in [Accounts -> AccountRows]
    <3>1. Without(old) \in [Accounts -> AccountRows]
      BY DEF Without, CodeInv, Types, AccountRows
    <3>2. [NoAccount EXCEPT !.stored = TRUE, !.email = e] \in AccountRows
      BY <1>1 DEF NoAccount, AccountRows
    <3> QED BY <1>3, <3>1, <3>2 DEF CreateMerchant
  <2>2. Retouched(codes, cs)
    <3>1. ASSUME NEW k \in Codes
          PROVE  /\ [codes[k] EXCEPT !.stored = FALSE] \in CodeRows
                 /\ [codes[k] EXCEPT !.stored = FALSE].purpose = codes[k].purpose
                 /\ [codes[k] EXCEPT !.stored = FALSE].attempts = codes[k].attempts
                 /\ codes[k].purpose = "none" => codes[k].account = Nobody
      <4>1. codes[k] \in CodeRows
        BY DEF CodeInv, Types
      <4>2. codes[k].purpose = "none" => codes[k] = NoCode
        BY DEF CodeInv, Numbered, Made
      <4>3. NoCode.account = Nobody
        BY DEF NoCode
      <4> QED BY <4>1, <4>2, <4>3 DEF CodeRows
    <3> QED BY <3>1 DEF Retouched, CodeInv, Types
  <2>3. "registration" \in Purposes
    BY DEF Purposes
  <2> HIDE DEF cs, e
  <2> QED BY <1>1, <1>3, <2>1, <2>2, <2>3, CreateStep
<1> QED BY <1>2, <1>3 DEF RegisterWrite

LEMMA IssueWriteStep ==
  ASSUME CodeInv, NEW r \in Requests, IssueWrite(r)
  PROVE  CodeInv'
<1>1. Aimed(reqs[r]) /\ reqs[r] \in RequestRows
  BY DEF CodeInv, Types
<1>2. reqs[r].purpose \in Purposes /\ reqs[r].email \in Addresses /\ reqs[r].account \in Owners
  BY <1>1 DEF IssueWrite, At, Aimed, RequestRows
<1> QED BY <1>2, Untouched, CreateStep DEF IssueWrite, CodeInv, Types

\* Using a code up touches codes that exist.
LEMMA UseUp ==
  ASSUME CodeInv, NEW r \in Requests, At(r, "apply")
  PROVE  Retouched(codes, Consume(codes, reqs[r].code)) /\ Retouched(codes, UsedUp(r))
<1> DEFINE c == reqs[r].code
           ds == Consume(codes, c)
<1>1. c \in Codes /\ Made(c) /\ reqs[r].purpose # "none"
  BY DEF CodeInv, Aimed, At
<1>2. ASSUME NEW row \in CodeRows
      PROVE  /\ [row EXCEPT !.used = TRUE] \in CodeRows
             /\ [row EXCEPT !.used = TRUE].purpose = row.purpose
             /\ [row EXCEPT !.used = TRUE].attempts = row.attempts
  BY DEF CodeRows
<1>3. ds = [codes EXCEPT ![c] = [codes[c] EXCEPT !.used = TRUE]]
  BY DEF Consume
<1>4. Retouched(codes, ds)
  <2> HIDE DEF ds, c
  <2> QED BY <1>1, <1>2, <1>3 DEF Retouched, CodeInv, Types, Made
<1>5. UsedUp(r) = [k \in Codes |-> IF ds[k].email = reqs[r].email /\ ds[k].purpose = reqs[r].purpose
                                   THEN [ds[k] EXCEPT !.used = TRUE] ELSE ds[k]]
  BY DEF UsedUp, InvalidateCodes
<1>6. Retouched(codes, UsedUp(r))
  <2> HIDE DEF ds
  <2> QED BY <1>1, <1>2, <1>4, <1>5 DEF Retouched
<1> QED BY <1>4, <1>6

\* A right code is applied: its request ends, one account changes.
LEMMA ApplyStep ==
  ASSUME CodeInv, NEW r \in Requests, At(r, "apply"), Finish(r), compared' = compared,
         codes' = Consume(codes, reqs[r].code) \/ codes' = UsedUp(r),
         accounts' \in [Accounts -> AccountRows]
  PROVE  CodeInv'
BY UseUp, IdleIsARequest, RetouchStep DEF Finish

LEMMA UpdateType ==
  ASSUME CodeInv, NEW a, LogSecurityEvent(a)
  PROVE  /\ VerifyMerchantEmail(a) \in [Accounts -> AccountRows]
         /\ UpdateMerchant(a, [accounts[a] EXCEPT !.password = @ + 1])
              \in [Accounts -> AccountRows]
         /\ \A e \in Addresses :
              UpdateMerchant(a, [accounts[a] EXCEPT !.email = e, !.verified = TRUE])
                \in [Accounts -> AccountRows]
<1>1. a \in Accounts /\ accounts[a] \in AccountRows /\ accounts \in [Accounts -> AccountRows]
  BY DEF LogSecurityEvent, Stored, CodeInv, Types
<1>2. /\ [accounts[a] EXCEPT !.verified = TRUE] \in AccountRows
      /\ [accounts[a] EXCEPT !.password = @ + 1] \in AccountRows
      /\ \A e \in Addresses :
           [accounts[a] EXCEPT !.email = e, !.verified = TRUE] \in AccountRows
  <2> DEFINE row == accounts[a]
  <2>1. row \in AccountRows
    BY <1>1
  <2> HIDE DEF row
  <2>2. [row EXCEPT !.verified = TRUE] \in AccountRows
    BY <2>1 DEF AccountRows
  <2>3. [row EXCEPT !.password = row.password + 1] \in AccountRows
    <3>1. row.password + 1 \in Nat
      BY <2>1 DEF AccountRows
    <3> QED BY <2>1, <3>1 DEF AccountRows
  <2>4. \A e \in Addresses : [row EXCEPT !.email = e, !.verified = TRUE] \in AccountRows
    BY <2>1 DEF AccountRows
  <2> QED BY <2>2, <2>3, <2>4 DEF row
<1> QED BY <1>1, <1>2 DEF VerifyMerchantEmail, UpdateMerchant

LEMMA ContinueStep ==
  ASSUME CodeInv, NEW r \in Requests, Continue(r)
  PROVE  CodeInv'
<1>1. CASE \E a \in Accounts : RegisterWrite(r, a)
  BY <1>1, RegisterWriteStep
<1>2. CASE (\E s \in Sessions : LoginWrite(r, s)) \/ Refuse(r)
  BY <1>2, IdleIsARequest, ReadStep DEF LoginWrite, Refuse, Finish, CodeInv, Types
<1>3. CASE IssueWrite(r)
  BY <1>3, IssueWriteStep
<1>4. CASE Count(r)
  BY <1>4, CountStep
<1>8. CASE \E k \in Entries : FindCode(r, k)
  BY <1>8, FindCodeStep
<1>5. CASE Activate(r)
  BY <1>5, UpdateType, ApplyStep DEF Activate, Applying
<1>6. CASE SetPassword(r) \/ SwapPassword(r)
  BY <1>6, UpdateType, ApplyStep DEF SetPassword, SwapPassword, WithNewPassword, Applying
<1>7. CASE SwapEmail(r)
  <2>1. reqs[r].email \in Addresses
    BY DEF CodeInv, Types, RequestRows
  <2> QED BY <1>7, <2>1, UpdateType, ApplyStep DEF SwapEmail, Applying
<1> QED BY <1>1, <1>2, <1>3, <1>4, <1>5, <1>6, <1>7, <1>8 DEF Continue

LEMMA AgeStep ==
  ASSUME CodeInv, NEW k \in Codes, Age(k)
  PROVE  CodeInv'
<1> DEFINE age == IF codes[k].age = "recent" THEN "old" ELSE "expired"
           row == [codes[k] EXCEPT !.age = age]
<1>1. codes' = [codes EXCEPT ![k] = row] /\ UNCHANGED <<accounts, reqs, compared>>
  BY DEF Age
<1>2. codes[k] \in CodeRows /\ Made(k)
  BY DEF CodeInv, Types, Age, Numbered, NoCode
<1>3. row \in CodeRows /\ row.purpose = codes[k].purpose /\ row.attempts = codes[k].attempts
  <2>1. age \in {"recent", "old", "expired"}
    OBVIOUS
  <2> HIDE DEF age
  <2> QED BY <1>2, <2>1 DEF CodeRows
<1> HIDE DEF row
<1>4. Retouched(codes, codes')
  BY <1>1, <1>2, <1>3 DEF Retouched, CodeInv, Types, Made
<1>5. \A j \in Codes : Made(j)' <=> Made(j)
  BY <1>4 DEF Retouched, Made
<1>6. Types'
  BY <1>1, <1>4 DEF CodeInv, Types, Retouched
<1>7. Numbered'
  BY <1>4, <1>5 DEF CodeInv, Numbered, Retouched, Made
<1>8. \A t \in Requests : Aimed(reqs[t])'
  BY <1>1, <1>5 DEF CodeInv, Aimed
<1>9. \A j \in Codes : Counted(j)'
  BY <1>1, <1>4 DEF CodeInv, Counted, Retouched
<1> QED BY <1>6, <1>7, <1>8, <1>9 DEF CodeInv

LEMMA NextCodes == CodeInv /\ [Next]_vars => CodeInv'
<1> SUFFICES ASSUME CodeInv, [Next]_vars PROVE CodeInv'
  OBVIOUS
<1>1. ASSUME NEW r \in Requests, Route(r) \/ Continue(r) PROVE CodeInv'
  BY <1>1, RouteStep, ContinueStep
<1>2. CASE \/ \E s \in Sessions : ApiLogout(s) \/ SessionEnds(s)
           \/ UNCHANGED vars
  <2>1. UNCHANGED <<accounts, codes, reqs, compared>>
    BY <1>2 DEF ApiLogout, SessionEnds, Logout, vars
  <2> QED BY <2>1 DEF CodeInv, Types, Numbered, Made, Aimed, Counted
<1>3. ASSUME NEW k \in Codes, Age(k) PROVE CodeInv'
  BY <1>3, AgeStep
<1> QED BY <1>1, <1>2, <1>3 DEF Next

\* OTP_MAX_ATTEMPTS: for any number of accounts, requests and codes a challenge
\* is compared with at most that many entries, because each request reads the
\* counter back in the transaction that raises it, before it compares.
THEOREM AttemptsAreCapped == Spec => []GuessesAreBounded
<1>1. CodeInv => GuessesAreBounded
  BY DEF CodeInv, Counted, GuessesAreBounded
<1> QED BY <1>1, InitCodes, NextCodes, PTL DEF Spec

-------------------------------------------------------------------------------
(* Sessions.  A password changes in the step that ends the sessions opened     *)
(* with the old one, and a new account has the password 0 of an unused row.    *)

SessionRows == [state : {"none", "valid", "invalid", "deleted"}, account : Owners,
                password : Nat, excused : BOOLEAN]

\* An open session is of an account; unless it is excused, of its password.
Current(s) == ValidSession(s) =>
  /\ sessions[s].account \in Accounts
  /\ ~sessions[s].excused => sessions[s].password = accounts[sessions[s].account].password

SessionInv == sessions \in [Sessions -> SessionRows] /\ \A s \in Sessions : Current(s)

LEMMA InitSessions == Init => SessionInv
BY DEF Init, SessionInv, SessionRows, Current, ValidSession, NoSession, Owners

\* A session ends, or becomes excused, while the passwords stay.
LEMMA EndSessions ==
  ASSUME SessionInv, sessions' \in [Sessions -> SessionRows],
         \A s \in Sessions :
           \/ sessions'[s] = sessions[s]
           \/ sessions'[s].state # "valid",
         \A a \in Accounts : accounts'[a].password = accounts[a].password
  PROVE  SessionInv'
BY DEF SessionInv, Current, ValidSession

LEMMA StateTypes ==
  ASSUME SessionInv, NEW s \in Sessions
  PROVE  /\ \A x \in {"none", "valid", "invalid", "deleted"} :
              /\ [sessions[s] EXCEPT !.state = x] \in SessionRows
              /\ [sessions[s] EXCEPT !.state = x].state = x
         /\ [sessions[s] EXCEPT !.excused = TRUE] \in SessionRows
         /\ [sessions[s] EXCEPT !.excused = TRUE].excused
         /\ [sessions[s] EXCEPT !.excused = TRUE].account = sessions[s].account
<1>1. sessions[s] \in SessionRows
  BY DEF SessionInv
<1> QED BY <1>1 DEF SessionRows

LEMMA LogoutStep ==
  ASSUME CodeInv, SessionInv, NEW s \in Sessions, Logout(s)
  PROVE  SessionInv'
<1>1. sessions' = [sessions EXCEPT ![s] = [sessions[s] EXCEPT !.state = "invalid"]]
      /\ accounts' = accounts
  BY DEF Logout, InvalidateSession
<1> QED BY <1>1, StateTypes, EndSessions DEF SessionInv

\* The new session of a login has the password that was checked.
LEMMA LoginStep ==
  ASSUME CodeInv, SessionInv, NEW r \in Requests, NEW s \in Sessions, LoginWrite(r, s)
  PROVE  SessionInv'
<1> DEFINE q == reqs[r]
           row == [state |-> "valid", account |-> q.account, password |-> q.password,
                   excused |-> accounts[q.account].password # q.password]
<1>1. q.account \in Accounts /\ q.password \in Nat
  BY DEF LoginWrite, LogSecurityEvent, Stored, CodeInv, Types, RequestRows
<1>2. sessions' = [sessions EXCEPT ![s] = row] /\ accounts' = accounts
  BY DEF LoginWrite, CreateSession
<1> HIDE DEF q
<1>3. row \in SessionRows
  BY <1>1 DEF SessionRows, Owners
<1>4. row.account \in Accounts /\ (~row.excused => row.password = accounts[row.account].password)
  BY <1>1
<1> HIDE DEF row
<1>5. /\ sessions' \in [Sessions -> SessionRows] /\ sessions'[s] = row
      /\ \A t \in Sessions \ {s} : sessions'[t] = sessions[t]
  BY <1>2, <1>3 DEF SessionInv
<1> QED BY <1>2, <1>4, <1>5 DEF SessionInv, Current, ValidSession

\* The new password of a: its sessions end, but for the one that is kept.
LEMMA NewPasswordStep ==
  ASSUME CodeInv, SessionInv, NEW r \in Requests, NEW a, NEW kept, WithNewPassword(r, a, kept)
  PROVE  SessionInv'
<1>1. a \in Accounts /\ accounts' = [accounts EXCEPT ![a] = [accounts[a] EXCEPT !.password = @ + 1]]
  BY DEF WithNewPassword, LogSecurityEvent, Stored, UpdateMerchant
<1>2. \A b \in Accounts \ {a} : accounts'[b] = accounts[b]
  BY <1>1 DEF CodeInv, Types
<1>3. sessions' = InvalidateAllSessions(a, kept)
  BY DEF WithNewPassword
<1>4. ASSUME NEW s \in Sessions
      PROVE  /\ sessions'[s] \in SessionRows
             /\ \/ sessions'[s] = sessions[s] /\ (sessions[s].account # a \/ ~ValidSession(s))
                \/ sessions'[s].excused /\ sessions'[s].account = sessions[s].account
                     /\ sessions[s].account = a
                \/ sessions'[s].state = "invalid"
  <2>1. sessions[s] \in SessionRows
    BY DEF SessionInv
  <2>2. CASE sessions[s].account # a \/ ~ValidSession(s)
    BY <1>3, <2>1, <2>2 DEF InvalidateAllSessions
  <2>3. CASE ~(sessions[s].account # a \/ ~ValidSession(s)) /\ s = kept
    BY <1>3, <2>3, StateTypes DEF InvalidateAllSessions
  <2>4. CASE ~(sessions[s].account # a \/ ~ValidSession(s)) /\ s # kept
    BY <1>3, <2>4, StateTypes DEF InvalidateAllSessions
  <2> QED BY <2>2, <2>3, <2>4
<1>5. sessions' \in [Sessions -> SessionRows]
  BY <1>3, <1>4 DEF InvalidateAllSessions
<1> QED BY <1>1, <1>2, <1>4, <1>5 DEF SessionInv, Current, ValidSession

\* The other writes to the table of accounts change no password.
LEMMA PasswordStays ==
  ASSUME CodeInv, NEW a \in Accounts, NEW row, UpdateMerchant(a, row) = accounts',
         row.password = accounts[a].password
  PROVE  \A b \in Accounts : accounts'[b].password = accounts[b].password
BY DEF CodeInv, Types, UpdateMerchant

LEMMA CreatedPasswords ==
  ASSUME CodeInv, NEW a \in Accounts, NEW e, NEW old, accounts[a] = NoAccount,
         accounts' = CreateMerchant(Without(old), a, e)
  PROVE  \A b \in Accounts :
           /\ accounts'[b].password = accounts[b].password
           /\ accounts[b].stored /\ accounts[b].verified =>
                accounts'[b].stored /\ accounts'[b].verified
<1> DEFINE new == [NoAccount EXCEPT !.stored = TRUE, !.email = e]
<1>1. new.password = 0 /\ NoAccount.password = 0 /\ ~NoAccount.stored
  BY DEF NoAccount
<1>2. accounts' = [Without(old) EXCEPT ![a] = new]
  BY DEF CreateMerchant
<1> HIDE DEF new
<1>3. ASSUME NEW b \in Accounts
      PROVE  accounts'[b] = IF b = a THEN new
                            ELSE IF b = old /\ ~accounts[b].verified
                                 THEN [accounts[b] EXCEPT !.stored = FALSE] ELSE accounts[b]
  BY <1>2 DEF Without
<1>4. ASSUME NEW b \in Accounts
      PROVE  [accounts[b] EXCEPT !.stored = FALSE].password = accounts[b].password
  BY DEF CodeInv, Types, AccountRows
<1> QED BY <1>1, <1>3, <1>4

\* The step of a registration: rows of sessions only become 'deleted'.
LEMMA RegisterSessions ==
  ASSUME CodeInv, SessionInv, NEW r \in Requests, NEW a \in Accounts, RegisterWrite(r, a)
  PROVE  SessionInv'
<1> DEFINE old == reqs[r].account
<1>1. CASE UNCHANGED <<accounts, codes, sessions>>
  BY <1>1 DEF SessionInv, Current, ValidSession
<1>2. CASE /\ accounts' = CreateMerchant(Without(old), a, reqs[r].email)
           /\ sessions' = [s \in Sessions |-> IF sessions[s].account = old /\ old # Nobody
                                              THEN [sessions[s] EXCEPT !.state = "deleted"]
                                              ELSE sessions[s]]
  <2>1. \A b \in Accounts : accounts'[b].password = accounts[b].password
    BY <1>2, CreatedPasswords DEF RegisterWrite
  <2> HIDE DEF old
  <2>2. \A s \in Sessions : /\ sessions'[s] \in SessionRows
                            /\ sessions'[s] = sessions[s] \/ sessions'[s].state = "deleted"
    BY <1>2, StateTypes DEF SessionInv
  <2>3. sessions' \in [Sessions -> SessionRows]
    BY <1>2, <2>2
  <2> QED BY <2>1, <2>2, <2>3, EndSessions
<1> QED BY <1>1, <1>2 DEF RegisterWrite

LEMMA NextSessions == CodeInv /\ SessionInv /\ [Next]_vars => SessionInv'
<1> SUFFICES ASSUME CodeInv, SessionInv, [Next]_vars PROVE SessionInv'
  OBVIOUS
<1>0. SessionInv /\ UNCHANGED <<accounts, sessions>> => SessionInv'
  BY DEF SessionInv, Current, ValidSession
<1>1. ASSUME NEW r \in Requests, Route(r) PROVE UNCHANGED <<accounts, sessions>>
  BY <1>1 DEF Route, ApiRegister, ApiVerifyEmail, ApiResendOtp, ApiLogin, ApiForgotPassword,
     ApiResetPassword, ApiChangeEmailRequest, ApiChangeEmailConfirm, ApiChangePasswordRequest,
     ApiChangePasswordConfirm, RegisterRead, VerifyRegistrationOtp, ResendRegistrationOtp,
     LoginRead, RequestPasswordReset, ResetPassword, RequestChangeEmailOtp,
     ConfirmChangeEmail, RequestChangePasswordOtp, ChangePassword, WillIssue, WillFind
<1>2. ASSUME NEW r \in Requests, Continue(r) PROVE SessionInv'
  <2>1. CASE \E a \in Accounts : RegisterWrite(r, a)
    BY <2>1, RegisterSessions
  <2>2. CASE \E s \in Sessions : LoginWrite(r, s)
    BY <2>2, LoginStep
  <2>3. CASE IssueWrite(r) \/ Count(r) \/ Refuse(r) \/ \E k \in Entries : FindCode(r, k)
    BY <1>0, <2>3 DEF IssueWrite, Count, Refuse, FindCode
  <2>4. CASE SetPassword(r) \/ SwapPassword(r)
    BY <2>4, NewPasswordStep DEF SetPassword, SwapPassword
  <2>5. CASE Activate(r) \/ SwapEmail(r)
    <3> DEFINE b == reqs[r].account
    <3>1. b \in Accounts /\ sessions' = sessions /\ accounts[b] \in AccountRows
      BY <2>5 DEF Activate, SwapEmail, LogSecurityEvent, Stored, CodeInv, Types
    <3>2. ASSUME NEW row \in AccountRows, NEW e
          PROVE  /\ [row EXCEPT !.verified = TRUE].password = row.password
                 /\ [row EXCEPT !.email = e, !.verified = TRUE].password = row.password
      BY DEF AccountRows
    <3>3. \E row : UpdateMerchant(b, row) = accounts' /\ row.password = accounts[b].password
      <4>1. CASE Activate(r)
        BY <3>1, <3>2, <4>1, Zenon DEF Activate, VerifyMerchantEmail
      <4>2. CASE SwapEmail(r)
        BY <3>1, <3>2, <4>2, Zenon DEF SwapEmail
      <4> QED BY <2>5, <4>1, <4>2
    <3>4. \A c \in Accounts : accounts'[c].password = accounts[c].password
      BY <3>1, <3>3, PasswordStays
    <3> QED BY <3>1, <3>4, EndSessions DEF SessionInv
  <2> QED BY <1>2, <2>1, <2>2, <2>3, <2>4, <2>5 DEF Continue
<1>3. ASSUME NEW s \in Sessions, ApiLogout(s) \/ SessionEnds(s) PROVE SessionInv'
  BY <1>3, LogoutStep DEF ApiLogout, SessionEnds
<1>4. ASSUME NEW k \in Codes, Age(k) PROVE SessionInv'
  BY <1>0, <1>4 DEF Age
<1>5. CASE UNCHANGED vars
  BY <1>0, <1>5 DEF vars
<1> QED BY <1>0, <1>1, <1>2, <1>3, <1>4, <1>5 DEF Next

\* reset_password and change_password: a session that is open was opened with
\* the password the account has now, or was kept, or was checked before the change.
THEOREM OldSessionsAreEnded == Spec => []SessionsHaveTheCurrentPassword
<1>1. SessionInv => SessionsHaveTheCurrentPassword
  BY DEF SessionInv, Current, ValidSession, SessionsHaveTheCurrentPassword
<1> QED BY <1>1, InitCodes, NextCodes, InitSessions, NextSessions, PTL DEF Spec

-------------------------------------------------------------------------------
(* Accounts with a verified address.                                           *)

\* What a step may do to verified accounts and to their sessions.
Survives(a) == Stored(a) /\ accounts[a].verified =>
  /\ accounts'[a].stored /\ accounts'[a].verified
  /\ \A s \in Sessions :
       sessions[s].account = a /\ sessions'[s].state = "deleted"
         /\ sessions[s].state # "deleted" =>
       \E r \in Requests : At(r, "register") /\ reqs[r].account = a
                             /\ reqs[r].email # accounts[a].email

LEMMA SessionsStay ==
  ASSUME NEW a \in Accounts, UNCHANGED accounts,
         \A s \in Sessions : sessions'[s].state = "deleted" => sessions[s].state = "deleted"
  PROVE  Survives(a)
BY DEF Survives, Stored

\* register_merchant deletes the account it read only while that is unverified;
\* if it was verified meanwhile, the address is taken or was given up.
LEMMA RegisterSurvives ==
  ASSUME CodeInv, NEW r \in Requests, NEW b \in Accounts, RegisterWrite(r, b), NEW a \in Accounts
  PROVE  Survives(a)
<1> DEFINE old == reqs[r].account  e == reqs[r].email
<1>1. CASE UNCHANGED <<accounts, codes, sessions>>
  BY <1>1, SessionsStay
<1>2. CASE /\ Creatable(Without(old), e)
           /\ accounts' = CreateMerchant(Without(old), b, e)
           /\ sessions' = [s \in Sessions |-> IF sessions[s].account = old /\ old # Nobody
                                              THEN [sessions[s] EXCEPT !.state = "deleted"]
                                              ELSE sessions[s]]
  <2>1. SUFFICES ASSUME Stored(a), accounts[a].verified PROVE Survives(a)
    BY DEF Survives
  <2>2. accounts'[a].stored /\ accounts'[a].verified
    BY <1>2, <2>1, CreatedPasswords DEF RegisterWrite, Stored
  <2>3. accounts[a].email # e
    <3>1. Without(old)[a] = accounts[a]
      BY <2>1 DEF Without
    <3> QED BY <1>2, <2>1, <3>1 DEF Creatable, Stored
  <2>4. \A s \in Sessions : sessions[s].account # old => sessions'[s] = sessions[s]
    BY <1>2
  <2> QED BY <2>2, <2>3, <2>4 DEF Survives, RegisterWrite
<1> QED BY <1>1, <1>2 DEF RegisterWrite

\* A right code only adds to what is verified.
LEMMA ApplySurvives ==
  ASSUME CodeInv, NEW b, Stored(b), NEW row, accounts' = UpdateMerchant(b, row),
         row.stored, accounts[b].verified => row.verified,
         \A s \in Sessions : sessions'[s].state = "deleted" => sessions[s].state = "deleted",
         NEW a \in Accounts
  PROVE  Survives(a)
<1>1. accounts'[a] = IF a = b THEN row ELSE accounts[a]
  BY DEF UpdateMerchant, CodeInv, Types
<1> QED BY <1>1 DEF Survives, Stored

LEMMA StepsSurvive == CodeInv /\ SessionInv /\ [Next]_vars =>
                        [\A a \in Accounts : Survives(a)]_vars
<1> SUFFICES ASSUME CodeInv, SessionInv, Next, NEW a \in Accounts PROVE Survives(a)
  OBVIOUS
<1>1. ASSUME NEW r \in Requests, Route(r) PROVE Survives(a)
  <2>1. UNCHANGED <<accounts, sessions>>
    BY <1>1 DEF Route, ApiRegister, ApiVerifyEmail, ApiResendOtp, ApiLogin, ApiForgotPassword,
       ApiResetPassword, ApiChangeEmailRequest, ApiChangeEmailConfirm,
       ApiChangePasswordRequest, ApiChangePasswordConfirm, RegisterRead,
       VerifyRegistrationOtp, ResendRegistrationOtp, LoginRead, RequestPasswordReset,
       ResetPassword, RequestChangeEmailOtp, ConfirmChangeEmail, RequestChangePasswordOtp,
       ChangePassword, WillIssue, WillFind
  <2> QED BY <2>1, SessionsStay
<1>2. ASSUME NEW r \in Requests, Continue(r) PROVE Survives(a)
  <2> DEFINE b == reqs[r].account
  <2>1. CASE \E c \in Accounts : RegisterWrite(r, c)
    BY <2>1, RegisterSurvives
  <2>2. CASE \E s \in Sessions : LoginWrite(r, s)
    <3>1. PICK s \in Sessions : LoginWrite(r, s)
      BY <2>2
    <3>2. /\ accounts' = accounts
          /\ \A t \in Sessions : sessions'[t].state = "deleted" => sessions[t].state = "deleted"
      BY <3>1 DEF LoginWrite, CreateSession, SessionInv
    <3> QED BY <3>2, SessionsStay
  <2>3. CASE IssueWrite(r) \/ Count(r) \/ Refuse(r) \/ \E k \in Entries : FindCode(r, k)
    BY <2>3, SessionsStay DEF IssueWrite, Count, Refuse, FindCode
  <2>4. CASE SetPassword(r) \/ SwapPassword(r)
    <3>1. PICK kept : WithNewPassword(r, b, kept)
      BY <2>4 DEF SetPassword, SwapPassword
    <3>2. Stored(b) /\ accounts' = UpdateMerchant(b, [accounts[b] EXCEPT !.password = @ + 1])
          /\ sessions' = InvalidateAllSessions(b, kept)
      BY <3>1 DEF WithNewPassword, LogSecurityEvent
    <3>3. accounts[b] \in AccountRows
      BY <3>2 DEF Stored, CodeInv, Types
    <3>4. /\ [accounts[b] EXCEPT !.password = @ + 1].stored
          /\ [accounts[b] EXCEPT !.password = @ + 1].verified = accounts[b].verified
      BY <3>2, <3>3 DEF Stored, AccountRows
    <3>5. ASSUME NEW s \in Sessions, sessions'[s].state = "deleted"
          PROVE  sessions[s].state = "deleted"
      <4>1. sessions[s] \in SessionRows
        BY DEF SessionInv
      <4> QED BY <3>2, <3>5, <4>1 DEF InvalidateAllSessions, SessionRows
    <3> QED BY <3>2, <3>4, <3>5, ApplySurvives
  <2>5. CASE Activate(r) \/ SwapEmail(r)
    <3>1. Stored(b) /\ sessions' = sessions
      BY <2>5 DEF Activate, SwapEmail, LogSecurityEvent
    <3>2. accounts[b] \in AccountRows
      BY <3>1 DEF Stored, CodeInv, Types
    <3>3. ASSUME NEW e
          PROVE  /\ [accounts[b] EXCEPT !.verified = TRUE].stored
                 /\ [accounts[b] EXCEPT !.verified = TRUE].verified
                 /\ [accounts[b] EXCEPT !.email = e, !.verified = TRUE].stored
                 /\ [accounts[b] EXCEPT !.email = e, !.verified = TRUE].verified
      BY <3>1, <3>2 DEF Stored, AccountRows
    <3>4. \E row : accounts' = UpdateMerchant(b, row) /\ row.stored /\ row.verified
      BY <2>5, <3>3 DEF Activate, SwapEmail, VerifyMerchantEmail
    <3> QED BY <3>1, <3>4, ApplySurvives
  <2> QED BY <1>2, <2>1, <2>2, <2>3, <2>4, <2>5 DEF Continue
<1>3. ASSUME NEW s \in Sessions, ApiLogout(s) \/ SessionEnds(s) PROVE Survives(a)
  <2>1. /\ accounts' = accounts
        /\ sessions' = [sessions EXCEPT ![s] = [sessions[s] EXCEPT !.state = "invalid"]]
    BY <1>3 DEF ApiLogout, SessionEnds, Logout, InvalidateSession
  <2>2. \A t \in Sessions : sessions'[t].state = "deleted" => sessions[t].state = "deleted"
    BY <2>1, StateTypes DEF SessionInv
  <2> QED BY <2>1, <2>2, SessionsStay
<1>4. ASSUME NEW k \in Codes, Age(k) PROVE Survives(a)
  BY <1>4, SessionsStay DEF Age
<1> QED BY <1>1, <1>2, <1>3, <1>4 DEF Next

\* auth._delete_unverified_merchant: no step of any request deletes a verified
\* account or takes its address's verification back, and its sessions are only
\* deleted by a registration of an address that it has given up.
THEOREM VerifiedAccountsStay == Spec => VerifiedAccountsSurvive
<1>1. CodeInv /\ SessionInv /\ [Next]_vars =>
        [\A a \in Accounts : Stored(a) /\ accounts[a].verified =>
           /\ accounts'[a].stored /\ accounts'[a].verified
           /\ \A s \in Sessions :
                sessions[s].account = a /\ sessions'[s].state = "deleted"
                  /\ sessions[s].state # "deleted" =>
                \E r \in Requests : At(r, "register") /\ reqs[r].account = a
                                      /\ reqs[r].email # accounts[a].email]_vars
  BY StepsSurvive DEF Survives
<1> QED BY <1>1, InitCodes, NextCodes, InitSessions, NextSessions, PTL
        DEF Spec, VerifiedAccountsSurvive


(***************************************************************************)
(* RequestGuards: the tokens of a stream.                                  *)
(***************************************************************************)
ThreadRows == [pc : {"idle", "check", "issue"}, now : Nat, token : Tokens \cup {"none"}]

GuardTypes ==
  /\ clock \in Nat
  /\ expires \in [Tokens -> Int] /\ issued \in [Tokens -> Int]
  /\ threads \in [Threads -> ThreadRows]
  /\ streams \in [Tokens -> Seq(Nat)]

\* A thread that has made a token is the only one to store it.
Issuing ==
  \A h \in Threads : threads[h].pc = "issue" =>
    /\ threads[h].token \in Tokens /\ issued[threads[h].token] = -1
    /\ \A g \in Threads \ {h} : threads[g].pc = "issue" =>
         threads[g].token # threads[h].token

\* A token in the store has opened no stream and expires TTL after its issue.
InStore(t) == expires[t] # -1 =>
  /\ issued[t] # -1 /\ expires[t] = issued[t] + TTL /\ streams[t] = << >>

Unissued(t) == issued[t] = -1 => streams[t] = << >>

Opened(t) == \/ streams[t] = << >>
             \/ Len(streams[t]) = 1 /\ streams[t][1] - issued[t] < TTL

TokenInv == GuardTypes /\ Issuing /\ \A t \in Tokens : InStore(t) /\ Unissued(t) /\ Opened(t)

-------------------------------------------------------------------------------
LEMMA InitTokens == GInit => TokenInv
BY DEF GInit, TokenInv, GuardTypes, ThreadRows, Issuing, InStore, Unissued, Opened, IdleThread

\* A thread becomes idle, or waits for the rate limiter: no token is touched.
LEMMA ThreadSteps ==
  ASSUME TokenInv, NEW h \in Threads, NEW rec \in ThreadRows, rec.pc # "issue",
         Turn(h, rec), UNCHANGED <<clock, expires, issued, streams>>
  PROVE  TokenInv'
<1>1. GuardTypes'
  BY DEF TokenInv, GuardTypes, Turn
<1>2. Issuing'
  BY DEF TokenInv, GuardTypes, Issuing, Turn
<1> QED BY <1>1, <1>2 DEF TokenInv, InStore, Unissued, Opened

LEMMA IssueReadStep ==
  ASSUME TokenInv, NEW h \in Threads, NEW t \in Tokens, IssueRead(h, t)
  PROVE  TokenInv'
<1> DEFINE rec == [pc |-> "issue", now |-> clock, token |-> t]
<1>1. rec \in ThreadRows
  BY DEF TokenInv, GuardTypes, ThreadRows
<1>2. threads' = [threads EXCEPT ![h] = rec] /\ issued[t] = -1
  BY DEF IssueRead, Turn
<1>3. GuardTypes'
  BY <1>1, <1>2 DEF IssueRead, TokenInv, GuardTypes
<1>4. Issuing'
  BY <1>2 DEF IssueRead, TokenInv, GuardTypes, Issuing
<1> QED BY <1>3, <1>4 DEF IssueRead, TokenInv, InStore, Unissued, Opened

LEMMA IssueStoreStep ==
  ASSUME TokenInv, NEW h \in Threads, IssueStore(h)
  PROVE  TokenInv'
<1> DEFINE t == threads[h].token
           now == threads[h].now
<1>1. t \in Tokens /\ now \in Nat /\ issued[t] = -1 /\ streams[t] = << >> /\ TTL \in Nat
  BY GuardsAssumption DEF IssueStore, TokenInv, GuardTypes, ThreadRows, Issuing, Unissued
<1>2. /\ issued' = [issued EXCEPT ![t] = now]
      /\ expires'[t] = now + TTL
      /\ \A u \in Tokens \ {t} : expires'[u] \in {-1, expires[u]}
      /\ expires' \in [Tokens -> Int]
  <2>1. expires' = [u \in Tokens |-> IF u = t THEN now + TTL
                                     ELSE IF expires[u] < clock THEN -1 ELSE expires[u]]
    <3>1. ASSUME NEW u \in Tokens
          PROVE  (CASE u = t -> now + TTL
                    [] u # t /\ expires[u] < clock -> -1
                    [] OTHER -> expires[u])
                 = IF u = t THEN now + TTL
                   ELSE IF expires[u] < clock THEN -1 ELSE expires[u]
      OBVIOUS
    <3> QED BY <3>1, Zenon DEF IssueStore
  <2> QED BY <1>1, <2>1 DEF IssueStore, TokenInv, GuardTypes
<1>3. GuardTypes'
  BY <1>1, <1>2 DEF IssueStore, TokenInv, GuardTypes, Turn, IdleThread, ThreadRows
<1>4. Issuing'
  BY <1>1, <1>2 DEF IssueStore, TokenInv, GuardTypes, Issuing, Turn, IdleThread
<1>5. ASSUME NEW u \in Tokens PROVE (InStore(u) /\ Unissued(u) /\ Opened(u))'
  <2>1. CASE u = t
    BY <1>1, <1>2, <2>1 DEF IssueStore, TokenInv, GuardTypes, InStore, Unissued, Opened
  <2>2. CASE u # t
    BY <1>2, <2>2 DEF IssueStore, TokenInv, GuardTypes, InStore, Unissued, Opened
  <2> QED BY <2>1, <2>2
<1> QED BY <1>3, <1>4, <1>5 DEF TokenInv

LEMMA StreamStep ==
  ASSUME TokenInv, NEW t \in Tokens, Stream(t)
  PROVE  TokenInv'
<1>1. /\ expires' = [expires EXCEPT ![t] = -1]
      /\ streams[t] = << >> /\ expires[t] = issued[t] + TTL /\ issued[t] # -1
      /\ TTL \in Nat /\ clock \in Nat /\ issued[t] \in Int
      /\ UNCHANGED <<clock, threads, issued>>
  BY GuardsAssumption DEF Stream, TokenInv, GuardTypes, InStore
<1>2. \/ streams' = streams
      \/ clock < expires[t] /\ streams' = [streams EXCEPT ![t] = <<clock>>]
  BY <1>1 DEF Stream, TokenInv, GuardTypes
<1>3. GuardTypes'
  <2>1. streams' \in [Tokens -> Seq(Nat)]
    <3>1. <<clock>> \in Seq(Nat)
      BY <1>1
    <3> QED BY <1>2, <3>1 DEF TokenInv, GuardTypes
  <2>2. expires' \in [Tokens -> Int]
    BY <1>1 DEF TokenInv, GuardTypes
  <2> QED BY <1>1, <2>1, <2>2, Zenon DEF TokenInv, GuardTypes
<1>4. Issuing'
  BY <1>1, Zenon DEF TokenInv, Issuing
<1>5. ASSUME NEW u \in Tokens PROVE (InStore(u) /\ Unissued(u) /\ Opened(u))'
  <2>1. CASE u = t
    BY <1>1, <1>2, <2>1 DEF TokenInv, GuardTypes, InStore, Unissued, Opened
  <2>2. CASE u # t
    BY <1>1, <1>2, <2>2 DEF TokenInv, GuardTypes, InStore, Unissued, Opened
  <2> QED BY <2>1, <2>2
<1> QED BY <1>3, <1>4, <1>5 DEF TokenInv

LEMMA NextTokens == TokenInv /\ [GNext]_guardVars => TokenInv'
<1> SUFFICES ASSUME TokenInv, [GNext]_guardVars PROVE TokenInv'
  OBVIOUS
<1>1. CASE Tick
  BY <1>1 DEF Tick, TokenInv, GuardTypes, Issuing, InStore, Unissued, Opened
<1>2. ASSUME NEW h \in Threads, Arrive(h) PROVE TokenInv'
  <2>1. [IdleThread EXCEPT !.pc = "check", !.now = clock] \in ThreadRows
    BY DEF TokenInv, GuardTypes, ThreadRows, IdleThread
  <2>2. [IdleThread EXCEPT !.pc = "check", !.now = clock].pc # "issue"
    BY DEF IdleThread
  <2> QED BY <1>2, <2>1, <2>2, ThreadSteps DEF Arrive
<1>3. ASSUME NEW h \in Threads, Check(h) PROVE TokenInv'
  <2>1. IdleThread \in ThreadRows /\ IdleThread.pc # "issue"
    BY DEF ThreadRows, IdleThread
  <2> QED BY <1>3, <2>1, ThreadSteps DEF Check
<1>4. ASSUME NEW h \in Threads, IssueStore(h) PROVE TokenInv'
  BY <1>4, IssueStoreStep
<1>5. ASSUME NEW h \in Threads, NEW t \in Tokens, IssueRead(h, t) PROVE TokenInv'
  BY <1>5, IssueReadStep
<1>6. ASSUME NEW t \in Tokens, Stream(t) PROVE TokenInv'
  BY <1>6, StreamStep
<1>7. CASE UNCHANGED guardVars
  BY <1>7 DEF guardVars, TokenInv, GuardTypes, Issuing, InStore, Unissued, Opened
<1> QED BY <1>1, <1>2, <1>3, <1>4, <1>5, <1>6, <1>7 DEF GNext

\* api_run_agent_stream: a token opens at most one stream, within its lifetime,
\* however many threads issue, prune and use tokens at the same time.
THEOREM TokensAreSingleUse == GSpec => []TokensOpenOneStream
<1>1. TokenInv => TokensOpenOneStream
  <2> SUFFICES ASSUME TokenInv, NEW t \in Tokens
               PROVE  /\ Len(streams[t]) <= 1
                      /\ \A i \in DOMAIN streams[t] : streams[t][i] - issued[t] < TTL
    BY DEF TokensOpenOneStream
  <2>1. streams[t] \in Seq(Nat) /\ Opened(t)
    BY DEF TokenInv, GuardTypes
  <2>2. CASE streams[t] = << >>
    BY <2>2
  <2>3. CASE Len(streams[t]) = 1 /\ streams[t][1] - issued[t] < TTL
    <3>1. DOMAIN streams[t] = 1..1
      BY <2>1, <2>3
    <3> QED BY <2>3, <3>1
  <2> QED BY <2>1, <2>2, <2>3 DEF Opened
<1> QED BY <1>1, InitTokens, NextTokens, PTL DEF GSpec

-------------------------------------------------------------------------------
(* The sliding window.  It holds the times that the last admitted requests had *)
(* read, each at most MaxWait before its admission; every earlier admission    *)
(* was evicted by a request to which it was older than the window.             *)

WindowTypes == /\ window \in Seq(Nat) /\ admitted \in Seq(Nat)
               /\ refused \in [after : Nat, at : Nat \cup {-1}] /\ refused.after <= Len(admitted)

\* A request has waited for the lock for MaxWait ticks at most.
Timely == \A h \in Threads : threads[h].pc = "check" =>
            threads[h].now <= clock /\ clock <= threads[h].now + MaxWait

\* How many admissions have left the window.
Evictions == Len(admitted) - Len(window)

WindowInv ==
  /\ WindowTypes /\ Timely /\ Evictions >= 0 /\ Len(window) <= MaxReq
  /\ \A k \in 1..Len(window) : /\ window[k] <= admitted[Evictions + k]
                               /\ admitted[Evictions + k] <= window[k] + MaxWait
  /\ \A i \in 1..Evictions : clock - admitted[i] > Window - MaxWait

LEMMA LeastPosition ==
  ASSUME NEW T, T \subseteq Nat, T # {}
  PROVE  \E i \in T : \A j \in T : i <= j
<1> DEFINE R == OpToRel(<, Nat)
<1>1. IsWellFoundedOn(R, Nat)
  BY NatLessThanWellFounded
<1>2. \A x, y \in Nat : x < y => <<x, y>> \in R
  BY DEF OpToRel
<1> HIDE DEF R
<1>3. PICK i \in T : \A j \in T : ~(<<j, i>> \in R)
  BY <1>1, WFMin, Zenon
<1>4. ASSUME NEW j \in T PROVE i <= j
  <2>1. i \in Nat /\ j \in Nat /\ ~(j < i)
    BY <1>2, <1>3
  <2> QED BY <2>1
<1> QED BY <1>4

\* What is evicted is the part of the queue before its first time in the window.
LEMMA EvictedPrefix ==
  ASSUME NEW q \in Seq(Nat), NEW now \in Nat
  PROVE  \E d \in 0..Len(q) :
           /\ Evicted(q, now) \in Seq(Nat) /\ Len(Evicted(q, now)) = Len(q) - d
           /\ \A k \in 1..(Len(q) - d) : Evicted(q, now)[k] = q[d + k]
           /\ \A i \in 1..d : q[i] < now - Window
           /\ d < Len(q) => q[d + 1] >= now - Window
<1> DEFINE inside == {i \in DOMAIN q : q[i] >= now - Window}
<1>1. Window \in Nat /\ Len(q) \in Nat /\ DOMAIN q = 1..Len(q)
      /\ \A i \in 1..Len(q) : q[i] \in Nat
  BY GuardsAssumption
<1>2. CASE inside = {}
  <2>1. Evicted(q, now) = << >>
    BY <1>2 DEF Evicted
  <2>2. \A i \in 1..Len(q) : q[i] < now - Window
    BY <1>1, <1>2
  <2>3. /\ << >> \in Seq(Nat) /\ Len(<< >>) = Len(q) - Len(q) /\ 1..(Len(q) - Len(q)) = {}
        /\ Len(q) \in 0..Len(q) /\ ~(Len(q) < Len(q))
    BY <1>1
  <2> HIDE DEF inside
  <2> QED BY <2>1, <2>2, <2>3
<1>3. CASE inside # {}
  <2> DEFINE f == CHOOSE i \in inside : \A j \in inside : i <= j
  <2>1. inside \subseteq Nat
    BY <1>1
  <2>2. f \in inside /\ \A j \in inside : f <= j
    <3>1. \E i \in inside : \A j \in inside : i <= j
      BY <1>3, <2>1, LeastPosition
    <3> QED BY <3>1
  <2>3. Evicted(q, now) = SubSeq(q, f, Len(q))
    BY <1>3 DEF Evicted
  <2>4. f \in 1..Len(q) /\ q[f] >= now - Window
    BY <1>1, <2>2
  <2> HIDE DEF f
  <2>5. ASSUME NEW i \in 1..(f - 1) PROVE q[i] < now - Window
    <3>1. i \in 1..Len(q) /\ ~(f <= i)
      BY <1>1, <2>4
    <3>2. i \notin inside
      BY <2>2, <3>1
    <3> QED BY <1>1, <3>1, <3>2
  <2> HIDE DEF inside
  <2>6. f - 1 \in 0..Len(q) /\ f - 1 < Len(q) /\ q[(f - 1) + 1] >= now - Window
    BY <1>1, <2>4
  <2>7. /\ Evicted(q, now) \in Seq(Nat) /\ Len(Evicted(q, now)) = Len(q) - (f - 1)
        /\ \A k \in 1..(Len(q) - (f - 1)) : Evicted(q, now)[k] = q[(f - 1) + k]
    <3>1. f \in Int /\ Len(q) \in Int /\ f <= Len(q) /\ \A i \in f..Len(q) : q[i] \in Nat
      BY <1>1, <2>4
    <3>2. /\ SubSeq(q, f, Len(q)) \in Seq(Nat)
          /\ Len(SubSeq(q, f, Len(q))) = IF f <= Len(q) THEN Len(q) - f + 1 ELSE 0
          /\ \A k \in 1..(Len(q) - f + 1) : SubSeq(q, f, Len(q))[k] = q[f + k - 1]
      BY ONLY <3>1, SubSeqProperties
    <3> QED BY <2>3, <2>4, <3>1, <3>2
  <2> QED BY <2>5, <2>6, <2>7
<1> QED BY <1>2, <1>3

LEMMA InitWindow == GInit => WindowInv
BY GuardsAssumption DEF GInit, WindowInv, WindowTypes, Timely, Evictions, IdleThread

\* The clock goes on while no thread has waited too long; threads read it.
LEMMA OtherSteps ==
  ASSUME TokenInv, WindowInv, UNCHANGED <<window, admitted, refused>>,
         clock' \in Nat, clock' >= clock, Timely'
  PROVE  WindowInv'
<1>1. Evictions' = Evictions /\ Evictions \in Int /\ clock \in Nat
  BY DEF Evictions, WindowInv, WindowTypes, TokenInv, GuardTypes
<1>2. ASSUME NEW i \in 1..Evictions PROVE clock' - admitted'[i] > Window - MaxWait
  <2>1. clock - admitted[i] > Window - MaxWait
    BY DEF WindowInv
  <2>2. admitted[i] \in Nat
    BY DEF WindowInv, WindowTypes, Evictions
  <2> QED BY <1>1, <2>1, <2>2, GuardsAssumption
<1> QED BY <1>1, <1>2 DEF WindowInv, WindowTypes

\* The queue that rate_limit.check counts, with the admissions it stands for.
LEMMA CountedQueue ==
  ASSUME TokenInv, WindowInv, NEW h \in Threads, Check(h),
         NEW q, q = Evicted(window, threads[h].now)
  PROVE  LET gone == Len(admitted) - Len(q) IN
         /\ q \in Seq(Nat) /\ Len(q) <= MaxReq /\ gone \in Nat
         /\ \A k \in 1..Len(q) : /\ q[k] <= admitted[gone + k]
                                 /\ admitted[gone + k] <= q[k] + MaxWait
         /\ \A i \in 1..gone : clock - admitted[i] > Window - MaxWait
         /\ Len(q) > 0 => q[1] >= threads[h].now - Window
<1> DEFINE now == threads[h].now  n == Len(admitted)  w == Len(window)
<1>1. now \in Nat /\ clock \in Nat /\ now <= clock /\ clock <= now + MaxWait
  BY DEF Check, TokenInv, GuardTypes, ThreadRows, WindowInv, Timely
<1>2. /\ window \in Seq(Nat) /\ admitted \in Seq(Nat) /\ n \in Nat /\ w \in Nat /\ n - w >= 0
      /\ w <= MaxReq
      /\ \A k \in 1..w : window[k] \in Nat
      /\ \A i \in 1..n : admitted[i] \in Nat
  <2>1. window \in Seq(Nat) /\ admitted \in Seq(Nat)
    BY DEF WindowInv, WindowTypes
  <2>2. n - w >= 0 /\ w <= MaxReq
    BY DEF WindowInv, Evictions
  <2> QED BY <2>1, <2>2
<1>3. /\ \A k \in 1..w : /\ window[k] <= admitted[(n - w) + k]
                        /\ admitted[(n - w) + k] <= window[k] + MaxWait
      /\ \A i \in 1..(n - w) : clock - admitted[i] > Window - MaxWait
  BY DEF WindowInv, Evictions
<1>4. PICK d \in 0..w :
        /\ q \in Seq(Nat) /\ Len(q) = w - d
        /\ \A k \in 1..(w - d) : q[k] = window[d + k]
        /\ \A i \in 1..d : window[i] < now - Window
        /\ d < w => window[d + 1] >= now - Window
  BY <1>1, <1>2, EvictedPrefix
<1> HIDE DEF now, n, w
<1>5. Len(q) <= MaxReq /\ n - Len(q) = (n - w) + d /\ n - Len(q) \in Nat
  BY <1>2, <1>4, GuardsAssumption
<1>6. ASSUME NEW k \in 1..Len(q)
      PROVE  q[k] <= admitted[(n - Len(q)) + k] /\ admitted[(n - Len(q)) + k] <= q[k] + MaxWait
  <2>1. d + k \in 1..w /\ q[k] = window[d + k] /\ (n - Len(q)) + k = (n - w) + (d + k)
    BY <1>2, <1>4
  <2> QED BY <1>3, <2>1
<1>7. ASSUME NEW i \in 1..(n - Len(q)) PROVE clock - admitted[i] > Window - MaxWait
  <2>1. CASE i <= n - w
    BY <1>2, <1>3, <2>1
  <2>2. CASE i > n - w
    <3>1. i - (n - w) \in 1..d /\ i - (n - w) \in 1..w /\ i \in 1..n
          /\ (n - w) + (i - (n - w)) = i
      BY <1>2, <1>4, <1>5, <2>2
    <3>2. window[i - (n - w)] < now - Window /\ admitted[i] <= window[i - (n - w)] + MaxWait
      BY <1>3, <1>4, <3>1
    <3>3. window[i - (n - w)] \in Int /\ admitted[i] \in Int
      BY <1>2, <3>1
    <3> DEFINE x == window[i - (n - w)]  a == admitted[i]
    <3>4. x \in Int /\ a \in Int /\ x < now - Window /\ a <= x + MaxWait
      BY <3>2, <3>3
    <3> HIDE DEF x, a
    <3>5. clock - a > Window - MaxWait
      BY <1>1, <3>4, GuardsAssumption
    <3> QED BY <3>5 DEF a
  <2> QED BY <1>2, <1>5, <2>1, <2>2
<1>8. Len(q) > 0 => q[1] >= now - Window
  BY <1>2, <1>4
<1> QED BY <1>4, <1>5, <1>6, <1>7, <1>8 DEF n, now

\* A request that is admitted joins the queue and the history at their ends; the
\* one MaxReq before it is not in the queue any more.
LEMMA CheckStep ==
  ASSUME TokenInv, WindowInv, LimitIsExact, NEW h \in Threads, Check(h)
  PROVE  WindowInv' /\ LimitIsExact'
<1> DEFINE now == threads[h].now  n == Len(admitted)
           q == Evicted(window, now)  gone == n - Len(q)
<1>1. now \in Nat /\ clock \in Nat /\ now <= clock /\ clock <= now + MaxWait /\ clock' = clock
  BY DEF Check, TokenInv, GuardTypes, ThreadRows, WindowInv, Timely
<1>2. admitted \in Seq(Nat) /\ n \in Nat /\ \A i \in 1..n : admitted[i] \in Nat
  BY DEF WindowInv, WindowTypes
<1>3. /\ q \in Seq(Nat) /\ Len(q) <= MaxReq /\ gone \in Nat
      /\ \A k \in 1..Len(q) : q[k] <= admitted[gone + k] /\ admitted[gone + k] <= q[k] + MaxWait
      /\ \A i \in 1..gone : clock - admitted[i] > Window - MaxWait
      /\ Len(q) > 0 => q[1] >= now - Window
  BY CountedQueue
<1>4. Timely'
  BY DEF Check, Turn, IdleThread, TokenInv, GuardTypes, WindowInv, Timely
<1>5. /\ \A i \in 1..n : i + MaxReq <= n => admitted[i + MaxReq] - admitted[i] > Window - MaxWait
      /\ refused.at # -1 =>
           /\ refused.after >= MaxReq
           /\ refused.at - admitted[refused.after - MaxReq + 1] <= Window + MaxWait
  BY <1>2 DEF LimitIsExact
<1>6. refused \in [after : Nat, at : Nat \cup {-1}] /\ refused.after <= n
  BY DEF WindowInv, WindowTypes
<1>7. MaxReq \in Nat \ {0} /\ MaxWait \in Nat /\ Window \in Nat /\ Len(q) \in Nat
  BY <1>3, GuardsAssumption
<1>8. CASE /\ Len(q) < MaxReq /\ window' = Append(q, now)
           /\ admitted' = Append(admitted, clock) /\ refused' = refused
  <2> HIDE DEF q, now
  <2>1. /\ window' \in Seq(Nat) /\ Len(window') = Len(q) + 1
        /\ \A k \in 1..Len(q) : window'[k] = q[k]
        /\ window'[Len(q) + 1] = now
    BY <1>1, <1>3, <1>8
  <2>2. /\ admitted' \in Seq(Nat) /\ Len(admitted') = n + 1
        /\ \A i \in 1..n : admitted'[i] = admitted[i]
        /\ admitted'[n + 1] = clock
    BY <1>1, <1>2, <1>8
  <2>3. Evictions' = gone
    BY <1>2, <1>3, <2>1, <2>2 DEF Evictions
  <2>4. ASSUME NEW k \in 1..Len(window')
        PROVE  window'[k] <= admitted'[gone + k] /\ admitted'[gone + k] <= window'[k] + MaxWait
    <3>1. CASE k \in 1..Len(q)
      <4>1. gone + k \in 1..n
        BY <1>2, <1>3, <3>1
      <4> QED BY <1>3, <2>1, <2>2, <3>1, <4>1
    <3>2. CASE k = Len(q) + 1
      <4>1. gone + k = n + 1
        BY <1>2, <1>7, <3>2
      <4> QED BY <1>1, <2>1, <2>2, <3>2, <4>1
    <3> QED BY <1>7, <2>1, <3>1, <3>2
  <2>5. ASSUME NEW i \in 1..gone PROVE clock' - admitted'[i] > Window - MaxWait
    <3>1. i \in 1..n
      BY <1>2, <1>3, <1>7
    <3> QED BY <1>1, <1>3, <2>2, <3>1
  <2>6. Len(window') <= MaxReq
    BY <1>7, <1>8, <2>1
  <2>7. WindowInv'
    <3>1. WindowTypes'
      BY <1>2, <1>6, <1>8, <2>1, <2>2 DEF WindowTypes
    <3> HIDE DEF gone
    <3> QED BY <1>3, <1>4, <2>3, <2>4, <2>5, <2>6, <3>1 DEF WindowInv
  <2>8. ASSUME NEW i \in 1..(n + 1), i + MaxReq <= n + 1
        PROVE  admitted'[i + MaxReq] - admitted'[i] > Window - MaxWait
    <3>1. i \in 1..n
      BY <1>2, <1>7, <2>8
    <3>2. CASE i + MaxReq <= n
      <4>1. i + MaxReq \in 1..n
        BY <1>7, <3>1, <3>2
      <4> QED BY <1>5, <2>2, <3>1, <3>2, <4>1
    <3>3. CASE i + MaxReq = n + 1
      <4>1. i \in 1..gone
        BY <1>2, <1>7, <1>8, <3>1, <3>3
      <4> QED BY <1>1, <1>3, <2>2, <3>1, <3>3, <4>1
    <3> QED BY <1>2, <1>7, <2>8, <3>2, <3>3
  <2>9. ASSUME refused.at # -1
        PROVE  refused.at - admitted'[refused.after - MaxReq + 1] <= Window + MaxWait
    <3>1. refused.after - MaxReq + 1 \in 1..n
      <4>1. refused.after \in Nat /\ refused.after >= MaxReq /\ refused.after <= n
        BY <1>5, <1>6, <2>9
      <4> QED BY <1>2, <1>7, <4>1
    <3> QED BY <1>5, <2>2, <2>9, <3>1
  <2>10. DOMAIN admitted' = 1..(n + 1)
    BY <2>2
  <2>11. LimitIsExact'
    BY <1>5, <1>8, <2>2, <2>8, <2>9, <2>10 DEF LimitIsExact
  <2> QED BY <2>7, <2>11
<1>9. CASE /\ Len(q) >= MaxReq /\ window' = q
           /\ refused' = [after |-> n, at |-> clock] /\ admitted' = admitted
  <2> HIDE DEF q, now
  <2>1. Len(q) = MaxReq
    BY <1>3, <1>7, <1>9
  <2>2. Evictions' = gone
    BY <1>9 DEF Evictions
  <2>3. refused' \in [after : Nat, at : Nat \cup {-1}] /\ refused'.after = n /\ refused'.at = clock
    BY <1>1, <1>2, <1>9
  <2>4. WindowInv'
    BY <1>1, <1>2, <1>3, <1>4, <1>9, <2>2, <2>3 DEF WindowInv, WindowTypes
  <2>5. n >= MaxReq /\ n - MaxReq + 1 = gone + 1 /\ 1 \in 1..Len(q) /\ n - MaxReq + 1 \in 1..n
    BY <1>2, <1>3, <1>7, <2>1
  <2>6. clock - admitted[n - MaxReq + 1] <= Window + MaxWait
    <3>1. q[1] <= admitted[gone + 1] /\ q[1] >= now - Window /\ q[1] \in Nat
      BY <1>3, <1>7, <2>1, <2>5
    <3>2. admitted[gone + 1] \in Nat
      BY <1>2, <2>5
    <3> QED BY <1>1, <1>7, <2>5, <3>1, <3>2
  <2>7. LimitIsExact'
    BY <1>5, <1>9, <2>3, <2>5, <2>6 DEF LimitIsExact
  <2> QED BY <2>4, <2>7
<1> QED BY <1>8, <1>9 DEF Check

LEMMA NextWindow == TokenInv /\ WindowInv /\ LimitIsExact /\ [GNext]_guardVars
                      => WindowInv' /\ LimitIsExact'
<1> SUFFICES ASSUME TokenInv, WindowInv, LimitIsExact, [GNext]_guardVars
             PROVE  WindowInv' /\ LimitIsExact'
  OBVIOUS
<1>1. ASSUME UNCHANGED <<window, admitted, refused>>, clock' \in Nat, clock' >= clock, Timely'
      PROVE  WindowInv' /\ LimitIsExact'
  BY <1>1, OtherSteps DEF LimitIsExact
<1>2. /\ clock \in Nat /\ Timely /\ MaxWait \in Nat
      /\ \A h \in Threads : threads[h].pc # "issue" => threads[h].now \in Nat
      /\ threads \in [Threads -> ThreadRows]
  BY GuardsAssumption DEF TokenInv, GuardTypes, ThreadRows, WindowInv
<1>3. CASE Tick
  <2>1. Timely'
    BY <1>2, <1>3 DEF Tick, Timely, IdleThread
  <2> QED BY <1>1, <1>2, <1>3, <2>1 DEF Tick
<1>4. ASSUME NEW h \in Threads, NEW rec, Turn(h, rec), UNCHANGED <<clock, window, admitted, refused>>,
             rec.pc = "check" => rec.now = clock
      PROVE  WindowInv' /\ LimitIsExact'
  <2>1. Timely'
    BY <1>2, <1>4 DEF Timely, Turn
  <2> QED BY <1>1, <1>2, <1>4, <2>1
<1>5. ASSUME NEW h \in Threads, Arrive(h) PROVE WindowInv' /\ LimitIsExact'
  <2>1. [IdleThread EXCEPT !.pc = "check", !.now = clock].now = clock
    BY DEF IdleThread
  <2> QED BY <1>4, <1>5, <2>1 DEF Arrive
<1>6. ASSUME NEW h \in Threads, Check(h) PROVE WindowInv' /\ LimitIsExact'
  BY <1>6, CheckStep
<1>7. ASSUME NEW h \in Threads, IssueStore(h) PROVE WindowInv' /\ LimitIsExact'
  <2>1. IdleThread.pc # "check"
    BY DEF IdleThread
  <2> QED BY <1>4, <1>7, <2>1 DEF IssueStore
<1>8. ASSUME NEW h \in Threads, NEW t \in Tokens, IssueRead(h, t) PROVE WindowInv' /\ LimitIsExact'
  BY <1>4, <1>8 DEF IssueRead
<1>9. CASE (\E t \in Tokens : Stream(t)) \/ UNCHANGED guardVars
  <2>1. UNCHANGED <<clock, window, threads, admitted, refused>>
    BY <1>9 DEF Stream, guardVars
  <2>2. Timely'
    BY <1>2, <2>1 DEF Timely
  <2> QED BY <1>1, <1>2, <2>1, <2>2
<1> QED BY <1>3, <1>5, <1>6, <1>7, <1>8, <1>9 DEF GNext

\* rate_limit.check, for any limit, window and order of the threads at the lock:
\* between an admission and the one MaxReq later there is at least the window
\* less one wait, and of a refused client MaxReq requests were admitted within
\* the window and one wait.
THEOREM RateLimitIsExact == GSpec => []LimitIsExact
<1>1. GInit => LimitIsExact
  BY DEF GInit, LimitIsExact
<1> QED BY <1>1, InitTokens, NextTokens, InitWindow, NextWindow, PTL DEF GSpec

===============================================================================
