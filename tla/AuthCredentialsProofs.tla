------------------------ MODULE AuthCredentialsProofs ------------------------
(***************************************************************************)
(* More theorems about AuthSessions: what a credential has to be worth     *)
(* before a handler acts on it, what holds when requests do not overlap,   *)
(* and that the handlers implement SessionLifecycle.                       *)
(***************************************************************************)
EXTENDS AuthSessionsProofs, FiniteSetTheorems

-----------------------------------------------------------------------------
(* The invariants.                                                         *)

\* A users row that carries the temporary password asks for onboarding, in the
\* table and in the memory of the handlers that write it back.
OnboardingPending ==
    /\ \A u \in User : users[u].pw = Temporary => users[u].mustChange
    /\ \A r \in Request : row[r].pw = Temporary => row[r].mustChange

\* What the row a Login read allows it to do after that read.
LoginCleared ==
    \A r \in Request : op[r] = "Login" =>
        /\ pc[r] \in {"storeOTP", "deliverOTP", "issueSession"}
           \/ refreshToken[r] # "none" \/ mfaOtp[r] # "none" => row[r].pw # Temporary
        /\ pc[r] = "issueSession" \/ refreshToken[r] # "none" => ~row[r].mfa

\* The OTP a VerifyMFA found, and when it has been spent.
OtpSpent ==
    \A r \in Request : op[r] = "VerifyMFA" =>
        /\ tok[r] \in Request /\ mfaOtp[tok[r]] # "none" /\ who[tok[r]] = who[r]
        /\ pc[r] \in {"loadUser", "issueSession"} \/ refreshToken[r] # "none"
              => mfaOtp[tok[r]] = "used"

\* The link a ResetPassword found was stored by a request that never stores it
\* again, and it is dead from the statement after MarkReset on.
LinkSpent ==
    \A r \in Request : op[r] = "ResetPassword" =>
        /\ tok[r] \in Request
        /\ pc[tok[r]] \in {"sendReset", "ok", "failed"}
        /\ pc[r] \in {"revokeAll", "ok"} => resetToken[tok[r]] # "unused"

\* The sessions a ResetPassword has to end are still those of its user when it
\* reaches RevokeAllForUser.
SessionsEnded ==
    \A r \in Request : op[r] = "ResetPassword" =>
        /\ pc[r] \in {"markReset", "revokeAll", "ok"} =>
              \A t \in prior[r] : t \in Request /\ who[t] = who[r] /\ refreshToken[t] # "none"
        /\ pc[r] = "ok" => \A t \in prior[r] : refreshToken[t] = "revoked"

CredentialInv ==
    SessionInv /\ OnboardingPending /\ LoginCleared /\ OtpSpent /\ LinkSpent /\ SessionsEnded

-----------------------------------------------------------------------------
(* One handler at a time.                                                  *)

\* No two handlers run at the same time.
Alone == \A r, s \in Request : pc[r] \in Running /\ pc[s] \in Running => r = s

\* Nobody else has used what the running handler looked up.
FirstUse ==
    \A r, s \in Request : r # s /\ tok[r] = tok[s] /\ op[r] = op[s] =>
        /\ op[r] = "Refresh" /\ pc[r] \in Running => refreshToken[s] = "none"
        /\ op[r] = "VerifyMFA" /\ pc[r] \in Running => refreshToken[s] = "none"
        /\ op[r] = "ResetPassword" /\ pc[r] \in Running => pc[s] # "ok"

\* The row EnableMFA loaded is still the row in the table.
RowCurrent ==
    \A r \in Request : pc[r] = "updateUser" => row[r].pw = users[who[r]].pw

Overlapless == Alone /\ FirstUse /\ RotatesOnce /\ CredentialsWorkOnce /\ RowCurrent

SerialInv == CredentialInv /\ (MaxInFlight \leq 1 => Overlapless)

-----------------------------------------------------------------------------
(* What a step does to the handler s and to what s reads.                  *)

\* The statements of a method in their order, failures apart.
Flow ==
    { <<"storeOTP", "deliverOTP">>, <<"deliverOTP", "ok">>, <<"issueSession", "ok">>,
      <<"markOTP", "loadUser">>, <<"loadUser", "issueSession">>,
      <<"revokeOld", "storeRotated">>, <<"storeRotated", "ok">>, <<"revoke", "ok">>,
      <<"deleteUnused", "storeReset">>, <<"storeReset", "sendReset">>, <<"sendReset", "ok">>,
      <<"updatePassword", "markReset">>, <<"markReset", "revokeAll">>, <<"revokeAll", "ok">>,
      <<"revokeAllLogged", "ok">>, <<"updateUser", "ok">> }

\* A handler that has started moves only by its own statements, and in order.
LEMMA ControlFlow ==
    ASSUME TypeOK, [Next]_vars, NEW s \in Request, pc[s] # "idle", pc'[s] # pc[s]
    PROVE  pc'[s] = "failed" \/ (Step(s) /\ <<pc[s], pc'[s]>> \in Flow)
<1> USE DEF TypeOK, Reply, GoTo
<1>1. ASSUME NEW r \in Request, Arrival(r) PROVE FALSE
  BY <1>1 DEF Arrival, Refuse, Login, VerifyMFA, Refresh, Logout, ForgotPassword,
     ResetPassword, ChangePassword, EnableMFA, Arrives
<1>2. ASSUME NEW r \in Request, Step(r)
      PROVE  pc'[s] = "failed" \/ (Step(s) /\ <<pc[s], pc'[s]>> \in Flow)
  <2>1. r = s
    BY <1>2 DEF Step, StoreOTP, DeliverOTP, IssueSession, MarkOTP, LoadUser, RevokeOld,
       StoreRotated, RevokeOne, DropUnusedResets, StoreReset, SendReset, WriteNewPassword,
       MarkReset, RevokeAll, RevokeAllLogged, WriteUserRow
  <2>2. pc'[s] = "failed" \/ <<pc[s], pc'[s]>> \in Flow
    BY <1>2, <2>1 DEF Flow, Step, StoreOTP, DeliverOTP, IssueSession, MarkOTP, LoadUser,
       RevokeOld, StoreRotated, RevokeOne, DropUnusedResets, StoreReset, SendReset,
       WriteNewPassword, MarkReset, RevokeAll, RevokeAllLogged, WriteUserRow
  <2>3. QED
    BY <1>2, <2>1, <2>2
<1>3. ASSUME NEW r \in Request, Abort(r) \/ Lapse(r) PROVE pc'[s] = "failed"
  BY <1>3 DEF Abort, Lapse
<1>4. QED
  BY <1>1, <1>2, <1>3 DEF Next, Served, vars, AccessTokenExpires

\* The step that gives a request its method is the call of that method.
LEMMA MethodCalled ==
    ASSUME TypeOK, Shape, [Next]_vars, NEW s \in Request, pc[s] = "idle"
    PROVE  /\ op'[s] = "Login" => Login(s)
           /\ op'[s] = "VerifyMFA" => VerifyMFA(s)
           /\ op'[s] = "Refresh" => Refresh(s)
           /\ op'[s] = "ResetPassword" => ResetPassword(s)
           /\ op'[s] = "EnableMFA" => EnableMFA(s)
<1>1. op[s] = None
  BY DEF Shape
<1>2. SUFFICES ASSUME op'[s] # None, Arrival(s)
               PROVE  /\ op'[s] = "Login" => Login(s)
                      /\ op'[s] = "VerifyMFA" => VerifyMFA(s)
                      /\ op'[s] = "Refresh" => Refresh(s)
                      /\ op'[s] = "ResetPassword" => ResetPassword(s)
                      /\ op'[s] = "EnableMFA" => EnableMFA(s)
  <2>1. op'[s] # None => Arrival(s)
    BY <1>1, MethodEntered DEF vars, locals
  <2>2. None \notin {"Login", "VerifyMFA", "Refresh", "ResetPassword", "EnableMFA"}
    BY ConstantsAssumption DEF Method
  <2>3. QED
    BY <2>1, <2>2
<1>3. QED
  BY <1>1, <1>2 DEF TypeOK, Arrival, Refuse, Login, VerifyMFA, Refresh, Logout, ForgotPassword,
     ResetPassword, ChangePassword, EnableMFA, Serves, locals

\* An OTP is stored once, by the login it is named after, and stays spent.
LEMMA OtpsAge ==
    ASSUME TypeOK, Shape, [Next]_vars, NEW o \in Request
    PROVE  /\ mfaOtp[o] # "none" => mfaOtp'[o] # "none"
           /\ mfaOtp[o] = "used" => mfaOtp'[o] = "used"
           /\ mfaOtp[o] = "none" /\ mfaOtp'[o] # "none" => pc[o] = "storeOTP"
<1>1. ASSUME NEW r \in Request, Step(r)
      PROVE  mfaOtp' = mfaOtp \/ StoreOTP(r) \/ MarkOTP(r)
  BY <1>1 DEF Step, DeliverOTP, IssueSession, LoadUser, RevokeOld, StoreRotated, RevokeOne,
     DropUnusedResets, StoreReset, SendReset, WriteNewPassword, MarkReset, RevokeAll,
     RevokeAllLogged, WriteUserRow, tables
<1>2. ASSUME NEW r \in Request, Arrival(r) \/ Abort(r) \/ Lapse(r) PROVE mfaOtp' = mfaOtp
  BY <1>2 DEF Arrival, Refuse, Login, VerifyMFA, Refresh, Logout, ForgotPassword, ResetPassword,
     ChangePassword, EnableMFA, Abort, Lapse, tables
<1>3. mfaOtp' = mfaOtp \/ \E r \in Request : StoreOTP(r) \/ MarkOTP(r)
  BY <1>1, <1>2 DEF Next, Served, vars, tables, AccessTokenExpires
<1>4. QED
  BY <1>3 DEF StoreOTP, MarkOTP, MarkOTPUsed, TypeOK, Shape

\* A reset link becomes usable only where ForgotPassword stores it.
LEMMA LinksAge ==
    ASSUME TypeOK, [Next]_vars, NEW q \in Request,
           resetToken[q] # "unused", resetToken'[q] = "unused"
    PROVE  pc[q] = "storeReset"
<1>1. ASSUME NEW r \in Request, Step(r)
      PROVE  resetToken' = resetToken \/ DropUnusedResets(r) \/ StoreReset(r) \/ MarkReset(r)
  BY <1>1 DEF Step, StoreOTP, MarkOTP, DeliverOTP, IssueSession, LoadUser, RevokeOld,
     StoreRotated, RevokeOne, SendReset, WriteNewPassword, RevokeAll, RevokeAllLogged,
     WriteUserRow, tables
<1>2. ASSUME NEW r \in Request, Arrival(r) \/ Abort(r) \/ Lapse(r)
      PROVE  resetToken' = resetToken
  BY <1>2 DEF Arrival, Refuse, Login, VerifyMFA, Refresh, Logout, ForgotPassword, ResetPassword,
     ChangePassword, EnableMFA, Abort, Lapse, tables
<1>3. \E r \in Request : DropUnusedResets(r) \/ StoreReset(r) \/ MarkReset(r)
  BY <1>1, <1>2 DEF Next, Served, vars, tables, AccessTokenExpires
<1>4. QED
  BY <1>3 DEF DropUnusedResets, DeleteUnused, StoreReset, MarkReset, MarkResetUsed, TypeOK

\* After its lookup a handler changes its row only in LoadUser and its history
\* only in WriteNewPassword.
LEMMA MemoryFrozen ==
    ASSUME TypeOK, [Next]_vars, NEW s \in Request, pc[s] # "idle"
    PROVE  /\ pc[s] # "loadUser" => row'[s] = row[s]
           /\ pc[s] # "updatePassword" => prior'[s] = prior[s]
<1> USE DEF TypeOK, tables, locals, Arrives
<1>1. ASSUME NEW r \in Request, Arrival(r)
      PROVE  row'[s] = row[s] /\ prior'[s] = prior[s]
  BY <1>1 DEF Arrival, Refuse, Login, VerifyMFA, Refresh, Logout, ForgotPassword,
     ResetPassword, ChangePassword, EnableMFA
<1>2. ASSUME NEW r \in Request, Step(r)
      PROVE  /\ pc[s] # "loadUser" => row'[s] = row[s]
             /\ pc[s] # "updatePassword" => prior'[s] = prior[s]
  BY <1>2 DEF Step, StoreOTP, DeliverOTP, IssueSession, MarkOTP, LoadUser, RevokeOld,
     StoreRotated, RevokeOne, DropUnusedResets, StoreReset, SendReset, WriteNewPassword,
     MarkReset, RevokeAll, RevokeAllLogged, WriteUserRow
<1>3. ASSUME NEW r \in Request, Abort(r) \/ Lapse(r) PROVE UNCHANGED <<row, prior>>
  BY <1>3 DEF Abort, Lapse
<1>4. QED
  BY <1>1, <1>2, <1>3 DEF Next, Served, vars, AccessTokenExpires

-----------------------------------------------------------------------------
(* The credential invariants are inductive.                                *)

\* The temporary password travels only with its flags: the password statements
\* write another one, and a whole row is written as it was read.
LEMMA NextOnboarding == Typed /\ OnboardingPending /\ [Next]_vars => OnboardingPending'
<1> SUFFICES ASSUME Typed, OnboardingPending, [Next]_vars PROVE OnboardingPending'
  OBVIOUS
<1> USE DEF Typed, TypeOK, UserRow, OnboardingPending
<1>1. ASSUME NEW r \in Request, UNCHANGED users,
             NEW rec \in UserRow, rec.pw = Temporary => rec.mustChange,
             row' = row \/ row' = [row EXCEPT ![r] = rec]
      PROVE  OnboardingPending'
  BY <1>1
<1>2. ASSUME UNCHANGED <<users, row>> PROVE OnboardingPending'
  BY <1>2
<1>3. ASSUME NEW r \in Request, NEW u \in User, UpdatePassword(u, r), UNCHANGED row
      PROVE  OnboardingPending'
  BY <1>3, ConstantsAssumption DEF UpdatePassword
<1>4. ASSUME NEW r \in Request, Login(r) PROVE OnboardingPending'
  <2>1. PICK u \in User : row' = [row EXCEPT ![r] = users[u]]
    BY <1>4 DEF Login
  <2>2. UNCHANGED users
    BY <1>4 DEF Login, tables
  <2>3. QED
    BY <2>1, <2>2
<1>5. ASSUME NEW r \in Request, EnableMFA(r) PROVE OnboardingPending'
  <2>1. PICK u \in User, on \in BOOLEAN : row' = [row EXCEPT ![r] = [users[u] EXCEPT !.mfa = on]]
    BY <1>5 DEF EnableMFA
  <2>2. UNCHANGED users
    BY <1>5 DEF EnableMFA, tables
  <2>3. QED
    BY <2>1, <2>2
<1>6. ASSUME NEW r \in Request, LoadUser(r) PROVE OnboardingPending'
  <2>1. who[r] \in User
    BY <1>6 DEF LoadUser, Attributed, Running
  <2>2. QED
    BY <1>6, <2>1 DEF LoadUser, tables
<1>7. ASSUME NEW r \in Request, WriteUserRow(r) PROVE OnboardingPending'
  BY <1>7 DEF WriteUserRow, UpdateUserRow, locals
<1>8. ASSUME NEW r \in Request, WriteNewPassword(r) PROVE OnboardingPending'
  <2>1. who[r] \in User
    BY <1>8 DEF WriteNewPassword, Attributed, Running
  <2>2. QED
    BY <1>3, <1>8, <2>1 DEF WriteNewPassword
<1>9. ASSUME NEW r \in Request, ChangePassword(r) PROVE OnboardingPending'
  BY <1>3, <1>9 DEF ChangePassword
<1>10. ASSUME NEW r \in Request, Arrival(r) PROVE OnboardingPending'
  BY <1>2, <1>4, <1>5, <1>9, <1>10 DEF Arrival, Refuse, VerifyMFA, Refresh, Logout,
     ForgotPassword, ResetPassword, tables, locals
<1>11. ASSUME NEW r \in Request, Step(r) PROVE OnboardingPending'
  BY <1>2, <1>6, <1>7, <1>8, <1>11 DEF Step, StoreOTP, DeliverOTP, IssueSession, MarkOTP,
     RevokeOld, StoreRotated, RevokeOne, DropUnusedResets, StoreReset, SendReset, MarkReset,
     RevokeAll, RevokeAllLogged, tables, locals
<1>12. ASSUME NEW r \in Request, Abort(r) \/ Lapse(r) PROVE OnboardingPending'
  BY <1>2, <1>12 DEF Abort, Lapse, tables, locals
<1>13. QED
  BY <1>2, <1>10, <1>11, <1>12 DEF Next, Served, vars, AccessTokenExpires, tables, locals

\* A Login goes on to an OTP or a session only with the row that allowed it.
LEMMA NextLogin ==
    Typed /\ Shape /\ OnboardingPending /\ LoginCleared /\ [Next]_vars => LoginCleared'
<1> SUFFICES ASSUME Typed, Shape, OnboardingPending, LoginCleared, [Next]_vars,
                    NEW s \in Request, op'[s] = "Login"
             PROVE  /\ pc'[s] \in {"storeOTP", "deliverOTP", "issueSession"}
                       \/ refreshToken'[s] # "none" \/ mfaOtp'[s] # "none"
                          => row'[s].pw # Temporary
                    /\ pc'[s] = "issueSession" \/ refreshToken'[s] # "none" => ~row'[s].mfa
  BY DEF LoginCleared
<1>1. TypeOK
  BY DEF Typed
<1>2. CASE pc[s] = "idle"
  <2>1. Login(s)
    BY <1>1, <1>2, MethodCalled
  <2>2. PICK u \in User :
          /\ row' = [row EXCEPT ![s] = users[u]]
          /\ \/ users[u].mustChange /\ GoTo(s, "ok")
             \/ /\ ~users[u].mustChange
                /\ GoTo(s, IF users[u].mfa THEN "storeOTP" ELSE "issueSession")
    BY <2>1 DEF Login
  <2>3. refreshToken'[s] = "none" /\ mfaOtp'[s] = "none"
    BY <1>2, <2>1 DEF Login, tables, Shape
  <2>4. row'[s] = users[u]
    BY <1>1, <2>2 DEF TypeOK
  <2>5. QED
    BY <1>1, <2>2, <2>3, <2>4 DEF TypeOK, GoTo, OnboardingPending
<1>3. CASE pc[s] # "idle"
  <2>1. op[s] = "Login" /\ pc[s] # "loadUser" /\ row'[s] = row[s]
    BY <1>1, <1>3, LocalsFrozen, MemoryFrozen DEF Shape
  <2>2. pc'[s] = pc[s] \/ pc'[s] = "failed" \/ <<pc[s], pc'[s]>> \in Flow
    BY <1>1, <1>3, ControlFlow
  <2>3. /\ pc'[s] = "issueSession" => pc[s] = "issueSession"
        /\ pc'[s] = "storeOTP" => pc[s] = "storeOTP"
        /\ pc'[s] = "deliverOTP" => pc[s] \in {"storeOTP", "deliverOTP"}
    BY <2>1, <2>2 DEF Flow
  <2>4. refreshToken'[s] # "none" => refreshToken[s] # "none" \/ pc[s] = "issueSession"
    BY <1>1, <2>1, SessionsAge DEF Shape
  <2>5. mfaOtp'[s] # "none" => mfaOtp[s] # "none" \/ pc[s] = "storeOTP"
    BY <1>1, OtpsAge
  <2>6. QED
    BY <2>1, <2>3, <2>4, <2>5 DEF LoginCleared
<1>4. QED
  BY <1>2, <1>3

\* From MarkOTP on the OTP behind a VerifyMFA is spent, and it is one of its user.
LEMMA NextOtp == Typed /\ Shape /\ OtpSpent /\ [Next]_vars => OtpSpent'
<1> SUFFICES ASSUME Typed, Shape, OtpSpent, [Next]_vars, NEW s \in Request, op'[s] = "VerifyMFA"
             PROVE  /\ tok'[s] \in Request /\ mfaOtp'[tok'[s]] # "none"
                    /\ who'[tok'[s]] = who'[s]
                    /\ pc'[s] \in {"loadUser", "issueSession"} \/ refreshToken'[s] # "none"
                          => mfaOtp'[tok'[s]] = "used"
  BY DEF OtpSpent
<1>1. TypeOK
  BY DEF Typed
<1>2. CASE pc[s] = "idle"
  <2>1. VerifyMFA(s)
    BY <1>1, <1>2, MethodCalled
  <2>2. PICK u \in User, o \in held : FindValidOTP(u, o) /\ Serves("VerifyMFA", s, u, o)
    BY <2>1 DEF VerifyMFA
  <2>3. o \in Request /\ mfaOtp[o] = "unused" /\ who[o] = u
    BY <1>1, <2>2 DEF FindValidOTP, TypeOK
  <2>4. o # s
    BY <1>2, <2>3 DEF Shape
  <2>5. tok'[s] = o /\ who'[s] = u /\ who'[o] = who[o]
    BY <1>1, <2>2, <2>3, <2>4 DEF Serves, TypeOK
  <2>6. UNCHANGED <<mfaOtp, refreshToken>> /\ pc'[s] = "markOTP" /\ refreshToken[s] = "none"
    BY <1>1, <1>2, <2>1 DEF VerifyMFA, tables, GoTo, TypeOK, Shape
  <2>7. QED
    BY <2>3, <2>5, <2>6
<1>3. CASE pc[s] # "idle"
  <2>1. op[s] = "VerifyMFA" /\ tok'[s] = tok[s] /\ who'[s] = who[s]
    BY <1>1, <1>3, LocalsFrozen
  <2>2. tok[s] \in Request /\ mfaOtp[tok[s]] # "none" /\ who[tok[s]] = who[s]
    BY <2>1 DEF OtpSpent
  <2>3. who'[tok[s]] = who[tok[s]]
    BY <1>1, <2>2, LocalsFrozen DEF Shape
  <2>4. ASSUME pc'[s] \in {"loadUser", "issueSession"} \/ refreshToken'[s] # "none"
        PROVE  mfaOtp'[tok[s]] = "used"
    <3>1. CASE pc[s] \in {"loadUser", "issueSession"} \/ refreshToken[s] # "none"
      BY <1>1, <2>1, <2>2, <3>1, OtpsAge DEF OtpSpent
    <3>2. CASE pc'[s] \in {"loadUser", "issueSession"} /\ pc[s] \notin {"loadUser", "issueSession"}
      <4>1. Step(s) /\ <<pc[s], pc'[s]>> \in Flow
        BY <1>1, <1>3, <3>2, ControlFlow
      <4>2. pc[s] = "markOTP"
        BY <3>2, <4>1 DEF Flow
      <4>3. MarkOTP(s)
        BY <4>1, <4>2 DEF Step, StoreOTP, DeliverOTP, IssueSession, LoadUser, RevokeOld,
           StoreRotated, RevokeOne, DropUnusedResets, StoreReset, SendReset, WriteNewPassword,
           MarkReset, RevokeAll, RevokeAllLogged, WriteUserRow
      <4>4. QED
        BY <1>1, <2>2, <4>3 DEF MarkOTP, MarkOTPUsed, TypeOK
    <3>3. CASE refreshToken'[s] # "none" /\ refreshToken[s] = "none"
      <4>1. pc[s] = "issueSession"
        BY <1>1, <2>1, <3>3, SessionsAge DEF Shape
      <4>2. QED
        BY <3>1, <4>1
    <3>4. QED
      BY <2>4, <3>1, <3>2, <3>3
  <2>5. QED
    BY <1>1, <2>1, <2>2, <2>3, <2>4, OtpsAge
<1>4. QED
  BY <1>2, <1>3

\* A usable link was stored by a request past StoreReset, and MarkReset kills it:
\* DeleteUnused may have deleted the row meanwhile, but nothing stores it again.
LEMMA NextLink == Typed /\ Shape /\ LinkSpent /\ [Next]_vars => LinkSpent'
<1> SUFFICES ASSUME Typed, Shape, LinkSpent, [Next]_vars,
                    NEW s \in Request, op'[s] = "ResetPassword"
             PROVE  /\ tok'[s] \in Request
                    /\ pc'[tok'[s]] \in {"sendReset", "ok", "failed"}
                    /\ pc'[s] \in {"revokeAll", "ok"} => resetToken'[tok'[s]] # "unused"
  BY DEF LinkSpent
<1>1. TypeOK
  BY DEF Typed
<1>2. ASSUME NEW q \in Request, pc[q] \in {"sendReset", "ok", "failed"}
      PROVE  pc'[q] \in {"sendReset", "ok", "failed"}
  BY <1>1, <1>2, ControlFlow DEF Flow
<1>3. CASE pc[s] = "idle"
  <2>1. ResetPassword(s)
    BY <1>1, <1>3, MethodCalled
  <2>2. PICK q \in held : FindValidReset(q) /\ Serves("ResetPassword", s, who[q], q)
    BY <2>1 DEF ResetPassword
  <2>3. q \in Request /\ pc[q] \in {"sendReset", "ok", "failed"} /\ tok'[s] = q
    BY <1>1, <2>2 DEF FindValidReset, Serves, TypeOK, Shape
  <2>4. pc'[s] = "updatePassword"
    BY <1>1, <2>1 DEF ResetPassword, GoTo, TypeOK
  <2>5. QED
    BY <1>2, <2>3, <2>4
<1>4. CASE pc[s] # "idle"
  <2>1. op[s] = "ResetPassword" /\ tok'[s] = tok[s]
    BY <1>1, <1>4, LocalsFrozen
  <2>2. tok[s] \in Request /\ pc[tok[s]] \in {"sendReset", "ok", "failed"}
    BY <2>1 DEF LinkSpent
  <2>3. ASSUME pc'[s] \in {"revokeAll", "ok"} PROVE resetToken'[tok[s]] # "unused"
    <3>1. CASE pc[s] \in {"revokeAll", "ok"}
      BY <1>1, <2>1, <2>2, <3>1, LinksAge DEF LinkSpent
    <3>2. CASE pc[s] \notin {"revokeAll", "ok"}
      <4>1. Step(s) /\ <<pc[s], pc'[s]>> \in Flow
        BY <1>1, <1>4, <2>3, <3>2, ControlFlow
      <4>2. pc[s] = "markReset"
        BY <2>1, <2>3, <3>2, <4>1 DEF Flow, Shape
      <4>3. MarkReset(s)
        BY <4>1, <4>2 DEF Step, StoreOTP, DeliverOTP, IssueSession, MarkOTP, LoadUser, RevokeOld,
           StoreRotated, RevokeOne, DropUnusedResets, StoreReset, SendReset, WriteNewPassword,
           RevokeAll, RevokeAllLogged, WriteUserRow
      <4>4. QED
        BY <1>1, <2>2, <4>3 DEF MarkReset, MarkResetUsed, TypeOK
    <3>3. QED
      BY <3>1, <3>2
  <2>4. QED
    BY <1>2, <2>1, <2>2, <2>3
<1>5. QED
  BY <1>3, <1>4

\* A session keeps its user and never leaves the store.
LEMMA SessionsStay ==
    ASSUME TypeOK, Shape, [Next]_vars, NEW t \in Request, refreshToken[t] # "none"
    PROVE  who'[t] = who[t] /\ refreshToken'[t] # "none"
<1>1. pc[t] # "idle"
  BY DEF Shape
<1>2. QED
  BY <1>1, LocalsFrozen, SessionsAge

\* RevokeAllForUser finds every session that was there when the password was
\* written, because sessions keep their user, and what it revokes stays revoked.
LEMMA NextEnded == Typed /\ Shape /\ SessionsEnded /\ [Next]_vars => SessionsEnded'
<1> SUFFICES ASSUME Typed, Shape, SessionsEnded, [Next]_vars,
                    NEW s \in Request, op'[s] = "ResetPassword"
             PROVE  /\ pc'[s] \in {"markReset", "revokeAll", "ok"} =>
                          \A t \in prior'[s] : /\ t \in Request /\ who'[t] = who'[s]
                                              /\ refreshToken'[t] # "none"
                    /\ pc'[s] = "ok" => \A t \in prior'[s] : refreshToken'[t] = "revoked"
  BY DEF SessionsEnded
<1>1. TypeOK
  BY DEF Typed
<1>2. CASE pc[s] = "idle"
  <2>1. ResetPassword(s)
    BY <1>1, <1>2, MethodCalled
  <2>2. QED
    BY <1>1, <2>1 DEF ResetPassword, GoTo, TypeOK
<1>3. CASE pc[s] # "idle"
  <2>1. op[s] = "ResetPassword" /\ who'[s] = who[s]
    BY <1>1, <1>3, LocalsFrozen
  <2>2. CASE pc'[s] = pc[s] /\ pc[s] \in {"markReset", "revokeAll", "ok"}
    <3>1. /\ prior'[s] = prior[s]
          /\ \A t \in prior[s] : t \in Request /\ who[t] = who[s] /\ refreshToken[t] # "none"
      BY <1>1, <1>3, <2>1, <2>2, MemoryFrozen DEF SessionsEnded
    <3>2. \A t \in prior[s] : who'[t] = who'[s] /\ refreshToken'[t] # "none"
      BY <1>1, <2>1, <3>1, SessionsStay
    <3>3. pc[s] = "ok" => \A t \in prior[s] : refreshToken[t] = "revoked"
      BY <2>1 DEF SessionsEnded
    <3>4. QED
      BY <1>1, <2>1, <2>2, <3>1, <3>2, <3>3, SessionsAge
  <2>3. CASE pc'[s] # pc[s] /\ pc'[s] \in {"markReset", "revokeAll", "ok"}
    <3>1. Step(s) /\ <<pc[s], pc'[s]>> \in Flow
      BY <1>1, <1>3, <2>3, ControlFlow
    <3>2. \/ pc[s] = "updatePassword" /\ pc'[s] = "markReset"
          \/ pc[s] = "markReset" /\ pc'[s] = "revokeAll"
          \/ pc[s] = "revokeAll" /\ pc'[s] = "ok"
      BY <2>1, <2>3, <3>1 DEF Flow, Shape
    <3>3. CASE pc[s] = "updatePassword"
      <4>1. WriteNewPassword(s)
        BY <3>1, <3>3 DEF Step, StoreOTP, DeliverOTP, IssueSession, MarkOTP, LoadUser, RevokeOld,
           StoreRotated, RevokeOne, DropUnusedResets, StoreReset, SendReset, MarkReset, RevokeAll,
           RevokeAllLogged, WriteUserRow
      <4>2. prior'[s] = SessionsOf(who[s])
        BY <1>1, <4>1 DEF WriteNewPassword, TypeOK
      <4>3. \A t \in prior'[s] : t \in Request /\ who[t] = who[s] /\ refreshToken[t] # "none"
        BY <4>2 DEF SessionsOf
      <4>4. QED
        BY <1>1, <2>1, <3>2, <3>3, <4>3, SessionsStay
    <3>4. CASE pc[s] \in {"markReset", "revokeAll"}
      <4>1. /\ prior'[s] = prior[s]
            /\ \A t \in prior[s] : t \in Request /\ who[t] = who[s] /\ refreshToken[t] # "none"
        BY <1>1, <1>3, <2>1, <3>4, MemoryFrozen DEF SessionsEnded
      <4>2. \A t \in prior[s] : who'[t] = who'[s] /\ refreshToken'[t] # "none"
        BY <1>1, <2>1, <4>1, SessionsStay
      <4>3. ASSUME pc[s] = "revokeAll" PROVE \A t \in prior[s] : refreshToken'[t] = "revoked"
        <5>1. RevokeAll(s)
          BY <3>1, <4>3 DEF Step, StoreOTP, DeliverOTP, IssueSession, MarkOTP, LoadUser, RevokeOld,
             StoreRotated, RevokeOne, DropUnusedResets, StoreReset, SendReset, WriteNewPassword,
             MarkReset, RevokeAllLogged, WriteUserRow
        <5>2. QED
          BY <4>1, <5>1 DEF RevokeAll, RevokeAllForUser
      <4>4. QED
        BY <2>1, <3>2, <3>4, <4>1, <4>2, <4>3
    <3>5. QED
      BY <3>2, <3>3, <3>4
  <2>4. QED
    BY <2>2, <2>3
<1>4. QED
  BY <1>2, <1>3

\* The credential invariant is inductive.
LEMMA NextCredentials == CredentialInv /\ [Next]_vars => CredentialInv'
  BY NextTyped, NextShape, NextRotation, NextOnboarding, NextLogin, NextOtp, NextLink, NextEnded
  DEF CredentialInv, SessionInv, Typed

\* Nobody has presented a credential yet, and new accounts wait for onboarding.
LEMMA InitCredentials == Init => CredentialInv
<1> SUFFICES ASSUME Init PROVE CredentialInv
  OBVIOUS
<1>1. Typed /\ Shape /\ Rotation
  <2>1. Shape
    BY DEF Init, Shape
  <2>2. Rotation
    BY ConstantsAssumption DEF Init, Rotation, Method
  <2>3. QED
    BY <2>1, <2>2, InitTyped
<1>2. OnboardingPending
  BY ConstantsAssumption DEF Init, OnboardingPending, Blank
<1>3. \A r \in Request : op[r] = None
  BY DEF Init
<1>4. None \notin {"Login", "VerifyMFA", "ResetPassword"}
  BY ConstantsAssumption DEF Method
<1>5. LoginCleared /\ OtpSpent /\ LinkSpent /\ SessionsEnded
  BY <1>3, <1>4 DEF LoginCleared, OtpSpent, LinkSpent, SessionsEnded
<1>6. QED
  BY <1>1, <1>2, <1>5 DEF CredentialInv, SessionInv

\* Every reachable state satisfies the credential invariant.
LEMMA CredentialInvariant == Spec => []CredentialInv
  BY InitCredentials, NextCredentials, PTL DEF Spec

-----------------------------------------------------------------------------
(* The theorems about requests that overlap in any way.                    *)

\* Whatever runs at the same time, a login of an account with MFA opens no
\* session by itself, and the one that opens it has spent an OTP of that account.
THEOREM SecondFactorHolds == Spec => []SecondFactor
<1>1. CredentialInv => SecondFactor
  BY DEF CredentialInv, SecondFactor, LoginCleared, OtpSpent
<1>2. QED
  BY <1>1, CredentialInvariant, PTL

\* A completed ResetPassword has killed its link and every session its user had
\* when the new password was written.
THEOREM ResetEndsSessionsHolds == Spec => []ResetEndsSessions
<1>1. CredentialInv => ResetEndsSessions
  BY DEF CredentialInv, ResetEndsSessions, LinkSpent, SessionsEnded
<1>2. QED
  BY <1>1, CredentialInvariant, PTL

\* No session was opened with the password CreateUser mailed.
THEOREM SessionNeedsChosenPasswordHolds == Spec => []SessionNeedsChosenPassword
<1>1. CredentialInv => SessionNeedsChosenPassword
  <2> SUFFICES ASSUME CredentialInv, NEW r \in Request, op[r] \in {"Login", "VerifyMFA"},
                      refreshToken[r] # "none"
               PROVE  SessionPassword(r) # Temporary
    BY DEF SessionNeedsChosenPassword
  <2>1. CASE op[r] = "Login"
    BY <2>1 DEF CredentialInv, LoginCleared, SessionPassword
  <2>2. CASE op[r] = "VerifyMFA"
    <3>1. tok[r] \in Request /\ mfaOtp[tok[r]] # "none"
      BY <2>2 DEF CredentialInv, OtpSpent
    <3>2. op[tok[r]] = "Login" /\ row[tok[r]].pw # Temporary
      BY <3>1 DEF CredentialInv, SessionInv, Shape, LoginCleared
    <3>3. QED
      BY <2>2, <3>2 DEF SessionPassword
  <2>3. QED
    BY <2>1, <2>2
<1>2. QED
  BY <1>1, CredentialInvariant, PTL

-----------------------------------------------------------------------------
(* Requests that do not overlap: MaxInFlight is at most one.               *)

\* A request is accepted only when no handler runs, and disturbs no other.
LEMMA ArrivesAlone ==
    ASSUME TypeOK, Alone, MaxInFlight \leq 1, [Next]_vars,
           NEW r \in Request, pc[r] = "idle", pc'[r] # "idle"
    PROVE  /\ \A s \in Request : pc[s] \notin Running
           /\ \A s \in Request \ {r} : pc'[s] = pc[s] /\ op'[s] = op[s] /\ tok'[s] = tok[s]
<1>1. Arrival(r)
  <2>1. ASSUME NEW s \in Request, Step(s) \/ Abort(s) \/ Lapse(s) PROVE FALSE
    BY <2>1 DEF TypeOK, Step, StoreOTP, DeliverOTP, IssueSession, MarkOTP, LoadUser, RevokeOld,
       StoreRotated, RevokeOne, DropUnusedResets, StoreReset, SendReset, WriteNewPassword,
       MarkReset, RevokeAll, RevokeAllLogged, WriteUserRow, Abort, Lapse, Running, Reply, GoTo
  <2>2. ASSUME NEW s \in Request, Arrival(s) PROVE s = r
    BY <2>2 DEF TypeOK, Arrival, Refuse, Login, VerifyMFA, Refresh, Logout, ForgotPassword,
       ResetPassword, ChangePassword, EnableMFA, Reply, GoTo
  <2>3. QED
    BY <2>1, <2>2 DEF Next, Served, vars, AccessTokenExpires
<1>2. Cardinality(InFlight) < MaxInFlight
  BY <1>1 DEF Arrival, Refuse, Login, VerifyMFA, Refresh, Logout, ForgotPassword, ResetPassword,
     ChangePassword, EnableMFA, Arrives
<1>3. InFlight = {}
  <2>1. SUFFICES ASSUME NEW q \in InFlight PROVE FALSE
    OBVIOUS
  <2>2. InFlight = {q}
    BY DEF InFlight, Alone
  <2>3. Cardinality(InFlight) = 1
    BY <2>2, FS_Singleton
  <2>4. QED
    BY <1>2, <2>3, ConstantsAssumption
<1>4. \A s \in Request : pc[s] \notin Running
  BY <1>3 DEF InFlight
<1>5. \A s \in Request \ {r} : pc'[s] = pc[s] /\ op'[s] = op[s] /\ tok'[s] = tok[s]
  BY <1>1 DEF TypeOK, Arrival, Refuse, Login, VerifyMFA, Refresh, Logout, ForgotPassword,
     ResetPassword, ChangePassword, EnableMFA, Reply, GoTo, Serves, locals
<1>6. QED
  BY <1>4, <1>5

\* A handler that runs after a step ran before it or has just been accepted.
LEMMA RunningBefore ==
    ASSUME TypeOK, [Next]_vars, NEW s \in Request, pc[s] # "idle", pc'[s] \in Running
    PROVE  pc[s] \in Running
  BY ControlFlow DEF Flow, Running, Finished

\* Accepting a request and stepping the one that runs never make two of them.
LEMMA NextAlone ==
    ASSUME TypeOK, Alone, MaxInFlight \leq 1, [Next]_vars
    PROVE  Alone'
<1> SUFFICES ASSUME NEW r \in Request, NEW s \in Request, pc'[r] \in Running, pc'[s] \in Running
             PROVE  r = s
  BY DEF Alone
<1>1. "idle" \notin Running
  BY DEF Running
<1>2. ASSUME NEW a \in Request, NEW b \in Request, pc[a] = "idle",
             pc'[a] \in Running, pc'[b] \in Running
      PROVE  a = b
  BY <1>1, <1>2, ArrivesAlone
<1>3. CASE pc[r] # "idle" /\ pc[s] # "idle"
  BY <1>3, RunningBefore DEF Alone
<1>4. QED
  BY <1>2, <1>3

\* What the running handler looked up was unused then, and nobody else has run
\* since.
LEMMA NextFirstUse ==
    ASSUME CredentialInv, Alone, FirstUse, MaxInFlight \leq 1, [Next]_vars
    PROVE  FirstUse'
<1>1. TypeOK /\ Shape /\ Rotation
  BY DEF CredentialInv, SessionInv, Typed
<1> SUFFICES ASSUME NEW r \in Request, NEW s \in Request, r # s, pc'[r] \in Running,
                    tok'[r] = tok'[s], op'[r] = op'[s],
                    op'[r] \in {"Refresh", "VerifyMFA", "ResetPassword"}
             PROVE  /\ op'[r] \in {"Refresh", "VerifyMFA"} => refreshToken'[s] = "none"
                    /\ op'[r] = "ResetPassword" => pc'[s] # "ok"
  BY DEF FirstUse
<1>2. "idle" \notin Running
  BY DEF Running
<1>3. CASE pc[r] = "idle"
  <2>1. \A q \in Request \ {r} : pc'[q] = pc[q] /\ op'[q] = op[q] /\ tok'[q] = tok[q]
    BY <1>1, <1>2, <1>3, ArrivesAlone
  <2>2. op[s] = op'[r] /\ tok[s] = tok'[r] /\ pc'[s] = pc[s]
    BY <2>1
  <2>3. CASE op'[r] = "Refresh"
    <3>1. Refresh(r)
      BY <1>1, <1>3, <2>3, MethodCalled
    <3>2. refreshToken[tok'[r]] = "active" /\ refreshToken' = refreshToken
      BY <1>1, <3>1 DEF Refresh, Serves, FindActiveByHash, TypeOK, tables
    <3>3. QED
      BY <1>1, <2>2, <2>3, <3>2 DEF Rotation
  <2>4. CASE op'[r] = "VerifyMFA"
    <3>1. VerifyMFA(r)
      BY <1>1, <1>3, <2>4, MethodCalled
    <3>2. mfaOtp[tok'[r]] = "unused" /\ refreshToken' = refreshToken
      BY <1>1, <3>1 DEF VerifyMFA, Serves, FindValidOTP, TypeOK, tables
    <3>3. QED
      BY <2>2, <2>4, <3>2 DEF CredentialInv, OtpSpent
  <2>5. CASE op'[r] = "ResetPassword"
    <3>1. ResetPassword(r)
      BY <1>1, <1>3, <2>5, MethodCalled
    <3>2. resetToken[tok'[r]] = "unused"
      BY <1>1, <3>1 DEF ResetPassword, Serves, FindValidReset, TypeOK
    <3>3. QED
      BY <2>2, <2>5, <3>2 DEF CredentialInv, LinkSpent
  <2>6. QED
    BY <2>3, <2>4, <2>5
<1>4. CASE pc[r] # "idle"
  <2>1. pc[r] \in Running
    BY <1>1, <1>4, RunningBefore
  <2>2. op[r] = op'[r] /\ tok[r] = tok'[r]
    BY <1>1, <1>4, LocalsFrozen
  <2>3. pc[s] # "idle"
    <3>1. SUFFICES ASSUME pc[s] = "idle" PROVE FALSE
      OBVIOUS
    <3>2. Refresh(s) \/ VerifyMFA(s) \/ ResetPassword(s)
      BY <1>1, <3>1, MethodCalled
    <3>3. pc'[s] # "idle"
      BY <1>1, <3>2 DEF Refresh, VerifyMFA, ResetPassword, GoTo, TypeOK
    <3>4. QED
      BY <1>1, <2>1, <3>1, <3>3, ArrivesAlone
  <2>4. op[s] = op[r] /\ tok[s] = tok[r] /\ pc[s] \notin Running
    BY <1>1, <2>1, <2>2, <2>3, LocalsFrozen DEF Alone
  <2>5. refreshToken'[s] # "none" => refreshToken[s] # "none"
    BY <1>1, <2>4, SessionsAge DEF Running
  <2>6. pc'[s] = "ok" => pc[s] = "ok"
    BY <1>1, <2>3, <2>4, ControlFlow DEF Flow, Running
  <2>7. QED
    BY <2>1, <2>2, <2>4, <2>5, <2>6 DEF FirstUse
<1>5. QED
  BY <1>3, <1>4

\* A session that is new after a step is that of the one running handler.
LEMMA SessionIsNew ==
    ASSUME TypeOK, Shape, [Next]_vars, NEW r \in Request, refreshToken'[r] # "none"
    PROVE  /\ pc[r] # "idle" /\ op'[r] = op[r] /\ tok'[r] = tok[r]
           /\ refreshToken[r] # "none" \/ pc[r] \in Running
<1>1. refreshToken[r] # "none" \/ pc[r] \in {"issueSession", "storeRotated"}
  BY SessionsAge
<1>2. pc[r] # "idle"
  BY <1>1 DEF Shape
<1>3. QED
  BY <1>1, <1>2, LocalsFrozen DEF Running

\* Two sessions never come from one refresh token or one OTP: when the second is
\* opened the first is there, and then the second handler had found it spent.
LEMMA NextOnce ==
    ASSUME CredentialInv, Alone, FirstUse, RotatesOnce, CredentialsWorkOnce, [Next]_vars
    PROVE  RotatesOnce' /\ CredentialsWorkOnce'
<1>1. TypeOK /\ Shape
  BY DEF CredentialInv, SessionInv, Typed
<1>2. ASSUME NEW r \in Request, NEW s \in Request, refreshToken'[r] # "none",
             refreshToken'[s] # "none", tok'[r] = tok'[s], op'[r] = op'[s],
             op'[r] \in {"Refresh", "VerifyMFA"}
      PROVE  r = s
  <2>1. /\ op[r] = op[s] /\ tok[r] = tok[s] /\ op[r] \in {"Refresh", "VerifyMFA"}
        /\ refreshToken[r] # "none" \/ pc[r] \in Running
        /\ refreshToken[s] # "none" \/ pc[s] \in Running
    BY <1>1, <1>2, SessionIsNew
  <2>2. CASE refreshToken[r] # "none" /\ refreshToken[s] # "none"
    <3>1. op[r] = "Refresh" => r = s
      BY <2>1, <2>2 DEF RotatesOnce
    <3>2. ASSUME op[r] = "VerifyMFA" PROVE r = s
      <4>1. tok[r] \in Request
        BY <3>2 DEF CredentialInv, OtpSpent
      <4>2. tok[r] # None
        BY <4>1, ConstantsAssumption
      <4>3. QED
        BY <2>1, <2>2, <3>2, <4>2 DEF CredentialsWorkOnce
    <3>3. QED
      BY <2>1, <3>1, <3>2
  <2>3. CASE pc[r] \in Running /\ refreshToken[s] # "none"
    BY <2>1, <2>3 DEF FirstUse
  <2>4. CASE refreshToken[r] # "none" /\ pc[s] \in Running
    BY <2>1, <2>4 DEF FirstUse
  <2>5. CASE pc[r] \in Running /\ pc[s] \in Running
    BY <2>5 DEF Alone
  <2>6. QED
    BY <2>1, <2>2, <2>3, <2>4, <2>5
<1>3. ASSUME NEW r \in Request, NEW s \in Request, pc'[r] = "ok", pc'[s] = "ok",
             tok'[r] = tok'[s], op'[r] = "ResetPassword", op'[s] = "ResetPassword"
      PROVE  r = s
  <2>1. ASSUME NEW q \in Request, pc'[q] = "ok", op'[q] = "ResetPassword"
        PROVE  /\ op[q] = op'[q] /\ tok[q] = tok'[q]
               /\ pc[q] = "ok" \/ pc[q] \in Running
    <3>1. pc[q] # "idle"
      <4>1. SUFFICES ASSUME pc[q] = "idle" PROVE FALSE
        OBVIOUS
      <4>2. ResetPassword(q)
        BY <1>1, <2>1, <4>1, MethodCalled
      <4>3. QED
        BY <1>1, <2>1, <4>2 DEF ResetPassword, GoTo, TypeOK
    <3>2. pc[q] = "ok" \/ pc[q] \in Running
      BY <1>1, <2>1, <3>1, ControlFlow DEF Flow, Running
    <3>3. QED
      BY <1>1, <3>1, <3>2, LocalsFrozen
  <2>2. /\ op[r] = "ResetPassword" /\ op[s] = "ResetPassword" /\ tok[r] = tok[s]
        /\ pc[r] = "ok" \/ pc[r] \in Running
        /\ pc[s] = "ok" \/ pc[s] \in Running
    BY <1>3, <2>1
  <2>3. CASE pc[r] = "ok" /\ pc[s] = "ok"
    <3>1. tok[r] \in Request
      BY <2>2 DEF CredentialInv, LinkSpent
    <3>2. tok[r] # None
      BY <3>1, ConstantsAssumption
    <3>3. QED
      BY <2>2, <2>3, <3>2 DEF CredentialsWorkOnce
  <2>4. CASE pc[r] \in Running /\ pc[s] = "ok"
    BY <2>2, <2>4 DEF FirstUse
  <2>5. CASE pc[r] = "ok" /\ pc[s] \in Running
    BY <2>2, <2>5 DEF FirstUse
  <2>6. CASE pc[r] \in Running /\ pc[s] \in Running
    BY <2>6 DEF Alone
  <2>7. QED
    BY <2>2, <2>3, <2>4, <2>5, <2>6
<1>4. RotatesOnce'
  BY <1>2 DEF RotatesOnce
<1>5. CredentialsWorkOnce'
  BY <1>2, <1>3 DEF CredentialsWorkOnce
<1>6. QED
  BY <1>4, <1>5

\* Three statements write the users table.
LEMMA UsersWritten ==
    ASSUME [Next]_vars, users' # users
    PROVE  \E r \in Request : ChangePassword(r) \/ WriteNewPassword(r) \/ WriteUserRow(r)
<1>1. ASSUME NEW r \in Request, Arrival(r) PROVE ChangePassword(r)
  BY <1>1 DEF Arrival, Refuse, Login, VerifyMFA, Refresh, Logout, ForgotPassword,
     ResetPassword, EnableMFA, tables
<1>2. ASSUME NEW r \in Request, Step(r) PROVE WriteNewPassword(r) \/ WriteUserRow(r)
  BY <1>2 DEF Step, StoreOTP, DeliverOTP, IssueSession, MarkOTP, LoadUser, RevokeOld,
     StoreRotated, RevokeOne, DropUnusedResets, StoreReset, SendReset, MarkReset, RevokeAll,
     RevokeAllLogged, tables
<1>3. ASSUME NEW r \in Request, Abort(r) \/ Lapse(r) PROVE FALSE
  BY <1>3 DEF Abort, Lapse, tables
<1>4. QED
  BY <1>1, <1>2, <1>3 DEF Next, Served, vars, AccessTokenExpires, tables

\* Between the read and the write of EnableMFA nobody writes the row.
LEMMA NextRowCurrent ==
    ASSUME Typed, Typed', Shape, Shape', Alone, RowCurrent, MaxInFlight \leq 1, [Next]_vars
    PROVE  RowCurrent'
<1> SUFFICES ASSUME NEW s \in Request, pc'[s] = "updateUser"
             PROVE  row'[s].pw = users'[who'[s]].pw
  BY DEF RowCurrent
<1>1. TypeOK /\ op'[s] = "EnableMFA"
  BY DEF Typed, Shape
<1>2. CASE pc[s] = "idle"
  <2>1. EnableMFA(s)
    BY <1>1, <1>2, MethodCalled
  <2>2. PICK u \in User, on \in BOOLEAN :
          /\ Serves("EnableMFA", s, u, None)
          /\ row' = [row EXCEPT ![s] = [users[u] EXCEPT !.mfa = on]]
    BY <1>1, <2>1 DEF EnableMFA, TypeOK
  <2>3. who'[s] = u /\ users' = users
    BY <1>1, <2>1, <2>2 DEF EnableMFA, Serves, TypeOK, tables
  <2>4. row'[s].pw = users[u].pw
    BY <1>1, <2>2 DEF TypeOK, UserRow
  <2>5. QED
    BY <2>3, <2>4
<1>3. CASE pc[s] # "idle"
  <2>1. pc[s] = "updateUser"
    BY <1>1, <1>3, ControlFlow DEF Flow
  <2>2. row'[s] = row[s] /\ who'[s] = who[s]
    BY <1>1, <1>3, <2>1, MemoryFrozen, LocalsFrozen
  <2>3. users' = users
    <3>1. SUFFICES ASSUME NEW r \in Request,
                          ChangePassword(r) \/ WriteNewPassword(r) \/ WriteUserRow(r)
                   PROVE  FALSE
      BY UsersWritten
    <3>2. CASE ChangePassword(r)
      <4>1. pc[r] = "idle" /\ pc'[r] # "idle"
        BY <1>1, <3>2 DEF ChangePassword, Arrives, Reply, GoTo, TypeOK
      <4>2. QED
        BY <1>1, <2>1, <4>1, ArrivesAlone DEF Running
    <3>3. CASE WriteNewPassword(r)
      BY <2>1, <3>3 DEF WriteNewPassword, Alone, Running
    <3>4. CASE WriteUserRow(r)
      <4>1. r = s
        BY <2>1, <3>4 DEF WriteUserRow, Alone, Running
      <4>2. QED
        BY <1>1, <3>4, <4>1 DEF WriteUserRow, Reply, GoTo, TypeOK
    <3>5. QED
      BY <3>1, <3>2, <3>3, <3>4
  <2>4. QED
    BY <2>1, <2>2, <2>3 DEF RowCurrent
<1>4. QED
  BY <1>2, <1>3

\* The invariant of requests that do not overlap is inductive.
LEMMA SerialInvariant == Spec => []SerialInv
<1>1. Init => SerialInv
  <2>1. SUFFICES ASSUME Init PROVE Overlapless
    BY InitCredentials DEF SerialInv
  <2>2. \A r \in Request : pc[r] = "idle" /\ refreshToken[r] = "none"
    BY <2>1 DEF Init
  <2>3. QED
    BY <2>2 DEF Overlapless, Alone, FirstUse, RotatesOnce, CredentialsWorkOnce, RowCurrent, Running
<1>2. SerialInv /\ [Next]_vars => SerialInv'
  <2>1. SUFFICES ASSUME CredentialInv, Overlapless, MaxInFlight \leq 1, [Next]_vars
                 PROVE  Overlapless'
    BY NextCredentials DEF SerialInv
  <2>2. Typed /\ Typed' /\ TypeOK /\ Shape /\ Shape'
    BY <2>1, NextCredentials DEF CredentialInv, SessionInv, Typed
  <2>3. Alone' /\ FirstUse'
    BY <2>1, <2>2, NextAlone, NextFirstUse DEF Overlapless
  <2>4. RotatesOnce' /\ CredentialsWorkOnce'
    BY <2>1, NextOnce DEF Overlapless
  <2>5. RowCurrent'
    BY <2>1, <2>2, NextRowCurrent DEF Overlapless
  <2>6. QED
    BY <2>3, <2>4, <2>5 DEF Overlapless
<1>3. QED
  BY <1>1, <1>2, PTL DEF Spec

\* Served one at a time, refreshes exchange a refresh token at most once.
THEOREM RotatesOnceSerially ==
    ASSUME MaxInFlight \leq 1
    PROVE  Spec => []RotatesOnce
<1>1. SerialInv => RotatesOnce
  BY DEF SerialInv, Overlapless
<1>2. QED
  BY <1>1, SerialInvariant, PTL

\* Served one at a time, an OTP opens at most one session and a reset link
\* completes at most once.
THEOREM CredentialsWorkOnceSerially ==
    ASSUME MaxInFlight \leq 1
    PROVE  Spec => []CredentialsWorkOnce
<1>1. SerialInv => CredentialsWorkOnce
  BY DEF SerialInv, Overlapless
<1>2. QED
  BY <1>1, SerialInvariant, PTL

\* Served one at a time, no write of a users row brings an old password back.
THEOREM PasswordMovesForwardSerially ==
    ASSUME MaxInFlight \leq 1
    PROVE  Spec => PasswordMovesForward
<1> DEFINE Forward ==
      \A u \in User : users'[u].pw # users[u].pw =>
          \E r \in Request : users'[u].pw = r /\ pc[r] \in {"idle", "updatePassword"}
<1>1. SerialInv /\ [Next]_vars => [Forward]_users
  <2> SUFFICES ASSUME SerialInv, [Next]_vars, users' # users,
                      NEW u \in User, users'[u].pw # users[u].pw
               PROVE  \E r \in Request : users'[u].pw = r /\ pc[r] \in {"idle", "updatePassword"}
    OBVIOUS
  <2>1. TypeOK
    BY DEF SerialInv, CredentialInv, SessionInv, Typed
  <2>2. PICK r \in Request : ChangePassword(r) \/ WriteNewPassword(r) \/ WriteUserRow(r)
    BY UsersWritten
  <2>3. CASE ChangePassword(r)
    <3>1. PICK v \in User : UpdatePassword(v, r)
      BY <2>1, <2>3 DEF ChangePassword, TypeOK
    <3>2. pc[r] = "idle" /\ users'[u].pw = r
      BY <2>1, <2>3, <3>1 DEF ChangePassword, Arrives, UpdatePassword, TypeOK, UserRow
    <3>3. QED
      BY <3>2
  <2>4. CASE WriteNewPassword(r)
    <3>1. pc[r] = "updatePassword" /\ users'[u].pw = r
      BY <2>1, <2>4 DEF WriteNewPassword, UpdatePassword, TypeOK, UserRow
    <3>2. QED
      BY <3>1
  <2>5. CASE WriteUserRow(r)
    <3>1. row[r].pw = users[who[r]].pw
      BY <2>5 DEF WriteUserRow, SerialInv, Overlapless, RowCurrent
    <3>2. users' = [users EXCEPT ![who[r]] = row[r]]
      BY <2>5 DEF WriteUserRow, UpdateUserRow
    <3>3. QED
      BY <2>1, <3>1, <3>2 DEF TypeOK
  <2>6. QED
    BY <2>2, <2>3, <2>4, <2>5
<1>2. QED
  BY <1>1, SerialInvariant, PTL DEF Spec, PasswordMovesForward

-----------------------------------------------------------------------------
(* The handlers implement SessionLifecycle.                                *)

\* The mapped variables: the user of a stored token, and the token it replaced.
SessionOwner == [r \in Request |-> IF refreshToken[r] = "none" THEN None ELSE who[r]]

Replaced == [r \in Request |-> IF refreshToken[r] # "none" /\ op[r] = "Refresh"
                               THEN tok[r] ELSE None]

\* A step that stores no session leaves owners and predecessors as they were.
LEMMA MappingKept ==
    ASSUME TypeOK, Shape, [Next]_vars,
           \A t \in Request : refreshToken[t] = "none" => refreshToken'[t] = "none"
    PROVE  SessionOwner' = SessionOwner /\ Replaced' = Replaced
<1>1. ASSUME NEW t \in Request, refreshToken[t] # "none"
      PROVE  refreshToken'[t] # "none" /\ who'[t] = who[t] /\ op'[t] = op[t] /\ tok'[t] = tok[t]
  <2>1. pc[t] # "idle"
    BY <1>1 DEF Shape
  <2>2. QED
    BY <1>1, <2>1, LocalsFrozen, SessionsAge
<1>2. QED
  BY <1>1 DEF SessionOwner, Replaced

\* The statements that store a session are an Open or a Rotate.
LEMMA StoreSimulates ==
    ASSUME SessionInv, NEW r \in Request, IssueSession(r) \/ StoreRotated(r)
    PROVE  Lifecycle!Next
<1>1. TypeOK /\ Shape /\ Rotation /\ who[r] \in User
  BY DEF SessionInv, Typed, Attributed, IssueSession, StoreRotated, Running
<1>2. /\ refreshToken[r] = "none"
      /\ refreshToken' = [refreshToken EXCEPT ![r] = "active"]
      /\ UNCHANGED <<op, who, tok>>
  BY <1>1 DEF IssueSession, StoreRotated, CreateSession, Shape, locals
<1>3. SessionOwner' = [SessionOwner EXCEPT ![r] = who[r]]
  BY <1>1, <1>2 DEF SessionOwner, TypeOK
<1>4. CASE IssueSession(r)
  <2>1. op[r] # "Refresh"
    BY <1>1, <1>4 DEF IssueSession, Shape
  <2>2. Replaced' = [Replaced EXCEPT ![r] = None]
    BY <1>1, <1>2, <2>1 DEF Replaced, TypeOK
  <2>3. Lifecycle!Open(r, who[r])
    BY <1>2, <1>3, <2>2 DEF Lifecycle!Open, Lifecycle!Add, SessionOwner, Replaced
  <2>4. QED
    BY <1>1, <2>3 DEF Lifecycle!Next
<1>5. CASE StoreRotated(r)
  <2>1. op[r] = "Refresh" /\ pc[r] = "storeRotated"
    BY <1>1, <1>5 DEF StoreRotated, Shape
  <2>2. tok[r] \in Request /\ refreshToken[tok[r]] = "revoked" /\ who[tok[r]] = who[r]
    BY <1>1, <2>1 DEF Rotation
  <2>3. Replaced' = [Replaced EXCEPT ![r] = tok[r]]
    BY <1>1, <1>2, <2>1 DEF Replaced, TypeOK
  <2>4. SessionOwner[tok[r]] = who[r]
    BY <2>2 DEF SessionOwner
  <2>5. Lifecycle!Add(r, SessionOwner[tok[r]], tok[r])
    BY <1>2, <1>3, <2>3, <2>4 DEF Lifecycle!Add, SessionOwner, Replaced
  <2>6. Lifecycle!Rotate(r, tok[r])
    BY <2>2, <2>5 DEF Lifecycle!Rotate, SessionOwner
  <2>7. QED
    BY <2>2, <2>6 DEF Lifecycle!Next
<1>6. QED
  BY <1>4, <1>5

\* A statement that revokes sessions of one user is an End.
LEMMA RevokeSimulates ==
    ASSUME SessionInv, [Next]_vars, NEW u \in User, NEW S \in SUBSET SessionsOf(u),
           refreshToken' = [t \in Request |-> IF t \in S THEN "revoked" ELSE refreshToken[t]]
    PROVE  Lifecycle!Next
<1>1. TypeOK /\ Shape
  BY DEF SessionInv, Typed
<1>2. S \subseteq Request /\ \A t \in S : SessionOwner[t] = u /\ refreshToken[t] # "none"
  BY DEF SessionsOf, SessionOwner
<1>3. SessionOwner' = SessionOwner /\ Replaced' = Replaced
  BY <1>1, <1>2, MappingKept
<1>4. Lifecycle!End(S, u)
  BY <1>2, <1>3 DEF Lifecycle!End, SessionOwner, Replaced
<1>5. QED
  BY <1>2, <1>4 DEF Lifecycle!Next

\* Every step of the handlers is a step of the session life cycle or leaves the
\* mapped variables as they are.
LEMMA StepSimulates == SessionInv /\ [Next]_vars => [Lifecycle!Next]_(Lifecycle!vars)
<1> SUFFICES ASSUME SessionInv, [Next]_vars PROVE [Lifecycle!Next]_(Lifecycle!vars)
  OBVIOUS
<1>1. TypeOK /\ Shape /\ Rotation
  BY DEF SessionInv, Typed
<1>2. CASE UNCHANGED refreshToken
  <2>1. SessionOwner' = SessionOwner /\ Replaced' = Replaced
    BY <1>1, <1>2, MappingKept
  <2>2. QED
    BY <1>2, <2>1 DEF Lifecycle!vars, SessionOwner, Replaced
<1>3. ASSUME NEW r \in Request, RevokeOld(r) \/ RevokeOne(r) PROVE Lifecycle!Next
  <2>1. op[r] \in {"Refresh", "Logout"} /\ who[r] \in User
    BY <1>1, <1>3 DEF RevokeOld, RevokeOne, Shape, SessionInv, Typed, Attributed, Running
  <2>2. tok[r] \in SessionsOf(who[r])
    BY <1>1, <2>1 DEF Rotation, SessionsOf
  <2>3. refreshToken' = [t \in Request |-> IF t \in {tok[r]} THEN "revoked" ELSE refreshToken[t]]
    BY <1>1, <1>3, <2>2 DEF RevokeOld, RevokeOne, Revoke, SessionsOf, TypeOK
  <2>4. QED
    BY <2>1, <2>2, <2>3, RevokeSimulates
<1>4. ASSUME NEW r \in Request, RevokeAll(r) \/ RevokeAllLogged(r), refreshToken' # refreshToken
      PROVE  Lifecycle!Next
  <2>1. who[r] \in User
    BY <1>4 DEF RevokeAll, RevokeAllLogged, SessionInv, Typed, Attributed, Running
  <2>2. refreshToken' = [t \in Request |-> IF t \in SessionsOf(who[r])
                                           THEN "revoked" ELSE refreshToken[t]]
    BY <1>1, <1>4 DEF RevokeAll, RevokeAllLogged, RevokeAllForUser, SessionsOf
  <2>3. QED
    BY <2>1, <2>2, RevokeSimulates
<1>5. ASSUME NEW r \in Request, Step(r), refreshToken' # refreshToken
      PROVE  Lifecycle!Next
  BY <1>3, <1>4, <1>5, StoreSimulates DEF Step, StoreOTP, DeliverOTP, MarkOTP, LoadUser,
     DropUnusedResets, StoreReset, SendReset, WriteNewPassword, MarkReset, WriteUserRow, tables
<1>6. ASSUME NEW r \in Request, Arrival(r) \/ Abort(r) \/ Lapse(r) PROVE UNCHANGED refreshToken
  BY <1>6 DEF Arrival, Refuse, Login, VerifyMFA, Refresh, Logout, ForgotPassword, ResetPassword,
     ChangePassword, EnableMFA, Abort, Lapse, tables
<1>7. QED
  BY <1>2, <1>5, <1>6 DEF Next, Served, vars, AccessTokenExpires, tables

\* Whatever requests overlap, fail or die between two statements, their clients
\* see a session store that behaves as SessionLifecycle says.
THEOREM LifecycleImplemented == Spec => ImplementsLifecycle
<1>1. Init => Lifecycle!Init
  <2> SUFFICES ASSUME Init PROVE Lifecycle!Init
    OBVIOUS
  <2>1. refreshToken = [r \in Request |-> "none"]
    BY DEF Init
  <2>2. QED
    BY <2>1 DEF Lifecycle!Init
<1>2. SessionInv /\ [Next]_vars => [Lifecycle!Next]_(Lifecycle!vars)
  BY StepSimulates
<1>3. QED
  BY <1>1, <1>2, SessionInvariant, PTL DEF Spec, ImplementsLifecycle, Lifecycle!Spec
=============================================================================
