------------------------- MODULE AuthSessionsProofs -------------------------
(***************************************************************************)
(* Theorems about AuthSessions, for any set of requests and accounts and   *)
(* any number of handlers in flight.                                       *)
(***************************************************************************)
EXTENDS AuthSessions, TLAPS

-----------------------------------------------------------------------------
(* Type correctness.                                                       *)

\* A handler that runs, and a stored token, belong to an account.
Attributed ==
    \A r \in Request :
        pc[r] \in Running \/ refreshToken[r] # "none" \/ resetToken[r] # "none"
            => who[r] \in User

\* TypeOK alone is not inductive: handlers index users with who[r].
Typed == TypeOK /\ Attributed

\* A statement that answers moves its handler to a label of the program.
LEMMA ReplyType ==
    ASSUME TypeOK, NEW r \in Request, NEW label \in Running \cup Finished, Reply(r, label)
    PROVE  /\ pc' \in [Request -> {"idle"} \cup Running \cup Finished]
           /\ \A s \in Request : s # r => pc'[s] = pc[s]
BY DEF TypeOK, Reply, GoTo, Running, Finished

\* The request that ends up in the locals of r keeps its own.
LEMMA ServesType ==
    ASSUME TypeOK, NEW m \in Method, NEW r \in Request, NEW u \in User,
           NEW t \in Request \cup {None}, Serves(m, r, u, t)
    PROVE  /\ op' \in [Request -> Method \cup {None}]
           /\ who' \in [Request -> User \cup {None}]
           /\ tok' \in [Request -> Request \cup {None}]
           /\ who'[r] = u
           /\ \A s \in Request : s # r => who'[s] = who[s]
BY DEF TypeOK, Serves

\* The columns ChangePassword and ResetPassword write keep the row's type.
LEMMA UpdatePasswordType ==
    ASSUME TypeOK, NEW u \in User, NEW r \in Request, UpdatePassword(u, r)
    PROVE  users' \in [User -> UserRow]
BY DEF TypeOK, UpdatePassword, UserRow, Password

\* Accepting or refusing a request preserves the types.
LEMMA ArrivalType ==
    ASSUME Typed, NEW r \in Request, Arrival(r)
    PROVE  Typed'
<1> USE DEF Typed, TypeOK, Attributed, Running, Finished, tables, locals, Method
<1>1. CASE Refuse(r)
  BY <1>1 DEF Refuse, GoTo
<1>2. CASE Login(r)
  <2>1. PICK u \in User :
          /\ Serves("Login", r, u, None)
          /\ row' = [row EXCEPT ![r] = users[u]]
          /\ jwt' \in {jwt, jwt \cup {u}}
          /\ \E l \in {"ok", "storeOTP", "issueSession"} : GoTo(r, l)
    BY <1>2 DEF Login
  <2>2. row' \in [Request -> UserRow]
    BY <2>1
  <2>3. QED
    BY <1>2, <2>1, <2>2, ServesType DEF Login, GoTo
<1>3. CASE VerifyMFA(r)
  BY <1>3, ServesType DEF VerifyMFA, GoTo
<1>4. CASE Refresh(r)
  <2>1. PICK t \in held : FindActiveByHash(t) /\ Serves("Refresh", r, who[t], t)
    BY <1>4 DEF Refresh
  <2>2. t \in Request /\ who[t] \in User
    BY <2>1 DEF FindActiveByHash
  <2>3. QED
    BY <1>4, <2>1, <2>2, ServesType DEF Refresh, GoTo
<1>5. CASE Logout(r)
  BY <1>5, ServesType DEF Logout, GoTo
<1>6. CASE ForgotPassword(r)
  BY <1>6, ServesType DEF ForgotPassword, GoTo
<1>7. CASE ResetPassword(r)
  <2>1. PICK q \in held : FindValidReset(q) /\ Serves("ResetPassword", r, who[q], q)
    BY <1>7 DEF ResetPassword
  <2>2. q \in Request /\ who[q] \in User
    BY <2>1 DEF FindValidReset
  <2>3. QED
    BY <1>7, <2>1, <2>2, ServesType DEF ResetPassword, GoTo
<1>8. CASE ChangePassword(r)
  <2>1. PICK u \in jwt :
          /\ Serves("ChangePassword", r, u, None)
          /\ UpdatePassword(u, r)
          /\ prior' = [prior EXCEPT ![r] = SessionsOf(u)]
    BY <1>8 DEF ChangePassword
  <2>2. users' \in [User -> UserRow]
    BY <2>1, UpdatePasswordType
  <2>3. /\ pc' \in [Request -> {"idle"} \cup Running \cup Finished]
        /\ \A s \in Request : s # r => pc'[s] = pc[s]
    BY <1>8, ReplyType DEF ChangePassword
  <2>4. /\ op' \in [Request -> Method \cup {None}]
        /\ who' \in [Request -> User \cup {None}]
        /\ tok' \in [Request -> Request \cup {None}]
        /\ who'[r] = u
        /\ \A s \in Request : s # r => who'[s] = who[s]
    BY <2>1, ServesType
  <2>5. prior' \in [Request -> SUBSET Request]
    BY <2>1 DEF SessionsOf
  <2>6. UNCHANGED <<refreshToken, resetToken, mfaOtp, lapsed, held, jwt, row>>
    BY <1>8 DEF ChangePassword
  <2>7. QED
    BY <2>1, <2>2, <2>3, <2>4, <2>5, <2>6
<1>9. CASE EnableMFA(r)
  <2>1. PICK u \in jwt, on \in BOOLEAN :
          /\ Serves("EnableMFA", r, u, None)
          /\ row' = [row EXCEPT ![r] = [users[u] EXCEPT !.mfa = on]]
    BY <1>9 DEF EnableMFA
  <2>2. row' \in [Request -> UserRow]
    BY <2>1 DEF UserRow
  <2>3. QED
    BY <1>9, <2>1, <2>2, ServesType DEF EnableMFA, GoTo
<1>10. QED
  BY <1>1, <1>2, <1>3, <1>4, <1>5, <1>6, <1>7, <1>8, <1>9 DEF Arrival

\* So does every statement of a handler that has started.
LEMMA StepType ==
    ASSUME Typed, NEW r \in Request, Step(r)
    PROVE  Typed'
<1> USE ReplyType DEF Typed, TypeOK, Attributed, Running, Finished, tables, locals
<1>1. CASE StoreOTP(r)
  BY <1>1 DEF StoreOTP
<1>2. CASE DeliverOTP(r)
  BY <1>2 DEF DeliverOTP, Reply, GoTo
<1>3. CASE IssueSession(r)
  BY <1>3 DEF IssueSession, CreateSession, GoTo
<1>4. CASE MarkOTP(r)
  BY <1>4 DEF MarkOTP, MarkOTPUsed
<1>5. CASE LoadUser(r)
  BY <1>5 DEF LoadUser, GoTo
<1>6. CASE RevokeOld(r)
  BY <1>6 DEF RevokeOld, Revoke
<1>7. CASE StoreRotated(r)
  BY <1>7 DEF StoreRotated, CreateSession, GoTo
<1>8. CASE RevokeOne(r)
  BY <1>8 DEF RevokeOne, Revoke
<1>9. CASE DropUnusedResets(r)
  BY <1>9 DEF DropUnusedResets, DeleteUnused
<1>10. CASE StoreReset(r)
  BY <1>10 DEF StoreReset
<1>11. CASE SendReset(r)
  BY <1>11 DEF SendReset, Reply, GoTo
<1>12. CASE WriteNewPassword(r)
  BY <1>12, UpdatePasswordType DEF WriteNewPassword, SessionsOf
<1>13. CASE MarkReset(r)
  BY <1>13 DEF MarkReset, MarkResetUsed
<1>14. CASE RevokeAll(r)
  BY <1>14 DEF RevokeAll, RevokeAllForUser
<1>15. CASE RevokeAllLogged(r)
  BY <1>15 DEF RevokeAllLogged, RevokeAllForUser, GoTo
<1>16. CASE WriteUserRow(r)
  BY <1>16 DEF WriteUserRow, UpdateUserRow
<1>17. QED
  BY <1>1, <1>2, <1>3, <1>4, <1>5, <1>6, <1>7, <1>8, <1>9, <1>10, <1>11, <1>12, <1>13,
     <1>14, <1>15, <1>16 DEF Step

\* The initial states and every step are typed.
LEMMA InitTyped == Init => Typed
<1> SUFFICES ASSUME Init PROVE Typed
  OBVIOUS
<1>1. users \in [User -> UserRow]
  BY DEF Init, UserRow, Password
<1>2. Blank \in UserRow
  BY DEF Blank, UserRow, Password
<1>3. QED
  BY <1>1, <1>2 DEF Init, Typed, TypeOK, Attributed, Running

\* Every step of the specification preserves the types.
LEMMA NextTyped == Typed /\ [Next]_vars => Typed'
<1> SUFFICES ASSUME Typed, [Next]_vars PROVE Typed'
  OBVIOUS
<1>1. ASSUME NEW r \in Request, Arrival(r) PROVE Typed'
  BY <1>1, ArrivalType
<1>2. ASSUME NEW r \in Request, Step(r) PROVE Typed'
  BY <1>2, StepType
<1>3. ASSUME NEW r \in Request, Abort(r) \/ Lapse(r) PROVE Typed'
  BY <1>3 DEF Abort, Lapse, GoTo, Typed, TypeOK, Attributed, Running, Finished, tables, locals
<1>4. ASSUME NEW u \in User, AccessTokenExpires(u) PROVE Typed'
  BY <1>4 DEF AccessTokenExpires, Typed, TypeOK, Attributed, tables, locals
<1>5. ASSUME UNCHANGED vars PROVE Typed'
  BY <1>5 DEF Typed, TypeOK, Attributed, vars, tables, locals
<1>6. QED
  BY <1>1, <1>2, <1>3, <1>4, <1>5 DEF Next, Served

\* Every reachable state of the auth handlers is well typed.
THEOREM TypeCorrect == Spec => []TypeOK
<1>1. Spec => []Typed
  BY InitTyped, NextTyped, PTL DEF Spec
<1>2. Typed => TypeOK
  BY DEF Typed
<1>3. QED
  BY <1>1, <1>2, PTL

-----------------------------------------------------------------------------
(* The shape of a handler.                                                 *)

\* The label a handler is at tells the method it runs, a request has a method
\* once it is accepted, and a session belongs to a handler that has ended.
Shape ==
    \A r \in Request :
        /\ pc[r] \in {"idle", "rejected"} => op[r] = None
        /\ pc[r] \in {"storeOTP", "deliverOTP"} => op[r] = "Login"
        /\ pc[r] = "issueSession" => op[r] \in {"Login", "VerifyMFA"}
        /\ pc[r] \in {"markOTP", "loadUser"} => op[r] = "VerifyMFA"
        /\ pc[r] \in {"revokeOld", "storeRotated"} => op[r] = "Refresh"
        /\ pc[r] = "revoke" => op[r] = "Logout"
        /\ pc[r] \in {"deleteUnused", "storeReset", "sendReset"} => op[r] = "ForgotPassword"
        /\ pc[r] \in {"updatePassword", "markReset", "revokeAll"} => op[r] = "ResetPassword"
        /\ pc[r] = "revokeAllLogged" => op[r] = "ChangePassword"
        /\ pc[r] = "updateUser" => op[r] = "EnableMFA"
        /\ refreshToken[r] # "none" => /\ op[r] \in {"Login", "VerifyMFA", "Refresh"}
                                       /\ pc[r] \in {"ok", "failed"}
        /\ resetToken[r] # "none" => /\ op[r] = "ForgotPassword"
                                     /\ pc[r] \in {"sendReset", "ok", "failed"}
        /\ mfaOtp[r] # "none" => op[r] = "Login" /\ pc[r] \in {"deliverOTP", "ok", "failed"}

\* Accepting or refusing a request keeps labels and methods in step.
LEMMA ArrivalShape ==
    ASSUME TypeOK, Shape, NEW r \in Request, Arrival(r)
    PROVE  Shape'
<1> USE DEF TypeOK, Shape, tables, locals, Serves, GoTo, Arrives
<1>1. CASE Refuse(r)
  BY <1>1 DEF Refuse
<1>2. CASE Login(r)
  BY <1>2 DEF Login
<1>3. CASE VerifyMFA(r)
  BY <1>3 DEF VerifyMFA
<1>4. CASE Refresh(r)
  BY <1>4 DEF Refresh
<1>5. CASE Logout(r)
  BY <1>5 DEF Logout
<1>6. CASE ForgotPassword(r)
  BY <1>6 DEF ForgotPassword
<1>7. CASE ResetPassword(r)
  BY <1>7 DEF ResetPassword
<1>8. CASE ChangePassword(r)
  BY <1>8 DEF ChangePassword, Reply
<1>9. CASE EnableMFA(r)
  BY <1>9 DEF EnableMFA
<1>10. QED
  BY <1>1, <1>2, <1>3, <1>4, <1>5, <1>6, <1>7, <1>8, <1>9 DEF Arrival

\* So does every statement.
LEMMA StepShape ==
    ASSUME TypeOK, Shape, NEW r \in Request, Step(r)
    PROVE  Shape'
<1> USE DEF TypeOK, Shape, tables, locals, Reply, GoTo
<1>1. CASE StoreOTP(r)
  BY <1>1 DEF StoreOTP
<1>2. CASE DeliverOTP(r)
  BY <1>2 DEF DeliverOTP
<1>3. CASE IssueSession(r)
  BY <1>3 DEF IssueSession, CreateSession
<1>4. CASE MarkOTP(r)
  BY <1>4 DEF MarkOTP, MarkOTPUsed
<1>5. CASE LoadUser(r)
  BY <1>5 DEF LoadUser
<1>6. CASE RevokeOld(r)
  BY <1>6 DEF RevokeOld, Revoke
<1>7. CASE StoreRotated(r)
  BY <1>7 DEF StoreRotated, CreateSession
<1>8. CASE RevokeOne(r)
  BY <1>8 DEF RevokeOne, Revoke
<1>9. CASE DropUnusedResets(r)
  BY <1>9 DEF DropUnusedResets, DeleteUnused
<1>10. CASE StoreReset(r)
  BY <1>10 DEF StoreReset
<1>11. CASE SendReset(r)
  BY <1>11 DEF SendReset
<1>12. CASE WriteNewPassword(r)
  BY <1>12 DEF WriteNewPassword
<1>13. CASE MarkReset(r)
  BY <1>13 DEF MarkReset, MarkResetUsed
<1>14. CASE RevokeAll(r)
  BY <1>14 DEF RevokeAll, RevokeAllForUser
<1>15. CASE RevokeAllLogged(r)
  BY <1>15 DEF RevokeAllLogged, RevokeAllForUser
<1>16. CASE WriteUserRow(r)
  BY <1>16 DEF WriteUserRow
<1>17. QED
  BY <1>1, <1>2, <1>3, <1>4, <1>5, <1>6, <1>7, <1>8, <1>9, <1>10, <1>11, <1>12, <1>13,
     <1>14, <1>15, <1>16 DEF Step

\* Every step of the specification keeps labels, methods and rows in step.
LEMMA NextShape == TypeOK /\ Shape /\ [Next]_vars => Shape'
<1> SUFFICES ASSUME TypeOK, Shape, [Next]_vars PROVE Shape'
  OBVIOUS
<1>1. ASSUME NEW r \in Request, Arrival(r) PROVE Shape'
  BY <1>1, ArrivalShape
<1>2. ASSUME NEW r \in Request, Step(r) PROVE Shape'
  BY <1>2, StepShape
<1>3. ASSUME NEW r \in Request, Abort(r) \/ Lapse(r) PROVE Shape'
  BY <1>3 DEF Abort, Lapse, GoTo, TypeOK, Shape, Running, tables, locals
<1>4. ASSUME NEW u \in User, AccessTokenExpires(u) PROVE Shape'
  BY <1>4 DEF AccessTokenExpires, Shape, tables, locals
<1>5. ASSUME UNCHANGED vars PROVE Shape'
  BY <1>5 DEF Shape, vars, tables, locals
<1>6. QED
  BY <1>1, <1>2, <1>3, <1>4, <1>5 DEF Next, Served

-----------------------------------------------------------------------------
(* What no step changes.                                                   *)

\* Once a method serves a request, its locals are its own.
LEMMA LocalsFrozen ==
    ASSUME TypeOK, [Next]_vars, NEW s \in Request, pc[s] # "idle"
    PROVE  op'[s] = op[s] /\ who'[s] = who[s] /\ tok'[s] = tok[s] /\ pc'[s] # "idle"
<1> USE DEF TypeOK, tables, locals, Reply, GoTo, Serves, Arrives
<1>1. ASSUME NEW r \in Request, Arrival(r)
      PROVE  op'[s] = op[s] /\ who'[s] = who[s] /\ tok'[s] = tok[s] /\ pc'[s] # "idle"
  BY <1>1 DEF Arrival, Refuse, Login, VerifyMFA, Refresh, Logout, ForgotPassword, ResetPassword,
     ChangePassword, EnableMFA
<1>2. ASSUME NEW r \in Request, Step(r)
      PROVE  op'[s] = op[s] /\ who'[s] = who[s] /\ tok'[s] = tok[s] /\ pc'[s] # "idle"
  BY <1>2 DEF Step, StoreOTP, DeliverOTP, IssueSession, MarkOTP, LoadUser, RevokeOld,
     StoreRotated, RevokeOne, DropUnusedResets, StoreReset, SendReset, WriteNewPassword,
     MarkReset, RevokeAll, RevokeAllLogged, WriteUserRow
<1>3. ASSUME NEW r \in Request, Abort(r) \/ Lapse(r)
      PROVE  op'[s] = op[s] /\ who'[s] = who[s] /\ tok'[s] = tok[s] /\ pc'[s] # "idle"
  BY <1>3 DEF Abort, Lapse
<1>4. ASSUME NEW u \in User, AccessTokenExpires(u)
      PROVE  op'[s] = op[s] /\ who'[s] = who[s] /\ tok'[s] = tok[s] /\ pc'[s] # "idle"
  BY <1>4 DEF AccessTokenExpires
<1>5. QED
  BY <1>1, <1>2, <1>3, <1>4 DEF Next, Served, vars

\* A session never leaves the store and never comes back to life, and only the
\* handler it is named after creates it.
LEMMA SessionsAge ==
    ASSUME TypeOK, Shape, [Next]_vars, NEW t \in Request
    PROVE  /\ refreshToken[t] # "none" => refreshToken'[t] # "none"
           /\ refreshToken[t] = "revoked" => refreshToken'[t] = "revoked"
           /\ refreshToken[t] = "none" /\ refreshToken'[t] # "none" =>
                  /\ pc[t] \in {"issueSession", "storeRotated"}
                  /\ refreshToken'[t] = "active"
<1> DEFINE P == /\ refreshToken[t] # "none" => refreshToken'[t] # "none"
                /\ refreshToken[t] = "revoked" => refreshToken'[t] = "revoked"
                /\ refreshToken[t] = "none" /\ refreshToken'[t] # "none" =>
                      /\ pc[t] \in {"issueSession", "storeRotated"}
                      /\ refreshToken'[t] = "active"
<1>1. ASSUME NEW r \in Request, Step(r), refreshToken' # refreshToken PROVE P
  <2>1. CASE IssueSession(r)
    BY <2>1 DEF IssueSession, CreateSession, TypeOK, Shape
  <2>2. CASE StoreRotated(r)
    BY <2>2 DEF StoreRotated, CreateSession, TypeOK, Shape
  <2>3. CASE RevokeOld(r) \/ RevokeOne(r)
    BY <2>3 DEF RevokeOld, RevokeOne, Revoke, TypeOK
  <2>4. CASE RevokeAll(r) \/ RevokeAllLogged(r)
    BY <2>4 DEF RevokeAll, RevokeAllLogged, RevokeAllForUser, TypeOK
  <2>5. QED
    BY <1>1, <2>1, <2>2, <2>3, <2>4 DEF Step, StoreOTP, DeliverOTP, MarkOTP, LoadUser,
       DropUnusedResets, StoreReset, SendReset, WriteNewPassword, MarkReset, WriteUserRow, tables
<1>2. ASSUME NEW r \in Request, Arrival(r) \/ Abort(r) \/ Lapse(r) PROVE refreshToken' = refreshToken
  BY <1>2 DEF Arrival, Refuse, Login, VerifyMFA, Refresh, Logout, ForgotPassword, ResetPassword,
     ChangePassword, EnableMFA, Abort, Lapse, tables
<1>3. ASSUME NEW u \in User, AccessTokenExpires(u) PROVE refreshToken' = refreshToken
  BY <1>3 DEF AccessTokenExpires, tables
<1>4. P
  BY <1>1, <1>2, <1>3 DEF Next, Served, vars, tables
<1>5. QED
  BY <1>4

-----------------------------------------------------------------------------
(* Rotation.                                                               *)

\* The session a Refresh or a Logout looked up, and what a Refresh did to it.
Rotation ==
    \A r \in Request :
        /\ op[r] \in {"Refresh", "Logout"} =>
              tok[r] \in Request /\ refreshToken[tok[r]] # "none" /\ who[tok[r]] = who[r]
        /\ op[r] = "Refresh" /\ (pc[r] = "storeRotated" \/ refreshToken[r] # "none") =>
              refreshToken[tok[r]] = "revoked"

\* Only its own arrival gives a request a method.
LEMMA MethodEntered ==
    ASSUME TypeOK, Shape, Next, NEW s \in Request, pc[s] = "idle", op'[s] # None
    PROVE  Arrival(s)
<1>1. op[s] = None
  BY DEF Shape
<1>2. ASSUME NEW r \in Request, Step(r) \/ Abort(r) \/ Lapse(r) PROVE op' = op
  BY <1>2 DEF Step, StoreOTP, DeliverOTP, IssueSession, MarkOTP, LoadUser, RevokeOld,
     StoreRotated, RevokeOne, DropUnusedResets, StoreReset, SendReset, WriteNewPassword,
     MarkReset, RevokeAll, RevokeAllLogged, WriteUserRow, Abort, Lapse, locals
<1>3. ASSUME NEW r \in Request, Arrival(r), r # s PROVE op'[s] = op[s]
  BY <1>3 DEF TypeOK, Arrival, Refuse, Login, VerifyMFA, Refresh, Logout, ForgotPassword,
     ResetPassword, ChangePassword, EnableMFA, Serves, locals
<1>4. QED
  BY <1>1, <1>2, <1>3 DEF Next, Served, vars, AccessTokenExpires, locals

\* An arriving Refresh or Logout has found a live session of the user it serves.
LEMMA LookupArrives ==
    ASSUME Typed, Shape, NEW s \in Request, Arrival(s), op'[s] \in {"Refresh", "Logout"}
    PROVE  /\ tok'[s] \in Request \ {s}
           /\ refreshToken[tok'[s]] # "none"
           /\ who'[tok'[s]] = who'[s]
           /\ pc'[s] # "storeRotated"
           /\ refreshToken'[s] = "none"
<1>1. pc[s] = "idle" /\ op[s] = None /\ refreshToken[s] = "none"
  BY DEF Arrival, Refuse, Login, VerifyMFA, Refresh, Logout, ForgotPassword, ResetPassword,
     ChangePassword, EnableMFA, Arrives, Shape
<1>2. CASE Refresh(s)
  BY <1>1, <1>2 DEF Typed, TypeOK, Refresh, Serves, GoTo, FindActiveByHash, tables
<1>3. CASE Logout(s)
  BY <1>1, <1>3 DEF Typed, TypeOK, Logout, Serves, GoTo, FindActiveByHash, tables
<1>4. Refresh(s) \/ Logout(s)
  BY <1>1, ConstantsAssumption DEF Typed, TypeOK, Arrival, Refuse, Login, VerifyMFA, ForgotPassword,
     ResetPassword, ChangePassword, EnableMFA, Serves, Method, locals
<1>5. QED
  BY <1>2, <1>3, <1>4

\* A handler comes to store the new pair only by revoking the old token.
LEMMA StoreRotatedEntered ==
    ASSUME TypeOK, Next, NEW s \in Request, pc[s] # "idle",
           pc[s] # "storeRotated", pc'[s] = "storeRotated"
    PROVE  RevokeOld(s)
<1> USE DEF TypeOK, Reply, GoTo
<1>1. ASSUME NEW r \in Request, Arrival(r) PROVE pc'[s] = pc[s]
  BY <1>1 DEF Arrival, Refuse, Login, VerifyMFA, Refresh, Logout, ForgotPassword,
     ResetPassword, ChangePassword, EnableMFA, Arrives
<1>2. ASSUME NEW r \in Request, Step(r) PROVE RevokeOld(s)
  BY <1>2 DEF Step, StoreOTP, DeliverOTP, IssueSession, MarkOTP, LoadUser, RevokeOld,
     StoreRotated, RevokeOne, DropUnusedResets, StoreReset, SendReset, WriteNewPassword,
     MarkReset, RevokeAll, RevokeAllLogged, WriteUserRow
<1>3. ASSUME NEW r \in Request, Abort(r) \/ Lapse(r) PROVE pc'[s] # "storeRotated"
  BY <1>3 DEF Abort, Lapse
<1>4. QED
  BY <1>1, <1>2, <1>3 DEF Next, Served, vars, AccessTokenExpires

\* No step gives a Refresh or a Logout a session of another user, or lets a
\* Refresh store its new token while the old one can still be used.
LEMMA NextRotation == Typed /\ Shape /\ Rotation /\ [Next]_vars => Rotation'
<1> SUFFICES ASSUME Typed, Shape, Rotation, [Next]_vars, NEW s \in Request
             PROVE  /\ op'[s] \in {"Refresh", "Logout"} =>
                          /\ tok'[s] \in Request
                          /\ refreshToken'[tok'[s]] # "none"
                          /\ who'[tok'[s]] = who'[s]
                    /\ op'[s] = "Refresh" /\ (pc'[s] = "storeRotated" \/ refreshToken'[s] # "none")
                          => refreshToken'[tok'[s]] = "revoked"
  BY DEF Rotation
<1>1. TypeOK
  BY DEF Typed
<1>2. CASE pc[s] # "idle"
  <2>1. op'[s] = op[s] /\ who'[s] = who[s] /\ tok'[s] = tok[s]
    BY <1>1, <1>2, LocalsFrozen
  <2>2. ASSUME op[s] \in {"Refresh", "Logout"}
        PROVE  tok[s] \in Request /\ refreshToken'[tok[s]] # "none" /\ who'[tok[s]] = who[tok[s]]
    <3>1. tok[s] \in Request /\ refreshToken[tok[s]] # "none"
      BY <2>2 DEF Rotation
    <3>2. pc[tok[s]] # "idle"
      BY <3>1 DEF Shape
    <3>3. QED
      BY <1>1, <3>1, <3>2, LocalsFrozen, SessionsAge
  <2>3. ASSUME op[s] = "Refresh", pc'[s] = "storeRotated" \/ refreshToken'[s] # "none"
        PROVE  refreshToken'[tok[s]] = "revoked"
    <3>1. tok[s] \in Request /\ refreshToken[tok[s]] # "none"
      BY <2>3 DEF Rotation
    <3>2. CASE pc[s] = "storeRotated" \/ refreshToken[s] # "none"
      BY <1>1, <2>3, <3>1, <3>2, SessionsAge DEF Rotation
    <3>3. CASE pc'[s] = "storeRotated" /\ pc[s] # "storeRotated"
      <4>1. RevokeOld(s)
        BY <1>1, <1>2, <3>3, StoreRotatedEntered DEF vars
      <4>2. QED
        BY <1>1, <3>1, <4>1 DEF RevokeOld, Revoke, TypeOK
    <3>4. CASE refreshToken'[s] # "none" /\ refreshToken[s] = "none"
      <4>1. pc[s] = "storeRotated"
        BY <1>1, <2>3, <3>4, SessionsAge DEF Shape
      <4>2. QED
        BY <3>2, <4>1
    <3>5. QED
      BY <2>3, <3>2, <3>3, <3>4
  <2>4. QED
    BY <2>1, <2>2, <2>3 DEF Rotation
<1>3. CASE pc[s] = "idle"
  <2>1. SUFFICES ASSUME op'[s] \in {"Refresh", "Logout"}
                 PROVE  /\ tok'[s] \in Request
                        /\ refreshToken'[tok'[s]] # "none"
                        /\ who'[tok'[s]] = who'[s]
                        /\ pc'[s] # "storeRotated" /\ refreshToken'[s] = "none"
    OBVIOUS
  <2>2. op[s] = None
    BY <1>3 DEF Shape
  <2>3. CASE Next
    <3>1. Arrival(s)
      BY <1>1, <1>3, <2>1, <2>3, MethodEntered, ConstantsAssumption DEF Method
    <3>2. QED
      BY <1>1, <2>1, <3>1, LookupArrives, SessionsAge
  <2>4. CASE UNCHANGED vars
    BY <2>1, <2>2, <2>4, ConstantsAssumption DEF vars, locals, Method
  <2>5. QED
    BY <2>3, <2>4
<1>4. QED
  BY <1>2, <1>3

\* The inductive invariant of the session handlers.
SessionInv == Typed /\ Shape /\ Rotation

\* The session invariant is inductive.
LEMMA SessionInvariant == Spec => []SessionInv
<1>1. Init => SessionInv
  <2>1. Init => Typed
    BY InitTyped
  <2>2. Init => Shape
    BY DEF Init, Shape
  <2>3. Init => Rotation
    BY ConstantsAssumption DEF Init, Rotation, Method
  <2>4. QED
    BY <2>1, <2>2, <2>3 DEF SessionInv
<1>2. SessionInv /\ [Next]_vars => SessionInv'
  BY NextTyped, NextShape, NextRotation DEF SessionInv, Typed
<1>3. QED
  BY <1>1, <1>2, PTL DEF Spec

\* However refreshes, logouts, resets and crashes interleave, a rotation never
\* leaves the token it replaced usable.
THEOREM RotationSafe == Spec => []RotationRevokesOld
<1>1. SessionInv => RotationRevokesOld
  BY DEF SessionInv, Rotation, RotationRevokesOld
<1>2. QED
  BY <1>1, SessionInvariant, PTL
=============================================================================
