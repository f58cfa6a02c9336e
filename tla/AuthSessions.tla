---------------------------- MODULE AuthSessions ----------------------------
(***************************************************************************)
(* The session and credential handlers of services/auth_service.go over    *)
(* the tables users, refresh_tokens, password_reset_tokens and mfa_otps.   *)
(*                                                                         *)
(* An HTTP request runs in a goroutine of its own and issues one SQL       *)
(* statement after another, none of them in a transaction: an action is    *)
(* one statement together with the local code up to the next one, so every *)
(* interleaving of the statements of concurrent requests is a behaviour.   *)
(* A request is served once.  The row and the secret a request creates     *)
(* (refresh token, reset link, OTP) are named by the request: the code     *)
(* draws them at random and stores a hash.  So is the password a request   *)
(* sets: a password stands for one version of users.password_hash.         *)
(*                                                                         *)
(* The login limiter is a component of its own (RateLimiter): here a       *)
(* blocked request is one of the rejected ones.  Accounts are those        *)
(* without an SSO provider.                                                *)
(***************************************************************************)
EXTENDS FiniteSets, Naturals

CONSTANTS
    Request,     \* HTTP requests, one handler execution each
    User,        \* accounts
    Temporary,   \* the password CreateUser draws and mails to a new account
    Chosen,      \* the password of an account that has been through onboarding
    None,
    MaxInFlight  \* bound: handlers running at the same time

\* The methods of AuthService that are modelled here.
Method == {"Login", "VerifyMFA", "Refresh", "Logout", "ForgotPassword",
           "ResetPassword", "ChangePassword", "EnableMFA"}

ASSUME ConstantsAssumption ==
    /\ {Temporary, Chosen, None} \cap Request = {}
    /\ Temporary # Chosen /\ Temporary # None /\ Chosen # None
    /\ None \notin User \cup Method
    /\ MaxInFlight \in Nat

VARIABLES
    users,        \* users[u]: the columns password_hash, is_first_login, mfa_enabled
    refreshToken, \* refreshToken[r]: the refresh_tokens row request r inserted
    resetToken,   \* resetToken[r]: the password_reset_tokens row r inserted
    mfaOtp,       \* mfaOtp[r]: the mfa_otps row r inserted
    lapsed,       \* the requests whose row is past its expires_at
    held,         \* the requests whose secret has reached the account's owner
    jwt,          \* the users who hold an unexpired access token
    pc,           \* pc[r]: the statement request r issues next
    op,           \* op[r]: the service method that serves r
    who,          \* who[r]: the user id r acts for
    tok,          \* tok[r]: the request that created the row r looked up
    row,          \* row[r]: the users row in r's memory
    prior         \* history: the user's sessions when r wrote the new password

tables == <<users, refreshToken, resetToken, mfaOtp>>
locals == <<op, who, tok, row, prior>>
vars   == <<tables, lapsed, held, jwt, pc, locals>>

-----------------------------------------------------------------------------
Password == Request \cup {Temporary, Chosen}

\* is_first_login and password_change_required are always written together.
UserRow == [pw : Password, mustChange : BOOLEAN, mfa : BOOLEAN]

Blank == [pw |-> Chosen, mustChange |-> FALSE, mfa |-> FALSE]

Running == {"storeOTP", "deliverOTP", "issueSession", "markOTP", "loadUser",
            "revokeOld", "storeRotated", "revoke", "deleteUnused", "storeReset",
            "sendReset", "updatePassword", "markReset", "revokeAll",
            "revokeAllLogged", "updateUser"}

Finished == {"ok", "rejected", "failed"}

TypeOK ==
    /\ users \in [User -> UserRow]
    /\ refreshToken \in [Request -> {"none", "active", "revoked"}]
    /\ resetToken \in [Request -> {"none", "unused", "used"}]
    /\ mfaOtp \in [Request -> {"none", "unused", "used"}]
    /\ lapsed \subseteq Request
    /\ held \subseteq Request
    /\ jwt \subseteq User
    /\ pc \in [Request -> {"idle"} \cup Running \cup Finished]
    /\ op \in [Request -> Method \cup {None}]
    /\ who \in [Request -> User \cup {None}]
    /\ tok \in [Request -> Request \cup {None}]
    /\ row \in [Request -> UserRow]
    /\ prior \in [Request -> SUBSET Request]

Init ==
    /\ users \in [User -> [pw : {Temporary}, mustChange : {TRUE}, mfa : {FALSE}]
                          \cup [pw : {Chosen}, mustChange : {FALSE}, mfa : BOOLEAN]]
    /\ refreshToken = [r \in Request |-> "none"]
    /\ resetToken = [r \in Request |-> "none"]
    /\ mfaOtp = [r \in Request |-> "none"]
    /\ lapsed = {} /\ held = {} /\ jwt = {}
    /\ pc = [r \in Request |-> "idle"]
    /\ op = [r \in Request |-> None]
    /\ who = [r \in Request |-> None]
    /\ tok = [r \in Request |-> None]
    /\ row = [r \in Request |-> Blank]
    /\ prior = [r \in Request |-> {}]

-----------------------------------------------------------------------------
(* Control of a handler.                                                   *)

InFlight == {r \in Request : pc[r] \in Running}

Arrives(r) ==
    /\ pc[r] = "idle"
    /\ Cardinality(InFlight) < MaxInFlight

\* Method m serves r, for user u, with the row that request t created.
Serves(m, r, u, t) ==
    /\ op' = [op EXCEPT ![r] = m]
    /\ who' = [who EXCEPT ![r] = u]
    /\ tok' = [tok EXCEPT ![r] = t]

GoTo(r, label) == pc' = [pc EXCEPT ![r] = label]

\* The statement took effect; the handler sees its result, or sees an error
\* because the connection or the request context went away with the answer.
Reply(r, label) == GoTo(r, label) \/ GoTo(r, "failed")

\* The answer of every method to a blocked key, an unknown user, a wrong
\* password, a token its lookup does not find, a weak password or a failing
\* lookup: an error before the first write.
Refuse(r) ==
    /\ Arrives(r)
    /\ GoTo(r, "rejected")
    /\ UNCHANGED <<tables, lapsed, held, jwt, locals>>

\* The statement of r fails without effect, or the process dies there.
Abort(r) ==
    /\ pc[r] \in Running
    /\ GoTo(r, "failed")
    /\ UNCHANGED <<tables, lapsed, held, jwt, locals>>

-----------------------------------------------------------------------------
(* Statements of the repositories.                                         *)

\* Mutant: the revoked column is not looked at.
MutFindActiveByHash(t) == refreshToken[t] # "none" /\ t \notin lapsed

\* refresh_tokens: SELECT ... WHERE token_hash = $1 AND NOT revoked AND live
FindActiveByHash(t) == refreshToken[t] = "active" /\ t \notin lapsed

Revoke(t) ==
    refreshToken' = [refreshToken EXCEPT ![t] = IF @ = "none" THEN @ ELSE "revoked"]

\* Mutant: the WHERE clause is lost.
MutRevokeAllForUser(u) ==
    refreshToken' = [t \in Request |-> IF refreshToken[t] # "none" THEN "revoked" ELSE "none"]

RevokeAllForUser(u) ==
    refreshToken' = [t \in Request |-> IF who[t] = u /\ refreshToken[t] # "none"
                                       THEN "revoked" ELSE refreshToken[t]]

CreateSession(r) == refreshToken' = [refreshToken EXCEPT ![r] = "active"]

\* Mutant: the used column is not looked at.
MutFindValidReset(q) == resetToken[q] # "none" /\ q \notin lapsed

FindValidReset(q) == resetToken[q] = "unused" /\ q \notin lapsed

DeleteUnused(u) ==
    resetToken' = [q \in Request |-> IF who[q] = u /\ resetToken[q] = "unused"
                                     THEN "none" ELSE resetToken[q]]

\* The row may have been deleted since it was read: then no row is updated.
MarkResetUsed(q) ==
    resetToken' = [resetToken EXCEPT ![q] = IF @ = "none" THEN @ ELSE "used"]

\* Mutant: the OTP is looked up by its hash alone.
MutFindValidOTP(u, o) == mfaOtp[o] = "unused" /\ o \notin lapsed

FindValidOTP(u, o) == who[o] = u /\ mfaOtp[o] = "unused" /\ o \notin lapsed

MarkOTPUsed(o) ==
    mfaOtp' = [mfaOtp EXCEPT ![o] = IF @ = "none" THEN @ ELSE "used"]

\* Mutant: the hash never reaches the statement.
MutUpdatePassword(u, password) ==
    users' = [users EXCEPT ![u] = [pw |-> None, mustChange |-> FALSE, mfa |-> @.mfa]]

\* UPDATE users SET password_hash = ..., both onboarding flags = FALSE
UpdatePassword(u, password) ==
    users' = [users EXCEPT ![u] = [pw |-> password, mustChange |-> FALSE, mfa |-> @.mfa]]

\* Mutant: the onboarding flags are left out of the column list.
MutUpdateUserRow(u, r) ==
    users' = [users EXCEPT ![u].pw = row[r].pw, ![u].mfa = row[r].mfa]

\* UPDATE users SET every column from the struct in the handler's memory
UpdateUserRow(u, r) == users' = [users EXCEPT ![u] = row[r]]

SessionsOf(u) == {t \in Request : who[t] = u /\ refreshToken[t] # "none"}

-----------------------------------------------------------------------------
(* Login, triggerMFA and issueSession.                                     *)

\* FindByEmail or FindByMobile, a matching ComparePassword, and the branches on
\* the row just read.
Login(r) ==
    /\ Arrives(r)
    /\ \E u \in User :
         /\ Serves("Login", r, u, None)
         /\ row' = [row EXCEPT ![r] = users[u]]
         /\ \/ /\ users[u].mustChange
               /\ jwt' = jwt \cup {u}
               /\ GoTo(r, "ok")
            \/ /\ ~users[u].mustChange
               /\ GoTo(r, IF users[u].mfa THEN "storeOTP" ELSE "issueSession")
               /\ UNCHANGED jwt
    /\ UNCHANGED <<tables, lapsed, held, prior>>

StoreOTP(r) ==
    /\ pc[r] = "storeOTP"
    /\ mfaOtp' = [mfaOtp EXCEPT ![r] = "unused"]
    /\ Reply(r, "deliverOTP")
    /\ UNCHANGED <<users, refreshToken, resetToken, lapsed, held, jwt, locals>>

\* The gateway may deliver the code and report an error all the same: the
\* caller then gets no mfa_pending_token from this request.
DeliverOTP(r) ==
    /\ pc[r] = "deliverOTP"
    /\ \/ held' = held \cup {r} /\ Reply(r, "ok")
       \/ UNCHANGED held /\ GoTo(r, "failed")
    /\ UNCHANGED <<tables, lapsed, jwt, locals>>

IssueSession(r) ==
    /\ pc[r] = "issueSession"
    /\ CreateSession(r)
    /\ \/ GoTo(r, "ok") /\ held' = held \cup {r} /\ jwt' = jwt \cup {who[r]}
       \/ GoTo(r, "failed") /\ UNCHANGED <<held, jwt>>
    /\ UNCHANGED <<users, resetToken, mfaOtp, lapsed, locals>>

-----------------------------------------------------------------------------
(* VerifyMFA.                                                              *)

\* A login of u answered with an mfa_pending_token that is still valid; it
\* lives as long as that login's OTP.
PendingToken(u) ==
    \E q \in Request : op[q] = "Login" /\ pc[q] = "ok" /\ who[q] = u
                       /\ mfaOtp[q] # "none" /\ q \notin lapsed

VerifyMFA(r) ==
    /\ Arrives(r)
    /\ \E u \in User, o \in held :
         /\ PendingToken(u)
         /\ FindValidOTP(u, o)
         /\ Serves("VerifyMFA", r, u, o)
    /\ GoTo(r, "markOTP")
    /\ UNCHANGED <<tables, lapsed, held, jwt, row, prior>>

MarkOTP(r) ==
    /\ pc[r] = "markOTP"
    /\ MarkOTPUsed(tok[r])
    /\ Reply(r, "loadUser")
    /\ UNCHANGED <<users, refreshToken, resetToken, lapsed, held, jwt, locals>>

\* FindByID: the row only feeds the response and the claims of the JWT.
LoadUser(r) ==
    /\ pc[r] = "loadUser"
    /\ row' = [row EXCEPT ![r] = users[who[r]]]
    /\ GoTo(r, "issueSession")
    /\ UNCHANGED <<tables, lapsed, held, jwt, op, who, tok, prior>>

-----------------------------------------------------------------------------
(* Refresh and Logout.                                                     *)

\* Mutant: the new pair is stored before the old token is revoked.
MutRefresh(r) ==
    /\ Arrives(r)
    /\ \E t \in held :
         /\ FindActiveByHash(t)
         /\ Serves("Refresh", r, who[t], t)
    /\ GoTo(r, "storeRotated")
    /\ UNCHANGED <<tables, lapsed, held, jwt, row, prior>>

Refresh(r) ==
    /\ Arrives(r)
    /\ \E t \in held :
         /\ FindActiveByHash(t)
         /\ Serves("Refresh", r, who[t], t)
    /\ GoTo(r, "revokeOld")
    /\ UNCHANGED <<tables, lapsed, held, jwt, row, prior>>

\* The UPDATE is keyed by id alone and its row count is not looked at.
RevokeOld(r) ==
    /\ pc[r] = "revokeOld"
    /\ Revoke(tok[r])
    /\ Reply(r, "storeRotated")
    /\ UNCHANGED <<users, resetToken, mfaOtp, lapsed, held, jwt, locals>>

\* FindByID, the new pair and the INSERT of its refresh token.
StoreRotated(r) ==
    /\ pc[r] = "storeRotated"
    /\ CreateSession(r)
    /\ \/ GoTo(r, "ok") /\ held' = held \cup {r} /\ jwt' = jwt \cup {who[r]}
       \/ GoTo(r, "failed") /\ UNCHANGED <<held, jwt>>
    /\ UNCHANGED <<users, resetToken, mfaOtp, lapsed, locals>>

Logout(r) ==
    /\ Arrives(r)
    /\ \E u \in jwt, t \in held :
         /\ FindActiveByHash(t)
         /\ who[t] = u
         /\ Serves("Logout", r, u, t)
    /\ GoTo(r, "revoke")
    /\ UNCHANGED <<tables, lapsed, held, jwt, row, prior>>

RevokeOne(r) ==
    /\ pc[r] = "revoke"
    /\ Revoke(tok[r])
    /\ Reply(r, "ok")
    /\ UNCHANGED <<users, resetToken, mfaOtp, lapsed, held, jwt, locals>>

-----------------------------------------------------------------------------
(* ForgotPassword and ResetPassword.                                       *)

ForgotPassword(r) ==
    /\ Arrives(r)
    /\ \E u \in User : Serves("ForgotPassword", r, u, None)
    /\ GoTo(r, "deleteUnused")
    /\ UNCHANGED <<tables, lapsed, held, jwt, row, prior>>

DropUnusedResets(r) ==
    /\ pc[r] = "deleteUnused"
    /\ DeleteUnused(who[r])
    /\ Reply(r, "storeReset")
    /\ UNCHANGED <<users, refreshToken, mfaOtp, lapsed, held, jwt, locals>>

StoreReset(r) ==
    /\ pc[r] = "storeReset"
    /\ resetToken' = [resetToken EXCEPT ![r] = "unused"]
    /\ Reply(r, "sendReset")
    /\ UNCHANGED <<users, refreshToken, mfaOtp, lapsed, held, jwt, locals>>

SendReset(r) ==
    /\ pc[r] = "sendReset"
    /\ \/ held' = held \cup {r} /\ Reply(r, "ok")
       \/ UNCHANGED held /\ GoTo(r, "failed")
    /\ UNCHANGED <<tables, lapsed, jwt, locals>>

ResetPassword(r) ==
    /\ Arrives(r)
    /\ \E q \in held :
         /\ FindValidReset(q)
         /\ Serves("ResetPassword", r, who[q], q)
    /\ GoTo(r, "updatePassword")
    /\ UNCHANGED <<tables, lapsed, held, jwt, row, prior>>

WriteNewPassword(r) ==
    /\ pc[r] = "updatePassword"
    /\ UpdatePassword(who[r], r)
    /\ prior' = [prior EXCEPT ![r] = SessionsOf(who[r])]
    /\ Reply(r, "markReset")
    /\ UNCHANGED <<refreshToken, resetToken, mfaOtp, lapsed, held, jwt, op, who, tok, row>>

MarkReset(r) ==
    /\ pc[r] = "markReset"
    /\ MarkResetUsed(tok[r])
    /\ Reply(r, "revokeAll")
    /\ UNCHANGED <<users, refreshToken, mfaOtp, lapsed, held, jwt, locals>>

\* Mutant: a failed RevokeAllForUser is logged and forgotten.
MutRevokeAll(r) ==
    /\ pc[r] = "revokeAll"
    /\ RevokeAllForUser(who[r]) \/ UNCHANGED refreshToken
    /\ GoTo(r, "ok")
    /\ UNCHANGED <<users, resetToken, mfaOtp, lapsed, held, jwt, locals>>

RevokeAll(r) ==
    /\ pc[r] = "revokeAll"
    /\ RevokeAllForUser(who[r])
    /\ Reply(r, "ok")
    /\ UNCHANGED <<users, resetToken, mfaOtp, lapsed, held, jwt, locals>>

-----------------------------------------------------------------------------
(* ChangePassword, EnableMFA and DisableMFA: authenticated by the JWT.     *)

ChangePassword(r) ==
    /\ Arrives(r)
    /\ \E u \in jwt :
         /\ Serves("ChangePassword", r, u, None)
         /\ UpdatePassword(u, r)
         /\ prior' = [prior EXCEPT ![r] = SessionsOf(u)]
    /\ Reply(r, "revokeAllLogged")
    /\ UNCHANGED <<refreshToken, resetToken, mfaOtp, lapsed, held, jwt, row>>

\* An error of RevokeAllForUser is logged and the answer is still 200.
RevokeAllLogged(r) ==
    /\ pc[r] = "revokeAllLogged"
    /\ RevokeAllForUser(who[r]) \/ UNCHANGED refreshToken
    /\ GoTo(r, "ok")
    /\ UNCHANGED <<users, resetToken, mfaOtp, lapsed, held, jwt, locals>>

\* Mutant: the row to write is not loaded first.
MutEnableMFA(r) ==
    /\ Arrives(r)
    /\ \E u \in jwt, on \in BOOLEAN :
         /\ Serves("EnableMFA", r, u, None)
         /\ row' = [row EXCEPT ![r] = [Blank EXCEPT !.mfa = on]]
    /\ GoTo(r, "updateUser")
    /\ UNCHANGED <<tables, lapsed, held, jwt, prior>>

\* EnableMFA and DisableMFA differ in the value they store.
EnableMFA(r) ==
    /\ Arrives(r)
    /\ \E u \in jwt, on \in BOOLEAN :
         /\ Serves("EnableMFA", r, u, None)
         /\ row' = [row EXCEPT ![r] = [users[u] EXCEPT !.mfa = on]]
    /\ GoTo(r, "updateUser")
    /\ UNCHANGED <<tables, lapsed, held, jwt, prior>>

WriteUserRow(r) ==
    /\ pc[r] = "updateUser"
    /\ UpdateUserRow(who[r], r)
    /\ Reply(r, "ok")
    /\ UNCHANGED <<refreshToken, resetToken, mfaOtp, lapsed, held, jwt, locals>>

-----------------------------------------------------------------------------
(* Time.                                                                   *)

\* expires_at of the row r inserted passes.
Lapse(r) ==
    /\ r \notin lapsed
    /\ refreshToken[r] # "none" \/ resetToken[r] # "none" \/ mfaOtp[r] # "none"
    /\ lapsed' = lapsed \cup {r}
    /\ UNCHANGED <<tables, held, jwt, pc, locals>>

AccessTokenExpires(u) ==
    /\ u \in jwt
    /\ jwt' = jwt \ {u}
    /\ UNCHANGED <<tables, lapsed, held, pc, locals>>

-----------------------------------------------------------------------------
Arrival(r) ==
    \/ Refuse(r) \/ Login(r) \/ VerifyMFA(r) \/ Refresh(r) \/ Logout(r)
    \/ ForgotPassword(r) \/ ResetPassword(r) \/ ChangePassword(r) \/ EnableMFA(r)

\* What a handler that has started does next.
Step(r) ==
    \/ StoreOTP(r) \/ DeliverOTP(r) \/ IssueSession(r) \/ MarkOTP(r) \/ LoadUser(r)
    \/ RevokeOld(r) \/ StoreRotated(r) \/ RevokeOne(r)
    \/ DropUnusedResets(r) \/ StoreReset(r) \/ SendReset(r)
    \/ WriteNewPassword(r) \/ MarkReset(r) \/ RevokeAll(r)
    \/ RevokeAllLogged(r) \/ WriteUserRow(r)

\* Every request has been answered: the bounded run is over.
Served ==
    /\ \A r \in Request : pc[r] \in Finished
    /\ UNCHANGED vars

Next ==
    \/ \E r \in Request : Arrival(r) \/ Step(r) \/ Abort(r) \/ Lapse(r)
    \/ \E u \in User : AccessTokenExpires(u)
    \/ Served

Spec == Init /\ [][Next]_vars

\* A started handler is scheduled by the Go runtime and no statement waits for
\* ever; a crash is never owed, and neither is a request.
FairSpec == Spec /\ \A r \in Request : WF_vars(Step(r))

-----------------------------------------------------------------------------
(* Safety.                                                                 *)

\* Refresh "rotates": once its new token is stored, the token the client
\* presented is dead, whatever other requests did between the two statements.
RotationRevokesOld ==
    \A r \in Request :
        op[r] = "Refresh" /\ refreshToken[r] # "none" => refreshToken[tok[r]] = "revoked"

\* A ResetPassword that answers 200 has ended every session its user had when
\* the new password was written, and its link cannot be used again.
ResetEndsSessions ==
    \A r \in Request :
        op[r] = "ResetPassword" /\ pc[r] = "ok" =>
            /\ resetToken[tok[r]] # "unused"
            /\ \A t \in prior[r] : refreshToken[t] = "revoked"

\* The password that authenticated the login or the OTP behind session r.
SessionPassword(r) == IF op[r] = "VerifyMFA" THEN row[tok[r]].pw ELSE row[r].pw

\* The temporary password of a new account never opens a session, through
\* whatever mixture of logins, MFA, resets and stale writes of the users row.
SessionNeedsChosenPassword ==
    \A r \in Request :
        op[r] \in {"Login", "VerifyMFA"} /\ refreshToken[r] # "none" =>
            SessionPassword(r) # Temporary

\* A login of an account that had MFA on when its row was read never opens a
\* session itself: a VerifyMFA that spent an OTP of that same account does.
SecondFactor ==
    \A r \in Request : refreshToken[r] # "none" =>
        /\ op[r] = "Login" => ~row[r].mfa
        /\ op[r] = "VerifyMFA" => mfaOtp[tok[r]] = "used" /\ who[tok[r]] = who[r]

\* The session store as its clients see it.
Lifecycle == INSTANCE SessionLifecycle WITH
    Token <- Request, Owner <- User, NoToken <- None, NoOwner <- None,
    status <- refreshToken,
    owner <- [r \in Request |-> IF refreshToken[r] = "none" THEN None ELSE who[r]],
    predecessor <- [r \in Request |-> IF refreshToken[r] # "none" /\ op[r] = "Refresh"
                                      THEN tok[r] ELSE None]

\* The handlers implement the session life cycle.
ImplementsLifecycle == Lifecycle!Spec

-----------------------------------------------------------------------------
(* Properties of requests that do not overlap.                             *)

\* A refresh token is exchanged for at most one new token ("rotation").
RotatesOnce ==
    \A r, s \in Request :
        /\ op[r] = "Refresh" /\ refreshToken[r] # "none"
        /\ op[s] = "Refresh" /\ refreshToken[s] # "none"
        /\ tok[r] = tok[s]
        => r = s

\* An OTP opens at most one session and a reset link completes at most once.
CredentialsWorkOnce ==
    \A r, s \in Request :
        /\ tok[r] = tok[s] /\ tok[r] # None /\ op[r] = op[s]
        /\ \/ op[r] = "VerifyMFA" /\ refreshToken[r] # "none" /\ refreshToken[s] # "none"
           \/ op[r] = "ResetPassword" /\ pc[r] = "ok" /\ pc[s] = "ok"
        => r = s

\* A password once replaced never comes back: the stored version changes only
\* to the one the request that is writing it brings.
PasswordMovesForward ==
    [][\A u \in User :
          users'[u].pw # users[u].pw =>
              \E r \in Request : users'[u].pw = r /\ pc[r] \in {"idle", "updatePassword"}]_users
=============================================================================
