------------------------------- MODULE Accounts -------------------------------
(***************************************************************************)
(* The users table under its administrators and the logins of an external  *)
(* identity provider: the user handlers of services/auth_service.go, the   *)
(* guards and the data scopes of middleware/rbac_middleware.go, and        *)
(* SSOCallback.                                                            *)
(*                                                                         *)
(* A handler is let in by the role its access token was signed with, and a *)
(* leader by a permission an administrator has delegated.  It checks rows  *)
(* read by statements of their own and writes by another one; an SSO login *)
(* that links an account writes back every column of the row it has read.  *)
(*                                                                         *)
(* Names and mobile numbers are left out: nothing here depends on them but *)
(* a unique index on the number, as on the e-mail address.  Accounts are   *)
(* deactivated and never removed.  EnableMFA and DisableMFA, which write   *)
(* back the caller's whole row too, are actions of AuthSessions only.      *)
(***************************************************************************)
EXTENDS FiniteSets, Naturals

CONSTANTS
    Request,     \* calls of the handlers
    User,        \* ids of accounts
    Email,
    State,       \* random values that BuildSSORedirectURL may draw
    Subject,     \* people at the identity provider, each with the name of the provider they
                 \* signed in under: sso_provider and sso_subject_id together
    Claim,       \* Claim[s]: the e-mail address in the ID token of s, assumed not to change
    Permission,
    None,
    Seeds,       \* tables to start with: a row for every id, or None
    Bodies,      \* what the body of POST /users or PATCH /users/:id may hold
    MaxInFlight, \* bound: handlers running at the same time
    MaxTokens    \* bound: access tokens alive, or about to be signed

VARIABLES
    users,       \* users[u]: the row with that id, or None
    grants,      \* leader_delegations: pairs of a user and a permission
    states,      \* oauth_states: the states that are stored
    jwt,         \* live access tokens, as claims
    signing,     \* claims read from the table, their token not signed yet
    pc,          \* pc[r]: the statement request r issues next
    job,         \* job[r]: the local variables of request r
    person,      \* external: person[q]: who signs in at the provider with state q
    redeemed,    \* external: the states whose authorization code was exchanged
    moved,       \* history: accounts whose address an administrator has changed
    held         \* history: pairs of a user and a role it has had

tables   == <<users, grants, states>>
sessions == <<jwt, signing>>
external == <<person, redeemed>>
history  == <<moved, held>>
vars     == <<tables, sessions, external, history, pc, job>>

-----------------------------------------------------------------------------
(* Rows.                                                                   *)

\* IsValidRole.
ValidRole == {"admin", "leader", "sales_manager", "sales_executive"}

\* An account created by SSOCallback has a role that is not valid.
Role == ValidRole \cup {"agent"}

Row == [email : Email, role : Role, active : BOOLEAN, manager : User \cup {None},
        subject : Subject \cup {None}]

\* is_active is TRUE when a body does not name it.
Body == [email : Email, role : ValidRole, active : BOOLEAN, manager : User \cup {None}]

Claims == [user : User, role : Role]

ASSUME AccountsAssumption ==
    /\ Claim \in [Subject -> Email]
    /\ Seeds \subseteq [User -> Row \cup {None}]
    /\ \A users0 \in Seeds : \A u \in User : users0[u] # None =>
          /\ users0[u].subject # None => users0[u].email = Claim[users0[u].subject]
          /\ \A v \in User \ {u} : users0[v] # None => users0[v].email # users0[u].email
          /\ users0[u].manager # None =>
                users0[users0[u].manager] # None /\ users0[users0[u].manager].role = "sales_manager"
    /\ Bodies \subseteq Body
    /\ None \notin User \cup Subject \cup State \cup Permission \cup Row \cup Body
    /\ MaxInFlight \in Nat /\ MaxTokens \in Nat

Account == {u \in User : users[u] # None}

\* The unique index on users.email.
EmailFree(e, u) == \A v \in Account \ {u} : users[v].email # e

-----------------------------------------------------------------------------
(* Scopes.                                                                 *)

\* Mutant: the team of a manager is whoever has the manager's id.
MutManagedExecutives(u) == {v \in Account : users[v].manager = u /\ users[v].active}

\* GetManagedExecutiveIDs.
ManagedExecutives(u) ==
    {v \in Account : /\ users[v].manager = u
                     /\ users[v].role = "sales_executive"
                     /\ users[v].active}

IsUnrestricted(t) == t.role \in {"admin", "leader"}

AllowedUserIDs(t) ==
    {t.user} \cup (IF t.role = "sales_manager" THEN ManagedExecutives(t.user) ELSE {})

\* To whom the bearer of a token may give a lead.
CanAssignLead(t, u) == IsUnrestricted(t) \/ u \in AllowedUserIDs(t)

\* FindUsersByRoleScope: the users whom the bearer is offered.
Offered(t) ==
    {u \in Account :
        /\ users[u].active
        /\ \/ IsUnrestricted(t)
           \/ u = t.user
           \/ /\ t.role = "sales_manager"
              /\ users[u].manager = t.user
              /\ users[u].role = "sales_executive"}

-----------------------------------------------------------------------------
(* Requests.                                                               *)

NoJob == [user |-> None, body |-> None, permission |-> None, state |-> None, row |-> None]

Job == [user : User \cup {None},              \* the account to write, or to open
        body : Body \cup {None},
        permission : Permission \cup {None},
        state : State \cup {None},            \* the state that came back
        row : Row \cup {None}]                \* the row that was read

Running ==
    {"create_manager", "find_email", "insert", "update_manager", "update", "deactivate",
     "find_executive", "assign_manager", "assign", "find_leader", "grant", "revoke",
     "delete_state", "exchange", "find_subject", "find_claim", "create", "link", "issue"}

TypeOK ==
    /\ users \in [User -> Row \cup {None}]
    /\ grants \subseteq Account \X Permission
    /\ states \subseteq State
    /\ jwt \subseteq Claims /\ signing \subseteq Claims
    /\ pc \in [Request -> {"idle"} \cup Running \cup {"done"}]
    /\ job \in [Request -> Job]
    /\ person \in [State -> Subject \cup {None}]
    /\ redeemed \subseteq State
    /\ moved \subseteq User
    /\ held \subseteq User \X Role

Init ==
    /\ users \in Seeds
    /\ grants \in SUBSET ({u \in Account : users[u].role = "leader"} \X Permission)
    /\ states = {}
    /\ jwt = {} /\ signing = {}
    /\ pc = [r \in Request |-> "idle"]
    /\ job = [r \in Request |-> NoJob]
    /\ person = [q \in State |-> None]
    /\ redeemed = {}
    /\ moved = {}
    /\ held = {<<u, users[u].role>> : u \in Account}

InFlight == {r \in Request : pc[r] \in Running}

Arrives(r) ==
    /\ pc[r] = "idle"
    /\ Cardinality(InFlight) < MaxInFlight

Continue(r, label, j) ==
    /\ pc' = [pc EXCEPT ![r] = label]
    /\ job' = [job EXCEPT ![r] = j]

\* Which answer it is, no property asks.
Answer(r) == Continue(r, "done", NoJob)

Pass(r, label) == Continue(r, label, job[r])

\* RequireRole: the role in the token decides.
RequireAdmin == \E t \in jwt : t.role = "admin"

\* RequirePermission: an administrator, or a leader with the permission.
RequirePermission(p) ==
    \E t \in jwt : t.role = "admin" \/ (t.role = "leader" /\ <<t.user, p>> \in grants)

\* A token or a body that is not valid, a permission that is not held.
Refuse(r) ==
    /\ Arrives(r)
    /\ Answer(r)
    /\ UNCHANGED <<tables, sessions, external, history>>

\* An administrator's write, or a creation.
WriteAccount(u, row) ==
    /\ users' = [users EXCEPT ![u] = row]
    /\ held' = held \cup {<<u, row.role>>}
    /\ moved' = IF u \in Account /\ users[u].email # row.email THEN moved \cup {u} ELSE moved
    /\ UNCHANGED <<grants, states>>

-----------------------------------------------------------------------------
(* Access tokens.                                                          *)

\* Mutant: a refresh signs the claims of the token that it replaces.
MutReadClaims(u) ==
    /\ \E t \in jwt \cup {[user |-> u, role |-> users[u].role]} :
          t.user = u /\ signing' = signing \cup {t}
    /\ Cardinality(jwt \cup signing') <= MaxTokens
    /\ UNCHANGED <<tables, external, history, pc, job, jwt>>

\* Login, VerifyMFA and Refresh read the row; nobody looks at is_active.
ReadClaims(u) ==
    /\ signing' = signing \cup {[user |-> u, role |-> users[u].role]}
    /\ Cardinality(jwt \cup signing') <= MaxTokens
    /\ UNCHANGED <<tables, external, history, pc, job, jwt>>

SignToken(t) ==
    /\ t \in signing
    /\ signing' = signing \ {t}
    /\ jwt' = jwt \cup {t}
    /\ UNCHANGED <<tables, external, history, pc, job>>

TokenExpires(t) ==
    /\ t \in jwt
    /\ jwt' = jwt \ {t}
    /\ UNCHANGED <<tables, external, history, pc, job, signing>>

-----------------------------------------------------------------------------
(* POST /users, PATCH and DELETE /users/:id.                               *)

\* An executive needs a manager, and nobody else is given one.
CreateUser(r) ==
    /\ Arrives(r) /\ RequirePermission("user.create")
    /\ \E b \in Bodies :
         IF b.role = "sales_executive"
         THEN b.manager # None /\ Continue(r, "create_manager", [NoJob EXCEPT !.body = b])
         ELSE Continue(r, "find_email", [NoJob EXCEPT !.body = [b EXCEPT !.manager = None]])
    /\ UNCHANGED <<tables, sessions, external, history>>

IsManager(m, active) ==
    m \in Account /\ users[m].role = "sales_manager" /\ (active => users[m].active)

\* FindByID of the manager that a body names: a creation alone asks for an active one.
CheckManager(r) ==
    /\ pc[r] \in {"create_manager", "update_manager", "assign_manager"}
    /\ IF IsManager(job[r].body.manager, pc[r] = "create_manager")
       THEN Pass(r, CASE pc[r] = "create_manager" -> "find_email"
                      [] pc[r] = "update_manager" -> "update"
                      [] pc[r] = "assign_manager" -> "assign")
       ELSE Answer(r)
    /\ UNCHANGED <<tables, sessions, external, history>>

\* FindByEmail; an error of it counts as nobody.
CheckEmail(r) ==
    /\ pc[r] = "find_email"
    /\ \/ Pass(r, "insert")
       \/ ~EmailFree(job[r].body.email, None) /\ Answer(r)
    /\ UNCHANGED <<tables, sessions, external, history>>

\* userRepo.Create, and the welcome mail, which may fail.
InsertUser(r) ==
    /\ pc[r] = "insert"
    /\ \E u \in User \ Account :
         LET b == job[r].body IN
         /\ EmailFree(b.email, u)
         /\ WriteAccount(u, [email |-> b.email, role |-> b.role, active |-> TRUE,
                             manager |-> b.manager, subject |-> None])
    /\ Answer(r)
    /\ UNCHANGED <<sessions, external>>

UpdateUser(r) ==
    /\ Arrives(r) /\ RequirePermission("user.update")
    /\ \E u \in User, b \in Bodies :
         Continue(r, IF b.manager # None THEN "update_manager" ELSE "update",
                  [NoJob EXCEPT !.user = u, !.body = b])
    /\ UNCHANGED <<tables, sessions, external, history>>

\* UpdateUserDetails writes every column of the body, the ones it does not name as
\* well; no row is no error.  The row is read again for the answer.
UpdateDetails(r) ==
    /\ pc[r] = "update"
    /\ LET u == job[r].user
           b == job[r].body
       IN
       IF u \in Account
       THEN /\ EmailFree(b.email, u)
            /\ WriteAccount(u, [email |-> b.email, role |-> b.role, active |-> b.active,
                                manager |-> b.manager, subject |-> users[u].subject])
            /\ Answer(r)
       ELSE Answer(r) /\ UNCHANGED <<tables, history>>
    /\ UNCHANGED <<sessions, external>>

DeleteUser(r) ==
    /\ Arrives(r) /\ RequirePermission("user.delete")
    /\ \E u \in User : Continue(r, "deactivate", [NoJob EXCEPT !.user = u])
    /\ UNCHANGED <<tables, sessions, external, history>>

Deactivate(r) ==
    /\ pc[r] = "deactivate"
    /\ IF job[r].user \in Account
       THEN WriteAccount(job[r].user, [users[job[r].user] EXCEPT !.active = FALSE])
       ELSE UNCHANGED <<tables, history>>
    /\ Answer(r)
    /\ UNCHANGED <<sessions, external>>

-----------------------------------------------------------------------------
(* PATCH /users/:id/manager.                                               *)

AssignManager(r) ==
    /\ Arrives(r) /\ RequirePermission("manager.manage")
    /\ \E u \in User, b \in Bodies :
         Continue(r, "find_executive", [NoJob EXCEPT !.user = u, !.body = b])
    /\ UNCHANGED <<tables, sessions, external, history>>

FindExecutive(r) ==
    /\ pc[r] = "find_executive"
    /\ LET u == job[r].user IN
       IF u \in Account /\ users[u].role = "sales_executive"
       THEN Pass(r, IF job[r].body.manager # None THEN "assign_manager" ELSE "assign")
       ELSE Answer(r)
    /\ UNCHANGED <<tables, sessions, external, history>>

\* AssignExecutiveToManager.
AssignExecutive(r) ==
    /\ pc[r] = "assign"
    /\ WriteAccount(job[r].user, [users[job[r].user] EXCEPT !.manager = job[r].body.manager])
    /\ Answer(r)
    /\ UNCHANGED <<sessions, external>>

-----------------------------------------------------------------------------
(* /users/:id/delegations.                                                 *)

GrantPermission(r) ==
    /\ Arrives(r) /\ RequireAdmin
    /\ \E u \in User, p \in Permission :
         Continue(r, "find_leader", [NoJob EXCEPT !.user = u, !.permission = p])
    /\ UNCHANGED <<tables, sessions, external, history>>

\* Mutant: the receiver is not looked up.
MutFindLeader(r) ==
    /\ pc[r] = "find_leader"
    /\ Pass(r, "grant")
    /\ UNCHANGED <<tables, sessions, external, history>>

FindLeader(r) ==
    /\ pc[r] = "find_leader"
    /\ LET u == job[r].user IN
       IF u \in Account /\ users[u].role = "leader"
       THEN Pass(r, "grant")
       ELSE Answer(r)
    /\ UNCHANGED <<tables, sessions, external, history>>

InsertGrant(r) ==
    /\ pc[r] = "grant"
    /\ grants' = grants \cup {<<job[r].user, job[r].permission>>}
    /\ Answer(r)
    /\ UNCHANGED <<users, states, sessions, external, history>>

RevokePermission(r) ==
    /\ Arrives(r) /\ RequireAdmin
    /\ \E u \in User, p \in Permission :
         Continue(r, "revoke", [NoJob EXCEPT !.user = u, !.permission = p])
    /\ UNCHANGED <<tables, sessions, external, history>>

DeleteGrant(r) ==
    /\ pc[r] = "revoke"
    /\ grants' = grants \ {<<job[r].user, job[r].permission>>}
    /\ Answer(r)
    /\ UNCHANGED <<users, states, sessions, external, history>>

-----------------------------------------------------------------------------
(* Single sign-on.                                                         *)

\* BuildSSORedirectURL stores a new state, by one statement; the one who follows the
\* redirect signs in at the provider.
BuildRedirect(q) ==
    /\ person[q] = None
    /\ states' = states \cup {q}
    /\ \E s \in Subject : person' = [person EXCEPT ![q] = s]
    /\ UNCHANGED <<users, grants, sessions, redeemed, history, pc, job>>

\* VerifyOAuthState: the SELECT.
SSOCallback(r) ==
    /\ Arrives(r)
    /\ \E q \in states : Continue(r, "delete_state", [NoJob EXCEPT !.state = q])
    /\ UNCHANGED <<tables, sessions, external, history>>

\* VerifyOAuthState: the DELETE, whose outcome is dropped, then the expiry, which may have
\* passed at any time.
DeleteState(r) ==
    /\ pc[r] = "delete_state"
    /\ states' = states \ {job[r].state} \/ UNCHANGED states
    /\ Pass(r, "exchange") \/ Answer(r)
    /\ UNCHANGED <<users, grants, sessions, external, history>>

\* The token exchange: the provider takes an authorization code once.
ExchangeCode(r) ==
    /\ pc[r] = "exchange"
    /\ job[r].state \notin redeemed
    /\ redeemed' = redeemed \cup {job[r].state}
    /\ Pass(r, "find_subject")
    /\ UNCHANGED <<tables, sessions, person, history>>

Found(r, u) == Continue(r, "issue", [job[r] EXCEPT !.user = u, !.row = users[u]])

FindBySSOID(r) ==
    /\ pc[r] = "find_subject"
    /\ LET known == {u \in Account : users[u].subject = person[job[r].state]} IN
       IF known = {} THEN Pass(r, "find_claim") ELSE \E u \in known : Found(r, u)
    /\ UNCHANGED <<tables, sessions, external, history>>

FindClaimed(r) ==
    /\ pc[r] = "find_claim"
    /\ LET named == {u \in Account : users[u].email = Claim[person[job[r].state]]} IN
       IF named = {} THEN Pass(r, "create")
       ELSE \E u \in named :
              Continue(r, "link", [job[r] EXCEPT !.user = u, !.row = users[u]])
    /\ UNCHANGED <<tables, sessions, external, history>>

\* Mutant: the index on the address is left out.
MutCreateSSOUser(r) ==
    /\ pc[r] = "create"
    /\ \E u \in User \ Account :
         LET s   == person[job[r].state]
             row == [email |-> Claim[s], role |-> "agent", active |-> FALSE,
                     manager |-> None, subject |-> s]
         IN
         /\ WriteAccount(u, row)
         /\ Continue(r, "issue", [job[r] EXCEPT !.user = u, !.row = row])
    /\ UNCHANGED <<sessions, external>>

\* The new account is not active and its role is not valid.
CreateSSOUser(r) ==
    /\ pc[r] = "create"
    /\ \E u \in User \ Account :
         LET s   == person[job[r].state]
             row == [email |-> Claim[s], role |-> "agent", active |-> FALSE,
                     manager |-> None, subject |-> s]
         IN
         /\ EmailFree(Claim[s], u)
         /\ WriteAccount(u, row)
         /\ Continue(r, "issue", [job[r] EXCEPT !.user = u, !.row = row])
    /\ UNCHANGED <<sessions, external>>

\* userRepo.Update of the whole row that was read.
LinkAccount(r) ==
    /\ pc[r] = "link"
    /\ LET u   == job[r].user
           row == [job[r].row EXCEPT !.subject = person[job[r].state]]
       IN
       /\ EmailFree(row.email, u)
       /\ users' = [users EXCEPT ![u] = row]
       /\ held' = held \cup {<<u, row.role>>}
       /\ Continue(r, "issue", [job[r] EXCEPT !.row = row])
    /\ UNCHANGED <<grants, states, sessions, external, moved>>

\* issueSession signs what the row in memory says.
IssueSession(r) ==
    /\ pc[r] = "issue"
    /\ jwt' = jwt \cup {[user |-> job[r].user, role |-> job[r].row.role]}
    /\ Answer(r)
    /\ UNCHANGED <<tables, signing, external, history>>

-----------------------------------------------------------------------------
\* A statement or an exchange fails, or the server stops.
Abort(r) ==
    /\ pc[r] \in Running
    /\ Answer(r)
    /\ UNCHANGED <<tables, sessions, external, history>>

\* Every request has been answered: the bounded run is over.
Served ==
    /\ \A r \in Request : pc[r] = "done"
    /\ UNCHANGED vars

Next ==
    \/ \E u \in Account : ReadClaims(u)
    \/ \E q \in State : BuildRedirect(q)
    \/ \E t \in Claims : SignToken(t) \/ TokenExpires(t)
    \/ \E r \in Request :
          \/ Refuse(r) \/ CreateUser(r) \/ UpdateUser(r) \/ DeleteUser(r) \/ AssignManager(r)
          \/ GrantPermission(r) \/ RevokePermission(r) \/ SSOCallback(r)
          \/ CheckManager(r) \/ CheckEmail(r) \/ InsertUser(r) \/ UpdateDetails(r)
          \/ Deactivate(r) \/ FindExecutive(r) \/ AssignExecutive(r)
          \/ FindLeader(r) \/ InsertGrant(r) \/ DeleteGrant(r)
          \/ DeleteState(r) \/ ExchangeCode(r) \/ FindBySSOID(r)
          \/ FindClaimed(r) \/ CreateSSOUser(r) \/ LinkAccount(r) \/ IssueSession(r)
          \/ Abort(r)
    \/ Served

\* Access tokens do expire.
Fairness == \A t \in Claims : WF_vars(TokenExpires(t))

Spec == Init /\ [][Next]_vars /\ Fairness

-----------------------------------------------------------------------------
(* Properties.                                                             *)

\* A person at a provider has one account, although no index says so and an account is
\* opened or linked from lookups that are outdated by then, as long as no administrator
\* has changed the address of either account.
SubjectOnce ==
    \A u, v \in Account \ moved :
        users[u].subject = users[v].subject /\ users[u].subject # None => u = v

\* The two queries that work out whom a user may give leads to agree: whom the list
\* of users offers can be assigned, and who can be assigned and is active is offered.
OfferedIsAssignable ==
    \A t \in Claims : Offered(t) = {u \in Account : users[u].active /\ CanAssignLead(t, u)}

\* Delegated permissions belong to users who have been leaders, and teams to users who
\* have been managers, even if roles change while the check and the write are apart.
RolesWereChecked ==
    /\ \A g \in grants : <<g[1], "leader">> \in held
    /\ \A u \in Account : users[u].manager # None => <<users[u].manager, "sales_manager">> \in held

\* A change of role takes effect: once a user stays out of a role, no token of the
\* user has that role any more, although tokens cannot be revoked.
RoleChangeTakesEffect ==
    \A u \in User, role \in {"admin", "leader"} :
        <>[](u \in Account => users[u].role # role) => <>[]([user |-> u, role |-> role] \notin jwt)
=============================================================================
