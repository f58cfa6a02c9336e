---------------------------- MODULE AccountsProofs ----------------------------
(* Theorems about Accounts: the types, that a person at a provider has one  *)
(* account, that permissions and teams belong to whom they may, and that    *)
(* the two queries of a data scope agree.                                   *)
EXTENDS Accounts, TLAPS

-----------------------------------------------------------------------------
(* The invariant.                                                          *)

\* The unique index on users.email.
EmailOnce ==
    \A u, v \in Account : users[u].email = users[v].email => u = v

\* Whoever signs in at a provider has the address that the provider knows, until an
\* administrator changes it.
AddressClaimed ==
    \A u \in Account \ moved :
        users[u].subject # None => users[u].email = Claim[users[u].subject]

\* The history holds the present.
HeldNow == \A u \in Account : <<u, users[u].role>> \in held

TablesReady ==
    /\ users \in [User -> Row \cup {None}]
    /\ grants \subseteq Account \X Permission
    /\ moved \subseteq User
    /\ held \subseteq User \X Role
    /\ EmailOnce /\ AddressClaimed /\ HeldNow /\ RolesWereChecked

\* Whoever follows a redirect signs in: a stored state belongs to a person.
OutsideReady ==
    /\ states \subseteq State
    /\ jwt \subseteq Claims /\ signing \subseteq Claims
    /\ person \in [State -> Subject \cup {None}]
    /\ redeemed \subseteq State
    /\ \A q \in states : person[q] # None

ManagerHeld(manager) == manager # None => <<manager, "sales_manager">> \in held

\* What a request knows before the statement with that label: what it has checked
\* is remembered by the history, and accounts do not go away.
JobFits(label, j) ==
    /\ label \in {"create_manager", "find_email", "insert", "update_manager", "update",
                  "find_executive", "assign_manager", "assign"} => j.body \in Body
    /\ label \in {"update_manager", "update", "deactivate", "find_executive", "assign_manager",
                  "assign", "find_leader", "grant", "revoke", "link", "issue"} => j.user \in User
    /\ label \in {"find_leader", "grant", "revoke"} => j.permission \in Permission
    /\ label \in {"assign_manager", "assign", "grant", "link"} => j.user \in Account
    /\ label \in {"find_email", "insert", "update", "assign"} => ManagerHeld(j.body.manager)
    /\ label = "grant" => <<j.user, "leader">> \in held
    /\ label \in {"delete_state", "exchange", "find_subject", "find_claim", "create", "link"} =>
          j.state \in State /\ person[j.state] \in Subject
    /\ label \in {"link", "issue"} => j.row \in Row
    /\ label = "link" => /\ j.row.email = Claim[person[j.state]]
                         /\ ManagerHeld(j.row.manager)

Label == {"idle"} \cup Running \cup {"done"}

JobsReady ==
    /\ pc \in [Request -> Label]
    /\ job \in [Request -> Job]
    /\ \A r \in Request : JobFits(pc[r], job[r])

AccountsInv == TablesReady /\ OutsideReady /\ JobsReady

\* What a job has found stays found.
Grows ==
    /\ held \subseteq held'
    /\ Account \subseteq Account'
    /\ \A q \in State : person[q] # None => person'[q] = person[q]

-----------------------------------------------------------------------------
(* The operators.                                                          *)

\* None is no id, no row and no body.
LEMMA NoneApart ==
    None \notin User /\ None \notin Subject /\ None \notin State /\ None \notin Permission
    /\ None \notin Row /\ None \notin Body
  BY AccountsAssumption

LEMMA NoJobType == NoJob \in Job
  BY DEF NoJob, Job

\* A request that goes on with a job fit for its next statement.
LEMMA ContinueFits ==
    ASSUME JobsReady, Grows, NEW r \in Request, NEW label \in Label, NEW j \in Job,
           Continue(r, label, j), JobFits(label, j)
    PROVE  JobsReady'
  <1>1. /\ pc' = [pc EXCEPT ![r] = label] /\ job' = [job EXCEPT ![r] = j]
        /\ pc \in [Request -> Label] /\ job \in [Request -> Job]
    BY DEF Continue, JobsReady
  <1>2. pc' \in [Request -> Label] /\ job' \in [Request -> Job]
    BY <1>1
  <1>3. pc'[r] = label /\ job'[r] = j
    BY <1>1
  <1>4. ASSUME NEW q \in Request, q # r PROVE pc'[q] = pc[q] /\ job'[q] = job[q]
    BY <1>1, <1>4
  <1>5. ASSUME NEW l \in Label, NEW k \in Job, JobFits(l, k)
        PROVE  /\ l \in {"create_manager", "find_email", "insert", "update_manager", "update",
                         "find_executive", "assign_manager", "assign"} => k.body \in Body
               /\ l \in {"update_manager", "update", "deactivate", "find_executive",
                         "assign_manager", "assign", "find_leader", "grant", "revoke", "link",
                         "issue"} => k.user \in User
               /\ l \in {"find_leader", "grant", "revoke"} => k.permission \in Permission
               /\ l \in {"assign_manager", "assign", "grant", "link"} => k.user \in Account'
               /\ l \in {"find_email", "insert", "update", "assign"} /\ k.body.manager # None =>
                     <<k.body.manager, "sales_manager">> \in held'
               /\ l = "grant" => <<k.user, "leader">> \in held'
               /\ l \in {"delete_state", "exchange", "find_subject", "find_claim", "create",
                         "link"} => k.state \in State /\ person'[k.state] \in Subject
               /\ l \in {"link", "issue"} => k.row \in Row
               /\ l = "link" => k.row.email = Claim[person'[k.state]]
               /\ l = "link" /\ k.row.manager # None =>
                     <<k.row.manager, "sales_manager">> \in held'
    <2>1. l \in {"delete_state", "exchange", "find_subject", "find_claim", "create", "link"} =>
             k.state \in State /\ person[k.state] \in Subject /\ person'[k.state] = person[k.state]
      BY <1>5, NoneApart DEF JobFits, Grows
    <2> QED  BY <1>5, <2>1 DEF JobFits, Grows, ManagerHeld
  <1>6. ASSUME NEW q \in Request PROVE JobFits(pc[q], job[q])'
    <2>1. CASE q = r
      BY <1>3, <1>5, <2>1 DEF JobFits, ManagerHeld
    <2>2. CASE q # r
      <3>1. pc[q] \in Label /\ job[q] \in Job /\ JobFits(pc[q], job[q])
        BY DEF JobsReady
      <3> QED  BY <1>4, <1>5, <2>2, <3>1 DEF JobFits, ManagerHeld
    <2> QED  BY <2>1, <2>2
  <1> QED  BY <1>2, <1>6 DEF JobsReady

\* A request that is answered.
LEMMA AnswerFits ==
    ASSUME JobsReady, Grows, NEW r \in Request, Answer(r)
    PROVE  JobsReady'
  <1>1. "done" \in Label /\ JobFits("done", NoJob)
    BY DEF Label, JobFits
  <1> QED  BY <1>1, NoJobType, ContinueFits DEF Answer

\* A step that changes no table.
LEMMA TablesKept ==
    ASSUME TablesReady, UNCHANGED <<users, grants, moved, held>>
    PROVE  TablesReady' /\ Account' = Account
  BY DEF TablesReady, Account, EmailOnce, AddressClaimed, HeldNow, RolesWereChecked

\* The row of an account is written, or inserted: it fits if its address is nobody
\* else's, its manager has been one, and its address is the claimed one unless an
\* administrator has changed it.
LEMMA RowWritten ==
    ASSUME TablesReady, NEW u \in User, NEW row \in Row,
           users' = [users EXCEPT ![u] = row],
           held' = held \cup {<<u, row.role>>},
           moved \subseteq moved', moved' \subseteq User, grants' = grants,
           EmailFree(row.email, u), ManagerHeld(row.manager),
           row.subject # None /\ u \notin moved' => row.email = Claim[row.subject]
    PROVE  TablesReady' /\ held \subseteq held' /\ Account \subseteq Account'
  <1>1. users' \in [User -> Row \cup {None}] /\ users'[u] = row
        /\ \A v \in User \ {u} : users'[v] = users[v]
    BY DEF TablesReady
  <1>2. Account' = Account \cup {u}
    BY <1>1, NoneApart DEF Account
  <1>3. row.role \in Role
    BY DEF Row
  <1>4. held' \subseteq User \X Role /\ grants' \subseteq Account' \X Permission
    BY <1>2, <1>3 DEF TablesReady
  <1>5. EmailOnce'
    BY <1>1, <1>2 DEF TablesReady, EmailOnce, EmailFree, Account
  <1>6. AddressClaimed'
    BY <1>1, <1>2 DEF TablesReady, AddressClaimed, Account
  <1>7. HeldNow'
    BY <1>1, <1>2 DEF TablesReady, HeldNow, Account
  <1>8. RolesWereChecked'
    BY <1>1, <1>2 DEF TablesReady, RolesWereChecked, ManagerHeld, Account
  <1> QED  BY <1>1, <1>2, <1>4, <1>5, <1>6, <1>7, <1>8 DEF TablesReady

-----------------------------------------------------------------------------
(* The steps.                                                              *)

\* A step that changes nothing but the job of one request, which stays fit.
LEMMA GoesOn ==
    ASSUME AccountsInv, UNCHANGED <<tables, sessions, external, history>>,
           NEW r \in Request, NEW label \in Label, NEW j \in Job,
           Continue(r, label, j), JobFits(label, j)
    PROVE  AccountsInv'
  <1> USE DEF tables, sessions, external, history
  <1>1. TablesReady' /\ Account' = Account
    BY TablesKept DEF AccountsInv
  <1>2. JobsReady'
    BY <1>1, ContinueFits DEF AccountsInv, Grows
  <1>3. OutsideReady'
    BY DEF AccountsInv, OutsideReady
  <1> QED  BY <1>1, <1>2, <1>3 DEF AccountsInv

LEMMA Answered ==
    ASSUME AccountsInv, UNCHANGED <<tables, sessions, external, history>>,
           NEW r \in Request, Answer(r)
    PROVE  AccountsInv'
  <1>1. "done" \in Label /\ JobFits("done", NoJob)
    BY DEF Label, JobFits
  <1> QED  BY <1>1, NoJobType, GoesOn DEF Answer

\* The arrival of a request leaves a fit job.
LEMMA ArrivalFits ==
    ASSUME AccountsInv, NEW r \in Request,
           \/ Refuse(r) \/ CreateUser(r) \/ UpdateUser(r) \/ DeleteUser(r) \/ AssignManager(r)
           \/ GrantPermission(r) \/ RevokePermission(r) \/ SSOCallback(r)
    PROVE  AccountsInv'
  <1>b. Bodies \subseteq Body
    BY AccountsAssumption
  <1>l. {"create_manager", "find_email", "update_manager", "update", "deactivate",
         "find_executive", "find_leader", "revoke", "delete_state"} \subseteq Label
    BY DEF Label, Running
  <1>1. CASE Refuse(r)
    BY <1>1, Answered DEF Refuse
  <1>2. CASE CreateUser(r)
    <2>1. PICK b \in Bodies :
            IF b.role = "sales_executive"
            THEN b.manager # None /\ Continue(r, "create_manager", [NoJob EXCEPT !.body = b])
            ELSE Continue(r, "find_email", [NoJob EXCEPT !.body = [b EXCEPT !.manager = None]])
      BY <1>2 DEF CreateUser
    <2>2. CASE b.role = "sales_executive"
      <3> DEFINE j == [NoJob EXCEPT !.body = b]
      <3>1. j \in Job /\ j.body \in Body
        BY <1>b DEF Job, NoJob
      <3>2. JobFits("create_manager", j)
        BY <3>1 DEF JobFits
      <3> QED  BY <1>2, <1>l, <2>1, <2>2, <3>1, <3>2, GoesOn DEF CreateUser
    <2>3. CASE b.role # "sales_executive"
      <3> DEFINE c == [b EXCEPT !.manager = None]
                 j == [NoJob EXCEPT !.body = c]
      <3>1. c \in Body /\ c.manager = None
        BY <1>b DEF Body
      <3>2. Continue(r, "find_email", j)
        BY <2>1, <2>3
      <3> HIDE DEF c
      <3>3. j \in Job /\ j.body = c
        BY <3>1 DEF Job, NoJob
      <3>4. JobFits("find_email", j)
        BY <3>1, <3>3 DEF JobFits, ManagerHeld
      <3> HIDE DEF j
      <3> QED  BY <1>2, <1>l, <3>2, <3>3, <3>4, GoesOn DEF CreateUser
    <2> QED  BY <2>2, <2>3
  <1>3. CASE UpdateUser(r) \/ AssignManager(r)
    <2>1. PICK u \in User, b \in Bodies, label \in {"update_manager", "update", "find_executive"} :
            /\ label = "update" => b.manager = None
            /\ Continue(r, label, [NoJob EXCEPT !.user = u, !.body = b])
      BY <1>3 DEF UpdateUser, AssignManager
    <2> DEFINE j == [NoJob EXCEPT !.user = u, !.body = b]
    <2>2. j \in Job /\ j.user = u /\ j.body = b /\ b \in Body
      BY <1>b DEF Job, NoJob
    <2>3. Continue(r, label, j)
      BY <2>1
    <2> HIDE DEF j
    <2>4. JobFits(label, j)
      BY <2>1, <2>2 DEF JobFits, ManagerHeld
    <2> QED  BY <1>3, <1>l, <2>2, <2>3, <2>4, GoesOn DEF UpdateUser, AssignManager
  <1>4. CASE DeleteUser(r)
    <2>1. PICK u \in User : Continue(r, "deactivate", [NoJob EXCEPT !.user = u])
      BY <1>4 DEF DeleteUser
    <2> DEFINE j == [NoJob EXCEPT !.user = u]
    <2>2. j \in Job /\ j.user = u
      BY DEF Job, NoJob
    <2>3. JobFits("deactivate", j)
      BY <2>2 DEF JobFits
    <2> QED  BY <1>4, <1>l, <2>1, <2>2, <2>3, GoesOn DEF DeleteUser
  <1>5. CASE GrantPermission(r) \/ RevokePermission(r)
    <2>1. PICK u \in User, p \in Permission, label \in {"find_leader", "revoke"} :
            Continue(r, label, [NoJob EXCEPT !.user = u, !.permission = p])
      BY <1>5 DEF GrantPermission, RevokePermission
    <2> DEFINE j == [NoJob EXCEPT !.user = u, !.permission = p]
    <2>2. j \in Job /\ j.user = u /\ j.permission = p
      BY DEF Job, NoJob
    <2>3. JobFits(label, j)
      BY <2>2 DEF JobFits
    <2> QED  BY <1>5, <1>l, <2>1, <2>2, <2>3, GoesOn DEF GrantPermission, RevokePermission
  <1>6. CASE SSOCallback(r)
    <2>1. PICK q \in states : Continue(r, "delete_state", [NoJob EXCEPT !.state = q])
      BY <1>6 DEF SSOCallback
    <2> DEFINE j == [NoJob EXCEPT !.state = q]
    <2>2. q \in State /\ person[q] \in Subject
      BY DEF AccountsInv, OutsideReady
    <2>3. j \in Job /\ j.state = q
      BY <2>2 DEF Job, NoJob
    <2>4. JobFits("delete_state", j)
      BY <2>2, <2>3 DEF JobFits
    <2> QED  BY <1>6, <1>l, <2>1, <2>3, <2>4, GoesOn DEF SSOCallback
  <1> QED  BY <1>1, <1>2, <1>3, <1>4, <1>5, <1>6

\* A lookup leaves a job that knows what it has found.
LEMMA LookupFits ==
    ASSUME AccountsInv, NEW r \in Request,
           \/ CheckManager(r) \/ CheckEmail(r) \/ FindExecutive(r) \/ FindLeader(r)
           \/ FindBySSOID(r) \/ FindClaimed(r) \/ Abort(r)
    PROVE  AccountsInv'
  <1> DEFINE j == job[r]
  <1>j. j \in Job /\ JobFits(pc[r], j)
    BY DEF AccountsInv, JobsReady
  <1>l. {"find_email", "insert", "update", "assign_manager", "assign", "grant", "find_claim",
         "create", "link", "issue"} \subseteq Label
    BY DEF Label, Running
  <1>h. \A u \in Account : u \in User /\ users[u] \in Row /\ <<u, users[u].role>> \in held
                           /\ ManagerHeld(users[u].manager)
    BY DEF AccountsInv, TablesReady, HeldNow, RolesWereChecked, ManagerHeld, Account
  <1> HIDE DEF j
  <1>1. CASE Abort(r)
    BY <1>1, Answered DEF Abort
  <1>2. CASE CheckManager(r)
    <2>1. CASE Answer(r)
      BY <1>2, <2>1, Answered DEF CheckManager
    <2>2. CASE ~Answer(r)
      <3>1. PICK label : Continue(r, label, j)
              /\ label = CASE pc[r] = "create_manager" -> "find_email"
                           [] pc[r] = "update_manager" -> "update"
                           [] pc[r] = "assign_manager" -> "assign"
        BY <1>2, <2>2 DEF CheckManager, Pass, j
      <3>2. \/ pc[r] = "create_manager" /\ label = "find_email"
            \/ pc[r] = "update_manager" /\ label = "update"
            \/ pc[r] = "assign_manager" /\ label = "assign"
        BY <1>2, <3>1 DEF CheckManager
      <3>3. IsManager(j.body.manager, pc[r] = "create_manager")
        BY <1>2, <2>2 DEF CheckManager, j
      <3>4. <<j.body.manager, "sales_manager">> \in held
        BY <1>h, <3>3 DEF IsManager
      <3>5. JobFits(label, j)
        BY <1>j, <3>2, <3>4 DEF JobFits, ManagerHeld
      <3> QED  BY <1>2, <1>j, <1>l, <3>1, <3>2, <3>5, GoesOn DEF CheckManager
    <2> QED  BY <2>1, <2>2
  <1>3. CASE CheckEmail(r)
    <2>1. CASE Answer(r)
      BY <1>3, <2>1, Answered DEF CheckEmail
    <2>2. CASE Pass(r, "insert")
      <3>1. JobFits("insert", j)
        BY <1>3, <1>j DEF CheckEmail, JobFits
      <3> QED  BY <1>3, <1>j, <1>l, <2>2, <3>1, GoesOn DEF CheckEmail, Pass, j
    <2> QED  BY <1>3, <2>1, <2>2 DEF CheckEmail
  <1>4. CASE FindExecutive(r)
    <2>1. CASE Answer(r)
      BY <1>4, <2>1, Answered DEF FindExecutive
    <2>2. CASE ~Answer(r)
      <3>1. PICK label \in {"assign_manager", "assign"} :
              /\ Continue(r, label, j) /\ j.user \in Account
              /\ label = "assign" => j.body.manager = None
        BY <1>4, <2>2 DEF FindExecutive, Pass, j
      <3>2. JobFits(label, j)
        BY <1>4, <1>j, <3>1 DEF FindExecutive, JobFits, ManagerHeld
      <3> QED  BY <1>4, <1>j, <1>l, <3>1, <3>2, GoesOn DEF FindExecutive
    <2> QED  BY <2>1, <2>2
  <1>5. CASE FindLeader(r)
    <2>1. CASE Answer(r)
      BY <1>5, <2>1, Answered DEF FindLeader
    <2>2. CASE ~Answer(r)
      <3>1. Continue(r, "grant", j) /\ j.user \in Account /\ users[j.user].role = "leader"
        BY <1>5, <2>2 DEF FindLeader, Pass, j
      <3>2. <<j.user, "leader">> \in held
        BY <1>h, <3>1
      <3>3. JobFits("grant", j)
        BY <1>5, <1>j, <3>1, <3>2 DEF FindLeader, JobFits
      <3> QED  BY <1>5, <1>j, <1>l, <3>1, <3>3, GoesOn DEF FindLeader
    <2> QED  BY <2>1, <2>2
  <1>6. CASE FindBySSOID(r)
    <2>1. CASE Pass(r, "find_claim")
      <3>1. JobFits("find_claim", j)
        BY <1>6, <1>j DEF FindBySSOID, JobFits
      <3> QED  BY <1>6, <1>j, <1>l, <2>1, <3>1, GoesOn DEF FindBySSOID, Pass, j
    <2>2. CASE \E u \in Account : Found(r, u)
      <3>1. PICK u \in Account : Continue(r, "issue", [j EXCEPT !.user = u, !.row = users[u]])
        BY <2>2 DEF Found, j
      <3> DEFINE k == [j EXCEPT !.user = u, !.row = users[u]]
      <3>2. k \in Job /\ k.user \in User /\ k.row \in Row
        BY <1>h, <1>j DEF Job
      <3>3. Continue(r, "issue", k)
        BY <3>1
      <3> HIDE DEF k
      <3>4. JobFits("issue", k)
        BY <3>2 DEF JobFits
      <3> QED  BY <1>6, <1>l, <3>2, <3>3, <3>4, GoesOn DEF FindBySSOID
    <2> QED  BY <1>6, <2>1, <2>2 DEF FindBySSOID
  <1>7. CASE FindClaimed(r)
    <2>1. CASE Pass(r, "create")
      <3>1. JobFits("create", j)
        BY <1>7, <1>j DEF FindClaimed, JobFits
      <3> QED  BY <1>7, <1>j, <1>l, <2>1, <3>1, GoesOn DEF FindClaimed, Pass, j
    <2>2. CASE ~Pass(r, "create")
      <3>1. PICK u \in Account :
              /\ users[u].email = Claim[person[j.state]]
              /\ Continue(r, "link", [j EXCEPT !.user = u, !.row = users[u]])
        BY <1>7, <2>2 DEF FindClaimed, j
      <3> DEFINE k == [j EXCEPT !.user = u, !.row = users[u]]
      <3>2. k \in Job /\ k.user = u /\ k.row = users[u] /\ k.state = j.state
        BY <1>h, <1>j DEF Job
      <3>3. Continue(r, "link", k)
        BY <3>1
      <3> HIDE DEF k
      <3>4. j.state \in State /\ person[j.state] \in Subject
        BY <1>7, <1>j DEF FindClaimed, JobFits
      <3>5. JobFits("link", k)
        BY <1>h, <3>1, <3>2, <3>4 DEF JobFits
      <3> QED  BY <1>7, <1>l, <3>2, <3>3, <3>5, GoesOn DEF FindClaimed
    <2> QED  BY <2>1, <2>2
  <1> QED  BY <1>1, <1>2, <1>3, <1>4, <1>5, <1>6, <1>7

\* The statements that write a row: the insertions bring an address that the index
\* lets in, the updates bring one as well or keep it, and the subject of an account
\* changes only to a person with the address of the row.
LEMMA WriteFits ==
    ASSUME AccountsInv, NEW r \in Request,
           \/ InsertUser(r) \/ UpdateDetails(r) \/ Deactivate(r) \/ AssignExecutive(r)
           \/ CreateSSOUser(r) \/ LinkAccount(r)
    PROVE  AccountsInv'
  <1> USE DEF tables, sessions, external, history
  <1> DEFINE j == job[r]
  <1>j. j \in Job /\ JobFits(pc[r], j)
    BY DEF AccountsInv, JobsReady
  <1> HIDE DEF j
  <1>t. TablesReady /\ OutsideReady /\ JobsReady
    BY DEF AccountsInv
  <1>h. \A u \in Account :
          /\ u \in User /\ users[u] \in Row
          /\ ManagerHeld(users[u].manager) /\ EmailFree(users[u].email, u)
          /\ users[u].subject # None /\ u \notin moved => users[u].email = Claim[users[u].subject]
    BY DEF AccountsInv, TablesReady, AddressClaimed, EmailOnce, EmailFree, RolesWereChecked,
           ManagerHeld, Account
  <1>o. UNCHANGED <<states, sessions, external>> => OutsideReady' /\ UNCHANGED person
    BY <1>t DEF OutsideReady
  \* A row written under an answer.
  <1>w. ASSUME NEW u \in User, NEW row \in Row, WriteAccount(u, row), Answer(r),
               UNCHANGED <<sessions, external>>,
               EmailFree(row.email, u), ManagerHeld(row.manager),
               row.subject # None =>
                  \/ u \in Account /\ row.subject = users[u].subject
                  \/ row.email = Claim[row.subject]
        PROVE  AccountsInv'
    <2>1. /\ users' = [users EXCEPT ![u] = row] /\ held' = held \cup {<<u, row.role>>}
          /\ moved' = IF u \in Account /\ users[u].email # row.email THEN moved \cup {u} ELSE moved
          /\ UNCHANGED <<grants, states>>
      BY <1>w DEF WriteAccount
    <2>2. moved \subseteq moved' /\ moved' \subseteq User
      BY <1>t, <2>1 DEF TablesReady
    <2>3. row.subject # None /\ u \notin moved' => row.email = Claim[row.subject]
      BY <1>h, <1>w, <2>1
    <2>4. TablesReady' /\ held \subseteq held' /\ Account \subseteq Account'
      BY <1>t, <1>w, <2>1, <2>2, <2>3, RowWritten
    <2>5. OutsideReady' /\ UNCHANGED person
      BY <1>o, <1>w, <2>1
    <2>6. JobsReady'
      BY <1>t, <1>w, <2>4, <2>5, AnswerFits DEF Grows
    <2> QED  BY <2>4, <2>5, <2>6 DEF AccountsInv
  \* No row written.
  <1>n. ASSUME Answer(r), UNCHANGED <<tables, sessions, external, history>> PROVE AccountsInv'
    BY <1>n, Answered
  <1>1. CASE InsertUser(r)
    <2>1. j.body \in Body /\ ManagerHeld(j.body.manager)
      BY <1>1, <1>j DEF InsertUser, JobFits
    <2>2. PICK u \in User \ Account :
            /\ EmailFree(j.body.email, u)
            /\ WriteAccount(u, [email |-> j.body.email, role |-> j.body.role, active |-> TRUE,
                                manager |-> j.body.manager, subject |-> None])
      BY <1>1 DEF InsertUser, j
    <2> DEFINE row == [email |-> j.body.email, role |-> j.body.role, active |-> TRUE,
                       manager |-> j.body.manager, subject |-> None]
    <2>3. /\ row \in Row /\ row.email = j.body.email /\ row.manager = j.body.manager
          /\ row.subject = None
      BY <2>1 DEF Row, Body, Role
    <2> HIDE DEF row
    <2>4. WriteAccount(u, row)
      BY <2>2 DEF row
    <2> QED  BY <1>1, <1>w, <2>1, <2>2, <2>3, <2>4 DEF InsertUser
  <1>2. CASE UpdateDetails(r)
    <2>1. j.body \in Body /\ ManagerHeld(j.body.manager) /\ j.user \in User
      BY <1>2, <1>j DEF UpdateDetails, JobFits
    <2>2. CASE j.user \in Account
      <3> DEFINE u == j.user
                 row == [email |-> j.body.email, role |-> j.body.role, active |-> j.body.active,
                         manager |-> j.body.manager, subject |-> users[u].subject]
      <3>1. EmailFree(j.body.email, u) /\ WriteAccount(u, row) /\ Answer(r)
        BY <1>2, <2>2 DEF UpdateDetails, j
      <3>2. /\ row \in Row /\ row.email = j.body.email /\ row.manager = j.body.manager
            /\ row.subject = users[u].subject
        BY <1>h, <2>1, <2>2 DEF Row, Body, Role
      <3> HIDE DEF row
      <3> QED  BY <1>2, <1>w, <2>1, <2>2, <3>1, <3>2 DEF UpdateDetails
    <2>3. CASE j.user \notin Account
      BY <1>2, <1>n, <2>3 DEF UpdateDetails, j
    <2> QED  BY <2>2, <2>3
  <1>3. CASE Deactivate(r)
    <2>1. CASE j.user \in Account
      <3> DEFINE u == j.user
                 row == [users[u] EXCEPT !.active = FALSE]
      <3>1. WriteAccount(u, row) /\ Answer(r) /\ UNCHANGED <<sessions, external>>
        BY <1>3, <2>1 DEF Deactivate, j
      <3>2. /\ row \in Row /\ row.email = users[u].email /\ row.manager = users[u].manager
            /\ row.subject = users[u].subject
        BY <1>h, <2>1 DEF Row
      <3> HIDE DEF row
      <3> QED  BY <1>h, <1>w, <2>1, <3>1, <3>2
    <2>2. CASE j.user \notin Account
      BY <1>3, <1>n, <2>2 DEF Deactivate, j
    <2> QED  BY <2>1, <2>2
  <1>4. CASE AssignExecutive(r)
    <2> DEFINE u == j.user
               row == [users[u] EXCEPT !.manager = j.body.manager]
    <2>1. j.body \in Body /\ ManagerHeld(j.body.manager) /\ u \in Account
      BY <1>4, <1>j DEF AssignExecutive, JobFits
    <2>2. WriteAccount(u, row) /\ Answer(r) /\ UNCHANGED <<sessions, external>>
      BY <1>4 DEF AssignExecutive, j
    <2>3. /\ row \in Row /\ row.email = users[u].email /\ row.manager = j.body.manager
          /\ row.subject = users[u].subject
      BY <1>h, <2>1 DEF Row, Body
    <2> HIDE DEF row
    <2> QED  BY <1>h, <1>w, <2>1, <2>2, <2>3
  <1>5. CASE CreateSSOUser(r)
    <2> DEFINE s   == person[j.state]
               row == [email |-> Claim[s], role |-> "agent", active |-> FALSE,
                       manager |-> None, subject |-> s]
    <2>1. s \in Subject /\ Claim[s] \in Email
      BY <1>5, <1>j, AccountsAssumption DEF CreateSSOUser, JobFits
    <2>2. PICK u \in User \ Account :
            /\ EmailFree(Claim[s], u) /\ WriteAccount(u, row)
            /\ Continue(r, "issue", [j EXCEPT !.user = u, !.row = row])
      BY <1>5 DEF CreateSSOUser, j
    <2>3. /\ row \in Row /\ row.email = Claim[s] /\ row.manager = None /\ row.subject = s
      BY <2>1 DEF Row, Role
    <2> HIDE DEF row, s
    <2>4. /\ users' = [users EXCEPT ![u] = row] /\ held' = held \cup {<<u, row.role>>}
          /\ moved' = moved /\ UNCHANGED <<grants, states>>
      BY <2>2 DEF WriteAccount
    <2>5. moved \subseteq moved' /\ moved' \subseteq User /\ ManagerHeld(row.manager)
      BY <1>t, <2>3, <2>4 DEF TablesReady, ManagerHeld
    <2>6. TablesReady' /\ held \subseteq held' /\ Account \subseteq Account'
      BY <1>t, <2>2, <2>3, <2>4, <2>5, RowWritten
    <2>7. OutsideReady' /\ UNCHANGED person
      BY <1>5, <1>o, <2>4 DEF CreateSSOUser
    <2> DEFINE k == [j EXCEPT !.user = u, !.row = row]
    <2>8. k \in Job /\ k.user = u /\ k.row = row
      BY <1>j, <2>3 DEF Job
    <2>9. Continue(r, "issue", k) /\ "issue" \in Label
      BY <2>2 DEF Label, Running
    <2> HIDE DEF k
    <2>10. JobFits("issue", k)
      BY <2>3, <2>8 DEF JobFits
    <2>11. JobsReady'
      BY <1>t, <2>6, <2>7, <2>8, <2>9, <2>10, ContinueFits DEF Grows
    <2> QED  BY <2>6, <2>7, <2>11 DEF AccountsInv
  <1>6. CASE LinkAccount(r)
    <2> DEFINE u   == j.user
               s   == person[j.state]
               row == [j.row EXCEPT !.subject = s]
    <2>1. /\ u \in User /\ s \in Subject /\ j.row \in Row
          /\ j.row.email = Claim[s] /\ ManagerHeld(j.row.manager)
      BY <1>6, <1>j DEF LinkAccount, JobFits
    <2>2. /\ EmailFree(row.email, u)
          /\ users' = [users EXCEPT ![u] = row] /\ held' = held \cup {<<u, row.role>>}
          /\ Continue(r, "issue", [j EXCEPT !.row = row])
          /\ UNCHANGED <<grants, states, sessions, external, moved>>
      BY <1>6 DEF LinkAccount, j
    <2>3. /\ row \in Row /\ row.email = j.row.email /\ row.manager = j.row.manager
          /\ row.subject = s
      BY <2>1 DEF Row
    <2> HIDE DEF row, s
    <2>4. moved \subseteq moved' /\ moved' \subseteq User /\ grants' = grants
      BY <1>t, <2>2 DEF TablesReady
    <2>5. TablesReady' /\ held \subseteq held' /\ Account \subseteq Account'
      BY <1>t, <2>1, <2>2, <2>3, <2>4, RowWritten
    <2>6. OutsideReady' /\ UNCHANGED person
      BY <1>o, <2>2
    <2> DEFINE k == [j EXCEPT !.row = row]
    <2>7. k \in Job /\ k.user = u /\ k.row = row
      BY <1>j, <2>3 DEF Job
    <2>8. Continue(r, "issue", k) /\ "issue" \in Label
      BY <2>2 DEF Label, Running
    <2> HIDE DEF k
    <2>9. JobFits("issue", k)
      BY <2>1, <2>3, <2>7 DEF JobFits
    <2>10. JobsReady'
      BY <1>t, <2>5, <2>6, <2>7, <2>8, <2>9, ContinueFits DEF Grows
    <2> QED  BY <2>5, <2>6, <2>10 DEF AccountsInv
  <1> QED  BY <1>1, <1>2, <1>3, <1>4, <1>5, <1>6

\* The delegations.
LEMMA GrantFits ==
    ASSUME AccountsInv, NEW r \in Request, InsertGrant(r) \/ DeleteGrant(r)
    PROVE  AccountsInv'
  <1> USE DEF sessions, external, history
  <1>1. UNCHANGED <<users, states, sessions, external, history>> /\ Answer(r)
    BY DEF InsertGrant, DeleteGrant
  <1>2. Account' = Account
    BY <1>1 DEF Account
  <1>3. /\ grants' \subseteq Account \X Permission
        /\ \A g \in grants' : <<g[1], "leader">> \in held
    <2>1. CASE InsertGrant(r)
      <3>1. job[r].user \in Account /\ job[r].permission \in Permission
            /\ <<job[r].user, "leader">> \in held
        <4>1. JobFits("grant", job[r]) /\ job[r] \in Job
          BY <2>1 DEF InsertGrant, AccountsInv, JobsReady
        <4> QED  BY <4>1 DEF JobFits
      <3>2. grants' = grants \cup {<<job[r].user, job[r].permission>>}
        BY <2>1 DEF InsertGrant
      <3> QED  BY <3>1, <3>2 DEF AccountsInv, TablesReady, RolesWereChecked
    <2>2. CASE DeleteGrant(r)
      BY <2>2 DEF DeleteGrant, AccountsInv, TablesReady, RolesWereChecked
    <2> QED  BY <2>1, <2>2
  <1>4. TablesReady'
    BY <1>1, <1>2, <1>3 DEF AccountsInv, TablesReady, EmailOnce, AddressClaimed, HeldNow,
                            RolesWereChecked
  <1>5. OutsideReady'
    BY <1>1 DEF AccountsInv, OutsideReady
  <1>6. JobsReady'
    BY <1>1, <1>2, AnswerFits DEF AccountsInv, Grows
  <1> QED  BY <1>4, <1>5, <1>6 DEF AccountsInv

\* The callback of a provider between its lookups, and the session at its end.
LEMMA CallbackFits ==
    ASSUME AccountsInv, NEW r \in Request, DeleteState(r) \/ ExchangeCode(r) \/ IssueSession(r)
    PROVE  AccountsInv'
  <1> USE DEF tables, sessions, external, history
  <1> DEFINE j == job[r]
  <1>j. j \in Job /\ JobFits(pc[r], j)
    BY DEF AccountsInv, JobsReady
  <1>0. UNCHANGED <<users, grants, moved, held, person>>
    BY DEF DeleteState, ExchangeCode, IssueSession
  <1>1. TablesReady' /\ Account' = Account /\ Grows
    BY <1>0, TablesKept DEF AccountsInv, Grows
  <1>2. OutsideReady'
    <2>1. CASE DeleteState(r)
      BY <2>1 DEF DeleteState, AccountsInv, OutsideReady
    <2>2. CASE ExchangeCode(r)
      <3>1. j.state \in State
        BY <2>2, <1>j DEF ExchangeCode, JobFits
      <3> QED  BY <2>2, <3>1 DEF ExchangeCode, AccountsInv, OutsideReady
    <2>3. CASE IssueSession(r)
      <3>1. j.user \in User /\ j.row \in Row
        BY <2>3, <1>j DEF IssueSession, JobFits
      <3>2. [user |-> j.user, role |-> j.row.role] \in Claims
        BY <3>1 DEF Claims, Row
      <3> QED  BY <2>3, <3>2 DEF IssueSession, AccountsInv, OutsideReady
    <2> QED  BY <2>1, <2>2, <2>3
  <1>3. JobsReady'
    <2>1. CASE Answer(r)
      BY <1>1, <2>1, AnswerFits DEF AccountsInv
    <2>2. CASE pc[r] = "delete_state" /\ Pass(r, "exchange")
      <3>1. JobFits("exchange", j) /\ "exchange" \in Label
        BY <1>j, <2>2 DEF JobFits, Label, Running
      <3> QED  BY <1>1, <1>j, <2>2, <3>1, ContinueFits DEF AccountsInv, Pass
    <2>3. CASE pc[r] = "exchange" /\ Pass(r, "find_subject")
      <3>1. JobFits("find_subject", j) /\ "find_subject" \in Label
        BY <1>j, <2>3 DEF JobFits, Label, Running
      <3> QED  BY <1>1, <1>j, <2>3, <3>1, ContinueFits DEF AccountsInv, Pass
    <2> QED  BY <2>1, <2>2, <2>3 DEF DeleteState, ExchangeCode, IssueSession
  <1> QED  BY <1>1, <1>2, <1>3 DEF AccountsInv

\* A step that is of no request: a person at the provider, or a token.
LEMMA OthersFit ==
    ASSUME AccountsInv, UNCHANGED <<users, grants, moved, held, pc, job>>,
           OutsideReady', \A q \in State : person[q] # None => person'[q] = person[q]
    PROVE  AccountsInv'
  <1>1. TablesReady' /\ Account' = Account
    BY TablesKept DEF AccountsInv
  <1>2. ASSUME NEW r \in Request PROVE JobFits(pc[r], job[r])'
    <2>1. JobFits(pc[r], job[r])
      BY DEF AccountsInv, JobsReady
    <2>2. person[job[r].state] \in Subject /\ job[r].state \in State =>
             person'[job[r].state] = person[job[r].state]
      BY NoneApart
    <2> QED  BY <1>1, <2>1, <2>2 DEF JobFits, ManagerHeld
  <1>3. JobsReady'
    BY <1>2 DEF AccountsInv, JobsReady
  <1> QED  BY <1>1, <1>3 DEF AccountsInv

LEMMA AccountsStep == AccountsInv /\ [Next]_vars => AccountsInv'
  <1> SUFFICES ASSUME AccountsInv, [Next]_vars PROVE AccountsInv'
    OBVIOUS
  <1>1. ASSUME NEW u \in Account, ReadClaims(u) PROVE AccountsInv'
    <2>1. [user |-> u, role |-> users[u].role] \in Claims
      BY DEF AccountsInv, TablesReady, Account, Claims, Row
    <2>2. OutsideReady' /\ person' = person
      BY <1>1, <2>1 DEF ReadClaims, tables, external, AccountsInv, OutsideReady
    <2> QED  BY <1>1, <2>2, OthersFit DEF ReadClaims, tables, history
  <1>2. ASSUME NEW t \in Claims, SignToken(t) \/ TokenExpires(t) PROVE AccountsInv'
    <2>1. OutsideReady' /\ person' = person
      BY <1>2 DEF SignToken, TokenExpires, tables, external, AccountsInv, OutsideReady
    <2> QED  BY <1>2, <2>1, OthersFit DEF SignToken, TokenExpires, tables, history
  <1>3. ASSUME NEW q \in State, BuildRedirect(q) PROVE AccountsInv'
    <2>1. PICK s \in Subject : person' = [person EXCEPT ![q] = s]
      BY <1>3 DEF BuildRedirect
    <2>2. /\ person' \in [State -> Subject \cup {None}] /\ person'[q] = s
          /\ \A p \in State \ {q} : person'[p] = person[p]
      BY <2>1 DEF AccountsInv, OutsideReady
    <2>3. OutsideReady'
      BY <1>3, <2>2, NoneApart DEF BuildRedirect, sessions, AccountsInv, OutsideReady
    <2>4. \A p \in State : person[p] # None => person'[p] = person[p]
      BY <1>3, <2>2 DEF BuildRedirect
    <2> QED  BY <1>3, <2>3, <2>4, OthersFit DEF BuildRedirect, history
  <1>4. ASSUME NEW r \in Request,
               \/ Refuse(r) \/ CreateUser(r) \/ UpdateUser(r) \/ DeleteUser(r) \/ AssignManager(r)
               \/ GrantPermission(r) \/ RevokePermission(r) \/ SSOCallback(r)
               \/ CheckManager(r) \/ CheckEmail(r) \/ InsertUser(r) \/ UpdateDetails(r)
               \/ Deactivate(r) \/ FindExecutive(r) \/ AssignExecutive(r)
               \/ FindLeader(r) \/ InsertGrant(r) \/ DeleteGrant(r)
               \/ DeleteState(r) \/ ExchangeCode(r) \/ FindBySSOID(r)
               \/ FindClaimed(r) \/ CreateSSOUser(r) \/ LinkAccount(r) \/ IssueSession(r)
               \/ Abort(r)
        PROVE  AccountsInv'
    BY <1>4, ArrivalFits, LookupFits, WriteFits, GrantFits, CallbackFits
  <1>5. CASE Served \/ UNCHANGED vars
    <2>1. UNCHANGED vars
      BY <1>5 DEF Served
    <2>2. OutsideReady'
      BY <2>1 DEF vars, tables, sessions, external, AccountsInv, OutsideReady
    <2> QED  BY <2>1, <2>2, OthersFit DEF vars, tables, external, history
  <1> QED  BY <1>1, <1>2, <1>3, <1>4, <1>5 DEF Next

\* The tables to start with fit: their unique index holds, whoever has signed in has
\* the claimed address, and the teams belong to managers.
LEMMA AccountsInit == Init => AccountsInv
  <1> SUFFICES ASSUME Init PROVE AccountsInv
    OBVIOUS
  <1>1. /\ users \in [User -> Row \cup {None}]
        /\ \A u \in User : users[u] # None =>
              /\ users[u].subject # None => users[u].email = Claim[users[u].subject]
              /\ \A v \in User \ {u} : users[v] # None => users[v].email # users[u].email
              /\ users[u].manager # None =>
                    users[users[u].manager] # None
                    /\ users[users[u].manager].role = "sales_manager"
    BY AccountsAssumption DEF Init
  <1>2. \A u \in Account : u \in User /\ users[u] \in Row /\ users[u].role \in Role
                           /\ users[u].manager \in User \cup {None}
    BY <1>1 DEF Account, Row
  <1>3. held = {<<u, users[u].role>> : u \in Account} /\ moved = {}
        /\ grants \subseteq {u \in Account : users[u].role = "leader"} \X Permission
    BY DEF Init
  <1>4. held \subseteq User \X Role /\ HeldNow
    BY <1>2, <1>3 DEF HeldNow
  <1>5. EmailOnce /\ AddressClaimed
    BY <1>1 DEF EmailOnce, AddressClaimed, Account
  <1>6. RolesWereChecked
    <2>1. ASSUME NEW g \in grants PROVE <<g[1], "leader">> \in held
      BY <1>3
    <2>2. ASSUME NEW u \in Account, users[u].manager # None
          PROVE  <<users[u].manager, "sales_manager">> \in held
      <3>1. users[u].manager \in Account /\ users[users[u].manager].role = "sales_manager"
        BY <1>1, <1>2, <2>2 DEF Account
      <3> QED  BY <1>3, <3>1
    <2> QED  BY <2>1, <2>2 DEF RolesWereChecked
  <1>7. TablesReady
    BY <1>1, <1>3, <1>4, <1>5, <1>6 DEF TablesReady
  <1>8. OutsideReady
    BY DEF Init, OutsideReady
  <1>9. JobsReady
    BY NoJobType DEF Init, JobsReady, JobFits, Label
  <1> QED  BY <1>7, <1>8, <1>9 DEF AccountsInv

\* The conjuncts of the invariant hold in every state.
LEMMA AccountsInvariant == Spec => []AccountsInv
  BY AccountsInit, AccountsStep, PTL DEF Spec

-----------------------------------------------------------------------------
(* Theorems.                                                               *)

\* The variables keep their types, for any requests, accounts, people, bodies and
\* tables to start with.
THEOREM TypeCorrect == Spec => []TypeOK
  <1>1. AccountsInv => TypeOK
    BY DEF AccountsInv, TablesReady, OutsideReady, JobsReady, Label, TypeOK
  <1> QED  BY <1>1, AccountsInvariant, PTL

\* However callbacks and administrators overlap, a person at a provider has one
\* account among those whose address nobody has changed.
THEOREM SubjectOnceHolds == Spec => []SubjectOnce
  <1>1. AccountsInv => SubjectOnce
    <2> SUFFICES ASSUME AccountsInv, NEW u \in Account \ moved, NEW v \in Account \ moved,
                        users[u].subject = users[v].subject, users[u].subject # None
                 PROVE  u = v
      BY DEF SubjectOnce
    <2>1. users[u].email = users[v].email
      BY DEF AccountsInv, TablesReady, AddressClaimed
    <2> QED  BY <2>1 DEF AccountsInv, TablesReady, EmailOnce
  <1> QED  BY <1>1, AccountsInvariant, PTL

\* However changes of roles overlap with them, permissions are delegated to users who
\* have been leaders, and teams are given to users who have been managers.
THEOREM RolesWereCheckedHolds == Spec => []RolesWereChecked
  <1>1. AccountsInv => RolesWereChecked
    BY DEF AccountsInv, TablesReady
  <1> QED  BY <1>1, AccountsInvariant, PTL

\* In every state the users whom a bearer is offered are the active ones to whom the
\* bearer may give a lead.
THEOREM OfferedIsAssignableHolds == Spec => []OfferedIsAssignable
  <1>1. OfferedIsAssignable
    <2> SUFFICES ASSUME NEW t \in Claims
                 PROVE  Offered(t) = {u \in Account : users[u].active /\ CanAssignLead(t, u)}
      BY DEF OfferedIsAssignable
    <2> QED  BY DEF Offered, CanAssignLead, AllowedUserIDs, ManagedExecutives
  <1> QED  BY <1>1, PTL
=============================================================================
