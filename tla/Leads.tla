-------------------------------- MODULE Leads --------------------------------
(***************************************************************************)
(* Leads and their activities: services/lead_service.go over the tables    *)
(* leads and activities of repository/lead_repository.go.                  *)
(*                                                                         *)
(* A handler reads the lead, resolves the caller's data scope, checks the  *)
(* request against the row it has read, and writes by statements of their  *)
(* own: other handlers run in between.  PATCH writes the status and the    *)
(* stage whether or not the body names them, and the owner and the         *)
(* assignee together.  Some lookups of users have their errors ignored.    *)
(*                                                                         *)
(* Users, roles and teams do not change here, and the name of a user is    *)
(* the user: no two users have one name.  The unique key "company" stands  *)
(* for the e-mail address of a lead too, which has an index of its own.    *)
(***************************************************************************)
EXTENDS FiniteSets, Naturals

CONSTANTS
    Request,     \* calls of the handlers
    Lead,        \* values of lead_id_seq
    User,
    Role,        \* Role[u]: the role in the token of u
    Team,        \* Team[u]: the active executives managed by u
    Company,     \* LOWER(company)
    Unlisted,    \* an owner that is the name of no user
    None,
    Bodies,      \* what the body of a PATCH may name
    Offers,      \* what the body of a POST, or an item of a bulk request, may hold
    MaxInFlight  \* bound: handlers running at the same time

VARIABLES
    leads,       \* leads[l]: the row with that lead_id, or None
    issued,      \* the values taken from lead_id_seq
    activities,  \* activities[r]: the activity that request r has logged
    pc,          \* pc[r]: the statement request r issues next
    job,         \* job[r]: the local variables of request r
    edited,      \* history: leads written by PATCH
    raced,       \* history: leads a PATCH has written over a row it had not read
    degraded     \* history: leads written after a lookup of users failed

database == <<leads, issued, activities>>
history  == <<edited, raced, degraded>>
vars     == <<database, pc, job, history>>

-----------------------------------------------------------------------------
(* Rows.                                                                   *)

\* The statuses that have a stage of their own.
StageOf ==
    [Open |-> "Prospecting", New |-> "Qualification", Contacted |-> "Initial Discussion",
     Analysis |-> "Needs Analysis", Interested |-> "Proposal", Negotiation |-> "Negotiation",
     Won |-> "Closed Won", Lost |-> "Closed Lost"]

Status == DOMAIN StageOf \cup {"In Progress", ""}

Stage == {StageOf[s] : s \in DOMAIN StageOf} \cup {""}

Reason == {"text", "blank"}

BulkStatus == {"Open", "In Progress", "Won", "Lost"}

Row == [company : Company, status : Status, stage : Stage, reason : Reason,
        owner : User \cup {Unlisted}, assigned : User \cup {None}, creator : User \cup {None}]

\* The body of a PATCH, and the map of updates made from it: None is not there.
Patch == [company : Company \cup {None}, status : Status \cup {None},
          stage : Stage \cup {None}, reason : Reason \cup {None},
          owner : User \cup {Unlisted, None}, assigned : User \cup {None}]

\* assigned = None stands for a body without it, owner = None likewise.
Offer == [company : Company, status : Status, stage : Stage, reason : Reason,
          owner : User \cup {Unlisted, None}, assigned : User \cup {None}]

\* The valid roles.  An account that SSOCallback opens has the role agent until an
\* administrator gives it one of these, and is not among the callers here.
ASSUME LeadsAssumption ==
    /\ Role \in [User -> {"admin", "leader", "sales_manager", "sales_executive"}]
    /\ Team \in [User -> SUBSET User]
    /\ None \notin User \cup Company \cup Lead \cup Request \cup Status \cup Stage
                   \cup Reason \cup {Unlisted} \cup Row
    /\ Unlisted \notin User
    /\ Bodies \subseteq Patch
    /\ Offers \subseteq Offer
    /\ MaxInFlight \in Nat

Paired(status, stage) == status \in DOMAIN StageOf => stage = StageOf[status]

Or(new, old) == IF new = None THEN old ELSE new

\* Mutant: the columns that are not in the map become NULL.
MutMerge(row, p) ==
    [company |-> p.company, status |-> p.status, stage |-> p.stage, reason |-> p.reason,
     owner |-> p.owner, assigned |-> p.assigned, creator |-> row.creator]

\* UPDATE of the columns in the map of updates.
Merge(row, p) ==
    [company |-> Or(p.company, row.company), status |-> Or(p.status, row.status),
     stage |-> Or(p.stage, row.stage), reason |-> Or(p.reason, row.reason),
     owner |-> Or(p.owner, row.owner), assigned |-> Or(p.assigned, row.assigned),
     creator |-> row.creator]

NoPatch == [company |-> None, status |-> None, stage |-> None, reason |-> None,
            owner |-> None, assigned |-> None]

-----------------------------------------------------------------------------
(* Scopes.                                                                 *)

IsUnrestricted(u) == Role[u] \in {"admin", "leader"}

IsExecutive(u) == Role[u] = "sales_executive"

AllowedUserIDs(u) == {u} \cup (IF Role[u] = "sales_manager" THEN Team[u] ELSE {})

CanAccessLead(u, row) ==
    IsUnrestricted(u) \/ {row.assigned, row.creator} \cap AllowedUserIDs(u) # {}

CanAssignLead(u, target) == IsUnrestricted(u) \/ target \in AllowedUserIDs(u)

-----------------------------------------------------------------------------
(* Requests.                                                               *)

NoJob == [caller |-> None, lead |-> None, row |-> None, patch |-> NoPatch,
          lookups |-> TRUE, batch |-> {}, entry |-> None, completed |-> FALSE]

Job == [caller : User \cup {None},    \* who calls
        lead : Lead \cup {None},      \* the lead that is written
        row : Row \cup {None},        \* the row that was read, or the one to insert
        patch : Patch,                \* the map of updates
        lookups : BOOLEAN,            \* history: no lookup of users has failed
        batch : SUBSET Company,       \* the companies of the accepted items
        entry : Request \cup {None},  \* the activity to complete, or to reopen
        completed : BOOLEAN]          \* what it becomes

NoActivity == [lead |-> None, completed |-> FALSE]

Activity == [lead : Lead \cup {None}, completed : BOOLEAN]

Running == {"update", "delete", "insert", "items", "insert_item", "insert_listed", "log", "complete"}

Finished == {"ok", "rejected", "failed"}

TypeOK ==
    /\ leads \in [Lead -> Row \cup {None}]
    /\ issued \subseteq Lead
    /\ activities \in [Request -> Activity]
    /\ pc \in [Request -> {"idle"} \cup Running \cup Finished]
    /\ job \in [Request -> Job]
    /\ edited \subseteq Lead
    /\ raced \subseteq Lead
    /\ degraded \subseteq Lead

Init ==
    /\ leads = [l \in Lead |-> None]
    /\ issued = {}
    /\ activities = [r \in Request |-> NoActivity]
    /\ pc = [r \in Request |-> "idle"]
    /\ job = [r \in Request |-> NoJob]
    /\ edited = {}
    /\ raced = {}
    /\ degraded = {}

InFlight == {r \in Request : pc[r] \in Running}

Arrives(r) ==
    /\ pc[r] = "idle"
    /\ Cardinality(InFlight) < MaxInFlight

Continue(r, label, j) ==
    /\ pc' = [pc EXCEPT ![r] = label]
    /\ job' = [job EXCEPT ![r] = j]

Answer(r, label) == Continue(r, label, NoJob)

Live == {l \in Lead : leads[l] # None}

Taken(c) == \E l \in Live : leads[l].company = c

\* A body that is not valid, a lead that is not there or out of the caller's
\* scope, an assignment the caller may not make, a lookup that fails.
Refuse(r) ==
    /\ Arrives(r)
    /\ Answer(r, "rejected")
    /\ UNCHANGED <<database, history>>

-----------------------------------------------------------------------------
(* PATCH /leads/:id.                                                       *)

\* The status, and the stage that follows from it unless the body names one.
NewStatus(row, b) == Or(b.status, row.status)

NewStage(row, b) ==
    IF b.stage # None THEN b.stage
    ELSE IF b.status \in DOMAIN StageOf THEN StageOf[b.status] ELSE row.stage

\* Mutant: the reason for a loss is asked for only when the body sets the status.
MutLostReasonGiven(row, b) ==
    b.status = "Lost" => Or(b.reason, row.reason) = "text"

LostReasonGiven(row, b) ==
    NewStatus(row, b) = "Lost" => Or(b.reason, row.reason) = "text"

\* Mutant: the team is not asked when the assignee is named by id.
MutMayReassign(u, row, b) ==
    /\ b.owner \notin {None, row.owner} =>
          ~IsExecutive(u) /\ b.owner \in User /\ CanAssignLead(u, b.owner)
    /\ b.assigned # None => ~IsExecutive(u)

MayReassign(u, row, b) ==
    /\ b.owner \notin {None, row.owner} =>
          ~IsExecutive(u) /\ b.owner \in User /\ CanAssignLead(u, b.owner)
    /\ b.assigned # None => ~IsExecutive(u) /\ CanAssignLead(u, b.assigned)

\* Mutant: an assignee named by id is written without the owner's name.
MutOwnership(b, found) ==
    IF b.assigned # None /\ "target" \in found
    THEN [owner |-> b.owner, assigned |-> b.assigned]
    ELSE [owner |-> b.owner,
          assigned |-> IF b.owner \in User /\ "users" \in found THEN b.owner ELSE None]

\* The assignee named by id, or the user with the owner's name.  found: which of
\* FindByID and FindAllUsers do not fail; without the first the id is ignored,
\* without the second the owner is written alone.
Ownership(b, found) ==
    IF b.assigned # None /\ "target" \in found
    THEN [owner |-> b.assigned, assigned |-> b.assigned]
    ELSE [owner |-> b.owner,
          assigned |-> IF b.owner \in User /\ "users" \in found THEN b.owner ELSE None]

\* The lookups that a body needs.
Needed(b) == (IF b.assigned # None THEN {"target"} ELSE {})
                 \cup (IF b.owner # None THEN {"users"} ELSE {})

\* Mutant: the status and the stage are written only when the body names them.
MutUpdates(row, b, found) ==
    [company |-> b.company, status |-> b.status, stage |-> b.stage, reason |-> b.reason,
     owner |-> Ownership(b, found).owner, assigned |-> Ownership(b, found).assigned]

Updates(row, b, found) ==
    [company |-> b.company, status |-> NewStatus(row, b), stage |-> NewStage(row, b),
     reason |-> b.reason,
     owner |-> Ownership(b, found).owner, assigned |-> Ownership(b, found).assigned]

\* GetLeadByLeadID, the scope and the checks, up to the map of updates.
UpdateLead(r) ==
    /\ Arrives(r)
    /\ \E u \in User, l \in Live, b \in Bodies : \E found \in SUBSET Needed(b) :
         LET row == leads[l] IN
         /\ CanAccessLead(u, row)
         /\ MayReassign(u, row, b)
         /\ Paired(NewStatus(row, b), NewStage(row, b))
         /\ LostReasonGiven(row, b)
         /\ Continue(r, "update",
              [NoJob EXCEPT !.caller = u, !.lead = l, !.row = row,
                            !.lookups = (found = Needed(b)),
                            !.patch = Updates(row, b, found)])
    /\ UNCHANGED <<database, history>>

\* leadRepo.UpdateLead.  The lead is read again for the answer, which fails when
\* that does.
WriteLead(r) ==
    /\ pc[r] = "update"
    /\ LET l   == job[r].lead
           row == Merge(leads[l], job[r].patch)
       IN
       IF leads[l] = None \/ \E k \in Live \ {l} : leads[k].company = row.company
       THEN Answer(r, "rejected") /\ UNCHANGED <<leads, history>>
       ELSE /\ leads' = [leads EXCEPT ![l] = row]
            /\ edited' = edited \cup {l}
            /\ raced' = IF leads[l] = job[r].row THEN raced ELSE raced \cup {l}
            /\ degraded' = IF job[r].lookups THEN degraded ELSE degraded \cup {l}
            /\ Answer(r, "ok") \/ Answer(r, "failed")
    /\ UNCHANGED <<issued, activities>>

-----------------------------------------------------------------------------
(* DELETE /leads/:id.                                                      *)

DeleteLead(r) ==
    /\ Arrives(r)
    /\ \E u \in User, l \in Live :
         /\ Role[u] \in {"admin", "sales_manager"}
         /\ CanAccessLead(u, leads[l])
         /\ Continue(r, "delete", [NoJob EXCEPT !.caller = u, !.lead = l])
    /\ UNCHANGED <<database, history>>

\* The activities go with the lead (ON DELETE CASCADE).
RemoveLead(r) ==
    /\ pc[r] = "delete"
    /\ LET l == job[r].lead IN
       /\ leads' = [leads EXCEPT ![l] = None]
       /\ activities' = [q \in Request |-> IF activities[q].lead = l THEN NoActivity
                                                                     ELSE activities[q]]
       /\ Answer(r, IF leads[l] = None THEN "rejected" ELSE "ok")
    /\ UNCHANGED <<issued, history>>

-----------------------------------------------------------------------------
(* POST /leads.                                                            *)

\* Mutant: the unique index on LOWER(company) is left out.
MutInsertRow(r, l) ==
    /\ l \notin issued
    /\ leads' = [leads EXCEPT ![l] = job[r].row]
    /\ issued' = issued \cup {l}
    /\ degraded' = IF job[r].lookups THEN degraded ELSE degraded \cup {l}
    /\ UNCHANGED <<activities, edited, raced>>

\* leadRepo.CreateLead.
InsertRow(r, l) ==
    /\ l \notin issued
    /\ ~Taken(job[r].row.company)
    /\ leads' = [leads EXCEPT ![l] = job[r].row]
    /\ issued' = issued \cup {l}
    /\ degraded' = IF job[r].lookups THEN degraded ELSE degraded \cup {l}
    /\ UNCHANGED <<activities, edited, raced>>

\* The index refuses the row; the value of the sequence is lost.
InsertFails(r, l) ==
    /\ l \notin issued
    /\ Taken(job[r].row.company)
    /\ issued' = issued \cup {l}
    /\ UNCHANGED <<leads, activities, history>>

NewRow(o, owner, assigned, u) ==
    [company |-> o.company, status |-> o.status, stage |-> o.stage, reason |-> o.reason,
     owner |-> Or(owner, Unlisted), assigned |-> assigned, creator |-> u]

\* The owner and the assignee of a lead that u creates: an executive's are the
\* caller, others name an assignee, or an owner, or nobody.  found: FindByID of the
\* caller, or FindAllUsers, does not fail; both errors are ignored.
CreateLead(r) ==
    /\ Arrives(r)
    /\ \E u \in User, o \in Offers, found \in BOOLEAN :
         LET Insert(owner, assigned) ==
               Continue(r, "insert", [NoJob EXCEPT !.caller = u, !.lookups = found,
                                                   !.row = NewRow(o, owner, assigned, u)])
         IN
         \/ /\ IsExecutive(u)
            /\ Insert(IF found THEN u ELSE o.owner, u)
         \/ /\ ~IsExecutive(u) /\ o.assigned # None /\ found
            /\ CanAssignLead(u, o.assigned)
            /\ Insert(o.assigned, o.assigned)
         \/ /\ ~IsExecutive(u) /\ o.assigned = None /\ o.owner \in User
            /\ found => CanAssignLead(u, o.owner)
            /\ Insert(o.owner, IF found THEN o.owner ELSE None)
         \/ /\ ~IsExecutive(u) /\ o.assigned = None /\ o.owner = None
            /\ Insert(IF found THEN u ELSE None, u)
    /\ UNCHANGED <<database, history>>

InsertLead(r) ==
    /\ pc[r] = "insert"
    /\ \E l \in Lead : \/ InsertRow(r, l) /\ Answer(r, "ok")
                       \/ InsertFails(r, l) /\ Answer(r, "rejected")

-----------------------------------------------------------------------------
(* POST /leads/bulk: every item on its own, in one request.                *)

\* FindByID of the caller and FindAllUsers, for all items; their errors are ignored.
BulkCreateLeads(r) ==
    /\ Arrives(r)
    /\ \E u \in User, found \in BOOLEAN :
         Continue(r, "items", [NoJob EXCEPT !.caller = u, !.lookups = found])
    /\ UNCHANGED <<database, history>>

\* An item that passes every check; the others are reported and skipped.  The
\* errors of the lookups of duplicates are ignored.
AcceptItem(r) ==
    /\ pc[r] = "items"
    /\ \E o \in Offers, checked \in BOOLEAN :
         LET u == job[r].caller
             found == job[r].lookups
             Insert(owner) ==
               Continue(r, "insert_item",
                 [job[r] EXCEPT !.batch = @ \cup {o.company},
                    !.row = NewRow([o EXCEPT !.reason = "blank"], owner,
                                   IF IsExecutive(u) THEN u ELSE owner, u)])
         IN
         /\ o.status \in BulkStatus /\ o.stage # ""
         /\ o.company \notin job[r].batch
         /\ checked => ~Taken(o.company)
         /\ \/ IsExecutive(u) /\ Insert(IF found THEN u ELSE o.owner)
            \/ /\ ~IsExecutive(u) /\ found
               /\ o.owner \in User /\ CanAssignLead(u, o.owner)
               /\ Insert(o.owner)
    /\ UNCHANGED <<database, history>>

InsertItem(r) ==
    /\ pc[r] = "insert_item"
    /\ \/ \E l \in Lead : InsertRow(r, l) \/ InsertFails(r, l)
       \/ UNCHANGED <<database, history>>
    /\ Continue(r, "items", [job[r] EXCEPT !.row = None])

FinishItems(r) ==
    /\ pc[r] = "items"
    /\ Answer(r, "ok")
    /\ UNCHANGED <<database, history>>

-----------------------------------------------------------------------------
(* Activities.                                                             *)

CreateActivity(r) ==
    /\ Arrives(r)
    /\ \E u \in User, l \in Live :
         /\ CanAccessLead(u, leads[l])
         /\ Continue(r, "log", [NoJob EXCEPT !.caller = u, !.lead = l])
    /\ UNCHANGED <<database, history>>

\* POST /activities: the lead is found by its id or its company, and created when
\* nothing, or an error, comes back.
LogActivity(r) ==
    /\ Arrives(r)
    /\ \E u \in User :
         \/ \E l \in Live : /\ CanAccessLead(u, leads[l])
                            /\ Continue(r, "log", [NoJob EXCEPT !.caller = u, !.lead = l])
         \/ \E c \in Company :
              Continue(r, "insert_listed",
                [NoJob EXCEPT !.caller = u,
                   !.row = [company |-> c, status |-> "Open", stage |-> "Prospecting",
                            reason |-> "blank", owner |-> Unlisted, assigned |-> None,
                            creator |-> None]])
    /\ UNCHANGED <<database, history>>

\* The scope is asked after the lead is created: the lead stays if it refuses.
InsertListed(r) ==
    /\ pc[r] = "insert_listed"
    /\ \E l \in Lead :
         \/ /\ InsertRow(r, l)
            /\ IF CanAccessLead(job[r].caller, job[r].row)
               THEN Continue(r, "log", [NoJob EXCEPT !.caller = job[r].caller, !.lead = l])
               ELSE Answer(r, "rejected")
         \/ InsertFails(r, l) /\ Answer(r, "rejected")

\* lead_id references the lead.
InsertActivity(r) ==
    /\ pc[r] = "log"
    /\ IF leads[job[r].lead] = None
       THEN Answer(r, "rejected") /\ UNCHANGED activities
       ELSE Answer(r, "ok") /\ activities' = [activities EXCEPT ![r].lead = job[r].lead]
    /\ UNCHANGED <<leads, issued, history>>

\* PATCH /activities/:id/complete of a value that is not there yet.
CompleteActivity(r) ==
    /\ Arrives(r)
    /\ \E u \in User, q \in Request :
         /\ activities[q].lead # None
         /\ CanAccessLead(u, leads[activities[q].lead])
         /\ Continue(r, "complete", [NoJob EXCEPT !.caller = u, !.entry = q,
                                       !.completed = ~activities[q].completed])
    /\ UNCHANGED <<database, history>>

SetCompleted(r) ==
    /\ pc[r] = "complete"
    /\ LET q == job[r].entry IN
       activities' = IF activities[q].lead = None THEN activities
                     ELSE [activities EXCEPT ![q].completed = job[r].completed]
    /\ Answer(r, "ok")
    /\ UNCHANGED <<leads, issued, history>>

-----------------------------------------------------------------------------
\* A statement fails, or the server stops.
Abort(r) ==
    /\ pc[r] \in Running
    /\ Answer(r, "failed")
    /\ UNCHANGED <<database, history>>

\* Every request has been answered: the bounded run is over.
Served ==
    /\ \A r \in Request : pc[r] \in Finished
    /\ UNCHANGED vars

Next ==
    \/ \E r \in Request :
          \/ Refuse(r) \/ UpdateLead(r) \/ DeleteLead(r) \/ CreateLead(r)
          \/ BulkCreateLeads(r) \/ CreateActivity(r) \/ LogActivity(r) \/ CompleteActivity(r)
          \/ WriteLead(r) \/ RemoveLead(r) \/ InsertLead(r)
          \/ AcceptItem(r) \/ InsertItem(r) \/ FinishItems(r)
          \/ InsertListed(r) \/ InsertActivity(r) \/ SetCompleted(r)
          \/ Abort(r)
    \/ Served

Spec == Init /\ [][Next]_vars

-----------------------------------------------------------------------------
(* Properties.                                                             *)

\* However creations, imports and renamings overlap, a company has one lead: the
\* lookups that precede the writes are not what ensures it.
CompanyOnce ==
    \A k, l \in Live : leads[k].company = leads[l].company => k = l

\* A lead that has been edited is in the stage of its status, even if edits of the
\* one and of the other overlap: each of them writes both.
EditedStaysPaired ==
    \A l \in edited \cap Live : Paired(leads[l].status, leads[l].stage)

\* A lead that is lost after an edit has a reason, whatever it was created with, if
\* no edit has overlapped another one.
LostHasReasonSerially ==
    \A l \in (edited \ raced) \cap Live : leads[l].status = "Lost" => leads[l].reason = "text"

\* The owner is the name of the assignee, if no edit has overlapped another one and
\* no lookup of users has failed.
OwnerNamesAssignee ==
    \A l \in Live \ (raced \cup degraded) :
        leads[l].assigned # None => leads[l].owner = leads[l].assigned

\* An edit leaves the lead to whom the caller may give it, or to who had it when
\* the caller's row was read; an executive gives it to nobody.  (A row whose owner
\* is not the name of its assignee is excepted: the owner's name decides then.)
ReassignmentAllowed ==
    [][\A r \in Request, l \in Lead :
          LET u == job[r].caller
              before == job[r].row
          IN
          /\ pc[r] = "update" /\ pc'[r] # "update" /\ job[r].lead = l
          /\ before.owner \in {before.assigned, Unlisted}
          /\ leads'[l] # leads[l] /\ leads[l] # None /\ leads'[l] # None
          => \/ leads'[l].assigned \in {leads[l].assigned, before.assigned}
             \/ ~IsExecutive(u) /\ CanAssignLead(u, leads'[l].assigned)]_vars
=============================================================================
