----------------------------- MODULE LeadsProofs -----------------------------
(* Theorems about Leads: the types, that a company has one lead, that an    *)
(* edited lead is in the stage of its status and lost for a reason, that    *)
(* owner and assignee are one, and that nobody gives a lead to whom they    *)
(* may not.                                                                 *)
EXTENDS Leads, TLAPS

\* What a request between two statements knows: the row it inserts, or the lead it
\* writes and a map of updates whose status and stage belong together.
JobsReady ==
    \A r \in Request :
        /\ pc[r] \in {"insert", "insert_item", "insert_listed"} => job[r].row \in Row
        /\ pc[r] \in {"insert_listed", "items", "insert_item"} => job[r].caller \in User
        /\ pc[r] \in {"update", "delete", "log"} => job[r].lead \in Lead
        /\ pc[r] = "complete" => job[r].entry \in Request
        /\ pc[r] = "update" =>
              /\ job[r].row \in Row
              /\ job[r].patch.status \in Status
              /\ job[r].patch.stage \in Stage
              /\ Paired(job[r].patch.status, job[r].patch.stage)
              /\ job[r].patch.status = "Lost" =>
                    Or(job[r].patch.reason, job[r].row.reason) = "text"

\* A lead that is there, or has been edited, has a value of the sequence.
IssuedFirst == edited \cup Live \subseteq issued

TypeInv == TypeOK /\ JobsReady

LeadsInv ==
    /\ TypeInv /\ IssuedFirst
    /\ CompanyOnce /\ EditedStaysPaired /\ LostHasReasonSerially

-----------------------------------------------------------------------------
(* The operators.                                                          *)

\* None is not a value of any column that is never NULL.
LEMMA NoneApart ==
    /\ None \notin User /\ None \notin Company /\ None \notin Lead /\ None \notin Request
    /\ None \notin Status /\ None \notin Stage /\ None \notin Reason /\ None # Unlisted
    /\ None \notin Row
  BY LeadsAssumption

LEMMA OpenIsPaired == "Open" \in Status /\ "Prospecting" \in Stage
  BY DEF Status, Stage, StageOf

LEMMA JobType ==
    /\ NoPatch \in Patch
    /\ NoJob \in Job
    /\ NoActivity \in Activity
  BY DEF NoPatch, Patch, NoJob, Job, NoActivity, Activity

\* The map of updates made from a body is one, and sets the status and the stage.
LEMMA UpdatesType ==
    ASSUME NEW row \in Row, NEW b \in Patch, NEW found
    PROVE  /\ Updates(row, b, found) \in Patch
           /\ Updates(row, b, found).status = NewStatus(row, b)
           /\ Updates(row, b, found).stage = NewStage(row, b)
           /\ Updates(row, b, found).reason = b.reason
           /\ NewStatus(row, b) \in Status
           /\ NewStage(row, b) \in Stage
  <1>1. NewStatus(row, b) \in Status
    BY DEF NewStatus, Or, Row, Patch
  <1>2. NewStage(row, b) \in Stage
    BY DEF NewStage, Row, Patch, Stage
  <1>3. /\ Ownership(b, found).owner \in User \cup {Unlisted, None}
        /\ Ownership(b, found).assigned \in User \cup {None}
    BY DEF Ownership, Patch
  <1> QED  BY <1>1, <1>2, <1>3 DEF Updates, Patch

\* Writing the updates to a row gives a row.
LEMMA MergeType ==
    ASSUME NEW row \in Row, NEW p \in Patch
    PROVE  Merge(row, p) \in Row
  BY NoneApart DEF Merge, Or, Row, Patch

LEMMA NewRowType ==
    ASSUME NEW o \in Offer, NEW owner \in User \cup {Unlisted, None},
           NEW assigned \in User \cup {None}, NEW u \in User
    PROVE  NewRow(o, owner, assigned, u) \in Row
  BY DEF NewRow, Or, Row, Offer

-----------------------------------------------------------------------------
(* Types.                                                                  *)

\* A request that goes on with a job fit for its next statement.
LEMMA ContinueType ==
    ASSUME TypeInv, NEW r \in Request, NEW label \in Running \cup Finished, NEW j \in Job,
           Continue(r, label, j),
           label \in {"insert", "insert_item", "insert_listed"} => j.row \in Row,
           label \in {"insert_listed", "items", "insert_item"} => j.caller \in User,
           label \in {"update", "delete", "log"} => j.lead \in Lead,
           label = "complete" => j.entry \in Request,
           label = "update" =>
              /\ j.row \in Row /\ j.patch.status \in Status /\ j.patch.stage \in Stage
              /\ Paired(j.patch.status, j.patch.stage)
              /\ j.patch.status = "Lost" => Or(j.patch.reason, j.row.reason) = "text"
    PROVE  /\ pc' \in [Request -> {"idle"} \cup Running \cup Finished]
           /\ job' \in [Request -> Job]
           /\ JobsReady'
  <1>1. pc' = [pc EXCEPT ![r] = label] /\ job' = [job EXCEPT ![r] = j]
    BY DEF Continue
  <1>2. /\ pc' \in [Request -> {"idle"} \cup Running \cup Finished]
        /\ job' \in [Request -> Job]
    BY <1>1 DEF TypeInv, TypeOK
  <1>3. ASSUME NEW q \in Request, q # r PROVE pc'[q] = pc[q] /\ job'[q] = job[q]
    BY <1>1, <1>3 DEF TypeInv, TypeOK
  <1>4. pc'[r] = label /\ job'[r] = j
    BY <1>1 DEF TypeInv, TypeOK
  <1>5. JobsReady'
    BY <1>3, <1>4 DEF TypeInv, JobsReady
  <1> QED  BY <1>2, <1>5

LEMMA AnswerType ==
    ASSUME TypeInv, NEW r \in Request, NEW label \in Finished, Answer(r, label)
    PROVE  /\ pc' \in [Request -> {"idle"} \cup Running \cup Finished]
           /\ job' \in [Request -> Job]
           /\ JobsReady'
  <1>1. Continue(r, label, NoJob) /\ NoJob \in Job
    BY JobType DEF Answer
  <1> QED  BY <1>1, ContinueType DEF Finished

\* The insertion of a row keeps the types of the tables.
LEMMA InsertType ==
    ASSUME TypeInv, NEW r \in Request, NEW l \in Lead, job[r].row \in Row,
           InsertRow(r, l) \/ InsertFails(r, l)
    PROVE  /\ leads' \in [Lead -> Row \cup {None}]
           /\ issued' \subseteq Lead /\ activities' \in [Request -> Activity]
           /\ edited' \subseteq Lead /\ raced' \subseteq Lead /\ degraded' \subseteq Lead
  BY DEF TypeInv, TypeOK, InsertRow, InsertFails, history

\* Every step keeps the types, and every job fit for its next statement.
LEMMA TypeStep == TypeInv /\ [Next]_vars => TypeInv'
  <1> SUFFICES ASSUME TypeInv, [Next]_vars PROVE TypeInv'
    OBVIOUS
  <1> USE DEF database, history
  <1>f. Finished = {"ok", "rejected", "failed"} /\ {"update", "delete", "insert", "items",
          "insert_item", "insert_listed", "log", "complete"} \subseteq Running
    BY DEF Finished, Running
  <1>j. /\ NoJob \in Job /\ NoPatch \in Patch /\ NoActivity \in Activity
        /\ \A r \in Request : job[r] \in Job
    BY JobType DEF TypeInv, TypeOK
  \* A step that leaves the tables alone and goes on with a fit job.
  <1>s. ASSUME UNCHANGED <<database, history>>, JobsReady',
               pc' \in [Request -> {"idle"} \cup Running \cup Finished],
               job' \in [Request -> Job]
        PROVE  TypeInv'
    BY <1>s DEF TypeInv, TypeOK
  <1>1. ASSUME NEW r \in Request, Refuse(r) \/ Abort(r) \/ FinishItems(r) PROVE TypeInv'
    <2>1. \E label \in Finished : Answer(r, label)
      BY <1>1, <1>f DEF Refuse, Abort, FinishItems
    <2>2. UNCHANGED <<database, history>>
      BY <1>1 DEF Refuse, Abort, FinishItems
    <2> QED  BY <2>1, <2>2, <1>s, AnswerType
  <1>2. ASSUME NEW r \in Request, UpdateLead(r) PROVE TypeInv'
    <2>1. PICK u \in User, l \in Live, b \in Bodies : \E found \in SUBSET Needed(b) :
            /\ Paired(NewStatus(leads[l], b), NewStage(leads[l], b))
            /\ LostReasonGiven(leads[l], b)
            /\ Continue(r, "update",
                 [NoJob EXCEPT !.caller = u, !.lead = l, !.row = leads[l],
                               !.lookups = (found = Needed(b)),
                               !.patch = Updates(leads[l], b, found)])
      BY <1>2 DEF UpdateLead
    <2>2. PICK found \in SUBSET Needed(b) :
            Continue(r, "update",
              [NoJob EXCEPT !.caller = u, !.lead = l, !.row = leads[l],
                            !.lookups = (found = Needed(b)),
                            !.patch = Updates(leads[l], b, found)])
      BY <2>1
    <2> DEFINE j == [NoJob EXCEPT !.caller = u, !.lead = l, !.row = leads[l],
                                  !.lookups = (found = Needed(b)),
                                  !.patch = Updates(leads[l], b, found)]
    <2>3. leads[l] \in Row /\ l \in Lead /\ b \in Patch
      BY LeadsAssumption DEF Live, TypeInv, TypeOK
    <2>4. /\ Updates(leads[l], b, found) \in Patch
          /\ Updates(leads[l], b, found).status = NewStatus(leads[l], b)
          /\ Updates(leads[l], b, found).stage = NewStage(leads[l], b)
          /\ Updates(leads[l], b, found).reason = b.reason
          /\ NewStatus(leads[l], b) \in Status
          /\ NewStage(leads[l], b) \in Stage
      BY <2>3, UpdatesType
    <2>5. /\ j \in Job
          /\ j.lead = l /\ j.row = leads[l] /\ j.patch = Updates(leads[l], b, found)
      BY <2>3, <2>4, <1>j DEF Job, NoJob
    <2>6. j.patch.status = "Lost" => Or(j.patch.reason, j.row.reason) = "text"
      BY <2>1, <2>4, <2>5 DEF LostReasonGiven
    <2>7. Paired(j.patch.status, j.patch.stage)
      BY <2>1, <2>4, <2>5
    <2> HIDE DEF j
    <2>8. /\ pc' \in [Request -> {"idle"} \cup Running \cup Finished]
          /\ job' \in [Request -> Job]
          /\ JobsReady'
      <3>1. Continue(r, "update", j)
        BY <2>2 DEF j
      <3> QED  BY <3>1, <1>f, <2>3, <2>4, <2>5, <2>6, <2>7, ContinueType
    <2> QED  BY <1>2, <2>8, <1>s DEF UpdateLead
  <1>3. ASSUME NEW r \in Request, WriteLead(r) PROVE TypeInv'
    <2>1. job[r].lead \in Lead /\ job[r].patch \in Patch /\ issued' = issued
          /\ activities' = activities
      BY <1>3, <1>j DEF WriteLead, TypeInv, JobsReady, Job
    <2>2. \E label \in Finished : Answer(r, label)
      BY <1>3, <1>f DEF WriteLead
    <2>3. CASE UNCHANGED <<leads, history>>
      BY <2>1, <2>2, <2>3, <1>s, AnswerType
    <2>4. CASE /\ leads[job[r].lead] # None
               /\ leads' = [leads EXCEPT ![job[r].lead] = Merge(leads[job[r].lead], job[r].patch)]
               /\ edited' = edited \cup {job[r].lead}
               /\ raced' \subseteq raced \cup {job[r].lead}
               /\ degraded' \subseteq degraded \cup {job[r].lead}
      <3>1. Merge(leads[job[r].lead], job[r].patch) \in Row
        BY <2>1, <2>4, MergeType DEF TypeInv, TypeOK
      <3>2. leads' \in [Lead -> Row \cup {None}]
        BY <2>1, <2>4, <3>1 DEF TypeInv, TypeOK
      <3>3. edited' \subseteq Lead /\ raced' \subseteq Lead /\ degraded' \subseteq Lead
        BY <2>1, <2>4 DEF TypeInv, TypeOK
      <3>4. /\ pc' \in [Request -> {"idle"} \cup Running \cup Finished]
            /\ job' \in [Request -> Job] /\ JobsReady'
        BY <2>2, AnswerType
      <3> QED  BY <2>1, <3>2, <3>3, <3>4 DEF TypeInv, TypeOK
    <2> QED  BY <1>3, <2>3, <2>4 DEF WriteLead
  <1>4. ASSUME NEW r \in Request, RemoveLead(r) PROVE TypeInv'
    <2>1. \E label \in Finished : Answer(r, label)
      BY <1>4, <1>f DEF RemoveLead
    <2>2. leads' \in [Lead -> Row \cup {None}] /\ activities' \in [Request -> Activity]
      BY <1>4, <1>j DEF RemoveLead, TypeInv, TypeOK
    <2> QED  BY <1>4, <2>1, <2>2, AnswerType DEF RemoveLead, TypeInv, TypeOK
  <1>5. ASSUME NEW r \in Request, DeleteLead(r) \/ CreateActivity(r) PROVE TypeInv'
    <2>1. PICK u \in User, l \in Live, label \in {"delete", "log"} :
            Continue(r, label, [NoJob EXCEPT !.caller = u, !.lead = l])
      BY <1>5 DEF DeleteLead, CreateActivity
    <2>2. /\ [NoJob EXCEPT !.caller = u, !.lead = l] \in Job
          /\ [NoJob EXCEPT !.caller = u, !.lead = l].lead \in Lead
      BY <1>j DEF Job, NoJob, Live
    <2> QED  BY <1>5, <1>f, <2>1, <2>2, <1>s, ContinueType DEF DeleteLead, CreateActivity
  <1>6. ASSUME NEW r \in Request, CreateLead(r) PROVE TypeInv'
    <2>1. PICK u \in User, o \in Offers, found \in BOOLEAN,
               owner \in User \cup {Unlisted, None}, assigned \in User \cup {None} :
            Continue(r, "insert", [NoJob EXCEPT !.caller = u, !.lookups = found,
                                                !.row = NewRow(o, owner, assigned, u)])
      <3>1. PICK u \in User, o \in Offers, found \in BOOLEAN :
              \E owner, assigned :
                /\ owner \in {u, o.owner, o.assigned, None}
                /\ assigned \in {u, o.assigned, None} \cup ({o.owner} \cap User)
                /\ Continue(r, "insert", [NoJob EXCEPT !.caller = u, !.lookups = found,
                                                       !.row = NewRow(o, owner, assigned, u)])
        BY <1>6 DEF CreateLead
      <3>2. o.owner \in User \cup {Unlisted, None} /\ o.assigned \in User \cup {None}
        BY LeadsAssumption DEF Offer
      <3> QED  BY <3>1, <3>2
    <2>2. NewRow(o, owner, assigned, u) \in Row
      BY LeadsAssumption, NewRowType
    <2> DEFINE j == [NoJob EXCEPT !.caller = u, !.lookups = found,
                                  !.row = NewRow(o, owner, assigned, u)]
    <2>3. j \in Job /\ j.row \in Row
      BY <2>2, <1>j DEF Job, NoJob
    <2> QED  BY <1>6, <1>f, <2>1, <2>3, <1>s, ContinueType DEF CreateLead
  <1>7. ASSUME NEW r \in Request, InsertLead(r) PROVE TypeInv'
    <2>1. job[r].row \in Row
      BY <1>7 DEF InsertLead, TypeInv, JobsReady
    <2>2. PICK l \in Lead, label \in Finished :
            (InsertRow(r, l) \/ InsertFails(r, l)) /\ Answer(r, label)
      BY <1>7, <1>f DEF InsertLead
    <2> QED  BY <2>1, <2>2, InsertType, AnswerType DEF TypeInv, TypeOK
  <1>8. ASSUME NEW r \in Request, BulkCreateLeads(r) PROVE TypeInv'
    <2>1. PICK u \in User, found \in BOOLEAN :
            Continue(r, "items", [NoJob EXCEPT !.caller = u, !.lookups = found])
      BY <1>8 DEF BulkCreateLeads
    <2>2. /\ [NoJob EXCEPT !.caller = u, !.lookups = found] \in Job
          /\ [NoJob EXCEPT !.caller = u, !.lookups = found].caller = u
      BY <1>j DEF Job, NoJob
    <2> QED  BY <1>8, <1>f, <2>1, <2>2, <1>s, ContinueType DEF BulkCreateLeads
  <1>9. ASSUME NEW r \in Request, AcceptItem(r) PROVE TypeInv'
    <2>u. job[r].caller \in User
      BY <1>9 DEF AcceptItem, TypeInv, JobsReady
    <2>1. PICK o \in Offers, owner \in User \cup {Unlisted, None},
               assigned \in User \cup {None} :
            Continue(r, "insert_item",
              [job[r] EXCEPT !.batch = @ \cup {o.company},
                 !.row = NewRow([o EXCEPT !.reason = "blank"], owner, assigned, job[r].caller)])
      <3>1. PICK o \in Offers : \E owner, assigned :
              /\ owner \in {job[r].caller, o.owner}
              /\ assigned \in {job[r].caller} \cup ({o.owner} \cap User)
              /\ Continue(r, "insert_item",
                   [job[r] EXCEPT !.batch = @ \cup {o.company},
                      !.row = NewRow([o EXCEPT !.reason = "blank"], owner, assigned,
                                     job[r].caller)])
        BY <1>9 DEF AcceptItem
      <3>2. o.owner \in User \cup {Unlisted, None}
        BY LeadsAssumption DEF Offer
      <3> QED  BY <3>1, <3>2, <2>u
    <2>2. [o EXCEPT !.reason = "blank"] \in Offer /\ o.company \in Company
      BY LeadsAssumption DEF Offer, Reason
    <2>3. NewRow([o EXCEPT !.reason = "blank"], owner, assigned, job[r].caller) \in Row
      BY <2>u, <2>2, NewRowType
    <2> DEFINE j == [job[r] EXCEPT !.batch = @ \cup {o.company},
                       !.row = NewRow([o EXCEPT !.reason = "blank"], owner, assigned,
                                      job[r].caller)]
    <2>4. j \in Job /\ j.row \in Row /\ j.caller \in User
      BY <2>u, <2>2, <2>3, <1>j DEF Job
    <2> QED  BY <1>9, <1>f, <2>1, <2>4, <1>s, ContinueType DEF AcceptItem
  <1>10. ASSUME NEW r \in Request, InsertItem(r) PROVE TypeInv'
    <2>1. job[r].row \in Row /\ job[r].caller \in User
      BY <1>10 DEF InsertItem, TypeInv, JobsReady
    <2> DEFINE j == [job[r] EXCEPT !.row = None]
    <2>2. j \in Job /\ j.caller \in User
      BY <2>1, <1>j DEF Job
    <2>3. /\ pc' \in [Request -> {"idle"} \cup Running \cup Finished]
          /\ job' \in [Request -> Job] /\ JobsReady'
      BY <1>10, <1>f, <2>2, ContinueType DEF InsertItem
    <2>4. CASE UNCHANGED <<database, history>>
      BY <2>3, <2>4, <1>s
    <2>5. CASE \E l \in Lead : InsertRow(r, l) \/ InsertFails(r, l)
      BY <2>1, <2>3, <2>5, InsertType DEF TypeInv, TypeOK
    <2> QED  BY <1>10, <2>4, <2>5 DEF InsertItem
  <1>11. ASSUME NEW r \in Request, LogActivity(r) PROVE TypeInv'
    <2>1. ASSUME NEW u \in User, NEW l \in Live,
                 Continue(r, "log", [NoJob EXCEPT !.caller = u, !.lead = l])
          PROVE  TypeInv'
      <3>1. /\ [NoJob EXCEPT !.caller = u, !.lead = l] \in Job
            /\ [NoJob EXCEPT !.caller = u, !.lead = l].lead \in Lead
        BY <1>j DEF Job, NoJob, Live
      <3> QED  BY <1>11, <1>f, <2>1, <3>1, <1>s, ContinueType DEF LogActivity
    <2>2. ASSUME NEW u \in User, NEW c \in Company, NEW row,
                 row = [company |-> c, status |-> "Open", stage |-> "Prospecting",
                        reason |-> "blank", owner |-> Unlisted, assigned |-> None,
                        creator |-> None],
                 Continue(r, "insert_listed", [NoJob EXCEPT !.caller = u, !.row = row])
          PROVE  TypeInv'
      <3>1. row \in Row
        BY <2>2, OpenIsPaired DEF Row, Reason
      <3>2. /\ [NoJob EXCEPT !.caller = u, !.row = row] \in Job
            /\ [NoJob EXCEPT !.caller = u, !.row = row].caller = u
            /\ [NoJob EXCEPT !.caller = u, !.row = row].row = row
        BY <3>1, <1>j DEF Job, NoJob
      <3> QED  BY <1>11, <1>f, <2>2, <3>1, <3>2, <1>s, ContinueType DEF LogActivity
    <2> QED  BY <1>11, <2>1, <2>2 DEF LogActivity
  <1>12. ASSUME NEW r \in Request, InsertListed(r) PROVE TypeInv'
    <2>1. job[r].row \in Row /\ job[r].caller \in User
      BY <1>12 DEF InsertListed, TypeInv, JobsReady
    <2>2. PICK l \in Lead :
            /\ InsertRow(r, l) \/ InsertFails(r, l)
            /\ \/ Answer(r, "rejected")
               \/ Continue(r, "log", [NoJob EXCEPT !.caller = job[r].caller, !.lead = l])
      BY <1>12 DEF InsertListed
    <2> DEFINE j == [NoJob EXCEPT !.caller = job[r].caller, !.lead = l]
    <2>3. j \in Job /\ j.lead \in Lead
      BY <2>1, <1>j DEF Job, NoJob
    <2>4. /\ pc' \in [Request -> {"idle"} \cup Running \cup Finished]
          /\ job' \in [Request -> Job] /\ JobsReady'
      BY <1>f, <2>2, <2>3, AnswerType, ContinueType
    <2> QED  BY <2>1, <2>2, <2>4, InsertType DEF TypeInv, TypeOK
  <1>13. ASSUME NEW r \in Request, InsertActivity(r) \/ SetCompleted(r) PROVE TypeInv'
    <2>1. \E label \in Finished : Answer(r, label)
      BY <1>13, <1>f DEF InsertActivity, SetCompleted
    <2>2. activities' \in [Request -> Activity]
      <3>1. CASE InsertActivity(r)
        <4>1. job[r].lead \in Lead
          BY <3>1 DEF InsertActivity, TypeInv, JobsReady
        <4> QED  BY <3>1, <4>1 DEF InsertActivity, TypeInv, TypeOK, Activity
      <3>2. CASE SetCompleted(r)
        <4>1. job[r].entry \in Request /\ job[r].completed \in BOOLEAN
          BY <3>2, <1>j DEF SetCompleted, TypeInv, JobsReady, Job
        <4> QED  BY <3>2, <4>1 DEF SetCompleted, TypeInv, TypeOK, Activity
      <3> QED  BY <1>13, <3>1, <3>2
    <2> QED  BY <1>13, <2>1, <2>2, AnswerType DEF InsertActivity, SetCompleted, TypeInv, TypeOK
  <1>14. ASSUME NEW r \in Request, CompleteActivity(r) PROVE TypeInv'
    <2>1. PICK u \in User, q \in Request :
            Continue(r, "complete", [NoJob EXCEPT !.caller = u, !.entry = q,
                                       !.completed = ~activities[q].completed])
      BY <1>14 DEF CompleteActivity
    <2> DEFINE j == [NoJob EXCEPT !.caller = u, !.entry = q,
                                  !.completed = ~activities[q].completed]
    <2>2. j \in Job /\ j.entry = q
      BY <1>j DEF Job, NoJob
    <2> QED  BY <1>14, <1>f, <2>1, <2>2, <1>s, ContinueType DEF CompleteActivity
  <1>15. CASE Served \/ UNCHANGED vars
    BY <1>15 DEF Served, vars, TypeInv, TypeOK, JobsReady
  <1> QED
    BY <1>1, <1>2, <1>3, <1>4, <1>5, <1>6, <1>7, <1>8, <1>9, <1>10, <1>11, <1>12, <1>13, <1>14,
       <1>15 DEF Next

LEMMA TypeInit == Init => TypeInv
  BY JobType DEF Init, TypeInv, TypeOK, JobsReady, Running, Finished

\* The variables keep their types, for any requests, users, teams, bodies and offers.
THEOREM TypeCorrect == Spec => []TypeOK
  <1>1. TypeInv => TypeOK
    BY DEF TypeInv
  <1> QED  BY <1>1, TypeInit, TypeStep, PTL DEF Spec

-----------------------------------------------------------------------------
(* One lead per company; edited leads are paired, and lost for a reason.   *)

\* The insertion of a row, whose company is free and whose number is new.
LEMMA InsertSafe ==
    ASSUME LeadsInv, TypeInv', NEW r \in Request, NEW l \in Lead, job[r].row \in Row,
           InsertRow(r, l) \/ InsertFails(r, l)
    PROVE  LeadsInv'
  <1> USE DEF history
  <1>1. l \notin issued /\ l \notin edited /\ l \notin Live
    BY DEF InsertRow, InsertFails, LeadsInv, IssuedFirst
  <1>2. /\ issued' = issued \cup {l} /\ edited' = edited /\ raced' = raced
        /\ Live' \subseteq Live \cup {l}
        /\ \A k \in Lead \ {l} : leads'[k] = leads[k]
    BY DEF InsertRow, InsertFails, Live, TypeInv, TypeOK, LeadsInv
  <1>3. IssuedFirst'
    BY <1>2 DEF LeadsInv, IssuedFirst
  <1>4. CompanyOnce'
    <2>1. CASE InsertFails(r, l)
      BY <2>1 DEF InsertFails, LeadsInv, CompanyOnce, Live
    <2>2. CASE InsertRow(r, l)
      <3>1. leads'[l] = job[r].row /\ ~Taken(job[r].row.company)
        BY <2>2 DEF InsertRow, LeadsInv, TypeInv, TypeOK
      <3>2. \A k \in Live : k # l /\ leads'[k] = leads[k] /\ leads[k].company # leads'[l].company
        BY <1>1, <1>2, <3>1 DEF Taken, Live
      <3> QED  BY <1>2, <3>2 DEF LeadsInv, CompanyOnce
    <2> QED  BY <2>1, <2>2
  <1>5. \A k \in edited' \cap Live' : k \in edited \cap Live /\ leads'[k] = leads[k]
    BY <1>1, <1>2 DEF Live
  <1>6. EditedStaysPaired' /\ LostHasReasonSerially'
    BY <1>2, <1>5 DEF LeadsInv, EditedStaysPaired, LostHasReasonSerially
  <1> QED  BY <1>3, <1>4, <1>6 DEF LeadsInv

\* Every step preserves the invariant.  Only two statements change a row: the
\* insertion, and the update, which writes a status and a stage that belong together
\* and, if the row is still the one that was read, a reason where one is due.
LEMMA LeadsStep == LeadsInv /\ [Next]_vars => LeadsInv'
  <1> SUFFICES ASSUME LeadsInv, [Next]_vars PROVE LeadsInv'
    OBVIOUS
  <1>t. TypeInv /\ TypeInv'
    BY TypeStep DEF LeadsInv
  <1> USE DEF database, history
  <1>1. CASE UNCHANGED <<leads, issued, edited, raced>>
    BY <1>1, <1>t DEF LeadsInv, IssuedFirst, CompanyOnce, EditedStaysPaired,
                      LostHasReasonSerially, Live
  <1>2. ASSUME NEW r \in Request, WriteLead(r) PROVE LeadsInv'
    <2> DEFINE l   == job[r].lead
               p   == job[r].patch
               row == Merge(leads[l], p)
    <2>1. CASE UNCHANGED <<leads, history>>
      BY <1>2, <1>1, <2>1 DEF WriteLead
    <2>2. CASE /\ leads[l] # None
               /\ \A k \in Live \ {l} : leads[k].company # row.company
               /\ leads' = [leads EXCEPT ![l] = row]
               /\ edited' = edited \cup {l}
               /\ raced' = IF leads[l] = job[r].row THEN raced ELSE raced \cup {l}
               /\ issued' = issued
      <3>1. /\ l \in Lead /\ p \in Patch /\ leads[l] \in Row
            /\ p.status \in Status /\ p.stage \in Stage /\ Paired(p.status, p.stage)
            /\ p.status = "Lost" => Or(p.reason, job[r].row.reason) = "text"
        BY <1>2, <1>t, <2>2 DEF WriteLead, TypeInv, TypeOK, JobsReady, Job
      <3>2. row \in Row
        BY <3>1, MergeType
      <3>3. row.status = p.status /\ row.stage = p.stage /\ row.reason = Or(p.reason, leads[l].reason)
        BY <3>1, NoneApart DEF Merge, Or
      <3> HIDE DEF row, p
      <3>4. leads'[l] = row /\ (\A k \in Lead \ {l} : leads'[k] = leads[k]) /\ Live' = Live
        BY <1>t, <2>2, <3>1, <3>2, NoneApart DEF TypeInv, TypeOK, Live
      <3>5. l \in Live
        BY <2>2, <3>1 DEF Live
      <3>6. IssuedFirst'
        BY <2>2, <3>4, <3>5 DEF LeadsInv, IssuedFirst
      <3>7. CompanyOnce'
        BY <2>2, <3>4, <3>5 DEF LeadsInv, CompanyOnce, Live
      <3>8. EditedStaysPaired'
        BY <2>2, <3>1, <3>3, <3>4 DEF LeadsInv, EditedStaysPaired, Live
      <3>9. LostHasReasonSerially'
        <4>1. l \notin raced' /\ row.status = "Lost" => row.reason = "text"
          BY <2>2, <3>1, <3>3
        <4> QED  BY <2>2, <3>4, <4>1 DEF LeadsInv, LostHasReasonSerially, Live
      <3> QED  BY <1>t, <3>6, <3>7, <3>8, <3>9 DEF LeadsInv
    <2> QED  BY <1>2, <2>1, <2>2 DEF WriteLead
  <1>3. ASSUME NEW r \in Request, RemoveLead(r) PROVE LeadsInv'
    <2>1. /\ issued' = issued /\ edited' = edited /\ raced' = raced
          /\ Live' \subseteq Live /\ \A k \in Live' : leads'[k] = leads[k]
      BY <1>3, <1>t DEF RemoveLead, TypeInv, TypeOK, Live
    <2> QED  BY <1>t, <2>1 DEF LeadsInv, IssuedFirst, CompanyOnce, EditedStaysPaired,
                               LostHasReasonSerially
  <1>4. ASSUME NEW r \in Request, InsertLead(r) \/ InsertItem(r) \/ InsertListed(r)
        PROVE  LeadsInv'
    <2>1. job[r].row \in Row
      BY <1>4, <1>t DEF InsertLead, InsertItem, InsertListed, TypeInv, JobsReady
    <2>2. CASE \E l \in Lead : InsertRow(r, l) \/ InsertFails(r, l)
      BY <1>t, <2>1, <2>2, InsertSafe
    <2>3. CASE UNCHANGED <<database, history>>
      BY <2>3, <1>1
    <2> QED  BY <1>4, <2>2, <2>3 DEF InsertLead, InsertItem, InsertListed
  <1>5. ASSUME NEW r \in Request,
               \/ Refuse(r) \/ UpdateLead(r) \/ DeleteLead(r) \/ CreateLead(r)
               \/ BulkCreateLeads(r) \/ CreateActivity(r) \/ LogActivity(r) \/ CompleteActivity(r)
               \/ AcceptItem(r) \/ FinishItems(r) \/ InsertActivity(r) \/ SetCompleted(r) \/ Abort(r)
        PROVE  LeadsInv'
    BY <1>5, <1>1 DEF Refuse, UpdateLead, DeleteLead, CreateLead, BulkCreateLeads, CreateActivity,
                      LogActivity, CompleteActivity, AcceptItem, FinishItems, InsertActivity,
                      SetCompleted, Abort
  <1>6. CASE Served \/ UNCHANGED vars
    BY <1>6, <1>1 DEF Served, vars
  <1> QED  BY <1>2, <1>3, <1>4, <1>5, <1>6 DEF Next

LEMMA LeadsInit == Init => LeadsInv
  BY TypeInit DEF Init, LeadsInv, IssuedFirst, CompanyOnce, EditedStaysPaired,
                  LostHasReasonSerially, Live

\* The conjuncts of the invariant hold in every state.
LEMMA LeadsInvariant == Spec => []LeadsInv
  BY LeadsInit, LeadsStep, PTL DEF Spec

\* However handlers overlap, a company has one lead.
THEOREM CompanyOnceHolds == Spec => []CompanyOnce
  <1>1. LeadsInv => CompanyOnce
    BY DEF LeadsInv
  <1> QED  BY <1>1, LeadsInvariant, PTL

\* However edits overlap, an edited lead is in the stage of its status.
THEOREM EditedStaysPairedHolds == Spec => []EditedStaysPaired
  <1>1. LeadsInv => EditedStaysPaired
    BY DEF LeadsInv
  <1> QED  BY <1>1, LeadsInvariant, PTL

\* A lead that no two edits have overlapped on is lost only with a reason.
THEOREM LostHasReasonSeriallyHolds == Spec => []LostHasReasonSerially
  <1>1. LeadsInv => LostHasReasonSerially
    BY DEF LeadsInv
  <1> QED  BY <1>1, LeadsInvariant, PTL

-----------------------------------------------------------------------------
(* The owner and the assignee.                                             *)

\* If no lookup has failed: the row to insert has the assignee's name, if it has an
\* assignee; a map of updates names the two together, or leaves them alone.
\* Whether or not one has failed: the new assignee is one the caller may choose,
\* unless it is who the owner of the row that was read is.
OwnersReady ==
    \A r \in Request :
        /\ pc[r] \in {"insert", "insert_item", "insert_listed"} =>
              (job[r].lookups /\ job[r].row.assigned # None =>
                  job[r].row.owner = job[r].row.assigned)
        /\ pc[r] = "update" =>
              /\ job[r].lookups =>
                    \/ job[r].patch.assigned # None /\ job[r].patch.owner = job[r].patch.assigned
                    \/ /\ job[r].patch.assigned = None
                       /\ job[r].patch.owner \in {None, job[r].row.owner}
              /\ \/ job[r].patch.assigned \in {None, job[r].row.owner}
                 \/ /\ ~IsExecutive(job[r].caller)
                    /\ CanAssignLead(job[r].caller, job[r].patch.assigned)

OwnerInv == LeadsInv /\ OwnersReady /\ OwnerNamesAssignee

\* A request that goes on with a job whose owner and assignee fit.
LEMMA OwnersContinue ==
    ASSUME TypeInv, OwnersReady, NEW r \in Request, NEW label, NEW j, Continue(r, label, j),
           label \in {"insert", "insert_item", "insert_listed"} =>
              (j.lookups /\ j.row.assigned # None => j.row.owner = j.row.assigned),
           label = "update" =>
              /\ j.lookups => \/ j.patch.assigned # None /\ j.patch.owner = j.patch.assigned
                              \/ j.patch.assigned = None /\ j.patch.owner \in {None, j.row.owner}
              /\ \/ j.patch.assigned \in {None, j.row.owner}
                 \/ ~IsExecutive(j.caller) /\ CanAssignLead(j.caller, j.patch.assigned)
    PROVE  OwnersReady'
  <1>1. ASSUME NEW q \in Request, q # r PROVE pc'[q] = pc[q] /\ job'[q] = job[q]
    BY <1>1 DEF Continue, TypeInv, TypeOK
  <1>2. pc'[r] = label /\ job'[r] = j
    BY DEF Continue, TypeInv, TypeOK
  <1> QED  BY <1>1, <1>2 DEF OwnersReady

\* What a body that passes the checks makes of the owner and the assignee.
LEMMA UpdatesOwners ==
    ASSUME NEW row \in Row, NEW b \in Patch, NEW found \in SUBSET Needed(b), NEW u \in User,
           MayReassign(u, row, b)
    PROVE  LET p == Updates(row, b, found) IN
           /\ found = Needed(b) =>
                 \/ p.assigned # None /\ p.owner = p.assigned
                 \/ p.assigned = None /\ p.owner \in {None, row.owner}
           /\ \/ p.assigned \in {None, row.owner}
              \/ ~IsExecutive(u) /\ CanAssignLead(u, p.assigned)
  <1> DEFINE own == Ownership(b, found)
  <1>1. Updates(row, b, found).owner = own.owner /\ Updates(row, b, found).assigned = own.assigned
    BY DEF Updates
  <1>2. CASE b.assigned # None /\ "target" \in found
    <2>1. own.owner = b.assigned /\ own.assigned = b.assigned
      BY <1>2 DEF Ownership
    <2> QED  BY <1>1, <1>2, <2>1 DEF MayReassign
  <1>3. CASE ~(b.assigned # None /\ "target" \in found)
    <2>1. /\ own.owner = b.owner
          /\ own.assigned = IF b.owner \in User /\ "users" \in found THEN b.owner ELSE None
      BY <1>3 DEF Ownership
    <2>2. b.owner \in {None, row.owner} \/ (~IsExecutive(u) /\ b.owner \in User
                                            /\ CanAssignLead(u, b.owner))
      BY DEF MayReassign
    <2>3. found = Needed(b) /\ b.owner \in User => "users" \in found
      BY NoneApart DEF Needed
    <2> HIDE DEF own
    <2>4. found = Needed(b) =>
             \/ own.assigned # None /\ own.owner = own.assigned
             \/ own.assigned = None /\ own.owner \in {None, row.owner}
      BY <2>1, <2>2, <2>3, NoneApart
    <2>5. \/ own.assigned \in {None, row.owner}
          \/ ~IsExecutive(u) /\ CanAssignLead(u, own.assigned)
      BY <2>1, <2>2, NoneApart
    <2> QED  BY <1>1, <2>4, <2>5
  <1> QED  BY <1>2, <1>3

\* A step that does not write the update of a lead, or insert one, keeps every job
\* fit: the others that go on are the handlers that have just resolved an owner.
LEMMA OwnersStep == LeadsInv /\ OwnersReady /\ [Next]_vars => OwnersReady'
  <1> SUFFICES ASSUME LeadsInv, OwnersReady, [Next]_vars PROVE OwnersReady'
    OBVIOUS
  <1>t. TypeInv
    BY DEF LeadsInv
  <1>l. NoJob.lookups = TRUE /\ NoJob.caller = None
    BY DEF NoJob
  <1>n. ASSUME NEW r \in Request, NEW label, NEW j, Continue(r, label, j),
               label \notin {"insert", "insert_item", "insert_listed", "update"}
        PROVE  OwnersReady'
    BY <1>n, <1>t, OwnersContinue
  <1>1. ASSUME NEW r \in Request, UpdateLead(r) PROVE OwnersReady'
    <2>1. PICK u \in User, l \in Live, b \in Bodies : \E found \in SUBSET Needed(b) :
            /\ MayReassign(u, leads[l], b)
            /\ Continue(r, "update",
                 [NoJob EXCEPT !.caller = u, !.lead = l, !.row = leads[l],
                               !.lookups = (found = Needed(b)),
                               !.patch = Updates(leads[l], b, found)])
      BY <1>1 DEF UpdateLead
    <2>2. PICK found \in SUBSET Needed(b) :
            /\ MayReassign(u, leads[l], b)
            /\ Continue(r, "update",
                 [NoJob EXCEPT !.caller = u, !.lead = l, !.row = leads[l],
                               !.lookups = (found = Needed(b)),
                               !.patch = Updates(leads[l], b, found)])
      BY <2>1
    <2> DEFINE p == Updates(leads[l], b, found)
               j == [NoJob EXCEPT !.caller = u, !.lead = l, !.row = leads[l],
                                  !.lookups = (found = Needed(b)), !.patch = p]
    <2>3. leads[l] \in Row /\ b \in Patch
      BY <1>t, LeadsAssumption DEF Live, TypeInv, TypeOK
    <2>4. /\ found = Needed(b) =>
                \/ p.assigned # None /\ p.owner = p.assigned
                \/ p.assigned = None /\ p.owner \in {None, leads[l].owner}
          /\ \/ p.assigned \in {None, leads[l].owner}
             \/ ~IsExecutive(u) /\ CanAssignLead(u, p.assigned)
      BY <2>2, <2>3, UpdatesOwners
    <2> HIDE DEF p
    <2>5. j.caller = u /\ j.row = leads[l] /\ j.lookups = (found = Needed(b)) /\ j.patch = p
      BY DEF NoJob
    <2>6. Continue(r, "update", j)
      BY <2>2 DEF p
    <2> HIDE DEF j
    <2> QED  BY <1>t, <2>4, <2>5, <2>6, OwnersContinue
  <1>2. ASSUME NEW r \in Request, CreateLead(r) PROVE OwnersReady'
    <2>1. PICK u \in User, o \in Offers, found \in BOOLEAN : \E owner, assigned :
            /\ found => owner = assigned /\ owner # None
            /\ Continue(r, "insert", [NoJob EXCEPT !.caller = u, !.lookups = found,
                                                   !.row = NewRow(o, owner, assigned, u)])
      BY <1>2, NoneApart DEF CreateLead
    <2>2. PICK owner, assigned :
            /\ found => owner = assigned /\ owner # None
            /\ Continue(r, "insert", [NoJob EXCEPT !.caller = u, !.lookups = found,
                                                   !.row = NewRow(o, owner, assigned, u)])
      BY <2>1
    <2> DEFINE j == [NoJob EXCEPT !.caller = u, !.lookups = found,
                                  !.row = NewRow(o, owner, assigned, u)]
    <2>3. j.lookups = found /\ j.row.owner = Or(owner, Unlisted) /\ j.row.assigned = assigned
      BY DEF NoJob, NewRow
    <2>4. j.lookups /\ j.row.assigned # None => j.row.owner = j.row.assigned
      BY <2>2, <2>3 DEF Or
    <2>5. Continue(r, "insert", j)
      BY <2>2
    <2> HIDE DEF j
    <2> QED  BY <1>t, <2>4, <2>5, OwnersContinue
  <1>3. ASSUME NEW r \in Request, AcceptItem(r) PROVE OwnersReady'
    <2>0. job[r] \in Job /\ job[r].caller # None
      BY <1>3, <1>t, NoneApart DEF AcceptItem, TypeInv, TypeOK, JobsReady
    <2>1. PICK o \in Offers : \E owner, assigned :
            /\ job[r].lookups => owner = assigned /\ owner # None
            /\ Continue(r, "insert_item",
                 [job[r] EXCEPT !.batch = @ \cup {o.company},
                    !.row = NewRow([o EXCEPT !.reason = "blank"], owner, assigned,
                                   job[r].caller)])
      BY <1>3, <2>0, NoneApart DEF AcceptItem
    <2>2. PICK owner, assigned :
            /\ job[r].lookups => owner = assigned /\ owner # None
            /\ Continue(r, "insert_item",
                 [job[r] EXCEPT !.batch = @ \cup {o.company},
                    !.row = NewRow([o EXCEPT !.reason = "blank"], owner, assigned,
                                   job[r].caller)])
      BY <2>1
    <2> DEFINE j == [job[r] EXCEPT !.batch = @ \cup {o.company},
                       !.row = NewRow([o EXCEPT !.reason = "blank"], owner, assigned,
                                      job[r].caller)]
    <2>3. /\ j.lookups = job[r].lookups
          /\ j.row.owner = Or(owner, Unlisted) /\ j.row.assigned = assigned
      BY <2>0 DEF Job, NewRow
    <2>4. j.lookups /\ j.row.assigned # None => j.row.owner = j.row.assigned
      BY <2>2, <2>3 DEF Or
    <2>5. Continue(r, "insert_item", j)
      BY <2>2
    <2> HIDE DEF j
    <2> QED  BY <1>t, <2>4, <2>5, OwnersContinue
  <1>4. ASSUME NEW r \in Request, LogActivity(r) PROVE OwnersReady'
    <2>1. CASE \E j : Continue(r, "log", j)
      BY <2>1, <1>n
    <2>2. CASE \E u \in User, c \in Company :
            Continue(r, "insert_listed",
              [NoJob EXCEPT !.caller = u,
                 !.row = [company |-> c, status |-> "Open", stage |-> "Prospecting",
                          reason |-> "blank", owner |-> Unlisted, assigned |-> None,
                          creator |-> None]])
      <3>1. PICK u \in User, c \in Company :
              Continue(r, "insert_listed",
                [NoJob EXCEPT !.caller = u,
                   !.row = [company |-> c, status |-> "Open", stage |-> "Prospecting",
                            reason |-> "blank", owner |-> Unlisted, assigned |-> None,
                            creator |-> None]])
        BY <2>2
      <3> DEFINE j == [NoJob EXCEPT !.caller = u,
                         !.row = [company |-> c, status |-> "Open", stage |-> "Prospecting",
                                  reason |-> "blank", owner |-> Unlisted, assigned |-> None,
                                  creator |-> None]]
      <3>2. j.row.assigned = None
        BY DEF NoJob
      <3>3. Continue(r, "insert_listed", j)
        BY <3>1
      <3> HIDE DEF j
      <3> QED  BY <1>t, <3>2, <3>3, OwnersContinue
    <2> QED  BY <1>4, <2>1, <2>2 DEF LogActivity
  <1>5. ASSUME NEW r \in Request,
               \/ Refuse(r) \/ DeleteLead(r) \/ BulkCreateLeads(r) \/ CreateActivity(r)
               \/ CompleteActivity(r) \/ WriteLead(r) \/ RemoveLead(r) \/ InsertLead(r)
               \/ InsertItem(r) \/ FinishItems(r) \/ InsertListed(r) \/ InsertActivity(r)
               \/ SetCompleted(r) \/ Abort(r)
        PROVE  OwnersReady'
    <2> DEFINE Goes == \E label, j :
          Continue(r, label, j) /\ label \notin {"insert", "insert_item", "insert_listed", "update"}
    <2>1. CASE DeleteLead(r) \/ BulkCreateLeads(r) \/ CreateActivity(r) \/ CompleteActivity(r)
      <3>1. \E j : \/ Continue(r, "delete", j) \/ Continue(r, "items", j)
                   \/ Continue(r, "log", j) \/ Continue(r, "complete", j)
        BY <2>1, Zenon DEF DeleteLead, BulkCreateLeads, CreateActivity, CompleteActivity
      <3>2. Goes
        BY <3>1
      <3> QED  BY <3>2, <1>n
    <2>2. CASE \/ Refuse(r) \/ WriteLead(r) \/ RemoveLead(r) \/ InsertLead(r) \/ FinishItems(r)
               \/ InsertActivity(r) \/ SetCompleted(r) \/ Abort(r)
      <3>1. \E label \in Finished : Answer(r, label)
        BY <2>2 DEF Refuse, WriteLead, RemoveLead, InsertLead, FinishItems, InsertActivity,
                    SetCompleted, Abort, Finished
      <3>2. Goes
        BY <3>1 DEF Answer, Finished
      <3> QED  BY <3>2, <1>n
    <2>3. CASE InsertItem(r) \/ InsertListed(r)
      <3>1. \E j : \/ Continue(r, "items", j) \/ Continue(r, "log", j) \/ Continue(r, "rejected", j)
        BY <2>3, Zenon DEF InsertItem, InsertListed, Answer
      <3>2. Goes
        BY <3>1
      <3> QED  BY <3>2, <1>n
    <2> QED  BY <1>5, <2>1, <2>2, <2>3
  <1>6. CASE Served \/ UNCHANGED vars
    BY <1>6 DEF Served, vars, OwnersReady
  <1> QED  BY <1>1, <1>2, <1>3, <1>4, <1>5, <1>6 DEF Next

\* The owner is the assignee's name after every step: an insertion is of a new lead,
\* and a lead that an update leaves outside raced and degraded has been written from
\* the row that was read, by a request whose lookups did not fail.
LEMMA OwnerStep == OwnerInv /\ [Next]_vars => OwnerInv'
  <1> SUFFICES ASSUME OwnerInv, [Next]_vars PROVE OwnerInv'
    OBVIOUS
  <1>i. LeadsInv /\ LeadsInv' /\ OwnersReady /\ OwnersReady' /\ OwnerNamesAssignee
    BY LeadsStep, OwnersStep DEF OwnerInv
  <1>t. TypeInv /\ TypeInv'
    BY <1>i DEF LeadsInv
  <1> SUFFICES OwnerNamesAssignee'
    BY <1>i DEF OwnerInv
  <1> USE DEF database, history
  <1>1. CASE UNCHANGED <<leads, raced, degraded>>
    BY <1>1, <1>i DEF OwnerNamesAssignee, Live
  <1>2. ASSUME NEW r \in Request, WriteLead(r) PROVE OwnerNamesAssignee'
    <2> DEFINE l   == job[r].lead
               p   == job[r].patch
               row == Merge(leads[l], p)
    <2>1. CASE UNCHANGED <<leads, history>>
      BY <1>1, <2>1
    <2>2. CASE /\ leads[l] # None
               /\ leads' = [leads EXCEPT ![l] = row]
               /\ raced' = IF leads[l] = job[r].row THEN raced ELSE raced \cup {l}
               /\ degraded' = IF job[r].lookups THEN degraded ELSE degraded \cup {l}
      <3>1. /\ l \in Lead /\ p \in Patch /\ leads[l] \in Row
            /\ job[r].lookups => \/ p.assigned # None /\ p.owner = p.assigned
                                 \/ p.assigned = None /\ p.owner \in {None, job[r].row.owner}
        BY <1>2, <1>i, <1>t, <2>2 DEF WriteLead, TypeInv, TypeOK, JobsReady, Job, OwnersReady
      <3>2. row.owner = Or(p.owner, leads[l].owner) /\ row.assigned = Or(p.assigned, leads[l].assigned)
        BY DEF Merge
      <3> HIDE DEF row, p
      <3>3. /\ leads'[l] = row
            /\ \A k \in Lead \ {l} : leads'[k] = leads[k]
        BY <1>t, <2>2, <3>1 DEF TypeInv, TypeOK
      <3>4. l \in Live /\ Live' \subseteq Live
        BY <2>2, <3>1, <3>3 DEF Live
      <3>5. l \notin raced' \cup degraded' /\ row.assigned # None => row.owner = row.assigned
        <4> SUFFICES ASSUME l \notin raced', l \notin degraded', row.assigned # None
                     PROVE  row.owner = row.assigned
          OBVIOUS
        <4>1. leads[l] = job[r].row /\ job[r].lookups /\ l \notin raced \cup degraded
          BY <2>2
        <4>2. leads[l].assigned # None => leads[l].owner = leads[l].assigned
          BY <1>i, <3>4, <4>1 DEF OwnerNamesAssignee
        <4>3. CASE p.assigned # None /\ p.owner = p.assigned
          BY <3>2, <4>3 DEF Or
        <4>4. CASE p.assigned = None /\ p.owner \in {None, leads[l].owner}
          BY <3>2, <4>2, <4>4 DEF Or
        <4> QED  BY <3>1, <4>1, <4>3, <4>4
      <3>6. raced \subseteq raced' /\ degraded \subseteq degraded'
        BY <2>2
      <3>7. ASSUME NEW k \in Live' \ (raced' \cup degraded'), leads'[k].assigned # None
            PROVE  leads'[k].owner = leads'[k].assigned
        <4>1. CASE k = l
          BY <3>3, <3>5, <3>7, <4>1
        <4>2. CASE k # l
          <5>1. k \in Live \ (raced \cup degraded) /\ leads'[k] = leads[k]
            BY <3>3, <3>4, <3>6, <3>7, <4>2 DEF Live
          <5> QED  BY <1>i, <3>7, <5>1 DEF OwnerNamesAssignee
        <4> QED  BY <4>1, <4>2
      <3> QED  BY <3>7 DEF OwnerNamesAssignee
    <2> QED  BY <1>2, <2>1, <2>2 DEF WriteLead
  <1>3. ASSUME NEW r \in Request, RemoveLead(r) PROVE OwnerNamesAssignee'
    <2>1. /\ raced' = raced /\ degraded' = degraded
          /\ Live' \subseteq Live /\ \A k \in Live' : leads'[k] = leads[k]
      BY <1>3, <1>t DEF RemoveLead, TypeInv, TypeOK, Live
    <2> QED  BY <1>i, <2>1 DEF OwnerNamesAssignee
  <1>4. ASSUME NEW r \in Request, NEW l \in Lead, InsertRow(r, l),
               pc[r] \in {"insert", "insert_item", "insert_listed"}
        PROVE  OwnerNamesAssignee'
    <2>1. /\ leads' = [leads EXCEPT ![l] = job[r].row] /\ raced' = raced
          /\ degraded' = IF job[r].lookups THEN degraded ELSE degraded \cup {l}
      BY <1>4 DEF InsertRow
    <2>2. leads'[l] = job[r].row /\ \A k \in Lead \ {l} : leads'[k] = leads[k]
      BY <2>1, <1>t DEF TypeInv, TypeOK
    <2>3. job[r].lookups /\ job[r].row.assigned # None => job[r].row.owner = job[r].row.assigned
      BY <1>4, <1>i DEF OwnersReady
    <2>4. ASSUME NEW k \in Live' \ (raced' \cup degraded'), leads'[k].assigned # None
          PROVE  leads'[k].owner = leads'[k].assigned
      <3>1. CASE k = l
        BY <2>1, <2>2, <2>3, <2>4, <3>1
      <3>2. CASE k # l
        <4>1. k \in Live \ (raced \cup degraded) /\ leads'[k] = leads[k]
          BY <2>1, <2>2, <2>4, <3>2 DEF Live
        <4> QED  BY <1>i, <2>4, <4>1 DEF OwnerNamesAssignee
      <3> QED  BY <3>1, <3>2
    <2> QED  BY <2>4 DEF OwnerNamesAssignee
  <1>5. ASSUME NEW r \in Request, InsertLead(r) \/ InsertItem(r) \/ InsertListed(r)
        PROVE  OwnerNamesAssignee'
    <2>1. pc[r] \in {"insert", "insert_item", "insert_listed"}
      BY <1>5 DEF InsertLead, InsertItem, InsertListed
    <2>2. \/ \E l \in Lead : InsertRow(r, l)
          \/ UNCHANGED <<leads, raced, degraded>>
      BY <1>5 DEF InsertLead, InsertItem, InsertListed, InsertFails
    <2> QED  BY <1>1, <1>4, <2>1, <2>2
  <1>6. ASSUME NEW r \in Request,
               \/ Refuse(r) \/ UpdateLead(r) \/ DeleteLead(r) \/ CreateLead(r)
               \/ BulkCreateLeads(r) \/ CreateActivity(r) \/ LogActivity(r) \/ CompleteActivity(r)
               \/ AcceptItem(r) \/ FinishItems(r) \/ InsertActivity(r) \/ SetCompleted(r) \/ Abort(r)
        PROVE  OwnerNamesAssignee'
    BY <1>6, <1>1 DEF Refuse, UpdateLead, DeleteLead, CreateLead, BulkCreateLeads, CreateActivity,
                      LogActivity, CompleteActivity, AcceptItem, FinishItems, InsertActivity,
                      SetCompleted, Abort
  <1>7. CASE Served \/ UNCHANGED vars
    BY <1>7, <1>1 DEF Served, vars
  <1> QED  BY <1>2, <1>3, <1>5, <1>6, <1>7 DEF Next

LEMMA OwnerInit == Init => OwnerInv
  BY LeadsInit DEF Init, OwnerInv, OwnersReady, OwnerNamesAssignee, Live

\* Owner and assignee name the same user on every lead that no two edits have
\* overlapped on and that no handler has written after a failed lookup.
THEOREM OwnerNamesAssigneeHolds == Spec => []OwnerNamesAssignee
  <1>1. OwnerInv => OwnerNamesAssignee
    BY DEF OwnerInv
  <1> QED  BY <1>1, OwnerInit, OwnerStep, PTL DEF Spec

\* However edits overlap, one leaves the assignee as it is, as the caller read it, or
\* as somebody to whom the caller may give the lead.
THEOREM ReassignmentAllowedHolds == Spec => ReassignmentAllowed
  <1> DEFINE Kept(r, l) ==
        /\ pc[r] = "update" /\ pc'[r] # "update" /\ job[r].lead = l
        /\ job[r].row.owner \in {job[r].row.assigned, Unlisted}
        /\ leads'[l] # leads[l] /\ leads[l] # None /\ leads'[l] # None
        => \/ leads'[l].assigned \in {leads[l].assigned, job[r].row.assigned}
           \/ ~IsExecutive(job[r].caller) /\ CanAssignLead(job[r].caller, leads'[l].assigned)
  <1>1. ASSUME OwnerInv, [Next]_vars PROVE \A r \in Request, l \in Lead : Kept(r, l)
    <2> SUFFICES ASSUME NEW r \in Request, NEW l \in Lead,
                        pc[r] = "update", pc'[r] # "update", job[r].lead = l,
                        job[r].row.owner \in {job[r].row.assigned, Unlisted},
                        leads'[l] # leads[l], leads[l] # None, leads'[l] # None
                 PROVE  \/ leads'[l].assigned \in {leads[l].assigned, job[r].row.assigned}
                        \/ /\ ~IsExecutive(job[r].caller)
                           /\ CanAssignLead(job[r].caller, leads'[l].assigned)
      OBVIOUS
    <2>t. TypeInv /\ OwnersReady
      BY <1>1 DEF OwnerInv, LeadsInv
    <2>1. WriteLead(r)
      <3>1. ASSUME NEW q \in Request, NEW label, NEW j, Continue(q, label, j) PROVE q = r
        BY <3>1, <2>t DEF Continue, TypeInv, TypeOK
      <3>2. PICK q \in Request :
              \/ Refuse(q) \/ UpdateLead(q) \/ DeleteLead(q) \/ CreateLead(q)
              \/ BulkCreateLeads(q) \/ CreateActivity(q) \/ LogActivity(q) \/ CompleteActivity(q)
              \/ WriteLead(q) \/ RemoveLead(q) \/ InsertLead(q)
              \/ AcceptItem(q) \/ InsertItem(q) \/ FinishItems(q)
              \/ InsertListed(q) \/ InsertActivity(q) \/ SetCompleted(q)
              \/ Abort(q)
        BY <1>1 DEF Next, Served, vars, database
      <3>3. q = r
        <4>1. \E label, j : Continue(q, label, j)
          BY <3>2 DEF Refuse, UpdateLead, DeleteLead, CreateLead, BulkCreateLeads, CreateActivity,
                      LogActivity, CompleteActivity, WriteLead, RemoveLead, InsertLead, AcceptItem,
                      InsertItem, FinishItems, InsertListed, InsertActivity, SetCompleted, Abort,
                      Answer
        <4> QED  BY <3>1, <4>1
      <3>4. ~Abort(r)
        BY DEF Abort, database
      <3> QED  BY <3>2, <3>3, <3>4
                  DEF Refuse, Arrives, UpdateLead, DeleteLead, CreateLead, BulkCreateLeads,
                      CreateActivity, LogActivity, CompleteActivity, RemoveLead, InsertLead,
                      AcceptItem, InsertItem, FinishItems, InsertListed, InsertActivity, SetCompleted
    <2>2. leads' = [leads EXCEPT ![l] = Merge(leads[l], job[r].patch)]
      BY <2>1 DEF WriteLead
    <2>3. leads'[l].assigned = Or(job[r].patch.assigned, leads[l].assigned)
      BY <2>2, <2>t DEF TypeInv, TypeOK, Merge
    <2>4. \/ job[r].patch.assigned \in {None, job[r].row.owner}
          \/ ~IsExecutive(job[r].caller) /\ CanAssignLead(job[r].caller, job[r].patch.assigned)
      BY <2>t DEF OwnersReady
    <2>5. job[r].patch.assigned # Unlisted
      BY <2>t, LeadsAssumption DEF TypeInv, TypeOK, Job, Patch
    <2> QED  BY <2>3, <2>4, <2>5 DEF Or
  <1>2. OwnerInv /\ [Next]_vars => [\A r \in Request, l \in Lead : Kept(r, l)]_vars
    BY <1>1
  <1> QED  BY <1>2, OwnerInit, OwnerStep, PTL DEF Spec, ReassignmentAllowed
=============================================================================
