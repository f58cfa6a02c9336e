----------------------------- MODULE Commercials -----------------------------
(***************************************************************************)
(* The commercial estimation of one lead: UpdateCommercial of              *)
(* services/commercial_service.go, UpdateAggregate of                      *)
(* repository/commercial_repository.go, and the deal value they copy to    *)
(* leads.value.                                                            *)
(*                                                                         *)
(* A request reads the estimation, works out the new header row from what  *)
(* it read, and writes header and child tables in one transaction (READ    *)
(* COMMITTED): the writes of a transaction are seen by others when it      *)
(* commits, a deletion sees what is committed when it runs, and a second   *)
(* writer of the header row waits for the first.  After the commit the     *)
(* aggregate is read again, priced, and the price stored in the lead by a  *)
(* transaction of its own.                                                 *)
(*                                                                         *)
(* Contents are versions: a field or a table holds what a request put      *)
(* there and is named after it.  PATCH /leads, which can also set          *)
(* leads.value, is not part of this module.                                *)
(***************************************************************************)
EXTENDS FiniteSets, Naturals

CONSTANTS
    Request,     \* UpdateCommercial requests for the lead
    Child,       \* the child tables
    Default,     \* the contents of the in-memory draft of a lead without estimation
    None,
    Bodies,      \* what a body may name: sets of fields and child tables
    MaxInFlight  \* bound: handlers running at the same time

ASSUME CommercialsAssumption ==
    /\ Child \subseteq {"resources", "expenses", "sdlc"}
    /\ Default \notin Request /\ None \notin Request /\ Default # None
    /\ Bodies \subseteq SUBSET ({"terms", "status", "manual"} \cup Child)
    /\ MaxInFlight \in Nat

VARIABLES
    live,      \* the lead exists
    header,    \* the committed row of commercial_estimations, or None
    rows,      \* rows[c]: the requests whose list of rows is in child table c
    dealValue, \* leads.value: the price it was computed as, or None
    lock,      \* the transaction that has written the header row, or None
    pc,        \* pc[r]: the statement request r issues next
    given,     \* given[r]: the fields and child tables in the body of r
    draft,     \* draft[r]: the header row r writes
    dropped,   \* dropped[r]: the child rows deleted by the transaction of r
    seen,      \* history: seen[r] is the writer of the header r works from
    price,     \* price[r]: the effective selling price r worked out
    writer,    \* history: the request that committed last
    syncer     \* history: the request that stored leads.value

database == <<live, header, rows, dealValue>>
locals   == <<given, draft, dropped, price, seen>>
history  == <<writer, syncer>>
vars     == <<database, lock, pc, locals, history>>

-----------------------------------------------------------------------------
\* "terms" stands for the columns that keep their value when the body does not
\* name them: currency, billing type, start date, markup and discount.  "manual"
\* is manual_selling_price, which becomes NULL then.  (The duration is the other
\* column of that kind: it becomes 1.  A manual price of 0 counts as none.)
Field == {"terms", "status", "manual"}

Version == Request \cup {Default}

Header == [terms : Version, status : Version, manual : Request \cup {None}]

NewDraft == [terms |-> Default, status |-> Default, manual |-> None]

NoRows == [c \in Child |-> {}]

\* A price is told by what it depends on: the manual price, or the markup and
\* discount with the resources and expenses.  SDLC allocations have no price.
EffectivePrice(h, R) ==
    IF h.manual # None
    THEN [manual |-> h.manual, terms |-> None, rows |-> NoRows]
    ELSE [manual |-> None, terms |-> h.terms,
          rows |-> [c \in Child |-> IF c = "sdlc" THEN {} ELSE R[c]]]

Price == [manual : Request \cup {None}, terms : Version \cup {None},
          rows : [Child -> SUBSET Request]]

Running == {"select", "insert", "update", "replace", "commit", "reload", "sync"}

Finished == {"ok", "rejected", "failed"}

TypeOK ==
    /\ live \in BOOLEAN
    /\ header \in Header \cup {None}
    /\ rows \in [Child -> SUBSET Request]
    /\ dealValue \in Price \cup {None}
    /\ lock \in Request \cup {None}
    /\ pc \in [Request -> {"idle"} \cup Running \cup Finished]
    /\ given \in [Request -> SUBSET (Field \cup Child)]
    /\ draft \in [Request -> Header]
    /\ dropped \in [Request -> [Child -> SUBSET Request]]
    /\ price \in [Request -> Price \cup {None}]
    /\ writer \in Request \cup {None}
    /\ seen \in [Request -> Request \cup {None}]
    /\ syncer \in Request \cup {None}

Init ==
    /\ live = TRUE
    /\ header = None
    /\ rows = NoRows
    /\ dealValue = None
    /\ lock = None
    /\ pc = [r \in Request |-> "idle"]
    /\ given = [r \in Request |-> {}]
    /\ draft = [r \in Request |-> NewDraft]
    /\ dropped = [r \in Request |-> NoRows]
    /\ price = [r \in Request |-> None]
    /\ writer = None
    /\ seen = [r \in Request |-> None]
    /\ syncer = None

-----------------------------------------------------------------------------
InFlight == {r \in Request : pc[r] \in Running}

Arrives(r) ==
    /\ pc[r] = "idle"
    /\ Cardinality(InFlight) < MaxInFlight

GoTo(r, label) == pc' = [pc EXCEPT ![r] = label]

\* The locals of r are not used any more.
Release(r, label) ==
    /\ GoTo(r, label)
    /\ given' = [given EXCEPT ![r] = {}]
    /\ draft' = [draft EXCEPT ![r] = NewDraft]
    /\ dropped' = [dropped EXCEPT ![r] = NoRows]
    /\ price' = [price EXCEPT ![r] = None]
    /\ seen' = [seen EXCEPT ![r] = None]

\* The lead is not found or out of the caller's scope, the body is not valid, or
\* one of the lookups fails.
Refuse(r) ==
    /\ Arrives(r)
    /\ GoTo(r, "rejected")
    /\ UNCHANGED <<database, lock, locals, history>>

\* Mutant: what the body does not name becomes the zero value.
MutUpdateCommercial(r) ==
    /\ Arrives(r)
    /\ live
    /\ \E body \in Bodies :
         LET Sent(f) == IF f \in body THEN r ELSE None IN
         /\ given' = [given EXCEPT ![r] = body]
         /\ draft' = [draft EXCEPT ![r] = [terms |-> Sent("terms"), status |-> Sent("status"),
                                           manual |-> Sent("manual")]]
    /\ seen' = [seen EXCEPT ![r] = writer]
    /\ GoTo(r, "select")
    /\ UNCHANGED <<database, lock, dropped, price, history>>

\* getLeadAndCheckAccess and GetByLeadID, outside the transaction; the header is
\* worked out from the estimation found, or from the in-memory draft.
UpdateCommercial(r) ==
    /\ Arrives(r)
    /\ live
    /\ \E body \in Bodies :
         LET existing == IF header = None THEN NewDraft ELSE header
             Keep(f)  == IF f \in body THEN r ELSE existing[f]
         IN
         /\ given' = [given EXCEPT ![r] = body]
         /\ draft' = [draft EXCEPT ![r] =
                        [terms |-> Keep("terms"), status |-> Keep("status"),
                         manual |-> IF "manual" \in body THEN r ELSE None]]
    /\ seen' = [seen EXCEPT ![r] = writer]
    /\ GoTo(r, "select")
    /\ UNCHANGED <<database, lock, dropped, price, history>>

-----------------------------------------------------------------------------
(* UpdateAggregate.                                                        *)

SelectHeader(r) ==
    /\ pc[r] = "select"
    /\ GoTo(r, IF header = None THEN "insert" ELSE "update")
    /\ UNCHANGED <<database, lock, locals, history>>

\* lead_id is unique and references the lead: the INSERT waits for another one
\* that has not committed, and fails when there is a row or no lead any more.
InsertHeader(r) ==
    /\ pc[r] = "insert"
    /\ IF header # None \/ ~live
       THEN Release(r, "failed") /\ UNCHANGED lock
       ELSE lock = None /\ lock' = r /\ GoTo(r, "replace") /\ UNCHANGED locals
    /\ UNCHANGED <<database, history>>

\* Mutant: the header row is written without holding it till the commit.
MutUpdateHeader(r) ==
    /\ pc[r] = "update"
    /\ IF header = None THEN Release(r, "failed") ELSE GoTo(r, "replace") /\ UNCHANGED locals
    /\ UNCHANGED <<database, lock, history>>

\* The UPDATE waits for the transaction that wrote the row.  Without a row it
\* changes nothing, the child rows have no parent, and the request fails.
UpdateHeader(r) ==
    /\ pc[r] = "update"
    /\ lock = None
    /\ IF header = None
       THEN Release(r, "failed") /\ UNCHANGED lock
       ELSE lock' = r /\ GoTo(r, "replace") /\ UNCHANGED locals
    /\ UNCHANGED <<database, history>>

\* DELETE of the rows of every table the body names; the INSERT that follows each
\* of them shows at the commit.
ReplaceChildren(r) ==
    /\ pc[r] = "replace"
    /\ dropped' = [dropped EXCEPT ![r] =
                     [c \in Child |-> IF c \in given[r] THEN rows[c] ELSE {}]]
    /\ GoTo(r, "commit")
    /\ UNCHANGED <<database, lock, given, draft, price, seen, history>>

Commit(r) ==
    /\ pc[r] = "commit"
    /\ header' = draft[r]
    /\ rows' = [c \in Child |-> (rows[c] \ dropped[r][c])
                                    \cup (IF c \in given[r] THEN {r} ELSE {})]
    /\ lock' = None
    /\ writer' = r
    /\ Release(r, "reload") \/ Release(r, "failed")
    /\ UNCHANGED <<live, dealValue, syncer>>

\* Mutant: the manual price is left out of the price that is stored.
MutReload(r) ==
    /\ pc[r] = "reload"
    /\ IF header = None
       THEN Release(r, "failed")
       ELSE /\ price' = [price EXCEPT ![r] = EffectivePrice([header EXCEPT !.manual = None], rows)]
            /\ GoTo(r, "sync")
            /\ UNCHANGED <<given, draft, dropped, seen>>
    /\ UNCHANGED <<database, lock, history>>

\* GetByLeadID, a single query, and CalculateFinancialSummary.
Reload(r) ==
    /\ pc[r] = "reload"
    /\ IF header = None
       THEN Release(r, "failed")
       ELSE /\ price' = [price EXCEPT ![r] = EffectivePrice(header, rows)]
            /\ GoTo(r, "sync")
            /\ UNCHANGED <<given, draft, dropped, seen>>
    /\ UNCHANGED <<database, lock, history>>

\* leadRepo.UpdateLead: its error is ignored, a missing lead is one.
SyncValue(r) ==
    /\ pc[r] = "sync"
    /\ \/ live /\ dealValue' = price[r] /\ syncer' = r
       \/ UNCHANGED <<dealValue, syncer>>
    /\ Release(r, "ok")
    /\ UNCHANGED <<live, header, rows, lock, writer>>

-----------------------------------------------------------------------------
\* Mutant: a failed transaction is not rolled back.
MutAbort(r) ==
    /\ pc[r] \in Running \ {"sync"}
    /\ Release(r, "failed")
    /\ UNCHANGED <<database, lock, history>>

\* A statement fails or the client goes away: gorm rolls the transaction back.
Abort(r) ==
    /\ pc[r] \in Running \ {"sync"}
    /\ Release(r, "failed")
    /\ lock' = IF lock = r THEN None ELSE lock
    /\ UNCHANGED <<database, history>>

\* DELETE of the lead: the estimation goes with it (ON DELETE CASCADE), once no
\* transaction holds it.
DeleteLead ==
    /\ live
    /\ lock = None
    /\ live' = FALSE
    /\ header' = None
    /\ rows' = NoRows
    /\ dealValue' = None
    /\ UNCHANGED <<lock, pc, locals, history>>

Step(r) ==
    \/ SelectHeader(r) \/ InsertHeader(r) \/ UpdateHeader(r) \/ ReplaceChildren(r)
    \/ Commit(r) \/ Reload(r) \/ SyncValue(r)

\* Every request has been answered: the bounded run is over.
Served ==
    /\ \A r \in Request : pc[r] \in Finished
    /\ UNCHANGED vars

Next ==
    \/ \E r \in Request : Refuse(r) \/ UpdateCommercial(r) \/ Step(r) \/ Abort(r)
    \/ DeleteLead
    \/ Served

Spec == Init /\ [][Next]_vars

\* The Go runtime schedules a handler that has started, and the database grants a
\* lock that is free.  Requests, failures and deletions are never owed.
FairSpec == Spec /\ \A r \in Request : WF_vars(Step(r))

-----------------------------------------------------------------------------
(* Safety.                                                                 *)

\* A child table never mixes the rows of two requests: whoever deletes the rows
\* holds the header row, so nobody else commits rows in between.
OneAuthor == \A c \in Child : \A q, r \in rows[c] : q = r

\* A stored deal value that comes from the request that committed last is the
\* price of the estimation as it stands, child tables it did not name included.
SyncedValueIsCurrent ==
    live /\ writer # None /\ syncer = writer => dealValue = EffectivePrice(header, rows)

\* An update keeps what its body does not name: the child tables whatever else
\* commits meanwhile, the terms and the status if it worked from the header it
\* replaces.
OmittedKept ==
    [][\A r \in Request : pc[r] = "commit" /\ writer' = r =>
          /\ \A c \in Child \ given[r] : rows'[c] = rows[c]
          /\ header # None /\ seen[r] = writer =>
                \A f \in {"terms", "status"} \ given[r] : header'[f] = header[f]]_vars

\* "Set lead Deal Value from the evaluated commercial selling price": once every
\* request is answered and one of them changed the estimation, leads.value is its
\* price.
DealValueFollows ==
    live /\ writer # None /\ (\A r \in Request : pc[r] \in {"idle", "ok", "rejected"})
        => dealValue = EffectivePrice(header, rows)

-----------------------------------------------------------------------------
(* Liveness.                                                               *)

\* Every update that starts answers: a transaction waits for another one only
\* until that one has committed or rolled back.
UpdatesAnswer ==
    \A r \in Request : pc[r] \in Running ~> pc[r] \in Finished
=============================================================================
