-------------------------- MODULE CommercialsProofs --------------------------
(* Theorems about Commercials: the types, and that a child table always     *)
(* holds the rows of one request.                                           *)
EXTENDS Commercials, TLAPS

\* A request between its header write and its commit holds the header row.
HoldsRow == \A r \in Request : pc[r] \in {"replace", "commit"} => lock = r

\* What a transaction has deleted is all that is committed in its tables.
DropsAll ==
    \A r \in Request : pc[r] = "commit" =>
        \A c \in Child : dropped[r][c] = IF c \in given[r] THEN rows[c] ELSE {}

CommercialsInv == TypeOK /\ HoldsRow /\ DropsAll /\ OneAuthor

-----------------------------------------------------------------------------
\* The price of a header row and its child rows is a price.
LEMMA PriceType ==
    ASSUME NEW h \in Header, NEW R \in [Child -> SUBSET Request]
    PROVE  EffectivePrice(h, R) \in Price
  <1>1. [c \in Child |-> IF c = "sdlc" THEN {} ELSE R[c]] \in [Child -> SUBSET Request]
    OBVIOUS
  <1>2. NoRows \in [Child -> SUBSET Request]
    BY DEF NoRows
  <1>3. h.manual \in Request \cup {None} /\ h.terms \in Version
    BY DEF Header
  <1> QED  BY <1>1, <1>2, <1>3 DEF EffectivePrice, Price

\* Releasing the locals of a request keeps their types.
LEMMA ReleaseType ==
    ASSUME TypeOK, NEW r \in Request, NEW label \in Running \cup Finished, Release(r, label)
    PROVE  /\ pc' \in [Request -> {"idle"} \cup Running \cup Finished]
           /\ given' \in [Request -> SUBSET (Field \cup Child)]
           /\ draft' \in [Request -> Header]
           /\ dropped' \in [Request -> [Child -> SUBSET Request]]
           /\ price' \in [Request -> Price \cup {None}]
           /\ seen' \in [Request -> Request \cup {None}]
  <1>1. NoRows \in [Child -> SUBSET Request] /\ NewDraft \in Header
    BY DEF NoRows, NewDraft, Header, Version
  <1> QED  BY <1>1 DEF TypeOK, Release, GoTo

\* Every step keeps the types.
LEMMA TypeStep == TypeOK /\ [Next]_vars => TypeOK'
  <1> SUFFICES ASSUME TypeOK, [Next]_vars PROVE TypeOK'
    OBVIOUS
  <1> USE DEF TypeOK, database, locals, history, vars, Running, Finished
  <1>i. NoRows \in [Child -> SUBSET Request] /\ NewDraft \in Header
    BY DEF NoRows, NewDraft, Header, Version
  <1>1. ASSUME NEW r \in Request, Refuse(r) PROVE TypeOK'
    BY <1>1 DEF Refuse, Arrives, GoTo
  <1>2. ASSUME NEW r \in Request, UpdateCommercial(r) PROVE TypeOK'
    <2>1. PICK body \in Bodies :
            LET existing == IF header = None THEN NewDraft ELSE header
                Keep(f)  == IF f \in body THEN r ELSE existing[f]
            IN
            /\ given' = [given EXCEPT ![r] = body]
            /\ draft' = [draft EXCEPT ![r] =
                           [terms |-> Keep("terms"), status |-> Keep("status"),
                            manual |-> IF "manual" \in body THEN r ELSE None]]
      BY <1>2 DEF UpdateCommercial
    <2>2. body \subseteq Field \cup Child
      BY CommercialsAssumption DEF Field
    <2>3. draft' \in [Request -> Header]
      <3>1. (IF header = None THEN NewDraft ELSE header) \in Header
        BY <1>i
      <3> QED  BY <2>1, <3>1 DEF Header, Version
    <2>4. given' \in [Request -> SUBSET (Field \cup Child)]
      BY <2>1, <2>2
    <2> QED  BY <1>2, <2>3, <2>4 DEF UpdateCommercial, GoTo
  <1>3. ASSUME NEW r \in Request, SelectHeader(r) PROVE TypeOK'
    BY <1>3 DEF SelectHeader, GoTo
  <1>4. ASSUME NEW r \in Request, InsertHeader(r) PROVE TypeOK'
    BY <1>4, <1>i DEF InsertHeader, Release, GoTo
  <1>5. ASSUME NEW r \in Request, UpdateHeader(r) PROVE TypeOK'
    BY <1>5, <1>i DEF UpdateHeader, Release, GoTo
  <1>6. ASSUME NEW r \in Request, ReplaceChildren(r) PROVE TypeOK'
    BY <1>6 DEF ReplaceChildren, GoTo
  <1>7. ASSUME NEW r \in Request, Commit(r) PROVE TypeOK'
    <2>1. header' \in Header /\ rows' \in [Child -> SUBSET Request]
      BY <1>7 DEF Commit
    <2>2. given' \in [Request -> SUBSET (Field \cup Child)] /\ draft' \in [Request -> Header]
          /\ dropped' \in [Request -> [Child -> SUBSET Request]]
          /\ price' \in [Request -> Price \cup {None}]
          /\ seen' \in [Request -> Request \cup {None}]
          /\ pc' \in [Request -> {"idle"} \cup Running \cup Finished]
      <3>1. PICK label \in {"reload", "failed"} : Release(r, label)
        BY <1>7 DEF Commit
      <3> QED  BY <3>1, ReleaseType
    <2> QED  BY <1>7, <2>1, <2>2 DEF Commit
  <1>8. ASSUME NEW r \in Request, Reload(r) PROVE TypeOK'
    <2>1. header # None => EffectivePrice(header, rows) \in Price
      BY PriceType
    <2>2. CASE header = None
      <3>1. Release(r, "failed")
        BY <1>8, <2>2 DEF Reload
      <3> QED  BY <1>8, <3>1, ReleaseType DEF Reload
    <2>3. CASE header # None
      BY <1>8, <2>1, <2>3 DEF Reload, GoTo
    <2> QED  BY <2>2, <2>3
  <1>9. ASSUME NEW r \in Request, SyncValue(r) PROVE TypeOK'
    BY <1>9, <1>i DEF SyncValue, Release, GoTo
  <1>10. ASSUME NEW r \in Request, Abort(r) PROVE TypeOK'
    BY <1>10, <1>i DEF Abort, Release, GoTo
  <1>11. CASE DeleteLead
    BY <1>11, <1>i DEF DeleteLead
  <1>12. CASE Served
    BY <1>12 DEF Served
  <1>13. CASE UNCHANGED vars
    BY <1>13
  <1> QED  BY <1>1, <1>2, <1>3, <1>4, <1>5, <1>6, <1>7, <1>8, <1>9, <1>10, <1>11, <1>12, <1>13
           DEF Next, Step

\* The initial state has every type.
LEMMA TypeInit == Init => TypeOK
  BY DEF Init, TypeOK, NewDraft, NoRows, Header, Version, Finished, Running

\* The variables keep their types, for any requests, child tables and bodies.
THEOREM TypeCorrect == Spec => []TypeOK
  BY TypeInit, TypeStep, PTL DEF Spec

-----------------------------------------------------------------------------
(* One author.                                                             *)

\* A step of a request that touches neither the child tables nor the lock, and
\* does not move the request to "replace" or "commit", preserves the invariant.
LEMMA Harmless ==
    ASSUME CommercialsInv, TypeOK', NEW r \in Request,
           NEW label \in {"select", "insert", "update", "reload", "sync"} \cup Finished,
           pc' = [pc EXCEPT ![r] = label], UNCHANGED <<rows, lock>>,
           \A q \in Request \ {r} : given'[q] = given[q] /\ dropped'[q] = dropped[q]
    PROVE  CommercialsInv'
  BY DEF CommercialsInv, TypeOK, HoldsRow, DropsAll, OneAuthor, Running, Finished

\* Every step preserves the invariant: whoever commits rows holds the header row,
\* and has deleted the rows of its tables that were committed since it took it.
LEMMA AuthorStep == CommercialsInv /\ [Next]_vars => CommercialsInv'
  <1> SUFFICES ASSUME CommercialsInv, [Next]_vars PROVE CommercialsInv'
    OBVIOUS
  <1>t. TypeOK /\ TypeOK'
    BY TypeStep DEF CommercialsInv
  <1> USE DEF database, locals, history, vars, Finished
  <1>1. ASSUME NEW r \in Request, Refuse(r) PROVE CommercialsInv'
    BY <1>1, <1>t, Harmless DEF Refuse, GoTo
  <1>2. ASSUME NEW r \in Request, UpdateCommercial(r) PROVE CommercialsInv'
    BY <1>2, <1>t, Harmless DEF UpdateCommercial, GoTo, TypeOK
  <1>3. ASSUME NEW r \in Request, SelectHeader(r) PROVE CommercialsInv'
    BY <1>3, <1>t, Harmless DEF SelectHeader, GoTo
  <1>4. ASSUME NEW r \in Request, InsertHeader(r) \/ UpdateHeader(r) PROVE CommercialsInv'
    <2>1. CASE Release(r, "failed") /\ UNCHANGED <<rows, lock>>
      BY <2>1, <1>t, Harmless DEF Release, GoTo, TypeOK
    <2>2. CASE lock = None /\ lock' = r /\ GoTo(r, "replace") /\ UNCHANGED <<rows, given, dropped>>
      <3>1. \A q \in Request : pc[q] \notin {"replace", "commit"}
        BY <2>2, CommercialsAssumption DEF CommercialsInv, HoldsRow
      <3> QED  BY <2>2, <3>1, <1>t DEF CommercialsInv, HoldsRow, DropsAll, OneAuthor, GoTo, TypeOK
    <2> QED  BY <1>4, <2>1, <2>2 DEF InsertHeader, UpdateHeader
  <1>5. ASSUME NEW r \in Request, ReplaceChildren(r) PROVE CommercialsInv'
    <2>1. HoldsRow' /\ OneAuthor'
      BY <1>5 DEF CommercialsInv, ReplaceChildren, HoldsRow, OneAuthor, GoTo, TypeOK
    <2>2. DropsAll'
      BY <1>5 DEF CommercialsInv, ReplaceChildren, DropsAll, GoTo, TypeOK
    <2> QED  BY <1>t, <2>1, <2>2 DEF CommercialsInv
  <1>6. ASSUME NEW r \in Request, Commit(r) PROVE CommercialsInv'
    <2>1. lock = r
      BY <1>6 DEF Commit, CommercialsInv, HoldsRow
    <2>2. \A q \in Request : pc'[q] \notin {"replace", "commit"}
      BY <1>6, <2>1 DEF Commit, Release, GoTo, CommercialsInv, HoldsRow, TypeOK
    <2>3. \A c \in Child : rows'[c] = IF c \in given[r] THEN {r} ELSE rows[c]
      BY <1>6 DEF Commit, CommercialsInv, DropsAll
    <2>4. OneAuthor'
      BY <2>3 DEF CommercialsInv, OneAuthor
    <2> QED  BY <1>t, <2>2, <2>4 DEF CommercialsInv, HoldsRow, DropsAll
  <1>7. ASSUME NEW r \in Request, Reload(r) \/ SyncValue(r) PROVE CommercialsInv'
    <2>1. PICK label \in {"sync", "ok", "failed"} : GoTo(r, label)
      BY <1>7 DEF Reload, SyncValue, Release
    <2>2. \A q \in Request \ {r} : given'[q] = given[q] /\ dropped'[q] = dropped[q]
      BY <1>7 DEF Reload, SyncValue, Release, TypeOK, CommercialsInv
    <2> QED  BY <1>7, <1>t, <2>1, <2>2, Harmless DEF Reload, SyncValue, GoTo
  <1>8. ASSUME NEW r \in Request, Abort(r) PROVE CommercialsInv'
    <2>1. \A q \in Request \ {r} : /\ pc'[q] = pc[q] /\ given'[q] = given[q]
                                   /\ dropped'[q] = dropped[q]
      BY <1>8 DEF Abort, Release, GoTo, TypeOK, CommercialsInv
    <2>2. pc'[r] = "failed" /\ UNCHANGED rows
      BY <1>8 DEF Abort, Release, GoTo, TypeOK, CommercialsInv
    <2>3. HoldsRow'
      BY <1>8, <2>1, <2>2 DEF Abort, CommercialsInv, HoldsRow
    <2>4. DropsAll' /\ OneAuthor'
      BY <2>1, <2>2 DEF CommercialsInv, DropsAll, OneAuthor
    <2> QED  BY <1>t, <2>3, <2>4 DEF CommercialsInv
  <1>9. CASE DeleteLead
    <2>1. \A q \in Request : pc'[q] \notin {"replace", "commit"}
      BY <1>9, CommercialsAssumption DEF DeleteLead, CommercialsInv, HoldsRow
    <2>2. OneAuthor'
      BY <1>9 DEF DeleteLead, OneAuthor, NoRows
    <2> QED  BY <1>t, <2>1, <2>2 DEF CommercialsInv, HoldsRow, DropsAll
  <1>10. CASE Served \/ UNCHANGED vars
    BY <1>10, <1>t DEF Served, CommercialsInv, HoldsRow, DropsAll, OneAuthor
  <1> QED  BY <1>1, <1>2, <1>3, <1>4, <1>5, <1>6, <1>7, <1>8, <1>9, <1>10 DEF Next, Step

\* UpdateAggregate replaces the rows of a child table as a whole: whatever the
\* requests do at the same time, the rows of a table come from one of them.
THEOREM OneAuthorHolds == Spec => []OneAuthor
  <1>1. Init => CommercialsInv
    BY TypeInit DEF Init, CommercialsInv, HoldsRow, DropsAll, OneAuthor, NoRows
  <1>2. CommercialsInv => OneAuthor
    BY DEF CommercialsInv
  <1> QED  BY <1>1, <1>2, AuthorStep, PTL DEF Spec

-----------------------------------------------------------------------------
(* The deal value, and what an update keeps.                               *)

\* A request commits once, so whoever is on record as the writer, of the header or
\* of the one that another request works from, is past its commit; and whoever
\* stored the deal value is finished.
PastCommit == {"reload", "sync", "ok", "failed"}

Writers ==
    /\ writer # None => pc[writer] \in PastCommit
    /\ \A r \in Request : seen[r] # None => pc[seen[r]] \in PastCommit
    /\ syncer # None => pc[syncer] = "ok"

\* The last writer is about to store the price of the estimation as it stands.
PriceCurrent ==
    live /\ writer # None /\ pc[writer] = "sync" => price[writer] = EffectivePrice(header, rows)

BeforeCommit == {"select", "insert", "update", "replace", "commit"}

\* The draft of a request differs from the header it was made from only where the
\* body says so, as long as that header is the one in the table.
DraftFollows ==
    \A r \in Request : pc[r] \in BeforeCommit /\ header # None /\ seen[r] = writer =>
        /\ "terms" \notin given[r] => draft[r].terms = header.terms
        /\ "status" \notin given[r] => draft[r].status = header.status

UpdateInv ==
    CommercialsInv /\ Writers /\ PriceCurrent /\ DraftFollows /\ SyncedValueIsCurrent

\* A step of one request leaves the locals of the others alone.
LEMMA OthersKept ==
    ASSUME TypeOK, NEW r \in Request,
           Refuse(r) \/ UpdateCommercial(r) \/ Step(r) \/ Abort(r),
           NEW q \in Request, q # r
    PROVE  /\ pc'[q] = pc[q] /\ given'[q] = given[q] /\ draft'[q] = draft[q]
           /\ price'[q] = price[q] /\ seen'[q] = seen[q]
  <1> USE DEF TypeOK, locals, GoTo, Release
  <1>1. CASE Refuse(r)
    BY <1>1 DEF Refuse
  <1>2. CASE UpdateCommercial(r)
    BY <1>2 DEF UpdateCommercial
  <1>3. CASE SelectHeader(r)
    BY <1>3 DEF SelectHeader
  <1>4. CASE InsertHeader(r)
    BY <1>4 DEF InsertHeader
  <1>5. CASE UpdateHeader(r)
    BY <1>5 DEF UpdateHeader
  <1>6. CASE ReplaceChildren(r)
    BY <1>6 DEF ReplaceChildren
  <1>7. CASE Commit(r)
    BY <1>7 DEF Commit
  <1>8. CASE Reload(r)
    BY <1>8 DEF Reload
  <1>9. CASE SyncValue(r)
    BY <1>9 DEF SyncValue
  <1>10. CASE Abort(r)
    BY <1>10 DEF Abort
  <1> QED  BY <1>1, <1>2, <1>3, <1>4, <1>5, <1>6, <1>7, <1>8, <1>9, <1>10 DEF Step

\* A request that is past its commit stays so, and one that has answered is done.
LEMMA PastStays ==
    ASSUME TypeOK, [Next]_vars, NEW q \in Request
    PROVE  /\ pc[q] \in PastCommit => pc'[q] \in PastCommit
           /\ pc[q] = "ok" => pc'[q] = "ok"
  <1>1. ASSUME NEW r \in Request, Refuse(r) \/ UpdateCommercial(r) \/ Step(r) \/ Abort(r)
        PROVE  /\ pc[q] \in PastCommit => pc'[q] \in PastCommit
               /\ pc[q] = "ok" => pc'[q] = "ok"
    <2>1. CASE q # r
      BY <1>1, <2>1, OthersKept
    <2>2. CASE q = r
      BY <1>1, <2>2 DEF TypeOK, PastCommit, Running, Refuse, Arrives, UpdateCommercial, Step,
         SelectHeader, InsertHeader, UpdateHeader, ReplaceChildren, Commit, Reload, SyncValue,
         Abort, Release, GoTo
    <2> QED  BY <2>1, <2>2
  <1>2. CASE DeleteLead \/ Served \/ UNCHANGED vars
    BY <1>2 DEF DeleteLead, Served, vars
  <1> QED  BY <1>1, <1>2 DEF Next

\* What Writers says stays true: a commit puts its request past it, and an update
\* starts from the writer on record.
LEMMA WritersStep == UpdateInv /\ [Next]_vars => Writers'
  <1> SUFFICES ASSUME UpdateInv, [Next]_vars PROVE Writers'
    OBVIOUS
  <1>t. TypeOK /\ TypeOK' /\ Writers
    BY TypeStep DEF UpdateInv, CommercialsInv
  <1>1. ASSUME UNCHANGED <<writer, syncer>>,
               \A q \in Request : seen'[q] \in {seen[q], None, writer}
        PROVE  Writers'
    <2>1. writer # None => pc'[writer] \in PastCommit
      BY <1>t, PastStays DEF Writers, TypeOK
    <2>2. syncer # None => pc'[syncer] = "ok"
      BY <1>t, PastStays DEF Writers, TypeOK
    <2>3. ASSUME NEW q \in Request, seen'[q] # None PROVE pc'[seen'[q]] \in PastCommit
      <3>1. CASE seen'[q] = writer
        BY <2>1, <2>3, <3>1
      <3>2. CASE seen'[q] = seen[q]
        BY <1>t, <2>3, <3>2, PastStays DEF Writers, TypeOK
      <3> QED  BY <1>1, <2>3, <3>1, <3>2
    <2> QED  BY <1>1, <2>1, <2>2, <2>3 DEF Writers
  <1>2. ASSUME NEW r \in Request, Commit(r) PROVE Writers'
    <2>1. /\ writer' = r /\ syncer' = syncer /\ pc'[r] \in PastCommit
          /\ \A q \in Request : seen'[q] \in {seen[q], None}
      BY <1>2, <1>t DEF Commit, Release, GoTo, PastCommit, TypeOK
    <2>2. syncer # None => pc'[syncer] = "ok"
      BY <1>t, PastStays DEF Writers, TypeOK
    <2>3. ASSUME NEW q \in Request, seen'[q] # None PROVE pc'[seen'[q]] \in PastCommit
      BY <1>t, <2>1, <2>3, PastStays DEF Writers, TypeOK
    <2> QED  BY <2>1, <2>2, <2>3 DEF Writers
  <1>3. ASSUME NEW r \in Request, SyncValue(r) PROVE Writers'
    <2>1. /\ writer' = writer /\ syncer' \in {syncer, r} /\ pc'[r] = "ok"
          /\ \A q \in Request : seen'[q] \in {seen[q], None}
      BY <1>3, <1>t DEF SyncValue, Release, GoTo, TypeOK
    <2>2. writer # None => pc'[writer] \in PastCommit
      BY <1>t, PastStays DEF Writers, TypeOK
    <2>3. syncer' # None => pc'[syncer'] = "ok"
      BY <1>t, <2>1, PastStays DEF Writers, TypeOK
    <2>4. ASSUME NEW q \in Request, seen'[q] # None PROVE pc'[seen'[q]] \in PastCommit
      BY <1>t, <2>1, <2>4, PastStays DEF Writers, TypeOK
    <2> QED  BY <2>1, <2>2, <2>3, <2>4 DEF Writers
  <1>4. ASSUME NEW r \in Request,
               \/ Refuse(r) \/ UpdateCommercial(r) \/ SelectHeader(r) \/ InsertHeader(r)
               \/ UpdateHeader(r) \/ ReplaceChildren(r) \/ Reload(r) \/ Abort(r)
        PROVE  Writers'
    <2>1. UNCHANGED <<writer, syncer>>
      BY <1>4 DEF Refuse, UpdateCommercial, SelectHeader, InsertHeader, UpdateHeader,
                  ReplaceChildren, Reload, Abort, history
    <2>2. \A q \in Request : seen'[q] \in {seen[q], None, writer}
      BY <1>4, <1>t DEF Refuse, UpdateCommercial, SelectHeader, InsertHeader, UpdateHeader,
                        ReplaceChildren, Reload, Abort, Release, locals, TypeOK
    <2> QED  BY <1>1, <2>1, <2>2
  <1>5. CASE DeleteLead \/ Served \/ UNCHANGED vars
    BY <1>1, <1>5 DEF DeleteLead, Served, vars, locals, history
  <1> QED  BY <1>2, <1>3, <1>4, <1>5 DEF Next, Step

\* The estimation changes only at a commit, which makes its request the writer, and
\* when the lead goes; and the writer on record has not just stored the value then.
LEMMA PriceStep == UpdateInv /\ [Next]_vars => PriceCurrent' /\ SyncedValueIsCurrent'
  <1> SUFFICES ASSUME UpdateInv, [Next]_vars PROVE PriceCurrent' /\ SyncedValueIsCurrent'
    OBVIOUS
  <1>t. TypeOK /\ TypeOK' /\ Writers /\ PriceCurrent /\ SyncedValueIsCurrent
    BY TypeStep DEF UpdateInv, CommercialsInv
  <1>1. ASSUME UNCHANGED <<live, header, rows, dealValue, writer, syncer>>,
               writer # None /\ pc'[writer] = "sync" =>
                   \/ pc[writer] = "sync" /\ price'[writer] = price[writer]
                   \/ price'[writer] = EffectivePrice(header, rows)
        PROVE  PriceCurrent' /\ SyncedValueIsCurrent'
    BY <1>1, <1>t DEF PriceCurrent, SyncedValueIsCurrent
  <1>2. ASSUME NEW r \in Request, Commit(r) PROVE PriceCurrent' /\ SyncedValueIsCurrent'
    <2>1. writer' = r /\ syncer' = syncer /\ pc'[r] # "sync" /\ pc[r] = "commit"
      BY <1>2, <1>t DEF Commit, Release, GoTo, TypeOK
    <2>2. syncer # r
      BY <1>t, <2>1, CommercialsAssumption DEF Writers
    <2> QED  BY <2>1, <2>2 DEF PriceCurrent, SyncedValueIsCurrent
  <1>3. ASSUME NEW r \in Request, SyncValue(r) PROVE PriceCurrent' /\ SyncedValueIsCurrent'
    <2>1. /\ UNCHANGED <<live, header, rows, writer>> /\ pc[r] = "sync" /\ pc'[r] = "ok"
          /\ \/ live /\ dealValue' = price[r] /\ syncer' = r
             \/ UNCHANGED <<dealValue, syncer>>
      BY <1>3, <1>t DEF SyncValue, Release, GoTo, TypeOK
    <2>2. PriceCurrent'
      BY <1>3, <1>t, <2>1, OthersKept DEF PriceCurrent, TypeOK, Step
    <2>3. SyncedValueIsCurrent'
      BY <1>t, <2>1 DEF PriceCurrent, SyncedValueIsCurrent
    <2> QED  BY <2>2, <2>3
  <1>4. ASSUME NEW r \in Request, Reload(r) PROVE PriceCurrent' /\ SyncedValueIsCurrent'
    <2>1. UNCHANGED <<live, header, rows, dealValue, writer, syncer>>
      BY <1>4 DEF Reload, database, history
    <2>2. pc'[r] = "sync" => price'[r] = EffectivePrice(header, rows)
      BY <1>4, <1>t DEF Reload, Release, GoTo, TypeOK
    <2>3. \A q \in Request \ {r} : pc'[q] = pc[q] /\ price'[q] = price[q]
      BY <1>4, <1>t, OthersKept DEF Step
    <2> QED  BY <1>1, <1>t, <2>1, <2>2, <2>3 DEF TypeOK
  <1>5. ASSUME NEW r \in Request,
               \/ Refuse(r) \/ UpdateCommercial(r) \/ SelectHeader(r) \/ InsertHeader(r)
               \/ UpdateHeader(r) \/ ReplaceChildren(r) \/ Abort(r)
        PROVE  PriceCurrent' /\ SyncedValueIsCurrent'
    <2>1. UNCHANGED <<live, header, rows, dealValue, writer, syncer>>
      BY <1>5 DEF Refuse, UpdateCommercial, SelectHeader, InsertHeader, UpdateHeader,
                  ReplaceChildren, Abort, database, history
    <2>2. pc'[r] # "sync"
      BY <1>5, <1>t DEF Refuse, UpdateCommercial, SelectHeader, InsertHeader, UpdateHeader,
                        ReplaceChildren, Abort, Release, GoTo, TypeOK
    <2>3. \A q \in Request \ {r} : pc'[q] = pc[q] /\ price'[q] = price[q]
      BY <1>5, <1>t, OthersKept DEF Step
    <2> QED  BY <1>1, <1>t, <2>1, <2>2, <2>3 DEF TypeOK
  <1>6. CASE DeleteLead
    BY <1>6 DEF DeleteLead, PriceCurrent, SyncedValueIsCurrent
  <1>7. CASE Served \/ UNCHANGED vars
    BY <1>1, <1>7 DEF Served, vars, database, locals, history
  <1> QED  BY <1>2, <1>3, <1>4, <1>5, <1>6, <1>7 DEF Next, Step

\* A header that is not the one a request read has another writer on record.
LEMMA DraftStep == UpdateInv /\ [Next]_vars => DraftFollows'
  <1> SUFFICES ASSUME UpdateInv, [Next]_vars, NEW s \in Request, pc'[s] \in BeforeCommit,
                      header' # None, seen'[s] = writer'
               PROVE  /\ "terms" \notin given'[s] => draft'[s].terms = header'.terms
                      /\ "status" \notin given'[s] => draft'[s].status = header'.status
    BY DEF DraftFollows
  <1>t. TypeOK /\ TypeOK' /\ Writers /\ DraftFollows
    BY TypeStep DEF UpdateInv, CommercialsInv
  <1>1. ASSUME UNCHANGED <<header, writer>>, pc[s] \in BeforeCommit, seen'[s] = seen[s],
               given'[s] = given[s], draft'[s] = draft[s]
        PROVE  /\ "terms" \notin given'[s] => draft'[s].terms = header'.terms
               /\ "status" \notin given'[s] => draft'[s].status = header'.status
    BY <1>1, <1>t DEF DraftFollows
  <1>2. ASSUME UpdateCommercial(s)
        PROVE  /\ "terms" \notin given'[s] => draft'[s].terms = header'.terms
               /\ "status" \notin given'[s] => draft'[s].status = header'.status
    <2>1. header' = header
      BY <1>2 DEF UpdateCommercial, database
    <2>2. PICK body \in Bodies :
            /\ given' = [given EXCEPT ![s] = body]
            /\ draft' = [draft EXCEPT ![s] =
                 [terms  |-> IF "terms" \in body THEN s ELSE header.terms,
                  status |-> IF "status" \in body THEN s ELSE header.status,
                  manual |-> IF "manual" \in body THEN s ELSE None]]
      BY <1>2, <2>1 DEF UpdateCommercial
    <2> QED  BY <1>t, <2>1, <2>2 DEF TypeOK
  <1>3. ASSUME NEW r \in Request, Commit(r) PROVE FALSE
    <2>1. writer' = r /\ pc'[r] \in PastCommit /\ pc[r] = "commit"
      BY <1>3, <1>t DEF Commit, Release, GoTo, PastCommit, TypeOK
    <2>2. s # r
      BY <2>1 DEF PastCommit, BeforeCommit
    <2>3. seen[s] = r
      BY <1>3, <1>t, <2>1, <2>2, OthersKept DEF Step
    <2> QED  BY <1>t, <2>1, <2>3, CommercialsAssumption DEF Writers, PastCommit
  <1>4. ASSUME NEW r \in Request, r # s,
               Refuse(r) \/ UpdateCommercial(r) \/ (Step(r) /\ ~Commit(r)) \/ Abort(r)
        PROVE  /\ "terms" \notin given'[s] => draft'[s].terms = header'.terms
               /\ "status" \notin given'[s] => draft'[s].status = header'.status
    <2>1. UNCHANGED <<header, writer>>
      BY <1>4 DEF Refuse, UpdateCommercial, Step, SelectHeader, InsertHeader, UpdateHeader,
                  ReplaceChildren, Reload, SyncValue, Abort, database, history
    <2> QED  BY <1>1, <1>4, <1>t, <2>1, OthersKept
  <1>5. ASSUME Refuse(s) \/ (Step(s) /\ ~Commit(s)) \/ Abort(s)
        PROVE  /\ "terms" \notin given'[s] => draft'[s].terms = header'.terms
               /\ "status" \notin given'[s] => draft'[s].status = header'.status
    <2>1. SelectHeader(s) \/ InsertHeader(s) \/ UpdateHeader(s) \/ ReplaceChildren(s)
      BY <1>5, <1>t DEF Refuse, Step, Reload, SyncValue, Abort, Release, GoTo, BeforeCommit, TypeOK
    <2>2. UNCHANGED <<header, writer>> /\ pc[s] \in BeforeCommit
      BY <2>1 DEF SelectHeader, InsertHeader, UpdateHeader, ReplaceChildren, database, history,
                  BeforeCommit
    <2>3. UNCHANGED <<seen, given, draft>>
      BY <1>t, <2>1 DEF SelectHeader, InsertHeader, UpdateHeader, ReplaceChildren, locals,
                        Release, GoTo, BeforeCommit, TypeOK
    <2> QED  BY <1>1, <2>2, <2>3
  <1>6. CASE DeleteLead
    BY <1>6 DEF DeleteLead
  <1>7. CASE Served \/ UNCHANGED vars
    BY <1>1, <1>7 DEF Served, vars, database, locals, history
  <1> QED  BY <1>2, <1>3, <1>4, <1>5, <1>6, <1>7 DEF Next

\* The invariant behind the deal value and the kept fields is inductive.
LEMMA UpdateInvariant == Spec => []UpdateInv
  <1>1. Init => UpdateInv
    BY TypeInit DEF Init, UpdateInv, CommercialsInv, HoldsRow, DropsAll, OneAuthor, NoRows,
                    Writers, PriceCurrent, DraftFollows, BeforeCommit, SyncedValueIsCurrent
  <1>2. UpdateInv /\ [Next]_vars => UpdateInv'
    BY AuthorStep, WritersStep, PriceStep, DraftStep DEF UpdateInv
  <1> QED  BY <1>1, <1>2, PTL DEF Spec

\* If the request that committed last has stored the deal value, it is the price of
\* the estimation as it stands, whatever committed between its commit and its reload.
THEOREM SyncedValueIsCurrentHolds == Spec => []SyncedValueIsCurrent
  <1>1. UpdateInv => SyncedValueIsCurrent
    BY DEF UpdateInv
  <1> QED  BY <1>1, UpdateInvariant, PTL

\* A commit leaves the child tables alone that its body does not name, and the terms
\* and the status as well if the header has not changed since the request read it.
THEOREM OmittedKeptHolds == Spec => OmittedKept
  <1> DEFINE Kept ==
        \A r \in Request : pc[r] = "commit" /\ writer' = r =>
          /\ \A c \in Child \ given[r] : rows'[c] = rows[c]
          /\ header # None /\ seen[r] = writer =>
                \A f \in {"terms", "status"} \ given[r] : header'[f] = header[f]
  <1>1. UpdateInv /\ [Next]_vars => [Kept]_vars
    <2> SUFFICES ASSUME UpdateInv, [Next]_vars, NEW r \in Request, pc[r] = "commit", writer' = r
                 PROVE  /\ \A c \in Child \ given[r] : rows'[c] = rows[c]
                        /\ header # None /\ seen[r] = writer =>
                              \A f \in {"terms", "status"} \ given[r] : header'[f] = header[f]
      OBVIOUS
    <2>t. TypeOK /\ DropsAll /\ Writers /\ DraftFollows
      BY DEF UpdateInv, CommercialsInv
    <2>1. writer # r
      BY <2>t, CommercialsAssumption DEF Writers, PastCommit
    <2>2. PICK q \in Request : Commit(q)
      BY <2>1 DEF Next, Step, Refuse, UpdateCommercial, SelectHeader, InsertHeader, UpdateHeader,
         ReplaceChildren, Reload, SyncValue, Abort, DeleteLead, Served, vars, history
    <2>3. Commit(r)
      BY <2>2 DEF Commit
    <2>4. \A c \in Child \ given[r] : rows'[c] = rows[c]
      BY <2>t, <2>3 DEF Commit, DropsAll, TypeOK
    <2>5. header # None /\ seen[r] = writer =>
             /\ "terms" \notin given[r] => header'.terms = header.terms
             /\ "status" \notin given[r] => header'.status = header.status
      BY <2>t, <2>3 DEF Commit, DraftFollows, BeforeCommit
    <2> QED  BY <2>4, <2>5
  <1> QED  BY <1>1, UpdateInvariant, PTL DEF Spec, OmittedKept
=============================================================================
