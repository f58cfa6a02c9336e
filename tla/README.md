# Verification of the sales tracker backend

TLA+ models of the Go backend under `src/`: a CRM with authentication, leads,
commercial estimations, tasks and reports over one PostgreSQL database. TLC
checks the models on small instances; TLAPS proves theorems about them for every
value of their constants.

## The system

| Component | State it keeps | Operations | Hard parts |
|---|---|---|---|
| Session and credential handlers (`services/auth_service.go`, `repository/{refresh_token,forgot_password,mfa_otp,user}_repository.go`) | tables `users`, `refresh_tokens`, `password_reset_tokens`, `mfa_otps` | Login, VerifyMFA, Refresh, Logout, ForgotPassword, ResetPassword, ChangePassword, EnableMFA, DisableMFA | several SQL statements without a transaction; check and use of one-time credentials; failed statements; full-row writes of stale rows |
| Login limiter (`middleware/ratelimit_middleware.go`) | a `sync.Map` of records with a mutex | IsBlocked, RecordFailure, Reset, sweepLoop | check then act across critical sections; a sweeper that decides under a lock and deletes after releasing it |
| Commercials (`services/commercial_service.go`, `repository/commercial_repository.go`) | `commercial_estimations` with three child tables; the deal value copied to `leads.value` | GetCommercial, UpdateCommercial, GetOrCreateDraft (no caller) | read outside the transaction that writes; replacement of child rows; a derived value stored without a transaction |
| Commercial calculator and pages (`services/commercial_calculator.go`, `services/commercial_service.go`) | the figures of an estimation, `leads.value`, the page a client holds | SolveDates, CalculateFinancialSummary, conversion, GetCommercial, UpdateCommercial | two roundings between page and table, month arithmetic, four places that compute one price |
| Leads and activities (`services/lead_service.go`, `repository/lead_repository.go`) | `leads`, `activities` | create, bulk create, update, delete, assign, log and complete activities | validation against a row read earlier; status and stage written back together; duplicate detection before the insert; partial success of a bulk request |
| User administration, data scopes and SSO login (`services/auth_service.go`, `middleware/{rbac,auth}_middleware.go`, `helpers/authz.go`, `repository/{user,oauth_state}_repository.go`) | `users`, `leader_delegations`, `oauth_states`, the claims of access tokens | CreateUser, UpdateUser, DeleteUser, AssignManager, Grant/RevokeLeaderPermission, ResolveDataScope, BuildSSORedirectURL, SSOCallback | the role in a token is as old as the token; checks and writes in separate statements; the scope is computed at two places; a one-time state consumed by SELECT and DELETE; accounts opened and linked from lookups |
| Document parser (`services/document_parser.go`) | one file, one request | ExtractLeadsFromDocument | a tokenizer with flags and shared buffers, five attempts in turn, records told apart by repeated labels |
| Onboarding codes (`services/auth_service.go`, `repository/user_email_otp_repository.go`) | `email_otps`, `mobile_otps` | SetPassword, Send/Verify of e-mail and mobile codes | needs a temp token that nothing issues: unreachable |
| Tasks (`services/task_service.go`) | `tasks` | create, update, delete | ownership |
| Analytics, gateways, HTTP layer, scripts | none of their own | read-only SQL, network I/O, routing | |

Every HTTP request runs in its own goroutine with its own request context.
Components meet in the database: the lead reads the estimation's price, the
estimation writes the lead's value, every data handler reads the users table
through `ResolveDataScope`. `AuthService.Login` and `VerifyMFA` also call the
limiter directly. There is no message queue and no background work but the
limiter's sweeper and fire-and-forget e-mail goroutines.

What makes each component correct:

- sessions: a rotated, logged-out or reset session stays dead; one-time
  credentials work once; the second factor and the onboarding cannot be skipped;
  a replaced password does not come back;
- limiter: a bound on the failures that a record counts, and on those that a key
  collects; nobody blocked without evidence; bounded memory;
- commercials: the estimation a reader sees was written by one request as a
  whole; the stored deal value follows the estimation;
- leads: status, stage, lost reason, owner and assignee stay consistent; nobody
  acts on a lead outside their scope;
- estimations: every place shows the same price; dates keep their order; a page
  saved as it is shown keeps its amounts, its start and its duration;
- users: a person at the provider has one account; grants and teams go to whom they
  may; who is offered for a lead can be given it; a role that is taken away dies with
  the tokens;
- parser: a document gives the same leads in every layout, and no lead mixes two
  records.

## Plan

The modules, in the order they were written:

1. `AuthSessions`, with `SessionLifecycle` as what it promises,
   `AuthSessionsProofs` and `AuthCredentialsProofs`: the sessions protect everything
   else.
2. `RateLimiter` and `RateLimiterProofs`: the only shared memory of the program.
3. `Commercials` and `CommercialsProofs`: the only multi-statement transaction.
4. `Leads` and `LeadsProofs`: validation against rows read earlier, bulk requests
   that succeed in part.
5. `Accounts` and `AccountsProofs`: users, roles, delegations, scopes, tokens and the SSO login.
6. `DocumentParser`, with `DocumentLayouts` as what authors write, and
   `DocumentParserProofs`: from the tokens of a file to leads.
7. `Estimation` and `EstimationProofs`: what the figures of an estimation are;
   `Commercials` says how overlapping requests store them.

Nothing else of the program carries logic that a model would add to (see *Not
modelled*), and every safety invariant and action property of a passing run is
proved: three of them for requests that do not overlap, where alone the code keeps
them, and two of the parser for documents that are laid out in one of the ways that
`DocumentLayouts` describes. Liveness is left to TLC (see *Only model-checked*).

## Modules

### AuthSessions

`AuthSessions` models the handlers of `AuthService` that create, rotate and end
sessions, statement by statement. None of them runs in a transaction, so an action
is one SQL statement with the local code up to the next one, and `pc[r]` names the
statement request `r` is about to issue.

| TLA+ | code |
|---|---|
| `users[u]` | `users`: `password_hash`, the two onboarding flags (always written together), `mfa_enabled` |
| `refreshToken`, `resetToken`, `mfaOtp` | the rows of the three credential tables, named after the request that inserts them: secrets are random, so no two requests create the same |
| `lapsed` | rows past `expires_at` |
| `held` | secrets that reached their owner: a row whose answer or mail was lost is nobody's |
| `jwt` | users with a live access token; a JWT cannot be revoked |
| `op`, `who`, `tok`, `row` | a handler's method, user, the row it looked up and the users row in its memory |
| `Login` ... `EnableMFA` | from the request to the first write; `EnableMFA` also stands for DisableMFA |
| `StoreOTP` ... `WriteUserRow` | the statements that follow |
| `Refuse`, `Abort` | an early error answer; a statement that fails, or the end of the process |

`Reply` lets a statement take effect and its answer get lost. A password is a
version, named after the request that sets it. `SessionLifecycle` is the abstract
specification: tokens are opened, rotated from a dead predecessor of the same user
and ended, for one user at a time and for ever.

### RateLimiter

One action per operation of the `sync.Map` and per critical section of a record's
mutex. A record lives on while a goroutine points to it after its entry is gone, so
records are objects of their own (`count`, `windowStart`), and `attempts` maps keys
to them. `LoadForCheck`, `Check` are `IsBlocked`; `LoadOrStore`, `RecordFailure`
are `RecordFailure`; `Reset` is `Reset`; `Try` is what `Login` does in between; the
`Sweep...` actions are one round of `sweepLoop`; `Tick` is the clock.

### Commercials

The estimation of one lead under concurrent `UpdateCommercial` requests.
`UpdateCommercial` reads the estimation outside the transaction and works out the
new header; `SelectHeader`, `InsertHeader`, `UpdateHeader`, `ReplaceChildren` and
`Commit` are the statements of the transaction at PostgreSQL's READ COMMITTED
level (`lock` is the row lock, or the pending unique-index entry, that the header
write takes); `Reload` and `SyncValue` follow the commit. `header`, `rows` and
`dealValue` are the header row, the child tables and `leads.value`. Contents are
versions named after the request that wrote them; a price is named by what it
depends on. `DeleteLead` cascades.

### Leads

| TLA+ | code |
|---|---|
| `leads[l]`, `issued` | rows of `leads` by `lead_id`, values taken from `lead_id_seq` (never reused) |
| `activities[r]` | the row of `activities` that request `r` has inserted |
| `job[r]` | a handler's local variables: caller, lead, the row it read or will insert, the map of updates, the companies of a bulk request |
| `UpdateLead`, `WriteLead` | PATCH: read, scope, checks and the map of updates; then the write |
| `CreateLead`, `InsertLead` | the owner and the assignee; then the insertion |
| `BulkCreateLeads`, `AcceptItem`, `InsertItem`, `FinishItems` | the loop over the items; an item that fails a check changes nothing and is skipped |
| `DeleteLead`, `RemoveLead` | scope; then a hard DELETE with its cascade |
| `CreateActivity`, `LogActivity`, `InsertListed`, `InsertActivity` | a lead found, or created on the fly; the activity |
| `CompleteActivity`, `SetCompleted` | a flag that is not there yet; its UPDATE, of no row if the lead has gone |
| `Refuse`, `Abort` | an error answer before any write; a statement that fails, or the end of the process |

`found` is the outcome of the lookups of users whose errors the code drops.
`raced` remembers leads that a PATCH wrote although the row was not the one it had
read, `degraded` leads written after such a lookup failed: two properties say
what holds outside these sets, because inside them the code promises nothing.
The unique key `company` stands for the e-mail address too.

### Accounts

| TLA+ | code |
|---|---|
| `users[u]`, `grants`, `states` | rows of `users`, `leader_delegations`, `oauth_states` |
| `jwt`, `signing` | the claims of live access tokens, and rows read by Login, VerifyMFA or Refresh whose token is not signed yet |
| `pc[r]`, `job[r]` | the statement request `r` issues next; its local variables |
| `RequireAdmin`, `RequirePermission` | the middleware: the role of the token, then the delegations of the table |
| `CreateUser` ... `RevokePermission`, and the actions that follow | the handlers of `/users`, one action per statement |
| `AllowedUserIDs`, `CanAssignLead`, `Offered` | `ResolveDataScope`, and the query behind the list of users |
| `BuildRedirect`, `SSOCallback`, ..., `IssueSession` | the login; `person` and `redeemed` stand for the provider |

The seeds, from which a run starts, are tables as the handlers leave them: distinct
addresses, linked accounts with the address their person claims, managers who are
sales managers (`AssignManager`, `CreateUser` and `UpdateUser` check it).

`Subject` is a person with the name of the provider they signed in under
(`sso_provider` and `sso_subject_id` are looked up together). `moved` and `held` are
history: whose address an administrator has changed, and which roles somebody has had. The index
on mobile numbers behaves like the one on addresses and is left out.

### DocumentParser

A sequential program, modelled by its loops: one action per XML token, per row and
per line, and one for the end of each loop. `in`, `paragraph`, `cell` and `row` are
the flags and buffers of the DOCX reader; `source`, `rows` and `header` the attempt
that runs; `fields` the record in hand; `lines` remembers where it was read from.
A text is a `Piece`: the label it reads as, whether it holds an e-mail address, and
which of the document's values it was put together from. Go's random order of maps
is a choice (`WithEmail`). `Kept` gives the elements of a sequence whose indices are
chosen: the lines that a delimiter divides (`RowsOf`), and the records that name
somebody (`Meant`).

`DocumentLayouts` says what the author of a document does, with nothing about the
parser but the label that a text reads as:

| Definition | says |
|---|---|
| `Tagged` | the tokens of a DOCX file are nested like tables, rows, cells and paragraphs, of which a cell has one at most, and hold these lines and rows; the file may break off anywhere |
| `Complete` | nothing is missing |
| `RecordsOf` | records of values or blanks under two labels or more, all different; no value reads as a label, an address is under "email" |
| `HeaderTable`, `LabelTable` | a row of labels and a row for each record; a row for each label, the first of which has to identify |
| `Blocks` | a label with its value in one line, or in two, or alone; boundaries between records or none |
| `LaidOut` | records in one of these layouts: a table in a DOCX file or in lines with one delimiter, or blocks in a file of any kind; lines are trimmed (`Trimmed`), so that one divided by tabs neither begins nor ends with a blank |

`MCDocumentParser` writes documents down and assumes, for TLC to evaluate, that each
of those of the run `parser` is `LaidOut`, and that those that break off are `Tagged`.

### Estimation

`est` is the stored estimation of one lead in cents of a dollar, `page` what the
client was shown last, `value` is `leads.value`. `GetCommercial` reads a page in a
currency, `Patch` saves a body typed by hand, `Resend` saves the page as it is shown.
The pure functions have the names of the code: `SolveDates`, `Convert`,
`ConvertToBaseUSD`, `EffectiveSellingPrice`, `Summary`; `LeadPrice` and `ListPrice`
are the SQL that works the price out again. `Body` is what JSON binding lets through:
any number at all, checked by `Patch` only. Rounding goes through `float64`: a tie is
a choice between the two neighbours, and every property has to hold for both.

## Runs

| Run | What it asks | Result |
|---|---|---|
| `auth_concurrent` | types; a stored rotation has killed its predecessor (`RotationRevokesOld`); a reset that answers 200 ended the sessions and spent the link (`ResetEndsSessions`); the temporary password never opens a session (`SessionNeedsChosenPassword`); the second factor is per account (`SecondFactor`); the handlers implement `SessionLifecycle` (`ImplementsLifecycle`); under any interleaving, failure and expiry | holds |
| `auth_serial` | without overlap tokens rotate once, codes and links work once, passwords never come back | holds |
| `auth_rotation_race` | one refresh token is exchanged for at most one pair | violated by two overlapping refreshes |
| `auth_stale_row` | a replaced password never comes back | violated by EnableMFA writing a stale row |
| `limiter_concurrent` | types; what one record counts exceeds the limit by less than the attempts in flight (`OvershootBounded`); nobody is blocked without evidence (`BlockedOnEvidence`); expired entries leave the map (`ExpiredEntriesLeave`) | holds |
| `limiter_eviction` | a key collects no more failures in a window than the limit, if attempts come one after the other (`LimitPerKey`) | violated: the sweeper deletes a record that has just started a new window |
| `commercials_concurrent` | types; a child table has one author (`OneAuthor`); a deal value stored last by the last writer is the current price (`SyncedValueIsCurrent`); what a body does not name is kept (`OmittedKept`); every update answers, lock waits included (`UpdatesAnswer`) | holds |
| `commercials_deal_value` | the deal value follows the estimation | violated: lost or reordered writes of `leads.value` |
| `leads_concurrent` | types; a company has one lead (`CompanyOnce`); edited leads are in the stage of their status (`EditedStaysPaired`); without overlap a lost lead has a reason (`LostHasReasonSerially`) and, without failed lookups, the owner is the assignee (`OwnerNamesAssignee`); no edit gives a lead to whom the caller may not give it (`ReassignmentAllowed`) | holds |
| `accounts` | types; a person at the provider has one account (`SubjectOnce`); the two queries behind assignments agree (`OfferedIsAssignable`); grants and teams went to whom they may (`RolesWereChecked`); a change of role takes effect (`RoleChangeTakesEffect`) | holds |
| `parser` | types; of a file, whole or broken off, the reader keeps cells, rows and paragraphs apart (`ReadAsWritten`); every layout gives the records (`SameInEveryLayout`); leads are read in order and from lines of their own (`LeadsInOrder`), never across a boundary (`BoundariesHold`) | holds |
| `estimate` | types; one price everywhere (`PricesAgree`); figures add up in every currency (`FiguresAddUp`); dates keep their order (`DatesOrdered`); amounts do not drift (`DriftBounded`) and a page saved as shown stays as it was but for its end, which becomes the start plus the duration (`ResendKeepsPage`) | holds |

Every property of a passing run has a mutant of a modelled definition (`Mut...`,
next to its original) under which TLC finds it violated.

Bounds, and why they are enough:

- auth: requests are used once. Three overlapping handlers with a fourth before or
  after cover a race on one credential together with the login that issued it; five
  serial requests cover login, forgotten password, reset, change and reuse. Nothing
  in the handlers counts, so further requests repeat these roles. Two accounts show
  what leaks from one to the other.
- limiter: `MaxAttempts = 2` with four attempts on one key, two at a time, reaches the
  limit, exceeds it and blocks; `MaxTime = 2` with `Window = 1` lets a window end, and
  be looked at exactly at its length. Keys share nothing but the sweep, which visits
  them one by one. `limiter_eviction` admits one attempt at a time: what it finds is no
  overshoot of overlapping attempts. Its bounds are the least for it: one failure in a
  window that expires, and three at one time, of which the limit allows two.
- commercials: three requests, one of which may have finished before two others
  overlap; the bodies in `SomeBodies` name nothing, everything, and parts that
  intersect. Expenses behave like resources in every definition, so two child tables
  (one with a price, one without) are enough.
- leads: three requests, all of which may overlap, are a creation (or a bulk request
  that creates both leads) followed by two edits, an edit and a deletion, or an
  activity and a deletion; two leads and two companies let a creation, an import
  and a renaming collide. One user of each kind of scope is enough because leaders
  have the admin's scope, except that they may not delete. `SomeBodies` names each
  group of columns that `UpdateLead` treats differently, the owner by name, by
  nobody's name and by id, and both; `SomeOffers` holds leads lost without a reason
  and in a stage that is not that of their status.
- accounts: two handlers at a time are enough for a check and the write it no longer
  covers; three accounts are an administrator, somebody whose role changes and
  somebody under them; one person at the provider, who signs in under both of its
  names, races every administrator and the other login. One token at a time (besides those of
  an SSO login) is enough: properties are about one token and one row.
- parser: one to three records under five sets of labels, with one blank value, in
  nine layouts; two DOCX tables broken off after every token; every sequence of up to
  five lines of eight kinds and of up to four rows of five kinds. Crossing a border
  between records needs two records and a line between them.
- estimation: currencies above the dollar (INR), below it (KWD, BHD) and USD; seven
  bodies that name the dates in every combination the code distinguishes, around the
  ends of months, and amounts that round either way. The pages a client can reach from
  there are finitely many, so that "any number of times" is meant literally.
  `MaxDrift`, four cents, is the least that holds (and is proved for all currencies).

`CHECK_DEADLOCK` is on everywhere: when all requests are answered the stuttering
step `Served` (`Answered` in the parser) remains; the sweeper of the limiter never
stops, and the client of `Estimation` can always read its page again.

Symmetry is used in runs without liveness only: requests, leads and accounts are
interchangeable in every definition of the modules that use it. `OmittedKept` is conditional on
purpose: of two overlapping updates the one that commits last restores the terms and
status it read, and the code does not notice.

## Fairness

`FairSpec` of `AuthSessions` (used by `auth_stale_row`) and `Commercials` is weak fairness of each running
handler's next statement: the Go runtime schedules runnable goroutines and
PostgreSQL grants a lock that is free. Requests, failures, expiry and deletions are
never owed. In `Commercials` a statement that waits for a row is enabled only when
the row is free: weak fairness is enough because each of the finitely many requests
takes it once. `FairSpec` of `RateLimiter` is weak fairness of the sweeper goroutine,
whose ticker fires for ever; attempts are not owed. `Fairness` of `Accounts` is weak
fairness of the expiry of every token: time passes. No handler is owed anything there.

## Where code and comments disagree

- `Refresh` says it rotates; the revocation is an UPDATE by id whose row count is
  not looked at, so two overlapping refreshes both succeed (`auth_rotation_race`).
- `EnableMFA` and `DisableMFA` write every column from a row read before: a
  password changed in between comes back (`auth_stale_row`).
- The deal value is "set from the evaluated commercial selling price"; it is set
  in a second transaction whose error is dropped (`commercials_deal_value`).
- "5 failed attempts per identifier+IP within a 15-minute window" is the limit of a
  record: the sweeper sees under the mutex that a window has expired and deletes the
  entry after releasing it, and a failure that has started a new window in between goes
  with it. The key then gets a new record in the same window, and more failures than the
  limit although no two attempts overlap (`limiter_eviction`).

Met while modelling, each too close to what a property already covers to have a run
of its own: `ChangePassword` logs a failure to revoke the old sessions and answers
200; a page that is sent back as it is shown may come back with another end, because
`SolveDates` lets start and duration win (the draft of 30 January for a lead required by
31 March shows three months, and is stored up to 30 April);
two overlapping edits can leave a lost lead without a reason; a manual price of 0 is
a price in the lists of leads and none elsewhere; the amounts of a body are in the
currency the body names, not in the one the query asks for; an SSO login that links
an account writes back the row it has read, over what an administrator has changed
since; "Lead 1", which a comment of the parser gives as an example of a boundary between
records (line 662), is none, because the expression of line 629 needs one more digit, so
that a label in front of it takes it as its value; an account opened by an SSO login has the role `agent`, which no other handler
accepts, and is not active.

## Proofs

For every set of requests, accounts, keys and child tables and every bound, from
the named assumptions on the constants alone:

- `AuthSessionsProofs!TypeCorrect`: types. `TypeOK` is strengthened by `Attributed`
  (whoever runs or owns a row acts for an account), because handlers index `users`
  with `who[r]`.
- `AuthSessionsProofs!RotationSafe`: `RotationRevokesOld`. The property is not
  inductive: the step that stores the new token needs the old one revoked. The
  invariant `SessionInv` is `Typed`, `Shape` (a handler is at a statement of its
  own method, and its row exists only where that method creates it) and `Rotation`
  (from the statement after `RevokeOld` on, the presented token is revoked).
  Revoked tokens stay so because no other request writes under their name.
- `AuthCredentialsProofs!SecondFactorHolds`, `ResetEndsSessionsHolds` and
  `SessionNeedsChosenPasswordHolds`, from `CredentialInv`, which adds to `SessionInv`
  what a handler between two statements has already done to the credential it used:
  `LoginCleared` and `OtpSpent` (before a session is issued, the account had no second
  factor, or its code is spent), `LinkSpent` and `SessionsEnded` (after `MarkReset`
  and `RevokeAll`). `OnboardingPending` says that a users row with the temporary
  password demands a change, in the table and in the memory of every handler, since
  `EnableMFA` writes back the row it read.
- `AuthCredentialsProofs!RotatesOnceSerially`, `CredentialsWorkOnceSerially` and
  `PasswordMovesForwardSerially` assume `MaxInFlight <= 1`, as the run `auth_serial`
  does: with two handlers in flight each fails (`auth_rotation_race`, `auth_stale_row`;
  two uses of one code or link race as two refreshes do). `SerialInv` adds
  that the only running handler has the only use of its credential (`FirstUse`), and
  that the row `EnableMFA` holds has the password of the table (`RowCurrent`).
- `AuthCredentialsProofs!LifecycleImplemented`: the refinement, `ImplementsLifecycle`.
  Every statement of every handler maps to a step of `SessionLifecycle` or to none;
  that a rotation replaces a dead token is `RotationRevokesOld`, that a revocation
  of all sessions ends those of one user is `Attributed`.
- `RateLimiterProofs!TypeCorrect`, which includes that no critical section
  dereferences a nil record.
- `RateLimiterProofs!OvershootHolds`: `OvershootBounded`, a bound on what a record
  counts; on what a key collects over several records there is none (`limiter_eviction`).
  The invariant counts, for
  each record, the *pending* attempts: those that may still add a failure without
  `IsBlocked` looking at the record again. While the window is open, count and
  pending together stay at most `MaxAttempts - 1 + MaxInFlight`: passing the check
  needs a count below the limit, counting turns one pending attempt into one
  failure, a new window or a new record starts from at most the other attempts in
  flight. `Publication` (a record nobody has published counts nothing) and
  `Admission` (finitely many in flight) support it.
- `RateLimiterProofs!BlockedOnEvidenceHolds`: `BlockedOnEvidence`, from
  `EvidenceInv`. A record serves one key, in the map or out of it (`OneKey`), and counts
  at most the failures that lie in its window (`Counted`): a new window starts with
  one, and an attempt that has ended changes no more (`EndedFrozen`).
- `CommercialsProofs!TypeCorrect`, and `CommercialsProofs!OneAuthorHolds`. The
  invariant adds to `OneAuthor` that a request between header write and commit
  holds the row (`HoldsRow`), so that what it deleted is still all that is
  committed when it commits (`DropsAll`).
- `CommercialsProofs!SyncedValueIsCurrentHolds` and `OmittedKeptHolds` (an action
  property), from `UpdateInv`: a request on record as writer is past its commit
  (`Writers`), the price that the last writer is about to store is that of the
  estimation (`PriceCurrent`), and a draft differs from the header it was made from
  only where its body says so (`DraftFollows`).
- `LeadsProofs!TypeCorrect`. `TypeOK` is strengthened by `JobsReady`: what a handler
  holds between two statements is fit for the next one.
- `LeadsProofs!CompanyOnceHolds`, `EditedStaysPairedHolds` and
  `LostHasReasonSeriallyHolds`, from the invariant `LeadsInv`. `JobsReady` says that
  a map of updates holds a pair of status and stage that belong together and, with
  the row it was made from, a reason if the status is Lost; the row being unchanged
  at the write (not `raced`) turns that into a reason in the row. `IssuedFirst` (a
  lead that is there or was edited has a number that was issued) makes the number
  of an inserted row new, so that creation, which checks no pair, is never an edit.
- `LeadsProofs!OwnerNamesAssigneeHolds` and `ReassignmentAllowedHolds` (an action
  property), from `OwnerInv`. `OwnersReady` says of the row or the map of updates in a
  handler's hands that owner and assignee name one user unless a lookup failed, and
  that a new assignee passed `CanAssignLead` or is the owner of the row that was read.
- `AccountsProofs!TypeCorrect`, `SubjectOnceHolds`, `RolesWereCheckedHolds` and
  `OfferedIsAssignableHolds`, from `AccountsInv`. `SubjectOnce` is not inductive: what
  keeps a person to one account is the unique index on addresses (`EmailOnce`) with
  `AddressClaimed`, that a linked account has the address its person claims until an
  administrator changes it. `JobsReady` carries the outcome of each check to the
  statement that relies on it, by way of `held` (a role that was checked has been
  had). `OfferedIsAssignable` relates two queries of one table and needs the types only.
- `DocumentParserProofs!LeadsInOrderHolds` and `BoundariesHoldAlways`, for every
  document, from `ParserInv`: the lines of the record in hand are behind `at` and
  after those of every lead (`Behind`), without a boundary from the first of them
  on (`Unbroken`); an attempt starts with nothing (`Fresh`).
- `DocumentParserProofs!TypeCorrect`, for every document, from `TypeInv` (`ParserInv`
  and that indices start at 1). `Kept` is a recursive function of the number of
  elements; that it exists and what its type is are proved from the least number for
  which they would fail (`RowsType`), and so is that a row has a last column with a
  label and a first cell that is not blank (`Extremes`).
- `DocumentParserProofs!ReadAsWrittenHolds` assumes that DOCX files are `Tagged`
  (`DocxTagged`); it is about files that break off as well. `FileInv` compares the
  flags and buffers with what the tokens so far have opened and begun (`count`): the
  elements that the flags say are open are those that are (`in = count[at - 1].open`),
  the lines, rows and cells that have ended are the author's (`LinesRead`, `RowsRead`),
  and a cell has what its paragraph had, when that has ended (`CellRead`).
- `DocumentParserProofs!SameInEveryLayoutHolds` assumes that a document that has
  records is `LaidOut` (`AllLaidOut`), with any number of records and labels and blanks
  anywhere. A file that is complete is read as it was written, by `FileInv`; then
  `LayoutInv` follows the search. No attempt before the right one finds two rows
  (`Opened`); a row of values never replaces the header, since no value reads as a
  label (`HeaderSearch`); the record in hand has the values of its first labels
  (`Part`), and is complete before its first label comes again, with two fields or
  more, or a boundary does (`LabelSearch`, `BlockSearch`). The leads so far are what is
  meant by the records that have ended (`MeantBy`), also when they name nobody.
- `EstimationProofs`, for any subset with the dollar of the eleven currencies of
  `ExchangeRates` and any bodies:
  - `TypeCorrect` and `DatesOrderedHolds`: the arithmetic of months, for every date
    and number of months (`EstimationInv`).
  - `ResendKeepsPageHolds` (an action property). The page shows amounts that the stored
    ones convert to, and `RoundTrip` says that such an amount, sent back and stored in
    dollars, converts to itself: at a rate above 100 cents to the dollar the stored
    amount is the one that was there, below it is near enough to round to the same. The
    page names all three dates, so that the end becomes start plus duration.
  - `PricesAgreeHolds`, from `PriceInv` (`value` is the price of `est`).
  - `FiguresAddUpHolds`. The sums of the onsite and of the offshore cost have to make up
    that of both.
    `SumFunction` is a fold over a set, and the library's induction takes an operator,
    so its equations are proved from the least subset, by strict inclusion, on which
    they would fail (`Smallest`).
  - `DriftBoundedHolds`, from `DriftInv`. A round trip is not monotone in the distance
    from what was typed, so a bound on the distance is not inductive. At rates of 100
    cents or more a round trip changes nothing; there are amounts, repeating every
    dollar, that no round trip at one of the four rates below crosses downwards
    (`Floors`) or upwards (`Ceilings`), and every amount is at most four cents above a
    floor and at most four below a ceiling. `Near(s, t)` says that the stored `s` is
    below no floor of the typed `t` and above no ceiling of it. The four cents that
    TLC finds to be the least bound for four currencies are one for all eleven.

## Only model-checked

- Liveness: `RoleChangeTakesEffect`, `UpdatesAnswer`, `ExpiredEntriesLeave`. Temporal
  reasoning with ENABLED is outside the prover's reach.
- `RotatesOnce`, `CredentialsWorkOnce` and `PasswordMovesForward` are false of
  overlapping requests, and `LimitPerKey` and `DealValueFollows` are false; see *Where code and comments disagree*.

## Not modelled

- Onboarding by e-mail and mobile codes: needs a temporary token, and nothing in the
  program issues one.
- Tasks: an insertion, a list and an update of one column, without a rule between them.
- Analytics: read-only SQL; the queries are their own specification.
- Mail and SMS gateways: external; a call that delivers or not, with or without an
  error. Routing, JSON binding, CORS and metrics carry no state the properties depend
  on. The scripts are one-off programs.
- Of the parser: opening PDF and ZIP containers, `.doc` files, tables inside tables,
  and the normalisation of numbers, dates and enumerations. Of the calculator: margin,
  return on investment, present value, SDLC and the remaining charts, which are formulas
  over the figures that are modelled.

Abstracted away inside the models: message texts, hashing, token formats and the
randomness of secrets (no two are equal), user names and devices of sessions,
contents of child rows; fractions of a percentage (markup and discount are `float64` and
`numeric` in the code, whole numbers in `Estimation`, so that `PricesAgree` is about whole
percentages). `EnableMFA` and `DisableMFA` are actions of `AuthSessions` only: they write
back every column of the caller's users row (`userRepo.Update`), hence role, address,
manager, activity and the columns of the SSO login too, as `LinkAccount` of `Accounts`
does, but are no actions of `Accounts`. The callers of `Leads` have one of the four
valid roles; the token of an account that SSOCallback has opened has the role `agent`,
which is not one of them (`Accounts` has it). Out of scope of `Commercials` and `Leads`: PATCH of `leads.value`;
`GetOrCreateDraft` and `UpdateLeadStatusAndStage`, which nothing calls; the e-mails
sent by goroutines after a write.
