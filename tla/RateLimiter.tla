----------------------------- MODULE RateLimiter -----------------------------
(***************************************************************************)
(* The login limiter of middleware/ratelimit_middleware.go: a sync.Map     *)
(* from identifier|IP to a record with a mutex, used by concurrent login   *)
(* attempts (AuthService.Login and VerifyMFA) and emptied by a sweeper     *)
(* goroutine.                                                              *)
(*                                                                         *)
(* An action is one operation of the sync.Map or one critical section of a *)
(* record.  A record outlives its map entry while a goroutine still points *)
(* to it, so records are objects of their own, named by the attempt whose  *)
(* LoadOrStore published them.  An attempt runs once.                      *)
(***************************************************************************)
EXTENDS FiniteSets, Naturals

CONSTANTS
    Attempt,      \* login attempts
    Key,          \* identifier|IP
    None,
    MaxAttempts,  \* cfg.Rate.MaxAttempts
    Window,       \* cfg.Rate.Window, in clock ticks
    MaxInFlight,  \* bound: attempts running at the same time
    MaxTime       \* bound: the clock stops here

ASSUME LimiterAssumption ==
    /\ None \notin Attempt \cup Key \cup Nat
    /\ MaxAttempts \in Nat \ {0}
    /\ Window \in Nat
    /\ MaxInFlight \in Nat \ {0}
    /\ MaxTime \in Nat

VARIABLES
    now,          \* the clock
    attempts,     \* the sync.Map: attempts[k] is a record or None
    count,        \* count[a], windowStart[a]: the fields of the record a created
    windowStart,
    pc,           \* pc[a]: what attempt a does next
    key,          \* key[a]: the key a uses
    rec,          \* rec[a]: the record a points to
    sweeper,      \* the sweeper: the keys left to visit and the entry it is at
    failedAt,     \* history: when a counted its failure, or None
    blockedAt     \* history: when a was turned away, or None

records == <<count, windowStart>>
history == <<failedAt, blockedAt>>
vars == <<now, attempts, records, pc, key, rec, sweeper, history>>

InFlightPc == {"check", "try", "loadOrStore", "recordFailure", "reset"}

SweepPc == {"wait", "range", "lock", "delete"}

\* The last two conjuncts: no critical section dereferences a nil record.
TypeOK ==
    /\ now \in Nat
    /\ attempts \in [Key -> Attempt \cup {None}]
    /\ count \in [Attempt -> Nat]
    /\ windowStart \in [Attempt -> Nat]
    /\ pc \in [Attempt -> {"idle", "done"} \cup InFlightPc]
    /\ key \in [Attempt -> Key \cup {None}]
    /\ rec \in [Attempt -> Attempt \cup {None}]
    /\ sweeper \in [pc : SweepPc, todo : SUBSET Key, key : Key \cup {None},
                    rec : Attempt \cup {None}]
    /\ failedAt \in [Attempt -> Nat \cup {None}]
    /\ blockedAt \in [Attempt -> Nat \cup {None}]
    /\ \A a \in Attempt : pc[a] \in {"check", "recordFailure"} => rec[a] # None
    /\ sweeper.pc \in {"lock", "delete"} => sweeper.key # None /\ sweeper.rec # None

Init ==
    /\ now = 0
    /\ attempts = [k \in Key |-> None]
    /\ count = [a \in Attempt |-> 0]
    /\ windowStart = [a \in Attempt |-> 0]
    /\ pc = [a \in Attempt |-> "idle"]
    /\ key = [a \in Attempt |-> None]
    /\ rec = [a \in Attempt |-> None]
    /\ sweeper = [pc |-> "wait", todo |-> {}, key |-> None, rec |-> None]
    /\ failedAt = [a \in Attempt |-> None]
    /\ blockedAt = [a \in Attempt |-> None]

-----------------------------------------------------------------------------
\* time.Since(rec.windowStart) > rl.window
Expired(x) == now - windowStart[x] > Window

InFlight == {a \in Attempt : pc[a] \in InFlightPc}

GoTo(a, label) == pc' = [pc EXCEPT ![a] = label]

\* Mutant: one failure too many is allowed.
MutLimitReached(x) == ~Expired(x) /\ count[x] > MaxAttempts

LimitReached(x) == ~Expired(x) /\ count[x] >= MaxAttempts

-----------------------------------------------------------------------------
(* IsBlocked.                                                              *)

\* Mutant: the second result of attempts.Load is not looked at.
MutLoadForCheck(a) ==
    /\ pc[a] = "idle"
    /\ Cardinality(InFlight) < MaxInFlight
    /\ \E k \in Key :
         /\ key' = [key EXCEPT ![a] = k]
         /\ rec' = [rec EXCEPT ![a] = attempts[k]]
    /\ GoTo(a, "check")
    /\ UNCHANGED <<now, attempts, records, sweeper, history>>

\* attempts.Load: no record, not blocked.
LoadForCheck(a) ==
    /\ pc[a] = "idle"
    /\ Cardinality(InFlight) < MaxInFlight
    /\ \E k \in Key :
         /\ key' = [key EXCEPT ![a] = k]
         /\ rec' = [rec EXCEPT ![a] = attempts[k]]
         /\ GoTo(a, IF attempts[k] = None THEN "try" ELSE "check")
    /\ UNCHANGED <<now, attempts, records, sweeper, history>>

\* The critical section of IsBlocked.
Check(a) ==
    /\ pc[a] = "check"
    /\ IF LimitReached(rec[a])
       THEN GoTo(a, "done") /\ blockedAt' = [blockedAt EXCEPT ![a] = now]
       ELSE GoTo(a, "try") /\ UNCHANGED blockedAt
    /\ UNCHANGED <<now, attempts, records, key, rec, sweeper, failedAt>>

\* The database lookup and the comparison of the password: a wrong password or
\* an unknown user is a failure, a database error is neither.
Try(a) ==
    /\ pc[a] = "try"
    /\ \E next \in {"loadOrStore", "reset", "done"} : GoTo(a, next)
    /\ UNCHANGED <<now, attempts, records, key, rec, sweeper, history>>

-----------------------------------------------------------------------------
(* RecordFailure and Reset.                                                *)

LoadOrStore(a) ==
    /\ pc[a] = "loadOrStore"
    /\ LET k == key[a] IN
         IF attempts[k] # None
         THEN /\ rec' = [rec EXCEPT ![a] = attempts[k]]
              /\ UNCHANGED <<attempts, records>>
         ELSE /\ rec' = [rec EXCEPT ![a] = a]
              /\ attempts' = [attempts EXCEPT ![k] = a]
              /\ windowStart' = [windowStart EXCEPT ![a] = now]
              /\ UNCHANGED count
    /\ GoTo(a, "recordFailure")
    /\ UNCHANGED <<now, key, sweeper, history>>

\* Mutant: a new window starts without clearing the count.
MutRecordFailure(a) ==
    /\ pc[a] = "recordFailure"
    /\ LET x == rec[a] IN
         /\ count' = [count EXCEPT ![x] = @ + 1]
         /\ windowStart' = [windowStart EXCEPT ![x] = IF Expired(x) THEN now ELSE @]
    /\ failedAt' = [failedAt EXCEPT ![a] = now]
    /\ GoTo(a, "done")
    /\ UNCHANGED <<now, attempts, key, rec, sweeper, blockedAt>>

\* The critical section of RecordFailure.
RecordFailure(a) ==
    /\ pc[a] = "recordFailure"
    /\ LET x == rec[a] IN
         IF Expired(x)
         THEN /\ count' = [count EXCEPT ![x] = 1]
              /\ windowStart' = [windowStart EXCEPT ![x] = now]
         ELSE /\ count' = [count EXCEPT ![x] = @ + 1]
              /\ UNCHANGED windowStart
    /\ failedAt' = [failedAt EXCEPT ![a] = now]
    /\ GoTo(a, "done")
    /\ UNCHANGED <<now, attempts, key, rec, sweeper, blockedAt>>

Reset(a) ==
    /\ pc[a] = "reset"
    /\ attempts' = [attempts EXCEPT ![key[a]] = None]
    /\ GoTo(a, "done")
    /\ UNCHANGED <<now, records, key, rec, sweeper, history>>

-----------------------------------------------------------------------------
(* sweepLoop.                                                              *)

\* The ticker fires once per window; when it does is left open.
SweepStart ==
    /\ sweeper.pc = "wait"
    /\ sweeper' = [sweeper EXCEPT !.pc = "range", !.todo = Key]
    /\ UNCHANGED <<now, attempts, records, pc, key, rec, history>>

\* Range hands the entry of a key not visited yet to the callback.
SweepVisit(k) ==
    /\ sweeper.pc = "range"
    /\ k \in sweeper.todo
    /\ sweeper' = IF attempts[k] = None
                  THEN [sweeper EXCEPT !.todo = @ \ {k}]
                  ELSE [pc |-> "lock", todo |-> sweeper.todo \ {k}, key |-> k,
                        rec |-> attempts[k]]
    /\ UNCHANGED <<now, attempts, records, pc, key, rec, history>>

\* Mutant: the sign of the expiry test is lost.
MutSweepLock ==
    /\ sweeper.pc = "lock"
    /\ sweeper' = [sweeper EXCEPT !.pc = IF Expired(sweeper.rec) THEN "range" ELSE "delete"]
    /\ UNCHANGED <<now, attempts, records, pc, key, rec, history>>

\* The critical section of the callback.
SweepLock ==
    /\ sweeper.pc = "lock"
    /\ sweeper' = [sweeper EXCEPT !.pc = IF Expired(sweeper.rec) THEN "delete" ELSE "range"]
    /\ UNCHANGED <<now, attempts, records, pc, key, rec, history>>

\* The entry is deleted by key, after the mutex has been released.
SweepDelete ==
    /\ sweeper.pc = "delete"
    /\ attempts' = [attempts EXCEPT ![sweeper.key] = None]
    /\ sweeper' = [sweeper EXCEPT !.pc = "range"]
    /\ UNCHANGED <<now, records, pc, key, rec, history>>

SweepEnd ==
    /\ sweeper.pc = "range"
    /\ sweeper.todo = {}
    /\ sweeper' = [pc |-> "wait", todo |-> {}, key |-> None, rec |-> None]
    /\ UNCHANGED <<now, attempts, records, pc, key, rec, history>>

Tick ==
    /\ now < MaxTime
    /\ now' = now + 1
    /\ UNCHANGED <<attempts, records, pc, key, rec, sweeper, history>>

-----------------------------------------------------------------------------
Login(a) ==
    LoadForCheck(a) \/ Check(a) \/ Try(a) \/ LoadOrStore(a) \/ RecordFailure(a) \/ Reset(a)

Sweep ==
    SweepStart \/ (\E k \in Key : SweepVisit(k)) \/ SweepLock \/ SweepDelete \/ SweepEnd

Next == (\E a \in Attempt : Login(a)) \/ Sweep \/ Tick

Spec == Init /\ [][Next]_vars

\* The sweeper goroutine lives as long as the process and a ticker keeps
\* firing.  Attempts come and go as clients please.
FairSpec == Spec /\ WF_vars(Sweep)

-----------------------------------------------------------------------------
(* Safety.                                                                 *)

\* What one record counts in one window: IsBlocked and RecordFailure are separate
\* critical sections, so it can be more than MaxAttempts, but no more than the
\* attempts that were already past IsBlocked when the limit was reached.  The bound
\* is the record's: a key whose record the sweeper has taken out of the map starts
\* another one, in the same window or not (LimitPerKey).
OvershootBounded == \A x \in Attempt : count[x] < MaxAttempts + MaxInFlight

\* "5 failed attempts per identifier+IP within a 15-minute window", and RecordFailure
\* starts "a new window if the previous one has expired": of a key that nobody has
\* got in with, no more than MaxAttempts failures fall on one time, hence in one
\* window, after one that has expired, if attempts come one after the other.
\* Does not hold: SweepDelete takes a record whose window has started anew since
\* SweepLock, with the failures in it, or one that a failure is about to be counted in.
LimitPerKey ==
    \A a, earlier \in Attempt :
        /\ failedAt[a] # None /\ failedAt[earlier] # None
        /\ key[earlier] = key[a] /\ failedAt[a] - failedAt[earlier] > Window
        /\ \A b \in Attempt : key[b] = key[a] /\ pc[b] = "done" =>
               failedAt[b] # None \/ blockedAt[b] # None
        => Cardinality({b \in Attempt : key[b] = key[a] /\ failedAt[b] = failedAt[a]})
             <= MaxAttempts

\* An attempt is turned away only for failures of its own key that lie within
\* the last window: no other key, no sweep and no old window locks a user out.
BlockedOnEvidence ==
    \A a \in Attempt : blockedAt[a] # None =>
        Cardinality({b \in Attempt : /\ key[b] = key[a]
                                     /\ failedAt[b] # None
                                     /\ failedAt[b] <= blockedAt[a]
                                     /\ blockedAt[a] - failedAt[b] <= Window}) >= MaxAttempts

-----------------------------------------------------------------------------
(* Liveness.                                                               *)

\* Memory stays bounded: a record that has expired leaves the map or starts a
\* new window.
ExpiredEntriesLeave ==
    \A k \in Key, x \in Attempt :
        attempts[k] = x /\ Expired(x) ~> attempts[k] # x \/ ~Expired(x)
=============================================================================
