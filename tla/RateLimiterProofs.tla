-------------------------- MODULE RateLimiterProofs --------------------------
(* Theorems about RateLimiter, for any number of attempts and keys, any     *)
(* limit and window and a clock that stops anywhere: the types, and how far *)
(* the number of counted failures can exceed the limit.                     *)
EXTENDS RateLimiter, FiniteSetTheorems, TLAPS

-----------------------------------------------------------------------------
(* Type correctness.                                                       *)

\* An attempt that runs has a key.
Keyed == \A a \in Attempt : pc[a] \in InFlightPc => key[a] \in Key

\* TypeOK alone is not inductive: attempts index the map with key[a].
Typed == TypeOK /\ Keyed

\* One step of a login attempt keeps the types.
LEMMA LoginType ==
    ASSUME Typed, NEW a \in Attempt, Login(a)
    PROVE  Typed'
  <1> USE LimiterAssumption DEF Typed, Keyed, TypeOK, records, history, InFlightPc, SweepPc, GoTo
  <1>1. CASE LoadForCheck(a)
    BY <1>1 DEF LoadForCheck
  <1>2. CASE Check(a)
    BY <1>2 DEF Check
  <1>3. CASE Try(a)
    BY <1>3 DEF Try
  <1>4. CASE LoadOrStore(a)
    BY <1>4 DEF LoadOrStore
  <1>5. CASE RecordFailure(a)
    BY <1>5 DEF RecordFailure
  <1>6. CASE Reset(a)
    BY <1>6 DEF Reset
  <1> QED  BY <1>1, <1>2, <1>3, <1>4, <1>5, <1>6 DEF Login

\* One step of the sweeper keeps the types.
LEMMA SweepType ==
    ASSUME Typed, Sweep
    PROVE  Typed'
  <1> USE LimiterAssumption DEF Typed, Keyed, TypeOK, records, history, SweepPc
  <1>1. CASE SweepStart
    BY <1>1 DEF SweepStart
  <1>2. ASSUME NEW k \in Key, SweepVisit(k) PROVE Typed'
    BY <1>2 DEF SweepVisit
  <1>3. CASE SweepLock
    BY <1>3 DEF SweepLock
  <1>4. CASE SweepDelete
    BY <1>4 DEF SweepDelete
  <1>5. CASE SweepEnd
    BY <1>5 DEF SweepEnd
  <1> QED  BY <1>1, <1>2, <1>3, <1>4, <1>5 DEF Sweep

\* Every step keeps the types.
LEMMA TypeStep == Typed /\ [Next]_vars => Typed'
  <1> SUFFICES ASSUME Typed, [Next]_vars PROVE Typed'
    OBVIOUS
  <1>1. CASE Tick
    BY <1>1 DEF Tick, Typed, Keyed, TypeOK, records, history
  <1>2. CASE UNCHANGED vars
    BY <1>2 DEF vars, Typed, Keyed, TypeOK, records, history
  <1> QED  BY <1>1, <1>2, LoginType, SweepType DEF Next

\* The initial state has every type.
LEMMA TypeInit == Init => Typed
  BY LimiterAssumption DEF Init, Typed, Keyed, TypeOK, InFlightPc, SweepPc

\* The variables keep their types and no critical section dereferences a nil
\* record: IsBlocked, RecordFailure and the sweeper only lock a record they found.
THEOREM TypeCorrect == Spec => []TypeOK
  <1>1. Typed => TypeOK
    BY DEF Typed
  <1> QED  BY <1>1, TypeInit, TypeStep, PTL DEF Spec

-----------------------------------------------------------------------------
(* The overshoot.                                                          *)

\* The attempts that may still add a failure to record x without IsBlocked looking
\* at x again.
Pending(x) ==
    {a \in Attempt : \/ pc[a] = "recordFailure" /\ rec[a] = x
                     \/ /\ pc[a] \in {"try", "loadOrStore"}
                        /\ attempts[key[a]] = x
                     \/ /\ pc[a] = "check"
                        /\ attempts[key[a]] = x
                        /\ rec[a] # x}

Ceiling == MaxAttempts - 1 + MaxInFlight

\* As long as the window of x is open, even its pending failures keep it below
\* the ceiling.
Bounded(x) ==
    /\ count[x] <= Ceiling
    /\ Expired(x) \/ count[x] + Cardinality(Pending(x)) <= Ceiling

\* A record is published when its attempt gets to count its failure.
Published(x) == pc[x] \in {"recordFailure", "done"}

Publication ==
    /\ \A k \in Key : attempts[k] # None => Published(attempts[k])
    /\ \A a \in Attempt : rec[a] # None => Published(rec[a])
    /\ \A x \in Attempt : ~Published(x) => count[x] = 0

\* The admission bound of the model.
Admission == IsFiniteSet(InFlight) /\ Cardinality(InFlight) <= MaxInFlight

OvershootInv == Typed /\ Publication /\ Admission /\ \A x \in Attempt : Bounded(x)

\* No more attempts run than the bound lets in.
LEMMA AdmissionStep == OvershootInv /\ [Next]_vars => Admission'
  <1> SUFFICES ASSUME OvershootInv, [Next]_vars PROVE Admission'
    OBVIOUS
  <1> USE DEF OvershootInv, Typed, TypeOK, GoTo
  <1>1. IsFiniteSet(InFlight) /\ Cardinality(InFlight) \in Nat /\ Cardinality(InFlight) <= MaxInFlight
    BY FS_CardinalityType DEF Admission
  <1>2. CASE InFlight' \subseteq InFlight
    <2>1. IsFiniteSet(InFlight') /\ Cardinality(InFlight') <= Cardinality(InFlight)
      BY <1>1, <1>2, FS_Subset
    <2>2. Cardinality(InFlight') \in Nat
      BY <2>1, FS_CardinalityType
    <2> QED  BY <1>1, <2>1, <2>2, LimiterAssumption DEF Admission
  <1>3. ASSUME NEW a \in Attempt, LoadForCheck(a) PROVE Admission'
    <2>1. InFlight' = InFlight \cup {a} /\ Cardinality(InFlight) < MaxInFlight
      BY <1>3 DEF LoadForCheck, InFlight, InFlightPc
    <2>2. /\ IsFiniteSet(InFlight \cup {a})
          /\ Cardinality(InFlight \cup {a}) <= Cardinality(InFlight) + 1
      BY <1>1, FS_AddElement
    <2> QED  BY <1>1, <2>1, <2>2, FS_CardinalityType, LimiterAssumption DEF Admission
  <1>4. ASSUME NEW a \in Attempt, Login(a), ~LoadForCheck(a) PROVE InFlight' \subseteq InFlight
    BY <1>4 DEF Login, Check, Try, LoadOrStore, RecordFailure, Reset, InFlight, InFlightPc
  <1>5. CASE Sweep \/ Tick \/ UNCHANGED vars
    <2>1. pc' = pc
      BY <1>5 DEF Sweep, SweepStart, SweepVisit, SweepLock, SweepDelete, SweepEnd, Tick, vars
    <2> QED  BY <1>2, <2>1 DEF InFlight
  <1> QED  BY <1>2, <1>3, <1>4, <1>5 DEF Next

\* Records in the map or in a handler are published, and the others count nothing.
LEMMA PublicationStep == OvershootInv /\ [Next]_vars => Publication'
  <1> SUFFICES ASSUME OvershootInv, [Next]_vars PROVE Publication'
    OBVIOUS
  <1> USE LimiterAssumption DEF OvershootInv, Typed, TypeOK, Keyed, Publication, Published,
                                records, history, InFlightPc, GoTo
  <1>1. ASSUME NEW a \in Attempt, LoadForCheck(a) PROVE Publication'
    BY <1>1 DEF LoadForCheck
  <1>2. ASSUME NEW a \in Attempt, Check(a) \/ Try(a) PROVE Publication'
    BY <1>2 DEF Check, Try
  <1>3. ASSUME NEW a \in Attempt, LoadOrStore(a) PROVE Publication'
    BY <1>3 DEF LoadOrStore
  <1>4. ASSUME NEW a \in Attempt, RecordFailure(a) PROVE Publication'
    BY <1>4 DEF RecordFailure
  <1>5. ASSUME NEW a \in Attempt, Reset(a) PROVE Publication'
    BY <1>5 DEF Reset
  <1>6. CASE Sweep
    BY <1>6 DEF Sweep, SweepStart, SweepVisit, SweepLock, SweepDelete, SweepEnd
  <1>7. CASE Tick \/ UNCHANGED vars
    BY <1>7 DEF Tick, vars
  <1> QED  BY <1>1, <1>2, <1>3, <1>4, <1>5, <1>6, <1>7 DEF Next, Login

\* Pending attempts run, so there are no more of them than the bound lets in.
LEMMA PendingSize ==
    ASSUME Admission, NEW x, NEW S, S \subseteq InFlight
    PROVE  /\ IsFiniteSet(S)
           /\ Cardinality(S) \in Nat
           /\ Cardinality(S) <= MaxInFlight
           /\ x \in InFlight \ S => Cardinality(S) + 1 <= MaxInFlight
  <1>1. Cardinality(InFlight) \in Nat /\ Cardinality(InFlight) <= MaxInFlight
    BY FS_CardinalityType DEF Admission
  <1>2. IsFiniteSet(S) /\ Cardinality(S) <= Cardinality(InFlight)
    BY FS_Subset DEF Admission
  <1>3. Cardinality(S) \in Nat
    BY <1>2, FS_CardinalityType
  <1>4. ASSUME x \in InFlight \ S PROVE Cardinality(S) + 1 <= Cardinality(InFlight)
    <2>1. S \cup {x} \subseteq InFlight
      BY <1>4
    <2>2. Cardinality(S \cup {x}) <= Cardinality(InFlight)
      BY <2>1, FS_Subset DEF Admission
    <2> QED  BY <1>2, <1>4, <2>2, FS_AddElement
  <1> QED  BY <1>1, <1>2, <1>3, <1>4, LimiterAssumption

\* Pending attempts run.
LEMMA PendingRuns == \A x : Pending(x) \subseteq InFlight
  BY DEF Pending, InFlight, InFlightPc

\* A step that leaves record x alone and gives it no new pending attempt keeps it
\* below the ceiling.
LEMMA Undisturbed ==
    ASSUME Typed, Typed', Admission, NEW x \in Attempt, Bounded(x),
           Pending(x)' \subseteq Pending(x), count'[x] = count[x],
           windowStart'[x] = windowStart[x], now' >= now
    PROVE  Bounded(x)'
  <1>1. IsFiniteSet(Pending(x)) /\ Cardinality(Pending(x)) \in Nat
    BY PendingSize, PendingRuns
  <1>2. Cardinality(Pending(x)') <= Cardinality(Pending(x)) /\ IsFiniteSet(Pending(x)')
    BY <1>1, FS_Subset
  <1>3. Cardinality(Pending(x)') \in Nat
    BY <1>2, FS_CardinalityType
  <1>4. Expired(x) => Expired(x)'
    BY LimiterAssumption DEF Expired, Typed, TypeOK
  <1>5. Ceiling \in Nat /\ Ceiling' = Ceiling /\ count[x] \in Nat
    BY LimiterAssumption DEF Ceiling, Typed, TypeOK
  <1> QED  BY <1>1, <1>2, <1>3, <1>4, <1>5 DEF Bounded

\* IsBlocked lets an attempt pass only when the record it looked at is expired or
\* below the limit: with all running attempts pending, it stays below the ceiling.
LEMMA CheckBounded ==
    ASSUME OvershootInv, Typed', Admission', NEW a \in Attempt, Check(a), NEW x \in Attempt
    PROVE  Bounded(x)'
  <1> USE DEF OvershootInv
  <1>1. /\ pc[a] = "check" /\ pc' \in {[pc EXCEPT ![a] = "done"], [pc EXCEPT ![a] = "try"]}
        /\ UNCHANGED <<now, attempts, count, windowStart, key, rec>>
    BY DEF Check, GoTo, records
  <1>2. CASE Pending(x)' \subseteq Pending(x)
    BY <1>1, <1>2, Undisturbed DEF Typed, TypeOK
  <1>3. CASE ~(Pending(x)' \subseteq Pending(x))
    <2>1. pc'[a] = "try" /\ rec[a] = x
      BY <1>1, <1>3 DEF Pending, Typed, TypeOK
    <2>2. Expired(x) \/ count[x] <= MaxAttempts - 1
      BY <2>1, LimiterAssumption DEF Check, LimitReached, GoTo, Typed, TypeOK
    <2>3. Pending(x)' \subseteq InFlight'
      BY DEF Pending, InFlight, InFlightPc
    <2>4. InFlight' \subseteq InFlight
      BY <1>1 DEF InFlight, InFlightPc, Typed, TypeOK
    <2>5. Cardinality(Pending(x)') \in Nat /\ Cardinality(Pending(x)') <= MaxInFlight
      BY <2>3, <2>4, PendingSize
    <2>6. count'[x] = count[x] /\ count[x] \in Nat /\ (Expired(x) => Expired(x)')
          /\ Ceiling' = Ceiling /\ count[x] <= Ceiling
      BY <1>1 DEF Expired, Typed, TypeOK, Bounded, Ceiling
    <2> QED  BY <2>2, <2>5, <2>6, LimiterAssumption DEF Bounded, Ceiling
  <1> QED  BY <1>2, <1>3

\* A failure that is counted is not pending any more.
LEMMA RecordBounded ==
    ASSUME OvershootInv, Typed', NEW a \in Attempt, RecordFailure(a), NEW x \in Attempt
    PROVE  Bounded(x)'
  <1> USE DEF OvershootInv
  <1>1. /\ pc[a] = "recordFailure" /\ pc' = [pc EXCEPT ![a] = "done"]
        /\ UNCHANGED <<now, attempts, key, rec>>
    BY DEF RecordFailure, GoTo
  <1>2. CASE rec[a] # x
    <2>1. Pending(x)' \subseteq Pending(x)
      BY <1>1 DEF Pending, Typed, TypeOK
    <2>2. count'[x] = count[x] /\ windowStart'[x] = windowStart[x]
      BY <1>2 DEF RecordFailure, Typed, TypeOK
    <2> QED  BY <1>1, <2>1, <2>2, Undisturbed DEF Typed, TypeOK
  <1>3. CASE rec[a] = x
    <2>1. Pending(x)' = Pending(x) \ {a} /\ a \in Pending(x) /\ a \in InFlight
      BY <1>1, <1>3 DEF Pending, InFlight, InFlightPc, Typed, TypeOK
    <2>2. IsFiniteSet(Pending(x)) /\ Cardinality(Pending(x)) \in Nat
      BY PendingSize, PendingRuns
    <2>3. /\ Cardinality(Pending(x)') = Cardinality(Pending(x)) - 1
          /\ Cardinality(Pending(x)') \in Nat
      BY <2>1, <2>2, FS_RemoveElement, FS_CardinalityType
    <2>4. Cardinality(Pending(x)') + 1 <= MaxInFlight
      BY <2>2, <2>3, PendingSize, PendingRuns
    <2>5. CASE Expired(x)
      <3>1. count'[x] = 1
        BY <1>3, <2>5 DEF RecordFailure, Typed, TypeOK
      <3> QED  BY <2>3, <2>4, <3>1, LimiterAssumption DEF Bounded, Ceiling
    <2>6. CASE ~Expired(x)
      <3>1. count'[x] = count[x] + 1 /\ count[x] \in Nat
        BY <1>3, <2>6 DEF RecordFailure, Typed, TypeOK
      <3>2. count[x] + Cardinality(Pending(x)) <= Ceiling
        BY <2>6 DEF Bounded
      <3> QED  BY <2>2, <2>3, <3>1, <3>2, LimiterAssumption DEF Bounded, Ceiling
    <2> QED  BY <2>5, <2>6
  <1> QED  BY <1>2, <1>3

\* A new record starts empty, and a pending attempt that finds a record points to
\* the one it was pending for.
LEMMA StoreBounded ==
    ASSUME OvershootInv, Typed', NEW a \in Attempt, LoadOrStore(a), NEW x \in Attempt
    PROVE  Bounded(x)'
  <1> USE DEF OvershootInv
  <1>1. /\ pc[a] = "loadOrStore" /\ key[a] \in Key /\ UNCHANGED <<now, key, count>>
        /\ pc' = [pc EXCEPT ![a] = "recordFailure"]
    BY DEF LoadOrStore, GoTo, Typed, TypeOK, Keyed, InFlightPc, records
  <1>2. CASE attempts[key[a]] # None
    <2>1. attempts' = attempts /\ windowStart' = windowStart
          /\ rec' = [rec EXCEPT ![a] = attempts[key[a]]]
      BY <1>2 DEF LoadOrStore, records
    <2>2. Pending(x)' \subseteq Pending(x)
      BY <1>1, <2>1 DEF Pending, Typed, TypeOK
    <2> QED  BY <1>1, <2>1, <2>2, Undisturbed DEF Typed, TypeOK
  <1>3. CASE attempts[key[a]] = None
    <2>1. /\ rec' = [rec EXCEPT ![a] = a]
          /\ attempts' = [attempts EXCEPT ![key[a]] = a]
          /\ windowStart' = [windowStart EXCEPT ![a] = now]
      BY <1>3 DEF LoadOrStore
    <2>2. CASE x # a
      <3>1. Pending(x)' \subseteq Pending(x)
        BY <1>1, <2>1, <2>2 DEF Pending, Typed, TypeOK, Keyed, InFlightPc
      <3> QED  BY <1>1, <2>1, <2>2, <3>1, Undisturbed DEF Typed, TypeOK
    <2>3. CASE x = a
      <3>1. count'[x] = 0
        BY <1>1, <2>3 DEF Publication, Published
      <3>2. Pending(x)' \subseteq InFlight
        BY <1>1 DEF Pending, InFlight, InFlightPc, Typed, TypeOK
      <3>3. Cardinality(Pending(x)') \in Nat /\ Cardinality(Pending(x)') <= MaxInFlight
        BY <3>2, PendingSize
      <3> QED  BY <3>1, <3>3, LimiterAssumption DEF Bounded, Ceiling
    <2> QED  BY <2>2, <2>3
  <1> QED  BY <1>2, <1>3

\* Every step keeps every record below the ceiling.
LEMMA OvershootStep == OvershootInv /\ [Next]_vars => OvershootInv'
  <1> SUFFICES ASSUME OvershootInv, [Next]_vars PROVE OvershootInv'
    OBVIOUS
  <1>1. Typed' /\ Publication' /\ Admission'
    BY TypeStep, PublicationStep, AdmissionStep DEF OvershootInv
  <1> SUFFICES ASSUME NEW x \in Attempt PROVE Bounded(x)'
    BY <1>1 DEF OvershootInv
  <1> USE DEF OvershootInv
  <1>2. ASSUME UNCHANGED <<count, windowStart>>, now' >= now, Pending(x)' \subseteq Pending(x)
        PROVE  Bounded(x)'
    BY <1>1, <1>2, Undisturbed
  <1>3. ASSUME NEW a \in Attempt, LoadForCheck(a) PROVE Bounded(x)'
    <2>1. Pending(x)' \subseteq Pending(x)
      BY <1>3, LimiterAssumption DEF LoadForCheck, GoTo, Pending, Typed, TypeOK
    <2> QED  BY <1>2, <1>3, <2>1 DEF LoadForCheck, records, Typed, TypeOK
  <1>4. ASSUME NEW a \in Attempt, Check(a) PROVE Bounded(x)'
    BY <1>1, <1>4, CheckBounded
  <1>5. ASSUME NEW a \in Attempt, Try(a) PROVE Bounded(x)'
    <2>1. Pending(x)' \subseteq Pending(x)
      BY <1>5 DEF Try, GoTo, Pending, Typed, TypeOK
    <2> QED  BY <1>2, <1>5, <2>1 DEF Try, records, Typed, TypeOK
  <1>6. ASSUME NEW a \in Attempt, LoadOrStore(a) PROVE Bounded(x)'
    BY <1>1, <1>6, StoreBounded
  <1>7. ASSUME NEW a \in Attempt, RecordFailure(a) PROVE Bounded(x)'
    BY <1>1, <1>7, RecordBounded
  <1>8. ASSUME NEW a \in Attempt, Reset(a) PROVE Bounded(x)'
    <2>1. \A k \in Key : attempts'[k] = x => attempts[k] = x
      BY <1>8, LimiterAssumption DEF Reset, Typed, TypeOK
    <2>2. UNCHANGED <<key, rec>> /\ pc' = [pc EXCEPT ![a] = "done"]
      BY <1>8 DEF Reset, GoTo
    <2>3. Pending(x)' \subseteq Pending(x)
      BY <2>1, <2>2 DEF Pending, Typed, TypeOK, Keyed, InFlightPc
    <2> QED  BY <1>2, <1>8, <2>3 DEF Reset, records, Typed, TypeOK
  <1>9. CASE Sweep
    <2>1. /\ UNCHANGED <<now, count, windowStart, pc, key, rec>>
          /\ \A k \in Key : attempts'[k] \in {attempts[k], None}
      BY <1>9 DEF Sweep, SweepStart, SweepVisit, SweepLock, SweepDelete, SweepEnd, records,
                  Typed, TypeOK
    <2>2. Pending(x)' \subseteq Pending(x)
      BY <2>1, LimiterAssumption DEF Pending, Typed, TypeOK, Keyed, InFlightPc
    <2> QED  BY <1>2, <2>1, <2>2 DEF Typed, TypeOK
  <1>10. CASE Tick \/ UNCHANGED vars
    <2>1. UNCHANGED <<count, windowStart, pc, key, rec, attempts>> /\ now' >= now
      BY <1>10 DEF Tick, vars, records, Typed, TypeOK
    <2>2. Pending(x)' = Pending(x)
      BY <2>1 DEF Pending
    <2> QED  BY <1>2, <2>1, <2>2
  <1> QED  BY <1>3, <1>4, <1>5, <1>6, <1>7, <1>8, <1>9, <1>10 DEF Next, Login

\* Nothing is pending in the beginning.
LEMMA OvershootInit == Init => OvershootInv
  <1> SUFFICES ASSUME Init PROVE OvershootInv
    OBVIOUS
  <1>1. InFlight = {} /\ \A x \in Attempt : Pending(x) = {}
    BY DEF Init, InFlight, InFlightPc, Pending
  <1>2. Admission
    BY <1>1, FS_EmptySet, LimiterAssumption DEF Admission
  <1>3. \A x \in Attempt : Bounded(x)
    <2> SUFFICES ASSUME NEW x \in Attempt PROVE Bounded(x)
      OBVIOUS
    <2>1. Cardinality(Pending(x)) = 0
      BY <1>1, FS_EmptySet
    <2>2. count[x] = 0
      BY DEF Init
    <2> QED  BY <2>1, <2>2, LimiterAssumption DEF Bounded, Ceiling
  <1>4. Publication
    BY DEF Init, Publication
  <1> QED  BY <1>2, <1>3, <1>4, TypeInit DEF OvershootInv

\* The guard of the limit is overshot by less than the number of attempts in
\* flight: a record never counts MaxAttempts + MaxInFlight failures, although
\* IsBlocked and RecordFailure are separate critical sections and the sweeper and
\* Reset take records out of the map at any time.
THEOREM OvershootHolds == Spec => []OvershootBounded
  <1>1. OvershootInv => OvershootBounded
    BY LimiterAssumption DEF OvershootInv, Bounded, Ceiling, OvershootBounded, Typed, TypeOK
  <1> QED  BY <1>1, OvershootInit, OvershootStep, PTL DEF Spec

-----------------------------------------------------------------------------
(* The evidence behind a refusal.                                          *)

\* The failures that record x has counted in its window.
Evidence(x) == {b \in Attempt : rec[b] = x /\ failedAt[b] # None /\ windowStart[x] <= failedAt[b]}

\* The failures that lie within the last window of key[a] when a was turned away.
Grounds(a) == {b \in Attempt : /\ key[b] = key[a]
                               /\ failedAt[b] # None
                               /\ failedAt[b] <= blockedAt[a]
                               /\ blockedAt[a] - failedAt[b] <= Window}

\* An attempt fails or is turned away at its end, and nothing happens in the future.
Ended ==
    /\ \A a \in Attempt : failedAt[a] # None => pc[a] = "done" /\ rec[a] # None /\ failedAt[a] <= now
    /\ \A a \in Attempt : blockedAt[a] # None => pc[a] = "done"
    /\ \A x \in Attempt : windowStart[x] <= now
    /\ IsFiniteSet({a \in Attempt : failedAt[a] # None})

\* A record serves one key: that of the attempt that published it.
OneKey ==
    /\ \A k \in Key : attempts[k] # None => key[attempts[k]] = k
    /\ \A a \in Attempt : rec[a] # None => key[rec[a]] = key[a]

Counted == \A x \in Attempt : count[x] <= Cardinality(Evidence(x))

EvidenceInv == OvershootInv /\ Ended /\ OneKey /\ Counted /\ BlockedOnEvidence

\* What an attempt that has ended leaves behind does not change any more.
LEMMA EndedFrozen ==
    ASSUME EvidenceInv, [Next]_vars, NEW b \in Attempt, pc[b] = "done"
    PROVE  /\ pc'[b] = "done" /\ key'[b] = key[b] /\ rec'[b] = rec[b]
           /\ failedAt'[b] = failedAt[b] /\ blockedAt'[b] = blockedAt[b]
  <1> USE DEF EvidenceInv, OvershootInv, Typed, TypeOK, GoTo, history
  <1>1. ASSUME NEW a \in Attempt, Login(a)
        PROVE  /\ pc'[b] = "done" /\ key'[b] = key[b] /\ rec'[b] = rec[b]
               /\ failedAt'[b] = failedAt[b] /\ blockedAt'[b] = blockedAt[b]
    BY <1>1 DEF Login, LoadForCheck, Check, Try, LoadOrStore, RecordFailure, Reset
  <1>2. CASE Sweep \/ Tick \/ UNCHANGED vars
    BY <1>2 DEF Sweep, SweepStart, SweepVisit, SweepLock, SweepDelete, SweepEnd, Tick, vars
  <1> QED  BY <1>1, <1>2 DEF Next

\* A step of an attempt starts windows only now.
LEMMA WindowStarts ==
    ASSUME TypeOK, NEW a \in Attempt, RecordFailure(a) \/ LoadOrStore(a)
    PROVE  now' = now /\ \A x \in Attempt : windowStart'[x] \in {windowStart[x], now}
  <1>1. CASE RecordFailure(a)
    <2>1. windowStart' = windowStart \/ windowStart' = [windowStart EXCEPT ![rec[a]] = now]
      BY <1>1 DEF RecordFailure
    <2> QED  BY <1>1, <2>1 DEF RecordFailure, TypeOK
  <1>2. CASE LoadOrStore(a)
    <2>1. windowStart' = windowStart \/ windowStart' = [windowStart EXCEPT ![a] = now]
      BY <1>2 DEF LoadOrStore, records
    <2> QED  BY <1>2, <2>1 DEF LoadOrStore, TypeOK
  <1> QED  BY <1>1, <1>2

\* Each failure and each refusal is dated at the step that ends its attempt.
LEMMA EndedStep == EvidenceInv /\ [Next]_vars => Ended'
  <1> SUFFICES ASSUME EvidenceInv, [Next]_vars PROVE Ended'
    OBVIOUS
  <1> USE DEF EvidenceInv, OvershootInv, Typed, TypeOK, GoTo, history, records, Ended
  <1>1. ASSUME NEW a \in Attempt, RecordFailure(a) PROVE Ended'
    <2>1. {b \in Attempt : failedAt'[b] # None} \subseteq {b \in Attempt : failedAt[b] # None} \cup {a}
      BY <1>1 DEF RecordFailure
    <2>2. IsFiniteSet({b \in Attempt : failedAt[b] # None} \cup {a})
      BY FS_AddElement
    <2>3. IsFiniteSet({b \in Attempt : failedAt'[b] # None})
      BY <2>1, <2>2, FS_Subset
    <2>4. \A b \in Attempt : failedAt'[b] # None =>
             pc'[b] = "done" /\ rec'[b] # None /\ failedAt'[b] <= now'
      BY <1>1 DEF RecordFailure
    <2>5. \A x \in Attempt : windowStart'[x] <= now'
      <3>1. now' = now /\ \A x \in Attempt : windowStart'[x] \in {windowStart[x], now}
        BY <1>1, WindowStarts
      <3> QED  BY <3>1
    <2>6. \A b \in Attempt : blockedAt'[b] # None => pc'[b] = "done"
      BY <1>1 DEF RecordFailure
    <2> QED  BY <2>3, <2>4, <2>5, <2>6
  <1>2. ASSUME NEW a \in Attempt, Check(a) PROVE Ended'
    BY <1>2 DEF Check
  <1>3. ASSUME UNCHANGED history, \A x \in Attempt : windowStart'[x] <= now' /\ now <= now'
        PROVE  Ended'
    <2>1. IsFiniteSet({b \in Attempt : failedAt'[b] # None})
      BY <1>3
    <2>2. \A b \in Attempt : failedAt'[b] # None =>
             pc'[b] = "done" /\ rec'[b] # None /\ failedAt'[b] <= now'
      <3> SUFFICES ASSUME NEW b \in Attempt, failedAt[b] # None
                   PROVE  pc'[b] = "done" /\ rec'[b] # None /\ failedAt[b] <= now'
        BY <1>3
      <3>1. pc[b] = "done" /\ rec[b] # None /\ failedAt[b] <= now /\ failedAt[b] \in Nat
        OBVIOUS
      <3>2. now \in Nat /\ now' \in Nat /\ now <= now'
        BY <1>3, TypeStep
      <3> QED  BY <3>1, <3>2, EndedFrozen
    <2>3. \A b \in Attempt : blockedAt'[b] # None => pc'[b] = "done"
      BY <1>3, EndedFrozen
    <2> QED  BY <1>3, <2>1, <2>2, <2>3
  <1>4. ASSUME NEW a \in Attempt, LoadForCheck(a) \/ Try(a) \/ Reset(a) PROVE Ended'
    BY <1>3, <1>4 DEF LoadForCheck, Try, Reset
  <1>5. ASSUME NEW a \in Attempt, LoadOrStore(a) PROVE Ended'
    <2>1. UNCHANGED history /\ now' = now
      BY <1>5 DEF LoadOrStore
    <2>2. \A x \in Attempt : windowStart'[x] <= now'
      BY <1>5, <2>1, WindowStarts
    <2> QED  BY <1>3, <2>1, <2>2
  <1>6. CASE Sweep \/ Tick \/ UNCHANGED vars
    <2>1. UNCHANGED <<history, windowStart>> /\ now' \in {now, now + 1}
      BY <1>6 DEF Sweep, SweepStart, SweepVisit, SweepLock, SweepDelete, SweepEnd, Tick, vars
    <2> QED  BY <1>3, <2>1
  <1> QED  BY <1>1, <1>2, <1>3, <1>4, <1>5, <1>6 DEF Next, Login

\* No step gives a record to a second key: a published record's attempt is past
\* the choice of its key.
LEMMA OneKeyStep == EvidenceInv /\ [Next]_vars => OneKey'
  <1> SUFFICES ASSUME EvidenceInv, [Next]_vars PROVE OneKey'
    OBVIOUS
  <1> USE LimiterAssumption DEF EvidenceInv, OvershootInv, Typed, TypeOK, GoTo, history, records,
                                OneKey, Publication, Published, Keyed, InFlightPc
  <1>1. ASSUME NEW a \in Attempt, LoadForCheck(a) PROVE OneKey'
    BY <1>1 DEF LoadForCheck
  <1>2. ASSUME NEW a \in Attempt, Check(a) \/ Try(a) \/ RecordFailure(a) PROVE OneKey'
    BY <1>2 DEF Check, Try, RecordFailure
  <1>3. ASSUME NEW a \in Attempt, LoadOrStore(a) PROVE OneKey'
    BY <1>3 DEF LoadOrStore
  <1>4. ASSUME NEW a \in Attempt, Reset(a) PROVE OneKey'
    BY <1>4 DEF Reset
  <1>5. CASE Sweep
    BY <1>5 DEF Sweep, SweepStart, SweepVisit, SweepLock, SweepDelete, SweepEnd
  <1>6. CASE Tick \/ UNCHANGED vars
    BY <1>6 DEF Tick, vars
  <1> QED  BY <1>1, <1>2, <1>3, <1>4, <1>5, <1>6 DEF Next, Login

\* The failures form a finite set, and so does every part of it.
LEMMA FailuresFinite ==
    ASSUME Ended, NEW S, S \subseteq {a \in Attempt : failedAt[a] # None}
    PROVE  IsFiniteSet(S) /\ Cardinality(S) \in Nat
  BY FS_Subset, FS_CardinalityType DEF Ended

\* The count of a record whose failures all stay and whose window stays is backed.
LEMMA CountedKept ==
    ASSUME EvidenceInv, Typed', Ended', [Next]_vars, NEW x \in Attempt,
           count'[x] = count[x], windowStart'[x] = windowStart[x]
    PROVE  count'[x] <= Cardinality(Evidence(x)')
  <1>1. Evidence(x) \subseteq Evidence(x)'
    BY EndedFrozen DEF Evidence, EvidenceInv, Ended
  <1>2. IsFiniteSet(Evidence(x)') /\ Cardinality(Evidence(x)') \in Nat
    <2>1. IsFiniteSet({a \in Attempt : failedAt'[a] # None})
      BY DEF Ended
    <2>2. Evidence(x)' \subseteq {a \in Attempt : failedAt'[a] # None}
      BY DEF Evidence
    <2> QED  BY <2>1, <2>2, FS_Subset, FS_CardinalityType
  <1>3. Cardinality(Evidence(x)) <= Cardinality(Evidence(x)')
        /\ Cardinality(Evidence(x)) \in Nat
    BY <1>1, <1>2, FS_Subset, FS_CardinalityType
  <1> QED  BY <1>2, <1>3 DEF EvidenceInv, Counted, OvershootInv, Typed, TypeOK

\* RecordFailure adds the failure to what backs the count: the attempt had not
\* failed before.
LEMMA CountedStep == EvidenceInv /\ Typed' /\ Ended' /\ [Next]_vars => Counted'
  <1> SUFFICES ASSUME EvidenceInv, Typed', Ended', [Next]_vars, NEW x \in Attempt
               PROVE  count'[x] <= Cardinality(Evidence(x)')
    BY DEF Counted
  <1>t. TypeOK /\ TypeOK' /\ Publication /\ Ended
    BY DEF EvidenceInv, OvershootInv, Typed
  <1>1. CASE count'[x] = count[x] /\ windowStart'[x] = windowStart[x]
    BY <1>1, CountedKept
  <1>2. ASSUME NEW a \in Attempt, LoadOrStore(a), windowStart'[x] # windowStart[x]
        PROVE  count'[x] <= Cardinality(Evidence(x)')
    <2>1. count'[x] = 0
      <3>1. pc[a] = "loadOrStore" /\ count' = count
            /\ (windowStart' = windowStart \/ windowStart' = [windowStart EXCEPT ![a] = now])
        BY <1>2 DEF LoadOrStore, records
      <3>2. x = a
        BY <1>2, <1>t, <3>1 DEF TypeOK
      <3> QED  BY <1>t, <3>1, <3>2 DEF Publication, Published
    <2>2. Evidence(x)' \subseteq {b \in Attempt : failedAt'[b] # None}
      BY DEF Evidence
    <2>3. IsFiniteSet({b \in Attempt : failedAt'[b] # None})
      BY DEF Ended
    <2>4. Cardinality(Evidence(x)') \in Nat
      BY <2>2, <2>3, FS_Subset, FS_CardinalityType
    <2> QED  BY <2>1, <2>4
  <1>3. ASSUME NEW a \in Attempt, RecordFailure(a), rec[a] = x
        PROVE  count'[x] <= Cardinality(Evidence(x)')
    <2>1. /\ pc[a] = "recordFailure" /\ failedAt[a] = None /\ rec' = rec
          /\ failedAt' = [failedAt EXCEPT ![a] = now]
      BY <1>3, <1>t DEF RecordFailure, Ended
    <2>2. a \in Evidence(x)'
      BY <1>3, <1>t, <2>1, LimiterAssumption DEF Evidence, RecordFailure, TypeOK, Ended
    <2>3. IsFiniteSet(Evidence(x)')
      <3>1. IsFiniteSet({b \in Attempt : failedAt'[b] # None})
        BY DEF Ended
      <3>2. Evidence(x)' \subseteq {b \in Attempt : failedAt'[b] # None}
        BY DEF Evidence
      <3> QED  BY <3>1, <3>2, FS_Subset
    <2>4. CASE Expired(x)
      <3>1. count'[x] = 1
        BY <1>3, <1>t, <2>4 DEF RecordFailure, TypeOK
      <3>2. Cardinality({a}) = 1 /\ {a} \subseteq Evidence(x)'
        BY <2>2, FS_Singleton
      <3>3. Cardinality({a}) <= Cardinality(Evidence(x)')
        BY <2>3, <3>2, FS_Subset
      <3> QED  BY <3>1, <3>2, <3>3
    <2>5. CASE ~Expired(x)
      <3>1. count'[x] = count[x] + 1 /\ count[x] \in Nat /\ windowStart'[x] = windowStart[x]
        BY <1>3, <1>t, <2>5 DEF RecordFailure, TypeOK
      <3>2. Evidence(x) \cup {a} \subseteq Evidence(x)'
        BY <1>t, <2>1, <2>2, <3>1 DEF Evidence, TypeOK
      <3>3. a \notin Evidence(x) /\ IsFiniteSet(Evidence(x)) /\ Cardinality(Evidence(x)) \in Nat
        <4>1. Evidence(x) \subseteq {b \in Attempt : failedAt[b] # None}
          BY DEF Evidence
        <4> QED  BY <1>t, <2>1, <4>1, FailuresFinite DEF Evidence
      <3>4. Cardinality(Evidence(x) \cup {a}) = Cardinality(Evidence(x)) + 1
        BY <3>3, FS_AddElement
      <3>5. Cardinality(Evidence(x) \cup {a}) <= Cardinality(Evidence(x)')
        BY <2>3, <3>2, FS_Subset
      <3>6. count[x] <= Cardinality(Evidence(x)) /\ Cardinality(Evidence(x)') \in Nat
        BY <2>3, FS_CardinalityType DEF EvidenceInv, Counted
      <3> QED  BY <3>1, <3>3, <3>4, <3>5, <3>6
    <2> QED  BY <2>4, <2>5
  <1>4. ASSUME NEW a \in Attempt, Login(a)
        PROVE  \/ count'[x] = count[x] /\ windowStart'[x] = windowStart[x]
               \/ LoadOrStore(a) /\ windowStart'[x] # windowStart[x]
               \/ RecordFailure(a) /\ rec[a] = x
    BY <1>4, <1>t DEF Login, LoadForCheck, Check, Try, LoadOrStore, RecordFailure, Reset, records,
                      TypeOK
  <1>5. CASE Sweep \/ Tick \/ UNCHANGED vars
    BY <1>1, <1>5 DEF Sweep, SweepStart, SweepVisit, SweepLock, SweepDelete, SweepEnd, Tick, vars,
                      records
  <1> QED  BY <1>1, <1>2, <1>3, <1>4, <1>5 DEF Next

\* A refusal rests on the failures of the record it looked at, and later failures
\* only add to its grounds.
LEMMA BlockedStep == EvidenceInv /\ Typed' /\ Ended' /\ [Next]_vars => BlockedOnEvidence'
  <1> SUFFICES ASSUME EvidenceInv, Typed', Ended', [Next]_vars, NEW a \in Attempt,
                      blockedAt'[a] # None
               PROVE  MaxAttempts <= Cardinality(Grounds(a)')
    BY DEF BlockedOnEvidence, Grounds
  <1>t. TypeOK /\ TypeOK' /\ Ended /\ OneKey /\ Counted
    BY DEF EvidenceInv, OvershootInv, Typed
  <1>1. IsFiniteSet(Grounds(a)') /\ Cardinality(Grounds(a)') \in Nat
    <2>1. IsFiniteSet({b \in Attempt : failedAt'[b] # None})
      BY DEF Ended
    <2>2. Grounds(a)' \subseteq {b \in Attempt : failedAt'[b] # None}
      BY DEF Grounds
    <2> QED  BY <2>1, <2>2, FS_Subset, FS_CardinalityType
  <1>2. CASE blockedAt[a] # None
    <2>1. key'[a] = key[a] /\ blockedAt'[a] = blockedAt[a]
      BY <1>2, <1>t, EndedFrozen DEF Ended
    <2>2. Grounds(a) \subseteq Grounds(a)'
      BY <1>t, <2>1, EndedFrozen DEF Ended, Grounds
    <2>3. MaxAttempts <= Cardinality(Grounds(a))
      BY <1>2 DEF EvidenceInv, BlockedOnEvidence, Grounds
    <2>4. Cardinality(Grounds(a)) <= Cardinality(Grounds(a)') /\ Cardinality(Grounds(a)) \in Nat
      BY <1>1, <2>2, FS_Subset, FS_CardinalityType
    <2> QED  BY <1>1, <2>3, <2>4, LimiterAssumption
  <1>3. CASE blockedAt[a] = None
    <2> DEFINE x == rec[a]
    <2>1. Check(a)
      <3>1. ASSUME NEW b \in Attempt, Login(b), b # a \/ ~Check(a) PROVE blockedAt'[a] = blockedAt[a]
        BY <3>1, <1>t DEF Login, LoadForCheck, Check, Try, LoadOrStore, RecordFailure, Reset,
                          history, TypeOK
      <3>2. CASE Sweep \/ Tick \/ UNCHANGED vars
        BY <1>3, <3>2 DEF Sweep, SweepStart, SweepVisit, SweepLock, SweepDelete, SweepEnd, Tick,
                          vars, history
      <3> QED  BY <1>3, <3>1, <3>2 DEF Next
    <2>2. /\ LimitReached(x) /\ blockedAt'[a] = now /\ x \in Attempt
          /\ UNCHANGED <<key, failedAt, now>>
      BY <1>3, <1>t, <2>1 DEF Check, TypeOK, records
    <2>3. count[x] >= MaxAttempts /\ now - windowStart[x] <= Window
      BY <1>t, <2>2, LimiterAssumption DEF LimitReached, Expired, TypeOK
    <2>4. Evidence(x) \subseteq Grounds(a)'
      <3> SUFFICES ASSUME NEW b \in Evidence(x) PROVE b \in Grounds(a)'
        OBVIOUS
      <3>1. b \in Attempt /\ rec[b] = x /\ failedAt[b] \in Nat /\ windowStart[x] <= failedAt[b]
        BY <1>t DEF Evidence, TypeOK
      <3>2. key[b] = key[a]
        BY <1>t, <2>2, <3>1, LimiterAssumption DEF OneKey
      <3>3. failedAt[b] <= now
        BY <1>t, <3>1, LimiterAssumption DEF Ended
      <3>4. now - failedAt[b] <= Window
        BY <1>t, <2>2, <2>3, <3>1, LimiterAssumption DEF TypeOK
      <3> QED  BY <2>2, <3>1, <3>2, <3>3, <3>4, LimiterAssumption DEF Grounds
    <2>5. Cardinality(Evidence(x)) <= Cardinality(Grounds(a)') /\ Cardinality(Evidence(x)) \in Nat
      BY <1>1, <2>4, FS_Subset, FS_CardinalityType
    <2>6. count[x] <= Cardinality(Evidence(x)) /\ count[x] \in Nat
      BY <1>t, <2>2 DEF Counted, TypeOK
    <2> QED  BY <1>1, <2>3, <2>5, <2>6, LimiterAssumption
  <1> QED  BY <1>2, <1>3

\* Every step keeps the evidence.
LEMMA EvidenceStep == EvidenceInv /\ [Next]_vars => EvidenceInv'
  <1> SUFFICES ASSUME EvidenceInv, [Next]_vars PROVE EvidenceInv'
    OBVIOUS
  <1>1. OvershootInv'
    BY OvershootStep DEF EvidenceInv
  <1>2. Typed'
    BY <1>1 DEF OvershootInv
  <1>3. Ended' /\ OneKey'
    BY EndedStep, OneKeyStep
  <1> QED  BY <1>1, <1>2, <1>3, CountedStep, BlockedStep DEF EvidenceInv

\* Whatever attempts, sweeps and resets interleave, an attempt is turned away only
\* for at least MaxAttempts failures of its own key within the last window.
THEOREM BlockedOnEvidenceHolds == Spec => []BlockedOnEvidence
  <1>1. Init => EvidenceInv
    <2> SUFFICES ASSUME Init PROVE EvidenceInv
      OBVIOUS
    <2>1. OvershootInv
      BY OvershootInit
    <2>2. {a \in Attempt : failedAt[a] # None} = {}
      BY DEF Init
    <2>3. \A a \in Attempt : blockedAt[a] = None /\ failedAt[a] = None /\ rec[a] = None
      BY DEF Init
    <2>4. \A k \in Key : attempts[k] = None
      BY DEF Init
    <2>5. now = 0 /\ \A x \in Attempt : windowStart[x] = 0 /\ count[x] = 0
      BY DEF Init
    <2>6. Ended
      BY <2>2, <2>3, <2>5, FS_EmptySet DEF Ended
    <2>7. Counted
      <3> SUFFICES ASSUME NEW x \in Attempt PROVE count[x] <= Cardinality(Evidence(x))
        BY DEF Counted
      <3>1. Evidence(x) = {}
        BY <2>3 DEF Evidence
      <3> QED  BY <2>5, <3>1, FS_EmptySet
    <2> QED  BY <2>1, <2>3, <2>4, <2>6, <2>7 DEF EvidenceInv, OneKey, BlockedOnEvidence
  <1>2. EvidenceInv => BlockedOnEvidence
    BY DEF EvidenceInv
  <1> QED  BY <1>1, <1>2, EvidenceStep, PTL DEF Spec
=============================================================================
