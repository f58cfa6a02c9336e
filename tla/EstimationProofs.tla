--------------------------- MODULE EstimationProofs ---------------------------
(* Theorems about Estimation, for any currencies of the table, bodies and     *)
(* dates: the types; an estimation never ends before it starts; a page that   *)
(* is sent back as it is shown is shown again as it was; every place works    *)
(* out one price; figures add up in every currency; and stored amounts stay   *)
(* within four cents of what was typed.                                       *)
EXTENDS Estimation, FiniteSetTheorems, SequenceTheorems, TLAPS

-----------------------------------------------------------------------------
(* Rounding.                                                               *)

\* A rounding is a whole number at most half a unit away.
LEMMA RoundedNear ==
    ASSUME NEW n \in Int, NEW d \in Nat \ {0}, NEW k \in Int
    PROVE  k \in Rounded(n, d) <=> 2 * (n - k * d) \in -d..d
  BY DEF Rounded

LEMMA RoundedNat ==
    ASSUME NEW n \in Nat, NEW d \in Nat \ {0}
    PROVE  Rounded(n, d) \subseteq Nat
  BY DEF Rounded

LEMMA RateType ==
    ASSUME NEW c \in Currency
    PROVE  ExchangeRates[c] \in Nat \ {0}
  <1>1. c \in DOMAIN ExchangeRates
    BY EstimationAssumption
  <1> QED  BY <1>1 DEF ExchangeRates

LEMMA ConversionsNat ==
    ASSUME NEW amount \in Nat, NEW c \in Currency
    PROVE  Convert(amount, c) \subseteq Nat /\ ConvertToBaseUSD(amount, c) \subseteq Nat
  <1> DEFINE R == ExchangeRates[c]
  <1>1. R \in Nat \ {0}
    BY RateType
  <1> HIDE DEF R
  <1>2. amount * R \in Nat /\ amount * 100 \in Nat
    BY <1>1
  <1>3. Rounded(amount * R, 100) \subseteq Nat /\ Rounded(amount * 100, R) \subseteq Nat
    BY <1>1, <1>2, RoundedNat
  <1> QED  BY <1>3 DEF Convert, ConvertToBaseUSD, R

\* What a page may show.
Displayed(a, c) == a \in Nat /\ \E k \in Nat : a \in Convert(k, c)

\* An amount that a page shows comes back as it was: the stored one converts to it.  Below
\* the dollar the stored one is near enough; above it, it is the one that was shown.
LEMMA RoundTrip ==
    ASSUME NEW c \in Currency, NEW a, Displayed(a, c), NEW s \in ConvertToBaseUSD(a, c)
    PROVE  s \in Nat /\ a \in Convert(s, c)
  <1> DEFINE R == ExchangeRates[c]
  <1>0. R \in Nat \ {0} /\ a \in Nat
    BY RateType DEF Displayed
  <1>1. s \in Nat
    BY <1>0, ConversionsNat
  <1>2. PICK k \in Nat : a \in Convert(k, c)
    BY DEF Displayed
  <1> HIDE DEF R
  <1>3. k * R \in Nat /\ s * R \in Nat /\ a * 100 \in Nat
    BY <1>0, <1>1
  <1>4. 2 * (k * R - a * 100) \in -100..100
    <2>1. a \in Rounded(k * R, 100)
      BY <1>2 DEF Convert, R
    <2> QED  BY <1>0, <1>3, <2>1 DEF Rounded
  <1>5. 2 * (a * 100 - s * R) \in -R..R
    BY <1>0, <1>1, <1>3, RoundedNear DEF ConvertToBaseUSD, R
  <1>6. 2 * (s * R - a * 100) \in -100..100
    <2>1. CASE R <= 100
      BY <1>0, <1>3, <1>5, <2>1
    <2>2. CASE R > 100
      <3>1. s = k
        <4>1. (k - s) * R = k * R - s * R
          BY <1>0, <1>1
        <4>2. (k - s) * R < R /\ (k - s) * R > -R
          BY <1>0, <1>3, <1>4, <1>5, <2>2, <4>1
        <4> QED  BY <1>0, <1>1, <4>2
      <3> QED  BY <1>4, <3>1
    <2> QED  BY <1>0, <2>1, <2>2
  <1>7. a \in Rounded(s * R, 100)
    <2>1. 2 * (s * R - a * 100) \in -100..100 <=> a \in Rounded(s * R, 100)
      <3> DEFINE n == s * R
      <3>1. n \in Int /\ a \in Int /\ 100 \in Nat \ {0}
        BY <1>0, <1>3
      <3> HIDE DEF n
      <3>2. a \in Rounded(n, 100) <=> 2 * (n - a * 100) \in -100..100
        BY <3>1, RoundedNear
      <3> QED  BY <3>2 DEF n
    <2> QED  BY <1>6, <2>1
  <1> QED  BY <1>1, <1>7 DEF Convert, R

-----------------------------------------------------------------------------
(* Sums.                                                                   *)

\* A set of subsets of a finite set has one that none of the others is a part of.
LEMMA Smallest ==
    ASSUME NEW D, IsFiniteSet(D), NEW T, T \subseteq SUBSET D, T # {}
    PROVE  \E s \in T : \A u \in T : u \subseteq s => u = s
  <1>1. T \subseteq FiniteSubsetsOf(D)
    BY FS_Subset DEF FiniteSubsetsOf
  <1>2. PICK s \in T : \A u \in T : <<u, s>> \notin StrictSubsetOrdering(D)
    <2> DEFINE R == StrictSubsetOrdering(D)
               S == FiniteSubsetsOf(D)
    <2>1. IsWellFoundedOn(R, S)
      BY FS_StrictSubsetOrderingWellFounded
    <2> HIDE DEF R, S
    <2>2. \E s \in T : \A u \in T : ~ (<<u, s>> \in R)
      BY <1>1, <2>1, WFMin DEF S
    <2> QED  BY <2>2 DEF R
  <1> QED  BY <1>2 DEF StrictSubsetOrdering

Pick(s) == CHOOSE i \in s : TRUE

LEMMA PickIn ==
    ASSUME NEW s, s # {}
    PROVE  Pick(s) \in s
  BY DEF Pick

\* The sums of f over the subsets of D, added up as SumFunction does.
Adds(g, f, D) ==
    g = [s \in SUBSET D |-> IF s = {} THEN 0 ELSE f[Pick(s)] + g[s \ {Pick(s)}]]

LEMMA AddsAgree ==
    ASSUME NEW f, NEW D, IsFiniteSet(D), NEW E, E \subseteq D,
           NEW g, Adds(g, f, D), NEW h, Adds(h, f, E)
    PROVE  \A s \in SUBSET E : g[s] = h[s]
  <1> DEFINE T == {s \in SUBSET E : g[s] # h[s]}
  <1> SUFFICES ASSUME T # {} PROVE FALSE
    OBVIOUS
  <1>1. IsFiniteSet(E) /\ T \subseteq SUBSET E
    BY FS_Subset
  <1> HIDE DEF T
  <1>2. PICK s \in T : \A u \in T : u \subseteq s => u = s
    BY <1>1, Smallest
  <1> USE DEF T
  <1>3. s \in SUBSET E /\ s \in SUBSET D /\ g[s] # h[s]
    OBVIOUS
  <1>4. /\ g[s] = IF s = {} THEN 0 ELSE f[Pick(s)] + g[s \ {Pick(s)}]
        /\ h[s] = IF s = {} THEN 0 ELSE f[Pick(s)] + h[s \ {Pick(s)}]
    BY <1>3 DEF Adds
  <1>5. s # {} => s \ {Pick(s)} # s
    BY PickIn
  <1>6. s # {} => g[s \ {Pick(s)}] = h[s \ {Pick(s)}]
    BY <1>2, <1>3, <1>5
  <1> QED  BY <1>3, <1>4, <1>6

LEMMA AddsExist ==
    ASSUME NEW D, IsFiniteSet(D), NEW f
    PROVE  \E g : Adds(g, f, D)
  <1> DEFINE T == {s \in SUBSET D : ~\E g : Adds(g, f, s)}
  <1> SUFFICES ASSUME T # {} PROVE FALSE
    OBVIOUS
  <1>0. T \subseteq SUBSET D
    OBVIOUS
  <1> HIDE DEF T
  <1>1. PICK t \in T : \A u \in T : u \subseteq t => u = t
    BY <1>0, Smallest
  <1>2. t \in SUBSET D /\ (~\E g : Adds(g, f, t)) /\ IsFiniteSet(t)
    BY FS_Subset DEF T
  <1> DEFINE below(u) == CHOOSE k : Adds(k, f, u)
             H(u) == below(u)[u]
             g == [s \in SUBSET t |-> IF s = {} THEN 0 ELSE f[Pick(s)] + H(s \ {Pick(s)})]
  <1>3. ASSUME NEW u \in SUBSET t, u # t
        PROVE  Adds(below(u), f, u) /\ IsFiniteSet(u)
    <2>1. \E k : Adds(k, f, u)
      BY <1>1, <1>2, <1>3 DEF T
    <2> QED  BY <1>2, <2>1, FS_Subset
  <1>4. ASSUME NEW u \in SUBSET t, u # t
        PROVE  g[u] = H(u)
    <2>1. Adds(below(u), f, u) /\ IsFiniteSet(u)
      BY <1>3, <1>4
    <2> DEFINE k == below(u)
               v == u \ {Pick(u)}
    <2>2. k[u] = IF u = {} THEN 0 ELSE f[Pick(u)] + k[v]
      BY <2>1 DEF Adds
    <2>3. u # {} => k[v] = H(v)
      <3>1. v \in SUBSET t /\ v \subseteq u /\ v \in SUBSET v
        OBVIOUS
      <3> SUFFICES ASSUME u # {} PROVE k[v] = H(v)
        OBVIOUS
      <3>2. v # t
        BY PickIn
      <3>3. Adds(below(v), f, v)
        BY <1>3, <3>1, <3>2
      <3> DEFINE l == below(v)
      <3>4. Adds(k, f, u) /\ Adds(l, f, v) /\ IsFiniteSet(u)
        BY <2>1, <3>3
      <3> HIDE DEF v, k, l
      <3>5. \A s \in SUBSET v : k[s] = l[s]
        BY <3>1, <3>4, AddsAgree
      <3> USE DEF l
      <3> QED  BY <3>1, <3>5
    <2> QED  BY <2>2, <2>3
  <1>5. ASSUME NEW s \in SUBSET t
        PROVE  g[s] = IF s = {} THEN 0 ELSE f[Pick(s)] + g[s \ {Pick(s)}]
    <2> SUFFICES ASSUME s # {}
                 PROVE  g[s] = f[Pick(s)] + g[s \ {Pick(s)}]
      OBVIOUS
    <2> DEFINE u == s \ {Pick(s)}
    <2>1. u \in SUBSET t /\ u # t
      BY PickIn
    <2>2. g[s] = f[Pick(s)] + H(u)
      OBVIOUS
    <2> HIDE DEF u, H, g
    <2>3. g[u] = H(u)
      BY <1>4, <2>1
    <2> QED  BY <2>2, <2>3 DEF u
  <1>6. Adds(g, f, t)
    <2>1. g = [s \in SUBSET t |-> g[s]]
      OBVIOUS
    <2> HIDE DEF g
    <2>2. g = [s \in SUBSET t |-> IF s = {} THEN 0 ELSE f[Pick(s)] + g[s \ {Pick(s)}]]
      BY <1>5, <2>1
    <2> QED  BY <2>2 DEF Adds
  <1> QED  BY <1>2, <1>6

\* SumFunction adds up.
LEMMA SumIs ==
    ASSUME NEW D, IsFiniteSet(D), NEW f, DOMAIN f = D
    PROVE  \E g : Adds(g, f, D) /\ SumFunction(f) = g[D]
  <1> DEFINE it == CHOOSE g : Adds(g, f, D)
  <1>1. SumFunction(f) = it[D]
    BY DEF SumFunction, SumFunctionOnSet, FoldFunctionOnSet, MapThenFoldSet, Pick, Adds
  <1>2. Adds(it, f, D)
    BY AddsExist
  <1> QED  BY <1>1, <1>2

\* What holds of nothing, and of every sum with one more value when it holds without it,
\* holds of the sum: here, being a natural number.
LEMMA SumNat ==
    ASSUME NEW D, IsFiniteSet(D), NEW f \in [D -> Nat]
    PROVE  SumFunction(f) \in Nat
  <1>1. PICK g : Adds(g, f, D) /\ SumFunction(f) = g[D]
    BY SumIs
  <1> DEFINE T == {s \in SUBSET D : g[s] \notin Nat}
  <1> SUFFICES ASSUME T # {} PROVE FALSE
    BY <1>1
  <1>2. T \subseteq SUBSET D
    OBVIOUS
  <1> HIDE DEF T
  <1>3. PICK s \in T : \A u \in T : u \subseteq s => u = s
    BY <1>2, Smallest
  <1>4. s \in SUBSET D /\ g[s] \notin Nat
    BY DEF T
  <1>5. g[s] = IF s = {} THEN 0 ELSE f[Pick(s)] + g[s \ {Pick(s)}]
    BY <1>1, <1>4 DEF Adds
  <1>6. s # {} => Pick(s) \in s /\ f[Pick(s)] \in Nat /\ g[s \ {Pick(s)}] \in Nat
    <2> SUFFICES ASSUME s # {}
                 PROVE  Pick(s) \in s /\ f[Pick(s)] \in Nat /\ g[s \ {Pick(s)}] \in Nat
      OBVIOUS
    <2>1. Pick(s) \in s
      BY PickIn
    <2> QED  BY <1>3, <1>4, <2>1 DEF T
  <1> QED  BY <1>4, <1>5, <1>6

\* The sum of sums.
LEMMA SumAdds ==
    ASSUME NEW D, IsFiniteSet(D), NEW f \in [D -> Nat], NEW x \in [D -> Nat],
           NEW y \in [D -> Nat], \A i \in D : f[i] = x[i] + y[i]
    PROVE  SumFunction(f) = SumFunction(x) + SumFunction(y)
  <1>1. PICK gf : Adds(gf, f, D) /\ SumFunction(f) = gf[D]
    BY SumIs
  <1>2. PICK gx : Adds(gx, x, D) /\ SumFunction(x) = gx[D]
    BY SumIs
  <1>3. PICK gy : Adds(gy, y, D) /\ SumFunction(y) = gy[D]
    BY SumIs
  <1> DEFINE Fine(s) == gx[s] \in Nat /\ gy[s] \in Nat /\ gf[s] = gx[s] + gy[s]
             T == {s \in SUBSET D : ~Fine(s)}
  <1> SUFFICES ASSUME T # {} PROVE FALSE
    BY <1>1, <1>2, <1>3
  <1>4. T \subseteq SUBSET D
    OBVIOUS
  <1> HIDE DEF T
  <1>5. PICK s \in T : \A u \in T : u \subseteq s => u = s
    BY <1>4, Smallest
  <1>6. s \in SUBSET D /\ ~Fine(s)
    BY DEF T
  <1> DEFINE u == s \ {Pick(s)}
  <1>7. /\ gf[s] = IF s = {} THEN 0 ELSE f[Pick(s)] + gf[u]
        /\ gx[s] = IF s = {} THEN 0 ELSE x[Pick(s)] + gx[u]
        /\ gy[s] = IF s = {} THEN 0 ELSE y[Pick(s)] + gy[u]
    BY <1>1, <1>2, <1>3, <1>6 DEF Adds
  <1>8. s # {}
    BY <1>6, <1>7
  <1>9. Pick(s) \in s /\ x[Pick(s)] \in Nat /\ y[Pick(s)] \in Nat
        /\ f[Pick(s)] = x[Pick(s)] + y[Pick(s)]
    BY <1>6, <1>8, PickIn
  <1>10. Fine(u)
    <2>1. u \in SUBSET D /\ u \subseteq s /\ u # s
      BY <1>6, <1>9
    <2> QED  BY <1>5, <2>1 DEF T
  <1> HIDE DEF u
  <1> QED  BY <1>6, <1>7, <1>8, <1>9, <1>10
-----------------------------------------------------------------------------
(* Dates.                                                                  *)

LEMMA MonthLengths == \A t \in Int : MonthLength(t) \in 28..31
  BY DEF MonthLength

LEMMA DateType ==
    ASSUME NEW d \in Date
    PROVE  d.month \in Int /\ d.day \in 1..31 /\ d.day <= MonthLength(d.month)
  BY DEF Date

\* A date moved by months is a date, and not before the other one of the two.
LEMMA AddMonthsType ==
    ASSUME NEW d \in Date, NEW n \in Int
    PROVE  /\ AddMonths(d, n) \in Date
           /\ n >= 1 => ~Before(AddMonths(d, n), d)
           /\ n <= -1 => ~Before(d, AddMonths(d, n))
  <1>1. d.month \in Int /\ d.day \in 1..31
    BY DateType
  <1> DEFINE L == MonthLength(d.month + n)
             e == AddMonths(d, n)
  <1>2. L \in 28..31 /\ MonthLength(d.month + n + 1) \in 28..31
    BY <1>1, MonthLengths
  <1>3. CASE d.day > L
    <2>1. e = [month |-> d.month + n + 1, day |-> d.day - L]
      BY <1>1, <1>2, <1>3 DEF AddMonths
    <2> HIDE DEF e, L
    <2>2. e.month = d.month + n + 1 /\ e.day = d.day - L /\ e \in [month : Int, day : 1..31]
      BY <1>1, <1>2, <1>3, <2>1
    <2>3. e \in Date
      BY <1>1, <1>2, <2>2 DEF Date
    <2>4. (n >= 1 => ~Before(e, d)) /\ (n <= -1 => ~Before(d, e))
      BY <1>1, <1>2, <1>3, <2>2 DEF Before
    <2> QED  BY <2>3, <2>4 DEF e
  <1>4. CASE ~(d.day > L)
    <2>1. e = [month |-> d.month + n, day |-> d.day]
      BY <1>1, <1>2, <1>4 DEF AddMonths
    <2>2. e \in Date
      BY <1>1, <1>2, <1>4, <2>1 DEF Date
    <2>3. (n >= 1 => ~Before(e, d)) /\ (n <= -1 => ~Before(d, e))
      BY <1>1, <2>1 DEF Before
    <2> QED  BY <2>2, <2>3
  <1> QED  BY <1>3, <1>4

LEMMA AtLeastOne ==
    ASSUME NEW x \in Int
    PROVE  Max({1, x}) \in Nat \ {0}
  <1>1. \E m \in {1, x} : \A y \in {1, x} : m >= y
    OBVIOUS
  <1> QED  BY <1>1 DEF Max

LEMMA ScheduledInOrder ==
    ASSUME NEW b \in Date, NEW m \in Nat \ {0}, NEW e \in Date, ~Before(e, b)
    PROVE  /\ Scheduled(b, m, e) \in Schedule
           /\ ~Before(Scheduled(b, m, e).end, Scheduled(b, m, e).start)
  BY DEF Scheduled, Schedule

\* Whatever dates a body names, they are refused, or solved in their order.
LEMMA SolvedInOrder ==
    ASSUME NEW start \in Date \cup {None}, NEW duration \in Int \cup {None},
           NEW end \in Date \cup {None}, NEW defaultStart \in Date,
           SolveDates(start, duration, end, defaultStart) # None
    PROVE  LET s == SolveDates(start, duration, end, defaultStart) IN
           s \in Schedule /\ ~Before(s.end, s.start)
  <1> DEFINE s      == SolveDates(start, duration, end, defaultStart)
             months == IF duration \in Nat \ {0} THEN duration ELSE None
             from   == IF start # None THEN start ELSE defaultStart
             d      == IF months # None THEN months ELSE 1
  <1>0. None \notin Int /\ None \notin Date
    BY EstimationAssumption
  <1> SUFFICES s \in Schedule /\ ~Before(s.end, s.start)
    OBVIOUS
  <1>m. months # None => months \in Nat \ {0}
    OBVIOUS
  <1>d. d \in Nat \ {0} /\ from \in Date
    BY <1>m
  <1> HIDE DEF months
  <1>1. CASE start # None /\ months # None
    <2>1. s = Scheduled(start, months, AddMonths(start, months))
      BY <1>1 DEF SolveDates, months
    <2> HIDE DEF s
    <2>2. AddMonths(start, months) \in Date /\ ~Before(AddMonths(start, months), start)
      BY <1>1, <1>m, AddMonthsType
    <2> QED  BY <1>1, <1>m, ScheduledInOrder, <2>1, <2>2
  <1>2. CASE start # None /\ months = None /\ end # None
    <2>1. s = IF Before(end, start) THEN None
              ELSE Scheduled(start, Max({1, end.month - start.month}), end)
      BY <1>2 DEF SolveDates, months
    <2> HIDE DEF s
    <2>2. ~Before(end, start) /\ s = Scheduled(start, Max({1, end.month - start.month}), end)
      BY <2>1 DEF s
    <2>3. Max({1, end.month - start.month}) \in Nat \ {0}
      <3>1. end.month - start.month \in Int
        BY <1>2, DateType
      <3> QED  BY <3>1, AtLeastOne
    <2> QED  BY <1>2, ScheduledInOrder, <2>2, <2>3
  <1>3. CASE start = None /\ months # None /\ end # None
    <2>1. s = Scheduled(AddMonths(end, -months), months, end)
      BY <1>3 DEF SolveDates, months
    <2> HIDE DEF s
    <2>2. AddMonths(end, -months) \in Date /\ ~Before(end, AddMonths(end, -months))
      <3>1. -months \in Int /\ -months <= -1
        BY <1>3, <1>m
      <3> QED  BY <1>3, <3>1, AddMonthsType
    <2> QED  BY <1>3, <1>m, ScheduledInOrder, <2>1, <2>2
  <1>4. CASE /\ ~(start # None /\ months # None)
             /\ ~(start # None /\ months = None /\ end # None)
             /\ ~(start = None /\ months # None /\ end # None)
    <2>1. s = Scheduled(from, d, DefaultEnd(end, from, d))
      BY <1>4 DEF SolveDates, months
    <2> HIDE DEF s, from, d
    <2>2. AddMonths(from, d) \in Date /\ ~Before(AddMonths(from, d), from)
      BY <1>d, AddMonthsType
    <2>3. DefaultEnd(end, from, d) \in Date /\ ~Before(DefaultEnd(end, from, d), from)
      BY <2>2 DEF DefaultEnd
    <2> QED  BY <1>d, ScheduledInOrder, <2>1, <2>3
  <1> QED  BY <1>1, <1>2, <1>3, <1>4

-----------------------------------------------------------------------------
(* The amounts of pages and bodies.                                        *)

LEMMA SeqOf ==
    ASSUME NEW S, NEW T, NEW s \in Seq(S), \A i \in DOMAIN s : s[i] \in T
    PROVE  s \in Seq(T)
  <1>1. DOMAIN s = 1..Len(s) /\ Len(s) \in Nat /\ s = [i \in 1..Len(s) |-> s[i]]
    OBVIOUS
  <1>2. s \in [1..Len(s) -> T]
    BY <1>1
  <1> QED  BY <1>1, <1>2, SeqDef

LEMMA OneOfEachIs ==
    ASSUME NEW D, NEW sets, sets = [i \in D |-> sets[i]], NEW f
    PROVE  f \in OneOfEach(sets) <=>
              f = [i \in D |-> f[i]] /\ \A i \in D : f[i] \in sets[i]
  <1>1. DOMAIN sets = D
    OBVIOUS
  <1>2. UNION Range(sets) = UNION {sets[i] : i \in D}
    BY <1>1 DEF Range
  <1>3. ASSUME f = [i \in D |-> f[i]], \A i \in D : f[i] \in sets[i]
        PROVE  f \in [D -> UNION {sets[i] : i \in D}]
    <2>1. \A i \in D : f[i] \in UNION {sets[j] : j \in D}
      BY <1>3
    <2> QED  BY <1>3, <2>1
  <1>4. f \in [D -> UNION {sets[i] : i \in D}] => f = [i \in D |-> f[i]]
    OBVIOUS
  <1> QED  BY <1>1, <1>2, <1>3, <1>4 DEF OneOfEach

Amounts == [Nat -> SUBSET Nat]

LEMMA ConversionsType ==
    ASSUME NEW c \in Currency
    PROVE  Shown(c) \in Amounts /\ Stored(c) \in Amounts
  BY ConversionsNat DEF Amounts, Shown, Stored

\* The amounts converted keep their places: they are as many, and each is converted
\* from the one at its place.
LEMMA InCurrencyHas ==
    ASSUME NEW manual, NEW resources, NEW expenses, NEW conversion,
           NEW a \in InCurrency(manual, resources, expenses, conversion)
    PROVE  /\ IF manual = None THEN a.manual = None ELSE a.manual \in conversion[manual]
           /\ \A i \in DOMAIN resources : a.rates[i] \in conversion[resources[i].rate]
           /\ a.expenses = [i \in DOMAIN expenses |-> a.expenses[i]]
           /\ \A i \in DOMAIN expenses : a.expenses[i] \in conversion[expenses[i]]
  <1> DEFINE rs == [i \in DOMAIN resources |-> conversion[resources[i].rate]]
             es == [i \in DOMAIN expenses |-> conversion[expenses[i]]]
  <1>1. /\ IF manual = None THEN a.manual = None ELSE a.manual \in conversion[manual]
        /\ a.rates \in OneOfEach(rs)
        /\ a.expenses \in OneOfEach(es)
    BY DEF InCurrency
  <1>2. \A i \in DOMAIN resources : a.rates[i] \in rs[i]
    BY <1>1 DEF OneOfEach
  <1>3. a.expenses = [i \in DOMAIN expenses |-> a.expenses[i]]
        /\ \A i \in DOMAIN expenses : a.expenses[i] \in es[i]
    BY <1>1 DEF OneOfEach
  <1> QED  BY <1>1, <1>2, <1>3

LEMMA InCurrencyMade ==
    ASSUME NEW manual, NEW resources, NEW expenses, NEW conversion,
           NEW m, IF manual = None THEN m = None ELSE m \in conversion[manual],
           NEW rates, rates = [i \in DOMAIN resources |-> rates[i]],
           \A i \in DOMAIN resources : rates[i] \in conversion[resources[i].rate],
           NEW x, x = [i \in DOMAIN expenses |-> x[i]],
           \A i \in DOMAIN expenses : x[i] \in conversion[expenses[i]]
    PROVE  [manual |-> m, rates |-> rates, expenses |-> x] \in
              InCurrency(manual, resources, expenses, conversion)
  <1> DEFINE rs == [i \in DOMAIN resources |-> conversion[resources[i].rate]]
             es == [i \in DOMAIN expenses |-> conversion[expenses[i]]]
  <1>1. rates \in OneOfEach(rs)
    <2>1. rs = [i \in DOMAIN resources |-> rs[i]] /\ \A i \in DOMAIN resources : rates[i] \in rs[i]
      OBVIOUS
    <2> HIDE DEF rs
    <2> QED  BY <2>1, OneOfEachIs
  <1>2. x \in OneOfEach(es)
    <2>1. es = [i \in DOMAIN expenses |-> es[i]] /\ \A i \in DOMAIN expenses : x[i] \in es[i]
      OBVIOUS
    <2> HIDE DEF es
    <2> QED  BY <2>1, OneOfEachIs
  <1>3. m \in (IF manual = None THEN {None} ELSE conversion[manual])
    OBVIOUS
  <1> QED  BY <1>1, <1>2, <1>3 DEF InCurrency

LEMMA InCurrencyType ==
    ASSUME NEW manual \in Nat \cup {None}, NEW resources \in Seq(Resource),
           NEW expenses \in Seq(Nat), NEW conversion \in Amounts,
           NEW a \in InCurrency(manual, resources, expenses, conversion)
    PROVE  /\ a.manual \in Nat \cup {None}
           /\ a.expenses \in Seq(Nat) /\ DOMAIN a.expenses = DOMAIN expenses
           /\ Rated(resources, a.rates) \in Seq(Resource)
           /\ DOMAIN Rated(resources, a.rates) = DOMAIN resources
           /\ \A i \in DOMAIN resources :
                 /\ a.rates[i] \in Nat
                 /\ Rated(resources, a.rates)[i] = [resources[i] EXCEPT !.rate = a.rates[i]]
  <1>1. DOMAIN resources = 1..Len(resources) /\ Len(resources) \in Nat
        /\ DOMAIN expenses = 1..Len(expenses) /\ Len(expenses) \in Nat
    OBVIOUS
  <1>2. /\ IF manual = None THEN a.manual = None ELSE a.manual \in conversion[manual]
        /\ \A i \in DOMAIN resources : a.rates[i] \in conversion[resources[i].rate]
        /\ a.expenses = [i \in DOMAIN expenses |-> a.expenses[i]]
        /\ \A i \in DOMAIN expenses : a.expenses[i] \in conversion[expenses[i]]
    BY InCurrencyHas
  <1>3. \A n \in Nat : conversion[n] \subseteq Nat
    BY DEF Amounts
  <1>4. /\ \A i \in DOMAIN resources : resources[i] \in Resource /\ resources[i].rate \in Nat
        /\ \A i \in DOMAIN expenses : expenses[i] \in Nat
    <2>1. \A i \in DOMAIN resources : resources[i] \in Resource
      BY <1>1, ElementOfSeq
    <2>2. \A i \in DOMAIN expenses : expenses[i] \in Nat
      BY <1>1, ElementOfSeq
    <2> QED  BY <2>1, <2>2 DEF Resource
  <1>5. a.manual \in Nat \cup {None}
    BY <1>2, <1>3
  <1>6. a.expenses \in [1..Len(expenses) -> Nat]
    BY <1>1, <1>2, <1>3, <1>4
  <1>7. \A i \in DOMAIN resources : a.rates[i] \in Nat
    BY <1>2, <1>3, <1>4
  <1>8. \A i \in DOMAIN resources : [resources[i] EXCEPT !.rate = a.rates[i]] \in Resource
    BY <1>4, <1>7 DEF Resource
  <1>9. Rated(resources, a.rates) \in [1..Len(resources) -> Resource]
    BY <1>1, <1>8 DEF Rated
  <1>10. a.expenses \in Seq(Nat) /\ Rated(resources, a.rates) \in Seq(Resource)
    <2>1. \A T, f : \A n \in Nat : f \in [1..n -> T] => f \in Seq(T)
      BY SeqDef
    <2> QED  BY <1>1, <1>6, <1>9, <2>1
  <1> QED  BY <1>2, <1>5, <1>7, <1>10 DEF Rated

-----------------------------------------------------------------------------
(* Pages.                                                                  *)

\* What a client may have: a page whose amounts some stored amounts convert to.
Shows(p) ==
    /\ p \in Figures
    /\ p.manual # None => Displayed(p.manual, p.currency)
    /\ \A i \in DOMAIN p.resources : Displayed(p.resources[i].rate, p.currency)
    /\ \A i \in DOMAIN p.expenses : Displayed(p.expenses[i], p.currency)

LEMMA DisplayedIs ==
    ASSUME NEW c \in Currency, NEW k \in Nat, NEW a \in Shown(c)[k]
    PROVE  Displayed(a, c)
  BY ConversionsNat DEF Shown, Displayed

LEMMA FiguresParts ==
    ASSUME NEW e \in Figures
    PROVE  /\ e.currency \in Currency /\ e.markup \in Nat /\ e.discount \in 0..100
           /\ e.manual \in Nat \cup {None} /\ e.resources \in Seq(Resource)
           /\ e.expenses \in Seq(Nat) /\ e.schedule \in Schedule
           /\ \A i \in DOMAIN e.resources : e.resources[i].rate \in Nat
           /\ \A i \in DOMAIN e.expenses : e.expenses[i] \in Nat
  <1>1. e.resources \in Seq(Resource) /\ e.expenses \in Seq(Nat)
    BY DEF Figures
  <1>2. \A i \in DOMAIN e.resources : e.resources[i] \in Resource
    BY <1>1, ElementOfSeq
  <1>3. \A i \in DOMAIN e.expenses : e.expenses[i] \in Nat
    BY <1>1, ElementOfSeq
  <1> QED  BY <1>1, <1>2, <1>3 DEF Figures, Resource

LEMMA SameFigures ==
    ASSUME NEW e \in Figures, NEW f \in Figures,
           e.currency = f.currency, e.markup = f.markup, e.discount = f.discount,
           e.manual = f.manual, e.resources = f.resources, e.expenses = f.expenses,
           e.schedule = f.schedule
    PROVE  e = f
  BY DEF Figures

\* The pages of an estimation have its dates, and show its amounts line by line.
LEMMA DetailsShow ==
    ASSUME NEW e \in Figures, NEW c \in Currency, NEW p \in Details(e, c)
    PROVE  /\ Shows(p) /\ p.currency = c /\ p.schedule = e.schedule
           /\ IF e.manual = None THEN p.manual = None ELSE p.manual \in Shown(c)[e.manual]
           /\ DOMAIN p.resources = DOMAIN e.resources
           /\ \A i \in DOMAIN e.resources : p.resources[i].rate \in Shown(c)[e.resources[i].rate]
           /\ DOMAIN p.expenses = DOMAIN e.expenses
           /\ \A i \in DOMAIN e.expenses : p.expenses[i] \in Shown(c)[e.expenses[i]]
  <1> DEFINE m == e.manual
             r == e.resources
             x == e.expenses
             k == Shown(c)
  <1>1. PICK a \in InCurrency(m, r, x, k) :
               p = [e EXCEPT !.currency = c, !.manual = a.manual,
                             !.resources = Rated(@, a.rates), !.expenses = a.expenses]
    BY DEF Details
  <1>2. m \in Nat \cup {None} /\ r \in Seq(Resource) /\ x \in Seq(Nat) /\ k \in Amounts
    BY FiguresParts, ConversionsType
  <1> HIDE DEF m, r, x, k
  <1>3. /\ a.manual \in Nat \cup {None}
        /\ a.expenses \in Seq(Nat) /\ DOMAIN a.expenses = DOMAIN x
        /\ Rated(r, a.rates) \in Seq(Resource) /\ DOMAIN Rated(r, a.rates) = DOMAIN r
        /\ \A i \in DOMAIN r : /\ a.rates[i] \in Nat
                              /\ Rated(r, a.rates)[i] = [r[i] EXCEPT !.rate = a.rates[i]]
    BY <1>1, <1>2, InCurrencyType
  <1>4. /\ IF m = None THEN a.manual = None ELSE a.manual \in k[m]
        /\ \A i \in DOMAIN r : a.rates[i] \in k[r[i].rate]
        /\ \A i \in DOMAIN x : a.expenses[i] \in k[x[i]]
    BY <1>1, InCurrencyHas
  <1> USE DEF m, r, x, k
  <1> DEFINE rs == Rated(e.resources, a.rates)
  <1>5. /\ p.currency = c /\ p.manual = a.manual /\ p.resources = rs
        /\ p.expenses = a.expenses /\ p.schedule = e.schedule
        /\ p \in Figures
    BY <1>1, <1>3 DEF Figures
  <1>6. p.manual # None => Displayed(p.manual, c)
    BY <1>2, <1>4, <1>5, DisplayedIs
  <1>7. ASSUME NEW i \in DOMAIN e.expenses
        PROVE  Displayed(p.expenses[i], c)
    BY <1>4, <1>5, DisplayedIs, FiguresParts
  <1>8. ASSUME NEW i \in DOMAIN e.resources
        PROVE  p.resources[i].rate \in Shown(c)[e.resources[i].rate]
               /\ Displayed(p.resources[i].rate, c)
    <2>1. e.resources[i] \in Resource /\ e.resources[i].rate \in Nat
      BY <1>2, ElementOfSeq, FiguresParts
    <2>2. Displayed(a.rates[i], c)
      BY <1>4, <2>1, DisplayedIs
    <2>3. p.resources[i] = [e.resources[i] EXCEPT !.rate = a.rates[i]]
      BY <1>3, <1>5
    <2> QED  BY <1>4, <2>1, <2>2, <2>3 DEF Resource
  <1>9. Shows(p)
    BY <1>3, <1>5, <1>6, <1>7, <1>8 DEF Shows
  <1> QED  BY <1>3, <1>4, <1>5, <1>8, <1>9

\* The draft ends after it starts.
LEMMA DraftType ==
    ASSUME required \in Required
    PROVE  Draft \in Figures /\ ~Before(Draft.schedule.end, Draft.schedule.start)
  <1> DEFINE end == IF required # None /\ Before(Today, required)
                    THEN required ELSE AddMonths(Today, 1)
             months == end.month - Today.month + (IF end.day > Today.day THEN 1 ELSE 0)
  <1>1. Today \in Date
    BY EstimationAssumption
  <1>2. end \in Date /\ ~Before(end, Today)
    <2>1. CASE required # None /\ Before(Today, required)
      <3>1. required \in Date
        BY <2>1, EstimationAssumption
      <3> QED  BY <1>1, <2>1, <3>1, DateType DEF Before
    <2>2. CASE ~(required # None /\ Before(Today, required))
      BY <1>1, <2>2, AddMonthsType
    <2> QED  BY <2>1, <2>2
  <1>3. Max({1, months}) \in Nat \ {0}
    <2>1. months \in Int
      BY <1>1, <1>2, DateType
    <2> HIDE DEF months
    <2> QED  BY <2>1, AtLeastOne
  <1>4. Draft = [currency |-> "USD", markup |-> 0, discount |-> 0, manual |-> None,
                 resources |-> <<>>, expenses |-> <<>>,
                 schedule |-> Scheduled(Today, Max({1, months}), end)]
    BY DEF Draft
  <1> HIDE DEF end, months
  <1>5. Scheduled(Today, Max({1, months}), end) \in Schedule
        /\ ~Before(Scheduled(Today, Max({1, months}), end).end,
                   Scheduled(Today, Max({1, months}), end).start)
    BY <1>1, <1>2, <1>3, ScheduledInOrder
  <1>6. <<>> \in Seq(Resource) /\ <<>> \in Seq(Nat) /\ "USD" \in Currency
    BY EstimationAssumption
  <1> HIDE DEF end
  <1> QED  BY <1>4, <1>5, <1>6 DEF Figures

-----------------------------------------------------------------------------
(* Estimations.                                                            *)

Lines == [grade : STRING, onsite : Int, offshore : Int, rate : Int]

LEMMA NoneApart ==
    /\ None \notin Currency /\ None \notin Int /\ None \notin Date /\ None \notin Schedule
    /\ None \notin Seq(Lines) /\ None \notin Seq(Int)
  BY EstimationAssumption DEF Lines

\* A body that is let through has amounts, lines and percentages like those of an
\* estimation, in the fields that it has.
LEMMA ValidBody ==
    ASSUME NEW b \in Body, Valid(b)
    PROVE  /\ b.currency \in Currency \cup {None}
           /\ b.markup \in Nat \cup {None} /\ b.discount \in (0..100) \cup {None}
           /\ b.manual \in Nat \cup {None}
           /\ b.resources \in Seq(Resource) \cup {None}
           /\ b.expenses \in Seq(Nat) \cup {None}
           /\ b.start \in Date \cup {None} /\ b.months \in Int \cup {None}
           /\ b.end \in Date \cup {None}
  <1>1. /\ b.currency \in Currency \cup {None} /\ b.markup \in Int \cup {None}
        /\ b.discount \in Int \cup {None} /\ b.manual \in Int \cup {None}
        /\ b.resources \in Seq(Lines) \cup {None} /\ b.expenses \in Seq(Int) \cup {None}
        /\ b.start \in Date \cup {None} /\ b.months \in Int \cup {None}
        /\ b.end \in Date \cup {None}
    BY DEF Body, Lines
  <1>2. /\ b.markup \in Nat \cup {None} /\ b.discount \in (0..100) \cup {None}
        /\ b.manual \in Nat \cup {None}
    BY <1>1 DEF Valid
  <1>3. ASSUME b.resources # None
        PROVE  b.resources \in Seq(Resource)
    <2>1. b.resources \in Seq(Lines) /\ \A i \in DOMAIN b.resources : b.resources[i] \in Resource
      BY <1>1, <1>3 DEF Valid
    <2> QED  BY <2>1, SeqOf
  <1>4. ASSUME b.expenses # None
        PROVE  b.expenses \in Seq(Nat)
    <2>1. b.expenses \in Seq(Int)
      BY <1>1, <1>4
    <2>2. ASSUME NEW i \in DOMAIN b.expenses
          PROVE  b.expenses[i] \in Nat
      <3>1. b.expenses[i] \in Int
        BY <2>1, ElementOfSeq
      <3> QED  BY <1>4, <3>1 DEF Valid
    <2> QED  BY <2>1, <2>2, SeqOf
  <1> QED  BY <1>1, <1>2, <1>3, <1>4

\* A body that is let through leaves figures, in the order of their dates.
LEMMA UpdatedType ==
    ASSUME NEW e \in Figures, NEW b \in Body, Valid(b),
           SolveDates(b.start, b.months, b.end, e.schedule.start) # None,
           NEW x \in Updated(e, b)
    PROVE  x \in Figures /\ ~Before(x.schedule.end, x.schedule.start)
  <1> DEFINE currency  == Given(b.currency, e.currency)
             resources == Given(b.resources, <<>>)
             expenses  == Given(b.expenses, <<>>)
             manual    == b.manual
             stored    == Stored(currency)
             solved    == SolveDates(b.start, b.months, b.end, e.schedule.start)
  <1>1. PICK a \in InCurrency(manual, resources, expenses, stored) :
               x = [currency |-> currency,
                    markup |-> Given(b.markup, e.markup),
                    discount |-> Given(b.discount, e.discount),
                    manual |-> a.manual,
                    resources |-> IF b.resources = None THEN e.resources
                                  ELSE Rated(b.resources, a.rates),
                    expenses |-> IF b.expenses = None THEN e.expenses ELSE a.expenses,
                    schedule |-> solved]
    BY DEF Updated
  <1>2. /\ manual \in Nat \cup {None} /\ resources \in Seq(Resource)
        /\ expenses \in Seq(Nat) /\ currency \in Currency
    BY FiguresParts, ValidBody DEF Given
  <1>3. stored \in Amounts
    BY <1>2, ConversionsType
  <1>4. solved \in Schedule /\ ~Before(solved.end, solved.start)
    <2>1. e.schedule.start \in Date
      BY FiguresParts DEF Schedule
    <2> QED  BY <2>1, ValidBody, SolvedInOrder
  <1>5. Given(b.markup, e.markup) \in Nat /\ Given(b.discount, e.discount) \in 0..100
    BY FiguresParts, ValidBody DEF Given
  <1>6. b.resources # None => resources = b.resources
    BY DEF Given
  <1> HIDE DEF currency, resources, expenses, manual, stored, solved
  <1>7. /\ a.manual \in Nat \cup {None} /\ a.expenses \in Seq(Nat)
        /\ Rated(resources, a.rates) \in Seq(Resource)
    BY <1>1, <1>2, <1>3, InCurrencyType
  <1>8. e.resources \in Seq(Resource) /\ e.expenses \in Seq(Nat)
    BY FiguresParts
  <1> QED  BY <1>1, <1>2, <1>4, <1>5, <1>6, <1>7, <1>8 DEF Figures

\* The body that sends page p back as it is shown.
AsShown(p) ==
    [currency |-> p.currency, markup |-> p.markup, discount |-> p.discount,
     manual |-> p.manual, resources |-> p.resources, expenses |-> p.expenses,
     start |-> p.schedule.start, months |-> p.schedule.months, end |-> p.schedule.end]

LEMMA AsShownType ==
    ASSUME NEW p \in Figures
    PROVE  AsShown(p) \in Body /\ Valid(AsShown(p))
  <1> DEFINE b == AsShown(p)
  <1>1. /\ p.currency \in Currency /\ p.markup \in Nat /\ p.discount \in 0..100
        /\ p.manual \in Nat \cup {None} /\ p.resources \in Seq(Resource)
        /\ p.expenses \in Seq(Nat) /\ p.schedule \in Schedule
        /\ \A i \in DOMAIN p.expenses : p.expenses[i] \in Nat
    BY FiguresParts
  <1>2. p.schedule.start \in Date /\ p.schedule.months \in Int /\ p.schedule.end \in Date
    BY <1>1 DEF Schedule
  <1>3. \A i \in DOMAIN p.resources : p.resources[i] \in Resource
    BY <1>1, ElementOfSeq
  <1>4. Resource \subseteq Lines /\ Nat \subseteq Int
    BY DEF Resource, Lines
  <1>5. p.resources \in Seq(Lines) /\ p.expenses \in Seq(Int)
    BY <1>1, <1>4, SeqMonotonic
  <1>6. b = [currency |-> p.currency, markup |-> p.markup, discount |-> p.discount,
             manual |-> p.manual, resources |-> p.resources, expenses |-> p.expenses,
             start |-> p.schedule.start, months |-> p.schedule.months,
             end |-> p.schedule.end]
    BY DEF AsShown
  <1> HIDE DEF b
  <1>7. b \in Body
    <2>1. Body = [currency : Currency \cup {None}, markup : Int \cup {None},
                  discount : Int \cup {None}, manual : Int \cup {None},
                  resources : Seq(Lines) \cup {None}, expenses : Seq(Int) \cup {None},
                  start : Date \cup {None}, months : Int \cup {None},
                  end : Date \cup {None}]
      BY DEF Body, Lines
    <2>2. p.markup \in Int /\ p.discount \in Int
      <3>1. \A n : n \in Nat \/ n \in 0..100 => n \in Int
        OBVIOUS
      <3> QED  BY <1>1, <3>1, Zenon
    <2>3. p.manual \in Int \cup {None}
      BY <1>1
    <2> QED  BY <1>1, <1>2, <1>5, <1>6, <2>1, <2>2, <2>3
  <1>8. Valid(b)
    BY <1>1, <1>3, <1>6 DEF Valid
  <1> QED  BY <1>7, <1>8 DEF b

\* A page that is sent back as it is shown is one of the pages of what is stored, but for
\* the end, which is worked out from the start and the months; what is stored is converted from
\* it line by line.
LEMMA ResentKept ==
    ASSUME NEW p, Shows(p), NEW e \in Figures, NEW x \in Updated(e, AsShown(p))
    PROVE  /\ Resolved(p) \in Details(x, p.currency)
           /\ LET back == Stored(p.currency) IN
              /\ IF p.manual = None THEN x.manual = None ELSE x.manual \in back[p.manual]
              /\ DOMAIN x.resources = DOMAIN p.resources
              /\ \A i \in DOMAIN p.resources : x.resources[i].rate \in back[p.resources[i].rate]
              /\ DOMAIN x.expenses = DOMAIN p.expenses
              /\ \A i \in DOMAIN p.expenses : x.expenses[i] \in back[p.expenses[i]]
  <1> DEFINE c  == p.currency
             m  == p.manual
             r  == p.resources
             es == p.expenses
             st == p.schedule
             sc == Scheduled(st.start, st.months, AddMonths(st.start, st.months))
  <1>1. /\ p \in Figures /\ c \in Currency /\ p.markup \in Nat /\ p.discount \in 0..100
        /\ m \in Nat \cup {None} /\ r \in Seq(Resource) /\ es \in Seq(Nat) /\ st \in Schedule
    BY FiguresParts DEF Shows
  <1>2. /\ st.start \in Date /\ st.months \in Nat \ {0} /\ st.end \in Date
        /\ r \in Seq(Lines) /\ es \in Seq(Int)
    <2>1. Resource \subseteq Lines /\ Nat \subseteq Int
      BY DEF Resource, Lines
    <2>2. r \in Seq(Lines) /\ es \in Seq(Int)
      BY <1>1, <2>1, SeqMonotonic
    <2> QED  BY <1>1, <2>2 DEF Schedule
  <1>3. /\ c # None /\ p.markup # None /\ p.discount # None /\ r # None /\ es # None
        /\ st.start # None /\ st.months # None
    BY <1>1, <1>2, NoneApart
  <1>4. SolveDates(st.start, st.months, st.end, e.schedule.start) = sc
    BY <1>2, <1>3 DEF SolveDates
  <1>5. PICK a \in InCurrency(m, r, es, Stored(c)) :
               x = [currency |-> c, markup |-> p.markup, discount |-> p.discount,
                    manual |-> a.manual, resources |-> Rated(r, a.rates),
                    expenses |-> a.expenses, schedule |-> sc]
    <2>1. /\ AsShown(p).currency = c /\ AsShown(p).markup = p.markup
          /\ AsShown(p).discount = p.discount /\ AsShown(p).manual = m
          /\ AsShown(p).resources = r /\ AsShown(p).expenses = es
          /\ AsShown(p).start = st.start /\ AsShown(p).months = st.months
          /\ AsShown(p).end = st.end
      BY DEF AsShown
    <2> HIDE DEF c, m, r, es, st, sc
    <2> QED  BY <1>3, <1>4, <2>1 DEF Updated, Given
  <1>6. Stored(c) \in Amounts
    BY <1>1, ConversionsType
  <1>7. /\ p.manual # None => Displayed(m, c)
        /\ \A i \in DOMAIN r : Displayed(r[i].rate, c)
        /\ \A i \in DOMAIN es : Displayed(es[i], c)
    BY DEF Shows
  <1>8. p = [currency |-> c, markup |-> p.markup, discount |-> p.discount, manual |-> m,
             resources |-> r, expenses |-> es, schedule |-> st]
    BY <1>1 DEF Figures
  <1>r. \A i \in DOMAIN r : r[i] \in Resource
    BY <1>1, ElementOfSeq
  <1>n. r = [i \in DOMAIN r |-> r[i]] /\ es = [i \in DOMAIN es |-> es[i]]
    BY <1>1
  <1> HIDE DEF c, m, r, es, st, sc
  <1>9. /\ IF m = None THEN a.manual = None ELSE a.manual \in Stored(c)[m]
        /\ \A i \in DOMAIN r : a.rates[i] \in Stored(c)[r[i].rate]
        /\ \A i \in DOMAIN es : a.expenses[i] \in Stored(c)[es[i]]
    BY <1>5, InCurrencyHas
  <1>10. /\ DOMAIN a.expenses = DOMAIN es /\ DOMAIN Rated(r, a.rates) = DOMAIN r
         /\ \A i \in DOMAIN r :
               Rated(r, a.rates)[i] = [r[i] EXCEPT !.rate = a.rates[i]]
    <2>1. \A i \in DOMAIN r : Rated(r, a.rates)[i] = [r[i] EXCEPT !.rate = a.rates[i]]
      BY DEF Rated
    <2>2. DOMAIN Rated(r, a.rates) = DOMAIN r
      BY DEF Rated
    <2>3. DOMAIN a.expenses = DOMAIN es
      <3>1. a.expenses = [i \in DOMAIN es |-> a.expenses[i]]
        BY <1>5, InCurrencyHas
      <3> QED  BY <3>1
    <2> QED  BY <2>1, <2>2, <2>3
  <1>11. \A s, k : Displayed(k, c) /\ s \in Stored(c)[k] => k \in Shown(c)[s]
    <2> SUFFICES ASSUME NEW s, NEW k, Displayed(k, c), s \in Stored(c)[k]
                 PROVE  k \in Shown(c)[s]
      OBVIOUS
    <2>1. s \in ConvertToBaseUSD(k, c)
      BY DEF Displayed, Stored
    <2>2. s \in Nat /\ k \in Convert(s, c)
      BY <1>1, <2>1, RoundTrip
    <2> QED  BY <2>2 DEF Shown
  <1> DEFINE rr == Rated(r, a.rates)
             back == [i \in DOMAIN r |-> r[i].rate]
  <1>12. /\ DOMAIN rr = DOMAIN r
         /\ \A i \in DOMAIN r : rr[i].rate = a.rates[i] /\ [rr[i] EXCEPT !.rate = r[i].rate] = r[i]
    BY <1>10, <1>r DEF Resource
  <1> HIDE DEF rr
  <1>13. Rated(rr, back) = r
    <2>1. Rated(rr, back) = [i \in DOMAIN r |-> r[i]]
      BY <1>12 DEF Rated
    <2> QED  BY <1>n, <2>1
  <1>14. [manual |-> m, rates |-> back, expenses |-> es]
            \in InCurrency(a.manual, rr, a.expenses, Shown(c))
    <2>1. IF a.manual = None THEN m = None ELSE m \in Shown(c)[a.manual]
      <3>1. m # None => a.manual \in Nat
        BY <1>1, <1>6, <1>9 DEF Amounts
      <3>2. m # None => a.manual # None
        BY <3>1, NoneApart
      <3> QED  BY <1>7, <1>9, <1>11, <3>2 DEF m
    <2>2. back = [i \in DOMAIN rr |-> back[i]]
          /\ \A i \in DOMAIN rr : back[i] \in Shown(c)[rr[i].rate]
      BY <1>7, <1>9, <1>11, <1>12
    <2>3. es = [i \in DOMAIN a.expenses |-> es[i]]
          /\ \A i \in DOMAIN a.expenses : es[i] \in Shown(c)[a.expenses[i]]
      BY <1>n, <1>7, <1>9, <1>10, <1>11
    <2> HIDE DEF back
    <2> QED  BY <2>1, <2>2, <2>3, InCurrencyMade
  <1> HIDE DEF back
  <1>15. x.manual = a.manual /\ x.resources = rr /\ x.expenses = a.expenses /\ x.schedule = sc
    BY <1>5 DEF rr
  <1>16. [p EXCEPT !.schedule = x.schedule]
           = [x EXCEPT !.currency = c, !.manual = m, !.resources = Rated(@, back),
                       !.expenses = es]
    <2> DEFINE f == [p EXCEPT !.schedule = x.schedule]
               g == [x EXCEPT !.currency = c, !.manual = m, !.resources = Rated(@, back),
                              !.expenses = es]
    <2>1. x \in Figures
      <3>1. AddMonths(st.start, st.months) \in Date
        BY <1>2, AddMonthsType
      <3>2. sc \in Schedule
        BY <1>2, <3>1 DEF sc, Scheduled, Schedule
      <3>3. sc # None
        BY <3>2, NoneApart
      <3>4. SolveDates(AsShown(p).start, AsShown(p).months, AsShown(p).end, e.schedule.start) = sc
        BY <1>4 DEF AsShown, st
      <3> QED  BY <1>1, <3>3, <3>4, AsShownType, UpdatedType
    <2>2. x.currency = c /\ x.markup = p.markup /\ x.discount = p.discount
      BY <1>5
    <2>3. /\ g.currency = c /\ g.markup = p.markup /\ g.discount = p.discount
          /\ g.manual = m /\ g.resources = r /\ g.expenses = es /\ g.schedule = x.schedule
          /\ g \in Figures
      BY <1>1, <1>13, <1>15, <2>1, <2>2 DEF Figures
    <2>4. /\ f.currency = c /\ f.markup = p.markup /\ f.discount = p.discount
          /\ f.manual = m /\ f.resources = r /\ f.expenses = es /\ f.schedule = x.schedule
          /\ f \in Figures
      BY <1>1, <2>1 DEF Figures, c, m, r, es
    <2> HIDE DEF f, g
    <2> QED  BY <2>3, <2>4, SameFigures DEF f, g
  <1>17. [p EXCEPT !.schedule = x.schedule] \in Details(x, c)
    <2> DEFINE q == [manual |-> m, rates |-> back, expenses |-> es]
    <2>1. q \in InCurrency(x.manual, x.resources, x.expenses, Shown(c))
      BY <1>14, <1>15
    <2>2. q.manual = m /\ q.rates = back /\ q.expenses = es
      OBVIOUS
    <2> HIDE DEF q
    <2>3. [p EXCEPT !.schedule = x.schedule]
            = [x EXCEPT !.currency = c, !.manual = q.manual, !.resources = Rated(@, q.rates),
                        !.expenses = q.expenses]
      BY <1>16, <2>2
    <2> QED  BY <2>1, <2>3 DEF Details
  <1>18. Resolved(p) = [p EXCEPT !.schedule = x.schedule]
    <2>1. st = [start |-> st.start, months |-> st.months, end |-> st.end]
      BY <1>1 DEF Schedule
    <2>2. sc = [st EXCEPT !.end = AddMonths(st.start, st.months)]
      BY <2>1 DEF sc, Scheduled
    <2> QED  BY <1>8, <1>15, <2>2 DEF Resolved, st
  <1>19. /\ IF m = None THEN x.manual = None ELSE x.manual \in Stored(c)[m]
         /\ DOMAIN x.resources = DOMAIN r
         /\ \A i \in DOMAIN r : x.resources[i].rate \in Stored(c)[r[i].rate]
         /\ DOMAIN x.expenses = DOMAIN es
         /\ \A i \in DOMAIN es : x.expenses[i] \in Stored(c)[es[i]]
    BY <1>9, <1>10, <1>12, <1>15
  <1> QED  BY <1>17, <1>18, <1>19 DEF c, m, r, es, st

-----------------------------------------------------------------------------
(* Prices.                                                                 *)

LEMMA Products == \A m, n \in Nat : m * n \in Nat
  OBVIOUS

LEMMA SeqDomain ==
    ASSUME NEW S, NEW s \in Seq(S)
    PROVE  IsFiniteSet(DOMAIN s) /\ \A i \in DOMAIN s : s[i] \in S
  <1>1. DOMAIN s = 1..Len(s) /\ Len(s) \in Nat
    OBVIOUS
  <1> QED  BY <1>1, FS_Interval, ElementOfSeq

LEMMA SumsNat ==
    ASSUME NEW e \in Figures
    PROVE  Revenue(e) \in Nat /\ Expenses(e) \in Nat /\ Multiplier(e) \in Nat
  <1>1. e.resources \in Seq(Resource) /\ e.expenses \in Seq(Nat)
        /\ e.markup \in Nat /\ e.discount \in 0..100
    BY FiguresParts
  <1> DEFINE D == DOMAIN e.resources
             f == [i \in D |-> Days(e.resources[i]) * e.resources[i].rate]
  <1>2. IsFiniteSet(D) /\ \A i \in D : e.resources[i] \in Resource
    BY <1>1, SeqDomain
  <1>3. \A i \in D : Days(e.resources[i]) \in Nat /\ e.resources[i].rate \in Nat
    BY <1>2 DEF Resource, Days
  <1>4. f \in [D -> Nat]
    BY <1>3, Products
  <1>5. SumFunction(f) \in Nat
    <2> HIDE DEF f, D
    <2> QED  BY <1>2, <1>4, SumNat
  <1>6. SumFunction(e.expenses) \in Nat
    <2> DEFINE E == DOMAIN e.expenses
    <2>1. IsFiniteSet(E) /\ e.expenses \in [E -> Nat]
      BY <1>1, SeqDomain
    <2> HIDE DEF E
    <2> QED  BY <2>1, SumNat
  <1>7. Revenue(e) \in Nat
    BY <1>5 DEF Revenue, Sum
  <1>8. Expenses(e) \in Nat
    BY <1>6 DEF Expenses, Sum
  <1>9. Multiplier(e) \in Nat
    <2>1. \A m \in Nat, d \in 0..100 : 100 + m - d \in Nat
      OBVIOUS
    <2> QED  BY <1>1, <2>1, Zenon DEF Multiplier
  <1> QED  BY <1>7, <1>8, <1>9

\* The price of an estimation without a manual one is its revenue, rounded after markup and
\* discount, and its expenses.
LEMMA PriceIs ==
    ASSUME NEW e \in Figures, NEW p \in EffectiveSellingPrice(e)
    PROVE  /\ p \in Nat
           /\ ManualWins(e) => p = e.manual
           /\ ~ManualWins(e) =>
                 /\ 2 * (Revenue(e) * Multiplier(e) - (p - Expenses(e)) * 100) \in -100..100
                 /\ Revenue(e) = 0 => p = Expenses(e)
  <1> DEFINE R == Revenue(e)
             M == Multiplier(e)
             X == Expenses(e)
  <1>1. R \in Nat /\ X \in Nat /\ M \in Nat /\ R * M \in Nat
    BY SumsNat, Products
  <1>2. e.manual \in Nat \cup {None}
    BY FiguresParts
  <1>3. CASE ManualWins(e)
    BY <1>2, <1>3 DEF EffectiveSellingPrice, ManualWins
  <1>4. CASE ~ManualWins(e)
    <2>1. PICK q \in Rounded(R * M, 100) : p = q + X
      BY <1>4 DEF EffectiveSellingPrice
    <2>2. q \in Nat /\ 2 * (R * M - q * 100) \in -100..100
      BY <1>1, <2>1, RoundedNat DEF Rounded
    <2>3. R = 0 => q = 0
      <3>1. R = 0 => R * M = 0
        BY <1>1
      <3> QED  BY <2>2, <3>1
    <2>4. p - X = q
      BY <1>1, <2>1, <2>2
    <2> HIDE DEF R, M, X
    <2>5. p \in Nat /\ (R = 0 => p = X)
      BY <1>1, <2>1, <2>2, <2>3
    <2>6. 2 * (R * M - (p - X) * 100) \in -100..100
      BY <2>2, <2>4
    <2> QED  BY <1>4, <2>5, <2>6 DEF R, M, X
  <1> QED  BY <1>3, <1>4

\* Rounded after the expenses are added, the price is at most a cent away.
LEMMA CalculatedClose ==
    ASSUME NEW e \in Figures, ~ManualWins(e), NEW p \in EffectiveSellingPrice(e),
           NEW q \in Rounded(Revenue(e) * Multiplier(e) + Expenses(e) * 100, 100)
    PROVE  q \in Nat /\ Close(p, q, 1)
  <1> DEFINE R == Revenue(e)
             M == Multiplier(e)
             X == Expenses(e)
             N == R * M
  <1>1. N \in Nat /\ X \in Nat /\ N + X * 100 \in Nat
    BY SumsNat, Products
  <1>2. p \in Nat /\ 2 * (N - (p - X) * 100) \in -100..100
    BY PriceIs
  <1> HIDE DEF N, X
  <1>3. q \in Nat /\ 2 * (N + X * 100 - q * 100) \in -100..100
    <2>1. q \in Rounded(N + X * 100, 100)
      BY DEF N, X
    <2> QED  BY <1>1, <2>1, RoundedNat DEF Rounded
  <1>4. p - q \in -1..1
    BY <1>1, <1>2, <1>3
  <1> QED  BY <1>3, <1>4 DEF Close

\* The places that work the price out agree, whatever the figures, on an estimation with price p.
LEMMA PlacesAgree ==
    ASSUME NEW e \in Figures, e.manual # 0, NEW p \in EffectiveSellingPrice(e)
    PROVE  /\ \A v \in EffectiveSellingPrice(e) : Close(p, v, 1)
           /\ \A q \in LeadPrice(e) \cup ListPrice(e) :
                 IF q = None THEN p = 0 ELSE Close(p, q, 1)
           /\ None \in LeadPrice(e) <=> None \in ListPrice(e)
  <1> DEFINE R == Revenue(e)
             M == Multiplier(e)
             X == Expenses(e)
             n == R * M + X * 100
  <1>1. R \in Nat /\ X \in Nat /\ M \in Nat /\ R * M \in Nat /\ n \in Nat
    BY SumsNat, Products
  <1>2. e.manual \in Nat \cup {None} /\ None \notin Nat /\ p \in Nat
    BY FiguresParts, NoneApart, PriceIs
  <1>3. CASE ManualWins(e)
    <2>1. EffectiveSellingPrice(e) = {e.manual} /\ CalcPrice(e) = {e.manual}
      BY <1>3 DEF EffectiveSellingPrice, CalcPrice
    <2>2. LeadPrice(e) = {e.manual} /\ ListPrice(e) = {e.manual} /\ e.manual \in Nat
          /\ e.manual # None
      BY <1>2, <1>3, <2>1 DEF LeadPrice, ListPrice, ManualWins
    <2>3. p = e.manual /\ Close(p, p, 1)
      BY <1>2, <2>1 DEF Close
    <2> QED  BY <1>2, <2>1, <2>2, <2>3
  <1>4. CASE ~ManualWins(e)
    <2>1. e.manual = None
      BY <1>2, <1>4 DEF ManualWins
    <2>2. LeadPrice(e) = ListPrice(e)
          /\ LeadPrice(e) = IF R > 0 \/ X > 0 THEN Rounded(n, 100) ELSE {None}
      <3>1. CalcPrice(e) = Rounded(n, 100)
        BY <1>4 DEF CalcPrice
      <3>2. LeadPrice(e) = IF R > 0 \/ X > 0 THEN Rounded(n, 100) ELSE {None}
        BY <1>4, <3>1 DEF LeadPrice
      <3>3. ListPrice(e) = IF R > 0 \/ X > 0 THEN Rounded(n, 100) ELSE {None}
        BY <2>1 DEF ListPrice
      <3> QED  BY <3>2, <3>3
    <2>3. \A q \in Rounded(n, 100) : q \in Nat /\ Close(p, q, 1)
      BY <1>4, CalculatedClose
    <2>4. ~(R > 0 \/ X > 0) => p = 0
      BY <1>1, <1>4, PriceIs
    <2>5. ASSUME NEW v \in EffectiveSellingPrice(e)
          PROVE  Close(p, v, 1)
      <3> DEFINE N == R * M
      <3>1. 2 * (N - (p - X) * 100) \in -100..100
        BY <1>4, PriceIs
      <3>2. v \in Nat /\ 2 * (N - (v - X) * 100) \in -100..100
        BY <1>4, PriceIs
      <3>3. N \in Nat
        BY <1>1
      <3> HIDE DEF N, X
      <3>4. p - v \in -1..1
        BY <1>1, <1>2, <3>1, <3>2, <3>3
      <3> QED  BY <3>4 DEF Close
    <2>6. \A q \in LeadPrice(e) : IF q = None THEN p = 0 ELSE Close(p, q, 1)
      <3> HIDE DEF R, X, n
      <3> QED  BY <1>2, <2>2, <2>3, <2>4
    <2> QED  BY <2>2, <2>5, <2>6
  <1> QED  BY <1>3, <1>4

-----------------------------------------------------------------------------
(* The summary and the charts.                                             *)

LEMMA MaxIs ==
    ASSUME NEW S, S \subseteq Int, NEW x \in S, \A y \in S : x >= y
    PROVE  Max(S) = x
  <1>1. Max(S) \in S /\ \A y \in S : Max(S) >= y
    BY DEF Max
  <1>2. Max(S) \in Int /\ x \in Int /\ Max(S) >= x /\ x >= Max(S)
    BY <1>1
  <1> QED  BY <1>2

LEMMA MinIs ==
    ASSUME NEW S, S \subseteq Int, NEW x \in S, \A y \in S : x <= y
    PROVE  Min(S) = x
  <1>1. Min(S) \in S /\ \A y \in S : Min(S) <= y
    BY DEF Min
  <1>2. Min(S) \in Int /\ x \in Int /\ Min(S) <= x /\ x <= Min(S)
    BY <1>1
  <1> QED  BY <1>2

\* The bars of the cost chart, day by day, are the cost of the lines.
LEMMA ChartAddsUp ==
    ASSUME NEW e \in Figures
    PROVE  /\ CostChart(e).onsite \in Nat /\ CostChart(e).offshore \in Nat
           /\ CostChart(e).expenses = Expenses(e)
           /\ ResourceCost(e) = CostChart(e).onsite + CostChart(e).offshore
  <1> DEFINE D == DOMAIN e.resources
             G(i) == GetGradeDailyCostUSD(e.resources[i].grade)
             f == [i \in D |-> Cost(e.resources[i], Days(e.resources[i]))]
             x == [i \in D |-> Cost(e.resources[i], e.resources[i].onsite)]
             y == [i \in D |-> Cost(e.resources[i], e.resources[i].offshore)]
  <1>1. e.resources \in Seq(Resource)
    BY FiguresParts
  <1>2. IsFiniteSet(D) /\ \A i \in D : e.resources[i] \in Resource
    BY <1>1, SeqDomain
  <1>3. \A g : GetGradeDailyCostUSD(g) \in Nat
    BY DEF GetGradeDailyCostUSD
  <1>4. ASSUME NEW i \in D
        PROVE  /\ x[i] \in Nat /\ y[i] \in Nat /\ f[i] = x[i] + y[i] /\ f[i] \in Nat
    <2>1. e.resources[i].onsite \in Nat /\ e.resources[i].offshore \in Nat /\ G(i) \in Nat
      BY <1>2, <1>3 DEF Resource
    <2>2. /\ x[i] = e.resources[i].onsite * G(i) /\ y[i] = e.resources[i].offshore * G(i)
          /\ f[i] = (e.resources[i].onsite + e.resources[i].offshore) * G(i)
      BY DEF Cost, Days
    <2>3. \A a, b, g \in Nat : a * g \in Nat /\ b * g \in Nat /\ (a + b) * g = a * g + b * g
      OBVIOUS
    <2> HIDE DEF f, x, y, G
    <2>4. x[i] \in Nat /\ y[i] \in Nat /\ f[i] = x[i] + y[i]
      BY <2>1, <2>2, <2>3
    <2> QED  BY <2>4
  <1>5. f \in [D -> Nat] /\ x \in [D -> Nat] /\ y \in [D -> Nat]
    <2>1. f = [i \in D |-> f[i]] /\ x = [i \in D |-> x[i]] /\ y = [i \in D |-> y[i]]
      OBVIOUS
    <2> HIDE DEF f, x, y, D
    <2> QED  BY <1>4, <2>1
  <1>6. /\ SumFunction(f) = SumFunction(x) + SumFunction(y)
        /\ SumFunction(x) \in Nat /\ SumFunction(y) \in Nat
    <2> HIDE DEF f, x, y, D
    <2> QED  BY <1>2, <1>4, <1>5, SumAdds, SumNat
  <1>7. CostChart(e).onsite = SumFunction(x) /\ CostChart(e).offshore = SumFunction(y)
        /\ CostChart(e).expenses = Expenses(e)
    BY DEF CostChart, Sum
  <1>8. ResourceCost(e) = SumFunction(f)
    BY DEF ResourceCost, Sum
  <1> HIDE DEF f, x, y
  <1> QED  BY <1>6, <1>7, <1>8

\* Converted, a difference and a sum of three are off by little.
LEMMA ConvertNear ==
    ASSUME NEW n \in Int, NEW c \in Currency, NEW k \in Convert(n, c)
    PROVE  k \in Int /\ 2 * (n * ExchangeRates[c] - k * 100) \in -100..100
  <1> DEFINE N == n * ExchangeRates[c]
  <1>1. N \in Int
    BY RateType
  <1>2. k \in Rounded(N, 100)
    BY DEF Convert
  <1> HIDE DEF N
  <1>3. k \in Int /\ 2 * (N - k * 100) \in -100..100
    BY <1>1, <1>2 DEF Rounded
  <1> QED  BY <1>3 DEF N

LEMMA DifferenceShown ==
    ASSUME NEW p \in Int, NEW q \in Int, NEW c \in Currency, NEW i \in Convert(p, c),
           NEW j \in Convert(q, c), NEW k \in Convert(p - q, c)
    PROVE  Close(i - j, k, 1)
  <1> DEFINE R == ExchangeRates[c]
             P == p * R
             Q == q * R
  <1>1. R \in Nat \ {0}
    BY RateType
  <1>2. P \in Int /\ Q \in Int /\ (p - q) * R = P - Q
    <2> HIDE DEF R
    <2> QED  BY <1>1
  <1>3. /\ i \in Int /\ 2 * (P - i * 100) \in -100..100
        /\ j \in Int /\ 2 * (Q - j * 100) \in -100..100
    BY ConvertNear
  <1>4. k \in Int /\ 2 * ((p - q) * R - k * 100) \in -100..100
    <2>1. p - q \in Int
      OBVIOUS
    <2> QED  BY <2>1, ConvertNear
  <1> HIDE DEF P, Q, R
  <1>5. (i - j) - k \in -1..1
    BY <1>2, <1>3, <1>4
  <1> QED  BY <1>5 DEF Close

LEMMA SumShown ==
    ASSUME NEW x \in Nat, NEW y \in Nat, NEW z \in Nat, NEW c \in Currency,
           NEW i \in Convert(x, c), NEW j \in Convert(y, c), NEW k \in Convert(z, c),
           NEW l \in Convert(x + y + z, c)
    PROVE  Close(i + j + k, l, 2)
  <1> DEFINE R == ExchangeRates[c]
             X == x * R
             Y == y * R
             Z == z * R
  <1>1. R \in Nat \ {0}
    BY RateType
  <1>2. X \in Int /\ Y \in Int /\ Z \in Int /\ (x + y + z) * R = X + Y + Z
    <2> HIDE DEF R
    <2> QED  BY <1>1
  <1>3. /\ i \in Int /\ 2 * (X - i * 100) \in -100..100
        /\ j \in Int /\ 2 * (Y - j * 100) \in -100..100
        /\ k \in Int /\ 2 * (Z - k * 100) \in -100..100
    BY ConvertNear
  <1>4. l \in Int /\ 2 * ((x + y + z) * R - l * 100) \in -100..100
    <2>1. x + y + z \in Int
      OBVIOUS
    <2> QED  BY <2>1, ConvertNear
  <1> HIDE DEF X, Y, Z, R
  <1>5. (i + j + k) - l \in -2..2
    BY <1>2, <1>3, <1>4
  <1> QED  BY <1>5 DEF Close

\* Months in proportion: what is spent ahead of what is earned is never more than the loss, and
\* is the loss in the end.
LEMMA LargestCashOut ==
    ASSUME NEW loss \in Int, NEW n \in Nat \ {0}
    PROVE  Max({0} \cup UNION {Rounded(m * loss, n) : m \in 1..n}) = Max({0, loss})
  <1> DEFINE S == {0} \cup UNION {Rounded(m * loss, n) : m \in 1..n}
             top == IF loss >= 0 THEN loss ELSE 0
  <1>1. ASSUME NEW m \in 1..n, NEW k \in Rounded(m * loss, n)
        PROVE  k \in Int /\ k <= top
    <2> DEFINE N == m * loss
    <2>1. N \in Int
      OBVIOUS
    <2>2. N <= n * top
      <3>1. CASE loss >= 0
        <4>1. (n - m) * loss >= 0
          BY <3>1
        <4>2. (n - m) * loss = n * loss - m * loss
          OBVIOUS
        <4> QED  BY <3>1, <4>1, <4>2
      <3>2. CASE loss < 0
        <4>1. m * loss <= 0
          BY <3>2
        <4>2. n * top = 0
          BY <3>2
        <4> QED  BY <4>1, <4>2
      <3> QED  BY <3>1, <3>2
    <2>3. k \in Int /\ 2 * (N - k * n) \in -n..n
      <3>1. k \in Rounded(N, n)
        OBVIOUS
      <3> HIDE DEF N
      <3> QED  BY <2>1, <3>1 DEF Rounded
    <2>4. ASSUME k > top
          PROVE  FALSE
      <3>0. top \in Int
        OBVIOUS
      <3> HIDE DEF top, N
      <3>1. (k - top - 1) * n >= 0
        BY <2>3, <2>4, <3>0
      <3>2. (k - top - 1) * n = k * n - n * top - n
        BY <2>3, <3>0
      <3>3. n * top \in Int /\ k * n \in Int
        BY <2>3, <3>0
      <3>4. k * n >= n * top + n
        BY <3>1, <3>2, <3>3
      <3>5. 2 * (N - k * n) <= -2 * n
        BY <2>1, <2>2, <3>3, <3>4
      <3> QED  BY <2>1, <2>3, <3>3, <3>5
    <2> QED  BY <2>3, <2>4
  <1>2. S \subseteq Int /\ \A y \in S : top >= y
    <2>1. \A y \in S : y = 0 \/ \E m \in 1..n : y \in Rounded(m * loss, n)
      OBVIOUS
    <2>2. top \in Int /\ top >= 0
      OBVIOUS
    <2> HIDE DEF S, top
    <2>3. ASSUME NEW y \in S
          PROVE  y \in Int /\ top >= y
      <3>1. CASE y = 0
        BY <2>2, <3>1
      <3>2. CASE \E m \in 1..n : y \in Rounded(m * loss, n)
        <4>1. y \in Int /\ y <= top
          BY <1>1, <3>2, Zenon
        <4> QED  BY <2>2, <4>1
      <3> QED  BY <2>1, <3>1, <3>2
    <2> QED  BY <2>3
  <1>3. top \in S
    <2>1. loss \in Rounded(n * loss, n)
      <3>1. n * loss \in Int /\ 2 * (n * loss - loss * n) = 0
        OBVIOUS
      <3> DEFINE N == n * loss
      <3>2. N \in Int /\ 2 * (N - loss * n) \in -n..n
        BY <3>1
      <3> HIDE DEF N
      <3>3. loss \in Rounded(N, n)
        BY <3>2, RoundedNear
      <3> QED  BY <3>3 DEF N
    <2>2. n \in 1..n
      OBVIOUS
    <2> QED  BY <2>1, <2>2
  <1>4. Max(S) = top
    <2> HIDE DEF S, top
    <2> QED  BY <1>2, <1>3, MaxIs
  <1>5. Max({0, loss}) = top
    <2>1. top >= 0 /\ top >= loss /\ top \in {0, loss}
      OBVIOUS
    <2> HIDE DEF top
    <2>2. {0, loss} \subseteq Int /\ \A y \in {0, loss} : top >= y
      BY <2>1
    <2> QED  BY <2>1, <2>2, MaxIs
  <1> QED  BY <1>4, <1>5

LEMMA BreaksEven ==
    ASSUME NEW p \in Nat, NEW cost \in Nat, NEW n \in Nat \ {0}
    PROVE  LET ahead == {m \in 1..n : m * p >= m * cost} IN
           IF ahead = {} THEN p < cost ELSE p >= cost /\ Min(ahead) = 1
  <1> DEFINE ahead == {m \in 1..n : m * p >= m * cost}
  <1>1. CASE p >= cost
    <2>1. 1 \in ahead /\ ahead \subseteq Int /\ \A m \in ahead : 1 <= m
      BY <1>1
    <2> HIDE DEF ahead
    <2>2. Min(ahead) = 1
      BY <2>1, MinIs
    <2> QED  BY <1>1, <2>1, <2>2 DEF ahead
  <1>2. CASE p < cost
    <2>1. ASSUME NEW m \in 1..n, m * p >= m * cost
          PROVE  FALSE
      <3>1. m * (cost - p) >= 1
        BY <1>2
      <3>2. m * (cost - p) = m * cost - m * p
        OBVIOUS
      <3>3. m * cost \in Int /\ m * p \in Int
        OBVIOUS
      <3> QED  BY <2>1, <3>1, <3>2, <3>3
    <2>2. ahead = {}
      BY <2>1
    <2> HIDE DEF ahead
    <2> QED  BY <1>2, <2>2 DEF ahead
  <1> QED  BY <1>1, <1>2

LEMMA SummaryAddsUp ==
    ASSUME NEW e \in Figures, NEW p \in EffectiveSellingPrice(e), NEW c \in Currency
    PROVE  LET s == Summary(e, p)
               chart == CostChart(e)
           IN  /\ \A price \in Convert(s.price, c), cost \in Convert(s.cost, c),
                     profit \in Convert(s.profit, c) : Close(price - cost, profit, 1)
               /\ \A x \in Convert(chart.onsite, c), y \in Convert(chart.offshore, c),
                     z \in Convert(chart.expenses, c), cost \in Convert(s.cost, c) :
                         Close(x + y + z, cost, 2)
               /\ s.breakEven = IF s.profit < 0 THEN None ELSE 1
               /\ s.cashOut = Max({0, -s.profit})
  <1> DEFINE s     == Summary(e, p)
             chart == CostChart(e)
             total == TotalProjectCost(e)
             n     == e.schedule.months
             ahead == {m \in 1..n : m * p >= m * total}
             out   == Max({0} \cup UNION {Rounded(m * (total - p), n) : m \in 1..n})
  <1>1. /\ chart.onsite \in Nat /\ chart.offshore \in Nat /\ chart.expenses \in Nat
        /\ total = chart.onsite + chart.offshore + chart.expenses
    BY ChartAddsUp, SumsNat DEF TotalProjectCost
  <1>2. p \in Nat /\ n \in Nat \ {0}
    BY PriceIs, FiguresParts DEF Schedule
  <1>3. s = [cost |-> total, price |-> p, profit |-> p - total,
             breakEven |-> IF ahead = {} THEN None ELSE Min(ahead), cashOut |-> out]
    BY DEF Summary
  <1> HIDE DEF chart, total, n, s
  <1>4. total \in Nat
    BY <1>1
  <1>5. s.cost = total /\ s.price = p /\ s.profit = p - total /\ s.cashOut = out
        /\ s.breakEven = IF ahead = {} THEN None ELSE Min(ahead)
    BY <1>3
  <1>6. s.breakEven = IF s.profit < 0 THEN None ELSE 1
    <2>1. IF ahead = {} THEN p < total ELSE p >= total /\ Min(ahead) = 1
      BY <1>2, <1>4, BreaksEven
    <2> HIDE DEF ahead, out
    <2> QED  BY <1>2, <1>4, <1>5, <2>1
  <1>7. s.cashOut = Max({0, -s.profit})
    <2> DEFINE loss == total - p
    <2>1. loss \in Int /\ -(p - total) = loss
      BY <1>2, <1>4
    <2>2. out = Max({0, loss})
      <3> HIDE DEF loss
      <3>1. Max({0} \cup UNION {Rounded(m * loss, n) : m \in 1..n}) = Max({0, loss})
        BY <1>2, <2>1, LargestCashOut
      <3> QED  BY <3>1 DEF loss
    <2> HIDE DEF out, loss
    <2> QED  BY <1>5, <2>1, <2>2
  <1> HIDE DEF ahead, out
  <1>8. ASSUME NEW price \in Convert(s.price, c), NEW cost \in Convert(s.cost, c),
               NEW profit \in Convert(s.profit, c)
        PROVE  Close(price - cost, profit, 1)
    BY <1>2, <1>4, <1>5, DifferenceShown
  <1>9. ASSUME NEW x \in Convert(chart.onsite, c), NEW y \in Convert(chart.offshore, c),
               NEW z \in Convert(chart.expenses, c), NEW cost \in Convert(s.cost, c)
        PROVE  Close(x + y + z, cost, 2)
    BY <1>1, <1>5, SumShown
  <1> QED  BY <1>6, <1>7, <1>8, <1>9 DEF s, chart

-----------------------------------------------------------------------------
(* Drift.  Saving a page moves a stored amount, but never past certain        *)
(* amounts: none moves below a floor, or above a ceiling.  They come back     *)
(* every hundred cents, since a hundred cents are a whole number of cents in  *)
(* every currency, and no amount is more than four cents from one of either.  *)

Floors == {0, 5, 10, 15, 18, 23, 28, 32, 34, 39, 42, 47, 52, 57, 61, 65, 70, 73, 76, 81,
           86, 89, 92, 97}
Ceilings == {0, 3, 8, 11, 14, 19, 24, 27, 30, 35, 39, 43, 48, 53, 58, 61, 66, 68, 72, 77,
             82, 85, 90, 95}

\* s is where t can get: at no floor below t and no ceiling above it is it outside.
Near(s, t) ==
    /\ s \in Nat
    /\ \A q \in Int :
          /\ \A r \in Floors : 100 * q + r <= t => 100 * q + r <= s
          /\ \A r \in Ceilings : t <= 100 * q + r => s <= 100 * q + r

\* The currencies that are worth more than the dollar, and the others.
LEMMA Rate ==
    ASSUME NEW c \in Currency
    PROVE  ExchangeRates[c] \in {31, 38, 79, 92} \/ ExchangeRates[c] >= 100
  <1>1. c \in DOMAIN ExchangeRates
    BY EstimationAssumption
  <1> QED  BY <1>1 DEF ExchangeRates

\* From s to a and on to u: there and back, at rate R.
Back(s, a, u, R) ==
    2 * (s * R - a * 100) \in -100..100 /\ 2 * (a * 100 - u * R) \in -R..R

LEMMA FloorsHold ==
    ASSUME NEW q \in Int, NEW r \in Floors, NEW s \in Int, NEW a \in Int, NEW u \in Int,
           NEW R \in {31, 38, 79, 92}, Back(s, a, u, R), 100 * q + r <= s
    PROVE  100 * q + r <= u
  <1>1. CASE R = 31
    BY <1>1, SMTT(30) DEF Floors, Back
  <1>2. CASE R = 38
    BY <1>2, SMTT(30) DEF Floors, Back
  <1>3. CASE R = 79
    BY <1>3, SMTT(30) DEF Floors, Back
  <1>4. CASE R = 92
    BY <1>4, SMTT(30) DEF Floors, Back
  <1> QED  BY <1>1, <1>2, <1>3, <1>4

LEMMA CeilingsHold ==
    ASSUME NEW q \in Int, NEW r \in Ceilings, NEW s \in Int, NEW a \in Int, NEW u \in Int,
           NEW R \in {31, 38, 79, 92}, Back(s, a, u, R), s <= 100 * q + r
    PROVE  u <= 100 * q + r
  <1>1. CASE R = 31
    BY <1>1, SMTT(30) DEF Ceilings, Back
  <1>2. CASE R = 38
    BY <1>2, SMTT(30) DEF Ceilings, Back
  <1>3. CASE R = 79
    BY <1>3, SMTT(30) DEF Ceilings, Back
  <1>4. CASE R = 92
    BY <1>4, SMTT(30) DEF Ceilings, Back
  <1> QED  BY <1>1, <1>2, <1>3, <1>4

LEMMA NearSelf ==
    ASSUME NEW t \in Nat
    PROVE  Near(t, t)
  BY DEF Near

\* An amount that is shown in some currency and saved stays where it can get.
LEMMA NearStep ==
    ASSUME NEW t \in Nat, NEW s, Near(s, t), NEW c \in Currency,
           NEW a \in Convert(s, c), NEW u \in ConvertToBaseUSD(a, c)
    PROVE  Near(u, t)
  <1> DEFINE R == ExchangeRates[c]
  <1>1. s \in Nat /\ R \in Nat \ {0}
    BY RateType DEF Near
  <1>2. a \in Nat /\ u \in Nat
    BY <1>1, ConversionsNat
  <1>3. Back(s, a, u, R)
    <2>1. a \in Rounded(s * R, 100) /\ u \in Rounded(a * 100, R)
      BY DEF Convert, ConvertToBaseUSD
    <2> HIDE DEF R
    <2> QED  BY <1>1, <1>2, <2>1 DEF Rounded, Back
  <1>4. R \in {31, 38, 79, 92} \/ R >= 100
    BY Rate
  <1> HIDE DEF R
  <1>5. CASE R \in {31, 38, 79, 92}
    <2>1. ASSUME NEW q \in Int, NEW r \in Floors, 100 * q + r <= t
          PROVE  100 * q + r <= u
      <3>1. 100 * q + r <= s
        BY <2>1 DEF Near
      <3> QED  BY <1>1, <1>2, <1>3, <1>5, <3>1, FloorsHold
    <2>2. ASSUME NEW q \in Int, NEW r \in Ceilings, t <= 100 * q + r
          PROVE  u <= 100 * q + r
      <3>1. s <= 100 * q + r
        BY <2>2 DEF Near
      <3> QED  BY <1>1, <1>2, <1>3, <1>5, <3>1, CeilingsHold
    <2> QED  BY <1>2, <2>1, <2>2 DEF Near
  <1>6. CASE R >= 100
    <2> DEFINE X == s * R
               Y == u * R
    <2>1. X \in Int /\ Y \in Int /\ (s - u) * R = X - Y
      BY <1>1, <1>2
    <2>2. 2 * (X - a * 100) \in -100..100 /\ 2 * (a * 100 - Y) \in -R..R
      BY <1>3 DEF Back
    <2>3. s = u
      <3>1. CASE R = 100
        BY <1>1, <1>2, <2>2, <3>1
      <3>2. CASE R > 100
        <4>1. X - Y < R /\ X - Y > -R
          <5> HIDE DEF X, Y
          <5> QED  BY <1>1, <1>2, <2>1, <2>2, <3>2
        <4>2. (s - u) * R < R /\ (s - u) * R > -R
          BY <2>1, <4>1
        <4> HIDE DEF X, Y
        <4> QED  BY <1>1, <1>2, <4>2
      <3> QED  BY <1>1, <1>6, <3>1, <3>2
    <2> QED  BY <2>3
  <1> QED  BY <1>4, <1>5, <1>6

LEMMA NearClose ==
    ASSUME NEW t \in Nat, NEW s, Near(s, t)
    PROVE  Close(s, t, MaxDrift)
  <1> DEFINE q == t \div 100
             m == t % 100
  <1>1. s \in Nat /\ q \in Int /\ m \in 0..99 /\ t = 100 * q + m
    BY DEF Near
  <1> HIDE DEF q, m
  <1>2. PICK r \in Floors : r <= m /\ m <= r + 4
    BY <1>1, SMTT(30) DEF Floors
  <1>3. s >= t - 4
    <2>1. r \in Int /\ 100 * q + r <= t
      BY <1>1, <1>2 DEF Floors
    <2>2. 100 * q + r <= s
      BY <1>1, <2>1 DEF Near
    <2> QED  BY <1>1, <1>2, <2>1, <2>2
  <1>4. s <= t + 4
    <2>1. CASE m >= 96
      <3>1. q + 1 \in Int /\ 0 \in Ceilings /\ t <= 100 * (q + 1) + 0
        BY <1>1, <2>1 DEF Ceilings
      <3>2. s <= 100 * (q + 1) + 0
        BY <3>1 DEF Near
      <3> QED  BY <1>1, <2>1, <3>2
    <2>2. CASE m < 96
      <3>1. PICK x \in Ceilings : m <= x /\ x <= m + 4
        BY <1>1, <2>2, SMTT(30) DEF Ceilings
      <3>2. x \in Int /\ t <= 100 * q + x
        BY <1>1, <3>1 DEF Ceilings
      <3>3. s <= 100 * q + x
        BY <1>1, <3>2 DEF Near
      <3> QED  BY <1>1, <3>1, <3>2, <3>3
    <2> QED  BY <1>1, <2>1, <2>2
  <1>5. s - t \in -4..4
    BY <1>1, <1>3, <1>4
  <1> QED  BY <1>5 DEF Close, MaxDrift

-----------------------------------------------------------------------------
(* The estimation and the page of the client, as they change.              *)

EstimationInv ==
    /\ required \in Required
    /\ est \in Figures \cup {None}
    /\ page # None => Shows(page)
    /\ DatesOrdered

LEMMA EstimateType ==
    ASSUME EstimationInv
    PROVE  Estimate \in Figures /\ ~Before(Estimate.schedule.end, Estimate.schedule.start)
  BY DraftType DEF EstimationInv, DatesOrdered, Estimate

LEMMA TargetType ==
    ASSUME NEW e \in Figures, NEW param \in Currency \cup {None}
    PROVE  Target(param, e) \in Currency
  BY FiguresParts DEF Target

LEMMA EstimationInit == Init => EstimationInv
  BY DEF Init, EstimationInv, DatesOrdered

LEMMA UpdateKeeps ==
    ASSUME EstimationInv, NEW b \in Body, NEW param \in Currency \cup {None},
           UpdateCommercial(b, param)
    PROVE  EstimationInv'
  <1>1. Estimate \in Figures
    BY EstimateType
  <1>2. /\ Valid(b)
        /\ SolveDates(b.start, b.months, b.end, Estimate.schedule.start) # None
        /\ est' \in Updated(Estimate, b)
        /\ page' \in Details(est', Target(param, est'))
        /\ required' = required
    BY DEF UpdateCommercial
  <1> DEFINE old == Estimate
             new == est'
  <1>3. old \in Figures /\ new \in Updated(old, b)
        /\ SolveDates(b.start, b.months, b.end, old.schedule.start) # None
    BY <1>1, <1>2
  <1> HIDE DEF old, new
  <1>4. new \in Figures /\ ~Before(new.schedule.end, new.schedule.start)
    BY <1>2, <1>3, UpdatedType
  <1> DEFINE c    == Target(param, new)
             seen == page'
  <1>5. c \in Currency
    BY <1>4, TargetType
  <1>6. seen \in Details(new, c)
    BY <1>2 DEF new
  <1> HIDE DEF c, seen
  <1>7. Shows(seen) /\ seen.schedule = new.schedule
    BY <1>4, <1>5, <1>6, DetailsShow
  <1>8. required' \in Required
    BY <1>2 DEF EstimationInv
  <1>9. Shows(page)'
    BY <1>7 DEF seen, Shows
  <1> QED  BY <1>4, <1>7, <1>8, <1>9 DEF EstimationInv, DatesOrdered, new, seen

LEMMA GetKeeps ==
    ASSUME EstimationInv, NEW param \in Currency \cup {None}, GetCommercial(param)
    PROVE  EstimationInv'
  <1> DEFINE old  == Estimate
             c    == Target(param, old)
             seen == page'
  <1>1. old \in Figures /\ ~Before(old.schedule.end, old.schedule.start)
    BY EstimateType
  <1>2. c \in Currency
    BY <1>1, TargetType
  <1>3. seen \in Details(old, c) /\ required' = required /\ est' = est
    BY DEF GetCommercial
  <1> HIDE DEF old, c, seen
  <1>4. Shows(seen) /\ seen.schedule = old.schedule
    BY <1>1, <1>2, <1>3, DetailsShow
  <1>5. Shows(page)'
    BY <1>4 DEF seen, Shows
  <1> QED  BY <1>1, <1>3, <1>4, <1>5 DEF EstimationInv, DatesOrdered, seen

LEMMA ResendIs ==
    ASSUME EstimationInv, NEW param \in Currency \cup {None}, Resend(param)
    PROVE  /\ Shows(page) /\ AsShown(page) \in Body
           /\ UpdateCommercial(AsShown(page), param)
  <1>1. page # None /\ Shows(page) /\ UpdateCommercial(AsShown(page), param)
    BY DEF EstimationInv, Resend, AsShown
  <1>2. page \in Figures
    BY <1>1 DEF Shows
  <1> QED  BY <1>1, <1>2, AsShownType

LEMMA EstimationStep == EstimationInv /\ [Next]_vars => EstimationInv'
  <1> SUFFICES ASSUME EstimationInv, [Next]_vars
               PROVE  EstimationInv'
    OBVIOUS
  <1>1. ASSUME NEW param \in Currency \cup {None}, GetCommercial(param)
        PROVE  EstimationInv'
    BY <1>1, GetKeeps
  <1>2. ASSUME NEW param \in Currency \cup {None}, NEW b \in Bodies, Patch(b, param)
        PROVE  EstimationInv'
    <2>1. b \in Body /\ UpdateCommercial(b, param)
      BY <1>2, EstimationAssumption DEF Patch
    <2> QED  BY <2>1, UpdateKeeps
  <1>3. ASSUME NEW param \in Currency \cup {None}, Resend(param)
        PROVE  EstimationInv'
    BY <1>3, ResendIs, UpdateKeeps
  <1>4. CASE UNCHANGED vars
    BY <1>4 DEF EstimationInv, DatesOrdered, Shows, vars
  <1> QED  BY <1>1, <1>2, <1>3, <1>4 DEF Next

\* Whatever dates bodies name, and whatever they leave out, neither the estimation nor a
\* page that was answered ends before it starts (SolveDates).
THEOREM DatesOrderedHolds == Spec => []DatesOrdered
  <1>1. EstimationInv => DatesOrdered
    BY DEF EstimationInv
  <1> QED  BY <1>1, EstimationInit, EstimationStep, PTL DEF Spec

\* A page that is saved as it is shown, in any currency, keeps its start, its duration and
\* its amounts: what is stored converts back to what the page showed (ConvertToBaseUSD and
\* Convert).  Its end becomes the start plus the duration (SolveDates).
THEOREM ResendKeepsPageHolds == Spec => ResendKeepsPage
  <1> DEFINE Kept == \A param \in Currency \cup {None} :
                         Resend(param) => Resolved(page) \in Details(est', page.currency)
  <1>1. ASSUME EstimationInv, NEW param \in Currency \cup {None}, Resend(param)
        PROVE  Resolved(page) \in Details(est', page.currency)
    <2>1. Shows(page) /\ UpdateCommercial(AsShown(page), param)
      BY <1>1, ResendIs
    <2>2. Estimate \in Figures /\ est' \in Updated(Estimate, AsShown(page))
      BY <1>1, <2>1, EstimateType DEF UpdateCommercial
    <2> QED  BY <2>1, <2>2, ResentKept
  <1>2. EstimationInv /\ [Next]_vars => [Kept]_vars
    BY <1>1
  <1> HIDE DEF Kept
  <1>3. Spec => [][Kept]_vars
    BY <1>2, EstimationInit, EstimationStep, PTL DEF Spec
  <1> QED  BY <1>3 DEF ResendKeepsPage, Kept

\* What is stored with an estimation: its price, and the amounts as they were typed.
PriceInv ==
    /\ IF est = None THEN value = None ELSE value \in EffectiveSellingPrice(est)
    /\ typed.manual \in Nat \cup {None}
    /\ typed.rates \in Seq(Nat) /\ typed.expenses \in Seq(Nat)

LEMMA RatesType ==
    ASSUME NEW e \in Figures
    PROVE  Rates(e) \in Seq(Nat)
  <1>1. e.resources \in Seq(Resource) /\ \A i \in DOMAIN e.resources : e.resources[i].rate \in Nat
    BY FiguresParts
  <1> DEFINE n == Len(e.resources)
  <1>2. n \in Nat /\ DOMAIN e.resources = 1..n
    BY <1>1
  <1> HIDE DEF n
  <1>3. Rates(e) \in [1..n -> Nat]
    BY <1>1, <1>2 DEF Rates
  <1> QED  BY <1>2, <1>3, SeqDef

LEMMA PriceStep == EstimationInv /\ PriceInv /\ EstimationInv' /\ [Next]_vars => PriceInv'
  <1> SUFFICES ASSUME EstimationInv, PriceInv, EstimationInv', [Next]_vars
               PROVE  PriceInv'
    OBVIOUS
  <1>1. ASSUME NEW b \in Body, NEW param \in Currency \cup {None}, UpdateCommercial(b, param)
        PROVE  est' \in Figures /\ value' \in EffectiveSellingPrice(est')
    <2>1. Estimate \in Figures
      BY EstimateType
    <2> DEFINE new == est'
               old == Estimate
    <2>2. /\ Valid(b) /\ SolveDates(b.start, b.months, b.end, old.schedule.start) # None
          /\ new \in Updated(old, b) /\ value' \in EffectiveSellingPrice(new)
      BY <1>1 DEF UpdateCommercial
    <2>3. new \in Figures
      <3> HIDE DEF new, old
      <3>1. old \in Figures
        BY <2>1 DEF old
      <3> QED  BY <2>2, <3>1, UpdatedType
    <2> QED  BY <2>2, <2>3
  <1>2. ASSUME NEW param \in Currency \cup {None}, GetCommercial(param)
        PROVE  PriceInv'
    BY <1>2 DEF GetCommercial, PriceInv
  <1>3. ASSUME NEW param \in Currency \cup {None}, NEW b \in Bodies, Patch(b, param)
        PROVE  PriceInv'
    <2>1. b \in Body /\ UpdateCommercial(b, param)
      BY <1>3, EstimationAssumption DEF Patch
    <2>2. est' \in Figures /\ value' \in EffectiveSellingPrice(est')
      BY <1>1, <2>1
    <2>3. est' # None
      BY <2>2, EstimationAssumption
    <2>4. est'.manual \in Nat \cup {None} /\ est'.expenses \in Seq(Nat) /\ Rates(est') \in Seq(Nat)
      <3> DEFINE new == est'
      <3>1. new \in Figures
        BY <2>2
      <3> HIDE DEF new
      <3>2. new.manual \in Nat \cup {None} /\ new.expenses \in Seq(Nat) /\ Rates(new) \in Seq(Nat)
        BY <3>1, FiguresParts, RatesType
      <3> QED  BY <3>2 DEF new
    <2>5. typed' = [manual |-> est'.manual,
                    rates |-> IF b.resources = None THEN typed.rates ELSE Rates(est'),
                    expenses |-> IF b.expenses = None THEN typed.expenses ELSE est'.expenses]
      BY <1>3 DEF Patch
    <2>6. /\ typed'.manual \in Nat \cup {None}
          /\ typed'.rates \in Seq(Nat) /\ typed'.expenses \in Seq(Nat)
      BY <2>4, <2>5 DEF PriceInv
    <2> QED  BY <2>2, <2>3, <2>6 DEF PriceInv
  <1>4. ASSUME NEW param \in Currency \cup {None}, Resend(param)
        PROVE  PriceInv'
    <2>1. est' \in Figures /\ value' \in EffectiveSellingPrice(est')
      BY <1>1, <1>4, ResendIs
    <2>2. typed' = typed /\ est' # None
      BY <1>4, <2>1, EstimationAssumption DEF Resend
    <2> QED  BY <2>1, <2>2 DEF PriceInv
  <1>5. CASE UNCHANGED vars
    BY <1>5 DEF PriceInv, vars
  <1> QED  BY <1>2, <1>3, <1>4, <1>5 DEF Next

LEMMA PriceInit == Init => PriceInv
  BY EmptySeq DEF Init, PriceInv

LEMMA PriceHolds == Spec => [](EstimationInv /\ PriceInv)
  BY EstimationInit, EstimationStep, PriceInit, PriceStep, PTL DEF Spec

\* Everything that is stored, and everything that is shown, is of its type: in particular the
\* value of the lead is an amount, so no sum and no rounding of the calculator goes below zero.
THEOREM TypeCorrect == Spec => []TypeOK
  <1>1. EstimationInv /\ PriceInv => TypeOK
    <2> SUFFICES ASSUME EstimationInv, PriceInv PROVE TypeOK
      OBVIOUS
    <2>1. value \in Nat \cup {None}
      BY PriceIs DEF EstimationInv, PriceInv
    <2> QED  BY <2>1 DEF EstimationInv, PriceInv, Shows, TypeOK
  <1> QED  BY <1>1, PriceHolds, PTL

\* The calculator, leads.value, the page of the lead and the lists of leads agree, whatever was
\* saved, on whether the lead has a price and, up to a cent, on the price.
THEOREM PricesAgreeHolds == Spec => []PricesAgree
  <1>1. EstimationInv /\ PriceInv => PricesAgree
    <2> SUFFICES ASSUME EstimationInv, PriceInv, est # None, est.manual # 0
                 PROVE  /\ \A p \in EffectiveSellingPrice(est) :
                              /\ Close(p, value, 1)
                              /\ \A q \in LeadPrice(est) \cup ListPrice(est) :
                                    IF q = None THEN p = 0 ELSE Close(p, q, 1)
                        /\ None \in LeadPrice(est) <=> None \in ListPrice(est)
      BY DEF PricesAgree
    <2>1. est \in Figures /\ value \in EffectiveSellingPrice(est)
      BY DEF EstimationInv, PriceInv
    <2> QED  BY <2>1, PlacesAgree
  <1> QED  BY <1>1, PriceHolds, PTL

\* In every currency a page may be asked in, the profit shown is, up to a cent, the price less the
\* cost, and the bars of the cost chart make up the cost; the estimation breaks even in its first
\* month or never; its largest cash out is its loss (CalculateFinancialSummary, GetAnalytics).
THEOREM FiguresAddUpHolds == Spec => []FiguresAddUp
  <1>1. EstimationInv => FiguresAddUp
    <2> SUFFICES ASSUME EstimationInv, est # None PROVE FiguresAddUp
      BY DEF FiguresAddUp
    <2>1. est \in Figures
      BY DEF EstimationInv
    <2> QED  BY <2>1, SummaryAddsUp DEF FiguresAddUp
  <1> QED  BY <1>1, EstimationInit, EstimationStep, PTL DEF Spec

\* The amounts of e are where those that were typed, t, can get.
Follows(e, t) ==
    /\ IF t.manual = None THEN e.manual = None ELSE Near(e.manual, t.manual)
    /\ DOMAIN e.resources = DOMAIN t.rates
    /\ \A i \in DOMAIN t.rates : Near(e.resources[i].rate, t.rates[i])
    /\ DOMAIN e.expenses = DOMAIN t.expenses
    /\ \A i \in DOMAIN t.expenses : Near(e.expenses[i], t.expenses[i])

\* The client's page shows what is stored, and what is stored follows what was typed.
DriftInv ==
    /\ page # None => page \in Details(Estimate, page.currency)
    /\ Follows(Estimate, typed)

LEMMA DriftInit == Init => DriftInv
  BY DEF Init, DriftInv, Follows, Estimate, Draft

LEMMA PatchedFollows ==
    ASSUME NEW e \in Figures, NEW b \in Body, Valid(b),
           SolveDates(b.start, b.months, b.end, e.schedule.start) # None,
           NEW x \in Updated(e, b), NEW t, Follows(e, t)
    PROVE  Follows(x, [manual |-> x.manual,
                       rates |-> IF b.resources = None THEN t.rates ELSE Rates(x),
                       expenses |-> IF b.expenses = None THEN t.expenses ELSE x.expenses])
  <1> DEFINE new == [manual |-> x.manual,
                     rates |-> IF b.resources = None THEN t.rates ELSE Rates(x),
                     expenses |-> IF b.expenses = None THEN t.expenses ELSE x.expenses]
  <1>1. x \in Figures
    BY UpdatedType
  <1>2. /\ x.manual \in Nat \cup {None}
        /\ \A i \in DOMAIN x.resources : x.resources[i].rate \in Nat
        /\ \A i \in DOMAIN x.expenses : x.expenses[i] \in Nat
    BY <1>1, FiguresParts
  <1>3. /\ b.resources = None => x.resources = e.resources
        /\ b.expenses = None => x.expenses = e.expenses
    BY DEF Updated
  <1>4. IF new.manual = None THEN x.manual = None ELSE Near(x.manual, new.manual)
    BY <1>2, NearSelf
  <1>5. /\ DOMAIN x.resources = DOMAIN new.rates
        /\ \A i \in DOMAIN new.rates : Near(x.resources[i].rate, new.rates[i])
    <2>1. CASE b.resources = None
      BY <1>3, <2>1 DEF Follows
    <2>2. CASE b.resources # None
      <3>1. new.rates = Rates(x)
        BY <2>2
      <3> HIDE DEF new
      <3>2. DOMAIN Rates(x) = DOMAIN x.resources
            /\ \A i \in DOMAIN x.resources : Rates(x)[i] = x.resources[i].rate
        BY DEF Rates
      <3> QED  BY <1>2, <3>1, <3>2, NearSelf
    <2> QED  BY <2>1, <2>2
  <1>6. /\ DOMAIN x.expenses = DOMAIN new.expenses
        /\ \A i \in DOMAIN new.expenses : Near(x.expenses[i], new.expenses[i])
    <2>1. CASE b.expenses = None
      BY <1>3, <2>1 DEF Follows
    <2>2. CASE b.expenses # None
      BY <1>2, <2>2, NearSelf
    <2> QED  BY <2>1, <2>2
  <1> HIDE DEF new
  <1>7. Follows(x, new)
    BY <1>4, <1>5, <1>6 DEF Follows
  <1> QED  BY <1>7 DEF new

LEMMA ResentFollows ==
    ASSUME NEW e \in Figures, NEW p, Shows(p), p \in Details(e, p.currency),
           NEW x \in Updated(e, AsShown(p)), NEW t,
           t.manual \in Nat \cup {None}, t.rates \in Seq(Nat), t.expenses \in Seq(Nat),
           Follows(e, t)
    PROVE  Follows(x, t)
  <1> DEFINE c == p.currency
  <1>1. c \in Currency /\ p \in Details(e, c)
    BY FiguresParts DEF Shows
  <1>2. /\ \A i \in DOMAIN t.rates : t.rates[i] \in Nat
        /\ \A i \in DOMAIN t.expenses : t.expenses[i] \in Nat
    BY SeqDomain
  <1>3. /\ IF p.manual = None THEN x.manual = None ELSE x.manual \in Stored(c)[p.manual]
        /\ DOMAIN x.resources = DOMAIN p.resources
        /\ \A i \in DOMAIN p.resources : x.resources[i].rate \in Stored(c)[p.resources[i].rate]
        /\ DOMAIN x.expenses = DOMAIN p.expenses
        /\ \A i \in DOMAIN p.expenses : x.expenses[i] \in Stored(c)[p.expenses[i]]
    BY ResentKept
  <1>p. p \in Figures
    BY DEF Shows
  <1>4. /\ p.manual \in Nat \cup {None}
        /\ \A i \in DOMAIN p.resources : p.resources[i].rate \in Nat
        /\ \A i \in DOMAIN p.expenses : p.expenses[i] \in Nat
    BY <1>p, FiguresParts
  <1> HIDE DEF c
  <1>5. /\ IF e.manual = None THEN p.manual = None ELSE p.manual \in Shown(c)[e.manual]
        /\ DOMAIN p.resources = DOMAIN e.resources
        /\ \A i \in DOMAIN e.resources : p.resources[i].rate \in Shown(c)[e.resources[i].rate]
        /\ DOMAIN p.expenses = DOMAIN e.expenses
        /\ \A i \in DOMAIN e.expenses : p.expenses[i] \in Shown(c)[e.expenses[i]]
    BY <1>1, DetailsShow
  <1>6. ASSUME NEW typ \in Nat, NEW s, Near(s, typ), NEW a \in Shown(c)[s], a \in Nat,
               NEW u \in Stored(c)[a]
        PROVE  Near(u, typ)
    <2>1. s \in Nat
      BY <1>6 DEF Near
    <2>2. a \in Convert(s, c) /\ u \in ConvertToBaseUSD(a, c)
      BY <1>6, <2>1 DEF Shown, Stored
    <2> QED  BY <1>1, <1>6, <2>2, NearStep
  <1>7. IF t.manual = None THEN x.manual = None ELSE Near(x.manual, t.manual)
    <2>1. CASE t.manual = None
      BY <1>3, <1>5, <2>1 DEF Follows
    <2>2. CASE t.manual # None
      <3>1. t.manual \in Nat /\ Near(e.manual, t.manual)
        BY <2>2 DEF Follows
      <3>2. e.manual # None
        BY <3>1, NoneApart DEF Near
      <3>3. p.manual \in Shown(c)[e.manual] /\ p.manual \in Nat
        <4>1. e.manual \in Nat
          BY <3>1 DEF Near
        <4>2. Shown(c)[e.manual] \subseteq Nat
          BY <1>1, <4>1, ConversionsNat DEF Shown
        <4> QED  BY <1>5, <3>2, <4>2
      <3>4. x.manual \in Stored(c)[p.manual]
        BY <1>3, <3>3, NoneApart
      <3> QED  BY <1>6, <2>2, <3>1, <3>3, <3>4
    <2> QED  BY <2>1, <2>2
  <1>8. /\ DOMAIN x.resources = DOMAIN t.rates
        /\ \A i \in DOMAIN t.rates : Near(x.resources[i].rate, t.rates[i])
    BY <1>2, <1>3, <1>4, <1>5, <1>6 DEF Follows
  <1>9. /\ DOMAIN x.expenses = DOMAIN t.expenses
        /\ \A i \in DOMAIN t.expenses : Near(x.expenses[i], t.expenses[i])
    BY <1>2, <1>3, <1>4, <1>5, <1>6 DEF Follows
  <1> QED  BY <1>7, <1>8, <1>9 DEF Follows

LEMMA DriftStep ==
    EstimationInv /\ PriceInv /\ DriftInv /\ [Next]_vars => DriftInv'
  <1> SUFFICES ASSUME EstimationInv, PriceInv, DriftInv, [Next]_vars
               PROVE  DriftInv'
    OBVIOUS
  <1>0. Estimate \in Figures
    BY EstimateType
  <1>1. ASSUME NEW b \in Body, NEW param \in Currency \cup {None}, UpdateCommercial(b, param)
        PROVE  /\ Valid(b) /\ SolveDates(b.start, b.months, b.end, Estimate.schedule.start) # None
               /\ est' \in Updated(Estimate, b) /\ Estimate' = est'
               /\ page' \in Details(est', page'.currency)
    <2> DEFINE old  == Estimate
               new  == est'
               seen == page'
               c    == Target(param, new)
    <2>1. /\ Valid(b) /\ SolveDates(b.start, b.months, b.end, old.schedule.start) # None
          /\ new \in Updated(old, b) /\ seen \in Details(new, c)
      BY <1>1 DEF UpdateCommercial
    <2>2. new \in Figures
      <3> HIDE DEF new, seen, c, old
      <3>1. old \in Figures
        BY <1>0 DEF old
      <3> QED  BY <2>1, <3>1, UpdatedType
    <2>3. c \in Currency
      <3> HIDE DEF new
      <3> QED  BY <2>2, TargetType
    <2>4. seen.currency = c
      <3> HIDE DEF new, seen, c
      <3> QED  BY <2>1, <2>2, <2>3, DetailsShow
    <2>5. new # None
      BY <2>2, EstimationAssumption
    <2>6. Estimate' = est'
      BY <2>5 DEF Estimate
    <2> QED  BY <2>1, <2>4, <2>6
  <1>2. ASSUME NEW param \in Currency \cup {None}, GetCommercial(param)
        PROVE  DriftInv'
    <2> DEFINE old  == Estimate
               seen == page'
               c    == Target(param, old)
    <2>1. seen \in Details(old, c) /\ UNCHANGED <<required, est, typed>>
      BY <1>2 DEF GetCommercial
    <2>2. c \in Currency
      BY <1>0, TargetType
    <2>3. seen.currency = c
      <3> HIDE DEF seen, c, old
      <3>1. old \in Figures
        BY <1>0 DEF old
      <3> QED  BY <2>1, <2>2, <3>1, DetailsShow
    <2>4. Estimate' = Estimate
      BY <2>1 DEF Estimate, Draft
    <2> QED  BY <2>1, <2>3, <2>4 DEF DriftInv, Follows
  <1>3. ASSUME NEW param \in Currency \cup {None}, NEW b \in Bodies, Patch(b, param)
        PROVE  DriftInv'
    <2>1. b \in Body /\ UpdateCommercial(b, param)
      BY <1>3, EstimationAssumption DEF Patch
    <2>2. /\ Valid(b) /\ SolveDates(b.start, b.months, b.end, Estimate.schedule.start) # None
          /\ est' \in Updated(Estimate, b) /\ Estimate' = est'
          /\ page' \in Details(est', page'.currency)
      BY <1>1, <2>1
    <2>3. typed' = [manual |-> est'.manual,
                    rates |-> IF b.resources = None THEN typed.rates ELSE Rates(est'),
                    expenses |-> IF b.expenses = None THEN typed.expenses ELSE est'.expenses]
      BY <1>3 DEF Patch
    <2>4. Follows(est', typed')
      <3> DEFINE old == Estimate
                 new == est'
                 was == typed
      <3>1. /\ old \in Figures /\ new \in Updated(old, b) /\ Follows(old, was)
            /\ SolveDates(b.start, b.months, b.end, old.schedule.start) # None
        BY <1>0, <2>2 DEF DriftInv
      <3> HIDE DEF old, new, was
      <3>2. Follows(new, [manual |-> new.manual,
                          rates |-> IF b.resources = None THEN was.rates ELSE Rates(new),
                          expenses |-> IF b.expenses = None THEN was.expenses ELSE new.expenses])
        BY <2>1, <2>2, <3>1, PatchedFollows
      <3> QED  BY <2>3, <3>2 DEF new, was
    <2> QED  BY <2>2, <2>4 DEF DriftInv, Follows
  <1>4. ASSUME NEW param \in Currency \cup {None}, Resend(param)
        PROVE  DriftInv'
    <2>1. /\ Shows(page) /\ AsShown(page) \in Body
          /\ UpdateCommercial(AsShown(page), param)
      BY <1>4, ResendIs
    <2>2. /\ est' \in Updated(Estimate, AsShown(page)) /\ Estimate' = est'
          /\ page' \in Details(est', page'.currency)
      <3> DEFINE b == AsShown(page)
      <3>1. b \in Body /\ UpdateCommercial(b, param)
        BY <2>1
      <3> HIDE DEF b
      <3>2. /\ est' \in Updated(Estimate, b) /\ Estimate' = est'
            /\ page' \in Details(est', page'.currency)
        BY <1>1, <3>1
      <3> QED  BY <3>2 DEF b
    <2>3. page # None /\ typed' = typed
      BY <1>4 DEF Resend
    <2>4. Follows(est', typed)
      <3> DEFINE old == Estimate
                 new == est'
      <3>1. old \in Figures /\ new \in Updated(old, AsShown(page)) /\ Follows(old, typed)
            /\ page \in Details(old, page.currency)
        BY <1>0, <2>2, <2>3 DEF DriftInv
      <3> HIDE DEF old, new
      <3>2. Follows(new, typed)
        BY <2>1, <3>1, ResentFollows DEF PriceInv
      <3> QED  BY <3>2 DEF new
    <2> QED  BY <2>2, <2>3, <2>4 DEF DriftInv, Follows
  <1>5. CASE UNCHANGED vars
    <2>1. Estimate' = Estimate /\ page' = page /\ typed' = typed
      BY <1>5 DEF vars, Estimate, Draft
    <2> QED  BY <2>1 DEF DriftInv, Follows
  <1> QED  BY <1>2, <1>3, <1>4, <1>5 DEF Next

\* The page may be read and saved again any number of times, in any of the currencies of the
\* table, one after the other: no stored amount gets further than four cents from what was typed.
THEOREM DriftBoundedHolds == Spec => []DriftBounded
  <1>1. EstimationInv /\ PriceInv /\ DriftInv => DriftBounded
    <2> SUFFICES ASSUME EstimationInv, PriceInv, DriftInv, est # None PROVE DriftBounded
      BY DEF DriftBounded
    <2>1. Follows(est, typed)
      BY DEF DriftInv, Estimate
    <2>2. /\ typed.manual \in Nat \cup {None}
          /\ \A i \in DOMAIN typed.rates : typed.rates[i] \in Nat
          /\ \A i \in DOMAIN typed.expenses : typed.expenses[i] \in Nat
      BY SeqDomain DEF PriceInv
    <2>3. (est.manual = None) = (typed.manual = None)
          /\ (est.manual # None => Near(est.manual, typed.manual))
      <3>1. typed.manual # None => est.manual \in Nat
        BY <2>1 DEF Follows, Near
      <3> QED  BY <2>1, <3>1, NoneApart DEF Follows
    <2>4. est.manual # None => Close(est.manual, typed.manual, MaxDrift)
      BY <2>2, <2>3, NearClose
    <2>5. \A i \in DOMAIN typed.rates : Close(est.resources[i].rate, typed.rates[i], MaxDrift)
      BY <2>1, <2>2, NearClose DEF Follows
    <2>6. \A i \in DOMAIN typed.expenses : Close(est.expenses[i], typed.expenses[i], MaxDrift)
      BY <2>1, <2>2, NearClose DEF Follows
    <2> QED  BY <2>3, <2>4, <2>5, <2>6 DEF DriftBounded
  <1> QED  BY <1>1, EstimationInit, EstimationStep, PriceInit, PriceStep, DriftInit, DriftStep,
              PTL DEF Spec

=============================================================================
