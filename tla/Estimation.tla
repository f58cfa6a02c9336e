------------------------------ MODULE Estimation ------------------------------
(***************************************************************************)
(* The figures of one commercial estimation: currencies, dates, prices and *)
(* the places that show a price (services/commercial_calculator.go, the    *)
(* bodies and pages of services/commercial_service.go, and the prices that *)
(* repository/commercial_repository.go and repository/lead_repository.go   *)
(* work out for themselves).  One client reads a page and saves it, edited *)
(* or as it is; requests that overlap are the subject of Commercials.      *)
(*                                                                         *)
(* An amount is a number of cents.  It is kept in US dollars, shown in the *)
(* currency of the page and converted back when it is saved: both          *)
(* conversions round to the cent.  They are computed in float64, so a tie  *)
(* may fall on either side: a rounding is a set of one or two amounts.     *)
(* Percentages are whole.  SDLC allocations, billing type and status have  *)
(* no part in any of this, and are left out with the margin, the return on *)
(* investment and the net present value.                                   *)
(***************************************************************************)
EXTENDS FiniteSetsExt, Functions, Integers, Sequences

CONSTANTS
    None,
    Currency,  \* the currencies pages are asked in
    Today,     \* the day of the requests
    Required,  \* what a lead may hold as its estimated requirement date
    Bodies     \* the bodies of PATCH /leads/:id/commercial, typed by hand

VARIABLES
    required,  \* the estimated requirement date of the lead, or None
    est,       \* the stored estimation, or None
    value,     \* leads.value, or None
    page,      \* the page the client has: what it shows can be sent back
    typed      \* history: the amounts as they were stored when last typed

vars == <<required, est, value, page, typed>>

-----------------------------------------------------------------------------
\* Amounts.  ExchangeRates, in hundredths.
ExchangeRates ==
    [USD |-> 100, INR |-> 8350, EUR |-> 92, GBP |-> 79, SAR |-> 375, AED |-> 367,
     QAR |-> 364, KWD |-> 31, BHD |-> 38, OMR |-> 38, ZAR |-> 1850]

\* Round2: the whole numbers nearest to n / d.
Rounded(n, d) ==
    {k \in {n \div d, n \div d + 1} : 2 * (n - k * d) \in -d .. d}

Convert(amount, c) == Rounded(amount * ExchangeRates[c], 100)

\* Mutant: the amount is cut off instead of rounded.
MutConvertToBaseUSD(amount, c) == {(amount * 100) \div ExchangeRates[c]}
ConvertToBaseUSD(amount, c) == Rounded(amount * 100, ExchangeRates[c])

GetGradeDailyCostUSD(grade) ==
    CASE grade = "L4" -> 25000 [] grade = "L3" -> 20000 [] grade = "L2" -> 15000
      [] OTHER -> 10000

\* A choice from each of a sequence of sets of amounts.
OneOfEach(sets) ==
    {f \in [DOMAIN sets -> UNION Range(sets)] : \A i \in DOMAIN sets : f[i] \in sets[i]}

Sum(f) == SumFunction(f)

-----------------------------------------------------------------------------
\* Dates: a month, counted from January 2024, and a day of it.
MonthLength(t) ==
    CASE t % 12 = 1 -> IF (t \div 12) % 4 = 0 THEN 29 ELSE 28
      [] t % 12 \in {3, 5, 8, 10} -> 30
      [] OTHER -> 31

Date == {d \in [month : Int, day : 1..31] : d.day <= MonthLength(d.month)}

Before(d, e) == d.month < e.month \/ (d.month = e.month /\ d.day < e.day)

\* time.AddDate: a day the month does not have runs over into the next one.
AddMonths(d, n) ==
    LET excess == d.day - MonthLength(d.month + n)
    IN  IF excess > 0 THEN [month |-> d.month + n + 1, day |-> excess]
                      ELSE [month |-> d.month + n, day |-> d.day]

Schedule == [start : Date, months : Nat \ {0}, end : Date]

Scheduled(start, months, end) == [start |-> start, months |-> months, end |-> end]

\* The end when start and end do not both come from the body.
\* Mutant: an end before the start is kept.
MutDefaultEnd(end, start, months) ==
    IF end = None THEN AddMonths(start, months) ELSE end
DefaultEnd(end, start, months) ==
    IF end = None \/ Before(end, start) THEN AddMonths(start, months) ELSE end

\* Start and duration win over an end; start and end leave the duration to be
\* counted; duration and end leave the start.  None: refused.
SolveDates(start, duration, end, defaultStart) ==
    LET months == IF duration \in Nat \ {0} THEN duration ELSE None
        from == IF start # None THEN start ELSE defaultStart
        d == IF months # None THEN months ELSE 1
    IN  CASE start # None /\ months # None ->
                 Scheduled(start, months, AddMonths(start, months))
          [] start # None /\ months = None /\ end # None ->
                 IF Before(end, start) THEN None
                 ELSE Scheduled(start, Max({1, end.month - start.month}), end)
          [] start = None /\ months # None /\ end # None ->
                 Scheduled(AddMonths(end, -months), months, end)
          [] OTHER -> Scheduled(from, d, DefaultEnd(end, from, d))

-----------------------------------------------------------------------------
\* A resource line: how many days of which grade, and the rate they are billed
\* at.  Its daily cost is that of the grade, whatever the body says.
Resource == [grade : STRING, onsite : Nat, offshore : Nat, rate : Nat]

Days(r) == r.onsite + r.offshore

Cost(r, days) == days * GetGradeDailyCostUSD(r.grade)

Figures == [currency : Currency, markup : Nat, discount : 0..100,
            manual : Nat \cup {None}, resources : Seq(Resource), expenses : Seq(Nat),
            schedule : Schedule]

\* What a body may hold; None is not there.
Body == [currency : Currency \cup {None}, markup : Int \cup {None},
         discount : Int \cup {None}, manual : Int \cup {None},
         resources : Seq([grade : STRING, onsite : Int, offshore : Int, rate : Int]) \cup {None},
         expenses : Seq(Int) \cup {None},
         start : Date \cup {None}, months : Int \cup {None}, end : Date \cup {None}]

ASSUME EstimationAssumption ==
    /\ "USD" \in Currency /\ Currency \subseteq DOMAIN ExchangeRates
    /\ Today \in Date /\ Required \subseteq Date \cup {None}
    /\ Bodies \subseteq Body
    /\ None \notin Currency \cup Int \cup Date \cup Schedule \cup Figures
    /\ None \notin Seq([grade : STRING, onsite : Int, offshore : Int, rate : Int])
    /\ None \notin Seq(Int)

\* The draft of a lead without an estimation: up to the required date, if that
\* is to come, with a month that has begun counted in full.
Draft ==
    LET end == IF required # None /\ Before(Today, required)
               THEN required ELSE AddMonths(Today, 1)
        months == end.month - Today.month + (IF end.day > Today.day THEN 1 ELSE 0)
    IN  [currency |-> "USD", markup |-> 0, discount |-> 0, manual |-> None,
         resources |-> <<>>, expenses |-> <<>>,
         schedule |-> Scheduled(Today, Max({1, months}), end)]

Estimate == IF est = None THEN Draft ELSE est

TypeOK ==
    /\ required \in Required
    /\ est \in Figures \cup {None}
    /\ value \in Nat \cup {None}
    /\ page \in Figures \cup {None}
    /\ typed.manual \in Nat \cup {None}
    /\ typed.rates \in Seq(Nat) /\ typed.expenses \in Seq(Nat)

-----------------------------------------------------------------------------
\* Prices, in US dollars.
Revenue(e) == Sum([i \in DOMAIN e.resources |-> Days(e.resources[i]) * e.resources[i].rate])

Expenses(e) == Sum(e.expenses)

Multiplier(e) == 100 + e.markup - e.discount

ManualWins(e) == e.manual # None /\ e.manual > 0

\* CalculateFinancialSummary: the revenue after markup and discount is rounded
\* before the expenses are added.
EffectiveSellingPrice(e) ==
    IF ManualWins(e) THEN {e.manual}
    ELSE {p + Expenses(e) : p \in Rounded(Revenue(e) * Multiplier(e), 100)}

\* GetLeadByLeadID, for an estimation with a price: rounded once.
CalcPrice(e) ==
    IF ManualWins(e) THEN {e.manual}
    ELSE Rounded(Revenue(e) * Multiplier(e) + Expenses(e) * 100, 100)

\* Mutant: the lead has a price only when its resources bring revenue.
MutLeadPrice(e) ==
    IF Revenue(e) > 0 \/ ManualWins(e) THEN CalcPrice(e) ELSE {None}
LeadPrice(e) ==
    IF Revenue(e) > 0 \/ Expenses(e) > 0 \/ ManualWins(e) THEN CalcPrice(e) ELSE {None}

\* FindLeads and FindByID: a manual price wins even when it is 0.
ListPrice(e) ==
    CASE e.manual # None -> {e.manual}
      [] e.manual = None /\ (Revenue(e) > 0 \/ Expenses(e) > 0) ->
            Rounded(Revenue(e) * Multiplier(e) + Expenses(e) * 100, 100)
      [] OTHER -> {None}

ResourceCost(e) ==
    Sum([i \in DOMAIN e.resources |-> Cost(e.resources[i], Days(e.resources[i]))])

\* Mutant: the expenses are no part of the cost.
MutTotalProjectCost(e) == ResourceCost(e)
TotalProjectCost(e) == ResourceCost(e) + Expenses(e)

\* The summary for an effective price p.  Cost and revenue are spread evenly over
\* the months; the position after month m is their difference so far.
Summary(e, p) ==
    LET cost == TotalProjectCost(e)
        n == e.schedule.months
        ahead == {m \in 1..n : m * p >= m * cost}
    IN  [cost |-> cost, price |-> p, profit |-> p - cost,
         breakEven |-> IF ahead = {} THEN None ELSE Min(ahead),
         cashOut |-> Max({0} \cup UNION {Rounded(m * (cost - p), n) : m \in 1..n})]

\* GetAnalytics: the cost chart, by where the days are worked.
CostChart(e) ==
    [onsite |-> Sum([i \in DOMAIN e.resources |-> Cost(e.resources[i], e.resources[i].onsite)]),
     offshore |-> Sum([i \in DOMAIN e.resources |-> Cost(e.resources[i], e.resources[i].offshore)]),
     expenses |-> Expenses(e)]

-----------------------------------------------------------------------------
Init ==
    /\ required \in Required
    /\ est = None /\ value = None /\ page = None
    /\ typed = [manual |-> None, rates |-> <<>>, expenses |-> <<>>]

Shown(c) == [amount \in Nat |-> Convert(amount, c)]
Stored(c) == [amount \in Nat |-> ConvertToBaseUSD(amount, c)]

\* The amounts of a page (Shown) or of a body (Stored) in another currency.
InCurrency(manual, resources, expenses, conversion) ==
    [manual : IF manual = None THEN {None} ELSE conversion[manual],
     rates : OneOfEach([i \in DOMAIN resources |-> conversion[resources[i].rate]]),
     expenses : OneOfEach([i \in DOMAIN expenses |-> conversion[expenses[i]]])]

\* The lines r with other rates.
Rated(r, rates) == [i \in DOMAIN r |-> [r[i] EXCEPT !.rate = rates[i]]]

\* resolveTargetCurrency: of the query, or else of the estimation.
Target(param, e) == IF param # None THEN param ELSE e.currency

\* mapToDetailsDTO: the pages that may show e.
\* Mutant: the manual price is shown in dollars.
MutDetails(e, c) ==
    {[e EXCEPT !.currency = c, !.resources = Rated(@, a.rates), !.expenses = a.expenses] :
        a \in InCurrency(e.manual, e.resources, e.expenses, Shown(c))}
Details(e, c) ==
    {[e EXCEPT !.currency = c, !.manual = a.manual, !.resources = Rated(@, a.rates),
               !.expenses = a.expenses] :
        a \in InCurrency(e.manual, e.resources, e.expenses, Shown(c))}

\* GET /leads/:id/commercial
GetCommercial(param) ==
    /\ page' \in Details(Estimate, Target(param, Estimate))
    /\ UNCHANGED <<required, est, value, typed>>

\* What a body does not name keeps its value, except the manual price, which goes,
\* and the dates, which are worked out anew.
Given(field, old) == IF field = None THEN old ELSE field

\* Mutant: a discount above 100 is let through.
MutValid(b) ==
    /\ b.markup # None => b.markup >= 0
    /\ b.discount # None => b.discount >= 0
    /\ b.manual # None => b.manual >= 0
    /\ b.resources # None => \A i \in DOMAIN b.resources : b.resources[i] \in Resource
    /\ b.expenses # None => \A i \in DOMAIN b.expenses : b.expenses[i] >= 0
Valid(b) ==
    /\ b.markup # None => b.markup >= 0
    /\ b.discount # None => b.discount \in 0..100
    /\ b.manual # None => b.manual >= 0
    /\ b.resources # None => \A i \in DOMAIN b.resources : b.resources[i] \in Resource
    /\ b.expenses # None => \A i \in DOMAIN b.expenses : b.expenses[i] >= 0

\* The estimations body b may make of e.  The amounts of a body are in the currency
\* it names, or else in that of the estimation.
Updated(e, b) ==
    LET currency == Given(b.currency, e.currency)
        sent == InCurrency(b.manual, Given(b.resources, <<>>), Given(b.expenses, <<>>),
                           Stored(currency))
    IN  {[currency |-> currency,
          markup |-> Given(b.markup, e.markup),
          discount |-> Given(b.discount, e.discount),
          manual |-> a.manual,
          resources |-> IF b.resources = None THEN e.resources
                        ELSE Rated(b.resources, a.rates),
          expenses |-> IF b.expenses = None THEN e.expenses ELSE a.expenses,
          schedule |-> SolveDates(b.start, b.months, b.end, e.schedule.start)] : a \in sent}

\* PATCH /leads/:id/commercial: the estimation is stored, leads.value gets its
\* price, and the answer is a page.
UpdateCommercial(b, param) ==
    /\ Valid(b)
    /\ SolveDates(b.start, b.months, b.end, Estimate.schedule.start) # None
    /\ est' \in Updated(Estimate, b)
    /\ value' \in EffectiveSellingPrice(est')
    /\ page' \in Details(est', Target(param, est'))
    /\ UNCHANGED required

Rates(e) == [i \in DOMAIN e.resources |-> e.resources[i].rate]

\* A body typed by hand.
Patch(b, param) ==
    /\ UpdateCommercial(b, param)
    /\ typed' = [manual |-> est'.manual,
                 rates |-> IF b.resources = None THEN typed.rates ELSE Rates(est'),
                 expenses |-> IF b.expenses = None THEN typed.expenses ELSE est'.expenses]

\* The page is sent back as it is shown, in its currency.
Resend(param) ==
    /\ page # None
    /\ UpdateCommercial([currency |-> page.currency, markup |-> page.markup,
                         discount |-> page.discount, manual |-> page.manual,
                         resources |-> page.resources, expenses |-> page.expenses,
                         start |-> page.schedule.start, months |-> page.schedule.months,
                         end |-> page.schedule.end], param)
    /\ UNCHANGED typed

Next ==
    \E param \in Currency \cup {None} :
        \/ GetCommercial(param)
        \/ \E b \in Bodies : Patch(b, param)
        \/ Resend(param)

Spec == Init /\ [][Next]_vars

-----------------------------------------------------------------------------
\* Safety

Close(p, q, cents) == p - q \in -cents .. cents

\* The calculator, leads.value, the page of the lead and the lists of leads
\* work the price out for themselves; they agree on whether the lead has a price
\* and, up to the cent a tie may take either way, on the price.  A manual price of
\* 0 is the exception: the lists take it, the others do not.
PricesAgree ==
    est # None /\ est.manual # 0 =>
        /\ \A p \in EffectiveSellingPrice(est) :
              /\ Close(p, value, 1)
              /\ \A q \in LeadPrice(est) \cup ListPrice(est) :
                    IF q = None THEN p = 0 ELSE Close(p, q, 1)
        /\ None \in LeadPrice(est) <=> None \in ListPrice(est)

\* In every currency the profit shown is, up to a cent, the price less the cost,
\* and the bars of the cost chart make up the cost.  The estimation breaks even in
\* the first month or never, and its largest cash out is its loss.
FiguresAddUp ==
    est # None =>
        \A p \in EffectiveSellingPrice(est), c \in Currency :
            LET s == Summary(est, p)
                chart == CostChart(est)
            IN  /\ \A price \in Convert(s.price, c), cost \in Convert(s.cost, c),
                      profit \in Convert(s.profit, c) : Close(price - cost, profit, 1)
                /\ \A x \in Convert(chart.onsite, c), y \in Convert(chart.offshore, c),
                      z \in Convert(chart.expenses, c), cost \in Convert(s.cost, c) :
                          Close(x + y + z, cost, 2)
                /\ s.breakEven = IF s.profit < 0 THEN None ELSE 1
                /\ s.cashOut = Max({0, -s.profit})

\* Whatever combination of dates the bodies give, over and over, the estimation
\* and its page never end before they start.
DatesOrdered ==
    \A e \in {est, page} \ {None} : ~Before(e.schedule.end, e.schedule.start)

\* The page may be read in any currency and saved again, any number of times: the
\* stored amounts stay within four cents of what was typed.
MaxDrift == 4
DriftBounded ==
    est # None =>
        /\ (est.manual = None) = (typed.manual = None)
        /\ est.manual # None => Close(est.manual, typed.manual, MaxDrift)
        /\ \A i \in DOMAIN typed.rates :
              Close(est.resources[i].rate, typed.rates[i], MaxDrift)
        /\ \A i \in DOMAIN typed.expenses :
              Close(est.expenses[i], typed.expenses[i], MaxDrift)

\* The page with the end that SolveDates gives it when all three dates are sent: the
\* start and the duration win, the end is worked out anew.
Resolved(p) ==
    [p EXCEPT !.schedule.end = AddMonths(p.schedule.start, p.schedule.months)]

\* A page that is sent back as it is shown keeps its start and its duration, and every
\* amount converts back to the one it showed.  Only the end may move, namely to the
\* start plus the duration: a draft up to the last of March, three months from
\* 30 January by its count, then ends on 30 April.  A page of which that is the end
\* already, like any page answered to one sent back, does not change at all.
ResendKeepsPage ==
    [][\A param \in Currency \cup {None} :
          Resend(param) => Resolved(page) \in Details(est', page.currency)]_vars

=============================================================================
