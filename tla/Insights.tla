------------------------------ MODULE Insights ------------------------------
(***************************************************************************)
(* What the program derives from a ledger: the headline figures of a       *)
(* month and the other surfaces that show the same money, the findings of  *)
(* the four detectors, the recurring charges, the projection and the state *)
(* of the budgets. Everything here is a function of the ledger L, a        *)
(* function from transaction numbers to records                            *)
(*   [day, merchant, category, amount, spends, movement, direction,        *)
(*    review, trusted].                                                    *)
(* Days are counted from the first of January of EpochYear, months from    *)
(* that January, and amounts are whole numbers of the smallest unit.       *)
(***************************************************************************)
EXTENDS Integers, FiniteSets, FiniteSetsExt, Functions, Sequences

CONSTANTS
    Categories,
    SpikeMinimum,    \* the least rise worth a word (2000 rupees)
    Horizon          \* bound: the number of months of the calendar

EpochYear == 2024
None == "none"
MinHistory == 5
BaselineMonths == 3
DuplicateWindowDays == 3
FirstSeenMultiple == 3
MinOccurrences == 3
MinStability == 800
LapseGraceDays == 45
LookbackDays == 400
MinDaysForConfidence == 7
BreakdownLimit == 30

\* The categories are the 22 of the seed; nothing adds one.
ASSUME InsightsAssumption ==
    /\ SpikeMinimum \in Nat /\ Horizon \in Nat \ {0}
    /\ None \notin Categories /\ IsFiniteSet(Categories)
    /\ Cardinality(Categories) < BreakdownLimit

Absolute(x) == IF x < 0 THEN -x ELSE x
Larger(a, b) == IF a >= b THEN a ELSE b
Smaller(a, b) == IF a <= b THEN a ELSE b

\* a / b for naturals, a tie going to the even neighbour.
RoundDiv(a, b) ==
    LET q == a \div b
        r == a % b
    IN  IF 2 * r > b \/ (2 * r = b /\ q % 2 = 1) THEN q + 1 ELSE q

-----------------------------------------------------------------------------
(* The calendar                                                            *)

MonthLengths == <<31, 28, 31, 30, 31, 30, 31, 31, 30, 31, 30, 31>>

Leap(year) == year % 4 = 0 /\ (year % 100 # 0 \/ year % 400 = 0)

DaysIn(m) == MonthLengths[(m % 12) + 1]
               + IF m % 12 = 1 /\ Leap(EpochYear + m \div 12) THEN 1 ELSE 0

FirstDay == [m \in 0 .. Horizon + 1 |-> SumFunction([n \in 0 .. m - 1 |-> DaysIn(n)])]

LastDay(m) == FirstDay[m] + DaysIn(m) - 1

MonthOf == [day \in 0 .. LastDay(Horizon) |->
              CHOOSE m \in 0 .. Horizon : FirstDay[m] <= day /\ day <= LastDay(m)]

\* A transaction of a day in the calendar, as far as sums depend on it.
IsTransaction(r) ==
    /\ r = [f \in DOMAIN r |-> r[f]]
    /\ {"day", "category", "amount"} \subseteq DOMAIN r
    /\ r.day \in 0 .. LastDay(Horizon)
    /\ r.category \in Categories \cup {None}
    /\ r.amount \in Int

-----------------------------------------------------------------------------
(* Sums and order statistics of a set of transactions                      *)

Between(L, first, last) ==
    {t \in DOMAIN L : first <= L[t].day /\ L[t].day <= last}

Of(L, m) == Between(L, FirstDay[m], LastDay(m))

Spending(L, T) == {t \in T : L[t].spends}

AmountsOf(L, T) == [t \in T |-> L[t].amount]

Total(L, T) == SumFunction(AmountsOf(L, T))

\* The k-th smallest value of the function v, from 0.
Nth(v, k) ==
    CHOOSE x \in {v[t] : t \in DOMAIN v} :
      /\ Cardinality({t \in DOMAIN v : v[t] < x}) <= k
      /\ Cardinality({t \in DOMAIN v : v[t] <= x}) > k

\* Twice the median: the sum of the two values in the middle.
Median2(v) ==
    LET n == Cardinality(DOMAIN v)
    IN  Nth(v, (n - 1) \div 2) + Nth(v, n \div 2)

\* The transactions of T in the order of their days.
InDayOrder(L, T) ==
    LET Earlier(t) == {u \in T : \/ L[u].day < L[t].day
                                 \/ L[u].day = L[t].day /\ u < t}
    IN  [k \in 1 .. Cardinality(T) |->
           CHOOSE t \in T : Cardinality(Earlier(t)) = k - 1]

-----------------------------------------------------------------------------
(* The figures of a month                                                  *)

Incoming(L, T) == {t \in T : /\ L[t].movement \in {"salary", "income"}
                             /\ L[t].direction = "credit"}

Refunds(L, T) == {t \in T : L[t].movement = "refund"}

Transferred(L, T) ==
    {t \in T : /\ L[t].movement \in {"transfer", "credit_card_payment"}
               /\ L[t].direction = "debit"}

Summary(L, m) ==
    LET T == Of(L, m)
    IN  [expenses  |-> Total(L, Spending(L, T)),
         income    |-> Total(L, Incoming(L, T)),
         refunds   |-> Total(L, Refunds(L, T)),
         transfers |-> Total(L, Transferred(L, T)),
         count     |-> Cardinality(T),
         spent     |-> Cardinality(Spending(L, T)),
         untrusted |-> Cardinality({t \in T : L[t].trusted # "trusted"}),
         awaiting  |-> Cardinality({t \in T : L[t].review = "review_required"})]

NetExpenses(s) == s.expenses - s.refunds

NetCashFlow(s) == s.income - NetExpenses(s)

\* In ten-thousandths, held between 0 and 1.
SavingsRate(s) ==
    IF s.income <= 0 \/ NetCashFlow(s) <= 0 THEN 0
    ELSE Smaller(10000, RoundDiv(10000 * NetCashFlow(s), s.income))

FullyTrusted(s) == s.untrusted = 0 /\ s.awaiting = 0

\* The month a screen opens on: this one while the ledger ends before or in
\* it, or the last month of the ledger.
DefaultMonth(L, today) ==
    LET latest == CHOOSE m \in 0 .. Horizon :
                    /\ Of(L, m) # {}
                    /\ \A later \in m + 1 .. Horizon : Of(L, later) = {}
    IN  IF DOMAIN L = {} THEN MonthOf[today]
        ELSE IF latest >= MonthOf[today]
             THEN Larger(latest, MonthOf[today]) ELSE latest

\* Mutant: the trend leaves the refunds out.
TrendNetGross(L, T) == Total(L, Spending(L, T))

TrendNet(L, T) == Total(L, Spending(L, T)) - Total(L, Refunds(L, T))

\* One query over the range of the series, grouped by month.
Trend(L, until, months) ==
    LET Span == Between(L, FirstDay[until - months + 1], LastDay(until))
        In(m) == {t \in Span : MonthOf[L[t].day] = m}
    IN  [m \in until - months + 1 .. until |->
           [expenses |-> Total(L, Spending(L, In(m))),
            net      |-> TrendNet(L, In(m)),
            income   |-> Total(L, Incoming(L, In(m))),
            flow     |-> Total(L, Incoming(L, In(m))) - TrendNet(L, In(m)),
            count    |-> Cardinality(In(m))]]

\* category |-> its total and its share of the shown ones, the largest
\* BreakdownLimit of the categories that have any spending.
Breakdown(L, first, last) ==
    LET T == Spending(L, Between(L, first, last))
        In(c) == {t \in T : L[t].category = c}
        Shown == {c \in Categories \cup {None} :
                    /\ In(c) # {}
                    /\ Cardinality({d \in Categories \cup {None} :
                         Total(L, In(d)) > Total(L, In(c))}) < BreakdownLimit}
        All == MapThenSumSet(LAMBDA c : Total(L, In(c)), Shown)
    IN  [c \in Shown |->
           [total |-> Total(L, In(c)), count |-> Cardinality(In(c)),
            share |-> IF All > 0 THEN RoundDiv(10000 * Total(L, In(c)), All)
                      ELSE 0]]

BreakdownOf(L, m) == Breakdown(L, FirstDay[m], LastDay(m))

DailySeries(L, m) ==
    [day \in FirstDay[m] .. LastDay(m) |->
       Total(L, Spending(L, Between(L, day, day)))]

\* merchant |-> its total and the rest of its card, the "limit" largest.
TopMerchants(L, T, limit) ==
    LET Named == {t \in Spending(L, T) : L[t].merchant # None}
        At(p) == {t \in Named : L[t].merchant = p}
        Payees == {L[t].merchant : t \in Named}
        Top == {p \in Payees :
                  Cardinality({q \in Payees : Total(L, At(q)) > Total(L, At(p))})
                    < limit}
        Filed(p, c) == Cardinality({t \in At(p) : L[t].category = c})
    IN  [p \in Top |->
           [total    |-> Total(L, At(p)),
            count    |-> Cardinality(At(p)),
            last     |-> Max({L[t].day : t \in At(p)}),
            category |-> CHOOSE c \in Categories \cup {None} :
                           \A d \in Categories \cup {None} :
                             Filed(p, d) <= Filed(p, c),
            average  |-> RoundDiv(Total(L, At(p)), Cardinality(At(p)))]]

CompareMonths(L, left, right) ==
    LET before == BreakdownOf(L, left)
        after == BreakdownOf(L, right)
        In(b, c) == IF c \in DOMAIN b THEN b[c].total ELSE 0
    IN  [change |-> NetExpenses(Summary(L, right)) - NetExpenses(Summary(L, left)),
         categories |-> [c \in DOMAIN before \cup DOMAIN after |->
                           [before |-> In(before, c), after |-> In(after, c),
                            change |-> In(after, c) - In(before, c)]]]

-----------------------------------------------------------------------------
(* The detectors                                                           *)

\* What a detector says: the transaction it is about (none, for a category),
\* what it is judged against, and the figures of its reason.
Finding(kind, about, label, first, observed, baseline) ==
    [kind |-> kind, about |-> about, label |-> label, first |-> first,
     observed |-> observed, baseline |-> baseline]

\* |value - median| / (MAD * 1.4826), rounded to hundredths, is 3.5 or more. The
\* medians are doubled, and so is the deviation the MAD is the median of.
Outlying(value, past) ==
    LET median2 == Median2(past)
        mad4 == Median2([t \in DOMAIN past |-> Absolute(2 * past[t] - median2)])
    IN  /\ Cardinality(DOMAIN past) >= MinHistory
        /\ mad4 > 0
        /\ 2000000 * Absolute(2 * value - median2) >= 5181687 * mad4

HistoryLimit == 200

\* The rows of the latest days, so many at most: those of the day at which the
\* limit cuts are all kept here, where the code keeps any of them.
LatestRows(L, rows) ==
    {t \in rows : Cardinality({u \in rows : L[u].day > L[t].day}) < HistoryLimit}

AmountOutliers(L, m) ==
    LET Prior(c) == AmountsOf(L, LatestRows(L, {t \in Spending(L, DOMAIN L) :
                                    L[t].category = c /\ L[t].day < FirstDay[m]}))
    IN  {Finding("amount_outlier", {t}, L[t].category, {}, L[t].amount,
                 RoundDiv(Median2(Prior(L[t].category)), 2)) :
           t \in {u \in Spending(L, Of(L, m)) :
                    /\ L[u].category # None
                    /\ Outlying(L[u].amount, Prior(L[u].category))}}

CategorySpikes(L, m) ==
    LET Now(c) == {t \in Spending(L, Of(L, m)) : L[t].category = c}
        Before(c) == {t \in Spending(L, Between(L,
                        FirstDay[Larger(0, m - BaselineMonths)], FirstDay[m] - 1)) :
                          L[t].category = c}
        Months(c) == Cardinality({MonthOf[L[t].day] : t \in Before(c)})
        Average(c) == RoundDiv(Total(L, Before(c)), Months(c))
    IN  {Finding("category_spike", {}, c, {}, Total(L, Now(c)), Average(c)) :
           c \in {d \in Categories :
                    /\ Now(d) # {} /\ Months(d) >= 2
                    /\ Average(d) > 0
                    /\ Total(L, Now(d)) >= 2 * Average(d)
                    /\ Total(L, Now(d)) - Average(d) >= SpikeMinimum}}

\* Billed twice: the same charge on a later day, within the window.
DuplicateCharges(L, m) ==
    {Finding("duplicate_proximity", {p[2]}, L[p[1]].merchant, {p[1]},
             L[p[1]].amount, 0) :
       p \in {q \in Spending(L, Of(L, m)) \X DOMAIN L :
                LET a == L[q[1]]
                    b == L[q[2]]
                IN  /\ a.merchant # None /\ b.merchant = a.merchant
                    /\ b.amount = a.amount /\ b.direction = a.direction
                    /\ b.day \in a.day + 1 .. a.day + DuplicateWindowDays}}

FirstSeenLarge(L, m) ==
    LET Past == {t \in Spending(L, DOMAIN L) : L[t].day < LastDay(m)}
        median == RoundDiv(Median2(AmountsOf(L, Past)), 2)
        First(t) == ~ \E u \in DOMAIN L :
                        /\ L[u].merchant = L[t].merchant
                        /\ L[u].day < FirstDay[m]
    IN  IF Past = {} \/ median <= 0 THEN {}
        ELSE {Finding("merchant_first_large", {t}, L[t].merchant, {}, L[t].amount,
                      median) :
                t \in {u \in Spending(L, Of(L, m)) :
                         /\ L[u].merchant # None
                         /\ L[u].amount >= FirstSeenMultiple * median
                         /\ First(u)}}

Findings(L, m) == AmountOutliers(L, m) \cup CategorySpikes(L, m)
                    \cup DuplicateCharges(L, m) \cup FirstSeenLarge(L, m)

-----------------------------------------------------------------------------
(* Recurring charges                                                       *)

Cadence(name, days, tolerance, months, yearly) ==
    [name |-> name, days |-> days, tolerance |-> tolerance, months |-> months,
     yearly |-> yearly]

\* Shortest first; months is 0 for a cadence that is counted in days.
Cadences == <<Cadence("weekly", 7, 2, 0, 52),
              Cadence("fortnightly", 14, 3, 0, 26),
              Cadence("monthly", 30, 5, 1, 12),
              Cadence("quarterly", 91, 10, 3, 4),
              Cadence("half_yearly", 182, 15, 6, 2),
              Cadence("annual", 365, 25, 12, 1)>>

\* The gaps between the days of a sequence of transactions.
Gaps(L, charges) ==
    [k \in 1 .. Len(charges) - 1 |-> L[charges[k + 1]].day - L[charges[k]].day]

\* In thousandths: 1 - (mean deviation from the median) / median.
Stability(gaps) ==
    LET typical2 == Median2(gaps)
        away == MapThenSumSet(LAMBDA k : Absolute(2 * gaps[k] - typical2),
                              DOMAIN gaps)
        whole == Len(gaps) * typical2
    IN  IF Len(gaps) < 2 THEN 500
        ELSE IF typical2 <= 0 \/ away >= whole THEN 0
        ELSE RoundDiv(1000 * (whole - away), whole)

\* The first cadence the median gap fits, as a set of one or none.
Fitting(gaps) ==
    LET typical2 == Median2(gaps)
        Fits(i) == Absolute(typical2 - 2 * Cadences[i].days)
                     <= 2 * Cadences[i].tolerance
    IN  {Cadences[i] : i \in {j \in DOMAIN Cadences :
                                Fits(j) /\ \A k \in 1 .. j - 1 : ~ Fits(k)}}

\* Calendar cadences keep the day of the month, cut to the month's length.
NextCharge(last, cadence, typical) ==
    IF cadence.months = 0 THEN last + typical
    ELSE LET target == MonthOf[last] + cadence.months
             dom == last - FirstDay[MonthOf[last]]
         IN  FirstDay[target] + Smaller(dom, DaysIn(target) - 1)

\* The subscriptions of a ledger: what a merchant's charges amount to.
Recurring(L, today) ==
    LET Recent == {t \in Spending(L, DOMAIN L) :
                     L[t].merchant # None /\ L[t].day >= today - LookbackDays}
        At(p) == {t \in Recent : L[t].merchant = p}
        Charges(p) == InDayOrder(L, At(p))
        Interval2(p) == Median2(Gaps(L, Charges(p)))
        Typical(p) == RoundDiv(Median2(AmountsOf(L, At(p))), 2)
        Row(p, c) ==
            LET last == L[Charges(p)[Len(Charges(p))]]
                next == NextCharge(last.day, c, Interval2(p) \div 2)
            IN  [merchant |-> p, cadence |-> c.name, typical |-> Typical(p),
                 latest |-> last.amount, annual |-> Typical(p) * c.yearly,
                 next |-> next, count |-> Cardinality(At(p)),
                 status |-> IF next < today - LapseGraceDays THEN "lapsed"
                            ELSE "active"]
        Regular == {p \in {L[t].merchant : t \in Recent} :
                      /\ Cardinality(At(p)) >= MinOccurrences
                      /\ Stability(Gaps(L, Charges(p))) >= MinStability}
    IN  UNION {{Row(p, c) : c \in Fitting(Gaps(L, Charges(p)))} : p \in Regular}

\* What the active subscriptions cost in a month.
MonthlyEquivalent(subs) ==
    LET Active == {s \in subs : s.status = "active"}
        Yearly(s) == CHOOSE c \in {Cadences[i] : i \in DOMAIN Cadences} :
                       c.name = s.cadence
    IN  RoundDiv(MapThenSumSet(LAMBDA s : s.typical * Yearly(s).yearly, Active), 12)

-----------------------------------------------------------------------------
(* Projection, budgets, the monthly report                                 *)

Projection(L, subs, m, today) ==
    LET asOf == Smaller(today, LastDay(m))
        elapsed == IF asOf >= FirstDay[m] THEN asOf - FirstDay[m] + 1 ELSE 0
        spent == Total(L, Spending(L, Between(L, FirstDay[m], asOf)))
        Due == {s \in subs : /\ s.status = "active"
                             /\ s.next > asOf /\ s.next <= LastDay(m)}
        upcoming == MapThenSumSet(LAMBDA s : s.typical, Due)
        rate == IF elapsed > 0 THEN RoundDiv(spent * DaysIn(m), elapsed) ELSE 0
    IN  IF elapsed >= DaysIn(m)
        THEN [spent |-> spent, elapsed |-> DaysIn(m), rate |-> spent,
              upcoming |-> 0, total |-> spent, reliable |-> TRUE]
        ELSE [spent |-> spent, elapsed |-> elapsed, rate |-> rate,
              upcoming |-> upcoming, total |-> Larger(rate, spent + upcoming),
              reliable |-> elapsed >= MinDaysForConfidence]

BudgetState(share, threshold) ==
    CASE share >= 10000 -> "exceeded"
      [] share >= threshold /\ share < 10000 -> "warning"
      [] OTHER -> "on_track"

\* The budget of a category with what the month spent against it. The month is
\* every budget's, whatever the period it was made for.
Progress(L, subs, budget, m, today) ==
    LET spent == Total(L, {t \in Spending(L, Of(L, m)) :
                             L[t].category = budget.category})
        share == RoundDiv(10000 * spent, budget.amount)
        projection == Projection(L, subs, m, today)
    IN  [spent |-> spent, share |-> share,
         projected |-> IF projection.elapsed > 0
                       THEN RoundDiv(spent * DaysIn(m), projection.elapsed)
                       ELSE spent,
         state |-> BudgetState(share, budget.threshold)]

\* The category with the largest value, as a set of one or none.
Leading(value) ==
    IF DOMAIN value = {} THEN {}
    ELSE {CHOOSE c \in DOMAIN value : \A d \in DOMAIN value : value[d] <= value[c]}

\* _observations: what the report has to say beside its figures.
Noted(s, breakdown, change, active) ==
    (IF s.income > 0 THEN {"savings_rate"} ELSE {})
      \cup (IF DOMAIN breakdown # {} THEN {"largest_category"} ELSE {})
      \cup (IF change # 0 THEN {"month_on_month"} ELSE {})
      \cup (IF active # {} THEN {"recurring_load"} ELSE {})
      \cup (IF ~ FullyTrusted(s) THEN {"data_quality"} ELSE {})

\* insights.build: a month's report.
Report(L, subs, m) ==
    LET s == Summary(L, m)
        b == BreakdownOf(L, m)
        compared == CompareMonths(L, Larger(0, m - 1), m)
        moves == compared.categories
        rising == {c \in DOMAIN moves : moves[c].change > 0}
        spending == Spending(L, Of(L, m))
        active == {x \in subs : x.status = "active"}
    IN  [summary |-> s,
         largest |-> Leading([c \in DOMAIN b |-> b[c].total]),
         growing |-> Leading([c \in rising |-> moves[c].change]),
         transaction |-> IF spending = {} THEN {}
                         ELSE {CHOOSE t \in spending : \A u \in spending :
                                 L[u].amount <= L[t].amount},
         merchants |-> TopMerchants(L, Of(L, m), 5),
         load |-> [count |-> Cardinality(active),
                   monthly |-> MonthlyEquivalent(subs),
                   annual |-> MapThenSumSet(LAMBDA x : x.annual, active)],
         notes |-> Noted(s, b, compared.change, active)]
=============================================================================
