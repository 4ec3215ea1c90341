------------------------------ MODULE Derived -------------------------------
(***************************************************************************)
(* The tables derived from one tenant's ledger - subscriptions, anomalies, *)
(* monthly snapshots and their narratives - and the notices raised from    *)
(* them. Workers rebuild them from messages: an import publishes one, and  *)
(* a nightly task publishes one for every tenant it can see. Two workers   *)
(* may rebuild the same tables at once; every transaction is READ          *)
(* COMMITTED, and a worker that dies has its message delivered again.      *)
(***************************************************************************)
EXTENDS Insights, Functions

CONSTANTS
    Workers,
    Opening,         \* the ledger at the start: transaction |-> record
    Batches,         \* statement |-> the rows it would add
    Recategorised,   \* the corrections: transaction |-> category
    BudgetAmounts,         \* what a budget may be set to
    Roles,           \* the database roles the workers may connect as
    Day,             \* the day it is
    SnapshotMonths,  \* the months a refresh rebuilds (3)
    NarrativeMonths, \* the months a narrative is written for (2)
    MaxChanges,      \* bound: imports, corrections, deletions, budgets
    MaxNights,       \* bound: nightly dispatches
    MaxDeaths        \* bound: workers lost

ASSUME DerivedAssumption ==
    /\ Roles \subseteq {"expense_app", "superuser"}
    /\ SnapshotMonths \in Nat \ {0} /\ NarrativeMonths \in Nat \ {0}
    /\ MaxChanges \in Nat /\ MaxNights \in Nat /\ MaxDeaths \in Nat
    /\ IsFiniteSet(DOMAIN Opening)
    /\ \A b \in DOMAIN Batches : IsFiniteSet(DOMAIN Batches[b])
    /\ Day \in 0 .. LastDay(Horizon)
    /\ \E m \in SnapshotMonths .. Horizon : FirstDay[m] <= Day /\ Day <= LastDay(m)
    /\ \A t \in DOMAIN Opening : IsTransaction(Opening[t])
    /\ \A b \in DOMAIN Batches : \A t \in DOMAIN Batches[b] : IsTransaction(Batches[b][t])
    /\ \A t \in DOMAIN Recategorised : Recategorised[t] \in Categories

VARIABLES
    ledger,          \* the transactions
    subscriptions,   \* rows [run, sub]
    anomalies,       \* rows [run, month, finding]
    snapshots,       \* month |-> [figures, narrative]
    notices,         \* rows [kind, resource, run]
    budgets,         \* category |-> its budget, where there is one
    refreshes,       \* the messages for refresh_tenant
    phrasings,       \* the messages for write_for_tenant
    shift,           \* worker |-> the transaction it is in
    role,            \* the role of the workers
    overlaps,        \* pairs of runs that were under way together
    runs, changes, nights, deaths

derivedVars == <<ledger, subscriptions, anomalies, snapshots, notices, budgets,
                 refreshes, phrasings, shift, role, overlaps, runs, changes,
                 nights, deaths>>

derivedTables == <<subscriptions, anomalies, snapshots, notices>>
derivedCounts == <<runs, changes, nights, deaths>>

OffDuty == [stage |-> "off", run |-> 0, alone |-> FALSE, at |-> 0,
            detected |-> {}, old |-> {}, pending |-> {}, doomed |-> {},
            found |-> {}, dropped |-> {}, figures |-> {}, stored |-> <<>>,
            told |-> {}]

Refreshing == {"detected", "replacing", "sweeping", "swept", "built", "told"}

ThisMonth == MonthOf[Day]

\* The k-th month of a window, newest first.
MonthAt(k) == ThisMonth - k

-----------------------------------------------------------------------------
DerivedInit ==
    /\ ledger = Opening
    /\ subscriptions = {} /\ anomalies = {} /\ snapshots = <<>> /\ notices = {}
    /\ budgets = <<>>
    /\ refreshes = 0 /\ phrasings = 0
    /\ shift = [w \in Workers |-> OffDuty]
    /\ role \in Roles
    /\ overlaps = {}
    /\ runs = 0 /\ changes = 0 /\ nights = 0 /\ deaths = 0

\* A change of the ledger: who is rebuilding has no longer seen all of it.
LedgerBecomes(L) ==
    /\ changes < MaxChanges
    /\ changes' = changes + 1
    /\ ledger' = L
    /\ shift' = [w \in Workers |-> [shift[w] EXCEPT !.alone = FALSE]]

\* An import commits its rows, and then publishes the refresh, which may fail.
ImportRows(b) ==
    /\ DOMAIN Batches[b] \cap DOMAIN ledger = {}
    /\ LedgerBecomes([t \in DOMAIN ledger \cup DOMAIN Batches[b] |->
                        IF t \in DOMAIN ledger THEN ledger[t] ELSE Batches[b][t]])
    /\ refreshes' \in {refreshes, refreshes + 1}
    /\ UNCHANGED <<derivedTables, budgets, phrasings, role, overlaps, runs,
                   nights, deaths>>

\* A correction publishes nothing.
Recategorise(t) ==
    /\ t \in DOMAIN ledger
    /\ ledger[t].category # Recategorised[t]
    /\ LedgerBecomes([ledger EXCEPT ![t].category = Recategorised[t]])
    /\ UNCHANGED <<derivedTables, budgets, refreshes, phrasings, role, overlaps,
                   runs, nights, deaths>>

\* Mutant: the anomalies of a deleted transaction stay.
CascadedNot(b) == anomalies

Cascaded(b) == {a \in anomalies : a.finding.about \cap DOMAIN Batches[b] = {}}

\* Nor does a deletion. It waits for those who have inserted a row about one of
\* its transactions, and takes the committed anomalies about them with it.
DeleteRows(b) ==
    /\ DOMAIN Batches[b] \subseteq DOMAIN ledger
    /\ \A w \in Workers : \A a \in shift[w].found :
         a.finding.about \cap DOMAIN Batches[b] = {}
    /\ LedgerBecomes([t \in DOMAIN ledger \ DOMAIN Batches[b] |-> ledger[t]])
    /\ anomalies' = Cascaded(b)
    /\ UNCHANGED <<subscriptions, snapshots, notices, budgets, refreshes,
                   phrasings, role, overlaps, runs, nights, deaths>>

-----------------------------------------------------------------------------
(* Budgets                                                                 *)

BudgetChange == /\ changes < MaxChanges
                /\ changes' = changes + 1
                /\ UNCHANGED <<ledger, derivedTables, refreshes, phrasings, shift,
                               role, overlaps, runs, nights, deaths>>

\* One budget for a category, a period and its first day: there is one period
\* and one first day here, and so one budget for a category.
CreateBudget(c, amount) ==
    /\ c \notin DOMAIN budgets
    /\ BudgetChange
    /\ budgets' = [d \in DOMAIN budgets \cup {c} |->
                     IF d \in DOMAIN budgets THEN budgets[d]
                     ELSE [id |-> changes, category |-> c, amount |-> amount,
                           threshold |-> 8000, active |-> TRUE]]

UpdateBudget(c, amount, active) ==
    /\ c \in DOMAIN budgets
    /\ <<amount, active>> # <<budgets[c].amount, budgets[c].active>>
    /\ BudgetChange
    /\ budgets' = [budgets EXCEPT ![c].amount = amount, ![c].active = active]

RemoveBudget(c) ==
    /\ c \in DOMAIN budgets
    /\ BudgetChange
    /\ budgets' = [d \in DOMAIN budgets \ {c} |-> budgets[d]]

-----------------------------------------------------------------------------
(* A refresh                                                               *)

Quit(w) == shift' = [shift EXCEPT ![w] = OffDuty]

\* The first transaction reads its candidates.
TakeRefresh(w) ==
    /\ shift[w].stage = "off" /\ refreshes > 0
    /\ LET others == {v \in Workers : shift[v].stage \in Refreshing} IN
         /\ shift' = [v \in Workers |->
              IF v = w
              THEN [OffDuty EXCEPT !.stage = "detected", !.run = runs + 1,
                      !.alone = others = {},
                      !.detected = {[run |-> runs + 1, sub |-> s] :
                                      s \in Recurring(ledger, Day)}]
              ELSE [shift[v] EXCEPT !.alone = FALSE]]
         /\ overlaps' = overlaps \cup {{shift[v].run, runs + 1} : v \in others}
    /\ refreshes' = refreshes - 1
    /\ runs' = runs + 1
    /\ UNCHANGED <<ledger, derivedTables, budgets, phrasings, role, changes,
                   nights, deaths>>

\* The rows that will be deleted are those committed when the DELETE begins.
BeginReplacing(w) ==
    /\ shift[w].stage = "detected"
    /\ shift' = [shift EXCEPT ![w].stage = "replacing", ![w].old = subscriptions]
    /\ UNCHANGED <<ledger, derivedTables, budgets, refreshes, phrasings, role,
                   overlaps, derivedCounts>>

\* A tenant has one subscription for a merchant and a cadence. One that
\* another refresh has inserted since stops this one, and its message is gone.
Conflicting(rows, left) ==
    \E r \in rows, s \in left : /\ r.sub.merchant = s.sub.merchant
                                /\ r.sub.cadence = s.sub.cadence

CommitSubscriptions(w) ==
    /\ shift[w].stage = "replacing"
    /\ LET left == subscriptions \ shift[w].old IN
         IF Conflicting(shift[w].detected, left)
         THEN Quit(w) /\ UNCHANGED subscriptions
         ELSE /\ subscriptions' = left \cup shift[w].detected
              /\ shift' = [shift EXCEPT ![w].stage = "sweeping"]
    /\ UNCHANGED <<ledger, anomalies, snapshots, notices, budgets, refreshes,
                   phrasings, role, overlaps, derivedCounts>>

\* Mutant: only what another run left behind is deleted.
AnomaliesOfRecent(m) == {a \in anomalies : a.month = m /\ a.run + 1 < runs}

AnomaliesOf(m) == {a \in anomalies : a.month = m}

\* The four detectors read the ledger, and the DELETE begins.
Sweep(w) ==
    /\ shift[w].stage = "sweeping" /\ shift[w].at < SnapshotMonths
    /\ LET m == MonthAt(shift[w].at) IN
         shift' = [shift EXCEPT ![w].stage = "swept",
                     ![w].pending = {[run |-> shift[w].run, month |-> m,
                                      finding |-> f] : f \in Findings(ledger, m)},
                     ![w].doomed = AnomaliesOf(m)]
    /\ UNCHANGED <<ledger, derivedTables, budgets, refreshes, phrasings, role,
                   overlaps, derivedCounts>>

\* The DELETE waits for another that has deleted one of its rows; the findings
\* are inserted, each with a foreign key to its transaction, and the report of
\* the month is built from what is there now.
Build(w) ==
    /\ shift[w].stage = "swept"
    /\ \A v \in Workers \ {w} : shift[v].dropped \cap shift[w].doomed = {}
    /\ LET m == MonthAt(shift[w].at)
           subs == {s.sub : s \in subscriptions} IN
         IF \A a \in shift[w].pending : a.finding.about \subseteq DOMAIN ledger
         THEN shift' = [shift EXCEPT ![w].stage = "built",
                          ![w].found = @ \cup shift[w].pending,
                          ![w].dropped = @ \cup shift[w].doomed,
                          ![w].pending = {}, ![w].doomed = {},
                          ![w].figures = {Report(ledger, subs, m)}]
         ELSE Quit(w)
    /\ UNCHANGED <<ledger, derivedTables, budgets, refreshes, phrasings, role,
                   overlaps, derivedCounts>>

\* The row of a month is another transaction's until that one ends.
SnapshotIsFree(w, m) == \A v \in Workers \ {w} : m \notin DOMAIN shift[v].stored

\* persist_snapshot: an upsert, which leaves a narrative alone.
StoreSnapshot(w) ==
    /\ shift[w].stage = "built"
    /\ SnapshotIsFree(w, MonthAt(shift[w].at))
    /\ IF \A f \in shift[w].figures : f.transaction \subseteq DOMAIN ledger
       THEN shift' = [shift EXCEPT ![w].stage = "sweeping", ![w].at = @ + 1,
                        ![w].stored = [m \in DOMAIN @ \cup {MonthAt(shift[w].at)} |->
                           IF m \in DOMAIN @ THEN @[m] ELSE shift[w].figures],
                        ![w].figures = {}]
       ELSE Quit(w)
    /\ UNCHANGED <<ledger, derivedTables, budgets, refreshes, phrasings, role,
                   overlaps, derivedCounts>>

\* The five anomalies of the month with the largest values.
Listed(rows) == {a \in rows : Cardinality({b \in rows :
                   b.finding.observed > a.finding.observed}) < 5}

BreachNotice(b, run) == [kind |-> "budget_breach",
                         resource |-> <<b.id, ThisMonth>>, run |-> run]

AnomalyNotice(a, run) == [kind |-> "anomaly_detected", resource |-> a, run |-> run]

Breached(c) == /\ budgets[c].active
               /\ Progress(ledger, {s.sub : s \in subscriptions}, budgets[c],
                           ThisMonth, Day).state = "exceeded"

\* Mutant: nothing counts as a repeat.
RepeatsNever(n) == FALSE

Repeats(n) == \E old \in notices : old.kind = n.kind /\ old.resource = n.resource

\* _notify: the stored anomalies and the exceeded budgets of this month, each
\* unless a committed notice of the same resource is found.
Notify(w) ==
    /\ shift[w].stage = "sweeping" /\ shift[w].at = SnapshotMonths
    /\ LET run == shift[w].run
           standing == {a \in (anomalies \ shift[w].dropped) \cup shift[w].found :
                          a.month = ThisMonth}
           due == {AnomalyNotice(a, run) : a \in Listed(standing)}
                    \cup {BreachNotice(budgets[c], run) :
                            c \in {d \in DOMAIN budgets : Breached(d)}} IN
         shift' = [shift EXCEPT ![w].stage = "told",
                                ![w].told = {n \in due : ~ Repeats(n)}]
    /\ UNCHANGED <<ledger, derivedTables, budgets, refreshes, phrasings, role,
                   overlaps, derivedCounts>>

Narrative(m) == IF m \in DOMAIN snapshots THEN snapshots[m].narrative ELSE {}

CommitRefresh(w) ==
    /\ shift[w].stage = "told"
    /\ anomalies' = (anomalies \ shift[w].dropped) \cup shift[w].found
    /\ snapshots' = [m \in DOMAIN snapshots \cup DOMAIN shift[w].stored |->
                       IF m \in DOMAIN shift[w].stored
                       THEN [figures |-> shift[w].stored[m],
                             narrative |-> Narrative(m)]
                       ELSE snapshots[m]]
    /\ notices' = notices \cup shift[w].told
    /\ Quit(w)
    /\ UNCHANGED <<ledger, subscriptions, budgets, refreshes, phrasings, role,
                   overlaps, derivedCounts>>

-----------------------------------------------------------------------------
(* A narrative                                                             *)

TakePhrasing(w) ==
    /\ shift[w].stage = "off" /\ phrasings > 0
    /\ phrasings' = phrasings - 1
    /\ shift' = [shift EXCEPT ![w] = [OffDuty EXCEPT !.stage = "writing"]]
    /\ UNCHANGED <<ledger, derivedTables, budgets, refreshes, role, overlaps,
                   derivedCounts>>

\* generate: no snapshot, a blocked view, a spent budget, an error or a
\* rejected answer end in no narrative.
Outcomes(m) == IF m \in DOMAIN snapshots THEN {"none", "prose"} ELSE {"none"}

Phrase(w) ==
    /\ shift[w].stage = "writing" /\ shift[w].at < NarrativeMonths
    /\ LET m == MonthAt(shift[w].at) IN
         \/ /\ "none" \in Outcomes(m)
            /\ shift' = [shift EXCEPT ![w].at = @ + 1]
         \/ /\ "prose" \in Outcomes(m)
            /\ shift' = [shift EXCEPT ![w].stage = "phrased",
                                      ![w].figures = snapshots[m].figures]
    /\ UNCHANGED <<ledger, derivedTables, budgets, refreshes, phrasings, role,
                   overlaps, derivedCounts>>

\* The UPDATE goes by the month alone, and waits for its row.
StoreNarrative(w) ==
    /\ shift[w].stage = "phrased"
    /\ SnapshotIsFree(w, MonthAt(shift[w].at))
    /\ shift' = [shift EXCEPT ![w].stage = "writing", ![w].at = @ + 1,
                   ![w].stored = [m \in DOMAIN @ \cup {MonthAt(shift[w].at)} |->
                      IF m \in DOMAIN @ THEN @[m] ELSE shift[w].figures],
                   ![w].figures = {}]
    /\ UNCHANGED <<ledger, derivedTables, budgets, refreshes, phrasings, role,
                   overlaps, derivedCounts>>

CommitNarratives(w) ==
    /\ shift[w].stage = "writing" /\ shift[w].at = NarrativeMonths
    /\ snapshots' = [m \in DOMAIN snapshots |->
                       IF m \in DOMAIN shift[w].stored
                       THEN [snapshots[m] EXCEPT !.narrative = shift[w].stored[m]]
                       ELSE snapshots[m]]
    /\ Quit(w)
    /\ UNCHANGED <<ledger, subscriptions, anomalies, notices, budgets, refreshes,
                   phrasings, role, overlaps, derivedCounts>>

-----------------------------------------------------------------------------
(* The nights, and the loss of workers                                     *)

\* Statements are under row-level security, forced on their owner too; only a
\* role that bypasses it sees any without a tenant set: a superuser.
ActiveTenants == role = "superuser" /\ DOMAIN ledger # {}

NightlyRefresh ==
    /\ nights < MaxNights
    /\ nights' = nights + 1
    /\ refreshes' = refreshes + IF ActiveTenants THEN 1 ELSE 0
    /\ UNCHANGED <<ledger, derivedTables, budgets, phrasings, shift, role,
                   overlaps, runs, changes, deaths>>

\* Half an hour later; with the model switched off there is nothing to do.
NightlyNarratives ==
    /\ nights < MaxNights
    /\ nights' = nights + 1
    /\ phrasings' = phrasings + IF ActiveTenants THEN 1 ELSE 0
    /\ UNCHANGED <<ledger, derivedTables, budgets, refreshes, shift, role,
                   overlaps, runs, changes, deaths>>

\* A worker is lost; its message, not acknowledged yet, is delivered again.
Die(w) ==
    /\ deaths < MaxDeaths
    /\ shift[w].stage # "off"
    /\ deaths' = deaths + 1
    /\ IF shift[w].stage \in Refreshing
       THEN refreshes' = refreshes + 1 /\ UNCHANGED phrasings
       ELSE phrasings' = phrasings + 1 /\ UNCHANGED refreshes
    /\ Quit(w)
    /\ UNCHANGED <<ledger, derivedTables, budgets, role, overlaps, runs, changes,
                   nights>>

DerivedNext ==
    \/ \E b \in DOMAIN Batches : ImportRows(b) \/ DeleteRows(b)
    \/ \E t \in DOMAIN Recategorised : Recategorise(t)
    \/ \E c \in Categories :
         \/ \E amount \in BudgetAmounts :
              CreateBudget(c, amount) \/ \E on \in BOOLEAN : UpdateBudget(c, amount, on)
         \/ RemoveBudget(c)
    \/ \E w \in Workers :
         \/ TakeRefresh(w)
         \/ BeginReplacing(w)
         \/ CommitSubscriptions(w)
         \/ Sweep(w)
         \/ Build(w)
         \/ StoreSnapshot(w)
         \/ Notify(w)
         \/ CommitRefresh(w)
         \/ TakePhrasing(w)
         \/ Phrase(w)
         \/ StoreNarrative(w)
         \/ CommitNarratives(w)
         \/ Die(w)
    \/ NightlyRefresh
    \/ NightlyNarratives

DerivedSpec == DerivedInit /\ [][DerivedNext]_derivedVars

-----------------------------------------------------------------------------
(* Properties                                                              *)

\* The rows of the derived tables name runs that have begun and months and
\* categories that exist, and an anomaly points at a transaction of the ledger:
\* no deletion leaves one behind, and no refresh inserts one too late.
DerivedTypeOK ==
    /\ \A s \in subscriptions : s.run \in 1 .. runs
    /\ \A a \in anomalies : /\ a.run \in 1 .. runs
                            /\ a.finding.about \subseteq DOMAIN ledger
    /\ DOMAIN snapshots \subseteq {MonthAt(k) : k \in 0 .. SnapshotMonths - 1}
    /\ DOMAIN budgets \subseteq Categories
    /\ refreshes \in Nat /\ phrasings \in Nat
    /\ role \in Roles

\* A refresh that had the tenant to itself, while the ledger stood still,
\* leaves exactly what the ledger says: every month of the window has the
\* findings of a recomputation and no others, and the report of one.
RefreshedIsExact ==
    [][\A w \in Workers :
         shift[w].stage = "told" /\ shift'[w].stage = "off" /\ shift[w].alone
           /\ deaths' = deaths
         => \A k \in 0 .. SnapshotMonths - 1 :
              /\ {a.finding : a \in {b \in anomalies' : b.month = MonthAt(k)}}
                   = Findings(ledger, MonthAt(k))
              /\ Cardinality({b \in anomalies' : b.month = MonthAt(k)})
                   = Cardinality(Findings(ledger, MonthAt(k)))
              /\ snapshots'[MonthAt(k)].figures
                   = {Report(ledger, Recurring(ledger, Day), MonthAt(k))}]_derivedVars

\* A breach of a budget is told once in a month: two notices of it can only
\* come from two refreshes that were under way together.
ToldOnceInTurn ==
    \A n, o \in notices :
      n.kind = "budget_breach" /\ o.kind = n.kind /\ n.resource = o.resource
        /\ n # o => {n.run, o.run} \in overlaps

\* Every surface shows the same money: the categories, the days and the trend
\* of a month sum to its headline figures, and a comparison is the difference
\* of two points of the trend. A screen opens on a month that has rows.
SurfacesAgree ==
    /\ DOMAIN ledger # {} => Of(ledger, DefaultMonth(ledger, Day)) # {}
    /\ \A k \in 0 .. SnapshotMonths - 1 :
         LET m == MonthAt(k)
             s == Summary(ledger, m)
             b == BreakdownOf(ledger, m)
             daily == DailySeries(ledger, m)
             trend == Trend(ledger, ThisMonth, SnapshotMonths + 1)
             compared == CompareMonths(ledger, m - 1, m)
         IN  /\ SumFunction([c \in DOMAIN b |-> b[c].total]) = s.expenses
             /\ SumFunction(daily) = s.expenses
             /\ trend[m].net = NetExpenses(s) /\ trend[m].flow = NetCashFlow(s)
             /\ compared.change = trend[m].net - trend[m - 1].net

\* The same finding of the same month is told once.
WarnedOnce ==
    \A n, o \in notices :
      n.kind = "anomaly_detected" /\ o.kind = n.kind
        /\ n.resource.month = o.resource.month
        /\ n.resource.finding = o.resource.finding => n = o

\* A night refreshes the tenant.
NightReachesAll ==
    [][nights' > nights /\ DOMAIN ledger # {} /\ phrasings' = phrasings
         => refreshes' = refreshes + 1]_derivedVars

\* The prose of a month says what its row says.
ProseAgreesWithCards ==
    \A m \in DOMAIN snapshots :
      snapshots[m].narrative # {} => snapshots[m].narrative = snapshots[m].figures

=============================================================================
