------------------------- MODULE IntelligenceProofs -------------------------
(***************************************************************************)
(* Theorems about the privacy gateway, about the derived intelligence, and *)
(* about the two side by side.                                             *)
(***************************************************************************)
EXTENDS MCIntelligence, Sums

-----------------------------------------------------------------------------
(* The gateway                                                             *)

\* The record of an asker.
AskerStages == {"new", "between", "checking", "calling", "answered", "finished", "done"}
AskerRow == [stage : AskerStages, asked : Nat, owed : Nat, attempt : Nat,
             response : Responses \cup {NoOne}]
Amounts == [calls : Nat, cost : Nat]

BooksInv ==
    /\ GatewayTypeOK
    /\ asker \in [Askers -> AskerRow]
    /\ bill \in Amounts /\ dropped \in Amounts
    /\ \A d \in MonthDays : keeper[d] # NoOne /\ d # today =>
         d < today /\ keeper[d] \in overnight

\* What a transaction has counted of refusals and rejections it has filed, and
\* what holds of each transaction holds of what is committed.
FilesWhatItCounts(p) ==
    /\ Counted(p, "payloads_blocked") = filing[p]["pii_in_payload"]
    /\ Counted(p, "injections_quarantined") = filing[p]["injection_quarantined"]
    /\ Counted(p, "outputs_rejected") = filing[p]["output_pii_echo"]
         + filing[p]["output_schema_violation"] + filing[p]["output_untraceable_figure"]

LogInv == CentreAgreesWithLog /\ \A p \in Askers : FilesWhatItCounts(p)

\* What a transaction may still add to the cost without looking at the budget
\* again: what it owes, and the calls it has been allowed.
CallsAhead(p) ==
    CASE asker[p].stage = "calling" ->
           IF Errand[p] = "assistant" THEN MaxTurns - asker[p].asked ELSE 1
      [] asker[p].stage = "answered" ->
           IF Errand[p] = "assistant" THEN MaxTurns - asker[p].asked - 1 ELSE 0
      [] OTHER -> 0

Ahead(p) == asker[p].owed + Max(Prices) * CallsAhead(p)

Owed(p) ==
    /\ asker[p].stage \in {"calling", "answered"} => Budget > 0
    /\ asker[p].stage \notin {"calling", "answered"} => asker[p].owed = 0
    /\ Errand[p] = "assistant" =>
         /\ asker[p].stage \in {"new", "between"} => asker[p].asked = 0
         /\ asker[p].stage \in {"checking", "calling", "answered"} =>
              asker[p].asked < MaxTurns
    /\ Ahead(p) <= Reach(p)

OwedInv == \A p \in Askers : Owed(p)

\* What a transaction has counted and may still add, beyond its reach: it has
\* seen the budget before it, and not what others hold.
Beyond(p) == Counted(p, "cost_inr") + Ahead(p) - Reach(p)

Over(p) == IF Beyond(p) > 0 THEN Beyond(p) ELSE 0

\* What the transactions that are done, and those that held a row over midnight,
\* let be spent beyond the budget.
Night(p) == IF p \in overnight THEN Budget ELSE 0

Share(p) == Night(p) + IF asker[p].stage = "done" THEN Reach(p) ELSE 0

Overs == SumFunctionOnSet([p \in Askers |-> Over(p)], Askers)
Shares == SumFunctionOnSet([p \in Askers |-> Share(p)], Askers)

\* The committed cost, and what the open transactions are over, is below the
\* budget and those shares; none is over by more than the budget.
SpentInv ==
    /\ Budget = 0 => /\ Booked("cost_inr") = 0
                     /\ \A p \in Askers : Counted(p, "cost_inr") = 0
    /\ Budget > 0 => Booked("cost_inr") + Overs < Budget + Shares
    /\ \A p \in Askers : Over(p) <= Budget

GatewayInv == BooksInv /\ CallsAddUp /\ LogInv /\ OwedInv /\ SpentInv
-----------------------------------------------------------------------------
(* Prices, and what they add up to *)

\* There is a greatest price.
LEMMA MostIsGreatest ==
  Max(Prices) \in Nat /\ \A price \in Prices : price \in Nat /\ price <= Max(Prices)
<1>1. \E most \in Prices : \A price \in Prices : most >= price
  BY GatewayAssumption
<1>2. Max(Prices) \in Prices /\ \A price \in Prices : Max(Prices) >= price
  BY <1>1 DEF Max
<1>. QED  BY <1>2, GatewayAssumption

\* One call more costs at most one greatest price more.
LEMMA OneMore ==
  ASSUME NEW k \in Nat
  PROVE  /\ Max(Prices) * k \in Nat /\ Max(Prices) * (k + 1) = Max(Prices) * k + Max(Prices)
         /\ k # 0 => Max(Prices) * k = Max(Prices) * (k - 1) + Max(Prices)
<1>1. Max(Prices) \in Nat
  BY MostIsGreatest
<1>. DEFINE most == Max(Prices)
<1>. HIDE DEF most
<1>2. most \in Nat
  BY <1>1 DEF most
<1>3. /\ most * k \in Nat /\ most * (k + 1) = most * k + most
      /\ k # 0 => most * k = most * (k - 1) + most
  BY <1>2
<1>. QED  BY <1>3 DEF most

\* Fewer calls cost no more.
LEMMA FewerCalls ==
  ASSUME NEW n \in Nat, NEW k \in 0..n
  PROVE  Max(Prices) * (n - k) <= Max(Prices) * n
<1>. DEFINE most == Max(Prices)
<1>1. most \in Nat
  BY MostIsGreatest
<1>. HIDE DEF most
<1>2. most * n = most * (n - k) + most * k /\ most * k \in Nat /\ most * (n - k) \in Nat
  BY <1>1
<1>3. most * (n - k) <= most * n
  BY <1>2
<1>. QED  BY <1>3 DEF most

\* What an asker may still spend is a natural number.
LEMMA ReachIsNat == \A p \in Askers : Reach(p) \in Nat
<1>1. Max(Prices) * 1 \in Nat /\ Max(Prices) * MaxTurns \in Nat
  BY OneMore, GatewayAssumption
<1>. QED  BY <1>1 DEF Reach

-----------------------------------------------------------------------------
(* The rows of the month, and what they add up to *)

Column(c) == [d \in MonthDays |-> booked[d][c]]

\* What a transaction has added to the rows it holds.
Added(p, c) == [d \in MonthDays |->
                  IF keeper[d] = p THEN drafted[d][c] - booked[d][c] ELSE 0]

\* A month has a day, and finitely many.
LEMMA DaysAreFinite == IsFiniteSet(MonthDays)
BY GatewayAssumption, FS_Interval DEF MonthDays

\* The sums of a counter, over the committed rows and over what is added.
LEMMA CountedIsNat ==
  ASSUME BooksInv, NEW c \in Counters
  PROVE  /\ Weights(Column(c), MonthDays) /\ Booked(c) \in Nat
         /\ Booked(c) = SumFunctionOnSet(Column(c), MonthDays)
         /\ \A p \in Askers :
               /\ Weights(Added(p, c), MonthDays) /\ Counted(p, c) \in Nat
               /\ Counted(p, c) = SumFunctionOnSet(Added(p, c), MonthDays)
               /\ (\A d \in MonthDays : keeper[d] # p) => Counted(p, c) = 0
               /\ Uncounted(p) \in {0, 1}
<1>1. Weights(Column(c), MonthDays)
  BY DEF BooksInv, GatewayTypeOK, Weights, Column
<1>2. Booked(c) = SumFunctionOnSet(Column(c), MonthDays)
  <2>1. DOMAIN Column(c) = MonthDays
    BY DEF Column
  <2>. QED  BY <2>1 DEF Booked, SumFunction, Column
<1>3. ASSUME NEW p \in Askers
      PROVE  /\ Weights(Added(p, c), MonthDays)
             /\ Counted(p, c) = SumFunctionOnSet(Added(p, c), MonthDays)
  <2>1. Weights(Added(p, c), MonthDays)
    BY GatewayAssumption DEF BooksInv, GatewayTypeOK, Weights, Added
  <2>2. DOMAIN Added(p, c) = MonthDays
    BY DEF Added
  <2>. QED  BY <2>1, <2>2 DEF Counted, SumFunction, Added
<1>4. ASSUME NEW p \in Askers, \A d \in MonthDays : keeper[d] # p
      PROVE  Counted(p, c) = 0
  <2>1. \A d \in MonthDays : Added(p, c)[d] = 0
    BY <1>4 DEF Added
  <2>. QED  BY <1>3, <2>1, SumOfZeros, DaysAreFinite
<1>. QED  BY <1>1, <1>2, <1>3, <1>4, SumIsNat, DaysAreFinite DEF Uncounted

\* What a transaction sees of a counter is what is committed and what it added.
LEMMA SpendIsSeen ==
  ASSUME BooksInv, NEW p \in Askers
  PROVE  MonthSpend(p) = Booked("cost_inr") + Counted(p, "cost_inr")
<1>. DEFINE c == "cost_inr"
            seen == [d \in MonthDays |-> Seen(p, d)[c]]
<1>1. c \in Counters
  BY DEF Counters
<1>2. \A d \in MonthDays : seen[d] = Column(c)[d] + Added(p, c)[d]
  BY <1>1 DEF Seen, Column, Added, BooksInv, GatewayTypeOK
<1>3. Whole(Column(c), MonthDays) /\ Whole(Added(p, c), MonthDays)
  BY <1>1, CountedIsNat DEF Weights, Whole
<1>4. MonthSpend(p) = SumFunctionOnSet(seen, MonthDays)
  BY DEF MonthSpend, SumFunction
<1>. HIDE DEF seen
<1>5. SumFunctionOnSet(seen, MonthDays)
        = SumFunctionOnSet(Column(c), MonthDays) + SumFunctionOnSet(Added(p, c), MonthDays)
  BY <1>2, <1>3, SumOfSums, DaysAreFinite
<1>. QED  BY <1>1, <1>4, <1>5, CountedIsNat

\* The rows as they are: nothing is counted.
LEMMA NothingCounted ==
  ASSUME UNCHANGED books
  PROVE  \A c \in Counters : /\ Booked(c)' = Booked(c)
                             /\ \A p \in Askers : Counted(p, c)' = Counted(p, c)
BY DEF books, Booked, Counted

Increase(increments, c) == IF c \in DOMAIN increments THEN increments[c] ELSE 0

\* A bump adds to what its transaction has counted, and to nothing else.
LEMMA BumpCounts ==
  ASSUME BooksInv, BooksInv', NEW p \in Askers, NEW increments, Bump(p, increments),
         UNCHANGED calendar, \A c \in Counters : Increase(increments, c) \in Nat
  PROVE  \A c \in Counters :
            /\ Booked(c)' = Booked(c)
            /\ Counted(p, c)' = Counted(p, c) + Increase(increments, c)
            /\ \A q \in Askers \ {p} : Counted(q, c)' = Counted(q, c)
<1>. SUFFICES ASSUME NEW c \in Counters
              PROVE  /\ Booked(c)' = Booked(c)
                     /\ Counted(p, c)' = Counted(p, c) + Increase(increments, c)
                     /\ \A q \in Askers \ {p} : Counted(q, c)' = Counted(q, c)
  OBVIOUS
<1>. DEFINE more == Increase(increments, c)
<1>1. /\ today \in MonthDays /\ booked' = booked /\ more \in Nat /\ p # NoOne
      /\ booked[today][c] \in Nat /\ drafted[today][c] \in Nat
      /\ keeper[today] = p \/ keeper[today] = NoOne
  BY GatewayAssumption DEF Bump, MayBump, BooksInv, GatewayTypeOK
<1>2. /\ keeper'[today] = p /\ \A d \in MonthDays \ {today} : keeper'[d] = keeper[d]
      /\ \A d \in MonthDays \ {today} : drafted'[d] = drafted[d]
      /\ drafted'[today][c] = Seen(p, today)[c] + more
  BY DEF Bump, BooksInv, GatewayTypeOK, Increase
<1>3. Booked(c)' = Booked(c)
  BY <1>1 DEF Booked
<1>4. Counted(p, c)' = Counted(p, c) + more
  <2>1. \A d \in MonthDays \ {today} : Added(p, c)'[d] = Added(p, c)[d]
    BY <1>1, <1>2 DEF Added
  <2>2. Added(p, c)'[today] = Added(p, c)[today] + more /\ Added(p, c)[today] \in Nat
    <3>1. Added(p, c)'[today] = Seen(p, today)[c] + more - booked[today][c]
      <4>1. Added(p, c)'[today] = drafted'[today][c] - booked'[today][c]
        <5>1. Added(p, c)' = [d \in MonthDays |-> IF keeper'[d] = p
                                THEN drafted'[d][c] - booked'[d][c] ELSE 0]
          BY DEF Added, MonthDays
        <5>. QED  BY <1>1, <1>2, <5>1
      <4>2. booked'[today][c] = booked[today][c]
        BY <1>1
      <4>3. Seen(p, today)[c] \in Nat
        BY <1>1 DEF Seen
      <4>4. drafted'[today][c] = Seen(p, today)[c] + more
        BY <1>2
      <4>. QED  BY <1>1, <4>1, <4>2, <4>3, <4>4
    <3>2. Added(p, c)[today] = Seen(p, today)[c] - booked[today][c]
          /\ Seen(p, today)[c] \in Nat
      BY <1>1 DEF Added, Seen
    <3>3. Added(p, c)[today] \in Nat
      BY <1>1, CountedIsNat DEF Weights
    <3>. QED  BY <1>1, <3>1, <3>2, <3>3
  <2>3. Weights(Added(p, c), MonthDays) /\ Weights(Added(p, c)', MonthDays)
    <3>1. \A d \in MonthDays : Added(p, c)[d] \in Nat
      BY CountedIsNat DEF Weights
    <3>2. \A d \in MonthDays : Added(p, c)'[d] \in Nat
      BY <1>1, <2>1, <2>2, <3>1
    <3>. QED  BY <3>1, <3>2 DEF Weights
  <2>4. SumFunctionOnSet(Added(p, c)', MonthDays) - Added(p, c)'[today]
          = SumFunctionOnSet(Added(p, c), MonthDays) - Added(p, c)[today]
    BY <1>1, <2>1, <2>3, SumChanges, DaysAreFinite
  <2>5. /\ Counted(p, c) = SumFunctionOnSet(Added(p, c), MonthDays)
        /\ Counted(p, c)' = SumFunctionOnSet(Added(p, c)', MonthDays)
        /\ Counted(p, c) \in Nat /\ Counted(p, c)' \in Nat
    <3>1. Counted(p, c)' = SumFunctionOnSet(Added(p, c)', MonthDays)
      BY DEF Counted, SumFunction, Added, MonthDays
    <3>. QED  BY <2>3, <3>1, CountedIsNat, SumIsNat, DaysAreFinite
  <2>. QED  BY <1>1, <2>2, <2>4, <2>5
<1>5. ASSUME NEW q \in Askers \ {p} PROVE Counted(q, c)' = Counted(q, c)
  <2>1. Added(q, c)' = Added(q, c)
    <3>1. q # NoOne
      BY GatewayAssumption
    <3>. QED  BY <1>1, <1>2, <3>1 DEF Added
  <2>. QED  BY <2>1 DEF Counted, Added
<1>. QED  BY <1>3, <1>4, <1>5

\* The end of a transaction: it has added nothing any more, and the others what
\* they had; if it commits, what it had added is booked.
LEMMA ReleaseCounts ==
  ASSUME BooksInv, NEW p \in Askers, Release(p),
         booked' = booked \/ booked' = [d \in MonthDays |-> Seen(p, d)]
  PROVE  \A c \in Counters :
            /\ Counted(p, c)' = 0
            /\ \A q \in Askers \ {p} : Counted(q, c)' = Counted(q, c)
            /\ booked' = [d \in MonthDays |-> Seen(p, d)] =>
                 Booked(c)' = Booked(c) + Counted(p, c)
<1>. SUFFICES ASSUME NEW c \in Counters
              PROVE  /\ Counted(p, c)' = 0
                     /\ \A q \in Askers \ {p} : Counted(q, c)' = Counted(q, c)
                     /\ booked' = [d \in MonthDays |-> Seen(p, d)] =>
                          Booked(c)' = Booked(c) + Counted(p, c)
  OBVIOUS
<1>0. /\ keeper' = [d \in MonthDays |-> IF keeper[d] = p THEN NoOne ELSE keeper[d]]
      /\ drafted' = [d \in MonthDays |-> IF keeper[d] = p THEN NoCounts ELSE drafted[d]]
  BY DEF Release
<1>1. ASSUME NEW d \in MonthDays
      PROVE  /\ keeper'[d] = IF keeper[d] = p THEN NoOne ELSE keeper[d]
             /\ keeper[d] # p => drafted'[d] = drafted[d]
             /\ keeper[d] # p => booked'[d] = booked[d]
  BY <1>0 DEF Seen
<1>2. p # NoOne /\ \A q \in Askers : q # NoOne
  BY GatewayAssumption
<1>3. Counted(p, c)' = 0
  <2>. DEFINE none == [d \in MonthDays |-> 0]
  <2>1. Added(p, c)' = none
    <3>1. \A d \in MonthDays : keeper'[d] # p
      BY <1>1, <1>2
    <3>. QED  BY <3>1 DEF Added, MonthDays
  <2>2. SumFunctionOnSet(none, MonthDays) = 0
    BY SumOfZeros, DaysAreFinite
  <2>3. Counted(p, c)' = SumFunctionOnSet(none, MonthDays)
    BY <2>1 DEF Counted, Added, SumFunction
  <2>. QED  BY <2>2, <2>3
<1>4. ASSUME NEW q \in Askers \ {p} PROVE Counted(q, c)' = Counted(q, c)
  <2>1. Added(q, c)' = Added(q, c)
    <3>1. \A d \in MonthDays : (keeper'[d] = q <=> keeper[d] = q) /\ (keeper[d] = q =>
            drafted'[d] = drafted[d] /\ booked'[d] = booked[d])
      BY <1>1, <1>2
    <3>. QED  BY <3>1 DEF Added, MonthDays
  <2>. QED  BY <2>1 DEF Counted, Added
<1>5. ASSUME booked' = [d \in MonthDays |-> Seen(p, d)]
      PROVE  Booked(c)' = Booked(c) + Counted(p, c)
  <2>. DEFINE seen == [d \in MonthDays |-> Seen(p, d)[c]]
  <2>1. \A d \in MonthDays : seen[d] = Column(c)[d] + Added(p, c)[d]
    BY DEF Seen, Column, Added, BooksInv, GatewayTypeOK
  <2>2. Whole(Column(c), MonthDays) /\ Whole(Added(p, c), MonthDays)
    BY CountedIsNat DEF Weights, Whole
  <2>3. Booked(c)' = SumFunctionOnSet(seen, MonthDays)
    <3>1. [d \in MonthDays |-> booked'[d][c]] = seen
      BY <1>5
    <3>2. Booked(c)' = SumFunction([d \in MonthDays |-> booked'[d][c]])
      BY DEF Booked, MonthDays
    <3>. QED  BY <3>1, <3>2 DEF SumFunction
  <2>. HIDE DEF seen
  <2>4. SumFunctionOnSet(seen, MonthDays)
          = SumFunctionOnSet(Column(c), MonthDays) + SumFunctionOnSet(Added(p, c), MonthDays)
    BY <2>1, <2>2, SumOfSums, DaysAreFinite
  <2>. QED  BY <2>3, <2>4, CountedIsNat
<1>. QED  BY <1>3, <1>4, <1>5

\* The calls that are pending change by those of the one transaction that acts.
LEMMA PendingChanges ==
  ASSUME \A q \in Askers : Pending(q) \in Nat, NEW p \in Askers,
         Pending(p)' \in Nat, \A q \in Askers \ {p} : Pending(q)' = Pending(q)
  PROVE  /\ SumFunction([q \in Askers |-> Pending(q)])' \in Nat
         /\ SumFunction([q \in Askers |-> Pending(q)]) \in Nat
         /\ SumFunction([q \in Askers |-> Pending(q)])' - Pending(p)'
              = SumFunction([q \in Askers |-> Pending(q)]) - Pending(p)
<1>. DEFINE now == [q \in Askers |-> Pending(q)]
            then == [q \in Askers |-> Pending(q)']
<1>1. Weights(now, Askers) /\ Weights(then, Askers)
  BY DEF Weights
<1>2. DOMAIN now = Askers /\ DOMAIN then = Askers /\ now[p] = Pending(p)
      /\ then[p] = Pending(p)' /\ \A q \in Askers \ {p} : now[q] = then[q]
  OBVIOUS
<1>3. SumFunction([q \in Askers |-> Pending(q)]) = SumFunctionOnSet(now, Askers)
  BY <1>2 DEF SumFunction
<1>4. SumFunction([q \in Askers |-> Pending(q)])' = SumFunctionOnSet(then, Askers)
  BY <1>2 DEF SumFunction
<1>. HIDE DEF now, then
<1>5. SumFunctionOnSet(now, Askers) \in Nat /\ SumFunctionOnSet(then, Askers) \in Nat
  BY <1>1, SumIsNat, GatewayAssumption
<1>6. SumFunctionOnSet(then, Askers) - then[p] = SumFunctionOnSet(now, Askers) - now[p]
  BY <1>1, <1>2, SumChanges, GatewayAssumption
<1>. QED  BY <1>2, <1>3, <1>4, <1>5, <1>6

\* The calls add up when one transaction counts some that are billed or drops
\* them, and when it books what it had counted.
LEMMA CallsStay ==
  ASSUME BooksInv, BooksInv', CallsAddUp, NEW p \in Askers, NEW n \in Nat,
         \A q \in Askers \ {p} : /\ Counted(q, "ai_calls_made")' = Counted(q, "ai_calls_made")
                                 /\ asker'[q] = asker[q],
         Booked("ai_calls_made")' = Booked("ai_calls_made") + n,
         Counted(p, "ai_calls_made")' \in Nat,
         bill'.calls - dropped'.calls = bill.calls - dropped.calls
           + n + Pending(p)' - Pending(p)
  PROVE  CallsAddUp'
<1>. DEFINE sum == SumFunction([q \in Askers |-> Pending(q)])
<1>0. "ai_calls_made" \in Counters
  BY DEF Counters
<1>1. /\ \A q \in Askers : Pending(q) \in Nat
      /\ \A q \in Askers \ {p} : Pending(q)' = Pending(q)
      /\ Pending(p)' \in Nat
  BY <1>0, CountedIsNat DEF Pending, Uncounted
<1>2. sum' \in Nat /\ sum \in Nat /\ sum' - Pending(p)' = sum - Pending(p)
  BY <1>1, PendingChanges
<1>3. /\ Booked("ai_calls_made") \in Nat /\ dropped.calls \in Nat /\ bill.calls \in Nat
      /\ dropped'.calls \in Nat /\ bill'.calls \in Nat
  BY <1>0, CountedIsNat DEF BooksInv, Amounts
<1>4. bill.calls = Booked("ai_calls_made") + dropped.calls + sum
  BY DEF CallsAddUp
<1>. HIDE DEF sum
<1>5. bill'.calls = Booked("ai_calls_made")' + dropped'.calls + sum'
  BY <1>1, <1>2, <1>3, <1>4
<1>. QED  BY <1>5 DEF CallsAddUp, sum

-----------------------------------------------------------------------------
(* What is spent *)

\* What may still be added to the cost is told by the record of the asker.
LEMMA AheadIsNat ==
  ASSUME BooksInv, OwedInv, NEW p \in Askers
  PROVE  Ahead(p) \in Nat /\ CallsAhead(p) \in Nat
<1>1. CallsAhead(p) \in Nat
  BY GatewayAssumption DEF BooksInv, AskerRow, OwedInv, Owed, CallsAhead
<1>2. Max(Prices) * CallsAhead(p) \in Nat
  BY <1>1, OneMore
<1>. QED  BY <1>1, <1>2 DEF Ahead, BooksInv, AskerRow

\* What an asker may yet spend is a natural number, after a step too.
LEMMA AheadStaysNat ==
  ASSUME BooksInv', OwedInv', NEW p \in Askers
  PROVE  Ahead(p)' \in Nat
<1>1. CallsAhead(p)' \in Nat
  BY GatewayAssumption DEF BooksInv, AskerRow, OwedInv, Owed, CallsAhead
<1>2. Max(Prices) * CallsAhead(p)' \in Nat
  BY <1>1, OneMore
<1>. QED  BY <1>1, <1>2 DEF Ahead, BooksInv, AskerRow

\* One asker at a time moves in its conversation.
LEMMA OwedStays ==
  ASSUME OwedInv, NEW p \in Askers, Owed(p)', \A q \in Askers \ {p} : asker'[q] = asker[q]
  PROVE  /\ OwedInv'
         /\ \A q \in Askers \ {p} : Ahead(q)' = Ahead(q) /\ Uncounted(q)' = Uncounted(q)
BY DEF OwedInv, Owed, Ahead, CallsAhead, Reach, Uncounted

\* Whoever has counted nothing is not over, for what it may add is in its reach;
\* and nobody is over by more than it has counted.
LEMMA OverIsNat ==
  ASSUME BooksInv, OwedInv, NEW p \in Askers
  PROVE  /\ Over(p) \in Nat /\ Beyond(p) \in Int /\ Over(p) <= Counted(p, "cost_inr")
         /\ Counted(p, "cost_inr") \in Nat /\ Ahead(p) \in Nat /\ Reach(p) \in Nat
         /\ Ahead(p) <= Reach(p)
<1>1. Counted(p, "cost_inr") \in Nat
  BY CountedIsNat DEF Counters
<1>2. Ahead(p) \in Nat /\ Reach(p) \in Nat /\ Ahead(p) <= Reach(p)
  BY AheadIsNat, ReachIsNat DEF OwedInv, Owed
<1>. QED  BY <1>1, <1>2 DEF Over, Beyond

\* Without a budget nothing is asked for.
LEMMA NothingAhead ==
  ASSUME BooksInv, OwedInv, NEW p \in Askers, Budget = 0
  PROVE  Ahead(p) = 0
<1>1. asker[p].stage \notin {"calling", "answered"} /\ asker[p].owed = 0
  BY DEF OwedInv, Owed
<1>2. CallsAhead(p) = 0
  BY <1>1 DEF CallsAhead
<1>3. Max(Prices) * 0 = 0
  BY MostIsGreatest
<1>. QED  BY <1>1, <1>2, <1>3 DEF Ahead

\* What the others are over, when one transaction acts.
LEMMA OversChange ==
  ASSUME \A q \in Askers : Over(q) \in Nat, NEW p \in Askers,
         Over(p)' \in Nat, \A q \in Askers \ {p} : Over(q)' = Over(q)
  PROVE  /\ Overs' \in Nat /\ Overs \in Nat /\ Overs' - Over(p)' = Overs - Over(p)
<1>. DEFINE now == [q \in Askers |-> Over(q)]
            then == [q \in Askers |-> Over(q)']
<1>1. Weights(now, Askers) /\ Weights(then, Askers)
  BY DEF Weights
<1>2. now[p] = Over(p) /\ then[p] = Over(p)' /\ \A q \in Askers \ {p} : now[q] = then[q]
  OBVIOUS
<1>3. Overs = SumFunctionOnSet(now, Askers) /\ Overs' = SumFunctionOnSet(then, Askers)
  BY DEF Overs
<1>. HIDE DEF now, then
<1>5. SumFunctionOnSet(now, Askers) \in Nat /\ SumFunctionOnSet(then, Askers) \in Nat
  BY <1>1, SumIsNat, GatewayAssumption
<1>6. SumFunctionOnSet(then, Askers) - then[p] = SumFunctionOnSet(now, Askers) - now[p]
  BY <1>1, <1>2, SumChanges, GatewayAssumption
<1>. QED  BY <1>2, <1>3, <1>5, <1>6

\* The shares are numbers, at most what the transactions let be spent.
LEMMA SharesAreNat ==
  /\ \A p \in Askers : Night(p) \in Nat /\ Share(p) \in Nat /\ Excess(p) \in Nat
  /\ Shares \in Nat /\ SumFunctionOnSet([p \in Askers |-> Night(p)], Askers) \in Nat
  /\ SumFunctionOnSet([p \in Askers |-> Night(p)], Askers) <= Shares
  /\ Shares <= SumFunction([p \in Askers |-> Excess(p)])
  /\ SumFunction([p \in Askers |-> Excess(p)]) \in Nat
<1>. DEFINE night == [p \in Askers |-> Night(p)]
            share == [p \in Askers |-> Share(p)]
            excess == [p \in Askers |-> Excess(p)]
<1>1. \A p \in Askers : Reach(p) \in Nat /\ Night(p) \in Nat
  BY ReachIsNat, GatewayAssumption DEF Night
<1>2. \A p \in Askers : /\ Share(p) \in Nat /\ Excess(p) \in Nat
                        /\ Night(p) <= Share(p) /\ Share(p) <= Excess(p)
  BY <1>1 DEF Share, Excess, Night
<1>3. /\ Weights(night, Askers) /\ Weights(share, Askers) /\ Weights(excess, Askers)
      /\ \A p \in Askers : night[p] <= share[p] /\ share[p] <= excess[p]
  BY <1>1, <1>2 DEF Weights
<1>4. SumFunction(excess) = SumFunctionOnSet(excess, Askers)
  BY DEF SumFunction
<1>5. Shares = SumFunctionOnSet(share, Askers)
  BY DEF Shares
<1>. HIDE DEF night, share, excess
<1>6. /\ SumFunctionOnSet(night, Askers) \in Nat /\ SumFunctionOnSet(share, Askers) \in Nat
      /\ SumFunctionOnSet(excess, Askers) \in Nat
      /\ SumFunctionOnSet(night, Askers) <= SumFunctionOnSet(share, Askers)
      /\ SumFunctionOnSet(share, Askers) <= SumFunctionOnSet(excess, Askers)
  BY <1>3, SumIsNat, SumGrows, GatewayAssumption
<1>. QED  BY <1>1, <1>2, <1>4, <1>5, <1>6 DEF night, excess

\* The shares grow by the reach of a transaction that commits.
LEMMA SharesChange ==
  ASSUME NEW p \in Askers, \A q \in Askers \ {p} : asker'[q].stage = asker[q].stage,
         asker[p].stage # "done", overnight' = overnight
  PROVE  /\ Shares' = Shares + IF asker'[p].stage = "done" THEN Reach(p) ELSE 0
         /\ Shares' \in Nat
<1>. DEFINE share == [q \in Askers |-> Share(q)]
            then == [q \in Askers |-> Share(q)']
<1>0. \A q \in Askers : Reach(q)' = Reach(q) /\ Night(q)' = Night(q)
  BY DEF Reach, Night
<1>1. /\ \A q \in Askers \ {p} : share[q] = then[q]
      /\ \A q \in Askers : share[q] \in Nat /\ then[q] \in Nat
      /\ then[p] = share[p] + IF asker'[p].stage = "done" THEN Reach(p) ELSE 0
  BY <1>0, SharesAreNat, ReachIsNat, GatewayAssumption DEF Share
<1>2. Weights(share, Askers) /\ Weights(then, Askers)
  BY <1>1 DEF Weights
<1>3. Shares = SumFunctionOnSet(share, Askers) /\ Shares' = SumFunctionOnSet(then, Askers)
  BY DEF Shares
<1>. HIDE DEF share, then
<1>4. SumFunctionOnSet(share, Askers) \in Nat /\ SumFunctionOnSet(then, Askers) \in Nat
  BY <1>2, SumIsNat, GatewayAssumption
<1>5. SumFunctionOnSet(then, Askers) - then[p] = SumFunctionOnSet(share, Askers) - share[p]
  BY <1>1, <1>2, SumChanges, GatewayAssumption
<1>6. then[p] \in Nat /\ share[p] \in Nat /\ Reach(p) \in Nat
  BY <1>1, ReachIsNat
<1>. QED  BY <1>1, <1>3, <1>4, <1>5, <1>6

\* What one transaction does to the spending: the others stay as they are.
OthersStay(p) ==
    /\ UNCHANGED <<calendar>>
    /\ \A q \in Askers \ {p} : /\ asker'[q] = asker[q]
                               /\ Counted(q, "cost_inr")' = Counted(q, "cost_inr")
    /\ asker[p].stage # "done"
    /\ Counted(p, "cost_inr")' \in Nat /\ Ahead(p)' \in Nat

\* The others are over by what they were.
LEMMA OthersAreOver ==
  ASSUME BooksInv, OwedInv, NEW p \in Askers, OthersStay(p)
  PROVE  /\ Reach(p)' = Reach(p) /\ overnight' = overnight
         /\ Over(p)' \in Nat /\ \A q \in Askers \ {p} : Over(q)' = Over(q)
         /\ Overs' \in Nat /\ Overs \in Nat /\ Overs' - Over(p)' = Overs - Over(p)
<1>1. \A q \in Askers : Reach(q)' = Reach(q) /\ Reach(q) \in Nat
  BY ReachIsNat DEF Reach
<1>2. Over(p)' \in Nat
  BY <1>1 DEF OthersStay, Over, Beyond
<1>3. \A q \in Askers \ {p} : Over(q)' = Over(q)
  BY <1>1 DEF OthersStay, Over, Beyond, Ahead, CallsAhead
<1>. QED  BY <1>1, <1>2, <1>3, OverIsNat, OversChange DEF OthersStay, calendar

\* A transaction that counts what it may count, or gives it up, is over by no
\* more than it was.
LEMMA SpentFalls ==
  ASSUME BooksInv, OwedInv, SpentInv, NEW p \in Askers, OthersStay(p),
         asker'[p].stage # "done", Booked("cost_inr")' = Booked("cost_inr"),
         Counted(p, "cost_inr")' + Ahead(p)' <= Counted(p, "cost_inr") + Ahead(p)
  PROVE  SpentInv'
<1>1. /\ Reach(p)' = Reach(p) /\ Over(p)' \in Nat
      /\ \A q \in Askers \ {p} : Over(q)' = Over(q)
      /\ Overs' \in Nat /\ Overs \in Nat /\ Overs' - Over(p)' = Overs - Over(p)
  BY OthersAreOver
<1>2. /\ Over(p) \in Nat /\ Counted(p, "cost_inr") \in Nat /\ Ahead(p) \in Nat
      /\ Reach(p) \in Nat
  BY OverIsNat
<1>3. /\ Counted(p, "cost_inr")' \in Nat /\ Ahead(p)' \in Nat
  BY DEF OthersStay
<1>4. Over(p)' <= Over(p)
  <2>1. Beyond(p)' <= Beyond(p) /\ Beyond(p)' \in Int /\ Beyond(p) \in Int
    BY <1>1, <1>2, <1>3 DEF Beyond
  <2>. QED  BY <2>1 DEF Over
<1>5. Shares' = Shares /\ Shares \in Nat
  BY SharesChange, SharesAreNat DEF OthersStay, calendar
<1>6. Booked("cost_inr") \in Nat
  BY CountedIsNat DEF Counters
<1>7. ASSUME Budget = 0
      PROVE  Booked("cost_inr")' = 0 /\ \A q \in Askers : Counted(q, "cost_inr")' = 0
  <2>1. Counted(p, "cost_inr")' = 0
    BY <1>3, <1>7, NothingAhead DEF SpentInv
  <2>. QED  BY <1>7, <2>1 DEF SpentInv, OthersStay
<1>8. ASSUME Budget > 0 PROVE Booked("cost_inr")' + Overs' < Budget + Shares'
  BY <1>1, <1>2, <1>4, <1>5, <1>6, <1>8, GatewayAssumption DEF SpentInv
<1>9. \A q \in Askers : Over(q)' <= Budget
  <2>1. Over(p)' <= Budget
    BY <1>1, <1>2, <1>4, GatewayAssumption DEF SpentInv
  <2>. QED  BY <1>1, <2>1 DEF SpentInv
<1>. QED  BY <1>7, <1>8, <1>9 DEF SpentInv

\* What a transaction has counted it shows when it commits, and no more than its
\* share of it is new.
LEMMA SpentBooked ==
  ASSUME BooksInv, OwedInv, SpentInv, NEW p \in Askers, OthersStay(p),
         asker'[p].stage = "done", Ahead(p) = 0, Ahead(p)' = 0,
         Counted(p, "cost_inr")' = 0,
         Booked("cost_inr")' = Booked("cost_inr") + Counted(p, "cost_inr")
  PROVE  SpentInv'
<1>1. /\ Reach(p)' = Reach(p) /\ Over(p)' \in Nat
      /\ \A q \in Askers \ {p} : Over(q)' = Over(q)
      /\ Overs' \in Nat /\ Overs \in Nat /\ Overs' - Over(p)' = Overs - Over(p)
  BY OthersAreOver
<1>2. /\ Over(p) \in Nat /\ Counted(p, "cost_inr") \in Nat /\ Reach(p) \in Nat
  BY OverIsNat
<1>3. Over(p)' = 0 /\ Counted(p, "cost_inr") <= Over(p) + Reach(p)
  BY <1>1, <1>2 DEF Over, Beyond
<1>4. Shares' = Shares + Reach(p) /\ Shares \in Nat
  BY SharesChange, SharesAreNat DEF OthersStay, calendar
<1>5. Booked("cost_inr") \in Nat
  BY CountedIsNat DEF Counters
<1>6. ASSUME Budget > 0 PROVE Booked("cost_inr")' + Overs' < Budget + Shares'
  BY <1>1, <1>2, <1>3, <1>4, <1>5, <1>6, GatewayAssumption DEF SpentInv
<1>7. ASSUME Budget = 0
      PROVE  Booked("cost_inr")' = 0 /\ \A q \in Askers : Counted(q, "cost_inr")' = 0
  BY <1>7 DEF SpentInv, OthersStay
<1>8. \A q \in Askers : Over(q)' <= Budget
  BY <1>1, <1>3, GatewayAssumption DEF SpentInv
<1>. QED  BY <1>6, <1>7, <1>8 DEF SpentInv

\* Beside one that holds a row, only those are over that held one over midnight,
\* or it has itself, and another holds the row of the day.
LEMMA OthersHold ==
  ASSUME BooksInv, OwedInv, SpentInv, NEW p \in Askers, Counted(p, "cost_inr") # 0
  PROVE  LET night == [q \in Askers |-> Night(q)]
         IN  \E room \in [Askers -> Nat] :
               /\ SumFunctionOnSet(room, Askers) <= SumFunctionOnSet(night, Askers)
               /\ \A q \in Askers \ {p} : Over(q) <= room[q]
<1>. DEFINE night == [q \in Askers |-> Night(q)]
<1>0. /\ night \in [Askers -> Nat] /\ Weights(night, Askers) /\ Budget \in Nat
      /\ IsFiniteSet(Askers)
  BY SharesAreNat, GatewayAssumption DEF Weights
<1>1. ASSUME NEW q \in Askers, Over(q) # 0
      PROVE  \E d \in MonthDays : keeper[d] = q
  <2>1. Counted(q, "cost_inr") # 0
    BY <1>1, OverIsNat
  <2>. QED  BY <2>1, CountedIsNat DEF Counters
<1>2. PICK held \in MonthDays : keeper[held] = p
  BY CountedIsNat DEF Counters
<1>3. \A q \in Askers : q # NoOne
  BY GatewayAssumption
<1>4. \A q \in Askers : q \in overnight => night[q] = Budget
  BY DEF Night
<1>5. ASSUME NEW q \in Askers, Over(q) # 0, q \notin overnight PROVE keeper[today] = q
  BY <1>1, <1>3, <1>5 DEF BooksInv
<1>6. CASE \A q \in Askers \ {p} : q \notin overnight => Over(q) = 0
  <2>1. \A q \in Askers \ {p} : Over(q) <= night[q]
    BY <1>0, <1>4, <1>6 DEF SpentInv
  <2>2. SumFunctionOnSet(night, Askers) \in Nat
    BY <1>0, SumIsNat
  <2>. QED  BY <1>0, <2>1, <2>2
<1>7. ASSUME NEW other \in Askers \ {p}, other \notin overnight, Over(other) # 0
      PROVE  \E room \in [Askers -> Nat] :
               /\ SumFunctionOnSet(room, Askers) <= SumFunctionOnSet(night, Askers)
               /\ \A q \in Askers \ {p} : Over(q) <= room[q]
  <2>. DEFINE apart == [night EXCEPT ![p] = 0]
              room == [apart EXCEPT ![other] = Budget]
  <2>1. keeper[today] = other
    BY <1>5, <1>7
  <2>2. p \in overnight
    BY <1>2, <1>3, <2>1 DEF BooksInv
  <2>3. /\ apart \in [Askers -> Nat] /\ room \in [Askers -> Nat]
        /\ apart[p] = 0 /\ night[p] = Budget /\ \A q \in Askers \ {p} : apart[q] = night[q]
        /\ apart[other] = 0 /\ room[other] = Budget
        /\ \A q \in Askers \ {other} : room[q] = apart[q]
    BY <1>0, <1>4, <1>7, <2>2 DEF Night
  <2>4. \A q \in Askers \ {p} : Over(q) <= room[q]
    <3>1. ASSUME NEW q \in Askers \ {p, other} PROVE Over(q) <= room[q]
      <4>1. CASE q \in overnight
        BY <1>4, <2>3, <3>1, <4>1 DEF SpentInv
      <4>2. CASE q \notin overnight
        <5>1. Over(q) = 0
          BY <1>5, <2>1, <3>1, <4>2
        <5>. QED  BY <2>3, <3>1, <5>1
      <4>. QED  BY <4>1, <4>2
    <3>. QED  BY <2>3, <3>1 DEF SpentInv
  <2>5. Weights(apart, Askers) /\ Weights(room, Askers)
    BY <2>3 DEF Weights
  <2>. HIDE DEF apart, room, night
  <2>6. SumFunctionOnSet(apart, Askers) - 0 = SumFunctionOnSet(night, Askers) - Budget
    BY <1>0, <2>3, <2>5, SumChanges
  <2>7. SumFunctionOnSet(room, Askers) - Budget = SumFunctionOnSet(apart, Askers) - 0
    BY <1>0, <2>3, <2>5, SumChanges
  <2>8. /\ SumFunctionOnSet(room, Askers) \in Nat /\ SumFunctionOnSet(apart, Askers) \in Nat
        /\ SumFunctionOnSet(night, Askers) \in Nat
    BY <1>0, <2>5, SumIsNat
  <2>9. SumFunctionOnSet(room, Askers) <= SumFunctionOnSet(night, Askers)
    BY <1>0, <2>6, <2>7, <2>8
  <2>. QED  BY <2>3, <2>4, <2>9
<1>. QED  BY <1>6, <1>7

\* A transaction that has looked at the budget may add its reach, and was below
\* the budget with all that it sees.
LEMMA SpentChecked ==
  ASSUME BooksInv, OwedInv, SpentInv, NEW p \in Askers, OthersStay(p),
         asker'[p].stage # "done", Booked("cost_inr")' = Booked("cost_inr"),
         Counted(p, "cost_inr")' = Counted(p, "cost_inr"),
         Ahead(p)' <= Reach(p), MonthSpend(p) < Budget
  PROVE  SpentInv'
<1>1. /\ Reach(p)' = Reach(p) /\ Over(p)' \in Nat
      /\ \A q \in Askers \ {p} : Over(q)' = Over(q)
      /\ Overs' \in Nat /\ Overs \in Nat /\ Overs' - Over(p)' = Overs - Over(p)
  BY OthersAreOver
<1>2. /\ Over(p) \in Nat /\ Counted(p, "cost_inr") \in Nat /\ Reach(p) \in Nat
      /\ Over(p) <= Counted(p, "cost_inr") /\ Ahead(p)' \in Nat
  BY OverIsNat DEF OthersStay
<1>3. Over(p)' <= Counted(p, "cost_inr")
  BY <1>1, <1>2 DEF Over, Beyond
<1>4. /\ Booked("cost_inr") \in Nat
      /\ Booked("cost_inr") + Counted(p, "cost_inr") < Budget
  BY CountedIsNat, SpendIsSeen DEF Counters
<1>5. Shares' = Shares /\ Shares \in Nat
  BY SharesChange, SharesAreNat DEF OthersStay, calendar
<1>6. Booked("cost_inr") + Overs' < Budget + Shares
  <2>1. CASE Counted(p, "cost_inr") = 0
    BY <1>1, <1>2, <1>3, <1>4, <1>5, <2>1, GatewayAssumption DEF SpentInv
  <2>2. CASE Counted(p, "cost_inr") # 0
    <3>. DEFINE night == [q \in Askers |-> Night(q)]
    <3>1. PICK room \in [Askers -> Nat] :
            /\ SumFunctionOnSet(room, Askers) <= SumFunctionOnSet(night, Askers)
            /\ \A q \in Askers \ {p} : Over(q) <= room[q]
      BY <2>2, OthersHold
    <3>2. SumFunctionOnSet(night, Askers) <= Shares
          /\ SumFunctionOnSet(night, Askers) \in Nat
      BY SharesAreNat
    <3>. HIDE DEF night
    <3>. DEFINE now == [q \in Askers |-> Over(q)]
                rest == [now EXCEPT ![p] = 0]
    <3>3. /\ Weights(now, Askers) /\ Weights(rest, Askers) /\ Weights(room, Askers)
          /\ rest[p] = 0 /\ now[p] = Over(p)
          /\ \A q \in Askers \ {p} : rest[q] = now[q]
          /\ \A q \in Askers : rest[q] <= room[q]
      BY <3>1, OverIsNat DEF Weights
    <3>4. Overs = SumFunctionOnSet(now, Askers)
      BY DEF Overs
    <3>. HIDE DEF now, rest
    <3>5. SumFunctionOnSet(rest, Askers) - rest[p] = SumFunctionOnSet(now, Askers) - now[p]
      BY <3>3, SumChanges, GatewayAssumption
    <3>6. SumFunctionOnSet(rest, Askers) <= SumFunctionOnSet(room, Askers)
          /\ SumFunctionOnSet(rest, Askers) \in Nat /\ SumFunctionOnSet(room, Askers) \in Nat
      BY <3>3, SumGrows, SumIsNat, GatewayAssumption
    <3>7. Overs - Over(p) <= Shares
      BY <1>1, <1>2, <1>5, <3>1, <3>2, <3>3, <3>4, <3>5, <3>6
    <3>. QED  BY <1>1, <1>2, <1>3, <1>4, <1>5, <3>7, GatewayAssumption
  <2>. QED  BY <2>1, <2>2
<1>7. \A q \in Askers : Over(q)' <= Budget
  <2>1. Over(p)' <= Budget
    BY <1>1, <1>2, <1>3, <1>4, GatewayAssumption
  <2>. QED  BY <1>1, <2>1 DEF SpentInv
<1>8. Budget # 0
  BY <1>2, <1>4, GatewayAssumption
<1>. QED  BY <1>5, <1>6, <1>7, <1>8 DEF SpentInv

\* A step that writes nothing on a row: it files nothing that is counted, and
\* what it asks for later it has looked at the budget for.
LEMMA NoBumpKeeps ==
  ASSUME GatewayInv, BooksInv', NEW p \in Askers,
         UNCHANGED <<calendar, books, filed>>,
         \A q \in Askers \ {p} : asker'[q] = asker[q] /\ filing'[q] = filing[q],
         asker[p].stage # "done", asker'[p].stage # "done",
         \A k \in IncidentKinds \ {"budget_exceeded"} : filing'[p][k] = filing[p][k],
         bill'.calls = bill.calls + Uncounted(p)' - Uncounted(p), dropped' = dropped,
         Owed(p)', Ahead(p)' <= Ahead(p) \/ MonthSpend(p) < Budget
  PROVE  GatewayInv'
<1>. USE DEF GatewayInv
<1>0. "ai_calls_made" \in Counters /\ "cost_inr" \in Counters
  BY DEF Counters
<1>1. OwedInv' /\ Ahead(p)' \in Nat /\ Ahead(p) \in Nat
  BY OwedStays, AheadStaysNat, AheadIsNat
<1>2. \A c \in Counters : /\ Booked(c)' = Booked(c) /\ Booked(c) \in Nat
                          /\ \A q \in Askers : /\ Counted(q, c)' = Counted(q, c)
                                               /\ Counted(q, c) \in Nat
  BY NothingCounted, CountedIsNat
<1>3. CallsAddUp'
  <2>1. /\ Pending(p)' = Counted(p, "ai_calls_made") + Uncounted(p)'
        /\ Pending(p) = Counted(p, "ai_calls_made") + Uncounted(p)
        /\ Uncounted(p) \in Nat /\ Uncounted(p)' \in Nat
    BY <1>0, <1>2 DEF Pending, Uncounted
  <2>2. bill'.calls - dropped'.calls = bill.calls - dropped.calls
          + 0 + Pending(p)' - Pending(p)
    <3>1. bill.calls \in Nat /\ dropped.calls \in Nat /\ dropped'.calls = dropped.calls
      BY DEF BooksInv, Amounts
    <3>. QED  BY <1>0, <1>2, <2>1, <3>1
  <2>3. Booked("ai_calls_made")' = Booked("ai_calls_made") + 0 /\ 0 \in Nat
    BY <1>0, <1>2
  <2>. QED  BY <1>0, <1>2, <2>2, <2>3, CallsStay
<1>4. LogInv'
  BY <1>2 DEF LogInv, CentreAgreesWithLog, FilesWhatItCounts, IncidentKinds, Counters
<1>5. SpentInv'
  <2>1. OthersStay(p)
    BY <1>0, <1>1, <1>2 DEF OthersStay
  <2>2. CASE Ahead(p)' <= Ahead(p)
    <3>1. Counted(p, "cost_inr")' + Ahead(p)' <= Counted(p, "cost_inr") + Ahead(p)
      BY <1>0, <1>1, <1>2, <2>2
    <3>. QED  BY <1>0, <1>2, <2>1, <3>1, SpentFalls
  <2>3. CASE MonthSpend(p) < Budget
    <3>1. Ahead(p)' <= Reach(p)
      BY DEF Owed, Reach
    <3>. QED  BY <1>0, <1>2, <2>1, <2>3, <3>1, SpentChecked
  <2>. QED  BY <2>2, <2>3
<1>. QED  BY <1>1, <1>3, <1>4, <1>5

\* A step that writes on a row: what it counts it has filed, and the costs it
\* adds it no longer owes.
LEMMA BumpKeeps ==
  ASSUME GatewayInv, BooksInv', NEW p \in Askers, NEW increments, Bump(p, increments),
         UNCHANGED <<calendar, filed>>,
         \A c \in Counters : Increase(increments, c) \in Nat,
         \A q \in Askers \ {p} : asker'[q] = asker[q] /\ filing'[q] = filing[q],
         asker[p].stage # "done", asker'[p].stage # "done",
         filing'[p]["pii_in_payload"]
           = filing[p]["pii_in_payload"] + Increase(increments, "payloads_blocked"),
         filing'[p]["injection_quarantined"]
           = filing[p]["injection_quarantined"] + Increase(increments, "injections_quarantined"),
         filing'[p]["output_pii_echo"] + filing'[p]["output_schema_violation"]
              + filing'[p]["output_untraceable_figure"]
           = filing[p]["output_pii_echo"] + filing[p]["output_schema_violation"]
              + filing[p]["output_untraceable_figure"]
              + Increase(increments, "outputs_rejected"),
         bill'.calls - dropped'.calls = bill.calls - dropped.calls
           + Increase(increments, "ai_calls_made") + Uncounted(p)' - Uncounted(p),
         Owed(p)', Ahead(p)' + Increase(increments, "cost_inr") <= Ahead(p)
  PROVE  GatewayInv'
<1>. USE DEF GatewayInv
<1>0. \A c \in Counters :
         /\ Booked(c)' = Booked(c) /\ Booked(c) \in Nat
         /\ Counted(p, c)' = Counted(p, c) + Increase(increments, c)
         /\ Counted(p, c) \in Nat /\ Increase(increments, c) \in Nat
         /\ Counted(p, c)' \in Nat
         /\ \A q \in Askers \ {p} : Counted(q, c)' = Counted(q, c)
  <2>1. \A c \in Counters :
           /\ Booked(c)' = Booked(c)
           /\ Counted(p, c)' = Counted(p, c) + Increase(increments, c)
           /\ \A q \in Askers \ {p} : Counted(q, c)' = Counted(q, c)
    BY BumpCounts
  <2>2. \A c \in Counters : Booked(c) \in Nat /\ Counted(p, c) \in Nat
    BY CountedIsNat
  <2>. QED  BY <2>1, <2>2
<1>1. OwedInv' /\ Ahead(p)' \in Nat /\ Ahead(p) \in Nat
  BY OwedStays, AheadStaysNat, AheadIsNat
<1>2. CallsAddUp'
  <2>. DEFINE more == Increase(increments, "ai_calls_made")
  <2>0. "ai_calls_made" \in Counters
    BY DEF Counters
  <2>1. /\ Pending(p)' = Counted(p, "ai_calls_made") + more + Uncounted(p)'
        /\ Pending(p) = Counted(p, "ai_calls_made") + Uncounted(p)
        /\ Uncounted(p) \in Nat /\ Uncounted(p)' \in Nat
        /\ more \in Nat /\ Counted(p, "ai_calls_made") \in Nat
    BY <1>0, <2>0 DEF Pending, Uncounted
  <2>2. bill'.calls - dropped'.calls = bill.calls - dropped.calls
          + more + Uncounted(p)' - Uncounted(p)
    OBVIOUS
  <2>3. bill.calls - dropped.calls \in Int
    BY DEF BooksInv, Amounts
  <2>. HIDE DEF more
  <2>4. bill'.calls - dropped'.calls = bill.calls - dropped.calls
          + 0 + Pending(p)' - Pending(p)
    BY <2>1, <2>2, <2>3
  <2>5. Booked("ai_calls_made")' = Booked("ai_calls_made") + 0 /\ 0 \in Nat
    BY <1>0, <2>0
  <2>. QED  BY <1>0, <2>0, <2>4, <2>5, CallsStay
<1>3. LogInv'
  <2>1. /\ "payloads_blocked" \in Counters /\ "injections_quarantined" \in Counters
        /\ "outputs_rejected" \in Counters
    BY DEF Counters
  <2>2. FilesWhatItCounts(p)'
    <3>1. /\ Counted(p, "payloads_blocked")' = filing'[p]["pii_in_payload"]
          /\ Counted(p, "injections_quarantined")' = filing'[p]["injection_quarantined"]
      BY <1>0, <2>1 DEF LogInv, FilesWhatItCounts
    <3>2. Counted(p, "outputs_rejected")' = filing'[p]["output_pii_echo"]
         + filing'[p]["output_schema_violation"] + filing'[p]["output_untraceable_figure"]
      <4>1. \A k \in {"output_pii_echo", "output_schema_violation",
                      "output_untraceable_figure"} :
              filing[p][k] \in Nat /\ filing'[p][k] \in Nat
        BY DEF BooksInv, GatewayTypeOK, IncidentKinds
      <4>. QED  BY <1>0, <2>1, <4>1 DEF LogInv, FilesWhatItCounts
    <3>. QED  BY <3>1, <3>2 DEF FilesWhatItCounts
  <2>3. \A q \in Askers \ {p} : FilesWhatItCounts(q)'
    BY <1>0, <2>1 DEF LogInv, FilesWhatItCounts
  <2>4. CentreAgreesWithLog'
    BY <1>0, <2>1 DEF LogInv, CentreAgreesWithLog
  <2>. QED  BY <2>2, <2>3, <2>4 DEF LogInv
<1>4. SpentInv'
  <2>0. "cost_inr" \in Counters
    BY DEF Counters
  <2>1. OthersStay(p)
    BY <1>0, <1>1, <2>0 DEF OthersStay
  <2>2. Counted(p, "cost_inr")' + Ahead(p)' <= Counted(p, "cost_inr") + Ahead(p)
    BY <1>0, <1>1, <2>0
  <2>. QED  BY <1>0, <2>0, <2>1, <2>2, SpentFalls
<1>. QED  BY <1>1, <1>2, <1>3, <1>4

\* The types, for a step of either sort.
LEMMA NoBumpBooks ==
  ASSUME BooksInv, NEW p \in Askers, UNCHANGED <<calendar, books, filed>>,
         asker' \in [Askers -> AskerRow],
         filing' \in [Askers -> [IncidentKinds -> Nat]],
         bill' \in Amounts, dropped' \in Amounts
  PROVE  BooksInv'
BY DEF BooksInv, GatewayTypeOK, calendar, books

\* Bumping the counters of a call keeps the books.
LEMMA BumpBooks ==
  ASSUME BooksInv, NEW p \in Askers, NEW increments, Bump(p, increments),
         UNCHANGED <<calendar, filed>>, \A c \in Counters : Increase(increments, c) \in Nat,
         asker' \in [Askers -> AskerRow],
         filing' \in [Askers -> [IncidentKinds -> Nat]],
         bill' \in Amounts, dropped' \in Amounts
  PROVE  BooksInv'
<1>. DEFINE row == [c \in Counters |-> Seen(p, today)[c] + Increase(increments, c)]
<1>1. /\ today' = today /\ overnight' = overnight /\ today \in MonthDays
      /\ booked' = booked /\ p # NoOne
      /\ keeper' = [keeper EXCEPT ![today] = p]
      /\ drafted' = [drafted EXCEPT ![today] = row]
  BY GatewayAssumption DEF Bump, Increase, calendar, BooksInv, GatewayTypeOK
<1>2. \A c \in Counters : /\ Seen(p, today)[c] \in Nat /\ booked[today][c] \in Nat
                          /\ Seen(p, today)[c] >= booked[today][c]
                          /\ Increase(increments, c) \in Nat
  BY <1>1 DEF BooksInv, GatewayTypeOK, Seen
<1>3. row \in [Counters -> Nat] /\ \A c \in Counters : row[c] >= booked[today][c]
  BY <1>2
<1>. HIDE DEF row
<1>4. /\ keeper' \in [MonthDays -> Askers \cup {NoOne}] /\ keeper'[today] = p
      /\ drafted' \in [MonthDays -> [Counters -> Nat]] /\ drafted'[today] = row
      /\ \A d \in MonthDays \ {today} : keeper'[d] = keeper[d] /\ drafted'[d] = drafted[d]
  BY <1>1, <1>3 DEF BooksInv, GatewayTypeOK
<1>5. \A d \in MonthDays : keeper'[d] # NoOne =>
         \A c \in Counters : drafted'[d][c] >= booked'[d][c]
  BY <1>1, <1>3, <1>4 DEF BooksInv, GatewayTypeOK
<1>6. \A d \in MonthDays : keeper'[d] # NoOne /\ d # today' =>
         d < today' /\ keeper'[d] \in overnight'
  BY <1>1, <1>4 DEF BooksInv
<1>. QED  BY <1>1, <1>4, <1>5, <1>6 DEF BooksInv, GatewayTypeOK, MonthDays

\* An incident more of one kind.
LEMMA Filed ==
  ASSUME BooksInv, NEW p \in Askers, NEW kind \in IncidentKinds, File(p, kind)
  PROVE  /\ filing' \in [Askers -> [IncidentKinds -> Nat]]
         /\ filing'[p][kind] = filing[p][kind] + 1
         /\ \A other \in IncidentKinds \ {kind} : filing'[p][other] = filing[p][other]
         /\ \A q \in Askers \ {p} : filing'[q] = filing[q]
BY DEF BooksInv, GatewayTypeOK, File

\* The next question keeps the record, and asks nothing yet.
LEMMA NextAsked ==
  ASSUME BooksInv, OwedInv, NEW p \in Askers, NextQuestion(p), Errand[p] # "assistant",
         asker[p].stage \in {"between", "checking"}
  PROVE  /\ asker' \in [Askers -> AskerRow] /\ asker'[p].stage = "between"
         /\ \A q \in Askers \ {p} : asker'[q] = asker[q]
         /\ Owed(p)' /\ Ahead(p)' <= Ahead(p) /\ Uncounted(p)' = 0 /\ Uncounted(p) = 0
<1>1. /\ asker'[p] = [stage |-> "between", asked |-> asker[p].asked + 1,
                      owed |-> asker[p].owed, attempt |-> asker[p].attempt,
                      response |-> NoOne]
      /\ asker'[p] \in AskerRow /\ asker' \in [Askers -> AskerRow]
      /\ \A q \in Askers \ {p} : asker'[q] = asker[q]
  BY DEF NextQuestion, BooksInv, AskerRow, AskerStages
<1>2. Ahead(p)' = Ahead(p) /\ Ahead(p) \in Nat
  BY <1>1, AheadIsNat DEF Ahead, CallsAhead
<1>. QED  BY <1>1, <1>2 DEF OwedInv, Owed, Uncounted, Reach

\* An asker that moves leaves the others where they are.
LEMMA Moved ==
  ASSUME BooksInv, NEW p \in Askers, NEW stage \in AskerStages, Move(p, stage)
  PROVE  /\ asker' \in [Askers -> AskerRow]
         /\ asker'[p].stage = stage /\ asker'[p].asked = asker[p].asked
         /\ asker'[p].owed = asker[p].owed
         /\ \A q \in Askers \ {p} : asker'[q] = asker[q]
BY DEF Move, BooksInv, AskerRow

-----------------------------------------------------------------------------
(* One lemma per action *)

\* An errand is taken up.
LEMMA StartKeeps ==
  ASSUME GatewayInv, NEW p \in Askers, Start(p)
  PROVE  GatewayInv'
<1>. USE DEF GatewayInv
<1>1. /\ asker' \in [Askers -> AskerRow]
      /\ asker'[p].stage = "between" /\ asker'[p].asked = asker[p].asked
      /\ asker'[p].owed = asker[p].owed
      /\ \A q \in Askers \ {p} : asker'[q] = asker[q]
  BY DEF Start, BooksInv, AskerRow, AskerStages
<1>2. BooksInv'
  BY <1>1, NoBumpBooks DEF Start, BooksInv, GatewayTypeOK
<1>3. Owed(p)' /\ Ahead(p)' <= Ahead(p) /\ Uncounted(p)' = 0 /\ Uncounted(p) = 0
  <2>1. Ahead(p)' = Ahead(p)
    BY <1>1 DEF Ahead, CallsAhead, Start
  <2>. QED  BY <1>1, <2>1, AheadIsNat DEF Start, OwedInv, Owed, Uncounted, Reach
<1>4. bill'.calls = bill.calls + Uncounted(p)' - Uncounted(p)
  BY <1>3 DEF Start, BooksInv, Amounts
<1>. QED  BY <1>1, <1>2, <1>3, <1>4, NoBumpKeeps DEF Start

\* A row or a month that is passed over changes no book.
LEMMA PassedOver ==
  ASSUME GatewayInv, NEW p \in Askers, Errand[p] # "assistant", NextQuestion(p),
         asker[p].stage \in {"between", "checking"},
         UNCHANGED <<calendar, books, filing, filed, bill, dropped>>
  PROVE  GatewayInv'
<1>. USE DEF GatewayInv
<1>0. bill \in Amounts /\ dropped \in Amounts /\ bill.calls \in Nat /\ Ahead(p) \in Nat
  BY AheadIsNat DEF BooksInv, Amounts
<1>1. /\ asker' \in [Askers -> AskerRow] /\ asker'[p].stage = "between"
      /\ \A q \in Askers \ {p} : asker'[q] = asker[q]
      /\ Owed(p)' /\ Ahead(p)' <= Ahead(p) /\ Uncounted(p)' = 0 /\ Uncounted(p) = 0
  BY NextAsked
<1>2. BooksInv'
  BY <1>1, NoBumpBooks DEF BooksInv, GatewayTypeOK
<1>4. bill'.calls = bill.calls + Uncounted(p)' - Uncounted(p)
  BY <1>0, <1>1
<1>. QED  BY <1>1, <1>2, <1>4, NoBumpKeeps
\* A text or a payload that is refused is counted and filed.
LEMMA Refused ==
  ASSUME GatewayInv, NEW p \in Askers, Errand[p] # "assistant", NextQuestion(p),
         asker[p].stage = "between", UNCHANGED <<calendar, filed, bill, dropped>>,
         NEW increments, NEW kind \in IncidentKinds, Bump(p, increments), File(p, kind),
         \/ /\ increments = [injections_quarantined |-> 1]
            /\ kind = "injection_quarantined"
         \/ /\ increments = [payloads_blocked |-> 1]
            /\ kind = "pii_in_payload"
  PROVE  GatewayInv'
<1>. USE DEF GatewayInv
<1>0. bill \in Amounts /\ dropped \in Amounts /\ bill.calls \in Nat /\ Ahead(p) \in Nat
  BY AheadIsNat DEF BooksInv, Amounts
<1>1. /\ asker' \in [Askers -> AskerRow] /\ asker'[p].stage = "between"
      /\ \A q \in Askers \ {p} : asker'[q] = asker[q]
      /\ Owed(p)' /\ Ahead(p)' <= Ahead(p) /\ Uncounted(p)' = 0 /\ Uncounted(p) = 0
  BY NextAsked
<1>2. /\ filing' \in [Askers -> [IncidentKinds -> Nat]]
      /\ filing'[p][kind] = filing[p][kind] + 1
      /\ \A other \in IncidentKinds \ {kind} : filing'[p][other] = filing[p][other]
      /\ \A q \in Askers \ {p} : filing'[q] = filing[q]
  BY Filed
<1>3. /\ \A c \in Counters : Increase(increments, c) =
           IF \/ c = "injections_quarantined" /\ kind = "injection_quarantined"
              \/ c = "payloads_blocked" /\ kind = "pii_in_payload"
           THEN 1 ELSE 0
  BY DEF Increase, Counters
<1>4. UNCHANGED <<calendar, filed, bill, dropped>> /\ bill \in Amounts /\ dropped \in Amounts
      /\ asker[p].stage = "between"
  BY <1>0 DEF BooksInv
<1>5. BooksInv'
  BY <1>1, <1>2, <1>3, <1>4, BumpBooks
<1>6. /\ filing'[p]["pii_in_payload"]
           = filing[p]["pii_in_payload"] + Increase(increments, "payloads_blocked")
      /\ filing'[p]["injection_quarantined"] = filing[p]["injection_quarantined"]
           + Increase(increments, "injections_quarantined")
      /\ filing'[p]["output_pii_echo"] = filing[p]["output_pii_echo"]
      /\ filing'[p]["output_schema_violation"] = filing[p]["output_schema_violation"]
      /\ filing'[p]["output_untraceable_figure"] = filing[p]["output_untraceable_figure"]
      /\ \A k \in IncidentKinds : filing[p][k] \in Nat
  BY <1>2, <1>3 DEF BooksInv, GatewayTypeOK, IncidentKinds, Counters
<1>7. /\ Increase(increments, "outputs_rejected") = 0
      /\ Increase(increments, "ai_calls_made") = 0 /\ Increase(increments, "cost_inr") = 0
  BY <1>3 DEF Counters
<1>8. filing'[p]["output_pii_echo"] + filing'[p]["output_schema_violation"]
            + filing'[p]["output_untraceable_figure"]
         = filing[p]["output_pii_echo"] + filing[p]["output_schema_violation"]
            + filing[p]["output_untraceable_figure"]
            + Increase(increments, "outputs_rejected")
  BY <1>6, <1>7 DEF IncidentKinds
<1>9. bill'.calls - dropped'.calls = bill.calls - dropped.calls
         + Increase(increments, "ai_calls_made") + Uncounted(p)' - Uncounted(p)
  BY <1>1, <1>4, <1>7 DEF Amounts
<1>10. Ahead(p)' + Increase(increments, "cost_inr") <= Ahead(p)
  <2>1. Ahead(p)' \in Nat /\ OwedInv'
    BY <1>1, <1>5, OwedStays, AheadStaysNat
  <2>. QED  BY <1>1, <1>7, <2>1
<1>11. \A c \in Counters : Increase(increments, c) \in Nat
  BY <1>3
<1>. QED  BY <1>1, <1>2, <1>4, <1>5, <1>6, <1>8, <1>9, <1>10, <1>11, BumpKeeps
\* What is to be asked is ready, and has cost nothing yet.
LEMMA Readied ==
  ASSUME GatewayInv, NEW p \in Askers, Move(p, "checking"), asker[p].stage = "between",
         asker[p].asked < Limit(p),
         UNCHANGED <<calendar, books, filing, filed, bill, dropped>>
  PROVE  GatewayInv'
<1>. USE DEF GatewayInv
<1>0. bill \in Amounts /\ dropped \in Amounts /\ bill.calls \in Nat /\ Ahead(p) \in Nat
  BY AheadIsNat DEF BooksInv, Amounts
<1>1. /\ asker' \in [Askers -> AskerRow]
      /\ asker'[p].stage = "checking" /\ asker'[p].asked = asker[p].asked
      /\ asker'[p].owed = asker[p].owed
      /\ \A q \in Askers \ {p} : asker'[q] = asker[q]
  BY Moved DEF AskerStages
<1>2. BooksInv'
  BY <1>0, <1>1, NoBumpBooks DEF BooksInv, GatewayTypeOK
<1>3. Owed(p)' /\ Ahead(p)' <= Ahead(p) /\ Uncounted(p)' = 0 /\ Uncounted(p) = 0
  <2>1. Ahead(p)' = Ahead(p)
    BY <1>0, <1>1 DEF Ahead, CallsAhead
  <2>2. asker[p].owed = 0 /\ Ahead(p) <= Reach(p)
        /\ (Errand[p] = "assistant" => asker[p].asked = 0 /\ 0 < MaxTurns)
    BY GatewayAssumption DEF OwedInv, Owed
  <2>. QED  BY <1>0, <1>1, <2>1, <2>2 DEF Owed, Uncounted, Reach
<1>4. bill'.calls = bill.calls + Uncounted(p)' - Uncounted(p)
  BY <1>0, <1>3
<1>. QED  BY <1>0, <1>1, <1>2, <1>3, <1>4, NoBumpKeeps
\* A row is prepared, passed over, quarantined or blocked.
LEMMA PrepareKeeps ==
  ASSUME GatewayInv, NEW p \in Askers, Prepare(p)
  PROVE  GatewayInv'
<1>0. /\ Errand[p] = "cascade" /\ asker[p].stage = "between" /\ asker[p].asked < Limit(p)
      /\ UNCHANGED <<calendar, filed, bill, dropped>>
  BY DEF Prepare
<1>1. CASE Move(p, "checking") /\ UNCHANGED <<books, filing>>
  BY <1>0, <1>1, Readied
<1>2. CASE NextQuestion(p) /\ UNCHANGED <<books, filing>>
  BY <1>0, <1>2, PassedOver
<1>3. CASE /\ NextQuestion(p) /\ Bump(p, [injections_quarantined |-> 1])
           /\ File(p, "injection_quarantined")
  BY <1>0, <1>3, Refused DEF IncidentKinds
<1>4. CASE NextQuestion(p) /\ Bump(p, [payloads_blocked |-> 1]) /\ File(p, "pii_in_payload")
  BY <1>0, <1>4, Refused DEF IncidentKinds
<1>. QED  BY <1>1, <1>2, <1>3, <1>4 DEF Prepare

\* A month or a question is prepared, passed over or blocked.
LEMMA PrepareProseKeeps ==
  ASSUME GatewayInv, NEW p \in Askers, PrepareProse(p)
  PROVE  GatewayInv'
<1>0. /\ asker[p].stage = "between" /\ asker[p].asked < Limit(p)
      /\ UNCHANGED <<calendar, filed, bill, dropped>>
  BY DEF PrepareProse
<1>1. CASE Move(p, "checking") /\ UNCHANGED <<books, filing>>
  BY <1>0, <1>1, Readied
<1>2. CASE Errand[p] = "narrative" /\ NextQuestion(p) /\ UNCHANGED <<books, filing>>
  BY <1>0, <1>2, PassedOver
<1>3. CASE /\ Errand[p] = "narrative" /\ NextQuestion(p)
           /\ Bump(p, [payloads_blocked |-> 1]) /\ File(p, "pii_in_payload")
  BY <1>0, <1>3, Refused DEF IncidentKinds
<1>. QED  BY <1>1, <1>2, <1>3 DEF PrepareProse

\* What is spent by now is below the budget, or nothing is asked.
LEMMA CheckBudgetKeeps ==
  ASSUME GatewayInv, NEW p \in Askers, CheckBudget(p)
  PROVE  GatewayInv'
<1>. USE DEF GatewayInv
<1>0. /\ asker[p].stage = "checking"
      /\ UNCHANGED <<calendar, books, filed, bill, dropped>>
      /\ bill \in Amounts /\ dropped \in Amounts /\ Ahead(p) \in Nat
      /\ filing \in [Askers -> [IncidentKinds -> Nat]]
  BY AheadIsNat DEF CheckBudget, BooksInv, GatewayTypeOK
<1>1. ASSUME NEW stage \in {"calling", "finished"}, Move(p, stage), UNCHANGED filing,
             stage = "calling" => WithinBudget(p)
      PROVE  GatewayInv'
  <2>1. /\ asker' \in [Askers -> AskerRow]
        /\ asker'[p].stage = stage /\ asker'[p].asked = asker[p].asked
        /\ asker'[p].owed = asker[p].owed
        /\ \A q \in Askers \ {p} : asker'[q] = asker[q]
    BY <1>1, Moved DEF AskerStages
  <2>2. BooksInv'
    BY <1>0, <1>1, <2>1, NoBumpBooks
  <2>3. asker[p].owed = 0 /\ Uncounted(p)' = 0 /\ Uncounted(p) = 0
    BY <1>0, <1>1, <2>1 DEF OwedInv, Owed, Uncounted
  <2>4. Ahead(p)' <= Reach(p) /\ (stage = "finished" => Ahead(p)' = Ahead(p))
    <3>1. CASE stage = "finished"
      <4>1. Ahead(p)' = Ahead(p)
        BY <1>0, <2>1, <3>1 DEF Ahead, CallsAhead
      <4>. QED  BY <4>1 DEF OwedInv, Owed
    <3>2. CASE stage = "calling" /\ Errand[p] = "assistant"
      <4>1. asker[p].asked \in Nat /\ asker[p].asked < MaxTurns
        BY <1>0, <3>2 DEF OwedInv, Owed, BooksInv, AskerRow
      <4>2. Ahead(p)' = Max(Prices) * (MaxTurns - asker[p].asked)
        <5>1. Max(Prices) * (MaxTurns - asker[p].asked) \in Nat
          BY <4>1, OneMore, GatewayAssumption
        <5>. QED  BY <2>1, <2>3, <3>2, <5>1 DEF Ahead, CallsAhead
      <4>3. Max(Prices) * (MaxTurns - asker[p].asked) <= Max(Prices) * MaxTurns
        <5>1. MaxTurns \in Nat /\ asker[p].asked \in 0..MaxTurns
          BY <4>1, GatewayAssumption
        <5>. QED  BY <5>1, FewerCalls
      <4>. QED  BY <3>2, <4>2, <4>3 DEF Reach
    <3>3. CASE stage = "calling" /\ Errand[p] # "assistant"
      <4>1. Ahead(p)' = Max(Prices) * 1
        BY <2>1, <2>3, <3>3, MostIsGreatest DEF Ahead, CallsAhead
      <4>. QED  BY <3>3, <4>1, MostIsGreatest DEF Reach
    <3>. QED  BY <1>1, <3>1, <3>2, <3>3
  <2>5. stage = "calling" => Budget > 0 /\ MonthSpend(p) < Budget
    <3>1. MonthSpend(p) \in Nat
      <4>1. "cost_inr" \in Counters
        BY DEF Counters
      <4>2. Booked("cost_inr") \in Nat /\ Counted(p, "cost_inr") \in Nat
        BY <4>1, CountedIsNat
      <4>. QED  BY <4>2, SpendIsSeen
    <3>. QED  BY <1>1, <3>1, GatewayAssumption DEF WithinBudget
  <2>6. Owed(p)'
    <3>1. Errand[p] = "assistant" => asker[p].asked < MaxTurns
      BY <1>0 DEF OwedInv, Owed
    <3>2. Ahead(p)' <= Reach(p)'
      BY <2>4 DEF Reach
    <3>. QED  BY <1>1, <2>1, <2>3, <2>5, <3>1, <3>2 DEF Owed
  <2>7. Ahead(p)' <= Ahead(p) \/ MonthSpend(p) < Budget
    BY <1>0, <1>1, <2>4, <2>5
  <2>8. bill'.calls = bill.calls + Uncounted(p)' - Uncounted(p)
    BY <1>0, <2>3 DEF Amounts
  <2>. QED  BY <1>0, <1>1, <2>1, <2>2, <2>6, <2>7, <2>8, NoBumpKeeps
<1>2. ASSUME NextQuestion(p), Errand[p] # "assistant",
             File(p, "budget_exceeded") \/ UNCHANGED filing
      PROVE  GatewayInv'
  <2>1. /\ asker' \in [Askers -> AskerRow] /\ asker'[p].stage = "between"
        /\ \A q \in Askers \ {p} : asker'[q] = asker[q]
        /\ Owed(p)' /\ Ahead(p)' <= Ahead(p) /\ Uncounted(p)' = 0 /\ Uncounted(p) = 0
    BY <1>0, <1>2, NextAsked
  <2>2. /\ filing' \in [Askers -> [IncidentKinds -> Nat]]
        /\ \A other \in IncidentKinds \ {"budget_exceeded"} :
              filing'[p][other] = filing[p][other]
        /\ \A q \in Askers \ {p} : filing'[q] = filing[q]
    BY <1>0, <1>2, Filed DEF IncidentKinds
  <2>3. BooksInv'
    BY <1>0, <2>1, <2>2, NoBumpBooks
  <2>4. bill'.calls = bill.calls + Uncounted(p)' - Uncounted(p)
    BY <1>0, <2>1 DEF Amounts
  <2>. QED  BY <1>0, <2>1, <2>2, <2>3, <2>4, NoBumpKeeps
<1>. QED  BY <1>1, <1>2 DEF CheckBudget

\* The provider is asked: the cost is owed from here on.
LEMMA CallKeeps ==
  ASSUME GatewayInv, NEW p \in Askers, Call(p)
  PROVE  GatewayInv'
<1>. USE DEF GatewayInv
<1>0. /\ asker[p].stage = "calling"
      /\ UNCHANGED <<calendar, books, filing, filed, dropped>>
      /\ bill \in Amounts /\ dropped \in Amounts /\ Ahead(p) \in Nat /\ asker[p] \in AskerRow
      /\ filing \in [Askers -> [IncidentKinds -> Nat]]
  BY AheadIsNat DEF Call, BooksInv, GatewayTypeOK
<1>1. PICK resp \in Responses, price \in Prices :
        /\ asker' = [asker EXCEPT ![p].stage = "answered", ![p].response = resp,
                                  ![p].owed = @ + price]
        /\ bill' = [calls |-> bill.calls + 1, cost |-> bill.cost + price]
  BY DEF Call
<1>2. price \in Nat /\ price <= Max(Prices) /\ Max(Prices) \in Nat
  BY MostIsGreatest
<1>3. /\ asker' \in [Askers -> AskerRow] /\ bill' \in Amounts
      /\ asker'[p].stage = "answered" /\ asker'[p].asked = asker[p].asked
      /\ asker'[p].owed = asker[p].owed + price
      /\ \A q \in Askers \ {p} : asker'[q] = asker[q]
  <2>1. /\ asker'[p] = [stage |-> "answered", asked |-> asker[p].asked,
                        owed |-> asker[p].owed + price, attempt |-> asker[p].attempt,
                        response |-> resp]
        /\ \A q \in Askers \ {p} : asker'[q] = asker[q]
        /\ DOMAIN asker' = Askers /\ asker' = [q \in Askers |-> asker'[q]]
    BY <1>0, <1>1 DEF BooksInv, AskerRow
  <2>2. asker'[p] \in AskerRow
    BY <1>0, <1>2, <2>1 DEF AskerRow, AskerStages
  <2>3. asker' \in [Askers -> AskerRow]
    BY <2>1, <2>2 DEF BooksInv
  <2>4. bill' \in Amounts
    BY <1>0, <1>1, <1>2 DEF Amounts
  <2>. QED  BY <2>1, <2>3, <2>4
<1>4. BooksInv'
  BY <1>0, <1>3, NoBumpBooks
<1>5. Ahead(p)' <= Ahead(p)
  <2>1. CASE Errand[p] = "assistant"
    <3>1. asker[p].asked \in Nat /\ asker[p].asked < MaxTurns /\ asker[p].owed \in Nat
      BY <1>0, <2>1 DEF OwedInv, Owed, AskerRow
    <3>. DEFINE left == MaxTurns - asker[p].asked
    <3>2. left \in Nat \ {0} /\ left - 1 \in Nat
      BY <3>1, GatewayAssumption
    <3>3. Ahead(p) = asker[p].owed + Max(Prices) * left
      BY <1>0, <2>1 DEF Ahead, CallsAhead
    <3>4. Ahead(p)' = asker[p].owed + price + Max(Prices) * (left - 1)
      BY <1>3, <2>1 DEF Ahead, CallsAhead
    <3>. HIDE DEF left
    <3>5. /\ Max(Prices) * left = Max(Prices) * (left - 1) + Max(Prices)
          /\ Max(Prices) * (left - 1) \in Nat
      BY <3>2, OneMore
    <3>. QED  BY <1>2, <3>1, <3>3, <3>4, <3>5
  <2>2. CASE Errand[p] # "assistant"
    <3>1. /\ Ahead(p) = asker[p].owed + Max(Prices) * 1
          /\ Ahead(p)' = asker[p].owed + price + Max(Prices) * 0
      BY <1>0, <1>3, <2>2 DEF Ahead, CallsAhead
    <3>. QED  BY <1>0, <1>2, <3>1 DEF AskerRow
  <2>. QED  BY <2>1, <2>2
<1>6. Owed(p)' /\ Uncounted(p)' = 1 /\ Uncounted(p) = 0
  <2>1. /\ Budget > 0 /\ Ahead(p) <= Reach(p)
        /\ Errand[p] = "assistant" => asker[p].asked < MaxTurns
    BY <1>0 DEF OwedInv, Owed
  <2>2. Ahead(p)' <= Reach(p)'
    <3>1. Ahead(p)' \in Int /\ Reach(p) \in Nat /\ Reach(p)' = Reach(p)
      <4>1. CallsAhead(p)' \in Int /\ asker'[p].owed \in Nat
        BY <1>3, GatewayAssumption DEF CallsAhead, AskerRow
      <4>2. Max(Prices) * CallsAhead(p)' \in Int
        BY <1>2, <4>1
      <4>. QED  BY <4>1, <4>2, ReachIsNat DEF Ahead, Reach
    <3>. QED  BY <1>0, <1>5, <2>1, <3>1
  <2>. QED  BY <1>0, <1>3, <2>1, <2>2 DEF Owed, Uncounted
<1>7. bill'.calls = bill.calls + Uncounted(p)' - Uncounted(p)
  BY <1>0, <1>1, <1>6 DEF Amounts
<1>. QED  BY <1>0, <1>3, <1>4, <1>5, <1>6, <1>7, NoBumpKeeps

\* The end of a call, for a row, a narrative or a whole conversation: it is
\* counted, with all that is owed, and a rejected answer is filed as well.
LEMMA AccountedKeeps ==
  ASSUME GatewayInv, NEW p \in Askers, asker[p].stage = "answered", NEW verdict,
         Bump(p, [ai_calls_made |-> 1, cost_inr |-> asker[p].owed,
                  outputs_rejected |-> Rejected(verdict)]),
         IF verdict \in Rejections THEN File(p, verdict) ELSE UNCHANGED filing,
         UNCHANGED <<calendar, filed, bill, dropped>>,
         asker' \in [Askers -> AskerRow], \A q \in Askers \ {p} : asker'[q] = asker[q],
         \/ asker'[p].stage = "finished"
         \/ asker'[p].stage = "between" /\ Errand[p] # "assistant",
         asker'[p].owed = 0
  PROVE  GatewayInv'
<1>. USE DEF GatewayInv
<1>. DEFINE increments == [ai_calls_made |-> 1, cost_inr |-> asker[p].owed,
                           outputs_rejected |-> Rejected(verdict)]
<1>0. /\ bill \in Amounts /\ dropped \in Amounts /\ asker[p].owed \in Nat
      /\ filing \in [Askers -> [IncidentKinds -> Nat]]
  BY DEF BooksInv, GatewayTypeOK, AskerRow
<1>1. /\ \A c \in Counters : Increase(increments, c) \in Nat
      /\ Increase(increments, "payloads_blocked") = 0
      /\ Increase(increments, "injections_quarantined") = 0
      /\ Increase(increments, "outputs_rejected") = Rejected(verdict)
      /\ Increase(increments, "ai_calls_made") = 1
      /\ Increase(increments, "cost_inr") = asker[p].owed
  BY <1>0 DEF Increase, Counters, Rejected
<1>2. Bump(p, increments)
  OBVIOUS
<1>. HIDE DEF increments
<1>3. /\ filing' \in [Askers -> [IncidentKinds -> Nat]]
      /\ \A q \in Askers \ {p} : filing'[q] = filing[q]
      /\ filing'[p]["pii_in_payload"] = filing[p]["pii_in_payload"]
      /\ filing'[p]["injection_quarantined"] = filing[p]["injection_quarantined"]
      /\ filing'[p]["output_pii_echo"] + filing'[p]["output_schema_violation"]
              + filing'[p]["output_untraceable_figure"]
           = filing[p]["output_pii_echo"] + filing[p]["output_schema_violation"]
              + filing[p]["output_untraceable_figure"] + Rejected(verdict)
  <2>1. \A k \in IncidentKinds : filing[p][k] \in Nat
    BY <1>0
  <2>2. CASE verdict \in Rejections
    <3>1. verdict \in IncidentKinds /\ File(p, verdict)
      BY <2>2 DEF Rejections, IncidentKinds
    <3>2. /\ filing' \in [Askers -> [IncidentKinds -> Nat]]
          /\ filing'[p][verdict] = filing[p][verdict] + 1
          /\ \A other \in IncidentKinds \ {verdict} : filing'[p][other] = filing[p][other]
          /\ \A q \in Askers \ {p} : filing'[q] = filing[q]
      BY <3>1, Filed
    <3>. QED  BY <2>1, <2>2, <3>2 DEF Rejections, IncidentKinds, Rejected
  <2>3. CASE verdict \notin Rejections
    BY <1>0, <2>1, <2>3 DEF IncidentKinds, Rejected
  <2>. QED  BY <2>2, <2>3
<1>4. BooksInv'
  BY <1>0, <1>1, <1>2, <1>3, BumpBooks
<1>5. Uncounted(p)' = 0 /\ Uncounted(p) = 1
  BY DEF Uncounted
<1>6. /\ Ahead(p) \in Nat /\ Ahead(p) >= asker[p].owed /\ Ahead(p)' = 0
      /\ Reach(p) \in Nat /\ Reach(p)' = Reach(p)
  <2>1. CallsAhead(p)' = 0 /\ Max(Prices) * 0 = 0
    BY MostIsGreatest DEF CallsAhead
  <2>2. CallsAhead(p) \in Nat /\ Max(Prices) * CallsAhead(p) \in Nat
    BY AheadIsNat, OneMore
  <2>. QED  BY <1>0, <2>1, <2>2, ReachIsNat DEF Ahead, Reach
<1>7. Owed(p)'
  BY <1>6 DEF Owed
<1>8. bill'.calls - dropped'.calls = bill.calls - dropped.calls
         + Increase(increments, "ai_calls_made") + Uncounted(p)' - Uncounted(p)
  BY <1>0, <1>1, <1>5 DEF Amounts
<1>9. Ahead(p)' + Increase(increments, "cost_inr") <= Ahead(p)
  BY <1>0, <1>1, <1>6
<1>10. /\ filing'[p]["pii_in_payload"]
            = filing[p]["pii_in_payload"] + Increase(increments, "payloads_blocked")
       /\ filing'[p]["injection_quarantined"] = filing[p]["injection_quarantined"]
            + Increase(increments, "injections_quarantined")
  BY <1>0, <1>1, <1>3 DEF IncidentKinds
<1>. QED  BY <1>1, <1>2, <1>3, <1>4, <1>7, <1>8, <1>9, <1>10, BumpKeeps

\* The cost is written to the counters, and owed no longer.
LEMMA AccountKeeps ==
  ASSUME GatewayInv, NEW p \in Askers, Account(p)
  PROVE  GatewayInv'
<1>1. /\ asker' \in [Askers -> AskerRow] /\ asker'[p].stage = "between"
      /\ asker'[p].owed = 0 /\ \A q \in Askers \ {p} : asker'[q] = asker[q]
  <2>1. asker \in [Askers -> AskerRow]
    BY DEF GatewayInv, BooksInv
  <2>2. asker' = [asker EXCEPT ![p].stage = "between", ![p].asked = @ + 1,
                               ![p].owed = 0, ![p].response = NoOne]
    BY DEF Account
  <2>3. /\ asker'[p] = [stage |-> "between", asked |-> asker[p].asked + 1, owed |-> 0,
                        attempt |-> asker[p].attempt, response |-> NoOne]
        /\ \A q \in Askers \ {p} : asker'[q] = asker[q]
        /\ DOMAIN asker' = Askers /\ asker' = [q \in Askers |-> asker'[q]]
    BY <2>1, <2>2 DEF AskerRow
  <2>4. asker'[p] \in AskerRow
    BY <2>1, <2>3 DEF AskerRow, AskerStages
  <2>. QED  BY <2>1, <2>3, <2>4
<1>. QED  BY <1>1, AccountedKeeps DEF Account

\* A conversation ends, whatever came of it.
LEMMA FinishConversationKeeps ==
  ASSUME GatewayInv, NEW p \in Askers, FinishConversation(p)
  PROVE  GatewayInv'
<1>1. /\ asker' \in [Askers -> AskerRow] /\ asker'[p].stage = "finished"
      /\ asker'[p].owed = 0 /\ \A q \in Askers \ {p} : asker'[q] = asker[q]
  <2>1. asker \in [Askers -> AskerRow]
    BY DEF GatewayInv, BooksInv
  <2>2. asker' = [asker EXCEPT ![p].stage = "finished", ![p].owed = 0,
                               ![p].response = NoOne]
    BY DEF FinishConversation
  <2>3. /\ asker'[p] = [stage |-> "finished", asked |-> asker[p].asked, owed |-> 0,
                        attempt |-> asker[p].attempt, response |-> NoOne]
        /\ \A q \in Askers \ {p} : asker'[q] = asker[q]
        /\ DOMAIN asker' = Askers /\ asker' = [q \in Askers |-> asker'[q]]
    BY <2>1, <2>2 DEF AskerRow
  <2>4. asker'[p] \in AskerRow
    BY <2>1, <2>3 DEF AskerRow, AskerStages
  <2>. QED  BY <2>1, <2>3, <2>4
<1>. QED  BY <1>1, AccountedKeeps DEF FinishConversation

\* A conversation's turn: one call is counted, and one less is ahead.
LEMMA TurnKeeps ==
  ASSUME GatewayInv, NEW p \in Askers, Turn(p)
  PROVE  GatewayInv'
<1>. USE DEF GatewayInv
<1>. DEFINE increments == [ai_calls_made |-> 1]
<1>0. /\ asker[p].stage = "answered" /\ Errand[p] = "assistant"
      /\ asker[p].asked + 1 < MaxTurns /\ asker[p].asked \in Nat
      /\ UNCHANGED <<calendar, filing, filed, bill, dropped>>
      /\ bill \in Amounts /\ dropped \in Amounts /\ Ahead(p) \in Nat
      /\ filing \in [Askers -> [IncidentKinds -> Nat]]
      /\ Bump(p, increments)
  BY AheadIsNat DEF Turn, Limit, BooksInv, GatewayTypeOK, AskerRow
<1>1. /\ asker' \in [Askers -> AskerRow]
      /\ asker'[p].stage = "calling" /\ asker'[p].asked = asker[p].asked + 1
      /\ asker'[p].owed = asker[p].owed
      /\ \A q \in Askers \ {p} : asker'[q] = asker[q]
  <2>1. asker[p] \in AskerRow
    BY DEF BooksInv
  <2>2. asker' = [asker EXCEPT ![p].stage = "calling", ![p].asked = @ + 1,
                               ![p].response = NoOne]
    BY DEF Turn
  <2>3. /\ asker'[p] = [stage |-> "calling", asked |-> asker[p].asked + 1,
                        owed |-> asker[p].owed, attempt |-> asker[p].attempt,
                        response |-> NoOne]
        /\ \A q \in Askers \ {p} : asker'[q] = asker[q]
        /\ DOMAIN asker' = Askers /\ asker' = [q \in Askers |-> asker'[q]]
    BY <2>1, <2>2 DEF BooksInv, AskerRow
  <2>4. asker'[p] \in AskerRow
    BY <2>1, <2>3 DEF AskerRow, AskerStages
  <2>5. asker' \in [Askers -> AskerRow]
    BY <2>3, <2>4 DEF BooksInv
  <2>. QED  BY <2>3, <2>5
<1>2. /\ \A c \in Counters : Increase(increments, c) \in Nat
      /\ \A c \in Counters \ {"ai_calls_made"} : Increase(increments, c) = 0
      /\ Increase(increments, "ai_calls_made") = 1
  BY DEF Increase, Counters
<1>. HIDE DEF increments
<1>3. BooksInv'
  BY <1>0, <1>1, <1>2, BumpBooks
<1>4. Ahead(p)' = Ahead(p)
  <2>1. MaxTurns - (asker[p].asked + 1) = MaxTurns - asker[p].asked - 1
    BY <1>0, GatewayAssumption
  <2>2. /\ CallsAhead(p) = MaxTurns - asker[p].asked - 1
        /\ CallsAhead(p)' = MaxTurns - (asker[p].asked + 1)
    BY <1>0, <1>1 DEF CallsAhead
  <2>. QED  BY <1>1, <2>1, <2>2 DEF Ahead
<1>5. Owed(p)' /\ Uncounted(p)' = 0 /\ Uncounted(p) = 1
  <2>1. Budget > 0 /\ Ahead(p) <= Reach(p)
    BY <1>0 DEF OwedInv, Owed
  <2>. QED  BY <1>0, <1>1, <1>4, <2>1 DEF Owed, Uncounted, Reach
<1>6. bill'.calls - dropped'.calls = bill.calls - dropped.calls
         + Increase(increments, "ai_calls_made") + Uncounted(p)' - Uncounted(p)
  BY <1>0, <1>2, <1>5 DEF Amounts
<1>7. /\ Increase(increments, "payloads_blocked") = 0
      /\ Increase(increments, "injections_quarantined") = 0
      /\ Increase(increments, "outputs_rejected") = 0
      /\ Increase(increments, "cost_inr") = 0
  BY <1>2 DEF Counters
<1>8. Ahead(p)' + Increase(increments, "cost_inr") <= Ahead(p)
  BY <1>0, <1>4, <1>7
<1>9. /\ filing'[p]["pii_in_payload"]
           = filing[p]["pii_in_payload"] + Increase(increments, "payloads_blocked")
      /\ filing'[p]["injection_quarantined"] = filing[p]["injection_quarantined"]
           + Increase(increments, "injections_quarantined")
      /\ filing'[p]["output_pii_echo"] + filing'[p]["output_schema_violation"]
            + filing'[p]["output_untraceable_figure"]
         = filing[p]["output_pii_echo"] + filing[p]["output_schema_violation"]
            + filing[p]["output_untraceable_figure"]
            + Increase(increments, "outputs_rejected")
  BY <1>0, <1>7 DEF IncidentKinds
<1>. QED  BY <1>0, <1>1, <1>2, <1>3, <1>5, <1>6, <1>8, <1>9, BumpKeeps

\* The turn that was cut off is dropped, if it was asked for; what the others
\* cost is counted.
LEMMA TimeOutKeeps ==
  ASSUME GatewayInv, NEW p \in Askers, TimeOut(p)
  PROVE  GatewayInv'
<1>. USE DEF GatewayInv
<1>. DEFINE increments == [cost_inr |-> asker[p].owed]
<1>0. /\ asker[p].stage = "calling" /\ UNCHANGED <<calendar, filing, filed>>
      /\ bill \in Amounts /\ dropped \in Amounts /\ asker[p].owed \in Nat
      /\ filing \in [Askers -> [IncidentKinds -> Nat]]
      /\ Bump(p, increments)
  BY DEF TimeOut, BooksInv, GatewayTypeOK, AskerRow
<1>1. /\ asker' \in [Askers -> AskerRow]
      /\ asker'[p].stage = "finished" /\ asker'[p].owed = 0
      /\ \A q \in Askers \ {p} : asker'[q] = asker[q]
  BY DEF TimeOut, BooksInv, AskerRow, AskerStages
<1>2. /\ \A c \in Counters : Increase(increments, c) \in Nat
      /\ \A c \in Counters \ {"cost_inr"} : Increase(increments, c) = 0
      /\ Increase(increments, "cost_inr") = asker[p].owed
  BY <1>0 DEF Increase, Counters
<1>. HIDE DEF increments
<1>3. /\ bill' \in Amounts /\ dropped' \in Amounts
      /\ bill'.calls - dropped'.calls = bill.calls - dropped.calls
  <2>1. PICK asked \in {0, 1}, price \in Prices :
          /\ bill' = [calls |-> bill.calls + asked, cost |-> bill.cost + asked * price]
          /\ dropped' = [calls |-> dropped.calls + asked,
                         cost |-> dropped.cost + asked * price]
    BY DEF TimeOut
  <2>2. price \in Nat
    BY GatewayAssumption
  <2>3. asked * price \in Nat
    BY <2>2
  <2>4. /\ bill.calls \in Nat /\ bill.cost \in Nat
        /\ dropped.calls \in Nat /\ dropped.cost \in Nat
    BY <1>0 DEF Amounts
  <2>5. /\ bill.calls + asked \in Nat /\ bill.cost + asked * price \in Nat
        /\ dropped.calls + asked \in Nat /\ dropped.cost + asked * price \in Nat
    BY <2>3, <2>4
  <2>6. bill' \in Amounts /\ dropped' \in Amounts
    BY <2>1, <2>5 DEF Amounts
  <2>7. bill'.calls = bill.calls + asked /\ dropped'.calls = dropped.calls + asked
    BY <2>1
  <2>. QED  BY <2>4, <2>6, <2>7
<1>4. BooksInv'
  BY <1>0, <1>1, <1>2, <1>3, BumpBooks
<1>5. Uncounted(p)' = 0 /\ Uncounted(p) = 0
  BY <1>0, <1>1 DEF Uncounted
<1>6. /\ Ahead(p) \in Nat /\ Ahead(p) >= asker[p].owed /\ Ahead(p)' = 0
      /\ Reach(p) \in Nat /\ Reach(p)' = Reach(p)
  <2>1. CallsAhead(p)' = 0 /\ Max(Prices) * 0 = 0
    BY <1>1, MostIsGreatest DEF CallsAhead
  <2>2. CallsAhead(p) \in Nat /\ Max(Prices) * CallsAhead(p) \in Nat
    BY AheadIsNat, OneMore
  <2>. QED  BY <1>0, <1>1, <2>1, <2>2, ReachIsNat DEF Ahead, Reach
<1>7. Owed(p)'
  BY <1>1, <1>6 DEF Owed
<1>8. /\ Increase(increments, "payloads_blocked") = 0
      /\ Increase(increments, "injections_quarantined") = 0
      /\ Increase(increments, "outputs_rejected") = 0
      /\ Increase(increments, "ai_calls_made") = 0
      /\ Increase(increments, "cost_inr") = asker[p].owed
  BY <1>2 DEF Counters
<1>9. bill'.calls - dropped'.calls = bill.calls - dropped.calls
         + Increase(increments, "ai_calls_made") + Uncounted(p)' - Uncounted(p)
  BY <1>0, <1>3, <1>5, <1>8 DEF Amounts
<1>10. Ahead(p)' + Increase(increments, "cost_inr") <= Ahead(p)
  BY <1>0, <1>6, <1>8
<1>11. /\ filing'[p]["pii_in_payload"]
            = filing[p]["pii_in_payload"] + Increase(increments, "payloads_blocked")
       /\ filing'[p]["injection_quarantined"] = filing[p]["injection_quarantined"]
            + Increase(increments, "injections_quarantined")
       /\ filing'[p]["output_pii_echo"] + filing'[p]["output_schema_violation"]
             + filing'[p]["output_untraceable_figure"]
          = filing[p]["output_pii_echo"] + filing[p]["output_schema_violation"]
             + filing[p]["output_untraceable_figure"]
             + Increase(increments, "outputs_rejected")
  BY <1>0, <1>8 DEF IncidentKinds
<1>. QED  BY <1>0, <1>1, <1>2, <1>4, <1>7, <1>9, <1>10, <1>11, BumpKeeps

\* The end of a transaction gives its rows free, and keeps the types of the rest.
LEMMA ReleaseBooks ==
  ASSUME BooksInv, NEW p \in Askers, Release(p),
         booked' = booked \/ booked' = [d \in MonthDays |-> Seen(p, d)],
         filed' \in [IncidentKinds -> Nat], asker' \in [Askers -> AskerRow],
         dropped' \in Amounts
  PROVE  BooksInv'
<1>1. /\ \A d \in MonthDays :
            /\ keeper'[d] = IF keeper[d] = p THEN NoOne ELSE keeper[d]
            /\ drafted'[d] = IF keeper[d] = p THEN NoCounts ELSE drafted[d]
      /\ bill' = bill /\ today' = today /\ overnight' = overnight
      /\ filing' = [filing EXCEPT ![p] = NoIncidents]
  BY DEF Release, calendar
<1>2. /\ keeper' \in [MonthDays -> Askers \cup {NoOne}]
      /\ drafted' \in [MonthDays -> [Counters -> Nat]]
  <2>1. NoCounts \in [Counters -> Nat]
    BY DEF NoCounts
  <2>. QED  BY <2>1 DEF Release, BooksInv, GatewayTypeOK
<1>3. booked' \in [MonthDays -> [Counters -> Nat]]
      /\ \A d \in MonthDays : keeper[d] # p => booked'[d] = booked[d]
  <2>1. \A d \in MonthDays : Seen(p, d) \in [Counters -> Nat]
    BY DEF Seen, BooksInv, GatewayTypeOK
  <2>. QED  BY <2>1 DEF Seen, BooksInv, GatewayTypeOK
<1>4. filing' \in [Askers -> [IncidentKinds -> Nat]]
  <2>1. NoIncidents \in [IncidentKinds -> Nat]
    BY DEF NoIncidents
  <2>. QED  BY <1>1, <2>1 DEF BooksInv, GatewayTypeOK
<1>5. \A d \in MonthDays : keeper'[d] # NoOne =>
         /\ \A c \in Counters : drafted'[d][c] >= booked'[d][c]
         /\ d # today' => d < today' /\ keeper'[d] \in overnight'
  BY <1>1, <1>3 DEF BooksInv, GatewayTypeOK
<1>. QED  BY <1>1, <1>2, <1>3, <1>4, <1>5 DEF BooksInv, GatewayTypeOK, MonthDays

\* The end of a transaction, either way: it has counted nothing any more, and
\* what the others have counted and filed is as it was.
LEMMA ReleaseKeeps ==
  ASSUME BooksInv, NEW p \in Askers, Release(p),
         booked' = booked \/ booked' = [d \in MonthDays |-> Seen(p, d)]
  PROVE  /\ \A c \in Counters :
               /\ Counted(p, c)' = 0 /\ Counted(p, c) \in Nat /\ Booked(c) \in Nat
               /\ \A q \in Askers \ {p} : Counted(q, c)' = Counted(q, c)
               /\ booked' = [d \in MonthDays |-> Seen(p, d)] =>
                    Booked(c)' = Booked(c) + Counted(p, c)
               /\ booked' = booked => Booked(c)' = Booked(c)
         /\ (\A q \in Askers : FilesWhatItCounts(q)) => \A q \in Askers : FilesWhatItCounts(q)'
<1>1. \A c \in Counters :
         /\ Counted(p, c)' = 0
         /\ \A q \in Askers \ {p} : Counted(q, c)' = Counted(q, c)
         /\ booked' = [d \in MonthDays |-> Seen(p, d)] => Booked(c)' = Booked(c) + Counted(p, c)
  BY ReleaseCounts
<1>2. \A c \in Counters : Counted(p, c) \in Nat /\ Booked(c) \in Nat
  BY CountedIsNat
<1>3. \A c \in Counters : booked' = booked => Booked(c)' = Booked(c)
  BY DEF Booked
<1>4. /\ \A k \in IncidentKinds : filing'[p][k] = 0
      /\ \A q \in Askers \ {p} : filing'[q] = filing[q]
  BY DEF Release, BooksInv, GatewayTypeOK, NoIncidents
<1>5. ASSUME \A q \in Askers : FilesWhatItCounts(q) PROVE \A q \in Askers : FilesWhatItCounts(q)'
  <2>1. FilesWhatItCounts(p)'
    BY <1>1, <1>4 DEF FilesWhatItCounts, IncidentKinds, Counters
  <2>2. \A q \in Askers \ {p} : FilesWhatItCounts(q)'
    BY <1>1, <1>4, <1>5 DEF FilesWhatItCounts, Counters
  <2>. QED  BY <2>1, <2>2
<1>. QED  BY <1>1, <1>2, <1>3, <1>5

\* The transaction of an asker commits: its rows are for all to see.
LEMMA GatewayCommitKeeps ==
  ASSUME GatewayInv, NEW p \in Askers, GatewayCommit(p)
  PROVE  GatewayInv'
<1>. USE DEF GatewayInv
<1>0. /\ asker[p].stage \in {"finished", "between"}
      /\ booked' = [d \in MonthDays |-> Seen(p, d)]
      /\ filed' = [k \in IncidentKinds |-> filed[k] + filing[p][k]]
      /\ Release(p) /\ UNCHANGED calendar
      /\ asker' = [asker EXCEPT ![p] = [Idle EXCEPT !.stage = "done"]]
      /\ UNCHANGED <<bill, dropped>> /\ bill \in Amounts /\ dropped \in Amounts
  BY DEF GatewayCommit, BooksInv, Release
<1>1. /\ asker' \in [Askers -> AskerRow] /\ asker'[p].stage = "done" /\ asker'[p].owed = 0
      /\ \A q \in Askers \ {p} : asker'[q] = asker[q]
  BY <1>0 DEF BooksInv, AskerRow, AskerStages, Idle
<1>2. /\ \A c \in Counters :
            /\ Counted(p, c)' = 0 /\ Counted(p, c) \in Nat /\ Booked(c) \in Nat
            /\ \A q \in Askers \ {p} : Counted(q, c)' = Counted(q, c)
            /\ Booked(c)' = Booked(c) + Counted(p, c)
      /\ (\A q \in Askers : FilesWhatItCounts(q)) => \A q \in Askers : FilesWhatItCounts(q)'
  BY <1>0, ReleaseKeeps
<1>3. \A k \in IncidentKinds : /\ filed'[k] = filed[k] + filing[p][k]
                               /\ filed[k] \in Nat /\ filing[p][k] \in Nat
  BY <1>0 DEF BooksInv, GatewayTypeOK
<1>4. BooksInv'
  <2>1. filed' \in [IncidentKinds -> Nat] /\ dropped' \in Amounts
    BY <1>0, <1>3
  <2>. QED  BY <1>0, <1>1, <2>1, ReleaseBooks
<1>5. /\ Ahead(p) = 0 /\ Ahead(p)' = 0 /\ Reach(p) \in Nat /\ Uncounted(p) = 0
      /\ Uncounted(p)' = 0
  <2>1. Max(Prices) * 0 = 0 /\ CallsAhead(p) = 0 /\ CallsAhead(p)' = 0
    BY <1>0, <1>1, MostIsGreatest DEF CallsAhead
  <2>. QED  BY <1>0, <1>1, <2>1, ReachIsNat DEF Ahead, OwedInv, Owed, Uncounted
<1>6. OwedInv'
  <2>1. Owed(p)'
    BY <1>1, <1>5 DEF Owed, Reach
  <2>. QED  BY <1>1, <2>1, OwedStays
<1>7. CallsAddUp'
  <2>. DEFINE n == Counted(p, "ai_calls_made")
  <2>0. "ai_calls_made" \in Counters
    BY DEF Counters
  <2>1. n \in Nat /\ Pending(p) = n /\ Pending(p)' = 0
    BY <1>2, <1>5, <2>0 DEF Pending
  <2>2. Booked("ai_calls_made")' = Booked("ai_calls_made") + n
    BY <1>2, <2>0
  <2>. HIDE DEF n
  <2>3. bill'.calls - dropped'.calls = bill.calls - dropped.calls + n + Pending(p)' - Pending(p)
    BY <1>0, <2>1 DEF Amounts
  <2>4. Counted(p, "ai_calls_made")' \in Nat
    BY <1>2, <2>0
  <2>. QED  BY <1>1, <1>2, <1>4, <2>0, <2>1, <2>2, <2>3, <2>4, CallsStay
<1>8. LogInv'
  <2>1. /\ "payloads_blocked" \in Counters /\ "injections_quarantined" \in Counters
        /\ "outputs_rejected" \in Counters
    BY DEF Counters
  <2>2. /\ Booked("payloads_blocked")' = filed'["pii_in_payload"]
        /\ Booked("injections_quarantined")' = filed'["injection_quarantined"]
    BY <1>2, <1>3, <2>1 DEF LogInv, CentreAgreesWithLog, FilesWhatItCounts, IncidentKinds
  <2>3. Booked("outputs_rejected")' = filed'["output_pii_echo"]
          + filed'["output_schema_violation"] + filed'["output_untraceable_figure"]
    BY <1>2, <1>3, <2>1 DEF LogInv, CentreAgreesWithLog, FilesWhatItCounts, IncidentKinds
  <2>. QED  BY <1>2, <2>2, <2>3 DEF LogInv, CentreAgreesWithLog
<1>9. SpentInv'
  <2>0. "cost_inr" \in Counters
    BY DEF Counters
  <2>1. OthersStay(p)
    BY <1>0, <1>1, <1>2, <1>5, <2>0 DEF OthersStay
  <2>. QED  BY <1>1, <1>2, <1>5, <2>0, <2>1, SpentBooked
<1>. QED  BY <1>4, <1>6, <1>7, <1>8, <1>9

\* The transaction of an asker is rolled back: what it asked for is dropped.
LEMMA GatewayAbortKeeps ==
  ASSUME GatewayInv, NEW p \in Askers, GatewayAbort(p)
  PROVE  GatewayInv'
<1>. USE DEF GatewayInv
<1>0. /\ asker[p].stage \in {"between", "checking", "calling", "answered"}
      /\ dropped' = [calls |-> dropped.calls + Counted(p, "ai_calls_made") + Uncounted(p),
                     cost |-> dropped.cost + Counted(p, "cost_inr") + asker[p].owed]
      /\ Release(p) /\ UNCHANGED calendar
      /\ asker' = [asker EXCEPT ![p] = [Idle EXCEPT !.attempt = asker[p].attempt]]
      /\ UNCHANGED <<booked, filed, bill>> /\ bill \in Amounts /\ dropped \in Amounts
  BY DEF GatewayAbort, BooksInv, Release
<1>1. /\ asker' \in [Askers -> AskerRow] /\ asker'[p].stage = "new" /\ asker'[p].owed = 0
      /\ asker'[p].asked = 0 /\ \A q \in Askers \ {p} : asker'[q] = asker[q]
  <2>1. asker'[p] = [stage |-> "new", asked |-> 0, owed |-> 0,
                     attempt |-> asker[p].attempt, response |-> NoOne]
    BY <1>0 DEF BooksInv, Idle
  <2>2. asker'[p] \in AskerRow
    BY <2>1 DEF BooksInv, AskerRow, AskerStages
  <2>. QED  BY <1>0, <2>1, <2>2 DEF BooksInv
<1>2. /\ \A c \in Counters :
            /\ Counted(p, c)' = 0 /\ Counted(p, c) \in Nat /\ Booked(c) \in Nat
            /\ \A q \in Askers \ {p} : Counted(q, c)' = Counted(q, c)
            /\ Booked(c)' = Booked(c)
      /\ (\A q \in Askers : FilesWhatItCounts(q)) => \A q \in Askers : FilesWhatItCounts(q)'
  BY <1>0, ReleaseKeeps
<1>3. "ai_calls_made" \in Counters /\ "cost_inr" \in Counters
  BY DEF Counters
<1>4. BooksInv'
  <2>1. dropped' \in Amounts
    <3>1. Uncounted(p) \in Nat /\ asker[p].owed \in Nat
      BY DEF Uncounted, BooksInv, AskerRow
    <3>. QED  BY <1>0, <1>2, <1>3, <3>1 DEF Amounts
  <2>2. filed' \in [IncidentKinds -> Nat]
    BY <1>0 DEF BooksInv, GatewayTypeOK
  <2>. QED  BY <1>0, <1>1, <2>1, <2>2, ReleaseBooks
<1>5. /\ Ahead(p)' = 0 /\ Reach(p) \in Nat /\ Uncounted(p) \in Nat /\ Uncounted(p)' = 0
      /\ Ahead(p) \in Nat
  <2>1. Max(Prices) * 0 = 0 /\ CallsAhead(p)' = 0
    BY <1>1, MostIsGreatest DEF CallsAhead
  <2>. QED  BY <1>1, <2>1, ReachIsNat, AheadIsNat DEF Ahead, Uncounted
<1>6. OwedInv'
  <2>1. Owed(p)'
    BY <1>1, <1>5 DEF Owed, Reach
  <2>. QED  BY <1>1, <2>1, OwedStays
<1>7. CallsAddUp'
  <2>1. /\ Pending(p) = Counted(p, "ai_calls_made") + Uncounted(p) /\ Pending(p)' = 0
        /\ Counted(p, "ai_calls_made") \in Nat /\ Counted(p, "ai_calls_made")' \in Nat
    BY <1>2, <1>3, <1>5 DEF Pending
  <2>2. bill'.calls - dropped'.calls = bill.calls - dropped.calls + 0 + Pending(p)' - Pending(p)
    <3>1. /\ dropped'.calls = dropped.calls + Counted(p, "ai_calls_made") + Uncounted(p)
          /\ dropped.calls \in Nat /\ bill.calls \in Nat /\ bill'.calls = bill.calls
      BY <1>0 DEF Amounts
    <3>. QED  BY <1>5, <2>1, <3>1
  <2>3. Booked("ai_calls_made")' = Booked("ai_calls_made") + 0 /\ 0 \in Nat
    BY <1>2, <1>3
  <2>. QED  BY <1>1, <1>2, <1>3, <1>4, <2>1, <2>2, <2>3, CallsStay
<1>8. LogInv'
  <2>1. CentreAgreesWithLog'
    BY <1>0, <1>2 DEF LogInv, CentreAgreesWithLog, Counters
  <2>. QED  BY <1>2, <2>1 DEF LogInv
<1>9. SpentInv'
  <2>1. OthersStay(p)
    BY <1>0, <1>1, <1>2, <1>3, <1>5 DEF OthersStay
  <2>2. Counted(p, "cost_inr")' + Ahead(p)' <= Counted(p, "cost_inr") + Ahead(p)
    BY <1>2, <1>3, <1>5
  <2>3. asker'[p].stage # "done"
    BY <1>1
  <2>. QED  BY <1>2, <1>3, <2>1, <2>2, <2>3, SpentFalls
<1>. QED  BY <1>4, <1>6, <1>7, <1>8, <1>9

\* A day ends: whoever holds its row has its night, and nothing else changes.
LEMMA MidnightKeeps ==
  ASSUME GatewayInv, Midnight
  PROVE  GatewayInv'
<1>. USE DEF GatewayInv
<1>1. /\ today < MonthEnd /\ today' = today + 1 /\ today \in 1 .. MonthEnd
      /\ overnight' = overnight \cup ({keeper[today]} \ {NoOne})
      /\ UNCHANGED <<asker, booked, drafted, keeper, filing, filed, bill, dropped>>
      /\ keeper[today] \in Askers \cup {NoOne}
  BY DEF Midnight, books, BooksInv, GatewayTypeOK, MonthDays
<1>2. BooksInv'
  <2>1. overnight' \subseteq Askers /\ today' \in MonthDays
    BY <1>1, GatewayAssumption DEF BooksInv, GatewayTypeOK, MonthDays
  <2>2. \A d \in MonthDays : keeper'[d] # NoOne /\ d # today' =>
           d < today' /\ keeper'[d] \in overnight'
    BY <1>1, GatewayAssumption DEF BooksInv, MonthDays
  <2>. QED  BY <1>1, <2>1, <2>2 DEF BooksInv, GatewayTypeOK, MonthDays
<1>3. /\ \A c \in Counters : /\ Booked(c)' = Booked(c)
                             /\ \A q \in Askers : Counted(q, c)' = Counted(q, c)
      /\ \A q \in Askers : /\ Uncounted(q)' = Uncounted(q) /\ Ahead(q)' = Ahead(q)
                           /\ Reach(q)' = Reach(q)
  <2>1. UNCHANGED books
    BY <1>1 DEF books
  <2>. QED  BY <1>1, <2>1, NothingCounted DEF Uncounted, Ahead, CallsAhead, Reach
<1>4. CallsAddUp'
  <2>1. \A q \in Askers : Pending(q)' = Pending(q)
    BY <1>3 DEF Pending, Counters
  <2>. QED  BY <1>1, <1>3, <2>1 DEF CallsAddUp, Counters
<1>5. LogInv'
  BY <1>1, <1>3 DEF LogInv, CentreAgreesWithLog, FilesWhatItCounts, Counters
<1>6. OwedInv'
  BY <1>1, <1>3 DEF OwedInv, Owed
<1>7. SpentInv'
  <2>1. "cost_inr" \in Counters
    BY DEF Counters
  <2>2. \A q \in Askers : Over(q)' = Over(q)
    BY <1>3, <2>1 DEF Over, Beyond
  <2>3. Overs' = Overs
    BY <2>2 DEF Overs
  <2>4. Shares \in Nat /\ Shares' \in Nat /\ Shares <= Shares'
    <3>. DEFINE now == [q \in Askers |-> Share(q)]
                then == [q \in Askers |-> Share(q)']
    <3>1. \A q \in Askers : /\ Share(q) \in Nat /\ Share(q)' \in Nat
                            /\ Share(q) <= Share(q)'
      BY <1>1, <1>3, ReachIsNat, GatewayAssumption DEF Share, Night
    <3>2. Weights(now, Askers) /\ Weights(then, Askers) /\ \A q \in Askers : now[q] <= then[q]
      BY <3>1 DEF Weights
    <3>3. Shares = SumFunctionOnSet(now, Askers) /\ Shares' = SumFunctionOnSet(then, Askers)
      BY DEF Shares
    <3>. HIDE DEF now, then
    <3>. QED  BY <3>2, <3>3, SumIsNat, SumGrows, GatewayAssumption
  <2>5. Overs \in Nat /\ Booked("cost_inr") \in Nat
    <3>. DEFINE now == [q \in Askers |-> Over(q)]
    <3>1. Weights(now, Askers) /\ Overs = SumFunctionOnSet(now, Askers)
      BY OverIsNat DEF Weights, Overs
    <3>. HIDE DEF now
    <3>. QED  BY <2>1, <3>1, SumIsNat, CountedIsNat, GatewayAssumption
  <2>. QED  BY <1>3, <2>1, <2>2, <2>3, <2>4, <2>5, GatewayAssumption DEF SpentInv
<1>. QED  BY <1>2, <1>4, <1>5, <1>6, <1>7

-----------------------------------------------------------------------------
(* The invariant, and what it shows *)

\* Nothing is spent at the start.
LEMMA InitGatewayInv == GatewayInit => GatewayInv
<1>. SUFFICES ASSUME GatewayInit PROVE GatewayInv
  OBVIOUS
<1>1. BooksInv
  BY GatewayAssumption
     DEF GatewayInit, BooksInv, GatewayTypeOK, AskerRow, AskerStages, Amounts, Idle,
         NoCounts, NoIncidents, MonthDays
<1>2. \A c \in Counters : Booked(c) = 0 /\ \A p \in Askers : Counted(p, c) = 0
  <2>1. ASSUME NEW c \in Counters PROVE Booked(c) = 0
    <3>1. \A d \in MonthDays : Column(c)[d] = 0
      BY <2>1 DEF GatewayInit, Column, NoCounts
    <3>2. Booked(c) = SumFunctionOnSet(Column(c), MonthDays)
      BY <1>1, <2>1, CountedIsNat
    <3>. QED  BY <3>1, <3>2, SumOfZeros, DaysAreFinite
  <2>2. ASSUME NEW c \in Counters, NEW p \in Askers PROVE Counted(p, c) = 0
    <3>1. \A d \in MonthDays : keeper[d] # p
      BY GatewayAssumption DEF GatewayInit
    <3>. QED  BY <1>1, <2>2, <3>1, CountedIsNat
  <2>. QED  BY <2>1, <2>2
<1>3. \A p \in Askers : asker[p].stage = "new" /\ asker[p].owed = 0 /\ asker[p].asked = 0
  BY DEF GatewayInit, Idle
<1>4. CallsAddUp
  <2>. DEFINE now == [q \in Askers |-> Pending(q)]
  <2>1. \A q \in Askers : now[q] = 0
    BY <1>2, <1>3 DEF Pending, Uncounted, Counters
  <2>2. SumFunction(now) = SumFunctionOnSet(now, Askers)
    BY DEF SumFunction
  <2>. HIDE DEF now
  <2>3. SumFunction(now) = 0
    BY <2>1, <2>2, SumOfZeros, GatewayAssumption
  <2>4. Booked("ai_calls_made") = 0 /\ bill.calls = 0 /\ dropped.calls = 0
    BY <1>2 DEF GatewayInit, Counters
  <2>. QED  BY <2>3, <2>4 DEF now, CallsAddUp
<1>5. LogInv
  BY <1>2 DEF GatewayInit, LogInv, CentreAgreesWithLog, FilesWhatItCounts,
              NoIncidents, Counters, IncidentKinds
<1>6. \A p \in Askers : Ahead(p) = 0 /\ Reach(p) \in Nat
  <2>1. ASSUME NEW p \in Askers PROVE Ahead(p) = 0
    <3>1. Max(Prices) * 0 = 0 /\ CallsAhead(p) = 0
      BY <1>3, MostIsGreatest DEF CallsAhead
    <3>. QED  BY <1>3, <3>1 DEF Ahead
  <2>. QED  BY <2>1, ReachIsNat
<1>7. OwedInv
  BY <1>3, <1>6 DEF OwedInv, Owed
<1>8. SpentInv
  <2>1. \A p \in Askers : Over(p) = 0
    BY <1>2, <1>6 DEF Over, Beyond, Counters
  <2>. DEFINE now == [p \in Askers |-> Over(p)]
  <2>2. (\A p \in Askers : now[p] = 0) /\ Overs = SumFunctionOnSet(now, Askers)
    BY <2>1 DEF Overs
  <2>. HIDE DEF now
  <2>3. Overs = 0
    BY <2>2, SumOfZeros, GatewayAssumption
  <2>4. Booked("cost_inr") = 0 /\ \A p \in Askers : Counted(p, "cost_inr") = 0
    BY <1>2 DEF Counters
  <2>5. Shares \in Nat
    BY SharesAreNat
  <2>. QED  BY <2>1, <2>3, <2>4, <2>5, GatewayAssumption DEF SpentInv
<1>. QED  BY <1>1, <1>4, <1>5, <1>7, <1>8 DEF GatewayInv

\* A stuttering step keeps the invariant.
LEMMA GatewayStutterKeeps == GatewayInv /\ UNCHANGED gatewayVars => GatewayInv'
<1>. SUFFICES ASSUME GatewayInv, UNCHANGED gatewayVars PROVE GatewayInv'
  OBVIOUS
<1>0. /\ UNCHANGED <<asker, calendar, books, filing, filed, bill, dropped>>
      /\ UNCHANGED <<today, overnight, booked, drafted, keeper>>
  BY DEF gatewayVars, calendar, books
<1>1. BooksInv'
  BY <1>0 DEF GatewayInv, BooksInv, GatewayTypeOK
<1>2. CallsAddUp'
  BY <1>0 DEF GatewayInv, CallsAddUp, Booked, Pending, Counted, Uncounted
<1>3. LogInv'
  BY <1>0 DEF GatewayInv, LogInv, CentreAgreesWithLog, FilesWhatItCounts, Booked, Counted
<1>4. OwedInv'
  BY <1>0 DEF GatewayInv, OwedInv, Owed, Ahead, CallsAhead, Reach
<1>5. SpentInv'
  BY <1>0 DEF GatewayInv, SpentInv, Booked, Counted, Over, Overs, Beyond, Ahead, CallsAhead,
              Reach, Share, Shares, Night
<1>. QED  BY <1>1, <1>2, <1>3, <1>4, <1>5 DEF GatewayInv

\* The invariant holds of every behaviour.
LEMMA GatewayInvariant == GatewaySpec => []GatewayInv
<1>1. GatewayInv /\ [GatewayNext]_gatewayVars => GatewayInv'
  <2>. SUFFICES ASSUME GatewayInv, [GatewayNext]_gatewayVars PROVE GatewayInv'
    OBVIOUS
  <2>1. ASSUME NEW p \in Askers, Start(p) PROVE GatewayInv'
    BY <2>1, StartKeeps
  <2>2. ASSUME NEW p \in Askers, Prepare(p) PROVE GatewayInv'
    BY <2>2, PrepareKeeps
  <2>3. ASSUME NEW p \in Askers, PrepareProse(p) PROVE GatewayInv'
    BY <2>3, PrepareProseKeeps
  <2>4. ASSUME NEW p \in Askers, CheckBudget(p) PROVE GatewayInv'
    BY <2>4, CheckBudgetKeeps
  <2>5. ASSUME NEW p \in Askers, Call(p) PROVE GatewayInv'
    BY <2>5, CallKeeps
  <2>6. ASSUME NEW p \in Askers, Account(p) PROVE GatewayInv'
    BY <2>6, AccountKeeps
  <2>7. ASSUME NEW p \in Askers, Turn(p) PROVE GatewayInv'
    BY <2>7, TurnKeeps
  <2>8. ASSUME NEW p \in Askers, FinishConversation(p) PROVE GatewayInv'
    BY <2>8, FinishConversationKeeps
  <2>9. ASSUME NEW p \in Askers, TimeOut(p) PROVE GatewayInv'
    BY <2>9, TimeOutKeeps
  <2>10. ASSUME NEW p \in Askers, GatewayCommit(p) PROVE GatewayInv'
    BY <2>10, GatewayCommitKeeps
  <2>11. ASSUME NEW p \in Askers, GatewayAbort(p) PROVE GatewayInv'
    BY <2>11, GatewayAbortKeeps
  <2>12. CASE Midnight
    BY <2>12, MidnightKeeps
  <2>13. CASE UNCHANGED gatewayVars
    BY <2>13, GatewayStutterKeeps
  <2>. QED  BY <2>1, <2>2, <2>3, <2>4, <2>5, <2>6, <2>7, <2>8, <2>9, <2>10, <2>11, <2>12,
               <2>13 DEF GatewayNext
<1>. QED  BY <1>1, InitGatewayInv, PTL DEF GatewaySpec

\* The books of the gateway keep their types, and the row of a day that its
\* holder has written never shows less than the one that is committed.
THEOREM GatewayTypeCorrect == GatewaySpec => []GatewayTypeOK
<1>1. GatewayInv => GatewayTypeOK
  BY DEF GatewayInv, BooksInv
<1>. QED  BY <1>1, GatewayInvariant, PTL

\* However many transactions add to the rows of the days, wait for each other,
\* commit or are rolled back: a call that was made is counted once, or is still
\* pending, or timed out, or went with its transaction; and three counters of
\* the privacy centre are those of the incidents in its log.
THEOREM CountersAlwaysAgree == GatewaySpec => []CountersAgree
<1>1. GatewayInv => CountersAgree
  BY DEF GatewayInv, LogInv, CountersAgree
<1>. QED  BY <1>1, GatewayInvariant, PTL

\* The committed spending stays below the budget and what the transactions let
\* be spent beyond it: the reach of each, and one budget more for each that held
\* a day's row over midnight.
THEOREM SpendingIsBounded == GatewaySpec => []OverspendIsBounded
<1>1. GatewayInv => OverspendIsBounded
  <2>. SUFFICES ASSUME GatewayInv PROVE OverspendIsBounded
    OBVIOUS
  <2>1. BooksInv /\ OwedInv /\ SpentInv
    BY DEF GatewayInv
  <2>2. Booked("cost_inr") \in Nat
    BY <2>1, CountedIsNat DEF Counters
  <2>3. Overs \in Nat
    <3>. DEFINE now == [q \in Askers |-> Over(q)]
    <3>1. Weights(now, Askers) /\ Overs = SumFunctionOnSet(now, Askers)
      BY <2>1, OverIsNat DEF Weights, Overs
    <3>. HIDE DEF now
    <3>. QED  BY <3>1, SumIsNat, GatewayAssumption
  <2>. DEFINE most == SumFunction([p \in Askers |-> Excess(p)])
  <2>4. Shares \in Nat /\ most \in Nat /\ Shares <= most
    BY SharesAreNat
  <2>. HIDE DEF most
  <2>5. Booked("cost_inr") = 0 \/ Booked("cost_inr") < Budget + most
    BY <2>1, <2>2, <2>3, <2>4, GatewayAssumption DEF SpentInv
  <2>. QED  BY <2>5 DEF OverspendIsBounded, most
<1>. QED  BY <1>1, GatewayInvariant, PTL

-----------------------------------------------------------------------------
(* The derived intelligence                                                *)

\* The fields of a shift, whatever is in them.
ShiftFields == {"stage", "run", "alone", "at", "detected", "old", "pending", "doomed",
                "found", "dropped", "figures", "stored", "told"}

ShiftStages == Refreshing \cup {"off", "writing", "phrased"}

IsShift(s) ==
    /\ DOMAIN s = ShiftFields
    /\ s.stage \in ShiftStages /\ s.run \in Nat /\ s.alone \in BOOLEAN /\ s.at \in Nat

Busy(w) == shift[w].stage \in Refreshing

Window == {MonthAt(k) : k \in 0 .. SnapshotMonths - 1}

\* What a worker holds, by how far it is.
Holds(w) ==
    /\ IsShift(shift[w])
    /\ Busy(w) => shift[w].run \in 1 .. runs
    /\ shift[w].alone => Busy(w)
    /\ shift[w].stage \in {"swept", "built"} => shift[w].at < SnapshotMonths
    /\ shift[w].stage = "told" => shift[w].at = SnapshotMonths
    /\ Busy(w) => shift[w].at <= SnapshotMonths /\ DOMAIN shift[w].stored \subseteq Window
    /\ \A d \in shift[w].detected : Busy(w) /\ d.run = shift[w].run
    /\ \A a \in shift[w].found \cup shift[w].pending : Busy(w) /\ a.run = shift[w].run
    /\ \A a \in shift[w].found : a.finding.about \subseteq DOMAIN ledger
    /\ \A n \in shift[w].told : shift[w].stage = "told"

HoldsInv == \A w \in Workers : Holds(w)

\* Runs that are under way are told apart, and known to overlap.
RunsInv ==
    /\ runs \in Nat /\ changes \in Nat /\ nights \in Nat /\ deaths \in Nat
    /\ DOMAIN shift = Workers
    /\ \A v, w \in Workers : v # w /\ Busy(v) /\ Busy(w) =>
         shift[v].run # shift[w].run /\ {shift[v].run, shift[w].run} \in overlaps

Notice(n, run) == n = [kind |-> n.kind, resource |-> n.resource, run |-> run]

Tells(w) == \A n \in shift[w].told :
    /\ Notice(n, shift[w].run)
    /\ \A o \in notices : n.kind = o.kind /\ n.resource = o.resource =>
         {o.run, shift[w].run} \in overlaps

\* What was told is told by a run; what is about to be told was told before
\* only by a run under way together with this one.
NoticesInv ==
    /\ ToldOnceInTurn
    /\ \A n \in notices : n.run \in 1 .. runs /\ Notice(n, n.run)
    /\ \A w \in Workers : Tells(w)

DerivedInv == DerivedTypeOK /\ HoldsInv /\ RunsInv /\ NoticesInv

\* What a refresh has to itself finds: the rows for the k-th month.
Fresh(w, k) == {[run |-> shift[w].run, month |-> MonthAt(k), finding |-> f] :
                  f \in Findings(ledger, MonthAt(k))}

\* The months it has rebuilt the anomalies of.
Rebuilt(w) == {k \in 0 .. SnapshotMonths - 1 :
                 k < shift[w].at \/ (shift[w].stage = "built" /\ k = shift[w].at)}

Figures(k) == {Report(ledger, Recurring(ledger, Day), MonthAt(k))}

ExactSoFar(w) ==
    /\ \A v \in Workers \ {w} : ~ Busy(v)
    /\ shift[w].detected = {[run |-> shift[w].run, sub |-> s] : s \in Recurring(ledger, Day)}
    /\ shift[w].stage = "replacing" => shift[w].old = subscriptions
    /\ IF shift[w].stage \in {"detected", "replacing"} THEN shift[w].at = 0
       ELSE {s.sub : s \in subscriptions} = Recurring(ledger, Day)
    /\ shift[w].found = UNION {Fresh(w, k) : k \in Rebuilt(w)}
    /\ shift[w].dropped = UNION {AnomaliesOf(MonthAt(k)) : k \in Rebuilt(w)}
    /\ shift[w].stage = "swept" => /\ shift[w].pending = Fresh(w, shift[w].at)
                                   /\ shift[w].doomed = AnomaliesOf(MonthAt(shift[w].at))
    /\ shift[w].stage = "built" => shift[w].figures = Figures(shift[w].at)
    /\ DOMAIN shift[w].stored = {MonthAt(k) : k \in 0 .. shift[w].at - 1}
    /\ \A k \in 0 .. shift[w].at - 1 : shift[w].stored[MonthAt(k)] = Figures(k)

ExactInv == \A w \in Workers : shift[w].alone => ExactSoFar(w)

\* The day lies in a month.
LEMMA ThisMonthIsMonth == ThisMonth \in Int
<1>1. ThisMonth = CHOOSE m \in 0 .. Horizon : FirstDay[m] <= Day /\ Day <= LastDay(m)
  BY DerivedAssumption DEF ThisMonth, MonthOf
<1>. QED  BY <1>1, DerivedAssumption, InsightsAssumption

USE DEF Refreshing

\* A step of one worker within its transaction keeps what is said of the others.
LEMMA OneMoves ==
  ASSUME DerivedInv, NEW w \in Workers, DOMAIN shift' = Workers,
         \A v \in Workers \ {w} : shift'[v] = shift[v],
         UNCHANGED <<ledger, overlaps, runs, changes, nights>>, deaths' \in Nat,
         Holds(w)', Busy(w)' => Busy(w) /\ shift'[w].run = shift[w].run,
         DerivedTypeOK', NoticesInv'
  PROVE  DerivedInv'
<1>1. HoldsInv'
  BY DEF DerivedInv, HoldsInv, Holds, Busy, Window, MonthAt, ThisMonth
<1>2. RunsInv'
  BY DEF DerivedInv, RunsInv, Busy
<1>. QED  BY <1>1, <1>2 DEF DerivedInv

\* A step that adds nothing to tell keeps what is said of the notices.
LEMMA NothingTold ==
  ASSUME DerivedInv, NEW w \in Workers, \A v \in Workers \ {w} : shift'[v] = shift[v],
         UNCHANGED <<notices, overlaps, runs>>,
         shift'[w].told = {} \/ (shift'[w].told = shift[w].told
                                 /\ shift'[w].run = shift[w].run)
  PROVE  NoticesInv'
<1>1. ASSUME NEW v \in Workers PROVE Tells(v)'
  <2>1. CASE v # w
    BY <2>1 DEF DerivedInv, NoticesInv, Tells, Notice
  <2>2. CASE v = w
    BY <2>2 DEF DerivedInv, NoticesInv, Tells, Notice
  <2>. QED  BY <2>1, <2>2
<1>. QED  BY <1>1 DEF DerivedInv, NoticesInv, ToldOnceInTurn, Notice

\* A step of one worker keeps what another one, alone, has rebuilt.
LEMMA ExactKept ==
  ASSUME ExactInv, NEW w \in Workers, \A v \in Workers \ {w} : shift'[v] = shift[v],
         ledger' = ledger, Busy(w)' => Busy(w),
         Busy(w) \/ UNCHANGED <<subscriptions, anomalies>>,
         shift'[w].alone => ExactSoFar(w)'
  PROVE  ExactInv'
<1>1. ASSUME NEW v \in Workers \ {w}, shift'[v].alone PROVE ExactSoFar(v)'
  <2>1. shift'[v] = shift[v] /\ ExactSoFar(v) /\ ~ Busy(w)
    BY <1>1 DEF ExactInv, ExactSoFar
  <2>2. \A u \in Workers \ {v} : ~ Busy(u)'
    BY <2>1 DEF ExactSoFar, Busy
  <2>3. UNCHANGED <<subscriptions, anomalies>>
    BY <2>1
  <2>. QED  BY <2>1, <2>2, <2>3
            DEF ExactSoFar, Fresh, Rebuilt, Figures, AnomaliesOf, MonthAt, ThisMonth
<1>. QED  BY <1>1 DEF ExactInv

\* Once the ledger changes, no refresh has seen all of it.
LEMMA LedgerKeeps ==
  ASSUME DerivedInv, NEW L, LedgerBecomes(L),
         UNCHANGED <<subscriptions, snapshots, notices, budgets, phrasings, role,
                     overlaps, runs, nights, deaths>>,
         refreshes' \in Nat, anomalies' \subseteq anomalies,
         \A a \in anomalies' : a.finding.about \subseteq DOMAIN L,
         \A w \in Workers : \A a \in shift[w].found : a.finding.about \subseteq DOMAIN L
  PROVE  DerivedInv' /\ ExactInv'
<1>1. /\ DOMAIN shift' = Workers /\ ledger' = L /\ changes' = changes + 1
      /\ \A w \in Workers : shift'[w] = [shift[w] EXCEPT !.alone = FALSE]
  BY DEF LedgerBecomes
<1>2. ASSUME NEW w \in Workers
      PROVE  /\ DOMAIN shift'[w] = ShiftFields /\ shift'[w].alone = FALSE
             /\ \A f \in ShiftFields \ {"alone"} : shift'[w][f] = shift[w][f]
  BY <1>1 DEF DerivedInv, HoldsInv, Holds, IsShift, ShiftFields
<1>3. ASSUME NEW w \in Workers
      PROVE  /\ shift'[w].stage = shift[w].stage /\ shift'[w].run = shift[w].run
             /\ shift'[w].at = shift[w].at /\ shift'[w].stored = shift[w].stored
             /\ shift'[w].detected = shift[w].detected /\ shift'[w].found = shift[w].found
             /\ shift'[w].pending = shift[w].pending /\ shift'[w].told = shift[w].told
  BY <1>2 DEF ShiftFields
<1>4. DerivedTypeOK'
  BY <1>1 DEF DerivedInv, DerivedTypeOK
<1>5. HoldsInv'
  <2>1. ASSUME NEW w \in Workers PROVE Holds(w)'
    <3>1. Holds(w)
      BY DEF DerivedInv, HoldsInv
    <3>2. IsShift(shift'[w]) /\ (Busy(w)' <=> Busy(w))
      BY <1>2, <1>3, <3>1 DEF Holds, IsShift, Busy
    <3>. QED  BY <1>1, <1>2, <1>3, <3>1, <3>2 DEF Holds, Window, MonthAt, ThisMonth
  <2>. QED  BY <2>1 DEF HoldsInv
<1>6. RunsInv'
  BY <1>1, <1>3 DEF DerivedInv, RunsInv, Busy
<1>7. NoticesInv'
  BY <1>3 DEF DerivedInv, NoticesInv, ToldOnceInTurn, Notice, Tells
<1>8. ExactInv'
  BY <1>2 DEF ExactInv
<1>. QED  BY <1>4, <1>5, <1>6, <1>7, <1>8 DEF DerivedInv

\* An import adds rows: what points at the ledger still does.
LEMMA ImportRowsKeeps ==
  ASSUME DerivedInv, NEW b \in DOMAIN Batches, ImportRows(b)
  PROVE  DerivedInv' /\ ExactInv'
<1>. DEFINE L == [t \in DOMAIN ledger \cup DOMAIN Batches[b] |->
                    IF t \in DOMAIN ledger THEN ledger[t] ELSE Batches[b][t]]
<1>1. /\ LedgerBecomes(L) /\ refreshes' \in Nat
      /\ UNCHANGED <<derivedTables, budgets, phrasings, role, overlaps, runs, nights, deaths>>
  BY DEF ImportRows, DerivedInv, DerivedTypeOK
<1>2. DOMAIN ledger \subseteq DOMAIN L
  OBVIOUS
<1>. HIDE DEF L
<1>3. /\ \A a \in anomalies : a.finding.about \subseteq DOMAIN L
      /\ \A w \in Workers : \A a \in shift[w].found : a.finding.about \subseteq DOMAIN L
  BY <1>2 DEF DerivedInv, DerivedTypeOK, HoldsInv, Holds
<1>. QED  BY <1>1, <1>3, LedgerKeeps DEF derivedTables

\* A correction keeps every transaction.
LEMMA RecategoriseKeeps ==
  ASSUME DerivedInv, NEW t \in DOMAIN Recategorised, Recategorise(t)
  PROVE  DerivedInv' /\ ExactInv'
<1>. DEFINE L == [ledger EXCEPT ![t].category = Recategorised[t]]
<1>1. /\ LedgerBecomes(L) /\ refreshes' \in Nat
      /\ UNCHANGED <<derivedTables, budgets, phrasings, role, overlaps, runs, nights, deaths>>
  BY DEF Recategorise, DerivedInv, DerivedTypeOK
<1>2. DOMAIN ledger = DOMAIN L
  OBVIOUS
<1>. HIDE DEF L
<1>3. /\ \A a \in anomalies : a.finding.about \subseteq DOMAIN L
      /\ \A w \in Workers : \A a \in shift[w].found : a.finding.about \subseteq DOMAIN L
  BY <1>2 DEF DerivedInv, DerivedTypeOK, HoldsInv, Holds
<1>. QED  BY <1>1, <1>3, LedgerKeeps DEF derivedTables

\* A deletion waits for the findings about its rows, and cascades to the others.
LEMMA DeleteRowsKeeps ==
  ASSUME DerivedInv, NEW b \in DOMAIN Batches, DeleteRows(b)
  PROVE  DerivedInv' /\ ExactInv'
<1>. DEFINE L == [t \in DOMAIN ledger \ DOMAIN Batches[b] |-> ledger[t]]
<1>1. /\ LedgerBecomes(L) /\ refreshes' \in Nat /\ anomalies' = Cascaded(b)
      /\ UNCHANGED <<subscriptions, snapshots, notices, budgets, phrasings, role, overlaps,
                     runs, nights, deaths>>
      /\ \A w \in Workers : \A a \in shift[w].found :
            a.finding.about \cap DOMAIN Batches[b] = {}
  BY DEF DeleteRows, DerivedInv, DerivedTypeOK
<1>2. DOMAIN L = DOMAIN ledger \ DOMAIN Batches[b]
  OBVIOUS
<1>. HIDE DEF L
<1>3. /\ anomalies' \subseteq anomalies
      /\ \A a \in anomalies' : a.finding.about \subseteq DOMAIN L
      /\ \A w \in Workers : \A a \in shift[w].found : a.finding.about \subseteq DOMAIN L
  BY <1>1, <1>2 DEF DerivedInv, DerivedTypeOK, HoldsInv, Holds, Cascaded
<1>. QED  BY <1>1, <1>3, LedgerKeeps

\* A step that leaves the ledger, the tables and the workers alone.
LEMMA ElsewhereKeeps ==
  ASSUME DerivedInv, ExactInv, DerivedTypeOK',
         UNCHANGED <<ledger, derivedTables, shift, overlaps, runs, deaths>>,
         changes' \in Nat, nights' \in Nat
  PROVE  DerivedInv' /\ ExactInv'
<1>1. HoldsInv'
  BY DEF DerivedInv, HoldsInv, Holds, Busy, Window, MonthAt, ThisMonth
<1>2. RunsInv'
  BY DEF DerivedInv, RunsInv, Busy
<1>3. NoticesInv'
  BY DEF DerivedInv, NoticesInv, ToldOnceInTurn, Notice, Tells, derivedTables
<1>4. ExactInv'
  BY DEF ExactInv, ExactSoFar, Fresh, Rebuilt, Figures, AnomaliesOf, MonthAt, ThisMonth, Busy,
         derivedTables
<1>. QED  BY <1>1, <1>2, <1>3, <1>4 DEF DerivedInv

\* Budgets are changed elsewhere: neither the ledger nor a worker is.
LEMMA BudgetsAreApart ==
  ASSUME NEW c,
         \/ \E amount \in BudgetAmounts :
              CreateBudget(c, amount) \/ \E on \in BOOLEAN : UpdateBudget(c, amount, on)
         \/ RemoveBudget(c)
  PROVE  BudgetChange
<1>1. ASSUME NEW amount, CreateBudget(c, amount) PROVE BudgetChange
  BY <1>1 DEF CreateBudget
<1>2. ASSUME NEW amount, NEW on, UpdateBudget(c, amount, on) PROVE BudgetChange
  BY <1>2 DEF UpdateBudget
<1>3. ASSUME RemoveBudget(c) PROVE BudgetChange
  BY <1>3 DEF RemoveBudget
<1>. QED  BY <1>1, <1>2, <1>3

\* A budget is made, changed or removed.
LEMMA BudgetsKeep ==
  ASSUME DerivedInv, ExactInv, NEW c \in Categories,
         \/ \E amount \in BudgetAmounts :
              CreateBudget(c, amount) \/ \E on \in BOOLEAN : UpdateBudget(c, amount, on)
         \/ RemoveBudget(c)
  PROVE  DerivedInv' /\ ExactInv'
<1>1. BudgetChange /\ DOMAIN budgets' \subseteq Categories
  <2>1. BudgetChange
    BY BudgetsAreApart
  <2>2. DOMAIN budgets \subseteq Categories
    BY DEF DerivedInv, DerivedTypeOK
  <2>3. ASSUME NEW amount \in BudgetAmounts, CreateBudget(c, amount)
        PROVE  DOMAIN budgets' = DOMAIN budgets \cup {c}
    BY <2>3 DEF CreateBudget
  <2>4. ASSUME NEW amount \in BudgetAmounts, NEW on \in BOOLEAN, UpdateBudget(c, amount, on)
        PROVE  DOMAIN budgets' = DOMAIN budgets
    BY <2>4 DEF UpdateBudget
  <2>5. ASSUME RemoveBudget(c) PROVE DOMAIN budgets' = DOMAIN budgets \ {c}
    BY <2>5 DEF RemoveBudget
  <2>. QED  BY <2>1, <2>2, <2>3, <2>4, <2>5
<1>2. DerivedTypeOK' /\ changes' \in Nat /\ nights' \in Nat
  BY <1>1
     DEF DerivedInv, RunsInv, DerivedTypeOK, BudgetChange, derivedTables, MonthAt, ThisMonth
<1>. QED  BY <1>1, <1>2, ElsewhereKeeps DEF BudgetChange

\* A night publishes its messages.
LEMMA NightsKeep ==
  ASSUME DerivedInv, ExactInv, NightlyRefresh \/ NightlyNarratives
  PROVE  DerivedInv' /\ ExactInv'
<1>1. UNCHANGED <<ledger, derivedTables, shift, overlaps, runs, deaths, changes, budgets, role>>
  BY DEF NightlyRefresh, NightlyNarratives
<1>2. nights' \in Nat /\ refreshes' \in Nat /\ phrasings' \in Nat
  BY DEF NightlyRefresh, NightlyNarratives, DerivedInv, RunsInv, DerivedTypeOK
<1>3. DerivedTypeOK' /\ changes' \in Nat
  BY <1>1, <1>2 DEF DerivedInv, RunsInv, DerivedTypeOK, derivedTables, MonthAt, ThisMonth
<1>. QED  BY <1>1, <1>2, <1>3, ElsewhereKeeps

-----------------------------------------------------------------------------
(* The steps of a worker *)

\* A worker that ends its transaction holds nothing.
LEMMA QuitLeaves ==
  ASSUME DerivedInv, NEW w \in Workers, Quit(w)
  PROVE  /\ DOMAIN shift' = Workers /\ \A v \in Workers \ {w} : shift'[v] = shift[v]
         /\ shift'[w] = OffDuty /\ ~ Busy(w)' /\ Holds(w)' /\ shift'[w].told = {}
         /\ ~ shift'[w].alone
<1>1. /\ DOMAIN shift' = Workers /\ \A v \in Workers \ {w} : shift'[v] = shift[v]
      /\ shift'[w] = OffDuty
  BY DEF Quit, DerivedInv, RunsInv
<1>2. /\ DOMAIN shift'[w] = ShiftFields /\ shift'[w].stage = "off" /\ shift'[w].run = 0
      /\ shift'[w].at = 0 /\ shift'[w].alone = FALSE /\ shift'[w].detected = {}
      /\ shift'[w].found = {} /\ shift'[w].pending = {} /\ shift'[w].told = {}
  BY <1>1 DEF OffDuty, ShiftFields
<1>3. ~ Busy(w)'
  BY <1>2 DEF Busy
<1>4. Holds(w)'
  <2>1. IsShift(shift'[w])
    <3>1. shift'[w].alone \in BOOLEAN
      BY <1>2, Zenon
    <3>2. shift'[w].stage \in ShiftStages /\ shift'[w].run \in Nat /\ shift'[w].at \in Nat
      BY <1>2 DEF ShiftStages
    <3>. QED  BY <1>2, <3>1, <3>2 DEF IsShift
  <2>2. /\ shift'[w].stage \notin {"swept", "built"} /\ shift'[w].stage # "told"
        /\ shift'[w].found \cup shift'[w].pending = {}
    BY <1>2
  <2>. QED  BY <1>2, <1>3, <2>1, <2>2 DEF Holds
<1>. QED  BY <1>1, <1>2, <1>3, <1>4

\* Giving up leaves the tables alone, and tells nothing.
LEMMA QuitKeeps ==
  ASSUME DerivedInv, ExactInv, NEW w \in Workers, Quit(w),
         UNCHANGED <<ledger, derivedTables, overlaps, runs, changes, nights>>,
         deaths' \in Nat, DerivedTypeOK'
  PROVE  DerivedInv' /\ ExactInv'
<1>1. /\ DOMAIN shift' = Workers /\ \A v \in Workers \ {w} : shift'[v] = shift[v]
      /\ shift'[w] = OffDuty /\ ~ Busy(w)' /\ Holds(w)' /\ shift'[w].told = {}
      /\ ~ shift'[w].alone
  BY QuitLeaves
<1>2. NoticesInv'
  BY <1>1, NothingTold DEF derivedTables
<1>3. DerivedInv'
  BY <1>1, <1>2, OneMoves
<1>4. ExactInv'
  BY <1>1, ExactKept DEF derivedTables
<1>. QED  BY <1>3, <1>4

\* What the tables and the counts hold is what they held.
LEMMA TypesStay ==
  ASSUME DerivedInv, UNCHANGED <<ledger, derivedTables, budgets, refreshes, phrasings,
                                 role, runs>>
  PROVE  DerivedTypeOK'
BY DEF DerivedInv, DerivedTypeOK, derivedTables, MonthAt, ThisMonth

\* A step within the transaction of one worker.
LEMMA WithinKeeps ==
  ASSUME DerivedInv, ExactInv, NEW w \in Workers, DOMAIN shift' = Workers,
         \A v \in Workers \ {w} : shift'[v] = shift[v],
         UNCHANGED <<ledger, derivedTables, budgets, refreshes, phrasings, role, overlaps,
                     derivedCounts>>,
         Holds(w)', Busy(w)' => Busy(w) /\ shift'[w].run = shift[w].run,
         NoticesInv', shift'[w].alone => ExactSoFar(w)'
  PROVE  DerivedInv' /\ ExactInv'
<1>1. DerivedTypeOK'
  BY TypesStay DEF derivedCounts
<1>2. deaths' \in Nat
  BY DEF DerivedInv, RunsInv, derivedCounts
<1>3. DerivedInv'
  BY <1>1, <1>2, OneMoves DEF derivedCounts
<1>4. ExactInv'
  BY ExactKept DEF derivedTables
<1>. QED  BY <1>3, <1>4

\* The detectors read the ledger: a refresh alone sees what is there at the commit.
LEMMA SweepKeeps ==
  ASSUME DerivedInv, ExactInv, NEW w \in Workers, Sweep(w)
  PROVE  DerivedInv' /\ ExactInv'
<1>. DEFINE m == MonthAt(shift[w].at)
            fresh == {[run |-> shift[w].run, month |-> m, finding |-> f] :
                        f \in Findings(ledger, m)}
<1>1. Holds(w) /\ DOMAIN shift = Workers /\ Busy(w) /\ shift[w].stage = "sweeping"
      /\ shift[w].at < SnapshotMonths
  BY DEF Sweep, DerivedInv, HoldsInv, RunsInv, Busy
<1>2. UNCHANGED <<ledger, derivedTables, budgets, refreshes, phrasings, role, overlaps,
                  derivedCounts>>
  BY DEF Sweep
<1>3. shift' = [shift EXCEPT ![w].stage = "swept", ![w].pending = fresh,
                             ![w].doomed = AnomaliesOf(m)]
  BY DEF Sweep
<1>4. /\ DOMAIN shift' = Workers /\ \A v \in Workers \ {w} : shift'[v] = shift[v]
      /\ DOMAIN shift'[w] = ShiftFields /\ shift'[w].stage = "swept"
      /\ shift'[w].pending = fresh /\ shift'[w].doomed = AnomaliesOf(m)
      /\ \A f \in ShiftFields \ {"stage", "pending", "doomed"} : shift'[w][f] = shift[w][f]
  BY <1>1, <1>3 DEF Holds, IsShift, ShiftFields
<1>5. /\ shift'[w].run = shift[w].run /\ shift'[w].at = shift[w].at
      /\ shift'[w].alone = shift[w].alone /\ shift'[w].stored = shift[w].stored
      /\ shift'[w].detected = shift[w].detected /\ shift'[w].found = shift[w].found
      /\ shift'[w].dropped = shift[w].dropped /\ shift'[w].told = shift[w].told
  BY <1>4 DEF ShiftFields
<1>6. Busy(w)'
  BY <1>4 DEF Busy
<1>7. Holds(w)'
  <2>1. \A a \in fresh : a.run = shift[w].run
    OBVIOUS
  <2>. HIDE DEF fresh, m
  <2>2. IsShift(shift'[w]) /\ Window' = Window /\ UNCHANGED <<runs, ledger>>
    BY <1>1, <1>2, <1>4, <1>5 DEF Holds, IsShift, ShiftStages, Window, MonthAt, ThisMonth,
       derivedCounts
  <2>. QED  BY <1>1, <1>4, <1>5, <1>6, <2>1, <2>2 DEF Holds
<1>8. NoticesInv'
  BY <1>2, <1>4, <1>5, NothingTold DEF derivedTables, derivedCounts
<1>9. ASSUME shift'[w].alone PROVE ExactSoFar(w)'
  <2>1. ExactSoFar(w)
    BY <1>5, <1>9 DEF ExactInv
  <2>2. Rebuilt(w)' = Rebuilt(w)
    BY <1>1, <1>4, <1>5 DEF Rebuilt
  <2>3. /\ \A k : Fresh(w, k)' = Fresh(w, k) /\ AnomaliesOf(MonthAt(k))' = AnomaliesOf(MonthAt(k))
        /\ \A k : Figures(k)' = Figures(k)
        /\ UNCHANGED <<subscriptions, ledger>>
    BY <1>2, <1>5 DEF Fresh, AnomaliesOf, Figures, MonthAt, ThisMonth, derivedTables
  <2>4. \A v \in Workers \ {w} : ~ Busy(v)'
    BY <1>4, <2>1 DEF ExactSoFar, Busy
  <2>5. PICK k : k = shift[w].at /\ k = shift'[w].at
    BY <1>5
  <2>6. shift'[w].pending = Fresh(w, k)' /\ shift'[w].doomed = AnomaliesOf(MonthAt(k))'
    BY <1>4, <2>3, <2>5 DEF Fresh
  <2>7. (shift[w].pending = Fresh(w, shift[w].at)
          /\ shift[w].doomed = AnomaliesOf(MonthAt(shift[w].at)))'
    BY <2>5, <2>6 DEF Fresh, AnomaliesOf, MonthAt, ThisMonth
  <2>. QED  BY <1>1, <1>4, <1>5, <2>1, <2>2, <2>3, <2>4, <2>7 DEF ExactSoFar
<1>. QED  BY <1>1, <1>2, <1>4, <1>5, <1>7, <1>8, <1>9, WithinKeeps

\* The months of the window are told apart.
LEMMA MonthsDiffer == \A j, k \in Nat : MonthAt(j) = MonthAt(k) => j = k
BY ThisMonthIsMonth DEF MonthAt

\* What is derived is a function of the ledger and the run.
LEMMA ExactFrame ==
  ASSUME NEW w, UNCHANGED <<ledger, anomalies>>, shift'[w].run = shift[w].run
  PROVE  \A k : /\ Fresh(w, k)' = Fresh(w, k) /\ Figures(k)' = Figures(k)
                /\ AnomaliesOf(MonthAt(k))' = AnomaliesOf(MonthAt(k))
BY DEF Fresh, AnomaliesOf, Figures, MonthAt, ThisMonth

\* The findings of a month are inserted, and its report is built.
LEMMA BuildKeeps ==
  ASSUME DerivedInv, ExactInv, NEW w \in Workers, Build(w)
  PROVE  DerivedInv' /\ ExactInv'
<1>. DEFINE m == MonthAt(shift[w].at)
            subs == {s.sub : s \in subscriptions}
            figures == {Report(ledger, subs, m)}
<1>1. Holds(w) /\ DOMAIN shift = Workers /\ Busy(w) /\ shift[w].stage = "swept"
      /\ shift[w].at < SnapshotMonths /\ shift[w].at \in Nat
  BY DEF Build, DerivedInv, HoldsInv, Holds, IsShift, RunsInv, Busy
<1>2. UNCHANGED <<ledger, derivedTables, budgets, refreshes, phrasings, role, overlaps,
                  derivedCounts>>
  BY DEF Build
<1>3. CASE Quit(w)
  <2>1. DerivedTypeOK' /\ deaths' \in Nat
    BY <1>2, TypesStay DEF derivedCounts, DerivedInv, RunsInv
  <2>. QED  BY <1>2, <1>3, <2>1, QuitKeeps DEF derivedCounts
<1>4. CASE /\ \A a \in shift[w].pending : a.finding.about \subseteq DOMAIN ledger
           /\ shift' = [shift EXCEPT ![w].stage = "built",
                          ![w].found = @ \cup shift[w].pending,
                          ![w].dropped = @ \cup shift[w].doomed,
                          ![w].pending = {}, ![w].doomed = {},
                          ![w].figures = figures]
  <2>. HIDE DEF figures
  <2>1. /\ DOMAIN shift' = Workers /\ \A v \in Workers \ {w} : shift'[v] = shift[v]
        /\ DOMAIN shift'[w] = ShiftFields /\ shift'[w].stage = "built"
        /\ shift'[w].found = shift[w].found \cup shift[w].pending
        /\ shift'[w].dropped = shift[w].dropped \cup shift[w].doomed
        /\ shift'[w].pending = {} /\ shift'[w].figures = figures
        /\ \A f \in {"run", "alone", "at", "detected", "stored", "told"} :
              shift'[w][f] = shift[w][f]
    BY <1>1, <1>4 DEF Holds, IsShift, ShiftFields
  <2>2. /\ shift'[w].run = shift[w].run /\ shift'[w].at = shift[w].at
        /\ shift'[w].alone = shift[w].alone /\ shift'[w].stored = shift[w].stored
        /\ shift'[w].detected = shift[w].detected /\ shift'[w].told = shift[w].told
    BY <2>1
  <2>3. Busy(w)'
    BY <2>1 DEF Busy
  <2>4. Holds(w)'
    <3>1. IsShift(shift'[w]) /\ Window' = Window /\ UNCHANGED <<runs, ledger>>
      BY <1>1, <1>2, <2>1, <2>2 DEF Holds, IsShift, ShiftStages, Window, MonthAt,
         ThisMonth, derivedCounts
    <3>2. /\ \A a \in shift'[w].found \cup shift'[w].pending : a.run = shift[w].run
          /\ \A a \in shift'[w].found : a.finding.about \subseteq DOMAIN ledger
      <4>1. /\ \A a \in shift[w].found \cup shift[w].pending : a.run = shift[w].run
            /\ \A a \in shift[w].found : a.finding.about \subseteq DOMAIN ledger
        BY <1>1 DEF Holds
      <4>2. \A a \in shift[w].pending : a.finding.about \subseteq DOMAIN ledger
        BY <1>4
      <4>. QED  BY <2>1, <4>1, <4>2
    <3>. QED  BY <1>1, <2>1, <2>2, <2>3, <3>1, <3>2 DEF Holds
  <2>5. NoticesInv'
    BY <1>2, <2>1, <2>2, NothingTold DEF derivedTables, derivedCounts
  <2>6. ASSUME shift'[w].alone PROVE ExactSoFar(w)'
    <3>1. ExactSoFar(w)
      BY <2>2, <2>6 DEF ExactInv
    <3>2. PICK i \in Nat : i = shift[w].at /\ i = shift'[w].at /\ i < SnapshotMonths
      BY <1>1, <2>2
    <3>3. Rebuilt(w)' = Rebuilt(w) \cup {i}
      BY <1>1, <2>1, <3>2, DerivedAssumption DEF Rebuilt
    <3>4. /\ \A k : /\ Fresh(w, k)' = Fresh(w, k) /\ Figures(k)' = Figures(k)
                    /\ AnomaliesOf(MonthAt(k))' = AnomaliesOf(MonthAt(k))
          /\ UNCHANGED <<subscriptions, ledger>>
      BY <1>2, <2>2, ExactFrame DEF derivedTables
    <3>5. \A v \in Workers \ {w} : ~ Busy(v)'
      BY <2>1, <3>1 DEF ExactSoFar, Busy
    <3>6. shift[w].pending = Fresh(w, i) /\ shift[w].doomed = AnomaliesOf(MonthAt(i))
          /\ subs = Recurring(ledger, Day)
      BY <1>1, <3>1, <3>2 DEF ExactSoFar
    <3>7. /\ shift'[w].found = UNION {Fresh(w, k)' : k \in Rebuilt(w)'}
          /\ shift'[w].dropped = UNION {AnomaliesOf(MonthAt(k))' : k \in Rebuilt(w)'}
      BY <2>1, <3>1, <3>3, <3>4, <3>6 DEF ExactSoFar
    <3>8. shift'[w].figures = Figures(i)'
      BY <2>1, <3>2, <3>4, <3>6 DEF Figures, figures
    <3>9. (shift[w].figures = Figures(shift[w].at))'
      BY <3>2, <3>8 DEF Figures, MonthAt, ThisMonth
    <3>. QED  BY <1>1, <2>1, <2>2, <3>1, <3>2, <3>4, <3>5, <3>7, <3>9 DEF ExactSoFar
  <2>. QED  BY <1>1, <1>2, <2>1, <2>2, <2>4, <2>5, <2>6, WithinKeeps
<1>. QED  BY <1>3, <1>4 DEF Build

\* The report of a month is stored, and the next month begins.
LEMMA StoreSnapshotKeeps ==
  ASSUME DerivedInv, ExactInv, NEW w \in Workers, StoreSnapshot(w)
  PROVE  DerivedInv' /\ ExactInv'
<1>1. Holds(w) /\ DOMAIN shift = Workers /\ Busy(w) /\ shift[w].stage = "built"
      /\ shift[w].at < SnapshotMonths /\ shift[w].at \in Nat
  BY DEF StoreSnapshot, DerivedInv, HoldsInv, Holds, IsShift, RunsInv, Busy
<1>2. UNCHANGED <<ledger, derivedTables, budgets, refreshes, phrasings, role, overlaps,
                  derivedCounts>>
  BY DEF StoreSnapshot
<1>3. CASE Quit(w)
  <2>1. DerivedTypeOK' /\ deaths' \in Nat
    BY <1>2, TypesStay DEF derivedCounts, DerivedInv, RunsInv
  <2>. QED  BY <1>2, <1>3, <2>1, QuitKeeps DEF derivedCounts
<1>. DEFINE old == shift[w].stored
            stored == [m \in DOMAIN old \cup {MonthAt(shift[w].at)} |->
                         IF m \in DOMAIN old THEN old[m] ELSE shift[w].figures]
<1>4. CASE shift' = [shift EXCEPT ![w].stage = "sweeping", ![w].at = @ + 1,
                        ![w].stored = [m \in DOMAIN @ \cup {MonthAt(shift[w].at)} |->
                           IF m \in DOMAIN @ THEN @[m] ELSE shift[w].figures],
                        ![w].figures = {}]
  <2>0. shift' = [shift EXCEPT ![w].stage = "sweeping", ![w].at = shift[w].at + 1,
                               ![w].stored = stored, ![w].figures = {}]
    BY <1>1, <1>4 DEF Holds, IsShift, ShiftFields
  <2>. HIDE DEF stored
  <2>1. /\ DOMAIN shift' = Workers /\ \A v \in Workers \ {w} : shift'[v] = shift[v]
        /\ DOMAIN shift'[w] = ShiftFields /\ shift'[w].stage = "sweeping"
        /\ shift'[w].at = shift[w].at + 1 /\ shift'[w].stored = stored
        /\ \A f \in {"run", "alone", "found", "detected", "dropped", "pending", "told"} :
              shift'[w][f] = shift[w][f]
    BY <1>1, <2>0 DEF Holds, IsShift, ShiftFields
  <2>2. /\ shift'[w].run = shift[w].run /\ shift'[w].found = shift[w].found
        /\ shift'[w].alone = shift[w].alone /\ shift'[w].dropped = shift[w].dropped
        /\ shift'[w].detected = shift[w].detected /\ shift'[w].told = shift[w].told
        /\ shift'[w].pending = shift[w].pending
    BY <2>1
  <2>3. Busy(w)'
    BY <2>1 DEF Busy
  <2>4. Holds(w)'
    <3>1. IsShift(shift'[w]) /\ Window' = Window /\ UNCHANGED <<runs, ledger>>
      BY <1>1, <1>2, <2>1, <2>2 DEF Holds, IsShift, ShiftStages, Window, MonthAt,
         ThisMonth, derivedCounts
    <3>2. DOMAIN stored \subseteq Window /\ shift[w].at + 1 <= SnapshotMonths
      BY <1>1, DerivedAssumption DEF stored, Holds, Window
    <3>. QED  BY <1>1, <2>1, <2>2, <2>3, <3>1, <3>2 DEF Holds
  <2>5. NoticesInv'
    BY <1>2, <2>1, <2>2, NothingTold DEF derivedTables, derivedCounts
  <2>6. ASSUME shift'[w].alone PROVE ExactSoFar(w)'
    <3>1. ExactSoFar(w)
      BY <2>2, <2>6 DEF ExactInv
    <3>2. PICK i \in Nat : i = shift[w].at /\ i + 1 = shift'[w].at /\ i < SnapshotMonths
      BY <1>1, <2>1
    <3>3. Rebuilt(w)' = Rebuilt(w)
      BY <1>1, <2>1, <3>2, DerivedAssumption DEF Rebuilt
    <3>4. /\ \A k : /\ Fresh(w, k)' = Fresh(w, k) /\ Figures(k)' = Figures(k)
                    /\ AnomaliesOf(MonthAt(k))' = AnomaliesOf(MonthAt(k))
          /\ UNCHANGED <<subscriptions, ledger>>
      BY <1>2, <2>2, ExactFrame DEF derivedTables
    <3>5. \A v \in Workers \ {w} : ~ Busy(v)'
      BY <2>1, <3>1 DEF ExactSoFar, Busy
    <3>6. /\ shift'[w].found = UNION {Fresh(w, k)' : k \in Rebuilt(w)'}
          /\ shift'[w].dropped = UNION {AnomaliesOf(MonthAt(k))' : k \in Rebuilt(w)'}
      BY <2>2, <3>1, <3>3, <3>4 DEF ExactSoFar
    <3>7. /\ DOMAIN old = {MonthAt(k) : k \in 0 .. i - 1}
          /\ \A k \in 0 .. i - 1 : old[MonthAt(k)] = Figures(k)
          /\ shift[w].figures = Figures(i)
      BY <1>1, <3>1, <3>2 DEF ExactSoFar
    <3>8. MonthAt(i) \notin DOMAIN old
      BY <3>7, MonthsDiffer
    <3>9. /\ DOMAIN stored = {MonthAt(k) : k \in 0 .. i}
          /\ \A k \in 0 .. i : stored[MonthAt(k)] = Figures(k)
      <4>1. DOMAIN stored = DOMAIN old \cup {MonthAt(i)}
        BY <3>2 DEF stored
      <4>2. ASSUME NEW k \in 0 .. i PROVE stored[MonthAt(k)] = Figures(k)
        <5>1. CASE k = i
          BY <3>2, <3>7, <3>8, <5>1 DEF stored
        <5>2. CASE k # i
          <6>1. k \in 0 .. i - 1 /\ MonthAt(k) \in DOMAIN old
            BY <3>7, <5>2
          <6>. QED  BY <3>7, <6>1 DEF stored
        <5>. QED  BY <5>1, <5>2
      <4>. QED  BY <3>7, <4>1, <4>2
    <3>10. (/\ DOMAIN shift[w].stored = {MonthAt(k) : k \in 0 .. shift[w].at - 1}
            /\ \A k \in 0 .. shift[w].at - 1 : shift[w].stored[MonthAt(k)] = Figures(k))'
      <4>1. shift'[w].at - 1 = i
        BY <3>2
      <4>. QED  BY <2>1, <3>4, <3>9, <4>1 DEF MonthAt, ThisMonth
    <3>11. /\ shift'[w].detected = {[run |-> shift'[w].run, sub |-> s] :
                                      s \in Recurring(ledger', Day)}
           /\ {s.sub : s \in subscriptions'} = Recurring(ledger', Day)
      BY <1>1, <2>2, <3>1, <3>4 DEF ExactSoFar
    <3>. QED  BY <2>1, <3>5, <3>6, <3>10, <3>11 DEF ExactSoFar
  <2>. QED  BY <1>1, <1>2, <2>1, <2>2, <2>4, <2>5, <2>6, WithinKeeps
<1>. QED  BY <1>3, <1>4 DEF StoreSnapshot

\* What is told is a notice of this run that repeats none.
LEMMA NotifyKeeps ==
  ASSUME DerivedInv, ExactInv, NEW w \in Workers, Notify(w)
  PROVE  DerivedInv' /\ ExactInv'
<1>1. Holds(w) /\ DOMAIN shift = Workers /\ Busy(w) /\ shift[w].stage = "sweeping"
      /\ shift[w].at = SnapshotMonths
  BY DEF Notify, DerivedInv, HoldsInv, RunsInv, Busy
<1>2. UNCHANGED <<ledger, derivedTables, budgets, refreshes, phrasings, role, overlaps,
                  derivedCounts>>
  BY DEF Notify
<1>3. PICK told : /\ shift' = [shift EXCEPT ![w].stage = "told", ![w].told = told]
                  /\ \A n \in told : Notice(n, shift[w].run) /\ ~ Repeats(n)
  <2>. DEFINE run == shift[w].run
              standing == {a \in (anomalies \ shift[w].dropped) \cup shift[w].found :
                             a.month = ThisMonth}
              due == {AnomalyNotice(a, run) : a \in Listed(standing)}
                       \cup {BreachNotice(budgets[c], run) :
                               c \in {d \in DOMAIN budgets : Breached(d)}}
              told == {n \in due : ~ Repeats(n)}
  <2>1. shift' = [shift EXCEPT ![w].stage = "told", ![w].told = told]
    BY DEF Notify
  <2>2. ASSUME NEW n \in due PROVE Notice(n, run)
    <3>1. ASSUME NEW a, n = AnomalyNotice(a, run) PROVE Notice(n, run)
      BY <3>1 DEF AnomalyNotice, Notice
    <3>2. ASSUME NEW b, n = BreachNotice(b, run) PROVE Notice(n, run)
      BY <3>2 DEF BreachNotice, Notice
    <3>. QED  BY <3>1, <3>2
  <2>3. \A n \in told : Notice(n, run) /\ ~ Repeats(n)
    BY <2>2
  <2>. HIDE DEF told
  <2>. QED  BY <2>1, <2>3
<1>4. /\ DOMAIN shift' = Workers /\ \A v \in Workers \ {w} : shift'[v] = shift[v]
      /\ DOMAIN shift'[w] = ShiftFields /\ shift'[w].stage = "told" /\ shift'[w].told = told
      /\ \A f \in ShiftFields \ {"stage", "told"} : shift'[w][f] = shift[w][f]
  BY <1>1, <1>3 DEF Holds, IsShift, ShiftFields
<1>5. /\ shift'[w].run = shift[w].run /\ shift'[w].at = shift[w].at
      /\ shift'[w].alone = shift[w].alone /\ shift'[w].stored = shift[w].stored
      /\ shift'[w].detected = shift[w].detected /\ shift'[w].found = shift[w].found
      /\ shift'[w].dropped = shift[w].dropped /\ shift'[w].pending = shift[w].pending
  BY <1>4 DEF ShiftFields
<1>6. Busy(w)'
  BY <1>4 DEF Busy
<1>7. Holds(w)'
  <2>1. IsShift(shift'[w]) /\ Window' = Window /\ UNCHANGED <<runs, ledger>>
    BY <1>1, <1>2, <1>4, <1>5 DEF Holds, IsShift, ShiftStages, Window, MonthAt, ThisMonth,
       derivedCounts
  <2>. QED  BY <1>1, <1>4, <1>5, <1>6, <2>1 DEF Holds
<1>8. NoticesInv'
  <2>1. UNCHANGED <<notices, overlaps, runs>>
    BY <1>2 DEF derivedTables, derivedCounts
  <2>2. ASSUME NEW v \in Workers PROVE Tells(v)'
    <3>1. CASE v # w
      BY <1>4, <2>1, <3>1 DEF DerivedInv, NoticesInv, Tells, Notice
    <3>2. CASE v = w
      BY <1>3, <1>4, <1>5, <2>1, <3>2 DEF Tells, Notice, Repeats
    <3>. QED  BY <3>1, <3>2
  <2>. QED  BY <2>1, <2>2 DEF DerivedInv, NoticesInv, ToldOnceInTurn, Notice
<1>9. ASSUME shift'[w].alone PROVE ExactSoFar(w)'
  <2>1. ExactSoFar(w)
    BY <1>5, <1>9 DEF ExactInv
  <2>2. Rebuilt(w)' = Rebuilt(w)
    BY <1>1, <1>4, <1>5 DEF Rebuilt
  <2>3. /\ \A k : Fresh(w, k)' = Fresh(w, k) /\ AnomaliesOf(MonthAt(k))' = AnomaliesOf(MonthAt(k))
        /\ \A k : Figures(k)' = Figures(k)
        /\ UNCHANGED <<subscriptions, ledger>>
    BY <1>2, <1>5, ExactFrame DEF derivedTables
  <2>4. \A v \in Workers \ {w} : ~ Busy(v)'
    BY <1>4, <2>1 DEF ExactSoFar, Busy
  <2>5. (/\ DOMAIN shift[w].stored = {MonthAt(k) : k \in 0 .. shift[w].at - 1}
         /\ \A k \in 0 .. shift[w].at - 1 : shift[w].stored[MonthAt(k)] = Figures(k))'
    BY <1>5, <2>1, <2>3 DEF ExactSoFar, MonthAt, ThisMonth
  <2>6. /\ shift'[w].found = UNION {Fresh(w, k)' : k \in Rebuilt(w)'}
        /\ shift'[w].dropped = UNION {AnomaliesOf(MonthAt(k))' : k \in Rebuilt(w)'}
    BY <1>5, <2>1, <2>2, <2>3 DEF ExactSoFar
  <2>7. /\ shift'[w].detected = {[run |-> shift'[w].run, sub |-> s] :
                                   s \in Recurring(ledger', Day)}
        /\ {s.sub : s \in subscriptions'} = Recurring(ledger', Day)
    BY <1>1, <1>5, <2>1, <2>3 DEF ExactSoFar
  <2>. QED  BY <1>4, <2>4, <2>5, <2>6, <2>7 DEF ExactSoFar
<1>. QED  BY <1>1, <1>2, <1>4, <1>5, <1>7, <1>8, <1>9, WithinKeeps

\* The rows a DELETE will remove are noted, and nothing else happens.
LEMMA BeginReplacingKeeps ==
  ASSUME DerivedInv, ExactInv, NEW w \in Workers, BeginReplacing(w)
  PROVE  DerivedInv' /\ ExactInv'
<1>1. Holds(w) /\ DOMAIN shift = Workers /\ Busy(w) /\ shift[w].stage = "detected"
  BY DEF BeginReplacing, DerivedInv, HoldsInv, RunsInv, Busy
<1>2. UNCHANGED <<ledger, derivedTables, budgets, refreshes, phrasings, role, overlaps,
                  derivedCounts>>
  BY DEF BeginReplacing
<1>3. shift' = [shift EXCEPT ![w].stage = "replacing", ![w].old = subscriptions]
  BY DEF BeginReplacing
<1>4. /\ DOMAIN shift' = Workers /\ \A v \in Workers \ {w} : shift'[v] = shift[v]
      /\ DOMAIN shift'[w] = ShiftFields /\ shift'[w].stage = "replacing"
      /\ shift'[w].old = subscriptions
      /\ \A f \in ShiftFields \ {"stage", "old"} : shift'[w][f] = shift[w][f]
  BY <1>1, <1>3 DEF Holds, IsShift, ShiftFields
<1>5. /\ shift'[w].run = shift[w].run /\ shift'[w].at = shift[w].at
      /\ shift'[w].alone = shift[w].alone /\ shift'[w].stored = shift[w].stored
      /\ shift'[w].detected = shift[w].detected /\ shift'[w].found = shift[w].found
      /\ shift'[w].dropped = shift[w].dropped /\ shift'[w].pending = shift[w].pending
      /\ shift'[w].told = shift[w].told
  BY <1>4 DEF ShiftFields
<1>6. Busy(w)'
  BY <1>4 DEF Busy
<1>7. Holds(w)'
  <2>1. IsShift(shift'[w]) /\ Window' = Window /\ UNCHANGED <<runs, ledger>>
    BY <1>1, <1>2, <1>4, <1>5 DEF Holds, IsShift, ShiftStages, Window, MonthAt, ThisMonth,
       derivedCounts
  <2>. QED  BY <1>1, <1>4, <1>5, <1>6, <2>1 DEF Holds
<1>8. NoticesInv'
  BY <1>2, <1>4, <1>5, NothingTold DEF derivedTables, derivedCounts
<1>9. ASSUME shift'[w].alone PROVE ExactSoFar(w)'
  <2>1. ExactSoFar(w)
    BY <1>5, <1>9 DEF ExactInv
  <2>2. Rebuilt(w)' = Rebuilt(w)
    BY <1>1, <1>4, <1>5 DEF Rebuilt
  <2>3. /\ \A k : Fresh(w, k)' = Fresh(w, k) /\ AnomaliesOf(MonthAt(k))' = AnomaliesOf(MonthAt(k))
        /\ \A k : Figures(k)' = Figures(k)
        /\ UNCHANGED <<subscriptions, ledger>>
    BY <1>2, <1>5, ExactFrame DEF derivedTables
  <2>4. \A v \in Workers \ {w} : ~ Busy(v)'
    BY <1>4, <2>1 DEF ExactSoFar, Busy
  <2>5. (/\ DOMAIN shift[w].stored = {MonthAt(k) : k \in 0 .. shift[w].at - 1}
         /\ \A k \in 0 .. shift[w].at - 1 : shift[w].stored[MonthAt(k)] = Figures(k))'
    BY <1>5, <2>1, <2>3 DEF ExactSoFar, MonthAt, ThisMonth
  <2>6. /\ shift'[w].found = UNION {Fresh(w, k)' : k \in Rebuilt(w)'}
        /\ shift'[w].dropped = UNION {AnomaliesOf(MonthAt(k))' : k \in Rebuilt(w)'}
    BY <1>5, <2>1, <2>2, <2>3 DEF ExactSoFar
  <2>7. /\ shift'[w].detected = {[run |-> shift'[w].run, sub |-> s] :
                                   s \in Recurring(ledger', Day)}
        /\ shift'[w].old = subscriptions' /\ shift'[w].at = 0
    BY <1>1, <1>4, <1>5, <2>1, <2>3 DEF ExactSoFar
  <2>. QED  BY <1>4, <2>4, <2>5, <2>6, <2>7 DEF ExactSoFar
<1>. QED  BY <1>1, <1>2, <1>4, <1>5, <1>7, <1>8, <1>9, WithinKeeps

\* The subscriptions are replaced by those of this refresh, and what other
\* refreshes have inserted since.
LEMMA CommitSubscriptionsKeeps ==
  ASSUME DerivedInv, ExactInv, NEW w \in Workers, CommitSubscriptions(w)
  PROVE  DerivedInv' /\ ExactInv'
<1>1. Holds(w) /\ DOMAIN shift = Workers /\ Busy(w) /\ shift[w].stage = "replacing"
  BY DEF CommitSubscriptions, DerivedInv, HoldsInv, RunsInv, Busy
<1>2. /\ UNCHANGED <<ledger, anomalies, snapshots, notices, budgets, refreshes, phrasings,
                     role, overlaps, derivedCounts>>
      /\ deaths' \in Nat
  BY DEF CommitSubscriptions, DerivedInv, RunsInv, derivedCounts
<1>3. CASE Quit(w) /\ UNCHANGED subscriptions
  <2>1. DerivedTypeOK'
    BY <1>2, <1>3, TypesStay DEF derivedCounts, derivedTables
  <2>. QED  BY <1>2, <1>3, <2>1, QuitKeeps DEF derivedCounts, derivedTables
<1>4. CASE /\ subscriptions' = (subscriptions \ shift[w].old) \cup shift[w].detected
           /\ shift' = [shift EXCEPT ![w].stage = "sweeping"]
  <2>1. /\ DOMAIN shift' = Workers /\ \A v \in Workers \ {w} : shift'[v] = shift[v]
        /\ DOMAIN shift'[w] = ShiftFields /\ shift'[w].stage = "sweeping"
        /\ \A f \in ShiftFields \ {"stage"} : shift'[w][f] = shift[w][f]
    BY <1>1, <1>4 DEF Holds, IsShift, ShiftFields
  <2>2. /\ shift'[w].run = shift[w].run /\ shift'[w].at = shift[w].at
        /\ shift'[w].alone = shift[w].alone /\ shift'[w].stored = shift[w].stored
        /\ shift'[w].detected = shift[w].detected /\ shift'[w].found = shift[w].found
        /\ shift'[w].dropped = shift[w].dropped /\ shift'[w].pending = shift[w].pending
        /\ shift'[w].told = shift[w].told
    BY <2>1 DEF ShiftFields
  <2>3. Busy(w)'
    BY <2>1 DEF Busy
  <2>4. Holds(w)'
    <3>1. IsShift(shift'[w]) /\ Window' = Window /\ UNCHANGED <<runs, ledger>>
      BY <1>1, <1>2, <2>1, <2>2 DEF Holds, IsShift, ShiftStages, Window, MonthAt,
         ThisMonth, derivedCounts
    <3>. QED  BY <1>1, <2>1, <2>2, <2>3, <3>1 DEF Holds
  <2>5. NoticesInv'
    BY <1>2, <2>1, <2>2, NothingTold DEF derivedCounts
  <2>6. DerivedTypeOK'
    <3>1. ASSUME NEW s \in subscriptions' PROVE s.run \in 1 .. runs
      BY <1>1, <1>4 DEF Holds, DerivedInv, DerivedTypeOK
    <3>. QED  BY <1>2, <3>1 DEF DerivedInv, DerivedTypeOK, derivedCounts, MonthAt, ThisMonth
  <2>7. DerivedInv'
    BY <1>1, <1>2, <2>1, <2>2, <2>4, <2>5, <2>6, OneMoves DEF derivedCounts
  <2>8. ASSUME shift'[w].alone PROVE ExactSoFar(w)'
    <3>1. ExactSoFar(w)
      BY <2>2, <2>8 DEF ExactInv
    <3>2. Rebuilt(w)' = Rebuilt(w)
      BY <1>1, <2>1, <2>2 DEF Rebuilt
    <3>3. \A k : /\ Fresh(w, k)' = Fresh(w, k) /\ Figures(k)' = Figures(k)
                 /\ AnomaliesOf(MonthAt(k))' = AnomaliesOf(MonthAt(k))
      BY <1>2, <2>2, ExactFrame
    <3>4. \A v \in Workers \ {w} : ~ Busy(v)'
      BY <2>1, <3>1 DEF ExactSoFar, Busy
    <3>5. (/\ DOMAIN shift[w].stored = {MonthAt(k) : k \in 0 .. shift[w].at - 1}
           /\ \A k \in 0 .. shift[w].at - 1 : shift[w].stored[MonthAt(k)] = Figures(k))'
      BY <1>2, <2>2, <3>1, <3>3 DEF ExactSoFar, MonthAt, ThisMonth
    <3>6. /\ shift'[w].found = UNION {Fresh(w, k)' : k \in Rebuilt(w)'}
          /\ shift'[w].dropped = UNION {AnomaliesOf(MonthAt(k))' : k \in Rebuilt(w)'}
      BY <2>2, <3>1, <3>2, <3>3 DEF ExactSoFar
    <3>7. shift'[w].detected = {[run |-> shift'[w].run, sub |-> s] :
                                  s \in Recurring(ledger', Day)}
      BY <1>2, <2>2, <3>1 DEF ExactSoFar
    <3>8. {s.sub : s \in subscriptions'} = Recurring(ledger', Day)
      <4>1. subscriptions' = shift[w].detected
        BY <1>1, <1>4, <3>1 DEF ExactSoFar
      <4>2. shift[w].detected = {[run |-> shift[w].run, sub |-> x] : x \in Recurring(ledger, Day)}
        BY <3>1 DEF ExactSoFar
      <4>4. {s.sub : s \in shift[w].detected} = Recurring(ledger, Day)
        <5>. DEFINE R == Recurring(ledger, Day)
        <5>1. shift[w].detected = {[run |-> shift[w].run, sub |-> x] : x \in R}
          BY <4>2
        <5>. HIDE DEF R
        <5>2. ASSUME NEW x \in R PROVE \E s \in shift[w].detected : s.sub = x
          <6>1. [run |-> shift[w].run, sub |-> x] \in shift[w].detected
            BY <5>1
          <6>. QED  BY <6>1
        <5>3. \A s \in shift[w].detected : s.sub \in R
          BY <5>1
        <5>4. {s.sub : s \in shift[w].detected} = R
          BY <5>2, <5>3
        <5>. QED  BY <5>4 DEF R
      <4>. QED  BY <1>2, <4>1, <4>4
    <3>. QED  BY <2>1, <3>4, <3>5, <3>6, <3>7, <3>8 DEF ExactSoFar
  <2>9. ExactInv'
    BY <1>1, <1>2, <2>1, <2>8, ExactKept
  <2>. QED  BY <2>7, <2>9
<1>. QED  BY <1>3, <1>4 DEF CommitSubscriptions

\* A refresh that begins has a new number and overlaps all that are under way;
\* it has the tenant to itself if there is none.
LEMMA TakeRefreshKeeps ==
  ASSUME DerivedInv, ExactInv, NEW w \in Workers, TakeRefresh(w)
  PROVE  DerivedInv' /\ ExactInv'
<1>. DEFINE others == {v \in Workers : shift[v].stage \in Refreshing}
            detected == {[run |-> runs + 1, sub |-> s] : s \in Recurring(ledger, Day)}
<1>1. /\ shift[w].stage = "off" /\ runs' = runs + 1 /\ runs \in Nat
      /\ UNCHANGED <<ledger, derivedTables, budgets, phrasings, role, changes, nights, deaths>>
      /\ refreshes' \in Nat
  <2>1. refreshes \in Nat /\ refreshes > 0 /\ refreshes' = refreshes - 1
    BY DEF TakeRefresh, DerivedInv, DerivedTypeOK
  <2>2. runs \in Nat
    BY DEF DerivedInv, RunsInv
  <2>3. refreshes' \in Nat
    BY <2>1
  <2>. QED  BY <2>2, <2>3 DEF TakeRefresh
<1>0. /\ overlaps' = overlaps \cup {{shift[v].run, runs + 1} : v \in others}
      /\ shift' = [v \in Workers |->
              IF v = w
              THEN [OffDuty EXCEPT !.stage = "detected", !.run = runs + 1,
                      !.alone = others = {}, !.detected = detected]
              ELSE [shift[v] EXCEPT !.alone = FALSE]]
  BY DEF TakeRefresh
<1>12. /\ DOMAIN shift' = Workers /\ overlaps \subseteq overlaps'
       /\ \A v \in Workers : Busy(v) => {shift[v].run, runs + 1} \in overlaps'
  <2>1. DOMAIN shift' = Workers
    BY <1>0
  <2>2. \A v \in Workers : Busy(v) => v \in others
    BY DEF Busy
  <2>. HIDE DEF others
  <2>. QED  BY <1>0, <2>1, <2>2
<1>2. \A v \in Workers : Holds(v)
  BY DEF DerivedInv, HoldsInv
<1>3. ASSUME NEW v \in Workers \ {w}
      PROVE  /\ DOMAIN shift'[v] = ShiftFields /\ shift'[v].alone = FALSE
             /\ \A f \in ShiftFields \ {"alone"} : shift'[v][f] = shift[v][f]
  <2>1. shift'[v] = [shift[v] EXCEPT !.alone = FALSE]
    BY <1>0
  <2>. QED  BY <1>2, <2>1 DEF Holds, IsShift, ShiftFields
<1>4. ASSUME NEW v \in Workers \ {w}
      PROVE  /\ shift'[v].stage = shift[v].stage /\ shift'[v].run = shift[v].run
             /\ shift'[v].at = shift[v].at /\ shift'[v].stored = shift[v].stored
             /\ shift'[v].detected = shift[v].detected /\ shift'[v].found = shift[v].found
             /\ shift'[v].pending = shift[v].pending /\ shift'[v].told = shift[v].told
  BY <1>3 DEF ShiftFields
<1>5. /\ DOMAIN shift'[w] = ShiftFields /\ shift'[w].stage = "detected"
      /\ shift'[w].run = runs + 1 /\ shift'[w].alone = (others = {})
      /\ shift'[w].detected = detected
      /\ shift'[w].at = 0 /\ shift'[w].found = {} /\ shift'[w].pending = {}
      /\ shift'[w].dropped = {} /\ shift'[w].told = {} /\ shift'[w].stored = <<>>
  <2>. DEFINE alone == others = {}
  <2>. HIDE DEF alone, detected
  <2>1. shift'[w] = [OffDuty EXCEPT !.stage = "detected", !.run = runs + 1,
                       !.alone = alone, !.detected = detected]
    BY <1>0 DEF alone
  <2>2. /\ DOMAIN shift'[w] = DOMAIN OffDuty
        /\ \A f \in DOMAIN OffDuty \ {"stage", "run", "alone", "detected"} :
              shift'[w][f] = OffDuty[f]
    BY <2>1
  <2>3. /\ DOMAIN OffDuty = ShiftFields /\ OffDuty.at = 0 /\ OffDuty.found = {}
        /\ OffDuty.pending = {} /\ OffDuty.dropped = {} /\ OffDuty.told = {}
        /\ OffDuty.stored = <<>>
    BY DEF OffDuty, ShiftFields
  <2>4. /\ shift'[w].stage = "detected" /\ shift'[w].run = runs + 1
        /\ shift'[w].alone = alone /\ shift'[w].detected = detected
    BY <2>1, <2>3 DEF ShiftFields
  <2>. QED  BY <2>2, <2>3, <2>4 DEF ShiftFields, alone
<1>6. Busy(w)' /\ ~ Busy(w) /\ \A v \in Workers \ {w} : Busy(v)' <=> Busy(v)
  BY <1>1, <1>4, <1>5 DEF Busy
<1>7. DerivedTypeOK'
  BY <1>1 DEF DerivedInv, DerivedTypeOK, derivedTables, MonthAt, ThisMonth
<1>8. HoldsInv'
  <2>1. ASSUME NEW v \in Workers \ {w} PROVE Holds(v)'
    <3>1. IsShift(shift'[v])
      BY <1>2, <1>3, <1>4 DEF Holds, IsShift
    <3>2. Window' = Window /\ runs' = runs + 1 /\ runs \in Nat /\ ledger' = ledger
      BY <1>1 DEF Window, MonthAt, ThisMonth
    <3>3. Holds(v) /\ ~ shift'[v].alone /\ (Busy(v)' <=> Busy(v))
      BY <1>2, <1>3, <1>6, Zenon
    <3>. QED  BY <1>4, <3>1, <3>2, <3>3 DEF Holds
  <2>2. Holds(w)'
    <3>1. IsShift(shift'[w])
      <4>1. shift'[w].alone \in BOOLEAN
        BY <1>5, Zenon
      <4>. QED  BY <1>1, <1>5, <4>1 DEF IsShift, ShiftStages
    <3>2. \A d \in detected : d.run = runs + 1
      OBVIOUS
    <3>3. runs + 1 \in 1 .. runs' /\ DOMAIN shift'[w].stored = {} /\ 0 <= SnapshotMonths
      BY <1>1, <1>5, DerivedAssumption
    <3>4. /\ shift'[w].stage \notin {"swept", "built"} /\ shift'[w].stage # "told"
          /\ shift'[w].found \cup shift'[w].pending = {}
      BY <1>5
    <3>. HIDE DEF detected
    <3>. QED  BY <1>5, <1>6, <3>1, <3>2, <3>3, <3>4 DEF Holds
  <2>. QED  BY <2>1, <2>2 DEF HoldsInv
<1>9. RunsInv'
  <2>1. \A v \in Workers \ {w} : Busy(v) =>
          shift[v].run # runs + 1 /\ {shift[v].run, runs + 1} \in overlaps'
    BY <1>1, <1>2, <1>12 DEF Holds
  <2>2. \A u, v \in Workers : u # v /\ Busy(u)' /\ Busy(v)' =>
          shift'[u].run # shift'[v].run /\ {shift'[u].run, shift'[v].run} \in overlaps'
    <3>1. ASSUME NEW u \in Workers, NEW v \in Workers, u # v, Busy(u)', Busy(v)'
          PROVE  shift'[u].run # shift'[v].run /\ {shift'[u].run, shift'[v].run} \in overlaps'
      <4>1. CASE u # w /\ v # w
        BY <1>12, <1>4, <1>6, <3>1, <4>1 DEF DerivedInv, RunsInv
      <4>2. CASE u = w
        <5>1. {shift'[u].run, shift'[v].run} = {shift[v].run, runs + 1}
          BY <1>4, <1>5, <3>1, <4>2
        <5>. QED  BY <1>4, <1>5, <1>6, <2>1, <3>1, <4>2, <5>1
      <4>3. CASE v = w
        BY <1>4, <1>5, <1>6, <2>1, <3>1, <4>3
      <4>. QED  BY <4>1, <4>2, <4>3
    <3>. QED  BY <3>1
  <2>3. /\ runs' \in Nat /\ changes' \in Nat /\ nights' \in Nat /\ deaths' \in Nat
        /\ DOMAIN shift' = Workers
    BY <1>1, <1>12 DEF DerivedInv, RunsInv
  <2>. QED  BY <2>2, <2>3 DEF RunsInv, Busy
<1>10. NoticesInv'
  <2>1. UNCHANGED notices /\ overlaps \subseteq overlaps'
          /\ \A n \in notices : n.run \in 1 .. runs'
    BY <1>1, <1>12 DEF derivedTables, DerivedInv, NoticesInv
  <2>2. ASSUME NEW v \in Workers PROVE Tells(v)'
    <3>1. CASE v # w
      BY <1>4, <2>1, <3>1 DEF DerivedInv, NoticesInv, Tells, Notice
    <3>2. CASE v = w
      BY <1>5, <3>2 DEF Tells
    <3>. QED  BY <3>1, <3>2
  <2>3. ToldOnceInTurn'
    BY <2>1 DEF DerivedInv, NoticesInv, ToldOnceInTurn
  <2>. QED  BY <2>1, <2>2, <2>3 DEF DerivedInv, NoticesInv, Notice
<1>11. ExactInv'
  <2>1. ASSUME shift'[w].alone PROVE ExactSoFar(w)'
    <3>1. \A v \in Workers \ {w} : ~ Busy(v)'
      BY <1>5, <1>6, <2>1 DEF Busy
    <3>2. Rebuilt(w)' = {}
      BY <1>5 DEF Rebuilt
    <3>3. (/\ DOMAIN shift[w].stored = {MonthAt(k) : k \in 0 .. shift[w].at - 1}
           /\ \A k \in 0 .. shift[w].at - 1 : shift[w].stored[MonthAt(k)] = Figures(k))'
      <4>1. DOMAIN shift'[w].stored = {} /\ 0 .. shift'[w].at - 1 = {}
        BY <1>5
      <4>. QED  BY <4>1
    <3>4. shift'[w].detected
             = {[run |-> shift'[w].run, sub |-> s] : s \in Recurring(ledger', Day)}
      BY <1>1, <1>5 DEF derivedTables
    <3>. QED  BY <1>5, <3>1, <3>2, <3>3, <3>4 DEF ExactSoFar
  <2>. QED  BY <1>3, <2>1 DEF ExactInv
<1>. QED  BY <1>7, <1>8, <1>9, <1>10, <1>11 DEF DerivedInv

\* A step of a worker that writes narratives, or takes up a message for them.
LEMMA WritingKeeps ==
  ASSUME DerivedInv, ExactInv, NEW w \in Workers, ~ Busy(w), DOMAIN shift' = Workers,
         \A v \in Workers \ {w} : shift'[v] = shift[v],
         UNCHANGED <<ledger, subscriptions, anomalies, notices, overlaps, runs, changes,
                     nights, deaths>>,
         IsShift(shift'[w]), shift'[w].stage \in {"off", "writing", "phrased"},
         ~ shift'[w].alone, shift'[w].detected = {}, shift'[w].found = {},
         shift'[w].pending = {}, shift'[w].told = {}, DerivedTypeOK'
  PROVE  DerivedInv' /\ ExactInv'
<1>1. ~ Busy(w)' /\ shift'[w].stage \notin {"swept", "built"} /\ shift'[w].stage # "told"
  BY DEF Busy
<1>2. Holds(w)'
  <2>1. shift'[w].found \cup shift'[w].pending = {}
    OBVIOUS
  <2>. QED  BY <1>1, <2>1 DEF Holds
<1>3. NoticesInv'
  BY NothingTold
<1>4. DerivedInv'
  <2>1. deaths' \in Nat
    BY DEF DerivedInv, RunsInv
  <2>. QED  BY <1>1, <1>2, <1>3, <2>1, OneMoves
<1>5. ExactInv'
  BY <1>1, ExactKept
<1>. QED  BY <1>4, <1>5

\* One who writes has found nothing and has nothing to tell.
LEMMA WritersHoldNothing ==
  ASSUME DerivedInv, NEW w \in Workers, shift[w].stage \in {"writing", "phrased"}
  PROVE  /\ ~ Busy(w) /\ IsShift(shift[w]) /\ ~ shift[w].alone
         /\ shift[w].detected = {} /\ shift[w].found = {} /\ shift[w].pending = {}
         /\ shift[w].told = {} /\ DOMAIN shift = Workers
<1>1. ~ Busy(w) /\ shift[w].stage # "told"
  BY DEF Busy
<1>. QED  BY <1>1 DEF DerivedInv, HoldsInv, Holds, RunsInv

\* A message for a narrative is taken up.
LEMMA TakePhrasingKeeps ==
  ASSUME DerivedInv, ExactInv, NEW w \in Workers, TakePhrasing(w)
  PROVE  DerivedInv' /\ ExactInv'
<1>1. /\ shift[w].stage = "off" /\ phrasings' = phrasings - 1 /\ phrasings > 0
      /\ shift' = [shift EXCEPT ![w] = [OffDuty EXCEPT !.stage = "writing"]]
      /\ UNCHANGED <<ledger, derivedTables, budgets, refreshes, role, overlaps, derivedCounts>>
  BY DEF TakePhrasing
<1>2. DOMAIN shift = Workers /\ ~ Busy(w) /\ phrasings \in Nat
  BY <1>1 DEF DerivedInv, RunsInv, DerivedTypeOK, Busy
<1>3. /\ DOMAIN shift' = Workers /\ \A v \in Workers \ {w} : shift'[v] = shift[v]
      /\ shift'[w] = [OffDuty EXCEPT !.stage = "writing"]
  BY <1>1, <1>2
<1>4. /\ DOMAIN shift'[w] = ShiftFields /\ shift'[w].stage = "writing" /\ shift'[w].run = 0
      /\ shift'[w].at = 0 /\ shift'[w].alone = FALSE /\ shift'[w].detected = {}
      /\ shift'[w].found = {} /\ shift'[w].pending = {} /\ shift'[w].told = {}
  BY <1>3 DEF OffDuty, ShiftFields
<1>5. IsShift(shift'[w])
  <2>1. shift'[w].alone \in BOOLEAN
    BY <1>4, Zenon
  <2>. QED  BY <1>4, <2>1 DEF IsShift, ShiftStages
<1>6. DerivedTypeOK'
  <2>1. phrasings' \in Nat
    BY <1>1, <1>2
  <2>. QED  BY <1>1, <2>1
               DEF DerivedInv, DerivedTypeOK, derivedTables, derivedCounts, MonthAt,
               ThisMonth
<1>. QED  BY <1>1, <1>2, <1>3, <1>4, <1>5, <1>6, WritingKeeps DEF derivedTables, derivedCounts

\* One who writes goes to the next month, or keeps what it writes for later.
LEMMA WriterMoves ==
  ASSUME DerivedInv, ExactInv, NEW w \in Workers, shift[w].stage \in {"writing", "phrased"},
         DOMAIN shift' = Workers, \A v \in Workers \ {w} : shift'[v] = shift[v],
         DOMAIN shift'[w] = ShiftFields, shift'[w].stage \in {"writing", "phrased"},
         shift'[w].at \in Nat,
         \A f \in ShiftFields \ {"stage", "at", "stored", "figures"} : shift'[w][f] = shift[w][f],
         UNCHANGED <<ledger, derivedTables, budgets, refreshes, phrasings, role, overlaps,
                     derivedCounts>>
  PROVE  DerivedInv' /\ ExactInv'
<1>1. /\ ~ Busy(w) /\ IsShift(shift[w]) /\ ~ shift[w].alone
      /\ shift[w].detected = {} /\ shift[w].found = {} /\ shift[w].pending = {}
      /\ shift[w].told = {} /\ DOMAIN shift = Workers
  BY WritersHoldNothing
<1>2. /\ shift'[w].run = shift[w].run /\ shift'[w].alone = shift[w].alone
      /\ shift'[w].detected = {} /\ shift'[w].found = {} /\ shift'[w].pending = {}
      /\ shift'[w].told = {}
  BY <1>1 DEF ShiftFields
<1>3. IsShift(shift'[w])
  BY <1>1, <1>2 DEF IsShift, ShiftStages
<1>4. DerivedTypeOK'
  BY TypesStay DEF derivedCounts
<1>. QED  BY <1>1, <1>2, <1>3, <1>4, WritingKeeps DEF derivedTables, derivedCounts

\* The prose of a month is written, or there is none.
LEMMA PhraseKeeps ==
  ASSUME DerivedInv, ExactInv, NEW w \in Workers, Phrase(w)
  PROVE  DerivedInv' /\ ExactInv'
<1>1. /\ shift[w].stage = "writing"
      /\ UNCHANGED <<ledger, derivedTables, budgets, refreshes, phrasings, role, overlaps,
                     derivedCounts>>
  BY DEF Phrase
<1>2. IsShift(shift[w]) /\ DOMAIN shift = Workers
  BY <1>1, WritersHoldNothing
<1>3. PICK figures : \/ shift' = [shift EXCEPT ![w].at = @ + 1]
                     \/ shift' = [shift EXCEPT ![w].stage = "phrased", ![w].figures = figures]
  BY DEF Phrase
<1>4. /\ DOMAIN shift' = Workers /\ \A v \in Workers \ {w} : shift'[v] = shift[v]
      /\ DOMAIN shift'[w] = ShiftFields /\ shift'[w].stage \in {"writing", "phrased"}
      /\ shift'[w].at \in Nat
      /\ \A f \in ShiftFields \ {"stage", "at", "stored", "figures"} :
            shift'[w][f] = shift[w][f]
  <2>1. CASE shift' = [shift EXCEPT ![w].at = @ + 1]
    BY <1>1, <1>2, <2>1 DEF IsShift, ShiftFields
  <2>2. CASE shift' = [shift EXCEPT ![w].stage = "phrased", ![w].figures = figures]
    BY <1>1, <1>2, <2>2 DEF IsShift, ShiftFields
  <2>. QED  BY <1>3, <2>1, <2>2
<1>. QED  BY <1>1, <1>4, WriterMoves

\* The prose of a month is stored.
LEMMA StoreNarrativeKeeps ==
  ASSUME DerivedInv, ExactInv, NEW w \in Workers, StoreNarrative(w)
  PROVE  DerivedInv' /\ ExactInv'
<1>1. /\ shift[w].stage = "phrased"
      /\ UNCHANGED <<ledger, derivedTables, budgets, refreshes, phrasings, role, overlaps,
                     derivedCounts>>
  BY DEF StoreNarrative
<1>2. IsShift(shift[w]) /\ DOMAIN shift = Workers
  BY <1>1, WritersHoldNothing
<1>3. PICK stored : shift' = [shift EXCEPT ![w].stage = "writing", ![w].at = @ + 1,
                                           ![w].stored = stored, ![w].figures = {}]
  BY <1>2 DEF StoreNarrative, IsShift, ShiftFields
<1>4. /\ DOMAIN shift' = Workers /\ \A v \in Workers \ {w} : shift'[v] = shift[v]
      /\ DOMAIN shift'[w] = ShiftFields /\ shift'[w].stage = "writing"
      /\ shift'[w].at \in Nat
      /\ \A f \in ShiftFields \ {"stage", "at", "stored", "figures"} :
            shift'[w][f] = shift[w][f]
  BY <1>2, <1>3 DEF IsShift, ShiftFields
<1>. QED  BY <1>1, <1>4, WriterMoves

\* The narratives commit: no month comes or goes.
LEMMA CommitNarrativesKeeps ==
  ASSUME DerivedInv, ExactInv, NEW w \in Workers, CommitNarratives(w)
  PROVE  DerivedInv' /\ ExactInv'
<1>1. /\ shift[w].stage = "writing" /\ Quit(w) /\ DOMAIN snapshots' = DOMAIN snapshots
      /\ UNCHANGED <<ledger, subscriptions, anomalies, notices, budgets, refreshes, phrasings,
                     role, overlaps, derivedCounts>>
  BY DEF CommitNarratives
<1>2. /\ DOMAIN shift' = Workers /\ \A v \in Workers \ {w} : shift'[v] = shift[v]
      /\ shift'[w] = OffDuty /\ ~ Busy(w)' /\ Holds(w)' /\ shift'[w].told = {}
      /\ ~ shift'[w].alone
  BY <1>1, QuitLeaves
<1>3. ~ Busy(w)
  BY <1>1, WritersHoldNothing
<1>4. DerivedTypeOK'
  BY <1>1 DEF DerivedInv, DerivedTypeOK, derivedCounts, MonthAt, ThisMonth
<1>5. IsShift(shift'[w])
  BY <1>2 DEF Holds
<1>6. /\ shift'[w].stage = "off" /\ shift'[w].detected = {} /\ shift'[w].found = {}
      /\ shift'[w].pending = {}
  BY <1>2 DEF OffDuty
<1>. QED  BY <1>1, <1>2, <1>3, <1>4, <1>5, <1>6, WritingKeeps DEF derivedCounts

\* A worker is lost with its transaction.
LEMMA DieKeeps ==
  ASSUME DerivedInv, ExactInv, NEW w \in Workers, Die(w)
  PROVE  DerivedInv' /\ ExactInv'
<1>1. /\ Quit(w) /\ deaths' = deaths + 1
      /\ UNCHANGED <<ledger, derivedTables, budgets, role, overlaps, runs, changes, nights>>
  BY DEF Die
<1>2. refreshes' \in Nat /\ phrasings' \in Nat /\ deaths' \in Nat
  <2>1. refreshes \in Nat /\ phrasings \in Nat /\ deaths \in Nat
    BY DEF DerivedInv, DerivedTypeOK, RunsInv
  <2>. QED  BY <1>1, <2>1 DEF Die
<1>3. DerivedTypeOK'
  BY <1>1, <1>2 DEF DerivedInv, DerivedTypeOK, derivedTables, MonthAt, ThisMonth
<1>. QED  BY <1>1, <1>2, <1>3, QuitKeeps

\* A refresh commits: what it told joins the notices, one of each; those who are
\* about to tell the same were under way together with it.
LEMMA CommitRefreshKeeps ==
  ASSUME DerivedInv, ExactInv, NEW w \in Workers, CommitRefresh(w)
  PROVE  DerivedInv' /\ ExactInv'
<1>1. /\ shift[w].stage = "told" /\ Quit(w) /\ Busy(w)
      /\ anomalies' = (anomalies \ shift[w].dropped) \cup shift[w].found
      /\ notices' = notices \cup shift[w].told
      /\ UNCHANGED <<ledger, subscriptions, budgets, refreshes, phrasings, role, overlaps,
                     derivedCounts>>
      /\ DOMAIN snapshots' = DOMAIN snapshots \cup DOMAIN shift[w].stored
  BY DEF CommitRefresh, Busy
<1>2. /\ DOMAIN shift' = Workers /\ \A v \in Workers \ {w} : shift'[v] = shift[v]
      /\ shift'[w] = OffDuty /\ ~ Busy(w)' /\ Holds(w)' /\ shift'[w].told = {}
      /\ ~ shift'[w].alone
  BY <1>1, QuitLeaves
<1>3. Holds(w)
  BY DEF DerivedInv, HoldsInv
<1>4. DerivedTypeOK'
  <2>1. \A a \in anomalies' : a.run \in 1 .. runs' /\ a.finding.about \subseteq DOMAIN ledger'
    BY <1>1, <1>3 DEF Holds, DerivedInv, DerivedTypeOK, derivedCounts
  <2>2. DOMAIN snapshots' \subseteq Window
    BY <1>1, <1>3 DEF Holds, DerivedInv, DerivedTypeOK, Window
  <2>. QED  BY <1>1, <2>1, <2>2
            DEF DerivedInv, DerivedTypeOK, derivedCounts, Window, MonthAt, ThisMonth
<1>5. \A n \in shift[w].told : Notice(n, shift[w].run) /\ n.run = shift[w].run
  BY DEF DerivedInv, NoticesInv, Tells, Notice
<1>6. NoticesInv'
  <2>1. ToldOnceInTurn'
    <3>1. ASSUME NEW n \in notices', NEW o \in notices', n.kind = "budget_breach",
                 o.kind = n.kind, n.resource = o.resource, n # o
          PROVE  {n.run, o.run} \in overlaps'
      <4>1. CASE n \in notices /\ o \in notices
        BY <1>1, <3>1, <4>1 DEF DerivedInv, NoticesInv, ToldOnceInTurn
      <4>2. CASE n \in notices /\ o \in shift[w].told
        BY <1>1, <1>5, <3>1, <4>2 DEF DerivedInv, NoticesInv, Tells
      <4>3. CASE o \in notices /\ n \in shift[w].told
        <5>1. {o.run, n.run} \in overlaps
          BY <1>5, <3>1, <4>3 DEF DerivedInv, NoticesInv, Tells
        <5>2. {o.run, n.run} = {n.run, o.run}
          OBVIOUS
        <5>. QED  BY <1>1, <5>1, <5>2
      <4>4. CASE n \in shift[w].told /\ o \in shift[w].told
        BY <1>5, <3>1, <4>4 DEF Notice
      <4>. QED  BY <1>1, <4>1, <4>2, <4>3, <4>4
    <3>. QED  BY <3>1 DEF ToldOnceInTurn
  <2>2. ASSUME NEW n \in notices' PROVE n.run \in 1 .. runs' /\ Notice(n, n.run)
    BY <1>1, <1>3, <1>5 DEF DerivedInv, NoticesInv, Holds, derivedCounts
  <2>3. ASSUME NEW v \in Workers \ {w} PROVE Tells(v)'
    <3>1. ASSUME NEW n \in shift[v].told
          PROVE  /\ Notice(n, shift[v].run)
                 /\ \A o \in notices' : n.kind = o.kind /\ n.resource = o.resource =>
                      {o.run, shift[v].run} \in overlaps
      <4>1. shift[v].stage = "told"
        BY <3>1 DEF DerivedInv, HoldsInv, Holds
      <4>2. {shift[w].run, shift[v].run} \in overlaps
        BY <1>1, <4>1 DEF DerivedInv, RunsInv, Busy
      <4>. QED  BY <1>1, <1>5, <3>1, <4>2 DEF DerivedInv, NoticesInv, Tells
    <3>. QED  BY <1>1, <1>2, <3>1 DEF Tells, Notice
  <2>4. Tells(w)'
    BY <1>2 DEF Tells
  <2>. QED  BY <2>1, <2>2, <2>3, <2>4 DEF NoticesInv, Notice
<1>7. DerivedInv'
  <2>1. deaths' \in Nat
    BY <1>1 DEF DerivedInv, RunsInv, derivedCounts
  <2>. QED  BY <1>1, <1>2, <1>4, <1>6, <2>1, OneMoves DEF derivedCounts
<1>8. ExactInv'
  BY <1>1, <1>2, ExactKept
<1>. QED  BY <1>7, <1>8

\* A stuttering step keeps the invariant.
LEMMA DerivedStutters ==
  ASSUME DerivedInv, ExactInv, UNCHANGED derivedVars
  PROVE  DerivedInv' /\ ExactInv'
<1>1. /\ UNCHANGED <<ledger, derivedTables, budgets, refreshes, phrasings, shift, role,
                     overlaps, runs, changes, nights, deaths>>
  BY DEF derivedVars, derivedTables
<1>2. DerivedTypeOK' /\ changes' \in Nat /\ nights' \in Nat
  BY <1>1, TypesStay DEF DerivedInv, RunsInv
<1>. QED  BY <1>1, <1>2, ElsewhereKeeps

\* Every step keeps the invariant.
LEMMA DerivedStep ==
  ASSUME DerivedInv, ExactInv, [DerivedNext]_derivedVars
  PROVE  DerivedInv' /\ ExactInv'
<1>1. ASSUME NEW b \in DOMAIN Batches, ImportRows(b) \/ DeleteRows(b)
      PROVE  DerivedInv' /\ ExactInv'
  BY <1>1, ImportRowsKeeps, DeleteRowsKeeps
<1>2. ASSUME NEW t \in DOMAIN Recategorised, Recategorise(t) PROVE DerivedInv' /\ ExactInv'
  BY <1>2, RecategoriseKeeps
<1>3. ASSUME NEW c \in Categories,
             \/ \E amount \in BudgetAmounts :
                  CreateBudget(c, amount) \/ \E on \in BOOLEAN : UpdateBudget(c, amount, on)
             \/ RemoveBudget(c)
      PROVE  DerivedInv' /\ ExactInv'
  BY <1>3, BudgetsKeep
<1>4. ASSUME NEW w \in Workers, TakeRefresh(w) \/ BeginReplacing(w) \/ CommitSubscriptions(w)
      PROVE  DerivedInv' /\ ExactInv'
  BY <1>4, TakeRefreshKeeps, BeginReplacingKeeps, CommitSubscriptionsKeeps
<1>5. ASSUME NEW w \in Workers, Sweep(w) \/ Build(w) \/ StoreSnapshot(w)
      PROVE  DerivedInv' /\ ExactInv'
  BY <1>5, SweepKeeps, BuildKeeps, StoreSnapshotKeeps
<1>6. ASSUME NEW w \in Workers, Notify(w) \/ CommitRefresh(w)
      PROVE  DerivedInv' /\ ExactInv'
  BY <1>6, NotifyKeeps, CommitRefreshKeeps
<1>7. ASSUME NEW w \in Workers, TakePhrasing(w) \/ Phrase(w)
      PROVE  DerivedInv' /\ ExactInv'
  BY <1>7, TakePhrasingKeeps, PhraseKeeps
<1>8. ASSUME NEW w \in Workers, StoreNarrative(w) \/ CommitNarratives(w) \/ Die(w)
      PROVE  DerivedInv' /\ ExactInv'
  BY <1>8, StoreNarrativeKeeps, CommitNarrativesKeeps, DieKeeps
<1>9. CASE NightlyRefresh \/ NightlyNarratives
  BY <1>9, NightsKeep
<1>10. CASE UNCHANGED derivedVars
  BY <1>10, DerivedStutters
<1>. QED  BY <1>1, <1>2, <1>3, <1>4, <1>5, <1>6, <1>7, <1>8, <1>9, <1>10 DEF DerivedNext

\* The invariant holds at the start.
LEMMA DerivedStarts ==
  ASSUME DerivedInit
  PROVE  DerivedInv /\ ExactInv
<1>1. /\ DOMAIN shift = Workers /\ \A w \in Workers : shift[w] = OffDuty
      /\ subscriptions = {} /\ anomalies = {} /\ snapshots = <<>> /\ notices = {}
      /\ budgets = <<>> /\ refreshes = 0 /\ phrasings = 0 /\ role \in Roles
      /\ runs = 0 /\ changes = 0 /\ nights = 0 /\ deaths = 0
  BY DEF DerivedInit
<1>2. ASSUME NEW w \in Workers
      PROVE  /\ Holds(w) /\ ~ Busy(w) /\ Tells(w) /\ ~ shift[w].alone
  <2>1. /\ DOMAIN shift[w] = ShiftFields /\ shift[w].stage = "off" /\ shift[w].run = 0
        /\ shift[w].at = 0 /\ shift[w].alone = FALSE /\ shift[w].detected = {}
        /\ shift[w].found = {} /\ shift[w].pending = {} /\ shift[w].told = {}
    BY <1>1 DEF OffDuty, ShiftFields
  <2>2. shift[w].alone \in BOOLEAN
    BY <2>1, Zenon
  <2>3. IsShift(shift[w]) /\ ~ Busy(w)
    BY <2>1, <2>2 DEF IsShift, ShiftStages, Busy
  <2>4. shift[w].stage \notin {"swept", "built"} /\ shift[w].found \cup shift[w].pending = {}
    BY <2>1
  <2>. QED  BY <2>1, <2>3, <2>4 DEF Holds, Tells
<1>3. DerivedTypeOK
  <2>1. DOMAIN snapshots = {} /\ DOMAIN budgets = {}
    BY <1>1
  <2>. QED  BY <1>1, <2>1 DEF DerivedTypeOK
<1>4. HoldsInv /\ RunsInv /\ NoticesInv /\ ExactInv
  BY <1>1, <1>2 DEF HoldsInv, RunsInv, NoticesInv, ExactInv, ToldOnceInTurn
<1>. QED  BY <1>3, <1>4 DEF DerivedInv

\* The invariant holds of every behaviour.
LEMMA DerivedInvariant == DerivedSpec => [](DerivedInv /\ ExactInv)
<1>1. DerivedInit => DerivedInv /\ ExactInv
  BY DerivedStarts
<1>2. DerivedInv /\ ExactInv /\ [DerivedNext]_derivedVars => (DerivedInv /\ ExactInv)'
  BY DerivedStep
<1>. QED  BY <1>1, <1>2, PTL DEF DerivedSpec

\* The derived tables keep their types: no deletion leaves an anomaly about a
\* transaction that is gone, and no refresh inserts one too late.
THEOREM DerivedTypeCorrect == DerivedSpec => []DerivedTypeOK
BY DerivedInvariant, PTL DEF DerivedInv

\* A breach is told once in a month, but by refreshes under way together.
THEOREM BreachesToldOnce == DerivedSpec => []ToldOnceInTurn
BY DerivedInvariant, PTL DEF DerivedInv, NoticesInv

-----------------------------------------------------------------------------
(* A refresh that had the tenant to itself                                 *)

\* The values of a function on a finite set are finitely many.
LEMMA ValuesAreFinite ==
  ASSUME NEW T, IsFiniteSet(T), NEW f, NEW R, \A r \in R : \E t \in T : r = f[t]
  PROVE  IsFiniteSet(R)
<1>. DEFINE image == {f[t] : t \in T}
            g == [t \in T |-> f[t]]
<1>1. g \in Surjection(T, image)
  BY DEF Surjection
<1>2. IsFiniteSet(image)
  BY <1>1, FS_Surjection
<1>3. R \subseteq image
  OBVIOUS
<1>. QED  BY <1>2, <1>3, FS_Subset

\* The detectors find finitely much in a finite ledger.
LEMMA FindingsAreFinite ==
  ASSUME NEW L, IsFiniteSet(DOMAIN L), NEW m
  PROVE  IsFiniteSet(Findings(L, m))
<1>. DEFINE T == Spending(L, Of(L, m))
<1>0. T \subseteq DOMAIN L /\ IsFiniteSet(Categories)
  BY InsightsAssumption DEF Spending, Of, Between
<1>. HIDE DEF T
<1>1. IsFiniteSet(AmountOutliers(L, m))
  <2>1. PICK f : \A r \in AmountOutliers(L, m) : \E t \in DOMAIN L : r = f[t]
    <3>. DEFINE Prior(c) == AmountsOf(L, LatestRows(L,
                             {t \in Spending(L, DOMAIN L) :
                                L[t].category = c /\ L[t].day < FirstDay[m]}))
                f == [t \in DOMAIN L |->
                        Finding("amount_outlier", {t}, L[t].category, {}, L[t].amount,
                                RoundDiv(Median2(Prior(L[t].category)), 2))]
    <3>1. \A r \in AmountOutliers(L, m) : \E t \in DOMAIN L : r = f[t]
      BY <1>0 DEF AmountOutliers, T
    <3>. QED  BY <3>1
  <2>. QED  BY <2>1, ValuesAreFinite
<1>2. IsFiniteSet(CategorySpikes(L, m))
  <2>1. PICK f : \A r \in CategorySpikes(L, m) : \E c \in Categories : r = f[c]
    <3>. DEFINE Now(c) == {t \in Spending(L, Of(L, m)) : L[t].category = c}
                Before(c) == {t \in Spending(L, Between(L,
                                FirstDay[Larger(0, m - BaselineMonths)], FirstDay[m] - 1)) :
                                  L[t].category = c}
                Months(c) == Cardinality({MonthOf[L[t].day] : t \in Before(c)})
                Average(c) == RoundDiv(Total(L, Before(c)), Months(c))
                f == [c \in Categories |->
                        Finding("category_spike", {}, c, {}, Total(L, Now(c)), Average(c))]
    <3>1. \A r \in CategorySpikes(L, m) : \E c \in Categories : r = f[c]
      BY DEF CategorySpikes
    <3>. QED  BY <3>1
  <2>. QED  BY <1>0, <2>1, ValuesAreFinite
<1>3. IsFiniteSet(DuplicateCharges(L, m))
  <2>1. IsFiniteSet((DOMAIN L) \X (DOMAIN L))
    BY FS_Product
  <2>2. PICK f : \A r \in DuplicateCharges(L, m) : \E p \in (DOMAIN L) \X (DOMAIN L) : r = f[p]
    <3>. DEFINE f == [p \in (DOMAIN L) \X (DOMAIN L) |->
                        Finding("duplicate_proximity", {p[2]}, L[p[1]].merchant, {p[1]},
                                L[p[1]].amount, 0)]
    <3>1. \A r \in DuplicateCharges(L, m) : \E p \in (DOMAIN L) \X (DOMAIN L) : r = f[p]
      BY <1>0 DEF DuplicateCharges, T
    <3>. QED  BY <3>1
  <2>. QED  BY <2>1, <2>2, ValuesAreFinite
<1>4. IsFiniteSet(FirstSeenLarge(L, m))
  <2>1. PICK f : \A r \in FirstSeenLarge(L, m) : \E t \in DOMAIN L : r = f[t]
    <3>. DEFINE Past == {t \in Spending(L, DOMAIN L) : L[t].day < LastDay(m)}
                median == RoundDiv(Median2(AmountsOf(L, Past)), 2)
                f == [t \in DOMAIN L |->
                        Finding("merchant_first_large", {t}, L[t].merchant, {}, L[t].amount,
                                median)]
    <3>1. \A r \in FirstSeenLarge(L, m) : \E t \in DOMAIN L : r = f[t]
      BY <1>0 DEF FirstSeenLarge, T
    <3>. QED  BY <3>1
  <2>. QED  BY <2>1, ValuesAreFinite
<1>. QED  BY <1>1, <1>2, <1>3, <1>4, FS_Union DEF Findings

\* A finite ledger of transactions in the calendar.
SoundLedger(L) ==
    IsFiniteSet(DOMAIN L) /\ \A t \in DOMAIN L : IsTransaction(L[t])

\* The ledger stays one.
LEMMA LedgerSound ==
  ASSUME SoundLedger(ledger), [DerivedNext]_derivedVars
  PROVE  SoundLedger(ledger')
<1>1. ASSUME NEW b \in DOMAIN Batches, ImportRows(b) PROVE SoundLedger(ledger')
  <2>1. ledger' = [t \in DOMAIN ledger \cup DOMAIN Batches[b] |->
                     IF t \in DOMAIN ledger THEN ledger[t] ELSE Batches[b][t]]
    BY <1>1 DEF ImportRows, LedgerBecomes
  <2>2. IsFiniteSet(DOMAIN Batches[b])
        /\ \A t \in DOMAIN Batches[b] : IsTransaction(Batches[b][t])
    BY DerivedAssumption
  <2>3. IsFiniteSet(DOMAIN ledger \cup DOMAIN Batches[b])
    BY <2>2, FS_Union DEF SoundLedger
  <2>4. DOMAIN ledger' = DOMAIN ledger \cup DOMAIN Batches[b]
    BY <2>1
  <2>5. ASSUME NEW t \in DOMAIN ledger' PROVE IsTransaction(ledger'[t])
    <3>1. ledger'[t] = IF t \in DOMAIN ledger THEN ledger[t] ELSE Batches[b][t]
      BY <2>1, <2>4
    <3>. QED  BY <2>2, <2>4, <3>1 DEF SoundLedger
  <2>. QED  BY <2>3, <2>4, <2>5 DEF SoundLedger
<1>2. ASSUME NEW b \in DOMAIN Batches, DeleteRows(b) PROVE SoundLedger(ledger')
  <2>1. ledger' = [t \in DOMAIN ledger \ DOMAIN Batches[b] |-> ledger[t]]
    BY <1>2 DEF DeleteRows, LedgerBecomes
  <2>2. IsFiniteSet(DOMAIN ledger \ DOMAIN Batches[b])
    BY FS_Subset DEF SoundLedger
  <2>. QED  BY <2>1, <2>2 DEF SoundLedger
<1>3. ASSUME NEW t \in DOMAIN Recategorised, Recategorise(t) PROVE SoundLedger(ledger')
  <2>1. t \in DOMAIN ledger /\ ledger' = [ledger EXCEPT ![t].category = Recategorised[t]]
    BY <1>3 DEF Recategorise, LedgerBecomes
  <2>2. DOMAIN ledger' = DOMAIN ledger /\ \A u \in DOMAIN ledger \ {t} : ledger'[u] = ledger[u]
    BY <2>1
  <2>3. IsTransaction(ledger'[t])
    <3>. DEFINE r == ledger[t]
                s == ledger'[t]
    <3>1. IsTransaction(r) /\ Recategorised[t] \in Categories
      BY <2>1, DerivedAssumption DEF SoundLedger
    <3>2. s = [r EXCEPT !.category = Recategorised[t]]
      BY <2>1
    <3>. HIDE DEF r, s
    <3>3. /\ s = [f \in DOMAIN r |-> IF f = "category" THEN Recategorised[t] ELSE r[f]]
          /\ {"day", "category", "amount"} \subseteq DOMAIN r
      BY <3>1, <3>2 DEF IsTransaction
    <3>4. /\ s.day = r.day /\ s.amount = r.amount /\ s.category = Recategorised[t]
          /\ DOMAIN s = DOMAIN r /\ s = [f \in DOMAIN s |-> s[f]]
      BY <3>3
    <3>5. IsTransaction(s)
      BY <3>1, <3>3, <3>4 DEF IsTransaction
    <3>. QED  BY <3>5 DEF s
  <2>. QED  BY <2>2, <2>3 DEF SoundLedger
<1>4. ASSUME NEW c \in Categories,
             \/ \E amount \in BudgetAmounts :
                  CreateBudget(c, amount) \/ \E on \in BOOLEAN : UpdateBudget(c, amount, on)
             \/ RemoveBudget(c)
      PROVE  ledger' = ledger
  BY <1>4, BudgetsAreApart DEF BudgetChange
<1>5. ASSUME NEW w \in Workers, \/ TakeRefresh(w) \/ BeginReplacing(w) \/ CommitSubscriptions(w)
                                \/ Sweep(w) \/ Build(w) \/ StoreSnapshot(w)
      PROVE  ledger' = ledger
  BY <1>5 DEF TakeRefresh, BeginReplacing, CommitSubscriptions, Sweep, Build, StoreSnapshot
<1>6. ASSUME NEW w \in Workers, \/ Notify(w) \/ CommitRefresh(w) \/ TakePhrasing(w)
                                \/ Phrase(w) \/ StoreNarrative(w) \/ CommitNarratives(w)
                                \/ Die(w)
      PROVE  ledger' = ledger
  BY <1>6
     DEF Notify, CommitRefresh, TakePhrasing, Phrase, StoreNarrative, CommitNarratives, Die
<1>7. CASE NightlyRefresh \/ NightlyNarratives \/ UNCHANGED derivedVars
  BY <1>7 DEF NightlyRefresh, NightlyNarratives, derivedVars
<1>. QED  BY <1>1, <1>2, <1>3, <1>4, <1>5, <1>6, <1>7 DEF DerivedNext

\* What one refresh says of the k-th month, and nothing else does.
LEMMA FreshIsExact ==
  ASSUME NEW w, NEW k, NEW R, R = Fresh(w, k), SoundLedger(ledger)
  PROVE  /\ {a.finding : a \in R} = Findings(ledger, MonthAt(k))
         /\ Cardinality(R) = Cardinality(Findings(ledger, MonthAt(k)))
<1>. DEFINE F == Findings(ledger, MonthAt(k))
            run == shift[w].run
            m == MonthAt(k)
<1>1. IsFiniteSet(F)
  BY FindingsAreFinite DEF SoundLedger
<1>2. R = {[run |-> run, month |-> m, finding |-> f] : f \in F}
  BY DEF Fresh
<1>. HIDE DEF F, run, m
<1>3. {a.finding : a \in R} = F
  <2>1. ASSUME NEW f \in F PROVE \E a \in R : a.finding = f
    <3>1. [run |-> run, month |-> m, finding |-> f] \in R
      BY <1>2
    <3>. QED  BY <3>1
  <2>2. \A a \in R : a.finding \in F
    BY <1>2
  <2>. QED  BY <2>1, <2>2
<1>4. Cardinality(R) = Cardinality(F)
  <2>. DEFINE row == [f \in F |-> [run |-> run, month |-> m, finding |-> f]]
  <2>1. row \in [F -> R]
    BY <1>2
  <2>2. ASSUME NEW f \in F, NEW g \in F, row[f] = row[g] PROVE f = g
    <3>1. row[f].finding = f /\ row[g].finding = g
      OBVIOUS
    <3>. QED  BY <2>2, <3>1
  <2>3. \A r \in R : \E f \in F : row[f] = r
    BY <1>2
  <2>4. row \in Bijection(F, R)
    BY <2>1, <2>2, <2>3 DEF Bijection, Injection, Surjection, IsInjective
  <2>5. ExistsBijection(F, R)
    BY <2>4 DEF ExistsBijection
  <2>. QED  BY <1>1, <2>5, FS_Bijection
<1>. QED  BY <1>3, <1>4 DEF F, m

\* Once a refresh that had the tenant to itself commits, the month of a window
\* has the rows it found.
LEMMA CommittedIsFresh ==
  ASSUME DerivedInv, ExactInv, NEW w \in Workers, shift[w].alone, CommitRefresh(w),
         NEW k \in 0 .. SnapshotMonths - 1
  PROVE  /\ {b \in anomalies' : b.month = MonthAt(k)} = Fresh(w, k)
         /\ snapshots'[MonthAt(k)].figures = Figures(k)
<1>1. /\ shift[w].stage = "told" /\ ExactSoFar(w) /\ shift[w].at = SnapshotMonths
  BY DEF CommitRefresh, ExactInv, DerivedInv, HoldsInv, Holds
<1>2. anomalies' = (anomalies \ shift[w].dropped) \cup shift[w].found
  BY DEF CommitRefresh
<1>3. Rebuilt(w) = 0 .. SnapshotMonths - 1
  BY <1>1, DerivedAssumption DEF Rebuilt
<1>4. /\ shift[w].found = UNION {Fresh(w, j) : j \in 0 .. SnapshotMonths - 1}
      /\ shift[w].dropped = UNION {AnomaliesOf(MonthAt(j)) : j \in 0 .. SnapshotMonths - 1}
      /\ DOMAIN shift[w].stored = {MonthAt(j) : j \in 0 .. SnapshotMonths - 1}
      /\ \A j \in 0 .. SnapshotMonths - 1 : shift[w].stored[MonthAt(j)] = Figures(j)
  BY <1>1, <1>3 DEF ExactSoFar
<1>5. ASSUME NEW j \in 0 .. SnapshotMonths - 1, NEW b \in Fresh(w, j) PROVE b.month = MonthAt(j)
  BY <1>5 DEF Fresh
<1>6. ASSUME NEW b \in anomalies', b.month = MonthAt(k) PROVE b \in Fresh(w, k)
  <2>1. b \notin anomalies \ shift[w].dropped
    BY <1>4, <1>6 DEF AnomaliesOf
  <2>2. PICK j \in 0 .. SnapshotMonths - 1 : b \in Fresh(w, j)
    BY <1>2, <1>4, <2>1
  <2>3. MonthAt(j) = MonthAt(k) /\ j \in Nat /\ k \in Nat
    BY <1>5, <1>6, <2>2
  <2>4. j = k
    BY <2>3, MonthsDiffer
  <2>. QED  BY <2>2, <2>4
<1>7. Fresh(w, k) \subseteq {b \in anomalies' : b.month = MonthAt(k)}
  BY <1>2, <1>4, <1>5
<1>8. snapshots'[MonthAt(k)].figures = Figures(k)
  <2>1. MonthAt(k) \in DOMAIN shift[w].stored
    BY <1>4
  <2>2. snapshots'[MonthAt(k)] = [figures |-> shift[w].stored[MonthAt(k)],
                                  narrative |-> Narrative(MonthAt(k))]
    BY <2>1 DEF CommitRefresh
  <2>. QED  BY <1>4, <2>2
<1>. QED  BY <1>6, <1>7, <1>8

\* Only a commit ends a refresh that has told, unless its worker is lost.
LEMMA OnlyCommitsEnd ==
  ASSUME DerivedInv, NEW w \in Workers, [DerivedNext]_derivedVars, shift[w].stage = "told",
         shift'[w].stage = "off", deaths' = deaths
  PROVE  CommitRefresh(w)
<1>0. DOMAIN shift = Workers /\ deaths \in Nat /\ IsShift(shift[w])
  BY DEF DerivedInv, RunsInv, HoldsInv, Holds
<1>1. ASSUME NEW L, LedgerBecomes(L) PROVE FALSE
  <2>1. shift'[w] = [shift[w] EXCEPT !.alone = FALSE]
    BY <1>1 DEF LedgerBecomes
  <2>2. shift'[w].stage = shift[w].stage
    BY <1>0, <2>1 DEF IsShift, ShiftFields
  <2>. QED  BY <2>2
<1>2. ASSUME NEW v \in Workers, \/ TakeRefresh(v) \/ TakePhrasing(v)
                                \/ BeginReplacing(v)
                                \/ CommitSubscriptions(v) \/ Sweep(v) \/ Build(v)
                                \/ StoreSnapshot(v) \/ Notify(v)
                                \/ Phrase(v) \/ StoreNarrative(v) \/ CommitNarratives(v)
      PROVE  FALSE
  <2>1. shift[v].stage # "told"
    BY <1>2 DEF TakeRefresh, TakePhrasing, BeginReplacing, CommitSubscriptions, Sweep,
       Build, StoreSnapshot, Notify, Phrase, StoreNarrative, CommitNarratives
  <2>2. CASE TakeRefresh(v)
    <3>1. shift'[w] = [shift[w] EXCEPT !.alone = FALSE]
      BY <2>1, <2>2 DEF TakeRefresh
    <3>2. shift'[w].stage = shift[w].stage
      BY <1>0, <3>1 DEF IsShift, ShiftFields
    <3>. QED  BY <3>2
  <2>3. CASE ~ TakeRefresh(v)
    <3>1. shift'[w] = shift[w]
      BY <1>0, <1>2, <2>1, <2>3 DEF TakePhrasing, BeginReplacing, CommitSubscriptions, Sweep, Build,
         StoreSnapshot, Notify, Phrase, StoreNarrative, CommitNarratives, Quit
    <3>. QED  BY <3>1
  <2>. QED  BY <2>2, <2>3
<1>3. ASSUME NEW v \in Workers, Die(v) PROVE FALSE
  BY <1>0, <1>3 DEF Die
<1>4. ASSUME NEW v \in Workers, CommitRefresh(v) PROVE v = w
  BY <1>0, <1>4 DEF CommitRefresh, Quit
<1>5. ASSUME NEW b \in DOMAIN Batches, ImportRows(b) \/ DeleteRows(b) PROVE FALSE
  BY <1>1, <1>5 DEF ImportRows, DeleteRows
<1>6. ASSUME NEW t \in DOMAIN Recategorised, Recategorise(t) PROVE FALSE
  BY <1>1, <1>6 DEF Recategorise
<1>7. ASSUME NEW c \in Categories,
             \/ \E amount \in BudgetAmounts :
                  CreateBudget(c, amount) \/ \E on \in BOOLEAN : UpdateBudget(c, amount, on)
             \/ RemoveBudget(c)
      PROVE  FALSE
  BY <1>7, BudgetsAreApart DEF BudgetChange
<1>8. CASE NightlyRefresh \/ NightlyNarratives \/ UNCHANGED derivedVars
  BY <1>8 DEF NightlyRefresh, NightlyNarratives, derivedVars
<1>. QED  BY <1>2, <1>3, <1>4, <1>5, <1>6, <1>7, <1>8 DEF DerivedNext

\* The ledger is always finite, and of transactions in the calendar.
LEMMA AlwaysSound == DerivedSpec => []SoundLedger(ledger)
<1>1. DerivedInit => SoundLedger(ledger)
  BY DerivedAssumption DEF DerivedInit, SoundLedger
<1>2. SoundLedger(ledger) /\ [DerivedNext]_derivedVars => SoundLedger(ledger)'
  BY LedgerSound DEF SoundLedger
<1>. QED  BY <1>1, <1>2, PTL DEF DerivedSpec

\* A refresh that had the tenant to itself, while the ledger stood still, leaves
\* what a recomputation from the ledger would: for each month its findings, each
\* once, and its report.
THEOREM RefreshLeavesTheTruth == DerivedSpec => RefreshedIsExact
<1>. DEFINE Inv == (DerivedInv /\ ExactInv) /\ SoundLedger(ledger)
<1>3. DerivedSpec => []Inv
  BY DerivedInvariant, AlwaysSound, PTL
<1>4. ASSUME Inv, [DerivedNext]_derivedVars, NEW w \in Workers, shift[w].stage = "told",
             shift'[w].stage = "off", shift[w].alone, deaths' = deaths,
             NEW k \in 0 .. SnapshotMonths - 1
      PROVE  /\ {a.finding : a \in {b \in anomalies' : b.month = MonthAt(k)}}
                  = Findings(ledger, MonthAt(k))
             /\ Cardinality({b \in anomalies' : b.month = MonthAt(k)})
                  = Cardinality(Findings(ledger, MonthAt(k)))
             /\ snapshots'[MonthAt(k)].figures
                  = {Report(ledger, Recurring(ledger, Day), MonthAt(k))}
  <2>. DEFINE R == {b \in anomalies' : b.month = MonthAt(k)}
  <2>1. CommitRefresh(w)
    BY <1>4, OnlyCommitsEnd
  <2>2. R = Fresh(w, k) /\ snapshots'[MonthAt(k)].figures = Figures(k)
    BY <1>4, <2>1, CommittedIsFresh
  <2>. HIDE DEF R
  <2>3. /\ {a.finding : a \in R} = Findings(ledger, MonthAt(k))
        /\ Cardinality(R) = Cardinality(Findings(ledger, MonthAt(k)))
    BY <1>4, <2>2, FreshIsExact
  <2>. QED  BY <2>2, <2>3 DEF R, Figures
<1>5. Inv /\ [DerivedNext]_derivedVars =>
        [\A w \in Workers :
          shift[w].stage = "told" /\ shift'[w].stage = "off" /\ shift[w].alone
            /\ deaths' = deaths
          => \A k \in 0 .. SnapshotMonths - 1 :
               /\ {a.finding : a \in {b \in anomalies' : b.month = MonthAt(k)}}
                    = Findings(ledger, MonthAt(k))
               /\ Cardinality({b \in anomalies' : b.month = MonthAt(k)})
                    = Cardinality(Findings(ledger, MonthAt(k)))
               /\ snapshots'[MonthAt(k)].figures
                    = {Report(ledger, Recurring(ledger, Day), MonthAt(k))}]_derivedVars
  <2>. HIDE DEF Inv
  <2>. QED  BY <1>4
<1>. QED  BY <1>3, <1>5, PTL DEF DerivedSpec, RefreshedIsExact

-----------------------------------------------------------------------------
(* The calendar                                                            *)

\* A month has days.
LEMMA MonthsHaveDays == \A m \in 0 .. Horizon : DaysIn(m) \in Nat /\ DaysIn(m) > 0
<1>. SUFFICES ASSUME NEW m \in 0 .. Horizon PROVE DaysIn(m) \in Nat /\ DaysIn(m) > 0
  OBVIOUS
<1>. DEFINE n == m % 12
<1>1. n \in 0 .. 11
  BY InsightsAssumption
<1>. HIDE DEF n
<1>2. MonthLengths[n + 1] \in Nat /\ MonthLengths[n + 1] > 0
  BY <1>1 DEF MonthLengths
<1>3. DaysIn(m) = MonthLengths[n + 1] \/ DaysIn(m) = MonthLengths[n + 1] + 1
  <2>1. DaysIn(m) = MonthLengths[n + 1]
                      + IF n = 1 /\ Leap(EpochYear + m \div 12) THEN 1 ELSE 0
    BY DEF DaysIn, n
  <2>. QED  BY <1>2, <2>1
<1>. QED  BY <1>2, <1>3

\* A month begins when the one before it ends, and none ends before it begins.
LEMMA MonthsFollow ==
  /\ FirstDay[0] = 0
  /\ \A m \in 0 .. Horizon + 1 : FirstDay[m] \in Nat
  /\ \A m \in 0 .. Horizon : FirstDay[m + 1] = FirstDay[m] + DaysIn(m)
                              /\ LastDay(m) = FirstDay[m + 1] - 1
  /\ \A m, n \in 0 .. Horizon + 1 : m <= n => FirstDay[m] <= FirstDay[n]
<1>. DEFINE days == [m \in 0 .. Horizon |-> DaysIn(m)]
            Upto(m) == 0 .. m - 1
            sum(m) == SumFunctionOnSet(days, Upto(m))
<1>0. Horizon \in Nat
  BY InsightsAssumption
<1>1. Weights(days, 0 .. Horizon)
  BY MonthsHaveDays DEF Weights
<1>2. ASSUME NEW m \in 0 .. Horizon + 1
      PROVE  /\ m \in Nat /\ IsFiniteSet(Upto(m)) /\ Upto(m) \subseteq 0 .. Horizon
             /\ Weights(days, Upto(m)) /\ sum(m) \in Nat /\ FirstDay[m] = sum(m)
  <2>1. m \in Nat /\ IsFiniteSet(Upto(m))
    BY <1>0, FS_Interval
  <2>2. Upto(m) \subseteq 0 .. Horizon
    BY <1>0
  <2>3. Weights(days, Upto(m))
    BY <1>1, <2>2 DEF Weights
  <2>. DEFINE some == [n \in Upto(m) |-> DaysIn(n)]
  <2>4. FirstDay[m] = SumFunctionOnSet(some, Upto(m))
    BY DEF FirstDay, SumFunction
  <2>5. \A n \in Upto(m) : days[n] = some[n]
    BY <2>2
  <2>. HIDE DEF some, days, Upto
  <2>6. SumFunctionOnSet(days, Upto(m)) = SumFunctionOnSet(some, Upto(m))
    BY <2>1, <2>3, <2>5, SumAgrees
  <2>7. SumFunctionOnSet(days, Upto(m)) \in Nat
    BY <2>1, <2>3, SumIsNat
  <2>. QED  BY <2>1, <2>2, <2>3, <2>4, <2>6, <2>7
<1>3. FirstDay[0] = 0
  <2>1. Upto(0) = {} /\ 0 \in 0 .. Horizon + 1
    BY <1>0
  <2>. HIDE DEF days, Upto
  <2>2. SumFunctionOnSet(days, {}) = 0
    BY FS_EmptySet, SumOfZeros
  <2>. QED  BY <1>2, <2>1, <2>2
<1>4. ASSUME NEW m \in 0 .. Horizon PROVE FirstDay[m + 1] = FirstDay[m] + DaysIn(m)
  <2>1. m \in 0 .. Horizon + 1 /\ m + 1 \in 0 .. Horizon + 1 /\ m \in Nat
    BY <1>0
  <2>2. m \in Upto(m + 1) /\ Upto(m + 1) \ {m} = Upto(m) /\ days[m] = DaysIn(m)
    BY <2>1
  <2>3. IsFiniteSet(Upto(m + 1)) /\ Weights(days, Upto(m + 1))
    BY <1>2, <2>1
  <2>. HIDE DEF days, Upto
  <2>4. SumFunctionOnSet(days, Upto(m + 1)) = days[m] + SumFunctionOnSet(days, Upto(m))
    BY <2>2, <2>3, SumOfOne
  <2>5. DaysIn(m) \in Nat
    BY MonthsHaveDays
  <2>6. FirstDay[m] = sum(m) /\ FirstDay[m + 1] = sum(m + 1) /\ sum(m) \in Nat
    BY <1>2, <2>1
  <2>. QED  BY <2>2, <2>4, <2>5, <2>6
<1>5. ASSUME NEW m \in 0 .. Horizon + 1, NEW n \in 0 .. Horizon + 1, m <= n
      PROVE  FirstDay[m] <= FirstDay[n]
  <2>1. Upto(m) \in SUBSET Upto(n)
    BY <1>0, <1>5
  <2>2. IsFiniteSet(Upto(n)) /\ Weights(days, Upto(n))
    BY <1>2
  <2>3. sum(m) <= sum(n)
    <3>. HIDE DEF days, Upto
    <3>. QED  BY <2>1, <2>2, SumOfMore
  <2>. QED  BY <1>2, <2>3
<1>6. \A m \in 0 .. Horizon + 1 : FirstDay[m] \in Nat
  BY <1>2
<1>7. ASSUME NEW m \in 0 .. Horizon PROVE LastDay(m) = FirstDay[m + 1] - 1
  <2>1. m \in 0 .. Horizon + 1
    BY <1>0
  <2>2. FirstDay[m] \in Nat /\ DaysIn(m) \in Nat
    BY <1>6, <2>1, MonthsHaveDays
  <2>. QED  BY <1>4, <2>2 DEF LastDay
<1>. QED  BY <1>3, <1>4, <1>5, <1>6, <1>7

InMonth(day, m) == FirstDay[m] <= day /\ day <= LastDay(m)

\* Every day of the calendar lies in one month.
LEMMA DaysHaveMonths ==
  ASSUME NEW day \in 0 .. LastDay(Horizon)
  PROVE  /\ MonthOf[day] \in 0 .. Horizon
         /\ \A m \in 0 .. Horizon : MonthOf[day] = m <=> InMonth(day, m)
<1>. DEFINE begun == {m \in 0 .. Horizon : FirstDay[m] <= day}
            last == Max(begun)
<1>0. /\ Horizon \in Nat /\ day \in Int /\ day >= 0 /\ day <= LastDay(Horizon)
      /\ \A m \in 0 .. Horizon : /\ FirstDay[m] \in Nat /\ FirstDay[m + 1] \in Nat
                                  /\ LastDay(m) = FirstDay[m + 1] - 1
  <2>1. Horizon \in Nat
    BY InsightsAssumption
  <2>2. \A m \in 0 .. Horizon : m \in 0 .. Horizon + 1 /\ m + 1 \in 0 .. Horizon + 1
    BY <2>1
  <2>3. \A m \in 0 .. Horizon : /\ FirstDay[m] \in Nat /\ FirstDay[m + 1] \in Nat
                                 /\ LastDay(m) = FirstDay[m + 1] - 1
    BY <2>2, MonthsFollow
  <2>4. LastDay(Horizon) \in Int
    BY <2>1, <2>3
  <2>. QED  BY <2>1, <2>3, <2>4
<1>1. last \in begun /\ \A m \in begun : m <= last
  <2>1. Within(begun, 0, Horizon)
    BY <1>0 DEF Within
  <2>2. 0 \in begun
    BY <1>0, MonthsFollow
  <2>. HIDE DEF begun
  <2>. QED  BY <2>1, <2>2, LargestOfSome
<1>2. last \in 0 .. Horizon /\ InMonth(day, last)
  <2>1. last \in 0 .. Horizon /\ FirstDay[last] <= day
    BY <1>1
  <2>2. CASE last = Horizon
    BY <1>0, <2>1, <2>2 DEF InMonth
  <2>3. CASE last # Horizon
    <3>1. last + 1 \in 0 .. Horizon /\ ~ (last + 1 <= last)
      BY <1>0, <2>1, <2>3
    <3>2. ~ (FirstDay[last + 1] <= day)
      BY <1>1, <3>1
    <3>. HIDE DEF last
    <3>. QED  BY <1>0, <2>1, <3>2 DEF InMonth
  <2>. QED  BY <2>2, <2>3
<1>. HIDE DEF begun, last
<1>3. ASSUME NEW m \in 0 .. Horizon, NEW n \in 0 .. Horizon, InMonth(day, m), InMonth(day, n)
      PROVE  m = n
  <2>1. ASSUME NEW u \in 0 .. Horizon, NEW v \in 0 .. Horizon,
               InMonth(day, u), InMonth(day, v)
        PROVE  ~ (u < v)
    <3>1. SUFFICES ASSUME u < v PROVE FALSE
      OBVIOUS
    <3>2. u + 1 \in 0 .. Horizon + 1 /\ v \in 0 .. Horizon + 1 /\ u + 1 <= v
      BY <1>0, <3>1
    <3>3. FirstDay[u + 1] <= FirstDay[v]
      BY <3>2, MonthsFollow
    <3>. QED  BY <1>0, <2>1, <3>3 DEF InMonth
  <2>2. ~ (m < n) /\ ~ (n < m)
    BY <1>3, <2>1
  <2>. QED  BY <1>0, <2>2
<1>4. MonthOf[day] = CHOOSE m \in 0 .. Horizon : InMonth(day, m)
  BY DEF MonthOf, InMonth
<1>5. MonthOf[day] \in 0 .. Horizon /\ InMonth(day, MonthOf[day])
  BY <1>2, <1>4
<1>. QED  BY <1>3, <1>5

-----------------------------------------------------------------------------
(* The surfaces                                                            *)

PaidIn(L) == AmountsOf(L, DOMAIN L)

\* The total of some transactions is the sum of their amounts.
LEMMA TotalIsSum ==
  ASSUME NEW L, SoundLedger(L), NEW T \in SUBSET DOMAIN L
  PROVE  /\ IsFiniteSet(T) /\ Whole(PaidIn(L), T)
         /\ Total(L, T) = SumFunctionOnSet(PaidIn(L), T) /\ Total(L, T) \in Int
<1>1. IsFiniteSet(T)
  BY FS_Subset DEF SoundLedger
<1>2. \A t \in T : PaidIn(L)[t] = L[t].amount /\ L[t].amount \in Int
                   /\ AmountsOf(L, T)[t] = L[t].amount
  BY DEF SoundLedger, IsTransaction, PaidIn, AmountsOf
<1>3. Whole(PaidIn(L), T) /\ \A t \in T : PaidIn(L)[t] = AmountsOf(L, T)[t]
  BY <1>2 DEF Whole
<1>4. Total(L, T) = SumFunctionOnSet(AmountsOf(L, T), T)
  BY DEF Total, SumFunction, AmountsOf
<1>5. SumFunctionOnSet(PaidIn(L), T) = SumFunctionOnSet(AmountsOf(L, T), T)
  BY <1>1, <1>3, IntSumAgrees
<1>. QED  BY <1>1, <1>3, <1>4, <1>5, SumIsInt

\* The totals by a key of the transactions add up to the total.
LEMMA TotalOfParts ==
  ASSUME NEW L, SoundLedger(L), NEW T \in SUBSET DOMAIN L,
         NEW K, IsFiniteSet(K), NEW key, \A t \in T : key[t] \in K,
         NEW g, DOMAIN g = K, \A k \in K : g[k] = Total(L, {t \in T : key[t] = k})
  PROVE  SumFunction(g) = Total(L, T)
<1>1. ASSUME NEW k \in K PROVE g[k] = SumFunctionOnSet(PaidIn(L), {t \in T : key[t] = k})
  <2>. DEFINE part == {t \in T : key[t] = k}
  <2>1. part \in SUBSET DOMAIN L
    OBVIOUS
  <2>2. g[k] = Total(L, part)
    OBVIOUS
  <2>. HIDE DEF part
  <2>3. g[k] = SumFunctionOnSet(PaidIn(L), part)
    BY <2>1, <2>2, TotalIsSum
  <2>. QED  BY <2>3 DEF part
<1>2. SumFunctionOnSet(g, K) = SumFunctionOnSet(PaidIn(L), T)
  BY <1>1, TotalIsSum, SumOfParts
<1>. QED  BY <1>2, TotalIsSum DEF SumFunction

\* The categories of a month sum to its expenses: each transaction is in one,
\* and there are too few for the limit to leave one out.
LEMMA CategoriesSum ==
  ASSUME NEW L, SoundLedger(L), NEW m
  PROVE  LET b == BreakdownOf(L, m)
         IN  SumFunction([c \in DOMAIN b |-> b[c].total]) = Summary(L, m).expenses
<1>. DEFINE T == Spending(L, Of(L, m))
            All == Categories \cup {None}
            In(c) == {t \in T : L[t].category = c}
            Above(c) == {d \in All : Total(L, In(d)) > Total(L, In(c))}
            Shown == {c \in All : In(c) # {} /\ Cardinality(Above(c)) < BreakdownLimit}
            b == BreakdownOf(L, m)
            g == [c \in DOMAIN b |-> b[c].total]
            key == [t \in T |-> L[t].category]
<1>1. T \in SUBSET DOMAIN L
  BY DEF Spending, Of, Between
<1>2. ASSUME NEW c \in All PROVE Cardinality(Above(c)) < BreakdownLimit
  <2>1. IsFiniteSet(All) /\ Cardinality(All) = Cardinality(Categories) + 1
    BY InsightsAssumption, FS_AddElement
  <2>2. Cardinality(Categories) < BreakdownLimit /\ Cardinality(Categories) \in Nat
    BY InsightsAssumption, FS_CardinalityType
  <2>3. c \in All /\ c \notin Above(c)
    <3>1. Total(L, In(c)) \in Int
      <4>1. In(c) \in SUBSET DOMAIN L
        BY <1>1
      <4>. HIDE DEF In
      <4>. QED  BY <4>1, TotalIsSum
    <3>. HIDE DEF In
    <3>. QED  BY <3>1
  <2>4. Above(c) \in SUBSET (All \ {c})
    BY <2>3
  <2>5. IsFiniteSet(All \ {c}) /\ Cardinality(All \ {c}) = Cardinality(All) - 1
    <3>. HIDE DEF All
    <3>. QED  BY <2>1, <2>3, FS_RemoveElement
  <2>. HIDE DEF Above, All
  <2>6. Cardinality(Above(c)) <= Cardinality(All \ {c}) /\ Cardinality(Above(c)) \in Nat
    BY <2>4, <2>5, FS_Subset, FS_CardinalityType
  <2>. QED  BY <2>1, <2>2, <2>5, <2>6 DEF BreakdownLimit
<1>3. Shown = {c \in All : In(c) # {}} /\ DOMAIN b = Shown
      /\ \A c \in Shown : b[c].total = Total(L, In(c))
  <2>. DEFINE sum == MapThenSumSet(LAMBDA c : Total(L, In(c)), Shown)
              share(c) == IF sum > 0 THEN RoundDiv(10000 * Total(L, In(c)), sum) ELSE 0
  <2>0. b = [c \in Shown |-> [total |-> Total(L, In(c)), count |-> Cardinality(In(c)),
                              share |-> share(c)]]
    BY DEF BreakdownOf, Breakdown, Of
  <2>. HIDE DEF share, Shown, In, b
  <2>1. DOMAIN b = Shown /\ \A c \in Shown : b[c].total = Total(L, In(c))
    BY <2>0
  <2>. USE DEF Shown
  <2>. HIDE DEF Above
  <2>. QED  BY <1>2, <2>1
<1>4. \A t \in T : key[t] = L[t].category /\ L[t].category \in All
  BY <1>1 DEF SoundLedger, IsTransaction
<1>. HIDE DEF Above, All
<1>5. IsFiniteSet(Shown) /\ \A t \in T : key[t] \in Shown
  <2>1. IsFiniteSet(All)
    BY InsightsAssumption, FS_AddElement DEF All
  <2>2. Shown \in SUBSET All
    OBVIOUS
  <2>3. ASSUME NEW t \in T PROVE key[t] \in Shown
    <3>1. key[t] \in All /\ t \in In(key[t])
      BY <1>4
    <3>. HIDE DEF key, In
    <3>. QED  BY <1>3, <3>1
  <2>. QED  BY <2>1, <2>2, <2>3, FS_Subset
<1>6. \A c \in Shown : In(c) = {t \in T : key[t] = c}
  BY <1>4
<1>. HIDE DEF Shown, In, key, b
<1>7. DOMAIN g = Shown /\ \A c \in Shown : g[c] = Total(L, {t \in T : key[t] = c})
  BY <1>3, <1>6
<1>. HIDE DEF g, T
<1>8. SumFunction(g) = Total(L, T)
  BY <1>1, <1>5, <1>7, TotalOfParts
<1>9. Summary(L, m).expenses = Total(L, T)
  BY DEF Summary, T
<1>. QED  BY <1>8, <1>9 DEF g, b

\* The days of a month sum to its expenses.
LEMMA DaysSum ==
  ASSUME NEW L, SoundLedger(L), NEW m \in 0 .. Horizon
  PROVE  SumFunction(DailySeries(L, m)) = Summary(L, m).expenses
<1>. DEFINE T == Spending(L, Of(L, m))
            K == FirstDay[m] .. LastDay(m)
            g == DailySeries(L, m)
            key == [t \in T |-> L[t].day]
<1>1. T \in SUBSET DOMAIN L
  BY DEF Spending, Of, Between
<1>2. \A t \in DOMAIN L : L[t].day \in Int
  BY DEF SoundLedger, IsTransaction
<1>3. IsFiniteSet(K) /\ K \subseteq Int
  <2>1. m \in 0 .. Horizon + 1 /\ m + 1 \in 0 .. Horizon + 1
    BY InsightsAssumption
  <2>2. FirstDay[m] \in Int /\ LastDay(m) \in Int
    BY <2>1, MonthsFollow
  <2>. QED  BY <2>2, FS_Interval
<1>4. \A t \in T : key[t] = L[t].day /\ key[t] \in K
  <2>1. \A t \in T : FirstDay[m] <= L[t].day /\ L[t].day <= LastDay(m)
    BY DEF Spending, Of, Between
  <2>. QED  BY <1>1, <1>2, <2>1
<1>5. ASSUME NEW day \in K
      PROVE  Spending(L, Between(L, day, day)) = {t \in T : key[t] = day}
  <2>1. FirstDay[m] <= day /\ day <= LastDay(m) /\ day \in Int
    BY <1>3
  <2>2. Between(L, day, day) = {t \in DOMAIN L : L[t].day = day}
    BY <1>2, <2>1 DEF Between
  <2>. QED  BY <1>4, <2>1, <2>2 DEF Spending, Of, Between
<1>6. DOMAIN g = K /\ \A day \in K : g[day] = Total(L, {t \in T : key[t] = day})
  <2>1. DOMAIN g = K /\ \A day \in K : g[day] = Total(L, Spending(L, Between(L, day, day)))
    BY DEF DailySeries
  <2>. HIDE DEF g, K, key, T
  <2>. QED  BY <1>5, <2>1
<1>. HIDE DEF g, K, key, T
<1>7. SumFunction(g) = Total(L, T)
  <2>1. IsFiniteSet(K) /\ \A t \in T : key[t] \in K
    BY <1>3, <1>4
  <2>. QED  BY <1>1, <1>6, <2>1, TotalOfParts
<1>8. Summary(L, m).expenses = Total(L, T)
  BY DEF Summary, T
<1>. QED  BY <1>7, <1>8 DEF g

\* The window of the refresh lies in the calendar, with the month before it.
LEMMA WindowInCalendar ==
  /\ ThisMonth \in SnapshotMonths .. Horizon
  /\ \A k \in 0 .. SnapshotMonths - 1 :
        MonthAt(k) \in 1 .. Horizon /\ MonthAt(k) \in ThisMonth - SnapshotMonths .. ThisMonth
        /\ MonthAt(k) - 1 \in ThisMonth - SnapshotMonths .. ThisMonth
<1>1. PICK m \in SnapshotMonths .. Horizon : InMonth(Day, m)
  BY DerivedAssumption DEF InMonth
<1>2. m \in 0 .. Horizon /\ Day \in 0 .. LastDay(Horizon)
  BY DerivedAssumption
<1>3. ThisMonth = m
  BY <1>1, <1>2, DaysHaveMonths DEF ThisMonth
<1>. QED  BY <1>3, DerivedAssumption, InsightsAssumption DEF MonthAt

\* A point of the trend is of the transactions of its month.
LEMMA TrendIsOfMonth ==
  ASSUME NEW L, SoundLedger(L), NEW m \in ThisMonth - SnapshotMonths .. ThisMonth
  PROVE  LET trend == Trend(L, ThisMonth, SnapshotMonths + 1)
         IN  /\ trend[m].net = NetExpenses(Summary(L, m))
             /\ trend[m].flow = NetCashFlow(Summary(L, m))
<1>. DEFINE first == ThisMonth - SnapshotMonths
            Span == Between(L, FirstDay[first], LastDay(ThisMonth))
            In == {t \in Span : MonthOf[L[t].day] = m}
            trend == Trend(L, ThisMonth, SnapshotMonths + 1)
<1>1. /\ first \in 0 .. Horizon /\ m \in 0 .. Horizon /\ ThisMonth \in 0 .. Horizon
      /\ first <= m /\ m <= ThisMonth
      /\ ThisMonth - (SnapshotMonths + 1) + 1 = first
  BY WindowInCalendar, DerivedAssumption, InsightsAssumption
<1>2. FirstDay[first] <= FirstDay[m] /\ LastDay(m) <= LastDay(ThisMonth)
      /\ FirstDay[first] \in Int /\ FirstDay[m] \in Int
      /\ LastDay(m) \in Int /\ LastDay(ThisMonth) \in Int
  <2>1. /\ first \in 0 .. Horizon + 1 /\ m \in 0 .. Horizon + 1 /\ m + 1 \in 0 .. Horizon + 1
        /\ ThisMonth + 1 \in 0 .. Horizon + 1 /\ m + 1 <= ThisMonth + 1
    BY <1>1, InsightsAssumption
  <2>2. LastDay(m) = FirstDay[m + 1] - 1 /\ LastDay(ThisMonth) = FirstDay[ThisMonth + 1] - 1
    BY <1>1, MonthsFollow
  <2>3. FirstDay[first] <= FirstDay[m] /\ FirstDay[m + 1] <= FirstDay[ThisMonth + 1]
    BY <1>1, <2>1, MonthsFollow
  <2>4. /\ FirstDay[first] \in Nat /\ FirstDay[m] \in Nat /\ FirstDay[m + 1] \in Nat
        /\ FirstDay[ThisMonth + 1] \in Nat
    BY <2>1, MonthsFollow
  <2>. HIDE DEF first
  <2>. QED  BY <2>2, <2>3, <2>4
<1>3. ASSUME NEW t \in DOMAIN L
      PROVE  /\ L[t].day \in Int
             /\ MonthOf[L[t].day] = m <=> FirstDay[m] <= L[t].day /\ L[t].day <= LastDay(m)
  <2>1. L[t].day \in 0 .. LastDay(Horizon)
    BY DEF SoundLedger, IsTransaction
  <2>. QED  BY <1>1, <2>1, DaysHaveMonths DEF InMonth
<1>4. In = Of(L, m)
  <2>. HIDE DEF first
  <2>. QED  BY <1>2, <1>3 DEF Of, Between
<1>5. trend[m].net = TrendNet(L, In)
      /\ trend[m].flow = Total(L, Incoming(L, In)) - TrendNet(L, In)
  <2>1. m \in first .. ThisMonth
    OBVIOUS
  <2>. HIDE DEF first
  <2>. QED  BY <1>1, <2>1 DEF Trend
<1>. HIDE DEF In, trend, first
<1>. QED  BY <1>4, <1>5 DEF NetExpenses, NetCashFlow, Summary, TrendNet, trend

\* A ledger with rows opens on a month that has some.
LEMMA OpensOnRows ==
  ASSUME NEW L, SoundLedger(L), DOMAIN L # {}
  PROVE  Of(L, DefaultMonth(L, Day)) # {}
<1>. DEFINE filled == {m \in 0 .. Horizon : Of(L, m) # {}}
            Latest(m) == /\ Of(L, m) # {}
                         /\ \A later \in m + 1 .. Horizon : Of(L, later) = {}
            latest == CHOOSE m \in 0 .. Horizon : Latest(m)
<1>1. filled # {}
  <2>1. PICK t \in DOMAIN L : L[t].day \in 0 .. LastDay(Horizon)
    BY DEF SoundLedger, IsTransaction
  <2>2. /\ MonthOf[L[t].day] \in 0 .. Horizon
        /\ InMonth(L[t].day, MonthOf[L[t].day])
    BY <2>1, DaysHaveMonths
  <2>. QED  BY <2>2 DEF InMonth, Of, Between
<1>2. \E m \in 0 .. Horizon : Latest(m)
  <2>1. Within(filled, 0, Horizon)
    BY InsightsAssumption DEF Within
  <2>2. Max(filled) \in filled /\ \A m \in filled : m <= Max(filled)
    <3>. HIDE DEF filled
    <3>. QED  BY <1>1, <2>1, LargestOfSome
  <2>. DEFINE n == Max(filled)
  <2>. HIDE DEF n
  <2>3. n \in 0 .. Horizon /\ Of(L, n) # {} /\ \A m \in 0 .. Horizon : Of(L, m) # {} => m <= n
    BY <2>2 DEF n
  <2>4. ASSUME NEW later \in n + 1 .. Horizon PROVE Of(L, later) = {}
    <3>1. later \in 0 .. Horizon /\ ~ (later <= n)
      BY <2>3, InsightsAssumption
    <3>. QED  BY <2>3, <3>1
  <2>. QED  BY <2>3, <2>4
<1>. HIDE DEF Latest
<1>3. latest \in 0 .. Horizon /\ Latest(latest)
  BY <1>2
<1>4. DefaultMonth(L, Day) = latest
  <2>1. DefaultMonth(L, Day) = IF latest >= MonthOf[Day]
                               THEN Larger(latest, MonthOf[Day]) ELSE latest
    BY DEF DefaultMonth, Latest
  <2>. HIDE DEF latest
  <2>. QED  BY <2>1 DEF Larger
<1>. QED  BY <1>3, <1>4 DEF Latest

\* Of such a ledger the surfaces agree.
LEMMA SurfacesOfSound ==
  ASSUME SoundLedger(ledger)
  PROVE  SurfacesAgree
<1>1. DOMAIN ledger # {} => Of(ledger, DefaultMonth(ledger, Day)) # {}
  BY OpensOnRows
<1>2. ASSUME NEW k \in 0 .. SnapshotMonths - 1
      PROVE  LET m == MonthAt(k)
                 s == Summary(ledger, m)
                 b == BreakdownOf(ledger, m)
                 daily == DailySeries(ledger, m)
                 trend == Trend(ledger, ThisMonth, SnapshotMonths + 1)
                 compared == CompareMonths(ledger, m - 1, m)
             IN  /\ SumFunction([c \in DOMAIN b |-> b[c].total]) = s.expenses
                 /\ SumFunction(daily) = s.expenses
                 /\ trend[m].net = NetExpenses(s) /\ trend[m].flow = NetCashFlow(s)
                 /\ compared.change = trend[m].net - trend[m - 1].net
  <2>. DEFINE m == MonthAt(k)
  <2>1. m \in 0 .. Horizon /\ m \in ThisMonth - SnapshotMonths .. ThisMonth
        /\ m - 1 \in ThisMonth - SnapshotMonths .. ThisMonth
    BY WindowInCalendar
  <2>. HIDE DEF m
  <2>2. /\ Trend(ledger, ThisMonth, SnapshotMonths + 1)[m].net = NetExpenses(Summary(ledger, m))
        /\ Trend(ledger, ThisMonth, SnapshotMonths + 1)[m].flow
             = NetCashFlow(Summary(ledger, m))
        /\ Trend(ledger, ThisMonth, SnapshotMonths + 1)[m - 1].net
             = NetExpenses(Summary(ledger, m - 1))
    BY <2>1, TrendIsOfMonth
  <2>3. CompareMonths(ledger, m - 1, m).change
          = NetExpenses(Summary(ledger, m)) - NetExpenses(Summary(ledger, m - 1))
    BY DEF CompareMonths
  <2>. QED  BY <2>1, <2>2, <2>3, CategoriesSum, DaysSum DEF m
<1>. QED  BY <1>1, <1>2 DEF SurfacesAgree

\* The categories, the days and the trend of a month sum to the figures at its
\* head, a comparison is the difference of two points of the trend, and a screen
\* opens on a month that has rows: of any ledger that imports, corrections and
\* deletions leave.
THEOREM EverySurfaceAgrees == DerivedSpec => []SurfacesAgree
BY SurfacesOfSound, AlwaysSound, PTL

-----------------------------------------------------------------------------
(* The two, one at a time                                                  *)

\* A behaviour of the two is one of each.
THEOREM EachBehavesAlone == IntelligenceSpec => GatewaySpec /\ DerivedSpec
<1>1. IntelligenceInit => GatewayInit /\ DerivedInit
  BY DEF IntelligenceInit
<1>2. [IntelligenceNext]_intelligenceVars => [GatewayNext]_gatewayVars
  BY DEF IntelligenceNext, intelligenceVars
<1>3. [IntelligenceNext]_intelligenceVars => [DerivedNext]_derivedVars
  BY DEF IntelligenceNext, intelligenceVars
<1>. QED  BY <1>1, <1>2, <1>3, PTL DEF IntelligenceSpec, GatewaySpec, DerivedSpec

\* The surfaces agree beside the gateway as they do alone.
THEOREM SurfacesAgreeBeside == IntelligenceSpec => []SurfacesAgreeAtRest
<1>1. SurfacesAgree => SurfacesAgreeAtRest
  BY DEF SurfacesAgreeAtRest
<1>. QED  BY <1>1, EachBehavesAlone, EverySurfaceAgrees, PTL

\* Every variable keeps its type, whichever is in focus.
THEOREM IntelligenceTypeCorrect == IntelligenceSpec => []IntelligenceTypeOK
<1>1. GatewayTypeOK /\ DerivedTypeOK => IntelligenceTypeOK
  BY DEF IntelligenceTypeOK
<1>. QED  BY <1>1, EachBehavesAlone, GatewayTypeCorrect, DerivedTypeCorrect, PTL
=============================================================================
