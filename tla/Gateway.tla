------------------------------ MODULE Gateway ------------------------------
(***************************************************************************)
(* The door to the language model, and the books kept at it. A cascade     *)
(* asks once per row, a narrative once per month, a conversation of the    *)
(* assistant several times; each asks from within its own transaction,     *)
(* which may still be rolled back. The usage of a day is one row that all  *)
(* of a tenant's transactions add to on that day, the spending of a month  *)
(* the sum of its days; the incidents are rows of their own.               *)
(***************************************************************************)
EXTENDS Integers, FiniteSets, FiniteSetsExt, Sequences, Functions

CONSTANTS
    Askers,         \* the transactions that ask the model
    Errand,         \* asker |-> "cascade", "narrative" or "assistant"
    MaxRows,        \* the rows a cascade asks about
    MaxMonths,      \* the months a narrative phrases (2)
    MaxTurns,       \* the turns of a conversation
    MonthEnd,       \* bound: the days of the month
    Budget,         \* the ceiling of a month
    Prices,         \* what one call may cost
    Merchants,      \* the transactions asked about, by what the checks see
    Responses,      \* what the provider may answer, by what the checks see
    MaxAttempts     \* bound: attempts of one asker

NoOne == "no one"

ASSUME GatewayAssumption ==
    /\ MaxRows \in Nat /\ MaxMonths \in Nat /\ MaxTurns \in Nat \ {0}
    /\ MonthEnd \in Nat \ {0} /\ Budget \in Nat /\ MaxAttempts \in Nat
    /\ Prices \subseteq Nat /\ \E most \in Prices : \A price \in Prices : price <= most
    /\ IsFiniteSet(Askers) /\ NoOne \notin Askers
    /\ Errand \in [Askers -> {"cascade", "narrative", "assistant"}]

VARIABLES
    asker,      \* asker |-> [stage, asked, owed, attempt, response]
    today,      \* the day of the month
    booked,     \* day |-> its committed row: counter |-> amount
    drafted,    \* day |-> the same row as its holder has written it
    keeper,     \* day |-> the transaction that holds its row
    overnight,  \* history: the askers that held the row of a day when it ended
    filing,     \* asker |-> its uncommitted incidents: kind |-> how many
    filed,      \* the committed incidents
    bill,       \* what the provider was asked for: [calls, cost]
    dropped     \* the calls and the costs not counted: rolled back, or timed out

books == <<booked, drafted, keeper>>
calendar == <<today, overnight>>
gatewayVars == <<asker, calendar, books, filing, filed, bill, dropped>>

MonthDays == 1 .. MonthEnd

Counters == {"ai_calls_made", "payloads_blocked", "injections_quarantined",
             "outputs_rejected", "cost_inr"}

IncidentKinds == {"pii_in_payload", "injection_quarantined", "output_pii_echo",
                  "output_schema_violation", "budget_exceeded",
                  "output_untraceable_figure"}

NoCounts == [c \in Counters |-> 0]
NoIncidents == [k \in IncidentKinds |-> 0]
Idle == [stage |-> "new", asked |-> 0, owed |-> 0, attempt |-> 0, response |-> NoOne]

-----------------------------------------------------------------------------
(* What is sent: the checks before a call                                  *)

MerchantRails == {"card", "nach", "ach"}

\* Only a business is named: a known merchant, or a rail that no person is
\* paid over, or a UPI payment marked as one to a merchant.
MerchantIsSendable(tx) ==
    /\ tx.merchant # "none"
    /\ \/ tx.merchant = "known"
       \/ tx.rail \in MerchantRails
       \/ tx.rail = "upi" /\ tx.p2m

\* Either text of the transaction reads like an order to the model.
Quarantined(tx) == tx.hostile

\* A rail, a direction or a code that is not in the closed lists, or a name
\* longer than any, makes no payload.
Representable(tx) == tx.wellFormed

\* The payload as built is scanned once more, whatever it was built from.
Dirty(tx) == tx.leaks

\* The verdict on a transaction, in the order of the checks.
Preflight(tx) ==
    IF Quarantined(tx) THEN "quarantined"
    ELSE IF ~ Representable(tx) \/ ~ MerchantIsSendable(tx) THEN "nothing to ask"
    ELSE IF Dirty(tx) THEN "blocked"
    ELSE "clear"

-----------------------------------------------------------------------------
(* What comes back                                                         *)

\* validate: an identifier given away is filed as such, whatever else is
\* wrong with the answer. A confidence that is no number cannot be compared,
\* and raises.
Verdict(resp) ==
    IF resp.form = "error" THEN "provider_error"
    ELSE IF resp.echo THEN "output_pii_echo"
    ELSE IF resp.shape \/ resp.form \in {"unknown category", "out of range"}
         THEN "output_schema_violation"
    ELSE IF resp.form = "not a number" THEN "raises"
    ELSE "ok"

\* validate_prose: the same distrust of a sentence; and every figure in it
\* must come from what the tools or the snapshot said. An answer that asks for
\* tools where none are left, or none were offered, is thrown away unread: it
\* is neither counted nor filed as a rejection.
ProseVerdict(resp) ==
    IF resp.form = "error" THEN "provider_error"
    ELSE IF resp.form = "tool calls" THEN "unexpected_tool_call"
    ELSE IF resp.echo THEN "output_pii_echo"
    ELSE IF resp.shape THEN "output_schema_violation"
    ELSE IF resp.form = "invented figure" THEN "output_untraceable_figure"
    ELSE "ok"

Judged(errand, resp) == IF errand = "cascade" THEN Verdict(resp) ELSE ProseVerdict(resp)

-----------------------------------------------------------------------------
GatewayInit ==
    /\ asker = [p \in Askers |-> Idle]
    /\ today = 1 /\ overnight = {}
    /\ booked = [d \in MonthDays |-> NoCounts]
    /\ drafted = [d \in MonthDays |-> NoCounts]
    /\ keeper = [d \in MonthDays |-> NoOne]
    /\ filing = [p \in Askers |-> NoIncidents]
    /\ filed = NoIncidents
    /\ bill = [calls |-> 0, cost |-> 0]
    /\ dropped = [calls |-> 0, cost |-> 0]

\* Mutant: the row of the day is not held until the end.
MayBumpAlways(p) == TRUE

\* INSERT .. ON CONFLICT DO UPDATE of the row of the day waits for the
\* transaction that holds it, and adds to what that one has left there.
MayBump(p) == keeper[today] \in {NoOne, p}

\* The row of a day as a transaction sees it: its own, or the committed one.
Seen(p, d) == IF keeper[d] = p THEN drafted[d] ELSE booked[d]

Bump(p, increments) ==
    /\ MayBump(p)
    /\ keeper' = [keeper EXCEPT ![today] = p]
    /\ drafted' = [drafted EXCEPT ![today] =
                     [c \in Counters |-> Seen(p, today)[c]
                        + IF c \in DOMAIN increments THEN increments[c] ELSE 0]]
    /\ UNCHANGED booked

File(p, kind) == filing' = [filing EXCEPT ![p][kind] = @ + 1]

\* What the days of the month add up to, as it is committed.
Booked(counter) == SumFunction([d \in MonthDays |-> booked[d][counter]])

\* Mutant: only the spending of the day is seen.
MonthSpendOfDay(p) == Seen(p, today)["cost_inr"]

MonthSpend(p) == SumFunction([d \in MonthDays |-> Seen(p, d)["cost_inr"]])

WithinBudget(p) == MonthSpend(p) < Budget

Move(p, stage) == asker' = [asker EXCEPT ![p].stage = stage]

\* The next row, or the next turn; and the end of the errand.
NextQuestion(p) == asker' = [asker EXCEPT ![p].stage = "between",
                                          ![p].asked = @ + 1,
                                          ![p].response = NoOne]

Limit(p) == CASE Errand[p] = "cascade" -> MaxRows
              [] Errand[p] = "narrative" -> MaxMonths
              [] Errand[p] = "assistant" -> MaxTurns

Start(p) ==
    /\ asker[p].stage = "new"
    /\ asker[p].attempt < MaxAttempts
    /\ asker' = [asker EXCEPT ![p].stage = "between", ![p].attempt = @ + 1]
    /\ UNCHANGED <<calendar, books, filing, filed, bill, dropped>>

\* classify, up to the payload. A text that gives orders, and a payload that
\* holds an identifier, are counted and filed; nothing to ask is neither.
Prepare(p) ==
    /\ Errand[p] = "cascade"
    /\ asker[p].stage = "between" /\ asker[p].asked < Limit(p)
    /\ \E tx \in Merchants :
         \/ /\ Preflight(tx) = "clear"
            /\ Move(p, "checking")
            /\ UNCHANGED <<books, filing>>
         \/ /\ Preflight(tx) = "nothing to ask"
            /\ NextQuestion(p)
            /\ UNCHANGED <<books, filing>>
         \/ /\ Preflight(tx) = "quarantined"
            /\ NextQuestion(p)
            /\ Bump(p, [injections_quarantined |-> 1])
            /\ File(p, "injection_quarantined")
         \/ /\ Preflight(tx) = "blocked"
            /\ NextQuestion(p)
            /\ Bump(p, [payloads_blocked |-> 1])
            /\ File(p, "pii_in_payload")
    /\ UNCHANGED <<calendar, filed, bill, dropped>>

\* A month without a snapshot is passed over, and one whose view holds an
\* identifier is counted and filed: the narrative of the next month is still
\* asked for. A question is sent as it is.
PrepareProse(p) ==
    /\ Errand[p] # "cascade"
    /\ asker[p].stage = "between" /\ asker[p].asked < Limit(p)
    /\ \/ Move(p, "checking") /\ UNCHANGED <<books, filing>>
       \/ /\ Errand[p] = "narrative"
          /\ NextQuestion(p)
          /\ UNCHANGED <<books, filing>>
       \/ /\ Errand[p] = "narrative"
          /\ NextQuestion(p)
          /\ Bump(p, [payloads_blocked |-> 1])
          /\ File(p, "pii_in_payload")
    /\ UNCHANGED <<calendar, filed, bill, dropped>>

\* The budget is looked at before a row, a narrative or a conversation. Only a
\* cascade files that it was used up.
CheckBudget(p) ==
    /\ asker[p].stage = "checking"
    /\ \/ WithinBudget(p) /\ Move(p, "calling") /\ UNCHANGED filing
       \/ /\ ~ WithinBudget(p) /\ Errand[p] = "cascade"
          /\ NextQuestion(p) /\ File(p, "budget_exceeded")
       \/ /\ ~ WithinBudget(p) /\ Errand[p] = "narrative"
          /\ NextQuestion(p) /\ UNCHANGED filing
       \/ /\ ~ WithinBudget(p) /\ Errand[p] = "assistant"
          /\ Move(p, "finished") /\ UNCHANGED filing
    /\ UNCHANGED <<calendar, books, filed, bill, dropped>>

FormsOf(errand) ==
    {"error"} \cup IF errand = "cascade"
                  THEN {"category", "unknown category", "out of range", "not a number"}
                  ELSE {"prose", "tool calls", "invented figure"}

\* The provider is asked: this costs, whatever becomes of the transaction.
Call(p) ==
    /\ asker[p].stage = "calling"
    /\ \E resp \in Responses, price \in Prices :
         /\ resp.form \in FormsOf(Errand[p])
         /\ asker' = [asker EXCEPT ![p].stage = "answered", ![p].response = resp,
                                   ![p].owed = @ + price]
         /\ bill' = [calls |-> bill.calls + 1, cost |-> bill.cost + price]
    /\ UNCHANGED <<calendar, books, filing, filed, dropped>>

Rejections == {"output_pii_echo", "output_schema_violation",
               "output_untraceable_figure"}

\* Mutant: a rejected answer is filed but not counted.
RejectedUncounted(verdict) == 0

Rejected(verdict) == IF verdict \in Rejections THEN 1 ELSE 0

\* classify and generate after a call: the usage is added, and the answer
\* judged on its own terms.
Account(p) ==
    /\ asker[p].stage = "answered" /\ Errand[p] # "assistant"
    /\ LET verdict == Judged(Errand[p], asker[p].response) IN
         /\ verdict # "raises"
         /\ Bump(p, [ai_calls_made |-> 1, cost_inr |-> asker[p].owed,
                     outputs_rejected |-> Rejected(verdict)])
         /\ IF verdict \in Rejections THEN File(p, verdict) ELSE UNCHANGED filing
    /\ asker' = [asker EXCEPT ![p].stage = "between", ![p].asked = @ + 1,
                              ![p].owed = 0, ![p].response = NoOne]
    /\ UNCHANGED <<calendar, filed, bill, dropped>>

\* The confidence of the answer cannot be compared: the exception ends the
\* transaction, with all that the others of its rows have cost.
Raises(p) == /\ asker[p].stage = "answered"
             /\ Errand[p] = "cascade"
             /\ Verdict(asker[p].response) = "raises"

\* A turn of a conversation is counted at once; its cost when it ends. The
\* model may go on asking for tools until its turns are used up.
Turn(p) ==
    /\ asker[p].stage = "answered" /\ Errand[p] = "assistant"
    /\ asker[p].asked + 1 < Limit(p)
    /\ asker[p].response.form = "tool calls"
    /\ Bump(p, [ai_calls_made |-> 1])
    /\ asker' = [asker EXCEPT ![p].stage = "calling", ![p].asked = @ + 1,
                              ![p].response = NoOne]
    /\ UNCHANGED <<calendar, filing, filed, bill, dropped>>

\* finish: the answer, good or not, or the end of the conversation's turns.
FinishConversation(p) ==
    /\ asker[p].stage = "answered" /\ Errand[p] = "assistant"
    /\ LET verdict == Judged(Errand[p], asker[p].response) IN
         /\ Bump(p, [ai_calls_made |-> 1, cost_inr |-> asker[p].owed,
                     outputs_rejected |-> Rejected(verdict)])
         /\ IF verdict \in Rejections THEN File(p, verdict) ELSE UNCHANGED filing
    /\ asker' = [asker EXCEPT ![p].stage = "finished", ![p].owed = 0,
                              ![p].response = NoOne]
    /\ UNCHANGED <<calendar, filed, bill, dropped>>

\* The deadline of a conversation passes, before a turn is asked for or while
\* the provider works on it. That turn is nowhere counted.
TimeOut(p) ==
    /\ asker[p].stage = "calling" /\ Errand[p] = "assistant"
    /\ \E asked \in {0, 1}, price \in Prices :
         /\ bill' = [calls |-> bill.calls + asked, cost |-> bill.cost + asked * price]
         /\ dropped' = [calls |-> dropped.calls + asked, cost |-> dropped.cost + asked * price]
    /\ Bump(p, [cost_inr |-> asker[p].owed])
    /\ asker' = [asker EXCEPT ![p].stage = "finished", ![p].owed = 0]
    /\ UNCHANGED <<calendar, filing, filed>>

\* The end of a transaction sets the rows free that it held.
Release(p) ==
    /\ keeper' = [d \in MonthDays |-> IF keeper[d] = p THEN NoOne ELSE keeper[d]]
    /\ drafted' = [d \in MonthDays |-> IF keeper[d] = p THEN NoCounts ELSE drafted[d]]
    /\ filing' = [filing EXCEPT ![p] = NoIncidents]
    /\ UNCHANGED <<calendar, bill>>

GatewayCommit(p) ==
    /\ \/ asker[p].stage = "finished"
       \/ asker[p].stage = "between" /\ asker[p].asked >= Limit(p)
    /\ booked' = [d \in MonthDays |-> Seen(p, d)]
    /\ filed' = [k \in IncidentKinds |-> filed[k] + filing[p][k]]
    /\ Release(p)
    /\ asker' = [asker EXCEPT ![p] = [Idle EXCEPT !.stage = "done"]]
    /\ UNCHANGED dropped

\* The usage the transaction had counted, and the call it had not yet.
Counted(p, counter) ==
    SumFunction([d \in MonthDays |->
        IF keeper[d] = p THEN drafted[d][counter] - booked[d][counter] ELSE 0])

Uncounted(p) == IF asker[p].stage = "answered" THEN 1 ELSE 0

\* The transaction is rolled back: the worker is lost, a time limit ends the
\* task, or an answer raises. Its counts and incidents go with it.
GatewayAbort(p) ==
    /\ asker[p].stage \in {"between", "checking", "calling", "answered"}
    /\ dropped' = [calls |-> dropped.calls + Counted(p, "ai_calls_made") + Uncounted(p),
                   cost |-> dropped.cost + Counted(p, "cost_inr") + asker[p].owed]
    /\ Release(p)
    /\ asker' = [asker EXCEPT ![p] = [Idle EXCEPT !.attempt = asker[p].attempt]]
    /\ UNCHANGED <<booked, filed>>

\* A day ends: who counts from now on counts in another row, and does not wait
\* for the transaction that holds the old one.
Midnight ==
    /\ today < MonthEnd
    /\ today' = today + 1
    /\ overnight' = overnight \cup ({keeper[today]} \ {NoOne})
    /\ UNCHANGED <<asker, books, filing, filed, bill, dropped>>

GatewayNext ==
    \/ Midnight
    \/ \E p \in Askers :
          \/ Start(p)
          \/ Prepare(p)
          \/ PrepareProse(p)
          \/ CheckBudget(p)
          \/ Call(p)
          \/ Account(p)
          \/ Turn(p)
          \/ FinishConversation(p)
          \/ TimeOut(p)
          \/ GatewayCommit(p)
          \/ GatewayAbort(p)

GatewaySpec == GatewayInit /\ [][GatewayNext]_gatewayVars

-----------------------------------------------------------------------------
(* Properties                                                              *)

\* The books keep their types; only a transaction that holds the row of a day
\* has usage that is not committed, and never less than what was there.
GatewayTypeOK ==
    /\ today \in MonthDays /\ overnight \subseteq Askers
    /\ booked \in [MonthDays -> [Counters -> Nat]]
    /\ drafted \in [MonthDays -> [Counters -> Nat]]
    /\ keeper \in [MonthDays -> Askers \cup {NoOne}]
    /\ filed \in [IncidentKinds -> Nat]
    /\ filing \in [Askers -> [IncidentKinds -> Nat]]
    /\ \A d \in MonthDays : keeper[d] # NoOne =>
         \A c \in Counters : drafted[d][c] >= booked[d][c]

\* The calls of a transaction that no committed row shows yet.
Pending(p) == Counted(p, "ai_calls_made") + Uncounted(p)

\* However the transactions interleave, every call is counted once, in the row
\* of some day, unless it timed out or went with a transaction that was rolled
\* back: none is lost to another's count.
CallsAddUp ==
    bill.calls = Booked("ai_calls_made") + dropped.calls
                   + SumFunction([p \in Askers |-> Pending(p)])

\* What a transaction may spend between looking at the budget and counting.
Reach(p) == Max(Prices) * IF Errand[p] = "assistant" THEN MaxTurns ELSE 1

\* What a transaction lets be spent beyond the budget: its reach, and, if it
\* held the row of a day when the day ended, what the others have spent on the
\* next day without seeing what it had spent.
Excess(p) == Reach(p) + IF p \in overnight THEN Budget ELSE 0

\* A month's committed spending passes its ceiling by less than the reach of
\* its transactions and one budget more for each that held a day's row over
\* midnight: on one day no two of them can each spend the budget, and without
\* a budget none spends.
OverspendIsBounded ==
    \/ Booked("cost_inr") = 0
    \/ Booked("cost_inr") < Budget + SumFunction([p \in Askers |-> Excess(p)])

\* Three counters of the privacy centre have incidents in its log, and show as
\* many of each as the log: blocked payloads, quarantined texts, and answers
\* that were rejected for what they say. The other incidents, those of a
\* budget used up, have no counter; an answer thrown away because it asks for
\* tools has neither.
CentreAgreesWithLog ==
    /\ Booked("payloads_blocked") = filed["pii_in_payload"]
    /\ Booked("injections_quarantined") = filed["injection_quarantined"]
    /\ Booked("outputs_rejected") = filed["output_pii_echo"]
         + filed["output_schema_violation"] + filed["output_untraceable_figure"]

\* A call is in the counters once, or its transaction is still open, was rolled
\* back, or timed out on it; and the three counted kinds of refusal agree with
\* the log, whatever was rolled back beside them.
CountersAgree == CallsAddUp /\ CentreAgreesWithLog

\* Every call that was made is in the counters once its transaction is over.
EveryCallIsCounted == dropped.calls = 0

\* Every answer is judged: it is taken, or rejected and filed.
AnswersAreJudged == \A p \in Askers : ~ Raises(p)

=============================================================================
