--------------------------- MODULE Reconciliation ---------------------------
(***************************************************************************)
(* The trust layer, services/reconciliation.py and the statement's score   *)
(* of services/confidence.py: what the program concludes of a statement    *)
(* the parser may have misread.                                            *)
(*                                                                         *)
(* A behaviour prints a statement line by line, then loses lines or reads  *)
(* them with the wrong sign.  The report is a function of the state; the   *)
(* properties compare it with what was really printed.                     *)
(***************************************************************************)
EXTENDS Integers, Sequences, FiniteSetsExt, Functions

CONSTANTS
    Amounts,   \* signed amounts of the printed lines, debits negative
    Opening,   \* the opening balance
    MaxRows,   \* lines of a statement (bound)
    MaxPages   \* pages of a statement (bound)

ASSUME ReadingAssumption ==
    /\ Amounts \subseteq Int \ {0} /\ Opening \in Int
    /\ MaxRows \in Nat /\ MaxPages \in Nat

VARIABLES
    card,     \* a credit card statement
    figures,  \* which of the two figures the statement prints
    lines      \* the printed lines and how each was read

readingVars == <<card, figures, lines>>

\* balanced: the row prints the running balance.
PrintedRow == [amount : Amounts, page : 1..MaxPages, balanced : BOOLEAN,
               read : {"right", "flipped", "lost"}]

-----------------------------------------------------------------------------
(* The statement *)

ReadingInit ==
    /\ card \in BOOLEAN
    /\ figures \in SUBSET {"opening", "closing"}
    /\ lines = <<>>

Misread == \E i \in DOMAIN lines : lines[i].read # "right"
LastPage == IF lines = <<>> THEN 1 ELSE lines[Len(lines)].page

\* Card statements print no running balance.
PrintRow(amount, page, balanced) ==
    /\ Len(lines) < MaxRows
    /\ ~Misread
    /\ page \in LastPage..MaxPages
    /\ balanced => ~card
    /\ lines' = Append(lines, [amount |-> amount, page |-> page,
                             balanced |-> balanced, read |-> "right"])
    /\ UNCHANGED <<card, figures>>

\* The parser drops a row, or takes a debit for a credit.
Lose(i) ==
    /\ lines[i].read = "right"
    /\ lines' = [lines EXCEPT ![i].read = "lost"]
    /\ UNCHANGED <<card, figures>>

Flip(i) ==
    /\ lines[i].read = "right"
    /\ lines' = [lines EXCEPT ![i].read = "flipped"]
    /\ UNCHANGED <<card, figures>>

ReadingNext ==
    \/ \E amount \in Amounts, page \in 1..MaxPages, balanced \in BOOLEAN :
          PrintRow(amount, page, balanced)
    \/ \E i \in DOMAIN lines : Lose(i) \/ Flip(i)

ReadingSpec == ReadingInit /\ [][ReadingNext]_readingVars

\* What the bank printed: each balance, and the closing figure.  A card's
\* total due grows with debits.
Printed == [i \in DOMAIN lines |-> lines[i].amount]
Balance(i) == Opening + SumFunctionOnSet(Printed, 1..i)
Closing == IF card THEN Opening - SumFunction(Printed) ELSE Opening + SumFunction(Printed)

-----------------------------------------------------------------------------
(* The report *)

\* The canonical transactions, by the lines they were read from: in their order.
Transactions == {i \in DOMAIN lines : lines[i].read # "lost"}

SignedAmount(i) == IF lines[i].read = "flipped" THEN -lines[i].amount ELSE lines[i].amount

Debits  == {i \in Transactions : SignedAmount(i) < 0}
Credits == {i \in Transactions : SignedAmount(i) > 0}
TotalDebits  == SumFunction([i \in Debits |-> -SignedAmount(i)])
TotalCredits == SumFunction([i \in Credits |-> SignedAmount(i)])

\* Mutant: every statement is reconciled as a deposit account.
ComputedAsBank == Opening - TotalDebits + TotalCredits

Computed ==
    IF card THEN Opening + TotalDebits - TotalCredits
            ELSE Opening - TotalDebits + TotalCredits

Unverifiable == figures # {"opening", "closing"}
Reconciles == ~Unverifiable /\ Computed = Closing

TrustStatus == IF Unverifiable THEN "pending"
               ELSE IF Reconciles THEN "trusted" ELSE "untrusted"

BalanceChecked ==
    /\ "opening" \in figures
    /\ Cardinality({i \in Transactions : lines[i].balanced}) >= 2

\* Mutant: the running balance stays at the opening balance.
WalkFromOpening(walk, i) ==
    IF walk.divergent # 0 \/ ~lines[i].balanced THEN walk
    ELSE IF walk.running + SignedAmount(i) # Balance(i) THEN [walk EXCEPT !.divergent = i]
    ELSE walk

\* Mutant: the row after the divergent one is named.
WalkNamesNext(walk, i) ==
    IF walk.divergent # 0 \/ ~lines[i].balanced THEN walk
    ELSE IF walk.running + SignedAmount(i) # Balance(i) THEN [walk EXCEPT !.divergent = i + 1]
    ELSE [walk EXCEPT !.running = Balance(i)]

\* _check_balance_continuity: one step of the loop.  A row without a balance
\* is passed over, and running stays where it was.
Walk(walk, i) ==
    IF walk.divergent # 0 \/ ~lines[i].balanced THEN walk
    ELSE IF walk.running + SignedAmount(i) # Balance(i) THEN [walk EXCEPT !.divergent = i]
    ELSE [walk EXCEPT !.running = Balance(i)]

\* The loop once it has passed the first n lines.
Walked[n \in 0..Len(lines)] ==
    IF n = 0 THEN [running |-> Opening, divergent |-> 0]
    ELSE IF n \in Transactions THEN Walk(Walked[n - 1], n)
    ELSE Walked[n - 1]

\* first_divergent_row, 0 for None.
FirstDivergentRow == IF BalanceChecked THEN Walked[Len(lines)].divergent ELSE 0

BalanceContinuous == BalanceChecked /\ FirstDivergentRow = 0

\* _check_pages: between the first and the last page that gave transactions.
MissingPages ==
    LET seen == {lines[i].page : i \in Transactions}
    IN  IF seen = {} THEN {} ELSE (Min(seen)..Max(seen)) \ seen

PagesContinuous == MissingPages = {}

-----------------------------------------------------------------------------
(* The score of the statement, in ten-thousandths *)

AUTO_APPROVE_AT == 9700

\* Mutant: a running balance that wanders does not count once totals close.
ArithmeticScoreByTotals ==
    IF Unverifiable THEN 8000
    ELSE IF ~Reconciles THEN 5500
    ELSE IF BalanceChecked THEN 9900
    ELSE 9700

ArithmeticScore ==
    IF Unverifiable THEN 8000
    ELSE IF ~Reconciles THEN 5500
    ELSE IF BalanceContinuous THEN 9900
    ELSE IF BalanceChecked THEN 7000
    ELSE 9700

ValidationScore ==
    IF PagesContinuous THEN ArithmeticScore ELSE Min({ArithmeticScore, 7000})

-----------------------------------------------------------------------------
(* Properties *)

\* The report speaks of lines and pages that are there.
ReadingTypeOK ==
    /\ card \in BOOLEAN
    /\ lines \in Seq(PrintedRow)
    /\ FirstDivergentRow \in {0} \union Transactions
    /\ MissingPages \subseteq 2..(MaxPages - 1)

\* How far the amount read of a row is from the amount printed.
Error(i) ==
    CASE lines[i].read = "right"   -> 0
      [] lines[i].read = "flipped" -> -2 * lines[i].amount
      [] lines[i].read = "lost"    -> -lines[i].amount

Errors == [i \in DOMAIN lines |-> Error(i)]

\* Trusted if and only if both figures are printed and what was misread
\* cancels out, on accounts and on cards (reconciliation.py 3-7, 55-63).
TrustIsExact ==
    TrustStatus = "trusted" <=>
        /\ figures = {"opening", "closing"}
        /\ SumFunction(Errors) = 0

\* The errors between one transaction and the one before it.
Jump(i) ==
    SumFunctionOnSet(Errors, {k \in 1..i : \A m \in k..(i - 1) : lines[m].read = "lost"})

Jumps == {i \in Transactions : Jump(i) # 0}
AllBalanced == \A i \in DOMAIN lines : lines[i].balanced

\* With a balance on every row, the report names the first transaction at or
\* before which something was misread, and no other (reconciliation.py 13-16).
DivergenceIsLocated ==
    AllBalanced /\ BalanceChecked =>
        FirstDivergentRow = IF Jumps = {} THEN 0 ELSE Min(Jumps)

InnerPageLost ==
    \E i \in DOMAIN lines :
        /\ \A k \in DOMAIN lines : lines[k].page = lines[i].page => lines[k].read = "lost"
        /\ \E j, k \in Transactions :
              lines[j].page < lines[i].page /\ lines[i].page < lines[k].page

\* A statement whose lines may enter the ledger unreviewed has been checked:
\* its total is exact, its balances jump nowhere, and no page between two
\* others is missing (confidence.py 84-93, 99-100, 106-107).
AutoApproveIsEarned ==
    ValidationScore >= AUTO_APPROVE_AT =>
        /\ figures = {"opening", "closing"}
        /\ SumFunction(Errors) = 0
        /\ AllBalanced /\ BalanceChecked => Jumps = {}
        /\ ~InnerPageLost

\* Nothing the report says of a statement is more, or less, than what its
\* lines show: the verdict, the row it names and the score are all earned.
ReadingIsJudged == TrustIsExact /\ DivergenceIsLocated /\ AutoApproveIsEarned

-----------------------------------------------------------------------------
(* What a comment says and the code does not keep *)

\* reconciliation.py 143: a row that prints no balance does not break
\* continuity, so a statement read exactly as printed never diverges.
GapDoesNotBreak == ~Misread => FirstDivergentRow = 0
=============================================================================
