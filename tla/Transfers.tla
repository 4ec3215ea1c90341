------------------------------ MODULE Transfers ------------------------------
(***************************************************************************)
(* The part of a statement's import that looks beyond the statement:       *)
(* finding or creating its account, linking each transfer with its other   *)
(* side in another account, and widening what is known of the account.     *)
(* Each import is one transaction at READ COMMITTED; imports of several    *)
(* workers run at the same time, wait for each other's locks, and may be   *)
(* rolled back and tried again.                                            *)
(***************************************************************************)
EXTENDS Integers, FiniteSets, FiniteSetsExt, Sequences, SequencesExt

CONSTANTS
    Imports,        \* the statements imported
    Row,            \* row |-> [import, direction, amount, day, kind]
    Header,         \* import |-> [account, end, closing]: the end of the period
                    \* may be NoDate, the closing balance None: not printed
    MaxAborts,      \* bound: imports rolled back
    MaxRemovals     \* bound: statements deleted

None == "none"

NoGroup == {}

NoDate == 0

Rows == DOMAIN Row

ASSUME TransfersAssumption ==
    /\ MaxAborts \in Nat /\ MaxRemovals \in Nat
    /\ IsFiniteSet(Rows)
    /\ \A r \in Rows : Row[r].import \in Imports /\ Row[r].day \in Int
    /\ \A i \in Imports : Header[i].end \in Nat
    /\ None \notin Imports /\ None \notin Rows

VARIABLES
    stage,      \* import |-> how far its transaction is
    account,    \* import |-> the account id it resolved
    accounts,   \* the account rows: id |-> [triple, by, committed, coverage,
                \* asOf, balance]; asOf is balance_as_of
    entries,     \* the rows written: row |-> [account, group, spends, committed];
                \* a group is the set of the two sides it was made for
    written,    \* row |-> the uncommitted [by, group] written on it
    todo,       \* import |-> the rows it still has to find a match for
    target,     \* import |-> the match it found for the first of them
    covering,   \* account id |-> the import that holds its uncommitted update
    aborts, removals

transferVars == <<stage, account, accounts, entries, written, todo, target,
                  covering, aborts, removals>>

MaxGapDays == 3

Pairable == {"transfer", "credit_card_payment"}

RowsOf(i) == {r \in Rows : Row[r].import = i}

Triple(i) == Header[i].account

Unwritten == [by |-> None, group |-> NoGroup]

Holder(r) == written[r].by

-----------------------------------------------------------------------------
TransfersInit ==
    /\ stage = [i \in Imports |-> "new"]
    /\ account = [i \in Imports |-> None]
    /\ accounts = [a \in {} |-> None]
    /\ entries = [r \in {} |-> None]
    /\ written = [r \in Rows |-> Unwritten]
    /\ todo = [i \in Imports |-> <<>>]
    /\ target = [i \in Imports |-> None]
    /\ covering = [i \in Imports |-> None]
    /\ aborts = 0
    /\ removals = 0

Known(i) == {a \in DOMAIN accounts : /\ accounts[a].triple = Triple(i)
                                     /\ accounts[a].committed}

Racing(i) == {a \in DOMAIN accounts : /\ accounts[a].triple = Triple(i)
                                      /\ ~ accounts[a].committed}

\* services/accounts.resolve, the SELECT: the account is known already.
ResolveKnown(i) ==
    /\ stage[i] = "new"
    /\ \E a \in Known(i) :
           /\ account' = [account EXCEPT ![i] = a]
           /\ stage' = [stage EXCEPT ![i] = "resolved"]
    /\ UNCHANGED <<accounts, entries, written, todo, target, covering, aborts,
                   removals>>

\* The SELECT found nothing, and the INSERT is next.
ResolveMisses(i) ==
    /\ stage[i] = "new"
    /\ Known(i) = {}
    /\ stage' = [stage EXCEPT ![i] = "inserting"]
    /\ UNCHANGED <<account, accounts, entries, written, todo, target, covering,
                   aborts, removals>>

\* Mutant: the generated id is taken for the one stored.
StoredGenerated(i) == i

\* The account row the import uses after its INSERT: re-read, since another
\* import may have won.
Stored(i) == IF Known(i) = {} THEN i ELSE CHOOSE a \in Known(i) : TRUE

\* INSERT .. ON CONFLICT DO NOTHING waits for an uncommitted rival, then
\* does nothing when the rival has committed.
ResolveInserts(i) ==
    /\ stage[i] = "inserting"
    /\ Racing(i) = {}
    /\ accounts' =
         IF Known(i) # {} THEN accounts
         ELSE [a \in DOMAIN accounts \cup {i} |->
                 IF a = i THEN [triple |-> Triple(i), by |-> i,
                                committed |-> FALSE, coverage |-> NoDate,
                                asOf |-> NoDate, balance |-> None]
                 ELSE accounts[a]]
    /\ account' = [account EXCEPT ![i] = Stored(i)]
    /\ stage' = [stage EXCEPT ![i] = "resolved"]
    /\ UNCHANGED <<entries, written, todo, target, covering, aborts, removals>>

\* persist writes the rows, then pair_internal_movements lists those that
\* are one side of a movement, by date and amount.
Candidates(i) == {r \in RowsOf(i) : Row[r].kind \in Pairable}

Earlier(r, s) == \/ Row[r].day < Row[s].day
                 \/ Row[r].day = Row[s].day /\ Row[r].amount <= Row[s].amount

WriteRows(i) ==
    /\ stage[i] = "resolved"
    /\ entries' = [r \in DOMAIN entries \cup RowsOf(i) |->
                    IF r \in RowsOf(i)
                    THEN [account |-> account[i], group |-> NoGroup,
                          spends |-> Row[r].kind \notin Pairable,
                          committed |-> FALSE]
                    ELSE entries[r]]
    /\ \E order \in SetToSeqs(Candidates(i)) :
           /\ \A m, n \in DOMAIN order : m < n => Earlier(order[m], order[n])
           /\ todo' = [todo EXCEPT ![i] = order]
    /\ stage' = [stage EXCEPT ![i] = "pairing"]
    /\ UNCHANGED <<account, accounts, written, target, covering, aborts, removals>>

\* What the import sees of a row: its own writes, and else what is committed.
Visible(i, r) == r \in DOMAIN entries /\ (entries[r].committed \/ Row[r].import = i)

GroupSeen(i, r) ==
    IF Holder(r) = i THEN written[r].group
    ELSE entries[r].group

\* Mutant: the other side may be in the same account.
MatchesAnywhere(i, r) ==
    {m \in Rows : /\ Visible(i, m)
                  /\ GroupSeen(i, m) = NoGroup
                  /\ Row[m].direction # Row[r].direction
                  /\ Row[m].amount = Row[r].amount
                  /\ Row[m].day - Row[r].day \in -MaxGapDays .. MaxGapDays
                  /\ m # r}

MatchesOf(i, r) ==
    {m \in Rows : /\ Visible(i, m)
                  /\ entries[m].account # entries[r].account
                  /\ GroupSeen(i, m) = NoGroup
                  /\ Row[m].direction # Row[r].direction
                  /\ Row[m].amount = Row[r].amount
                  /\ Row[m].day - Row[r].day \in -MaxGapDays .. MaxGapDays}

Gap(r, m) == IF Row[m].day >= Row[r].day THEN Row[m].day - Row[r].day
             ELSE Row[r].day - Row[m].day

\* The nearest by date; among equals the order is that of creation.
Nearest(i, r) ==
    {m \in MatchesOf(i, r) : \A n \in MatchesOf(i, r) : Gap(r, m) <= Gap(r, n)}

FindMatch(i) ==
    /\ stage[i] = "pairing"
    /\ todo[i] # <<>>
    /\ target[i] = None
    /\ \E m \in Nearest(i, Head(todo[i])) : target' = [target EXCEPT ![i] = m]
    /\ UNCHANGED <<stage, account, accounts, entries, written, todo, covering,
                   aborts, removals>>

FindNoMatch(i) ==
    /\ stage[i] = "pairing"
    /\ todo[i] # <<>>
    /\ target[i] = None
    /\ MatchesOf(i, Head(todo[i])) = {}
    /\ todo' = [todo EXCEPT ![i] = Tail(@)]
    /\ UNCHANGED <<stage, account, accounts, entries, written, target, covering,
                   aborts, removals>>

\* Mutant: only the import's own side stops being spending.
LinkedOwnSide(i) == {Head(todo[i])}

Linked(i) == {Head(todo[i]), target[i]}

\* The group is inserted and both sides are updated, once no other import
\* holds the row. The row is looked up by its id: what it says by then is
\* overwritten. A row deleted meanwhile is not found.
Link(i) ==
    /\ target[i] # None
    /\ Holder(target[i]) \in {None, i}
    /\ written' = [r \in Rows |->
                     IF r \in Linked(i) /\ r \in DOMAIN entries
                     THEN [by |-> i, group |-> {Head(todo[i]), target[i]}]
                     ELSE written[r]]
    /\ todo' = [todo EXCEPT ![i] = Tail(@)]
    /\ target' = [target EXCEPT ![i] = None]
    /\ UNCHANGED <<stage, account, accounts, entries, covering, aborts, removals>>

\* record_statement_coverage: one UPDATE of the account's row.
Cover(i) ==
    /\ stage[i] = "pairing"
    /\ todo[i] = <<>>
    /\ \A j \in Imports \ {i} : covering[j] # account[i]
    /\ covering' = [covering EXCEPT ![i] = account[i]]
    /\ stage' = [stage EXCEPT ![i] = "covered"]
    /\ UNCHANGED <<account, accounts, entries, written, todo, target, aborts,
                   removals>>

\* Mutant: the balance of the statement imported last is taken.
NewerAlways(acct, i) == Header[i].closing # None

\* A statement that prints no closing balance says nothing of the balance,
\* and one that prints no period is no later than any that does.
Newer(acct, i) ==
    /\ Header[i].closing # None
    /\ \/ acct.asOf = NoDate
       \/ Header[i].end # NoDate /\ Header[i].end >= acct.asOf

Later(end, coverage) == IF end >= coverage THEN end ELSE coverage

Widened(acct, i) ==
    [acct EXCEPT !.committed = TRUE,
                 !.coverage = Later(Header[i].end, @),
                 !.asOf = IF Newer(acct, i) THEN Header[i].end ELSE @,
                 !.balance = IF Newer(acct, i) THEN Header[i].closing ELSE @]

Commit(i) ==
    /\ stage[i] = "covered"
    /\ accounts' = [a \in DOMAIN accounts |->
                      IF a = account[i] THEN Widened(accounts[a], i)
                      ELSE accounts[a]]
    /\ entries' = [r \in DOMAIN entries |->
                    [account |-> entries[r].account,
                     group |-> IF Holder(r) = i THEN written[r].group
                               ELSE entries[r].group,
                     spends |-> IF Holder(r) = i THEN FALSE ELSE entries[r].spends,
                     committed |-> entries[r].committed \/ Row[r].import = i]]
    /\ written' = [r \in Rows |-> IF Holder(r) = i THEN Unwritten ELSE written[r]]
    /\ covering' = [covering EXCEPT ![i] = None]
    /\ stage' = [stage EXCEPT ![i] = "done"]
    /\ UNCHANGED <<account, todo, target, aborts, removals>>

Forget(i) ==
    /\ accounts' = [a \in {x \in DOMAIN accounts : /\ accounts[x].by = i
                                                  => accounts[x].committed} |->
                      accounts[a]]
    /\ entries' = [r \in {x \in DOMAIN entries : /\ Row[x].import = i
                                              => entries[x].committed} |->
                    entries[r]]
    /\ written' = [r \in Rows |-> IF Holder(r) = i THEN Unwritten ELSE written[r]]
    /\ todo' = [todo EXCEPT ![i] = <<>>]
    /\ target' = [target EXCEPT ![i] = None]
    /\ covering' = [covering EXCEPT ![i] = None]
    /\ account' = [account EXCEPT ![i] = None]
    /\ stage' = [stage EXCEPT ![i] = "new"]

\* The transaction fails, the task is tried again.
Abort(i) ==
    /\ stage[i] \in {"inserting", "resolved", "pairing", "covered"}
    /\ aborts < MaxAborts
    /\ aborts' = aborts + 1
    /\ Forget(i)
    /\ UNCHANGED removals

\* The import waits for a row or an account that another one holds.
WaitsFor(i, j) ==
    \/ i # j /\ target[i] # None /\ Holder(target[i]) = j
    \/ /\ stage[i] = "inserting"
       /\ \E a \in Racing(i) : accounts[a].by = j

\* Imports wait for each other's rows in a circle: PostgreSQL rolls one back.
Deadlock(i) ==
    /\ \E j, k \in Imports : /\ WaitsFor(i, j)
                             /\ WaitsFor(j, k)
                             /\ (k = i \/ WaitsFor(k, i))
    /\ Forget(i)
    /\ UNCHANGED <<aborts, removals>>

\* A statement is deleted with its rows; their other sides stay as they are.
RemoveStatement(i) ==
    /\ stage[i] = "done"
    /\ removals < MaxRemovals
    /\ \A r \in RowsOf(i) : Holder(r) = None
    /\ removals' = removals + 1
    /\ entries' = [r \in DOMAIN entries \ RowsOf(i) |-> entries[r]]
    /\ stage' = [stage EXCEPT ![i] = "removed"]
    /\ UNCHANGED <<account, accounts, written, todo, target, covering, aborts>>

TransfersNext ==
    \E i \in Imports :
        \/ ResolveKnown(i)
        \/ ResolveMisses(i)
        \/ ResolveInserts(i)
        \/ WriteRows(i)
        \/ FindMatch(i)
        \/ FindNoMatch(i)
        \/ Link(i)
        \/ Cover(i)
        \/ Commit(i)
        \/ Abort(i)
        \/ Deadlock(i)
        \/ RemoveStatement(i)

TransfersSpec == TransfersInit /\ [][TransfersNext]_transferVars

-----------------------------------------------------------------------------
(* Properties                                                              *)

Committed == {r \in DOMAIN entries : entries[r].committed}

\* The variables keep their types; every row is in an account that exists,
\* whichever of two racing imports created it.
TransfersTypeOK ==
    /\ DOMAIN accounts \subseteq Imports
    /\ DOMAIN entries \subseteq Rows
    /\ \A r \in DOMAIN entries :
           /\ entries[r].account \in DOMAIN accounts
           /\ entries[r].group \subseteq Rows
    /\ \A r \in Committed : accounts[entries[r].account].committed

\* The two sides of a movement are a debit and a credit of the same amount,
\* in two accounts, a few days apart: nothing else is ever taken out of the
\* spending.
SidesMatch ==
    \A r, s \in Committed :
        (r # s /\ {r, s} \subseteq entries[r].group)
            => /\ entries[r].account # entries[s].account
               /\ Row[r].direction # Row[s].direction
               /\ Row[r].amount = Row[s].amount
               /\ Gap(r, s) <= MaxGapDays

\* Neither side of a movement counts as spending, whichever other movement a
\* racing import has linked one of them with since.
MovementIsNotSpending ==
    \A r, s \in Committed : s \in entries[r].group => ~ entries[s].spends

\* However the imports of an account's statements interleave, what is covered
\* reaches the end of each, and the balance shown, with its date, is one that
\* an imported statement printed: none of those that print one ends later. So
\* the balance is never that of the import that happened to commit last, nor
\* lost to a later statement that prints none.
BalanceIsLatest ==
    \A i \in Imports :
        stage[i] = "done" =>
            /\ accounts[account[i]].coverage >= Header[i].end
            /\ Header[i].closing # None =>
                 /\ accounts[account[i]].asOf >= Header[i].end
                 /\ \E j \in Imports :
                      /\ Triple(j) = Triple(i)
                      /\ stage[j] \in {"done", "removed"}
                      /\ accounts[account[i]].asOf = Header[j].end
                      /\ accounts[account[i]].balance = Header[j].closing
                      /\ Header[j].closing # None

\* The two sides of a movement are linked with each other.
MovementsHaveTwoSides ==
    \A r, s \in Committed : s \in entries[r].group => entries[s].group = entries[r].group

=============================================================================
