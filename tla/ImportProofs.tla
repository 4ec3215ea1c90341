---------------------------- MODULE ImportProofs ----------------------------
(***************************************************************************)
(* What imports leave in the ledger, proved for any statements and however *)
(* their imports interleave, fail and are undone: each transaction of the  *)
(* account once, a movement between own accounts as a pair of rows that is *)
(* no spending, and the balance of the latest statement.  And what the     *)
(* program concludes of a statement, however long it is and however the    *)
(* parser misread it.                                                      *)
(***************************************************************************)
EXTENDS Fingerprints, Transfers, Reconciliation, Sums, SequenceTheorems

-----------------------------------------------------------------------------
(* Fingerprints *)

\* The earlier transactions that are like transaction i, from first on.
Alike(first, i) == {k \in first..(i - 1) : history[k] = history[i]}

\* The day of a key is a number.
LEMMA KeyHasDay == \A key \in Key : key.day \in Nat
  <1>1. \A key \in Key : key.day \in Days
    BY DEF Key
  <1> QED
    BY <1>1, ConstantsAssumption

\* A set of earlier transactions is finite, and its size is a number.
LEMMA AlikeFinite ==
    ASSUME NEW first \in Nat, NEW i \in Nat
    PROVE  IsFiniteSet(Alike(first, i)) /\ Cardinality(Alike(first, i)) \in Nat
  <1>1. IsFiniteSet(first..(i - 1))
    BY FS_Interval
  <1>2. Alike(first, i) \subseteq first..(i - 1)
    BY DEF Alike
  <1>3. IsFiniteSet(Alike(first, i))
    BY <1>1, <1>2, FS_Subset
  <1> QED
    BY <1>3, FS_CardinalityType

\* No transaction before the day a statement begins with is like one on it:
\* the statement numbers its rows as the whole history would.
LEMMA StatementNumbersAsHistory ==
    ASSUME TypeOK, NEW first \in DOMAIN history, NEW i \in DOMAIN history,
           BeginsDay(first), first <= i
    PROVE  FingerprintOf(first, i) = Identity(i)
  <1>1. history \in Seq(Key) /\ DOMAIN history = 1..Len(history) /\ Len(history) \in Nat
    BY DEF TypeOK
  <1>2. \A k \in DOMAIN history : history[k].day \in Nat
    <2>1. \A k \in DOMAIN history : history[k] \in Key
      BY <1>1
    <2> QED
      BY <2>1, KeyHasDay
  <1>3. ASSUME NEW k \in 1..(first - 1) PROVE history[k] # history[i]
    <2>1. k \in DOMAIN history /\ first - 1 \in DOMAIN history /\ k <= first - 1 /\ first > 1
      BY <1>1
    <2>2. history[k].day <= history[first - 1].day
      BY <2>1 DEF TypeOK
    <2>3. history[first - 1].day < history[first].day
      BY <2>1 DEF BeginsDay
    <2>4. history[first].day <= history[i].day
      BY DEF TypeOK
    <2>5. history[k].day < history[i].day
      BY <1>2, <2>1, <2>2, <2>3, <2>4
    <2> QED
      BY <1>2, <2>1, <2>5
  <1>4. Alike(first, i) = Alike(1, i)
    <2>1. first \in Nat /\ i \in Nat /\ 1 <= first
      BY <1>1
    <2>2. ASSUME NEW k \in 1..(i - 1), history[k] = history[i] PROVE k \in first..(i - 1)
      <3>1. k \notin 1..(first - 1)
        BY <1>3, <2>2
      <3> QED
        BY <2>1, <2>2, <3>1
    <2> QED
      BY <2>1, <2>2 DEF Alike
  <1> QED
    BY <1>4 DEF FingerprintOf, Occurrence, Identity, Alike

\* Of two transactions that are alike, the later has the higher number.
LEMMA IdentityGrows ==
    ASSUME NEW i \in DOMAIN history, NEW k \in DOMAIN history, history \in Seq(Key),
           i < k
    PROVE  Identity(i) # Identity(k)
  <1>1. i \in Nat /\ k \in Nat /\ 1 <= i
    OBVIOUS
  <1>2. CASE history[i] # history[k]
    BY <1>2 DEF Identity
  <1>3. CASE history[i] = history[k]
    <2>1. Alike(1, i) \subseteq Alike(1, k) /\ i \in Alike(1, k) /\ i \notin Alike(1, i)
      BY <1>1, <1>3 DEF Alike
    <2>2. IsFiniteSet(Alike(1, k)) /\ Cardinality(Alike(1, k)) \in Nat
          /\ Cardinality(Alike(1, i)) \in Nat
      BY <1>1, AlikeFinite
    <2>3. Cardinality(Alike(1, i)) # Cardinality(Alike(1, k))
      BY <2>1, <2>2, FS_Subset
    <2> QED
      BY <2>3 DEF Identity, Alike
  <1> QED
    BY <1>2, <1>3

\* Two transactions have two identities.
LEMMA IdentityInjective ==
    ASSUME TypeOK, NEW i \in DOMAIN history, NEW k \in DOMAIN history,
           Identity(i) = Identity(k)
    PROVE  i = k
  <1>1. history \in Seq(Key)
    BY DEF TypeOK
  <1>2. i \in Nat /\ k \in Nat
    BY <1>1
  <1>3. ~(i < k) /\ ~(k < i)
    BY <1>1, IdentityGrows
  <1> QED
    BY <1>2, <1>3

\* What happens later changes the identity of nothing that has happened.
LEMMA IdentityStays ==
    ASSUME NEW i \in DOMAIN history, NEW key \in Key, history \in Seq(Key),
           history' = Append(history, key)
    PROVE  Identity(i)' = Identity(i)
  <1>1. \A k \in 1..i : k \in DOMAIN history /\ history'[k] = history[k]
    OBVIOUS
  <1>2. {k \in 1..(i - 1) : history'[k] = history'[i]}
          = {k \in 1..(i - 1) : history[k] = history[i]}
    BY <1>1
  <1>3. history'[i] = history[i]
    BY <1>1
  <1> QED
    BY <1>2, <1>3 DEF Identity

ExactInv == ledger = {Identity(i) : i \in covered}

\* Both are kept when a transaction happens.
LEMMA HappenKeeps ==
    ASSUME TypeOK, ExactInv, NEW key \in Key, Happen(key)
    PROVE  TypeOK' /\ ExactInv'
  <1>1. history \in Seq(Key) /\ history' = Append(history, key) /\ covered' = covered
        /\ ledger' = ledger /\ covered \subseteq DOMAIN history
    BY DEF Happen, TypeOK
  <1>2. /\ history' \in Seq(Key) /\ Len(history) \in Nat
        /\ DOMAIN history = 1..Len(history) /\ DOMAIN history' = 1..(Len(history) + 1)
        /\ \A i \in DOMAIN history : history'[i] = history[i]
        /\ history'[Len(history) + 1] = key
    BY <1>1
  <1>3. ASSUME NEW i \in DOMAIN history', NEW k \in DOMAIN history', i <= k
        PROVE  history'[i].day <= history'[k].day
    <2>1. \A j \in DOMAIN history' : history'[j].day \in Nat
      <3>1. \A j \in DOMAIN history' : history'[j] \in Key
        BY <1>2
      <3> QED
        BY <3>1, KeyHasDay
    <2>2. CASE k \in DOMAIN history
      BY <1>2, <1>3, <2>2 DEF TypeOK
    <2>3. CASE i = Len(history) + 1 /\ k = Len(history) + 1
      BY <2>1, <2>3
    <2>4. CASE i \in DOMAIN history /\ k = Len(history) + 1
      <3>1. history # <<>> /\ Len(history) \in DOMAIN history /\ i <= Len(history)
        BY <1>1, <1>2, <2>4
      <3>2. history[Len(history)].day <= key.day
        BY <3>1 DEF Happen
      <3>3. history[i].day <= history[Len(history)].day
        BY <2>4, <3>1 DEF TypeOK
      <3> QED
        BY <1>2, <2>1, <2>4, <3>1, <3>2, <3>3
    <2> QED
      BY <1>2, <1>3, <2>2, <2>3, <2>4
  <1>4. TypeOK'
    BY <1>1, <1>2, <1>3 DEF TypeOK
  <1>5. \A i \in covered : Identity(i)' = Identity(i)
    BY <1>1, IdentityStays
  <1>6. {Identity(i)' : i \in covered} = {Identity(i) : i \in covered}
    BY <1>5
  <1>7. ExactInv'
    BY <1>1, <1>6 DEF ExactInv
  <1> QED
    BY <1>4, <1>7

\* Both are kept when a statement is imported.
LEMMA ImportKeeps ==
    ASSUME TypeOK, ExactInv, NEW first \in DOMAIN history, NEW last \in DOMAIN history,
           Import(first, last)
    PROVE  TypeOK' /\ ExactInv'
  <1>1. history \in Seq(Key) /\ history' = history /\ DOMAIN history = 1..Len(history)
        /\ Len(history) \in Nat
    BY DEF Import, TypeOK
  <1>2. \A i \in first..last : i \in DOMAIN history /\ FingerprintOf(first, i) = Identity(i)
    BY <1>1, StatementNumbersAsHistory DEF Import
  <1>3. {FingerprintOf(first, i) : i \in first..last} = {Identity(i) : i \in first..last}
    BY <1>2
  <1>4. \A i \in DOMAIN history : Identity(i) \in Fingerprint
    <2>1. ASSUME NEW i \in DOMAIN history PROVE Identity(i) \in Fingerprint
      <3>1. history[i] \in Key /\ i \in Nat
        BY <1>1
      <3>2. Cardinality(Alike(1, i)) \in Nat
        BY <3>1, AlikeFinite
      <3> QED
        BY <3>1, <3>2 DEF Identity, Alike, Fingerprint
    <2> QED
      BY <2>1
  <1>5. TypeOK'
    BY <1>1, <1>2, <1>3, <1>4 DEF TypeOK, Import
  <1>6. \A i \in DOMAIN history : Identity(i)' = Identity(i)
    BY <1>1 DEF Identity
  <1>7. ledger' = {Identity(i) : i \in covered \union first..last}
    BY <1>3 DEF Import, ExactInv
  <1>8. \A i \in covered' : Identity(i)' = Identity(i)
    BY <1>1, <1>2, <1>6 DEF Import, TypeOK
  <1>9. {Identity(i)' : i \in covered'} = {Identity(i) : i \in covered'}
    BY <1>8
  <1>10. ExactInv'
    BY <1>7, <1>9 DEF ExactInv, Import
  <1> QED
    BY <1>5, <1>10

\* Whatever happens and is imported.
LEMMA LedgerKept == Spec => [](TypeOK /\ ExactInv)
  <1>1. Init => TypeOK /\ ExactInv
    BY DEF Init, TypeOK, ExactInv
  <1>2. TypeOK /\ ExactInv /\ [Next]_vars => (TypeOK /\ ExactInv)'
    <2> SUFFICES ASSUME TypeOK, ExactInv, [Next]_vars PROVE TypeOK' /\ ExactInv'
      OBVIOUS
    <2>1. CASE \E key \in Key : Happen(key)
      BY <2>1, HappenKeeps
    <2>2. CASE \E first, last \in DOMAIN history : Import(first, last)
      BY <2>2, ImportKeeps
    <2>3. CASE UNCHANGED vars
      <3>1. history' = history /\ covered' = covered /\ ledger' = ledger
        BY <2>3 DEF vars
      <3>2. \A i \in covered : Identity(i)' = Identity(i)
        BY <3>1 DEF Identity
      <3>3. {Identity(i)' : i \in covered} = {Identity(i) : i \in covered}
        BY <3>2
      <3>4. TypeOK'
        BY <3>1 DEF TypeOK
      <3> QED
        BY <3>1, <3>3, <3>4 DEF ExactInv
    <2> QED
      BY <2>1, <2>2, <2>3 DEF Next
  <1> QED
    BY <1>1, <1>2, PTL DEF Spec

\* Every variable keeps its type: the transactions stay in the order of their days.
THEOREM FingerprintsTypeCorrect == Spec => []TypeOK
BY LedgerKept, PTL

\* The ledger holds each transaction of the imported statements exactly once.
THEOREM FingerprintsExact == Spec => []LedgerIsExact
  <1>1. TypeOK /\ ExactInv => LedgerIsExact
    BY IdentityInjective DEF TypeOK, ExactInv, LedgerIsExact
  <1> QED
    BY <1>1, LedgerKept, PTL

-----------------------------------------------------------------------------
(* Transfers: the inductive invariant *)

Triples == {Triple(i) : i \in Imports}
Balances == {None} \cup {Header[i].closing : i \in Imports}
AccountRow == [triple : Triples, by : Imports, committed : BOOLEAN, coverage : Nat,
               asOf : Nat, balance : Balances]
EntryRow == [account : Imports, group : SUBSET Rows, spends : BOOLEAN,
             committed : BOOLEAN]
Stages == {"new", "inserting", "resolved", "pairing", "covered", "done", "removed"}
Ended == {"done", "removed"}

\* What the variables hold.
TypesInv ==
    /\ stage \in [Imports -> Stages]
    /\ account \in [Imports -> Imports \cup {None}]
    /\ DOMAIN accounts \subseteq Imports
    /\ \A a \in DOMAIN accounts : accounts[a] \in AccountRow
    /\ DOMAIN entries \subseteq Rows
    /\ \A r \in DOMAIN entries : entries[r] \in EntryRow
    /\ written \in [Rows -> [by : Imports \cup {None}, group : SUBSET Rows]]
    /\ todo \in [Imports -> Seq(Rows)]
    /\ target \in [Imports -> Rows \cup {None}]

\* An account is its creator's until that one has committed.
AccountsInv ==
    /\ \A a \in DOMAIN accounts :
           /\ accounts[a].by = a /\ accounts[a].triple = Triple(a) /\ account[a] = a
           /\ stage[a] \in IF accounts[a].committed THEN Ended
                           ELSE {"resolved", "pairing", "covered"}
    /\ \A i \in Imports : stage[i] \notin {"new", "inserting"} =>
           /\ account[i] \in DOMAIN accounts
           /\ accounts[account[i]].triple = Triple(i)
           /\ account[i] = i \/ accounts[account[i]].committed

\* An account shows no balance, or the balance and the end of one of its
\* statements.
BalanceShown(a) ==
    IF accounts[a].balance = None THEN accounts[a].asOf = NoDate
    ELSE \E j \in Imports : /\ Triple(j) = accounts[a].triple
                            /\ stage[j] \in Ended
                            /\ accounts[a].asOf = Header[j].end
                            /\ accounts[a].balance = Header[j].closing

\* The account is covered to the end of a statement, and what it shows is no
\* older than what that one prints.
Covers(a, i) ==
    /\ accounts[a].coverage >= Header[i].end
    /\ Header[i].closing # None => /\ accounts[a].asOf >= Header[i].end
                                   /\ accounts[a].balance # None

BalanceInv ==
    /\ \A a \in DOMAIN accounts : BalanceShown(a)
    /\ \A i \in Imports : stage[i] \in Ended => Covers(account[i], i)

\* The rows there are, and those that are committed, by how far their import is.
EntriesInv ==
    \A r \in Rows :
        /\ r \in DOMAIN entries <=> stage[Row[r].import] \in {"pairing", "covered", "done"}
        /\ r \in DOMAIN entries => /\ entries[r].account = account[Row[r].import]
                                   /\ entries[r].committed <=> stage[Row[r].import] = "done"

Sides(r, s) ==
    /\ account[Row[r].import] # account[Row[s].import]
    /\ Row[r].direction # Row[s].direction
    /\ Row[r].amount = Row[s].amount
    /\ Gap(r, s) <= MaxGapDays

Pairs(group) == \A r, s \in group : r # s => Sides(r, s)

\* What an import still has to do.
WorkOf(i) ==
    /\ todo[i] \in Seq(RowsOf(i))
    /\ todo[i] # <<>> => stage[i] = "pairing"
    /\ target[i] # None => /\ todo[i] # <<>>
                           /\ stage[Row[target[i]].import] \in Ended
                           /\ Sides(Head(todo[i]), target[i])

WorkInv == \A i \in Imports : WorkOf(i)

\* A row is held by an import that is not over, and so is its other side, but
\* for one whose statement was deleted.
HeldInv ==
    \A r \in Rows :
        Holder(r) # None =>
            /\ stage[Holder(r)] \in {"pairing", "covered"}
            /\ r \in DOMAIN entries
            /\ Row[r].import = Holder(r) \/ stage[Row[r].import] = "done"
            /\ Pairs(written[r].group)
            /\ \A s \in written[r].group :
                   Holder(s) = Holder(r) \/ stage[Row[s].import] = "removed"

\* The same of the groups in place, whose imports are over.
GroupsInv ==
    \A r \in DOMAIN entries :
        /\ Pairs(entries[r].group)
        /\ \A s \in entries[r].group :
               /\ stage[Row[s].import] \in Ended
               /\ s \in DOMAIN entries => ~entries[s].spends

TInv == /\ TypesInv /\ AccountsInv /\ BalanceInv /\ EntriesInv
        /\ WorkInv /\ HeldInv /\ GroupsInv

\* The rows of an import.
LEMMA RowsOfImport ==
  /\ \A i \in Imports : RowsOf(i) \subseteq Rows
  /\ \A r \in Rows : Row[r].import \in Imports /\ r \in RowsOf(Row[r].import)
BY TransfersAssumption DEF RowsOf

\* The order in which an import looks for matches lists rows of its own.
LEMMA OrderIsOfRows ==
  ASSUME NEW i \in Imports, NEW order \in SetToSeqs(Candidates(i))
  PROVE  order \in Seq(RowsOf(i))
<1>1. Candidates(i) \subseteq RowsOf(i) /\ Candidates(i) \subseteq Rows
  BY DEF Candidates, RowsOf
<1>2. IsFiniteSet(Candidates(i))
  BY <1>1, TransfersAssumption, FS_Subset
<1>3. Cardinality(Candidates(i)) \in Nat
  BY <1>2, FS_CardinalityType
<1>4. order \in [1..Cardinality(Candidates(i)) -> Candidates(i)]
  BY DEF SetToSeqs
<1>5. order \in Seq(Candidates(i))
  BY <1>3, <1>4, SeqDef
<1>. QED  BY <1>1, <1>5, SeqMonotonic

\* Sides are told by the accounts of the two imports, and by nothing else that
\* changes.
LEMMA SidesStay ==
  ASSUME NEW r, NEW s, Sides(r, s),
         account'[Row[r].import] = account[Row[r].import],
         account'[Row[s].import] = account[Row[s].import]
  PROVE  Sides(r, s)'
BY DEF Sides, Gap

\* Nothing is imported yet.
LEMMA InitTInv == TransfersInit => TInv
BY RowsOfImport, TransfersAssumption
   DEF TransfersInit, TInv, TypesInv, AccountsInv, BalanceInv, EntriesInv, WorkInv, WorkOf,
       HeldInv, GroupsInv, Holder, Unwritten, NoGroup, Stages, Ended, Pairs

\* The groups of the others name no row of an import that is not over.
LEMMA OthersGroups ==
  ASSUME TInv, NEW i \in Imports, stage[i] \notin Ended
  PROVE  /\ \A r \in Rows : Holder(r) \notin {None, i} =>
               \A s \in written[r].group : s \in Rows /\ Row[s].import # i
         /\ \A r \in DOMAIN entries : \A s \in entries[r].group :
               s \in Rows /\ Row[s].import # i
<1>. USE DEF TInv
<1>1. ASSUME NEW r \in Rows, Holder(r) \notin {None, i}, NEW s \in written[r].group
      PROVE  s \in Rows /\ Row[s].import # i
  <2>1. s \in Rows
    BY DEF TypesInv
  <2>2. CASE Holder(s) = Holder(r)
    BY <1>1, <2>1, <2>2 DEF HeldInv, Ended
  <2>3. CASE stage[Row[s].import] = "removed"
    BY <2>1, <2>3 DEF Ended
  <2>. QED  BY <1>1, <2>1, <2>2, <2>3 DEF HeldInv
<1>2. ASSUME NEW r \in DOMAIN entries, NEW s \in entries[r].group
      PROVE  s \in Rows /\ Row[s].import # i
  <2>1. s \in Rows
    BY DEF TypesInv, EntryRow
  <2>. QED  BY <2>1 DEF GroupsInv
<1>. QED  BY <1>1, <1>2

\* A step of an import that is not over, and writes no row, leaves them alone.
LEMMA GroupsKept ==
  ASSUME TInv, NEW i \in Imports, stage[i] \notin Ended, UNCHANGED <<entries, written>>,
         \A j \in Imports \ {i} : stage'[j] = stage[j] /\ account'[j] = account[j],
         stage[i] \in {"pairing", "covered"} =>
             stage'[i] \in {"pairing", "covered"} /\ account'[i] = account[i]
  PROVE  HeldInv' /\ GroupsInv'
<1>. USE DEF TInv
<1>1. \A r, s \in Rows : Sides(r, s) /\ Row[r].import # i /\ Row[s].import # i => Sides(r, s)'
  BY SidesStay, RowsOfImport
<1>2. ASSUME NEW r \in Rows, Holder(r) # None
      PROVE  /\ stage'[Holder(r)] \in {"pairing", "covered"}
             /\ Row[r].import = Holder(r) \/ stage'[Row[r].import] = "done"
             /\ Pairs(written[r].group)'
             /\ \A s \in written[r].group :
                    Holder(s) = Holder(r) \/ stage'[Row[s].import] = "removed"
  <2>1. Holder(r) \in Imports /\ written[r].group \subseteq Rows /\ Row[r].import \in Imports
    BY <1>2, RowsOfImport DEF TypesInv, Holder
  <2>2. \A s \in written[r].group : stage[Row[s].import] = "removed"
             => stage'[Row[s].import] = "removed"
    BY <2>1, RowsOfImport DEF Ended
  <2>3. CASE Holder(r) = i
    <3>1. \A s \in written[r].group : account'[Row[s].import] = account[Row[s].import]
      BY <1>2, <2>1, <2>3, RowsOfImport DEF HeldInv
    <3>2. Pairs(written[r].group)'
      BY <1>2, <2>1, <3>1, SidesStay DEF HeldInv, Pairs
    <3>. QED  BY <1>2, <2>1, <2>2, <2>3, <3>2 DEF HeldInv, Ended
  <2>4. CASE Holder(r) # i
    <3>1. \A s \in written[r].group : Row[s].import # i
      BY <1>2, <2>4, OthersGroups
    <3>2. Pairs(written[r].group)'
      BY <1>1, <1>2, <2>1, <3>1 DEF HeldInv, Pairs
    <3>. QED  BY <1>2, <2>1, <2>2, <2>4, <3>2 DEF HeldInv, Ended
  <2>. QED  BY <2>3, <2>4
<1>3. HeldInv'
  BY <1>2 DEF HeldInv, Holder
<1>4. ASSUME NEW r \in DOMAIN entries
      PROVE  /\ Pairs(entries[r].group)'
             /\ \A s \in entries[r].group :
                    /\ stage'[Row[s].import] \in Ended
                    /\ s \in DOMAIN entries => ~entries[s].spends
  <2>1. \A s \in entries[r].group : s \in Rows /\ Row[s].import # i /\ Row[s].import \in Imports
    BY OthersGroups, RowsOfImport
  <2>2. Pairs(entries[r].group)'
    BY <1>1, <2>1 DEF GroupsInv, Pairs
  <2>. QED  BY <2>1, <2>2 DEF GroupsInv
<1>5. GroupsInv'
  BY <1>4 DEF GroupsInv
<1>. QED  BY <1>3, <1>5

\* An account that does not change shows what it showed, as long as no import
\* that is over starts again.
LEMMA BalanceStays ==
  ASSUME NEW a, accounts'[a] = accounts[a], BalanceShown(a),
         \A j \in Imports : stage[j] \in Ended => stage'[j] \in Ended
  PROVE  BalanceShown(a)'
BY DEF BalanceShown, Triple, NoDate

LEMMA BalanceKept ==
  ASSUME BalanceInv, UNCHANGED accounts,
         \A j \in Imports : stage[j] \in Ended => stage'[j] \in Ended,
         \A j \in Imports : stage'[j] \in Ended =>
             stage[j] \in Ended /\ account'[j] = account[j]
  PROVE  BalanceInv'
BY BalanceStays DEF BalanceInv, Covers

\* A step of an import that is not over, and changes no account row, leaves
\* the accounts in order if it only ever settles on one it knows.
LEMMA AccountsKept ==
  ASSUME TInv, NEW i \in Imports, stage[i] \notin Ended, stage'[i] \in Stages \ Ended,
         accounts' = accounts,
         \A j \in Imports \ {i} : stage'[j] = stage[j] /\ account'[j] = account[j],
         \/ /\ stage[i] \in {"resolved", "pairing", "covered"}
            /\ stage'[i] \in {"resolved", "pairing", "covered"}
            /\ account'[i] = account[i]
         \/ /\ stage[i] \in {"new", "inserting"}
            /\ stage'[i] \in {"new", "inserting"} \/ account'[i] \in Known(i)
  PROVE  AccountsInv' /\ BalanceInv'
<1>. USE DEF TInv
<1>1. ASSUME NEW a \in DOMAIN accounts
      PROVE  /\ accounts[a].by = a /\ accounts[a].triple = Triple(a) /\ account'[a] = a
             /\ stage'[a] \in IF accounts[a].committed THEN Ended
                              ELSE {"resolved", "pairing", "covered"}
  <2>1. a \in Imports
    BY DEF TypesInv
  <2>2. CASE a # i
    BY <2>1, <2>2 DEF AccountsInv
  <2>3. CASE a = i
    <3>1. stage[i] \in {"resolved", "pairing", "covered"} /\ ~accounts[a].committed
      BY <2>3 DEF AccountsInv, Ended
    <3>2. stage'[i] \in {"resolved", "pairing", "covered"} /\ account'[i] = account[i]
      BY <3>1
    <3>. QED  BY <2>3, <3>1, <3>2 DEF AccountsInv
  <2>. QED  BY <2>2, <2>3
<1>2. ASSUME NEW j \in Imports, stage'[j] \notin {"new", "inserting"}
      PROVE  /\ account'[j] \in DOMAIN accounts
             /\ accounts[account'[j]].triple = Triple(j)
             /\ account'[j] = j \/ accounts[account'[j]].committed
  <2>1. CASE j # i
    BY <1>2, <2>1 DEF AccountsInv
  <2>2. CASE j = i /\ account'[i] = account[i] /\ stage[i] \in {"resolved", "pairing", "covered"}
    BY <2>2 DEF AccountsInv
  <2>3. CASE j = i /\ account'[i] \in Known(i)
    BY <2>3 DEF Known
  <2>. QED  BY <1>2, <2>1, <2>2, <2>3
<1>3. AccountsInv'
  BY <1>1, <1>2 DEF AccountsInv, Triple
<1>4. \A j \in Imports : stage'[j] \in Ended => stage[j] = stage'[j] /\ account'[j] = account[j]
  OBVIOUS
<1>5. \A j \in Imports : stage[j] \in Ended => stage'[j] \in Ended
  BY DEF Ended
<1>6. BalanceInv'
  BY <1>4, <1>5, BalanceKept
<1>. QED  BY <1>3, <1>6

\* Nor does it disturb what the others still have to do.
LEMMA OthersWork ==
  ASSUME TInv, NEW i \in Imports, stage[i] \notin Ended,
         \A j \in Imports \ {i} : /\ stage'[j] = stage[j] /\ account'[j] = account[j]
                                  /\ todo'[j] = todo[j] /\ target'[j] = target[j],
         NEW j \in Imports \ {i}
  PROVE  WorkOf(j)'
<1>. USE DEF TInv
<1>1. CASE target[j] # None
  <2>1. target[j] \in Rows /\ Row[target[j]].import \in Imports
    BY <1>1, RowsOfImport DEF TypesInv
  <2>2. Row[target[j]].import # i
    BY <1>1, <2>1 DEF WorkInv, WorkOf
  <2>3. todo[j] # <<>> /\ todo[j] \in Seq(RowsOf(j)) /\ Sides(Head(todo[j]), target[j])
    BY <1>1 DEF WorkInv, WorkOf
  <2>4. Head(todo[j]) \in RowsOf(j)
    BY <2>3, HeadTailProperties
  <2>5. Row[Head(todo[j])].import = j
    BY <2>4 DEF RowsOf
  <2>6. Sides(Head(todo[j]), target[j])'
    BY <2>1, <2>2, <2>3, <2>5, SidesStay DEF Sides, Gap
  <2>. QED  BY <1>1, <2>1, <2>2, <2>6 DEF WorkInv, WorkOf, Sides, Gap
<1>2. CASE target[j] = None
  BY <1>2 DEF WorkInv, WorkOf
<1>. QED  BY <1>1, <1>2

\* A step that leaves the import's own work alone too.
LEMMA WorkKept ==
  ASSUME TInv, NEW i \in Imports, stage[i] \notin Ended, UNCHANGED <<todo, target>>,
         stage[i] # "pairing",
         \A j \in Imports \ {i} : stage'[j] = stage[j] /\ account'[j] = account[j]
  PROVE  WorkInv'
<1>. USE DEF TInv
<1>1. todo[i] = <<>> /\ target[i] = None /\ todo[i] \in Seq(RowsOf(i))
  BY DEF WorkInv, WorkOf
<1>2. \A j \in Imports \ {i} : WorkOf(j)'
  BY OthersWork
<1>. QED  BY <1>1, <1>2 DEF WorkInv, WorkOf, RowsOf, Rows

-----------------------------------------------------------------------------
(* Transfers: one lemma per action *)

\* An import finds its account.
LEMMA ResolveKnownKeeps ==
  ASSUME TInv, NEW i \in Imports, ResolveKnown(i)
  PROVE  TInv'
<1>. USE DEF TInv
<1>1. PICK a \in Known(i) : account' = [account EXCEPT ![i] = a]
  BY DEF ResolveKnown
<1>2. /\ stage[i] = "new" /\ stage'[i] = "resolved" /\ account'[i] = a
      /\ \A j \in Imports \ {i} : stage'[j] = stage[j] /\ account'[j] = account[j]
  BY <1>1 DEF ResolveKnown, TypesInv
<1>3. TypesInv'
  BY DEF ResolveKnown, TypesInv, Known, Stages
<1>4. AccountsInv' /\ BalanceInv'
  BY <1>2, AccountsKept DEF ResolveKnown, Stages, Ended
<1>5. EntriesInv'
  BY RowsOfImport DEF ResolveKnown, EntriesInv, TypesInv
<1>6. WorkInv'
  BY <1>2, WorkKept DEF ResolveKnown, Ended
<1>7. HeldInv' /\ GroupsInv'
  BY <1>2, GroupsKept DEF ResolveKnown, Ended
<1>. QED  BY <1>3, <1>4, <1>5, <1>6, <1>7

\* An import finds no account, and is about to insert one.
LEMMA ResolveMissesKeeps ==
  ASSUME TInv, NEW i \in Imports, ResolveMisses(i)
  PROVE  TInv'
<1>. USE DEF TInv
<1>1. /\ stage[i] = "new" /\ stage'[i] = "inserting"
      /\ \A j \in Imports \ {i} : stage'[j] = stage[j] /\ account'[j] = account[j]
  BY DEF ResolveMisses, TypesInv
<1>2. TypesInv'
  BY DEF ResolveMisses, TypesInv, Stages
<1>3. AccountsInv' /\ BalanceInv'
  BY <1>1, AccountsKept DEF ResolveMisses, Stages, Ended
<1>4. EntriesInv'
  BY RowsOfImport DEF ResolveMisses, EntriesInv, TypesInv
<1>5. WorkInv'
  BY <1>1, WorkKept DEF ResolveMisses, Ended
<1>6. HeldInv' /\ GroupsInv'
  BY <1>1, GroupsKept DEF ResolveMisses, Ended
<1>. QED  BY <1>2, <1>3, <1>4, <1>5, <1>6

\* An import inserts its account.
LEMMA ResolveInsertsKeeps ==
  ASSUME TInv, NEW i \in Imports, ResolveInserts(i)
  PROVE  TInv'
<1>. USE DEF TInv
<1>. DEFINE created == [triple |-> Triple(i), by |-> i, committed |-> FALSE,
                        coverage |-> NoDate, asOf |-> NoDate, balance |-> None]
<1>1. created \in AccountRow
  BY DEF AccountRow, Triples, Balances, NoDate
<1>2. /\ stage[i] = "inserting" /\ stage'[i] = "resolved"
      /\ account' = [account EXCEPT ![i] = Stored(i)] /\ account'[i] = Stored(i)
      /\ \A j \in Imports \ {i} : stage'[j] = stage[j] /\ account'[j] = account[j]
  BY DEF ResolveInserts, TypesInv
<1>3. ASSUME Known(i) = {} PROVE TypesInv' /\ AccountsInv' /\ BalanceInv'
  <2>1. accounts' = [a \in DOMAIN accounts \cup {i} |-> IF a = i THEN created ELSE accounts[a]]
    BY <1>3 DEF ResolveInserts
  <2>2. account'[i] = i
    BY <1>2, <1>3 DEF Stored
  <2>3. i \notin DOMAIN accounts
    BY <1>2 DEF AccountsInv, Ended
  <2>4. /\ created.by = i /\ created.triple = Triple(i) /\ ~created.committed
        /\ created.asOf = NoDate /\ created.balance = None
    OBVIOUS
  <2>. HIDE DEF created
  <2>5. /\ DOMAIN accounts' = DOMAIN accounts \cup {i}
        /\ \A a \in DOMAIN accounts : a # i /\ accounts'[a] = accounts[a]
        /\ accounts'[i] = created
    BY <2>1, <2>3
  <2>6. TypesInv'
    <3>1. account' \in [Imports -> Imports \cup {None}] /\ stage' \in [Imports -> Stages]
      BY <1>2, <1>3 DEF ResolveInserts, TypesInv, Stages, Stored
    <3>2. DOMAIN accounts' \subseteq Imports
            /\ \A a \in DOMAIN accounts' : accounts'[a] \in AccountRow
      BY <1>1, <2>5 DEF TypesInv
    <3>. QED  BY <3>1, <3>2
                 DEF ResolveInserts, TypesInv, AccountRow, EntryRow, Triples, Balances, Triple
  <2>7. ASSUME NEW a \in DOMAIN accounts'
        PROVE  /\ accounts'[a].by = a /\ accounts'[a].triple = Triple(a) /\ account'[a] = a
               /\ stage'[a] \in IF accounts'[a].committed THEN Ended
                                ELSE {"resolved", "pairing", "covered"}
    <3>1. CASE a = i
      BY <1>2, <2>2, <2>4, <2>5, <3>1
    <3>2. CASE a # i
      BY <1>2, <2>5, <3>2 DEF AccountsInv, TypesInv
    <3>. QED  BY <3>1, <3>2
  <2>8. ASSUME NEW j \in Imports, stage'[j] \notin {"new", "inserting"}
        PROVE  /\ account'[j] \in DOMAIN accounts'
               /\ accounts'[account'[j]].triple = Triple(j)
               /\ account'[j] = j \/ accounts'[account'[j]].committed
    <3>1. CASE j = i
      BY <2>2, <2>4, <2>5, <3>1
    <3>2. CASE j # i
      BY <1>2, <2>5, <2>8, <3>2 DEF AccountsInv
    <3>. QED  BY <3>1, <3>2
  <2>9. AccountsInv'
    BY <2>7, <2>8 DEF AccountsInv, Triple
  <2>10. ASSUME NEW a \in DOMAIN accounts'
         PROVE  BalanceShown(a)'
    <3>1. CASE a = i
      BY <2>4, <2>5, <3>1 DEF BalanceShown, NoDate
    <3>2. CASE a # i
      <4>1. BalanceShown(a) /\ accounts'[a] = accounts[a]
        BY <2>5, <3>2 DEF BalanceInv
      <4>2. \A j \in Imports : stage[j] \in Ended => stage'[j] \in Ended
        BY <1>2 DEF Ended
      <4>. QED  BY <4>1, <4>2, BalanceStays
    <3>. QED  BY <3>1, <3>2
  <2>11. ASSUME NEW j \in Imports, stage'[j] \in Ended
         PROVE  Covers(account[j], j)'
    <3>1. j # i /\ stage[j] \in Ended /\ account[j] \in DOMAIN accounts
      BY <1>2, <2>11 DEF AccountsInv, Ended
    <3>2. account'[j] = account[j] /\ accounts'[account[j]] = accounts[account[j]]
      BY <1>2, <2>5, <3>1
    <3>3. Covers(account[j], j)
      BY <3>1 DEF BalanceInv
    <3>. QED  BY <3>2, <3>3 DEF Covers
  <2>12. BalanceInv'
    BY <2>10, <2>11 DEF BalanceInv
  <2>. QED  BY <2>6, <2>9, <2>12
<1>4. ASSUME Known(i) # {} PROVE TypesInv' /\ AccountsInv' /\ BalanceInv'
  <2>1. Stored(i) \in Known(i) /\ accounts' = accounts
    BY <1>4 DEF ResolveInserts, Stored
  <2>2. TypesInv'
    BY <1>2, <2>1 DEF ResolveInserts, TypesInv, Known, Stages
  <2>3. AccountsInv' /\ BalanceInv'
    BY <1>2, <2>1, AccountsKept DEF Stages, Ended
  <2>. QED  BY <2>2, <2>3
<1>5. EntriesInv'
  BY <1>2, RowsOfImport DEF ResolveInserts, EntriesInv, TypesInv
<1>6. WorkInv'
  BY <1>2, WorkKept DEF ResolveInserts, Ended
<1>7. HeldInv' /\ GroupsInv'
  BY <1>2, GroupsKept DEF ResolveInserts, Ended
<1>. QED  BY <1>3, <1>4, <1>5, <1>6, <1>7

\* The rows written are the import's own, and nobody has seen them.
LEMMA WriteRowsKeeps ==
  ASSUME TInv, NEW i \in Imports, WriteRows(i)
  PROVE  TInv'
<1>. USE DEF TInv
<1>1. /\ stage[i] = "resolved" /\ stage'[i] = "pairing"
      /\ account' = account /\ accounts' = accounts /\ written' = written /\ target' = target
      /\ \A j \in Imports \ {i} : /\ stage'[j] = stage[j] /\ account'[j] = account[j]
                                  /\ todo'[j] = todo[j] /\ target'[j] = target[j]
  BY DEF WriteRows, TypesInv
<1>2. PICK order \in SetToSeqs(Candidates(i)) : todo' = [todo EXCEPT ![i] = order]
  BY DEF WriteRows
<1>3. order \in Seq(RowsOf(i)) /\ order \in Seq(Rows) /\ todo'[i] = order
  BY <1>2, OrderIsOfRows, RowsOfImport, SeqMonotonic DEF TypesInv
<1>4. account[i] \in DOMAIN accounts /\ account[i] \in Imports
  BY <1>1 DEF AccountsInv, TypesInv
<1>5. /\ DOMAIN entries' = DOMAIN entries \cup RowsOf(i)
      /\ \A r \in RowsOf(i) :
             entries'[r] = [account |-> account[i], group |-> NoGroup,
                            spends |-> Row[r].kind \notin Pairable, committed |-> FALSE]
      /\ \A r \in DOMAIN entries \ RowsOf(i) : entries'[r] = entries[r]
  BY DEF WriteRows
<1>6. DOMAIN entries \cap RowsOf(i) = {}
  BY <1>1 DEF EntriesInv, RowsOf
<1>7. TypesInv'
  <2>1. ASSUME NEW r \in DOMAIN entries' PROVE entries'[r] \in EntryRow
    <3>. DEFINE spends == Row[r].kind \notin Pairable
    <3>1. spends \in BOOLEAN
      OBVIOUS
    <3>2. CASE r \in RowsOf(i)
      <4>1. entries'[r] = [account |-> account[i], group |-> NoGroup, spends |-> spends,
                           committed |-> FALSE]
        BY <1>5, <3>2
      <4>. HIDE DEF spends
      <4>. QED  BY <1>4, <3>1, <4>1 DEF EntryRow, NoGroup
    <3>. QED  BY <1>5, <3>2 DEF TypesInv
  <2>2. stage' \in [Imports -> Stages]
    BY DEF WriteRows, TypesInv, Stages
  <2>3. todo' \in [Imports -> Seq(Rows)]
    BY <1>2, <1>3 DEF TypesInv
  <2>. QED  BY <1>1, <1>5, <2>1, <2>2, <2>3, RowsOfImport
            DEF TypesInv, AccountRow, EntryRow, Triples, Balances, Triple, Rows
<1>8. AccountsInv' /\ BalanceInv'
  BY <1>1, AccountsKept DEF Stages, Ended
<1>9. ASSUME NEW r \in Rows
      PROVE  /\ r \in DOMAIN entries' <=> stage'[Row[r].import] \in {"pairing", "covered", "done"}
             /\ r \in DOMAIN entries' => /\ entries'[r].account = account'[Row[r].import]
                                         /\ entries'[r].committed <=> stage'[Row[r].import] = "done"
  <2>1. CASE r \in RowsOf(i)
    <3>1. entries'[r].account = account[i] /\ entries'[r].committed = FALSE
      BY <1>5, <2>1
    <3>2. r \in DOMAIN entries' /\ Row[r].import = i
      BY <1>5, <2>1 DEF RowsOf
    <3>. QED  BY <1>1, <3>1, <3>2
  <2>2. CASE r \notin RowsOf(i)
    BY <1>1, <1>5, <2>2, RowsOfImport DEF RowsOf, EntriesInv
  <2>. QED  BY <2>1, <2>2
<1>10. EntriesInv'
  BY <1>9 DEF EntriesInv, Rows
<1>11. WorkInv'
  <2>1. target[i] = None
    BY <1>1 DEF WorkInv, WorkOf
  <2>2. \A j \in Imports \ {i} : WorkOf(j)'
    BY <1>1, OthersWork DEF Ended
  <2>. QED  BY <1>1, <1>3, <2>1, <2>2 DEF WorkInv, WorkOf, RowsOf, Rows
<1>12. \A r, s : Sides(r, s) => Sides(r, s)'
  BY <1>1, SidesStay
<1>13. HeldInv'
  <2>1. ASSUME NEW r \in Rows, Holder(r) # None
        PROVE  /\ stage'[Holder(r)] \in {"pairing", "covered"}
               /\ Row[r].import = Holder(r) \/ stage'[Row[r].import] = "done"
               /\ Pairs(written[r].group)'
               /\ \A s \in written[r].group :
                      Holder(s) = Holder(r) \/ stage'[Row[s].import] = "removed"
    <3>1. Holder(r) \in Imports /\ Holder(r) # i /\ written[r].group \subseteq Rows
      <4>1. Holder(r) \in Imports /\ written[r].group \subseteq Rows
        BY <1>1, <2>1 DEF TypesInv, Holder
      <4>2. stage[Holder(r)] \in {"pairing", "covered"}
        BY <2>1 DEF HeldInv
      <4>. QED  BY <1>1, <4>1, <4>2
    <3>2. Pairs(written[r].group)'
      <4>1. Pairs(written[r].group)
        BY <2>1 DEF HeldInv
      <4>. QED  BY <1>1, <1>12, <4>1 DEF Pairs
    <3>. QED  BY <1>1, <2>1, <3>1, <3>2, RowsOfImport DEF HeldInv
  <2>2. \A r \in Rows : Holder(r) # None => r \in DOMAIN entries'
    BY <1>5 DEF HeldInv
  <2>. QED  BY <1>1, <2>1, <2>2 DEF HeldInv, Holder, Rows
<1>14. GroupsInv'
  <2>1. ASSUME NEW r \in DOMAIN entries'
        PROVE  /\ Pairs(entries[r].group)'
               /\ \A s \in entries'[r].group :
                      /\ stage'[Row[s].import] \in Ended
                      /\ s \in DOMAIN entries' => ~entries'[s].spends
    <3>1. CASE r \in RowsOf(i)
      BY <1>5, <3>1 DEF NoGroup, Pairs
    <3>2. CASE r \in DOMAIN entries
      <4>1. entries'[r] = entries[r]
        BY <1>5, <1>6, <3>2
      <4>2. \A s \in entries[r].group : s \in Rows /\ Row[s].import # i
        BY <1>1, <3>2, OthersGroups DEF Ended
      <4>3. Pairs(entries[r].group)'
        BY <1>12, <3>2, <4>1 DEF GroupsInv, Pairs
      <4>. QED  BY <1>1, <1>5, <3>2, <4>1, <4>2, <4>3, RowsOfImport DEF GroupsInv, RowsOf
    <3>. QED  BY <1>5, <3>1, <3>2
  <2>. QED  BY <2>1 DEF GroupsInv
<1>. QED  BY <1>7, <1>8, <1>10, <1>11, <1>13, <1>14

\* What is found is the row of an import that is over, and the other side of
\* the row it was looked for.
LEMMA MatchIsOtherSide ==
  ASSUME TInv, NEW i \in Imports, stage[i] = "pairing", NEW r \in RowsOf(i),
         NEW m \in Nearest(i, r), Gap(r, m) <= MaxGapDays
  PROVE  m \in Rows /\ stage[Row[m].import] \in Ended /\ Sides(r, m)
<1>. USE DEF TInv
<1>1. /\ m \in Rows /\ Visible(i, m) /\ entries[m].account # entries[r].account
      /\ Row[m].direction # Row[r].direction /\ Row[m].amount = Row[r].amount
  BY DEF Nearest, MatchesOf
<1>2. r \in Rows /\ Row[r].import = i
  BY DEF RowsOf
<1>3. /\ entries[r].account = account[i]
      /\ m \in DOMAIN entries /\ entries[m].account = account[Row[m].import]
  BY <1>1, <1>2 DEF EntriesInv, Visible
<1>4. Row[m].import # i
  BY <1>1, <1>3
<1>5. entries[m].committed
  BY <1>1, <1>4 DEF Visible
<1>6. stage[Row[m].import] = "done"
  BY <1>1, <1>3, <1>5 DEF EntriesInv
<1>. QED  BY <1>1, <1>2, <1>3, <1>6 DEF Sides, Ended

\* The nearest match is a few days away.
LEMMA NearestIsNear ==
  ASSUME NEW i \in Imports, NEW r \in Rows, NEW m \in Nearest(i, r)
  PROVE  Gap(r, m) <= MaxGapDays
<1>1. m \in Rows /\ Row[m].day - Row[r].day \in -MaxGapDays .. MaxGapDays
  BY DEF Nearest, MatchesOf
<1>2. Row[m].day \in Int /\ Row[r].day \in Int
  BY <1>1, TransfersAssumption
<1>. QED  BY <1>1, <1>2 DEF Gap, MaxGapDays

\* A row of the import finds the nearest row that may be its other side.
LEMMA FindMatchKeeps ==
  ASSUME TInv, NEW i \in Imports, FindMatch(i)
  PROVE  TInv'
<1>. USE DEF TInv
<1>1. PICK m \in Nearest(i, Head(todo[i])) : target' = [target EXCEPT ![i] = m]
  BY DEF FindMatch
<1>2. /\ stage[i] = "pairing" /\ todo[i] # <<>> /\ todo[i] \in Seq(RowsOf(i))
      /\ UNCHANGED <<stage, account, accounts, entries, written, todo>>
      /\ target'[i] = m /\ \A j \in Imports \ {i} : target'[j] = target[j]
  BY <1>1 DEF FindMatch, WorkInv, WorkOf, TypesInv
<1>3. Head(todo[i]) \in RowsOf(i) /\ Head(todo[i]) \in Rows
  BY <1>2, HeadTailProperties, RowsOfImport
<1>4. m \in Rows /\ stage[Row[m].import] \in Ended /\ Sides(Head(todo[i]), m)
  BY <1>2, <1>3, NearestIsNear, MatchIsOtherSide
<1>5. TypesInv'
  BY <1>1, <1>2, <1>4 DEF TypesInv, AccountRow, EntryRow, Triples, Balances, Triple, Rows
<1>6. AccountsInv' /\ BalanceInv'
  BY <1>2, AccountsKept DEF Stages, Ended
<1>7. EntriesInv'
  BY <1>2 DEF EntriesInv, Rows
<1>8. WorkInv'
  <2>1. Sides(Head(todo[i]), target[i])'
    BY <1>2, <1>4 DEF Sides, Gap
  <2>2. \A j \in Imports \ {i} : WorkOf(j)'
    BY <1>2, OthersWork DEF Ended
  <2>. QED  BY <1>2, <1>4, <2>1, <2>2 DEF WorkInv, WorkOf, RowsOf, Rows
<1>9. HeldInv' /\ GroupsInv'
  BY <1>2, GroupsKept DEF Ended
<1>. QED  BY <1>5, <1>6, <1>7, <1>8, <1>9

\* A row of the import finds no other side.
LEMMA FindNoMatchKeeps ==
  ASSUME TInv, NEW i \in Imports, FindNoMatch(i)
  PROVE  TInv'
<1>. USE DEF TInv
<1>1. /\ stage[i] = "pairing" /\ todo[i] # <<>> /\ todo[i] \in Seq(RowsOf(i))
      /\ todo[i] \in Seq(Rows) /\ target[i] = None
      /\ UNCHANGED <<stage, account, accounts, entries, written, target>>
      /\ todo' = [todo EXCEPT ![i] = Tail(@)]
  BY DEF FindNoMatch, WorkInv, WorkOf, TypesInv
<1>2. /\ todo'[i] = Tail(todo[i]) /\ \A j \in Imports \ {i} : todo'[j] = todo[j]
      /\ Tail(todo[i]) \in Seq(RowsOf(i)) /\ Tail(todo[i]) \in Seq(Rows)
  BY <1>1, HeadTailProperties DEF TypesInv
<1>3. TypesInv'
  BY <1>1, <1>2 DEF TypesInv, AccountRow, EntryRow, Triples, Balances, Triple, Rows
<1>4. AccountsInv' /\ BalanceInv'
  BY <1>1, AccountsKept DEF Stages, Ended
<1>5. EntriesInv'
  BY <1>1 DEF EntriesInv, Rows
<1>6. WorkInv'
  <2>1. \A j \in Imports \ {i} : WorkOf(j)'
    BY <1>1, <1>2, OthersWork DEF Ended
  <2>. QED  BY <1>1, <1>2, <2>1 DEF WorkInv, WorkOf, RowsOf, Rows
<1>7. HeldInv' /\ GroupsInv'
  BY <1>1, GroupsKept DEF Ended
<1>. QED  BY <1>3, <1>4, <1>5, <1>6, <1>7

\* The pass over the rows of an import ends.
LEMMA CoverKeeps ==
  ASSUME TInv, NEW i \in Imports, Cover(i)
  PROVE  TInv'
<1>. USE DEF TInv
<1>1. /\ stage[i] = "pairing" /\ stage'[i] = "covered" /\ todo[i] = <<>> /\ target[i] = None
      /\ UNCHANGED <<account, accounts, entries, written, todo, target>>
      /\ \A j \in Imports \ {i} : stage'[j] = stage[j]
  BY DEF Cover, WorkInv, WorkOf, TypesInv
<1>2. TypesInv'
  BY <1>1 DEF Cover, TypesInv, AccountRow, EntryRow, Triples, Balances, Triple, Rows, Stages
<1>3. AccountsInv' /\ BalanceInv'
  BY <1>1, AccountsKept DEF Stages, Ended
<1>4. EntriesInv'
  BY <1>1, RowsOfImport DEF EntriesInv, Rows
<1>5. WorkInv'
  <2>1. \A j \in Imports \ {i} : WorkOf(j)'
    BY <1>1, OthersWork DEF Ended
  <2>2. todo[i] \in Seq(RowsOf(i))
    BY DEF WorkInv, WorkOf
  <2>. QED  BY <1>1, <2>1, <2>2 DEF WorkInv, WorkOf, RowsOf, Rows
<1>6. HeldInv' /\ GroupsInv'
  BY <1>1, GroupsKept DEF Ended
<1>. QED  BY <1>2, <1>3, <1>4, <1>5, <1>6

\* Being the two sides of a movement is symmetric.
LEMMA SidesSymmetric ==
  ASSUME NEW r \in Rows, NEW s \in Rows, Sides(r, s)
  PROVE  Sides(s, r)
<1>1. Row[r].day \in Int /\ Row[s].day \in Int
  BY TransfersAssumption
<1>2. Gap(r, s) = Gap(s, r)
  BY <1>1 DEF Gap
<1>. QED  BY <1>2 DEF Sides

\* A link takes two rows that no other import holds.
LEMMA LinkKeeps ==
  ASSUME TInv, NEW i \in Imports, Link(i)
  PROVE  TInv'
<1>. USE DEF TInv
<1>0. PICK own, other : own = Head(todo[i]) /\ other = target[i]
  OBVIOUS
<1>1. /\ stage[i] = "pairing" /\ todo[i] # <<>> /\ other \in Rows /\ other # None
      /\ todo[i] \in Seq(RowsOf(i)) /\ todo[i] \in Seq(Rows)
      /\ stage[Row[other].import] \in Ended /\ Sides(own, other)
      /\ UNCHANGED <<stage, account, accounts, entries>>
      /\ Holder(other) \in {None, i}
  BY <1>0 DEF Link, WorkInv, WorkOf, TypesInv
<1>2. own \in RowsOf(i) /\ own \in Rows /\ Row[own].import = i
  BY <1>0, <1>1, HeadTailProperties DEF RowsOf
<1>3. own \in DOMAIN entries /\ Holder(own) \in {None, i}
  BY <1>1, <1>2 DEF EntriesInv, HeldInv
<1>4. /\ other \in DOMAIN entries => stage[Row[other].import] = "done"
      /\ other \notin DOMAIN entries => stage[Row[other].import] = "removed"
  BY <1>1 DEF EntriesInv, Ended
<1>5. /\ \A r \in Rows : r \in {own, other} /\ r \in DOMAIN entries =>
             written'[r] = [by |-> i, group |-> {own, other}]
      /\ \A r \in Rows : ~ (r \in {own, other} /\ r \in DOMAIN entries) =>
             written'[r] = written[r]
      /\ written' \in [Rows -> [by : Imports \cup {None}, group : SUBSET Rows]]
  BY <1>0, <1>1, <1>2 DEF Link, Linked, TypesInv
<1>6. /\ todo'[i] = Tail(todo[i]) /\ target'[i] = None
      /\ \A j \in Imports \ {i} : todo'[j] = todo[j] /\ target'[j] = target[j]
      /\ Tail(todo[i]) \in Seq(RowsOf(i)) /\ Tail(todo[i]) \in Seq(Rows)
  BY <1>1, HeadTailProperties DEF Link, TypesInv
<1>7. Pairs({own, other})'
  <2>1. Sides(own, other) /\ Sides(other, own)
    BY <1>1, <1>2, SidesSymmetric
  <2>2. Sides(own, other)' /\ Sides(other, own)'
    BY <1>1, <2>1 DEF Sides, Gap
  <2>. QED  BY <2>2 DEF Pairs
<1>8. TypesInv'
  BY <1>1, <1>5, <1>6
     DEF Link, TypesInv, AccountRow, EntryRow, Triples, Balances, Triple, Rows
<1>9. AccountsInv' /\ BalanceInv'
  BY <1>1, AccountsKept DEF Stages, Ended
<1>10. EntriesInv'
  BY <1>1 DEF EntriesInv, Rows
<1>11. WorkInv'
  <2>1. \A j \in Imports \ {i} : WorkOf(j)'
    BY <1>1, <1>6, OthersWork DEF Ended
  <2>. QED  BY <1>1, <1>6, <2>1 DEF WorkInv, WorkOf, RowsOf, Rows
<1>12. ASSUME NEW r \in Rows, written'[r].by # None
       PROVE  /\ stage[written'[r].by] \in {"pairing", "covered"}
              /\ r \in DOMAIN entries
              /\ Row[r].import = written'[r].by \/ stage[Row[r].import] = "done"
              /\ Pairs(written[r].group)'
              /\ \A s \in written'[r].group :
                     written'[s].by = written'[r].by \/ stage[Row[s].import] = "removed"
  <2>1. CASE r \in {own, other} /\ r \in DOMAIN entries
    <3>1. written'[r].by = i /\ written'[r].group = {own, other}
      BY <1>5, <2>1
    <3>2. own \in Rows /\ other \in Rows
      BY <1>1, <1>2
    <3>3. written'[own].by = i
      BY <1>3, <1>5, <3>2
    <3>4. other \in DOMAIN entries => written'[other].by = i
      BY <1>5, <3>2
    <3>5. Pairs(written[r].group)'
      BY <1>7, <3>1
    <3>. QED  BY <1>1, <1>2, <1>4, <2>1, <3>1, <3>3, <3>4, <3>5
  <2>2. CASE ~ (r \in {own, other} /\ r \in DOMAIN entries)
    <3>1. written'[r] = written[r] /\ Holder(r) # None
      BY <1>5, <1>12, <2>2 DEF Holder
    <3>2. Pairs(written[r].group)'
      BY <1>1, <3>1 DEF HeldInv, Pairs, Sides, Gap
    <3>3. ASSUME NEW s \in written[r].group
          PROVE  written'[s].by = Holder(r) \/ stage[Row[s].import] = "removed"
      <4>1. s \in Rows /\ (Holder(s) = Holder(r) \/ stage[Row[s].import] = "removed")
        BY <3>1 DEF HeldInv, TypesInv
      <4>2. CASE s \in {own, other} /\ s \in DOMAIN entries
        <5>1. Holder(s) \in {None, i} /\ written'[s].by = i
          BY <1>1, <1>3, <1>5, <4>1, <4>2
        <5>. QED  BY <3>1, <4>1, <5>1
      <4>3. CASE ~ (s \in {own, other} /\ s \in DOMAIN entries)
        BY <1>5, <4>1, <4>3 DEF Holder
      <4>. QED  BY <4>2, <4>3
    <3>. QED  BY <3>1, <3>2, <3>3 DEF HeldInv, Holder
  <2>. QED  BY <2>1, <2>2
<1>13. HeldInv'
  BY <1>1, <1>12 DEF HeldInv, Holder, Rows
<1>14. GroupsInv'
  <2>1. \A r \in DOMAIN entries : Pairs(entries[r].group)'
    BY <1>1 DEF GroupsInv, Pairs, Sides, Gap
  <2>. QED  BY <1>1, <2>1 DEF GroupsInv
<1>. QED  BY <1>8, <1>9, <1>10, <1>11, <1>13, <1>14

\* What a commit makes of the account: nothing goes back.
LEMMA WidenedIsLater ==
  ASSUME NEW acct \in AccountRow, NEW i \in Imports, Triple(i) = acct.triple,
         acct.balance = None => acct.asOf = NoDate
  PROVE  /\ Widened(acct, i) \in AccountRow
         /\ Widened(acct, i).committed /\ Widened(acct, i).by = acct.by
         /\ Widened(acct, i).triple = acct.triple
         /\ Widened(acct, i).coverage >= acct.coverage
         /\ Widened(acct, i).coverage >= Header[i].end
         /\ Widened(acct, i).asOf >= acct.asOf
         /\ acct.balance # None => Widened(acct, i).balance # None
         /\ Header[i].closing # None => /\ Widened(acct, i).asOf >= Header[i].end
                                        /\ Widened(acct, i).balance # None
         /\ \/ /\ Widened(acct, i).asOf = Header[i].end
               /\ Widened(acct, i).balance = Header[i].closing
               /\ Header[i].closing # None
            \/ /\ Widened(acct, i).asOf = acct.asOf
               /\ Widened(acct, i).balance = acct.balance
<1>. DEFINE reach == Later(Header[i].end, acct.coverage)
<1>1. /\ Header[i].end \in Nat /\ acct.coverage \in Nat /\ acct.asOf \in Nat
      /\ Header[i].closing \in Balances
  BY TransfersAssumption DEF AccountRow, Balances
<1>2. reach \in Nat /\ reach >= acct.coverage /\ reach >= Header[i].end
  BY <1>1 DEF Later
<1>. HIDE DEF reach
<1>3. CASE Newer(acct, i)
  <2>1. Widened(acct, i) = [acct EXCEPT !.committed = TRUE, !.coverage = reach,
                                        !.asOf = Header[i].end,
                                        !.balance = Header[i].closing]
    BY <1>3 DEF Widened, reach
  <2>2. Widened(acct, i) = [triple |-> acct.triple, by |-> acct.by, committed |-> TRUE,
                            coverage |-> reach, asOf |-> Header[i].end,
                            balance |-> Header[i].closing]
    BY <2>1 DEF AccountRow
  <2>3. Header[i].closing # None /\ Header[i].end >= acct.asOf
    BY <1>1, <1>3 DEF Newer, NoDate
  <2>. QED  BY <1>1, <1>2, <2>2, <2>3 DEF AccountRow
<1>4. CASE ~ Newer(acct, i)
  <2>1. Widened(acct, i) = [acct EXCEPT !.committed = TRUE, !.coverage = reach,
                                        !.asOf = acct.asOf, !.balance = acct.balance]
    BY <1>4 DEF Widened, reach
  <2>2. Widened(acct, i) = [triple |-> acct.triple, by |-> acct.by, committed |-> TRUE,
                            coverage |-> reach, asOf |-> acct.asOf,
                            balance |-> acct.balance]
    BY <2>1 DEF AccountRow
  <2>3. Header[i].closing # None => acct.asOf # NoDate /\ acct.asOf >= Header[i].end
    BY <1>1, <1>4 DEF Newer, NoDate
  <2>. QED  BY <1>1, <1>2, <2>2, <2>3 DEF AccountRow
<1>. QED  BY <1>3, <1>4

\* A commit makes an import's rows, links and account known to the others.
LEMMA CommitKeeps ==
  ASSUME TInv, NEW i \in Imports, Commit(i)
  PROVE  TInv'
<1>. USE DEF TInv
<1>. DEFINE mine == account[i]
<1>1. /\ stage[i] = "covered" /\ stage'[i] = "done" /\ stage' \in [Imports -> Stages]
      /\ \A j \in Imports \ {i} : stage'[j] = stage[j]
      /\ UNCHANGED <<account, todo, target>> /\ todo[i] = <<>> /\ target[i] = None
      /\ todo[i] \in Seq(RowsOf(i))
  BY DEF Commit, TypesInv, Stages, WorkInv, WorkOf
<1>2. /\ mine \in DOMAIN accounts /\ accounts[mine] \in AccountRow
      /\ accounts[mine].triple = Triple(i)
      /\ mine = i \/ accounts[mine].committed
  BY <1>1 DEF AccountsInv, TypesInv
<1>3. /\ DOMAIN accounts' = DOMAIN accounts
      /\ accounts'[mine] = Widened(accounts[mine], i)
      /\ \A a \in DOMAIN accounts \ {mine} : accounts'[a] = accounts[a]
  BY <1>2 DEF Commit
<1>4. /\ accounts'[mine] \in AccountRow
      /\ accounts'[mine].committed /\ accounts'[mine].by = accounts[mine].by
      /\ accounts'[mine].triple = Triple(i)
      /\ accounts'[mine].coverage >= accounts[mine].coverage
      /\ accounts'[mine].coverage >= Header[i].end
      /\ accounts'[mine].asOf >= accounts[mine].asOf
      /\ accounts[mine].balance # None => accounts'[mine].balance # None
      /\ Header[i].closing # None => /\ accounts'[mine].asOf >= Header[i].end
                                     /\ accounts'[mine].balance # None
      /\ \/ /\ accounts'[mine].asOf = Header[i].end
            /\ accounts'[mine].balance = Header[i].closing
            /\ Header[i].closing # None
         \/ /\ accounts'[mine].asOf = accounts[mine].asOf
            /\ accounts'[mine].balance = accounts[mine].balance
  <2>1. accounts[mine].balance = None => accounts[mine].asOf = NoDate
    BY <1>2 DEF BalanceInv, BalanceShown
  <2>. QED  BY <1>2, <1>3, <2>1, WidenedIsLater
<1>5. /\ DOMAIN entries' = DOMAIN entries
      /\ \A r \in DOMAIN entries :
            /\ entries'[r].account = entries[r].account
            /\ entries'[r].group = IF Holder(r) = i THEN written[r].group ELSE entries[r].group
            /\ entries'[r].spends = IF Holder(r) = i THEN FALSE ELSE entries[r].spends
            /\ entries'[r].committed <=> (entries[r].committed \/ Row[r].import = i)
  BY DEF Commit
<1>6. /\ \A r \in Rows : Holder(r) = i => written'[r].by = None
      /\ \A r \in Rows : Holder(r) # i => written'[r] = written[r]
      /\ written' \in [Rows -> [by : Imports \cup {None}, group : SUBSET Rows]]
  BY DEF Commit, Unwritten, NoGroup, TypesInv
<1>. HIDE DEF mine
<1>7. TypesInv'
  <2>1. ASSUME NEW r \in DOMAIN entries PROVE entries'[r] \in EntryRow
    <3>. DEFINE spends == IF Holder(r) = i THEN FALSE ELSE entries[r].spends
                committed == entries[r].committed \/ Row[r].import = i
                group == IF Holder(r) = i THEN written[r].group ELSE entries[r].group
    <3>1. entries'[r] = [account |-> entries[r].account, group |-> group, spends |-> spends,
                         committed |-> committed]
      BY DEF Commit
    <3>2. entries[r] \in EntryRow /\ r \in Rows
      BY DEF TypesInv
    <3>3. spends \in BOOLEAN
      BY <3>2 DEF EntryRow
    <3>4. committed \in BOOLEAN
      OBVIOUS
    <3>5. group \in SUBSET Rows
      BY <3>2 DEF TypesInv, EntryRow
    <3>. HIDE DEF spends, committed, group
    <3>. QED  BY <3>1, <3>2, <3>3, <3>4, <3>5 DEF EntryRow
  <2>2. \A a \in DOMAIN accounts' : accounts'[a] \in AccountRow
    BY <1>3, <1>4 DEF TypesInv
  <2>. QED  BY <1>1, <1>3, <1>5, <1>6, <2>1, <2>2
            DEF TypesInv, AccountRow, EntryRow, Triples, Balances, Triple, Rows
<1>8. AccountsInv'
  <2>1. ASSUME NEW a \in DOMAIN accounts
        PROVE  /\ accounts'[a].by = a /\ accounts'[a].triple = Triple(a) /\ account[a] = a
               /\ stage'[a] \in IF accounts'[a].committed THEN Ended
                                ELSE {"resolved", "pairing", "covered"}
    <3>1. /\ accounts[a].by = a /\ accounts[a].triple = Triple(a) /\ account[a] = a
          /\ a \in Imports
          /\ accounts[a].committed => stage[a] \in Ended
          /\ ~accounts[a].committed => stage[a] \in {"resolved", "pairing", "covered"}
      BY DEF AccountsInv, TypesInv
    <3>2. CASE a = mine
      BY <1>1, <1>2, <1>4, <3>1, <3>2 DEF Ended
    <3>3. CASE a # mine
      <4>1. a # i
        BY <3>1, <3>3 DEF mine
      <4>. QED  BY <1>1, <1>3, <3>1, <3>3, <4>1
    <3>. QED  BY <3>2, <3>3
  <2>2. ASSUME NEW j \in Imports, stage'[j] \notin {"new", "inserting"}
        PROVE  /\ account[j] \in DOMAIN accounts
               /\ accounts'[account[j]].triple = Triple(j)
               /\ account[j] = j \/ accounts'[account[j]].committed
    <3>1. stage[j] \notin {"new", "inserting"}
      BY <1>1, <2>2
    <3>2. /\ account[j] \in DOMAIN accounts /\ accounts[account[j]].triple = Triple(j)
          /\ account[j] = j \/ accounts[account[j]].committed
      BY <3>1 DEF AccountsInv
    <3>3. CASE account[j] = mine
      BY <1>2, <1>4, <3>2, <3>3
    <3>4. CASE account[j] # mine
      BY <1>3, <3>2, <3>4
    <3>. QED  BY <3>3, <3>4
  <2>. QED  BY <1>1, <1>3, <2>1, <2>2 DEF AccountsInv, Triple
<1>9. BalanceInv'
  <2>. HIDE DEF mine
  <2>1. \A j \in Imports : stage[j] \in Ended => stage'[j] \in Ended
    BY <1>1 DEF Ended
  <2>2. ASSUME NEW a \in DOMAIN accounts
        PROVE  BalanceShown(a)'
    <3>1. BalanceShown(a)
      BY DEF BalanceInv
    <3>2. CASE a # mine
      BY <1>3, <2>1, <3>1, <3>2, BalanceStays
    <3>3. CASE /\ a = mine /\ accounts'[mine].asOf = Header[i].end
               /\ accounts'[mine].balance = Header[i].closing
               /\ Header[i].closing # None
      <4>1. stage'[i] \in Ended
        BY <1>1 DEF Ended
      <4>. QED  BY <1>4, <3>3, <4>1 DEF BalanceShown, Triple
    <3>4. CASE /\ a = mine /\ accounts'[mine].asOf = accounts[mine].asOf
               /\ accounts'[mine].balance = accounts[mine].balance
      BY <1>2, <1>4, <2>1, <3>1, <3>4 DEF BalanceShown, Triple, NoDate
    <3>. QED  BY <1>4, <3>2, <3>3, <3>4
  <2>3. ASSUME NEW j \in Imports, stage'[j] \in Ended
        PROVE  Covers(account[j], j)'
    <3>1. account' = account
      BY <1>1
    <3>2. CASE j = i
      BY <1>4, <3>1, <3>2 DEF Covers, mine
    <3>3. CASE j # i
      <4>1. /\ account[j] \in DOMAIN accounts /\ Covers(account[j], j)
            /\ accounts[account[j]] \in AccountRow
        BY <1>1, <2>3, <3>3 DEF BalanceInv, AccountsInv, Ended, TypesInv
      <4>2. CASE account[j] = mine
        BY <1>2, <1>4, <3>1, <4>1, <4>2, TransfersAssumption DEF AccountRow, Covers
      <4>3. CASE account[j] # mine
        BY <1>3, <3>1, <4>1, <4>3 DEF Covers
      <4>. QED  BY <4>2, <4>3
    <3>. QED  BY <3>2, <3>3
  <2>. QED  BY <1>1, <1>3, <2>2, <2>3 DEF BalanceInv
<1>10. EntriesInv'
  <2>1. ASSUME NEW r \in Rows
        PROVE  /\ r \in DOMAIN entries <=> stage'[Row[r].import] \in {"pairing", "covered", "done"}
               /\ r \in DOMAIN entries =>
                    /\ entries'[r].account = account[Row[r].import]
                    /\ entries'[r].committed <=> stage'[Row[r].import] = "done"
    <3>1. CASE Row[r].import = i
      BY <1>1, <1>5, <3>1 DEF EntriesInv
    <3>2. CASE Row[r].import # i
      BY <1>1, <1>5, <3>2, RowsOfImport DEF EntriesInv
    <3>. QED  BY <3>1, <3>2
  <2>. QED  BY <1>1, <1>5, <2>1 DEF EntriesInv, Rows
<1>11. WorkInv'
  <2>1. \A j \in Imports \ {i} : WorkOf(j)'
    BY <1>1, OthersWork DEF Ended
  <2>. QED  BY <1>1, <2>1 DEF WorkInv, WorkOf, RowsOf, Rows
<1>12. \A group : Pairs(group) => Pairs(group)'
  BY <1>1 DEF Pairs, Sides, Gap
<1>13. ASSUME NEW r \in Rows, written'[r].by # None
       PROVE  /\ stage'[written'[r].by] \in {"pairing", "covered"}
              /\ r \in DOMAIN entries
              /\ Row[r].import = written'[r].by \/ stage'[Row[r].import] = "done"
              /\ Pairs(written[r].group)'
              /\ \A s \in written'[r].group :
                     written'[s].by = written'[r].by \/ stage'[Row[s].import] = "removed"
  <2>1. written'[r] = written[r] /\ Holder(r) \in Imports \ {i}
    BY <1>6, <1>13 DEF Holder, TypesInv
  <2>2. /\ stage[Holder(r)] \in {"pairing", "covered"} /\ r \in DOMAIN entries
        /\ Row[r].import = Holder(r) \/ stage[Row[r].import] = "done"
        /\ Pairs(written[r].group)
        /\ \A s \in written[r].group : Holder(s) = Holder(r) \/ stage[Row[s].import] = "removed"
    BY <1>13, <2>1 DEF HeldInv, Holder
  <2>3. ASSUME NEW s \in written[r].group
        PROVE  written'[s].by = Holder(r) \/ stage'[Row[s].import] = "removed"
    <3>1. s \in Rows /\ Row[s].import \in Imports
      BY RowsOfImport DEF TypesInv
    <3>2. CASE Holder(s) = Holder(r)
      BY <1>6, <2>1, <3>1, <3>2 DEF Holder
    <3>3. CASE stage[Row[s].import] = "removed"
      BY <1>1, <3>1, <3>3
    <3>. QED  BY <2>2, <3>2, <3>3
  <2>4. Pairs(written[r].group)'
    BY <1>12, <2>1, <2>2
  <2>. QED  BY <1>1, <2>1, <2>2, <2>3, <2>4, RowsOfImport DEF Holder
<1>14. HeldInv'
  BY <1>1, <1>5, <1>13 DEF HeldInv, Holder, Rows
<1>15. ASSUME NEW r \in DOMAIN entries
       PROVE  /\ Pairs(entries[r].group)'
              /\ \A s \in entries'[r].group :
                     /\ stage'[Row[s].import] \in Ended
                     /\ s \in DOMAIN entries => ~entries'[s].spends
  <2>1. r \in Rows
    BY DEF TypesInv
  <2>2. CASE Holder(r) = i
    <3>1. entries'[r].group = written[r].group /\ i # None
      BY <1>5, <2>2, TransfersAssumption
    <3>2. /\ Pairs(written[r].group)
          /\ \A s \in written[r].group : Holder(s) = i \/ stage[Row[s].import] = "removed"
      BY <2>1, <2>2, <3>1 DEF HeldInv
    <3>3. ASSUME NEW s \in written[r].group
          PROVE  /\ stage'[Row[s].import] \in Ended
                 /\ s \in DOMAIN entries => ~entries'[s].spends
      <4>1. s \in Rows /\ Row[s].import \in Imports
        BY <2>1, RowsOfImport DEF TypesInv
      <4>2. CASE Holder(s) = i
        <5>1. Row[s].import = i \/ stage[Row[s].import] = "done"
          BY <3>1, <4>1, <4>2 DEF HeldInv
        <5>2. s \in DOMAIN entries => entries'[s].spends = FALSE
          BY <1>5, <4>2
        <5>. QED  BY <1>1, <4>1, <5>1, <5>2 DEF Ended
      <4>3. CASE stage[Row[s].import] = "removed"
        <5>1. s \notin DOMAIN entries
          BY <4>1, <4>3 DEF EntriesInv
        <5>. QED  BY <1>1, <4>1, <4>3, <5>1 DEF Ended
      <4>. QED  BY <3>2, <4>2, <4>3
    <3>4. Pairs(entries[r].group)'
      BY <1>12, <3>1, <3>2
    <3>. QED  BY <3>1, <3>3, <3>4
  <2>3. CASE Holder(r) # i
    <3>1. entries'[r].group = entries[r].group
      BY <1>5, <2>3
    <3>2. Pairs(entries[r].group)'
      BY <1>12, <3>1 DEF GroupsInv
    <3>3. ASSUME NEW s \in entries[r].group
          PROVE  /\ stage'[Row[s].import] \in Ended
                 /\ s \in DOMAIN entries => ~entries'[s].spends
      <4>1. s \in Rows /\ Row[s].import \in Imports \ {i}
        BY <1>1, OthersGroups, RowsOfImport DEF Ended
      <4>2. s \in DOMAIN entries
                 => entries'[s].spends = FALSE \/ entries'[s].spends = entries[s].spends
        BY <1>5
      <4>. QED  BY <1>1, <4>1, <4>2 DEF GroupsInv
    <3>. QED  BY <3>1, <3>2, <3>3
  <2>. QED  BY <2>2, <2>3
<1>16. GroupsInv'
  BY <1>5, <1>15 DEF GroupsInv
<1>. QED  BY <1>7, <1>8, <1>9, <1>10, <1>11, <1>14, <1>16

\* A rollback takes away what nobody else has seen.
LEMMA ForgetKeeps ==
  ASSUME TInv, NEW i \in Imports, Forget(i),
         stage[i] \in {"inserting", "resolved", "pairing", "covered"}
  PROVE  TInv'
<1>. USE DEF TInv
<1>1. /\ stage'[i] = "new" /\ account'[i] = None /\ todo'[i] = <<>> /\ target'[i] = None
      /\ \A j \in Imports \ {i} : /\ stage'[j] = stage[j] /\ account'[j] = account[j]
                                  /\ todo'[j] = todo[j] /\ target'[j] = target[j]
      /\ <<>> \in Seq(RowsOf(i)) /\ <<>> \in Seq(Rows)
  BY EmptySeq DEF Forget, TypesInv
<1>2. \A a \in DOMAIN accounts : accounts[a].by = a /\ (a = i => ~accounts[a].committed)
  BY DEF AccountsInv, Ended
<1>3. /\ DOMAIN accounts' = {x \in DOMAIN accounts : accounts[x].by = i => accounts[x].committed}
      /\ \A a \in DOMAIN accounts' : accounts'[a] = accounts[a]
  BY DEF Forget
<1>4. DOMAIN accounts' = DOMAIN accounts \ {i}
  <2>1. ASSUME NEW a \in DOMAIN accounts
        PROVE  (accounts[a].by = i => accounts[a].committed) <=> a # i
    BY <1>2
  <2>. QED  BY <1>3, <2>1
<1>5. \A r \in DOMAIN entries : r \in Rows /\ (Row[r].import = i => ~entries[r].committed)
  BY DEF EntriesInv, TypesInv
<1>6. /\ DOMAIN entries' = {x \in DOMAIN entries : Row[x].import = i => entries[x].committed}
      /\ \A r \in DOMAIN entries' : entries'[r] = entries[r]
  BY DEF Forget
<1>7. DOMAIN entries' = {r \in DOMAIN entries : Row[r].import # i}
  <2>1. ASSUME NEW r \in DOMAIN entries
        PROVE  (Row[r].import = i => entries[r].committed) <=> Row[r].import # i
    BY <1>5
  <2>. QED  BY <1>6, <2>1
<1>8. /\ \A r \in Rows : Holder(r) = i => written'[r].by = None
      /\ \A r \in Rows : Holder(r) # i => written'[r] = written[r]
      /\ written' \in [Rows -> [by : Imports \cup {None}, group : SUBSET Rows]]
  BY DEF Forget, Unwritten, NoGroup, TypesInv
<1>9. TypesInv'
  <2>1. /\ stage' \in [Imports -> Stages] /\ account' \in [Imports -> Imports \cup {None}]
        /\ target' \in [Imports -> Rows \cup {None}]
    BY DEF Forget, TypesInv, Stages
  <2>2. todo' \in [Imports -> Seq(Rows)]
    BY <1>1 DEF Forget, TypesInv
  <2>. QED  BY <1>3, <1>4, <1>6, <1>7, <1>8, <2>1, <2>2
            DEF TypesInv, AccountRow, EntryRow, Triples, Balances, Triple, Rows
<1>10. AccountsInv'
  <2>1. ASSUME NEW a \in DOMAIN accounts'
        PROVE  /\ accounts'[a].by = a /\ accounts'[a].triple = Triple(a) /\ account'[a] = a
               /\ stage'[a] \in IF accounts'[a].committed THEN Ended
                                ELSE {"resolved", "pairing", "covered"}
    <3>1. a \in DOMAIN accounts /\ a \in Imports /\ a # i /\ accounts'[a] = accounts[a]
      BY <1>3, <1>4 DEF TypesInv
    <3>. QED  BY <1>1, <3>1 DEF AccountsInv
  <2>2. ASSUME NEW j \in Imports, stage'[j] \notin {"new", "inserting"}
        PROVE  /\ account'[j] \in DOMAIN accounts'
               /\ accounts'[account'[j]].triple = Triple(j)
               /\ account'[j] = j \/ accounts'[account'[j]].committed
    <3>1. j # i /\ stage[j] \notin {"new", "inserting"} /\ account'[j] = account[j]
      BY <1>1, <2>2
    <3>2. /\ account[j] \in DOMAIN accounts /\ accounts[account[j]].triple = Triple(j)
          /\ account[j] = j \/ accounts[account[j]].committed
      BY <3>1 DEF AccountsInv
    <3>3. account[j] # i
      BY <1>2, <3>1, <3>2
    <3>. QED  BY <1>3, <1>4, <3>1, <3>2, <3>3
  <2>. QED  BY <2>1, <2>2 DEF AccountsInv, Triple
<1>11. BalanceInv'
  <2>1. \A j \in Imports : stage[j] \in Ended => stage'[j] \in Ended
    BY <1>1 DEF Ended
  <2>2. ASSUME NEW a \in DOMAIN accounts'
        PROVE  BalanceShown(a)'
    BY <1>3, <1>4, <2>1, BalanceStays DEF BalanceInv
  <2>3. ASSUME NEW j \in Imports, stage'[j] \in Ended
        PROVE  Covers(account[j], j)'
    <3>1. j # i /\ stage[j] \in Ended /\ account'[j] = account[j]
      BY <1>1, <2>3 DEF Ended
    <3>2. account'[j] \in DOMAIN accounts'
      BY <1>10, <2>3 DEF AccountsInv, Ended
    <3>. QED  BY <1>3, <3>1, <3>2 DEF BalanceInv, Covers
  <2>. QED  BY <2>2, <2>3 DEF BalanceInv
<1>12. EntriesInv'
  <2>1. ASSUME NEW r \in Rows
        PROVE  /\ r \in DOMAIN entries' <=> stage'[Row[r].import] \in {"pairing", "covered", "done"}
               /\ r \in DOMAIN entries' =>
                    /\ entries'[r].account = account'[Row[r].import]
                    /\ entries'[r].committed <=> stage'[Row[r].import] = "done"
    <3>1. CASE Row[r].import = i
      BY <1>1, <1>7, <3>1
    <3>2. CASE Row[r].import # i
      BY <1>1, <1>6, <1>7, <3>2, RowsOfImport DEF EntriesInv
    <3>. QED  BY <3>1, <3>2
  <2>. QED  BY <2>1 DEF EntriesInv, Rows
<1>13. WorkInv'
  <2>1. \A j \in Imports \ {i} : WorkOf(j)'
    BY <1>1, OthersWork DEF Ended
  <2>. QED  BY <1>1, <2>1 DEF WorkInv, WorkOf, RowsOf, Rows
<1>14. \A group : (Pairs(group) /\ \A s \in group : s \in Rows /\ Row[s].import # i)
           => Pairs(group)'
  <2>1. \A r, s \in Rows : Sides(r, s) /\ Row[r].import # i /\ Row[s].import # i => Sides(r, s)'
    BY <1>1, SidesStay, RowsOfImport
  <2>. QED  BY <2>1 DEF Pairs
<1>15. ASSUME NEW r \in Rows, written'[r].by # None
       PROVE  /\ stage'[written'[r].by] \in {"pairing", "covered"}
              /\ r \in DOMAIN entries'
              /\ Row[r].import = written'[r].by \/ stage'[Row[r].import] = "done"
              /\ Pairs(written[r].group)'
              /\ \A s \in written'[r].group :
                     written'[s].by = written'[r].by \/ stage'[Row[s].import] = "removed"
  <2>1. written'[r] = written[r] /\ Holder(r) \in Imports \ {i}
    BY <1>8, <1>15 DEF Holder, TypesInv
  <2>2. /\ stage[Holder(r)] \in {"pairing", "covered"} /\ r \in DOMAIN entries
        /\ Row[r].import = Holder(r) \/ stage[Row[r].import] = "done"
        /\ Pairs(written[r].group)
        /\ \A s \in written[r].group : Holder(s) = Holder(r) \/ stage[Row[s].import] = "removed"
    BY <1>15, <2>1 DEF HeldInv, Holder
  <2>3. \A s \in written[r].group : s \in Rows /\ Row[s].import \in Imports \ {i}
    BY <1>15, <2>1, OthersGroups, RowsOfImport DEF Ended, Holder
  <2>4. Row[r].import \in Imports \ {i}
    BY <2>1, <2>2, RowsOfImport
  <2>5. Pairs(written[r].group)'
    BY <1>14, <2>1, <2>2, <2>3
  <2>6. \A s \in written[r].group : written'[s].by = Holder(r) \/ stage'[Row[s].import] = "removed"
    BY <1>1, <1>8, <2>1, <2>2, <2>3 DEF Holder
  <2>. QED  BY <1>1, <1>7, <2>1, <2>2, <2>4, <2>5, <2>6 DEF Holder
<1>16. HeldInv'
  BY <1>15 DEF HeldInv, Holder, Rows
<1>17. GroupsInv'
  <2>1. ASSUME NEW r \in DOMAIN entries'
        PROVE  /\ Pairs(entries[r].group)'
               /\ \A s \in entries'[r].group :
                      /\ stage'[Row[s].import] \in Ended
                      /\ s \in DOMAIN entries' => ~entries'[s].spends
    <3>1. r \in DOMAIN entries /\ entries'[r] = entries[r]
      BY <1>6, <1>7
    <3>2. \A s \in entries[r].group : s \in Rows /\ Row[s].import \in Imports \ {i}
      BY <3>1, OthersGroups, RowsOfImport DEF Ended
    <3>3. Pairs(entries[r].group)'
      BY <1>14, <3>1, <3>2 DEF GroupsInv
    <3>. QED  BY <1>1, <1>6, <1>7, <3>1, <3>2, <3>3 DEF GroupsInv
  <2>. QED  BY <2>1 DEF GroupsInv
<1>. QED  BY <1>9, <1>10, <1>11, <1>12, <1>13, <1>16, <1>17

\* A statement goes with its rows, none of which anybody holds.
LEMMA RemoveStatementKeeps ==
  ASSUME TInv, NEW i \in Imports, RemoveStatement(i)
  PROVE  TInv'
<1>. USE DEF TInv
<1>1. /\ stage[i] = "done" /\ stage'[i] = "removed" /\ stage' \in [Imports -> Stages]
      /\ \A j \in Imports \ {i} : stage'[j] = stage[j]
      /\ \A j \in Imports : stage'[j] \in Ended <=> stage[j] \in Ended
      /\ UNCHANGED <<account, accounts, written, todo, target>>
      /\ \A r \in RowsOf(i) : Holder(r) = None
  BY DEF RemoveStatement, TypesInv, Stages, Ended
<1>2. /\ DOMAIN entries' = DOMAIN entries \ RowsOf(i)
      /\ \A r \in DOMAIN entries' : entries'[r] = entries[r]
  BY DEF RemoveStatement
<1>3. TypesInv'
  BY <1>1, <1>2 DEF TypesInv, AccountRow, EntryRow, Triples, Balances, Triple, Rows
<1>4. AccountsInv'
  <2>1. ASSUME NEW a \in DOMAIN accounts
        PROVE  stage'[a] \in IF accounts[a].committed THEN Ended
                             ELSE {"resolved", "pairing", "covered"}
    <3>1. a \in Imports
      BY DEF TypesInv
    <3>. QED  BY <1>1, <3>1 DEF AccountsInv, Ended
  <2>2. \A j \in Imports : stage'[j] \notin {"new", "inserting"}
             => stage[j] \notin {"new", "inserting"}
    BY <1>1
  <2>. QED  BY <1>1, <2>1, <2>2 DEF AccountsInv, Triple
<1>5. BalanceInv'
  BY <1>1, BalanceKept
<1>6. EntriesInv'
  <2>1. ASSUME NEW r \in Rows
        PROVE  /\ r \in DOMAIN entries' <=> stage'[Row[r].import] \in {"pairing", "covered", "done"}
               /\ r \in DOMAIN entries' =>
                    /\ entries'[r].account = account[Row[r].import]
                    /\ entries'[r].committed <=> stage'[Row[r].import] = "done"
    <3>1. CASE Row[r].import = i
      BY <1>1, <1>2, <3>1 DEF RowsOf
    <3>2. CASE Row[r].import # i
      BY <1>1, <1>2, <3>2, RowsOfImport DEF EntriesInv, RowsOf
    <3>. QED  BY <3>1, <3>2
  <2>. QED  BY <1>1, <2>1 DEF EntriesInv, Rows
<1>7. \A r, s : Sides(r, s) => Sides(r, s)'
  BY <1>1, SidesStay
<1>8. WorkInv'
  <2>1. \A j \in Imports : todo[j] # <<>> => stage'[j] = "pairing"
    BY <1>1 DEF WorkInv, WorkOf
  <2>2. ASSUME NEW j \in Imports, target[j] # None
        PROVE  /\ todo[j] # <<>> /\ stage'[Row[target[j]].import] \in Ended
               /\ Sides(Head(todo[j]), target[j])'
    <3>1. Row[target[j]].import \in Imports
      BY <2>2, RowsOfImport DEF TypesInv
    <3>2. Sides(Head(todo[j]), target[j])'
      BY <1>1, <2>2 DEF WorkInv, WorkOf, Sides, Gap
    <3>. QED  BY <1>1, <2>2, <3>1, <3>2 DEF WorkInv, WorkOf
  <2>. QED  BY <1>1, <2>1, <2>2 DEF WorkInv, WorkOf, RowsOf, Rows
<1>9. HeldInv'
  <2>1. ASSUME NEW r \in Rows, Holder(r) # None
        PROVE  /\ stage'[Holder(r)] \in {"pairing", "covered"}
               /\ r \in DOMAIN entries'
               /\ Row[r].import = Holder(r) \/ stage'[Row[r].import] = "done"
               /\ Pairs(written[r].group)'
               /\ \A s \in written[r].group :
                      Holder(s) = Holder(r) \/ stage'[Row[s].import] = "removed"
    <3>1. /\ r \notin RowsOf(i) /\ Row[r].import \in Imports \ {i}
          /\ Holder(r) \in Imports
      BY <1>1, <2>1, RowsOfImport DEF RowsOf, TypesInv, Holder
    <3>2. Pairs(written[r].group)'
      BY <1>1, <1>7, <2>1 DEF HeldInv, Pairs
    <3>3. \A s \in written[r].group : stage[Row[s].import] = "removed"
               => stage'[Row[s].import] = "removed"
      BY <1>1, RowsOfImport DEF TypesInv
    <3>. QED  BY <1>1, <1>2, <2>1, <3>1, <3>2, <3>3 DEF HeldInv
  <2>. QED  BY <1>1, <2>1 DEF HeldInv, Holder, Rows
<1>10. GroupsInv'
  <2>1. ASSUME NEW r \in DOMAIN entries'
        PROVE  /\ Pairs(entries[r].group)'
               /\ \A s \in entries'[r].group :
                      /\ stage'[Row[s].import] \in Ended
                      /\ s \in DOMAIN entries' => ~entries'[s].spends
    <3>1. r \in DOMAIN entries /\ entries'[r] = entries[r]
      BY <1>2
    <3>2. \A s \in entries[r].group : s \in Rows /\ Row[s].import \in Imports
      BY <3>1, RowsOfImport DEF TypesInv, EntryRow
    <3>3. Pairs(entries[r].group)'
      BY <1>7, <3>1 DEF GroupsInv, Pairs
    <3>. QED  BY <1>1, <1>2, <3>1, <3>2, <3>3 DEF GroupsInv
  <2>. QED  BY <2>1 DEF GroupsInv
<1>. QED  BY <1>3, <1>4, <1>5, <1>6, <1>8, <1>9, <1>10

\* A stuttering step keeps the invariant.
LEMMA StutterKeeps ==
  ASSUME TInv, UNCHANGED transferVars
  PROVE  TInv'
<1>. USE DEF TInv, transferVars
<1>1. BalanceInv'
  BY BalanceKept
<1>2. TypesInv' /\ AccountsInv' /\ EntriesInv'
  BY DEF TypesInv, AccountsInv, EntriesInv, Triple, Triples, Balances, AccountRow,
         EntryRow, Rows
<1>3. WorkInv'
  BY DEF WorkInv, WorkOf, Sides, Gap, RowsOf, Rows
<1>4. HeldInv' /\ GroupsInv'
  BY DEF HeldInv, GroupsInv, Pairs, Sides, Gap, Holder, Rows
<1>. QED  BY <1>1, <1>2, <1>3, <1>4

\* Every step keeps the invariant.
LEMMA TransfersStep == TInv /\ [TransfersNext]_transferVars => TInv'
<1>. SUFFICES ASSUME TInv, [TransfersNext]_transferVars PROVE TInv'
  OBVIOUS
<1>1. CASE UNCHANGED transferVars
  BY <1>1, StutterKeeps
<1>2. ASSUME NEW i \in Imports, Abort(i) PROVE TInv'
  BY <1>2, ForgetKeeps DEF Abort
<1>3. ASSUME NEW i \in Imports, Deadlock(i) PROVE TInv'
  <2>1. stage[i] \in {"inserting", "pairing"}
    BY <1>3 DEF Deadlock, WaitsFor, TInv, WorkInv, WorkOf
  <2>. QED  BY <1>3, <2>1, ForgetKeeps DEF Deadlock
<1>. QED  BY <1>1, <1>2, <1>3, ResolveKnownKeeps, ResolveMissesKeeps, ResolveInsertsKeeps,
              WriteRowsKeeps, FindMatchKeeps, FindNoMatchKeeps, LinkKeeps, CoverKeeps,
              CommitKeeps, RemoveStatementKeeps DEF TransfersNext

\* The invariant holds of every behaviour.
LEMMA TransfersInvariant == TransfersSpec => []TInv
BY InitTInv, TransfersStep, PTL DEF TransfersSpec

\* Whichever of two racing imports created an account, every row is in one
\* that exists.
THEOREM TransfersTypeCorrect == TransfersSpec => []TransfersTypeOK
<1>1. TInv => TransfersTypeOK
  <2>. SUFFICES ASSUME TInv PROVE TransfersTypeOK
    OBVIOUS
  <2>. USE DEF TInv
  <2>1. ASSUME NEW r \in DOMAIN entries
        PROVE  /\ entries[r].account \in DOMAIN accounts
               /\ entries[r].group \subseteq Rows
               /\ entries[r].committed => accounts[entries[r].account].committed
    <3>1. r \in Rows /\ Row[r].import \in Imports /\ entries[r].account = account[Row[r].import]
      BY RowsOfImport DEF TypesInv, EntriesInv
    <3>2. stage[Row[r].import] \in {"pairing", "covered", "done"}
      BY <3>1 DEF EntriesInv
    <3>3. entries[r].account \in DOMAIN accounts
      BY <3>1, <3>2 DEF AccountsInv
    <3>4. ASSUME entries[r].committed PROVE accounts[entries[r].account].committed
      <4>1. stage[Row[r].import] = "done"
        BY <3>1, <3>4 DEF EntriesInv
      <4>. QED  BY <3>1, <3>3, <4>1 DEF AccountsInv, Ended
    <3>. QED  BY <3>3, <3>4 DEF TypesInv, EntryRow
  <2>. QED  BY <2>1 DEF TransfersTypeOK, Committed, TypesInv
<1>. QED  BY <1>1, TransfersInvariant, PTL

\* However imports, links, rollbacks and removals interleave, neither side of
\* a movement counts as spending.
THEOREM MovementsNeverSpend == TransfersSpec => []MovementIsNotSpending
<1>1. TInv => MovementIsNotSpending
  BY DEF TInv, GroupsInv, MovementIsNotSpending, Committed
<1>. QED  BY <1>1, TransfersInvariant, PTL

\* The two sides of a movement are a debit and a credit of one amount, in two
\* accounts, a few days apart.
THEOREM SidesAlwaysMatch == TransfersSpec => []SidesMatch
<1>1. TInv => SidesMatch
  <2>. SUFFICES ASSUME TInv, NEW r \in Committed, NEW s \in Committed, r # s,
                       {r, s} \subseteq entries[r].group
                PROVE  /\ entries[r].account # entries[s].account
                       /\ Row[r].direction # Row[s].direction
                       /\ Row[r].amount = Row[s].amount
                       /\ Gap(r, s) <= MaxGapDays
    BY DEF SidesMatch
  <2>1. Sides(r, s)
    BY DEF TInv, GroupsInv, Pairs, Committed
  <2>2. entries[r].account = account[Row[r].import] /\ entries[s].account = account[Row[s].import]
    BY DEF TInv, EntriesInv, TypesInv, Committed
  <2>. QED  BY <2>1, <2>2 DEF Sides
<1>. QED  BY <1>1, TransfersInvariant, PTL

\* The balance of an account is that of the latest statement imported that
\* prints one, for any number of imports, in whatever order they commit.
THEOREM LatestBalanceStands == TransfersSpec => []BalanceIsLatest
<1>1. TInv => BalanceIsLatest
  <2>. SUFFICES ASSUME TInv, NEW i \in Imports, stage[i] = "done"
                PROVE  /\ accounts[account[i]].coverage >= Header[i].end
                       /\ Header[i].closing # None =>
                            /\ accounts[account[i]].asOf >= Header[i].end
                            /\ \E j \in Imports :
                                 /\ Triple(j) = Triple(i)
                                 /\ stage[j] \in {"done", "removed"}
                                 /\ accounts[account[i]].asOf = Header[j].end
                                 /\ accounts[account[i]].balance = Header[j].closing
                                 /\ Header[j].closing # None
    BY DEF BalanceIsLatest
  <2>1. /\ account[i] \in DOMAIN accounts /\ accounts[account[i]].triple = Triple(i)
        /\ BalanceShown(account[i]) /\ Covers(account[i], i)
    BY DEF TInv, AccountsInv, BalanceInv, Ended
  <2>. QED  BY <2>1 DEF BalanceShown, Covers, Ended
<1>. QED  BY <1>1, TransfersInvariant, PTL

-----------------------------------------------------------------------------
(* Reconciliation: what the lines add up to *)

ReadingInv ==
    /\ card \in BOOLEAN
    /\ figures \subseteq {"opening", "closing"}
    /\ lines \in Seq(PrintedRow)

Numbers == 1..Len(lines)

\* The lines are finitely many, each with an amount and an error.
LEMMA LinesAreNumbered ==
  ASSUME ReadingInv
  PROVE  /\ Len(lines) \in Nat /\ DOMAIN lines = Numbers
         /\ IsFiniteSet(Numbers)
         /\ \A i \in Numbers :
               /\ lines[i] \in PrintedRow
               /\ lines[i].amount \in Int \ {0}
               /\ lines[i].page \in 1..MaxPages
               /\ lines[i].read \in {"right", "flipped", "lost"}
<1>1. Len(lines) \in Nat /\ DOMAIN lines = Numbers
  BY DEF ReadingInv, Numbers
<1>2. IsFiniteSet(Numbers)
  BY <1>1, FS_Interval DEF Numbers
<1>3. ASSUME NEW i \in Numbers
      PROVE  /\ lines[i] \in PrintedRow
             /\ lines[i].amount \in Int \ {0}
             /\ lines[i].page \in 1..MaxPages
             /\ lines[i].read \in {"right", "flipped", "lost"}
  <2>1. lines[i] \in PrintedRow
    BY <1>1 DEF ReadingInv
  <2>. QED  BY <2>1, ReadingAssumption DEF PrintedRow
<1>. QED  BY <1>1, <1>2, <1>3

\* The amount, the amount read and the error of a line are whole numbers.
LEMMA LinesAreWhole ==
  ASSUME ReadingInv
  PROVE  /\ Whole(Printed, Numbers) /\ Whole(Errors, Numbers)
         /\ DOMAIN Printed = Numbers /\ DOMAIN Errors = Numbers
         /\ \A i \in Numbers :
               /\ Printed[i] = lines[i].amount /\ Errors[i] = Error(i)
               /\ Printed[i] \in Int /\ SignedAmount(i) \in Int /\ Errors[i] \in Int
               /\ SignedAmount(i) # 0
               /\ i \in Transactions => Errors[i] = SignedAmount(i) - Printed[i]
               /\ i \notin Transactions => Errors[i] = -Printed[i]
<1>1. DOMAIN Printed = Numbers /\ DOMAIN Errors = Numbers
  BY LinesAreNumbered DEF Printed, Errors
<1>2. ASSUME NEW i \in Numbers
      PROVE  /\ Printed[i] = lines[i].amount /\ Errors[i] = Error(i)
             /\ Printed[i] \in Int /\ SignedAmount(i) \in Int /\ Errors[i] \in Int
             /\ SignedAmount(i) # 0
             /\ i \in Transactions => Errors[i] = SignedAmount(i) - Printed[i]
             /\ i \notin Transactions => Errors[i] = -Printed[i]
  <2>1. /\ i \in DOMAIN lines
        /\ lines[i].amount \in Int \ {0}
        /\ lines[i].read \in {"right", "flipped", "lost"}
    BY LinesAreNumbered
  <2>2. Printed[i] = lines[i].amount /\ Errors[i] = Error(i)
    BY <2>1 DEF Printed, Errors
  <2>3. CASE lines[i].read = "right"
    <3>1. Error(i) = 0 /\ SignedAmount(i) = lines[i].amount /\ i \in Transactions
      BY <2>1, <2>3 DEF Error, SignedAmount, Transactions
    <3>. QED  BY <2>1, <2>2, <3>1
  <2>4. CASE lines[i].read = "flipped"
    <3>1. Error(i) = -2 * lines[i].amount /\ SignedAmount(i) = -lines[i].amount
          /\ i \in Transactions
      BY <2>1, <2>4 DEF Error, SignedAmount, Transactions
    <3>. QED  BY <2>1, <2>2, <3>1
  <2>5. CASE lines[i].read = "lost"
    <3>1. Error(i) = -lines[i].amount /\ SignedAmount(i) = lines[i].amount
          /\ i \notin Transactions
      BY <2>1, <2>5 DEF Error, SignedAmount, Transactions
    <3>. QED  BY <2>1, <2>2, <3>1
  <2>. QED  BY <2>1, <2>3, <2>4, <2>5
<1>3. Whole(Printed, Numbers) /\ Whole(Errors, Numbers)
  BY <1>2 DEF Whole
<1>. QED  BY <1>1, <1>2, <1>3

\* What was taken for a credit less what was taken for a debit is what was
\* printed and what was misread.
LEMMA TotalsAreErrors ==
  ASSUME ReadingInv
  PROVE  /\ TotalCredits - TotalDebits = SumFunction(Printed) + SumFunction(Errors)
         /\ TotalCredits \in Int /\ TotalDebits \in Int
         /\ SumFunction(Printed) \in Int /\ SumFunction(Errors) \in Int
<1>. DEFINE S == [i \in Numbers |-> IF i \in Transactions THEN SignedAmount(i) ELSE 0]
            credit == [i \in Credits |-> SignedAmount(i)]
            debit == [i \in Debits |-> -SignedAmount(i)]
<1>1. IsFiniteSet(Numbers) /\ Transactions \subseteq Numbers
  BY LinesAreNumbered DEF Transactions
<1>2. ASSUME NEW i \in Numbers
      PROVE  S[i] \in Int /\ S[i] = Printed[i] + Errors[i]
  <2>1. CASE i \in Transactions
    BY <2>1, LinesAreWhole
  <2>2. CASE i \notin Transactions
    BY <2>2, LinesAreWhole
  <2>. QED  BY <2>1, <2>2
<1>3. Whole(S, Numbers)
  BY <1>2 DEF Whole
<1>4. SumFunctionOnSet(S, Numbers) = SumFunctionOnSet(Printed, Numbers)
                                     + SumFunctionOnSet(Errors, Numbers)
  <2>. HIDE DEF S
  <2>. QED  BY <1>1, <1>2, LinesAreWhole, SumOfSums
<1>5. /\ Credits \subseteq Numbers /\ Debits \subseteq Numbers
      /\ \A i \in Credits : Positive(S, Numbers)[i] = SignedAmount(i)
      /\ \A i \in Debits : Negative(S, Numbers)[i] = -SignedAmount(i)
  BY <1>1, <1>2 DEF Credits, Debits, Positive, Negative
<1>6. /\ \A i \in Numbers \ Credits : Positive(S, Numbers)[i] = 0
      /\ \A i \in Numbers \ Debits : Negative(S, Numbers)[i] = 0
  BY <1>1, <1>2 DEF Credits, Debits, Positive, Negative
<1>7. SumFunctionOnSet(Positive(S, Numbers), Numbers) = SumFunctionOnSet(credit, Credits)
  <2>. DEFINE p == Positive(S, Numbers)
  <2>1. Weights(p, Numbers)
    <3>. HIDE DEF S
    <3>. QED  BY <1>1, <1>3, SumIsDifference
  <2>2. Whole(p, Numbers) /\ Whole(p, Credits) /\ IsFiniteSet(Credits)
    <3>. HIDE DEF p
    <3>. QED  BY <1>1, <1>5, <2>1, FS_Subset DEF Weights, Whole
  <2>3. /\ \A i \in Numbers \ Credits : p[i] = 0
        /\ \A i \in Credits : p[i] = credit[i]
    BY <1>5, <1>6
  <2>. HIDE DEF p, credit
  <2>4. SumFunctionOnSet(p, Numbers) = SumFunctionOnSet(p, Credits)
    BY <1>1, <1>5, <2>2, <2>3, SumOnPart
  <2>5. SumFunctionOnSet(p, Credits) = SumFunctionOnSet(credit, Credits)
    BY <2>2, <2>3, IntSumAgrees
  <2>. QED  BY <2>4, <2>5 DEF p
<1>8. SumFunctionOnSet(Negative(S, Numbers), Numbers) = SumFunctionOnSet(debit, Debits)
  <2>. DEFINE p == Negative(S, Numbers)
  <2>1. Weights(p, Numbers)
    <3>. HIDE DEF S
    <3>. QED  BY <1>1, <1>3, SumIsDifference
  <2>2. Whole(p, Numbers) /\ Whole(p, Debits) /\ IsFiniteSet(Debits)
    <3>. HIDE DEF p
    <3>. QED  BY <1>1, <1>5, <2>1, FS_Subset DEF Weights, Whole
  <2>3. /\ \A i \in Numbers \ Debits : p[i] = 0
        /\ \A i \in Debits : p[i] = debit[i]
    BY <1>5, <1>6
  <2>. HIDE DEF p, debit
  <2>4. SumFunctionOnSet(p, Numbers) = SumFunctionOnSet(p, Debits)
    BY <1>1, <1>5, <2>2, <2>3, SumOnPart
  <2>5. SumFunctionOnSet(p, Debits) = SumFunctionOnSet(debit, Debits)
    BY <2>2, <2>3, IntSumAgrees
  <2>. QED  BY <2>4, <2>5 DEF p
<1>9. TotalCredits = SumFunctionOnSet(credit, Credits)
      /\ TotalDebits = SumFunctionOnSet(debit, Debits)
  <2>1. DOMAIN credit = Credits /\ DOMAIN debit = Debits
    OBVIOUS
  <2>. QED  BY <2>1 DEF TotalCredits, TotalDebits, SumFunction, SumFunctionOnSet
<1>10. SumFunctionOnSet(S, Numbers) = TotalCredits - TotalDebits
  <2>1. SumFunctionOnSet(S, Numbers) = SumFunctionOnSet(Positive(S, Numbers), Numbers)
                                       - SumFunctionOnSet(Negative(S, Numbers), Numbers)
    <3>. HIDE DEF S
    <3>. QED  BY <1>1, <1>3, SumIsDifference
  <2>. QED  BY <1>7, <1>8, <1>9, <2>1
<1>11. /\ SumFunction(Printed) = SumFunctionOnSet(Printed, Numbers)
       /\ SumFunction(Errors) = SumFunctionOnSet(Errors, Numbers)
  BY LinesAreWhole DEF SumFunction, SumFunctionOnSet
<1>12. SumFunction(Printed) \in Int /\ SumFunction(Errors) \in Int
  BY <1>1, <1>11, LinesAreWhole, SumIsInt
<1>13. TotalCredits \in Int /\ TotalDebits \in Int
  <2>1. /\ Weights(Positive(S, Numbers), Numbers)
        /\ Weights(Negative(S, Numbers), Numbers)
    <3>. HIDE DEF S
    <3>. QED  BY <1>1, <1>3, SumIsDifference
  <2>2. /\ SumFunctionOnSet(Positive(S, Numbers), Numbers) \in Nat
        /\ SumFunctionOnSet(Negative(S, Numbers), Numbers) \in Nat
    <3>. HIDE DEF S
    <3>. QED  BY <1>1, <2>1, SumIsNat
  <2>. QED  BY <1>7, <1>8, <1>9, <2>2
<1>. QED  BY <1>4, <1>10, <1>11, <1>12, <1>13

\* The verdict.
LEMMA TrustFollows ==
  ASSUME ReadingInv
  PROVE  /\ TrustIsExact
         /\ Reconciles <=> /\ figures = {"opening", "closing"}
                           /\ SumFunction(Errors) = 0
<1>1. Computed = Closing <=> SumFunction(Errors) = 0
  <2>. DEFINE debits == TotalDebits
              credits == TotalCredits
              printed == SumFunction(Printed)
              errors == SumFunction(Errors)
  <2>1. /\ Opening \in Int /\ debits \in Int /\ credits \in Int
        /\ printed \in Int /\ errors \in Int
        /\ credits - debits = printed + errors
    BY ReadingAssumption, TotalsAreErrors
  <2>2. /\ card => Computed = Opening + debits - credits /\ Closing = Opening - printed
        /\ ~card => Computed = Opening - debits + credits /\ Closing = Opening + printed
    BY DEF Computed, Closing
  <2>. HIDE DEF debits, credits, printed, errors
  <2>3. Computed = Closing <=> errors = 0
    BY <2>1, <2>2
  <2>. QED  BY <2>3 DEF errors
<1>2. Reconciles <=> figures = {"opening", "closing"} /\ SumFunction(Errors) = 0
  BY <1>1 DEF Reconciles, Unverifiable
<1>3. TrustStatus = "trusted" <=> Reconciles
  BY DEF TrustStatus, Reconciles
<1>. QED  BY <1>2, <1>3 DEF TrustIsExact

-----------------------------------------------------------------------------
(* Reconciliation: the walk along the balances *)

WalkState == [running : Int, divergent : {0} \cup Transactions]

\* The balance printed on a line, an amount after that of the line before.
LEMMA BalanceGrows ==
  ASSUME ReadingInv
  PROVE  /\ Balance(0) = Opening
         /\ \A i \in Numbers : /\ Balance(i) = Balance(i - 1) + Printed[i]
                               /\ Balance(i) \in Int /\ Balance(i - 1) \in Int
<1>1. Opening \in Int /\ Len(lines) \in Nat /\ IsFiniteSet(Numbers) /\ Whole(Printed, Numbers)
  BY ReadingAssumption, LinesAreNumbered, LinesAreWhole
<1>2. /\ SumFunctionOnSet(Printed, {}) = 0
      /\ \A s \in SUBSET Numbers :
            /\ SumFunctionOnSet(Printed, s) \in Int
            /\ \A x \in s : /\ SumFunctionOnSet(Printed, s)
                                  = Printed[x] + SumFunctionOnSet(Printed, s \ {x})
                            /\ Printed[x] \in Int
                            /\ SumFunctionOnSet(Printed, s \ {x}) \in Int
  BY <1>1, SumsAreTotals
<1>3. Balance(0) = Opening
  <2>1. 1..0 = {}
    OBVIOUS
  <2>2. Balance(0) = Opening + 0
    BY <1>2, <2>1 DEF Balance
  <2>. QED  BY <1>1, <2>2
<1>4. ASSUME NEW i \in Numbers
      PROVE  /\ Balance(i) = Balance(i - 1) + Printed[i]
             /\ Balance(i) \in Int /\ Balance(i - 1) \in Int
  <2>1. /\ 1..i \in SUBSET Numbers /\ i \in 1..i /\ (1..i) \ {i} = 1..(i - 1)
    BY <1>1 DEF Numbers
  <2>2. /\ SumFunctionOnSet(Printed, 1..i)
             = Printed[i] + SumFunctionOnSet(Printed, (1..i) \ {i})
        /\ Printed[i] \in Int /\ SumFunctionOnSet(Printed, (1..i) \ {i}) \in Int
    BY <1>2, <2>1
  <2>3. Balance(i) = Opening + SumFunctionOnSet(Printed, 1..i)
    BY DEF Balance
  <2>4. Balance(i - 1) = Opening + SumFunctionOnSet(Printed, (1..i) \ {i})
    BY <2>1 DEF Balance
  <2>. QED  BY <1>1, <2>2, <2>3, <2>4
<1>. QED  BY <1>3, <1>4

\* One step of the walk.
LEMMA WalkSteps ==
  ASSUME ReadingInv, NEW w \in WalkState, NEW i \in Transactions
  PROVE  /\ Walk(w, i) \in WalkState
         /\ w.divergent # 0 \/ ~lines[i].balanced => Walk(w, i) = w
         /\ w.divergent = 0 /\ lines[i].balanced =>
               IF w.running + SignedAmount(i) # Balance(i)
               THEN Walk(w, i).divergent = i
               ELSE Walk(w, i).divergent = 0 /\ Walk(w, i).running = Balance(i)
<1>1. w \in [running : Int, divergent : {0} \cup Transactions]
  BY DEF WalkState
<1>2. Balance(i) \in Int /\ SignedAmount(i) \in Int
  <2>1. i \in Numbers
    BY LinesAreNumbered DEF Transactions
  <2>. QED  BY <2>1, BalanceGrows, LinesAreWhole
<1>3. CASE w.divergent # 0 \/ ~lines[i].balanced
  <2>1. Walk(w, i) = w
    BY <1>3 DEF Walk
  <2>. QED  BY <1>3, <2>1
<1>4. CASE w.divergent = 0 /\ lines[i].balanced /\ w.running + SignedAmount(i) # Balance(i)
  <2>1. Walk(w, i) = [w EXCEPT !.divergent = i]
    BY <1>4 DEF Walk
  <2>2. Walk(w, i) \in WalkState /\ Walk(w, i).divergent = i
    BY <1>1, <2>1 DEF WalkState
  <2>. QED  BY <1>4, <2>2
<1>5. CASE w.divergent = 0 /\ lines[i].balanced /\ w.running + SignedAmount(i) = Balance(i)
  <2>1. Walk(w, i) = [w EXCEPT !.running = Balance(i)]
    BY <1>5 DEF Walk
  <2>2. Walk(w, i) \in WalkState /\ Walk(w, i).divergent = 0 /\ Walk(w, i).running = Balance(i)
    BY <1>1, <1>2, <1>5, <2>1 DEF WalkState
  <2>. QED  BY <1>5, <2>2
<1>. QED  BY <1>3, <1>4, <1>5

WalkStart == [running |-> Opening, divergent |-> 0]
WalkOn(w, n) == IF n \in Transactions THEN Walk(w, n) ELSE w

\* g is the walk along the first n lines.
Walks(g, n) ==
    /\ g \in [0..n -> WalkState]
    /\ g[0] = WalkStart
    /\ \A k \in 1..n : g[k] = WalkOn(g[k - 1], k)

\* Any number of lines can be walked.
LEMMA WalkExists == ASSUME ReadingInv, NEW n \in 0..Len(lines) PROVE \E g : Walks(g, n)
<1>. DEFINE Bad == {m \in 0..Len(lines) : ~ \E g : Walks(g, m)}
<1>1. SUFFICES ASSUME Bad # {} PROVE FALSE
  OBVIOUS
<1>2. Len(lines) \in Nat
  BY LinesAreNumbered
<1>3. Within(Bad, 0, Len(lines))
  BY <1>2 DEF Within
<1>4. Min(Bad) \in Bad /\ \A u \in Bad : Min(Bad) <= u
  <2>. HIDE DEF Bad
  <2>. QED  BY <1>1, <1>3, SmallestOfSome
<1>5. PICK m \in Bad : \A u \in Bad : m <= u
  <2>. HIDE DEF Bad
  <2>. QED  BY <1>4
<1>6. m \in 0..Len(lines) /\ m \in Int
  BY <1>2
<1>7. WalkStart \in WalkState
  BY ReadingAssumption DEF WalkStart, WalkState
<1>8. m # 0
  <2>1. Walks([k \in 0..0 |-> WalkStart], 0)
    BY <1>7 DEF Walks
  <2>. QED  BY <2>1
<1>9. m - 1 \in 0..Len(lines) /\ m - 1 \notin Bad
  <2>1. m - 1 \in 0..Len(lines) /\ ~ (m <= m - 1)
    BY <1>2, <1>6, <1>8
  <2>. HIDE DEF Bad
  <2>. QED  BY <1>5, <2>1
<1>10. PICK g : Walks(g, m - 1)
  BY <1>9
<1>11. Walks([k \in 0..m |-> IF k = m THEN WalkOn(g[m - 1], m) ELSE g[k]], m)
  <2>. DEFINE h == [k \in 0..m |-> IF k = m THEN WalkOn(g[m - 1], m) ELSE g[k]]
  <2>1. \A k \in 0..(m - 1) : g[k] \in WalkState
    BY <1>10 DEF Walks
  <2>2. WalkOn(g[m - 1], m) \in WalkState
    <3>1. g[m - 1] \in WalkState
      BY <1>6, <1>8, <2>1
    <3>. QED  BY <3>1, WalkSteps DEF WalkOn
  <2>3. \A k \in 0..m : h[k] \in WalkState /\ (k # m => k \in 0..(m - 1) /\ h[k] = g[k])
    BY <1>6, <2>1, <2>2
  <2>4. h \in [0..m -> WalkState]
    BY <2>3
  <2>5. h[0] = WalkStart
    BY <1>6, <1>8, <1>10, <2>3 DEF Walks
  <2>6. ASSUME NEW k \in 1..m PROVE h[k] = WalkOn(h[k - 1], k)
    <3>1. k - 1 \in 0..m /\ k - 1 # m /\ h[k - 1] = g[k - 1]
      BY <1>6, <2>3
    <3>2. CASE k = m
      BY <1>6, <3>1, <3>2
    <3>3. CASE k # m
      <4>1. k \in 1..(m - 1) /\ h[k] = g[k]
        BY <1>6, <3>3
      <4>. HIDE DEF h
      <4>. QED  BY <1>10, <3>1, <4>1 DEF Walks
    <3>. QED  BY <3>2, <3>3
  <2>. HIDE DEF h
  <2>7. Walks(h, m)
    BY <2>4, <2>5, <2>6 DEF Walks
  <2>. QED  BY <2>7 DEF h
<1>. QED  BY <1>11

\* The walk of the report.
LEMMA WalkedWalks == ASSUME ReadingInv PROVE Walks(Walked, Len(lines))
<1>. DEFINE Loops(g) == g = [n \in 0..Len(lines) |->
                               IF n = 0 THEN [running |-> Opening, divergent |-> 0]
                               ELSE IF n \in Transactions THEN Walk(g[n - 1], n)
                               ELSE g[n - 1]]
<1>1. Len(lines) \in Nat
  BY LinesAreNumbered
<1>2. PICK g : Walks(g, Len(lines))
  <2>1. Len(lines) \in 0..Len(lines)
    BY <1>1
  <2>. QED  BY <2>1, WalkExists
<1>3. Loops(g)
  <2>1. g = [n \in 0..Len(lines) |-> g[n]]
    BY <1>2 DEF Walks
  <2>2. ASSUME NEW n \in 0..Len(lines)
        PROVE  g[n] = IF n = 0 THEN [running |-> Opening, divergent |-> 0]
                      ELSE IF n \in Transactions THEN Walk(g[n - 1], n) ELSE g[n - 1]
    BY <1>1, <1>2 DEF Walks, WalkStart, WalkOn
  <2>. QED  BY <2>1, <2>2
<1>4. Loops(Walked)
  <2>1. Walked = CHOOSE h : Loops(h)
    BY DEF Walked
  <2>. HIDE DEF Loops
  <2>. QED  BY <1>3, <2>1
<1>5. Walked = [n \in 0..Len(lines) |-> Walked[n]]
  BY <1>4
<1>6. Walked[0] = WalkStart /\ \A k \in 1..Len(lines) : Walked[k] = WalkOn(Walked[k - 1], k)
  BY <1>1, <1>4 DEF WalkStart, WalkOn
<1>7. \A n \in 0..Len(lines) : Walked[n] \in WalkState
  <2>. DEFINE Bad == {n \in 0..Len(lines) : Walked[n] \notin WalkState}
  <2>1. SUFFICES ASSUME Bad # {} PROVE FALSE
    OBVIOUS
  <2>2. Within(Bad, 0, Len(lines))
    BY <1>1 DEF Within
  <2>3. PICK m \in Bad : \A u \in Bad : m <= u
    <3>1. Min(Bad) \in Bad /\ \A u \in Bad : Min(Bad) <= u
      <4>. HIDE DEF Bad
      <4>. QED  BY <2>1, <2>2, SmallestOfSome
    <3>. HIDE DEF Bad
    <3>. QED  BY <3>1
  <2>4. m \in 0..Len(lines) /\ m \in Int /\ Walked[m] \notin WalkState
    BY <1>1
  <2>5. m # 0
    BY <1>6, <2>4, ReadingAssumption DEF WalkStart, WalkState
  <2>6. m - 1 \notin Bad /\ m - 1 \in 0..Len(lines) /\ m \in 1..Len(lines)
    <3>1. m - 1 \in 0..Len(lines) /\ m \in 1..Len(lines) /\ ~ (m <= m - 1)
      BY <1>1, <2>4, <2>5
    <3>. HIDE DEF Bad
    <3>. QED  BY <2>3, <3>1
  <2>7. Walked[m - 1] \in WalkState
    BY <2>6
  <2>8. WalkOn(Walked[m - 1], m) \in WalkState
    BY <2>7, WalkSteps DEF WalkOn
  <2>. QED  BY <1>6, <2>4, <2>6, <2>8
<1>. QED  BY <1>5, <1>6, <1>7 DEF Walks

\* The lines lost at the end of the first n.
Trail(n) == {k \in 1..n : \A m \in k..n : lines[m].read = "lost"}
TrailError(n) == SumFunctionOnSet(Errors, Trail(n))
JumpsBy(n) == {i \in Jumps : i <= n}

\* Once the first n lines are passed the walk has stopped at the first jump, or
\* runs behind the printed balance by the lines lost at the end.
WalkInv(n) ==
    /\ JumpsBy(n) = {} => /\ Walked[n].divergent = 0
                          /\ Walked[n].running = Balance(n) + TrailError(n)
    /\ JumpsBy(n) # {} => /\ Walked[n].divergent \in JumpsBy(n)
                          /\ \A u \in JumpsBy(n) : Walked[n].divergent <= u

\* The lost lines at the end, one line further, and the jump there.
LEMMA TrailsFollow ==
  ASSUME ReadingInv, NEW n \in Numbers
  PROVE  /\ TrailError(n - 1) \in Int
         /\ n \in Transactions => TrailError(n) = 0
         /\ n \notin Transactions => TrailError(n) = TrailError(n - 1) + Errors[n]
         /\ Jump(n) = TrailError(n - 1) + Errors[n]
<1>1. n \in Int /\ n > 0 /\ n <= Len(lines) /\ Len(lines) \in Nat /\ DOMAIN lines = Numbers
  BY LinesAreNumbered DEF Numbers
<1>2. /\ SumFunctionOnSet(Errors, {}) = 0
      /\ \A s \in SUBSET Numbers :
            /\ SumFunctionOnSet(Errors, s) \in Int
            /\ \A x \in s : /\ SumFunctionOnSet(Errors, s)
                                  = Errors[x] + SumFunctionOnSet(Errors, s \ {x})
                            /\ Errors[x] \in Int
                            /\ SumFunctionOnSet(Errors, s \ {x}) \in Int
  BY LinesAreNumbered, LinesAreWhole, SumsAreTotals
<1>3. Trail(n - 1) \in SUBSET Numbers /\ n \notin Trail(n - 1)
  BY <1>1 DEF Trail, Numbers
<1>4. TrailError(n - 1) \in Int
  BY <1>2, <1>3 DEF TrailError
<1>5. /\ Trail(n - 1) \cup {n} \in SUBSET Numbers
      /\ n \in Trail(n - 1) \cup {n}
      /\ (Trail(n - 1) \cup {n}) \ {n} = Trail(n - 1)
  BY <1>3
<1>6. SumFunctionOnSet(Errors, Trail(n - 1) \cup {n}) = TrailError(n - 1) + Errors[n]
  <2>1. /\ SumFunctionOnSet(Errors, Trail(n - 1) \cup {n})
             = Errors[n] + SumFunctionOnSet(Errors, Trail(n - 1))
        /\ Errors[n] \in Int
    BY <1>2, <1>5
  <2>. QED  BY <1>4, <2>1 DEF TrailError
<1>7. Jump(n) = TrailError(n - 1) + Errors[n]
  <2>1. {k \in 1..n : \A m \in k..(n - 1) : lines[m].read = "lost"} = Trail(n - 1) \cup {n}
    <3>1. ASSUME NEW k \in 1..n
          PROVE  k \in Trail(n - 1) \cup {n}
                   <=> \A m \in k..(n - 1) : lines[m].read = "lost"
      <4>1. CASE k = n
        BY <1>1, <4>1
      <4>2. CASE k # n
        <5>1. k \in 1..(n - 1)
          BY <1>1, <4>2
        <5>. QED  BY <4>2, <5>1 DEF Trail
      <4>. QED  BY <4>1, <4>2
    <3>2. Trail(n - 1) \cup {n} \subseteq 1..n
      BY <1>1 DEF Trail
    <3>. QED  BY <3>1, <3>2
  <2>. QED  BY <1>6, <2>1 DEF Jump
<1>8. ASSUME n \in Transactions PROVE TrailError(n) = 0
  <2>1. lines[n].read # "lost"
    BY <1>8 DEF Transactions
  <2>2. \A k \in 1..n : n \in k..n
    BY <1>1
  <2>3. Trail(n) = {}
    BY <2>1, <2>2 DEF Trail
  <2>. QED  BY <1>2, <2>3 DEF TrailError
<1>9. ASSUME n \notin Transactions PROVE TrailError(n) = TrailError(n - 1) + Errors[n]
  <2>1. lines[n].read = "lost"
    BY <1>1, <1>9 DEF Transactions
  <2>2. Trail(n) = Trail(n - 1) \cup {n}
    <3>1. ASSUME NEW k \in 1..n
          PROVE  k \in Trail(n - 1) \cup {n} <=> \A m \in k..n : lines[m].read = "lost"
      <4>1. CASE k = n
        <5>1. \A m \in k..n : m = n
          BY <1>1, <4>1
        <5>. QED  BY <2>1, <4>1, <5>1
      <4>2. CASE k # n
        <5>1. k \in 1..(n - 1)
          BY <1>1, <4>2
        <5>2. k \in Trail(n - 1) \cup {n}
                <=> \A m \in k..(n - 1) : lines[m].read = "lost"
          BY <4>2, <5>1 DEF Trail
        <5>3. \A m \in k..n : m = n \/ m \in k..(n - 1)
          BY <1>1
        <5>4. \A m \in k..(n - 1) : m \in k..n
          BY <1>1
        <5>. QED  BY <2>1, <5>2, <5>3, <5>4
      <4>. QED  BY <4>1, <4>2
    <3>2. Trail(n - 1) \cup {n} \subseteq 1..n
      BY <1>1 DEF Trail
    <3>. QED  BY <3>1, <3>2 DEF Trail
  <2>. QED  BY <1>6, <2>2 DEF TrailError
<1>. QED  BY <1>4, <1>7, <1>8, <1>9

\* The walk, one line further.
LEMMA WalkKeeps ==
  ASSUME ReadingInv, AllBalanced, NEW n \in Numbers, WalkInv(n - 1)
  PROVE  WalkInv(n)
<1>1. n \in Int /\ n > 0 /\ n <= Len(lines) /\ Len(lines) \in Nat /\ DOMAIN lines = Numbers
  BY LinesAreNumbered DEF Numbers
<1>2. /\ Walked[n - 1] \in WalkState
      /\ Walked[n] = WalkOn(Walked[n - 1], n)
  <2>1. n - 1 \in 0..Len(lines) /\ n \in 1..Len(lines)
    BY <1>1
  <2>. QED  BY <2>1, WalkedWalks DEF Walks
<1>3. lines[n].balanced
  BY <1>1 DEF AllBalanced
<1>4. Jumps \subseteq Numbers /\ Jumps \subseteq Transactions /\ Numbers \subseteq Int
  BY <1>1 DEF Jumps, Transactions, Numbers
<1>5. JumpsBy(n) = IF n \in Jumps THEN JumpsBy(n - 1) \cup {n} ELSE JumpsBy(n - 1)
  <2>1. ASSUME NEW i \in Jumps PROVE i <= n <=> (i <= n - 1 \/ i = n)
    <3>1. i \in Int
      BY <1>4
    <3>. QED  BY <1>1, <3>1
  <2>. QED  BY <2>1 DEF JumpsBy
<1>6. /\ TrailError(n - 1) \in Int
      /\ n \in Transactions => TrailError(n) = 0
      /\ n \notin Transactions => TrailError(n) = TrailError(n - 1) + Errors[n]
      /\ Jump(n) = TrailError(n - 1) + Errors[n]
  BY TrailsFollow
<1>7. /\ Balance(n) = Balance(n - 1) + Printed[n]
      /\ Balance(n) \in Int /\ Balance(n - 1) \in Int
      /\ Printed[n] \in Int /\ Errors[n] \in Int /\ SignedAmount(n) \in Int
      /\ n \in Transactions => Errors[n] = SignedAmount(n) - Printed[n]
      /\ n \notin Transactions => Errors[n] = -Printed[n]
  BY BalanceGrows, LinesAreWhole
<1>8. CASE n \notin Transactions
  <2>1. Walked[n] = Walked[n - 1] /\ JumpsBy(n) = JumpsBy(n - 1)
    BY <1>2, <1>4, <1>5, <1>8 DEF WalkOn
  <2>2. Balance(n) + TrailError(n) = Balance(n - 1) + TrailError(n - 1)
    BY <1>6, <1>7, <1>8
  <2>. QED  BY <2>1, <2>2 DEF WalkInv
<1>9. CASE n \in Transactions /\ JumpsBy(n - 1) # {}
  <2>1. Walked[n - 1].divergent \in JumpsBy(n - 1)
        /\ \A u \in JumpsBy(n - 1) : Walked[n - 1].divergent <= u
    BY <1>9 DEF WalkInv
  <2>2. Walked[n - 1].divergent \in Int /\ Walked[n - 1].divergent # 0
        /\ Walked[n - 1].divergent <= n
    <3>1. Walked[n - 1].divergent \in Numbers /\ Walked[n - 1].divergent <= n - 1
      BY <1>4, <2>1 DEF JumpsBy
    <3>. QED  BY <1>1, <3>1 DEF Numbers
  <2>3. Walked[n] = Walked[n - 1]
    BY <1>2, <1>9, <2>2, WalkSteps DEF WalkOn
  <2>. QED  BY <1>5, <2>1, <2>2, <2>3 DEF WalkInv
<1>10. CASE n \in Transactions /\ JumpsBy(n - 1) = {}
  <2>1. /\ Walked[n - 1].divergent = 0
        /\ Walked[n - 1].running = Balance(n - 1) + TrailError(n - 1)
    BY <1>10 DEF WalkInv
  <2>2. IF Walked[n - 1].running + SignedAmount(n) # Balance(n)
        THEN Walked[n].divergent = n
        ELSE Walked[n].divergent = 0 /\ Walked[n].running = Balance(n)
    BY <1>2, <1>3, <1>10, <2>1, WalkSteps DEF WalkOn
  <2>3. Walked[n - 1].running + SignedAmount(n) = Balance(n) <=> Jump(n) = 0
    BY <1>6, <1>7, <1>10, <2>1
  <2>4. n \in Jumps <=> Jump(n) # 0
    BY <1>10 DEF Jumps
  <2>5. CASE Jump(n) # 0
    <3>1. JumpsBy(n) = {n} /\ Walked[n].divergent = n
      BY <1>5, <1>10, <2>2, <2>3, <2>4, <2>5
    <3>. QED  BY <1>1, <3>1 DEF WalkInv
  <2>6. CASE Jump(n) = 0
    <3>1. JumpsBy(n) = {} /\ Walked[n].divergent = 0 /\ Walked[n].running = Balance(n)
      BY <1>5, <1>10, <2>2, <2>3, <2>4, <2>6
    <3>2. Walked[n].running = Balance(n) + TrailError(n)
      BY <1>6, <1>7, <1>10, <3>1
    <3>. QED  BY <3>1, <3>2 DEF WalkInv
  <2>. QED  BY <2>5, <2>6
<1>. QED  BY <1>8, <1>9, <1>10

\* The walk over all lines.
LEMMA WalkEnds == ASSUME ReadingInv, AllBalanced PROVE WalkInv(Len(lines))
<1>. DEFINE Bad == {n \in 0..Len(lines) : ~ WalkInv(n)}
<1>1. Len(lines) \in Nat /\ IsFiniteSet(Numbers)
  BY LinesAreNumbered
<1>2. SUFFICES ASSUME Bad # {} PROVE FALSE
  BY <1>1
<1>3. Within(Bad, 0, Len(lines))
  BY <1>1 DEF Within
<1>4. PICK m \in Bad : \A u \in Bad : m <= u
  <2>1. Min(Bad) \in Bad /\ \A u \in Bad : Min(Bad) <= u
    <3>. HIDE DEF Bad
    <3>. QED  BY <1>2, <1>3, SmallestOfSome
  <2>. HIDE DEF Bad
  <2>. QED  BY <2>1
<1>5. m \in 0..Len(lines) /\ m \in Int /\ ~ WalkInv(m)
  BY <1>1
<1>6. WalkInv(0)
  <2>1. Walked[0] = WalkStart
    BY WalkedWalks DEF Walks
  <2>2. Trail(0) = {}
    BY DEF Trail
  <2>3. TrailError(0) = 0
    BY <1>1, <2>2, LinesAreWhole, SumsAreTotals DEF TrailError
  <2>4. JumpsBy(0) = {}
    <3>1. \A i \in Jumps : i \in Int /\ i > 0
      BY <1>1, LinesAreNumbered DEF Jumps, Transactions, Numbers
    <3>. QED  BY <3>1 DEF JumpsBy
  <2>5. WalkStart.divergent = 0 /\ WalkStart.running = Opening
    BY DEF WalkStart
  <2>6. Opening = Balance(0) + TrailError(0)
    BY <2>3, BalanceGrows, ReadingAssumption
  <2>. QED  BY <2>1, <2>4, <2>5, <2>6 DEF WalkInv
<1>7. m # 0
  BY <1>5, <1>6
<1>8. m - 1 \notin Bad /\ m - 1 \in 0..Len(lines) /\ m \in Numbers
  <2>1. m - 1 \in 0..Len(lines) /\ m \in Numbers /\ ~ (m <= m - 1)
    BY <1>1, <1>5, <1>7 DEF Numbers
  <2>. HIDE DEF Bad
  <2>. QED  BY <1>4, <2>1
<1>9. WalkInv(m - 1)
  BY <1>8
<1>. QED  BY <1>5, <1>8, <1>9, WalkKeeps

\* The row the report names.
LEMMA DivergenceFollows ==
  ASSUME ReadingInv
  PROVE  /\ DivergenceIsLocated
         /\ FirstDivergentRow \in {0} \cup Transactions
         /\ AllBalanced /\ BalanceContinuous => Jumps = {}
<1>1. Len(lines) \in Nat /\ Transactions \subseteq Numbers
  BY LinesAreNumbered DEF Transactions
<1>2. FirstDivergentRow \in {0} \cup Transactions
  <2>1. Walked[Len(lines)] \in WalkState
    BY <1>1, WalkedWalks DEF Walks
  <2>2. Walked[Len(lines)].divergent \in {0} \cup Transactions
    BY <2>1 DEF WalkState
  <2>. QED  BY <2>2 DEF FirstDivergentRow
<1>3. Jumps \subseteq Numbers
  BY <1>1 DEF Jumps
<1>4. \A i \in Jumps : i \in Int /\ i > 0 /\ i <= Len(lines)
  <2>1. \A i \in Numbers : i \in Int /\ i > 0 /\ i <= Len(lines)
    BY <1>1 DEF Numbers
  <2>. QED  BY <1>3, <2>1
<1>8. JumpsBy(Len(lines)) = Jumps
  BY <1>4 DEF JumpsBy
<1>5. ASSUME Jumps # {} PROVE Min(Jumps) \in Jumps /\ \A u \in Jumps : Min(Jumps) <= u
  <2>1. Within(Jumps, 1, Len(lines))
    BY <1>1, <1>3 DEF Within, Numbers
  <2>. QED  BY <1>5, <2>1, SmallestOfSome
<1>6. ASSUME AllBalanced, BalanceChecked
      PROVE  FirstDivergentRow = IF Jumps = {} THEN 0 ELSE Min(Jumps)
  <2>1. WalkInv(Len(lines)) /\ FirstDivergentRow = Walked[Len(lines)].divergent
    BY <1>6, WalkEnds DEF FirstDivergentRow
  <2>2. CASE Jumps = {}
    BY <1>8, <2>1, <2>2 DEF WalkInv
  <2>3. CASE Jumps # {}
    <3>1. /\ FirstDivergentRow \in Jumps
          /\ \A u \in Jumps : FirstDivergentRow <= u
      BY <1>8, <2>1, <2>3 DEF WalkInv
    <3>2. /\ Min(Jumps) \in Jumps /\ Min(Jumps) <= FirstDivergentRow
          /\ FirstDivergentRow <= Min(Jumps)
      BY <1>5, <2>3, <3>1
    <3>3. Min(Jumps) \in Int /\ FirstDivergentRow \in Int
      BY <1>4, <3>1, <3>2
    <3>. QED  BY <2>3, <3>2, <3>3
  <2>. QED  BY <2>2, <2>3
<1>7. ASSUME AllBalanced, BalanceContinuous PROVE Jumps = {}
  <2>1. BalanceChecked /\ FirstDivergentRow = 0
    BY <1>7 DEF BalanceContinuous
  <2>2. SUFFICES ASSUME Jumps # {} PROVE FALSE
    OBVIOUS
  <2>3. Min(Jumps) = 0
    BY <1>6, <1>7, <2>1, <2>2
  <2>4. Min(Jumps) > 0
    BY <1>4, <1>5, <2>2
  <2>. QED  BY <2>3, <2>4
<1>. QED  BY <1>2, <1>6, <1>7 DEF DivergenceIsLocated

-----------------------------------------------------------------------------
(* Reconciliation: the score *)

PagesSeen == {lines[i].page : i \in Transactions}

\* The pages said to be missing lie between pages that are there.
LEMMA MissingPagesLie ==
  ASSUME ReadingInv
  PROVE  /\ MissingPages \subseteq 2..(MaxPages - 1)
         /\ PagesContinuous => ~InnerPageLost
<1>1. Transactions \subseteq Numbers /\ PagesSeen \subseteq 1..MaxPages /\ MaxPages \in Nat
  BY LinesAreNumbered, ReadingAssumption DEF Transactions, PagesSeen
<1>2. MissingPages = IF PagesSeen = {} THEN {} ELSE (Min(PagesSeen)..Max(PagesSeen)) \ PagesSeen
  BY DEF MissingPages, PagesSeen
<1>3. ASSUME PagesSeen # {}
      PROVE  /\ Min(PagesSeen) \in PagesSeen /\ \A u \in PagesSeen : Min(PagesSeen) <= u
             /\ Max(PagesSeen) \in PagesSeen /\ \A u \in PagesSeen : u <= Max(PagesSeen)
  <2>1. Within(PagesSeen, 1, MaxPages)
    BY <1>1 DEF Within
  <2>. QED  BY <1>3, <2>1, SmallestOfSome, LargestOfSome
<1>4. MissingPages \subseteq 2..(MaxPages - 1)
  <2>1. ASSUME NEW p \in MissingPages PROVE p \in 2..(MaxPages - 1)
    <3>1. PagesSeen # {} /\ p \in Min(PagesSeen)..Max(PagesSeen) /\ p \notin PagesSeen
      BY <1>2
    <3>2. /\ Min(PagesSeen) \in 1..MaxPages /\ Max(PagesSeen) \in 1..MaxPages
          /\ p # Min(PagesSeen) /\ p # Max(PagesSeen)
      BY <1>1, <1>3, <3>1
    <3>. QED  BY <1>1, <3>1, <3>2
  <2>. QED  BY <2>1
<1>5. ASSUME PagesContinuous, InnerPageLost PROVE FALSE
  <2>1. PICK i \in DOMAIN lines :
          /\ \A k \in DOMAIN lines : lines[k].page = lines[i].page => lines[k].read = "lost"
          /\ \E j, k \in Transactions :
                lines[j].page < lines[i].page /\ lines[i].page < lines[k].page
    BY <1>5 DEF InnerPageLost
  <2>2. PICK j \in Transactions, k \in Transactions :
          lines[j].page < lines[i].page /\ lines[i].page < lines[k].page
    BY <2>1
  <2>. DEFINE p == lines[i].page
              a == lines[j].page
              b == lines[k].page
  <2>3. a \in PagesSeen /\ b \in PagesSeen /\ a < p /\ p < b
    BY <2>2 DEF PagesSeen
  <2>4. p \in Int /\ a \in Int /\ b \in Int
    <3>1. p \in 1..MaxPages
      BY <2>1, LinesAreNumbered
    <3>2. \A u \in 1..MaxPages : u \in Int
      OBVIOUS
    <3>. HIDE DEF p, a, b
    <3>. QED  BY <1>1, <2>3, <3>1, <3>2
  <2>5. p \notin PagesSeen
    <3>1. SUFFICES ASSUME NEW t \in Transactions, lines[t].page = p PROVE FALSE
      BY DEF PagesSeen
    <3>2. t \in DOMAIN lines /\ lines[t].read # "lost"
      BY DEF Transactions
    <3>. QED  BY <2>1, <3>1, <3>2
  <2>. HIDE DEF p, a, b
  <2>6. Min(PagesSeen) \in Int /\ Max(PagesSeen) \in Int /\ Min(PagesSeen) <= a /\ b <= Max(PagesSeen)
    <3>1. \A u \in PagesSeen : u \in Int
      BY <1>1
    <3>. QED  BY <1>3, <2>3, <3>1
  <2>7. p \in Min(PagesSeen)..Max(PagesSeen)
    BY <2>3, <2>4, <2>6
  <2>8. p \in MissingPages
    BY <1>2, <2>3, <2>5, <2>7
  <2>. QED  BY <1>5, <2>8 DEF PagesContinuous
<1>. QED  BY <1>4, <1>5

\* A score that lets a statement in unreviewed.
LEMMA ScoreIsEarned == ASSUME ReadingInv PROVE AutoApproveIsEarned
<1>1. SUFFICES ASSUME ValidationScore >= AUTO_APPROVE_AT
               PROVE  /\ figures = {"opening", "closing"}
                      /\ SumFunction(Errors) = 0
                      /\ AllBalanced /\ BalanceChecked => Jumps = {}
                      /\ ~InnerPageLost
  BY DEF AutoApproveIsEarned
<1>2. ArithmeticScore \in {8000, 5500, 9900, 7000, 9700}
  BY DEF ArithmeticScore
<1>3. PagesContinuous
  <2>1. SUFFICES ASSUME ~PagesContinuous PROVE FALSE
    OBVIOUS
  <2>2. ValidationScore = Min({ArithmeticScore, 7000})
    BY <2>1 DEF ValidationScore
  <2>. DEFINE S == {ArithmeticScore, 7000}
  <2>3. Within(S, 5500, 9900) /\ S # {} /\ 7000 \in S
    BY <1>2 DEF Within
  <2>. HIDE DEF S
  <2>4. Min(S) \in S /\ \A u \in S : Min(S) <= u
    BY <2>3, SmallestOfSome
  <2>5. Min(S) \in Int /\ Min(S) <= 7000
    <3>1. \A u \in S : u \in Int
      BY <2>3 DEF Within
    <3>. QED  BY <2>3, <2>4, <3>1
  <2>6. ValidationScore = Min(S)
    BY <2>2 DEF S
  <2>. QED  BY <1>1, <2>5, <2>6 DEF AUTO_APPROVE_AT
<1>4. ArithmeticScore \in {9900, 9700}
  <2>1. ValidationScore = ArithmeticScore
    BY <1>3 DEF ValidationScore
  <2>. QED  BY <1>1, <1>2, <2>1 DEF AUTO_APPROVE_AT
<1>5. Reconciles /\ (BalanceContinuous \/ ~BalanceChecked)
  BY <1>4 DEF ArithmeticScore
<1>. QED  BY <1>3, <1>5, TrustFollows, DivergenceFollows, MissingPagesLie

-----------------------------------------------------------------------------
(* Reconciliation: the statement as it is printed and misread *)

\* A statement is printed line by line, and its rows misread.
LEMMA ReadingKept == ReadingInv /\ [ReadingNext]_readingVars => ReadingInv'
<1>1. SUFFICES ASSUME ReadingInv, [ReadingNext]_readingVars PROVE ReadingInv'
  OBVIOUS
<1>. USE DEF ReadingInv
<1>2. ASSUME NEW amount \in Amounts, NEW page \in 1..MaxPages, NEW balanced \in BOOLEAN,
             PrintRow(amount, page, balanced)
      PROVE  ReadingInv'
  <2>1. [amount |-> amount, page |-> page, balanced |-> balanced, read |-> "right"]
          \in PrintedRow
    BY DEF PrintedRow
  <2>. QED  BY <1>1, <1>2, <2>1 DEF PrintRow
<1>3. ASSUME NEW i \in DOMAIN lines, NEW how \in {"lost", "flipped"},
             lines' = [lines EXCEPT ![i].read = how], UNCHANGED <<card, figures>>
      PROVE  ReadingInv'
  <2>1. lines[i] \in PrintedRow
    BY <1>1
  <2>2. [lines[i] EXCEPT !.read = how] \in PrintedRow
    BY <2>1 DEF PrintedRow
  <2>3. lines' = [lines EXCEPT ![i] = [lines[i] EXCEPT !.read = how]]
    BY <1>3
  <2>4. lines' \in Seq(PrintedRow)
    BY <1>1, <2>2, <2>3
  <2>. QED  BY <1>1, <1>3, <2>4
<1>4. ASSUME NEW i \in DOMAIN lines, Lose(i) PROVE ReadingInv'
  BY <1>3, <1>4 DEF Lose
<1>5. ASSUME NEW i \in DOMAIN lines, Flip(i) PROVE ReadingInv'
  BY <1>3, <1>5 DEF Flip
<1>6. CASE UNCHANGED readingVars
  BY <1>1, <1>6 DEF readingVars
<1>. QED  BY <1>1, <1>2, <1>4, <1>5, <1>6 DEF ReadingNext

\* What the report says of a statement read in any way.
LEMMA ReadingFollows == ReadingInv => ReadingTypeOK /\ ReadingIsJudged
<1>1. SUFFICES ASSUME ReadingInv PROVE ReadingTypeOK /\ ReadingIsJudged
  OBVIOUS
<1>2. ReadingTypeOK
  BY <1>1, DivergenceFollows, MissingPagesLie DEF ReadingInv, ReadingTypeOK
<1>. QED  BY <1>1, <1>2, TrustFollows, DivergenceFollows, ScoreIsEarned
          DEF ReadingIsJudged

\* The figures and the lines stay what they are.
LEMMA ReadingInvariant == ReadingSpec => []ReadingInv
<1>1. ReadingInit => ReadingInv
  BY DEF ReadingInit, ReadingInv
<1>. QED  BY <1>1, ReadingKept, PTL DEF ReadingSpec

\* The row the report names is a transaction, the missing pages are inner pages.
THEOREM ReadingTypeCorrect == ReadingSpec => []ReadingTypeOK
BY ReadingInvariant, ReadingFollows, PTL

\* However the parser misread a statement of any length, of accounts or cards: it is
\* trusted exactly if the errors cancel out, the row named is the first one at
\* or before which something was misread, and only a statement that was checked
\* enters the ledger unreviewed (reconciliation.py 79-173, confidence.py 84-124).
THEOREM VerdictsAreEarned == ReadingSpec => []ReadingIsJudged
BY ReadingInvariant, ReadingFollows, PTL
=============================================================================
