---------------------------- MODULE Fingerprints ----------------------------
(***************************************************************************)
(* Transaction identity, services/fingerprint.py: which rows of different  *)
(* statements of one account are the same transaction.                     *)
(*                                                                         *)
(* The account's transactions happen; the bank prints statements over      *)
(* periods of it, in order, from the start of a day to some moment; they   *)
(* are imported in any order and as often as the user likes.  What the     *)
(* unique index lets in is RowsOf of the module StatementStore.            *)
(***************************************************************************)
EXTENDS Naturals, Sequences, FiniteSets

CONSTANTS
    Kinds,      \* amount, direction and identity text of a transaction
    Days,       \* dates, numbered
    MaxHistory  \* transactions of the account (bound)

ASSUME ConstantsAssumption == Days \subseteq Nat /\ MaxHistory \in Nat

VARIABLES
    history,  \* what really happened on the account, in order
    covered,  \* the transactions on some imported statement (history)
    ledger    \* the fingerprints in the ledger

vars == <<history, covered, ledger>>

\* The key of the dictionary "seen" of assign; the balance is not in it.
Key == [day : Days, kind : Kinds]

\* A fingerprint is the hash of a key and an occurrence number.
Fingerprint == [key : Key, occurrence : Nat]

Init == history = <<>> /\ covered = {} /\ ledger = {}

Happen(key) ==
    /\ Len(history) < MaxHistory
    /\ history # <<>> => history[Len(history)].day <= key.day
    /\ history' = Append(history, key)
    /\ UNCHANGED <<covered, ledger>>

\* Mutant: identical rows of one statement are not told apart.
OccurrenceNone(first, i) == 0

\* seen[key] when row i of a statement that begins with row first is reached.
Occurrence(first, i) == Cardinality({k \in first..(i - 1) : history[k] = history[i]})

\* Mutant: the date of a row is not part of its identity.
FingerprintUndated(first, i) ==
    [key |-> [history[i] EXCEPT !.day = 0], occurrence |-> Occurrence(first, i)]

FingerprintOf(first, i) == [key |-> history[i], occurrence |-> Occurrence(first, i)]

\* A statement begins with a day, not in the middle of one.
BeginsDay(first) == first > 1 => history[first - 1].day < history[first].day

\* assign, then one INSERT ... ON CONFLICT DO NOTHING for each row.
Import(first, last) ==
    /\ BeginsDay(first)
    /\ ledger' = ledger \union {FingerprintOf(first, i) : i \in first..last}
    /\ covered' = covered \union (first..last)
    /\ UNCHANGED history

Next ==
    \/ \E key \in Key : Happen(key)
    \/ \E first, last \in DOMAIN history : Import(first, last)

Spec == Init /\ [][Next]_vars

-----------------------------------------------------------------------------
(* Properties *)

TypeOK ==
    /\ history \in Seq(Key)
    /\ \A i, k \in DOMAIN history : i <= k => history[i].day <= history[k].day
    /\ covered \subseteq DOMAIN history
    /\ ledger \subseteq Fingerprint

\* The transaction itself: the how manieth of its kind it was on that day.
Identity(i) ==
    [key |-> history[i], occurrence |-> Cardinality({k \in 1..(i - 1) : history[k] = history[i]})]

\* The ledger holds each transaction of the imported statements once: repeats
\* of one day stay apart, re-uploads and overlapping periods add nothing, a
\* period that ends in the middle of a day does no harm (fingerprint.py 23-29).
LedgerIsExact ==
    /\ ledger = {Identity(i) : i \in covered}
    /\ \A i, k \in covered : Identity(i) = Identity(k) => i = k
=============================================================================
