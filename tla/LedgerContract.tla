--------------------------- MODULE LedgerContract ---------------------------
(***************************************************************************)
(* What the import pipeline promises of the ledger, whatever happens to    *)
(* requests, messages and workers: a statement is accepted once per        *)
(* document, its rows enter the ledger all together or not at all, a row   *)
(* already there is not entered twice, and rows leave only with the        *)
(* statement that brought them.  services/ledger.py states it in its head. *)
(***************************************************************************)
CONSTANTS
    Statements, Docs, Fps, DocOf, RowsOf,
    RacingImports \* may an import run beside the removal of its statement?

VARIABLES
    accepted,   \* statements the user was told are in
    imported,   \* statements whose rows have entered the ledger
    removed,    \* statements the user removed
    ledger      \* which statement each row came from

contractVars == <<accepted, imported, removed, ledger>>

Init ==
    /\ accepted = {}
    /\ imported = {}
    /\ removed = {}
    /\ ledger = {}

Accept(s) ==
    /\ s \notin accepted
    /\ \A t \in accepted \ removed : DocOf[t] # DocOf[s]
    /\ accepted' = accepted \union {s}
    /\ UNCHANGED <<imported, removed, ledger>>

Import(s) ==
    /\ s \in accepted
    /\ RacingImports \/ s \notin removed
    /\ imported' = imported \union {s}
    /\ ledger' = ledger \union
         {[fp |-> f, stmt |-> s] : f \in RowsOf[DocOf[s]] \ {r.fp : r \in ledger}}
    /\ UNCHANGED <<accepted, removed>>

\* All the rows of the statement go, but for those of an import that raced.
Remove(s) ==
    /\ s \in accepted
    /\ removed' = removed \union {s}
    /\ \E kept \in SUBSET {r \in ledger : r.stmt = s} :
        /\ RacingImports \/ kept = {}
        /\ ledger' = {r \in ledger : r.stmt # s} \union kept
    /\ UNCHANGED <<accepted, imported>>

Next == \E s \in Statements : Accept(s) \/ Import(s) \/ Remove(s)

Spec == Init /\ [][Next]_contractVars
=============================================================================
