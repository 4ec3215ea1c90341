------------------------------ MODULE MCLedger ------------------------------
(***************************************************************************)
(* Six modules that share no state, checked one at a time in one run: a  *)
(* behaviour is about the module of its focus, and the others stay in one  *)
(* of their initial states.                                                *)
(***************************************************************************)
EXTENDS Migrations, MCCascade, MCTransfers, MCReview, MCReconciliation,
        MCFingerprints

VARIABLE focus

ledgerVars == <<focus, migrationVars, cascadeVars, transferVars, reviewVars,
                readingVars, vars>>

LedgerInit ==
    /\ focus \in {"migrations", "cascade", "transfers", "review",
                  "reading", "fingerprints"}
    /\ MigrationsInit /\ CascadeInit /\ TransfersInit
    /\ ReviewInit /\ ReadingInit /\ Init
    /\ focus # "cascade" => population = CHOOSE p \in Populations : TRUE
    /\ focus # "reading" => ~card /\ figures = {}

On(name) == focus = name /\ UNCHANGED focus

LedgerNext ==
    \/ /\ On("migrations") /\ MigrationsNext
       /\ UNCHANGED <<cascadeVars, transferVars, reviewVars, readingVars, vars>>
    \/ /\ On("cascade") /\ CascadeNext
       /\ UNCHANGED <<migrationVars, transferVars, reviewVars, readingVars, vars>>
    \/ /\ On("transfers") /\ TransfersNext
       /\ UNCHANGED <<migrationVars, cascadeVars, reviewVars, readingVars, vars>>
    \/ /\ On("review") /\ ReviewNext
       /\ UNCHANGED <<migrationVars, cascadeVars, transferVars, readingVars, vars>>
    \/ /\ On("reading") /\ ReadingNext
       /\ UNCHANGED <<migrationVars, cascadeVars, transferVars, reviewVars, vars>>
    \/ /\ On("fingerprints") /\ Next
       /\ UNCHANGED <<migrationVars, cascadeVars, transferVars, reviewVars, readingVars>>

\* Nor does it matter which request of the user is which.
LedgerSymmetric == Symmetric \union Permutations(UserRequests)

LedgerSpec == LedgerInit /\ [][LedgerNext]_ledgerVars

\* Every variable of the module in focus keeps its type.
LedgerTypeOK ==
    /\ focus = "migrations" => MigrationsTypeOK
    /\ focus = "cascade" => CascadeTypeOK
    /\ focus = "transfers" => TransfersTypeOK
    /\ focus = "review" => ReviewTypeOK
    /\ focus = "reading" => ReadingTypeOK
    /\ focus = "fingerprints" => TypeOK
=============================================================================
