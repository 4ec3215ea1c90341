------------------------------- MODULE Cascade -------------------------------
(***************************************************************************)
(* What a DELETE takes with it. The foreign keys of the schema, the        *)
(* triggers that guard the ledger and the audit tables, and every DELETE   *)
(* statement of the program, carried out the way PostgreSQL does: the      *)
(* referential actions of a deleted row are queued behind those already    *)
(* queued, each looks at the rows when its turn comes, and one refusal     *)
(* undoes the whole statement.                                             *)
(*                                                                         *)
(* A table holds at most one row, named like the table: the questions are  *)
(* about which rows go together, not about how many there are.             *)
(***************************************************************************)
EXTENDS Naturals, Sequences, FiniteSets

CONSTANT Populations    \* bound: each behaviour has rows in one of these
                        \* sets of tables only

VARIABLES
    population, \* the tables this behaviour has rows in
    alive,      \* the tables that hold a row
    refs,       \* the nullable references that are set: {<<table, column>>}
    discarded,  \* the statement row is marked deleted
    before,     \* alive and refs when the running statement began
    queue,      \* tables whose deleted row has referential actions to run
    running,    \* the running DELETE, or Idle
    last        \* the last DELETE and whether it was refused

cascadeVars == <<population, alive, refs, discarded, before, queue, running, last>>

-----------------------------------------------------------------------------
(* The foreign keys of migration 0001: <<table, column, referred, rule>>.  *)
(* "owned" is NOT NULL with ON DELETE CASCADE, "attached" is nullable with *)
(* ON DELETE CASCADE, "noted" is nullable with ON DELETE SET NULL.         *)

OfTenant(tables) == {<<t, "tenant_id", "tenants", "owned">> : t \in tables}

IdentityKeys ==
    OfTenant({"accounts", "ingestion_sources", "privacy_counters",
              "transfer_groups", "users", "audit_logs"})
    \cup {<<"subcategories", "category_id", "categories", "owned">>,
          <<"audit_logs", "user_id", "users", "noted">>}

SettingKeys ==
    OfTenant({"budgets", "notifications", "refresh_tokens", "statements"})
    \cup {<<"budgets", "category_id", "categories", "owned">>,
          <<"budgets", "created_by", "users", "noted">>,
          <<"merchants", "category_id", "categories", "noted">>,
          <<"merchants", "subcategory_id", "subcategories", "noted">>,
          <<"notifications", "user_id", "users", "attached">>,
          <<"refresh_tokens", "user_id", "users", "owned">>,
          <<"statements", "account_id", "accounts", "noted">>,
          <<"statements", "uploaded_by", "users", "noted">>}

DocumentKeys ==
    OfTenant({"subscriptions", "user_category_rules", "processing_jobs",
              "statement_health", "statement_pages"})
    \cup {<<"subscriptions", "account_id", "accounts", "noted">>,
          <<"subscriptions", "category_id", "categories", "noted">>,
          <<"user_category_rules", "account_id", "accounts", "attached">>,
          <<"user_category_rules", "category_id", "categories", "owned">>,
          <<"user_category_rules", "created_by", "users", "noted">>,
          <<"user_category_rules", "subcategory_id", "subcategories", "noted">>,
          <<"merchant_aliases", "merchant_id", "merchants", "owned">>,
          <<"processing_jobs", "created_by", "users", "noted">>,
          <<"processing_jobs", "statement_id", "statements", "attached">>,
          <<"statement_health", "statement_id", "statements", "owned">>,
          <<"statement_pages", "statement_id", "statements", "owned">>}

LedgerKeys ==
    OfTenant({"transactions"})
    \cup {<<"transactions", "account_id", "accounts", "owned">>,
          <<"transactions", "statement_id", "statements", "attached">>}
    \cup {<<"transactions", c, "categories", "noted">> :
              c \in {"category_id", "original_category_id"}}
    \cup {<<"transactions", c, "subcategories", "noted">> :
              c \in {"subcategory_id", "original_subcategory_id"}}
    \cup {<<"transactions", "transfer_group_id", "transfer_groups", "noted">>,
          <<"transactions", "verified_by", "users", "noted">>}

DerivedKeys ==
    OfTenant({"ai_classifications", "anomalies", "insight_snapshots",
              "job_events", "privacy_incidents", "timeline_events",
              "transaction_audit"})
    \cup {<<"ai_classifications", "predicted_category_id", "categories", "noted">>,
          <<"ai_classifications", "transaction_id", "transactions", "attached">>,
          <<"anomalies", "category_id", "categories", "noted">>,
          <<"anomalies", "transaction_id", "transactions", "attached">>,
          <<"insight_snapshots", "fastest_growing_category_id", "categories", "noted">>,
          <<"insight_snapshots", "largest_category_id", "categories", "noted">>,
          <<"insight_snapshots", "largest_transaction_id", "transactions", "noted">>,
          <<"job_events", "job_id", "processing_jobs", "owned">>,
          <<"privacy_incidents", "transaction_id", "transactions", "noted">>,
          <<"timeline_events", "category_id", "categories", "noted">>,
          <<"timeline_events", "statement_id", "statements", "attached">>,
          <<"timeline_events", "transaction_id", "transactions", "attached">>,
          <<"transaction_audit", "changed_by", "users", "noted">>,
          <<"transaction_audit", "transaction_id", "transactions", "owned">>}

Keys == IdentityKeys \cup SettingKeys \cup DocumentKeys \cup LedgerKeys
            \cup DerivedKeys

Shared == {"categories", "subcategories", "merchants", "merchant_aliases",
           "extraction_accuracy_runs"}

Tables == {k[1] : k \in Keys} \cup {k[3] : k \in Keys} \cup Shared

ASSUME CascadeAssumption == Populations \subseteq SUBSET Tables

-----------------------------------------------------------------------------
(* The same keys as the ORM classes declare them, file by file             *)

AccountModels == OfTenant({"accounts", "ingestion_sources"})

AiModels ==
    OfTenant({"ai_classifications", "privacy_incidents", "privacy_counters"})
    \cup {<<"ai_classifications", "transaction_id", "transactions", "attached">>,
          <<"ai_classifications", "predicted_category_id", "categories", "noted">>,
          <<"privacy_incidents", "transaction_id", "transactions", "noted">>}

CategoryModels ==
    OfTenant({"user_category_rules"})
    \cup {<<"subcategories", "category_id", "categories", "owned">>,
          <<"merchants", "category_id", "categories", "noted">>,
          <<"merchants", "subcategory_id", "subcategories", "noted">>,
          <<"merchant_aliases", "merchant_id", "merchants", "owned">>}

RuleModel ==
    {<<"user_category_rules", "created_by", "users", "noted">>,
     <<"user_category_rules", "category_id", "categories", "owned">>,
     <<"user_category_rules", "subcategory_id", "subcategories", "noted">>,
     <<"user_category_rules", "account_id", "accounts", "attached">>}

PlanModels ==
    OfTenant({"subscriptions", "budgets"})
    \cup {<<"subscriptions", "category_id", "categories", "noted">>,
          <<"subscriptions", "account_id", "accounts", "noted">>,
          <<"budgets", "category_id", "categories", "owned">>,
          <<"budgets", "created_by", "users", "noted">>}

InsightModels ==
    OfTenant({"insight_snapshots", "anomalies", "timeline_events"})
    \cup {<<"insight_snapshots", "largest_category_id", "categories", "noted">>,
          <<"insight_snapshots", "fastest_growing_category_id", "categories", "noted">>,
          <<"insight_snapshots", "largest_transaction_id", "transactions", "noted">>}
    \cup {<<t, "transaction_id", "transactions", "attached">> :
              t \in {"anomalies", "timeline_events"}}
    \cup {<<t, "category_id", "categories", "noted">> :
              t \in {"anomalies", "timeline_events"}}
    \cup {<<"timeline_events", "statement_id", "statements", "attached">>}

\* Mutant: the model would keep a job whose statement is gone.
JobModelsDetached ==
    OfTenant({"processing_jobs", "job_events"})
    \cup {<<"processing_jobs", "statement_id", "statements", "noted">>,
          <<"processing_jobs", "created_by", "users", "noted">>,
          <<"job_events", "job_id", "processing_jobs", "owned">>}

JobModels ==
    OfTenant({"processing_jobs", "job_events"})
    \cup {<<"processing_jobs", "statement_id", "statements", "attached">>,
          <<"processing_jobs", "created_by", "users", "noted">>,
          <<"job_events", "job_id", "processing_jobs", "owned">>}

StatementModel ==
    OfTenant({"statements"})
    \cup {<<"statements", "account_id", "accounts", "noted">>,
          <<"statements", "uploaded_by", "users", "noted">>}

PageModels ==
    OfTenant({"statement_pages", "statement_health"})
    \cup {<<t, "statement_id", "statements", "owned">> :
              t \in {"statement_pages", "statement_health"}}

SystemModels ==
    OfTenant({"audit_logs", "notifications"})
    \cup {<<"audit_logs", "user_id", "users", "noted">>,
          <<"notifications", "user_id", "users", "attached">>}

TenantModels ==
    OfTenant({"users", "refresh_tokens"})
    \cup {<<"refresh_tokens", "user_id", "users", "owned">>}

TransactionModel ==
    OfTenant({"transactions"})
    \cup {<<"transactions", "account_id", "accounts", "owned">>,
          <<"transactions", "statement_id", "statements", "attached">>,
          <<"transactions", "original_category_id", "categories", "noted">>,
          <<"transactions", "original_subcategory_id", "subcategories", "noted">>,
          <<"transactions", "category_id", "categories", "noted">>,
          <<"transactions", "subcategory_id", "subcategories", "noted">>,
          <<"transactions", "transfer_group_id", "transfer_groups", "noted">>,
          <<"transactions", "verified_by", "users", "noted">>}

TransferModels ==
    OfTenant({"transfer_groups"})

AuditModels ==
    OfTenant({"transaction_audit"})
    \cup {<<"transaction_audit", "transaction_id", "transactions", "owned">>,
          <<"transaction_audit", "changed_by", "users", "noted">>}

ModelKeys ==
    AccountModels \cup AiModels \cup CategoryModels \cup RuleModel
        \cup PlanModels \cup InsightModels \cup JobModels
        \cup StatementModel \cup PageModels \cup SystemModels
        \cup TenantModels \cup TransactionModel \cup TransferModels
        \cup AuditModels

-----------------------------------------------------------------------------
(* The triggers                                                            *)

Audit == {"audit_logs", "transaction_audit"}

\* Emptying one of these columns is refused: an audit row is never updated,
\* what was extracted is frozen, and a verified row names who verified it.
Fixed ==
    {k \in Keys : k[1] \in Audit}
    \cup {k \in Keys : k[2] \in {"original_category_id",
                                 "original_subcategory_id", "verified_by"}}

-----------------------------------------------------------------------------
(* The DELETE statements of the program: <<what, table, may purge audit>>  *)

Idle == <<"none", "none", FALSE>>

EraseTenant == <<"erase_tenant", "tenants", TRUE>>

SweepEvents == <<"sweep", "job_events", FALSE>>
SweepRead == <<"sweep", "notifications", FALSE>>
SweepAudit == <<"sweep", "audit_logs", TRUE>>
SweepDiscarded == <<"sweep", "statements", TRUE>>

DeleteStatement == <<"soft_delete", "transactions", FALSE>>

Redetect == <<"detect_all", "subscriptions", FALSE>>

RemoveBudget == <<"remove_budget", "budgets", FALSE>>

Rescan == <<"rescan", "anomalies", FALSE>>

DeleteRule == <<"delete_rule", "user_category_rules", FALSE>>

Deletes == {EraseTenant, SweepEvents, SweepRead, SweepAudit, SweepDiscarded,
            DeleteStatement, Redetect, RemoveBudget, Rescan, DeleteRule}

-----------------------------------------------------------------------------
Settled == [alive |-> {}, refs |-> {}]

CascadeInit ==
    /\ population \in Populations
    /\ alive = {}
    /\ refs = {}
    /\ discarded = FALSE
    /\ before = Settled
    /\ queue = <<>>
    /\ running = Idle
    /\ last = [delete |-> Idle, refused |-> FALSE]

Required(t) == {k[3] : k \in {x \in Keys : x[1] = t /\ x[4] = "owned"}}

Optional(t) == {<<k[1], k[2]>> : k \in {x \in Keys : /\ x[1] = t
                                                     /\ x[4] # "owned"
                                                     /\ x[3] \in alive}}

InsertRow ==
    /\ running = Idle
    /\ \E t \in population \ alive :
           /\ Required(t) \subseteq alive
           /\ \E set \in SUBSET Optional(t) : refs' = refs \cup set
           /\ alive' = alive \cup {t}
           /\ discarded' = (discarded /\ t # "statements")
    /\ last' = [delete |-> Idle, refused |-> FALSE]
    /\ UNCHANGED <<population, before, queue, running>>

\* Mutant: the sweep of statements goes by age alone.
MatchesByAge(d) ==
    /\ d[2] \in alive
    /\ d = DeleteStatement =>
         ~ discarded /\ <<"transactions", "statement_id">> \in refs

\* The rows the statement's WHERE clause finds: a statement's transactions,
\* the statements marked deleted, and otherwise the row of the table.
Matches(d) ==
    /\ d[2] \in alive
    /\ d = DeleteStatement =>
         ~ discarded /\ <<"transactions", "statement_id">> \in refs
    /\ d = SweepDiscarded => discarded

Refuses(t, purge) == t \in Audit /\ ~ purge

\* Mutant: the references of a deleted row stay behind.
WithoutNothing(t) == refs

Without(t) == {r \in refs : r[1] # t}

Delete ==
    /\ running = Idle
    /\ \E d \in Deletes :
           /\ Matches(d)
           /\ ~ Refuses(d[2], d[3])
           /\ running' = d
           /\ alive' = alive \ {d[2]}
           /\ refs' = Without(d[2])
           /\ queue' = <<d[2]>>
    /\ before' = [alive |-> alive, refs |-> refs]
    /\ UNCHANGED <<population, discarded, last>>

\* soft_delete of a statement that produced no transaction.
DiscardEmpty ==
    /\ running = Idle
    /\ "statements" \in alive
    /\ ~ discarded
    /\ <<"transactions", "statement_id">> \notin refs
    /\ discarded' = TRUE
    /\ UNCHANGED <<population, alive, refs, before, queue, running, last>>

\* The referential actions that the row deleted from table p still has to
\* run: one for each key whose row refers to it now.
Pending(p) ==
    {k \in Keys : /\ k[3] = p
                  /\ k[1] \in alive
                  /\ k[4] = "owned" \/ <<k[1], k[2]>> \in refs}

\* Mutant: a deleted row's own actions run before those already queued.
QueuedFirst(t) == <<t>> \o queue

Queued(t) == Append(queue, t)

CascadeRow ==
    /\ queue # <<>>
    /\ \E k \in Pending(Head(queue)) :
           /\ k[4] # "noted"
           /\ ~ Refuses(k[1], running[3])
           /\ alive' = alive \ {k[1]}
           /\ refs' = Without(k[1])
           /\ queue' = Queued(k[1])
    /\ UNCHANGED <<population, discarded, before, running, last>>

ForgetRow ==
    /\ queue # <<>>
    /\ \E k \in Pending(Head(queue)) :
           /\ k[4] = "noted"
           /\ k \notin Fixed
           /\ refs' = refs \ {<<k[1], k[2]>>}
    /\ UNCHANGED <<population, alive, discarded, before, queue, running, last>>

NextRow ==
    /\ queue # <<>>
    /\ Pending(Head(queue)) = {}
    /\ queue' = Tail(queue)
    /\ UNCHANGED <<population, alive, refs, discarded, before, running, last>>

\* A trigger refuses: the request fails and its transaction is rolled back.
Refused ==
    /\ queue # <<>>
    /\ \E k \in Pending(Head(queue)) :
           \/ k[4] # "noted" /\ Refuses(k[1], running[3])
           \/ k[4] = "noted" /\ k \in Fixed
    /\ alive' = before.alive
    /\ refs' = before.refs
    /\ queue' = <<>>
    /\ running' = Idle
    /\ last' = [delete |-> running, refused |-> TRUE]
    /\ before' = Settled
    /\ UNCHANGED <<population, discarded>>

\* The statement is done. soft_delete also marks the statement row.
Done ==
    /\ running # Idle
    /\ queue = <<>>
    /\ discarded' = CASE running = DeleteStatement -> "statements" \in alive
                      [] "statements" \notin alive -> FALSE
                      [] OTHER -> discarded
    /\ running' = Idle
    /\ last' = [delete |-> running, refused |-> FALSE]
    /\ before' = Settled
    /\ UNCHANGED <<population, alive, refs, queue>>

CascadeNext ==
    \/ InsertRow
    \/ Delete
    \/ DiscardEmpty
    \/ CascadeRow
    \/ ForgetRow
    \/ NextRow
    \/ Refused
    \/ Done

CascadeSpec == CascadeInit /\ [][CascadeNext]_cascadeVars

-----------------------------------------------------------------------------
(* Properties                                                              *)

\* The variables keep their types, and between statements no reference
\* dangles: whatever a cascade took, the rows it left refer to rows that
\* are there.
CascadeTypeOK ==
    /\ alive \subseteq population
    /\ population \subseteq Tables
    /\ running \in Deletes \cup {Idle}
    /\ running = Idle =>
         /\ queue = <<>>
         /\ \A t \in alive : Required(t) \subseteq alive
         /\ \A k \in Keys : <<k[1], k[2]>> \in refs => {k[1], k[3]} \subseteq alive

\* Erasing a tenant is one DELETE that must not leave a row of the tenant
\* behind and must not be refused, although the audit rows refer to users
\* and may not be updated, and a verified row may not lose its verifier:
\* each of them is deleted by its own tenant key before the deletion of the
\* user gets to it.
ErasureIsWhole ==
    last.delete = EraseTenant /\ running = Idle =>
        /\ ~ last.refused
        /\ "tenants" \notin alive => alive \subseteq Shared

\* Sweeping and recomputing what is derived never reaches the ledger: an
\* account, a transaction or its audit trail leaves only by the erasure of
\* its tenant, the deletion of its statement, or the sweep of a statement
\* its owner has deleted.
LedgerLeavesOnlyOnRequest ==
    [][\A t \in {"accounts", "transactions", "transaction_audit", "statements"} :
          (t \in alive /\ t \notin alive') =>
              \/ running' \in {EraseTenant, DeleteStatement}
              \/ running' = SweepDiscarded /\ discarded]_cascadeVars

\* The keys the models declare are the keys of the migration: the ORM, and
\* `alembic revision --autogenerate`, work on the schema that is deployed.
ModelsAreTheSchema == running = Idle => ModelKeys = Keys

\* What migration 0004 says of the deletion of a transaction: the audit
\* trail does not pin data the user asked to have removed.
AuditPinsNothing == ~ (last.delete = DeleteStatement /\ last.refused)

=============================================================================
