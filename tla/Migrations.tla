----------------------------- MODULE Migrations -----------------------------
(***************************************************************************)
(* The history of the database: the twelve alembic migrations, each with   *)
(* its upgrade and its downgrade, run one transaction at a time by an      *)
(* operator, and the program writing rows while the schema is at the head. *)
(* A migration whose DDL the rows contradict is refused and changes        *)
(* nothing (env.py: one transaction per migration).                        *)
(*                                                                         *)
(* The schema is what the migrations leave behind: row-level security,     *)
(* triggers, functions, column defaults, and the constraints that rows of  *)
(* the program can contradict.                                             *)
(***************************************************************************)
EXTENDS Naturals, FiniteSets, FiniteSetsExt

CONSTANTS
    Contents,       \* the contents an uploaded file may have (its sha256)
    MaxStatements   \* bound: statement rows ever written

ASSUME MigrationsAssumption == MaxStatements \in Nat

VARIABLES
    version,        \* how many of the twelve migrations are applied
    schema,         \* what they have left
    remembered,     \* the schema as it was when each version was last left
    files,          \* the statement rows: [content, deleted, status]
    incidents,      \* the kinds of the rows of privacy_incidents
    refused         \* the downgrade the rows refused, 0 when none was

migrationVars == <<version, schema, remembered, files, incidents, refused>>

LatestVersion == 12

-----------------------------------------------------------------------------
(* 0001 and 0002: the tables, their row-level security and their triggers  *)

TenantScoped ==
    {"accounts", "ai_classifications", "anomalies", "audit_logs", "budgets",
     "ingestion_sources", "insight_snapshots", "job_events", "notifications",
     "privacy_counters", "privacy_incidents", "processing_jobs",
     "refresh_tokens", "statement_health", "statement_pages", "statements",
     "subscriptions", "timeline_events", "transaction_audit", "transactions",
     "transfer_groups", "user_category_rules", "users"}

NotForced == {"users", "tenants"}

Isolated == TenantScoped \cup {"tenants"}

AuditTables == {"audit_logs", "transaction_audit"}

Nothing ==
    [tables |-> FALSE, policies |-> {}, forced |-> {}, triggers |-> {},
     functions |-> {}, mirrored |-> {}, thresholds |-> "none",
     hashUnique |-> "none", kinds |-> {}, statuses |-> {},
     unlockAttempts |-> FALSE]

InitialKinds == {"pii_in_payload", "injection_quarantined",
                 "output_pii_echo", "output_schema_violation",
                 "budget_exceeded"}

InitialStatuses == {"uploaded", "processing", "processed", "failed"}

InitialSchema(s) ==
    [Nothing EXCEPT !.tables = TRUE, !.thresholds = "float",
                    !.hashUnique = "every_row", !.kinds = InitialKinds,
                    !.statuses = InitialStatuses]

DropInitialSchema(s) == Nothing

GuardTriggers ==
    {<<"updated_at", "set_updated_at">>,
     <<"transactions", "freeze_originals">>,
     <<"transactions", "protect_verified">>}

AppendOnly == {<<t, "append_only">> : t \in AuditTables}

TriggerFunctions == {"set_updated_at", "freeze_transaction_originals",
                     "protect_verified_transactions"}

SettingReaders == {"app_current_tenant", "app_current_actor_kind"}

LoginLookups == {"auth_lookup_user", "auth_lookup_user_by_google"}

RowLevelSecurity(s) ==
    [s EXCEPT !.policies = @ \cup Isolated,
              !.forced = @ \cup (TenantScoped \ NotForced),
              !.triggers = @ \cup GuardTriggers \cup AppendOnly,
              !.functions = @ \cup TriggerFunctions \cup SettingReaders
                              \cup LoginLookups \cup {"reject_mutation"}]

\* Mutant: FORCE outlives the policies.
DropRowLevelSecurityForced(s) ==
    [s EXCEPT !.policies = @ \ Isolated,
              !.triggers = @ \ (GuardTriggers \cup AppendOnly),
              !.functions = @ \ (TriggerFunctions \cup SettingReaders
                              \cup LoginLookups \cup {"reject_mutation"})]

DropRowLevelSecurity(s) ==
    [s EXCEPT !.policies = @ \ Isolated,
              !.forced = @ \ TenantScoped,
              !.triggers = @ \ (GuardTriggers \cup AppendOnly),
              !.functions = @ \ (TriggerFunctions \cup SettingReaders
                              \cup LoginLookups \cup {"reject_mutation"})]

-----------------------------------------------------------------------------
(* 0003: the defaults the models declare, mirrored into the database       *)

MirroredDefaults ==
    [categories |-> {"is_expense", "is_income", "is_system", "sort_order"},
     extraction_accuracy_runs |->
         {"expected_count", "extracted_count", "matched_count",
          "missing_transactions", "extra_transactions", "wrong_date",
          "wrong_amount", "wrong_direction", "wrong_merchant",
          "wrong_category", "reconciled", "passed"},
     tenants |-> {"ai_enabled"},
     accounts |-> {"status"},
     ingestion_sources |-> {"source_type", "is_active"},
     privacy_counters |->
         {"ai_calls_made", "payloads_blocked", "injections_quarantined",
          "outputs_rejected", "input_tokens", "output_tokens", "cost_inr"},
     subcategories |-> {"sort_order"},
     users |-> {"auth_provider", "role", "status", "failed_login_count"},
     audit_logs |-> {"succeeded"},
     budgets |-> {"period", "alert_threshold", "is_active"},
     merchants |-> {"is_verified", "is_subscription_like"},
     statements |-> {"document_type", "status", "trust_status",
                     "transaction_count", "duplicate_count"},
     subscriptions |-> {"occurrence_count", "status", "dismissed"},
     user_category_rules |-> {"match_type", "is_active", "priority",
                              "times_applied", "confidence"},
     merchant_aliases |-> {"match_type", "priority"},
     processing_jobs |-> {"state", "progress", "attempt", "max_attempts"},
     statement_health |->
         {"reconciles", "balance_continuous", "pages_continuous",
          "extracted_transaction_count", "ocr_page_count",
          "total_page_count"},
     statement_pages |-> {"char_count", "table_count", "row_count"},
     transactions |-> {"original_payment_method", "category_source",
                       "movement_type", "is_expense", "review_status",
                       "is_verified"},
     ai_classifications |-> {"accepted"},
     anomalies |-> {"dismissed"},
     insight_snapshots |-> {"transaction_count", "unreviewed_count",
                            "untrusted_statement_count"},
     job_events |-> {"progress"}]

Columns(defaults) ==
    UNION {{<<t, c>> : c \in defaults[t]} : t \in DOMAIN defaults}

ServerDefaults(s) == [s EXCEPT !.mirrored = @ \cup Columns(MirroredDefaults)]

DropServerDefaults(s) == [s EXCEPT !.mirrored = @ \ Columns(MirroredDefaults)]

-----------------------------------------------------------------------------
(* 0004 to 0012                                                            *)

PurgeTriggers == {<<t, g>> : t \in AuditTables,
                             g \in {"no_update", "guarded_delete"}}

PurgeFunctions == {"reject_audit_update", "reject_audit_delete"}

AuditPurgePath(s) ==
    [s EXCEPT !.triggers = (@ \ AppendOnly) \cup PurgeTriggers,
              !.functions = (@ \ {"reject_mutation"}) \cup PurgeFunctions]

DropAuditPurgePath(s) ==
    [s EXCEPT !.triggers = (@ \ PurgeTriggers) \cup AppendOnly,
              !.functions = (@ \ PurgeFunctions) \cup {"reject_mutation"}]

NumericThresholds(s) == [s EXCEPT !.thresholds = "numeric"]

FloatThresholds(s) == [s EXCEPT !.thresholds = "float"]

RefreshTokenLookup(s) ==
    [s EXCEPT !.forced = @ \ {"refresh_tokens"},
              !.functions = @ \cup {"auth_lookup_refresh_token"}]

\* Mutant: the downgrade forgets to restore FORCE.
DropRefreshTokenLookupUnforced(s) ==
    [s EXCEPT !.functions = @ \ {"auth_lookup_refresh_token"}]

DropRefreshTokenLookup(s) ==
    [s EXCEPT !.forced = @ \cup {"refresh_tokens"},
              !.functions = @ \ {"auth_lookup_refresh_token"}]

PartialHash(s) == [s EXCEPT !.hashUnique = "live_rows"]

FullHash(s) == [s EXCEPT !.hashUnique = "every_row"]

AssistantIncidents(s) ==
    [s EXCEPT !.kinds = InitialKinds \cup {"output_untraceable_figure"}]

DropAssistantIncidents(s) == [s EXCEPT !.kinds = InitialKinds]

PlatformCounters(s) ==
    [s EXCEPT !.functions = @ \cup {"ops_platform_counters"}]

DropPlatformCounters(s) ==
    [s EXCEPT !.functions = @ \ {"ops_platform_counters"}]

ActiveTenants(s) == [s EXCEPT !.functions = @ \cup {"ops_active_tenants"}]

DropActiveTenants(s) == [s EXCEPT !.functions = @ \ {"ops_active_tenants"}]

TenantBySlug(s) == [s EXCEPT !.functions = @ \cup {"ops_tenant_id_by_slug"}]

DropTenantBySlug(s) == [s EXCEPT !.functions = @ \ {"ops_tenant_id_by_slug"}]

LockedStatements(s) ==
    [s EXCEPT !.unlockAttempts = TRUE,
              !.statuses = InitialStatuses \cup {"password_required"}]

DropLockedStatements(s) ==
    [s EXCEPT !.unlockAttempts = FALSE, !.statuses = InitialStatuses]

\* The schema after the migration that leads from version v to v + 1.
After(v, s) ==
    CASE v = 0 -> InitialSchema(s)       [] v = 1 -> RowLevelSecurity(s)
      [] v = 2 -> ServerDefaults(s)      [] v = 3 -> AuditPurgePath(s)
      [] v = 4 -> NumericThresholds(s)   [] v = 5 -> RefreshTokenLookup(s)
      [] v = 6 -> PartialHash(s)         [] v = 7 -> AssistantIncidents(s)
      [] v = 8 -> PlatformCounters(s)    [] v = 9 -> ActiveTenants(s)
      [] v = 10 -> TenantBySlug(s)       [] v = 11 -> LockedStatements(s)

\* The schema after the migration that leads back from version v to v - 1.
Before(v, s) ==
    CASE v = 1 -> DropInitialSchema(s)   [] v = 2 -> DropRowLevelSecurity(s)
      [] v = 3 -> DropServerDefaults(s)  [] v = 4 -> DropAuditPurgePath(s)
      [] v = 5 -> FloatThresholds(s)     [] v = 6 -> DropRefreshTokenLookup(s)
      [] v = 7 -> FullHash(s)            [] v = 8 -> DropAssistantIncidents(s)
      [] v = 9 -> DropPlatformCounters(s) [] v = 10 -> DropActiveTenants(s)
      [] v = 11 -> DropTenantBySlug(s)   [] v = 12 -> DropLockedStatements(s)

\* Mutant: locked statements are left as they are.
FilesBeforeUnmoved(v) == IF v = 1 THEN {} ELSE files

\* What a downgrade does to the rows before it narrows a constraint: the
\* incidents of the new kind are deleted, a locked statement becomes failed,
\* and the first migration drops every table.
FilesBefore(v) ==
    CASE v = 12 -> {[f EXCEPT !.status = IF @ = "password_required"
                                         THEN "failed" ELSE @] : f \in files}
      [] v = 1 -> {}
      [] OTHER -> files

IncidentsBefore(v) ==
    CASE v = 8 -> incidents \ {"output_untraceable_figure"}
      [] v = 1 -> {}
      [] OTHER -> incidents

\* The rows do not contradict the constraints: PostgreSQL checks every row
\* when a constraint is created.
Fits(s, fs, is) ==
    /\ is \subseteq s.kinds
    /\ \A f \in fs : f.status \in s.statuses
    /\ \A f, g \in fs :
           (f # g /\ f.content = g.content)
               => \/ s.hashUnique = "none"
                  \/ s.hashUnique = "live_rows" /\ f.deleted + g.deleted > 0

-----------------------------------------------------------------------------
MigrationsInit ==
    /\ version = 0
    /\ schema = Nothing
    /\ remembered = [v \in {} |-> Nothing]
    /\ files = {}
    /\ incidents = {}
    /\ refused = 0

Remember == remembered' = [v \in DOMAIN remembered \cup {version} |->
                              IF v = version THEN schema ELSE remembered[v]]

Upgrade ==
    /\ version < LatestVersion
    /\ version' = version + 1
    /\ schema' = After(version, schema)
    /\ Remember
    /\ UNCHANGED <<files, incidents, refused>>

Downgrade ==
    /\ version > 0
    /\ LET s == Before(version, schema)
           fs == FilesBefore(version)
           is == IncidentsBefore(version)
       IN  /\ Fits(s, fs, is)
           /\ schema' = s
           /\ files' = fs
           /\ incidents' = is
    /\ version' = version - 1
    /\ Remember
    /\ UNCHANGED refused

DowngradeRefused ==
    /\ version > 0
    /\ ~ Fits(Before(version, schema), FilesBefore(version),
              IncidentsBefore(version))
    /\ refused' = version
    /\ UNCHANGED <<version, schema, remembered, files, incidents>>

-----------------------------------------------------------------------------
(* The program, which expects the head                                     *)

\* An upload: the database admits the content when no live row has it.
Upload ==
    /\ version = LatestVersion
    /\ Cardinality(files) < MaxStatements
    /\ \E c \in Contents, st \in {"uploaded", "password_required"} :
           /\ \A f \in files : f.content = c => f.deleted > 0
           /\ files' = files \cup {[content |-> c, deleted |-> 0, status |-> st]}
    /\ UNCHANGED <<version, schema, remembered, incidents, refused>>

NextDeletion == 1 + Cardinality({f \in files : f.deleted > 0})

\* The request that deletes a statement. The rows deleted are told apart by
\* the order of their deletion, 0 being a live row.
DeleteFile ==
    /\ version = LatestVersion
    /\ \E f \in files :
           /\ f.deleted = 0
           /\ files' = (files \ {f}) \cup
                         {[f EXCEPT !.deleted = NextDeletion,
                                    !.status = "processed"]}
    /\ UNCHANGED <<version, schema, remembered, incidents, refused>>

RecordIncident ==
    /\ version = LatestVersion
    /\ \E k \in {"pii_in_payload", "output_untraceable_figure"} :
           incidents' = incidents \cup {k}
    /\ UNCHANGED <<version, schema, remembered, files, refused>>

MigrationsNext ==
    \/ Upgrade
    \/ Downgrade
    \/ DowngradeRefused
    \/ Upload
    \/ DeleteFile
    \/ RecordIncident

MigrationsSpec == MigrationsInit /\ [][MigrationsNext]_migrationVars

-----------------------------------------------------------------------------
(* The NOT NULL columns, without a default of the first migration, that    *)
(* the program's INSERT statements leave out. Those not listed leave out   *)
(* none.                                                                   *)

UserInsert == {<<"users", "failed_login_count">>}

GoogleUserInsert == {<<"users", "failed_login_count">>}

JobInsert == {<<"processing_jobs", "attempt">>,
              <<"processing_jobs", "max_attempts">>}

StatementInsert == {<<"statements", "transaction_count">>,
                    <<"statements", "duplicate_count">>,
                    <<"statements", "unlock_attempts">>}

TransactionInsert == {<<"transactions", "is_verified">>}

LearnedRuleInsert == {<<"user_category_rules", "times_applied">>,
                      <<"user_category_rules", "confidence">>}

RuleInsert == LearnedRuleInsert \cup {<<"user_category_rules", "is_active">>,
                                     <<"user_category_rules", "priority">>}

\* Mutant: the INSERT forgets the reason.
AnomalyInsertReasonless == {<<"anomalies", "dismissed">>,
                            <<"anomalies", "reason">>}

AnomalyInsert == {<<"anomalies", "dismissed">>}

SubscriptionInsert == {<<"subscriptions", "dismissed">>}

Omitted ==
    UserInsert \cup GoogleUserInsert \cup JobInsert \cup StatementInsert
        \cup TransactionInsert \cup LearnedRuleInsert \cup RuleInsert
        \cup AnomalyInsert \cup SubscriptionInsert

Filled(s) ==
    s.mirrored \cup (IF s.unlockAttempts THEN {<<"statements", "unlock_attempts">>}
                     ELSE {})

-----------------------------------------------------------------------------
(* Properties                                                              *)

\* The variables keep their types, and every row satisfies the constraints
\* of the schema it lives in.
MigrationsTypeOK ==
    /\ version \in 0 .. LatestVersion
    /\ DOMAIN remembered \subseteq 0 .. LatestVersion
    /\ schema.policies \subseteq Isolated
    /\ schema.forced \subseteq schema.policies
    /\ \A f \in files : f.content \in Contents /\ f.deleted \in 0 .. MaxStatements
    /\ refused \in 0 .. LatestVersion
    /\ Fits(schema, files, incidents)

\* The schema depends on the version only, not on the way that led to it: a
\* downgrade takes back what its upgrade did (policies, FORCE, triggers,
\* functions, defaults, constraints), and nothing that an earlier migration
\* left.
SchemaFollowsVersion ==
    version \in DOMAIN remembered => schema = remembered[version]

\* At the head, the database has a default for every NOT NULL column that
\* an INSERT of the program leaves out: no write of the program can fail
\* for a missing value, whatever upgrades and downgrades came before.
InsertsAreComplete == version = LatestVersion => Omitted \subseteq Filled(schema)

\* The rows the program writes at the head stop one downgrade only, the
\* one that makes the content hash of deleted statements unique again. In
\* particular the kinds and statuses that 0008 and 0012 introduced stop
\* none: those downgrades move the rows first.
OnlyReuploadsStop ==
    refused > 0 =>
        /\ refused = 7
        /\ version >= 7 =>
              \E f, g \in files : f # g /\ f.content = g.content

\* What the downgrade of 0008 demands of one: it can run.
DowngradeRuns == refused = 0

=============================================================================
