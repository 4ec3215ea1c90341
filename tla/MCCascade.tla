----------------------------- MODULE MCCascade -----------------------------
EXTENDS Cascade
MCPopulations ==
    {{"tenants", "users", "accounts", "statements", "transactions",
      "transaction_audit"},
     {"tenants", "users", "audit_logs", "notifications", "refresh_tokens",
      "privacy_counters"},
     {"tenants", "users", "accounts", "categories", "subcategories",
      "user_category_rules", "budgets"},
     {"tenants", "accounts", "transactions", "transfer_groups", "anomalies",
      "insight_snapshots", "privacy_incidents"},
     {"tenants", "statements", "processing_jobs", "job_events",
      "statement_pages", "statement_health", "timeline_events"},
     {"tenants", "accounts", "categories", "transactions",
      "ai_classifications", "subscriptions"},
     {"tenants", "categories", "subcategories", "merchants",
      "merchant_aliases", "extraction_accuracy_runs", "ingestion_sources"}}
=============================================================================
