# Expense-AI: TLA+ models, checks and proofs

Expense-AI turns bank statement PDFs into a ledger of transactions. A user uploads
a PDF; the API stores it encrypted and queues a job; a Celery worker parses it,
reconciles it and writes its rows; the user reviews the doubtful ones; the program
derives figures, warnings and prose from them. What must not go wrong is the ledger:
no transaction counted twice or lost, no row without the verdict that says how far to
trust it, no decision of a person overwritten by a model, whatever requests, retries,
crashes and deletes happen at the same time. Around it, sessions must end when they
are ended, and documents must go when they are to go and not before. This directory
states that and checks it.

All paths below are relative to `src/`, line numbers to the file named nearest before them.

## 1. Inventory

| Component | State | Operations | Hard because |
|---|---|---|---|
| Statement requests (`backend/app/services/statements.py`, `api/v1/endpoints/statements.py`) | `statements` rows, one per upload | `ingest_upload`, `unlock_statement`, `soft_delete`, the publish after the commit | reads without locks, an object store outside the transaction, a publish after the commit |
| Ingestion task (`workers/tasks/ingest.py`) | position in a run, retries | `_run` (seven transactions), `process_statement`, `_mark_failed` | late acknowledgement: any prefix of a run may be repeated, beside another run of the same job |
| Trusted ledger (`services/ledger.py`, `services/fingerprint.py`) | `transactions`, verdict and counts on the statement | `persist` | statements of overlapping periods, deletes during an import |
| Job tracking (`services/jobs.py`) | `processing_jobs`, `job_events`, Redis channel | `create_job`, `emit`, `finish`, `load_events` | states are overwritten, events are published before the commit |
| Live stream (`api/v1/endpoints/jobs.py`) | position of each subscriber | `stream_events` | replay against live publication |
| Object storage (`services/storage.py`) | one object per statement | store, load, delete, list | not transactional |
| Task queue (`workers/celery_app.py`, `workers/runtime.py`) | messages of `extract`, `intelligence`, `default` | publish, deliver, acknowledge, give back | redelivery, time limits |
| Arithmetic (`services/reconciliation.py`, `confidence.py`, `fingerprint.py`) | none | pure functions | missing balances, boundaries, repeated rows |
| Review (`services/transactions.py`) | corrected columns, review status, audit rows | correct, approve, apply to similar | two reviewers and an AI write the same rows |
| Cascade and rules (`services/categorization.py`) | categories, `user_category_rules` | `run_cascade`, `learn_from_correction`, create and delete a rule | a list read long before it is written |
| Row triggers (`alembic/versions/0002_rls_and_triggers.py`) | none | what a write may do to a verified row, an original, an audit row | the last word when two writers disagree |
| Accounts and movements (`services/accounts.py`, `movement.py`) | `accounts`, `transfer_groups` | `resolve`, `pair_internal_movements`, `record_statement_coverage` | two imports race for an account, or pair at once |
| Deletion rules (`alembic/versions/0001_initial_schema.py`, `models/`) | every foreign key | the program's DELETE statements | cascades, SET NULL and triggers meet in an order nobody wrote |
| Migrations (`alembic/versions/`) | the schema | twelve upgrades and downgrades | a downgrade meets rows only the newer schema allowed |
| Sessions (`services/auth.py`, `endpoints/auth.py`, `frontend/lib/api.ts`) | `refresh_tokens`, cookies, the tabs' memory | login, refresh, logout, revoke, change password | rotation and reuse detection with several tabs and lost answers |
| Login guard (`core/rate_limit.py`, `auth.py` 288-405) | sliding windows in Redis, failure counter, lock | `check_rate_limit`, `login` | refused attempts count, Redis may be down, the counter is read and written apart |
| Registration and Google (`services/auth.py`, `oauth.py`) | tenants and users | register, the callback's lookup and creation, erasure | a lookup and an insert in two transactions |
| Housekeeping (`services/retention.py`, `workers/tasks/maintenance.py`) | all tables and the bucket | retention sweep, orphan reconciliation, tenant erasure | two stores, no common transaction, live uploads, interruption anywhere |
| Privacy gateway (`privacy/`, `ai/`) | `privacy_counters` (a row per day), `privacy_incidents` | classify, prose, assistant turns, budget | one row counts a day for every asker; the budget is the month's |
| Assistant (`assistant/`) | a conversation | turns, tools, time limit | calls that are made and not counted |
| Intelligence (`workers/tasks/intelligence.py`, `intelligence/`) | subscriptions, anomalies, snapshots, budgets | `refresh_tenant`, `nightly_refresh` | delete and insert side by side; fan-out under row-level security |
| Narratives (`workers/tasks/narrative.py`, `assistant/narrative.py`) | prose on a snapshot | `write_for_tenant`, `nightly_narratives` | prose of figures that have changed |
| Notifications (`services/notifications.py`) | `notifications` | `create`, `for_statement` | check, then insert |
| Exports and privacy report, parsers, file validation, pages of the frontend, observability, tools, deployment | – | – | no shared state of their own; see section 8 |

Interactions. A request and a worker share the database, the bucket and the queue, and
nothing else. PostgreSQL runs at its default isolation (READ COMMITTED): a statement sees what is
committed when it begins, an `UPDATE` or `DELETE` waits for the transaction that holds
the row, an `INSERT ... ON CONFLICT` waits for the transaction that inserted or
deleted the conflicting row. The request's session commits before the background
task that publishes the job (FastAPI 0.115, `endpoints/statements.py` 133-142). An import ends with three
things of its own: the pairing of its movements (inside `persist`), the cascade (a transaction that waits for the model) and
a message that has the tenant's intelligence rebuilt. A browser's tabs share a cookie and nothing else.

What makes each modelled component correct:

* requests: one live statement per document; a job only for a file that opened and passed the scan;
* ingestion: a run may be cut anywhere and repeated without changing the ledger; every job ends;
* ledger: each fingerprint at most once; a row never without its statement's verdict; an import is never partial; a row leaves only with its statement;
* live stream: events are shown in the order of their stamps and none twice, nothing published is skipped, and the end is told (what a second run says of its own progress is newer, and is shown, although it may be a lower figure);
* arithmetic: trusted exactly when the errors of reading cancel, the divergent row is the right one, nothing unchecked is approved unseen;
* fingerprints: one per transaction that really happened, whatever statements print it;
* review: what a person verified only a person changes; the audit of a figure ends where the row is, unless two corrections of the row crossed; the model approves nothing by itself;
* accounts and movements: a linked transfer is no spending on either side; a balance is that of the latest period that printed one;
* schema: no insert can miss a value; an erasure takes everything and is not refused; downgrades are stopped by re-uploads only;
* sessions: ended stays ended, one live token at a time, nobody is accused for what one tab does;
* login guard: no window holds more than its limit, failures that do not overlap are counted one by one and lock, the owner gets in;
* enrolment: an account is entered by whom it was made for;
* housekeeping: a visible statement keeps its file; an expired row goes, and what an erasure has read of the bucket, through any interruption;
* gateway: every call counted once, unless it timed out or was rolled back; three kinds of refusal alike in counters and log; spending bounded;
* intelligence: five surfaces show one sum; a quiet refresh is exact; a breach is told once.

## 2. Modules

The modules of a group share state and are composed; groups share none.

| Module | Models | Uses |
|---|---|---|
| `StatementStore` | the shared state of ingestion: tables, bucket, queue, locks; constants and their assumptions | |
| `StatementApi` | upload, unlock, delete, publish: one action per commit or per object write | `StatementStore` |
| `IngestWorker` | delivery, the run's transactions, exceptions, retries, losses | `StatementStore` |
| `Ingestion` | the composition, its fairness, its properties, the refinement | both |
| `LedgerContract` | the abstract specification: accept, import, remove | |
| `JobStream` | the events of one job: transactions that publish before they commit, the channel, one browser's stream | |
| `Reconciliation` | the report and the statement's score as functions of a statement and of how it was misread | |
| `Fingerprints` | the numbering of like transactions over overlapping statements | |
| `Transfers` | an import's account, the pairing of its movements, the account's balance | |
| `Review` | reviewers, the cascade and the rules over the rows of one statement | |
| `Cascade` | the foreign keys, triggers and deletes of the schema | |
| `Migrations` | the twelve migrations, up and down, and the rows written between them | |
| `Maintenance` | sweep, reconciliation and erasure over the statements table and the bucket | |
| `Throttle` | the sliding window and the lockout in front of a password | |
| `Enrolment` | registration, Google sign in, erasure | |
| `Sessions` | refresh tokens, cookies, tabs and their requests | |
| `Gateway` | the door to the language model and the books kept at it | |
| `Insights` | what is derived from a ledger, as functions of it | |
| `Derived` | the derived tables, who rebuilds them, and what is told | `Insights` |
| `MCIngestion`, `MCSessions` | the instances of their module | |
| `MCServices`, `MCLedger`, `MCIntelligence` | runs over several modules (below), with `MCJobStream`, `MCReconciliation`, `MCFingerprints`, `MCTransfers`, `MCReview`, `MCCascade`, `MCGateway`, `MCDerived` for their instances | |
| `Sums` | facts about finite sums, of naturals and of integers, and about the smallest of some numbers, for the proofs | |
| `IngestionProofs`, `SessionsProofs`, `ReviewProofs`, `ServicesProofs` (the modules of `MCServices`), `ImportProofs` (`Fingerprints`, `Transfers`, `Reconciliation`), `LedgerProofs` (`Migrations`, `Cascade`, and `MCLedger` as a whole), `IntelligenceProofs` (the modules of `MCIntelligence`) | section 7 | `Sums`; `LedgerProofs` takes `ImportProofs` and `ReviewProofs` |

`MCServices`, `MCLedger` and `MCIntelligence` put modules that share no state into one run. A variable `focus`
names the module a behaviour is about; the others stay in an initial state. The reachable states are the sum of
the modules', not their product, and every property is checked on each as in a run of its own.

How the groups fit together. `Ingestion` takes the fingerprints (`RowsOf`) and the verdict (`VerdictOf`) of a document as given: `Fingerprints`
justifies that two statements share exactly the fingerprints of the transactions they share, and `Reconciliation` says what
a verdict means. `JobStream` refines what `Ingestion` shows as `job[j].state` by the events and
their stamps, with two runs of one job because `Deliver`, `WorkerLost` and `ConnectionLost` of `IngestWorker` allow two.
`Transfers` opens the one step `Persist` of `IngestWorker`, `Review` the step that categorises. `Maintenance`
sees of an upload and a delete only their object write and their commit. `Gateway` opens the step at which `Review`'s
cascade and `Derived`'s narratives ask the model.

### State

| Variable | In the program |
|---|---|
| **Ingestion** `row[s]` | the `statements` row: `status`, `trust_status`, `processed_at IS NOT NULL`, `deleted_at IS NOT NULL`, `unlock_attempts`, `transaction_count` |
| `rowLock`, `doomed[c]` | rows written by a transaction that is still open; rows request `c` has deleted and not yet committed |
| `object[s]` | what the bucket holds under the statement's key: nothing, the PDF as sent (locked), or a PDF that opens |
| `job[j]`, `queue[j][r]` | `processing_jobs`; undelivered messages of the extract queue, by job and by number of retries |
| `ledger` | `transactions`: which statement brought each fingerprint |
| `notes[s]` | the kinds of notification the statement's imports created |
| `client[c]`, `worker[w]` | a request being served: where it stands, what it read; a worker process: where the run stands, its message, what the run inserted |
| **JobStream** `run[r]`, `events`, `channel`, `stream`, `clock` | a run of the job with the stamp in hand; committed `job_events`; what Redis holds for the subscription; the locals of `event_source`; stamps handed out |
| **Reconciliation** `card`, `figures`, `lines` | the kind of account, the closing figures that were printed, the printed rows each with what the parser made of it |
| **Fingerprints** `history`, `covered`, `ledger` | what happened on the account, the part of it on imported statements, the fingerprints accepted by the index |
| **Transfers** `accounts`, `entries`, `written`, `target`, `covering` | account rows, transaction rows, what open imports have written on rows, the match an import has found, who holds an account |
| **Review** `rows`, `draft`, `holder`, `userRequest`, `cascade`, `rules`, `trail` | the rows as committed, as their holder has written them, who holds them; requests; the cascade's list and decision; `user_category_rules`; `transaction_audit` with `changed_at` |
| **Cascade** `alive`, `refs`, `queue`, `running` | tables that hold a row, references that are set, PostgreSQL's queue of referential actions, the running DELETE |
| **Migrations** `version`, `schema`, `files`, `incidents` | `alembic_version`; policies, triggers, functions, defaults, constraints; rows that constrain a downgrade |
| **Maintenance** `stmt`, `blob`, `storing`, `removing`, `opening`, `sweep`, `recon`, `erasure` | statement rows, objects, uploads, deletes and unlocks under way, the three tasks with the sets they hold in memory |
| **Throttle** `hits`, `count`, `lockedFor`, `attempt`, `wait` | the sorted set of an address by age, `failed_login_count`, `locked_until`, a sign in between its two transactions, what the owner was told |
| **Enrolment** `account`, `form` | tenant and user in one row, a request with what it has found |
| **Sessions** `token`, `jar`, `tab`, `request` | `refresh_tokens`, the refresh cookie of a browser, a tab's memory, requests under way with the cookie they carry and the one they bring back |
| **Gateway** `today`, `booked`, `drafted`, `keeper`, `filing`, `filed`, `asker` | `date.today()`; the `privacy_counters` row of each day of the month, committed and as its holder has it; incidents, drafted and committed; where each asker stands |
| **Derived** `ledger`, `subscriptions`, `anomalies`, `snapshots`, `notices`, `budgets`, `shift`, `refreshes`, `phrasings` | the tables, the transaction each worker is in, the messages |

A document is a model value. What the parsers read from it is the set `RowsOf[d]` of
fingerprints, whether it reconciles is `VerdictOf[d]`, and two statements overlap
when their sets meet. A statement id is minted for one document (`DocOf`), so two
ids with one document are two uploads of the same bytes. A variable marked "history" in a module
is nobody's state: it remembers what a property speaks of (`ended`, `raced`, `excused`, `putBack`, `overnight`, `cooling`, `overlaps`, ...).

### Actions

| Action | Code |
|---|---|
| **StatementApi** `UploadStore` | `ingest_upload` in `services/statements.py` 67-182: validation, duplicate SELECT, object write |
| `UploadCommit`, `UploadPark`, `UploadLostRace` | 184-299: insert won, with a job or parked without one; 225-235: the index refused the row |
| `UnlockOpen`, `UnlockWrong`, `UnlockRefuse`, `UnlockStore`, `UnlockCommit` | 342-371: read without a lock, then load; 373-410, 412-447, 451, 459-483 |
| `DeleteFind`, `DeleteRows`, `DeleteObject`, `DeleteCommit` | `soft_delete` 607, 609-614, 616-627, commit |
| `UploadAbort`, `UnlockAbort`, `DeleteRollback`, `DeleteAbort` | a failure before the commit: the session rolls back, the bucket does not |
| `Dispatch`, `DispatchLost` | `_queue_ingestion` in `endpoints/statements.py` 43-57 |
| **IngestWorker** `Start` … `Complete` | `_run` in `workers/tasks/ingest.py`, one action per transaction |
| `Raise`, `LoadMissing`, `Retry`, `MarkFailed`, `MarkFailedRaises` | `process_statement` 427-475 |
| `Deliver`, `Ack`, `WorkerLost`, `ConnectionLost`, `TimeLimit` | Celery as `workers/celery_app.py` 62-70 configures it |
| **JobStream** `Stamp`, `Emit`, `Finish`, `Commit`, `Fail` | `emit` and `finish` in `services/jobs.py` 120-232, the commit of the task's session, a rollback and another run |
| `Subscribe`, `ReadHistory`, `Replay`, `Receive`, `Close` | `event_source` in `api/v1/endpoints/jobs.py` 81-159 |
| **Reconciliation** `PrintRow`, `Lose`, `Flip` | the bank and the parser, external; the code is in the operators (`services/reconciliation.py` 56-171, `confidence.py` 89-124) |
| **Fingerprints** `Happen`, `Import` | the account, external; `assign` of `services/fingerprint.py` and the insert of `services/ledger.py` |
| **Transfers** `ResolveKnown`, `ResolveMisses`, `ResolveInserts` | `resolve` in `services/accounts.py` 45-103: the lookup, and the insert that waits for a racing one |
| `WriteRows`, `FindMatch`, `FindNoMatch`, `Link`, `Cover`, `Commit` | `persist` from its insert to its commit, with `pair_internal_movements` (`movement.py` 55-185) row by row |
| `Abort`, `Deadlock`, `RemoveStatement` | a retry's rollback; PostgreSQL's deadlock detector; `soft_delete` of one side |
| **Review** `BeginCorrect`, `BeginApprove`, `BeginSimilar`, `Edit`, `CommitRequest`, `AbortRequest` | `services/transactions.py` 278-438, 558-605: the read, the UPDATE of each row, the commit with audit rows and the learned rule; a figure may be set to null, which shows the document's again |
| `CreateRule`, `DropRule` | `endpoints/categories.py` 143-251 |
| `CascadeStart`, `DecideByRule`, `DecideByHistory`, `DecideByModel`, `DecideNothing`, `WriteCategory`, `CascadeCommit`, `CascadeAbort` | `run_cascade` and `_write_category` in `categorization.py` 98-320, and what the triggers of 0002 allow |
| **Cascade** `InsertRow`, `Delete`, `CascadeRow`, `ForgetRow`, `NextRow`, `Refused`, `Done`, `DiscardEmpty` | each DELETE of `retention.py`, `statements.py`, `recurring.py`, `anomaly.py`, `budgets.py`, `categories.py`, and PostgreSQL carrying it through the keys of 0001 |
| **Migrations** `Upgrade`, `Downgrade`, `DowngradeRefused` | `upgrade()` and `downgrade()` of each migration, refused when the rows contradict its DDL |
| `Upload`, `DeleteFile`, `RecordIncident` | the program's writes that matter to a constraint |
| **Maintenance** `StoreUpload`, `CommitUploaded`, `LoseUpload`, `RemoveFile`, `CommitRemoval`, `LoseRemoval` | uploads and deletes as the bucket and the table see them |
| `OpenLocked`, `StoreOpened`, `EndUnlock` | `unlock_statement` 342-371, its object write 449-453, its end: it loads an object and may put it back later |
| `SweepStart`, `SweepRows`, `SweepObject`, `SweepEnd`, `SweepLost` | `_sweep_all` in `workers/tasks/maintenance.py` 72-109 and `sweep` in `retention.py` |
| `ReconStart`, `ReconKeys`, `ReconList`, `ReconObject`, `ReconEnd`, `ReconLost` | `_reconcile` 112-193, with its refusal when too much looks like an orphan |
| `EraseKeys`, `EraseObject`, `EraseRows`, `EraseLost`, `WindowPasses` | `erase_tenant` 195-245 and `delete_account`; time |
| **Throttle** `TurnAway`, `LetIn`, `LetInUnmetered`, `FailLogin`, `Succeed`, `Tick` | `check_rate_limit` refusing, admitting and without Redis; `login`'s two transactions; time |
| **Enrolment** `Register`, `RegisterCommit`, `RegisterTaken` | `register` in `services/auth.py` 190-286 |
| `GoogleReturns`, `GoogleLookup`, `GoogleCreate`, `GoogleTaken`, `GoogleEnter`, `FormLost`, `Erase` | `complete_authorization` in `oauth.py` 88-191, one action per transaction |
| **Sessions** `SendLogin`, `SendRefresh`, `SendLogout`, `Reload`, `AccessExpires`, `Answer`, `LoseAnswer` | `frontend/lib/api.ts` 67-232 and `auth-context.tsx` |
| `Login`, `RefreshLookup`, `RefreshReuse`, `RefreshExpired`, `RefreshRotate`, `RefuseMissing`, `Logout`, `RevokeSession`, `ChangePassword`, `TokenExpires` | `services/auth.py` 373-577 and `endpoints/auth.py`, one action per transaction |
| **Gateway** `Prepare`, `PrepareProse`, `CheckBudget`, `Call`, `Account` | `classify` in `privacy/gateway.py` 184-343 in its order, and the narrative's way through it |
| `Turn`, `FinishConversation`, `TimeOut`, `Start`, `GatewayCommit`, `GatewayAbort`, `Midnight` | `_ask_model` in `assistant/orchestrator.py` 237-330; the asker's transaction; the row of `date.today()` becomes another |
| **Derived** `TakeRefresh`, `BeginReplacing`, `CommitSubscriptions`, `Sweep`, `Build`, `StoreSnapshot`, `Notify`, `CommitRefresh` | `_refresh_tenant` in `workers/tasks/intelligence.py` 42-138, by transaction and by the statements whose reads others may change |
| `TakePhrasing`, `Phrase`, `StoreNarrative`, `CommitNarratives` | `workers/tasks/narrative.py` 40-63, `assistant/narrative.py` |
| `NightlyRefresh`, `NightlyNarratives`, `Die` | the nightly tasks under row-level security; a lost worker whose message returns |
| `ImportRows`, `Recategorise`, `DeleteRows`, `CreateBudget`, `UpdateBudget`, `RemoveBudget` | what changes the ledger and the budgets meanwhile |

An action is a whole transaction wherever nobody can see its inside: what it writes before the commit nobody else sees.
It is split where others can. A delete removes the object *before* its commit, so it takes three
actions and holds the row lock between them; its `DELETE FROM transactions` is a
snapshot (`doomed`), and `Held` makes an import wait for a delete
that holds one of its fingerprints, as the unique index does. A pairing reads what is committed row by row. A cascade reads its list
long before it writes. A refresh of a token reads its row in one transaction and acts in another.

Details that matter to a property. `Transfers` keeps the coverage's end and `balance_as_of` apart: a statement
without a closing balance moves the first only, one without a period is never the later one (`accounts.py` 121-147); the coverage's start and the credit limit are left out. The
trail of `Review` is read as `audit_trail` reads it, by `changed_at`, which is `now()`: the start of the transaction that wrote it. In `Gateway` a bump goes to the row of
`today` and the budget is compared with the sum of the days; `date.today()` and `CURRENT_DATE` are taken for one clock, and a transaction begun in an earlier month, whose `CURRENT_DATE`
still says so and whose sum is of more days, is not modelled. A narrative asks for `MaxMonths` months in one transaction and goes on after one that is blocked.
A budget of `Derived` has one period and one first day, so that a category has one.

Failures are actions of their own. In `Ingestion` each is of a kind that a run allows (`FaultKinds`) and all together are at
most `MaxFaults`: `abort` (a request's transaction fails), `storage` (the bucket refuses a removal,
which the code only logs), `api` (the API dies before it publishes), `error` (anything in a run
raises), `invalid` (the object does not validate any more), `bookkeeping` (`_mark_failed` raises), `lost`
(a worker process dies), `connection`
(the connection to the broker is lost and the message returns while the run goes on), `time_limit` (it is killed by the hard limit).
`JobStream` has `rollback` (the open transaction of a run fails), `redis` (a publish reaches nobody, which the code swallows) and
`close` (the browser goes away, or the stream's 900 seconds are over). `Maintenance` has `storage`, `lost` and `abort`. Elsewhere a
bound counts one kind: `MaxLost` answers, `MaxOutages` of Redis, `MaxAborts` imports, `MaxDeaths` workers.

## 3. Properties

Besides one type invariant per run (`TypeOK`, `ServicesTypeOK`, `LedgerTypeOK`, `IntelligenceTypeOK`: each the conjunction, by focus, of its modules').

| Property | Says | Hazard |
|---|---|---|
| `OneLivePerDocument` | a PDF is live at most once, however uploads of it race | the duplicate SELECT is only an optimisation |
| `OnlyOpenedFilesAreQueued` | a job exists only for a file that opened and passed the scan, and whose stored object is not the locked one | racing unlocks, aborted unlocks, deletes |
| `NoDoubleCount` | a fingerprint is in the ledger at most once | overlap, retry, redelivery |
| `RowsCarryVerdict` | a row is there only with its statement's verdict | a crash between two writes |
| `ImportsStayComplete` | every row of an imported statement is in the ledger, unless a deleted statement had it too | partial imports, deletes during imports |
| `DoneMeansImported` | a job that says completed or review_required has imported its statement | repeated runs, late failures |
| `RowsLeaveOnlyWithTheirStatement` | a step that takes rows marks exactly their statement deleted | deletes of overlapping statements |
| `ImplementsContract` | the ledger changes only by whole acceptances, imports and removals (`LedgerContract`) | all of them |
| `EveryJobSettles` | every job reaches a terminal state and keeps it | retries, losses, redelivery after the end |
| `InOrder`, `NeverBehind` | a stream shows events in the order of their stamps, none twice (of the figures in them it says nothing: a second run starts again at its beginning); what was published since the subscription was shown, passed by, or waits | two runs publish out of the order of their stamps; replay against channel |
| `FinishIsTold` | a stream that is there for the end, or opens after it, says done | the end is filtered, missed or overtaken |
| `SettledFilesSurvive` | a visible statement keeps its file, unless its own delete took it or it arrived during a reconciliation | the live keys are read before the bucket is listed |
| `ErasureLeavesNothingKnown` | nothing an erased tenant's last erasure had read is left in the bucket, but for what the store refused and what an unlock put back | two halves, cut anywhere; an unlock that loaded the file before |
| `ExpiredGo` | the row of an expired statement goes in the end | workers die in any batch |
| `WindowHolds`, `CountIsExact`, `OwnerGetsIn` | a window never lets more than its limit through; while no two sign ins overlap no failure is lost, and the account is locked exactly while the failures have reached the limit and the last is younger than the lockout; a patient owner gets in | refused attempts count, Redis away, an error that takes its own bookkeeping with it |
| `EnteredByItsOwn` | an account is entered by whom it was made for, and an address has one | a lookup and an insert in two transactions |
| `EndedStaysEnded` | no token of an ended session can be refreshed, unless a refresh had been let in before | logout against refresh |
| `SessionIsAChain` | one token of a session is live, unless one was let in twice | two refreshes of one token |
| `AccusedForAReason` | reuse detection ends an honest session only if two tabs sent one cookie or an answer was lost | 401s that come together |
| `InsertsAreComplete` | at the head every NOT NULL column the program leaves out has a default, after any path of migrations | defaults set in one migration, tables made in another |
| `OnlyReuploadsStop` | the program's rows stop no downgrade but the one that makes hashes unique again | kinds and statuses only the newer schema knows |
| `ErasureIsWhole` | the DELETE of a tenant is not refused and leaves nothing | SET NULL against append-only and verified-row triggers |
| `MovementIsNotSpending` | neither side of a linked movement counts as spending | two imports take one partner |
| `BalanceIsLatest` | an account shows the balance of the latest period that printed one, and covers the latest of all | imports commit in any order, some say nothing of the balance |
| `TrailEndsAtTheRow` | a row's figure is one its audit says was written, and the newest entry by `changed_at` unless corrections of the row crossed | corrections that cross, corrections back to the document's figure |
| `HumanDecisionStands` | a verified row's category changes only by a correction of it | a cascade or a bulk action with an older list |
| `ReadingIsJudged` | trusted iff both figures are printed and the errors cancel; the row named is the first at or before which something was misread; a score that skips review was earned | sign conventions, lost rows, errors that cancel |
| `LedgerIsExact` | the fingerprints in the ledger are the transactions on the imported statements, one each | overlapping periods, repeats within a day |
| `OverspendIsBounded` | spending passes the ceiling by less than each asker may spend between looking and counting, and one ceiling more for each that held a day's row over midnight | checked before the call, charged after, in the row of another day |
| `CountersAgree` | a call is counted once, or is pending, rolled back or timed out; blocked payloads, quarantined texts and answers rejected for what they say are as many in the counters as in the log | one row for all askers |
| `ToldOnceInTurn` | a budget breach is told once a month, unless two refreshes overlapped | check, then insert |
| `SurfacesAgreeAtRest` | (`SurfacesAgree`, looked at while no worker is on duty, as every ledger is reached so) categories, days, trend, comparison and headline show one sum | five queries of their own |
| `RefreshedIsExact` | a refresh that was alone leaves what a recomputation would | delete and insert, night after night |

The mutants in `PROJECT.json` are the mistakes these properties would catch: a dropped index (`OneLivePerDocument`, `NoDoubleCount`), a
list of live keys of deleted statements only (`SettledFilesSurvive`), rows that go before their objects (`ErasureLeavesNothingKnown`), a refresh per 401 (`AccusedForAReason`), a lookup by address (`EnteredByItsOwn`)
and so on. They stand in the modules, marked "Mutant".

`ImportsStayComplete` has an exception because the code has one: see `TrustedMeansPresent` below.
`LedgerContract` has a constant `RacingImports`: TRUE describes the program, where an import may
run beside the removal of its statement; FALSE is the stricter contract a reader of `soft_delete`
would expect, which the program does not keep (`NoOrphanRows`).
Several others except what a property of section 5 then states without the exception: `EndedStaysEnded` and `SignOutEnds`,
`HumanDecisionStands` and `AiNeverOverridesAHuman`, `ToldOnceInTurn` and `WarnedOnce`.

Stated in a module and true on its instance, without a place in a run: `SchemaFollowsVersion` (the schema depends on the version, not on the path to it),
`ModelsAreTheSchema` (the keys the models declare are those of the migration), `LedgerLeavesOnlyOnRequest`, `SidesMatch`, `CascadeIsNeverRefused`; and
`AiNeverApprovesItself`, which is a theorem.

## 4. Runs

| Run | Instance | Shows |
|---|---|---|
| `races` | two statements that share a row, two jobs, two requests, two workers, one failure of any kind; 1.08 million states | the ledger's properties and the refinement |
| `uploads` | two uploads of one protected document and one of a document that fails its scan once open, two requests, one worker, two jobs; 1.36 million | one live statement per document; only opened files are queued |
| `settles` | one protected statement, one request at a time, two workers, three failures; 237 thousand | liveness of jobs |
| `services` | `Maintenance`: two tenants with a statement each, one of them locked, deletable and erasable with its tenant, one failure. `Throttle`: owner and stranger, windows, limits and locks of 2, four wrong passwords, one outage. `Enrolment`: two addresses, one identity, two requests, three accounts. `JobStream`: two runs that process and end, one stream, one failure; 274 thousand states | files survive or go as they should, the guard holds and lets in, accounts are entered by their own, streams are ordered, complete and told the end |
| `sessions` | two tabs of one browser, two requests at a time, three tokens, one lost answer; 1.13 million | ended, chained, accused for a reason |
| `ledger` | `Migrations`: three statement rows of two contents. `Cascade`: every table, in seven populations that cover every key. `Transfers`: four imports, one without a balance and one without a period, seven rows, two accounts, one abort, one removal. `Review`: two rows, two requests, one cascade. `Reconciliation`: three lines, three pages, cards and accounts, every misreading. `Fingerprints`: six transactions of two kinds on three days; 1.07 million | six parts of the ledger |
| `intelligence` | `Gateway`: a cascade, a narrative and a conversation on the two sides of a midnight, a ceiling of two calls. `Derived`: two workers, eight transactions and an import of five, two changes, one night, one death; 510 thousand | the books of the AI, the derived figures |
| `orphan_rows`, `raced_sign_out`, `overridden`, `warned`, `night` | the smallest instance in which the disagreement shows | what comments say and the code does not keep (section 5) |

Bounds. Two statements are what an overlap or a race of uploads needs; the shared row `f2`
and one row of each alone distinguish the outcomes of every insert and delete. Two
jobs let two statements have one each, or one statement two (racing unlocks). Two workers let
a redelivered run overlap its successor. In `races` a lost worker or a lost connection is what repeats a run (a retry
repeats it the same way), so it allows no retry; in `settles` one retry exercises both branches of the exception handler (the code has two). `MaxFaults` = 1
where safety is checked, 3 where liveness
is, so that a run can be lost and then use up its retries; the proofs (section 7) hold for any number.
A stream needs two runs to see stamps out of order, and one progress event before each end to have
something replayed and the next received; both runs end in `review_required`, one outcome standing for the other, and a run that fails says so (`Fail`).

A reconciliation of the bucket goes wrong with a statement that is there before it and one that comes during it; `Locked` and `Disposable` name the statements that an unlock and a delete may touch: one of the two, which is the one whose tenant may leave. `OrphanShare` = 2 lets one
orphan of two objects be too many, so the refusal is reached as well. A window of length 2 has an edge inside it; a limit of 2 has a last
attempt and one too many; four wrong passwords lock the account twice. A third account is the one registered anew under an erased address. Two tabs and two
requests are a crossing; the third token is the one a refresh brings after another has.

Three lines hold a lost row at either end and, with equal amounts of both signs, two errors that cancel around a row that prints a balance. Three pages
are the least with an inner one. Six transactions put three alike on one day between two others. Four imports give three statements of one account, the last of which prints no balance, and one of another, which prints no period; two rows of the
first are candidates for one partner of the other. Three statement rows are one deleted, one re-uploaded and one other. Two review rows distinguish the row
decided from the list of the cascade; the score 99 is the one the cap of 92 must bring down. A cascade of two rows, a narrative of two months and a conversation of two turns each ask twice; a ceiling of two calls and prices of one, over two days, let each side of a midnight spend without seeing the other. A provider's error
is counted as a good answer is, and has no member of its own among the responses.
Eight rows of three months are what the detectors need (three months of a baseline, three occurrences of a charge), and the import adds one finding of each kind
that the opening has not.

`CHECK_DEADLOCK FALSE` in every run, as every system here may stop: users stop sending requests, a job ends and its stream closes, a printed statement is over, a question is answered.

Symmetry: requests, workers, job ids, tokens, review requests and the kinds of transaction are interchangeable in the definitions, and so are the
first two statements of `uploads`, which are minted for one document. The runs with a liveness property use no symmetry.

## 5. Where comments and code disagree

Five have a run that TLC finds violated; `PROJECT.json` quotes the lines.

1. `orphan_rows`: `persist` never reads `deleted_at`. Delete a statement while it is imported and
   its rows stay, with no live statement to delete them by.
2. `raced_sign_out`: a refresh reads its token in one transaction and issues the successor in another. A logout between the two
   revokes the family and leaves the successor live: signed out, and still signed in.
3. `overridden`: the cascade lists the rows to categorise, waits for the model, and writes by id with no condition but `is_verified = false`. A correction
   verifies its row by default (`transactions.py` 287, 373-377), but one with `verify = false`, and `apply_to_similar` (568-620), decide the category
   and leave the row unverified; if they commit meanwhile, the model's category replaces the user's. `categorization.py` 19-22 promises that it cannot.
4. `warned`: a refresh deletes the month's anomalies and inserts them with new ids; the guard against telling twice compares ids, so every refresh tells everything again.
5. `night`: the nightly task lists the tenants in a session without `app.current_tenant_id`. Under forced row-level security and the role of
   `infrastructure/postgres/init/02-app-role.sh` (NOBYPASSRLS) the list is empty, so the night refreshes nobody.

These are stated in the modules next to the others and refuted by TLC on the instances of section 4 (`ProseAgreesWithCards` with a second night, `MaxNights` = 2). They have no run of their own.

| Property | Module | What happens |
|---|---|---|
| `TrustedMeansPresent` | `Ingestion` | of two overlapping statements the first imported owns the shared rows; deleting it takes them from the second, which goes on saying that it reconciles |
| `ReportIsTheLedgers` | `Ingestion` | a run repeated after the ledger write finds only duplicates, overwrites `transaction_count` with 0 and announces a clean import, although rows of it wait for review |
| `NoOrphanObjects` | `Ingestion` | the clean-up of the losing upload calls `delete_statement` with an argument it does not take |
| `NoGap` | `JobStream` | an event published before the subscription, whose transaction commits after the history was read, is never shown |
| `GapDoesNotBreak` | `Reconciliation` | a row that prints no balance is skipped with its amount: a statement read exactly as printed is called divergent at its next row |
| `MovementsHaveTwoSides` | `Transfers` | an import links a partner that another import has linked since: a group with one side |
| `AuditPinsNothing` | `Cascade` | a statement with a corrected row cannot be deleted: the cascade reaches the row's audit entry, whose trigger refuses without the flag that `soft_delete` does not set |
| `DowngradeRuns` | `Migrations` | a re-upload after a delete leaves two rows with one hash, which the downgrade of 0008 cannot make unique |
| `SweepEmptiesFirst` | `Maintenance` | the sweep commits the deletion of the rows before it empties the bucket, contrary to the module's docstring |
| `NoContradictoryRules` | `Review` | two corrections of one merchant that cross leave two learned rules |
| `AuditTellsTheStory` | `Review` | two corrections that cross write two entries that start from the same old value |
| `EveryCallIsCounted` | `Gateway` | a rollback, or the assistant's time limit, takes the count of calls that were made with it |
| `AnswersAreJudged` | `Gateway` | a confidence that is no number raises instead of being rejected |
| `ProseAgreesWithCards` | `Derived` | the prose of a month stays when the month's figures change |

Others are steps of the models that no property speaks of:

* an unlock that began before a delete stores the plaintext back after it (`UnlockStore` after `DeleteCommit`), and one that began before its tenant's erasure puts back an
  object that no row names afterwards (`StoreOpened` after `EraseObject`); `ErasureLeavesNothingKnown` excepts it, and only a reconciliation finds it;
* a transaction that fails after its publish leaves on the screen an event that is in no history (`Fail` after `Emit`);
* a run killed by the hard time limit is acknowledged, so its job never ends (`TimeLimit`), while the comment over `task_acks_late` promises that a killed worker loses nothing;
* a retry shows the progress of its job again from the beginning, with newer stamps (`Stamp`, `Emit` of a second run);
* a failure of a sign in that overlaps another of the same account is lost, because the count is read and written apart (`FailLogin`);
* a refresh that is refused means to clear the cookie (`endpoints/auth.py` 168-172: "Leaving a dead cookie in place makes the client retry forever"), but the error
  handler builds a new response (`core/errors.py` 119-130) and the cookie stays (`Refuse`, `Answer`);
* the trail of a row is shown by `changed_at`, the start of a transaction, so that corrections which cross may end it on another figure than the row's (`Newest`),
  and a category that the cascade changes has no entry at all (`CascadeCommit`);
* a change of password revokes the session it was made in (`ChangePassword`);
* `retention.py` 90 says that a sweep never touches a transaction; the foreign key of 0001 deletes a statement's transactions with it (`Cascade`);
* a rule made by hand has priority 100 and loses to a learned one with 10 (`DecideByRule`);
* a movement is paired without regard to its kind, and the side that is re-imported is never paired again (`FindMatch`, `RemoveStatement`);
* a narrative's unexpected tool call is rejected with neither a counter nor an incident (`ProseVerdict`, `Account`; `assistant/narrative.py` 247-251), and a `budget_exceeded` incident has no counter (`CheckBudget`);
* two refreshes side by side leave each anomaly twice, and the later commit may store the older figures (`CommitRefresh`);
* a month that is older than the refresh looks back keeps its anomalies and its snapshot for good (`Build`);
* a subscription the user has dismissed comes back with the next refresh (`CommitSubscriptions`), and a correction or a delete starts no refresh at all.

## 6. Fairness

`FairSpec` of `Ingestion` adds weak fairness per request (`ClientStep`) and per worker (`WorkerStep`). A request that has begun is
driven by the event loop to its answer and its background task; a worker process consumes and runs as long as it lives, and a lost
process is replaced by its pool. Nothing is assumed of users (`ClientStart`) or of failures. Weak fairness is
enough: a step that waits for a row lock waits for a delete, which is itself carried on.

`EveryJobSettles` does not hold of the kinds `api` (a queued job that nobody publishes),
`time_limit` (the run above) and `bookkeeping` (the failure that could not be recorded), which leave
a job where it stood; its run allows the other kinds.

`JobStream` has weak fairness of each run (`RunStep`) and of the stream (`StreamStep`): workers run what they were given, and the event loop drives
the generator, whose `get_message` returns what Redis has delivered. Opening a stream is up to the user and failures are owed by nobody.
`FinishIsTold` makes an exception of browsers that go away and of publishes that Redis loses,
after which the code's own comment sends the browser to polling.

`Maintenance` has weak fairness of the sweep alone (`SweepStep`): the beat schedule starts it every night (`celery_app.py` 89-122) and a
worker that took it goes on. That uploads, deletes, reconciliations or erasures happen is not assumed. `ExpiredGo` says of the
rows that they go; of the object it says nothing, as the store may refuse it for good (`SweepEmptiesFirst`).

`Throttle` has weak fairness of time (`Tick`), of the second transaction of a sign in that was let in (`Verdict`) and of the owner's trying again when told that the
wait is over (`OwnerTries`). Nothing is assumed of other addresses; that `OwnerGetsIn` holds nevertheless rests on the bound `MaxWrong`: strangers who never
stop keep an account locked, as the code means them to.

`MCServices` conjoins the same conditions with `focus`, so that each is asked for only of the module a behaviour is about.

## 7. Proofs

TLAPS checks every theorem, for any sets of statements, documents, fingerprints, requests, workers, tokens, rows, owners, askers and so on,
any length of a statement or a history, any amounts, any number of retries and of failures, of every kind at once. Every safety invariant and action property of
a passing run is a theorem.

| Theorem | Module | From |
|---|---|---|
| `TypeCorrect`: `Spec => []TypeOK` | `IngestionProofs` | `TypeOK` is inductive as it stands: it says that every message, run and pending publish is of a job that exists |
| `OnlyOpened`: `Spec => []OnlyOpenedFilesAreQueued` | `IngestionProofs` | `FileInv` |
| `OneLive`, `CountedOnce`, `RowsInterpretable`, `StaysComplete`: `OneLivePerDocument`, `NoDoubleCount`, `RowsCarryVerdict`, `ImportsStayComplete` | `IngestionProofs` | `LedgerInv`, `DoomedInv` |
| `DoneCorrect`: `Spec => []DoneMeansImported` | `IngestionProofs` | `DoneInv` |
| `RowsLeaveWhole`: `Spec => RowsLeaveOnlyWithTheirStatement` | `IngestionProofs` | `DoomedInv` |
| `Implements`: `Spec => ImplementsContract` | `IngestionProofs` | `FileInv`, `DoomedInv` |
| `FingerprintsTypeCorrect`, `FingerprintsExact`: `TypeOK`, `LedgerIsExact` | `ImportProofs` | `TypeOK`, `ExactInv` |
| `TransfersTypeCorrect`, `MovementsNeverSpend`, `SidesAlwaysMatch`, `LatestBalanceStands`: the types, `MovementIsNotSpending`, `SidesMatch`, `BalanceIsLatest` | `ImportProofs` | `TInv` |
| `ReadingTypeCorrect`, `VerdictsAreEarned`: `ReadingTypeOK`, `ReadingIsJudged` | `ImportProofs` | `ReadingInv`, `WalkInv`, `Sums` |
| `ReviewTypeCorrect`, `ModelNeverApproves`, `VerifiedIsTheUsers`, `AuditEndsAtTheRow`: the types, `AiNeverApprovesItself`, `HumanDecisionStands`, `TrailEndsAtTheRow` | `ReviewProofs` | `ReviewInv`, and for the last the invariant on the trail |
| `MigrationsTypeCorrect`, `SchemaIsItsVersions`, `InsertsComplete`, `ReuploadsAlone`: the types, `SchemaFollowsVersion`, `InsertsAreComplete`, `OnlyReuploadsStop` | `LedgerProofs` | `HistoryInv` |
| `CascadeTypeCorrect`, `ErasuresAreWhole`, `LedgerIsLeftOnRequest`: the types, `ErasureIsWhole`, `LedgerLeavesOnlyOnRequest` | `LedgerProofs` | `CascadeInv` |
| `LedgerBehavesAlone`, `LedgerTypeCorrect`: a behaviour of `MCLedger` is one of each of its modules; `LedgerTypeOK` | `LedgerProofs` | the theorems above |
| `SessionsTypeCorrect`, `EndsForGood`, `OneTokenAtATime`, `NobodyAccusedAlone`: the types, `EndedStaysEnded`, `SessionIsAChain`, `AccusedForAReason` | `SessionsProofs` | `SessInv` |
| `MaintenanceTypeCorrect`, `FilesSurvive`, `ErasedIsEmptied`: the types, `SettledFilesSurvive`, `ErasureLeavesNothingKnown` | `ServicesProofs` | `KeepInv` |
| `StreamTypeCorrect`, `ShownInOrder`, `LiveKeepsUp`: the types, `InOrder`, `NeverBehind` | `ServicesProofs` | `StampInv`, `OrderInv`, `UpInv` |
| `EnrolmentTypeCorrect`, `EntersItsOwn`: the types, `EnteredByItsOwn` | `ServicesProofs` | `OwnInv` |
| `FailuresAreCounted`, `ThrottleTypeCorrect`, `WindowIsKept`: `CountIsExact`, the types, `WindowHolds` | `ServicesProofs` | `CountInv`; `WindowInv`, `Sums` |
| `ServicesBehaveAlone`, `ServicesTypeCorrect`: a behaviour of `MCServices` is one of each of its modules; `ServicesTypeOK` | `ServicesProofs` | the theorems above |
| `GatewayTypeCorrect`, `CountersAlwaysAgree`, `SpendingIsBounded`: the types, `CountersAgree`, `OverspendIsBounded` | `IntelligenceProofs` | `GatewayInv`, `Sums` |
| `DerivedTypeCorrect`, `BreachesToldOnce`, `RefreshLeavesTheTruth`: the types, `ToldOnceInTurn`, `RefreshedIsExact` | `IntelligenceProofs` | `DerivedInv`, `ExactInv` |
| `EverySurfaceAgrees`, `SurfacesAgreeBeside`: `SurfacesAgree`, `SurfacesAgreeAtRest` | `IntelligenceProofs` | `SoundLedger`, `Sums` |
| `EachBehavesAlone`, `IntelligenceTypeCorrect`: a behaviour of `MCIntelligence` is one of each of its modules; `IntelligenceTypeOK` | `IntelligenceProofs` | the theorems above |

What is assumed is the assumption on the constants that each module names (`ConstantsAssumption`, `SessionsAssumption`, ...). They give types, and beyond that:

* the data the instances are made of are finite where the program counts or sums them: rows, tokens, papers, askers, categories, the transactions of
  a ledger; a recording of prices has a greatest price;
* amounts of a statement are integers other than zero, confidences lie between 0 and 100, days are naturals, the end of a period is a natural, with 0 where none is printed;
* every row of `Transfers` belongs to an import, every population of `Cascade` is a set of tables;
* the transactions of `Derived` and the months of a refresh, with the one before them, lie in the calendar of `Insights`; there are fewer categories than the 30 that a breakdown shows (the
  seed has 22, and no endpoint adds one);
* the limits of the throttle, the turns of the assistant, the days of the month and the months of the refresh are at least one;
* the values that stand for nobody, nothing or "unchanged" are none of the things they are not.

The argument. `OnlyOpenedFilesAreQueued` is not inductive: an unlock that has loaded the object decides later.
`FileInv` adds what each request in flight knows (`RequestInv`): a request that stores holds a row that does not exist yet, one that
opened or resealed is of a row that does, and a resealed one is of a document that passed the scan and whose object is no longer locked.

For the ledger, `StepKind` classifies every step once: it accepts one statement, imports one,
removes one, or touches neither rows nor ledger. `DoomedInv` says that what a request will take at its
commit belongs to the statement it deletes. The invariants, the action property and the refinement then follow from the four kinds rather than from
the actions. `DoneInv` strengthens `DoneMeansImported` with the runs that are past `Persist`.

For the stream, that a stamp names one event is not inductive: `StampInv` adds the stamps of the transactions that
are still open, which are those of no event and of no other run. `OrderInv` says that everything shown is at most `seen` and everything still
to be replayed lies after it, so `Covered` keeps the order whatever arrives. `UpInv` is what
`NeverBehind` is before the stream is live: every offered event is in the channel from the first step on.

For the fingerprints, `ExactInv` says that the ledger is the set of the identities of what is covered, an identity being how manieth of its kind
a transaction was since the account began. The heart is `StatementNumbersAsHistory`: nothing before the day a statement begins
with is like anything on it, because the date is part of the key, so the statement's own numbering is the history's. That
a statement begins with a whole day is an assumption about banks, the guard `BeginsDay`; a period that began in the middle of a day would number
repeats of that day anew.

For sessions, `EndedStaysEnded` speaks of tokens that are live, and a refresh that was let in may still make one: `EndInv` adds those
requests, and says that their session has been noted as raced by whoever ended it. `ChainInv` does the same for `SessionIsAChain`: the refresh that
is let in holds the one live token of its session. `AccusedForAReason` needs to know where every cookie is: `HolderInv` says that a token is in one jar, or in one answer,
and `ReuseInv` that the token an undisturbed session presents is live, or that the answer which replaces it is on its way. The tabs' sharing of a jar is what `crossed` stands for.

For the review, a verified row is safe because the trigger of 0002 refuses what a stale list would write, and because a row
lock keeps the draft of its holder from being overtaken: `DraftInv` says that a draft is still the edit of what is committed. `ReviewRowsInv` ties `verified` to `review_status`,
without which the trigger would guard the wrong rows, and `ReviewWorkInv` bounds the model's confidence below what approves itself.

For housekeeping, what a task holds in memory is compared with what the table says now. `SweepInv`: what the sweep is to remove has lost its row for good.
`ReconInv`: of the statements that were on record when a reconciliation began, those still visible are in its set of live keys once their tenant was read, hence no orphan of it.
`ErasureInv`: what an erasure has read and dealt with is out of the bucket, was refused by it, or was put back by an unlock. `UnderWayInv` says why an upload that began during a reconciliation is excused.

For enrolment, `FormInv` carries what a request has found to the transaction that uses it: the account it is about to enter was made for the identity it presents. For the
login guard, `AloneInv` says that a sign in which has the account to itself has read the count that stands.

For pairs, what an import holds in memory is older than the table. `WorkInv` says what is still true of it: the target it has chosen is a row of an import that is over, and a side of
the row in hand. `HeldInv` says that of the groups it has written and not committed, `GroupsInv` that a group in place is of rows which match, whose imports are over and which no
longer spend: `SidesMatch` and `MovementIsNotSpending` are parts of it. `BalanceInv` says that an account shows no balance, or the end and the balance of one of its statements (`BalanceShown`), that it is covered to the end of each which is
done, and that what it shows is no older than what any of those prints (`Covers`), whatever the order of the commits.

For a reading, `Jumps` are the lines at which the printed balance moves by other than the amounts, and the lemma `TotalsAreErrors` says that credits less debits are what is
printed plus the errors of the lines, as sums of integers over the lines. `WalkInv` follows the walk of `reconciliation.py` line by line: it has stopped at the first jump,
or runs behind the printed balance by the lines lost at the end. `Walked` is a recursive function; that it exists is proved by its smallest counterexample.

`Sums` is what those proofs and those of the counters, the window, the spending and the surfaces rest on. A sum of naturals counts units, f[x] for each x, so that what is known of the cardinality of finite sets holds of sums;
a sum of integers is the difference of two. Where an induction is needed it is taken by a minimal counterexample (`MinimalSubset`, `SmallestOfSome`),
because the library's induction takes an operator as a parameter.

For the schema, `HistoryInv` says that after v migrations the schema is that of v (`IsAt`), after any upgrades, downgrades and restarts, and that the rows in it fit. For deletions,
`CascadeInv` says that whatever a row refers to is there or waits in the queue for its turn (`Closed`), and that an erasure still has the tenant's own row at the head of the queue, or has left shared tables only (`ErasureInv`).

For the gateway, `CallsAddUp` says that a call billed is in the committed counters of some day, went with a transaction that was rolled back or timed out, or is still to be written by the transaction that made it; `OwedInv` bounds what each may
still spend without looking at the budget again. `SpentInv` bounds the sum of the committed days and what the open transactions hold beyond their reach (`Over`) by the budget and the shares of those that are done, with a budget more for each
that held the row of a day when it ended (`Night`): the others had no need to wait for it, and did not see what it had spent. For the intelligence, `RunsInv` and `NoticesInv` say which refreshes were under way together; `ExactInv` says
of a refresh that is alone how far it has come and that everything up to there is what the ledger says. For the
surfaces, `SoundLedger` is all that is needed: the lemma `SumOfParts` of `Sums` adds up a total by a key, the category or the day, and `DaysHaveMonths` says that
every day of the calendar is in one month, so that the trend, which groups one long query by month, sees what a query of the month does. For the window of the throttle, `WindowInv` bounds the sum of a
record over the ages that still count. For the trail of corrections, `RowsAsWritten` says that the entry committed last holds the row's figure, and `StampInv` that its request began before it ended; so the entry with the newest
`changed_at` is that one, or belongs to a correction that crossed it.

The modules of `MCServices`, `MCLedger` and `MCIntelligence` share no variable: the composition moves the module in `focus` and leaves the others. So a
behaviour of the composition is one of each module, stuttering when it is not its turn, and the theorems of the modules carry over.

Only model-checked:

* liveness: `EveryJobSettles`, `FinishIsTold`, `ExpiredGo`, `OwnerGetsIn`, which are out of the prover's reach, as is anything about ENABLED;
* the disagreements of section 5, which are counterexamples.

`tlapm` needs some minutes for the eight modules.

## 8. Not modelled

* Several files in one upload request: they share a transaction, so one that raises takes the others with it.
* The score of a single row, near duplicates, and the count of rows outside the statement's period.
* Page records, parsed metadata, the health record: written in the transactions above, read by no property.
* Row-level security elsewhere than in the nightly listing and in the migrations: the models of the ledger are of one tenant, and every query of the program is scoped to one.
* Parsers, OCR, file validation: text in, rows out; their results are constants of the models.
* Exports, privacy report, listing and search: reads of what the other components write. Reading and dismissing a notification: one column of one row.
* The timeline's events; the merchant table (constant `Unknown` of `Review`: the merchants nobody has seen).
* The text of prompts, answers and prose, the redaction of names, and the tracing of a figure to a tool result: `Gateway` has the verdict of each check, not its wording.
* The assistant's tools: reads in the user's own session.
* Access tokens, which are checked without state.
* Pages of the frontend other than its session handling, observability, tools, deployment.

## 9. What is left

* `Reconciliation`: the score of a single row composed with the report's, so that the review queue follows from both.
* `StatementApi`: several files in one request, as an upload whose commit takes the others along.
* One model of `Transfers` with `IngestWorker`, in which a redelivered run pairs beside its successor; at present the order of imports is free in `Transfers` for that reason.
* `Derived` with two tenants, when the nightly listing is fixed.
