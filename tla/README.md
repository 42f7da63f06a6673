# TLA+ models of pulse-data's ingest, refresh and flash machinery

This directory holds TLA+ models of the concurrent parts of this repository's
sources, with the TLC configurations that check them. `PROJECT.json` lists
every component, every run, the mutants that show each property can fail, the
source lines each definition translates, the findings and the hazards.

## The system

The sources under `src/` are a slice of the Recidiviz data platform. Two
parts of it have state shared between concurrent actors:

1. **The Cloud SQL -> BigQuery refresh lock**
   (`persistence/database/bq_refresh/cloud_sql_to_bq_lock_manager.py`).
   - A refresh run of one (schema, ingest instance) takes a GCS pseudo-lock
     with `acquire_lock(lock_id, ...)`.
   - It then polls `can_proceed` until every process that writes the data it
     exports has stopped, exports, and calls `release_lock`.
   - The processes it waits for are the ingest extract-and-merge processes of
     the instance (for STATE and OPERATIONS) and the normalized-state update of
     the instance (for STATE). They are not stopped by the lock; they are
     expected to see it and yield.
   - Every lock has an expiration: 3900 s for a refresh lock, shorter for
     ingest locks. A lock whose holder crashed disappears when it expires.
   - The lock backend (`GCSPseudoLockManager`) and the two yielding processes
     are not under `src/`. They are modelled from `spec.md` (sections 3, 4.4
     and 6) and marked `spec_modelled` in the map.
   - `can_proceed` reads GCS twice for a STATE refresh: first the
     normalization lock (lines 98-111), then the extract-and-merge locks
     (lines 113-127). A writer may take its lock between the two reads or
     after both.
2. **The ingest view materializer**
   (`ingest/direct/ingest_view_materialization/ingest_view_materializer.py`).
   - `materialize_view_for_args` is called from a task queue for each
     (view, upper bound, optional lower bound) args.
   - It raises if the region is not launched, and returns if the metadata
     already has a completion time for the args.
   - It loads the upper and lower bound snapshots into intermediate tables
     named `<view>_<date>_<kind>_<request_id>`. The request id is fixed per
     materializer instance, and the date keeps only the second
     (`TABLE_NAME_DATE_FORMAT`), so two bounds in one second share a name.
   - It saves the diff query's results, deletes the intermediate tables and
     marks the args materialized.
   - No exception is caught. Several instances may run at once, and the queue
     retries args that are not marked.

Five more parts have control worth checking:

3. **Dataflow date bounds** (`pipelines/ingest/state/generate_ingest_view_results.py`).
   A SQL query pairs each raw data snapshot date with the previous one
   (`LAG` over the last datetime of each date). Each pair with a non-NULL
   upper bound becomes the args of one date diff query.
   - `dataflow_query_for_args` (in the materializer file) builds that query.
     It selects the view as of the upper bound, `EXCEPT DISTINCT` the view as
     of the lower bound, and tags each row with both bounds.
   - `ReadAllFromBigQuery` runs every such query.
4. **Flash tools** (`ingest/flash_database_tools.py`). These are the BigQuery
   steps of a flash from SECONDARY to PRIMARY, each a sequence of calls that
   copy and then delete. The flash checklist (not under `src/`) runs the six
   functions in order and runs a step again after it raises.
5. **Instance status** (`common/constants/operations/direct_ingest_instance_status.py`).
   This holds the status enum and descriptions saying which instance each
   status is written to. The append-only store that takes the rows is not
   under `src/`; it is modelled from spec 4.3.
6. **Unused view finder** (`tools/find_unused_bq_views.py`). It walks the
   view DAG from the leaves up on worker threads, marking a view used when it
   is in use itself or any view reading it is used.
7. **BigQuery table manager** (`persistence/database/bq_refresh/big_query_table_manager.py`).
   At deploy time it brings every exported table to the schema derived from
   SQLAlchemy. It adds `state_code` to the association tables of schemas with
   region code support. The helpers it calls are in
   `persistence/database/schema_utils.py`, with `get_region_code_col`: the
   column a refresh filtered by region code filters on.
8. **US_ND custom enum parsers** (`ingest/direct/regions/us_nd/us_nd_custom_enum_parsers.py`).
   An ingest view manifest (not under `src/`) calls several of them on the
   same raw text: the two period parsers on `FACILITY-DATETIME`, the four
   contact mappers on `CODE-CODE-...`. Each keeps its own code lists.

The other files are SQL text builders, other parsers, a migration, a code
generator and tests.

## Modules

| Module | Models | State | Actions |
|---|---|---|---|
| `GCSPseudoLockManager` | the lock backend (from the spec) | a lock table: name -> [payload, ttl] | operators `Lock`, `Unlock`, `IsLocked`, `LockPayload`, `NoActiveLocksIn`, `Elapse` |
| `CloudSqlToBQLockManager` | the lock manager, its callers and the processes that yield to it | `locks`, `job`, `run`, `ingest`, `norm` | `StartRefresh`, `RenewLock` (both `acquire_lock`), `CanProceed` and `CanProceedIngestCheck` (the two reads of `can_proceed`), `ReleaseLock`, `RefreshCrash`; `IngestAnnounce/Check/Finish/Crash`; `NormalizationAnnounce/Check/Finish/Crash`; `Tick` |
| `RefreshWriterExclusion` | what the lock promises (spec 4.4), with no locks | `exporting`, `ingestRunning`, `normRunning` (sets) | `BeginExport`, `EndExport`, `BeginIngest`, `EndIngest`, `BeginNormalization`, `EndNormalization` |
| `CloudSqlToBQLockRenewal` | the same, plus a history variable `sinceAcquire` | + ticks since the last `acquire_lock` | the same |
| `IngestViewMaterializer` | `materialize_view_for_args` on several instances, with the metadata flag | `pc`, `cur`, `tables` (name to the bound loaded into it), `results`, `materialized`, `failures` | `Start`, `LoadIntermediateTables`, `SaveQueryResults`, `DeleteIntermediateTables`, `MarkIngestViewMaterialized`, `RaiseInStep` |
| `GenerateIngestViewResults` | the date bound tuples query and the date diff query args | `rawData`, `upperBounds`, `method`, `rows`, `args` | `ReadDateBoundTuples` (the query, both methods), `GetIngestViewDateDiffQuery` (NULL filter), `ReadAllFromBigQuery` (the diff queries, via `DataflowQueryForArgs` and `ViewQueryAt`) |
| `FlashDatabaseTools` | the six flash functions run in checklist order | `raw`, `results`, `resultsDatasets`, `pruning`, `backups`, `step`, `sub`, `failures`, `orig` | one action per function, the two-phase moves as copy and delete actions, each with a raise after part of its work |
| `DirectIngestInstanceStatus` | the status enum and the status log of one region | `log`, `now`, `pending`, `accepted` | `DecideStatus`, `InsertStatus`, `Tick` |
| `UsNdCustomEnumParsers` | the US_ND period and contact parsers, as operators | `parsed`: the fields every bounded raw text got | `MapView` (the manifest's parser calls on every row) |
| `FindUnusedBQViews` | `get_unused_addresses_from_all_views_dag` | `dag`, `address` (view to `<<dataset, table>>`), the other address sets, `pc`, `viewResults`, `unused`; `MiscDatasetViews` and `Ignored` derive from `address` via `ShouldIgnoreUnusedAddress` | `CheckLookerAddresses`, `ProcessView` (one worker), `CollectUnused` |
| `BigQueryTableManager` | `update_bq_dataset_to_match_sqlalchemy_schema`, with the `schema_utils` helpers it and the refresh use | `schemaType`, `datasetExists`, `bq`, `pc`, `idx`, `failures` | `CreateDatasetIfNecessary`, `UpdateBqSchemaForSqlalchemyTable`, `FinishRun`, `Raise`, `Rerun` |

Each `MC_*.tla` module gives the constants that a `.cfg` cannot write as
literals (sets of records, functions). `MC_DirectIngestInstanceStatus` also
puts the status log and the parsers side by side. They share no variable,
so each step belongs to one of them.

### How the models abstract the code

- **Time.** A lock's expiration is kept as a number of ticks left (`ttl`).
  `ttl = 0` is an absent, deleted or expired lock. `Tick` moves every lock one
  tick closer to expiry.
- **Timing assumption.** The comment in `_export_lock_timeout_for_schema`
  says an export that outlives its lock "de facto relinquishes" it. The
  constant `HoldersFinishInTime` states the opposite assumption: a process
  doing work finishes before its own lock expires. A refresh that is still
  waiting in `can_proceed`, and a crashed process, get no such promise.
- **Payloads.** A lock_id is `<<job, run number>>`, a fresh id per run.
- **The two reads of `can_proceed`.** The job state `checkingIngest` is a
  `can_proceed` call between its normalization read and its ingest read. The
  call takes milliseconds, so its refresh lock is counted among the working
  locks that do not expire under `HoldersFinishInTime`. A lock expiring
  inside the call would be the case the stale-owner run already shows.
- **Refinement.** `CloudSqlToBQLockManager` defines
  `Abs == INSTANCE RefreshWriterExclusion WITH ...`. The mapping sends
  `exporting` to the jobs in state `exporting`, `ingestRunning` to the
  extract-and-merge processes in state `running`, and `normRunning` to the
  instances whose normalization is `running`. Locks, runs, announcements and
  polling are hidden. Every detailed step must be a stutter or one abstract
  step. A crash of a running writer or exporter maps to the abstract `End`
  step.
- **Payloads and rows.** In the materializer a saved result is a counter per
  args; rows are not modelled. A date bound is `<<second, microsecond>>`; an
  intermediate table is a name (the bound's second, the kind and the
  instance) mapped to the bound whose snapshot it was loaded with.
- **The ingest view.** The view's query (`build_query`, not under `src/`)
  with a datetime bound `b` reads every raw table up to `b`. Its output is
  therefore fixed by the latest raw snapshot at or before `b`. `viewAt` maps
  each snapshot time to that output and is chosen in `Init`, so every view
  is covered.
- **Exceptions.** An exception leaves `materialize_view_for_args` wherever it
  is raised, including the partial effects of a step: `RaiseInStep`.
  - A failed load may have created either table, because the two query jobs
    run concurrently.
  - A failed delete may have removed the upper-bound table before it failed
    on the lower-bound one.
- **SQL.** The date bound queries are modelled by what they compute:
  - An `update_datetime` is a natural number, and its date is that number
    divided by `TicksPerDate`.
  - `LAG` is the previous element of the sorted dates.
  - `MAX` over no rows is NULL (`Nil`).
- **BigQuery tables in the flash.** A table's contents are the instance whose
  data it holds (`raw[i][t]`), `EmptyTable` or `NoTable`.
  - `copy_dataset_tables` is called without `overwrite_destination_tables`.
    The constant `CopyFailsOnExistingTable = TRUE` states the assumption that
    BigQuery's client then refuses a destination table that already has rows
    (write disposition WRITE_EMPTY). This is an assumption about a client
    outside `src/`.
  - A copy that raised may have copied any subset of the tables.
- **The flash checklist** is not under `src/`, and the spec names the flash
  only in its glossary. The order below is the modeller's choice (every
  copy before the delete of its source), so an operator who runs the steps
  in another order is not modelled:
  1. back up PRIMARY raw data, then empty it;
  2. copy SECONDARY raw data to PRIMARY, then empty SECONDARY;
  3. move PRIMARY results to a backup;
  4. move SECONDARY results to PRIMARY;
  5. clear the pruning datasets of both instances.

  A step that raised is run again.
- **Status rows.** A writer takes its timestamp when it decides on a status
  and inserts the row later. The store rejects a row whose timestamp is not
  above the pair's maximum (spec 4.3).
- **View addresses.** Each view has a `<<dataset, table>>` address drawn
  injectively from `Addresses` in `Init`. The misc-dataset views and the
  ignored views are derived from the addresses, as in the code
  (`DATASETS_REFERENCED_BY_MISC_PROCESSES`, `_should_ignore_unused_address`);
  the datasets "starting with" a prefix are the constants `RawLatestDatasets`
  and `TaskEligibilityDatasets`. The Looker, metric export, pipeline and
  kept-with-reason sets are subsets of the views, chosen in `Init`.
  `process_dag` is not under `src/`. It is modelled from its use in the tool:
  a view is processed, on any worker, once every view that reads from it has
  a result.
- **Schemas.** A table's schema is its set of column names. `update_schema`
  leaves the derived columns: the module docstring says it only adds and
  deletes columns.
  - A table name is `<<stem, suffix>>`. `is_association_table` tests whether
    the suffix is `_association`.
  - The schema type is chosen in `Init`. `schema_type_to_schema_base` and
    `schema_has_region_code_query_support` are computed from it.
  - `get_region_code_col` returns `"ValueError"` where it raises.
- **Parsers.** Each parser is an operator, and a result is an enum name or the
  name of the raised exception.
  - A period text is a pair (facility, date string). `"no_dash"` is a text
    that `split("-", maxsplit=1)` cannot unpack.
  - `parse_datetime` (not under `src/`) parses the three dates around
    2017-07-01 and rejects any other string.
  - A contact text is the set of codes `split("-")` yields. Order and
    repetition do not matter to `in`.
  - The `*_RAW_TEXT_TO_ENUM_MAP` comprehensions keep the later enum for a
    code listed twice, as a dict does.

## Runs

| Run | Config | Expect | What it shows |
|---|---|---|---|
| `lock_exclusion` | `MC_CloudSqlToBQLockManager.cfg` | pass | With one job per (schema, instance) and processes that finish in time, the lock protocol implements `RefreshWriterExclusion` (the PROPERTY `ImplementsRefreshWriterExclusion`), and an exporting job always owns its lock. This holds under crashes, expiry and every interleaving, including writers that announce between the two reads of `can_proceed`. |
| `lock_stale_owner` | `MC_CloudSqlToBQLockManager_stale.cfg` | violation | With two runs of one refresh, a run whose lock expired passes `can_proceed` on the other run's lock. The other run's `release_lock` then deletes the only lock, and ingest starts while the first run exports. |
| `lock_renewal` | `MC_CloudSqlToBQLockRenewal.cfg` | violation | Calling `acquire_lock` again with the holder's own lock_id does not extend the lock, although its docstring says it refreshes the timeout. |
| `materializer_cleanup` | `MC_IngestViewMaterializer.cfg` | pass | With two instances and up to two failures at any step: only failed calls leave intermediate tables behind; when a call runs its diff query, each table it named holds its own bound's snapshot (`FinalQueryReadsOwnBounds`), even with two bounds in one second; and every args is eventually materialized. |
| `materializer_overlap` | `MC_IngestViewMaterializer_overlap.cfg` | violation | Two overlapping calls for one args both pass the completion check and both save results. The spec promises at-most-once results. |
| `materializer_delete_failure` | `MC_IngestViewMaterializer_cleanup.cfg` | violation | A `delete_table` failure after the save leaves results for unmarked args. The spec says a cleanup failure is not fatal. |
| `date_bounds` | `MC_GenerateIngestViewResults.cfg` | pass | For every choice of raw data, upper bounds, method and view output, the date diff queries cover every snapshot in exactly one window. Every window ends at the last snapshot of its date, and ORIGINAL has one window per date. The rows read back are exactly the view's changes between consecutive window ends (`ResultsAreDeltasBetweenWindows`), so replaying them in order reaches every row the view has at each window end. |
| `flash` | `MC_FlashDatabaseTools.cfg` | pass | With up to two raises anywhere except in the move between instances, no table's rows are lost (they are always somewhere: in place, in PRIMARY or in a backup). The flash always completes with SECONDARY's data in PRIMARY. |
| `flash_retry` | `MC_FlashDatabaseTools_retry.cfg` | violation | The source deletion in `move_ingest_view_results_between_instances` raises after a complete copy. The re-run step then conflicts on the PRIMARY tables it copied itself, and the flash never completes. |
| `unused_views` | `MC_FindUnusedBQViews.cfg` | pass | For every DAG of three views and every address choice, the walk reports exactly the views that no used view reads from, less the ignored ones, whatever the thread order. |
| `status_log_and_parsers` | `MC_DirectIngestInstanceStatus.cfg` | pass | No instance gets a status its description excludes. For every bounded period text, the custodial authority and PFI parsers raise together and return a fitting pair (`FacilityParsersAgree`). For every set of contact codes, a contact is in person exactly when it is direct, and a known location implies in person (`ContactFieldsAgree`). |
| `bq_schema_update` | `MC_BigQueryTableManager.cfg` | pass | For STATE, OPERATIONS and CASE_TRIAGE, from any earlier dataset and with runs that raise part-way and are re-run, every finished deploy leaves each table with all its columns and none that was dropped. Every table of a schema with region code support has the column `get_region_code_col` names (`RegionCodeColumnAfterDeploy`); for a STATE association table this is the column the deploy adds. |

Each property of a passing run has a mutant in `PROJECT.json`: a plausible
bug in a mapped definition (a dropped guard, an off-by-one, a missed reset).
TLC finds the property violated once the definition is replaced by it.

### Bounds

- **Lock runs.** One instance, one region and three jobs: STATE, OPERATIONS
  and a third schema.
  - Timeouts are 3 ticks for export and 2 for ingest and normalization. This
    keeps the export lock longer than the others, as in the code, and lets a
    lock expire while its holder waits.
  - `MaxRuns = 2`, so a job can lose its lock and start a new run.
  - Two regions or two instances multiply the state space (about 3M states)
    and exercise no new code path: `can_proceed` treats every region and
    instance alike.
- **Materializer runs.**
  - Two instances and three args: one with only an upper bound `<<1,0>>`,
    one from `<<1,0>>` to `<<1,5>>` (two bounds in one second, so its two
    tables get the same date in their names) and one from `<<1,5>>` to
    `<<2,0>>`, so names can collide within and across args.
  - Up to two failures, at any of the four steps.
- **Date bounds.** Two tables and datetimes 1..4 at two per date, so the
  dates are 0, 1 and 2 and date 1 holds two snapshots (2 and 3).
  - Each table's bound is any datetime or none, and both methods are run.
  - The view's output at each snapshot time is any subset of one row `x`,
    so `x` can appear, vanish and come back. `EXCEPT DISTINCT` acts on each
    row alone, so one row stands for any number.
  - All 204,800 inputs are initial states.
- **Flash.** Two tables per dataset, and raw tables that start full or empty.
  - Results tables that exist or do not.
  - Two pruning datasets.
  - Up to two raises.
  - The retry run allows one raise, only at the source deletion of the move
    between instances.
- **Unused views.** Three views give every chain, fork and join shape and
  every position of an in-use, misc or ignored view. Six addresses: a plain
  one, a misc dataset, the validation dataset, a raw-latest dataset and two
  task eligibility tables, one a convenience table and one not.
- **Status log.** Two writers and a clock reaching 2, so both writers can
  take the same timestamp or opposite orders.
  - Three statuses, covering one PRIMARY-only, one SECONDARY-only and one
    shared.
  - The store's ordering is its own write-time guard (spec 4.3, not under
    `src/`), so no property restates it; the run checks which instance
    each status may be written to.
- **Table manager.** Three schema types:
  - STATE with an entity table and an association table;
  - OPERATIONS with a `region_code` table;
  - CASE_TRIAGE, without region code support, with a table named like an
    association table.

  Every table starts with any earlier column set or is missing, and up to
  two runs raise.
- **Parsers.** Every listed facility plus one unmapped code, crossed with
  five date texts: no dash, unparseable, and the days before, on and after
  the cutoff. Every non-empty set of the nine contact codes, one of them
  unknown (511 sets).

### Fairness

- The lock model has no liveness property. Its refresh jobs poll without
  bound, so no fairness is assumed. Even with a fair poll, a refresh could
  starve: extract-and-merge processes that keep starting hold their lock
  briefly before they back off, and every poll may land in such a window.
  The code does not rule that schedule out, so only safety is checked.
- In the flash the next step is weakly fair (`WF_vars(Next)`). The tool
  runs its calls one after another, and the checklist re-runs a step that
  raised. Raises are bounded.
- The BigQuery table manager, the status log, the unused-view walk and the
  date bounds pipeline have no liveness property. Their termination would
  follow from a finite loop or an acyclic DAG with bounded raises, whatever
  the code does, so it would say nothing about the code.
- In the materializer, each step of a running call is weakly fair: the code
  runs the steps one after another. `Start` for each args is weakly fair: the
  task queue keeps scheduling args that are not materialized and retries
  failed tasks (spec section 6). Failures are bounded by `MaxFailures`.

## Findings

1. **Stale lock ownership.** `can_proceed` (line 87) checks only that the
   refresh lock exists, and `release_lock` (line 156) deletes it whoever holds
   it. Together they let a run that lost its lock export while ingest runs.
2. **Renewal is a no-op.** `acquire_lock` (lines 72-78) with the same lock_id
   returns without writing. Its docstring says it refreshes the timeout.
3. **Overlapping materializations save twice.** The completion check at
   line 319 and the mark at line 359 are separate steps.
4. **A cleanup failure aborts the materialization.** `_delete_intermediate_tables`
   (line 356) is not guarded, so a failure there skips
   `mark_ingest_view_materialized`.
5. **A flash step cannot be retried after its deletion failed.**
   `move_ingest_view_results_between_instances` copies without overwrite
   (line 111) and only then deletes the source dataset (line 114).
   - If the deletion raises, re-running the step meets PRIMARY tables that
     already hold the copied rows.
   - The spec gives no recovery for this state.

## Plan

Later work:

1. **The flash statuses with the flash tools.** This composes
   `DirectIngestInstanceStatus` (FLASH_IN_PROGRESS and FLASH_COMPLETED,
   written to both instances) with `FlashDatabaseTools`.
2. **The `LATEST` materialization method** across several pipeline runs.

## Not modelled

- The query text: `debug_query_for_args` (a query printed for manual use),
  `_create_date_diff_query` and the view files. `dataflow_query_for_args` is
  modelled by the rows it selects, not by its text.
- The migration, the code generator and the tests: pure I/O or data, with
  no concurrency.
- The other US_ND parsers: `parse_residency_status_from_address`,
  `parse_classification_type_from_raw_text`, `parse_caseload_type`,
  `parse_role_subtype` and `parse_custody_level`. Each maps one field by
  substring or prefix tests and shares no list with another parser, so no
  property relates them. The region code helpers of `us_id` and
  `direct_ingest_region_utils` are configuration lookups.
- `main` of `find_unused_bq_views.py`: it only prints.
- The other helpers of `schema_utils.py` look SQLAlchemy classes up by name
  or module (`inspect`, `getattr`) and change no state.
