------------------------- MODULE FlashDatabaseTools -------------------------
(***************************************************************************)
(* The BigQuery steps of flashing SECONDARY into PRIMARY                   *)
(* (flash_database_tools.py), run one after another by the flash          *)
(* checklist, which re-runs a step that raised.                            *)
(*                                                                         *)
(* A dataset is a function from table name to what the table holds: the   *)
(* data of the instance it came from, EmptyTable for a table whose rows    *)
(* were deleted, or NoTable.  A backup (a dataset with a timestamp suffix)  *)
(* is a fresh dataset per call.  Every BigQuery call may raise after doing *)
(* part of its work: a copy or a delete over several tables may have done  *)
(* any subset of them.                                                     *)
(***************************************************************************)
EXTENDS Naturals, Sequences, FiniteSets

CONSTANTS
    Primary, Secondary,  \* DirectIngestInstance.PRIMARY / SECONDARY
    Tables,              \* table names of the raw data and results datasets
    PruningTables,       \* <<dataset, table>> of the raw data pruning datasets
    EmptyTable,          \* a table with no rows
    NoTable,             \* no table of that name
    FailurePoints,       \* the calls that may raise
    MaxFailures,         \* bound on the calls that raise
    CopyFailsOnExistingTable \* copy_dataset_tables without overwrite refuses a
                             \* destination table that has rows (WRITE_EMPTY)

Instances == {Primary, Secondary}

ASSUME /\ MaxFailures \in Nat
       /\ CopyFailsOnExistingTable \in BOOLEAN

VARIABLES
    raw,             \* instance -> the raw data dataset
    results,         \* instance -> the ingest view results dataset
    resultsDatasets, \* the instances whose results dataset exists
    pruning,         \* instance -> tables of its pruning datasets
    backups,         \* the backup datasets: [kind, content]
    step,            \* index of the checklist step being run
    sub,             \* the call within the step: "copy" or "delete"
    failures,        \* number of calls that raised
    orig             \* the raw and results datasets before the flash

vars == <<raw, results, resultsDatasets, pruning, backups, step, sub, failures, orig>>

Content == [Tables -> Instances \cup {EmptyTable, NoTable}]

\* The checklist's calls for a flash of SECONDARY into PRIMARY (the flash
\* checklist is not part of these sources).
Checklist ==
    << [op |-> "copy_raw_data_to_backup", src |-> Primary, dst |-> Primary],
       [op |-> "delete_contents_of_raw_data_tables", src |-> Primary, dst |-> Primary],
       [op |-> "copy_raw_data_between_instances", src |-> Secondary, dst |-> Primary],
       [op |-> "delete_contents_of_raw_data_tables", src |-> Secondary, dst |-> Secondary],
       [op |-> "move_ingest_view_results_to_backup", src |-> Primary, dst |-> Primary],
       [op |-> "move_ingest_view_results_between_instances", src |-> Secondary, dst |-> Primary],
       [op |-> "delete_tables_in_pruning_datasets", src |-> Primary, dst |-> Primary],
       [op |-> "delete_tables_in_pruning_datasets", src |-> Secondary, dst |-> Secondary] >>

TypeOK ==
    /\ raw \in [Instances -> [Tables -> Instances \cup {EmptyTable}]]
    /\ results \in [Instances -> Content]
    /\ resultsDatasets \subseteq Instances
    /\ pruning \in [Instances -> SUBSET PruningTables]
    /\ backups \subseteq [kind : {"raw", "results"}, content : Content]
    /\ step \in 1..Len(Checklist) + 1
    /\ sub \in {"copy", "delete"}
    /\ failures \in 0..MaxFailures

-----------------------------------------------------------------------------
(* BigQueryClient calls                                                    *)

\* copy_dataset_tables restricted to the tables in done: each table of the
\* source replaces the destination's table of that name.
CopyTables(src, dst, done) ==
    [t \in Tables |-> IF t \in done /\ src[t] # NoTable THEN src[t] ELSE dst[t]]

\* Without overwrite_destination_tables a destination table with rows makes
\* the copy raise.
CopyConflict(src, dst) ==
    /\ CopyFailsOnExistingTable
    /\ \E t \in Tables : src[t] # NoTable /\ dst[t] \in Instances

SourceTables(src) == {t \in Tables : src[t] # NoTable}

NoTables == [t \in Tables |-> NoTable]

\* The call raises; what it did before raising stays done.
Raise(point) ==
    /\ point \in FailurePoints
    /\ failures < MaxFailures
    /\ failures' = failures + 1

\* The call the checklist is at.
Call == Checklist[step]

Done == step = Len(Checklist) + 1

\* The checklist moves to its next step.
NextStep ==
    /\ step' = step + 1
    /\ sub' = "copy"

-----------------------------------------------------------------------------
(* flash_database_tools                                                    *)

\* copy_raw_data_to_backup: backup_dataset_tables_if_dataset_exists copies
\* the raw data dataset into a new backup dataset.
CopyRawDataToBackup ==
    LET i == Call.src IN
    /\ ~Done /\ Call.op = "copy_raw_data_to_backup"
    /\ \E done \in SUBSET Tables :
         /\ backups' = backups \cup
              {[kind |-> "raw", content |-> CopyTables(raw[i], NoTables, done)]}
         /\ \/ done = Tables /\ NextStep /\ UNCHANGED failures
            \/ Raise("copy_raw_data_to_backup") /\ UNCHANGED <<step, sub>>
    /\ UNCHANGED <<raw, results, resultsDatasets, pruning, orig>>

\* Mutant: the raw data tables are dropped instead of emptied.
DeleteRawDataTablesDropping ==
    LET i == Call.src IN
    /\ ~Done /\ Call.op = "delete_contents_of_raw_data_tables"
    /\ \E done \in SUBSET Tables :
         /\ raw' = [raw EXCEPT ![i] =
                      [t \in Tables |-> IF t \in done THEN NoTable ELSE @[t]]]
         /\ \/ done = Tables /\ NextStep /\ UNCHANGED failures
            \/ Raise("delete_contents_of_raw_data_tables") /\ UNCHANGED <<step, sub>>
    /\ UNCHANGED <<results, resultsDatasets, pruning, backups, orig>>

\* delete_contents_of_raw_data_tables: a DELETE job per table, then a wait
\* for all of them.
DeleteContentsOfRawDataTables ==
    LET i == Call.src IN
    /\ ~Done /\ Call.op = "delete_contents_of_raw_data_tables"
    /\ \E done \in SUBSET Tables :
         /\ raw' = [raw EXCEPT ![i] =
                      [t \in Tables |-> IF t \in done THEN EmptyTable ELSE @[t]]]
         /\ \/ done = Tables /\ NextStep /\ UNCHANGED failures
            \/ Raise("delete_contents_of_raw_data_tables") /\ UNCHANGED <<step, sub>>
    /\ UNCHANGED <<results, resultsDatasets, pruning, backups, orig>>

\* copy_raw_data_between_instances: the destination raw data dataset is
\* created if necessary and every source table is copied over it
\* (overwrite_destination_tables=True); the source is left as it is.
CopyRawDataBetweenInstances ==
    LET s == Call.src
        d == Call.dst
    IN
    /\ ~Done /\ Call.op = "copy_raw_data_between_instances"
    /\ \E done \in SUBSET Tables :
         /\ raw' = [raw EXCEPT ![d] = CopyTables(raw[s], raw[d], done)]
         /\ \/ done = Tables /\ NextStep /\ UNCHANGED failures
            \/ Raise("copy_raw_data_between_instances") /\ UNCHANGED <<step, sub>>
    /\ UNCHANGED <<results, resultsDatasets, pruning, backups, orig>>

\* Mutant: a failed table copy is logged and the move goes on to delete.
MoveResultsToBackupCopyIgnoringErrors ==
    LET i == Call.src IN
    /\ ~Done /\ Call.op = "move_ingest_view_results_to_backup" /\ sub = "copy"
    /\ \E done \in SUBSET SourceTables(results[i]) :
         /\ backups' = backups \cup
              {[kind |-> "results", content |-> CopyTables(results[i], NoTables, done)]}
         /\ sub' = "delete"
         /\ UNCHANGED <<step, failures>>
    /\ UNCHANGED <<raw, results, resultsDatasets, pruning, orig>>

\* move_ingest_view_results_to_backup, first part: a new backup dataset is
\* created and the results dataset's tables are copied into it.
MoveResultsToBackupCopy ==
    LET i == Call.src IN
    /\ ~Done /\ Call.op = "move_ingest_view_results_to_backup" /\ sub = "copy"
    /\ \E done \in SUBSET SourceTables(results[i]) :
         /\ backups' = backups \cup
              {[kind |-> "results", content |-> CopyTables(results[i], NoTables, done)]}
         /\ \/ done = SourceTables(results[i]) /\ sub' = "delete"
               /\ UNCHANGED <<step, failures>>
            \/ Raise("move_ingest_view_results_to_backup") /\ UNCHANGED <<step, sub>>
    /\ UNCHANGED <<raw, results, resultsDatasets, pruning, orig>>

\* delete_dataset(delete_contents=True) of a results dataset: one call that
\* drops the dataset and its tables, or raises having done nothing.
DeleteResultsDataset(i) ==
    /\ results' = [results EXCEPT ![i] = NoTables]
    /\ resultsDatasets' = resultsDatasets \ {i}

\* move_ingest_view_results_to_backup, second part: the source dataset is
\* deleted.  A raise sends the checklist back to the start of the call.
MoveResultsToBackupDelete ==
    /\ ~Done /\ Call.op = "move_ingest_view_results_to_backup" /\ sub = "delete"
    /\ \/ DeleteResultsDataset(Call.src) /\ NextStep /\ UNCHANGED failures
       \/ /\ Raise("move_ingest_view_results_to_backup_delete")
          /\ sub' = "copy"
          /\ UNCHANGED <<results, resultsDatasets, step>>
    /\ UNCHANGED <<raw, pruning, backups, orig>>

\* Mutant: the destination dataset is not created first; a copy into a
\* dataset that does not exist raises.
MoveResultsBetweenInstancesCopyNoCreate ==
    LET s == Call.src
        d == Call.dst
    IN
    /\ ~Done /\ Call.op = "move_ingest_view_results_between_instances" /\ sub = "copy"
    /\ \/ /\ d \notin resultsDatasets
          /\ UNCHANGED <<results, resultsDatasets, step, sub, failures>>
       \/ /\ d \in resultsDatasets
          /\ \E done \in SUBSET SourceTables(results[s]) :
               /\ results' = [results EXCEPT ![d] = CopyTables(results[s], @, done)]
               /\ done = SourceTables(results[s]) /\ sub' = "delete"
               /\ UNCHANGED <<resultsDatasets, step, failures>>
    /\ UNCHANGED <<raw, pruning, backups, orig>>

\* move_ingest_view_results_between_instances, first part: the destination
\* dataset is created if necessary and the source tables are copied into
\* it without overwrite_destination_tables.  A destination table with
\* rows makes the copy raise, whatever the tables copied before it; a
\* retry meets the same table again.
MoveResultsBetweenInstancesCopy ==
    LET s == Call.src
        d == Call.dst
    IN
    /\ ~Done /\ Call.op = "move_ingest_view_results_between_instances" /\ sub = "copy"
    /\ resultsDatasets' = resultsDatasets \cup {d}
    /\ \E done \in SUBSET SourceTables(results[s]) :
         /\ results' = [results EXCEPT ![d] = CopyTables(results[s], @, done)]
         /\ IF CopyConflict(results[s], results[d])
            THEN /\ \A t \in done : results[d][t] \notin Instances
                 /\ UNCHANGED <<step, sub, failures>>
            ELSE \/ done = SourceTables(results[s]) /\ sub' = "delete"
                    /\ UNCHANGED <<step, failures>>
                 \/ Raise("move_ingest_view_results_between_instances")
                    /\ UNCHANGED <<step, sub>>
    /\ UNCHANGED <<raw, pruning, backups, orig>>

\* move_ingest_view_results_between_instances, second part: the source
\* dataset is deleted.
MoveResultsBetweenInstancesDelete ==
    /\ ~Done /\ Call.op = "move_ingest_view_results_between_instances" /\ sub = "delete"
    /\ \/ DeleteResultsDataset(Call.src) /\ NextStep /\ UNCHANGED failures
       \/ /\ Raise("move_ingest_view_results_between_instances_delete")
          /\ sub' = "copy"
          /\ UNCHANGED <<results, resultsDatasets, step>>
    /\ UNCHANGED <<raw, pruning, backups, orig>>

\* Mutant: only the tables of the first pruning dataset are deleted.
DeleteTablesInFirstPruningDataset ==
    LET i == Call.src IN
    /\ ~Done /\ Call.op = "delete_tables_in_pruning_datasets"
    /\ \E done \in SUBSET {x \in pruning[i] : x[1] = "new_raw_data"} :
         /\ pruning' = [pruning EXCEPT ![i] = @ \ done]
         /\ \/ done = {x \in pruning[i] : x[1] = "new_raw_data"}
               /\ NextStep /\ UNCHANGED failures
            \/ Raise("delete_tables_in_pruning_datasets") /\ UNCHANGED <<step, sub>>
    /\ UNCHANGED <<raw, results, resultsDatasets, backups, orig>>

\* delete_tables_in_pruning_datasets: for the new raw data dataset and then
\* the diff results dataset, every listed table is deleted
\* (not_found_ok=True).
DeleteTablesInPruningDatasets ==
    LET i == Call.src IN
    /\ ~Done /\ Call.op = "delete_tables_in_pruning_datasets"
    /\ \E done \in SUBSET pruning[i] :
         /\ pruning' = [pruning EXCEPT ![i] = @ \ done]
         /\ \/ done = pruning[i] /\ NextStep /\ UNCHANGED failures
            \/ Raise("delete_tables_in_pruning_datasets") /\ UNCHANGED <<step, sub>>
    /\ UNCHANGED <<raw, results, resultsDatasets, backups, orig>>

-----------------------------------------------------------------------------
\* Each instance's datasets may hold data in any of the tables; the pruning
\* datasets hold tables.
Init ==
    /\ raw \in [Instances -> [Tables -> Instances \cup {EmptyTable}]]
    /\ \A i \in Instances, t \in Tables : raw[i][t] \in {i, EmptyTable}
    /\ results \in [Instances -> Content]
    /\ \A i \in Instances, t \in Tables : results[i][t] \in {i, NoTable}
    /\ resultsDatasets = Instances
    /\ pruning = [i \in Instances |-> PruningTables]
    /\ backups = {}
    /\ step = 1
    /\ sub = "copy"
    /\ failures = 0
    /\ orig = [raw |-> raw, results |-> results]

Next ==
    \/ CopyRawDataToBackup
    \/ DeleteContentsOfRawDataTables
    \/ CopyRawDataBetweenInstances
    \/ MoveResultsToBackupCopy
    \/ MoveResultsToBackupDelete
    \/ MoveResultsBetweenInstancesCopy
    \/ MoveResultsBetweenInstancesDelete
    \/ DeleteTablesInPruningDatasets

\* The checklist is run to its end: a step that raised is run again.
Spec == Init /\ [][Next]_vars /\ WF_vars(Next)

-----------------------------------------------------------------------------
(* Properties                                                              *)

\* Table t of some raw data (kind "raw") or results dataset, or of a
\* backup of that kind, holds the rows of instance o.
Held(kind, t, o) ==
    \/ kind = "raw" /\ \E i \in Instances : raw[i][t] = o
    \/ kind = "results" /\ \E i \in Instances : results[i][t] = o
    \/ \E b \in backups : b.kind = kind /\ b.content[t] = o

\* No rows are lost at any point of the flash, whichever call raised
\* after doing part of its work: every table that held rows before the
\* flash still has them in a live dataset or a backup.  This is what the
\* order of copy before delete in each function and in the checklist is
\* for.
NoDataLoss ==
    \A t \in Tables, o \in Instances :
        /\ orig.raw[o][t] = o => Held("raw", t, o)
        /\ orig.results[o][t] = o => Held("results", t, o)

\* A flash that ran to its end left PRIMARY with exactly SECONDARY's raw
\* data and ingest view results, SECONDARY's raw data tables empty and its
\* results dataset gone, and both instances' pruning datasets empty.
FlashMovesSecondaryToPrimary ==
    Done =>
        /\ raw[Primary] = orig.raw[Secondary]
        /\ results[Primary] = orig.results[Secondary]
        /\ raw[Secondary] = [t \in Tables |-> EmptyTable]
        /\ Secondary \notin resultsDatasets
        /\ \A i \in Instances : pruning[i] = {}

\* Re-running the step that raised always brings the flash to its end.
FlashEventuallyCompletes == <>Done
=============================================================================
