----------------------- MODULE MC_FlashDatabaseTools -----------------------
EXTENDS FlashDatabaseTools

\* One table in each pruning dataset.
MCPruningTables == {<<"new_raw_data", "t">>, <<"diff_results", "t">>}

\* Every call may raise, except the two halves of
\* move_ingest_view_results_between_instances (see MC_FlashDatabaseTools_retry).
MCFailurePoints ==
    {"copy_raw_data_to_backup", "delete_contents_of_raw_data_tables",
     "copy_raw_data_between_instances", "move_ingest_view_results_to_backup",
     "move_ingest_view_results_to_backup_delete",
     "delete_tables_in_pruning_datasets"}

\* The source dataset's deletion after a complete copy raises once.
MCRetryFailurePoints == {"move_ingest_view_results_between_instances_delete"}
=============================================================================
