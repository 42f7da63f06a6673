\* One raise of the source deletion in
\* move_ingest_view_results_between_instances; copy_dataset_tables refuses a
\* destination table with rows.
CONSTANTS
    Primary = Primary
    Secondary = Secondary
    Tables = {a, b}
    a = a
    b = b
    PruningTables <- MCPruningTables
    EmptyTable = EmptyTable
    NoTable = NoTable
    FailurePoints <- MCRetryFailurePoints
    MaxFailures = 1
    CopyFailsOnExistingTable = TRUE
SPECIFICATION Spec
PROPERTY FlashEventuallyCompletes
\* The checklist ends after its last step.
CHECK_DEADLOCK FALSE
