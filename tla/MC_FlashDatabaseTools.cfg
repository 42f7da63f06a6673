\* Two tables per dataset, up to two calls that raise, copy_dataset_tables
\* refusing a destination table with rows.
CONSTANTS
    Primary = Primary
    Secondary = Secondary
    Tables = {a, b}
    a = a
    b = b
    PruningTables <- MCPruningTables
    EmptyTable = EmptyTable
    NoTable = NoTable
    FailurePoints <- MCFailurePoints
    MaxFailures = 2
    CopyFailsOnExistingTable = TRUE
SPECIFICATION Spec
INVARIANTS TypeOK NoDataLoss FlashMovesSecondaryToPrimary
PROPERTY FlashEventuallyCompletes
\* The checklist ends after its last step.
CHECK_DEADLOCK FALSE
