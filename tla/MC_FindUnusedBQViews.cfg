\* Every DAG over three views, every placement of them at six addresses
\* and every choice of the address lists.
CONSTANTS
    Views <- MCViews
    Addresses <- MCAddresses
    RawLatestDatasets <- MCRawLatestDatasets
    TaskEligibilityDatasets <- MCTaskEligibilityDatasets
    Unprocessed = Unprocessed
SPECIFICATION Spec
INVARIANTS
    UnusedMatchesReachability
\* The tool returns or raises after one walk: its last state has no successor.
CHECK_DEADLOCK FALSE
