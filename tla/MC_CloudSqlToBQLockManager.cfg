\* Refresh jobs against extract-and-merge and normalization, with crashes
\* and lock expiry; processes doing work finish before their lock expires.
\* The lock protocol is checked to implement RefreshWriterExclusion.
CONSTANTS
    NoPayload = NoPayload
    PRIMARY = PRIMARY
    SECONDARY = SECONDARY
    s_state = s_state
    s_operations = s_operations
    s_other = s_other
    r1 = r1
    r2 = r2
    j1 = j1
    j2 = j2
    j3 = j3
    Schemas = {s_state, s_operations, s_other}
    StateSchema = s_state
    OperationsSchema = s_operations
    Instances = {PRIMARY}
    Regions = {r1}
    Jobs = {j1, j2, j3}
    JobTarget <- OneJobPerTarget
    ExportLockTimeout = 3
    IngestLockTimeout = 2
    NormalizationLockTimeout = 2
    MaxRuns = 2
    HoldersFinishInTime = TRUE
SPECIFICATION Spec
INVARIANTS
    TypeOK
    ExportingHoldsOwnLock
PROPERTY
    ImplementsRefreshWriterExclusion
