\* One STATE refresh of PRIMARY; a waiting run calls acquire_lock again
\* with its own lock_id.
CONSTANTS
    NoPayload = NoPayload
    PRIMARY = PRIMARY
    s_state = s_state
    s_operations = s_operations
    s_other = s_other
    r1 = r1
    j1 = j1
    Schemas = {s_state, s_operations, s_other}
    StateSchema = s_state
    OperationsSchema = s_operations
    Instances = {PRIMARY}
    Regions = {r1}
    Jobs = {j1}
    JobTarget <- OneStateRefresh
    ExportLockTimeout = 3
    IngestLockTimeout = 2
    NormalizationLockTimeout = 2
    MaxRuns = 2
    HoldersFinishInTime = TRUE
INIT RenewalInit
NEXT RenewalNext
INVARIANT AcquireKeepsLockForTimeout
