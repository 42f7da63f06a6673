\* Two checklist runs refresh the same (STATE, PRIMARY); a run that waits in
\* can_proceed may outlive its lock.
CONSTANTS
    NoPayload = NoPayload
    PRIMARY = PRIMARY
    SECONDARY = SECONDARY
    s_state = s_state
    s_operations = s_operations
    s_other = s_other
    r1 = r1
    r2 = r2
    j1 = j1
    j2 = j2
    j3 = j3
    Schemas = {s_state, s_operations, s_other}
    StateSchema = s_state
    OperationsSchema = s_operations
    Instances = {PRIMARY}
    Regions = {r1}
    Jobs = {j1, j2}
    JobTarget <- TwoJobsOneTarget
    ExportLockTimeout = 3
    IngestLockTimeout = 2
    NormalizationLockTimeout = 2
    MaxRuns = 2
    HoldersFinishInTime = TRUE
SPECIFICATION Spec
INVARIANT RefreshExclusion
