\* One materializer instance; the only failure is a delete_table call that
\* raises while the intermediate tables are cleaned up.
CONSTANTS
    Nil = Nil
    Workers = {w1}
    Args <- DateBoundPairs
    RegionLaunched = TRUE
    FailurePoints = {"deleting"}
    MaxFailures = 1
SPECIFICATION Spec
INVARIANT NoPartialMaterialization
CHECK_DEADLOCK FALSE
