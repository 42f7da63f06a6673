\* Two materializer instances, both date-bound pairs of a view, up to two
\* calls raising at any step.
CONSTANTS
    Nil = Nil
    Workers = {w1, w2}
    Args <- DateBoundPairs
    RegionLaunched = TRUE
    FailurePoints = {"loading", "materializing", "deleting", "marking"}
    MaxFailures = 2
SPECIFICATION Spec
INVARIANTS
    TypeOK
    OrphanedTablesOnlyFromFailures
    FinalQueryReadsOwnBounds
PROPERTY
    EventuallyMaterialized
\* The materializer stops once every args is materialized.
CHECK_DEADLOCK FALSE
