\* Two materializer instances are handed the same args at once (a retried
\* task overlapping the original); no call raises.
CONSTANTS
    Nil = Nil
    Workers = {w1, w2}
    Args <- DateBoundPairs
    RegionLaunched = TRUE
    FailurePoints = {}
    MaxFailures = 0
SPECIFICATION Spec
INVARIANT AtMostOnceResults
CHECK_DEADLOCK FALSE
