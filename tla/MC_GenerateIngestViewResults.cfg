\* Two raw tables, each with any subset of four snapshot times on three
\* update dates and any upper bound date, under both materialization
\* methods, and a view whose output at each snapshot is any subset of one
\* row, so a row appears, vanishes and comes back (set difference acts on
\* each row alone, so one row stands for many).
CONSTANTS
    Tables = {t1, t2}
    t1 = t1
    t2 = t2
    x = x
    Datetimes <- MCDatetimes
    TicksPerDate = 2
    Nil = Nil
    Methods = {"ORIGINAL", "LATEST"}
    Rows = {x}
SPECIFICATION Spec
INVARIANTS TypeOK DateBoundsPartitionSnapshots ResultsAreDeltasBetweenWindows
\* The pipeline ends once every date diff query has run.
CHECK_DEADLOCK FALSE
