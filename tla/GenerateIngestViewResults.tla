---------------------- MODULE GenerateIngestViewResults ----------------------
(***************************************************************************)
(* The date bounds of the Dataflow ingest view pipeline                    *)
(* (generate_ingest_view_results.py): GenerateIngestViewResults.expand     *)
(* reads the rows of generate_date_bound_tuples_query, then turns each row *)
(* into the args of one date diff query (get_ingest_view_date_diff_query), *)
(* and runs those queries (ReadAllFromBigQuery).  The query of one args    *)
(* (IngestViewMaterializerImpl.dataflow_query_for_args) is the view's rows  *)
(* as of the upper bound EXCEPT DISTINCT its rows as of the lower bound,    *)
(* each row tagged with the two bounds.                                     *)
(*                                                                         *)
(* The SQL is modelled by what it computes.  An update_datetime is a       *)
(* natural number; its update_date (CAST AS DATE) is the number divided by *)
(* TicksPerDate, so several snapshots can fall on one date.  A raw table's *)
(* upper bound is a datetime, or Nil for a table given no bound.           *)
(* The ingest view itself (build_query, not under src/) is any function of *)
(* the raw data its query sees: with a datetime bound b it reads every     *)
(* table's rows up to b, so its output is fixed by the latest raw snapshot *)
(* at or before b; viewAt gives that output for each snapshot time.        *)
(***************************************************************************)
EXTENDS Naturals, FiniteSets, Sequences, SequencesExt, FiniteSetsExt

CONSTANTS
    Tables,        \* raw data file tags the ingest view reads
    Datetimes,     \* the update_datetime values raw data may carry
    TicksPerDate,  \* update_datetime values per update_date
    Nil,           \* a NULL column, or a table with no upper bound date
    Methods,       \* MaterializationMethod values: "ORIGINAL", "LATEST"
    Rows           \* the rows an ingest view query can return

ASSUME /\ Datetimes \subseteq Nat
       /\ TicksPerDate \in Nat \ {0}
       /\ Methods \subseteq {"ORIGINAL", "LATEST"}

VARIABLES
    rawData,     \* file tag -> the update_datetime values of its rows
    upperBounds, \* raw_data_tables_to_upperbound_dates
    method,      \* materialization_method
    rows,        \* the rows the date bound tuples query returned, or Nil
    args,        \* the IngestViewMaterializationArgs of the date diff queries, or Nil
    viewAt,      \* snapshot time -> the view's rows when that is the latest raw data
    results      \* the tagged rows ReadAllFromBigQuery returned, or Nil

vars == <<rawData, upperBounds, method, rows, args, viewAt, results>>

Pair == [lower : Datetimes \cup {Nil}, upper : Datetimes \cup {Nil}]

TypeOK ==
    /\ rawData \in [Tables -> SUBSET Datetimes]
    /\ upperBounds \in [Tables -> Datetimes \cup {Nil}]
    /\ method \in Methods
    /\ rows \in SUBSET Pair \cup {Nil}
    /\ args \in SUBSET [lower : Datetimes \cup {Nil}, upper : Datetimes] \cup {Nil}
    /\ viewAt \in [Datetimes -> SUBSET Rows]
    /\ results \in SUBSET [row : Rows, lower : Datetimes \cup {Nil},
                          upper : Datetimes] \cup {Nil}

-----------------------------------------------------------------------------
(* generate_date_bound_tuples_query                                        *)

\* CAST(update_datetime AS DATE)
UpdateDate(dt) == dt \div TicksPerDate

\* Mutant: the upper bound date compared with < instead of <=.
IndividualTableQueryStrict(t) ==
    IF upperBounds[t] = Nil THEN {}
    ELSE {<<dt, UpdateDate(dt)>> : dt \in {d \in rawData[t] : d < upperBounds[t]}}

\* INDIVIDUAL_TABLE_QUERY_TEMPLATE: the distinct (update_datetime,
\* update_date) rows of one table, up to its upper bound date; a table with
\* no bound gets the LIMIT 0 template and contributes nothing.
IndividualTableQuery(t) ==
    IF upperBounds[t] = Nil THEN {}
    ELSE {<<dt, UpdateDate(dt)>> : dt \in {d \in rawData[t] : d <= upperBounds[t]}}

\* The tables' queries joined with UNION ALL (duplicates do not change a
\* MAX, so a set union stands for it).
RawDataTables == UNION {IndividualTableQuery(t) : t \in Tables}

UpdateDates == {r[2] : r \in RawDataTables}

\* MAX(update_datetime) ... GROUP BY update_date
MaxDtOnDate(u) == Max({r[1] : r \in {x \in RawDataTables : x[2] = u}})

\* INGEST_VIEW_DATE_BOUND_TUPLES_QUERY_TEMPLATE: one row per update_date in
\* date order, its upper bound that date's last datetime and its lower bound
\* the previous row's (LAG), NULL on the first row.
DateBoundTuples ==
    LET dates == SetToSortSeq(UpdateDates, <)
    IN {[lower |-> IF k = 1 THEN Nil ELSE MaxDtOnDate(dates[k - 1]),
         upper |-> MaxDtOnDate(dates[k])] : k \in 1..Len(dates)}

\* INGEST_VIEW_LATEST_DATE_QUERY_TEMPLATE: a single row; MAX over no rows is
\* NULL.
LatestDateTuple ==
    {[lower |-> Nil,
      upper |-> IF RawDataTables = {} THEN Nil
                ELSE Max({r[1] : r \in RawDataTables})]}

GenerateDateBoundTuplesQuery ==
    IF method = "ORIGINAL" THEN DateBoundTuples ELSE LatestDateTuple

-----------------------------------------------------------------------------
(* GenerateIngestViewResults.expand                                        *)

\* ReadFromBigQuery(query=generate_date_bound_tuples_query(...))
ReadDateBoundTuples ==
    /\ rows = Nil
    /\ rows' = GenerateDateBoundTuplesQuery
    /\ UNCHANGED <<rawData, upperBounds, method, args, viewAt, results>>

\* Mutant: every row yields a query, a NULL upper bound included.
GetIngestViewDateDiffQueryNoNullCheck ==
    /\ rows # Nil /\ args = Nil
    /\ args' = rows
    /\ UNCHANGED <<rawData, upperBounds, method, rows, viewAt, results>>

\* beam.ParDo(get_ingest_view_date_diff_query): a row with a NULL upper
\* bound yields no query; any other row yields one for its args.
GetIngestViewDateDiffQuery ==
    /\ rows # Nil /\ args = Nil
    /\ args' = {p \in rows : p.upper # Nil}
    /\ UNCHANGED <<rawData, upperBounds, method, rows, viewAt, results>>

-----------------------------------------------------------------------------
(* The date diff queries                                                   *)

\* _generate_ingest_view_query_for_date(update_timestamp=b): the view as of
\* b, over every raw row with update_datetime <= b.
ViewQueryAt(b) ==
    LET seen == {d \in UNION {rawData[t] : t \in Tables} : d <= b}
    IN IF seen = {} THEN {} ELSE viewAt[Max(seen)]

\* Mutant: the lower bound query is also built at the upper bound.
DataflowQueryForArgsSameBound(a) ==
    IF a.lower = Nil THEN ViewQueryAt(a.upper)
    ELSE ViewQueryAt(a.upper) \ ViewQueryAt(a.upper)

\* dataflow_query_for_args: date_diff is the upper bound query's rows, less
\* (EXCEPT DISTINCT) the lower bound query's rows when there is a lower
\* bound.
DataflowQueryForArgs(a) ==
    IF a.lower = Nil THEN ViewQueryAt(a.upper)
    ELSE ViewQueryAt(a.upper) \ ViewQueryAt(a.lower)

\* beam.io.ReadAllFromBigQuery(): every date diff query runs and its rows
\* come back with the upper and lower bound columns it selects.
ReadAllFromBigQuery ==
    /\ args # Nil /\ results = Nil
    /\ results' = UNION {{[row |-> r, lower |-> a.lower, upper |-> a.upper] :
                             r \in DataflowQueryForArgs(a)} : a \in args}
    /\ UNCHANGED <<rawData, upperBounds, method, rows, args, viewAt>>

\* Any raw data, bounds and view the pipeline may be launched with.
Init ==
    /\ rawData \in [Tables -> SUBSET Datetimes]
    /\ upperBounds \in [Tables -> Datetimes \cup {Nil}]
    /\ method \in Methods
    /\ rows = Nil
    /\ args = Nil
    /\ viewAt \in [Datetimes -> SUBSET Rows]
    /\ results = Nil

Next == ReadDateBoundTuples \/ GetIngestViewDateDiffQuery \/ ReadAllFromBigQuery

Spec == Init /\ [][Next]_vars

-----------------------------------------------------------------------------
(* Properties                                                              *)

\* The raw data snapshots the view may read: each table's rows up to and
\* including its upper bound date.
Snapshots ==
    {d \in Datetimes :
        \E t \in Tables : /\ d \in rawData[t]
                         /\ upperBounds[t] # Nil
                         /\ d <= upperBounds[t]}

\* The args' window (lower_bound_datetime_exclusive,
\* upper_bound_datetime_inclusive] holds the snapshot.
InWindow(d, a) == (a.lower = Nil \/ a.lower < d) /\ d <= a.upper

\* No later snapshot falls on the same date.
LastOfDay(d) ==
    \A e \in Snapshots : e \div TicksPerDate = d \div TicksPerDate => e <= d

\* Spec 4.2 and 3: the pipeline's date diff queries cover every snapshot
\* in exactly one window, every window ends at the last snapshot of its day
\* and is non-empty with lower < upper, and the ORIGINAL method has one
\* window per update date.  No snapshots, no queries.  This is what the
\* LAG over MAX per date and the NULL filter of
\* get_ingest_view_date_diff_query together must achieve.
DateBoundsPartitionSnapshots ==
    args # Nil =>
        /\ \A d \in Snapshots : Cardinality({a \in args : InWindow(d, a)}) = 1
        /\ \A a \in args : /\ a.upper \in Snapshots
                          /\ LastOfDay(a.upper)
                          /\ a.lower # Nil => a.lower < a.upper
        /\ method = "ORIGINAL" =>
               {a.upper : a \in args} = {d \in Snapshots : LastOfDay(d)}

\* The window ends of the reference: the last snapshot of each date for
\* ORIGINAL, the last snapshot for LATEST; and the end before u.
WindowEnds ==
    IF method = "ORIGINAL" THEN {d \in Snapshots : LastOfDay(d)}
    ELSE {d \in Snapshots : \A e \in Snapshots : e <= d}
PrevEnd(u) ==
    LET before == {e \in WindowEnds : e < u}
    IN IF before = {} THEN Nil ELSE Max(before)

\* Spec 4.1 and 4.2: what the pipeline emits is the view's history as
\* deltas.  For each window end u it returns exactly the rows the view has
\* at u and did not have at the previous window end, tagged (PrevEnd(u),
\* u]; the first window returns the whole view.  So replaying the deltas in
\* order reaches, at every window end, every row the view then has.  This
\* needs the LAG of the date bound query, the NULL filter and the EXCEPT
\* DISTINCT of dataflow_query_for_args to agree with one another.
ResultsAreDeltasBetweenWindows ==
    results # Nil =>
        LET Delta(u) == ViewQueryAt(u) \
                          (IF PrevEnd(u) = Nil THEN {} ELSE ViewQueryAt(PrevEnd(u)))
        IN results = UNION {{[row |-> r, lower |-> PrevEnd(u), upper |-> u] :
                                r \in Delta(u)} : u \in WindowEnds}
=============================================================================
