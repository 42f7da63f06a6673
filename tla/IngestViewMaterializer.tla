------------------------ MODULE IngestViewMaterializer ------------------------
(***************************************************************************)
(* IngestViewMaterializerImpl.materialize_view_for_args                    *)
(* (ingest_view_materializer.py) run by several materializer instances at *)
(* once, with the materialization metadata table it reads and finalises.  *)
(*                                                                         *)
(* A call checks the metadata for a completion time, loads the upper- and *)
(* (when there is one) lower-bound snapshots of the view into intermediate *)
(* tables named after the view, the bound, its kind and the instance's    *)
(* request id, saves the diff query's results, deletes the intermediate   *)
(* tables and marks the args materialized.  Nothing in the code catches   *)
(* an exception, so any step may end the call where it stands.  The task  *)
(* queue calls it again for args that are not materialized.               *)
(*                                                                         *)
(* Rows are abstracted away: a saved batch is counted, not its contents.  *)
(* An intermediate table holds the view as of one date bound, and the     *)
(* model keeps that bound as the table's contents.  A date bound is       *)
(* <<second, microsecond>>; a table name keeps only the second.          *)
(***************************************************************************)
EXTENDS Naturals, FiniteSets, Functions, TLC

CONSTANTS
    Workers,        \* IngestViewMaterializerImpl instances, one request_id each
    Args,           \* IngestViewMaterializationArgs of one view and instance
    Nil,            \* an absent lower_bound_datetime_exclusive
    RegionLaunched, \* region.is_ingest_launched_in_env()
    FailurePoints,  \* the steps at which a call may raise
    MaxFailures     \* bound on the calls that raise

Steps == {"loading", "materializing", "deleting", "marking"}

\* One datetime is earlier than another.
Earlier(d, e) == d[1] < e[1] \/ (d[1] = e[1] /\ d[2] < e[2])

ASSUME /\ \A a \in Args : a.lower = Nil \/ Earlier(a.lower, a.upper)
       /\ RegionLaunched \in BOOLEAN
       /\ FailurePoints \subseteq Steps
       /\ MaxFailures \in Nat

VARIABLES
    pc,           \* worker -> "idle" or the step its call is at
    cur,          \* worker -> the args of its call, or Nil
    tables,       \* intermediate table name -> the date bound it was loaded at
    results,      \* args -> number of result batches saved for them
    materialized, \* args -> the metadata row has a materialization_time
    failures      \* number of calls that raised

vars == <<pc, cur, tables, results, materialized, failures>>


\* An intermediate table name: view name (one view here), the bound
\* formatted with TABLE_NAME_DATE_FORMAT ("%Y_%m_%d_%H_%M_%S", which drops
\* the microseconds), bound kind, request id.
IntermediateTable(date, kind, w) == <<date[1], kind, w>>

Bounds == {a.upper : a \in Args} \cup {a.lower : a \in {b \in Args : b.lower # Nil}}
TableIds ==
    ({a.upper[1] : a \in Args} \X {"upper"} \X Workers)
      \cup ({a.lower[1] : a \in {b \in Args : b.lower # Nil}} \X {"lower"} \X Workers)

TypeOK ==
    /\ pc \in [Workers -> {"idle"} \cup Steps]
    /\ cur \in [Workers -> Args \cup {Nil}]
    /\ DOMAIN tables \subseteq TableIds
    /\ \A n \in DOMAIN tables : tables[n] \in Bounds
    /\ results \in [Args -> Nat]
    /\ materialized \in [Args -> BOOLEAN]
    /\ failures \in 0..MaxFailures

-----------------------------------------------------------------------------
(* Metadata manager (not in these sources; from spec 3 and 4.1)            *)

\* get_job_completion_time_for_args(args) is not None
IsMaterialized(a) == materialized[a]

\* mark_ingest_view_materialized(args)
MarkMaterialized(a) == [materialized EXCEPT ![a] = TRUE]

-----------------------------------------------------------------------------
(* IngestViewMaterializerImpl                                              *)

\* _get_upper_bound_intermediate_table_name and
\* _get_lower_bound_intermediate_table_name
UpperBoundTable(a, w) == IntermediateTable(a.upper, "upper", w)
\* Mutant: the lower-bound name carries the upper-bound suffix.
LowerBoundTableNamedUpper(a, w) == IntermediateTable(a.lower, "upper", w)
\* Mutant: the lower-bound name built from the upper bound's date.
LowerBoundTableFromUpperDate(a, w) == IntermediateTable(a.upper, "lower", w)

LowerBoundTable(a, w) == IntermediateTable(a.lower, "lower", w)

\* The tables a call loads, reads in its final query, and deletes, each
\* with the date bound its query is run at: the lower-bound one only when
\* the args have a lower bound.
CallLoads(a, w) ==
    {<<UpperBoundTable(a, w), a.upper>>} \cup
        (IF a.lower # Nil THEN {<<LowerBoundTable(a, w), a.lower>>} ELSE {})
CallTables(a, w) == {l[1] : l \in CallLoads(a, w)}

\* Date jobs load the tables named in names; two jobs that write one name
\* run concurrently, and either result may be the one that stays.  A table
\* of the same name is replaced.
LoadTables(a, w, names) ==
    \E content \in [names -> Bounds] :
        /\ \A n \in names : <<n, content[n]>> \in CallLoads(a, w)
        /\ tables' = content @@ tables

\* Mutant: idempotence judged by saved results instead of the metadata.
StartChecksResults(w, a) ==
    /\ pc[w] = "idle"
    /\ RegionLaunched
    /\ results[a] = 0
    /\ pc' = [pc EXCEPT ![w] = "loading"]
    /\ cur' = [cur EXCEPT ![w] = a]
    /\ UNCHANGED <<tables, results, materialized, failures>>

\* materialize_view_for_args up to its idempotence check: a region that is
\* not launched raises before anything happens; args that already have a
\* completion time return False without doing anything (a stutter, left
\* out).
Start(w, a) ==
    /\ pc[w] = "idle"
    /\ RegionLaunched
    /\ ~IsMaterialized(a)
    /\ pc' = [pc EXCEPT ![w] = "loading"]
    /\ cur' = [cur EXCEPT ![w] = a]
    /\ UNCHANGED <<tables, results, materialized, failures>>

\* _load_individual_date_queries_into_intermediate_tables: both date
\* queries are started and waited for; a table of the same name is
\* replaced.
LoadIntermediateTables(w) ==
    /\ pc[w] = "loading"
    /\ LoadTables(cur[w], w, CallTables(cur[w], w))
    /\ pc' = [pc EXCEPT ![w] = "materializing"]
    /\ UNCHANGED <<cur, results, materialized, failures>>

\* _materialize_query_results: save_query_results stores the query's rows
\* for the args as one batch.
SaveResults(a) == [results EXCEPT ![a] = @ + 1]

\* _get_materialization_query_for_args + _materialize_query_results: the
\* final query selects from (and diffs) the call's intermediate tables and
\* its results are saved as one batch; a query over a missing table fails.
SaveQueryResults(w) ==
    /\ pc[w] = "materializing"
    /\ CallTables(cur[w], w) \subseteq DOMAIN tables
    /\ results' = SaveResults(cur[w])
    /\ pc' = [pc EXCEPT ![w] = "deleting"]
    /\ UNCHANGED <<cur, tables, materialized, failures>>

\* Mutant: only the upper-bound table is deleted.
DeleteUpperBoundTableOnly(w) ==
    /\ pc[w] = "deleting"
    /\ tables' = Restrict(tables, DOMAIN tables \ {UpperBoundTable(cur[w], w)})
    /\ pc' = [pc EXCEPT ![w] = "marking"]
    /\ UNCHANGED <<cur, results, materialized, failures>>

\* _delete_intermediate_tables
DeleteIntermediateTables(w) ==
    /\ pc[w] = "deleting"
    /\ tables' = Restrict(tables, DOMAIN tables \ CallTables(cur[w], w))
    /\ pc' = [pc EXCEPT ![w] = "marking"]
    /\ UNCHANGED <<cur, results, materialized, failures>>

\* mark_ingest_view_materialized; the call returns True.
MarkIngestViewMaterialized(w) ==
    /\ pc[w] = "marking"
    /\ materialized' = MarkMaterialized(cur[w])
    /\ pc' = [pc EXCEPT ![w] = "idle"]
    /\ cur' = [cur EXCEPT ![w] = Nil]
    /\ UNCHANGED <<tables, results, failures>>

\* A BigQuery or metadata call raises and the exception leaves
\* materialize_view_for_args.  A load that fails may have created either
\* table (the two jobs run concurrently); a deletion that fails may have
\* deleted the upper-bound table before the lower-bound one.
RaiseInStep(w) ==
    LET a == cur[w]
    IN /\ pc[w] \in FailurePoints
       /\ failures < MaxFailures
       /\ failures' = failures + 1
       /\ pc' = [pc EXCEPT ![w] = "idle"]
       /\ cur' = [cur EXCEPT ![w] = Nil]
       /\ \/ /\ pc[w] = "loading"
             /\ \E created \in SUBSET CallTables(a, w) : LoadTables(a, w, created)
          \/ /\ pc[w] = "deleting"
             /\ \E deleted \in {{}, {UpperBoundTable(a, w)}} :
                    tables' = Restrict(tables, DOMAIN tables \ deleted)
          \/ /\ pc[w] \in {"materializing", "marking"}
             /\ UNCHANGED tables
       /\ UNCHANGED <<results, materialized>>

-----------------------------------------------------------------------------
Init ==
    /\ pc = [w \in Workers |-> "idle"]
    /\ cur = [w \in Workers |-> Nil]
    /\ tables = <<>>
    /\ results = [a \in Args |-> 0]
    /\ materialized = [a \in Args |-> FALSE]
    /\ failures = 0

Next ==
    \/ \E w \in Workers, a \in Args : Start(w, a)
    \/ \E w \in Workers :
         \/ LoadIntermediateTables(w) \/ SaveQueryResults(w)
         \/ DeleteIntermediateTables(w) \/ MarkIngestViewMaterialized(w)
         \/ RaiseInStep(w)

\* Every call in progress makes progress, and the task queue keeps asking
\* for args that have no completion time (spec 6: the scheduler invokes
\* materialize_view_for_args once per discovered date-bound pair and
\* retries failed tasks).
Fairness ==
    /\ \A w \in Workers :
         /\ WF_vars(LoadIntermediateTables(w))
         /\ WF_vars(SaveQueryResults(w))
         /\ WF_vars(DeleteIntermediateTables(w))
         /\ WF_vars(MarkIngestViewMaterialized(w))
    /\ \A a \in Args : WF_vars(\E w \in Workers : Start(w, a))

Spec == Init /\ [][Next]_vars /\ Fairness

-----------------------------------------------------------------------------
(* Properties                                                              *)

InProgressTables == UNION {CallTables(cur[w], w) : w \in {v \in Workers : pc[v] # "idle"}}

\* Intermediate tables are left behind only by calls that raised: apart
\* from the tables of calls in progress, there are at most two per failed
\* call (spec 4.1: orphaned tables come from failed attempts only).
OrphanedTablesOnlyFromFailures ==
    Cardinality(DOMAIN tables \ InProgressTables) <= 2 * failures

\* The final query of a call selects from (and diffs) tables that hold the
\* view as of its own two bounds, even when both bounds fall in one second
\* and TABLE_NAME_DATE_FORMAT gives them the same date text, and however
\* the calls of other materializer instances and the leftovers of failed
\* calls interleave with it.
FinalQueryReadsOwnBounds ==
    \A w \in Workers :
        pc[w] = "materializing" =>
            \A l \in CallLoads(cur[w], w) : l[1] \in DOMAIN tables /\ tables[l[1]] = l[2]

\* Every args the scheduler asks for is eventually materialized, however
\* the calls for it raised and were retried (finitely many failures).
EventuallyMaterialized == \A a \in Args : <>IsMaterialized(a)

\* Spec 8, at-most-once: one persisted result batch per args, even when
\* calls for the same args overlap or are retried.
AtMostOnceResults == \A a \in Args : results[a] <= 1

\* Spec 4.1 and 7: a materialization either fully completes or is not yet
\* done, and a failed cleanup of intermediate tables does not fail it.  So
\* when no call for an args is running, its results are saved only if it
\* is marked materialized.
NoPartialMaterialization ==
    \A a \in Args :
        ((\A w \in Workers : cur[w] # a) /\ results[a] > 0) => IsMaterialized(a)
=============================================================================
