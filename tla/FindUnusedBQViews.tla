-------------------------- MODULE FindUnusedBQViews --------------------------
(***************************************************************************)
(* get_unused_addresses_from_all_views_dag (tools/find_unused_bq_views.py):*)
(* which deployed BigQuery views nothing uses.                             *)
(*                                                                         *)
(* The views form a DAG whose edge <<p, c>> says view c selects from view  *)
(* p.  The tool raises if an address is both Looker-referenced and         *)
(* confirmed not in Looker; otherwise it walks the DAG with                *)
(* process_dag(reverse=True, synchronous=False), which calls is_view_used  *)
(* on a view once every view that selects from it (its children) has a     *)
(* result, on worker threads in any order, and reports the views found     *)
(* unused that are not in an ignored dataset.                              *)
(*                                                                         *)
(* A view's BigQueryAddress is a <<dataset_id, table_id>> pair chosen in   *)
(* Init; the dataset tests of is_view_used and                             *)
(* _should_ignore_unused_address are made on it.  The address lists of the *)
(* code (Looker references, confirmed-not-in-Looker, metric exports,       *)
(* pipeline reference tables, addresses kept with a reason) are subsets of *)
(* the views, chosen in Init.                                               *)
(***************************************************************************)
EXTENDS Naturals, FiniteSets, Graphs

CONSTANTS
    Views,       \* the deployed views
    Addresses,   \* the <<dataset_id, table_id>> pairs a view may have
    RawLatestDatasets,       \* raw_latest_views_dataset_for_region over every
                             \* StateCode and DirectIngestInstance
    TaskEligibilityDatasets, \* the dataset ids that start with "task_eligibility"
    Unprocessed  \* no result in view_results yet

VARIABLES
    dag,                 \* the edges <<parent, child>> of the views DAG
    looker,              \* LOOKER_REFERENCED_ADDRESSES
    confirmedNotInLooker,\* CONFIRMED_NOT_IN_LOOKER_ADDRESSES
    otherInUse,          \* metric exports | pipeline reference tables | kept with reason
                         \* (here a superset of looker: the union is all that is read)
    address,             \* view -> its BigQueryAddress
    pc,                  \* "check", "walk", "done" or "raised"
    viewResults,         \* view -> is_view_used result, or Unprocessed
    unused               \* the returned addresses

vars == <<dag, looker, confirmedNotInLooker, otherInUse, address, pc,
          viewResults, unused>>

G == [node |-> Views, edge |-> dag]

\* The views that select from v: its children, whose results process_dag
\* with reverse=True hands to v's view_process_fn.
Children(v) == Successors(G, v)

-----------------------------------------------------------------------------
\* DATASETS_REFERENCED_BY_MISC_PROCESSES, by the names of the constants.
DatasetsReferencedByMiscProcesses ==
    {"AGGREGATED_METRICS_DATASET_ID", "EXTERNAL_ACCURACY_DATASET",
     "EXTERNALLY_SHARED_VIEWS_DATASET", "POPULATION_PROJECTION_DATASET",
     "SPARK_OUTPUT_DATASET_MOST_RECENT"}

\* The views whose dataset misc processes read.
MiscDatasetViews == {v \in Views : address[v][1] \in DatasetsReferencedByMiscProcesses}

\* The TES autogenerated convenience views.
TesConvenienceTables ==
    {"all_general_completion_events", "all_state_specific_completion_events",
     "all_criteria", "all_general_criteria", "all_state_specific_criteria",
     "all_general_candidate_populations", "all_candidate_populations"}

\* _should_ignore_unused_address: validation views and the raw data latest
\* views of every region and instance, and the TES convenience views of
\* a task_eligibility dataset.
ShouldIgnoreUnusedAddress(a) ==
    \/ a[1] \in {"VALIDATION_VIEWS_DATASET"} \cup RawLatestDatasets
    \/ a[1] \in TaskEligibilityDatasets /\ a[2] \in TesConvenienceTables

Ignored == {v \in Views : ShouldIgnoreUnusedAddress(address[v])}

\* all_in_use_addresses
AllInUseAddresses == looker \cup otherInUse

\* Mutant: the misc-process datasets are not consulted.
IsViewUsedWithoutMiscDatasets(v) ==
    \/ v \in AllInUseAddresses
    \/ \E c \in Children(v) : viewResults[c] = TRUE

\* is_view_used: in use itself, in a dataset misc processes read, or any
\* child used.
IsViewUsed(v) ==
    \/ v \in AllInUseAddresses
    \/ v \in MiscDatasetViews
    \/ \E c \in Children(v) : viewResults[c] = TRUE

\* The check of LOOKER_REFERENCED_ADDRESSES against
\* CONFIRMED_NOT_IN_LOOKER_ADDRESSES that raises ValueError.
CheckLookerAddresses ==
    /\ pc = "check"
    /\ pc' = IF looker \cap confirmedNotInLooker # {} THEN "raised" ELSE "walk"
    /\ UNCHANGED <<dag, looker, confirmedNotInLooker, otherInUse, address,
                   viewResults, unused>>

\* One worker of process_dag runs is_view_used on a view whose children
\* all have results.
ProcessView(v) ==
    /\ pc = "walk"
    /\ viewResults[v] = Unprocessed
    /\ \A c \in Children(v) : viewResults[c] # Unprocessed
    /\ viewResults' = [viewResults EXCEPT ![v] = IsViewUsed(v)]
    /\ UNCHANGED <<dag, looker, confirmedNotInLooker, otherInUse, address,
                   pc, unused>>

\* process_dag returns once every view has a result; the set comprehension
\* keeps the unused views that are not ignored.
CollectUnused ==
    /\ pc = "walk"
    /\ \A v \in Views : viewResults[v] # Unprocessed
    /\ unused' = {v \in Views : viewResults[v] = FALSE /\ v \notin Ignored}
    /\ pc' = "done"
    /\ UNCHANGED <<dag, looker, confirmedNotInLooker, otherInUse, address,
                   viewResults>>

\* Any views DAG (an edge only from a lower to a higher view, so it is
\* acyclic) and any address sets the tool may be run with.  Only the union
\* of looker and otherInUse and whether looker meets confirmedNotInLooker
\* matter, so looker is drawn inside otherInUse and at most one address is
\* confirmed not in Looker.  Two views never share an address.
Init ==
    /\ dag \in SUBSET {e \in Views \X Views : e[1] < e[2]}
    /\ otherInUse \in SUBSET Views
    /\ looker \in SUBSET otherInUse
    /\ confirmedNotInLooker \in {{}} \cup {{v} : v \in Views}
    /\ address \in {f \in [Views -> Addresses] :
                      \A v, w \in Views : v # w => f[v] # f[w]}
    /\ pc = "check"
    /\ viewResults = [v \in Views |-> Unprocessed]
    /\ unused = {}

Next ==
    \/ CheckLookerAddresses
    \/ \E v \in Views : ProcessView(v)
    \/ CollectUnused

Spec == Init /\ [][Next]_vars

-----------------------------------------------------------------------------
(* Properties                                                              *)

\* Reference: a view is used when it, or a view that reads from it
\* directly or through other views, is in use or in a misc-process dataset.
UsedByReachability(v) ==
    \E u \in {v} \cup Descendants(G, v) :
        u \in AllInUseAddresses \cup MiscDatasetViews

\* Whatever order the worker threads of process_dag take the views in,
\* every result is_view_used records is the reachability answer, and the
\* returned addresses are exactly the views no used view depends on, less
\* the ignored ones.
UnusedMatchesReachability ==
    /\ \A v \in Views :
          viewResults[v] # Unprocessed => viewResults[v] = UsedByReachability(v)
    /\ pc = "done" =>
          unused = {v \in Views \ Ignored : ~UsedByReachability(v)}
=============================================================================
