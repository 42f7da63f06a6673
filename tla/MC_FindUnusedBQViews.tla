------------------------- MODULE MC_FindUnusedBQViews -------------------------
(* Three views: every DAG over them, in any position of a chain or a fork. *)
EXTENDS FindUnusedBQViews

MCViews == 1..3

\* The raw data latest views datasets of one region, both instances.
MCRawLatestDatasets == {"us_xx_raw_data_up_to_date_views",
                        "us_xx_raw_data_up_to_date_views_secondary"}

MCTaskEligibilityDatasets == {"task_eligibility_criteria_general"}

\* One address in each case _should_ignore_unused_address and is_view_used
\* tell apart: a plain dataset, a misc-process dataset, the validation
\* views, a raw data latest views dataset, and a task_eligibility dataset
\* with a convenience table and with another table.
MCAddresses ==
    {<<"sessions", "compartment_sessions">>,
     <<"AGGREGATED_METRICS_DATASET_ID", "supervision_officer_metrics">>,
     <<"VALIDATION_VIEWS_DATASET", "sessions_justice_counts_comparison">>,
     <<"us_xx_raw_data_up_to_date_views_secondary", "elite_offenders_latest">>,
     <<"task_eligibility_criteria_general", "all_criteria">>,
     <<"task_eligibility_criteria_general", "on_parole">>}
=============================================================================
