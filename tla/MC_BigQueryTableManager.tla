------------------------ MODULE MC_BigQueryTableManager ------------------------
(* Three schemas: STATE with an entity table and an association table,     *)
(* OPERATIONS with a table that has region_code, CASE_TRIAGE (no region    *)
(* code support) with a table named like an association table.            *)
EXTENDS BigQueryTableManager

MCSchemaTypes == {"STATE", "OPERATIONS", "CASE_TRIAGE"}

MCTablesOf ==
    [s \in MCSchemaTypes |->
        CASE s = "STATE" -> {<<"state_person", "">>,
                             <<"state_person_race", "_association">>}
          [] s = "OPERATIONS" -> {<<"direct_ingest_instance_status", "">>}
          [] s = "CASE_TRIAGE" -> {<<"roster_officer", "_association">>}]

MCColumns ==
    [t \in AllTables |->
        CASE t[1] = "state_person" -> {"person_id", "state_code"}
          [] t[1] = "state_person_race" -> {"person_id", "race_id"}
          [] t[1] = "direct_ingest_instance_status" -> {"region_code", "status"}
          [] t[1] = "roster_officer" -> {"officer_id"}]
=============================================================================
