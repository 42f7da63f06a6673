------------------------- MODULE BigQueryTableManager -------------------------
(***************************************************************************)
(* update_bq_dataset_to_match_sqlalchemy_schema (bq_refresh/               *)
(* big_query_table_manager.py), run at deploy time: create the dataset if *)
(* needed, then for each table to export either update the schema of the  *)
(* BigQuery table or create it.  update_schema only adds and deletes       *)
(* columns, so afterwards the table has exactly the derived columns.      *)
(*                                                                         *)
(* Any BigQuery call may raise and end the run where it stands; the deploy *)
(* step is then run again from the start.  A table's schema is the set of *)
(* its column names.                                                       *)
(***************************************************************************)
EXTENDS Naturals, Sequences, SequencesExt

CONSTANTS
    SchemaTypes,  \* the SchemaType values a deploy may update
    TablesOf,     \* schema type -> CloudSqlToBQConfig.get_tables_to_export()
    Columns,      \* table -> the columns of the SQLAlchemy table
    Absent,       \* no such table in the dataset
    MaxFailures   \* bound on the runs that raise

\* A table name is <<stem, suffix>>; the suffix is "_association" or "".
AllTables == UNION {TablesOf[s] : s \in SchemaTypes}

ASSUME /\ \A t \in AllTables : t[2] \in {"_association", ""}
       /\ MaxFailures \in Nat

Cols == UNION {Columns[t] : t \in AllTables} \cup {"state_code"}

-----------------------------------------------------------------------------
(* schema_utils                                                            *)

\* schema_type_to_schema_base: every SchemaType has its declarative base.
SchemaTypeToSchemaBase(s) ==
    CASE s = "STATE" -> "StateBase"
      [] s = "OPERATIONS" -> "OperationsBase"
      [] s = "JUSTICE_COUNTS" -> "JusticeCountsBase"
      [] s = "CASE_TRIAGE" -> "CaseTriageBase"
      [] s = "PATHWAYS" -> "PathwaysBase"
      [] s = "OUTLIERS" -> "OutliersBase"

SchemaHasRegionCodeQuerySupport(base) == base \in {"StateBase", "OperationsBase"}

\* table_name.endswith("_association")
IsAssociationTable(t) == t[2] = "_association"

\* get_region_code_col: the column a refresh filtered by region code
\* filters on; "ValueError" when the table has none.
GetRegionCodeCol(base, t) ==
    CASE base = "StateBase" /\ ("state_code" \in Columns[t] \/ IsAssociationTable(t))
            -> "state_code"
      [] base = "OperationsBase" /\ "region_code" \in Columns[t] -> "region_code"
      [] OTHER -> "ValueError"

VARIABLES
    schemaType,    \* the schema_type the deploy updates
    datasetExists, \* the dataset is in BigQuery
    bq,            \* table -> its BigQuery columns, or Absent
    pc,            \* "start", "tables", "done" or "failed"
    idx,           \* position of the next table in Order
    failures       \* runs that raised

vars == <<schemaType, datasetExists, bq, pc, idx, failures>>

Tables == TablesOf[schemaType]

\* The loop's order over the tables.
Order == SetToSeq(Tables)

-----------------------------------------------------------------------------
(* big_query_table_manager                                                 *)

\* Mutant: the state_code column is added to no table.
BqSchemaWithoutStateCode(t) == Columns[t]

\* bq_schema_for_sqlalchemy_table: association tables of a schema with
\* region code support get a state_code column.
BqSchemaForSqlalchemyTable(t) ==
    Columns[t] \cup
        (IF /\ SchemaHasRegionCodeQuerySupport(SchemaTypeToSchemaBase(schemaType))
            /\ IsAssociationTable(t)
         THEN {"state_code"} ELSE {})

\* The dataset is created if needed before any table.
CreateDatasetIfNecessary ==
    /\ pc = "start"
    /\ datasetExists' = TRUE
    /\ pc' = "tables"
    /\ idx' = 1
    /\ UNCHANGED <<schemaType, bq, failures>>

\* Mutant: a table that exists is left as it is.
UpdateOnlyMissingTable ==
    LET t == Order[idx]
    IN /\ pc = "tables" /\ idx <= Len(Order)
       /\ bq' = [bq EXCEPT ![t] = IF @ # Absent THEN @ ELSE BqSchemaForSqlalchemyTable(t)]
       /\ idx' = idx + 1
       /\ UNCHANGED <<schemaType, datasetExists, pc, failures>>

\* update_bq_schema_for_sqlalchemy_table: update_schema when table_exists,
\* create_table_with_schema otherwise; both leave the derived columns.
UpdateBqSchemaForSqlalchemyTable ==
    LET t == Order[idx]
    IN /\ pc = "tables" /\ idx <= Len(Order)
       /\ bq' = [bq EXCEPT ![t] = BqSchemaForSqlalchemyTable(t)]
       /\ idx' = idx + 1
       /\ UNCHANGED <<schemaType, datasetExists, pc, failures>>

\* The for loop has handled every table.
FinishRun ==
    /\ pc = "tables" /\ idx > Len(Order)
    /\ pc' = "done"
    /\ UNCHANGED <<schemaType, datasetExists, bq, idx, failures>>

\* A BigQuery call raises: the run ends with the tables done so far.
Raise ==
    /\ pc \in {"start", "tables"}
    /\ failures < MaxFailures
    /\ failures' = failures + 1
    /\ pc' = "failed"
    /\ UNCHANGED <<schemaType, datasetExists, bq, idx>>

\* The deploy step that failed is run again.
Rerun ==
    /\ pc = "failed"
    /\ pc' = "start"
    /\ UNCHANGED <<schemaType, datasetExists, bq, idx, failures>>

\* Any earlier state of the dataset: missing, or tables with any columns
\* or missing.
Init ==
    /\ schemaType \in SchemaTypes
    /\ datasetExists \in BOOLEAN
    /\ bq \in [Tables -> SUBSET Cols \cup {Absent}]
    /\ ~datasetExists => bq = [t \in Tables |-> Absent]
    /\ pc = "start"
    /\ idx = 1
    /\ failures = 0

Next ==
    \/ CreateDatasetIfNecessary
    \/ UpdateBqSchemaForSqlalchemyTable
    \/ FinishRun
    \/ Raise
    \/ Rerun

Spec == Init /\ [][Next]_vars

-----------------------------------------------------------------------------
(* Properties                                                              *)

\* Module docstring: after a deploy the BigQuery tables match the schema
\* being deployed, whatever they held before and however many runs raised
\* part-way: every table exists with all its SQLAlchemy columns, and the
\* columns an earlier schema had and this one dropped are gone; state_code
\* is the only column a table may have beyond its own.
DatasetMatchesSchemaAfterDeploy ==
    pc = "done" =>
        /\ datasetExists
        /\ \A t \in Tables : bq[t] # Absent /\ Columns[t] \subseteq bq[t]
                            /\ bq[t] \ Columns[t] \subseteq {"state_code"}

\* The NOTE of schema_has_region_code_query_support: a refresh filtered by
\* region code must find the column it filters on.  Once the deploy of a
\* STATE or OPERATIONS schema has finished, the column get_region_code_col
\* names for each table exists in its BigQuery table; for an association
\* table of STATE, which has no state_code of its own, only the column
\* bq_schema_for_sqlalchemy_table adds makes this so.
RegionCodeColumnAfterDeploy ==
    LET base == SchemaTypeToSchemaBase(schemaType) IN
    pc = "done" /\ SchemaHasRegionCodeQuerySupport(base) =>
        \A t \in Tables : GetRegionCodeCol(base, t) \in bq[t]
=============================================================================
