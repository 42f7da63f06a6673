\* A deploy of STATE, OPERATIONS or CASE_TRIAGE over any earlier dataset,
\* up to two runs raising.
CONSTANTS
    SchemaTypes <- MCSchemaTypes
    TablesOf <- MCTablesOf
    Columns <- MCColumns
    Absent = Absent
    MaxFailures = 2
SPECIFICATION Spec
INVARIANTS
    DatasetMatchesSchemaAfterDeploy
    RegionCodeColumnAfterDeploy
\* The deploy step ends once the dataset is updated.
CHECK_DEADLOCK FALSE
