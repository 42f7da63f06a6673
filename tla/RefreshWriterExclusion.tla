------------------------ MODULE RefreshWriterExclusion ------------------------
(***************************************************************************)
(* What the Cloud SQL -> BigQuery refresh lock promises (spec 4.4), with   *)
(* no locks, clocks or polling: a refresh of (schema, instance) exports,   *)
(* an extract-and-merge process of (region, instance) writes, and the      *)
(* normalized-state update of an instance writes, and none of them starts  *)
(* while a conflicting one is under way.  A STATE or OPERATIONS refresh    *)
(* of instance i conflicts with every extract-and-merge of i; a STATE      *)
(* refresh of i also conflicts with the normalization of i.  Every         *)
(* activity may stop at any time (it finishes or its process dies).        *)
(***************************************************************************)
CONSTANTS
    Jobs,             \* refresh jobs
    JobTarget,        \* Jobs -> Schemas \X Instances
    StateSchema,      \* SchemaType.STATE
    OperationsSchema, \* SchemaType.OPERATIONS
    Instances,        \* DirectIngestInstance values
    Regions           \* regions running extract-and-merge

VARIABLES
    exporting,     \* the jobs exporting now
    ingestRunning, \* the <<region, instance>> extract-and-merge processes writing
    normRunning    \* the instances whose normalized-state update is writing

vars == <<exporting, ingestRunning, normRunning>>

Procs == Regions \X Instances

\* The refreshes an extract-and-merge of instance i must not overlap.
BlocksIngest(j, i) ==
    JobTarget[j][1] \in {StateSchema, OperationsSchema} /\ JobTarget[j][2] = i

\* The refreshes a normalization of instance i must not overlap.
BlocksNormalization(j, i) ==
    JobTarget[j][1] = StateSchema /\ JobTarget[j][2] = i

BeginExport(j) ==
    /\ j \notin exporting
    /\ \A p \in ingestRunning : ~BlocksIngest(j, p[2])
    /\ \A i \in normRunning : ~BlocksNormalization(j, i)
    /\ exporting' = exporting \cup {j}
    /\ UNCHANGED <<ingestRunning, normRunning>>

EndExport(j) ==
    /\ j \in exporting
    /\ exporting' = exporting \ {j}
    /\ UNCHANGED <<ingestRunning, normRunning>>

BeginIngest(p) ==
    /\ p \notin ingestRunning
    /\ \A j \in exporting : ~BlocksIngest(j, p[2])
    /\ ingestRunning' = ingestRunning \cup {p}
    /\ UNCHANGED <<exporting, normRunning>>

EndIngest(p) ==
    /\ p \in ingestRunning
    /\ ingestRunning' = ingestRunning \ {p}
    /\ UNCHANGED <<exporting, normRunning>>

BeginNormalization(i) ==
    /\ i \notin normRunning
    /\ \A j \in exporting : ~BlocksNormalization(j, i)
    /\ normRunning' = normRunning \cup {i}
    /\ UNCHANGED <<exporting, ingestRunning>>

EndNormalization(i) ==
    /\ i \in normRunning
    /\ normRunning' = normRunning \ {i}
    /\ UNCHANGED <<exporting, ingestRunning>>

Init ==
    /\ exporting = {}
    /\ ingestRunning = {}
    /\ normRunning = {}

Next ==
    \/ \E j \in Jobs : BeginExport(j) \/ EndExport(j)
    \/ \E p \in Procs : BeginIngest(p) \/ EndIngest(p)
    \/ \E i \in Instances : BeginNormalization(i) \/ EndNormalization(i)

Spec == Init /\ [][Next]_vars
=============================================================================
