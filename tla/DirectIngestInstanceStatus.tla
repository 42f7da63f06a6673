---------------------- MODULE DirectIngestInstanceStatus ----------------------
(***************************************************************************)
(* The direct_ingest_instance_status log of one region: DirectIngestStatus *)
(* and its value descriptions (direct_ingest_instance_status.py) say which *)
(* statuses exist, which are legacy pre-Dataflow values, and to which      *)
(* instance each is written.  The store that accepts rows is not under     *)
(* src/; it is modelled from spec 3 and 4.3: rows are appended, a row      *)
(* whose status_timestamp does not exceed the pair's current maximum is    *)
(* rejected, and the current status is the row with the latest timestamp.  *)
(*                                                                         *)
(* Writers (the scheduler, the Admin Panel flash and rerun endpoints) take *)
(* a timestamp from the clock when they decide on a status and insert it   *)
(* later; nothing serialises them (spec 6), and a rejected insert is a     *)
(* hard failure for its writer, not retried.                                *)
(***************************************************************************)
EXTENDS Naturals, Sequences

CONSTANTS
    Writers,  \* processes that add status rows
    MaxTime,  \* bound on the clock
    IssuedStatuses, \* the statuses writers decide on in a model
    Nil       \* a writer with no insert pending

Instances == {"PRIMARY", "SECONDARY"}

ASSUME MaxTime \in Nat

\* The values marked TODO(#20930): pre-Dataflow statuses kept for history.
LegacyStatuses ==
    {"RERUN_WITH_RAW_DATA_IMPORT_STARTED", "STANDARD_RERUN_STARTED",
     "BLOCKED_ON_PRIMARY_RAW_DATA_IMPORT",
     "INGEST_VIEW_MATERIALIZATION_IN_PROGRESS",
     "EXTRACT_AND_MERGE_IN_PROGRESS", "RERUN_CANCELED",
     "RERUN_CANCELLATION_IN_PROGRESS", "UP_TO_DATE", "NO_RERUN_IN_PROGRESS"}

\* class DirectIngestStatus
DirectIngestStatus ==
    LegacyStatuses \cup
    {"RAW_DATA_REIMPORT_STARTED", "INITIAL_STATE",
     "RAW_DATA_IMPORT_IN_PROGRESS", "READY_TO_FLASH", "FLASH_IN_PROGRESS",
     "FLASH_COMPLETED", "RAW_DATA_REIMPORT_CANCELED",
     "RAW_DATA_REIMPORT_CANCELLATION_IN_PROGRESS", "RAW_DATA_UP_TO_DATE",
     "STALE_RAW_DATA", "NO_RAW_DATA_REIMPORT_IN_PROGRESS"}

\* _DIRECT_INGEST_INSTANCE_STATUS_VALUE_DESCRIPTIONS: the statuses added
\* "in PRIMARY only"; those added to "both instances" or with no instance
\* named; every other one is added in SECONDARY only.
PrimaryOnlyStatuses ==
    {"STANDARD_RERUN_STARTED", "INITIAL_STATE", "UP_TO_DATE",
     "RAW_DATA_UP_TO_DATE"}
BothInstanceStatuses ==
    {"RAW_DATA_IMPORT_IN_PROGRESS", "INGEST_VIEW_MATERIALIZATION_IN_PROGRESS",
     "EXTRACT_AND_MERGE_IN_PROGRESS", "FLASH_IN_PROGRESS", "FLASH_COMPLETED"}
StatusesFor(i) ==
    IF i = "PRIMARY" THEN PrimaryOnlyStatuses \cup BothInstanceStatuses
    ELSE DirectIngestStatus \ PrimaryOnlyStatuses

\* Mutant: the instance named in the descriptions is not consulted.
WritableStatusesAnyInstance(i) == DirectIngestStatus \ (LegacyStatuses \cup {"INITIAL_STATE"})

\* What a writer may add now: INITIAL_STATE is added once, when the region
\* is onboarded, and legacy values are never issued by new writers.
WritableStatuses(i) == StatusesFor(i) \ (LegacyStatuses \cup {"INITIAL_STATE"})

Row == [ts : 0..MaxTime, status : DirectIngestStatus]

VARIABLES
    log,      \* instance -> its rows, in insertion order
    now,      \* the clock writers read timestamps from
    pending,  \* writer -> [inst, row] it is about to insert, or Nil
    accepted  \* instance -> the row of its last accepted insert, or Nil

vars == <<log, now, pending, accepted>>

TypeOK ==
    /\ log \in [Instances -> Seq(Row)]
    /\ \A i \in Instances : \A k \in 1..Len(log[i]) : log[i][k].status \in StatusesFor(i)
    /\ now \in 0..MaxTime
    /\ pending \in [Writers -> [inst : Instances, row : Row] \cup {Nil}]
    /\ accepted \in [Instances -> Row \cup {Nil}]

-----------------------------------------------------------------------------
(* The status store (spec 4.3)                                             *)

Timestamps(i) == {log[i][k].ts : k \in 1..Len(log[i])}

\* The monotonic-timestamp check at write time.
AcceptsTimestamp(i, t) == \A u \in Timestamps(i) : u < t

-----------------------------------------------------------------------------
(* Writers                                                                 *)

\* A writer decides on a status for an instance and takes the timestamp.
DecideStatus(w, i, s) ==
    /\ pending[w] = Nil
    /\ s \in WritableStatuses(i) \cap IssuedStatuses
    /\ pending' = [pending EXCEPT ![w] = [inst |-> i, row |-> [ts |-> now, status |-> s]]]
    /\ UNCHANGED <<log, now, accepted>>

\* The insert reaches the store, which appends the row or rejects it.
InsertStatus(w) ==
    LET i == pending[w].inst
        r == pending[w].row
    IN /\ pending[w] # Nil
       /\ pending' = [pending EXCEPT ![w] = Nil]
       /\ IF AcceptsTimestamp(i, r.ts)
             THEN /\ log' = [log EXCEPT ![i] = Append(@, r)]
                  /\ accepted' = [accepted EXCEPT ![i] = r]
             ELSE UNCHANGED <<log, accepted>>
       /\ UNCHANGED now

Tick ==
    /\ now < MaxTime
    /\ now' = now + 1
    /\ UNCHANGED <<log, pending, accepted>>

\* A region just onboarded: one INITIAL_STATE row for PRIMARY, none for
\* SECONDARY.
Init ==
    /\ log = [i \in Instances |->
                IF i = "PRIMARY" THEN <<[ts |-> 0, status |-> "INITIAL_STATE"]>>
                ELSE <<>>]
    /\ now = 0
    /\ pending = [w \in Writers |-> Nil]
    /\ accepted = [i \in Instances |-> Nil]

Next ==
    \/ \E w \in Writers, i \in Instances, s \in DirectIngestStatus : DecideStatus(w, i, s)
    \/ \E w \in Writers : InsertStatus(w)
    \/ Tick

Spec == Init /\ [][Next]_vars
=============================================================================
