----------------------- MODULE CloudSqlToBQLockManager -----------------------
(***************************************************************************)
(* The Cloud SQL -> BigQuery refresh lock (cloud_sql_to_bq_lock_manager.py)*)
(* and the processes it must not run against.                              *)
(*                                                                         *)
(* A refresh job announces itself by taking the refresh lock of one        *)
(* (schema, instance) (acquire_lock), polls can_proceed until every        *)
(* blocking process has yielded, exports, and drops the lock              *)
(* (release_lock).  The blocking processes are the ingest extract-and-     *)
(* merge processes of each (region, instance) and the normalized-state     *)
(* update of each instance; they are not blocked by the lock but are       *)
(* expected to notice it and pause (spec 4.4).  Their code is not part of  *)
(* these sources: they are modelled from the spec as announce-then-check:  *)
(* take their own lock, then look for the refresh locks that concern them  *)
(* and back off if one is held.                                            *)
(*                                                                         *)
(* Every process can crash at any point, leaving its lock to expire.      *)
(***************************************************************************)
EXTENDS Naturals, FiniteSets, GCSPseudoLockManager

CONSTANTS
    Schemas,          \* SchemaType values
    StateSchema,      \* SchemaType.STATE
    OperationsSchema, \* SchemaType.OPERATIONS
    Instances,        \* DirectIngestInstance values
    Regions,          \* regions running ingest extract-and-merge
    Jobs,             \* refresh jobs (checklist runs of one refresh)
    JobTarget,        \* Jobs -> Schemas \X Instances: what each job refreshes
    ExportLockTimeout,        \* _export_lock_timeout_for_schema, in ticks
    IngestLockTimeout,        \* expiration of an extract-and-merge lock
    NormalizationLockTimeout, \* expiration of a normalization lock
    MaxRuns,          \* bound on the refresh runs of one job
    HoldersFinishInTime \* a process doing work finishes before its lock expires

ASSUME /\ {StateSchema, OperationsSchema} \subseteq Schemas
       /\ JobTarget \in [Jobs -> Schemas \X Instances]
       /\ {ExportLockTimeout, IngestLockTimeout, NormalizationLockTimeout}
            \subseteq Nat \ {0}
       /\ MaxRuns \in Nat
       /\ HoldersFinishInTime \in BOOLEAN

\* Lock names: postgres_to_bq_lock_name_for_schema,
\* normalization_lock_name_for_ingest_instance and the extract-and-merge
\* locks named STATE_EXTRACT_AND_MERGE_INGEST_PROCESS_RUNNING_LOCK_PREFIX
\* + region + instance.
RefreshLockName(s, i) == <<"bq_refresh", s, i>>
NormalizationLockName(i) == <<"normalization", i>>
IngestLockName(r, i) == <<"extract_and_merge", r, i>>

LockNames ==
    {RefreshLockName(s, i) : s \in Schemas, i \in Instances}
      \cup {NormalizationLockName(i) : i \in Instances}
      \cup {IngestLockName(r, i) : r \in Regions, i \in Instances}

\* The lock_id of run n of job j (a fresh uuid per checklist run).
LockId(j, n) == <<j, n>>
\* The payload written by ingest and normalization processes.
ProcessPayload == <<"process">>

VARIABLES
    locks,    \* the lock table of the GCS backend
    job,      \* job -> "idle" | "acquired" | "checkingIngest" | "exporting"
    run,      \* job -> number of the job's current (or last) run
    ingest,   \* <<region, instance>> -> "idle" | "announced" | "running"
    norm      \* instance -> "idle" | "announced" | "running"

vars == <<locks, job, run, ingest, norm>>

Procs == Regions \X Instances

TypeOK ==
    /\ locks \in [LockNames ->
                    [payload : {NoPayload, ProcessPayload}
                                 \cup (Jobs \X (1..MaxRuns)),
                     ttl : 0..ExportLockTimeout]]
    /\ job \in [Jobs -> {"idle", "acquired", "checkingIngest", "exporting"}]
    /\ run \in [Jobs -> 0..MaxRuns]
    /\ ingest \in [Procs -> {"idle", "announced", "running"}]
    /\ norm \in [Instances -> {"idle", "announced", "running"}]

-----------------------------------------------------------------------------
(* CloudSqlToBQLockManager                                                 *)

\* is_locked(schema_type, ingest_instance)
IsRefreshLocked(s, i) == IsLocked(locks, RefreshLockName(s, i))

\* Mutant: the lock is written with a longer expiration than the export

\* timeout.
AcquireLockLongTimeout(id, s, i) ==
    IF CanLock(locks, RefreshLockName(s, i))
    THEN Lock(locks, RefreshLockName(s, i), id, ExportLockTimeout + 1)
    ELSE locks
\* acquire_lock(lock_id, schema_type, ingest_instance): lock() writes the
\* lock when it is not held; when it is, the existing payload is read and
\* the call raises unless it equals lock_id.  The lock table after the call:
AcquireLock(id, s, i) ==
    IF CanLock(locks, RefreshLockName(s, i))
    THEN Lock(locks, RefreshLockName(s, i), id, ExportLockTimeout)
    ELSE locks
\* ... and whether it returned without raising.
AcquireLockSucceeds(id, s, i) ==
    \/ CanLock(locks, RefreshLockName(s, i))
    \/ LockPayload(locks, RefreshLockName(s, i)) = id

\* Mutant: a STATE refresh does not wait for normalization.
NormalizationBlocksNever(s, i) == FALSE

\* can_proceed's first read (lines 98-111): a STATE refresh waits while the
\* normalized-state update of the instance holds its lock.
NormalizationBlocks(s, i) ==
    s = StateSchema /\ IsLocked(locks, NormalizationLockName(i))

\* can_proceed's second read (no_active_locks_with_prefix, lines 113-126 and
\* 129-148): STATE and OPERATIONS wait for every extract-and-merge lock of
\* the instance.
IngestBlocks(i) == ~NoActiveLocksIn(locks, {IngestLockName(r, i) : r \in Regions})

\* A new checklist run of job j generates a lock_id and calls acquire_lock;
\* a conflict raises and ends the run.
StartRefresh(j) ==
    LET s == JobTarget[j][1]
        i == JobTarget[j][2]
        id == LockId(j, run[j] + 1)
    IN /\ job[j] = "idle"
       /\ run[j] < MaxRuns
       /\ run' = [run EXCEPT ![j] = @ + 1]
       /\ locks' = AcquireLock(id, s, i)
       /\ job' = [job EXCEPT ![j] = IF AcquireLockSucceeds(id, s, i)
                                   THEN "acquired" ELSE "idle"]
       /\ UNCHANGED <<ingest, norm>>

\* The run calls acquire_lock again with its own lock_id, to keep the lock
\* from expiring while it waits.
RenewLock(j) ==
    LET s == JobTarget[j][1]
        i == JobTarget[j][2]
        id == LockId(j, run[j])
    IN /\ job[j] = "acquired"
       /\ locks' = AcquireLock(id, s, i)
       /\ job' = [job EXCEPT ![j] = IF AcquireLockSucceeds(id, s, i)
                                   THEN "acquired" ELSE "idle"]
       /\ UNCHANGED <<run, ingest, norm>>

\* Mutant: can_proceed without its is_locked check.
CanProceedWithoutLockCheck(j) ==
    LET s == JobTarget[j][1]
        i == JobTarget[j][2]
    IN /\ job[j] = "acquired"
       /\ job' = [job EXCEPT ![j] =
                    CASE s \notin {StateSchema, OperationsSchema} -> "exporting"
                      [] NormalizationBlocks(s, i) -> "acquired"
                      [] OTHER -> "checkingIngest"]
       /\ UNCHANGED <<locks, run, ingest, norm>>

\* can_proceed up to its second read: it raises GCSPseudoLockDoesNotExist
\* (ending the run) when the refresh lock is not held, returns True for a
\* schema nothing blocks, and returns False (the run polls again, a stutter)
\* when a STATE refresh finds the normalization lock held.  Otherwise the
\* call goes on to read the ingest locks in a separate GCS call.
CanProceed(j) ==
    LET s == JobTarget[j][1]
        i == JobTarget[j][2]
    IN /\ job[j] = "acquired"
       /\ \/ /\ ~IsRefreshLocked(s, i)
             /\ job' = [job EXCEPT ![j] = "idle"]
          \/ /\ IsRefreshLocked(s, i)
             /\ job' = [job EXCEPT ![j] =
                          CASE s \notin {StateSchema, OperationsSchema} -> "exporting"
                            [] NormalizationBlocks(s, i) -> "acquired"
                            [] OTHER -> "checkingIngest"]
       /\ UNCHANGED <<locks, run, ingest, norm>>

\* can_proceed's read of the extract-and-merge locks: True (the run
\* exports) when none is active, False (the run polls again) otherwise.
CanProceedIngestCheck(j) ==
    /\ job[j] = "checkingIngest"
    /\ job' = [job EXCEPT ![j] =
                 IF IngestBlocks(JobTarget[j][2]) THEN "acquired" ELSE "exporting"]
    /\ UNCHANGED <<locks, run, ingest, norm>>

\* The export is done and the run calls release_lock.
ReleaseLock(j) ==
    /\ job[j] = "exporting"
    /\ locks' = Unlock(locks, RefreshLockName(JobTarget[j][1], JobTarget[j][2]))
    /\ job' = [job EXCEPT ![j] = "idle"]
    /\ UNCHANGED <<run, ingest, norm>>

\* The run dies; its lock stays until it expires.
RefreshCrash(j) ==
    /\ job[j] \in {"acquired", "checkingIngest", "exporting"}
    /\ job' = [job EXCEPT ![j] = "idle"]
    /\ UNCHANGED <<locks, run, ingest, norm>>

-----------------------------------------------------------------------------
(* Ingest extract-and-merge and normalized-state update (from the spec)    *)

\* The refresh locks each process yields to: extract-and-merge writes both
\* the STATE and OPERATIONS databases; normalization reads STATE.
IngestYieldsTo(i) == {RefreshLockName(s, i) : s \in {StateSchema, OperationsSchema}}
NormalizationYieldsTo(i) == {RefreshLockName(StateSchema, i)}

\* A process takes its own lock (lock() raises if it is still held).
IngestAnnounce(p) ==
    /\ ingest[p] = "idle"
    /\ CanLock(locks, IngestLockName(p[1], p[2]))
    /\ locks' = Lock(locks, IngestLockName(p[1], p[2]), ProcessPayload,
                     IngestLockTimeout)
    /\ ingest' = [ingest EXCEPT ![p] = "announced"]
    /\ UNCHANGED <<job, run, norm>>

\* It then looks for the refresh locks: it backs off if one is held and
\* starts writing otherwise.
IngestCheck(p) ==
    /\ ingest[p] = "announced"
    /\ IF NoActiveLocksIn(locks, IngestYieldsTo(p[2]))
       THEN /\ ingest' = [ingest EXCEPT ![p] = "running"]
            /\ UNCHANGED locks
       ELSE /\ ingest' = [ingest EXCEPT ![p] = "idle"]
            /\ locks' = Unlock(locks, IngestLockName(p[1], p[2]))
    /\ UNCHANGED <<job, run, norm>>

IngestFinish(p) ==
    /\ ingest[p] = "running"
    /\ locks' = Unlock(locks, IngestLockName(p[1], p[2]))
    /\ ingest' = [ingest EXCEPT ![p] = "idle"]
    /\ UNCHANGED <<job, run, norm>>

IngestCrash(p) ==
    /\ ingest[p] \in {"announced", "running"}
    /\ ingest' = [ingest EXCEPT ![p] = "idle"]
    /\ UNCHANGED <<locks, job, run, norm>>

NormalizationAnnounce(i) ==
    /\ norm[i] = "idle"
    /\ CanLock(locks, NormalizationLockName(i))
    /\ locks' = Lock(locks, NormalizationLockName(i), ProcessPayload,
                     NormalizationLockTimeout)
    /\ norm' = [norm EXCEPT ![i] = "announced"]
    /\ UNCHANGED <<job, run, ingest>>

NormalizationCheck(i) ==
    /\ norm[i] = "announced"
    /\ IF NoActiveLocksIn(locks, NormalizationYieldsTo(i))
       THEN /\ norm' = [norm EXCEPT ![i] = "running"]
            /\ UNCHANGED locks
       ELSE /\ norm' = [norm EXCEPT ![i] = "idle"]
            /\ locks' = Unlock(locks, NormalizationLockName(i))
    /\ UNCHANGED <<job, run, ingest>>

NormalizationFinish(i) ==
    /\ norm[i] = "running"
    /\ locks' = Unlock(locks, NormalizationLockName(i))
    /\ norm' = [norm EXCEPT ![i] = "idle"]
    /\ UNCHANGED <<job, run, ingest>>

NormalizationCrash(i) ==
    /\ norm[i] \in {"announced", "running"}
    /\ norm' = [norm EXCEPT ![i] = "idle"]
    /\ UNCHANGED <<locks, job, run, ingest>>

-----------------------------------------------------------------------------
(* Time                                                                    *)

\* The locks the live processes doing work rely on: an exporting refresh,
\* or one in the middle of a can_proceed call, on its refresh lock; a
\* writer that has announced itself or is running on its own lock.
WorkingLocks ==
    {RefreshLockName(JobTarget[j][1], JobTarget[j][2]) :
        j \in {k \in Jobs : job[k] \in {"checkingIngest", "exporting"}}}
      \cup {IngestLockName(p[1], p[2]) : p \in {q \in Procs : ingest[q] # "idle"}}
      \cup {NormalizationLockName(i) : i \in {k \in Instances : norm[k] # "idle"}}

\* A tick of the clock.  Under HoldersFinishInTime a process doing work is
\* assumed to finish before its lock expires (the assumption stated in
\* _export_lock_timeout_for_schema); a waiting refresh and a crashed
\* process get no such promise.
Tick ==
    /\ \E n \in LockNames : IsLocked(locks, n)
    /\ HoldersFinishInTime => \A n \in WorkingLocks : locks[n].ttl > 1
    /\ locks' = Elapse(locks)
    /\ UNCHANGED <<job, run, ingest, norm>>

-----------------------------------------------------------------------------
Init ==
    /\ locks = [n \in LockNames |-> NoLock]
    /\ job = [j \in Jobs |-> "idle"]
    /\ run = [j \in Jobs |-> 0]
    /\ ingest = [p \in Procs |-> "idle"]
    /\ norm = [i \in Instances |-> "idle"]

Next ==
    \/ \E j \in Jobs :
         \/ StartRefresh(j) \/ RenewLock(j) \/ CanProceed(j)
         \/ CanProceedIngestCheck(j)
         \/ ReleaseLock(j) \/ RefreshCrash(j)
    \/ \E p \in Procs :
         IngestAnnounce(p) \/ IngestCheck(p) \/ IngestFinish(p) \/ IngestCrash(p)
    \/ \E i \in Instances :
         \/ NormalizationAnnounce(i) \/ NormalizationCheck(i)
         \/ NormalizationFinish(i) \/ NormalizationCrash(i)
    \/ Tick

Spec == Init /\ [][Next]_vars

-----------------------------------------------------------------------------
(* Properties                                                              *)

\* The refresh never reads a database a blocking process is writing: while
\* a job exports (s, i), no extract-and-merge of instance i runs (for STATE
\* and OPERATIONS), and no normalization of instance i runs (for STATE).
\* This is what acquire_lock + can_proceed exist for.
RefreshExclusion ==
    \A j \in Jobs : job[j] = "exporting" =>
        LET s == JobTarget[j][1]
            i == JobTarget[j][2]
        IN /\ s \in {StateSchema, OperationsSchema} =>
                 \A r \in Regions : ingest[<<r, i>>] # "running"
           /\ s = StateSchema => norm[i] # "running"

\* A job that exports holds the refresh lock itself: the lock is live and
\* carries the lock_id of the job's run (spec 3: a pseudo-lock is owned by
\* the process whose payload it holds).  can_proceed only asks whether the
\* lock exists, so this is about what else keeps the lock the job's own.
ExportingHoldsOwnLock ==
    \A j \in Jobs : job[j] = "exporting" =>
        LET n == RefreshLockName(JobTarget[j][1], JobTarget[j][2])
        IN IsLocked(locks, n) /\ LockPayload(locks, n) = LockId(j, run[j])

\* The refinement mapping: a job exports, a process writes, exactly when
\* the detailed state says so; locks, runs and announcements are hidden.
Abs == INSTANCE RefreshWriterExclusion WITH
         exporting <- {j \in Jobs : job[j] = "exporting"},
         ingestRunning <- {p \in Procs : ingest[p] = "running"},
         normRunning <- {i \in Instances : norm[i] = "running"}

\* acquire_lock, the two reads of can_proceed and release_lock, together
\* with the writers' announce-then-check, implement the exclusion of spec
\* 4.4 step by step: every step either leaves the exporting and writing
\* sets alone or starts or stops one activity that RefreshWriterExclusion
\* allows, so a writer announcing between the normalization read and the
\* ingest read of can_proceed, or after both, still never overlaps an
\* export that conflicts with it.
ImplementsRefreshWriterExclusion == Abs!Spec
=============================================================================
