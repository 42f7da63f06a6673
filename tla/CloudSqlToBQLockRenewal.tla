----------------------- MODULE CloudSqlToBQLockRenewal -----------------------
(***************************************************************************)
(* CloudSqlToBQLockManager with one history variable, sinceAcquire: the   *)
(* ticks since each waiting run last returned from acquire_lock.  A call  *)
(* of acquire_lock that finds the run's own lock writes nothing, so the   *)
(* promise that it renews the lock can only be stated against the time of *)
(* the call.                                                               *)
(***************************************************************************)
EXTENDS CloudSqlToBQLockManager

VARIABLE sinceAcquire

renewalVars == <<vars, sinceAcquire>>

\* Whether job j returned from acquire_lock in this step.
Acquired(j) == (StartRefresh(j) \/ RenewLock(j)) /\ job'[j] = "acquired"

RenewalInit == Init /\ sinceAcquire = [j \in Jobs |-> 0]

RenewalNext ==
    /\ Next
    /\ sinceAcquire' =
         [j \in Jobs |->
            IF Acquired(j) THEN 0
            ELSE IF Tick /\ sinceAcquire[j] < ExportLockTimeout
                 THEN sinceAcquire[j] + 1
                 ELSE sinceAcquire[j]]

RenewalSpec == RenewalInit /\ [][RenewalNext]_renewalVars

\* acquire_lock's docstring: called with the lock_id that holds the lock it
\* "refreshes the timeout of the lock".  So a waiting run that returned from
\* acquire_lock fewer than ExportLockTimeout ticks ago still holds its lock.
AcquireKeepsLockForTimeout ==
    \A j \in Jobs :
        (job[j] = "acquired" /\ sinceAcquire[j] < ExportLockTimeout) =>
            LET n == RefreshLockName(JobTarget[j][1], JobTarget[j][2])
            IN IsLocked(locks, n) /\ LockPayload(locks, n) = LockId(j, run[j])
=============================================================================
