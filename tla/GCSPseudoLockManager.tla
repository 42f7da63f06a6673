------------------------- MODULE GCSPseudoLockManager -------------------------
(***************************************************************************)
(* The persisted-lock backend the Cloud SQL -> BQ lock manager is built   *)
(* on (recidiviz.cloud_storage.gcs_pseudo_lock_manager, not part of the   *)
(* sources here, so modelled from the spec, sections 3, 4.4 and 6).       *)
(*                                                                         *)
(* A lock table maps every lock name to a record [payload, ttl].  The     *)
(* expiration timestamp of a lock file is kept relative to the current    *)
(* time: ttl is the number of clock ticks left before it expires, and     *)
(* ttl = 0 is a lock that was never written, was deleted, or has expired  *)
(* (the backend treats an expired lock file exactly as an absent one).    *)
(***************************************************************************)
LOCAL INSTANCE Naturals

\* The payload of an absent lock.
CONSTANT NoPayload

NoLock == [payload |-> NoPayload, ttl |-> 0]

\* is_locked(name): a lock file exists and has not expired.
IsLocked(tbl, name) == tbl[name].ttl > 0

\* get_lock_payload(name)
LockPayload(tbl, name) == tbl[name].payload

\* lock(name, payload, expiration_in_seconds): writes the lock file.  The
\* caller must first find the lock not held; lock() raises
\* GCSPseudoLockAlreadyExists otherwise and writes nothing (see CanLock).
CanLock(tbl, name) == ~IsLocked(tbl, name)

Lock(tbl, name, payload, timeout) ==
    [tbl EXCEPT ![name] = [payload |-> payload, ttl |-> timeout]]

\* unlock(name): deletes the lock file, whoever wrote it.
Unlock(tbl, name) == [tbl EXCEPT ![name] = NoLock]

\* no_active_locks_with_prefix(prefix, instance): none of the named locks
\* (those whose name carries the prefix and the instance) is held.
NoActiveLocksIn(tbl, names) == \A n \in names : ~IsLocked(tbl, n)

\* One tick of wall-clock time: every lock moves one tick closer to its
\* expiration, and one that reaches it is treated as absent from then on.
Elapse(tbl) ==
    [n \in DOMAIN tbl |->
        IF tbl[n].ttl <= 1 THEN NoLock
        ELSE [tbl[n] EXCEPT !.ttl = @ - 1]]
=============================================================================
