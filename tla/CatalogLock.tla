----------------------------- MODULE CatalogLock -----------------------------
(***************************************************************************)
(* The catalog and advisory lock 1789600000, which the catalog's own writes, *)
(* the storing of a roadmap and the content import take.  CatalogTx shows    *)
(* that a write of the catalog under the lock is one atomic step, so only    *)
(* the other holders are named here.                                        *)
(***************************************************************************)
EXTENDS Catalog

CONSTANTS Holders,      \* transactions of several steps that take the lock
          NoHolder

ASSUME LockAssumption == NoHolder \notin Holders

VARIABLE lock     \* the holder of the lock

LockFree == lock = NoHolder

TakeLock(h) ==
  /\ LockFree
  /\ lock' = h

\* The transaction's end, COMMIT or ROLLBACK, releases the lock.
ReleaseLock(h) ==
  /\ lock = h
  /\ lock' = NoHolder
=============================================================================
