--------------------------- MODULE ConnectionPool ---------------------------
(***************************************************************************)
(* Requests of one process sharing the database connections and the catalog  *)
(* lock.  A transaction takes a connection and, on it, the advisory lock.     *)
(* Creating or replacing a roadmap then asks the pool for a second           *)
(* connection, twice, while it holds the lock: validateRoadmapSelection and   *)
(* getCoursesForExistingRoadmap read through the DataSource, not through the  *)
(* transaction.  The pool has no time limit: databaseOptions sets neither its *)
(* size nor a timeout, so the driver's defaults hold.                        *)
(***************************************************************************)
EXTENDS Naturals, Sequences, FiniteSets

CONSTANTS ListRequests,    \* create or replace a roadmap's list
          CatalogWrites,   \* write the catalog
          Reads,           \* run one query and no transaction
          PoolSize,        \* connections of the pool
          Nobody

Locking == ListRequests \cup CatalogWrites
Requests == Locking \cup Reads

ASSUME PoolAssumption ==
  /\ PoolSize \in Nat \ {0}
  /\ IsFiniteSet(Requests)
  /\ Nobody \notin Requests
  /\ Locking \cap Reads = {}

VARIABLES phase,       \* phase[r]: where request r is
          left,        \* left[r]: second connections a list request still needs
          waiting,     \* the pool's queue, first come first served
          lockQueue,   \* the queue of the advisory lock
          holder       \* who holds the lock

vars == <<phase, left, waiting, lockQueue, holder>>

\* Requests with a connection of their own, and with a second one.
Connected == {r \in Requests :
                phase[r] \in {"locking", "working", "borrowing", "querying", "reading"}}
Borrowing == {r \in Requests : phase[r] = "querying"}
Used == Cardinality(Connected) + Cardinality(Borrowing)

Init ==
  /\ phase = [r \in Requests |-> "idle"]
  /\ left = [r \in Requests |-> 0]
  /\ waiting = <<>>
  /\ lockQueue = <<>>
  /\ holder = Nobody

\* A request arrives and asks the pool for a connection.
Arrive(r) ==
  /\ phase[r] = "idle"
  /\ phase' = [phase EXCEPT ![r] = "connecting"]
  /\ left' = [left EXCEPT ![r] = IF r \in ListRequests THEN 2 ELSE 0]
  /\ waiting' = Append(waiting, r)
  /\ UNCHANGED <<lockQueue, holder>>

\* Faulty variant: the pool lends more than it has.
ConnectOverLimit ==
  /\ waiting # <<>>
  /\ LET r == Head(waiting) IN
       /\ phase' = [phase EXCEPT ![r] =
                      IF @ = "borrowing" THEN "querying"
                      ELSE IF r \in Reads THEN "reading" ELSE "locking"]
       /\ lockQueue' = IF phase[r] = "connecting" /\ r \in Locking
                       THEN Append(lockQueue, r) ELSE lockQueue
  /\ waiting' = Tail(waiting)
  /\ UNCHANGED <<left, holder>>

\* Faulty variant: a single query runs in a transaction with the lock as well.
ConnectLockingReads ==
  /\ waiting # <<>>
  /\ Used < PoolSize
  /\ LET r == Head(waiting) IN
       /\ phase' = [phase EXCEPT ![r] = IF @ = "borrowing" THEN "querying" ELSE "locking"]
       /\ lockQueue' = IF phase[r] = "connecting" THEN Append(lockQueue, r) ELSE lockQueue
  /\ waiting' = Tail(waiting)
  /\ UNCHANGED <<left, holder>>

\* The pool gives a free connection to the first of its queue: a new request
\* starts its query or its BEGIN and the lock statement, one that borrows reads.
Connect ==
  /\ waiting # <<>>
  /\ Used < PoolSize
  /\ LET r == Head(waiting) IN
       /\ phase' = [phase EXCEPT ![r] =
                      IF @ = "borrowing" THEN "querying"
                      ELSE IF r \in Reads THEN "reading" ELSE "locking"]
       /\ lockQueue' = IF phase[r] = "connecting" /\ r \in Locking
                       THEN Append(lockQueue, r) ELSE lockQueue
  /\ waiting' = Tail(waiting)
  /\ UNCHANGED <<left, holder>>

\* The database grants the lock to the first of its queue.
GetLock ==
  /\ lockQueue # <<>>
  /\ holder = Nobody
  /\ holder' = Head(lockQueue)
  /\ phase' = [phase EXCEPT ![Head(lockQueue)] = "working"]
  /\ lockQueue' = Tail(lockQueue)
  /\ UNCHANGED <<left, waiting>>

\* A list request reads the catalog from inside its transaction.
Borrow(r) ==
  /\ phase[r] = "working"
  /\ left[r] > 0
  /\ left' = [left EXCEPT ![r] = @ - 1]
  /\ phase' = [phase EXCEPT ![r] = "borrowing"]
  /\ waiting' = Append(waiting, r)
  /\ UNCHANGED <<lockQueue, holder>>

\* The read is over and its connection free again.
EndQuery(r) ==
  /\ phase[r] = "querying"
  /\ phase' = [phase EXCEPT ![r] = "working"]
  /\ UNCHANGED <<left, waiting, lockQueue, holder>>

\* Faulty variant: the lock is a session lock, which a rollback does not release.
EndTransactionKeepingLock(r) ==
  /\ phase[r] = "working"
  /\ phase' = [phase EXCEPT ![r] = "idle"]
  /\ UNCHANGED <<left, waiting, lockQueue>>
  /\ holder' = IF left[r] = 0 THEN Nobody ELSE holder

\* COMMIT after the last read, or ROLLBACK earlier: connection and lock are free.
EndTransaction(r) ==
  /\ phase[r] = "working"
  /\ phase' = [phase EXCEPT ![r] = "idle"]
  /\ holder' = Nobody
  /\ UNCHANGED <<left, waiting, lockQueue>>

EndRead(r) ==
  /\ phase[r] = "reading"
  /\ phase' = [phase EXCEPT ![r] = "idle"]
  /\ UNCHANGED <<left, waiting, lockQueue, holder>>

Next ==
  \/ Connect
  \/ GetLock
  \/ \E r \in Requests :
       Arrive(r) \/ Borrow(r) \/ EndQuery(r) \/ EndTransaction(r) \/ EndRead(r)

\* The pool, the database and a running handler go on; nobody has to send requests.
Fairness ==
  /\ WF_vars(Connect)
  /\ WF_vars(GetLock)
  /\ \A r \in Requests : WF_vars(Borrow(r) \/ EndQuery(r) \/ EndTransaction(r) \/ EndRead(r))

Spec == Init /\ [][Next]_vars /\ Fairness

-----------------------------------------------------------------------------
(* Properties.                                                             *)

\* Every variable has its type, the pool never lends more than it has, and each
\* queue holds exactly the requests that wait in it, once.
TypeOK ==
  /\ phase \in [Requests -> {"idle", "connecting", "locking", "working",
                             "borrowing", "querying", "reading"}]
  /\ left \in [Requests -> 0..2]
  /\ holder \in Locking \cup {Nobody}
  /\ Used <= PoolSize
  /\ {waiting[i] : i \in DOMAIN waiting} =
       {r \in Requests : phase[r] \in {"connecting", "borrowing"}}
  /\ {lockQueue[i] : i \in DOMAIN lockQueue} = {r \in Requests : phase[r] = "locking"}
  /\ Len(waiting) + Len(lockQueue) = Cardinality(
       {r \in Requests : phase[r] \in {"connecting", "borrowing", "locking"}})
  /\ \A r \in Requests :
       holder = r <=> phase[r] \in {"working", "borrowing", "querying"}

\* When the lock holder waits for its second connection, some connection is free
\* or in the hands of a request that waits for nobody.  Otherwise the holder waits
\* for the others and they for the holder, and the process answers nothing more.
HolderCanGoOn ==
  \A r \in Requests : phase[r] = "borrowing" =>
    Used < PoolSize \/ \E d \in Connected : phase[d] = "reading"

\* Every request that arrives is answered.
EveryRequestAnswered ==
  \A r \in Requests : phase[r] = "connecting" ~> phase[r] = "idle"
=============================================================================
