------------------------ MODULE ConnectionPoolProofs ------------------------
(***************************************************************************)
(* For every number of requests and connections: the queues and the phases   *)
(* fit together, and with fewer requests that take the lock than connections *)
(* the holder of the lock can always go on.                                 *)
(***************************************************************************)
EXTENDS ConnectionPool, FiniteSetTheorems, SequenceTheorems, TLAPS

Phases == {"idle", "connecting", "locking", "working", "borrowing", "querying", "reading"}

\* Single queries never take the lock, transactions never read as they do, and
\* only the lock holder works in its transaction.
Inv ==
  /\ phase \in [Requests -> Phases]
  /\ waiting \in Seq(Requests)
  /\ lockQueue \in Seq(Locking)
  /\ \A r \in Reads : phase[r] \in {"idle", "connecting", "reading"}
  /\ \A r \in Requests : phase[r] \in {"working", "borrowing", "querying"} => holder = r

LEMMA InvInit == Init => Inv
BY DEF Init, Inv, Phases, Requests

LEMMA InvNext == Inv /\ [Next]_vars => Inv'
<1> SUFFICES ASSUME Inv, [Next]_vars PROVE Inv'
  OBVIOUS
<1> USE DEF Inv, Phases
<1>0. Reads \subseteq Requests /\ Locking \subseteq Requests /\ Locking \cap Reads = {}
      /\ Nobody \notin Requests
  BY PoolAssumption DEF Requests
<1>1. CASE Connect
  <2>1. Head(waiting) \in Requests /\ Tail(waiting) \in Seq(Requests)
    BY <1>1 DEF Connect
  <2>2. lockQueue' \in Seq(Locking)
    BY <1>1, <2>1 DEF Connect
  <2>3. /\ phase' \in [Requests -> Phases]
        /\ \A r \in Reads : phase'[r] \in {"idle", "connecting", "reading"}
    BY <1>0, <1>1, <2>1 DEF Connect
  <2>4. \A r \in Requests : phase'[r] \in {"working", "borrowing", "querying"} => holder' = r
    BY <1>1, <2>1 DEF Connect
  <2> QED
    BY <1>1, <2>1, <2>2, <2>3, <2>4 DEF Connect
<1>2. CASE GetLock
  <2>1. Head(lockQueue) \in Locking /\ Tail(lockQueue) \in Seq(Locking)
    BY <1>2 DEF GetLock
  <2> QED
    BY <1>0, <1>2, <2>1 DEF GetLock
<1>3. ASSUME NEW r \in Requests, Arrive(r)
      PROVE  Inv'
  BY <1>0, <1>3 DEF Arrive
<1>4. ASSUME NEW r \in Requests, Borrow(r)
      PROVE  Inv'
  BY <1>0, <1>4 DEF Borrow
<1>5. ASSUME NEW r \in Requests, EndQuery(r)
      PROVE  Inv'
  BY <1>0, <1>5 DEF EndQuery
<1>6. ASSUME NEW r \in Requests, EndTransaction(r)
      PROVE  Inv'
  BY <1>0, <1>6 DEF EndTransaction
<1>7. ASSUME NEW r \in Requests, EndRead(r)
      PROVE  Inv'
  BY <1>0, <1>7 DEF EndRead
<1>8. CASE UNCHANGED vars
  BY <1>8 DEF vars
<1> QED
  BY <1>1, <1>2, <1>3, <1>4, <1>5, <1>6, <1>7, <1>8 DEF Next

-----------------------------------------------------------------------------
\* While a request waits for a second connection nobody holds one, so the
\* connections in use are one per request; the requests that take the lock cannot
\* fill the pool, so one is free or a single query has it.
THEOREM HolderNeverStuck ==
  ASSUME Cardinality(Locking) < PoolSize
  PROVE  Spec => []HolderCanGoOn
<1>1. Inv => HolderCanGoOn
  <2> SUFFICES ASSUME Inv, NEW r \in Requests, phase[r] = "borrowing",
                      \A d \in Connected : phase[d] # "reading"
               PROVE  Used < PoolSize
    BY DEF HolderCanGoOn
  <2>1. Borrowing = {}
    BY DEF Inv, Borrowing
  <2>2. Connected \subseteq Locking
    BY DEF Inv, Connected, Requests
  <2>3. IsFiniteSet(Locking)
    <3>1. Locking \subseteq Requests
      BY DEF Requests
    <3> QED
      BY <3>1, PoolAssumption, FS_Subset
  <2>4. /\ Cardinality(Connected) \in Nat /\ Cardinality(Locking) \in Nat
        /\ Cardinality(Connected) <= Cardinality(Locking)
    BY <2>2, <2>3, FS_Subset, FS_CardinalityType
  <2>5. Cardinality(Borrowing) = 0
    BY <2>1, FS_EmptySet
  <2> QED
    BY <2>4, <2>5, PoolAssumption DEF Used
<1> QED
  BY <1>1, InvInit, InvNext, PTL DEF Spec

-----------------------------------------------------------------------------
(* The queues and the connections in use.                                   *)

\* q is a queue in which each member of S waits once.
Queues(q, S) ==
  /\ q \in Seq(Requests)
  /\ {q[i] : i \in DOMAIN q} = S
  /\ \A i, j \in DOMAIN q : q[i] = q[j] => i = j

LEMMA Joins ==
  ASSUME NEW q, NEW S, Queues(q, S), NEW r \in Requests \ S
  PROVE  Queues(Append(q, r), S \cup {r})
<1>. DEFINE p == Append(q, r)
<1>1. /\ q \in Seq(Requests) /\ p \in Seq(Requests)
      /\ DOMAIN q = 1 .. Len(q) /\ DOMAIN p = 1 .. (Len(q) + 1) /\ Len(q) \in Nat
      /\ p[Len(q) + 1] = r /\ \A i \in 1 .. Len(q) : p[i] = q[i]
  BY DEF Queues
<1>2. \A i \in DOMAIN p : i \in DOMAIN q \/ i = Len(q) + 1
  BY <1>1
<1>. HIDE DEF p
<1>3. {p[i] : i \in DOMAIN p} = S \cup {r}
  BY <1>1, <1>2 DEF Queues
<1>4. \A i, j \in DOMAIN p : p[i] = p[j] => i = j
  BY <1>1, <1>2 DEF Queues
<1>. QED BY <1>1, <1>3, <1>4 DEF Queues, p

LEMMA Leaves ==
  ASSUME NEW q, NEW S, Queues(q, S), q # << >>
  PROVE  Head(q) \in S /\ Queues(Tail(q), S \ {Head(q)})
<1>. DEFINE p == Tail(q)
<1>1. /\ q \in Seq(Requests) /\ p \in Seq(Requests) /\ Len(q) \in Nat \ {0}
      /\ DOMAIN q = 1 .. Len(q) /\ DOMAIN p = 1 .. (Len(q) - 1)
      /\ Head(q) = q[1] /\ \A i \in DOMAIN p : p[i] = q[i + 1]
  BY DEF Queues
<1>2. \A i \in DOMAIN q : i = 1 \/ (i - 1 \in DOMAIN p /\ (i - 1) + 1 = i)
  BY <1>1
<1>3. \A i \in DOMAIN p : i + 1 \in DOMAIN q /\ i + 1 # 1
  BY <1>1
<1>4. Head(q) \in S
  BY <1>1 DEF Queues
<1>. HIDE DEF p
<1>5. {p[i] : i \in DOMAIN p} = S \ {q[1]}
  <2>1. \A i \in DOMAIN p : p[i] \in S /\ p[i] # q[1]
    BY <1>1, <1>3 DEF Queues
  <2>2. ASSUME NEW x \in S, x # q[1] PROVE \E i \in DOMAIN p : p[i] = x
    <3>1. PICK i \in DOMAIN q : q[i] = x
      BY DEF Queues
    <3>2. i - 1 \in DOMAIN p /\ p[i - 1] = q[(i - 1) + 1] /\ (i - 1) + 1 = i
      BY <1>1, <1>2, <2>2, <3>1
    <3>. QED BY <3>1, <3>2
  <2>. QED BY <2>1, <2>2
<1>6. \A i, j \in DOMAIN p : p[i] = p[j] => i = j
  <2>. SUFFICES ASSUME NEW i \in DOMAIN p, NEW j \in DOMAIN p, p[i] = p[j] PROVE i = j
    OBVIOUS
  <2>1. i + 1 = j + 1
    BY <1>1, <1>3 DEF Queues
  <2>. QED BY <1>1, <2>1
<1>. QED BY <1>1, <1>4, <1>5, <1>6 DEF Queues, p

LEMMA QueueLength ==
  ASSUME NEW q, NEW S, Queues(q, S)
  PROVE  IsFiniteSet(S) /\ Len(q) = Cardinality(S)
<1>1. DOMAIN q = 1 .. Len(q) /\ Len(q) \in Nat
  BY DEF Queues
<1>2. IsFiniteSet(1 .. Len(q)) /\ Cardinality(1 .. Len(q)) = Len(q)
  <2>1. ASSUME NEW n \in Nat PROVE IsFiniteSet(1 .. n) /\ Cardinality(1 .. n) = n
    BY FS_Interval
  <2>. QED BY <1>1, <2>1
<1>3. q \in [1 .. Len(q) -> S]
  <2>1. q = [i \in 1 .. Len(q) |-> q[i]]
    BY <1>1 DEF Queues
  <2>. QED BY <1>1, <2>1 DEF Queues
<1>4. q \in Bijection(1 .. Len(q), S)
  BY <1>1, <1>3 DEF Queues, Bijection, Injection, Surjection, IsInjective
<1>. QED BY <1>2, <1>4, FS_Bijection DEF ExistsBijection

\* Who asks the pool for a connection, and who asks the database for the lock.
Asking == {r \in Requests : phase[r] \in {"connecting", "borrowing"}}
Locked == {r \in Requests : phase[r] = "locking"}

PoolInv ==
  /\ Inv
  /\ left \in [Requests -> 0 .. 2]
  /\ holder \in Locking \cup {Nobody}
  /\ \A r \in Requests : holder = r => phase[r] \in {"working", "borrowing", "querying"}
  /\ Used <= PoolSize
  /\ Queues(waiting, Asking)
  /\ Queues(lockQueue, Locked)

\* The connections of a finite set of requests can be counted.
LEMMA Countable ==
  /\ IsFiniteSet(Connected) /\ Cardinality(Connected) \in Nat
  /\ IsFiniteSet(Borrowing) /\ Cardinality(Borrowing) \in Nat
<1>1. Connected \in SUBSET Requests /\ Borrowing \in SUBSET Requests
  BY DEF Connected, Borrowing
<1>. QED BY <1>1, PoolAssumption, FS_Subset, FS_CardinalityType

LEMMA OneMore ==
  ASSUME NEW S, IsFiniteSet(S), NEW x
  PROVE  Cardinality(S \cup {x}) \in Nat /\ Cardinality(S \cup {x}) <= Cardinality(S) + 1
<1>1. Cardinality(S) \in Nat /\ Cardinality(S \cup {x}) \in Nat
  BY FS_AddElement, FS_CardinalityType
<1>2. Cardinality(S \cup {x}) = IF x \in S THEN Cardinality(S) ELSE Cardinality(S) + 1
  BY FS_AddElement
<1>. QED BY <1>1, <1>2

\* A step that lends no connection does not use more of them.
LEMMA NothingLent ==
  ASSUME Connected' \subseteq Connected, Borrowing' \subseteq Borrowing
  PROVE  Used' <= Used
<1>1. /\ Cardinality(Connected') \in Nat
      /\ Cardinality(Connected') <= Cardinality(Connected)
  BY Countable, FS_Subset, FS_CardinalityType
<1>2. /\ Cardinality(Borrowing') \in Nat
      /\ Cardinality(Borrowing') <= Cardinality(Borrowing)
  BY Countable, FS_Subset, FS_CardinalityType
<1>. QED BY <1>1, <1>2, Countable DEF Used

LEMMA PoolInvInit == Init => PoolInv
<1>. SUFFICES ASSUME Init PROVE PoolInv
  OBVIOUS
<1>1. Connected = {} /\ Borrowing = {} /\ Asking = {} /\ Locked = {}
  BY DEF Init, Connected, Borrowing, Asking, Locked
<1>2. Used = 0
  BY <1>1, FS_EmptySet DEF Used
<1>3. Queues(<< >>, {})
  BY DEF Queues
<1>4. PoolSize \in Nat /\ 0 <= PoolSize /\ Nobody \notin Requests
  BY PoolAssumption
<1>. QED BY <1>1, <1>2, <1>3, <1>4, InvInit DEF Init, PoolInv

LEMMA PoolInvNext == PoolInv /\ [Next]_vars => PoolInv'
<1>. SUFFICES ASSUME PoolInv, [Next]_vars PROVE PoolInv'
  OBVIOUS
<1>0. Inv'
  BY InvNext DEF PoolInv
<1>9. /\ phase \in [Requests -> Phases] /\ phase' \in [Requests -> Phases]
      /\ Nobody \notin Requests /\ Locking \subseteq Requests /\ Locking \cap Reads = {}
      /\ ListRequests \subseteq Locking /\ Used \in Nat /\ PoolSize \in Nat
      /\ Requests = Locking \cup Reads
  BY <1>0, PoolAssumption, Countable DEF PoolInv, Inv, Requests, Locking, Used
<1>1. CASE Connect
  <2>. DEFINE r == Head(waiting)
  <2>1. /\ r \in Asking /\ r \in Requests /\ Queues(Tail(waiting), Asking \ {r})
        /\ Used < PoolSize /\ UNCHANGED <<left, holder>> /\ waiting' = Tail(waiting)
    BY <1>1, Leaves, ZenonT(30) DEF Connect, PoolInv, Asking
  <2>. HIDE DEF r
  <2>2. phase' = [phase EXCEPT ![r] = IF @ = "borrowing" THEN "querying"
                                     ELSE IF r \in Reads THEN "reading" ELSE "locking"]
    BY <1>1 DEF Connect, r
  <2>3. lockQueue' = IF phase[r] = "connecting" /\ r \in Locking
                     THEN Append(lockQueue, r) ELSE lockQueue
    BY <1>1 DEF Connect, r
  <2>4. Asking' = Asking \ {r}
    BY <1>9, <2>1, <2>2 DEF Asking
  <2>5. Queues(lockQueue', Locked')
    <3>1. CASE phase[r] = "connecting" /\ r \in Locking
      <4>1. Locked' = Locked \cup {r} /\ r \notin Locked
        BY <1>9, <2>1, <2>2, <3>1 DEF Locked
      <4>. QED BY <2>1, <2>3, <3>1, <4>1, Joins DEF PoolInv
    <3>2. CASE ~(phase[r] = "connecting" /\ r \in Locking)
      <4>1. Locked' = Locked
        BY <1>9, <2>1, <2>2, <3>2 DEF Locked, Asking
      <4>. QED BY <2>3, <3>2, <4>1 DEF PoolInv
    <3>. QED BY <3>1, <3>2
  <2>6. Used' <= PoolSize
    <3>1. CASE phase[r] = "connecting"
      <4>1. Connected' = Connected \cup {r} /\ Borrowing' = Borrowing
        BY <1>9, <2>1, <2>2, <3>1 DEF Connected, Borrowing
      <4>2. Cardinality(Connected') \in Nat /\ Cardinality(Connected') <= Cardinality(Connected) + 1
        BY <4>1, Countable, OneMore
      <4>. QED BY <1>9, <2>1, <4>1, <4>2, Countable DEF Used
    <3>2. CASE phase[r] = "borrowing"
      <4>1. Connected' = Connected /\ Borrowing' = Borrowing \cup {r}
        BY <1>9, <2>1, <2>2, <3>2 DEF Connected, Borrowing
      <4>2. Cardinality(Borrowing') \in Nat /\ Cardinality(Borrowing') <= Cardinality(Borrowing) + 1
        BY <4>1, Countable, OneMore
      <4>. QED BY <1>9, <2>1, <4>1, <4>2, Countable DEF Used
    <3>. QED BY <2>1, <3>1, <3>2 DEF Asking
  <2>7. \A s \in Requests : holder' = s => phase'[s] \in {"working", "borrowing", "querying"}
    <3>1. phase[r] \in {"connecting", "borrowing"}
      BY <2>1 DEF Asking
    <3>. QED BY <1>9, <2>1, <2>2, <3>1 DEF PoolInv
  <2>. QED BY <1>0, <2>1, <2>4, <2>5, <2>6, <2>7 DEF PoolInv
<1>2. CASE GetLock
  <2>. DEFINE r == Head(lockQueue)
  <2>1. /\ r \in Locked /\ r \in Requests /\ Queues(Tail(lockQueue), Locked \ {r})
        /\ UNCHANGED <<left, waiting>> /\ holder = Nobody /\ holder' = r
        /\ lockQueue' = Tail(lockQueue)
    BY <1>2, Leaves, ZenonT(30) DEF GetLock, PoolInv, Locked
  <2>. HIDE DEF r
  <2>2. phase' = [phase EXCEPT ![r] = "working"]
    BY <1>2 DEF GetLock, r
  <2>3. Asking' = Asking /\ Locked' = Locked \ {r} /\ Connected' = Connected
        /\ Borrowing' = Borrowing
    BY <1>9, <2>1, <2>2 DEF Asking, Locked, Connected, Borrowing
  <2>4. r \in Locking
    BY <1>9, <2>1 DEF Locked, PoolInv, Inv
  <2>5. \A s \in Requests : holder' = s => phase'[s] \in {"working", "borrowing", "querying"}
    BY <1>9, <2>1, <2>2
  <2>. QED BY <1>0, <2>1, <2>3, <2>4, <2>5 DEF PoolInv, Used
<1>3. ASSUME NEW r \in Requests, Arrive(r) PROVE PoolInv'
  <2>1. /\ Asking' = Asking \cup {r} /\ r \notin Asking /\ Locked' = Locked
        /\ Connected' = Connected /\ Borrowing' = Borrowing
    BY <1>3, <1>9 DEF Arrive, Asking, Locked, Connected, Borrowing
  <2>2. Queues(waiting', Asking')
    BY <1>3, <2>1, Joins DEF Arrive, PoolInv
  <2>3. left' \in [Requests -> 0 .. 2]
    BY <1>3 DEF Arrive, PoolInv
  <2>4. \A s \in Requests : holder' = s => phase'[s] \in {"working", "borrowing", "querying"}
    BY <1>3, <1>9 DEF Arrive, PoolInv
  <2>. QED BY <1>0, <1>3, <2>1, <2>2, <2>3, <2>4 DEF PoolInv, Used, Arrive
<1>4. ASSUME NEW r \in Requests, Borrow(r) PROVE PoolInv'
  <2>1. /\ Asking' = Asking \cup {r} /\ r \notin Asking /\ Locked' = Locked
        /\ Connected' = Connected /\ Borrowing' = Borrowing
    BY <1>4, <1>9 DEF Borrow, Asking, Locked, Connected, Borrowing
  <2>2. Queues(waiting', Asking')
    BY <1>4, <2>1, Joins DEF Borrow, PoolInv
  <2>3. left' \in [Requests -> 0 .. 2]
    BY <1>4 DEF Borrow, PoolInv
  <2>4. \A s \in Requests : holder' = s => phase'[s] \in {"working", "borrowing", "querying"}
    BY <1>4, <1>9 DEF Borrow, PoolInv
  <2>. QED BY <1>0, <1>4, <2>1, <2>2, <2>3, <2>4 DEF PoolInv, Used, Borrow
<1>5. ASSUME NEW r \in Requests, EndQuery(r) \/ EndTransaction(r) \/ EndRead(r)
      PROVE  PoolInv'
  <2>1. /\ Asking' = Asking /\ Locked' = Locked
        /\ Connected' \subseteq Connected /\ Borrowing' \subseteq Borrowing
    BY <1>5, <1>9 DEF EndQuery, EndTransaction, EndRead, Asking, Locked, Connected, Borrowing
  <2>2. Used' <= PoolSize
    <3>1. Used' <= Used
      BY <2>1, NothingLent
    <3>2. Used' \in Nat
      <4>1. Cardinality(Connected') \in Nat /\ Cardinality(Borrowing') \in Nat
        BY <2>1, Countable, FS_Subset, FS_CardinalityType
      <4>. QED BY <4>1 DEF Used
    <3>. QED BY <1>9, <3>1, <3>2 DEF PoolInv
  <2>3. UNCHANGED <<left, waiting, lockQueue>>
    BY <1>5 DEF EndQuery, EndTransaction, EndRead
  <2>4. /\ holder' \in Locking \cup {Nobody}
        /\ \A s \in Requests : holder' = s => phase'[s] \in {"working", "borrowing", "querying"}
    BY <1>5, <1>9 DEF EndQuery, EndTransaction, EndRead, PoolInv
  <2>. QED BY <1>0, <2>1, <2>2, <2>3, <2>4 DEF PoolInv
<1>6. CASE UNCHANGED vars
  BY <1>0, <1>6 DEF vars, PoolInv, Used, Connected, Borrowing, Asking, Locked
<1>. QED BY <1>1, <1>2, <1>3, <1>4, <1>5, <1>6 DEF Next

\* For any number of requests and connections, the pool never lends more than it
\* has, each queue holds exactly those who wait in it, once, and the lock is held
\* by the request that works under it.
THEOREM PoolIsTyped == Spec => []TypeOK
<1>1. PoolInv => TypeOK
  <2>. SUFFICES ASSUME PoolInv PROVE TypeOK
    OBVIOUS
  <2>1. Len(waiting) + Len(lockQueue) = Cardinality(
          {r \in Requests : phase[r] \in {"connecting", "borrowing", "locking"}})
    <3>1. /\ IsFiniteSet(Asking) /\ Len(waiting) = Cardinality(Asking)
          /\ IsFiniteSet(Locked) /\ Len(lockQueue) = Cardinality(Locked)
      BY QueueLength DEF PoolInv
    <3>2. Asking \cap Locked = {}
      BY DEF Asking, Locked
    <3>3. Cardinality(Asking \cup Locked) = Cardinality(Asking) + Cardinality(Locked)
      <4>1. Cardinality(Asking \cup Locked)
              = Cardinality(Asking) + Cardinality(Locked) - Cardinality(Asking \cap Locked)
        BY <3>1, FS_Union
      <4>2. Cardinality(Asking \cap Locked) = 0
        BY <3>2, FS_EmptySet
      <4>. QED BY <3>1, <4>1, <4>2, FS_CardinalityType
    <3>4. {r \in Requests : phase[r] \in {"connecting", "borrowing", "locking"}}
            = Asking \cup Locked
      BY DEF Asking, Locked
    <3>. QED BY <3>1, <3>3, <3>4
  <2>2. \A r \in Requests : holder = r <=> phase[r] \in {"working", "borrowing", "querying"}
    BY DEF PoolInv, Inv
  <2>. QED BY <2>1, <2>2 DEF PoolInv, Inv, Phases, Queues, Asking, Locked, TypeOK
<1>. QED BY <1>1, PoolInvInit, PoolInvNext, PTL DEF Spec
=============================================================================
