------------------------------- MODULE RateLimit -------------------------------
(***************************************************************************)
(* RateLimitGuard: a fixed window per client address, method and route, kept *)
(* in the memory of the process.                                           *)
(***************************************************************************)
EXTENDS Integers, Sequences, FiniteSets

CONSTANTS Keys,       \* address:method:route
          Limit,      \* Limit[k]: requests a window of k admits
          Ttl,        \* Ttl[k]: length of its window
          PruneAt,    \* entries from which expired ones are removed (500)
          NoEntry,    \* k has no entry
          MaxTime     \* bound on the clock

ASSUME RateLimitAssumption ==
  /\ Limit \in [Keys -> Nat \ {0}]
  /\ Ttl \in [Keys -> Nat \ {0}]
  /\ PruneAt \in Nat
  /\ NoEntry \notin [count : Nat, resetAt : Nat]
  /\ MaxTime \in Nat

VARIABLES now,        \* Date.now()
          storage,    \* storage[k]: requests counted and the end of the window
          admitted    \* history: when this process admitted each request of k

limitVars == <<now, storage, admitted>>

RateLimitInit ==
  /\ now = 0
  /\ storage = [k \in Keys |-> NoEntry]
  /\ admitted = [k \in Keys |-> <<>>]

Live(k) == storage[k] # NoEntry /\ storage[k].resetAt > now

Crowded(s) == Cardinality({k \in Keys : s[k] # NoEntry}) >= PruneAt

\* Faulty variant: when the map is crowded it is emptied.
ClearStorage(s) == [k \in Keys |-> IF Crowded(s) THEN NoEntry ELSE s[k]]

\* pruneExpired.
PruneExpired(s) ==
  [k \in Keys |-> IF Crowded(s) /\ s[k] # NoEntry /\ s[k].resetAt <= now
                  THEN NoEntry ELSE s[k]]

Count(k, entry) ==
  /\ storage' = PruneExpired([storage EXCEPT ![k] = entry])
  /\ admitted' = [admitted EXCEPT ![k] = Append(@, now)]
  /\ UNCHANGED now

\* canActivate opens a window, or counts one more request in the open one.
Allow(k) ==
  \/ ~Live(k) /\ Count(k, [count |-> 1, resetAt |-> now + Ttl[k]])
  \/ /\ Live(k) /\ storage[k].count < Limit[k]
     /\ Count(k, [storage[k] EXCEPT !.count = @ + 1])

Full(k) == Live(k) /\ storage[k].count >= Limit[k]

\* Faulty variant: a refused request starts the wait again.
RefuseAndExtend(k) ==
  /\ Full(k)
  /\ storage' = [storage EXCEPT ![k].resetAt = now + Ttl[k]]
  /\ UNCHANGED <<now, admitted>>

\* canActivate throws 429; the window stays as it is.
Refuse(k) ==
  /\ Full(k)
  /\ UNCHANGED <<now, storage, admitted>>

Tick ==
  /\ now < MaxTime
  /\ now' = now + 1
  /\ UNCHANGED <<storage, admitted>>

\* A new process counts from nothing.
Forget ==
  /\ storage' = [k \in Keys |-> NoEntry]
  /\ admitted' = [k \in Keys |-> <<>>]
  /\ UNCHANGED now

RateLimitNext == Tick \/ Forget \/ \E k \in Keys : Allow(k) \/ Refuse(k)

RateLimitSpec == RateLimitInit /\ [][RateLimitNext]_limitVars

-----------------------------------------------------------------------------
(* Properties.                                                             *)

\* Whatever the order of requests, of expirations and of pruning, a span shorter
\* than the window admits fewer than twice the limit.  A span can straddle the end of
\* one window and the start of the next, but not the request that opened the first:
\* that leaves Limit - 1 and Limit.  (docs/common.md's "120 per minute" is the limit of
\* one window, not of every minute.)
AdmissionsBounded ==
  \A k \in Keys :
    LET most == 2 * Limit[k] - 1
    IN  \A i \in 1 .. (Len(admitted[k]) - most) :
          admitted[k][i + most] - admitted[k][i] >= Ttl[k]

\* A client is refused only when it was admitted up to the limit within the last
\* window: earlier refusals do not prolong the wait, and nobody else's requests
\* count against it.
RefusalsEarned ==
  \A k \in Keys : Full(k) =>
    /\ Len(admitted[k]) >= Limit[k]
    /\ admitted[k][Len(admitted[k]) - Limit[k] + 1] > now - Ttl[k]
=============================================================================
