----------------------------- MODULE ProcessProofs -----------------------------
(***************************************************************************)
(* Proofs about one API process, for any keys, limits, windows, number of     *)
(* events and buffer size: the rate limit bounds what it admits, refusals are  *)
(* earned, and audit events are accounted for in order.                      *)
(***************************************************************************)
EXTENDS Process, TLAPS

Entries == [count : Nat, resetAt : Nat]

-----------------------------------------------------------------------------
(* The rate limit.                                                         *)

\* What any span shorter than a window admits at most.
Most(k) == 2 * Limit[k] - 1

\* The entry counts the last requests of the history, from the one that opened
\* the window; whatever was admitted before belongs to windows that ended earlier.
OpenWindow(k, entry, times) ==
  /\ entry.count \in 1 .. Limit[k]
  /\ entry.count <= Len(times)
  /\ times[Len(times) - entry.count + 1] = entry.resetAt - Ttl[k]
  /\ \A i \in 1 .. (Len(times) - entry.count) :
       times[i] <= entry.resetAt - Ttl[k]
  /\ \A i \in 1 .. (Len(times) - entry.count - Limit[k] + 1) :
       times[i] <= entry.resetAt - 2 * Ttl[k]

\* What the history of one key and its entry have to do with each other.
Windows(k, entry, times, t) ==
  /\ \A i \in 1 .. Len(times) : times[i] <= t
  /\ \A i \in 1 .. (Len(times) - Most(k)) : times[i + Most(k)] - times[i] >= Ttl[k]
  /\ entry = NoEntry =>
       \A i \in 1 .. (Len(times) - Limit[k] + 1) : times[i] <= t - Ttl[k]
  /\ entry # NoEntry => OpenWindow(k, entry, times)

LimitTypeOK ==
  /\ now \in Nat
  /\ storage \in [Keys -> {NoEntry} \cup Entries]
  /\ admitted \in [Keys -> Seq(Nat)]

LimitInv ==
  /\ LimitTypeOK
  /\ \A k \in Keys : Windows(k, storage[k], admitted[k], now)

\* Time passes.
LEMMA WindowsLater ==
  ASSUME NEW k \in Keys, NEW entry \in {NoEntry} \cup Entries, NEW times \in Seq(Nat),
         NEW t \in Nat, Windows(k, entry, times, t)
  PROVE  Windows(k, entry, times, t + 1)
<1>1. Limit[k] \in Nat \ {0} /\ Ttl[k] \in Nat /\ Len(times) \in Nat
  BY RateLimitAssumption
<1>2. ASSUME NEW i \in 1 .. Len(times)
      PROVE  times[i] \in Nat /\ times[i] <= t /\ times[i] <= t + 1
  BY <1>1 DEF Windows
<1>3. ASSUME entry = NoEntry, NEW i \in 1 .. (Len(times) - Limit[k] + 1)
      PROVE  times[i] <= (t + 1) - Ttl[k]
  <2>1. i \in 1 .. Len(times)
    BY <1>1
  <2>2. times[i] <= t - Ttl[k]
    BY <1>3 DEF Windows
  <2>. QED BY <2>1, <2>2, <1>1, <1>2
<1>4. \A i \in 1 .. Len(times) : times[i] <= t + 1
  BY <1>2
<1>5. entry = NoEntry =>
        \A i \in 1 .. (Len(times) - Limit[k] + 1) : times[i] <= (t + 1) - Ttl[k]
  BY <1>3
<1>6. /\ \A i \in 1 .. (Len(times) - Most(k)) : times[i + Most(k)] - times[i] >= Ttl[k]
      /\ entry # NoEntry => OpenWindow(k, entry, times)
  BY DEF Windows
<1>. QED BY ONLY <1>4, <1>5, <1>6, Zenon DEF Windows

\* An expired entry is removed.
LEMMA WindowsPruned ==
  ASSUME NEW k \in Keys, NEW entry \in Entries, NEW times \in Seq(Nat),
         NEW t \in Nat, Windows(k, entry, times, t), entry.resetAt <= t
  PROVE  Windows(k, NoEntry, times, t)
<1>1. entry # NoEntry
  BY RateLimitAssumption DEF Entries
<1>2. entry.resetAt \in Nat /\ Limit[k] \in Nat /\ Ttl[k] \in Nat /\ Len(times) \in Nat
      /\ entry.count \in Nat
  BY RateLimitAssumption DEF Entries
<1>6. /\ entry.count >= 1 /\ entry.count <= Limit[k] /\ entry.count <= Len(times)
      /\ times[Len(times) - entry.count + 1] = entry.resetAt - Ttl[k]
      /\ \A i \in 1 .. (Len(times) - entry.count) : times[i] <= entry.resetAt - Ttl[k]
  BY <1>1 DEF OpenWindow, Windows
<1>3. \A i \in 1 .. (Len(times) - entry.count + 1) : times[i] <= entry.resetAt - Ttl[k]
  <2>. SUFFICES ASSUME NEW i \in 1 .. (Len(times) - entry.count + 1)
                PROVE  times[i] <= entry.resetAt - Ttl[k]
    OBVIOUS
  <2>1. i \in 1 .. (Len(times) - entry.count) \/ i = Len(times) - entry.count + 1
    BY <1>2
  <2>2. entry.resetAt - Ttl[k] <= entry.resetAt - Ttl[k]
    BY <1>2
  <2>. QED BY <1>6, <2>1, <2>2
<1>4. ASSUME NEW i \in 1 .. (Len(times) - Limit[k] + 1)
      PROVE  times[i] <= t - Ttl[k]
  <2>5. /\ Limit[k] \in Nat /\ Len(times) \in Nat /\ entry.count \in Nat
        /\ entry.count >= 1 /\ entry.count <= Limit[k]
    BY <1>2, <1>6
  <2>1. i \in 1 .. (Len(times) - entry.count + 1)
    BY ONLY <2>5, i \in 1 .. (Len(times) - Limit[k] + 1)
  <2>3. i \in 1 .. Len(times)
    BY <1>2, <1>6, <2>1
  <2>2. times[i] \in Nat
    BY <2>3
  <2>4. times[i] <= entry.resetAt - Ttl[k]
    BY <1>3, <2>1
  <2>. QED BY <2>2, <2>4, <1>2
<1>5. /\ \A i \in 1 .. Len(times) : times[i] <= t
      /\ \A i \in 1 .. (Len(times) - Most(k)) : times[i + Most(k)] - times[i] >= Ttl[k]
  BY DEF OpenWindow, Windows
<1>. QED BY ONLY <1>4, <1>5 DEF OpenWindow, Windows

\* A request opens a window: there is no entry, or its window has ended.
LEMMA WindowsOpened ==
  ASSUME NEW k \in Keys, NEW times \in Seq(Nat), NEW t \in Nat,
         Windows(k, NoEntry, times, t)
  PROVE  Windows(k, [count |-> 1, resetAt |-> t + Ttl[k]], Append(times, t), t)
<1>. DEFINE entry == [count |-> 1, resetAt |-> t + Ttl[k]]
            more == Append(times, t)
            n == Len(times)
            L == Limit[k]
<1>1. L \in Nat \ {0} /\ Ttl[k] \in Nat \ {0} /\ n \in Nat
  BY RateLimitAssumption
<1>2. /\ Len(more) = n + 1
      /\ more[n + 1] = t
      /\ \A i \in 1 .. n : more[i] = times[i] /\ times[i] \in Nat
  OBVIOUS
<1>3. \A i \in 1 .. (n - L + 1) : times[i] <= t - Ttl[k]
  BY DEF OpenWindow, Windows
<1>4. \A i \in 1 .. n : times[i] <= t
  BY DEF OpenWindow, Windows
<1>5. \A i \in 1 .. (n - Most(k)) : times[i + Most(k)] - times[i] >= Ttl[k]
  BY DEF OpenWindow, Windows
<1>7. entry \in Entries /\ entry # NoEntry /\ entry.count = 1 /\ entry.resetAt = t + Ttl[k]
  <2>1. entry \in Entries
    BY <1>1 DEF Entries
  <2>. QED BY <2>1, RateLimitAssumption DEF Entries
<1>0. Most(k) \in Nat /\ Most(k) = 2 * L - 1
  BY <1>1 DEF Most
<1>. HIDE DEF entry, more, n, L
<1>6. \A i \in 1 .. (Len(more) - Most(k)) : more[i + Most(k)] - more[i] >= Ttl[k]
  <2>. SUFFICES ASSUME NEW i \in 1 .. (Len(more) - Most(k))
                PROVE  more[i + Most(k)] - more[i] >= Ttl[k]
    OBVIOUS
  <2>1. CASE i \in 1 .. (n - Most(k))
    <3>1. i \in 1 .. n /\ i + Most(k) \in 1 .. n
      BY <2>1, <1>0, <1>1
    <3>. QED BY <2>1, <3>1, <1>2, <1>5
  <2>2. CASE i = n + 1 - Most(k)
    <3>1. i \in 1 .. (n - L + 1) /\ i + Most(k) = n + 1
      BY <2>2, <1>0, <1>1
    <3>5. i \in 1 .. n
      BY <2>2, <1>0, <1>1
    <3>2. more[i + Most(k)] = t
      BY <3>1, <1>2
    <3>3. more[i] = times[i] /\ times[i] \in Nat
      BY <3>5, <1>2
    <3>4. times[i] <= t - Ttl[k]
      BY <3>1, <1>3
    <3>. QED BY <3>2, <3>3, <3>4, <1>1
  <2>. QED BY <2>1, <2>2, <1>0, <1>1, <1>2
<1>8. \A i \in 1 .. (n + 1) : more[i] <= t
  BY <1>1, <1>2, <1>4
<1>9. /\ entry.count \in 1 .. L
      /\ entry.count <= Len(more)
  BY <1>1, <1>2, <1>7
<1>11. more[Len(more) - entry.count + 1] = entry.resetAt - Ttl[k]
  <2>1. Len(more) - entry.count + 1 = n + 1 /\ entry.resetAt - Ttl[k] = t
    BY <1>1, <1>2, <1>7
  <2>. QED BY <2>1, <1>2
<1>12. ASSUME NEW i \in 1 .. (Len(more) - entry.count)
       PROVE  more[i] <= entry.resetAt - Ttl[k]
  <2>1. i \in 1 .. n /\ entry.resetAt - Ttl[k] = t
    BY <1>1, <1>2, <1>7
  <2>. QED BY <2>1, <1>2, <1>4
<1>13. ASSUME NEW i \in 1 .. (Len(more) - entry.count - L + 1)
       PROVE  more[i] <= entry.resetAt - 2 * Ttl[k]
  <2>1. i \in 1 .. n /\ i \in 1 .. (n - L + 1) /\ entry.resetAt - 2 * Ttl[k] = t - Ttl[k]
    BY <1>1, <1>2, <1>7
  <2>2. more[i] = times[i] /\ times[i] <= t - Ttl[k]
    BY <2>1, <1>2, <1>3
  <2>. QED BY <2>1, <2>2
<1>10. Windows(k, entry, more, t)
  <2>2. entry.count \in 1 .. Limit[k]
    BY <1>9 DEF L
  <2>3. \A i \in 1 .. (Len(more) - entry.count - Limit[k] + 1) :
          more[i] <= entry.resetAt - 2 * Ttl[k]
    BY <1>13 DEF L
  <2>4. \A i \in 1 .. Len(more) : more[i] <= t
    BY <1>2, <1>8
  <2>5. entry = NoEntry =>
          \A i \in 1 .. (Len(more) - Limit[k] + 1) : more[i] <= t - Ttl[k]
    BY <1>7
  <2>6. \A i \in 1 .. (Len(more) - entry.count) : more[i] <= entry.resetAt - Ttl[k]
    BY <1>12
  <2>. QED BY ONLY <1>6, <1>9, <1>11, <2>2, <2>3, <2>4, <2>5, <2>6, Zenon DEF OpenWindow, Windows
<1>. QED BY <1>10 DEF entry, more

\* A request is counted in the open window.
LEMMA WindowsCounted ==
  ASSUME NEW k \in Keys, NEW entry \in Entries, NEW times \in Seq(Nat), NEW t \in Nat,
         Windows(k, entry, times, t), entry.count < Limit[k]
  PROVE  Windows(k, [entry EXCEPT !.count = @ + 1], Append(times, t), t)
<1>. DEFINE next == [entry EXCEPT !.count = @ + 1]
            more == Append(times, t)
            n == Len(times)
            L == Limit[k]
            c == entry.count
            start == entry.resetAt - Ttl[k]
<1>1. L \in Nat \ {0} /\ Ttl[k] \in Nat \ {0} /\ n \in Nat /\ c \in Nat
      /\ entry.resetAt \in Nat /\ c < L /\ entry # NoEntry
  BY RateLimitAssumption DEF Entries
<1>2. /\ Len(more) = n + 1
      /\ more[n + 1] = t
      /\ \A i \in 1 .. n : more[i] = times[i] /\ times[i] \in Nat
  OBVIOUS
<1>3. /\ c \in 1 .. L /\ c <= n
      /\ times[n - c + 1] = start
      /\ \A i \in 1 .. (n - c) : times[i] <= start
      /\ \A i \in 1 .. (n - c - L + 1) : times[i] <= entry.resetAt - 2 * Ttl[k]
  BY <1>1 DEF OpenWindow, Windows
<1>4. \A i \in 1 .. n : times[i] <= t
  BY DEF OpenWindow, Windows
<1>5. \A i \in 1 .. (n - Most(k)) : times[i + Most(k)] - times[i] >= Ttl[k]
  BY DEF OpenWindow, Windows
<1>6. start <= t
  <2>1. n - c + 1 \in 1 .. n
    BY <1>1, <1>3
  <2>. QED BY <2>1, <1>3, <1>4
<1>8. /\ next \in Entries /\ next # NoEntry
      /\ next.count = c + 1 /\ next.resetAt = entry.resetAt
  <2>1. next \in Entries
    BY <1>1 DEF Entries
  <2>. QED BY <2>1, RateLimitAssumption DEF Entries
<1>0. Most(k) \in Nat /\ Most(k) = 2 * L - 1
  BY <1>1 DEF Most
<1>. HIDE DEF next, more, n, L, c, start
<1>7. \A i \in 1 .. (Len(more) - Most(k)) : more[i + Most(k)] - more[i] >= Ttl[k]
  <2>. SUFFICES ASSUME NEW i \in 1 .. (Len(more) - Most(k))
                PROVE  more[i + Most(k)] - more[i] >= Ttl[k]
    OBVIOUS
  <2>1. CASE i \in 1 .. (n - Most(k))
    <3>1. i \in 1 .. n /\ i + Most(k) \in 1 .. n
      BY <2>1, <1>0, <1>1
    <3>. QED BY <2>1, <3>1, <1>2, <1>5
  <2>2. CASE i = n + 1 - Most(k)
    <3>1. i \in 1 .. (n - c - L + 1) /\ i \in 1 .. n /\ i + Most(k) = n + 1
      BY <2>2, <1>0, <1>1
    <3>2. more[i + Most(k)] = t
      BY <3>1, <1>2
    <3>3. more[i] = times[i] /\ times[i] \in Nat
      BY <3>1, <1>2
    <3>4. times[i] <= entry.resetAt - 2 * Ttl[k]
      BY <3>1, <1>3
    <3>. QED BY <3>2, <3>3, <3>4, <1>1, <1>6 DEF start
  <2>. QED BY <2>1, <2>2, <1>0, <1>1, <1>2
<1>9. \A i \in 1 .. (n + 1) : more[i] <= t
  BY <1>1, <1>2, <1>4
<1>10. /\ next.count \in 1 .. L
       /\ next.count <= Len(more)
  BY <1>1, <1>2, <1>3, <1>8
<1>12. more[Len(more) - next.count + 1] = next.resetAt - Ttl[k]
  <2>1. Len(more) - next.count + 1 = n - c + 1 /\ n - c + 1 \in 1 .. n
    BY <1>1, <1>2, <1>3, <1>8
  <2>2. more[n - c + 1] = start
    BY <2>1, <1>2, <1>3
  <2>. QED BY <2>1, <2>2, <1>8 DEF start
<1>13. ASSUME NEW i \in 1 .. (Len(more) - next.count)
       PROVE  more[i] <= next.resetAt - Ttl[k]
  <2>1. i \in 1 .. (n - c) /\ i \in 1 .. n
    BY <1>1, <1>2, <1>3, <1>8
  <2>2. more[i] = times[i] /\ times[i] <= start
    BY <2>1, <1>2, <1>3
  <2>. QED BY <2>2, <1>8 DEF start
<1>14. ASSUME NEW i \in 1 .. (Len(more) - next.count - L + 1)
       PROVE  more[i] <= next.resetAt - 2 * Ttl[k]
  <2>1. i \in 1 .. (n - c - L + 1) /\ i \in 1 .. n
    BY <1>1, <1>2, <1>3, <1>8
  <2>2. more[i] = times[i] /\ times[i] <= entry.resetAt - 2 * Ttl[k]
    BY <2>1, <1>2, <1>3
  <2>. QED BY <2>2, <1>8
<1>11. Windows(k, next, more, t)
  <2>2. next.count \in 1 .. Limit[k]
    BY <1>10 DEF L
  <2>3. \A i \in 1 .. (Len(more) - next.count - Limit[k] + 1) :
          more[i] <= next.resetAt - 2 * Ttl[k]
    BY <1>14 DEF L
  <2>4. \A i \in 1 .. Len(more) : more[i] <= t
    BY <1>2, <1>9
  <2>5. next = NoEntry =>
          \A i \in 1 .. (Len(more) - Limit[k] + 1) : more[i] <= t - Ttl[k]
    BY <1>8
  <2>6. \A i \in 1 .. (Len(more) - next.count) : more[i] <= next.resetAt - Ttl[k]
    BY <1>13
  <2>. QED BY ONLY <1>7, <1>10, <1>12, <2>2, <2>3, <2>4, <2>5, <2>6, Zenon DEF OpenWindow, Windows
<1>. QED BY <1>11 DEF next, more

-----------------------------------------------------------------------------
(* What a step does to every key.                                          *)

LEMMA LimitInitially == RateLimitInit => LimitInv
<1>. SUFFICES ASSUME RateLimitInit PROVE LimitInv
  OBVIOUS
<1>1. now = 0 /\ storage = [k \in Keys |-> NoEntry] /\ admitted = [k \in Keys |-> <<>>]
  BY DEF RateLimitInit
<1>2. LimitTypeOK
  BY <1>1 DEF LimitTypeOK
<1>3. ASSUME NEW k \in Keys
      PROVE  Windows(k, storage[k], admitted[k], now)
  <2>1. Limit[k] \in Nat \ {0}
    BY RateLimitAssumption
  <2>2. storage[k] = NoEntry /\ admitted[k] = <<>>
    BY <1>1
  <2>3. Len(<<>>) = 0
    OBVIOUS
  <2>. QED BY <2>1, <2>2, <2>3 DEF OpenWindow, Windows, Most
<1>. QED BY <1>2, <1>3 DEF LimitInv

\* Pruning after one key got a new entry: what holds of the entries with the new
\* one holds of what pruning keeps of them.
LEMMA CountKeepsLimitInv ==
  ASSUME LimitInv, NEW k \in Keys, NEW entry \in Entries, Count(k, entry),
         Windows(k, entry, Append(admitted[k], now), now)
  PROVE  LimitInv'
<1>. DEFINE s == [storage EXCEPT ![k] = entry]
<1>1. /\ storage' = PruneExpired(s)
      /\ admitted' = [admitted EXCEPT ![k] = Append(@, now)]
      /\ now' = now
  BY DEF Count
<1>2. LimitTypeOK
  BY DEF LimitInv
<1>3. s \in [Keys -> {NoEntry} \cup Entries]
  BY <1>2 DEF LimitTypeOK
<1>4. admitted' \in [Keys -> Seq(Nat)]
  BY <1>1, <1>2 DEF LimitTypeOK
<1>. HIDE DEF s
<1>5. \A j \in Keys :
        \/ storage'[j] = s[j]
        \/ storage'[j] = NoEntry /\ s[j] # NoEntry /\ s[j].resetAt <= now
  BY <1>1 DEF PruneExpired
<1>6. storage' \in [Keys -> {NoEntry} \cup Entries]
  BY <1>1, <1>3 DEF PruneExpired
<1>7. ASSUME NEW j \in Keys
      PROVE  Windows(j, storage'[j], admitted'[j], now')
  <2>1. Windows(j, s[j], admitted'[j], now)
    <3>1. CASE j = k
      BY <3>1, <1>1, <1>2 DEF s, LimitTypeOK
    <3>2. CASE j # k
      <4>1. s[j] = storage[j] /\ admitted'[j] = admitted[j]
        BY <3>2, <1>1, <1>2 DEF s, LimitTypeOK
      <4>2. Windows(j, storage[j], admitted[j], now)
        BY DEF LimitInv
      <4>. QED BY <4>1, <4>2
    <3>. QED BY <3>1, <3>2
  <2>2. CASE storage'[j] = s[j]
    BY <2>1, <2>2, <1>1
  <2>3. CASE storage'[j] = NoEntry /\ s[j] # NoEntry /\ s[j].resetAt <= now
    <3>1. s[j] \in Entries /\ admitted'[j] \in Seq(Nat) /\ now \in Nat
      BY <2>3, <1>2, <1>3, <1>4 DEF LimitTypeOK
    <3>2. Windows(j, NoEntry, admitted'[j], now)
      BY <2>1, <2>3, <3>1, WindowsPruned
    <3>. QED BY <2>3, <3>2, <1>1
  <2>. QED BY <2>2, <2>3, <1>5
<1>. QED BY <1>1, <1>2, <1>4, <1>6, <1>7 DEF LimitInv, LimitTypeOK

\* An admitted request opens a window or is counted in the open one.
LEMMA AllowKeepsLimitInv ==
  ASSUME LimitInv, NEW k \in Keys, Allow(k)
  PROVE  LimitInv'
<1>1. /\ storage[k] \in {NoEntry} \cup Entries /\ admitted[k] \in Seq(Nat) /\ now \in Nat
      /\ Windows(k, storage[k], admitted[k], now)
  BY DEF LimitInv, LimitTypeOK
<1>2. CASE ~Live(k) /\ Count(k, [count |-> 1, resetAt |-> now + Ttl[k]])
  <2>1. [count |-> 1, resetAt |-> now + Ttl[k]] \in Entries
    BY <1>1, RateLimitAssumption DEF Entries
  <2>2. Windows(k, NoEntry, admitted[k], now)
    <3>1. CASE storage[k] = NoEntry
      BY <3>1, <1>1
    <3>2. CASE storage[k] # NoEntry
      <4>1. storage[k] \in Entries /\ storage[k].resetAt <= now
        BY <3>2, <1>1, <1>2 DEF Live, Entries
      <4>. QED BY <4>1, <1>1, WindowsPruned
    <3>. QED BY <3>1, <3>2
  <2>3. Windows(k, [count |-> 1, resetAt |-> now + Ttl[k]], Append(admitted[k], now), now)
    BY <2>2, <1>1, WindowsOpened
  <2>. QED BY <2>1, <2>3, <1>2, CountKeepsLimitInv
<1>3. CASE /\ Live(k) /\ storage[k].count < Limit[k]
           /\ Count(k, [storage[k] EXCEPT !.count = @ + 1])
  <2>1. storage[k] \in Entries
    BY <1>1, <1>3 DEF Live
  <2>2. [storage[k] EXCEPT !.count = @ + 1] \in Entries
    BY <2>1 DEF Entries
  <2>3. Windows(k, [storage[k] EXCEPT !.count = @ + 1], Append(admitted[k], now), now)
    BY <2>1, <1>1, <1>3, WindowsCounted
  <2>. QED BY <2>2, <2>3, <1>3, CountKeepsLimitInv
<1>. QED BY <1>2, <1>3 DEF Allow

LEMMA LimitStep == LimitInv /\ [RateLimitNext]_limitVars => LimitInv'
<1>. SUFFICES ASSUME LimitInv, [RateLimitNext]_limitVars PROVE LimitInv'
  OBVIOUS
<1>1. ASSUME NEW k \in Keys, Allow(k) PROVE LimitInv'
  BY <1>1, AllowKeepsLimitInv
<1>2. ASSUME UNCHANGED limitVars PROVE LimitInv'
  BY <1>2 DEF limitVars, LimitInv, LimitTypeOK, OpenWindow, Windows
<1>3. ASSUME NEW k \in Keys, Refuse(k) PROVE LimitInv'
  BY <1>3, <1>2 DEF Refuse, limitVars
<1>4. CASE Forget
  <2>1. /\ storage' = [k \in Keys |-> NoEntry] /\ admitted' = [k \in Keys |-> <<>>]
        /\ now' = now
    BY <1>4 DEF Forget
  <2>2. LimitTypeOK'
    BY <2>1 DEF LimitInv, LimitTypeOK
  <2>3. ASSUME NEW k \in Keys
        PROVE  Windows(k, storage'[k], admitted'[k], now')
    <3>1. Limit[k] \in Nat \ {0}
      BY RateLimitAssumption
    <3>2. storage'[k] = NoEntry /\ admitted'[k] = <<>>
      BY <2>1
    <3>3. Len(<<>>) = 0
      OBVIOUS
    <3>. QED BY <3>1, <3>2, <3>3 DEF OpenWindow, Windows, Most
  <2>. QED BY <2>2, <2>3 DEF LimitInv
<1>5. CASE Tick
  <2>1. now' = now + 1 /\ storage' = storage /\ admitted' = admitted
    BY <1>5 DEF Tick
  <2>2. ASSUME NEW k \in Keys
        PROVE  Windows(k, storage'[k], admitted'[k], now')
    BY <2>1, WindowsLater DEF LimitInv, LimitTypeOK
  <2>. QED BY <2>1, <2>2 DEF LimitInv, LimitTypeOK
<1>. QED BY <1>1, <1>2, <1>3, <1>4, <1>5 DEF RateLimitNext

LEMMA LimitHolds == RateLimitSpec => []LimitInv
BY LimitInitially, LimitStep, PTL DEF RateLimitSpec

\* What a process does to the guard's map, in handling requests, stopping, crashing
\* and starting again, is what the guard does alone: it keeps both properties.
THEOREM ProcessLimits == ProcessSpec => RateLimitSpec
<1>1. ProcessInit => RateLimitInit
  BY DEF ProcessInit
<1>2. [ProcessNext]_vars => [RateLimitNext]_limitVars
  <2>. SUFFICES ASSUME [ProcessNext]_vars PROVE [RateLimitNext]_limitVars
    OBVIOUS
  <2>1. CASE \E k \in Keys : Admit(k) \/ TurnAway(k)
    BY <2>1 DEF Admit, TurnAway, RateLimitNext
  <2>2. CASE Pass \/ Handle \/ Shutdown \/ Dies
    BY <2>2 DEF Pass, Handle, Shutdown, Dies
  <2>3. CASE Starts \/ (Tick /\ UNCHANGED <<auditVars, pending>>)
    BY <2>3 DEF Starts, RateLimitNext
  <2>4. CASE (TimerFlush \/ Settle \/ Close \/ Exit) /\ UNCHANGED <<limitVars, pending>>
    BY <2>4
  <2>5. CASE UNCHANGED vars
    BY <2>5 DEF vars
  <2>. QED BY <2>1, <2>2, <2>3, <2>4, <2>5 DEF ProcessNext
<1>. QED BY <1>1, <1>2, PTL DEF ProcessSpec, RateLimitSpec

\* No span shorter than the window admits twice the limit, for every limit,
\* window, pruning threshold and number of clients.
THEOREM AdmissionsAreBounded == ProcessSpec => []AdmissionsBounded
<1>1. LimitInv => AdmissionsBounded
  BY DEF LimitInv, OpenWindow, Windows, Most, AdmissionsBounded
<1>. QED BY <1>1, LimitHolds, ProcessLimits, PTL

\* A refused client was admitted up to the limit within the last window.
THEOREM RefusalsAreEarned == ProcessSpec => []RefusalsEarned
<1>1. ASSUME LimitInv, NEW k \in Keys, Full(k)
      PROVE  /\ Len(admitted[k]) >= Limit[k]
             /\ admitted[k][Len(admitted[k]) - Limit[k] + 1] > now - Ttl[k]
  <2>1. /\ storage[k] \in Entries /\ storage[k] # NoEntry /\ storage[k].resetAt > now
        /\ storage[k].count >= Limit[k]
        /\ Limit[k] \in Nat /\ Ttl[k] \in Nat /\ now \in Nat /\ Len(admitted[k]) \in Nat
    BY <1>1, RateLimitAssumption DEF Full, Live, LimitInv, LimitTypeOK
  <2>2. /\ storage[k].count \in 1 .. Limit[k] /\ storage[k].count <= Len(admitted[k])
        /\ admitted[k][Len(admitted[k]) - storage[k].count + 1] = storage[k].resetAt - Ttl[k]
    BY <1>1, <2>1 DEF LimitInv, OpenWindow, Windows
  <2>3. storage[k].count = Limit[k] /\ storage[k].resetAt \in Nat
    BY <2>1, <2>2 DEF Entries
  <2>. QED BY <2>1, <2>2, <2>3
<1>2. LimitInv => RefusalsEarned
  BY <1>1 DEF RefusalsEarned
<1>. QED BY <1>2, LimitHolds, ProcessLimits, PTL

-----------------------------------------------------------------------------
(* The audit buffer.                                                       *)

AuditTypeOK ==
  /\ phase \in {"up", "closing", "flushing", "down"}
  /\ buffer \in Seq(Nat) /\ batch \in Seq(Nat)
  /\ recorded \in Nat /\ written \subseteq Nat /\ lost \subseteq Nat

\* What EventsAccounted says of the events recorded, stored (W), lost (L), being
\* inserted (B) and waiting (F); and no event has a number not given yet.
Accounted(given, W, L, B, F) ==
  /\ 1 .. given \subseteq W \cup L \cup B \cup F
  /\ \A e \in B, f \in F : e < f
  /\ \A e \in B \cup F, f \in W : f > e => f \in B
  /\ \A e \in W \cup B \cup F : e <= given

\* The invariant: the last flush begins when no request is being handled.
AuditInv ==
  /\ AuditTypeOK
  /\ Accounted(recorded, written, lost, Range(batch), Range(buffer))
  /\ phase = "flushing" /\ ~heldUp => buffer = <<>>
  /\ pending \in Nat
  /\ phase \in {"flushing", "down"} => pending = 0

LEMMA RangeOfEmpty == Range(<<>>) = {}
BY DEF Range

LEMMA RangeOfSeq ==
  ASSUME NEW s \in Seq(Nat) PROVE Range(s) \subseteq Nat
BY DEF Range

LEMMA RangeOfAppend ==
  ASSUME NEW s \in Seq(Nat), NEW x \in Nat
  PROVE  Range(Append(s, x)) = Range(s) \cup {x}
<1>1. /\ Append(s, x) \in Seq(Nat) /\ Len(s) \in Nat
      /\ DOMAIN s = 1 .. Len(s) /\ DOMAIN Append(s, x) = 1 .. (Len(s) + 1)
      /\ Append(s, x)[Len(s) + 1] = x
      /\ \A i \in 1 .. Len(s) : Append(s, x)[i] = s[i]
  OBVIOUS
<1>2. ASSUME NEW i \in DOMAIN Append(s, x)
      PROVE  Append(s, x)[i] \in Range(s) \cup {x}
  BY <1>1 DEF Range
<1>3. ASSUME NEW i \in DOMAIN s
      PROVE  s[i] \in Range(Append(s, x))
  BY <1>1 DEF Range
<1>4. x \in Range(Append(s, x))
  BY <1>1 DEF Range
<1>5. \A e \in Range(Append(s, x)) : e \in Range(s) \cup {x}
  BY <1>2 DEF Range
<1>6. \A e \in Range(s) : e \in Range(Append(s, x))
  BY <1>3 DEF Range
<1>. QED BY <1>4, <1>5, <1>6

\* What each step does to the events, as sets.
LEMMA AccountedSteps ==
  ASSUME NEW given \in Nat, NEW W \in SUBSET Nat, NEW L \in SUBSET Nat,
         NEW B \in SUBSET Nat, NEW F \in SUBSET Nat, Accounted(given, W, L, B, F)
  PROVE  /\ Accounted(given + 1, W, L, B, F \cup {given + 1})
         /\ B = {} => Accounted(given, W, L, F, {})
         /\ Accounted(given, W \cup B, L, {}, F)
         /\ Accounted(given, W \cup B, L, B, F)
         /\ Accounted(given, W, L \cup B, {}, F)
         /\ Accounted(given, W, L \cup F \cup B, {}, {})
<1>0. ASSUME NEW e \in F, NEW f \in W \cup B PROVE ~(f > e)
  <2>1. f > e => f \in B
    BY DEF Accounted
  <2>2. f \in B => f < e
    BY DEF Accounted
  <2>3. e \in Nat /\ f \in Nat
    OBVIOUS
  <2>. QED BY <2>1, <2>2, <2>3
<1>1. Accounted(given + 1, W, L, B, F \cup {given + 1})
  BY DEF Accounted
<1>2. B = {} => Accounted(given, W, L, F, {})
  BY DEF Accounted
<1>3. Accounted(given, W \cup B, L, {}, F)
  BY <1>0 DEF Accounted
<1>4. Accounted(given, W \cup B, L, B, F)
  BY DEF Accounted
<1>5. Accounted(given, W, L \cup B, {}, F)
  BY <1>0 DEF Accounted
<1>6. Accounted(given, W, L \cup F \cup B, {}, {})
  BY DEF Accounted
<1>. QED BY <1>1, <1>2, <1>3, <1>4, <1>5, <1>6

\* Taking the waiting events, or leaving them to the flush in flight.
LEMMA FlushKeepsAccounted ==
  ASSUME AuditTypeOK, NEW given \in Nat, NEW events \in Seq(Nat), Flush(events),
         Accounted(given, written, lost, Range(batch), Range(events))
  PROVE  /\ Accounted(given, written, lost, Range(batch'), Range(buffer'))
         /\ batch' \in Seq(Nat) /\ buffer' \in Seq(Nat)
<1>1. CASE batch # <<>> /\ buffer' = events /\ UNCHANGED <<batch, retry>>
  BY <1>1 DEF AuditTypeOK
<1>2. CASE batch = <<>> /\ batch' = events /\ buffer' = <<>> /\ retry' = FALSE
  <2>1. Range(batch) = {} /\ Range(buffer') = {} /\ Range(events) \in SUBSET Nat
    BY <1>2, RangeOfEmpty, RangeOfSeq
  <2>2. written \in SUBSET Nat /\ lost \in SUBSET Nat
    BY DEF AuditTypeOK
  <2>3. Accounted(given, written, lost, {}, Range(events))
    BY <2>1
  <2>4. Accounted(given, written, lost, Range(events), {})
    <3>. DEFINE E == Range(events)
    <3>1. Accounted(given, written, lost, {}, E)
      BY <2>3
    <3>. HIDE DEF E
    <3>2. Accounted(given, written, lost, E, {})
      BY <3>1 DEF Accounted
    <3>. QED BY <3>2 DEF E
  <2>5. Accounted(given, written, lost, Range(batch'), Range(buffer'))
    BY <1>2, <2>1, <2>4
  <2>6. batch' \in Seq(Nat) /\ buffer' \in Seq(Nat)
    BY <1>2
  <2>. QED BY <2>5, <2>6
<1>. QED BY <1>1, <1>2 DEF Flush

Now == Accounted(recorded, written, lost, Range(batch), Range(buffer))

\* One more event, which may start a flush.
LEMMA RecordKeepsAccounted ==
  ASSUME AuditInv, Record
  PROVE  AuditTypeOK' /\ Now' /\ phase' = phase /\ heldUp' = heldUp
<1>. DEFINE events == Append(buffer, recorded + 1)
<1>1. /\ AuditTypeOK /\ Now
      /\ recorded' = recorded + 1 /\ UNCHANGED <<phase, written, lost, heldUp>>
  BY DEF Record, AuditInv, Now
<1>2. /\ recorded \in Nat /\ recorded + 1 \in Nat
      /\ events \in Seq(Nat) /\ Range(events) = Range(buffer) \cup {recorded + 1}
      /\ written \in SUBSET Nat /\ lost \in SUBSET Nat
      /\ Range(batch) \in SUBSET Nat /\ Range(buffer) \in SUBSET Nat
  <2>1. /\ recorded \in Nat /\ recorded + 1 \in Nat
        /\ buffer \in Seq(Nat) /\ batch \in Seq(Nat) /\ events \in Seq(Nat)
        /\ written \in SUBSET Nat /\ lost \in SUBSET Nat
    BY <1>1 DEF AuditTypeOK
  <2>2. Range(events) = Range(buffer) \cup {recorded + 1}
    BY <2>1, RangeOfAppend
  <2>. QED BY <2>1, <2>2, RangeOfSeq
<1>3. Accounted(recorded + 1, written, lost, Range(batch), Range(events))
  <2>. DEFINE B == Range(batch)
              F == Range(buffer)
  <2>1. /\ Accounted(recorded, written, lost, B, F)
        /\ B \in SUBSET Nat /\ F \in SUBSET Nat
    BY <1>1, <1>2 DEF Now
  <2>. HIDE DEF B, F
  <2>2. Accounted(recorded + 1, written, lost, B, F \cup {recorded + 1})
    BY <2>1, <1>2, AccountedSteps
  <2>. QED BY <2>2, <1>2 DEF B, F
<1>4. Flush(events) \/ (buffer' = events /\ UNCHANGED <<batch, retry>>)
  BY DEF Record
<1>. HIDE DEF events
<1>5. /\ Accounted(recorded + 1, written, lost, Range(batch'), Range(buffer'))
      /\ batch' \in Seq(Nat) /\ buffer' \in Seq(Nat)
  <2>1. CASE Flush(events)
    BY <2>1, <1>1, <1>2, <1>3, FlushKeepsAccounted
  <2>2. CASE buffer' = events /\ UNCHANGED <<batch, retry>>
    BY <2>2, <1>1, <1>2, <1>3 DEF AuditTypeOK
  <2>. QED BY <2>1, <2>2, <1>4
<1>. QED BY <1>1, <1>2, <1>5 DEF AuditTypeOK, Now

LEMMA AuditInitially == ProcessInit => AuditInv
<1>. SUFFICES ASSUME ProcessInit PROVE AuditInv
  OBVIOUS
<1>1. /\ phase = "up" /\ buffer = <<>> /\ batch = <<>> /\ recorded = 0
      /\ written = {} /\ lost = {} /\ pending = 0
  BY DEF ProcessInit, AuditInit
<1>2. Accounted(recorded, written, lost, Range(batch), Range(buffer))
  BY <1>1, RangeOfEmpty DEF Accounted
<1>. QED BY <1>1, <1>2 DEF AuditInv, AuditTypeOK

\* The steps of the buffer that record nothing.
LEMMA BufferStepsKeepAccounted ==
  ASSUME AuditInv,
         TimerFlush \/ InsertAnswers \/ InsertRejects \/ OnApplicationShutdown \/ Exit \/ Crash
  PROVE  AuditTypeOK' /\ Now'
<1>1. /\ AuditTypeOK /\ Now
      /\ recorded \in Nat /\ written \in SUBSET Nat /\ lost \in SUBSET Nat
      /\ buffer \in Seq(Nat) /\ batch \in Seq(Nat)
      /\ Range(batch) \in SUBSET Nat /\ Range(buffer) \in SUBSET Nat
  BY RangeOfSeq DEF AuditInv, AuditTypeOK, Now
<1>2. /\ Accounted(recorded, written \cup Range(batch), lost, {}, Range(buffer))
      /\ Accounted(recorded, written \cup Range(batch), lost, Range(batch), Range(buffer))
      /\ Accounted(recorded, written, lost \cup Range(batch), {}, Range(buffer))
      /\ Accounted(recorded, written, lost \cup Range(buffer) \cup Range(batch), {}, {})
  BY <1>1, AccountedSteps DEF Now
<1>3. /\ written \cup Range(batch) \in SUBSET Nat
      /\ Accounted(recorded, written \cup Range(batch), lost \cup Range(batch), {}, Range(buffer))
      /\ Accounted(recorded, written \cup Range(batch),
                   lost \cup Range(buffer) \cup Range(batch), {}, {})
  BY <1>1, <1>2, AccountedSteps
<1>4. CASE TimerFlush
  BY <1>1, <1>4, FlushKeepsAccounted DEF TimerFlush, Now, AuditTypeOK
<1>5. CASE InsertAnswers
  <2>1. /\ written' = written \cup Range(batch) /\ batch' = <<>>
        /\ UNCHANGED <<phase, buffer, recorded, lost, heldUp>>
    BY <1>5 DEF InsertAnswers
  <2>2. Now'
    BY <2>1, <1>2, RangeOfEmpty DEF Now
  <2>3. AuditTypeOK'
    <3>1. batch' \in Seq(Nat) /\ buffer' \in Seq(Nat)
      BY <2>1, <1>1
    <3>2. written' \subseteq Nat /\ lost' \subseteq Nat
      BY <2>1, <1>1, <1>3
    <3>. QED BY <3>1, <3>2, <2>1, <1>1 DEF AuditTypeOK
  <2>. QED BY <2>2, <2>3
<1>6. CASE InsertRejects
  <2>1. /\ written' \in {written, written \cup Range(batch)}
        /\ UNCHANGED <<phase, buffer, recorded, heldUp>>
        /\ \/ UNCHANGED <<batch, lost>>
           \/ batch' = <<>> /\ lost' = lost \cup Range(batch)
    BY <1>6 DEF InsertRejects
  <2>2. CASE UNCHANGED <<batch, lost>>
    <3>1. Now'
      BY <2>1, <2>2, <1>1, <1>2 DEF Now
    <3>. QED BY <2>1, <2>2, <3>1, <1>1, <1>3 DEF AuditTypeOK
  <2>3. CASE batch' = <<>> /\ lost' = lost \cup Range(batch)
    <3>1. Now'
      BY <2>1, <2>3, <1>2, <1>3, RangeOfEmpty DEF Now
    <3>2. AuditTypeOK'
      <4>1. batch' \in Seq(Nat) /\ buffer' \in Seq(Nat)
        BY <2>1, <2>3, <1>1
      <4>2. written' \subseteq Nat /\ lost' \subseteq Nat
        BY <2>1, <2>3, <1>1, <1>3
      <4>. QED BY <4>1, <4>2, <2>1, <1>1 DEF AuditTypeOK
    <3>. QED BY <3>1, <3>2
  <2>. QED BY <2>1, <2>2, <2>3
<1>7. CASE OnApplicationShutdown
  BY <1>1, <1>7, FlushKeepsAccounted DEF OnApplicationShutdown, Now, AuditTypeOK
<1>8. CASE Exit
  BY <1>1, <1>2, <1>8, RangeOfEmpty DEF Exit, End, Now, AuditTypeOK
<1>9. CASE Crash
  <2>1. /\ phase' = "down" /\ buffer' = <<>> /\ batch' = <<>> /\ recorded' = recorded
        /\ lost' = lost \cup Range(buffer) \cup Range(batch)
        /\ written' \in {written, written \cup Range(batch)}
    BY <1>9 DEF Crash, End
  <2>2. Now'
    BY <2>1, <1>2, <1>3, RangeOfEmpty DEF Now
  <2>3. AuditTypeOK'
    <3>1. batch' \in Seq(Nat) /\ buffer' \in Seq(Nat)
      BY <2>1
    <3>2. written' \subseteq Nat /\ lost' \subseteq Nat
      BY <2>1, <1>1, <1>3
    <3>. QED BY <3>1, <3>2, <2>1, <1>1 DEF AuditTypeOK
  <2>. QED BY <2>2, <2>3
<1>. QED BY <1>4, <1>5, <1>6, <1>7, <1>8, <1>9

LEMMA AuditStep == AuditInv /\ [ProcessNext]_vars => AuditInv'
<1>. SUFFICES ASSUME AuditInv, [ProcessNext]_vars PROVE AuditInv'
  OBVIOUS
<1>0. /\ AuditTypeOK /\ Now /\ pending \in Nat
      /\ phase = "flushing" /\ ~heldUp => buffer = <<>>
      /\ phase \in {"flushing", "down"} => pending = 0
  BY DEF AuditInv, Now
<1>1. ASSUME UNCHANGED auditVars, pending' \in Nat, phase = "up" \/ pending' = pending
      PROVE  AuditInv'
  BY <1>1, <1>0 DEF auditVars, AuditInv, Now, AuditTypeOK
<1>2. ASSUME NEW k \in Keys, Admit(k) PROVE AuditInv'
  BY <1>2, <1>1, <1>0 DEF Admit, MayArrive
<1>3. CASE Pass
  BY <1>3, <1>1, <1>0 DEF Pass, MayArrive
<1>4. ASSUME NEW k \in Keys, TurnAway(k) PROVE AuditInv'
  <2>1. AuditTypeOK' /\ Now' /\ phase' = phase /\ phase = "up" /\ pending' = pending
    BY <1>4, RecordKeepsAccounted DEF TurnAway, MayArrive
  <2>. QED BY <2>1, <1>0 DEF AuditInv, Now
<1>5. CASE Handle
  <2>1. AuditTypeOK' /\ Now' /\ phase' = phase
    BY <1>5, RecordKeepsAccounted DEF Handle
  <2>2. pending > 0 /\ pending' \in {pending, pending - 1}
    BY <1>5 DEF Handle
  <2>. QED BY <2>1, <2>2, <1>0 DEF AuditInv, Now
<1>6. CASE (TimerFlush \/ Settle) /\ UNCHANGED <<limitVars, pending>>
  <2>1. AuditTypeOK' /\ Now'
    BY <1>6, BufferStepsKeepAccounted DEF Settle
  <2>2. /\ phase' = phase /\ heldUp' = heldUp /\ pending' = pending
        /\ phase = "flushing" => buffer' = buffer
    BY <1>6 DEF TimerFlush, Settle, InsertAnswers, InsertRejects
  <2>. QED BY <2>1, <2>2, <1>0 DEF AuditInv, Now
<1>7. CASE Close /\ UNCHANGED <<limitVars, pending>>
  BY <1>7, <1>0 DEF Close, AuditInv, Now, AuditTypeOK
<1>8. CASE Exit /\ UNCHANGED <<limitVars, pending>>
  <2>1. AuditTypeOK' /\ Now'
    BY <1>8, BufferStepsKeepAccounted
  <2>2. phase = "flushing" /\ phase' = "down" /\ pending' = pending
    BY <1>8 DEF Exit, End
  <2>. QED BY <2>1, <2>2, <1>0 DEF AuditInv, Now
<1>9. CASE Shutdown
  <2>1. AuditTypeOK' /\ Now'
    BY <1>9, BufferStepsKeepAccounted DEF Shutdown
  <2>2. /\ phase' = "flushing" /\ pending = 0 /\ pending' = pending
        /\ heldUp' = (batch # <<>>) /\ Flush(buffer)
    BY <1>9 DEF Shutdown, OnApplicationShutdown
  <2>3. ~heldUp' => buffer' = <<>>
    BY <2>2 DEF Flush
  <2>. QED BY <2>1, <2>2, <2>3, <1>0 DEF AuditInv, Now
<1>10. CASE Dies
  <2>1. AuditTypeOK' /\ Now'
    BY <1>10, BufferStepsKeepAccounted DEF Dies
  <2>2. phase' = "down" /\ pending' = 0
    BY <1>10 DEF Dies, Crash, End
  <2>. QED BY <2>1, <2>2, <1>0 DEF AuditInv, Now
<1>11. CASE Starts
  BY <1>11, <1>0 DEF Starts, Restart, AuditInv, Now, AuditTypeOK
<1>12. CASE Tick /\ UNCHANGED <<auditVars, pending>>
  BY <1>12, <1>1, <1>0
<1>13. CASE UNCHANGED vars
  BY <1>13, <1>1, <1>0 DEF vars
<1>. QED BY <1>2, <1>3, <1>4, <1>5, <1>6, <1>7, <1>8, <1>9, <1>10, <1>11, <1>12, <1>13
         DEF ProcessNext

\* Every event recorded is waiting, being inserted, stored, dropped or gone with
\* its process, in order, whatever the sizes of the buffer and of the history.
THEOREM EventsAreAccounted == ProcessSpec => []EventsAccounted
<1>1. AuditInv => EventsAccounted
  BY DEF AuditInv, Accounted, EventsAccounted
<1>. QED BY <1>1, AuditInitially, AuditStep, PTL DEF ProcessSpec

=============================================================================
