------------------------------ MODULE AuditBuffer ------------------------------
(***************************************************************************)
(* AuditLogService: events wait in memory and are inserted in batches, by a   *)
(* timer, when there are bufferSize of them, and when the process stops.     *)
(*                                                                         *)
(* Events are numbered in the order they are recorded; their columns and the *)
(* truncation of toLegacySafeEntry are left out (a refused insert stands for *)
(* every reason).  The catch of flushBufferedLogs is left out: insertBatch    *)
(* never rejects.                                                          *)
(***************************************************************************)
EXTENDS Naturals, Sequences, FiniteSets, Functions

CONSTANTS BufferSize,   \* events that start a flush
          MaxEvents     \* bound on the events

ASSUME AuditAssumption == BufferSize \in Nat \ {0} /\ MaxEvents \in Nat

VARIABLES phase,      \* "up", "closing" (requests finish), "flushing"
                      \* (onApplicationShutdown waits) or "down"
          buffer,     \* events waiting
          batch,      \* flushInFlight: the events being inserted
          retry,      \* its first insert was refused
          recorded,   \* events recorded
          written,    \* events with a row (or two, after a lost answer) in audit_logs
          lost,       \* events dropped with an error logged, or gone with a process
          heldUp      \* the shutdown found a flush in flight

auditVars == <<phase, buffer, batch, retry, recorded, written, lost, heldUp>>

AuditInit ==
  /\ phase = "up"
  /\ buffer = <<>> /\ batch = <<>> /\ retry = FALSE
  /\ recorded = 0
  /\ written = {} /\ lost = {} /\ heldUp = FALSE

\* Faulty variant: a flush does not wait for the one in flight.
FlushAnyway(events) ==
  batch' = events /\ buffer' = <<>> /\ retry' = FALSE

\* flushBufferedLogs with these events in the buffer: while a flush is in flight
\* it takes nothing.
Flush(events) ==
  \/ batch # <<>> /\ buffer' = events /\ UNCHANGED <<batch, retry>>
  \/ batch = <<>> /\ batch' = events /\ buffer' = <<>> /\ retry' = FALSE

\* recordHttpEvent and recordDomainEvent.
Record ==
  /\ recorded < MaxEvents
  /\ recorded' = recorded + 1
  /\ LET events == Append(buffer, recorded + 1)
     IN  IF Len(events) >= BufferSize THEN Flush(events)
         ELSE buffer' = events /\ UNCHANGED <<batch, retry>>
  /\ UNCHANGED <<phase, written, lost, heldUp>>

\* The interval set by onModuleInit.
TimerFlush ==
  /\ phase \in {"up", "closing"} /\ buffer # <<>>
  /\ Flush(buffer)
  /\ UNCHANGED <<phase, recorded, written, lost, heldUp>>

InsertAnswers ==
  /\ batch # <<>>
  /\ written' = written \cup Range(batch)
  /\ batch' = <<>> /\ retry' = FALSE
  /\ UNCHANGED <<phase, buffer, recorded, lost, heldUp>>

\* Faulty variant: the batch is tried until it is taken.
RetryForever ==
  /\ batch # <<>>
  /\ retry' = ~retry
  /\ UNCHANGED <<phase, buffer, batch, recorded, written, lost, heldUp>>

\* insertBatch: an insert is refused, or commits and its answer is lost; the second
\* time the batch is dropped.
InsertRejects ==
  /\ batch # <<>>
  /\ written' \in {written, written \cup Range(batch)}
  /\ \/ ~retry /\ retry' = TRUE /\ UNCHANGED <<batch, lost>>
     \/ /\ retry /\ retry' = FALSE
        /\ batch' = <<>> /\ lost' = lost \cup Range(batch)
  /\ UNCHANGED <<phase, buffer, recorded, heldUp>>

\* SIGTERM: no new request is accepted.
Close ==
  /\ phase = "up" /\ phase' = "closing"
  /\ UNCHANGED <<buffer, batch, retry, recorded, written, lost, heldUp>>

\* onApplicationShutdown: the timer stops; a flush in flight is waited for instead
\* of the last one.
OnApplicationShutdown ==
  /\ phase = "closing" /\ phase' = "flushing"
  /\ heldUp' = (batch # <<>>)
  /\ Flush(buffer)
  /\ UNCHANGED <<recorded, written, lost>>

End ==
  /\ phase' = "down"
  /\ lost' = lost \cup Range(buffer) \cup Range(batch)
  /\ buffer' = <<>> /\ batch' = <<>> /\ retry' = FALSE
  /\ UNCHANGED <<recorded, heldUp>>

Exit == phase = "flushing" /\ batch = <<>> /\ End /\ UNCHANGED written

\* The process dies; an insert in flight may have committed.
Crash == phase # "down" /\ End /\ written' \in {written, written \cup Range(batch)}

Restart ==
  /\ phase = "down" /\ phase' = "up" /\ heldUp' = FALSE
  /\ UNCHANGED <<buffer, batch, retry, recorded, written, lost>>

-----------------------------------------------------------------------------
(* Properties.                                                             *)

\* Every event recorded is waiting, being inserted, stored, dropped with a log
\* line, or gone with its process; none overtakes another (what waits is newer than
\* what is inserted, and nothing newer than that is stored); and an orderly stop
\* leaves events behind only when it found a flush in flight.
EventsAccounted ==
  /\ 1 .. recorded \subseteq written \cup lost \cup Range(batch) \cup Range(buffer)
  /\ \A e \in Range(batch), f \in Range(buffer) : e < f
  /\ \A e \in Range(batch) \cup Range(buffer), f \in written :
       f > e => f \in Range(batch)
  /\ phase = "flushing" /\ ~heldUp => buffer = <<>>

\* Every event recorded is stored, dropped with a log line, or gone with its
\* process: no answer of the database keeps one waiting for ever.
EventsSettle ==
  \A e \in 1 .. MaxEvents : e <= recorded ~> e \in written \cup lost
=============================================================================
