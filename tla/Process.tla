-------------------------------- MODULE Process --------------------------------
(***************************************************************************)
(* One API process: the guard counts a request before its handler runs, the  *)
(* interceptor or the exception filter records it when it ends, and a stop or *)
(* a crash ends the memory of both.                                         *)
(***************************************************************************)
EXTENDS RateLimit, AuditBuffer

VARIABLES pending    \* requests being handled

vars == <<limitVars, auditVars, pending>>

ProcessInit == RateLimitInit /\ AuditInit /\ pending = 0

MayArrive == phase = "up" /\ pending + recorded < MaxEvents

Admit(k) ==
  /\ MayArrive /\ Allow(k)
  /\ pending' = pending + 1
  /\ UNCHANGED auditVars

\* A route the guard does not count (@SkipRateLimit, health).
Pass ==
  /\ MayArrive
  /\ pending' = pending + 1
  /\ UNCHANGED <<limitVars, auditVars>>

\* 429: the exception filter records the refusal and answers.
TurnAway(k) ==
  /\ MayArrive /\ Refuse(k) /\ Record
  /\ UNCHANGED pending

\* A service records a domain event; the interceptor or the exception filter
\* records the end of the request.
Handle ==
  /\ pending > 0 /\ phase # "down"
  /\ Record
  /\ pending' \in {pending, pending - 1}
  /\ UNCHANGED limitVars

\* The hooks run when the requests have ended.
Shutdown ==
  /\ pending = 0 /\ OnApplicationShutdown
  /\ UNCHANGED <<limitVars, pending>>

Dies ==
  /\ Crash
  /\ pending' = 0
  /\ UNCHANGED limitVars

Starts == Restart /\ Forget /\ UNCHANGED pending

Settle == InsertAnswers \/ InsertRejects

ProcessNext ==
  \/ \E k \in Keys : Admit(k) \/ TurnAway(k)
  \/ Pass \/ Handle
  \/ (TimerFlush \/ Settle \/ Close \/ Exit) /\ UNCHANGED <<limitVars, pending>>
  \/ Shutdown \/ Dies \/ Starts
  \/ Tick /\ UNCHANGED <<auditVars, pending>>

\* setInterval fires again and again, the pool answers or rejects every insert, and
\* a process whose hooks have ended exits.
ProcessFairness ==
  /\ WF_vars(TimerFlush /\ UNCHANGED <<limitVars, pending>>)
  /\ WF_vars(Settle /\ UNCHANGED <<limitVars, pending>>)
  /\ WF_vars(Exit /\ UNCHANGED <<limitVars, pending>>)

ProcessSpec == ProcessInit /\ [][ProcessNext]_vars /\ ProcessFairness
=============================================================================
