SPECIFICATION ProcessSpec
CONSTANTS
  Keys = {"login", "list"}
  Limit <- MCLimit
  Ttl <- MCTtl
  PruneAt = 1
  NoEntry = none
  MaxTime = 2
  BufferSize = 2
  MaxEvents = 4
\* The clock and the number of events are bounded.
CHECK_DEADLOCK FALSE
INVARIANTS
  AdmissionsBounded
  RefusalsEarned
  EventsAccounted
PROPERTIES
  EventsSettle
