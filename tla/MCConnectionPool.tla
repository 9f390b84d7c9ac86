--------------------------- MODULE MCConnectionPool --------------------------
(* Model-checking instance of ConnectionPool: fewer requests that take the    *)
(* lock than connections.                                                     *)
EXTENDS ConnectionPool

ASSUME FewerThanConnections == Cardinality(Locking) < PoolSize
=============================================================================
