------------------------------- MODULE MCProcess -------------------------------
(* Model-checking instance of Process: a route that admits one request in a    *)
(* window of two ticks and one that admits two; the second window of each      *)
(* opens within the bound of the clock.                                      *)
EXTENDS Process, TLC

MCLimit == [k \in Keys |-> IF k = "login" THEN 1 ELSE 2]
MCTtl == [k \in Keys |-> 2]
=============================================================================
