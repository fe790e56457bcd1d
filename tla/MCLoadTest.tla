---------------------------- MODULE MCLoadTest ----------------------------
(* Small instances of LoadTest for TLC. *)
EXTENDS LoadTest

\* Kinds of scenarios as in DefaultScenarios: a large payload, a connection
\* limit, and HTTP.
Large == [Mode |-> "tcp", MaxConns |-> 0, Validate |-> FALSE, Fits |-> FALSE]
Limited == [Mode |-> "tcp", MaxConns |-> 1, Validate |-> TRUE, Fits |-> TRUE]
Web == [Mode |-> "http", MaxConns |-> 0, Validate |-> FALSE, Fits |-> TRUE]
Three == <<Limited, Web, Large>>
=============================================================================
