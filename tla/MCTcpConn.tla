----------------------------- MODULE MCTcpConn -----------------------------
(* Small instances of TcpConn for TLC. *)
EXTENDS TcpConn

\* Two units one way, so that a buffer can be written in parts and a second
\* Read can follow the first. Both Pipes run; they run the same code.
TwoUp == [d \in Dirs |-> IF d = "send" THEN 2 ELSE 0]
OneUp == [d \in Dirs |-> IF d = "send" THEN 1 ELSE 0]
=============================================================================
