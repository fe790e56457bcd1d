---------------------------- MODULE MCTcpServer ----------------------------
(* Small instances of TcpServer for TLC. *)
EXTENDS TcpServer

CONSTANTS c1, c2, c3, c4

Four  == {c1, c2, c3, c4}
=============================================================================
