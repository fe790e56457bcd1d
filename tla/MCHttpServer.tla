--------------------------- MODULE MCHttpServer ---------------------------
(* Small instances of HttpServer for TLC. *)
EXTENDS HttpServer

CONSTANTS c1, c2, c3, c4

Four  == {c1, c2, c3, c4}
=============================================================================
