---------------------------- MODULE MCHttpProxy ----------------------------
(* Small instances of HttpProxy for TLC. *)
EXTENDS HttpProxy
=============================================================================
