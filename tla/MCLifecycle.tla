---------------------------- MODULE MCLifecycle ----------------------------
(* Lifecycle for TLC; its constants are strings, numbers and Booleans. *)
EXTENDS Lifecycle
=============================================================================
