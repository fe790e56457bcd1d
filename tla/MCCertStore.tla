---------------------------- MODULE MCCertStore ----------------------------
(* CertStore for TLC; its constants are numbers and Booleans. *)
EXTENDS CertStore
=============================================================================
