------------------------------- MODULE MCPortal -------------------------------
(* Small instances of Portal for TLC.                                      *)
EXTENDS Portal
=============================================================================
