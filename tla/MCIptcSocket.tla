----------------------------- MODULE MCIptcSocket -----------------------------
(* Small instances of IptcSocket for TLC.                                  *)
EXTENDS IptcSocket
=============================================================================
