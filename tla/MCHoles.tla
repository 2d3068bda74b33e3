------------------------------- MODULE MCHoles -------------------------------
(* Small instances of Holes for TLC.                                       *)
EXTENDS Holes
=============================================================================
