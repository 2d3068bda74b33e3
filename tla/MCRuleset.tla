----------------------------- MODULE MCRuleset -----------------------------
(* Small instances of Ruleset for TLC.                                     *)
EXTENDS Ruleset
=============================================================================
