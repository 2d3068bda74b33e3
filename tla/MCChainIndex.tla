----------------------------- MODULE MCChainIndex -----------------------------
(* Small instances of ChainIndex for TLC.                                  *)
EXTENDS ChainIndex

\* Addresses that compare before, between and beyond the names.
MCAddress == [o \in Objects \cup {BuiltIn} |->
                IF o = BuiltIn THEN 3 ELSE (2 * o - 1) % 8]
=============================================================================
