--------------------------- MODULE MCSystemFirewall ---------------------------
(* Small instances of SystemFirewall for TLC.                              *)
EXTENDS SystemFirewall

\* Clients are interchangeable, and so are other processes' rules.
Symmetry == Permutations(Clients) \cup Permutations(Foreign)
=============================================================================
