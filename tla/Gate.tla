-------------------------------- MODULE Gate --------------------------------
(***************************************************************************)
(* What the portal wants of the system firewall: every client either       *)
(* passes, and is logged while it does, or does not, and one operation     *)
(* changes at most one client, at once.  Only starting and stopping the    *)
(* portal may turn everybody away together.  Module SystemFirewall, the    *)
(* rules of cattivo/firewall/iptables/base.py, implements it.              *)
(***************************************************************************)
CONSTANT Clients

VARIABLE gate       \* gate[c]: may c pass?

vars == <<gate>>

Init == gate = [c \in Clients |-> "shut"]

Open(c) ==
    /\ gate[c] = "shut"
    /\ gate' = [gate EXCEPT ![c] = "open"]

Shut(c) ==
    /\ gate[c] = "open"
    /\ gate' = [gate EXCEPT ![c] = "shut"]

ShutAll == gate' = [c \in Clients |-> "shut"]

Next ==
    \/ \E c \in Clients : Open(c) \/ Shut(c)
    \/ ShutAll

Spec == Init /\ [][Next]_vars
=============================================================================
