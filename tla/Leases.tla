------------------------------- MODULE Leases -------------------------------
(***************************************************************************)
(* What the bookkeeping of holes promises: every client the firewall lets  *)
(* through holds a lease with a deadline; a lease ends when it is revoked  *)
(* or, not before its deadline and not never, when it expires.  The        *)
(* detailed bookkeeping of cattivo/holes.py (module Holes) implements it.  *)
(***************************************************************************)
EXTENDS Naturals

CONSTANTS
    Clients,    \* client identities
    MaxTime,    \* bound on the clock
    Closed      \* "no lease", not a time

VARIABLES
    now,        \* Holes.now(), in ticks
    lease       \* lease[c]: deadline of the access of c, or Closed

vars == <<now, lease>>

TypeOK ==
    /\ now \in Nat
    /\ lease \in [Clients -> Nat \cup {Closed}]

Init ==
    /\ now = 0
    /\ lease = [c \in Clients |-> Closed]

Expired(c) == lease[c] # Closed /\ lease[c] <= now

Tick ==
    /\ now < MaxTime
    /\ now' = now + 1
    /\ UNCHANGED lease

\* The deadline is any later time, the one that lease'[c] says.
Grant(c) ==
    /\ lease[c] = Closed
    /\ lease'[c] \in Nat
    /\ lease'[c] > now
    /\ lease' = [lease EXCEPT ![c] = lease'[c]]
    /\ UNCHANGED now

Revoke(c) ==
    /\ lease[c] # Closed
    /\ lease' = [lease EXCEPT ![c] = Closed]
    /\ UNCHANGED now

Expire(c) ==
    /\ Expired(c)
    /\ lease' = [lease EXCEPT ![c] = Closed]
    /\ UNCHANGED now

Next ==
    \/ Tick
    \/ \E c \in Clients : Grant(c) \/ Revoke(c) \/ Expire(c)

Fairness == \A c \in Clients : WF_vars(Expire(c))

Spec == Init /\ [][Next]_vars

FairSpec == Spec /\ Fairness
=============================================================================
