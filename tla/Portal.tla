-------------------------------- MODULE Portal --------------------------------
(***************************************************************************)
(* The captive portal around the bookkeeping of holes: the bouncer asks    *)
(* the firewall about every HTTP request that TPROXY diverted to it        *)
(* (cattivo/bouncer/http.py, cattivo/firewall/firewall.py), the firewall   *)
(* asks the client list server (cattivo/clientlist/http/) and opens a hole *)
(* for what is left of the client's session, and the cleaner               *)
(* (cattivo/cleaner/http.py) removes holes on request.                     *)
(*                                                                         *)
(* A lookup is a page fetched without blocking: between the question and   *)
(* its answer anything else may run, other lookups for the same client     *)
(* included.  The holes are those of module Holes, whose actions are the   *)
(* calls the handlers make.                                                *)
(***************************************************************************)
EXTENDS Integers, Sequences, FiniteSets

CONSTANTS
    Ips,        \* client hosts
    Ports,      \* ports their connections come from: never 0
    Requests,   \* HTTP requests the bouncer ever gets
    Lengths,    \* lengths of the sessions the authenticator grants
    MaxSessions,    \* bound on the sessions granted to a host
    MaxTime, MaxAdds, Faults, Ties, None    \* as in Holes

\* Sessions end within the bound on the clock.
ASSUME PortalAssumption ==
    /\ Ports \subseteq Nat \ {0}
    /\ MaxTime \in Nat
    /\ Lengths \subseteq 1..MaxTime

VARIABLES
    now, serial, holes, queue, timer, fw, resched, clearing, error, \* Holes
    clients,    \* the client list server's dictionary, by host
    granted,    \* history: when the sessions of a host end, ever granted
    request,    \* what the bouncer knows of each request
    phase,      \* "running", "stopping" or "stopped"
    stuck       \* history: clients of whom removing a hole has raised

bookVars == <<now, serial, holes, queue, timer, fw, resched, clearing, error>>

vars == <<bookVars, clients, granted, request, phase, stuck>>

\* The client list knows hosts, not connections: ids in it have port 0.
ClientIds == Ips \X {0}

H == INSTANCE Holes WITH Clients <- ClientIds, Durations <- 1..MaxTime

ASSUME PortalNoneAssumption == None \notin H!Entry

-----------------------------------------------------------------------------
\* Wrong: an answer with a key missing.
NoLoginTime == [expiration |-> 0]

\* What the server answers of a host that has no session.
NotAuthenticated == [login_time |-> 0, expiration |-> 0]

Status == [login_time : Nat, expiration : Nat]

Fresh == [stage |-> "fresh"]

Src == Ips \X Ports

Request ==
    {Fresh} \cup [stage : {"asked", "allowed", "refused"}, src : Src]
            \cup [stage : {"told", "arrived"}, src : Src, status : Status]

TypeOK ==
    /\ H!TypeOK
    /\ clients \in [Ips -> Status]
    /\ granted \in [Ips -> SUBSET Nat]
    /\ request \in [Requests -> Request]
    /\ phase \in {"running", "stopping", "stopped"}
    /\ stuck \subseteq ClientIds

Init ==
    /\ H!Init
    /\ clients = [ip \in Ips |-> NotAuthenticated]
    /\ granted = [ip \in Ips |-> {}]
    /\ request = [r \in Requests |-> Fresh]
    /\ phase = "running"
    /\ stuck = {}

Running == phase = "running" /\ H!Idle

Asked(r) == request[r].stage = "asked"
Told(r) == request[r].stage = "told"
Arrived(r) == request[r].stage = "arrived"

\* find(client_id): ids the client list does not use are never found.
Found(id) == id \in ClientIds /\ H!Has(id)

HostId(src) == <<src[1], 0>>

Settle(r, verdict) ==
    request' = [request EXCEPT ![r] = [stage |-> verdict, src |-> @.src]]

-----------------------------------------------------------------------------
(* The authenticator, outside this program, starts and ends sessions.      *)

Login(ip, length) ==
    /\ clients[ip].expiration = 0
    /\ Cardinality(granted[ip]) < MaxSessions
    /\ clients' = [clients EXCEPT ![ip] =
                      [login_time |-> now, expiration |-> length]]
    /\ granted' = [granted EXCEPT ![ip] = @ \cup {now + length}]
    /\ UNCHANGED <<bookVars, request, phase, stuck>>

Logout(ip) ==
    /\ clients[ip].expiration > 0
    /\ clients' = [clients EXCEPT ![ip] = NotAuthenticated]
    /\ UNCHANGED <<bookVars, granted, request, phase, stuck>>

-----------------------------------------------------------------------------
(* The bouncer and the lookup behind it.                                   *)

\* BouncerResource.getChild and clientAllowed, with the address and port
\* the request came from.
Ask(r, src) ==
    /\ Running
    /\ request[r] = Fresh
    /\ request' = [request EXCEPT ![r] =
          [stage |-> IF Found(src) THEN "allowed" ELSE "asked", src |-> src]]
    /\ UNCHANGED <<bookVars, clients, granted, phase, stuck>>

\* ClientResource.render_GET looks the host up; the answer is on its way,
\* for as long as it takes: getPage is given no timeout.
Tell(r) ==
    /\ Asked(r)
    /\ request' = [request EXCEPT ![r] =
          [stage |-> "told", src |-> @.src, status |-> clients[@.src[1]]]]
    /\ UNCHANGED <<bookVars, clients, granted, phase, stuck>>

\* The whole page is there.
Arrive(r) ==
    /\ Told(r)
    /\ request' = [request EXCEPT ![r] =
          [stage |-> "arrived", src |-> @.src, status |-> @.status]]
    /\ UNCHANGED <<bookVars, clients, granted, phase, stuck>>

\* The page cannot be fetched: _getClientEb.
LookupFails(r) ==
    /\ Running
    /\ Asked(r) \/ Told(r)
    /\ Settle(r, "refused")
    /\ UNCHANGED <<bookVars, clients, granted, phase, stuck>>

\* Wrong: a session of the same length from now on.
TimeLeftWhole(status) == status.expiration

TimeLeft(status) == status.expiration - (now - status.login_time)

\* Wrong: a client that has a hole already needs no other.
SettleDuplicate(r) == Settle(r, "allowed")

\* Wrong: an exception that nothing catches leaves the request waiting.
SettleNever(r) == UNCHANGED request

\* An exception on the way ends in _getClientEb, a HoleError of
\* Holes.add included.
SettleRaised(r) == Settle(r, "refused")

\* _getClientCb: a hole for what is left of the session.
Answer(r) ==
    LET status == request[r].status
        id == HostId(request[r].src)
    IN
    /\ Running
    /\ Arrived(r)
    /\ \/ /\ TimeLeft(status) <= 0 \/ status.expiration = 0
          /\ Settle(r, "refused")
          /\ UNCHANGED bookVars
       \/ /\ TimeLeft(status) > 0 /\ status.expiration > 0
          /\ \/ H!Add(id, TimeLeft(status)) /\ Settle(r, "allowed")
             \/ /\ H!AddRaises(id, TimeLeft(status)) \/ H!AddDuplicate(id)
                /\ SettleRaised(r)
    /\ UNCHANGED <<clients, granted, phase, stuck>>

-----------------------------------------------------------------------------
(* The cleaner, the reactor and the end of the program.                    *)

\* Removals that raise take the hole out of the books all the same.
RecordStuck ==
    stuck' = stuck \cup
        {c \in ClientIds : H!Has(c) /\ holes'[c] = None /\ error' # "none"}

\* RemoveResource.getChild and removeClient.
Clean(ip) ==
    /\ Running
    /\ H!RemoveHole(<<ip, 0>>)
    /\ RecordStuck
    /\ UNCHANGED <<clients, granted, request, phase>>

\* The timer, and the loops that handlers run before another can start.
Reactor ==
    /\ phase = "running"
    /\ H!HoleExpired \/ H!CatchUp \/ H!Reschedule
    /\ RecordStuck
    /\ UNCHANGED <<clients, granted, request, phase>>

Tick ==
    /\ H!Tick
    /\ UNCHANGED <<clients, granted, request, phase, stuck>>

\* Launcher.stopFirewall after the reactor has stopped: removeAll first.
Stop ==
    /\ Running
    /\ phase' = "stopping"
    /\ H!RemoveAll \/ (queue = <<>> /\ UNCHANGED bookVars)
    /\ UNCHANGED <<clients, granted, request, stuck>>

\* What it does, removal by removal; an exception leaves stopFirewall.
StopNext ==
    /\ phase = "stopping"
    /\ H!ClearNext \/ H!CatchUp \/ H!Reschedule
    /\ phase' = IF error' = "none" THEN phase ELSE "stopped"
    /\ RecordStuck
    /\ UNCHANGED <<clients, granted, request>>

\* Then the system firewall is cleaned, which ends in a commit that may raise
\* before or after it takes effect (SystemFirewall has both halves of it).
StopClean ==
    /\ phase = "stopping"
    /\ H!Idle
    /\ phase' = "stopped"
    /\ \/ fw' = [c \in ClientIds |-> 0] /\ UNCHANGED error
       \/ /\ Faults # {}
          /\ error' = "FirewallError"
          /\ UNCHANGED fw \/ fw' = [c \in ClientIds |-> 0]
    /\ UNCHANGED <<now, serial, holes, queue, timer, resched, clearing>>
    /\ UNCHANGED <<clients, granted, request, stuck>>

Next ==
    \/ \E ip \in Ips : Logout(ip) \/ Clean(ip)
    \/ \E ip \in Ips, length \in Lengths : Login(ip, length)
    \/ \E r \in Requests, src \in Src : Ask(r, src)
    \/ \E r \in Requests : Tell(r) \/ Arrive(r) \/ LookupFails(r) \/ Answer(r)
    \/ Reactor
    \/ Tick
    \/ Stop
    \/ StopNext
    \/ StopClean

Spec == Init /\ [][Next]_vars

\* The reactor runs the callback of a page that has arrived and the call
\* that is due.  Nothing makes anybody log in, ask or stop, nor the client
\* list answer, or the connection to it break.
Fairness ==
    /\ \A r \in Requests : WF_vars(Answer(r))
    /\ WF_vars(Reactor)

FairSpec == Spec /\ Fairness

-----------------------------------------------------------------------------
(* Properties.                                                             *)

\* A client told that it may pass can pass: its rule is in the firewall
\* when the answer is given.
YesMeansOpen ==
    [][\A r \in Requests :
          request'[r].stage = "allowed" /\ request[r].stage # "allowed" =>
              fw'[HostId(request'[r].src)] > 0]_vars

\* The end recorded for a hole is the end of a session that its host was
\* granted, however late the answer of the client list arrived and whatever
\* was cleaned meanwhile.  (That the hole is closed then is for Holes.)
WithinSession ==
    \A ip \in Ips :
        H!Has(<<ip, 0>>) => holes[<<ip, 0>>].deadline \in granted[ip]

\* The firewall's rules of a host are those the books call for: two
\* answers for one host never open it twice, a host without a hole has a
\* rule only if removing its hole has raised at some time, and none of this
\* depends on when answers, removals, the timer and the end of the program
\* come, nor on what the firewall does to other hosts.
RuleNeedsHole ==
    \A c \in ClientIds \ stuck : fw[c] <= IF H!Has(c) THEN 1 ELSE 0

\* A question whose answer has arrived is answered, whatever the callback
\* and the timer before it run into, unless the program stops.  Whether
\* the answer arrives is up to the client list.
Answered ==
    \A r \in Requests :
        Arrived(r) ~>
            request[r].stage \in {"allowed", "refused"} \/ phase # "running"

\* firewall.py, clientAllowed: answering False to a client that has a hole
\* "should NEVER happen", the client list having been asked or not.
NeverRefusedWithHole ==
    [][\A r \in Requests :
          request'[r].stage = "refused" /\ Arrived(r) =>
              ~H!Has(HostId(request[r].src))]_vars
=============================================================================
