------------------------------- MODULE Services -------------------------------
(***************************************************************************)
(* The life of the process: the services the launcher starts one after     *)
(* another (cattivo/launcher.py), how a stop or a failed start undoes      *)
(* them, and the service that reads the packets the kernel logs            *)
(* (firewall/iptables/nflog/) and posts the requests in them to a logger   *)
(* (logger/http/client.py).                                                *)
(*                                                                         *)
(* What the firewall has in the kernel is reduced to two facts: connections *)
(* are redirected, and which clients have a hole.  SystemFirewall has the  *)
(* rules.  A handler runs to its end; between two handlers the kernel may  *)
(* deliver packets, a signal may stop the reactor, and the process may be  *)
(* killed.  The kernel's rules survive the process, its sockets do not.    *)
(***************************************************************************)
EXTENDS Naturals, Sequences, SequencesExt

CONSTANTS
    Clients,   \* hosts behind the portal
    Packets,   \* what a host with a hole may send to port 80
    Extra,     \* servers asked for on the command line
    LogGroup,  \* firewall/log-group of the configuration
    MaxQueue   \* packets that fit into the socket's buffer

Body == {"none", "whole", "part", "bad"}

ASSUME ServicesAssumption ==
    /\ Packets \subseteq
           [source : Clients, options : 0..10, words : 5..15,
            flags : 0..15, body : Body]
    /\ Extra \subseteq {"clientlist-server", "logger-server"}
    /\ LogGroup \in Nat /\ MaxQueue \in Nat \ {0}

VARIABLES
    process,      \* down, running, stopping (reactor.stop was called), disconnected
    next,         \* place in Order of the service iterateStart is at
    resolving,    \* initialize waits for the authenticator's address
    triggers,     \* what runs "after shutdown"
    listening,    \* the services with a listening port
    transparent,  \* the bouncer's port accepts redirected connections
    redirects,    \* kernel: the rules of initialize are in force
    holes,        \* kernel: clients with rules of their own
    reader,       \* none, reading, stopped, or lost (the reactor dropped it)
    queue,        \* kernel: packets in the buffer of the netlink socket
    overrun,      \* kernel: the next read answers ENOBUFS
    congested,    \* kernel: drops packets until the buffer has been emptied
    posted,       \* the clients the last read posted a request of
    disturbed     \* history: killed, or a commit failed, since the last clean

starting == <<next, resolving>>
ports == <<listening, transparent>>
kernel == <<redirects, holes>>
socket == <<reader, queue, overrun, congested>>
vars == <<process, starting, triggers, ports, kernel, socket, posted, disturbed>>

-----------------------------------------------------------------------------
(* Starting.  Order is the order of iterateStart.                          *)

IfAsked(s) == IF s \in Extra THEN <<s>> ELSE <<>>

Asked == IfAsked("clientlist-server") \o IfAsked("logger-server")

\* Wrong: whom the portal lets through before the logger runs, nobody hears.
OrderLoggerLast ==
    <<"clientlist", "firewall", "bouncer", "cleaner", "logger">> \o Asked

Order == <<"clientlist", "firewall", "logger", "bouncer", "cleaner">> \o Asked

Alive == process # "down"
Serving == process \in {"running", "stopping"}

\* The next turn of the coiterator starts service s.
Starts(s) ==
    /\ Serving /\ ~resolving
    /\ next <= Len(Order) /\ Order[next] = s

Started == next' = next + 1 /\ UNCHANGED process

\* Wrong: notes the failure and goes on without the services that are missing.
StartErrorLogged == next' = Len(Order) + 1 /\ UNCHANGED process

\* The iterator is abandoned and the reactor told to stop.
StartError == next' = Len(Order) + 1 /\ process' = "stopping"

Boot ==
    /\ process = "down"
    /\ process' = "running"
    /\ UNCHANGED <<starting, triggers, ports, kernel, socket, disturbed>>

CreateClientList ==
    /\ Starts("clientlist")
    /\ Started \/ StartError
    /\ UNCHANGED <<resolving, triggers, ports, kernel, socket, disturbed>>

\* initialize: clean commits at once, then the address has to be resolved.
CreateFirewall ==
    /\ Starts("firewall")
    /\ \/ /\ redirects' = FALSE /\ holes' = {} /\ disturbed' = FALSE
          /\ resolving' = TRUE
          /\ UNCHANGED <<process, next>>
       \/ /\ StartError
          /\ disturbed' = TRUE
          /\ UNCHANGED <<kernel, resolving>>
    /\ UNCHANGED <<triggers, ports, socket>>

\* Wrong: nobody will call stopFirewall.
FirewallInitializedForgotten == UNCHANGED triggers

\* firewallInitializeCb
FirewallInitialized == triggers' = Append(triggers, "firewall")

\* resolveCb, and the callbacks behind it.  The address may be unknown, and a
\* commit may fail: the last one after its rules are in force.
Resolved ==
    /\ Serving /\ resolving
    /\ resolving' = FALSE
    /\ \/ /\ redirects' = TRUE
          /\ FirewallInitialized
          /\ Started
          /\ UNCHANGED disturbed
       \/ /\ StartError
          /\ UNCHANGED <<redirects, triggers, disturbed>>
       \/ /\ StartError
          /\ redirects' \in BOOLEAN
          /\ disturbed' = TRUE
          /\ UNCHANGED triggers
    /\ UNCHANGED <<holes, ports, socket>>

\* NFLog: open, bind the group, set the mode and the callback.  What fails behind
\* the bind leaves a socket that is bound and that nobody reads.
HalfOpen == {"none", "stopped"}

CreateLogger ==
    /\ Starts("logger")
    /\ \/ /\ Started
          /\ reader' = "reading"
          /\ triggers' = Append(triggers, "logger")
       \/ /\ StartError
          /\ reader' \in HalfOpen
          /\ UNCHANGED triggers
    /\ UNCHANGED <<resolving, ports, kernel, queue, overrun, congested, disturbed>>

\* setsockopt may fail when the port listens already.
CreateBouncer ==
    /\ Starts("bouncer")
    /\ \/ /\ Started
          /\ listening' = listening \cup {"bouncer"}
          /\ transparent' = TRUE
       \/ /\ StartError
          /\ listening' \in {listening, listening \cup {"bouncer"}}
          /\ UNCHANGED transparent
    /\ UNCHANGED <<resolving, triggers, kernel, socket, disturbed>>

CreateServer(s) ==
    /\ Starts(s)
    /\ \/ Started /\ listening' = listening \cup {s}
       \/ StartError /\ UNCHANGED listening
    /\ UNCHANGED <<resolving, triggers, transparent, kernel, socket, disturbed>>

CreateCleaner == CreateServer("cleaner")
CreateClientlistServer == CreateServer("clientlist-server")
CreateLogServer == CreateServer("logger-server")

StartStep ==
    \/ CreateClientList \/ CreateFirewall \/ CreateLogger \/ CreateBouncer
    \/ CreateCleaner \/ CreateClientlistServer \/ CreateLogServer

-----------------------------------------------------------------------------
(* Stopping.  The reactor closes all ports and readers "during shutdown"   *)
(* and then calls the triggers in the order they were added, each whatever *)
(* the others raised.                                                      *)

ReactorStop ==
    /\ process = "running"
    /\ process' = "stopping"
    /\ UNCHANGED <<starting, triggers, ports, kernel, socket, disturbed>>

StoppedReader == IF reader = "reading" THEN "stopped" ELSE reader

Disconnect ==
    /\ process = "stopping"
    /\ process' = "disconnected"
    /\ listening' = {} /\ transparent' = FALSE
    /\ reader' = StoppedReader
    /\ UNCHANGED <<starting, triggers, kernel, queue, overrun, congested, disturbed>>

StopFirewall ==
    \/ redirects' = FALSE /\ holes' = {} /\ UNCHANGED <<reader, disturbed>>
    \/ disturbed' = TRUE /\ UNCHANGED <<kernel, reader>>

StopLogger == reader' = StoppedReader /\ UNCHANGED <<kernel, disturbed>>

RunTrigger ==
    /\ process = "disconnected" /\ triggers # <<>>
    /\ triggers' = Tail(triggers)
    /\ CASE Head(triggers) = "firewall" -> StopFirewall
         [] Head(triggers) = "logger" -> StopLogger
    /\ UNCHANGED <<process, starting, ports, queue, overrun, congested>>

\* What a process leaves when it is gone.
Gone ==
    /\ process' = "down"
    /\ next' = 1 /\ resolving' = FALSE /\ triggers' = <<>>
    /\ listening' = {} /\ transparent' = FALSE
    /\ reader' = "none" /\ queue' = <<>>
    /\ overrun' = FALSE /\ congested' = FALSE
    /\ UNCHANGED kernel

Exit ==
    /\ process = "disconnected" /\ triggers = <<>>
    /\ Gone
    /\ UNCHANGED disturbed

Kill ==
    /\ Alive
    /\ Gone
    /\ disturbed' = TRUE

-----------------------------------------------------------------------------
(* Holes, as far as the logger is concerned: two rules per client in one   *)
(* commit (Portal and SystemFirewall have the rest).                       *)

HolesChange(set) ==
    /\ \/ holes' = set /\ UNCHANGED disturbed
       \/ disturbed' = TRUE /\ UNCHANGED holes
    /\ UNCHANGED <<process, starting, triggers, ports, redirects, socket>>

\* A client is let through because it asked the bouncer for a page.
Admit(c) ==
    /\ Serving /\ "bouncer" \in listening
    /\ c \notin holes
    /\ HolesChange(holes \cup {c})

\* By the timer or by the cleaner.
Expel(c) ==
    /\ Serving /\ c \in holes
    /\ HolesChange(holes \ {c})

-----------------------------------------------------------------------------
(* Packets.  The rule logs to group 2 whatever the configuration says.     *)

RuleGroup == 2

Bound == reader # "none" /\ LogGroup = RuleGroup

\* The kernel logs a packet.  A buffer that is full loses it, and what comes
\* until the reader has emptied the buffer.
Send(p) ==
    /\ redirects /\ p.source \in holes /\ Bound
    /\ IF congested \/ Len(queue) = MaxQueue
       THEN congested' = TRUE /\ overrun' = (overrun \/ ~congested) /\ UNCHANGED queue
       ELSE queue' = Append(queue, p) /\ UNCHANGED <<overrun, congested>>
    /\ UNCHANGED <<process, starting, triggers, ports, kernel, reader, disturbed>>

\* The TCP header's length in 32 bit words shares a byte with flags.  What
\* the IP layer hands on starts 20 bytes into the packet: if the IP header
\* has options, inside of it, and another byte stands in that place.
Byte12(p) == IF p.options = 0 THEN {p.words * 16 + p.flags} ELSE 0..255

HeadersLength(p) == (p.options + p.words) * 4
BodyLength(p) == IF p.body = "none" THEN 0 ELSE 16
DataLength(p) == HeadersLength(p) + BodyLength(p)

\* Wrong: takes words for bytes.
DataOffsetWords(byte) == byte \div 16

DataOffset(byte) == byte \div 4

\* datagramReceived: what the HTTP channel may be given, if anything.  Cut in
\* the wrong place, a request may still be one, lack its end, or be no HTTP.
Received(p) ==
    UNION {IF DataLength(p) < 20 \/ DataOffset(b) >= DataLength(p) THEN {"none"}
           ELSE IF DataOffset(b) = HeadersLength(p) THEN {p.body}
           ELSE {p.body, "part", "bad"} : b \in Byte12(p)}

\* requestReceived, logHTTP: the client a request is posted of.
Posted(p, data) == IF data = "whole" THEN {p.source} ELSE {}

\* doRead, by way of nfnl_catch, with the callback.  A channel has one packet:
\* a request is logged if that packet has all of it.  Where the HTTP code
\* answers, the transport has no write() and the callback raises; what ctypes
\* then returns to the library is undefined, and the library may fail.
DoRead ==
    /\ Serving /\ reader = "reading"
    /\ IF overrun
       THEN /\ overrun' = FALSE /\ posted' = {}
            /\ UNCHANGED <<reader, queue, congested>>
       ELSE /\ queue # <<>>
            /\ queue' = Tail(queue)
            /\ congested' = (congested /\ queue' # <<>>)
            /\ \E data \in Received(Head(queue)) :
                  /\ posted' = Posted(Head(queue), data)
                  /\ reader' \in IF data = "bad"
                                 THEN {"reading", "lost"} ELSE {"reading"}
            /\ UNCHANGED overrun
    /\ UNCHANGED <<process, starting, triggers, ports, kernel, disturbed>>

\* Any other error: CONNECTION_LOST is not defined here, and the reactor drops
\* a reader that raises, as it would drop one that is lost.
ReadFails ==
    /\ Serving /\ reader = "reading"
    /\ reader' = "lost"
    /\ UNCHANGED <<process, starting, triggers, ports, kernel, queue, overrun,
                   congested, disturbed>>

-----------------------------------------------------------------------------
Init ==
    /\ process = "down" /\ next = 1 /\ resolving = FALSE /\ triggers = <<>>
    /\ listening = {} /\ transparent = FALSE
    /\ redirects = FALSE /\ holes = {}
    /\ reader = "none" /\ queue = <<>> /\ overrun = FALSE /\ congested = FALSE
    /\ posted = {} /\ disturbed = FALSE

Unread ==
    \/ Boot \/ StartStep \/ Resolved
    \/ ReactorStop \/ Disconnect \/ RunTrigger \/ Exit \/ Kill
    \/ \E c \in Clients : Admit(c) \/ Expel(c)
    \/ \E p \in Packets : Send(p)
    \/ ReadFails

Next == DoRead \/ (Unread /\ posted' = {})

\* The reactor calls what is due, reads what is readable and ends a shutdown;
\* the resolver answers or times out.  Nobody has to stop or start the program.
Fairness ==
    /\ WF_vars(StartStep /\ posted' = {}) /\ WF_vars(Resolved /\ posted' = {})
    /\ WF_vars(Disconnect /\ posted' = {}) /\ WF_vars(RunTrigger /\ posted' = {})
    /\ WF_vars(Exit /\ posted' = {}) /\ WF_vars(DoRead)

Spec == Init /\ [][Next]_vars /\ Fairness

-----------------------------------------------------------------------------
(* Properties.                                                             *)

TypeOK ==
    /\ process \in {"down", "running", "stopping", "disconnected"}
    /\ next \in 1..(Len(Order) + 1) /\ resolving \in BOOLEAN
    /\ triggers \in Seq({"firewall", "logger"})
    /\ listening \subseteq ToSet(Order) /\ transparent \in BOOLEAN
    /\ redirects \in BOOLEAN /\ holes \subseteq Clients
    /\ reader \in {"none", "reading", "stopped", "lost"}
    /\ queue \in Seq(Packets) /\ Len(queue) <= MaxQueue
    /\ overrun \in BOOLEAN /\ congested \in BOOLEAN
    /\ posted \subseteq Clients /\ disturbed \in BOOLEAN

\* While a client is let through, the logger's socket is being read: the
\* logger is started before the first client can come (launcher.py:180-181) and
\* goes away with the rules that log.  A read that fails excepts it: the
\* reactor drops the reader (server.py:45-49) and nobody is heard from then on.
HolesAreHeard ==
    (Serving /\ ~disturbed /\ holes # {} /\ reader # "lost") => reader = "reading"

\* A program that ends, at whatever point of its start it was stopped or failed,
\* leaves neither the redirection nor a hole behind (launcher.py:69-73).
StopLeavesNoRedirection ==
    (process = "down" /\ ~disturbed) => ~redirects /\ holes = {}

\* Connections are redirected before there is a bouncer to answer them; either
\* the bouncer follows or the redirection is taken back (launcher.py:191-193).
RedirectionIsServed == redirects ~> (transparent \/ ~redirects \/ disturbed)

\* A whole request behind headers the code can measure: no options in the IP
\* header, and the upper two bits that share a byte with the length clear.
Measurable(p) == p.options = 0 /\ p.flags < 4

InQueue(c) ==
    \E i \in DOMAIN queue :
        queue[i].source = c /\ queue[i].body = "whole" /\ Measurable(queue[i])

\* A whole request in a queued packet that can be measured is posted, whatever
\* was queued before it, packets cut in the wrong place included
\* (logger.py:61-87), unless a read or a callback fails first and the reactor
\* drops the reader, or the program ends.
WholeRequestsArePosted ==
    \A c \in Clients :
        (InQueue(c) /\ reader = "reading")
            ~> (c \in posted \/ reader = "lost" \/ ~Serving)
=============================================================================
