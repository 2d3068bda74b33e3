---------------------------- MODULE ServicesProofs ----------------------------
(***************************************************************************)
(* Theorems about Services, for any clients and packets, whatever servers  *)
(* are asked for, and wherever a start fails, is stopped or is killed.     *)
(***************************************************************************)
EXTENDS Services, TLAPS

Registered == \E i \in 1..Len(triggers) : triggers[i] = "firewall"

InService == "bouncer" \in listening

(* What the proofs need of the types.                                      *)
Types ==
    /\ process \in {"down", "running", "stopping", "disconnected"}
    /\ next \in Nat \ {0}
    /\ triggers \in Seq({"firewall", "logger"})

\* How far the start has come, and what must be there by then.
Progress ==
    /\ resolving => next = 2
    /\ next <= 3 => reader = "none"
    /\ next <= 4 => ~InService
    /\ process = "down" => next = 1
    /\ (Serving /\ (next = 4 \/ InService)) => reader \in {"reading", "lost"}
    /\ (Serving /\ (next \in {3, 4} \/ InService)) => Registered

\* Whatever is in the kernel somebody is going to take away.
Undone == (Alive /\ ~disturbed /\ (redirects \/ holes # {})) => Registered

Heard == (Serving /\ ~disturbed /\ holes # {}) => reader \in {"reading", "lost"}

Inv == Types /\ Progress /\ Undone /\ Heard /\ StopLeavesNoRedirection

-----------------------------------------------------------------------------
(* The order of iterateStart begins with the three services that matter    *)
(* here, and they are started once.                                        *)
LEMMA OrderShape ==
    /\ Len(Order) \in Nat /\ Len(Order) >= 5
    /\ Order[1] = "clientlist" /\ Order[2] = "firewall"
    /\ Order[3] = "logger" /\ Order[4] = "bouncer"
    /\ \A i \in 5..Len(Order) :
           Order[i] \in {"cleaner", "clientlist-server", "logger-server"}
<1> DEFINE S == {"clientlist-server", "logger-server"}
<1>a. ASSUME NEW s \in S PROVE IfAsked(s) \in Seq(S)
  <2>1. CASE s \in Extra
    <3>1. <<s>> \in Seq(S)
      OBVIOUS
    <3> QED
      BY <2>1, <3>1 DEF IfAsked
  <2>2. CASE s \notin Extra
    <3>1. << >> \in Seq(S)
      OBVIOUS
    <3> QED
      BY <2>2, <3>1 DEF IfAsked
  <2> QED
    BY <2>1, <2>2
<1>b. /\ IfAsked("clientlist-server") \in Seq(S)
      /\ IfAsked("logger-server") \in Seq(S)
  BY <1>a
<1>1. Asked \in Seq(S)
  <2> HIDE DEF S
  <2> QED
    BY <1>b DEF Asked
<1>2. PICK n \in Nat : Len(Asked) = n
  BY <1>1
<1> DEFINE first == <<"clientlist", "firewall", "logger", "bouncer", "cleaner">>
<1>3. Order = first \o Asked
  BY DEF Order
<1>4. Len(Order) = 5 + n
  BY <1>1, <1>2, <1>3
<1>5. \A i \in 1..5 : Order[i] = first[i]
  BY <1>1, <1>3
<1>6. ASSUME NEW i \in 6..Len(Order)
      PROVE  Order[i] \in {"clientlist-server", "logger-server"}
  <2>1. /\ Order[i] = Asked[i - 5]
        /\ i - 5 \in 1..Len(Asked)
    BY <1>1, <1>2, <1>3, <1>4, <1>6
  <2> QED
    BY <1>1, <2>1
<1> QED
  BY <1>2, <1>4, <1>5, <1>6

\* A service is started at its place in the order.
LEMMA Place ==
    ASSUME NEW s, Types, Starts(s)
    PROVE  /\ s = "clientlist" => next = 1
           /\ s = "firewall" => next = 2
           /\ s = "logger" => next = 3
           /\ s = "bouncer" => next = 4
           /\ s \in {"cleaner", "clientlist-server", "logger-server"} => next >= 5
<1>1. next \in Nat \ {0} /\ next <= Len(Order) /\ Order[next] = s
  BY DEF Types, Starts
<1>2. next \in {1, 2, 3, 4} \/ next \in 5..Len(Order)
  BY <1>1, OrderShape
<1> QED
  BY <1>1, <1>2, OrderShape

\* A trigger that is added keeps the others.
LEMMA KeepsRegistered ==
    ASSUME Types, NEW t \in {"firewall", "logger"},
           triggers' = Append(triggers, t)
    PROVE  /\ triggers' \in Seq({"firewall", "logger"})
           /\ (Registered \/ t = "firewall") => Registered'
<1>1. /\ triggers' \in Seq({"firewall", "logger"})
      /\ Len(triggers') = Len(triggers) + 1
      /\ \A i \in 1..Len(triggers) : triggers'[i] = triggers[i]
      /\ triggers'[Len(triggers) + 1] = t
  BY DEF Types
<1>2. Len(triggers) \in Nat
  BY DEF Types
<1>3. ASSUME Registered PROVE Registered'
  BY <1>1, <1>2, <1>3 DEF Registered
<1>4. ASSUME t = "firewall" PROVE Registered'
  <2>1. Len(triggers) + 1 \in 1..Len(triggers')
    BY <1>1, <1>2
  <2> QED
    BY <1>1, <1>4, <2>1 DEF Registered
<1> QED
  BY <1>1, <1>3, <1>4

\* A trigger that has run takes only itself out.
LEMMA RunsRegistered ==
    ASSUME Types, triggers # <<>>, triggers' = Tail(triggers)
    PROVE  /\ Head(triggers) \in {"firewall", "logger"}
           /\ triggers' \in Seq({"firewall", "logger"})
           /\ (Registered /\ Head(triggers) # "firewall") => Registered'
<1>1. /\ Head(triggers) \in {"firewall", "logger"}
      /\ Head(triggers) = triggers[1]
      /\ triggers' \in Seq({"firewall", "logger"})
      /\ Len(triggers') = Len(triggers) - 1
      /\ \A i \in 1..Len(triggers') : triggers'[i] = triggers[i + 1]
      /\ Len(triggers) \in Nat
  BY DEF Types
<1>2. ASSUME Registered, Head(triggers) # "firewall" PROVE Registered'
  <2>1. PICK i \in 1..Len(triggers) : triggers[i] = "firewall"
    BY <1>2 DEF Registered
  <2>2. i - 1 \in 1..Len(triggers') /\ triggers'[i - 1] = triggers[i]
    BY <1>1, <1>2, <2>1
  <2> QED
    BY <2>1, <2>2 DEF Registered
<1> QED
  BY <1>1, <1>2

-----------------------------------------------------------------------------
(* The steps of a start.                                                   *)

\* What a failure leaves: the iterator is past the end, the reactor stopping.
LEMMA AfterStartError ==
    ASSUME StartError
    PROVE  next' \in Nat /\ next' >= 6 /\ process' = "stopping"
  BY OrderShape DEF StartError

LEMMA ClientListStep == Inv /\ CreateClientList => Inv'
<1> SUFFICES ASSUME Inv, CreateClientList PROVE Inv'
  OBVIOUS
<1>1. next = 1 /\ Serving
  BY Place DEF CreateClientList, Inv, Starts
<1>2. UNCHANGED <<resolving, triggers, listening, redirects, holes, reader, disturbed>>
  BY DEF CreateClientList, ports, kernel, socket
<1>3. Registered' <=> Registered
  BY <1>2 DEF Registered
<1>4. CASE Started
  BY <1>1, <1>2, <1>3, <1>4 DEF Started, Inv, Types, Progress, Undone, Heard,
     StopLeavesNoRedirection, InService, Serving, Alive
<1>5. CASE StartError
  BY <1>1, <1>2, <1>3, <1>5, AfterStartError DEF Inv, Types, Progress, Undone, Heard,
     StopLeavesNoRedirection, InService, Serving, Alive, CreateClientList, Starts
<1> QED
  BY <1>4, <1>5 DEF CreateClientList

LEMMA FirewallStep == Inv /\ CreateFirewall => Inv'
<1> SUFFICES ASSUME Inv, CreateFirewall PROVE Inv'
  OBVIOUS
<1>1. next = 2 /\ Serving /\ ~resolving
  BY Place DEF CreateFirewall, Inv, Starts
<1>2. UNCHANGED <<triggers, listening, reader>>
  BY DEF CreateFirewall, ports, socket
<1>3. Registered' <=> Registered
  BY <1>2 DEF Registered
<1>4. CASE StartError /\ disturbed' = TRUE /\ UNCHANGED <<kernel, resolving>>
  BY <1>1, <1>2, <1>3, <1>4, AfterStartError DEF Inv, Types, Progress, Undone, Heard,
     StopLeavesNoRedirection, InService, Serving, Alive, kernel
<1>5. CASE /\ redirects' = FALSE /\ holes' = {} /\ disturbed' = FALSE
           /\ resolving' = TRUE /\ UNCHANGED <<process, next>>
  BY <1>1, <1>2, <1>3, <1>5 DEF Inv, Types, Progress, Undone, Heard,
     StopLeavesNoRedirection, InService, Serving, Alive
<1> QED
  BY <1>4, <1>5 DEF CreateFirewall

LEMMA ResolvedStep == Inv /\ Resolved => Inv'
<1> SUFFICES ASSUME Inv, Resolved PROVE Inv'
  OBVIOUS
<1>1. next = 2 /\ Serving
  BY DEF Resolved, Inv, Progress
<1>2. UNCHANGED <<holes, listening, reader>> /\ resolving' = FALSE
  BY DEF Resolved, ports, socket
<1>3. CASE redirects' = TRUE /\ FirewallInitialized /\ Started /\ UNCHANGED disturbed
  <2>1. triggers' \in Seq({"firewall", "logger"}) /\ Registered'
    BY <1>3, KeepsRegistered DEF FirewallInitialized, Inv
  <2>2. next' = 3 /\ process' = process /\ disturbed' = disturbed
    BY <1>1, <1>3 DEF Started
  <2> QED
    BY <1>1, <1>2, <2>1, <2>2 DEF Inv, Types, Progress, Undone, Heard,
       StopLeavesNoRedirection, InService, Serving, Alive
<1>4. CASE StartError /\ UNCHANGED <<redirects, triggers, disturbed>>
  <2>1. Registered' <=> Registered
    BY <1>4 DEF Registered
  <2> QED
    BY <1>1, <1>2, <1>4, <2>1, AfterStartError DEF Inv, Types, Progress, Undone,
       Heard, StopLeavesNoRedirection, InService, Serving, Alive
<1>5. CASE StartError /\ disturbed' = TRUE /\ UNCHANGED triggers
  <2>1. Registered' <=> Registered
    BY <1>5 DEF Registered
  <2> QED
    BY <1>1, <1>2, <1>5, <2>1, AfterStartError DEF Inv, Types, Progress, Undone,
       Heard, StopLeavesNoRedirection, InService, Serving, Alive
<1> QED
  BY <1>3, <1>4, <1>5 DEF Resolved

LEMMA LoggerStep == Inv /\ CreateLogger => Inv'
<1> SUFFICES ASSUME Inv, CreateLogger PROVE Inv'
  OBVIOUS
<1>1. next = 3 /\ Serving /\ ~resolving
  BY Place DEF CreateLogger, Inv, Starts
<1>2. UNCHANGED <<resolving, listening, redirects, holes, disturbed>>
  BY DEF CreateLogger, ports, kernel
<1>3. CASE Started /\ reader' = "reading" /\ triggers' = Append(triggers, "logger")
  <2>1. triggers' \in Seq({"firewall", "logger"}) /\ (Registered => Registered')
    BY <1>3, KeepsRegistered DEF Inv
  <2>2. next' = 4 /\ process' = process /\ reader' = "reading"
    BY <1>1, <1>3 DEF Started
  <2> QED
    BY <1>1, <1>2, <2>1, <2>2 DEF Inv, Types, Progress, Undone, Heard,
       StopLeavesNoRedirection, InService, Serving, Alive
<1>4. CASE StartError /\ UNCHANGED triggers
  <2>1. Registered' <=> Registered
    BY <1>4 DEF Registered
  <2>2. ~disturbed => holes = {}
    BY <1>1 DEF Inv, Progress, Heard
  <2> QED
    BY <1>1, <1>2, <1>4, <2>1, <2>2, AfterStartError DEF Inv, Types, Progress,
       Undone, Heard, StopLeavesNoRedirection, InService, Serving, Alive
<1> QED
  BY <1>3, <1>4 DEF CreateLogger

LEMMA BouncerStep == Inv /\ CreateBouncer => Inv'
<1> SUFFICES ASSUME Inv, CreateBouncer PROVE Inv'
  OBVIOUS
<1>1. next = 4 /\ Serving /\ ~resolving
  BY Place DEF CreateBouncer, Inv, Starts
<1>2. UNCHANGED <<resolving, triggers, redirects, holes, reader, disturbed>>
  BY DEF CreateBouncer, kernel, socket
<1>3. Registered' <=> Registered
  BY <1>2 DEF Registered
<1>4. reader \in {"reading", "lost"} /\ Registered
  BY <1>1 DEF Inv, Progress
<1>5. CASE Started
  BY <1>1, <1>2, <1>3, <1>4, <1>5 DEF Started, Inv, Types, Progress, Undone, Heard,
     StopLeavesNoRedirection, InService, Serving, Alive
<1>6. CASE StartError
  BY <1>1, <1>2, <1>3, <1>4, <1>6, AfterStartError DEF Inv, Types, Progress, Undone,
     Heard, StopLeavesNoRedirection, InService, Serving, Alive
<1> QED
  BY <1>5, <1>6 DEF CreateBouncer

LEMMA ServerStep ==
    ASSUME Inv, NEW s \in {"cleaner", "clientlist-server", "logger-server"},
           CreateServer(s)
    PROVE  Inv'
<1>1. next \in Nat /\ next >= 5 /\ Serving /\ ~resolving
  BY Place DEF CreateServer, Inv, Types, Starts
<1>2. /\ UNCHANGED <<resolving, triggers, redirects, holes, reader, disturbed>>
      /\ InService' <=> InService
  BY DEF CreateServer, kernel, socket, InService
<1>3. Registered' <=> Registered
  BY <1>2 DEF Registered
<1>4. /\ next' \in Nat /\ next' >= 6
      /\ process' \in {process, "stopping"}
  BY <1>1, AfterStartError DEF CreateServer, Started
<1> QED
  BY <1>1, <1>2, <1>3, <1>4 DEF Inv, Types, Progress, Undone, Heard,
     StopLeavesNoRedirection, Serving, Alive

LEMMA StartKeeps == Inv /\ StartStep => Inv'
<1> SUFFICES ASSUME Inv, StartStep PROVE Inv'
  OBVIOUS
<1>1. CASE CreateCleaner
  BY <1>1, ServerStep DEF CreateCleaner
<1>2. CASE CreateClientlistServer
  BY <1>2, ServerStep DEF CreateClientlistServer
<1>3. CASE CreateLogServer
  BY <1>3, ServerStep DEF CreateLogServer
<1> QED
  BY <1>1, <1>2, <1>3, ClientListStep, FirewallStep, LoggerStep, BouncerStep
     DEF StartStep

-----------------------------------------------------------------------------
(* Stopping.                                                               *)

LEMMA StopKeeps == Inv /\ (ReactorStop \/ Disconnect) => Inv'
<1> SUFFICES ASSUME Inv, ReactorStop \/ Disconnect PROVE Inv'
  OBVIOUS
<1>1. UNCHANGED <<next, resolving, triggers, redirects, holes, disturbed>>
  BY DEF ReactorStop, Disconnect, starting, kernel
<1>2. Registered' <=> Registered
  BY <1>1 DEF Registered
<1>3. CASE ReactorStop
  <2>1. process = "running" /\ process' = "stopping" /\ UNCHANGED <<listening, reader>>
    BY <1>3 DEF ReactorStop, ports, socket
  <2> QED
    BY <1>1, <1>2, <2>1 DEF Inv, Types, Progress, Undone, Heard,
       StopLeavesNoRedirection, InService, Serving, Alive
<1>4. CASE Disconnect
  <2>1. /\ process = "stopping" /\ process' = "disconnected" /\ listening' = {}
        /\ reader = "none" => reader' = "none"
    BY <1>4 DEF Disconnect, StoppedReader
  <2> QED
    BY <1>1, <1>2, <2>1 DEF Inv, Types, Progress, Undone, Heard,
       StopLeavesNoRedirection, InService, Serving, Alive
<1> QED
  BY <1>3, <1>4

LEMMA TriggerKeeps == Inv /\ RunTrigger => Inv'
<1> SUFFICES ASSUME Inv, RunTrigger PROVE Inv'
  OBVIOUS
<1>1. /\ process = "disconnected" /\ triggers # <<>> /\ triggers' = Tail(triggers)
      /\ UNCHANGED <<process, next, resolving, listening>>
  BY DEF RunTrigger, starting, ports
<1>2. /\ Head(triggers) \in {"firewall", "logger"}
      /\ triggers' \in Seq({"firewall", "logger"})
      /\ (Registered /\ Head(triggers) # "firewall") => Registered'
  BY <1>1, RunsRegistered DEF Inv
<1>3. reader = "none" => reader' = "none"
  BY <1>2 DEF RunTrigger, StopFirewall, StopLogger, StoppedReader
<1>4. CASE Head(triggers) = "firewall"
  <2>1. \/ redirects' = FALSE /\ holes' = {} /\ disturbed' = disturbed
        \/ disturbed' = TRUE
    BY <1>4 DEF RunTrigger, StopFirewall
  <2> QED
    BY <1>1, <1>2, <1>3, <2>1 DEF Inv, Types, Progress, Undone, Heard,
       StopLeavesNoRedirection, InService, Serving, Alive
<1>5. CASE Head(triggers) = "logger"
  <2>1. UNCHANGED <<redirects, holes, disturbed>>
    BY <1>5 DEF RunTrigger, StopLogger, kernel
  <2> QED
    BY <1>1, <1>2, <1>3, <1>5, <2>1 DEF Inv, Types, Progress, Undone, Heard,
       StopLeavesNoRedirection, InService, Serving, Alive
<1> QED
  BY <1>2, <1>4, <1>5

LEMMA EndKeeps == Inv /\ (Exit \/ Kill) => Inv'
<1> SUFFICES ASSUME Inv, Exit \/ Kill PROVE Inv'
  OBVIOUS
<1>1. /\ process' = "down" /\ next' = 1 /\ resolving' = FALSE /\ triggers' = <<>>
      /\ listening' = {} /\ reader' = "none" /\ UNCHANGED <<redirects, holes>>
  BY DEF Exit, Kill, Gone, kernel
<1>2. ~disturbed' => ~redirects /\ holes = {}
  <2>1. CASE Exit
    <3>1. ~Registered
      BY <2>1 DEF Exit, Registered
    <3> QED
      BY <2>1, <3>1 DEF Exit, Inv, Undone, Alive
  <2>2. CASE Kill
    BY <2>2 DEF Kill
  <2> QED
    BY <2>1, <2>2
<1> QED
  BY <1>1, <1>2 DEF Inv, Types, Progress, Undone, Heard,
     StopLeavesNoRedirection, InService, Serving, Alive

-----------------------------------------------------------------------------
(* Booting, holes and packets.                                             *)

LEMMA BootKeeps == Inv /\ Boot => Inv'
<1> SUFFICES ASSUME Inv, Boot PROVE Inv'
  OBVIOUS
<1>1. /\ process = "down" /\ process' = "running"
      /\ UNCHANGED <<next, resolving, triggers, listening, redirects, holes, reader,
                     disturbed>>
  BY DEF Boot, starting, ports, kernel, socket
<1>2. Registered' <=> Registered
  BY <1>1 DEF Registered
<1>3. next = 1
  BY <1>1 DEF Inv, Progress
<1> QED
  BY <1>1, <1>2, <1>3 DEF Inv, Types, Progress, Undone, Heard,
     StopLeavesNoRedirection, InService, Serving, Alive

LEMMA HolesKeep ==
    ASSUME Inv, NEW c \in Clients, Admit(c) \/ Expel(c)
    PROVE  Inv'
<1>1. /\ Serving
      /\ UNCHANGED <<process, next, resolving, triggers, listening, redirects, reader>>
      /\ UNCHANGED disturbed \/ (disturbed' = TRUE /\ UNCHANGED holes)
  BY DEF Admit, Expel, HolesChange, starting, ports, socket
<1>2. Registered' <=> Registered
  BY <1>1 DEF Registered
<1>3. CASE Admit(c)
  <2>1. reader \in {"reading", "lost"} /\ Registered
    BY <1>1, <1>3 DEF Admit, Inv, Progress, InService
  <2> QED
    BY <1>1, <1>2, <2>1 DEF Inv, Types, Progress, Undone, Heard,
       StopLeavesNoRedirection, InService, Serving, Alive
<1>4. CASE Expel(c)
  <2>1. holes # {}
    BY <1>4 DEF Expel
  <2> QED
    BY <1>1, <1>2, <2>1 DEF Inv, Types, Progress, Undone, Heard,
       StopLeavesNoRedirection, InService, Serving, Alive
<1> QED
  BY <1>3, <1>4

LEMMA PacketsKeep ==
    ASSUME Inv, DoRead \/ ReadFails \/ \E p \in Packets : Send(p)
    PROVE  Inv'
<1>1. /\ UNCHANGED <<process, next, resolving, triggers, listening, redirects, holes,
                     disturbed>>
      /\ reader' = reader \/ (reader = "reading" /\ reader' \in {"reading", "lost"})
  BY DEF DoRead, ReadFails, Send, starting, ports, kernel
<1>2. Registered' <=> Registered
  BY <1>1 DEF Registered
<1> QED
  BY <1>1, <1>2 DEF Inv, Types, Progress, Undone, Heard,
     StopLeavesNoRedirection, InService, Serving, Alive

LEMMA InitInv == Init => Inv
  BY DEF Init, Inv, Types, Progress, Undone, Heard, StopLeavesNoRedirection,
     InService, Serving, Alive

LEMMA NextInv == Inv /\ [Next]_vars => Inv'
<1> SUFFICES ASSUME Inv, [Next]_vars PROVE Inv'
  OBVIOUS
<1>1. CASE UNCHANGED vars
  <2>1. UNCHANGED <<process, next, resolving, triggers, listening, redirects, holes,
                    reader, disturbed>>
    BY <1>1 DEF vars, starting, ports, kernel, socket
  <2>2. Registered' <=> Registered
    BY <2>1 DEF Registered
  <2> QED
    BY <2>1, <2>2 DEF Inv, Types, Progress, Undone, Heard,
       StopLeavesNoRedirection, InService, Serving, Alive
<1>2. CASE DoRead
  BY <1>2, PacketsKeep
<1>3. CASE Unread
  BY <1>3, StartKeeps, ResolvedStep, StopKeeps, TriggerKeeps, EndKeeps, BootKeeps,
     HolesKeep, PacketsKeep DEF Unread
<1> QED
  BY <1>1, <1>2, <1>3 DEF Next

LEMMA InvHolds == Spec => []Inv
  BY InitInv, NextInv, PTL DEF Spec

-----------------------------------------------------------------------------
\* The program ends without leaving the redirection or a hole behind, wherever
\* its start was stopped or failed, unless it was killed or a commit failed.
THEOREM StopCorrect == Spec => []StopLeavesNoRedirection
<1>1. Inv => StopLeavesNoRedirection
  BY DEF Inv
<1> QED
  BY <1>1, InvHolds, PTL

\* While a client is let through, nothing but a failed read keeps the logger
\* from reading what the kernel logs: not the order in which services start
\* and stop, nor a start that fails at any of them.
THEOREM HeardCorrect == Spec => []HolesAreHeard
<1>1. Inv => HolesAreHeard
  BY DEF Inv, Heard, HolesAreHeard
<1> QED
  BY <1>1, InvHolds, PTL
=============================================================================
