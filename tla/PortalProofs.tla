---------------------------- MODULE PortalProofs ----------------------------
(***************************************************************************)
(* Theorems about the portal, for every set of hosts, ports and requests,  *)
(* whatever fails and whether or not holes end together: nothing here      *)
(* depends on the bookkeeping being right, only on what the handlers ask   *)
(* of it.                                                                  *)
(***************************************************************************)
EXTENDS Portal, TLAPS

-----------------------------------------------------------------------------
(* The invariant: what is known of a session, in the client list, on its   *)
(* way in an answer or in a hole, is one that was granted and not longer   *)
(* than it was granted for.                                                *)

\* Such a status: no session, or one of those granted to the host.
Granted(status, ip) ==
    /\ status \in Status
    /\ status.login_time <= now
    /\ status.expiration <= MaxTime
    /\ status.expiration # 0 =>
          status.login_time + status.expiration \in granted[ip]

Types ==
    /\ now \in Nat /\ serial \in Nat
    /\ holes \in [ClientIds -> H!Entry \cup {None}]
    /\ fw \in [ClientIds -> Nat]
    /\ granted \in [Ips -> SUBSET Nat]
    /\ clients \in [Ips -> Status]
    /\ DOMAIN request = Requests

ClientsGranted == \A ip \in Ips : Granted(clients[ip], ip)

RequestsGranted ==
    \A r \in Requests :
        /\ request[r] # Fresh => request[r].src \in Src
        /\ Told(r) \/ Arrived(r) => Granted(request[r].status, request[r].src[1])

Inv ==
    /\ Types
    /\ ClientsGranted
    /\ RequestsGranted
    /\ WithinSession

LEMMA InitInv == Init => Inv
<1> SUFFICES ASSUME Init PROVE Inv
  OBVIOUS
<1>1. Types
  BY DEF Init, H!Init, Types, NotAuthenticated, Status
<1>2. ClientsGranted
  BY PortalAssumption DEF Init, H!Init, ClientsGranted, Granted, NotAuthenticated, Status
<1>3. RequestsGranted
  BY DEF Init, RequestsGranted, Told, Arrived, Fresh
<1>4. WithinSession
  BY DEF Init, H!Init, WithinSession, H!Has, ClientIds
<1>5. QED
  BY <1>1, <1>2, <1>3, <1>4 DEF Inv

-----------------------------------------------------------------------------
(* What the actions of Holes do to the dictionary and the firewall.        *)

\* A step that registers no hole: time does not go back, entries stay or go.
NothingOpens ==
    /\ now' \in Nat /\ now <= now' /\ serial' \in Nat
    /\ holes' \in [ClientIds -> H!Entry \cup {None}]
    /\ fw' \in [ClientIds -> Nat]
    /\ \A c \in ClientIds : holes'[c] \in {holes[c], None}

LEMMA RemovedOpensNothing ==
    ASSUME Types, NEW c, H!Removed(c)
    PROVE  NothingOpens
<1>1. /\ now' = now /\ serial' = serial /\ fw[c] > 0
      /\ holes' = [holes EXCEPT ![c] = None]
      /\ fw' = [fw EXCEPT ![c] = @ - 1]
  BY DEF H!Removed, H!Pop
<1>2. \A b \in ClientIds : fw'[b] \in Nat
  <2> SUFFICES ASSUME NEW b \in ClientIds PROVE fw'[b] \in Nat
    OBVIOUS
  <2>1. CASE b = c
    BY <1>1, <2>1 DEF Types
  <2>2. CASE b # c
    BY <1>1, <2>2 DEF Types
  <2>3. QED
    BY <2>1, <2>2
<1>3. fw' \in [ClientIds -> Nat]
  BY <1>1, <1>2 DEF Types
<1>4. QED
  BY <1>1, <1>3 DEF Types, NothingOpens

LEMMA RaisesOpensNothing ==
    ASSUME Types, NEW c, H!RemoveRaises(c)
    PROVE  NothingOpens
<1>1. /\ now' = now /\ serial' = serial /\ fw' = fw
      /\ holes' = holes \/ holes' = [holes EXCEPT ![c] = None]
  BY DEF H!RemoveRaises, H!Pop
<1>2. QED
  BY <1>1 DEF Types, NothingOpens

LEMMA RemoveOpensNothing ==
    ASSUME Types, NEW c, NEW t, NEW rest, H!RemoveCall(c, t, rest)
    PROVE  NothingOpens
  BY RemovedOpensNothing, RaisesOpensNothing DEF H!RemoveCall

\* Nothing the reactor or the end of the program runs opens a hole.
LEMMA LoopsOpenNothing ==
    ASSUME Types,
           \/ H!HoleExpired \/ H!CatchUp \/ H!Reschedule
           \/ H!ClearNext \/ H!RemoveAll \/ H!Tick
    PROVE  NothingOpens
<1>1. CASE UNCHANGED <<now, serial, holes, fw>>
  BY <1>1 DEF Types, NothingOpens
<1>2. CASE H!HoleExpired
  BY <1>1, <1>2, RemoveOpensNothing DEF H!HoleExpired
<1>3. CASE H!CatchUp
  BY <1>3, RemovedOpensNothing, RaisesOpensNothing DEF H!CatchUp
<1>4. CASE H!Reschedule
  BY <1>1, <1>4 DEF H!Reschedule
<1>5. CASE H!ClearNext
  BY <1>5, RemoveOpensNothing DEF H!ClearNext
<1>6. CASE H!RemoveAll
  BY <1>1, <1>6 DEF H!RemoveAll
<1>7. CASE H!Tick
  BY <1>7 DEF H!Tick, Types, NothingOpens
<1>8. QED
  BY <1>2, <1>3, <1>4, <1>5, <1>6, <1>7

\* A step that opens no hole and forgets no session keeps all but what it
\* does to the requests and to the phase.
LEMMA StaysGranted ==
    ASSUME Types, Types', ClientsGranted, WithinSession,
           \A c \in ClientIds : holes'[c] \in {holes[c], None},
           now <= now', clients' = clients, granted' = granted
    PROVE  /\ ClientsGranted'
           /\ WithinSession'
           /\ \A status, ip : Granted(status, ip) => Granted(status, ip)'
<1>1. ASSUME NEW status, NEW ip, Granted(status, ip)
      PROVE  Granted(status, ip)'
  BY <1>1 DEF Types, Granted, Status
<1>2. ClientsGranted'
  BY <1>1 DEF ClientsGranted
<1>3. WithinSession'
  <2> SUFFICES ASSUME NEW ip \in Ips, holes'[<<ip, 0>>] # None
               PROVE  holes'[<<ip, 0>>].deadline \in granted'[ip]
    BY DEF WithinSession, H!Has
  <2>1. <<ip, 0>> \in ClientIds
    BY DEF ClientIds
  <2>2. holes'[<<ip, 0>>] = holes[<<ip, 0>>]
    BY <2>1
  <2>3. QED
    BY <2>2 DEF WithinSession, H!Has
<1>4. QED
  BY <1>1, <1>2, <1>3

-----------------------------------------------------------------------------
(* The answer of the client list, which is what opens a hole.              *)

\* A request whose answer has arrived asks for the host it came from, and
\* for what is left of a session that host was granted.
LEMMA ToldStatus ==
    ASSUME Inv, NEW r \in Requests, Told(r) \/ Arrived(r)
    PROVE  /\ request[r].src[1] \in Ips
           /\ HostId(request[r].src) = <<request[r].src[1], 0>>
           /\ HostId(request[r].src) \in ClientIds
           /\ Granted(request[r].status, request[r].src[1])
<1>1. request[r] # Fresh
  BY DEF Told, Arrived, Fresh
<1>2. request[r].src \in Src /\ Granted(request[r].status, request[r].src[1])
  BY <1>1 DEF Inv, RequestsGranted
<1>3. request[r].src[1] \in Ips
  BY <1>2 DEF Src
<1>4. QED
  BY <1>2, <1>3 DEF HostId, ClientIds

LEMMA LeftOfSession ==
    ASSUME Inv, NEW r \in Requests, Arrived(r),
           TimeLeft(request[r].status) > 0, request[r].status.expiration > 0
    PROVE  /\ TimeLeft(request[r].status) \in 1..MaxTime
           /\ now + TimeLeft(request[r].status) \in granted[request[r].src[1]]
<1> DEFINE s == request[r].status
<1>1. /\ s.login_time \in Nat /\ s.expiration \in Nat /\ s.login_time <= now
      /\ s.expiration <= MaxTime /\ now \in Nat /\ MaxTime \in Nat
      /\ s.login_time + s.expiration \in granted[request[r].src[1]]
  BY ToldStatus, PortalAssumption DEF Inv, Types, Granted, Status
<1>2. TimeLeft(s) = s.expiration - (now - s.login_time)
  BY DEF TimeLeft
<1>3. now + TimeLeft(s) = s.login_time + s.expiration
  BY <1>1, <1>2
<1>4. TimeLeft(s) \in 1..MaxTime
  BY <1>1, <1>2
<1>5. QED
  BY <1>1, <1>3, <1>4

\* Holes.add registers an entry that ends d ticks from now; if the system
\* firewall raises, the entry stays registered all the same.
LEMMA AddRegisters ==
    ASSUME Types, NEW c \in ClientIds, NEW d \in 1..MaxTime,
           H!Add(c, d) \/ H!AddRaises(c, d)
    PROVE  /\ now' = now /\ serial' \in Nat
           /\ holes' \in [ClientIds -> H!Entry \cup {None}]
           /\ fw' \in [ClientIds -> Nat]
           /\ H!Add(c, d) => fw'[c] > 0
           /\ \A b \in ClientIds :
                 IF b = c THEN holes'[b].deadline = now + d
                 ELSE holes'[b] = holes[b]
<1> DEFINE e == H!NewEntry(c, d)
<1>1. e \in H!Entry /\ e.deadline = now + d
  BY PortalAssumption DEF Types, H!NewEntry, H!Entry
<1>2. /\ now' = now /\ serial' = serial + 1
      /\ holes' = [holes EXCEPT ![c] = e]
      /\ fw' = fw \/ fw' = [fw EXCEPT ![c] = @ + 1]
      /\ H!Add(c, d) => fw' = [fw EXCEPT ![c] = @ + 1]
  BY DEF H!Add, H!AddRaises
<1> HIDE DEF e
<1>3. QED
  BY <1>1, <1>2 DEF Types

\* What the answer does to the books: nothing, or the hole of that session.
LEMMA AnswerRegisters ==
    ASSUME Inv, NEW r \in Requests, Answer(r)
    PROVE  /\ now' = now /\ serial' \in Nat
           /\ holes' \in [ClientIds -> H!Entry \cup {None}]
           /\ fw' \in [ClientIds -> Nat]
           /\ WithinSession'
<1> DEFINE d  == TimeLeft(request[r].status)
           id == HostId(request[r].src)
<1>1. Arrived(r) /\ granted' = granted
  BY DEF Answer
<1>2. CASE UNCHANGED <<now, serial, holes, fw>>
  BY <1>1, <1>2 DEF Inv, Types, WithinSession, H!Has
<1>3. CASE /\ d > 0 /\ request[r].status.expiration > 0
           /\ H!Add(id, d) \/ H!AddRaises(id, d)
  <2>1. d \in 1..MaxTime /\ now + d \in granted[request[r].src[1]]
    BY <1>1, <1>3, LeftOfSession
  <2>2. id \in ClientIds /\ id = <<request[r].src[1], 0>>
    BY <1>1, ToldStatus
  <2> HIDE DEF d, id
  <2>3. /\ now' = now /\ serial' \in Nat
        /\ holes' \in [ClientIds -> H!Entry \cup {None}]
        /\ fw' \in [ClientIds -> Nat]
        /\ \A b \in ClientIds :
              IF b = id THEN holes'[b].deadline = now + d
              ELSE holes'[b] = holes[b]
    BY <1>3, <2>1, <2>2, AddRegisters DEF Inv
  <2>4. ASSUME NEW ip \in Ips, holes'[<<ip, 0>>] # None
        PROVE  holes'[<<ip, 0>>].deadline \in granted'[ip]
    <3>1. <<ip, 0>> \in ClientIds
      BY DEF ClientIds
    <3>2. CASE <<ip, 0>> = id
      BY <1>1, <2>1, <2>2, <2>3, <3>1, <3>2
    <3>3. CASE <<ip, 0>> # id
      BY <1>1, <2>3, <2>4, <3>1, <3>3 DEF Inv, WithinSession, H!Has
    <3>4. QED
      BY <3>2, <3>3
  <2>5. QED
    BY <2>3, <2>4 DEF WithinSession, H!Has
<1>4. bookVars' = bookVars \/ H!AddDuplicate(id) => UNCHANGED <<now, serial, holes, fw>>
  BY DEF bookVars, H!AddDuplicate
<1>5. QED
  BY <1>2, <1>3, <1>4 DEF Answer

-----------------------------------------------------------------------------
(* Every step preserves the invariant.                                     *)

\* A request that is settled, or was settled or waiting before, knows no
\* more than it did.
LEMMA RequestKeeps ==
    ASSUME RequestsGranted, NEW r \in Requests, DOMAIN request = Requests,
           \A status, ip : Granted(status, ip) => Granted(status, ip)',
           NEW q, request' = [request EXCEPT ![r] = q],
           q.src \in Src,
           q.stage \in {"told", "arrived"} => Granted(q.status, q.src[1])'
    PROVE  RequestsGranted' /\ DOMAIN request' = Requests
  BY DEF RequestsGranted, Told, Arrived

LEMMA SettleKeeps ==
    ASSUME RequestsGranted, NEW r \in Requests, DOMAIN request = Requests,
           \A status, ip : Granted(status, ip) => Granted(status, ip)',
           request[r] # Fresh, NEW verdict \in {"allowed", "refused"},
           Settle(r, verdict)
    PROVE  RequestsGranted' /\ DOMAIN request' = Requests
<1> DEFINE q == [stage |-> verdict, src |-> request[r].src]
<1>1. request' = [request EXCEPT ![r] = q]
  BY DEF Settle
<1>2. q.src \in Src /\ q.stage \notin {"told", "arrived"}
  BY DEF RequestsGranted
<1> HIDE DEF q
<1>3. QED
  BY <1>1, <1>2, RequestKeeps

LEMMA NextInv ==
    ASSUME Inv, [Next]_vars
    PROVE  Inv'
<1> USE DEF Inv
<1>1. ASSUME NothingOpens,
             UNCHANGED <<clients, granted, request>>
      PROVE  Inv'
  <2>1. Types'
    BY <1>1 DEF Types, NothingOpens
  <2>2. /\ ClientsGranted' /\ WithinSession'
        /\ \A status, ip : Granted(status, ip) => Granted(status, ip)'
    BY <1>1, <2>1, StaysGranted DEF NothingOpens
  <2>3. RequestsGranted'
    BY <1>1, <2>2 DEF RequestsGranted, Told, Arrived
  <2>4. QED
    BY <1>1, <2>1, <2>2, <2>3
<1>2. ASSUME UNCHANGED <<bookVars, clients, granted, phase>>,
             DOMAIN request' = Requests
      PROVE  /\ Types' /\ ClientsGranted' /\ WithinSession'
             /\ \A status, ip : Granted(status, ip) => Granted(status, ip)'
  <2>1. UNCHANGED <<now, serial, holes, fw>>
    BY <1>2 DEF bookVars
  <2>2. Types'
    BY <1>2, <2>1 DEF Types
  <2>3. \A c \in ClientIds : holes'[c] \in {holes[c], None}
    BY <2>1
  <2>4. now <= now'
    BY <2>1 DEF Types
  <2>5. QED
    BY <1>2, <2>1, <2>2, <2>3, <2>4, StaysGranted
<1>3. ASSUME NEW ip \in Ips, NEW length \in Lengths, Login(ip, length)
      PROVE  Inv'
  <2> PICK s : s = [login_time |-> now, expiration |-> length]
    OBVIOUS
  <2>1. /\ clients' = [clients EXCEPT ![ip] = s]
        /\ granted' = [granted EXCEPT ![ip] = @ \cup {now + length}]
        /\ UNCHANGED <<now, serial, holes, fw, request>>
    BY <1>3 DEF Login, bookVars
  <2>2. s \in Status /\ now + length \in Nat /\ length <= MaxTime /\ length \in Nat
    BY PortalAssumption DEF Types, Status
  <2>3. Types'
    BY <2>1, <2>2 DEF Types
  <2>4. \A b \in Ips : granted[b] \subseteq granted'[b]
    BY <2>1 DEF Types
  <2>5. \A status : \A b \in Ips : Granted(status, b) => Granted(status, b)'
    BY <2>1, <2>4 DEF Granted
  <2>6. Granted(s, ip)'
    <3>1. now + length \in granted'[ip]
      BY <2>1 DEF Types
    <3>2. s.login_time = now /\ s.expiration = length
      OBVIOUS
    <3>3. now \in Nat
      BY DEF Types
    <3>4. QED
      BY <2>1, <2>2, <3>1, <3>2, <3>3 DEF Granted
  <2>7. ClientsGranted'
    BY <2>1, <2>5, <2>6 DEF ClientsGranted, Types
  <2>8. RequestsGranted'
    <3>1. \A r \in Requests : Told(r) \/ Arrived(r) => request[r] # Fresh
      BY DEF Told, Arrived, Fresh
    <3>2. \A r \in Requests : Told(r) \/ Arrived(r) => request[r].src[1] \in Ips
      BY <3>1 DEF RequestsGranted, Src
    <3>3. QED
      BY <2>1, <2>5, <3>2 DEF RequestsGranted, Told, Arrived
  <2>9. WithinSession'
    BY <2>1, <2>4 DEF WithinSession, H!Has
  <2>10. QED
    BY <2>3, <2>7, <2>8, <2>9
<1>4. ASSUME NEW ip \in Ips, Logout(ip)
      PROVE  Inv'
  <2>1. /\ clients' = [clients EXCEPT ![ip] = NotAuthenticated]
        /\ UNCHANGED <<now, serial, holes, fw, granted, request>>
    BY <1>4 DEF Logout, bookVars
  <2>2. /\ NotAuthenticated \in Status
        /\ NotAuthenticated.login_time = 0 /\ NotAuthenticated.expiration = 0
    BY DEF NotAuthenticated, Status
  <2>3. Types'
    BY <2>1, <2>2 DEF Types
  <2>4. \A status, b : Granted(status, b) => Granted(status, b)'
    BY <2>1 DEF Granted
  <2>5. Granted(NotAuthenticated, ip)'
    BY <2>1, <2>2, PortalAssumption DEF Granted, Types
  <2>6. ClientsGranted'
    BY <2>1, <2>4, <2>5 DEF ClientsGranted, Types
  <2>7. RequestsGranted'
    BY <2>1, <2>4 DEF RequestsGranted, Told, Arrived
  <2>8. WithinSession'
    BY <2>1 DEF WithinSession, H!Has
  <2>9. QED
    BY <2>3, <2>6, <2>7, <2>8
<1>5. ASSUME NEW r \in Requests, NEW src \in Src, Ask(r, src)
      PROVE  Inv'
  <2> DEFINE q == [stage |-> IF Found(src) THEN "allowed" ELSE "asked", src |-> src]
  <2>1. /\ request' = [request EXCEPT ![r] = q]
        /\ UNCHANGED <<bookVars, clients, granted, phase>>
        /\ q.src \in Src /\ q.stage \notin {"told", "arrived"}
    BY <1>5 DEF Ask
  <2> HIDE DEF q
  <2>2. DOMAIN request' = Requests
    BY <2>1 DEF Types
  <2>3. QED
    BY <1>2, <2>1, <2>2, RequestKeeps DEF Types
<1>6. ASSUME NEW r \in Requests, Tell(r)
      PROVE  Inv'
  <2> PICK q : q = [stage |-> "told", src |-> request[r].src,
                    status |-> clients[request[r].src[1]]]
    OBVIOUS
  <2>1. /\ request' = [request EXCEPT ![r] = q]
        /\ UNCHANGED <<bookVars, clients, granted, phase>>
    BY <1>6 DEF Tell
  <2>2. request[r] # Fresh
    BY <1>6 DEF Tell, Asked, Fresh
  <2>3. /\ q.src \in Src /\ q.src[1] \in Ips
        /\ q.status = clients[q.src[1]]
    BY <2>2 DEF RequestsGranted, Src
  <2>4. DOMAIN request' = Requests
    BY <2>1 DEF Types
  <2>5. Granted(q.status, q.src[1])'
    BY <1>2, <2>1, <2>3, <2>4 DEF ClientsGranted
  <2>6. QED
    BY <1>2, <2>1, <2>3, <2>4, <2>5, RequestKeeps DEF Types
<1>7. ASSUME NEW r \in Requests, Arrive(r)
      PROVE  Inv'
  <2> PICK q : q = [stage |-> "arrived", src |-> request[r].src,
                    status |-> request[r].status]
    OBVIOUS
  <2>1. /\ request' = [request EXCEPT ![r] = q]
        /\ UNCHANGED <<bookVars, clients, granted, phase>>
        /\ Told(r)
    BY <1>7 DEF Arrive
  <2>2. request[r] # Fresh
    BY <2>1 DEF Told, Fresh
  <2>3. DOMAIN request' = Requests
    BY <2>1 DEF Types
  <2>4. q.src = request[r].src /\ q.status = request[r].status
    OBVIOUS
  <2>5. q.src \in Src /\ Granted(q.status, q.src[1])
    BY <2>1, <2>2, <2>4 DEF RequestsGranted
  <2>6. Granted(q.status, q.src[1])'
    BY <1>2, <2>1, <2>3, <2>5
  <2>7. QED
    BY <1>2, <2>1, <2>3, <2>5, <2>6, RequestKeeps DEF Types
<1>8. ASSUME NEW r \in Requests, LookupFails(r)
      PROVE  Inv'
  <2>1. request[r] # Fresh /\ Settle(r, "refused")
    BY <1>8 DEF LookupFails, Asked, Told, Fresh
  <2>2. UNCHANGED <<bookVars, clients, granted, phase>>
    BY <1>8 DEF LookupFails
  <2>3. DOMAIN request' = Requests
    BY <2>1 DEF Settle, Types
  <2>4. QED
    BY <1>2, <2>1, <2>2, <2>3, SettleKeeps DEF Types
<1>9. ASSUME NEW r \in Requests, Answer(r)
      PROVE  Inv'
  <2>1. /\ now' = now /\ serial' \in Nat
        /\ holes' \in [ClientIds -> H!Entry \cup {None}]
        /\ fw' \in [ClientIds -> Nat]
        /\ WithinSession'
    BY <1>9, AnswerRegisters
  <2>2. /\ UNCHANGED <<clients, granted, phase>> /\ phase = "running"
        /\ Settle(r, "allowed") \/ Settle(r, "refused")
        /\ request[r] # Fresh
    BY <1>9 DEF Answer, Running, SettleRaised, Arrived, Fresh
  <2>3. Types'
    BY <2>1, <2>2 DEF Types, Settle
  <2>4. \A status, ip : Granted(status, ip) => Granted(status, ip)'
    BY <2>1, <2>2 DEF Granted
  <2>5. ClientsGranted'
    BY <2>2, <2>4 DEF ClientsGranted
  <2>6. RequestsGranted'
    BY <2>2, <2>4, SettleKeeps DEF Types
  <2>7. QED
    BY <2>1, <2>3, <2>5, <2>6
<1>10. ASSUME NEW ip \in Ips, Clean(ip)
      PROVE  Inv'
  <2>1. NothingOpens
    BY <1>10, RemoveOpensNothing DEF Clean, H!RemoveHole
  <2>2. phase' = "running" /\ UNCHANGED <<clients, granted, request>>
    BY <1>10 DEF Clean, Running
  <2>3. QED
    BY <1>1, <2>1, <2>2
<1>11. CASE Reactor
  <2>1. NothingOpens
    BY <1>11, LoopsOpenNothing DEF Reactor
  <2>2. phase' = "running" /\ UNCHANGED <<clients, granted, request>>
    BY <1>11 DEF Reactor
  <2>3. QED
    BY <1>1, <2>1, <2>2
<1>12. CASE Tick
  <2>1. NothingOpens
    BY <1>12, LoopsOpenNothing DEF Tick
  <2>2. UNCHANGED <<phase, error, fw, clients, granted, request>>
    BY <1>12 DEF Tick, H!Tick
  <2>3. QED
    BY <1>1, <2>1, <2>2
<1>13. CASE Stop
  <2>1. NothingOpens
    BY <1>13, LoopsOpenNothing DEF Stop, bookVars, NothingOpens, Types
  <2>2. phase' = "stopping" /\ UNCHANGED <<clients, granted, request>>
    BY <1>13 DEF Stop
  <2>3. QED
    BY <1>1, <2>1, <2>2
<1>14. CASE StopNext
  <2>1. NothingOpens
    BY <1>14, LoopsOpenNothing DEF StopNext
  <2>2. /\ error' = "none" => phase' = "stopping"
        /\ UNCHANGED <<clients, granted, request>>
    BY <1>14 DEF StopNext
  <2>3. QED
    BY <1>1, <2>1, <2>2
<1>15. CASE StopClean
  <2>1. NothingOpens
    BY <1>15 DEF StopClean, NothingOpens, Types
  <2>2. UNCHANGED <<clients, granted, request>>
    BY <1>15 DEF StopClean
  <2>3. QED
    BY <1>1, <2>1, <2>2
<1>16. CASE UNCHANGED vars
  <2>1. NothingOpens
    BY <1>16 DEF vars, bookVars, NothingOpens, Types
  <2>2. QED
    BY <1>1, <1>16, <2>1 DEF vars
<1>17. QED
  BY <1>3, <1>4, <1>5, <1>6, <1>7, <1>8, <1>9, <1>10, <1>11, <1>12, <1>13,
     <1>14, <1>15, <1>16 DEF Next

\* No hole is recorded to end later than a session its host was granted: not
\* when the answer arrives late, nor when the session has ended or another
\* has begun since the list was asked, nor when the firewall raised and left
\* the entry behind.  (Closing it then is what the theorems of Holes are
\* about.)
THEOREM SessionCorrect == Spec => []WithinSession
<1>1. Inv => WithinSession
  BY DEF Inv
<1>2. QED
  BY InitInv, NextInv, <1>1, PTL DEF Spec

-----------------------------------------------------------------------------
(* The portal and the bookkeeping.                                         *)

\* Whoever is told yes was told so by an answer that opened a hole: no
\* connection comes from the port the client list uses in its ids.
LEMMA AllowedByAnswer ==
    ASSUME Inv, [Next]_vars, NEW r \in Requests,
           request[r].stage # "allowed", request'[r].stage = "allowed"
    PROVE  /\ Answer(r)
           /\ H!Add(HostId(request[r].src), TimeLeft(request[r].status))
           /\ request'[r].src = request[r].src
           /\ TimeLeft(request[r].status) \in 1..MaxTime
<1>1. ASSUME NEW q \in Requests, NEW src \in Src, Ask(q, src)
      PROVE  FALSE
  <2>1. src \notin ClientIds
    BY PortalAssumption DEF Src, ClientIds
  <2>2. request' = [request EXCEPT ![q] = [stage |-> "asked", src |-> src]]
    BY <1>1, <2>1 DEF Ask, Found
  <2>3. QED
    BY <2>2 DEF Inv, Types
<1>2. ASSUME NEW q \in Requests, Tell(q) \/ Arrive(q) \/ LookupFails(q)
      PROVE  FALSE
  BY <1>2 DEF Tell, Arrive, LookupFails, Settle, Inv, Types
<1>3. request' # request
  OBVIOUS
<1>4. ~(\E ip \in Ips : Logout(ip) \/ Clean(ip))
  BY <1>3 DEF Logout, Clean
<1>5. ~(\E ip \in Ips, length \in Lengths : Login(ip, length))
  BY <1>3 DEF Login
<1>6. ~Reactor /\ ~Tick /\ ~Stop /\ ~StopNext /\ ~StopClean /\ ~(UNCHANGED vars)
  BY <1>3 DEF Reactor, Tick, Stop, StopNext, StopClean, vars
<1>7. PICK q \in Requests : Answer(q)
  BY <1>1, <1>2, <1>4, <1>5, <1>6 DEF Next
<1>8. /\ q = r /\ Arrived(r)
      /\ H!Add(HostId(request[r].src), TimeLeft(request[r].status))
      /\ TimeLeft(request[r].status) > 0 /\ request[r].status.expiration > 0
      /\ request'[r].src = request[r].src
  BY <1>7 DEF Answer, Settle, SettleRaised, Inv, Types
<1>9. QED
  BY <1>7, <1>8, LeftOfSession

\* A client told that it may pass has its rule when it is told.
THEOREM YesCorrect == Spec => YesMeansOpen
<1>1. ASSUME Inv, [Next]_vars, NEW r \in Requests,
             request'[r].stage = "allowed", request[r].stage # "allowed"
      PROVE  fw'[HostId(request'[r].src)] > 0
  <2> DEFINE d == TimeLeft(request[r].status)
             id == HostId(request[r].src)
  <2>1. /\ Answer(r) /\ H!Add(id, d) /\ d \in 1..MaxTime
        /\ request'[r].src = request[r].src
    BY <1>1, AllowedByAnswer
  <2>2. id \in ClientIds
    BY <1>1, <2>1, ToldStatus DEF Answer
  <2> HIDE DEF d, id
  <2>3. fw'[id] > 0
    BY <1>1, <2>1, <2>2, AddRegisters DEF Inv
  <2>4. HostId(request'[r].src) = id
    BY <2>1 DEF id, HostId
  <2>5. QED
    BY <2>3, <2>4
<1>2. Inv /\ [Next]_vars =>
         [\A r \in Requests :
             request'[r].stage = "allowed" /\ request[r].stage # "allowed" =>
                 fw'[HostId(request'[r].src)] > 0]_vars
  BY <1>1
<1>3. QED
  BY InitInv, NextInv, <1>2, PTL DEF Spec, YesMeansOpen

-----------------------------------------------------------------------------
(* The rules of a host and the books.                                      *)

LEMMA RemovedKeepsRules ==
    ASSUME Types, RuleNeedsHole, NEW c, H!Removed(c), stuck \subseteq stuck'
    PROVE  RuleNeedsHole'
<1> SUFFICES ASSUME NEW b \in ClientIds, b \notin stuck'
             PROVE  fw'[b] <= IF H!Has(b)' THEN 1 ELSE 0
  BY DEF RuleNeedsHole
<1>1. /\ holes[c] # None /\ fw[c] > 0
      /\ holes' = [holes EXCEPT ![c] = None]
      /\ fw' = [fw EXCEPT ![c] = @ - 1]
  BY DEF H!Removed, H!Pop, H!Has
<1>2. fw[b] \in Nat /\ fw[b] <= IF holes[b] # None THEN 1 ELSE 0
  BY DEF Types, RuleNeedsHole, H!Has
<1>3. CASE b = c
  <2>1. fw'[b] = fw[b] - 1 /\ fw[b] <= 1
    BY <1>1, <1>2, <1>3 DEF Types
  <2>2. holes'[b] = None
    BY <1>1, <1>3 DEF Types
  <2>3. QED
    BY <1>2, <2>1, <2>2 DEF H!Has
<1>4. CASE b # c
  <2>1. fw'[b] = fw[b] /\ holes'[b] = holes[b]
    BY <1>1, <1>4 DEF Types
  <2>2. QED
    BY <1>2, <2>1 DEF H!Has
<1>5. QED
  BY <1>3, <1>4

\* A removal that raises may leave a rule, and then the client is stuck.
LEMMA RaisesKeepRules ==
    ASSUME Types, RuleNeedsHole, NEW c, H!RemoveRaises(c), RecordStuck
    PROVE  RuleNeedsHole'
<1>1. /\ fw' = fw
      /\ holes' = holes \/ holes' = [holes EXCEPT ![c] = None]
      /\ error' # "none"
  BY DEF H!RemoveRaises, H!Raise, H!Pop
<1>2. ASSUME NEW b \in ClientIds, b \notin stuck'
      PROVE  b \notin stuck /\ fw'[b] = fw[b] /\ (H!Has(b)' <=> H!Has(b))
  BY <1>1, <1>2 DEF RecordStuck, H!Has, Types
<1>3. QED
  BY <1>2 DEF RuleNeedsHole

LEMMA RemoveKeepsRules ==
    ASSUME Types, RuleNeedsHole, RecordStuck,
           NEW c, NEW t, NEW rest, H!RemoveCall(c, t, rest)
    PROVE  RuleNeedsHole'
<1>1. stuck \subseteq stuck'
  BY DEF RecordStuck
<1>2. QED
  BY <1>1, RemovedKeepsRules, RaisesKeepRules DEF H!RemoveCall

\* An answer opens the firewall only to a host that has no hole, and the
\* hole is registered before.
LEMMA AnswerKeepsRules ==
    ASSUME Inv, RuleNeedsHole, NEW r \in Requests, Answer(r)
    PROVE  RuleNeedsHole'
<1> DEFINE d  == TimeLeft(request[r].status)
           id == HostId(request[r].src)
<1>1. stuck' = stuck /\ Arrived(r)
  BY DEF Answer
<1>2. CASE UNCHANGED <<holes, fw>>
  BY <1>1, <1>2 DEF RuleNeedsHole, H!Has
<1>3. CASE /\ d > 0 /\ request[r].status.expiration > 0
           /\ H!Add(id, d) \/ H!AddRaises(id, d)
  <2>1. id \in ClientIds
    BY <1>1, ToldStatus
  <2> PICK e : e = H!NewEntry(id, d)
    OBVIOUS
  <2>2. d \in 1..MaxTime
    BY <1>1, <1>3, LeftOfSession
  <2> HIDE DEF d, id
  <2>3. e # None
    BY <2>1, <2>2, PortalNoneAssumption, PortalAssumption
    DEF Inv, Types, H!NewEntry, H!Entry
  <2>4. /\ holes[id] = None /\ holes' = [holes EXCEPT ![id] = e]
        /\ fw' = fw \/ fw' = [fw EXCEPT ![id] = @ + 1]
    BY <1>3 DEF H!Add, H!AddRaises, H!Has
  <2>5. ASSUME NEW b \in ClientIds, b \notin stuck'
        PROVE  fw'[b] <= IF H!Has(b)' THEN 1 ELSE 0
    <3>1. fw[b] \in Nat /\ fw[b] <= IF holes[b] # None THEN 1 ELSE 0
      BY <1>1, <2>5 DEF Inv, Types, RuleNeedsHole, H!Has
    <3>2. CASE b = id
      <4>1. fw[b] = 0 /\ fw'[b] \in {fw[b], fw[b] + 1}
        BY <2>1, <2>4, <3>1, <3>2 DEF Inv, Types
      <4>2. holes'[b] # None
        BY <2>1, <2>3, <2>4, <3>2 DEF Inv, Types
      <4>3. QED
        BY <4>1, <4>2 DEF H!Has
    <3>3. CASE b # id
      <4>1. fw'[b] = fw[b] /\ holes'[b] = holes[b]
        BY <2>4, <3>3 DEF Inv, Types
      <4>2. QED
        BY <3>1, <4>1 DEF H!Has
    <3>4. QED
      BY <3>2, <3>3
  <2>6. QED
    BY <2>5 DEF RuleNeedsHole
<1>4. bookVars' = bookVars \/ H!AddDuplicate(id) => UNCHANGED <<holes, fw>>
  BY DEF bookVars, H!AddDuplicate
<1>5. QED
  BY <1>2, <1>3, <1>4 DEF Answer

LEMMA RulesNext ==
    ASSUME Inv, RuleNeedsHole, [Next]_vars
    PROVE  RuleNeedsHole'
<1> USE DEF Inv
<1>1. ASSUME UNCHANGED <<holes, fw>>, stuck \subseteq stuck'
      PROVE  RuleNeedsHole'
  BY <1>1 DEF RuleNeedsHole, H!Has
<1>2. ASSUME NEW ip \in Ips, Clean(ip)
      PROVE  RuleNeedsHole'
  BY <1>2, RemoveKeepsRules DEF Clean, H!RemoveHole
<1>3. ASSUME H!CatchUp \/ H!Reschedule, RecordStuck
      PROVE  RuleNeedsHole'
  <2>1. stuck \subseteq stuck'
    BY <1>3 DEF RecordStuck
  <2>2. CASE H!CatchUp
    BY <1>3, <2>1, <2>2, RemovedKeepsRules, RaisesKeepRules DEF H!CatchUp
  <2>3. CASE H!Reschedule
    BY <1>1, <2>1, <2>3 DEF H!Reschedule
  <2>4. QED
    BY <1>3, <2>2, <2>3
<1>4. CASE Reactor
  <2>1. RecordStuck /\ stuck \subseteq stuck'
    BY <1>4 DEF Reactor, RecordStuck
  <2>2. CASE H!HoleExpired
    BY <1>1, <2>1, <2>2, RemoveKeepsRules DEF H!HoleExpired
  <2>3. QED
    BY <1>3, <1>4, <2>1, <2>2 DEF Reactor
<1>5. CASE StopNext
  <2>1. CASE H!ClearNext
    BY <1>5, <2>1, RemoveKeepsRules DEF StopNext, H!ClearNext
  <2>2. QED
    BY <1>3, <1>5, <2>1 DEF StopNext
<1>6. CASE StopClean
  <2>1. stuck' = stuck /\ holes' = holes
    BY <1>6 DEF StopClean
  <2>2. CASE fw' = fw
    BY <1>1, <2>1, <2>2
  <2>3. CASE fw' = [c \in ClientIds |-> 0]
    BY <2>3 DEF RuleNeedsHole
  <2>4. QED
    BY <1>6, <2>2, <2>3 DEF StopClean
<1>7. Tick \/ Stop \/ UNCHANGED vars => UNCHANGED <<holes, fw, stuck>>
  BY DEF Tick, H!Tick, Stop, H!RemoveAll, vars, bookVars
<1>8. \A ip \in Ips : Logout(ip) => UNCHANGED <<holes, fw, stuck>>
  BY DEF Logout, bookVars
<1>9. \A ip \in Ips, length \in Lengths :
         Login(ip, length) => UNCHANGED <<holes, fw, stuck>>
  BY DEF Login, bookVars
<1>10. \A r \in Requests :
          /\ \A src \in Src : Ask(r, src) => UNCHANGED <<holes, fw, stuck>>
          /\ Tell(r) \/ Arrive(r) \/ LookupFails(r) =>
                 UNCHANGED <<holes, fw, stuck>>
  BY DEF Ask, Tell, Arrive, LookupFails, bookVars
<1>11. QED
  BY <1>1, <1>2, <1>4, <1>5, <1>6, <1>7, <1>8, <1>9, <1>10, AnswerKeepsRules
  DEF Next

\* However many lookups for a host are answered, in whatever order with its
\* removals and with the timer, it is opened once at most; and unless the
\* removal of its hole has raised, it is not open without one.
THEOREM RulesCorrect == Spec => []RuleNeedsHole
<1>1. Init => RuleNeedsHole
  BY DEF Init, H!Init, RuleNeedsHole
<1>2. QED
  BY InitInv, NextInv, RulesNext, <1>1, PTL DEF Spec
=============================================================================
