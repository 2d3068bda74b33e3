---------------------------- MODULE SystemFirewall ----------------------------
(***************************************************************************)
(* The rules in the kernel's mangle table and the program that edits them: *)
(* IPTablesFirewallBase (cattivo/firewall/iptables/base.py) on top of      *)
(* pyipt.Table (pyipt/pyipt-table.c), which keeps one copy of the table,   *)
(* its handle, edits the copy and commits it as a whole (libiptc.c).       *)
(*                                                                         *)
(* An operation is a sequence of calls of pyipt.Table.  Any call may       *)
(* raise, which abandons the rest of the operation but not what the handle *)
(* already holds.  Between two calls the process may be killed and other   *)
(* processes may edit the table; a commit is two system calls, the second  *)
(* one putting the counters back.                                          *)
(***************************************************************************)
EXTENDS Naturals, Sequences, FiniteSets, SequencesExt

CONSTANTS
    Clients,    \* addresses of clients
    Foreign,    \* rules other processes may have in the table
    MaxStarts,  \* bound on the starts of the program
    MaxOps,     \* bound on the clients added
    None        \* no handle, no chain

VARIABLES
    kernel,     \* the table in the kernel
    handle,     \* the handle of the pyipt.Table object, or None
    todo,       \* the calls the running operation still has to make
    client,     \* what the holes know of each client
    status,     \* of the program
    disturbed,  \* history: has a call failed by itself, another process written?
    starts, ops \* how often the program started, clients were added

vars == <<kernel, handle, todo, client, status, disturbed, starts, ops>>

-----------------------------------------------------------------------------
(* Rules, tables, handles, calls.                                          *)

Authenticator == [rule |-> "authenticator"]
LocalTraffic == [rule |-> "local"]
Tproxy == [rule |-> "tproxy"]
Accept(c) == [rule |-> "accept", source |-> c]
Log(c) == [rule |-> "log", source |-> c]

Rule ==
    {Authenticator, LocalTraffic, Tproxy}
        \cup {Accept(c) : c \in Clients} \cup {Log(c) : c \in Clients}

\* rules: chain cattivo, if there is one; jumps: rules of PREROUTING that
\* jump to it; others: rules that are not this program's.
Table == [rules : Seq(Rule) \cup {None}, jumps : Nat, others : SUBSET Foreign]

ASSUME FirewallAssumption ==
    /\ MaxStarts \in Nat /\ MaxOps \in Nat
    /\ IsFiniteSet(Foreign)
    /\ None \notin Seq(Rule)
    /\ None \notin [table : Table, num : Nat, changed : BOOLEAN]

HasChain(t) == t.rules # None

\* info.num_entries: a chain has a header and a policy rule of its own.
Entries(t) ==
    (IF HasChain(t) THEN Len(t.rules) + 2 ELSE 0) + t.jumps + Cardinality(t.others)

\* iptc_init(): a copy of the table and its size at that time.
Read(t) == [table |-> t, num |-> Entries(t), changed |-> FALSE]

\* maybe_create_handle()
Handle == IF handle = None THEN Read(kernel) ELSE handle

Call(method) == [method |-> method]
CallWith(method, rule) == [method |-> method, rule |-> rule]

Commit == <<Call("replace"), Call("addCounters")>>

\* Wrong: deletes the chain before it is empty.
CleanCallsChainFirst ==
    <<Call("deleteJump"), Call("deleteChain"), Call("flushEntries")>> \o Commit

CleanCalls ==
    <<Call("deleteJump"), Call("flushEntries"), Call("deleteChain")>> \o Commit

\* The exceptions clean() catches.
Tolerated == {"deleteJump", "flushEntries", "deleteChain"}

InitializeCalls ==
    CleanCalls
    \o <<Call("createChain"), CallWith("appendEntry", Authenticator),
         CallWith("appendEntry", LocalTraffic),
         CallWith("appendEntry", Tproxy)>> \o Commit
    \o <<Call("appendJump")>> \o Commit

\* Wrong: commits every rule on its own.
AddClientCallsOneByOne(c) ==
    <<CallWith("insertEntry", Accept(c))>> \o Commit
    \o <<CallWith("insertEntry", Log(c))>> \o Commit

\* Wrong: the rules end up in the other order.
AddClientCallsSwapped(c) ==
    <<CallWith("insertEntry", Log(c)), CallWith("insertEntry", Accept(c))>>
    \o Commit

\* Wrong: leaves the change in the handle.
AddClientCallsUncommitted(c) ==
    <<CallWith("insertEntry", Accept(c)), CallWith("insertEntry", Log(c))>>

AddClientCalls(c) ==
    <<CallWith("insertEntry", Accept(c)), CallWith("insertEntry", Log(c))>>
    \o Commit

\* Wrong: forgets one of the two rules.
RemoveClientCallsLogOnly(c) == <<CallWith("deleteEntry", Log(c))>> \o Commit

RemoveClientCalls(c) ==
    <<CallWith("deleteEntry", Log(c)), CallWith("deleteEntry", Accept(c))>>
    \o Commit

-----------------------------------------------------------------------------
TypeOK ==
    /\ kernel \in Table
    /\ handle \in [table : Table, num : Nat, changed : BOOLEAN] \cup {None}
    /\ client \in [Clients -> {"closed", "registered", "open"}]
    /\ status \in {"down", "starting", "up", "stopping", "stopped", "failed"}
    /\ disturbed \in BOOLEAN
    /\ starts \in 0..MaxStarts
    /\ ops \in 0..MaxOps

Everybody(state) == [c \in Clients |-> state]

Init ==
    /\ kernel = [rules |-> None, jumps |-> 0, others |-> {}]
    /\ handle = None
    /\ todo = <<>>
    /\ client = Everybody("closed")
    /\ status = "down"
    /\ disturbed = FALSE
    /\ starts = 0
    /\ ops = 0

\* The process ends, however it does: its memory is gone.
Gone(how) ==
    /\ status' = how
    /\ handle' = None
    /\ todo' = <<>>
    /\ client' = Everybody("closed")

-----------------------------------------------------------------------------
(* Calls of pyipt.Table.                                                   *)

Calling(method) == todo # <<>> /\ Head(todo).method = method

\* The call leaves t in the handle.
Succeeds(t) ==
    /\ handle' = [Handle EXCEPT !.table = t, !.changed = TRUE]
    /\ todo' = Tail(todo)
    /\ UNCHANGED <<client, status>>

\* The call raises and leaves the handle h.  While the program starts or
\* stops, an exception that is not caught ends it.
Raises(h) ==
    \/ /\ Head(todo).method \in Tolerated
       /\ handle' = h
       /\ todo' = Tail(todo)
       /\ UNCHANGED <<client, status>>
    \/ /\ Head(todo).method \notin Tolerated
       /\ status = "up"
       /\ handle' = h
       /\ todo' = <<>>
       /\ UNCHANGED <<client, status>>
    \/ /\ Head(todo).method \notin Tolerated
       /\ status # "up"
       /\ Gone("failed")

\* The call edits the handle's copy t, or raises if it cannot.
Edits(possible, t) ==
    /\ IF possible THEN Succeeds(t) ELSE Raises(Handle)
    /\ UNCHANGED <<kernel, disturbed, starts, ops>>

Copy == Handle.table

\* Wrong: position 2 counted from the end.
InsertPositionFromEnd(rules) == Len(rules) + 1

\* insertEntry(2, ...): rules are counted from 0.
InsertPosition(rules) == 3

InsertEntry ==
    /\ Calling("insertEntry")
    /\ Edits(HasChain(Copy) /\ Len(Copy.rules) >= 2,
             [Copy EXCEPT !.rules =
                 InsertAt(@, InsertPosition(@), Head(todo).rule)])

AppendEntry ==
    /\ Calling("appendEntry")
    /\ Edits(HasChain(Copy),
             [Copy EXCEPT !.rules = Append(@, Head(todo).rule)])

\* The first rule that is the same.
DeleteEntry ==
    /\ Calling("deleteEntry")
    /\ Edits(HasChain(Copy) /\ Contains(Copy.rules, Head(todo).rule),
             [Copy EXCEPT !.rules = RemoveFirst(@, Head(todo).rule)])

\* An entry whose target is a chain needs the chain.
AppendJump ==
    /\ Calling("appendJump")
    /\ Edits(HasChain(Copy), [Copy EXCEPT !.jumps = @ + 1])

\* Wrong: does not look whether there is one.
DeleteJumpBlind ==
    /\ Calling("deleteJump")
    /\ Edits(HasChain(Copy), [Copy EXCEPT !.jumps = @ - 1])

DeleteJump ==
    /\ Calling("deleteJump")
    /\ Edits(HasChain(Copy) /\ Copy.jumps > 0,
             [Copy EXCEPT !.jumps = @ - 1])

CreateChain ==
    /\ Calling("createChain")
    /\ Edits(~HasChain(Copy), [Copy EXCEPT !.rules = <<>>])

FlushEntries ==
    /\ Calling("flushEntries")
    /\ Edits(HasChain(Copy), [Copy EXCEPT !.rules = <<>>])

\* A chain that has rules or is jumped to cannot be deleted.
DeleteChain ==
    /\ Calling("deleteChain")
    /\ Edits(Copy.rules = <<>> /\ Copy.jumps = 0,
             [Copy EXCEPT !.rules = None])

\* commit(), first half.  The kernel takes the table only if it has as many
\* entries as the handle read; after a failure the handle is kept as it is.
Replace ==
    /\ Calling("replace")
    /\ UNCHANGED <<disturbed, starts, ops>>
    /\ \/ /\ handle # None
          /\ ~handle.changed
          /\ handle' = None
          /\ todo' = Tail(Tail(todo))
          /\ UNCHANGED <<kernel, client, status>>
       \/ /\ handle # None
          /\ handle.changed
          /\ handle.num = Entries(kernel)
          /\ kernel' = handle.table
          /\ todo' = Tail(todo)
          /\ UNCHANGED <<handle, client, status>>
       \/ /\ handle # None => handle.changed /\ handle.num # Entries(kernel)
          /\ Raises(handle)
          /\ UNCHANGED kernel

\* Second half: the counters are put back, if the table still has as many
\* entries as were sent, and the handle is freed.
AddCounters ==
    /\ Calling("addCounters")
    /\ \/ /\ Entries(kernel) = Entries(handle.table)
          /\ handle' = None
          /\ todo' = Tail(todo)
          /\ UNCHANGED <<client, status>>
       \/ /\ Entries(kernel) # Entries(handle.table)
          /\ Raises(handle)
    /\ UNCHANGED <<kernel, disturbed, starts, ops>>

\* Any call may fail for reasons of its own (no memory, ...), before or after it has a handle.
CallFails ==
    /\ todo # <<>>
    /\ Head(todo).method \notin {"queued", "finished"}
    /\ \/ Raises(handle)
       \/ Head(todo).method \notin {"replace", "addCounters"} /\ Raises(Handle)
    /\ disturbed' = TRUE
    /\ UNCHANGED <<kernel, starts, ops>>

-----------------------------------------------------------------------------
(* The operations.                                                         *)

\* Launcher.createFirewall: the table object, then initialize().
Start ==
    /\ status \in {"down", "stopped", "failed"}
    /\ starts < MaxStarts
    /\ starts' = starts + 1
    /\ status' = "starting"
    /\ handle' = Read(kernel)
    /\ todo' = InitializeCalls \o <<Call("finished")>>
    /\ UNCHANGED <<kernel, client, disturbed, ops>>

Idle == status = "up" /\ todo = <<>>

\* addClient, called by Holes.add: the client is in the dictionary of holes
\* before, and in the list only after.
AddClient(c) ==
    /\ Idle
    /\ client[c] = "closed"
    /\ ops < MaxOps
    /\ ops' = ops + 1
    /\ client' = [client EXCEPT ![c] = "registered"]
    /\ todo' = AddClientCalls(c) \o <<[method |-> "queued", client |-> c]>>
    /\ UNCHANGED <<kernel, handle, status, disturbed, starts>>

Queued ==
    /\ Calling("queued")
    /\ client' = [client EXCEPT ![Head(todo).client] = "open"]
    /\ todo' = Tail(todo)
    /\ UNCHANGED <<kernel, handle, status, disturbed, starts, ops>>

\* removeClient, called by Holes._remove when the client is in neither.
RemoveClient(c) ==
    /\ Idle
    /\ client[c] = "open"
    /\ client' = [client EXCEPT ![c] = "closed"]
    /\ todo' = RemoveClientCalls(c)
    /\ UNCHANGED <<kernel, handle, status, disturbed, starts, ops>>

\* Holes.remove of a client whose addClient has raised: the entry is not in
\* the list, and the firewall is not called.
ForgetClient(c) ==
    /\ Idle
    /\ client[c] = "registered"
    /\ client' = [client EXCEPT ![c] = "closed"]
    /\ UNCHANGED <<kernel, handle, todo, status, disturbed, starts, ops>>

\* Firewall.clean after the reactor has stopped: removeAll takes the holes in
\* the list one by one, and the first that raises ends it ...
Stop ==
    /\ Idle
    /\ status' = "stopping"
    /\ UNCHANGED <<kernel, handle, todo, client, disturbed, starts, ops>>

Stopping == status = "stopping" /\ todo = <<>>

StopRemove(c) ==
    /\ Stopping
    /\ client[c] = "open"
    /\ client' = [client EXCEPT ![c] = "closed"]
    /\ todo' = RemoveClientCalls(c)
    /\ UNCHANGED <<kernel, handle, status, disturbed, starts, ops>>

\* ... then clean() of the system firewall.
StopClean ==
    /\ Stopping
    /\ \A c \in Clients : client[c] # "open"
    /\ todo' = CleanCalls \o <<Call("finished")>>
    /\ UNCHANGED <<kernel, handle, client, status, disturbed, starts, ops>>

\* The program is up, or has stopped.
Finished ==
    /\ Calling("finished")
    /\ \/ /\ status = "starting"
          /\ status' = "up"
          /\ todo' = <<>>
          /\ UNCHANGED <<handle, client>>
       \/ status = "stopping" /\ Gone("stopped")
    /\ UNCHANGED <<kernel, disturbed, starts, ops>>

Crash ==
    /\ status \in {"starting", "up", "stopping"}
    /\ Gone("down")
    /\ UNCHANGED <<kernel, disturbed, starts, ops>>

\* Another process adds or deletes a rule of its own.
OtherProcess ==
    /\ \E f \in Foreign :
          kernel' = [kernel EXCEPT !.others =
                        IF f \in @ THEN @ \ {f} ELSE @ \cup {f}]
    /\ disturbed' = TRUE
    /\ UNCHANGED <<handle, todo, client, status, starts, ops>>

Next ==
    \/ Start
    \/ \E c \in Clients : AddClient(c) \/ RemoveClient(c) \/ ForgetClient(c)
    \/ Stop \/ StopClean \/ \E c \in Clients : StopRemove(c)
    \/ InsertEntry \/ AppendEntry \/ DeleteEntry
    \/ AppendJump \/ DeleteJump
    \/ CreateChain \/ FlushEntries \/ DeleteChain
    \/ Replace \/ AddCounters
    \/ Queued \/ Finished
    \/ CallFails
    \/ Crash
    \/ OtherProcess

Spec == Init /\ [][Next]_vars

-----------------------------------------------------------------------------
(* Properties.                                                             *)

Occurrences(rule) ==
    IF HasChain(kernel)
    THEN Cardinality({i \in DOMAIN kernel.rules : kernel.rules[i] = rule})
    ELSE 0

ClientRules == SubSeq(kernel.rules, 3, Len(kernel.rules) - 1)

\* Between two operations the chain is what initialize() made it plus the
\* two rules of every open client and of nobody else, logged before it is
\* accepted, and it is jumped to once - also when an earlier run of the
\* program was killed between any two calls.
KernelMatches ==
    Idle /\ ~disturbed =>
        /\ kernel.jumps = 1
        /\ HasChain(kernel)
        /\ kernel.rules = <<Authenticator, LocalTraffic>> \o ClientRules \o <<Tproxy>>
        /\ \E s \in SetToSeqs({c \in Clients : client[c] = "open"}) :
              ClientRules = FlattenSeq([i \in DOMAIN s |-> <<Log(s[i]), Accept(s[i])>>])

\* Whatever a run that was killed has left in the kernel, no later start
\* or stop trips over it.
NeverFails == status = "failed" => disturbed

\* A program that was stopped leaves nothing behind.
StopLeavesNothing ==
    status = "stopped" /\ ~disturbed => kernel.jumps = 0 /\ ~HasChain(kernel)

\* Whatever fails, and however stale the handle is that a failed commit has
\* left behind: a client with a queued hole is let through.
OpenIsAccepted ==
    \A c \in Clients : client[c] = "open" => Occurrences(Accept(c)) > 0

\* Whatever fails, the exceptions come first and the redirection last: no
\* rule of a client is out of the reach of its packets.
WellPlaced ==
    HasChain(kernel) /\ kernel.rules # <<>> =>
        /\ Len(kernel.rules) >= 3
        /\ kernel.rules[1] = Authenticator
        /\ kernel.rules[2] = LocalTraffic
        /\ \A i \in DOMAIN kernel.rules :
              kernel.rules[i] = Tproxy <=> i = Len(kernel.rules)

\* Whatever fails, who is logged is let through further down: the log never
\* counts packets of a client that the same chain redirects.
LoggedIsAccepted ==
    HasChain(kernel) =>
        \A i \in DOMAIN kernel.rules, c \in Clients :
            kernel.rules[i] = Log(c) =>
                \E j \in (i + 1)..Len(kernel.rules) : kernel.rules[j] = Accept(c)

\* Refinement, as long as nothing is disturbed: a client has both of its
\* rules or none.  From then on the gate promises nothing, and reads as shut.
Passes == INSTANCE Gate WITH
    gate <- [c \in Clients |->
                CASE disturbed -> "shut"
                  [] ~disturbed /\ Occurrences(Accept(c)) = 1
                        /\ Occurrences(Log(c)) = 1 -> "open"
                  [] ~disturbed /\ Occurrences(Accept(c)) = 0
                        /\ Occurrences(Log(c)) = 0 -> "shut"
                  [] OTHER -> "partial"]

ImplementsGate == Passes!Spec
=============================================================================
