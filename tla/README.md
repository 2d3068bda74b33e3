# cattivo in TLA+

cattivo is a captive portal: HTTP connections of unknown clients are diverted by
the kernel to a small web server (the bouncer), which redirects the browser to
an authenticator; once the client has logged in, rules in the kernel's firewall
let its traffic through until its session ends. This directory holds TLA+
modules that model the program, TLC configurations that check them on small
instances, and theorems about them that TLAPS proves for all instances.

Paths below are relative to the repository's `src/`.

## 1. The system

| component | source | state it keeps | operations |
|---|---|---|---|
| holes | `cattivo/holes.py` | `_hole_entries` (by client), `_hole_entries_by_expiration` (sorted list), `_hole_expired_call` (one pending reactor call) | `add`, `remove`, `removeAll`, `find`, `_holeExpired`, `_rescheduleNextExpiration` |
| firewall facade | `cattivo/firewall/firewall.py` | none of its own | `clientAllowed` and its callbacks, `removeClient`, `clean`, `initialize` |
| system firewall | `cattivo/firewall/iptables/base.py`, `iptables.py` | the `mangle` table object; through it the rules in the kernel | `initialize`, `clean`, `addClient`, `removeClient` |
| pyipt table | `cattivo/firewall/iptables/pyipt/pyipt-table.c` | a libiptc handle, or NULL | create, delete, flush chains; insert, append, delete entries; `commit` |
| pyipt entry, match, target | `pyipt-entry.c`, `pyipt-match.c`, `pyipt-target.c`, `pyipt.c` | C structures, the error flag of xtables | constructors, `addMatch`, `setTarget`, generation of an `ipt_entry` |
| libiptc | `cattivo/firewall/iptables/libiptc/libiptc.c` | the shared socket; per handle a list of chains with an index, rules, references, counter maps, iterators | `TC_INIT`, `TC_FREE`, `TC_COMMIT`, chains, rules, counters, iteration |
| libip4tc, libip6tc | `libip4tc.c`, `libip6tc.c` | none | comparison and printing of rules |
| xtables and extensions | `cattivo/firewall/iptables/xtables/` | registered matches and targets, merged options | registration, lookup, option parsing |
| bouncer | `cattivo/bouncer/http.py` | one deferred per request | `getChild`, `_clientAllowedCb` |
| cleaner | `cattivo/cleaner/http.py` | none | `RemoveResource.getChild` |
| client list | `cattivo/clientlist/` | the dictionary of clients (`db.py`) | client: `getClient`; server: `render_GET` |
| authenticator | `cattivo/authenticator/simple.py` | none here | an example of the external service |
| nflog | `cattivo/firewall/iptables/nflog/` | a netlink socket, a library handle | read the packets the kernel logs one by one, find the HTTP request in each |
| logger | `cattivo/logger/http/` | none | client: posts each request; server: writes it to its log |
| launcher | `cattivo/launcher.py`, `bin/cattivo` | the services, the triggers to run after shutdown | start in order, stop at the first that fails, `stopFirewall` after shutdown |
| configuration, utilities | `cattivo/utils.py`, `cattivo.conf` | the configuration | read it |
| log | `cattivo/log/` | a logging library | |
| twisted_pair | `cattivo/twisted_pair/` | none | a copy of a part of Twisted: takes IP headers off what was logged |

How they interact. Everything runs in one process under Twisted's reactor: a
handler (an HTTP request, an answer that arrived, a timer that is due) runs to
its end before another starts. The bouncer calls `Firewall.clientAllowed`, which
looks in the holes and, if there is none, asks the client list server over HTTP
without blocking; the callback opens a hole for what is left of the session
(`Holes.add`), which calls `addClient` of the system firewall, which edits and
commits the `mangle` table through pyipt and libiptc. The timer of the holes,
the cleaner and the end of the program close holes the same way. The kernel's
table is shared with every other process of the machine and outlives this one.
The rules of a client also log its packets to a netlink socket, from which the
logger reads them. The launcher starts all of this in order and, when the
reactor stops, runs the triggers the services have left behind.

What is hard here:

- **Interleaving of handlers.** Between a question to the client list and its
  answer everything else may run: another lookup of the same host, the cleaner,
  the timer, the end of the program.
- **Exceptions half way.** Every call of the system firewall may raise, and the
  handlers have no `finally`: each failure leaves the dictionary, the list, the
  timer, the handle and the kernel in a different combination.
- **Order and time.** The list is sorted by a comparison that reads the clock
  and does not tell holes apart that end together; the timer forgets itself
  before it acts.
- **Commits.** Edits collect in a handle; a commit replaces the whole table if
  the kernel's has not changed size since, and then puts counters back in a
  second system call. A failed commit leaves the edits behind.
- **Crashes.** The rules survive the process. The next start has to cope with
  whatever an earlier one left.
- **Indices kept by hand.** libiptc's index of chains, references, counter maps
  and iterators are kept up to date edit by edit.
- **Structures that are shared.** xtables hands out the registered structure of
  a match itself, once; Python's objects share matches and targets by counts
  kept by hand; errors are reported in a variable that is never reset.
- **Starting and stopping.** A service may fail, and the program may be stopped,
  while another is half started; what is in the kernel by then has to go.

## 2. The modules

| module | models | with |
|---|---|---|
| `Leases` | what the holes promise (abstract) | |
| `Holes` | `holes.py` | implements `Leases` |
| `Portal` | firewall facade, bouncer, cleaner, client list, shutdown | uses the actions of `Holes` |
| `Gate` | what the portal wants of the system firewall (abstract) | |
| `SystemFirewall` | `base.py` and `pyipt-table.c` down to the two system calls of a commit | implements `Gate` |
| `Services` | `launcher.py` and the packet logger: starting, stopping, reading packets | |
| `Options` | the options of the extensions: what is rejected, what they leave for the kernel, what the kernel makes of it | |
| `Extensions` | xtables' registry: what importing pyipt registers, revisions, lookup | |
| `Entries` | pyipt's matches, targets and entries, and the entry generated from them | extends the two above |
| `IptcSocket` | the socket libiptc shares among handles | |
| `ChainIndex` | how libiptc finds, creates, deletes, renames and iterates over chains | |
| `Ruleset` | the rules of a handle: parsing, editing, compiling, references, policies, counters | |
| `SequenceLemmas`, `HolesProofs`, `PortalProofs`, `FirewallProofs`, `ServicesProofs`, `EntriesProofs`, `HandleProofs`, `ChainIndexProofs` | theorems | extend the modules above |
| `MCHoles`, `MCPortal`, `MCSystemFirewall`, `MCServices`, `MCEntries`, `MCIptcSocket`, `MCChainIndex`, `MCRuleset` | small instances | extend them |

A definition whose comment begins with "Wrong:" is a plausible mistake in the
definition that follows it. No specification uses it; replacing the right
definition by it makes the property it is meant for fail, which is how we know
the property can fail.

### Holes

A tick is longer than the time between two readings of the clock in one
handler, so `now` moves only between handlers, or between two iterations of a
loop; entries carry a `serial` so that two `HoleEntry` objects of one client
differ, as objects do in Python.

| state | code |
|---|---|
| `holes` | `_hole_entries` |
| `queue` | `_hole_entries_by_expiration` |
| `timer` | `_hole_expired_call`: when it is due |
| `fw` | how many rules the client has in the system firewall |
| `resched`, `clearing` | `_rescheduleNextExpiration` and `removeAll` are looping; one step is one iteration |
| `error` | what the last handler raised |

`Add`, `AddRaises` and `AddDuplicate` are the ways through `add`, depending on
what the firewall does; `RemoveCall` (its ways `Removed` and `RemoveRaises`) is
`_remove` followed by the decision to reschedule; `HoleExpired` is the timer's
callback; `CatchUp` and `Reschedule` the two branches of one turn of the
rescheduling loop. `bisect.insort_right` under `HoleEntry.__cmp__` is `Slots`:
the places where the comparison allows the entry to go. `list.remove` is
`Dequeue`: it takes out the first entry that compares *equal*, which is any
entry that ends at the same time.

Two constants say what the environment may do: `Faults`, which calls of the
system firewall may raise, and `Ties`, whether two queued holes may end at the
same time. The strong properties hold if `Faults = {}` and `~Ties`, which we
call sound, and `holes` checks them there. `holes_faulty` has all faults and no
ties: what may abandon `removeAll`, whose copy of the list a catching up makes
old, is then a call that fails and nothing else. `portal` has all faults and ties
and checks what still holds then, and one of the findings is what happens with
ties alone.

### Portal

`Portal` has the variables of `Holes` and a few of its own, and its actions
conjoin the actions of `Holes` with what the handler does besides: `Answer`, for
one, is `_getClientCb`, which looks at the status that arrived, computes what is
left of the session and calls `Holes.add`. A request goes from fresh to asked
(the page is being fetched), told (the server has answered with what it knew at
that moment; the answer is on its way), arrived (the whole page is there) and
allowed or refused. A lookup may fail before its answer has arrived, and it may
never end: `getPage` is given no timeout. The client list knows hosts, so the
ids in it have port 0, while the bouncer looks for the id with the connection's
port: `Ask` keeps that difference.

`granted` and `stuck` are history: when the sessions granted to a host end, and
of which clients removing a hole has raised, after which their rule may stay
with nobody left to remove it. `RuleNeedsHole` says of all others that the rules
are those the books call for. The end of the program is `Stop`, which calls
`removeAll`, `StopNext` for each of its removals, and `StopClean`, the cleaning
of the system firewall, which may raise before or after its commit takes effect;
what is in the kernel then is the matter of `SystemFirewall` and `Services`.

### SystemFirewall

Five kinds of rules are told apart: the three of `initialize` and, per client,
Accept and Log. The kernel's table is the rules of chain `cattivo` (or no
chain), the number of jumps to it from PREROUTING, and a set of rules of other
processes, which matter because a commit fails when the number of entries has
changed. `handle` is the copy the `pyipt.Table` object holds.

An operation is a queue of calls, `todo`, each an action: so the process can be
killed, and another process can write, between any two of them, and a call that
raises abandons the rest of its operation, but not the edits the handle already
holds. The exceptions `clean` swallows are `Tolerated`. A commit is `Replace`
and `AddCounters`. The end of the program is `Stop`, then `StopRemove` for each
client with a queued hole, as `removeAll` does, then `StopClean`; a removal that
raises ends it there. `status` tells starting, up, stopping and stopped apart from
a process that was killed (`down`) or ended by an exception (`failed`).

`disturbed` is history: whether a call has failed for a reason of its own, or
another process has written. Being killed is no disturbance. What holds only
until the first one says so (`KernelMatches`, `NeverFails`, `StopLeavesNothing`
and the refinement of `Gate`); the other properties hold whatever happens.

### Services

`next` is the place in `Order` where the iterator of `iterateStart` is; every
service may fail at the points where the code can raise, and then `StartError`
stops the reactor. `CreateFirewall` is the first half of `initialize`, up to the
address of the authenticator, `Resolved` the rest. `triggers` are the calls
registered for after the shutdown; the reactor first closes all ports and
readers (`Disconnect`), then runs the triggers in the order they were added,
each whatever the others raised. A process that is killed leaves the kernel's
rules and loses its sockets.

What the firewall has in the kernel is reduced to two facts, `redirects` and
`holes`: `SystemFirewall` has the rules behind them. `disturbed` says that the
process was killed or a commit failed since the firewall was last cleaned; from
then on only the next clean puts things right.

The kernel's side of the netlink socket is a buffer of `MaxQueue` packets. A
packet that does not fit makes the next read answer `ENOBUFS` (`overrun`), and
the kernel drops what follows until the buffer is empty (`congested`). `DoRead`
is one read with everything below it: the data begins where byte 12 of the TCP
header says, and what is there is given to an HTTP channel that has this packet
and no other. `posted` is what that read sent to the logger; the next step
clears it.

Byte 12 is the length of the header in words and four flags, of which the code
keeps two beside the length (`DataOffset`). The IP layer hands on what begins 20
bytes into the packet (`ip.py:58`), so for an IP header with options another
byte stands in that place, and `Byte12` may be any. Data that was cut in the
wrong place may still be a request, be part of one or be no HTTP at all:
`Received` is the set of what the channel may be given, and `DoRead` takes one.
`Measurable` says for which packets the code finds the data.

### Options, Extensions and Entries

An option that occurs is a record with its argument taken apart; `Rejects` says
whether the extension reports an error, `Takes` what it writes into its block of
data, `TcpMatches` and `Marked` what the kernel makes of that block. `Parse` is
the loop around `getopt_long` in pyipt's constructors. `exit_err` is declared
not to return (`xtables.h:201`) but pyipt's does, after it has set a flag, so
what follows is undefined: the data may be anything, or the process may end
(`Dies`). `Registry` is a function of the kernel: of each extension the one that
survives the registrations in the order of `initpyipt`.

In `Entries` an object lies in a slot, freed when its references are gone, after
which the slot holds `Nothing`; `struct` is what the registered structures and
their copies hold. The first match of a name takes the registered structure (`Structure`), so what a refused
constructor has left there is what the next one finds. `Generated` is the block
of memory `py_ipt_entry_generate` lays out, its parts at their offsets, and
`Walked` and `TargetRead` the kernel's way through it, by the sizes it finds.
Sizes are small numbers; at a wrong offset there is no part, or more than one.
`event` is what the last call did, for the properties.

### IptcSocket

`sockfd`, `sockfd_use` and the progress of the one `TC_INIT` that can be
running. The size of the table in the kernel is a counter of changes, which is
all `TC_INIT` notices of it. `SocketInit`, `SocketNext`, `SocketSpec` and
`SocketTypeOK` have the module's name in theirs because `HandleProofs` is about
this module and `Ruleset` together. `raced` is history: whether a table has changed
while it was read, after which the count may be too low (finding 3).

### ChainIndex

Names are even numbers, in `strcmp`'s order; a chain is an object whose name is
looked up, since `TC_RENAME_CHAIN` changes it in place. Searches are functions
of positions in the index, exactly as `iptcc_bsearch_chain_index` moves `pos`
and `end`. When the last chain is deleted while it is the first of a bucket,
`chain_index` keeps a pointer to the list's head; read as a chain its name is
whatever lies behind it, the pointer `chain_iterator_cur`: NULL reads as the
empty name, and `Address` says how every other pointer compares with the names
(odd numbers: before, between, beyond, but never equal). If the index ever
points to memory that was freed the model stops there, since what a search
reads is undefined from then on. Memory is taken in the order of `Objects` and
forgets its name when it is freed, since nobody reads it.

`disturbances` is history: how many chains were renamed and iterations begun so
far. `FindsExactly`, `IndexIsLive` and `BsearchIsLinear` hold until the first:
`TC_RENAME_CHAIN` (`libiptc.c:2334`) leaves the chain at the place of its old
name in a list that is searched as sorted, and while an iteration is under way
the head of the list, once it is in the index (`libiptc.c:562`), no longer reads
as the empty name, so that a chain created next may take the first place of the
index while smaller ones exist. cattivo does neither: `initialize` deletes and
creates its chain in one handle. `IteratorIsLive` holds in any case.

### Ruleset

`kernel` is the table as the kernel has it: entries with a size, so with
offsets, a verdict that is an offset where it jumps, and a counter. `handle` is
what `parse_table` makes of it: per chain a sequence of rules, the number of
references, and per built-in chain a policy. `Parse` and `Compile` are functions
of the table and of the handle; the edits are one action for each function of
libiptc's interface. `Layout` says of what the entries of a table are made (for
each chain its `Part`: a header unless it is built in, its rules, its foot) and
`LayoutOffsets` where each begins; `HeadOffset` is the offset of a chain's first
entry, to which a jump is relative. `Recounted` is what `iptcc_map_target` counts up and
`iptcc_delete_rule` counts down. Which packets a rule matches is left out, so
`TC_DELETE_ENTRY` may find any rule with the same target.

`replaced` is what the kernel gives back between the two halves of a commit; a
packet may pass at any time while there is a handle. `lost` is history: whether
the second half of a commit has failed. So are `due`, what an entry's counter
should be, and in a rule `from` and `less`, where its counter comes from and
what an edit has taken away from it; no guard reads them. The kernel compiles
nothing itself: a table it accepts it has as it was sent, with counters of zero.

Until `lost` every rule that is kept keeps its counter (`KeepsCounters`). After
that a commit of the same handle maps counters of the table before last, and a
rule that was zeroed subtracts what it had from a counter that has started
again, so that it wraps (`libiptc.c:2423`). Setting a policy without counters
starts its counter at zero (`libiptc.c:2378`), and zeroing a rule whose counter
was set, or that is new, does nothing (`libiptc.c:2128`); the model has both,
and takes both for what the code means to do.

## 3. What is checked

| run | instance | checks |
|---|---|---|
| `holes` | 3 clients, durations 1-3, time to 4, 4 holes; sound, fair | the books agree; the timer watches the head; nothing raises unattended; nobody is cut off early; what has ended is closed in the end; implements `Leases` |
| `holes_tied` | 2 clients, ties | **violated**: while a hole is open a call is pending |
| `holes_faulty` | 3 clients, durations 1-2, time to 4, 4 holes; all faults, no ties | types; the timer is never late for the first entry; `removeAll` and the rescheduling are abandoned by a call that fails only |
| `portal` | 2 hosts, 2 requests, sessions of length 2, time to 2, 2 holes; all faults, ties, fair | the recorded end of a hole is that of a granted session; rules are those the books call for, unless a removal raised; who is told yes has a rule; an answer that has arrived is passed on |
| `portal_refused` | 1 host, 2 requests | **violated**: nobody with a hole is refused |
| `firewall` | 3 clients, 2 foreign rules, 3 starts, 3 clients added; killed anywhere, every call may fail | until disturbed: the chain is exactly what the holes say, a start never trips, a stop leaves nothing, implements `Gate`; always: types, who has a hole passes, rules are where they have an effect, who is logged passes |
| `services` | 2 hosts, 7 kinds of packets, a buffer of 2, both extra servers, group 2; fair | until disturbed: the logger's socket is read while somebody is let through, unless a read has failed; the end leaves no redirection and no hole; a redirection gets its bouncer or is taken back; a whole request in a queued packet whose headers the code can measure is posted, unless the reader is lost first |
| `entries` | 4 slots, 4 calls of constructors out of 15, 1 entry generated, 3 kernels, 108 packets | the kernel reads an entry as its arguments say; who is refused is refused for its own arguments; nothing is freed in use; the best revision is registered |
| `socket` | 3 tables, 4 changes | types; until a table changes while it is read: the socket is open while it is used; always: it is never leaked |
| `socket_retry` | 1 table | **violated**: a retry has a socket |
| `chains` | 4 names, 5 objects, buckets of 1, 2 disturbances | until disturbed: every chain is found, the index is live, binary search agrees with linear search; always: the iterator never stands on a freed chain |
| `ruleset` | 1 built-in and 2 other chains, 1 rule at first, 2 edits, 2 rules, 1 packet, counters below 8 | types; references count the jumps; until the second half of a commit fails: counters are kept; the kernel gets the rules of the handle and jumps arrive |

**Why the bounds are enough.** The bookkeeping compares at most two entries at a
time, and its loops treat one entry per turn. Three clients with three
durations give a list with a first, a middle and a last entry in every order of
expiration; four holes let a client come back after its hole is gone. The clock
runs past the longest duration, so everything can expire and the timer can run
late by several ticks. In the portal two lookups of one host are what the code
can confuse, and two hosts are what a failure can leave different: one with a
rule and no entry, one with an entry and no rule. In the system firewall three
starts are a start, one that finds what the first left, and one that finds what
a start that found something left; the states of the kernel repeat from there
on. Three clients added make a first, a middle and a last one in the chain. In
the index four names with buckets of one give an index of up to four places, for
which the binary search takes up to three turns, and, since the index is rebuilt
only when it is short by more than `CHAIN_INDEX_INSERT_MAX` (1), places that
stand for several chains. The initial states are all sorted lists with a freshly
built index, which is what `parse_table` makes of any table. Two disturbances
are a renaming during an iteration, two renamings, or an iteration begun anew.
In the rule set, every table with up to one rule, in any of three chains or
fewer, and two edits give jumps forwards and backwards across a chain that
grows, shrinks, comes or goes; a packet may pass before the commit, between its
halves or after the second. Counters begin at the largest value, so that every
packet before an edit wraps one, and so does adding up what the kernel returns.
In the services a buffer of two packets has a first one, which may be read
wrongly, and a second one, and overflows at the third; the packets have IP and
TCP headers with and without options, and in the byte of the length no flag, one
that the code drops and two that it does not, so that requests are found, missed
and cut in the wrong place before others that have to be found. In the entries
four calls make two matches of one name (one in the registered structure, one a copy), or a refused one before them, with a
target and an entry to put them in; an error that is reported stays, and one
call after it is enough to meet it. The calls are those of `base.py` and, for
each kind of option, one that is inverted, given twice, or not known.

**Symmetry** is used in `firewall` and `entries`, which check safety only:
clients, foreign rules and slots are interchangeable model values. The refinement of `Gate` is a
safety property as well.

**Deadlock** is not checked where a counter's bound or the end of the program
stops the model; it is in `socket` and `services`, which never stop.

**Fairness.** `holes` assumes that the reactor runs a call that is due and that
a handler that has started ends: Twisted's event loop does both. `portal`
assumes that the callback of a page that has arrived runs, and the same of the
reactor; it assumes of no lookup that it ends. `portal_refused`, which has the
same fairness, has a counterexample that does not depend on it.
Nobody is assumed to log in, ask, log out, clean or stop. `services` assumes that
the iterator of the start gets its turns (`coiterate` schedules them), that the resolver answers or times out, that a socket that is readable is
read, and that a shutdown, once begun, goes through; nobody has to start or stop
the program, and no client has to come.

## 4. Findings

1. **Two holes that end together** (`holes_tied`, `holes.py:122`).
   `list.remove` compares with `HoleEntry.__cmp__`, which sees only the time
   left, so removing one client may take the other's entry out of the list. The
   entry that is left belongs to nobody; when it expires, `_remove` raises
   `HoleError`, the timer has already forgotten itself (`holes.py:151`) and is
   not armed again, and the other hole stays open for ever.
2. **Two lookups of one host** (`portal_refused`, `firewall.py:92`). Both are
   answered with a session; the second `Holes.add` raises `HoleError` because
   the first has just succeeded, and the client is refused, of which
   `firewall.py:65-68` says that it "should NEVER happen".
3. **The retry of `TC_INIT`** (`socket_retry`, `libiptc.c:1281`) frees the
   handle first, which closes the socket when it is the only one.

Other things met while modelling, which no run is about, because nothing in the
repository says otherwise or because what follows is undefined:

- `pyipt`: `exit_err` is declared not to return (`xtables.h:201`) and does
  (`pyipt.c:41-50`). After one reported error every constructor with options,
  and every entry with an interface, raises until the program is started again.
  A bad mask goes unnoticed unless the entry has an interface
  (`xtables.c:1111-1135`). `final_check` of the extensions is never called. The
  loop that drops addresses that are equal under a mask does not step back over
  the place it frees (`xtables.c:1167-1175`); pyipt takes entries with one
  address only (`pyipt-entry.c:81`). Each match of an entry that is generated
  leaks two references. An entry without a target cannot be generated:
  the target is used without asking.
- The extensions: a `!` before `--syn` has no effect, since `libxt_tcp.c:171-178`
  does not look for one and pyipt never passes the option as inverted.
  `--nflog-group` and `--nflog-threshold` lose all but 16 bits,
  `libxt_tcp.c:187` looks one argument past the last, and the result of
  `getopt_long` is kept in a `char`.
- `base.py:148` logs to group 2, while the socket is bound to the `log-group` of
  the configuration (`launcher.py:61`, `cattivo.conf:30`). With any other group
  clients are let through and nothing of theirs is logged. `Services` has both
  numbers; none of its properties needs them to agree.
- `getPage` is given no timeout (`clientlist/http/client.py:53`): a client list
  that accepts the connection and does not answer leaves the request behind it
  unanswered for ever.
- A hole whose `addClient` raised is registered and never queued, so it does not
  expire (`holes.py:75`); a rule whose removal raised stays (`holes.py:123`). No
  property says it does not: `WithinSession` is about the recorded end of a
  hole, and `RuleNeedsHole` excepts the clients this has happened to.
- The logger: `server.py:49` names a constant that is not defined there, so a
  lost socket ends in an exception, after which the reactor drops the reader all
  the same. `LoggedTransport` has no `write`, so the callback raises where the
  HTTP code answers a bad request, and an exception in a callback of `ctypes` is
  undefined for the library. A request that is split over packets is never
  posted, one that is sent again is posted twice. Options of the IP header are
  not skipped (`twisted_pair/ip.py:58`), and `data[12] >> 2` keeps two flags
  beside the length (`logger.py:69`): behind such headers a request is lost,
  which is why `WholeRequestsArePosted` is about the others. The netlink handle
  is never closed.
- The launcher: if `initialize` fails after its last table is in force, its
  callback does not run and nothing takes the redirection back; this is one of
  the commits that `disturbed` in `Services` counts. The client list's own server
  starts after the bouncer, which may ask it before.
- `libiptc`: the iterator over rules steps back when its rule is deleted and
  trusts that going on from there finds the next one (`libiptc.c:1950-1960`);
  from the first rule it steps back to the head of the list. Flushing a chain and
  replacing a rule do not move it at all. The program iterates over no rules.

## 5. What is proved

TLAPS proves these for every value of the constants that satisfies the named
assumptions of the modules, which only say what the constants are (sets, natural
numbers, `None` not a value of another kind). One theorem, `RuleCorrect`, has a
hypothesis besides, `SensibleCalls`; TLC evaluates it for the calls of the run
(`SensibleInstance`).

`HolesProofs`:

- `TypeCorrect`: `Spec => []TypeOK`, whatever fails.
- `TimerCorrect`: `Spec => [](Sorted /\ TimerNeverLate)`, whatever fails and
  with ties, which the run leaves out. The invariant is `TypeOK`, `Sorted`, `TimerNeverLate` and that no
  call is pending while the next expiration is computed (`NoneWhileResched`).
  Inserting keeps the list sorted because `Slots` are the places the comparison
  allows; removing an entry keeps it sorted; the timer can only be early
  because it is armed for the head and the head only moves later without it.
- `BooksCorrect` and `UnattendedCorrect`, for the sound case
  (`Faults = {} /\ ~Ties`): dictionary, list, firewall, timer and the copy of
  `removeAll` agree in every state, and no handler raises behind the caller's
  back. None of these properties is inductive. `SoundInv` is: it adds to them
  that no two queued entries end together (`StrictlySorted`), without which
  `list.remove` may take the wrong entry, that the timer is armed for the head
  whenever no loop is running (`TimerWatchesHead`), and that the copy over which
  `removeAll` iterates is the reversed list (`ClearingIsQueue`), without which
  its next removal may raise.
- `StoppedCorrect`: `Spec => StoppedByFirewallOnly` if there are no ties,
  whatever call fails. What is left of `SoundInv` then (`FailingInv`): the list
  stays strictly sorted and its clients are registered, though others may be,
  too, and while `removeAll` runs its copy is the reversed list. A call that fails
  leaves the loop, so nothing has to hold of the copy afterwards.
- `WatchCorrect`, `NeverEarlyCorrect`, `LeasesImplemented`, from
  `SoundInv`: the timer watches the head; nobody is cut off early; every step of
  the bookkeeping is a step of `Leases` or a stutter. `SoundSteps` is the lemma
  they share: in each step a client is let in, a registered one is taken out for
  a reason, or nobody's access changes.

`SequenceLemmas` holds what these rest on: the least and the greatest number of a
set; what inserting into, removing from, reversing and flattening a sequence
does, where each part of a flattened sequence lies (`FlattenParts`), which also
lays out the tables of `Ruleset`; and that there is a function that satisfies the
recursion inside a fold (`FoldExists`).

`PortalProofs`, for any hosts, ports, requests and faults, with or without ties:

- `SessionCorrect`: `Spec => []WithinSession`. A hole is made of an answer that
  was on its way, so the invariant says of every status in the client list and
  in every answer that it is of a session that was granted, has begun, and is no
  longer than the bound on the clock (`Granted`). Login times are not in the
  future, so what is left of such a session, added to the time at which the
  answer is handled, is its end again.
- `RulesCorrect`: `Spec => []RuleNeedsHole`, the only way for a rule to come
  being an `add` that found no entry, and for an entry to go a removal that
  either took the rule with it or raised.
- `YesCorrect`: `Spec => YesMeansOpen`. No connection comes from port 0, so
  a request is only ever allowed by an answer that opens a hole
  (`AllowedByAnswer`).

`FirewallProofs`, for any clients, starts and operations. Its first part is about
every behaviour: whatever call fails, whoever else writes and wherever the process
is killed.

- `TypesCorrect`: `Spec => []TypeOK`.
- `PlacementCorrect`: `Spec => []WellPlaced`, `AcceptanceCorrect`:
  `Spec => []OpenIsAccepted`. Neither is inductive, because a commit writes
  whatever the handle holds, and the handle may hold what operations that failed
  long ago have left. The invariant says so of both: the chain in the kernel and
  the chain in the handle, unless `initialize` is building it, are missing, empty
  or have the three fixed rules in their places (`Settled`), and both have the
  accepting rule of every open client. It also says where in its sequence of
  calls an operation is (`Rest`), and what the handle must have by then
  (`BuiltUpTo`, `AddedUpTo`): a client becomes open after both halves of a
  commit, by which time its rule is in the kernel and the handle is gone or
  has it too.

- `LogCorrect`: `Spec => []LoggedIsAccepted`. That each log rule has an accepting
  rule somewhere below is not inductive: what another process, or an old handle,
  has left may hold several rules of a client, of which `removeClient` takes out
  the first accepting and the first logging one. The invariant (`LogInv`) says of
  the kernel and of the handle that the log rules can be matched to accepting
  rules of the same client, each further down and no two to the same (`Covered`).
  Between the two calls of `addClient` and of `removeClient` the handle has one
  accepting rule more than the matching needs (`Spare`); the first accepting rule
  may be taken out because whatever is matched to it can take the spare one,
  which is not above it.

Its second part holds wherever the process is killed, until a call fails by
itself or another process writes:

- `RecoveryCorrect`: `Spec => []NeverFails`, `CleanCorrect`:
  `Spec => []StopLeavesNothing`. What a killed run may leave in the kernel is
  either nothing or a whole chain, jumped to once or not at all, in which the
  clients that are accepted are the ones that are logged (`Leftover`). The
  invariant (`Quiet`) says so of the kernel, and of each call of each operation
  what the handle must hold before it: that it still fits the kernel (`Fits`) or
  has just been sent to it (`Sent`), and whose rules it has (`Cleared`, `Built`,
  `Added`, `Removed`). From these no call can raise except the ones `clean`
  tolerates. No rule is in a chain twice (`Distinct`), so inserting and removing
  a rule does to the set of clients exactly what it says (`Inserted`, `Deleted`).
- `ContentsCorrect`: `Spec => []KernelMatches`, the order of the rules included.
  The invariant keeps with the set of clients the shape of what is between the
  exceptions and the redirection: a log rule in every odd place and the accepting
  rule of the same client behind it (`PairByPair`). `FlattenSeq` is a fold; the
  lemma `FlattenPairs` gives its value for pairs by exhibiting, for the recursive
  function inside it, the prefixes of the chain.
- `GateImplemented`: `Spec => ImplementsGate`. Only `Replace` writes the kernel,
  and it adds both rules of one client, takes both of one away, or leaves a chain
  without clients (`ThroughNext`); a disturbance reads as everybody shut.

`ServicesProofs`, for any clients, packets and extra servers:

- `StopCorrect`: `Spec => []StopLeavesNoRedirection`, `HeardCorrect`:
  `Spec => []HolesAreHeard`. The invariant says how far the
  start has come and what is there by then (`Progress`), and that whatever is in
  the kernel of a process that lives has its trigger (`Undone`).

`EntriesProofs`:

- `MarkDoesWhatItSays`, for every width of marks, value, mask and mark: what the
  three revisions of `MARK` leave in their data for an option makes the kernel
  do what the option's help says.
- `TypeCorrect`: `Spec => []TypeOK`.
- `NeverFreedCorrect`: `Spec => []NeverFreedInUse`, for any number of objects and
  any calls. The invariant (`Kept`) is about every object: it has at least as many
  references as the entries and the program have to it, entries refer only to
  matches and targets that are there, and no match is in an entry twice.
  `NeverFreedInUse` says the first alone, and freeing an entry would break it: it
  drops one reference for each place in the list of matches and one of the
  target, and must neither meet a match twice nor take a target for one. "At
  least" and not "exactly" because generating an entry adds references nobody
  gives back (section 4). The folds over the matches are unfolded by saying which
  slots have changed after each place (`Touched`).
- `BestCorrect`: `Spec => []BestRevision`, on any kernel. The registry is a fold
  over the registrations of `initpyipt`; each keeps one extension of each kind and
  name, the best so far (`BestOf`), and nobody registers later.
- `RefusedCorrect`: `Spec => []RefusedForAReason`, for any options, hosts and
  masks. The flags a good option meets are those of the options before it in the
  same call (`GoodSoFar`), whatever was parsed earlier, so it is not rejected.
  For entries it rests on `GoodAddressIsOne`: the loop of `xtables_ipparse_any`
  masks the same place again and again and may leave hosts unmasked, but if all
  hosts of a name are the same under its mask, that one is left (`OneLeft`).
- `RuleCorrect`: `SensibleCalls` implies `Spec => []RuleDoesWhatItSays`, for any
  number of objects and matches in an entry, any packets and any interfaces. The
  property is not true of every call a constructor can be given: `--state` given
  twice sets the states of both, where `MatchSays` wants a packet to be in each,
  and not at all it matches nothing. `SensibleCalls` says that it is given once
  and that an argument is of the kind its option takes or `Bad`, and that no `!`
  stands before `--syn`, which ignores it; arguments out of
  range, options given twice or unknown to an extension stay, and the proof shows
  that a constructor that leaves an object has met none of them (`ParseTakes`).
  Three arguments meet in it:
  - What a constructor that raised nothing has left in its data, option by option
    (`TcpStep`, `TproxyStep`, `NflogStep`, `MarkDoesWhatItSays`): each option
    fills a field no other has touched (`Untouched`), so the kernel's reading of
    the data is what all of them say (`MatchAsked`, `TargetAsked`).
  - Who can still write there. The invariant (`AsAsked`) says of every object that
    it holds what its call asked for, and that no two matches have the same
    structure of xtables: the registered one is taken only while it has no
    options, a copy belongs to a slot (`StructureFree`). Adding, replacing,
    generating and freeing change references only (`Lasts`).
  - What the kernel finds. The places of the elements are sums of the sizes before
    them, which rise, so at each place there is one element and the walk gives
    back the matches and the target as they were (`WalkRead`); the bytes of an
    interface's name that are compared say what its `+` does (`OnItsInterface`).

`HandleProofs`, of the rules of a handle (`Ruleset`), for any chains, modules,
rules, edits, packets and any width of counters; the assumptions are that the
names of chains are the numbers from zero, the built-in ones first, and that
`None` is neither a number nor a sequence of them:

- `CommitCorrect`: `Spec => CommitIsExact`. The heart of it is that parsing
  undoes compiling. A table is `Shaped` by a handle if it has an entry for every
  slot of the handle's layout, with the target, size and verdict that belong
  there, and the hook entries of its built-in chains. Offsets in a layout rise
  (`OffsetsLaid`), so an offset is that of one entry only: the first entry of a
  chain is found from its hook or its error target (`StartsShaped`), the chain
  of a jump from its verdict (`ChainOfJump`), and no rule but a fall-through has
  the verdict of one. So `Parse` of such a table gives the rules and policies
  back (`ParsedShaped`), and `Compile` makes such a table (`CompiledShaped`).
- `ReferencesCorrect`: `Spec => []ReferencesCount`. Each edit changes the set of
  jumps to a chain by the rules it adds and takes away (`InsertedJumps`,
  `RemovedJumps`, `ReplacedJumps`, `FlushedJumps`), and the references alike; a
  deleted chain had none, so no rule is left that jumps to it.
- `CountersCorrect`: `Spec => []KeepsCounters`. Not inductive: the counters of
  the next table depend on the maps in the handle. The invariant (`RulesetInv`)
  says of every rule and policy in the handle that its counter is that of the
  entry it came from, less what an edit took away, and that its map says just
  this (`Counted`); of the table in the kernel that some handle has its shape;
  and, between the halves of a commit, that what the kernel will add to each
  counter makes up what it should be, with the packets of the meantime
  (`Owed`). Every edit makes rules that descend from rules of the handle it
  edits, or count on their own (`Descends`), so one lemma (`EditInv`) does for all.
- `RulesetTypeCorrect`: `Spec => []TypeOK`, from the same invariant.

Of the socket the handles share (`IptcSocket`):

- `SocketTypeCorrect`: `SocketSpec => []SocketTypeOK`, with the fact that a table
  being read has no handle yet.
- `NoLeak`: `SocketSpec => []NeverLeaks`, for any number of tables and any
  changes. With the types it is inductive: the lemma `UsersFollow` shows that each
  step changes the number of users and the count of the socket alike, or, a retry,
  takes only the count down.
- `CountsCorrect`: `SocketSpec => []CountsUsers`. The strengthening `QuietSocket`
  adds that, until a table changes while it is read, what `TC_INIT` was told of
  the size is still true, so there is no retry.

`ChainIndexProofs`, for any names, any memory for chains and any size of a bucket:

- `TypeCorrect` and `IteratorCorrect`: `Spec => [](TypeOK /\ IteratorIsLive)`,
  also after chains were renamed.
- `IndexCorrect`, `FindCorrect`, `SearchCorrect`: `Spec => []IndexIsLive`,
  `[]FindsExactly` and `[]BsearchIsLinear`. The invariant they share says that
  until a chain is renamed or an iteration begun, the list is sorted, and the
  index is either a subsequence of it that begins with its first chain
  (`Indexed`) or the head of the list alone. It does not say how far apart the
  chains of the index are: that may be anything after some deletions, and
  searching does not depend on it. The binary search is a recursive function.
  That there is one satisfying its equations is shown by the constant function
  whose value is the answer; that it ends there (`BsearchEnds`), by a
  counterexample with the least end and, of those, the last position.

**Only model-checked**: the liveness properties and the refinement of `Leases`
under fairness, for which the prover has no support.

## 6. What is not modelled

- The formats: HTML, JSON, the text of options and their arguments, the bytes of
  an `ipt_entry`. A status is the record the callbacks read; in `SystemFirewall`
  a rule is one of five kinds; in `Entries` an argument is taken apart already
  and a part of an entry has a place and a size.
- What packets a rule matches in `libiptc`'s comparison under a mask: the
  program's masks are all zero, and its rules differ in what is compared.
- The iterator over rules of `libiptc`, which the program does not use.
- The logging library, the rest of `twisted_pair` (vendored), the IPv6
  variants (not built), the example authenticator, the reading of configuration.
- `Firewall.initialize` asks the client list for all clients and adds none,
  because `getClientList` answers with an empty list; it is left out.
- In `SystemFirewall`, between cleaning and creating the chain, `initialize`
  waits for the name of the authenticator to be resolved. In `Services` it does,
  with a stop or a failure in between; in `SystemFirewall` a name that is not
  found is what a failing `createChain` is.
- Exceptions of Python itself: no memory, arguments of a wrong type.

## 7. What is left

- An abstract specification of a handle, rules by name with their counters, that
  `Ruleset` implements.
