-------------------------------- MODULE Holes --------------------------------
(***************************************************************************)
(* cattivo/holes.py: the holes the captive portal has opened for clients,  *)
(* kept in a dictionary and in a list ordered by expiration, with one      *)
(* pending reactor call for the earliest one.                              *)
(*                                                                         *)
(* The program is single threaded: a handler runs from Idle to Idle and no *)
(* other handler starts meanwhile.  Its two loops, the catching up of      *)
(* _rescheduleNextExpiration and removeAll, take one step per iteration,   *)
(* because every iteration reads the clock again and any iteration may     *)
(* raise and abandon the rest.                                             *)
(***************************************************************************)
EXTENDS Integers, Sequences, FiniteSets, SequencesExt, Functions

CONSTANTS
    Clients,    \* client identities
    Durations,  \* expirations a hole is created with, in ticks
    MaxTime,    \* bound on the clock
    MaxAdds,    \* bound on the number of HoleEntry objects ever created
    Faults,     \* which calls of the system firewall may raise
    Ties,       \* may two queued holes have the same deadline?
    None        \* no entry, no pending call

ASSUME HolesAssumption ==
    /\ Durations \subseteq Nat \ {0}
    /\ MaxTime \in Nat /\ MaxAdds \in Nat
    /\ Faults \subseteq {"add", "remove"}
    /\ Ties \in BOOLEAN

VARIABLES
    now,        \* Holes.now()
    serial,     \* HoleEntry objects created so far: gives them identity
    holes,      \* _hole_entries
    queue,      \* _hole_entries_by_expiration
    timer,      \* _hole_expired_call: when it is due, or None
    fw,         \* rules for the client in the system firewall
    resched,    \* _rescheduleNextExpiration is looping
    clearing,   \* what removeAll still has to remove
    error       \* what the last handler raised

vars == <<now, serial, holes, queue, timer, fw, resched, clearing, error>>

-----------------------------------------------------------------------------
Entry == [client : Clients, deadline : Nat, serial : Nat]

ASSUME NoneAssumption == None \notin Entry /\ None \notin Nat

Errors == {"none", "HoleError", "IndexError", "ValueError", "FirewallError"}

TypeOK ==
    /\ now \in Nat
    /\ serial \in Nat
    /\ holes \in [Clients -> Entry \cup {None}]
    /\ queue \in Seq(Entry)
    /\ timer \in Nat \cup {None}
    /\ fw \in [Clients -> Nat]
    /\ resched \in BOOLEAN
    /\ clearing \in Seq(Entry)
    /\ error \in Errors

Init ==
    /\ now = 0
    /\ serial = 0
    /\ holes = [c \in Clients |-> None]
    /\ queue = <<>>
    /\ timer = None
    /\ fw = [c \in Clients |-> 0]
    /\ resched = FALSE
    /\ clearing = <<>>
    /\ error = "none"

Idle == ~resched /\ clearing = <<>>

Has(c) == holes[c] # None

-----------------------------------------------------------------------------
(* Helpers: HoleEntry.timeLeft and __cmp__, bisect.insort_right and        *)
(* list.remove as they act on the list ordered by expiration.  __cmp__     *)
(* reads the clock once for each operand; a tick is longer than the time   *)
(* between the two readings, so they only matter between entries that have *)
(* the same deadline: those may or may not compare equal.                  *)

TimeLeft(e) == e.deadline - now

OverdueByNextTick(e) == TimeLeft(e) <= 1    \* wrong: a tick too soon

Overdue(e) == TimeLeft(e) <= 0

\* insort_right: after every entry due no later, before those due later.
Slots(e) ==
    {p \in 1..(Len(queue) + 1) :
        /\ \A i \in 1..(p - 1) : queue[i].deadline <= e.deadline
        /\ \A i \in p..Len(queue) : queue[i].deadline > e.deadline}

\* list.remove(e): e itself, or an entry before it that compares equal.
Equal(e) ==
    {i \in 1..Len(queue) :
        /\ TimeLeft(queue[i]) = TimeLeft(e)
        /\ \A j \in 1..(i - 1) : queue[j] # e}

Queued(e) == \E i \in 1..Len(queue) : queue[i] = e

\* An exception leaves every loop of the handler it crosses.
Raise(kind) ==
    /\ error' = kind
    /\ resched' = FALSE
    /\ clearing' = <<>>

Pop(c) == holes' = [holes EXCEPT ![c] = None]

\* Wrong: list.pop(0).
DequeueHead(e) == queue # <<>> /\ queue' = Tail(queue)

Dequeue(e) == \E i \in Equal(e) : queue' = RemoveAt(queue, i)

\* Wrong: does not notice that the firewall has no rule to remove.
RemovedUnchecked(c) ==
    /\ Has(c)
    /\ Dequeue(holes[c])
    /\ Pop(c)
    /\ fw' = [fw EXCEPT ![c] = @ - 1]
    /\ error' = "none"
    /\ UNCHANGED <<now, serial>>

\* _remove up to its end: the dictionary, the list, then the firewall.
Removed(c) ==
    /\ Has(c)
    /\ fw[c] > 0
    /\ Dequeue(holes[c])
    /\ Pop(c)
    /\ fw' = [fw EXCEPT ![c] = @ - 1]
    /\ error' = "none"
    /\ UNCHANGED <<now, serial>>

\* _remove when it raises: no such hole; nothing left in the list to look
\* at or nothing equal to the entry; the firewall has no such rule or fails.
RemoveRaises(c) ==
    /\ UNCHANGED <<now, serial, fw>>
    /\ \/ /\ ~Has(c)
          /\ Raise("HoleError")
          /\ UNCHANGED <<holes, queue>>
       \/ /\ Has(c)
          /\ ~Queued(holes[c])
          /\ Pop(c)
          /\ Raise(IF queue = <<>> THEN "IndexError" ELSE "ValueError")
          /\ UNCHANGED queue
       \/ /\ Has(c)
          /\ "remove" \in Faults \/ fw[c] = 0
          /\ Dequeue(holes[c])
          /\ Pop(c)
          /\ Raise("FirewallError")

\* remove(client_id), called while t is the pending call; rest is what a
\* loop of the caller still has to do.
NeverResched(c) == FALSE    \* wrong: keeps the call of a hole that is gone

NeedResched(c) == queue[1] = holes[c]

RemoveCall(c, t, rest) ==
    \/ /\ Removed(c)
       /\ resched' = NeedResched(c)
       /\ timer' = IF NeedResched(c) THEN None ELSE t
       /\ clearing' = rest
    \/ /\ RemoveRaises(c)
       /\ timer' = t

-----------------------------------------------------------------------------
(* The handlers.                                                           *)

\* Wrong: the expiration of a hole taken for a time.
NewEntryUnstamped(c, d) == [client |-> c, deadline |-> d, serial |-> serial]

NewEntry(c, d) == [client |-> c, deadline |-> now + d, serial |-> serial]

\* Wrong: only the first hole ever arms the timer.
LooksEarliestIfAlone(p) == {queue = <<>>}

\* Is the entry inserted at p the new earliest one?  The test is a __cmp__,
\* so even an unchanged earliest entry may look different from itself.
LooksEarliest(p) == {p = 1, TRUE}

\* Wrong: does not look whether the client has a hole.
AddUnchecked(c, d) ==
    LET e == NewEntry(c, d) IN
    /\ Idle
    /\ serial < MaxAdds
    /\ Ties \/ \A i \in 1..Len(queue) : queue[i].deadline # e.deadline
    /\ serial' = serial + 1
    /\ holes' = [holes EXCEPT ![c] = e]
    /\ fw' = [fw EXCEPT ![c] = @ + 1]
    /\ \E p \in Slots(e) :
          /\ queue' = InsertAt(queue, p, e)
          /\ resched' \in LooksEarliest(p)
    /\ timer' = IF resched' THEN None ELSE timer
    /\ error' = "none"
    /\ UNCHANGED <<now, clearing>>

\* add(hole): the firewall is opened before the entry is queued, and a new
\* earliest entry moves the pending call.
Add(c, d) ==
    LET e == NewEntry(c, d) IN
    /\ Idle
    /\ ~Has(c)
    /\ serial < MaxAdds
    /\ Ties \/ \A i \in 1..Len(queue) : queue[i].deadline # e.deadline
    /\ serial' = serial + 1
    /\ holes' = [holes EXCEPT ![c] = e]
    /\ fw' = [fw EXCEPT ![c] = @ + 1]
    /\ \E p \in Slots(e) :
          /\ queue' = InsertAt(queue, p, e)
          /\ resched' \in LooksEarliest(p)
    /\ timer' = IF resched' THEN None ELSE timer
    /\ error' = "none"
    /\ UNCHANGED <<now, clearing>>

\* add(hole) when the firewall raises: the dictionary keeps the entry.
AddRaises(c, d) ==
    /\ Idle
    /\ ~Has(c)
    /\ serial < MaxAdds
    /\ "add" \in Faults
    /\ serial' = serial + 1
    /\ holes' = [holes EXCEPT ![c] = NewEntry(c, d)]
    /\ error' = "FirewallError"
    /\ UNCHANGED <<now, queue, timer, fw, resched, clearing>>

\* add(hole) for a client that has one.
AddDuplicate(c) ==
    /\ Idle
    /\ Has(c)
    /\ error' = "HoleError"
    /\ UNCHANGED <<now, serial, holes, queue, timer, fw, resched, clearing>>

RemoveHole(c) ==
    /\ Idle
    /\ RemoveCall(c, timer, <<>>)

\* Wrong: walks the list from its front, where removals catch up.
RemoveAllForward ==
    /\ Idle
    /\ queue # <<>>
    /\ clearing' = queue
    /\ UNCHANGED <<now, serial, holes, queue, timer, fw, resched, error>>

\* removeAll(): walks a reversed copy of the list.
RemoveAll ==
    /\ Idle
    /\ queue # <<>>
    /\ clearing' = Reverse(queue)
    /\ UNCHANGED <<now, serial, holes, queue, timer, fw, resched, error>>

ClearNext ==
    /\ ~resched
    /\ clearing # <<>>
    /\ RemoveCall(Head(clearing).client, timer, Tail(clearing))

\* The reactor runs the pending call: _holeExpired().
HoleExpired ==
    /\ Idle
    /\ timer # None
    /\ timer <= now
    /\ \/ /\ queue = <<>>
          /\ timer' = None
          /\ Raise("IndexError")
          /\ UNCHANGED <<now, serial, holes, queue, fw>>
       \/ /\ queue # <<>>
          /\ RemoveCall(queue[1].client, None, <<>>)

\* One iteration of _rescheduleNextExpiration over a hole already expired.
CatchUp ==
    /\ resched
    /\ queue # <<>>
    /\ Overdue(queue[1])
    /\ UNCHANGED timer
    /\ \/ /\ Removed(queue[1].client)
          /\ UNCHANGED <<resched, clearing>>
       \/ RemoveRaises(queue[1].client)

\* Its end: nothing left, or a hole to wait for.
Reschedule ==
    /\ resched
    /\ queue # <<>> => ~Overdue(queue[1])
    /\ timer' = IF queue = <<>> THEN None ELSE now + TimeLeft(queue[1])
    /\ resched' = FALSE
    /\ UNCHANGED <<now, serial, holes, queue, fw, clearing, error>>

Tick ==
    /\ now < MaxTime
    /\ now' = now + 1
    /\ UNCHANGED <<serial, holes, queue, timer, fw, resched, clearing, error>>

Next ==
    \/ Tick
    \/ \E c \in Clients, d \in Durations : Add(c, d) \/ AddRaises(c, d)
    \/ \E c \in Clients : AddDuplicate(c) \/ RemoveHole(c)
    \/ RemoveAll
    \/ ClearNext
    \/ HoleExpired
    \/ CatchUp
    \/ Reschedule

Spec == Init /\ [][Next]_vars

\* A handler that has started runs to its end, and the reactor runs a call
\* that is due.  Nothing makes clients come or operators clear the holes.
Fairness ==
    /\ WF_vars(CatchUp)
    /\ WF_vars(Reschedule)
    /\ WF_vars(ClearNext)
    /\ WF_vars(HoleExpired)

FairSpec == Spec /\ Fairness

-----------------------------------------------------------------------------
(* Properties.                                                             *)

\* The list that insort_right searches is ordered, whatever fails and
\* whichever of several equal entries list.remove takes out of it.
Sorted ==
    \A i, j \in 1..Len(queue) :
        i < j => queue[i].deadline <= queue[j].deadline

\* The dictionary, the list and the firewall tell the same story between
\* any two steps: the queued entries are the registered ones, each queued
\* once, and exactly their clients have a rule, exactly one.
QueuedAreRegistered ==
    \A i \in 1..Len(queue) :
        Has(queue[i].client) /\ holes[queue[i].client] = queue[i]

RegisteredAreQueued ==
    \A c \in Clients : Has(c) => holes[c].client = c /\ Queued(holes[c])

BooksAgree ==
    /\ QueuedAreRegistered
    /\ RegisteredAreQueued
    /\ IsInjective(queue)
    /\ \A c \in Clients : fw[c] = IF Has(c) THEN 1 ELSE 0

\* The pending call is due when the first hole ends and there is none
\* without a hole: getNextExpiration() is what the reactor waits for.
TimerWatchesHead ==
    ~resched => timer = IF queue = <<>> THEN None ELSE queue[1].deadline

\* While a hole is open a call is pending (or being computed), so the hole
\* is going to end.
AlwaysWatched == (\E c \in Clients : Has(c)) => resched \/ timer # None

\* Whatever fails, a pending call never comes later than the first queued
\* entry: what failures leave behind may wake the timer early, never late.
TimerNeverLate ==
    timer # None /\ queue # <<>> /\ ~resched => timer <= queue[1].deadline

\* While the next expiration is being computed no call is pending.
NoneWhileResched == resched => timer = None

\* Without ties no two queued entries end together, and removeAll's copy
\* is what is left of the list, last entry first.
StrictlySorted ==
    \A i, j \in 1..Len(queue) :
        i < j => queue[i].deadline < queue[j].deadline

ClearingIsQueue ==
    clearing # <<>> =>
        /\ ~resched
        /\ Len(clearing) = Len(queue)
        /\ \A i \in 1..Len(queue) : clearing[i] = queue[Len(queue) + 1 - i]

\* The inductive invariant of the bookkeeping when the firewall never fails.
SoundInv ==
    /\ TypeOK
    /\ BooksAgree
    /\ StrictlySorted
    /\ TimerWatchesHead
    /\ NoneWhileResched
    /\ ClearingIsQueue

\* The loops and the timer only remove what is still there: no exception
\* reaches the reactor or leaves removeAll half done.
UnattendedNeverRaises ==
    [][HoleExpired \/ CatchUp \/ ClearNext => error' = "none"]_vars

\* Whatever has failed before, removeAll and the catching up stop for the
\* firewall only: while no two holes end together, an entry that a failure
\* left in the dictionary, in the list or in neither makes no removal of
\* another entry raise, so the bookkeeping alone never leaves removeAll
\* half done.
StoppedByFirewallOnly ==
    [][CatchUp \/ ClearNext => error' \in {"none", "FirewallError"}]_vars

\* A client is cut off by its own removal, by removeAll, or when its own
\* hole, the one it holds now, has run out.
NeverEarly ==
    [][\A c \in Clients :
          fw[c] > 0 /\ fw'[c] = 0 =>
              \/ RemoveHole(c)
              \/ clearing # <<>>
              \/ Has(c) /\ holes[c].deadline <= now]_vars

\* A hole that has ended is closed, even if the timer ran late or holes
\* were added and removed around it.
ExpiredIsClosed ==
    \A c \in Clients :
        (Has(c) /\ holes[c].deadline <= now) ~>
            (fw[c] = 0 \/ (Has(c) /\ holes[c].deadline > now))

\* Refinement: the open clients are those with a lease.
Lease == INSTANCE Leases WITH
    Closed <- None,
    lease <- [c \in Clients |-> IF fw[c] > 0 THEN holes[c].deadline ELSE None]

ImplementsLeases == Lease!FairSpec
=============================================================================
