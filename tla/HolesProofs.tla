----------------------------- MODULE HolesProofs -----------------------------
(***************************************************************************)
(* Theorems about the bookkeeping of holes, for every set of clients,      *)
(* every expiration and every number of holes.                             *)
(***************************************************************************)
EXTENDS Holes, SequenceLemmas

-----------------------------------------------------------------------------
(* What one step of the bookkeeping does to the list and its entries.      *)

LEMMA NewEntryType ==
    ASSUME TypeOK, NEW c \in Clients, NEW d \in Durations
    PROVE  /\ NewEntry(c, d) \in Entry
           /\ NewEntry(c, d).client = c
           /\ NewEntry(c, d).deadline = now + d
           /\ NewEntry(c, d).deadline > now
  BY HolesAssumption DEF TypeOK, NewEntry, Entry

\* list.remove leaves a list of entries.
LEMMA DequeueType ==
    ASSUME TypeOK, NEW e \in Entry, Dequeue(e)
    PROVE  queue' \in Seq(Entry)
<1>1. PICK i \in 1..Len(queue) : queue' = RemoveAt(queue, i)
  BY DEF Dequeue, Equal
<1>2. QED
  BY <1>1, RemoveAtProperties DEF TypeOK

\* _remove, whether it ends or raises, preserves the types of all it touches.
LEMMA RemoveType ==
    ASSUME TypeOK, NEW c \in Clients,
           Removed(c) \/ RemoveRaises(c)
    PROVE  /\ now' = now /\ serial' = serial
           /\ holes' \in [Clients -> Entry \cup {None}]
           /\ queue' \in Seq(Entry)
           /\ fw' \in [Clients -> Nat]
           /\ error' \in Errors
<1>1. CASE Removed(c)
  <2>1. holes[c] \in Entry
    BY <1>1 DEF TypeOK, Removed, Has
  <2>2. queue' \in Seq(Entry)
    BY <1>1, <2>1, DequeueType DEF Removed
  <2>3. fw' \in [Clients -> Nat]
    BY <1>1 DEF TypeOK, Removed
  <2>4. QED
    BY <1>1, <2>2, <2>3 DEF TypeOK, Removed, Pop, Errors
<1>2. CASE RemoveRaises(c)
  <2>1. now' = now /\ serial' = serial /\ fw' = fw
    BY <1>2 DEF RemoveRaises
  <2>2. CASE ~Has(c) /\ Raise("HoleError") /\ UNCHANGED <<holes, queue>>
    BY <2>1, <2>2 DEF TypeOK, Raise, Errors
  <2>3. CASE /\ Pop(c)
             /\ Raise(IF queue = <<>> THEN "IndexError" ELSE "ValueError")
             /\ UNCHANGED queue
    BY <2>1, <2>3 DEF TypeOK, Raise, Pop, Errors
  <2>4. CASE Has(c) /\ Dequeue(holes[c]) /\ Pop(c) /\ Raise("FirewallError")
    <3>1. holes[c] \in Entry
      BY <2>4 DEF TypeOK, Has
    <3>2. QED
      BY <2>1, <2>4, <3>1, DequeueType DEF TypeOK, Raise, Pop, Errors
  <2>5. QED
    BY <1>2, <2>2, <2>3, <2>4 DEF RemoveRaises
<1>3. QED
  BY <1>1, <1>2

\* An exception ends every loop.
LEMMA RaisesEndsLoops ==
    ASSUME NEW c, RemoveRaises(c)
    PROVE  /\ resched' \in BOOLEAN /\ ~resched'
           /\ clearing' = <<>> /\ clearing' \in Seq(Entry)
<1>1. resched' = FALSE /\ clearing' = <<>>
  BY DEF RemoveRaises, Raise
<1>2. resched' \in BOOLEAN
  BY <1>1, Zenon
<1>3. QED
  BY <1>1, <1>2

LEMMA RemoveCallType ==
    ASSUME TypeOK, NEW c \in Clients, NEW t \in Nat \cup {None},
           NEW rest \in Seq(Entry), RemoveCall(c, t, rest)
    PROVE  TypeOK'
<1>1. /\ now' = now /\ serial' = serial
      /\ holes' \in [Clients -> Entry \cup {None}]
      /\ queue' \in Seq(Entry)
      /\ fw' \in [Clients -> Nat]
      /\ error' \in Errors
  BY RemoveType DEF RemoveCall
<1>2. timer' \in Nat \cup {None}
  BY DEF RemoveCall
<1>3. resched' \in BOOLEAN /\ clearing' \in Seq(Entry)
  <2>1. CASE RemoveRaises(c)
    BY <2>1, RaisesEndsLoops
  <2>2. CASE resched' = NeedResched(c) /\ clearing' = rest
    <3>1. NeedResched(c) \in BOOLEAN
      BY DEF NeedResched
    <3>2. QED
      BY <2>2, <3>1
  <2>3. QED
    BY <2>1, <2>2 DEF RemoveCall
<1>4. QED
  BY <1>1, <1>2, <1>3 DEF TypeOK

-----------------------------------------------------------------------------
(* Every variable keeps its type.                                          *)

LEMMA InitTypeOK == Init => TypeOK
<1>1. <<>> \in Seq(Entry)
  OBVIOUS
<1>2. Init => /\ holes \in [Clients -> Entry \cup {None}]
              /\ fw \in [Clients -> Nat]
  BY DEF Init
<1>3. Init => resched \in BOOLEAN
  BY Zenon DEF Init
<1>4. QED
  BY <1>1, <1>2, <1>3 DEF Init, TypeOK, Errors

LEMMA NextTypeOK ==
    ASSUME TypeOK, [Next]_vars
    PROVE  TypeOK'
<1>1. CASE Tick
  BY <1>1 DEF Tick, TypeOK
<1>2. ASSUME NEW c \in Clients, NEW d \in Durations, Add(c, d)
      PROVE  TypeOK'
  <2> DEFINE e == NewEntry(c, d)
  <2>1. e \in Entry
    BY NewEntryType
  <2> HIDE DEF e
  <2>2. PICK p \in 1..(Len(queue) + 1) : queue' = InsertAt(queue, p, e)
    BY <1>2 DEF Add, Slots, e
  <2>3. queue' \in Seq(Entry)
    BY <2>1, <2>2, InsertAtProperties DEF TypeOK
  <2>4. resched' \in BOOLEAN /\ timer' \in Nat \cup {None}
    BY <1>2 DEF Add, TypeOK, LooksEarliest
  <2>5. /\ holes' = [holes EXCEPT ![c] = e]
        /\ fw' = [fw EXCEPT ![c] = @ + 1]
        /\ serial' = serial + 1
        /\ error' = "none" /\ now' = now /\ clearing' = clearing
    BY <1>2 DEF Add, e
  <2>6. QED
    BY <2>1, <2>3, <2>4, <2>5 DEF TypeOK, Errors
<1>3. ASSUME NEW c \in Clients, NEW d \in Durations, AddRaises(c, d)
      PROVE  TypeOK'
  <2>1. NewEntry(c, d) \in Entry
    BY NewEntryType
  <2>2. QED
    BY <1>3, <2>1 DEF AddRaises, TypeOK, Errors
<1>4. ASSUME NEW c \in Clients, AddDuplicate(c)
      PROVE  TypeOK'
  BY <1>4 DEF AddDuplicate, TypeOK, Errors
<1>5. ASSUME NEW c \in Clients, RemoveHole(c)
      PROVE  TypeOK'
  <2>1. <<>> \in Seq(Entry)
    OBVIOUS
  <2>2. QED
    BY <1>5, <2>1, RemoveCallType DEF RemoveHole, TypeOK
<1>6. CASE RemoveAll
  BY <1>6, ReverseProperties DEF RemoveAll, TypeOK
<1>7. CASE ClearNext
  <2>1. Head(clearing) \in Entry /\ Tail(clearing) \in Seq(Entry)
    BY <1>7, HeadTailProperties DEF ClearNext, TypeOK
  <2>2. Head(clearing).client \in Clients
    BY <2>1 DEF Entry
  <2>3. timer \in Nat \cup {None}
    BY DEF TypeOK
  <2>4. QED
    BY <1>7, <2>1, <2>2, <2>3, RemoveCallType DEF ClearNext
<1>8. CASE HoleExpired
  <2>1. CASE queue = <<>>
    BY <1>8, <2>1 DEF HoleExpired, Raise, TypeOK, Errors
  <2>2. CASE queue # <<>>
    <3>1. queue[1] \in Entry
      BY <2>2 DEF TypeOK
    <3>2. queue[1].client \in Clients /\ <<>> \in Seq(Entry)
      BY <3>1 DEF Entry
    <3>3. QED
      BY <1>8, <2>2, <3>2, RemoveCallType DEF HoleExpired
  <2>3. QED
    BY <2>1, <2>2
<1>9. CASE CatchUp
  <2>1. queue[1] \in Entry
    BY <1>9 DEF CatchUp, TypeOK
  <2>2. queue[1].client \in Clients
    BY <2>1 DEF Entry
  <2>3. /\ now' = now /\ serial' = serial
        /\ holes' \in [Clients -> Entry \cup {None}]
        /\ queue' \in Seq(Entry)
        /\ fw' \in [Clients -> Nat]
        /\ error' \in Errors
    BY <1>9, <2>2, RemoveType DEF CatchUp
  <2>4. /\ timer' \in Nat \cup {None}
        /\ resched' \in BOOLEAN
        /\ clearing' \in Seq(Entry)
    <3>1. CASE UNCHANGED <<resched, clearing>>
      BY <1>9, <3>1 DEF CatchUp, TypeOK
    <3>2. CASE RemoveRaises(queue[1].client)
      BY <1>9, <3>2, RaisesEndsLoops DEF CatchUp, TypeOK
    <3>3. QED
      BY <1>9, <3>1, <3>2 DEF CatchUp
  <2>5. QED
    BY <2>3, <2>4 DEF TypeOK
<1>10. CASE Reschedule
  <2>1. queue # <<>> => queue[1] \in Entry
    BY DEF TypeOK
  <2>2. queue # <<>> => now + TimeLeft(queue[1]) \in Nat
    BY <2>1 DEF TimeLeft, Entry, TypeOK
  <2>3. QED
    BY <1>10, <2>2 DEF Reschedule, TypeOK
<1>11. CASE UNCHANGED vars
  BY <1>11 DEF vars, TypeOK
<1>12. QED
  BY <1>1, <1>2, <1>3, <1>4, <1>5, <1>6, <1>7, <1>8, <1>9, <1>10, <1>11
     DEF Next

\* Every variable keeps its type: in particular the timer is only ever set
\* to a time, and no loop leaves a half-typed entry behind when it raises.
THEOREM TypeCorrect == Spec => []TypeOK
<1>1. QED
  BY InitTypeOK, NextTypeOK, PTL DEF Spec

-----------------------------------------------------------------------------
(* The order of the list and the pending call.                             *)

LEMMA QueueEntries ==
    ASSUME TypeOK
    PROVE  /\ Len(queue) \in Nat
           /\ queue \in Seq(Entry)
           /\ \A i \in 1..Len(queue) :
                 /\ queue[i] \in Entry
                 /\ queue[i].client \in Clients
                 /\ queue[i].deadline \in Nat
<1>1. queue \in Seq(Entry)
  BY DEF TypeOK
<1>2. \A i \in 1..Len(queue) : queue[i] \in Entry
  BY <1>1
<1>3. QED
  BY <1>1, <1>2 DEF Entry

HeadNoEarlier == queue' # <<>> =>
    /\ queue # <<>>
    /\ queue[1].deadline <= queue'[1].deadline

\* Taking any one entry out of an ordered list leaves it ordered, and its
\* first entry due no earlier than before.
LEMMA DequeueSorted ==
    ASSUME TypeOK, Sorted, NEW e \in Entry, Dequeue(e)
    PROVE  Sorted' /\ HeadNoEarlier
<1>1. PICK k \in 1..Len(queue) : queue' = RemoveAt(queue, k)
  BY DEF Dequeue, Equal
<1> DEFINE old(i) == IF i < k THEN i ELSE i + 1
<1>2. /\ queue' \in Seq(Entry)
      /\ Len(queue') = Len(queue) - 1
      /\ \A i \in 1..(k - 1) : queue'[i] = queue[i]
      /\ \A i \in k..(Len(queue) - 1) : queue'[i] = queue[i + 1]
  BY <1>1, RemoveAtProperties DEF TypeOK
<1>3. \A i \in 1..Len(queue') : old(i) \in 1..Len(queue) /\ queue'[i] = queue[old(i)]
  BY <1>2
<1>4. \A i, j \in 1..Len(queue') : i < j => old(i) < old(j)
  BY <1>2
<1> HIDE DEF old
<1>5. Sorted'
  BY <1>3, <1>4 DEF Sorted
<1>6. ASSUME queue' # <<>>
      PROVE  queue # <<>> /\ queue[1].deadline <= queue'[1].deadline
  <2>1. Len(queue) \in Nat /\ Len(queue') \in Nat /\ Len(queue') > 0
    BY <1>2, <1>6 DEF TypeOK
  <2>2. 1 \in 1..Len(queue) /\ old(1) \in 1..Len(queue) /\ queue'[1] = queue[old(1)]
    BY <1>2, <1>3, <2>1
  <2>3. old(1) = 1 \/ 1 < old(1)
    BY <2>2
  <2>4. queue[1].deadline \in Nat
    BY <2>2, QueueEntries
  <2>5. queue[1].deadline <= queue[old(1)].deadline
    BY <2>2, <2>3, <2>4 DEF Sorted
  <2>6. QED
    BY <2>1, <2>2, <2>5
<1>7. QED
  BY <1>5, <1>6 DEF HeadNoEarlier

\* insort_right keeps the list ordered; only position 1 changes its head.
LEMMA EnqueueSorted ==
    ASSUME TypeOK, Sorted, NEW e \in Entry, NEW p \in Slots(e),
           queue' = InsertAt(queue, p, e)
    PROVE  /\ Sorted'
           /\ queue' # <<>>
           /\ p # 1 => queue # <<>> /\ queue'[1] = queue[1]
<1>1. /\ p \in 1..(Len(queue) + 1)
      /\ \A i \in 1..(p - 1) : queue[i].deadline <= e.deadline
      /\ \A i \in p..Len(queue) : queue[i].deadline > e.deadline
  BY DEF Slots
<1>2. /\ queue' \in Seq(Entry)
      /\ Len(queue') = Len(queue) + 1
      /\ \A i \in 1..(p - 1) : queue'[i] = queue[i]
      /\ queue'[p] = e
      /\ \A i \in p..Len(queue) : queue'[i + 1] = queue[i]
  <2> DEFINE q == InsertAt(queue, p, e)
  <2>1. queue \in Seq(Entry) /\ e \in Entry /\ p \in 1..(Len(queue) + 1)
    BY <1>1, QueueEntries
  <2>2. q \in Seq(Entry) /\ Len(q) = Len(queue) + 1 /\ q[p] = e
    BY <2>1, InsertAtProperties
  <2>3. \A i \in 1..(p - 1) : q[i] = queue[i]
    BY <2>1, InsertAtProperties
  <2>4. \A i \in p..Len(queue) : q[i + 1] = queue[i]
    BY <2>1, InsertAtProperties
  <2> HIDE DEF q
  <2>5. queue' = q
    BY DEF q
  <2>6. QED
    BY <2>2, <2>3, <2>4, <2>5
<1>3. /\ e.deadline \in Nat
      /\ \A i \in 1..Len(queue) : queue[i].deadline \in Nat
  BY QueueEntries DEF Entry
<1>5. ASSUME NEW i \in 1..Len(queue'), i > p
      PROVE  /\ i - 1 \in 1..Len(queue)
             /\ queue'[i] = queue[i - 1]
             /\ e.deadline < queue[i - 1].deadline
  <2>1. i - 1 \in p..Len(queue) /\ i - 1 \in 1..Len(queue) /\ (i - 1) + 1 = i
    BY <1>1, <1>2, <1>5, QueueEntries
  <2>2. queue'[(i - 1) + 1] = queue[i - 1]
    BY <1>2, <2>1
  <2>3. queue[i - 1].deadline > e.deadline
    BY <1>1, <2>1
  <2>4. QED
    BY <1>3, <2>1, <2>2, <2>3
<1>6. ASSUME NEW i \in 1..Len(queue'), NEW j \in 1..Len(queue'), i < j
      PROVE  queue'[i].deadline <= queue'[j].deadline
  <2>1. CASE j < p
    <3>1. i \in 1..(p - 1) /\ j \in 1..(p - 1)
      BY <1>1, <1>6, <2>1, QueueEntries
    <3>2. i \in 1..Len(queue) /\ j \in 1..Len(queue)
      BY <1>1, <3>1, QueueEntries
    <3>3. QED
      BY <1>2, <1>6, <3>1, <3>2 DEF Sorted
  <2>2. CASE j = p
    BY <1>1, <1>2, <1>6, <2>2
  <2>3. CASE i = p
    <3>1. j > p
      BY <1>1, <1>2, <1>6, <2>3, QueueEntries
    <3>2. QED
      BY <1>2, <1>3, <1>5, <2>3, <3>1
  <2>4. CASE i < p /\ j > p
    <3>1. i \in 1..(p - 1) /\ i \in 1..Len(queue)
      BY <1>1, <2>4, QueueEntries
    <3>2. queue'[i].deadline <= e.deadline
      BY <1>1, <1>2, <3>1
    <3>3. QED
      BY <1>2, <1>3, <1>5, <2>4, <3>1, <3>2
  <2>5. CASE i > p
    <3>1. j > p
      BY <1>1, <1>2, <1>6, <2>5, QueueEntries
    <3>2. i - 1 < j - 1
      BY <1>2, <1>6, QueueEntries
    <3>3. QED
      BY <1>5, <2>5, <3>1, <3>2 DEF Sorted
  <2>6. QED
    BY <1>1, <1>2, <2>1, <2>2, <2>3, <2>4, <2>5 DEF TypeOK
<1>7. Sorted'
  BY <1>6 DEF Sorted
<1>8. QED
  BY <1>1, <1>2, <1>7 DEF TypeOK

-----------------------------------------------------------------------------
(* The list is ordered and the timer is never late, whatever fails.        *)

TimerInv ==
    /\ TypeOK
    /\ Sorted
    /\ NoneWhileResched
    /\ TimerNeverLate

\* _remove keeps the order and brings no earlier entry to the front.
LEMMA RemoveSorted ==
    ASSUME TimerInv, NEW c \in Clients, Removed(c) \/ RemoveRaises(c)
    PROVE  Sorted' /\ HeadNoEarlier
<1>1. CASE UNCHANGED queue
  BY <1>1, QueueEntries DEF TimerInv, Sorted, HeadNoEarlier
<1>2. CASE Has(c) /\ Dequeue(holes[c])
  <2>1. holes[c] \in Entry
    BY <1>2 DEF TimerInv, TypeOK, Has
  <2>2. QED
    BY <1>2, <2>1, DequeueSorted DEF TimerInv
<1>3. QED
  BY <1>1, <1>2 DEF Removed, RemoveRaises

\* A call that is pending before and after keeps its time while the head
\* of the list only moves later.
LEMMA RemoveCallTimer ==
    ASSUME TimerInv, NEW c \in Clients, NEW t, t \in {timer, None}, NEW rest,
           ~resched, RemoveCall(c, t, rest), TypeOK'
    PROVE  TimerInv'
<1>1. Sorted' /\ HeadNoEarlier
  BY RemoveSorted DEF RemoveCall
<1>2. timer' \in {timer, None} /\ (resched' => timer' = None)
  BY RaisesEndsLoops DEF RemoveCall
<1>3. ASSUME timer' # None, queue' # <<>>
      PROVE  timer' <= queue'[1].deadline
  <2>1. timer' = timer /\ timer \in Nat /\ timer # None
    BY <1>2, <1>3 DEF TimerInv, TypeOK
  <2>2. queue # <<>> /\ queue[1].deadline <= queue'[1].deadline
    BY <1>1, <1>3 DEF HeadNoEarlier
  <2>3. timer <= queue[1].deadline
    BY <2>1, <2>2 DEF TimerInv, TimerNeverLate
  <2>4. queue[1].deadline \in Nat
    BY <2>2, QueueEntries DEF TimerInv
  <2>5. queue'[1].deadline \in Nat
    <3>1. queue'[1] \in Entry
      BY <1>3 DEF TypeOK
    <3>2. QED
      BY <3>1 DEF Entry
  <2>6. QED
    BY <2>1, <2>2, <2>3, <2>4, <2>5
<1>4. QED
  BY <1>1, <1>2, <1>3 DEF TimerInv, NoneWhileResched, TimerNeverLate

\* The list bisect searches stays ordered, and a pending call never comes
\* after the first queued entry has ended: whichever calls of the system
\* firewall raise, and whichever of several equal entries list.remove takes.
THEOREM TimerCorrect == Spec => [](Sorted /\ TimerNeverLate)
<1>1. Init => TimerInv
  <2>1. Init => Sorted /\ NoneWhileResched /\ TimerNeverLate
    BY DEF Init, Sorted, NoneWhileResched, TimerNeverLate
  <2>2. Init => TypeOK
    BY InitTypeOK
  <2>3. QED
    BY <2>1, <2>2 DEF TimerInv
<1>2. TimerInv /\ [Next]_vars => TimerInv'
  <2> SUFFICES ASSUME TimerInv, [Next]_vars
               PROVE  TimerInv'
    OBVIOUS
  <2>1. TypeOK /\ TypeOK'
    BY NextTypeOK DEF TimerInv
  <2>2. CASE UNCHANGED <<queue, timer, resched>>
    BY <2>1, <2>2 DEF TimerInv, Sorted, NoneWhileResched, TimerNeverLate
  <2>3. ASSUME NEW c \in Clients, NEW d \in Durations, Add(c, d)
        PROVE  TimerInv'
    <3> DEFINE e == NewEntry(c, d)
    <3>1. e \in Entry
      BY <2>1, NewEntryType
    <3>2. PICK p \in Slots(e) : /\ queue' = InsertAt(queue, p, e)
                                /\ resched' \in LooksEarliest(p)
      BY <2>3 DEF Add
    <3>3. timer' = IF resched' THEN None ELSE timer
      BY <2>3 DEF Add
    <3> HIDE DEF e
    <3>4. /\ Sorted'
          /\ p # 1 => queue # <<>> /\ queue'[1] = queue[1]
      BY <2>1, <3>1, <3>2, EnqueueSorted DEF TimerInv
    <3>5. p = 1 => resched'
      BY <3>2 DEF LooksEarliest
    <3>6. NoneWhileResched'
      BY <3>3 DEF NoneWhileResched
    <3>7. ASSUME timer' # None, ~resched'
          PROVE  timer' <= queue'[1].deadline
      <4>1. ~resched
        BY <2>3 DEF Add, Idle
      <4>2. timer' = timer /\ queue # <<>> /\ queue'[1] = queue[1]
        BY <3>3, <3>4, <3>5, <3>7
      <4>3. QED
        BY <3>7, <4>1, <4>2 DEF TimerInv, TimerNeverLate
    <3>8. QED
      BY <2>1, <3>4, <3>6, <3>7 DEF TimerInv, TimerNeverLate
  <2>4. ASSUME NEW c \in Clients, RemoveHole(c)
        PROVE  TimerInv'
    BY <2>1, <2>4, RemoveCallTimer DEF RemoveHole, Idle
  <2>5. CASE ClearNext
    <3>1. Head(clearing).client \in Clients
      <4>1. Head(clearing) \in Entry
        BY <2>1, <2>5, HeadTailProperties DEF ClearNext, TypeOK
      <4>2. QED
        BY <4>1 DEF Entry
    <3>2. QED
      BY <2>1, <2>5, <3>1, RemoveCallTimer DEF ClearNext
  <2>6. CASE HoleExpired
    <3>1. CASE queue = <<>>
      <4>1. UNCHANGED queue /\ timer' = None
        BY <2>6, <3>1 DEF HoleExpired
      <4>2. Sorted'
        BY <3>1, <4>1, QueueEntries DEF Sorted, TimerInv
      <4>3. QED
        BY <2>1, <4>1, <4>2 DEF TimerInv, NoneWhileResched, TimerNeverLate
    <3>2. CASE queue # <<>>
      <4>1. queue[1].client \in Clients
        BY <2>1, <3>2, QueueEntries
      <4>2. QED
        BY <2>1, <2>6, <3>2, <4>1, RemoveCallTimer DEF HoleExpired, Idle
    <3>3. QED
      BY <3>1, <3>2
  <2>7. CASE CatchUp
    <3>1. queue[1].client \in Clients
      BY <2>1, <2>7, QueueEntries DEF CatchUp
    <3>2. Sorted'
      BY <2>7, <3>1, RemoveSorted DEF CatchUp
    <3>3. timer' = None
      BY <2>7 DEF CatchUp, TimerInv, NoneWhileResched
    <3>4. QED
      BY <2>1, <3>2, <3>3 DEF TimerInv, NoneWhileResched, TimerNeverLate
  <2>8. CASE Reschedule
    <3>1. Sorted' /\ ~resched'
      BY <2>1, <2>8 DEF Reschedule, TimerInv, Sorted
    <3>2. queue' # <<>> => timer' <= queue'[1].deadline
      <4>1. queue # <<>> => queue[1].deadline \in Nat
        BY <2>1, QueueEntries
      <4>2. QED
        BY <2>1, <2>8, <4>1 DEF Reschedule, TimeLeft, TypeOK
    <3>3. QED
      BY <2>1, <3>1, <3>2 DEF TimerInv, NoneWhileResched, TimerNeverLate
  <2>9. CASE RemoveAll
    BY <2>2, <2>9 DEF RemoveAll
  <2>10. ASSUME NEW c \in Clients, AddDuplicate(c) \/ \E d \in Durations : AddRaises(c, d)
         PROVE  TimerInv'
    BY <2>2, <2>10 DEF AddDuplicate, AddRaises
  <2>11. CASE Tick \/ UNCHANGED vars
    BY <2>2, <2>11 DEF Tick, vars
  <2>12. QED
    BY <2>3, <2>4, <2>5, <2>6, <2>7, <2>8, <2>9, <2>10, <2>11 DEF Next
<1>3. TimerInv => Sorted /\ TimerNeverLate
  BY DEF TimerInv
<1>4. QED
  BY <1>1, <1>2, <1>3, PTL DEF Spec

-----------------------------------------------------------------------------
(* When the system firewall never fails and no two holes end together, the *)
(* dictionary, the list, the timer and the firewall always agree.          *)

Sound == Faults = {} /\ ~Ties

\* What is left of the list when one entry goes: everything else, in order.
LEMMA SoundDequeue ==
    ASSUME SoundInv, NEW c \in Clients, Has(c), Dequeue(holes[c])
    PROVE  \E k \in 1..Len(queue) :
              /\ queue[k] = holes[c]
              /\ queue' \in Seq(Entry)
              /\ Len(queue') = Len(queue) - 1
              /\ \A i \in 1..(k - 1) : queue'[i] = queue[i]
              /\ \A i \in k..(Len(queue) - 1) : queue'[i] = queue[i + 1]
<1>1. PICK k \in Equal(holes[c]) : queue' = RemoveAt(queue, k)
  BY DEF Dequeue
<1>2. k \in 1..Len(queue)
  BY <1>1 DEF Equal
<1>3. PICK j \in 1..Len(queue) : queue[j] = holes[c]
  BY DEF SoundInv, BooksAgree, RegisteredAreQueued, Queued
<1>4. k = j
  <2>1. TypeOK
    BY DEF SoundInv
  <2>2. Len(queue) \in Nat /\ queue[k].deadline \in Nat /\ queue[j].deadline \in Nat
    BY <1>2, <1>3, <2>1, QueueEntries
  <2>3. now \in Nat /\ queue[k].deadline - now = queue[j].deadline - now
    BY <1>1, <1>3, <2>1 DEF Equal, TimeLeft, TypeOK
  <2>4. queue[k].deadline = queue[j].deadline
    BY <2>2, <2>3
  <2>5. k < j => queue[k].deadline < queue[j].deadline
    BY <1>2, <1>3 DEF SoundInv, StrictlySorted
  <2>6. j < k => queue[j].deadline < queue[k].deadline
    BY <1>2, <1>3 DEF SoundInv, StrictlySorted
  <2>7. QED
    BY <1>2, <1>3, <2>2, <2>4, <2>5, <2>6
<1>5. queue \in Seq(Entry)
  BY DEF SoundInv, TypeOK
<1>6. /\ queue' \in Seq(Entry)
      /\ Len(queue') = Len(queue) - 1
      /\ \A i \in 1..(k - 1) : queue'[i] = queue[i]
      /\ \A i \in k..(Len(queue) - 1) : queue'[i] = queue[i + 1]
  BY <1>1, <1>2, <1>5, RemoveAtProperties
<1>7. QED
  BY <1>2, <1>3, <1>4, <1>6

\* Registered, ruled and queued: _remove cannot raise.
LEMMA SoundNeverRaises ==
    ASSUME SoundInv, Sound, NEW c \in Clients, Has(c)
    PROVE  ~RemoveRaises(c)
<1>1. Queued(holes[c]) /\ fw[c] = 1
  BY DEF SoundInv, BooksAgree, RegisteredAreQueued
<1>2. QED
  BY <1>1 DEF Sound, RemoveRaises

\* _remove takes one client out of all the books at once.
LEMMA SoundRemoved ==
    ASSUME SoundInv, Sound, NEW c \in Clients, Removed(c)
    PROVE  /\ BooksAgree'
           /\ StrictlySorted'
           /\ ~NeedResched(c) =>
                 queue # <<>> /\ queue' # <<>> /\ queue'[1] = queue[1]
           /\ queue[Len(queue)] = holes[c] =>
                 /\ Len(queue') = Len(queue) - 1
                 /\ \A i \in 1..Len(queue') : queue'[i] = queue[i]
<1>1. Has(c) /\ Dequeue(holes[c]) /\ Pop(c) /\ fw' = [fw EXCEPT ![c] = @ - 1]
  BY DEF Removed
<1>2. PICK k \in 1..Len(queue) :
         /\ queue[k] = holes[c]
         /\ queue' \in Seq(Entry)
         /\ Len(queue') = Len(queue) - 1
         /\ \A i \in 1..(k - 1) : queue'[i] = queue[i]
         /\ \A i \in k..(Len(queue) - 1) : queue'[i] = queue[i + 1]
  BY <1>1, SoundDequeue
<1> DEFINE old(i) == IF i < k THEN i ELSE i + 1
           new(i) == IF i < k THEN i ELSE i - 1
<1>3. TypeOK /\ StrictlySorted /\ QueuedAreRegistered /\ RegisteredAreQueued
  BY DEF SoundInv, BooksAgree
<1>4. \A i \in 1..Len(queue') :
         old(i) \in 1..Len(queue) /\ old(i) # k /\ queue'[i] = queue[old(i)]
  BY <1>2
<1>5. \A i, j \in 1..Len(queue') : i < j => old(i) < old(j)
  BY <1>2
<1>6. ASSUME NEW j \in 1..Len(queue), j # k
      PROVE  new(j) \in 1..Len(queue') /\ queue'[new(j)] = queue[j]
  <2>1. CASE j < k
    BY <1>2, <2>1
  <2>2. CASE j > k
    <3>1. j - 1 \in k..(Len(queue) - 1) /\ (j - 1) + 1 = j
      BY <1>2, <2>2
    <3>2. queue'[j - 1] = queue[(j - 1) + 1]
      BY <1>2, <3>1
    <3>3. QED
      BY <1>2, <2>2, <3>1, <3>2
  <2>3. QED
    BY <1>2, <1>6, <2>1, <2>2
<1> HIDE DEF old, new
<1>7. \A d \in Clients : holes'[d] = IF d = c THEN None ELSE holes[d]
  BY <1>1, <1>3 DEF Pop, TypeOK
<1>8. StrictlySorted'
  BY <1>3, <1>4, <1>5 DEF StrictlySorted
<1>9. \A i \in 1..Len(queue) : queue[i].client = c => i = k
  <2>1. \A i \in 1..Len(queue) : queue[i].client = c => queue[i] = queue[k]
    BY <1>2, <1>3 DEF QueuedAreRegistered
  <2>2. QED
    BY <1>2, <2>1 DEF SoundInv, BooksAgree, IsInjective
<1>10. QueuedAreRegistered'
  <2> SUFFICES ASSUME NEW i \in 1..Len(queue')
               PROVE  /\ holes'[queue'[i].client] # None
                      /\ holes'[queue'[i].client] = queue'[i]
    BY DEF QueuedAreRegistered, Has
  <2>1. /\ old(i) \in 1..Len(queue) /\ queue'[i] = queue[old(i)]
        /\ queue[old(i)].client # c
    BY <1>4, <1>9
  <2>2. queue[old(i)].client \in Clients
    BY <1>3, <2>1, QueueEntries
  <2>3. /\ holes[queue[old(i)].client] = queue[old(i)]
        /\ holes[queue[old(i)].client] # None
    BY <1>3, <2>1 DEF QueuedAreRegistered, Has
  <2>4. QED
    BY <1>7, <2>1, <2>2, <2>3
<1>11. RegisteredAreQueued'
  <2> SUFFICES ASSUME NEW d \in Clients, holes'[d] # None
               PROVE  /\ holes'[d].client = d
                      /\ \E i \in 1..Len(queue') : queue'[i] = holes'[d]
    BY DEF RegisteredAreQueued, Has, Queued
  <2>1. d # c /\ holes'[d] = holes[d] /\ Has(d)
    BY <1>7 DEF Has
  <2>2. PICK j \in 1..Len(queue) : queue[j] = holes[d]
    BY <1>3, <2>1 DEF RegisteredAreQueued, Queued
  <2>3. holes[d].client = d /\ holes[c].client = c
    BY <1>1, <1>3, <2>1 DEF RegisteredAreQueued
  <2>4. j # k
    BY <1>2, <2>1, <2>2, <2>3
  <2>5. new(j) \in 1..Len(queue') /\ queue'[new(j)] = queue[j]
    BY <1>6, <2>4
  <2>6. QED
    BY <2>1, <2>2, <2>3, <2>5
<1>12. IsInjective(queue')
  <2>1. DOMAIN queue' = 1..Len(queue') /\ DOMAIN queue = 1..Len(queue)
    BY <1>2, <1>3 DEF TypeOK
  <2>2. \A i, j \in 1..Len(queue') : queue'[i] = queue'[j] => old(i) = old(j)
    BY <1>4, <2>1 DEF SoundInv, BooksAgree, IsInjective
  <2>3. \A i, j \in 1..Len(queue') : old(i) = old(j) => i = j
    BY <1>2, <1>3, QueueEntries DEF old
  <2>4. QED
    BY <2>1, <2>2, <2>3 DEF IsInjective
<1>13. \A d \in Clients : fw'[d] = IF holes'[d] # None THEN 1 ELSE 0
  <2>1. \A d \in Clients : fw[d] = IF Has(d) THEN 1 ELSE 0
    BY DEF SoundInv, BooksAgree
  <2>2. fw \in [Clients -> Nat]
    BY <1>3 DEF TypeOK
  <2>3. QED
    BY <1>1, <1>7, <2>1, <2>2 DEF Has
<1>14. BooksAgree'
  BY <1>10, <1>11, <1>12, <1>13 DEF BooksAgree, Has
<1>15. ASSUME ~NeedResched(c)
       PROVE  queue # <<>> /\ queue' # <<>> /\ queue'[1] = queue[1]
  <2>1. k # 1
    BY <1>2, <1>15 DEF NeedResched
  <2>2. Len(queue) \in Nat /\ 1 \in 1..(k - 1) /\ Len(queue') > 0
    BY <1>2, <1>3, <2>1, QueueEntries
  <2>3. QED
    BY <1>2, <2>2
<1>16. ASSUME queue[Len(queue)] = holes[c]
       PROVE  /\ Len(queue') = Len(queue) - 1
              /\ \A i \in 1..Len(queue') : queue'[i] = queue[i]
  <2>1. Len(queue) \in Nat /\ Len(queue) \in 1..Len(queue)
    BY <1>2, <1>3, QueueEntries
  <2>2. Len(queue) = k
    <3>1. DOMAIN queue = 1..Len(queue)
      BY <1>3 DEF TypeOK
    <3>2. QED
      BY <1>2, <1>16, <2>1, <3>1 DEF SoundInv, BooksAgree, IsInjective
  <2>3. QED
    BY <1>2, <2>1, <2>2
<1>17. QED
  BY <1>8, <1>14, <1>15, <1>16

\* remove() called for a registered client while t is pending.
LEMMA SoundRemoveCall ==
    ASSUME SoundInv, Sound, TypeOK', ~resched,
           NEW c \in Clients, Has(c),
           NEW t, timer # None => NeedResched(c) \/ t = timer,
           NEW rest, RemoveCall(c, t, rest),
           rest = <<>> \/ /\ clearing # <<>>
                          /\ clearing[1] = holes[c]
                          /\ Len(rest) = Len(clearing) - 1
                          /\ \A i \in 1..Len(rest) : rest[i] = clearing[i + 1]
    PROVE  SoundInv' /\ error' = "none"
<1>1. /\ Removed(c)
      /\ resched' = NeedResched(c)
      /\ timer' = IF NeedResched(c) THEN None ELSE t
      /\ clearing' = rest
  BY SoundNeverRaises DEF RemoveCall
<1>2. /\ BooksAgree'
      /\ StrictlySorted'
      /\ ~NeedResched(c) =>
            queue # <<>> /\ queue' # <<>> /\ queue'[1] = queue[1]
      /\ queue[Len(queue)] = holes[c] =>
            /\ Len(queue') = Len(queue) - 1
            /\ \A i \in 1..Len(queue') : queue'[i] = queue[i]
  BY <1>1, SoundRemoved
<1>3. NoneWhileResched'
  BY <1>1 DEF NoneWhileResched
<1>4. TimerWatchesHead'
  <2>1. ASSUME ~NeedResched(c)
        PROVE  timer' = IF queue' = <<>> THEN None ELSE queue'[1].deadline
    <3>1. timer' = t /\ queue # <<>> /\ queue' # <<>> /\ queue'[1] = queue[1]
      BY <1>1, <1>2, <2>1
    <3>2. timer = queue[1].deadline
      BY <3>1 DEF SoundInv, TimerWatchesHead
    <3>3. timer # None
      <4>1. queue[1] \in Entry
        BY <3>1 DEF SoundInv, TypeOK
      <4>2. timer \in Nat
        BY <3>2, <4>1 DEF Entry
      <4>3. QED
        BY <4>2, NoneAssumption
    <3>4. QED
      BY <2>1, <3>1, <3>2, <3>3
  <2>2. QED
    BY <1>1, <2>1 DEF TimerWatchesHead
<1>5. ClearingIsQueue'
  <2>1. CASE rest = <<>>
    BY <1>1, <2>1 DEF ClearingIsQueue
  <2>2. CASE /\ clearing # <<>>
             /\ clearing[1] = holes[c]
             /\ Len(rest) = Len(clearing) - 1
             /\ \A i \in 1..Len(rest) : rest[i] = clearing[i + 1]
    <3>1. /\ Len(clearing) = Len(queue)
          /\ \A i \in 1..Len(queue) : clearing[i] = queue[Len(queue) + 1 - i]
      BY <2>2 DEF SoundInv, ClearingIsQueue
    <3>2. /\ Len(queue) \in Nat /\ Len(queue) > 0
          /\ clearing \in Seq(Entry) /\ queue \in Seq(Entry)
      BY <2>2, <3>1 DEF SoundInv, TypeOK
    <3>3. queue[Len(queue)] = holes[c]
      <4>1. 1 \in 1..Len(queue) /\ Len(queue) + 1 - 1 = Len(queue)
        BY <3>2
      <4>2. clearing[1] = queue[Len(queue) + 1 - 1]
        BY <3>1, <4>1
      <4>3. QED
        BY <2>2, <4>1, <4>2
    <3>4. /\ Len(queue') = Len(queue) - 1
          /\ \A i \in 1..Len(queue') : queue'[i] = queue[i]
      BY <1>2, <3>3
    <3>5. Len(clearing') = Len(queue')
      BY <1>1, <2>2, <3>1, <3>4
    <3>6. ASSUME NEW i \in 1..Len(queue')
          PROVE  clearing'[i] = queue'[Len(queue') + 1 - i]
      <4>1. i \in 1..Len(rest) /\ clearing'[i] = clearing[i + 1]
        BY <1>1, <2>2, <3>5
      <4> DEFINE n == Len(queue)
      <4> n \in Nat /\ i \in 1..(n - 1)
        BY <3>2, <3>4
      <4> HIDE DEF n
      <4>2. i + 1 \in 1..Len(queue) /\ Len(queue) + 1 - (i + 1) = Len(queue) - i
        <5>1. i + 1 \in 1..n /\ n + 1 - (i + 1) = n - i
          OBVIOUS
        <5>2. QED
          BY <5>1 DEF n
      <4>3. clearing[i + 1] = queue[Len(queue) - i]
        BY <3>1, <4>2
      <4>4. Len(queue') + 1 - i = Len(queue) - i /\ Len(queue) - i \in 1..Len(queue')
        BY <3>2, <3>4
      <4>5. queue'[Len(queue) - i] = queue[Len(queue) - i]
        BY <3>4, <4>4
      <4>6. QED
        BY <4>1, <4>3, <4>4, <4>5
    <3>7. ASSUME clearing' # <<>>
          PROVE  ~resched'
      <4>1. Len(queue') > 0 /\ Len(queue) > 1 /\ 1 \in 1..Len(queue) /\ Len(queue) \in 1..Len(queue)
        BY <1>1, <2>2, <3>2, <3>4, <3>5, <3>7 DEF TypeOK
      <4>2. queue[1] # queue[Len(queue)]
        BY <3>2, <4>1 DEF SoundInv, BooksAgree, IsInjective
      <4>3. QED
        BY <1>1, <3>3, <4>2 DEF NeedResched
    <3>8. QED
      BY <3>5, <3>6, <3>7 DEF ClearingIsQueue
  <2>3. QED
    BY <2>1, <2>2
<1>6. QED
  BY <1>1, <1>2, <1>3, <1>4, <1>5 DEF SoundInv, Removed

\* add() puts a client that is in none of the books into all of them.
LEMMA SoundAdd ==
    ASSUME SoundInv, Sound, TypeOK',
           NEW c \in Clients, NEW d \in Durations, Add(c, d)
    PROVE  SoundInv'
<1> DEFINE e == NewEntry(c, d)
<1>1. /\ e \in Entry /\ e.client = c /\ e.deadline \in Nat
      /\ e # None
  <2>1. e \in Entry /\ e.client = c
    BY NewEntryType DEF SoundInv
  <2>2. QED
    BY <2>1, NoneAssumption DEF Entry
<1>2. /\ ~Has(c) /\ ~resched /\ clearing = <<>>
      /\ \A i \in 1..Len(queue) : queue[i].deadline # e.deadline
      /\ holes' = [holes EXCEPT ![c] = e]
      /\ fw' = [fw EXCEPT ![c] = @ + 1]
      /\ timer' = IF resched' THEN None ELSE timer
      /\ clearing' = <<>>
  BY DEF Add, Idle, Sound
<1>3. PICK p \in Slots(e) : /\ queue' = InsertAt(queue, p, e)
                            /\ resched' \in LooksEarliest(p)
  BY DEF Add
<1> HIDE DEF e
<1>4. /\ TypeOK /\ StrictlySorted /\ QueuedAreRegistered
      /\ RegisteredAreQueued /\ IsInjective(queue)
  BY DEF SoundInv, BooksAgree
<1>5. /\ p \in 1..(Len(queue) + 1) /\ Len(queue) \in Nat
      /\ queue' \in Seq(Entry)
      /\ Len(queue') = Len(queue) + 1
      /\ queue'[p] = e
  <2>1. queue \in Seq(Entry) /\ p \in 1..(Len(queue) + 1) /\ Len(queue) \in Nat
    BY <1>3, <1>4, QueueEntries DEF Slots
  <2>2. QED
    BY <1>1, <1>3, <2>1, InsertAtProperties
<1>6. /\ \A i \in 1..(p - 1) : queue'[i] = queue[i]
      /\ \A i \in p..Len(queue) : queue'[i + 1] = queue[i]
  <2>1. queue \in Seq(Entry)
    BY <1>4 DEF TypeOK
  <2>2. \A i \in 1..(p - 1) : InsertAt(queue, p, e)[i] = queue[i]
    BY <1>1, <1>5, <2>1, InsertAtProperties
  <2>3. \A i \in p..Len(queue) : InsertAt(queue, p, e)[i + 1] = queue[i]
    BY <1>1, <1>5, <2>1, InsertAtProperties
  <2>4. QED
    BY <1>3, <2>2, <2>3
<1> DEFINE old(i) == IF i < p THEN i ELSE i - 1
           new(i) == IF i < p THEN i ELSE i + 1
<1>7. ASSUME NEW i \in 1..Len(queue'), i # p
      PROVE  old(i) \in 1..Len(queue) /\ queue'[i] = queue[old(i)]
  <2>1. CASE i < p
    BY <1>5, <1>6, <2>1
  <2>2. CASE i > p
    <3>1. i - 1 \in p..Len(queue) /\ i - 1 \in 1..Len(queue) /\ (i - 1) + 1 = i
      BY <1>5, <2>2
    <3>2. queue'[(i - 1) + 1] = queue[i - 1]
      BY <1>6, <3>1
    <3>3. QED
      BY <1>5, <2>2, <3>1, <3>2
  <2>3. QED
    BY <1>5, <1>7, <2>1, <2>2
<1>8. ASSUME NEW i \in 1..Len(queue)
      PROVE  new(i) \in 1..Len(queue') /\ queue'[new(i)] = queue[i]
  BY <1>5, <1>6
<1>9. \A i \in 1..Len(queue) :
         /\ queue[i] \in Entry /\ queue[i].client \in Clients
         /\ queue[i].client # c
  BY <1>2, <1>4, QueueEntries DEF QueuedAreRegistered
<1>10. \A b \in Clients : holes'[b] = IF b = c THEN e ELSE holes[b]
  BY <1>2, <1>4 DEF TypeOK
<1>11. StrictlySorted'
  <2>1. /\ Sorted'
        /\ p # 1 => queue # <<>> /\ queue'[1] = queue[1]
    <3>1. \A i \in 1..Len(queue) : queue[i].deadline \in Nat
      BY <1>4, QueueEntries
    <3>2. Sorted
      BY <1>4, <3>1 DEF StrictlySorted, Sorted
    <3>3. QED
      BY <1>1, <1>3, <1>4, <3>2, EnqueueSorted
  <2>2. \A i \in 1..Len(queue') : i # p => queue'[i].deadline # queue'[p].deadline
    BY <1>2, <1>5, <1>7
  <2>3. \A i, j \in 1..Len(queue') :
           i # p /\ j # p /\ i < j => old(i) < old(j)
    BY <1>5
  <2>4. \A i \in 1..Len(queue') : queue'[i] \in Entry
    BY <1>5
  <2>5. \A i \in 1..Len(queue') : queue'[i].deadline \in Nat
    BY <2>4 DEF Entry
  <2> SUFFICES ASSUME NEW i \in 1..Len(queue'), NEW j \in 1..Len(queue'), i < j
               PROVE  queue'[i].deadline < queue'[j].deadline
    BY DEF StrictlySorted
  <2>6. CASE i = p \/ j = p
    <3>1. queue'[i].deadline <= queue'[j].deadline
      BY <2>1 DEF Sorted
    <3>2. queue'[i].deadline # queue'[j].deadline
      BY <1>5, <2>2, <2>6
    <3>3. QED
      BY <2>5, <3>1, <3>2
  <2>7. CASE i # p /\ j # p
    <3>1. /\ old(i) \in 1..Len(queue) /\ queue'[i] = queue[old(i)]
          /\ old(j) \in 1..Len(queue) /\ queue'[j] = queue[old(j)]
          /\ old(i) < old(j)
      BY <1>7, <2>3, <2>7
    <3> HIDE DEF old
    <3>2. QED
      BY <1>4, <3>1 DEF StrictlySorted
  <2>8. QED
    BY <2>6, <2>7
<1> HIDE DEF old, new
<1>12. QueuedAreRegistered'
  <2> SUFFICES ASSUME NEW i \in 1..Len(queue')
               PROVE  /\ holes'[queue'[i].client] # None
                      /\ holes'[queue'[i].client] = queue'[i]
    BY DEF QueuedAreRegistered, Has
  <2>1. CASE i = p
    BY <1>1, <1>5, <1>10, <2>1
  <2>2. CASE i # p
    <3>1. old(i) \in 1..Len(queue) /\ queue'[i] = queue[old(i)]
      BY <1>7, <2>2
    <3>2. QED
      BY <1>4, <1>9, <1>10, <3>1 DEF QueuedAreRegistered, Has
  <2>3. QED
    BY <2>1, <2>2
<1>13. RegisteredAreQueued'
  <2> SUFFICES ASSUME NEW b \in Clients, holes'[b] # None
               PROVE  /\ holes'[b].client = b
                      /\ \E i \in 1..Len(queue') : queue'[i] = holes'[b]
    BY DEF RegisteredAreQueued, Has, Queued
  <2>1. CASE b = c
    BY <1>1, <1>5, <1>10, <2>1
  <2>2. CASE b # c
    <3>1. holes'[b] = holes[b] /\ Has(b)
      BY <1>10, <2>2 DEF Has
    <3>2. PICK j \in 1..Len(queue) : queue[j] = holes[b]
      BY <1>4, <3>1 DEF RegisteredAreQueued, Queued
    <3>3. holes[b].client = b
      BY <1>4, <3>1 DEF RegisteredAreQueued
    <3>4. QED
      BY <1>8, <3>1, <3>2, <3>3
  <2>3. QED
    BY <2>1, <2>2
<1>14. IsInjective(queue')
  <2>1. \A i, j \in 1..Len(queue') : i < j => queue'[i] # queue'[j]
    <3>1. \A i \in 1..Len(queue') : queue'[i] \in Entry
      BY <1>5
    <3>2. \A i \in 1..Len(queue') : queue'[i].deadline \in Nat
      BY <3>1 DEF Entry
    <3>3. QED
      BY <1>11, <3>2 DEF StrictlySorted
  <2>2. DOMAIN queue' = 1..Len(queue') /\ Len(queue') \in Nat
    BY <1>5
  <2>3. QED
    BY <2>1, <2>2 DEF IsInjective
<1>15. \A b \in Clients : fw'[b] = IF holes'[b] # None THEN 1 ELSE 0
  <2>1. \A b \in Clients : fw[b] = IF Has(b) THEN 1 ELSE 0
    BY DEF SoundInv, BooksAgree
  <2>2. fw \in [Clients -> Nat]
    BY <1>4 DEF TypeOK
  <2>3. QED
    BY <1>1, <1>2, <1>10, <2>1, <2>2 DEF Has
<1>16. BooksAgree'
  BY <1>12, <1>13, <1>14, <1>15 DEF BooksAgree, Has
<1>17. TimerWatchesHead'
  <2>1. ASSUME ~resched'
        PROVE  timer' = IF queue' = <<>> THEN None ELSE queue'[1].deadline
    <3>1. p # 1 /\ timer' = timer
      BY <1>2, <1>3, <2>1 DEF LooksEarliest
    <3>2. queue # <<>> /\ queue' # <<>> /\ queue'[1] = queue[1]
      <4>1. 1 \in 1..(p - 1) /\ 1 \in 1..Len(queue) /\ Len(queue') > 0
        BY <1>5, <3>1
      <4>2. QED
        BY <1>5, <1>6, <4>1
    <3>3. timer = queue[1].deadline
      BY <1>2, <3>2 DEF SoundInv, TimerWatchesHead
    <3>4. QED
      BY <3>1, <3>2, <3>3
  <2>2. QED
    BY <2>1 DEF TimerWatchesHead
<1>18. NoneWhileResched' /\ ClearingIsQueue'
  BY <1>2 DEF NoneWhileResched, ClearingIsQueue
<1>19. QED
  BY <1>11, <1>16, <1>17, <1>18 DEF SoundInv

\* The head of a non-empty list is the entry its client is registered with.
LEMMA SoundHead ==
    ASSUME SoundInv, queue # <<>>
    PROVE  /\ queue[1].client \in Clients
           /\ Has(queue[1].client)
           /\ holes[queue[1].client] = queue[1]
           /\ queue[1].deadline \in Nat
<1>1. TypeOK /\ 1 \in 1..Len(queue)
  BY DEF SoundInv, TypeOK
<1>2. QED
  BY <1>1, QueueEntries DEF SoundInv, BooksAgree, QueuedAreRegistered

LEMMA SoundClearNext ==
    ASSUME SoundInv, Sound, TypeOK', ClearNext
    PROVE  SoundInv' /\ error' = "none"
<1> DEFINE c == Head(clearing).client
<1>1. /\ clearing \in Seq(Entry) /\ clearing # <<>> /\ ~resched
      /\ queue \in Seq(Entry) /\ Len(queue) \in Nat
      /\ Len(clearing) = Len(queue)
      /\ \A i \in 1..Len(queue) : clearing[i] = queue[Len(queue) + 1 - i]
  BY DEF ClearNext, SoundInv, TypeOK, ClearingIsQueue
<1>2. /\ Head(clearing) = clearing[1]
      /\ Len(Tail(clearing)) = Len(clearing) - 1
      /\ \A i \in 1..Len(Tail(clearing)) : Tail(clearing)[i] = clearing[i + 1]
  BY <1>1, HeadTailProperties
<1>3. Len(queue) \in 1..Len(queue) /\ clearing[1] = queue[Len(queue)]
  <2>1. 1 \in 1..Len(queue) /\ Len(queue) + 1 - 1 = Len(queue)
    BY <1>1
  <2>2. clearing[1] = queue[Len(queue) + 1 - 1]
    BY <1>1, <2>1
  <2>3. QED
    BY <1>1, <2>1, <2>2
<1>4. c \in Clients /\ Has(c) /\ holes[c] = clearing[1]
  BY <1>2, <1>3, QueueEntries DEF SoundInv, BooksAgree, QueuedAreRegistered
<1>5. RemoveCall(c, timer, Tail(clearing))
  BY DEF ClearNext
<1> HIDE DEF c
<1>6. QED
  BY <1>1, <1>2, <1>4, <1>5, SoundRemoveCall

LEMMA SoundHoleExpired ==
    ASSUME SoundInv, Sound, TypeOK', HoleExpired
    PROVE  SoundInv' /\ error' = "none"
<1>1. ~resched /\ timer # None
  BY DEF HoleExpired, Idle
<1>2. queue # <<>>
  BY <1>1 DEF SoundInv, TimerWatchesHead
<1>3. RemoveCall(queue[1].client, None, <<>>)
  BY <1>2 DEF HoleExpired
<1>4. NeedResched(queue[1].client)
  BY <1>2, SoundHead DEF NeedResched
<1>5. QED
  BY <1>1, <1>2, <1>3, <1>4, SoundHead, SoundRemoveCall

LEMMA SoundCatchUp ==
    ASSUME SoundInv, Sound, TypeOK', CatchUp
    PROVE  SoundInv' /\ error' = "none"
<1>1. /\ resched /\ queue # <<>> /\ UNCHANGED timer
      /\ Removed(queue[1].client) /\ UNCHANGED <<resched, clearing>>
  BY SoundHead, SoundNeverRaises DEF CatchUp
<1>2. BooksAgree' /\ StrictlySorted'
  BY <1>1, SoundHead, SoundRemoved
<1>3. /\ NoneWhileResched' /\ TimerWatchesHead' /\ ClearingIsQueue'
  BY <1>1 DEF SoundInv, NoneWhileResched, TimerWatchesHead, ClearingIsQueue
<1>4. error' = "none"
  BY <1>1 DEF Removed
<1>5. QED
  BY <1>2, <1>3, <1>4 DEF SoundInv

LEMMA SoundReschedule ==
    ASSUME SoundInv, Sound, TypeOK', Reschedule
    PROVE  SoundInv'
<1>1. /\ timer' = IF queue = <<>> THEN None ELSE now + TimeLeft(queue[1])
      /\ resched /\ ~resched'
      /\ UNCHANGED <<now, serial, holes, queue, fw, clearing>>
  BY DEF Reschedule
<1>2. queue # <<>> => timer' = queue[1].deadline
  <2>1. now \in Nat
    BY DEF SoundInv, TypeOK
  <2>2. QED
    BY <1>1, <2>1, SoundHead DEF TimeLeft
<1>3. TimerWatchesHead' /\ NoneWhileResched'
  BY <1>1, <1>2 DEF TimerWatchesHead, NoneWhileResched
<1>4. ClearingIsQueue'
  BY <1>1 DEF SoundInv, ClearingIsQueue
<1>5. BooksAgree' /\ StrictlySorted'
  BY <1>1 DEF SoundInv, BooksAgree, QueuedAreRegistered,
     RegisteredAreQueued, Queued, Has, StrictlySorted
<1>6. QED
  BY <1>3, <1>4, <1>5 DEF SoundInv

LEMMA SoundRemoveAll ==
    ASSUME SoundInv, TypeOK', RemoveAll
    PROVE  SoundInv'
<1>1. /\ clearing' = Reverse(queue) /\ ~resched
      /\ UNCHANGED <<holes, queue, timer, fw, resched>>
  BY DEF RemoveAll, Idle
<1>2. queue \in Seq(Entry) /\ Len(queue) \in Nat
  BY DEF SoundInv, TypeOK
<1>3. ClearingIsQueue'
  <2>1. Len(clearing') = Len(queue)
    BY <1>1, <1>2, ReverseProperties
  <2>2. \A i \in 1..Len(queue) : clearing'[i] = queue[Len(queue) - i + 1]
    BY <1>1, <1>2, ReverseProperties
  <2>3. \A i \in 1..Len(queue) : Len(queue) - i + 1 = Len(queue) + 1 - i
    BY <1>2
  <2>4. QED
    BY <1>1, <2>1, <2>2, <2>3 DEF ClearingIsQueue
<1>4. QED
  BY <1>1, <1>3 DEF SoundInv, BooksAgree, QueuedAreRegistered,
     RegisteredAreQueued, Queued, Has, StrictlySorted, TimerWatchesHead,
     NoneWhileResched

LEMMA SoundIdle ==
    ASSUME SoundInv, TypeOK',
           UNCHANGED <<holes, queue, timer, fw, resched, clearing>>
    PROVE  SoundInv'
  BY DEF SoundInv, BooksAgree, QueuedAreRegistered, RegisteredAreQueued,
     Queued, Has, StrictlySorted, TimerWatchesHead, NoneWhileResched,
     ClearingIsQueue

LEMMA SoundInit == Init => SoundInv
<1>1. Init => BooksAgree
  BY DEF Init, BooksAgree, QueuedAreRegistered, RegisteredAreQueued,
     IsInjective, Has
<1>2. QED
  BY <1>1, InitTypeOK DEF Init, SoundInv, StrictlySorted, TimerWatchesHead,
     NoneWhileResched, ClearingIsQueue

LEMMA SoundNext ==
    ASSUME SoundInv, Sound, [Next]_vars
    PROVE  SoundInv'
<1>1. TypeOK'
  BY NextTypeOK DEF SoundInv
<1>2. ASSUME NEW c \in Clients, NEW d \in Durations, Add(c, d)
      PROVE  SoundInv'
  BY <1>1, <1>2, SoundAdd
<1>3. ASSUME NEW c \in Clients, NEW d \in Durations, AddRaises(c, d)
      PROVE  SoundInv'
  BY <1>3 DEF AddRaises, Sound
<1>4. ASSUME NEW c \in Clients, AddDuplicate(c)
      PROVE  SoundInv'
  BY <1>1, <1>4, SoundIdle DEF AddDuplicate
<1>5. ASSUME NEW c \in Clients, RemoveHole(c)
      PROVE  SoundInv'
  <2>1. ~resched /\ clearing = <<>> /\ RemoveCall(c, timer, <<>>)
    BY <1>5 DEF RemoveHole, Idle
  <2>2. CASE Has(c)
    BY <1>1, <2>1, <2>2, SoundRemoveCall
  <2>3. CASE ~Has(c)
    <3>1. UNCHANGED <<holes, queue, fw, timer>> /\ resched' = FALSE /\ clearing' = <<>>
      BY <2>1, <2>3 DEF RemoveCall, Removed, RemoveRaises, Raise
    <3>2. QED
      BY <1>1, <2>1, <3>1 DEF SoundInv, BooksAgree, QueuedAreRegistered,
         RegisteredAreQueued, Queued, Has, StrictlySorted, TimerWatchesHead,
         NoneWhileResched, ClearingIsQueue
  <2>4. QED
    BY <2>2, <2>3
<1>6. CASE Tick \/ UNCHANGED vars
  BY <1>1, <1>6, SoundIdle DEF Tick, vars
<1>7. QED
  BY <1>1, <1>2, <1>3, <1>4, <1>5, <1>6, SoundClearNext, SoundHoleExpired,
     SoundCatchUp, SoundReschedule, SoundRemoveAll DEF Next

\* If the system firewall never fails and no two queued holes end together,
\* dictionary, list and firewall rules agree at every step, and the call the
\* reactor waits for is always the end of the first hole.
THEOREM BooksCorrect ==
    ASSUME Sound
    PROVE  Spec => [](BooksAgree /\ TimerWatchesHead /\ ClearingIsQueue)
<1>1. SoundInv => BooksAgree /\ TimerWatchesHead /\ ClearingIsQueue
  BY DEF SoundInv
<1>2. SoundInv /\ [Next]_vars => SoundInv'
  BY SoundNext
<1>3. QED
  BY SoundInit, <1>1, <1>2, PTL DEF Spec

\* Under the same conditions nothing the reactor or a loop does by itself
\* raises: neither an expiration, nor catching up, nor any step of removeAll.
THEOREM UnattendedCorrect ==
    ASSUME Sound
    PROVE  Spec => UnattendedNeverRaises
<1>1. SoundInv /\ [Next]_vars =>
         [HoleExpired \/ CatchUp \/ ClearNext => error' = "none"]_vars
  <2> SUFFICES ASSUME SoundInv, [Next]_vars,
                      HoleExpired \/ CatchUp \/ ClearNext
               PROVE  error' = "none"
    OBVIOUS
  <2>1. TypeOK'
    BY NextTypeOK DEF SoundInv
  <2>2. QED
    BY <2>1, SoundClearNext, SoundHoleExpired, SoundCatchUp
<1>2. SoundInv /\ [Next]_vars => SoundInv'
  BY SoundNext
<1>3. QED
  BY SoundInit, <1>1, <1>2, PTL DEF Spec, UnattendedNeverRaises

\* Between the handlers the reactor waits for the end of the first hole, no
\* earlier and no later, and for nothing when there is none.
THEOREM WatchCorrect ==
    ASSUME Sound
    PROVE  Spec => []TimerWatchesHead
<1>1. SoundInv => TimerWatchesHead
  BY DEF SoundInv
<1>2. SoundInv /\ [Next]_vars => SoundInv'
  BY SoundNext
<1>3. QED
  BY SoundInit, <1>1, <1>2, PTL DEF Spec

-----------------------------------------------------------------------------
(* Who loses access, and when: the bookkeeping implements the leases.      *)

\* What the loops and the timer do by themselves is to take one registered
\* client out, which is overdue unless removeAll is at work.
LEMMA SoundUnattended ==
    ASSUME SoundInv, Sound, TypeOK', HoleExpired \/ CatchUp \/ ClearNext
    PROVE  \E c \in Clients :
              /\ Has(c) /\ Removed(c)
              /\ clearing # <<>> \/ holes[c].deadline <= now
<1>1. error' = "none"
  BY SoundClearNext, SoundHoleExpired, SoundCatchUp
<1>2. \A c : ~RemoveRaises(c)
  BY <1>1 DEF RemoveRaises, Raise
<1>3. CASE ClearNext
  <2>1. Head(clearing) \in Entry /\ clearing # <<>>
    BY <1>3, HeadTailProperties DEF ClearNext, SoundInv, TypeOK
  <2>2. Head(clearing).client \in Clients /\ Removed(Head(clearing).client)
    BY <1>2, <1>3, <2>1 DEF ClearNext, RemoveCall, Entry
  <2>3. QED
    BY <2>1, <2>2 DEF Removed
<1>4. CASE HoleExpired
  <2>1. ~resched /\ timer # None /\ timer <= now
    BY <1>4 DEF HoleExpired, Idle
  <2>2. queue # <<>> /\ timer = queue[1].deadline
    BY <2>1 DEF SoundInv, TimerWatchesHead
  <2>3. Removed(queue[1].client)
    BY <1>2, <1>4, <2>2 DEF HoleExpired, RemoveCall
  <2>4. QED
    BY <2>1, <2>2, <2>3, SoundHead
<1>5. CASE CatchUp
  <2>1. queue # <<>> /\ Overdue(queue[1]) /\ Removed(queue[1].client)
    BY <1>2, <1>5 DEF CatchUp
  <2>2. now \in Nat
    BY DEF SoundInv, TypeOK
  <2>3. QED
    BY <2>1, <2>2, SoundHead DEF Overdue, TimeLeft
<1>6. QED
  BY <1>3, <1>4, <1>5

\* remove() takes out the client it is asked for, or raises and changes none
\* of what a lease depends on.
LEMMA SoundRemoveHole ==
    ASSUME SoundInv, Sound, NEW c \in Clients, RemoveHole(c)
    PROVE  \/ Has(c) /\ Removed(c)
           \/ UNCHANGED <<now, holes, fw>>
<1>1. RemoveCall(c, timer, <<>>)
  BY DEF RemoveHole
<1>2. CASE Has(c)
  BY <1>1, <1>2, SoundNeverRaises DEF RemoveCall
<1>3. CASE ~Has(c)
  BY <1>1, <1>3 DEF RemoveCall, Removed, RemoveRaises
<1>4. QED
  BY <1>2, <1>3

\* In every step a client is let in, or one is removed, or nobody's access
\* changes.
LEMMA SoundSteps ==
    ASSUME SoundInv, Sound, [Next]_vars
    PROVE  \/ Tick
           \/ \E c \in Clients, d \in Durations : Add(c, d)
           \/ \E c \in Clients :
                 /\ Has(c) /\ Removed(c)
                 /\ \/ RemoveHole(c)
                    \/ clearing # <<>>
                    \/ holes[c].deadline <= now
           \/ UNCHANGED <<now, holes, fw>>
<1>1. TypeOK'
  BY NextTypeOK DEF SoundInv
<1>2. ASSUME NEW c \in Clients, NEW d \in Durations, AddRaises(c, d)
      PROVE  FALSE
  BY <1>2 DEF AddRaises, Sound
<1>3. (\E c \in Clients : AddDuplicate(c)) \/ RemoveAll \/ Reschedule \/ UNCHANGED vars
         => UNCHANGED <<now, holes, fw>>
  BY DEF AddDuplicate, RemoveAll, Reschedule, vars
<1>4. HoleExpired \/ CatchUp \/ ClearNext =>
         \E c \in Clients :
            /\ Has(c) /\ Removed(c)
            /\ clearing # <<>> \/ holes[c].deadline <= now
  BY <1>1, SoundUnattended
<1>5. QED
  BY <1>2, <1>3, <1>4, SoundRemoveHole DEF Next

\* Nobody is cut off by another client's expiration or removal, however the
\* timer, the catching up and removeAll follow each other.
THEOREM NeverEarlyCorrect ==
    ASSUME Sound
    PROVE  Spec => NeverEarly
<1>1. ASSUME SoundInv, [Next]_vars, NEW c \in Clients,
             fw[c] > 0, fw'[c] = 0
      PROVE  \/ RemoveHole(c)
             \/ clearing # <<>>
             \/ Has(c) /\ holes[c].deadline <= now
  <2>1. fw \in [Clients -> Nat]
    BY <1>1 DEF SoundInv, TypeOK
  <2>2. CASE Tick \/ UNCHANGED <<now, holes, fw>>
    BY <1>1, <2>1, <2>2 DEF Tick
  <2>3. ASSUME NEW b \in Clients, NEW d \in Durations, Add(b, d)
        PROVE  FALSE
    <3>1. fw' = [fw EXCEPT ![b] = @ + 1]
      BY <2>3 DEF Add
    <3>2. QED
      BY <1>1, <2>1, <3>1
  <2>4. ASSUME NEW b \in Clients, Has(b), Removed(b)
        PROVE  b = c
    <3>1. fw' = [fw EXCEPT ![b] = @ - 1]
      BY <2>4 DEF Removed
    <3>2. QED
      BY <1>1, <2>1, <3>1
  <2>5. QED
    BY <1>1, <2>2, <2>3, <2>4, SoundSteps
<1>2. SoundInv /\ [Next]_vars =>
         [\A c \in Clients :
             fw[c] > 0 /\ fw'[c] = 0 =>
                 \/ RemoveHole(c)
                 \/ clearing # <<>>
                 \/ Has(c) /\ holes[c].deadline <= now]_vars
  BY <1>1
<1>3. SoundInv /\ [Next]_vars => SoundInv'
  BY SoundNext
<1>4. QED
  BY SoundInit, <1>2, <1>3, PTL DEF Spec, NeverEarly

LEMMA LeaseInit == Init => Lease!Init
  BY DEF Init, Lease!Init

LEMMA LeaseNext ==
    ASSUME SoundInv, Sound, [Next]_vars
    PROVE  [Lease!Next]_(Lease!vars)
<1> DEFINE lease == [c \in Clients |-> IF fw[c] > 0 THEN holes[c].deadline ELSE None]
<1>1. /\ holes \in [Clients -> Entry \cup {None}] /\ fw \in [Clients -> Nat]
      /\ now \in Nat /\ None \notin Nat
      /\ \A c \in Clients : fw[c] = IF Has(c) THEN 1 ELSE 0
  BY NoneAssumption DEF SoundInv, TypeOK, BooksAgree
<1>2. CASE Tick
  BY <1>2 DEF Tick, Lease!Tick, Lease!Next
<1>3. CASE UNCHANGED <<now, holes, fw>>
  BY <1>3 DEF Lease!vars
<1>4. ASSUME NEW c \in Clients, NEW d \in Durations, Add(c, d)
      PROVE  Lease!Grant(c)
  <2> DEFINE e == NewEntry(c, d)
  <2>1. e.deadline \in Nat /\ e.deadline > now
    BY NewEntryType DEF SoundInv, Entry
  <2>2. /\ ~Has(c) /\ now' = now
        /\ holes' = [holes EXCEPT ![c] = e]
        /\ fw' = [fw EXCEPT ![c] = @ + 1]
    BY <1>4 DEF Add
  <2> HIDE DEF e
  <2>3. lease[c] = None
    BY <1>1, <2>2
  <2>4. lease' = [lease EXCEPT ![c] = e.deadline]
    <3>1. \A b \in Clients : lease'[b] = IF b = c THEN e.deadline ELSE lease[b]
      <4> SUFFICES ASSUME NEW b \in Clients
                   PROVE  (IF fw'[b] > 0 THEN holes'[b].deadline ELSE None)
                             = IF b = c THEN e.deadline
                               ELSE IF fw[b] > 0 THEN holes[b].deadline ELSE None
        OBVIOUS
      <4>1. CASE b = c
        BY <1>1, <2>2, <4>1 DEF Has
      <4>2. CASE b # c
        BY <1>1, <2>2, <4>2
      <4>3. QED
        BY <4>1, <4>2
    <3>2. /\ lease' = [b \in Clients |-> lease'[b]]
          /\ DOMAIN lease = Clients
      OBVIOUS
    <3> HIDE DEF lease
    <3>3. QED
      BY <3>1, <3>2
  <2>5. lease'[c] = e.deadline
    BY <2>4
  <2>6. QED
    BY <2>1, <2>2, <2>3, <2>4, <2>5 DEF Lease!Grant
<1>5. ASSUME NEW c \in Clients, Has(c), Removed(c)
      PROVE  Lease!Revoke(c)
  <2>1. /\ now' = now
        /\ holes' = [holes EXCEPT ![c] = None]
        /\ fw' = [fw EXCEPT ![c] = @ - 1]
        /\ fw[c] = 1
    BY <1>1, <1>5 DEF Removed, Pop
  <2>2. holes[c] \in Entry
    BY <1>1, <1>5 DEF Has
  <2>3. lease[c] # None
    BY <1>1, <2>1, <2>2 DEF Entry
  <2>4. lease' = [lease EXCEPT ![c] = None]
    <3>1. \A b \in Clients : lease'[b] = IF b = c THEN None ELSE lease[b]
      <4> SUFFICES ASSUME NEW b \in Clients
                   PROVE  (IF fw'[b] > 0 THEN holes'[b].deadline ELSE None)
                             = IF b = c THEN None
                               ELSE IF fw[b] > 0 THEN holes[b].deadline ELSE None
        OBVIOUS
      <4>1. CASE b = c
        BY <1>1, <2>1, <4>1 DEF Has
      <4>2. CASE b # c
        BY <1>1, <2>1, <4>2
      <4>3. QED
        BY <4>1, <4>2
    <3>2. /\ lease' = [b \in Clients |-> lease'[b]]
          /\ DOMAIN lease = Clients
      OBVIOUS
    <3> HIDE DEF lease
    <3>3. QED
      BY <3>1, <3>2
  <2>5. QED
    BY <2>1, <2>3, <2>4 DEF Lease!Revoke
<1>6. QED
  BY <1>2, <1>3, <1>4, <1>5, SoundSteps DEF Lease!Next

\* The bookkeeping implements the leases, as far as safety goes: every step
\* grants one client a lease that ends later than now, ends one, or changes
\* none.
THEOREM LeasesImplemented ==
    ASSUME Sound
    PROVE  Spec => Lease!Spec
<1>1. SoundInv /\ [Next]_vars => SoundInv' /\ [Lease!Next]_(Lease!vars)
  BY SoundNext, LeaseNext
<1>2. QED
  BY SoundInit, LeaseInit, <1>1, PTL DEF Spec, Lease!Spec

-----------------------------------------------------------------------------
(* When the system firewall may fail, the books no longer agree; what is   *)
(* left, while no two holes end together, is that queued entries are the   *)
(* registered ones and that removeAll's copy is the list.                  *)

FailingInv ==
    /\ TypeOK
    /\ StrictlySorted
    /\ QueuedAreRegistered
    /\ ClearingIsQueue

\* A removal takes one entry out of the list, its own if it is queued.
LEMMA FailingDequeue ==
    ASSUME FailingInv, NEW c \in Clients, Has(c), Dequeue(holes[c]), Pop(c)
    PROVE  \E k \in 1..Len(queue) :
              /\ queue' \in Seq(Entry)
              /\ Len(queue') = Len(queue) - 1
              /\ \A i \in 1..(k - 1) : queue'[i] = queue[i]
              /\ \A i \in k..(Len(queue) - 1) : queue'[i] = queue[i + 1]
              /\ \A j \in 1..Len(queue) : queue[j].client = c => j = k
<1>1. PICK k \in Equal(holes[c]) : queue' = RemoveAt(queue, k)
  BY DEF Dequeue
<1>2. k \in 1..Len(queue) /\ TypeOK /\ queue \in Seq(Entry)
  BY <1>1 DEF Equal, FailingInv, TypeOK
<1>3. ASSUME NEW j \in 1..Len(queue), queue[j].client = c
      PROVE  j = k
  <2>1. queue[j] = holes[c]
    BY <1>3 DEF FailingInv, QueuedAreRegistered
  <2>2. Len(queue) \in Nat /\ queue[k].deadline \in Nat /\ queue[j].deadline \in Nat
    BY <1>2, QueueEntries
  <2>3. now \in Nat /\ queue[k].deadline - now = queue[j].deadline - now
    BY <1>1, <1>2, <2>1 DEF Equal, TimeLeft, TypeOK
  <2>4. queue[k].deadline = queue[j].deadline
    BY <2>2, <2>3
  <2>5. k < j => queue[k].deadline < queue[j].deadline
    BY <1>2 DEF FailingInv, StrictlySorted
  <2>6. j < k => queue[j].deadline < queue[k].deadline
    BY <1>2 DEF FailingInv, StrictlySorted
  <2>7. QED
    BY <1>2, <2>2, <2>4, <2>5, <2>6
<1>4. /\ queue' \in Seq(Entry)
      /\ Len(queue') = Len(queue) - 1
      /\ \A i \in 1..(k - 1) : queue'[i] = queue[i]
      /\ \A i \in k..(Len(queue) - 1) : queue'[i] = queue[i + 1]
  BY <1>1, <1>2, RemoveAtProperties
<1>5. QED
  BY <1>2, <1>3, <1>4

LEMMA FailingDequeued ==
    ASSUME FailingInv, NEW c \in Clients, Has(c), Dequeue(holes[c]), Pop(c)
    PROVE  /\ StrictlySorted'
           /\ QueuedAreRegistered'
<1>1. PICK k \in 1..Len(queue) :
         /\ queue' \in Seq(Entry)
         /\ Len(queue') = Len(queue) - 1
         /\ \A i \in 1..(k - 1) : queue'[i] = queue[i]
         /\ \A i \in k..(Len(queue) - 1) : queue'[i] = queue[i + 1]
         /\ \A j \in 1..Len(queue) : queue[j].client = c => j = k
  BY FailingDequeue
<1>2. TypeOK /\ Len(queue) \in Nat
  BY QueueEntries DEF FailingInv
<1> DEFINE old(i) == IF i < k THEN i ELSE i + 1
<1>3. \A i \in 1..Len(queue') :
         old(i) \in 1..Len(queue) /\ old(i) # k /\ queue'[i] = queue[old(i)]
  BY <1>1, <1>2
<1>4. \A i, j \in 1..Len(queue') : i < j => old(i) < old(j)
  BY <1>1, <1>2
<1> HIDE DEF old
<1>5. StrictlySorted'
  BY <1>3, <1>4 DEF FailingInv, StrictlySorted
<1>6. \A d \in Clients : holes'[d] = IF d = c THEN None ELSE holes[d]
  BY <1>2 DEF Pop, TypeOK
<1>7. QueuedAreRegistered'
  <2> SUFFICES ASSUME NEW i \in 1..Len(queue')
               PROVE  /\ holes'[queue'[i].client] # None
                      /\ holes'[queue'[i].client] = queue'[i]
    BY DEF QueuedAreRegistered, Has
  <2>1. /\ old(i) \in 1..Len(queue) /\ queue'[i] = queue[old(i)]
        /\ queue[old(i)].client # c
    BY <1>1, <1>3
  <2>2. queue[old(i)].client \in Clients
    BY <1>2, <2>1, QueueEntries
  <2>3. /\ holes[queue[old(i)].client] = queue[old(i)]
        /\ holes[queue[old(i)].client] # None
    BY <2>1 DEF FailingInv, QueuedAreRegistered, Has
  <2>4. QED
    BY <1>6, <2>1, <2>2, <2>3
<1>8. QED
  BY <1>5, <1>7

\* However a removal ends, the list is in order and registered.
LEMMA FailingRemoved ==
    ASSUME FailingInv, NEW c \in Clients, Removed(c) \/ RemoveRaises(c)
    PROVE  StrictlySorted' /\ QueuedAreRegistered'
<1>1. CASE UNCHANGED <<holes, queue>>
  BY <1>1 DEF FailingInv, StrictlySorted, QueuedAreRegistered, Has
<1>2. CASE Has(c) /\ ~Queued(holes[c]) /\ Pop(c) /\ UNCHANGED queue
  <2>1. StrictlySorted'
    BY <1>2 DEF FailingInv, StrictlySorted
  <2>2. \A i \in 1..Len(queue) : queue[i].client # c
    BY <1>2 DEF FailingInv, QueuedAreRegistered, Queued
  <2>3. \A i \in 1..Len(queue) : queue[i].client \in Clients
    BY QueueEntries DEF FailingInv
  <2>4. \A d \in Clients : d # c => holes'[d] = holes[d]
    BY <1>2 DEF Pop, FailingInv, TypeOK
  <2>5. QueuedAreRegistered'
    BY <1>2, <2>2, <2>3, <2>4 DEF FailingInv, QueuedAreRegistered, Has
  <2>6. QED
    BY <2>1, <2>5
<1>3. CASE Has(c) /\ Dequeue(holes[c]) /\ Pop(c)
  BY <1>3, FailingDequeued
<1>4. QED
  BY <1>1, <1>2, <1>3 DEF Removed, RemoveRaises

\* Of an entry in the list a removal only raises what the firewall raises.
LEMMA FailingRaises ==
    ASSUME FailingInv, NEW i \in 1..Len(queue), NEW c, c = queue[i].client,
           Removed(c) \/ RemoveRaises(c)
    PROVE  error' \in {"none", "FirewallError"}
<1>1. Has(c) /\ Queued(holes[c])
  BY DEF FailingInv, QueuedAreRegistered, Queued
<1>2. QED
  BY <1>1 DEF Removed, RemoveRaises, Raise

\* The copy's next entry is the last of the list.
LEMMA FailingLast ==
    ASSUME FailingInv, clearing # <<>>
    PROVE  /\ Len(queue) \in 1..Len(queue)
           /\ Head(clearing) = queue[Len(queue)]
<1>1. /\ clearing \in Seq(Entry) /\ queue \in Seq(Entry) /\ Len(queue) \in Nat
      /\ Len(clearing) = Len(queue)
      /\ \A i \in 1..Len(queue) : clearing[i] = queue[Len(queue) + 1 - i]
  BY DEF FailingInv, TypeOK, ClearingIsQueue
<1>2. Head(clearing) = clearing[1]
  BY <1>1, HeadTailProperties
<1>3. 1 \in 1..Len(queue) /\ Len(queue) + 1 - 1 = Len(queue)
  BY <1>1
<1>4. clearing[1] = queue[Len(queue) + 1 - 1]
  BY <1>1, <1>3
<1>5. QED
  BY <1>2, <1>3, <1>4

LEMMA FailingClearNext ==
    ASSUME FailingInv, TypeOK', ClearNext
    PROVE  FailingInv' /\ error' \in {"none", "FirewallError"}
<1> DEFINE n == Len(queue)
           c == Head(clearing).client
<1>1. /\ clearing \in Seq(Entry) /\ clearing # <<>> /\ ~resched
      /\ queue \in Seq(Entry) /\ n \in Nat
      /\ Len(clearing) = n
      /\ \A i \in 1..n : clearing[i] = queue[n + 1 - i]
  BY DEF ClearNext, FailingInv, TypeOK, ClearingIsQueue
<1>2. /\ Len(Tail(clearing)) = Len(clearing) - 1
      /\ \A i \in 1..Len(Tail(clearing)) : Tail(clearing)[i] = clearing[i + 1]
  BY <1>1, HeadTailProperties
<1>3. n \in 1..n /\ c = queue[n].client
  BY <1>1, FailingLast
<1>4. c \in Clients /\ Has(c) /\ holes[c] = queue[n]
  BY <1>3, QueueEntries DEF FailingInv, QueuedAreRegistered
<1>5. RemoveCall(c, timer, Tail(clearing))
  BY DEF ClearNext
<1> HIDE DEF c, n
<1>6. Removed(c) \/ RemoveRaises(c)
  BY <1>5 DEF RemoveCall
<1>7. StrictlySorted' /\ QueuedAreRegistered'
  BY <1>4, <1>6, FailingRemoved
<1>8. error' \in {"none", "FirewallError"}
  BY <1>3, <1>6, FailingRaises DEF n
<1>9. ClearingIsQueue'
  <2>1. CASE RemoveRaises(c)
    <3>1. clearing' = <<>>
      BY <2>1, RaisesEndsLoops
    <3>2. QED
      BY <3>1 DEF ClearingIsQueue
  <2>2. CASE ~RemoveRaises(c)
    <3>1. /\ Removed(c) /\ resched' = NeedResched(c)
          /\ clearing' = Tail(clearing)
      BY <1>5, <2>2 DEF RemoveCall
    <3>2. Dequeue(holes[c]) /\ Pop(c)
      BY <3>1 DEF Removed
    <3>3. PICK k \in 1..n :
             /\ Len(queue') = n - 1
             /\ \A i \in 1..(k - 1) : queue'[i] = queue[i]
             /\ \A j \in 1..n : queue[j].client = c => j = k
      BY <1>4, <3>2, FailingDequeue DEF n
    <3>4. k = n
      BY <1>3, <3>3
    <3>5. Len(clearing') = Len(queue')
      BY <1>1, <1>2, <3>1, <3>3
    <3>6. ASSUME NEW i \in 1..Len(queue')
          PROVE  clearing'[i] = queue'[Len(queue') + 1 - i]
      <4>1. i \in 1..(n - 1) /\ i \in 1..Len(Tail(clearing))
        BY <1>1, <1>2, <3>3
      <4>2. clearing'[i] = clearing[i + 1]
        BY <1>2, <3>1, <4>1
      <4>3. i + 1 \in 1..n /\ n + 1 - (i + 1) = n - i
        BY <1>1, <4>1
      <4>4. clearing[i + 1] = queue[n - i]
        BY <1>1, <4>3
      <4>5. Len(queue') + 1 - i = n - i /\ n - i \in 1..(n - 1)
        BY <1>1, <3>3, <4>1
      <4>6. queue'[n - i] = queue[n - i]
        BY <3>3, <3>4, <4>5
      <4>7. QED
        BY <4>2, <4>4, <4>5, <4>6
    <3>7. ASSUME clearing' # <<>>
          PROVE  ~resched'
      <4>1. n > 1
        BY <1>1, <1>2, <3>1, <3>3, <3>5, <3>7 DEF TypeOK
      <4>2. 1 \in 1..n
        BY <1>1, <4>1
      <4>3. queue[1].client # c
        BY <1>3, <3>3, <3>4, <4>1, <4>2
      <4>4. queue[1] # holes[c]
        BY <1>3, <1>4, <4>3
      <4>5. QED
        BY <3>1, <4>4 DEF NeedResched
    <3>8. QED
      BY <3>5, <3>6, <3>7 DEF ClearingIsQueue
  <2>3. QED
    BY <2>1, <2>2
<1>10. QED
  BY <1>7, <1>8, <1>9 DEF FailingInv

LEMMA FailingCatchUp ==
    ASSUME FailingInv, TypeOK', CatchUp
    PROVE  FailingInv' /\ error' \in {"none", "FirewallError"}
<1> DEFINE c == queue[1].client
<1>1. /\ resched /\ queue # <<>>
      /\ \/ Removed(c) /\ UNCHANGED <<resched, clearing>>
         \/ RemoveRaises(c)
  BY DEF CatchUp
<1>2. TypeOK /\ 1 \in 1..Len(queue)
  BY <1>1 DEF FailingInv, TypeOK
<1>3. c \in Clients
  BY <1>2, QueueEntries
<1> HIDE DEF c
<1>4. StrictlySorted' /\ QueuedAreRegistered'
  BY <1>1, <1>3, FailingRemoved
<1>5. error' \in {"none", "FirewallError"}
  BY <1>1, <1>2, FailingRaises DEF c
<1>6. clearing = <<>>
  BY <1>1 DEF FailingInv, ClearingIsQueue
<1>7. clearing' = <<>>
  BY <1>1, <1>6, RaisesEndsLoops
<1>8. ClearingIsQueue'
  BY <1>7 DEF ClearingIsQueue
<1>9. QED
  BY <1>4, <1>5, <1>8 DEF FailingInv

\* A remove that is not removeAll's.
LEMMA FailingRemoveCall ==
    ASSUME FailingInv, TypeOK', NEW c \in Clients, NEW t, RemoveCall(c, t, <<>>)
    PROVE  FailingInv'
<1>1. StrictlySorted' /\ QueuedAreRegistered'
  BY FailingRemoved DEF RemoveCall
<1>2. clearing' = <<>>
  BY RaisesEndsLoops DEF RemoveCall
<1>3. QED
  BY <1>1, <1>2 DEF FailingInv, ClearingIsQueue

\* A hole that is not registered is put in its place in the list.
LEMMA FailingAdd ==
    ASSUME FailingInv, ~Ties, TypeOK',
           NEW c \in Clients, NEW d \in Durations, Add(c, d)
    PROVE  FailingInv'
<1> DEFINE e == NewEntry(c, d)
<1>1. e \in Entry /\ e.client = c /\ e.deadline \in Nat /\ e # None
  <2>1. e \in Entry /\ e.client = c
    BY NewEntryType DEF FailingInv
  <2>2. QED
    BY <2>1, NoneAssumption DEF Entry
<1>2. /\ ~Has(c) /\ clearing' = <<>>
      /\ \A i \in 1..Len(queue) : queue[i].deadline # e.deadline
      /\ holes' = [holes EXCEPT ![c] = e]
  BY DEF Add, Idle
<1>3. PICK p \in Slots(e) : queue' = InsertAt(queue, p, e)
  BY DEF Add
<1> HIDE DEF e
<1>4. TypeOK /\ StrictlySorted /\ QueuedAreRegistered
  BY DEF FailingInv
<1>5. /\ p \in 1..(Len(queue) + 1) /\ Len(queue) \in Nat /\ queue \in Seq(Entry)
      /\ queue' \in Seq(Entry)
      /\ Len(queue') = Len(queue) + 1
      /\ queue'[p] = e
  <2>1. queue \in Seq(Entry) /\ p \in 1..(Len(queue) + 1) /\ Len(queue) \in Nat
    BY <1>3, <1>4, QueueEntries DEF Slots
  <2>2. QED
    BY <1>1, <1>3, <2>1, InsertAtProperties
<1>6. /\ \A i \in 1..(p - 1) : queue'[i] = queue[i]
      /\ \A i \in p..Len(queue) : queue'[i + 1] = queue[i]
  <2>1. \A i \in 1..(p - 1) : InsertAt(queue, p, e)[i] = queue[i]
    BY <1>1, <1>5, InsertAtProperties
  <2>2. \A i \in p..Len(queue) : InsertAt(queue, p, e)[i + 1] = queue[i]
    BY <1>1, <1>5, InsertAtProperties
  <2>3. QED
    BY <1>3, <2>1, <2>2
<1> DEFINE old(i) == IF i < p THEN i ELSE i - 1
<1>7. ASSUME NEW i \in 1..Len(queue'), i # p
      PROVE  old(i) \in 1..Len(queue) /\ queue'[i] = queue[old(i)]
  <2>1. CASE i < p
    BY <1>5, <1>6, <2>1
  <2>2. CASE i > p
    <3>1. i - 1 \in p..Len(queue) /\ i - 1 \in 1..Len(queue) /\ (i - 1) + 1 = i
      BY <1>5, <2>2
    <3>2. queue'[(i - 1) + 1] = queue[i - 1]
      BY <1>6, <3>1
    <3>3. QED
      BY <1>5, <2>2, <3>1, <3>2
  <2>3. QED
    BY <1>5, <1>7, <2>1, <2>2
<1>8. \A i \in 1..Len(queue) :
         queue[i].client \in Clients /\ queue[i].client # c
  BY <1>2, <1>4, QueueEntries DEF QueuedAreRegistered
<1>9. \A b \in Clients : holes'[b] = IF b = c THEN e ELSE holes[b]
  BY <1>2, <1>4 DEF TypeOK
<1>10. StrictlySorted'
  <2>1. Sorted'
    <3>1. \A i \in 1..Len(queue) : queue[i].deadline \in Nat
      BY <1>4, QueueEntries
    <3>2. Sorted
      BY <1>4, <3>1 DEF StrictlySorted, Sorted
    <3>3. QED
      BY <1>1, <1>3, <1>4, <3>2, EnqueueSorted
  <2>2. \A i \in 1..Len(queue') : i # p => queue'[i].deadline # queue'[p].deadline
    BY <1>2, <1>5, <1>7
  <2>3. \A i, j \in 1..Len(queue') :
           i # p /\ j # p /\ i < j => old(i) < old(j)
    BY <1>5
  <2>4. \A i \in 1..Len(queue') : queue'[i] \in Entry
    BY <1>5
  <2>5. \A i \in 1..Len(queue') : queue'[i].deadline \in Nat
    BY <2>4 DEF Entry
  <2> SUFFICES ASSUME NEW i \in 1..Len(queue'), NEW j \in 1..Len(queue'), i < j
               PROVE  queue'[i].deadline < queue'[j].deadline
    BY DEF StrictlySorted
  <2>6. CASE i = p \/ j = p
    <3>1. queue'[i].deadline <= queue'[j].deadline
      BY <2>1 DEF Sorted
    <3>2. queue'[i].deadline # queue'[j].deadline
      BY <1>5, <2>2, <2>6
    <3>3. QED
      BY <2>5, <3>1, <3>2
  <2>7. CASE i # p /\ j # p
    <3>1. /\ old(i) \in 1..Len(queue) /\ queue'[i] = queue[old(i)]
          /\ old(j) \in 1..Len(queue) /\ queue'[j] = queue[old(j)]
          /\ old(i) < old(j)
      BY <1>7, <2>3, <2>7
    <3> HIDE DEF old
    <3>2. QED
      BY <1>4, <3>1 DEF StrictlySorted
  <2>8. QED
    BY <2>6, <2>7
<1> HIDE DEF old
<1>11. QueuedAreRegistered'
  <2> SUFFICES ASSUME NEW i \in 1..Len(queue')
               PROVE  /\ holes'[queue'[i].client] # None
                      /\ holes'[queue'[i].client] = queue'[i]
    BY DEF QueuedAreRegistered, Has
  <2>1. CASE i = p
    BY <1>1, <1>5, <1>9, <2>1
  <2>2. CASE i # p
    <3>1. old(i) \in 1..Len(queue) /\ queue'[i] = queue[old(i)]
      BY <1>7, <2>2
    <3>2. QED
      BY <1>4, <1>8, <1>9, <3>1 DEF QueuedAreRegistered, Has
  <2>3. QED
    BY <2>1, <2>2
<1>12. QED
  BY <1>2, <1>10, <1>11 DEF FailingInv, ClearingIsQueue

LEMMA FailingNext ==
    ASSUME FailingInv, ~Ties, [Next]_vars
    PROVE  FailingInv'
<1>1. TypeOK'
  BY NextTypeOK DEF FailingInv
<1>2. ASSUME NEW c \in Clients, NEW d \in Durations, Add(c, d)
      PROVE  FailingInv'
  BY <1>1, <1>2, FailingAdd
<1>3. CASE UNCHANGED <<holes, queue, resched, clearing>>
  BY <1>1, <1>3 DEF FailingInv, StrictlySorted, QueuedAreRegistered, Has,
     ClearingIsQueue
<1>4. ASSUME NEW c \in Clients, NEW d \in Durations, AddRaises(c, d)
      PROVE  FailingInv'
  <2>1. /\ ~Has(c) /\ holes' = [holes EXCEPT ![c] = NewEntry(c, d)]
        /\ UNCHANGED <<queue, resched, clearing>>
    BY <1>4 DEF AddRaises
  <2>2. \A i \in 1..Len(queue) :
           queue[i].client \in Clients /\ queue[i].client # c
    BY <2>1, QueueEntries DEF FailingInv, QueuedAreRegistered
  <2>3. \A b \in Clients : b # c => holes'[b] = holes[b]
    BY <2>1 DEF FailingInv, TypeOK
  <2>4. QueuedAreRegistered'
    BY <2>1, <2>2, <2>3 DEF FailingInv, QueuedAreRegistered, Has
  <2>5. QED
    BY <1>1, <2>1, <2>4 DEF FailingInv, StrictlySorted, ClearingIsQueue
<1>5. ASSUME NEW c \in Clients, RemoveHole(c)
      PROVE  FailingInv'
  BY <1>1, <1>5, FailingRemoveCall DEF RemoveHole
<1>6. CASE HoleExpired
  <2>1. CASE queue = <<>>
    <3>1. UNCHANGED <<holes, queue>> /\ clearing' = <<>>
      BY <1>6, <2>1 DEF HoleExpired, Raise
    <3>2. QED
      BY <1>1, <3>1 DEF FailingInv, StrictlySorted, QueuedAreRegistered, Has,
         ClearingIsQueue
  <2>2. CASE queue # <<>>
    <3>1. queue[1].client \in Clients
      BY <2>2, QueueEntries DEF FailingInv, TypeOK
    <3>2. QED
      BY <1>1, <1>6, <2>2, <3>1, FailingRemoveCall DEF HoleExpired
  <2>3. QED
    BY <2>1, <2>2
<1>7. CASE Reschedule
  <2>1. UNCHANGED <<holes, queue, clearing>> /\ resched' = FALSE
    BY <1>7 DEF Reschedule
  <2>2. QED
    BY <1>1, <2>1 DEF FailingInv, StrictlySorted, QueuedAreRegistered, Has,
       ClearingIsQueue
<1>8. CASE RemoveAll
  <2>1. /\ clearing' = Reverse(queue) /\ ~resched
        /\ UNCHANGED <<holes, queue, resched>>
    BY <1>8 DEF RemoveAll, Idle
  <2>2. queue \in Seq(Entry) /\ Len(queue) \in Nat
    BY DEF FailingInv, TypeOK
  <2>3. /\ Len(clearing') = Len(queue)
        /\ \A i \in 1..Len(queue) : clearing'[i] = queue[Len(queue) - i + 1]
    BY <2>1, <2>2, ReverseProperties
  <2>4. \A i \in 1..Len(queue) : Len(queue) - i + 1 = Len(queue) + 1 - i
    BY <2>2
  <2>5. ClearingIsQueue'
    BY <2>1, <2>3, <2>4 DEF ClearingIsQueue
  <2>6. QED
    BY <1>1, <2>1, <2>5 DEF FailingInv, StrictlySorted, QueuedAreRegistered, Has
<1>9. Tick \/ UNCHANGED vars => UNCHANGED <<holes, queue, resched, clearing>>
  BY DEF Tick, vars
<1>10. \A c \in Clients :
          AddDuplicate(c) => UNCHANGED <<holes, queue, resched, clearing>>
  BY DEF AddDuplicate
<1>11. QED
  BY <1>1, <1>2, <1>3, <1>4, <1>5, <1>6, <1>7, <1>8, <1>9, <1>10,
     FailingClearNext, FailingCatchUp DEF Next

\* While no two queued holes end together, whatever the firewall has done
\* before, removeAll and the catching up raise nothing of their own.
THEOREM StoppedCorrect ==
    ASSUME ~Ties
    PROVE  Spec => StoppedByFirewallOnly
<1>1. Init => FailingInv
  BY InitTypeOK DEF Init, FailingInv, StrictlySorted, QueuedAreRegistered,
     ClearingIsQueue
<1>2. FailingInv /\ [Next]_vars => FailingInv'
  BY FailingNext
<1>3. FailingInv /\ [Next]_vars =>
         [CatchUp \/ ClearNext => error' \in {"none", "FirewallError"}]_vars
  <2> SUFFICES ASSUME FailingInv, [Next]_vars, CatchUp \/ ClearNext
               PROVE  error' \in {"none", "FirewallError"}
    OBVIOUS
  <2>1. TypeOK'
    BY NextTypeOK DEF FailingInv
  <2>2. QED
    BY <2>1, FailingClearNext, FailingCatchUp
<1>4. QED
  BY <1>1, <1>2, <1>3, PTL DEF Spec, StoppedByFirewallOnly
=============================================================================
