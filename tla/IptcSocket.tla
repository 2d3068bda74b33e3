------------------------------ MODULE IptcSocket ------------------------------
(***************************************************************************)
(* How libiptc.c shares one raw socket among the handles of a process:     *)
(* TC_INIT opens it for the first handle and reads the table through it in *)
(* two system calls, TC_FREE closes it with the last handle.  Another      *)
(* process may change the size of the table between the two calls; the     *)
(* kernel then refuses the second and TC_INIT starts again.                *)
(***************************************************************************)
EXTENDS Integers, FiniteSets

CONSTANTS
    Tables,     \* pyipt.Table objects
    MaxChanges, \* bound on what other processes change
    Null

ASSUME SocketAssumption ==
    /\ IsFiniteSet(Tables)
    /\ Null \notin Tables
    /\ MaxChanges \in Nat

VARIABLES
    sockfd,     \* is the descriptor open?
    sockfd_use, \* its reference count
    live,       \* tables that have a handle
    initing,    \* the table TC_INIT is reading, or Null
    read,       \* the size SO_GET_INFO has told it, or Null
    size,       \* of the table in the kernel: counts the changes
    raced       \* history: has a table changed while it was read?

socketVars == <<sockfd, sockfd_use, live, initing, read, size, raced>>

SocketTypeOK ==
    /\ sockfd \in BOOLEAN
    /\ sockfd_use \in Int
    /\ live \subseteq Tables
    /\ initing \in Tables \cup {Null}
    /\ read \in Nat \cup {Null}
    /\ initing = Null => read = Null
    /\ size \in Nat
    /\ raced \in BOOLEAN

SocketInit ==
    /\ sockfd = FALSE
    /\ sockfd_use = 0
    /\ live = {}
    /\ initing = Null
    /\ read = Null
    /\ size = 0
    /\ raced = FALSE

\* Wrong: looks at the count before it is taken down.
GiveBackLeaking ==
    /\ sockfd_use' = sockfd_use - 1
    /\ sockfd' = (sockfd /\ sockfd_use # 0)

\* --sockfd_use, and the descriptor is closed with the last user.
GiveBack ==
    /\ sockfd_use' = sockfd_use - 1
    /\ sockfd' = (sockfd /\ sockfd_use # 1)

\* TC_INIT up to the label retry.  If socket() fails nothing happens.
InitHandle(t) ==
    /\ initing = Null
    /\ t \notin live
    /\ sockfd' = (sockfd \/ sockfd_use = 0)
    /\ sockfd_use' = sockfd_use + 1
    /\ initing' = t
    /\ UNCHANGED <<live, read, size, raced>>

GetInfo ==
    /\ initing # Null
    /\ read = Null
    /\ sockfd
    /\ read' = size
    /\ UNCHANGED <<sockfd, sockfd_use, live, initing, size, raced>>

\* Wrong: returns without giving the socket back.
GetInfoFailsKeeping ==
    /\ initing # Null
    /\ read = Null
    /\ initing' = Null
    /\ UNCHANGED <<sockfd, sockfd_use, live, read, size, raced>>

\* The table does not exist, the process may not read it, there is no
\* memory for the handle, the socket is no longer open.
GetInfoFails ==
    /\ initing # Null
    /\ read = Null
    /\ GiveBack
    /\ initing' = Null
    /\ UNCHANGED <<live, read, size, raced>>

GetEntries ==
    /\ initing # Null
    /\ read = size
    /\ live' = live \cup {initing}
    /\ initing' = Null
    /\ read' = Null
    /\ UNCHANGED <<sockfd, sockfd_use, size, raced>>

\* EAGAIN: TC_FREE, then goto retry.
Retry ==
    /\ initing # Null
    /\ read # Null
    /\ read # size
    /\ GiveBack
    /\ read' = Null
    /\ UNCHANGED <<live, initing, size, raced>>

\* Wrong: the next TC_INIT takes what it has not read.
GetEntriesFailsKeeping ==
    /\ initing # Null
    /\ read # Null
    /\ GiveBack
    /\ initing' = Null
    /\ UNCHANGED <<live, read, size, raced>>

\* Any other error, in the system call or in parse_table.
GetEntriesFails ==
    /\ initing # Null
    /\ read # Null
    /\ GiveBack
    /\ initing' = Null
    /\ read' = Null
    /\ UNCHANGED <<live, size, raced>>

\* TC_FREE, after a commit or when the table object goes.
FreeHandle(t) ==
    /\ initing = Null
    /\ t \in live
    /\ GiveBack
    /\ live' = live \ {t}
    /\ UNCHANGED <<initing, read, size, raced>>

OtherProcess ==
    /\ size < MaxChanges
    /\ size' = size + 1
    /\ raced' = (raced \/ initing # Null)
    /\ UNCHANGED <<sockfd, sockfd_use, live, initing, read>>

SocketNext ==
    \/ \E t \in Tables : InitHandle(t) \/ FreeHandle(t)
    \/ GetInfo \/ GetInfoFails
    \/ GetEntries \/ GetEntriesFails \/ Retry
    \/ OtherProcess

SocketSpec == SocketInit /\ [][SocketNext]_socketVars

-----------------------------------------------------------------------------
(* Properties.                                                             *)

Users == Cardinality(live) + (IF initing = Null THEN 0 ELSE 1)

\* As long as no table was changed while it was read, the socket is open
\* exactly when somebody uses it, and the count is that of the handles, the
\* one being read included.
CountsUsers ==
    ~raced => sockfd_use = Users /\ (sockfd <=> Users > 0)

\* Even if one was, the descriptor is never leaked: an open socket has a
\* user, and is closed with the last one at the latest.
NeverLeaks == sockfd_use <= Users /\ (sockfd => sockfd_use > 0)

\* "A different process changed the ruleset size, retry" (TC_INIT): the
\* table is read again, which takes an open socket.
RetryHasSocket == initing # Null => sockfd
=============================================================================
