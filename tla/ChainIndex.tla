------------------------------ MODULE ChainIndex ------------------------------
(***************************************************************************)
(* How libiptc.c finds a chain by its name.  The user defined chains of a  *)
(* handle are a list sorted by name; an index points to every              *)
(* BUCKET_LEN-th of them, a binary search in the index says where to start *)
(* in the list.  The index is not rebuilt when chains are created or       *)
(* deleted, unless it has to be.                                           *)
(*                                                                         *)
(* A chain is an object of its own: its name may change.  Deleting the     *)
(* last chain can leave the head of the list in the index, as if it were   *)
(* a chain; what is read as its name is the handle's chain_iterator_cur,   *)
(* which lies behind the head in memory.                                   *)
(***************************************************************************)
EXTENDS Integers, Sequences, FiniteSets, FiniteSetsExt, SequencesExt

CONSTANTS
    Names,          \* of user defined chains, even numbers in strcmp's order
    Objects,        \* memory for chains
    Address,        \* how the address of an object compares with the names
    BUCKET_LEN,     \* CHAIN_INDEX_BUCKET_LEN
    INSERT_MAX,     \* CHAIN_INDEX_INSERT_MAX
    MaxDisturbances,\* bound on renamings and iterations
    ListHead,       \* the head of the list, taken for a chain
    BuiltIn,        \* any built-in chain but the first
    NULL

ASSUME IndexAssumption ==
    /\ Names \subseteq {n \in Nat : n > 0 /\ n % 2 = 0}
    /\ Names # {} /\ IsFiniteSet(Names) /\ IsFiniteSet(Objects)
    /\ Cardinality(Objects) > Cardinality(Names)
    /\ Address \in [Objects \cup {BuiltIn} -> Nat \ Names]
    /\ {ListHead, BuiltIn, NULL} \cap Objects = {}
    /\ BUCKET_LEN \in Nat \ {0}
    /\ INSERT_MAX \in Nat
    /\ MaxDisturbances \in Nat

VARIABLES
    chains,             \* the user defined part of the list of chains
    name,               \* chain_head.name
    index,              \* chain_index, counted from 1
    chain_iterator_cur, \* the chain TC_NEXT_CHAIN returns next, or NULL
    disturbances        \* history: renamings and iterations begun so far

vars == <<chains, name, index, chain_iterator_cur, disturbances>>

TypeOK ==
    /\ chains \in Seq(Objects)
    /\ name \in [Objects -> Names]
    /\ index \in Seq(Objects \cup {ListHead})
    /\ chain_iterator_cur \in Objects \cup {BuiltIn, NULL}
    /\ disturbances \in 0..MaxDisturbances

Listed == {chains[i] : i \in DOMAIN chains}
ListedNames == {name[c] : c \in Listed}

\* What is read as the name of the head while the iterator is at cur: NULL
\* is the empty name.
NameOf(c, cur) ==
    IF c # ListHead THEN name[c] ELSE IF cur = NULL THEN 0 ELSE Address[cur]

PositionOf(c) == CHOOSE i \in DOMAIN chains : chains[i] = c

\* iptcc_chain_index_alloc and iptcc_chain_index_build, for the list l.
Built(l) ==
    [k \in 1..((Len(l) + BUCKET_LEN - 1) \div BUCKET_LEN) |->
        l[(k - 1) * BUCKET_LEN + 1]]

\* What memory that is no chain holds: nobody reads it.
FreedName == CHOOSE n \in Names : TRUE

\* parse_table: iptc_insert_chain sorts what the kernel may have unsorted,
\* and leaves chain_iterator_cur at NULL.
Init ==
    \E n \in 0..Cardinality(Names), objects \in {SetToSeq(Objects)} :
        \E sorted \in [1..n -> Names] :
            /\ \A i, j \in 1..n : i < j => sorted[i] < sorted[j]
            /\ chains = SubSeq(objects, 1, n)
            /\ name = [c \in Objects |->
                  LET i == CHOOSE i \in DOMAIN objects : objects[i] = c IN
                  IF i <= n THEN sorted[i] ELSE FreedName]
        /\ index = Built(chains)
        /\ chain_iterator_cur = NULL
        /\ disturbances = 0

-----------------------------------------------------------------------------
(* Searching.                                                              *)

\* iptcc_bsearch_chain_index in a nonempty index, positions from 0 on.
Bsearch(key, cur) ==
    LET sz == Len(index)
        At(pos) == NameOf(index[pos + 1], cur)
        search[s \in (0..(sz - 1)) \X (0..sz)] ==
            LET pos == s[1]
                end == s[2]
            IN IF key = At(pos) THEN pos
               ELSE IF key < At(pos)
               THEN IF pos = 0 THEN pos ELSE search[<<pos \div 2, pos>>]
               ELSE IF pos = sz - 1 \/ key < At(pos + 1) THEN pos
               ELSE search[<<(pos + end) \div 2, end>>]
    IN search[<<sz \div 2, sz>>]

\* iptcc_linearly_search_chain_index: the last element not beyond the key,
\* or the first element.
LinearSearch(key) ==
    LET beyond == {pos \in 0..(Len(index) - 1) :
                      NameOf(index[pos + 1], chain_iterator_cur) > key}
        end == IF beyond = {} THEN Len(index) ELSE Min(beyond)
    IN IF end = 0 THEN 0 ELSE end - 1

Bucket(key) == Bsearch(key, chain_iterator_cur)

\* Where the search in the list starts: with no index or at the head of
\* the list, at the first chain.
StartPosition(key) ==
    IF index = <<>> \/ index[Bucket(key) + 1] = ListHead THEN 1
    ELSE PositionOf(index[Bucket(key) + 1])

\* iptcc_find_label, for the user defined chains: a set of at most one.
FindLabel(key) ==
    LET start == StartPosition(key)
        reached == {i \in DOMAIN chains : i >= start /\ name[chains[i]] >= key}
    IN {chains[i] : i \in {j \in reached : j = Min(reached) /\ name[chains[j]] = key}}

\* A search may read memory that was freed: what it finds is undefined, and
\* the model stops there.
Dangles == \E k \in DOMAIN index : index[k] \notin Listed \cup {ListHead}

-----------------------------------------------------------------------------
(* Changing the list.                                                      *)

\* Wrong: only a chain that takes the place of an indexed one counts.
SmallerThanIndexEqual(key) ==
    index # <<>> /\ key = NameOf(index[1], chain_iterator_cur)

SmallerThanIndex(key) ==
    /\ index # <<>>
    /\ Bucket(key) = 0
    /\ key <= NameOf(index[1], chain_iterator_cur)

Exceeded(l, sz) == Len(l) - sz * BUCKET_LEN > INSERT_MAX

\* TC_CREATE_CHAIN: iptc_insert_chain, and the index if it is too small.
Create(key) ==
    LET c == CHOOSE o \in Objects : o \notin Listed
        start == IF SmallerThanIndex(key) THEN 1 ELSE StartPosition(key)
        later == {i \in DOMAIN chains : i >= start /\ key <= name[chains[i]]}
        pos == IF later = {} THEN Len(chains) + 1 ELSE Min(later)
        list == InsertAt(chains, pos, c)
    IN
    /\ ~Dangles
    /\ FindLabel(key) = {}
    /\ Listed # Objects
    /\ name' = [name EXCEPT ![c] = key]
    /\ chains' = list
    /\ index' = IF Exceeded(list, Len(index)) THEN Built(list)
                ELSE IF SmallerThanIndex(key) THEN [index EXCEPT ![1] = c]
                ELSE index
    /\ UNCHANGED <<chain_iterator_cur, disturbances>>

\* The next chain, or what stands for the end of the list.
Successor(c, end) ==
    IF PositionOf(c) = Len(chains) THEN end ELSE chains[PositionOf(c) + 1]

\* Wrong: does not ask whether the next chain has a place of its own.
SameBucketAlways(k, c, cur) == TRUE

SameBucket(k, c, cur) == Bsearch(NameOf(Successor(c, ListHead), cur), cur) = k

\* Wrong: leaves the iterator where it is.
IteratorWithoutIgnored(c) == chain_iterator_cur

\* The current chain of the iterator is deleted: it moves on.
IteratorWithout(c) ==
    IF c = chain_iterator_cur THEN Successor(c, NULL) ELSE chain_iterator_cur

\* TC_DELETE_CHAIN of an empty chain nothing refers to, and
\* iptcc_chain_index_delete_chain: an indexed chain gives its place to the
\* next one if that is in the same bucket.
Delete(key) ==
    /\ ~Dangles
    /\ \E c \in FindLabel(key) :
           LET cur == IteratorWithout(c)
               k == Bsearch(key, cur)
           IN
           /\ chain_iterator_cur' = cur
           /\ chains' = RemoveAt(chains, PositionOf(c))
           /\ IF index # <<>> /\ index[k + 1] = c
              THEN index' = IF SameBucket(k, c, cur)
                            THEN [index EXCEPT ![k + 1] = Successor(c, ListHead)]
                            ELSE Built(chains')
              ELSE UNCHANGED index
           /\ name' = [name EXCEPT ![c] = FreedName]
           /\ UNCHANGED disturbances

Disturb ==
    /\ disturbances < MaxDisturbances
    /\ disturbances' = disturbances + 1

\* TC_RENAME_CHAIN
Rename(old, new) ==
    /\ ~Dangles
    /\ FindLabel(new) = {}
    /\ \E c \in FindLabel(old) : name' = [name EXCEPT ![c] = new]
    /\ Disturb
    /\ UNCHANGED <<chains, index, chain_iterator_cur>>

\* TC_FIRST_CHAIN returns the first built-in chain.
FirstChain ==
    /\ chain_iterator_cur' = BuiltIn
    /\ Disturb
    /\ UNCHANGED <<chains, name, index>>

\* Wrong: moves on past the end of the list.
NextChainUnchecked ==
    /\ chain_iterator_cur # NULL
    /\ chain_iterator_cur' =
          IF chain_iterator_cur # BuiltIn
          THEN Successor(chain_iterator_cur, ListHead)
          ELSE IF chains = <<>> THEN ListHead ELSE chains[1]
    /\ UNCHANGED <<chains, name, index, disturbances>>

\* TC_NEXT_CHAIN
NextChain ==
    /\ chain_iterator_cur # NULL
    /\ IF chain_iterator_cur = BuiltIn
       THEN chain_iterator_cur' \in
                {BuiltIn, IF chains = <<>> THEN NULL ELSE chains[1]}
       ELSE chain_iterator_cur' = Successor(chain_iterator_cur, NULL)
    /\ UNCHANGED <<chains, name, index, disturbances>>

Next ==
    \/ \E key \in Names : Create(key) \/ Delete(key)
    \/ \E old, new \in Names : Rename(old, new)
    \/ FirstChain
    \/ NextChain

Spec == Init /\ [][Next]_vars

-----------------------------------------------------------------------------
(* Properties.                                                             *)

\* Whatever was created and deleted before, in whatever order, without the
\* index being rebuilt each time: iptcc_find_label finds exactly the chains
\* that are there.
FindsExactly ==
    disturbances = 0 => \A key \in Names : FindLabel(key) # {} <=> key \in ListedNames

\* The index never points to a chain that was freed.
IndexIsLive == disturbances = 0 => ~Dangles

\* The verification of iptcc_find_label under DEBUG, which exits with
\* "BUG in chain_index search": unless it ends at the head of the list the
\* binary search finds what the linear one finds.
BsearchIsLinear ==
    disturbances = 0 /\ index # <<>> =>
        \A key \in Names :
            index[Bucket(key) + 1] # ListHead => Bucket(key) = LinearSearch(key)

\* However chains are renamed, created and deleted between two calls of
\* TC_NEXT_CHAIN, it never returns a chain that was freed.
IteratorIsLive == chain_iterator_cur \in Listed \cup {BuiltIn, NULL}

=============================================================================
