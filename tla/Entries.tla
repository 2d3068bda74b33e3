------------------------------- MODULE Entries -------------------------------
(***************************************************************************)
(* The objects a rule is put together from: pyipt.Match, pyipt.Target and  *)
(* pyipt.Entry (pyipt/pyipt-match.c, pyipt-target.c, pyipt-entry.c) on top *)
(* of the registry of xtables.                                             *)
(*                                                                         *)
(* The objects are Python's: they live as long as something refers to      *)
(* them.  A Match refers to a structure of xtables, the registered one or  *)
(* a copy of it, which holds its options; a Target has a copy of its own.  *)
(* The entry that is sent to libiptc is one block of memory laid out by    *)
(* hand.                                                                   *)
(***************************************************************************)
EXTENDS Options, Extensions

CONSTANTS
    Slots,          \* places for matches, targets, entries
    MatchCalls,     \* the arguments the constructors are called with
    TargetCalls,
    EntryCalls,
    Kernels,        \* the kernels there are
    Packets,        \* the packets a rule is tried on
    Devices,        \* the names of network interfaces, sequences of characters
    IfNamSiz,       \* IFNAMSIZ
    MaxMatches,     \* bound on the matches in an entry
    MaxSent,        \* bound on the entries generated
    MaxMade         \* bound on the calls of constructors

\* The name of an interface or a device ends before the first NUL.
IsName(name) == name \in Seq(Range(name)) /\ "NUL" \notin Range(name)

\* The constructors are called with sequences of options and of hosts.
ASSUME EntriesAssumption ==
    /\ IsFiniteSet(Slots) /\ None \notin Slots
    /\ Slots \cap {"tcp", "state", "socket"} = {}
    /\ MaxSent \in Nat
    /\ \A c \in MatchCalls : c.is = "match"
    /\ \A c \in TargetCalls : c.is = "target" /\ c.table \in BOOLEAN
    /\ \A c \in MatchCalls \cup TargetCalls :
          c.name \in STRING /\ c.args \in Seq(Range(c.args))
    /\ \A c \in EntryCalls :
          /\ c.is = "entry"
          /\ \A name \in {c.source, c.destination} : name.hosts \in Seq(Range(name.hosts))
          /\ c.interface # None => IsName(c.interface)
    /\ \A device \in Devices : IsName(device)
    /\ \A packet \in Packets :
          packet.sport \in 0..PortMax /\ packet.dport \in 0..PortMax /\ packet.state \in States
    /\ Undefined \notin [name : STRING, revision : 0..2, size : 1..4, data : Blocks]

VARIABLES
    kernel,     \* the kernel the program runs on
    registry,   \* xtables_matches and xtables_targets
    struct,     \* by registered match or slot: what the structure holds
    object,     \* by slot: the object there
    mine,       \* the slots of the objects the program has a reference to
    error,      \* py_ipt_xt_error
    sent,       \* how many entries were generated
    made,       \* how often a constructor was called
    event       \* what the last call did

vars == <<kernel, registry, struct, object, mine, error, sent, made, event>>

-----------------------------------------------------------------------------
(* Memory.                                                                 *)

\* Where no object is.
Nothing == [kind |-> "nothing"]

Is(s, kind) == object[s].kind = kind

Free == {s \in Slots : Is(s, "nothing")}

\* What the program can name.
Mine(kind) == {s \in mine : Is(s, kind)}

\* A structure without options: m is NULL.
Unused == [data |-> None, flags |-> {}]

\* Wrong: frees the object whoever else refers to it.
DecRefFrees(heap, s) == [heap EXCEPT ![s] = Nothing]

\* Py_DECREF of a match or a target in the heap.
DecRef(heap, s) ==
    IF heap[s].refs = 1 THEN [heap EXCEPT ![s] = Nothing]
    ELSE [heap EXCEPT ![s].refs = @ - 1]

IncRef(heap, s) == [heap EXCEPT ![s].refs = @ + 1]

\* py_ipt_entry_dealloc
FreeEntry(heap, s) ==
    LET e == heap[s]
        targets == IF e.target = None THEN <<>> ELSE <<e.target>>
    IN  FoldLeft(DecRef, [heap EXCEPT ![s] = Nothing], e.matches \o targets)

-----------------------------------------------------------------------------
(* Addresses.                                                              *)

\* One turn of the loop of xtables_ipparse_any, which masks addresses and
\* drops what is there twice, in place.
MaskTurn(r, mask) ==
    LET a == [r.addresses EXCEPT ![r.j] = @ \cap mask]
        twice == \E k \in 1..(r.j - 1) : a[k] = a[r.j]
    IN  [addresses |-> a,
         j |-> IF twice THEN r.j ELSE r.j + 1,
         n |-> IF twice THEN r.n - 1 ELSE r.n]

\* A name stands for hosts, a sequence of addresses that may be empty.
Masked(hosts, mask) ==
    FoldLeft(LAMBDA r, i : MaskTurn(r, mask),
             [addresses |-> hosts, j |-> 1, n |-> Len(hosts)],
             [i \in 1..Len(hosts) |-> i])

\* A null mask makes the name irrelevant.  An invalid mask is reported, and
\* taken from memory nobody has written.
Address(name) ==
    LET hosts == IF name.mask = {} THEN <<{}>> ELSE name.hosts
    IN  IF name.mask = Bad
        THEN [address |-> Undefined, mask |-> Undefined, n |-> Len(name.hosts), error |-> TRUE]
        ELSE [address |-> IF hosts = <<>> THEN Undefined
                          ELSE Masked(hosts, name.mask).addresses[1],
              mask |-> name.mask,
              n |-> Masked(hosts, name.mask).n,
              error |-> hosts = <<>>]

\* xtables_parse_interface: how many bytes of a name are compared, the NUL at
\* its end included unless it ends in `+'.
InterfaceMask(name) ==
    CASE name \in {None, <<>>, <<"+">>} -> 0
      [] name \notin {None, <<>>, <<"+">>} ->
            IF Last(name) = "+" THEN Len(name) - 1 ELSE Len(name) + 1

TooLong(name) == name # None /\ Len(name) + 1 > IfNamSiz

-----------------------------------------------------------------------------
(* What the kernel reads in an entry.                                      *)

EntrySize == 3

\* A header and what options need.
ElementSize == [name \in {"tcp", "state", "socket", "TPROXY", "MARK", "NFLOG", "standard"} |->
                  CASE name = "tcp" -> 4
                    [] name \in {"TPROXY", "MARK", "NFLOG"} -> 3
                    [] name \in {"state", "standard"} -> 2
                    [] name = "socket" -> 1]

MatchElement(s) ==
    [name |-> object[s].call.name, revision |-> 0,
     size |-> ElementSize[object[s].call.name], data |-> struct[object[s].at].data]

TargetElement(s) ==
    [name |-> object[s].call.name, revision |-> object[s].extension.revision,
     size |-> ElementSize[object[s].extension.name], data |-> object[s].data]

\* Wrong: every match is copied to the same place.
ElementsAtStart(elements) ==
    {[at |-> EntrySize, element |-> elements[i]] : i \in DOMAIN elements}

\* Where the place behind the fixed part and some elements is.
Behind(elements) == FoldLeft(LAMBDA n, e : n + e.size, EntrySize, elements)

\* One after the other behind the fixed part.
Elements(elements) ==
    {[at |-> Behind(SubSeq(elements, 1, i - 1)), element |-> elements[i]] :
        i \in DOMAIN elements}

\* py_ipt_entry_generate
Generated(e) ==
    LET matches == [i \in DOMAIN e.matches |-> MatchElement(e.matches[i])]
        target == TargetElement(e.target)
        offset == Behind(matches)
    IN  [elements |-> Elements(Append(matches, target)),
         target_offset |-> offset, next_offset |-> offset + target.size,
         address |-> e.address, mask |-> e.mask, interface |-> e.interface]

\* The kernel's walk over the matches of a generated entry.
Walked(g) ==
    LET walk[o \in 0..g.next_offset] ==
            LET here == {x \in g.elements : x.at = o}
            IN  IF o >= g.target_offset THEN <<>>
                ELSE IF Cardinality(here) # 1 THEN <<Undefined>>
                ELSE LET e == (CHOOSE x \in here : TRUE).element
                     IN  IF o + e.size > g.next_offset THEN <<Undefined>>
                         ELSE <<e>> \o walk[o + e.size]
    IN  walk[EntrySize]

TargetRead(g) ==
    LET here == {x \in g.elements : x.at = g.target_offset}
    IN  IF Cardinality(here) # 1 THEN Undefined ELSE (CHOOSE x \in here : TRUE).element

\* How the kernel compares the name of a packet's interface.
OnInterface(interface, device) ==
    LET Byte(name, k) == IF k <= Len(name) THEN name[k] ELSE "NUL"
    IN  \A k \in 1..interface.mask : Byte(device, k) = Byte(interface.name, k)

-----------------------------------------------------------------------------
TypeOK ==
    /\ kernel \in Kernels
    /\ registry \subseteq Range(Builtin)
    /\ DOMAIN object = Slots
    /\ \A s \in Slots : object[s].kind \in {"nothing", "match", "target", "entry"}
    /\ mine \subseteq Slots
    /\ error \in BOOLEAN
    /\ sent \in 0..MaxSent

\* What importing pyipt leaves.
Imported ==
    /\ struct = [i \in {"tcp", "state", "socket"} \cup Slots |-> Unused]
    /\ object = [s \in Slots |-> Nothing]
    /\ mine = {}
    /\ error = FALSE
    /\ event = [call |-> "none"]

Init ==
    /\ kernel \in Kernels
    /\ registry = Registry(kernel)
    /\ sent = 0
    /\ made = 0
    /\ Imported

\* What is undefined after exit_err() may end the program; it is started
\* again and imports pyipt again.
Dies ==
    /\ struct' = [i \in DOMAIN struct |-> Unused]
    /\ object' = [s \in Slots |-> Nothing]
    /\ mine' = {}
    /\ error' = FALSE
    /\ event' = [call |-> "none"]
    /\ UNCHANGED <<kernel, registry, sent, made>>

\* A constructor reports errors to xtables or not.  It leaves o in slot s and
\* the structures m, or raises an exception and leaves r.
Constructs(s, c, reported, raised, o, m, r) ==
    \/ /\ made < MaxMade
       /\ made' = made + 1
       /\ error' = (error \/ reported)
       /\ event' = IF raised THEN [call |-> "refused", with |-> c, before |-> error]
                   ELSE [call |-> "none"]
       /\ IF raised
          THEN struct' = r /\ UNCHANGED <<object, mine>>
          ELSE /\ struct' = m
               /\ object' = [object EXCEPT ![s] = o]
               /\ mine' = mine \cup {s}
       /\ UNCHANGED <<kernel, registry, sent>>
    \/ reported /\ Dies

\* xtables_find_match: the first match of a name takes the registered
\* structure, which is never given back; later ones get a copy.
Structure(name, s) == IF struct[name].data = None THEN name ELSE s

\* Wrong: forgets that a copy has no options yet.
CopiedFlagsKept(name) == struct[name].flags

\* mflags of a copy, and of a structure that is registered, are 0.
CopiedFlags(name) == {}

\* py_ipt_match_new.  When it fails, what it has put into the registered
\* structure stays there, and a copy is lost.
NewMatch(s, c) ==
    IF FindMatch(registry, c.name) = {}
    THEN Constructs(s, c, FALSE, TRUE, Nothing, struct, struct)
    ELSE LET x == CHOOSE y \in FindMatch(registry, c.name) : TRUE
             at == Structure(c.name, s)
             p == Parse(x, CopiedFlags(c.name), error, c.args)
             filled == [struct EXCEPT ![at] = [data |-> p.data, flags |-> p.flags]]
         IN  Constructs(s, c, p.reported, p.raised,
                 [kind |-> "match", call |-> c, at |-> at, refs |-> 1],
                 filled, IF at = s THEN struct ELSE filled)

\* py_ipt_target_new.  With a table, a name that is one of its chains is a
\* verdict; whether there is such a chain depends on the table.
NewTarget(s, c, isChain) ==
    LET name == IF isChain THEN "standard" ELSE c.name
        found == FindTarget(registry, name)
        asked == [is |-> "target", name |-> name, args |-> c.args]
    IN  IF found = {}
        THEN Constructs(s, asked, FALSE, TRUE, Nothing, struct, struct)
        ELSE LET x == CHOOSE y \in found : TRUE
                 p == Parse(x, {}, error, c.args)
             IN  Constructs(s, asked, p.reported, p.raised,
                     [kind |-> "target", call |-> c, extension |-> x, data |-> p.data, refs |-> 1],
                     struct, struct)

\* py_ipt_entry_new.  The error flag is looked at only after an interface, the
\* one packets come in on or the one they go out on.
NewEntry(s, c) ==
    LET from == Address(c.source)
        to == Address(c.destination)
        parsed == from.n = 1 /\ to.n = 1 /\ c.interface # None
        reported == \/ from.error
                    \/ from.n = 1 /\ to.error
                    \/ parsed /\ TooLong(c.interface)
    IN  Constructs(s, c, reported,
            from.n # 1 \/ to.n # 1 \/ (parsed /\ (error \/ reported)),
            [kind |-> "entry", call |-> c, matches |-> <<>>, target |-> None,
             address |-> <<from.address, to.address>>, mask |-> <<from.mask, to.mask>>,
             interface |-> [name |-> c.interface, mask |-> InterfaceMask(c.interface)]],
            struct, struct)

Returns(e) ==
    /\ event' = e
    /\ UNCHANGED <<kernel, registry, struct, mine, error, sent, made>>

\* py_ipt_entry_add_match: a match that is there already is refused.
AddMatch(e, m) ==
    /\ Len(object[e].matches) < MaxMatches
    /\ ~Contains(object[e].matches, m)
    /\ object' = IncRef([object EXCEPT ![e].matches = Append(@, m)], m)
    /\ Returns([call |-> "none"])

\* py_ipt_entry_remove_match
RemoveMatch(e, m) ==
    /\ Contains(object[e].matches, m)
    /\ object' = DecRef([object EXCEPT ![e].matches = RemoveFirst(@, m)], m)
    /\ Returns([call |-> "none"])

\* py_ipt_entry_set_target: lets go of the old one first.
SetTarget(e, t) ==
    /\ LET old == object[e].target
           heap == IF old = None THEN object ELSE DecRef(object, old)
       IN  object' = IncRef([heap EXCEPT ![e].target = t], t)
    /\ Returns([call |-> "none"])

\* The program generates an entry when it calls the table, with a target.
\* PySequence_GetItem returns new references, two of each match, which
\* nobody gives back.
Generate(e) ==
    /\ object[e].target # None
    /\ sent < MaxSent
    /\ sent' = sent + 1
    /\ object' = FoldLeft(LAMBDA heap, m : IncRef(IncRef(heap, m), m),
                          object, object[e].matches)
    /\ event' = [call |-> "generate",
                 matches |-> [i \in DOMAIN object[e].matches |-> object[object[e].matches[i]].call],
                 target |-> object[object[e].target].call,
                 entry |-> object[e].call,
                 generated |-> Generated(object[e])]
    /\ UNCHANGED <<kernel, registry, struct, mine, error, made>>

\* The program forgets its reference.
Forget(s) ==
    /\ mine' = mine \ {s}
    /\ object' = IF object[s].kind = "entry" THEN FreeEntry(object, s) ELSE DecRef(object, s)
    /\ struct' = [i \in DOMAIN struct |->
                     IF i \in Slots /\ object'[i] = Nothing THEN Unused ELSE struct[i]]
    /\ event' = [call |-> "none"]
    /\ UNCHANGED <<kernel, registry, error, sent, made>>

Next ==
    \/ \E s \in Free :
          \/ \E c \in MatchCalls : NewMatch(s, c)
          \/ \E c \in TargetCalls, isChain \in BOOLEAN :
                (isChain => c.table) /\ NewTarget(s, c, isChain)
          \/ \E c \in EntryCalls : NewEntry(s, c)
    \/ \E e \in Mine("entry"), m \in Mine("match") : AddMatch(e, m) \/ RemoveMatch(e, m)
    \/ \E e \in Mine("entry"), t \in Mine("target") : SetTarget(e, t)
    \/ \E e \in Mine("entry") : Generate(e)
    \/ \E s \in mine : Forget(s)

Spec == Init /\ [][Next]_vars

-----------------------------------------------------------------------------
(* Properties.                                                             *)

\* What the help of an option of a match says about a packet.
OptionSays(name, o, packet) ==
    LET arg == o.arg
    IN  o.not #
            CASE o.opt = "source-port" -> packet.sport \in PortRange(arg).lo..PortRange(arg).hi
              [] o.opt = "destination-port" ->
                    packet.dport \in PortRange(arg).lo..PortRange(arg).hi
              [] o.opt = "syn" ->
                    packet.flags \cap {"SYN", "RST", "ACK", "FIN"} = {"SYN"}
              [] o.opt = "tcp-flags" -> packet.flags \cap FlagsOf(arg.mask) = FlagsOf(arg.cmp)
              [] o.opt = "tcp-option" -> arg.number \in packet.options
              [] o.opt = "state" -> packet.state \in arg.states

MatchSays(c, packet) ==
    \A i \in DOMAIN c.args : OptionSays(c.name, c.args[i], packet)

\* What the help of an option of MARK says it makes of a mark.
MarkSays(o, n) ==
    CASE o.opt = "set-mark" -> (n \ MaskOf(o.arg)) \cup o.arg.value
      [] o.opt = "set-xmark" -> SymDiff(n \ MaskOf(o.arg), o.arg.value)
      [] o.opt = "and-mark" -> n \cap o.arg.value
      [] o.opt = "or-mark" -> n \cup o.arg.value
      [] o.opt = "xor-mark" -> SymDiff(n, o.arg.value)

\* The kernel takes element e for what the match was called with.
ElementMatches(e, packet) ==
    /\ e # Undefined
    /\ e.data # Undefined
    /\ CASE e.name = "tcp" -> TcpMatches(e.data, packet)
         [] e.name = "state" -> packet.state \in e.data.states
         [] e.name = "socket" -> TRUE

TargetDoes(e, c) ==
    /\ e # Undefined
    /\ e.data # Undefined
    /\ e.name = c.name
    /\ \A i \in DOMAIN c.args :
          LET o == c.args[i]
          IN  CASE c.name = "MARK" ->
                      \A n \in SUBSET MarkBits : Marked(e.revision, e.data, n) = MarkSays(o, n)
                [] o.opt = "on-port" -> e.data.port = o.arg.number
                [] o.opt = "on-ip" -> e.data.ip = o.arg.number
                [] o.opt = "tproxy-mark" ->
                      e.data.value = o.arg.value /\ e.data.mask = MaskOf(o.arg)
                [] o.opt = "nflog-group" /\ o.arg.number < Word -> e.data.group = o.arg.number
                [] o.opt = "nflog-threshold" /\ o.arg.number < Word -> e.data.threshold = o.arg.number
                [] OTHER -> TRUE

GoodAddress(name) ==
    name.mask # Bad /\ Cardinality({a \cap name.mask : a \in Range(name.hosts)}) = 1

\* Address i of a generated entry is the one a good name stands for.
Names(generated, i, name) ==
    GoodAddress(name) =>
        /\ generated.mask[i] = name.mask
        /\ {generated.address[i]} = {a \cap name.mask : a \in Range(name.hosts)}

\* No name is any interface, a name that ends in `+' all that begin like it.
InterfaceSays(name, device) ==
    \/ name \in {None, <<>>}
    \/ name \notin {None, <<>>} /\ Last(name) # "+" /\ device = name
    \/ name \notin {None, <<>>} /\ Last(name) = "+" /\ IsPrefix(Front(name), device)

\* A rule does what the arguments of its match and target constructors say,
\* whatever other objects were made, refused, shared among entries or freed
\* before: the kernel, walking over the generated entry by the sizes in it,
\* finds matches that agree on every packet with what was asked for, the
\* target it was given, the interface, and the addresses a good name stands for.
RuleDoesWhatItSays ==
    event.call = "generate" =>
        LET read == Walked(event.generated)
        IN  /\ \A packet \in Packets :
                  (\A i \in DOMAIN read : ElementMatches(read[i], packet))
                  <=> \A i \in DOMAIN event.matches : MatchSays(event.matches[i], packet)
            /\ TargetDoes(TargetRead(event.generated), event.target)
            /\ \A device \in Devices :
                  OnInterface(event.generated.interface, device)
                  <=> InterfaceSays(event.entry.interface, device)
            /\ Names(event.generated, 1, event.entry.source)
            /\ Names(event.generated, 2, event.entry.destination)

\* The options are known, each is good by itself, and no two exclude each other.
GoodOptions(x, args) ==
    /\ \A i \in DOMAIN args : args[i].opt \in OptionsOf(x) /\ ~Rejects(x, {}, args[i])
    /\ x.name \in {"tcp", "TPROXY", "NFLOG"} =>
          \A i, j \in DOMAIN args : FlagOf(x, args[i]) = FlagOf(x, args[j]) => i = j
    /\ x.name = "MARK" => Len(args) <= 1

\* An option comes with an argument of the kind it takes, or with one that
\* reads as nothing; NFLOG's numbers are numbers, since it takes what is none
\* for 0; and a ! is behind an option that looks for it.
RightKind(o) ==
    /\ o.not \in BOOLEAN
    /\ o.opt = "syn" => ~o.not
    /\ o.opt = "state" => o.arg.states = Bad \/ o.arg.states \subseteq States
    /\ o.opt = "on-ip" => o.arg.number \in Int \cup {Bad}
    /\ o.opt \in {"tproxy-mark"} \cup MarkOptions(2) =>
          \/ o.arg = Bad
          \/ /\ o.arg.value \subseteq MarkBits
             /\ o.arg.mask = None \/ o.arg.mask \subseteq MarkBits
    /\ o.opt \in {"nflog-group", "nflog-range", "nflog-threshold"} =>
          o.arg.number \in Int /\ o.arg.number # Bad
    /\ o.opt = "nflog-prefix" => o.arg.prefix \in STRING \cup {None, Bad}

\* Calls whose meaning is what the help of their options says: --state occurs,
\* once.  Nothing asks for it, since final_check is never called, and a second
\* one adds to the states of the first.
SensibleCalls ==
    /\ \A c \in MatchCalls \cup TargetCalls : \A i \in DOMAIN c.args : RightKind(c.args[i])
    /\ \A c \in MatchCalls : c.name = "state" => Len(c.args) = 1

\* What a constructor is called with is good.
Good(c) ==
    IF c.is = "entry"
    THEN GoodAddress(c.source) /\ GoodAddress(c.destination) /\ ~TooLong(c.interface)
    ELSE \E x \in IF c.is = "match" THEN FindMatch(registry, c.name)
                  ELSE FindTarget(registry, c.name) : GoodOptions(x, c.args)

\* Nothing that an earlier object left in xtables' structures gets in the way
\* of a later one: until xtables has reported an error, which pyipt never
\* forgets, a constructor raises only for its own arguments.
RefusedForAReason ==
    event.call = "refused" /\ ~event.before => ~Good(event.with)

\* How many references the program and the entries have to s.
Holders(s) ==
    (IF s \in mine THEN 1 ELSE 0)
    + Cardinality({e \in Slots : Is(e, "entry") /\ Contains(object[e].matches, s)})
    + Cardinality({e \in Slots : Is(e, "entry") /\ object[e].target = s})

\* No match and no target is freed while an entry or the program refers to
\* it, in whatever order they are added, replaced, removed and forgotten.
NeverFreedInUse ==
    \A s \in Slots :
        /\ Holders(s) > 0 => ~Is(s, "nothing")
        /\ Is(s, "match") \/ Is(s, "target") => object[s].refs >= Holders(s)

\* Of the revisions of an extension the registry has exactly one, and none
\* that the kernel knows is later.
BestRevision ==
    \A x \in Range(Builtin) :
        Interesting(x) =>
            /\ Cardinality(Named(registry, x.kind, x.name)) = 1
            /\ Compatible(kernel, x) =>
                  \E y \in Named(registry, x.kind, x.name) :
                      Compatible(kernel, y) /\ y.revision >= x.revision
=============================================================================
