------------------------------ MODULE MCEntries ------------------------------
(* Small instances of Entries for TLC.                                     *)
EXTENDS Entries

\* An option with its argument, and one with a `!' before it.
Opt(name, arg) == [opt |-> name, not |-> FALSE, arg |-> arg]
NotOpt(name, arg) == [opt |-> name, not |-> TRUE, arg |-> arg]

Number(n) == [number |-> n]
Ports(lo, hi) == [lo |-> lo, hi |-> hi]
Bits(value, mask) == [value |-> value, mask |-> mask]

Match(name, args) == [is |-> "match", name |-> name, args |-> args]
Target(name, args) == [is |-> "target", name |-> name, args |-> args, table |-> FALSE]

\* What base.py asks for, open and inverted ranges, an option given twice, one
\* that is not known, and a name nobody knows.
MCMatchCalls ==
    {Match("tcp", <<Opt("destination-port", Ports(1, 1)), Opt("syn", Number(None))>>),
     Match("tcp", <<NotOpt("source-port", Ports(None, 1)),
                    NotOpt("tcp-flags", [mask |-> {"SYN", "ACK"}, cmp |-> {"ACK"}]),
                    Opt("tcp-option", Number(2))>>),
     Match("tcp", <<Opt("destination-port", Ports(2, 2)),
                    Opt("destination-port", Ports(1, None))>>),
     Match("state", <<NotOpt("state", [states |-> {"NEW", "RELATED"}])>>),
     Match("socket", <<>>),
     Match("socket", <<Opt("state", [states |-> {"NEW"}])>>),
     Match("unknown", <<>>)}

MCTargetCalls ==
    {[Target("cattivo", <<>>) EXCEPT !.table = TRUE],
     Target("TPROXY", <<Opt("on-port", Number(1)),
                        Opt("tproxy-mark", Bits({0}, None))>>),
     Target("NFLOG", <<Opt("nflog-group", Number(2))>>),
     Target("MARK", <<Opt("set-mark", Bits({0}, {1}))>>)}

Anywhere == [hosts |-> <<{}>>, mask |-> {}]
Named1(hosts, mask) == [hosts |-> hosts, mask |-> mask]

Entry(source, interface) ==
    [is |-> "entry", source |-> source, destination |-> Anywhere, interface |-> interface]

\* One host, two that a mask makes one, two that stay two, a mask that is
\* none, and interfaces.
MCEntryCalls ==
    {Entry(Named1(<<{0, 1}, {0}>>, {0}), <<"e", "+">>),
     Entry(Named1(<<{0}, {1}>>, {0, 1}), None),
     Entry(Named1(<<{0}>>, Bad), None),
     Entry(Anywhere, <<"w", "l", "a", "n">>)}

Knows(marks) ==
    [mayAsk |-> TRUE, old |-> FALSE,
     knows |-> {<<"MARK", r>> : r \in marks}
               \cup {<<n, 0>> : n \in {"standard", "tcp", "state", "socket", "TPROXY", "NFLOG"}}]

MCKernels ==
    {Knows({0, 1}), Knows({0, 1, 2}), [Knows({}) EXCEPT !.old = TRUE]}

MCPackets ==
    [sport : 0..2, dport : 0..2, flags : {{"SYN"}, {"ACK"}, {"SYN", "ACK"}},
     options : {{}, {2}}, state : {"NEW", "ESTABLISHED"}]

MCDevices == {<<"e">>, <<"e", "0">>, <<"w">>}

\* The calls are such that a rule should do what they say.
ASSUME SensibleInstance == SensibleCalls

Symmetry == Permutations(Slots)
=============================================================================
