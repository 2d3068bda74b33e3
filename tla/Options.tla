------------------------------- MODULE Options -------------------------------
(***************************************************************************)
(* How the extensions built into pyipt take their options                  *)
(* (xtables/extensions/libxt_*.c) and what the kernel makes of the block   *)
(* of data they leave behind.                                              *)
(*                                                                         *)
(* An option that occurs is a record: its name, whether a `!' comes before *)
(* its argument, and the argument, already taken apart at its `:' and `/': *)
(* a record of its parts.  Marks, states, TCP flags and addresses are sets *)
(* of bits.                                                                *)
(***************************************************************************)
EXTENDS Integers, Sequences, FiniteSets, FiniteSetsExt, SequencesExt

CONSTANTS
    MarkBits,   \* bits of a mark, 32 of them
    PortMax,    \* UINT16_MAX
    Word,       \* how many values an unsigned 16 bit number has
    None,       \* nothing
    Bad,        \* an argument that reads as no number, address, name or prefix
    Undefined   \* what the code leaves undefined

TcpFlags == {"FIN", "SYN", "RST", "PSH", "ACK", "URG"}

States == {"INVALID", "NEW", "ESTABLISHED", "RELATED", "UNTRACKED"}

\* The blocks of data: struct xt_tcp, xt_state_info, none, xt_tproxy_target_info,
\* the three of MARK and xt_nflog_info.
Blocks ==
    LET Ports == [lo : 0..PortMax, hi : 0..PortMax, inv : BOOLEAN]
        Flags == [mask : SUBSET TcpFlags, cmp : SUBSET TcpFlags, inv : BOOLEAN]
        Marks == SUBSET MarkBits
    IN  [sport : Ports, dport : Ports, flags : Flags,
         option : [number : 0..255, inv : BOOLEAN]]
        \cup [states : SUBSET States]
        \cup [size : {0}]
        \cup [port : 0..PortMax, ip : Int, value : Marks, mask : Marks]
        \cup [mark : Marks]
        \cup [mode : {"set-mark", "and-mark", "or-mark"}, mark : Marks]
        \cup [mark : Marks, mask : Marks]
        \cup [group : Int, threshold : Int, range : Int, prefix : STRING \cup {None}]

ASSUME OptionsAssumption ==
    /\ PortMax \in Nat /\ Word \in Nat \ {0}
    /\ None \notin Blocks /\ Undefined \notin Blocks /\ Undefined # None

\* xtables_strtoui
IsNumber(arg, min, max) == arg # Bad /\ arg \in min..max

\* atoi: what is no number is 0.
Atoi(arg) == IF arg = Bad THEN 0 ELSE arg

-----------------------------------------------------------------------------
(* tcp                                                                     *)

\* The flags a set of names stands for.
FlagsOf(names) ==
    (names \cap TcpFlags) \cup (IF "ALL" \in names THEN TcpFlags ELSE {})

FlagsRejected(names) == ~(names \subseteq TcpFlags \cup {"ALL", "NONE"})

\* The bit of mflags an option sets, which is also the field it fills in.
TcpField ==
    [o \in {"source-port", "destination-port", "syn", "tcp-flags", "tcp-option"} |->
        CASE o = "source-port" -> "sport"
          [] o = "destination-port" -> "dport"
          [] o \in {"syn", "tcp-flags"} -> "flags"
          [] o = "tcp-option" -> "option"]

AnyPort == [lo |-> 0, hi |-> PortMax, inv |-> FALSE]

TcpInit ==
    [sport |-> AnyPort, dport |-> AnyPort,
     flags |-> [mask |-> {}, cmp |-> {}, inv |-> FALSE],
     option |-> [number |-> 0, inv |-> FALSE]]

\* Either end of a range of ports may be left out.
PortRange(arg) ==
    [lo |-> IF arg.lo = None THEN 0 ELSE arg.lo,
     hi |-> IF arg.hi = None THEN PortMax ELSE arg.hi]

PortsRejected(arg) ==
    \/ arg = Bad
    \/ LET r == PortRange(arg)
       IN  ~IsNumber(r.lo, 0, PortMax) \/ ~IsNumber(r.hi, 0, PortMax) \/ r.lo > r.hi

TcpRejects(flags, o) ==
    \/ TcpField[o.opt] \in flags
    \/ TcpField[o.opt] \in {"sport", "dport"} /\ PortsRejected(o.arg)
    \/ o.opt = "tcp-flags" /\ FlagsRejected(o.arg.mask \cup o.arg.cmp)
    \/ o.opt = "tcp-option" /\ ~IsNumber(o.arg.number, 1, 255)

\* A ! counts behind an option that looks for it there: --syn does not, and
\* pyipt ignores one before any option.
TcpTakes(data, o) ==
    LET field == TcpField[o.opt]
        inv == data[field].inv \/ (o.not /\ o.opt # "syn")
    IN  [data EXCEPT ![field] =
            CASE field \in {"sport", "dport"} ->
                    [lo |-> PortRange(o.arg).lo, hi |-> PortRange(o.arg).hi, inv |-> inv]
              [] o.opt = "syn" ->
                    [mask |-> {"SYN", "RST", "ACK", "FIN"}, cmp |-> {"SYN"}, inv |-> inv]
              [] o.opt = "tcp-flags" ->
                    [mask |-> FlagsOf(o.arg.mask), cmp |-> FlagsOf(o.arg.cmp), inv |-> inv]
              [] field = "option" -> [number |-> o.arg.number, inv |-> inv]]

\* The kernel's tcp_mt(): a packet has two ports, flags and options.
TcpMatches(data, packet) ==
    /\ \A field \in {"sport", "dport"} :
          (packet[field] \in data[field].lo..data[field].hi) # data[field].inv
    /\ (packet.flags \cap data.flags.mask = data.flags.cmp) # data.flags.inv
    /\ data.option.number # 0 =>
          (data.option.number \in packet.options) # data.option.inv

-----------------------------------------------------------------------------
(* state                                                                   *)

\* The arguments of --state are names or prefixes of names.
StateRejects(o) == o.arg.states \in {Bad, {}}

\* statemask collects the states of every --state; a `!' turns all over.
StateTakes(data, o) ==
    LET states == data.states \cup o.arg.states
    IN  [states |-> IF o.not THEN States \ states ELSE states]

-----------------------------------------------------------------------------
(* TPROXY                                                                  *)

TproxyInit == [port |-> 0, ip |-> 0, value |-> {}, mask |-> {}]

TproxyOptions == {"on-port", "on-ip", "tproxy-mark"}

\* Here as in MARK a mask that is left out has all bits.
MaskOf(arg) == IF arg.mask = None THEN MarkBits ELSE arg.mask

TproxyRejects(flags, o) ==
    \/ o.opt \in flags
    \/ o.opt = "on-port" /\ ~IsNumber(o.arg.number, 0, PortMax)
    \/ o.opt = "on-ip" /\ o.arg.number = Bad
    \/ o.opt = "tproxy-mark" /\ o.arg = Bad

TproxyTakes(data, o) ==
    CASE o.opt = "on-port" -> [data EXCEPT !.port = o.arg.number]
      [] o.opt = "on-ip" -> [data EXCEPT !.ip = o.arg.number]
      [] o.opt = "tproxy-mark" ->
            [data EXCEPT !.value = o.arg.value, !.mask = MaskOf(o.arg)]

-----------------------------------------------------------------------------
(* MARK, in three revisions                                                *)

MarkOptions(revision) ==
    IF revision = 2
    THEN {"set-xmark", "set-mark", "and-mark", "or-mark", "xor-mark"}
    ELSE {"set-mark", "and-mark", "or-mark"}

\* A mask goes with --set-mark and --set-xmark of revision 2.  In revision 0
\* there is only --set-mark.
MarkRejects(revision, flags, o) ==
    \/ flags # {}
    \/ o.arg = Bad
    \/ o.arg.mask # None /\ (revision < 2 \/ o.opt \notin {"set-mark", "set-xmark"})
    \/ revision = 0 /\ o.opt # "set-mark"

MarkInit(revision) ==
    CASE revision = 0 -> [mark |-> {}]
      [] revision = 1 -> [mode |-> "set-mark", mark |-> {}]
      [] revision = 2 -> [mark |-> {}, mask |-> {}]

MarkTakes(revision, o) ==
    CASE revision = 0 -> [mark |-> o.arg.value]
      [] revision = 1 -> [mode |-> o.opt, mark |-> o.arg.value]
      [] revision = 2 /\ o.opt = "set-xmark" ->
            [mark |-> o.arg.value, mask |-> MaskOf(o.arg)]
      [] revision = 2 /\ o.opt = "set-mark" ->
            [mark |-> o.arg.value, mask |-> o.arg.value \cup MaskOf(o.arg)]
      [] revision = 2 /\ o.opt = "and-mark" ->
            [mark |-> {}, mask |-> MarkBits \ o.arg.value]
      [] revision = 2 /\ o.opt = "or-mark" ->
            [mark |-> o.arg.value, mask |-> o.arg.value]
      [] revision = 2 /\ o.opt = "xor-mark" -> [mark |-> o.arg.value, mask |-> {}]

\* What the kernel makes of a packet's mark n.
Marked(revision, data, n) ==
    CASE revision = 0 -> data.mark
      [] revision = 1 /\ data.mode = "set-mark" -> data.mark
      [] revision = 1 /\ data.mode = "and-mark" -> n \cap data.mark
      [] revision = 1 /\ data.mode = "or-mark" -> n \cup data.mark
      [] revision = 2 -> SymDiff(n \ data.mask, data.mark)

-----------------------------------------------------------------------------
(* NFLOG                                                                   *)

NflogInit == [group |-> 0, threshold |-> 1, range |-> 0, prefix |-> None]

NflogOptions == {"nflog-group", "nflog-prefix", "nflog-range", "nflog-threshold"}

NflogRejects(flags, o) ==
    \/ o.opt \in flags
    \/ o.not /\ o.opt \in {"nflog-group", "nflog-prefix"}
    \/ o.opt = "nflog-prefix" /\ o.arg.prefix = Bad
    \/ o.opt \in {"nflog-group", "nflog-range"} /\ Atoi(o.arg.number) < 0
    \/ o.opt = "nflog-threshold" /\ Atoi(o.arg.number) < 1

\* Group and threshold lose all but 16 bits.
NflogTakes(data, o) ==
    CASE o.opt = "nflog-group" -> [data EXCEPT !.group = Atoi(o.arg.number) % Word]
      [] o.opt = "nflog-threshold" -> [data EXCEPT !.threshold = Atoi(o.arg.number) % Word]
      [] o.opt = "nflog-range" -> [data EXCEPT !.range = Atoi(o.arg.number)]
      [] o.opt = "nflog-prefix" -> [data EXCEPT !.prefix = o.arg.prefix]

-----------------------------------------------------------------------------
(* Any extension x, a record with a name and a revision.                   *)

OptionsOf(x) ==
    CASE x.name = "tcp" -> DOMAIN TcpField
      [] x.name = "state" -> {"state"}
      [] x.name = "TPROXY" -> TproxyOptions
      [] x.name = "MARK" -> MarkOptions(x.revision)
      [] x.name = "NFLOG" -> NflogOptions
      [] x.name \in {"socket", "standard"} -> {}

InitialData(x) ==
    CASE x.name = "tcp" -> TcpInit
      [] x.name = "state" -> [states |-> {}]
      [] x.name = "TPROXY" -> TproxyInit
      [] x.name = "MARK" -> MarkInit(x.revision)
      [] x.name = "NFLOG" -> NflogInit
      [] x.name \in {"socket", "standard"} -> [size |-> 0]

\* The extension calls exit_err() at least once.
Rejects(x, flags, o) ==
    CASE x.name = "tcp" -> TcpRejects(flags, o)
      [] x.name = "state" -> StateRejects(o)
      [] x.name = "TPROXY" -> TproxyRejects(flags, o)
      [] x.name = "MARK" -> MarkRejects(x.revision, flags, o)
      [] x.name = "NFLOG" -> NflogRejects(flags, o)

Takes(x, data, o) ==
    CASE x.name = "tcp" -> TcpTakes(data, o)
      [] x.name = "state" -> StateTakes(data, o)
      [] x.name = "TPROXY" -> TproxyTakes(data, o)
      [] x.name = "MARK" -> MarkTakes(x.revision, o)
      [] x.name = "NFLOG" -> NflogTakes(data, o)

FlagOf(x, o) == IF x.name = "tcp" THEN TcpField[o.opt] ELSE o.opt

\* One turn of the loop around getopt_long.  exit_err() is declared not to
\* return, so what follows it is undefined, but pyipt's returns and leaves a
\* flag behind; the loop looks at the flag whoever has set it, now or before.
Turn(x, error, p, o) ==
    CASE p.raised -> p
      [] ~p.raised /\ o.opt \notin OptionsOf(x) -> [p EXCEPT !.raised = TRUE]
      [] ~p.raised /\ o.opt \in OptionsOf(x) /\ Rejects(x, p.flags, o) ->
            [p EXCEPT !.data = Undefined, !.reported = TRUE, !.raised = TRUE]
      [] OTHER ->
            [p EXCEPT !.data = Takes(x, @, o), !.flags = @ \cup {FlagOf(x, o)},
                      !.raised = error]

\* flags and error are mflags or tflags and the error flag before; the options
\* are taken until the constructor raises an exception.
Parse(x, flags, error, args) ==
    FoldLeft(LAMBDA p, o : Turn(x, error, p, o),
             [data |-> InitialData(x), flags |-> flags, reported |-> FALSE,
              raised |-> FALSE],
             args)
=============================================================================
