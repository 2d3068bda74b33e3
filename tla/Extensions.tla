------------------------------ MODULE Extensions ------------------------------
(***************************************************************************)
(* The registry of matches and targets (xtables/xtables.c): what importing *)
(* pyipt registers, which revision of an extension is kept, and how a name *)
(* is looked up.                                                           *)
(*                                                                         *)
(* An extension is a record: its kind, name, revision and the family of    *)
(* protocols it is for.  The registry is a set of them.  The kernel is a   *)
(* record: whether the process may ask it, whether it is too old to        *)
(* answer, and which revisions of what it knows.                           *)
(***************************************************************************)
EXTENDS Naturals, Sequences, SequencesExt

ExtMatch(name, family) ==
    [kind |-> "match", name |-> name, revision |-> 0, family |-> family]

ExtTarget(name, revision, family) ==
    [kind |-> "target", name |-> name, revision |-> revision, family |-> family]

\* What initpyipt() registers, in its order.
Builtin ==
    <<ExtTarget("standard", 0, "any"),
      ExtMatch("tcp", "ipv4"), ExtMatch("tcp", "ipv6"),
      ExtMatch("state", "ipv4"), ExtMatch("state", "ipv6"),
      ExtTarget("TPROXY", 0, "ipv4"),
      ExtTarget("MARK", 0, "ipv4"), ExtTarget("MARK", 1, "ipv4"),
      ExtTarget("MARK", 0, "ipv6"), ExtTarget("MARK", 2, "any"),
      ExtMatch("socket", "ipv4"),
      ExtTarget("NFLOG", 0, "ipv4"), ExtTarget("NFLOG", 0, "ipv6")>>

Family == "ipv4"

Interesting(x) == x.family \in {Family, "any"}

\* compatible_revision: whoever may not ask assumes the best, an old kernel
\* has nothing but revisions 0.
Compatible(kernel, x) ==
    \/ ~kernel.mayAsk
    \/ kernel.mayAsk /\ kernel.old /\ x.revision = 0
    \/ kernel.mayAsk /\ ~kernel.old /\ <<x.name, x.revision>> \in kernel.knows

\* Wrong: takes the later one without asking whether the kernel has it.
KeepsUnasked(kernel, old, x) ==
    \/ Compatible(kernel, old) /\ old.revision > x.revision
    \/ old.revision = x.revision /\ x.family = "any"

\* The registered extension stays, the new one is not taken.
Keeps(kernel, old, x) ==
    \/ Compatible(kernel, old) /\ old.revision > x.revision
    \/ ~Compatible(kernel, x)
    \/ old.revision = x.revision /\ x.family = "any"

Named(registry, kind, name) ==
    {x \in registry : x.kind = kind /\ x.name = name}

\* xtables_register_match and xtables_register_target.  They leave the
\* program if an extension is registered twice, which Builtin does not do.
Register(kernel, registry, x) ==
    LET old == Named(registry, x.kind, x.name)
    IN  IF ~Interesting(x) \/ \E y \in old : Keeps(kernel, y, x)
        THEN registry
        ELSE (registry \ old) \cup {x}

Registry(kernel) ==
    FoldLeft(LAMBDA registry, x : Register(kernel, registry, x), {}, Builtin)

\* xtables_find_match by name.
FindMatch(registry, name) == Named(registry, "match", name)

\* xtables_find_target: verdicts are one target.  Nothing is loaded from the
\* directory of extensions.
FindTarget(registry, name) ==
    Named(registry, "target",
          IF name \in {"", "ACCEPT", "DROP", "QUEUE", "RETURN"}
          THEN "standard" ELSE name)
=============================================================================
