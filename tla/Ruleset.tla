------------------------------- MODULE Ruleset -------------------------------
(***************************************************************************)
(* The rules of a libiptc handle (libiptc.c): what TC_INIT makes of the    *)
(* table in the kernel (parse_table), how the edits keep references,       *)
(* policies and counters, and what TC_COMMIT sends back                    *)
(* (iptcc_compile_table).                                                  *)
(*                                                                         *)
(* The kernel goes on counting packets meanwhile.  It starts a new table   *)
(* with counters of zero and returns the old ones; TC_COMMIT then adds to  *)
(* each counter what its rule's counter map says.                          *)
(***************************************************************************)
EXTENDS Integers, Sequences, FiniteSets, FiniteSetsExt, SequencesExt, Functions

CONSTANTS
    BuiltIns, UserChains,   \* names, numbers in the order of the list
    Modules,                \* targets of extensions
    MaxInitial,             \* bound on the rules of the first table
    MaxRules,               \* bound on the rules of a handle
    MaxEdits, MaxReads,     \* bounds on edits, on handles
    MaxPackets,             \* bound on packets
    Given,                  \* the counter TC_SET_COUNTER and TC_SET_POLICY set,
                            \* and what the first counters are
    Modulus,                \* of the arithmetic of counters, 2^64
    None

ASSUME RulesetAssumption ==
    /\ IsFiniteSet(BuiltIns) /\ IsFiniteSet(UserChains)
    /\ BuiltIns \cup UserChains = 0..(Cardinality(BuiltIns) + Cardinality(UserChains) - 1)
    /\ \A b \in BuiltIns, c \in UserChains : b < c
    /\ None \notin Int /\ None \notin Seq(Int)
    /\ MaxEdits \in Nat
    /\ Modulus \in Nat \ {0} /\ Given \in 0..(Modulus - 1)

VARIABLES
    kernel,     \* the table in the kernel
    handle,     \* the handle, or None
    replaced,   \* repl->counters, between the two halves of TC_COMMIT
    lost,       \* history: has the second half of a commit failed?
    edits, reads, packets

vars == <<kernel, handle, replaced, lost, edits, reads, packets>>
counts == <<edits, reads, packets>>

\* Verdicts: -NF_ACCEPT - 1, -NF_DROP - 1, -NF_REPEAT - 1
Accept == -2
Drop == -1
Return == -5

\* IPTCB_CHAIN_START_SIZE, IPTCB_CHAIN_FOOT_SIZE; a rule with the standard
\* target is as long as the foot of a chain.
StartSize == 3
FootSize == 2
RuleSize(type) == IF type = "module" THEN 4 ELSE FootSize

\* The target of an entry as the caller gives it.
Targets ==
    {[type |-> "standard", arg |-> Accept], [type |-> "fallthrough", arg |-> None]}
        \cup [type : {"named"}, arg : UserChains \cup BuiltIns \cup Modules]

-----------------------------------------------------------------------------
(* From the handle to the table: iptcc_compile_table.                      *)

Chains(h) == DOMAIN h.rules

\* What lies where: the chains in order, user defined ones with a header,
\* each with a foot, and the last entry.
Slot(what, c, n) == [what |-> what, chain |-> c, n |-> n]

Part(h, c) ==
    IF c \notin Chains(h) THEN <<>>
    ELSE (IF c \in BuiltIns THEN <<>> ELSE <<Slot("head", c, 0)>>)
             \o [n \in 1..Len(h.rules[c]) |-> Slot("rule", c, n)]
             \o <<Slot("foot", c, 0)>>

Layout(h) ==
    FlattenSeq([k \in 1..Cardinality(BuiltIns \cup UserChains) |-> Part(h, k - 1)])
        \o <<Slot("end", None, 0)>>

SlotSize(h, slot) ==
    CASE slot.what = "rule" -> RuleSize(h.rules[slot.chain][slot.n].type)
      [] slot.what = "foot" -> FootSize
      [] OTHER -> StartSize

\* Where each of a sequence of entries begins.
Offsets(sizes) ==
    LET offset[i \in DOMAIN sizes] ==
            IF i = 1 THEN 0 ELSE offset[i - 1] + sizes[i - 1]
    IN offset

LayoutOffsets(h) == Offsets([i \in DOMAIN Layout(h) |-> SlotSize(h, Layout(h)[i])])

\* Where the part of chain c begins.
HeadOffset(h, c) ==
    LayoutOffsets(h)[Min({i \in DOMAIN Layout(h) : Layout(h)[i].chain = c})]

\* The kernel starts a table with counters of zero.  due is history: what the
\* counter should be, or None where nobody keeps it.
Entry(target, arg, size, due) ==
    [target |-> target, arg |-> arg, size |-> size, counters |-> 0, due |-> due]

\* Wrong: jumps to the header.
JumpVerdictHeader(h, c) == HeadOffset(h, c)

JumpVerdict(h, c) == HeadOffset(h, c) + StartSize

\* What the counter of r should be in the table that replaces the kernel's.
Due(r) ==
    ((IF r.from = None \/ lost THEN 0 ELSE kernel.entries[r.from].due) - r.less) % Modulus

\* iptcc_compile_rule, for the rule r at the given offset.
CompileRule(h, r, offset) ==
    LET size == RuleSize(r.type)
        verdict ==
            CASE r.type = "jump" -> JumpVerdict(h, r.arg)
              [] r.type = "fallthrough" -> offset + size
              [] OTHER -> r.arg
    IN Entry(IF r.type = "module" THEN "module" ELSE "standard", verdict, size, Due(r))

\* iptcc_compile_chain
Compile(h) ==
    LET layout == Layout(h)
        offset == LayoutOffsets(h)
        Compiled(i) ==
            LET slot == layout[i] IN
            CASE slot.what = "rule" ->
                    CompileRule(h, h.rules[slot.chain][slot.n], offset[i])
              [] slot.what = "foot" ->
                    IF slot.chain \in BuiltIns
                    THEN Entry("standard", h.policy[slot.chain].verdict, FootSize,
                               Due(h.policy[slot.chain]))
                    ELSE Entry("standard", Return, FootSize, None)
              [] OTHER -> Entry("error", slot.chain, StartSize, None)
    IN [entries |-> [i \in DOMAIN layout |-> Compiled(i)],
        hook_entry |-> [b \in BuiltIns |-> HeadOffset(h, b)]]

-----------------------------------------------------------------------------
(* From the table to the handle: parse_table.                              *)

OffsetsOf(t) == Offsets([i \in DOMAIN t.entries |-> t.entries[i].size])

Normal(i) == [type |-> "normal", pos |-> i]
Unmapped(type) == [type |-> type, pos |-> 1]

\* Where a chain starts: at an error entry or at a hook's entry point.
Starts(t) ==
    {i \in DOMAIN t.entries :
        \/ t.entries[i].target = "error"
        \/ \E b \in BuiltIns : t.hook_entry[b] = OffsetsOf(t)[i]}

\* The chain's name, its rules and the policy rule that ends it.
Parts(t) ==
    LET Name(i) ==
            IF t.entries[i].target = "error" THEN t.entries[i].arg
            ELSE CHOOSE b \in BuiltIns : t.hook_entry[b] = OffsetsOf(t)[i]
        First(i) == IF t.entries[i].target = "error" THEN i + 1 ELSE i
        Foot(i) == Min({j \in Starts(t) : j > i}) - 1
    IN {[name |-> Name(i), head |-> i, first |-> First(i), foot |-> Foot(i)] :
           i \in Starts(t) \ {Len(t.entries)}}

\* iptcc_find_chain_by_offset
ChainAt(t, offset) ==
    (CHOOSE p \in Parts(t) :
        OffsetsOf(t)[p.head] <= offset /\ offset <= OffsetsOf(t)[p.foot]).name

TypeOf(e, offset) ==
    IF e.target = "module" THEN "module"
    ELSE IF e.arg < 0 THEN "standard"
    ELSE IF e.arg = offset + e.size THEN "fallthrough" ELSE "jump"

\* cache_add_entry for an entry that is a rule, and the second pass.
ParseRule(t, i) ==
    LET e == t.entries[i]
        type == TypeOf(e, OffsetsOf(t)[i])
    IN [type |-> type,
        arg |-> CASE type = "jump" -> ChainAt(t, e.arg)
                  [] type = "fallthrough" -> None
                  [] OTHER -> e.arg,
        map |-> Normal(i), counters |-> e.counters, from |-> i, less |-> 0]

\* Wrong: the entry after the policy.
PolicyPositionLate(p) == p.foot + 1

PolicyPosition(p) == p.foot

AllRules(rules) == UNION {{c} \X DOMAIN rules[c] : c \in DOMAIN rules}

JumpsAt(rules, at, c) ==
    rules[at[1]][at[2]].type = "jump" /\ rules[at[1]][at[2]].arg = c

JumpsTo(rules, c) == {at \in AllRules(rules) : JumpsAt(rules, at, c)}

Parse(t) ==
    LET PartOf(c) == CHOOSE p \in Parts(t) : p.name = c
        RulesOf(p) == [n \in 1..(p.foot - p.first) |-> ParseRule(t, p.first + n - 1)]
        PolicyOf(p) ==
            [verdict |-> t.entries[p.foot].arg, map |-> Normal(PolicyPosition(p)),
             counters |-> t.entries[p.foot].counters, from |-> p.foot, less |-> 0]
        names == {p.name : p \in Parts(t)}
        rules == [c \in names |-> RulesOf(PartOf(c))]
    IN [rules |-> rules,
        references |-> [c \in names |-> Cardinality(JumpsTo(rules, c))],
        policy |-> [b \in BuiltIns |-> PolicyOf(PartOf(b))],
        num |-> Len(t.entries),
        changed |-> FALSE]

-----------------------------------------------------------------------------
(* Rules and counters, while a handle is edited.                           *)

Policies == handle.policy
Rules == handle.rules

\* iptcc_map_target: a name is a chain or else an extension; a built-in
\* chain is refused.
Mappable(t) == t.arg \notin BuiltIns

Mapped(t) ==
    IF t.type # "named" THEN t
    ELSE [type |-> IF t.arg \in Chains(handle) THEN "jump" ELSE "module", arg |-> t.arg]

\* The rule an edit makes: its counter is set to the entry's, to zero.
NewRule(t) ==
    [type |-> Mapped(t).type, arg |-> Mapped(t).arg,
     map |-> Unmapped("set"), counters |-> 0, from |-> None, less |-> 0]

\* The references when the rules at the places in gone go and those in come
\* come.
Recounted(gone, come) ==
    [c \in Chains(handle) |->
        handle.references[c]
            - Cardinality({at \in gone : JumpsAt(Rules, at, c)})
            + (IF \E r \in come : r.type = "jump" /\ r.arg = c THEN 1 ELSE 0)]

Editing == handle # None /\ replaced = None /\ edits < MaxEdits

Edit(h) ==
    /\ edits' = edits + 1
    /\ handle' = [h EXCEPT !.changed = TRUE]
    /\ UNCHANGED <<kernel, replaced, lost, reads, packets>>

NumRules == Cardinality(AllRules(Rules))

\* TC_INSERT_ENTRY at position n, from 0; at the end it is TC_APPEND_ENTRY.
InsertEntry(c, n, t) ==
    /\ Editing /\ NumRules < MaxRules
    /\ c \in Chains(handle)
    /\ n <= Len(Rules[c])
    /\ Mappable(t)
    /\ Edit([handle EXCEPT !.rules[c] = InsertAt(@, n + 1, NewRule(t)),
                           !.references = Recounted({}, {NewRule(t)})])

\* TC_REPLACE_ENTRY
ReplaceEntry(c, n, t) ==
    /\ Editing
    /\ c \in Chains(handle)
    /\ n < Len(Rules[c])
    /\ Mappable(t)
    /\ Edit([handle EXCEPT !.rules[c][n + 1] = NewRule(t),
                           !.references = Recounted({<<c, n + 1>>}, {NewRule(t)})])

\* target_same
SameTarget(r, t) == r.type = t.type /\ r.arg = t.arg

\* Wrong: gives a reference back twice.
WithoutTwice(c, n) ==
    LET given == Recounted({<<c, n>>}, {}) IN
    [handle EXCEPT !.rules[c] = RemoveAt(@, n),
                   !.references = [d \in Chains(handle) |-> 2 * given[d] - @[d]]]

\* iptcc_delete_rule
Without(c, n) ==
    [handle EXCEPT !.rules[c] = RemoveAt(@, n),
                   !.references = Recounted({<<c, n>>}, {})]

\* TC_DELETE_ENTRY: the first rule that is the same.  Rules do not say which
\* packets they match, so it may be any with the same target.
DeleteEntry(c, t) ==
    /\ Editing
    /\ c \in Chains(handle)
    /\ Mappable(t)
    /\ \E n \in DOMAIN Rules[c] :
          /\ SameTarget(Rules[c][n], Mapped(t))
          /\ Edit(Without(c, n))

\* No such rule; mapping the target has had an effect all the same.
DeleteNothing(c, t) ==
    /\ Editing
    /\ c \in Chains(handle)
    /\ Mappable(t)
    /\ Mapped(t).type = "module"
    /\ Edit(handle)

\* TC_DELETE_NUM_ENTRY
DeleteNumEntry(c, n) ==
    /\ Editing
    /\ c \in Chains(handle)
    /\ n < Len(Rules[c])
    /\ Edit(Without(c, n + 1))

\* Wrong: forgets the jumps it frees.
FlushedCareless(c) == [handle EXCEPT !.rules[c] = <<>>]

Flushed(c) ==
    [handle EXCEPT
        !.rules[c] = <<>>,
        !.references = Recounted({at \in AllRules(Rules) : at[1] = c}, {})]

\* TC_FLUSH_ENTRIES
FlushEntries(c) ==
    /\ Editing
    /\ c \in Chains(handle)
    /\ Edit(Flushed(c))

\* TC_CREATE_CHAIN
CreateChain(c) ==
    /\ Editing
    /\ c \notin Chains(handle)
    /\ Edit([handle EXCEPT
           !.rules = [d \in Chains(handle) \cup {c} |->
                         IF d = c THEN <<>> ELSE handle.rules[d]],
           !.references = [d \in Chains(handle) \cup {c} |->
                              IF d = c THEN 0 ELSE handle.references[d]]])

\* TC_DELETE_CHAIN
DeleteChain(c) ==
    /\ Editing
    /\ c \in Chains(handle) \ BuiltIns
    /\ handle.references[c] = 0
    /\ Rules[c] = <<>>
    /\ Edit([handle EXCEPT !.rules = Restrict(@, Chains(handle) \ {c}),
                           !.references = Restrict(@, Chains(handle) \ {c})])

\* A counter map that is not the normal one stays.
Zeroed(r) ==
    IF r.map.type = "normal"
    THEN [r EXCEPT !.map.type = "zeroed", !.less = r.counters] ELSE r

\* TC_ZERO_ENTRIES
ZeroEntries(c) ==
    /\ Editing
    /\ c \in Chains(handle)
    /\ Edit([handle EXCEPT
           !.rules[c] = [n \in DOMAIN @ |-> Zeroed(@[n])],
           !.policy = [b \in BuiltIns |-> IF b = c THEN Zeroed(@[b]) ELSE @[b]]])

\* TC_ZERO_COUNTER and TC_SET_COUNTER count rules from 1.
ZeroCounter(c, n) ==
    /\ Editing
    /\ c \in Chains(handle)
    /\ n \in DOMAIN Rules[c]
    /\ Edit([handle EXCEPT !.rules[c][n] = Zeroed(@)])

Counting(type, r, value) ==
    [r EXCEPT !.map.type = type, !.counters = value,
              !.from = None, !.less = IF type = "set" THEN -value ELSE 0]

SetCounter(c, n) ==
    /\ Editing
    /\ c \in Chains(handle)
    /\ n \in DOMAIN Rules[c]
    /\ Edit([handle EXCEPT !.rules[c][n] = Counting("set", @, Given)])

\* TC_SET_POLICY, with counters or without.
SetPolicy(b, verdict) ==
    /\ Editing
    /\ LET p == [Policies[b] EXCEPT !.verdict = verdict] IN
       \/ Edit([handle EXCEPT !.policy[b] = Counting("set", p, Given)])
       \/ Edit([handle EXCEPT !.policy[b] = Counting("none", p, p.counters)])

-----------------------------------------------------------------------------
(* The kernel.                                                             *)

\* A packet meets an entry; which entries a packet meets does not matter here.
\* Before a table is read and after a commit packets only change what the
\* counters are; Init has them at a value of its own instead.
Packet(i) ==
    /\ packets < MaxPackets /\ handle # None
    /\ kernel.entries[i].due # None
    /\ packets' = packets + 1
    /\ kernel' = [kernel EXCEPT !.entries[i].counters = (@ + 1) % Modulus,
                                !.entries[i].due = (@ + 1) % Modulus]
    /\ UNCHANGED <<handle, replaced, lost, edits, reads>>

\* The kernel knows no extension of a chain's name.  It may refuse other
\* tables too, jumps in a circle among them; then nothing changes.
Acceptable(h) ==
    \A at \in AllRules(h.rules) :
        LET r == h.rules[at[1]][at[2]] IN r.type = "module" => r.arg \in Modules

-----------------------------------------------------------------------------
(* TC_INIT, TC_COMMIT, TC_FREE.                                            *)

ReadTable ==
    /\ handle = None
    /\ reads < MaxReads
    /\ handle' = Parse(kernel)
    /\ reads' = reads + 1
    /\ UNCHANGED <<kernel, replaced, lost, edits, packets>>

\* The first half of TC_COMMIT, SO_SET_REPLACE: fails if the table in the
\* kernel has not the size the handle knows.
Replace ==
    /\ handle # None
    /\ replaced = None
    /\ handle.changed
    /\ Acceptable(handle)
    /\ handle.num = Len(kernel.entries)
    /\ kernel' = Compile(handle)
    /\ replaced' = [i \in DOMAIN kernel.entries |-> kernel.entries[i].counters]
    /\ UNCHANGED <<handle, lost, counts>>

\* counters_nomap, counters_normal_map, counters_map_zeroed, counters_map_set
MapBack(r) ==
    CASE r.map.type = "none" -> 0
      [] r.map.type = "normal" -> replaced[r.map.pos]
      [] r.map.type = "zeroed" -> (replaced[r.map.pos] - r.counters) % Modulus
      [] r.map.type = "set" -> r.counters

\* The counters of the new table, in its order.
NewCounters ==
    LET layout == Layout(handle)
        Back(slot) ==
            CASE slot.what = "rule" -> MapBack(Rules[slot.chain][slot.n])
              [] slot.what = "foot" /\ slot.chain \in BuiltIns ->
                    MapBack(Policies[slot.chain])
              [] OTHER -> 0
    IN [i \in DOMAIN layout |-> Back(layout[i])]

\* The second half, SO_SET_ADD_COUNTERS.
AddCounters ==
    /\ replaced # None
    /\ LET more == NewCounters IN
       kernel' = [kernel EXCEPT !.entries =
          [i \in DOMAIN kernel.entries |->
              [kernel.entries[i] EXCEPT !.counters = (@ + more[i]) % Modulus]]]
    /\ replaced' = None
    /\ handle' = None
    /\ UNCHANGED <<lost, counts>>

\* It fails: the handle is kept, as it is after any other failure.
AddCountersFails ==
    /\ replaced # None
    /\ replaced' = None
    /\ lost' = TRUE
    /\ UNCHANGED <<kernel, handle, counts>>

\* TC_COMMIT of an unchanged handle, or TC_FREE of any.
Free ==
    /\ handle # None
    /\ replaced = None
    /\ handle' = None
    /\ UNCHANGED <<kernel, replaced, lost, counts>>
-----------------------------------------------------------------------------
\* What a table in the kernel may be made of.
InitialRule(type, arg) ==
    [type |-> type, arg |-> arg, map |-> Unmapped("none"), counters |-> 0,
     from |-> None, less |-> 0]

InitialRules(names) ==
    {<<>>}
        \cup {<<InitialRule("standard", Accept)>>, <<InitialRule("fallthrough", None)>>}
        \cup {<<InitialRule("module", m)>> : m \in Modules}
        \cup {<<InitialRule("jump", d)>> : d \in names \ BuiltIns}

InitialHandles ==
    UNION {{[rules |-> rules,
             policy |-> [b \in BuiltIns |->
                [verdict |-> Accept, map |-> Unmapped("none"), counters |-> 0,
                 from |-> None, less |-> 0]]] :
               rules \in {f \in [names -> InitialRules(names)] :
                              Cardinality(AllRules(f)) <= MaxInitial}} :
           names \in {BuiltIns \cup S : S \in SUBSET UserChains}}

\* The table t after every entry has met the same number of packets.
Met(t, number) ==
    [t EXCEPT !.entries = [i \in DOMAIN t.entries |->
        IF t.entries[i].due = None THEN t.entries[i]
        ELSE [t.entries[i] EXCEPT !.counters = number, !.due = number]]]

Init ==
    /\ \E h \in InitialHandles : kernel = Met(Compile(h), Given)
    /\ handle = None
    /\ replaced = None
    /\ lost = FALSE
    /\ edits = 0 /\ reads = 0 /\ packets = 0

Next ==
    \/ ReadTable
    \/ \E c \in BuiltIns \cup UserChains :
          \/ \E n \in 0..MaxRules, t \in Targets : InsertEntry(c, n, t) \/ ReplaceEntry(c, n, t)
          \/ \E t \in Targets : DeleteEntry(c, t) \/ DeleteNothing(c, t)
          \/ \E n \in 0..MaxRules : DeleteNumEntry(c, n) \/ ZeroCounter(c, n) \/ SetCounter(c, n)
          \/ FlushEntries(c) \/ ZeroEntries(c)
          \/ CreateChain(c) \/ DeleteChain(c)
    \/ \E b \in BuiltIns, verdict \in {Accept, Drop} : SetPolicy(b, verdict)
    \/ Replace \/ AddCounters \/ AddCountersFails \/ Free
    \/ \E i \in DOMAIN kernel.entries : Packet(i)

Spec == Init /\ [][Next]_vars

-----------------------------------------------------------------------------
(* Properties.                                                             *)

Map == [type : {"none", "normal", "zeroed", "set"}, pos : Nat \ {0}]

Rule ==
    [type : {"standard", "fallthrough", "module", "jump"},
     arg : {Accept, None} \cup UserChains \cup Modules,
     map : Map, counters : 0..(Modulus - 1), from : Nat \cup {None}, less : Int]

\* Among the types: no chain's count of references is ever taken below zero.
TypeOK ==
    /\ \A i \in DOMAIN kernel.entries : kernel.entries[i].counters \in 0..(Modulus - 1)
    /\ handle # None =>
          /\ Chains(handle) \subseteq BuiltIns \cup UserChains
          /\ handle.rules \in [Chains(handle) -> Seq(Rule)]
          /\ handle.references \in [Chains(handle) -> Nat]
          /\ \A b \in BuiltIns : Policies[b].map \in Map
    /\ lost \in BOOLEAN

\* Whatever is edited, the references of a chain are the jumps to it, so a
\* chain that is jumped to is not deleted and one that is not can be.
ReferencesCount ==
    handle # None =>
        /\ \A c \in Chains(handle) :
              handle.references[c] = Cardinality(JumpsTo(Rules, c))
        /\ \A at \in AllRules(Rules) :
              LET r == Rules[at[1]][at[2]] IN r.type = "jump" => r.arg \in Chains(handle)

\* A commit gives the kernel the rules of the handle: read again they are
\* the same, and every jump arrives right behind a header.
Content(h) ==
    [policy |-> [b \in BuiltIns |-> h.policy[b].verdict],
     rules |-> [c \in Chains(h) |->
                   [n \in DOMAIN h.rules[c] |->
                       [type |-> h.rules[c][n].type, arg |-> h.rules[c][n].arg]]]]

JumpsArrive(t) ==
    \A i \in DOMAIN t.entries :
        t.entries[i].target = "standard" /\ t.entries[i].arg >= 0 =>
            \E j \in 2..Len(t.entries) :
                /\ OffsetsOf(t)[j] = t.entries[i].arg
                /\ j = i + 1 \/ t.entries[j - 1].target = "error"

CommitIsExact ==
    [][replaced = None /\ replaced' # None =>
          Content(Parse(kernel')) = Content(handle) /\ JumpsArrive(kernel')]_vars

\* Through any edits and commits every rule and policy keeps its count,
\* the packets that pass in the meantime and during the commit included,
\* unless it was zeroed, set or new; unless the second half of a commit
\* failed.
KeepsCounters ==
    replaced = None /\ ~lost =>
        \A i \in DOMAIN kernel.entries :
            kernel.entries[i].due # None =>
                kernel.entries[i].counters = kernel.entries[i].due
=============================================================================
